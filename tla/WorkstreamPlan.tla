-------------------------- MODULE WorkstreamPlan --------------------------
(***************************************************************************)
(* A workstream plan: the record internal/workstream/plans.go keeps on     *)
(* disk, the operators who edit, approve and reconcile it over HTTP, and   *)
(* the agent, Team and Chronos runs that execute its stages                *)
(* (internal/server/workstream_plan_execution.go and the three handlers of *)
(* server.go).                                                             *)
(*                                                                         *)
(* Every mutation of the store happens under one lock and one atomic file  *)
(* write, so it is one action; what a caller read before it is a snapshot  *)
(* that may be stale by then. A definition is the sequence of its stage    *)
(* ids and a stage is named by its position. A run's id is the trace id    *)
(* its handler draws, which no other handler draws again. An attempt holds *)
(* acceptance evidence exactly when its status is "completed", so the      *)
(* evidence is not a field of its own.                                     *)
(***************************************************************************)
EXTENDS Naturals, Sequences, FiniteSets

CONSTANTS Runs,        \* handlers that execute a stage, by trace id
          Operators,   \* clients of the plan endpoints
          Definitions, \* validated plan definitions
          MaxRevision, \* the largest uint64
          MaxAttempts, \* attempts one stage may have: 32
          NoPlan, NoRun, NoDefinition

ASSUME PlanAssumption ==
  /\ IsFiniteSet(Runs)
  /\ \A d \in Definitions : d \in Seq(STRING) /\ d # <<>>
  /\ MaxRevision \in Nat \ {0}
  /\ MaxAttempts \in Nat \ {0}
  /\ NoRun \notin Runs
  /\ NoDefinition \notin Definitions

VARIABLES plan,       \* the stored record, or NoPlan
          seen,       \* operator -> what its last read showed, or NoPlan
          cleared,    \* operators whose reconciliation found no active run
          run,        \* run -> where its handler is and what it holds
          active,     \* Server.activePlanRuns
          approvals   \* history: the <<revision, definition>> an approver had read

vars == <<plan, seen, cleared, run, active, approvals>>

Revisions == 1 .. MaxRevision

StageStatuses == {"pending", "running", "completed", "failed"}
Attempts == [run : Runs, revision : Revisions, status : StageStatuses \ {"pending"}]
PlanStages == [status : StageStatuses, attempts : Seq(Attempts)]
Plans ==
  [revision : Revisions, stateRevision : Revisions, approvedRevision : 0 .. MaxRevision,
   status : {"draft", "approved", "executing", "completed", "failed"},
   definition : Definitions, stages : Seq(PlanStages)]

ASSUME NoPlanAssumption == NoPlan \notin Plans

Views == [revision : Revisions, stateRevision : Revisions, definition : Definitions,
          running : Runs \cup {NoRun}]

Handlers ==
  [pc : {"idle", "read", "registered", "executing", "returning", "ended", "crashed"},
   revision : 0 .. MaxRevision, stateRevision : 0 .. MaxRevision, stage : Nat,
   receipt : {"none", "accepted", "rejected"}]

TypeOK ==
  /\ plan \in Plans \cup {NoPlan}
  /\ seen \in [Operators -> Views \cup {NoPlan}]
  /\ cleared \subseteq Operators
  /\ run \in [Runs -> Handlers]
  /\ active \subseteq Runs
  /\ approvals \subseteq Revisions \X Definitions

-----------------------------------------------------------------------------
(* Reading a record.                                                       *)

Last(stage) == stage.attempts[Len(stage.attempts)]

Positions(p) == DOMAIN p.stages
InState(p, status) == {i \in Positions(p) : p.stages[i].status = status}
HasAttempts(p) == \E i \in Positions(p) : p.stages[i].attempts # <<>>
RunsOf(p) ==
  UNION {{p.stages[i].attempts[k].run : k \in DOMAIN p.stages[i].attempts} : i \in Positions(p)}

\* The run that holds the running stage.
RunningRun(p) ==
  IF p = NoPlan \/ InState(p, "running") = {} THEN NoRun
  ELSE Last(p.stages[CHOOSE i \in InState(p, "running") : TRUE]).run

ViewOf(p) == [revision |-> p.revision, stateRevision |-> p.stateRevision,
              definition |-> p.definition, running |-> RunningRun(p)]

\* What the loader and every write demand of a record.
ValidStage(p, i) ==
  LET s == p.stages[i]
      n == Len(s.attempts)
  IN /\ n <= MaxAttempts
     /\ \A k \in 1 .. n : s.attempts[k].revision = p.revision
     /\ \A k \in 1 .. (n - 1) : s.attempts[k].status = "failed"
     /\ IF s.status = "pending" THEN n = 0 ELSE n > 0 /\ Last(s).status = s.status

DistinctRuns(p) ==
  \A i, j \in Positions(p) :
    \A k \in DOMAIN p.stages[i].attempts, m \in DOMAIN p.stages[j].attempts :
      p.stages[i].attempts[k].run = p.stages[j].attempts[m].run => i = j /\ k = m

ValidPlanRecord(p) ==
  /\ p.approvedRevision = IF p.status = "draft" THEN 0 ELSE p.revision
  /\ Len(p.stages) = Len(p.definition)
  /\ \A i \in Positions(p) : ValidStage(p, i)
  /\ DistinctRuns(p)
  /\ \A i, j \in InState(p, "running") : i = j
  /\ p.status \in {"draft", "approved"} => InState(p, "pending") = Positions(p)
  /\ p.status = "executing" => InState(p, "failed") = {}
  /\ p.status = "failed" => InState(p, "running") = {} /\ InState(p, "failed") # {}
  /\ p.status = "completed" => InState(p, "completed") = Positions(p)

-----------------------------------------------------------------------------
(* The transitions of the store.                                           *)

Fresh(d) == [i \in 1 .. Len(d) |-> [status |-> "pending", attempts |-> <<>>]]

\* The caller's snapshot is still the stored state.
Current_Unchecked(at) == plan # NoPlan
Current(at) ==
  /\ plan # NoPlan
  /\ plan.revision = at.revision
  /\ plan.stateRevision = at.stateRevision

MutatePlan(at, p) ==
  /\ Current(at)
  /\ plan.stateRevision # MaxRevision
  /\ plan' = [p EXCEPT !.stateRevision = plan.stateRevision + 1]
  /\ ValidPlanRecord(plan')

CanUpdate_AfterFailure(p) == p.status \in {"draft", "approved", "failed"}
CanUpdate(p) == p.status \in {"draft", "approved"} /\ ~HasAttempts(p)
Updated(p, d) ==
  [p EXCEPT !.revision = @ + 1, !.status = "draft", !.approvedRevision = 0,
            !.definition = d, !.stages = Fresh(d)]

CanApprove(p) == p.status = "draft" /\ p.approvedRevision = 0 /\ p.stages # <<>> /\ ~HasAttempts(p)
Approved(p) == [p EXCEPT !.status = "approved", !.approvedRevision = p.revision]

Executable(p) ==
  p.approvedRevision = p.revision /\ p.status \in {"approved", "executing", "failed"}

CanBegin_OutOfOrder(p, i, r) ==
  /\ Executable(p)
  /\ InState(p, "running") = {}
  /\ i \in InState(p, "pending") \cup InState(p, "failed")
  /\ r \notin RunsOf(p)
  /\ Len(p.stages[i].attempts) < MaxAttempts
CanBegin_Concurrent(p, i, r) ==
  /\ Executable(p)
  /\ i \in InState(p, "pending") \cup InState(p, "failed")
  /\ r \notin RunsOf(p)
  /\ Len(p.stages[i].attempts) < MaxAttempts
CanBegin(p, i, r) ==
  /\ Executable(p)
  /\ InState(p, "running") = {}
  /\ i \in InState(p, "pending") \cup InState(p, "failed")
  /\ 1 .. (i - 1) \subseteq InState(p, "completed")
  /\ r \notin RunsOf(p)
  /\ Len(p.stages[i].attempts) < MaxAttempts
Begun(p, i, r) ==
  [p EXCEPT !.status = "executing",
            !.stages[i] = [status |-> "running",
                           attempts |-> Append(@.attempts, [run |-> r, revision |-> p.revision,
                                                            status |-> "running"])]]

\* The checks FinishPlanStage and ReconcilePlanStage share: run r holds stage i.
Holds(p, i, r) ==
  /\ p.status = "executing"
  /\ i \in InState(p, "running")
  /\ p.stages[i].attempts # <<>>
  /\ Last(p.stages[i]) = [run |-> r, revision |-> p.revision, status |-> "running"]

Closed(stage, outcome) ==
  [status |-> outcome,
   attempts |-> [stage.attempts EXCEPT ![Len(stage.attempts)] = [@ EXCEPT !.status = outcome]]]

Failed(p, i) ==
  [p EXCEPT !.status = "failed", !.stages[i] = Closed(@, "failed")]
Completed(p, i) ==
  [p EXCEPT !.status = IF Positions(p) = InState(p, "completed") \cup {i} THEN "completed" ELSE @,
            !.stages[i] = Closed(@, "completed")]

-----------------------------------------------------------------------------
Init ==
  /\ plan = NoPlan
  /\ seen = [o \in Operators |-> NoPlan]
  /\ cleared = {}
  /\ run = [r \in Runs |-> [pc |-> "idle", revision |-> 0, stateRevision |-> 0,
                            stage |-> 0, receipt |-> "none"]]
  /\ active = {}
  /\ approvals = {}

(* Operators.                                                              *)

CreatePlan(d) ==
  /\ plan = NoPlan
  /\ plan' = [revision |-> 1, stateRevision |-> 1, approvedRevision |-> 0,
              status |-> "draft", definition |-> d, stages |-> Fresh(d)]
  /\ ValidPlanRecord(plan')
  /\ UNCHANGED <<seen, cleared, run, active, approvals>>

GetPlan(o) ==
  /\ plan # NoPlan
  /\ o \notin cleared
  /\ seen[o] # ViewOf(plan)
  /\ seen' = [seen EXCEPT ![o] = ViewOf(plan)]
  /\ UNCHANGED <<plan, cleared, run, active, approvals>>

UpdatePlan(o, d) ==
  /\ seen[o] # NoPlan
  /\ o \notin cleared
  /\ CanUpdate(plan)
  /\ MutatePlan(seen[o], Updated(plan, d))
  /\ plan.revision # MaxRevision
  /\ UNCHANGED <<seen, cleared, run, active, approvals>>

ApprovePlan(o) ==
  /\ seen[o] # NoPlan
  /\ o \notin cleared
  /\ CanApprove(plan)
  /\ MutatePlan(seen[o], Approved(plan))
  /\ approvals' = approvals \cup {<<seen[o].revision, seen[o].definition>>}
  /\ UNCHANGED <<seen, cleared, run, active>>

\* The reconcile handler looks for an active run of the process before it
\* takes the store's lock.
CheckActive(o) ==
  /\ seen[o] # NoPlan
  /\ o \notin cleared
  /\ seen[o].running \notin active \cup {NoRun}
  /\ cleared' = cleared \cup {o}
  /\ UNCHANGED <<plan, seen, run, active, approvals>>

ReconcilePlanStage(o) ==
  /\ o \in cleared
  /\ \E i \in 1 .. Len(seen[o].definition) :
       /\ Holds(plan, i, seen[o].running)
       /\ MutatePlan(seen[o], Failed(plan, i))
  /\ cleared' = cleared \ {o}
  /\ UNCHANGED <<seen, run, active, approvals>>

ReconcileRefused(o) ==
  /\ o \in cleared
  /\ ~Current(seen[o]) \/ plan.stateRevision = MaxRevision
  /\ cleared' = cleared \ {o}
  /\ UNCHANGED <<plan, seen, run, active, approvals>>

-----------------------------------------------------------------------------
(* A handler that executes a stage.                                        *)

Goes(r, from, to) == run[r].pc = from /\ run' = [run EXCEPT ![r].pc = to]

\* The handler reads the plan and finds it approved, with stage i in it.
ReadPlan(r, i) ==
  /\ run[r].pc = "idle"
  /\ plan # NoPlan
  /\ Executable(plan)
  /\ i \in Positions(plan)
  /\ run' = [run EXCEPT ![r] = [@ EXCEPT !.pc = "read", !.revision = plan.revision,
                                         !.stateRevision = plan.stateRevision, !.stage = i]]
  /\ UNCHANGED <<plan, seen, cleared, active, approvals>>

RegisterActive_Omitted(r) ==
  /\ Goes(r, "read", "registered")
  /\ UNCHANGED <<plan, seen, cleared, active, approvals>>
RegisterActive(r) ==
  /\ Goes(r, "read", "registered")
  /\ active' = active \cup {r}
  /\ UNCHANGED <<plan, seen, cleared, approvals>>

BeginPlanStage(r) ==
  /\ run[r].pc = "registered"
  /\ CanBegin(plan, run[r].stage, r)
  /\ MutatePlan(run[r], Begun(plan, run[r].stage, r))
  /\ run' = [run EXCEPT ![r] = [@ EXCEPT !.pc = "executing", !.stateRevision = plan'.stateRevision]]
  /\ UNCHANGED <<seen, cleared, active, approvals>>

\* A stale snapshot, a stage that is not eligible, or a failed write.
BeginRefused(r) ==
  /\ Goes(r, "registered", "returning")
  /\ UNCHANGED <<plan, seen, cleared, active, approvals>>

\* The run writes its only receipt. It is "accepted" when it is bound to this
\* attempt, verification passed and every criterion is complete.
ReceiptWritten(r, verdict) ==
  /\ run[r].pc = "executing"
  /\ run[r].receipt = "none"
  /\ run' = [run EXCEPT ![r].receipt = verdict]
  /\ UNCHANGED <<plan, seen, cleared, active, approvals>>

Earned_Always(r) == TRUE
Earned(r) == run[r].receipt = "accepted"

\* RunCompleted with a summary that agrees with the receipt.
FinishCompleted(r) ==
  /\ Goes(r, "executing", "returning")
  /\ Earned(r)
  /\ Holds(plan, run[r].stage, r)
  /\ MutatePlan(run[r], Completed(plan, run[r].stage))
  /\ UNCHANGED <<seen, cleared, active, approvals>>

\* RunFailed, or a summary that disagrees with the receipt.
FinishFailed(r) ==
  /\ Goes(r, "executing", "returning")
  /\ Holds(plan, run[r].stage, r)
  /\ MutatePlan(run[r], Failed(plan, run[r].stage))
  /\ UNCHANGED <<seen, cleared, active, approvals>>

\* FinishPlanStage returned an error, which the handler only logs.
FinishUnrecorded(r) ==
  /\ Goes(r, "executing", "returning")
  /\ UNCHANGED <<plan, seen, cleared, active, approvals>>

Return_KeepsKey(r) ==
  /\ Goes(r, "returning", "ended")
  /\ UNCHANGED <<plan, seen, cleared, active, approvals>>
Return(r) ==
  /\ Goes(r, "returning", "ended")
  /\ active' = active \ {r}
  /\ UNCHANGED <<plan, seen, cleared, approvals>>

InFlight(r) == run[r].pc \notin {"idle", "ended", "crashed"}

\* The process dies with a run in flight; the record and what operators have
\* on their screens survive it.
Crash ==
  /\ \E r \in Runs : InFlight(r)
  /\ run' = [r \in Runs |-> IF InFlight(r) THEN [run[r] EXCEPT !.pc = "crashed"] ELSE run[r]]
  /\ active' = {}
  /\ cleared' = {}
  /\ UNCHANGED <<plan, seen, approvals>>

Next ==
  \/ \E d \in Definitions : CreatePlan(d)
  \/ \E o \in Operators :
       \/ GetPlan(o)
       \/ \E d \in Definitions : UpdatePlan(o, d)
       \/ ApprovePlan(o)
       \/ CheckActive(o)
       \/ ReconcilePlanStage(o)
       \/ ReconcileRefused(o)
  \/ \E r \in Runs :
       \/ plan # NoPlan /\ \E i \in Positions(plan) : ReadPlan(r, i)
       \/ RegisterActive(r)
       \/ BeginPlanStage(r)
       \/ BeginRefused(r)
       \/ \E verdict \in {"accepted", "rejected"} : ReceiptWritten(r, verdict)
       \/ FinishCompleted(r)
       \/ FinishFailed(r)
       \/ FinishUnrecorded(r)
       \/ Return(r)
  \/ Crash

Spec == Init /\ [][Next]_vars

-----------------------------------------------------------------------------
(* Properties.                                                             *)

\* A run that executes a stage holds that stage in the stored record, at the
\* state revision it will finish with: nobody reconciles, reopens or restarts
\* the plan under a live run, two runs never work on one plan, and the result
\* of a run is never refused as stale. activePlanRuns is looked up before the
\* lock of the store is taken, so the order in which a handler registers and
\* begins is what keeps an operator from closing a live attempt.
ExecutorHoldsStage ==
  \A r \in Runs : run[r].pc = "executing" =>
    /\ plan # NoPlan
    /\ plan.revision = run[r].revision
    /\ plan.stateRevision = run[r].stateRevision
    /\ Holds(plan, run[r].stage, r)

\* Execution only ever works on a definition that an approver had read in
\* exactly this form, however many operators edit and approve at once.
ExecutedAsApproved ==
  plan # NoPlan /\ HasAttempts(plan) => <<plan.revision, plan.definition>> \in approvals

\* A stage counts as completed only through a run that was started for this
\* stage of this revision and wrote an accepting receipt: no failed, crashed
\* or reconciled attempt ever turns into acceptance.
AcceptanceIsEarned ==
  plan # NoPlan =>
    \A i \in InState(plan, "completed") :
      LET h == run[Last(plan.stages[i]).run]
      IN h.receipt = "accepted" /\ h.stage = i /\ h.revision = plan.revision

\* The checks of a transition are enough for the validation that follows it:
\* validatePlanRecord never turns down a change whose own conditions hold, so
\* no legal request is answered as corruption and no stage is stuck on it.
ValidationAgrees ==
  plan # NoPlan =>
    /\ CanApprove(plan) => ValidPlanRecord(Approved(plan))
    /\ CanUpdate(plan) => \A d \in Definitions : ValidPlanRecord(Updated(plan, d))
    /\ \A i \in Positions(plan), r \in Runs :
         /\ CanBegin(plan, i, r) => ValidPlanRecord(Begun(plan, i, r))
         /\ Holds(plan, i, r) => ValidPlanRecord(Failed(plan, i)) /\ ValidPlanRecord(Completed(plan, i))

\* The history of a plan is kept: an attempt that is settled stays in its
\* place with its outcome, and the definition it ran under does not change.
HistoryKept ==
  [][plan # NoPlan =>
       \A i \in Positions(plan) : \A k \in DOMAIN plan.stages[i].attempts :
         /\ plan'.definition = plan.definition
         /\ k \in DOMAIN plan'.stages[i].attempts
         /\ plan.stages[i].attempts[k].status # "running" =>
              plan'.stages[i].attempts[k] = plan.stages[i].attempts[k]]_vars

Lifecycle ==
  INSTANCE PlanLifecycle WITH
    agreed <- IF plan = NoPlan \/ plan.status = "draft" THEN NoDefinition ELSE plan.definition,
    accepted <- IF plan = NoPlan THEN {} ELSE InState(plan, "completed"),
    worker <- RunningRun(plan),
    stage <- IF RunningRun(plan) = NoRun THEN 0 ELSE CHOOSE i \in InState(plan, "running") : TRUE,
    used <- IF plan = NoPlan THEN {} ELSE RunsOf(plan)

\* The store, its clients and its runs implement the promise of PlanLifecycle:
\* approval before work, stages accepted in order, one worker at a time and
\* every run at most once, through stale snapshots, failed writes, crashes and
\* reconciliations.
ImplementsLifecycle == Lifecycle!Spec

=============================================================================
