------------------------ MODULE WorkstreamPlanProofs ------------------------
(***************************************************************************)
(* Proofs about workstream plans, for every number of runs, operators,     *)
(* definitions, stages and attempts.                                       *)
(*                                                                         *)
(* ExecutorHoldsStage is not inductive: that no operator closes a live     *)
(* attempt depends on what the operators have on their screens and on the  *)
(* table of active runs.  PlanInv adds those two links.                    *)
(***************************************************************************)
EXTENDS WorkstreamPlan, SequenceTheorems, TLAPS

\* Where a handler can be once its BeginPlanStage has been written.
BegunPlaces == {"executing", "returning", "ended", "crashed"}
OverPlaces == {"ended", "crashed"}

\* The loader would accept the stored record.
StoredIsValid == plan # NoPlan => ValidPlanRecord(plan)

\* Whoever holds a running stage has begun it.
HolderHasBegun ==
  plan # NoPlan => \A i \in InState(plan, "running") : run[Last(plan.stages[i]).run].pc \in BegunPlaces

\* A handler is in the table of active runs from before its begin until it
\* returns.
ActiveWhileWorking ==
  \A r \in Runs : run[r].pc \in {"registered", "executing", "returning"} => r \in active

\* A run an operator has on the screen has begun, and one that an operator has
\* found inactive is over for good.
SeenHasBegun ==
  \A o \in Operators : seen[o] # NoPlan /\ seen[o].running # NoRun =>
    run[seen[o].running].pc \in BegunPlaces
ClearedIsOver ==
  \A o \in cleared : /\ seen[o] # NoPlan
                     /\ seen[o].running # NoRun
                     /\ run[seen[o].running].pc \in OverPlaces

PlanInv ==
  /\ TypeOK
  /\ StoredIsValid
  /\ HolderHasBegun
  /\ ActiveWhileWorking
  /\ SeenHasBegun
  /\ ClearedIsOver
  /\ ExecutorHoldsStage
-----------------------------------------------------------------------------
\* Replacing one element of a sequence.
LEMMA SeqExcept ==
  ASSUME NEW S, NEW q \in Seq(S), NEW i \in DOMAIN q, NEW x \in S
  PROVE  /\ [q EXCEPT ![i] = x] \in Seq(S)
         /\ DOMAIN [q EXCEPT ![i] = x] = DOMAIN q
         /\ [q EXCEPT ![i] = x][i] = x
         /\ \A j \in DOMAIN q : j # i => [q EXCEPT ![i] = x][j] = q[j]
BY ExceptSeq

\* The last element of a sequence that was appended to.
LEMMA LastAppended ==
  ASSUME NEW S, NEW q \in Seq(S), NEW x \in S
  PROVE  /\ Append(q, x)[Len(Append(q, x))] = x
         /\ Append(q, x) # <<>>
OBVIOUS

\* The revisions an approval may name.
LEMMA RevisionRange ==
  /\ 0 \in 0 .. MaxRevision
  /\ 1 \in Revisions
  /\ \A n \in Revisions : n \in 0 .. MaxRevision /\ (n # MaxRevision => n + 1 \in Revisions)
BY PlanAssumption DEF Revisions

\* The stages of a record and their attempts.
LEMMA StageTypes ==
  ASSUME NEW p \in Plans, NEW i \in Positions(p)
  PROVE  p.stages[i] \in PlanStages /\ p.stages[i].attempts \in Seq(Attempts)
<1>1. p.stages[i] \in PlanStages
  BY DEF Plans, Positions
<1> QED
  BY <1>1 DEF PlanStages

\* A record q that differs from p in its status, its state revision and stage i.
StageWritten(p, q, i, s, st) ==
  /\ q \in Plans
  /\ q.revision = p.revision
  /\ q.stateRevision = p.stateRevision + 1
  /\ q.approvedRevision = p.approvedRevision
  /\ q.definition = p.definition
  /\ q.status = st
  /\ Positions(q) = Positions(p)
  /\ q.stages[i] = s
  /\ \A j \in Positions(p) : j # i => q.stages[j] = p.stages[j]

\* One write of a stage, as BeginPlanStage, FinishPlanStage and
\* ReconcilePlanStage perform it.
LEMMA WriteStage ==
  ASSUME NEW p \in Plans, NEW i \in Positions(p), NEW s \in PlanStages,
         NEW st \in {"draft", "approved", "executing", "completed", "failed"},
         p.stateRevision # MaxRevision,
         NEW q, q = [[p EXCEPT !.status = st, !.stages[i] = s]
                       EXCEPT !.stateRevision = p.stateRevision + 1]
  PROVE  StageWritten(p, q, i, s, st)
<1>1. /\ p.stages \in Seq(PlanStages)
      /\ i \in DOMAIN p.stages
  BY DEF Plans, Positions
<1> DEFINE w == [p.stages EXCEPT ![i] = s]
<1>2. /\ w \in Seq(PlanStages)
      /\ DOMAIN w = DOMAIN p.stages
      /\ w[i] = s
      /\ \A j \in DOMAIN p.stages : j # i => w[j] = p.stages[j]
  BY <1>1, SeqExcept
<1>3. p.stateRevision + 1 \in Revisions
  BY PlanAssumption DEF Plans, Revisions
<1>4. q = [p EXCEPT !.status = st, !.stages = w, !.stateRevision = p.stateRevision + 1]
  BY DEF Plans
<1> HIDE DEF w
<1>5. /\ q.revision = p.revision
      /\ q.stateRevision = p.stateRevision + 1
      /\ q.approvedRevision = p.approvedRevision
      /\ q.definition = p.definition
      /\ q.status = st
      /\ q.stages = w
  BY <1>4 DEF Plans
<1>6. q \in Plans
  BY <1>2, <1>3, <1>4 DEF Plans
<1> QED
  BY <1>2, <1>5, <1>6 DEF StageWritten, Positions

\* The stage a run begins: one more attempt, which is running.
BegunStage(p, i, r) ==
  [status |-> "running",
   attempts |-> Append(p.stages[i].attempts, [run |-> r, revision |-> p.revision, status |-> "running"])]

\* What a successful BeginPlanStage writes.
LEMMA BeginWrites ==
  ASSUME TypeOK, NEW r \in Runs, BeginPlanStage(r)
  PROVE  LET i == run[r].stage
         IN /\ plan \in Plans
            /\ i \in Positions(plan)
            /\ StageWritten(plan, plan', i, BegunStage(plan, i, r), "executing")
            /\ Last(plan'.stages[i]) = [run |-> r, revision |-> plan.revision, status |-> "running"]
            /\ plan'.stages[i].attempts # <<>>
            /\ InState(plan, "running") = {}
            /\ plan.revision = run[r].revision
<1> DEFINE i == run[r].stage
           a == [run |-> r, revision |-> plan.revision, status |-> "running"]
<1>1. /\ plan \in Plans
      /\ plan.revision = run[r].revision
      /\ plan.stateRevision # MaxRevision
  BY DEF BeginPlanStage, MutatePlan, Current, TypeOK
<1>2. /\ i \in Positions(plan)
      /\ InState(plan, "running") = {}
  BY DEF BeginPlanStage, CanBegin, InState
<1>3. plan.stages[i] \in PlanStages
  BY <1>1, <1>2 DEF Plans, Positions
<1>4. a \in Attempts
  BY <1>1 DEF Attempts, Plans, StageStatuses
<1>5. BegunStage(plan, i, r) \in PlanStages
  BY <1>3, <1>4 DEF PlanStages, BegunStage, StageStatuses
<1>6. plan' = [[plan EXCEPT !.status = "executing", !.stages[i] = BegunStage(plan, i, r)]
                 EXCEPT !.stateRevision = plan.stateRevision + 1]
  BY DEF BeginPlanStage, MutatePlan, Begun, BegunStage
<1>7. StageWritten(plan, plan', i, BegunStage(plan, i, r), "executing")
  BY <1>1, <1>2, <1>5, <1>6, WriteStage
<1>8. plan'.stages[i].attempts = Append(plan.stages[i].attempts, a)
  <2>1. plan'.stages[i] = BegunStage(plan, i, r)
    BY <1>7 DEF StageWritten
  <2>2. BegunStage(plan, i, r).attempts = Append(plan.stages[i].attempts, a)
    BY DEF BegunStage
  <2> QED
    BY <2>1, <2>2
<1>9. plan.stages[i].attempts \in Seq(Attempts)
  BY <1>3 DEF PlanStages
<1>10. Last(plan'.stages[i]) = a /\ plan'.stages[i].attempts # <<>>
  <2> HIDE DEF a, i
  <2> QED
    BY <1>4, <1>8, <1>9, LastAppended DEF Last
<1> QED
  BY <1>1, <1>2, <1>7, <1>10

\* Closing an attempt leaves a well-formed stage with the outcome.
LEMMA ClosedStage ==
  ASSUME NEW s \in PlanStages, s.attempts # <<>>, NEW outcome \in {"completed", "failed"}
  PROVE  Closed(s, outcome) \in PlanStages /\ Closed(s, outcome).status = outcome
<1> DEFINE n == Len(s.attempts)
           b == [s.attempts[n] EXCEPT !.status = outcome]
<1>1. s.attempts \in Seq(Attempts) /\ n \in DOMAIN s.attempts
  BY DEF PlanStages
<1>2. b \in Attempts
  <2>1. s.attempts[n] \in Attempts
    BY <1>1
  <2> QED
    BY <2>1 DEF Attempts, StageStatuses
<1>3. [s.attempts EXCEPT ![n] = b] \in Seq(Attempts)
  BY <1>1, <1>2, SeqExcept
<1>4. Closed(s, outcome) = [status |-> outcome, attempts |-> [s.attempts EXCEPT ![n] = b]]
  BY DEF Closed
<1> HIDE DEF b
<1> QED
  BY <1>3, <1>4 DEF PlanStages, StageStatuses

\* A caller that read the plan in state at closes stage i with an outcome.
Closes(at, i, outcome) ==
  \/ outcome = "failed" /\ MutatePlan(at, Failed(plan, i))
  \/ outcome = "completed" /\ MutatePlan(at, Completed(plan, i))

\* What FinishPlanStage and ReconcilePlanStage write when they close stage i
\* as failed or completed.
LEMMA CloseWrites ==
  ASSUME TypeOK, NEW i, NEW r, NEW at, NEW outcome, Holds(plan, i, r), Closes(at, i, outcome)
  PROVE  /\ plan \in Plans
         /\ i \in Positions(plan)
         /\ \E st \in {"executing", "completed", "failed"} :
              StageWritten(plan, plan', i, Closed(plan.stages[i], outcome), st)
         /\ plan'.stages[i].status = outcome
         /\ outcome \in {"completed", "failed"}
<1>1. plan \in Plans /\ plan.stateRevision # MaxRevision
  BY DEF Closes, MutatePlan, Current, TypeOK
<1>2. i \in Positions(plan) /\ plan.stages[i].attempts # <<>> /\ plan.status = "executing"
  BY DEF Holds, InState
<1>3. plan.stages[i] \in PlanStages
  BY <1>1, <1>2, StageTypes
<1>4. outcome \in {"completed", "failed"}
  BY DEF Closes
<1>5. Closed(plan.stages[i], outcome) \in PlanStages /\ Closed(plan.stages[i], outcome).status = outcome
  BY <1>2, <1>3, <1>4, ClosedStage
<1>6. CASE outcome = "failed" /\ MutatePlan(at, Failed(plan, i))
  <2>1. plan' = [[plan EXCEPT !.status = "failed", !.stages[i] = Closed(plan.stages[i], outcome)]
                   EXCEPT !.stateRevision = plan.stateRevision + 1]
    BY <1>6 DEF MutatePlan, Failed
  <2>2. StageWritten(plan, plan', i, Closed(plan.stages[i], outcome), "failed")
    BY <1>1, <1>2, <1>5, <2>1, WriteStage
  <2> QED
    BY <1>1, <1>2, <1>4, <1>5, <2>2 DEF StageWritten
<1>7. CASE outcome = "completed" /\ MutatePlan(at, Completed(plan, i))
  <2> DEFINE st == IF Positions(plan) = InState(plan, "completed") \cup {i} THEN "completed" ELSE "executing"
  <2>1. plan' = [[plan EXCEPT !.status = st, !.stages[i] = Closed(plan.stages[i], outcome)]
                   EXCEPT !.stateRevision = plan.stateRevision + 1]
    BY <1>2, <1>7 DEF MutatePlan, Completed
  <2>2. st \in {"executing", "completed"}
    OBVIOUS
  <2> HIDE DEF st
  <2>3. StageWritten(plan, plan', i, Closed(plan.stages[i], outcome), st)
    BY <1>1, <1>2, <1>5, <2>1, <2>2, WriteStage
  <2> QED
    BY <1>1, <1>2, <1>4, <1>5, <2>2, <2>3 DEF StageWritten
<1> QED
  BY <1>6, <1>7 DEF Closes

\* A new set of stages is all pending.
LEMMA FreshStages ==
  ASSUME NEW d \in Definitions
  PROVE  /\ Fresh(d) \in Seq(PlanStages)
         /\ \A i \in DOMAIN Fresh(d) : Fresh(d)[i].status = "pending"
<1>1. Len(d) \in Nat
  BY PlanAssumption
<1>2. [status |-> "pending", attempts |-> <<>>] \in PlanStages
  BY DEF PlanStages, StageStatuses
<1> QED
  BY <1>1, <1>2 DEF Fresh

\* What CreatePlan, UpdatePlan and ApprovePlan write: a record without a
\* running stage.
LEMMA EditWrites ==
  ASSUME TypeOK,
         \/ \E d \in Definitions : CreatePlan(d)
         \/ \E o \in Operators, d \in Definitions : UpdatePlan(o, d)
         \/ \E o \in Operators : ApprovePlan(o)
  PROVE  /\ plan' \in Plans
         /\ plan' # NoPlan
         /\ plan # NoPlan => plan.status # "executing"
         /\ plan'.status \in {"draft", "approved"}
         /\ ValidPlanRecord(plan')
<1>0. ValidPlanRecord(plan')
  BY DEF CreatePlan, UpdatePlan, ApprovePlan, MutatePlan
<1>1. ASSUME NEW d \in Definitions, CreatePlan(d)
      PROVE  /\ plan' \in Plans /\ plan' # NoPlan
             /\ plan # NoPlan => plan.status # "executing"
             /\ plan'.status \in {"draft", "approved"}
  <2>1. plan' \in Plans
    BY <1>1, RevisionRange, FreshStages DEF CreatePlan, Plans
  <2> QED
    BY <1>1, <2>1, NoPlanAssumption DEF CreatePlan
<1>2. ASSUME NEW o \in Operators, NEW d \in Definitions, UpdatePlan(o, d)
      PROVE  /\ plan' \in Plans /\ plan' # NoPlan
             /\ plan # NoPlan => plan.status # "executing"
             /\ plan'.status \in {"draft", "approved"}
  <2>1. /\ plan \in Plans
        /\ plan.stateRevision # MaxRevision
        /\ plan.revision # MaxRevision
        /\ plan.status \in {"draft", "approved"}
        /\ plan' = [Updated(plan, d) EXCEPT !.stateRevision = plan.stateRevision + 1]
    BY <1>2 DEF UpdatePlan, MutatePlan, Current, CanUpdate, TypeOK
  <2>2. plan.revision + 1 \in Revisions /\ plan.stateRevision + 1 \in Revisions
    BY <2>1, RevisionRange DEF Plans
  <2>3. plan' = [plan EXCEPT !.revision = plan.revision + 1, !.status = "draft",
                             !.approvedRevision = 0, !.definition = d, !.stages = Fresh(d),
                             !.stateRevision = plan.stateRevision + 1]
    BY <2>1 DEF Updated, Plans
  <2>4. Fresh(d) \in Seq(PlanStages) /\ 0 \in 0 .. MaxRevision
    BY RevisionRange, FreshStages
  <2>5. plan' \in Plans
    BY <2>1, <2>2, <2>3, <2>4 DEF Plans
  <2> QED
    BY <2>1, <2>3, <2>5, NoPlanAssumption DEF Plans
<1>3. ASSUME NEW o \in Operators, ApprovePlan(o)
      PROVE  /\ plan' \in Plans /\ plan' # NoPlan
             /\ plan # NoPlan => plan.status # "executing"
             /\ plan'.status \in {"draft", "approved"}
  <2>1. /\ plan \in Plans
        /\ plan.stateRevision # MaxRevision
        /\ plan.status = "draft"
        /\ plan' = [Approved(plan) EXCEPT !.stateRevision = plan.stateRevision + 1]
    BY <1>3 DEF ApprovePlan, MutatePlan, Current, CanApprove, TypeOK
  <2>2. plan.stateRevision + 1 \in Revisions /\ plan.revision \in 0 .. MaxRevision
    BY <2>1, RevisionRange DEF Plans
  <2>3. plan' = [plan EXCEPT !.status = "approved", !.approvedRevision = plan.revision,
                             !.stateRevision = plan.stateRevision + 1]
    BY <2>1 DEF Approved, Plans
  <2>4. plan' \in Plans
    BY <2>1, <2>2, <2>3 DEF Plans
  <2> QED
    BY <2>1, <2>3, <2>4, NoPlanAssumption DEF Plans
<1> QED
  BY <1>0, <1>1, <1>2, <1>3

\* The run that holds a running stage of a valid record.
LEMMA RunningHolder ==
  ASSUME NEW p \in Plans, ValidPlanRecord(p), NEW i \in InState(p, "running")
  PROVE  /\ p.stages[i].attempts # <<>>
         /\ Last(p.stages[i]) \in Attempts
         /\ Last(p.stages[i]).run \in Runs
<1>1. i \in Positions(p) /\ p.stages[i].status = "running"
  BY DEF InState
<1>2. p.stages[i] \in PlanStages
  BY <1>1 DEF Plans, Positions
<1>3. p.stages[i].attempts \in Seq(Attempts)
  BY <1>2 DEF PlanStages
<1>4. Len(p.stages[i].attempts) > 0
  BY <1>1 DEF ValidPlanRecord, ValidStage
<1>5. p.stages[i].attempts # <<>> /\ Last(p.stages[i]) \in Attempts
  BY <1>3, <1>4 DEF Last
<1> QED
  BY <1>5 DEF Attempts

\* What an operator reads about the running stage.
LEMMA ReadsHolder ==
  ASSUME NEW p \in Plans, p # NoPlan, ValidPlanRecord(p)
  PROVE  /\ RunningRun(p) \in Runs \cup {NoRun}
         /\ RunningRun(p) # NoRun =>
              \E i \in InState(p, "running") : RunningRun(p) = Last(p.stages[i]).run
<1>1. CASE InState(p, "running") = {}
  BY <1>1 DEF RunningRun
<1>2. CASE InState(p, "running") # {}
  <2> DEFINE i == CHOOSE j \in InState(p, "running") : TRUE
  <2>1. i \in InState(p, "running")
    BY <1>2
  <2>2. RunningRun(p) = Last(p.stages[i]).run
    BY <1>2 DEF RunningRun
  <2> QED
    BY <2>1, <2>2, RunningHolder
<1> QED
  BY <1>1, <1>2

\* Two runs never hold a stage of the same record.
LEMMA OneHolder ==
  ASSUME NEW p, ValidPlanRecord(p), NEW i, NEW j, NEW r, NEW q, Holds(p, i, r), Holds(p, j, q)
  PROVE  i = j /\ r = q
<1>1. i = j
  BY DEF Holds, ValidPlanRecord
<1>2. [run |-> r, revision |-> p.revision, status |-> "running"].run
        = [run |-> q, revision |-> p.revision, status |-> "running"].run
  BY <1>1 DEF Holds
<1> QED
  BY <1>1, <1>2

\* A draft or approved record has no running stage.
LEMMA NothingRuns ==
  ASSUME NEW p, ValidPlanRecord(p), p.status \in {"draft", "approved"}
  PROVE  InState(p, "running") = {}
BY DEF ValidPlanRecord, InState

\* Creating, editing and approving a plan keeps the invariant: none of them
\* is possible while a run holds a stage.
LEMMA EditStep ==
  ASSUME PlanInv,
         \/ \E d \in Definitions : CreatePlan(d)
         \/ \E o \in Operators, d \in Definitions : UpdatePlan(o, d)
         \/ \E o \in Operators : ApprovePlan(o)
  PROVE  PlanInv'
<1>1. /\ plan' \in Plans /\ plan' # NoPlan
      /\ plan # NoPlan => plan.status # "executing"
      /\ plan'.status \in {"draft", "approved"}
      /\ ValidPlanRecord(plan')
  BY EditWrites DEF PlanInv
<1>2. UNCHANGED <<seen, cleared, run, active>>
  BY DEF CreatePlan, UpdatePlan, ApprovePlan
<1>3. approvals' \subseteq Revisions \X Definitions
  <2>1. ASSUME NEW o \in Operators, ApprovePlan(o)
        PROVE  <<seen[o].revision, seen[o].definition>> \in Revisions \X Definitions
    <3>1. seen[o] \in Views
      BY <2>1 DEF ApprovePlan, PlanInv, TypeOK
    <3> QED
      BY <3>1 DEF Views
  <2> QED
    BY <2>1 DEF CreatePlan, UpdatePlan, ApprovePlan, PlanInv, TypeOK
<1>4. TypeOK'
  BY <1>1, <1>2, <1>3 DEF PlanInv, TypeOK
<1>5. \A r \in Runs : run[r].pc # "executing"
  BY <1>1 DEF PlanInv, ExecutorHoldsStage, Holds
<1>6. InState(plan', "running") = {}
  BY <1>1, NothingRuns
<1>7. StoredIsValid'
  BY <1>1 DEF StoredIsValid
<1>8. HolderHasBegun'
  BY <1>6 DEF HolderHasBegun, InState
<1>9. ActiveWhileWorking' /\ SeenHasBegun' /\ ClearedIsOver'
  BY <1>2 DEF PlanInv, ActiveWhileWorking, SeenHasBegun, ClearedIsOver
<1>10. ExecutorHoldsStage'
  BY <1>2, <1>5 DEF ExecutorHoldsStage
<1> QED
  BY <1>4, <1>7, <1>8, <1>9, <1>10 DEF PlanInv

\* Beginning a stage keeps the invariant: nobody holds a stage before it, and
\* the run holds exactly the revision it will finish with after it.
LEMMA BeginStep ==
  ASSUME PlanInv, NEW r \in Runs, BeginPlanStage(r)
  PROVE  PlanInv'
<1> DEFINE i == run[r].stage
<1>1. /\ plan \in Plans
      /\ i \in Positions(plan)
      /\ StageWritten(plan, plan', i, BegunStage(plan, i, r), "executing")
      /\ Last(plan'.stages[i]) = [run |-> r, revision |-> plan.revision, status |-> "running"]
      /\ plan'.stages[i].attempts # <<>>
      /\ InState(plan, "running") = {}
      /\ plan.revision = run[r].revision
  BY BeginWrites DEF PlanInv
<1>2. plan' \in Plans /\ plan' # NoPlan /\ plan'.revision = plan.revision /\ plan'.status = "executing"
  BY <1>1, NoPlanAssumption DEF StageWritten
<1>3. plan'.stages[i].status = "running"
  <2>1. plan'.stages[i] = BegunStage(plan, i, r)
    BY <1>1 DEF StageWritten
  <2> QED
    BY <2>1 DEF BegunStage
<1>4. InState(plan', "running") = {i}
  <2>1. \A j \in Positions(plan) : j # i => plan'.stages[j].status # "running"
    BY <1>1 DEF StageWritten, InState
  <2> QED
    BY <1>1, <1>3, <2>1 DEF InState, StageWritten
<1>5. /\ run[r].pc = "registered"
      /\ run' = [run EXCEPT ![r] = [@ EXCEPT !.pc = "executing", !.stateRevision = plan'.stateRevision]]
      /\ UNCHANGED <<seen, cleared, active, approvals>>
      /\ ValidPlanRecord(plan')
  BY DEF BeginPlanStage, MutatePlan
<1>6. run[r] \in Handlers /\ run \in [Runs -> Handlers]
  BY DEF PlanInv, TypeOK
<1>7. plan'.stateRevision \in 0 .. MaxRevision
  BY <1>2, RevisionRange DEF Plans
<1>8. /\ run'[r] \in Handlers
      /\ run'[r].pc = "executing" /\ run'[r].stage = i
      /\ run'[r].revision = run[r].revision /\ run'[r].stateRevision = plan'.stateRevision
      /\ \A q \in Runs : q # r => run'[q] = run[q]
      /\ run' \in [Runs -> Handlers]
  BY <1>5, <1>6, <1>7 DEF Handlers
<1>9. TypeOK'
  BY <1>2, <1>5, <1>8 DEF PlanInv, TypeOK
<1>10. StoredIsValid'
  BY <1>5 DEF StoredIsValid
<1>11. Last(plan'.stages[i]).run = r
  BY <1>1
<1>12. HolderHasBegun'
  BY <1>4, <1>8, <1>11 DEF HolderHasBegun, BegunPlaces
<1>13. ActiveWhileWorking'
  BY <1>5, <1>8 DEF PlanInv, ActiveWhileWorking
<1>14. SeenHasBegun'
  BY <1>5, <1>8 DEF PlanInv, SeenHasBegun, BegunPlaces
<1>15. ClearedIsOver'
  BY <1>5, <1>8 DEF PlanInv, ClearedIsOver, OverPlaces
<1>16. \A q \in Runs : run[q].pc # "executing"
  BY <1>1 DEF PlanInv, ExecutorHoldsStage, Holds
<1>17. Holds(plan', i, r)
  BY <1>1, <1>2, <1>4 DEF Holds
<1>18. ExecutorHoldsStage'
  BY <1>1, <1>2, <1>8, <1>16, <1>17 DEF ExecutorHoldsStage
<1> QED
  BY <1>9, <1>10, <1>12, <1>13, <1>14, <1>15, <1>18 DEF PlanInv

\* After stage i is closed, no stage is running any more.
LEMMA CloseLeavesNothing ==
  ASSUME PlanInv, NEW i, NEW r, NEW at, NEW outcome, Holds(plan, i, r), Closes(at, i, outcome)
  PROVE  /\ plan' \in Plans
         /\ ValidPlanRecord(plan')
         /\ InState(plan', "running") = {}
<1>1. /\ plan \in Plans
      /\ i \in Positions(plan)
      /\ plan'.stages[i].status # "running"
  BY CloseWrites DEF PlanInv
<1>2. PICK st \in {"executing", "completed", "failed"} :
        StageWritten(plan, plan', i, Closed(plan.stages[i], outcome), st)
  BY CloseWrites DEF PlanInv
<1>3. ValidPlanRecord(plan) /\ ValidPlanRecord(plan')
  BY DEF Closes, MutatePlan, Current, PlanInv, StoredIsValid
<1>4. \A j \in Positions(plan) : j # i => plan.stages[j].status # "running"
  BY <1>1, <1>3 DEF Holds, ValidPlanRecord, InState
<1> QED
  BY <1>1, <1>2, <1>3, <1>4 DEF StageWritten, InState

\* The run that holds a stage finishes it.
LEMMA FinishStep ==
  ASSUME PlanInv, NEW r \in Runs, FinishCompleted(r) \/ FinishFailed(r)
  PROVE  PlanInv'
<1>1. PICK outcome \in {"completed", "failed"} :
        /\ Holds(plan, run[r].stage, r)
        /\ Closes(run[r], run[r].stage, outcome)
        /\ run[r].pc = "executing" /\ run' = [run EXCEPT ![r].pc = "returning"]
        /\ UNCHANGED <<seen, cleared, active, approvals>>
  BY DEF FinishCompleted, FinishFailed, Goes, Closes
<1>2. plan' \in Plans /\ ValidPlanRecord(plan') /\ InState(plan', "running") = {}
  BY <1>1, CloseLeavesNothing
<1>3. ValidPlanRecord(plan) /\ plan # NoPlan
  BY <1>1 DEF PlanInv, StoredIsValid, Closes, MutatePlan, Current
<1>4. \A q \in Runs : run[q].pc = "executing" => q = r
  BY <1>1, <1>3, OneHolder DEF PlanInv, ExecutorHoldsStage
<1>5. /\ run' \in [Runs -> Handlers]
      /\ run'[r].pc = "returning"
      /\ \A q \in Runs : q # r => run'[q] = run[q]
  BY <1>1 DEF PlanInv, TypeOK, Handlers
<1>6. TypeOK'
  BY <1>1, <1>2, <1>5 DEF PlanInv, TypeOK
<1>7. StoredIsValid' /\ HolderHasBegun'
  BY <1>2 DEF StoredIsValid, HolderHasBegun
<1>8. ActiveWhileWorking'
  BY <1>1, <1>5 DEF PlanInv, ActiveWhileWorking
<1>9. SeenHasBegun'
  BY <1>1, <1>5 DEF PlanInv, SeenHasBegun, BegunPlaces
<1>10. ClearedIsOver'
  BY <1>1, <1>5 DEF PlanInv, ClearedIsOver, OverPlaces
<1>11. ExecutorHoldsStage'
  BY <1>4, <1>5 DEF ExecutorHoldsStage
<1> QED
  BY <1>6, <1>7, <1>8, <1>9, <1>10, <1>11 DEF PlanInv

\* An operator closes an attempt: the run that holds it is over, so no run is
\* executing.
LEMMA ReconcileStep ==
  ASSUME PlanInv, NEW o \in Operators, ReconcilePlanStage(o)
  PROVE  PlanInv'
<1>1. PICK i \in 1 .. Len(seen[o].definition) :
        /\ Holds(plan, i, seen[o].running)
        /\ Closes(seen[o], i, "failed")
  BY DEF ReconcilePlanStage, Closes
<1>2. plan' \in Plans /\ ValidPlanRecord(plan') /\ InState(plan', "running") = {}
  BY <1>1, CloseLeavesNothing
<1>3. ValidPlanRecord(plan) /\ plan # NoPlan
  BY <1>1 DEF PlanInv, StoredIsValid, Closes, MutatePlan, Current
<1>4. run[seen[o].running].pc \in OverPlaces
  BY DEF ReconcilePlanStage, PlanInv, ClearedIsOver
<1>5. \A q \in Runs : run[q].pc = "executing" => q = seen[o].running
  BY <1>1, <1>3, OneHolder DEF PlanInv, ExecutorHoldsStage
<1>6. \A q \in Runs : run[q].pc # "executing"
  BY <1>4, <1>5 DEF OverPlaces
<1>7. UNCHANGED <<seen, run, active, approvals>> /\ cleared' = cleared \ {o}
  BY DEF ReconcilePlanStage
<1>8. TypeOK'
  BY <1>2, <1>7 DEF PlanInv, TypeOK
<1>9. StoredIsValid' /\ HolderHasBegun'
  BY <1>2 DEF StoredIsValid, HolderHasBegun
<1>10. ActiveWhileWorking' /\ SeenHasBegun' /\ ClearedIsOver'
  BY <1>7 DEF PlanInv, ActiveWhileWorking, SeenHasBegun, ClearedIsOver
<1>11. ExecutorHoldsStage'
  BY <1>6, <1>7 DEF ExecutorHoldsStage
<1> QED
  BY <1>8, <1>9, <1>10, <1>11 DEF PlanInv

\* Reading the plan: the screen shows a run that has begun.
LEMMA GetPlanStep ==
  ASSUME PlanInv, NEW o \in Operators, GetPlan(o)
  PROVE  PlanInv'
<1>1. /\ plan \in Plans /\ plan # NoPlan /\ ValidPlanRecord(plan)
      /\ o \notin cleared
      /\ seen' = [seen EXCEPT ![o] = ViewOf(plan)]
      /\ UNCHANGED <<plan, cleared, run, active, approvals>>
  BY DEF GetPlan, PlanInv, StoredIsValid, TypeOK
<1>2. /\ RunningRun(plan) \in Runs \cup {NoRun}
      /\ RunningRun(plan) # NoRun => run[RunningRun(plan)].pc \in BegunPlaces
  BY <1>1, ReadsHolder DEF PlanInv, HolderHasBegun
<1>3. ViewOf(plan) \in Views /\ ViewOf(plan).running = RunningRun(plan)
  BY <1>1, <1>2 DEF ViewOf, Views, Plans
<1>4. /\ seen' \in [Operators -> Views \cup {NoPlan}]
      /\ seen'[o] = ViewOf(plan)
      /\ \A x \in Operators : x # o => seen'[x] = seen[x]
  BY <1>1, <1>3 DEF PlanInv, TypeOK
<1>5. TypeOK'
  BY <1>1, <1>4 DEF PlanInv, TypeOK
<1>6. StoredIsValid' /\ HolderHasBegun' /\ ActiveWhileWorking' /\ ExecutorHoldsStage'
  BY <1>1 DEF PlanInv, StoredIsValid, HolderHasBegun, ActiveWhileWorking, ExecutorHoldsStage
<1>7. SeenHasBegun'
  BY <1>1, <1>2, <1>3, <1>4 DEF PlanInv, SeenHasBegun
<1>8. ClearedIsOver'
  BY <1>1, <1>4 DEF PlanInv, ClearedIsOver, TypeOK
<1> QED
  BY <1>5, <1>6, <1>7, <1>8 DEF PlanInv

\* The reconcile handler finds the run on the screen inactive: it has begun,
\* and a run that has begun and is not active is over.
LEMMA CheckActiveStep ==
  ASSUME PlanInv, NEW o \in Operators, CheckActive(o) \/ ReconcileRefused(o)
  PROVE  PlanInv'
<1>1. UNCHANGED <<plan, seen, run, active, approvals>>
  BY DEF CheckActive, ReconcileRefused
<1>2. cleared' \subseteq Operators
  BY DEF CheckActive, ReconcileRefused, PlanInv, TypeOK
<1>3. TypeOK'
  BY <1>1, <1>2 DEF PlanInv, TypeOK
<1>4. ClearedIsOver'
  <2>1. CASE ReconcileRefused(o)
    BY <1>1, <2>1 DEF ReconcileRefused, PlanInv, ClearedIsOver
  <2>2. CASE CheckActive(o)
    <3>1. seen[o] # NoPlan /\ seen[o].running # NoRun /\ seen[o].running \notin active
      BY <2>2 DEF CheckActive
    <3>2. seen[o].running \in Runs
      BY <3>1 DEF PlanInv, TypeOK, Views
    <3>3. run[seen[o].running].pc \in BegunPlaces
      BY <3>1 DEF PlanInv, SeenHasBegun
    <3>4. run[seen[o].running].pc \in OverPlaces
      BY <3>1, <3>2, <3>3 DEF PlanInv, ActiveWhileWorking, BegunPlaces, OverPlaces
    <3> QED
      BY <1>1, <2>2, <3>1, <3>4 DEF CheckActive, PlanInv, ClearedIsOver
  <2> QED
    BY <2>1, <2>2
<1>5. StoredIsValid' /\ HolderHasBegun' /\ ActiveWhileWorking' /\ SeenHasBegun' /\ ExecutorHoldsStage'
  BY <1>1 DEF PlanInv, StoredIsValid, HolderHasBegun, ActiveWhileWorking, SeenHasBegun, ExecutorHoldsStage
<1> QED
  BY <1>3, <1>4, <1>5 DEF PlanInv

\* A step of one handler that leaves the plan alone: it never goes back behind
\* its begin, and it stays in the table while it works.
LEMMA HandlerMoves ==
  ASSUME PlanInv, NEW r \in Runs, UNCHANGED <<plan, seen, cleared, approvals>>,
         run' \in [Runs -> Handlers], \A q \in Runs : q # r => run'[q] = run[q],
         active' \subseteq Runs, \A q \in active : q # r => q \in active',
         run'[r].pc \in {"registered", "executing", "returning"} => r \in active',
         run[r].pc \in BegunPlaces => run'[r].pc \in BegunPlaces,
         run[r].pc \in OverPlaces => run'[r].pc \in OverPlaces,
         run'[r].pc = "executing" =>
           /\ run[r].pc = "executing"
           /\ run'[r].revision = run[r].revision
           /\ run'[r].stateRevision = run[r].stateRevision
           /\ run'[r].stage = run[r].stage
  PROVE  PlanInv'
<1>1. TypeOK'
  BY DEF PlanInv, TypeOK
<1>2. StoredIsValid'
  BY DEF PlanInv, StoredIsValid
<1>3. HolderHasBegun'
  <2> SUFFICES ASSUME plan # NoPlan, NEW i \in InState(plan, "running")
               PROVE  run'[Last(plan.stages[i]).run].pc \in BegunPlaces
    BY DEF HolderHasBegun
  <2>1. Last(plan.stages[i]).run \in Runs
    BY RunningHolder DEF PlanInv, TypeOK, StoredIsValid
  <2>2. run[Last(plan.stages[i]).run].pc \in BegunPlaces
    BY DEF PlanInv, HolderHasBegun
  <2> QED
    BY <2>1, <2>2
<1>4. ActiveWhileWorking'
  BY DEF PlanInv, ActiveWhileWorking
<1>5. \A o \in Operators : seen[o] # NoPlan /\ seen[o].running # NoRun => seen[o].running \in Runs
  BY DEF PlanInv, TypeOK, Views
<1>6. SeenHasBegun'
  BY <1>5 DEF PlanInv, SeenHasBegun
<1>7. ClearedIsOver'
  BY <1>5 DEF PlanInv, ClearedIsOver, TypeOK
<1>8. ExecutorHoldsStage'
  BY DEF PlanInv, ExecutorHoldsStage
<1> QED
  BY <1>1, <1>2, <1>3, <1>4, <1>6, <1>7, <1>8 DEF PlanInv

\* The steps of a handler outside the store.
LEMMA HandlerStep ==
  ASSUME PlanInv, NEW r \in Runs,
         \/ \E i \in Positions(plan) : ReadPlan(r, i)
         \/ RegisterActive(r) \/ BeginRefused(r) \/ FinishUnrecorded(r) \/ Return(r)
         \/ \E verdict \in {"accepted", "rejected"} : ReceiptWritten(r, verdict)
  PROVE  PlanInv'
<1>0. run \in [Runs -> Handlers] /\ run[r] \in Handlers /\ active \subseteq Runs
  BY DEF PlanInv, TypeOK
<1>1. ASSUME NEW i \in Positions(plan), ReadPlan(r, i) PROVE PlanInv'
  <2>1. /\ run[r].pc = "idle" /\ plan \in Plans
        /\ run' = [run EXCEPT ![r] = [@ EXCEPT !.pc = "read", !.revision = plan.revision,
                                               !.stateRevision = plan.stateRevision, !.stage = i]]
        /\ UNCHANGED <<plan, seen, cleared, active, approvals>>
    BY <1>1 DEF ReadPlan, PlanInv, TypeOK
  <2>2. i \in Nat /\ plan.revision \in 0 .. MaxRevision /\ plan.stateRevision \in 0 .. MaxRevision
    BY <1>1, <2>1, RevisionRange DEF Positions, Plans
  <2>3. /\ run' \in [Runs -> Handlers]
        /\ run'[r].pc = "read"
        /\ \A q \in Runs : q # r => run'[q] = run[q]
    BY <1>0, <2>1, <2>2 DEF Handlers
  <2> QED
    BY <1>0, <2>1, <2>3, HandlerMoves DEF BegunPlaces, OverPlaces
<1>2. CASE RegisterActive(r) \/ BeginRefused(r) \/ FinishUnrecorded(r) \/ Return(r)
  <2>1. PICK to \in {"registered", "returning", "ended"} : run' = [run EXCEPT ![r].pc = to]
    BY <1>2 DEF RegisterActive, BeginRefused, FinishUnrecorded, Return, Goes
  <2>2. /\ run' \in [Runs -> Handlers]
        /\ run'[r].pc = to
        /\ \A q \in Runs : q # r => run'[q] = run[q]
    BY <1>0, <2>1 DEF Handlers
  <2>3. CASE RegisterActive(r)
    BY <1>0, <2>2, <2>3, HandlerMoves DEF RegisterActive, Goes, BegunPlaces, OverPlaces
  <2>4. CASE BeginRefused(r) \/ FinishUnrecorded(r)
    <3>1. to = "returning" /\ run[r].pc \in {"registered", "executing"}
      BY <1>0, <2>2, <2>4 DEF BeginRefused, FinishUnrecorded, Goes, Handlers
    <3>2. UNCHANGED <<plan, seen, cleared, active, approvals>> /\ r \in active
      BY <2>4, <3>1 DEF BeginRefused, FinishUnrecorded, PlanInv, ActiveWhileWorking
    <3> QED
      BY <1>0, <2>2, <3>1, <3>2, HandlerMoves DEF BegunPlaces, OverPlaces
  <2>5. CASE Return(r)
    <3>1. to = "ended" /\ run[r].pc = "returning"
      BY <1>0, <2>2, <2>5 DEF Return, Goes, Handlers
    <3> QED
      BY <1>0, <2>2, <2>5, <3>1, HandlerMoves DEF Return, BegunPlaces, OverPlaces
  <2> QED
    BY <1>2, <2>3, <2>4, <2>5
<1>3. ASSUME NEW verdict \in {"accepted", "rejected"}, ReceiptWritten(r, verdict) PROVE PlanInv'
  <2>1. /\ run[r].pc = "executing" /\ run' = [run EXCEPT ![r].receipt = verdict]
        /\ UNCHANGED <<plan, seen, cleared, active, approvals>>
    BY <1>3 DEF ReceiptWritten
  <2>2. /\ run' \in [Runs -> Handlers]
        /\ run'[r].pc = run[r].pc /\ run'[r].stage = run[r].stage
        /\ run'[r].revision = run[r].revision /\ run'[r].stateRevision = run[r].stateRevision
        /\ \A q \in Runs : q # r => run'[q] = run[q]
    BY <1>0, <2>1 DEF Handlers
  <2>3. r \in active
    BY <2>1 DEF PlanInv, ActiveWhileWorking
  <2> QED
    BY <1>0, <2>1, <2>2, <2>3, HandlerMoves
<1> QED
  BY <1>1, <1>2, <1>3

\* A crash ends every run in flight and empties the table of active runs.
LEMMA CrashStep == ASSUME PlanInv, Crash PROVE PlanInv'
<1>1. /\ run' = [r \in Runs |-> IF InFlight(r) THEN [run[r] EXCEPT !.pc = "crashed"] ELSE run[r]]
      /\ active' = {} /\ cleared' = {}
      /\ UNCHANGED <<plan, seen, approvals>>
  BY DEF Crash
<1>2. ASSUME NEW r \in Runs
      PROVE  /\ run'[r] \in Handlers
             /\ run'[r].pc \in {"idle", "ended", "crashed"}
             /\ run[r].pc \in BegunPlaces => run'[r].pc \in BegunPlaces
  <2>1. run[r] \in Handlers
    BY DEF PlanInv, TypeOK
  <2> QED
    BY <1>1, <2>1 DEF InFlight, Handlers, BegunPlaces
<1>3. run' \in [Runs -> Handlers]
  BY <1>1, <1>2
<1>4. TypeOK'
  BY <1>1, <1>3 DEF PlanInv, TypeOK
<1>5. StoredIsValid'
  BY <1>1 DEF PlanInv, StoredIsValid
<1>6. HolderHasBegun'
  <2> SUFFICES ASSUME plan # NoPlan, NEW i \in InState(plan, "running")
               PROVE  run'[Last(plan.stages[i]).run].pc \in BegunPlaces
    BY <1>1 DEF HolderHasBegun
  <2>1. Last(plan.stages[i]).run \in Runs
    BY RunningHolder DEF PlanInv, TypeOK, StoredIsValid
  <2>2. run[Last(plan.stages[i]).run].pc \in BegunPlaces
    BY DEF PlanInv, HolderHasBegun
  <2> QED
    BY <1>2, <2>1, <2>2
<1>7. ActiveWhileWorking'
  BY <1>2 DEF ActiveWhileWorking
<1>8. \A o \in Operators : seen[o] # NoPlan /\ seen[o].running # NoRun => seen[o].running \in Runs
  BY DEF PlanInv, TypeOK, Views
<1>9. SeenHasBegun'
  BY <1>1, <1>2, <1>8 DEF PlanInv, SeenHasBegun
<1>10. ClearedIsOver'
  BY <1>1 DEF ClearedIsOver
<1>11. ExecutorHoldsStage'
  BY <1>2 DEF ExecutorHoldsStage
<1> QED
  BY <1>4, <1>5, <1>6, <1>7, <1>9, <1>10, <1>11 DEF PlanInv

\* The invariant holds initially: no plan, no screens, no runs.
LEMMA PlanInit == Init => PlanInv
<1> SUFFICES ASSUME Init PROVE PlanInv
  OBVIOUS
<1>1. TypeOK
  BY PlanAssumption DEF Init, TypeOK, Handlers
<1>2. \A r \in Runs : run[r].pc = "idle"
  BY DEF Init
<1> QED
  BY <1>1, <1>2 DEF Init, PlanInv, StoredIsValid, HolderHasBegun, ActiveWhileWorking, SeenHasBegun,
      ClearedIsOver, ExecutorHoldsStage

\* Every step of operators, runs and the process keeps the invariant.
LEMMA PlanStep == PlanInv /\ [Next]_vars => PlanInv'
<1> SUFFICES ASSUME PlanInv, [Next]_vars PROVE PlanInv'
  OBVIOUS
<1>1. ASSUME NEW d \in Definitions, CreatePlan(d) PROVE PlanInv'
  BY <1>1, EditStep
<1>2. ASSUME NEW o \in Operators, NEW d \in Definitions, UpdatePlan(o, d) PROVE PlanInv'
  BY <1>2, EditStep
<1>3. ASSUME NEW o \in Operators, ApprovePlan(o) PROVE PlanInv'
  BY <1>3, EditStep
<1>4. ASSUME NEW o \in Operators, GetPlan(o) PROVE PlanInv'
  BY <1>4, GetPlanStep
<1>5. ASSUME NEW o \in Operators, CheckActive(o) \/ ReconcileRefused(o) PROVE PlanInv'
  BY <1>5, CheckActiveStep
<1>6. ASSUME NEW o \in Operators, ReconcilePlanStage(o) PROVE PlanInv'
  BY <1>6, ReconcileStep
<1>7. ASSUME NEW r \in Runs, NEW i \in Positions(plan), ReadPlan(r, i) PROVE PlanInv'
  BY <1>7, HandlerStep
<1>8. ASSUME NEW r \in Runs, RegisterActive(r) \/ BeginRefused(r) \/ FinishUnrecorded(r) \/ Return(r)
      PROVE  PlanInv'
  BY <1>8, HandlerStep
<1>9. ASSUME NEW r \in Runs, NEW verdict \in {"accepted", "rejected"}, ReceiptWritten(r, verdict)
      PROVE  PlanInv'
  BY <1>9, HandlerStep
<1>10. ASSUME NEW r \in Runs, BeginPlanStage(r) PROVE PlanInv'
  BY <1>10, BeginStep
<1>11. ASSUME NEW r \in Runs, FinishCompleted(r) \/ FinishFailed(r) PROVE PlanInv'
  BY <1>11, FinishStep
<1>12. CASE Crash
  BY <1>12, CrashStep
<1>13. CASE UNCHANGED vars
  BY <1>13 DEF vars, PlanInv, TypeOK, StoredIsValid, HolderHasBegun, ActiveWhileWorking, SeenHasBegun,
      ClearedIsOver, ExecutorHoldsStage
<1> QED
  BY <1>1, <1>2, <1>3, <1>4, <1>5, <1>6, <1>7, <1>8, <1>9, <1>10, <1>11, <1>12, <1>13 DEF Next

\* The inductive invariant holds in every reachable state.
LEMMA PlanInvariant == Spec => []PlanInv
BY PlanInit, PlanStep, PTL DEF Spec

\* The record, the screens and the handlers keep their types.
THEOREM PlanTypeCorrect == Spec => []TypeOK
<1>1. PlanInv => TypeOK
  BY DEF PlanInv
<1> QED
  BY <1>1, PlanInvariant, PTL

\* A run that executes a stage holds it at the revision it will finish with:
\* neither an operator nor another run closes, restarts or edits it meanwhile.
THEOREM LiveRunsHoldTheirStage == Spec => []ExecutorHoldsStage
<1>1. PlanInv => ExecutorHoldsStage
  BY DEF PlanInv
<1> QED
  BY <1>1, PlanInvariant, PTL

-----------------------------------------------------------------------------
(* Only what an approver had read is executed.                             *)

\* A screen shows no later revision than the stored one, and the definition of
\* the revision it shows.
ScreensAgree ==
  \A o \in Operators : seen[o] # NoPlan =>
    /\ plan # NoPlan
    /\ seen[o].revision <= plan.revision
    /\ seen[o].revision = plan.revision => seen[o].definition = plan.definition

\* A record that left the draft was approved as it is.
LeftDraftApproved ==
  plan # NoPlan /\ plan.status # "draft" => <<plan.revision, plan.definition>> \in approvals

ApprovalInv == PlanInv /\ ScreensAgree /\ LeftDraftApproved

\* A step that keeps revision, definition and status class of the plan.
LEMMA SameDefinition ==
  ASSUME ApprovalInv, PlanInv', plan # NoPlan, plan' # NoPlan,
         plan'.revision = plan.revision, plan'.definition = plan.definition,
         plan.status # "draft", UNCHANGED <<seen, approvals>>
  PROVE  ApprovalInv'
BY DEF ApprovalInv, ScreensAgree, LeftDraftApproved

\* An edit draws a revision that no screen shows yet; an approval names the
\* revision its approver had on the screen.
LEMMA ApprovalEdit ==
  ASSUME ApprovalInv, PlanInv',
         \/ \E d \in Definitions : CreatePlan(d)
         \/ \E o \in Operators, d \in Definitions : UpdatePlan(o, d)
         \/ \E o \in Operators : ApprovePlan(o)
  PROVE  ApprovalInv'
<1>0. plan' # NoPlan
  BY EditWrites DEF ApprovalInv, PlanInv
<1>1. ASSUME NEW d \in Definitions, CreatePlan(d) PROVE ApprovalInv'
  <2>1. \A o \in Operators : seen[o] = NoPlan
    BY <1>1 DEF CreatePlan, ApprovalInv, ScreensAgree
  <2>2. plan'.status = "draft" /\ seen' = seen
    BY <1>1 DEF CreatePlan
  <2> QED
    BY <2>1, <2>2 DEF ApprovalInv, ScreensAgree, LeftDraftApproved
<1>2. ASSUME NEW o \in Operators, NEW d \in Definitions, UpdatePlan(o, d) PROVE ApprovalInv'
  <2>1. /\ plan \in Plans /\ plan # NoPlan
        /\ plan' = [Updated(plan, d) EXCEPT !.stateRevision = plan.stateRevision + 1]
        /\ seen' = seen
    BY <1>2 DEF UpdatePlan, MutatePlan, Current, ApprovalInv, PlanInv, TypeOK
  <2>2. plan'.revision = plan.revision + 1 /\ plan'.status = "draft"
    BY <2>1 DEF Updated, Plans
  <2>3. plan.revision \in Nat
    BY <2>1 DEF Plans, Revisions
  <2>4. \A x \in Operators : seen[x] # NoPlan => seen[x].revision \in Nat
    BY DEF ApprovalInv, PlanInv, TypeOK, Views, Revisions
  <2>5. \A x \in Operators : seen[x] # NoPlan =>
          seen[x].revision <= plan'.revision /\ seen[x].revision # plan'.revision
    BY <2>2, <2>3, <2>4 DEF ApprovalInv, ScreensAgree
  <2> QED
    BY <1>0, <2>1, <2>2, <2>5 DEF ApprovalInv, ScreensAgree, LeftDraftApproved
<1>3. ASSUME NEW o \in Operators, ApprovePlan(o) PROVE ApprovalInv'
  <2>1. /\ plan \in Plans /\ plan # NoPlan
        /\ plan' = [Approved(plan) EXCEPT !.stateRevision = plan.stateRevision + 1]
        /\ seen' = seen /\ seen[o] # NoPlan /\ plan.revision = seen[o].revision
        /\ approvals' = approvals \cup {<<seen[o].revision, seen[o].definition>>}
    BY <1>3 DEF ApprovePlan, MutatePlan, Current, ApprovalInv, PlanInv, TypeOK
  <2>2. plan'.revision = plan.revision /\ plan'.definition = plan.definition
    BY <2>1 DEF Approved, Plans
  <2>3. seen[o].definition = plan.definition
    BY <2>1 DEF ApprovalInv, ScreensAgree
  <2> QED
    BY <1>0, <2>1, <2>2, <2>3 DEF ApprovalInv, ScreensAgree, LeftDraftApproved
<1> QED
  BY <1>1, <1>2, <1>3

\* Every step keeps the approval invariant.
LEMMA ApprovalStep == ApprovalInv /\ [Next]_vars => ApprovalInv'
<1> SUFFICES ASSUME ApprovalInv, [Next]_vars PROVE ApprovalInv'
  OBVIOUS
<1>0. PlanInv'
  BY PlanStep DEF ApprovalInv
<1>1. CASE \/ \E d \in Definitions : CreatePlan(d)
           \/ \E o \in Operators, d \in Definitions : UpdatePlan(o, d)
           \/ \E o \in Operators : ApprovePlan(o)
  BY <1>0, <1>1, ApprovalEdit
<1>2. ASSUME NEW o \in Operators, GetPlan(o) PROVE ApprovalInv'
  <2>1. /\ plan # NoPlan /\ plan \in Plans
        /\ seen' = [seen EXCEPT ![o] = ViewOf(plan)]
        /\ plan' = plan /\ approvals' = approvals
    BY <1>2 DEF GetPlan, ApprovalInv, PlanInv, TypeOK
  <2>2. /\ seen'[o].revision = plan.revision /\ seen'[o].definition = plan.definition
        /\ \A x \in Operators : x # o => seen'[x] = seen[x]
    BY <2>1 DEF ViewOf, ApprovalInv, PlanInv, TypeOK
  <2>3. plan.revision <= plan.revision
    BY <2>1 DEF Plans, Revisions
  <2>4. ScreensAgree'
    BY <2>1, <2>2, <2>3 DEF ApprovalInv, ScreensAgree
  <2>5. LeftDraftApproved'
    BY <2>1 DEF ApprovalInv, LeftDraftApproved
  <2> QED
    BY <1>0, <2>4, <2>5 DEF ApprovalInv
<1>3. ASSUME NEW r \in Runs, BeginPlanStage(r) PROVE ApprovalInv'
  <2>1. plan # NoPlan /\ plan.status # "draft" /\ UNCHANGED <<seen, approvals>>
    BY <1>3 DEF BeginPlanStage, MutatePlan, Current, CanBegin, Executable
  <2>2. /\ plan' # NoPlan
        /\ plan'.revision = plan.revision /\ plan'.definition = plan.definition
    BY <1>3, BeginWrites, NoPlanAssumption DEF StageWritten, ApprovalInv, PlanInv
  <2> QED
    BY <1>0, <2>1, <2>2, SameDefinition
<1>4. ASSUME NEW i, NEW r, NEW at, NEW outcome, Holds(plan, i, r), Closes(at, i, outcome),
             UNCHANGED <<seen, approvals>>
      PROVE  ApprovalInv'
  <2>1. plan # NoPlan /\ plan.status # "draft"
    BY <1>4 DEF Holds, Closes, MutatePlan, Current
  <2>2. /\ plan' # NoPlan
        /\ plan'.revision = plan.revision /\ plan'.definition = plan.definition
    BY <1>4, CloseWrites, NoPlanAssumption DEF StageWritten, ApprovalInv, PlanInv
  <2> QED
    BY <1>0, <1>4, <2>1, <2>2, SameDefinition
<1>5. ASSUME NEW r \in Runs, FinishCompleted(r) \/ FinishFailed(r) PROVE ApprovalInv'
  BY <1>4, <1>5 DEF FinishCompleted, FinishFailed, Closes
<1>6. ASSUME NEW o \in Operators, ReconcilePlanStage(o) PROVE ApprovalInv'
  BY <1>4, <1>6 DEF ReconcilePlanStage, Closes
<1>7. ASSUME UNCHANGED <<plan, seen, approvals>> PROVE ApprovalInv'
  BY <1>0, <1>7 DEF ApprovalInv, ScreensAgree, LeftDraftApproved
<1>8. ASSUME NEW o \in Operators, CheckActive(o) \/ ReconcileRefused(o) PROVE ApprovalInv'
  BY <1>7, <1>8 DEF CheckActive, ReconcileRefused
<1>9. ASSUME NEW r \in Runs,
             \/ \E i \in Positions(plan) : ReadPlan(r, i)
             \/ RegisterActive(r) \/ BeginRefused(r) \/ FinishUnrecorded(r) \/ Return(r)
             \/ \E verdict \in {"accepted", "rejected"} : ReceiptWritten(r, verdict)
      PROVE  ApprovalInv'
  BY <1>7, <1>9 DEF ReadPlan, RegisterActive, BeginRefused, FinishUnrecorded, Return, ReceiptWritten
<1>10. CASE Crash \/ UNCHANGED vars
  BY <1>7, <1>10 DEF Crash, vars
<1> QED
  BY <1>1, <1>2, <1>3, <1>5, <1>6, <1>8, <1>9, <1>10 DEF Next

\* Only a definition that an approver had read, in the revision that is stored,
\* ever has an attempt.
THEOREM WorkIsApproved == Spec => []ExecutedAsApproved
<1>1. Init => ApprovalInv
  BY PlanInit DEF Init, ApprovalInv, ScreensAgree, LeftDraftApproved
<1>2. ApprovalInv => ExecutedAsApproved
  <2> SUFFICES ASSUME ApprovalInv, plan # NoPlan, HasAttempts(plan)
               PROVE  <<plan.revision, plan.definition>> \in approvals
    BY DEF ExecutedAsApproved
  <2>1. PICK i \in Positions(plan) : plan.stages[i].attempts # <<>>
    BY DEF HasAttempts
  <2>2. plan \in Plans /\ ValidPlanRecord(plan)
    BY DEF ApprovalInv, PlanInv, StoredIsValid, TypeOK
  <2>3. plan.stages[i].attempts \in Seq(Attempts)
    BY <2>2, StageTypes
  <2>4. plan.stages[i].status # "pending"
    BY <2>1, <2>2, <2>3 DEF ValidPlanRecord, ValidStage
  <2>5. plan.status # "draft"
    BY <2>2, <2>4 DEF ValidPlanRecord, InState
  <2> QED
    BY <2>5 DEF ApprovalInv, LeftDraftApproved
<1> QED
  BY <1>1, <1>2, ApprovalStep, PTL DEF Spec

\* What a step does to the plan: it edits one nobody has worked on, begins or
\* closes one stage, or leaves it alone.
LEMMA PlanChanges ==
  ASSUME PlanInv, [Next]_vars
  PROVE  \/ \E d \in Definitions : CreatePlan(d)
         \/ \E o \in Operators, d \in Definitions : UpdatePlan(o, d)
         \/ \E o \in Operators : ApprovePlan(o)
         \/ \E r \in Runs : BeginPlanStage(r)
         \/ \E r \in Runs, outcome \in {"completed", "failed"} :
              /\ FinishCompleted(r) \/ FinishFailed(r)
              /\ outcome = "completed" => Earned(r)
              /\ Holds(plan, run[r].stage, r)
              /\ Closes(run[r], run[r].stage, outcome)
         \/ \E o \in Operators, i \in Nat :
              /\ ReconcilePlanStage(o)
              /\ Holds(plan, i, seen[o].running)
              /\ Closes(seen[o], i, "failed")
         \/ plan' = plan
<1>1. ASSUME NEW r \in Runs, FinishCompleted(r) \/ FinishFailed(r)
      PROVE  \E outcome \in {"completed", "failed"} :
               /\ outcome = "completed" => Earned(r)
               /\ Holds(plan, run[r].stage, r)
               /\ Closes(run[r], run[r].stage, outcome)
  BY <1>1 DEF FinishCompleted, FinishFailed, Closes
<1>2. ASSUME NEW o \in Operators, ReconcilePlanStage(o)
      PROVE  \E i \in Nat : Holds(plan, i, seen[o].running) /\ Closes(seen[o], i, "failed")
  BY <1>2 DEF ReconcilePlanStage, Closes
<1>3. CASE UNCHANGED vars
  BY <1>3 DEF vars
<1>4. ASSUME NEW o \in Operators, GetPlan(o) \/ CheckActive(o) \/ ReconcileRefused(o) PROVE plan' = plan
  BY <1>4 DEF GetPlan, CheckActive, ReconcileRefused
<1>5. ASSUME NEW r \in Runs,
             \/ \E i \in Positions(plan) : ReadPlan(r, i)
             \/ RegisterActive(r) \/ BeginRefused(r) \/ FinishUnrecorded(r) \/ Return(r)
             \/ \E verdict \in {"accepted", "rejected"} : ReceiptWritten(r, verdict)
      PROVE  plan' = plan
  BY <1>5 DEF ReadPlan, RegisterActive, BeginRefused, FinishUnrecorded, Return, ReceiptWritten
<1>6. Crash => plan' = plan
  BY DEF Crash
<1> QED
  BY <1>1, <1>2, <1>3, <1>4, <1>5, <1>6, Zenon DEF Next

\* Closing a stage changes only its last attempt, which was running, and keeps
\* the run of that attempt.
LEMMA ClosedAttempts ==
  ASSUME NEW s \in PlanStages, s.attempts # <<>>, NEW outcome \in {"completed", "failed"}
  PROVE  /\ DOMAIN Closed(s, outcome).attempts = DOMAIN s.attempts
         /\ \A k \in DOMAIN s.attempts : k # Len(s.attempts) =>
              Closed(s, outcome).attempts[k] = s.attempts[k]
         /\ Last(Closed(s, outcome)).run = Last(s).run
<1> DEFINE n == Len(s.attempts)
           b == [s.attempts[n] EXCEPT !.status = outcome]
<1>1. s.attempts \in Seq(Attempts) /\ n \in DOMAIN s.attempts /\ s.attempts[n] \in Attempts
  BY DEF PlanStages
<1>2. b \in Attempts /\ b.run = s.attempts[n].run
  BY <1>1 DEF Attempts, StageStatuses
<1>3. Closed(s, outcome).attempts = [s.attempts EXCEPT ![n] = b]
  BY DEF Closed
<1> HIDE DEF b
<1>4. /\ [s.attempts EXCEPT ![n] = b] \in Seq(Attempts)
      /\ DOMAIN [s.attempts EXCEPT ![n] = b] = DOMAIN s.attempts
      /\ [s.attempts EXCEPT ![n] = b][n] = b
      /\ \A j \in DOMAIN s.attempts : j # n => [s.attempts EXCEPT ![n] = b][j] = s.attempts[j]
  BY <1>1, <1>2, SeqExcept
<1>5. Len([s.attempts EXCEPT ![n] = b]) = n
  BY <1>1, <1>2, ExceptSeq
<1> QED
  BY <1>2, <1>3, <1>4, <1>5 DEF Last

\* A settled attempt stays where it is, with its outcome, under the definition
\* it ran under, whatever operators and runs do later.
THEOREM HistoryIsKept == Spec => HistoryKept
<1> DEFINE Kept(i, k) ==
             /\ plan'.definition = plan.definition
             /\ k \in DOMAIN plan'.stages[i].attempts
             /\ plan.stages[i].attempts[k].status # "running" =>
                  plan'.stages[i].attempts[k] = plan.stages[i].attempts[k]
           Keeps == plan # NoPlan =>
             \A i \in Positions(plan) : \A k \in DOMAIN plan.stages[i].attempts : Kept(i, k)
<1>1. PlanInv /\ [Next]_vars => [Keeps]_vars
  <2> SUFFICES ASSUME PlanInv, [Next]_vars, plan # NoPlan,
                      NEW i \in Positions(plan), NEW k \in DOMAIN plan.stages[i].attempts
               PROVE  Kept(i, k)
    BY DEF Keeps
  <2>0. plan \in Plans /\ plan.stages[i] \in PlanStages /\ plan.stages[i].attempts \in Seq(Attempts)
    BY StageTypes DEF PlanInv, TypeOK
  <2>1. ASSUME NEW d \in Definitions, CreatePlan(d) PROVE Kept(i, k)
    BY <2>1 DEF CreatePlan
  <2>2. ASSUME NEW o \in Operators, NEW d \in Definitions, UpdatePlan(o, d) PROVE Kept(i, k)
    <3>1. plan.stages[i].attempts = <<>>
      BY <2>2 DEF UpdatePlan, CanUpdate, HasAttempts
    <3> QED
      BY <3>1
  <2>3. ASSUME NEW o \in Operators, ApprovePlan(o) PROVE Kept(i, k)
    <3>1. plan' = [Approved(plan) EXCEPT !.stateRevision = plan.stateRevision + 1]
      BY <2>3 DEF ApprovePlan, MutatePlan
    <3>2. plan'.stages = plan.stages /\ plan'.definition = plan.definition
      BY <2>0, <3>1 DEF Approved, Plans
    <3> QED
      BY <3>2
  <2>4. ASSUME NEW r \in Runs, BeginPlanStage(r) PROVE Kept(i, k)
    <3> DEFINE j == run[r].stage
               a == [run |-> r, revision |-> plan.revision, status |-> "running"]
    <3>1. StageWritten(plan, plan', j, BegunStage(plan, j, r), "executing")
      BY <2>4, BeginWrites DEF PlanInv
    <3>2. plan'.definition = plan.definition
      BY <3>1 DEF StageWritten
    <3>3. CASE i # j
      BY <3>1, <3>2, <3>3 DEF StageWritten
    <3>4. CASE i = j
      <4>1. plan'.stages[i] = BegunStage(plan, i, r)
        BY <3>1, <3>4 DEF StageWritten
      <4>2. BegunStage(plan, i, r).attempts = Append(plan.stages[i].attempts, a)
        BY DEF BegunStage
      <4>3. a \in Attempts
        BY <2>0 DEF Attempts, Plans, StageStatuses
      <4> HIDE DEF a
      <4>4. /\ k \in DOMAIN Append(plan.stages[i].attempts, a)
            /\ Append(plan.stages[i].attempts, a)[k] = plan.stages[i].attempts[k]
        BY <2>0, <4>3
      <4> QED
        BY <3>2, <4>1, <4>2, <4>4
    <3> QED
      BY <3>3, <3>4
  <2>5. ASSUME NEW j, NEW r, NEW at, NEW outcome, Holds(plan, j, r), Closes(at, j, outcome)
        PROVE  Kept(i, k)
    <3>1. PICK st \in {"executing", "completed", "failed"} :
            StageWritten(plan, plan', j, Closed(plan.stages[j], outcome), st)
      BY <2>5, CloseWrites DEF PlanInv
    <3>2. plan'.definition = plan.definition
      BY <3>1 DEF StageWritten
    <3>3. CASE i # j
      BY <3>1, <3>2, <3>3 DEF StageWritten
    <3>4. CASE i = j
      <4>1. plan'.stages[i] = Closed(plan.stages[i], outcome)
        BY <3>1, <3>4 DEF StageWritten
      <4>2. plan.stages[i].attempts # <<>> /\ Last(plan.stages[i]).status = "running"
        BY <2>5, <3>4 DEF Holds
      <4>3. outcome \in {"completed", "failed"}
        BY <2>5 DEF Closes
      <4>4. /\ DOMAIN Closed(plan.stages[i], outcome).attempts = DOMAIN plan.stages[i].attempts
            /\ k # Len(plan.stages[i].attempts) =>
                 Closed(plan.stages[i], outcome).attempts[k] = plan.stages[i].attempts[k]
        BY <2>0, <4>2, <4>3, ClosedAttempts
      <4> QED
        BY <3>2, <4>1, <4>2, <4>4 DEF Last
    <3> QED
      BY <3>3, <3>4
  <2>6. CASE plan' = plan
    BY <2>6
  <2> QED
    BY <2>1, <2>2, <2>3, <2>4, <2>5, <2>6, PlanChanges
<1>2. Spec => [][Keeps]_vars
  BY <1>1, PlanInvariant, PTL DEF Spec
<1> QED
  BY <1>2 DEF HistoryKept, Keeps, Kept

\* The run behind a completed stage has begun it, for this stage of this
\* revision, and its receipt was accepted.
EarnedBy(r, i) ==
  /\ r \in Runs
  /\ run[r].pc \in BegunPlaces
  /\ run[r].receipt = "accepted"
  /\ run[r].stage = i
  /\ run[r].revision = plan.revision
CompletionsEarned ==
  plan # NoPlan => \A i \in InState(plan, "completed") : EarnedBy(Last(plan.stages[i]).run, i)

AcceptanceInv == PlanInv /\ CompletionsEarned

\* The plan keeps its completed stages, and the runs behind them keep what
\* they earned them with.
LEMMA EarnedStays ==
  ASSUME AcceptanceInv, plan # NoPlan, plan'.revision = plan.revision,
         \A i \in InState(plan', "completed") :
           i \in InState(plan, "completed") /\ plan'.stages[i] = plan.stages[i],
         \A r \in Runs : run[r].pc \in BegunPlaces /\ run[r].receipt = "accepted" =>
           /\ run'[r].pc \in BegunPlaces
           /\ run'[r].receipt = run[r].receipt
           /\ run'[r].stage = run[r].stage
           /\ run'[r].revision = run[r].revision
  PROVE  CompletionsEarned'
<1> SUFFICES ASSUME NEW i \in InState(plan', "completed")
             PROVE  EarnedBy(Last(plan.stages[i]).run, i)'
  BY DEF CompletionsEarned
<1>1. EarnedBy(Last(plan.stages[i]).run, i)
  BY DEF AcceptanceInv, CompletionsEarned
<1> QED
  BY <1>1 DEF EarnedBy

\* No step takes back what a run has earned: once it has begun and written an
\* accepting receipt, only its place changes, and that only forward.
LEMMA ReceiptsStay ==
  ASSUME PlanInv, [Next]_vars, NEW r \in Runs, run[r].pc \in BegunPlaces, run[r].receipt = "accepted"
  PROVE  /\ run'[r].pc \in BegunPlaces
         /\ run'[r].receipt = run[r].receipt
         /\ run'[r].stage = run[r].stage
         /\ run'[r].revision = run[r].revision
<1> DEFINE Keeps == /\ run'[r].pc \in BegunPlaces
                    /\ run'[r].receipt = run[r].receipt
                    /\ run'[r].stage = run[r].stage
                    /\ run'[r].revision = run[r].revision
<1>0. run \in [Runs -> Handlers] /\ run[r] \in Handlers
  BY DEF PlanInv, TypeOK
<1>1. run' = run => Keeps
  OBVIOUS
<1>2. ASSUME NEW d \in Definitions, CreatePlan(d) PROVE Keeps
  BY <1>1, <1>2 DEF CreatePlan
<1>3. ASSUME NEW o \in Operators,
             \/ GetPlan(o) \/ ApprovePlan(o) \/ CheckActive(o) \/ ReconcilePlanStage(o)
             \/ ReconcileRefused(o) \/ \E d \in Definitions : UpdatePlan(o, d)
      PROVE  Keeps
  BY <1>1, <1>3 DEF GetPlan, ApprovePlan, CheckActive, ReconcilePlanStage, ReconcileRefused, UpdatePlan
<1>4. ASSUME NEW q \in Runs, NEW i \in Positions(plan), ReadPlan(q, i) PROVE Keeps
  <2>1. q # r /\ run'[r] = run[r]
    BY <1>0, <1>4 DEF ReadPlan, BegunPlaces
  <2> QED
    BY <2>1
<1>5. ASSUME NEW q \in Runs, BeginPlanStage(q) PROVE Keeps
  <2>1. q # r /\ run'[r] = run[r]
    BY <1>0, <1>5 DEF BeginPlanStage, BegunPlaces
  <2> QED
    BY <2>1
<1>6. ASSUME NEW q \in Runs, NEW verdict \in {"accepted", "rejected"}, ReceiptWritten(q, verdict) PROVE Keeps
  <2>1. q # r /\ run'[r] = run[r]
    BY <1>0, <1>6 DEF ReceiptWritten
  <2> QED
    BY <2>1
<1>7. ASSUME NEW q \in Runs, NEW to \in {"registered", "returning", "ended"},
             run' = [run EXCEPT ![q].pc = to],
             to = "registered" => run[q].pc = "read"
      PROVE  Keeps
  <2>1. CASE q # r
    BY <1>0, <1>7, <2>1
  <2>2. CASE q = r
    BY <1>0, <1>7, <2>2 DEF BegunPlaces, Handlers
  <2> QED
    BY <2>1, <2>2
<1>8. ASSUME NEW q \in Runs, \/ RegisterActive(q) \/ BeginRefused(q) \/ FinishUnrecorded(q) \/ Return(q)
                             \/ FinishCompleted(q) \/ FinishFailed(q)
      PROVE  Keeps
  BY <1>7, <1>8 DEF RegisterActive, BeginRefused, FinishUnrecorded, Return, FinishCompleted, FinishFailed, Goes
<1>9. ASSUME Crash PROVE Keeps
  <2>1. run'[r] = [run[r] EXCEPT !.pc = "crashed"] \/ run'[r] = run[r]
    BY <1>9 DEF Crash
  <2> QED
    BY <1>0, <2>1 DEF BegunPlaces, Handlers
<1>10. ASSUME UNCHANGED vars PROVE Keeps
  BY <1>1, <1>10 DEF vars
<1> HIDE DEF Keeps
<1>11. Keeps
  BY <1>2, <1>3, <1>4, <1>5, <1>6, <1>8, <1>9, <1>10 DEF Next
<1> QED
  BY <1>11 DEF Keeps

\* Every step keeps the acceptance invariant.
LEMMA AcceptanceStep == AcceptanceInv /\ [Next]_vars => AcceptanceInv'
<1> SUFFICES ASSUME AcceptanceInv, [Next]_vars PROVE CompletionsEarned'
  BY PlanStep DEF AcceptanceInv
<1>0. PlanInv
  BY DEF AcceptanceInv
<1>1. \A r \in Runs : run[r].pc \in BegunPlaces /\ run[r].receipt = "accepted" =>
        /\ run'[r].pc \in BegunPlaces
        /\ run'[r].receipt = run[r].receipt
        /\ run'[r].stage = run[r].stage
        /\ run'[r].revision = run[r].revision
  BY <1>0, ReceiptsStay
<1>2. CASE \/ \E d \in Definitions : CreatePlan(d)
           \/ \E o \in Operators, d \in Definitions : UpdatePlan(o, d)
           \/ \E o \in Operators : ApprovePlan(o)
  <2>1. ValidPlanRecord(plan') /\ plan'.status \in {"draft", "approved"}
    BY <1>0, <1>2, EditWrites DEF PlanInv
  <2>2. InState(plan', "completed") = {}
    BY <2>1 DEF ValidPlanRecord, InState
  <2> QED
    BY <2>2 DEF CompletionsEarned
<1>3. ASSUME NEW r \in Runs, BeginPlanStage(r) PROVE CompletionsEarned'
  <2>1. StageWritten(plan, plan', run[r].stage, BegunStage(plan, run[r].stage, r), "executing")
    BY <1>0, <1>3, BeginWrites DEF PlanInv
  <2>2. BegunStage(plan, run[r].stage, r).status = "running"
    BY DEF BegunStage
  <2>3. \A i \in InState(plan', "completed") :
          i \in InState(plan, "completed") /\ plan'.stages[i] = plan.stages[i]
    BY <2>1, <2>2 DEF StageWritten, InState
  <2>4. plan # NoPlan /\ plan'.revision = plan.revision
    BY <1>3, <2>1 DEF StageWritten, BeginPlanStage, MutatePlan, Current
  <2> QED
    BY <1>1, <2>3, <2>4, EarnedStays
<1>4. ASSUME NEW i, NEW r, NEW at, Holds(plan, i, r), Closes(at, i, "failed") PROVE CompletionsEarned'
  <2>1. PICK st \in {"executing", "completed", "failed"} :
          StageWritten(plan, plan', i, Closed(plan.stages[i], "failed"), st)
    BY <1>0, <1>4, CloseWrites DEF PlanInv
  <2>2. plan'.stages[i].status = "failed"
    BY <1>0, <1>4, CloseWrites DEF PlanInv
  <2>3. \A j \in InState(plan', "completed") :
          j \in InState(plan, "completed") /\ plan'.stages[j] = plan.stages[j]
    BY <2>1, <2>2 DEF StageWritten, InState
  <2>4. plan # NoPlan /\ plan'.revision = plan.revision
    BY <1>4, <2>1 DEF StageWritten, Closes, MutatePlan, Current
  <2> QED
    BY <1>1, <2>3, <2>4, EarnedStays
<1>5. ASSUME NEW r \in Runs, FinishCompleted(r) \/ FinishFailed(r), Earned(r),
             Holds(plan, run[r].stage, r), Closes(run[r], run[r].stage, "completed")
      PROVE  CompletionsEarned'
  <2>0. PICK i : i = run[r].stage
    OBVIOUS
  <2>1. PICK st \in {"executing", "completed", "failed"} :
          StageWritten(plan, plan', i, Closed(plan.stages[i], "completed"), st)
    BY <1>0, <1>5, <2>0, CloseWrites DEF PlanInv
  <2>2. /\ plan # NoPlan /\ plan \in Plans /\ i \in Positions(plan)
        /\ plan.revision = run[r].revision /\ plan'.revision = plan.revision
    BY <1>0, <1>5, <2>0, <2>1 DEF StageWritten, Closes, MutatePlan, Current, Holds, InState, PlanInv, TypeOK
  <2>3. Last(plan'.stages[i]).run = r
    <3>1. plan.stages[i] \in PlanStages
      BY <2>2, StageTypes
    <3>2. plan.stages[i].attempts # <<>> /\ Last(plan.stages[i]).run = r
      BY <1>5, <2>0 DEF Holds
    <3>3. plan'.stages[i] = Closed(plan.stages[i], "completed")
      BY <2>1 DEF StageWritten
    <3> QED
      BY <3>1, <3>2, <3>3, ClosedAttempts
  <2>4. run[r].pc = "executing" /\ run[r].receipt = "accepted"
    BY <1>5 DEF FinishCompleted, FinishFailed, Goes, Earned
  <2>5. EarnedBy(Last(plan.stages[i]).run, i)'
    <3>1. run'[r].pc \in BegunPlaces /\ run'[r].receipt = "accepted" /\ run'[r].stage = i
          /\ run'[r].revision = plan'.revision
      BY <1>1, <2>0, <2>2, <2>4 DEF BegunPlaces
    <3> QED
      BY <2>3, <3>1 DEF EarnedBy
  <2>6. ASSUME NEW j \in InState(plan', "completed"), j # i PROVE EarnedBy(Last(plan.stages[j]).run, j)'
    <3>1. j \in InState(plan, "completed") /\ plan'.stages[j] = plan.stages[j]
      BY <2>1, <2>6 DEF StageWritten, InState
    <3>2. EarnedBy(Last(plan.stages[j]).run, j)
      BY <2>2, <3>1 DEF AcceptanceInv, CompletionsEarned
    <3> QED
      BY <1>1, <2>2, <3>1, <3>2 DEF EarnedBy
  <2> QED
    BY <2>5, <2>6 DEF CompletionsEarned
<1>6. CASE plan' = plan
  BY <1>1, <1>6, EarnedStays DEF CompletionsEarned
<1>7. ASSUME NEW r \in Runs, NEW outcome \in {"completed", "failed"},
             FinishCompleted(r) \/ FinishFailed(r), outcome = "completed" => Earned(r),
             Holds(plan, run[r].stage, r), Closes(run[r], run[r].stage, outcome)
      PROVE  CompletionsEarned'
  BY <1>4, <1>5, <1>7
<1> QED
  BY <1>0, <1>2, <1>3, <1>4, <1>6, <1>7, PlanChanges

\* A completed stage was completed by a run of this stage and revision whose
\* receipt was accepted; failure, crash and reconciliation never turn into
\* acceptance.
THEOREM CompletionIsEarned == Spec => []AcceptanceIsEarned
<1>1. Init => AcceptanceInv
  BY PlanInit DEF Init, AcceptanceInv, CompletionsEarned
<1>2. AcceptanceInv => AcceptanceIsEarned
  BY DEF AcceptanceInv, CompletionsEarned, EarnedBy, AcceptanceIsEarned
<1> QED
  BY <1>1, <1>2, AcceptanceStep, PTL DEF Spec

-----------------------------------------------------------------------------
(***************************************************************************)
(* The validation of a plan record agrees with the checks of its           *)
(* transitions, and the store with its operators and runs implements       *)
(* PlanLifecycle.                                                          *)
(*                                                                         *)
(* Both need a fact that validatePlanRecord does not demand and that the   *)
(* transitions keep: a stage is touched only after every earlier one has   *)
(* been completed.  Without it a record with a failed stage behind a       *)
(* pending one would be valid and BeginPlanStage would make it corrupt.    *)
(***************************************************************************)

\* A stage that somebody has worked on has only completed stages before it.
StagesOrdered ==
  plan # NoPlan => \A i, j \in Positions(plan) :
    j < i /\ plan.stages[i].status # "pending" => plan.stages[j].status = "completed"

OrderInv == PlanInv /\ StagesOrdered
-----------------------------------------------------------------------------
\* The stages of a record are numbered from one.
LEMMA StageNumbers ==
  ASSUME NEW p \in Plans
  PROVE  /\ Len(p.stages) \in Nat
         /\ Positions(p) = 1 .. Len(p.stages)
         /\ Positions(p) \subseteq Nat
BY DEF Plans, Positions

\* The stages a step leaves alone keep their order, when the one stage it
\* writes may be written: it is eligible, or nothing behind it was touched.
LEMMA OrderKept ==
  ASSUME NEW p \in Plans, NEW q, NEW i \in Positions(p), NEW s, NEW st,
         StageWritten(p, q, i, s, st),
         p.stages[i].status # "completed",
         \A k, j \in Positions(p) :
           j < k /\ p.stages[k].status # "pending" => p.stages[j].status = "completed",
         \A j \in Positions(p) : j < i => p.stages[j].status = "completed"
  PROVE  \A k, j \in Positions(q) :
           j < k /\ q.stages[k].status # "pending" => q.stages[j].status = "completed"
<1> SUFFICES ASSUME NEW k \in Positions(p), NEW j \in Positions(p),
                    j < k, q.stages[k].status # "pending"
             PROVE  q.stages[j].status = "completed"
  BY DEF StageWritten
<1>1. k \in Nat /\ j \in Nat /\ i \in Nat
  BY StageNumbers
<1>2. CASE k = i
  <2>1. j # i /\ p.stages[j].status = "completed"
    BY <1>1, <1>2
  <2> QED BY <2>1 DEF StageWritten
<1>3. CASE k # i
  <2>1. p.stages[j].status = "completed"
    BY <1>3 DEF StageWritten
  <2>2. j # i
    BY <2>1
  <2> QED BY <2>1, <2>2 DEF StageWritten
<1> QED BY <1>2, <1>3

\* Every step of operators, runs and the process keeps the stages in order.
LEMMA OrderStep == OrderInv /\ [Next]_vars => OrderInv'
<1> SUFFICES ASSUME OrderInv, [Next]_vars PROVE StagesOrdered'
  BY PlanStep DEF OrderInv
<1>0. PlanInv /\ StagesOrdered /\ TypeOK
  BY DEF OrderInv, PlanInv
<1>1. CASE \/ \E d \in Definitions : CreatePlan(d)
           \/ \E o \in Operators, d \in Definitions : UpdatePlan(o, d)
           \/ \E o \in Operators : ApprovePlan(o)
  <2>1. ValidPlanRecord(plan') /\ plan'.status \in {"draft", "approved"}
    BY <1>0, <1>1, EditWrites
  <2>2. \A i \in Positions(plan') : plan'.stages[i].status = "pending"
    BY <2>1 DEF ValidPlanRecord, InState
  <2> QED BY <2>2 DEF StagesOrdered
<1>2. ASSUME NEW r \in Runs, BeginPlanStage(r) PROVE StagesOrdered'
  <2> DEFINE i == run[r].stage
  <2>1. /\ plan \in Plans
        /\ i \in Positions(plan)
        /\ StageWritten(plan, plan', i, BegunStage(plan, i, r), "executing")
    BY <1>0, <1>2, BeginWrites
  <2>2. /\ plan # NoPlan
        /\ i \in InState(plan, "pending") \cup InState(plan, "failed")
        /\ 1 .. (i - 1) \subseteq InState(plan, "completed")
    BY <1>2 DEF BeginPlanStage, CanBegin, MutatePlan, Current
  <2>3. plan.stages[i].status # "completed"
    BY <2>2 DEF InState
  <2>4. \A j \in Positions(plan) : j < i => plan.stages[j].status = "completed"
    <3>1. \A j \in Positions(plan) : j < i => j \in 1 .. (i - 1)
      BY <2>1, StageNumbers
    <3> QED BY <2>2, <3>1 DEF InState
  <2> HIDE DEF i
  <2>5. \A k, j \in Positions(plan') :
          j < k /\ plan'.stages[k].status # "pending" => plan'.stages[j].status = "completed"
    BY <1>0, <2>1, <2>2, <2>3, <2>4, OrderKept DEF StagesOrdered
  <2> QED BY <2>5 DEF StagesOrdered
<1>3. ASSUME NEW i, NEW r, NEW at, NEW outcome, Holds(plan, i, r), Closes(at, i, outcome)
      PROVE  StagesOrdered'
  <2>1. /\ plan \in Plans /\ plan # NoPlan
        /\ i \in Positions(plan)
        /\ \E st \in {"executing", "completed", "failed"} :
              StageWritten(plan, plan', i, Closed(plan.stages[i], outcome), st)
    BY <1>0, <1>3, CloseWrites, NoPlanAssumption
  <2>2. plan.stages[i].status = "running"
    BY <1>3 DEF Holds, InState
  <2>3. \A j \in Positions(plan) : j < i => plan.stages[j].status = "completed"
    BY <1>0, <2>1, <2>2 DEF StagesOrdered
  <2>4. \A k, j \in Positions(plan') :
          j < k /\ plan'.stages[k].status # "pending" => plan'.stages[j].status = "completed"
    BY <1>0, <2>1, <2>2, <2>3, OrderKept DEF StagesOrdered
  <2> QED BY <2>4 DEF StagesOrdered
<1>4. CASE plan' = plan
  BY <1>0, <1>4 DEF StagesOrdered
<1> QED BY <1>0, <1>1, <1>2, <1>3, <1>4, PlanChanges

\* The order of the stages holds in every reachable state.
LEMMA OrderInvariant == Spec => []OrderInv
<1>1. Init => OrderInv
  BY PlanInit DEF Init, OrderInv, StagesOrdered
<1> QED BY <1>1, OrderStep, PTL DEF Spec

-----------------------------------------------------------------------------
(* The checks of the transitions agree with the validation of a record.    *)

\* A record without attempts has only pending stages.
LEMMA UntouchedStages ==
  ASSUME NEW p \in Plans, ValidPlanRecord(p), ~HasAttempts(p)
  PROVE  \A i \in Positions(p) : p.stages[i].attempts = <<>> /\ p.stages[i].status = "pending"
<1> SUFFICES ASSUME NEW i \in Positions(p)
             PROVE  p.stages[i].attempts = <<>> /\ p.stages[i].status = "pending"
  OBVIOUS
<1>1. p.stages[i].attempts = <<>> /\ ValidStage(p, i)
  BY DEF HasAttempts, ValidPlanRecord
<1> QED BY <1>1 DEF ValidStage

\* ApprovePlan writes a valid record.
LEMMA ApprovalValid ==
  ASSUME NEW p \in Plans, ValidPlanRecord(p), CanApprove(p)
  PROVE  ValidPlanRecord(Approved(p))
<1> DEFINE q == Approved(p)
<1>1. /\ q.stages = p.stages /\ q.definition = p.definition
      /\ q.revision = p.revision /\ q.approvedRevision = p.revision
      /\ q.status = "approved"
  BY DEF Approved, Plans
<1> HIDE DEF q
<1>2. \A i \in Positions(p) : ValidStage(q, i) = ValidStage(p, i)
  BY <1>1 DEF ValidStage
<1>3. Positions(q) = Positions(p) /\ DistinctRuns(q) = DistinctRuns(p)
  BY <1>1 DEF Positions, DistinctRuns
<1>4. \A st \in StageStatuses : InState(q, st) = InState(p, st)
  BY <1>1, <1>3 DEF InState
<1>5. InState(p, "pending") = Positions(p)
  BY UntouchedStages DEF CanApprove, InState
<1>6. InState(q, "pending") = Positions(q) /\ InState(q, "running") = {}
  BY <1>3, <1>4, <1>5 DEF StageStatuses, InState
<1> QED BY <1>1, <1>2, <1>3, <1>6 DEF ValidPlanRecord, q

\* UpdatePlan writes a valid record, whatever the new definition.
LEMMA UpdateValid ==
  ASSUME NEW p \in Plans, NEW d \in Definitions
  PROVE  ValidPlanRecord(Updated(p, d))
<1> DEFINE q == Updated(p, d)
<1>1. /\ q.stages = Fresh(d) /\ q.definition = d
      /\ q.approvedRevision = 0 /\ q.status = "draft"
  BY DEF Updated, Plans
<1>2. /\ Len(d) \in Nat
      /\ DOMAIN Fresh(d) = 1 .. Len(d) /\ Len(Fresh(d)) = Len(d)
      /\ \A i \in 1 .. Len(d) : Fresh(d)[i].status = "pending" /\ Fresh(d)[i].attempts = <<>>
  BY PlanAssumption DEF Fresh
<1> HIDE DEF q
<1>3. /\ Positions(q) = 1 .. Len(d) /\ Len(q.stages) = Len(q.definition)
      /\ \A i \in Positions(q) : q.stages[i].status = "pending" /\ q.stages[i].attempts = <<>>
  BY <1>1, <1>2 DEF Positions
<1>4. \A i \in Positions(q) : ValidStage(q, i)
  BY <1>3, PlanAssumption DEF ValidStage
<1>5. DistinctRuns(q)
  BY <1>3 DEF DistinctRuns
<1>6. InState(q, "pending") = Positions(q) /\ InState(q, "running") = {}
  BY <1>3 DEF InState
<1> QED BY <1>1, <1>3, <1>4, <1>5, <1>6 DEF ValidPlanRecord, q

\* The run ids in the attempts of a record.
LEMMA RunsMember ==
  ASSUME NEW p, NEW r
  PROVE  r \in RunsOf(p) <=>
           \E i \in Positions(p) : \E k \in DOMAIN p.stages[i].attempts :
             p.stages[i].attempts[k].run = r
BY DEF RunsOf

\* The elements of a sequence that grows by one.
LEMMA AppendParts ==
  ASSUME NEW S, NEW q \in Seq(S), NEW x \in S
  PROVE  /\ Len(q) \in Nat
         /\ DOMAIN q = 1 .. Len(q)
         /\ Len(Append(q, x)) = Len(q) + 1
         /\ DOMAIN Append(q, x) = 1 .. (Len(q) + 1)
         /\ \A k \in 1 .. Len(q) : Append(q, x)[k] = q[k]
         /\ Append(q, x)[Len(q) + 1] = x
OBVIOUS

\* The status and the attempts of the stage a run begins.
LEMMA BegunAttempts ==
  ASSUME NEW p \in Plans, NEW i \in Positions(p), NEW r \in Runs
  PROVE  LET a == [run |-> r, revision |-> p.revision, status |-> "running"]
             n == Len(p.stages[i].attempts)
             s == BegunStage(p, i, r)
         IN /\ s \in PlanStages /\ s.status = "running"
            /\ n \in Nat /\ DOMAIN p.stages[i].attempts = 1 .. n
            /\ Len(s.attempts) = n + 1 /\ DOMAIN s.attempts = 1 .. (n + 1)
            /\ \A k \in 1 .. n : s.attempts[k] = p.stages[i].attempts[k]
            /\ s.attempts[n + 1] = a
            /\ Last(s) = a
<1> DEFINE a == [run |-> r, revision |-> p.revision, status |-> "running"]
           n == Len(p.stages[i].attempts)
<1>1. p.stages[i] \in PlanStages /\ p.stages[i].attempts \in Seq(Attempts)
  BY StageTypes
<1>2. a \in Attempts
  BY DEF Attempts, Plans, StageStatuses
<1>3. /\ BegunStage(p, i, r).attempts = Append(p.stages[i].attempts, a)
      /\ BegunStage(p, i, r).status = "running"
  BY DEF BegunStage
<1>4. BegunStage(p, i, r) \in PlanStages
  BY <1>1, <1>2 DEF PlanStages, BegunStage, StageStatuses
<1> HIDE DEF a
<1>5. /\ n \in Nat /\ DOMAIN p.stages[i].attempts = 1 .. n
      /\ Len(Append(p.stages[i].attempts, a)) = n + 1
      /\ DOMAIN Append(p.stages[i].attempts, a) = 1 .. (n + 1)
      /\ \A k \in 1 .. n : Append(p.stages[i].attempts, a)[k] = p.stages[i].attempts[k]
      /\ Append(p.stages[i].attempts, a)[n + 1] = a
  <2> HIDE DEF n
  <2> QED BY <1>1, <1>2, AppendParts DEF n
<1> QED BY <1>3, <1>4, <1>5 DEF Last, a

\* A record in which one stage and the status of a plan were written.
Rewritten(p, i, s, st) == [p EXCEPT !.status = st, !.stages[i] = s]

\* What such a record keeps.
LEMMA WrittenRecord ==
  ASSUME NEW p \in Plans, NEW i \in Positions(p), NEW s \in PlanStages,
         NEW st \in {"draft", "approved", "executing", "completed", "failed"},
         NEW q, q = Rewritten(p, i, s, st)
  PROVE  /\ q.revision = p.revision /\ q.approvedRevision = p.approvedRevision
         /\ q.definition = p.definition /\ q.status = st
         /\ Positions(q) = Positions(p) /\ Len(q.stages) = Len(p.stages)
         /\ q.stages[i] = s
         /\ \A j \in Positions(p) : j # i => q.stages[j] = p.stages[j]
<1> DEFINE w == [p.stages EXCEPT ![i] = s]
<1>1. p.stages \in Seq(PlanStages) /\ i \in DOMAIN p.stages
  BY DEF Plans, Positions
<1>2. /\ w \in Seq(PlanStages) /\ DOMAIN w = DOMAIN p.stages
      /\ w[i] = s /\ \A j \in DOMAIN p.stages : j # i => w[j] = p.stages[j]
  BY <1>1, SeqExcept
<1>3. Len(w) = Len(p.stages)
  BY <1>1, <1>2
<1>4. q = [p EXCEPT !.status = st, !.stages = w]
  BY DEF Plans, Rewritten
<1> HIDE DEF w
<1>5. /\ q.revision = p.revision /\ q.approvedRevision = p.approvedRevision
      /\ q.definition = p.definition /\ q.status = st /\ q.stages = w
  BY <1>4 DEF Plans
<1> QED BY <1>2, <1>3, <1>5 DEF Positions

\* A record in which one stage was written is valid when the stage is, when
\* it holds the runs the stage held before or one that is new to the record,
\* and when the status fits.
LEMMA WrittenValid ==
  ASSUME NEW p \in Plans, ValidPlanRecord(p), NEW i \in Positions(p), NEW s \in PlanStages,
         NEW st \in {"executing", "completed", "failed"},
         NEW q, q = Rewritten(p, i, s, st),
         p.approvedRevision = p.revision,
         ValidStage(q, i),
         DOMAIN p.stages[i].attempts \subseteq DOMAIN s.attempts,
         \A k \in DOMAIN p.stages[i].attempts :
           s.attempts[k].run = p.stages[i].attempts[k].run,
         \A k, m \in DOMAIN s.attempts \ DOMAIN p.stages[i].attempts :
           s.attempts[k].run \notin RunsOf(p) /\ k = m,
         \A j, k \in InState(q, "running") : j = k,
         st = "executing" => InState(q, "failed") = {},
         st = "failed" => InState(q, "running") = {} /\ InState(q, "failed") # {},
         st = "completed" => InState(q, "completed") = Positions(q)
  PROVE  ValidPlanRecord(q)
<1>1. /\ q.revision = p.revision /\ q.approvedRevision = p.approvedRevision
      /\ q.definition = p.definition /\ q.status = st
      /\ Positions(q) = Positions(p) /\ Len(q.stages) = Len(p.stages)
      /\ q.stages[i] = s
      /\ \A j \in Positions(p) : j # i => q.stages[j] = p.stages[j]
  BY WrittenRecord
<1>2. \A j \in Positions(q) : ValidStage(q, j)
  <2> SUFFICES ASSUME NEW j \in Positions(q), j # i PROVE ValidStage(q, j)
    OBVIOUS
  <2>1. ValidStage(p, j) /\ q.stages[j] = p.stages[j]
    BY <1>1 DEF ValidPlanRecord
  <2> QED BY <1>1, <2>1 DEF ValidStage
<1>3. DistinctRuns(q)
  <2> SUFFICES ASSUME NEW j \in Positions(q), NEW l \in Positions(q),
                      NEW k \in DOMAIN q.stages[j].attempts, NEW m \in DOMAIN q.stages[l].attempts,
                      q.stages[j].attempts[k].run = q.stages[l].attempts[m].run
               PROVE  j = l /\ k = m
    BY DEF DistinctRuns
  <2> DEFINE Old(x, y) == x # i \/ y \in DOMAIN p.stages[i].attempts
  <2>1. \A x \in Positions(q) : \A y \in DOMAIN q.stages[x].attempts :
          Old(x, y) => /\ y \in DOMAIN p.stages[x].attempts
                       /\ q.stages[x].attempts[y].run = p.stages[x].attempts[y].run
                       /\ q.stages[x].attempts[y].run \in RunsOf(p)
    BY <1>1, RunsMember
  <2>2. \A x \in Positions(q) : \A y \in DOMAIN q.stages[x].attempts :
          ~Old(x, y) => x = i /\ q.stages[x].attempts[y].run \notin RunsOf(p)
    BY <1>1
  <2>3. CASE Old(j, k) /\ Old(l, m)
    <3> HIDE DEF Old
    <3> QED BY <1>1, <2>1, <2>3 DEF ValidPlanRecord, DistinctRuns
  <2>4. CASE ~Old(j, k) /\ ~Old(l, m)
    BY <1>1, <2>4
  <2> HIDE DEF Old
  <2> QED BY <2>1, <2>2, <2>3, <2>4
<1> QED BY <1>1, <1>2, <1>3 DEF ValidPlanRecord

\* BeginPlanStage writes a valid record: the stage it takes up is the first
\* that is not completed, and no other stage has failed.
LEMMA BeginValid ==
  ASSUME OrderInv, plan # NoPlan, NEW i \in Positions(plan), NEW r \in Runs, CanBegin(plan, i, r)
  PROVE  ValidPlanRecord(Begun(plan, i, r))
<1> DEFINE p == plan
           s == BegunStage(p, i, r)
           q == Begun(p, i, r)
           n == Len(p.stages[i].attempts)
           a == [run |-> r, revision |-> p.revision, status |-> "running"]
<1>1. p \in Plans /\ ValidPlanRecord(p) /\ ValidStage(p, i)
  BY DEF OrderInv, PlanInv, TypeOK, StoredIsValid, ValidPlanRecord
<1>2. /\ p.approvedRevision = p.revision
      /\ InState(p, "running") = {}
      /\ p.stages[i].status \in {"pending", "failed"}
      /\ 1 .. (i - 1) \subseteq InState(p, "completed")
      /\ r \notin RunsOf(p)
      /\ n < MaxAttempts
  BY DEF CanBegin, Executable, InState
<1>3. q = Rewritten(p, i, s, "executing")
  BY DEF Begun, BegunStage, Rewritten
<1>4. /\ s \in PlanStages /\ s.status = "running"
      /\ n \in Nat /\ DOMAIN p.stages[i].attempts = 1 .. n
      /\ Len(s.attempts) = n + 1 /\ DOMAIN s.attempts = 1 .. (n + 1)
      /\ \A k \in 1 .. n : s.attempts[k] = p.stages[i].attempts[k]
      /\ s.attempts[n + 1] = a
      /\ Last(s) = a
  BY <1>1, BegunAttempts
<1> HIDE DEF s, q
<1>5. /\ q.revision = p.revision
      /\ Positions(q) = Positions(p)
      /\ q.stages[i] = s
      /\ \A j \in Positions(p) : j # i => q.stages[j] = p.stages[j]
  BY <1>1, <1>3, <1>4, WrittenRecord
<1> HIDE DEF p
<1>6. ValidStage(q, i)
  <2>1. \A k \in 1 .. n : p.stages[i].attempts[k].status = "failed"
    BY <1>1, <1>2, <1>4 DEF ValidStage, Last
  <2>2. \A k \in 1 .. n : p.stages[i].attempts[k].revision = p.revision
    BY <1>1 DEF ValidStage
  <2>3. \A k \in 1 .. (n + 1) : s.attempts[k].revision = p.revision
    <3>1. s.attempts[n + 1].revision = p.revision
      BY <1>4
    <3>2. \A k \in 1 .. n : s.attempts[k].revision = p.revision
      BY <1>4, <2>2
    <3> HIDE DEF n
    <3> QED BY <1>4, <3>1, <3>2
  <2>4. n + 1 <= MaxAttempts
    BY <1>2, <1>4, PlanAssumption
  <2>5. \A k \in 1 .. n : s.attempts[k].status = "failed"
    BY <1>4, <2>1
  <2>6. Last(s).status = "running"
    BY <1>4
  <2> QED BY <1>4, <1>5, <2>3, <2>4, <2>5, <2>6 DEF ValidStage
<1>7. \A k, m \in DOMAIN s.attempts \ DOMAIN p.stages[i].attempts :
        s.attempts[k].run \notin RunsOf(p) /\ k = m
  BY <1>2, <1>4
<1>8. \A j, k \in InState(q, "running") : j = k
  BY <1>2, <1>5 DEF InState
<1>9. InState(q, "failed") = {}
  <2> SUFFICES ASSUME NEW j \in Positions(p), j # i, p.stages[j].status = "failed" PROVE FALSE
    BY <1>4, <1>5 DEF InState
  <2>1. i \in Nat /\ j \in Nat /\ Positions(p) = 1 .. Len(p.stages) /\ Len(p.stages) \in Nat
    BY <1>1, StageNumbers DEF p
  <2>2. j < i => j \in InState(p, "completed")
    BY <1>2, <2>1
  <2>3. i < j => p.stages[i].status = "completed"
    BY DEF p, OrderInv, StagesOrdered
  <2> QED BY <1>2, <2>1, <2>2, <2>3 DEF InState
<1>10. /\ DOMAIN p.stages[i].attempts \subseteq DOMAIN s.attempts
       /\ \A k \in DOMAIN p.stages[i].attempts : s.attempts[k].run = p.stages[i].attempts[k].run
  BY <1>4
<1>11. i \in Positions(p)
  BY DEF p
<1>12. ValidPlanRecord(q)
  <2> HIDE DEF n, a
  <2> QED BY <1>1, <1>2, <1>3, <1>4, <1>6, <1>7, <1>8, <1>9, <1>10, <1>11, WrittenValid
<1> QED BY <1>12 DEF q, p

\* FinishPlanStage and ReconcilePlanStage write a valid record, whichever way
\* they close the stage.
LEMMA CloseValid ==
  ASSUME NEW p \in Plans, ValidPlanRecord(p), NEW i, NEW r, Holds(p, i, r)
  PROVE  ValidPlanRecord(Failed(p, i)) /\ ValidPlanRecord(Completed(p, i))
<1> DEFINE t == p.stages[i]
<1>1. /\ p.status = "executing" /\ i \in Positions(p)
      /\ t.status = "running" /\ t.attempts # <<>>
      /\ Last(t) = [run |-> r, revision |-> p.revision, status |-> "running"]
      /\ t \in PlanStages
  BY StageTypes DEF Holds, InState
<1>2. /\ p.approvedRevision = p.revision /\ ValidStage(p, i)
      /\ InState(p, "failed") = {}
      /\ \A j \in Positions(p) : j # i => p.stages[j].status # "running"
  BY <1>1 DEF ValidPlanRecord, InState
<1> HIDE DEF t
<1>3. ASSUME NEW outcome \in {"completed", "failed"},
             NEW st \in {"executing", "completed", "failed"},
             NEW q, q = Rewritten(p, i, Closed(t, outcome), st),
             outcome = "failed" => st = "failed",
             outcome = "completed" =>
               st = IF Positions(p) = InState(p, "completed") \cup {i} THEN "completed" ELSE "executing"
      PROVE  ValidPlanRecord(q)
  <2> DEFINE s == Closed(t, outcome)
             n == Len(t.attempts)
  <2>1. /\ s \in PlanStages /\ s.status = outcome
        /\ DOMAIN s.attempts = DOMAIN t.attempts
        /\ \A k \in DOMAIN t.attempts : k # n => s.attempts[k] = t.attempts[k]
        /\ Last(s).run = Last(t).run
    BY <1>1, ClosedStage, ClosedAttempts
  <2>2. /\ n \in Nat \ {0} /\ DOMAIN t.attempts = 1 .. n
        /\ t.attempts \in Seq(Attempts) /\ s.attempts \in Seq(Attempts)
        /\ Len(s.attempts) = n
    BY <1>1, <2>1 DEF PlanStages
  <2>3. Last(s) = [Last(t) EXCEPT !.status = outcome]
    BY <2>2 DEF Closed, Last
  <2>4. Last(s).status = outcome /\ Last(s).revision = p.revision
    BY <1>1, <2>3
  <2> HIDE DEF s
  <2>5. /\ q.revision = p.revision /\ Positions(q) = Positions(p)
        /\ q.stages[i] = s
        /\ \A j \in Positions(p) : j # i => q.stages[j] = p.stages[j]
    BY <1>1, <1>3, <2>1, WrittenRecord DEF s
  <2>6. ValidStage(q, i)
    <3>1. /\ n <= MaxAttempts
          /\ \A k \in 1 .. n : t.attempts[k].revision = p.revision
          /\ \A k \in 1 .. (n - 1) : t.attempts[k].status = "failed"
      BY <1>2 DEF ValidStage, t
    <3>2. s.attempts[n] = Last(s)
      BY <2>2 DEF Last
    <3>3. \A k \in 1 .. n : s.attempts[k].revision = p.revision
      BY <2>1, <2>2, <2>4, <3>1, <3>2
    <3>4. \A k \in 1 .. (n - 1) : s.attempts[k].status = "failed"
      <4>1. \A k \in 1 .. (n - 1) : k \in 1 .. n /\ k # n
        BY <2>2
      <4>2. \A k \in 1 .. (n - 1) : s.attempts[k] = t.attempts[k]
        BY <2>1, <2>2, <4>1
      <4> HIDE DEF n
      <4> QED BY <3>1, <4>2
    <3> HIDE DEF n
    <3> QED BY <1>3, <2>1, <2>2, <2>4, <2>5, <3>1, <3>3, <3>4 DEF ValidStage
  <2>7. \A k \in DOMAIN t.attempts : s.attempts[k].run = t.attempts[k].run
    <3>1. s.attempts[n] = Last(s) /\ t.attempts[n] = Last(t)
      BY <2>2 DEF Last
    <3> QED BY <2>1, <2>2, <3>1
  <2>8. InState(q, "running") = {}
    BY <1>2, <1>3, <2>1, <2>5 DEF InState
  <2>9. st = "executing" => InState(q, "failed") = {}
    BY <1>2, <1>3, <2>1, <2>5 DEF InState
  <2>10. st = "failed" => InState(q, "failed") # {}
    BY <1>1, <1>3, <2>1, <2>5 DEF InState
  <2>11. st = "completed" => InState(q, "completed") = Positions(q)
    BY <1>1, <1>3, <2>1, <2>5 DEF InState
  <2>12. q = Rewritten(p, i, s, st)
    BY <1>3 DEF s
  <2> HIDE DEF n
  <2> QED
    BY <1>1, <1>2, <2>1, <2>6, <2>7, <2>8, <2>9, <2>10, <2>11, <2>12, WrittenValid DEF t
<1>4. Failed(p, i) = Rewritten(p, i, Closed(t, "failed"), "failed")
  BY DEF Failed, Rewritten, t
<1>5. Completed(p, i) =
        Rewritten(p, i, Closed(t, "completed"),
                  IF Positions(p) = InState(p, "completed") \cup {i} THEN "completed" ELSE "executing")
  BY <1>1 DEF Completed, Rewritten, t
<1> QED BY <1>3, <1>4, <1>5

\* A change whose own checks pass is never refused by the validation that
\* follows it, so no legal request is answered as corruption, for any number
\* of stages, attempts and revisions.
THEOREM ChecksSuffice == Spec => []ValidationAgrees
<1>1. OrderInv => ValidationAgrees
  <2> SUFFICES ASSUME OrderInv, plan # NoPlan PROVE ValidationAgrees
    BY DEF ValidationAgrees
  <2>1. plan \in Plans /\ ValidPlanRecord(plan)
    BY DEF OrderInv, PlanInv, TypeOK, StoredIsValid
  <2> QED BY <2>1, ApprovalValid, UpdateValid, BeginValid, CloseValid DEF ValidationAgrees
<1> QED BY <1>1, OrderInvariant, PTL

-----------------------------------------------------------------------------
(* The store implements PlanLifecycle.                                     *)

\* What a record says of the promise: the definition agreed on, the accepted
\* stages, and the stage being worked on.
AgreedOf(p) == IF p = NoPlan \/ p.status = "draft" THEN NoDefinition ELSE p.definition
AcceptedOf(p) == IF p = NoPlan THEN {} ELSE InState(p, "completed")
StageOf(p) == IF RunningRun(p) = NoRun THEN 0 ELSE CHOOSE i \in InState(p, "running") : TRUE
UsedOf(p) == IF p = NoPlan THEN {} ELSE RunsOf(p)

\* A record nobody works on has no worker.
LEMMA NobodyWorks ==
  ASSUME NEW p, p = NoPlan \/ InState(p, "running") = {}
  PROVE  RunningRun(p) = NoRun /\ StageOf(p) = 0
BY DEF RunningRun, StageOf

\* A record with one running stage names its run and its position.
LEMMA SomebodyWorks ==
  ASSUME NEW p \in Plans, ValidPlanRecord(p), NEW i \in InState(p, "running")
  PROVE  RunningRun(p) = Last(p.stages[i]).run /\ StageOf(p) = i /\ RunningRun(p) # NoRun
<1>1. \A j \in InState(p, "running") : j = i
  BY DEF ValidPlanRecord
<1>2. (CHOOSE j \in InState(p, "running") : TRUE) = i
  BY <1>1
<1>3. p # NoPlan /\ InState(p, "running") # {}
  BY NoPlanAssumption
<1>4. RunningRun(p) = Last(p.stages[i]).run
  BY <1>2, <1>3 DEF RunningRun
<1>5. RunningRun(p) # NoRun
  BY <1>4, RunningHolder, PlanAssumption
<1> QED BY <1>2, <1>4, <1>5 DEF StageOf

\* Writing a stage keeps the runs of its attempts and adds those of the new
\* ones.
LEMMA RunsWritten ==
  ASSUME NEW p, NEW q, NEW i \in Positions(p), NEW s, NEW st, StageWritten(p, q, i, s, st),
         DOMAIN p.stages[i].attempts \subseteq DOMAIN s.attempts,
         \A k \in DOMAIN p.stages[i].attempts : s.attempts[k].run = p.stages[i].attempts[k].run
  PROVE  RunsOf(q) = RunsOf(p) \cup
           {s.attempts[k].run : k \in DOMAIN s.attempts \ DOMAIN p.stages[i].attempts}
<1> DEFINE fresh == {s.attempts[k].run : k \in DOMAIN s.attempts \ DOMAIN p.stages[i].attempts}
<1>1. ASSUME NEW r \in RunsOf(p) PROVE r \in RunsOf(q)
  <2>1. PICK j \in Positions(p) : \E k \in DOMAIN p.stages[j].attempts :
          p.stages[j].attempts[k].run = r
    BY <1>1, RunsMember
  <2>2. j \in Positions(q) /\ \E k \in DOMAIN q.stages[j].attempts : q.stages[j].attempts[k].run = r
    BY <2>1 DEF StageWritten
  <2> QED BY <2>2, RunsMember
<1>2. ASSUME NEW r \in fresh PROVE r \in RunsOf(q)
  <2>1. i \in Positions(q) /\ \E k \in DOMAIN q.stages[i].attempts : q.stages[i].attempts[k].run = r
    BY <1>2 DEF StageWritten
  <2> QED BY <2>1, RunsMember
<1>3. ASSUME NEW r \in RunsOf(q) PROVE r \in RunsOf(p) \cup fresh
  <2>1. PICK j \in Positions(q) : \E k \in DOMAIN q.stages[j].attempts :
          q.stages[j].attempts[k].run = r
    BY <1>3, RunsMember
  <2>2. CASE j # i
    <3>1. j \in Positions(p) /\ \E k \in DOMAIN p.stages[j].attempts : p.stages[j].attempts[k].run = r
      BY <2>1, <2>2 DEF StageWritten
    <3> QED BY <3>1, RunsMember
  <2>3. CASE j = i
    <3>1. PICK k \in DOMAIN s.attempts : s.attempts[k].run = r
      BY <2>1, <2>3 DEF StageWritten
    <3>2. CASE k \in DOMAIN p.stages[i].attempts
      <4>1. \E m \in DOMAIN p.stages[i].attempts : p.stages[i].attempts[m].run = r
        BY <3>1, <3>2
      <4> QED BY <4>1, RunsMember
    <3>3. CASE k \notin DOMAIN p.stages[i].attempts
      BY <3>1, <3>3
    <3> QED BY <3>2, <3>3
  <2> QED BY <2>2, <2>3
<1> QED BY <1>1, <1>2, <1>3

\* A written stage with the attempts of the old one, up to their outcome, has
\* the same runs.
LEMMA RunsKept ==
  ASSUME NEW p, NEW q, NEW i \in Positions(p), NEW s, NEW st, StageWritten(p, q, i, s, st),
         DOMAIN s.attempts = DOMAIN p.stages[i].attempts,
         \A k \in DOMAIN p.stages[i].attempts : s.attempts[k].run = p.stages[i].attempts[k].run
  PROVE  RunsOf(q) = RunsOf(p)
<1>1. {s.attempts[k].run : k \in DOMAIN s.attempts \ DOMAIN p.stages[i].attempts} = {}
  OBVIOUS
<1>2. DOMAIN p.stages[i].attempts \subseteq DOMAIN s.attempts
  OBVIOUS
<1>3. RunsOf(q) = RunsOf(p) \cup
        {s.attempts[k].run : k \in DOMAIN s.attempts \ DOMAIN p.stages[i].attempts}
  BY <1>2, RunsWritten
<1> QED BY <1>1, <1>3

\* A record that was not executed yet.
LEMMA NotExecuted ==
  ASSUME NEW p \in Plans, ValidPlanRecord(p), p.status \in {"draft", "approved"}
  PROVE  /\ RunningRun(p) = NoRun /\ StageOf(p) = 0
         /\ AcceptedOf(p) = {} /\ UsedOf(p) = {}
<1>1. InState(p, "pending") = Positions(p) /\ InState(p, "running") = {}
      /\ InState(p, "completed") = {}
  BY DEF ValidPlanRecord, InState
<1>2. \A i \in Positions(p) : p.stages[i].attempts = <<>>
  <2>1. \A i \in Positions(p) : ValidStage(p, i) /\ p.stages[i].status = "pending"
    BY <1>1 DEF ValidPlanRecord, InState
  <2>2. \A i \in Positions(p) : p.stages[i].attempts \in Seq(Attempts)
    BY StageTypes
  <2> QED BY <2>1, <2>2 DEF ValidStage
<1>3. RunsOf(p) = {}
  BY <1>2, RunsMember
<1> QED BY <1>1, <1>3, NobodyWorks DEF AcceptedOf, UsedOf

\* The steps of the promise, in terms of the record before and after.
Same(p, q) ==
  /\ AgreedOf(q) = AgreedOf(p) /\ AcceptedOf(q) = AcceptedOf(p)
  /\ RunningRun(q) = RunningRun(p) /\ StageOf(q) = StageOf(p) /\ UsedOf(q) = UsedOf(p)
\* A change of the record that leaves the mapped state alone is a stutter.
LEMMA MapSame ==
  ASSUME Same(plan, plan')
  PROVE  [Lifecycle!Next]_(Lifecycle!lifecycleVars)
BY DEF Same, AgreedOf, AcceptedOf, StageOf, UsedOf, Lifecycle!lifecycleVars

\* A record that comes to have an agreed definition is an agreement.
LEMMA MapAgree ==
  ASSUME AgreedOf(plan) = NoDefinition, AgreedOf(plan') \in Definitions,
         AcceptedOf(plan') = AcceptedOf(plan), RunningRun(plan') = RunningRun(plan),
         StageOf(plan') = StageOf(plan), UsedOf(plan') = UsedOf(plan)
  PROVE  [Lifecycle!Next]_(Lifecycle!lifecycleVars)
BY DEF AgreedOf, AcceptedOf, StageOf, UsedOf, Lifecycle!lifecycleVars, Lifecycle!Next, Lifecycle!Agree

\* A record nobody worked on that loses its definition is a withdrawal.
LEMMA MapWithdraw ==
  ASSUME AgreedOf(plan) # NoDefinition, AgreedOf(plan') = NoDefinition, UsedOf(plan) = {},
         AcceptedOf(plan') = AcceptedOf(plan), RunningRun(plan') = RunningRun(plan),
         StageOf(plan') = StageOf(plan), UsedOf(plan') = UsedOf(plan)
  PROVE  [Lifecycle!Next]_(Lifecycle!lifecycleVars)
BY DEF AgreedOf, AcceptedOf, StageOf, UsedOf, Lifecycle!lifecycleVars, Lifecycle!Next, Lifecycle!Withdraw

\* A record that gains a fresh run on its next stage is a start.
LEMMA MapStart ==
  ASSUME NEW r \in Runs, NEW i \in 1 .. Len(AgreedOf(plan)),
         AgreedOf(plan) # NoDefinition, RunningRun(plan) = NoRun, r \notin UsedOf(plan),
         AcceptedOf(plan) = 1 .. (i - 1),
         AgreedOf(plan') = AgreedOf(plan), AcceptedOf(plan') = AcceptedOf(plan),
         RunningRun(plan') = r, StageOf(plan') = i, UsedOf(plan') = UsedOf(plan) \cup {r}
  PROVE  [Lifecycle!Next]_(Lifecycle!lifecycleVars)
BY DEF AgreedOf, AcceptedOf, StageOf, UsedOf, Lifecycle!lifecycleVars, Lifecycle!Next, Lifecycle!Start

\* A record that loses its run, with its stage accepted or not, is a stop.
LEMMA MapStop ==
  ASSUME RunningRun(plan) # NoRun,
         AcceptedOf(plan') \in {AcceptedOf(plan), AcceptedOf(plan) \cup {StageOf(plan)}},
         AgreedOf(plan') = AgreedOf(plan),
         RunningRun(plan') = NoRun, StageOf(plan') = 0, UsedOf(plan') = UsedOf(plan)
  PROVE  [Lifecycle!Next]_(Lifecycle!lifecycleVars)
BY DEF AgreedOf, AcceptedOf, StageOf, UsedOf, Lifecycle!lifecycleVars, Lifecycle!Next, Lifecycle!Stop

\* An edit of a plan agrees on a definition, withdraws one nobody has worked
\* on, or changes nothing of the promise.
LEMMA EditRefines ==
  ASSUME OrderInv,
         \/ \E d \in Definitions : CreatePlan(d)
         \/ \E o \in Operators, d \in Definitions : UpdatePlan(o, d)
         \/ \E o \in Operators : ApprovePlan(o)
  PROVE  [Lifecycle!Next]_(Lifecycle!lifecycleVars)
<1>0. /\ PlanInv /\ TypeOK /\ StoredIsValid
      /\ plan' \in Plans /\ plan' # NoPlan /\ ValidPlanRecord(plan')
      /\ plan'.status \in {"draft", "approved"}
  BY EditWrites DEF OrderInv, PlanInv
<1>1. /\ RunningRun(plan') = NoRun /\ StageOf(plan') = 0
      /\ AcceptedOf(plan') = {} /\ UsedOf(plan') = {}
  BY <1>0, NotExecuted
<1>2. ASSUME NEW d \in Definitions, CreatePlan(d)
      PROVE  [Lifecycle!Next]_(Lifecycle!lifecycleVars)
  <2>1. plan = NoPlan /\ plan'.status = "draft"
    BY <1>2 DEF CreatePlan
  <2>2. Same(plan, plan')
    BY <1>1, <2>1, NobodyWorks DEF Same, AgreedOf, AcceptedOf, UsedOf
  <2> QED BY <2>2, MapSame
<1>3. ASSUME NEW o \in Operators, NEW d \in Definitions, UpdatePlan(o, d)
      PROVE  [Lifecycle!Next]_(Lifecycle!lifecycleVars)
  <2>1. /\ plan \in Plans /\ plan # NoPlan /\ ValidPlanRecord(plan)
        /\ plan.status \in {"draft", "approved"}
        /\ plan' = [Updated(plan, d) EXCEPT !.stateRevision = plan.stateRevision + 1]
    BY <1>0, <1>3 DEF UpdatePlan, MutatePlan, Current, CanUpdate, TypeOK, StoredIsValid
  <2>2. plan'.status = "draft"
    BY <2>1 DEF Updated, Plans
  <2>3. /\ RunningRun(plan) = NoRun /\ StageOf(plan) = 0
        /\ AcceptedOf(plan) = {} /\ UsedOf(plan) = {}
    BY <2>1, NotExecuted
  <2>4. AgreedOf(plan') = NoDefinition
    BY <2>2 DEF AgreedOf
  <2>5. CASE AgreedOf(plan) = NoDefinition
    BY <1>1, <2>3, <2>4, <2>5, MapSame DEF Same
  <2>6. CASE AgreedOf(plan) # NoDefinition
    BY <1>1, <2>3, <2>4, <2>6, MapWithdraw
  <2> QED BY <2>5, <2>6
<1>4. ASSUME NEW o \in Operators, ApprovePlan(o)
      PROVE  [Lifecycle!Next]_(Lifecycle!lifecycleVars)
  <2>1. /\ plan \in Plans /\ plan # NoPlan /\ ValidPlanRecord(plan)
        /\ plan.status = "draft"
        /\ plan' = [Approved(plan) EXCEPT !.stateRevision = plan.stateRevision + 1]
    BY <1>0, <1>4 DEF ApprovePlan, MutatePlan, Current, CanApprove, TypeOK, StoredIsValid
  <2>2. plan'.status = "approved" /\ plan'.definition \in Definitions
    BY <1>0, <2>1 DEF Approved, Plans
  <2>3. /\ RunningRun(plan) = NoRun /\ StageOf(plan) = 0
        /\ AcceptedOf(plan) = {} /\ UsedOf(plan) = {}
    BY <2>1, NotExecuted
  <2>4. AgreedOf(plan) = NoDefinition /\ AgreedOf(plan') \in Definitions
    BY <1>0, <2>1, <2>2 DEF AgreedOf
  <2> QED BY <1>1, <2>3, <2>4, MapAgree
<1> QED BY <1>2, <1>3, <1>4

\* Beginning a stage starts the first stage that is not accepted, with a run
\* that never worked on the plan before.
LEMMA BeginRefines ==
  ASSUME OrderInv, NEW r \in Runs, BeginPlanStage(r)
  PROVE  [Lifecycle!Next]_(Lifecycle!lifecycleVars)
<1> DEFINE i == run[r].stage
           s == BegunStage(plan, i, r)
<1>0. PlanInv /\ TypeOK /\ StagesOrdered /\ PlanInv'
  BY BeginStep DEF OrderInv, PlanInv
<1>1. /\ plan \in Plans /\ i \in Positions(plan)
      /\ StageWritten(plan, plan', i, s, "executing")
      /\ InState(plan, "running") = {}
      /\ Last(plan'.stages[i]) = [run |-> r, revision |-> plan.revision, status |-> "running"]
  BY <1>0, BeginWrites
<1>2. /\ plan # NoPlan /\ Executable(plan)
      /\ i \in InState(plan, "pending") \cup InState(plan, "failed")
      /\ 1 .. (i - 1) \subseteq InState(plan, "completed")
      /\ r \notin RunsOf(plan)
  BY DEF BeginPlanStage, CanBegin, MutatePlan, Current
<1>3. /\ plan' \in Plans /\ plan' # NoPlan /\ ValidPlanRecord(plan) /\ ValidPlanRecord(plan')
  BY <1>0, <1>1, <1>2, NoPlanAssumption DEF StageWritten, PlanInv, StoredIsValid
<1> HIDE DEF i
<1> DEFINE n == Len(plan.stages[i].attempts)
<1>4. /\ s.status = "running"
      /\ n \in Nat /\ DOMAIN plan.stages[i].attempts = 1 .. n
      /\ DOMAIN s.attempts = 1 .. (n + 1)
      /\ \A k \in 1 .. n : s.attempts[k] = plan.stages[i].attempts[k]
      /\ s.attempts[n + 1] = [run |-> r, revision |-> plan.revision, status |-> "running"]
  BY <1>1, BegunAttempts
<1> HIDE DEF s
<1>5. RunsOf(plan') = RunsOf(plan) \cup {r}
  <2>1. DOMAIN plan.stages[i].attempts \subseteq DOMAIN s.attempts
    BY <1>4
  <2>2. \A k \in DOMAIN plan.stages[i].attempts : s.attempts[k].run = plan.stages[i].attempts[k].run
    BY <1>4
  <2>3. DOMAIN s.attempts \ DOMAIN plan.stages[i].attempts = {n + 1} /\ s.attempts[n + 1].run = r
    BY <1>4
  <2>4. {s.attempts[k].run : k \in DOMAIN s.attempts \ DOMAIN plan.stages[i].attempts} = {r}
    BY <2>3
  <2> HIDE DEF n
  <2> QED BY <1>1, <2>1, <2>2, <2>4, RunsWritten
<1>6. i \in InState(plan', "running")
  BY <1>1, <1>4 DEF StageWritten, InState
<1>7. RunningRun(plan') = r /\ StageOf(plan') = i
  <2>1. Last(plan'.stages[i]).run = r
    BY <1>1
  <2> QED BY <1>3, <1>6, <2>1, SomebodyWorks
<1>8. InState(plan', "completed") = InState(plan, "completed")
  <2>1. plan'.stages[i].status = "running" /\ plan.stages[i].status # "completed"
    BY <1>1, <1>2, <1>4 DEF StageWritten, InState
  <2> QED BY <1>1, <2>1 DEF StageWritten, InState
<1>9. InState(plan, "completed") = 1 .. (i - 1)
  <2> SUFFICES ASSUME NEW j \in InState(plan, "completed") PROVE j \in 1 .. (i - 1)
    BY <1>2
  <2>1. j \in Positions(plan) /\ plan.stages[j].status = "completed" /\ plan.stages[i].status # "completed"
    BY <1>2 DEF InState
  <2>2. Positions(plan) = 1 .. Len(plan.stages) /\ Len(plan.stages) \in Nat
    BY <1>1, StageNumbers
  <2>3. ~(i < j)
    BY <1>0, <1>1, <1>2, <2>1 DEF StagesOrdered
  <2> QED BY <1>1, <2>1, <2>2, <2>3
<1>10. /\ AgreedOf(plan) = plan.definition /\ AgreedOf(plan') = plan.definition
       /\ AgreedOf(plan) # NoDefinition /\ i \in 1 .. Len(AgreedOf(plan))
  <2>1. plan.status # "draft" /\ plan'.status # "draft" /\ plan'.definition = plan.definition
    BY <1>1, <1>2 DEF Executable, StageWritten
  <2>2. plan.definition \in Definitions
    BY <1>1 DEF Plans
  <2>3. i \in 1 .. Len(plan.definition)
    BY <1>1, <1>3, StageNumbers DEF ValidPlanRecord
  <2> QED BY <1>2, <1>3, <2>1, <2>2, <2>3, PlanAssumption DEF AgreedOf
<1>11. /\ AcceptedOf(plan) = 1 .. (i - 1) /\ AcceptedOf(plan') = AcceptedOf(plan)
       /\ UsedOf(plan') = UsedOf(plan) \cup {r} /\ r \notin UsedOf(plan)
       /\ RunningRun(plan) = NoRun
  BY <1>1, <1>2, <1>3, <1>5, <1>8, <1>9, NobodyWorks DEF AcceptedOf, UsedOf
<1> QED BY <1>7, <1>10, <1>11, MapStart

\* Closing a stage stops its run; only a completed stage is accepted.
LEMMA CloseRefines ==
  ASSUME OrderInv, PlanInv', NEW i, NEW r, NEW at, NEW outcome,
         Holds(plan, i, r), Closes(at, i, outcome)
  PROVE  [Lifecycle!Next]_(Lifecycle!lifecycleVars)
<1> DEFINE t == plan.stages[i]
<1>0. PlanInv /\ TypeOK
  BY DEF OrderInv, PlanInv
<1>1. /\ plan \in Plans /\ i \in Positions(plan)
      /\ plan'.stages[i].status = outcome
      /\ outcome \in {"completed", "failed"}
  BY <1>0, CloseWrites
<1>2. PICK st \in {"executing", "completed", "failed"} :
        StageWritten(plan, plan', i, Closed(t, outcome), st)
  BY <1>0, CloseWrites
<1>3. /\ plan # NoPlan /\ plan' \in Plans /\ plan' # NoPlan /\ ValidPlanRecord(plan)
      /\ plan.status = "executing" /\ i \in InState(plan, "running") /\ t.attempts # <<>>
      /\ t \in PlanStages
  BY <1>0, <1>1, <1>2, NoPlanAssumption, StageTypes DEF StageWritten, PlanInv, StoredIsValid, Holds
<1>4. /\ DOMAIN Closed(t, outcome).attempts = DOMAIN t.attempts
      /\ \A k \in DOMAIN t.attempts : Closed(t, outcome).attempts[k].run = t.attempts[k].run
  <2>1. /\ DOMAIN Closed(t, outcome).attempts = DOMAIN t.attempts
        /\ \A k \in DOMAIN t.attempts : k # Len(t.attempts) =>
             Closed(t, outcome).attempts[k] = t.attempts[k]
        /\ Last(Closed(t, outcome)).run = Last(t).run
    BY <1>1, <1>3, ClosedAttempts
  <2>2. Closed(t, outcome).attempts \in Seq(Attempts) /\ t.attempts \in Seq(Attempts)
    BY <1>1, <1>3, ClosedStage DEF PlanStages
  <2>3. Len(Closed(t, outcome).attempts) = Len(t.attempts)
    BY <2>1, <2>2
  <2>4. Closed(t, outcome).attempts[Len(t.attempts)].run = t.attempts[Len(t.attempts)].run
    BY <2>1, <2>3 DEF Last
  <2> QED BY <2>1, <2>4
<1>5. RunsOf(plan') = RunsOf(plan)
  BY <1>1, <1>2, <1>4, RunsKept
<1>6. /\ InState(plan', "running") = {}
      /\ InState(plan', "completed") = InState(plan, "completed")
                                         \cup (IF outcome = "completed" THEN {i} ELSE {})
  <2>1. \A j \in Positions(plan) : j # i => plan'.stages[j] = plan.stages[j]
    BY <1>2 DEF StageWritten
  <2>2. \A j \in InState(plan, "running") : j = i
    BY <1>3 DEF ValidPlanRecord
  <2>3. Positions(plan') = Positions(plan) /\ t.status = "running"
    BY <1>2, <1>3 DEF StageWritten, InState
  <2> QED BY <1>1, <2>1, <2>2, <2>3 DEF InState
<1>7. RunningRun(plan) # NoRun /\ StageOf(plan) = i
  BY <1>1, <1>3, SomebodyWorks
<1>8. RunningRun(plan') = NoRun /\ StageOf(plan') = 0
  BY <1>6, NobodyWorks
<1>9. AgreedOf(plan') = AgreedOf(plan)
  BY <1>2, <1>3 DEF StageWritten, AgreedOf
<1>10. /\ AcceptedOf(plan') \in {AcceptedOf(plan), AcceptedOf(plan) \cup {i}}
       /\ UsedOf(plan') = UsedOf(plan)
  BY <1>1, <1>3, <1>5, <1>6 DEF AcceptedOf, UsedOf
<1> QED BY <1>7, <1>8, <1>9, <1>10, MapStop

\* Every step of operators, runs and the process is a step of the promise or
\* changes nothing of it.
LEMMA LifecycleStep == OrderInv /\ [Next]_vars => [Lifecycle!Next]_(Lifecycle!lifecycleVars)
<1> SUFFICES ASSUME OrderInv, [Next]_vars PROVE [Lifecycle!Next]_(Lifecycle!lifecycleVars)
  OBVIOUS
<1>0. PlanInv /\ PlanInv'
  BY PlanStep DEF OrderInv
<1>1. ASSUME NEW i, NEW r, NEW at, NEW outcome, Holds(plan, i, r), Closes(at, i, outcome)
      PROVE  [Lifecycle!Next]_(Lifecycle!lifecycleVars)
  BY <1>0, <1>1, CloseRefines
<1>2. CASE plan' = plan
  BY <1>2, MapSame DEF Same
<1> QED BY <1>0, <1>1, <1>2, EditRefines, BeginRefines, PlanChanges

\* The store, its clients and its runs implement the promise of PlanLifecycle:
\* approval before work, stages accepted in order, one worker at a time and
\* every run at most once, through stale snapshots, failed writes, crashes and
\* reconciliations, for any number of each.
THEOREM PlanImplementsLifecycle == Spec => ImplementsLifecycle
<1>1. Init => Lifecycle!Init
  BY DEF Init, Lifecycle!Init, RunningRun
<1>2. Spec => Lifecycle!Spec
  BY <1>1, LifecycleStep, OrderInvariant, PTL DEF Spec, Lifecycle!Spec
<1> QED BY <1>2 DEF ImplementsLifecycle

=============================================================================
