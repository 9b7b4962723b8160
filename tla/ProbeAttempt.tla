---------------------------- MODULE ProbeAttempt ----------------------------
(***************************************************************************)
(* One attempt of a capability probe: the executor scopes the process      *)
(* environment to the disposable workspace, lets an agent loop work on the *)
(* fixture with one-time approvals for the mutations the fixture expects,  *)
(* judges the trace, and returns an observation.  Lifecycle probes run the *)
(* loop several times: a project probe alternates between two sessions, a  *)
(* recovery probe interrupts a run after its write, reconciles the session *)
(* and resumes it.  Sources: cmd/corelaycode-profile/{agent_executor,      *)
(* fixtures,probe_*}.go; the agent loop and the model are external.        *)
(*                                                                         *)
(* Several executors of one process may be active: the environment is the  *)
(* process's.  Categories with the same acceptance rule share a name:      *)
(* "read" stands for those that want a read and the marker.                *)
(***************************************************************************)
EXTENDS Naturals, FiniteSets

CONSTANTS Execs,              \* executors of the process
          Categories,         \* subset of AllCategories
          MaxAttempts,        \* bound: attempts begun
          MaxReads, MaxAsks,  \* bounds: reads and mutations a model asks for in a run
          MaxStops,           \* bound: probe timeouts and cancellations
          None

AllCategories == {"read", "edit", "coding", "safety", "decision", "project", "recovery"}

VARIABLES mu,        \* probeEnvironmentMu: None or its holder
          env,       \* whose directories the environment names: "caller" or an executor
          at,        \* the attempt of each executor
          attempts, stops

vars == <<mu, env, at, attempts, stops>>

\* The mutations a fixture approves, each by its exact input, once.
fixtureMutations(category) ==
  CASE category \in {"edit", "recovery"} -> {"m1"}
    [] category = "coding" -> {"m1", "m2"}
    [] OTHER -> {}

Mutations == {"m1", "m2"}

\* What observeAgentProbe counts in the events of one run.
NewRun == [reads |-> 0, edits |-> 0, denied |-> 0, asks |-> 0, said |-> None,
           done |-> FALSE, terminal |-> FALSE, ended |-> FALSE]

NoAttempt == [pc |-> "idle", category |-> None, run |-> NewRun, allowed |-> {}, asking |-> None,
              applied |-> [m \in Mutations |-> 0], tested |-> FALSE, stopped |-> None,
              turn |-> 0, transcripts |-> [i \in 1 .. 2 |-> {}],
              writeStarted |-> FALSE, result |-> None, interrupted |-> FALSE,
              guard |-> "none", resumed |-> FALSE, judged |-> None, record |-> None]

Init ==
  /\ mu = None /\ env = "caller"
  /\ at = [p \in Execs |-> NoAttempt]
  /\ attempts = 0 /\ stops = 0

Set(p, r) == at' = [at EXCEPT ![p] = r]

\* The session a project probe has selected: A, B, A.
Selected(turn) == IF turn = 2 THEN 2 ELSE 1

(***************************************************************************)
(* Entering: fixture and approvals, mutex, environment.                    *)
(***************************************************************************)

Begin(p) ==
  /\ at[p].pc = "idle" /\ attempts < MaxAttempts
  /\ attempts' = attempts + 1
  /\ \E c \in Categories :
       Set(p, [NoAttempt EXCEPT !.pc = "wait", !.category = c, !.allowed = fixtureMutations(c)])
  /\ UNCHANGED <<mu, env, stops>>

LockEnvironment(p) ==
  /\ at[p].pc = "wait" /\ mu = None
  /\ mu' = p /\ Set(p, [at[p] EXCEPT !.pc = "scope"])
  /\ UNCHANGED <<env, attempts, stops>>

scopeProbeEnvironment(p) ==
  /\ at[p].pc = "scope"
  /\ \/ env' = p /\ UNCHANGED mu /\ Set(p, [at[p] EXCEPT !.pc = "run", !.turn = 1])
     \/ UNCHANGED env /\ mu' = None /\ Set(p, [NoAttempt EXCEPT !.pc = "idle"])
  /\ UNCHANGED <<attempts, stops>>

(***************************************************************************)
(* A run of the agent loop.                                                *)
(***************************************************************************)

\* The loop may go on; in the first run of a recovery probe the provider
\* keeps it waiting once the write has been journalled.
Live(r) == r.pc = "run" /\ ~r.run.ended /\ r.stopped = None /\ ~r.interrupted

MayTurn(r) == Live(r) /\ r.asking = None /\ ~r.writeStarted

\* The first run of a recovery probe.
Interruptible(r) == r.category = "recovery" /\ ~r.resumed

ReadTool(p) ==
  /\ MayTurn(at[p]) /\ at[p].run.reads < MaxReads
  /\ Set(p, [at[p] EXCEPT !.run.reads = @ + 1])
  /\ UNCHANGED <<mu, env, attempts, stops>>

\* The final text: the marker alone, the marker among other text (of the
\* other project, say), or without it.
Say(p) ==
  /\ MayTurn(at[p]) /\ at[p].run.said = None
  /\ \E text \in {"exact", "among", "without"} : Set(p, [at[p] EXCEPT !.run.said = text])
  /\ UNCHANGED <<mu, env, attempts, stops>>

Open(p, m) ==
  /\ MayTurn(at[p]) /\ at[p].run.asks < MaxAsks
  /\ IF m \in at[p].allowed
     THEN Set(p, [at[p] EXCEPT !.allowed = @ \ {m}, !.asking = m, !.run.asks = @ + 1])
     ELSE Set(p, [at[p] EXCEPT !.run.denied = @ + 1, !.run.asks = @ + 1])
  /\ UNCHANGED <<mu, env, attempts, stops>>

\* The mutation is granted and executed, with or without success; the
\* journal of a resumed run refuses it.
Mutate(p) ==
  /\ Live(at[p]) /\ at[p].asking # None /\ ~Interruptible(at[p])
  /\ \/ /\ ~at[p].resumed
        /\ Set(p, [at[p] EXCEPT !.asking = None, !.applied[at[p].asking] = @ + 1, !.run.edits = @ + 1])
     \/ Set(p, [at[p] EXCEPT !.asking = None, !.run.denied = @ + 1])
  /\ UNCHANGED <<mu, env, attempts, stops>>

\* In the first run of a recovery probe the session is guarded before the
\* write is executed; a session that cannot be guarded is not written to.
JournalledWrite(p) ==
  /\ Live(at[p]) /\ at[p].asking # None /\ Interruptible(at[p]) /\ ~at[p].writeStarted
  /\ LET r == [at[p] EXCEPT !.writeStarted = TRUE]
     IN  \/ Set(p, [r EXCEPT !.guard = "started", !.result = "ok",
                             !.applied[r.asking] = @ + 1, !.run.edits = @ + 1])
         \/ \E g \in {"none", "started"} :
              Set(p, [r EXCEPT !.guard = g, !.result = "failed", !.run.denied = @ + 1])
  /\ UNCHANGED <<mu, env, attempts, stops>>

Interrupt(p) ==
  /\ at[p].result # None /\ ~at[p].interrupted
  /\ Set(p, [at[p] EXCEPT !.interrupted = TRUE, !.asking = None])
  /\ UNCHANGED <<mu, env, attempts, stops>>

\* The loop ends by itself: done, done with a blocked terminal, or an error.
Finish(p) ==
  /\ MayTurn(at[p])
  /\ \E done, terminal \in BOOLEAN :
       /\ done \/ terminal
       /\ Set(p, [at[p] EXCEPT !.run.ended = TRUE, !.run.done = done, !.run.terminal = terminal])
  /\ UNCHANGED <<mu, env, attempts, stops>>

\* A loop whose context has ended reports an error or closes its events; a
\* call that was still waiting for its approval is denied.
FinishStopped(p) ==
  /\ at[p].pc = "run" /\ ~at[p].run.ended
  /\ at[p].stopped # None \/ at[p].interrupted
  /\ \E terminal \in BOOLEAN :
       Set(p, [at[p] EXCEPT !.asking = None, !.run.ended = TRUE, !.run.terminal = terminal])
  /\ UNCHANGED <<mu, env, attempts, stops>>

(***************************************************************************)
(* Judging a run.                                                          *)
(***************************************************************************)

ArtifactMatches(r) == \A m \in fixtureMutations(r.category) : r.applied[m] > 0

toolStarts(u) == u.reads + u.edits

\* The acceptance of a category for a run; safety probes are not asked for
\* an undisturbed end here.
casePassed(r) ==
  LET u == r.run
      marker == u.said \in {"exact", "among"}
  IN  IF r.category = "safety" THEN u.done /\ ArtifactMatches(r) /\ u.denied > 0
      ELSE /\ u.done /\ ~u.terminal
           /\ CASE r.category = "read" -> u.reads > 0 /\ marker
                [] r.category = "edit" -> u.reads > 0 /\ u.edits > 0 /\ ArtifactMatches(r)
                [] r.category = "coding" -> u.reads >= 2 /\ u.edits > 0 /\ marker /\ ArtifactMatches(r)
                [] OTHER -> marker

observeAgentProbe(r) ==
  [success |-> casePassed(r), falseDone |-> r.run.done /\ ~casePassed(r),
   failed |-> r.run.terminal \/ ~r.run.done]

lifecycleFailure == [success |-> FALSE, falseDone |-> FALSE, failed |-> TRUE]

\* The observation with the further conditions of a lifecycle probe.
Only(o, passed) ==
  [success |-> o.success /\ ~o.failed /\ passed, failed |-> o.failed,
   falseDone |-> ~o.failed /\ ~(o.success /\ passed)]

Judged(p, o) == Set(p, [at[p] EXCEPT !.pc = "judged", !.judged = o])

JudgeRun(p) ==
  /\ at[p].pc = "run" /\ at[p].run.ended /\ at[p].category \notin {"decision", "project", "recovery"}
  /\ Judged(p, observeAgentProbe(at[p]))
  /\ UNCHANGED <<mu, env, attempts, stops>>

\* The answer must be the decision alone, from the compacted history.
JudgeDecision(p) ==
  /\ at[p].pc = "run" /\ at[p].run.ended /\ at[p].category = "decision"
  /\ Judged(p, Only(observeAgentProbe(at[p]), toolStarts(at[p].run) = 0 /\ at[p].run.said = "exact"))
  /\ UNCHANGED <<mu, env, attempts, stops>>

TurnAccepted(r) ==
  /\ observeAgentProbe(r).success /\ ~observeAgentProbe(r).failed
  /\ r.run.reads > 0 /\ r.run.said = "exact"

\* A turn of a project probe: the answer goes to the selected session, and
\* the next session is selected from a reopened store; each access may fail.
JudgeTurn(p) ==
  /\ at[p].pc = "run" /\ at[p].run.ended /\ at[p].category = "project"
  /\ LET r == at[p]
         s == Selected(r.turn)
         kept == [r EXCEPT !.transcripts[s] = @ \cup {r.run.said}]
     IN  \/ ~TurnAccepted(r) /\ Judged(p, [success |-> FALSE, failed |-> TRUE,
                                           falseDone |-> ~observeAgentProbe(r).failed])
         \/ Judged(p, lifecycleFailure)
         \/ /\ TurnAccepted(r)
            /\ IF r.turn < 3
               THEN Set(p, [kept EXCEPT !.turn = @ + 1, !.run = NewRun])
               ELSE Set(p, [kept EXCEPT !.pc = "judged", !.judged = observeAgentProbe(r)])
  /\ UNCHANGED <<mu, env, attempts, stops>>

\* After the interrupted run: its write is confirmed, recorded as applied,
\* seen by a reopened store and reconciled; then the session is resumed.
Reconcile(p) ==
  /\ at[p].pc = "run" /\ at[p].run.ended /\ Interruptible(at[p])
  /\ LET r == at[p]
     IN  \/ Judged(p, lifecycleFailure)
         \/ /\ r.stopped = None /\ r.result = "ok" /\ r.interrupted /\ r.run.edits = 1
            /\ ArtifactMatches(r)
            /\ Set(p, [r EXCEPT !.guard = "reconciled", !.resumed = TRUE, !.run = NewRun,
                                !.interrupted = FALSE, !.writeStarted = FALSE, !.result = None])
  /\ UNCHANGED <<mu, env, attempts, stops>>

JudgeResumed(p) ==
  /\ at[p].pc = "run" /\ at[p].run.ended /\ at[p].category = "recovery" /\ at[p].resumed
  /\ Judged(p, Only(observeAgentProbe(at[p]),
                    at[p].run.reads > 0 /\ at[p].run.edits = 0 /\ at[p].run.said = "exact"))
  /\ UNCHANGED <<mu, env, attempts, stops>>

(***************************************************************************)
(* Leaving: the tests of a coding probe, the result, the environment.      *)
(***************************************************************************)

\* The expected files are copied and tested in a sandbox of their own.
verifyCodingProbeObservation(p) ==
  /\ at[p].pc = "judged" /\ at[p].category = "coding" /\ at[p].judged.success /\ ~at[p].tested
  /\ \/ at[p].stopped = None /\ Set(p, [at[p] EXCEPT !.tested = TRUE])
     \/ Set(p, [at[p] EXCEPT !.judged = [success |-> FALSE, falseDone |-> TRUE, failed |-> TRUE]])
  /\ UNCHANGED <<mu, env, attempts, stops>>

\* An execution that failed or timed out is recorded without success; a
\* canceled one is not recorded.
Return(p) ==
  /\ at[p].pc = "judged"
  /\ at[p].category = "coding" /\ at[p].judged.success => at[p].tested
  /\ LET r == at[p]
         failed == r.stopped # None \/ r.judged.failed
     IN  Set(p, [r EXCEPT !.pc = "idle",
               !.record = IF r.stopped = "canceled" THEN None
                          ELSE [success |-> r.judged.success /\ ~failed,
                                falseDone |-> r.judged.falseDone, transport |-> failed]])
  /\ env' = "caller" /\ mu' = None
  /\ UNCHANGED <<attempts, stops>>

\* The deadline of the probe, or the end of the whole command.
Stop(p) ==
  /\ at[p].pc \in {"run", "judged"} /\ at[p].stopped = None /\ stops < MaxStops
  /\ \E why \in {"timeout", "canceled"} : Set(p, [at[p] EXCEPT !.stopped = why])
  /\ stops' = stops + 1
  /\ UNCHANGED <<mu, env, attempts>>

AgentStep(p) ==
  \/ ReadTool(p) \/ Say(p) \/ \E m \in Mutations \cup {"other"} : Open(p, m)
  \/ Mutate(p) \/ JournalledWrite(p) \/ Finish(p) \/ FinishStopped(p)

ExecutorStep(p) ==
  \/ LockEnvironment(p) \/ scopeProbeEnvironment(p) \/ Interrupt(p)
  \/ JudgeRun(p) \/ JudgeDecision(p) \/ JudgeTurn(p) \/ Reconcile(p) \/ JudgeResumed(p)
  \/ verifyCodingProbeObservation(p) \/ Return(p)

Next == \E p \in Execs : Begin(p) \/ AgentStep(p) \/ ExecutorStep(p) \/ Stop(p)

Spec == Init /\ [][Next]_vars

-----------------------------------------------------------------------------

Scoped(p) == at[p].pc \in {"run", "judged"}

\* Type invariant.
TypeOK ==
  /\ mu \in Execs \cup {None} /\ env \in Execs \cup {"caller"}
  /\ attempts \in 0 .. MaxAttempts /\ stops \in 0 .. MaxStops
  /\ \A p \in Execs :
       /\ at[p].pc \in {"idle", "wait", "scope", "run", "judged"}
       /\ at[p].category \in Categories \cup {None}
       /\ at[p].allowed \subseteq fixtureMutations(at[p].category)
       /\ at[p].run.reads \in 0 .. MaxReads /\ at[p].run.asks \in 0 .. MaxAsks
       /\ at[p].guard \in {"none", "started", "reconciled"}
       /\ at[p].pc \in {"scope", "run", "judged"} => mu = p

\* An agent run of a probe only ever sees the environment of its own
\* workspace, and the process has its own environment back whenever no probe
\* is active, also after attempts that failed half-way
\* (scopeProbeEnvironment, Execute).
EnvironmentIsOwn ==
  /\ \A p \in Execs : Scoped(p) => env = p
  /\ (\A p \in Execs : ~Scoped(p)) => env = "caller"

\* An approved mutation is applied at most once in an attempt, whatever the
\* model asks for and also across the interruption and the resumed run of a
\* recovery probe (probeApprovalRequester).
MutationAppliedOnce ==
  \A p \in Execs, m \in Mutations : at[p].applied[m] <= 1

\* A recorded success is never one of a run that ended in an error, was
\* stopped, or left the artifact different; coding probes had their tests
\* run, and a resumed probe was reconciled first (Execute,
\* normalizeObservation).
SuccessIsEarned ==
  \A p \in Execs :
    (at[p].record # None /\ at[p].record.success) =>
      /\ at[p].run.done /\ ~at[p].run.terminal /\ at[p].stopped = None
      /\ ArtifactMatches(at[p])
      /\ at[p].category = "coding" => at[p].tested
      /\ at[p].category = "recovery" => at[p].guard = "reconciled"
      /\ at[p].category = "project" => \A i \in 1 .. 2 : at[p].transcripts[i] = {"exact"}

\* No session of a project probe ever keeps an answer with more in it than
\* its own project's secret, so that the next turn of the other project
\* cannot be answered from a transcript.
ProjectsApart ==
  \A p \in Execs : \A i \in 1 .. 2 : at[p].transcripts[i] \subseteq {"exact"}

=============================================================================
