------------------------------ MODULE ServerRuns ------------------------------
(***************************************************************************)
(* Sub-agents: a session per POST /api/subagent/spawn with a manager of    *)
(* tasks (agent/subagent.go, agent/subagent_mode.go), and the bounded      *)
(* table of sessions of the server (server/server.go storeSubAgentManager).*)
(*                                                                         *)
(* Each task runs the common loop in a goroutine; what its reducer makes   *)
(* of the events decides completed or failed.  Writes of a task are        *)
(* checked against the paths it owns.  A path is a sequence of names, a    *)
(* name a sequence of letters.                                             *)
(***************************************************************************)
EXTENDS Integers, Sequences, SequencesExt, FiniteSets

CONSTANTS Sessions,     \* the sessions that may be requested
          MaxSessions,  \* maxSubAgentSessions
          Tasks,        \* the tasks of a session, in the order of the request: 1 .. n
          Scope,        \* Scope[t]: the pattern task t owns
          Paths,        \* the paths the tasks may write
          MaxWrites     \* bound: writes of a task

VARIABLES table,     \* subAgentOrder with its managers: the sessions kept
          request,   \* "new", "refused", "stored", "answered"
          spawned,   \* number of tasks of the session that were spawned
          status,    \* per session and task: "none", "pending", "running", "completed", "failed"
          reducer,   \* failure, done and canceled as the reducer sees them
          written    \* written[s][t]: the paths the task wrote

agentVars == <<table, request, spawned, status, reducer, written>>

Idle == [failure |-> FALSE, done |-> "none", canceled |-> FALSE]

AgentInit == /\ table = <<>>
        /\ request = [s \in Sessions |-> "new"]
        /\ spawned = [s \in Sessions |-> 0]
        /\ status = [s \in Sessions |-> [t \in Tasks |-> "none"]]
        /\ reducer = [s \in Sessions |-> [t \in Tasks |-> Idle]]
        /\ written = [s \in Sessions |-> [t \in Tasks |-> {}]]

AllDone_Pending(s) == \A t \in Tasks : status[s][t] # "running"
AllDone(s) == \A t \in Tasks : status[s][t] \notin {"pending", "running"}

Full == Len(table) >= MaxSessions
Evictable == {i \in DOMAIN table : AllDone(table[i])}
storeSubAgentManager(s) ==
  /\ request[s] = "new"
  /\ LET oldest == CHOOSE i \in Evictable : \A j \in Evictable : i <= j
         kept == IF Full THEN RemoveAt(table, oldest) ELSE table
     IN  IF Full /\ Evictable = {}
         THEN request' = [request EXCEPT ![s] = "refused"] /\ UNCHANGED table
         ELSE /\ table' = Append(kept, s)
              /\ request' = [request EXCEPT ![s] = "stored"]
  /\ UNCHANGED <<spawned, status, reducer, written>>

(* The tasks are spawned one by one after the manager is in the table; the  *)
(* answer names the session.                                                *)
Spawn(s) == /\ request[s] = "stored"
            /\ spawned[s] < Cardinality(Tasks)
            /\ spawned' = [spawned EXCEPT ![s] = @ + 1]
            /\ status' = [status EXCEPT ![s][spawned[s] + 1] = "pending"]
            /\ UNCHANGED <<table, request, reducer, written>>

Answer(s) == /\ request[s] = "stored"
             /\ spawned[s] = Cardinality(Tasks)
             /\ request' = [request EXCEPT ![s] = "answered"]
             /\ UNCHANGED <<table, spawned, status, reducer, written>>

run(s, t) == /\ status[s][t] = "pending"
             /\ status' = [status EXCEPT ![s][t] = "running"]
             /\ UNCHANGED <<table, request, spawned, reducer, written>>

matchesOwnedPath(p, pat) ==
  CASE pat.kind = "tree" -> IsPrefix(pat.base, p)
    [] pat.kind = "star" -> Len(p) = Len(pat.base) + 1 /\ IsPrefix(pat.base, p) /\ IsPrefix(pat.prefix, Last(p))
    [] OTHER -> p = pat.base

Write(s, t, p) == /\ status[s][t] = "running"
                  /\ reducer[s][t].done = "none"
                  /\ matchesOwnedPath(p, Scope[t])
                  /\ Cardinality(written[s][t]) < MaxWrites
                  /\ written' = [written EXCEPT ![s][t] = @ \cup {p}]
                  /\ UNCHANGED <<table, request, spawned, status, reducer>>

(***************************************************************************)
(* Events of the loop and the reducer.                                     *)
(***************************************************************************)
Observing(s, t) == status[s][t] = "running" /\ reducer[s][t].done = "none"

(* error, blocked, incomplete, context_blocked: the first one is kept.      *)
ObserveFailure(s, t) ==
  /\ Observing(s, t)
  /\ ~reducer[s][t].failure
  /\ reducer' = [reducer EXCEPT ![s][t].failure = TRUE]
  /\ UNCHANGED <<table, request, spawned, status, written>>

(* The done event ends the stream; one that blocks success is a failure.    *)
(* A context that ended lets the loop finish only as blocked.               *)
ObserveDone(s, t, outcome) ==
  /\ Observing(s, t)
  /\ reducer[s][t].canceled \/ reducer[s][t].failure => outcome = "blocked"
  /\ reducer' = [reducer EXCEPT ![s][t].done = outcome, ![s][t].failure = @ \/ outcome = "blocked"]
  /\ UNCHANGED <<table, request, spawned, status, written>>

(* The five minutes of the task pass; also after the done event.            *)
Deadline(s, t) == /\ status[s][t] = "running"
                  /\ ~reducer[s][t].canceled
                  /\ reducer' = [reducer EXCEPT ![s][t].canceled = TRUE]
                  /\ UNCHANGED <<table, request, spawned, status, written>>

Result(r) == IF r.failure THEN "failed" ELSE IF r.done = "completed" THEN "completed" ELSE "failed"

Finish(s, t) == /\ status[s][t] = "running"
                /\ reducer[s][t].done # "none"
                /\ status' = [status EXCEPT ![s][t] = Result(reducer[s][t])]
                /\ UNCHANGED <<table, request, spawned, reducer, written>>

TaskStep(s, t) == \/ run(s, t) \/ Finish(s, t) \/ ObserveFailure(s, t)
                  \/ \E o \in {"completed", "blocked"} : ObserveDone(s, t, o)

AgentNext == \E s \in Sessions :
          \/ storeSubAgentManager(s) \/ Spawn(s) \/ Answer(s)
          \/ \E t \in Tasks : \/ TaskStep(s, t) \/ Deadline(s, t)
                              \/ \E p \in Paths : Write(s, t, p)

AgentSpec == AgentInit /\ [][AgentNext]_agentVars

(***************************************************************************)
(* Properties                                                              *)
(***************************************************************************)
(* Every part of the state has its type; the table holds distinct stored    *)
(* sessions and never more than its limit.                                  *)
AgentTypeOK == /\ Len(table) <= MaxSessions /\ IsInjective(table)
          /\ \A i \in DOMAIN table : request[table[i]] \in {"stored", "answered"}
          /\ status \in [Sessions -> [Tasks -> {"none", "pending", "running", "completed", "failed"}]]
          /\ \A s \in Sessions : spawned[s] \in 0 .. Cardinality(Tasks)

(* A finished task reports what its run was: completed exactly when the     *)
(* terminal frame was a success and no failure came before it; a deadline   *)
(* after that frame does not undo it (subAgentEventReducer.Result).         *)
ReportsItsRun ==
  \A s \in Sessions, t \in Tasks :
    /\ status[s][t] = "completed" => reducer[s][t].done = "completed" /\ ~reducer[s][t].failure
    /\ status[s][t] = "failed" => reducer[s][t].done # "completed" \/ reducer[s][t].failure

(* Tasks of a session that own disjoint subtrees never write the same path: *)
(* a tree ends at a name, not inside one (matchesOwnedPath).                *)
Disjoint(t, u) == Scope[t].kind = "tree" /\ Scope[u].kind = "tree"
                  /\ ~IsPrefix(Scope[t].base, Scope[u].base) /\ ~IsPrefix(Scope[u].base, Scope[t].base)
NoSharedWrites ==
  \A s \in Sessions, t, u \in Tasks : (t # u /\ Disjoint(t, u)) => written[s][t] \cap written[s][u] = {}

(* A session that has tasks at work when its request is answered stays in   *)
(* the table while they are: its progress can be asked for.  (Only sessions *)
(* whose request was already answered when another one came.)               *)
AnsweredStays ==
  \A s \in Sessions : (request[s] = "answered" /\ Contains(table, s) /\ ~Contains(table', s))
     => \A t \in Tasks : status[s][t] \in {"completed", "failed"}

------------------------------------------------------------------------------

(***************************************************************************)
(* A Chronos run: the FIND/FIX/VERIFY mode (agent/chronos_mode.go) driven  *)
(* by the common run loop, its event channel, and POST /api/chronos        *)
(* (server/server.go), which streams the events, records the end of the    *)
(* run in the trace store and the verification in the workstream.          *)
(*                                                                         *)
(* A turn of the model either uses tools or says something; what it says   *)
(* holds the completion marker or not.  The checks the loop makes before   *)
(* it lets a run end (tests after edits, the completion contract) are one  *)
(* gate that may send the run back a bounded number of times.              *)
(***************************************************************************)
CONSTANTS MaxCycles,      \* ChronosConfig.MaxCycles
          MaxIterations,  \* ChronosConfig.MaxIterations
          AutoFix,        \* ChronosConfig.AutoFix
          Capacity,       \* events the channel between loop and handler holds
          MaxGates        \* how often the gate sends a run back

VARIABLES chronosRequest,    \* "new", "rejected", "streaming", "ended"
          started,    \* the timeline holds chronos_run_started
          mode,       \* phase, cycle, findings, fixes, verifies, last verify, stop
          loop,       \* "idle", "running", "erring", "stopping", "stopped"
          chronosOutcome,    \* the terminal outcome of the loop
          iterations, gates,
          channel,    \* events not yet read by the handler
          canceled,   \* the context of the run is done
          clientGone,
          trace,      \* status of the recorded trace, "" before
          verified,   \* LastVerification of the workstream, "" before
          ends        \* number of end events in the timeline

chronosVars == <<chronosRequest, started, mode, loop, chronosOutcome, iterations, gates, channel,
          canceled, clientGone, trace, verified, ends>>

Fresh == [phase |-> "find", cycle |-> 1, findings |-> 0, fixes |-> 0,
          verifies |-> 0, last |-> "none", stop |-> ""]

ChronosInit == /\ chronosRequest = "new" /\ started = FALSE
        /\ mode = Fresh /\ loop = "idle" /\ chronosOutcome = "none"
        /\ iterations = 0 /\ gates = 0
        /\ channel = <<>> /\ canceled = FALSE /\ clientGone = FALSE
        /\ trace = "" /\ verified = "" /\ ends = 0

(* The request is refused before anything is recorded (no provider, bad     *)
(* input, no workstream, a plan that is not approved at this revision) ...  *)
Reject == /\ chronosRequest = "new"
          /\ chronosRequest' = "rejected"
          /\ UNCHANGED <<started, mode, loop, chronosOutcome, iterations, gates, channel,
                         canceled, clientGone, trace, verified, ends>>

(* ... or after the timeline already says that the run started, when        *)
(* BeginPlanStage meets a newer state of the plan.                          *)
BeginStageFails == /\ chronosRequest = "new"
                   /\ chronosRequest' = "rejected"
                   /\ started' = TRUE
                   /\ UNCHANGED <<mode, loop, chronosOutcome, iterations, gates, channel,
                                  canceled, clientGone, trace, verified, ends>>

Stream == /\ chronosRequest = "new"
          /\ chronosRequest' = "streaming"
          /\ started' = TRUE
          /\ loop' = "running"
          /\ UNCHANGED <<mode, chronosOutcome, iterations, gates, channel, canceled,
                         clientGone, trace, verified, ends>>

(***************************************************************************)
(* The mode: what a turn without tools does to it.                         *)
(***************************************************************************)
advanceFind(m, complete) ==
  IF complete THEN [m EXCEPT !.phase = "complete", !.stop = "complete"]
  ELSE IF ~AutoFix THEN [m EXCEPT !.findings = @ + 1, !.stop = "auto_fix_disabled"]
  ELSE [m EXCEPT !.findings = @ + 1, !.phase = "fix"]

advanceFix(m, complete) == [m EXCEPT !.fixes = @ + 1, !.phase = "verify"]

advanceVerify(m, complete) ==
  LET seen == [m EXCEPT !.verifies = @ + 1, !.last = IF complete THEN "complete" ELSE "issues"]
  IN  IF complete THEN [seen EXCEPT !.phase = "complete", !.stop = "complete"]
      ELSE IF m.cycle >= MaxCycles THEN [seen EXCEPT !.phase = "failed", !.stop = "max_cycles"]
      ELSE [seen EXCEPT !.phase = "find", !.cycle = @ + 1]

Advance(m, complete) ==
  CASE m.stop # "" -> m
    [] m.stop = "" /\ m.phase = "find" -> advanceFind(m, complete)
    [] m.stop = "" /\ m.phase = "fix" -> advanceFix(m, complete)
    [] m.stop = "" /\ m.phase = "verify" -> advanceVerify(m, complete)

(***************************************************************************)
(* The loop.                                                               *)
(***************************************************************************)
Running == loop = "running" /\ iterations < MaxIterations /\ ~canceled
Room == Len(channel) < Capacity

(* A turn with tools emits their results and leaves the mode alone. *)
ToolTurn == /\ Running /\ Room
            /\ iterations' = iterations + 1
            /\ channel' = Append(channel, [type |-> "tool_result"])
            /\ UNCHANGED <<chronosRequest, started, mode, loop, chronosOutcome, gates, canceled,
                           clientGone, trace, verified, ends>>

(* A turn without tools advances the mode.  When the mode has stopped, the  *)
(* gate lets the run end, blocks it, or asks for more work.                 *)
SayTurn(complete) ==
  /\ Running /\ Room
  /\ iterations' = iterations + 1
  /\ mode' = Advance(mode, complete)
  /\ channel' = Append(channel, [type |-> "status"])
  /\ \/ /\ mode'.stop = ""
        /\ UNCHANGED <<loop, chronosOutcome, gates>>
     \/ /\ mode'.stop # ""
        /\ gates < MaxGates
        /\ gates' = gates + 1
        /\ UNCHANGED <<loop, chronosOutcome>>
     \/ /\ mode'.stop # ""
        /\ loop' = "stopping"
        /\ chronosOutcome' \in {IF mode'.stop = "max_cycles" THEN "failed" ELSE "completed", "blocked"}
        /\ UNCHANGED gates
  /\ UNCHANGED <<chronosRequest, started, canceled, clientGone, trace, verified, ends>>

(* A provider error, a context that cannot be planned, the iteration limit: *)
(* an error event and a failed terminal.                                    *)
RunError == /\ loop = "running"
            /\ ~canceled
            /\ loop' = "erring"
            /\ chronosOutcome' = "failed"
            /\ UNCHANGED <<chronosRequest, started, mode, iterations, gates, channel, canceled,
                           clientGone, trace, verified, ends>>
EmitError == /\ loop = "erring" /\ Room
             /\ channel' = Append(channel, [type |-> "error"])
             /\ loop' = "stopping"
             /\ UNCHANGED <<chronosRequest, started, mode, chronosOutcome, iterations, gates, canceled,
                            clientGone, trace, verified, ends>>

(* The total timeout, or the client's going away, cancels the context; the  *)
(* loop notices between two steps and ends without an error event.          *)
Timeout == /\ loop = "running" /\ ~canceled
           /\ canceled' = TRUE
           /\ UNCHANGED <<chronosRequest, started, mode, loop, chronosOutcome, iterations, gates, channel,
                          clientGone, trace, verified, ends>>
NoticeCancel == /\ loop = "running" /\ canceled
                /\ loop' = "stopping"
                /\ chronosOutcome' = "cancelled"
                /\ UNCHANGED <<chronosRequest, started, mode, iterations, gates, channel, canceled,
                               clientGone, trace, verified, ends>>

Finalize == /\ loop = "stopping" /\ Room
            /\ loop' = "stopped"
            /\ channel' = Append(channel, [type |-> "done", blocked |-> chronosOutcome # "completed", mode |-> mode])
            /\ UNCHANGED <<chronosRequest, started, mode, chronosOutcome, iterations, gates, canceled,
                           clientGone, trace, verified, ends>>

(***************************************************************************)
(* The handler.                                                            *)
(***************************************************************************)
chronosVerificationFromDone(e) ==
  IF e.blocked \/ e.mode.phase = "failed" \/ e.mode.stop = "max_cycles" THEN "failed"
  ELSE IF e.mode.verifies = 0 THEN "not-run" ELSE "passed"

(* The first terminal event decides what is recorded. *)
Record(e) ==
  IF trace # "" \/ e.type \notin {"done", "error"} THEN UNCHANGED <<trace, verified, ends>>
  ELSE LET v == IF e.type = "error" THEN "failed" ELSE chronosVerificationFromDone(e)
       IN  /\ verified' = v
           /\ trace' = IF v = "failed" THEN "failed" ELSE "ok"
           /\ ends' = ends + 1

Consume(ok) == /\ chronosRequest = "streaming" /\ channel # <<>>
               /\ Record(Head(channel))
               /\ channel' = Tail(channel)
               /\ IF clientGone \/ ok THEN UNCHANGED <<clientGone, canceled>>
                  ELSE clientGone' = TRUE /\ canceled' = TRUE
               /\ UNCHANGED <<chronosRequest, started, mode, loop, chronosOutcome, iterations, gates>>

(* The channel is closed after the done event. *)
EndStream == /\ chronosRequest = "streaming" /\ loop = "stopped" /\ channel = <<>>
             /\ chronosRequest' = "ended"
             /\ UNCHANGED <<started, mode, loop, chronosOutcome, iterations, gates, channel, canceled,
                            clientGone, trace, verified, ends>>

LoopStep == ToolTurn \/ SayTurn(TRUE) \/ SayTurn(FALSE) \/ RunError \/ EmitError \/ NoticeCancel \/ Finalize
HandlerStep == Consume(TRUE) \/ Consume(FALSE) \/ EndStream

ChronosNext == Reject \/ BeginStageFails \/ Stream \/ LoopStep \/ Timeout \/ HandlerStep

ChronosSpec == ChronosInit /\ [][ChronosNext]_chronosVars

(***************************************************************************)
(* Properties                                                              *)
(***************************************************************************)
(* Every part of the state has its type; the mode stays within its cycles.  *)
ChronosTypeOK == /\ chronosRequest \in {"new", "rejected", "streaming", "ended"}
          /\ mode.phase \in {"find", "fix", "verify", "complete", "failed"}
          /\ mode.cycle \in 1 .. MaxCycles
          /\ loop \in {"idle", "running", "erring", "stopping", "stopped"}
          /\ chronosOutcome \in {"none", "completed", "failed", "blocked", "cancelled"}
          /\ Len(channel) <= Capacity /\ ends \in 0 .. 1
          /\ trace \in {"", "ok", "failed"} /\ verified \in {"", "passed", "failed", "not-run"}

(* A trace says "ok" only of a run that the loop completed, within its      *)
(* cycles: an error, a cancel, the time limit or a blocked contract is      *)
(* never recorded as a success, whatever the client saw of it.              *)
RecordedOk == trace = "ok" => chronosOutcome = "completed" /\ mode.stop # "max_cycles"

(* No run completes on an unverified fix: every FIX phase of a run that     *)
(* stops as complete was followed by its VERIFY phase.                      *)
FixesVerified == mode.stop = "complete" => mode.verifies = mode.fixes

=============================================================================
