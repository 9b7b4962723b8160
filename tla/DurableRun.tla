----------------------------- MODULE DurableRun -----------------------------
(***************************************************************************)
(* Agent runs bound to a durable session (internal/server: handleAgent and *)
(* agent_session.go; internal/agent: DurableRunObserver and the journal    *)
(* call of the tool dispatcher).                                           *)
(*                                                                         *)
(* A run is one POST /api/agent: the checks, the per-session gate, the     *)
(* kernel loop with its tools, and Finalize.  Before a tool executes, its  *)
(* call is journalled in the session file as an interruption marker; the   *)
(* commit of the finished run replaces the marker by the transcript.  The  *)
(* process may die between any two steps; only `disk' survives.            *)
(*                                                                         *)
(* The event channel is FIFO and ends with the done frame, so when the     *)
(* handler finalizes, the observer has seen what the loop emitted: `tools' *)
(* is both.  Store I/O errors are the ...Fails actions.                    *)
(***************************************************************************)
EXTENDS SessionStore
LOCAL INSTANCE TLC

VARIABLES durableActive, \* sessions with a live run: Server.durableActive
          quarantine,    \* Server.durableQuarantine
          run,           \* run id -> the handler and its durableAgentRun
          sent,          \* request id -> the session and revision it names
          effects,       \* history: session -> <<run, tool>> that executed and are
                         \* neither committed nor reconciled
          committed      \* history: session -> requests committed to it

runVars == <<durableActive, quarantine, run, sent>>
vars    == <<storeVars, runVars, effects, committed>>

Phases     == {"idle", "checked", "gated", "prepared", "running", "ended"}
ToolStates == {"new", "journaled", "denied", "started", "returned", "reported"}
NewTools   == [t \in Tools |-> "new"]

\* id, request and first come from the HTTP request; session, expected and
\* marker are the fields of durableAgentRun.
Idle  == [phase |-> "idle", id |-> None, request |-> None, first |-> 0,
          session |-> None, expected |-> 0, marker |-> None,
          tools |-> NewTools, ambiguous |-> FALSE]
Ended == [Idle EXCEPT !.phase = "ended"]
RunRecords ==
  [phase : Phases, id : SessionIds \cup {None}, request : Requests \cup {None},
   first : Revisions, session : Stored \cup {None}, expected : Revisions,
   marker : Markers \cup {None}, tools : [Tools -> ToolStates], ambiguous : BOOLEAN]

ASSUME RunNullAssumption ==
  /\ None \notin [id : SessionIds, expected : Revisions]
  /\ None \notin [run : Runs \cup {ManualRun}, tools : SUBSET Tools]

TypeOK ==
  /\ StoreTypeOK
  /\ durableActive \subseteq SessionIds
  /\ quarantine \subseteq SessionIds
  /\ run \in [Runs -> RunRecords]
  /\ sent \in [Requests -> [id : SessionIds, expected : Revisions] \cup {None}]
  /\ effects \in [SessionIds -> SUBSET (Runs \X Tools)]
  /\ committed \in [SessionIds -> SUBSET Requests]

Init ==
  /\ StoreInit
  /\ durableActive = {}
  /\ quarantine = {}
  /\ run = [r \in Runs |-> Idle]
  /\ sent = [q \in Requests |-> None]
  /\ effects = [id \in SessionIds |-> {}]
  /\ committed = [id \in SessionIds |-> {}]

-----------------------------------------------------------------------------
(* Admission: the checks, the gate and the preparation of a run.           *)

\* validateDurableAgentSession; an empty transcript never matches a request.
MayRun(s, expected) ==
  /\ s # Absent
  /\ s.rev = expected
  /\ ~s.reconcile
  /\ s.life = "active"
  /\ s.messages # 0

\* A client sends a request, or sends one again whose answer it never got.  A
\* request the session has already committed is replayed or refused here.
SendRequest(r, id, q) ==
  /\ run[r].phase = "idle"
  /\ id \notin quarantine
  /\ LET first == IF q # None /\ sent[q] # None THEN sent[q].expected ELSE disk[id].rev IN
     /\ q # None /\ sent[q] # None => sent[q].id = id
     /\ MayRun(disk[id], first)
     /\ q # None /\ disk[id].lastRequest # None => disk[id].lastRequest.id # q
     /\ run' = [run EXCEPT ![r] = [Idle EXCEPT !.phase = "checked", !.id = id,
                                               !.request = q, !.first = first]]
     /\ sent' = IF q = None THEN sent
                ELSE [sent EXCEPT ![q] = [id |-> id, expected |-> first]]
  /\ UNCHANGED <<storeVars, durableActive, quarantine, effects, committed>>

Release(r) ==
  /\ run' = [run EXCEPT ![r] = Ended]
  /\ durableActive' = durableActive \ {run[r].id}
  /\ UNCHANGED sent

GateOpen(id) == id \notin durableActive

EnterGate(r) ==
  /\ run[r].phase = "checked"
  /\ GateOpen(run[r].id)
  /\ durableActive' = durableActive \cup {run[r].id}
  /\ run' = [run EXCEPT ![r].phase = "gated"]
  /\ UNCHANGED <<storeVars, quarantine, sent, effects, committed>>

GateClosed(r) ==
  /\ run[r].phase = "checked"
  /\ ~GateOpen(run[r].id)
  /\ run' = [run EXCEPT ![r] = Ended]
  /\ UNCHANGED <<storeVars, durableActive, quarantine, sent, effects, committed>>

\* prepareDurableAgentRun reads and validates the session again.
PrepareDurableAgentRun_AdoptsCurrent(r) ==
  /\ run[r].phase = "gated"
  /\ disk[run[r].id] # Absent
  /\ run' = [run EXCEPT ![r].phase = "prepared", ![r].session = disk[run[r].id],
                        ![r].expected = disk[run[r].id].rev]
  /\ UNCHANGED <<storeVars, durableActive, quarantine, sent, effects, committed>>
PrepareDurableAgentRun(r) ==
  /\ run[r].phase = "gated"
  /\ MayRun(disk[run[r].id], run[r].first)
  /\ run' = [run EXCEPT ![r].phase = "prepared", ![r].session = disk[run[r].id],
                        ![r].expected = run[r].first]
  /\ UNCHANGED <<storeVars, durableActive, quarantine, sent, effects, committed>>

\* Every early return between the gate and the loop: a changed session, no
\* free loop, no provider, images or plan stage refused.
SetupFails(r) ==
  /\ run[r].phase \in {"gated", "prepared"}
  /\ Release(r)
  /\ UNCHANGED <<storeVars, quarantine, effects, committed>>

Launch(r) ==
  /\ run[r].phase = "prepared"
  /\ run' = [run EXCEPT ![r].phase = "running"]
  /\ UNCHANGED <<storeVars, durableActive, quarantine, sent, effects, committed>>

\* The run adopts what it has just written.
Adopts(r, changes) == run' = [run EXCEPT ![r] =
  [changes EXCEPT !.session = disk'[changes.id], !.expected = disk'[changes.id].rev]]

\* CommitImages: the images of the last user message become part of the
\* session at a new revision, and the loop starts.
LaunchWithImages(r) ==
  LET id == run[r].id  n == run[r].session.messages IN
  /\ run[r].phase = "prepared"
  /\ CanSave(disk[id], run[r].expected, None, None, n)
  /\ Write(id, SaveTo(disk[id], None, n, None))
  /\ Adopts(r, [run[r] EXCEPT !.phase = "running"])
  /\ UNCHANGED <<durableActive, quarantine, sent, effects, committed>>

-----------------------------------------------------------------------------
(* The loop: executePreparedToolCall and the results of a batch.           *)

ToolsIn(r, states) == {t \in Tools : run[r].tools[t] \in states}
\* Calls the journal has recorded, and calls the observer saw start.
Journaled(r)  == IF run[r].marker = None THEN {} ELSE run[r].marker.tools
ToolsBegun(r) == ToolsIn(r, {"started", "returned", "reported"})

\* JournalToolExecution: the first call marks the session, later ones extend
\* the marker after it was found unchanged.
JournalToolExecution(r, t) ==
  LET id   == run[r].id
      next == [run |-> r, tools |-> Journaled(r) \cup {t}, by |-> "journal"]
  IN
  /\ run[r].phase = "running"
  /\ run[r].tools[t] = "new"
  /\ IF run[r].marker = None
     THEN /\ ~run[r].session.reconcile
          /\ CanMarkInterrupted(disk[id], run[r].expected)
          /\ Write(id, MarkInterruptedTo(disk[id], next))
     ELSE /\ CanUpdateInterruptedRun(disk[id], run[r].expected, run[r].marker, next)
          /\ Write(id, UpdateInterruptedRunTo(disk[id], next))
  /\ Adopts(r, [run[r] EXCEPT !.marker = next, !.tools[t] = "journaled"])
  /\ UNCHANGED <<durableActive, quarantine, sent, effects, committed>>

SetTool(r, t, from, to) ==
  /\ run[r].phase = "running"
  /\ run[r].tools[t] = from
  /\ run' = [run EXCEPT ![r].tools[t] = to]
  /\ UNCHANGED <<storeVars, durableActive, quarantine, sent, effects, committed>>

\* The journal could not be written: the call is denied.
JournalFails(r, t) == SetTool(r, t, "new", "denied")

\* A full-mode grant that expired, was spent or was canceled, or a canceled
\* context: the call is denied after it was journalled.
DenyAfterJournal(r, t) == SetTool(r, t, "journaled", "denied")

\* tool_execution_start and Execute, after the journal.  While another call is unresolved the
\* provider may have given both the same id.
StartState_BeforeJournal == "new"
StartState == "journaled"
StartTool(r, t) ==
  /\ run[r].phase = "running"
  /\ run[r].tools[t] = StartState
  /\ \E ambiguous \in IF ToolsIn(r, {"started", "returned"}) = {}
                      THEN {run[r].ambiguous} ELSE {run[r].ambiguous, TRUE} :
       run' = [run EXCEPT ![r].tools[t] = "started", ![r].ambiguous = ambiguous]
  /\ effects' = [effects EXCEPT ![run[r].id] = @ \cup {<<r, t>>}]
  /\ UNCHANGED <<storeVars, durableActive, quarantine, sent, committed>>

ToolReturns(r, t) == SetTool(r, t, "started", "returned")
\* The tool_result event.
ReportTool(r, t)  == SetTool(r, t, "returned", "reported")

-----------------------------------------------------------------------------
(* The done frame and Finalize.  dispatchToolCalls joins its goroutines,   *)
(* so nothing is in flight.                                                *)

AtDone(r) == run[r].phase = "running" /\ ToolsIn(r, {"journaled", "started"}) = {}

\* Commit the transcript: a success, or a blocked end without tool activity.
RunReceipt(r) ==
  IF run[r].request = None THEN None
  ELSE [id |-> run[r].request, expected |-> run[r].first,
        messages |-> run[r].session.messages]

FinalizeCommit(r, n) ==
  LET id == run[r].id IN
  /\ AtDone(r)
  /\ ToolsIn(r, {"returned"}) = {}
  /\ ~run[r].ambiguous
  /\ n >= run[r].session.messages
  /\ CanSave(disk[id], run[r].expected, run[r].marker, RunReceipt(r), n)
  /\ Write(id, SaveTo(disk[id], RunReceipt(r), n, None))
  /\ effects' = [effects EXCEPT ![id] = {e \in @ : e[1] # r}]
  /\ committed' = [committed EXCEPT ![id] = @ \cup ({run[r].request} \ {None})]
  /\ Release(r)
  /\ UNCHANGED quarantine

\* markReconciliation: a blocked end after tool activity, an ambiguous tool
\* lifecycle, or a commit that failed.
FinalizeReconcile(r) ==
  LET id   == run[r].id
      next == [run |-> r, tools |-> ToolsBegun(r), by |-> "terminal"]
  IN
  /\ AtDone(r)
  /\ ToolsBegun(r) # {}
  /\ IF run[r].marker # None
     THEN /\ CanUpdateInterruptedRun(disk[id], run[r].expected, run[r].marker, next)
          /\ Write(id, UpdateInterruptedRunTo(disk[id], next))
     ELSE /\ CanMarkInterrupted(disk[id], disk[id].rev)
          /\ Write(id, MarkInterruptedTo(disk[id], next))
  /\ Release(r)
  /\ UNCHANGED <<quarantine, effects, committed>>

\* Nothing is written: the commit or the marker failed, or there was nothing
\* to commit.  A run whose tools executed without a marker is quarantined.
FinalizeFails(r) ==
  /\ AtDone(r)
  /\ quarantine' = IF ToolsBegun(r) # {} /\ ~run[r].session.reconcile
                   THEN quarantine \cup {run[r].id} ELSE quarantine
  /\ Release(r)
  /\ UNCHANGED <<storeVars, effects, committed>>

-----------------------------------------------------------------------------
(* The process and the other callers of the session API.                   *)

Crash ==
  /\ durableActive' = {}
  /\ quarantine' = {}
  /\ run' = [r \in Runs |-> IF run[r].phase = "idle" THEN Idle ELSE Ended]
  /\ UNCHANGED <<storeVars, sent, effects, committed>>

\* lockDurableSessionMutation.  Only the current revision gets through.  A
\* session that handleSessionFork starts, without the gate, is one that
\* ClientSave may create with this parent.
ClientSave(id, n) ==
  /\ GateOpen(id)
  /\ SaveExpected(id, IF disk[id] = Absent THEN 0 ELSE disk[id].rev, n)
  /\ UNCHANGED <<runVars, effects, committed>>
ClientInterrupt(id) ==
  /\ GateOpen(id)
  /\ disk[id] # Absent
  /\ Interrupt(id, disk[id].rev)
  /\ UNCHANGED <<runVars, effects, committed>>
ClientClose(id) ==
  /\ GateOpen(id)
  /\ disk[id] # Absent
  /\ Close(id, disk[id].rev)
  /\ UNCHANGED <<runVars, effects, committed>>
ClientReconcile(id) ==
  /\ GateOpen(id)
  /\ disk[id] # Absent
  /\ Reconcile(id, disk[id].rev, Assess(disk[id]))
  /\ effects' = [effects EXCEPT ![id] = {}]
  /\ UNCHANGED <<runVars, committed>>
ClientDelete(id) ==
  /\ GateOpen(id)
  /\ disk[id] # Absent
  /\ Delete(id, disk[id].rev)
  /\ effects' = [effects EXCEPT ![id] = {}]
  /\ committed' = [committed EXCEPT ![id] = {}]
  /\ UNCHANGED runVars
ToolStep(r) ==
  \E t \in Tools : \/ JournalToolExecution(r, t) \/ JournalFails(r, t)
                   \/ DenyAfterJournal(r, t) \/ StartTool(r, t)
                   \/ ToolReturns(r, t) \/ ReportTool(r, t)
SetupStep(r) ==
  \/ EnterGate(r) \/ GateClosed(r) \/ PrepareDurableAgentRun(r)
  \/ SetupFails(r) \/ Launch(r) \/ LaunchWithImages(r)
FinalStep(r) ==
  \/ \E n \in Messages : FinalizeCommit(r, n)
  \/ FinalizeReconcile(r)
  \/ FinalizeFails(r)
ClientStep ==
  \E id \in SessionIds :
    \/ \E n \in Messages : ClientSave(id, n)
    \/ ClientInterrupt(id) \/ ClientClose(id) \/ ClientReconcile(id) \/ ClientDelete(id)

Next ==
  \/ \E r \in Runs, id \in SessionIds, q \in Requests \cup {None} : SendRequest(r, id, q)
  \/ \E r \in Runs : SetupStep(r) \/ ToolStep(r) \/ FinalStep(r)
  \/ ClientStep
  \/ Crash

Spec == Init /\ [][Next]_vars

-----------------------------------------------------------------------------
Holds(r, id) == run[r].phase \in {"gated", "prepared", "running"} /\ run[r].id = id

\* Write-ahead: whatever tool has executed, the session file on disk names its
\* call in a marker that blocks every later run and save, until the run commits
\* its transcript or a user reconciles; also after a crash at any point.
EffectsGuarded ==
  \A id \in SessionIds : \A e \in effects[id] :
    /\ disk[id] # Absent
    /\ disk[id].reconcile
    /\ disk[id].interruption.run = e[1]
    /\ e[2] \in disk[id].interruption.tools

\* Between the gate and its release one run owns the session: no other call
\* moves the file, so its revision and marker stay the run's own.
GateOwnsSession ==
  \A r \in Runs, id \in SessionIds :
    /\ Holds(r, id) =>
         /\ id \in durableActive
         /\ \A other \in Runs \ {r} : ~Holds(other, id)
    /\ run[r].phase = "running" /\ run[r].id = id => disk[id] = run[r].session

\* A tool that executes cannot repeat what an earlier attempt did: no effect of
\* another run is pending in the session, and its request was not committed.
NoRepeatedExecution ==
  [][\A r \in Runs, t \in Tools :
       run[r].tools[t] # "started" /\ run'[r].tools[t] = "started" =>
         /\ \A e \in effects[run[r].id] : e[1] = r
         /\ run[r].request \notin committed[run[r].id]]_vars

\* A request commits to a session once, however often it is sent again.
CommittedOnce ==
  [][\A r \in Runs, id \in SessionIds :
       /\ Holds(r, id) /\ run'[r].phase = "ended"
       /\ disk'[id] # disk[id] /\ disk'[id] # Absent /\ ~disk'[id].reconcile
       => run[r].request \notin committed[id]]_vars

\* The run that has read the session and not yet released it, with its request.
Works(handler, id) == handler.phase \in {"prepared", "running"} /\ handler.id = id
WorkersOf(runs, id) == {<<r, runs[r].request>> : r \in {x \in Runs : Works(runs[x], id)}}

\* The calls that the file of a session names, and their run.
GuardOf(file) ==
  IF file # Absent /\ file.reconcile
  THEN [run |-> file.interruption.run, tools |-> file.interruption.tools]
  ELSE None

Ledger ==
  INSTANCE EffectLedger WITH
    workers <- [id \in SessionIds |-> WorkersOf(run, id)],
    guard <- [id \in SessionIds |-> GuardOf(disk[id])]

\* The server, its clients and its runs implement the promise of EffectLedger:
\* one worker per session, write-ahead, review before anything goes on, and one
\* commit per request, through stale copies, failed writes, retries and crashes.
ImplementsLedger == Ledger!Spec

\* The journal makes the quarantine a second line: no run ends with executed
\* tools and an unguarded session.
QuarantineUnused == quarantine = {}

\* What the model checker may permute.
Symmetry == Permutations(Runs) \cup Permutations(Tools) \cup Permutations(Requests)

=============================================================================
