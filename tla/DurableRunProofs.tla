-------------------------- MODULE DurableRunProofs --------------------------
(***************************************************************************)
(* The write-ahead promise of durable runs, for any number of sessions,    *)
(* runs, tools and requests: a tool effect is guarded on disk until it is  *)
(* committed or reviewed, no effect is repeated by a later run, and a      *)
(* request is committed once.                                              *)
(*                                                                         *)
(* None of the three is inductive.  They rest on the gate (one run owns a  *)
(* session), on the file being what its owner last wrote, on the marker in *)
(* the file naming the calls of the owner, and on the requests a client    *)
(* may send again naming the revision they were first sent at.             *)
(***************************************************************************)
EXTENDS DurableRun, SessionStoreProofs

InFlight(r) == run[r].phase \in {"checked", "gated", "prepared", "running"}
Working(r)  == run[r].phase \in {"prepared", "running"}
Begun       == {"started", "returned", "reported"}

\* What a handler sends is what the client has sent first.
RequestNamed(r) ==
  InFlight(r) =>
    /\ run[r].id \in SessionIds
    /\ run[r].request # None =>
         sent[run[r].request] = [id |-> run[r].id, expected |-> run[r].first]

\* A run has no marker and no tools before its loop.
Fresh(r) ==
  run[r].phase \in {"checked", "gated", "prepared"} =>
    run[r].marker = None /\ run[r].tools = NewTools

\* The session file is the one its run has read or written last, the request
\* of the run is not committed, and the marker on disk is the run's own.
OwnsFile(r) ==
  Working(r) =>
    /\ disk[run[r].id] # Absent
    /\ disk[run[r].id] = run[r].session
    /\ run[r].expected = disk[run[r].id].rev
    /\ run[r].first <= disk[run[r].id].rev
    /\ run[r].request \notin committed[run[r].id]
    /\ run[r].marker = None => ~disk[run[r].id].reconcile
    /\ run[r].marker # None => /\ disk[run[r].id].reconcile
                               /\ disk[run[r].id].interruption = run[r].marker
                               /\ run[r].marker.run = r

\* The marker names every call that is past the journal, and every effect is
\* one of a call that has begun.
Journals(r) ==
  Working(r) =>
    \A t \in Tools :
      /\ run[r].tools[t] \in Begun \cup {"journaled"} => t \in Journaled(r)
      /\ <<r, t>> \in effects[run[r].id] => run[r].tools[t] \in Begun

RunInv(r) == RequestNamed(r) /\ Fresh(r) /\ OwnsFile(r) /\ Journals(r)

\* A session between the gate and its release has one owner.
OneOwner ==
  \A r \in Runs, id \in SessionIds :
    Holds(r, id) => id \in durableActive /\ \A other \in Runs \ {r} : ~Holds(other, id)

\* An effect that is neither committed nor reviewed is named by the guard.
Guarded(id) ==
  \A e \in effects[id] :
    /\ disk[id] # Absent /\ disk[id].reconcile
    /\ disk[id].interruption.run = e[1]
    /\ e[2] \in disk[id].interruption.tools

\* A committed request was sent at a revision the session has left behind.
Remembered(id) ==
  \A q \in committed[id] :
    /\ q # None /\ sent[q] # None /\ sent[q].id = id
    /\ disk[id] # Absent /\ sent[q].expected < disk[id].rev

SessionInv(id) == Guarded(id) /\ Remembered(id)

DurableInv ==
  /\ TypeOK
  /\ OneOwner
  /\ \A r \in Runs : RunInv(r)
  /\ \A id \in SessionIds : SessionInv(id)
  /\ quarantine = {}
-----------------------------------------------------------------------------
(* Who a step disturbs.                                                    *)

\* A step of a run touches no other run and no session it does not hold.
OnlyOf(r) ==
  /\ \A other \in Runs : other # r => run'[other] = run[other]
  /\ \A id \in SessionIds :
       ~Holds(r, id) => /\ disk'[id] = disk[id]
                        /\ effects'[id] = effects[id]
                        /\ committed'[id] = committed[id]

\* The other runs and sessions keep what the invariant says of them.
LEMMA OthersUndisturbed ==
  ASSUME DurableInv, NEW r \in Runs, OnlyOf(r), sent' = sent
  PROVE  /\ \A other \in Runs : other # r => RunInv(other)'
         /\ \A id \in SessionIds : ~Holds(r, id) => SessionInv(id)'
<1>1. ASSUME NEW other \in Runs, other # r PROVE RunInv(other)'
  <2>1. run'[other] = run[other] /\ RunInv(other)
    BY <1>1 DEF OnlyOf, DurableInv
  <2>2. Working(other) => /\ disk'[run[other].id] = disk[run[other].id]
                          /\ effects'[run[other].id] = effects[run[other].id]
                          /\ committed'[run[other].id] = committed[run[other].id]
    <3> SUFFICES ASSUME Working(other) PROVE ~Holds(r, run[other].id) /\ run[other].id \in SessionIds
      BY DEF OnlyOf
    <3>1. run[other].id \in SessionIds /\ Holds(other, run[other].id)
      BY <2>1 DEF RunInv, RequestNamed, InFlight, Working, Holds
    <3> QED BY <1>1, <3>1 DEF DurableInv, OneOwner
  <2>3. RequestNamed(other)' /\ Fresh(other)'
    BY <2>1 DEF RunInv, RequestNamed, Fresh, InFlight
  <2>4. OwnsFile(other)'
    BY <2>1, <2>2 DEF RunInv, OwnsFile, Working
  <2>5. Journals(other)'
    BY <2>1, <2>2 DEF RunInv, Journals, Working, Journaled
  <2> QED BY <2>3, <2>4, <2>5 DEF RunInv
<1>2. ASSUME NEW id \in SessionIds, ~Holds(r, id) PROVE SessionInv(id)'
  <2>1. /\ disk'[id] = disk[id] /\ effects'[id] = effects[id] /\ committed'[id] = committed[id]
        /\ SessionInv(id)
    BY <1>2 DEF OnlyOf, DurableInv
  <2> QED BY <2>1 DEF SessionInv, Guarded, Remembered
<1> QED BY <1>1, <1>2

\* A step of a run keeps the invariant if it keeps what concerns the run and
\* its session.
LEMMA StepOfRun ==
  ASSUME DurableInv, NEW r \in Runs, OnlyOf(r), sent' = sent,
         TypeOK', OneOwner', RunInv(r)', quarantine' = {},
         \A id \in SessionIds : Holds(r, id) => SessionInv(id)'
  PROVE  DurableInv'
<1>1. /\ \A other \in Runs : RunInv(other)'
      /\ \A id \in SessionIds : SessionInv(id)'
  BY OthersUndisturbed
<1> QED BY <1>1 DEF DurableInv

\* The gate stays as it is when a run enters no session.
LEMMA GateUnmoved ==
  ASSUME OneOwner, NEW r \in Runs, \A other \in Runs : other # r => run'[other] = run[other],
         \A id \in SessionIds : Holds(r, id)' => Holds(r, id), durableActive' = durableActive
  PROVE  OneOwner'
<1>1. \A o \in Runs, id \in SessionIds : Holds(o, id)' => Holds(o, id)
  BY DEF Holds
<1> QED BY <1>1 DEF OneOwner

\* A run that ends releases its own session and no other.
LEMMA GateReleasedByOwner ==
  ASSUME OneOwner, NEW r \in Runs, \A other \in Runs : other # r => run'[other] = run[other],
         run[r].id \in SessionIds, Holds(r, run[r].id),
         run'[r].phase = "ended", durableActive' = durableActive \ {run[r].id}
  PROVE  OneOwner'
<1>1. \A o \in Runs, id \in SessionIds : Holds(o, id)' => Holds(o, id) /\ o # r
  BY DEF Holds
<1>2. \A o \in Runs, id \in SessionIds : Holds(o, id) /\ o # r => id # run[r].id
  BY DEF OneOwner
<1> QED BY <1>1, <1>2 DEF OneOwner

\* A run that is not under way is not bound by anything.
LEMMA EndedIsFree ==
  ASSUME NEW r, run'[r].phase \in {"idle", "ended"}
  PROVE  RunInv(r)'
BY DEF RunInv, RequestNamed, Fresh, OwnsFile, Journals, InFlight, Working

\* The record of one run is replaced.
LEMMA RunReplaced ==
  ASSUME TypeOK, NEW r \in Runs, NEW q \in RunRecords, run' = [run EXCEPT ![r] = q]
  PROVE  /\ run' \in [Runs -> RunRecords]
         /\ run'[r] = q
         /\ \A other \in Runs : other # r => run'[other] = run[other]
BY DEF TypeOK

\* Runs that have not begun or have ended.
LEMMA IdleAndEnded ==
  /\ Idle \in RunRecords /\ Ended \in RunRecords
  /\ Idle.phase = "idle" /\ Ended.phase = "ended" /\ Ended.id = Idle.id
<1>1. NewTools \in [Tools -> ToolStates]
  BY DEF NewTools, ToolStates
<1>2. 0 \in Revisions
  BY StoreAssumption DEF Revisions
<1>3. Idle \in RunRecords /\ Idle.phase = "idle"
  BY <1>1, <1>2 DEF Idle, RunRecords, Phases
<1>4. Ended \in RunRecords /\ Ended.phase = "ended" /\ Ended.id = Idle.id
  BY <1>3 DEF Ended, RunRecords, Phases
<1> QED BY <1>3, <1>4

-----------------------------------------------------------------------------
(* Admission.                                                              *)

\* The phase of a run changes and nothing else.
LEMMA PhaseSet ==
  ASSUME NEW q \in RunRecords, NEW phase \in Phases
  PROVE  LET n == [q EXCEPT !.phase = phase] IN
         /\ n \in RunRecords /\ n.phase = phase
         /\ n.id = q.id /\ n.request = q.request /\ n.first = q.first /\ n.session = q.session
         /\ n.expected = q.expected /\ n.marker = q.marker /\ n.tools = q.tools
BY DEF RunRecords

\* A request is sent: nobody else sends it under another name.
LEMMA SendKeeps ==
  ASSUME DurableInv, NEW r \in Runs, NEW id \in SessionIds, NEW q \in Requests \cup {None},
         SendRequest(r, id, q)
  PROVE  DurableInv'
<1> DEFINE first == IF q # None /\ sent[q] # None THEN sent[q].expected ELSE disk[id].rev
           n == [Idle EXCEPT !.phase = "checked", !.id = id, !.request = q, !.first = first]
<1>1. /\ run[r].phase = "idle" /\ disk[id] # Absent /\ disk[id].rev = first
      /\ q # None /\ sent[q] # None => sent[q].id = id
      /\ run' = [run EXCEPT ![r] = n]
      /\ sent' = IF q = None THEN sent ELSE [sent EXCEPT ![q] = [id |-> id, expected |-> first]]
      /\ UNCHANGED <<storeVars, durableActive, quarantine, effects, committed>>
  BY DEF SendRequest, MayRun
<1>2. first \in Revisions
  BY <1>1 DEF DurableInv, TypeOK, StoreTypeOK, Stored
<1> HIDE DEF first
<1>3. /\ n \in RunRecords /\ n.phase = "checked" /\ n.id = id /\ n.request = q
      /\ n.first = first /\ n.marker = None /\ n.tools = NewTools
  BY <1>2, IdleAndEnded DEF RunRecords, Idle, Phases
<1> HIDE DEF n
<1>4. /\ run' \in [Runs -> RunRecords] /\ run'[r] = n
      /\ \A other \in Runs : other # r => run'[other] = run[other]
  BY <1>1, <1>3, RunReplaced DEF DurableInv
<1>5. sent' \in [Requests -> [id : SessionIds, expected : Revisions] \cup {None}]
  BY <1>1, <1>2 DEF DurableInv, TypeOK
<1>6. TypeOK'
  BY <1>1, <1>4, <1>5 DEF DurableInv, TypeOK, StoreTypeOK, storeVars
<1>7. q # None => q \in Requests /\ sent'[q] = [id |-> id, expected |-> first]
  BY <1>1 DEF DurableInv, TypeOK
<1>8. \A p \in Requests : sent[p] # None => sent'[p] = sent[p]
  <2> SUFFICES ASSUME NEW p \in Requests, sent[p] # None, p = q, q # None PROVE sent'[p] = sent[p]
    BY <1>1 DEF DurableInv, TypeOK
  <2>1. sent[p] \in [id : SessionIds, expected : Revisions] /\ first = sent[p].expected
    BY DEF DurableInv, TypeOK, first
  <2> QED BY <1>1, <1>7, <2>1
<1>9. ASSUME NEW other \in Runs PROVE RunInv(other)'
  <2>1. CASE other = r
    <3>1. RequestNamed(r)'
      BY <1>3, <1>4, <1>7 DEF RequestNamed, InFlight
    <3>2. Fresh(r)' /\ OwnsFile(r)' /\ Journals(r)'
      BY <1>3, <1>4 DEF Fresh, OwnsFile, Journals, Working
    <3> QED BY <2>1, <3>1, <3>2 DEF RunInv
  <2>2. CASE other # r
    <3>1. run'[other] = run[other] /\ RunInv(other) /\ run[other] \in RunRecords
      BY <1>4, <2>2 DEF DurableInv, TypeOK
    <3>2. InFlight(other) /\ run[other].request # None =>
            /\ run[other].request \in Requests
            /\ sent[run[other].request] # None
      BY <3>1, RunNullAssumption DEF RunInv, RequestNamed, RunRecords, InFlight, DurableInv, TypeOK
    <3>3. RequestNamed(other)'
      BY <1>8, <3>1, <3>2 DEF RunInv, RequestNamed, InFlight
    <3>4. Fresh(other)' /\ OwnsFile(other)' /\ Journals(other)'
      BY <1>1, <3>1 DEF RunInv, Fresh, OwnsFile, Journals, Working, Journaled, storeVars
    <3> QED BY <3>3, <3>4 DEF RunInv
  <2> QED BY <2>1, <2>2
<1>10. OneOwner'
  <2>1. \A x \in SessionIds : Holds(r, x)' => Holds(r, x)
    BY <1>3, <1>4 DEF Holds
  <2> QED BY <1>1, <1>4, <2>1, GateUnmoved DEF DurableInv
<1>11. ASSUME NEW x \in SessionIds PROVE SessionInv(x)'
  <2>1. SessionInv(x) /\ committed[x] \subseteq Requests
    BY DEF DurableInv, TypeOK
  <2>2. Guarded(x)'
    BY <1>1, <2>1 DEF SessionInv, Guarded, storeVars
  <2>3. Remembered(x)'
    BY <1>1, <1>8, <2>1 DEF SessionInv, Remembered, storeVars
  <2> QED BY <2>2, <2>3 DEF SessionInv
<1> QED BY <1>1, <1>6, <1>9, <1>10, <1>11 DEF DurableInv

\* A step that leaves the store and its history alone.
StoreKept == UNCHANGED <<storeVars, sent, effects, committed>>

\* A run that changes only itself, without entering a session, is the only one
\* the invariant must be shown for.
LEMMA StepInMemory ==
  ASSUME DurableInv, NEW r \in Runs, NEW q \in RunRecords, run' = [run EXCEPT ![r] = q],
         UNCHANGED <<storeVars, sent, effects, committed>>,
         durableActive' \subseteq SessionIds, quarantine' = {},
         OneOwner', RunInv(r)'
  PROVE  DurableInv'
<1>1. /\ run' \in [Runs -> RunRecords] /\ run'[r] = q
      /\ \A other \in Runs : other # r => run'[other] = run[other]
  BY RunReplaced DEF DurableInv
<1>2. TypeOK'
  BY <1>1 DEF DurableInv, TypeOK, StoreTypeOK, storeVars
<1>3. OnlyOf(r)
  BY <1>1 DEF OnlyOf, storeVars
<1>4. \A id \in SessionIds : SessionInv(id)'
  BY DEF DurableInv, SessionInv, Guarded, Remembered, storeVars
<1> QED BY <1>2, <1>3, <1>4, StepOfRun

\* The gate lets one run into a session nobody is in.
LEMMA EnterKeeps ==
  ASSUME DurableInv, NEW r \in Runs, EnterGate(r)
  PROVE  DurableInv'
<1> DEFINE n == [run[r] EXCEPT !.phase = "gated"]
<1>1. /\ run[r].phase = "checked" /\ run[r].id \notin durableActive
      /\ durableActive' = durableActive \cup {run[r].id}
      /\ run' = [run EXCEPT ![r] = n]
      /\ UNCHANGED <<storeVars, quarantine, sent, effects, committed>>
  BY DEF EnterGate, GateOpen
<1>2. run[r] \in RunRecords /\ RunInv(r) /\ run[r].id \in SessionIds
  BY <1>1 DEF DurableInv, TypeOK, RunInv, RequestNamed, InFlight
<1>3. /\ n \in RunRecords /\ n.phase = "gated" /\ n.id = run[r].id /\ n.request = run[r].request
      /\ n.first = run[r].first /\ n.marker = run[r].marker /\ n.tools = run[r].tools
  BY <1>2, PhaseSet DEF Phases
<1> HIDE DEF n
<1>4. /\ run'[r] = n /\ \A other \in Runs : other # r => run'[other] = run[other]
  BY <1>1, <1>3, RunReplaced DEF DurableInv
<1>5. RunInv(r)'
  BY <1>1, <1>2, <1>3, <1>4
     DEF RunInv, RequestNamed, Fresh, OwnsFile, Journals, InFlight, Working
<1>6. OneOwner'
  <2> SUFFICES ASSUME NEW o \in Runs, NEW id \in SessionIds, Holds(o, id)'
               PROVE  id \in durableActive' /\ \A other \in Runs \ {o} : ~Holds(other, id)'
    BY DEF OneOwner
  <2>1. \A x \in Runs, y \in SessionIds : Holds(x, y)' => Holds(x, y) \/ (x = r /\ y = run[r].id)
    BY <1>3, <1>4 DEF Holds
  <2>2. \A x \in Runs : ~Holds(x, run[r].id)
    BY <1>1, <1>2 DEF DurableInv, OneOwner
  <2> QED BY <1>1, <2>1, <2>2 DEF DurableInv, OneOwner
<1>7. durableActive' \subseteq SessionIds /\ quarantine' = {}
  BY <1>1, <1>2 DEF DurableInv, TypeOK
<1> QED BY <1>1, <1>3, <1>5, <1>6, <1>7, StepInMemory

\* A run that ends without having touched the session.
LEMMA EndsUnheld ==
  ASSUME DurableInv, NEW r \in Runs, ~Holds(r, run[r].id), run' = [run EXCEPT ![r] = Ended],
         UNCHANGED <<storeVars, durableActive, quarantine, sent, effects, committed>>
  PROVE  DurableInv'
<1>1. /\ run'[r] = Ended /\ \A other \in Runs : other # r => run'[other] = run[other]
      /\ Ended \in RunRecords /\ Ended.phase = "ended"
  BY IdleAndEnded, RunReplaced DEF DurableInv
<1>2. RunInv(r)'
  BY <1>1, EndedIsFree
<1>3. \A id \in SessionIds : Holds(r, id)' => Holds(r, id)
  BY <1>1 DEF Holds
<1>4. OneOwner'
  BY <1>1, <1>3, GateUnmoved DEF DurableInv
<1> QED BY <1>1, <1>2, <1>4, StepInMemory DEF DurableInv, TypeOK

\* The handler that is refused by the gate ends.
LEMMA ClosedKeeps ==
  ASSUME DurableInv, NEW r \in Runs, GateClosed(r)
  PROVE  DurableInv'
<1>1. ~Holds(r, run[r].id)
  BY DEF GateClosed, Holds
<1> QED BY <1>1, EndsUnheld DEF GateClosed

\* What a release leaves.
LEMMA ReleaseResult ==
  ASSUME DurableInv, NEW r \in Runs, Holds(r, run[r].id), Release(r)
  PROVE  /\ run' \in [Runs -> RunRecords]
         /\ \A other \in Runs : other # r => run'[other] = run[other]
         /\ OneOwner' /\ RunInv(r)' /\ durableActive' \subseteq SessionIds
         /\ run[r].id \in SessionIds
<1>1. /\ run' \in [Runs -> RunRecords] /\ run'[r] = Ended
      /\ \A other \in Runs : other # r => run'[other] = run[other]
      /\ Ended.phase = "ended"
  BY IdleAndEnded, RunReplaced DEF DurableInv, Release
<1>2. RunInv(r)'
  BY <1>1, EndedIsFree
<1>3. run[r].id \in SessionIds
  BY DEF DurableInv, RunInv, RequestNamed, InFlight, Holds
<1>4. durableActive' = durableActive \ {run[r].id}
  BY DEF Release
<1>5. OneOwner'
  BY <1>1, <1>3, <1>4, GateReleasedByOwner DEF DurableInv
<1> QED BY <1>1, <1>2, <1>3, <1>4, <1>5 DEF DurableInv, TypeOK

\* An early return between the gate and the loop releases the session as it is.
LEMMA SetupFailsKeeps ==
  ASSUME DurableInv, NEW r \in Runs, SetupFails(r)
  PROVE  DurableInv'
<1>1. Holds(r, run[r].id) /\ Release(r) /\ UNCHANGED <<storeVars, quarantine, effects, committed>>
  BY DEF SetupFails, Holds
<1>2. /\ OneOwner' /\ RunInv(r)' /\ durableActive' \subseteq SessionIds
  BY <1>1, ReleaseResult
<1>3. run' = [run EXCEPT ![r] = Ended] /\ sent' = sent /\ Ended \in RunRecords
  BY <1>1, IdleAndEnded DEF Release
<1> QED BY <1>1, <1>2, <1>3, StepInMemory DEF DurableInv

\* A step of a run within the session it holds, that only changes its record.
LEMMA StepWithin ==
  ASSUME DurableInv, NEW r \in Runs, NEW q \in RunRecords, run' = [run EXCEPT ![r] = q],
         q.id = run[r].id, Holds(r, run[r].id),
         UNCHANGED <<storeVars, durableActive, quarantine, sent, effects, committed>>,
         RunInv(r)'
  PROVE  DurableInv'
<1>1. /\ run'[r] = q /\ \A other \in Runs : other # r => run'[other] = run[other]
  BY RunReplaced DEF DurableInv
<1>2. \A id \in SessionIds : Holds(r, id)' => Holds(r, id)
  BY <1>1 DEF Holds
<1>3. OneOwner'
  BY <1>1, <1>2, GateUnmoved DEF DurableInv
<1> QED BY <1>3, StepInMemory DEF DurableInv, TypeOK

\* A session free of a guard has no effect that waits for one.
LEMMA UnguardedIsClean ==
  ASSUME DurableInv, NEW id \in SessionIds, disk[id] = Absent \/ ~disk[id].reconcile
  PROVE  effects[id] = {}
BY DEF DurableInv, SessionInv, Guarded

\* A session that is absent has no committed request.
LEMMA AbsentIsForgotten ==
  ASSUME DurableInv, NEW id \in SessionIds, disk[id] = Absent
  PROVE  committed[id] = {}
BY DEF DurableInv, SessionInv, Remembered

\* Preparation adopts the session as it is, at the revision the request names:
\* a request that was committed names an earlier one.
LEMMA PrepareKeeps ==
  ASSUME DurableInv, NEW r \in Runs, PrepareDurableAgentRun(r)
  PROVE  DurableInv'
<1> DEFINE id == run[r].id
           n == [run[r] EXCEPT !.phase = "prepared", !.session = disk[id], !.expected = run[r].first]
<1>1. /\ run[r].phase = "gated"
      /\ disk[id] # Absent /\ disk[id].rev = run[r].first /\ ~disk[id].reconcile
      /\ run' = [run EXCEPT ![r] = n]
      /\ UNCHANGED <<storeVars, durableActive, quarantine, sent, effects, committed>>
  BY DEF PrepareDurableAgentRun, MayRun
<1>2. /\ run[r] \in RunRecords /\ RunInv(r) /\ id \in SessionIds
      /\ disk[id] \in Stored /\ disk[id].rev \in Nat
  BY <1>1 DEF DurableInv, TypeOK, StoreTypeOK, RunInv, RequestNamed, InFlight, Stored, Revisions
<1>3. /\ n \in RunRecords /\ n.phase = "prepared" /\ n.id = id /\ n.request = run[r].request
      /\ n.first = run[r].first /\ n.expected = run[r].first /\ n.session = disk[id]
      /\ n.marker = None /\ n.tools = NewTools
  BY <1>1, <1>2 DEF RunInv, Fresh, RunRecords, Phases
<1>4. run[r].request \notin committed[id]
  <2> SUFFICES ASSUME run[r].request \in committed[id] PROVE FALSE
    OBVIOUS
  <2>1. /\ run[r].request # None /\ sent[run[r].request].expected < disk[id].rev
    BY <1>2 DEF DurableInv, SessionInv, Remembered
  <2>2. sent[run[r].request].expected = run[r].first
    BY <1>1, <1>2, <2>1 DEF RunInv, RequestNamed, InFlight
  <2> QED BY <1>1, <1>2, <2>1, <2>2
<1>5. effects[id] = {}
  BY <1>1, <1>2, UnguardedIsClean
<1> HIDE DEF n
<1>6. run'[r] = n
  BY <1>1, <1>3, RunReplaced DEF DurableInv
<1>7. RequestNamed(r)' /\ Fresh(r)'
  BY <1>1, <1>2, <1>3, <1>6 DEF RunInv, RequestNamed, Fresh, InFlight
<1>8. OwnsFile(r)'
  BY <1>1, <1>2, <1>3, <1>4, <1>6 DEF OwnsFile, storeVars
<1>9. Journals(r)'
  BY <1>1, <1>3, <1>5, <1>6 DEF Journals, NewTools, Begun
<1>10. Holds(r, id)
  BY <1>1 DEF Holds
<1> QED BY <1>1, <1>3, <1>7, <1>8, <1>9, <1>10, StepWithin DEF RunInv

\* The loop starts with what was prepared.
LEMMA LaunchKeeps ==
  ASSUME DurableInv, NEW r \in Runs, Launch(r)
  PROVE  DurableInv'
<1> DEFINE n == [run[r] EXCEPT !.phase = "running"]
<1>1. /\ run[r].phase = "prepared" /\ run' = [run EXCEPT ![r] = n]
      /\ UNCHANGED <<storeVars, durableActive, quarantine, sent, effects, committed>>
      /\ run[r] \in RunRecords /\ RunInv(r) /\ Holds(r, run[r].id)
  BY DEF Launch, DurableInv, TypeOK, Holds
<1>2. /\ n \in RunRecords /\ n.phase = "running"
      /\ n.id = run[r].id /\ n.request = run[r].request /\ n.first = run[r].first
      /\ n.session = run[r].session /\ n.expected = run[r].expected
      /\ n.marker = run[r].marker /\ n.tools = run[r].tools
  BY <1>1, PhaseSet DEF Phases
<1> HIDE DEF n
<1>3. run'[r] = n
  BY <1>1, <1>2, RunReplaced DEF DurableInv
<1>4. RequestNamed(r)' /\ Fresh(r)' /\ OwnsFile(r)'
  BY <1>1, <1>2, <1>3 DEF RunInv, RequestNamed, Fresh, OwnsFile, InFlight, Working, storeVars
<1>5. Journals(r)'
  BY <1>1, <1>2, <1>3 DEF RunInv, Journals, Working, Journaled
<1> QED BY <1>1, <1>2, <1>4, <1>5, StepWithin DEF RunInv

-----------------------------------------------------------------------------
(* Steps that write the session of a run.                                  *)

\* The history of effects and commits changes for one session only.
HistoryOf(id) ==
  /\ effects' \in [SessionIds -> SUBSET (Runs \X Tools)]
  /\ committed' \in [SessionIds -> SUBSET Requests]
  /\ \A other \in SessionIds : other # id => /\ effects'[other] = effects[other]
                                            /\ committed'[other] = committed[other]

\* A step of a run on its own session.
LEMMA StepInSession ==
  ASSUME DurableInv, NEW r \in Runs, NEW id \in SessionIds, run[r].id = id, Holds(r, id),
         NEW q \in RunRecords, run' = [run EXCEPT ![r] = q], q.id = id,
         UNCHANGED <<durableActive, quarantine, sent>>,
         StoreTypeOK', OthersKept(id), HistoryOf(id),
         RunInv(r)', SessionInv(id)'
  PROVE  DurableInv'
<1>1. /\ run' \in [Runs -> RunRecords] /\ run'[r] = q
      /\ \A other \in Runs : other # r => run'[other] = run[other]
  BY RunReplaced DEF DurableInv
<1>2. \A x \in SessionIds : Holds(r, x) <=> x = id
  BY DEF Holds
<1>3. OneOwner'
  <2>1. \A x \in SessionIds : Holds(r, x)' => Holds(r, x)
    BY <1>1 DEF Holds
  <2> QED BY <1>1, <2>1, GateUnmoved DEF DurableInv
<1>4. OnlyOf(r)
  BY <1>1, <1>2 DEF OnlyOf, OthersKept, HistoryOf
<1>5. TypeOK'
  BY <1>1 DEF DurableInv, TypeOK, HistoryOf
<1> QED BY <1>2, <1>3, <1>4, <1>5, StepOfRun DEF DurableInv

\* The last step of a run, which releases its session.
LEMMA StepAndRelease ==
  ASSUME DurableInv, NEW r \in Runs, NEW id \in SessionIds, run[r].id = id, Holds(r, id), Release(r), quarantine' = {},
         StoreTypeOK', OthersKept(id), HistoryOf(id),
         SessionInv(id)'
  PROVE  DurableInv'
<1>1. /\ run' \in [Runs -> RunRecords]
      /\ \A other \in Runs : other # r => run'[other] = run[other]
      /\ OneOwner' /\ RunInv(r)' /\ durableActive' \subseteq SessionIds /\ sent' = sent
  BY ReleaseResult DEF Release
<1>2. \A x \in SessionIds : Holds(r, x) <=> x = id
  BY DEF Holds
<1>3. OnlyOf(r)
  BY <1>1, <1>2 DEF OnlyOf, OthersKept, HistoryOf
<1>4. TypeOK'
  BY <1>1 DEF DurableInv, TypeOK, HistoryOf
<1> QED BY <1>1, <1>2, <1>3, <1>4, StepOfRun

\* What a run at work may rely on.
LEMMA WorkingFacts ==
  ASSUME DurableInv, NEW r \in Runs, Working(r)
  PROVE  /\ run[r] \in RunRecords /\ run[r].id \in SessionIds /\ Holds(r, run[r].id)
         /\ disk[run[r].id] # Absent /\ disk[run[r].id] \in Stored
         /\ disk[run[r].id].rev \in Nat /\ run[r].session = disk[run[r].id]
         /\ run[r].first \in Nat /\ StoreTypeOK
         /\ RunInv(r) /\ SessionInv(run[r].id)
<1>1. run[r] \in RunRecords /\ RunInv(r) /\ Holds(r, run[r].id) /\ run[r].id \in SessionIds
  BY DEF DurableInv, TypeOK, RunInv, RequestNamed, InFlight, Working, Holds
<1>2. disk[run[r].id] # Absent /\ run[r].session = disk[run[r].id]
  BY <1>1 DEF RunInv, OwnsFile
<1>3. disk[run[r].id] \in Stored /\ StoreTypeOK
  BY <1>1, <1>2 DEF DurableInv, TypeOK, StoreTypeOK
<1>4. disk[run[r].id].rev \in Nat /\ run[r].first \in Nat
  BY <1>1, <1>3 DEF Stored, RunRecords, Revisions
<1> QED BY <1>1, <1>2, <1>3, <1>4 DEF DurableInv

\* A later revision still leaves the committed requests behind.
LEMMA StillRemembered ==
  ASSUME DurableInv, NEW id \in SessionIds, Succeeds(id), committed' = committed, sent' = sent
  PROVE  Remembered(id)'
<1> SUFFICES ASSUME NEW q \in committed[id]
             PROVE  /\ q # None /\ sent[q] # None /\ sent[q].id = id
                    /\ disk'[id] # Absent /\ sent[q].expected < disk'[id].rev
  BY DEF Remembered
<1>1. /\ q # None /\ sent[q] # None /\ sent[q].id = id /\ q \in Requests
      /\ disk[id] # Absent /\ sent[q].expected < disk[id].rev
  BY DEF DurableInv, TypeOK, SessionInv, Remembered
<1>2. sent[q].expected \in Nat
  BY <1>1 DEF DurableInv, TypeOK, Revisions
<1>3. disk'[id] # Absent /\ disk'[id].rev = disk[id].rev + 1 /\ disk[id].rev \in Nat
  BY <1>1 DEF Succeeds, Stored, Revisions
<1> QED BY <1>1, <1>2, <1>3

\* The history is the same.
LEMMA SameHistory ==
  ASSUME DurableInv, NEW id, UNCHANGED <<effects, committed>>
  PROVE  HistoryOf(id)
BY DEF DurableInv, TypeOK, HistoryOf

\* A run adopts what it has written.
LEMMA AdoptResult ==
  ASSUME NEW c \in RunRecords, NEW s \in Stored
  PROVE  LET n == [c EXCEPT !.session = s, !.expected = s.rev] IN
         /\ n \in RunRecords /\ n.session = s /\ n.expected = s.rev
         /\ n.phase = c.phase /\ n.id = c.id /\ n.request = c.request /\ n.first = c.first
         /\ n.marker = c.marker /\ n.tools = c.tools
BY DEF RunRecords, Stored

\* CommitImages: the prepared session is replaced by its successor, and the
\* loop starts from that.
LEMMA LaunchWithImagesKeeps ==
  ASSUME DurableInv, NEW r \in Runs, LaunchWithImages(r)
  PROVE  DurableInv'
<1>0. run[r].id \in SessionIds
  BY WorkingFacts DEF LaunchWithImages, Working
<1> PICK id \in SessionIds : id = run[r].id
  BY <1>0
<1> DEFINE c == [run[r] EXCEPT !.phase = "running"]
           n == [c EXCEPT !.session = disk'[id], !.expected = disk'[id].rev]
<1>1. /\ run[r].phase = "prepared"
      /\ SaveExpected(id, run[r].expected, run[r].session.messages)
      /\ run' = [run EXCEPT ![r] = [c EXCEPT !.session = disk'[c.id], !.expected = disk'[c.id].rev]]
      /\ UNCHANGED <<durableActive, quarantine, sent, effects, committed>>
  <2>1. /\ run[r].phase = "prepared"
        /\ CanSave(disk[id], run[r].expected, None, None, run[r].session.messages)
        /\ Write(id, SaveTo(disk[id], None, run[r].session.messages, None))
        /\ UNCHANGED <<durableActive, quarantine, sent, effects, committed>>
    BY DEF LaunchWithImages
  <2>2. disk[id] # Absent
    BY <2>1, WorkingFacts DEF Working
  <2>3. MayCreate(id) /\ None \in ParentChoices(id)
    BY <2>2 DEF MayCreate, ParentChoices
  <2> QED BY <2>1, <2>3 DEF SaveExpected, LaunchWithImages, Adopts
<1>2. /\ run[r] \in RunRecords /\ id \in SessionIds /\ Holds(r, id) /\ disk[id] # Absent
      /\ disk[id] \in Stored /\ disk[id].rev \in Nat /\ run[r].session = disk[id]
      /\ run[r].first \in Nat /\ StoreTypeOK /\ RunInv(r)
  BY <1>1, WorkingFacts DEF Working
<1>3. Succeeds(id) /\ ~disk'[id].reconcile /\ ~disk[id].reconcile
  <2>1. run[r].session.messages \in Messages
    BY <1>2 DEF Stored
  <2> QED BY <1>1, <1>2, <2>1, SaveExpectedSucceeds
<1>4. /\ StoreTypeOK' /\ OthersKept(id) /\ disk'[id] \in Stored /\ disk'[id] # Absent
      /\ disk'[id].rev = disk[id].rev + 1
  BY <1>2, <1>3 DEF Succeeds
<1>5. /\ c \in RunRecords /\ c.phase = "running" /\ c.id = id /\ c.request = run[r].request
      /\ c.first = run[r].first /\ c.marker = run[r].marker /\ c.tools = run[r].tools
  BY <1>2, PhaseSet DEF Phases
<1> HIDE DEF c
<1>6. /\ n \in RunRecords /\ n.session = disk'[id] /\ n.expected = disk'[id].rev
      /\ n.phase = "running" /\ n.id = id /\ n.request = run[r].request
      /\ n.first = run[r].first /\ n.marker = run[r].marker /\ n.tools = run[r].tools
  BY <1>4, <1>5, AdoptResult
<1>7. run' = [run EXCEPT ![r] = n]
  BY <1>1, <1>5
<1> HIDE DEF n
<1>8. run'[r] = n
  BY <1>6, <1>7, RunReplaced DEF DurableInv
<1>9. effects[id] = {}
  BY <1>2, <1>3, UnguardedIsClean
<1>10. run[r].marker = None /\ run[r].tools = NewTools
  BY <1>1, <1>2 DEF RunInv, Fresh
<1>11. RequestNamed(r)' /\ Fresh(r)'
  BY <1>1, <1>2, <1>6, <1>8 DEF RunInv, RequestNamed, Fresh, InFlight
<1>12. OwnsFile(r)'
  <2>1. run[r].first <= disk[id].rev /\ run[r].request \notin committed[id]
    BY <1>1, <1>2 DEF RunInv, OwnsFile, Working
  <2>2. /\ run[r].first <= disk'[id].rev /\ run[r].request \notin committed'[id]
        /\ disk'[id] # Absent
    BY <1>1, <1>2, <1>4, <2>1
  <2>3. OwnsFile(r)' <=>
          (n.phase \in {"prepared", "running"} =>
             /\ disk'[n.id] # Absent /\ disk'[n.id] = n.session
             /\ n.expected = disk'[n.id].rev /\ n.first <= disk'[n.id].rev
             /\ n.request \notin committed'[n.id]
             /\ n.marker = None => ~disk'[n.id].reconcile
             /\ n.marker # None => /\ disk'[n.id].reconcile
                                   /\ disk'[n.id].interruption = n.marker
                                   /\ n.marker.run = r)
    BY <1>8 DEF OwnsFile, Working
  <2> QED BY <1>3, <1>6, <1>10, <2>2, <2>3
<1>13. Journals(r)'
  BY <1>1, <1>6, <1>8, <1>9, <1>10 DEF Journals, NewTools, Begun
<1>14. SessionInv(id)'
  <2>1. Guarded(id)'
    BY <1>1, <1>9 DEF Guarded
  <2>2. Remembered(id)'
    BY <1>1, <1>2, <1>3, StillRemembered
  <2> QED BY <2>1, <2>2 DEF SessionInv
<1> QED BY <1>1, <1>2, <1>4, <1>6, <1>7, <1>11, <1>12, <1>13, <1>14, SameHistory, StepInSession DEF RunInv

\* A call is journalled: the marker gains it before it may start.
LEMMA JournalKeeps ==
  ASSUME DurableInv, NEW r \in Runs, NEW t \in Tools, JournalToolExecution(r, t)
  PROVE  DurableInv'
<1>0. run[r].id \in SessionIds
  BY WorkingFacts DEF JournalToolExecution, Working
<1> PICK id \in SessionIds : id = run[r].id
  BY <1>0
<1> DEFINE next == [run |-> r, tools |-> Journaled(r) \cup {t}, by |-> "journal"]
           c == [run[r] EXCEPT !.marker = next, !.tools[t] = "journaled"]
           n == [c EXCEPT !.session = disk'[id], !.expected = disk'[id].rev]
<1>1. /\ run[r].phase = "running" /\ run[r].tools[t] = "new"
      /\ run' = [run EXCEPT ![r] = [c EXCEPT !.session = disk'[c.id], !.expected = disk'[c.id].rev]]
      /\ UNCHANGED <<durableActive, quarantine, sent, effects, committed>>
  BY DEF JournalToolExecution, Adopts
<1>2. /\ run[r] \in RunRecords /\ id \in SessionIds /\ Holds(r, id) /\ disk[id] # Absent
      /\ disk[id] \in Stored /\ disk[id].rev \in Nat /\ run[r].session = disk[id]
      /\ run[r].first \in Nat /\ StoreTypeOK /\ RunInv(r) /\ SessionInv(id)
  BY <1>1, WorkingFacts DEF Working
<1>3. next \in Markers /\ next # None /\ next.run = r /\ next.tools = Journaled(r) \cup {t}
  BY <1>2, StoreNullAssumption DEF Markers, Journaled, RunRecords
<1> HIDE DEF next
<1>4. Succeeds(id) /\ disk'[id].reconcile /\ disk'[id].interruption = next
  <2>1. CASE run[r].marker = None
    <3>1. /\ CanMarkInterrupted(disk[id], run[r].expected)
          /\ Write(id, MarkInterruptedTo(disk[id], next))
      BY <2>1 DEF JournalToolExecution, next
    <3> QED BY <1>2, <1>3, <3>1, MarkInterruptedSucceeds
  <2>2. CASE run[r].marker # None
    <3>1. /\ CanUpdateInterruptedRun(disk[id], run[r].expected, run[r].marker, next)
          /\ Write(id, UpdateInterruptedRunTo(disk[id], next))
      BY <2>2 DEF JournalToolExecution, next
    <3>2. ASSUME NEW e, NEW m, CanUpdateInterruptedRun(disk[id], e, m, next)
          PROVE  Succeeds(id) /\ disk'[id].reconcile /\ disk'[id].interruption = next
      BY <1>2, <1>3, <3>1, <3>2, UpdateInterruptedSucceeds
    <3> QED BY <3>1, <3>2
  <2> QED BY <2>1, <2>2
<1>5. /\ StoreTypeOK' /\ OthersKept(id) /\ disk'[id] \in Stored /\ disk'[id] # Absent
      /\ disk'[id].rev = disk[id].rev + 1
  BY <1>2, <1>4 DEF Succeeds
<1>6. /\ c \in RunRecords /\ c.phase = "running" /\ c.id = id /\ c.request = run[r].request
      /\ c.first = run[r].first /\ c.marker = next
      /\ c.tools = [run[r].tools EXCEPT ![t] = "journaled"]
  BY <1>1, <1>2, <1>3 DEF RunRecords, ToolStates
<1> HIDE DEF c
<1>7. /\ n \in RunRecords /\ n.session = disk'[id] /\ n.expected = disk'[id].rev
      /\ n.phase = "running" /\ n.id = id /\ n.request = run[r].request
      /\ n.first = run[r].first /\ n.marker = next
      /\ n.tools = [run[r].tools EXCEPT ![t] = "journaled"]
  BY <1>5, <1>6, AdoptResult
<1>8. run' = [run EXCEPT ![r] = n]
  BY <1>1, <1>6
<1> HIDE DEF n
<1>9. run'[r] = n
  BY <1>7, <1>8, RunReplaced DEF DurableInv
<1>10. RequestNamed(r)' /\ Fresh(r)'
  BY <1>1, <1>2, <1>7, <1>9 DEF RunInv, RequestNamed, Fresh, InFlight
<1>11. OwnsFile(r)'
  <2>1. run[r].first <= disk[id].rev /\ run[r].request \notin committed[id]
    BY <1>1, <1>2 DEF RunInv, OwnsFile, Working
  <2>2. /\ run[r].first <= disk'[id].rev /\ run[r].request \notin committed'[id]
        /\ disk'[id] # Absent
    BY <1>1, <1>2, <1>5, <2>1
  <2>3. OwnsFile(r)' <=>
          (n.phase \in {"prepared", "running"} =>
             /\ disk'[n.id] # Absent /\ disk'[n.id] = n.session
             /\ n.expected = disk'[n.id].rev /\ n.first <= disk'[n.id].rev
             /\ n.request \notin committed'[n.id]
             /\ n.marker = None => ~disk'[n.id].reconcile
             /\ n.marker # None => /\ disk'[n.id].reconcile
                                   /\ disk'[n.id].interruption = n.marker
                                   /\ n.marker.run = r)
    BY <1>9 DEF OwnsFile, Working
  <2> QED BY <1>3, <1>4, <1>7, <2>2, <2>3
<1>12. Journals(r)'
  <2>1. \A u \in Tools : u # t => n.tools[u] = run[r].tools[u]
    BY <1>2, <1>7 DEF RunRecords
  <2>2. n.tools[t] = "journaled"
    BY <1>2, <1>7 DEF RunRecords
  <2>3. \A u \in Tools : n.tools[u] \in Begun \cup {"journaled"} => u \in next.tools
    BY <1>1, <1>2, <1>3, <2>1 DEF RunInv, Journals, Working
  <2>4. \A u \in Tools : <<r, u>> \in effects[id] => n.tools[u] \in Begun
    BY <1>1, <1>2, <2>1 DEF RunInv, Journals, Working, Begun
  <2> QED BY <1>1, <1>3, <1>7, <1>9, <2>3, <2>4 DEF Journals, Journaled
<1>13. SessionInv(id)'
  <2>1. Guarded(id)'
    <3> SUFFICES ASSUME NEW e \in effects[id] PROVE e[1] = r /\ e[2] \in Journaled(r)
      BY <1>1, <1>3, <1>4, <1>5 DEF Guarded
    <3>1. /\ disk[id].reconcile /\ disk[id].interruption.run = e[1]
          /\ e[2] \in disk[id].interruption.tools
      BY <1>2 DEF SessionInv, Guarded
    <3>2. disk[id].interruption = run[r].marker /\ run[r].marker # None /\ run[r].marker.run = r
      BY <1>1, <1>2, <3>1 DEF RunInv, OwnsFile, Working
    <3> QED BY <3>1, <3>2 DEF Journaled
  <2>2. Remembered(id)'
    BY <1>1, <1>2, <1>4, StillRemembered
  <2> QED BY <2>1, <2>2 DEF SessionInv
<1> QED BY <1>1, <1>2, <1>5, <1>7, <1>8, <1>10, <1>11, <1>12, <1>13, SameHistory, StepInSession DEF RunInv

-----------------------------------------------------------------------------
(* The tools of a batch.                                                   *)

\* The state of one call changes.
LEMMA ToolSet ==
  ASSUME NEW q \in RunRecords, NEW t \in Tools, NEW to \in ToolStates
  PROVE  LET n == [q EXCEPT !.tools[t] = to] IN
         /\ n \in RunRecords /\ n.phase = q.phase
         /\ n.id = q.id /\ n.request = q.request /\ n.first = q.first /\ n.session = q.session
         /\ n.expected = q.expected /\ n.marker = q.marker
         /\ n.tools[t] = to /\ \A u \in Tools : u # t => n.tools[u] = q.tools[u]
BY DEF RunRecords

\* Further fields of a run that no invariant names.
LEMMA AmbiguousSet ==
  ASSUME NEW q \in RunRecords, NEW ambiguous \in BOOLEAN
  PROVE  LET n == [q EXCEPT !.ambiguous = ambiguous] IN
         /\ n \in RunRecords /\ n.phase = q.phase
         /\ n.id = q.id /\ n.request = q.request /\ n.first = q.first /\ n.session = q.session
         /\ n.expected = q.expected /\ n.marker = q.marker /\ n.tools = q.tools
BY DEF RunRecords

\* A running run that keeps all but its calls keeps what is said of its request
\* and of its file.
LEMMA ToolStepOwns ==
  ASSUME DurableInv, NEW r \in Runs, run[r].phase = "running", NEW n, run'[r] = n,
         UNCHANGED <<storeVars, sent, committed>>,
         n.phase = "running", n.id = run[r].id, n.request = run[r].request,
         n.first = run[r].first, n.session = run[r].session, n.expected = run[r].expected,
         n.marker = run[r].marker
  PROVE  RequestNamed(r)' /\ Fresh(r)' /\ OwnsFile(r)'
<1>1. RunInv(r)
  BY DEF DurableInv
<1>2. RequestNamed(r)' /\ Fresh(r)'
  BY <1>1 DEF RunInv, RequestNamed, Fresh, InFlight
<1>3. OwnsFile(r)'
  BY <1>1 DEF RunInv, OwnsFile, Working, storeVars
<1> QED BY <1>2, <1>3

\* A call moves on without a start: never from begun to not begun, and into
\* the journalled states only from one of them.
LEMMA SetToolKeeps ==
  ASSUME DurableInv, NEW r \in Runs, NEW t \in Tools, NEW from, NEW to \in ToolStates,
         SetTool(r, t, from, to),
         to \in Begun \cup {"journaled"} => from \in Begun,
         from \in Begun => to \in Begun
  PROVE  DurableInv'
<1> DEFINE n == [run[r] EXCEPT !.tools[t] = to]
<1>1. /\ run[r].phase = "running" /\ run[r].tools[t] = from /\ run' = [run EXCEPT ![r] = n]
      /\ UNCHANGED <<storeVars, durableActive, quarantine, sent, effects, committed>>
  BY DEF SetTool
<1>2. run[r] \in RunRecords /\ RunInv(r) /\ Holds(r, run[r].id)
  BY <1>1, WorkingFacts DEF Working
<1>3. /\ n \in RunRecords /\ n.phase = "running"
      /\ n.id = run[r].id /\ n.request = run[r].request /\ n.first = run[r].first
      /\ n.session = run[r].session /\ n.expected = run[r].expected /\ n.marker = run[r].marker
      /\ n.tools[t] = to /\ \A u \in Tools : u # t => n.tools[u] = run[r].tools[u]
  BY <1>1, <1>2, ToolSet
<1> HIDE DEF n
<1>4. run'[r] = n
  BY <1>1, <1>3, RunReplaced DEF DurableInv
<1>5. RequestNamed(r)' /\ Fresh(r)' /\ OwnsFile(r)'
  BY <1>1, <1>3, <1>4, ToolStepOwns
<1>6. Journals(r)'
  <2>1. \A u \in Tools : /\ run[r].tools[u] \in Begun \cup {"journaled"} => u \in Journaled(r)
                         /\ <<r, u>> \in effects[run[r].id] => run[r].tools[u] \in Begun
    BY <1>1, <1>2 DEF RunInv, Journals, Working
  <2>2. \A u \in Tools : /\ n.tools[u] \in Begun \cup {"journaled"} => u \in Journaled(r)
                         /\ <<r, u>> \in effects[run[r].id] => n.tools[u] \in Begun
    BY <1>1, <1>3, <2>1
  <2> QED BY <1>1, <1>3, <1>4, <2>2 DEF Journals, Journaled
<1> QED BY <1>1, <1>2, <1>3, <1>5, <1>6, StepWithin DEF RunInv

\* A call starts: the marker on disk already names it.
LEMMA StartKeeps ==
  ASSUME DurableInv, NEW r \in Runs, NEW t \in Tools, StartTool(r, t)
  PROVE  DurableInv'
<1>0. run[r].id \in SessionIds
  BY WorkingFacts DEF StartTool, Working
<1> PICK id \in SessionIds : id = run[r].id
  BY <1>0
<1>1. PICK ambiguous \in BOOLEAN :
        run' = [run EXCEPT ![r].tools[t] = "started", ![r].ambiguous = ambiguous]
  BY WorkingFacts DEF StartTool, RunRecords, Working
<1> DEFINE c == [run[r] EXCEPT !.tools[t] = "started"]
           n == [c EXCEPT !.ambiguous = ambiguous]
<1>2. /\ run[r].phase = "running" /\ run[r].tools[t] = "journaled"
      /\ effects' = [effects EXCEPT ![id] = effects[id] \cup {<<r, t>>}]
      /\ UNCHANGED <<storeVars, durableActive, quarantine, sent, committed>>
  BY DEF StartTool, StartState
<1>3. /\ run[r] \in RunRecords /\ RunInv(r) /\ Holds(r, id) /\ SessionInv(id) /\ StoreTypeOK
      /\ disk[id] # Absent
  BY <1>2, WorkingFacts DEF Working
<1>4. /\ c \in RunRecords /\ c.phase = "running"
      /\ c.id = run[r].id /\ c.request = run[r].request /\ c.first = run[r].first
      /\ c.session = run[r].session /\ c.expected = run[r].expected /\ c.marker = run[r].marker
      /\ c.tools[t] = "started" /\ \A u \in Tools : u # t => c.tools[u] = run[r].tools[u]
  <2>1. "started" \in ToolStates
    BY DEF ToolStates
  <2> HIDE DEF c
  <2>2. c \in RunRecords /\ c.phase = run[r].phase
        /\ c.id = run[r].id /\ c.request = run[r].request /\ c.first = run[r].first
        /\ c.session = run[r].session /\ c.expected = run[r].expected
        /\ c.marker = run[r].marker
        /\ c.tools[t] = "started" /\ \A u \in Tools : u # t => c.tools[u] = run[r].tools[u]
    BY <1>3, <2>1, ToolSet DEF c
  <2> QED BY <1>2, <2>2
<1>5. run' = [run EXCEPT ![r] = n]
  BY <1>1, <1>3 DEF DurableInv, TypeOK
<1> HIDE DEF c
<1>6. /\ n \in RunRecords /\ n.phase = "running"
      /\ n.id = run[r].id /\ n.request = run[r].request /\ n.first = run[r].first
      /\ n.session = run[r].session /\ n.expected = run[r].expected /\ n.marker = run[r].marker
      /\ n.tools = c.tools
  BY <1>4, AmbiguousSet
<1> HIDE DEF n
<1>7. run'[r] = n
  BY <1>5, <1>6, RunReplaced DEF DurableInv
<1>8. RequestNamed(r)' /\ Fresh(r)' /\ OwnsFile(r)'
  BY <1>2, <1>6, <1>7, ToolStepOwns
<1>9. \A u \in Tools : /\ run[r].tools[u] \in Begun \cup {"journaled"} => u \in Journaled(r)
                       /\ <<r, u>> \in effects[id] => run[r].tools[u] \in Begun
  BY <1>2, <1>3 DEF RunInv, Journals, Working
<1>10. effects'[id] = effects[id] \cup {<<r, t>>} /\ HistoryOf(id)
  BY <1>2 DEF DurableInv, TypeOK, HistoryOf
<1>11. Journals(r)'
  <2>1. \A u \in Tools : n.tools[u] \in Begun \cup {"journaled"} => u \in Journaled(r)
    BY <1>2, <1>4, <1>6, <1>9
  <2>2. \A u \in Tools : <<r, u>> \in effects'[id] => n.tools[u] \in Begun
    BY <1>4, <1>6, <1>9, <1>10 DEF Begun
  <2> QED BY <1>6, <1>7, <2>1, <2>2 DEF Journals, Journaled
<1>12. Guarded(id)'
  <2>1. t \in Journaled(r)
    BY <1>2, <1>9
  <2>2. run[r].marker # None /\ t \in run[r].marker.tools
    BY <2>1 DEF Journaled
  <2>3. /\ disk[id].reconcile /\ disk[id].interruption.run = r
        /\ t \in disk[id].interruption.tools
    BY <1>2, <1>3, <2>2 DEF RunInv, OwnsFile, Working
  <2>4. disk' = disk
    BY <1>2 DEF storeVars
  <2>5. \A e \in effects[id] : /\ disk[id].interruption.run = e[1]
                               /\ e[2] \in disk[id].interruption.tools
    BY <1>3 DEF SessionInv, Guarded
  <2> QED BY <1>3, <1>10, <2>3, <2>4, <2>5 DEF Guarded
<1>13. Remembered(id)'
  BY <1>2, <1>3 DEF SessionInv, Remembered, storeVars
<1>14. StoreTypeOK' /\ OthersKept(id)
  BY <1>2, <1>3 DEF StoreTypeOK, OthersKept, storeVars
<1> QED BY <1>2, <1>3, <1>5, <1>6, <1>8, <1>10, <1>11, <1>12, <1>13, <1>14, StepInSession
        DEF RunInv, SessionInv

\* Every step of a batch.
LEMMA ToolStepKeeps ==
  ASSUME DurableInv, NEW r \in Runs, ToolStep(r)
  PROVE  DurableInv'
<1> PICK t \in Tools : \/ JournalToolExecution(r, t) \/ JournalFails(r, t)
                      \/ DenyAfterJournal(r, t) \/ StartTool(r, t)
                      \/ ToolReturns(r, t) \/ ReportTool(r, t)
  BY DEF ToolStep
<1>1. CASE JournalFails(r, t)
  BY <1>1, SetToolKeeps DEF JournalFails, ToolStates, Begun
<1>2. CASE DenyAfterJournal(r, t)
  BY <1>2, SetToolKeeps DEF DenyAfterJournal, ToolStates, Begun
<1>3. CASE ToolReturns(r, t)
  BY <1>3, SetToolKeeps DEF ToolReturns, ToolStates, Begun
<1>4. CASE ReportTool(r, t)
  BY <1>4, SetToolKeeps DEF ReportTool, ToolStates, Begun
<1> QED BY <1>1, <1>2, <1>3, <1>4, JournalKeeps, StartKeeps

-----------------------------------------------------------------------------
(* Finalize.                                                               *)

\* The effects that wait in the session of a working run are its own, of calls
\* that have begun.
LEMMA EffectsAreOwn ==
  ASSUME DurableInv, NEW r \in Runs, Working(r), NEW e \in effects[run[r].id]
  PROVE  /\ run[r].marker # None /\ e[1] = r /\ e[2] \in Tools /\ e = <<r, e[2]>>
         /\ run[r].tools[e[2]] \in Begun
<1>1. RunInv(r) /\ SessionInv(run[r].id) /\ run[r].id \in SessionIds
  BY WorkingFacts
<1>2. disk[run[r].id].reconcile /\ disk[run[r].id].interruption.run = e[1]
  BY <1>1 DEF SessionInv, Guarded
<1>3. run[r].marker # None /\ e[1] = r
  BY <1>1, <1>2 DEF RunInv, OwnsFile
<1>4. e \in Runs \X Tools
  BY <1>1 DEF DurableInv, TypeOK
<1>5. e[2] \in Tools /\ e = <<r, e[2]>>
  BY <1>3, <1>4
<1>6. run[r].tools[e[2]] \in Begun
  BY <1>1, <1>5 DEF RunInv, Journals
<1> QED BY <1>3, <1>5, <1>6

\* A run whose calls have begun has a marker, and its session a guard.
LEMMA BegunIsMarked ==
  ASSUME DurableInv, NEW r \in Runs, Working(r), ToolsBegun(r) # {}
  PROVE  run[r].marker # None /\ disk[run[r].id].reconcile /\ run[r].session.reconcile
<1>1. RunInv(r) /\ run[r].session = disk[run[r].id]
  BY WorkingFacts
<1>2. PICK t \in Tools : run[r].tools[t] \in Begun
  BY DEF ToolsBegun, ToolsIn, Begun
<1>3. t \in Journaled(r)
  BY <1>1, <1>2 DEF RunInv, Journals
<1>4. run[r].marker # None
  BY <1>3 DEF Journaled
<1> QED BY <1>1, <1>4 DEF RunInv, OwnsFile

\* The commit: the transcript replaces the marker, and the effects of the run
\* are part of it.
LEMMA CommitKeeps ==
  ASSUME DurableInv, NEW r \in Runs, NEW n \in Messages, FinalizeCommit(r, n)
  PROVE  DurableInv'
<1>0. Working(r)
  BY DEF FinalizeCommit, AtDone, Working
<1> PICK id \in SessionIds : id = run[r].id
  BY <1>0, WorkingFacts
<1> DEFINE q == SaveTo(disk[id], RunReceipt(r), n, None)
<1>1. /\ CanSave(disk[id], run[r].expected, run[r].marker, RunReceipt(r), n)
      /\ Write(id, q)
      /\ effects' = [effects EXCEPT ![id] = {e \in effects[id] : e[1] # r}]
      /\ committed' = [committed EXCEPT ![id] = committed[id] \cup ({run[r].request} \ {None})]
      /\ Release(r) /\ quarantine' = quarantine
  BY DEF FinalizeCommit
<1>2. /\ run[r] \in RunRecords /\ Holds(r, id) /\ disk[id] # Absent
      /\ disk[id] \in Stored /\ disk[id].rev \in Nat /\ run[r].session = disk[id]
      /\ run[r].first \in Nat /\ StoreTypeOK /\ RunInv(r) /\ SessionInv(id)
  BY <1>0, WorkingFacts
<1>3. RunReceipt(r) \in NewReceipts \cup {None}
  BY <1>2 DEF RunReceipt, NewReceipts, RunRecords, Stored
<1>4. /\ q \in Stored /\ q.rev = disk[id].rev + 1 /\ ~q.reconcile /\ Loadable(q)
  <2>1. q \in Stored /\ q.rev = NextRevision(disk[id]) /\ ~q.reconcile
    BY <1>1, <1>2, <1>3, SaveResult
  <2>2. Loadable(q)
    BY <1>1, <1>2, <1>3, SaveLoads
  <2> QED BY <1>2, <2>1, <2>2 DEF NextRevision
<1> HIDE DEF q
<1>5. Succeeds(id) /\ disk'[id] = q
  BY <1>1, <1>2, <1>4, SuccessorSucceeds
<1>6. StoreTypeOK' /\ OthersKept(id) /\ disk'[id] # Absent /\ disk'[id].rev = disk[id].rev + 1
  BY <1>2, <1>5 DEF Succeeds
<1>7. {e \in effects[id] : e[1] # r} = {}
  BY <1>0, EffectsAreOwn
<1>8. effects'[id] = {} /\ HistoryOf(id)
  <2>1. committed[id] \cup ({run[r].request} \ {None}) \subseteq Requests
    BY <1>2 DEF DurableInv, TypeOK, RunRecords
  <2>2. effects' \in [SessionIds -> SUBSET (Runs \X Tools)] /\ effects'[id] = {}
        /\ \A x \in SessionIds : x # id => effects'[x] = effects[x]
    BY <1>1, <1>7 DEF DurableInv, TypeOK
  <2>3. committed' \in [SessionIds -> SUBSET Requests]
        /\ \A x \in SessionIds : x # id => committed'[x] = committed[x]
    BY <1>1, <2>1 DEF DurableInv, TypeOK
  <2> QED BY <2>2, <2>3 DEF HistoryOf
<1>9. Guarded(id)'
  BY <1>8 DEF Guarded
<1>10. Remembered(id)'
  <2>1. committed'[id] = committed[id] \cup ({run[r].request} \ {None}) /\ sent' = sent
    BY <1>1 DEF DurableInv, TypeOK, Release
  <2>2. ASSUME NEW p \in committed[id]
        PROVE  /\ p # None /\ sent[p] # None /\ sent[p].id = id /\ sent[p].expected < disk'[id].rev
    <3>1. /\ p # None /\ sent[p] # None /\ sent[p].id = id /\ p \in Requests
          /\ sent[p].expected < disk[id].rev
      BY <1>2 DEF DurableInv, TypeOK, SessionInv, Remembered
    <3>2. sent[p].expected \in Nat
      BY <3>1 DEF DurableInv, TypeOK, Revisions
    <3> QED BY <1>2, <1>6, <3>1, <3>2
  <2>3. ASSUME run[r].request # None
        PROVE  LET p == run[r].request IN
               sent[p] # None /\ sent[p].id = id /\ sent[p].expected < disk'[id].rev
    <3>1. sent[run[r].request] = [id |-> id, expected |-> run[r].first]
      BY <1>0, <1>2, <2>3 DEF RunInv, RequestNamed, InFlight, Working
    <3>2. run[r].first <= disk[id].rev /\ run[r].first \in Revisions
      BY <1>0, <1>2 DEF RunInv, OwnsFile, RunRecords
    <3>3. sent[run[r].request] # None
      BY <3>1, <3>2, RunNullAssumption
    <3>4. sent[run[r].request].id = id /\ sent[run[r].request].expected = run[r].first
      BY <3>1
    <3> QED BY <1>2, <1>6, <3>2, <3>3, <3>4
  <2> QED BY <1>6, <2>1, <2>2, <2>3 DEF Remembered
<1> QED BY <1>1, <1>2, <1>6, <1>8, <1>9, <1>10, StepAndRelease DEF SessionInv, DurableInv

\* A blocked run leaves the guard, with every call that has begun.
LEMMA ReconcileMarkKeeps ==
  ASSUME DurableInv, NEW r \in Runs, FinalizeReconcile(r)
  PROVE  DurableInv'
<1>0. Working(r) /\ ToolsBegun(r) # {}
  BY DEF FinalizeReconcile, AtDone, Working
<1> PICK id \in SessionIds : id = run[r].id
  BY <1>0, WorkingFacts
<1> DEFINE next == [run |-> r, tools |-> ToolsBegun(r), by |-> "terminal"]
<1>1. /\ CanUpdateInterruptedRun(disk[id], run[r].expected, run[r].marker, next)
      /\ Write(id, UpdateInterruptedRunTo(disk[id], next))
      /\ Release(r) /\ UNCHANGED <<quarantine, effects, committed>>
  BY <1>0, BegunIsMarked DEF FinalizeReconcile
<1>2. Holds(r, id) /\ StoreTypeOK /\ disk[id] # Absent
  BY <1>0, WorkingFacts
<1>3. next \in Markers /\ next.run = r /\ next.tools = ToolsBegun(r)
  BY DEF Markers, ToolsBegun, ToolsIn
<1> HIDE DEF next
<1>4. Succeeds(id) /\ disk'[id].reconcile /\ disk'[id].interruption = next
  <2>1. ASSUME NEW e, NEW m, CanUpdateInterruptedRun(disk[id], e, m, next)
        PROVE  Succeeds(id) /\ disk'[id].reconcile /\ disk'[id].interruption = next
    BY <1>1, <1>2, <1>3, <2>1, UpdateInterruptedSucceeds
  <2> QED BY <1>1, <2>1
<1>5. StoreTypeOK' /\ OthersKept(id) /\ disk'[id] # Absent
  BY <1>4 DEF Succeeds
<1>6. Guarded(id)'
  <2>1. \A e \in effects[id] : e[1] = r /\ e[2] \in ToolsBegun(r)
    BY <1>0, EffectsAreOwn DEF ToolsBegun, ToolsIn, Begun
  <2> QED BY <1>1, <1>3, <1>4, <1>5, <2>1 DEF Guarded
<1>7. Remembered(id)'
  BY <1>1, <1>4, StillRemembered DEF Release
<1> QED BY <1>1, <1>2, <1>5, <1>6, <1>7, SameHistory, StepAndRelease DEF SessionInv, DurableInv

\* Nothing is written; whatever has begun is already guarded on disk, so the
\* quarantine is not needed.
LEMMA FailsKeeps ==
  ASSUME DurableInv, NEW r \in Runs, FinalizeFails(r)
  PROVE  DurableInv'
<1>0. Working(r)
  BY DEF FinalizeFails, AtDone, Working
<1> PICK id \in SessionIds : id = run[r].id
  BY <1>0, WorkingFacts
<1>1. Release(r) /\ UNCHANGED <<storeVars, effects, committed>> /\ sent' = sent
  BY DEF FinalizeFails, Release
<1>2. Holds(r, id) /\ StoreTypeOK /\ SessionInv(id)
  BY <1>0, WorkingFacts
<1>3. quarantine' = {}
  BY <1>0, BegunIsMarked DEF FinalizeFails, DurableInv
<1>4. StoreTypeOK' /\ OthersKept(id)
  BY <1>1, <1>2 DEF StoreTypeOK, OthersKept, storeVars
<1>5. SessionInv(id)'
  BY <1>1, <1>2 DEF SessionInv, Guarded, Remembered, storeVars
<1> QED BY <1>1, <1>2, <1>3, <1>4, <1>5, SameHistory, StepAndRelease

-----------------------------------------------------------------------------
(* The process and the other callers.                                      *)

\* A crash ends every run; the guards are on disk.
LEMMA CrashKeeps ==
  ASSUME DurableInv, Crash
  PROVE  DurableInv'
<1>1. /\ durableActive' = {} /\ quarantine' = {}
      /\ UNCHANGED <<storeVars, sent, effects, committed>>
      /\ run' = [r \in Runs |-> IF run[r].phase = "idle" THEN Idle ELSE Ended]
  BY DEF Crash
<1>2. \A r \in Runs : run'[r] \in RunRecords /\ run'[r].phase \in {"idle", "ended"}
  BY <1>1, IdleAndEnded
<1>3. TypeOK'
  BY <1>1, IdleAndEnded DEF DurableInv, TypeOK, StoreTypeOK, storeVars
<1>4. OneOwner'
  BY <1>2 DEF OneOwner, Holds
<1>5. \A r \in Runs : RunInv(r)'
  BY <1>2, EndedIsFree
<1>6. \A id \in SessionIds : SessionInv(id)'
  BY <1>1 DEF DurableInv, SessionInv, Guarded, Remembered, storeVars
<1> QED BY <1>1, <1>3, <1>4, <1>5, <1>6 DEF DurableInv

\* Another caller gets at a session only while no run holds it.
LEMMA StepOfClient ==
  ASSUME DurableInv, NEW id \in SessionIds, GateOpen(id), UNCHANGED runVars,
         StoreTypeOK', OthersKept(id), HistoryOf(id), SessionInv(id)'
  PROVE  DurableInv'
<1>1. UNCHANGED <<durableActive, quarantine, run, sent>>
  BY DEF runVars
<1>2. TypeOK'
  BY <1>1 DEF DurableInv, TypeOK, HistoryOf
<1>3. OneOwner'
  BY <1>1 DEF DurableInv, OneOwner, Holds
<1>4. ASSUME NEW r \in Runs PROVE RunInv(r)'
  <2>1. RunInv(r)
    BY DEF DurableInv
  <2>2. Working(r) => /\ disk'[run[r].id] = disk[run[r].id]
                      /\ effects'[run[r].id] = effects[run[r].id]
                      /\ committed'[run[r].id] = committed[run[r].id]
    <3> SUFFICES ASSUME Working(r) PROVE run[r].id \in SessionIds /\ run[r].id # id
      BY DEF OthersKept, HistoryOf
    <3>1. run[r].id \in SessionIds /\ Holds(r, run[r].id)
      BY WorkingFacts
    <3>2. run[r].id \in durableActive
      BY <3>1 DEF DurableInv, OneOwner
    <3> QED BY <3>1, <3>2 DEF GateOpen
  <2>3. RequestNamed(r)' /\ Fresh(r)'
    BY <1>1, <2>1 DEF RunInv, RequestNamed, Fresh, InFlight
  <2>4. OwnsFile(r)'
    BY <1>1, <2>1, <2>2 DEF RunInv, OwnsFile, Working
  <2>5. Journals(r)'
    BY <1>1, <2>1, <2>2 DEF RunInv, Journals, Working, Journaled
  <2> QED BY <2>3, <2>4, <2>5 DEF RunInv
<1>5. ASSUME NEW x \in SessionIds PROVE SessionInv(x)'
  <2>1. CASE x # id
    BY <1>1, <2>1 DEF DurableInv, OthersKept, HistoryOf, SessionInv, Guarded, Remembered
  <2> QED BY <2>1
<1> QED BY <1>1, <1>2, <1>3, <1>4, <1>5 DEF DurableInv

\* A caller that writes a successor to a session without a guard, or that lifts
\* the guard and with it the pending effects.
LEMMA ClientWrites ==
  ASSUME DurableInv, NEW id \in SessionIds, GateOpen(id), UNCHANGED runVars, Succeeds(id),
         HistoryOf(id), effects'[id] = {}, committed' = committed
  PROVE  DurableInv'
<1>1. StoreTypeOK' /\ OthersKept(id)
  BY DEF Succeeds
<1>2. Guarded(id)'
  BY DEF Guarded
<1>3. Remembered(id)'
  BY StillRemembered DEF runVars
<1> QED BY <1>1, <1>2, <1>3, StepOfClient DEF SessionInv

\* Every other caller.
LEMMA ClientStepKeeps ==
  ASSUME DurableInv, ClientStep
  PROVE  DurableInv'
<1>0. StoreTypeOK
  BY DEF DurableInv, TypeOK
<1>1. ASSUME NEW id \in SessionIds, NEW n \in Messages, ClientSave(id, n)
      PROVE  DurableInv'
  <2>1. /\ GateOpen(id) /\ UNCHANGED <<runVars, effects, committed>>
        /\ SaveExpected(id, IF disk[id] = Absent THEN 0 ELSE disk[id].rev, n)
    BY <1>1 DEF ClientSave
  <2>2. Succeeds(id) /\ (disk[id] # Absent => ~disk[id].reconcile)
    BY <1>0, <2>1, SaveExpectedSucceeds
  <2>3. effects[id] = {}
    BY <2>2, UnguardedIsClean
  <2> QED BY <2>1, <2>2, <2>3, SameHistory, ClientWrites
<1>2. ASSUME NEW id \in SessionIds, ClientInterrupt(id)
      PROVE  DurableInv'
  <2> DEFINE marker == [run |-> ManualRun, tools |-> {}, by |-> "manual"]
  <2>1. /\ GateOpen(id) /\ UNCHANGED <<runVars, effects, committed>>
        /\ CanMarkInterrupted(disk[id], disk[id].rev)
        /\ Write(id, MarkInterruptedTo(disk[id], marker))
    BY <1>2 DEF ClientInterrupt, Interrupt
  <2>2. marker \in Markers
    BY DEF Markers
  <2> HIDE DEF marker
  <2>3. Succeeds(id) /\ ~disk[id].reconcile
    BY <1>0, <2>1, <2>2, MarkInterruptedSucceeds
  <2>4. effects[id] = {}
    BY <2>3, UnguardedIsClean
  <2> QED BY <2>1, <2>3, <2>4, SameHistory, ClientWrites
<1>3. ASSUME NEW id \in SessionIds, ClientClose(id)
      PROVE  DurableInv'
  <2>1. GateOpen(id) /\ UNCHANGED <<runVars, effects, committed>> /\ Close(id, disk[id].rev)
    BY <1>3 DEF ClientClose
  <2>2. Succeeds(id) /\ ~disk[id].reconcile
    BY <1>0, <2>1, CloseSucceeds
  <2>3. effects[id] = {}
    BY <2>2, UnguardedIsClean
  <2> QED BY <2>1, <2>2, <2>3, SameHistory, ClientWrites
<1>4. ASSUME NEW id \in SessionIds, ClientReconcile(id)
      PROVE  DurableInv'
  <2>1. /\ GateOpen(id) /\ UNCHANGED <<runVars, committed>>
        /\ Reconcile(id, disk[id].rev, Assess(disk[id]))
        /\ effects' = [effects EXCEPT ![id] = {}]
    BY <1>4 DEF ClientReconcile
  <2>2. Succeeds(id)
    BY <1>0, <2>1, ReconcileSucceeds
  <2>3. effects'[id] = {} /\ HistoryOf(id)
    BY <2>1 DEF DurableInv, TypeOK, HistoryOf
  <2> QED BY <2>1, <2>2, <2>3, ClientWrites
<1>5. ASSUME NEW id \in SessionIds, ClientDelete(id)
      PROVE  DurableInv'
  <2>1. /\ GateOpen(id) /\ UNCHANGED runVars /\ Delete(id, disk[id].rev)
        /\ effects' = [effects EXCEPT ![id] = {}] /\ committed' = [committed EXCEPT ![id] = {}]
    BY <1>5 DEF ClientDelete
  <2>2. StoreTypeOK' /\ OthersKept(id)
    BY <1>0, <2>1, DeleteRemoves
  <2>3. effects'[id] = {} /\ committed'[id] = {} /\ HistoryOf(id)
    BY <2>1 DEF DurableInv, TypeOK, HistoryOf
  <2>4. SessionInv(id)'
    BY <2>3 DEF SessionInv, Guarded, Remembered
  <2> QED BY <2>1, <2>2, <2>3, <2>4, StepOfClient
<1> QED BY <1>1, <1>2, <1>3, <1>4, <1>5 DEF ClientStep

-----------------------------------------------------------------------------
\* Every step keeps the invariant.
LEMMA DurableStep == DurableInv /\ [Next]_vars => DurableInv'
<1> SUFFICES ASSUME DurableInv, [Next]_vars PROVE DurableInv'
  OBVIOUS
<1>1. ASSUME NEW r \in Runs, SetupStep(r) PROVE DurableInv'
  BY <1>1, EnterKeeps, ClosedKeeps, PrepareKeeps, SetupFailsKeeps, LaunchKeeps, LaunchWithImagesKeeps
     DEF SetupStep
<1>2. ASSUME NEW r \in Runs, FinalStep(r) PROVE DurableInv'
  BY <1>2, CommitKeeps, ReconcileMarkKeeps, FailsKeeps DEF FinalStep
<1>3. CASE UNCHANGED vars
  <2>1. /\ disk' = disk /\ workspace' = workspace /\ created' = created
        /\ durableActive' = durableActive /\ quarantine' = quarantine /\ run' = run
        /\ sent' = sent /\ effects' = effects /\ committed' = committed
    BY <1>3 DEF vars, storeVars, runVars
  <2>2. TypeOK' /\ OneOwner' /\ quarantine' = {}
    BY <2>1 DEF DurableInv, TypeOK, StoreTypeOK, OneOwner, Holds
  <2>3. \A r \in Runs : RunInv(r)'
    BY <2>1 DEF DurableInv, RunInv, RequestNamed, Fresh, OwnsFile, Journals, InFlight, Working,
               Journaled
  <2>4. \A id \in SessionIds : SessionInv(id)'
    BY <2>1 DEF DurableInv, SessionInv, Guarded, Remembered
  <2> QED BY <2>2, <2>3, <2>4 DEF DurableInv
<1> QED BY <1>1, <1>2, <1>3, SendKeeps, ToolStepKeeps, ClientStepKeeps, CrashKeeps DEF Next

\* A server starts without runs; what the store holds from before has no guard.
LEMMA DurableInit == Init => DurableInv
<1> SUFFICES ASSUME Init PROVE DurableInv
  OBVIOUS
<1>1. TypeOK
  <2>1. \A n \in Messages : LegacySession(n) \in Stored
    BY StoreAssumption DEF LegacySession, Stored, Lifecycles, Revisions, CurrentVersion
  <2>2. disk \in [SessionIds -> Stored \cup {Absent}]
    BY <2>1 DEF Init, StoreInit
  <2>3. created \in [SessionIds -> 0 .. MaxIncarnations]
    BY StoreAssumption DEF Init, StoreInit
  <2> QED BY <2>2, <2>3, IdleAndEnded DEF Init, StoreInit, TypeOK, StoreTypeOK
<1>2. \A r \in Runs : run[r].phase = "idle"
  BY IdleAndEnded DEF Init
<1>3. OneOwner
  BY <1>2 DEF OneOwner, Holds
<1>4. \A r \in Runs : RunInv(r)
  BY <1>2 DEF RunInv, RequestNamed, Fresh, OwnsFile, Journals, InFlight, Working
<1>5. \A id \in SessionIds : SessionInv(id)
  BY DEF Init, SessionInv, Guarded, Remembered
<1> QED BY <1>1, <1>3, <1>4, <1>5 DEF Init, DurableInv

\* The invariant holds throughout.
LEMMA DurableInvariant == Spec => []DurableInv
BY DurableInit, DurableStep, PTL DEF Spec

\* The state of the server and of its store stays of the declared types.
THEOREM DurableRunTypes == Spec => []TypeOK
<1>1. DurableInv => TypeOK
  BY DEF DurableInv
<1> QED BY <1>1, DurableInvariant, PTL

\* Write-ahead (JournalToolExecution, Finalize): whatever has executed is named
\* by the guard on disk until it is committed or reviewed, also after a crash
\* between any two steps.
THEOREM EffectsStayGuarded == Spec => []EffectsGuarded
<1>1. DurableInv => EffectsGuarded
  BY DEF DurableInv, SessionInv, Guarded, EffectsGuarded
<1> QED BY <1>1, DurableInvariant, PTL

\* The gate (durableActive): one run owns a session between the check and its
\* release, and the file is what that run wrote last.
THEOREM GateIsExclusive == Spec => []GateOwnsSession
<1>1. DurableInv => GateOwnsSession
  BY DEF DurableInv, OneOwner, RunInv, OwnsFile, Working, GateOwnsSession
<1> QED BY <1>1, DurableInvariant, PTL

\* The journal makes the in-memory quarantine a second line that is never
\* reached.
THEOREM QuarantineStaysEmpty == Spec => []QuarantineUnused
<1>1. DurableInv => QuarantineUnused
  BY DEF DurableInv, QuarantineUnused
<1> QED BY <1>1, DurableInvariant, PTL

-----------------------------------------------------------------------------
(* What a step may not do.                                                 *)

\* A step of the server is one of a run, or one that starts and ends nothing
\* but all runs.
LEMMA RunRecordsAfter ==
  ASSUME DurableInv, NEW r \in Runs, NEW q, run' = [run EXCEPT ![r] = q], NEW other \in Runs
  PROVE  run'[other] = IF other = r THEN q ELSE run[other]
BY DEF DurableInv, TypeOK

\* Only StartTool starts a tool.
LEMMA OnlyStartStarts ==
  ASSUME DurableInv, Next, NEW r \in Runs, NEW t \in Tools,
         run[r].tools[t] # "started", run'[r].tools[t] = "started"
  PROVE  StartTool(r, t)
<1>0. /\ Idle.tools[t] = "new" /\ Ended.tools[t] = "new"
      /\ \A o \in Runs : run[o] \in RunRecords
  BY DEF Idle, Ended, NewTools, DurableInv, TypeOK
<1>1. ASSUME NEW o \in Runs, NEW id \in SessionIds, NEW q \in Requests \cup {None}, SendRequest(o, id, q)
      PROVE  FALSE
  <2> DEFINE first == IF q # None /\ sent[q] # None THEN sent[q].expected ELSE disk[id].rev
             n == [Idle EXCEPT !.phase = "checked", !.id = id, !.request = q, !.first = first]
  <2>1. run' = [run EXCEPT ![o] = n]
    BY <1>1 DEF SendRequest
  <2>2. n.tools[t] = "new"
    BY <1>0 DEF Idle
  <2> HIDE DEF n
  <2> QED BY <2>1, <2>2, RunRecordsAfter
<1>2. ASSUME NEW o \in Runs, NEW n, run' = [run EXCEPT ![o] = n],
             n.tools = run[o].tools \/ n = Ended
      PROVE  FALSE
  BY <1>0, <1>2, RunRecordsAfter
<1>3. ASSUME NEW o \in Runs, SetupStep(o) PROVE FALSE
  <2>1. CASE EnterGate(o)
    <3>1. run' = [run EXCEPT ![o] = [run[o] EXCEPT !.phase = "gated"]]
      BY <2>1 DEF EnterGate
    <3>2. [run[o] EXCEPT !.phase = "gated"].tools = run[o].tools
      BY <1>0 DEF RunRecords
    <3> QED BY <1>2, <3>1, <3>2
  <2>2. CASE PrepareDurableAgentRun(o)
    <3> DEFINE n == [run[o] EXCEPT !.phase = "prepared", !.session = disk[run[o].id],
                                   !.expected = run[o].first]
    <3>1. run' = [run EXCEPT ![o] = n]
      BY <2>2 DEF PrepareDurableAgentRun
    <3>2. n.tools = run[o].tools
      BY <1>0 DEF RunRecords
    <3> HIDE DEF n
    <3> QED BY <1>2, <3>1, <3>2
  <2>3. CASE Launch(o)
    <3>1. run' = [run EXCEPT ![o] = [run[o] EXCEPT !.phase = "running"]]
      BY <2>3 DEF Launch
    <3>2. [run[o] EXCEPT !.phase = "running"].tools = run[o].tools
      BY <1>0 DEF RunRecords
    <3> QED BY <1>2, <3>1, <3>2
  <2>4. CASE LaunchWithImages(o)
    <3> DEFINE c == [run[o] EXCEPT !.phase = "running"]
               n == [c EXCEPT !.session = disk'[c.id], !.expected = disk'[c.id].rev]
    <3>1. run' = [run EXCEPT ![o] = n]
      BY <2>4 DEF LaunchWithImages, Adopts
    <3>2. n.tools = run[o].tools
      BY <1>0 DEF RunRecords
    <3> HIDE DEF n
    <3> QED BY <1>2, <3>1, <3>2
  <2>5. CASE GateClosed(o)
    BY <1>2, <2>5 DEF GateClosed
  <2>6. CASE SetupFails(o)
    BY <1>2, <2>6 DEF SetupFails, Release
  <2> QED BY <1>3, <2>1, <2>2, <2>3, <2>4, <2>5, <2>6 DEF SetupStep
<1>4. ASSUME NEW o \in Runs, FinalStep(o) PROVE FALSE
  <2>1. Release(o)
    BY <1>4 DEF FinalStep, FinalizeCommit, FinalizeReconcile, FinalizeFails
  <2> QED BY <1>2, <2>1 DEF Release
<1>5. ASSUME NEW o \in Runs, NEW u \in Tools, NEW n, NEW to, to # "started",
             run' = [run EXCEPT ![o] = n], n.tools = [run[o].tools EXCEPT ![u] = to]
      PROVE  FALSE
  <2>1. n.tools[t] = IF t = u THEN to ELSE run[o].tools[t]
    BY <1>0, <1>5 DEF RunRecords
  <2>2. run'[r] = IF r = o THEN n ELSE run[r]
    BY <1>5, RunRecordsAfter
  <2>3. CASE r = o
    BY <1>5, <2>1, <2>2, <2>3
  <2>4. CASE r # o
    BY <2>2, <2>4
  <2> QED BY <2>3, <2>4
<1>6. ASSUME NEW o \in Runs, NEW u \in Tools, NEW from, NEW to \in ToolStates, to # "started",
             SetTool(o, u, from, to)
      PROVE  FALSE
  <2> DEFINE n == [run[o] EXCEPT !.tools[u] = to]
  <2>1. run' = [run EXCEPT ![o] = n]
    BY <1>6 DEF SetTool
  <2>2. n \in RunRecords /\ n.tools = [run[o].tools EXCEPT ![u] = to]
    BY <1>0 DEF RunRecords
  <2> HIDE DEF n
  <2> QED BY <1>5, <1>6, <2>1, <2>2
<1>7. ASSUME NEW o \in Runs, NEW u \in Tools, JournalToolExecution(o, u)
      PROVE  FALSE
  <2> DEFINE next == [run |-> o, tools |-> Journaled(o) \cup {u}, by |-> "journal"]
             c == [run[o] EXCEPT !.marker = next, !.tools[u] = "journaled"]
             n == [c EXCEPT !.session = disk'[c.id], !.expected = disk'[c.id].rev]
  <2>1. run' = [run EXCEPT ![o] = n]
    BY <1>7 DEF JournalToolExecution, Adopts
  <2>2. next \in Markers
    BY <1>0 DEF Markers, Journaled, RunRecords
  <2> HIDE DEF next
  <2>3. c \in RunRecords /\ c.tools = [run[o].tools EXCEPT ![u] = "journaled"]
    BY <1>0, <2>2 DEF RunRecords, ToolStates
  <2> HIDE DEF c
  <2>4. n.tools = c.tools
    BY <2>3 DEF RunRecords
  <2> HIDE DEF n
  <2>5. n.tools = [run[o].tools EXCEPT ![u] = "journaled"] /\ "journaled" # "started"
    BY <2>3, <2>4
  <2> QED BY <1>5, <2>1, <2>5
<1>8. ASSUME NEW o \in Runs, NEW u \in Tools, StartTool(o, u)
      PROVE  StartTool(r, t)
  <2>1. PICK ambiguous \in BOOLEAN :
          run' = [run EXCEPT ![o].tools[u] = "started", ![o].ambiguous = ambiguous]
    BY <1>0, <1>8 DEF StartTool, RunRecords
  <2>2. o = r
    BY <2>1 DEF DurableInv, TypeOK
  <2>3. run'[r].tools[t] = IF t = u THEN "started" ELSE run[r].tools[t]
    BY <1>0, <2>1, <2>2 DEF DurableInv, TypeOK, RunRecords
  <2>4. t = u
    BY <2>3
  <2> QED BY <1>8, <2>2, <2>4
<1>9. ASSUME NEW o \in Runs, ToolStep(o) PROVE StartTool(r, t)
  <2> PICK u \in Tools : \/ JournalToolExecution(o, u) \/ JournalFails(o, u)
                        \/ DenyAfterJournal(o, u) \/ StartTool(o, u)
                        \/ ToolReturns(o, u) \/ ReportTool(o, u)
    BY <1>9 DEF ToolStep
  <2>1. {"denied", "returned", "reported"} \subseteq ToolStates \ {"started"}
    BY DEF ToolStates
  <2> QED BY <1>6, <1>7, <1>8, <2>1 DEF JournalFails, DenyAfterJournal, ToolReturns, ReportTool
<1>10. ASSUME Crash PROVE FALSE
  BY <1>0, <1>10 DEF Crash
<1>11. ASSUME ClientStep PROVE FALSE
  BY <1>11 DEF ClientStep, ClientSave, ClientInterrupt, ClientClose, ClientReconcile, ClientDelete,
               runVars
<1> QED BY <1>1, <1>3, <1>4, <1>9, <1>10, <1>11 DEF Next

\* A tool that executes has no effect of another run before it, and its request
\* was not committed.
LEMMA ExecutionStep ==
  DurableInv /\ [Next]_vars =>
    [\A r \in Runs, t \in Tools :
       run[r].tools[t] # "started" /\ run'[r].tools[t] = "started" =>
         /\ \A e \in effects[run[r].id] : e[1] = r
         /\ run[r].request \notin committed[run[r].id]]_vars
<1> SUFFICES ASSUME DurableInv, Next, NEW r \in Runs, NEW t \in Tools,
                    run[r].tools[t] # "started", run'[r].tools[t] = "started"
             PROVE  /\ \A e \in effects[run[r].id] : e[1] = r
                    /\ run[r].request \notin committed[run[r].id]
  OBVIOUS
<1>1. Working(r)
  BY OnlyStartStarts DEF StartTool, Working
<1>2. RunInv(r)
  BY DEF DurableInv
<1> QED BY <1>1, <1>2, EffectsAreOwn DEF RunInv, OwnsFile

\* A run that ends before it was prepared has written nothing.
LEMMA EndsUnprepared ==
  ASSUME DurableInv, Next, NEW r \in Runs, run[r].phase = "gated", run'[r].phase = "ended"
  PROVE  disk' = disk
<1>0. /\ Idle.phase = "idle" /\ Ended.phase = "ended"
      /\ \A o \in Runs : run[o] \in RunRecords
  BY IdleAndEnded DEF DurableInv, TypeOK
<1>1. ASSUME NEW o \in Runs, o # r, NEW n, run' = [run EXCEPT ![o] = n]
      PROVE  FALSE
  <2>1. run'[r] = run[r]
    BY <1>1, RunRecordsAfter
  <2> QED BY <2>1
<1>2. ASSUME NEW o \in Runs, NEW id \in SessionIds, NEW q \in Requests \cup {None}, SendRequest(o, id, q)
      PROVE  disk' = disk
  BY <1>2 DEF SendRequest, storeVars
<1>3. ASSUME NEW o \in Runs, SetupStep(o) PROVE disk' = disk
  <2>1. CASE LaunchWithImages(o)
    <3>1. o # r
      BY <2>1 DEF LaunchWithImages
    <3> QED BY <1>1, <2>1, <3>1 DEF LaunchWithImages, Adopts
  <2> QED BY <1>3, <2>1 DEF SetupStep, EnterGate, GateClosed, PrepareDurableAgentRun, SetupFails,
                         Launch, storeVars
<1>4. ASSUME NEW o \in Runs, ToolStep(o) PROVE disk' = disk
  <2> PICK u \in Tools : \/ JournalToolExecution(o, u) \/ JournalFails(o, u)
                        \/ DenyAfterJournal(o, u) \/ StartTool(o, u)
                        \/ ToolReturns(o, u) \/ ReportTool(o, u)
    BY <1>4 DEF ToolStep
  <2>1. CASE JournalToolExecution(o, u)
    <3>1. o # r
      BY <2>1 DEF JournalToolExecution
    <3> QED BY <1>1, <2>1, <3>1 DEF JournalToolExecution, Adopts
  <2> QED BY <2>1 DEF JournalFails, DenyAfterJournal, StartTool, ToolReturns, ReportTool, SetTool,
                   storeVars
<1>5. ASSUME NEW o \in Runs, FinalStep(o) PROVE FALSE
  <2>1. Release(o) /\ run[o].phase = "running"
    BY <1>5 DEF FinalStep, FinalizeCommit, FinalizeReconcile, FinalizeFails, AtDone
  <2>2. o # r
    BY <2>1
  <2> QED BY <1>1, <2>1, <2>2 DEF Release
<1>6. ASSUME Crash PROVE disk' = disk
  BY <1>6 DEF Crash, storeVars
<1>7. ASSUME ClientStep PROVE FALSE
  BY <1>7 DEF ClientStep, ClientSave, ClientInterrupt, ClientClose, ClientReconcile, ClientDelete,
              runVars
<1> QED BY <1>2, <1>3, <1>4, <1>5, <1>6, <1>7 DEF Next

\* A run that ends and leaves a changed session without a guard has committed a
\* request that was not committed before.
LEMMA CommitStep ==
  DurableInv /\ [Next]_vars =>
    [\A r \in Runs, id \in SessionIds :
       /\ Holds(r, id) /\ run'[r].phase = "ended"
       /\ disk'[id] # disk[id] /\ disk'[id] # Absent /\ ~disk'[id].reconcile
       => run[r].request \notin committed[id]]_vars
<1> SUFFICES ASSUME DurableInv, Next, NEW r \in Runs, NEW id \in SessionIds,
                    Holds(r, id), run'[r].phase = "ended", disk'[id] # disk[id]
             PROVE  run[r].request \notin committed[id]
  OBVIOUS
<1>1. run[r].phase # "gated"
  BY EndsUnprepared
<1>2. Working(r) /\ run[r].id = id
  BY <1>1 DEF Holds, Working
<1> QED BY <1>2 DEF DurableInv, RunInv, OwnsFile

\* An execution is never repeated (JournalToolExecution, validateDurableAgentSession):
\* no tool runs in a session where the effect of another run is pending, nor for
\* a request whose transcript is committed.
THEOREM NoExecutionRepeats == Spec => NoRepeatedExecution
BY DurableInvariant, ExecutionStep, PTL DEF Spec, NoRepeatedExecution

\* A request commits once (CommitAgentRun and its receipt), however often the
\* client sends it again.
THEOREM RequestsCommitOnce == Spec => CommittedOnce
BY DurableInvariant, CommitStep, PTL DEF Spec, CommittedOnce
-----------------------------------------------------------------------------
(* The server implements EffectLedger.                                     *)

\* Who works on a session.
LEMMA WorkersAre ==
  ASSUME NEW runs, NEW id, NEW w
  PROVE  w \in WorkersOf(runs, id) <=>
           \E r \in Runs : Works(runs[r], id) /\ w = <<r, runs[r].request>>
BY DEF WorkersOf

\* The runs that work on a session are the same, with their requests.
LEMMA SameWorkers ==
  ASSUME NEW old, NEW new, NEW id,
         \A r \in Runs : /\ Works(new[r], id) <=> Works(old[r], id)
                         /\ Works(new[r], id) => new[r].request = old[r].request
  PROVE  WorkersOf(new, id) = WorkersOf(old, id)
<1>1. ASSUME NEW w PROVE w \in WorkersOf(new, id) <=> w \in WorkersOf(old, id)
  BY <1>1, WorkersAre
<1> QED BY <1>1

\* A session that one run works on, and one that nobody works on.
LEMMA OneWorker ==
  ASSUME NEW runs, NEW id, NEW r \in Runs, Works(runs[r], id),
         \A other \in Runs : other # r => ~Works(runs[other], id)
  PROVE  WorkersOf(runs, id) = {<<r, runs[r].request>>}
<1>1. ASSUME NEW w PROVE w \in WorkersOf(runs, id) <=> w = <<r, runs[r].request>>
  BY <1>1, WorkersAre
<1> QED BY <1>1
LEMMA NoWorker ==
  ASSUME NEW runs, NEW id, \A r \in Runs : ~Works(runs[r], id)
  PROVE  WorkersOf(runs, id) = {}
<1>1. ASSUME NEW w PROVE w \notin WorkersOf(runs, id)
  BY <1>1, WorkersAre
<1> QED BY <1>1

\* The steps of the ledger, in terms of the server before and after.
SameElsewhere(id) ==
  \A x \in SessionIds : x # id => /\ WorkersOf(run', x) = WorkersOf(run, x)
                                  /\ GuardOf(disk'[x]) = GuardOf(disk[x])

\* What is not mapped may change.
LEMMA MapSame ==
  ASSUME \A x \in SessionIds : /\ WorkersOf(run', x) = WorkersOf(run, x)
                               /\ GuardOf(disk'[x]) = GuardOf(disk[x]),
         UNCHANGED <<effects, committed>>
  PROVE  [Ledger!Next]_(Ledger!ledgerVars)
BY DEF Ledger!ledgerVars

\* A session comes to have a worker.
LEMMA MapAdmit ==
  ASSUME NEW id \in SessionIds, NEW r \in Runs, NEW q \in Requests \cup {None},
         SameElsewhere(id), WorkersOf(run, id) = {}, GuardOf(disk[id]) = None,
         q \notin committed[id], WorkersOf(run', id) = {<<r, q>>},
         GuardOf(disk'[id]) = GuardOf(disk[id]), UNCHANGED <<effects, committed>>
  PROVE  [Ledger!Next]_(Ledger!ledgerVars)
<1>1. Ledger!Admit(id, r, q)
  BY DEF SameElsewhere, Ledger!Admit
<1> QED BY <1>1 DEF Ledger!Next

\* The guard of a session comes to name calls of its worker.
LEMMA MapJournal ==
  ASSUME NEW id \in SessionIds, NEW r \in Runs, NEW q, NEW T \in SUBSET Tools,
         SameElsewhere(id), WorkersOf(run, id) = {<<r, q>>}, WorkersOf(run', id) = {<<r, q>>},
         GuardOf(disk[id]) # None => GuardOf(disk[id]).run = r,
         \A e \in effects[id] : e[2] \in T,
         GuardOf(disk'[id]) = [run |-> r, tools |-> T], UNCHANGED <<effects, committed>>
  PROVE  [Ledger!Next]_(Ledger!ledgerVars)
<1>1. Ledger!Names(id, <<r, q>>, T)
  BY DEF SameElsewhere, Ledger!Names, Ledger!GuardIsFor
<1>2. Ledger!Journal(id, <<r, q>>)
  BY <1>1 DEF SameElsewhere, Ledger!Journal
<1> QED BY <1>2 DEF Ledger!Next, Ledger!WorkerStep

\* A call that the guard names has executed.
LEMMA MapExecute ==
  ASSUME NEW id \in SessionIds, NEW r \in Runs, NEW q, NEW t \in Tools,
         WorkersOf(run, id) = {<<r, q>>},
         \A x \in SessionIds : /\ WorkersOf(run', x) = WorkersOf(run, x)
                               /\ GuardOf(disk'[x]) = GuardOf(disk[x]),
         GuardOf(disk[id]) # None, GuardOf(disk[id]).run = r, t \in GuardOf(disk[id]).tools,
         effects' = [effects EXCEPT ![id] = @ \cup {<<r, t>>}], committed' = committed
  PROVE  [Ledger!Next]_(Ledger!ledgerVars)
<1>1. Ledger!Execute(id, <<r, q>>, t)
  BY DEF Ledger!Execute
<1> QED BY <1>1 DEF Ledger!Next, Ledger!WorkerStep

\* The worker commits its request and is gone.
LEMMA MapCommit ==
  ASSUME NEW id \in SessionIds, NEW r \in Runs, NEW q, SameElsewhere(id),
         WorkersOf(run, id) = {<<r, q>>}, WorkersOf(run', id) = {},
         GuardOf(disk[id]) # None => GuardOf(disk[id]).run = r, GuardOf(disk'[id]) = None,
         effects' = [effects EXCEPT ![id] = {}],
         committed' = [committed EXCEPT ![id] = @ \cup ({q} \ {None})]
  PROVE  [Ledger!Next]_(Ledger!ledgerVars)
<1>1. Ledger!Commit(id, <<r, q>>)
  BY DEF SameElsewhere, Ledger!Commit, Ledger!GuardIsFor
<1> QED BY <1>1 DEF Ledger!Next, Ledger!WorkerStep

\* The worker is gone, and the guard is the same or names what was done.
LEMMA MapLeave ==
  ASSUME NEW id \in SessionIds, NEW r \in Runs, NEW q, SameElsewhere(id),
         WorkersOf(run, id) = {<<r, q>>}, WorkersOf(run', id) = {},
         \/ GuardOf(disk'[id]) = GuardOf(disk[id])
         \/ \E T \in SUBSET Tools :
              /\ GuardOf(disk[id]) # None => GuardOf(disk[id]).run = r
              /\ \A e \in effects[id] : e[2] \in T
              /\ GuardOf(disk'[id]) = [run |-> r, tools |-> T],
         UNCHANGED <<effects, committed>>
  PROVE  [Ledger!Next]_(Ledger!ledgerVars)
<1> DEFINE guards(d) == [x \in SessionIds |-> GuardOf(d[x])]
<1>1. guards(disk') = guards(disk) \/ \E T \in SUBSET Tools : Ledger!Names(id, <<r, q>>, T)
  <2>1. CASE GuardOf(disk'[id]) = GuardOf(disk[id])
    BY <2>1 DEF SameElsewhere
  <2>2. ASSUME NEW T \in SUBSET Tools,
               GuardOf(disk[id]) # None => GuardOf(disk[id]).run = r,
               \A e \in effects[id] : e[2] \in T,
               GuardOf(disk'[id]) = [run |-> r, tools |-> T]
        PROVE  Ledger!Names(id, <<r, q>>, T)
    BY <2>2 DEF SameElsewhere, Ledger!Names, Ledger!GuardIsFor
  <2> QED BY <2>1, <2>2
<1>2. Ledger!Leave(id, <<r, q>>)
  BY <1>1 DEF SameElsewhere, Ledger!Leave
<1> QED BY <1>2 DEF Ledger!Next, Ledger!WorkerStep

\* A session nobody works on is marked, reviewed or deleted by its user.
LEMMA MapUser ==
  ASSUME NEW id \in SessionIds, SameElsewhere(id),
         WorkersOf(run, id) = {}, WorkersOf(run', id) = {},
         \/ /\ GuardOf(disk[id]) = None
            /\ GuardOf(disk'[id]) = [run |-> ManualRun, tools |-> {}]
            /\ UNCHANGED <<effects, committed>>
         \/ /\ GuardOf(disk[id]) # None
            /\ GuardOf(disk'[id]) = None
            /\ effects' = [effects EXCEPT ![id] = {}]
            /\ UNCHANGED committed
         \/ /\ GuardOf(disk'[id]) = None
            /\ effects' = [effects EXCEPT ![id] = {}]
            /\ committed' = [committed EXCEPT ![id] = {}]
  PROVE  [Ledger!Next]_(Ledger!ledgerVars)
<1>1. Ledger!Interrupt(id) \/ Ledger!Review(id) \/ Ledger!Forget(id)
  BY DEF SameElsewhere, Ledger!Interrupt, Ledger!Review, Ledger!Forget
<1> QED BY <1>1 DEF Ledger!Next
\* The guard of a file that is its owner's.
LEMMA OwnGuard ==
  ASSUME NEW r \in Runs, NEW handler \in RunRecords, NEW file, file # Absent,
         handler.marker = None => ~file.reconcile,
         handler.marker # None => /\ file.reconcile /\ file.interruption = handler.marker
                                  /\ handler.marker.run = r
  PROVE  /\ handler.marker = None => GuardOf(file) = None
         /\ handler.marker # None =>
              /\ GuardOf(file) = [run |-> r, tools |-> handler.marker.tools]
              /\ GuardOf(file) # None /\ handler.marker.tools \in SUBSET Tools
<1>1. handler.marker # None => handler.marker.tools \in SUBSET Tools
  BY DEF RunRecords, Markers
<1>2. \A T \in SUBSET Tools : [run |-> r, tools |-> T] # None
  BY RunNullAssumption
<1> QED BY <1>1, <1>2 DEF GuardOf

\* A run at work is the worker of its session, and the guard is its own.
LEMMA WorkerIs ==
  ASSUME DurableInv, NEW r \in Runs, Working(r)
  PROVE  /\ WorkersOf(run, run[r].id) = {<<r, run[r].request>>}
         /\ run[r].marker = None => GuardOf(disk[run[r].id]) = None
         /\ run[r].marker # None =>
              /\ GuardOf(disk[run[r].id]) = [run |-> r, tools |-> run[r].marker.tools]
              /\ GuardOf(disk[run[r].id]) # None
         /\ GuardOf(disk[run[r].id]) # None => GuardOf(disk[run[r].id]).run = r
<1>1. /\ run[r] \in RunRecords /\ RunInv(r) /\ Holds(r, run[r].id) /\ run[r].id \in SessionIds
  BY WorkingFacts
<1>2. \A other \in Runs : other # r => ~Works(run[other], run[r].id)
  BY <1>1 DEF DurableInv, OneOwner, Holds, Works
<1>3. Works(run[r], run[r].id)
  BY DEF Works, Working
<1>4. WorkersOf(run, run[r].id) = {<<r, run[r].request>>}
  BY <1>2, <1>3, OneWorker
<1>5. /\ run[r].marker = None => GuardOf(disk[run[r].id]) = None
      /\ run[r].marker # None =>
           /\ GuardOf(disk[run[r].id]) = [run |-> r, tools |-> run[r].marker.tools]
           /\ GuardOf(disk[run[r].id]) # None
  BY <1>1, OwnGuard DEF RunInv, OwnsFile
<1> QED BY <1>4, <1>5

\* A session whose gate is open, or which is held by a run not yet at work, has
\* no worker.
LEMMA NobodyWorks ==
  ASSUME DurableInv, NEW id \in SessionIds,
         GateOpen(id) \/ \E r \in Runs : Holds(r, id) /\ ~Working(r)
  PROVE  WorkersOf(run, id) = {}
<1>1. \A r \in Runs : ~Works(run[r], id)
  BY DEF DurableInv, OneOwner, Holds, Works, Working, GateOpen
<1> QED BY <1>1, NoWorker

\* A run changes the workers of no session but its own.
LEMMA WorkersElsewhere ==
  ASSUME NEW r \in Runs, \A other \in Runs : other # r => run'[other] = run[other],
         NEW x, ~Works(run[r], x), ~Works(run'[r], x)
  PROVE  WorkersOf(run', x) = WorkersOf(run, x)
<1>1. \A o \in Runs : /\ Works(run'[o], x) <=> Works(run[o], x)
                      /\ Works(run'[o], x) => run'[o].request = run[o].request
  OBVIOUS
<1> QED BY <1>1, SameWorkers

\* A step of a run that stays at work: it journals calls, or the ledger does
\* not notice it.
LEMMA WorkingStep ==
  ASSUME DurableInv, DurableInv', NEW r \in Runs, Working(r), Working(r)',
         run'[r].id = run[r].id, run'[r].request = run[r].request,
         \A other \in Runs : other # r => run'[other] = run[other],
         \A x \in SessionIds : x # run[r].id => disk'[x] = disk[x],
         \/ disk'[run[r].id] = disk[run[r].id]
         \/ run'[r].marker # None
         \/ run[r].marker = None,
         UNCHANGED <<effects, committed>>
  PROVE  [Ledger!Next]_(Ledger!ledgerVars)
<1> PICK id \in SessionIds : id = run[r].id
  BY WorkingFacts
<1>1. \A x \in SessionIds : WorkersOf(run', x) = WorkersOf(run, x)
  <2> SUFFICES ASSUME NEW x \in SessionIds PROVE WorkersOf(run', x) = WorkersOf(run, x)
    OBVIOUS
  <2>1. \A o \in Runs : /\ Works(run'[o], x) <=> Works(run[o], x)
                        /\ Works(run'[o], x) => run'[o].request = run[o].request
    BY DEF Works, Working
  <2> QED BY <2>1, SameWorkers
<1>2. /\ run'[r] \in RunRecords /\ disk'[id] # Absent
      /\ run'[r].marker = None => ~disk'[id].reconcile
      /\ run'[r].marker # None => /\ disk'[id].reconcile
                                  /\ disk'[id].interruption = run'[r].marker
                                  /\ run'[r].marker.run = r
  BY DEF DurableInv, TypeOK, RunInv, OwnsFile
<1>3. /\ run'[r].marker = None => GuardOf(disk'[id]) = None
      /\ run'[r].marker # None => /\ GuardOf(disk'[id]) = [run |-> r, tools |-> run'[r].marker.tools]
                                  /\ run'[r].marker.tools \in SUBSET Tools
  BY <1>2, OwnGuard
<1>4. /\ WorkersOf(run, id) = {<<r, run[r].request>>}
      /\ run[r].marker = None => GuardOf(disk[id]) = None
      /\ GuardOf(disk[id]) # None => GuardOf(disk[id]).run = r
  BY WorkerIs
<1>5. CASE disk'[id] = disk[id]
  BY <1>1, <1>5, MapSame
<1>6. CASE run'[r].marker = None /\ run[r].marker = None
  BY <1>1, <1>3, <1>4, <1>6, MapSame
<1>7. CASE run'[r].marker # None
  <2>1. \A e \in effects[id] : e[2] \in run'[r].marker.tools
    BY <1>2, <1>7 DEF DurableInv, SessionInv, Guarded
  <2>2. SameElsewhere(id)
    BY <1>1 DEF SameElsewhere
  <2>3. WorkersOf(run', id) = {<<r, run[r].request>>}
    BY <1>1, <1>4
  <2> QED BY <1>3, <1>4, <1>7, <2>1, <2>2, <2>3, MapJournal
<1> QED BY <1>5, <1>6, <1>7

\* A run that is at work neither before nor after its step, and writes nothing.
LEMMA OutsideStep ==
  ASSUME NEW r \in Runs, ~Working(r), ~Working(r)',
         \A other \in Runs : other # r => run'[other] = run[other],
         UNCHANGED <<disk, effects, committed>>
  PROVE  [Ledger!Next]_(Ledger!ledgerVars)
<1>1. \A x \in SessionIds : WorkersOf(run', x) = WorkersOf(run, x)
  BY WorkersElsewhere DEF Works, Working
<1> QED BY <1>1, MapSame

\* What the release of a run at work does to the workers.
LEMMA WorkerReleased ==
  ASSUME DurableInv, NEW r \in Runs, Working(r), Release(r),
         \A x \in SessionIds : x # run[r].id => disk'[x] = disk[x]
  PROVE  WorkersOf(run', run[r].id) = {} /\ SameElsewhere(run[r].id)
<1> PICK id \in SessionIds : id = run[r].id
  BY WorkingFacts
<1>1. /\ run'[r] = Ended /\ Ended.phase = "ended"
      /\ \A other \in Runs : other # r => run'[other] = run[other]
  BY IdleAndEnded, RunReplaced DEF DurableInv, Release
<1>2. \A x \in SessionIds : x # id => WorkersOf(run', x) = WorkersOf(run, x)
  BY <1>1, WorkersElsewhere DEF Works
<1>3. \A other \in Runs : ~Works(run'[other], id)
  <2>1. Holds(r, id)
    BY WorkingFacts
  <2> QED BY <1>1, <2>1 DEF DurableInv, OneOwner, Holds, Works
<1>4. WorkersOf(run', id) = {}
  BY <1>3, NoWorker
<1> QED BY <1>2, <1>4 DEF SameElsewhere

\* Sending, entering and being refused: nobody is at work yet.
LEMMA SetupOutside ==
  ASSUME DurableInv, NEW r \in Runs,
         \/ \E id \in SessionIds, q \in Requests \cup {None} : SendRequest(r, id, q)
         \/ EnterGate(r) \/ GateClosed(r)
         \/ (SetupFails(r) /\ run[r].phase = "gated")
  PROVE  [Ledger!Next]_(Ledger!ledgerVars)
<1>1. ASSUME NEW n, run' = [run EXCEPT ![r] = n], n.phase \notin {"prepared", "running"}
      PROVE  ~Working(r)' /\ \A other \in Runs : other # r => run'[other] = run[other]
  <2>1. run'[r] = n /\ \A other \in Runs : other # r => run'[other] = run[other]
    BY <1>1 DEF DurableInv, TypeOK
  <2> QED BY <1>1, <2>1 DEF Working
<1>2. ~Working(r) /\ UNCHANGED <<disk, effects, committed>>
  BY DEF SendRequest, EnterGate, GateClosed, SetupFails, Working, storeVars
<1>3. ASSUME NEW id \in SessionIds, NEW q \in Requests \cup {None}, SendRequest(r, id, q)
      PROVE  [Ledger!Next]_(Ledger!ledgerVars)
  <2> DEFINE first == IF q # None /\ sent[q] # None THEN sent[q].expected ELSE disk[id].rev
             n == [Idle EXCEPT !.phase = "checked", !.id = id, !.request = q, !.first = first]
  <2>1. run' = [run EXCEPT ![r] = n]
    BY <1>3 DEF SendRequest
  <2>2. n.phase = "checked"
    BY DEF Idle
  <2> HIDE DEF n
  <2>3. ~Working(r)' /\ \A other \in Runs : other # r => run'[other] = run[other]
    BY <1>1, <2>1, <2>2
  <2> QED BY <1>2, <2>3, OutsideStep
<1>4. CASE EnterGate(r)
  <2> DEFINE n == [run[r] EXCEPT !.phase = "gated"]
  <2>1. run' = [run EXCEPT ![r] = n]
    BY <1>4 DEF EnterGate
  <2>2. n.phase = "gated"
    BY DEF DurableInv, TypeOK, RunRecords
  <2> HIDE DEF n
  <2>3. ~Working(r)' /\ \A other \in Runs : other # r => run'[other] = run[other]
    BY <1>1, <2>1, <2>2
  <2> QED BY <1>2, <2>3, OutsideStep
<1>5. CASE GateClosed(r) \/ (SetupFails(r) /\ run[r].phase = "gated")
  <2>1. run' = [run EXCEPT ![r] = Ended]
    BY <1>5 DEF GateClosed, SetupFails, Release
  <2>2. ~Working(r)' /\ \A other \in Runs : other # r => run'[other] = run[other]
    BY <1>1, <2>1, IdleAndEnded
  <2> QED BY <1>2, <2>2, OutsideStep
<1> QED BY <1>3, <1>4, <1>5

\* A prepared run that does not get as far as its loop leaves the session as it
\* was.
LEMMA SetupLeaves ==
  ASSUME DurableInv, NEW r \in Runs, SetupFails(r), run[r].phase = "prepared"
  PROVE  [Ledger!Next]_(Ledger!ledgerVars)
<1>1. Working(r) /\ Release(r) /\ UNCHANGED <<disk, effects, committed>>
  BY DEF SetupFails, Working, storeVars
<1>2. run[r].id \in SessionIds
  BY <1>1, WorkingFacts
<1>3. WorkersOf(run, run[r].id) = {<<r, run[r].request>>}
  BY <1>1, WorkerIs
<1>4. WorkersOf(run', run[r].id) = {} /\ SameElsewhere(run[r].id)
  BY <1>1, WorkerReleased
<1> QED BY <1>1, <1>2, <1>3, <1>4, MapLeave

\* Preparation admits the run: nobody works on the session, no guard is there,
\* and its request is not committed.
LEMMA PrepareAdmits ==
  ASSUME DurableInv, DurableInv', NEW r \in Runs, PrepareDurableAgentRun(r)
  PROVE  [Ledger!Next]_(Ledger!ledgerVars)
<1> DEFINE n == [run[r] EXCEPT !.phase = "prepared", !.session = disk[run[r].id],
                               !.expected = run[r].first]
<1>1. /\ run[r].phase = "gated" /\ ~disk[run[r].id].reconcile
      /\ run' = [run EXCEPT ![r] = n] /\ UNCHANGED <<disk, effects, committed>>
  BY DEF PrepareDurableAgentRun, MayRun, storeVars
<1>2. /\ run[r].id \in SessionIds /\ run[r].request \in Requests \cup {None}
      /\ run[r] \in RunRecords /\ Holds(r, run[r].id) /\ ~Working(r)
  BY <1>1 DEF DurableInv, TypeOK, RunInv, RequestNamed, InFlight, RunRecords, Holds, Working
<1>3. n.phase = "prepared" /\ n.id = run[r].id /\ n.request = run[r].request
  BY <1>2 DEF RunRecords
<1> HIDE DEF n
<1>4. run'[r] = n /\ \A other \in Runs : other # r => run'[other] = run[other]
  BY <1>1, RunRecordsAfter
<1>5. WorkersOf(run, run[r].id) = {}
  BY <1>2, NobodyWorks
<1>6. \A other \in Runs : other # r => ~Works(run'[other], run[r].id)
  BY <1>2, <1>4 DEF DurableInv, OneOwner, Holds, Works
<1>7. Works(run'[r], run[r].id)
  BY <1>3, <1>4 DEF Works
<1>8. WorkersOf(run', run[r].id) = {<<r, run[r].request>>}
  <2>1. WorkersOf(run', run[r].id) = {<<r, run'[r].request>>}
    BY <1>6, <1>7, OneWorker
  <2> QED BY <1>3, <1>4, <2>1
<1>9. \A x \in SessionIds : x # run[r].id => WorkersOf(run', x) = WorkersOf(run, x)
  BY <1>2, <1>3, <1>4, WorkersElsewhere DEF Works, Working
<1>10. run[r].request \notin committed[run[r].id]
  BY <1>1, <1>3, <1>4 DEF DurableInv, RunInv, OwnsFile, Working
<1>11. GuardOf(disk[run[r].id]) = None /\ SameElsewhere(run[r].id)
  BY <1>1, <1>9 DEF GuardOf, SameElsewhere
<1> QED BY <1>1, <1>2, <1>5, <1>8, <1>10, <1>11, MapAdmit

\* The same, from the record of the run and the session it writes.
LEMMA StepAtWork ==
  ASSUME DurableInv, DurableInv', NEW r \in Runs, Working(r),
         NEW n, run' = [run EXCEPT ![r] = n],
         n.phase \in {"prepared", "running"}, n.id = run[r].id, n.request = run[r].request,
         \/ disk' = disk
         \/ /\ \E file : disk' = [disk EXCEPT ![run[r].id] = file]
            /\ n.marker # None \/ run[r].marker = None,
         UNCHANGED <<effects, committed>>
  PROVE  [Ledger!Next]_(Ledger!ledgerVars)
<1>1. run'[r] = n /\ \A other \in Runs : other # r => run'[other] = run[other]
  BY DEF DurableInv, TypeOK
<1>2. Working(r)' /\ run'[r].id = run[r].id /\ run'[r].request = run[r].request
  BY <1>1 DEF Working
<1>3. \A x \in SessionIds : x # run[r].id => disk'[x] = disk[x]
  BY DEF DurableInv, TypeOK, StoreTypeOK
<1>4. \/ disk'[run[r].id] = disk[run[r].id]
      \/ run'[r].marker # None
      \/ run[r].marker = None
  BY <1>1
<1> QED BY <1>1, <1>2, <1>3, <1>4, WorkingStep

\* The loop starts, with the prepared session or with one that holds the images.
LEMMA LaunchMaps ==
  ASSUME DurableInv, DurableInv', NEW r \in Runs, Launch(r) \/ LaunchWithImages(r)
  PROVE  [Ledger!Next]_(Ledger!ledgerVars)
<1>1. /\ run[r].phase = "prepared" /\ Working(r) /\ UNCHANGED <<effects, committed>>
      /\ disk' = disk \/ \E file : disk' = [disk EXCEPT ![run[r].id] = file]
  BY DEF Launch, LaunchWithImages, Working, storeVars, Write
<1>2. run[r] \in RunRecords /\ run[r].marker = None
  BY <1>1 DEF DurableInv, TypeOK, RunInv, Fresh
<1> DEFINE c == [run[r] EXCEPT !.phase = "running"]
           d == [c EXCEPT !.session = disk'[c.id], !.expected = disk'[c.id].rev]
<1>3. /\ c.phase = "running" /\ c.id = run[r].id /\ c.request = run[r].request
      /\ d.phase = "running" /\ d.id = run[r].id /\ d.request = run[r].request
  BY <1>2 DEF RunRecords
<1>4. run' = [run EXCEPT ![r] = c] \/ run' = [run EXCEPT ![r] = d]
  BY DEF Launch, LaunchWithImages, Adopts
<1> HIDE DEF c, d
<1>5. CASE run' = [run EXCEPT ![r] = c]
  BY <1>1, <1>2, <1>3, <1>5, StepAtWork
<1>6. CASE run' = [run EXCEPT ![r] = d]
  BY <1>1, <1>2, <1>3, <1>6, StepAtWork
<1> QED BY <1>4, <1>5, <1>6

\* A call that is journalled is one the guard comes to name.
LEMMA JournalMaps ==
  ASSUME DurableInv, DurableInv', NEW r \in Runs, NEW t \in Tools, JournalToolExecution(r, t)
  PROVE  [Ledger!Next]_(Ledger!ledgerVars)
<1> DEFINE next == [run |-> r, tools |-> Journaled(r) \cup {t}, by |-> "journal"]
           c == [run[r] EXCEPT !.marker = next, !.tools[t] = "journaled"]
           d == [c EXCEPT !.session = disk'[c.id], !.expected = disk'[c.id].rev]
<1>1. /\ run[r].phase = "running" /\ Working(r) /\ UNCHANGED <<effects, committed>>
      /\ \E file : disk' = [disk EXCEPT ![run[r].id] = file]
      /\ run' = [run EXCEPT ![r] = d]
  BY DEF JournalToolExecution, Working, Write, Adopts
<1>2. run[r] \in RunRecords
  BY DEF DurableInv, TypeOK
<1>3. next \in Markers
  BY <1>2, StoreNullAssumption DEF Markers, Journaled, RunRecords
<1>4. next # None
  BY <1>3, StoreNullAssumption
<1> HIDE DEF next
<1>5. /\ d.phase = "running" /\ d.id = run[r].id /\ d.request = run[r].request /\ d.marker = next
  BY <1>1, <1>2 DEF RunRecords
<1> HIDE DEF d
<1> QED BY <1>1, <1>4, <1>5, StepAtWork

\* What the ledger does not see of a call: a denial, its return, its report.
LEMMA SetToolMaps ==
  ASSUME DurableInv, DurableInv', NEW r \in Runs, NEW t \in Tools, NEW from, NEW to,
         SetTool(r, t, from, to)
  PROVE  [Ledger!Next]_(Ledger!ledgerVars)
<1> DEFINE n == [run[r] EXCEPT !.tools[t] = to]
<1>1. /\ run[r].phase = "running" /\ Working(r) /\ run' = [run EXCEPT ![r] = n]
      /\ disk' = disk /\ UNCHANGED <<effects, committed>>
  BY DEF SetTool, Working, storeVars
<1>2. n.phase = "running" /\ n.id = run[r].id /\ n.request = run[r].request
  BY <1>1 DEF DurableInv, TypeOK, RunRecords
<1> HIDE DEF n
<1> QED BY <1>1, <1>2, StepAtWork

\* A call executes after the guard names it.
LEMMA StartMaps ==
  ASSUME DurableInv, NEW r \in Runs, NEW t \in Tools, StartTool(r, t)
  PROVE  [Ledger!Next]_(Ledger!ledgerVars)
<1>1. /\ run[r].phase = "running" /\ Working(r) /\ run[r].tools[t] = "journaled"
      /\ disk' = disk /\ committed' = committed
      /\ effects' = [effects EXCEPT ![run[r].id] = @ \cup {<<r, t>>}]
  BY DEF StartTool, StartState, Working, storeVars
<1>2. run[r].id \in SessionIds /\ run[r] \in RunRecords /\ RunInv(r)
  BY <1>1, WorkingFacts
<1>3. PICK ambiguous :
        run' = [run EXCEPT ![r].tools[t] = "started", ![r].ambiguous = ambiguous]
  BY DEF StartTool
<1> DEFINE n == [run[r] EXCEPT !.tools[t] = "started", !.ambiguous = ambiguous]
<1>4. run' = [run EXCEPT ![r] = n]
  BY <1>2, <1>3 DEF DurableInv, TypeOK
<1>5. n.phase = "running" /\ n.id = run[r].id /\ n.request = run[r].request
  BY <1>1, <1>2 DEF RunRecords
<1> HIDE DEF n
<1>6. run'[r] = n /\ \A other \in Runs : other # r => run'[other] = run[other]
  BY <1>4 DEF DurableInv, TypeOK
<1>7. \A x \in SessionIds : WorkersOf(run', x) = WorkersOf(run, x)
  <2> SUFFICES ASSUME NEW x \in SessionIds PROVE WorkersOf(run', x) = WorkersOf(run, x)
    OBVIOUS
  <2>1. \A o \in Runs : /\ Works(run'[o], x) <=> Works(run[o], x)
                        /\ Works(run'[o], x) => run'[o].request = run[o].request
    BY <1>1, <1>5, <1>6 DEF Works
  <2> QED BY <2>1, SameWorkers
<1>8. run[r].marker # None /\ t \in run[r].marker.tools
  BY <1>1, <1>2 DEF RunInv, Journals, Journaled
<1>9. /\ WorkersOf(run, run[r].id) = {<<r, run[r].request>>}
      /\ GuardOf(disk[run[r].id]) = [run |-> r, tools |-> run[r].marker.tools]
      /\ GuardOf(disk[run[r].id]) # None
  BY <1>1, <1>8, WorkerIs
<1>10. GuardOf(disk[run[r].id]).run = r /\ t \in GuardOf(disk[run[r].id]).tools
  BY <1>8, <1>9
<1>11. \A x \in SessionIds : /\ WorkersOf(run', x) = WorkersOf(run, x)
                             /\ GuardOf(disk'[x]) = GuardOf(disk[x])
  BY <1>1, <1>7
<1> QED BY <1>1, <1>2, <1>9, <1>10, <1>11, MapExecute

\* Every step of a batch.
LEMMA ToolStepMaps ==
  ASSUME DurableInv, DurableInv', NEW r \in Runs, ToolStep(r)
  PROVE  [Ledger!Next]_(Ledger!ledgerVars)
<1> PICK t \in Tools : \/ JournalToolExecution(r, t) \/ JournalFails(r, t)
                      \/ DenyAfterJournal(r, t) \/ StartTool(r, t)
                      \/ ToolReturns(r, t) \/ ReportTool(r, t)
  BY DEF ToolStep
<1>1. CASE JournalFails(r, t)
  BY <1>1, SetToolMaps DEF JournalFails
<1>2. CASE DenyAfterJournal(r, t)
  BY <1>2, SetToolMaps DEF DenyAfterJournal
<1>3. CASE ToolReturns(r, t)
  BY <1>3, SetToolMaps DEF ToolReturns
<1>4. CASE ReportTool(r, t)
  BY <1>4, SetToolMaps DEF ReportTool
<1> QED BY <1>1, <1>2, <1>3, <1>4, JournalMaps, StartMaps

\* The commit: the request is committed, the guard and the effects are gone.
LEMMA CommitMaps ==
  ASSUME DurableInv, NEW r \in Runs, NEW n \in Messages, FinalizeCommit(r, n)
  PROVE  [Ledger!Next]_(Ledger!ledgerVars)
<1>0. Working(r)
  BY DEF FinalizeCommit, AtDone, Working
<1> PICK id \in SessionIds : id = run[r].id
  BY <1>0, WorkingFacts
<1> DEFINE q == SaveTo(disk[id], RunReceipt(r), n, None)
<1>1. /\ CanSave(disk[id], run[r].expected, run[r].marker, RunReceipt(r), n)
      /\ disk' = [disk EXCEPT ![id] = q]
      /\ effects' = [effects EXCEPT ![id] = {e \in effects[id] : e[1] # r}]
      /\ committed' = [committed EXCEPT ![id] = @ \cup ({run[r].request} \ {None})]
      /\ Release(r)
  BY DEF FinalizeCommit, Write
<1>2. run[r] \in RunRecords /\ run[r].session \in Stored /\ disk[id] \in Stored
  BY <1>0, WorkingFacts
<1>3. RunReceipt(r) \in NewReceipts \cup {None}
  BY <1>2 DEF RunReceipt, NewReceipts, RunRecords, Stored
<1>4. ~q.reconcile
  BY <1>1, <1>2, <1>3, SaveResult
<1> HIDE DEF q
<1>5. GuardOf(disk'[id]) = None
  BY <1>1, <1>4 DEF GuardOf, DurableInv, TypeOK, StoreTypeOK
<1>6. effects' = [effects EXCEPT ![id] = {}]
  <2>1. {e \in effects[id] : e[1] # r} = {}
    BY <1>0, EffectsAreOwn
  <2> QED BY <1>1, <2>1
<1>7. \A x \in SessionIds : x # run[r].id => disk'[x] = disk[x]
  BY <1>1 DEF DurableInv, TypeOK, StoreTypeOK
<1>8. WorkersOf(run', id) = {} /\ SameElsewhere(id)
  BY <1>0, <1>1, <1>7, WorkerReleased
<1>9. /\ WorkersOf(run, id) = {<<r, run[r].request>>}
      /\ GuardOf(disk[id]) # None => GuardOf(disk[id]).run = r
  BY <1>0, WorkerIs
<1> QED BY <1>1, <1>5, <1>6, <1>8, <1>9, MapCommit

\* A run that is blocked leaves a guard that names what it has done.
LEMMA ReconcileMarkMaps ==
  ASSUME DurableInv, NEW r \in Runs, FinalizeReconcile(r)
  PROVE  [Ledger!Next]_(Ledger!ledgerVars)
<1>0. Working(r) /\ ToolsBegun(r) # {}
  BY DEF FinalizeReconcile, AtDone, Working
<1> PICK id \in SessionIds : id = run[r].id
  BY <1>0, WorkingFacts
<1> DEFINE next == [run |-> r, tools |-> ToolsBegun(r), by |-> "terminal"]
<1>1. /\ CanUpdateInterruptedRun(disk[id], run[r].expected, run[r].marker, next)
      /\ Write(id, UpdateInterruptedRunTo(disk[id], next))
      /\ Release(r) /\ UNCHANGED <<effects, committed>>
  BY <1>0, BegunIsMarked DEF FinalizeReconcile
<1>2. StoreTypeOK
  BY <1>0, WorkingFacts
<1>3. next \in Markers /\ next.run = r /\ next.tools = ToolsBegun(r)
  BY DEF Markers, ToolsBegun, ToolsIn
<1> HIDE DEF next
<1>4. Succeeds(id) /\ disk'[id].reconcile /\ disk'[id].interruption = next
  <2>1. ASSUME NEW e, NEW m, CanUpdateInterruptedRun(disk[id], e, m, next)
        PROVE  Succeeds(id) /\ disk'[id].reconcile /\ disk'[id].interruption = next
    BY <1>1, <1>2, <1>3, <2>1, UpdateInterruptedSucceeds
  <2> QED BY <1>1, <2>1
<1>5. OthersKept(id) /\ disk'[id] # Absent
  BY <1>4 DEF Succeeds
<1>6. WorkersOf(run', id) = {} /\ SameElsewhere(id)
  BY <1>0, <1>1, <1>5, WorkerReleased DEF OthersKept
<1>7. /\ WorkersOf(run, id) = {<<r, run[r].request>>}
      /\ GuardOf(disk[id]) # None => GuardOf(disk[id]).run = r
  BY <1>0, WorkerIs
<1>8. ToolsBegun(r) \in SUBSET Tools /\ GuardOf(disk'[id]) = [run |-> r, tools |-> ToolsBegun(r)]
  BY <1>3, <1>4, <1>5 DEF GuardOf, ToolsBegun, ToolsIn
<1>9. \A e \in effects[id] : e[2] \in ToolsBegun(r)
  BY <1>0, EffectsAreOwn DEF ToolsBegun, ToolsIn, Begun
<1> QED BY <1>1, <1>6, <1>7, <1>8, <1>9, MapLeave

\* A run that writes nothing at its end leaves the guard as it is.
LEMMA FailsMaps ==
  ASSUME DurableInv, NEW r \in Runs, FinalizeFails(r)
  PROVE  [Ledger!Next]_(Ledger!ledgerVars)
<1>1. Working(r) /\ Release(r) /\ UNCHANGED <<disk, effects, committed>>
  BY DEF FinalizeFails, AtDone, Working, storeVars
<1>2. run[r].id \in SessionIds
  BY <1>1, WorkingFacts
<1>3. WorkersOf(run, run[r].id) = {<<r, run[r].request>>}
  BY <1>1, WorkerIs
<1>4. WorkersOf(run', run[r].id) = {} /\ SameElsewhere(run[r].id)
  BY <1>1, WorkerReleased
<1> QED BY <1>1, <1>2, <1>3, <1>4, MapLeave

\* A crash loses the workers and nothing else.
LEMMA CrashMaps ==
  ASSUME Crash
  PROVE  [Ledger!Next]_(Ledger!ledgerVars)
<1>1. /\ UNCHANGED <<disk, effects, committed>>
      /\ \A r \in Runs : run'[r].phase \in {"idle", "ended"}
  BY IdleAndEnded DEF Crash, storeVars
<1>2. \A r \in Runs, id \in SessionIds : ~Works(run'[r], id)
  BY <1>1 DEF Works
<1>3. \A id \in SessionIds : WorkersOf(run', id) = {}
  BY <1>2, NoWorker
<1>4. Ledger!Crash
  BY <1>1, <1>3 DEF Ledger!Crash
<1> QED BY <1>4 DEF Ledger!Next

\* What other callers do to a session nobody works on.
LEMMA ClientMaps ==
  ASSUME DurableInv, ClientStep
  PROVE  [Ledger!Next]_(Ledger!ledgerVars)
<1>0. StoreTypeOK
  BY DEF DurableInv, TypeOK
<1>1. ASSUME NEW id \in SessionIds, GateOpen(id), UNCHANGED runVars, OthersKept(id)
      PROVE  /\ SameElsewhere(id) /\ WorkersOf(run, id) = {} /\ WorkersOf(run', id) = {}
             /\ \A x \in SessionIds : WorkersOf(run', x) = WorkersOf(run, x)
  <2>1. run' = run
    BY <1>1 DEF runVars
  <2>2. WorkersOf(run, id) = {}
    BY <1>1, NobodyWorks
  <2> QED BY <1>1, <2>1, <2>2 DEF SameElsewhere, OthersKept
<1>2. ASSUME NEW id \in SessionIds, GateOpen(id), UNCHANGED <<runVars, effects, committed>>,
             Succeeds(id), disk[id] # Absent => ~disk[id].reconcile, ~disk'[id].reconcile
      PROVE  [Ledger!Next]_(Ledger!ledgerVars)
  <2>1. OthersKept(id)
    BY <1>2 DEF Succeeds
  <2>2. GuardOf(disk'[id]) = None /\ GuardOf(disk[id]) = None
    BY <1>2 DEF GuardOf
  <2>3. \A x \in SessionIds : /\ WorkersOf(run', x) = WorkersOf(run, x)
                              /\ GuardOf(disk'[x]) = GuardOf(disk[x])
    BY <1>1, <1>2, <2>1, <2>2 DEF SameElsewhere
  <2> QED BY <1>2, <2>3, MapSame
<1>3. ASSUME NEW id \in SessionIds, NEW n \in Messages, ClientSave(id, n)
      PROVE  [Ledger!Next]_(Ledger!ledgerVars)
  <2>1. /\ GateOpen(id) /\ UNCHANGED <<runVars, effects, committed>>
        /\ SaveExpected(id, IF disk[id] = Absent THEN 0 ELSE disk[id].rev, n)
    BY <1>3 DEF ClientSave
  <2>2. Succeeds(id) /\ (disk[id] # Absent => ~disk[id].reconcile) /\ ~disk'[id].reconcile
    BY <1>0, <2>1, SaveExpectedSucceeds
  <2> QED BY <1>2, <2>1, <2>2
<1>4. ASSUME NEW id \in SessionIds, ClientClose(id)
      PROVE  [Ledger!Next]_(Ledger!ledgerVars)
  <2>1. GateOpen(id) /\ UNCHANGED <<runVars, effects, committed>> /\ Close(id, disk[id].rev)
    BY <1>4 DEF ClientClose
  <2>2. Succeeds(id) /\ ~disk[id].reconcile /\ ~disk'[id].reconcile
    BY <1>0, <2>1, CloseSucceeds
  <2> QED BY <1>2, <2>1, <2>2
<1>5. ASSUME NEW id \in SessionIds, ClientInterrupt(id)
      PROVE  [Ledger!Next]_(Ledger!ledgerVars)
  <2> DEFINE marker == [run |-> ManualRun, tools |-> {}, by |-> "manual"]
  <2>1. /\ GateOpen(id) /\ UNCHANGED <<runVars, effects, committed>>
        /\ CanMarkInterrupted(disk[id], disk[id].rev)
        /\ Write(id, MarkInterruptedTo(disk[id], marker))
    BY <1>5 DEF ClientInterrupt, Interrupt
  <2>2. marker \in Markers /\ marker.run = ManualRun /\ marker.tools = {}
    BY DEF Markers
  <2> HIDE DEF marker
  <2>3. /\ Succeeds(id) /\ ~disk[id].reconcile
        /\ disk'[id].reconcile /\ disk'[id].interruption = marker
    <3>1. ASSUME NEW e, CanMarkInterrupted(disk[id], e)
          PROVE  /\ Succeeds(id) /\ ~disk[id].reconcile
                 /\ disk'[id].reconcile /\ disk'[id].interruption = marker
      BY <1>0, <2>1, <2>2, <3>1, MarkInterruptedSucceeds
    <3> QED BY <2>1, <3>1
  <2>4. OthersKept(id) /\ disk'[id] # Absent
    BY <2>3 DEF Succeeds
  <2>5. GuardOf(disk[id]) = None /\ GuardOf(disk'[id]) = [run |-> ManualRun, tools |-> {}]
    BY <2>2, <2>3, <2>4 DEF GuardOf
  <2>6. SameElsewhere(id) /\ WorkersOf(run, id) = {} /\ WorkersOf(run', id) = {}
    BY <1>1, <2>1, <2>4
  <2> QED BY <2>1, <2>5, <2>6, MapUser
<1>6. ASSUME NEW id \in SessionIds, ClientReconcile(id)
      PROVE  [Ledger!Next]_(Ledger!ledgerVars)
  <2>1. /\ GateOpen(id) /\ UNCHANGED <<runVars, committed>>
        /\ Reconcile(id, disk[id].rev, Assess(disk[id]))
        /\ effects' = [effects EXCEPT ![id] = {}]
    BY <1>6 DEF ClientReconcile
  <2>2. Succeeds(id) /\ ~disk'[id].reconcile
    BY <1>0, <2>1, ReconcileSucceeds
  <2>3. OthersKept(id) /\ GuardOf(disk'[id]) = None
    BY <2>2 DEF Succeeds, GuardOf
  <2>4. disk[id] # Absent /\ disk[id].reconcile /\ disk[id].interruption \in Markers
    BY <1>0, <2>1 DEF Reconcile, CanMarkReconciled, CanUpdate, StoreTypeOK, Stored
  <2>5. GuardOf(disk[id]) # None
    <3>1. /\ disk[id].interruption.run \in Runs \cup {ManualRun}
          /\ disk[id].interruption.tools \in SUBSET Tools
      BY <2>4 DEF Markers
    <3> QED BY <2>4, <3>1, RunNullAssumption DEF GuardOf
  <2>6. SameElsewhere(id) /\ WorkersOf(run, id) = {} /\ WorkersOf(run', id) = {}
    BY <1>1, <2>1, <2>3
  <2> QED BY <2>1, <2>3, <2>5, <2>6, MapUser
<1>7. ASSUME NEW id \in SessionIds, ClientDelete(id)
      PROVE  [Ledger!Next]_(Ledger!ledgerVars)
  <2>1. /\ GateOpen(id) /\ UNCHANGED runVars /\ Delete(id, disk[id].rev)
        /\ effects' = [effects EXCEPT ![id] = {}] /\ committed' = [committed EXCEPT ![id] = {}]
    BY <1>7 DEF ClientDelete
  <2>2. OthersKept(id) /\ GuardOf(disk'[id]) = None
    BY <1>0, <2>1, DeleteRemoves DEF GuardOf
  <2>3. SameElsewhere(id) /\ WorkersOf(run, id) = {} /\ WorkersOf(run', id) = {}
    BY <1>1, <2>1, <2>2
  <2> QED BY <2>1, <2>2, <2>3, MapUser
<1> QED BY <1>3, <1>4, <1>5, <1>6, <1>7 DEF ClientStep

\* Every step of the server is one of the ledger, or one it does not see.
LEMMA LedgerStep == DurableInv /\ [Next]_vars => [Ledger!Next]_(Ledger!ledgerVars)
<1> SUFFICES ASSUME DurableInv, [Next]_vars PROVE [Ledger!Next]_(Ledger!ledgerVars)
  OBVIOUS
<1>0. DurableInv'
  BY DurableStep
<1>1. ASSUME NEW r \in Runs, SetupStep(r) PROVE [Ledger!Next]_(Ledger!ledgerVars)
  <2>1. SetupFails(r) => run[r].phase \in {"gated", "prepared"}
    BY DEF SetupFails
  <2> QED BY <1>0, <1>1, <2>1, SetupOutside, SetupLeaves, PrepareAdmits, LaunchMaps DEF SetupStep
<1>2. ASSUME NEW r \in Runs, FinalStep(r) PROVE [Ledger!Next]_(Ledger!ledgerVars)
  BY <1>2, CommitMaps, ReconcileMarkMaps, FailsMaps DEF FinalStep
<1>3. CASE UNCHANGED vars
  <2>1. run' = run /\ disk' = disk /\ effects' = effects /\ committed' = committed
    BY <1>3 DEF vars, storeVars, runVars
  <2> QED BY <2>1, MapSame
<1> QED BY <1>0, <1>1, <1>2, <1>3, SetupOutside, ToolStepMaps, ClientMaps, CrashMaps DEF Next

\* A store without guards and without runs is an empty ledger.
LEMMA LedgerInit == Init => Ledger!Init
<1> SUFFICES ASSUME Init PROVE Ledger!Init
  OBVIOUS
<1>1. \A r \in Runs : run[r].phase = "idle"
  BY IdleAndEnded DEF Init
<1>2. \A id \in SessionIds : WorkersOf(run, id) = {}
  BY <1>1, NoWorker DEF Works
<1>3. \A id \in SessionIds : GuardOf(disk[id]) = None
  <2>1. \A n \in Messages : ~LegacySession(n).reconcile
    BY DEF LegacySession
  <2> QED BY <2>1 DEF Init, StoreInit, GuardOf
<1> QED BY <1>2, <1>3 DEF Init, Ledger!Init

\* Durable runs implement EffectLedger (handleAgent, DurableRunObserver and the
\* journal call): whatever the copies of the session, the failed writes, the
\* retries of a client and the crashes, each step is one the ledger allows.
THEOREM DurableRunImplementsLedger == Spec => ImplementsLedger
<1>1. Spec => Ledger!Spec
  BY LedgerInit, LedgerStep, DurableInvariant, PTL DEF Spec, Ledger!Spec
<1> QED BY <1>1 DEF ImplementsLedger

=============================================================================
