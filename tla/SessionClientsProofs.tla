------------------------ MODULE SessionClientsProofs ------------------------
(***************************************************************************)
(* The promises of the session store to clients that act on what they last *)
(* read, for any number of clients, sessions, revisions and calls.         *)
(*                                                                         *)
(* That a call which names the present revision comes from somebody who    *)
(* has read the present session is not inductive: it needs that a copy of  *)
(* the present incarnation is never ahead of the file, and equal to it at  *)
(* the same revision (CopiesAreOld).                                       *)
(***************************************************************************)
EXTENDS SessionClients, SessionStoreProofs

\* A client's copy of the present incarnation of a session is the file itself
\* or an earlier revision of it.
CopyIsOld(c) ==
  seen[c] # None =>
    LET v == seen[c]  id == v.id IN
    /\ v.born <= created[id]
    /\ v.born = created[id] /\ disk[id] # Absent =>
         /\ v.session.rev <= disk[id].rev
         /\ v.session.rev = disk[id].rev => v.session = disk[id]

CopiesAreOld == \A c \in Clients : CopyIsOld(c)

\* What a client holds was accepted by the loader.
CopiesLoad == \A c \in Clients : seen[c] # None => Loadable(seen[c].session)

ClientInv == TypeOK /\ EveryFileLoads /\ CopiesAreOld /\ CopiesLoad
-----------------------------------------------------------------------------
\* What a write does to the incarnation of its session.
LEMMA CreatedAfter ==
  ASSUME StoreTypeOK, NEW id \in SessionIds, NEW q, Write(id, q)
  PROVE  /\ created'[id] = IF disk[id] = Absent THEN created[id] + 1 ELSE created[id]
         /\ \A other \in SessionIds : other # id => created'[other] = created[other]
         /\ created[id] \in Nat
BY DEF Write, StoreTypeOK

\* The step of one caller on one session: the file goes up by one revision, is
\* created or is removed, and its incarnation is counted.
Touches(id) ==
  /\ StoreTypeOK' /\ OthersKept(id)
  /\ \A other \in SessionIds : other # id => created'[other] = created[other]
  /\ created'[id] = IF disk[id] = Absent THEN created[id] + 1 ELSE created[id]
  /\ \/ disk'[id] = Absent /\ disk[id] # Absent
     \/ /\ disk'[id] # Absent /\ disk'[id] \in Stored /\ Loadable(disk'[id])
        /\ disk[id] # Absent => disk'[id].rev = disk[id].rev + 1

\* A client whose copy is not replaced by the step keeps an old copy: the file
\* it copied is the same, is ahead, or is gone for good.
LEMMA CopyStaysOld ==
  ASSUME ClientInv, NEW id \in SessionIds, Touches(id), NEW c \in Clients, seen'[c] = seen[c]
  PROVE  CopyIsOld(c)'
<1> SUFFICES ASSUME seen[c] # None
             PROVE  LET v == seen[c]  i == v.id IN
                    /\ v.born <= created'[i]
                    /\ v.born = created'[i] /\ disk'[i] # Absent =>
                         /\ v.session.rev <= disk'[i].rev
                         /\ v.session.rev = disk'[i].rev => v.session = disk'[i]
  BY DEF CopyIsOld
<1> DEFINE v == seen[c]
<1>1. v \in Views /\ CopyIsOld(c)
  BY DEF ClientInv, TypeOK, CopiesAreOld
<1>2. /\ v.id \in SessionIds /\ v.born \in Nat /\ v.session.rev \in Nat
      /\ created[v.id] \in Nat
  BY <1>1 DEF Views, Stored, Revisions, ClientInv, TypeOK, StoreTypeOK
<1>3. /\ v.born <= created[v.id]
      /\ v.born = created[v.id] /\ disk[v.id] # Absent =>
           /\ v.session.rev <= disk[v.id].rev
           /\ v.session.rev = disk[v.id].rev => v.session = disk[v.id]
  BY <1>1 DEF CopyIsOld
<1> HIDE DEF v
<1>4. CASE v.id # id
  BY <1>2, <1>3, <1>4 DEF Touches, OthersKept, v
<1>5. CASE v.id = id /\ disk[id] = Absent
  <2>1. created'[id] = created[id] + 1
    BY <1>5 DEF Touches
  <2> QED BY <1>2, <1>3, <1>5, <2>1 DEF v
<1>6. CASE v.id = id /\ disk[id] # Absent
  <2>1. created'[id] = created[id]
    BY <1>6 DEF Touches
  <2>2. disk'[id] # Absent => disk'[id].rev = disk[id].rev + 1
    BY <1>6 DEF Touches
  <2>3. disk[id].rev \in Nat
    BY <1>6 DEF ClientInv, TypeOK, StoreTypeOK, Stored, Revisions
  <2> QED BY <1>2, <1>3, <1>6, <2>1, <2>2, <2>3 DEF v
<1> QED BY <1>4, <1>5, <1>6

\* A call on the store keeps the invariant: the caller learns what it wrote,
\* and the copies of the others are older.
LEMMA CallKeeps ==
  ASSUME ClientInv, NEW c \in Clients, NEW id \in SessionIds, Touches(id), Learns(c, id)
  PROVE  ClientInv'
<1> DEFINE new == IF disk'[id] = Absent THEN None
                  ELSE [id |-> id, session |-> disk'[id], born |-> created'[id], evidence |-> None]
<1>1. seen' = [seen EXCEPT ![c] = new]
  BY DEF Learns
<1>2. StoreTypeOK' /\ (disk'[id] # Absent => disk'[id] \in Stored)
  BY DEF Touches
<1>3. created'[id] \in 0 .. MaxIncarnations
  BY <1>2 DEF StoreTypeOK
<1>4. new \in Views \cup {None}
  BY <1>2, <1>3 DEF Views
<1> HIDE DEF new
<1>5. TypeOK'
  BY <1>1, <1>2, <1>4 DEF ClientInv, TypeOK
<1>6. seen'[c] = new /\ \A other \in Clients : other # c => seen'[other] = seen[other]
  BY <1>1 DEF ClientInv, TypeOK
<1>7. EveryFileLoads'
  BY DEF Touches, OthersKept, ClientInv, EveryFileLoads
<1>8. CopyIsOld(c)'
  <2>1. created'[id] \in Nat /\ (disk'[id] # Absent => disk'[id].rev \in Nat)
    BY <1>2, <1>3 DEF Stored, Revisions
  <2>2. CASE disk'[id] = Absent
    BY <1>6, <2>2 DEF new, CopyIsOld
  <2>3. CASE disk'[id] # Absent
    <3>1. new.id = id /\ new.born = created'[id] /\ new.session = disk'[id]
      BY <2>3 DEF new
    <3> QED BY <1>6, <2>1, <2>3, <3>1 DEF CopyIsOld
  <2> QED BY <2>2, <2>3
<1>9. \A other \in Clients : other # c => CopyIsOld(other)'
  BY <1>6, CopyStaysOld
<1>10. CopiesLoad'
  <2>1. disk'[id] # Absent => Loadable(disk'[id])
    BY DEF Touches
  <2>2. new # None => Loadable(new.session)
    BY <2>1 DEF new
  <2> QED BY <1>6, <2>2 DEF CopiesLoad, ClientInv
<1> QED BY <1>5, <1>7, <1>8, <1>9, <1>10 DEF ClientInv, CopiesAreOld

-----------------------------------------------------------------------------
\* A handler that writes a successor touches its session.
LEMMA SuccessorTouches ==
  ASSUME ClientInv, NEW id \in SessionIds, Succeeds(id), NEW q, Write(id, q)
  PROVE  Touches(id)
<1>1. disk[id] # Absent => Loadable(disk[id])
  BY DEF ClientInv, EveryFileLoads
<1>2. StoreTypeOK
  BY DEF ClientInv, TypeOK
<1> QED BY <1>1, <1>2, CreatedAfter DEF Succeeds, Touches

\* The calls of a client that may change a session it has read: each finds the
\* session at the revision the client has read, and leaves a guard alone unless
\* it commits the very interruption or reviewed the very evidence.
Revised(c, id) ==
  /\ Touches(id) /\ Learns(c, id)
  /\ disk[id] # Absent => disk[id].rev = seen[c].session.rev

Respects(c, id) ==
  disk'[id] # Absent /\ disk[id] # Absent /\ disk[id].reconcile =>
    \/ /\ disk'[id].reconcile
       /\ disk'[id].messages = disk[id].messages
       /\ disk'[id].interruption.run = disk[id].interruption.run
    \/ /\ seen[c].session.interruption = disk[id].interruption
       /\ disk'[id].lastRequest # None
       /\ disk'[id].lastRequest.committed = disk'[id].rev
    \/ /\ seen[c].evidence # None
       /\ seen[c].evidence.marker = disk[id].interruption
       /\ seen[c].evidence.files = workspace
       /\ disk'[id].messages = disk[id].messages

\* handleSessionSave
LEMMA SaveRevises ==
  ASSUME ClientInv, NEW c \in Clients, NEW id \in SessionIds, NEW rev, NEW n \in Messages,
         SaveExpected(id, rev, n)
  PROVE  Touches(id) /\ (disk[id] # Absent => disk[id].rev = rev /\ ~disk[id].reconcile)
<1>1. StoreTypeOK
  BY DEF ClientInv, TypeOK
<1>2. \E q : Write(id, q)
  BY DEF SaveExpected
<1>3. Succeeds(id) /\ (disk[id] # Absent => disk[id].rev = rev /\ ~disk[id].reconcile)
  BY <1>1, SaveExpectedSucceeds
<1> QED BY <1>2, <1>3, SuccessorTouches

\* handleSessionInterrupt, handleSessionReconcile, handleSessionClose and
\* handleSessionDelete
LEMMA HandlersRevise ==
  ASSUME ClientInv, NEW c \in Clients, NEW id \in SessionIds, NEW rev, rev = seen[c].session.rev,
         Learns(c, id),
         \/ Interrupt(id, rev) \/ Reconcile(id, rev, seen[c].evidence)
         \/ Close(id, rev) \/ Delete(id, rev)
  PROVE  Revised(c, id) /\ Respects(c, id)
<1>0. StoreTypeOK
  BY DEF ClientInv, TypeOK
<1>1. CASE Interrupt(id, rev)
  <2> DEFINE marker == [run |-> ManualRun, tools |-> {}, by |-> "manual"]
  <2>1. /\ CanMarkInterrupted(disk[id], rev) /\ Write(id, MarkInterruptedTo(disk[id], marker))
        /\ marker \in Markers
    BY <1>1 DEF Interrupt, Markers
  <2> HIDE DEF marker
  <2>2. Succeeds(id) /\ disk[id].rev = rev /\ ~disk[id].reconcile
    BY <1>0, <2>1, MarkInterruptedSucceeds
  <2> QED BY <2>1, <2>2, SuccessorTouches DEF Revised, Respects
<1>2. CASE Reconcile(id, rev, seen[c].evidence)
  <2>1. /\ Succeeds(id) /\ disk[id] # Absent /\ disk[id].rev = rev
        /\ seen[c].evidence = Assess(disk[id]) /\ disk'[id].messages = disk[id].messages
    BY <1>0, <1>2, ReconcileSucceeds
  <2>2. \E q : Write(id, q)
    BY <1>2 DEF Reconcile
  <2>3. Assess(disk[id]) # None
    <3>1. disk[id] \in Stored /\ workspace \in Evidence
      BY <1>0, <2>1 DEF StoreTypeOK
    <3>2. Assess(disk[id]) \in Assessments
      BY <3>1 DEF Assess, Assessments, Stored
    <3> QED BY <3>2, ClientNullAssumption
  <2>4. Assess(disk[id]).marker = disk[id].interruption /\ Assess(disk[id]).files = workspace
    BY DEF Assess
  <2> QED BY <2>1, <2>2, <2>3, <2>4, SuccessorTouches DEF Revised, Respects
<1>3. CASE Close(id, rev)
  <2>1. Succeeds(id) /\ disk[id].rev = rev /\ ~disk[id].reconcile
    BY <1>0, <1>3, CloseSucceeds
  <2>2. \E q : Write(id, q)
    BY <1>3 DEF Close
  <2> QED BY <2>1, <2>2, SuccessorTouches DEF Revised, Respects
<1>4. CASE Delete(id, rev)
  <2>1. /\ StoreTypeOK' /\ OthersKept(id)
        /\ disk'[id] = Absent /\ disk[id] # Absent /\ disk[id].rev = rev
    BY <1>0, <1>4, DeleteRemoves
  <2>2. Write(id, Absent)
    BY <1>4 DEF Delete
  <2>3. Touches(id)
    BY <1>0, <2>1, <2>2, CreatedAfter DEF Touches
  <2> QED BY <2>1, <2>3 DEF Revised, Respects
<1> QED BY <1>1, <1>2, <1>3, <1>4

\* MarkInterruptedExpected, called by a durable run
LEMMA RunMarkRevises ==
  ASSUME ClientInv, NEW c \in Clients, NEW id \in SessionIds, Learns(c, id),
         NEW marker \in Markers, CanMarkInterrupted(disk[id], seen[c].session.rev),
         Write(id, MarkInterruptedTo(disk[id], marker))
  PROVE  Revised(c, id) /\ Respects(c, id)
<1>1. StoreTypeOK
  BY DEF ClientInv, TypeOK
<1>2. Succeeds(id) /\ disk[id].rev = seen[c].session.rev /\ ~disk[id].reconcile
  BY <1>1, MarkInterruptedSucceeds
<1>3. Touches(id)
  BY <1>2, SuccessorTouches
<1> QED BY <1>2, <1>3 DEF Revised, Respects

\* UpdateInterruptedRunExpected, called by a durable run
LEMMA RunUpdateRevises ==
  ASSUME ClientInv, NEW c \in Clients, NEW id \in SessionIds, Learns(c, id),
         NEW marker, NEW next \in Markers,
         CanUpdateInterruptedRun(disk[id], seen[c].session.rev, marker, next),
         Write(id, UpdateInterruptedRunTo(disk[id], next))
  PROVE  Revised(c, id) /\ Respects(c, id)
<1>1. StoreTypeOK
  BY DEF ClientInv, TypeOK
<1>2. /\ Succeeds(id) /\ disk'[id].reconcile /\ disk'[id].interruption = next
      /\ disk[id].rev = seen[c].session.rev
      /\ disk[id].interruption = marker /\ next.run = marker.run
      /\ disk'[id].messages = disk[id].messages
  <2>1. ASSUME NEW e, e = seen[c].session.rev
        PROVE  /\ Succeeds(id) /\ disk'[id].reconcile /\ disk'[id].interruption = next
               /\ disk[id].rev = e
               /\ disk[id].interruption = marker /\ next.run = marker.run
               /\ disk'[id].messages = disk[id].messages
    <3>1. CanUpdateInterruptedRun(disk[id], e, marker, next)
      BY <2>1
    <3> QED BY <1>1, <3>1, UpdateInterruptedSucceeds
  <2> QED BY <2>1
<1>3. Touches(id)
  BY <1>2, SuccessorTouches
<1> QED BY <1>2, <1>3 DEF Revised, Respects

\* A receipt counts from a committed revision, so a run of a session that was
\* never committed has nothing to commit.
LEMMA CommitFindsSession ==
  ASSUME ClientInv, NEW c \in Clients, seen[c] # None, NEW marker,
         NEW receipt \in NewReceipts, NEW n, NEW s,
         receipt.expected = seen[c].session.lastCommitted,
         CanSave(s, seen[c].session.rev, marker, receipt, n)
  PROVE  s # Absent
<1> SUFFICES ASSUME s = Absent PROVE FALSE
  OBVIOUS
<1> DEFINE saved == [id |-> receipt.id, expected |-> receipt.expected,
                     committed |-> NextRevision(s), messages |-> receipt.messages]
<1>1. receipt # None
  BY ClientNullAssumption DEF NewReceipts
<1>2. saved # None
  <2>1. NextRevision(s) \in Revisions
    BY StoreAssumption DEF NextRevision, Revisions
  <2>2. saved \in Receipts
    BY <2>1 DEF NewReceipts, Receipts
  <2> QED BY <2>2, StoreNullAssumption
<1>3. ValidReceipt(saved, NextRevision(s), n)
  BY <1>1 DEF CanSave, SavedReceipt
<1>4. saved.expected # 0
  BY <1>2, <1>3 DEF ValidReceipt
<1>5. seen[c].session.rev = 0
  BY DEF CanSave, ExpectedMatches
<1>6. seen[c].session.lastCommitted = 0
  BY <1>5 DEF ClientInv, CopiesLoad, Loadable
<1> QED BY <1>4, <1>6

\* CommitAgentRun: the committed receipt names the revision it produced.
LEMMA RunCommitRevises ==
  ASSUME ClientInv, NEW c \in Clients, seen[c] # None, NEW id \in SessionIds, Learns(c, id),
         NEW receipt \in NewReceipts, NEW n \in Messages,
         receipt.expected = seen[c].session.lastCommitted,
         CanSave(disk[id], seen[c].session.rev, seen[c].session.interruption, receipt, n),
         Write(id, SaveTo(disk[id], receipt, n, None))
  PROVE  Revised(c, id) /\ Respects(c, id)
<1> DEFINE s == disk[id]
           q == SaveTo(s, receipt, n, None)
           rev == seen[c].session.rev
           mark == seen[c].session.interruption
<1>1. StoreTypeOK
  BY DEF ClientInv, TypeOK
<1>2. s # Absent
  BY CommitFindsSession
<1>3. CanSave(s, rev, mark, receipt, n) /\ s \in Stored
  BY <1>1, <1>2 DEF StoreTypeOK
<1>4. s.rev = rev /\ (s.reconcile => mark # None /\ s.interruption = mark)
  BY <1>2, <1>3 DEF CanSave, ExpectedMatches, LifecycleAllowsSave
<1>5. /\ q \in Stored /\ q.rev = s.rev + 1 /\ Loadable(q)
      /\ q.lastRequest = SavedReceipt(s, receipt) /\ q.rev = NextRevision(s)
  <2>1. ASSUME NEW e, NEW m, CanSave(s, e, m, receipt, n)
        PROVE  /\ q \in Stored /\ q.rev = NextRevision(s) /\ Loadable(q)
               /\ q.lastRequest = SavedReceipt(s, receipt)
    <3>1. q \in Stored /\ q.rev = NextRevision(s) /\ q.lastRequest = SavedReceipt(s, receipt)
      BY <1>3, <2>1, SaveResult
    <3>2. Loadable(q)
      BY <1>3, <2>1, SaveLoads
    <3> QED BY <3>1, <3>2
  <2> QED BY <1>2, <1>3, <2>1 DEF NextRevision
<1>6. SavedReceipt(s, receipt) # None /\ SavedReceipt(s, receipt).committed = NextRevision(s)
  <2>1. receipt # None
    BY ClientNullAssumption DEF NewReceipts
  <2>2. NextRevision(s) \in Revisions
    BY <1>2, <1>3, NextRevisionOfSave DEF CanSave
  <2> DEFINE saved == [id |-> receipt.id, expected |-> receipt.expected,
                       committed |-> NextRevision(s), messages |-> receipt.messages]
  <2>3. saved \in Receipts
    BY <2>2 DEF NewReceipts, Receipts
  <2>4. SavedReceipt(s, receipt) = saved
    BY <2>1 DEF SavedReceipt
  <2> QED BY <2>3, <2>4, StoreNullAssumption
<1>7. Write(id, q)
  OBVIOUS
<1> HIDE DEF q
<1>8. Succeeds(id) /\ disk'[id] = q
  BY <1>1, <1>2, <1>5, <1>7, SuccessorSucceeds
<1>9. Touches(id)
  BY <1>7, <1>8, SuccessorTouches
<1> QED BY <1>4, <1>5, <1>6, <1>8, <1>9 DEF Revised, Respects
-----------------------------------------------------------------------------
\* A call that created the session its caller learned, or that found it at the
\* revision the caller had read and respected its guard.
Creates(c, id) == Touches(id) /\ Learns(c, id) /\ disk[id] = Absent

Changes(c, id) == Revised(c, id) /\ Respects(c, id)

\* handleSessionSave of a session that does not exist
LEMMA CreateCreates ==
  ASSUME ClientInv, NEW c \in Clients, NEW id \in SessionIds, NEW n \in Messages,
         Create(c, id, n)
  PROVE  Creates(c, id)
BY SaveRevises DEF Create, Creates

\* Every other call: a client changes the session it has read, or forks it.
LEMMA MutateChanges ==
  ASSUME ClientInv, NEW c \in Clients, Mutate(c)
  PROVE  /\ seen[c] # None
         /\ \/ Changes(c, seen[c].id)
            \/ \E child \in SessionIds : Creates(c, child)
<1> DEFINE mine == seen[c].session
           files == seen[c].evidence
<1>1. /\ seen[c] # None /\ seen[c] \in Views
  BY DEF Mutate, ClientInv, TypeOK
<1>2. PICK id \in SessionIds : id = seen[c].id
  BY <1>1 DEF Views
<1>3. mine \in Stored
  BY <1>1 DEF Views
<1>4. StoreTypeOK
  BY DEF ClientInv, TypeOK
<1>5. CASE \E n \in Messages : SaveExpected(id, mine.rev, n) /\ Learns(c, id) /\ disk[id] # Absent
  <2>1. Touches(id) /\ disk[id].rev = mine.rev /\ ~disk[id].reconcile
    BY <1>5, SaveRevises
  <2> QED BY <1>1, <1>2, <1>5, <2>1 DEF Changes, Revised, Respects
<1>6. CASE /\ \/ Interrupt(id, mine.rev) \/ Reconcile(id, mine.rev, files)
              \/ Close(id, mine.rev) \/ Delete(id, mine.rev)
           /\ Learns(c, id)
  BY <1>1, <1>2, <1>6, HandlersRevise DEF Changes
<1>7. CASE \E child \in SessionIds : Fork(id, mine.rev, child) /\ Learns(c, child)
  <2>1. PICK child \in SessionIds : Fork(id, mine.rev, child) /\ Learns(c, child)
    BY <1>7
  <2>2. /\ StoreTypeOK' /\ OthersKept(child) /\ disk[child] = Absent
        /\ disk'[child] \in Stored /\ disk'[child] # Absent /\ Loadable(disk'[child])
    BY <1>4, <2>1, ForkWritesChild
  <2>3. \E q : Write(child, q)
    BY <2>1 DEF Fork
  <2>4. Touches(child)
    BY <1>4, <2>2, <2>3, CreatedAfter DEF Touches
  <2> QED BY <1>1, <2>1, <2>2, <2>4 DEF Creates
<1>8. CASE \E marker \in Markers :
             /\ CanMarkInterrupted(disk[id], mine.rev)
             /\ Write(id, MarkInterruptedTo(disk[id], marker))
             /\ Learns(c, id)
  BY <1>1, <1>2, <1>8, RunMarkRevises DEF Changes
<1>9. CASE \E next \in Markers :
             /\ CanUpdateInterruptedRun(disk[id], mine.rev, mine.interruption, next)
             /\ Write(id, UpdateInterruptedRunTo(disk[id], next))
             /\ Learns(c, id)
  BY <1>1, <1>2, <1>9, RunUpdateRevises DEF Changes
<1>10. CASE \E receipt \in NewReceipts, n \in Messages :
              /\ receipt.expected = mine.lastCommitted
              /\ CanSave(disk[id], mine.rev, mine.interruption, receipt, n)
              /\ Write(id, SaveTo(disk[id], receipt, n, None))
              /\ Learns(c, id)
  BY <1>1, <1>2, <1>10, RunCommitRevises DEF Changes
<1>11. \A run \in Runs, tools \in SUBSET Tools : [run |-> run, tools |-> tools, by |-> "journal"] \in Markers
  BY DEF Markers
<1>12. \A tool \in Tools : mine.interruption # None =>
         [mine.interruption EXCEPT !.tools = @ \cup {tool}] \in Markers
  BY <1>3 DEF Stored, Markers
<1>13. \A request \in Requests, m \in Messages :
         [id |-> request, expected |-> mine.lastCommitted, messages |-> m] \in NewReceipts
  BY <1>3 DEF Stored, NewReceipts
<1> HIDE DEF mine, files
<1> QED
  BY <1>2, <1>5, <1>6, <1>7, <1>8, <1>9, <1>10, <1>11, <1>12, <1>13 DEF Mutate, mine, files
-----------------------------------------------------------------------------
\* The store a process finds holds nothing or legacy sessions, which load.
LEMMA ClientsStart == Init => ClientInv
<1> SUFFICES ASSUME Init PROVE ClientInv
  OBVIOUS
<1>1. \A n \in Messages : LegacySession(n) \in Stored /\ Loadable(LegacySession(n))
  BY StoreAssumption DEF LegacySession, Stored, Lifecycles, Revisions, CurrentVersion, Loadable,
     ConsistentLifecycle, ValidReceipt
<1>2. disk \in [SessionIds -> {Absent} \cup {LegacySession(n) : n \in Messages}]
  BY DEF Init, StoreInit
<1>3. StoreTypeOK
  <2>1. 0 \in 0 .. MaxIncarnations /\ 1 \in 0 .. MaxIncarnations
    BY StoreAssumption
  <2>2. disk \in [SessionIds -> Stored \cup {Absent}]
    BY <1>1, <1>2
  <2> QED BY <2>1, <2>2 DEF Init, StoreInit, StoreTypeOK
<1>4. EveryFileLoads
  BY <1>1, <1>2 DEF EveryFileLoads
<1>5. \A c \in Clients : seen[c] = None
  BY DEF Init
<1>6. TypeOK /\ CopiesAreOld /\ CopiesLoad
  BY <1>3, <1>5 DEF Init, TypeOK, CopiesAreOld, CopyIsOld, CopiesLoad
<1> QED BY <1>4, <1>6 DEF ClientInv

\* handleSessionGet: the copy is the file.
LEMMA GetKeeps ==
  ASSUME ClientInv, NEW c \in Clients, NEW id \in SessionIds, Get(c, id)
  PROVE  ClientInv'
<1> DEFINE evidence == IF disk[id].reconcile THEN Assess(disk[id]) ELSE None
           new == [id |-> id, session |-> disk[id], born |-> created[id], evidence |-> evidence]
<1>1. /\ disk[id] # Absent /\ seen' = [seen EXCEPT ![c] = new]
      /\ disk' = disk /\ created' = created /\ workspace' = workspace
  BY DEF Get, storeVars
<1>2. disk[id] \in Stored /\ workspace \in Evidence /\ created[id] \in 0 .. MaxIncarnations
  BY <1>1 DEF ClientInv, TypeOK, StoreTypeOK
<1>3. new \in Views
  <2>1. Assess(disk[id]) \in Assessments
    BY <1>2 DEF Assess, Assessments, Stored
  <2>2. evidence \in Assessments \cup {None}
    BY <2>1
  <2> HIDE DEF evidence
  <2> QED BY <1>2, <2>2 DEF Views
<1>4. new.id = id /\ new.session = disk[id] /\ new.born = created[id]
  OBVIOUS
<1> HIDE DEF new, evidence
<1>5. TypeOK'
  BY <1>1, <1>3 DEF ClientInv, TypeOK, StoreTypeOK
<1>6. seen'[c] = new /\ \A other \in Clients : other # c => seen'[other] = seen[other]
  BY <1>1 DEF ClientInv, TypeOK
<1>7. EveryFileLoads' /\ Loadable(new.session)
  BY <1>1, <1>4 DEF ClientInv, EveryFileLoads
<1>8. CopiesLoad'
  BY <1>6, <1>7 DEF ClientInv, CopiesLoad
<1>9. CopyIsOld(c)'
  BY <1>1, <1>2, <1>4, <1>6 DEF CopyIsOld, Stored, Revisions
<1>10. \A other \in Clients : other # c => CopyIsOld(other)'
  BY <1>1, <1>6 DEF ClientInv, CopiesAreOld, CopyIsOld
<1> QED BY <1>5, <1>7, <1>8, <1>9, <1>10 DEF ClientInv, CopiesAreOld

\* A step creates a session, changes the one its caller has read, or leaves
\* every file as it is.
LEMMA StepKinds ==
  ASSUME ClientInv, [Next]_vars
  PROVE  \/ \E c \in Clients, id \in SessionIds : Creates(c, id)
         \/ \E c \in Clients : seen[c] # None /\ Changes(c, seen[c].id)
         \/ disk' = disk
<1>1. CASE \E c \in Clients, id \in SessionIds : Get(c, id)
  BY <1>1 DEF Get, storeVars
<1>2. CASE \E c \in Clients, id \in SessionIds, n \in Messages : Create(c, id, n)
  BY <1>2, CreateCreates
<1>3. CASE \E c \in Clients : Mutate(c)
  BY <1>3, MutateChanges
<1>4. CASE FilesChange \/ UNCHANGED vars
  BY <1>4 DEF FilesChange, vars, storeVars
<1> QED BY <1>1, <1>2, <1>3, <1>4 DEF Next

\* Every step keeps the invariant.
LEMMA ClientStep ==
  ASSUME ClientInv, [Next]_vars
  PROVE  ClientInv'
<1>1. CASE \E c \in Clients, id \in SessionIds : Get(c, id)
  BY <1>1, GetKeeps
<1>2. CASE \E c \in Clients, id \in SessionIds, n \in Messages : Create(c, id, n)
  BY <1>2, CreateCreates, CallKeeps DEF Creates
<1>3. CASE \E c \in Clients : Mutate(c)
  <2>1. PICK c \in Clients : Mutate(c)
    BY <1>3
  <2>2. CASE \E child \in SessionIds : Creates(c, child)
    BY <2>2, CallKeeps DEF Creates
  <2>3. CASE Changes(c, seen[c].id)
    <3>1. seen[c] \in Views
      BY <2>1, MutateChanges DEF ClientInv, TypeOK
    <3>2. PICK id \in SessionIds : id = seen[c].id
      BY <3>1 DEF Views
    <3>3. Touches(id) /\ Learns(c, id)
      BY <2>3, <3>2 DEF Changes, Revised
    <3> QED BY <3>3, CallKeeps
  <2> QED BY <2>1, <2>2, <2>3, MutateChanges
<1>4. CASE FilesChange /\ UNCHANGED seen
  BY <1>4 DEF FilesChange, ClientInv, TypeOK, StoreTypeOK, EveryFileLoads, CopiesAreOld, CopyIsOld,
     CopiesLoad
<1>5. CASE UNCHANGED vars
  BY <1>5 DEF vars, storeVars, ClientInv, TypeOK, StoreTypeOK, EveryFileLoads, CopiesAreOld,
     CopyIsOld, CopiesLoad
<1> QED BY <1>1, <1>2, <1>3, <1>4, <1>5 DEF Next

\* The invariant holds in every reachable state.
LEMMA ClientsKeepInv == Spec => []ClientInv
BY ClientsStart, ClientStep, PTL DEF Spec

\* Every variable of the store and its clients keeps its type.
THEOREM SessionTypes == Spec => []TypeOK
<1>1. ClientInv => TypeOK
  BY DEF ClientInv
<1> QED BY <1>1, ClientsKeepInv, PTL

\* No call of the session API, and no call of a durable run, leaves a file the
\* loader would report as corrupt.
THEOREM FilesLoad == Spec => []EveryFileLoads
<1>1. ClientInv => EveryFileLoads
  BY DEF ClientInv
<1> QED BY <1>1, ClientsKeepInv, PTL

-----------------------------------------------------------------------------
\* Who changed a session that existed: the client that acts, at the revision it
\* had read, with the guard respected.
LEMMA ChangedBy ==
  ASSUME ClientInv, [Next]_vars, NEW id \in SessionIds, NEW c \in Clients,
         disk[id] # Absent, disk'[id] # disk[id], Acts(c)
  PROVE  seen[c] # None /\ seen[c].id = id /\ Changes(c, id)
<1>1. CASE \E d \in Clients, i \in SessionIds : Creates(d, i)
  BY <1>1 DEF Creates, Touches, OthersKept
<1>2. CASE \E d \in Clients : seen[d] # None /\ Changes(d, seen[d].id)
  <2>1. PICK d \in Clients : seen[d] # None /\ Changes(d, seen[d].id)
    BY <1>2
  <2>2. seen[d].id = id
    BY <2>1 DEF Changes, Revised, Touches, OthersKept
  <2>3. d = c
    BY <2>1, <2>2 DEF Changes, Revised, Learns, Acts, ClientInv, TypeOK
  <2> QED BY <2>1, <2>2, <2>3
<1> QED BY <1>1, <1>2, StepKinds

\* A file of a session that exists is replaced by its successor.
LEMMA RevisionStep ==
  ASSUME ClientInv, [Next]_vars
  PROVE  \A id \in SessionIds :
           disk[id] # Absent /\ disk'[id] \notin {Absent, disk[id]} =>
             disk'[id].rev = disk[id].rev + 1
<1> SUFFICES ASSUME NEW id \in SessionIds, disk[id] # Absent, disk'[id] # disk[id],
                    disk'[id] # Absent
             PROVE  disk'[id].rev = disk[id].rev + 1
  OBVIOUS
<1>1. Touches(id)
  <2>1. CASE \E d \in Clients, i \in SessionIds : Creates(d, i)
    BY <2>1 DEF Creates, Touches, OthersKept
  <2>2. CASE \E d \in Clients : seen[d] # None /\ Changes(d, seen[d].id)
    BY <2>2 DEF Changes, Revised, Touches, OthersKept
  <2> QED BY <2>1, <2>2, StepKinds
<1> QED BY <1>1 DEF Touches

\* A revision names one content for as long as its session exists.
THEOREM RevisionsNameContent == Spec => RevisionNamesContent
BY ClientsKeepInv, RevisionStep, PTL DEF Spec, RevisionNamesContent

\* A session is replaced or deleted at the state its caller has read.
LEMMA UpdateStep ==
  ASSUME ClientInv, [Next]_vars
  PROVE  \A id \in SessionIds, c \in Clients :
           disk[id] # Absent /\ disk'[id] # disk[id] /\ Acts(c) =>
             /\ seen[c] # None
             /\ seen[c].id = id
             /\ seen[c].born = created[id] => seen[c].session = disk[id]
<1> SUFFICES ASSUME NEW id \in SessionIds, NEW c \in Clients, disk[id] # Absent,
                    disk'[id] # disk[id], Acts(c)
             PROVE  /\ seen[c] # None
                    /\ seen[c].id = id
                    /\ seen[c].born = created[id] => seen[c].session = disk[id]
  OBVIOUS
<1>1. seen[c] # None /\ seen[c].id = id /\ disk[id].rev = seen[c].session.rev
  BY ChangedBy DEF Changes, Revised
<1> QED BY <1>1 DEF ClientInv, CopiesAreOld, CopyIsOld

\* Of two clients that read the same revision one wins; the other is refused.
THEOREM NoUpdateIsLost == Spec => NoLostUpdate
BY ClientsKeepInv, UpdateStep, PTL DEF Spec, NoLostUpdate

\* A guard is kept, committed by its own run or reconciled by a reviewer.
LEMMA GuardStep ==
  ASSUME ClientInv, [Next]_vars
  PROVE  \A id \in SessionIds, c \in Clients :
           disk[id] # Absent /\ disk'[id] \notin {Absent, disk[id]} /\ disk[id].reconcile /\ Acts(c) =>
             \/ /\ disk'[id].reconcile
                /\ disk'[id].messages = disk[id].messages
                /\ disk'[id].interruption.run = disk[id].interruption.run
             \/ /\ seen[c].session.interruption = disk[id].interruption
                /\ disk'[id].lastRequest # None
                /\ disk'[id].lastRequest.committed = disk'[id].rev
             \/ /\ seen[c].evidence # None
                /\ seen[c].evidence.marker = disk[id].interruption
                /\ seen[c].evidence.files = workspace
                /\ disk'[id].messages = disk[id].messages
<1> SUFFICES ASSUME NEW id \in SessionIds, NEW c \in Clients, disk[id] # Absent,
                    disk'[id] # disk[id], disk'[id] # Absent, disk[id].reconcile, Acts(c)
             PROVE  \/ /\ disk'[id].reconcile
                       /\ disk'[id].messages = disk[id].messages
                       /\ disk'[id].interruption.run = disk[id].interruption.run
                    \/ /\ seen[c].session.interruption = disk[id].interruption
                       /\ disk'[id].lastRequest # None
                       /\ disk'[id].lastRequest.committed = disk'[id].rev
                    \/ /\ seen[c].evidence # None
                       /\ seen[c].evidence.marker = disk[id].interruption
                       /\ seen[c].evidence.files = workspace
                       /\ disk'[id].messages = disk[id].messages
  OBVIOUS
<1>1. Respects(c, id)
  BY ChangedBy DEF Changes
<1> QED BY <1>1 DEF Respects

\* An interrupted session is not silently resumed by anybody.
THEOREM GuardsHold == Spec => GuardHolds
BY ClientsKeepInv, GuardStep, PTL DEF Spec, GuardHolds

-----------------------------------------------------------------------------
(***************************************************************************)
(* The background server those clients share, and the update of its        *)
(* executable.                                                             *)
(***************************************************************************)
CONSTANTS Children, NoOne, Suspends, Procs, Contents, Ops, MaxOps
VARIABLES client, lease, child, server, proc, watch, signalled, lock, port,
          target, backup, source, aside, updateProc, ops

Life == INSTANCE ServerLifecycle

\* Clients and children are different processes, and neither is "nobody".
ServerConstants ==
  /\ Clients \cap Children = {} /\ NoOne \notin Clients \cup Children
  /\ Suspends \in BOOLEAN

ClientStates == {"out", "waiting", "probing", "starting", "attached", "failed", "crashed", "gone"}

\* Who holds the startup lock: a client from its probe to the end of its
\* start, or a child that runs, which keeps it to the end of its drain; a child
\* that was sent a signal drains without it.
LockInv ==
  /\ lock \in Clients \cup Children \cup {NoOne} /\ port \in Children \cup {NoOne}
  /\ \A c \in Clients : client[c] \in {"probing", "starting"} <=> lock = c
  /\ \A s \in Children : (proc[s] = "drain" => lock = s \/ s \in signalled) /\ (lock = s => Life!Running(s))
  /\ \A s \in Children : port = s => proc[s] \in {"up", "drain"}
  /\ signalled \subseteq Children

\* What a client has: no lease and no child before its start and none after
\* a failed one, a server once it is attached.
ClientHolds(c) ==
  /\ client[c] \in {"out", "waiting", "probing", "failed"} => lease[c] = "none"
  /\ client[c] \in {"out", "waiting", "probing"} => child[c] = NoOne
  /\ child[c] \in Children => proc[child[c]] # "none"
  /\ client[c] = "starting" => child[c] \in Children
  /\ client[c] = "failed" /\ child[c] \in Children => proc[child[c]] = "dead"
  /\ client[c] = "attached" => server[c] \in Children
  /\ client[c] \in {"starting", "attached"} /\ ~Suspends => lease[c] = "live"
  /\ client[c] = "attached" /\ ~Suspends => proc[server[c]] # "drain" \/ server[c] \in signalled

\* The inductive invariant of the managed server and its clients.
ServerInv ==
  /\ client \in [Clients -> ClientStates]
  /\ lease \in [Clients -> {"none", "live", "expired"}]
  /\ child \in [Clients -> Children \cup {NoOne}] /\ server \in [Clients -> Children \cup {NoOne}]
  /\ proc \in [Children -> {"none", "boot", "up", "drain", "dead"}]
  /\ LockInv
  /\ \A c \in Clients : ClientHolds(c)

\* The invariant holds initially.
LEMMA ServerInitially == ServerConstants /\ Life!ManagedInit => ServerInv
  BY DEF ServerConstants, Life!ManagedInit, ServerInv, LockInv, ClientHolds, ClientStates, Life!Running

\* What the steps of a client keep.
LEMMA ClientKeeps ==
  ASSUME ServerConstants, ServerInv, NEW c \in Clients,
         \/ Life!Arrive(c) \/ Life!AcquireStartLock(c) \/ Life!LockTimeout(c) \/ Life!ProbeReady(c) \/ Life!ProbeFails(c)
         \/ Life!BecomesReady(c) \/ Life!ChildExited(c) \/ Life!Leave(c) \/ Life!Crash(c) \/ Life!LeaseExpires(c) \/ Life!Heartbeat(c)
  PROVE  ServerInv'
<1>1. /\ client \in [Clients -> ClientStates] /\ lease \in [Clients -> {"none", "live", "expired"}]
      /\ child \in [Clients -> Children \cup {NoOne}] /\ server \in [Clients -> Children \cup {NoOne}]
      /\ proc \in [Children -> {"none", "boot", "up", "drain", "dead"}]
      /\ LockInv /\ ClientHolds(c) /\ \A d \in Clients : ClientHolds(d)
  BY DEF ServerInv
<1>2. UNCHANGED <<proc, port, child, signalled>>
  BY DEF Life!Arrive, Life!AcquireStartLock, Life!LockTimeout, Life!ProbeReady, Life!ProbeFails,
         Life!BecomesReady, Life!ChildExited, Life!Leave, Life!Crash, Life!LeaseExpires, Life!Heartbeat
<1>3. /\ client' \in [Clients -> ClientStates] /\ lease' \in [Clients -> {"none", "live", "expired"}]
      /\ server' \in [Clients -> Children \cup {NoOne}]
  BY <1>1 DEF Life!Arrive, Life!AcquireStartLock, Life!LockTimeout, Life!ProbeReady,
         Life!ProbeFails, Life!BecomesReady, Life!ChildExited, Life!Leave, Life!Crash, Life!LeaseExpires,
         Life!Heartbeat, LockInv, ClientStates
<1>4. \A d \in Clients \ {c} : client'[d] = client[d] /\ lease'[d] = lease[d] /\ server'[d] = server[d]
  BY <1>1 DEF Life!Arrive, Life!AcquireStartLock, Life!LockTimeout, Life!ProbeReady,
         Life!ProbeFails, Life!BecomesReady, Life!ChildExited, Life!Leave, Life!Crash, Life!LeaseExpires,
         Life!Heartbeat
<1>5. \A d \in Clients \ {c} : ClientHolds(d)'
  BY <1>1, <1>2, <1>4 DEF ClientHolds
<1>6. CASE Life!Arrive(c) \/ Life!LockTimeout(c) \/ Life!Leave(c) \/ Life!LeaseExpires(c) \/ Life!Heartbeat(c)
  <2>1. lock' = lock /\ server' = server
    BY <1>6 DEF Life!Arrive, Life!LockTimeout, Life!Leave, Life!LeaseExpires, Life!Heartbeat
  <2>2. \/ client[c] \notin {"probing", "starting"} /\ client'[c] \notin {"probing", "starting"}
        \/ client' = client
    BY <1>1, <1>6 DEF Life!Arrive, Life!LockTimeout, Life!Leave, Life!LeaseExpires, Life!Heartbeat
  <2>3. LockInv'
    BY <1>1, <1>2, <1>4, <2>1, <2>2 DEF LockInv, Life!Running
  <2>4. ClientHolds(c)'
    BY <1>1, <1>2, <1>6, <2>1 DEF ClientHolds, Life!Arrive, Life!LockTimeout, Life!Leave,
           Life!LeaseExpires, Life!Heartbeat, ServerConstants
  <2> QED
    BY <1>1, <1>2, <1>3, <1>5, <2>3, <2>4 DEF ServerInv
<1>7. CASE Life!AcquireStartLock(c)
  <2>1. /\ client[c] = "waiting" /\ lock = NoOne /\ lock' = c /\ client'[c] = "probing"
        /\ lease' = lease /\ server' = server
    BY <1>1, <1>7 DEF Life!AcquireStartLock
  <2>2. LockInv'
    BY <1>1, <1>2, <1>4, <2>1 DEF LockInv, Life!Running, ServerConstants
  <2>3. ClientHolds(c)'
    BY <1>1, <1>2, <2>1 DEF ClientHolds
  <2> QED
    BY <1>1, <1>2, <1>3, <1>5, <2>2, <2>3 DEF ServerInv
<1>8. CASE Life!ProbeFails(c) \/ Life!ChildExited(c)
  <2>1. /\
          client[c] \in {"probing", "starting"} /\ lock' = NoOne /\ client'[c] = "failed" /\ server' = server
        /\ lease'[c] = "none"
        /\ client[c] = "starting" => proc[child[c]] = "dead"
    BY <1>1, <1>8 DEF Life!ProbeFails, Life!ChildExited, ClientHolds
  <2>2. lock = c
    BY <1>1, <2>1 DEF LockInv
  <2>3. LockInv'
    BY <1>1, <1>2, <1>4, <2>1, <2>2 DEF LockInv, Life!Running, ServerConstants
  <2>4. ClientHolds(c)'
    BY <1>1, <1>2, <2>1 DEF ClientHolds, ServerConstants
  <2> QED
    BY <1>1, <1>2, <1>3, <1>5, <2>3, <2>4 DEF ServerInv
<1>9. CASE Life!ProbeReady(c) \/ Life!BecomesReady(c)
  <2>1. /\ client[c] \in {"probing", "starting"} /\ lock' = NoOne /\ client'[c] = "attached"
        /\ server'[c] = port /\ port # NoOne
        /\ lease'[c] = "live" \/ (client[c] = "starting" /\ lease'[c] = lease[c])
    BY <1>1, <1>9 DEF Life!ProbeReady, Life!BecomesReady
  <2>2. lock = c /\ port \in Children
    BY <1>1, <2>1 DEF LockInv
  <2>3. LockInv'
    BY <1>1, <1>2, <1>4, <2>1, <2>2 DEF LockInv, Life!Running, ServerConstants
  <2>4. proc[port] # "drain" \/ port \in signalled
    BY <1>1, <2>2 DEF LockInv, ServerConstants
  <2>5. ~Suspends => lease'[c] = "live"
    BY <1>1, <2>1 DEF ClientHolds
  <2>6. child[c] \in Children => proc[child[c]] # "none"
    BY <1>1 DEF ClientHolds
  <2>7. ClientHolds(c)'
    BY <1>2, <2>1, <2>2, <2>4, <2>5, <2>6 DEF ClientHolds
  <2> QED
    BY <1>1, <1>2, <1>3, <1>5, <2>3, <2>7 DEF ServerInv
<1>10. CASE Life!Crash(c)
  <2>1. /\ client'[c] = "crashed" /\ lock' = (IF lock = c THEN NoOne ELSE lock)
        /\ lease' = lease /\ server' = server
    BY <1>1, <1>10 DEF Life!Crash
  <2>2. LockInv'
    BY <1>1, <1>2, <1>4, <2>1 DEF LockInv, Life!Running, ServerConstants
  <2>3. ClientHolds(c)'
    BY <1>1, <1>2, <2>1 DEF ClientHolds
  <2> QED
    BY <1>1, <1>2, <1>3, <1>5, <2>2, <2>3 DEF ServerInv
<1> QED
  BY <1>6, <1>7, <1>8, <1>9, <1>10

\* The start of a child, and its end when it does not become ready in time.
LEMMA StartsKeep ==
  ASSUME ServerConstants, ServerInv, NEW c \in Clients,
         Life!StartTimeout(c) \/ \E s \in Children : Life!StartChild(c, s)
  PROVE  ServerInv'
<1>1. /\ client \in [Clients -> ClientStates] /\ lease \in [Clients -> {"none", "live", "expired"}]
      /\ child \in [Clients -> Children \cup {NoOne}] /\ server \in [Clients -> Children \cup {NoOne}]
      /\ proc \in [Children -> {"none", "boot", "up", "drain", "dead"}]
      /\ LockInv /\ \A d \in Clients : ClientHolds(d)
  BY DEF ServerInv
<1>2. CASE Life!StartTimeout(c)
  <2> DEFINE k == child[c]
  <2>1. /\ client[c] = "starting" /\ client' = [client EXCEPT ![c] = "failed"]
        /\ lease' = [lease EXCEPT ![c] = "none"] /\ proc' = [proc EXCEPT ![k] = "dead"]
        /\ port' = (IF port = k THEN NoOne ELSE port) /\ lock' = NoOne /\ UNCHANGED <<child, server, watch, signalled>>
    BY <1>2 DEF Life!StartTimeout
  <2>2. lock = c /\ k \in Children
    BY <1>1, <2>1 DEF LockInv, ClientHolds
  <2> HIDE DEF k
  <2>3. /\ \A s \in Children : proc'[s] = IF s = k THEN "dead" ELSE proc[s]
        /\ proc' \in [Children -> {"none", "boot", "up", "drain", "dead"}]
        /\ client' \in [Clients -> ClientStates] /\ lease' \in [Clients -> {"none", "live", "expired"}]
        /\ client'[c] = "failed" /\ lease'[c] = "none"
        /\ \A d \in Clients \ {c} : client'[d] = client[d] /\ lease'[d] = lease[d]
    BY <1>1, <2>1, <2>2 DEF ClientStates
  <2>4. LockInv'
    BY <1>1, <2>1, <2>2, <2>3 DEF LockInv, Life!Running, ServerConstants
  <2>5. ClientHolds(c)'
    BY <1>1, <2>1, <2>2, <2>3 DEF ClientHolds, k
  <2>6. ASSUME NEW d \in Clients \ {c} PROVE ClientHolds(d)'
    BY <1>1, <2>1, <2>2, <2>3 DEF ClientHolds
  <2> QED
    BY <1>1, <2>1, <2>3, <2>4, <2>5, <2>6 DEF ServerInv
<1>3. ASSUME NEW s \in Children, Life!StartChild(c, s) PROVE ServerInv'
  <2>1. /\ client[c] = "probing" /\ proc[s] = "none"
        /\ lease' = [lease EXCEPT ![c] = "live"] /\ client' = [client EXCEPT ![c] = "starting"]
        /\ child' = [child EXCEPT ![c] = s] /\ proc' = [proc EXCEPT ![s] = "boot"]
        /\ UNCHANGED <<server, watch, signalled, lock, port>>
    BY <1>3 DEF Life!StartChild
  <2>2. lock = c
    BY <1>1, <2>1 DEF LockInv
  <2>3. /\ \A t \in Children : proc'[t] = IF t = s THEN "boot" ELSE proc[t]
        /\ proc' \in [Children -> {"none", "boot", "up", "drain", "dead"}]
        /\ client' \in [Clients -> ClientStates] /\ lease' \in [Clients -> {"none", "live", "expired"}]
        /\ child' \in [Clients -> Children \cup {NoOne}]
        /\ client'[c] = "starting" /\ lease'[c] = "live" /\ child'[c] = s
        /\ \A d \in Clients \ {c} : client'[d] = client[d] /\ lease'[d] = lease[d] /\ child'[d] = child[d]
    BY <1>1, <2>1 DEF ClientStates
  <2>4. LockInv'
    BY <1>1, <2>1, <2>2, <2>3 DEF LockInv, Life!Running, ServerConstants
  <2>5. ClientHolds(c)'
    BY <2>3 DEF ClientHolds
  <2>6. ASSUME NEW d \in Clients \ {c} PROVE ClientHolds(d)'
    BY <1>1, <2>1, <2>3 DEF ClientHolds
  <2> QED
    BY <1>1, <2>1, <2>3, <2>4, <2>5, <2>6 DEF ServerInv
<1> QED
  BY <1>2, <1>3

\* The steps of a child; one decides to drain under the lock, when no lease is
\* live, or is told to by a signal.
LEMMA ChildKeeps ==
  ASSUME ServerConstants, ServerInv, NEW s \in Children,
         \/ Life!Listen(s) \/ Life!Look(s) \/ Life!AcquireIdleLock(s) \/ Life!Recheck(s)
         \/ Life!Signal(s) \/ Life!Drain(s) \/ Life!Die(s)
  PROVE  ServerInv'
<1>1. /\ client \in [Clients -> ClientStates] /\ lease \in [Clients -> {"none", "live", "expired"}]
      /\ child \in [Clients -> Children \cup {NoOne}] /\ server \in [Clients -> Children \cup {NoOne}]
      /\ proc \in [Children -> {"none", "boot", "up", "drain", "dead"}]
      /\ LockInv /\ \A d \in Clients : ClientHolds(d)
  BY DEF ServerInv
<1>2. UNCHANGED <<client, lease, child, server>>
  BY DEF Life!Listen, Life!Look, Life!AcquireIdleLock, Life!Recheck, Life!Signal, Life!Drain, Life!Die
<1>3. ASSUME NEW p \in {"none", "boot", "up", "drain", "dead"}, proc' = [proc EXCEPT ![s] = p],
             p # "none", LockInv', signalled \subseteq signalled',
             \A d \in Clients : client[d] = "failed" /\ child[d] = s => p = "dead",
             p = "drain" => proc[s] = "drain" \/ ~Life!Live \/ s \in signalled'
      PROVE  ServerInv'
  <2>1. /\ proc' \in [Children -> {"none", "boot", "up", "drain", "dead"}]
        /\ \A t \in Children : proc'[t] = IF t = s THEN p ELSE proc[t]
    BY <1>1, <1>3
  <2>2. ASSUME NEW d \in Clients PROVE ClientHolds(d)'
    BY <1>1, <1>2, <1>3, <2>1 DEF ClientHolds, Life!Live
  <2> QED
    BY <1>1, <1>2, <1>3, <2>1, <2>2 DEF ServerInv
<1>4. ASSUME proc' = proc, signalled' = signalled, LockInv' PROVE ServerInv'
  BY <1>1, <1>2, <1>4 DEF ServerInv, ClientHolds
<1>5. Life!Running(s) => \A d \in Clients : ~(client[d] = "failed" /\ child[d] = s)
  BY <1>1 DEF ClientHolds, Life!Running
<1>6. CASE Life!Listen(s)
  <2> DEFINE p == IF proc[s] = "boot" THEN "up" ELSE "drain"
  <2>1. proc[s] \in {"boot", "drain"} /\ signalled' = signalled
    BY <1>6 DEF Life!Listen
  <2>2. CASE port = NoOne
    <3>1. port' = s /\ proc' = [proc EXCEPT ![s] = p] /\ lock' = lock
      BY <1>1, <1>6, <2>1, <2>2 DEF Life!Listen
    <3>2. LockInv'
      BY <1>1, <1>2, <2>1, <2>2, <3>1 DEF LockInv, Life!Running, ServerConstants
    <3> QED
      BY <1>3, <1>5, <2>1, <3>1, <3>2 DEF Life!Running
  <2>3. CASE port # NoOne
    <3>1. port' = port /\ proc' = [proc EXCEPT ![s] = "dead"] /\ port # s
          /\ lock' = IF lock = s THEN NoOne ELSE lock
      BY <1>6, <2>3 DEF Life!Listen
    <3>2. LockInv'
      BY <1>1, <1>2, <2>1, <3>1 DEF LockInv, Life!Running, ServerConstants
    <3> QED
      BY <1>3, <2>1, <3>1, <3>2
  <2> QED
    BY <2>2, <2>3
<1>7. CASE Life!Look(s)
  <2>1. UNCHANGED <<proc, signalled, lock, port>>
    BY <1>7 DEF Life!Look
  <2> QED
    BY <1>1, <1>2, <1>4, <2>1 DEF LockInv, Life!Running
<1>8. CASE Life!AcquireIdleLock(s)
  <2>1. proc[s] \in {"boot", "up"} /\ lock = NoOne /\ lock' = s /\ UNCHANGED <<proc, signalled, port>>
    BY <1>8 DEF Life!AcquireIdleLock
  <2>2. LockInv'
    BY <1>1, <1>2, <2>1 DEF LockInv, Life!Running, ServerConstants
  <2> QED
    BY <1>4, <2>1, <2>2
<1>9. CASE Life!Recheck(s)
  <2>1. lock = s /\ proc[s] \in {"boot", "up"} /\ port' = port /\ signalled' = signalled
    BY <1>9 DEF Life!Recheck
  <2>2. CASE Life!Live
    <3>1. lock' = NoOne /\ proc' = proc
      BY <1>9, <2>2 DEF Life!Recheck
    <3>2. LockInv'
      BY <1>1, <1>2, <2>1, <3>1 DEF LockInv, Life!Running, ServerConstants
    <3> QED
      BY <1>4, <2>1, <3>1, <3>2
  <2>3. CASE ~Life!Live
    <3>1. proc' = [proc EXCEPT ![s] = "drain"] /\ lock' = lock
      BY <1>9, <2>3 DEF Life!Recheck
    <3>2. LockInv'
      BY <1>1, <1>2, <2>1, <3>1 DEF LockInv, Life!Running
    <3> QED
      BY <1>3, <1>5, <2>1, <2>3, <3>1, <3>2 DEF Life!Running
  <2> QED
    BY <2>2, <2>3
<1>10. CASE Life!Signal(s)
  <2>1. proc[s] \in {"boot", "up"} /\ proc' = [proc EXCEPT ![s] = "drain"] /\ port' = port
    BY <1>10 DEF Life!Signal
  <2>2. CASE lock = s /\ ~Life!Live
    <3>1. lock' = lock /\ signalled' = signalled
      BY <1>10, <2>2 DEF Life!Signal
    <3>2. LockInv'
      BY <1>1, <1>2, <2>1, <2>2, <3>1 DEF LockInv, Life!Running
    <3> QED
      BY <1>3, <1>5, <2>1, <2>2, <3>1, <3>2 DEF Life!Running
  <2>3. CASE ~(lock = s /\ ~Life!Live)
    <3>1. signalled' = signalled \cup {s} /\ lock' = IF lock = s THEN NoOne ELSE lock
      BY <1>10, <2>3 DEF Life!Signal
    <3>2. LockInv'
      BY <1>1, <1>2, <2>1, <3>1 DEF LockInv, Life!Running, ServerConstants
    <3> QED
      BY <1>3, <1>5, <2>1, <3>1, <3>2 DEF Life!Running
  <2> QED
    BY <2>2, <2>3
<1>11. CASE Life!Drain(s) \/ Life!Die(s)
  <2>1. /\ Life!Running(s) /\ proc' = [proc EXCEPT ![s] = "dead"]
        /\ port' = (IF port = s THEN NoOne ELSE port) /\ lock' = (IF lock = s THEN NoOne ELSE lock)
        /\ signalled' = signalled
    BY <1>11 DEF Life!Drain, Life!Die, Life!Running
  <2>2. LockInv'
    BY <1>1, <1>2, <2>1 DEF LockInv, Life!Running, ServerConstants
  <2> QED
    BY <1>3, <2>1, <2>2
<1> QED
  BY <1>6, <1>7, <1>8, <1>9, <1>10, <1>11

\* The managed server and its clients keep their invariant.
LEMMA ServerInvariant ==
  ASSUME ServerConstants
  PROVE  Life!ManagedSpec => []ServerInv
<1>1. Life!ManagedInit => ServerInv
  BY ServerInitially
<1>2. ASSUME ServerInv, [Life!ManagedNext]_(Life!managedVars) PROVE ServerInv'
  <2>1. CASE UNCHANGED Life!managedVars
    BY <1>2, <2>1 DEF Life!managedVars, ServerInv, LockInv, ClientHolds, Life!Running
  <2>2. CASE Life!ManagedNext
    BY <1>2, <2>2, ClientKeeps, StartsKeep, ChildKeeps DEF Life!ManagedNext
  <2> QED
    BY <1>2, <2>1, <2>2
<1> QED
  BY <1>1, <1>2, PTL DEF Life!ManagedSpec

\* A client that reports a failed start leaves no lease, no lock and no child
\* behind, however long it or others were suspended (waitForManagedServer).
THEOREM FailedStartsAreClean ==
  ASSUME ServerConstants
  PROVE  Life!ManagedSpec => [](Life!ManagedTypeOK /\ Life!FailedStartLeavesNothing)
<1>1. ServerConstants /\ ServerInv => Life!ManagedTypeOK
  BY DEF ServerInv, LockInv, Life!ManagedTypeOK, ClientStates, Life!Running
<1>2. ServerConstants /\ ServerInv => Life!FailedStartLeavesNothing
  BY DEF ServerInv, LockInv, ClientHolds, Life!FailedStartLeavesNothing, Life!Running
<1> QED
  BY <1>1, <1>2, ServerInvariant, PTL

\* A client whose heartbeat is never held up past the lease is attached to no
\* server that drains, unless that server was sent a signal
\* (waitForManagedServerIdleLock, main).
THEOREM AttachedServersServe ==
  ASSUME ServerConstants, ~Suspends
  PROVE  Life!ManagedSpec => []Life!NeverAttachedToDraining
<1>1. ServerInv => Life!NeverAttachedToDraining
  BY DEF ServerInv, ClientHolds, Life!NeverAttachedToDraining
<1> QED
  BY <1>1, ServerInvariant, PTL

-----------------------------------------------------------------------------
(***************************************************************************)
(* The update of the executable, for one update at a time.                 *)
(***************************************************************************)

\* One update at a time; what the artifact may turn into.
UpdateConstants ==
  /\ \A p, q \in Procs : p = q
  /\ Contents \subseteq {"new", "bad"} /\ Ops \subseteq {"install", "rollback"}

InstallAt == {"verify", "inspect", "stage", "moveOld", "moveNew", "check", "restore"}
RollbackAt == {"prepare", "setAside", "bringBack"}
UpdateRecord ==
  [op : {"none", "install", "rollback"}, at : InstallAt \cup RollbackAt \cup {"idle"},
   staged : {"new", "bad", Life!None}, was : {"old", "new", "bad", Life!None},
   result : {"none", "error", "installed", "rolledBack", "uncertain", "killed"}]

\* How far an update is, and where the executable it found is meanwhile.
UpdateAt(u) ==
  /\ u.at \in InstallAt => u.op = "install"
  /\ u.at \in RollbackAt => u.op = "rollback"
  /\ u.at \in {"verify", "inspect", "stage", "moveOld"} => target = u.was
  /\ u.at \in {"stage", "moveOld"} => backup = Life!None
  /\ u.at \in {"moveNew", "check", "restore"} => backup = u.was /\ backup = "old"
  /\ u.at \in {"setAside", "bringBack"} => backup = "old"
  /\ u.staged # Life!None => u.at \in {"moveOld", "moveNew", "check", "restore"}
  /\ u.at \in {"moveOld", "moveNew"} => u.staged # Life!None
  /\ u.at = "idle" /\ u.op = "install" =>
       /\ u.result = "error" => target = u.was
       /\ u.result = "installed" => target = "new" /\ backup = u.was

\* The backup is the original or nothing, and then the original is in place.
UpdateInv ==
  /\ target \in {"old", "new", "bad", Life!None} /\ source \in {"new", "bad"}
  /\ aside \in [Procs -> {"old", "new", "bad", Life!None}]
  /\ backup = "old" \/ (backup = Life!None /\ target = "old")
  /\ updateProc \in [Procs -> UpdateRecord]
  /\ \A p \in Procs : UpdateAt(updateProc[p])

\* The invariant holds initially.
LEMMA UpdateInitially == UpdateConstants /\ Life!UpdateInit => UpdateInv
<1> SUFFICES ASSUME UpdateConstants, Life!UpdateInit PROVE UpdateInv
  OBVIOUS
<1>1. Life!Idle \in UpdateRecord /\ UpdateAt(Life!Idle)
  BY DEF Life!Idle, UpdateRecord, UpdateAt, Life!None, InstallAt, RollbackAt
<1> QED
  BY <1>1 DEF Life!UpdateInit, UpdateInv, Life!None

\* What Go and End make of an operation.
LEMMA UpdateMoves ==
  ASSUME UpdateInv, NEW p \in Procs
  PROVE  /\ \A at \in InstallAt \cup RollbackAt : Life!Go(p, at) =>
              /\ [updateProc[p] EXCEPT !.at = at] \in UpdateRecord
              /\ updateProc' = [updateProc EXCEPT ![p] = [updateProc[p] EXCEPT !.at = at]]
         /\ \A result \in {"error", "installed", "rolledBack", "uncertain", "killed"} : Life!End(p,
                 result) =>
              /\ [updateProc[p] EXCEPT !.at = "idle", !.result = result,
                      !.staged = Life!None] \in UpdateRecord
              /\ updateProc' = [updateProc EXCEPT ![p] =
                   [updateProc[p] EXCEPT !.at = "idle", !.result = result, !.staged = Life!None]]
<1>1. updateProc[p] \in UpdateRecord /\ updateProc \in [Procs -> UpdateRecord]
  BY DEF UpdateInv
<1>2. ASSUME NEW at \in InstallAt \cup RollbackAt, Life!Go(p, at)
      PROVE  /\ [updateProc[p] EXCEPT !.at = at] \in UpdateRecord
             /\ updateProc' = [updateProc EXCEPT ![p] = [updateProc[p] EXCEPT !.at = at]]
  BY <1>1, <1>2 DEF Life!Go, UpdateRecord
<1>3. ASSUME NEW result \in {"error", "installed", "rolledBack", "uncertain", "killed"}, Life!End(p, result)
      PROVE  /\ [updateProc[p] EXCEPT !.at = "idle", !.result = result,
              !.staged = Life!None] \in UpdateRecord
             /\ updateProc' = [updateProc EXCEPT ![p] =
                  [updateProc[p] EXCEPT !.at = "idle", !.result = result, !.staged = Life!None]]
  BY <1>1, <1>3 DEF Life!End, UpdateRecord
<1> QED
  BY <1>2, <1>3

\* Every step of an update keeps the invariant.
LEMMA UpdateAdvances ==
  ASSUME UpdateConstants, UpdateInv, Life!UpdateNext
  PROVE  UpdateInv'
<1>1. CASE \E v \in Contents : Life!ChangeSource(v)
  BY <1>1 DEF Life!ChangeSource, UpdateInv, UpdateAt, UpdateConstants
<1>2. CASE \E p \in Procs :
             \/ \E op \in Ops : Life!Begin(p, op)
             \/ Life!Verify(p) \/ Life!Inspect(p) \/ Life!Check(p) \/ Life!Prepare(p) \/ Life!Kill(p)
             \/ \E ok \in BOOLEAN :
                  \/ Life!Stage(p, ok) \/ Life!MoveOld(p, ok) \/ Life!MoveNew(p, ok) \/ Life!Restore(p, ok)
                  \/ Life!SetAside(p, ok) \/ \E putBack \in BOOLEAN : Life!BringBack(p, ok, putBack)
  <2>1. PICK p \in Procs :
             \/ \E op \in Ops : Life!Begin(p, op)
             \/ Life!Verify(p) \/ Life!Inspect(p) \/ Life!Check(p) \/ Life!Prepare(p) \/ Life!Kill(p)
             \/ \E ok \in BOOLEAN :
                  \/ Life!Stage(p, ok) \/ Life!MoveOld(p, ok) \/ Life!MoveNew(p, ok) \/ Life!Restore(p, ok)
                  \/ Life!SetAside(p, ok) \/ \E putBack \in BOOLEAN : Life!BringBack(p, ok, putBack)
    BY <1>2
  <2>0. PICK r : r = updateProc[p]
    OBVIOUS
  <2> DEFINE going(at) == [r EXCEPT !.at = at]
             ended(result) == [r EXCEPT !.at = "idle", !.result = result, !.staged = Life!None]
             Contained == {"old", "new", "bad", Life!None}
  <2>2. /\ r \in UpdateRecord /\ UpdateAt(r) /\ Procs = {p} /\ updateProc \in [Procs -> UpdateRecord]
        /\ target \in Contained /\ source \in {"new", "bad"} /\ aside \in [Procs -> Contained]
        /\ backup = "old" \/ (backup = Life!None /\ target = "old")
        /\ "old" # Life!None /\ "new" # Life!None /\ "bad" # Life!None
    BY <2>0 DEF UpdateInv, UpdateConstants, Life!None
  <2>3. ASSUME NEW u \in UpdateRecord, updateProc' = [updateProc EXCEPT ![p] = u], UpdateAt(u)',
               source' = source, target' \in Contained, aside' \in [Procs -> Contained],
               backup' = "old" \/ (backup' = Life!None /\ target' = "old")
        PROVE  UpdateInv'
    <3>1. updateProc' \in [Procs -> UpdateRecord] /\ \A q \in Procs : updateProc'[q] = u
      BY <2>2, <2>3
    <3> QED
      BY <2>2, <2>3, <3>1 DEF UpdateInv
  <2>4. /\ \A at \in InstallAt \cup RollbackAt : Life!Go(p, at) =>
             going(at) \in UpdateRecord /\ updateProc' = [updateProc EXCEPT ![p] = going(at)]
        /\ \A result \in {"error", "installed", "rolledBack", "uncertain", "killed"} : Life!End(p,
                result) =>
             ended(result) \in UpdateRecord /\ updateProc' = [updateProc EXCEPT ![p] = ended(result)]
    BY <2>0, UpdateMoves
  <2>5. /\ \A at \in InstallAt \cup RollbackAt :
             LET u == going(at) IN u.at = at /\ u.op = r.op /\ u.was = r.was /\ u.staged = r.staged
        /\ \A result \in {"error", "installed", "rolledBack", "uncertain", "killed"} :
             LET u == ended(result) IN /\ u.at = "idle" /\ u.result = result /\ u.staged = Life!None
                                       /\ u.op = r.op /\ u.was = r.was
    BY <2>2 DEF UpdateRecord
  <2> HIDE DEF going, ended
  <2>6. ASSUME NEW at \in InstallAt \cup RollbackAt, Life!Go(p, at), UpdateAt(going(at))',
               source' = source, target' \in Contained, aside' \in [Procs -> Contained],
               backup' = "old" \/ (backup' = Life!None /\ target' = "old")
        PROVE  UpdateInv'
    BY <2>3, <2>4, <2>6
  <2>7. ASSUME NEW result \in {"error", "installed", "rolledBack", "uncertain", "killed"}, Life!End(p,
          result),
               r.op = "install" =>
                 /\ result = "error" => target' = r.was
                 /\ result = "installed" => target' = "new" /\ backup' = r.was,
               source' = source, target' \in Contained, aside' \in [Procs -> Contained],
               backup' = "old" \/ (backup' = Life!None /\ target' = "old")
        PROVE  UpdateInv'
    <3>1. UpdateAt(ended(result))'
      BY <2>5, <2>7 DEF UpdateAt, InstallAt, RollbackAt
    <3> QED
      BY <2>3, <2>4, <2>7, <3>1
  <2>8. ASSUME NEW op \in Ops, Life!Begin(p, op) PROVE UpdateInv'
    <3>0. PICK u : u = [Life!Idle EXCEPT !.op = op, !.was = target,
                                   !.at = IF op = "install" THEN "verify" ELSE "prepare"]
      OBVIOUS
    <3>1. updateProc' = [updateProc EXCEPT ![p] = u] /\ UNCHANGED <<target, backup, source, aside>>
      BY <2>8, <3>0 DEF Life!Begin
    <3>2. op \in {"install", "rollback"}
      BY DEF UpdateConstants
    <3>3. u \in UpdateRecord
      BY <2>2, <3>0, <3>2 DEF UpdateRecord, Life!Idle, InstallAt, RollbackAt
    <3>4. /\ u.op = op /\ u.was = target /\ u.at = (IF op = "install" THEN "verify" ELSE "prepare")
          /\ u.staged = Life!None
      BY <3>0 DEF Life!Idle
    <3>5. UpdateAt(u)'
      BY <3>1, <3>2, <3>4 DEF UpdateAt, InstallAt, RollbackAt
    <3> QED
      BY <2>2, <2>3, <3>1, <3>3, <3>5
  <2>9. CASE Life!Verify(p) \/ Life!Inspect(p) \/ Life!Prepare(p) \/ Life!Kill(p)
    <3>1. UNCHANGED <<target, backup, source, aside>>
      BY <2>9 DEF Life!Verify, Life!Inspect, Life!Prepare, Life!Kill
    <3>2. CASE Life!Verify(p)
      <4>1. r.at = "verify" /\ (Life!Go(p, "inspect") \/ Life!End(p, "error"))
        BY <2>0, <3>2 DEF Life!Verify
      <4>2. UpdateAt(going("inspect"))'
        BY <2>2, <2>5, <3>1, <4>1 DEF UpdateAt, InstallAt, RollbackAt
      <4>3. r.op = "install" => target = r.was
        BY <2>2, <4>1 DEF UpdateAt
      <4> QED
        BY <2>2, <2>6, <2>7, <3>1, <4>1, <4>2, <4>3 DEF InstallAt
    <3>3. CASE Life!Inspect(p)
      <4>1. r.at = "inspect" /\ ((Life!Go(p, "stage") /\ backup = Life!None) \/ Life!End(p, "error"))
        BY <2>0, <3>3 DEF Life!Inspect
      <4>2. backup = Life!None => UpdateAt(going("stage"))'
        BY <2>2, <2>5, <3>1, <4>1 DEF UpdateAt, InstallAt, RollbackAt
      <4>3. r.op = "install" => target = r.was
        BY <2>2, <4>1 DEF UpdateAt
      <4> QED
        BY <2>2, <2>6, <2>7, <3>1, <4>1, <4>2, <4>3 DEF InstallAt
    <3>4. CASE Life!Prepare(p)
      <4>1. r.at = "prepare" /\ ((Life!Go(p, "setAside") /\ backup # Life!None) \/ Life!End(p, "error"))
        BY <2>0, <3>4 DEF Life!Prepare
      <4>2. backup # Life!None => UpdateAt(going("setAside"))'
        BY <2>2, <2>5, <3>1, <4>1 DEF UpdateAt, InstallAt, RollbackAt
      <4>3. r.op = "rollback"
        BY <2>2, <4>1 DEF UpdateAt, RollbackAt
      <4> QED
        BY <2>2, <2>6, <2>7, <3>1, <4>1, <4>2, <4>3 DEF RollbackAt
    <3>5. CASE Life!Kill(p)
      BY <2>2, <2>7, <3>1, <3>5 DEF Life!Kill
    <3> QED
      BY <2>9, <3>2, <3>3, <3>4, <3>5
  <2>10. ASSUME NEW ok \in BOOLEAN, Life!Stage(p, ok) PROVE UpdateInv'
    <3>1. /\ r.at = "stage" /\ UNCHANGED <<target, backup, source, aside>>
          /\ \/ updateProc' = [updateProc EXCEPT ![p].at = "moveOld", ![p].staged = source]
             \/ Life!End(p, "error")
      BY <2>0, <2>10 DEF Life!Stage
    <3>2. target = r.was /\ backup = Life!None /\ r.op = "install"
      BY <2>2, <3>1 DEF UpdateAt, InstallAt
    <3>3. CASE updateProc' = [updateProc EXCEPT ![p].at = "moveOld", ![p].staged = source]
      <4>0. PICK u : u = [r EXCEPT !.at = "moveOld", !.staged = source]
        OBVIOUS
      <4>1. /\ u \in UpdateRecord /\ u.at = "moveOld" /\ u.staged = source /\ u.op = r.op /\ u.was = r.was
            /\ updateProc' = [updateProc EXCEPT ![p] = u]
        BY <2>0, <2>2, <3>3, <4>0 DEF UpdateRecord, InstallAt
      <4>2. UpdateAt(u)'
        BY <2>2, <3>1, <3>2, <4>1 DEF UpdateAt, InstallAt, RollbackAt
      <4> QED
        BY <2>2, <2>3, <3>1, <4>1, <4>2
    <3> QED
      BY <2>2, <2>7, <3>1, <3>2, <3>3
  <2>11. ASSUME NEW ok \in BOOLEAN, Life!MoveOld(p, ok) PROVE UpdateInv'
    <3>1. /\ r.at = "moveOld" /\ UNCHANGED <<source, aside>>
          /\ \/ backup' = target /\ target' = Life!None /\ Life!Go(p, "moveNew")
             \/ Life!End(p, "error") /\ UNCHANGED <<target, backup>>
      BY <2>0, <2>11 DEF Life!MoveOld
    <3>2. target = r.was /\ backup = Life!None /\ target = "old" /\ r.op = "install" /\ r.staged # Life!None
      BY <2>2, <3>1 DEF UpdateAt, InstallAt
    <3>3. backup' = target => UpdateAt(going("moveNew"))'
      BY <2>5, <3>2 DEF UpdateAt, InstallAt, RollbackAt
    <3> QED
      BY <2>2, <2>6, <2>7, <3>1, <3>2, <3>3 DEF InstallAt
  <2>12. ASSUME NEW ok \in BOOLEAN, Life!MoveNew(p, ok) PROVE UpdateInv'
    <3>1. /\ r.at = "moveNew" /\ UNCHANGED <<source, backup, aside>>
          /\ \/ target' = r.staged /\ Life!Go(p, "check")
             \/ Life!Go(p, "restore") /\ UNCHANGED target
      BY <2>0, <2>12 DEF Life!MoveNew
    <3>2. backup = r.was /\ backup = "old" /\ r.op = "install" /\ r.staged \in Contained
      BY <2>2, <3>1 DEF UpdateAt, InstallAt, UpdateRecord
    <3>3. UpdateAt(going("check"))' /\ UpdateAt(going("restore"))'
      BY <2>5, <3>1, <3>2 DEF UpdateAt, InstallAt, RollbackAt
    <3> QED
      BY <2>2, <2>6, <3>1, <3>2, <3>3 DEF InstallAt
  <2>13. CASE Life!Check(p)
    <3>1. /\ r.at = "check" /\ UNCHANGED <<source, backup, aside>>
          /\ \/ target = "new" /\ Life!End(p, "installed") /\ UNCHANGED target
             \/ Life!Go(p, "restore") /\ target' = Life!None
      BY <2>0, <2>13 DEF Life!Check
    <3>2. backup = r.was /\ backup = "old" /\ r.op = "install"
      BY <2>2, <3>1 DEF UpdateAt, InstallAt
    <3>3. UpdateAt(going("restore"))'
      BY <2>5, <3>1, <3>2 DEF UpdateAt, InstallAt, RollbackAt
    <3> QED
      BY <2>2, <2>6, <2>7, <3>1, <3>2, <3>3 DEF InstallAt
  <2>14. ASSUME NEW ok \in BOOLEAN, Life!Restore(p, ok) PROVE UpdateInv'
    <3>1. /\ r.at = "restore" /\ UNCHANGED <<source, aside>>
          /\ \/ target' = backup /\ backup' = Life!None /\ Life!End(p, "error")
             \/ Life!End(p, "uncertain") /\ UNCHANGED <<target, backup>>
      BY <2>0, <2>14 DEF Life!Restore
    <3>2. backup = r.was /\ backup = "old"
      BY <2>2, <3>1 DEF UpdateAt
    <3> QED
      BY <2>2, <2>7, <3>1, <3>2
  <2>15. ASSUME NEW ok \in BOOLEAN, Life!SetAside(p, ok) PROVE UpdateInv'
    <3>1. /\ r.at = "setAside" /\ UNCHANGED <<source, backup>>
          /\ \/ aside' = [aside EXCEPT ![p] = target] /\ target' = Life!None /\ Life!Go(p, "bringBack")
             \/ Life!End(p, "error") /\ UNCHANGED <<target, aside>>
      BY <2>0, <2>15 DEF Life!SetAside
    <3>2. backup = "old" /\ r.op = "rollback" /\ r.staged = Life!None
      BY <2>2, <3>1 DEF UpdateAt, RollbackAt
    <3>3. UpdateAt(going("bringBack"))'
      BY <2>5, <3>1, <3>2 DEF UpdateAt, InstallAt, RollbackAt
    <3> QED
      BY <2>2, <2>6, <2>7, <3>1, <3>2, <3>3 DEF RollbackAt
  <2>16. ASSUME NEW ok \in BOOLEAN, NEW putBack \in BOOLEAN, Life!BringBack(p, ok, putBack) PROVE UpdateInv'
    <3>1. r.at = "bringBack" /\ source' = source
      BY <2>0, <2>16 DEF Life!BringBack
    <3>2. backup = "old" /\ r.op = "rollback"
      BY <2>2, <3>1 DEF UpdateAt, RollbackAt
    <3>3. CASE ok
      <4>1. /\ target' = backup /\ backup' = Life!None /\ Life!End(p, "rolledBack")
            /\ aside' = [aside EXCEPT ![p] = Life!None]
        BY <2>2, <2>16, <3>2, <3>3 DEF Life!BringBack
      <4> QED
        BY <2>2, <2>7, <3>1, <3>2, <4>1
    <3>4. CASE ~ok
      <4>1. /\ Life!End(p, "error") /\ backup' = backup
            /\ \/ target' = aside[p] /\ aside' = [aside EXCEPT ![p] = Life!None]
               \/ UNCHANGED <<target, aside>>
        BY <2>16, <3>4 DEF Life!BringBack
      <4> QED
        BY <2>2, <2>7, <3>1, <3>2, <4>1
    <3> QED
      BY <3>3, <3>4
  <2> QED
    BY <2>1, <2>8, <2>9, <2>10, <2>11, <2>12, <2>13, <2>14, <2>15, <2>16
<1> QED
  BY <1>1, <1>2 DEF Life!UpdateNext

\* The original executable is never gone from both places, and a failed or a
\* successful install left what it says, wherever an update fails or is
\* killed, and whatever its artifact turns into meanwhile (Install, Rollback).
THEOREM OriginalIsKept ==
  ASSUME UpdateConstants
  PROVE  Life!UpdateSpec => [](Life!UpdateTypeOK /\ Life!OriginalKept /\ Life!OutcomeIsTrue)
<1>1. Life!UpdateInit => UpdateInv
  BY UpdateInitially
<1>2. UpdateInv /\ [Life!UpdateNext]_(Life!updateVars) => UpdateInv'
  <2>1. UpdateInv /\ UNCHANGED Life!updateVars => UpdateInv'
    BY DEF Life!updateVars, UpdateInv, UpdateAt
  <2> QED
    BY <2>1, UpdateAdvances
<1>3. UpdateInv => Life!UpdateTypeOK
  <2> SUFFICES ASSUME UpdateInv PROVE Life!UpdateTypeOK
    OBVIOUS
  <2>1. {target, backup} \cup {aside[p] : p \in Procs} \subseteq {"old", "new", "bad", Life!None}
    BY DEF UpdateInv
  <2>2. \A p \in Procs : updateProc[p] \in UpdateRecord /\ UpdateAt(updateProc[p])
    BY DEF UpdateInv
  <2> QED
    BY <2>1, <2>2 DEF Life!UpdateTypeOK, UpdateRecord, UpdateAt
<1>4. UpdateInv => Life!OriginalKept
  BY DEF UpdateInv, Life!OriginalKept
<1>5. UpdateInv => Life!OutcomeIsTrue
  BY DEF UpdateInv, UpdateAt, Life!OutcomeIsTrue, Life!Resting
<1> QED
  BY <1>1, <1>2, <1>3, <1>4, <1>5, PTL DEF Life!UpdateSpec

=============================================================================
