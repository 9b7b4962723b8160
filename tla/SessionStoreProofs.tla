------------------------- MODULE SessionStoreProofs -------------------------
(***************************************************************************)
(* What the operations of the session store return: a session of the       *)
(* stored form, with its revision one higher, that the next load accepts.  *)
(* Every method either refuses the call or writes one of these results.    *)
(***************************************************************************)
EXTENDS SessionStore, TLAPS

\* Revisions are numbers with a successor below the limit.
LEMMA NextRevisionFits ==
  ASSUME NEW rev \in Revisions, rev # MaxRevision
  PROVE  rev + 1 \in Revisions /\ rev < rev + 1 /\ rev + 1 # 0
BY StoreAssumption DEF Revisions

\* MarkInterruptedExpected: the session is guarded by the marker.
LEMMA MarkInterruptedResult ==
  ASSUME NEW s \in Stored, NEW expected, NEW marker \in Markers, CanMarkInterrupted(s, expected)
  PROVE  LET q == MarkInterruptedTo(s, marker) IN
         /\ q \in Stored /\ q.rev = s.rev + 1
         /\ q.version = s.version /\ q.life = "interrupted" /\ q.lastCommitted = s.rev
         /\ q.reconcile /\ q.interruption = marker
         /\ q.messages = s.messages /\ q.lastRequest = s.lastRequest
BY NextRevisionFits DEF CanMarkInterrupted, CanUpdate, MarkInterruptedTo, Bumped, Stored, Lifecycles

\* UpdateInterruptedRunExpected: only the marker changes.
LEMMA UpdateInterruptedResult ==
  ASSUME NEW s \in Stored, NEW expected, NEW marker, NEW next \in Markers,
         CanUpdateInterruptedRun(s, expected, marker, next)
  PROVE  LET q == UpdateInterruptedRunTo(s, next) IN
         /\ q \in Stored /\ q.rev = s.rev + 1
         /\ q.version = s.version /\ q.life = "interrupted" /\ q.lastCommitted = s.lastCommitted
         /\ q.reconcile /\ q.interruption = next
         /\ q.messages = s.messages /\ q.lastRequest = s.lastRequest
BY NextRevisionFits
   DEF CanUpdateInterruptedRun, CanUpdate, UpdateInterruptedRunTo, Bumped, Stored, Lifecycles

\* MarkReconciledExpected: the guard is lifted, the transcript kept.
LEMMA MarkReconciledResult ==
  ASSUME NEW s \in Stored, NEW expected, NEW evidence, CanMarkReconciled(s, expected, evidence)
  PROVE  LET q == MarkReconciledTo(s) IN
         /\ q \in Stored /\ q.rev = s.rev + 1
         /\ q.version = s.version /\ q.life = "active" /\ q.lastCommitted = s.rev + 1
         /\ ~q.reconcile /\ q.interruption = None
         /\ q.messages = s.messages /\ q.lastRequest = s.lastRequest
BY NextRevisionFits DEF CanMarkReconciled, CanUpdate, MarkReconciledTo, Bumped, Stored, Lifecycles

\* CloseExpected: the session stays free of a guard.
LEMMA CloseResult ==
  ASSUME NEW s \in Stored, NEW expected, CanClose(s, expected)
  PROVE  LET q == CloseTo(s) IN
         /\ q \in Stored /\ q.rev = s.rev + 1
         /\ q.version = s.version /\ q.life = "closed" /\ q.lastCommitted = s.rev + 1
         /\ ~q.reconcile /\ q.interruption = None
         /\ q.messages = s.messages /\ q.lastRequest = s.lastRequest
BY NextRevisionFits DEF CanClose, CanUpdate, CloseTo, Bumped, Stored, Lifecycles

\* What the body of a save is given for a request.
NewReceipts == [id : Requests, expected : Revisions, messages : Messages]

\* save: a new session starts at revision 1, an old one goes up by one.
LEMMA NextRevisionOfSave ==
  ASSUME NEW s \in Stored \cup {Absent}, s # Absent => s.rev # MaxRevision
  PROVE  /\ NextRevision(s) \in Revisions /\ NextRevision(s) # 0
         /\ s # Absent => NextRevision(s) = s.rev + 1
<1>1. CASE s = Absent
  BY <1>1, StoreAssumption DEF NextRevision, Revisions
<1>2. CASE s # Absent
  BY <1>2, NextRevisionFits DEF NextRevision, Stored
<1> QED BY <1>1, <1>2

\* The committed receipt of a request is of the stored form.
LEMMA SavedReceiptType ==
  ASSUME NEW s \in Stored \cup {Absent}, s # Absent => s.rev # MaxRevision,
         NEW receipt \in NewReceipts \cup {None}
  PROVE  SavedReceipt(s, receipt) \in Receipts \cup {None}
<1>1. CASE receipt # None
  BY <1>1, NextRevisionOfSave DEF SavedReceipt, NewReceipts, Receipts
<1>2. CASE receipt = None
  BY <1>2 DEF SavedReceipt, Stored
<1> QED BY <1>1, <1>2

\* save: an active session without a guard, whatever was there before.
LEMMA SaveResult ==
  ASSUME NEW s \in Stored \cup {Absent}, NEW expected, NEW marker,
         NEW receipt \in NewReceipts \cup {None}, NEW messages \in Messages,
         NEW parent \in Parents \cup {None},
         CanSave(s, expected, marker, receipt, messages)
  PROVE  LET q == SaveTo(s, receipt, messages, parent) IN
         /\ q \in Stored /\ q.rev = NextRevision(s)
         /\ q.version = CurrentVersion /\ q.life = "active" /\ q.lastCommitted = q.rev
         /\ ~q.reconcile /\ q.interruption = None
         /\ q.messages = messages /\ q.lastRequest = SavedReceipt(s, receipt)
<1>1. s # Absent => s.rev # MaxRevision
  BY DEF CanSave
<1>2. NextRevision(s) \in Revisions /\ SavedReceipt(s, receipt) \in Receipts \cup {None}
  BY <1>1, NextRevisionOfSave, SavedReceiptType
<1>3. (IF s = Absent THEN parent ELSE s.parent) \in Parents \cup {None}
  BY DEF Stored
<1> QED BY <1>2, <1>3 DEF SaveTo, Stored, Lifecycles

\* Fork: the child starts free of its parent's history.
LEMMA ForkResult ==
  ASSUME NEW id \in SessionIds, NEW s \in Stored, NEW expected, CanFork(s, expected)
  PROVE  LET q == ForkTo(id, s) IN
         /\ q \in Stored /\ q.rev = 1
         /\ q.version = CurrentVersion /\ q.life = "active" /\ q.lastCommitted = 1
         /\ ~q.reconcile /\ q.interruption = None
         /\ q.messages = s.messages /\ q.lastRequest = None
BY StoreAssumption DEF ForkTo, Stored, Lifecycles, Parents, Revisions

-----------------------------------------------------------------------------
\* A receipt that was valid stays so at a later revision.
LEMMA ReceiptStaysValid ==
  ASSUME NEW receipt \in Receipts \cup {None}, NEW rev \in Nat, NEW messages,
         ValidReceipt(receipt, rev, messages)
  PROVE  ValidReceipt(receipt, rev + 1, messages)
BY DEF ValidReceipt, Receipts, Revisions

\* A session that keeps its receipt and transcript, goes up by one revision
\* and has a consistent lifecycle is accepted again.
LEMMA SuccessorLoads ==
  ASSUME NEW s \in Stored, NEW q \in Stored, Loadable(s),
         q.version # 0, q.rev = s.rev + 1,
         q.messages = s.messages, q.lastRequest = s.lastRequest, ConsistentLifecycle(q)
  PROVE  Loadable(q)
<1>1. s.rev \in Nat /\ s.lastRequest \in Receipts \cup {None}
  BY DEF Stored, Revisions
<1>2. ValidReceipt(q.lastRequest, q.rev, q.messages)
  BY <1>1, ReceiptStaysValid DEF Loadable
<1>3. q.rev # 0
  BY <1>1
<1> QED BY <1>2, <1>3 DEF Loadable

\* A guarded session is one the loader accepts.
LEMMA MarkInterruptedLoads ==
  ASSUME NEW s \in Stored, NEW expected, NEW marker \in Markers,
         CanMarkInterrupted(s, expected), Loadable(s)
  PROVE  Loadable(MarkInterruptedTo(s, marker))
<1> DEFINE q == MarkInterruptedTo(s, marker)
<1>1. /\ q \in Stored /\ q.rev = s.rev + 1 /\ q.version = s.version /\ q.life = "interrupted"
      /\ q.lastCommitted = s.rev /\ q.reconcile /\ q.interruption = marker
      /\ q.messages = s.messages /\ q.lastRequest = s.lastRequest
  BY MarkInterruptedResult
<1>2. marker # None /\ s.version # 0 /\ s.rev \in Nat
  BY StoreNullAssumption DEF CanMarkInterrupted, CanUpdate, Stored, Revisions
<1> HIDE DEF q
<1>3. ConsistentLifecycle(q)
  BY <1>1, <1>2 DEF ConsistentLifecycle
<1>4. Loadable(q)
  BY <1>1, <1>2, <1>3, SuccessorLoads
<1> QED BY <1>4 DEF q

\* So is one whose marker was extended.
LEMMA UpdateInterruptedLoads ==
  ASSUME NEW s \in Stored, NEW expected, NEW marker, NEW next \in Markers,
         CanUpdateInterruptedRun(s, expected, marker, next), Loadable(s)
  PROVE  Loadable(UpdateInterruptedRunTo(s, next))
<1> DEFINE q == UpdateInterruptedRunTo(s, next)
<1>1. /\ q \in Stored /\ q.rev = s.rev + 1 /\ q.version = s.version /\ q.life = "interrupted"
      /\ q.lastCommitted = s.lastCommitted /\ q.reconcile /\ q.interruption = next
      /\ q.messages = s.messages /\ q.lastRequest = s.lastRequest
  BY UpdateInterruptedResult
<1>2. /\ next # None /\ s.version # 0 /\ s.life = "interrupted"
      /\ s.rev \in Nat /\ s.lastCommitted \in Nat
  BY StoreNullAssumption DEF CanUpdateInterruptedRun, CanUpdate, Stored, Revisions
<1>3. s.lastCommitted < s.rev
  BY <1>2 DEF Loadable, ConsistentLifecycle
<1> HIDE DEF q
<1>4. ConsistentLifecycle(q)
  BY <1>1, <1>2, <1>3 DEF ConsistentLifecycle
<1>5. Loadable(q)
  BY <1>1, <1>2, <1>4, SuccessorLoads
<1> QED BY <1>5 DEF q

\* So is a reconciled one.
LEMMA MarkReconciledLoads ==
  ASSUME NEW s \in Stored, NEW expected, NEW evidence,
         CanMarkReconciled(s, expected, evidence), Loadable(s)
  PROVE  Loadable(MarkReconciledTo(s))
<1> DEFINE q == MarkReconciledTo(s)
<1>1. /\ q \in Stored /\ q.rev = s.rev + 1 /\ q.version = s.version /\ q.life = "active"
      /\ q.lastCommitted = s.rev + 1 /\ ~q.reconcile /\ q.interruption = None
      /\ q.messages = s.messages /\ q.lastRequest = s.lastRequest
  BY MarkReconciledResult
<1>2. s.version # 0
  BY DEF CanMarkReconciled, CanUpdate
<1> HIDE DEF q
<1>3. ConsistentLifecycle(q)
  BY <1>1 DEF ConsistentLifecycle
<1>4. Loadable(q)
  BY <1>1, <1>2, <1>3, SuccessorLoads
<1> QED BY <1>4 DEF q

\* So is a closed one.
LEMMA CloseLoads ==
  ASSUME NEW s \in Stored, NEW expected, CanClose(s, expected), Loadable(s)
  PROVE  Loadable(CloseTo(s))
<1> DEFINE q == CloseTo(s)
<1>1. /\ q \in Stored /\ q.rev = s.rev + 1 /\ q.version = s.version /\ q.life = "closed"
      /\ q.lastCommitted = s.rev + 1 /\ ~q.reconcile /\ q.interruption = None
      /\ q.messages = s.messages /\ q.lastRequest = s.lastRequest
  BY CloseResult
<1>2. s.version # 0
  BY DEF CanClose, CanUpdate
<1> HIDE DEF q
<1>3. ConsistentLifecycle(q)
  BY <1>1 DEF ConsistentLifecycle
<1>4. Loadable(q)
  BY <1>1, <1>2, <1>3, SuccessorLoads
<1> QED BY <1>4 DEF q

\* So is a saved one, whatever the transcript was cut to: the receipt of an
\* earlier request must still fit the transcript that is saved.
LEMMA SaveLoads ==
  ASSUME NEW s \in Stored \cup {Absent}, NEW expected, NEW marker,
         NEW receipt \in NewReceipts \cup {None}, NEW messages \in Messages,
         NEW parent \in Parents \cup {None},
         CanSave(s, expected, marker, receipt, messages)
  PROVE  Loadable(SaveTo(s, receipt, messages, parent))
<1> DEFINE q == SaveTo(s, receipt, messages, parent)
<1>1. /\ q \in Stored /\ q.rev = NextRevision(s) /\ q.version = CurrentVersion
      /\ q.life = "active" /\ q.lastCommitted = q.rev
      /\ ~q.reconcile /\ q.interruption = None
      /\ q.messages = messages /\ q.lastRequest = SavedReceipt(s, receipt)
  BY SaveResult
<1>2. ValidReceipt(SavedReceipt(s, receipt), NextRevision(s), messages)
  BY DEF CanSave
<1>3. NextRevision(s) # 0
  BY NextRevisionOfSave DEF CanSave
<1> HIDE DEF q
<1>4. ConsistentLifecycle(q)
  BY <1>1 DEF ConsistentLifecycle
<1>5. Loadable(q)
  BY <1>1, <1>2, <1>3, <1>4 DEF Loadable, CurrentVersion
<1> QED BY <1>5 DEF q

\* So is a fork.
LEMMA ForkLoads ==
  ASSUME NEW id \in SessionIds, NEW s \in Stored, NEW expected, CanFork(s, expected)
  PROVE  Loadable(ForkTo(id, s))
<1> DEFINE q == ForkTo(id, s)
<1>1. /\ q.rev = 1 /\ q.version = CurrentVersion /\ q.life = "active" /\ q.lastCommitted = 1
      /\ ~q.reconcile /\ q.interruption = None /\ q.lastRequest = None
  BY ForkResult
<1> HIDE DEF q
<1>2. Loadable(q)
  BY <1>1 DEF Loadable, ConsistentLifecycle, ValidReceipt, CurrentVersion
<1> QED BY <1>2 DEF q
-----------------------------------------------------------------------------
\* The handlers: a step on one session file.
OthersKept(id) == \A other \in SessionIds : other # id => disk'[other] = disk[other]

\* A write replaces one file of the store.
LEMMA WriteResult ==
  ASSUME StoreTypeOK, NEW id \in SessionIds, NEW q \in Stored \cup {Absent}, Write(id, q),
         MayCreate(id)
  PROVE  /\ StoreTypeOK' /\ OthersKept(id) /\ disk'[id] = q
         /\ workspace' = workspace
<1>1. disk' = [disk EXCEPT ![id] = q] /\ workspace' = workspace
  BY DEF Write
<1>2. created' \in [SessionIds -> 0 .. MaxIncarnations]
  <2>1. created' = [created EXCEPT ![id] = IF disk[id] = Absent THEN created[id] + 1 ELSE created[id]]
    BY DEF Write
  <2>2. (IF disk[id] = Absent THEN created[id] + 1 ELSE created[id]) \in 0 .. MaxIncarnations
    BY StoreAssumption DEF StoreTypeOK, MayCreate
  <2> QED BY <2>1, <2>2 DEF StoreTypeOK
<1> QED BY <1>1, <1>2 DEF StoreTypeOK, OthersKept

\* What every handler that writes a successor of a session leaves behind.
Succeeds(id) ==
  /\ StoreTypeOK' /\ OthersKept(id) /\ workspace' = workspace
  /\ disk[id] # Absent => disk[id] \in Stored /\ disk'[id].rev = disk[id].rev + 1
  /\ disk'[id] \in Stored /\ disk'[id] # Absent
  /\ (disk[id] # Absent => Loadable(disk[id])) => Loadable(disk'[id])

\* handleSessionSave: only a session without a guard is replaced.
LEMMA SaveExpectedSucceeds ==
  ASSUME StoreTypeOK, NEW id \in SessionIds, NEW expected, NEW messages \in Messages,
         SaveExpected(id, expected, messages)
  PROVE  /\ Succeeds(id) /\ ~disk'[id].reconcile
         /\ disk[id] # Absent => disk[id].rev = expected /\ ~disk[id].reconcile
<1>1. /\ MayCreate(id) /\ CanSave(disk[id], expected, None, None, messages)
      /\ disk[id] \in Stored \cup {Absent}
  BY DEF SaveExpected, StoreTypeOK
<1>2. PICK parent \in Parents \cup {None} : Write(id, SaveTo(disk[id], None, messages, parent))
  BY DEF SaveExpected, ParentChoices
<1> DEFINE q == SaveTo(disk[id], None, messages, parent)
<1>3. q \in Stored /\ q.rev = NextRevision(disk[id]) /\ ~q.reconcile /\ Loadable(q)
  <2>1. None \in NewReceipts \cup {None}
    OBVIOUS
  <2>2. q \in Stored /\ q.rev = NextRevision(disk[id]) /\ ~q.reconcile
    BY <1>1, <2>1, SaveResult
  <2>3. Loadable(q)
    BY <1>1, <2>1, SaveLoads
  <2> QED BY <2>2, <2>3
<1> HIDE DEF q
<1>4. StoreTypeOK' /\ OthersKept(id) /\ disk'[id] = q /\ workspace' = workspace
  BY <1>1, <1>2, <1>3, WriteResult DEF q
<1>5. disk[id] # Absent => disk[id] \in Stored /\ q.rev = disk[id].rev + 1
  BY <1>1, <1>3 DEF NextRevision
<1>6. disk[id] # Absent => disk[id].rev = expected /\ ~disk[id].reconcile
  BY <1>1 DEF CanSave, ExpectedMatches, LifecycleAllowsSave
<1> QED BY <1>3, <1>4, <1>5, <1>6, StoreNullAssumption DEF Succeeds

\* A successor of a present session.
LEMMA SuccessorSucceeds ==
  ASSUME StoreTypeOK, NEW id \in SessionIds, disk[id] # Absent, NEW q \in Stored,
         q.rev = disk[id].rev + 1, Loadable(disk[id]) => Loadable(q), Write(id, q)
  PROVE  Succeeds(id) /\ disk'[id] = q
<1>1. MayCreate(id)
  BY DEF MayCreate
<1>2. StoreTypeOK' /\ OthersKept(id) /\ disk'[id] = q /\ workspace' = workspace
  BY <1>1, WriteResult
<1>3. disk[id] \in Stored
  BY DEF StoreTypeOK
<1> QED BY <1>2, <1>3, StoreNullAssumption DEF Succeeds

\* Marking a session interrupted, by the endpoint or by a run.
LEMMA MarkInterruptedSucceeds ==
  ASSUME StoreTypeOK, NEW id \in SessionIds, NEW expected, NEW marker \in Markers,
         CanMarkInterrupted(disk[id], expected), Write(id, MarkInterruptedTo(disk[id], marker))
  PROVE  /\ Succeeds(id) /\ disk'[id].reconcile /\ disk'[id].interruption = marker
         /\ disk[id] # Absent /\ disk[id].rev = expected /\ ~disk[id].reconcile
         /\ disk'[id].messages = disk[id].messages
<1> DEFINE q == MarkInterruptedTo(disk[id], marker)
<1>1. disk[id] # Absent /\ disk[id].rev = expected /\ ~disk[id].reconcile /\ disk[id] \in Stored
  BY DEF CanMarkInterrupted, CanUpdate, StoreTypeOK
<1>2. /\ q \in Stored /\ q.rev = disk[id].rev + 1 /\ q.reconcile /\ q.interruption = marker
      /\ q.messages = disk[id].messages /\ (Loadable(disk[id]) => Loadable(q))
  BY <1>1, MarkInterruptedResult, MarkInterruptedLoads
<1>3. Write(id, q)
  OBVIOUS
<1> HIDE DEF q
<1> QED BY <1>1, <1>2, <1>3, SuccessorSucceeds

\* Extending or replacing the marker of an interrupted run.
LEMMA UpdateInterruptedSucceeds ==
  ASSUME StoreTypeOK, NEW id \in SessionIds, NEW expected, NEW marker, NEW next \in Markers,
         CanUpdateInterruptedRun(disk[id], expected, marker, next),
         Write(id, UpdateInterruptedRunTo(disk[id], next))
  PROVE  /\ Succeeds(id) /\ disk'[id].reconcile /\ disk'[id].interruption = next
         /\ disk[id] # Absent /\ disk[id].rev = expected /\ disk[id].reconcile
         /\ disk[id].interruption = marker /\ next.run = marker.run
         /\ disk'[id].messages = disk[id].messages
<1> DEFINE q == UpdateInterruptedRunTo(disk[id], next)
<1>1. /\ disk[id] # Absent /\ disk[id].rev = expected /\ disk[id].reconcile /\ disk[id] \in Stored
      /\ disk[id].interruption = marker /\ next.run = marker.run
  BY DEF CanUpdateInterruptedRun, CanUpdate, StoreTypeOK
<1>2. /\ q \in Stored /\ q.rev = disk[id].rev + 1 /\ q.reconcile /\ q.interruption = next
      /\ q.messages = disk[id].messages /\ (Loadable(disk[id]) => Loadable(q))
  BY <1>1, UpdateInterruptedResult, UpdateInterruptedLoads
<1>3. Write(id, q)
  OBVIOUS
<1> HIDE DEF q
<1> QED BY <1>1, <1>2, <1>3, SuccessorSucceeds

\* handleSessionReconcile: the evidence is about the session as it is.
LEMMA ReconcileSucceeds ==
  ASSUME StoreTypeOK, NEW id \in SessionIds, NEW expected, NEW evidence,
         Reconcile(id, expected, evidence)
  PROVE  /\ Succeeds(id) /\ ~disk'[id].reconcile
         /\ disk[id] # Absent /\ disk[id].rev = expected
         /\ evidence = Assess(disk[id])
         /\ disk'[id].messages = disk[id].messages
<1> DEFINE q == MarkReconciledTo(disk[id])
<1>1. /\ disk[id] # Absent /\ disk[id].rev = expected /\ disk[id] \in Stored
      /\ evidence = Assess(disk[id])
  BY DEF Reconcile, CanMarkReconciled, CanUpdate, StoreTypeOK
<1>2. /\ q \in Stored /\ q.rev = disk[id].rev + 1 /\ ~q.reconcile
      /\ q.messages = disk[id].messages /\ (Loadable(disk[id]) => Loadable(q))
  BY <1>1, MarkReconciledResult, MarkReconciledLoads DEF Reconcile
<1>3. Write(id, q)
  BY DEF Reconcile
<1> HIDE DEF q
<1> QED BY <1>1, <1>2, <1>3, SuccessorSucceeds

\* handleSessionClose: only a session without a guard is closed.
LEMMA CloseSucceeds ==
  ASSUME StoreTypeOK, NEW id \in SessionIds, NEW expected, Close(id, expected)
  PROVE  /\ Succeeds(id) /\ ~disk'[id].reconcile
         /\ disk[id] # Absent /\ disk[id].rev = expected /\ ~disk[id].reconcile
<1> DEFINE q == CloseTo(disk[id])
<1>1. disk[id] # Absent /\ disk[id].rev = expected /\ ~disk[id].reconcile /\ disk[id] \in Stored
  BY DEF Close, CanClose, CanUpdate, StoreTypeOK
<1>2. /\ q \in Stored /\ q.rev = disk[id].rev + 1 /\ ~q.reconcile
      /\ (Loadable(disk[id]) => Loadable(q))
  BY <1>1, CloseResult, CloseLoads DEF Close
<1>3. Write(id, q)
  BY DEF Close
<1> HIDE DEF q
<1> QED BY <1>1, <1>2, <1>3, SuccessorSucceeds

\* handleSessionDelete removes the file at the expected revision.
LEMMA DeleteRemoves ==
  ASSUME StoreTypeOK, NEW id \in SessionIds, NEW expected, Delete(id, expected)
  PROVE  /\ StoreTypeOK' /\ OthersKept(id) /\ workspace' = workspace
         /\ disk'[id] = Absent /\ disk[id] # Absent /\ disk[id].rev = expected
<1>1. disk[id] # Absent /\ disk[id].rev = expected /\ Write(id, Absent)
  BY DEF Delete, CanDelete
<1>2. MayCreate(id)
  BY <1>1 DEF MayCreate
<1> QED BY <1>1, <1>2, WriteResult

\* handleSessionFork writes only the child, which did not exist.
LEMMA ForkWritesChild ==
  ASSUME StoreTypeOK, NEW id \in SessionIds, NEW expected, NEW child \in SessionIds,
         Fork(id, expected, child)
  PROVE  /\ StoreTypeOK' /\ OthersKept(child) /\ workspace' = workspace
         /\ disk[child] = Absent /\ disk'[child] \in Stored /\ disk'[child] # Absent
         /\ Loadable(disk'[child])
         /\ disk[id] # Absent /\ disk[id].rev = expected
<1> DEFINE q == ForkTo(id, disk[id])
<1>1. /\ disk[child] = Absent /\ MayCreate(child) /\ Write(child, q)
      /\ disk[id] # Absent /\ disk[id].rev = expected /\ disk[id] \in Stored
      /\ CanFork(disk[id], expected)
  BY DEF Fork, CanFork, StoreTypeOK
<1>2. q \in Stored /\ Loadable(q)
  BY <1>1, ForkResult, ForkLoads
<1> HIDE DEF q
<1>3. StoreTypeOK' /\ OthersKept(child) /\ disk'[child] = q /\ workspace' = workspace
  BY <1>1, <1>2, WriteResult
<1> QED BY <1>1, <1>2, <1>3, StoreNullAssumption

=============================================================================
