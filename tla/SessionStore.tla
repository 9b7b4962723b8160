---------------------------- MODULE SessionStore ----------------------------
(***************************************************************************)
(* The durable session store (internal/agent/sessions.go).                 *)
(*                                                                         *)
(* A method holds s.mu from the load of the session file to the rename of  *)
(* its replacement, so each is one step on `disk'.  Every method is        *)
(* written as a guard (Can...) and a result (...To), because the durable   *)
(* run of the server goes on differently when a call is refused.  A write  *)
(* that fails leaves the file as it was (writeFileAtomic).                 *)
(*                                                                         *)
(* A transcript is its number of messages; titles, providers, plan and     *)
(* workspace bindings are left out.  The actions at the end are the        *)
(* handlers of the session API (internal/server/server.go) that change the *)
(* store; `expected' is the revision the caller sends.                     *)
(***************************************************************************)
EXTENDS Naturals

CONSTANTS SessionIds,
          Runs,            \* kernel run ids
          ManualRun,       \* the run id "manual-interrupt"
          Tools,           \* tool calls of a run
          Requests,        \* agent request ids, with their input digest
          Evidence,        \* states of the workspace files and checkpoint
          MaxRevision,     \* ^uint64(0)
          MaxMessages,     \* bound on the length of a transcript
          MaxIncarnations, \* bound on how often one id is created
          Absent,          \* no session file
          None

ASSUME StoreAssumption ==
  /\ MaxRevision \in Nat \ {0}
  /\ MaxMessages \in Nat
  /\ MaxIncarnations \in Nat \ {0}
  /\ ManualRun \notin Runs

Revisions   == 0 .. MaxRevision
Messages    == 0 .. MaxMessages
CurrentVersion == 4
Lifecycles  == {"active", "interrupted", "recovery-needed", "closed"}

\* SessionInterruption: the run, the tool calls its digest covers, and whether
\* the journal, the end of the run or the interrupt endpoint wrote it.
Markers  == [run : Runs \cup {ManualRun}, tools : SUBSET Tools,
             by : {"journal", "terminal", "manual"}]
Receipts == [id : Requests, expected : Revisions, committed : Revisions, messages : Messages]
Parents  == [id : SessionIds, rev : Revisions]
Stored   == [version : {0, CurrentVersion}, rev : Revisions, life : Lifecycles,
             lastCommitted : Revisions, reconcile : BOOLEAN,
             interruption : Markers \cup {None}, lastRequest : Receipts \cup {None},
             messages : Messages, parent : Parents \cup {None}]

ASSUME StoreNullAssumption ==
  /\ Absent \notin Stored
  /\ None \notin Markers \cup Receipts \cup Parents

VARIABLES disk,      \* session id -> its file, or Absent
          workspace, \* what reconciliation evidence is computed from
          created    \* history: session id -> how often it was created

storeVars == <<disk, workspace, created>>

StoreTypeOK ==
  /\ disk \in [SessionIds -> Stored \cup {Absent}]
  /\ workspace \in Evidence
  /\ created \in [SessionIds -> 0 .. MaxIncarnations]
-----------------------------------------------------------------------------
(* Validation: what the loader accepts.                                    *)

\* validateAgentRequestReceipt
ValidReceipt(receipt, rev, messages) ==
  receipt # None =>
    /\ receipt.expected # 0
    /\ receipt.expected < receipt.committed
    /\ receipt.committed <= rev
    /\ receipt.messages \in 1 .. messages

\* normalizeSessionLifecycle, for a session that names its lifecycle
ConsistentLifecycle(s) ==
  \/ /\ s.version = 0
     /\ s.life = "active"
  \/ /\ s.life \in {"active", "closed"}
     /\ ~s.reconcile
     /\ s.interruption = None
     /\ s.lastCommitted = s.rev
  \/ /\ s.life = "interrupted"
     /\ s.reconcile
     /\ s.interruption # None
     /\ s.lastCommitted < s.rev
  \/ /\ s.life = "recovery-needed"
     /\ s.reconcile
     /\ s.lastCommitted <= s.rev

\* loadStoredSession
Loadable(s) ==
  /\ IF s.version = 0
     THEN /\ s.rev = 0 /\ s.lastCommitted = 0 /\ ~s.reconcile
          /\ s.interruption = None /\ s.lastRequest = None /\ s.parent = None
     ELSE s.rev # 0
  /\ ConsistentLifecycle(s)
  /\ ValidReceipt(s.lastRequest, s.rev, s.messages)

-----------------------------------------------------------------------------
(* Lifecycle transitions: updateSessionLifecycle and its callers.          *)

CanUpdate(s, expected) ==
  /\ s # Absent
  /\ s.version # 0
  /\ s.rev = expected
  /\ s.rev # MaxRevision

Bumped_KeepsLastCommitted(s) == [s EXCEPT !.rev = s.rev + 1]
Bumped(s) ==
  [s EXCEPT !.rev = s.rev + 1,
            !.lastCommitted = IF s.reconcile THEN @ ELSE s.rev + 1]

CanMarkInterrupted(s, expected) ==
  /\ CanUpdate(s, expected)
  /\ s.life # "closed"
  /\ ~s.reconcile
MarkInterruptedTo(s, marker) ==
  Bumped([s EXCEPT !.life = "interrupted", !.lastCommitted = s.rev,
                   !.reconcile = TRUE, !.interruption = marker])

CanUpdateInterruptedRun(s, expected, marker, next) ==
  /\ CanUpdate(s, expected)
  /\ s.life = "interrupted"
  /\ s.reconcile
  /\ s.interruption = marker
  /\ next.run = marker.run
UpdateInterruptedRunTo(s, next) == Bumped([s EXCEPT !.interruption = next])

\* assessSessionReconciliationLocked: the digest covers the revision, the
\* marker and the files as they are.
Assess(s) == [rev |-> s.rev, marker |-> s.interruption, files |-> workspace]

CanMarkReconciled_AnyEvidence(s, expected, evidence) ==
  /\ CanUpdate(s, expected)
  /\ s.reconcile
  /\ s.interruption # None
CanMarkReconciled(s, expected, evidence) ==
  /\ CanUpdate(s, expected)
  /\ s.reconcile
  /\ s.interruption # None
  /\ evidence = Assess(s)
MarkReconciledTo(s) ==
  Bumped([s EXCEPT !.life = "active", !.reconcile = FALSE, !.interruption = None])

CanClose(s, expected) ==
  /\ CanUpdate(s, expected)
  /\ ~s.reconcile
  /\ s.life = "active"
CloseTo(s) == Bumped([s EXCEPT !.life = "closed", !.interruption = None])

-----------------------------------------------------------------------------
(* save, the common body of SaveExpected, CommitInterruptedRun and         *)
(* CommitAgentRun: `marker' is the committed interruption and `receipt'    *)
(* the [id, expected, messages] of the request, None when not supplied.    *)

NextRevision(s) == IF s = Absent THEN 1 ELSE s.rev + 1

SavedReceipt(s, receipt) ==
  IF receipt # None
  THEN [id |-> receipt.id, expected |-> receipt.expected,
        committed |-> NextRevision(s), messages |-> receipt.messages]
  ELSE IF s = Absent THEN None ELSE s.lastRequest

LifecycleAllowsSave(s, marker) ==
  IF s = Absent THEN marker = None
  ELSE IF marker # None
  THEN s.life = "interrupted" /\ s.reconcile /\ s.interruption = marker
  ELSE ~s.reconcile /\ s.life # "closed"

ExpectedMatches_OnlyNewer(s, expected) ==
  IF s = Absent THEN expected = 0 ELSE expected <= s.rev
ExpectedMatches(s, expected) ==
  IF s = Absent THEN expected = 0 ELSE expected = s.rev

CanSave(s, expected, marker, receipt, messages) ==
  /\ ExpectedMatches(s, expected)
  /\ s # Absent => s.rev # MaxRevision
  /\ LifecycleAllowsSave(s, marker)
  /\ ValidReceipt(SavedReceipt(s, receipt), NextRevision(s), messages)

SaveTo(s, receipt, messages, parent) ==
  [version |-> CurrentVersion, rev |-> NextRevision(s), life |-> "active",
   lastCommitted |-> NextRevision(s), reconcile |-> FALSE, interruption |-> None,
   lastRequest |-> SavedReceipt(s, receipt), messages |-> messages,
   parent |-> IF s = Absent THEN parent ELSE s.parent]

\* Fork: an independent session at revision 1 with the parent's transcript.
CanFork(s, expected) ==
  /\ s # Absent
  /\ s.version # 0
  /\ s.rev = expected
  /\ ~s.reconcile
ForkTo(id, s) ==
  [version |-> CurrentVersion, rev |-> 1, life |-> "active", lastCommitted |-> 1,
   reconcile |-> FALSE, interruption |-> None, lastRequest |-> None,
   messages |-> s.messages, parent |-> [id |-> id, rev |-> s.rev]]

CanDelete(s, expected) == s # Absent /\ s.rev = expected

-----------------------------------------------------------------------------
(* The store a process finds when it starts, and the session API.          *)

\* A store holds nothing, or sessions written before revisions existed.
LegacySession(n) ==
  [version |-> 0, rev |-> 0, life |-> "active", lastCommitted |-> 0,
   reconcile |-> FALSE, interruption |-> None, lastRequest |-> None,
   messages |-> n, parent |-> None]

StoreInit ==
  /\ disk \in [SessionIds -> {Absent} \cup {LegacySession(n) : n \in Messages}]
  /\ workspace \in Evidence
  /\ created = [id \in SessionIds |-> IF disk[id] = Absent THEN 0 ELSE 1]

Write(id, session) ==
  /\ disk' = [disk EXCEPT ![id] = session]
  /\ created' = [created EXCEPT ![id] = IF disk[id] = Absent THEN @ + 1 ELSE @]
  /\ UNCHANGED workspace

MayCreate(id) == disk[id] = Absent => created[id] < MaxIncarnations

\* A parent a new session may name: validateSessionParentMetadata and the
\* revision check at the end of save.
ParentChoices(id) ==
  {None} \cup {p \in Parents : p.id # id /\ disk[p.id] # Absent /\ disk[p.id].rev = p.rev
                              /\ p.rev # 0}

\* handleSessionSave and handleSessionRename: SaveExpected without a marker.
SaveExpected(id, expected, messages) ==
  /\ MayCreate(id)
  /\ CanSave(disk[id], expected, None, None, messages)
  /\ \E parent \in ParentChoices(id) : Write(id, SaveTo(disk[id], None, messages, parent))

\* handleSessionInterrupt
Interrupt(id, expected) ==
  /\ CanMarkInterrupted(disk[id], expected)
  /\ Write(id, MarkInterruptedTo(disk[id], [run |-> ManualRun, tools |-> {}, by |-> "manual"]))

\* handleSessionReconcile with the evidence digest of an earlier preview.
Reconcile(id, expected, evidence) ==
  /\ CanMarkReconciled(disk[id], expected, evidence)
  /\ Write(id, MarkReconciledTo(disk[id]))

\* handleSessionClose
Close(id, expected) ==
  /\ CanClose(disk[id], expected)
  /\ Write(id, CloseTo(disk[id]))

\* handleSessionFork: the parent's file is not written.
Fork(id, expected, child) ==
  /\ CanFork(disk[id], expected)
  /\ disk[child] = Absent
  /\ MayCreate(child)
  /\ Write(child, ForkTo(id, disk[id]))

\* handleSessionDelete
Delete(id, expected) ==
  /\ CanDelete(disk[id], expected)
  /\ Write(id, Absent)

\* Files change under the user's or another program's hands.
FilesChange ==
  /\ workspace' \in Evidence \ {workspace}
  /\ UNCHANGED <<disk, created>>

=============================================================================
