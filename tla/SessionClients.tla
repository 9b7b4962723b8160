--------------------------- MODULE SessionClients ---------------------------
(***************************************************************************)
(* Clients of the session store that act on what they last read: browser   *)
(* tabs and API callers of the server, and durable runs, which keep a copy *)
(* of the session and the marker they wrote.  Nothing tells a client that  *)
(* its copy is stale; the revision it sends is the only protection.        *)
(***************************************************************************)
EXTENDS SessionStore
LOCAL INSTANCE TLC

CONSTANT Clients

VARIABLE seen \* client -> what it last read or wrote: the id, its session file,
              \* which incarnation of the id that was, and a preview's evidence

vars == <<storeVars, seen>>

Assessments == [rev : Revisions, marker : Markers \cup {None}, files : Evidence]
Views == [id : SessionIds, session : Stored, born : 0 .. MaxIncarnations,
          evidence : Assessments \cup {None}]

ASSUME ClientNullAssumption ==
  /\ None \notin Assessments
  /\ None \notin [id : Requests, expected : Revisions, messages : Messages]

TypeOK == StoreTypeOK /\ seen \in [Clients -> Views \cup {None}]

Init == StoreInit /\ seen = [c \in Clients |-> None]

\* handleSessionGet and handleSessionReconcilePreview
Get(c, id) ==
  /\ disk[id] # Absent
  /\ seen' = [seen EXCEPT ![c] =
       [id |-> id, session |-> disk[id], born |-> created[id],
        evidence |-> IF disk[id].reconcile THEN Assess(disk[id]) ELSE None]]
  /\ UNCHANGED storeVars

\* The answer of a successful call is the session as written.
Learns(c, id) ==
  seen' = [seen EXCEPT ![c] =
    IF disk'[id] = Absent THEN None
    ELSE [id |-> id, session |-> disk'[id], born |-> created'[id], evidence |-> None]]

Create(c, id, messages) ==
  /\ disk[id] = Absent
  /\ SaveExpected(id, 0, messages)
  /\ Learns(c, id)

\* A call about the session this client has read, at the revision it read.
Mutate(c) ==
  /\ seen[c] # None
  /\ LET id == seen[c].id
         rev == seen[c].session.rev
         mark == seen[c].session.interruption
     IN \/ /\ \/ disk[id] # Absent /\ \E n \in Messages : SaveExpected(id, rev, n)
              \/ Interrupt(id, rev)
              \/ Reconcile(id, rev, seen[c].evidence)
              \/ Close(id, rev)
              \/ Delete(id, rev)
           /\ Learns(c, id)
        \/ \E child \in SessionIds : Fork(id, rev, child) /\ Learns(c, child)
        \* the calls of a durable run
        \/ \E run \in Runs, tools \in SUBSET Tools :
             /\ tools # {}
             /\ CanMarkInterrupted(disk[id], rev)
             /\ Write(id, MarkInterruptedTo(disk[id],
                            [run |-> run, tools |-> tools, by |-> "journal"]))
             /\ Learns(c, id)
        \/ \E tool \in Tools :
             /\ mark # None
             /\ mark.run \in Runs
             /\ LET next == [mark EXCEPT !.tools = @ \cup {tool}] IN
                /\ CanUpdateInterruptedRun(disk[id], rev, mark, next)
                /\ Write(id, UpdateInterruptedRunTo(disk[id], next))
             /\ Learns(c, id)
        \/ \E request \in Requests, n \in Messages, m \in Messages :
             LET receipt == [id |-> request, expected |-> seen[c].session.lastCommitted,
                             messages |-> m] IN
             /\ n >= seen[c].session.messages
             /\ CanSave(disk[id], rev, mark, receipt, n)
             /\ Write(id, SaveTo(disk[id], receipt, n, None))
             /\ Learns(c, id)

Next ==
  \/ \E c \in Clients, id \in SessionIds : Get(c, id)
  \/ \E c \in Clients, id \in SessionIds, n \in Messages : Create(c, id, n)
  \/ \E c \in Clients : Mutate(c)
  \/ FilesChange /\ UNCHANGED seen

Spec == Init /\ [][Next]_vars
-----------------------------------------------------------------------------
\* Whatever the store writes, the next load accepts: no sequence of saves,
\* lifecycle calls, commits and truncations leaves a file the loader would
\* report as corrupt.
EveryFileLoads == \A id \in SessionIds : disk[id] # Absent => Loadable(disk[id])

\* A session file is replaced only by its successor: the revision goes up by
\* one, so a revision names one content for as long as the session exists.
RevisionNamesContent ==
  [][\A id \in SessionIds :
       disk[id] # Absent /\ disk'[id] \notin {Absent, disk[id]} =>
         disk'[id].rev = disk[id].rev + 1]_vars

\* The client that took this step: every call that changes a session changes
\* what its caller knows.
Acts(c) == seen'[c] # seen[c]

\* Nobody replaces or deletes a session it has not read in its present state:
\* of two clients that read the same revision, one wins.  (A copy of an earlier
\* session of the same id at the same revision passes the check.)
NoLostUpdate ==
  [][\A id \in SessionIds, c \in Clients :
       disk[id] # Absent /\ disk'[id] # disk[id] /\ Acts(c) =>
         /\ seen[c] # None
         /\ seen[c].id = id
         /\ seen[c].born = created[id] => seen[c].session = disk[id]]_vars

\* An interrupted session stays guarded, with its transcript frozen, until its
\* own run commits with exactly this marker, until somebody who reviewed this
\* marker against the present files reconciles it, or until it is deleted.
GuardHolds ==
  [][\A id \in SessionIds, c \in Clients :
       disk[id] # Absent /\ disk'[id] \notin {Absent, disk[id]} /\ disk[id].reconcile /\ Acts(c) =>
         \/ /\ disk'[id].reconcile
            /\ disk'[id].messages = disk[id].messages
            /\ disk'[id].interruption.run = disk[id].interruption.run
         \/ /\ seen[c].session.interruption = disk[id].interruption
            /\ disk'[id].lastRequest # None
            /\ disk'[id].lastRequest.committed = disk'[id].rev
         \/ /\ seen[c].evidence # None
            /\ seen[c].evidence.marker = disk[id].interruption
            /\ seen[c].evidence.files = workspace
            /\ disk'[id].messages = disk[id].messages]_vars

\* What the model checker may permute.
Symmetry == Permutations(SessionIds) \cup Permutations(Clients)
              \cup Permutations(Tools) \cup Permutations(Evidence)

=============================================================================
