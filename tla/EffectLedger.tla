---------------------------- MODULE EffectLedger ----------------------------
(***************************************************************************)
(* What durable runs promise of the effects of their tools, without        *)
(* revisions, transcripts, gates or copies of files: a session has one     *)
(* worker at a time; a tool executes only after the ledger names its call; *)
(* what has executed is named until it is committed with the request or    *)
(* reviewed by a user; nobody is admitted before that, and nobody for a    *)
(* request that is already committed.  A crash loses the workers and       *)
(* nothing else.                                                           *)
(***************************************************************************)
CONSTANTS SessionIds, Runs, ManualRun, Tools, Requests, None

VARIABLES workers,  \* session -> at most one <<run, request>>
          guard,    \* session -> the calls the ledger names for a run, or None
          effects,  \* session -> <<run, tool>> neither committed nor reviewed
          committed \* session -> requests committed to it

ledgerVars == <<workers, guard, effects, committed>>

Init ==
  /\ workers = [id \in SessionIds |-> {}]
  /\ guard = [id \in SessionIds |-> None]
  /\ effects = [id \in SessionIds |-> {}]
  /\ committed = [id \in SessionIds |-> {}]

Admit(id, r, q) ==
  /\ workers[id] = {}
  /\ guard[id] = None
  /\ q \notin committed[id]
  /\ workers' = [workers EXCEPT ![id] = {<<r, q>>}]
  /\ UNCHANGED <<guard, effects, committed>>

\* The calls T come to be named for the worker w, all that have executed among
\* them; a guard that is there already is the worker's own.
GuardIsFor(id, w) == guard[id] # None => guard[id].run = w[1]
Names(id, w, T) ==
  /\ guard' = [guard EXCEPT ![id] = [run |-> w[1], tools |-> T]]
  /\ GuardIsFor(id, w)
  /\ \A e \in effects[id] : e[2] \in T

Journal(id, w) ==
  /\ UNCHANGED <<workers, effects, committed>>
  /\ \E T \in SUBSET Tools : Names(id, w, T)

Execute(id, w, t) ==
  /\ guard[id] # None
  /\ guard[id].run = w[1]
  /\ t \in guard[id].tools
  /\ effects' = [effects EXCEPT ![id] = @ \cup {<<w[1], t>>}]
  /\ UNCHANGED <<workers, guard, committed>>

Commit(id, w) ==
  /\ GuardIsFor(id, w)
  /\ workers' = [workers EXCEPT ![id] = {}]
  /\ guard' = [guard EXCEPT ![id] = None]
  /\ effects' = [effects EXCEPT ![id] = {}]
  /\ committed' = [committed EXCEPT ![id] = @ \cup ({w[2]} \ {None})]

\* The work ends without a result; the guard stays, or names what was done.
Leave(id, w) ==
  /\ workers' = [workers EXCEPT ![id] = {}]
  /\ UNCHANGED <<effects, committed>>
  /\ \/ UNCHANGED guard
     \/ \E T \in SUBSET Tools : Names(id, w, T)

WorkerStep(id, w) ==
  \/ Journal(id, w)
  \/ \E t \in Tools : Execute(id, w, t)
  \/ Commit(id, w)
  \/ Leave(id, w)

\* A user marks a session nobody works on.
Interrupt(id) ==
  /\ workers[id] = {}
  /\ guard[id] = None
  /\ guard' = [guard EXCEPT ![id] = [run |-> ManualRun, tools |-> {}]]
  /\ UNCHANGED <<workers, effects, committed>>

\* A user has looked at what an interrupted run did.
Review(id) ==
  /\ workers[id] = {}
  /\ guard[id] # None
  /\ guard' = [guard EXCEPT ![id] = None]
  /\ effects' = [effects EXCEPT ![id] = {}]
  /\ UNCHANGED <<workers, committed>>

\* The session is deleted and its id is free again.
Forget(id) ==
  /\ workers[id] = {}
  /\ guard' = [guard EXCEPT ![id] = None]
  /\ effects' = [effects EXCEPT ![id] = {}]
  /\ committed' = [committed EXCEPT ![id] = {}]
  /\ UNCHANGED workers

Crash ==
  /\ workers' = [id \in SessionIds |-> {}]
  /\ UNCHANGED <<guard, effects, committed>>

Next ==
  \/ \E id \in SessionIds :
       \/ \E r \in Runs, q \in Requests \cup {None} : Admit(id, r, q)
       \/ \E w \in workers[id] : WorkerStep(id, w)
       \/ Interrupt(id) \/ Review(id) \/ Forget(id)
  \/ Crash

Spec == Init /\ [][Next]_ledgerVars

=============================================================================
