--------------------------- MODULE ApprovalBroker ---------------------------
(***************************************************************************)
(* The process-local approval broker (internal/approval/broker.go).        *)
(*                                                                         *)
(* Every method of Broker runs under b.mu, so each is one action; Await is *)
(* two critical sections with a select between them, so it is a waiter     *)
(* with a program counter.  A request is a heap object (pendingOf,         *)
(* resolution) that outlives its key in the map b.requests: a waiter keeps *)
(* its pointer after the key is purged.  Ids are 128 random bits, so an id *)
(* names one object for ever.  Timers fire at any moment after the         *)
(* deadline, never before it.  An operation that returns an error without  *)
(* changing the broker is a stuttering step and has no action.             *)
(*                                                                         *)
(* A definition X_Y is a faulty variant of X, kept to show that a property *)
(* of this module would notice the fault.                                  *)
(***************************************************************************)
EXTENDS Naturals, Sequences

CONSTANTS Ids,          \* approval ids the generator may return
          Sessions,     \* session ids
          Calls,        \* exact tool calls: run, call id, executor, input digest
          SessionOf,    \* the session a call belongs to
          Revisions,    \* execution-policy revisions
          Capabilities, \* runtime facts recorded in a policy snapshot
          Waiters,      \* goroutines that call Await
          None,         \* no draft, no grant, no id
          Unresolved,   \* an open request: entry.resolution == nil
          NotFound      \* ErrApprovalNotFound

ASSUME SessionOfAssumption == SessionOf \in [Calls -> Sessions]

VARIABLES pendingOf,        \* id -> the draft a request was opened for
          resolution,       \* id -> entry.resolution, Unresolved before
          requests,         \* keys of b.requests
          grantOf,          \* id -> the grant issued under this id
          fullModeGrants,   \* keys of b.fullModeGrants
          uses,             \* history: successful ConsumeFullModeGrant calls
          canceledSessions, \* b.canceledSessions
          closed,           \* b.closed
          past,             \* ids whose ExpiresAt has been reached
          timers,           \* id -> what the entry's timer will do
          waiter,           \* Await callers
          ctxDone           \* waiters whose context has been canceled

requestVars == <<pendingOf, resolution, requests, timers>>
grantVars   == <<grantOf, fullModeGrants, uses>>
brokerVars  == <<canceledSessions, closed>>
vars == <<requestVars, grantVars, brokerVars, past, waiter, ctxDone>>

Drafts   == [call : Calls, revision : Revisions]
Policies == [revision : Revisions, capabilities : Capabilities]
Grants   == [draft : Drafts, policy : Policies]

DenyReasons == {"user", "expired", "context_canceled", "session_canceled",
                "broker_shutdown"}
Allow       == [outcome |-> "allow_once", reason |-> "user"]
Deny(why)   == [outcome |-> "deny", reason |-> why]
Resolutions == {Allow} \cup {Deny(why) : why \in DenyReasons}
Decisions   == {Allow, Deny("user")}

ASSUME NullAssumption ==
  /\ None \notin Drafts \cup Grants \cup Ids
  /\ Unresolved \notin Resolutions
  /\ {NotFound, None} \cap Resolutions = {}

Idle    == [pc |-> "idle", id |-> None, out |-> None]
Returned(id, res) == [pc |-> "returned", id |-> id, out |-> res]
Waiting(id)       == [pc |-> "select", id |-> id, out |-> None]
WaiterStates ==
  {Idle} \cup {Waiting(id) : id \in Ids}
         \cup {Returned(id, res) : id \in Ids, res \in Resolutions \cup {NotFound}}

SessionOfId(id)    == SessionOf[pendingOf[id].call]
SessionOfGrant(id) == SessionOf[grantOf[id].draft.call]
Fresh              == {id \in Ids : pendingOf[id] = None /\ grantOf[id] = None}

TypeOK ==
  /\ pendingOf \in [Ids -> Drafts \cup {None}]
  /\ resolution \in [Ids -> Resolutions \cup {Unresolved}]
  /\ requests \subseteq Ids
  /\ grantOf \in [Ids -> Grants \cup {None}]
  /\ fullModeGrants \subseteq Ids
  /\ uses \in Seq([id : Ids, draft : Drafts, policy : Policies])
  /\ canceledSessions \subseteq Sessions
  /\ closed \in BOOLEAN
  /\ past \subseteq Ids
  /\ timers \in [Ids -> {"off", "expire", "purge"}]
  /\ waiter \in [Waiters -> WaiterStates]
  /\ ctxDone \subseteq Waiters

-----------------------------------------------------------------------------
NewBroker ==
  /\ pendingOf = [id \in Ids |-> None]
  /\ resolution = [id \in Ids |-> Unresolved]
  /\ requests = {}
  /\ grantOf = [id \in Ids |-> None]
  /\ fullModeGrants = {}
  /\ uses = <<>>
  /\ canceledSessions = {}
  /\ closed = FALSE
  /\ past = {}
  /\ timers = [id \in Ids |-> "off"]
  /\ waiter = [w \in Waiters |-> Idle]
  /\ ctxDone = {}

Lookup(id, session) == id \in requests /\ SessionOfId(id) = session

\* !time.Now().Before(entry.pending.ExpiresAt)
Expired_Never(id) == FALSE
Expired(id) == id \in past

\* The entries of S that no terminal decision has reached.
Undecided_All(S) == S
Undecided(S) == {id \in S : resolution[id] = Unresolved}

\* resolveLocked: record the resolution of every entry in S and close its
\* done channel.
ResolveLocked(S, res) ==
  resolution' = [id \in Ids |-> IF id \in S THEN res ELSE resolution[id]]

\* New requests and grants are refused after Shutdown and for a session that
\* CancelSession has tombstoned.
Admits_CanceledSession(draft) == ~closed
Admits(draft) == ~closed /\ SessionOf[draft.call] \notin canceledSessions

Open(draft) ==
  /\ Admits(draft)
  /\ \E id \in Fresh :
       /\ pendingOf' = [pendingOf EXCEPT ![id] = draft]
       /\ requests' = requests \cup {id}
       /\ timers' = [timers EXCEPT ![id] = "expire"]
  /\ UNCHANGED <<resolution, grantVars, brokerVars, past, waiter, ctxDone>>

\* validateFullModeDraft: the draft carries the policy's own revision.
ValidateFullModeDraft(draft, policy) == draft.revision = policy.revision

IssueFullModeGrant(draft, policy) ==
  /\ ValidateFullModeDraft(draft, policy)
  /\ Admits(draft)
  /\ \E id \in Fresh :
       /\ grantOf' = [grantOf EXCEPT ![id] = [draft |-> draft, policy |-> policy]]
       /\ fullModeGrants' = fullModeGrants \cup {id}
  /\ UNCHANGED <<requestVars, uses, brokerVars, past, waiter, ctxDone>>

GrantMatches(id, presented, expected, policy) ==
  /\ presented = grantOf[id].draft
  /\ expected = grantOf[id].draft
  /\ policy = grantOf[id].policy

RemoveGrant_Kept(id) == UNCHANGED fullModeGrants
RemoveGrant(id) == fullModeGrants' = fullModeGrants \ {id}

ConsumeFullModeGrant(id, presented, expected, policy) ==
  /\ ValidateFullModeDraft(expected, policy)
  /\ ~closed
  /\ id \in fullModeGrants
  /\ \/ /\ SessionOf[expected.call] \in canceledSessions \/ Expired(id)
        /\ RemoveGrant(id)
        /\ uses' = uses
     \/ /\ SessionOf[expected.call] \notin canceledSessions
        /\ ~Expired(id)
        /\ GrantMatches(id, presented, expected, policy)
        /\ RemoveGrant(id)
        /\ uses' = Append(uses, [id |-> id, draft |-> expected, policy |-> policy])
  /\ UNCHANGED <<requestVars, grantOf, brokerVars, past, waiter, ctxDone>>

\* The first critical section of Await.
AwaitEnter(w, id, session) ==
  /\ waiter[w].pc = "idle"
  /\ \/ /\ closed
        /\ waiter' = [waiter EXCEPT ![w] = Returned(id, Deny("broker_shutdown"))]
        /\ UNCHANGED resolution
     \/ /\ ~closed
        /\ ~Lookup(id, session)
        /\ waiter' = [waiter EXCEPT ![w] = Returned(id, NotFound)]
        /\ UNCHANGED resolution
     \/ /\ ~closed
        /\ Lookup(id, session)
        /\ IF resolution[id] = Unresolved
           THEN IF Expired(id)
                THEN /\ ResolveLocked({id}, Deny("expired"))
                     /\ waiter' = [waiter EXCEPT ![w] = Returned(id, Deny("expired"))]
                ELSE /\ waiter' = [waiter EXCEPT ![w] = Waiting(id)]
                     /\ UNCHANGED resolution
           ELSE /\ waiter' = [waiter EXCEPT ![w] = Returned(id, resolution[id])]
                /\ UNCHANGED resolution
  /\ UNCHANGED <<pendingOf, requests, timers, grantVars, brokerVars, past, ctxDone>>

\* select on entry.done, then readResolution through the kept pointer.
AwaitWake(w) ==
  /\ waiter[w].pc = "select"
  /\ resolution[waiter[w].id] # Unresolved
  /\ waiter' = [waiter EXCEPT ![w] = Returned(@.id, resolution[@.id])]
  /\ UNCHANGED <<requestVars, grantVars, brokerVars, past, ctxDone>>

\* select on ctx.Done(), then resolveSystem through the map.
AwaitCanceled(w) ==
  LET id == waiter[w].id IN
  /\ waiter[w].pc = "select"
  /\ w \in ctxDone
  /\ IF closed
     THEN /\ waiter' = [waiter EXCEPT ![w] = Returned(id, Deny("broker_shutdown"))]
          /\ UNCHANGED resolution
     ELSE IF id \notin requests
     THEN /\ waiter' = [waiter EXCEPT ![w] = Returned(id, NotFound)]
          /\ UNCHANGED resolution
     ELSE IF resolution[id] # Unresolved
     THEN /\ waiter' = [waiter EXCEPT ![w] = Returned(id, resolution[id])]
          /\ UNCHANGED resolution
     ELSE /\ ResolveLocked({id}, Deny("context_canceled"))
          /\ waiter' = [waiter EXCEPT ![w] = Returned(id, Deny("context_canceled"))]
  /\ UNCHANGED <<pendingOf, requests, timers, grantVars, brokerVars, past, ctxDone>>

\* One user decision; after the deadline it expires the request instead.
Resolve(id, session, decision) ==
  /\ ~closed
  /\ Lookup(id, session)
  /\ resolution[id] = Unresolved
  /\ ResolveLocked({id}, IF Expired(id) THEN Deny("expired") ELSE decision)
  /\ UNCHANGED <<pendingOf, requests, timers, grantVars, brokerVars, past, waiter, ctxDone>>

CancelSession(session) ==
  /\ ~closed
  /\ canceledSessions' = canceledSessions \cup {session}
  /\ ResolveLocked(Undecided({id \in requests : SessionOfId(id) = session}),
                   Deny("session_canceled"))
  /\ fullModeGrants' = {id \in fullModeGrants : SessionOfGrant(id) # session}
  /\ UNCHANGED <<pendingOf, requests, timers, grantOf, uses, closed, past, waiter, ctxDone>>

Shutdown_Unresolved ==
  /\ ~closed
  /\ closed' = TRUE
  /\ timers' = [id \in Ids |-> "off"]
  /\ requests' = {}
  /\ fullModeGrants' = {}
  /\ UNCHANGED <<pendingOf, resolution, grantOf, uses, canceledSessions, past, waiter, ctxDone>>
Shutdown ==
  /\ ~closed
  /\ closed' = TRUE
  /\ timers' = [id \in Ids |-> "off"]
  /\ ResolveLocked(Undecided(requests), Deny("broker_shutdown"))
  /\ requests' = {}
  /\ fullModeGrants' = {}
  /\ UNCHANGED <<pendingOf, grantOf, uses, canceledSessions, past, waiter, ctxDone>>

Expire(id) ==
  /\ timers[id] = "expire"
  /\ id \in past
  /\ IF resolution[id] # Unresolved
     THEN /\ requests' = requests \ {id}
          /\ timers' = [timers EXCEPT ![id] = "off"]
          /\ UNCHANGED resolution
     ELSE /\ ResolveLocked({id}, Deny("expired"))
          /\ timers' = [timers EXCEPT ![id] = "purge"]
          /\ UNCHANGED requests
  /\ UNCHANGED <<pendingOf, grantVars, brokerVars, past, waiter, ctxDone>>

Purge(id) ==
  /\ timers[id] = "purge"
  /\ requests' = requests \ {id}
  /\ timers' = [timers EXCEPT ![id] = "off"]
  /\ UNCHANGED <<pendingOf, resolution, grantVars, brokerVars, past, waiter, ctxDone>>

ExpireFullModeGrant(id) ==
  /\ id \in fullModeGrants
  /\ id \in past
  /\ fullModeGrants' = fullModeGrants \ {id}
  /\ UNCHANGED <<requestVars, grantOf, uses, brokerVars, past, waiter, ctxDone>>

\* The wall clock reaches the ExpiresAt of an allocated id.
DeadlinePasses(id) ==
  /\ id \notin Fresh
  /\ id \notin past
  /\ past' = past \cup {id}
  /\ UNCHANGED <<requestVars, grantVars, brokerVars, waiter, ctxDone>>

CancelContext(w) ==
  /\ w \notin ctxDone
  /\ ctxDone' = ctxDone \cup {w}
  /\ UNCHANGED <<requestVars, grantVars, brokerVars, past, waiter>>

Next ==
  \/ \E draft \in Drafts : Open(draft)
  \/ \E draft \in Drafts, policy \in Policies : IssueFullModeGrant(draft, policy)
  \/ \E id \in Ids, presented, expected \in Drafts, policy \in Policies :
       ConsumeFullModeGrant(id, presented, expected, policy)
  \/ \E w \in Waiters, id \in Ids, session \in Sessions : AwaitEnter(w, id, session)
  \/ \E w \in Waiters : AwaitWake(w) \/ AwaitCanceled(w) \/ CancelContext(w)
  \/ \E id \in Ids, session \in Sessions, decision \in Decisions :
       Resolve(id, session, decision)
  \/ \E session \in Sessions : CancelSession(session)
  \/ Shutdown
  \/ \E id \in Ids : \/ Expire(id) \/ Purge(id) \/ ExpireFullModeGrant(id)
                     \/ DeadlinePasses(id)

Spec == NewBroker /\ [][Next]_vars

-----------------------------------------------------------------------------
\* A request has one terminal resolution: no later decision, cancellation,
\* shutdown or timer replaces it (a second resolveLocked would also close
\* entry.done twice and panic).
ResolutionStable ==
  [][\A id \in Ids : resolution[id] # Unresolved => resolution'[id] = resolution[id]]_vars

\* The only step that allows a call is a user decision made before the
\* deadline, before the session was canceled and before shutdown.
AllowedInTime ==
  [][\A id \in Ids : resolution'[id] = Allow /\ resolution[id] # Allow =>
       /\ ~closed
       /\ id \in requests \ past
       /\ SessionOfId(id) \notin canceledSessions]_vars

\* CancelSession is final: a canceled session has no undecided request and no
\* spendable grant, whichever of Open and CancelSession came first.
CanceledSessionsAreQuiet ==
  /\ \A id \in requests : SessionOfId(id) \in canceledSessions => resolution[id] # Unresolved
  /\ \A id \in fullModeGrants : SessionOfGrant(id) \notin canceledSessions

\* A goroutine blocked in Await on an undecided request can still be woken:
\* the request is in the map and its TTL timer is armed.  In particular no
\* waiter holds an undecided request that was purged or lost in Shutdown.
NoWaiterStranded ==
  \A w \in Waiters :
    waiter[w].pc = "select" /\ resolution[waiter[w].id] = Unresolved =>
      /\ waiter[w].id \in requests
      /\ timers[waiter[w].id] = "expire"

\* Await never reports permission that the request does not have, and every
\* other outcome it reports is the request's own, except the shutdown denial
\* that a closed broker gives for any id.
AwaitReportsResolution ==
  \A w \in Waiters :
    waiter[w].out \in Resolutions \ {Deny("broker_shutdown")} =>
      resolution[waiter[w].id] = waiter[w].out

\* A full-mode grant authorises one execution, of exactly the call and under
\* exactly the policy it was issued for.
GrantSpentOnce ==
  /\ \A i, j \in DOMAIN uses : uses[i].id = uses[j].id => i = j
  /\ \A i \in DOMAIN uses :
       /\ uses[i].id \notin fullModeGrants
       /\ grantOf[uses[i].id] = [draft |-> uses[i].draft, policy |-> uses[i].policy]

=============================================================================
