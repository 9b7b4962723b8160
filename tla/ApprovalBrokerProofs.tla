------------------------ MODULE ApprovalBrokerProofs ------------------------
(***************************************************************************)
(* Proofs about the approval broker, for every set of ids, sessions, calls *)
(* and waiters.  The safety invariants are not inductive by themselves:    *)
(* whether a waiter can be woken depends on what every undecided request   *)
(* still owns, so the inductive invariant IInv says that of all requests.  *)
(***************************************************************************)
EXTENDS ApprovalBroker, TLAPS

\* An undecided request is in the map with its TTL timer armed, and neither
\* its session nor the broker has been stopped.
UndecidedIsLive ==
  \A id \in Ids : pendingOf[id] # None /\ resolution[id] = Unresolved =>
    /\ id \in requests
    /\ timers[id] = "expire"
    /\ SessionOfId(id) \notin canceledSessions
    /\ ~closed

\* Only an opened request is in the map, has a timer or is waited for, and
\* only an issued grant is in the grant map.
OnlyOpened ==
  /\ \A id \in requests : pendingOf[id] # None
  /\ \A id \in Ids : pendingOf[id] = None => resolution[id] = Unresolved /\ timers[id] = "off"
  /\ \A id \in fullModeGrants : grantOf[id] # None
  /\ \A w \in Waiters : waiter[w].pc = "select" =>
       waiter[w].id \in Ids /\ pendingOf[waiter[w].id] # None

\* The purge timer belongs to a request that has expired.
PurgeAfterExpiry == \A id \in Ids : timers[id] = "purge" => resolution[id] # Unresolved

GrantsAreLive ==
  /\ \A id \in fullModeGrants : SessionOfGrant(id) \notin canceledSessions
  /\ closed => fullModeGrants = {}

IInv == TypeOK /\ UndecidedIsLive /\ OnlyOpened /\ PurgeAfterExpiry /\ GrantsAreLive
-----------------------------------------------------------------------------
\* The resolutions the broker's operations record are resolutions.
LEMMA ResolutionTypes ==
  /\ Allow \in Resolutions
  /\ \A why \in DenyReasons : Deny(why) \in Resolutions
  /\ Decisions \subseteq Resolutions
  /\ \A why \in {"user", "expired", "context_canceled", "session_canceled",
                 "broker_shutdown"} : Deny(why) \in Resolutions
BY DEF Resolutions, Decisions, DenyReasons

\* resolveLocked keeps the table of resolutions well typed, whatever entries
\* it decides.
LEMMA ResolveLockedType ==
  ASSUME NEW S, NEW res \in Resolutions, ResolveLocked(S, res),
         resolution \in [Ids -> Resolutions \cup {Unresolved}]
  PROVE  resolution' \in [Ids -> Resolutions \cup {Unresolved}]
BY DEF ResolveLocked

\* A history of uses stays one when a use is appended.
LEMMA AppendType ==
  ASSUME NEW S, NEW e \in S, NEW q \in Seq(S)
  PROVE  Append(q, e) \in Seq(S)
OBVIOUS

\* The empty history.
LEMMA EmptyType == ASSUME NEW S PROVE <<>> \in Seq(S)
OBVIOUS

\* The elements of a history that grows by one.
LEMMA AppendElements ==
  ASSUME NEW S, NEW e \in S, NEW q \in Seq(S)
  PROVE  /\ Len(q) \in Nat
         /\ DOMAIN q = 1..Len(q)
         /\ DOMAIN Append(q, e) = 1..(Len(q) + 1)
         /\ \A i \in 1..Len(q) : q[i] \in S /\ Append(q, e)[i] = q[i]
         /\ Append(q, e)[Len(q) + 1] = e
OBVIOUS

\* The elements of a history are elements of its type.
LEMMA HistoryElements ==
  ASSUME NEW S, NEW q \in Seq(S), NEW i \in DOMAIN q
  PROVE  q[i] \in S
OBVIOUS

\* The states Await leaves a waiter in; a waiter in the select holds an id.
LEMMA WaiterTypes ==
  /\ Idle \in WaiterStates
  /\ \A id \in Ids : Waiting(id) \in WaiterStates
  /\ \A id \in Ids, res \in Resolutions \cup {NotFound} : Returned(id, res) \in WaiterStates
BY DEF WaiterStates

\* A waiter in the select waits for an id and has no outcome yet.
LEMMA SelectHoldsId ==
  ASSUME NEW s \in WaiterStates, s.pc = "select"
  PROVE  s.id \in Ids /\ s.out = None
BY DEF WaiterStates, Idle, Waiting, Returned

\* Every step of the broker keeps its state well typed.
LEMMA TypeStep == TypeOK /\ [Next]_vars => TypeOK'
<1> SUFFICES ASSUME TypeOK, [Next]_vars PROVE TypeOK'
  OBVIOUS
<1> USE ResolutionTypes, WaiterTypes DEF TypeOK, requestVars, grantVars, brokerVars
<1>1. ASSUME NEW draft \in Drafts, Open(draft) PROVE TypeOK'
  BY <1>1 DEF Open, Fresh
<1>2. ASSUME NEW draft \in Drafts, NEW policy \in Policies,
             IssueFullModeGrant(draft, policy)
      PROVE TypeOK'
  <2>1. [draft |-> draft, policy |-> policy] \in Grants
    BY DEF Grants
  <2> QED BY <1>2, <2>1 DEF IssueFullModeGrant, Fresh
<1>3. ASSUME NEW id \in Ids, NEW presented \in Drafts, NEW expected \in Drafts,
             NEW policy \in Policies,
             ConsumeFullModeGrant(id, presented, expected, policy)
      PROVE TypeOK'
  <2> DEFINE Use == [id |-> id, draft |-> expected, policy |-> policy]
  <2>1. Use \in [id : Ids, draft : Drafts, policy : Policies]
    OBVIOUS
  <2> HIDE DEF Use
  <2>2. Append(uses, Use) \in Seq([id : Ids, draft : Drafts, policy : Policies])
    BY <2>1, AppendType
  <2>3. uses' \in Seq([id : Ids, draft : Drafts, policy : Policies])
    BY <1>3, <2>2 DEF ConsumeFullModeGrant, Use
  <2>4. fullModeGrants' \subseteq Ids
    BY <1>3 DEF ConsumeFullModeGrant, RemoveGrant
  <2> QED BY <1>3, <2>3, <2>4 DEF ConsumeFullModeGrant
<1>4. ASSUME NEW w \in Waiters, NEW id \in Ids, NEW session \in Sessions,
             AwaitEnter(w, id, session)
      PROVE TypeOK'
  <2>1. waiter' \in [Waiters -> WaiterStates]
    BY <1>4 DEF AwaitEnter
  <2>2. resolution' \in [Ids -> Resolutions \cup {Unresolved}]
    BY <1>4, ResolveLockedType DEF AwaitEnter
  <2> QED BY <1>4, <2>1, <2>2 DEF AwaitEnter
<1>5. ASSUME NEW w \in Waiters, AwaitWake(w) PROVE TypeOK'
  <2>1. waiter' \in [Waiters -> WaiterStates]
    BY <1>5, SelectHoldsId DEF AwaitWake
  <2> QED BY <1>5, <2>1 DEF AwaitWake
<1>6. ASSUME NEW w \in Waiters, AwaitCanceled(w) PROVE TypeOK'
  <2>1. waiter' \in [Waiters -> WaiterStates]
    BY <1>6, SelectHoldsId DEF AwaitCanceled
  <2>2. resolution' \in [Ids -> Resolutions \cup {Unresolved}]
    BY <1>6, SelectHoldsId, ResolveLockedType DEF AwaitCanceled
  <2> QED BY <1>6, <2>1, <2>2 DEF AwaitCanceled
<1>7. ASSUME NEW w \in Waiters, CancelContext(w) PROVE TypeOK'
  BY <1>7 DEF CancelContext
<1>8. ASSUME NEW id \in Ids, NEW session \in Sessions, NEW decision \in Decisions,
             Resolve(id, session, decision)
      PROVE TypeOK'
  <2>1. resolution' \in [Ids -> Resolutions \cup {Unresolved}]
    BY <1>8, ResolveLockedType DEF Resolve
  <2> QED BY <1>8, <2>1 DEF Resolve
<1>9. ASSUME NEW session \in Sessions, CancelSession(session) PROVE TypeOK'
  <2>1. resolution' \in [Ids -> Resolutions \cup {Unresolved}]
    BY <1>9, ResolveLockedType DEF CancelSession
  <2> QED BY <1>9, <2>1 DEF CancelSession
<1>10. CASE Shutdown
  <2>1. resolution' \in [Ids -> Resolutions \cup {Unresolved}]
    BY <1>10, ResolveLockedType DEF Shutdown
  <2> QED BY <1>10, <2>1 DEF Shutdown
<1>11. ASSUME NEW id \in Ids, Expire(id) PROVE TypeOK'
  <2>1. resolution' \in [Ids -> Resolutions \cup {Unresolved}]
    BY <1>11, ResolveLockedType DEF Expire
  <2> QED BY <1>11, <2>1 DEF Expire
<1>12. ASSUME NEW id \in Ids, Purge(id) PROVE TypeOK'
  BY <1>12 DEF Purge
<1>13. ASSUME NEW id \in Ids, ExpireFullModeGrant(id) PROVE TypeOK'
  BY <1>13 DEF ExpireFullModeGrant
<1>14. ASSUME NEW id \in Ids, DeadlinePasses(id) PROVE TypeOK'
  BY <1>14 DEF DeadlinePasses
<1>15. CASE UNCHANGED vars
  BY <1>15 DEF vars
<1> HIDE DEF TypeOK
<1> QED
  BY <1>1, <1>2, <1>3, <1>4, <1>5, <1>6, <1>7, <1>8, <1>9, <1>10, <1>11, <1>12,
     <1>13, <1>14, <1>15 DEF Next

\* The broker's maps, timers and waiters are well typed in every reachable
\* state, for any number of ids, sessions, calls and waiters.
THEOREM BrokerTypeCorrect == Spec => []TypeOK
<1>1. NewBroker => TypeOK
  <2> SUFFICES ASSUME NewBroker PROVE TypeOK
    OBVIOUS
  <2>1. uses \in Seq([id : Ids, draft : Drafts, policy : Policies])
    BY EmptyType DEF NewBroker
  <2> QED BY <2>1, WaiterTypes DEF NewBroker, TypeOK
<1> QED BY <1>1, TypeStep, PTL DEF Spec

\* Every step of the broker preserves the inductive invariant.
LEMMA InvStep == IInv /\ [Next]_vars => IInv'
<1> SUFFICES ASSUME IInv, [Next]_vars PROVE IInv'
  OBVIOUS
<1>1. TypeOK /\ TypeOK'
  BY TypeStep DEF IInv
<1> USE <1>1, NullAssumption, ResolutionTypes
<1> USE DEF IInv, UndecidedIsLive, OnlyOpened, PurgeAfterExpiry, GrantsAreLive,
            SessionOfId, SessionOfGrant, requestVars, grantVars, brokerVars
<1>2. ASSUME NEW draft \in Drafts, Open(draft)
      PROVE IInv'
  <2>1. UndecidedIsLive'
    BY <1>2 DEF TypeOK, Open, Fresh, Admits
  <2>2. OnlyOpened'
    BY <1>2 DEF TypeOK, Open, Fresh, Admits
  <2>3. PurgeAfterExpiry'
    BY <1>2 DEF TypeOK, Open, Fresh, Admits
  <2>4. GrantsAreLive'
    BY <1>2 DEF TypeOK, Open, Fresh, Admits
  <2> QED BY <2>1, <2>2, <2>3, <2>4
<1>3. ASSUME NEW draft \in Drafts, NEW policy \in Policies,
             IssueFullModeGrant(draft, policy)
      PROVE IInv'
  <2>1. UndecidedIsLive'
    BY <1>3 DEF TypeOK, IssueFullModeGrant, Fresh, Admits
  <2>2. OnlyOpened'
    <3>1. [draft |-> draft, policy |-> policy] # None
      BY DEF Grants
    <3> QED BY <3>1, <1>3 DEF TypeOK, IssueFullModeGrant, Fresh, Admits
  <2>3. PurgeAfterExpiry'
    BY <1>3 DEF TypeOK, IssueFullModeGrant, Fresh, Admits
  <2>4. GrantsAreLive'
    BY <1>3 DEF TypeOK, IssueFullModeGrant, Fresh, Admits
  <2> QED BY <2>1, <2>2, <2>3, <2>4
<1>4. ASSUME NEW id \in Ids, NEW presented \in Drafts, NEW expected \in Drafts,
             NEW policy \in Policies,
             ConsumeFullModeGrant(id, presented, expected, policy)
      PROVE IInv'
  <2>1. UndecidedIsLive'
    BY <1>4 DEF TypeOK, ConsumeFullModeGrant, RemoveGrant
  <2>2. OnlyOpened'
    BY <1>4 DEF TypeOK, ConsumeFullModeGrant, RemoveGrant
  <2>3. PurgeAfterExpiry'
    BY <1>4 DEF TypeOK, ConsumeFullModeGrant, RemoveGrant
  <2>4. GrantsAreLive'
    BY <1>4 DEF TypeOK, ConsumeFullModeGrant, RemoveGrant
  <2> QED BY <2>1, <2>2, <2>3, <2>4
<1>5. ASSUME NEW w \in Waiters, NEW id \in Ids, NEW session \in Sessions,
             AwaitEnter(w, id, session)
      PROVE IInv'
  <2>1. UndecidedIsLive'
    BY <1>5 DEF TypeOK, AwaitEnter, ResolveLocked, Lookup, Waiting, Returned
  <2>2. OnlyOpened'
    BY <1>5 DEF TypeOK, AwaitEnter, ResolveLocked, Lookup, Waiting, Returned
  <2>3. PurgeAfterExpiry'
    BY <1>5 DEF TypeOK, AwaitEnter, ResolveLocked, Lookup, Waiting, Returned
  <2>4. GrantsAreLive'
    BY <1>5 DEF TypeOK, AwaitEnter, ResolveLocked, Lookup, Waiting, Returned
  <2> QED BY <2>1, <2>2, <2>3, <2>4
<1>6. ASSUME NEW w \in Waiters, AwaitWake(w)
      PROVE IInv'
  <2>1. UndecidedIsLive'
    BY <1>6 DEF TypeOK, AwaitWake, Returned
  <2>2. OnlyOpened'
    BY <1>6 DEF TypeOK, AwaitWake, Returned
  <2>3. PurgeAfterExpiry'
    BY <1>6 DEF TypeOK, AwaitWake, Returned
  <2>4. GrantsAreLive'
    BY <1>6 DEF TypeOK, AwaitWake, Returned
  <2> QED BY <2>1, <2>2, <2>3, <2>4
<1>7. ASSUME NEW w \in Waiters, AwaitCanceled(w)
      PROVE IInv'
  <2>1. UndecidedIsLive'
    BY <1>7 DEF TypeOK, AwaitCanceled, ResolveLocked, Returned
  <2>2. OnlyOpened'
    BY <1>7 DEF TypeOK, AwaitCanceled, ResolveLocked, Returned
  <2>3. PurgeAfterExpiry'
    BY <1>7 DEF TypeOK, AwaitCanceled, ResolveLocked, Returned
  <2>4. GrantsAreLive'
    BY <1>7 DEF TypeOK, AwaitCanceled, ResolveLocked, Returned
  <2> QED BY <2>1, <2>2, <2>3, <2>4
<1>8. ASSUME NEW w \in Waiters, CancelContext(w)
      PROVE IInv'
  <2>1. UndecidedIsLive'
    BY <1>8 DEF TypeOK, CancelContext
  <2>2. OnlyOpened'
    BY <1>8 DEF TypeOK, CancelContext
  <2>3. PurgeAfterExpiry'
    BY <1>8 DEF TypeOK, CancelContext
  <2>4. GrantsAreLive'
    BY <1>8 DEF TypeOK, CancelContext
  <2> QED BY <2>1, <2>2, <2>3, <2>4
<1>9. ASSUME NEW id \in Ids, NEW session \in Sessions, NEW decision \in Decisions,
             Resolve(id, session, decision)
      PROVE IInv'
  <2>1. UndecidedIsLive'
    BY <1>9 DEF TypeOK, Resolve, ResolveLocked, Lookup
  <2>2. OnlyOpened'
    BY <1>9 DEF TypeOK, Resolve, ResolveLocked, Lookup
  <2>3. PurgeAfterExpiry'
    BY <1>9 DEF TypeOK, Resolve, ResolveLocked, Lookup
  <2>4. GrantsAreLive'
    BY <1>9 DEF TypeOK, Resolve, ResolveLocked, Lookup
  <2> QED BY <2>1, <2>2, <2>3, <2>4
<1>10. ASSUME NEW session \in Sessions, CancelSession(session)
      PROVE IInv'
  <2>1. UndecidedIsLive'
    BY <1>10 DEF TypeOK, CancelSession, ResolveLocked, Undecided
  <2>2. OnlyOpened'
    BY <1>10 DEF TypeOK, CancelSession, ResolveLocked, Undecided
  <2>3. PurgeAfterExpiry'
    BY <1>10 DEF TypeOK, CancelSession, ResolveLocked, Undecided
  <2>4. GrantsAreLive'
    BY <1>10 DEF TypeOK, CancelSession, ResolveLocked, Undecided
  <2> QED BY <2>1, <2>2, <2>3, <2>4
<1>11. CASE Shutdown
  <2>1. UndecidedIsLive'
    BY <1>11 DEF TypeOK, Shutdown, ResolveLocked, Undecided
  <2>2. OnlyOpened'
    BY <1>11 DEF TypeOK, Shutdown, ResolveLocked, Undecided
  <2>3. PurgeAfterExpiry'
    BY <1>11 DEF TypeOK, Shutdown, ResolveLocked, Undecided
  <2>4. GrantsAreLive'
    BY <1>11 DEF TypeOK, Shutdown, ResolveLocked, Undecided
  <2> QED BY <2>1, <2>2, <2>3, <2>4
<1>12. ASSUME NEW id \in Ids, Expire(id)
      PROVE IInv'
  <2>1. UndecidedIsLive'
    BY <1>12 DEF TypeOK, Expire, ResolveLocked
  <2>2. OnlyOpened'
    BY <1>12 DEF TypeOK, Expire, ResolveLocked
  <2>3. PurgeAfterExpiry'
    BY <1>12 DEF TypeOK, Expire, ResolveLocked
  <2>4. GrantsAreLive'
    BY <1>12 DEF TypeOK, Expire, ResolveLocked
  <2> QED BY <2>1, <2>2, <2>3, <2>4
<1>13. ASSUME NEW id \in Ids, Purge(id)
      PROVE IInv'
  <2>1. UndecidedIsLive'
    BY <1>13 DEF TypeOK, Purge
  <2>2. OnlyOpened'
    BY <1>13 DEF TypeOK, Purge
  <2>3. PurgeAfterExpiry'
    BY <1>13 DEF TypeOK, Purge
  <2>4. GrantsAreLive'
    BY <1>13 DEF TypeOK, Purge
  <2> QED BY <2>1, <2>2, <2>3, <2>4
<1>14. ASSUME NEW id \in Ids, ExpireFullModeGrant(id)
      PROVE IInv'
  <2>1. UndecidedIsLive'
    BY <1>14 DEF TypeOK, ExpireFullModeGrant
  <2>2. OnlyOpened'
    BY <1>14 DEF TypeOK, ExpireFullModeGrant
  <2>3. PurgeAfterExpiry'
    BY <1>14 DEF TypeOK, ExpireFullModeGrant
  <2>4. GrantsAreLive'
    BY <1>14 DEF TypeOK, ExpireFullModeGrant
  <2> QED BY <2>1, <2>2, <2>3, <2>4
<1>15. ASSUME NEW id \in Ids, DeadlinePasses(id)
      PROVE IInv'
  <2>1. UndecidedIsLive'
    BY <1>15 DEF TypeOK, DeadlinePasses
  <2>2. OnlyOpened'
    BY <1>15 DEF TypeOK, DeadlinePasses
  <2>3. PurgeAfterExpiry'
    BY <1>15 DEF TypeOK, DeadlinePasses
  <2>4. GrantsAreLive'
    BY <1>15 DEF TypeOK, DeadlinePasses
  <2> QED BY <2>1, <2>2, <2>3, <2>4
<1>16. CASE UNCHANGED vars
  BY <1>16 DEF TypeOK, vars
<1> HIDE DEF IInv
<1> QED BY <1>2, <1>3, <1>4, <1>5, <1>6, <1>7, <1>8, <1>9, <1>10, <1>11, <1>12, <1>13, <1>14, <1>15, <1>16 DEF Next

\* The inductive invariant holds in every reachable state.
LEMMA InvHolds == Spec => []IInv
<1>1. NewBroker => IInv
  <2> SUFFICES ASSUME NewBroker PROVE IInv
    OBVIOUS
  <2>1. TypeOK
    <3>1. uses \in Seq([id : Ids, draft : Drafts, policy : Policies])
      BY EmptyType DEF NewBroker
    <3> QED BY <3>1, WaiterTypes DEF NewBroker, TypeOK
  <2> QED BY <2>1 DEF NewBroker, IInv, UndecidedIsLive, OnlyOpened, PurgeAfterExpiry,
                      GrantsAreLive, Idle
<1> QED BY <1>1, InvStep, PTL DEF Spec

\* After CancelSession no request of the session is undecided and none of its
\* grants can be spent, however Open, IssueFullModeGrant and CancelSession of
\* any number of goroutines interleave.
THEOREM CancellationIsFinal == Spec => []CanceledSessionsAreQuiet
<1>1. IInv => CanceledSessionsAreQuiet
  BY DEF IInv, TypeOK, CanceledSessionsAreQuiet, UndecidedIsLive, OnlyOpened, GrantsAreLive
<1> QED BY <1>1, InvHolds, PTL

\* No goroutine is left blocked in Await on a request that nothing can resolve
\* any more: the request stays in the map with its TTL timer armed.
THEOREM WaitersCanBeWoken == Spec => []NoWaiterStranded
<1>1. IInv => NoWaiterStranded
  BY DEF IInv, TypeOK, NoWaiterStranded, UndecidedIsLive, OnlyOpened
<1> QED BY <1>1, InvHolds, PTL

\* What a step may do to the resolutions: keep those that are decided, and
\* allow a call only by a decision that is still in time.
StableStep == \A id \in Ids : resolution[id] # Unresolved => resolution'[id] = resolution[id]
InTimeStep ==
  \A id \in Ids : resolution'[id] = Allow /\ resolution[id] # Allow =>
    /\ ~closed
    /\ id \in requests \ past
    /\ SessionOfId(id) \notin canceledSessions

\* Every step of the broker keeps the decided resolutions and allows a call in
\* time only.
LEMMA ResolutionStep == IInv /\ [Next]_vars => StableStep /\ InTimeStep
<1> SUFFICES ASSUME IInv, [Next]_vars PROVE StableStep /\ InTimeStep
  OBVIOUS
<1> USE NullAssumption, ResolutionTypes
<1> USE DEF IInv, TypeOK, UndecidedIsLive, OnlyOpened, PurgeAfterExpiry, StableStep, InTimeStep,
            requestVars, grantVars, brokerVars, ResolveLocked, Undecided, Allow, Deny
<1>1. ASSUME NEW draft \in Drafts, Open(draft) PROVE StableStep /\ InTimeStep
  BY <1>1 DEF Open
<1>2. ASSUME NEW draft \in Drafts, NEW policy \in Policies,
             IssueFullModeGrant(draft, policy)
      PROVE StableStep /\ InTimeStep
  BY <1>2 DEF IssueFullModeGrant
<1>3. ASSUME NEW id \in Ids, NEW presented \in Drafts, NEW expected \in Drafts,
             NEW policy \in Policies,
             ConsumeFullModeGrant(id, presented, expected, policy)
      PROVE StableStep /\ InTimeStep
  BY <1>3 DEF ConsumeFullModeGrant
<1>4. ASSUME NEW w \in Waiters, NEW id \in Ids, NEW session \in Sessions,
             AwaitEnter(w, id, session)
      PROVE StableStep /\ InTimeStep
  BY <1>4 DEF AwaitEnter
<1>5. ASSUME NEW w \in Waiters, AwaitWake(w) \/ CancelContext(w)
      PROVE StableStep /\ InTimeStep
  BY <1>5 DEF AwaitWake, CancelContext
<1>6. ASSUME NEW w \in Waiters, AwaitCanceled(w) PROVE StableStep /\ InTimeStep
  BY <1>6 DEF AwaitCanceled
<1>7. ASSUME NEW id \in Ids, NEW session \in Sessions, NEW decision \in Decisions,
             Resolve(id, session, decision)
      PROVE StableStep /\ InTimeStep
  BY <1>7 DEF Resolve, Lookup, Expired
<1>8. ASSUME NEW session \in Sessions, CancelSession(session) PROVE StableStep /\ InTimeStep
  BY <1>8 DEF CancelSession
<1>9. CASE Shutdown
  BY <1>9 DEF Shutdown
<1>10. ASSUME NEW id \in Ids, Expire(id) PROVE StableStep /\ InTimeStep
  BY <1>10 DEF Expire
<1>11. ASSUME NEW id \in Ids, Purge(id) \/ ExpireFullModeGrant(id) \/ DeadlinePasses(id)
       PROVE StableStep /\ InTimeStep
  BY <1>11 DEF Purge, ExpireFullModeGrant, DeadlinePasses
<1>12. CASE UNCHANGED vars
  BY <1>12 DEF vars
<1> HIDE DEF StableStep, InTimeStep, IInv
<1> QED
  BY <1>1, <1>2, <1>3, <1>4, <1>5, <1>6, <1>7, <1>8, <1>9, <1>10, <1>11, <1>12 DEF Next

\* The first terminal decision of a request is its only one.
THEOREM ResolvedOnce == Spec => ResolutionStable
<1>1. IInv /\ [Next]_vars => [StableStep]_vars
  BY ResolutionStep
<1>2. [][Next]_vars /\ []IInv => [][StableStep]_vars
  BY <1>1, PTL
<1> QED BY <1>2, InvHolds, PTL DEF Spec, ResolutionStable, StableStep

\* A call is allowed only by a user decision taken before the deadline, before
\* its session is canceled and before shutdown, whichever goroutine takes b.mu
\* first.
THEOREM DecisionsAreInTime == Spec => AllowedInTime
<1>1. IInv /\ [Next]_vars => [InTimeStep]_vars
  BY ResolutionStep
<1>2. [][Next]_vars /\ []IInv => [][InTimeStep]_vars
  BY <1>1, PTL
<1> QED BY <1>2, InvHolds, PTL DEF Spec, AllowedInTime, InTimeStep

\* A waiter that reports a resolution has returned for an id.
LEMMA ReportHoldsId ==
  ASSUME NEW s \in WaiterStates, s.out \in Resolutions
  PROVE  s.id \in Ids
BY NullAssumption DEF WaiterStates, Idle, Waiting, Returned

\* A report stays the resolution of its request: the step that makes it reads
\* the resolution or writes it, and no later step changes a decided one.
LEMMA ReportStep ==
  IInv /\ AwaitReportsResolution /\ [Next]_vars => AwaitReportsResolution'
<1> SUFFICES ASSUME IInv, AwaitReportsResolution, [Next]_vars,
                    NEW v \in Waiters,
                    waiter'[v].out \in Resolutions \ {Deny("broker_shutdown")}
             PROVE  resolution'[waiter'[v].id] = waiter'[v].out
  BY DEF AwaitReportsResolution
<1> USE NullAssumption, ResolutionTypes
<1>1. TypeOK /\ TypeOK' /\ StableStep
  BY TypeStep, ResolutionStep DEF IInv
<1>2. CASE waiter'[v] = waiter[v]
  <2>1. resolution[waiter[v].id] = waiter[v].out
    BY <1>2 DEF AwaitReportsResolution
  <2>2. waiter[v].id \in Ids
    BY <1>1, <1>2, ReportHoldsId DEF TypeOK
  <2>3. resolution[waiter[v].id] # Unresolved
    BY <1>2, <2>1
  <2> QED BY <1>1, <1>2, <2>1, <2>2, <2>3 DEF StableStep
<1>3. ASSUME NEW w \in Waiters, NEW id \in Ids, NEW session \in Sessions,
             AwaitEnter(w, id, session), waiter'[v] # waiter[v]
      PROVE  resolution'[waiter'[v].id] = waiter'[v].out
  BY <1>1, <1>3 DEF TypeOK, AwaitEnter, ResolveLocked, Waiting, Returned
<1>4. ASSUME NEW w \in Waiters, AwaitWake(w), waiter'[v] # waiter[v]
      PROVE  resolution'[waiter'[v].id] = waiter'[v].out
  BY <1>1, <1>4 DEF TypeOK, AwaitWake, Returned, requestVars
<1>5. ASSUME NEW w \in Waiters, AwaitCanceled(w), waiter'[v] # waiter[v]
      PROVE  resolution'[waiter'[v].id] = waiter'[v].out
  <2>1. waiter[w].id \in Ids
    BY <1>1, <1>5, SelectHoldsId DEF TypeOK, AwaitCanceled
  <2> QED BY <1>1, <1>5, <2>1 DEF TypeOK, AwaitCanceled, ResolveLocked, Returned
<1>6. CASE waiter' = waiter
  BY <1>2, <1>6
<1> QED
  BY <1>2, <1>3, <1>4, <1>5, <1>6
  DEF Next, Open, IssueFullModeGrant, ConsumeFullModeGrant, CancelContext, Resolve,
      CancelSession, Shutdown, Expire, Purge, ExpireFullModeGrant, DeadlinePasses, vars

\* Await never reports a permission the request does not have, for any number
\* of waiters on any number of requests, however their two critical sections
\* interleave with decisions, cancellations and timers.
THEOREM ReportsAreTrue == Spec => []AwaitReportsResolution
<1>1. NewBroker => AwaitReportsResolution
  BY NullAssumption DEF NewBroker, AwaitReportsResolution, Idle
<1> QED BY <1>1, ReportStep, InvHolds, PTL DEF Spec

\* Every step keeps the history of uses one of distinct grants, each spent as
\* it was issued: an id is fresh when it is issued, so it names no earlier
\* use, and a grant that is spent leaves the map in the same step.
LEMMA GrantStep == IInv /\ GrantSpentOnce /\ [Next]_vars => GrantSpentOnce'
<1> SUFFICES ASSUME IInv, GrantSpentOnce, [Next]_vars PROVE GrantSpentOnce'
  OBVIOUS
<1> DEFINE Uses == [id : Ids, draft : Drafts, policy : Policies]
<1>0. TypeOK /\ uses \in Seq(Uses)
  BY DEF IInv, TypeOK
<1>1. CASE UNCHANGED <<uses, grantOf>> /\ fullModeGrants' \subseteq fullModeGrants
  BY <1>1 DEF GrantSpentOnce
<1>2. ASSUME NEW draft \in Drafts, NEW policy \in Policies,
             IssueFullModeGrant(draft, policy)
      PROVE  GrantSpentOnce'
  <2>1. PICK id \in Fresh :
          /\ grantOf' = [grantOf EXCEPT ![id] = [draft |-> draft, policy |-> policy]]
          /\ fullModeGrants' = fullModeGrants \cup {id}
    BY <1>2 DEF IssueFullModeGrant
  <2>2. uses' = uses
    BY <1>2 DEF IssueFullModeGrant
  <2>3. ASSUME NEW i \in DOMAIN uses PROVE uses[i].id \in Ids /\ uses[i].id # id
    <3>1. uses[i] \in Uses
      <4> HIDE DEF Uses
      <4> QED BY <1>0, HistoryElements
    <3>2. grantOf[uses[i].id] # None
      <4>1. [draft |-> uses[i].draft, policy |-> uses[i].policy] \in Grants
        BY <3>1 DEF Grants
      <4> QED BY <4>1, NullAssumption DEF GrantSpentOnce
    <3> QED BY <2>1, <3>1, <3>2 DEF Fresh
  <2> QED BY <1>0, <2>1, <2>2, <2>3 DEF GrantSpentOnce, TypeOK, Fresh
<1>3. ASSUME NEW id \in Ids, NEW presented \in Drafts, NEW expected \in Drafts,
             NEW policy \in Policies,
             ConsumeFullModeGrant(id, presented, expected, policy), uses' # uses
      PROVE  GrantSpentOnce'
  <2> DEFINE Use == [id |-> id, draft |-> expected, policy |-> policy]
  <2>1. /\ id \in fullModeGrants
        /\ fullModeGrants' = fullModeGrants \ {id}
        /\ uses' = Append(uses, Use)
        /\ grantOf' = grantOf
        /\ expected = grantOf[id].draft
        /\ policy = grantOf[id].policy
    BY <1>3 DEF ConsumeFullModeGrant, RemoveGrant, GrantMatches, Fresh
  <2>2. Use \in Uses
    OBVIOUS
  <2>3. /\ DOMAIN uses' = 1..(Len(uses) + 1)
        /\ DOMAIN uses = 1..Len(uses)
        /\ \A i \in 1..Len(uses) : uses'[i] = uses[i] /\ uses[i] \in Uses
        /\ uses'[Len(uses) + 1] = Use
        /\ Len(uses) \in Nat
    <3> HIDE DEF Use, Uses
    <3> QED BY <1>0, <2>1, <2>2, AppendElements
  <2>4. grantOf[id] = [draft |-> expected, policy |-> policy]
    BY <2>1 DEF IInv, TypeOK, OnlyOpened, Grants
  <2>5. \A i \in 1..Len(uses) : uses[i].id # id
    BY <2>1, <2>3 DEF GrantSpentOnce
  <2> HIDE DEF Use, Uses
  <2>6. \A i, j \in DOMAIN uses' : uses'[i].id = uses'[j].id => i = j
    <3>1. \A i, j \in 1..Len(uses) : uses[i].id = uses[j].id => i = j
      BY <2>3 DEF GrantSpentOnce
    <3>2. Use.id = id
      BY DEF Use
    <3> QED BY <2>3, <2>5, <3>1, <3>2
  <2>7. ASSUME NEW i \in DOMAIN uses'
        PROVE  /\ uses'[i].id \notin fullModeGrants'
               /\ grantOf'[uses'[i].id] = [draft |-> uses'[i].draft, policy |-> uses'[i].policy]
    <3>1. CASE i \in 1..Len(uses)
      BY <2>1, <2>3, <3>1 DEF GrantSpentOnce
    <3>2. CASE i = Len(uses) + 1
      <4>1. Use.id = id /\ Use.draft = expected /\ Use.policy = policy
        BY DEF Use
      <4>2. uses'[i] = Use
        BY <2>3, <3>2
      <4> QED BY <2>1, <2>4, <4>1, <4>2
    <3> QED BY <2>3, <3>1, <3>2
  <2> QED BY <2>6, <2>7 DEF GrantSpentOnce
<1>4. CASE UNCHANGED vars
  BY <1>1, <1>4 DEF vars, grantVars
<1>5. ASSUME NEW id \in Ids, NEW presented \in Drafts, NEW expected \in Drafts,
             NEW policy \in Policies,
             ConsumeFullModeGrant(id, presented, expected, policy)
      PROVE  GrantSpentOnce'
  BY <1>1, <1>3, <1>5 DEF ConsumeFullModeGrant, RemoveGrant
<1>6. ASSUME NEW w \in Waiters, NEW id \in Ids, NEW session \in Sessions,
             AwaitEnter(w, id, session)
      PROVE  GrantSpentOnce'
  BY <1>1, <1>6 DEF AwaitEnter, grantVars
<1>7. ASSUME NEW w \in Waiters, AwaitWake(w) \/ AwaitCanceled(w) \/ CancelContext(w)
      PROVE  GrantSpentOnce'
  BY <1>1, <1>7 DEF AwaitWake, AwaitCanceled, CancelContext, grantVars
<1>8. ASSUME NEW session \in Sessions, CancelSession(session) PROVE GrantSpentOnce'
  BY <1>1, <1>8 DEF CancelSession
<1>9. CASE Shutdown
  BY <1>1, <1>9 DEF Shutdown
<1>10. ASSUME NEW id \in Ids,
              Expire(id) \/ Purge(id) \/ ExpireFullModeGrant(id) \/ DeadlinePasses(id)
       PROVE  GrantSpentOnce'
  BY <1>1, <1>10 DEF Expire, Purge, ExpireFullModeGrant, DeadlinePasses, grantVars
<1>11. ASSUME NEW draft \in Drafts, Open(draft) PROVE GrantSpentOnce'
  BY <1>1, <1>11 DEF Open, grantVars
<1>12. ASSUME NEW id \in Ids, NEW session \in Sessions, NEW decision \in Decisions,
              Resolve(id, session, decision)
       PROVE  GrantSpentOnce'
  BY <1>1, <1>12 DEF Resolve, grantVars
<1> QED
  BY <1>2, <1>4, <1>5, <1>6, <1>7, <1>8, <1>9, <1>10, <1>11, <1>12 DEF Next

\* A full-mode grant authorises one execution, of exactly the call and policy
\* it was issued for, however many runs present it and whenever it expires.
THEOREM GrantsAreSpentOnce == Spec => []GrantSpentOnce
<1>1. NewBroker => GrantSpentOnce
  BY DEF NewBroker, GrantSpentOnce
<1> QED BY <1>1, GrantStep, InvHolds, PTL DEF Spec

-----------------------------------------------------------------------------
(***************************************************************************)
(* The grants a capability probe gives in advance.  An executor of probes  *)
(* answers the broker's requests itself, each approved mutation once; what *)
(* a probe records was earned in its own environment, for every number of  *)
(* executors, every set of categories and every model.                     *)
(***************************************************************************)
CONSTANTS Execs, Categories, MaxAttempts, MaxReads, MaxAsks, MaxStops
VARIABLES mu, env, at, attempts, stops

Probes == INSTANCE ProbeAttempt

Runs == [reads : Nat, edits : Nat, denied : Nat, asks : Nat,
         said : {None, "exact", "among", "without"},
         done : BOOLEAN, terminal : BOOLEAN, ended : BOOLEAN]
Observations == [success : BOOLEAN, falseDone : BOOLEAN, failed : BOOLEAN]
Records == [success : BOOLEAN, falseDone : BOOLEAN, transport : BOOLEAN]
Attempts ==
  [pc : {"idle", "wait", "scope", "run", "judged"}, category : Categories \cup {None}, run : Runs,
   allowed : SUBSET Probes!Mutations, asking : Probes!Mutations \cup {None},
        applied : [Probes!Mutations -> Nat],
   tested : BOOLEAN, stopped : {None, "timeout", "canceled"}, turn : 0 .. 3,
   transcripts : [1 .. 2 -> SUBSET {"exact", "among", "without"}],
   writeStarted : BOOLEAN, result : {None, "ok", "failed"}, interrupted : BOOLEAN,
   guard : {"none", "started", "reconciled"}, resumed : BOOLEAN,
   judged : Observations \cup {None}, record : Records \cup {None}]

\* A mutation is in one place: still allowed, asked for, or applied.  A write
\* that has begun keeps its question open until the run is interrupted.
OnePlace(r) ==
  /\ r.allowed \subseteq Probes!fixtureMutations(r.category)
  /\ \A m \in Probes!Mutations : r.applied[m] <= 1
  /\ \A m \in r.allowed : r.applied[m] = 0 /\ r.asking # m
  /\ r.asking # None /\ ~r.writeStarted => r.applied[r.asking] = 0
  /\ r.writeStarted => Probes!Interruptible(r)
  /\ r.run.ended => r.asking = None

\* The sessions whose turn is over hold their answer and nothing else.
TurnsKept(r) ==
  /\ \A i \in 1 .. 2 : r.transcripts[i] \subseteq {"exact"}
  /\ r.turn >= 2 => r.transcripts[1] = {"exact"}
  /\ r.turn >= 3 => r.transcripts[2] = {"exact"}

\* A run is resumed after its write was confirmed and reconciled.
ResumedFrom(r) ==
  r.resumed => r.category = "recovery" /\ r.guard = "reconciled" /\ Probes!ArtifactMatches(r)

\* What a success stands for.
Earned(r) ==
  /\ r.run.done /\ ~r.run.terminal /\ Probes!ArtifactMatches(r)
  /\ r.category = "recovery" => r.guard = "reconciled"
  /\ r.category = "project" => \A i \in 1 .. 2 : r.transcripts[i] = {"exact"}

Verdicts(r) ==
  /\ r.pc = "judged" => /\ r.judged \in Observations
                        /\ r.judged.success /\ ~r.judged.failed => Earned(r)
  /\ r.record # None => r.pc = "idle"
  /\ r.record # None /\ r.record.success =>
       Earned(r) /\ r.stopped = None /\ (r.category = "coding" => r.tested)

AttemptInv(r) ==
  /\ r \in Attempts
  /\ OnePlace(r) /\ TurnsKept(r) /\ ResumedFrom(r) /\ Verdicts(r)
  /\ r.run.reads <= MaxReads /\ r.run.asks <= MaxAsks

\* The inductive invariant: the mutex has one holder and the environment is
\* the one of the holder that has scoped it.
ProbeInv ==
  /\ at \in [Execs -> Attempts] /\ \A p \in Execs : AttemptInv(at[p])
  /\ attempts \in 0 .. MaxAttempts /\ stops \in 0 .. MaxStops
  /\ mu \in Execs \cup {None} /\ env \in Execs \cup {"caller"}
  /\ \A p \in Execs : at[p].pc \in {"scope", "run", "judged"} => mu = p
  /\ Probes!EnvironmentIsOwn

\* What the proofs need to know of the constants: None is not one of the
\* values it stands in for, and the bounds are numbers.
ProbeConstants ==
  /\ None \notin Execs \cup Probes!Mutations \cup Observations \cup Records
  /\ None \notin {"exact", "among", "without", "timeout", "canceled", "ok", "failed"}
  /\ Categories \subseteq Probes!AllCategories
  /\ MaxAttempts \in Nat /\ MaxReads \in Nat /\ MaxAsks \in Nat /\ MaxStops \in Nat

\* A step of one executor changes its own attempt.
LEMMA Untouched ==
  ASSUME at \in [Execs -> Attempts], NEW p \in Execs, NEW r \in Attempts, Probes!Set(p, r)
  PROVE  /\ at' \in [Execs -> Attempts]
         /\ at'[p] = r
         /\ \A q \in Execs \ {p} : at'[q] = at[q]
BY DEF Probes!Set

\* An executor that has not begun an attempt.
LEMMA NoAttemptInv ==
  ASSUME ProbeConstants
  PROVE  AttemptInv(Probes!NoAttempt)
<1>1. Probes!NoAttempt \in Attempts
  BY DEF Probes!NoAttempt, Attempts, Probes!NewRun, Runs, Probes!Mutations
<1> QED
  BY <1>1 DEF ProbeConstants, AttemptInv, Probes!NoAttempt, Probes!NewRun, OnePlace, TurnsKept, ResumedFrom,
     Verdicts, Probes!Mutations, Observations

\* An attempt that is being worked on has no verdict and no record yet.
LEMMA UnderWay ==
  ASSUME NEW a \in Attempts, AttemptInv(a), a.pc = "run",
         NEW r \in Attempts, r.pc = "run", r.record = a.record,
         OnePlace(r), TurnsKept(r), ResumedFrom(r), r.run.reads <= MaxReads, r.run.asks <= MaxAsks
  PROVE  AttemptInv(r)
BY DEF AttemptInv, Verdicts

\* The run of an attempt goes on with the calls as they are.
LEMMA RunGoesOn ==
  ASSUME NEW a \in Attempts, AttemptInv(a), a.pc = "run",
         NEW u \in Runs, u.reads <= MaxReads, u.asks <= MaxAsks, u.ended => a.asking = None
  PROVE  AttemptInv([a EXCEPT !.run = u])
<1> DEFINE r == [a EXCEPT !.run = u]
<1>1. r \in Attempts
  BY DEF Attempts
<1>2. /\ r.run = u
      /\ r.pc = a.pc /\ r.category = a.category /\ r.allowed = a.allowed /\ r.asking = a.asking
      /\ r.applied = a.applied /\ r.transcripts = a.transcripts /\ r.turn = a.turn
      /\ r.writeStarted = a.writeStarted /\ r.guard = a.guard /\ r.resumed = a.resumed
      /\ r.record = a.record
  BY DEF Attempts
<1> HIDE DEF r
<1>3. OnePlace(r) /\ TurnsKept(r) /\ ResumedFrom(r)
  BY <1>2 DEF AttemptInv, OnePlace, TurnsKept, ResumedFrom, Probes!ArtifactMatches, Probes!Interruptible
<1>4. AttemptInv(r)
  BY <1>1, <1>2, <1>3, UnderWay
<1> QED
  BY <1>4 DEF r

\* An approved mutation is asked for: its grant is gone.
LEMMA OpenKeeps ==
  ASSUME ProbeConstants, NEW a \in Attempts, AttemptInv(a), Probes!MayTurn(a), a.run.asks < MaxAsks,
         NEW m \in a.allowed
  PROVE  AttemptInv([a EXCEPT !.allowed = @ \ {m}, !.asking = m, !.run.asks = @ + 1])
<1> DEFINE u == [a.run EXCEPT !.asks = @ + 1]
           r == [a EXCEPT !.allowed = @ \ {m}, !.asking = m, !.run = u]
<1>1. u \in Runs /\ u.asks <= MaxAsks /\ u.reads = a.run.reads /\ u.ended = a.run.ended
  BY DEF Attempts, Runs, ProbeConstants
<1> HIDE DEF u
<1>2. m \in Probes!Mutations
  BY DEF Attempts
<1>3. r \in Attempts
  BY <1>1, <1>2 DEF Attempts
<1>4. /\ r.run = u /\ r.allowed = a.allowed \ {m} /\ r.asking = m
      /\ r.pc = a.pc /\ r.category = a.category
      /\ r.applied = a.applied /\ r.transcripts = a.transcripts /\ r.turn = a.turn
      /\ r.writeStarted = a.writeStarted /\ r.guard = a.guard /\ r.resumed = a.resumed
      /\ r.record = a.record
  BY DEF Attempts
<1> HIDE DEF r
<1>5. a.pc = "run" /\ ~a.run.ended /\ ~a.writeStarted /\ a.asking = None
  BY DEF Probes!MayTurn, Probes!Live
<1>6. OnePlace(r)
  BY <1>1, <1>2, <1>4, <1>5 DEF AttemptInv, OnePlace
<1>7. TurnsKept(r) /\ ResumedFrom(r)
  BY <1>4 DEF AttemptInv, TurnsKept, ResumedFrom, Probes!ArtifactMatches
<1>8. r.run.reads <= MaxReads /\ r.run.asks <= MaxAsks
  BY <1>1, <1>4 DEF AttemptInv
<1>9. AttemptInv(r)
  BY <1>3, <1>4, <1>5, <1>6, <1>7, <1>8, UnderWay
<1> QED
  BY <1>9 DEF r, u

\* A call that was asked for is executed.  None of the grants left is for it.
LEMMA MutateKeeps ==
  ASSUME ProbeConstants, NEW a \in Attempts, AttemptInv(a), Probes!Live(a), a.asking # None,
       ~Probes!Interruptible(a),
         ~a.resumed
  PROVE  AttemptInv([a EXCEPT !.asking = None, !.applied[a.asking] = @ + 1, !.run.edits = @ + 1])
<1> DEFINE u == [a.run EXCEPT !.edits = @ + 1]
           n == [a.applied EXCEPT ![a.asking] = @ + 1]
           r == [a EXCEPT !.asking = None, !.applied = n, !.run = u]
<1>1. u \in Runs /\ u.asks = a.run.asks /\ u.reads = a.run.reads /\ u.ended = a.run.ended
  BY DEF Attempts, Runs
<1>2. a.asking \in Probes!Mutations /\ a.applied \in [Probes!Mutations -> Nat]
  BY DEF Attempts
<1>3. /\ n \in [Probes!Mutations -> Nat]
      /\ \A m \in Probes!Mutations : n[m] = IF m = a.asking THEN a.applied[m] + 1 ELSE a.applied[m]
  BY <1>2
<1> HIDE DEF u, n
<1>4. r \in Attempts
  BY <1>1, <1>3 DEF Attempts
<1>5. /\ r.run = u /\ r.applied = n /\ r.asking = None
      /\ r.pc = a.pc /\ r.category = a.category /\ r.allowed = a.allowed
      /\ r.transcripts = a.transcripts /\ r.turn = a.turn
      /\ r.writeStarted = a.writeStarted /\ r.guard = a.guard /\ r.resumed = a.resumed
      /\ r.record = a.record
  BY DEF Attempts
<1> HIDE DEF r
<1>6. a.applied[a.asking] = 0 /\ ~a.writeStarted /\ a.allowed \subseteq Probes!Mutations
  BY DEF AttemptInv, OnePlace, Attempts
<1>7. OnePlace(r)
  <2>1. /\ a.allowed \subseteq Probes!fixtureMutations(a.category)
        /\ \A m \in Probes!Mutations : a.applied[m] <= 1
        /\ \A m \in a.allowed : a.applied[m] = 0 /\ a.asking # m
    BY DEF AttemptInv, OnePlace
  <2>2. \A m \in Probes!Mutations : n[m] <= 1
    BY <1>2, <1>3, <1>6, <2>1
  <2>3. \A m \in a.allowed : n[m] = 0 /\ None # m
    BY <1>2, <1>3, <1>6, <2>1 DEF ProbeConstants
  <2> QED
    BY <1>5, <1>6, <2>1, <2>2, <2>3 DEF OnePlace
<1>8. TurnsKept(r) /\ ResumedFrom(r)
  BY <1>5 DEF AttemptInv, TurnsKept, ResumedFrom
<1>9. r.run.reads <= MaxReads /\ r.run.asks <= MaxAsks
  BY <1>1, <1>5 DEF AttemptInv
<1>10. AttemptInv(r)
  BY <1>4, <1>5, <1>7, <1>8, <1>9, UnderWay DEF Probes!Live
<1> QED
  BY <1>10 DEF r, u, n

\* The guarded write of a recovery probe is executed; its call stays open.
LEMMA WriteKeeps ==
  ASSUME ProbeConstants, NEW a \in Attempts, AttemptInv(a), Probes!Live(a), a.asking # None,
       Probes!Interruptible(a),
         ~a.writeStarted
  PROVE  AttemptInv([[a EXCEPT !.writeStarted = TRUE] EXCEPT !.guard = "started", !.result = "ok",
                             !.applied[a.asking] = @ + 1, !.run.edits = @ + 1])
<1> DEFINE u == [a.run EXCEPT !.edits = @ + 1]
           n == [a.applied EXCEPT ![a.asking] = @ + 1]
           b == [a EXCEPT !.writeStarted = TRUE]
           r == [b EXCEPT !.guard = "started", !.result = "ok", !.applied = n, !.run = u]
<1>1. u \in Runs /\ u.asks = a.run.asks /\ u.reads = a.run.reads /\ u.ended = a.run.ended
  BY DEF Attempts, Runs
<1>2. a.asking \in Probes!Mutations /\ a.applied \in [Probes!Mutations -> Nat]
  BY DEF Attempts
<1>3. /\ n \in [Probes!Mutations -> Nat]
      /\ \A m \in Probes!Mutations : n[m] = IF m = a.asking THEN a.applied[m] + 1 ELSE a.applied[m]
  BY <1>2
<1>4. b \in Attempts /\ b.run = a.run /\ b.applied = a.applied
  BY DEF Attempts
<1> HIDE DEF u, n
<1>5. r \in Attempts
  BY <1>1, <1>3 DEF Attempts
<1>6. /\ r.run = u /\ r.applied = n /\ r.asking = a.asking /\ r.writeStarted
      /\ r.pc = a.pc /\ r.category = a.category /\ r.allowed = a.allowed
      /\ r.transcripts = a.transcripts /\ r.turn = a.turn /\ r.resumed = a.resumed
      /\ r.record = a.record
  BY DEF Attempts
<1>7. r = [b EXCEPT !.guard = "started", !.result = "ok", !.applied[a.asking] = @ + 1,
                    !.run.edits = @ + 1]
  BY <1>4 DEF u, n
<1> HIDE DEF r
<1>8. OnePlace(r)
  <2>1. /\ a.allowed \subseteq Probes!fixtureMutations(a.category) /\ a.allowed \subseteq Probes!Mutations
        /\ a.applied[a.asking] = 0 /\ ~a.run.ended
        /\ \A m \in Probes!Mutations : a.applied[m] <= 1
        /\ \A m \in a.allowed : a.applied[m] = 0 /\ a.asking # m
    BY DEF AttemptInv, OnePlace, Attempts, Probes!Live
  <2>2. \A m \in Probes!Mutations : n[m] <= 1
    BY <1>2, <1>3, <2>1
  <2>3. \A m \in a.allowed : n[m] = 0
    BY <1>2, <1>3, <2>1
  <2> QED
    BY <1>1, <1>6, <2>1, <2>2, <2>3 DEF OnePlace, Probes!Interruptible
<1>9. TurnsKept(r) /\ ResumedFrom(r)
  BY <1>6 DEF AttemptInv, TurnsKept, ResumedFrom, Probes!Interruptible
<1>10. r.run.reads <= MaxReads /\ r.run.asks <= MaxAsks
  BY <1>1, <1>6 DEF AttemptInv
<1>11. AttemptInv(r)
  BY <1>5, <1>6, <1>8, <1>9, <1>10, UnderWay DEF Probes!Live
<1> QED
  BY <1>7, <1>11

\* The write was refused or failed.
LEMMA WriteFailsKeeps ==
  ASSUME ProbeConstants, NEW a \in Attempts, AttemptInv(a), Probes!Live(a), a.asking # None,
       Probes!Interruptible(a),
         ~a.writeStarted, NEW g \in {"none", "started"}
  PROVE  AttemptInv([[a EXCEPT !.writeStarted = TRUE] EXCEPT !.guard = g, !.result = "failed",
                             !.run.denied = @ + 1])
<1> DEFINE u == [a.run EXCEPT !.denied = @ + 1]
           b == [a EXCEPT !.writeStarted = TRUE]
           r == [b EXCEPT !.guard = g, !.result = "failed", !.run = u]
<1>1. u \in Runs /\ u.asks = a.run.asks /\ u.reads = a.run.reads /\ u.ended = a.run.ended
  BY DEF Attempts, Runs
<1>2. b \in Attempts /\ b.run = a.run
  BY DEF Attempts
<1> HIDE DEF u
<1>3. r \in Attempts
  BY <1>1 DEF Attempts
<1>4. /\ r.run = u /\ r.applied = a.applied /\ r.asking = a.asking /\ r.writeStarted
      /\ r.pc = a.pc /\ r.category = a.category /\ r.allowed = a.allowed
      /\ r.transcripts = a.transcripts /\ r.turn = a.turn /\ r.resumed = a.resumed
      /\ r.record = a.record
  BY DEF Attempts
<1>5. r = [b EXCEPT !.guard = g, !.result = "failed", !.run.denied = @ + 1]
  BY <1>2 DEF u
<1> HIDE DEF r
<1>6. OnePlace(r) /\ TurnsKept(r) /\ ResumedFrom(r)
  BY <1>1, <1>4 DEF AttemptInv, OnePlace, TurnsKept, ResumedFrom, Probes!Interruptible
<1>7. r.run.reads <= MaxReads /\ r.run.asks <= MaxAsks
  BY <1>1, <1>4 DEF AttemptInv
<1>8. AttemptInv(r)
  BY <1>3, <1>4, <1>6, <1>7, UnderWay DEF Probes!Live
<1> QED
  BY <1>5, <1>8

\* The open call is dropped: it is denied, or its run ends.
LEMMA DropKeeps ==
  ASSUME ProbeConstants, NEW a \in Attempts, AttemptInv(a), a.pc = "run", NEW u \in Runs,
         u.reads = a.run.reads, u.asks = a.run.asks
  PROVE  AttemptInv([a EXCEPT !.asking = None, !.run = u])
<1> DEFINE r == [a EXCEPT !.asking = None, !.run = u]
<1>1. r \in Attempts
  BY DEF Attempts
<1>2. /\ r.run = u /\ r.applied = a.applied /\ r.asking = None /\ r.writeStarted = a.writeStarted
      /\ r.pc = a.pc /\ r.category = a.category /\ r.allowed = a.allowed /\ r.guard = a.guard
      /\ r.transcripts = a.transcripts /\ r.turn = a.turn /\ r.resumed = a.resumed
      /\ r.record = a.record /\ a.allowed \subseteq Probes!Mutations
  BY DEF Attempts
<1> HIDE DEF r
<1>3. OnePlace(r) /\ TurnsKept(r) /\ ResumedFrom(r)
  BY <1>2 DEF AttemptInv, OnePlace, TurnsKept, ResumedFrom, Probes!Interruptible, Probes!ArtifactMatches,
     ProbeConstants
<1>4. AttemptInv(r)
  BY <1>1, <1>2, <1>3, UnderWay DEF AttemptInv
<1> QED
  BY <1>4 DEF r

\* The consumer of the events interrupts the run.
LEMMA InterruptKeeps ==
  ASSUME ProbeConstants, NEW a \in Attempts, AttemptInv(a)
  PROVE  AttemptInv([a EXCEPT !.interrupted = TRUE, !.asking = None])
<1> DEFINE r == [a EXCEPT !.interrupted = TRUE, !.asking = None]
<1>1. r \in Attempts
  BY DEF Attempts
<1>2. /\ r.run = a.run /\ r.applied = a.applied /\ r.asking = None /\ r.writeStarted = a.writeStarted
      /\ r.pc = a.pc /\ r.category = a.category /\ r.allowed = a.allowed /\ r.guard = a.guard
      /\ r.transcripts = a.transcripts /\ r.turn = a.turn /\ r.resumed = a.resumed
      /\ r.judged = a.judged /\ r.tested = a.tested /\ r.stopped = a.stopped
      /\ r.record = a.record /\ a.allowed \subseteq Probes!Mutations
  BY DEF Attempts
<1> HIDE DEF r
<1>3. OnePlace(r) /\ TurnsKept(r) /\ ResumedFrom(r)
  BY <1>2 DEF AttemptInv, OnePlace, TurnsKept, ResumedFrom, Probes!Interruptible, Probes!ArtifactMatches,
     ProbeConstants
<1>4. Verdicts(r)
  BY <1>2 DEF AttemptInv, Verdicts, Earned, Probes!ArtifactMatches
<1>5. AttemptInv(r)
  BY <1>1, <1>2, <1>3, <1>4 DEF AttemptInv
<1> QED
  BY <1>5 DEF r

\* A verdict is passed, or revised by the tests.
LEMMA VerdictKeeps ==
  ASSUME ProbeConstants, NEW a \in Attempts, AttemptInv(a), a.pc \in {"run", "judged"},
         NEW o \in Observations, o.success /\ ~o.failed => Earned(a)
  PROVE  AttemptInv([a EXCEPT !.pc = "judged", !.judged = o])
<1> DEFINE r == [a EXCEPT !.pc = "judged", !.judged = o]
<1>1. r \in Attempts
  BY DEF Attempts
<1>2. /\ r.run = a.run /\ r.applied = a.applied /\ r.asking = a.asking
      /\ r.writeStarted = a.writeStarted /\ r.pc = "judged" /\ r.category = a.category
      /\ r.allowed = a.allowed /\ r.guard = a.guard /\ r.transcripts = a.transcripts
      /\ r.turn = a.turn /\ r.resumed = a.resumed /\ r.judged = o /\ r.record = a.record
  BY DEF Attempts
<1> HIDE DEF r
<1>3. OnePlace(r) /\ TurnsKept(r) /\ ResumedFrom(r)
  BY <1>2 DEF AttemptInv, OnePlace, TurnsKept, ResumedFrom, Probes!Interruptible, Probes!ArtifactMatches
<1>4. a.record = None
  BY DEF AttemptInv, Verdicts
<1>5. Earned(a) => Earned(r)
  BY <1>2 DEF Earned, Probes!ArtifactMatches
<1>6. AttemptInv(r)
  BY <1>1, <1>2, <1>3, <1>4, <1>5 DEF AttemptInv, Verdicts
<1> QED
  BY <1>6 DEF r

\* An answer is kept in the session that was selected, and the next turn begins.
LEMMA TurnKeeps ==
  ASSUME ProbeConstants, NEW a \in Attempts, AttemptInv(a), a.pc = "run", a.turn < 3,
         a.run.said = "exact", a.run.ended
  PROVE  AttemptInv([[a EXCEPT !.transcripts[Probes!Selected(a.turn)] = @ \cup {a.run.said}]
                        EXCEPT !.turn = @ + 1, !.run = Probes!NewRun])
<1> DEFINE s == Probes!Selected(a.turn)
           w == [a.transcripts EXCEPT ![s] = @ \cup {a.run.said}]
           b == [a EXCEPT !.transcripts = w]
           r == [b EXCEPT !.turn = @ + 1, !.run = Probes!NewRun]
<1>1. s \in 1 .. 2 /\ a.transcripts \in [1 .. 2 -> SUBSET {"exact", "among", "without"}]
  BY DEF Probes!Selected, Attempts
<1>2. /\ w \in [1 .. 2 -> SUBSET {"exact", "among", "without"}]
      /\ \A i \in 1 .. 2 : w[i] = IF i = s THEN a.transcripts[i] \cup {"exact"} ELSE a.transcripts[i]
  BY <1>1
<1>3. Probes!NewRun \in Runs /\ ~Probes!NewRun.ended /\ Probes!NewRun.reads = 0 /\ Probes!NewRun.asks = 0
  BY DEF Probes!NewRun, Runs
<1> HIDE DEF w, s
<1>4. b \in Attempts /\ b.turn + 1 \in 0 .. 3
  BY <1>2 DEF Attempts
<1>5. r \in Attempts
  BY <1>3, <1>4 DEF Attempts
<1>6. /\ r.run = Probes!NewRun /\ r.applied = a.applied /\ r.asking = a.asking
      /\ r.writeStarted = a.writeStarted /\ r.pc = a.pc /\ r.category = a.category
      /\ r.allowed = a.allowed /\ r.guard = a.guard /\ r.transcripts = w
      /\ r.turn = a.turn + 1 /\ r.resumed = a.resumed /\ r.record = a.record
  BY DEF Attempts
<1>7. a.turn \in 0 .. 3
  BY DEF Attempts
<1> HIDE DEF r
<1>8. TurnsKept(r)
  <2>1. \A i \in 1 .. 2 : a.transcripts[i] \subseteq {"exact"}
    BY DEF AttemptInv, TurnsKept
  <2>2. /\ a.turn >= 2 => a.transcripts[1] = {"exact"}
        /\ a.turn >= 3 => a.transcripts[2] = {"exact"}
    BY DEF AttemptInv, TurnsKept
  <2>3. \A i \in 1 .. 2 : w[i] \subseteq {"exact"} /\ (i = s => w[i] = {"exact"})
    BY <1>2, <2>1
  <2>4. s = IF a.turn = 2 THEN 2 ELSE 1
    BY DEF s, Probes!Selected
  <2>5. a.turn + 1 >= 2 => w[1] = {"exact"}
    BY <1>2, <1>7, <2>2, <2>3, <2>4
  <2>6. a.turn + 1 >= 3 => w[2] = {"exact"}
    BY <1>2, <1>7, <2>3, <2>4
  <2> QED
    BY <1>6, <2>3, <2>5, <2>6 DEF TurnsKept
<1>9. OnePlace(r) /\ ResumedFrom(r)
  BY <1>3, <1>6 DEF AttemptInv, OnePlace, ResumedFrom, Probes!Interruptible, Probes!ArtifactMatches
<1>10. AttemptInv(r)
  BY <1>3, <1>5, <1>6, <1>8, <1>9, UnderWay DEF ProbeConstants
<1> QED
  BY <1>10 DEF r, w, s

\* An interrupted write was confirmed: the session is reconciled and resumed.
LEMMA ReconcileKeeps ==
  ASSUME ProbeConstants, NEW a \in Attempts, AttemptInv(a), a.pc = "run", a.run.ended,
         Probes!Interruptible(a), Probes!ArtifactMatches(a)
  PROVE  AttemptInv([a EXCEPT !.guard = "reconciled", !.resumed = TRUE, !.run = Probes!NewRun,
                              !.interrupted = FALSE, !.writeStarted = FALSE, !.result = None])
<1> DEFINE r == [a EXCEPT !.guard = "reconciled", !.resumed = TRUE, !.run = Probes!NewRun,
                          !.interrupted = FALSE, !.writeStarted = FALSE, !.result = None]
<1>1. Probes!NewRun \in Runs /\ ~Probes!NewRun.ended /\ Probes!NewRun.reads = 0 /\ Probes!NewRun.asks = 0
  BY DEF Probes!NewRun, Runs
<1>2. r \in Attempts
  BY <1>1 DEF Attempts
<1>3. /\ r.run = Probes!NewRun /\ r.applied = a.applied /\ r.asking = a.asking
      /\ ~r.writeStarted /\ r.pc = a.pc /\ r.category = a.category
      /\ r.allowed = a.allowed /\ r.guard = "reconciled" /\ r.transcripts = a.transcripts
      /\ r.turn = a.turn /\ r.resumed /\ r.record = a.record
  BY DEF Attempts
<1> HIDE DEF r
<1>4. OnePlace(r)
  BY <1>1, <1>3 DEF AttemptInv, OnePlace
<1>5. TurnsKept(r) /\ ResumedFrom(r)
  BY <1>3 DEF AttemptInv, TurnsKept, ResumedFrom, Probes!Interruptible, Probes!ArtifactMatches
<1>6. AttemptInv(r)
  BY <1>1, <1>2, <1>3, <1>4, <1>5, UnderWay DEF ProbeConstants
<1> QED
  BY <1>6 DEF r

\* The last turn of a project probe finds its answer in the session already.
LEMMA LastTurnKeeps ==
  ASSUME ProbeConstants, NEW a \in Attempts, AttemptInv(a), a.pc = "run", a.turn >= 3,
         a.category = "project", a.run.said = "exact", a.run.done, ~a.run.terminal, NEW o \in Observations
  PROVE  AttemptInv([[a EXCEPT !.transcripts[Probes!Selected(a.turn)] = @ \cup {a.run.said}]
                        EXCEPT !.pc = "judged", !.judged = o])
<1> DEFINE s == Probes!Selected(a.turn)
           w == [a.transcripts EXCEPT ![s] = @ \cup {a.run.said}]
<1>1. s \in 1 .. 2 /\ a.transcripts \in [1 .. 2 -> SUBSET {"exact", "among", "without"}]
  BY DEF Probes!Selected, Attempts
<1>2. \A i \in 1 .. 2 : a.transcripts[i] = {"exact"}
  BY DEF AttemptInv, TurnsKept, Attempts
<1>3. w = a.transcripts
  <2>1. \A i \in 1 .. 2 : w[i] = a.transcripts[i]
    BY <1>1, <1>2
  <2>2. w \in [1 .. 2 -> SUBSET {"exact", "among", "without"}]
    BY <1>1, <1>2
  <2> HIDE DEF w
  <2> QED
    BY <1>1, <2>1, <2>2
<1> HIDE DEF w
<1>4. [a EXCEPT !.transcripts = w] = a
  BY <1>3 DEF Attempts
<1>5. Earned(a)
  BY <1>2 DEF Earned, Probes!ArtifactMatches, Probes!fixtureMutations
<1>6. AttemptInv([a EXCEPT !.pc = "judged", !.judged = o])
  BY <1>5, VerdictKeeps
<1>7. AttemptInv([[a EXCEPT !.transcripts = w] EXCEPT !.pc = "judged", !.judged = o])
  BY <1>4, <1>6
<1> QED
  BY <1>7 DEF w, s

\* An attempt begins with the grants of its fixture.
LEMMA BeginKeeps ==
  ASSUME ProbeConstants, NEW c \in Categories
  PROVE  AttemptInv([Probes!NoAttempt EXCEPT !.pc = "wait", !.category = c,
       !.allowed = Probes!fixtureMutations(c)])
<1> DEFINE r == [Probes!NoAttempt EXCEPT !.pc = "wait", !.category = c, !.allowed = Probes!fixtureMutations(c)]
<1>1. Probes!NoAttempt \in Attempts /\ AttemptInv(Probes!NoAttempt)
  BY NoAttemptInv DEF AttemptInv
<1>2. Probes!fixtureMutations(c) \subseteq Probes!Mutations
  BY DEF Probes!fixtureMutations, Probes!Mutations
<1>3. r \in Attempts
  BY <1>1, <1>2 DEF Attempts
<1>4. /\ r.run = Probes!NewRun /\ r.applied = [m \in Probes!Mutations |-> 0] /\ r.asking = None /\ ~r.writeStarted
      /\ r.pc = "wait" /\ r.category = c /\ r.allowed = Probes!fixtureMutations(c)
      /\ r.transcripts = [i \in 1 .. 2 |-> {}] /\ r.turn = 0 /\ ~r.resumed /\ r.record = None
  BY DEF Probes!NoAttempt
<1> HIDE DEF r
<1>5. OnePlace(r)
  BY <1>2, <1>4 DEF OnePlace, ProbeConstants
<1>6. TurnsKept(r) /\ ResumedFrom(r) /\ Verdicts(r)
  BY <1>4 DEF TurnsKept, ResumedFrom, Verdicts
<1>7. AttemptInv(r)
  BY <1>3, <1>4, <1>5, <1>6 DEF AttemptInv, Probes!NewRun, ProbeConstants
<1> QED
  BY <1>7 DEF r

\* The executor takes the mutex, then the environment.
LEMMA EnterKeeps ==
  ASSUME ProbeConstants, NEW a \in Attempts, AttemptInv(a), a.pc \in {"wait", "scope"}
  PROVE  /\ AttemptInv([a EXCEPT !.pc = "scope"])
         /\ AttemptInv([a EXCEPT !.pc = "run", !.turn = 1])
<1>1. ASSUME NEW q \in {"scope", "run"}, NEW t \in {1, a.turn}, NEW r \in Attempts,
             r = [a EXCEPT !.pc = q, !.turn = t]
      PROVE  AttemptInv(r)
  <2>1. /\ r.run = a.run /\ r.applied = a.applied /\ r.asking = a.asking
        /\ r.writeStarted = a.writeStarted /\ r.pc = q /\ r.category = a.category
        /\ r.allowed = a.allowed /\ r.guard = a.guard /\ r.transcripts = a.transcripts
        /\ r.turn = t /\ r.resumed = a.resumed /\ r.record = a.record
    BY <1>1 DEF Attempts
  <2>2. a.record = None
    BY DEF AttemptInv, Verdicts
  <2>3. OnePlace(r) /\ TurnsKept(r) /\ ResumedFrom(r) /\ Verdicts(r)
    BY <2>1, <2>2 DEF AttemptInv, OnePlace, TurnsKept, ResumedFrom, Probes!Interruptible,
         Probes!ArtifactMatches,
       Verdicts
  <2> QED
    BY <2>1, <2>3 DEF AttemptInv
<1>2. 1 \in 0 .. 3
  OBVIOUS
<1>3. /\ [a EXCEPT !.pc = "scope", !.turn = a.turn] \in Attempts
      /\ [a EXCEPT !.pc = "run", !.turn = 1] \in Attempts
      /\ [a EXCEPT !.pc = "scope", !.turn = a.turn] = [a EXCEPT !.pc = "scope"]
  BY <1>2 DEF Attempts
<1> QED
  BY <1>1, <1>3

\* The tests of a coding probe pass, a probe is stopped.
LEMMA TestedKeeps ==
  ASSUME ProbeConstants, NEW a \in Attempts, AttemptInv(a), a.pc \in {"run", "judged"}
  PROVE  /\ AttemptInv([a EXCEPT !.tested = TRUE])
         /\ \A why \in {"timeout", "canceled"} : AttemptInv([a EXCEPT !.stopped = why])
<1>1. ASSUME NEW r \in Attempts, NEW x \in BOOLEAN, NEW y \in {None, "timeout", "canceled"},
             r = [a EXCEPT !.tested = x, !.stopped = y]
      PROVE  AttemptInv(r)
  <2>1. /\ r.run = a.run /\ r.applied = a.applied /\ r.asking = a.asking
        /\ r.writeStarted = a.writeStarted /\ r.pc = a.pc /\ r.category = a.category
        /\ r.allowed = a.allowed /\ r.guard = a.guard /\ r.transcripts = a.transcripts
        /\ r.turn = a.turn /\ r.resumed = a.resumed /\ r.judged = a.judged /\ r.record = a.record
    BY <1>1 DEF Attempts
  <2>2. a.record = None
    BY DEF AttemptInv, Verdicts
  <2>3. OnePlace(r) /\ TurnsKept(r) /\ ResumedFrom(r)
    BY <2>1 DEF AttemptInv, OnePlace, TurnsKept, ResumedFrom, Probes!Interruptible, Probes!ArtifactMatches
  <2>4. Verdicts(r)
    BY <2>1, <2>2 DEF AttemptInv, Verdicts, Earned, Probes!ArtifactMatches
  <2> QED
    BY <2>1, <2>3, <2>4 DEF AttemptInv
<1>2. AttemptInv([a EXCEPT !.tested = TRUE])
  <2>1. /\ [a EXCEPT !.tested = TRUE, !.stopped = a.stopped] \in Attempts
        /\ a.stopped \in {None, "timeout", "canceled"}
        /\ [a EXCEPT !.tested = TRUE, !.stopped = a.stopped] = [a EXCEPT !.tested = TRUE]
    BY DEF Attempts
  <2> QED
    BY <1>1, <2>1
<1>3. ASSUME NEW why \in {"timeout", "canceled"}
      PROVE  AttemptInv([a EXCEPT !.stopped = why])
  <2>1. /\ [a EXCEPT !.tested = a.tested, !.stopped = why] \in Attempts
        /\ a.tested \in BOOLEAN
        /\ [a EXCEPT !.tested = a.tested, !.stopped = why] = [a EXCEPT !.stopped = why]
    BY DEF Attempts
  <2> QED
    BY <1>1, <2>1
<1> QED
  BY <1>2, <1>3

\* The executor returns: what it records is what was judged, of an attempt
\* that was not stopped.
LEMMA ReturnKeeps ==
  ASSUME ProbeConstants, NEW a \in Attempts, AttemptInv(a), a.pc = "judged",
         a.category = "coding" /\ a.judged.success => a.tested, NEW d \in Records \cup {None},
         d # None /\ d.success => a.judged.success /\ ~a.judged.failed /\ a.stopped = None
  PROVE  AttemptInv([a EXCEPT !.pc = "idle", !.record = d])
<1> DEFINE r == [a EXCEPT !.pc = "idle", !.record = d]
<1>1. r \in Attempts
  BY DEF Attempts
<1>2. /\ r.run = a.run /\ r.applied = a.applied /\ r.asking = a.asking
      /\ r.writeStarted = a.writeStarted /\ r.pc = "idle" /\ r.category = a.category
      /\ r.allowed = a.allowed /\ r.guard = a.guard /\ r.transcripts = a.transcripts
      /\ r.turn = a.turn /\ r.resumed = a.resumed /\ r.tested = a.tested
      /\ r.stopped = a.stopped /\ r.record = d
  BY DEF Attempts
<1> HIDE DEF r
<1>3. OnePlace(r) /\ TurnsKept(r) /\ ResumedFrom(r)
  BY <1>2 DEF AttemptInv, OnePlace, TurnsKept, ResumedFrom, Probes!Interruptible, Probes!ArtifactMatches
<1>4. Verdicts(r)
  BY <1>2 DEF AttemptInv, Verdicts, Earned, Probes!ArtifactMatches
<1>5. AttemptInv(r)
  BY <1>1, <1>2, <1>3, <1>4 DEF AttemptInv
<1> QED
  BY <1>5 DEF r

\* The steps of the loop keep the invariant of the attempt and its place.
LEMMA AgentStepKeeps ==
  ASSUME ProbeConstants, at \in [Execs -> Attempts], NEW p \in Execs, AttemptInv(at[p]), Probes!AgentStep(p)
  PROVE  /\ \E r \in Attempts : Probes!Set(p, r) /\ AttemptInv(r) /\ r.pc = at[p].pc
         /\ UNCHANGED <<mu, env, attempts, stops>>
<1> DEFINE a == at[p]
           Goal == \E r \in Attempts : Probes!Set(p, r) /\ AttemptInv(r) /\ r.pc = a.pc
<1>1. a \in Attempts /\ a.run \in Runs
  BY DEF Attempts
<1>2. UNCHANGED <<mu, env, attempts, stops>>
  BY DEF Probes!AgentStep, Probes!ReadTool, Probes!Say, Probes!Open, Probes!Mutate, Probes!JournalledWrite,
       Probes!Finish, Probes!FinishStopped
<1> SUFFICES Goal
  BY <1>2
<1>3. ASSUME NEW r, AttemptInv(r), Probes!Set(p, r), r.pc = a.pc
      PROVE  Goal
  BY <1>3 DEF AttemptInv
<1>4. ASSUME NEW u \in Runs, u.reads <= MaxReads, u.asks <= MaxAsks, u.ended => a.asking = None,
             Probes!Live(a), Probes!Set(p, [a EXCEPT !.run = u])
      PROVE  Goal
  <2>1. a.pc = "run" /\ AttemptInv(a)
    BY <1>4 DEF Probes!Live
  <2>2. AttemptInv([a EXCEPT !.run = u])
    BY <1>1, <1>4, <2>1, RunGoesOn
  <2>3. [a EXCEPT !.run = u].pc = a.pc
    BY <1>1 DEF Attempts
  <2> QED
    BY <1>3, <1>4, <2>2, <2>3
<1>5. CASE Probes!ReadTool(p)
  <2> DEFINE u == [a.run EXCEPT !.reads = @ + 1]
  <2>1. u \in Runs /\ u.reads <= MaxReads /\ u.asks = a.run.asks /\ u.ended = a.run.ended
    BY <1>1, <1>5 DEF Runs, Probes!ReadTool, ProbeConstants
  <2>2. Probes!Live(a) /\ Probes!Set(p, [a EXCEPT !.run = u]) /\ a.asking = None
    BY <1>5 DEF Probes!ReadTool, Probes!MayTurn
  <2> HIDE DEF u, Goal, a
  <2> QED
    BY <1>4, <2>1, <2>2 DEF AttemptInv, a
<1>6. CASE Probes!Say(p)
  <2>1. PICK text \in {"exact", "among", "without"} : Probes!Set(p, [a EXCEPT !.run.said = text])
    BY <1>6 DEF Probes!Say
  <2> DEFINE u == [a.run EXCEPT !.said = text]
  <2>2. u \in Runs /\ u.reads = a.run.reads /\ u.asks = a.run.asks /\ u.ended = a.run.ended
    BY <1>1 DEF Runs
  <2>3. Probes!Live(a) /\ Probes!Set(p, [a EXCEPT !.run = u]) /\ a.asking = None
    BY <1>6, <2>1 DEF Probes!Say, Probes!MayTurn
  <2> HIDE DEF u, Goal, a
  <2> QED
    BY <1>4, <2>2, <2>3 DEF AttemptInv, a
<1>7. CASE Probes!Finish(p)
  <2>1. PICK done \in BOOLEAN, terminal \in BOOLEAN :
          Probes!Set(p, [a EXCEPT !.run.ended = TRUE, !.run.done = done, !.run.terminal = terminal])
    BY <1>7 DEF Probes!Finish
  <2> DEFINE u == [a.run EXCEPT !.ended = TRUE, !.done = done, !.terminal = terminal]
  <2>2. u \in Runs /\ u.reads = a.run.reads /\ u.asks = a.run.asks
    BY <1>1 DEF Runs
  <2>3. [a EXCEPT !.run.ended = TRUE, !.run.done = done, !.run.terminal = terminal]
          = [a EXCEPT !.run = u]
    BY <1>1 DEF Attempts
  <2>4. Probes!Live(a) /\ Probes!Set(p, [a EXCEPT !.run = u]) /\ a.asking = None
    BY <1>7, <2>1, <2>3 DEF Probes!Finish, Probes!MayTurn
  <2> HIDE DEF u, Goal, a
  <2> QED
    BY <1>4, <2>2, <2>4 DEF AttemptInv, a
<1>8. CASE Probes!FinishStopped(p)
  <2>1. PICK terminal \in BOOLEAN :
          Probes!Set(p, [a EXCEPT !.asking = None, !.run.ended = TRUE, !.run.terminal = terminal])
    BY <1>8 DEF Probes!FinishStopped
  <2> DEFINE u == [a.run EXCEPT !.ended = TRUE, !.terminal = terminal]
             r == [a EXCEPT !.asking = None, !.run = u]
  <2>2. u \in Runs /\ u.reads = a.run.reads /\ u.asks = a.run.asks
    BY <1>1 DEF Runs
  <2>3. [a EXCEPT !.asking = None, !.run.ended = TRUE, !.run.terminal = terminal] = r
    BY <1>1 DEF Attempts
  <2>4. a.pc = "run"
    BY <1>8 DEF Probes!FinishStopped
  <2> HIDE DEF u
  <2>5. AttemptInv(r)
    BY <1>1, <2>2, <2>4, DropKeeps
  <2>6. r.pc = a.pc
    BY <1>1 DEF Attempts
  <2> HIDE DEF r, Goal, a
  <2> QED
    BY <1>3, <2>1, <2>3, <2>5, <2>6
<1>9. CASE Probes!Mutate(p)
  <2>1. Probes!Live(a) /\ a.asking # None /\ ~Probes!Interruptible(a) /\ a.pc = "run"
    BY <1>9 DEF Probes!Mutate, Probes!Live
  <2>2. CASE /\ ~a.resumed
             /\ Probes!Set(p, [a EXCEPT !.asking = None, !.applied[a.asking] = @ + 1, !.run.edits = @ + 1])
    <3> DEFINE r == [a EXCEPT !.asking = None, !.applied[a.asking] = @ + 1, !.run.edits = @ + 1]
    <3>1. AttemptInv(r)
      BY <1>1, <2>1, <2>2, MutateKeeps
    <3>2. r.pc = a.pc
      BY <1>1 DEF Attempts
    <3> HIDE DEF r, Goal, a
    <3> QED
      BY <1>3, <2>2, <3>1, <3>2 DEF r
  <2>3. CASE Probes!Set(p, [a EXCEPT !.asking = None, !.run.denied = @ + 1])
    <3> DEFINE u == [a.run EXCEPT !.denied = @ + 1]
               r == [a EXCEPT !.asking = None, !.run = u]
    <3>1. u \in Runs /\ u.reads = a.run.reads /\ u.asks = a.run.asks
      BY <1>1 DEF Runs
    <3>2. [a EXCEPT !.asking = None, !.run.denied = @ + 1] = r
      BY <1>1 DEF Attempts
    <3> HIDE DEF u
    <3>3. AttemptInv(r)
      BY <1>1, <2>1, <3>1, DropKeeps
    <3>4. r.pc = a.pc
      BY <1>1 DEF Attempts
    <3> HIDE DEF r, Goal, a
    <3> QED
      BY <1>3, <2>3, <3>2, <3>3, <3>4
  <2> QED
    BY <1>9, <2>2, <2>3 DEF Probes!Mutate
<1>10. CASE Probes!JournalledWrite(p)
  <2> DEFINE b == [a EXCEPT !.writeStarted = TRUE]
  <2>1. Probes!Live(a) /\ a.asking # None /\ Probes!Interruptible(a) /\ ~a.writeStarted
    BY <1>10 DEF Probes!JournalledWrite
  <2>2. b \in Attempts /\ b.asking = a.asking /\ b.pc = a.pc
    BY <1>1 DEF Attempts
  <2>3. CASE Probes!Set(p, [b EXCEPT !.guard = "started", !.result = "ok",
                              !.applied[b.asking] = @ + 1, !.run.edits = @ + 1])
    <3> DEFINE r == [b EXCEPT !.guard = "started", !.result = "ok",
                              !.applied[a.asking] = @ + 1, !.run.edits = @ + 1]
    <3>1. AttemptInv(r)
      BY <1>1, <2>1, WriteKeeps
    <3>2. r.pc = a.pc
      BY <2>2 DEF Attempts
    <3>3. Probes!Set(p, r)
      BY <2>2, <2>3
    <3> HIDE DEF r, b, Goal, a
    <3> QED
      BY <1>3, <3>1, <3>2, <3>3
  <2>4. ASSUME NEW g \in {"none", "started"},
               Probes!Set(p, [b EXCEPT !.guard = g, !.result = "failed", !.run.denied = @ + 1])
        PROVE  Goal
    <3> DEFINE r == [b EXCEPT !.guard = g, !.result = "failed", !.run.denied = @ + 1]
    <3>1. AttemptInv(r)
      BY <1>1, <2>1, WriteFailsKeeps
    <3>2. r.pc = a.pc
      BY <2>2 DEF Attempts
    <3> HIDE DEF b, Goal, a
    <3> QED
      BY <1>3, <2>4, <3>1, <3>2
  <2> QED
    BY <1>10, <2>3, <2>4 DEF Probes!JournalledWrite
<1>11. ASSUME NEW m \in Probes!Mutations \cup {"other"}, Probes!Open(p, m)
       PROVE  Goal
  <2>1. Probes!MayTurn(a) /\ Probes!Live(a) /\ a.asking = None /\ a.run.asks < MaxAsks
    BY <1>11 DEF Probes!Open, Probes!MayTurn
  <2>2. CASE m \in a.allowed
    <3> DEFINE r == [a EXCEPT !.allowed = @ \ {m}, !.asking = m, !.run.asks = @ + 1]
    <3>1. Probes!Set(p, r)
      BY <1>11, <2>2 DEF Probes!Open
    <3>2. AttemptInv(r)
      BY <1>1, <2>1, <2>2, OpenKeeps
    <3>3. r.pc = a.pc
      BY <1>1 DEF Attempts
    <3> HIDE DEF r, Goal, a
    <3> QED
      BY <1>3, <3>1, <3>2, <3>3
  <2>3. CASE m \notin a.allowed
    <3> DEFINE u == [a.run EXCEPT !.denied = @ + 1, !.asks = @ + 1]
    <3>1. a.run.asks + 1 \in Nat /\ a.run.asks + 1 <= MaxAsks /\ a.run.denied + 1 \in Nat
      BY <1>1, <2>1 DEF Runs, ProbeConstants
    <3>2. u \in Runs /\ u.reads = a.run.reads /\ u.asks <= MaxAsks /\ u.ended = a.run.ended
      <4>1. u \in Runs
        BY <1>1, <3>1 DEF Runs
      <4>2. u.reads = a.run.reads /\ u.asks = a.run.asks + 1 /\ u.ended = a.run.ended
        BY <1>1 DEF Runs
      <4> QED
        BY <3>1, <4>1, <4>2
    <3>3. [a EXCEPT !.run.denied = @ + 1, !.run.asks = @ + 1] = [a EXCEPT !.run = u]
      BY <1>1 DEF Attempts
    <3>4. Probes!Set(p, [a EXCEPT !.run = u])
      BY <1>11, <2>3, <3>3 DEF Probes!Open
    <3> HIDE DEF u, Goal, a
    <3> QED
      BY <1>4, <2>1, <3>2, <3>4 DEF AttemptInv, a
  <2> QED
    BY <2>2, <2>3
<1> QED
  BY <1>5, <1>6, <1>7, <1>8, <1>9, <1>10, <1>11 DEF Probes!AgentStep

\* An observation is of two minds at most about a run that ended undisturbed.
LEMMA ObservationOf ==
  ASSUME NEW a \in Attempts
  PROVE  /\ Probes!observeAgentProbe(a) \in Observations
         /\ Probes!observeAgentProbe(a).success = Probes!casePassed(a)
         /\ ~Probes!observeAgentProbe(a).failed => a.run.done /\ ~a.run.terminal
<1>1. a.run.done \in BOOLEAN /\ a.run.terminal \in BOOLEAN
  BY DEF Attempts, Runs
<1>2. Probes!casePassed(a) \in BOOLEAN
  BY <1>1 DEF Probes!casePassed, Probes!ArtifactMatches
<1> HIDE DEF Probes!casePassed
<1> QED
  BY <1>1, <1>2 DEF Probes!observeAgentProbe, Observations

\* What a run of the categories judged at once has to show.
LEMMA PassedIsEarned ==
  ASSUME NEW a \in Attempts, Probes!casePassed(a), a.run.done, ~a.run.terminal,
         a.category \notin {"project", "recovery"}
  PROVE  Earned(a)
<1>1. Probes!ArtifactMatches(a)
  <2>1. CASE a.category \in {"safety", "edit", "coding"}
    BY <2>1 DEF Probes!casePassed
  <2>2. CASE a.category \notin {"safety", "edit", "coding"}
    BY <2>2 DEF Probes!ArtifactMatches, Probes!fixtureMutations
  <2> QED
    BY <2>1, <2>2
<1> QED
  BY <1>1 DEF Earned

\* Judging an attempt, testing it and stopping it keep its invariant.
LEMMA JudgeKeeps ==
  ASSUME ProbeConstants, at \in [Execs -> Attempts], NEW p \in Execs, AttemptInv(at[p]),
         \/ Probes!JudgeRun(p) \/ Probes!JudgeDecision(p) \/ Probes!JudgeTurn(p)
         \/ Probes!Reconcile(p) \/ Probes!JudgeResumed(p)
         \/ Probes!verifyCodingProbeObservation(p) \/ Probes!Stop(p)
  PROVE  /\ \E r \in Attempts : Probes!Set(p, r) /\ AttemptInv(r) /\ r.pc \in {"run", "judged"}
         /\ at[p].pc \in {"run", "judged"}
<1> DEFINE a == at[p]
           Goal == \E r \in Attempts : Probes!Set(p, r) /\ AttemptInv(r) /\ r.pc \in {"run", "judged"}
<1>1. a \in Attempts /\ a.run \in Runs
  BY DEF Attempts
<1>2. a.pc \in {"run", "judged"}
  BY DEF Probes!JudgeRun, Probes!JudgeDecision, Probes!JudgeTurn, Probes!Reconcile, Probes!JudgeResumed,
       Probes!verifyCodingProbeObservation, Probes!Stop
<1> SUFFICES Goal
  BY <1>2
<1>3. ASSUME NEW r, AttemptInv(r), Probes!Set(p, r), r.pc \in {"run", "judged"}
      PROVE  Goal
  BY <1>3 DEF AttemptInv
<1>4. ASSUME NEW o \in Observations, o.success /\ ~o.failed => Earned(a), Probes!Judged(p, o)
      PROVE  Goal
  <2> DEFINE r == [a EXCEPT !.pc = "judged", !.judged = o]
  <2>1. AttemptInv(r)
    BY <1>1, <1>2, <1>4, VerdictKeeps
  <2>2. r.pc = "judged" /\ Probes!Set(p, r)
    BY <1>1, <1>4 DEF Attempts, Probes!Judged
  <2> HIDE DEF r, Goal, a
  <2> QED
    BY <1>3, <2>1, <2>2
<1>5. ASSUME NEW q \in BOOLEAN
      PROVE  /\ Probes!Only(Probes!observeAgentProbe(a), q) \in Observations
             /\ Probes!Only(Probes!observeAgentProbe(a),
                  q).success /\ ~Probes!Only(Probes!observeAgentProbe(a), q).failed =>
                  q /\ Probes!casePassed(a) /\ a.run.done /\ ~a.run.terminal
  <2> DEFINE o == Probes!observeAgentProbe(a)
  <2>1. o \in Observations /\ o.success = Probes!casePassed(a) /\ (~o.failed => a.run.done /\ ~a.run.terminal)
    BY <1>1, ObservationOf
  <2> HIDE DEF o, a
  <2>2. Probes!Only(o, q) \in Observations
    BY <2>1 DEF Probes!Only, Observations
  <2>3. Probes!Only(o, q).success /\ ~Probes!Only(o,
       q).failed => q /\ Probes!casePassed(a) /\ a.run.done /\ ~a.run.terminal
    BY <2>1 DEF Probes!Only, Observations
  <2> QED
    BY <2>2, <2>3 DEF o
<1>6. CASE Probes!JudgeRun(p)
  <2>1. Probes!Judged(p, Probes!observeAgentProbe(a)) /\ a.category \notin {"project", "recovery"}
    BY <1>6 DEF Probes!JudgeRun
  <2>2. /\ Probes!observeAgentProbe(a) \in Observations
        /\ Probes!observeAgentProbe(a).success /\ ~Probes!observeAgentProbe(a).failed => Earned(a)
    BY <1>1, <2>1, ObservationOf, PassedIsEarned
  <2> HIDE DEF Goal, a
  <2> QED
    BY <1>4, <2>1, <2>2
<1>7. CASE Probes!JudgeDecision(p)
  <2> DEFINE q == Probes!toolStarts(a.run) = 0 /\ a.run.said = "exact"
  <2>1. Probes!Judged(p, Probes!Only(Probes!observeAgentProbe(a), q)) /\ a.category \notin {"project",
       "recovery"}
    BY <1>7 DEF Probes!JudgeDecision
  <2>2. q \in BOOLEAN
    OBVIOUS
  <2> HIDE DEF q
  <2>3. /\ Probes!Only(Probes!observeAgentProbe(a), q) \in Observations
        /\ Probes!Only(Probes!observeAgentProbe(a), q).success /\ ~Probes!Only(Probes!observeAgentProbe(a),
             q).failed => Earned(a)
    BY <1>1, <1>5, <2>1, <2>2, PassedIsEarned
  <2> HIDE DEF Goal, a
  <2> QED
    BY <1>4, <2>1, <2>3
<1>8. CASE Probes!JudgeResumed(p)
  <2> DEFINE q == a.run.reads > 0 /\ a.run.edits = 0 /\ a.run.said = "exact"
  <2>1. Probes!Judged(p, Probes!Only(Probes!observeAgentProbe(a), q)) /\ a.category = "recovery" /\ a.resumed
    BY <1>8 DEF Probes!JudgeResumed
  <2>2. q \in BOOLEAN
    OBVIOUS
  <2> HIDE DEF q
  <2>3. a.guard = "reconciled" /\ Probes!ArtifactMatches(a)
    BY <2>1 DEF AttemptInv, ResumedFrom
  <2>4. /\ Probes!Only(Probes!observeAgentProbe(a), q) \in Observations
        /\ Probes!Only(Probes!observeAgentProbe(a), q).success /\ ~Probes!Only(Probes!observeAgentProbe(a),
             q).failed => Earned(a)
    BY <1>5, <2>1, <2>2, <2>3 DEF Earned
  <2> HIDE DEF Goal, a
  <2> QED
    BY <1>4, <2>1, <2>4
<1>9. Probes!lifecycleFailure \in Observations /\ Probes!lifecycleFailure.failed
  BY DEF Probes!lifecycleFailure, Observations
<1>10. CASE Probes!Reconcile(p)
  <2>1. a.pc = "run" /\ a.run.ended /\ Probes!Interruptible(a)
    BY <1>10 DEF Probes!Reconcile
  <2>2. CASE Probes!Judged(p, Probes!lifecycleFailure)
    <3> HIDE DEF Goal, a
    <3> QED
      BY <1>4, <1>9, <2>2
  <2>3. CASE /\ Probes!ArtifactMatches(a)
             /\ Probes!Set(p, [a EXCEPT !.guard = "reconciled", !.resumed = TRUE, !.run = Probes!NewRun,
                                 !.interrupted = FALSE, !.writeStarted = FALSE, !.result = None])
    <3> DEFINE r == [a EXCEPT !.guard = "reconciled", !.resumed = TRUE, !.run = Probes!NewRun,
                              !.interrupted = FALSE, !.writeStarted = FALSE, !.result = None]
    <3>1. AttemptInv(r)
      BY <1>1, <2>1, <2>3, ReconcileKeeps
    <3>2. r.pc = "run"
      BY <1>1, <2>1 DEF Attempts
    <3> HIDE DEF r, Goal, a
    <3> QED
      BY <1>3, <2>3, <3>1, <3>2 DEF r
  <2> QED
    BY <1>10, <2>2, <2>3 DEF Probes!Reconcile
<1>11. CASE Probes!JudgeTurn(p)
  <2> DEFINE o == Probes!observeAgentProbe(a)
             b == [a EXCEPT !.transcripts[Probes!Selected(a.turn)] = @ \cup {a.run.said}]
             w == [success |-> FALSE, failed |-> TRUE, falseDone |-> ~o.failed]
  <2>1. a.pc = "run" /\ a.run.ended /\ a.category = "project"
    BY <1>11 DEF Probes!JudgeTurn
  <2>2. o \in Observations
    BY <1>1, ObservationOf
  <2>3. CASE Probes!Judged(p, w)
    <3>1. w \in Observations /\ w.failed
      BY <2>2 DEF Observations
    <3> HIDE DEF w, Goal, a
    <3> QED
      BY <1>4, <2>3, <3>1
  <2>4. CASE Probes!Judged(p, Probes!lifecycleFailure)
    <3> HIDE DEF Goal, a
    <3> QED
      BY <1>4, <1>9, <2>4
  <2>5. ASSUME Probes!TurnAccepted(a)
        PROVE  a.run.said = "exact" /\ a.run.done /\ ~a.run.terminal
    BY <1>1, <2>5, ObservationOf DEF Probes!TurnAccepted
  <2>6. CASE Probes!TurnAccepted(a) /\ a.turn < 3 /\ Probes!Set(p, [b EXCEPT !.turn = @ + 1,
       !.run = Probes!NewRun])
    <3> DEFINE r == [b EXCEPT !.turn = @ + 1, !.run = Probes!NewRun]
    <3>1. AttemptInv(r)
      BY <1>1, <2>1, <2>5, <2>6, TurnKeeps
    <3>2. r.pc = "run"
      BY <1>1, <2>1 DEF Attempts
    <3> HIDE DEF r, Goal, a, b
    <3> QED
      BY <1>3, <2>6, <3>1, <3>2 DEF r
  <2>7. CASE Probes!TurnAccepted(a) /\ ~(a.turn < 3) /\ Probes!Set(p, [b EXCEPT !.pc = "judged", !.judged = o])
    <3> DEFINE r == [b EXCEPT !.pc = "judged", !.judged = o]
    <3>1. a.turn >= 3
      BY <1>1, <2>7 DEF Attempts
    <3> HIDE DEF o
    <3>2. AttemptInv(r)
      BY <1>1, <2>1, <2>2, <2>5, <2>7, <3>1, LastTurnKeeps
    <3>3. r.pc = "judged"
      BY <1>1 DEF Attempts
    <3> HIDE DEF r, Goal, a, b
    <3> QED
      BY <1>3, <2>7, <3>2, <3>3 DEF r
  <2> QED
    BY <1>11, <2>3, <2>4, <2>6, <2>7 DEF Probes!JudgeTurn
<1>12. CASE Probes!verifyCodingProbeObservation(p)
  <2>1. a.pc = "judged"
    BY <1>12 DEF Probes!verifyCodingProbeObservation
  <2>2. CASE Probes!Set(p, [a EXCEPT !.tested = TRUE])
    <3> DEFINE r == [a EXCEPT !.tested = TRUE]
    <3>1. AttemptInv(r)
      BY <1>1, <1>2, TestedKeeps
    <3>2. r.pc = "judged"
      BY <1>1, <2>1 DEF Attempts
    <3> HIDE DEF r, Goal, a
    <3> QED
      BY <1>3, <2>2, <3>1, <3>2 DEF r
  <2>3. CASE Probes!Set(p, [a EXCEPT !.judged = [success |-> FALSE, falseDone |-> TRUE, failed |-> TRUE]])
    <3> DEFINE w == [success |-> FALSE, falseDone |-> TRUE, failed |-> TRUE]
    <3>1. w \in Observations /\ w.failed
      BY DEF Observations
    <3> HIDE DEF w
    <3>2. [a EXCEPT !.judged = w] = [a EXCEPT !.pc = "judged", !.judged = w]
      BY <1>1, <2>1 DEF Attempts
    <3>3. Probes!Judged(p, w)
      BY <2>3, <3>2 DEF Probes!Judged, w
    <3> HIDE DEF Goal, a
    <3> QED
      BY <1>4, <3>1, <3>3
  <2> QED
    BY <1>12, <2>2, <2>3 DEF Probes!verifyCodingProbeObservation
<1>13. CASE Probes!Stop(p)
  <2>1. PICK why \in {"timeout", "canceled"} : Probes!Set(p, [a EXCEPT !.stopped = why])
    BY <1>13 DEF Probes!Stop
  <2> DEFINE r == [a EXCEPT !.stopped = why]
  <2>2. AttemptInv(r)
    BY <1>1, <1>2, TestedKeeps
  <2>3. r.pc \in {"run", "judged"}
    BY <1>1, <1>2 DEF Attempts
  <2> HIDE DEF r, Goal, a
  <2> QED
    BY <1>3, <2>1, <2>2, <2>3 DEF r
<1> QED
  BY <1>6, <1>7, <1>8, <1>10, <1>11, <1>12, <1>13

\* Entering and leaving: the mutex, the environment and the attempt.
LEMMA EnvironmentSteps ==
  ASSUME ProbeConstants, at \in [Execs -> Attempts], NEW p \in Execs, AttemptInv(at[p])
  PROVE  /\ Probes!Begin(p) => \E r \in Attempts : Probes!Set(p, r) /\ AttemptInv(r) /\ r.pc = "wait"
         /\ Probes!LockEnvironment(p) => \E r \in Attempts : Probes!Set(p, r) /\ AttemptInv(r) /\ r.pc = "scope"
         /\ Probes!scopeProbeEnvironment(p) =>
              \E r \in Attempts : /\ Probes!Set(p, r) /\ AttemptInv(r)
                                  /\ \/ r.pc = "run" /\ env' = p /\ UNCHANGED mu
                                     \/ r.pc = "idle" /\ UNCHANGED env /\ mu' = None
         /\ Probes!Return(p) => \E r \in Attempts : Probes!Set(p, r) /\ AttemptInv(r) /\ r.pc = "idle"
         /\ Probes!Interrupt(p) => \E r \in Attempts : Probes!Set(p, r) /\ AttemptInv(r) /\ r.pc = at[p].pc
<1> DEFINE a == at[p]
<1>1. a \in Attempts
  OBVIOUS
<1>2. ASSUME Probes!Begin(p)
      PROVE  \E r \in Attempts : Probes!Set(p, r) /\ AttemptInv(r) /\ r.pc = "wait"
  <2>1. PICK c \in Categories :
          Probes!Set(p, [Probes!NoAttempt EXCEPT !.pc = "wait", !.category = c,
               !.allowed = Probes!fixtureMutations(c)])
    BY <1>2 DEF Probes!Begin
  <2> DEFINE r == [Probes!NoAttempt EXCEPT !.pc = "wait", !.category = c,
       !.allowed = Probes!fixtureMutations(c)]
  <2>2. AttemptInv(r)
    BY BeginKeeps
  <2>3. r.pc = "wait"
    BY DEF Probes!NoAttempt
  <2>4. r \in Attempts
    BY <2>2 DEF AttemptInv
  <2> HIDE DEF r
  <2> QED
    BY <2>1, <2>2, <2>3, <2>4 DEF r
<1>3. ASSUME Probes!LockEnvironment(p)
      PROVE  \E r \in Attempts : Probes!Set(p, r) /\ AttemptInv(r) /\ r.pc = "scope"
  <2> DEFINE r == [a EXCEPT !.pc = "scope"]
  <2>1. Probes!Set(p, r) /\ a.pc = "wait"
    BY <1>3 DEF Probes!LockEnvironment
  <2>2. AttemptInv(r)
    BY <1>1, <2>1, EnterKeeps
  <2>3. r.pc = "scope"
    BY <1>1 DEF Attempts
  <2>4. r \in Attempts
    BY <2>2 DEF AttemptInv
  <2> HIDE DEF r
  <2> QED
    BY <2>1, <2>2, <2>3, <2>4
<1>4. ASSUME Probes!scopeProbeEnvironment(p)
      PROVE  \E r \in Attempts : /\ Probes!Set(p, r) /\ AttemptInv(r)
                                 /\ \/ r.pc = "run" /\ env' = p /\ UNCHANGED mu
                                    \/ r.pc = "idle" /\ UNCHANGED env /\ mu' = None
  <2> DEFINE r == [a EXCEPT !.pc = "run", !.turn = 1]
             n == [Probes!NoAttempt EXCEPT !.pc = "idle"]
  <2>1. a.pc = "scope"
    BY <1>4 DEF Probes!scopeProbeEnvironment
  <2>2. AttemptInv(r) /\ r.pc = "run"
    BY <1>1, <2>1, EnterKeeps DEF Attempts
  <2>3. n = Probes!NoAttempt
    <3>1. Probes!NoAttempt \in Attempts /\ Probes!NoAttempt.pc = "idle"
      BY NoAttemptInv DEF AttemptInv, Probes!NoAttempt
    <3> QED
      BY <3>1 DEF Attempts
  <2>4. AttemptInv(n) /\ n.pc = "idle"
    BY <2>3, NoAttemptInv DEF Probes!NoAttempt
  <2>5. r \in Attempts /\ n \in Attempts
    BY <2>2, <2>4 DEF AttemptInv
  <2>6. \/ env' = p /\ UNCHANGED mu /\ Probes!Set(p, r)
        \/ UNCHANGED env /\ mu' = None /\ Probes!Set(p, n)
    BY <1>4 DEF Probes!scopeProbeEnvironment
  <2> HIDE DEF r, n
  <2> QED
    BY <2>2, <2>4, <2>5, <2>6
<1>5. ASSUME Probes!Return(p)
      PROVE  \E r \in Attempts : Probes!Set(p, r) /\ AttemptInv(r) /\ r.pc = "idle"
  <2> DEFINE failed == a.stopped # None \/ a.judged.failed
             d == IF a.stopped = "canceled" THEN None
                  ELSE [success |-> a.judged.success /\ ~failed,
                        falseDone |-> a.judged.falseDone, transport |-> failed]
             r == [a EXCEPT !.pc = "idle", !.record = d]
  <2>1. Probes!Set(p, r) /\ a.pc = "judged" /\ (a.category = "coding" /\ a.judged.success => a.tested)
    BY <1>5 DEF Probes!Return
  <2>2. a.judged \in Observations
    BY <2>1 DEF AttemptInv, Verdicts
  <2>3. /\ d \in Records \cup {None}
        /\ d # None /\ d.success => a.judged.success /\ ~a.judged.failed /\ a.stopped = None
    <3>1. failed \in BOOLEAN /\ a.judged.success \in BOOLEAN /\ a.judged.falseDone \in BOOLEAN
      BY <2>2 DEF Observations
    <3> QED
      BY <3>1, <2>2 DEF Records, Observations
  <2> HIDE DEF d
  <2>4. AttemptInv(r)
    BY <1>1, <2>1, <2>3, ReturnKeeps
  <2>5. r.pc = "idle" /\ r \in Attempts
    BY <1>1, <2>4 DEF Attempts, AttemptInv
  <2> HIDE DEF r
  <2> QED
    BY <2>1, <2>4, <2>5
<1>6. ASSUME Probes!Interrupt(p)
      PROVE  \E r \in Attempts : Probes!Set(p, r) /\ AttemptInv(r) /\ r.pc = at[p].pc
  <2> DEFINE r == [a EXCEPT !.interrupted = TRUE, !.asking = None]
  <2>1. Probes!Set(p, r)
    BY <1>6 DEF Probes!Interrupt
  <2>2. AttemptInv(r)
    BY <1>1, InterruptKeeps
  <2>3. r.pc = a.pc /\ r \in Attempts
    BY <1>1, <2>2 DEF Attempts, AttemptInv
  <2> HIDE DEF r
  <2> QED
    BY <2>1, <2>2, <2>3
<1> QED
  BY <1>2, <1>3, <1>4, <1>5, <1>6

\* Every step changes one attempt.  The mutex has one holder, and it alone
\* sets the environment and puts it back.
LEMMA ProbeStep ==
  ASSUME ProbeConstants, ProbeInv, [Probes!Next]_(Probes!vars)
  PROVE  ProbeInv'
<1>1. CASE UNCHANGED Probes!vars
  BY <1>1 DEF ProbeInv, Probes!vars, Probes!EnvironmentIsOwn, Probes!Scoped
<1> SUFFICES ASSUME NEW p \in Execs,
     Probes!Begin(p) \/ Probes!AgentStep(p) \/ Probes!ExecutorStep(p) \/ Probes!Stop(p)
             PROVE  ProbeInv'
  BY <1>1 DEF Probes!Next
<1> DEFINE Held == {"scope", "run", "judged"}
<1>2. AttemptInv(at[p]) /\ at \in [Execs -> Attempts]
  BY DEF ProbeInv
<1>3. ASSUME NEW r \in Attempts, Probes!Set(p, r), AttemptInv(r),
             attempts' \in 0 .. MaxAttempts, stops' \in 0 .. MaxStops,
             \/ /\ UNCHANGED <<mu, env>>
                /\ r.pc \in Held <=> at[p].pc \in Held
                /\ r.pc \in {"run", "judged"} <=> at[p].pc \in {"run", "judged"}
             \/ /\ mu = None /\ mu' = p /\ UNCHANGED env /\ r.pc = "scope" /\ at[p].pc = "wait"
             \/ /\ at[p].pc = "scope" /\ r.pc = "run" /\ env' = p /\ UNCHANGED mu
             \/ /\ at[p].pc = "scope" /\ r.pc = "idle" /\ UNCHANGED env /\ mu' = None
             \/ /\ at[p].pc = "judged" /\ r.pc = "idle" /\ env' = "caller" /\ mu' = None
      PROVE  ProbeInv'
  <2>1. /\ at' \in [Execs -> Attempts] /\ at'[p] = r
        /\ \A q \in Execs \ {p} : at'[q] = at[q]
    BY <1>2, <1>3, Untouched
  <2>2. \A q \in Execs : AttemptInv(at'[q])
    BY <1>3, <2>1 DEF ProbeInv
  <2>3. mu' \in Execs \cup {None} /\ env' \in Execs \cup {"caller"}
    BY <1>3 DEF ProbeInv
  <2>4. \A q \in Execs : at[q].pc \in Held => mu = q
    BY DEF ProbeInv
  <2>5. \A q \in Execs : at'[q].pc \in Held => mu' = q
    BY <1>3, <2>1, <2>4 DEF ProbeConstants
  <2>6. Probes!EnvironmentIsOwn'
    <3>1. /\ \A q \in Execs : at[q].pc \in {"run", "judged"} => env = q
          /\ (\A q \in Execs : at[q].pc \notin {"run", "judged"}) => env = "caller"
      BY DEF ProbeInv, Probes!EnvironmentIsOwn, Probes!Scoped
    <3>2. \A q \in Execs : at'[q].pc \in {"run", "judged"} => env' = q
      BY <1>3, <2>1, <2>4, <3>1 DEF ProbeConstants
    <3>3. (\A q \in Execs : at'[q].pc \notin {"run", "judged"}) => env' = "caller"
      BY <1>3, <2>1, <3>1
    <3> QED
      BY <3>2, <3>3 DEF Probes!EnvironmentIsOwn, Probes!Scoped
  <2> QED
    BY <1>3, <2>1, <2>2, <2>3, <2>5, <2>6 DEF ProbeInv
<1>4. /\ attempts \in 0 .. MaxAttempts /\ stops \in 0 .. MaxStops
      /\ MaxAttempts \in Nat /\ MaxStops \in Nat
  BY DEF ProbeInv, ProbeConstants
<1>5. CASE Probes!Begin(p)
  <2>1. /\ attempts' = attempts + 1 /\ attempts < MaxAttempts /\ UNCHANGED <<mu, env, stops>>
        /\ at[p].pc = "idle"
    BY <1>5 DEF Probes!Begin
  <2>2. attempts' \in 0 .. MaxAttempts
    BY <1>4, <2>1
  <2>3. PICK r \in Attempts : Probes!Set(p, r) /\ AttemptInv(r) /\ r.pc = "wait"
    BY <1>2, <1>5, EnvironmentSteps
  <2> QED
    BY <1>3, <1>4, <2>1, <2>2, <2>3
<1>6. CASE Probes!LockEnvironment(p)
  <2>1. UNCHANGED <<env, attempts, stops>> /\ mu = None /\ mu' = p /\ at[p].pc = "wait"
    BY <1>6 DEF Probes!LockEnvironment
  <2>2. PICK r \in Attempts : Probes!Set(p, r) /\ AttemptInv(r) /\ r.pc = "scope"
    BY <1>2, <1>6, EnvironmentSteps
  <2> QED
    BY <1>3, <1>4, <2>1, <2>2
<1>7. CASE Probes!scopeProbeEnvironment(p)
  <2>1. UNCHANGED <<attempts, stops>> /\ at[p].pc = "scope"
    BY <1>7 DEF Probes!scopeProbeEnvironment
  <2>2. PICK r \in Attempts : /\ Probes!Set(p, r) /\ AttemptInv(r)
                              /\ \/ r.pc = "run" /\ env' = p /\ UNCHANGED mu
                                 \/ r.pc = "idle" /\ UNCHANGED env /\ mu' = None
    BY <1>2, <1>7, EnvironmentSteps
  <2> QED
    BY <1>3, <1>4, <2>1, <2>2
<1>8. CASE Probes!Return(p)
  <2>1. UNCHANGED <<attempts, stops>> /\ env' = "caller" /\ mu' = None /\ at[p].pc = "judged"
    BY <1>8 DEF Probes!Return
  <2>2. PICK r \in Attempts : Probes!Set(p, r) /\ AttemptInv(r) /\ r.pc = "idle"
    BY <1>2, <1>8, EnvironmentSteps
  <2> QED
    BY <1>3, <1>4, <2>1, <2>2
<1>9. CASE Probes!Interrupt(p)
  <2>1. UNCHANGED <<mu, env, attempts, stops>>
    BY <1>9 DEF Probes!Interrupt
  <2>2. PICK r \in Attempts : Probes!Set(p, r) /\ AttemptInv(r) /\ r.pc = at[p].pc
    BY <1>2, <1>9, EnvironmentSteps
  <2> QED
    BY <1>3, <1>4, <2>1, <2>2
<1>10. CASE Probes!AgentStep(p)
  <2>1. /\ UNCHANGED <<mu, env, attempts, stops>>
        /\ \E r \in Attempts : Probes!Set(p, r) /\ AttemptInv(r) /\ r.pc = at[p].pc
    BY <1>2, <1>10, AgentStepKeeps
  <2> QED
    BY <1>3, <1>4, <2>1
<1>11. CASE \/ Probes!JudgeRun(p) \/ Probes!JudgeDecision(p) \/ Probes!JudgeTurn(p)
            \/ Probes!Reconcile(p) \/ Probes!JudgeResumed(p)
            \/ Probes!verifyCodingProbeObservation(p) \/ Probes!Stop(p)
  <2>1. UNCHANGED <<mu, env, attempts>> /\ stops' \in 0 .. MaxStops
    BY <1>4, <1>11 DEF Probes!JudgeRun, Probes!JudgeDecision, Probes!JudgeTurn, Probes!Reconcile,
         Probes!JudgeResumed,
       Probes!verifyCodingProbeObservation, Probes!Stop
  <2>2. /\ \E r \in Attempts : Probes!Set(p, r) /\ AttemptInv(r) /\ r.pc \in {"run", "judged"}
        /\ at[p].pc \in {"run", "judged"}
    BY <1>2, <1>11, JudgeKeeps
  <2> QED
    BY <1>3, <1>4, <2>1, <2>2
<1> QED
  BY <1>5, <1>6, <1>7, <1>8, <1>9, <1>10, <1>11 DEF Probes!ExecutorStep

\* The invariant holds initially.
LEMMA ProbeInit ==
  ASSUME ProbeConstants, Probes!Init
  PROVE  ProbeInv
<1>1. AttemptInv(Probes!NoAttempt) /\ Probes!NoAttempt \in Attempts /\ Probes!NoAttempt.pc = "idle"
  BY NoAttemptInv DEF AttemptInv, Probes!NoAttempt
<1> QED
  BY <1>1 DEF Probes!Init, ProbeInv, Probes!EnvironmentIsOwn, Probes!Scoped, ProbeConstants

\* The invariant holds in every reachable state.
LEMMA ProbeInvariant ==
  ASSUME ProbeConstants
  PROVE  Probes!Spec => []ProbeInv
<1>1. Probes!Init => ProbeInv
  BY ProbeInit
<1>2. ProbeInv /\ [Probes!Next]_(Probes!vars) => ProbeInv'
  BY ProbeStep
<1> QED
  BY <1>1, <1>2, PTL DEF Probes!Spec

\* The state of every executor is well typed (agent_executor.go).
THEOREM ProbeTypeCorrect ==
  ASSUME ProbeConstants
  PROVE  Probes!Spec => []Probes!TypeOK
<1>1. ProbeInv => Probes!TypeOK
  BY DEF ProbeInv, Probes!TypeOK, AttemptInv, OnePlace, Attempts, Runs, ProbeConstants
<1> QED
  BY <1>1, ProbeInvariant, PTL

\* An agent run of a probe only ever sees the environment of its own
\* workspace, and the process has its own back when no probe is active
\* (scopeProbeEnvironment, Execute).
THEOREM ProbesRunInTheirEnvironment ==
  ASSUME ProbeConstants
  PROVE  Probes!Spec => []Probes!EnvironmentIsOwn
<1>1. ProbeInv => Probes!EnvironmentIsOwn
  BY DEF ProbeInv
<1> QED
  BY <1>1, ProbeInvariant, PTL

\* An approved mutation is applied at most once, also across the interruption
\* and the resumed run of a recovery probe (probeApprovalRequester).
THEOREM GrantsAreUsedOnce ==
  ASSUME ProbeConstants
  PROVE  Probes!Spec => []Probes!MutationAppliedOnce
<1>1. ProbeInv => Probes!MutationAppliedOnce
  BY DEF ProbeInv, AttemptInv, OnePlace, Probes!MutationAppliedOnce
<1> QED
  BY <1>1, ProbeInvariant, PTL

\* A recorded success is one of an undisturbed run that left the artifact as
\* expected, tested or reconciled where its category asks for it (Execute).
THEOREM SuccessesAreEarned ==
  ASSUME ProbeConstants
  PROVE  Probes!Spec => []Probes!SuccessIsEarned
<1>1. ProbeInv => Probes!SuccessIsEarned
  BY DEF ProbeInv, AttemptInv, Verdicts, Earned, Probes!SuccessIsEarned
<1> QED
  BY <1>1, ProbeInvariant, PTL

\* No session of a project probe keeps an answer with more in it than its own
\* project's secret (probe_project.go).
THEOREM ProjectsStayApart ==
  ASSUME ProbeConstants
  PROVE  Probes!Spec => []Probes!ProjectsApart
<1>1. ProbeInv => Probes!ProjectsApart
  BY DEF ProbeInv, AttemptInv, TurnsKept, Probes!ProjectsApart
<1> QED
  BY <1>1, ProbeInvariant, PTL

=============================================================================
