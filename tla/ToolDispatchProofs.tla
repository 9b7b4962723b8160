------------------------ MODULE ToolDispatchProofs ------------------------
(***************************************************************************)
(* The dispatch of a turn keeps its order and the repetition guard its     *)
(* bound, for every number of calls, every limit and every set of tools.   *)
(***************************************************************************)
EXTENDS ToolDispatch, Integers, Sequences, FiniteSetTheorems, WellFoundedInduction, TLAPS

\* What the proofs need to know of the constants.
DispatchConstants ==
  /\ Turn \in Nat \ {0} /\ Limit \in Nat
  /\ MaxChanges \in Nat /\ MaxApprovals \in Nat

\* Calls past the guard whose tool has not returned.
InFlight == {"observed", "armed", "running"}
Flying(f, c, a) == {s \in Slots : f[s] \in InFlight /\ c[s] = a}

Types ==
  /\ TypeOK
  /\ streak \in [Actions -> Nat]
  /\ changes \in Nat /\ approvals \in Nat /\ cancelled \in BOOLEAN

\* Calls run after all of them are authorized; a serial one is past the guard
\* only when the concurrent ones and the serial ones before it are done.
TurnOrder ==
  \A s \in Slots : pc[s] \in InFlight =>
    /\ Authorized
    /\ call[s] \notin Concurrent =>
         \A r \in Slots \ {s} : (call[r] \in Concurrent \/ r < s) => pc[r] = "done"

\* Fruitless executions and the calls under way are covered by the guard's
\* count; the calls that were under way at its last reset come on top.
Least(m, n) == IF m <= n THEN m ELSE n
GuardCovers ==
  \A a \in Actions :
    streak[a] + Cardinality(Flying(pc, call, a)) <= Least(seen[a], Limit) + Turn - 1

\* A canceled call means a canceled run, and no serial call is about to start.
CanceledKnown ==
  \A r \in Slots : out[r] = "canceled" =>
    cancelled /\ \A s \in Slots : call[s] \notin Concurrent => pc[s] # "armed"

DispatchInv == Types /\ TurnOrder /\ GuardCovers /\ CanceledKnown

-----------------------------------------------------------------------------
\* The slots of a turn are finitely many.
LEMMA SlotCount ==
  ASSUME DispatchConstants
  PROVE  IsFiniteSet(Slots) /\ Cardinality(Slots) = Turn
  <1>1. Turn \in Nat /\ Turn >= 1 /\ Turn \in Int
    BY DispatchConstants DEF DispatchConstants
  <1>2. IsFiniteSet(1 .. Turn) /\ Cardinality(1 .. Turn) = IF 1 <= Turn THEN Turn - 1 + 1 ELSE 0
    BY <1>1, FS_Interval
  <1> QED BY <1>1, <1>2 DEF Slots

\* While a call is being authorized, none is past the guard.
LEMMA NobodyInFlight ==
  ASSUME TurnOrder, NEW s \in Slots, pc[s] \in {"auth", "await"}
  PROVE  \A r \in Slots : pc[r] \notin InFlight
  BY DEF TurnOrder, Authorized

\* Two calls under way are both concurrent.
LEMMA InFlightAlone ==
  ASSUME DispatchConstants, TurnOrder,
         NEW s \in Slots, NEW r \in Slots, s # r,
         pc[s] \in InFlight, pc[r] \in InFlight
  PROVE  call[s] \in Concurrent
  <1>1. SUFFICES ASSUME call[s] \notin Concurrent PROVE FALSE
    OBVIOUS
  <1>2. pc[r] # "done" /\ pc[s] # "done"
    BY DEF InFlight
  <1>3. ~(call[r] \in Concurrent \/ r < s)
    BY <1>1, <1>2 DEF TurnOrder
  <1>4. ~(s < r)
    BY <1>2, <1>3 DEF TurnOrder
  <1>5. s < r \/ r < s
    BY DEF Slots, DispatchConstants
  <1> QED BY <1>3, <1>4, <1>5

-----------------------------------------------------------------------------
\* What every step of a call does to its slot: it moves on to x, and the
\* result is filled in exactly when x is "done".
Moves(s, x) ==
  /\ call' = call
  /\ pc' = [pc EXCEPT ![s] = x]
  /\ IF x = "done" THEN \E r \in Results \ {"none"} : out' = [out EXCEPT ![s] = r] ELSE out' = out

\* A moving call keeps the slots well typed.
LEMMA SlotsTyped ==
  ASSUME Types, NEW s \in Slots, NEW x \in States, pc[s] # "done", Moves(s, x)
  PROVE  /\ call' \in [Slots -> Actions] /\ pc' \in [Slots -> States] /\ out' \in [Slots -> Results]
         /\ \A r \in Slots : pc'[r] = "done" <=> out'[r] # "none"
  <1>1. /\ call \in [Slots -> Actions] /\ pc \in [Slots -> States] /\ out \in [Slots -> Results]
        /\ \A r \in Slots : pc[r] = "done" <=> out[r] # "none"
    BY DEF Types, TypeOK
  <1>2. call' = call /\ pc' = [pc EXCEPT ![s] = x]
    BY DEF Moves
  <1>3. CASE x = "done"
    <2>1. PICK r \in Results \ {"none"} : out' = [out EXCEPT ![s] = r]
      BY <1>3 DEF Moves
    <2> QED BY <1>1, <1>2, <1>3, <2>1
  <1>4. CASE x # "done"
    <2>1. out' = out
      BY <1>4 DEF Moves
    <2> QED BY <1>1, <1>2, <1>4, <2>1
  <1> QED BY <1>3, <1>4

\* A moving call keeps the order of the turn: while calls are authorized it
\* stays outside, and later it passes the guard only when it may run.
LEMMA OrderKept ==
  ASSUME Types, TurnOrder, NEW s \in Slots, NEW x \in States, pc[s] # "done", Moves(s, x),
         \/ pc[s] \in {"auth", "await"} /\ x \notin InFlight
         \/ /\ pc[s] \notin {"auth", "await"} /\ x \notin {"auth", "await"}
            /\ x \in InFlight => (pc[s] \in InFlight \/ MayRun(s))
  PROVE  TurnOrder'
  <1>1. call' = call /\ \A r \in Slots : pc'[r] = IF r = s THEN x ELSE pc[r]
    BY DEF Moves, Types, TypeOK
  <1>2. SUFFICES ASSUME NEW t \in Slots, pc'[t] \in InFlight
                 PROVE  /\ Authorized'
                        /\ call[t] \notin Concurrent =>
                             \A r \in Slots \ {t} : (call[r] \in Concurrent \/ r < t) => pc'[r] = "done"
    BY <1>1 DEF TurnOrder
  <1>3. CASE pc[s] \in {"auth", "await"} /\ x \notin InFlight
    BY <1>1, <1>2, <1>3, NobodyInFlight
  <1>4. CASE /\ pc[s] \notin {"auth", "await"} /\ x \notin {"auth", "await"}
             /\ x \in InFlight => (pc[s] \in InFlight \/ MayRun(s))
    <2>1. pc[t] \in InFlight \/ (t = s /\ MayRun(s))
      BY <1>1, <1>2, <1>4
    <2>2. Authorized
      BY <2>1 DEF TurnOrder, MayRun
    <2>3. Authorized'
      BY <1>1, <1>4, <2>2 DEF Authorized
    <2>4. ASSUME call[t] \notin Concurrent, NEW r \in Slots \ {t}, call[r] \in Concurrent \/ r < t
          PROVE  pc'[r] = "done"
      <3>1. pc[r] = "done"
        BY <2>1, <2>4 DEF TurnOrder, MayRun
      <3> QED BY <1>1, <3>1
    <2> QED BY <2>3, <2>4
  <1> QED BY <1>3, <1>4

\* When one call moves, the number of calls of an action under way changes by
\* at most that call, and a call that is not under way leaves room for one.
LEMMA FlightChanges ==
  ASSUME DispatchConstants, Types, NEW s \in Slots, NEW x \in States, Moves(s, x), NEW a \in Actions,
         NEW n, n = Cardinality(Flying(pc, call, a)),
         NEW m, m = Cardinality(Flying(pc', call', a))
  PROVE  /\ n \in Nat /\ m \in Nat
         /\ (call[s] # a \/ (x \in InFlight <=> pc[s] \in InFlight)) => m = n
         /\ (call[s] = a /\ x \in InFlight /\ pc[s] \notin InFlight) => m = n + 1
         /\ (call[s] = a /\ x \notin InFlight /\ pc[s] \in InFlight) => m = n - 1
         /\ x \notin InFlight => m <= Turn - 1
  <1> DEFINE F == Flying(pc, call, a)
             G == Flying(pc', call', a)
  <1>1. call' = call /\ \A r \in Slots : pc'[r] = IF r = s THEN x ELSE pc[r]
    BY DEF Moves, Types, TypeOK
  <1>2. F \subseteq Slots /\ G \subseteq Slots
    BY DEF Flying
  <1>3. IsFiniteSet(F) /\ IsFiniteSet(G)
    BY <1>2, SlotCount, FS_Subset
  <1>4. n \in Nat /\ m \in Nat
    BY <1>3, FS_CardinalityType
  <1>5. (call[s] # a \/ (x \in InFlight <=> pc[s] \in InFlight)) => G = F
    BY <1>1 DEF Flying
  <1>6. (call[s] = a /\ x \in InFlight /\ pc[s] \notin InFlight) => G = F \cup {s} /\ s \notin F
    BY <1>1 DEF Flying
  <1>7. (call[s] = a /\ x \notin InFlight /\ pc[s] \in InFlight) => G = F \ {s} /\ s \in F
    BY <1>1 DEF Flying
  <1>8. x \notin InFlight => G \subseteq Slots \ {s}
    BY <1>1 DEF Flying
  <1>9. n = Cardinality(F) /\ m = Cardinality(G)
    OBVIOUS
  <1> HIDE DEF F, G
  <1>10. s \notin F => Cardinality(F \cup {s}) = Cardinality(F) + 1
    BY <1>3, FS_AddElement
  <1>11. s \in F => Cardinality(F \ {s}) = Cardinality(F) - 1
    BY <1>3, FS_RemoveElement
  <1>12. IsFiniteSet(Slots \ {s}) /\ Cardinality(Slots \ {s}) = Turn - 1
    BY SlotCount, FS_RemoveElement
  <1>13. G \subseteq Slots \ {s} => Cardinality(G) <= Turn - 1
    BY <1>12, FS_Subset
  <1> QED BY <1>4, <1>5, <1>6, <1>7, <1>8, <1>9, <1>10, <1>11, <1>13

\* A call that is refused or set aside changes no count of the guard.
LEMMA CoverKept ==
  ASSUME DispatchConstants, Types, GuardCovers, NEW s \in Slots, NEW x \in States, Moves(s, x),
         x \in InFlight => pc[s] \in InFlight,
         seen' \in [Actions -> Nat], \A a \in Actions : seen[a] <= seen'[a],
         streak' = streak
  PROVE  GuardCovers'
  <1>1. SUFFICES ASSUME NEW a \in Actions
                 PROVE  streak[a] + Cardinality(Flying(pc', call', a)) <= Least(seen'[a], Limit) + Turn - 1
    BY DEF GuardCovers, Flying
  <1>2. /\ pc \in [Slots -> States] /\ call \in [Slots -> Actions] /\ streak[a] \in Nat /\ seen[a] \in Nat
        /\ Turn \in Nat /\ Limit \in Nat /\ seen'[a] \in Nat /\ seen[a] <= seen'[a]
    BY DEF Types, TypeOK, DispatchConstants
  <1>3. call' = call /\ pc' = [pc EXCEPT ![s] = x]
    BY DEF Moves
  <1> DEFINE n == Cardinality(Flying(pc, call, a))
             m == Cardinality(Flying(pc', call', a))
  <1>4. n \in Nat /\ m \in Nat /\ m <= n
    <2>1. /\ n \in Nat /\ m \in Nat
          /\ (call[s] # a \/ (x \in InFlight <=> pc[s] \in InFlight)) => m = n
          /\ (call[s] = a /\ x \notin InFlight /\ pc[s] \in InFlight) => m = n - 1
      BY FlightChanges
    <2> HIDE DEF n, m
    <2> QED BY <2>1
  <1>5. streak[a] + n <= Least(seen[a], Limit) + Turn - 1
    BY DEF GuardCovers
  <1>6. Least(seen[a], Limit) \in Nat /\ Least(seen'[a], Limit) \in Nat
        /\ Least(seen[a], Limit) <= Least(seen'[a], Limit)
    BY <1>2 DEF Least
  <1> HIDE DEF n, m
  <1>7. streak[a] + m <= Least(seen'[a], Limit) + Turn - 1
    BY <1>2, <1>4, <1>5, <1>6
  <1> QED BY <1>7 DEF m

\* A call finds the run canceled only where no serial call can be about to
\* start, and a call is armed only in a run that is not canceled.
LEMMA CanceledKept ==
  ASSUME DispatchConstants, Types, TurnOrder, CanceledKnown,
         NEW s \in Slots, NEW x \in States, pc[s] # "done", Moves(s, x), cancelled' = cancelled,
         out'[s] = "canceled" =>
           cancelled /\ (pc[s] \in {"auth", "await"} \/ pc[s] \in InFlight \/ MayRun(s)),
         x = "armed" => ~cancelled
  PROVE  CanceledKnown'
  <1>1. /\ call' = call /\ \A t \in Slots : pc'[t] = IF t = s THEN x ELSE pc[t]
        /\ \A r \in Slots \ {s} : out'[r] = out[r]
    BY DEF Moves, Types, TypeOK
  <1>2. SUFFICES ASSUME NEW r \in Slots, out'[r] = "canceled"
                 PROVE  cancelled /\ \A t \in Slots : call[t] \notin Concurrent => pc'[t] # "armed"
    BY <1>1 DEF CanceledKnown
  <1>3. cancelled
    BY <1>1, <1>2 DEF CanceledKnown
  <1>4. ASSUME NEW t \in Slots, call[t] \notin Concurrent, pc'[t] = "armed"
        PROVE  FALSE
    <2>1. t # s /\ pc[t] = "armed" /\ pc[t] \in InFlight
      BY <1>1, <1>3, <1>4 DEF InFlight
    <2>2. r = s
      BY <1>1, <1>2, <1>4, <2>1 DEF CanceledKnown
    <2>3. CASE pc[s] \in {"auth", "await"}
      BY <2>1, <2>3, NobodyInFlight
    <2>4. CASE pc[s] \in InFlight
      BY <1>4, <2>1, <2>4, InFlightAlone
    <2>5. CASE MayRun(s)
      <3>1. ~(call[s] \in Concurrent \/ s < t)
        BY <1>4, <2>1 DEF TurnOrder
      <3>2. t < s
        BY <2>1, <3>1 DEF Slots, DispatchConstants
      <3>3. pc[t] = "done"
        BY <2>1, <2>5, <3>1, <3>2 DEF MayRun
      <3> QED BY <2>1, <3>3
    <2> QED BY <1>2, <2>2, <2>3, <2>4, <2>5
  <1> QED BY <1>3, <1>4

\* A call that is set aside, asked about or carried one step further on its
\* way keeps the invariant, whatever the guard counted meanwhile.
LEMMA QuietStep ==
  ASSUME DispatchConstants, DispatchInv,
         NEW s \in Slots, NEW x \in States, pc[s] # "done", Moves(s, x),
         \/ pc[s] \in {"auth", "await"} /\ x \notin InFlight
         \/ pc[s] \notin {"auth", "await"} /\ x \notin {"auth", "await"},
         x \in InFlight => pc[s] \in InFlight,
         out'[s] = "canceled" =>
           cancelled /\ (pc[s] \in {"auth", "await"} \/ pc[s] \in InFlight \/ MayRun(s)),
         x = "armed" => ~cancelled,
         seen' \in [Actions -> 0 .. Limit + 1], \A a \in Actions : seen[a] <= seen'[a],
         UNCHANGED <<digest, value, changes, approvals, cancelled, streak>>
  PROVE  DispatchInv'
  <1>1. Types /\ TurnOrder /\ GuardCovers /\ CanceledKnown
    BY DEF DispatchInv
  <1>2. TurnOrder'
    BY <1>1, OrderKept
  <1>3. GuardCovers'
    <2>1. seen' \in [Actions -> Nat]
      BY DEF DispatchConstants
    <2> QED BY <1>1, <2>1, CoverKept
  <1>4. CanceledKnown'
    BY <1>1, CanceledKept
  <1>5. Types'
    <2>1. /\ call' \in [Slots -> Actions] /\ pc' \in [Slots -> States] /\ out' \in [Slots -> Results]
          /\ \A r \in Slots : pc'[r] = "done" <=> out'[r] # "none"
      BY <1>1, SlotsTyped
    <2> QED BY <1>1, <2>1 DEF Types, TypeOK
  <1> QED BY <1>2, <1>3, <1>4, <1>5 DEF DispatchInv

\* Filling a slot is a move to "done".
LEMMA Fills ==
  ASSUME Types, NEW s \in Slots, NEW r \in Results \ {"none"}, Done(s, r), call' = call
  PROVE  Moves(s, "done") /\ out'[s] = r
  BY DEF Done, Moves, Types, TypeOK

\* Going on without a result is a move, too.
LEMMA Advances ==
  ASSUME Types, NEW s \in Slots, NEW x \in States \ {"done"}, pc[s] # "done",
         pc' = [pc EXCEPT ![s] = x], out' = out, call' = call
  PROVE  Moves(s, x) /\ out'[s] # "canceled"
  <1>1. out[s] = "none"
    BY DEF Types, TypeOK, Results
  <1> QED BY <1>1 DEF Moves

\* The hook lets a call go on or fills its slot.
LEMMA HookMoves ==
  ASSUME Types, NEW s \in Slots, pc[s] # "done", call' = call, Hook(s)
  PROVE  \E x \in {"ready", "done"} : Moves(s, x) /\ (out'[s] = "canceled" => cancelled)
  <1>1. ASSUME pc' = [pc EXCEPT ![s] = "ready"], out' = out
        PROVE  Moves(s, "ready") /\ out'[s] # "canceled"
    BY <1>1, Advances DEF States
  <1>2. ASSUME Done(s, "denied")
        PROVE  Moves(s, "done") /\ out'[s] = "denied"
    BY <1>2, Fills DEF Results
  <1>3. ASSUME Done(s, "canceled")
        PROVE  Moves(s, "done")
    BY <1>3, Fills DEF Results
  <1>4. \/ pc' = [pc EXCEPT ![s] = "ready"] /\ out' = out
        \/ Done(s, "denied")
        \/ Done(s, "canceled") /\ cancelled
    BY DEF Hook, DispatchContextDenial
  <1> QED BY <1>1, <1>2, <1>3, <1>4

\* The authorization of a call keeps the invariant.
LEMMA AuthorizationStep ==
  ASSUME DispatchConstants, DispatchInv, NEW s \in Slots,
         Refuse(s) \/ AskUser(s) \/ Allow(s) \/ NotApproved(s)
  PROVE  DispatchInv'
  <1>1. Types
    BY DEF DispatchInv
  <1>2. /\ pc[s] \in {"auth", "await"} /\ pc[s] # "done"
        /\ UNCHANGED <<call, seen, digest, value, changes, approvals, cancelled, streak>>
    BY DEF Refuse, AskUser, Allow, NotApproved
  <1>3. seen' \in [Actions -> 0 .. Limit + 1] /\ \A a \in Actions : seen[a] <= seen'[a]
    BY <1>1, <1>2 DEF Types, TypeOK, DispatchConstants
  <1>4. ASSUME Done(s, "denied")
        PROVE  Moves(s, "done") /\ out'[s] = "denied"
    BY <1>1, <1>2, <1>4, Fills DEF Results
  <1>5. ASSUME pc' = [pc EXCEPT ![s] = "await"], out' = out
        PROVE  Moves(s, "await") /\ out'[s] # "canceled"
    BY <1>1, <1>2, <1>5, Advances DEF States
  <1>6. Allow(s) => \E x \in {"ready", "done"} : Moves(s, x) /\ (out'[s] = "canceled" => cancelled)
    BY <1>1, <1>2, HookMoves DEF Allow
  <1>7. Refuse(s) \/ NotApproved(s) => Done(s, "denied")
    BY DEF Refuse, NotApproved
  <1>8. AskUser(s) => pc' = [pc EXCEPT ![s] = "await"] /\ out' = out
    BY DEF AskUser
  <1>9. \E x \in {"await", "ready", "done"} : Moves(s, x) /\ (out'[s] = "canceled" => cancelled)
    BY <1>4, <1>5, <1>6, <1>7, <1>8
  <1>10. PICK x \in {"await", "ready", "done"} : Moves(s, x) /\ (out'[s] = "canceled" => cancelled)
    BY <1>9
  <1>11. x \in States /\ x \notin InFlight /\ x # "armed"
    BY DEF States, InFlight
  <1> QED BY <1>2, <1>3, <1>10, <1>11, QuietStep

\* An approval empties the guard while nobody is past it.
LEMMA ApproveStep ==
  ASSUME DispatchConstants, DispatchInv, NEW s \in Slots, Approve(s)
  PROVE  DispatchInv'
  <1>1. Types /\ TurnOrder /\ GuardCovers /\ CanceledKnown
    BY DEF DispatchInv
  <1>2. /\ pc[s] \in {"auth", "await"} /\ pc[s] # "done"
        /\ UNCHANGED <<call, value, changes, cancelled>>
        /\ approvals' = approvals + 1
        /\ seen' = [a \in Actions |-> 0] /\ digest' = [a \in Actions |-> 0]
        /\ streak' = [a \in Actions |-> 0]
    BY DEF Approve
  <1>3. \E x \in {"ready", "done"} : Moves(s, x) /\ (out'[s] = "canceled" => cancelled)
    BY <1>1, <1>2, HookMoves DEF Approve
  <1>4. PICK x \in {"ready", "done"} : Moves(s, x) /\ (out'[s] = "canceled" => cancelled)
    BY <1>3
  <1>5. x \in States /\ x \notin InFlight /\ x # "armed"
    BY DEF States, InFlight
  <1>6. TurnOrder'
    BY <1>1, <1>2, <1>4, <1>5, OrderKept
  <1>7. CanceledKnown'
    BY <1>1, <1>2, <1>4, <1>5, CanceledKept
  <1>8. Types'
    <2>1. /\ call' \in [Slots -> Actions] /\ pc' \in [Slots -> States] /\ out' \in [Slots -> Results]
          /\ \A r \in Slots : pc'[r] = "done" <=> out'[r] # "none"
      BY <1>1, <1>2, <1>4, <1>5, SlotsTyped
    <2>2. 0 \in 0 .. Limit + 1 /\ approvals' \in Nat
      BY <1>1, <1>2 DEF DispatchConstants, Types
    <2> QED BY <1>1, <1>2, <2>1, <2>2 DEF Types, TypeOK
  <1>9. GuardCovers'
    <2>1. SUFFICES ASSUME NEW a \in Actions
                   PROVE  streak'[a] + Cardinality(Flying(pc', call', a)) <= Least(seen'[a], Limit) + Turn - 1
      BY DEF GuardCovers, Flying
    <2> DEFINE m == Cardinality(Flying(pc', call', a))
    <2>2. m \in Nat /\ m <= Turn - 1
      BY <1>1, <1>4, <1>5, FlightChanges
    <2> HIDE DEF m
    <2>3. streak'[a] = 0 /\ Least(seen'[a], Limit) = 0
      BY <1>2 DEF Least, DispatchConstants
    <2>4. streak'[a] + m <= Least(seen'[a], Limit) + Turn - 1
      BY <2>2, <2>3 DEF DispatchConstants
    <2> QED BY <2>4 DEF m
  <1> QED BY <1>6, <1>7, <1>8, <1>9 DEF DispatchInv

\* Counting a call keeps the guard's table typed and lowers no count.
LEMMA Counted ==
  ASSUME DispatchConstants, Types, NEW c \in Actions
  PROVE  /\ Count(c) \in [Actions -> 0 .. Limit + 1]
         /\ \A a \in Actions : Count(c)[a] = IF a = c /\ seen[a] <= Limit THEN seen[a] + 1 ELSE seen[a]
         /\ \A a \in Actions : seen[a] <= Count(c)[a]
  <1>1. seen \in [Actions -> 0 .. Limit + 1] /\ Limit \in Nat
    BY DEF Types, TypeOK, DispatchConstants
  <1>2. Count(c) = [seen EXCEPT ![c] = IF seen[c] > Limit THEN seen[c] ELSE seen[c] + 1]
    BY <1>1 DEF Count
  <1>3. \A a \in Actions : Count(c)[a] = IF a = c /\ seen[a] <= Limit THEN seen[a] + 1 ELSE seen[a]
    BY <1>1, <1>2
  <1>4. \A a \in Actions : seen[a] <= Count(c)[a] /\ Count(c)[a] \in 0 .. Limit + 1
    BY <1>1, <1>3
  <1>5. Count(c) = [a \in Actions |-> Count(c)[a]]
    BY <1>1, <1>2
  <1> QED BY <1>3, <1>4, <1>5

\* The guard lets a call pass below its limit, and then the count covers it.
LEMMA PassStep ==
  ASSUME DispatchConstants, DispatchInv, NEW s \in Slots,
         pc[s] = "ready", MayRun(s), ~cancelled, seen[call[s]] < Limit,
         seen' = Count(call[s]), Moves(s, "observed"), out'[s] # "canceled",
         UNCHANGED <<digest, value, changes, approvals, cancelled, streak>>
  PROVE  DispatchInv'
  <1>1. Types /\ TurnOrder /\ GuardCovers /\ CanceledKnown
    BY DEF DispatchInv
  <1>2. "observed" \in States /\ "observed" \in InFlight /\ pc[s] # "done" /\ pc[s] \notin InFlight
    BY DEF States, InFlight
  <1>3. TurnOrder'
    BY <1>1, <1>2, OrderKept
  <1>4. CanceledKnown'
    BY <1>1, <1>2, CanceledKept
  <1>5. call[s] \in Actions
    BY <1>1 DEF Types, TypeOK
  <1>6. /\ seen' \in [Actions -> 0 .. Limit + 1]
        /\ \A a \in Actions : seen'[a] = IF a = call[s] /\ seen[a] <= Limit THEN seen[a] + 1 ELSE seen[a]
    BY <1>1, <1>5, Counted
  <1>7. Types'
    <2>1. /\ call' \in [Slots -> Actions] /\ pc' \in [Slots -> States] /\ out' \in [Slots -> Results]
          /\ \A r \in Slots : pc'[r] = "done" <=> out'[r] # "none"
      BY <1>1, <1>2, SlotsTyped
    <2> QED BY <1>1, <1>6, <2>1 DEF Types, TypeOK
  <1>8. GuardCovers'
    <2>1. SUFFICES ASSUME NEW a \in Actions
                   PROVE  streak'[a] + Cardinality(Flying(pc', call', a)) <= Least(seen'[a], Limit) + Turn - 1
      BY DEF GuardCovers, Flying
    <2> DEFINE n == Cardinality(Flying(pc, call, a))
               m == Cardinality(Flying(pc', call', a))
    <2>2. n \in Nat /\ m \in Nat /\ (call[s] # a => m = n) /\ (call[s] = a => m = n + 1)
      BY <1>1, <1>2, FlightChanges
    <2>3. streak[a] + n <= Least(seen[a], Limit) + Turn - 1
      BY <1>1 DEF GuardCovers
    <2> HIDE DEF n, m
    <2>4. streak'[a] = streak[a] /\ streak[a] \in Nat /\ seen[a] \in Nat /\ Limit \in Nat /\ Turn \in Nat
      BY <1>1 DEF Types, TypeOK, DispatchConstants
    <2>5. CASE call[s] = a
      <3>1. seen'[a] = seen[a] + 1 /\ seen[a] < Limit
        BY <1>6, <2>4, <2>5
      <3>2. Least(seen'[a], Limit) = Least(seen[a], Limit) + 1 /\ Least(seen[a], Limit) \in Nat
        BY <2>4, <3>1 DEF Least
      <3>3. streak'[a] + m <= Least(seen'[a], Limit) + Turn - 1
        BY <2>2, <2>3, <2>4, <2>5, <3>2
      <3> QED BY <3>3 DEF m
    <2>6. CASE call[s] # a
      <3>1. seen'[a] = seen[a] /\ m = n
        BY <1>6, <2>2, <2>6
      <3>2. streak'[a] + m <= Least(seen'[a], Limit) + Turn - 1
        BY <2>3, <2>4, <3>1
      <3> QED BY <3>2 DEF m
    <2> QED BY <2>5, <2>6
  <1> QED BY <1>3, <1>4, <1>7, <1>8 DEF DispatchInv

\* The look at the repetition guard keeps the invariant.
LEMMA ObserveStep ==
  ASSUME DispatchConstants, DispatchInv, NEW s \in Slots, Observe(s)
  PROVE  DispatchInv'
  <1>1. Types
    BY DEF DispatchInv
  <1>2. /\ pc[s] = "ready" /\ pc[s] # "done" /\ MayRun(s)
        /\ UNCHANGED <<call, digest, value, changes, approvals, cancelled, streak>>
    BY DEF Observe
  <1>3. call[s] \in Actions
    BY <1>1 DEF Types, TypeOK
  <1>4. ASSUME seen' = seen \/ seen' = Count(call[s])
        PROVE  seen' \in [Actions -> 0 .. Limit + 1] /\ \A a \in Actions : seen[a] <= seen'[a]
    <2>1. CASE seen' = seen
      BY <1>1, <2>1 DEF Types, TypeOK, DispatchConstants
    <2>2. CASE seen' = Count(call[s])
      BY <1>1, <1>3, <2>2, Counted
    <2> QED BY <1>4, <2>1, <2>2
  <1>5. ASSUME NEW r \in {"denied", "repeated", "canceled"}, Done(s, r), r = "canceled" => cancelled,
               seen' = seen \/ seen' = Count(call[s])
        PROVE  DispatchInv'
    <2>1. Moves(s, "done") /\ out'[s] = r
      BY <1>1, <1>2, <1>5, Fills DEF Results
    <2>2. "done" \in States /\ "done" \notin InFlight
      BY DEF States, InFlight
    <2> QED BY <1>2, <1>4, <1>5, <2>1, <2>2, QuietStep
  <1>6. ASSUME ~cancelled, seen' = Count(call[s]), seen[call[s]] < Limit,
               pc' = [pc EXCEPT ![s] = "observed"], out' = out
        PROVE  DispatchInv'
    <2>1. Moves(s, "observed") /\ out'[s] # "canceled"
      BY <1>1, <1>2, <1>6, Advances DEF States
    <2> QED BY <1>2, <1>6, <2>1, PassStep
  <1> QED BY <1>5, <1>6 DEF Observe, Observed, DispatchContextDenial

\* The last checks before the tool keep the invariant.
LEMMA ArmStep ==
  ASSUME DispatchConstants, DispatchInv, NEW s \in Slots, Arm(s) \/ Start(s)
  PROVE  DispatchInv'
  <1>1. Types
    BY DEF DispatchInv
  <1>2. /\ pc[s] \in {"observed", "armed"} /\ pc[s] \in InFlight /\ pc[s] # "done"
        /\ UNCHANGED <<call, seen, digest, value, changes, approvals, cancelled, streak>>
    BY DEF Arm, Start, InFlight
  <1>3. seen' \in [Actions -> 0 .. Limit + 1] /\ \A a \in Actions : seen[a] <= seen'[a]
    BY <1>1, <1>2 DEF Types, TypeOK, DispatchConstants
  <1>4. ASSUME NEW r \in {"denied", "canceled"}, Done(s, r), r = "canceled" => cancelled
        PROVE  Moves(s, "done") /\ (out'[s] = "canceled" => cancelled)
    BY <1>1, <1>2, <1>4, Fills DEF Results
  <1>5. ASSUME NEW x \in {"armed", "running"}, pc' = [pc EXCEPT ![s] = x], out' = out
        PROVE  Moves(s, x) /\ out'[s] # "canceled"
    BY <1>1, <1>2, <1>5, Advances DEF States
  <1>6. Arm(s) => \E x \in {"armed", "done"} :
                    Moves(s, x) /\ (out'[s] = "canceled" => cancelled) /\ (x = "armed" => ~cancelled)
    BY <1>4, <1>5 DEF Arm, DispatchContextDenial
  <1>7. Start(s) => \E x \in {"running", "done"} : Moves(s, x) /\ (out'[s] = "canceled" => cancelled)
    BY <1>4, <1>5 DEF Start, DispatchContextDenial
  <1>8. PICK x \in {"armed", "running", "done"} :
               Moves(s, x) /\ (out'[s] = "canceled" => cancelled) /\ (x = "armed" => ~cancelled)
    BY <1>6, <1>7
  <1>9. x \in States /\ x \notin {"auth", "await"}
    BY DEF States
  <1> QED BY <1>2, <1>3, <1>8, <1>9, QuietStep

\* A tool that returns is no longer covered by the count of its action: it is
\* paid for by the fruitless execution it adds, or the budget starts afresh.
LEMMA ExecuteStep ==
  ASSUME DispatchConstants, DispatchInv, NEW s \in Slots, Execute(s)
  PROVE  DispatchInv'
  <1>1. Types /\ TurnOrder /\ GuardCovers /\ CanceledKnown
    BY DEF DispatchInv
  <1>2. /\ pc[s] = "running" /\ pc[s] \in InFlight /\ pc[s] # "done"
        /\ UNCHANGED <<call, value, changes, approvals, cancelled>>
    BY DEF Execute, Succeed, FailTool, InFlight
  <1>3. Moves(s, "done") /\ out'[s] # "canceled"
    BY <1>1, <1>2, Fills DEF Execute, Succeed, FailTool, Results
  <1>4. "done" \in States /\ "done" \notin InFlight
    BY DEF States, InFlight
  <1>5. TurnOrder'
    BY <1>1, <1>2, <1>3, <1>4, OrderKept
  <1>6. CanceledKnown'
    BY <1>1, <1>2, <1>3, <1>4, CanceledKept
  <1>7. /\ call[s] \in Actions /\ Limit \in Nat /\ Turn \in Nat
        /\ seen \in [Actions -> 0 .. Limit + 1] /\ streak \in [Actions -> Nat]
        /\ value \in [Actions -> Values] /\ digest \in [Actions -> {0} \cup Values]
    BY <1>1 DEF Types, TypeOK, DispatchConstants
  <1>8. \/ /\ digest' = [digest EXCEPT ![call[s]] = value[call[s]]]
           /\ seen' = [a \in Actions |-> 0] /\ streak' = [a \in Actions |-> 0]
        \/ /\ digest' = digest /\ seen' = seen
           /\ streak' = [streak EXCEPT ![call[s]] = IF @ < Limit + Turn THEN @ + 1 ELSE @]
    BY DEF Execute, Succeed, FailTool, Progress
  <1>9. Types'
    <2>1. /\ call' \in [Slots -> Actions] /\ pc' \in [Slots -> States] /\ out' \in [Slots -> Results]
          /\ \A r \in Slots : pc'[r] = "done" <=> out'[r] # "none"
      BY <1>1, <1>2, <1>3, <1>4, SlotsTyped
    <2>2. digest' \in [Actions -> {0} \cup Values]
      BY <1>7, <1>8
    <2>3. seen' \in [Actions -> 0 .. Limit + 1]
      BY <1>7, <1>8
    <2>4. streak' \in [Actions -> Nat]
      BY <1>7, <1>8
    <2> QED BY <1>1, <1>2, <2>1, <2>2, <2>3, <2>4 DEF Types, TypeOK
  <1>10. GuardCovers'
    <2>1. SUFFICES ASSUME NEW a \in Actions
                   PROVE  streak'[a] + Cardinality(Flying(pc', call', a)) <= Least(seen'[a], Limit) + Turn - 1
      BY DEF GuardCovers, Flying
    <2> DEFINE n == Cardinality(Flying(pc, call, a))
               m == Cardinality(Flying(pc', call', a))
    <2>2. /\ n \in Nat /\ m \in Nat /\ m <= Turn - 1
          /\ (call[s] # a => m = n) /\ (call[s] = a => m = n - 1)
      BY <1>1, <1>2, <1>3, <1>4, FlightChanges
    <2>3. streak[a] + n <= Least(seen[a], Limit) + Turn - 1
      BY <1>1 DEF GuardCovers
    <2> HIDE DEF n, m
    <2>4. streak[a] \in Nat /\ seen[a] \in Nat /\ Least(seen[a], Limit) \in Nat
      BY <1>7 DEF Least
    <2>5. CASE seen' = [b \in Actions |-> 0] /\ streak' = [b \in Actions |-> 0]
      <3>1. streak'[a] = 0 /\ Least(seen'[a], Limit) = 0
        BY <1>7, <2>5 DEF Least
      <3>2. streak'[a] + m <= Least(seen'[a], Limit) + Turn - 1
        BY <1>7, <2>2, <3>1
      <3> QED BY <3>2 DEF m
    <2>6. CASE /\ seen' = seen
               /\ streak' = [streak EXCEPT ![call[s]] = IF @ < Limit + Turn THEN @ + 1 ELSE @]
      <3>1. seen'[a] = seen[a] /\ (call[s] # a => streak'[a] = streak[a])
            /\ (call[s] = a => streak'[a] \in {streak[a], streak[a] + 1})
        BY <1>7, <2>6
      <3>2. streak'[a] + m <= Least(seen'[a], Limit) + Turn - 1
        BY <1>7, <2>2, <2>3, <2>4, <3>1
      <3> QED BY <3>2 DEF m
    <2> QED BY <1>8, <2>5, <2>6
  <1> QED BY <1>5, <1>6, <1>9, <1>10 DEF DispatchInv

\* With nobody past the guard, no action has a call under way.
LEMMA CoverOfNobody ==
  ASSUME DispatchConstants, NEW a \in Actions,
         NEW f, NEW c, \A r \in Slots : f[r] \notin InFlight
  PROVE  Cardinality(Flying(f, c, a)) = 0
  <1>1. Flying(f, c, a) = {}
    BY DEF Flying
  <1> QED BY <1>1, FS_EmptySet

\* The invariant holds before the first call of the first turn.
LEMMA DispatchInit ==
  ASSUME DispatchConstants, Init
  PROVE  DispatchInv
  <1>1. Limit \in Nat /\ Turn \in Nat /\ Turn >= 1
    BY DEF DispatchConstants
  <1>2. Types
    <2>1. value \in [Actions -> Values]
      BY DEF Init
    <2>2. 0 \in 0 .. Limit + 1
      BY <1>1
    <2> QED BY <2>1, <2>2 DEF Init, Types, TypeOK, States, Results
  <1>3. \A r \in Slots : pc[r] \notin InFlight /\ out[r] = "none"
    BY DEF Init, InFlight
  <1>4. TurnOrder /\ CanceledKnown
    BY <1>3 DEF TurnOrder, CanceledKnown
  <1>5. GuardCovers
    <2>1. SUFFICES ASSUME NEW a \in Actions
                   PROVE  streak[a] + Cardinality(Flying(pc, call, a)) <= Least(seen[a], Limit) + Turn - 1
      BY DEF GuardCovers
    <2>2. Cardinality(Flying(pc, call, a)) = 0
      BY <1>3, CoverOfNobody
    <2>3. streak[a] = 0 /\ Least(seen[a], Limit) = 0
      BY <1>1 DEF Init, Least
    <2> QED BY <1>1, <2>2, <2>3
  <1> QED BY <1>2, <1>4, <1>5 DEF DispatchInv

\* The next turn of the model keeps the invariant: the budget goes on.
LEMMA NextTurnStep ==
  ASSUME DispatchConstants, DispatchInv, NextTurn
  PROVE  DispatchInv'
  <1>1. Types /\ GuardCovers
    BY DEF DispatchInv
  <1>2. /\ \A r \in Slots : pc[r] = "done"
        /\ call' \in [Slots -> Actions]
        /\ pc' = [r \in Slots |-> "auth"] /\ out' = [r \in Slots |-> "none"]
        /\ UNCHANGED <<seen, digest, value, changes, approvals, cancelled, streak>>
    BY DEF NextTurn
  <1>3. \A r \in Slots : pc[r] \notin InFlight /\ pc'[r] \notin InFlight /\ out'[r] = "none"
    BY <1>2 DEF InFlight
  <1>4. Types'
    BY <1>1, <1>2 DEF Types, TypeOK, States, Results
  <1>5. TurnOrder' /\ CanceledKnown'
    BY <1>3 DEF TurnOrder, CanceledKnown
  <1>6. GuardCovers'
    <2>1. SUFFICES ASSUME NEW a \in Actions
                   PROVE  streak'[a] + Cardinality(Flying(pc', call', a)) <= Least(seen'[a], Limit) + Turn - 1
      BY DEF GuardCovers, Flying
    <2>2. Cardinality(Flying(pc, call, a)) = 0
      BY <1>3, CoverOfNobody
    <2>3. Cardinality(Flying(pc', call', a)) = 0
      BY <1>3, CoverOfNobody
    <2>4. streak[a] + 0 <= Least(seen[a], Limit) + Turn - 1
      BY <1>1, <2>2 DEF GuardCovers
    <2>5. streak'[a] = streak[a] /\ seen'[a] = seen[a]
      BY <1>2
    <2> QED BY <2>3, <2>4, <2>5
  <1> QED BY <1>4, <1>5, <1>6 DEF DispatchInv

\* A cancellation, a change of the world, or nothing at all.
LEMMA OutsideStep ==
  ASSUME DispatchConstants, DispatchInv, Cancel \/ (\E a \in Actions : Change(a)) \/ UNCHANGED vars
  PROVE  DispatchInv'
  <1>1. Types /\ TurnOrder /\ GuardCovers /\ CanceledKnown
    BY DEF DispatchInv
  <1>2. /\ UNCHANGED <<call, pc, out, seen, digest, approvals, streak>>
        /\ cancelled' \in BOOLEAN /\ (cancelled => cancelled')
    BY <1>1 DEF Cancel, Change, vars, Types
  <1>3. value' \in [Actions -> Values] /\ changes' \in Nat
    <2>1. CASE Cancel \/ UNCHANGED vars
      BY <1>1, <2>1 DEF Cancel, vars, Types, TypeOK
    <2>2. ASSUME NEW a \in Actions, Change(a)
          PROVE  value' \in [Actions -> Values] /\ changes' \in Nat
      BY <1>1, <2>2 DEF Change, Types, TypeOK
    <2> QED BY <2>1, <2>2
  <1>4. Types'
    BY <1>1, <1>2, <1>3 DEF Types, TypeOK
  <1>5. TurnOrder'
    BY <1>1, <1>2 DEF TurnOrder, Authorized
  <1>6. GuardCovers'
    BY <1>1, <1>2 DEF GuardCovers, Flying
  <1>7. CanceledKnown'
    BY <1>1, <1>2 DEF CanceledKnown
  <1> QED BY <1>4, <1>5, <1>6, <1>7 DEF DispatchInv

\* Every step of the dispatch keeps the invariant.
LEMMA DispatchStep ==
  ASSUME DispatchConstants, DispatchInv, [Next]_vars
  PROVE  DispatchInv'
  <1>1. ASSUME NEW s \in Slots, CallStep(s)
        PROVE  DispatchInv'
    BY <1>1, AuthorizationStep, ApproveStep, ObserveStep, ArmStep, ExecuteStep DEF CallStep
  <1> QED BY <1>1, NextTurnStep, OutsideStep DEF Next

-----------------------------------------------------------------------------
\* The invariant holds in every reachable state.
LEMMA DispatchInvariant ==
  ASSUME DispatchConstants
  PROVE  Spec => []DispatchInv
  <1>1. Init => DispatchInv
    BY DispatchInit
  <1>2. DispatchInv /\ [Next]_vars => DispatchInv'
    BY DispatchStep
  <1> QED BY <1>1, <1>2, PTL DEF Spec

\* Type correctness: every slot is answered exactly when its call is done, and
\* the guard's table stays within its limit (tool_dispatch.go, run_guard.go).
THEOREM DispatchTypeCorrect ==
  ASSUME DispatchConstants
  PROVE  Spec => []TypeOK
  <1>1. DispatchInv => TypeOK
    BY DEF DispatchInv, Types
  <1> QED BY <1>1, DispatchInvariant, PTL

\* RunGuard stops a model that repeats itself: an action that brings nothing
\* new runs at most its limit and the calls that were already past the guard
\* when it was reset, for any number of calls in a turn.
THEOREM RepetitionIsBounded ==
  ASSUME DispatchConstants
  PROVE  Spec => []RepetitionBounded
  <1>1. DispatchInv => RepetitionBounded
    <2>1. SUFFICES ASSUME DispatchInv, NEW a \in Actions PROVE streak[a] < Limit + Turn
      BY DEF RepetitionBounded
    <2> DEFINE n == Cardinality(Flying(pc, call, a))
    <2>2. n \in Nat
      <3>1. IsFiniteSet(Flying(pc, call, a))
        BY SlotCount, FS_Subset DEF Flying
      <3> QED BY <3>1, FS_CardinalityType
    <2>3. streak[a] + n <= Least(seen[a], Limit) + Turn - 1
      BY <2>1 DEF DispatchInv, GuardCovers
    <2>4. streak[a] \in Nat /\ Limit \in Nat /\ Turn \in Nat /\ seen[a] \in Nat
      BY <2>1 DEF DispatchInv, Types, TypeOK, DispatchConstants
    <2>5. Least(seen[a], Limit) <= Limit /\ Least(seen[a], Limit) \in Nat
      BY <2>4 DEF Least
    <2> HIDE DEF n
    <2> QED BY <2>2, <2>3, <2>4, <2>5
  <1> QED BY <1>1, DispatchInvariant, PTL

\* A serial call runs alone: between its check by the guard and its result no
\* other call of the turn is under way.
THEOREM SerialCallsRunAlone ==
  ASSUME DispatchConstants
  PROVE  Spec => []SerialAlone
  <1>1. DispatchInv => SerialAlone
    <2>1. SUFFICES ASSUME DispatchInv, NEW s \in Slots, NEW r \in Slots, s # r,
                          call[s] \notin Concurrent, pc[s] \in InFlight, pc[r] \in InFlight
                   PROVE  FALSE
      BY DEF SerialAlone, InFlight
    <2>2. TurnOrder
      BY <2>1 DEF DispatchInv
    <2> QED BY <2>1, <2>2, InFlightAlone
  <1> QED BY <1>1, DispatchInvariant, PTL

\* After a call of the turn was refused because the run was canceled, no
\* serial call of the turn starts any more.
THEOREM CancellationStopsTheTurn ==
  ASSUME DispatchConstants
  PROVE  Spec => CanceledIsFinal
  <1>1. DispatchInv /\ [Next]_vars =>
          [\A s, r \in Slots :
             (out[r] = "canceled" /\ call[s] \notin Concurrent)
               => ~(pc[s] # "running" /\ pc'[s] = "running")]_vars
    <2>1. SUFFICES ASSUME DispatchInv, Next,
                          NEW s \in Slots, NEW r \in Slots,
                          out[r] = "canceled", call[s] \notin Concurrent,
                          pc[s] # "running", pc'[s] = "running"
                   PROVE  FALSE
      OBVIOUS
    <2>2. Types /\ CanceledKnown
      BY <2>1 DEF DispatchInv
    <2>3. pc \in [Slots -> States]
      BY <2>2 DEF Types, TypeOK
    <2>4. \/ \E t \in Slots : pc[t] = "armed" /\ pc' = [pc EXCEPT ![t] = "running"]
          \/ \E t \in Slots, x \in States \ {"running"} : pc' = [pc EXCEPT ![t] = x]
          \/ pc' = [t \in Slots |-> "auth"]
          \/ pc' = pc
      <3>1. ASSUME NEW t \in Slots, CallStep(t)
            PROVE  \/ pc[t] = "armed" /\ pc' = [pc EXCEPT ![t] = "running"]
                   \/ \E x \in States \ {"running"} : pc' = [pc EXCEPT ![t] = x]
        <4> DEFINE On(x) == pc' = [pc EXCEPT ![t] = x]
        <4>1. \/ pc[t] = "armed" /\ On("running")
              \/ On("done") \/ On("await") \/ On("ready") \/ On("observed") \/ On("armed")
          BY <3>1 DEF CallStep, Refuse, AskUser, Allow, Approve, NotApproved, Hook, Observe, Arm, Start,
                      Execute, Succeed, FailTool, Done
        <4> QED BY <4>1 DEF States
      <3> QED BY <2>1, <3>1 DEF Next, NextTurn, Cancel, Change
    <2>5. pc[s] = "armed"
      BY <2>1, <2>3, <2>4
    <2> QED BY <2>1, <2>2, <2>5 DEF CanceledKnown
  <1> QED BY <1>1, DispatchInvariant, PTL DEF Spec, CanceledIsFinal

-----------------------------------------------------------------------------
(***************************************************************************)
(* The gates a call passes: project hooks, permissions and the bindings of *)
(* executable plugins.                                                     *)
(***************************************************************************)
CONSTANTS Files, Contents, Tools, Modes, Boxes, MaxHookCount, MaxCalls, MaxEdits,
          Runs, Root, Levels, Settings, Calls, Isolation, PermissionMaxEdits, PermissionMaxCalls,
          Plugins, Tool(_), BuiltIns, Batch, Versions, PluginMaxEdits, MaxClock, Lifetime
VARIABLES hookMode, box, pathFits, files, edits, snap, phase, canceled, calls, hookCall, chain, ran,
          verdict, hookStarted, atLoad, toolRuns,
          isolated, settings, permissionEdits, run, revision, selectedFull, decided,
          disk, pluginEdits, clock, pluginRun, pluginCalls, used, runs

Gates == INSTANCE ToolGates WITH call <- hookCall

\* Both modules count the same way.
LEMMA SameCardinality == \A S : Gates!Cardinality(S) = Cardinality(S)
  BY DEF Gates!Cardinality, Cardinality

(***************************************************************************)
(* Induction over the natural numbers, as a fact about sets of them.       *)
(***************************************************************************)

\* A set of natural numbers that is not empty has a least member.
LEMMA LeastNatural ==
  ASSUME NEW T \in SUBSET Nat, T # {}
  PROVE  \E x \in T : \A y \in T : x <= y
<1>1. PICK x \in T : \A y \in T : <<y, x>> \notin OpToRel(<, Nat)
  BY NatLessThanWellFounded, WFMin
<1>2. x \in Nat /\ \A y \in T : y \in Nat /\ ~(y < x)
  BY <1>1 DEF OpToRel
<1>3. \A y \in T : x <= y
  BY <1>2
<1> QED
  BY <1>1, <1>3

\* A set that holds 0 and with every number the next one holds them all.
LEMMA Induction ==
  ASSUME NEW T \in SUBSET Nat, 0 \in T, \A n \in T : n + 1 \in T
  PROVE  T = Nat
<1> SUFFICES ASSUME Nat \ T # {} PROVE FALSE
  OBVIOUS
<1>1. PICK x \in Nat \ T : \A y \in Nat \ T : x <= y
  BY LeastNatural
<1>2. x # 0 /\ x - 1 \in Nat /\ x - 1 \in T
  BY <1>1
<1>3. (x - 1) + 1 = x
  BY <1>1
<1> QED
  BY <1>1, <1>2, <1>3

\* A set of indices that is not empty has a greatest member.
LEMMA GreatestIndex ==
  ASSUME NEW n \in Nat, NEW T \in SUBSET (1..n), T # {}
  PROVE  Gates!Max(T) \in T
<1> DEFINE R == {n - t : t \in T}
<1>1. R \in SUBSET Nat /\ R # {}
  <2>1. ASSUME NEW t \in T PROVE n - t \in Nat
    <3>1. t \in Nat /\ t <= n
      OBVIOUS
    <3> QED
      BY <3>1
  <2> QED
    BY <2>1
<1>2. PICK r \in R : \A q \in R : r <= q
  BY <1>1, LeastNatural
<1>3. PICK t \in T : r = n - t
  BY <1>2
<1>4. ASSUME NEW u \in T PROVE t >= u
  <2>1. n - t <= n - u
    BY <1>2, <1>3
  <2> QED
    BY <2>1
<1> QED
  BY <1>3, <1>4 DEF Gates!Max

(***************************************************************************)
(* What FlattenSeq returns.                                                *)
(***************************************************************************)

\* How the concatenation of the first i sequences is made.
Joins(f, ss, n) ==
  \A i \in 1..n : f[i] = IF i = 1 THEN ss[i] ELSE f[i - 1] \o ss[i]

\* There is a function that joins the first n sequences, for every n.
LEMMA JoinExists ==
  ASSUME NEW S, NEW ss \in Seq(Seq(S)), NEW n \in Nat, n <= Len(ss)
  PROVE  \E f \in [1..n -> Seq(S)] : Joins(f, ss, n)
<1> DEFINE T == {m \in Nat : m <= Len(ss) => \E f \in [1..m -> Seq(S)] : Joins(f, ss, m)}
<1>1. 0 \in T
  <2>1. [i \in 1..0 |-> <<>>] \in [1..0 -> Seq(S)]
    OBVIOUS
  <2>2. Joins([i \in 1..0 |-> <<>>], ss, 0)
    BY DEF Joins
  <2> QED
    BY <2>1, <2>2
<1>2. ASSUME NEW m \in T PROVE m + 1 \in T
  <2> SUFFICES ASSUME m + 1 <= Len(ss)
               PROVE  \E f \in [1..(m + 1) -> Seq(S)] : Joins(f, ss, m + 1)
    OBVIOUS
  <2>1. PICK f \in [1..m -> Seq(S)] : Joins(f, ss, m)
    OBVIOUS
  <2> DEFINE g == [i \in 1..(m + 1) |->
                     IF i <= m THEN f[i] ELSE IF i = 1 THEN ss[i] ELSE f[i - 1] \o ss[i]]
  <2>2. \A i \in 1..(m + 1) : ss[i] \in Seq(S)
    OBVIOUS
  <2>3. \A i \in 1..(m + 1) : i <= m => i \in 1..m
    OBVIOUS
  <2>4. \A i \in 1..(m + 1) : ~(i <= m) => i = m + 1 /\ (i # 1 => i - 1 \in 1..m)
    OBVIOUS
  <2>5. ASSUME NEW i \in 1..(m + 1) PROVE g[i] \in Seq(S)
    <3>1. CASE i <= m
      BY <2>3, <3>1
    <3>2. CASE ~(i <= m) /\ i = 1
      BY <2>2, <3>2
    <3>3. CASE ~(i <= m) /\ i # 1
      <4>1. f[i - 1] \in Seq(S) /\ ss[i] \in Seq(S)
        BY <2>2, <2>4, <3>3
      <4> QED
        BY <3>3, <4>1
    <3> QED
      BY <3>1, <3>2, <3>3
  <2>6. g \in [1..(m + 1) -> Seq(S)]
    BY <2>5
  <2>7. ASSUME NEW i \in 1..(m + 1)
        PROVE  g[i] = IF i = 1 THEN ss[i] ELSE g[i - 1] \o ss[i]
    <3>1. CASE i <= m
      <4>1. f[i] = IF i = 1 THEN ss[i] ELSE f[i - 1] \o ss[i]
        BY <2>1, <2>3, <3>1 DEF Joins
      <4>2. i # 1 => i - 1 \in 1..(m + 1) /\ i - 1 <= m
        BY <3>1
      <4> QED
        BY <3>1, <4>1, <4>2
    <3>2. CASE ~(i <= m)
      <4>1. i # 1 => i - 1 \in 1..(m + 1) /\ i - 1 <= m
        BY <2>4, <3>2
      <4> QED
        BY <3>2, <4>1
    <3> QED
      BY <3>1, <3>2
  <2>8. Joins(g, ss, m + 1)
    BY <2>7 DEF Joins
  <2> QED
    BY <2>6, <2>8
<1>3. T = Nat
  BY <1>1, <1>2, Induction
<1> QED
  BY <1>3

\* FlattenSeq is the last of those joins.
LEMMA FlattenIsJoin ==
  ASSUME NEW S, NEW ss \in Seq(Seq(S)), Len(ss) > 0
  PROVE  \E f \in [1..Len(ss) -> Seq(S)] : Joins(f, ss, Len(ss)) /\ Gates!FlattenSeq(ss) = f[Len(ss)]
<1> DEFINE n == Len(ss)
           Joined(f) == [i \in 1..n |-> IF i = 1 THEN ss[i] ELSE f[i - 1] \o ss[i]]
           F == CHOOSE f : f = Joined(f)
<1>1. n \in Nat
  OBVIOUS
<1>2. PICK f \in [1..n -> Seq(S)] : Joins(f, ss, n)
  BY <1>1, JoinExists
<1>3. f = Joined(f)
  BY <1>2 DEF Joins
<1>4. F = Joined(F)
  BY <1>3
<1>5. Joins(F, ss, n)
  BY <1>4 DEF Joins
<1>6. Gates!FlattenSeq(ss) = F[n]
  BY DEF Gates!FlattenSeq
<1> DEFINE T == {m \in Nat : m \in 1..n => F[m] \in Seq(S)}
<1>7. 0 \in T
  BY <1>1
<1>8. ASSUME NEW m \in T PROVE m + 1 \in T
  <2> SUFFICES ASSUME m + 1 \in 1..n PROVE F[m + 1] \in Seq(S)
    OBVIOUS
  <2>1. ss[m + 1] \in Seq(S)
    OBVIOUS
  <2>2. m + 1 # 1 => F[m] \in Seq(S) /\ (m + 1) - 1 = m
    BY <1>1
  <2>3. F[m + 1] = IF m + 1 = 1 THEN ss[m + 1] ELSE F[(m + 1) - 1] \o ss[m + 1]
    BY <1>5 DEF Joins
  <2> HIDE DEF F
  <2> QED
    BY <2>1, <2>2, <2>3
<1>9. T = Nat
  <2> HIDE DEF F
  <2> QED
    BY <1>7, <1>8, Induction
<1>10. F \in [1..n -> Seq(S)]
  <2>1. DOMAIN F = 1..n /\ F = [i \in 1..n |-> F[i]]
    BY <1>4
  <2> HIDE DEF F
  <2> QED
    BY <1>1, <1>9, <2>1
<1> HIDE DEF F
<1> QED
  BY <1>5, <1>6, <1>10

\* The members of a concatenation.
LEMMA RangeConcat ==
  ASSUME NEW S, NEW s \in Seq(S), NEW t \in Seq(S)
  PROVE  Gates!Range(s \o t) = Gates!Range(s) \cup Gates!Range(t)
<1>1. ASSUME NEW x \in Gates!Range(s \o t) PROVE x \in Gates!Range(s) \cup Gates!Range(t)
  <2>1. PICK i \in 1..(Len(s) + Len(t)) : x = (s \o t)[i]
    BY <1>1 DEF Gates!Range
  <2>2. CASE i <= Len(s)
    BY <2>1, <2>2 DEF Gates!Range
  <2>3. CASE i > Len(s)
    <3>1. i - Len(s) \in 1..Len(t) /\ x = t[i - Len(s)]
      BY <2>1, <2>3
    <3> QED
      BY <3>1 DEF Gates!Range
  <2> QED
    BY <2>2, <2>3
<1>2. ASSUME NEW x \in Gates!Range(s) PROVE x \in Gates!Range(s \o t)
  <2>1. PICK i \in 1..Len(s) : x = s[i]
    BY <1>2 DEF Gates!Range
  <2>2. i \in DOMAIN (s \o t) /\ (s \o t)[i] = x
    BY <2>1
  <2> QED
    BY <2>2 DEF Gates!Range
<1>3. ASSUME NEW x \in Gates!Range(t) PROVE x \in Gates!Range(s \o t)
  <2>1. PICK i \in 1..Len(t) : x = t[i]
    BY <1>3 DEF Gates!Range
  <2>2. i + Len(s) \in DOMAIN (s \o t) /\ (s \o t)[i + Len(s)] = x
    BY <2>1
  <2> QED
    BY <2>2 DEF Gates!Range
<1> QED
  BY <1>1, <1>2, <1>3

\* Only the empty sequence has no members.
LEMMA EmptyRange ==
  ASSUME NEW S, NEW s \in Seq(S), Gates!Range(s) = {}
  PROVE  s = <<>>
<1>1. \A i \in 1..Len(s) : s[i] \in Gates!Range(s)
  BY DEF Gates!Range
<1>2. ~(1 \in 1..Len(s))
  BY <1>1
<1>3. Len(s) = 0
  BY <1>2
<1> QED
  BY <1>3

\* FlattenSeq yields a sequence of the members of its sequences.
LEMMA FlattenRange ==
  ASSUME NEW S, NEW ss \in Seq(Seq(S))
  PROVE  /\ Gates!FlattenSeq(ss) \in Seq(S)
         /\ \A x : x \in Gates!Range(Gates!FlattenSeq(ss)) <=> \E i \in 1..Len(ss) : x \in Gates!Range(ss[i])
<1>1. CASE Len(ss) = 0
  <2>1. Gates!FlattenSeq(ss) = ss /\ ss = <<>>
    BY <1>1 DEF Gates!FlattenSeq
  <2> QED
    BY <2>1 DEF Gates!Range
<1>2. CASE Len(ss) > 0
  <2> DEFINE n == Len(ss)
  <2>1. n \in Nat /\ n \in 1..n
    BY <1>2
  <2>2. PICK f \in [1..n -> Seq(S)] : Joins(f, ss, n) /\ Gates!FlattenSeq(ss) = f[n]
    BY <1>2, FlattenIsJoin
  <2> DEFINE T == {m \in Nat : m \in 1..n =>
                     \A x : x \in Gates!Range(f[m]) <=> \E i \in 1..m : x \in Gates!Range(ss[i])}
  <2>3. 0 \in T
    BY <2>1
  <2>4. ASSUME NEW m \in T PROVE m + 1 \in T
    <3> SUFFICES ASSUME m + 1 \in 1..n, NEW x
                 PROVE  x \in Gates!Range(f[m + 1]) <=> \E i \in 1..(m + 1) : x \in Gates!Range(ss[i])
      OBVIOUS
    <3>1. f[m + 1] = IF m + 1 = 1 THEN ss[m + 1] ELSE f[(m + 1) - 1] \o ss[m + 1]
      BY <2>2 DEF Joins
    <3>2. CASE m = 0
      <4>1. f[m + 1] = ss[m + 1] /\ m + 1 = 1
        BY <3>1, <3>2
      <4>2. \A i \in 1..(m + 1) : i = m + 1
        BY <3>2
      <4> QED
        BY <4>1, <4>2
    <3>3. CASE m # 0
      <4>1. m \in 1..n /\ (m + 1) - 1 = m /\ m + 1 # 1
        BY <2>1, <3>3
      <4>2. f[m] \in Seq(S) /\ ss[m + 1] \in Seq(S) /\ f[m + 1] = f[m] \o ss[m + 1]
        <5>1. f[m + 1] = f[m] \o ss[m + 1]
          BY <3>1, <4>1
        <5>2. f[m] \in Seq(S)
          BY <4>1
        <5>3. ss[m + 1] \in Seq(S)
          OBVIOUS
        <5> QED
          BY <5>1, <5>2, <5>3
      <4>3. Gates!Range(f[m + 1]) = Gates!Range(f[m]) \cup Gates!Range(ss[m + 1])
        BY <4>2, RangeConcat
      <4>4. x \in Gates!Range(f[m]) <=> \E i \in 1..m : x \in Gates!Range(ss[i])
        BY <4>1
      <4>5. 1..(m + 1) = (1..m) \cup {m + 1}
        OBVIOUS
      <4> QED
        BY <4>3, <4>4, <4>5
    <3> QED
      BY <3>2, <3>3
  <2>5. T = Nat
    BY <2>3, <2>4, Induction
  <2> QED
    BY <2>1, <2>2, <2>5
<1> QED
  BY <1>1, <1>2

\* The places of a sequence that hold a member of a set.
Held(s, P) == {i \in DOMAIN s : s[i] \in P}

\* A filter keeps the members that are in the set, and counts them.
LEMMA ChosenFacts ==
  ASSUME NEW S, NEW s \in Seq(S), NEW P
  PROVE  /\ Gates!Chosen(s, P) \in Seq(S)
         /\ \A x : x \in Gates!Range(Gates!Chosen(s, P)) <=> x \in Gates!Range(s) /\ x \in P
         /\ Len(Gates!Chosen(s, P)) = Cardinality(Held(s, P))
<1> DEFINE n == Len(s)
           one(i) == IF s[i] \in P THEN <<s[i]>> ELSE <<>>
           ss == [i \in DOMAIN s |-> one(i)]
<1>1. n \in Nat /\ DOMAIN s = 1..n /\ Gates!Chosen(s, P) = Gates!FlattenSeq(ss)
  BY DEF Gates!Chosen
<1>2. \A i \in 1..n : s[i] \in S /\ one(i) \in Seq(S)
  BY <1>1
<1>3. ss \in Seq(Seq(S)) /\ Len(ss) = n /\ \A i \in 1..n : ss[i] = one(i)
  BY <1>1, <1>2
<1>4. \A i \in 1..n : Gates!Range(one(i)) = IF s[i] \in P THEN {s[i]} ELSE {}
  BY DEF Gates!Range
<1> HIDE DEF one, ss
<1>5. Gates!Range(Gates!FlattenSeq(ss)) = {x \in Gates!Range(s) : x \in P}
  <2>1. \A x : x \in Gates!Range(Gates!FlattenSeq(ss)) <=> \E i \in 1..n : x \in Gates!Range(one(i))
    BY <1>3, FlattenRange
  <2>2. \A x : x \in Gates!Range(Gates!FlattenSeq(ss)) <=> \E i \in 1..n : x = s[i] /\ s[i] \in P
    BY <1>4, <2>1
  <2>3. \A x : x \in Gates!Range(s) <=> \E i \in 1..n : x = s[i]
    BY <1>1 DEF Gates!Range
  <2> HIDE DEF n
  <2>4. \A x : x \in Gates!Range(s) /\ x \in P <=> \E i \in 1..n : x = s[i] /\ s[i] \in P
    BY <2>3
  <2> QED
    BY <2>2, <2>4
<1>6. Len(Gates!FlattenSeq(ss)) = Cardinality({i \in 1..n : s[i] \in P})
  <2>1. CASE n = 0
    <3>1. ss = <<>> /\ {i \in 1..n : s[i] \in P} = {}
      BY <1>3, <2>1
    <3> QED
      BY <3>1, FS_EmptySet DEF Gates!FlattenSeq
  <2>2. CASE n # 0
    <3>1. n > 0 /\ n \in 1..n
      BY <1>1, <2>2
    <3>2. PICK f \in [1..n -> Seq(S)] : Joins(f, ss, n) /\ Gates!FlattenSeq(ss) = f[n]
      BY <1>3, <3>1, FlattenIsJoin
    <3> DEFINE held(m) == {i \in 1..m : s[i] \in P}
               T == {m \in Nat : m \in 1..n => Len(f[m]) = Cardinality(held(m))}
    <3>3. \A m \in Nat : IsFiniteSet(held(m)) /\ Cardinality(held(m)) \in Nat
      <4>1. \A m \in Nat : IsFiniteSet(1..m)
        BY FS_Interval
      <4> QED
        BY <4>1, FS_Subset, FS_CardinalityType
    <3>4. held(0) = {} /\ Cardinality(held(0)) = 0
      BY FS_EmptySet
    <3>5. ASSUME NEW m \in Nat, m + 1 \in 1..n
          PROVE  Cardinality(held(m + 1)) = Cardinality(held(m)) + Len(one(m + 1))
      <4>1. CASE s[m + 1] \in P
        <5>1. held(m + 1) = held(m) \cup {m + 1} /\ m + 1 \notin held(m)
          <6>1. 1..(m + 1) = (1..m) \cup {m + 1} /\ m + 1 \notin 1..m
            OBVIOUS
          <6> QED
            BY <4>1, <6>1
        <5>2. Len(one(m + 1)) = 1
          BY <4>1 DEF one
        <5> HIDE DEF held
        <5> QED
          BY <3>3, <5>1, <5>2, FS_AddElement
      <4>2. CASE s[m + 1] \notin P
        <5>1. held(m + 1) = held(m)
          <6>1. 1..(m + 1) = (1..m) \cup {m + 1}
            OBVIOUS
          <6> QED
            BY <4>2, <6>1
        <5>2. Len(one(m + 1)) = 0
          BY <4>2 DEF one
        <5> HIDE DEF held
        <5> QED
          BY <3>3, <5>1, <5>2
      <4> QED
        BY <4>1, <4>2
    <3> HIDE DEF held
    <3>6. 0 \in T
      BY <3>1
    <3>7. ASSUME NEW m \in T PROVE m + 1 \in T
      <4> SUFFICES ASSUME m + 1 \in 1..n PROVE Len(f[m + 1]) = Cardinality(held(m + 1))
        OBVIOUS
      <4>1. f[m + 1] = IF m + 1 = 1 THEN one(m + 1) ELSE f[(m + 1) - 1] \o one(m + 1)
        BY <1>3, <3>2 DEF Joins
      <4>2. Cardinality(held(m + 1)) = Cardinality(held(m)) + Len(one(m + 1))
        BY <3>5
      <4>3. CASE m = 0
        <5>1. f[m + 1] = one(m + 1) /\ Len(one(m + 1)) \in Nat
          BY <1>2, <4>1, <4>3
        <5> QED
          BY <3>4, <4>2, <4>3, <5>1
      <4>4. CASE m # 0
        <5>1. m \in 1..n /\ (m + 1) - 1 = m /\ m + 1 # 1
          BY <3>1, <4>4
        <5>2. f[m] \in Seq(S) /\ one(m + 1) \in Seq(S) /\ f[m + 1] = f[m] \o one(m + 1)
          BY <1>2, <4>1, <5>1
        <5>3. Len(f[m + 1]) = Len(f[m]) + Len(one(m + 1))
          BY <5>2
        <5> QED
          BY <4>2, <5>1, <5>3
      <4> QED
        BY <4>3, <4>4
    <3>8. T = Nat
      <4>1. T \in SUBSET Nat
        OBVIOUS
      <4> HIDE DEF T
      <4> QED
        BY <3>6, <3>7, <4>1, Induction
    <3>9. Len(f[n]) = Cardinality(held(n))
      BY <3>1, <3>8
    <3> QED
      BY <3>2, <3>9 DEF held
  <2> QED
    BY <2>1, <2>2
<1>7. Held(s, P) = {i \in 1..n : s[i] \in P}
  BY <1>1 DEF Held
<1> QED
  BY <1>1, <1>3, <1>5, <1>6, <1>7, FlattenRange

-----------------------------------------------------------------------------
(***************************************************************************)
(* Project hooks: for all configuration files, whatever they hold.         *)
(***************************************************************************)

\* The hooks that the files can declare.
HookDefs == UNION {Gates!Range(c.defs) : c \in Contents}
Hooks == UNION {Gates!Range(Gates!Flatten(d)) : d \in HookDefs}
GateResults == [hook : Hooks, good : BOOLEAN]

\* What the constants are: the files come in an order, a file holds a list of
\* definitions and a definition a list of handlers.
HookConstants ==
  /\ Files \in Seq(Gates!Range(Files))
  /\ \A c \in Contents : c.defs \in Seq(Gates!Range(c.defs))
  /\ \A d \in HookDefs : d.handlers \in Seq(Gates!Range(d.handlers))
  /\ MaxHookCount \in Nat /\ MaxCalls \in Nat /\ MaxEdits \in Nat

\* The chain of an event, and the tool it is matched with.
ChainOf(type, tool) ==
  Gates!Chosen(snap.hooks, {h \in Gates!Range(snap.hooks) : h.type = type /\ Gates!Matches(h, tool)})
EventType == IF phase = "tool" THEN "pre_tool_use" ELSE Gates!ChainType
EventTool == IF phase \in {"pre", "tool", "post"} THEN hookCall ELSE "none"
Events == {"start", "pre", "tool", "post", "end", "ended"}

\* What the load left: every handler of every file that could be read.
Loaded ==
  /\ \A f \in Gates!Range(Files) : atLoad[f].state # "broken"
  /\ \A f \in Gates!Range(Files) : atLoad[f].state = "ok" =>
       \A d \in Gates!Range(atLoad[f].defs) : Gates!Range(Gates!Flatten(d)) \subseteq Gates!Range(snap.hooks)
  /\ \A h \in Gates!Range(snap.hooks) :
       h.type \notin {"pre_tool_use", "post_tool_use"} => h.matcher.kind = "any"

\* How far a chain is: the hooks that ran and those still to run are the chain.
GateProgress ==
  LET all == ChainOf(EventType, EventTool)
  IN /\ Len(ran) + Len(chain) = Len(all)
     /\ \A k \in 1..Len(ran) : ran[k].hook = all[k]
     /\ \A k \in 1..Len(chain) : chain[k] = all[Len(ran) + k]

\* The conjuncts of the invariant about the chain, the event it serves and
\* what ran of it.
ChainInv ==
  /\ phase \in Events /\ verdict = "open" =>
       snap.failure = "none" /\ GateProgress /\ Gates!RuntimeFailure = "none" /\ hookMode # "read-only"
  /\ phase \in {"load", "begin"} => chain = <<>>
  /\ verdict # "open" \/ phase \in {"load", "begin"} => chain = <<>>
  /\ phase \in {"start", "post", "end", "ended"} => verdict # "block"
  /\ phase \in Events /\ verdict = "allow" => ran = <<>>
  /\ phase \in {"pre", "tool"} /\ verdict = "allow" =>
       snap.failure = "none" /\ ChainOf(EventType, EventTool) = <<>>
  /\ phase \in {"pre", "tool"} /\ verdict # "block" => \A k \in 1..Len(ran) : ran[k].good
  /\ phase \in {"idle", "tool", "ended"} => chain = <<>>
  /\ phase = "tool" => verdict # "block"
  /\ phase \in {"end", "ended"} /\ verdict = "allow" /\ hookMode # "read-only"
       /\ Gates!RuntimeFailure = "none" /\ pathFits => ChainOf(EventType, EventTool) = <<>>

\* The inductive invariant of a run with hooks.
HookInv ==
  /\ Gates!HookTypeOK
  /\ files \in [Gates!Range(Files) -> Contents] /\ atLoad \in [Gates!Range(Files) -> Contents]
  /\ snap \in [failure : {"none", "config"}, hooks : Seq(Hooks)]
  /\ chain \in Seq(Hooks) /\ ran \in Seq(GateResults)
  /\ phase # "load" /\ snap.failure = "none" => Loaded
  /\ snap.failure = "none" \/ snap.hooks = <<>>
  /\ ChainInv
  /\ toolRuns # {} => phase # "load"
  /\ Gates!ToolPassedItsHooks /\ Gates!HookProcessesConfined

\* The chain of an event is a sequence of the hooks that match it.
LEMMA ChainFacts ==
  ASSUME snap.hooks \in Seq(Hooks), NEW type, NEW tool
  PROVE  /\ ChainOf(type, tool) \in Seq(Hooks)
         /\ \A h : h \in Gates!Range(ChainOf(type, tool)) <=>
              h \in Gates!Range(snap.hooks) /\ h.type = type /\ Gates!Matches(h, tool)
         /\ Len(ChainOf(type, tool)) =
              Cardinality({i \in DOMAIN snap.hooks : snap.hooks[i].type = type /\ Gates!Matches(snap.hooks[i], tool)})
<1> DEFINE P == {h \in Gates!Range(snap.hooks) : h.type = type /\ Gates!Matches(h, tool)}
<1>1. /\ Gates!Chosen(snap.hooks, P) \in Seq(Hooks)
      /\ \A x : x \in Gates!Range(Gates!Chosen(snap.hooks, P)) <=> x \in Gates!Range(snap.hooks) /\ x \in P
      /\ Len(Gates!Chosen(snap.hooks, P)) = Cardinality(Held(snap.hooks, P))
  <2> HIDE DEF P
  <2> QED
    BY ChosenFacts
<1>2. Held(snap.hooks, P)
        = {i \in DOMAIN snap.hooks : snap.hooks[i].type = type /\ Gates!Matches(snap.hooks[i], tool)}
  <2>1. \A i \in DOMAIN snap.hooks : snap.hooks[i] \in Gates!Range(snap.hooks)
    BY DEF Gates!Range
  <2> QED
    BY <2>1 DEF Held
<1> QED
  BY <1>1, <1>2 DEF ChainOf

\* ExecuteContext refuses, finds nothing to run, or starts the chain.
LEMMA ExecuteFacts ==
  ASSUME snap.hooks \in Seq(Hooks), NEW type, NEW tool, NEW ended,
         Gates!ExecuteContext(type, tool, ended)
  PROVE  \/ type = "pre_tool_use" /\ Gates!NoChain("block")
         \/ /\ type # "pre_tool_use" /\ Gates!NoChain("allow")
            /\ \/ snap.failure # "none" \/ hookMode = "read-only" \/ ended \/ ~pathFits
               \/ Gates!RuntimeFailure # "none"
         \/ Gates!NoChain("allow") /\ snap.failure = "none" /\ ChainOf(type, tool) = <<>>
         \/ /\ chain' = ChainOf(type, tool) /\ ran' = <<>> /\ verdict' = "open"
            /\ snap.failure = "none" /\ hookMode # "read-only" /\ Gates!RuntimeFailure = "none"
<1> DEFINE P == {h \in Gates!Range(snap.hooks) : h.type = type}
           candidates == Gates!Chosen(snap.hooks, P)
           matching == Gates!Chosen(snap.hooks, {h \in Gates!Range(candidates) : Gates!Matches(h, tool)})
<1>1. \A h : h \in Gates!Range(candidates) <=> h \in Gates!Range(snap.hooks) /\ h.type = type
  <2>1. \A x : x \in Gates!Range(Gates!Chosen(snap.hooks, P)) <=> x \in Gates!Range(snap.hooks) /\ x \in P
    <3> HIDE DEF P
    <3> QED
      BY ChosenFacts
  <2> QED
    BY <2>1
<1>2. {h \in Gates!Range(candidates) : Gates!Matches(h, tool)}
        = {h \in Gates!Range(snap.hooks) : h.type = type /\ Gates!Matches(h, tool)}
  BY <1>1
<1>3. matching = ChainOf(type, tool)
  BY <1>2 DEF ChainOf
<1>4. candidates = <<>> => ChainOf(type, tool) = <<>>
  <2> SUFFICES ASSUME candidates = <<>> PROVE ChainOf(type, tool) = <<>>
    OBVIOUS
  <2>1. Gates!Range(candidates) = {}
    BY DEF Gates!Range
  <2>2. Gates!Range(ChainOf(type, tool)) = {} /\ ChainOf(type, tool) \in Seq(Hooks)
    BY <1>1, <2>1, ChainFacts
  <2> QED
    BY <2>2, EmptyRange
<1> HIDE DEF candidates, matching
<1>5. IF snap.failure # "none" THEN Gates!Refused(type)
      ELSE IF candidates = <<>> THEN Gates!NoChain("allow")
      ELSE IF hookMode = "read-only" \/ ended \/ ~pathFits THEN Gates!Refused(type)
      ELSE IF matching = <<>> THEN Gates!NoChain("allow")
      ELSE IF Gates!RuntimeFailure # "none" THEN Gates!Refused(type)
      ELSE chain' = matching /\ ran' = <<>> /\ verdict' = "open"
  BY DEF Gates!ExecuteContext, candidates, matching
<1>6. Gates!Refused(type) => IF type = "pre_tool_use" THEN Gates!NoChain("block") ELSE Gates!NoChain("allow")
  BY DEF Gates!Refused
<1> HIDE DEF Gates!NoChain
<1> QED
  BY <1>3, <1>4, <1>5, <1>6

\* The hooks of one definition.
LEMMA FlattenFacts ==
  ASSUME HookConstants, NEW c \in Contents, NEW i \in DOMAIN c.defs
  PROVE  /\ c.defs[i] \in HookDefs
         /\ Gates!Flatten(c.defs[i]) \in Seq(Hooks)
<1> DEFINE d == c.defs[i]
<1>1. d \in HookDefs
  BY DEF HookDefs, Gates!Range
<1>2. d.handlers \in Seq(Gates!Range(d.handlers))
  BY <1>1 DEF HookConstants
<1>3. \A j \in DOMAIN d.handlers : Gates!Flatten(d)[j] \in Gates!Range(Gates!Flatten(d))
  BY DEF Gates!Flatten, Gates!Range
<1>4. Gates!Range(Gates!Flatten(d)) \subseteq Hooks
  BY <1>1 DEF Hooks
<1>5. Len(d.handlers) \in Nat /\ DOMAIN d.handlers = 1..Len(d.handlers)
  BY <1>2
<1>6. Gates!Flatten(d) \in [1..Len(d.handlers) -> Hooks]
  BY <1>3, <1>4, <1>5 DEF Gates!Flatten
<1> QED
  BY <1>1, <1>5, <1>6

\* The hooks of one file.
LEMMA DeclaredFacts ==
  ASSUME HookConstants, files \in [Gates!Range(Files) -> Contents], NEW f \in Gates!Range(Files)
  PROVE  /\ Gates!Declared(f) \in Seq(Hooks)
         /\ \A x : x \in Gates!Range(Gates!Declared(f)) <=>
              files[f].state = "ok" /\ \E d \in Gates!Range(files[f].defs) : x \in Gates!Range(Gates!Flatten(d))
<1> DEFINE c == files[f]
           ss == [i \in DOMAIN c.defs |-> Gates!Flatten(c.defs[i])]
<1>1. c \in Contents /\ c.defs \in Seq(Gates!Range(c.defs))
  BY DEF HookConstants
<1>2. Len(c.defs) \in Nat /\ DOMAIN c.defs = 1..Len(c.defs)
  BY <1>1
<1>3. \A i \in 1..Len(c.defs) : Gates!Flatten(c.defs[i]) \in Seq(Hooks)
  BY <1>1, <1>2, FlattenFacts
<1>4. ss \in Seq(Seq(Hooks)) /\ Len(ss) = Len(c.defs) /\ \A i \in 1..Len(c.defs) : ss[i] = Gates!Flatten(c.defs[i])
  BY <1>2, <1>3
<1>5. /\ Gates!FlattenSeq(ss) \in Seq(Hooks)
      /\ \A x : x \in Gates!Range(Gates!FlattenSeq(ss)) <=> \E i \in 1..Len(ss) : x \in Gates!Range(ss[i])
  <2> HIDE DEF ss
  <2> QED
    BY <1>4, FlattenRange
<1>6. CASE c.state = "ok"
  <2>1. Gates!Declared(f) = Gates!FlattenSeq(ss)
    BY <1>6 DEF Gates!Declared
  <2>2. \A x : (\E i \in 1..Len(ss) : x \in Gates!Range(ss[i])) <=> \E d \in Gates!Range(c.defs) : x \in Gates!Range(Gates!Flatten(d))
    BY <1>2, <1>4 DEF Gates!Range
  <2> HIDE DEF ss
  <2> QED
    BY <1>5, <1>6, <2>1, <2>2
<1>7. CASE c.state # "ok"
  <2>1. Gates!Declared(f) = <<>>
    BY <1>7 DEF Gates!Declared
  <2> QED
    BY <1>7, <2>1 DEF Gates!Range
<1> QED
  BY <1>6, <1>7

\* What Load takes from the files it reads.
LEMMA LoadFacts ==
  ASSUME HookConstants, files \in [Gates!Range(Files) -> Contents], Gates!Load
  PROVE  /\ snap' \in [failure : {"none", "config"}, hooks : Seq(Hooks)]
         /\ snap'.failure = "none" \/ snap'.hooks = <<>>
         /\ Len(snap'.hooks) <= MaxHookCount
         /\ \A h \in Gates!Range(snap'.hooks) : h.type \in Gates!Types /\ h.matcher.kind # "invalid"
         /\ snap'.failure = "none" => Loaded'
<1> DEFINE ss == [i \in DOMAIN Files |-> Gates!Declared(Files[i])]
           all == Gates!FlattenSeq(ss)
<1>1. Len(Files) \in Nat /\ DOMAIN Files = 1..Len(Files) /\ \A i \in 1..Len(Files) : Files[i] \in Gates!Range(Files)
  BY DEF HookConstants, Gates!Range
<1>2. \A i \in 1..Len(Files) : Gates!Declared(Files[i]) \in Seq(Hooks)
  BY <1>1, DeclaredFacts
<1>3. ss \in Seq(Seq(Hooks)) /\ Len(ss) = Len(Files) /\ \A i \in 1..Len(Files) : ss[i] = Gates!Declared(Files[i])
  BY <1>1, <1>2
<1>4. /\ all \in Seq(Hooks)
      /\ \A x : x \in Gates!Range(all) <=> \E i \in 1..Len(ss) : x \in Gates!Range(ss[i])
  <2> HIDE DEF ss
  <2> QED
    BY <1>3, FlattenRange
<1>5. \A x : x \in Gates!Range(all) <=> \E f \in Gates!Range(Files) : x \in Gates!Range(Gates!Declared(f))
  <2>1. \A f : f \in Gates!Range(Files) <=> \E i \in 1..Len(Files) : f = Files[i]
    BY <1>1 DEF Gates!Range
  <2> HIDE DEF ss, all
  <2> QED
    BY <1>3, <1>4, <2>1
<1>6. snap' = IF (\E f \in Gates!Range(Files) : ~Gates!Readable(f)) \/ Len(all) > MaxHookCount
              THEN [failure |-> "config", hooks |-> <<>>]
              ELSE [failure |-> "none", hooks |-> all]
  BY DEF Gates!Load, Gates!loadRegistrySnapshot
<1>7. atLoad' = files
  BY DEF Gates!Load
<1> HIDE DEF ss, all
<1>8. CASE snap' = [failure |-> "config", hooks |-> <<>>]
  BY <1>8 DEF HookConstants, Gates!Range
<1>9. CASE snap' # [failure |-> "config", hooks |-> <<>>]
  <2>1. /\ snap' = [failure |-> "none", hooks |-> all] /\ ~(Len(all) > MaxHookCount)
        /\ \A f \in Gates!Range(Files) : Gates!Readable(f)
    BY <1>6, <1>9
  <2>2. Len(all) <= MaxHookCount
    BY <1>4, <2>1 DEF HookConstants
  <2>3. ASSUME NEW h \in Gates!Range(all)
        PROVE  /\ h.type \in Gates!Types /\ h.matcher.kind # "invalid"
               /\ h.type \notin {"pre_tool_use", "post_tool_use"} => h.matcher.kind = "any"
    <3>1. PICK f \in Gates!Range(Files) : h \in Gates!Range(Gates!Declared(f))
      BY <1>5
    <3>2. PICK d \in Gates!Range(files[f].defs) : h \in Gates!Range(Gates!Flatten(d))
      BY <3>1, DeclaredFacts
    <3>3. Gates!ValidDefinition(d)
      BY <2>1, <3>2 DEF Gates!Readable, Gates!Range
    <3>4. h.type = d.type /\ h.matcher = d.matcher
      <4>1. PICK j \in DOMAIN Gates!Flatten(d) : h = Gates!Flatten(d)[j]
        BY <3>2 DEF Gates!Range
      <4>2. Gates!Flatten(d)[j] = [type |-> d.type, matcher |-> d.matcher, form |-> d.handlers[j]]
        BY <4>1 DEF Gates!Flatten
      <4> QED
        BY <4>1, <4>2
    <3> QED
      BY <3>3, <3>4 DEF Gates!ValidDefinition
  <2>4. ASSUME NEW f \in Gates!Range(Files), files[f].state = "ok", NEW d \in Gates!Range(files[f].defs)
        PROVE  Gates!Range(Gates!Flatten(d)) \subseteq Gates!Range(all)
    BY <1>5, <2>4, DeclaredFacts
  <2>5. \A f \in Gates!Range(Files) : files[f].state # "broken"
    BY <2>1 DEF Gates!Readable
  <2>6. snap'.hooks = all /\ snap'.failure = "none"
    BY <2>1
  <2>7. Loaded'
    BY <1>7, <2>3, <2>4, <2>5, <2>6 DEF Loaded
  <2> QED
    BY <1>4, <2>1, <2>2, <2>3, <2>7
<1> QED
  BY <1>8, <1>9
\* Every tool that ran passed the hooks that were loaded for it.
LEMMA PassedWhenChainGood ==
  ASSUME HookConstants, atLoad \in [Gates!Range(Files) -> Contents], snap.hooks \in Seq(Hooks), Loaded,
         ran \in Seq(GateResults), NEW tool,
         \A h \in Gates!Range(snap.hooks) : h.type = "pre_tool_use" /\ Gates!Matches(h, tool)
            => \E k \in 1..Len(ran) : ran[k].hook = h,
         NEW f \in DOMAIN atLoad, NEW i \in DOMAIN atLoad[f].defs,
         atLoad[f].state = "ok", atLoad[f].defs[i].type = "pre_tool_use",
         atLoad[f].defs[i].matcher.kind = "any" \/ tool \in atLoad[f].defs[i].matcher.tools,
         NEW j \in DOMAIN atLoad[f].defs[i].handlers
  PROVE  \E k \in DOMAIN ran : /\ ran[k].hook.matcher = atLoad[f].defs[i].matcher
                               /\ ran[k].hook.form = atLoad[f].defs[i].handlers[j]
<1> DEFINE d == atLoad[f].defs[i]
           h == [type |-> d.type, matcher |-> d.matcher, form |-> d.handlers[j]]
<1>1. f \in Gates!Range(Files) /\ d \in Gates!Range(atLoad[f].defs)
  BY DEF Gates!Range
<1>2. h \in Gates!Range(Gates!Flatten(d))
  <2>1. j \in DOMAIN Gates!Flatten(d) /\ Gates!Flatten(d)[j] = h
    BY DEF Gates!Flatten
  <2> QED
    BY <2>1 DEF Gates!Range
<1>3. h \in Gates!Range(snap.hooks)
  BY <1>1, <1>2 DEF Loaded
<1>4. h.type = "pre_tool_use" /\ Gates!Matches(h, tool) /\ h.matcher = d.matcher /\ h.form = d.handlers[j]
  BY DEF Gates!Matches
<1>5. PICK k \in 1..Len(ran) : ran[k].hook = h
  BY <1>3, <1>4
<1>6. DOMAIN ran = 1..Len(ran)
  OBVIOUS
<1> QED
  BY <1>4, <1>5, <1>6

\* A chain that is over ran every hook of its event.
LEMMA ChainRan ==
  ASSUME snap.hooks \in Seq(Hooks), ran \in Seq(GateResults), chain = <<>>, GateProgress
  PROVE  /\ Len(ran) = Len(ChainOf(EventType, EventTool))
         /\ \A h \in Gates!Range(ChainOf(EventType, EventTool)) : \E k \in 1..Len(ran) : ran[k].hook = h
<1> DEFINE all == ChainOf(EventType, EventTool)
<1>1. all \in Seq(Hooks)
  BY ChainFacts
<1>2. Len(ran) = Len(all) /\ \A k \in 1..Len(ran) : ran[k].hook = all[k]
  BY <1>1 DEF GateProgress
<1>3. ASSUME NEW h \in Gates!Range(all) PROVE \E k \in 1..Len(ran) : ran[k].hook = h
  <2>1. PICK k \in DOMAIN all : h = all[k]
    BY DEF Gates!Range
  <2> HIDE DEF all
  <2>2. k \in 1..Len(all)
    BY <1>1, <2>1
  <2> QED
    BY <1>2, <2>1, <2>2
<1> QED
  BY <1>2, <1>3
\* What a step that keeps the policy and the snapshot keeps.
LEMMA QuietKeeps ==
  ASSUME Gates!Quiet
  PROVE  /\ Gates!RuntimeFailure' = Gates!RuntimeFailure /\ hookMode' = hookMode /\ pathFits' = pathFits
         /\ snap' = snap /\ atLoad' = atLoad /\ files' = files
         /\ (Loaded <=> Loaded')
         /\ \A t, u : ChainOf(t, u)' = ChainOf(t, u)
BY DEF Gates!Quiet, Gates!Fixed, Gates!RuntimeFailure, Loaded, ChainOf

\* The invariant of the chain after ExecuteContext.
LEMMA AfterExecute ==
  ASSUME HookInv, Gates!Quiet, NEW type, NEW tool, NEW ended, Gates!ExecuteContext(type, tool, ended),
         phase' \in {"start", "pre", "post", "end"},
         EventType' = type, EventTool' = tool,
         phase' = "pre" <=> type = "pre_tool_use", phase' = "end" => ~ended
  PROVE  ChainInv' /\ chain' \in Seq(Hooks) /\ ran' \in Seq(GateResults) /\
          verdict' \in {"open", "allow", "block"}
<1>1. snap.hooks \in Seq(Hooks) /\ (snap.failure = "none" \/ snap.hooks = <<>>)
  BY DEF HookInv
<1>2. /\ Gates!RuntimeFailure' = Gates!RuntimeFailure /\ hookMode' = hookMode /\ pathFits' = pathFits /\ snap' = snap
      /\ ChainOf(EventType, EventTool)' = ChainOf(type, tool)
  <2>1. \A t, u : ChainOf(t, u)' = ChainOf(t, u)
    BY QuietKeeps
  <2>2. ChainOf(EventType, EventTool)' = ChainOf(type, tool)'
    BY DEF ChainOf
  <2> QED
    BY <2>1, <2>2, QuietKeeps
<1>3. ChainOf(type, tool) \in Seq(Hooks)
  BY <1>1, ChainFacts
<1>4. snap.failure # "none" => ChainOf(type, tool) = <<>>
  <2> SUFFICES ASSUME snap.failure # "none" PROVE ChainOf(type, tool) = <<>>
    OBVIOUS
  <2>1. \A h : h \notin Gates!Range(snap.hooks)
    BY <1>1 DEF Gates!Range
  <2>2. \A h : h \notin Gates!Range(ChainOf(type, tool))
    BY <1>1, <2>1, ChainFacts
  <2> QED
    BY <1>3, <2>2, EmptyRange
<1>5. CASE type = "pre_tool_use" /\ Gates!NoChain("block")
  BY <1>2, <1>5 DEF Gates!NoChain, ChainInv, Events
<1>6. CASE /\ type # "pre_tool_use" /\ Gates!NoChain("allow")
           /\ \/ snap.failure # "none" \/ hookMode = "read-only" \/ ended \/ ~pathFits
              \/ Gates!RuntimeFailure # "none"
  BY <1>2, <1>4, <1>6 DEF Gates!NoChain, ChainInv, Events
<1>7. CASE Gates!NoChain("allow") /\ snap.failure = "none" /\ ChainOf(type, tool) = <<>>
  BY <1>2, <1>7 DEF Gates!NoChain, ChainInv, Events
<1>8. CASE /\ chain' = ChainOf(type, tool) /\ ran' = <<>> /\ verdict' = "open"
           /\ snap.failure = "none" /\ hookMode # "read-only" /\ Gates!RuntimeFailure = "none"
  <2>1. GateProgress'
    <3>1. Len(ran') = 0 /\ \A k : k \notin 1..Len(ran')
      BY <1>8
    <3>2. \A k \in 1..Len(chain') : Len(ran') + k = k
      BY <3>1
    <3>3. Len(ran') + Len(chain') = Len(ChainOf(type, tool))
      BY <1>3, <1>8, <3>1
    <3> QED
      BY <1>2, <1>8, <3>1, <3>2, <3>3 DEF GateProgress
  <2> QED
    BY <1>2, <1>3, <1>8, <2>1 DEF ChainInv, Events
<1> QED
  BY <1>1, <1>5, <1>6, <1>7, <1>8, ExecuteFacts

\* A hook that runs leaves its chain one hook shorter, or ends it.
LEMMA RunHookKeeps ==
  ASSUME HookInv, NEW o \in Gates!Outcomes, Gates!runHook(o)
  PROVE  ChainInv' /\ chain' \in Seq(Hooks) /\ ran' \in Seq(GateResults) /\
          verdict' \in {"open", "allow", "block"}
<1> DEFINE all == ChainOf(EventType, EventTool)
           result == [hook |-> Head(chain), good |-> o.end = "ok" /\ o.evidence]
           failed == Gates!classifyHookFailure(o) # "none"
<1>1. /\ phase \in {"start", "pre", "post", "end"} /\ phase' = phase /\ hookCall' = hookCall
      /\ chain # <<>> /\ chain \in Seq(Hooks) /\ ran \in Seq(GateResults) /\ verdict = "open"
      /\ snap.failure = "none" /\ GateProgress /\ Gates!RuntimeFailure = "none" /\ hookMode # "read-only"
      /\ Gates!Quiet /\ snap.hooks \in Seq(Hooks)
  BY DEF HookInv, Gates!HookTypeOK, ChainInv, Events, Gates!runHook
<1>2. /\ Gates!RuntimeFailure' = Gates!RuntimeFailure /\ hookMode' = hookMode /\ pathFits' = pathFits /\ snap' = snap
      /\ EventType' = EventType /\ EventTool' = EventTool
  BY <1>1, QuietKeeps DEF EventType, EventTool, Gates!ChainType
<1>3. ChainOf(EventType, EventTool)' = all
  BY <1>2 DEF ChainOf
<1>4. Head(chain) \in Hooks /\ Tail(chain) \in Seq(Hooks) /\ Len(Tail(chain)) = Len(chain) - 1
  BY <1>1
<1>5. ran' = Append(ran, result) /\ result \in GateResults
  BY <1>4 DEF Gates!runHook, GateResults
<1>6. ran' \in Seq(GateResults) /\ Len(ran') = Len(ran) + 1
  BY <1>1, <1>5
<1>7. failed \/ result.good
  BY DEF Gates!classifyHookFailure, Gates!Outcomes
<1>8. CASE Gates!StopsChain(Gates!ChainType, failed)
  <2>1. chain' = <<>> /\ verdict' = "block" /\ phase = "pre"
    BY <1>1, <1>8 DEF Gates!runHook, Gates!StopsChain, Gates!ChainType
  <2> QED
    BY <1>1, <1>6, <2>1 DEF ChainInv, Events
<1>9. CASE ~Gates!StopsChain(Gates!ChainType, failed)
  <2>1. chain' = Tail(chain) /\ verdict' = "open"
    BY <1>1, <1>9 DEF Gates!runHook
  <2>2. phase = "pre" => \A k \in 1..Len(ran') : ran'[k].good
    <3> SUFFICES ASSUME phase = "pre", NEW k \in 1..Len(ran') PROVE ran'[k].good
      OBVIOUS
    <3>1. result.good
      BY <1>7, <1>9 DEF Gates!StopsChain, Gates!ChainType
    <3>2. \A i \in 1..Len(ran) : ran[i].good
      BY <1>1 DEF HookInv, ChainInv
    <3>3. IF k <= Len(ran) THEN ran'[k] = ran[k] ELSE ran'[k] = result
      BY <1>1, <1>5, <1>6
    <3> QED
      BY <1>1, <1>6, <3>1, <3>2, <3>3
  <2>3. all \in Seq(Hooks) /\ Len(ran) + Len(chain) = Len(all)
    BY <1>1, ChainFacts DEF GateProgress
  <2>4. chain[1] = Head(chain) /\ \A k \in 1..Len(Tail(chain)) : Tail(chain)[k] = chain[k + 1]
    BY <1>1
  <2> HIDE DEF all, result
  <2>5. Len(ran') + Len(chain') = Len(all)
    BY <1>1, <1>4, <1>6, <2>1, <2>3
  <2>6. ASSUME NEW k \in 1..Len(ran') PROVE ran'[k].hook = all[k]
    <3>1. CASE k <= Len(ran)
      <4>1. ran'[k] = ran[k] /\ k \in 1..Len(ran)
        BY <1>1, <1>5, <1>6, <3>1
      <4> QED
        BY <1>1, <4>1 DEF GateProgress, all
    <3>2. CASE k > Len(ran)
      <4>1. k = Len(ran) + 1 /\ ran'[k] = result
        BY <1>1, <1>5, <1>6, <3>2
      <4>2. 1 \in 1..Len(chain)
        BY <1>1
      <4>3. chain[1] = all[Len(ran) + 1]
        BY <1>1, <4>2 DEF GateProgress, all
      <4>4. result.hook = Head(chain)
        BY DEF result
      <4> QED
        BY <2>4, <4>1, <4>3, <4>4
    <3> QED
      BY <1>1, <1>6, <3>1, <3>2
  <2>7. ASSUME NEW k \in 1..Len(chain') PROVE chain'[k] = all[Len(ran') + k]
    <3>1. k \in 1..Len(Tail(chain)) /\ k + 1 \in 1..Len(chain)
      BY <1>1, <1>4, <2>1
    <3>2. chain'[k] = chain[k + 1]
      BY <2>1, <2>4, <3>1
    <3>3. chain[k + 1] = all[Len(ran) + (k + 1)]
      BY <1>1, <3>1 DEF GateProgress, all
    <3>4. Len(ran) + (k + 1) = Len(ran') + k
      BY <1>1, <1>6, <3>1
    <3> QED
      BY <3>2, <3>3, <3>4
  <2>8. GateProgress'
    BY <1>3, <2>5, <2>6, <2>7 DEF GateProgress
  <2> QED
    BY <1>1, <1>2, <1>4, <1>6, <2>1, <2>2, <2>8 DEF ChainInv, Events
<1> QED
  BY <1>8, <1>9
\* The invariant holds initially.
LEMMA HookInitially == HookConstants /\ Gates!HookInit => HookInv
<1> SUFFICES ASSUME HookConstants, Gates!HookInit PROVE HookInv
  OBVIOUS
<1>1. Gates!Range(<<>>) = {} /\ <<>> \in Seq(Hooks) /\ <<>> \in Seq(GateResults)
  BY DEF Gates!Range
<1>2. Gates!HookTypeOK
  <2>1. /\ snap.failure = "none" /\ snap.hooks = <<>> /\ phase = "load" /\ canceled = FALSE
        /\ verdict = "open" /\ calls = 0 /\ edits = 0
    BY DEF Gates!HookInit
  <2>2. Gates!Range(snap.hooks) = {} /\ Len(snap.hooks) = 0
    BY <1>1, <2>1
  <2>3. \A h \in Gates!Range(snap.hooks) : h.type \in Gates!Types /\ h.matcher.kind # "invalid"
    BY <2>2
  <2>4. calls \in 0..MaxCalls /\ edits \in 0..MaxEdits /\ Len(snap.hooks) <= MaxHookCount
    BY <2>1, <2>2 DEF HookConstants
  <2>5. /\ phase \in {"load", "begin", "start", "idle", "pre", "tool", "post", "end", "ended"}
        /\ verdict \in {"open", "allow", "block"} /\ canceled \in BOOLEAN
        /\ snap.failure \in {"none", "config"}
    BY <2>1
  <2> QED
    BY <2>1, <2>3, <2>4, <2>5 DEF Gates!HookTypeOK
<1>3. ChainInv
  BY DEF Gates!HookInit, ChainInv, Events
<1> QED
  BY <1>1, <1>2, <1>3 DEF Gates!HookInit, HookInv, Gates!ToolPassedItsHooks, Gates!HookProcessesConfined

\* A step that leaves the tools that ran, what was loaded and the processes as
\* they are keeps the promises about them.
LEMMA PromisesFrame ==
  ASSUME HookInv, UNCHANGED <<atLoad, toolRuns, hookStarted, hookMode>>
  PROVE  Gates!ToolPassedItsHooks' /\ Gates!HookProcessesConfined'
BY DEF HookInv, Gates!ToolPassedItsHooks, Gates!HookProcessesConfined

\* The chain invariant after a step that leaves the chain alone.
LEMMA ChainFrame ==
  ASSUME HookInv, UNCHANGED <<phase, hookCall, chain, ran, verdict, snap, hookMode, box, pathFits>>
  PROVE  ChainInv'
<1>1. Gates!RuntimeFailure' = Gates!RuntimeFailure /\ EventType' = EventType /\ EventTool' = EventTool
  BY DEF Gates!RuntimeFailure, EventType, EventTool, Gates!ChainType
<1>2. ChainOf(EventType, EventTool)' = ChainOf(EventType, EventTool)
  BY <1>1 DEF ChainOf
<1>3. GateProgress <=> GateProgress'
  BY <1>2 DEF GateProgress
<1> QED
  BY <1>1, <1>2, <1>3 DEF HookInv, ChainInv

\* A chain that is over may be left for the next phase of the same event, or
\* for none.
LEMMA ChainDone ==
  ASSUME HookInv, Gates!Quiet, chain = <<>>, UNCHANGED <<hookCall, chain, ran, verdict>>,
         \/ phase' = "idle"
         \/ phase = "pre" /\ phase' = "tool" /\ verdict # "block"
         \/ phase = "end" /\ phase' = "ended"
  PROVE  ChainInv'
<1>1. /\ Gates!RuntimeFailure' = Gates!RuntimeFailure /\ hookMode' = hookMode /\ pathFits' = pathFits /\ snap' = snap
      /\ \A t, u : ChainOf(t, u)' = ChainOf(t, u)
  BY QuietKeeps
<1>2. CASE phase' = "idle"
  BY <1>2 DEF ChainInv, Events
<1>3. CASE \/ phase = "pre" /\ phase' = "tool" /\ verdict # "block"
           \/ phase = "end" /\ phase' = "ended"
  <2>1. EventType' = EventType /\ EventTool' = EventTool
    BY <1>3 DEF EventType, EventTool, Gates!ChainType
  <2>2. ChainOf(EventType, EventTool)' = ChainOf(EventType, EventTool)
    BY <1>1, <2>1 DEF ChainOf
  <2>3. GateProgress <=> GateProgress'
    BY <2>2 DEF GateProgress
  <2> QED
    BY <1>1, <1>3, <2>2, <2>3 DEF HookInv, ChainInv, Events
<1> QED
  BY <1>2, <1>3

\* The promise about tools after the tool of the current call ran.
LEMMA RunToolKeeps ==
  ASSUME HookConstants, HookInv, Gates!RunTool
  PROVE  Gates!ToolPassedItsHooks'
<1>1. /\ phase = "tool" /\ toolRuns' = toolRuns \cup {[tool |-> hookCall, ran |-> ran]} /\ atLoad' = atLoad
      /\ snap.hooks \in Seq(Hooks) /\ ran \in Seq(GateResults) /\ chain = <<>> /\
              verdict \in {"open", "allow"}
      /\ atLoad \in [Gates!Range(Files) -> Contents]
  BY DEF Gates!RunTool, Gates!Quiet, HookInv, Gates!HookTypeOK, ChainInv
<1>2. EventType = "pre_tool_use" /\ EventTool = hookCall
  BY <1>1 DEF EventType, EventTool
<1>3. snap.failure = "none" /\ Loaded
  BY <1>1 DEF HookInv, ChainInv, Events
<1>4. \A h \in Gates!Range(ChainOf("pre_tool_use", hookCall)) : \E k \in 1..Len(ran) : ran[k].hook = h
  <2>1. CASE verdict = "open"
    <3>1. GateProgress
      BY <1>1, <2>1 DEF HookInv, ChainInv, Events
    <3> QED
      BY <1>1, <1>2, <3>1, ChainRan
  <2>2. CASE verdict = "allow"
    <3>1. ChainOf("pre_tool_use", hookCall) = <<>>
      BY <1>1, <1>2, <2>2 DEF HookInv, ChainInv
    <3> QED
      BY <3>1 DEF Gates!Range
  <2> QED
    BY <1>1, <2>1, <2>2
<1>5. \A h \in Gates!Range(snap.hooks) : h.type = "pre_tool_use" /\ Gates!Matches(h, hookCall)
        => \E k \in 1..Len(ran) : ran[k].hook = h
  BY <1>1, <1>4, ChainFacts
<1>6. \A k \in DOMAIN ran : ran[k].good
  <2>1. DOMAIN ran = 1..Len(ran)
    BY <1>1
  <2> QED
    BY <1>1, <2>1 DEF HookInv, ChainInv
<1>7. \A f \in DOMAIN atLoad : atLoad[f].state # "broken"
  BY <1>1, <1>3 DEF Loaded
<1>8. ASSUME NEW f \in DOMAIN atLoad, NEW i \in DOMAIN atLoad[f].defs,
             atLoad[f].state = "ok", atLoad[f].defs[i].type = "pre_tool_use",
             atLoad[f].defs[i].matcher.kind = "any" \/ hookCall \in atLoad[f].defs[i].matcher.tools,
             NEW j \in DOMAIN atLoad[f].defs[i].handlers
      PROVE  \E k \in DOMAIN ran : /\ ran[k].hook.matcher = atLoad[f].defs[i].matcher
                                   /\ ran[k].hook.form = atLoad[f].defs[i].handlers[j]
  BY <1>1, <1>3, <1>5, <1>8, PassedWhenChainGood
<1> SUFFICES ASSUME NEW r \in toolRuns'
             PROVE  /\ \A f \in DOMAIN atLoad : atLoad[f].state # "broken"
                    /\ \A k \in DOMAIN r.ran : r.ran[k].good
                    /\ \A f \in DOMAIN atLoad : \A i \in DOMAIN atLoad[f].defs :
                         LET d == atLoad[f].defs[i]
                         IN (atLoad[f].state = "ok" /\ d.type = "pre_tool_use"
                             /\ (d.matcher.kind = "any" \/ r.tool \in d.matcher.tools))
                            => \A j \in DOMAIN d.handlers :
                                 \E k \in DOMAIN r.ran : r.ran[k].hook.matcher = d.matcher
                                                         /\ r.ran[k].hook.form = d.handlers[j]
  BY <1>1 DEF Gates!ToolPassedItsHooks
<1>9. CASE r \in toolRuns
  BY <1>9 DEF HookInv, Gates!ToolPassedItsHooks
<1>10. CASE r = [tool |-> hookCall, ran |-> ran]
  <2>1. r.tool = hookCall /\ r.ran = ran
    BY <1>10
  <2> QED
    BY <1>6, <1>7, <1>8, <2>1
<1> QED
  BY <1>1, <1>9, <1>10
\* Every step keeps the invariant.
LEMMA HookStep == HookConstants /\ HookInv /\ [Gates!HookNext]_(Gates!hookVars) => HookInv'
<1> SUFFICES ASSUME HookConstants, HookInv, [Gates!HookNext]_(Gates!hookVars) PROVE HookInv'
  OBVIOUS
<1> DEFINE Typed == /\ files \in [Gates!Range(Files) -> Contents] /\ atLoad \in [Gates!Range(Files) -> Contents]
                    /\ snap \in [failure : {"none", "config"}, hooks : Seq(Hooks)]
                    /\ chain \in Seq(Hooks) /\ ran \in Seq(GateResults)
                    /\ (phase # "load" /\ snap.failure = "none" => Loaded)
                    /\ (snap.failure = "none" \/ snap.hooks = <<>>)
                    /\ (toolRuns # {} => phase # "load")
<1>0. Gates!HookTypeOK /\ Typed /\ ChainInv /\ Gates!ToolPassedItsHooks /\ Gates!HookProcessesConfined
  BY DEF HookInv
<1>q. Gates!HookTypeOK' /\ Typed' /\ ChainInv' /\ Gates!ToolPassedItsHooks' /\ Gates!HookProcessesConfined' => HookInv'
  BY DEF HookInv
<1>1. CASE Gates!Load
  <2>1. /\ snap' \in [failure : {"none", "config"}, hooks : Seq(Hooks)]
        /\ snap'.failure = "none" \/ snap'.hooks = <<>>
        /\ Len(snap'.hooks) <= MaxHookCount
        /\ \A h \in Gates!Range(snap'.hooks) : h.type \in Gates!Types /\ h.matcher.kind # "invalid"
        /\ snap'.failure = "none" => Loaded'
    BY <1>0, <1>1, LoadFacts
  <2>2. /\ phase = "load" /\ phase' = "begin" /\ atLoad' = files
        /\ UNCHANGED <<files, edits, canceled, calls, hookCall, chain, ran, verdict, hookStarted, toolRuns>>
        /\ UNCHANGED <<hookMode, box, pathFits>>
    BY <1>1 DEF Gates!Load, Gates!Fixed
  <2>3. Gates!HookTypeOK'
    BY <1>0, <2>1, <2>2 DEF Gates!HookTypeOK
  <2>4. Typed'
    BY <1>0, <2>1, <2>2
  <2>5. ChainInv'
    BY <1>0, <2>2 DEF ChainInv, Events
  <2>6. Gates!ToolPassedItsHooks' /\ Gates!HookProcessesConfined'
    BY <1>0, <2>2 DEF Gates!ToolPassedItsHooks, Gates!HookProcessesConfined
  <2> QED
    BY <1>q, <2>3, <2>4, <2>5, <2>6
<1>2. CASE Gates!BeginHookSession
  <2>1. /\ phase = "begin" /\ phase' = "start" /\ Gates!Quiet /\ Gates!ExecuteContext("session_start",
          "none", canceled)
        /\ UNCHANGED <<canceled, calls, hookCall, hookStarted, toolRuns>>
    BY <1>2 DEF Gates!BeginHookSession
  <2>2. EventType' = "session_start" /\ EventTool' = "none"
    BY <2>1 DEF EventType, EventTool, Gates!ChainType
  <2>3. ChainInv' /\ chain' \in Seq(Hooks) /\ ran' \in Seq(GateResults) /\
          verdict' \in {"open", "allow", "block"}
    BY <2>1, <2>2, AfterExecute
  <2>4. Gates!HookTypeOK'
    BY <1>0, <2>1, <2>3 DEF Gates!HookTypeOK, Gates!Quiet, Gates!Fixed
  <2>5. Typed'
    BY <1>0, <2>1, <2>3, QuietKeeps
  <2>6. Gates!ToolPassedItsHooks' /\ Gates!HookProcessesConfined'
    BY <2>1, PromisesFrame DEF Gates!Quiet, Gates!Fixed
  <2> QED
    BY <1>q, <2>3, <2>4, <2>5, <2>6
<1>3. ASSUME NEW o \in Gates!Outcomes, Gates!runHook(o) PROVE HookInv'
  <2>1. ChainInv' /\ chain' \in Seq(Hooks) /\ ran' \in Seq(GateResults) /\
          verdict' \in {"open", "allow", "block"}
    BY <1>3, RunHookKeeps
  <2>2. Gates!Quiet /\ UNCHANGED <<phase, canceled, calls, hookCall, toolRuns>>
    BY <1>3 DEF Gates!runHook
  <2>3. Gates!HookTypeOK'
    BY <1>0, <2>1, <2>2 DEF Gates!HookTypeOK, Gates!Quiet, Gates!Fixed
  <2>4. Typed'
    BY <1>0, <2>1, <2>2, QuietKeeps
  <2>5. Gates!ToolPassedItsHooks'
    BY <1>0, <2>2 DEF Gates!ToolPassedItsHooks, Gates!Quiet
  <2>6. Gates!HookProcessesConfined'
    <3>1. Gates!RuntimeFailure = "none" /\ hookMode # "read-only" /\ hookMode' = hookMode
      <4>1. chain # <<>> /\ phase \in {"start", "pre", "post", "end"}
        BY <1>3 DEF Gates!runHook
      <4>2. verdict = "open" /\ phase \in Events
        BY <1>0, <4>1 DEF ChainInv, Events
      <4> QED
        BY <1>0, <2>2, <4>2, QuietKeeps DEF ChainInv
    <3>2. hookMode # "full" => box.runner = "isolating"
      BY <3>1 DEF Gates!RuntimeFailure
    <3>3. hookStarted' \subseteq hookStarted \cup {[type |-> Gates!ChainType,
            isolated |-> box.runner = "isolating"]}
      BY <1>3 DEF Gates!runHook
    <3>4. ASSUME NEW q \in hookStarted' PROVE hookMode # "read-only" /\ (~q.isolated => hookMode = "full")
      <4>1. CASE q \in hookStarted
        BY <1>0, <4>1 DEF Gates!HookProcessesConfined
      <4>2. CASE q = [type |-> Gates!ChainType, isolated |-> box.runner = "isolating"]
        <5>1. q.isolated = (box.runner = "isolating")
          BY <4>2
        <5> QED
          BY <3>1, <3>2, <5>1
      <4> QED
        BY <3>3, <4>1, <4>2
    <3> QED
      BY <3>1, <3>4 DEF Gates!HookProcessesConfined
  <2> QED
    BY <1>q, <2>1, <2>3, <2>4, <2>5, <2>6
<1>4. CASE Gates!StartDone \/ Gates!PreDone \/ Gates!PostDone \/ Gates!EndDone
  <2>1. /\ Gates!Quiet /\ chain = <<>>
        /\ UNCHANGED <<canceled, calls, hookCall, chain, ran, verdict, hookStarted, toolRuns>>
        /\ \/ phase' = "idle"
           \/ phase = "pre" /\ phase' = "tool" /\ verdict # "block"
           \/ phase = "end" /\ phase' = "ended"
        /\ phase # "load" /\ phase' \in {"idle", "tool", "ended"}
    BY <1>4 DEF Gates!StartDone, Gates!PreDone, Gates!PostDone, Gates!EndDone
  <2>2. ChainInv'
    BY <2>1, ChainDone
  <2>3. Gates!HookTypeOK'
    BY <1>0, <2>1 DEF Gates!HookTypeOK, Gates!Quiet, Gates!Fixed
  <2>4. Typed'
    BY <1>0, <2>1, QuietKeeps
  <2>5. Gates!ToolPassedItsHooks' /\ Gates!HookProcessesConfined'
    BY <2>1, PromisesFrame DEF Gates!Quiet, Gates!Fixed
  <2> QED
    BY <1>q, <2>2, <2>3, <2>4, <2>5
<1>5. CASE Gates!RunTool
  <2>1. /\ phase = "tool" /\ phase' = "post" /\ Gates!Quiet /\ Gates!ExecuteContext("post_tool_use",
          hookCall, canceled)
        /\ UNCHANGED <<canceled, calls, hookCall, hookStarted>>
    BY <1>5 DEF Gates!RunTool
  <2>2. EventType' = "post_tool_use" /\ EventTool' = hookCall
    BY <2>1 DEF EventType, EventTool, Gates!ChainType
  <2>3. ChainInv' /\ chain' \in Seq(Hooks) /\ ran' \in Seq(GateResults) /\
          verdict' \in {"open", "allow", "block"}
    BY <2>1, <2>2, AfterExecute
  <2>4. Gates!HookTypeOK'
    BY <1>0, <2>1, <2>3 DEF Gates!HookTypeOK, Gates!Quiet, Gates!Fixed
  <2>5. Typed'
    BY <1>0, <2>1, <2>3, QuietKeeps
  <2>6. Gates!ToolPassedItsHooks'
    BY <1>5, RunToolKeeps
  <2>7. Gates!HookProcessesConfined'
    BY <1>0, <2>1 DEF Gates!HookProcessesConfined, Gates!Quiet, Gates!Fixed
  <2> QED
    BY <1>q, <2>3, <2>4, <2>5, <2>6, <2>7
<1>6. CASE Gates!SessionEnd
  <2>1. /\ phase = "idle" /\ phase' = "end" /\ Gates!Quiet /\ Gates!ExecuteContext("session_end", "none",
          FALSE)
        /\ UNCHANGED <<canceled, calls, hookCall, hookStarted, toolRuns>>
    BY <1>6 DEF Gates!SessionEnd, Gates!EndContext
  <2>2. EventType' = "session_end" /\ EventTool' = "none"
    BY <2>1 DEF EventType, EventTool, Gates!ChainType
  <2>3. ChainInv' /\ chain' \in Seq(Hooks) /\ ran' \in Seq(GateResults) /\
          verdict' \in {"open", "allow", "block"}
    BY <2>1, <2>2, AfterExecute
  <2>4. Gates!HookTypeOK'
    BY <1>0, <2>1, <2>3 DEF Gates!HookTypeOK, Gates!Quiet, Gates!Fixed
  <2>5. Typed'
    BY <1>0, <2>1, <2>3, QuietKeeps
  <2>6. Gates!ToolPassedItsHooks' /\ Gates!HookProcessesConfined'
    BY <2>1, PromisesFrame DEF Gates!Quiet, Gates!Fixed
  <2> QED
    BY <1>q, <2>3, <2>4, <2>5, <2>6
<1>7. ASSUME NEW t \in Tools, Gates!PreHook(t) PROVE HookInv'
  <2>1. /\ phase = "idle" /\ phase' = "pre" /\ Gates!Quiet /\ Gates!ExecuteContext("pre_tool_use", t,
          canceled)
        /\ calls < MaxCalls /\ calls' = calls + 1 /\ hookCall' = t
        /\ UNCHANGED <<canceled, hookStarted, toolRuns>>
    BY <1>7 DEF Gates!PreHook
  <2>2. EventType' = "pre_tool_use" /\ EventTool' = t
    BY <2>1 DEF EventType, EventTool, Gates!ChainType
  <2>3. ChainInv' /\ chain' \in Seq(Hooks) /\ ran' \in Seq(GateResults) /\
          verdict' \in {"open", "allow", "block"}
    BY <2>1, <2>2, AfterExecute
  <2>4. Gates!HookTypeOK'
    BY <1>0, <2>1, <2>3 DEF Gates!HookTypeOK, Gates!Quiet, Gates!Fixed, HookConstants
  <2>5. Typed'
    BY <1>0, <2>1, <2>3, QuietKeeps
  <2>6. Gates!ToolPassedItsHooks' /\ Gates!HookProcessesConfined'
    BY <2>1, PromisesFrame DEF Gates!Quiet, Gates!Fixed
  <2> QED
    BY <1>q, <2>3, <2>4, <2>5, <2>6
<1>8. ASSUME NEW f \in Gates!Range(Files), NEW c \in Contents, Gates!Edit(f, c) PROVE HookInv'
  <2>1. /\ edits < MaxEdits /\ edits' = edits + 1 /\ files' = [files EXCEPT ![f] = c]
        /\ UNCHANGED <<hookMode, box, pathFits>>
        /\ UNCHANGED <<snap, phase, canceled, calls, hookCall, chain, ran, verdict, hookStarted, atLoad,
                       toolRuns>>
    BY <1>8 DEF Gates!Edit, Gates!Fixed
  <2>2. ChainInv'
    BY <2>1, ChainFrame
  <2>3. Gates!HookTypeOK'
    BY <1>0, <2>1 DEF Gates!HookTypeOK, HookConstants
  <2>4. Loaded <=> Loaded'
    BY <2>1 DEF Loaded
  <2>5. Typed'
    BY <1>0, <2>1, <2>4
  <2>6. Gates!ToolPassedItsHooks' /\ Gates!HookProcessesConfined'
    BY <2>1, PromisesFrame
  <2> QED
    BY <1>q, <2>2, <2>3, <2>5, <2>6
<1>9. CASE Gates!Cancel \/ UNCHANGED Gates!hookVars
  <2>1. /\ canceled' \in BOOLEAN
        /\ UNCHANGED <<hookMode, box, pathFits, files, edits, atLoad, snap>>
        /\ UNCHANGED <<phase, calls, hookCall, chain, ran, verdict, hookStarted, toolRuns>>
    BY <1>0, <1>9 DEF Gates!Cancel, Gates!Quiet, Gates!Fixed, Gates!hookVars, Gates!HookTypeOK
  <2>2. ChainInv'
    BY <2>1, ChainFrame
  <2>3. Gates!HookTypeOK'
    BY <1>0, <2>1 DEF Gates!HookTypeOK
  <2>4. Loaded <=> Loaded'
    BY <2>1 DEF Loaded
  <2>5. Typed'
    BY <1>0, <2>1, <2>4
  <2>6. Gates!ToolPassedItsHooks' /\ Gates!HookProcessesConfined'
    BY <2>1, PromisesFrame
  <2> QED
    BY <1>q, <2>2, <2>3, <2>5, <2>6
<1> QED
  BY <1>1, <1>2, <1>3, <1>4, <1>5, <1>6, <1>7, <1>8, <1>9 DEF Gates!HookNext, Gates!Step
\* Hooks that only observe, and cleanup, from the invariant.
LEMMA HookPromises ==
  ASSUME HookInv
  PROVE  Gates!ObserversAllRun /\ Gates!CleanupRuns
<1>1. snap.hooks \in Seq(Hooks) /\ chain \in Seq(Hooks) /\ ran \in Seq(GateResults) /\ ChainInv
  BY DEF HookInv
<1>2. phase = "load" \/ snap.failure # "none" \/ Loaded
  BY DEF HookInv
<1>3. snap.failure = "none" \/ snap.hooks = <<>>
  BY DEF HookInv
<1> DEFINE held(t,
        u) == {i \in DOMAIN snap.hooks : snap.hooks[i].type = t /\ Gates!Matches(snap.hooks[i], u)}
           ofType(t) == {i \in DOMAIN snap.hooks : snap.hooks[i].type = t}
<1>4. ASSUME phase # "load", NEW t \in {"session_start", "session_end"}, NEW u
      PROVE  held(t, u) = ofType(t)
  <2>1. ASSUME NEW i \in DOMAIN snap.hooks, snap.hooks[i].type = t
        PROVE  Gates!Matches(snap.hooks[i], u)
    <3>1. snap.hooks[i] \in Gates!Range(snap.hooks) /\ snap.failure = "none"
      BY <1>3, <2>1 DEF Gates!Range
    <3> QED
      BY <1>2, <1>4, <2>1, <3>1 DEF Loaded, Gates!Matches
  <2> QED
    BY <2>1
<1>5. Gates!ObserversAllRun
  <2> SUFFICES ASSUME phase \in {"start", "post", "end"}, chain = <<>>, ran # <<>>
               PROVE  Cardinality({i \in DOMAIN snap.hooks :
                        snap.hooks[i].type = Gates!ChainType /\ (phase = "post" => Gates!Matches(snap.hooks[i], hookCall))}) = Len(ran)
    BY SameCardinality DEF Gates!ObserversAllRun
  <2>1. verdict = "open" /\ GateProgress
    BY <1>1 DEF ChainInv, Events, HookInv, Gates!HookTypeOK
  <2>2. Len(ran) = Cardinality(held(EventType, EventTool))
    BY <1>1, <2>1, ChainRan, ChainFacts
  <2>3. CASE phase = "post"
    <3>1. EventType = "post_tool_use" /\ EventTool = hookCall /\ Gates!ChainType = "post_tool_use"
      BY <2>3 DEF EventType, EventTool, Gates!ChainType
    <3>2. held(EventType, EventTool) = {i \in DOMAIN snap.hooks :
            snap.hooks[i].type = Gates!ChainType /\ (phase = "post" => Gates!Matches(snap.hooks[i],
                    hookCall))}
      BY <2>3, <3>1
    <3> QED
      BY <2>2, <3>2
  <2>4. CASE phase # "post"
    <3>1. EventType = Gates!ChainType /\
            Gates!ChainType \in {"session_start", "session_end"} /\ phase # "load"
      BY <2>4 DEF EventType, Gates!ChainType
    <3>2. held(EventType, EventTool) = ofType(Gates!ChainType)
      BY <1>4, <3>1
    <3>3. ofType(Gates!ChainType) = {i \in DOMAIN snap.hooks :
            snap.hooks[i].type = Gates!ChainType /\ (phase = "post" => Gates!Matches(snap.hooks[i],
                    hookCall))}
      BY <2>4
    <3> QED
      BY <2>2, <3>2, <3>3
  <2> QED
    BY <2>3, <2>4
<1>6. Gates!CleanupRuns
  <2> SUFFICES ASSUME phase = "ended", hookMode # "read-only", Gates!RuntimeFailure = "none", pathFits
               PROVE  Len(ran) = Cardinality(ofType("session_end"))
    BY SameCardinality DEF Gates!CleanupRuns
  <2>1. EventType = "session_end" /\ chain = <<>> /\ verdict \in {"open", "allow"}
    BY <1>1 DEF EventType, Gates!ChainType, ChainInv, HookInv, Gates!HookTypeOK
  <2>2. Len(ran) = Len(ChainOf(EventType, EventTool))
    <3>1. CASE verdict = "open"
      <4>1. GateProgress
        BY <1>1, <3>1 DEF ChainInv, Events
      <4> QED
        BY <1>1, <2>1, <4>1, ChainRan
    <3>2. CASE verdict = "allow"
      BY <1>1, <3>2 DEF ChainInv, Events
    <3> QED
      BY <2>1, <3>1, <3>2
  <2>3. Len(ChainOf(EventType, EventTool)) = Cardinality(held("session_end", EventTool))
    BY <1>1, <2>1, ChainFacts
  <2>4. held("session_end", EventTool) = ofType("session_end")
    BY <1>4
  <2> QED
    BY <2>2, <2>3, <2>4
<1> QED
  BY <1>5, <1>6

\* A run with hooks keeps its invariant.
LEMMA HookInvariant ==
  ASSUME HookConstants
  PROVE  Gates!HookSpec => []HookInv
<1>1. Gates!HookInit => HookInv
  BY HookInitially
<1>2. HookInv /\ [Gates!HookNext]_(Gates!hookVars) => HookInv'
  BY HookStep
<1> QED
  BY <1>1, <1>2, PTL DEF Gates!HookSpec

\* Whatever the configuration files hold and whenever they are edited: a tool
\* ran only past every hook that the files of the start declare for it, each
\* isolated as asked and good (Load, ExecuteContext, PreHook of the loop).
THEOREM ToolsPassHooks ==
  ASSUME HookConstants
  PROVE  Gates!HookSpec => []Gates!ToolPassedItsHooks
<1>1. HookInv => Gates!ToolPassedItsHooks
  BY DEF HookInv
<1> QED
  BY <1>1, HookInvariant, PTL

\* No hook process of a read-only run, and none without isolation outside
\* full mode (ensureRuntime, secureHookPolicy).
THEOREM HooksAreConfined ==
  ASSUME HookConstants
  PROVE  Gates!HookSpec => [](Gates!HookTypeOK /\ Gates!HookProcessesConfined)
<1>1. HookInv => Gates!HookTypeOK /\ Gates!HookProcessesConfined
  BY DEF HookInv
<1> QED
  BY <1>1, HookInvariant, PTL

\* Hooks that observe all run, and so do those of the end of a run that was
\* canceled (ExecuteContext, the finalizer of the run).
THEOREM HooksAllRun ==
  ASSUME HookConstants
  PROVE  Gates!HookSpec => [](Gates!ObserversAllRun /\ Gates!CleanupRuns)
<1>1. HookInv => Gates!ObserversAllRun /\ Gates!CleanupRuns
  BY HookPromises
<1> QED
  BY <1>1, HookInvariant, PTL

-----------------------------------------------------------------------------
(***************************************************************************)
(* Authority and permissions: for every tree of runs, all settings files   *)
(* and all calls.                                                          *)
(***************************************************************************)

\* What the constants are: the tools that only look have no effect, the
\* levels come in an order.
PermissionConstants ==
  /\ Root \in Runs /\ Levels \in Seq(Gates!Range(Levels))
  /\ \A c \in Calls : c.tool \in {"Read", "Glob", "Grep"} => c.effect = "read"

\* What dispatch decides about a call of a run.
DecisionOf(r, c) ==
  IF run[r].policy.mode = "read-only" /\ Gates!ReadOnlyRefuses(c) THEN "deny"
  ELSE Gates!ResolvePermissionWithPolicy(c, r)

\* The permissions that settings give.
PermsOf(perms, start) ==
  /\ DOMAIN start = Gates!Range(Levels)
  /\ perms.allow = Gates!DefaultAllow \cup UNION {start[l].allow : l \in Gates!Range(Levels)}
  /\ perms.mode = "default" \/ \E l \in Gates!Range(Levels) : perms.mode = start[l].mode

\* The policy of an active run: valid, full only where a user selected full,
\* and within the policy of its parent.
PolicyHolds(r) ==
  LET p == run[r].policy
      parent == run[r].parent
  IN /\ Gates!ValidateSnapshot(p)
     /\ p.mode = "full" => p.fullRevision \in selectedFull
     /\ parent # "none" =>
          /\ parent \in Runs /\ run[parent].status = "active"
          /\ Gates!Rank(p.mode) <= Gates!Rank(run[parent].policy.mode)

\* A call that was decided about: as its run decides, and run only if allowed
\* or approved.
DecisionHolds(d) ==
  /\ d.run \in Runs /\ d.call \in Calls /\ run[d.run].status = "active"
  /\ d.decision = DecisionOf(d.run, d.call)
  /\ d.ran => d.decision # "deny" /\ (d.decision = "approval" => d.approved)

\* The inductive invariant of runs and decisions.
PermissionInv ==
  /\ DOMAIN run = Runs /\ DOMAIN settings = Gates!Range(Levels) /\ revision \in Nat
  /\ \A r \in Runs :
       /\ run[r].status \in {"none", "active", "refused"}
       /\ (run[r].status = "active") = (run[r].policy # Gates!NoPolicy)
       /\ run[r].status = "active" => PolicyHolds(r) /\ PermsOf(run[r].perms, run[r].atStart)
  /\ \A d \in decided : DecisionHolds(d)

\* The permissions a run captures are those of the settings it starts with.
LEMMA CaptureFacts ==
  ASSUME PermissionConstants, DOMAIN settings = Gates!Range(Levels)
  PROVE  PermsOf(Gates!CapturePermissions, settings)
<1> DEFINE named == {i \in DOMAIN Levels : settings[Levels[i]].mode # "unset"}
<1>1. Gates!CapturePermissions.allow = Gates!DefaultAllow \cup UNION {settings[l].allow : l \in Gates!Range(Levels)}
  BY DEF Gates!CapturePermissions
<1>2. Gates!CapturePermissions.mode = IF named = {} THEN "default" ELSE settings[Levels[Gates!Max(named)]].mode
  BY DEF Gates!CapturePermissions
<1>3. ASSUME named # {} PROVE Levels[Gates!Max(named)] \in Gates!Range(Levels)
  <2>1. Len(Levels) \in Nat /\ DOMAIN Levels = 1..Len(Levels)
    BY DEF PermissionConstants
  <2>2. named \in SUBSET (1..Len(Levels))
    BY <2>1
  <2> HIDE DEF named
  <2>3. Gates!Max(named) \in named
    BY <1>3, <2>1, <2>2, GreatestIndex
  <2> QED
    BY <2>1, <2>2, <2>3 DEF Gates!Range
<1> HIDE DEF named
<1> QED
  BY <1>1, <1>2, <1>3 DEF PermsOf

\* A policy of a child is valid only within that of its parent.
LEMMA ChildWithinParent ==
  ASSUME NEW parent, NEW requested, Gates!ValidateSnapshot(Gates!ResolveChild(parent, requested))
  PROVE  LET p == Gates!ResolveChild(parent, requested)
         IN /\ Gates!Rank(p.mode) <= Gates!Rank(parent.mode) /\ p.fullRevision = parent.fullRevision
            /\ p.mode = "full" => parent.mode = "full"
<1> DEFINE mode == IF requested = "unset" THEN parent.mode ELSE requested
<1>1. ~Gates!ValidateSnapshot(Gates!NoPolicy)
  BY DEF Gates!ValidateSnapshot, Gates!NoPolicy, Gates!PermissionModes
<1>2. Gates!ValidateSnapshot(parent) /\ mode \in Gates!PermissionModes /\ ~(Gates!Rank(mode) > Gates!Rank(parent.mode))
  BY <1>1 DEF Gates!ResolveChild
<1>3. Gates!ResolveChild(parent, requested).mode = mode /\ Gates!ResolveChild(parent,
        requested).fullRevision = parent.fullRevision
  BY <1>2 DEF Gates!ResolveChild
<1>4. parent.mode \in Gates!PermissionModes
  BY <1>2 DEF Gates!ValidateSnapshot
<1> HIDE DEF mode
<1>5. Gates!Rank("read-only") = 0 /\ Gates!Rank("workspace") = 1 /\ Gates!Rank("full") = 2
  BY DEF Gates!Rank
<1>6. Gates!Rank(mode) <= Gates!Rank(parent.mode) /\ (mode = "full" => parent.mode = "full")
  BY <1>2, <1>4, <1>5 DEF Gates!PermissionModes
<1> QED
  BY <1>3, <1>6

\* Runs that are active stay as they are, and so do decisions about them.
LEMMA StartKeeps ==
  ASSUME PermissionInv, NEW c \in Runs, run[c].status = "none", NEW record,
         run' = [run EXCEPT ![c] = record], selectedFull \subseteq selectedFull',
         UNCHANGED <<isolated, settings, permissionEdits, decided>>, revision' \in Nat,
         record.status \in {"active", "refused"},
         (record.status = "active") = (record.policy # Gates!NoPolicy),
         record.status = "active" => PolicyHolds(c)' /\ PermsOf(record.perms, record.atStart)
  PROVE  PermissionInv'
<1>1. DOMAIN run' = Runs /\ run'[c] = record /\ \A r \in Runs \ {c} : run'[r] = run[r]
  BY DEF PermissionInv
<1>2. ASSUME NEW r \in Runs \ {c}, run[r].status = "active" PROVE PolicyHolds(r)'
  <2>1. PolicyHolds(r)
    BY <1>2 DEF PermissionInv
  <2>2. run[r].parent # "none" => run[r].parent \in Runs \ {c}
    BY <2>1 DEF PolicyHolds
  <2> QED
    BY <1>1, <2>1, <2>2 DEF PolicyHolds, Gates!ValidateSnapshot
<1>3. ASSUME NEW d \in decided PROVE DecisionHolds(d)'
  <2>1. DecisionHolds(d) /\ d.run \in Runs \ {c}
    BY DEF PermissionInv, DecisionHolds
  <2>2. run'[d.run] = run[d.run] /\ isolated' = isolated
    BY <1>1, <2>1
  <2>3. DecisionOf(d.run, d.call)' = DecisionOf(d.run, d.call)
    BY <2>2 DEF DecisionOf, Gates!ReadOnlyRefuses, Gates!ResolvePermissionWithPolicy,
           Gates!requiresWorkspaceProcessApproval
  <2> QED
    BY <2>1, <2>2, <2>3 DEF DecisionHolds
<1>4. \A r \in Runs : /\ run'[r].status \in {"none", "active", "refused"}
                      /\ (run'[r].status = "active") = (run'[r].policy # Gates!NoPolicy)
                      /\ run'[r].status = "active" => PolicyHolds(r)' /\ PermsOf(run'[r].perms,
                              run'[r].atStart)
  BY <1>1, <1>2 DEF PermissionInv
<1> QED
  BY <1>1, <1>3, <1>4 DEF PermissionInv, PermsOf
\* The invariant holds initially.
LEMMA PermissionInitially == PermissionConstants /\ Gates!PermissionInit => PermissionInv
<1> SUFFICES ASSUME PermissionConstants, Gates!PermissionInit PROVE PermissionInv
  OBVIOUS
<1>1. /\ DOMAIN run = Runs /\ \A r \in Runs : run[r] = Gates!Unstarted
      /\ DOMAIN settings = Gates!Range(Levels) /\ revision = 0 /\ decided = {}
  BY DEF Gates!PermissionInit
<1>2. Gates!Unstarted.status = "none" /\ Gates!Unstarted.policy = Gates!NoPolicy
  BY DEF Gates!Unstarted
<1> QED
  BY <1>1, <1>2 DEF PermissionInv

\* Every step keeps it.
LEMMA PermissionStep ==
  PermissionConstants /\ PermissionInv /\ [Gates!PermissionNext]_(Gates!permissionVars) => PermissionInv'
<1> SUFFICES ASSUME PermissionConstants, PermissionInv,
        [Gates!PermissionNext]_(Gates!permissionVars) PROVE PermissionInv'
  OBVIOUS
<1>0. /\ DOMAIN run = Runs /\ DOMAIN settings = Gates!Range(Levels) /\ revision \in Nat
      /\ PermsOf(Gates!CapturePermissions, settings)
      /\ ~Gates!ValidateSnapshot(Gates!NoPolicy)
  BY CaptureFacts DEF PermissionInv, Gates!ValidateSnapshot, Gates!NoPolicy, Gates!PermissionModes
<1>1. ASSUME NEW request \in Gates!PermissionModes \cup {"unset"},
        Gates!StartRoot(request) PROVE PermissionInv'
  <2> DEFINE policy == Gates!Resolve(request, revision + 1)
             record == Gates!Started("none", policy)
  <2>1. /\ Root \in Runs /\ run[Root].status = "none" /\ run' = [run EXCEPT ![Root] = record]
        /\ selectedFull \subseteq selectedFull' /\ revision' \in Nat
        /\ request = "full" => revision + 1 \in selectedFull'
        /\ UNCHANGED <<isolated, settings, permissionEdits, decided>>
    <3>1. /\ run[Root].status = "none" /\ run' = [run EXCEPT ![Root] = record]
          /\ UNCHANGED <<isolated, settings, permissionEdits, decided>>
      BY <1>1 DEF Gates!StartRoot
    <3>2. revision' = revision + 1
      BY <1>1 DEF Gates!StartRoot
    <3>3. selectedFull' = IF request = "full" THEN selectedFull \cup {revision + 1} ELSE selectedFull
      BY <1>1 DEF Gates!StartRoot
    <3>4. selectedFull \subseteq selectedFull' /\ (request = "full" => revision + 1 \in selectedFull')
      BY <3>3
    <3> QED
      BY <1>0, <3>1, <3>2, <3>4 DEF PermissionConstants
  <2>2. /\ record.status \in {"active", "refused"} /\ record.parent = "none"
        /\ (record.status = "active") = (record.policy # Gates!NoPolicy)
        /\ record.status = "active" => /\ record.policy = policy /\ Gates!ValidateSnapshot(policy)
                                       /\ record.perms = Gates!CapturePermissions /\ record.atStart = settings
    BY <1>0 DEF Gates!Started, Gates!Unstarted
  <2>3. policy.mode = "full" => request = "full" /\ policy.fullRevision = revision + 1
    BY DEF Gates!Resolve
  <2> HIDE DEF policy, record
  <2>4. run'[Root] = record
    BY <1>0, <2>1
  <2>5. record.status = "active" => PolicyHolds(Root)' /\ PermsOf(record.perms, record.atStart)
    BY <1>0, <2>1, <2>2, <2>3, <2>4 DEF PolicyHolds, Gates!ValidateSnapshot
  <2> QED
    BY <2>1, <2>2, <2>5, StartKeeps
<1>2. ASSUME NEW p \in Runs, NEW c \in Runs, NEW requested \in Gates!PermissionModes \cup {"unset"},
        Gates!StartChild(p, c, requested)
      PROVE  PermissionInv'
  <2> DEFINE policy == Gates!ResolveChild(run[p].policy, requested)
             record == Gates!Started(p, policy)
  <2>1. /\ run[p].status = "active" /\ run[c].status = "none" /\ run' = [run EXCEPT ![c] = record]
        /\ UNCHANGED <<isolated, settings, permissionEdits, revision, selectedFull, decided>>
    BY <1>2 DEF Gates!StartChild
  <2>2. /\ record.status \in {"active", "refused"}
        /\ (record.status = "active") = (record.policy # Gates!NoPolicy)
        /\ record.status = "active" => /\ record.policy = policy /\ Gates!ValidateSnapshot(policy) /\ record.parent = p
                                       /\ record.perms = Gates!CapturePermissions /\ record.atStart = settings
    BY <1>0 DEF Gates!Started, Gates!Unstarted
  <2>3. PolicyHolds(p) /\ p # c
    BY <2>1 DEF PermissionInv
  <2>4. Gates!ValidateSnapshot(policy) =>
          /\ Gates!Rank(policy.mode) <= Gates!Rank(run[p].policy.mode)
          /\ policy.mode = "full" => policy.fullRevision \in selectedFull
    BY <2>3, ChildWithinParent DEF PolicyHolds
  <2> HIDE DEF policy, record
  <2>5. run'[c] = record /\ run'[p] = run[p]
    BY <1>0, <2>1, <2>3
  <2>6. record.status = "active" => PolicyHolds(c)' /\ PermsOf(record.perms, record.atStart)
    BY <1>0, <2>1, <2>2, <2>4, <2>5 DEF PolicyHolds, Gates!ValidateSnapshot
  <2> QED
    BY <1>0, <2>1, <2>2, <2>6, StartKeeps
<1>3. ASSUME NEW r \in Runs, NEW c \in Calls, NEW yes \in BOOLEAN, Gates!DispatchCall(r, c, yes)
      PROVE  PermissionInv'
  <2> DEFINE mode == run[r].policy.mode
             refused == mode = "read-only" /\ Gates!ReadOnlyRefuses(c)
             decision == IF refused THEN "deny" ELSE Gates!ResolvePermissionWithPolicy(c, r)
             asked == ~refused /\ (decision = "approval" \/ (decision = "allow" /\ Gates!NeedsBoundAuthorization(c, mode)))
             d == [run |-> r, call |-> c, decision |-> decision, approved |-> asked /\ yes,
                   ran |-> decision # "deny" /\ (asked => yes)]
  <2>1. /\ run[r].status = "active" /\ decided' = decided \cup {d}
        /\ UNCHANGED <<isolated, settings, permissionEdits, run, revision, selectedFull>>
    BY <1>3 DEF Gates!DispatchCall
  <2>2. decision = DecisionOf(r, c)
    BY DEF DecisionOf
  <2>3. decision = "approval" => asked
    OBVIOUS
  <2>4. d.ran => d.decision # "deny" /\ (d.decision = "approval" => d.approved)
    BY <2>3
  <2>5. d.run = r /\ d.call = c /\ d.decision = decision
    OBVIOUS
  <2> HIDE DEF d, decision
  <2>6. DecisionHolds(d)
    BY <2>1, <2>2, <2>4, <2>5 DEF DecisionHolds
  <2>7. \A e : DecisionHolds(e) => DecisionHolds(e)'
    BY <2>1 DEF DecisionHolds, DecisionOf, Gates!ReadOnlyRefuses, Gates!ResolvePermissionWithPolicy,
           Gates!requiresWorkspaceProcessApproval
  <2>8. \A e \in decided' : DecisionHolds(e)'
    BY <2>1, <2>6, <2>7 DEF PermissionInv
  <2>9. \A q \in Runs : PolicyHolds(q) => PolicyHolds(q)'
    BY <2>1 DEF PolicyHolds
  <2> QED
    BY <2>1, <2>8, <2>9 DEF PermissionInv, PermsOf
<1>4. CASE (\E l \in Gates!Range(Levels), s \in Settings : Gates!EditSettings(l,
        s)) \/ UNCHANGED Gates!permissionVars
  <2>1. DOMAIN settings' = Gates!Range(Levels) /\ UNCHANGED <<isolated, run, revision, selectedFull,
                                                              decided>>
    BY <1>0, <1>4 DEF Gates!EditSettings, Gates!permissionVars
  <2>2. \A e : DecisionHolds(e) => DecisionHolds(e)'
    BY <2>1 DEF DecisionHolds, DecisionOf, Gates!ReadOnlyRefuses, Gates!ResolvePermissionWithPolicy,
           Gates!requiresWorkspaceProcessApproval
  <2>3. \A q \in Runs : PolicyHolds(q) => PolicyHolds(q)'
    BY <2>1 DEF PolicyHolds
  <2> QED
    BY <2>1, <2>2, <2>3 DEF PermissionInv, PermsOf
<1> QED
  BY <1>1, <1>2, <1>3, <1>4 DEF Gates!PermissionNext
\* The promises about authority and permissions, from the invariant.
LEMMA PermissionPromises ==
  ASSUME PermissionConstants, PermissionInv
  PROVE  /\ Gates!PermissionTypeOK /\ Gates!AuthorityNeverGrows /\ Gates!ReadOnlyHasNoEffect
         /\ Gates!HostCommandsConsented /\ Gates!SettingsFrozenForRun
<1>1. Gates!PermissionTypeOK
  BY DEF PermissionInv, DecisionHolds, Gates!PermissionTypeOK
<1>2. Gates!AuthorityNeverGrows
  BY DEF PermissionInv, PolicyHolds, Gates!AuthorityNeverGrows
<1>3. Gates!ReadOnlyHasNoEffect
  <2> SUFFICES ASSUME NEW d \in decided, d.ran, run[d.run].policy.mode = "read-only"
               PROVE  d.call.effect = "read" /\ (d.call.tool \in {"Bash", "Git"} => isolated)
    BY DEF Gates!ReadOnlyHasNoEffect
  <2>1. d.call \in Calls /\ d.decision = DecisionOf(d.run, d.call) /\ d.decision # "deny"
    BY DEF PermissionInv, DecisionHolds
  <2>2. ~Gates!ReadOnlyRefuses(d.call)
    BY <2>1 DEF DecisionOf
  <2> QED
    BY <2>1, <2>2 DEF Gates!ReadOnlyRefuses, PermissionConstants
<1>4. Gates!HostCommandsConsented
  <2> SUFFICES ASSUME NEW d \in decided, d.ran, run[d.run].policy.mode = "workspace", ~isolated,
                      d.call.tool \in {"Bash", "Git"}, ~d.approved
               PROVE  \E l \in DOMAIN run[d.run].atStart :
                        \/ run[d.run].atStart[l].mode = "bypassPermissions"
                        \/ \E rule \in run[d.run].atStart[l].allow : Gates!matchRule(rule, d.call)
    BY DEF Gates!HostCommandsConsented
  <2> DEFINE perms == run[d.run].perms
             start == run[d.run].atStart
  <2>1. /\ d.decision = DecisionOf(d.run, d.call) /\ d.decision \notin {"deny", "approval"}
        /\ PermsOf(perms, start)
    BY DEF PermissionInv, DecisionHolds
  <2>2. d.decision = Gates!ResolvePermissionWithPolicy(d.call, d.run)
    BY <2>1 DEF DecisionOf
  <2>3. Gates!requiresWorkspaceProcessApproval(d.call, "workspace")
    BY DEF Gates!requiresWorkspaceProcessApproval
  <2>4. Gates!Decide(perms, d.call) = "allow"
    BY <2>1, <2>2, <2>3 DEF Gates!ResolvePermissionWithPolicy
  <2>5. perms.mode = "bypassPermissions" \/ \E rule \in perms.allow : Gates!matchRule(rule, d.call)
    BY <2>4 DEF Gates!Decide
  <2>6. CASE perms.mode = "bypassPermissions"
    BY <2>1, <2>6 DEF PermsOf
  <2>7. CASE \E rule \in perms.allow : Gates!matchRule(rule, d.call)
    <3>1. PICK rule \in perms.allow : Gates!matchRule(rule, d.call)
      BY <2>7
    <3>2. rule \notin Gates!DefaultAllow
      BY <3>1 DEF Gates!DefaultAllow, Gates!matchRule
    <3>3. PICK l \in Gates!Range(Levels) : rule \in start[l].allow
      BY <2>1, <3>1, <3>2 DEF PermsOf
    <3> QED
      BY <2>1, <3>1, <3>3 DEF PermsOf
  <2> QED
    BY <2>5, <2>6, <2>7
<1>5. Gates!SettingsFrozenForRun
  <2> SUFFICES ASSUME NEW d \in decided, NEW e \in decided, d.run = e.run, d.call = e.call
               PROVE  d.decision = e.decision
    BY DEF Gates!SettingsFrozenForRun
  <2> QED
    BY DEF PermissionInv, DecisionHolds
<1> QED
  BY <1>1, <1>2, <1>3, <1>4, <1>5

\* Authority and permissions keep their invariant.
LEMMA PermissionInvariant ==
  ASSUME PermissionConstants
  PROVE  Gates!PermissionSpec => []PermissionInv
<1>1. Gates!PermissionInit => PermissionInv
  BY PermissionInitially
<1>2. PermissionInv /\ [Gates!PermissionNext]_(Gates!permissionVars) => PermissionInv'
  BY PermissionStep
<1> QED
  BY <1>1, <1>2, PTL DEF Gates!PermissionSpec

\* Down any chain of sub-agents and team workers authority never grows, and
\* full mode is only below a user who chose it (ResolveChild, the run loop).
THEOREM ChildrenNeverGain ==
  ASSUME PermissionConstants
  PROVE  Gates!PermissionSpec => [](Gates!PermissionTypeOK /\ Gates!AuthorityNeverGrows)
<1>1. PermissionInv => Gates!PermissionTypeOK /\ Gates!AuthorityNeverGrows
  BY PermissionPromises
<1> QED
  BY <1>1, PermissionInvariant, PTL

\* Read-only runs have no effect, and commands on a bare host were consented
\* to (dispatchToolCalls, requiresWorkspaceProcessApproval).
THEOREM CallsStayWithinMode ==
  ASSUME PermissionConstants
  PROVE  Gates!PermissionSpec => [](Gates!ReadOnlyHasNoEffect /\ Gates!HostCommandsConsented)
<1>1. PermissionInv => Gates!ReadOnlyHasNoEffect /\ Gates!HostCommandsConsented
  BY PermissionPromises
<1> QED
  BY <1>1, PermissionInvariant, PTL

\* However the settings are edited, a run answers a call as its settings did
\* at its start (PermissionSnapshot).
THEOREM PermissionsAreFrozen ==
  ASSUME PermissionConstants
  PROVE  Gates!PermissionSpec => []Gates!SettingsFrozenForRun
<1>1. PermissionInv => Gates!SettingsFrozenForRun
  BY PermissionPromises
<1> QED
  BY <1>1, PermissionInvariant, PTL

-----------------------------------------------------------------------------
(***************************************************************************)
(* Executable plugins: for every set of plugins, every batch of calls and  *)
(* every lifetime of an approval.                                          *)
(***************************************************************************)

\* What the constants are.
PluginConstants ==
  Batch \in Seq(Plugins) /\ PluginMaxEdits \in Nat /\ MaxClock \in Nat /\ Lifetime \in Nat

Bindings == [man : Versions \cup {0}, exe : Versions \cup {0}]
CallStates == {"queued", "asked", "proven", "denied", "checked", "blocked", "ok", "failed"}
PluginCall == [state : CallStates, expires : Nat, checked : Bindings]
StartedProcess == [call : DOMAIN Batch, checked : Bindings, isolation : BOOLEAN]
RunFields == {"mode", "explicit", "isolates", "phase", "loaded", "bound"}

\* The calls whose proof was consumed, and those whose process has run.
Consumed == {"checked", "blocked", "ok", "failed"}
Finished == {"blocked", "ok", "failed"}

\* What was discovered: all of it, under names that are free.
Discovered ==
  /\ DOMAIN pluginRun.loaded = Gates!Present
  /\ \A p, q \in DOMAIN pluginRun.loaded : Tool(p) = Tool(q) => p = q
  /\ \A p \in DOMAIN pluginRun.loaded : Tool(p) \notin BuiltIns

\* The inductive invariant of a run with plugins.
PluginInv ==
  /\ Gates!PluginTypeOK
  /\ DOMAIN pluginRun = RunFields
  /\ pluginCalls \in [DOMAIN Batch -> PluginCall] /\ runs \in Seq(StartedProcess)
  /\ pluginRun.phase \in {"start", "bind"} => DOMAIN pluginRun.bound = {}
  /\ pluginRun.phase = "bind" => Discovered
  /\ pluginRun.phase \in {"register", "ready"} /\ DOMAIN pluginRun.bound # {} =>
       Discovered /\ DOMAIN pluginRun.bound \subseteq DOMAIN pluginRun.loaded
  /\ \A i \in DOMAIN Batch : pluginCalls[i].state = "checked" => pluginCalls[i].checked = pluginRun.bound[Batch[i]]
  /\ \A i \in DOMAIN Batch : pluginCalls[i].state \in Consumed => i \in used \/ pluginCalls[i].expires <= clock
  /\ \A k \in 1..Len(runs) : pluginCalls[runs[k].call].state \in Finished
  /\ Gates!RunsWhatWasApproved /\ Gates!OneRunPerApproval

\* The invariant holds initially.
LEMMA PluginInitially == PluginConstants /\ Gates!PluginInit => PluginInv
<1> SUFFICES ASSUME PluginConstants, Gates!PluginInit PROVE PluginInv
  OBVIOUS
<1>1. /\ disk \in [Plugins -> Gates!PluginFiles] /\ pluginEdits = 0 /\ clock = 0 /\ used = {} /\ runs = <<>>
      /\ pluginCalls = [i \in DOMAIN Batch |-> Gates!Waiting]
  BY DEF Gates!PluginInit
<1>2. /\ DOMAIN pluginRun = RunFields /\ pluginRun.phase = "start" /\ pluginRun.bound = <<>>
  BY DEF Gates!PluginInit, RunFields
<1>3. Gates!Waiting \in PluginCall /\ Gates!Waiting.state = "queued"
  BY DEF Gates!Waiting, Gates!NoBinding, PluginCall, CallStates, Bindings
<1>4. /\ pluginCalls \in [DOMAIN Batch -> PluginCall] /\ \A i \in DOMAIN Batch : pluginCalls[i].state = "queued"
      /\ DOMAIN pluginCalls = DOMAIN Batch
  BY <1>1, <1>3
<1>5. runs \in Seq(StartedProcess) /\ Len(runs) = 0 /\ DOMAIN runs = {}
  BY <1>1
<1>6. Gates!PluginTypeOK
  BY <1>1, <1>2, <1>4 DEF Gates!PluginTypeOK, PluginConstants, Gates!Phases
<1>7. Gates!RunsWhatWasApproved /\ Gates!OneRunPerApproval
  BY <1>5 DEF Gates!RunsWhatWasApproved, Gates!OneRunPerApproval
<1> QED
  BY <1>2, <1>4, <1>5, <1>6, <1>7 DEF PluginInv, Consumed

\* An edit of the files, or time that passes.
LEMMA OutsideKeeps ==
  ASSUME PluginConstants, PluginInv, Gates!EditFile \/ Gates!Tick \/ UNCHANGED Gates!pluginVars
  PROVE  PluginInv'
<1>1. /\ UNCHANGED <<pluginRun, pluginCalls, used, runs>>
      /\ disk \in [Plugins -> Gates!PluginFiles] /\ clock \in 0..MaxClock /\ pluginEdits \in 0..PluginMaxEdits
  BY DEF Gates!EditFile, Gates!Tick, Gates!pluginVars, PluginInv, Gates!PluginTypeOK
<1>2. /\ disk' \in [Plugins -> Gates!PluginFiles] /\ clock' \in 0..MaxClock /\ clock <= clock'
      /\ pluginEdits' \in 0..PluginMaxEdits /\ Gates!Present' = Gates!Present
  <2>1. CASE Gates!EditFile
    <3>1. PICK p \in Plugins, f \in Gates!PluginFiles :
            disk[p].form # "absent" /\ f.form # "absent" /\ disk' = [disk EXCEPT ![p] = f]
      BY <2>1 DEF Gates!EditFile
    <3>2. disk' \in [Plugins -> Gates!PluginFiles]
      BY <1>1, <3>1
    <3>3. \A q \in Plugins : disk'[q].form = "absent" <=> disk[q].form = "absent"
      BY <1>1, <3>1
    <3>4. Gates!Present' = Gates!Present
      BY <3>3 DEF Gates!Present
    <3>5. pluginEdits < PluginMaxEdits /\ pluginEdits' = pluginEdits + 1 /\ clock' = clock
      BY <2>1 DEF Gates!EditFile
    <3> QED
      BY <1>1, <3>2, <3>4, <3>5 DEF PluginConstants
  <2>2. CASE Gates!Tick
    BY <1>1, <2>2 DEF Gates!Tick, PluginConstants, Gates!Present
  <2>3. CASE UNCHANGED Gates!pluginVars
    BY <1>1, <2>3 DEF Gates!pluginVars, PluginConstants, Gates!Present
  <2> QED
    BY <2>1, <2>2, <2>3
<1>3. Discovered <=> Discovered'
  BY <1>1, <1>2 DEF Discovered
<1>4. Gates!PluginTypeOK'
  BY <1>1, <1>2 DEF PluginInv, Gates!PluginTypeOK
<1>5. \A i \in DOMAIN Batch : pluginCalls[i].expires \in Nat
  BY DEF PluginInv, PluginCall
<1>6. \A i \in DOMAIN Batch : pluginCalls[i].expires <= clock => pluginCalls[i].expires <= clock'
  BY <1>1, <1>2, <1>5 DEF PluginConstants
<1> QED
  BY <1>1, <1>3, <1>4, <1>6 DEF PluginInv, Gates!RunsWhatWasApproved, Gates!OneRunPerApproval

\* Discovery and the catalog.
LEMMA ComposeKeeps ==
  ASSUME PluginConstants, PluginInv, Gates!Compose
  PROVE  PluginInv'
<1>1. /\ UNCHANGED <<disk, pluginEdits, clock, pluginCalls, used, runs>>
      /\ pluginRun.phase \in {"start", "bind", "register"} /\ DOMAIN pluginRun = RunFields
  BY DEF Gates!Compose, Gates!LoadAllStrict, Gates!SkipPlugins, Gates!ExecutableToolDefs,
         Gates!RegisterCatalog, PluginInv
<1>2. /\ \A i \in DOMAIN Batch : pluginCalls[i].state = "queued"
      /\ pluginCalls \in [DOMAIN Batch -> PluginCall] /\ DOMAIN pluginCalls = DOMAIN Batch
  BY <1>1 DEF PluginInv, Gates!PluginTypeOK
<1>3. Len(runs) = 0 /\ DOMAIN runs = {} /\ runs \in Seq(StartedProcess)
  <2>1. runs \in Seq(StartedProcess) /\ DOMAIN runs = 1..Len(runs) /\ Len(runs) \in Nat
    BY DEF PluginInv
  <2>2. \A k \in 1..Len(runs) : runs[k].call \in DOMAIN Batch /\ pluginCalls[runs[k].call].state \in Finished
    <3>1. \A k \in 1..Len(runs) : runs[k] \in StartedProcess
      BY <2>1
    <3>2. \A k \in 1..Len(runs) : runs[k].call \in DOMAIN Batch
      BY <3>1 DEF StartedProcess
    <3> QED
      BY <3>2 DEF PluginInv
  <2>3. \A k : k \notin 1..Len(runs)
    BY <1>2, <2>2 DEF Finished
  <2>4. ~(1 \in 1..Len(runs))
    BY <2>3
  <2>5. Len(runs) = 0
    BY <2>1, <2>4
  <2> QED
    BY <2>1, <2>3, <2>5
<1>4. Gates!Present' = Gates!Present
  BY <1>1 DEF Gates!Present
<1> DEFINE Good == /\ DOMAIN pluginRun = RunFields
                   /\ pluginRun.phase \in Gates!Phases /\ DOMAIN pluginRun.bound \subseteq Plugins
                   /\ (pluginRun.phase \in {"start", "bind"} => DOMAIN pluginRun.bound = {})
                   /\ (pluginRun.phase = "bind" => Discovered)
                   /\ (pluginRun.phase \in {"register", "ready"} /\ DOMAIN pluginRun.bound # {} =>
                         Discovered /\ DOMAIN pluginRun.bound \subseteq DOMAIN pluginRun.loaded)
<1>5. Good
  BY DEF PluginInv, Gates!PluginTypeOK
<1>6. ASSUME Good' PROVE PluginInv'
  <2>1. Gates!PluginTypeOK'
    BY <1>1, <1>2, <1>6 DEF PluginInv, Gates!PluginTypeOK
  <2>2. Gates!RunsWhatWasApproved' /\ Gates!OneRunPerApproval'
    BY <1>1, <1>3 DEF Gates!RunsWhatWasApproved, Gates!OneRunPerApproval
  <2> QED
    BY <1>1, <1>2, <1>3, <1>6, <2>1, <2>2 DEF PluginInv, Consumed
<1>7. ASSUME NEW reason \in {"plugin_configuration_failed", "tool_catalog_failed"},
             pluginRun' = [pluginRun EXCEPT !.phase = reason]
      PROVE  Good'
  BY <1>5, <1>7 DEF RunFields, Gates!Phases
<1>8. ASSUME pluginRun' = [pluginRun EXCEPT !.phase = "register", !.bound = <<>>] PROVE Good'
  BY <1>1, <1>8 DEF RunFields, Gates!Phases
<1>9. Gates!PluginError => Good'
  BY <1>7, <1>8 DEF Gates!PluginError, Gates!Fails
<1>10. CASE Gates!LoadAllStrict
  <2>1. CASE Gates!ManifestsValid
    <3> DEFINE found == [p \in Gates!Present |-> [exec |-> disk[p].form = "exec", man |-> disk[p].man]]
    <3>1. pluginRun.phase = "start" /\ pluginRun' = [pluginRun EXCEPT !.phase = "bind", !.loaded = found]
      BY <1>10, <2>1 DEF Gates!LoadAllStrict
    <3>2. DOMAIN found = Gates!Present
      OBVIOUS
    <3> HIDE DEF found
    <3>3. /\ DOMAIN pluginRun' = RunFields /\ pluginRun'.phase = "bind" /\ pluginRun'.loaded = found
          /\ pluginRun'.bound = pluginRun.bound
      BY <1>1, <3>1 DEF RunFields
    <3>4. Discovered'
      BY <1>4, <2>1, <3>2, <3>3 DEF Gates!ManifestsValid, Discovered
    <3> QED
      BY <1>5, <1>6, <3>1, <3>3, <3>4 DEF Gates!Phases
  <2>2. CASE ~Gates!ManifestsValid
    BY <1>6, <1>9, <1>10, <2>2 DEF Gates!LoadAllStrict
  <2> QED
    BY <2>1, <2>2
<1>11. CASE Gates!SkipPlugins
  <2>1. pluginRun.phase = "start" /\ pluginRun' = [pluginRun EXCEPT !.phase = "register"]
    BY <1>11 DEF Gates!SkipPlugins
  <2>2. DOMAIN pluginRun' = RunFields /\ pluginRun'.phase = "register" /\ pluginRun'.bound = pluginRun.bound
    BY <1>1, <2>1 DEF RunFields
  <2> QED
    BY <1>5, <1>6, <2>1, <2>2 DEF Gates!Phases
<1>12. CASE Gates!ExecutableToolDefs
  <2> DEFINE execs == {p \in DOMAIN pluginRun.loaded : pluginRun.loaded[p].exec}
             bound == [p \in execs |-> [man |-> pluginRun.loaded[p].man, exe |-> disk[p].exe]]
  <2>1. /\ pluginRun.phase = "bind"
        /\ Gates!PluginError \/ pluginRun' = [pluginRun EXCEPT !.phase = "register", !.bound = bound]
    BY <1>12 DEF Gates!ExecutableToolDefs
  <2>2. DOMAIN bound = execs /\ execs \subseteq DOMAIN pluginRun.loaded
    OBVIOUS
  <2> HIDE DEF bound, execs
  <2>3. CASE pluginRun' = [pluginRun EXCEPT !.phase = "register", !.bound = bound]
    <3>1. /\ DOMAIN pluginRun' = RunFields /\ pluginRun'.phase = "register" /\ pluginRun'.bound = bound
          /\ pluginRun'.loaded = pluginRun.loaded
      BY <1>1, <2>3 DEF RunFields
    <3>2. Discovered /\ Discovered'
      BY <1>4, <1>5, <2>1, <3>1 DEF Discovered
    <3>3. Gates!Present \subseteq Plugins
      BY DEF Gates!Present
    <3> QED
      BY <1>6, <2>2, <3>1, <3>2, <3>3 DEF Gates!Phases, Discovered
  <2> QED
    BY <1>6, <1>9, <2>1, <2>3
<1>13. CASE Gates!RegisterCatalog
  <2>1. CASE Gates!Fails("tool_catalog_failed")
    BY <1>6, <1>7, <2>1 DEF Gates!Fails
  <2>2. CASE pluginRun' = [pluginRun EXCEPT !.phase = "ready"]
    <3>1. pluginRun.phase = "register"
      BY <1>13 DEF Gates!RegisterCatalog
    <3>2. /\ DOMAIN pluginRun' = RunFields /\ pluginRun'.phase = "ready" /\ pluginRun'.bound = pluginRun.bound
          /\ pluginRun'.loaded = pluginRun.loaded
      BY <1>1, <2>2 DEF RunFields
    <3>3. Discovered <=> Discovered'
      BY <1>4, <3>2 DEF Discovered
    <3> QED
      BY <1>5, <1>6, <3>1, <3>2, <3>3 DEF Gates!Phases
  <2> QED
    BY <1>13, <2>1, <2>2 DEF Gates!RegisterCatalog
<1> QED
  BY <1>10, <1>11, <1>12, <1>13 DEF Gates!Compose

\* A step of the dispatcher that changes one call and what is remembered: what
\* it must show of that call.
LEMMA DispatchKeeps ==
  ASSUME PluginConstants, PluginInv, NEW i \in DOMAIN Batch, NEW c \in PluginCall, NEW u,
         UNCHANGED <<disk, pluginEdits, clock, pluginRun, runs>>, pluginRun.phase = "ready",
         pluginCalls' = [pluginCalls EXCEPT ![i] = c], used' = u,
         u \subseteq DOMAIN Batch,
         \A j \in used \ u : pluginCalls[j].expires <= clock,
         pluginCalls[i].state \notin Finished,
         c.state \notin Finished,
         c.state = "checked" => c.checked = pluginRun.bound[Batch[i]] /\ i \in u
  PROVE  PluginInv'
<1>1. /\ pluginCalls \in [DOMAIN Batch -> PluginCall] /\ DOMAIN pluginCalls = DOMAIN Batch
      /\ runs \in Seq(StartedProcess) /\ Gates!PluginTypeOK /\ Gates!RunsWhatWasApproved /\ Gates!OneRunPerApproval
  BY DEF PluginInv
<1>2. /\ pluginCalls' \in [DOMAIN Batch -> PluginCall] /\ DOMAIN pluginCalls' = DOMAIN Batch
      /\ pluginCalls'[i] = c /\ \A j \in DOMAIN Batch : j # i => pluginCalls'[j] = pluginCalls[j]
  BY <1>1
<1>3. Gates!PluginTypeOK'
  <2>1. \A j \in DOMAIN Batch : pluginCalls'[j].state \in CallStates
    BY <1>2 DEF PluginCall
  <2> QED
    BY <1>1, <1>2, <2>1 DEF Gates!PluginTypeOK, CallStates
<1>4. Gates!RunsWhatWasApproved' /\ Gates!OneRunPerApproval'
  BY <1>1 DEF Gates!RunsWhatWasApproved, Gates!OneRunPerApproval
<1>5. (Discovered <=> Discovered') /\ pluginRun' = pluginRun /\ runs' = runs
  BY DEF Discovered, Gates!Present
<1>6. \A j \in DOMAIN Batch : pluginCalls'[j].state = "checked" => pluginCalls'[j].checked = pluginRun.bound[Batch[j]]
  BY <1>2 DEF PluginInv
<1>7. \A j \in DOMAIN Batch : pluginCalls'[j].state \in Consumed => j \in used' \/ pluginCalls'[j].expires <= clock'
  <2> SUFFICES ASSUME NEW j \in DOMAIN Batch, pluginCalls'[j].state \in Consumed
               PROVE  j \in used' \/ pluginCalls'[j].expires <= clock'
    OBVIOUS
  <2>1. CASE j = i
    BY <1>2, <2>1 DEF Consumed, Finished
  <2>2. CASE j # i
    <3>1. j \in used \/ pluginCalls[j].expires <= clock
      BY <1>2, <2>2 DEF PluginInv
    <3> QED
      BY <1>2, <2>2, <3>1
  <2> QED
    BY <2>1, <2>2
<1>8. \A k \in 1..Len(runs) : pluginCalls'[runs[k].call].state \in Finished
  <2> SUFFICES ASSUME NEW k \in 1..Len(runs) PROVE pluginCalls'[runs[k].call].state \in Finished
    OBVIOUS
  <2>1. runs[k] \in StartedProcess
    BY <1>1
  <2>2. runs[k].call \in DOMAIN Batch
    BY <2>1 DEF StartedProcess
  <2>3. pluginCalls[runs[k].call].state \in Finished
    BY DEF PluginInv
  <2> QED
    BY <1>2, <2>2, <2>3
<1>9. /\ DOMAIN pluginRun = RunFields
      /\ pluginRun.phase \in {"register", "ready"} /\ DOMAIN pluginRun.bound # {} =>
           Discovered /\ DOMAIN pluginRun.bound \subseteq DOMAIN pluginRun.loaded
  BY DEF PluginInv
<1> QED
  BY <1>1, <1>2, <1>3, <1>4, <1>5, <1>6, <1>7, <1>8, <1>9 DEF PluginInv

\* A refused call keeps the invariant.
LEMMA DeniedKeeps ==
  ASSUME PluginConstants, PluginInv, NEW i \in DOMAIN Batch, pluginRun.phase = "ready", Gates!Denied(i),
         pluginCalls[i].state \notin Finished,
         UNCHANGED <<disk, pluginEdits, clock, pluginRun, used, runs>>
  PROVE  PluginInv'
<1> DEFINE c == [pluginCalls[i] EXCEPT !.state = "denied"]
<1>1. c \in PluginCall /\ c.state = "denied"
  <2>1. pluginCalls[i] \in PluginCall
    BY DEF PluginInv
  <2> QED
    BY <2>1 DEF PluginCall, CallStates
<1>2. pluginCalls' = [pluginCalls EXCEPT ![i] = c] /\ used \subseteq DOMAIN Batch
  BY DEF Gates!Denied, PluginInv, Gates!PluginTypeOK
<1> QED
  BY <1>1, <1>2, DispatchKeeps DEF Finished

\* The check of a call and the request for its approval.
LEMMA PrepareKeeps ==
  ASSUME PluginConstants, PluginInv, NEW i \in DOMAIN Batch,
         Gates!validateToolExecutorIdentity(i) \/ Gates!requestToolApproval(i)
  PROVE  PluginInv'
<1>1. /\ UNCHANGED <<disk, pluginEdits, clock, pluginRun, used, runs>> /\ pluginRun.phase = "ready"
      /\ pluginCalls[i].state \in {"queued", "asked"}
  BY DEF Gates!validateToolExecutorIdentity, Gates!requestToolApproval, Gates!Turn
<1>2. pluginCalls[i].state \notin Finished /\ used \subseteq DOMAIN Batch /\ pluginCalls[i] \in PluginCall
  BY <1>1 DEF Finished, PluginInv, Gates!PluginTypeOK
<1>3. CASE Gates!Denied(i)
  BY <1>1, <1>2, <1>3, DeniedKeeps
<1>4. CASE pluginCalls' = [pluginCalls EXCEPT ![i] = [@ EXCEPT !.state = "asked",
        !.expires = clock + Lifetime]]
  <2> DEFINE c == [pluginCalls[i] EXCEPT !.state = "asked", !.expires = clock + Lifetime]
  <2>1. clock + Lifetime \in Nat
    BY DEF PluginInv, Gates!PluginTypeOK, PluginConstants
  <2>2. c \in PluginCall /\ c.state = "asked"
    BY <1>2, <2>1 DEF PluginCall, CallStates
  <2> QED
    BY <1>1, <1>2, <1>4, <2>2, DispatchKeeps DEF Finished
<1>5. CASE pluginCalls' = [pluginCalls EXCEPT ![i].state = "proven"]
  <2> DEFINE c == [pluginCalls[i] EXCEPT !.state = "proven"]
  <2>1. c \in PluginCall /\ c.state = "proven"
    BY <1>2 DEF PluginCall, CallStates
  <2> QED
    BY <1>1, <1>2, <1>5, <2>1, DispatchKeeps DEF Finished
<1> QED
  BY <1>3, <1>4, <1>5 DEF Gates!validateToolExecutorIdentity, Gates!requestToolApproval

\* The bound plugin: a proof is consumed on the files it is for, or refused.
LEMMA ExecuteKeeps ==
  ASSUME PluginConstants, PluginInv, NEW i \in DOMAIN Batch, Gates!executeBoundPluginTool(i)
  PROVE  PluginInv'
<1>1. /\ UNCHANGED <<disk, pluginEdits, clock, pluginRun, runs>> /\ pluginRun.phase = "ready"
      /\ pluginCalls[i].state = "proven"
  BY DEF Gates!executeBoundPluginTool, Gates!MayExecute
<1>2. pluginCalls[i].state \notin Finished /\ used \subseteq DOMAIN Batch /\ pluginCalls[i] \in PluginCall
  BY <1>1 DEF Finished, PluginInv, Gates!PluginTypeOK
<1>3. CASE Gates!Denied(i) /\ UNCHANGED used
  BY <1>1, <1>2, <1>3, DeniedKeeps
<1>4. CASE /\ Gates!validatePluginBindingArtifacts(Batch[i])
           /\ pluginCalls' = [pluginCalls EXCEPT ![i] = [@ EXCEPT !.state = "checked",
                   !.checked = Gates!OnDisk(Batch[i])]]
           /\ used' = {u \in used : pluginCalls[u].expires > clock} \cup {i}
  <2> DEFINE c == [pluginCalls[i] EXCEPT !.state = "checked", !.checked = Gates!OnDisk(Batch[i])]
  <2>1. Gates!OnDisk(Batch[i]) \in Bindings
    <3>1. Batch[i] \in Plugins
      BY DEF PluginConstants
    <3>2. disk[Batch[i]] \in Gates!PluginFiles
      BY <3>1 DEF PluginInv, Gates!PluginTypeOK
    <3> QED
      BY <3>2 DEF Gates!PluginFiles, Bindings, Gates!OnDisk
  <2>2. c \in PluginCall /\ c.state = "checked" /\ c.checked = Gates!OnDisk(Batch[i])
    BY <1>2, <2>1 DEF PluginCall, CallStates
  <2>3. c.checked = pluginRun.bound[Batch[i]]
    BY <1>4, <2>2 DEF Gates!validatePluginBindingArtifacts
  <2>4. \A j \in used : pluginCalls[j].expires \in Nat
    BY <1>2 DEF PluginInv, PluginCall
  <2>5. clock \in Nat
    BY DEF PluginInv, Gates!PluginTypeOK, PluginConstants
  <2>6. \A j \in used \ used' : pluginCalls[j].expires <= clock
    BY <1>4, <2>4, <2>5
  <2>7. used' \subseteq DOMAIN Batch /\ i \in used'
    BY <1>2, <1>4
  <2> QED
    BY <1>1, <1>2, <1>4, <2>2, <2>3, <2>6, <2>7, DispatchKeeps DEF Finished
<1> QED
  BY <1>3, <1>4 DEF Gates!executeBoundPluginTool

\* Handing the proof again changes nothing: it is remembered, or expired.
LEMMA AgainKeeps ==
  ASSUME PluginConstants, PluginInv, NEW i \in DOMAIN Batch, Gates!HandedAgain(i)
  PROVE  UNCHANGED Gates!pluginVars
<1>1. pluginCalls[i].state \in Consumed
  BY DEF Gates!HandedAgain, Consumed
<1>2. i \in used \/ pluginCalls[i].expires <= clock
  BY <1>1 DEF PluginInv
<1>3. pluginCalls[i].expires \in Nat /\ clock \in Nat
  BY DEF PluginInv, Gates!PluginTypeOK, PluginCall, PluginConstants
<1>4. ~Gates!consumePluginApprovalProof(i)
  BY <1>2, <1>3 DEF Gates!consumePluginApprovalProof
<1> QED
  BY <1>4 DEF Gates!HandedAgain, Gates!pluginVars

\* A process is started for a call that was checked, and finishes it.
LEMMA ProcessKeeps ==
  ASSUME PluginConstants, PluginInv, NEW i \in DOMAIN Batch, Gates!RunProcess(i)
  PROVE  PluginInv'
<1>1. PICK started \in BOOLEAN, isolation \in BOOLEAN, good \in BOOLEAN :
        /\ pluginCalls' = [pluginCalls EXCEPT ![i].state =
             IF started /\ ~isolation THEN "blocked" ELSE IF started /\ good THEN "ok" ELSE "failed"]
        /\ runs' = IF started THEN Append(runs, [call |-> i, checked |-> pluginCalls[i].checked,
                isolation |-> isolation]) ELSE runs
  BY DEF Gates!RunProcess
<1> DEFINE s == IF started /\ ~isolation THEN "blocked" ELSE IF started /\ good THEN "ok" ELSE "failed"
           p == [call |-> i, checked |-> pluginCalls[i].checked, isolation |-> isolation]
<1>2. /\ UNCHANGED <<disk, pluginEdits, clock, pluginRun, used>> /\ pluginRun.phase = "ready"
      /\ pluginCalls[i].state = "checked"
  BY DEF Gates!RunProcess, Gates!MayExecute
<1>3. /\ pluginCalls \in [DOMAIN Batch -> PluginCall] /\ DOMAIN pluginCalls = DOMAIN Batch
      /\ runs \in Seq(StartedProcess) /\ Len(runs) \in Nat /\ DOMAIN runs = 1..Len(runs)
      /\ Gates!PluginTypeOK /\ Gates!RunsWhatWasApproved /\ Gates!OneRunPerApproval
      /\ pluginCalls[i].checked = pluginRun.bound[Batch[i]]
      /\ i \in used \/ pluginCalls[i].expires <= clock
  BY <1>2 DEF PluginInv, Consumed
<1>4. s \in Finished /\ s \in CallStates
  BY DEF Finished, CallStates
<1>5. p \in StartedProcess /\ p.call = i /\ p.checked = pluginRun.bound[Batch[i]]
  BY <1>3 DEF StartedProcess, PluginCall
<1>6. /\ pluginCalls' = [pluginCalls EXCEPT ![i].state = s]
      /\ runs' = Append(runs, p) \/ runs' = runs
  BY <1>1
<1> HIDE DEF s, p
<1>7. /\ pluginCalls' \in [DOMAIN Batch -> PluginCall] /\ DOMAIN pluginCalls' = DOMAIN Batch
      /\ pluginCalls'[i].state = s /\ pluginCalls'[i].expires = pluginCalls[i].expires
      /\ \A j \in DOMAIN Batch : j # i => pluginCalls'[j] = pluginCalls[j]
  BY <1>3, <1>4, <1>6 DEF PluginCall
<1>8. \A k \in 1..Len(runs) : /\ runs[k].call \in DOMAIN Batch /\ runs[k].call # i
                              /\ pluginCalls[runs[k].call].state \in Finished
  <2>1. \A k \in 1..Len(runs) : runs[k] \in StartedProcess
    BY <1>3
  <2>2. \A k \in 1..Len(runs) : runs[k].call \in DOMAIN Batch
    BY <2>1 DEF StartedProcess
  <2>3. \A k \in 1..Len(runs) : pluginCalls[runs[k].call].state \in Finished
    BY DEF PluginInv
  <2> QED
    BY <1>2, <2>2, <2>3 DEF Finished
<1>9. /\ runs' \in Seq(StartedProcess) /\ Len(runs') \in Nat /\ DOMAIN runs' = 1..Len(runs')
      /\ \A k \in 1..Len(runs') : \/ k \in 1..Len(runs) /\ runs'[k] = runs[k]
                                  \/ k = Len(runs) + 1 /\ runs'[k] = p
  <2>1. CASE runs' = runs
    BY <1>3, <2>1
  <2>2. CASE runs' = Append(runs, p)
    BY <1>3, <1>5, <2>2
  <2> QED
    BY <1>6, <2>1, <2>2
<1>10. Gates!PluginTypeOK'
  <2>1. \A j \in DOMAIN Batch : pluginCalls'[j].state \in CallStates
    BY <1>7 DEF PluginCall
  <2> QED
    BY <1>2, <1>3, <1>7, <2>1 DEF Gates!PluginTypeOK, CallStates
<1>11. Gates!RunsWhatWasApproved'
  BY <1>2, <1>3, <1>5, <1>9 DEF Gates!RunsWhatWasApproved
<1>12. Gates!OneRunPerApproval'
  <2> SUFFICES ASSUME NEW k \in 1..Len(runs'), NEW l \in 1..Len(runs'), runs'[k].call = runs'[l].call
               PROVE  k = l
    BY <1>9 DEF Gates!OneRunPerApproval
  <2> QED
    BY <1>3, <1>5, <1>8, <1>9 DEF Gates!OneRunPerApproval
<1>13. (Discovered <=> Discovered') /\ pluginRun' = pluginRun
  BY <1>2 DEF Discovered, Gates!Present
<1>14. \A j \in DOMAIN Batch : pluginCalls'[j].state = "checked" => pluginCalls'[j].checked = pluginRun.bound[Batch[j]]
  BY <1>4, <1>7 DEF PluginInv, Finished
<1>15. \A j \in DOMAIN Batch : pluginCalls'[j].state \in Consumed => j \in used' \/ pluginCalls'[j].expires <= clock'
  <2> SUFFICES ASSUME NEW j \in DOMAIN Batch, pluginCalls'[j].state \in Consumed
               PROVE  j \in used' \/ pluginCalls'[j].expires <= clock'
    OBVIOUS
  <2>1. CASE j = i
    BY <1>2, <1>3, <1>7, <2>1
  <2>2. CASE j # i
    BY <1>2, <1>7, <2>2 DEF PluginInv
  <2> QED
    BY <2>1, <2>2
<1>16. \A k \in 1..Len(runs') : pluginCalls'[runs'[k].call].state \in Finished
  BY <1>4, <1>5, <1>7, <1>8, <1>9
<1>17. /\ DOMAIN pluginRun = RunFields
       /\ pluginRun.phase \in {"register", "ready"} /\ DOMAIN pluginRun.bound # {} =>
            Discovered /\ DOMAIN pluginRun.bound \subseteq DOMAIN pluginRun.loaded
  BY DEF PluginInv
<1> QED
  BY <1>2, <1>7, <1>9, <1>10, <1>11, <1>12, <1>13, <1>14, <1>15, <1>16, <1>17 DEF PluginInv

\* Plugins keep their invariant.
LEMMA PluginInvariant ==
  ASSUME PluginConstants
  PROVE  Gates!PluginSpec => []PluginInv
<1>1. Gates!PluginInit => PluginInv
  BY PluginInitially
<1>2. ASSUME PluginInv, [Gates!PluginNext]_(Gates!pluginVars) PROVE PluginInv'
  <2>1. DOMAIN pluginCalls = DOMAIN Batch
    BY <1>2 DEF PluginInv
  <2>2. CASE Gates!EditFile \/ Gates!Tick \/ UNCHANGED Gates!pluginVars
    BY <1>2, <2>2, OutsideKeeps
  <2>3. CASE Gates!Compose
    BY <1>2, <2>3, ComposeKeeps
  <2>4. ASSUME NEW i \in DOMAIN Batch,
               \/ Gates!validateToolExecutorIdentity(i) \/ Gates!requestToolApproval(i)
               \/ Gates!executeBoundPluginTool(i) \/ Gates!RunProcess(i) \/ Gates!HandedAgain(i)
        PROVE  PluginInv'
    <3>1. CASE Gates!HandedAgain(i)
      BY <1>2, <3>1, AgainKeeps, OutsideKeeps
    <3> QED
      BY <1>2, <2>4, <3>1, PrepareKeeps, ExecuteKeeps, ProcessKeeps
  <2> QED
    BY <1>2, <2>1, <2>2, <2>3, <2>4 DEF Gates!PluginNext
<1> QED
  BY <1>1, <1>2, PTL DEF Gates!PluginSpec

\* What a plugin runs is what its user approved, and one approval starts at
\* most one process (executeBoundPluginTool, consumePluginApprovalProof).
THEOREM PluginsRunAsApproved ==
  ASSUME PluginConstants
  PROVE  Gates!PluginSpec => [](Gates!RunsWhatWasApproved /\ Gates!OneRunPerApproval)
<1>1. PluginInv => Gates!RunsWhatWasApproved /\ Gates!OneRunPerApproval
  BY DEF PluginInv
<1> QED
  BY <1>1, PluginInvariant, PTL

\* No run has part of a set of plugins (LoadAllStrict, RegisterCatalog).
THEOREM CatalogsAreWhole ==
  ASSUME PluginConstants
  PROVE  Gates!PluginSpec => [](Gates!PluginTypeOK /\ Gates!CatalogAllOrNothing)
<1>1. PluginInv => Gates!PluginTypeOK /\ Gates!CatalogAllOrNothing
  BY DEF PluginInv, Gates!CatalogAllOrNothing, Discovered
<1> QED
  BY <1>1, PluginInvariant, PTL

=============================================================================
