------------------------- MODULE LoopRegistryProofs -------------------------
(***************************************************************************)
(* The loop registry keeps its slots and its promises for every number of  *)
(* handlers, every capacity and every set of configurations.               *)
(***************************************************************************)
EXTENDS LoopRegistry, Sequences, FiniteSetTheorems, TLAPS

\* The handlers that owe a slot, those the wait group counts, and those in
\* the map of loops.
SlotPlaces == {"slot", "refused", "registered", "running", "removed"}
CountedPlaces == {"registered", "running", "removed", "slotBack"}
LoopPlaces == {"registered", "running"}

In(f, P) == {h \in Handlers : f[h] \in P}

\* The inductive invariant: the counters are the cardinalities of the places,
\* the map of loops is a place, and shuttingDown is set before Shutdown goes on.
RegistryInv ==
  /\ TypeOK
  /\ loops = In(at, LoopPlaces)
  /\ sem = Cardinality(In(at, SlotPlaces))
  /\ wg = Cardinality(In(at, CountedPlaces))
  /\ shutdown # "none" => shuttingDown
  /\ shutdown = "drained" => In(at, CountedPlaces) = {}
  /\ \A h \in loops : at[h] = "running" => snapshot[h] = config

\* A set of handlers that gains or loses one.
LEMMA OneMore ==
  ASSUME NEW S \in SUBSET Handlers, NEW h, h \notin S
  PROVE  Cardinality(S \cup {h}) = Cardinality(S) + 1
BY RegistryAssumption, FS_Subset, FS_AddElement

\* A counter of handlers is positive when it counts one that leaves.
LEMMA OneLess ==
  ASSUME NEW S \in SUBSET Handlers, NEW h \in S
  PROVE  /\ Cardinality(S \ {h}) = Cardinality(S) - 1
         /\ Cardinality(S) \in Nat \ {0}
<1>1. IsFiniteSet(S)
  BY RegistryAssumption, FS_Subset
<1>2. Cardinality(S) \in Nat /\ Cardinality(S) # 0
  BY <1>1, FS_CardinalityType, FS_EmptySet
<1> QED
  BY <1>1, <1>2, FS_RemoveElement

\* The invariant holds initially.
LEMMA RegistryInit == Init => RegistryInv
<1> SUFFICES ASSUME Init PROVE RegistryInv
  OBVIOUS
<1>1. /\ In(at, LoopPlaces) = {}
      /\ In(at, SlotPlaces) = {}
      /\ In(at, CountedPlaces) = {}
  BY DEF Init, In, LoopPlaces, SlotPlaces, CountedPlaces
<1>2. shuttingDown \in BOOLEAN
  BY Zenon DEF Init
<1>3. TypeOK
  BY <1>2, RegistryAssumption DEF Init, TypeOK, Places
<1> QED
  BY <1>1, <1>3, FS_EmptySet DEF Init, RegistryInv

\* shuttingDown is only ever set.
LEMMA ShuttingDownStep ==
  ASSUME TypeOK, [Next]_vars
  PROVE  /\ shuttingDown' \in BOOLEAN
         /\ shuttingDown => shuttingDown'
<1>1. shuttingDown' = shuttingDown \/ shuttingDown' = TRUE
  BY Zenon DEF Next, vars, RegisterStep, ReleaseStep, ShutdownStep, RegisterCheck, RegisterSlot,
      RegisterInsert, RegisterLost, ReturnSlot, ReadRuntime, ReleaseRemove, ReleaseSlot,
      WaitGroupDone, ClientGone, CancelLookup, CancelFire, ApplyConfigUpdate, ShutdownBegin,
      ShutdownCancel, ShutdownWait, ShutdownDrained, ShutdownTimeout
<1> QED
  BY <1>1, Zenon DEF TypeOK

\* A step that moves no handler and changes neither the counters nor the map
\* of loops keeps the places.
LEMMA NobodyMoves ==
  ASSUME RegistryInv, UNCHANGED <<at, sem, loops, wg, snapshot>>, shuttingDown' \in BOOLEAN,
         shuttingDown => shuttingDown',
         canceled' \subseteq Handlers, looked' \subseteq Handlers, live' \subseteq Handlers,
         shutdown' \in {"none", "canceling", "waiting", "drained", "timedOut"},
         shutdown' # "none" => shuttingDown',
         shutdown' = "drained" => In(at, CountedPlaces) = {},
         config' \in Configs,
         config' = config \/ loops = {}
  PROVE  RegistryInv'
<1>1. TypeOK'
  BY DEF RegistryInv, TypeOK
<1> QED
  BY <1>1 DEF RegistryInv, In

\* Every move of a handler keeps the invariant: Register and release move it
\* through their places and adjust semaphore, wait group and map to match.
LEMMA HandlerStep ==
  ASSUME RegistryInv, NEW h \in Handlers, RegisterStep(h) \/ ReleaseStep(h),
         shuttingDown' \in BOOLEAN
  PROVE  RegistryInv'
<1>0. /\ TypeOK
      /\ at \in [Handlers -> Places]
      /\ wg \in Nat /\ sem \in Nat /\ MaxConcurrent \in Nat
      /\ In(at, SlotPlaces) \subseteq Handlers
      /\ In(at, CountedPlaces) \subseteq Handlers
  BY RegistryAssumption DEF RegistryInv, TypeOK, In
<1>1. CASE RegisterCheck(h)
  <2>1. /\ at' \in [Handlers -> Places]
        /\ at[h] = "idle" /\ at'[h] \in {"gone", "admitted"}
        /\ \A x \in Handlers : x # h => at'[x] = at[x]
    BY <1>0, <1>1 DEF RegisterCheck, Moves, Places
  <2>2. /\ In(at', SlotPlaces) = In(at, SlotPlaces)
        /\ In(at', CountedPlaces) = In(at, CountedPlaces)
        /\ In(at', LoopPlaces) = In(at, LoopPlaces)
    BY <2>1 DEF In, SlotPlaces, CountedPlaces, LoopPlaces
  <2>3. TypeOK'
    BY <1>0, <1>1, <2>1, <2>2 DEF RegistryInv, TypeOK, RegisterCheck
  <2>4. \A x \in loops' : at'[x] = "running" => snapshot'[x] = config'
    BY <1>0, <1>1, <2>1, <2>2 DEF RegistryInv, TypeOK, RegisterCheck
  <2> QED
    BY <1>0, <1>1, <2>1, <2>2, <2>3, <2>4 DEF RegistryInv, RegisterCheck
<1>2. CASE RegisterSlot(h) /\ sem < MaxConcurrent
  <2>1. /\ at' \in [Handlers -> Places]
        /\ at[h] = "admitted" /\ at'[h] = "slot"
        /\ \A x \in Handlers : x # h => at'[x] = at[x]
    BY <1>0, <1>2 DEF RegisterSlot, Moves, Places
  <2>2. /\ In(at', SlotPlaces) = In(at, SlotPlaces) \cup {h}
        /\ In(at', CountedPlaces) = In(at, CountedPlaces)
        /\ In(at', LoopPlaces) = In(at, LoopPlaces)
    BY <2>1 DEF In, SlotPlaces, CountedPlaces, LoopPlaces
  <2>3. Cardinality(In(at', SlotPlaces)) = Cardinality(In(at, SlotPlaces)) + 1
    <3>1. h \notin In(at, SlotPlaces)
      BY <2>1 DEF In, SlotPlaces
    <3> QED
      BY <1>0, <2>2, <3>1, OneMore
  <2>4. TypeOK'
    BY <1>0, <1>2, <2>1, <2>2, <2>3 DEF RegistryInv, TypeOK, RegisterSlot
  <2>5. \A x \in loops' : at'[x] = "running" => snapshot'[x] = config'
    BY <1>0, <1>2, <2>1, <2>2, <2>3 DEF RegistryInv, TypeOK, RegisterSlot
  <2> QED
    BY <1>0, <1>2, <2>1, <2>2, <2>3, <2>4, <2>5 DEF RegistryInv, RegisterSlot
<1>3. CASE RegisterSlot(h) /\ ~(sem < MaxConcurrent)
  <2>1. /\ at' \in [Handlers -> Places]
        /\ at[h] = "admitted" /\ at'[h] = "gone"
        /\ \A x \in Handlers : x # h => at'[x] = at[x]
    BY <1>0, <1>3 DEF RegisterSlot, Moves, Places
  <2>2. /\ In(at', SlotPlaces) = In(at, SlotPlaces)
        /\ In(at', CountedPlaces) = In(at, CountedPlaces)
        /\ In(at', LoopPlaces) = In(at, LoopPlaces)
    BY <2>1 DEF In, SlotPlaces, CountedPlaces, LoopPlaces
  <2>3. TypeOK'
    BY <1>0, <1>3, <2>1, <2>2 DEF RegistryInv, TypeOK, RegisterSlot
  <2>4. \A x \in loops' : at'[x] = "running" => snapshot'[x] = config'
    BY <1>0, <1>3, <2>1, <2>2 DEF RegistryInv, TypeOK, RegisterSlot
  <2> QED
    BY <1>0, <1>3, <2>1, <2>2, <2>3, <2>4 DEF RegistryInv, RegisterSlot
<1>4. CASE RegisterInsert(h)
  <2>1. /\ at' \in [Handlers -> Places]
        /\ at[h] = "slot" /\ at'[h] = "registered"
        /\ \A x \in Handlers : x # h => at'[x] = at[x]
    BY <1>0, <1>4 DEF RegisterInsert, Moves, Places
  <2>2. /\ In(at', SlotPlaces) = In(at, SlotPlaces)
        /\ In(at', CountedPlaces) = In(at, CountedPlaces) \cup {h}
        /\ In(at', LoopPlaces) = In(at, LoopPlaces) \cup {h}
    BY <2>1 DEF In, SlotPlaces, CountedPlaces, LoopPlaces
  <2>3. Cardinality(In(at', CountedPlaces)) = Cardinality(In(at, CountedPlaces)) + 1
    <3>1. h \notin In(at, CountedPlaces)
      BY <2>1 DEF In, CountedPlaces
    <3> QED
      BY <1>0, <2>2, <3>1, OneMore
  <2>4. shutdown # "drained"
    BY <1>4 DEF RegistryInv, RegisterInsert, MayInsert
  <2>5. TypeOK'
    BY <1>0, <1>4, <2>1, <2>2, <2>3, <2>4 DEF RegistryInv, TypeOK, RegisterInsert
  <2>6. \A x \in loops' : at'[x] = "running" => snapshot'[x] = config'
    BY <1>0, <1>4, <2>1, <2>2, <2>3, <2>4 DEF RegistryInv, TypeOK, RegisterInsert
  <2> QED
    BY <1>0, <1>4, <2>1, <2>2, <2>3, <2>4, <2>5, <2>6 DEF RegistryInv, RegisterInsert
<1>5. CASE RegisterLost(h)
  <2>1. /\ at' \in [Handlers -> Places]
        /\ at[h] = "slot" /\ at'[h] = "refused"
        /\ \A x \in Handlers : x # h => at'[x] = at[x]
    BY <1>0, <1>5 DEF RegisterLost, Moves, Places
  <2>2. /\ In(at', SlotPlaces) = In(at, SlotPlaces)
        /\ In(at', CountedPlaces) = In(at, CountedPlaces)
        /\ In(at', LoopPlaces) = In(at, LoopPlaces)
    BY <2>1 DEF In, SlotPlaces, CountedPlaces, LoopPlaces
  <2>3. TypeOK'
    BY <1>0, <1>5, <2>1, <2>2 DEF RegistryInv, TypeOK, RegisterLost
  <2>4. \A x \in loops' : at'[x] = "running" => snapshot'[x] = config'
    BY <1>0, <1>5, <2>1, <2>2 DEF RegistryInv, TypeOK, RegisterLost
  <2> QED
    BY <1>0, <1>5, <2>1, <2>2, <2>3, <2>4 DEF RegistryInv, RegisterLost
<1>6. CASE ReturnSlot(h)
  <2>1. /\ at' \in [Handlers -> Places]
        /\ at[h] = "refused" /\ at'[h] = "gone"
        /\ \A x \in Handlers : x # h => at'[x] = at[x]
    BY <1>0, <1>6 DEF ReturnSlot, Moves, Places
  <2>2. /\ In(at', SlotPlaces) = In(at, SlotPlaces) \ {h}
        /\ In(at', CountedPlaces) = In(at, CountedPlaces)
        /\ In(at', LoopPlaces) = In(at, LoopPlaces)
    BY <2>1 DEF In, SlotPlaces, CountedPlaces, LoopPlaces
  <2>3. /\ Cardinality(In(at', SlotPlaces)) = Cardinality(In(at, SlotPlaces)) - 1
        /\ Cardinality(In(at, SlotPlaces)) \in Nat \ {0}
    <3>1. h \in In(at, SlotPlaces)
      BY <2>1 DEF In, SlotPlaces
    <3> QED
      BY <1>0, <2>2, <3>1, OneLess
  <2>4. TypeOK'
    BY <1>0, <1>6, <2>1, <2>2, <2>3 DEF RegistryInv, TypeOK, ReturnSlot
  <2>5. \A x \in loops' : at'[x] = "running" => snapshot'[x] = config'
    BY <1>0, <1>6, <2>1, <2>2, <2>3 DEF RegistryInv, TypeOK, ReturnSlot
  <2> QED
    BY <1>0, <1>6, <2>1, <2>2, <2>3, <2>4, <2>5 DEF RegistryInv, ReturnSlot
<1>7. CASE ReadRuntime(h)
  <2>1. /\ at' \in [Handlers -> Places]
        /\ at[h] = "registered" /\ at'[h] = "running"
        /\ \A x \in Handlers : x # h => at'[x] = at[x]
    BY <1>0, <1>7 DEF ReadRuntime, Moves, Places
  <2>2. /\ In(at', SlotPlaces) = In(at, SlotPlaces)
        /\ In(at', CountedPlaces) = In(at, CountedPlaces)
        /\ In(at', LoopPlaces) = In(at, LoopPlaces)
    BY <2>1 DEF In, SlotPlaces, CountedPlaces, LoopPlaces
  <2>3. TypeOK'
    BY <1>0, <1>7, <2>1, <2>2 DEF RegistryInv, TypeOK, ReadRuntime
  <2>4. \A x \in loops' : at'[x] = "running" => snapshot'[x] = config'
    BY <1>0, <1>7, <2>1, <2>2 DEF RegistryInv, TypeOK, ReadRuntime
  <2> QED
    BY <1>0, <1>7, <2>1, <2>2, <2>3, <2>4 DEF RegistryInv, ReadRuntime
<1>8. CASE ReleaseRemove(h)
  <2>1. /\ at' \in [Handlers -> Places]
        /\ at[h] \in {"registered", "running"} /\ at'[h] = "removed"
        /\ \A x \in Handlers : x # h => at'[x] = at[x]
    BY <1>0, <1>8 DEF ReleaseRemove, Places
  <2>2. /\ In(at', SlotPlaces) = In(at, SlotPlaces)
        /\ In(at', CountedPlaces) = In(at, CountedPlaces)
        /\ In(at', LoopPlaces) = In(at, LoopPlaces) \ {h}
    BY <2>1 DEF In, SlotPlaces, CountedPlaces, LoopPlaces
  <2>3. TypeOK'
    BY <1>0, <1>8, <2>1, <2>2 DEF RegistryInv, TypeOK, ReleaseRemove
  <2>4. \A x \in loops' : at'[x] = "running" => snapshot'[x] = config'
    BY <1>0, <1>8, <2>1, <2>2 DEF RegistryInv, TypeOK, ReleaseRemove
  <2> QED
    BY <1>0, <1>8, <2>1, <2>2, <2>3, <2>4 DEF RegistryInv, ReleaseRemove
<1>9. CASE ReleaseSlot(h)
  <2>1. /\ at' \in [Handlers -> Places]
        /\ at[h] = "removed" /\ at'[h] = "slotBack"
        /\ \A x \in Handlers : x # h => at'[x] = at[x]
    BY <1>0, <1>9 DEF ReleaseSlot, Moves, Places
  <2>2. /\ In(at', SlotPlaces) = In(at, SlotPlaces) \ {h}
        /\ In(at', CountedPlaces) = In(at, CountedPlaces)
        /\ In(at', LoopPlaces) = In(at, LoopPlaces)
    BY <2>1 DEF In, SlotPlaces, CountedPlaces, LoopPlaces
  <2>3. /\ Cardinality(In(at', SlotPlaces)) = Cardinality(In(at, SlotPlaces)) - 1
        /\ Cardinality(In(at, SlotPlaces)) \in Nat \ {0}
    <3>1. h \in In(at, SlotPlaces)
      BY <2>1 DEF In, SlotPlaces
    <3> QED
      BY <1>0, <2>2, <3>1, OneLess
  <2>4. TypeOK'
    BY <1>0, <1>9, <2>1, <2>2, <2>3 DEF RegistryInv, TypeOK, ReleaseSlot
  <2>5. \A x \in loops' : at'[x] = "running" => snapshot'[x] = config'
    BY <1>0, <1>9, <2>1, <2>2, <2>3 DEF RegistryInv, TypeOK, ReleaseSlot
  <2> QED
    BY <1>0, <1>9, <2>1, <2>2, <2>3, <2>4, <2>5 DEF RegistryInv, ReleaseSlot
<1>10. CASE WaitGroupDone(h)
  <2>1. /\ at' \in [Handlers -> Places]
        /\ at[h] = "slotBack" /\ at'[h] = "gone"
        /\ \A x \in Handlers : x # h => at'[x] = at[x]
    BY <1>0, <1>10 DEF WaitGroupDone, Moves, Places
  <2>2. /\ In(at', SlotPlaces) = In(at, SlotPlaces)
        /\ In(at', CountedPlaces) = In(at, CountedPlaces) \ {h}
        /\ In(at', LoopPlaces) = In(at, LoopPlaces)
    BY <2>1 DEF In, SlotPlaces, CountedPlaces, LoopPlaces
  <2>3. /\ Cardinality(In(at', CountedPlaces)) = Cardinality(In(at, CountedPlaces)) - 1
        /\ Cardinality(In(at, CountedPlaces)) \in Nat \ {0}
    <3>1. h \in In(at, CountedPlaces)
      BY <2>1 DEF In, CountedPlaces
    <3> QED
      BY <1>0, <2>2, <3>1, OneLess
  <2>4. TypeOK'
    BY <1>0, <1>10, <2>1, <2>2, <2>3 DEF RegistryInv, TypeOK, WaitGroupDone
  <2>5. \A x \in loops' : at'[x] = "running" => snapshot'[x] = config'
    BY <1>0, <1>10, <2>1, <2>2, <2>3 DEF RegistryInv, TypeOK, WaitGroupDone
  <2> QED
    BY <1>0, <1>10, <2>1, <2>2, <2>3, <2>4, <2>5 DEF RegistryInv, WaitGroupDone
<1> QED
  BY <1>1, <1>2, <1>3, <1>4, <1>5, <1>6, <1>7, <1>8, <1>9, <1>10 DEF RegisterStep, ReleaseStep

\* Every step of the registry keeps the invariant.
LEMMA RegistryStep == RegistryInv /\ [Next]_vars => RegistryInv'
<1> SUFFICES ASSUME RegistryInv, [Next]_vars PROVE RegistryInv'
  OBVIOUS
<1>0. shuttingDown' \in BOOLEAN /\ (shuttingDown => shuttingDown')
  BY ShuttingDownStep, Zenon DEF RegistryInv
<1>1. ASSUME NEW h \in Handlers, RegisterStep(h) \/ ReleaseStep(h) PROVE RegistryInv'
  BY <1>0, <1>1, HandlerStep
<1>2. ASSUME NEW h \in Handlers, ClientGone(h) \/ CancelLookup(h) \/ CancelFire(h) PROVE RegistryInv'
  BY <1>0, <1>2, NobodyMoves DEF ClientGone, CancelLookup, CancelFire, RegistryInv, TypeOK
<1>3. ASSUME NEW c \in Configs, ApplyConfigUpdate(c) PROVE RegistryInv'
  <2>1. loops = {}
    BY <1>3, RegistryAssumption, FS_Subset, FS_EmptySet DEF ApplyConfigUpdate, ActiveRuns, RegistryInv, TypeOK
  <2> QED
    BY <1>0, <1>3, <2>1, NobodyMoves DEF ApplyConfigUpdate, RegistryInv, TypeOK
<1>4. CASE ShutdownBegin
  BY <1>0, <1>4, NobodyMoves DEF ShutdownBegin, RegistryInv, TypeOK
<1>5. ASSUME NEW h \in Handlers, ShutdownCancel(h) PROVE RegistryInv'
  BY <1>0, <1>5, NobodyMoves DEF ShutdownCancel, RegistryInv, TypeOK
<1>6. CASE ShutdownWait \/ ShutdownTimeout
  BY <1>0, <1>6, NobodyMoves DEF ShutdownWait, ShutdownTimeout, RegistryInv, TypeOK
<1>7. CASE ShutdownDrained
  <2>1. In(at, CountedPlaces) = {}
    BY <1>7, RegistryAssumption, FS_Subset, FS_EmptySet DEF ShutdownDrained, RegistryInv, In
  <2> QED
    BY <1>0, <1>7, <2>1, NobodyMoves DEF ShutdownDrained, RegistryInv, TypeOK
<1>8. CASE UNCHANGED vars
  BY <1>0, <1>8, NobodyMoves DEF vars, RegistryInv, TypeOK
<1> QED
  BY <1>1, <1>2, <1>3, <1>4, <1>5, <1>6, <1>7, <1>8 DEF Next, ShutdownStep

\* The inductive invariant holds in every reachable state.
LEMMA RegistryInvariant == Spec => []RegistryInv
BY RegistryInit, RegistryStep, PTL DEF Spec

\* Counters, maps and the places of the handlers keep their types; in
\* particular the semaphore never exceeds its capacity or falls below zero.
THEOREM RegistryTypeCorrect == Spec => []TypeOK
<1>1. RegistryInv => TypeOK
  BY DEF RegistryInv
<1> QED
  BY <1>1, RegistryInvariant, PTL

\* Register and release conserve slots: the semaphore is the number of
\* handlers that owe a slot, and no more loops run than slots are taken.
THEOREM SlotsAreConserved == Spec => []SlotsConserved
<1>1. RegistryInv => SlotsConserved
  <2> SUFFICES ASSUME RegistryInv PROVE SlotsConserved
    OBVIOUS
  <2>1. In(at, SlotPlaces) = Holding({"slot", "refused", "registered", "running", "removed"})
    BY DEF In, Holding, SlotPlaces
  <2>2. In(at, LoopPlaces) \subseteq In(at, SlotPlaces)
    BY DEF In, SlotPlaces, LoopPlaces
  <2>3. IsFiniteSet(In(at, SlotPlaces))
    BY RegistryAssumption, FS_Subset DEF In
  <2>4. Cardinality(In(at, LoopPlaces)) <= Cardinality(In(at, SlotPlaces))
    BY <2>2, <2>3, FS_Subset
  <2> QED
    BY <2>1, <2>4 DEF RegistryInv, SlotsConserved
<1> QED
  BY <1>1, RegistryInvariant, PTL

\* Once Shutdown has reported that every loop drained, no loop is running and
\* none starts: a registration that raced Shutdown was refused.
THEOREM DrainIsFinal == Spec => []DrainedIsFinal
<1>1. RegistryInv => DrainedIsFinal
  BY DEF RegistryInv, DrainedIsFinal, In, Holding, CountedPlaces
<1> QED
  BY <1>1, RegistryInvariant, PTL

\* No registered run outlives the configuration it read: the barrier in front
\* of applyConfigUpdate excludes every registered loop.
THEOREM ConfigurationIsStable == Spec => []ConfigStable
<1>1. RegistryInv => ConfigStable
  BY DEF RegistryInv, ConfigStable
<1> QED
  BY <1>1, RegistryInvariant, PTL

-----------------------------------------------------------------------------
(***************************************************************************)
(* The loop a registered handler runs: one run of the agent kernel, for    *)
(* every profile, contract and budget.                                     *)
(***************************************************************************)
CONSTANTS Criteria, NeedsEvidence, MaxRefs, MaxStopBlocks, Profiles, MaxIterations, MaxErrorRounds,
          MaxCorrections, MaxVerify, MaxCompact, MaxCalls, ReadRounds, MoreRounds
VARIABLES run, pc, i, try, used, tools, explored, awaiting, edited, denied, tested, contract, refs,
          records, cycles, shown, receipt, beating, cancelled, hooks, mcp, outcome, closed, fresh

Loop == INSTANCE AgentLoop

\* What the profiles and the budgets are.
LoopConstants ==
  /\ Profiles \subseteq [mcp : {"none", "owned", "borrowed"}, task : {"quick", "normal", "deep"},
                         policy : {"off", "measure", "advisory", "block"}, strict : BOOLEAN,
                         question : BOOLEAN, docs : BOOLEAN, verify : BOOLEAN, mode : BOOLEAN,
                         selector : BOOLEAN]
  /\ MaxRefs \in Nat /\ MaxStopBlocks \in Nat /\ MaxIterations \in Nat /\ MaxCorrections \in Nat
  /\ MaxCompact \in Nat /\ ReadRounds \in Nat
  /\ MaxErrorRounds \in Nat \ {0} /\ MaxVerify \in Nat \ {0} /\ MaxCalls \in Nat \ {0}
  /\ MoreRounds \in Nat \ {0}

Budgets ==
  [parser : 0 .. MaxCorrections, selector : 0 .. MaxCorrections, completion : 0 .. MaxCorrections,
   verify : 0 .. MaxVerify, compact : 0 .. MaxCompact, stopBlocks : 0 .. MaxStopBlocks,
   errors : 0 .. MaxErrorRounds]
Contracts ==
  [state : [Criteria -> {"pending", "satisfied", "blocked"}], proof : [Criteria -> 0 .. MaxRefs], rev : Nat]
Reading == [total : Nat, more : Nat, checkpointed : BOOLEAN, guarding : BOOLEAN]

Left == {"exit", "finalize"}
Closing == {"contract", "gate", "finish"}
\* From the request to the result of its call.
Working == {"call", "stream"} \cup Loop!Calls
RunPlaces ==
  {"preflight", "connect", "catalog", "slash", "ready", "mode", "verify"} \cup Working \cup Closing \cup Left

Typed ==
  /\ run \in Profiles /\ pc \in RunPlaces
  /\ i \in 0 .. MaxIterations /\ try \in 0 .. MaxCalls
  /\ used \in Budgets /\ explored \in Reading
  /\ tools \in {"all", "readonly", "none"}
  /\ {awaiting, edited, denied, cycles, shown, receipt, beating, cancelled, closed, fresh} \subseteq BOOLEAN
  /\ contract \in Contracts /\ refs \in Seq(BOOLEAN) /\ Len(refs) <= MaxRefs
  /\ records \subseteq {"passed", "failed"}
  /\ hooks \in {"none", "started", "ended"} /\ mcp \in {"none", "owned", "borrowed", "closed"}

\* A run is in its loop until it is decided, and writes events only while it
\* waits for the model.
PlaceInv ==
  /\ outcome # Loop!Undecided => pc \in Left
  /\ beating => pc \in {"call", "stream"}
  /\ closed => pc = "finalize"
  /\ pc = "finalize" => mcp # "owned"
  /\ pc \notin Left => used.errors < MaxErrorRounds
  /\ pc = "call" => try < MaxCalls

\* A criterion that needs evidence is satisfied by a reference that resolves.
ContractInv ==
  \A c \in Criteria : contract.state[c] = "satisfied" /\ c \in NeedsEvidence =>
    contract.proof[c] \in 1 .. Len(refs) /\ refs[contract.proof[c]]

\* The contract does not let the run be committed.
Unfinished == run.strict /\ Loop!Status(contract) # "complete"

GateOpen ==
  run.task = "deep" /\ run.policy = "block" /\ edited /\ ~run.docs /\ "passed" \notin records
    => used.stopBlocks = MaxStopBlocks

GateInv ==
  /\ pc = "finish" => Unfinished \/ GateOpen
  /\ Loop!Commits => ~Unfinished /\ GateOpen

\* A run that stops has tested its edits, or cannot, or will not be committed.
TestInv ==
  /\ used.verify > 0 => "failed" \in records
  /\ pc \in Closing /\ edited /\ run.verify =>
       fresh \/ used.verify = MaxVerify \/ (run.strict /\ Loop!Status(contract) = "blocked")
  /\ Loop!EditsWereTested

ShownInv == run.strict /\ shown => pc \in Left /\ Loop!Status(contract) # "incomplete"

\* A read-only question: what it has read, and how much of it since the checkpoint.
ReadInv ==
  run.question =>
    /\ ~explored.guarding => tools = "none"
    /\ explored.guarding /\ ~explored.checkpointed =>
         /\ explored.more = 0 /\ explored.total <= ReadRounds + 1
         /\ pc \in Working => explored.total < ReadRounds
    /\ explored.guarding /\ explored.checkpointed =>
         /\ explored.total >= ReadRounds /\ explored.total <= ReadRounds + 1 + explored.more
         /\ pc \in Working => explored.more < MoreRounds

LoopInv == Typed /\ PlaceInv /\ ContractInv /\ GateInv /\ TestInv /\ ShownInv /\ ReadInv

\* A step that leaves the edits, the evidence and the contract alone, commits
\* nothing and does not come to the end of a reply.
LEMMA WorkStays ==
  ASSUME LoopInv, UNCHANGED <<run, edited, contract, refs, records, fresh>>,
         used'.verify = used.verify, used'.stopBlocks = used.stopBlocks,
         pc' \in Closing => pc' = pc, pc \in Left => pc' \in Left,
         run.strict => shown' = shown,
         outcome' = outcome \/ outcome'.policy # "commit"
  PROVE  ContractInv' /\ GateInv' /\ TestInv' /\ ShownInv'
<1>1. Unfinished' = Unfinished /\ GateOpen' = GateOpen /\ Loop!Status(contract)' = Loop!Status(contract)
  BY DEF Unfinished, GateOpen, Loop!Status
<1>2. Loop!Commits' => Loop!Commits /\ outcome' = outcome
  BY DEF Loop!Commits
<1>3. ContractInv'
  BY DEF LoopInv, ContractInv
<1>4. GateInv'
  BY <1>1, <1>2 DEF LoopInv, GateInv, Closing
<1>5. TestInv'
  BY <1>1, <1>2 DEF LoopInv, TestInv, Loop!EditsWereTested, Closing
<1>6. ShownInv'
  BY <1>1 DEF LoopInv, ShownInv
<1> QED BY <1>3, <1>4, <1>5, <1>6

LEMMA ReadingStays ==
  ASSUME LoopInv, UNCHANGED <<run, explored, tools>>, pc' \in Working => pc \in Working
  PROVE  ReadInv'
BY DEF LoopInv, ReadInv

\* A step outside the replies: the work and the budgets stay, nothing is committed.
Idles ==
  /\ UNCHANGED <<run, i, try, Loop!budget, Loop!work, cycles, shown, beating>>
  /\ pc' \in RunPlaces \ (Working \cup Closing) \/ pc' = pc
  /\ pc \in Left => pc' \in Left
  /\ outcome' = outcome \/ outcome'.policy # "commit"
  /\ {receipt', cancelled', closed'} \subseteq BOOLEAN
  /\ hooks' \in {"none", "started", "ended"} /\ mcp' \in {"none", "owned", "borrowed", "closed"}

LEMMA IdleKeeps ==
  ASSUME LoopInv, Idles, PlaceInv'
  PROVE  LoopInv'
<1>1. Typed'
  BY DEF LoopInv, Typed, Idles, Loop!budget, Loop!work
<1>2. ContractInv' /\ GateInv' /\ TestInv' /\ ShownInv'
  BY WorkStays DEF Idles, Loop!budget, Loop!work
<1>3. ReadInv'
  BY ReadingStays DEF Idles, Loop!budget
<1> QED BY <1>1, <1>2, <1>3 DEF LoopInv

\* Before the first iteration, after the last, and what the user does.
LEMMA SetupKeeps ==
  ASSUME LoopConstants, LoopInv,
         \/ Loop!CloseMCP \/ Loop!Finalize \/ Loop!Cancel \/ Loop!PreflightFails
         \/ Loop!UndoCommand \/ Loop!CatalogFails \/ Loop!StartSession
         \/ \E ok \in BOOLEAN : Loop!Resolve(ok)
         \/ \E usable \in BOOLEAN : Loop!ConnectMCP(usable)
         \/ \E kind \in {"prompt", "unknown", "direct"} : Loop!SlashCommand(kind)
         \/ Loop!OutOfIterations
  PROVE  LoopInv'
<1> USE DEF Idles, Loop!Fail, Loop!Decide, Loop!session, RunPlaces, Working, Closing, Loop!Calls, Left,
        Loop!Undecided
<1>0. Typed /\ PlaceInv /\ run.mcp \in {"none", "owned", "borrowed"}
  BY DEF LoopInv, Typed, LoopConstants
<1>1. CASE Loop!CloseMCP
  <2>1. Idles /\ PlaceInv' BY <1>0, <1>1 DEF Loop!CloseMCP, Typed, PlaceInv, Loop!budget, Loop!work
  <2> QED BY <2>1, IdleKeeps
<1>2. CASE Loop!Finalize
  <2>1. Idles /\ PlaceInv' BY <1>0, <1>2 DEF Loop!Finalize, Typed, PlaceInv, Loop!budget, Loop!work
  <2> QED BY <2>1, IdleKeeps
<1>3. CASE Loop!Cancel
  <2>1. Idles /\ PlaceInv' BY <1>0, <1>3 DEF Loop!Cancel, Typed, PlaceInv, Loop!budget, Loop!work
  <2> QED BY <2>1, IdleKeeps
<1>4. CASE Loop!PreflightFails
  <2>1. Idles /\ PlaceInv' BY <1>0, <1>4 DEF Loop!PreflightFails, Typed, PlaceInv, Loop!budget, Loop!work
  <2> QED BY <2>1, IdleKeeps
<1>5. CASE Loop!UndoCommand
  <2>1. Idles /\ PlaceInv' BY <1>0, <1>5 DEF Loop!UndoCommand, Typed, PlaceInv, Loop!budget, Loop!work
  <2> QED BY <2>1, IdleKeeps
<1>6. CASE Loop!CatalogFails
  <2>1. Idles /\ PlaceInv' BY <1>0, <1>6 DEF Loop!CatalogFails, Typed, PlaceInv, Loop!budget, Loop!work
  <2> QED BY <2>1, IdleKeeps
<1>7. CASE Loop!StartSession
  <2>1. Idles /\ PlaceInv' BY <1>0, <1>7 DEF Loop!StartSession, Typed, PlaceInv, Loop!budget, Loop!work
  <2> QED BY <2>1, IdleKeeps
<1>8. ASSUME NEW ok \in BOOLEAN, Loop!Resolve(ok)
      PROVE  LoopInv'
  <2>1. CASE Loop!Resolve(TRUE)
    <3>1. Idles /\ PlaceInv' BY <1>0, <2>1 DEF Loop!Resolve, Typed, PlaceInv, Loop!budget, Loop!work
    <3> QED BY <3>1, IdleKeeps
  <2>2. CASE Loop!Resolve(FALSE)
    <3>1. pc = "preflight" /\ Loop!Fail("failed")
      BY <2>2, Zenon DEF Loop!Resolve
    <3>2. UNCHANGED <<run, i, try, Loop!budget, Loop!work, cycles, shown, receipt, beating, cancelled,
                      Loop!session>>
      BY <2>2 DEF Loop!Resolve
    <3>3. Idles /\ PlaceInv' BY <1>0, <3>1, <3>2 DEF Typed, PlaceInv, Loop!budget, Loop!work
    <3> QED BY <3>3, IdleKeeps
  <2> QED BY <1>8, <2>1, <2>2
<1>9. ASSUME NEW usable \in BOOLEAN, Loop!ConnectMCP(usable)
      PROVE  LoopInv'
  <2>1. CASE Loop!ConnectMCP(TRUE)
    <3>1. Idles /\ PlaceInv' BY <1>0, <2>1 DEF Loop!ConnectMCP, Typed, PlaceInv, Loop!budget, Loop!work
    <3> QED BY <3>1, IdleKeeps
  <2>2. CASE Loop!ConnectMCP(FALSE)
    <3>1. pc = "connect" /\ Loop!Fail("failed") /\ mcp' \in {"closed", run.mcp}
      BY <2>2, Zenon DEF Loop!ConnectMCP
    <3>2. UNCHANGED <<run, i, try, Loop!budget, Loop!work, cycles, shown, receipt, beating, cancelled,
                      hooks, closed>>
      BY <2>2 DEF Loop!ConnectMCP
    <3>3. Idles /\ PlaceInv' BY <1>0, <3>1, <3>2 DEF Typed, PlaceInv, Loop!budget, Loop!work
    <3> QED BY <3>3, IdleKeeps
  <2> QED BY <1>9, <2>1, <2>2
<1>10. ASSUME NEW kind \in {"prompt", "unknown", "direct"}, Loop!SlashCommand(kind)
       PROVE  LoopInv'
  <2> DEFINE Rest == pc = "slash" /\ UNCHANGED <<run, i, try, Loop!budget, Loop!work, cycles, shown,
                                                 receipt, beating,
                                                 cancelled, Loop!session>>
  <2>1. Rest /\ ((pc' = "ready" /\ UNCHANGED outcome) \/ Loop!Fail("failed") \/ Loop!Decide("command",
          "none", ""))
    BY <1>10, Zenon DEF Loop!SlashCommand
  <2>2. CASE pc' = "ready" /\ UNCHANGED outcome
    <3>1. Idles /\ PlaceInv' BY <1>0, <2>1, <2>2 DEF Typed, PlaceInv, Loop!budget, Loop!work
    <3> QED BY <3>1, IdleKeeps
  <2>3. CASE Loop!Fail("failed")
    <3>1. Idles /\ PlaceInv' BY <1>0, <2>1, <2>3 DEF Typed, PlaceInv, Loop!budget, Loop!work
    <3> QED BY <3>1, IdleKeeps
  <2>4. CASE Loop!Decide("command", "none", "")
    <3>1. Idles /\ PlaceInv' BY <1>0, <2>1, <2>4 DEF Typed, PlaceInv, Loop!budget, Loop!work
    <3> QED BY <3>1, IdleKeeps
  <2> QED BY <2>1, <2>2, <2>3, <2>4
<1>11. CASE Loop!OutOfIterations
  <2>1. Idles /\ PlaceInv'
    BY <1>0, <1>11 DEF Loop!OutOfIterations, Loop!RecoveryReceipt, Typed, PlaceInv, Loop!budget, Loop!work
  <2> QED BY <2>1, IdleKeeps
<1> QED BY <1>1, <1>2, <1>3, <1>4, <1>5, <1>6, <1>7, <1>8, <1>9, <1>10, <1>11

LEMMA BudgetBounds ==
  ASSUME LoopConstants, NEW b \in Budgets
  PROVE  /\ MaxCorrections \in Nat /\ b.selector \in Nat /\ b.parser \in Nat /\ b.completion \in Nat
         /\ ~(b.selector >= MaxCorrections) => b.selector < MaxCorrections
         /\ MaxVerify \in Nat /\ b.verify \in 0 .. MaxVerify
         /\ MaxStopBlocks \in Nat /\ b.stopBlocks \in 0 .. MaxStopBlocks
         /\ MaxCompact \in Nat /\ b.compact \in 0 .. MaxCompact
         /\ MaxErrorRounds \in Nat /\ b.errors \in 0 .. MaxErrorRounds
BY DEF LoopConstants, Budgets

\* A correction is counted within its budget.
LEMMA Corrects ==
  ASSUME MaxCorrections \in Nat, NEW b \in Budgets
  PROVE  /\ b.parser < MaxCorrections => [b EXCEPT !.parser = @ + 1] \in Budgets
         /\ b.selector < MaxCorrections => [b EXCEPT !.selector = @ + 1] \in Budgets
         /\ b.completion < MaxCorrections => [b EXCEPT !.completion = @ + 1] \in Budgets
<1>1. b.parser < MaxCorrections => b.parser + 1 \in 0 .. MaxCorrections
  BY DEF Budgets
<1>2. b.selector < MaxCorrections => b.selector + 1 \in 0 .. MaxCorrections
  BY DEF Budgets
<1>3. b.completion < MaxCorrections => b.completion + 1 \in 0 .. MaxCorrections
  BY DEF Budgets
<1> QED BY <1>1, <1>2, <1>3 DEF Budgets

\* A step that waits for the model or sends it back.
Spends ==
  \/ UNCHANGED used
  \/ used.parser < MaxCorrections /\ used' = [used EXCEPT !.parser = @ + 1]
  \/ used.selector < MaxCorrections /\ used' = [used EXCEPT !.selector = @ + 1]
Proceeds ==
  /\ pc \in {"call", "stream", "mode"}
  /\ pc' \in {"ready", "mode", "verify", "exit"} \cup Working
  /\ pc' \in Working => pc \in {"call", "stream"}
  /\ outcome' = outcome \/ (pc' = "exit" /\ outcome'.policy # "commit")
Tries ==
  \/ try' = try /\ pc' # "call"
  \/ pc = "call" /\ try' = try + 1 /\ (pc' = "call" => try' < MaxCalls)
Beats == beating' = FALSE \/ (beating' = beating /\ (pc' \in {"call", "stream"} \/ pc = "mode"))
Says == awaiting' \in BOOLEAN /\ shown' \in BOOLEAN /\ cycles' \in BOOLEAN /\ (run.strict => shown' = shown)

LEMMA WaitKeeps ==
  ASSUME LoopConstants, LoopInv, Spends, Proceeds, Tries, Beats, Says,
         UNCHANGED <<run, i, tools, explored, Loop!work, receipt, cancelled, hooks, mcp, closed>>
  PROVE  LoopInv'
<1>1. used' \in Budgets
  <2>1. used \in Budgets /\ MaxCorrections \in Nat
    BY DEF LoopConstants, LoopInv, Typed
  <2> QED BY <2>1, Corrects DEF Spends
<1>2. used'.verify = used.verify /\ used'.stopBlocks = used.stopBlocks /\ used'.errors = used.errors
  <2>1. used \in Budgets
    BY DEF LoopInv, Typed
  <2> QED BY <2>1 DEF Spends, Budgets
<1>3. try' \in 0 .. MaxCalls /\ (pc' = "call" => try' < MaxCalls)
  <2>1. try \in 0 .. MaxCalls /\ (pc = "call" => try < MaxCalls) /\ MaxCalls \in Nat
    BY DEF LoopConstants, LoopInv, Typed, PlaceInv
  <2> QED BY <2>1 DEF Tries
<1>4. pc' \in RunPlaces
  BY DEF RunPlaces, Proceeds, Left
<1>5. beating' \in BOOLEAN
  BY DEF Beats, LoopInv, Typed
<1>6. Typed'
  <2>1. {edited, denied, receipt, cancelled, closed, fresh} \subseteq BOOLEAN
    BY DEF LoopInv, Typed
  <2>2. ({awaiting, edited, denied, cycles, shown, receipt, beating, cancelled, closed,
          fresh} \subseteq BOOLEAN)'
    BY <1>5, <2>1 DEF Says, Loop!work
  <2>3. contract' \in Contracts /\ refs' \in Seq(BOOLEAN) /\ Len(refs') <= MaxRefs
    BY DEF LoopInv, Typed, Loop!work
  <2> QED BY <1>1, <1>3, <1>4, <2>2, <2>3 DEF LoopInv, Typed, Loop!work
<1>7. PlaceInv'
  <2>1. outcome = Loop!Undecided /\ used.errors < MaxErrorRounds /\ (beating => pc \in {"call",
          "stream"}) /\ ~closed
    BY DEF LoopInv, PlaceInv, Proceeds, Left
  <2>2. outcome' # Loop!Undecided => pc' \in Left
    BY <2>1 DEF Proceeds, Left
  <2>3. beating' => pc' \in {"call", "stream"}
    BY <2>1 DEF Beats
  <2>4. pc' # "finalize" /\ ~closed'
    BY <2>1 DEF Proceeds, Working, Loop!Calls
  <2> QED BY <1>2, <1>3, <2>1, <2>2, <2>3, <2>4 DEF PlaceInv
<1>8. ContractInv' /\ GateInv' /\ TestInv' /\ ShownInv'
  <2>1. pc' \notin Closing /\ pc \notin Left
    BY DEF Proceeds, Closing, Left, Working, Loop!Calls
  <2>2. UNCHANGED <<run, edited, contract, refs, records, fresh>>
    BY DEF Loop!work
  <2>3. (run.strict => shown' = shown) /\ (outcome' = outcome \/ outcome'.policy # "commit")
    BY DEF Says, Proceeds
  <2> QED BY <1>2, <2>1, <2>2, <2>3, WorkStays
<1>9. ReadInv'
  BY ReadingStays DEF Proceeds, Working
<1> QED BY <1>6, <1>7, <1>8, <1>9 DEF LoopInv

\* One request, to its reply.
LEMMA RequestKeeps ==
  ASSUME LoopConstants, LoopInv,
         Loop!CallFails \/ Loop!SeesCancel \/ Loop!CallStreams \/ Loop!EmptyStream \/ Loop!Malformed
  PROVE  LoopInv'
<1>0. /\ {awaiting, shown, cycles} \subseteq BOOLEAN
      /\ pc \in {"call", "stream"} => outcome = Loop!Undecided
      /\ used.parser \in Nat /\ MaxCorrections \in Nat
  BY DEF LoopConstants, LoopInv, Typed, PlaceInv, Left, Budgets
<1>a. ASSUME Loop!Fail("failed") \/ Loop!Fail("cancelled") \/ Loop!Fail("no_terminal"), pc \in {"call",
        "stream"}
      PROVE  Proceeds /\ pc' = "exit"
  BY <1>0, <1>a DEF Loop!Fail, Loop!Decide, Proceeds
<1>1. CASE Loop!CallFails
  <2>1. /\ UNCHANGED <<run, i, tools, explored, Loop!work, receipt, cancelled, hooks, mcp, closed>>
        /\ Spends /\ Says
    BY <1>0, <1>1 DEF Loop!CallFails, Spends, Says, Loop!session, Loop!budget
  <2>2. CASE try + 1 < MaxCalls
    <3>1. pc = "call" /\ try' = try + 1 /\ UNCHANGED <<pc, outcome, beating>>
      BY <1>1, <2>2, Zenon DEF Loop!CallFails
    <3>2. Proceeds /\ Tries /\ Beats
      BY <2>2, <3>1 DEF Proceeds, Tries, Beats, Working
    <3> QED BY <2>1, <3>2, WaitKeeps
  <2>3. CASE ~(try + 1 < MaxCalls)
    <3>1. pc = "call" /\ try' = try + 1 /\ beating' = FALSE /\ Loop!Fail("failed")
      BY <1>1, <2>3, Zenon DEF Loop!CallFails
    <3>2. Proceeds /\ Tries /\ Beats
      BY <1>a, <3>1 DEF Tries, Beats
    <3> QED BY <2>1, <3>2, WaitKeeps
  <2> QED BY <2>2, <2>3
<1>2. CASE Loop!SeesCancel
  <2>1. /\ UNCHANGED <<run, i, tools, explored, Loop!work, receipt, cancelled, hooks, mcp, closed>>
        /\ Spends /\ Says
    BY <1>0, <1>2 DEF Loop!SeesCancel, Spends, Says, Loop!session, Loop!budget
  <2>2. pc \in {"call", "stream"} /\ Loop!Fail("cancelled") /\ beating' = FALSE /\ try' = try
    BY <1>2, Zenon DEF Loop!SeesCancel
  <2>3. Proceeds /\ Tries /\ Beats
    BY <1>a, <2>2 DEF Tries, Beats
  <2> QED BY <2>1, <2>3, WaitKeeps
<1>3. CASE Loop!CallStreams
  <2>1. /\ UNCHANGED <<run, i, tools, explored, Loop!work, receipt, cancelled, hooks, mcp, closed>>
        /\ Spends /\ Says
    BY <1>0, <1>3 DEF Loop!CallStreams, Spends, Says, Loop!session, Loop!budget
  <2>2. Proceeds /\ Tries /\ Beats
    BY <1>3 DEF Loop!CallStreams, Proceeds, Tries, Beats, Working
  <2> QED BY <2>1, <2>2, WaitKeeps
<1>4. CASE Loop!EmptyStream
  <2>1. /\ UNCHANGED <<run, i, tools, explored, Loop!work, receipt, cancelled, hooks, mcp, closed>>
        /\ Spends /\ Says
    BY <1>0, <1>4 DEF Loop!EmptyStream, Spends, Says, Loop!session, Loop!budget
  <2>2. pc = "stream" /\ Loop!Fail("no_terminal") /\ beating' = FALSE /\ try' = try
    BY <1>4, Zenon DEF Loop!EmptyStream
  <2>3. Proceeds /\ Tries /\ Beats
    BY <1>a, <2>2 DEF Tries, Beats
  <2> QED BY <2>1, <2>3, WaitKeeps
<1>5. CASE Loop!Malformed
  <2>1. /\ UNCHANGED <<run, i, tools, explored, Loop!work, receipt, cancelled, hooks, mcp, closed>>
        /\ Says
    BY <1>0, <1>5 DEF Loop!Malformed, Says, Loop!session
  <2>2. pc = "stream" /\ beating' = FALSE /\ try' = try
    BY <1>5 DEF Loop!Malformed
  <2>3. CASE used.parser >= MaxCorrections
    <3>1. Loop!Fail("failed") /\ UNCHANGED used
      BY <1>5, <2>3, Zenon DEF Loop!Malformed
    <3>2. Proceeds /\ Tries /\ Beats /\ Spends
      BY <1>a, <2>2, <3>1 DEF Tries, Beats, Spends
    <3> QED BY <2>1, <3>2, WaitKeeps
  <2>4. CASE used.parser < MaxCorrections
    <3>1. pc' = "ready" /\ used' = [used EXCEPT !.parser = @ + 1] /\ UNCHANGED outcome
      BY <1>0, <1>5, <2>4 DEF Loop!Malformed
    <3>2. Proceeds /\ Tries /\ Beats /\ Spends
      BY <2>2, <2>4, <3>1 DEF Proceeds, Tries, Beats, Spends, Working, Loop!Calls
    <3> QED BY <2>1, <3>2, WaitKeeps
  <2> QED BY <1>0, <2>3, <2>4
<1> QED BY <1>1, <1>2, <1>3, <1>4, <1>5

\* A reply: the selector's answer, text or a call, and the mode's directive.
LEMMA ReplyKeeps ==
  ASSUME LoopConstants, LoopInv,
         \/ \E right \in BOOLEAN : Loop!Selector(right)
         \/ \E call \in {""} \cup Loop!Calls : Loop!Reply(call)
         \/ \E directive \in {"stop", "max_cycles", "continue", "error"} : Loop!ModeAdvances(directive)
  PROVE  LoopInv'
<1>b. run.strict \in BOOLEAN
  BY DEF LoopConstants, LoopInv, Typed
<1>0. /\ awaiting \in BOOLEAN /\ shown \in BOOLEAN /\ cycles \in BOOLEAN
      /\ pc \in {"call", "stream", "mode"} => outcome = Loop!Undecided
  BY DEF LoopInv, Typed, PlaceInv, Left
<1>c. ~(used.selector >= MaxCorrections) => used.selector < MaxCorrections
  <2>1. used \in Budgets
    BY DEF LoopInv, Typed
  <2> QED BY <2>1, BudgetBounds
<1>a. ASSUME Loop!Fail("failed"), pc \in {"stream", "mode"}
      PROVE  Proceeds /\ pc' = "exit"
  BY <1>0, <1>a DEF Loop!Fail, Loop!Decide, Proceeds, Working, Loop!Calls
<1>1. ASSUME NEW right \in BOOLEAN, Loop!Selector(right)
      PROVE  LoopInv'
  <2>1. /\ UNCHANGED <<run, i, tools, explored, Loop!work, receipt, cancelled, hooks, mcp, closed, try,
                       cycles>>
        /\ pc = "stream" /\ beating' = FALSE
    BY <1>1 DEF Loop!Selector, Loop!session
  <2>2. CASE right
    <3>1. awaiting' = FALSE /\ pc' = "ready" /\ shown' \in {shown,
            shown \/ ~run.strict} /\ UNCHANGED <<used, outcome>>
      BY <1>1, <2>2, Zenon DEF Loop!Selector
    <3>2. Spends /\ Proceeds /\ Tries /\ Beats /\ Says
      BY <1>0, <1>b, <2>1, <3>1 DEF Spends, Proceeds, Tries, Beats, Says, Working, Loop!Calls
    <3> QED BY <2>1, <3>2, WaitKeeps
  <2>3. CASE ~right
    <3>1. CASE used.selector >= MaxCorrections
      <4>1. Loop!Fail("failed") /\ UNCHANGED <<used, awaiting, shown>>
        BY <1>1, <2>3, <3>1, Zenon DEF Loop!Selector
      <4>2. Spends /\ Proceeds /\ Tries /\ Beats /\ Says
        BY <1>0, <1>a, <2>1, <4>1 DEF Spends, Tries, Beats, Says
      <4> QED BY <2>1, <4>2, WaitKeeps
    <3>2. CASE ~(used.selector >= MaxCorrections)
      <4>1. pc' = "ready" /\ used' = [used EXCEPT !.selector = @ + 1] /\ UNCHANGED <<outcome, awaiting,
                                                                                     shown>>
        BY <1>1, <2>3, <3>2, Zenon DEF Loop!Selector
      <4>2. used.selector < MaxCorrections
        BY <1>c, <3>2, Zenon
      <4>3. Spends
        BY <4>1, <4>2, Zenon DEF Spends
      <4>4. Proceeds /\ Tries /\ Beats /\ Says
        BY <1>0, <2>1, <4>1 DEF Proceeds, Tries, Beats, Says, Working, Loop!Calls
      <4> QED BY <2>1, <4>3, <4>4, WaitKeeps
    <3> QED BY <3>1, <3>2
  <2> QED BY <2>2, <2>3, Zenon
<1>2. ASSUME NEW call \in {""} \cup Loop!Calls, Loop!Reply(call)
      PROVE  LoopInv'
  <2>1. /\ UNCHANGED <<run, i, tools, explored, Loop!work, receipt, cancelled, hooks, mcp, closed, try,
                       used>>
        /\ pc' # "call" /\ beating' = FALSE
    BY <1>2 DEF Loop!Reply, Loop!budget, Loop!session, Loop!Calls
  <2>4. Spends /\ Tries /\ Beats
    BY <2>1 DEF Spends, Tries, Beats
  <2>2. Says
    BY <1>0, <1>b, <1>2 DEF Loop!Reply, Loop!Shows, Says, Loop!budget
  <2>3. Proceeds
    BY <1>2 DEF Loop!Reply, Proceeds, Working, Loop!Calls
  <2> QED BY <2>1, <2>2, <2>3, <2>4, WaitKeeps
<1>3. ASSUME NEW directive \in {"stop", "max_cycles", "continue", "error"}, Loop!ModeAdvances(directive)
      PROVE  LoopInv'
  <2>1. /\ UNCHANGED <<run, i, tools, explored, Loop!work, receipt, cancelled, hooks, mcp, closed>>
        /\ UNCHANGED <<try, used, awaiting, shown, beating>> /\ pc = "mode"
    BY <1>3 DEF Loop!ModeAdvances, Loop!budget, Loop!session
  <2>2. /\ cycles' \in {cycles, TRUE}
        /\ (pc' \in {"verify", "ready"} /\ UNCHANGED outcome) \/ Loop!Fail("failed")
    BY <1>3, Zenon DEF Loop!ModeAdvances, Loop!Continue
  <2>3. Proceeds /\ pc' \in {"verify", "ready", "exit"}
    BY <1>0, <1>a, <2>1, <2>2 DEF Proceeds, Working, Loop!Calls
  <2>4. Spends /\ Tries /\ Beats /\ Says
    BY <1>0, <2>1, <2>2, <2>3 DEF Spends, Tries, Beats, Says
  <2> QED BY <2>1, <2>3, <2>4, WaitKeeps
<1> QED BY <1>1, <1>2, <1>3

\* The read-only boundary before a request: a question goes on reading only
\* within its budgets.
LEMMA BoundaryKeeps ==
  ASSUME LoopConstants, LoopInv, NEW plan, Loop!Prepare(plan)
  PROVE  explored' \in Reading /\ tools' \in {"all", "readonly", "none"} /\ ReadInv'
<1> DEFINE e == IF explored.guarding /\ explored.total >= ReadRounds THEN Loop!Boundary(explored) ELSE explored
<1>0. /\ pc = "ready" /\ run' = run /\ explored' = e
      /\ tools' = IF explored.guarding /\ ~e.guarding THEN "none"
                  ELSE IF e.checkpointed /\ ~explored.checkpointed THEN "readonly" ELSE tools
  BY Zenon DEF Loop!Prepare
<1>1. /\ explored \in Reading /\ tools \in {"all", "readonly", "none"} /\ ReadInv
      /\ ReadRounds \in Nat /\ MoreRounds \in Nat \ {0}
  BY DEF LoopConstants, LoopInv, Typed
<1> HIDE DEF e
<1>2. CASE explored.guarding /\ explored.total >= ReadRounds /\ ~explored.checkpointed
  <2>1. e = [explored EXCEPT !.checkpointed = TRUE]
    BY <1>2, Zenon DEF e, Loop!Boundary
  <2>2. e \in Reading /\ e.total = explored.total /\ e.more = explored.more /\ e.checkpointed /\ e.guarding
    BY <1>1, <1>2, <2>1 DEF Reading
  <2>3. tools' \in {"all", "readonly", "none"}
    BY <1>0, <1>1
  <2>4. run.question => explored.more = 0 /\ explored.total <= ReadRounds + 1
    BY <1>1, <1>2 DEF ReadInv
  <2> QED BY <1>0, <1>1, <1>2, <2>2, <2>3, <2>4 DEF ReadInv, Reading
<1>3. CASE /\ explored.guarding /\ explored.total >= ReadRounds
           /\ explored.checkpointed /\ explored.more >= MoreRounds
  <2>1. e = [explored EXCEPT !.guarding = FALSE]
    BY <1>3, Zenon DEF e, Loop!Boundary
  <2>2. e \in Reading /\ ~e.guarding
    BY <1>1, <2>1 DEF Reading
  <2>3. tools' = "none"
    BY <1>0, <1>3, <2>2, Zenon
  <2> QED BY <1>0, <2>2, <2>3 DEF ReadInv
<1>4. CASE /\ ~(explored.guarding /\ explored.total >= ReadRounds /\ ~explored.checkpointed)
           /\ ~(explored.guarding /\ explored.total >= ReadRounds /\ explored.checkpointed
                /\ explored.more >= MoreRounds)
  <2>1. e = explored
    BY <1>4, Zenon DEF e, Loop!Boundary
  <2>2. tools' = tools
    BY <1>0, <2>1, Zenon
  <2> QED BY <1>0, <1>1, <1>4, <2>1, <2>2 DEF ReadInv, Reading
<1> QED BY <1>2, <1>3, <1>4, Zenon

LEMMA PrepareKeeps ==
  ASSUME LoopConstants, LoopInv, NEW plan \in {"fits", "compacted", "blocked", "broken"}, Loop!Prepare(plan)
  PROVE  LoopInv'
<1>1. /\ pc = "ready" /\ i \in 0 .. MaxIterations /\ i < MaxIterations /\ i' = i + 1 /\ try' = 0
      /\ beating' = (pc' = "call") /\ awaiting' \in BOOLEAN
      /\ UNCHANGED <<run, Loop!work, cycles, shown, receipt, cancelled, Loop!session>>
  BY DEF Loop!Prepare, LoopInv, Typed
<1>2. /\ \/ pc' = "call" /\ UNCHANGED outcome
         \/ Loop!Fail("failed") \/ Loop!Fail("context_blocked")
      /\ \/ UNCHANGED used
         \/ used.compact < MaxCompact /\ used' = [used EXCEPT !.compact = @ + 1]
         \/ used' = [used EXCEPT !.compact = IF @ < MaxCompact THEN @ + 1 ELSE @]
  BY Zenon DEF Loop!Prepare
<1>3. used' \in Budgets /\ used'.verify = used.verify /\ used'.stopBlocks = used.stopBlocks
      /\ used'.errors = used.errors
  <2>1. used \in Budgets
    BY DEF LoopInv, Typed
  <2>2. used.compact < MaxCompact => used.compact + 1 \in 0 .. MaxCompact
    BY <2>1, BudgetBounds
  <2> QED BY <1>2, <2>1, <2>2 DEF Budgets
<1>4. outcome = Loop!Undecided /\ ~closed /\ used.errors < MaxErrorRounds
  BY <1>1 DEF LoopInv, PlaceInv, Left
<1>5. /\ pc' \in {"call", "exit"}
      /\ pc' = "call" => outcome' = Loop!Undecided
      /\ outcome' = outcome \/ outcome'.policy # "commit"
  BY <1>2, <1>4 DEF Loop!Fail, Loop!Decide
<1>6. explored' \in Reading /\ tools' \in {"all", "readonly", "none"} /\ ReadInv'
  BY BoundaryKeeps
<1>7. MaxIterations \in Nat /\ MaxCalls \in Nat \ {0}
  BY DEF LoopConstants
<1>8. Typed'
  <2>1. i' \in 0 .. MaxIterations /\ try' \in 0 .. MaxCalls
    BY <1>1, <1>7
  <2>2. pc' \in RunPlaces
    BY <1>5 DEF RunPlaces, Working, Left
  <2>3. {edited, denied, cycles, shown, receipt, cancelled, closed, fresh} \subseteq BOOLEAN
    BY DEF LoopInv, Typed
  <2>4. beating' \in BOOLEAN
    BY <1>1
  <2>5. ({awaiting, edited, denied, cycles, shown, receipt, beating, cancelled, closed,
          fresh} \subseteq BOOLEAN)'
    BY <1>1, <2>3, <2>4 DEF Loop!work, Loop!session
  <2>6. contract' \in Contracts /\ refs' \in Seq(BOOLEAN) /\ Len(refs') <= MaxRefs
    BY <1>1 DEF LoopInv, Typed, Loop!work
  <2> QED BY <1>1, <1>3, <1>6, <2>1, <2>2, <2>5, <2>6 DEF LoopInv, Typed, Loop!work, Loop!session
<1>9. PlaceInv'
  <2>1. beating' => pc' = "call"
    BY <1>1, Zenon
  <2>2. closed' = closed /\ try' = 0
    BY <1>1 DEF Loop!session
  <2>3. 0 < MaxCalls
    BY <1>7
  <2>4. pc' # "finalize" /\ (pc' = "exit" => pc' \in Left)
    BY <1>5 DEF Left
  <2> QED BY <1>3, <1>4, <1>5, <2>1, <2>2, <2>3, <2>4 DEF PlaceInv
<1>10. ContractInv' /\ GateInv' /\ TestInv' /\ ShownInv'
  <2>1. pc' \notin Closing /\ pc \notin Left
    BY <1>1, <1>5 DEF Closing, Left
  <2> QED BY <1>1, <1>3, <1>5, <2>1, WorkStays DEF Loop!work
<1> QED BY <1>6, <1>8, <1>9, <1>10 DEF LoopInv

LEMMA OpenStays ==
  ASSUME outcome = Loop!Undecided, outcome' = outcome
  PROVE  ~Loop!Commits'
BY DEF Loop!Commits, Loop!Undecided

\* The end of a reply without a call: the tests, the contract and the gate.
LEMMA VerifyKeeps ==
  ASSUME LoopConstants, LoopInv, NEW failed \in BOOLEAN, Loop!Verify(failed)
  PROVE  LoopInv'
<1> DEFINE result == IF failed THEN "failed" ELSE "passed"
<1>0. /\ pc = "verify" /\ outcome = Loop!Undecided /\ outcome' = outcome /\ run' = run
      /\ UNCHANGED <<run, i, try, tools, explored, awaiting, edited, denied, contract, cycles, shown,
                     receipt, beating, cancelled, outcome, Loop!session>>
  BY DEF Loop!Verify, LoopInv, PlaceInv, Left
<1>1. pc' \in {"contract", "ready"}
  BY Zenon DEF Loop!Verify
<1>2. \/ /\ Loop!AutoVerify /\ fresh' = TRUE /\ records' = records \cup {result}
         /\ refs' = refs \/ (Len(refs) < MaxRefs /\ \E b \in BOOLEAN : refs' = Append(refs, b))
         /\ \/ /\ failed /\ used' = [used EXCEPT !.verify = @ + 1] /\ pc' = "ready"
            \/ ~failed /\ pc' = "contract" /\ UNCHANGED used
      \/ ~Loop!AutoVerify /\ pc' = "contract" /\ UNCHANGED <<fresh, records, refs, used>>
  BY Zenon DEF Loop!Verify
<1> DEFINE Grown == /\ refs' \in Seq(BOOLEAN) /\ Len(refs') <= MaxRefs /\ Len(refs) <= Len(refs')
                    /\ \A r \in 1 .. Len(refs) : refs'[r] = refs[r]
<1>3. Grown
  <2>1. refs \in Seq(BOOLEAN) /\ Len(refs) <= MaxRefs /\ MaxRefs \in Nat
    BY DEF LoopConstants, LoopInv, Typed
  <2>2. CASE refs' = refs
    BY <2>1, <2>2
  <2>3. ASSUME NEW b \in BOOLEAN, refs' = Append(refs, b), Len(refs) < MaxRefs
        PROVE  Grown
    BY <2>1, <2>3
  <2> HIDE DEF Grown
  <2>4. refs' = refs \/ (Len(refs) < MaxRefs /\ \E b \in BOOLEAN : refs' = Append(refs, b))
    BY <1>2, Zenon
  <2> QED BY <2>2, <2>3, <2>4
<1>4. /\ used' \in Budgets /\ used'.errors = used.errors
      /\ used'.verify > 0 => used.verify > 0 \/ (pc' = "ready" /\ "failed" \in records')
  <2>1. used \in Budgets
    BY DEF LoopInv, Typed
  <2>2. used.verify \in 0 .. MaxVerify /\ MaxVerify \in Nat
    BY <2>1, BudgetBounds
  <2>3. CASE Loop!AutoVerify /\ failed /\ used' = [used EXCEPT !.verify = @ + 1] /\ pc' = "ready"
             /\ records' = records \cup {result}
    <3>1. used.verify < MaxVerify
      BY <2>3 DEF Loop!AutoVerify
    <3>2. used.verify + 1 \in 0 .. MaxVerify
      BY <2>2, <3>1
    <3>3. "failed" \in records'
      BY <2>3
    <3> QED BY <2>1, <2>3, <3>2, <3>3 DEF Budgets
  <2>4. CASE UNCHANGED used
    BY <2>1, <2>4
  <2> QED BY <1>2, <2>3, <2>4, Zenon
<1>5. records \subseteq records' /\ records' \subseteq {"passed", "failed"} /\ fresh' \in BOOLEAN
  BY <1>2 DEF LoopInv, Typed
<1>6. Typed'
  <2>1. pc' \in RunPlaces
    BY <1>1 DEF RunPlaces, Closing
  <2>2. ({awaiting, edited, denied, cycles, shown, receipt, beating, cancelled, closed,
          fresh} \subseteq BOOLEAN)'
    BY <1>0, <1>5 DEF LoopInv, Typed, Loop!session
  <2>3. contract' \in Contracts
    BY <1>0 DEF LoopInv, Typed
  <2> QED BY <1>0, <1>3, <1>4, <1>5, <2>1, <2>2, <2>3 DEF LoopInv, Typed, Loop!session
<1>7. PlaceInv'
  BY <1>0, <1>1, <1>4 DEF LoopInv, PlaceInv, Loop!session, Left
<1>8. ContractInv'
  <2> SUFFICES ASSUME NEW c \in Criteria, contract.state[c] = "satisfied", c \in NeedsEvidence
               PROVE  contract.proof[c] \in 1 .. Len(refs') /\ refs'[contract.proof[c]]
    BY <1>0 DEF ContractInv
  <2>1. contract.proof[c] \in 1 .. Len(refs) /\ refs[contract.proof[c]]
    BY DEF LoopInv, ContractInv
  <2>2. Len(refs) \in Nat /\ Len(refs') \in Nat
    BY <1>3 DEF LoopInv, Typed
  <2> QED BY <1>3, <2>1, <2>2
<1>9. GateInv' /\ Loop!EditsWereTested'
  <2>1. ~Loop!Commits'
    BY <1>0, OpenStays
  <2>2. pc' # "finish"
    BY <1>1
  <2> QED BY <2>1, <2>2, Zenon DEF GateInv, Loop!EditsWereTested
<1>10. TestInv'
  <2>1. used'.verify > 0 => "failed" \in records'
    BY <1>4, <1>5 DEF LoopInv, TestInv
  <2>2. (pc \in Closing /\ edited /\ run.verify =>
           fresh \/ used.verify = MaxVerify \/ (run.strict /\ Loop!Status(contract) = "blocked"))'
    <3>1. CASE fresh'
      BY <3>1
    <3>2. CASE pc' = "ready"
      BY <3>2 DEF Closing
    <3>3. CASE ~Loop!AutoVerify /\ UNCHANGED <<fresh, records, refs, used>>
      <4>1. used.verify \in 0 .. MaxVerify /\ MaxVerify \in Nat
        BY BudgetBounds DEF LoopInv, Typed
      <4>2. used.verify < MaxVerify \/ used.verify = MaxVerify
        BY <4>1
      <4> QED BY <1>0, <3>3, <4>2, Zenon DEF Loop!AutoVerify, Loop!Status
    <3> QED BY <1>2, <3>1, <3>2, <3>3, Zenon
  <2> QED BY <1>9, <2>1, <2>2 DEF TestInv
<1>11. ShownInv'
  BY <1>0 DEF LoopInv, ShownInv, Left
<1>12. ReadInv'
  BY <1>0, <1>1, ReadingStays DEF Working, Loop!Calls
<1> QED BY <1>6, <1>7, <1>8, <1>9, <1>10, <1>11, <1>12 DEF LoopInv

LEMMA ChecksKeep ==
  ASSUME LoopConstants, LoopInv, Loop!CheckContract \/ Loop!CheckGate
  PROVE  LoopInv'
<1>0. /\ pc \in {"contract", "gate"} /\ pc' \in {"ready", "gate", "finish"}
      /\ UNCHANGED <<run, i, try, tools, explored, awaiting, Loop!work, cycles, shown, receipt, beating,
                     cancelled, outcome, Loop!session>>
  BY DEF Loop!CheckContract, Loop!CheckGate
<1>1. outcome = Loop!Undecided
  BY <1>0 DEF LoopInv, PlaceInv, Left
<1>2. /\ used' \in Budgets /\ used'.errors = used.errors /\ used'.verify = used.verify
  <2>1. used \in Budgets
    BY DEF LoopInv, Typed
  <2>2. CASE UNCHANGED used
    BY <2>1, <2>2
  <2>3. CASE used.completion < MaxCorrections /\ used' = [used EXCEPT !.completion = @ + 1]
    <3>1. used' \in Budgets
      BY <2>1, <2>3, Corrects DEF LoopConstants
    <3> QED BY <2>1, <2>3, <3>1 DEF Budgets
  <2>4. CASE used.stopBlocks < MaxStopBlocks /\ used' = [used EXCEPT !.stopBlocks = @ + 1]
    <3>1. used.stopBlocks + 1 \in 0 .. MaxStopBlocks
      BY <2>1, <2>4, BudgetBounds
    <3> QED BY <2>1, <2>4, <3>1 DEF Budgets
  <2>5. CASE Loop!CheckContract
    BY <2>2, <2>3, <2>5, Zenon DEF Loop!CheckContract
  <2>6. CASE Loop!CheckGate
    <3>1. used.stopBlocks < MaxStopBlocks \/ used.stopBlocks >= MaxStopBlocks
      BY <2>1, BudgetBounds
    <3>2. Loop!Gate(run.task, run.policy, edited /\ ~run.docs, records, used.stopBlocks) = "block"
            => used.stopBlocks < MaxStopBlocks
      BY <3>1 DEF Loop!Gate
    <3> QED BY <2>2, <2>4, <2>6, <3>2, Zenon DEF Loop!CheckGate
  <2> QED BY <2>5, <2>6
<1>3. Typed'
  <2>1. pc' \in RunPlaces
    BY <1>0 DEF RunPlaces, Closing
  <2>2. ({awaiting, edited, denied, cycles, shown, receipt, beating, cancelled, closed,
          fresh} \subseteq BOOLEAN)'
    BY <1>0 DEF LoopInv, Typed, Loop!session, Loop!work
  <2>3. contract' \in Contracts /\ refs' \in Seq(BOOLEAN) /\ Len(refs') <= MaxRefs
    BY <1>0 DEF LoopInv, Typed, Loop!work
  <2> QED BY <1>0, <1>2, <2>1, <2>2, <2>3 DEF LoopInv, Typed, Loop!session, Loop!work
<1>4. PlaceInv'
  BY <1>0, <1>2 DEF LoopInv, PlaceInv, Loop!session, Left
<1>5. ContractInv' /\ Loop!EditsWereTested'
  BY <1>0, <1>1 DEF LoopInv, ContractInv, Loop!EditsWereTested, Loop!Commits, Loop!Undecided, Loop!work
<1>6. pc' = "finish" => Unfinished' \/ GateOpen'
  <2>1. CASE Loop!CheckContract
    <3>1. pc' = "finish" => Unfinished
      BY <2>1, Zenon DEF Loop!CheckContract, Unfinished
    <3> QED BY <1>0, <3>1 DEF Unfinished, Loop!Status, Loop!work
  <2>2. CASE Loop!CheckGate
    <3> SUFFICES ASSUME pc' = "finish"
                 PROVE  GateOpen'
      OBVIOUS
    <3>1. UNCHANGED <<used, run, edited, records>>
      BY <1>0, <2>2 DEF Loop!CheckGate, Loop!work
    <3>2. Loop!Gate(run.task, run.policy, edited /\ ~run.docs, records, used.stopBlocks) # "block"
      BY <2>2, Zenon DEF Loop!CheckGate
    <3>3. used.stopBlocks \in 0 .. MaxStopBlocks /\ MaxStopBlocks \in Nat
      BY BudgetBounds DEF LoopInv, Typed
    <3>4. used.stopBlocks >= MaxStopBlocks => used.stopBlocks = MaxStopBlocks
      BY <3>3
    <3>5. run.task = "deep" /\ run.policy = "block" /\ edited /\ ~run.docs /\ "passed" \notin records
            => used.stopBlocks >= MaxStopBlocks
      BY <3>2 DEF Loop!Gate
    <3> QED BY <3>1, <3>4, <3>5 DEF GateOpen
  <2> QED BY <2>1, <2>2
<1>7. GateInv'
  BY <1>0, <1>1, <1>6 DEF GateInv, Loop!Commits, Loop!Undecided
<1>8. TestInv'
  <2>1. Loop!Status(contract)' = Loop!Status(contract)
    BY <1>0 DEF Loop!Status, Loop!work
  <2> QED BY <1>0, <1>2, <1>5, <2>1 DEF LoopInv, TestInv, Closing, Loop!work
<1>9. ShownInv'
  BY <1>0 DEF LoopInv, ShownInv, Left
<1>10. ReadInv'
  BY <1>0, ReadingStays DEF Working, Loop!Calls
<1> QED BY <1>3, <1>4, <1>5, <1>7, <1>8, <1>9, <1>10 DEF LoopInv

\* The end of a run: its prose, its receipt and its decision.
LEMMA FinishKeeps ==
  ASSUME LoopConstants, LoopInv, NEW text \in BOOLEAN, Loop!Finish(text)
  PROVE  LoopInv'
<1> DEFINE blocked == run.strict /\ Loop!Status(contract) # "complete"
           decision == Loop!Gate(run.task, run.policy, edited /\ ~run.docs, records, used.stopBlocks)
           state == IF blocked \/ cycles THEN "blocked" ELSE Loop!TerminalState(decision, tested, records)
<1>0. /\ pc = "finish" /\ outcome = Loop!Undecided
      /\ UNCHANGED <<run, i, try, Loop!budget, Loop!work, cycles, beating, cancelled, Loop!session>>
      /\ shown' = (shown \/ (text /\ run.strict /\ Loop!Status(contract) # "incomplete"))
      /\ receipt' = (receipt \/ edited \/ run.strict \/ denied)
  BY DEF Loop!Finish, LoopInv, PlaceInv, Left
<1>1. \/ Loop!Fail("failed") \/ Loop!Fail("max_cycles")
      \/ ~blocked /\ Loop!Decide("completed", "commit", state)
  BY Zenon DEF Loop!Finish
<1>2. /\ pc' = "exit"
      /\ \/ outcome'.policy = "reconcile"
         \/ ~blocked /\ outcome'.policy = "commit" /\ outcome'.state = state
  BY <1>0, <1>1 DEF Loop!Fail, Loop!Decide
<1>3. /\ Unfinished' = Unfinished /\ GateOpen' = GateOpen /\ Loop!Status(contract)' = Loop!Status(contract)
      /\ ~blocked => ~Unfinished
  BY <1>0 DEF Unfinished, GateOpen, Loop!Status, Loop!budget, Loop!work
<1> HIDE DEF blocked, decision, state
<1>4. Typed'
  <2>1. pc' \in RunPlaces
    BY <1>2 DEF RunPlaces, Left
  <2>2. shown' \in BOOLEAN /\ receipt' \in BOOLEAN
    BY <1>0
  <2>3. {awaiting, edited, denied, cycles, beating, cancelled, closed, fresh} \subseteq BOOLEAN
    BY DEF LoopInv, Typed
  <2>4. ({awaiting, edited, denied, cycles, shown, receipt, beating, cancelled, closed,
          fresh} \subseteq BOOLEAN)'
    BY <1>0, <2>2, <2>3 DEF Loop!budget, Loop!work, Loop!session
  <2>5. contract' \in Contracts /\ refs' \in Seq(BOOLEAN) /\ Len(refs') <= MaxRefs
    BY <1>0 DEF LoopInv, Typed, Loop!work
  <2> QED BY <1>0, <2>1, <2>4, <2>5 DEF LoopInv, Typed, Loop!budget, Loop!work, Loop!session
<1>5. PlaceInv'
  BY <1>0, <1>2 DEF LoopInv, PlaceInv, Left, Loop!budget, Loop!session
<1>6. ContractInv'
  BY <1>0 DEF LoopInv, ContractInv, Loop!work
<1>7. GateInv'
  BY <1>0, <1>2, <1>3 DEF LoopInv, GateInv, Loop!Commits
<1>8. Loop!Commits' /\ used.verify > 0 => outcome'.state # "verified"
  <2>1. used.verify > 0 => "failed" \in records
    BY DEF LoopInv, TestInv
  <2>2. "failed" \in records => Loop!TerminalState(decision, tested, records) # "verified"
    BY DEF Loop!TerminalState
  <2>3. state # "verified" \/ state = Loop!TerminalState(decision, tested, records)
    BY DEF state
  <2>4. Loop!Commits' => outcome'.state = state
    BY <1>2 DEF Loop!Commits
  <2> QED BY <2>1, <2>2, <2>3, <2>4
<1>9. TestInv'
  <2>1. pc' \notin Closing
    BY <1>2 DEF Closing
  <2>2. UNCHANGED <<run, used, edited, records, fresh>>
    BY <1>0 DEF Loop!budget, Loop!work
  <2>3. Loop!EditsWereTested'
    <3> SUFFICES ASSUME Loop!Commits', edited, run.verify, ~fresh
                 PROVE  used.verify = MaxVerify /\ outcome'.state # "verified"
      BY <2>2 DEF Loop!EditsWereTested
    <3>1. ~(run.strict /\ Loop!Status(contract) = "blocked")
      BY <1>2 DEF Loop!Commits, blocked
    <3>2. used.verify = MaxVerify
      BY <1>0, <3>1 DEF LoopInv, TestInv, Closing
    <3>3. MaxVerify > 0
      BY DEF LoopConstants
    <3> QED BY <1>8, <3>2, <3>3
  <2> QED BY <2>1, <2>2, <2>3 DEF LoopInv, TestInv
<1>10. ShownInv'
  BY <1>0, <1>2, <1>3 DEF LoopInv, ShownInv, Left
<1>11. ReadInv'
  BY <1>0, <1>2, ReadingStays DEF Working, Loop!Calls, Loop!budget
<1> QED BY <1>4, <1>5, <1>6, <1>7, <1>9, <1>10, <1>11 DEF LoopInv

\* What is read counts against the budgets.
LEMMA ExploreKeeps ==
  ASSUME LoopConstants, LoopInv, pc \in Working, pc' \notin Working, UNCHANGED <<run, tools>>,
         NEW half \in {1, 2}, Loop!Explore(half)
  PROVE  explored' \in Reading /\ ReadInv'
<1>1. explored \in Reading /\ ReadRounds \in Nat /\ MoreRounds \in Nat
  BY DEF LoopConstants, LoopInv, Typed
<1>2. explored' \in Reading /\ explored'.total = explored.total + half
      /\ explored'.more = (IF explored.checkpointed THEN explored.more + half ELSE explored.more)
      /\ explored'.checkpointed = explored.checkpointed /\ explored'.guarding = explored.guarding
  <2> DEFINE more == IF explored.checkpointed THEN explored.more + half ELSE explored.more
  <2>1. explored' = [explored EXCEPT !.total = explored.total + half, !.more = more]
    BY Zenon DEF Loop!Explore
  <2>2. explored.total + half \in Nat /\ more \in Nat
    BY <1>1 DEF Reading
  <2> HIDE DEF more
  <2>3. explored' \in Reading /\ explored'.total = explored.total + half /\ explored'.more = more
        /\ explored'.checkpointed = explored.checkpointed /\ explored'.guarding = explored.guarding
    BY <1>1, <2>1, <2>2 DEF Reading
  <2> QED BY <2>3 DEF more
<1>3. ReadInv
  BY DEF LoopInv
<1>4. explored.total \in Nat /\ explored.more \in Nat
  BY <1>1 DEF Reading
<1>5. CASE ~explored.guarding
  BY <1>2, <1>3, <1>5 DEF ReadInv
<1>6. CASE explored.guarding /\ ~explored.checkpointed
  <2>1. run.question => explored.more = 0 /\ explored.total < ReadRounds
    BY <1>3, <1>6 DEF ReadInv
  <2>2. run.question => explored'.more = 0 /\ explored'.total <= ReadRounds + 1
    BY <1>1, <1>2, <1>4, <1>6, <2>1
  <2> QED BY <1>2, <1>6, <2>2 DEF ReadInv
<1>7. CASE explored.guarding /\ explored.checkpointed
  <2>1. run.question => explored.total >= ReadRounds /\ explored.total <= ReadRounds + 1 + explored.more
    BY <1>3, <1>7 DEF ReadInv
  <2>2. run.question => explored'.total >= ReadRounds /\ explored'.total <= ReadRounds + 1 + explored'.more
    BY <1>1, <1>2, <1>4, <1>7, <2>1
  <2> QED BY <1>2, <1>7, <2>2 DEF ReadInv
<1> QED BY <1>2, <1>5, <1>6, <1>7, Zenon

\* A claim that satisfies a criterion names an outcome that succeeded.
LEMMA ClaimKeeps ==
  ASSUME NEW claim \in Loop!Claims, contract \in Contracts, refs \in Seq(BOOLEAN), ContractInv,
         Loop!Accepts(contract, refs, contract.rev, {claim})
  PROVE  LET applied == Loop!ApplyClaims(contract, refs, contract.rev, {claim})
         IN  /\ applied \in Contracts
             /\ \A c \in Criteria : applied.state[c] = "satisfied" /\ c \in NeedsEvidence =>
                  applied.proof[c] \in 1 .. Len(refs) /\ refs[applied.proof[c]]
<1> DEFINE Of(c) == {x \in {claim} : x.criterion = c}
           Pick(c) == CHOOSE x \in Of(c) : TRUE
           applied == Loop!ApplyClaims(contract, refs, contract.rev, {claim})
           state == [c \in Criteria |-> IF Of(c) = {} THEN contract.state[c] ELSE Pick(c).state]
           proof == [c \in Criteria |-> IF Of(c) = {} THEN contract.proof[c] ELSE Pick(c).ref]
<1>1. applied = [state |-> state, proof |-> proof, rev |-> contract.rev + 1]
  BY DEF Loop!ApplyClaims
<1>2. \A c \in Criteria : /\ claim.criterion # c => Of(c) = {}
                          /\ claim.criterion = c => Of(c) # {} /\ Pick(c) = claim
  <2> TAKE c \in Criteria
  <2>1. CASE claim.criterion # c
    BY <2>1
  <2>2. CASE claim.criterion = c
    <3>1. Of(c) = {claim}
      BY <2>2
    <3> QED BY <2>2, <3>1
  <2> QED BY <2>1, <2>2
<1> HIDE DEF Of, Pick
<1>3. \A c \in Criteria :
        /\ state[c] = IF claim.criterion = c THEN claim.state ELSE contract.state[c]
        /\ proof[c] = IF claim.criterion = c THEN claim.ref ELSE contract.proof[c]
  <2> TAKE c \in Criteria
  <2>1. /\ state[c] = IF Of(c) = {} THEN contract.state[c] ELSE Pick(c).state
        /\ proof[c] = IF Of(c) = {} THEN contract.proof[c] ELSE Pick(c).ref
    OBVIOUS
  <2>2. CASE claim.criterion = c
    BY <1>2, <2>1, <2>2, Zenon
  <2>3. CASE claim.criterion # c
    BY <1>2, <2>1, <2>3, Zenon
  <2> QED BY <2>2, <2>3
<1>4. /\ claim.criterion \in Criteria /\ claim.state \in {"pending", "satisfied", "blocked"}
      /\ claim.ref \in 0 .. MaxRefs
  BY DEF Loop!Claims
<1>5. state \in [Criteria -> {"pending", "satisfied", "blocked"}] /\ proof \in [Criteria -> 0 .. MaxRefs]
  <2>1. /\ contract.state \in [Criteria -> {"pending", "satisfied", "blocked"}]
        /\ contract.proof \in [Criteria -> 0 .. MaxRefs]
    BY DEF Contracts
  <2>2. \A c \in Criteria : state[c] \in {"pending", "satisfied", "blocked"} /\ proof[c] \in 0 .. MaxRefs
    BY <1>3, <1>4, <2>1
  <2> QED BY <2>2
<1>6. claim.state = "satisfied" /\ claim.criterion \in NeedsEvidence =>
        claim.ref \in 1 .. Len(refs) /\ refs[claim.ref]
  BY DEF Loop!Accepts, Loop!ValidClaim, Loop!Resolves
<1>7. contract.rev + 1 \in Nat
  BY DEF Contracts
<1> HIDE DEF state, proof, applied
<1>8. applied \in Contracts
  BY <1>1, <1>5, <1>7 DEF Contracts
<1>9. \A c \in Criteria : applied.state[c] = "satisfied" /\ c \in NeedsEvidence =>
        applied.proof[c] \in 1 .. Len(refs) /\ refs[applied.proof[c]]
  <2> SUFFICES ASSUME NEW c \in Criteria, state[c] = "satisfied", c \in NeedsEvidence
               PROVE  proof[c] \in 1 .. Len(refs) /\ refs[proof[c]]
    BY <1>1
  <2>1. CASE claim.criterion = c
    BY <1>3, <1>6, <2>1
  <2>2. CASE claim.criterion # c
    BY <1>3, <2>2 DEF ContractInv
  <2> QED BY <2>1, <2>2
<1> QED BY <1>8, <1>9 DEF applied

\* A call of the model and its result.
LEMMA RoundKeeps ==
  ASSUME LoopConstants, LoopInv, NEW call \in Loop!Calls, NEW result \in {"ok", "error", "denied"},
         NEW guard \in BOOLEAN, Loop!ToolRound(call, result, guard)
  PROVE  LoopInv'
<1> DEFINE changes == call = "edit" /\ result = "ok" /\ ~Loop!Unindexed(call, result)
           indexed == run.strict /\ call # "report" /\ result # "denied"
<1>0. /\ pc = call /\ denied' = (denied \/ guard) /\ edited' = (edited \/ changes)
      /\ fresh' = (fresh /\ ~(call = "edit" /\ result = "ok"))
      /\ UNCHANGED <<run, i, try, tools, awaiting, tested, cycles, shown, beating, cancelled, Loop!session>>
  BY DEF Loop!ToolRound
<1>1. pc \in Loop!Calls /\ pc \notin Left /\ pc \in Working /\ outcome = Loop!Undecided /\ ~beating
  BY <1>0 DEF LoopInv, PlaceInv, Loop!Calls, Left, Working
<1>2. \E seen \in {{}, {"passed"}, {"failed"}} : records' = records \cup seen
  BY DEF Loop!ToolRound, Loop!Observed
<1>3. \/ Loop!Fail("failed") /\ UNCHANGED <<refs, used, receipt>> /\ Loop!Unindexed(call, result)
      \/ Loop!Count(result) /\ ~Loop!Unindexed(call, result)
         /\ refs' = (IF indexed THEN Append(refs, result = "ok") ELSE refs)
  BY Zenon DEF Loop!ToolRound
<1>4. \/ UNCHANGED contract
      \/ \E claim \in Loop!Claims : /\ Loop!Accepts(contract, refs, contract.rev, {claim})
                               /\ contract' = Loop!ApplyClaims(contract, refs, contract.rev, {claim})
  BY Zenon DEF Loop!ToolRound
<1>5. refs \in Seq(BOOLEAN) /\ Len(refs) <= MaxRefs /\ MaxRefs \in Nat /\ Len(refs) \in Nat
  BY DEF LoopConstants, LoopInv, Typed
<1> DEFINE Grown == /\ refs' \in Seq(BOOLEAN) /\ Len(refs') <= MaxRefs /\ Len(refs) <= Len(refs')
                    /\ Len(refs') \in Nat /\ \A r \in 1 .. Len(refs) : refs'[r] = refs[r]
<1>6. Grown
  <2>1. CASE refs' = refs
    BY <1>5, <2>1
  <2>2. CASE refs' = Append(refs, result = "ok") /\ indexed /\ ~Loop!Unindexed(call, result)
    <3>1. Len(refs) < MaxRefs
      BY <1>5, <2>2 DEF Loop!Unindexed
    <3>2. (result = "ok") \in BOOLEAN
      OBVIOUS
    <3> DEFINE ok == result = "ok"
    <3>3. ok \in BOOLEAN /\ refs' = Append(refs, ok)
      BY <2>2, <3>2
    <3> HIDE DEF ok
    <3> QED BY <1>5, <3>1, <3>3
  <2> QED BY <1>3, <2>1, <2>2, Zenon
<1> HIDE DEF Grown
<1>7. /\ used' \in Budgets /\ used'.verify = used.verify /\ used'.stopBlocks = used.stopBlocks
      /\ pc' \in {"ready", "exit"} /\ (pc' = "ready" => used'.errors < MaxErrorRounds)
      /\ receipt' \in BOOLEAN
      /\ \/ outcome' = outcome
         \/ pc' = "exit" /\ outcome'.policy = "reconcile"
  <2>1. used \in Budgets /\ used.errors < MaxErrorRounds /\ receipt \in BOOLEAN /\ denied \in BOOLEAN
    BY <1>1 DEF LoopInv, Typed, PlaceInv
  <2>2. used.errors \in 0 .. MaxErrorRounds /\ MaxErrorRounds \in Nat \ {0}
    BY <2>1, BudgetBounds DEF LoopConstants
  <2>3. CASE Loop!Fail("failed") /\ UNCHANGED <<refs, used, receipt>>
    BY <1>1, <2>1, <2>3 DEF Loop!Fail, Loop!Decide
  <2>4. CASE Loop!Count(result)
    <3> DEFINE n == IF result = "ok" THEN 0 ELSE used.errors + 1
    <3>1. used' = [used EXCEPT !.errors = n]
      BY <2>4, Zenon DEF Loop!Count
    <3>2. n \in 0 .. MaxErrorRounds
      BY <2>1, <2>2
    <3>3. \/ result # "ok" /\ used.errors + 1 >= MaxErrorRounds /\ Loop!RecoveryReceipt /\ Loop!Fail("failed")
          \/ /\ ~(result # "ok" /\ used.errors + 1 >= MaxErrorRounds)
             /\ pc' = "ready" /\ UNCHANGED <<receipt, outcome>>
      BY <2>4, Zenon DEF Loop!Count
    <3>4. ~(result # "ok" /\ used.errors + 1 >= MaxErrorRounds) => n < MaxErrorRounds
      BY <2>1, <2>2
    <3> HIDE DEF n
    <3>5. used' \in Budgets /\ used'.verify = used.verify /\ used'.stopBlocks = used.stopBlocks
          /\ used'.errors = n
      BY <2>1, <3>1, <3>2 DEF Budgets
    <3>6. CASE Loop!RecoveryReceipt /\ Loop!Fail("failed")
      BY <1>1, <2>1, <3>5, <3>6 DEF Loop!RecoveryReceipt, Loop!Fail, Loop!Decide
    <3>7. CASE /\ ~(result # "ok" /\ used.errors + 1 >= MaxErrorRounds)
               /\ pc' = "ready" /\ UNCHANGED <<receipt, outcome>>
      BY <2>1, <3>4, <3>5, <3>7
    <3> QED BY <3>3, <3>6, <3>7
  <2> QED BY <1>3, <2>3, <2>4, Zenon
<1>8. \E half \in {1, 2} : Loop!Explore(half)
  BY DEF Loop!ToolRound
<1>9. pc' \notin Working /\ pc' \notin Closing /\ pc' # "finalize" /\ pc' # "finish"
  BY <1>7 DEF Working, Loop!Calls, Closing
<1>10. explored' \in Reading /\ ReadInv'
  BY <1>0, <1>1, <1>8, <1>9, ExploreKeeps
<1>11. contract' \in Contracts /\ ContractInv'
  <2>1. contract \in Contracts /\ ContractInv
    BY DEF LoopInv, Typed
  <2> DEFINE Proved ==
        /\ contract' \in Contracts
        /\ \A c \in Criteria : contract'.state[c] = "satisfied" /\ c \in NeedsEvidence =>
             contract'.proof[c] \in 1 .. Len(refs) /\ refs[contract'.proof[c]]
  <2>2. Proved
    <3>1. CASE UNCHANGED contract
      BY <2>1, <3>1 DEF ContractInv
    <3>2. ASSUME NEW claim \in Loop!Claims, Loop!Accepts(contract, refs, contract.rev, {claim}),
                 contract' = Loop!ApplyClaims(contract, refs, contract.rev, {claim})
          PROVE  Proved
      BY <1>5, <2>1, <3>2, ClaimKeeps
    <3> QED BY <1>4, <3>1, <3>2
  <2>3. ASSUME NEW c \in Criteria, contract'.proof[c] \in 1 .. Len(refs), refs[contract'.proof[c]]
        PROVE  contract'.proof[c] \in 1 .. Len(refs') /\ refs'[contract'.proof[c]]
    BY <1>5, <1>6, <2>3 DEF Grown
  <2> QED BY <2>2, <2>3 DEF ContractInv
<1>12. Typed'
  <2>1. pc' \in RunPlaces
    BY <1>7 DEF RunPlaces, Left
  <2>2. edited' \in BOOLEAN /\ denied' \in BOOLEAN /\ fresh' \in BOOLEAN
    BY <1>0 DEF LoopInv, Typed
  <2>3. {awaiting, cycles, shown, beating, cancelled, closed} \subseteq BOOLEAN
    BY DEF LoopInv, Typed
  <2>4. ({awaiting, edited, denied, cycles, shown, receipt, beating, cancelled, closed,
          fresh} \subseteq BOOLEAN)'
    BY <1>0, <1>7, <2>2, <2>3 DEF Loop!session
  <2>5. records' \subseteq {"passed", "failed"}
    BY <1>2 DEF LoopInv, Typed
  <2> QED BY <1>0, <1>6, <1>7, <1>10, <1>11, <2>1, <2>4, <2>5 DEF LoopInv, Typed, Grown, Loop!session
<1>13. PlaceInv'
  BY <1>0, <1>1, <1>7, <1>9 DEF LoopInv, PlaceInv, Left, Loop!session, Loop!Undecided
<1>14. GateInv' /\ Loop!EditsWereTested'
  <2>1. ~Loop!Commits'
    <3>1. outcome' = outcome => ~Loop!Commits'
      BY <1>1, OpenStays
    <3>2. outcome'.policy = "reconcile" => ~Loop!Commits'
      BY DEF Loop!Commits
    <3> QED BY <1>7, <3>1, <3>2, Zenon
  <2> QED BY <1>9, <2>1, Zenon DEF GateInv, Loop!EditsWereTested
<1>15. TestInv'
  BY <1>2, <1>7, <1>9, <1>14 DEF LoopInv, TestInv
<1>16. ShownInv'
  BY <1>0, <1>1 DEF LoopInv, ShownInv
<1> QED BY <1>10, <1>11, <1>12, <1>13, <1>14, <1>15, <1>16 DEF LoopInv

LEMMA ImageKeeps ==
  ASSUME LoopConstants, LoopInv, Loop!ImageRefused
  PROVE  LoopInv'
<1>1. /\ pc \in {"call", "read"} /\ beating' = FALSE /\ Loop!Fail("failed")
      /\ UNCHANGED <<run, i, try, used, tools, awaiting, Loop!work, cycles, shown, receipt, cancelled,
                     Loop!session>>
      /\ IF pc = "read" THEN Loop!Explore(2) ELSE explored' = explored
  BY DEF Loop!ImageRefused, Loop!Explore
<1>2. outcome = Loop!Undecided /\ pc' = "exit" /\ outcome'.policy = "reconcile"
  BY <1>1 DEF LoopInv, PlaceInv, Left, Loop!Fail, Loop!Decide
<1>3. pc \in Working /\ pc' \notin Working /\ pc' \notin Closing /\ pc \notin Left /\ pc' \in Left
  BY <1>1, <1>2 DEF Working, Loop!Calls, Closing, Left
<1>4. explored' \in Reading /\ ReadInv'
  <2>1. CASE pc = "read"
    <3>1. Loop!Explore(2)
      BY <1>1, <2>1
    <3> QED BY <1>1, <1>3, <3>1, ExploreKeeps
  <2>2. CASE pc # "read"
    <3>1. explored' = explored
      BY <1>1, <2>2
    <3>2. ReadInv'
      BY <1>1, <1>3, <3>1, ReadingStays
    <3> QED BY <3>1, <3>2 DEF LoopInv, Typed
  <2> QED BY <2>1, <2>2
<1>5. Typed'
  <2>1. pc' \in RunPlaces
    BY <1>3 DEF RunPlaces
  <2>2. {awaiting, edited, denied, cycles, shown, receipt, cancelled, closed, fresh} \subseteq BOOLEAN
    BY DEF LoopInv, Typed
  <2>3. ({awaiting, edited, denied, cycles, shown, receipt, beating, cancelled, closed,
          fresh} \subseteq BOOLEAN)'
    BY <1>1, <2>2 DEF Loop!work, Loop!session
  <2>4. contract' \in Contracts /\ refs' \in Seq(BOOLEAN) /\ Len(refs') <= MaxRefs
    BY <1>1 DEF LoopInv, Typed, Loop!work
  <2> QED BY <1>1, <1>4, <2>1, <2>3, <2>4 DEF LoopInv, Typed, Loop!work, Loop!session
<1>6. PlaceInv'
  BY <1>1, <1>2, <1>3 DEF LoopInv, PlaceInv, Loop!session
<1>7. ContractInv' /\ GateInv' /\ TestInv' /\ ShownInv'
  BY <1>1, <1>2, <1>3, WorkStays DEF Loop!work
<1> QED BY <1>4, <1>5, <1>6, <1>7 DEF LoopInv

LEMMA StartsHonest ==
  ASSUME LoopConstants, Loop!Init
  PROVE  LoopInv
<1>0. /\ MaxRefs \in Nat /\ MaxStopBlocks \in Nat /\ MaxIterations \in Nat /\ MaxCorrections \in Nat
      /\ MaxCompact \in Nat /\ ReadRounds \in Nat
      /\ MaxErrorRounds \in Nat \ {0} /\ MaxVerify \in Nat \ {0} /\ MaxCalls \in Nat \ {0}
  BY DEF LoopConstants
<1>1. /\ run \in Profiles /\ run.question \in BOOLEAN /\ run.selector \in BOOLEAN
  BY DEF LoopConstants, Loop!Init
<1>2. /\ pc = "preflight" /\ i = 0 /\ try = 0 /\ outcome = Loop!Undecided
      /\ refs = <<>> /\ contract = Loop!NewContract
      /\ used = [parser |-> 0, selector |-> 0, completion |-> 0, verify |-> 0, compact |-> 0,
                 stopBlocks |-> 0, errors |-> 0]
      /\ explored = [total |-> 0, more |-> 0, checkpointed |-> FALSE, guarding |-> run.question]
      /\ awaiting = run.selector /\ tools = "all" /\ records = {} /\ hooks = "none" /\ mcp = "none"
      /\ {edited, denied, cycles, shown, receipt, beating, cancelled, closed, fresh} = {FALSE}
  BY DEF Loop!Init
<1> HIDE DEF LoopConstants, Loop!Init
<1>3. used \in Budgets /\ used.verify = 0 /\ used.errors = 0
  BY <1>0, <1>2 DEF Budgets
<1>4. explored \in Reading
  BY <1>1, <1>2 DEF Reading
<1>5. contract \in Contracts /\ \A c \in Criteria : contract.state[c] # "satisfied"
  BY <1>0, <1>2 DEF Loop!NewContract, Contracts
<1>6. refs \in Seq(BOOLEAN) /\ Len(refs) <= MaxRefs
  BY <1>0, <1>2
<1>7. Typed
  <2>1. {awaiting, edited, denied, cycles, shown, receipt, beating, cancelled, closed,
          fresh} \subseteq BOOLEAN
    BY <1>1, <1>2
  <2>2. i \in 0 .. MaxIterations /\ try \in 0 .. MaxCalls
    BY <1>0, <1>2
  <2>3. pc \in RunPlaces
    BY <1>2 DEF RunPlaces
  <2> QED BY <1>1, <1>2, <1>3, <1>4, <1>5, <1>6, <2>1, <2>2, <2>3 DEF Typed
<1>8. PlaceInv
  <2>1. beating = FALSE /\ closed = FALSE
    BY <1>2
  <2>2. used.errors < MaxErrorRounds /\ 0 < MaxCalls
    BY <1>0, <1>3
  <2> QED BY <1>2, <2>1, <2>2 DEF PlaceInv
<1>9. ContractInv
  BY <1>5 DEF ContractInv
<1>10. ~Loop!Commits
  BY <1>2 DEF Loop!Commits, Loop!Undecided
<1>11. GateInv /\ TestInv
  BY <1>2, <1>3, <1>10 DEF GateInv, TestInv, Loop!EditsWereTested, Closing
<1>12. ShownInv
  BY <1>2 DEF ShownInv
<1>13. ReadInv
  <2>1. /\ explored.total = 0 /\ explored.more = 0 /\ ~explored.checkpointed /\ explored.guarding = run.question
        /\ pc \notin Working
    BY <1>2 DEF Working, Loop!Calls
  <2>2. 0 <= ReadRounds + 1
    BY <1>0
  <2> QED BY <2>1, <2>2 DEF ReadInv
<1> QED BY <1>7, <1>8, <1>9, <1>11, <1>12, <1>13 DEF LoopInv

LEMMA StepKeeps ==
  ASSUME LoopConstants, LoopInv, [Loop!Next]_(Loop!vars)
  PROVE  LoopInv'
<1>1. CASE Loop!Step
  <2>1. CASE Loop!CallFails \/ Loop!SeesCancel \/ Loop!CallStreams \/ Loop!EmptyStream \/ Loop!Malformed
    BY <2>1, RequestKeeps
  <2>2. CASE \/ \E right \in BOOLEAN : Loop!Selector(right)
             \/ \E call \in {""} \cup Loop!Calls : Loop!Reply(call)
             \/ \E directive \in {"stop", "max_cycles", "continue", "error"} : Loop!ModeAdvances(directive)
    BY <2>2, ReplyKeeps
  <2>3. CASE \E plan \in {"fits", "compacted", "blocked", "broken"} : Loop!Prepare(plan)
    BY <2>3, PrepareKeeps
  <2>4. CASE \E failed \in BOOLEAN : Loop!Verify(failed)
    BY <2>4, VerifyKeeps
  <2>5. CASE Loop!CheckContract \/ Loop!CheckGate
    BY <2>5, ChecksKeep
  <2>6. CASE \E text \in BOOLEAN : Loop!Finish(text)
    BY <2>6, FinishKeeps
  <2>7. CASE \E call \in Loop!Calls, result \in {"ok", "error", "denied"}, guard \in BOOLEAN :
               Loop!ToolRound(call, result, guard)
    BY <2>7, RoundKeeps
  <2>8. CASE Loop!ImageRefused
    BY <2>8, ImageKeeps
  <2>9. CASE \/ Loop!CloseMCP \/ Loop!Finalize \/ Loop!Cancel \/ Loop!PreflightFails
             \/ Loop!UndoCommand \/ Loop!CatalogFails \/ Loop!StartSession
             \/ \E ok \in BOOLEAN : Loop!Resolve(ok)
             \/ \E usable \in BOOLEAN : Loop!ConnectMCP(usable)
             \/ \E kind \in {"prompt", "unknown", "direct"} : Loop!SlashCommand(kind)
             \/ Loop!OutOfIterations
    BY <2>9, SetupKeeps
  <2> QED BY <1>1, <2>1, <2>2, <2>3, <2>4, <2>5, <2>6, <2>7, <2>8, <2>9, Zenon DEF Loop!Step
<1>2. CASE Loop!Cancel
  BY <1>2, SetupKeeps
<1>3. CASE UNCHANGED Loop!vars
  <2>1. Typed' /\ PlaceInv'
    BY <1>3 DEF LoopInv, Typed, PlaceInv, Loop!vars
  <2>2. ContractInv' /\ GateInv' /\ TestInv' /\ ShownInv'
    BY <1>3, WorkStays DEF Loop!vars
  <2>3. ReadInv'
    BY <1>3, ReadingStays DEF Loop!vars
  <2> QED BY <2>1, <2>2, <2>3 DEF LoopInv
<1> QED BY <1>1, <1>2, <1>3 DEF Loop!Next

LEMMA RunsAreSound ==
  ASSUME LoopConstants
  PROVE  Loop!Spec => []LoopInv
<1>1. Loop!Init => LoopInv
  BY StartsHonest
<1>2. LoopInv /\ [Loop!Next]_(Loop!vars) => LoopInv'
  BY StepKeeps
<1> QED BY <1>1, <1>2, PTL DEF Loop!Spec

\* The types of a run and every budget of corrections within its limit.
THEOREM RunsAreTyped ==
  ASSUME LoopConstants
  PROVE  Loop!Spec => []Loop!TypeOK
<1>1. LoopInv => Loop!TypeOK
  <2> SUFFICES ASSUME LoopInv PROVE Loop!TypeOK
    OBVIOUS
  <2>1. /\ run \in Profiles
        /\ run.mcp \in {"none", "owned", "borrowed"}
        /\ run.task \in {"quick", "normal", "deep"} /\ run.policy \in {"off", "measure", "advisory",
                "block"}
        /\ {run.strict, run.question, run.docs, run.verify, run.mode, run.selector} \subseteq BOOLEAN
    BY DEF LoopConstants, LoopInv, Typed
  <2>2. used \in Budgets
    BY DEF LoopInv, Typed
  <2>3. /\ used.parser \in 0 .. MaxCorrections /\ used.completion \in 0 .. MaxCorrections
        /\ used.selector \in 0 .. MaxCorrections /\ used.compact \in 0 .. MaxCompact
        /\ used.verify \in 0 .. MaxVerify /\ used.stopBlocks \in 0 .. MaxStopBlocks
        /\ used.errors \in 0 .. MaxErrorRounds
    BY <2>2 DEF Budgets
  <2> QED BY <2>1, <2>3 DEF LoopInv, Typed, Loop!TypeOK
<1> QED BY <1>1, RunsAreSound, PTL

\* A strict run that is committed has proved every criterion of its contract
\* (RunLoopWithOptions, ApplyClaims).
THEOREM DoneMeansProved ==
  ASSUME LoopConstants
  PROVE  Loop!Spec => []Loop!DoneIsProved
<1>1. LoopInv => Loop!DoneIsProved
  <2> SUFFICES ASSUME LoopInv, Loop!Commits, run.strict, NEW c \in Criteria
               PROVE  /\ contract.state[c] = "satisfied"
                      /\ c \in NeedsEvidence => contract.proof[c] \in 1 .. Len(refs) /\ refs[contract.proof[c]]
    BY DEF Loop!DoneIsProved
  <2>1. Loop!Status(contract) = "complete"
    BY DEF LoopInv, GateInv, Unfinished
  <2>2. contract.state[c] = "satisfied"
    BY <2>1 DEF Loop!Status
  <2> QED BY <2>2 DEF LoopInv, ContractInv
<1> QED BY <1>1, RunsAreSound, PTL

\* Under the block policy unverified edits of a deep run are committed only
\* when the gate has sent it back as often as it may (the evidence gate).
THEOREM BlocksAreSpent ==
  ASSUME LoopConstants
  PROVE  Loop!Spec => []Loop!GateSpent
<1>1. LoopInv => Loop!GateSpent
  BY DEF LoopInv, GateInv, GateOpen, Loop!GateSpent
<1> QED BY <1>1, RunsAreSound, PTL

\* The edits of a committed run were tested after the last of them, or the run
\* is not called verified (the auto-verification of RunLoopWithOptions).
THEOREM TestsFollowEdits ==
  ASSUME LoopConstants
  PROVE  Loop!Spec => []Loop!EditsWereTested
<1>1. LoopInv => Loop!EditsWereTested
  BY DEF LoopInv, TestInv
<1> QED BY <1>1, RunsAreSound, PTL

\* A strict run shows no prose before its contract is settled, leaves no
\* writer of events behind its done frame, and a question stays within its
\* reading budgets.
THEOREM RunsStayBounded ==
  ASSUME LoopConstants
  PROVE  Loop!Spec => [](Loop!ProseWithheld /\ Loop!NoWriterAfterClose /\ Loop!ReadBudget)
<1>1. LoopInv => Loop!ProseWithheld
  BY DEF LoopInv, ShownInv, Loop!ProseWithheld
<1>2. LoopInv => Loop!NoWriterAfterClose
  BY DEF LoopInv, Typed, PlaceInv, Loop!NoWriterAfterClose
<1>3. LoopInv => Loop!ReadBudget
  <2> SUFFICES ASSUME LoopInv, run.question, pc = "call", tools # "none"
               PROVE  explored.total <= ReadRounds + MoreRounds
    BY DEF Loop!ReadBudget
  <2>1. /\ explored.total \in Nat /\ explored.more \in Nat /\ ReadRounds \in Nat /\ MoreRounds \in Nat \ {0}
        /\ explored.checkpointed \in BOOLEAN
    BY DEF LoopConstants, LoopInv, Typed, Reading
  <2>2. explored.guarding
    BY DEF LoopInv, ReadInv
  <2>3. CASE explored.checkpointed
    <3>1. explored.total <= ReadRounds + 1 + explored.more /\ explored.more < MoreRounds
      BY <2>2, <2>3 DEF LoopInv, ReadInv, Working
    <3> QED BY <2>1, <3>1
  <2>4. CASE ~explored.checkpointed
    <3>1. explored.total < ReadRounds
      BY <2>2, <2>4 DEF LoopInv, ReadInv, Working
    <3> QED BY <2>1, <3>1
  <2> QED BY <2>3, <2>4
<1> QED BY <1>1, <1>2, <1>3, RunsAreSound, PTL

=============================================================================
