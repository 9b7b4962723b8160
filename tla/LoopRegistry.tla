---------------------------- MODULE LoopRegistry ----------------------------
(***************************************************************************)
(* The registry of running agent loops (internal/agent/loop_registry.go),  *)
(* with its callers in the server: the agent handler, the cancel endpoint, *)
(* configuration updates behind the registration barrier, and the shutdown *)
(* of the process.                                                         *)
(*                                                                         *)
(* Register and release take r.mu and the semaphore in separate steps, so  *)
(* each is several actions here; a handler is named by the session id its  *)
(* registration draws.                                                     *)
(***************************************************************************)
EXTENDS Naturals, FiniteSets

CONSTANTS Handlers,      \* POST /api/agent handlers
          MaxConcurrent, \* capacity of the semaphore
          Configs,       \* provider, model and router settings
          NoConfig

ASSUME RegistryAssumption ==
  /\ IsFiniteSet(Handlers)
  /\ MaxConcurrent \in Nat \ {0}
  /\ NoConfig \notin Configs

VARIABLES at,           \* handler -> where it is
          sem,          \* slots taken
          loops,        \* registered loops
          wg,           \* the wait group's counter
          shuttingDown,
          canceled,     \* loops whose context is done
          looked,       \* loops a cancel call has found and not yet canceled
          shutdown,     \* where the call of Shutdown is
          live,         \* the loops it still has to cancel
          config,       \* the server's provider, model and router
          snapshot      \* handler -> the configuration its run uses

vars == <<at, sem, loops, wg, shuttingDown, canceled, looked, shutdown, live, config, snapshot>>

Places == {"idle", "admitted", "slot", "refused", "registered", "running",
           "removed", "slotBack", "gone"}

TypeOK ==
  /\ at \in [Handlers -> Places]
  /\ sem \in 0 .. MaxConcurrent
  /\ loops \subseteq Handlers
  /\ wg \in Nat
  /\ shuttingDown \in BOOLEAN
  /\ canceled \subseteq Handlers
  /\ looked \subseteq Handlers
  /\ shutdown \in {"none", "canceling", "waiting", "drained", "timedOut"}
  /\ live \subseteq Handlers
  /\ config \in Configs
  /\ snapshot \in [Handlers -> Configs \cup {NoConfig}]

Init ==
  /\ at = [h \in Handlers |-> "idle"]
  /\ sem = 0
  /\ loops = {}
  /\ wg = 0
  /\ shuttingDown = FALSE
  /\ canceled = {}
  /\ looked = {}
  /\ shutdown = "none"
  /\ live = {}
  /\ config \in Configs
  /\ snapshot = [h \in Handlers |-> NoConfig]

Moves(h, from, to) == at[h] = from /\ at' = [at EXCEPT ![h] = to]

-----------------------------------------------------------------------------
(* Register and the start of a run.                                        *)

\* The first look at shuttingDown, under the read lock.
RegisterCheck(h) ==
  /\ Moves(h, "idle", IF shuttingDown THEN "gone" ELSE "admitted")
  /\ UNCHANGED <<sem, loops, wg, shuttingDown, canceled, looked, shutdown, live, config, snapshot>>

RegisterSlot(h) ==
  /\ Moves(h, "admitted", IF sem < MaxConcurrent THEN "slot" ELSE "gone")
  /\ sem' = IF sem < MaxConcurrent THEN sem + 1 ELSE sem
  /\ UNCHANGED <<loops, wg, shuttingDown, canceled, looked, shutdown, live, config, snapshot>>

\* Shutdown may have begun since the first look.
MayInsert_NoRecheck == TRUE
MayInsert == ~shuttingDown

RegisterInsert(h) ==
  /\ MayInsert
  /\ Moves(h, "slot", "registered")
  /\ loops' = loops \cup {h}
  /\ wg' = wg + 1
  /\ UNCHANGED <<sem, shuttingDown, canceled, looked, shutdown, live, config, snapshot>>

RegisterLost(h) ==
  /\ ~MayInsert
  /\ Moves(h, "slot", "refused")
  /\ UNCHANGED <<sem, loops, wg, shuttingDown, canceled, looked, shutdown, live, config, snapshot>>

ReturnSlot_Leaks(h) ==
  /\ Moves(h, "refused", "gone")
  /\ UNCHANGED <<sem, loops, wg, shuttingDown, canceled, looked, shutdown, live, config, snapshot>>
ReturnSlot(h) ==
  /\ Moves(h, "refused", "gone")
  /\ sem' = sem - 1
  /\ UNCHANGED <<loops, wg, shuttingDown, canceled, looked, shutdown, live, config, snapshot>>

\* handleAgent reads provider and model only after it is registered.
ReadRuntime(h) ==
  /\ Moves(h, "registered", "running")
  /\ snapshot' = [snapshot EXCEPT ![h] = config]
  /\ UNCHANGED <<sem, loops, wg, shuttingDown, canceled, looked, shutdown, live, config>>

-----------------------------------------------------------------------------
(* release: the loop returned, by itself or because its context is done.   *)

ReleaseRemove(h) ==
  /\ at[h] \in {"registered", "running"}
  /\ at' = [at EXCEPT ![h] = "removed"]
  /\ loops' = loops \ {h}
  /\ UNCHANGED <<sem, wg, shuttingDown, canceled, looked, shutdown, live, config, snapshot>>

ReleaseSlot(h) ==
  /\ Moves(h, "removed", "slotBack")
  /\ canceled' = canceled \cup {h}
  /\ sem' = sem - 1
  /\ UNCHANGED <<loops, wg, shuttingDown, looked, shutdown, live, config, snapshot>>

WaitGroupDone(h) ==
  /\ Moves(h, "slotBack", "gone")
  /\ wg' = wg - 1
  /\ UNCHANGED <<sem, loops, shuttingDown, canceled, looked, shutdown, live, config, snapshot>>

\* The client of the run went away: the parent context is done.
ClientGone(h) ==
  /\ h \in loops
  /\ h \notin canceled
  /\ canceled' = canceled \cup {h}
  /\ UNCHANGED <<at, sem, loops, wg, shuttingDown, looked, shutdown, live, config, snapshot>>

-----------------------------------------------------------------------------
(* Cancel, the configuration barrier and Shutdown.                         *)

CancelLookup(h) ==
  /\ h \in loops
  /\ h \notin looked
  /\ looked' = looked \cup {h}
  /\ UNCHANGED <<at, sem, loops, wg, shuttingDown, canceled, shutdown, live, config, snapshot>>

CancelFire(h) ==
  /\ h \in looked
  /\ looked' = looked \ {h}
  /\ canceled' = canceled \cup {h}
  /\ UNCHANGED <<at, sem, loops, wg, shuttingDown, shutdown, live, config, snapshot>>

\* applyConfigUpdate inside WithRegistrationBarrier: a real change is refused
\* while loops are registered.
ActiveRuns_Running == Cardinality({h \in Handlers : at[h] = "running" /\ h \notin canceled})
ActiveRuns == Cardinality(loops)
ApplyConfigUpdate(c) ==
  /\ ~shuttingDown
  /\ c # config
  /\ ActiveRuns = 0
  /\ config' = c
  /\ UNCHANGED <<at, sem, loops, wg, shuttingDown, canceled, looked, shutdown, live, snapshot>>

ShutdownBegin ==
  /\ shutdown = "none"
  /\ shutdown' = "canceling"
  /\ shuttingDown' = TRUE
  /\ live' = loops
  /\ UNCHANGED <<at, sem, loops, wg, canceled, looked, config, snapshot>>

ShutdownCancel(h) ==
  /\ shutdown = "canceling"
  /\ h \in live
  /\ live' = live \ {h}
  /\ canceled' = canceled \cup {h}
  /\ UNCHANGED <<at, sem, loops, wg, shuttingDown, looked, shutdown, config, snapshot>>

ShutdownWait ==
  /\ shutdown = "canceling"
  /\ live = {}
  /\ shutdown' = "waiting"
  /\ UNCHANGED <<at, sem, loops, wg, shuttingDown, canceled, looked, live, config, snapshot>>

\* Shutdown returns true; the select may take either ready case.
ShutdownDrained ==
  /\ shutdown = "waiting"
  /\ wg = 0
  /\ shutdown' = "drained"
  /\ UNCHANGED <<at, sem, loops, wg, shuttingDown, canceled, looked, live, config, snapshot>>
\* The 30 seconds are over.
ShutdownTimeout ==
  /\ shutdown = "waiting"
  /\ shutdown' = "timedOut"
  /\ UNCHANGED <<at, sem, loops, wg, shuttingDown, canceled, looked, live, config, snapshot>>

RegisterStep(h) ==
  \/ RegisterCheck(h) \/ RegisterSlot(h) \/ RegisterInsert(h)
  \/ RegisterLost(h) \/ ReturnSlot(h) \/ ReadRuntime(h)
ReleaseStep(h)  == ReleaseRemove(h) \/ ReleaseSlot(h) \/ WaitGroupDone(h)
ShutdownStep    == (\E h \in Handlers : ShutdownCancel(h)) \/ ShutdownWait \/ ShutdownDrained \/ ShutdownTimeout

Next ==
  \/ \E h \in Handlers : \/ RegisterStep(h) \/ ReleaseStep(h)
                         \/ ClientGone(h) \/ CancelLookup(h) \/ CancelFire(h)
  \/ \E c \in Configs : ApplyConfigUpdate(c)
  \/ ShutdownBegin
  \/ ShutdownStep

Spec == Init /\ [][Next]_vars

-----------------------------------------------------------------------------
Holding(places) == {h \in Handlers : at[h] \in places}

\* Slots are conserved: the semaphore counts exactly the handlers that still
\* owe one back, so the cap holds and no refused or canceled run leaks a slot.
SlotsConserved ==
  /\ sem = Cardinality(Holding({"slot", "refused", "registered", "running", "removed"}))
  /\ Cardinality(loops) <= sem

\* When Shutdown reports that everything drained, no loop is running and none
\* can start any more: a registration that raced the shutdown was refused.
DrainedIsFinal ==
  shutdown = "drained" =>
    Holding({"registered", "running", "removed", "slotBack"}) = {}

\* "this snapshot is either wholly before or wholly after a provider/model/
\* router update": a registered run never outlives the configuration it read.
ConfigStable == \A h \in loops : at[h] = "running" => snapshot[h] = config

=============================================================================
