# Verification of Corelay Code

Corelay Code is a coding agent. A local HTTP server (`cmd/proxy`, `internal/server`) runs
agent loops (`internal/agent`) against model providers, executes the tools the model asks
for after a user has approved them (`internal/approval`), keeps durable sessions and
workstream plans on disk (`internal/agent/sessions.go`, `internal/workstream`), routes the
requests of other clients over several accounts (`internal/runtimeplane`), and offers the
same kernel over the Agent Client Protocol (`internal/acp`, `internal/acpbridge`), in a web
page, a full-screen terminal client and a line client. This directory models the parts in
which concurrency, crashes, stale knowledge and long call sequences decide whether the
program is correct, checks them with TLC on small instances, and proves the results about
approvals, the loop registry, the agent loop, sessions, durable runs, plans, the dispatch of tool
calls and the gates before a tool (hooks, permissions, plugin bindings), file changes and their
undo, commands and supervised processes, capability probes, and the managed server and its updater
with TLAPS for all instances.

Paths below are relative to `src/internal/` unless they start with `cmd/`, `web/` or `docs/`.

## 1. Inventory

| Component (code) | State | Operations | Hard because | Module |
|---|---|---|---|---|
| Approval broker (`approval/broker.go`) | requests, full-mode grants, canceled sessions, one timer per entry, blocked `Await` callers | Open, Resolve, Await, CancelSession, Shutdown, IssueFullModeGrant, ConsumeFullModeGrant, timers | users, timers, cancellation and shutdown race for one resolution; a waiter keeps a pointer to an entry whose key is gone | `ApprovalBroker` |
| Session store and API (`agent/sessions.go`, `server/server.go`) | one JSON file per session: revision, transcript, lifecycle, interruption marker, last receipt | save, interrupt, journal, commit, reconcile, close, fork, delete, preview | clients act on stale copies; compare-and-set is the only protection; a bad combination makes a file unreadable | `SessionStore`, `SessionClients` |
| Durable runs (`server/agent_session.go`, `agent/durable_run.go`) | gate per session, quarantine, the run's copy of its session and marker | check, gate, prepare, journal a tool, execute, commit, reconcile, release | the process may die between an effect and its record; requests are retried | `EffectLedger`, `DurableRun` |
| Loop registry (`agent/loop_registry.go`) | semaphore, map of loops, wait group, shutdown flag | Register, release, Cancel, WithRegistrationBarrier, Shutdown | check, slot and insertion are separate steps; shutdown races with registration | `LoopRegistry` |
| Workstream plans (`workstream/plans.go`, `server/workstream_plan*.go`) | plan record with stages and attempts, table of active plan runs | Create, Update, Approve, Begin, Finish, Reconcile | operators edit and reconcile while runs execute; the look into the table and the write are not atomic; crashes leave running stages | `PlanLifecycle`, `WorkstreamPlan` |
| Workstream records (`workstream/store.go`, `handoff.go`, `context.go`) | manifest, plan file, timeline log | create, patch, append, hand off, render | a file is written and the event is not; a torn append | `WorkstreamRecords` |
| Agent loop (`agent/loop.go`, `run_terminal.go`, `completion_*.go`) | iteration, budgets, evidence, contract, receipt | preflight, call, tool rounds, correction, verification, finalizer | forty exits, each of which must report what happened | `AgentLoop` |
| Tool dispatcher (`agent/tool_dispatch.go`, `run_guard.go`) | calls of a turn, repetition guard | authorize, run beside others or alone, cancel | concurrent and serial calls in one turn, cancellation between them | `ToolDispatch` |
| File changes and undo (`agent/file_mutation*.go`, `checkpoint*.go`, `read_ledger.go`) | files, ledger, checkpoint manifest | batch, roll back, capture, publish, undo | one file of several fails, then the rollback; other programs edit | `FileMutation` |
| Tool call recovery (`agent/toolrecover.go`) | text of an answer, recovered calls | policies, cascade, legacy recovery, correction | several syntaxes overlap in one text | `ToolRecovery` |
| Context window (`agent/compact.go`, `context_plan.go`, `normalize.go`) | message list, token budget | append, normalise, cap, compact, budget | reductions in a fixed order must keep pairs and instructions | `ContextWindow` |
| Hooks, permissions, plugins (`hooks/*`, `agent/permission.go`, `plugin_*.go`) | snapshot of settings, grants, bound artifacts | start, decide, spawn a child, bind, execute | settings change during a run; authority is inherited | `ToolGates` |
| Sandbox and process supervisor (`sandbox/*`, `processsupervisor/*`) | one command with its descendants, its output and its context | admit, start, capture, limit, cancel, reap, stop | kill, reap, limit and context race; Unix and Windows differ | `Processes` |
| MCP and language servers (`agent/mcp*.go`, `lsp.go`) | table of waiters, reader and writer, tool catalog | call, answer, notify, refresh, close | late answers, a changed catalog, a server that dies | `ToolServers` |
| Web tools (`agent/tool_web*.go`) | pages, frames, browsers, results | fetch, redirect, browse, search, fuse | partial failure of providers, limited browser slots | `WebTools` |
| Runtime plane and proxy (`runtimeplane/*`, `server/server.go`, `api/retry.go`) | leases, cooldowns, avoidance, quota, attempts of a request | select, send, observe, retry, probe, collect | telemetry is written by concurrent requests and collectors | `ProxyRequest` |
| Streams (`translate/*`, `protocol/*`, `api/stream_watchdog.go`, `providers/*`) | one answer on its way | translate, check, encode, watch, cancel | three goroutines and a timer share one stream | `StreamRelay` |
| Teams and mailbox (`agent/team*.go`, `mailbox.go`) | task states, wave budget, inbox files and locks | waves, batches, pause, mail, read | timer against pause, deadline against done frame, abandoned lock files | `TeamRun` |
| Sub-agents and Chronos (`agent/subagent*.go`, `chronos*.go`, `server/chronos_evidence.go`) | session table, ownership, verification cycles | spawn, reduce, evict, cycle, record | table at its limit, a client that leaves | `ServerRuns` |
| KAIROS (`kairos/*`) | task list, tick loop, subscribers | start, stop, tick, save, observe, notify | stop during a tick, two starts, slow subscribers | `Kairos` |
| Session content and paged readers (`agent/session_memory.go`, `skill_reader.go`) | blobs by digest, quotas, pages | store, commit, clone, clean, page | content and transcript must agree after every failure | `SessionContent` |
| Managed server and updater (`cmd/proxy/managed_server.go`, `updater/*`) | leases, lock file, executable and its backup | join, serve, drain, install, roll back | several processes share lock and lease files | `ServerLifecycle` |
| Capability profiles and probes (`capabilityprofile/*`, `cmd/corelaycode-profile`) | profile files, attempts, disposable workspaces | measure, publish, adopt, probe | two commands, cancellation, a process-wide environment | `CapabilityProfile`, `ProbeAttempt` |
| ACP adapter (`acp/*`, `acpbridge/*`) | pending calls, requests, sessions, execution journal | prompt, cancel, load, close, delete, restart | late answers, reused ids, two operations on one session | `AcpAdapter` |
| Terminal clients (`cmd/proxy/chat*.go`, `tui*.go`) | turn, approval prompt, output rows | post, read, recover, answer, cancel | lost answers, type-ahead, Ctrl-C | `LineClient`, `TuiClient` |
| Web pages (`web/src/pages/Chat.tsx`, `Team.tsx`, approval hub) | bound session, transcript, epoch, cards | send, save, load, switch, answer | every await returns into a page that has moved on | `WebPages` |

`PROJECT.json` lists every component with its sources, also those without a protocol of
their own (bodies of tools, command classification, configuration files, memory notes,
traces, translation of requests, prompt assembly, shadow evaluation, tray and types), with
the reason why they are not modelled.

### How they interact

```
 web page, TUI, line client, API            ACP client
        |  HTTP (WebPages, TuiClient,         | JSON-RPC (AcpAdapter)
        |        LineClient)                  v
  server.handleAgent -------------------- acpbridge (own store directory)
        |  1 check session              LoopRegistry.Register (slot, cancel)
        |  2 gate durableActive         SessionStore (revision compare-and-set)
        |  3 AgentLoop -- ToolDispatch -- ToolGates -> ApprovalBroker.Await
        |        |              |---- FileMutation, Processes, ToolServers, WebTools
        |        |              '---- SessionStore (journal before execution)
        |        '-- ContextWindow -> provider -> StreamRelay -> ToolRecovery
        |  4 Finalize ----------------> SessionStore (commit or reconcile)
        |  5 release gate, release loop
        +-- plan binding -------------> WorkstreamPlan (Begin ... Finish)
  proxy endpoints ----- ProxyRequest ----- StreamRelay ----- upstream accounts
```

* The *session file* is shared by API clients and durable runs. The gate (`durableActive`)
  keeps other runs and API writers away while a run is live; it dies with the process, the
  marker on disk does not.
* The *configuration* is shared by runs and the configuration endpoint through
  `WithRegistrationBarrier`.
* The *plan record* is shared by operators and runs; `activePlanRuns` alone tells an
  abandoned attempt from a live one.
* One process uses one store directory; the ACP binary has its own with a lock file
  (`cmd/corelaycode-acp/main.go`), so locks inside the process are enough there.

The hazards of this code are listed at their lines in `PROJECT.json`, each with the
properties that watch it.

## 2. Modules

One module per component. A definition `X_Y` directly before `X` is a faulty variant of
`X`, kept to show that a property notices the fault; it is part of no specification.
Every `MC` module instantiates component modules, and the other runs take the component
itself with the constants of the `.cfg`; the definitions of a component carry the
names of the code.

**Single components.** `ApprovalBroker`: each method of `Broker` runs under `b.mu` and is one
action; `Await` is two critical sections around a `select`, so a waiter has a program
counter; timers are actions that may fire once their deadline is reached; a request is a heap
object that outlives its key because a waiter keeps the pointer. `SessionStore`: every mutating
method as a guard (`CanSave`, ...) and a result (`SaveTo`, ...), the loader's validation
(`Loadable`), and the API handlers; a transcript is its length, `MaxRevision` the largest
uint64, where the code refuses to go on. `SessionClients`: clients that send the revision
they last read, however old, and previews that file changes invalidate. `DurableRun`: the
handlers of `POST /api/agent` from the checks to the release, tools of a batch side by side,
store calls that fail, and `Crash` between any two steps. `EffectLedger` is what it promises
without revisions, transcripts or copies of files: a session has one worker at a time, a tool
executes only after the ledger names its call, nobody is admitted before what has executed is
committed or reviewed, and nobody for a request that is already committed; in the mapping
`Ledger` the worker is the run that has read the session, and the guard is what the file says.
`ToolDispatch`: the calls of one turn, authorized in order, run side by side or alone, each
with the repetition guard and the cancellation of the run. `LoopRegistry`: `Register` split
where the code drops its lock, with the configuration update in the registration barrier.
`PlanLifecycle` is the abstract promise of a plan (a definition is agreed on, its stages are
accepted in order, one worker at a time, every run at most once); `WorkstreamPlan` is the
code, with stale screens, the two-step reconcile endpoint, failed writes and crashes, and
`Lifecycle` is the refinement mapping.

**Components checked together.** Four suites put component modules next to each other. A
suite has one variable `part` that names the component (and instance of its constants) a
behaviour belongs to; the variables of the others hold `Off` and do not change. A suite is
therefore a disjoint union of small state spaces, not a product: it asks the same questions
as one run per component. Each suite property is a conjunction `part = "x" => X!Property`, and
the comment at the top of the property says in words what the parts promise.

| Suite | Modules |
|---|---|
| `MCAgent` | `AgentLoop`, `FileMutation`, `ToolRecovery`, `ContextWindow`, `ProxyRequest`, `StreamRelay` |
| `MCTools` | `ToolGates`, `Processes`, `ToolServers`, `WebTools` |
| `MCClients` | `AcpAdapter`, `TuiClient`, `LineClient`, `WebPages` |
| `MCBackground` | `TeamRun`, `ServerRuns`, `WorkstreamRecords`, `SessionContent`, `Kairos`, `ServerLifecycle`, `CapabilityProfile`, `ProbeAttempt` |
| `MCProgress` | the fair versions of `ApprovalBroker`, `AgentLoop`, `ToolDispatch`, `StreamRelay`, `Processes`, `TeamRun`, `AcpAdapter`, `WorkstreamPlan`, `ServerLifecycle` |

A module may hold several machines of one component, with a section each: `TeamRun` has the
waves, the rules for plans and the mailbox; `SessionContent` the blob store and the two paged
readers; `ToolGates` hooks, permissions and plugins; `Processes` the sandbox command and the
supervisor; `LineClient` approvals, output rows and the recovery of a turn; `Kairos` the daemon and
its endpoints; `CapabilityProfile` the commands, the store and the scoring.

**Proofs.** `ApprovalBrokerProofs`, `LoopRegistryProofs`, `WorkstreamPlanProofs`,
`SessionStoreProofs`, `SessionClientsProofs`, `DurableRunProofs`, `ToolDispatchProofs`,
`FileMutationProofs`; the proofs about probes, whose one-time grants answer the broker's requests,
are the second half of `ApprovalBrokerProofs`, those about the agent loop a registered handler
runs the second half of `LoopRegistryProofs`, those about the gates a dispatched call passes the
second half of `ToolDispatchProofs`, those about the processes a tool starts the last part of
`FileMutationProofs`, and those about the server the clients of sessions share, and its updater,
the second half of `SessionClientsProofs` (section 5).

## 3. Runs

`tlc -config <cfg> <module>` in this directory. Deadlock checking is off everywhere: all
these components may come to rest (ids used up, the process shut down, all runs ended).

| Run | Instance | Distinct states | Asks |
|---|---|---|---|
| `approval_broker` | 2 ids shared by requests and grants, 2 sessions, 2 calls, 2 waiters | 566 K | does a decision reach exactly the wait it was for, in time and once, and is nobody stranded? `CanceledSessionsAreQuiet`, `NoWaiterStranded`, `AwaitReportsResolution`, `GrantSpentOnce`, `AllowedInTime` |
| `loop_registry` | 3 handlers, 2 slots, 2 configurations | 426 K | `SlotsConserved`, `DrainedIsFinal`, `ConfigStable` |
| `workstream_plan` | 2 runs, 2 operators, 2 definitions of up to 2 stages, 2 attempts, state revisions up to 6 | 374 K | `ExecutorHoldsStage`, `AcceptanceIsEarned`, `ValidationAgrees`, `ExecutedAsApproved`, `HistoryKept`, and the refinement `ImplementsLifecycle` |
| `durable_run` | 1 session, 3 runs, 2 tools, 2 requests, revisions up to 5 | 628 K | `EffectsGuarded`, `NoRepeatedExecution`, and the refinement `ImplementsLedger` |
| `session_clients` | 2 sessions, 2 clients, 1 run, 1 tool, 1 request, 2 states of the files, revisions up to 4 | 1.1 M | `EveryFileLoads`, `NoLostUpdate`, `GuardHolds` |
| `tool_dispatch` | a turn of 2 calls out of a reading, a writing and a plugin tool, 2 results a tool may return, any number of turns, repetition limit 2, 1 change of what a tool returns, 1 approval | 4.2 M | `RepetitionBounded`, `SerialAlone`, `CanceledIsFinal` |
| `agent` | 19 parts: the loop and its tools, conversations below and above the message cap, and the proxy with 2 accounts and 2 requests, quota sources, streams of up to 6 chunks, account lists of 3 | 1.8 M | `RunsAreHonest`, `EditsAreKept`, `CallsAsWritten`, `RequestsFit`, `ProxyIsFaithful`, `TelemetryStands` |
| `tools` | gates, processes with descendants in and outside the process group, servers, web | 2.0 M | `ToolsAdmitted`, `ProcessesContained`, `AnswersAreOwn` |
| `clients` | ACP, TUI with its palette, line client, pages | 1.8 M | `AcpSound`, `ScreensSound`, `CancelIsFinal` |
| `background` | teams, mailboxes of one and of two processes, records, services, profiles | 1.7 M | `TeamSound`, `RecordsTrue`, `NothingUndone` |
| `progress` | small instances under `FairSpec` | 125 K | `WorkEnds`, `WaitsEnd` |
| `client_exit_code` | the `clients` suite | violation | `ExitCodeIsResult`, section 6 |

### Bounds and why they are enough

* *Broker*: two ids let one session's cancellation hit a request and a grant at once; two
  calls in two sessions give every mismatch of id, session and call; two waiters wait on one
  request while it is resolved and purged.
* *Sessions*: two clients suffice for every lost-update pattern on one file; the second
  session is there for forks; `MaxRevision` is reached, so the refusal at the largest revision
  is exercised; two states of the files tell a stale preview from a current one.
* *Durable runs*: three runs give an attempt, a retry of the same request and a run of another
  request; two tools give a batch of which one part was executed.
* *Registry*: three handlers on two slots: one is refused while another is released.
* *Plans*: two runs and two operators with old screens; six state revisions are create,
  approve, begin, fail, begin, complete. `MaxRevision` is the code's overflow guard.
* *Tool dispatch*: two calls run beside each other, wait for each other or repeat each other,
  over as many turns as the limit of the guard needs to be reached and reset.
* *Suites*: every bound is a constant of an `INSTANCE` in the MC module, with the reason in a
  comment: as a rule two actors for a race, one more call than a limit admits, one fault of
  each kind, and sequences as long as the longest recovery (a failed batch and its undo, a
  third 529, a correction after a recovered call). Constants that differ between properties
  are separate parts, so that no question pays for another's bound.
* *Known weaknesses* of the code are within the bounds, so that a property which holds despite
  them says so by an exception and not by an instance too small to meet them: a history longer
  than the message cap (`capped`), a note that does not fit (`tight`), two versions of a tool list
  and two refreshes at a time (`mcp`), descendants with a session of their own (`commands`), a
  load, a prompt and a close around a second load (`overlap`), a turn started from the palette
  (`tui`, `tui_loads`), a session opened while a send waits (`chat_loads`), an answer lost after
  its decision was recorded (`typist`), scopes with `**` (`scopes`), two Mailbox values on one
  directory (`mailboxes`), torn appends (`torn`), a project switch during a tick (`daemon`), two
  first starts (`api`) and signals (`managed`). Each exception is a history variable or a condition
  on the state that only the step in question makes true, and without it TLC finds the property
  violated.

## 4. Fairness

Only `progress` assumes fairness, and only what the code or the Go runtime provides: goroutines
that can go on do, a Go mutex does not starve, armed timers fire, the operating system
reports the end of a killed process, a loop that is bounded comes to its next step. Nothing is
asked of a user, a client, an upstream or a process that runs on, except:

* A backend, kernel or upstream whose context is *done* returns; a live one need not.
* That an attempt does not stay running (the third conjunct of `WaitsEnd`) assumes an operator who watches the plan: strong
  fairness on reading it, because runs may change it again and again between two reads, and
  weak fairness on reconciling. The code has no automatic recovery of an abandoned attempt; the
  run shows that the operator always *can* settle it.
* The managed server polls for the idle lock every 40 ms while clients take it for short
  sections: strong fairness on `AcquireIdleLock`, the lock being free again and again.

## 5. Proofs

`tlapm <module>.tla`. Every statement holds for all values of the constants under the named
assumptions, which type the parameters and say that a "no value" constant is no value.

| Theorem | Property it states | Inductive invariant |
|---|---|---|
| `BrokerTypeCorrect`, `CancellationIsFinal`, `WaitersCanBeWoken`, `ResolvedOnce`, `DecisionsAreInTime`, `ReportsAreTrue`, `GrantsAreSpentOnce` | `TypeOK`, `CanceledSessionsAreQuiet`, `NoWaiterStranded`, `ResolutionStable`, `AllowedInTime`, `AwaitReportsResolution`, `GrantSpentOnce` | `IInv` |
| `RegistryTypeCorrect`, `SlotsAreConserved`, `DrainIsFinal`, `ConfigurationIsStable` | `TypeOK`, `SlotsConserved`, `DrainedIsFinal`, `ConfigStable` | `RegistryInv` |
| `RunsAreTyped`, `DoneMeansProved`, `BlocksAreSpent`, `TestsFollowEdits`, `RunsStayBounded` | `TypeOK`, `DoneIsProved`, `GateSpent`, `EditsWereTested`; `ProseWithheld`, `NoWriterAfterClose`, `ReadBudget` | `LoopInv` |
| `PlanTypeCorrect`, `LiveRunsHoldTheirStage`, `HistoryIsKept` | `TypeOK`, `ExecutorHoldsStage`, `HistoryKept` | `PlanInv` |
| `WorkIsApproved` | `ExecutedAsApproved` | `ApprovalInv` |
| `CompletionIsEarned` | `AcceptanceIsEarned` | `AcceptanceInv` |
| `ChecksSuffice` | `ValidationAgrees` | `OrderInv` |
| `PlanImplementsLifecycle` | `ImplementsLifecycle` | all of the plan's |
| `SessionTypes`, `FilesLoad`, `RevisionsNameContent`, `NoUpdateIsLost`, `GuardsHold` | `TypeOK`, `EveryFileLoads`, `RevisionNamesContent`, `NoLostUpdate`, `GuardHolds` | `ClientInv` |
| `DispatchTypeCorrect`, `RepetitionIsBounded`, `SerialCallsRunAlone`, `CancellationStopsTheTurn` | `TypeOK`, `RepetitionBounded`, `SerialAlone`, `CanceledIsFinal` | `DispatchInv` |
| `ToolsPassHooks`, `HooksAreConfined`, `HooksAllRun` | `ToolPassedItsHooks`; `HookTypeOK`, `HookProcessesConfined`; `ObserversAllRun`, `CleanupRuns` | `HookInv` |
| `ChildrenNeverGain`, `CallsStayWithinMode`, `PermissionsAreFrozen` | `PermissionTypeOK`, `AuthorityNeverGrows`; `ReadOnlyHasNoEffect`, `HostCommandsConsented`; `SettingsFrozenForRun` | `PermissionInv` |
| `PluginsRunAsApproved`, `CatalogsAreWhole` | `RunsWhatWasApproved`, `OneRunPerApproval`; `PluginTypeOK`, `CatalogAllOrNothing` | `PluginInv` |
| `ProbeTypeCorrect`, `ProbesRunInTheirEnvironment`, `GrantsAreUsedOnce`, `SuccessesAreEarned`, `ProjectsStayApart` | `TypeOK`, `EnvironmentIsOwn`, `MutationAppliedOnce`, `SuccessIsEarned`, `ProjectsApart` | `ProbeInv` |
| `FileTypesCorrect`, `FailedBatchesLeaveNothing`, `UndoIsAllOrNothing`, `CheckpointsPredateRuns` | `TypeOK`, `FailedBatchLeavesNothing`, `UndoAllOrNothing`, `CheckpointPredatesRun` | `FileInv` |
| `EditsAreNotLost` | `NoLostEdit` | `FileInv` with `KeptInv` |
| `CommandsAreContained` | `SandboxTypeOK`, `IsolationHolds`, `SuccessIsComplete`, `QuietIsOrderly`, `TreeGone`; `BlameIsTrue` | `CommandInv` |
| `SupervisedProcessesEnd` | `SupervisorTypeOK`, `FailedStartLeavesNothing`, `StopReportsTheEnd`, `TemporaryOutlivesHolders`, `JobEndsWithItsChild` | `SupervisedInv` |
| `FailedStartsAreClean`, `AttachedServersServe` | `ManagedTypeOK`, `FailedStartLeavesNothing`; `NeverAttachedToDraining` | `ServerInv` |
| `OriginalIsKept` | `UpdateTypeOK`, `OriginalKept`, `OutcomeIsTrue` | `UpdateInv` |
| `DurableRunTypes`, `EffectsStayGuarded`, `GateIsExclusive`, `QuarantineStaysEmpty`, `NoExecutionRepeats`, `RequestsCommitOnce`, `DurableRunImplementsLedger` | `TypeOK`, `EffectsGuarded`, `GateOwnsSession`, `QuarantineUnused`, `NoRepeatedExecution`, `CommittedOnce`, `ImplementsLedger` | `DurableInv` |

The theorems about components of suites (the loop, the gates, probes, file changes, processes, the
managed server and the updater) state the conjuncts that `RunsAreHonest`, `ToolsAdmitted`,
`ProcessesContained`, `EditsAreKept` and `RecordsTrue` have for them; those of the first three are
all proved. What these theorems and those about dispatch assume of the constants is a definition
(`LoopConstants`, `HookConstants`, `PermissionConstants`, `PluginConstants`, `ProbeConstants`,
`Bounds`, `DispatchConstants`, `CommandConstants`, `ServerConstants`, `UpdateConstants`) in the
hypothesis of each. Hooks, settings, runs, modes, plugins, profiles, criteria, executors, mutations,
workers, files, policies, clients and children are any sets, and what the code keeps in an order is
a sequence. Calls are any set too, of which `PermissionConstants` says that the reading tools only
read. The turn has at least one call, limits are natural numbers, the files that exist
at first are finitely many, the adapters are those the code has. `MaxCalls`, `MaxVerify`,
`MaxErrorRounds` and `MoreRounds` are at least 1, as the limits of the code are
(`agent/verify.go:11`, `agent/loop.go:54`). Three theorems are about less than their machine can do:
`EditsAreNotLost` assumes `Window = FALSE` (nobody else writes between two looks of one call at its
file), `AttachedServersServe` assumes `~Suspends` (no client is held up past its lease), and
`OriginalIsKept` one update at a time; section 7 says what happens otherwise.
`SupervisedProcessesEnd` assumes nothing. No run asks for the type invariants of the single
components, nor for `ResolutionStable`, `CommittedOnce`, `GateOwnsSession`, `QuarantineUnused`,
`RevisionNamesContent` and `BlameIsTrue`, which are proved.

* **Broker.** A waiter holds a pointer to an entry that may be gone from the map, so
  `NoWaiterStranded` is not inductive. `IInv` says of *every* undecided request that it is in
  the map, its timer is armed, and neither its session nor the broker has been stopped; that
  only opened requests have a key, a timer or a waiter; that the purge timer only runs after
  expiry; and that grants in the map belong to live sessions.
* **Registry.** The counters only mean something together: `RegistryInv` equates `sem` and
  `wg` with the number of handlers at the places that owe them, and the map of loops with
  the handlers registered or running. A step moves one handler into or out of at most one
  counted set (`OneMore`, `OneLess`).
* **Loop.** What a run reports is decided many rounds after the steps it speaks about. `LoopInv` has one
  part per promise. `ContractInv` says that a satisfied criterion names an outcome of the ledger that
  succeeded: references only grow, and a claim is checked against them before it is applied
  (`ClaimKeeps`). `GateInv` carries the answers of the contract and the gate from the place where
  they are given to the decision, which reads them again; nothing in between may change them.
  `TestInv` says where a run that stops stands with its tests, and that a spent attempt has left a
  failure in the records, which keeps the terminal from calling it verified. `ReadInv` relates what
  a question has read to its checkpoint and its tools: a round costs up to two halves, so a
  budget may be passed by one, and the bound of `ReadBudget` holds only where the next request is
  sent. `PlaceInv` says that an undecided run is in its loop and writes only while it waits.
* **Plans.** That no operator closes a live attempt depends on screens and on the table of
  active runs. `PlanInv` adds: the stored record passes validation; who holds a running stage
  has begun; a handler is in the table from before its begin until it returns; a run on a
  screen has begun; and one found inactive by a reconcile request is over for good. The last
  two are why looking into the table before taking the lock is sound: begun runs never enter
  it again. `ApprovalInv` adds that a screen at the stored state shows the stored definition,
  and `AcceptanceInv` that the last attempt of a completed stage has an accepting receipt for
  that stage and revision. `OrderInv` (a stage somebody has worked on has only completed
  stages before it) closes the gap between the record checks of the code and what its
  transitions produce, so that the validation before a write never refuses one of them. The
  refinement is proved step by step: each transition is a step of `PlanLifecycle` under the
  mapping `Lifecycle`, everything else stutters.
* **Session store.** `SessionStoreProofs` states for every method what it returns: a session of
  the stored form, one revision higher, that the loader accepts if it accepted the old one. The
  interesting case is a save with a shortened transcript, whose old receipt must still fit.
* **Session clients.** A compare-and-set on a number protects content only if a copy at the
  present number *is* the present content. `CopiesAreOld` says so: a copy of the present
  incarnation of a session is an earlier revision or equal to the file. It is not enough
  across incarnations, which is why `NoLostUpdate` is stated within one (section 7).
* **Durable runs.** The three promises (write-ahead journal, no repeated execution, one commit
  per request) rest on each other. `DurableInv` says: a session between the gate and its
  release has one owner (`OneOwner`); the file is what its owner last wrote and carries the
  owner's marker (`OwnsFile`); the marker names every call past the journal, and every effect
  is one of a call that has begun (`Journals`); an effect that is neither committed nor
  reviewed is named by the guard on disk (`Guarded`); a committed request was first sent
  at a revision the session has left behind (`Remembered`). The last is why a retry
  after a commit is answered from the receipt or refused, never executed. The refinement of
  `EffectLedger` rests on the same invariant: it gives the present worker of a session and whose
  the guard on disk is, for every step, the ones that fail halfway included. A preparation is an
  admission, because the session is free of a guard and the request not among the committed; a
  journalled call and the marker of a blocked run name all that has executed; a commit takes the
  guard away with the effects it covers; and a crash loses the workers and nothing else.
* **Tool dispatch.** That serial calls run alone needs the order of the whole turn
  (`TurnOrder`): a call is past the guard only when all calls are authorized, and a serial one
  only when the concurrent ones and the serial ones before it are done. The bound on repetition
  is not inductive, because a call counts when it passes the guard and brings nothing new when it
  returns. `GuardCovers` adds up both: fruitless executions plus calls of that action under way
  are at most the guard's count, cut at the limit, plus `Turn - 1`. The last term is what a
  reset costs: it empties the count while up to `Turn - 1` other calls are past the guard.
  `CanceledKnown` says that a canceled call means a canceled run in which no serial call
  is armed; it holds because a call meets the cancellation only where no serial call but itself
  can be that far.
* **Gates.** What a tool passed is said of the configuration as it was when the run loaded it, which
  may have been edited since. `HookInv` keeps three links between then and the call: a snapshot that
  is not a failure means that no file was broken and contains what each file declares
  (`LoadFacts`, for sequences of any length); `ChainInv` says that what has run of a chain and what
  is left of it are together the matching hooks of the snapshot, each as often as it is declared,
  and that a pre-tool chain is open only while all that ran was good; and what a call ran is recorded
  when its chain has ended. `PermissionInv` records of every run that its permissions are those of the
  settings at its start, that its policy is at most its parent's, and of every decision that it is
  the one its run gives for that call, so that equal calls are answered equally. `PluginInv` says
  that a call past its proof is either remembered or its proof expired (which is why forgetting
  expired proofs cannot let one be used twice), that the files a call was checked against are
  the bound ones, and that a process exists only for a finished call.
* **Probes.** `ProbeInv` has one part per promise. The executor that holds the process-wide
  mutex is the one whose environment is set, and only it is past `scope`. A mutation is in one place
  (`OnePlace`): still allowed, asked for, or applied once; a write that has begun keeps its
  question open until the run is interrupted, which is where a resumed run could apply it
  again. `TurnsKept` holds of the transcripts of the turns that are over, `ResumedFrom` of the
  artifact a resumed run starts with, and `Verdicts` carries what the judge saw to the record.
* **File changes.** No promise about files is inductive, because between a rename and its record a
  content is on the disk that nothing names. `BatchInv` says for each step of a batch where the
  contents it wrote are: in its journal or about to be, each one that an entry would restore in an
  entry before it, none of them in the checkpoint; that is what makes the rollback, newest
  entry first, remove them all. `ScopeInv` says that the files are captured in the
  checkpoint of this generation before they change and that the checkpoint holds nothing the
  generation wrote; `Known` that no content is ahead of the last one written, so that what others
  write is in no journal, checkpoint or undo; `ResidueInv` that nothing can bring a rolled-back
  content back; `UndoInv` how far an undo has come, up to what others touched. `KeptInv` adds what the
  worker had read: the ledger holds only what it saw, the snapshot of a call is the revision the
  decision allowed, and a postimage is no content of anybody else. It is here that `Window`
  matters (section 7).
* **Processes.** Why a command is over is decided by several parties before anyone looks: the context,
  the callback of the output limit, the kernel. `CommandInv` says of the first reason claimed that,
  if it names the context, the context ended so; that there is a reason once the output limit has
  stopped the command or Windows has ended it (`ReasonInv`); and that no byte is missing while
  nothing was cut (`OutputInv`). This is what makes success mean complete output: on a cut
  the verdict is the output limit, and only a context that ended the process can displace it.
  A kill reaches the process group, a job everybody and a PID namespace ends with its first
  process, so `TreeGone` says of each what can be left; of a success that nobody is left who holds
  its output, because the pipes are at their end.
  `SupervisedInv` has for a long-lived child that a group that was hit has nobody left who could
  start another member, that nobody leaves a job, and what the end of the wait says of those who
  hold the pipes. The attempt to prove it corrected the model, which let a descendant outside the
  group start one inside it as soon as there are two; `tools` now has two.
* **Managed server and updater.** A client that gives up must know that nobody of its start is
  left. `ServerInv` ties the startup lock to its holder (a client from its probe to the end of its
  start; a child only while it runs, and always while it drains without having been signalled), and
  says what a client has at
  each of its states: no child before its start and a dead one after a failed start, and a live
  lease while it starts or is attached. A server that was sent no signal drains only under the lock
  and without a live lease, so never under a client whose heartbeat is in time; one that was sent
  SIGTERM or Ctrl-C takes neither lock nor look, and is the exception of `NeverAttachedToDraining`.
  `UpdateInv` goes
  through the places at which an update can stop: the backup is the original, or there is none and
  the original is in place, whatever the artifact has turned into meanwhile.

Each invariant was first checked by TLC on the instance of its run.

### Only model-checked

* Liveness (`progress`): fairness and `ENABLED` are outside the prover's reach.
* The suites `agent`, `tools`, `clients` and `background`, but for the loop, the gates, file changes,
  processes, probes, the managed server and the updater. Their questions about texts, histories, graphs of tasks and rendered records are about
  `RECURSIVE` operators, which the provers cannot reason about. Where a definition is a recursive
  function, as the concatenation of a sequence of sequences is, an induction can be done over a set
  of numbers (`LeastNatural`, `Induction` in `ToolDispatchProofs`, from the well-foundedness of `<`);
  that is how the hooks a configuration declares were shown to be the ones a run loads.

## 6. Finding

`client_exit_code` (`ExitCodeIsResult`, `cmd/proxy/chat.go`): README.md documents exit code 130
for an interrupted run. `runChat` exits with the code only if `runOnce` returned an error; a
Ctrl-C that arrives after the turn succeeded and before the context is read makes the result row
say `interrupted` with 130 while the process exits 0.

## 7. Observations

Behaviour met while modelling. Where a property follows in brackets, the checked instances reach
the behaviour and the property states it as its exception. The other items were met in reading the
code: a model may contain them or abstract from them, and no property speaks about them.

*Sessions and durable runs.* An id deleted and created again restarts at revision 1, so a
client that read the first session at that revision can delete the second
(`agent/sessions.go:2280`) [`NoLostUpdate`, stated within one incarnation]. The durable
quarantine is never entered (`QuarantineStaysEmpty`). Results of a run whose commit loses count
against the blob quota; temporary files of a crash remain; a pending cleanup is retried by
nobody (`agent/sessions.go:2239`).

*Approvals.* A call of a canceled session that presents another session's grant deletes that
grant (`approval/broker.go:208`); the comment promises that a mismatch leaves it. Chat and Team
pages and the line client say "nothing was approved" when the answer to a recorded decision is
lost (`web/src/pages/Chat.tsx:912`, `Team.tsx:192`, `cmd/proxy/chat.go:1220`) [of the line client:
`NothingWasApproved`]. A line typed ahead
is taken as the answer to a later prompt.

*Plans and records.* `validatePlanRecord` alone accepts a failed stage behind a pending one;
the transitions never produce it (`StagesOrdered`). `CreatePlan` reports a failure after the plan
file was written (`workstream/plans.go:209`). A null list in a PATCH does not clear it
(`workstream/store.go:170`). Ids have a resolution of one second; a torn or over-long timeline line
breaks later reads, and an event appended to a torn line is acknowledged and lost
(`workstream/persist.go:50`) [`AcknowledgedIsRecorded`]. Chronos and Team append "run started" before `BeginPlanStage`.

*Loop and tools.* Receipts are written only on some exits (`agent/loop.go:2746`). A file is
hashed again after the rename, so an edit in between becomes the recorded revision
(`agent/read_ledger.go:97`). The snapshot a rollback restores is taken before the decision
(`agent/tool_dispatch.go:357`, `:494`): a file written just before the snapshot and removed before
the decision is created by the call, and a later failure restores the unseen content and records it
as read, so that the worker may overwrite it. Both need a write by somebody else within one call
and are what `Window` (`FileMutation`) admits; with it `NoLostEdit` fails, the other properties of
files hold and are proved. Also: a rollback enters content in the ledger nobody read
(`agent/file_mutation_batch.go:210`); undo removes a user's edit the agent built on
(`agent/checkpoint.go:187`). The message cap can join equal roles and split call and result
(`agent/normalize.go:133`, `:141`) [`RolesAlternate`, `PairsWhole`, `NeverRefused`]; a long
instruction is kept twice (`agent/compact.go:1133`) [`InstructionsReconstructed`]; the
narrative fallback may outgrow what was preflighted (`:349`) [`FallbackIsEnough`]. In recovery the first malformed
payload stops a parser, a parsed call beats a malformed one, and a cut JSON call is closed and
run. Two refreshes of an MCP catalog can end with the older one (`agent/mcp_client.go:402`, `:448`)
[`ChangeOwed`], and the schema is not compared again after a refresh (`:449`); the limit of unsolicited frames counts for the
client's lifetime. An LSP pull result that does not decode is rendered as "no diagnostics"
(`agent/lsp.go:443`); empty locations can displace links (`:657`); a call cancelled during
initialize is answered by the fallback. A read-only run with any PreToolUse hook blocks every
tool; SessionEnd hooks run even if SessionStart was skipped; mode `acceptEdits` allows what a deny
rule names (`hooks/permissions.go:111`); full mode cannot register a default plugin
(`agent/plugin_execution.go:506`); artifacts are hashed before exec. A kill on
Unix reaches the process group, not a descendant with a session of its own
(`sandbox/process_unix.go:20`), and a silent background child survives a success
(`sandbox/unconfined.go:105`) [`TreeGone`]; a descendant that writes past
the output limit after the root's exit lives on (`:97`); `Stop` after the reap
signals nobody, and an escaped descendant keeps `Done` open (`processsupervisor/supervisor.go:188`).
`diff` or `grep` with exit 1 and truncated output is no error. Frames are cut to three before the
origin filter; the raw DuckDuckGo fallback is dropped by the fusion; recency is a hint; auto mode
discards a short direct result when the browser fails.

*Proxy and streams.* One failed attempt is recorded twice (`server/server.go:798`); a 429 or 5xx
clears the unhealthy state of a 401 (`runtimeplane/telemetry.go:288`); 529s need not be
consecutive (`server/server.go:806`); a fresh lease can be dropped by the expiry of the old one
(`runtimeplane/lease_store.go:38`); `SelectRunnable` and the capacity scheduler have no production
caller. A thinking block fails the canonical check (`protocol/canonical.go:107`); output items are
numbered differently in stream and completion (`protocol/openai_responses.go:420`); the watchdog can
abort right after an event (`api/stream_watchdog.go:62`, `:89`); a usage chunk behind the finish
chunk is lost; a truncated or cancelled stream is closed as complete
(`providers/openai_compat.go:96`); Chat streaming drops the initial tool input.

*Clients.* A `session/cancel` may hit the next prompt (`acp/connection.go:437`); a close during a load
leaves an MCP runtime without owner (`acpbridge/backend.go:614`, `:860`) [`NoOrphanRuntime`]. Esc after the done event shows a
blocked run as completed (`cmd/proxy/tui.go:442`); the palette can start a second turn (`:680`) and
leave the client "cancelling" [`NeverStuck`, `ShowsCurrent`, `NoRevival`]. A session opened while the
chat page waits can be bound to the old one (`web/src/pages/Chat.tsx:468`) [`BoundToShown`] or receive
its transcript (`:735`); a project switch leaves the
composer off (`:724`); "_(stopped)_" is appended to the transcript in view; `undoActionBusy` is not
reset by a failed undo. A second POST is bounded by the recovery window of 20 s.

*Background.* The mailbox loses a message when two processes write (`agent/mailbox.go:162`) or an
inbox is created in between (`:152`) [`NoMessageLost`, `ReceivedOnce`]; a queued text
frame at the deadline fails a finished worker (`agent/team.go:91`); scope `**` overlaps with nothing
(`agent/team_plan.go:729`) [`WritersShareNoFile`]. The sub-agent table can evict a fresh session
(`server/server.go:2018`); Chronos can record a failed verification as passed
(`server/chronos_evidence.go:45`); `matchesOwnership` takes `**` literally. KAIROS: built-in tasks
skip ticks and run on after Stop (`kairos/daemon.go:802`, `:204`); a task runs in another project's
directory when the project is switched during its tick (`:297`) [`RunsInItsProject`]; two starts
leave one daemon behind (`server/server.go:1631`) [`StopReachesEveryLoop`]; expressions for odd
minutes are never due (`kairos/cron.go:99`); a send may hit a closed channel
(`kairos/notify.go:92`); `LastRun` is saved only with the task list; a cut stream is recorded
"task-done"; the Plan observation overwrites a passed verification. One skill's changed body
blocks every other (`agent/skill_descriptors.go:539`); a page limit below one character never ends
(`agent/session_memory.go:651`). A suspended client loses its server
(`cmd/proxy/managed_server.go:115`); SIGTERM drains without the startup lock
(`cmd/proxy/main.go:261`) [`NeverAttachedToDraining`]. Install is not atomic
and can overwrite a rollback copy (`updater/updater.go:88`, `:75`); a failed put-back reports only
the first error. A cancelled measurement publishes a quarantined profile
(`capabilityprofile/profiler.go:144`), a published one may be reported as failed
(`capabilityprofile/store.go:148`), confidence is not monotone beyond ten cases, selection ignores
the variant, and two commands may publish against a replaced baseline.

## 8. What the project does not show

* The Go and TypeScript code is not executed: the link is the translation. `PROJECT.json`
  records it with its lines for the definitions that carry the model; a helper without an entry
  belongs to the function of the action that uses it.
* Data is abstract: transcripts, drafts, receipts and files are reduced to what the properties
  distinguish; hashes are taken as injective and random ids as fresh.
* A file write is atomic (temporary file and rename); lost directory entries after a power
  failure are not modelled.
* Answers of models, bodies of tools, prompts and rendering are outside.
* Components interact through the interfaces of section 1, but the suites do not compose
  them: an interleaving of, say, a compaction with a plan transition is not explored.

## 9. Plan

Done: all components of section 1 with state and a protocol of their own; the theorems of
section 5, which cover every property of the six runs of single components, with both
refinements, the agent loop, the gates before a tool, the file changes, the processes of tools, the
capability probes, and the managed server with its updater.

Next: theorems about the other components of the suites whose questions are protocols rather than
data, where a strengthening is within reach, such as that effects are recorded whatever the client
sends (`AcpAdapter`).
