------------------------------ MODULE MCProgress ------------------------------
(***************************************************************************)
(* What must eventually happen. A behaviour is one of the component named  *)
(* by part; the others stay Off, and the fairness of each component is     *)
(* stated for the behaviours that are its own.                             *)
(***************************************************************************)
EXTENDS Integers, Sequences, FiniteSets, TLC

CONSTANTS Off, Nobody, NotYet, Missing, i1, i2, w1, grep, edit, r1, r2, o1, c1, c2, s1, s2

VARIABLES
  part,
  pendingOf, resolution, requests, grantOf, fullModeGrants, uses, canceledSessions, closed,
  past, timers, waiter, ctxDone,
  run, pc, i, try, used, tools, explored, awaiting, edited, denied, tested, contract, refs,
  records, cycles, shown, receipt, beating, cancelled, hooks, mcp, outcome, loopClosed, fresh,
  call, dispatchPc, out, seen, digest, value, changes, approvals, dispatchCancelled, streak,
  wire, up, tr, prov, pend, chan, relay, held, msg, frames, writer, handler, streamCancelled,
  gone, dog, sent, aborted,
  secure, route, policy, phase, root, exit, kids, ctx, pipe, written, kept, truncated,
  limitHit, stopped, reason, killed, seenCtx, waitErr, jobErr, jobDone, applied, failure,
  isError,
  dependsOn, teamPc, left, pending, batch, status, kernel, teamFrames, reducer, emitted,
  asked, teamStopped, clientGone, waveCause, timer, elapsed, remaining, firing, canceling,
  timedOut, waiting, worked, teamOutcome, erred, verified, attempt, report,
  conn, acpWriter, initialized, sessions, obj, sem, inbound, req, acpCall, acpPending,
  nextRequest, writeQ, tasks, reader, cancels, consent,
  plan, planSeen, cleared, planRun, active, planApprovals,
  client, lease, child, server, proc, watch, signalled, lock, port

approvalVars == <<pendingOf, resolution, requests, grantOf, fullModeGrants, uses, canceledSessions, closed,
    past, timers, waiter, ctxDone>>
loopVars == <<run, pc, i, try, used, tools, explored, awaiting, edited, denied, tested, contract, refs,
    records, cycles, shown, receipt, beating, cancelled, hooks, mcp, outcome, loopClosed,
    fresh>>
dispatchVars == <<call, dispatchPc, out, seen, digest, value, changes, approvals, dispatchCancelled, streak>>
streamVars == <<wire, up, tr, prov, pend, chan, relay, held, msg, frames, writer, handler,
    streamCancelled, gone, dog, sent, aborted>>
commandVars == <<secure, route, policy, phase, root, exit, kids, ctx, pipe, written, kept, truncated,
    limitHit, stopped, reason, killed, seenCtx, waitErr, jobErr, jobDone, applied, failure,
    isError>>
teamVars == <<dependsOn, teamPc, left, pending, batch, status, kernel, teamFrames, reducer, emitted,
    asked, teamStopped, clientGone, waveCause, timer, elapsed, remaining, firing, canceling,
    timedOut, waiting, worked, teamOutcome, erred, verified, attempt, report>>
acpVars == <<conn, acpWriter, initialized, sessions, obj, sem, inbound, req, acpCall, acpPending,
    nextRequest, writeQ, tasks, reader, cancels, consent>>
planVars == <<plan, planSeen, cleared, planRun, active, planApprovals>>
managedVars == <<client, lease, child, server, proc, watch, signalled, lock, port>>
vars == <<part, approvalVars, loopVars, dispatchVars, streamVars, commandVars, teamVars, acpVars, planVars, managedVars>>

NoApprovals ==
  /\ pendingOf = Off /\ resolution = Off /\ requests = Off /\ grantOf = Off
  /\ fullModeGrants = Off /\ uses = Off /\ canceledSessions = Off /\ closed = Off /\ past = Off
  /\ timers = Off /\ waiter = Off /\ ctxDone = Off
NoLoop ==
  /\ run = Off /\ pc = Off /\ i = Off /\ try = Off /\ used = Off /\ tools = Off
  /\ explored = Off /\ awaiting = Off /\ edited = Off /\ denied = Off /\ tested = Off
  /\ contract = Off /\ refs = Off /\ records = Off /\ cycles = Off /\ shown = Off
  /\ receipt = Off /\ beating = Off /\ cancelled = Off /\ hooks = Off /\ mcp = Off
  /\ outcome = Off /\ loopClosed = Off /\ fresh = Off
NoDispatch ==
  /\ call = Off /\ dispatchPc = Off /\ out = Off /\ seen = Off /\ digest = Off /\ value = Off
  /\ changes = Off /\ approvals = Off /\ dispatchCancelled = Off /\ streak = Off
NoStream ==
  /\ wire = Off /\ up = Off /\ tr = Off /\ prov = Off /\ pend = Off /\ chan = Off
  /\ relay = Off /\ held = Off /\ msg = Off /\ frames = Off /\ writer = Off /\ handler = Off
  /\ streamCancelled = Off /\ gone = Off /\ dog = Off /\ sent = Off /\ aborted = Off
NoCommand ==
  /\ secure = Off /\ route = Off /\ policy = Off /\ phase = Off /\ root = Off /\ exit = Off
  /\ kids = Off /\ ctx = Off /\ pipe = Off /\ written = Off /\ kept = Off /\ truncated = Off
  /\ limitHit = Off /\ stopped = Off /\ reason = Off /\ killed = Off /\ seenCtx = Off
  /\ waitErr = Off /\ jobErr = Off /\ jobDone = Off /\ applied = Off /\ failure = Off
  /\ isError = Off
NoTeam ==
  /\ dependsOn = Off /\ teamPc = Off /\ left = Off /\ pending = Off /\ batch = Off
  /\ status = Off /\ kernel = Off /\ teamFrames = Off /\ reducer = Off /\ emitted = Off
  /\ asked = Off /\ teamStopped = Off /\ clientGone = Off /\ waveCause = Off /\ timer = Off
  /\ elapsed = Off /\ remaining = Off /\ firing = Off /\ canceling = Off /\ timedOut = Off
  /\ waiting = Off /\ worked = Off /\ teamOutcome = Off /\ erred = Off /\ verified = Off
  /\ attempt = Off /\ report = Off
NoAcp ==
  /\ conn = Off /\ acpWriter = Off /\ initialized = Off /\ sessions = Off /\ obj = Off
  /\ sem = Off /\ inbound = Off /\ req = Off /\ acpCall = Off /\ acpPending = Off
  /\ nextRequest = Off /\ writeQ = Off /\ tasks = Off /\ reader = Off /\ cancels = Off
  /\ consent = Off
NoPlan ==
  /\ plan = Off /\ planSeen = Off /\ cleared = Off /\ planRun = Off /\ active = Off
  /\ planApprovals = Off
NoManaged ==
  /\ client = Off /\ lease = Off /\ child = Off /\ server = Off /\ proc = Off /\ watch = Off
  /\ signalled = Off
  /\ lock = Off /\ port = Off

-----------------------------------------------------------------------------
Plain == [task |-> "normal", policy |-> "advisory", strict |-> FALSE, question |-> FALSE, docs |-> FALSE,
          verify |-> FALSE, mode |-> FALSE, selector |-> FALSE, mcp |-> "none"]
SomeRuns ==
  {[Plain EXCEPT !.strict = TRUE, !.task = "deep", !.policy = "block", !.verify = TRUE],
   [Plain EXCEPT !.question = TRUE, !.selector = TRUE],
   [Plain EXCEPT !.task = "deep", !.policy = "measure", !.verify = TRUE, !.mcp = "owned"]}

\* A thinking model that answers or calls a tool.
SomeChunks ==
  {[reasoning |-> TRUE, content |-> FALSE, tools |-> <<>>, finish |-> ""],
   [reasoning |-> FALSE, content |-> TRUE, tools |-> <<>>, finish |-> "stop"]}

BoxPolicy(e, a, l) == [enforcement |-> e, required |-> {}, access |-> a, network |-> "unset", limits |-> l]
SomePolicies == {BoxPolicy("disabled", "none", FALSE), BoxPolicy("required", "rw", FALSE), BoxPolicy("required", "none", TRUE)}

Approvals == INSTANCE ApprovalBroker WITH
  Ids <- {i1, i2}, Sessions <- {"s1"}, Calls <- {"c1"}, SessionOf <- [c1 |-> "s1"], Revisions <-
  {1}, Capabilities <- {"k"}, Waiters <- {w1}, None <- Off, Unresolved <- NotYet, NotFound <-
  Missing
Loop == INSTANCE AgentLoop WITH
  Criteria <- {"c1"}, NeedsEvidence <- {"c1"}, MaxRefs <- 1, MaxStopBlocks <- 1, Profiles <-
  SomeRuns, MaxIterations <- 2, MaxErrorRounds <- 1, MaxCorrections <- 1, MaxVerify <- 1,
  MaxCompact <- 1, MaxCalls <- 1, ReadRounds <- 1, MoreRounds <- 1, closed <- loopClosed
Dispatch == INSTANCE ToolDispatch WITH
  Actions <- {grep, edit}, Concurrent <- {grep}, Ask <- {}, Bound <- {}, Turn <- 2, Limit <- 1,
  Values <- {1}, MaxChanges <- 0, MaxApprovals <- 0, pc <- dispatchPc, cancelled <-
  dispatchCancelled
Stream == INSTANCE StreamRelay WITH
  Wires <- {"chat", "json"}, Chunks <- SomeChunks, RawEvents <- {}, Faults <- {"silence",
  "leave"}, MaxChunks <- 3, ChanCap <- 1, cancelled <- streamCancelled
Command == INSTANCE Processes WITH
  Adapters <- {"seatbelt", "windows"}, Policies <- SomePolicies, Limit <- 1, MaxOutput <- 2,
  Descendants <- {"piped", "silent", "daemon"}, ApiFaults <- TRUE, SupervisorAdapters <- {}, Users <- {}, Kids <- {}, Reads <-
  FALSE, Escapes <- FALSE, SupervisorApiFaults <- FALSE, supervisorSecure <- Off, isolating <-
  Off, supervisorPhase <- Off, inJob <- Off, supervisorRoot <- Off, supervisorKids <- Off, unread
  <- Off, io <- Off, tmp <- Off, supervisorCtx <- Off, waiter <- Off, done <- Off, term <- Off,
  termErr <- Off, once <- Off, stopErr <- Off, call <- Off, groupHit <- Off
Team == INSTANCE TeamRun WITH
  Tasks <- {1}, Plans <- {<<{}>>}, Files <- <<{"a"}>>, Overlaps <- {}, ReadOnly <- {}, Needs <-
  <<1>>, ModelSlots <- 2, MaxParallelTasks <- 2, MaxWaveSize <- 2, FileScopeLock <- TRUE,
  CycleTimeout <- 1, MaxFrames <- 0, MaxApprovals <- 1, MaxRetries <- 1, Ids <- {}, RulesPlans <-
  {}, Paths <- {}, RulesModelSlots <- 2, RulesMaxParallelTasks <- 2, RulesFileScopeLock <- TRUE,
  Boxes <- {}, Agents <- {}, Senders <- {}, MaxMessages <- 0, MailMaxRetries <- 0, MaxCrashes <-
  0, plan <- Off, phase <- Off, rulesStatus <- Off, rulesBatch <- Off, exists <- Off, making <- Off, inbox <-
  Off, lock <- Off, box <- Off, nextID <- Off, crashes <- Off, sent <- Off, removed <- Off,
  received <- Off, overwritten <- Off, pc <- teamPc, frames <- teamFrames, stopped <- teamStopped, outcome <-
  teamOutcome
Acp == INSTANCE AcpAdapter WITH
  Sessions <- {s1}, Ids <- {1}, Script <- <<{"new"}, {"prompt"}>>, MaxInflight <- 1, WriteQueue <-
  1, MaxCancels <- 1, MaxCalls <- 1, Negotiated <- TRUE, MayEnd <- TRUE, Kinds <- {}, MaxEffects
  <- 0, MaxOther <- 0, MaxFaults <- 0, MaxCrashes <- 0, store <- Off, sess <- Off, bridgeObj <-
  Off, op <- Off, open <- Off, committed <- Off, reconciled <- Off, budget <- Off, writer <-
  acpWriter, call <- acpCall, pending <- acpPending
Plan == INSTANCE WorkstreamPlan WITH
  Runs <- {r1, r2}, Operators <- {o1}, Definitions <- {<<"build", "verify">>}, MaxRevision <- 5,
  MaxAttempts <- 1, NoPlan <- Off, NoRun <- Nobody, NoDefinition <- Missing, seen <- planSeen, run
  <- planRun, approvals <- planApprovals
Life == INSTANCE ServerLifecycle WITH
  Clients <- {c1, c2}, Children <- {s1, s2}, NoOne <- Nobody, Suspends <- FALSE, Procs <- {},
  Contents <- {}, Ops <- {}, MaxOps <- 0, target <- Off, backup <- Off, source <- Off, aside <-
  Off, updateProc <- Off, ops <- Off

Parts ==
  {"approvals", "loop", "dispatch", "stream", "command", "team", "acp", "plan", "managed"}

Init ==
  /\ part \in Parts
  /\ IF part = "approvals" THEN Approvals!NewBroker ELSE NoApprovals
  /\ IF part = "loop" THEN Loop!Init ELSE NoLoop
  /\ IF part = "dispatch" THEN Dispatch!Init ELSE NoDispatch
  /\ IF part = "stream" THEN Stream!Init ELSE NoStream
  /\ IF part = "command" THEN Command!SandboxInit ELSE NoCommand
  /\ IF part = "team" THEN Team!WaveInit ELSE NoTeam
  /\ IF part = "acp" THEN Acp!ConnectionInit ELSE NoAcp
  /\ IF part = "plan" THEN Plan!Init ELSE NoPlan
  /\ IF part = "managed" THEN Life!ManagedInit ELSE NoManaged

Next ==
  /\ part' = part
  /\ IF part = "approvals" THEN Approvals!Next ELSE UNCHANGED approvalVars
  /\ IF part = "loop" THEN Loop!Next ELSE UNCHANGED loopVars
  /\ IF part = "dispatch" THEN Dispatch!Next ELSE UNCHANGED dispatchVars
  /\ IF part = "stream" THEN Stream!Next ELSE UNCHANGED streamVars
  /\ IF part = "command" THEN Command!SandboxNext ELSE UNCHANGED commandVars
  /\ IF part = "team" THEN Team!WaveNext ELSE UNCHANGED teamVars
  /\ IF part = "acp" THEN Acp!ConnectionNext ELSE UNCHANGED acpVars
  /\ IF part = "plan" THEN Plan!Next ELSE UNCHANGED planVars
  /\ IF part = "managed" THEN Life!ManagedNext ELSE UNCHANGED managedVars

Spec == Init /\ [][Next]_vars

\* What the scheduling of the code guarantees.  Timers fire, goroutines go on,
\* a loop that is bounded comes to its next step; nothing is asked of a user,
\* a client, an upstream or a process that runs on.
ApprovalsRun ==
  /\ \A id \in {i1, i2} : /\ WF_approvalVars(part = "approvals" /\ Approvals!DeadlinePasses(id))
                          /\ WF_approvalVars(part = "approvals" /\ Approvals!Expire(id))
  /\ WF_approvalVars(part = "approvals" /\ Approvals!AwaitWake(w1))

KernelRuns ==
  /\ WF_loopVars(part = "loop" /\ Loop!Step)
  /\ \A s \in 1 .. 2 : WF_dispatchVars(part = "dispatch" /\ Dispatch!CallStep(s))

\* A cancelled context closes the upstream's body.
StreamRuns ==
  /\ WF_streamVars(part = "stream" /\ Stream!SendEvent)
  /\ WF_streamVars(part = "stream" /\ Stream!ProviderExits)
  /\ WF_streamVars(part = "stream" /\ streamCancelled /\ Stream!UpstreamEnds)
  /\ WF_streamVars(part = "stream" /\ Stream!RelayTake)
  /\ WF_streamVars(part = "stream" /\ Stream!RelayExits)
  /\ WF_streamVars(part = "stream" /\ Stream!TimerExpires)
  /\ WF_streamVars(part = "stream" /\ Stream!Fire)
  /\ WF_streamVars(part = "stream" /\ Stream!WriteEvent)
  /\ WF_streamVars(part = "stream" /\ Stream!WriterEnds)
  /\ WF_streamVars(part = "stream" /\ Stream!HandlerReturns)

CommandRuns ==
  /\ WF_commandVars(part = "command" /\ (Command!Refuse \/ Command!Start \/ Command!Resume))
  /\ WF_commandVars(part = "command" /\ Command!ContextEnds)
  /\ WF_commandVars(part = "command" /\ Command!Copy)
  /\ WF_commandVars(part = "command" /\ Command!OnLimit)
  /\ WF_commandVars(part = "command" /\ (Command!CancelUnix \/ Command!ReapUnix \/ Command!DrainUnix))
  /\ WF_commandVars(part = "command" /\ (\/ Command!InterruptWindows \/ Command!ReapWindows
                                         \/ Command!EndJobWindows \/ Command!DrainWindows))
  /\ WF_commandVars(part = "command" /\ (Command!ClaimContext \/ Command!Finish))

\* A kernel ends once its context is done; a live one need not.
TeamRuns ==
  /\ WF_teamVars(part = "team" /\ Team!LeadStep)
  /\ WF_teamVars(part = "team" /\ Team!Tick)
  /\ WF_teamVars(part = "team" /\ Team!TimerFires)
  /\ WF_teamVars(part = "team" /\ Team!CallbackTimesOut)
  /\ WF_teamVars(part = "team" /\ Team!CallbackCancels)
  /\ \A t \in {1} :
       /\ WF_teamVars(part = "team" /\ Team!WorkerStep(t))
       /\ WF_teamVars(part = "team" /\ Team!Resume(t))
       /\ WF_teamVars(part = "team" /\ ~Team!Live(t) /\ \E f \in {"done", "blocked"} : Team!KernelEnds(t, f))

\* A backend whose context is done returns, and the reader of a closed input
\* shuts the connection down.
AcpRuns ==
  /\ \A r \in 1 .. 2 :
       /\ WF_acpVars(part = "acp" /\ Acp!RequestStep(r))
       /\ WF_acpVars(part = "acp" /\ req[r].ctx /\ \E ok \in BOOLEAN : Acp!PromptEnd(r, ok))
  /\ WF_acpVars(part = "acp" /\ Acp!Write)
  /\ WF_acpVars(part = "acp" /\ Acp!BackendCancel)
  /\ WF_acpVars(part = "acp" /\ Acp!WriterExit)
  /\ WF_acpVars(part = "acp" /\ Acp!Stop)
  /\ WF_acpVars(part = "acp" /\ conn = "cancelled" /\ Acp!Shutdown)

\* An operator who keeps an eye on the plan reads it again and reconciles an
\* attempt nobody works on.
PlanRuns ==
  /\ \A r \in {r1, r2} :
       /\ WF_planVars(part = "plan" /\ Plan!RegisterActive(r))
       /\ WF_planVars(part = "plan" /\ (Plan!BeginPlanStage(r) \/ Plan!BeginRefused(r)))
       /\ WF_planVars(part = "plan" /\ (\/ Plan!FinishCompleted(r) \/ Plan!FinishFailed(r)
                                        \/ Plan!FinishUnrecorded(r)))
       /\ WF_planVars(part = "plan" /\ Plan!Return(r))
  /\ SF_planVars(part = "plan" /\ Plan!GetPlan(o1))
  /\ WF_planVars(part = "plan" /\ Plan!CheckActive(o1))
  /\ WF_planVars(part = "plan" /\ (Plan!ReconcilePlanStage(o1) \/ Plan!ReconcileRefused(o1)))

\* The lease of a dead client expires, and a lock file that is free again and
\* again is taken by the server that polls for it every 40 ms.
ManagedRuns ==
  /\ \A c \in {c1, c2} :
       /\ WF_managedVars(part = "managed" /\ Life!ClientStep(c))
       /\ WF_managedVars(part = "managed" /\ client[c] = "crashed" /\ Life!LeaseExpires(c))
  /\ \A s \in {s1, s2} :
       /\ WF_managedVars(part = "managed" /\ Life!Listen(s))
       /\ WF_managedVars(part = "managed" /\ Life!Look(s) /\ watch'[s] # watch[s])
       /\ SF_managedVars(part = "managed" /\ Life!AcquireIdleLock(s))
       /\ WF_managedVars(part = "managed" /\ Life!Recheck(s))
       /\ WF_managedVars(part = "managed" /\ Life!Drain(s))

FairSpec ==
  /\ Spec
  /\ ApprovalsRun /\ KernelRuns /\ StreamRuns /\ CommandRuns /\ TeamRuns
  /\ AcpRuns /\ PlanRuns /\ ManagedRuns

-----------------------------------------------------------------------------
\* What was started ends: every run of the agent with its done frame, every
\* turn with an answer to all its calls, the handler and both goroutines of a
\* stream although the upstream fell silent, a command whatever its process
\* and descendants do, a team run although a worker's kernel would go on.
Ended ==
  CASE part = "loop" -> loopClosed
    [] part = "dispatch" -> \A s \in 1 .. 2 : dispatchPc[s] = "done"
    [] part = "stream" -> handler = "done" /\ relay = "exit" /\ prov = "exit"
    [] part = "command" -> phase = "done"
    [] part = "team" -> teamPc = "returned"
    [] OTHER -> TRUE
WorkEnds == []<>Ended

\* "The managed server closes after its last CLI client exits": once no client
\* is there any more, however they ended, every child process ends.
ServerCloses ==
  <>[](part = "managed" /\ \A c \in {c1, c2} : client[c] \in {"out", "failed", "crashed", "gone"})
    => <>[](part = "managed" /\ \A s \in {s1, s2} : ~Life!Running(s))

\* What was asked to stop, or waits, is released: a goroutine in Await returns,
\* a connection whose input ended or context is done joins its goroutines, and
\* the attempt of a stage does not stay "running" for ever, also after the
\* process was restarted in the middle of it (up to the last revision).  And
\* the managed server closes.
WaitsEnd ==
  /\ (part = "approvals" /\ waiter[w1].pc = "select") ~> (part = "approvals" /\ waiter[w1].pc = "returned")
  /\ (part = "acp" /\ conn # "open") ~> (part = "acp" /\ conn = "stopped")
  /\ \A r \in {r1, r2} :
       (part = "plan" /\ Plan!RunningRun(plan) = r) ~>
          (part = "plan" /\ (Plan!RunningRun(plan) # r \/ plan.stateRevision = 5))
  /\ ServerCloses

=============================================================================
