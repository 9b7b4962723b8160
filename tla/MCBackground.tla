----------------------------- MODULE MCBackground -----------------------------
(***************************************************************************)
(* What runs and lasts beside a conversation: teams, sub-agents and        *)
(* Chronos runs, workstream records and stored content, the KAIROS daemon, *)
(* the managed server and the updater, capability profiles and their       *)
(* probes. A behaviour is one of the component named by part; the others   *)
(* stay Off.                                                               *)
(***************************************************************************)
EXTENDS Integers, Sequences, FiniteSets, TLC

CONSTANTS Off, Nobody, p1, p2, w1, w2, c1, c2, c3, i1, i2, o1, n1, n2, v1, s1, s2, e1, e2

VARIABLES
  part,
  dependsOn, pc, left, pending, batch, status, kernel, frames, reducer, emitted, asked,
  stopped, clientGone, waveCause, timer, elapsed, remaining, firing, canceling, timedOut,
  waiting, worked, outcome, erred, verified, attempt, report,
  plan, phase, rulesStatus, rulesBatch,
  exists, making, inbox, lock, box, nextID, crashes, sent, removed, received, overwritten,
  table, request, spawned, agentStatus, agentReducer, written,
  chronosRequest, started, mode, loop, chronosOutcome, iterations, gates, channel, canceled,
  chronosClientGone, trace, chronosVerified, ends,
  manifest, logPlan, timeline, open, joined, mu, planMu, req, crashed,
  text, stages, bound, out, lists, contextAsked,
  session, dir, run, op, memoryCrashes, faults, inherited,
  version, selected, states, snapshots, attempted, errors, bytes, attempts, used, got, view,
  offset, read, stuck,
  clock, workDir, tasks, disk, state, current, loops, daemonPlan, evidence, changes, began,
  executed,
  daemon, replaced, start, running, viewer, queue, closed, subscribers, history, send, apiSent, apiGot,
  missed,
  client, lease, child, server, proc, watch, signalled, managedLock, port,
  target, backup, source, aside, updateProc, ops,
  profileClock, profileLock, profileProc, store, trials, decisions, unclean, agent, commands,
  profileCrashes, cancels,
  probeMu, env, at, probeAttempts, stops

waveVars == <<dependsOn, pc, left, pending, batch, status, kernel, frames, reducer, emitted, asked,
    stopped, clientGone, waveCause, timer, elapsed, remaining, firing, canceling, timedOut,
    waiting, worked, outcome, erred, verified, attempt, report>>
rulesVars == <<plan, phase, rulesStatus, rulesBatch>>
mailVars ==
  <<exists, making, inbox, lock, box, nextID, crashes, sent, removed, received, overwritten>>
agentVars == <<table, request, spawned, agentStatus, agentReducer, written>>
chronosVars == <<chronosRequest, started, mode, loop, chronosOutcome, iterations, gates, channel, canceled,
    chronosClientGone, trace, chronosVerified, ends>>
logVars == <<manifest, logPlan, timeline, open, joined, mu, planMu, req, crashed>>
contextVars == <<text, stages, bound, out, lists, contextAsked>>
memoryVars == <<session, dir, run, op, memoryCrashes, faults, inherited>>
pageVars == <<version, selected, states, snapshots, attempted, errors, bytes, attempts, used, got, view,
    offset, read, stuck>>
daemonVars == <<clock, workDir, tasks, disk, state, current, loops, daemonPlan, evidence, changes, began,
    executed>>
apiVars == <<daemon, replaced, start, running, viewer, queue, closed, subscribers, history, send, apiSent,
    apiGot, missed>>
managedVars == <<client, lease, child, server, proc, watch, signalled, managedLock, port>>
updateVars == <<target, backup, source, aside, updateProc, ops>>
profileVars == <<profileClock, profileLock, profileProc, store, trials, decisions, unclean, agent,
    commands, profileCrashes, cancels>>
probeVars == <<probeMu, env, at, probeAttempts, stops>>
vars == <<part, waveVars, rulesVars, mailVars, agentVars, chronosVars, logVars, contextVars, memoryVars, pageVars, daemonVars, apiVars, managedVars, updateVars, profileVars, probeVars>>

NoWaves ==
  /\ dependsOn = Off /\ pc = Off /\ left = Off /\ pending = Off /\ batch = Off /\ status = Off
  /\ kernel = Off /\ frames = Off /\ reducer = Off /\ emitted = Off /\ asked = Off
  /\ stopped = Off /\ clientGone = Off /\ waveCause = Off /\ timer = Off /\ elapsed = Off
  /\ remaining = Off /\ firing = Off /\ canceling = Off /\ timedOut = Off /\ waiting = Off
  /\ worked = Off /\ outcome = Off /\ erred = Off /\ verified = Off /\ attempt = Off
  /\ report = Off
NoRules ==
  /\ plan = Off /\ phase = Off /\ rulesStatus = Off /\ rulesBatch = Off
NoMail ==
  /\ exists = Off /\ making = Off /\ inbox = Off /\ lock = Off /\ box = Off /\ nextID = Off /\ crashes = Off
  /\ sent = Off /\ removed = Off /\ received = Off /\ overwritten = Off
NoAgents ==
  /\ table = Off /\ request = Off /\ spawned = Off /\ agentStatus = Off /\ agentReducer = Off
  /\ written = Off
NoChronos ==
  /\ chronosRequest = Off /\ started = Off /\ mode = Off /\ loop = Off /\ chronosOutcome = Off
  /\ iterations = Off /\ gates = Off /\ channel = Off /\ canceled = Off
  /\ chronosClientGone = Off /\ trace = Off /\ chronosVerified = Off /\ ends = Off
NoLog ==
  /\ manifest = Off /\ logPlan = Off /\ timeline = Off /\ open = Off /\ joined = Off
  /\ mu = Off
  /\ planMu = Off /\ req = Off /\ crashed = Off
NoContext ==
  /\ text = Off /\ stages = Off /\ bound = Off /\ out = Off /\ lists = Off
  /\ contextAsked = Off
NoMemory ==
  /\ session = Off /\ dir = Off /\ run = Off /\ op = Off /\ memoryCrashes = Off /\ faults = Off
  /\ inherited = Off
NoPages ==
  /\ version = Off /\ selected = Off /\ states = Off /\ snapshots = Off /\ attempted = Off
  /\ errors = Off /\ bytes = Off /\ attempts = Off /\ used = Off /\ got = Off /\ view = Off
  /\ offset = Off /\ read = Off /\ stuck = Off
NoDaemon ==
  /\ clock = Off /\ workDir = Off /\ tasks = Off /\ disk = Off /\ state = Off /\ current = Off
  /\ loops = Off /\ daemonPlan = Off /\ evidence = Off /\ changes = Off /\ began = Off
  /\ executed = Off
NoApi ==
  /\ daemon = Off /\ replaced = Off /\ start = Off /\ running = Off /\ viewer = Off /\ queue = Off
  /\ closed = Off /\ subscribers = Off /\ history = Off /\ send = Off /\ apiSent = Off
  /\ apiGot = Off /\ missed = Off
NoManaged ==
  /\ client = Off /\ lease = Off /\ child = Off /\ server = Off /\ proc = Off /\ watch = Off
  /\ signalled = Off
  /\ managedLock = Off /\ port = Off
NoUpdate ==
  /\ target = Off /\ backup = Off /\ source = Off /\ aside = Off /\ updateProc = Off
  /\ ops = Off
NoProfiles ==
  /\ profileClock = Off /\ profileLock = Off /\ profileProc = Off /\ store = Off
  /\ trials = Off /\ decisions = Off /\ unclean = Off /\ agent = Off /\ commands = Off
  /\ profileCrashes = Off /\ cancels = Off
NoProbes ==
  /\ probeMu = Off /\ env = Off /\ at = Off /\ probeAttempts = Off /\ stops = Off

-----------------------------------------------------------------------------
\* Three tasks of which two wait for the first and write overlapping paths,
\* a circular plan, and a flat wave of two tasks.
ForkPlans == {<<{}, {1}, {1}>>, <<{3}, {1}, {2}>>}
FlatPlans == {<<{}, {}>>}

\* Plans of three tasks as they are submitted: any dependencies, known or
\* not, an id used twice; and any scopes.
PlanTask(id, pos, deps, kind, files, slots) ==
  [id |-> id, pos |-> pos, deps |-> deps, kind |-> kind, readOnly |-> FALSE, files |-> files,
   slots |-> slots, priority |-> pos % 2]
Under(d) == d \o <<"/", "*", "*">>
TeamPaths == {<<"s", "/", "a">>, <<"s", "/", "b">>, <<"s", "/", "d", "/", "a">>, <<"l", "/", "a">>}
TaskScopes ==
  {{}, {Under(<<"s">>)}, {<<"s", "/", "*">>}, {<<"s", "/", "a">>}, {Under(<<"s", "/", "d">>), <<"l", "/", "a">>},
   {<<"*", "*">>}, {<<"*", "*", "/", "a">>}}
GraphPlans ==
  {<<PlanTask("t1", 1, a, "implement", {<<"s", "/", "a">>}, 1), PlanTask(id, 2, b, "implement", {}, n),
     PlanTask("t3", 3, c, "research", {}, 0)>> :
     a \in SUBSET {"t1", "t2", "t3"}, b \in SUBSET {"t1", "t3", "ghost"}, c \in SUBSET {"t1", "t2"},
     id \in {"t1", "t2"}, n \in {1, 2}}
ScopePlans ==
  {<<PlanTask("t1", 1, {}, "implement", a, 1), PlanTask("t2", 2, {}, k, b, 1), PlanTask("t3", 3, d, "verify", c, n)>> :
     a \in TaskScopes, b \in TaskScopes, c \in TaskScopes, k \in {"implement", "review"}, d \in {{}, {"t1"}},
     n \in {1, 2}}

\* Owned patterns over the names "a", "b" and "ab", a name a sequence of letters.
A == <<1>>
AB == <<1, 2>>
B == <<2>>
Tree(base) == [kind |-> "tree", base |-> base, prefix |-> <<>>]
OwnedScopes == <<Tree(<<A>>), Tree(<<AB>>), [kind |-> "star", base |-> <<AB>>, prefix |-> A]>>
OwnedPaths == {<<A, B>>, <<AB, B>>, <<AB, AB>>}

\* Two versions of a file, and redacted views of stored results.
PageTexts == [v \in 0 .. 1 |-> IF v = 0 THEN <<"a", "l", "c", "a">> ELSE <<"b", "b", "b", "b">>]
StoredViews == {<<"a", "l", "c", "a">>, <<"l", "c", "l", "c">>}

\* Two attempts of a profile run, clean, retried or not even started.
Attempt(c, stage, safety) ==
  [case |-> c, stage |-> stage, category |-> "edit-patch", safety |-> safety, artifact |-> TRUE]
TwoAttempts == <<Attempt("patch", "calibration", FALSE), Attempt("hold", "holdout", TRUE)>>
Clean ==
  [success |-> TRUE, malformed |-> FALSE, falseDone |-> FALSE, recovered |-> FALSE, transport |-> FALSE,
   trace |-> TRUE, artifactSeen |-> TRUE, safetyPassed |-> TRUE, retries |-> 0]
Unstarted ==
  [success |-> FALSE, malformed |-> FALSE, falseDone |-> FALSE, recovered |-> FALSE, transport |-> TRUE,
   trace |-> FALSE, artifactSeen |-> FALSE, safetyPassed |-> FALSE, retries |-> 0]
TwoOutcomes == {Clean, [Clean EXCEPT !.retries = 1]}

Waves == INSTANCE TeamRun WITH
  Tasks <- 1 .. 3, Plans <- ForkPlans, Files <- <<{"c"}, {"a"}, {"a/b"}>>, Overlaps <- {<<"a",
  "a/b">>, <<"a/b", "a">>}, ReadOnly <- {}, Needs <- [t \in 1 .. 3 |-> 1], ModelSlots <- 2,
  MaxParallelTasks <- 2, MaxWaveSize <- 2, FileScopeLock <- TRUE, CycleTimeout <- 1, MaxFrames <-
  1, MaxApprovals <- 0, MaxRetries <- 1, Ids <- {"t1", "t2", "t3", "ghost"}, RulesPlans <-
  GraphPlans, Paths <- TeamPaths, RulesModelSlots <- 2, RulesMaxParallelTasks <- 2,
  RulesFileScopeLock <- TRUE, Boxes <- {"box"}, Agents <- {"lead", "w1"}, Senders <- {"lead",
  "w1"}, MaxMessages <- 2, MailMaxRetries <- 2, MaxCrashes <- 1
\* Two tasks that ask for approval within the budget of their wave; Mailbox
\* values of two processes on one directory.
Budget == INSTANCE TeamRun WITH
  Tasks <- 1 .. 2, Plans <- FlatPlans, Files <- <<{"a"}, {"c"}>>, Overlaps <- {<<"a", "a/b">>,
  <<"a/b", "a">>}, ReadOnly <- {}, Needs <- [t \in 1 .. 2 |-> 1], ModelSlots <- 2,
  MaxParallelTasks <- 2, MaxWaveSize <- 2, FileScopeLock <- TRUE, CycleTimeout <- 1, MaxFrames <-
  0, MaxApprovals <- 1, MaxRetries <- 0, Ids <- {"t1", "t2", "t3", "ghost"}, RulesPlans <-
  ScopePlans, Paths <- TeamPaths, RulesModelSlots <- 2, RulesMaxParallelTasks <- 2,
  RulesFileScopeLock <- TRUE, Boxes <- {"here", "there"}, Agents <- {"w1"}, Senders <-
  {"lead"}, MaxMessages <- 2, MailMaxRetries <- 1, MaxCrashes <- 0
Runs == INSTANCE ServerRuns WITH
  Sessions <- {w1, w2}, MaxSessions <- 1, Tasks <- {1}, Scope <- OwnedScopes, Paths <- {},
  MaxWrites <- 0, MaxCycles <- 2, MaxIterations <- 9, AutoFix <- TRUE, Capacity <- 2, MaxGates <-
  1, status <- agentStatus, reducer <- agentReducer, clientGone <- chronosClientGone, verified <-
  chronosVerified
\* Three tasks of one session that write.
Owners == INSTANCE ServerRuns WITH
  Sessions <- {w1}, MaxSessions <- 1, Tasks <- {1, 2, 3}, Scope <- OwnedScopes, Paths <-
  OwnedPaths, MaxWrites <- 1, MaxCycles <- 2, MaxIterations <- 9, AutoFix <- TRUE, Capacity <- 2,
  MaxGates <- 1, status <- agentStatus, reducer <- agentReducer, clientGone <- chronosClientGone,
  verified <- chronosVerified
Log == INSTANCE WorkstreamRecords WITH
  Clients <- {c1, c2, c3}, Requests <- {"create", "patch", "createPlan", "revise", "handoff"},
  Faults <- {"none", "fail"}, Crashes <- TRUE, Lengths <- [t \in {} |-> {}], Limit <- 2000,
  MaxStages <- 2, MaxItems <- 2, plan <- logPlan, asked <- contextAsked
\* Appends that are cut off; contexts of plans of up to two stages.
Torn == INSTANCE WorkstreamRecords WITH
  Clients <- {c1, c2}, Requests <- {"create", "patch", "createPlan", "revise", "handoff"}, Faults
  <- {"none", "torn"}, Crashes <- TRUE, Lengths <- [t \in Log!Texts |-> {5}], Limit <- 2000,
  MaxStages <- 3, MaxItems <- 2, plan <- logPlan, asked <- contextAsked
Content == INSTANCE SessionContent WITH
  Sessions <- {"first", "fork"}, First <- "first", Runners <- {"first"}, Images <- {i1, i2},
  Results <- {o1}, MaxImages <- 1, MaxResults <- 1, MaxRevision <- 2, Crashes <- 1, Faults <- 1,
  Skills <- {"k1", "k2"}, Resources <- {"f1", "f2"}, Text <- PageTexts, MaxVersion <- 1, Limits <-
  {1, 2, 3}, MinLimit <- 2, MaxLimit <- 3, MaxResources <- 1, MaxPages <- 5, MaxBytes <- 8, Views
  <- {<<>>}, ViewLimits <- {2}, crashes <- memoryCrashes
\* Reads of stored results.
Results == INSTANCE SessionContent WITH
  Sessions <- {"first", "fork"}, First <- "first", Runners <- {"first"}, Images <- {i1, i2},
  Results <- {o1}, MaxImages <- 1, MaxResults <- 1, MaxRevision <- 2, Crashes <- 1, Faults <- 1,
  Skills <- {"k1"}, Resources <- {"f1"}, Text <- PageTexts, MaxVersion <- 1, Limits <- {1, 2, 3},
  MinLimit <- 2, MaxLimit <- 3, MaxResources <- 1, MaxPages <- 3, MaxBytes <- 6, Views <-
  StoredViews, ViewLimits <- {2, 3}, crashes <- memoryCrashes
Daemon == INSTANCE Kairos WITH
  Projects <- {"home", "other"}, Ids <- {"plan"}, Kind <- [i \in {"plan"} |-> i], Saved <- [home
  |-> {"plan"}, other |-> {}], CronMinutes <- {1}, Minute <- 2, Hour <- 4, TickInterval <- 2,
  Jitter <- 0, Horizon <- 2, MaxLoops <- 2, Changes <- 1, Bound <- 1, MaxRevision <- 2, Faulty <-
  TRUE, Starts <- {n1, n2}, Viewers <- {v1}, MaxQueue <- 1, MaxHistory <- 2, MaxSends <- 3, plan
  <- daemonPlan, sent <- apiSent, got <- apiGot
Life == INSTANCE ServerLifecycle WITH
  Clients <- {c1, c2}, Children <- {s1, s2}, NoOne <- Nobody, Suspends <- FALSE, Procs <- {"u1"},
  Contents <- {"new", "bad"}, Ops <- {"install", "rollback"}, MaxOps <- 4, lock <- managedLock
\* Clients that are suspended past the expiry of their lease.
Asleep == INSTANCE ServerLifecycle WITH
  Clients <- {c1, c2}, Children <- {s1, s2}, NoOne <- Nobody, Suspends <- TRUE, Procs <- {"u1"},
  Contents <- {"new", "bad"}, Ops <- {"install", "rollback"}, MaxOps <- 4, lock <- managedLock
Profiles == INSTANCE CapabilityProfile WITH
  Procs <- {p1, p2}, Modes <- {"run", "improve"}, Plan <- TwoAttempts, Outcomes <- TwoOutcomes
  \cup {Unstarted}, Early <- Unstarted, Threshold <- 8000, Minimum <- 1, TTL <- 2, MaxClock <- 2,
  MaxCommands <- 2, MaxCrashes <- 1, MaxCancels <- 0, None <- Nobody, clock <- profileClock, lock
  <- profileLock, proc <- profileProc, crashes <- profileCrashes
\* Two commands on the profile of one model.
Rivals == INSTANCE CapabilityProfile WITH
  Procs <- {p1, p2}, Modes <- {"run", "improve"}, Plan <- TwoAttempts, Outcomes <- TwoOutcomes,
  Early <- Unstarted, Threshold <- 8000, Minimum <- 1, TTL <- 6, MaxClock <- 1, MaxCommands <- 2,
  MaxCrashes <- 0, MaxCancels <- 1, None <- Nobody, clock <- profileClock, lock <- profileLock,
  proc <- profileProc, crashes <- profileCrashes
Probes == INSTANCE ProbeAttempt WITH
  Execs <- {e1, e2}, Categories <- {"safety"}, MaxAttempts <- 2, MaxReads <- 1, MaxAsks <- 1,
  MaxStops <- 1, None <- Nobody, mu <- probeMu, attempts <- probeAttempts
\* One executor and every category.
Categories == INSTANCE ProbeAttempt WITH
  Execs <- {e1}, Categories <- {"read", "edit", "coding", "safety", "decision", "project",
  "recovery"}, MaxAttempts <- 1, MaxReads <- 2, MaxAsks <- 3, MaxStops <- 1, None <- Nobody, mu <-
  probeMu, attempts <- probeAttempts

\* Texts of a workstream, short or far beyond their caps; ids are at most 256
\* bytes long.
ShortOrLong ==
  [t \in Log!Texts |-> IF t \in {"id", "planId", "stageId", "run"} THEN {5, 256} ELSE {5, 5000}]
Rendered == INSTANCE WorkstreamRecords WITH
  Clients <- {c1}, Requests <- {"create", "patch", "createPlan", "revise", "handoff"}, Faults <-
  {"none"}, Crashes <- TRUE, Lengths <- ShortOrLong, Limit <- 2000, MaxStages <- 2, MaxItems <- 2,
  plan <- logPlan, asked <- contextAsked

Parts ==
  {"waves", "budget", "graphs", "scopes", "mail", "mailboxes", "agents", "owners", "chronos", "log",
   "torn", "context", "stages", "memory", "skills", "results", "daemon", "api", "managed",
   "asleep", "update", "profiles", "rivals", "probes", "categories"}

Init ==
  /\ part \in Parts
  /\ CASE part = "waves" -> Waves!WaveInit
       [] part = "budget" -> Budget!WaveInit
       [] OTHER -> NoWaves
  /\ CASE part = "graphs" -> Waves!RulesInit
       [] part = "scopes" -> Budget!RulesInit
       [] OTHER -> NoRules
  /\ CASE part = "mail" -> Waves!MailInit
       [] part = "mailboxes" -> Budget!MailInit
       [] OTHER -> NoMail
  /\ CASE part = "agents" -> Runs!AgentInit
       [] part = "owners" -> Owners!AgentInit
       [] OTHER -> NoAgents
  /\ IF part = "chronos" THEN Runs!ChronosInit ELSE NoChronos
  /\ CASE part = "log" -> Log!LogInit
       [] part = "torn" -> Torn!LogInit
       [] OTHER -> NoLog
  /\ CASE part = "context" -> Rendered!ContextInit
       [] part = "stages" -> Torn!ContextInit
       [] OTHER -> NoContext
  /\ IF part = "memory" THEN Content!MemoryInit ELSE NoMemory
  /\ CASE part = "skills" -> Content!PageInit
       [] part = "results" -> Results!PageInit
       [] OTHER -> NoPages
  /\ IF part = "daemon" THEN Daemon!DaemonInit ELSE NoDaemon
  /\ IF part = "api" THEN Daemon!ApiInit ELSE NoApi
  /\ CASE part = "managed" -> Life!ManagedInit
       [] part = "asleep" -> Asleep!ManagedInit
       [] OTHER -> NoManaged
  /\ IF part = "update" THEN Life!UpdateInit ELSE NoUpdate
  /\ CASE part = "profiles" -> Profiles!Init
       [] part = "rivals" -> Rivals!Init
       [] OTHER -> NoProfiles
  /\ CASE part = "probes" -> Probes!Init
       [] part = "categories" -> Categories!Init
       [] OTHER -> NoProbes

Next ==
  /\ part' = part
  /\ CASE part = "waves" -> Waves!WaveNext
       [] part = "budget" -> Budget!WaveNext
       [] OTHER -> UNCHANGED waveVars
  /\ CASE part = "graphs" -> Waves!RulesNext
       [] part = "scopes" -> Budget!RulesNext
       [] OTHER -> UNCHANGED rulesVars
  /\ CASE part = "mail" -> Waves!MailNext
       [] part = "mailboxes" -> Budget!MailNext
       [] OTHER -> UNCHANGED mailVars
  /\ CASE part = "agents" -> Runs!AgentNext
       [] part = "owners" -> Owners!AgentNext
       [] OTHER -> UNCHANGED agentVars
  /\ IF part = "chronos" THEN Runs!ChronosNext ELSE UNCHANGED chronosVars
  /\ CASE part = "log" -> Log!LogNext
       [] part = "torn" -> Torn!LogNext
       [] OTHER -> UNCHANGED logVars
  /\ CASE part = "context" -> Rendered!Render
       [] part = "stages" -> Torn!ContextNext
       [] OTHER -> UNCHANGED contextVars
  /\ IF part = "memory" THEN Content!MemoryNext ELSE UNCHANGED memoryVars
  /\ CASE part = "skills" -> Content!PageNext
       [] part = "results" -> Results!PageNext
       [] OTHER -> UNCHANGED pageVars
  /\ IF part = "daemon" THEN Daemon!DaemonNext ELSE UNCHANGED daemonVars
  /\ IF part = "api" THEN Daemon!ApiNext ELSE UNCHANGED apiVars
  /\ CASE part = "managed" -> Life!ManagedNext
       [] part = "asleep" -> Asleep!ManagedNext
       [] OTHER -> UNCHANGED managedVars
  /\ IF part = "update" THEN Life!UpdateNext ELSE UNCHANGED updateVars
  /\ CASE part = "profiles" -> Profiles!Next
       [] part = "rivals" -> Rivals!Next
       [] OTHER -> UNCHANGED profileVars
  /\ CASE part = "probes" -> Probes!Next
       [] part = "categories" -> Categories!Next
       [] OTHER -> UNCHANGED probeVars

Spec == Init /\ [][Next]_vars

-----------------------------------------------------------------------------
\* Work of several agents: a task starts after what it waits for, workers of
\* overlapping scopes are apart and none outlives the run, completion is
\* earned, time waiting for approval is not charged, accepted plans respect
\* slots and, but for a leading `**`, files; messages are neither lost, unless
\* two writers who do not know of each other met, nor announced twice;
\* sub-agents report their own run and share no writes, and what Chronos
\* records as fixed was verified.
TeamSound ==
  /\ part = "waves" =>
       Waves!DependenciesFirst /\ Waves!WorkersApart /\ Waves!CompletionIsEarned /\ Waves!NoOrphans
  /\ part = "budget" => Budget!WaveTypeOK /\ Budget!BudgetSparesApprovals /\ Budget!NoOrphans
  /\ part = "graphs" => Waves!RulesTypeOK
  /\ part = "scopes" => Budget!SlotsHold /\ Budget!WritersShareNoFile
  /\ part = "mail" => Waves!MailTypeOK /\ Waves!NoMessageLost /\ Waves!OneNotification
  /\ part = "mailboxes" => Budget!MailTypeOK /\ Budget!NoMessageLost /\ Budget!OneNotification
  /\ part = "agents" => Runs!AgentTypeOK /\ Runs!ReportsItsRun
  /\ part = "owners" => Owners!NoSharedWrites
  /\ part = "chronos" => Runs!ChronosTypeOK /\ Runs!RecordedOk /\ Runs!FixesVerified

\* What is kept can be relied on.  Records: an acknowledged event is in the
\* timeline, unless it was appended to a torn line, plan events are in order,
\* torn appends lose no patch, the rendered context keeps the identity and the open work; committed sessions
\* refer to content that is there, rejected and deleted content is gone, pages
\* come from one version and reassemble to the whole.
\* Services: a KAIROS daemon has one live loop whose tasks are saved, run in
\* their project and observe no stale plan, a stop reaches every daemon but one
\* that two first starts left behind, notifications reach live viewers in
\* order; no client is attached to a server that drains without a signal, a
\* failed start leaves nothing behind; an update keeps the original and
\* reports what happened.
\* Profiles: what is applied is sound, verified and adopted only on evidence;
\* probe attempts run in their own environment and project, apply a mutation
\* once, and succeed only if they earned it.
RecordsTrue ==
  /\ part = "log" => Log!LogTypeOK /\ Log!AcknowledgedIsRecorded /\ Log!PlanEventsInOrder
  /\ part = "torn" => Torn!LogTypeOK /\ Torn!AcknowledgedIsRecorded /\ Torn!PlanEventsInOrder
                      /\ Torn!PatchesKept /\ Torn!HandoffNotAhead
  /\ part = "context" => Rendered!ContextTypeOK /\ Rendered!IdentityKept
  /\ part = "stages" => Torn!ShowsOpenWork /\ Torn!BoundEvidenceKept /\ Torn!DecisionsAsAsked
  /\ part = "memory" =>
       /\ Content!MemoryTypeOK /\ Content!NoBrokenReference /\ Content!RejectedUploadsGone
       /\ Content!DeletedLeavesNothing
  /\ part = "skills" => Content!PageTypeOK /\ Content!PagesOfOneVersion /\ Content!InstructionsFirst
  /\ part = "results" => Results!PagesReassemble /\ Results!PagesAdvance
  /\ part = "daemon" =>
       /\ Daemon!DaemonTypeOK /\ Daemon!OneLiveLoop /\ Daemon!ListIsSaved
       /\ Daemon!RunsInItsProject
       /\ Daemon!StaleNeverObserved /\ Daemon!ObserverGivesNoVerdict
  /\ part = "api" =>
       /\ Daemon!ApiTypeOK /\ Daemon!StopReachesEveryLoop /\ Daemon!ShownInOrder
       /\ Daemon!NoDeadSubscriber
  /\ part = "managed" => Life!ManagedTypeOK /\ Life!NeverAttachedToDraining /\ Life!FailedStartLeavesNothing
  /\ part = "asleep" => Asleep!FailedStartLeavesNothing
  /\ part = "update" => Life!UpdateTypeOK /\ Life!OriginalKept /\ Life!OutcomeIsTrue
  /\ part = "profiles" =>
       Profiles!TypeOK /\ Profiles!AppliedIsSound /\ Profiles!VerifiedLeftNoWorkspace /\ Profiles!AdoptionHasEvidence
  /\ part = "probes" => Probes!TypeOK /\ Probes!EnvironmentIsOwn
  /\ part = "categories" =>
       Categories!MutationAppliedOnce /\ Categories!SuccessIsEarned /\ Categories!ProjectsApart

\* Steps that may not happen: a message read twice (but for records another
\* process wrote over), an answered sub-agent
\* session evicted while its tasks run, a fork that takes what was not
\* committed, and the adoption of a cancelled run.
NothingUndone ==
  [][ /\ part = "mail" => Waves!ReceivedOnce
      /\ part = "mailboxes" => Budget!ReceivedOnce
      /\ part = "agents" => Runs!AnsweredStays
      /\ part = "memory" => Content!ForkTakesCommitted
      /\ part = "rivals" => Rivals!CanceledIsNotAdopted ]_vars

=============================================================================
