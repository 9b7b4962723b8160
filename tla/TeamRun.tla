------------------------------- MODULE TeamRun --------------------------------
(***************************************************************************)
(* A team run (internal/agent/team.go) and the part of handleTeamExecute   *)
(* that drives it: waves of tasks in dependency order, batches that fit    *)
(* the capacity, one worker goroutine and one kernel loop per task, and a  *)
(* wave budget whose clock stands still while a worker awaits an approval. *)
(*                                                                         *)
(* A task id is a number, in the order of the ids.  The kernel of a worker *)
(* is external: it emits frames, asks for approvals, ends with one done    *)
(* frame and closes the channel.  Of a frame only its kind is kept.        *)
(***************************************************************************)
EXTENDS Integers, Sequences, SequencesExt, FiniteSets, FiniteSetsExt

CONSTANTS Tasks,         \* ids, 1 .. n
          Plans,         \* the plans: functions task -> ids it waits for
          Files,         \* task -> owned path patterns
          Overlaps,      \* pairs of patterns that may name the same file
          ReadOnly,      \* read-only tasks
          Needs,         \* task -> model slots it reserves
          ModelSlots,    \* capacity, 0 is unlimited
          MaxParallelTasks,
          MaxWaveSize,
          FileScopeLock, \* whether overlapping writers are kept apart
          CycleTimeout,  \* the wave budget, in ticks
          MaxFrames,     \* bound: frames before the done frame of a worker
          MaxApprovals,  \* bound: approvals a worker asks for
          MaxRetries     \* of the verification command

VARIABLES dependsOn,    \* the plan of this run
          pc,           \* where ExecuteWaves and its caller are
          left,         \* tasks of the waves to come
          pending,      \* tasks of the present wave that have not run
          batch,        \* tasks runWaveBatch has started
          status,       \* task -> TeamTask.Status
          kernel,       \* task -> its kernel loop
          frames,       \* task -> frames in its event channel
          reducer,      \* task -> teamRunTerminalReducer
          emitted,      \* task -> number of frames before done
          asked,        \* task -> number of approvals
          stopped,      \* tasks whose worker context was canceled by itself
          clientGone,   \* the request's context is done
          waveCause,    \* the cause of the wave context, "none" while it is live
          timer,        \* the budget timer is armed
          elapsed,      \* ticks since lastResume
          remaining,    \* budget left at lastResume
          firing,       \* timer callbacks that wait for mgr.mu
          canceling,    \* a callback that has set timedOut and not canceled yet
          timedOut,
          waiting,      \* workers inside Await: waitCount
          worked,       \* history: ticks of this wave with nobody in Await
          outcome,      \* history, task -> how its kernel ended: "bad" with an error
                        \* frame or blocked, else "late" or, while the context of
                        \* the worker was live, "intact"
          erred,        \* history: tasks whose kernel emitted an error frame
          verified,     \* verification: "none", "passed" or "failed"
          attempt,
          report        \* the run status of the receipt

taskVars   == <<status, kernel, frames, reducer, emitted, asked, stopped, outcome, erred>>
budgetVars == <<waveCause, timer, elapsed, remaining, firing, canceling, timedOut, waiting, worked>>
leadVars   == <<pc, left, pending, batch, verified, attempt, report>>
runVars    == <<clientGone, dependsOn>>
waveVars == <<leadVars, taskVars, budgetVars, runVars>>

Frames == {"text", "error", "done", "blocked"}

WaveTypeOK ==
  /\ dependsOn \in Plans
  /\ pc \in {"start", "waves", "select", "batch", "verify", "returned"}
  /\ left \subseteq Tasks /\ pending \subseteq Tasks /\ batch \subseteq Tasks
  /\ status \in [Tasks -> {"pending", "running", "completed", "failed"}]
  /\ kernel \in [Tasks -> {"off", "working", "over"}]
  /\ frames \in [Tasks -> Seq(Frames)]
  /\ reducer \in [Tasks -> [terminalSeen : BOOLEAN, failure : BOOLEAN]]
  /\ emitted \in [Tasks -> 0 .. MaxFrames]
  /\ asked \in [Tasks -> 0 .. MaxApprovals]
  /\ stopped \subseteq Tasks /\ erred \subseteq Tasks /\ waiting \subseteq Tasks
  /\ outcome \in [Tasks -> {"none", "bad", "late", "intact"}]
  /\ clientGone \in BOOLEAN
  /\ waveCause \in {"none", "deadline", "canceled"}
  /\ timer \in BOOLEAN /\ canceling \in BOOLEAN /\ timedOut \in BOOLEAN
  /\ elapsed \in 0 .. CycleTimeout + 1 /\ remaining \in 0 .. CycleTimeout
  /\ firing \in Nat /\ worked \in Nat
  /\ verified \in {"none", "passed", "failed"}
  /\ attempt \in 0 .. MaxRetries + 1
  /\ report \in {"none", "completed", "failed"}

-----------------------------------------------------------------------------
(* ComputeWaves: layers of the dependency graph, cut to MaxWaveSize.       *)

Resolved[n \in Nat] ==
  IF n = 0 THEN {} ELSE {t \in Tasks : dependsOn[t] \subseteq Resolved[n - 1]}

Circular == Resolved[Cardinality(Tasks)] # Tasks

Layer(t) == CHOOSE n \in 1 .. Cardinality(Tasks) : t \in Resolved[n] \ Resolved[n - 1]

\* The wave after the waves that leave S: the first MaxWaveSize ids of the
\* lowest layer.
NextWave_AnyLayer(S) == {t \in S : Cardinality({u \in S : u < t}) < MaxWaveSize}
NextWave(S) ==
  LET lowest == {t \in S : \A u \in S : Layer(t) <= Layer(u)}
  IN {t \in lowest : Cardinality({u \in lowest : u < t}) < MaxWaveSize}

-----------------------------------------------------------------------------
(* selectWaveBatch                                                         *)

TeamTasksConflict(t, u) ==
  /\ t \notin ReadOnly
  /\ u \notin ReadOnly
  /\ \/ Files[t] = {}
     \/ Files[u] = {}
     \/ \E p \in Files[t], q \in Files[u] : p = q \/ <<p, q>> \in Overlaps

ResourcesFit(used, t) == ModelSlots = 0 \/ used + Needs[t] <= ModelSlots

Selectable(chosen, used, t) ==
  /\ Cardinality(chosen) < MaxParallelTasks
  /\ ResourcesFit(used, t)
  /\ FileScopeLock => \A u \in chosen : ~TeamTasksConflict(t, u)

\* Tasks are offered in the order of their ids; one that does not fit is
\* passed over.
SelectWaveBatch(P) ==
  LET pick[n \in 0 .. Cardinality(Tasks)] ==
        IF n = 0 THEN [chosen |-> {}, used |-> 0]
        ELSE LET b == pick[n - 1]
             IN IF n \in P /\ Selectable(b.chosen, b.used, n)
                THEN [chosen |-> b.chosen \cup {n}, used |-> b.used + Needs[n]]
                ELSE b
  IN pick[Cardinality(Tasks)].chosen

-----------------------------------------------------------------------------
WaveInit ==
  /\ dependsOn \in Plans
  /\ pc = "start" /\ left = Tasks /\ pending = {} /\ batch = {}
  /\ status = [t \in Tasks |-> "pending"]
  /\ kernel = [t \in Tasks |-> "off"]
  /\ frames = [t \in Tasks |-> <<>>]
  /\ reducer = [t \in Tasks |-> [terminalSeen |-> FALSE, failure |-> FALSE]]
  /\ emitted = [t \in Tasks |-> 0] /\ asked = [t \in Tasks |-> 0]
  /\ stopped = {} /\ outcome = [t \in Tasks |-> "none"] /\ erred = {} /\ clientGone = FALSE
  /\ waveCause = "canceled" /\ timer = FALSE /\ elapsed = 0 /\ remaining = 0
  /\ firing = 0 /\ canceling = FALSE /\ timedOut = FALSE /\ waiting = {} /\ worked = 0
  /\ verified = "none" /\ attempt = 0 /\ report = "none"

\* newWaveBudgetManager
NewWaveBudget ==
  /\ waveCause' = IF clientGone THEN "canceled" ELSE "none"
  /\ timer' = TRUE /\ elapsed' = 0 /\ remaining' = CycleTimeout
  /\ firing' = 0 /\ canceling' = FALSE /\ timedOut' = FALSE
  /\ waiting' = {} /\ worked' = 0

\* budget.stop(), deferred in executeWave
StopBudget ==
  /\ timer' = FALSE
  /\ waveCause' = IF waveCause = "none" THEN "canceled" ELSE waveCause
  /\ UNCHANGED <<elapsed, remaining, firing, canceling, timedOut, waiting, worked>>

BudgetErr == timedOut \/ waveCause # "none"

\* ExecuteWaves returned an error: receipt, Shutdown, done.
Fails ==
  /\ pc' = "returned"
  /\ report' = "failed"
  /\ UNCHANGED <<left, pending, verified, attempt>>

CircularDependency ==
  /\ pc = "start" /\ Circular
  /\ Fails
  /\ UNCHANGED <<batch, taskVars, budgetVars, runVars>>

BeginWaves ==
  /\ pc = "start" /\ ~Circular
  /\ pc' = "waves"
  /\ UNCHANGED <<left, pending, batch, verified, attempt, report, taskVars, budgetVars, runVars>>

BeginWave ==
  /\ pc = "waves" /\ left # {}
  /\ pending' = NextWave(left)
  /\ left' = left \ pending'
  /\ pc' = "select"
  /\ NewWaveBudget
  /\ UNCHANGED <<batch, verified, attempt, report, taskVars, runVars>>

EndWave ==
  /\ pc = "select" /\ pending = {}
  /\ pc' = "waves"
  /\ StopBudget
  /\ UNCHANGED <<left, pending, batch, verified, attempt, report, taskVars, runVars>>

WaveFails ==
  /\ pc = "select" /\ pending # {}
  /\ BudgetErr \/ SelectWaveBatch(pending) = {}
  /\ Fails
  /\ StopBudget
  /\ UNCHANGED <<batch, taskVars, runVars>>

RunWaveBatch ==
  /\ pc = "select" /\ pending # {} /\ ~BudgetErr
  /\ batch' = SelectWaveBatch(pending)
  /\ batch' # {}
  /\ pc' = "batch"
  /\ UNCHANGED <<left, pending, verified, attempt, report, taskVars, budgetVars, runVars>>

BatchJoined == \A t \in batch : status[t] \in {"completed", "failed"}

BatchCompleted ==
  /\ pc = "batch" /\ BatchJoined
  /\ \A t \in batch : status[t] = "completed"
  /\ pending' = pending \ batch
  /\ batch' = {}
  /\ pc' = "select"
  /\ UNCHANGED <<left, verified, attempt, report, taskVars, budgetVars, runVars>>

BatchFailed ==
  /\ pc = "batch" /\ BatchJoined
  /\ \E t \in batch : status[t] # "completed"
  /\ Fails
  /\ batch' = {}
  /\ StopBudget
  /\ UNCHANGED <<taskVars, runVars>>

WavesDone ==
  /\ pc = "waves" /\ left = {}
  /\ pc' = "verify"
  /\ attempt' = 1
  /\ UNCHANGED <<left, pending, batch, verified, report, taskVars, budgetVars, runVars>>

-----------------------------------------------------------------------------
(* executeTask: the worker and, behind its channel, the kernel.            *)

Live(t) == waveCause = "none" /\ t \notin stopped

ExecuteTask(t) ==
  /\ t \in batch /\ status[t] = "pending"
  /\ status' = [status EXCEPT ![t] = "running"]
  /\ kernel' = [kernel EXCEPT ![t] = "working"]
  /\ UNCHANGED <<leadVars, frames, reducer, emitted, asked, stopped, outcome, erred, budgetVars, runVars>>

\* resolveTaskRuntime found no provider or model.
FailStartedTask(t) ==
  /\ t \in batch /\ status[t] = "pending"
  /\ status' = [status EXCEPT ![t] = "failed"]
  /\ stopped' = stopped \cup {t}
  /\ UNCHANGED <<leadVars, kernel, frames, reducer, emitted, asked, outcome, erred, budgetVars, runVars>>

KernelEmits(t, frame) ==
  /\ kernel[t] = "working" /\ t \notin waiting
  /\ emitted[t] < MaxFrames
  /\ emitted' = [emitted EXCEPT ![t] = @ + 1]
  /\ frames' = [frames EXCEPT ![t] = Append(@, frame)]
  /\ erred' = IF frame = "error" THEN erred \cup {t} ELSE erred
  /\ UNCHANGED <<leadVars, status, kernel, reducer, asked, stopped, outcome, budgetVars, runVars>>

\* The done frame, then the channel is closed.
KernelEnds(t, frame) ==
  /\ kernel[t] = "working" /\ t \notin waiting
  /\ kernel' = [kernel EXCEPT ![t] = "over"]
  /\ frames' = [frames EXCEPT ![t] = Append(@, frame)]
  /\ outcome' = [outcome EXCEPT ![t] =
                   IF frame = "blocked" \/ t \in erred THEN "bad"
                   ELSE IF Live(t) THEN "intact" ELSE "late"]
  /\ UNCHANGED <<leadVars, status, reducer, emitted, asked, stopped, erred, budgetVars, runVars>>

Observe(r, frame, contextErr) ==
  IF r.terminalSeen THEN r
  ELSE IF frame \in {"done", "blocked"}
       THEN [terminalSeen |-> TRUE, failure |-> r.failure \/ frame = "blocked"]
  ELSE [r EXCEPT !.failure = @ \/ frame = "error" \/ contextErr]

\* After every frame the worker looks for a shutdown request in its inbox,
\* which teams of the same name share.
ReadFrame(t, shutdown) ==
  /\ frames[t] # <<>>
  /\ reducer' = [reducer EXCEPT ![t] = Observe(@, Head(frames[t]), ~Live(t))]
  /\ frames' = [frames EXCEPT ![t] = Tail(@)]
  /\ stopped' = IF shutdown THEN stopped \cup {t} ELSE stopped
  /\ UNCHANGED <<leadVars, status, kernel, emitted, asked, outcome, erred, budgetVars, runVars>>

Success(t) == reducer[t].terminalSeen /\ ~reducer[t].failure

FinishTask(t) ==
  /\ status[t] = "running" /\ kernel[t] = "over" /\ frames[t] = <<>>
  /\ status' = [status EXCEPT ![t] = IF Success(t) THEN "completed" ELSE "failed"]
  /\ UNCHANGED <<leadVars, kernel, frames, reducer, emitted, asked, stopped, outcome, erred, budgetVars, runVars>>

-----------------------------------------------------------------------------
(* The wave budget.                                                        *)

\* time.Since may be a little more than what was left.
Tick ==
  /\ timer /\ elapsed <= remaining
  /\ elapsed' = elapsed + 1
  /\ worked' = IF waiting = {} THEN worked + 1 ELSE worked
  /\ UNCHANGED <<leadVars, taskVars, waveCause, timer, remaining, firing, canceling, timedOut, waiting, runVars>>

TimerFires ==
  /\ timer /\ elapsed >= remaining
  /\ timer' = FALSE
  /\ firing' = firing + 1
  /\ UNCHANGED <<leadVars, taskVars, waveCause, elapsed, remaining, canceling, timedOut, waiting, worked, runVars>>

CallbackTimesOut ==
  /\ firing > 0
  /\ firing' = firing - 1
  /\ timedOut' = TRUE
  /\ canceling' = TRUE
  /\ UNCHANGED <<leadVars, taskVars, waveCause, timer, elapsed, remaining, waiting, worked, runVars>>

CallbackCancels ==
  /\ canceling
  /\ canceling' = FALSE
  /\ waveCause' = IF waveCause = "none" THEN "deadline" ELSE waveCause
  /\ UNCHANGED <<leadVars, taskVars, timer, elapsed, remaining, firing, timedOut, waiting, worked, runVars>>

LeftOver == IF elapsed > remaining THEN 0 ELSE remaining - elapsed

\* pause(): timer.Stop() is false when the callback has started.
Pause(t) ==
  /\ kernel[t] = "working" /\ t \notin waiting
  /\ asked[t] < MaxApprovals
  /\ asked' = [asked EXCEPT ![t] = @ + 1]
  /\ waiting' = waiting \cup {t}
  /\ timer' = (timer /\ waiting # {})
  /\ remaining' = IF timer /\ waiting = {} THEN LeftOver ELSE remaining
  /\ UNCHANGED <<leadVars, status, kernel, frames, reducer, emitted, stopped, outcome, erred,
                 waveCause, elapsed, firing, canceling, timedOut, worked, runVars>>

Rearms(t) == waiting = {t} /\ ~timedOut
Resume(t) ==
  /\ t \in waiting
  /\ waiting' = waiting \ {t}
  /\ timer' = (timer \/ Rearms(t))
  /\ elapsed' = IF Rearms(t) THEN 0 ELSE elapsed
  /\ UNCHANGED <<leadVars, taskVars, waveCause, remaining, firing, canceling, timedOut, worked, runVars>>

ClientGone ==
  /\ ~clientGone /\ pc # "returned"
  /\ clientGone' = TRUE
  /\ waveCause' = IF waveCause = "none" THEN "canceled" ELSE waveCause
  /\ UNCHANGED <<leadVars, taskVars, timer, elapsed, remaining, firing, canceling, timedOut, waiting, worked, dependsOn>>

-----------------------------------------------------------------------------
(* Verify and the receipt of the run.                                      *)

VerifyReturns(v, status_) ==
  /\ pc' = "returned"
  /\ verified' = v
  /\ report' = status_
  /\ UNCHANGED <<left, pending, batch, attempt, taskVars, budgetVars, runVars>>

NoVerifyCommand == pc = "verify" /\ attempt = 1 /\ VerifyReturns("none", "completed")

VerifyPasses ==
  pc = "verify" /\ attempt <= MaxRetries /\ ~clientGone /\ VerifyReturns("passed", "completed")

VerifyRetries ==
  /\ pc = "verify" /\ attempt <= MaxRetries /\ ~clientGone
  /\ attempt' = attempt + 1
  /\ UNCHANGED <<pc, left, pending, batch, verified, report, taskVars, budgetVars, runVars>>

\* Canceled, or the last run of the command, which only fills the report.
VerifyFails ==
  pc = "verify" /\ (clientGone \/ attempt = MaxRetries + 1) /\ VerifyReturns("failed", "failed")

-----------------------------------------------------------------------------
LeadStep ==
  \/ CircularDependency \/ BeginWaves \/ BeginWave \/ EndWave \/ WaveFails \/ RunWaveBatch
  \/ BatchCompleted \/ BatchFailed \/ WavesDone
  \/ NoVerifyCommand \/ VerifyPasses \/ VerifyRetries \/ VerifyFails
WorkerStep(t) == ExecuteTask(t) \/ FailStartedTask(t) \/ FinishTask(t)
                 \/ \E shutdown \in BOOLEAN : ReadFrame(t, shutdown)
KernelStep(t) ==
  \/ \E f \in {"text", "error"} : KernelEmits(t, f)
  \/ \E f \in {"done", "blocked"} : KernelEnds(t, f)
BudgetStep == Tick \/ TimerFires \/ CallbackTimesOut \/ CallbackCancels

WaveNext ==
  \/ LeadStep \/ BudgetStep \/ ClientGone
  \/ \E t \in Tasks : \/ WorkerStep(t) \/ KernelStep(t)
                      \/ Pause(t) \/ Resume(t)

WaveSpec == WaveInit /\ [][WaveNext]_waveVars

-----------------------------------------------------------------------------
Running == {t \in Tasks : status[t] = "running"}

\* A task runs only after everything it depends on has completed, although
\* waves are cut to a size and batches pass over tasks that do not fit.
DependenciesFirst == \A t \in Running : \A u \in dependsOn[t] : status[u] = "completed"

\* Writers that run at once never own overlapping files (a task without files
\* owns all of them), and no more workers run than the capacity allows.
WorkersApart ==
  /\ Cardinality(Running) <= MaxParallelTasks
  /\ FileScopeLock =>
       \A t, u \in Running \ ReadOnly : t # u =>
         /\ Files[t] # {} /\ Files[u] # {}
         /\ \A p \in Files[t], q \in Files[u] : p # q /\ <<p, q>> \notin Overlaps

\* A task counts as completed only when its kernel ended well and none of its
\* frames was an error, however late the worker reads them; a receipt says "completed" only
\* when every task is, and only when verification did not fail.
CompletionIsEarned ==
  /\ \A t \in Tasks : status[t] = "completed" => outcome[t] \in {"late", "intact"}
  /\ report = "completed" => verified # "failed" /\ \A t \in Tasks : status[t] = "completed"

\* The wave deadline only counts time in which no worker awaited an approval:
\* a wave times out after a whole budget of working time, although pause and
\* resume race the callback of the timer.
BudgetSparesApprovals == timedOut => worked >= CycleTimeout

\* ExecuteWaves never returns with a worker still running behind it.
NoOrphans == pc \in {"verify", "returned"} => Running = {} /\ waiting = {}

------------------------------------------------------------------------------

(***************************************************************************)
(* The contract of a TeamPlan (agent/team_plan.go): validation before any  *)
(* worker starts, capacity, and the choice of tasks that may run together. *)
(* A file scope is a pattern; since the question is which patterns name a  *)
(* common file, patterns and paths are sequences of symbols, one of which  *)
(* is the slash and one the star.                                          *)
(***************************************************************************)
CONSTANTS
  Ids,              \* task ids a plan may use or refer to
  RulesPlans,            \* plans that are submitted: sequences of tasks
  Paths,            \* files of the workspace
  RulesModelSlots, RulesMaxParallelTasks, RulesFileScopeLock   \* CapacityConfig, normalized

VARIABLES
  plan,             \* the submitted plan
  phase,            \* submitted | rejected | running
  rulesStatus,           \* id -> pending | running | completed
  rulesBatch             \* tasks of the last selection and what still ran then

rulesVars == <<plan, phase, rulesStatus, rulesBatch>>

RulesTasks == Range(plan)
RulesRunning == {t \in RulesTasks : rulesStatus[t.id] = "running"}

RulesInit == plan \in RulesPlans /\ phase = "submitted" /\ rulesStatus = [i \in Ids |-> "pending"] /\ rulesBatch = {}

------------------------------------------------------------------------------
(* IsReadOnly: by flag, or by kind.                                         *)
IsReadOnly(t) == t.readOnly \/ t.kind \in {"research", "propose", "blueprint", "review"}

(* hasTaskDependencyCycle walks the known dependencies from every task.     *)
DependsOn(i) == UNION {t.deps : t \in {u \in RulesTasks : u.id = i}} \cap {t.id : t \in RulesTasks}
Reach[k \in 0..Cardinality(Ids)] ==
  IF k = 0 THEN [i \in Ids |-> DependsOn(i)]
  ELSE [i \in Ids |-> Reach[k - 1][i] \cup UNION {DependsOn(j) : j \in Reach[k - 1][i]}]

hasTaskDependencyCycle == \E i \in Ids : i \in Reach[Cardinality(Ids)][i]

ValidateTeamPlan ==
  /\ plan # <<>>
  /\ \A i, j \in DOMAIN plan : plan[i].id = plan[j].id => i = j
  /\ \A t \in RulesTasks : IsReadOnly(t) \/ t.files # {}
  /\ \A t \in RulesTasks : t.deps \subseteq {u.id : u \in RulesTasks} /\ t.id \notin t.deps
  /\ ~hasTaskDependencyCycle

Validate ==
  /\ phase = "submitted"
  /\ phase' = IF ValidateTeamPlan THEN "running" ELSE "rejected"
  /\ UNCHANGED <<plan, rulesStatus, rulesBatch>>

------------------------------------------------------------------------------
(* ownershipPrefix: one trailing slash and stars, or one star, then slashes. *)
TrimSuffix(s, suffix) == IF IsSuffix(suffix, s) THEN SubSeq(s, 1, Len(s) - Len(suffix)) ELSE s
TrimSlash(s) == IF s # <<>> /\ Last(s) = "/" THEN Front(s) ELSE s
ownershipPrefix(p) ==
  TrimSlash(TrimSuffix(TrimSuffix(TrimSuffix(p, <<"/", "*", "*">>), <<"/", "*">>), <<"*">>))

ownershipPatternsOverlap(a, b) ==
  \/ a = <<>> \/ b = <<>> \/ a = b
  \/ IsPrefix(ownershipPrefix(a), ownershipPrefix(b)) \/ IsPrefix(ownershipPrefix(b), ownershipPrefix(a))

fileScopesConflict(t, u) ==
  /\ ~IsReadOnly(t) /\ ~IsReadOnly(u)
  /\ \/ t.files = {} \/ u.files = {}
     \/ \E a \in t.files, b \in u.files : ownershipPatternsOverlap(a, b)

taskModelSlots(t) == IF t.slots > 0 THEN t.slots ELSE 1
Slots(ts) == MapThenSumSet(taskModelSlots, ts)

(* ModelTaskLimit of the parallel limit.                                    *)
ModelTaskLimit == IF RulesModelSlots < RulesMaxParallelTasks THEN RulesModelSlots ELSE RulesMaxParallelTasks

dependenciesComplete(t) == \A d \in t.deps : rulesStatus[d] = "completed"
Candidates == {t \in RulesTasks : rulesStatus[t.id] = "pending" /\ dependenciesComplete(t)}

Fits(t, chosen) ==
  /\ Cardinality(RulesRunning \cup chosen) < ModelTaskLimit
  /\ Slots(RulesRunning \cup chosen) + taskModelSlots(t) <= RulesModelSlots
  /\ RulesFileScopeLock => \A u \in RulesRunning \cup chosen : ~fileScopesConflict(t, u)

Ordered == SetToSortSeq(Candidates, LAMBDA t, u : t.priority > u.priority \/ (t.priority = u.priority /\ t.pos < u.pos))
Chosen[k \in 0..Cardinality(Candidates)] ==
  IF k = 0 THEN {}
  ELSE Chosen[k - 1] \cup (IF Fits(Ordered[k], Chosen[k - 1]) THEN {Ordered[k]} ELSE {})

SelectRunnable == Chosen[Cardinality(Candidates)]

Select ==
  /\ phase = "running" /\ SelectRunnable # {}
  /\ rulesStatus' = [i \in Ids |-> IF \E t \in SelectRunnable : t.id = i THEN "running" ELSE rulesStatus[i]]
  /\ rulesBatch' = RulesRunning \cup SelectRunnable
  /\ UNCHANGED <<plan, phase>>

Complete ==
  /\ \E t \in RulesRunning : rulesStatus' = [rulesStatus EXCEPT ![t.id] = "completed"]
  /\ UNCHANGED <<plan, phase, rulesBatch>>

RulesNext == Validate \/ Select \/ Complete
RulesSpec == RulesInit /\ [][RulesNext]_rulesVars /\ WF_rulesVars(RulesNext)

------------------------------------------------------------------------------
(* Phase and statuses have their types and a rejected plan starts nothing.  *)
RulesTypeOK ==
  /\ phase \in {"submitted", "rejected", "running"} /\ rulesStatus \in [Ids -> {"pending", "running", "completed"}]
  /\ phase # "running" => rulesBatch = {} /\ \A i \in Ids : rulesStatus[i] = "pending"

(* The tasks that run together hold no more model slots than there are.     *)
SlotsHold == MapThenSumSet(LAMBDA t : IF t.slots > 0 THEN t.slots ELSE 1, rulesBatch) <= RulesModelSlots

(* What a pattern names, as a glob.                                         *)
Names(p, f) ==
  \/ p = f \/ p = <<"*", "*">>
  \/ IsSuffix(<<"/", "*", "*">>, p) /\ IsStrictPrefix(SubSeq(p, 1, Len(p) - 2), f)
  \/ /\ IsSuffix(<<"/", "*">>, p) /\ IsStrictPrefix(SubSeq(p, 1, Len(p) - 1), f)
     /\ ~Contains(SubSeq(f, Len(p), Len(f)), "/")
  \/ IsPrefix(<<"*", "*", "/">>, p) /\ (IsSuffix(Tail(Tail(p)), f) \/ f = SubSeq(p, 4, Len(p)))

(* A star that ownershipPrefix does not strip is compared as a letter.      *)
StarLeft(p) == Contains(ownershipPrefix(p), "*")

(* "write-capable tasks with overlapping file scopes are not started in the *)
(* same batch when file-scope locking is enabled": no file is in the scope  *)
(* of two writers that run together.  That covers patterns whose stars are  *)
(* stripped; "**" alone leaves a star, and so does one in front or in the   *)
(* middle: such a pattern conflicts with its equals and little else, and    *)
(* the writer that holds it can run beside one whose files it names.        *)
WritersShareNoFile ==
  RulesFileScopeLock => \A t, u \in rulesBatch : t # u /\ ~IsReadOnly(t) /\ ~IsReadOnly(u) =>
    \A a \in t.files, b \in u.files, f \in Paths :
      Names(a, f) /\ Names(b, f) => a # b /\ (StarLeft(a) \/ StarLeft(b))

------------------------------------------------------------------------------

(***************************************************************************)
(* The inbox files of agents (internal/agent/mailbox.go): every operation  *)
(* runs under the mutex of its Mailbox value; saveInbox takes a lock file  *)
(* around the write, and gives up after some attempts.  Mailbox values on  *)
(* one directory belong to processes, or to teams of the same name.        *)
(***************************************************************************)
CONSTANTS Boxes,        \* Mailbox values on the directory
          Agents,       \* inboxes
          Senders,
          MaxMessages,  \* bound: messages sent
          MailMaxRetries,   \* attempts to create the lock file
          MaxCrashes    \* bound: crashes in the middle of an operation

VARIABLES exists,     \* agents whose inbox file exists
          making,     \* agents whose EnsureInbox found no file and has not written it
          inbox,      \* agent -> the messages of its file
          lock,       \* agent -> its lock file: "none", "fresh" or "stale"
          box,        \* Mailbox value -> the operation under its mutex
          nextID,
          crashes,
          sent,       \* history: <<agent, id>> whose Send returned
          removed,    \* history: <<agent, id>> cleared or replaced by a notification
          received,   \* history: <<agent, id>> returned by Receive
          overwritten \* history: <<agent, id, by>> of the records that a save, or the
                      \* creation of an inbox, wrote over without having read them
mailVars ==
  <<exists, making, inbox, lock, box, nextID, crashes, sent, removed, received, overwritten>>

Idle == [pc |-> "idle"]
Kinds == {"text", "idle_notify"}

Messages == [id : 1 .. MaxMessages, from : Senders, kind : Kinds, read : BOOLEAN]

MailTypeOK ==
  /\ exists \subseteq Agents /\ making \subseteq Agents
  /\ inbox \in [Agents -> Seq(Messages)]
  /\ lock \in [Agents -> {"none", "fresh", "stale"}]
  /\ \A b \in Boxes : box[b].pc \in {"idle", "load", "lock", "write", "release", "returned"}
                      /\ box[b].pc = "lock" => box[b].tries \in 0 .. MailMaxRetries
  /\ nextID \in 0 .. MaxMessages
  /\ crashes \in 0 .. MaxCrashes

MailInit ==
  /\ exists = {} /\ making = {}
  /\ inbox = [a \in Agents |-> <<>>]
  /\ lock = [a \in Agents |-> "none"]
  /\ box = [b \in Boxes |-> Idle]
  /\ nextID = 0 /\ crashes = 0
  /\ sent = {} /\ removed = {} /\ received = {} /\ overwritten = {}

MailIds(messages) == {messages[k].id : k \in DOMAIN messages}

\* A message to one agent, or to all whose inbox file exists but the sender's.
SendStarts(b, from, to, kind) ==
  /\ box[b].pc = "idle" /\ nextID < MaxMessages
  /\ nextID' = nextID + 1
  /\ box' = [box EXCEPT ![b] =
       [pc |-> "load", op |-> "send", to |-> to \ {from}, done |-> {}, tries |-> 0,
        message |-> [id |-> nextID + 1, from |-> from, kind |-> kind, read |-> FALSE]]]
  /\ UNCHANGED <<exists, making, inbox, lock, crashes, sent, removed, received, overwritten>>

Send(b, from, a, kind) == from # a /\ SendStarts(b, from, {a}, kind)
Broadcast(b, from, kind) == SendStarts(b, from, exists, kind)

Appended(messages, m) ==
  Append(SelectSeq(messages, LAMBDA x : ~ ( /\ m.kind = "idle_notify"
                                            /\ x.kind = "idle_notify"
                                            /\ x.from = m.from )), m)

LoadInbox(b, a) ==
  /\ box[b].pc = "load" /\ box[b].op = "send" /\ a \in box[b].to
  /\ box' = [box EXCEPT ![b] = [pc |-> "lock", op |-> "send", to |-> box[b].to \ {a}, at |-> a,
                                done |-> box[b].done, tries |-> 0, message |-> box[b].message,
                                old |-> inbox[a], new |-> Appended(inbox[a], box[b].message)]]
  /\ UNCHANGED <<exists, making, inbox, lock, nextID, crashes, sent, removed, received, overwritten>>

Unread(messages) == {messages[k].id : k \in {i \in DOMAIN messages : ~messages[i].read}}

MarkedRead(messages) == [k \in DOMAIN messages |-> [messages[k] EXCEPT !.read = TRUE]]

\* Receive up to its write; without unread messages there is none.
Receive(b, a) ==
  /\ box[b].pc = "idle" /\ Unread(inbox[a]) # {}
  /\ box' = [box EXCEPT ![b] = [pc |-> "lock", op |-> "receive", to |-> {}, at |-> a, done |-> {},
                                tries |-> 0, old |-> inbox[a], new |-> MarkedRead(inbox[a])]]
  /\ UNCHANGED <<exists, making, inbox, lock, nextID, crashes, sent, removed, received, overwritten>>

-----------------------------------------------------------------------------
(* acquireFileLock, the write and releaseFileLock                          *)

AtLock(b) == box[b].pc = "lock"
LockUnchanged ==
  UNCHANGED <<exists, making, inbox, nextID, crashes, sent, removed, received, overwritten>>

AcquireFileLock(b) ==
  /\ AtLock(b) /\ lock[box[b].at] = "none" /\ box[b].tries < MailMaxRetries
  /\ lock' = [lock EXCEPT ![box[b].at] = "fresh"]
  /\ box' = [box EXCEPT ![b].pc = "write"]
  /\ LockUnchanged

RetryFileLock(b) ==
  /\ AtLock(b) /\ lock[box[b].at] # "none" /\ box[b].tries < MailMaxRetries
  /\ lock' = [lock EXCEPT ![box[b].at] = IF @ = "stale" THEN "none" ELSE @]
  /\ box' = [box EXCEPT ![b].tries = @ + 1]
  /\ LockUnchanged

GiveUp(b) ==
  /\ AtLock(b) /\ box[b].tries = MailMaxRetries
  /\ lock' = [lock EXCEPT ![box[b].at] = "none"]
  /\ box' = [box EXCEPT ![b].pc = "write"]
  /\ LockUnchanged

\* The earlier notifications of the sender of a notification.
Replaced(b) ==
  IF box[b].op = "receive" \/ box[b].message.kind # "idle_notify" THEN {}
  ELSE MailIds(SelectSeq(box[b].old, LAMBDA x : x.kind = "idle_notify" /\ x.from = box[b].message.from))

\* The records that changed between the load and the write: the mutex belongs
\* to one Mailbox value and the lock file is held for the write alone.
Missed(b) ==
  LET now == Range(inbox[box[b].at])
      old == Range(box[b].old)
  IN {m.id : m \in (now \ old) \cup (old \ now)}

\* Write to a temporary file and rename it.
SaveInbox(b) ==
  /\ box[b].pc = "write"
  /\ exists' = exists \cup {box[b].at}
  /\ inbox' = [inbox EXCEPT ![box[b].at] = box[b].new]
  /\ removed' = removed \cup ({box[b].at} \X Replaced(b))
  /\ overwritten' = overwritten \cup ({box[b].at} \X Missed(b) \X {"save"})
  /\ box' = [box EXCEPT ![b].pc = "release"]
  /\ UNCHANGED <<making, lock, nextID, crashes, sent, received>>

ReleaseFileLock(b) ==
  /\ box[b].pc = "release"
  /\ lock' = [lock EXCEPT ![box[b].at] = "none"]
  /\ box' = [box EXCEPT ![b].pc = IF box[b].to = {} THEN "returned" ELSE "load",
                        ![b].done = @ \cup {box[b].at}]
  /\ UNCHANGED <<exists, making, inbox, nextID, crashes, sent, removed, received, overwritten>>

\* The operation returns to its caller and the mutex is released.
Return(b) ==
  /\ \/ box[b].pc = "returned"
     \/ box[b].pc = "load" /\ box[b].to = {}
  /\ IF box[b].op = "send"
     THEN /\ sent' = sent \cup {<<a, box[b].message.id>> : a \in box[b].done}
          /\ UNCHANGED received
     ELSE /\ received' = received \cup {<<box[b].at, i>> : i \in Unread(box[b].old)}
          /\ UNCHANGED sent
  /\ box' = [box EXCEPT ![b] = Idle]
  /\ UNCHANGED <<exists, making, inbox, lock, nextID, crashes, removed, overwritten>>

\* Clear and ClearAll remove files, lock files among them (Shutdown of a team).
ClearAll(b) ==
  /\ box[b].pc = "idle"
  /\ exists' = {}
  /\ inbox' = [a \in Agents |-> <<>>]
  /\ lock' = [a \in Agents |-> "none"]
  /\ removed' = removed \cup UNION {{a} \X MailIds(inbox[a]) : a \in Agents}
  /\ UNCHANGED <<making, box, nextID, crashes, sent, received, overwritten>>

\* EnsureInbox takes neither the mutex nor the lock file: it looks for the file
\* and writes an empty one, whatever was written in between.
EnsureLooks(a) ==
  /\ a \notin exists /\ a \notin making
  /\ making' = making \cup {a}
  /\ UNCHANGED <<exists, inbox, lock, box, nextID, crashes, sent, removed, received, overwritten>>

EnsureInbox(a) ==
  /\ a \in making
  /\ making' = making \ {a}
  /\ exists' = exists \cup {a}
  /\ inbox' = [inbox EXCEPT ![a] = <<>>]
  /\ overwritten' = overwritten \cup ({a} \X MailIds(inbox[a]) \X {"create"})
  /\ UNCHANGED <<lock, box, nextID, crashes, sent, removed, received>>

\* Five seconds pass.
LockGrowsOld(a) ==
  /\ lock[a] = "fresh"
  /\ lock' = [lock EXCEPT ![a] = "stale"]
  /\ UNCHANGED <<exists, making, inbox, box, nextID, crashes, sent, removed, received, overwritten>>

\* The process ends in the middle of an operation; the next one starts with a
\* Mailbox value of its own.
Crash(b) ==
  /\ box[b].pc # "idle" /\ crashes < MaxCrashes
  /\ crashes' = crashes + 1
  /\ box' = [box EXCEPT ![b] = Idle]
  /\ UNCHANGED <<exists, making, inbox, lock, nextID, sent, removed, received, overwritten>>

OperationStep(b) ==
  \/ \E a \in Agents : LoadInbox(b, a)
  \/ AcquireFileLock(b) \/ RetryFileLock(b) \/ GiveUp(b)
  \/ SaveInbox(b) \/ ReleaseFileLock(b) \/ Return(b)

MailNext ==
  \/ \E b \in Boxes :
       \/ OperationStep(b) \/ Crash(b) \/ ClearAll(b)
       \/ \E f \in Senders, k \in Kinds : Broadcast(b, f, k) \/ \E a \in Agents : Send(b, f, a, k)
       \/ \E a \in Agents : Receive(b, a)
  \/ \E a \in Agents : EnsureLooks(a) \/ EnsureInbox(a) \/ LockGrowsOld(a)

MailSpec == MailInit /\ [][MailNext]_mailVars

-----------------------------------------------------------------------------
\* Another process, or the creation of the inbox, wrote over the record.
WrittenOver(s) ==
  \/ <<s[1], s[2], "create">> \in overwritten
  \/ Cardinality(Boxes) > 1 /\ <<s[1], s[2], "save">> \in overwritten

\* "File lock for cross-process safety": a message whose Send returned stays
\* in the file until it is cleared or replaced, also when another process
\* crashed in the middle of a write and left its lock file behind. The lock is
\* taken only around the write (saveInbox), so the one exception are records
\* that another Mailbox value wrote, or an inbox that came into being, between
\* the load and the write; within one Mailbox value there is only the second.
NoMessageLost ==
  \A s \in sent : s[2] \in MailIds(inbox[s[1]]) \/ s \in removed \/ WrittenOver(s)

\* An inbox holds at most one idle notification of a sender.
OneNotification ==
  \A a \in Agents : \A j, k \in DOMAIN inbox[a] :
    /\ j # k
    /\ inbox[a][j].kind = "idle_notify" /\ inbox[a][k].kind = "idle_notify"
    => inbox[a][j].from # inbox[a][k].from

\* No message is handed out by two calls of Receive, but for a record another
\* process wrote over.
ReceivedOnce ==
  \A b \in Boxes :
    /\ box[b].pc = "returned" /\ box'[b].pc = "idle" /\ crashes' = crashes
    /\ box[b].op = "receive"
    => \A i \in Unread(box[b].old) :
         <<box[b].at, i>> \notin received \/ WrittenOver(<<box[b].at, i>>)

=============================================================================
