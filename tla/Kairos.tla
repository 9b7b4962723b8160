-------------------------------- MODULE Kairos --------------------------------
(***************************************************************************)
(* The KAIROS background daemon of internal/kairos: the tick loops, the    *)
(* due test, the execution of a task and the task list of the project.     *)
(*                                                                         *)
(* Time is counted in fractions of a minute.  A task is an identifier with *)
(* a kind: "git" is the built-in watch, "free" has no schedule, "cron" has *)
(* the minutes CronMinutes of its expression, "plan" observes a stage of   *)
(* a Workstream Plan and has no schedule.  Identifiers are unique in a     *)
(* list.  A loop is one call of tickLoop; Start may be called again after  *)
(* Stop, so loops are numbered by the Start that made them.                *)
(***************************************************************************)
EXTENDS Integers, Sequences, SequencesExt, FiniteSets, FiniteSetsExt

CONSTANTS
  Projects,      \* work directories
  Ids,           \* identifiers of tasks
  Kind,          \* the kind of each identifier
  Saved,         \* the identifiers in tasks.json of each project at the start
  CronMinutes,   \* minutes of the hour the cron expression matches
  Minute,        \* time units in a minute
  Hour,          \* minutes after which the cron expression repeats
  TickInterval,
  Jitter,        \* how late the runtime may deliver a tick
  Horizon,       \* bound on the clock
  MaxLoops,      \* bound on the calls of Start that make a loop
  Changes,       \* bound on the changes a user makes: projects, tasks
  Bound,         \* revision of the Plan the task "plan" is bound to
  MaxRevision,   \* bound on the revisions of the Plan
  Faulty         \* TRUE: appending to the timeline may fail

VARIABLES
  clock,
  workDir,
  tasks,    \* d.tasks: the last run of every task of the list
  disk,     \* tasks.json of every project
  state,    \* d.state
  current,  \* the loop d.cancel ends, or 0
  loops,    \* the tick loops
  plan,     \* the Plan in the workstream store
  evidence, \* LastVerification of the workstream
  changes,  \* changes the user has made
  began,    \* history: the revision of the Plan when a loop began its task
  executed  \* history: the tasks that were begun

allDaemonVars == <<clock, workDir, tasks, disk, state, current, loops, plan, evidence, changes, began, executed>>

Loops == 1 .. MaxLoops
Never == 0 - 1
NoTick == 0 - 1
NoTask == [id |-> "none", last |-> Never]
(* home: history, the project of the snapshot a tick works on, or Left when  *)
(* there is none or another project was switched to since.                  *)
Left == "left"
Idle == [ctx |-> TRUE, pc |-> "none", next |-> 0, since |-> 0, chan |-> NoTick, at |-> 0, snap |-> {}, task |-> NoTask, dir |-> workDir,
         home |-> Left]

(* activeTasks: a copy of the list; AddTask has enabled every task. *)
activeTasks == {[id |-> i, last |-> tasks[i]] : i \in DOMAIN tasks}
loadTasks(p) == disk[p]
SameMinute(s, t) == s \div Minute = t \div Minute

(* CronExpr.Matches on the minute of a time. *)
Matches(t) == ((t \div Minute) % Hour) \in CronMinutes

IsDue(last, t) == Matches(t) /\ ~ (last # Never /\ SameMinute(last, t))

isTaskDue(task, t) ==
  IF Kind[task.id] = "cron"
  THEN IsDue(task.last, t)
  ELSE task.last = Never \/ t - task.last > TickInterval

DaemonInit ==
  /\ clock = 0
  /\ workDir \in Projects
  /\ disk = [p \in Projects |-> [i \in Saved[p] |-> Never]]
  /\ tasks = disk[workDir]
  /\ state = "idle" /\ current = 0
  /\ loops = [l \in Loops |-> Idle]
  /\ plan = [revision |-> 1, approved |-> 1, stage |-> "pending", before |-> "completed"]
  /\ evidence = [status |-> "passed", by |-> "verifier"]
  /\ changes = 0
  /\ began = [l \in Loops |-> 0] /\ executed = {}

At(l, pc) == loops[l].pc = pc
daemonVars == <<workDir, tasks, disk, state, current>>
storeVars == <<plan, evidence>>
-----------------------------------------------------------------------------
(* Time and the tickers. *)

(* A live ticker is never more than Jitter late. *)
Late(l) == ~ At(l, "none") /\ ~ At(l, "exited") /\ clock >= loops[l].next + Jitter

Clock ==
  /\ clock < Horizon
  /\ \A l \in Loops : ~ Late(l)
  /\ clock' = clock + 1
  /\ UNCHANGED <<daemonVars, loops, storeVars, changes, began, executed>>

(* The channel of a ticker holds one tick; a tick that finds it full is lost. *)
TickerFires(l) ==
  /\ ~ At(l, "none") /\ ~ At(l, "exited")
  /\ clock >= loops[l].next
  /\ loops' = [loops EXCEPT ![l].next = @ + TickInterval,
                            ![l].chan = IF @ = NoTick THEN clock ELSE @]
  /\ UNCHANGED <<clock, daemonVars, storeVars, changes, began, executed>>
-----------------------------------------------------------------------------
(* The requests of the user.  handleKairosStart reloads the project first. *)

Free == {l \in Loops : At(l, "none")}

Start ==
  /\ tasks' = loadTasks(workDir)
  /\ IF current # 0
     THEN UNCHANGED <<current, loops>>
     ELSE /\ Free # {}
          /\ LET l == Min(Free) IN
               /\ current' = l
               /\ loops' = [loops EXCEPT ![l] = [Idle EXCEPT !.pc = "wait", !.since = clock, !.next = clock + TickInterval]]
  /\ UNCHANGED <<clock, workDir, disk, state, storeVars, changes, began, executed>>

Stop ==
  /\ current # 0
  /\ loops' = [loops EXCEPT ![current].ctx = FALSE]
  /\ current' = 0 /\ state' = "idle"
  /\ UNCHANGED <<clock, workDir, tasks, disk, storeVars, changes, began, executed>>

Change ==
  /\ changes < Changes
  /\ changes' = changes + 1
  /\ UNCHANGED <<clock, state, current, storeVars, began, executed>>

SwitchProject(p) ==
  /\ Change
  /\ workDir' = p
  /\ tasks' = loadTasks(p)
  /\ loops' = [l \in Loops |-> [loops[l] EXCEPT !.home = IF @ = p THEN @ ELSE Left]]
  /\ UNCHANGED disk

(* saveTasks writes the list of the current project, last runs included. *)
saveTasks(list) == disk' = [disk EXCEPT ![workDir] = list]

AddTask(i) ==
  /\ Change
  /\ i \notin DOMAIN tasks
  /\ tasks' = [j \in DOMAIN tasks \cup {i} |-> IF j = i THEN Never ELSE tasks[j]]
  /\ saveTasks(tasks')
  /\ UNCHANGED <<workDir, loops>>

RemoveTask(i) ==
  /\ Change
  /\ i \in DOMAIN tasks
  /\ tasks' = [j \in DOMAIN tasks \ {i} |-> tasks[j]]
  /\ saveTasks(tasks')
  /\ UNCHANGED <<workDir, loops>>
-----------------------------------------------------------------------------
(* A tick. *)

Step(l, r) == loops' = [loops EXCEPT ![l] = r]
Enter(l, pc) == [loops[l] EXCEPT !.pc = pc]

(* select: a canceled loop with a tick in its channel may take either. *)
Receive(l) ==
  /\ At(l, "wait")
  /\ \/ ~ loops[l].ctx /\ Step(l, Enter(l, "exited"))
     \/ /\ loops[l].chan # NoTick
        /\ Step(l, [Enter(l, "tick") EXCEPT !.at = loops[l].chan, !.chan = NoTick])
  /\ UNCHANGED <<clock, daemonVars, storeVars, changes, began, executed>>

Snapshot(l) ==
  /\ At(l, "tick")
  /\ Step(l, [Enter(l, "snapped") EXCEPT !.snap = activeTasks, !.home = workDir])
  /\ UNCHANGED <<clock, daemonVars, storeVars, changes, began, executed>>

(* Nothing to do: sleep until the next tick. *)
EnterState(l) ==
  /\ At(l, "snapped")
  /\ state' = IF loops[l].snap = {} THEN "sleeping" ELSE "working"
  /\ Step(l, IF loops[l].snap = {} THEN [Enter(l, "wait") EXCEPT !.home = Left] ELSE Enter(l, "loop"))
  /\ UNCHANGED <<clock, workDir, tasks, disk, current, storeVars, changes, began, executed>>

(* The loop over the snapshot; a task that is not due is passed over. *)
NextTask(l) ==
  /\ At(l, "loop")
  /\ \E task \in loops[l].snap :
       LET rest == [loops[l] EXCEPT !.snap = @ \ {task}] IN
       IF isTaskDue(task, loops[l].at)
       THEN /\ Step(l, [rest EXCEPT !.pc = "execute", !.task = task])
            /\ began' = [began EXCEPT ![l] = plan.revision]
            /\ executed' = executed \cup {task.id}
       ELSE Step(l, rest) /\ UNCHANGED <<began, executed>>
  /\ UNCHANGED <<clock, daemonVars, storeVars, changes>>

EndTick(l) ==
  /\ At(l, "loop") /\ loops[l].snap = {}
  /\ state' = "idle"
  /\ Step(l, [Enter(l, "wait") EXCEPT !.home = Left])
  /\ UNCHANGED <<clock, workDir, tasks, disk, current, storeVars, changes, began, executed>>
-----------------------------------------------------------------------------
(* executeTask. *)

IsPlan(l) == Kind[loops[l].task.id] = "plan"

(* A built-in task runs to its own timeout, not to the context of the loop. *)
RunGitWatch(l) ==
  /\ At(l, "execute") /\ Kind[loops[l].task.id] = "git"
  /\ Step(l, [Enter(l, "ran") EXCEPT !.dir = workDir])
  /\ UNCHANGED <<clock, daemonVars, storeVars, changes, began, executed>>

(* The work directory is the one of now, not the one of the snapshot. *)
BeginTask(l) ==
  /\ At(l, "execute") /\ Kind[loops[l].task.id] # "git"
  /\ Step(l, [Enter(l, IF IsPlan(l) THEN "load" ELSE "call") EXCEPT !.dir = workDir])
  /\ UNCHANGED <<clock, daemonVars, storeVars, changes, began, executed>>

(* loadEligibleKAIROSPlanStage: the revision is the bound one and approved, *)
(* the stage is open, none runs, and the stage before it is complete.       *)
Eligible ==
  /\ plan.revision = Bound
  /\ plan.approved = plan.revision
  /\ plan.stage \in {"pending", "failed"} /\ plan.before = "completed"

(* A Plan that is not eligible rejects the task before the provider; so does *)
(* a started event that cannot be appended.                                  *)
LoadStage(l) ==
  /\ At(l, "load")
  /\ \/ Step(l, Enter(l, IF Eligible THEN "call" ELSE "ran"))
     \/ Faulty /\ Eligible /\ Step(l, Enter(l, "ran"))
  /\ UNCHANGED <<clock, daemonVars, storeVars, changes, began, executed>>

(* The provider accepts the request or fails it; a canceled context fails it. *)
CallProvider(l) ==
  /\ At(l, "call")
  /\ \/ loops[l].ctx /\ Step(l, Enter(l, "stream"))
     \/ Step(l, Enter(l, "failed"))
  /\ UNCHANGED <<clock, daemonVars, storeVars, changes, began, executed>>

(* The stream ends by itself, by the blocking budget or by Stop; the end is *)
(* not told apart from a complete answer.                                   *)
StreamEnds(l) ==
  /\ At(l, "stream")
  /\ Step(l, Enter(l, "done"))
  /\ UNCHANGED <<clock, daemonVars, storeVars, changes, began, executed>>

(* Only the task "plan" names a workstream; a failed observation is not a test. *)
recordWorkstreamTaskFailure(l) ==
  /\ At(l, "failed")
  /\ evidence' = IF IsPlan(l) THEN [status |-> "not-run", by |-> "kairos"] ELSE evidence
  /\ Step(l, Enter(l, "ran"))
  /\ UNCHANGED <<clock, daemonVars, plan, changes, began, executed>>

recordWorkstreamTaskCompletion(l) ==
  /\ At(l, "done")
  /\ evidence' = IF IsPlan(l) THEN [status |-> "not-run", by |-> "kairos"] ELSE evidence
  /\ Step(l, Enter(l, "ran"))
  /\ UNCHANGED <<clock, daemonVars, plan, changes, began, executed>>

(* The last run is noted in memory, for whatever list is loaded now. *)
UpdateLastRun(l) ==
  /\ At(l, "ran")
  /\ tasks' = [i \in DOMAIN tasks |-> IF i = loops[l].task.id THEN loops[l].at ELSE tasks[i]]
  /\ Step(l, [Enter(l, "loop") EXCEPT !.task = NoTask])
  /\ UNCHANGED <<clock, workDir, disk, state, current, storeVars, changes, began, executed>>
-----------------------------------------------------------------------------
(* The owner of the Plan, in the workstream store. *)

EditPlan ==
  /\ plan.revision < MaxRevision /\ plan.stage # "running"
  /\ plan' = [plan EXCEPT !.revision = @ + 1, !.stage = "pending"]
  /\ UNCHANGED <<clock, daemonVars, loops, evidence, changes, began, executed>>

ApprovePlan ==
  /\ plan.approved # plan.revision
  /\ plan' = [plan EXCEPT !.approved = plan.revision]
  /\ UNCHANGED <<clock, daemonVars, loops, evidence, changes, began, executed>>

RunStage ==
  /\ plan.approved = plan.revision
  /\ \/ plan.stage \in {"pending", "failed"} /\ plan' = [plan EXCEPT !.stage = "running"] /\ UNCHANGED evidence
     \/ /\ plan.stage = "running"
        /\ \E s \in {"completed", "failed"} : plan' = [plan EXCEPT !.stage = s]
        /\ evidence' = [status |-> IF plan'.stage = "completed" THEN "passed" ELSE "failed", by |-> "verifier"]
  /\ UNCHANGED <<clock, daemonVars, loops, changes, began, executed>>
-----------------------------------------------------------------------------
Execute(l) ==
  \/ RunGitWatch(l) \/ BeginTask(l) \/ LoadStage(l) \/ CallProvider(l) \/ StreamEnds(l)
  \/ recordWorkstreamTaskFailure(l) \/ recordWorkstreamTaskCompletion(l) \/ UpdateLastRun(l)

Loop(l) == Receive(l) \/ Snapshot(l) \/ EnterState(l) \/ NextTask(l) \/ EndTick(l) \/ Execute(l)

User ==
  \/ Start \/ Stop
  \/ \E p \in Projects : SwitchProject(p)
  \/ \E i \in Ids : AddTask(i) \/ RemoveTask(i)

DaemonNext ==
  \/ Clock
  \/ \E l \in Loops : TickerFires(l) \/ Loop(l)
  \/ User
  \/ EditPlan \/ ApprovePlan \/ RunStage

DaemonSpec == DaemonInit /\ [][DaemonNext]_allDaemonVars

-----------------------------------------------------------------------------
TaskLists == UNION {[S -> Never .. Horizon] : S \in SUBSET Ids}
Snapped == [id : Ids, last : Never .. Horizon]
PCs == {"none", "wait", "tick", "snapped", "loop", "execute", "load", "call", "stream", "failed", "done", "ran", "exited"}

(* The state of the daemon: a list per project, a loop per Start. *)
DaemonTypeOK ==
  /\ clock \in 0 .. Horizon /\ workDir \in Projects
  /\ tasks \in TaskLists /\ disk \in [Projects -> TaskLists]
  /\ state \in {"idle", "sleeping", "working"}
  /\ current \in Loops \cup {0}
  /\ \A l \in Loops : /\ loops[l].pc \in PCs /\ loops[l].ctx \in BOOLEAN
                      /\ loops[l].snap \subseteq Snapped /\ loops[l].dir \in Projects /\ loops[l].home \in Projects \cup {Left}
  /\ plan.revision \in 1 .. MaxRevision /\ plan.approved \in 1 .. MaxRevision
  /\ changes \in 0 .. Changes

(* At most one loop has a live context, and it is the one Stop reaches:     *)
(* a loop that Start left behind would tick until the process ends.         *)
OneLiveLoop == \A l \in Loops : (loops[l].ctx /\ ~ At(l, "none")) => l = current

(* The list in memory and tasks.json name the same tasks: a task the user   *)
(* added is not lost, and one he removed does not come back, when projects  *)
(* are switched to and fro while ticks run.                                 *)
ListIsSaved == DOMAIN tasks = DOMAIN disk[workDir]

(* A Plan-bound task that began when its revision was already replaced      *)
(* never reaches the provider, whoever edits the Plan meanwhile.            *)
StaleNeverObserved ==
  \A l \in Loops : (loops[l].pc \in {"stream", "done"} /\ IsPlan(l)) => began[l] <= Bound

(* "A Plan-bound KAIROS run is observational; a provider error is not a     *)
(* test result": no step of KAIROS writes a verdict over the verifier's.    *)
ObserverGivesNoVerdict == evidence.by = "kairos" => evidence.status = "not-run"

(* "SwitchProject changes the daemon to work on a specific project": a task  *)
(* runs in the work directory of the project whose list it was taken from,  *)
(* unless another project was switched to while its tick was under way.     *)
RunsInItsProject ==
  \A l \in Loops :
    loops[l].pc \in {"load", "call", "stream"} /\ loops[l].home # Left
      => loops[l].home = loops[l].dir

------------------------------------------------------------------------------

(***************************************************************************)
(* The KAIROS endpoints of server.go around the daemon pointer, and the    *)
(* Notifier of kairos/notify.go.  A daemon is a number: the server starts  *)
(* without one, and a start request makes one when it finds none.  The     *)
(* git watch of a running daemon sends notifications, numbered in the      *)
(* order of its calls; one daemon calls Send from one goroutine.           *)
(***************************************************************************)
CONSTANTS
  Starts,       \* start requests
  Viewers,      \* requests of the notification stream
  MaxQueue,     \* capacity of a subscriber's channel (16)
  MaxHistory,   \* length at which the history is cut to its half (100)
  MaxSends      \* bound on notifications

VARIABLES
  daemon,      \* s.daemon: 0 or the daemon of a start request
  replaced,    \* history: daemons another first start put its own in place of
  start,       \* start requests: where each is, and the daemon it works on
  running,     \* daemons with a tick loop
  viewer,      \* stream requests: where each is, its notifier
  queue,       \* the channel of each viewer
  closed,      \* the channels that were closed
  subscribers, \* of each daemon's notifier
  history,     \* of each daemon's notifier
  send,        \* the call of Send under way
  sent,        \* notifications so far
  got,         \* what each viewer was shown
  missed       \* history: what each viewer's full channel refused

allApiVars == <<daemon, replaced, start, running, viewer, queue, closed, subscribers, history, send, sent, got, missed>>
apiVars == <<daemon, replaced, start, running>>
viewVars == <<viewer, queue, closed, subscribers, got>>

Order == SetToSeq(Starts)
(* The daemon a start request makes is named after the request. *)
Made(r) == CHOOSE i \in 1 .. Len(Order) : Order[i] = r
Daemons == 1 .. Len(Order)
NoSend == [from |-> 0, n |-> 0, to |-> {}]

ApiInit ==
  /\ daemon = 0 /\ replaced = {}
  /\ start = [r \in Starts |-> [pc |-> "get", d |-> 0]]
  /\ running = {}
  /\ viewer = [v \in Viewers |-> [pc |-> "poll", d |-> 0]]
  /\ queue = [v \in Viewers |-> <<>>] /\ closed = {}
  /\ subscribers = [d \in Daemons |-> {}] /\ history = [d \in Daemons |-> <<>>]
  /\ send = NoSend /\ sent = 0
  /\ got = [v \in Viewers |-> <<>>] /\ missed = [v \in Viewers |-> {}]
-----------------------------------------------------------------------------
(* handleKairosStart: the pointer is read under the lock, and written under *)
(* the lock, but not both.                                                  *)
GetDaemon(r) ==
  /\ start[r].pc = "get"
  /\ start' = [start EXCEPT ![r] = IF daemon = 0 THEN [pc |-> "set", d |-> Made(r)] ELSE [pc |-> "run", d |-> daemon]]
  /\ UNCHANGED <<daemon, replaced, running, viewVars, history, send, sent, missed>>

SetDaemon(r) ==
  /\ start[r].pc = "set"
  /\ daemon' = start[r].d
  /\ replaced' = replaced \cup ({daemon} \ {0})
  /\ start' = [start EXCEPT ![r].pc = "run"]
  /\ UNCHANGED <<running, viewVars, history, send, sent, missed>>

(* Start: a daemon that runs is left alone. *)
StartDaemon(r) ==
  /\ start[r].pc = "run"
  /\ running' = running \cup {start[r].d}
  /\ start' = [start EXCEPT ![r].pc = "done"]
  /\ UNCHANGED <<daemon, replaced, viewVars, history, send, sent, missed>>

handleKairosStop ==
  /\ daemon # 0
  /\ running' = running \ {daemon}
  /\ UNCHANGED <<daemon, replaced, start, viewVars, history, send, sent, missed>>
-----------------------------------------------------------------------------
(* Send: the history and the subscribers under the lock, the channels after it. *)
Half == MaxHistory \div 2

Kept(h) == IF Len(h) > MaxHistory THEN SubSeq(h, Len(h) - Half + 1, Len(h)) ELSE h

BeginSend(d) ==
  /\ d \in running /\ send = NoSend /\ sent < MaxSends
  /\ sent' = sent + 1
  /\ history' = [history EXCEPT ![d] = Kept(Append(@, sent + 1))]
  /\ send' = [from |-> d, n |-> sent + 1, to |-> subscribers[d]]
  /\ UNCHANGED <<apiVars, viewVars, missed>>

(* A slow subscriber is passed over. *)
Broadcast(v) ==
  /\ v \in send.to /\ v \notin closed
  /\ IF Len(queue[v]) < MaxQueue
     THEN queue' = [queue EXCEPT ![v] = Append(@, send.n)] /\ UNCHANGED missed
     ELSE missed' = [missed EXCEPT ![v] = @ \cup {send.n}] /\ UNCHANGED queue
  /\ send' = [send EXCEPT !.to = @ \ {v}]
  /\ UNCHANGED <<apiVars, viewer, closed, subscribers, got, history, sent>>

(* A send on a closed channel ends the goroutine, and with it the process. *)
Panic(v) ==
  /\ v \in send.to /\ v \in closed
  /\ send' = [send EXCEPT !.to = {}, !.n = 0 - 1]
  /\ UNCHANGED <<apiVars, viewVars, history, sent, missed>>

EndSend ==
  /\ send # NoSend /\ send.to = {} /\ send.n > 0
  /\ send' = NoSend
  /\ UNCHANGED <<apiVars, viewVars, history, sent, missed>>
-----------------------------------------------------------------------------
(* handleKairosSSE: poll for a daemon, subscribe, copy until the client goes. *)
Subscribe(v) ==
  /\ viewer[v].pc = "poll" /\ daemon # 0
  /\ viewer' = [viewer EXCEPT ![v] = [pc |-> "copy", d |-> daemon]]
  /\ subscribers' = [subscribers EXCEPT ![daemon] = @ \cup {v}]
  /\ UNCHANGED <<apiVars, queue, closed, got, history, send, sent, missed>>

Copy(v) ==
  /\ viewer[v].pc = "copy" /\ queue[v] # <<>>
  /\ got' = [got EXCEPT ![v] = Append(@, Head(queue[v]))]
  /\ queue' = [queue EXCEPT ![v] = Tail(@)]
  /\ UNCHANGED <<apiVars, viewer, closed, subscribers, history, send, sent, missed>>

Disconnect(v) ==
  /\ viewer[v].pc \in {"poll", "copy"}
  /\ viewer' = [viewer EXCEPT ![v].pc = IF @ = "copy" THEN "leave" ELSE "gone"]
  /\ UNCHANGED <<apiVars, queue, closed, subscribers, got, history, send, sent, missed>>

(* The deferred Unsubscribe: out of the table, and the channel is closed. *)
Unsubscribe(v) ==
  /\ viewer[v].pc = "leave"
  /\ subscribers' = [subscribers EXCEPT ![viewer[v].d] = @ \ {v}]
  /\ closed' = closed \cup {v}
  /\ viewer' = [viewer EXCEPT ![v].pc = "gone"]
  /\ UNCHANGED <<apiVars, queue, got, history, send, sent, missed>>
-----------------------------------------------------------------------------
Request(r) == GetDaemon(r) \/ SetDaemon(r) \/ StartDaemon(r)
View(v) == Subscribe(v) \/ Copy(v) \/ Unsubscribe(v)
Sending == EndSend \/ \E v \in Viewers : Broadcast(v) \/ Panic(v)

ApiNext ==
  \/ \E r \in Starts : Request(r)
  \/ handleKairosStop
  \/ \E d \in Daemons : BeginSend(d)
  \/ Sending
  \/ \E v \in Viewers : View(v) \/ Disconnect(v)

ApiSpec == ApiInit /\ [][ApiNext]_allApiVars

-----------------------------------------------------------------------------
(* The pointer, the requests, the channels and the histories. *)
ApiTypeOK ==
  /\ daemon \in Daemons \cup {0} /\ running \subseteq Daemons
  /\ replaced \subseteq Daemons
  /\ \A r \in Starts : start[r].pc \in {"get", "set", "run", "done"}
  /\ \A v \in Viewers : viewer[v].pc \in {"poll", "copy", "leave", "gone"} /\ Len(queue[v]) <= MaxQueue
  /\ \A d \in Daemons : subscribers[d] \subseteq Viewers /\ Len(history[d]) <= MaxHistory

(* What a viewer of the stream is shown is in the order of the sends, with  *)
(* nothing shown twice and nothing shown that its full channel refused.     *)
ShownInOrder ==
  \A v \in Viewers :
    LET s == got[v] \o queue[v] IN
    /\ \A i, j \in 1 .. Len(s) : i < j => s[i] < s[j]
    /\ \A i \in 1 .. Len(s) : s[i] \notin missed[v]

(* The tables hold only channels that are open: a client that left does not *)
(* stay a subscriber.                                                       *)
NoDeadSubscriber == \A d \in Daemons : subscribers[d] \cap closed = {}

(* "Stop halts the daemon": every daemon whose ticks go on is the one a stop *)
(* request finds.  The one exception is a daemon that two first starts made *)
(* at the same time and whose pointer the other one replaced: nobody can    *)
(* stop it any more, and there is at most one for each such start.          *)
StopReachesEveryLoop ==
  /\ running \subseteq {daemon} \cup replaced
  /\ replaced # {} => \E r, q \in Starts : start[r].d \in replaced /\ start[q].d = daemon

=============================================================================
