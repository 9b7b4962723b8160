------------------------------- MODULE WebPages -------------------------------
(***************************************************************************)
(* The chat page of the web client (web/src/pages/Chat.tsx): sending a     *)
(* turn, saving the transcript, streaming the run, approving tool calls,   *)
(* and what the user may do meanwhile: open another session, start a new   *)
(* chat, switch projects, stop.  The server is what the page sees of it.   *)
(*                                                                         *)
(* The page is single-threaded: a step is what runs between two awaits.    *)
(* A message is the conversation it was written in; a transcript is the    *)
(* set of conversations its messages come from.  A conversation is the     *)
(* identifier of the stored session or, before the first save, the number  *)
(* of the new chat.                                                        *)
(***************************************************************************)
EXTENDS Integers, Sequences, SequencesExt, FiniteSets

CONSTANTS
  Stored,        \* sessions in the side panel, each a conversation of its own
  Fresh,         \* identifiers the server may give to new sessions
  Chats,         \* conversations of new chats
  Workspaces, Home,  \* projects; every stored session lives in Home
  PlanBound,     \* a Plan is selected
  InitiallyReady,    \* the workspace is resolved when the page opens
  MaxLoads, MaxNew, MaxSwitches, MaxSends, MaxBinds, \* bounds on what the user does
  Failures       \* bound on network failures

None == "none"
Ids == Stored \cup Fresh
Conversations == Stored \cup Chats

VARIABLES
  page,     \* the state and refs of ChatPage; crossed: the page turned to another
            \* conversation under a send or a save that nothing called off
  turn,     \* the send in progress
  saves,    \* persistSession operations, oldest first
  loads,    \* getSession requests of loadSession
  server,   \* stored sessions: revision, transcript, first conversation
  run,      \* the agent run of the last request
  count     \* how often the user acted; network failures

chatVars == <<page, turn, saves, loads, server, run, count>>

NoApproval == [state |-> None, run |-> 0]
NoTurn == [pc |-> "idle", conv |-> None, seen |-> {}, ws |-> None, wsEpoch |-> 0,
           sid |-> None, rev |-> 0, aborted |-> FALSE, ended |-> FALSE, failed |-> FALSE]
NoRun == [number |-> 0, on |-> None, ask |-> None]
Absent == [rev |-> 0, text |-> {}, conv |-> None]

ChatInit ==
  /\ \E c \in Chats :
       page = [sid |-> None, rev |-> 0, epoch |-> 0, ws |-> Home, selected |-> Home, wsEpoch |-> 0,
               ready |-> InitiallyReady, shown |-> {}, conv |-> c, used |-> {c},
               streaming |-> FALSE, sending |-> FALSE, runtime |-> 0, approval |-> NoApproval,
               crossed |-> FALSE]
  /\ turn = NoTurn /\ saves = <<>> /\ loads = {}
  /\ server = [s \in Ids |-> IF s \in Stored THEN [rev |-> 1, text |-> {s}, conv |-> s] ELSE Absent]
  /\ run = NoRun
  /\ count = [loads |-> 0, new |-> 0, switches |-> 0, sends |-> 0, binds |-> 0, failures |-> 0]

Tick(f, max) == count[f] < max /\ count' = [count EXCEPT ![f] = @ + 1]
Fails == Tick("failures", Failures)

(* abortRef.current?.abort(): there is a controller from the save onwards. *)
HasController == turn.pc \in {"saving", "posting", "streaming"}
Abort == [turn EXCEPT !.aborted = @ \/ HasController]
-----------------------------------------------------------------------------
(* What the user does beside sending. *)

(* updateActiveWorkspace *)
InWorkspace(p, w) ==
  IF p.ws = w THEN p ELSE [p EXCEPT !.ws = w, !.wsEpoch = @ + 1, !.runtime = 0]

(* The effect on selectedWorkspace: a stored session keeps its workspace. *)
SwitchWorkspace(w) ==
  /\ Tick("switches", MaxSwitches) /\ w # page.selected
  /\ LET p == [page EXCEPT !.selected = w]
     IN  page' = IF page.sid = None THEN InWorkspace(p, w)
                 ELSE IF w # page.ws THEN [p EXCEPT !.wsEpoch = @ + 1, !.runtime = 0] ELSE p
  /\ turn' = IF w # page.ws THEN Abort ELSE turn
  /\ UNCHANGED <<saves, loads, server, run>>

LoadSession(s) ==
  /\ Tick("loads", MaxLoads) /\ server[s].rev > 0
  /\ turn' = Abort
  /\ page' = [page EXCEPT !.runtime = 0, !.approval = NoApproval, !.epoch = @ + 1]
  /\ loads' = loads \cup {[id |-> s, epoch |-> page.epoch + 1]}
  /\ UNCHANGED <<saves, server, run>>

(* A send that no abort has reached, or a save of the epoch in force. *)
Underway ==
  (turn.pc # "idle" /\ ~ turn.aborted) \/ \E i \in DOMAIN saves : saves[i].epoch = page.epoch

Loaded(s) ==
  InWorkspace([page EXCEPT !.shown = server[s].text, !.sid = s, !.rev = server[s].rev, !.conv = server[s].conv,
                         !.crossed = Underway], Home)

(* The answer of getSession; a newer load or a new chat has advanced the epoch. *)
LoadReturns(l) ==
  /\ l \in loads /\ loads' = loads \ {l}
  /\ \/ /\ l.epoch = page.epoch
        /\ page' = Loaded(l.id)
        /\ turn' = IF page.ws # Home THEN Abort ELSE turn
        /\ UNCHANGED count
     \/ l.epoch # page.epoch /\ UNCHANGED <<page, turn, count>>
     \/ Fails /\ UNCHANGED <<page, turn>>
  /\ UNCHANGED <<saves, server, run>>

NewChat ==
  /\ Tick("new", MaxNew)
  /\ turn' = Abort
  /\ \E c \in Chats \ page.used :
       page' = InWorkspace([page EXCEPT !.runtime = 0, !.approval = NoApproval, !.epoch = @ + 1, !.shown = {},
                                        !.sid = None, !.rev = 0, !.conv = c, !.used = @ \cup {c},
                                        !.crossed = turn.pc \in {"waiting", "planning"}], page.selected)
  /\ UNCHANGED <<saves, loads, server, run>>

(* The stop button and Escape. *)
Stop ==
  /\ page.streaming /\ HasController /\ ~ turn.aborted
  /\ turn' = Abort
  /\ UNCHANGED <<page, saves, loads, server, run, count>>
-----------------------------------------------------------------------------
(* send *)

TurnIsCurrent == page.ws = turn.ws /\ page.wsEpoch = turn.wsEpoch

Save(text, conv, by) ==
  [epoch |-> page.epoch, ws |-> page.ws, wsEpoch |-> page.wsEpoch, text |-> text, conv |-> conv, by |-> by,
   pc |-> "queued", id |-> None, rev |-> 0]

(* The transcript of the closure is shown again and saved with the new turn. *)
Start(t, p) ==
  /\ page' = [p EXCEPT !.runtime = 0, !.approval = NoApproval, !.shown = t.seen \cup {t.conv}, !.streaming = TRUE]
  /\ saves' = Append(saves, Save(t.seen \cup {t.conv}, t.conv, "turn"))
  /\ turn' = [t EXCEPT !.pc = "saving"]

(* The turn is bound to the workspace; a Plan is looked up first. *)
Bind(t, p) ==
  LET bound == [t EXCEPT !.ws = p.ws, !.wsEpoch = p.wsEpoch]
  IN  IF PlanBound
      THEN /\ turn' = [bound EXCEPT !.pc = "planning"]
           /\ page' = [p EXCEPT !.streaming = TRUE]
           /\ UNCHANGED saves
      ELSE Start(bound, p)

(* The closure keeps the messages of the render the user pressed the button in. *)
Send ==
  /\ ~ page.streaming /\ ~ page.sending /\ Tick("sends", MaxSends)
  /\ LET t == [NoTurn EXCEPT !.pc = "waiting", !.conv = page.conv, !.seen = page.shown]
         p == [page EXCEPT !.sending = TRUE]
     IN  IF page.ready THEN Bind(t, p)
         ELSE turn' = t /\ page' = p /\ UNCHANGED saves
  /\ UNCHANGED <<loads, server, run>>

(* A send that came early goes on with the workspace that was found. *)
WorkspaceReady ==
  /\ ~ page.ready
  /\ LET p == [page EXCEPT !.ready = TRUE]
     IN  IF turn.pc = "waiting" THEN Bind(turn, p)
         ELSE page' = p /\ UNCHANGED <<turn, saves>>
  /\ UNCHANGED <<loads, server, run, count>>

(* stopBeforeRun: the Plan moved on, is not approved, or cannot be read. *)
PlanRefuses ==
  /\ turn.pc = "planning"
  /\ page' = [page EXCEPT !.streaming = FALSE, !.sending = FALSE]
  /\ turn' = NoTurn
  /\ UNCHANGED <<saves, loads, server, run, count>>

(* The Plan is in order; the project may have been switched since. *)
PlanAgrees ==
  /\ turn.pc = "planning"
  /\ IF TurnIsCurrent THEN Start(turn, page)
     ELSE /\ page' = [page EXCEPT !.sending = FALSE]
          /\ turn' = NoTurn
          /\ UNCHANGED saves
  /\ UNCHANGED <<loads, server, run, count>>
-----------------------------------------------------------------------------
(* persistSession: the saves of one epoch run one after the other. *)

SaveIsCurrent(o) == o.epoch = page.epoch /\ o.wsEpoch = page.wsEpoch /\ o.ws = page.ws

Turn(i) == \A j \in 1 .. i - 1 : saves[j].epoch # saves[i].epoch
Drop(i) == SubSeq(saves, 1, i - 1) \o SubSeq(saves, i + 1, Len(saves))

(* The send that waits for a save goes on, or fails with it. *)
Resume(o, ok) ==
  IF o.by # "turn" THEN turn
  ELSE [turn EXCEPT !.pc = IF ok THEN "saved" ELSE "caught", !.failed = ~ ok]

(* A save that is due is skipped when the page has moved on ... *)
SaveSkipped(i) ==
  /\ saves[i].pc = "queued" /\ Turn(i) /\ ~ SaveIsCurrent(saves[i])
  /\ saves' = Drop(i) /\ turn' = Resume(saves[i], TRUE)
  /\ UNCHANGED <<page, loads, server, run, count>>

(* ... and is otherwise posted with the session the page is bound to. *)
SavePosted(i) ==
  /\ saves[i].pc = "queued" /\ Turn(i) /\ SaveIsCurrent(saves[i])
  /\ saves' = [saves EXCEPT ![i].pc = "sent", ![i].id = page.sid, ![i].rev = page.rev]
  /\ UNCHANGED <<page, turn, loads, server, run, count>>

(* The server: a revision that moved on is a conflict, and so is a run. *)
ServerSaves(i) ==
  /\ saves[i].pc = "sent"
  /\ LET o == saves[i] IN
     \/ /\ o.id = None
        /\ \E s \in Fresh : /\ server[s].rev = 0
                            /\ server' = [server EXCEPT ![s] = [rev |-> 1, text |-> o.text, conv |-> o.conv]]
                            /\ saves' = [saves EXCEPT ![i].pc = "stored", ![i].id = s, ![i].rev = 1]
     \/ /\ o.id # None /\ o.rev = server[o.id].rev /\ run.on # o.id
        /\ server' = [server EXCEPT ![o.id].rev = @ + 1, ![o.id].text = o.text]
        /\ saves' = [saves EXCEPT ![i].pc = "stored", ![i].rev = @ + 1]
     \/ /\ o.id # None /\ (o.rev # server[o.id].rev \/ run.on = o.id)
        /\ saves' = [saves EXCEPT ![i].pc = "refused"]
        /\ UNCHANGED server
  /\ UNCHANGED <<page, turn, loads, run, count>>

SaveReturns(i) ==
  /\ \/ saves[i].pc = "stored" /\ UNCHANGED count
     \/ saves[i].pc = "refused" /\ UNCHANGED count
     \/ saves[i].pc \in {"sent", "stored"} /\ Fails
  /\ LET o == saves[i]  ok == o.pc = "stored" /\ count' = count
     IN  /\ saves' = Drop(i)
         /\ turn' = Resume(o, ok \/ o.epoch # page.epoch)
         /\ page' = IF ok /\ SaveIsCurrent(o) THEN [page EXCEPT !.sid = o.id, !.rev = o.rev] ELSE page
  /\ UNCHANGED <<loads, server, run>>

(* changeWorkstream, changePlan, changeStage: the transcript in view is *)
(* saved with the new binding; the controls are off while streaming.    *)
ChangeBinding ==
  /\ ~ page.streaming /\ page.shown # {} /\ Tick("binds", MaxBinds)
  /\ saves' = Append(saves, Save(page.shown, page.conv, "binding"))
  /\ UNCHANGED <<page, turn, loads, server, run>>
-----------------------------------------------------------------------------
(* The request and its stream. *)

(* A save that was skipped leaves whatever the page is bound to by now. *)
PostRun ==
  /\ turn.pc = "saved"
  /\ turn' = IF TurnIsCurrent /\ page.sid # None /\ ~ turn.aborted
             THEN [turn EXCEPT !.pc = "posting", !.sid = page.sid, !.rev = page.rev] ELSE [turn EXCEPT !.pc = "caught", !.failed = TRUE]
  /\ UNCHANGED <<page, saves, loads, server, run, count>>

(* The server takes the session of the request; the session event. *)
RunStarts ==
  /\ turn.pc = "posting" /\ ~ turn.aborted /\ run.on = None
  /\ turn.rev = server[turn.sid].rev
  /\ run' = [number |-> run.number + 1, on |-> turn.sid, ask |-> None]
  /\ turn' = [turn EXCEPT !.pc = "streaming"]
  /\ page' = [page EXCEPT !.runtime = run.number + 1, !.sid = turn.sid, !.rev = turn.rev]
  /\ UNCHANGED <<saves, loads, server, count>>

RunRefused ==
  /\ turn.pc = "posting"
  /\ turn.aborted \/ run.on # None \/ turn.rev # server[turn.sid].rev
  /\ turn' = [turn EXCEPT !.pc = "caught", !.failed = TRUE]
  /\ UNCHANGED <<page, saves, loads, server, run, count>>

Receives == turn.pc = "streaming" /\ ~ turn.aborted /\ TurnIsCurrent

(* text, thinking, tool_input, tool_result *)
Output ==
  /\ Receives /\ turn.conv \notin page.shown
  /\ page' = [page EXCEPT !.shown = @ \cup {turn.conv}]
  /\ UNCHANGED <<turn, saves, loads, server, run, count>>

(* approval_required, bound to the run in progress. *)
ApprovalRequired ==
  /\ Receives /\ run.on # None /\ run.ask = None
  /\ run' = [run EXCEPT !.ask = "pending"]
  /\ IF page.runtime = run.number
     THEN page' = [page EXCEPT !.approval = [state |-> "pending", run |-> run.number]] /\ turn' = turn
     ELSE page' = page /\ turn' = Abort
  /\ UNCHANGED <<saves, loads, server, count>>

(* durable_session: the run has committed its transcript. *)
Committed ==
  /\ Receives /\ run.on # None /\ run.ask # "pending"
  /\ server' = [server EXCEPT ![run.on].rev = @ + 1]
  /\ page' = [page EXCEPT !.sid = run.on, !.rev = server[run.on].rev + 1]
  /\ run' = [run EXCEPT !.on = None]
  /\ UNCHANGED <<turn, saves, loads, count>>

Done ==
  /\ Receives /\ run.on = None
  /\ turn' = [turn EXCEPT !.pc = "finally", !.ended = TRUE]
  /\ UNCHANGED <<page, saves, loads, server, run, count>>

(* The stream is aborted, no longer current, or cut. *)
StreamStops ==
  /\ turn.pc = "streaming"
  /\ \/ turn.aborted /\ UNCHANGED count
     \/ ~ TurnIsCurrent /\ UNCHANGED count
     \/ Receives /\ Fails
  /\ turn' = [turn EXCEPT !.pc = "caught", !.failed = TRUE]
  /\ UNCHANGED <<page, saves, loads, server, run>>

(* The catch block appends its note to the last message in view. *)
Caught ==
  /\ turn.pc = "caught"
  /\ turn' = [turn EXCEPT !.pc = "finally"]
  /\ page' = IF TurnIsCurrent /\ page.shown # {} THEN [page EXCEPT !.shown = @ \cup {turn.conv}] ELSE page
  /\ UNCHANGED <<saves, loads, server, run, count>>

Finally ==
  /\ turn.pc = "finally"
  /\ page' = [page EXCEPT !.runtime = 0, !.streaming = FALSE, !.sending = FALSE,
                          !.approval = IF ~ turn.failed /\ page.approval.state \in {"resolved", "expired"} THEN @ ELSE NoApproval]
  /\ turn' = NoTurn
  /\ UNCHANGED <<saves, loads, server, run, count>>

(* The server notices that the request is gone, or the run ends by itself. *)
RunEnds ==
  /\ run.on # None /\ ~ Receives
  /\ run' = [run EXCEPT !.on = None]
  /\ UNCHANGED <<page, turn, saves, loads, server, count>>
-----------------------------------------------------------------------------
(* decideApproval *)

Submittable ==
  /\ page.approval.state \in {"pending", "error"}
  /\ page.runtime = page.approval.run
  /\ ~ turn.aborted

Decide ==
  /\ Submittable
  /\ page' = [page EXCEPT !.approval.state = "submitting"]
  /\ UNCHANGED <<turn, saves, loads, server, run, count>>

(* The run changed, or was stopped: nothing is sent. *)
DecideRefused ==
  /\ page.approval.state \in {"pending", "error"} /\ ~ Submittable
  /\ page' = IF page.runtime = page.approval.run THEN page ELSE [page EXCEPT !.approval.state = "error"]
  /\ turn' = IF page.runtime = page.approval.run THEN turn ELSE Abort
  /\ UNCHANGED <<saves, loads, server, run, count>>

ServerDecides ==
  /\ page.approval.state = "submitting" /\ run.number = page.approval.run /\ run.ask = "pending"
  /\ run' = [run EXCEPT !.ask = "decided"]
  /\ UNCHANGED <<page, turn, saves, loads, server, count>>

(* The answer: recorded, not actionable any more (404, 409), or lost. *)
DecideReturns ==
  /\ page.approval.state = "submitting"
  /\ \/ /\ run.number = page.approval.run /\ run.ask = "decided"
        /\ page' = [page EXCEPT !.approval.state = "resolved"] /\ UNCHANGED count
     \/ /\ ~ (run.number = page.approval.run /\ run.ask \in {"pending", "decided"})
        /\ page' = [page EXCEPT !.approval.state = "expired"] /\ UNCHANGED count
     \/ /\ Fails /\ ~ turn.aborted
        /\ page' = [page EXCEPT !.approval.state = "error"]
  /\ UNCHANGED <<turn, saves, loads, server, run>>

(* The timer of the page and the one of the server. *)
ApprovalExpires ==
  /\ run.ask = "pending"
  /\ run' = [run EXCEPT !.ask = "expired"]
  /\ page' = IF page.approval.run = run.number /\ page.approval.state # "resolved"
             THEN [page EXCEPT !.approval.state = "expired"] ELSE page
  /\ UNCHANGED <<turn, saves, loads, server, count>>
-----------------------------------------------------------------------------
UserStep ==
  \/ Send \/ NewChat \/ Stop \/ ChangeBinding \/ Decide \/ DecideRefused
  \/ \E s \in Ids : LoadSession(s)
  \/ \E w \in Workspaces : SwitchWorkspace(w)

(* Continuations of a promise run before the next event of the browser. *)
Due == turn.pc \in {"saved", "caught", "finally"} \/ \E i \in DOMAIN saves : saves[i].pc = "queued" /\ Turn(i)
Microtask ==
  \/ PostRun \/ Caught \/ Finally
  \/ \E i \in DOMAIN saves : SaveSkipped(i) \/ SavePosted(i)

(* What the browser and the server do by themselves. *)
Answer ==
  \/ WorkspaceReady \/ PlanRefuses \/ PlanAgrees
  \/ RunStarts \/ RunRefused \/ Committed \/ Done \/ StreamStops \/ RunEnds \/ ApprovalExpires
  \/ \E i \in DOMAIN saves : ServerSaves(i) \/ SaveReturns(i)

ChatNext ==
  \/ Microtask
  \/ /\ ~ Due
     /\ \/ UserStep \/ Answer \/ Output \/ ApprovalRequired \/ ServerDecides \/ DecideReturns
        \/ \E l \in loads : LoadReturns(l)

ChatSpec == ChatInit /\ [][ChatNext]_chatVars

-----------------------------------------------------------------------------
(* The page, its turn, and the requests that are out. *)
ChatTypeOK ==
  /\ page.sid \in Ids \cup {None} /\ page.rev \in Nat /\ page.shown \subseteq Conversations
  /\ page.ws \in Workspaces /\ page.conv \in Conversations
  /\ page.approval.state \in {None, "pending", "submitting", "resolved", "expired", "error"}
  /\ turn.pc \in {"idle", "waiting", "planning", "saving", "saved", "posting",
                  "streaming", "caught", "finally"}
  /\ turn.pc # "idle" => page.sending
  /\ (page.sid = None) = (page.rev = 0)

(* "late responses from the old chat are then ignored instead of rebinding  *)
(* the new chat to a stale session ID": the session the page saves into is  *)
(* the one of the conversation in view.  Advancing the epoch calls off what *)
(* was queued before it, but not a send that still waits for the workspace  *)
(* or the Plan, nor what begins in the new epoch while getSession is out:   *)
(* these bind the page they return to (crossed).                            *)
BoundToShown == (page.sid # None /\ ~ page.crossed) => server[page.sid].conv = page.conv

(* The revision the page knows is one the server gave out for that session: *)
(* a save of the page never skips a revision it has not seen.               *)
RevisionIsReal == page.sid # None => page.rev \in 1 .. server[page.sid].rev

(* A run that was stopped, or whose conversation was left, gets no decision *)
(* from this page.                                                          *)
NoDecisionAfterStop ==
  (page.approval.state # "submitting" /\ page'.approval.state = "submitting") => turn.pc = "streaming" /\ ~ turn.aborted

------------------------------------------------------------------------------

(***************************************************************************)
(* A Team run seen from both ends: the Team page of the web client         *)
(* (web/src/pages/Team.tsx), POST /api/team (handleTeamExecute and the     *)
(* receipt and timeline it writes, server/server.go) and the approval hub  *)
(* with its endpoints, which puts an index of open requests in front of    *)
(* the broker.  How a wave is scheduled is TeamWaves; here a wave is a set *)
(* of workers, each of which asks for at most one approval, named by its   *)
(* task.                                                                   *)
(***************************************************************************)
CONSTANTS
  Tasks,
  Waves,         \* sequence of sets of tasks: the plan's dependency waves
  MaxRuns,       \* runs one page starts
  MaxEdits,      \* edits of the stored plan
  Losses         \* connections and answers that may be lost

VARIABLES
  plan,          \* stored plan of the workstream: [rev, approved]
  edits,
  srv,           \* [phase, wave, bound, rev, error, gone]: the handler's run
  worker,        \* task -> pending | running | waiting | completed | failed
  broker,        \* task -> none | pending | allowed | denied | expired | canceled
  index,         \* approvalHub.pending
  stream,        \* frames on the connection
  teamPage,          \* [running, runs, status, cards, error, failed]
  answer,        \* task -> decision request in flight: none | allow | deny | decided | recorded | gone
  claims,        \* approvals of which the page says that nothing was allowed
  timeline,      \* events of the workstream
  ended,         \* receipt of the run that ended: none | completed | failed
  losses

teamVars == <<plan, edits, srv, worker, broker, index, stream, teamPage, answer, claims, timeline, ended, losses>>

TeamNoRun == [phase |-> "idle", wave |-> 0, bound |-> FALSE, rev |-> 0, ran |-> 0, error |-> FALSE, gone |-> FALSE]

TeamInit ==
  /\ plan = [rev |-> 1, approved |-> 1] /\ edits = 0
  /\ srv = TeamNoRun
  /\ worker = [t \in Tasks |-> "pending"] /\ broker = [t \in Tasks |-> "none"] /\ index = {}
  /\ stream = <<>>
  /\ teamPage = [running |-> FALSE, runs |-> 0, status |-> [t \in Tasks |-> "none"], cards |-> {}, error |-> FALSE]
  /\ answer = [t \in Tasks |-> "none"] /\ claims = {} /\ timeline = <<>> /\ ended = "none" /\ losses = 0

------------------------------------------------------------------------------
runTeam(statuses) == statuses

StartRun(bound) ==
  /\ ~teamPage.running /\ teamPage.runs < MaxRuns /\ srv.phase = "idle" /\ \A t \in Tasks : answer[t] = "none"
  /\ teamPage' = [running |-> TRUE, runs |-> teamPage.runs + 1, status |-> runTeam([t \in Tasks |-> "pending"]), cards |-> {}, error |-> FALSE]
  /\ srv' = [TeamNoRun EXCEPT !.phase = "admitting", !.bound = bound]
  /\ worker' = [t \in Tasks |-> "pending"] /\ broker' = [t \in Tasks |-> "none"]
  /\ stream' = <<>> /\ claims' = {} /\ ended' = "none" /\ timeline' = <<>>
  /\ UNCHANGED <<plan, edits, index, answer, losses>>

RunOver(p, error) ==
  [p EXCEPT !.running = FALSE, !.cards = {}, !.error = error,
     !.status = [t \in Tasks |-> IF (error \/ \E u \in Tasks : p.status[u] = "failed") /\ p.status[t] \in {"pending", "running"}
                                 THEN "not-run" ELSE p.status[t]]]

ReadFrame ==
  /\ teamPage.running /\ stream # <<>>
  /\ LET f == Head(stream)
     IN teamPage' = CASE f.kind = "worker" -> [teamPage EXCEPT !.status[f.task] = f.result]
                  [] f.kind = "wave" -> [teamPage EXCEPT !.status = [t \in Tasks |->
                         IF t \in f.tasks /\ teamPage.status[t] \notin {"completed", "failed"} THEN "running" ELSE teamPage.status[t]]]
                  [] f.kind = "approval" -> [teamPage EXCEPT !.cards = {c \in @ : c.task # f.task} \cup {[task |-> f.task, state |-> "pending"]}]
                  [] f.kind = "error" -> [teamPage EXCEPT !.error = TRUE]
                  [] f.kind \in {"end", "cut"} -> RunOver(teamPage, teamPage.error \/ f.kind = "cut")
  /\ stream' = Tail(stream)
  /\ UNCHANGED <<plan, edits, srv, worker, broker, index, answer, claims, timeline, ended, losses>>

(* handleResolveApproval: the card turns to resolving and a request is sent; *)
(* the error text of an earlier attempt goes.                               *)
TeamDecide(t, decision) ==
  /\ [task |-> t, state |-> "pending"] \in teamPage.cards /\ answer[t] = "none"
  /\ teamPage' = [teamPage EXCEPT !.cards = (@ \ {[task |-> t, state |-> "pending"]}) \cup {[task |-> t, state |-> "resolving"]}]
  /\ answer' = [answer EXCEPT ![t] = decision] /\ claims' = claims \ {t}
  /\ UNCHANGED <<plan, edits, srv, worker, broker, index, stream, timeline, ended, losses>>

Dropped(t) == {c \in teamPage.cards : c.task # t}

(* The answer of the server arrives, or the request or its answer is lost:  *)
(* then the card may be retried.                                            *)
AnswerArrives(t) ==
  /\ answer[t] \in {"recorded", "gone"}
  /\ answer' = [answer EXCEPT ![t] = "none"]
  /\ teamPage' = [teamPage EXCEPT !.cards = Dropped(t)]
  /\ claims' = IF answer[t] = "gone" THEN claims \cup {t} ELSE claims
  /\ UNCHANGED <<plan, edits, srv, worker, broker, index, stream, timeline, ended, losses>>

AnswerLost(t) ==
  /\ answer[t] \notin {"none", "decided"} /\ losses < Losses /\ losses' = losses + 1
  /\ answer' = [answer EXCEPT ![t] = "none"]
  /\ teamPage' = IF [task |-> t, state |-> "resolving"] \in teamPage.cards
             THEN [teamPage EXCEPT !.cards = Dropped(t) \cup {[task |-> t, state |-> "pending"]}] ELSE teamPage
  /\ claims' = claims \cup {t}
  /\ UNCHANGED <<plan, edits, srv, worker, broker, index, stream, timeline, ended>>

(* The timer of the nearest expiresAt drops the card, whatever its state;   *)
(* by then the broker has settled the request one way or another.           *)
CardExpires(t) ==
  /\ \E c \in teamPage.cards : c.task = t
  /\ broker[t] # "pending" /\ broker[t] # "none"
  /\ teamPage' = [teamPage EXCEPT !.cards = Dropped(t)] /\ claims' = claims \cup {t}
  /\ UNCHANGED <<plan, edits, srv, worker, broker, index, stream, answer, timeline, ended, losses>>

------------------------------------------------------------------------------
(* The stored plan is revised or approved by somebody else.                 *)
EditPlan ==
  /\ edits < MaxEdits /\ edits' = edits + 1
  /\ plan' \in {[plan EXCEPT !.rev = @ + 1], [plan EXCEPT !.approved = plan.rev]} /\ plan' # plan
  /\ UNCHANGED <<srv, worker, broker, index, stream, teamPage, answer, claims, timeline, ended, losses>>

(* handleTeamExecute: validate, load the stored definition, write the start *)
(* into the timeline.                                                       *)
Refuse == /\ srv' = [srv EXCEPT !.phase = "idle"] /\ stream' = Append(stream, [kind |-> "cut"])

AdmitRun ==
  /\ srv.phase = "admitting"
  /\ IF srv.bound /\ plan.approved # plan.rev THEN Refuse /\ UNCHANGED timeline
     ELSE /\ srv' = [srv EXCEPT !.phase = "beginning", !.rev = plan.rev]
          /\ timeline' = IF srv.bound THEN Append(timeline, "started") ELSE timeline
          /\ UNCHANGED stream
  /\ UNCHANGED <<plan, edits, worker, broker, index, teamPage, answer, claims, ended, losses>>

BeginPlanStage == IF plan.rev = srv.rev THEN srv.rev ELSE 0

BeginRun ==
  /\ srv.phase = "beginning"
  /\ IF srv.bound /\ BeginPlanStage = 0 THEN Refuse
     ELSE /\ srv' = [srv EXCEPT !.phase = "wave", !.wave = 1, !.ran = IF srv.bound THEN plan.rev ELSE 0]
          /\ UNCHANGED stream
  /\ UNCHANGED <<plan, edits, worker, broker, index, teamPage, answer, claims, timeline, ended, losses>>

Current == Waves[srv.wave]
TeamSend(frames) == stream' = IF srv.gone THEN stream ELSE stream \o frames

BeginWave ==
  /\ srv.phase = "wave" /\ ~srv.gone
  /\ worker' = [t \in Tasks |-> IF t \in Current THEN "running" ELSE worker[t]]
  /\ srv' = [srv EXCEPT !.phase = "running"]
  /\ TeamSend(<<[kind |-> "wave", tasks |-> Current]>>)
  /\ UNCHANGED <<plan, edits, broker, index, teamPage, answer, claims, timeline, ended, losses>>

(* approvalHub.Open: the broker and the index, under the hub's lock.        *)
Open(t) ==
  /\ srv.phase = "running" /\ worker[t] = "running" /\ broker[t] = "none" /\ ~srv.gone
  /\ broker' = [broker EXCEPT ![t] = "pending"] /\ index' = index \cup {t}
  /\ worker' = [worker EXCEPT ![t] = "waiting"]
  /\ TeamSend(<<[kind |-> "approval", task |-> t]>>)
  /\ UNCHANGED <<plan, edits, srv, teamPage, answer, claims, timeline, ended, losses>>

(* A canceled context resolves the request a worker waits for.              *)
ContextCanceled(t) ==
  /\ worker[t] = "waiting" /\ srv.gone /\ broker[t] = "pending"
  /\ broker' = [broker EXCEPT ![t] = "canceled"]
  /\ UNCHANGED <<plan, edits, srv, worker, index, stream, teamPage, answer, claims, timeline, ended, losses>>

Await(t) ==
  /\ worker[t] = "waiting" /\ broker[t] # "pending"
  /\ index' = index \ {t} /\ worker' = [worker EXCEPT ![t] = "running"]
  /\ UNCHANGED <<plan, edits, srv, broker, stream, teamPage, answer, claims, timeline, ended, losses>>

Expire(t) ==
  /\ broker[t] = "pending" /\ broker' = [broker EXCEPT ![t] = "expired"]
  /\ UNCHANGED <<plan, edits, srv, worker, index, stream, teamPage, answer, claims, timeline, ended, losses>>

(* handleApprovalResolve: the broker decides; only then the index forgets   *)
(* the request and the answer is written.                                   *)
handleApprovalResolve(t) ==
  /\ answer[t] \in {"allow", "deny"}
  /\ IF broker[t] = "pending"
     THEN /\ broker' = [broker EXCEPT ![t] = IF answer[t] = "allow" THEN "allowed" ELSE "denied"]
          /\ answer' = [answer EXCEPT ![t] = "decided"]
     ELSE answer' = [answer EXCEPT ![t] = "gone"] /\ UNCHANGED broker
  /\ UNCHANGED <<plan, edits, srv, worker, index, stream, teamPage, claims, timeline, ended, losses>>

remove(t) ==
  /\ answer[t] = "decided"
  /\ index' = index \ {t} /\ answer' = [answer EXCEPT ![t] = "recorded"]
  /\ UNCHANGED <<plan, edits, srv, worker, broker, stream, teamPage, claims, timeline, ended, losses>>

(* list and get drop what has expired.                                      *)
pruneExpired ==
  /\ \E t \in index : broker[t] = "expired"
  /\ index' = {t \in index : broker[t] # "expired"}
  /\ UNCHANGED <<plan, edits, srv, worker, broker, stream, teamPage, answer, claims, timeline, ended, losses>>

WorkerEnds(t) ==
  /\ srv.phase = "running" /\ worker[t] = "running"
  /\ \E result \in (IF srv.gone THEN {"failed"} ELSE {"completed", "failed"}) :
       /\ worker' = [worker EXCEPT ![t] = result]
       /\ TeamSend(<<[kind |-> "worker", task |-> t, result |-> result]>>)
  /\ UNCHANGED <<plan, edits, srv, broker, index, teamPage, answer, claims, timeline, ended, losses>>

(* The wave has joined: the next wave, verification, or the failure path.   *)
WaveJoined ==
  /\ \/ srv.phase = "running" /\ \A t \in Current : worker[t] \in {"completed", "failed"}
     \/ srv.phase = "wave" /\ srv.gone
  /\ LET bad == srv.gone \/ \E t \in Tasks : worker[t] = "failed"
     IN /\ srv' = [srv EXCEPT !.phase = IF ~bad /\ srv.wave < Len(Waves) THEN "wave" ELSE "closing",
                              !.wave = IF ~bad /\ srv.wave < Len(Waves) THEN @ + 1 ELSE @, !.error = bad]
        /\ TeamSend(IF bad THEN <<[kind |-> "error"]>> ELSE <<>>)
  /\ UNCHANGED <<plan, edits, worker, broker, index, teamPage, answer, claims, timeline, ended, losses>>

(* Verify, emitServerTeamReceipt, finishServerPlanStageFromTeam and         *)
(* recordServerTeamRun: a failed verification fails the run's receipt.      *)
RecordRun ==
  /\ srv.phase = "closing"
  /\ \E verified \in BOOLEAN :
       LET status == IF srv.error \/ ~verified THEN "failed" ELSE "completed"
       IN /\ ended' = status
          /\ timeline' = IF srv.bound THEN Append(timeline, status) ELSE timeline
  /\ srv' = [srv EXCEPT !.phase = "recorded"]
  /\ UNCHANGED <<plan, edits, worker, broker, index, stream, teamPage, answer, claims, losses>>

(* The handler returns: the deferred CancelSession closes the session's     *)
(* requests in the broker and in the index.                                 *)
CancelSession == [t \in Tasks |-> IF broker[t] = "pending" THEN "canceled" ELSE broker[t]]

HandlerReturns ==
  /\ srv.phase = "recorded"
  /\ srv' = [srv EXCEPT !.phase = "idle"]
  /\ broker' = CancelSession /\ index' = {}
  /\ TeamSend(<<[kind |-> "end"]>>)
  /\ UNCHANGED <<plan, edits, worker, teamPage, answer, claims, timeline, ended, losses>>

(* The connection breaks: the page sees an error after what had arrived,    *)
(* the next write of the server fails and cancels the run.                  *)
ConnectionLost ==
  /\ srv.phase \in {"wave", "running", "closing", "recorded"} /\ ~srv.gone
  /\ losses < Losses /\ losses' = losses + 1
  /\ srv' = [srv EXCEPT !.gone = TRUE]
  /\ stream' = Append(stream, [kind |-> "cut"])
  /\ UNCHANGED <<plan, edits, worker, broker, index, teamPage, answer, claims, timeline, ended>>

------------------------------------------------------------------------------
ServerStep == AdmitRun \/ BeginRun \/ BeginWave \/ WaveJoined \/ RecordRun \/ HandlerReturns
TeamNext ==
  \/ \E b \in BOOLEAN : StartRun(b)
  \/ ReadFrame \/ EditPlan \/ ServerStep \/ pruneExpired \/ ConnectionLost
  \/ \E t \in Tasks :
       \/ TeamDecide(t, "allow") \/ TeamDecide(t, "deny") \/ AnswerArrives(t) \/ AnswerLost(t) \/ CardExpires(t)
       \/ Open(t) \/ ContextCanceled(t) \/ Await(t) \/ Expire(t) \/ handleApprovalResolve(t) \/ remove(t) \/ WorkerEnds(t)

TeamSpec == TeamInit /\ [][TeamNext]_teamVars

------------------------------------------------------------------------------
Statuses == {"none", "pending", "running", "completed", "failed", "not-run"}

(* The page's statuses and cards, the broker's states and the phases have   *)
(* their types; only an open run waits for approvals.                       *)
TeamTypeOK ==
  /\ teamPage.status \in [Tasks -> Statuses] /\ teamPage.cards \subseteq [task : Tasks, state : {"pending", "resolving"}]
  /\ broker \in [Tasks -> {"none", "pending", "allowed", "denied", "expired", "canceled"}] /\ index \subseteq Tasks
  /\ srv.phase \in {"idle", "admitting", "beginning", "wave", "running", "closing", "recorded"}
  /\ (\E t \in Tasks : worker[t] = "waiting") => srv.phase = "running"

(* What the page reports of a task is what became of its worker in this     *)
(* run, although frames arrive late and an earlier run used the same ids.   *)
StatusIsTrue ==
  teamPage.running => \A t \in Tasks : teamPage.status[t] \in {"completed", "failed"} => teamPage.status[t] = worker[t]

(* "say so instead of leaving those tasks looking pending forever": when    *)
(* the page's run is over, however it ended, no task looks alive.           *)
NothingLooksAlive ==
  ~teamPage.running => \A t \in Tasks : teamPage.status[t] \in {"none", "completed", "failed", "not-run"}

(* The hub's index and the broker agree: what the index still offers is     *)
(* open, or past its deadline, or its resolver or waiter is about to remove *)
(* it; when the handler has returned nothing of the run can be granted.     *)
HubIndexAgrees ==
  /\ \A t \in index : broker[t] \in {"pending", "expired"} \/ answer[t] = "decided" \/ worker[t] = "waiting"
  /\ srv.phase = "idle" => index = {} /\ \A t \in Tasks : broker[t] # "pending"

(* A plan-bound run executes a revision that was the approved one when its  *)
(* definition was loaded, even if the plan is revised before the stage      *)
(* begins.                                                                  *)
RunsLoadedRevision == srv.bound /\ srv.ran # 0 => srv.ran = srv.rev

=============================================================================
