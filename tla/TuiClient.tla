------------------------------ MODULE TuiClient ------------------------------
(***************************************************************************)
(* The full-screen terminal client (cmd/proxy/tui.go, tui_commands.go).    *)
(*                                                                         *)
(* Bubble Tea runs Update on one goroutine and every command (an HTTP      *)
(* call, the next read of a stream) on a goroutine of its own, whose       *)
(* result comes back as a message in any order: `msgs' and `waits' are the *)
(* commands in flight, `m' is tuiModel.  A turn is named by its run        *)
(* generation, and so are its stream, its context and its runtime id; the  *)
(* server is whatever it may answer.                                       *)
(***************************************************************************)
EXTENDS Naturals, FiniteSets

CONSTANTS MaxTurns,   \* bound: turns the user submits
          Sessions,   \* session ids
          Palette,    \* what the user chooses in the palette while a run is
                      \* active: a subset of {"send", "new", "load"}
          MaxLoads,   \* bound: /load, /sessions and lifecycle commands
          MaxResizes  \* bound: changes of the window size

None  == 0
Turns == 1..MaxTurns
Ids   == Sessions \cup {None}

VARIABLES m,         \* tuiModel; overtaken is history: something was chosen in the
                     \* palette while a run was active
          msgs,      \* results of commands not yet handled by Update
          waits,     \* pending waitForTUIStream commands, by stream
          turn,      \* the stream of each turn, as the transport serves it
          ctx,       \* turns whose context was cancelled
          cancels,   \* history: CancelRun calls, by runtime id
          reported,  \* turns whose stream has said that nothing was committed
          loads, resizes

vars == <<m, msgs, waits, turn, ctx, cancels, reported, loads, resizes>>

RunStates == {"idle", "submitting", "streaming", "approval", "cancelling",
              "completed", "blocked", "failed", "unknown"}
Kinds     == {"completed", "blocked", "failed"}
Messages  ==
  [type : {"bootstrap", "sessions", "closed"}]
  \cup [type : {"prepare"}, gen : Turns, id : Ids]
  \cup [type : {"load"}, required : BOOLEAN, id : Ids]
  \cup [type : {"operation"}, action : {"fork", "delete"}, id : Sessions]
  \cup [type : {"resolve"}, gen : Turns, runtime : Turns, decision : {"allow_once", "deny"}]
  \cup [type : {"cancel"}, gen : Turns, runtime : 0..MaxTurns]

\* Every variable has its type.
TypeOK ==
  /\ m \in [run : RunStates, gen : 0..MaxTurns, runtime : 0..MaxTurns,
            stream : 0..MaxTurns, turnCancel : 0..MaxTurns, done : BOOLEAN,
            durableError : BOOLEAN, cancelRequested : BOOLEAN,
            awaitingReload : BOOLEAN, reloadFailed : BOOLEAN, busy : BOOLEAN,
            current : Ids, shown : Ids, readOnly : BOOLEAN,
            approval : [gen : 0..MaxTurns, runtime : 0..MaxTurns, resolving : BOOLEAN],
            confirm : BOOLEAN, small : BOOLEAN, quitting : BOOLEAN,
            overtaken : BOOLEAN]
  /\ msgs \subseteq Messages
  /\ waits \in [Turns -> 0..2]
  /\ turn \in [Turns -> {"none", "preparing", "opening", "running", "asked",
                         "finished", "closed"}]
  /\ ctx \subseteq Turns /\ reported \subseteq Turns
  /\ cancels \in [Turns -> 0..2]
  /\ loads \in 0..MaxLoads /\ resizes \in 0..MaxResizes

NoApproval == [gen |-> None, runtime |-> None, resolving |-> FALSE]
Approving  == m.approval # NoApproval

\* newTUIModel: the bootstrap command is in flight.
Init ==
  /\ m = [run |-> "idle", gen |-> 0, runtime |-> None, stream |-> None,
          turnCancel |-> None, done |-> FALSE, durableError |-> FALSE,
          cancelRequested |-> FALSE, awaitingReload |-> FALSE, reloadFailed |-> FALSE,
          busy |-> TRUE, current |-> None, shown |-> None, readOnly |-> FALSE,
          approval |-> NoApproval, confirm |-> FALSE, small |-> FALSE, quitting |-> FALSE,
          overtaken |-> FALSE]
  /\ msgs = {[type |-> "bootstrap"]}
  /\ waits = [g \in Turns |-> 0]
  /\ turn = [g \in Turns |-> "none"]
  /\ ctx = {} /\ reported = {}
  /\ cancels = [g \in Turns |-> 0]
  /\ loads = 0 /\ resizes = 0

history == <<cancels, reported>>
bounds  == <<loads, resizes>>

-----------------------------------------------------------------------------
(* Helpers of tuiModel.                                                    *)

Active(mm) ==
  mm.stream # None \/ mm.run \in {"submitting", "streaming", "approval", "cancelling"}

\* sessionWritable
Writable(mm) ==
  ~mm.awaitingReload /\ ~mm.reloadFailed /\ (mm.current = None \/ ~mm.readOnly)

\* stopActiveTurn; the context it cancels is the caller's part.
Stopped(mm) == [mm EXCEPT !.turnCancel = None, !.stream = None, !.approval = NoApproval]
StopsContext(mm) == ctx \cup ({mm.turnCancel} \ {None})

CancelRun(mm, rest) ==
  IF mm.cancelRequested
  THEN m' = mm /\ msgs' = rest /\ UNCHANGED <<ctx, cancels>>
  ELSE /\ m' = [mm EXCEPT !.cancelRequested = TRUE,
                          !.turnCancel = IF mm.runtime = None THEN None ELSE @]
       /\ ctx' = IF mm.runtime = None THEN StopsContext(mm) ELSE ctx
       /\ msgs' = rest \cup {[type |-> "cancel", gen |-> mm.gen, runtime |-> mm.runtime]}
       /\ cancels' = IF mm.runtime = None THEN cancels
                     ELSE [cancels EXCEPT ![mm.runtime] = IF @ = 2 THEN 2 ELSE @ + 1]

Cancelling(mm) == [mm EXCEPT !.run = "cancelling"]

Loaded(mm, id, ro) ==
  [mm EXCEPT !.current = id, !.readOnly = ro, !.shown = id,
             !.awaitingReload = FALSE, !.reloadFailed = FALSE]
Synced(mm, id, ro, blocks) ==
  [mm EXCEPT !.current = id, !.readOnly = ro, !.awaitingReload = FALSE,
             !.reloadFailed = FALSE, !.run = IF blocks THEN "blocked" ELSE @]
NewSession(mm) ==
  [mm EXCEPT !.current = None, !.shown = None, !.readOnly = FALSE, !.run = "idle",
             !.awaitingReload = FALSE, !.reloadFailed = FALSE]

-----------------------------------------------------------------------------
(* Keys.                                                                   *)

\* The overlays take every key; while a reload or an operation is in flight
\* only quit and cancel are handled.
Free == ~m.quitting /\ ~Approving /\ ~m.confirm /\ ~m.awaitingReload /\ ~m.busy

\* Enter submits when no run is active; Enter in the palette submits always.
Entered(choice) == Free /\ (~Active(m) \/ choice \in Palette)
Chosen == [m EXCEPT !.overtaken = @ \/ Active(m)]

\* submitInput: a turn of a new generation.
SubmitInput ==
  /\ Entered("send") /\ Writable(m) /\ m.gen < MaxTurns
  /\ LET g == m.gen + 1 IN
     /\ m' = [Chosen EXCEPT !.gen = g, !.run = "submitting", !.done = FALSE,
                       !.durableError = FALSE, !.cancelRequested = FALSE,
                       !.runtime = None, !.turnCancel = g]
     /\ turn' = [turn EXCEPT ![g] = "preparing"]
     /\ msgs' = msgs \cup {[type |-> "prepare", gen |-> g, id |-> m.current]}
  /\ UNCHANGED <<waits, ctx, history, bounds>>

CommandNew ==
  /\ Entered("new")
  /\ m' = NewSession(Chosen)
  /\ UNCHANGED <<msgs, waits, turn, ctx, history, bounds>>

\* /load, /sessions and the lifecycle commands (fork, and delete after its
\* confirmation) keep the client busy until their result arrives.
CommandLoad ==
  /\ Entered("load") /\ loads < MaxLoads
  /\ loads' = loads + 1
  /\ m' = [Chosen EXCEPT !.busy = TRUE]
  /\ \/ \E id \in Sessions : msgs' = msgs \cup {[type |-> "load", required |-> FALSE, id |-> id]}
     \/ msgs' = msgs \cup {[type |-> "sessions"]}
     \/ /\ m.current # None
        /\ msgs' = msgs \cup {[type |-> "operation", action |-> "fork", id |-> m.current]}
  /\ UNCHANGED <<waits, turn, ctx, history, resizes>>

CommandDelete ==
  /\ Entered("load") /\ m.current # None /\ loads < MaxLoads
  /\ m' = [Chosen EXCEPT !.confirm = TRUE]
  /\ UNCHANGED <<msgs, waits, turn, ctx, history, bounds>>

\* The confirmation: y executes, everything else cancels; nothing can be
\* confirmed while the window is too small to show it.
KeyConfirm ==
  /\ m.confirm /\ ~m.quitting /\ ~Approving
  /\ \/ /\ ~m.small /\ m.current # None /\ loads < MaxLoads
        /\ loads' = loads + 1
        /\ m' = [m EXCEPT !.confirm = FALSE, !.busy = TRUE]
        /\ msgs' = msgs \cup {[type |-> "operation", action |-> "delete", id |-> m.current]}
     \/ m' = [m EXCEPT !.confirm = FALSE] /\ UNCHANGED <<msgs, loads>>
  /\ UNCHANGED <<waits, turn, ctx, history, resizes>>

\* a, and d/esc/enter, in the permission overlay
ResolveApproval(decision) ==
  /\ Approving /\ ~m.quitting /\ ~m.approval.resolving
  /\ decision = "allow_once" => ~m.small
  /\ m' = [m EXCEPT !.approval.resolving = TRUE]
  /\ msgs' = msgs \cup {[type |-> "resolve", gen |-> m.approval.gen,
                         runtime |-> m.approval.runtime, decision |-> decision]}
  /\ UNCHANGED <<waits, turn, ctx, history, bounds>>

KeyCancelApproval ==
  /\ Approving /\ ~m.quitting
  /\ \E q \in {FALSE, m.small} :
       CancelRun(Cancelling([m EXCEPT !.approval.resolving = TRUE, !.quitting = q]), msgs)
  /\ UNCHANGED <<waits, turn, reported, bounds>>

\* esc, ctrl+c and /cancel while a run is active
KeyCancel ==
  /\ ~m.quitting /\ ~Approving /\ ~m.confirm
  /\ Active(m)
  /\ CancelRun(Cancelling(m), msgs)
  /\ UNCHANGED <<waits, turn, reported, bounds>>

\* ctrl+q, and ctrl+c when idle: while a command is in flight, or a confirmation
\* hidden by a small window, the turn is not stopped.  The program ends, and with it what it was
\* waiting for.
KeyQuit ==
  /\ ~m.quitting /\ ~Approving
  /\ m.confirm => m.small
  /\ IF m.awaitingReload \/ m.busy \/ m.confirm
     THEN m' = [m EXCEPT !.quitting = TRUE, !.confirm = FALSE] /\ UNCHANGED ctx
     ELSE m' = [Stopped(m) EXCEPT !.quitting = TRUE] /\ ctx' = StopsContext(m)
  /\ msgs' = {} /\ waits' = [g \in Turns |-> 0]
  /\ UNCHANGED <<turn, history, bounds>>

\* tea.WindowSizeMsg, with an overlay open
Resize ==
  /\ Approving \/ m.confirm
  /\ resizes < MaxResizes /\ resizes' = resizes + 1
  /\ m' = [m EXCEPT !.small = ~@]
  /\ UNCHANGED <<msgs, waits, turn, ctx, history, loads>>

\* tuiTickMsg after the deadline of the permission request
TickExpires ==
  /\ Approving /\ ~m.quitting /\ ~m.approval.resolving
  /\ CancelRun(Cancelling([m EXCEPT !.approval = NoApproval]), msgs)
  /\ UNCHANGED <<waits, turn, reported, bounds>>

-----------------------------------------------------------------------------
(* Results of commands.                                                    *)

Take(msg) == ~m.quitting /\ msg \in msgs

\* bootstrapCmd: the session named on the command line, or a fork of it; None
\* when there is none or a call fails.
BootstrapSessions == Ids

\* tuiBootstrapMsg
BootstrapDone ==
  /\ Take([type |-> "bootstrap"])
  /\ msgs' = msgs \ {[type |-> "bootstrap"]}
  /\ \E id \in BootstrapSessions, ro \in BOOLEAN :
       LET idle == [m EXCEPT !.busy = FALSE] IN
       m' = IF id = None THEN idle ELSE Loaded(idle, id, ro)
  /\ UNCHANGED <<waits, turn, ctx, history, bounds>>

IsCurrent(msg) == msg.gen = m.gen /\ ~m.cancelRequested /\ m.run = "submitting"

\* saveDurableChatUserTurn: the session of the turn, created when there is none
SavedTo(msg) == IF msg.id = None THEN Sessions ELSE {msg.id}

TurnPrepared(msg) ==
  /\ Take(msg) /\ msg.type = "prepare"
  /\ msgs' = msgs \ {msg}
  /\ \/ /\ ~IsCurrent(msg)
        /\ ctx' = ctx \cup {msg.gen}
        /\ turn' = [turn EXCEPT ![msg.gen] = "closed"]
        /\ UNCHANGED <<m, waits>>
     \/ /\ IsCurrent(msg)                     \* the save failed
        /\ \E conflict \in BOOLEAN :
             m' = [Stopped(m) EXCEPT !.run = "failed",
                                     !.reloadFailed = @ \/ conflict]
        /\ ctx' = ctx \cup {msg.gen}
        /\ turn' = [turn EXCEPT ![msg.gen] = "closed"]
        /\ UNCHANGED waits
     \/ /\ IsCurrent(msg)
        /\ \E id \in SavedTo(msg) :
             m' = [m EXCEPT !.current = id, !.readOnly = FALSE, !.shown = id,
                            !.stream = msg.gen, !.turnCancel = msg.gen,
                            !.run = "streaming"]
        /\ turn' = [turn EXCEPT ![msg.gen] = "opening"]
        /\ waits' = [waits EXCEPT ![msg.gen] = @ + 1]
        /\ UNCHANGED ctx
  /\ UNCHANGED <<history, bounds>>

\* tuiSessionLoadedMsg
SessionLoaded(msg) ==
  /\ Take(msg) /\ msg.type = "load"
  /\ msgs' = msgs \ {msg}
  /\ LET idle == [m EXCEPT !.busy = FALSE,
                           !.awaitingReload = IF msg.required THEN FALSE ELSE @] IN
     \/ m' = [idle EXCEPT !.reloadFailed = @ \/ msg.required]   \* the load failed
     \/ \E ro, blocks \in BOOLEAN :
          m' = IF msg.required THEN Synced(idle, msg.id, ro, blocks)
               ELSE Loaded(idle, msg.id, ro)
  /\ UNCHANGED <<waits, turn, ctx, history, bounds>>

\* sessionOperationCmd: the session a fork or a rename returns, None for delete
OperationResults(msg) == IF msg.action = "delete" THEN {None} ELSE Sessions

\* tuiSessionOperationMsg, which lists the sessions again, and tuiSessionsMsg
OperationDone(msg) ==
  /\ Take(msg) /\ msg.type = "operation"
  /\ msgs' = (msgs \ {msg}) \cup {[type |-> "sessions"]}
  /\ LET busy == [m EXCEPT !.busy = TRUE] IN
     \/ \E conflict \in BOOLEAN : m' = [busy EXCEPT !.reloadFailed = @ \/ conflict]
     \/ \E id \in OperationResults(msg) :
          m' = IF id = None THEN NewSession(busy) ELSE Loaded(busy, id, FALSE)
  /\ UNCHANGED <<waits, turn, ctx, history, bounds>>

SessionsListed ==
  /\ Take([type |-> "sessions"])
  /\ msgs' = msgs \ {[type |-> "sessions"]}
  /\ m' = [m EXCEPT !.busy = FALSE]
  /\ UNCHANGED <<waits, turn, ctx, history, bounds>>

\* tuiApprovalResolvedMsg
ApprovalResolved(msg) ==
  /\ Take(msg) /\ msg.type = "resolve"
  /\ IF ~Approving \/ msg.gen # m.gen \/ msg.runtime # m.runtime
     THEN m' = m /\ msgs' = msgs \ {msg} /\ UNCHANGED <<ctx, cancels>>
     ELSE \/ CancelRun(Cancelling([m EXCEPT !.approval = NoApproval]), msgs \ {msg})
          \/ /\ m' = [m EXCEPT !.approval = NoApproval, !.run = "streaming"]
             /\ msgs' = msgs \ {msg}
             /\ UNCHANGED <<ctx, cancels>>
  /\ UNCHANGED <<waits, turn, reported, bounds>>

\* tuiCancelMsg: when the server could not be asked the local stream is closed.
RunCancelled(msg) ==
  /\ Take(msg) /\ msg.type = "cancel"
  /\ msgs' = msgs \ {msg}
  /\ IF msg.gen # m.gen \/ (msg.runtime # None /\ msg.runtime # m.runtime)
     THEN m' = m /\ ctx' = ctx
     ELSE IF msg.runtime = None /\ m.run = "cancelling"
     THEN m' = [m EXCEPT !.run = "failed"] /\ ctx' = ctx
     ELSE \/ m' = m /\ ctx' = ctx
          \/ /\ msg.runtime # None /\ m.turnCancel # None
             /\ m' = [m EXCEPT !.turnCancel = None]
             /\ ctx' = StopsContext(m)
  /\ UNCHANGED <<waits, turn, history, bounds>>

-----------------------------------------------------------------------------
(* Stream items.                                                           *)

NextWait(g, mm) ==
  waits' = [t \in Turns |-> (IF t = g THEN waits[t] - 1 ELSE waits[t])
                            + (IF t = mm.stream THEN 1 ELSE 0)]

\* applyWireEvent: the event that names the run; the events that only add to the
\* transcript on the screen are left out.
SessionEvent(g) ==
  /\ waits[g] > 0 /\ ~m.quitting /\ turn[g] = "opening"
  /\ m' = [m EXCEPT !.runtime = g]
  /\ turn' = [turn EXCEPT ![g] = "running"]
  /\ NextWait(g, m)
  /\ UNCHANGED <<msgs, ctx, history, bounds>>

CancelInProgress == m.cancelRequested \/ m.run = "cancelling"

ApprovalRequired(g) ==
  /\ waits[g] > 0 /\ ~m.quitting /\ turn[g] = "running"
  /\ turn' = [turn EXCEPT ![g] = "asked"]
  /\ NextWait(g, m)
  /\ IF CancelInProgress
     THEN m' = m /\ UNCHANGED <<msgs, ctx, cancels>>
     ELSE \/ /\ g = m.runtime
             /\ m' = [m EXCEPT !.run = "approval",
                               !.approval = [gen |-> m.gen, runtime |-> g, resolving |-> FALSE]]
             /\ UNCHANGED <<msgs, ctx, cancels>>
          \/ CancelRun(Cancelling([m EXCEPT !.approval = IF g = m.runtime THEN NoApproval ELSE @]), msgs)
  /\ UNCHANGED <<reported, bounds>>

DurableSessionError(g) ==
  /\ waits[g] > 0 /\ ~m.quitting /\ turn[g] \in {"running", "asked"}
  /\ g \notin reported /\ reported' = reported \cup {g}
  /\ m' = [m EXCEPT !.durableError = TRUE, !.run = "blocked"]
  /\ NextWait(g, m)
  /\ UNCHANGED <<msgs, turn, ctx, cancels, bounds>>

ApplyTerminal(mm, kind) ==
  [mm EXCEPT !.done = TRUE, !.turnCancel = None, !.approval = NoApproval,
             !.run = IF mm.durableError THEN "blocked" ELSE kind]

DoneEvent(g) ==
  /\ waits[g] > 0 /\ ~m.quitting /\ turn[g] \in {"running", "asked"}
  /\ \E kind \in Kinds : m' = ApplyTerminal(m, kind)
  /\ turn' = [turn EXCEPT ![g] = "finished"]
  /\ NextWait(g, m)
  /\ UNCHANGED <<msgs, ctx, history, bounds>>

ErrorItem(g) ==
  /\ waits[g] > 0 /\ ~m.quitting /\ turn[g] \in {"opening", "running", "asked", "finished"}
  /\ m' = [m EXCEPT !.run = IF m.done THEN @ ELSE "unknown"]
  /\ turn' = [turn EXCEPT ![g] = "closed"]
  /\ NextWait(g, m)
  /\ UNCHANGED <<msgs, ctx, history, bounds>>

\* The EOF item ends the reading of m.stream and sends tuiStreamClosedMsg.
EOFItem(g) ==
  /\ waits[g] > 0 /\ ~m.quitting /\ turn[g] \in {"opening", "running", "asked", "finished"}
  /\ m' = [m EXCEPT !.stream = None, !.awaitingReload = @ \/ m.current # None]
  /\ turn' = [turn EXCEPT ![g] = "closed"]
  /\ waits' = [waits EXCEPT ![g] = @ - 1]
  /\ msgs' = msgs \cup {[type |-> "closed"]}
  /\ UNCHANGED <<ctx, history, bounds>>

\* The channel is closed: the pending read yields tuiStreamClosedMsg.
ChannelClosed(g) ==
  /\ waits[g] > 0 /\ ~m.quitting /\ turn[g] = "closed"
  /\ waits' = [waits EXCEPT ![g] = @ - 1]
  /\ msgs' = msgs \cup {[type |-> "closed"]}
  /\ UNCHANGED <<m, turn, ctx, history, bounds>>

\* tuiStreamClosedMsg: finishRun, then the session is read again.
FinishedRun(mm) ==
  IF ~mm.done THEN [Stopped(mm) EXCEPT !.run = "unknown"]
  ELSE IF mm.run \in {"streaming", "cancelling", "approval"}
       THEN [Stopped(mm) EXCEPT !.run = "completed"]
       ELSE [mm EXCEPT !.stream = None]
StopsAtClose(mm) == ~mm.done \/ mm.run \in {"streaming", "cancelling", "approval"}

StreamClosed_NoReload ==
  /\ Take([type |-> "closed"])
  /\ ctx' = IF StopsAtClose(m) THEN StopsContext(m) ELSE ctx
  /\ m' = [FinishedRun(m) EXCEPT !.awaitingReload = @ \/ m.current # None]
  /\ msgs' = msgs \ {[type |-> "closed"]}
  /\ UNCHANGED <<waits, turn, history, bounds>>
StreamClosed ==
  /\ Take([type |-> "closed"])
  /\ ctx' = IF StopsAtClose(m) THEN StopsContext(m) ELSE ctx
  /\ m' = [FinishedRun(m) EXCEPT !.awaitingReload = @ \/ m.current # None]
  /\ msgs' = (msgs \ {[type |-> "closed"]})
             \cup (IF m.current = None THEN {}
                   ELSE {[type |-> "load", required |-> TRUE, id |-> m.current]})
  /\ UNCHANGED <<waits, turn, history, bounds>>

-----------------------------------------------------------------------------
User ==
  \/ SubmitInput \/ CommandNew \/ CommandLoad \/ CommandDelete \/ KeyConfirm
  \/ \E d \in {"allow_once", "deny"} : ResolveApproval(d)
  \/ KeyCancelApproval \/ KeyCancel \/ KeyQuit \/ Resize
Handle ==
  \/ BootstrapDone \/ SessionsListed \/ StreamClosed
  \/ \E msg \in msgs : \/ TurnPrepared(msg) \/ SessionLoaded(msg) \/ OperationDone(msg)
                       \/ ApprovalResolved(msg) \/ RunCancelled(msg)
Stream(g) ==
  \/ SessionEvent(g) \/ ApprovalRequired(g) \/ DurableSessionError(g) \/ DoneEvent(g)
  \/ ErrorItem(g) \/ EOFItem(g) \/ ChannelClosed(g)

Next == User \/ Handle \/ TickExpires \/ \E g \in Turns : Stream(g)

\* Commands return (each has a timeout), a stream ends, and the clock ticks.
Spec ==
  /\ Init /\ [][Next]_vars
  /\ WF_vars(Handle) /\ WF_vars(TickExpires)
  /\ \A g \in Turns : WF_vars(Stream(g))

-----------------------------------------------------------------------------
(* Properties.                                                             *)

InFlight == msgs # {} \/ \E g \in Turns : waits[g] > 0

\* The client never waits for something that cannot come: with no command in
\* flight it accepts input (no run is active, it is not busy, no reload is
\* owed), unless it shows an overlay or has quit.  One way to be stuck is left, and
\* only where the palette, which takes Enter during a run, has put a second turn or
\* session beside it: "streaming" or "cancelling" with no stream that could end it,
\* which nothing but quitting leaves.
NeverStuck ==
  ~InFlight /\ ~Approving /\ ~m.confirm /\ ~m.quitting =>
    /\ ~m.busy /\ ~m.awaitingReload
    /\ Active(m) => m.overtaken /\ m.run \in {"streaming", "cancelling"} /\ m.stream = None

\* The permission overlay belongs to the run that is on: its decision goes to
\* the runtime of the current generation, whatever arrives late, and the overlay
\* goes when the run does.  This and the next two hold as long as the palette has
\* not been used during a run: a second turn beside the first takes over its
\* generation, its stream and its overlay.
ApprovalIsCurrent ==
  Approving /\ ~m.overtaken =>
               /\ m.approval.gen = m.gen /\ m.approval.runtime = m.runtime
               /\ Active(m) \/ [type |-> "closed"] \in msgs

\* Nothing is approved once cancellation was requested, and nothing is approved
\* that the window is too small to show.
GrantFailsClosed ==
  (\E msg \in msgs' \ msgs : msg.type = "resolve" /\ msg.decision = "allow_once") =>
    (m.cancelRequested => m.overtaken) /\ ~m.small

\* README, TUI controls: "Cancel the active run exactly once".
CancelledOnce == \A g \in Turns : cancels[g] <= 1

\* A turn that was prepared late, after its cancellation or after another
\* submission, never becomes the stream of the client.
NoRevival ==
  m'.stream # m.stream /\ m'.stream # None /\ ~m.overtaken =>
    /\ m'.stream = m.gen
    /\ m.stream = None
    /\ m.gen \notin ctx

\* The transcript on the screen is the one of the session the next message is
\* appended to.
ShowsCurrent == m.current # None /\ ~m.overtaken => m.shown = m.current

=============================================================================
