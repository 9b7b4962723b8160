------------------------------ MODULE MCClients -------------------------------
(***************************************************************************)
(* The clients of the server: the ACP adapter and its session bridge, the  *)
(* terminal clients, one-shot output and the web pages. A behaviour is one *)
(* of the component named by part; the others stay Off.                    *)
(***************************************************************************)
EXTENDS Integers, Sequences, FiniteSets, TLC

CONSTANTS Off, a1, a2

VARIABLES
  part,
  conn, writer, initialized, sessions, obj, sem, inbound, req, call, pending, nextRequest,
  writeQ, tasks, reader, cancels, consent,
  store, sess, bridgeObj, op, open, committed, reconciled, budget,
  m, msgs, waits, turn, ctx, tuiCancels, reported, loads, resizes,
  phase, approvalTurn, canceled, complete, tty, stdin, console, g, started, ofTurn, expired,
  gate, screen, answer, wire, recorded, posts, told,
  format, outputPhase, runID, rows, seq, broken, seen, done, streamErr, runErr, signaled,
  interrupted, exit,
  pc, recoveryPosts, state, last, window, cancelled, text, recoveryConn, rev, receipt,
  reconcile, extra, recoveryGate, quarantined, run, saved,
  page, chatTurn, saves, chatLoads, server, chatRun, count,
  plan, edits, srv, worker, broker, index, stream, teamPage, teamAnswer, claims, timeline,
  ended, losses

acpVars == <<conn, writer, initialized, sessions, obj, sem, inbound, req, call, pending, nextRequest,
    writeQ, tasks, reader, cancels, consent>>
bridgeVars == <<store, sess, bridgeObj, op, open, committed, reconciled, budget>>
tuiVars == <<m, msgs, waits, turn, ctx, tuiCancels, reported, loads, resizes>>
approvalVars == <<phase, approvalTurn, canceled, complete, tty, stdin, console, g, started, ofTurn, expired,
    gate, screen, answer, wire, recorded, posts, told>>
outputVars == <<format, outputPhase, runID, rows, seq, broken, seen, done, streamErr, runErr, signaled,
    interrupted, exit>>
recoveryVars == <<pc, recoveryPosts, state, last, window, cancelled, text, recoveryConn, rev, receipt,
    reconcile, extra, recoveryGate, quarantined, run, saved>>
chatVars == <<page, chatTurn, saves, chatLoads, server, chatRun, count>>
teamVars == <<plan, edits, srv, worker, broker, index, stream, teamPage, teamAnswer, claims, timeline,
    ended, losses>>
vars == <<part, acpVars, bridgeVars, tuiVars, approvalVars, outputVars, recoveryVars, chatVars, teamVars>>

NoAcp ==
  /\ conn = Off /\ writer = Off /\ initialized = Off /\ sessions = Off /\ obj = Off
  /\ sem = Off /\ inbound = Off /\ req = Off /\ call = Off /\ pending = Off
  /\ nextRequest = Off /\ writeQ = Off /\ tasks = Off /\ reader = Off /\ cancels = Off
  /\ consent = Off
NoBridge ==
  /\ store = Off /\ sess = Off /\ bridgeObj = Off /\ op = Off /\ open = Off /\ committed = Off
  /\ reconciled = Off /\ budget = Off
NoTui ==
  /\ m = Off /\ msgs = Off /\ waits = Off /\ turn = Off /\ ctx = Off
  /\ tuiCancels = Off /\ reported = Off /\ loads = Off /\ resizes = Off
NoApprovals ==
  /\ phase = Off /\ approvalTurn = Off /\ canceled = Off /\ complete = Off /\ tty = Off
  /\ stdin = Off /\ console = Off /\ g = Off /\ started = Off /\ ofTurn = Off /\ expired = Off
  /\ gate = Off /\ screen = Off /\ answer = Off /\ wire = Off /\ recorded = Off /\ posts = Off
  /\ told = Off
NoOutput ==
  /\ format = Off /\ outputPhase = Off /\ runID = Off /\ rows = Off /\ seq = Off
  /\ broken = Off /\ seen = Off /\ done = Off /\ streamErr = Off /\ runErr = Off
  /\ signaled = Off /\ interrupted = Off /\ exit = Off
NoRecovery ==
  /\ pc = Off /\ recoveryPosts = Off /\ state = Off /\ last = Off /\ window = Off
  /\ cancelled = Off /\ text = Off /\ recoveryConn = Off /\ rev = Off /\ receipt = Off
  /\ reconcile = Off /\ extra = Off /\ recoveryGate = Off /\ quarantined = Off /\ run = Off
  /\ saved = Off
NoChat ==
  /\ page = Off /\ chatTurn = Off /\ saves = Off /\ chatLoads = Off /\ server = Off
  /\ chatRun = Off /\ count = Off
NoTeam ==
  /\ plan = Off /\ edits = Off /\ srv = Off /\ worker = Off /\ broker = Off /\ index = Off
  /\ stream = Off /\ teamPage = Off /\ teamAnswer = Off /\ claims = Off /\ timeline = Off
  /\ ended = Off /\ losses = Off

-----------------------------------------------------------------------------
\* Prompts on a new session; and the operations that add and remove a
\* session, against each other and a prompt.
PromptScript == <<{"new"}, {"prompt"}, {"prompt"}>>
SinglePrompt == <<{"new"}, {"prompt"}>>
TableScript == <<{"load", "config"}, {"prompt", "delete"}, {"prompt", "close"}>>

\* A loaded session, then a prompt against a request of any kind.
BridgeOps == <<{"load"}, {"prompt"}, {"prompt", "close", "load", "delete", "mode"}>>
OverlapOps == <<{"load"}, {"prompt"}, {"close", "load"}, {"prompt", "close", "load"}>>

Acp == INSTANCE AcpAdapter WITH
  Sessions <- {"s1"}, Ids <- {1, 2}, Script <- PromptScript, MaxInflight <- 2, WriteQueue <- 1,
  MaxCancels <- 0, MaxCalls <- 2, Negotiated <- TRUE, MayEnd <- FALSE, Kinds <- BridgeOps,
  MaxEffects <- 1, MaxOther <- 1, MaxFaults <- 1, MaxCrashes <- 1
\* One prompt that is cancelled.
AcpCancel == INSTANCE AcpAdapter WITH
  Sessions <- {"s1"}, Ids <- {1, 2}, Script <- SinglePrompt, MaxInflight <- 2, WriteQueue <- 1,
  MaxCancels <- 2, MaxCalls <- 2, Negotiated <- TRUE, MayEnd <- FALSE, Kinds <- BridgeOps,
  MaxEffects <- 1, MaxOther <- 1, MaxFaults <- 1, MaxCrashes <- 1
\* A second prompt, on an object loaded beside the first; a load and a close that
\* waits for a prompt.
AcpOverlap == INSTANCE AcpAdapter WITH
  Sessions <- {"s1"}, Ids <- {1, 2}, Script <- SinglePrompt, MaxInflight <- 2, WriteQueue <- 1,
  MaxCancels <- 0, MaxCalls <- 0, Negotiated <- TRUE, MayEnd <- FALSE, Kinds <- OverlapOps,
  MaxEffects <- 1, MaxOther <- 1, MaxFaults <- 0, MaxCrashes <- 0
AcpTable == INSTANCE AcpAdapter WITH
  Sessions <- {"s1"}, Ids <- {1, 2}, Script <- TableScript, MaxInflight <- 2, WriteQueue <- 1,
  MaxCancels <- 0, MaxCalls <- 0, Negotiated <- TRUE, MayEnd <- FALSE, Kinds <- BridgeOps,
  MaxEffects <- 1, MaxOther <- 1, MaxFaults <- 1, MaxCrashes <- 1
\* Two turns, the second perhaps sent from the palette while the first is on.
Tui == INSTANCE TuiClient WITH
  MaxTurns <- 2, Sessions <- {1}, Palette <- {"send"}, MaxLoads <- 0, MaxResizes <- 0, cancels <-
  tuiCancels
\* One turn while two sessions are loaded.
TuiLoads == INSTANCE TuiClient WITH
  MaxTurns <- 1, Sessions <- {1, 2}, Palette <- {"new", "load"}, MaxLoads <- 1, MaxResizes <- 1, cancels <-
  tuiCancels
Line == INSTANCE LineClient WITH
  Approvals <- {a1}, MaxTurns <- 1, MaxLines <- 1, OneShot <- FALSE, Faults <- {"drop", "bad"},
  MaxEvents <- 4, TraceIds <- {"t1", "t2"}, MaxPosts <- 3, MaxText <- 1, TextCap <- 1, MaxRev <-
  2, turn <- approvalTurn, conn <- recoveryConn
\* Two approvals at a time.
Pair == INSTANCE LineClient WITH
  Approvals <- {a1, a2}, MaxTurns <- 1, MaxLines <- 1, OneShot <- FALSE, Faults <- {}, MaxEvents
  <- 4, TraceIds <- {"t1", "t2"}, MaxPosts <- 3, MaxText <- 1, TextCap <- 1, MaxRev <- 2, turn <-
  approvalTurn, conn <- recoveryConn
\* A client whose user types ahead; the answers of the server may be late.
Typist == INSTANCE LineClient WITH
  Approvals <- {a1}, MaxTurns <- 2, MaxLines <- 1, OneShot <- FALSE, Faults <- {"slow"}, MaxEvents <- 4,
  TraceIds <- {"t1", "t2"}, MaxPosts <- 3, MaxText <- 1, TextCap <- 1, MaxRev <- 2, turn <-
  approvalTurn, conn <- recoveryConn
Pages == INSTANCE WebPages WITH
  Stored <- {"b"}, Fresh <- {"x", "y"}, Chats <- {"c1", "c2"}, Workspaces <- {"w1", "w2"}, Home <-
  "w1", PlanBound <- FALSE, InitiallyReady <- TRUE, MaxLoads <- 0, MaxNew <- 1, MaxSwitches <- 1,
  MaxSends <- 2, MaxBinds <- 0, Failures <- 1, Tasks <- {"t1"}, Waves <- <<{"t1"}>>, MaxRuns <- 2,
  MaxEdits <- 1, Losses <- 1, turn <- chatTurn, loads <- chatLoads, run <- chatRun, answer <-
  teamAnswer

\* Another session is opened, or a new chat begun, while a message waits for its Plan.
PagesLoads == INSTANCE WebPages WITH
  Stored <- {"b"}, Fresh <- {"x", "y"}, Chats <- {"c1", "c2"}, Workspaces <- {"w1"}, Home <- "w1",
  PlanBound <- TRUE, InitiallyReady <- TRUE, MaxLoads <- 1, MaxNew <- 1, MaxSwitches <- 0,
  MaxSends <- 2, MaxBinds <- 0, Failures <- 0, Tasks <- {"t1"}, Waves <- <<{"t1"}>>, MaxRuns <- 1,
  MaxEdits <- 0, Losses <- 0, turn <- chatTurn, loads <- chatLoads, run <- chatRun, answer <-
  teamAnswer

Symmetry == Permutations({a1, a2})

Parts ==
  {"acp", "acp_cancel", "acp_table", "bridge", "overlap", "tui", "tui_loads", "approvals",
   "pair", "typist", "output", "recovery", "chat", "chat_loads", "team"}

Init ==
  /\ part \in Parts
  /\ CASE part = "acp" -> Acp!ConnectionInit
       [] part = "acp_cancel" -> AcpCancel!ConnectionInit
       [] part = "acp_table" -> AcpTable!ConnectionInit
       [] OTHER -> NoAcp
  /\ CASE part = "bridge" -> Acp!BridgeInit
       [] part = "overlap" -> AcpOverlap!BridgeInit
       [] OTHER -> NoBridge
  /\ CASE part = "tui" -> Tui!Init
       [] part = "tui_loads" -> TuiLoads!Init
       [] OTHER -> NoTui
  /\ CASE part = "approvals" -> Line!ApprovalInit
       [] part = "pair" -> Pair!ApprovalInit
       [] part = "typist" -> Typist!ApprovalInit
       [] OTHER -> NoApprovals
  /\ IF part = "output" THEN Line!OutputInit ELSE NoOutput
  /\ IF part = "recovery" THEN Line!RecoveryInit ELSE NoRecovery
  /\ CASE part = "chat" -> Pages!ChatInit
       [] part = "chat_loads" -> PagesLoads!ChatInit
       [] OTHER -> NoChat
  /\ IF part = "team" THEN Pages!TeamInit ELSE NoTeam

Next ==
  /\ part' = part
  /\ CASE part = "acp" -> Acp!ConnectionNext
       [] part = "acp_cancel" -> AcpCancel!ConnectionNext
       [] part = "acp_table" -> AcpTable!ConnectionNext
       [] OTHER -> UNCHANGED acpVars
  /\ CASE part = "bridge" -> Acp!BridgeNext
       [] part = "overlap" -> AcpOverlap!BridgeNext
       [] OTHER -> UNCHANGED bridgeVars
  /\ CASE part = "tui" -> Tui!Next
       [] part = "tui_loads" -> TuiLoads!Next
       [] OTHER -> UNCHANGED tuiVars
  /\ CASE part = "approvals" -> Line!ApprovalNext
       [] part = "pair" -> Pair!ApprovalNext
       [] part = "typist" -> Typist!ApprovalNext
       [] OTHER -> UNCHANGED approvalVars
  /\ IF part = "output" THEN Line!OutputNext ELSE UNCHANGED outputVars
  /\ IF part = "recovery" THEN Line!RecoveryNext ELSE UNCHANGED recoveryVars
  /\ CASE part = "chat" -> Pages!ChatNext
       [] part = "chat_loads" -> PagesLoads!ChatNext
       [] OTHER -> UNCHANGED chatVars
  /\ IF part = "team" THEN Pages!TeamNext ELSE UNCHANGED teamVars

Spec == Init /\ [][Next]_vars

-----------------------------------------------------------------------------
\* The ACP adapter serves what conforms, answers a permission request only
\* for the call that asked, and keeps the sessions it edits: every effect is
\* recorded before it happens, by one prompt at a time, and no agent runtime
\* is left without a session that owns it, unless its session was closed while
\* a load replaced it.
AcpSound ==
  /\ part = "acp" => Acp!ConnectionTypeOK /\ Acp!ConformingServed /\ Acp!GrantIsForThisCall
  /\ part = "acp_cancel" => AcpCancel!ConformingServed
  /\ part = "acp_table" => AcpTable!ConformingServed
  /\ part = "bridge" => Acp!BridgeTypeOK /\ Acp!EffectsRecorded /\ Acp!NoOrphanRuntime
  /\ part = "overlap" => AcpOverlap!ExclusiveEffects /\ AcpOverlap!NoOrphanRuntime

\* The screens: the full-screen client never ends in a state without
\* a way on, shows the session it works on and the approval that is waiting;
\* an answer typed to the line client goes to the prompt that was shown, is
\* posted once and allows only by a yes; one-shot output is the rows of one
\* run whose exit code 0 means completion; a turn that is posted again after
\* a lost answer has its effects once; what the chat page shows is what its
\* next message is bound to, with a revision the server gave out; and the team
\* page's status is that of its run, and nothing on it looks alive afterwards.
\* Each conjunct names the exceptions of the code: a turn started from the
\* palette beside another, a session opened while a send or save waits, an
\* answer that is lost after its decision was recorded.
ScreensSound ==
  /\ part = "tui" => Tui!TypeOK /\ Tui!NeverStuck /\ Tui!ApprovalIsCurrent /\ Tui!CancelledOnce
  /\ part = "tui_loads" => TuiLoads!TypeOK /\ TuiLoads!NeverStuck /\ TuiLoads!ShowsCurrent
  /\ part = "approvals" =>
       /\ Line!ApprovalTypeOK /\ Line!ReplOwnsConsole /\ Line!AnswersShownPrompt
       /\ Line!PostedOnce /\ Line!AllowedByYes /\ Line!NothingWasApproved
  /\ part = "pair" => Pair!AnswersShownPrompt /\ Pair!PostedOnce /\ Pair!AllowedByYes
  /\ part = "typist" => Typist!NothingWasApproved
  /\ part = "output" => Line!OutputTypeOK /\ Line!RowsAreOneRun /\ Line!ZeroIsCompleted
  /\ part = "recovery" => Line!RecoveryTypeOK /\ Line!EffectsOnce /\ Line!OneAnswer /\ Line!DoneIsSaved
  /\ part = "chat" => Pages!ChatTypeOK /\ Pages!BoundToShown /\ Pages!RevisionIsReal
  /\ part = "chat_loads" => PagesLoads!BoundToShown /\ PagesLoads!RevisionIsReal
  /\ part = "team" =>
       /\ Pages!TeamTypeOK /\ Pages!StatusIsTrue /\ Pages!NothingLooksAlive
       /\ Pages!HubIndexAgrees /\ Pages!RunsLoadedRevision

\* No client lets a decision through that its user took back: nothing is
\* granted after a cancellation or a stop, a stale session is not written,
\* a cancelled stream is not revived and a turn whose output was seen is not
\* posted again.
CancelIsFinal ==
  [][ /\ part = "acp_cancel" => AcpCancel!NoGrantOnceCancelled
      /\ part = "bridge" => Acp!StaleNeverWrites
      /\ part = "tui" => Tui!GrantFailsClosed /\ Tui!NoRevival
      /\ part = "tui_loads" => TuiLoads!GrantFailsClosed
      /\ part = "recovery" => Line!NoRepostAfterOutput
      /\ part = "chat" => Pages!NoDecisionAfterStop
      /\ part = "chat_loads" => PagesLoads!NoDecisionAfterStop ]_vars

\* "130 when interrupted with Ctrl-C": the exit code of a one-shot run is the
\* one its result row gives.
ExitCodeIsResult == part = "output" => Line!ExitCodeIsResult

=============================================================================
