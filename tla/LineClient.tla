------------------------------ MODULE LineClient ------------------------------
(* Permission prompts of the line-oriented chat client.                      *)
(*                                                                           *)
(* One goroutine renders the stream of a turn.  Every approval_required      *)
(* event starts a goroutine of its own that prompts, reads one line and      *)
(* posts the decision.  The prompts and the REPL share one console: a single *)
(* background reader puts lines into a channel of capacity one.  When the    *)
(* stream of a turn has closed, streamTurn refreshes the session and then    *)
(* shuts the turn down, which decides whether a decision still on its way is *)
(* awaited or canceled.                                                      *)
EXTENDS Naturals, Sequences, FiniteSets

CONSTANTS
    Approvals,   \* ids of the approval requests the server can send
    MaxTurns,    \* turns of the REPL
    MaxLines,    \* lines typed ahead of the client
    OneShot,     \* chat -p: one turn, Ctrl-C cancels it; else a REPL
    Faults       \* which of the faults below can happen

VARIABLES
    phase,       \* "repl", "stream", "refresh", "cancelling", "waiting", "bye"
    turn,        \* number of the current turn
    canceled,    \* the turn's context is done
    complete,    \* streamComplete: a done event was rendered
    tty,         \* isTerminal()
    stdin,       \* lines typed and not yet read by the background reader
    console,     \* inputLines, the channel of capacity one
    g,           \* per approval: where its goroutine is
    started,     \* per approval: goroutines started for it
    ofTurn,      \* per approval: the turn its goroutine belongs to
    expired,     \* per approval: ExpiresAt has passed
    gate,        \* the approval that holds promptGate, or NoOne
    screen,      \* the approval whose prompt was written last, or NoOne
    answer,      \* per approval: the line its prompt took
    wire,        \* per approval: the decision's request or its answer
    recorded,    \* per approval: the decision the server has recorded
    posts,       \* per approval: decisions posted
    told         \* per approval: what the user was told about it

turnVars == <<phase, turn, canceled, complete, tty>>
lineVars == <<stdin, console>>
promptVars == <<g, started, ofTurn, expired, gate, screen, answer>>
decisionVars == <<wire, recorded, posts, told>>
approvalVars == <<turnVars, lineVars, promptVars, decisionVars>>

NoOne == "none"
Kinds == {"yes", "text", "exit", "empty"}
Eof == "eof"
Places == {"none", "gate", "prompt", "answered", "resolving", "leaving", "done"}

ApprovalInit ==
    /\ phase = "repl" /\ turn = 0 /\ canceled = TRUE /\ complete = FALSE
    /\ tty \in BOOLEAN
    /\ stdin = <<>> /\ console = <<>>
    /\ g = [a \in Approvals |-> "none"]
    /\ started = [a \in Approvals |-> 0]
    /\ ofTurn = [a \in Approvals |-> 0]
    /\ expired = [a \in Approvals |-> FALSE]
    /\ gate = NoOne /\ screen = NoOne
    /\ answer = [a \in Approvals |-> "none"]
    /\ wire = [a \in Approvals |-> "none"]
    /\ recorded = [a \in Approvals |-> "none"]
    /\ posts = [a \in Approvals |-> 0]
    /\ told = [a \in Approvals |-> "none"]

-----------------------------------------------------------------------------
(* The console.                                                              *)

Typed == Len(stdin) + Len(console)

(* The user types a line, or ends the input; type-ahead is kept by the OS.   *)
Type(l, n) ==
    /\ phase # "bye"
    /\ Typed + n <= MaxLines
    /\ \A i \in DOMAIN stdin : stdin[i] # Eof
    /\ console # <<Eof>>
    /\ stdin' = Append(stdin, l)
    /\ UNCHANGED <<turnVars, console, promptVars, decisionVars>>

(* The background reader, started by the first read: ReadString and the send *)
(* into the channel of capacity one.  After the end of the input the channel *)
(* is closed, so that every later read sees the end again.                   *)
Reader ==
    /\ stdin # <<>> /\ console = <<>>
    /\ console' = <<Head(stdin)>>
    /\ stdin' = Tail(stdin)
    /\ UNCHANGED <<turnVars, promptVars, decisionVars>>

(* What is left in the channel by the read of its first line.                *)
AfterRead == IF console = <<Eof>> THEN console ELSE <<>>

(* repl: a line of text starts a turn, an empty one is skipped, exit and the *)
(* end of the input end the client.  A one-shot client has its prompt.       *)
ReplLine ==
    /\ phase = "repl"
    /\ IF OneShot
         THEN /\ turn = 0
              /\ UNCHANGED console
         ELSE /\ console # <<>>
              /\ console' = AfterRead
    /\ IF ~OneShot /\ console[1] \in {Eof, "exit"}
         THEN phase' = "bye" /\ UNCHANGED <<turn, canceled, complete>>
         ELSE IF ~OneShot /\ console[1] = "empty"
           THEN UNCHANGED <<phase, turn, canceled, complete>>
           ELSE /\ turn < MaxTurns
                /\ phase' = "stream"
                /\ turn' = turn + 1
                /\ canceled' = FALSE
                /\ complete' = FALSE
    /\ UNCHANGED <<tty, stdin, promptVars, decisionVars>>

(* Ctrl-C: a REPL exits at once, a one-shot run has its context canceled.    *)
Interrupt ==
    /\ "interrupt" \in Faults
    /\ phase # "bye" /\ (OneShot => phase # "repl")
    /\ IF OneShot THEN canceled' = TRUE /\ UNCHANGED phase
                  ELSE phase' = "bye" /\ UNCHANGED canceled
    /\ UNCHANGED <<turn, complete, tty, lineVars, promptVars, decisionVars>>

-----------------------------------------------------------------------------
(* renderEvent                                                               *)

(* The first event of an approval starts its goroutine; another event of the *)
(* same id is ignored.                                                       *)
beginApproval(a) ==
    IF started[a] > 0
      THEN UNCHANGED <<g, started, ofTurn>>
      ELSE /\ g' = [g EXCEPT ![a] = "gate"]
           /\ started' = [started EXCEPT ![a] = 1]
           /\ ofTurn' = [ofTurn EXCEPT ![a] = turn]

(* approval_required with a valid deadline and the session of the run.  An   *)
(* id belongs to one turn; within it the event may be repeated.              *)
ApprovalRequired(a) ==
    /\ phase = "stream" /\ ~expired[a]
    /\ ofTurn[a] \in {0, turn}
    /\ beginApproval(a)
    /\ UNCHANGED <<turnVars, lineVars, expired, gate, screen, answer, decisionVars>>

(* A malformed or expired request, or one of another session, ends the turn. *)
ApprovalRefused ==
    /\ phase = "stream"
    /\ \/ "bad" \in Faults
       \/ \E a \in Approvals : expired[a] /\ started[a] = 0
    /\ canceled' = TRUE
    /\ UNCHANGED <<phase, turn, complete, tty, lineVars, promptVars, decisionVars>>

(* The done event; stream_end and the other control frames leave the turn    *)
(* as it is.                                                                 *)
Done ==
    /\ phase = "stream" /\ ~complete
    /\ complete' = TRUE
    /\ UNCHANGED <<phase, turn, canceled, tty, lineVars, promptVars, decisionVars>>

(* The stream closes: after its done event, because the turn's context is    *)
(* done, or because the connection broke.                                    *)
StreamCloses ==
    /\ phase = "stream"
    /\ complete \/ canceled \/ "drop" \in Faults
    /\ phase' = "refresh"
    /\ UNCHANGED <<turn, canceled, complete, tty, lineVars, promptVars, decisionVars>>

pendingApprovals == {a \in Approvals : g[a] \notin {"none", "done"}}
resolvingApprovals == {a \in Approvals : g[a] = "resolving"}

(* What shutdown reads under the lock.                                       *)
WaitForResolution ==
    /\ complete
    /\ pendingApprovals # {}
    /\ Cardinality(pendingApprovals) = Cardinality(resolvingApprovals)

(* The refresh of the session has ended and the deferred shutdown decides.   *)
Shutdown ==
    /\ phase = "refresh"
    /\ phase' = IF WaitForResolution THEN "waiting" ELSE "cancelling"
    /\ UNCHANGED <<turn, canceled, complete, tty, lineVars, promptVars, decisionVars>>

(* The cancellation is not under the lock of the decision.                   *)
ShutdownCancels ==
    /\ phase = "cancelling"
    /\ canceled' = TRUE
    /\ phase' = "waiting"
    /\ UNCHANGED <<turn, complete, tty, lineVars, promptVars, decisionVars>>

(* wg.Wait()                                                                 *)
Joined == pendingApprovals = {}

(* streamTurn returns to the REPL, or the one-shot client ends.              *)
TurnReturns ==
    /\ phase = "waiting"
    /\ Joined
    /\ canceled' = TRUE
    /\ phase' = IF OneShot THEN "bye" ELSE "repl"
    /\ UNCHANGED <<turn, complete, tty, lineVars, promptVars, decisionVars>>

-----------------------------------------------------------------------------
(* handleApproval                                                            *)

Alive(a, place) == phase # "bye" /\ g[a] = place

(* Time passes the deadline of a request.                                    *)
Expire(a) ==
    /\ phase # "bye" /\ ~expired[a]
    /\ expired' = [expired EXCEPT ![a] = TRUE]
    /\ UNCHANGED <<turnVars, lineVars, g, started, ofTurn, gate, screen, answer, decisionVars>>

Leave(a, message) ==
    /\ g' = [g EXCEPT ![a] = "leaving"]
    /\ told' = [told EXCEPT ![a] = message]

TakeGate(a) ==
    /\ gate = NoOne
    /\ gate' = a

(* The prompt is written once the gate is held; without a terminal the       *)
(* request is denied at once.                                                *)
Prompt(a) ==
    /\ Alive(a, "gate")
    /\ IF tty
         THEN /\ TakeGate(a)
              /\ g' = [g EXCEPT ![a] = "prompt"]
              /\ screen' = a
              /\ UNCHANGED answer
         ELSE /\ g' = [g EXCEPT ![a] = "answered"]
              /\ answer' = [answer EXCEPT ![a] = "auto"]
              /\ UNCHANGED <<gate, screen>>
    /\ UNCHANGED <<turnVars, lineVars, started, ofTurn, expired, decisionVars>>

(* promptCtx is done: the deadline has passed or the turn was canceled.      *)
PromptEnds(a) ==
    /\ \/ Alive(a, "prompt") /\ (expired[a] \/ canceled)
       \/ Alive(a, "gate") /\ (expired[a] \/ (tty /\ canceled))
       \/ Alive(a, "answered") /\ expired[a]
    /\ Leave(a, IF g[a] = "gate" THEN "none" ELSE "nothing")
    /\ canceled' = TRUE
    /\ UNCHANGED <<phase, turn, complete, tty, lineVars, started, ofTurn, expired,
                   gate, screen, answer, wire, recorded, posts>>

(* The prompt takes the next line of the console, whoever it was meant for;  *)
(* the end of the input is an empty answer.                                  *)
Answer(a) ==
    /\ Alive(a, "prompt") /\ console # <<>>
    /\ console' = AfterRead
    /\ answer' = [answer EXCEPT ![a] = console[1]]
    /\ g' = [g EXCEPT ![a] = "answered"]
    /\ UNCHANGED <<turnVars, stdin, started, ofTurn, expired, gate, screen, decisionVars>>

Decision(a) == IF answer[a] = "yes" THEN "allow_once" ELSE "deny"

(* beginApprovalResolution and the request; a canceled context sends nothing.*)
BeginResolution(a) ==
    /\ Alive(a, "answered") /\ ~expired[a]
    /\ g' = [g EXCEPT ![a] = "resolving"]
    /\ IF canceled
         THEN UNCHANGED <<wire, posts>>
         ELSE /\ wire' = [wire EXCEPT ![a] = "request"]
              /\ posts' = [posts EXCEPT ![a] = (@ + 1) % 3]
    /\ UNCHANGED <<turnVars, lineVars, started, ofTurn, expired, gate, screen, answer,
                   recorded, told>>

(* The server (external): it records the first decision of an unexpired      *)
(* approval whose run is still there, and answers 404 or 409 to every other; *)
(* the request may be lost, and so may the answer to a recorded decision.    *)
Serve(a) ==
    /\ wire[a] = "request"
    /\ \/ /\ recorded[a] = "none" /\ ofTurn[a] = turn /\ ~complete /\ ~expired[a]
          /\ recorded' = [recorded EXCEPT ![a] = Decision(a)]
          /\ \E got \in {"ok"} \cup {f \in {"error"} : "drop" \in Faults} :
               wire' = [wire EXCEPT ![a] = got]
       \/ /\ wire' = [wire EXCEPT ![a] = "gone"]
          /\ UNCHANGED recorded
       \/ /\ "drop" \in Faults
          /\ wire' = [wire EXCEPT ![a] = "error"]
          /\ UNCHANGED recorded
    /\ UNCHANGED <<turnVars, lineVars, promptVars, posts, told>>

(* The answer arrives; anything but success cancels the turn.                *)
Resolved(a) ==
    /\ Alive(a, "resolving") /\ wire[a] \in {"ok", "gone", "error"}
    /\ IF wire[a] = "ok"
         THEN /\ Leave(a, IF Decision(a) = "allow_once" THEN "allowed" ELSE "denied")
              /\ UNCHANGED canceled
         ELSE /\ Leave(a, IF wire[a] = "gone" THEN "denied" ELSE "unrecorded")
              /\ canceled' = TRUE
    /\ UNCHANGED <<phase, turn, complete, tty, lineVars, started, ofTurn, expired,
                   gate, screen, answer, wire, recorded, posts>>

(* resolveCtx is done first: the turn was canceled, the approval expired or  *)
(* the 15 seconds of plainApprovalResolveTimeout are over.                   *)
ResolutionEnds(a) ==
    /\ Alive(a, "resolving")
    /\ canceled \/ "slow" \in Faults
    /\ Leave(a, "nothing")
    /\ canceled' = TRUE
    /\ UNCHANGED <<phase, turn, complete, tty, lineVars, started, ofTurn, expired,
                   gate, screen, answer, wire, recorded, posts>>

(* The deferred calls: the gate, finishApproval and wg.Done.                 *)
Finish(a) ==
    /\ Alive(a, "leaving")
    /\ g' = [g EXCEPT ![a] = "done"]
    /\ gate' = IF gate = a THEN NoOne ELSE gate
    /\ UNCHANGED <<turnVars, lineVars, started, ofTurn, expired, screen, answer, decisionVars>>

-----------------------------------------------------------------------------

Approve(a) ==
    \/ Expire(a) \/ Prompt(a) \/ PromptEnds(a) \/ Answer(a)
    \/ BeginResolution(a) \/ Serve(a) \/ Resolved(a) \/ ResolutionEnds(a) \/ Finish(a)

ApprovalNext ==
    \/ \E l \in Kinds : Type(l, 1)
    \/ Type(Eof, 0)
    \/ Reader \/ ReplLine \/ Interrupt
    \/ \E a \in Approvals : ApprovalRequired(a) \/ Approve(a)
    \/ ApprovalRefused \/ Done \/ StreamCloses
    \/ Shutdown \/ ShutdownCancels \/ TurnReturns

ApprovalSpec == ApprovalInit /\ [][ApprovalNext]_approvalVars

-----------------------------------------------------------------------------
(* Properties.                                                               *)

(* The variables have their types, and a held gate has a holder.             *)
ApprovalTypeOK ==
    /\ phase \in {"repl", "stream", "refresh", "cancelling", "waiting", "bye"}
    /\ turn \in 0..MaxTurns
    /\ canceled \in BOOLEAN /\ complete \in BOOLEAN /\ tty \in BOOLEAN
    /\ Len(console) <= 1
    /\ g \in [Approvals -> Places]
    /\ gate \in Approvals \cup {NoOne} /\ screen \in Approvals \cup {NoOne}
    /\ \A a \in Approvals :
         /\ gate = a => g[a] \in {"prompt", "answered", "resolving", "leaving"}
         /\ g[a] = "none" => ofTurn[a] = 0

(* When the REPL reads a line, no prompt of an earlier turn is left that     *)
(* could take it: the comment of readConsoleLine, and the join of shutdown.  *)
ReplOwnsConsole == phase = "repl" => \A a \in Approvals : g[a] # "prompt"

(* Only the prompt that was written last can take a line, so the answer the  *)
(* user gives to what stands on the screen goes to that request.             *)
AnswersShownPrompt == \A a \in Approvals : g[a] = "prompt" => screen = a

(* However often its event arrives, a request is prompted for once and has   *)
(* one decision posted.                                                      *)
PostedOnce == \A a \in Approvals : started[a] <= 1 /\ posts[a] <= 1

(* The server records an allow only for a request whose own prompt was       *)
(* answered with yes: a timeout, an end of input, an empty line, a missing   *)
(* terminal or the answer of another prompt never allow anything.            *)
AllowedByYes ==
    \A a \in Approvals :
      recorded[a] = "allow_once" => tty /\ answer[a] = "yes" /\ ofTurn[a] # 0

(* "nothing was approved", "treating it as denied" and "could not be         *)
(* recorded; canceling the run without approval" are said of a request whose *)
(* approval was not recorded.  The first and the last are also said when the *)
(* answer to a posted decision is late or lost: the approval may then stand, *)
(* but the client has canceled the turn.                                     *)
NothingWasApproved ==
    \A a \in Approvals :
      (told[a] \in {"nothing", "denied", "unrecorded"} /\ recorded[a] = "allow_once") =>
        /\ told[a] # "denied" /\ wire[a] \in {"ok", "error"}
        /\ ofTurn[a] = turn => canceled

------------------------------------------------------------------------------

(* One-shot runs of the chat client (chat -p) in the json and jsonl formats: *)
(* the rows written while the stream is rendered, the judgement of the run   *)
(* from its done event, the result row and the exit code of the process.     *)
CONSTANTS
    MaxEvents,   \* events of the stream that are rendered
    TraceIds     \* trace ids the session events of a run may carry

VARIABLES
    format,      \* "json" or "jsonl"
    outputPhase,       \* "prepare", "stream", "refresh", "returned", "judged", "exited"
    runID,       \* the id written into every row
    rows,        \* what stdout has received: [run, seq, event, exit]
    seq,         \* the emitter's counter
    broken,      \* the emitter's sticky write error
    seen,        \* events rendered so far
    done,        \* the done event that was rendered, or "none"
    streamErr,   \* the stream ended with an error
    runErr,      \* the error runOnce returns: a class, or "nil"
    signaled,    \* Ctrl-C has canceled runCtx
    interrupted, \* what runChat read of it after runOnce
    exit         \* the exit code of the process, or "running"

outputVars == <<format, outputPhase, runID, rows, seq, broken, seen, done, streamErr, runErr,
          signaled, interrupted, exit>>

Completed == {"completed", "command"}
(* Kinds of a done event: blocked stands for a completed run whose durable   *)
(* metadata blocks success, untyped for data without a kind.                 *)
OutputKinds == Completed \cup {"untyped", "blocked", "cancelled", "context_blocked", "failed", "unknown"}

OutputInit ==
    /\ format \in {"json", "jsonl"}
    /\ outputPhase = "prepare" /\ runID = "local"
    /\ rows = <<>> /\ seq = 0 /\ broken = FALSE
    /\ seen = 0 /\ done = "none" /\ streamErr = FALSE /\ runErr = "nil"
    /\ signaled = FALSE /\ interrupted = FALSE /\ exit = "running"

-----------------------------------------------------------------------------
(* The emitter.                                                              *)

(* The id of the server is taken while no row has been written.              *)
setRunID(id) == IF seq # 0 \/ broken THEN runID ELSE id

(* A failed write is remembered and nothing is written after it.             *)
encode(row) ==
    \/ /\ rows' = Append(rows, row) /\ UNCHANGED broken
    \/ /\ broken' = TRUE /\ UNCHANGED rows

emitEvent(name, id) ==
    IF format # "jsonl" \/ broken
      THEN UNCHANGED <<rows, seq, broken>>
      ELSE /\ seq' = seq + 1
           /\ encode([run |-> id, seq |-> seq + 1, event |-> name, exit |-> 0])

emitResult(code) ==
    IF broken
      THEN UNCHANGED <<rows, seq, broken>>
      ELSE LET n == IF format = "jsonl" THEN seq + 1 ELSE seq
           IN /\ seq' = n
              /\ encode([run |-> runID, seq |-> n, event |-> "result", exit |-> code])

-----------------------------------------------------------------------------
(* streamTurn as the one-shot client sees it.                                *)

(* prepareDurableTurn saved the prompt, or failed and runOnce returns.       *)
Prepare(ok) ==
    /\ outputPhase = "prepare"
    /\ outputPhase' = IF ok THEN "stream" ELSE "returned"
    /\ runErr' = IF ok THEN "nil" ELSE IF signaled THEN "canceled" ELSE "failed"
    /\ UNCHANGED <<format, runID, rows, seq, broken, seen, done, streamErr, signaled,
                   interrupted, exit>>

MayRender == outputPhase = "stream" /\ seen < MaxEvents

(* A session event carries the trace id of the run; a turn that was posted   *)
(* again has a second one.                                                   *)
RenderSession(id) ==
    /\ MayRender
    /\ seen' = seen + 1
    /\ runID' = setRunID(id)
    /\ emitEvent("session", setRunID(id))
    /\ UNCHANGED <<format, outputPhase, done, streamErr, runErr, signaled, interrupted, exit>>

(* Text, status, tool and approval events are written; heartbeats, raw tool  *)
(* inputs and control frames are not.                                        *)
RenderEvent(name) ==
    /\ MayRender
    /\ seen' = seen + 1
    /\ IF name = "text" THEN emitEvent(name, runID) ELSE UNCHANGED <<rows, seq, broken>>
    /\ UNCHANGED <<format, outputPhase, runID, done, streamErr, runErr, signaled, interrupted, exit>>

(* The done event.                                                           *)
RenderDone(kind) ==
    /\ MayRender /\ done = "none"
    /\ seen' = seen + 1
    /\ done' = kind
    /\ UNCHANGED <<format, outputPhase, runID, rows, seq, broken, streamErr, runErr, signaled,
                   interrupted, exit>>

(* The stream closes, with or without an error.                              *)
OutputStreamCloses(failed) ==
    /\ outputPhase = "stream"
    /\ outputPhase' = "refresh"
    /\ streamErr' = failed
    /\ UNCHANGED <<format, runID, rows, seq, broken, seen, done, runErr, signaled,
                   interrupted, exit>>

(* The error of the terminal: a stream without a done event has none to go   *)
(* by, an unknown kind is a failure.                                         *)
markStreamComplete ==
    IF done = "none" THEN "unknown_terminal"
    ELSE IF done \in Completed \cup {"untyped"} THEN "nil"
    ELSE IF done \in {"blocked", "context_blocked"} THEN "blocked"
    ELSE IF done = "cancelled" THEN "canceled" ELSE "failed"

(* The session is read again; the error of the stream counts before the one  *)
(* of the terminal, and that one before the one of the refresh.              *)
Refresh(ok) ==
    /\ outputPhase = "refresh"
    /\ outputPhase' = "returned"
    /\ runErr' = IF streamErr THEN (IF signaled THEN "canceled" ELSE "failed")
                 ELSE IF markStreamComplete # "nil" THEN markStreamComplete
                 ELSE IF ok THEN "nil" ELSE "failed"
    /\ UNCHANGED <<format, runID, rows, seq, broken, seen, done, streamErr, signaled,
                   interrupted, exit>>

(* Ctrl-C, at any time while runCtx listens for it.                          *)
Signal ==
    /\ outputPhase \in {"prepare", "stream", "refresh", "returned"} /\ ~signaled
    /\ signaled' = TRUE
    /\ UNCHANGED <<format, outputPhase, runID, rows, seq, broken, seen, done, streamErr, runErr,
                   interrupted, exit>>

(* runChat reads the context after runOnce and gives the signal back.        *)
Judge ==
    /\ outputPhase = "returned"
    /\ outputPhase' = "judged"
    /\ interrupted' = signaled
    /\ UNCHANGED <<format, runID, rows, seq, broken, seen, done, streamErr, runErr, signaled, exit>>

(* The exit code of the result: 130, 0 or 1.                                 *)
chatRunStatus == IF interrupted THEN 130 ELSE IF runErr = "nil" THEN 0 ELSE 1

(* The result row, and the exit: a failed output ends with 1, an error of    *)
(* the run with the code of the result, and otherwise main returns.          *)
Exit ==
    /\ outputPhase = "judged"
    /\ outputPhase' = "exited"
    /\ emitResult(chatRunStatus)
    /\ exit' = IF broken' THEN "1"
               ELSE IF runErr = "nil" THEN "0"
               ELSE IF chatRunStatus = 130 THEN "130" ELSE "1"
    /\ UNCHANGED <<format, runID, seen, done, streamErr, runErr, signaled, interrupted>>

OutputNext ==
    \/ \E ok \in BOOLEAN : Prepare(ok) \/ OutputStreamCloses(~ok) \/ Refresh(ok)
    \/ \E id \in TraceIds : RenderSession(id)
    \/ \E name \in {"text", "tool_input"} : RenderEvent(name)
    \/ \E kind \in OutputKinds : RenderDone(kind)
    \/ Signal \/ Judge \/ Exit

OutputSpec == OutputInit /\ [][OutputNext]_outputVars

-----------------------------------------------------------------------------
(* Properties.                                                               *)

(* The variables have their types, and json writes at most one row.          *)
OutputTypeOK ==
    /\ format \in {"json", "jsonl"} /\ runID \in TraceIds \cup {"local"}
    /\ seq \in 0..MaxEvents + 1 /\ broken \in BOOLEAN
    /\ done \in OutputKinds \cup {"none"}
    /\ runErr \in {"nil", "canceled", "failed", "blocked", "unknown_terminal"}
    /\ exit \in {"running", "0", "1", "130"}
    /\ format = "json" => Len(rows) <= 1

(* A reader of stdout can tell what it has missed: all rows carry one run    *)
(* id, jsonl numbers them without a gap, and no row follows the result or a  *)
(* failed write (README: "event rows followed by exactly one result row").   *)
RowsAreOneRun ==
    /\ \A i, j \in DOMAIN rows : rows[i].run = rows[j].run
    /\ format = "jsonl" => \A i \in DOMAIN rows : rows[i].seq = i
    /\ \A i \in DOMAIN rows : rows[i].event = "result" => i = Len(rows)

(* Exit code 0 means that a done event of a completed run arrived, that the  *)
(* stream did not fail and that the whole output was written.                *)
ZeroIsCompleted ==
    exit = "0" => /\ done \in Completed \cup {"untyped"} /\ ~streamErr
                  /\ rows # <<>> /\ rows[Len(rows)].event = "result"

(* A program that reads the result row and one that reads the exit code of   *)
(* the process learn the same: 130 in the result is 130 for the process.     *)
ExitCodeIsResult ==
    outputPhase = "exited" /\ ~broken =>
      LET code == rows[Len(rows)].exit
      IN exit = CASE code = 0 -> "0" [] code = 1 -> "1" [] OTHER -> "130"

------------------------------------------------------------------------------

(***************************************************************************)
(* One logical agent turn as the terminal clients send it                  *)
(* (cmd/proxy/chat_transport.go: StartTurn and startRecoverableTurn).      *)
(*                                                                         *)
(* The turn is at most MaxPosts identical POSTs.  When a response ends     *)
(* without the done event the client reads the durable session: a receipt  *)
(* of this request lets it deliver the rest of the saved answer; otherwise *)
(* it posts again, or polls the session until the recovery window closes.  *)
(*                                                                         *)
(* The server of this module is what the client can observe of handleAgent *)
(* (DurableRun has it in detail): the gate, the revision, the journal      *)
(* marker and the request receipt.  Text is a sequence of chunks           *)
(* <<run, i>>; a chunk <<Foreign, i>> belongs to another client.           *)
(***************************************************************************)
CONSTANTS MaxPosts,  \* the bound of the post loop: 3
          MaxText,   \* bound: chunks of text one run streams
          TextCap,   \* maxAgentSSEEventBytes, in chunks
          MaxRev     \* bound on session revisions

None    == 0
Foreign == 0
Posts   == 1..MaxPosts
Chunks  == (0..MaxPosts) \X (1..MaxText)

VARIABLES pc,        \* where startRecoverableTurn is
          recoveryPosts,     \* POSTs sent
          state,     \* agentTurnRecoveryState
          last,      \* the last terminal item of startTurnOnce
          window,    \* recoveryCtx: "unset", "open" or "passed"
          cancelled, \* the context of the caller
          text,      \* text delivered on items
          conn,      \* the response of the POST in flight
          rev, receipt, reconcile, extra,  \* the session file
          recoveryGate, quarantined,               \* server memory
          run,       \* server runs, by POST
          saved      \* history: <<run, chunks>> committed for this request

clientVars  == <<pc, recoveryPosts, state, last, window, cancelled, text>>
sessionVars == <<rev, receipt, reconcile, extra>>
serverVars  == <<sessionVars, recoveryGate, quarantined, run, saved>>
recoveryVars        == <<clientVars, conn, serverVars>>

ConnStates == {"none", "opening", "open", "eof", "broken", "conflict", "refused"}
Frames     == [type : {"session", "tool", "committed", "error", "done"}]
              \cup [type : {"text"}, chunk : Chunks]

\* Every variable has its type; text is not longer than one answer and one tail.
RecoveryTypeOK ==
  /\ pc \in {"post", "stream", "read", "wait", "poll", "pollRead", "ended"}
  /\ recoveryPosts \in 0..MaxPosts
  /\ state \in [seen : Seq(Chunks), runtimeID : BOOLEAN, material : BOOLEAN,
                tooMuch : BOOLEAN, done : BOOLEAN, failed : BOOLEAN]
  /\ last \in ConnStates \cup {"ctx"}
  /\ window \in {"unset", "open", "passed"}
  /\ cancelled \in BOOLEAN
  /\ text \in Seq(Chunks)
  /\ conn.at \in ConnStates /\ conn.frames \in Seq(Frames)
  /\ rev \in 0..MaxRev
  /\ receipt \in [owner : 0..MaxPosts, count : 0..MaxText, rev : 0..MaxRev]
  /\ reconcile \in BOOLEAN /\ extra \in BOOLEAN
  /\ recoveryGate \in 0..MaxPosts
  /\ quarantined \in BOOLEAN
  /\ run \in [Posts -> [phase : {"none", "running", "ended"}, text : 0..MaxText,
                        expected : 0..MaxRev, effect : BOOLEAN]]
  /\ saved \subseteq Posts \X (0..MaxText)

\* The turn was prepared against revision 0 of the session.
ExpectedRevision == 0
NoReceipt == [owner |-> None, count |-> 0, rev |-> 0]

RecoveryInit ==
  /\ pc = "post" /\ recoveryPosts = 0 /\ last = "none" /\ window = "unset"
  /\ state = [seen |-> <<>>, runtimeID |-> FALSE, material |-> FALSE,
              tooMuch |-> FALSE, done |-> FALSE, failed |-> FALSE]
  /\ cancelled = FALSE /\ text = <<>>
  /\ conn = [at |-> "none", frames |-> <<>>]
  /\ rev = 0 /\ receipt = NoReceipt /\ reconcile = FALSE /\ extra = FALSE
  /\ recoveryGate = None /\ quarantined = FALSE
  /\ run = [p \in Posts |-> [phase |-> "none", text |-> 0, expected |-> 0, effect |-> FALSE]]
  /\ saved = {}

-----------------------------------------------------------------------------
(* The server.                                                             *)

Text(p, n) == [i \in 1..n |-> <<p, i>>]
TextFrames(s) == [i \in DOMAIN s |-> [type |-> "text", chunk |-> s[i]]]
Live(p) == conn.at = "open" /\ recoveryPosts = p

\* writeAgentSSE: a write to a connection that is gone is lost.
Write(p, frames) ==
  conn' = IF Live(p) THEN [conn EXCEPT !.frames = @ \o frames] ELSE conn

\* The assistant text that follows the receipt's message count.
SavedText == Text(receipt.owner, receipt.count)
             \o (IF extra THEN <<<<Foreign, 1>>>> ELSE <<>>)

Respond(at, frames) == conn' = [at |-> at, frames |-> frames]

\* writeAgentRequestReplay: the request is the one last committed.
Replay ==
  /\ conn.at = "opening" /\ ~quarantined
  /\ receipt.owner # None /\ rev = receipt.rev
  /\ Respond("eof", <<[type |-> "committed"]>> \o TextFrames(SavedText)
                    \o <<[type |-> "done"]>>)
  /\ UNCHANGED <<clientVars, serverVars>>

\* session_runtime_quarantined and agent_request_superseded
Refuse ==
  /\ conn.at = "opening"
  /\ quarantined \/ (receipt.owner # None /\ rev # receipt.rev)
  /\ Respond("refused", <<>>)
  /\ UNCHANGED <<clientVars, serverVars>>

Admissible == rev = ExpectedRevision /\ ~reconcile /\ recoveryGate = None

\* session_revision_conflict, session_reconcile_required, session_run_active
Conflict ==
  /\ conn.at = "opening" /\ ~quarantined /\ receipt.owner = None
  /\ ~Admissible
  /\ Respond("conflict", <<>>)
  /\ UNCHANGED <<clientVars, serverVars>>

\* The run is prepared and the session frame written.
Admit ==
  /\ conn.at = "opening" /\ ~quarantined /\ receipt.owner = None
  /\ Admissible
  /\ recoveryGate' = recoveryPosts
  /\ run' = [run EXCEPT ![recoveryPosts].phase = "running", ![recoveryPosts].expected = rev]
  /\ Respond("open", <<[type |-> "session"]>>)
  /\ UNCHANGED <<clientVars, sessionVars, quarantined, saved>>

EmitText(p) ==
  /\ run[p].phase = "running" /\ run[p].text < MaxText
  /\ run' = [run EXCEPT ![p].text = @ + 1]
  /\ Write(p, <<[type |-> "text", chunk |-> <<p, run[p].text + 1>>]>>)
  /\ UNCHANGED <<clientVars, sessionVars, recoveryGate, quarantined, saved>>

ExecuteTool(p) ==
  /\ run[p].phase = "running" /\ ~run[p].effect
  /\ run[p].expected = rev /\ rev < MaxRev
  /\ rev' = rev + 1 /\ reconcile' = TRUE
  /\ run' = [run EXCEPT ![p].effect = TRUE, ![p].expected = rev + 1]
  /\ Write(p, <<[type |-> "tool"]>>)
  /\ UNCHANGED <<clientVars, receipt, extra, recoveryGate, quarantined, saved>>

\* The frames of a finished run, and the end of its response.
Close(p, outcome) ==
  conn' = IF Live(p)
          THEN [at |-> "eof", frames |-> conn.frames \o <<[type |-> outcome], [type |-> "done"]>>]
          ELSE conn

\* Finalize commits the transcript, clears the marker and stores the receipt.
\* A run whose client is gone is cancelled and commits what it has.
Finalize(p) ==
  /\ run[p].phase = "running"
  /\ run[p].expected = rev /\ rev < MaxRev
  /\ rev' = rev + 1 /\ reconcile' = FALSE /\ extra' = FALSE
  /\ receipt' = [owner |-> p, count |-> run[p].text, rev |-> rev + 1]
  /\ saved' = saved \cup {<<p, run[p].text>>}
  /\ run' = [run EXCEPT ![p].phase = "ended"] /\ recoveryGate' = None
  /\ Close(p, "committed")
  /\ UNCHANGED <<clientVars, quarantined>>

\* The commit fails (another writer, or the disk): with tool activity the
\* session is quarantined.
FinalizeFails(p) ==
  /\ run[p].phase = "running"
  /\ run' = [run EXCEPT ![p].phase = "ended"] /\ recoveryGate' = None
  /\ quarantined' = (quarantined \/ run[p].effect)
  /\ Close(p, "error")
  /\ UNCHANGED <<clientVars, sessionVars, saved>>

\* The process dies and is started again: only the session file survives.
Restart ==
  /\ \E p \in Posts : run[p].phase = "running"
  /\ run' = [p \in Posts |-> IF run[p].phase = "running"
                             THEN [run[p] EXCEPT !.phase = "ended"] ELSE run[p]]
  /\ recoveryGate' = None /\ quarantined' = FALSE
  /\ conn' = IF conn.at \in {"opening", "open"} THEN [at |-> "broken", frames |-> <<>>] ELSE conn
  /\ UNCHANGED <<clientVars, sessionVars, saved>>

\* Another client saves the session (an answer of its own follows ours) or
\* reconciles it, in any case at the current revision.
OtherWriter ==
  /\ recoveryGate = None /\ rev < MaxRev
  /\ rev' = rev + 1 /\ reconcile' = FALSE
  /\ \/ extra' = TRUE /\ UNCHANGED receipt
     \/ extra' = FALSE /\ receipt' = NoReceipt \* a run of its own: its receipt
  /\ UNCHANGED <<clientVars, conn, recoveryGate, quarantined, run, saved>>

\* The network drops the POST, its response or the rest of the stream; a proxy
\* may make that look like a clean end.
Cut ==
  /\ conn.at \in {"opening", "open"} \/ (conn.at = "eof" /\ conn.frames # <<>>)
  /\ \E at \in {"eof", "broken"} : Respond(at, <<>>)
  /\ UNCHANGED <<clientVars, serverVars>>

-----------------------------------------------------------------------------
(* The client.                                                             *)

Expired == window = "passed" \/ cancelled

Terminal ==
  /\ pc' = "ended"
  /\ UNCHANGED <<recoveryPosts, state, window, cancelled, text>>

Post ==
  /\ pc = "post" /\ recoveryPosts < MaxPosts
  /\ recoveryPosts' = recoveryPosts + 1
  /\ pc' = "stream"
  /\ Respond("opening", <<>>)
  /\ UNCHANGED <<state, last, window, cancelled, text, serverVars>>

\* agentTurnRecoveryState.observe
Observe(f) ==
  CASE f.type = "done"    -> [state EXCEPT !.done = TRUE]
    [] f.type = "session" -> [state EXCEPT !.runtimeID = TRUE]
    [] f.type = "text"    ->
         IF Len(state.seen) + 1 > TextCap
         THEN [state EXCEPT !.material = TRUE, !.tooMuch = TRUE]
         ELSE [state EXCEPT !.material = TRUE, !.seen = Append(@, f.chunk)]
    [] f.type = "error"   -> [state EXCEPT !.material = TRUE, !.failed = TRUE]
    [] OTHER              -> [state EXCEPT !.material = TRUE]

ReadFrame ==
  /\ pc = "stream" /\ conn.frames # <<>>
  /\ LET f == Head(conn.frames) IN
     /\ state' = Observe(f)
     /\ text' = IF f.type = "text" THEN Append(text, f.chunk) ELSE text
  /\ conn' = [conn EXCEPT !.frames = Tail(@)]
  /\ UNCHANGED <<pc, recoveryPosts, last, window, cancelled, serverVars>>

\* retryableAgentTurnEnd
RetryableEnd(end) ==
  end \in {"eof", "broken"} \/ (end = "conflict" /\ recoveryPosts > 1)

\* The response has ended: give up, or look at the session.
EndOfStream ==
  /\ pc = "stream" /\ conn.frames = <<>>
  /\ conn.at \in {"eof", "broken", "conflict", "refused"}
  /\ conn' = [at |-> "none", frames |-> <<>>]
  /\ last' = IF Expired THEN "ctx" ELSE conn.at
  /\ IF state.done \/ Expired \/ state.tooMuch \/ ~RetryableEnd(conn.at)
     THEN Terminal
     ELSE /\ pc' = "read"
          /\ window' = (IF window = "unset" THEN "open" ELSE window)
          /\ UNCHANGED <<recoveryPosts, state, cancelled, text>>
  /\ UNCHANGED serverVars

\* The context ends while the response is still open: the client hangs up.
HangUp ==
  /\ pc = "stream" /\ Expired
  /\ conn' = [at |-> "none", frames |-> <<>>]
  /\ last' = "ctx" /\ Terminal
  /\ UNCHANGED serverVars

IsPrefixOf(s, t) == Len(s) <= Len(t) /\ \A i \in DOMAIN s : s[i] = t[i]

Recoverable ==
  /\ receipt.owner # None /\ receipt.rev = rev
  /\ ~state.tooMuch
  /\ Len(SavedText) <= TextCap
  /\ IsPrefixOf(state.seen, SavedText)

Suffix == SubSeq(SavedText, Len(state.seen) + 1, Len(SavedText))

Recover ==
  /\ pc \in {"read", "pollRead"} /\ ~Expired
  /\ Recoverable
  /\ text' = text \o Suffix
  /\ state' = [state EXCEPT !.done = TRUE]
  /\ pc' = "ended" /\ last' = "eof"
  /\ UNCHANGED <<recoveryPosts, window, cancelled, conn, serverVars>>

MayRepost ==
  /\ recoveryPosts < MaxPosts
  /\ ~state.material
  /\ rev = ExpectedRevision

NothingRecovered ==
  /\ pc \in {"read", "pollRead"} /\ ~Expired
  /\ ~Recoverable
  /\ pc' = IF pc = "read" /\ MayRepost THEN "wait" ELSE "poll"
  /\ UNCHANGED <<recoveryPosts, state, last, window, cancelled, text, conn, serverVars>>

\* GetSession fails: a server that is down is polled, anything else (and the
\* end of the context) ends the turn.
ReadUnavailable ==
  /\ pc \in {"read", "pollRead"}
  /\ ~Expired
  /\ pc' = "poll"
  /\ UNCHANGED <<recoveryPosts, state, last, window, cancelled, text, conn, serverVars>>

ReadFails ==
  /\ pc \in {"read", "pollRead"}
  /\ last' = IF cancelled THEN "ctx" ELSE last
  /\ Terminal
  /\ UNCHANGED <<conn, serverVars>>

\* waitAgentRecovery before the next POST
WaitPost ==
  /\ pc = "wait"
  /\ \/ /\ Expired /\ last' = "ctx" /\ Terminal
     \/ /\ ~Expired /\ pc' = "post"
        /\ UNCHANGED <<recoveryPosts, state, last, window, cancelled, text>>
  /\ UNCHANGED <<conn, serverVars>>

\* The polling loop: it stops at once when the response ended cleanly before
\* the server named a run.
Poll ==
  /\ pc = "poll"
  /\ IF Expired \/ (~state.runtimeID /\ last = "eof")
     THEN last' = (IF cancelled THEN "ctx" ELSE last) /\ Terminal
     ELSE pc' = "pollRead" /\ UNCHANGED <<recoveryPosts, state, last, window, cancelled, text>>
  /\ UNCHANGED <<conn, serverVars>>

WindowCloses ==
  /\ window = "open" /\ window' = "passed"
  /\ UNCHANGED <<pc, recoveryPosts, state, last, cancelled, text, conn, serverVars>>

\* The caller gives up.
Cancel ==
  /\ ~cancelled /\ pc # "ended" /\ cancelled' = TRUE
  /\ UNCHANGED <<pc, recoveryPosts, state, last, window, text, conn, serverVars>>

RecoveryAnswer == Replay \/ Refuse \/ Conflict \/ Admit
RecoveryFinish(p) == Finalize(p) \/ FinalizeFails(p)
Server ==
  \/ RecoveryAnswer
  \/ \E p \in Posts : EmitText(p) \/ ExecuteTool(p) \/ RecoveryFinish(p)
  \/ Restart \/ OtherWriter
Client ==
  \/ Post \/ ReadFrame \/ EndOfStream \/ HangUp \/ Recover \/ NothingRecovered
  \/ ReadUnavailable \/ ReadFails \/ WaitPost \/ Poll

RecoveryNext == Server \/ Client \/ Cut \/ WindowCloses \/ Cancel

\* The handler answers, a run ends, the client goroutine is scheduled and the
\* timer of the window fires.
RecoverySpec ==
  /\ RecoveryInit /\ [][RecoveryNext]_recoveryVars
  /\ WF_recoveryVars(RecoveryAnswer) /\ \A p \in Posts : WF_recoveryVars(RecoveryFinish(p))
  /\ WF_recoveryVars(Client) /\ WF_recoveryVars(WindowCloses)

-----------------------------------------------------------------------------
(* Properties.                                                             *)

\* However often the turn is posted, and whatever is lost or restarted in
\* between, the tools of at most one run execute.
EffectsOnce == Cardinality({p \in Posts : run[p].effect}) <= 1

\* The text delivered is a prefix of the answer of one run: a recovery neither
\* repeats nor skips a part, and never splices two runs.
OneAnswer ==
  \E p \in Posts : \A i \in DOMAIN text : text[i] = <<p, i>>

\* A turn that reports done, and no failed commit, has delivered exactly a text
\* the session committed for this request.
DoneIsSaved ==
  state.done /\ ~state.failed =>
    \E s \in saved : text = Text(s[1], s[2])

\* A turn posted again has shown nothing yet: after output the client only
\* completes it from the receipt.
NoRepostAfterOutput == recoveryPosts' > recoveryPosts => text = <<>> /\ ~state.done

=============================================================================
