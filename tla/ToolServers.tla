----------------------------- MODULE ToolServers ------------------------------
(***************************************************************************)
(* One call of the LSP tool (agent/lsp.go): the language server started    *)
(* for it, initialize, didOpen, one question, the notifications that come  *)
(* in between, shutdown and the end of the process.  The server is         *)
(* external: it answers any request it was sent, late or twice, publishes  *)
(* diagnostics of any document, sends garbage, is silent or dies.          *)
(***************************************************************************)
EXTENDS Integers, Sequences, SequencesExt, FiniteSets

CONSTANTS
  Operations,   \* definition, references, diagnostics
  Bodies,       \* results a location request may carry: [shape, items]
  MaxResults,   \* max_results of the call
  MaxFrames     \* bound on the frames the server sends

VARIABLES
  op, phase,    \* setup, initialize, open, ask, shutdown, closing, returned
  server,       \* none, alive, dead
  out, sent,    \* frames on their way, frames sent
  id, waiting,  \* nextID, and whether a request awaits its answer
  diag,         \* diagnostics cache of the target: [received, items]
  stopped, ioClosed,
  result,       \* what the tool answers
  told,         \* history: lists the server gave for the target
  answered      \* history: ids of the requests the server answered without error

lspVars == <<op, phase, server, out, sent, id, waiting, diag, stopped, ioClosed, result, told, answered>>

Target == "target"
Nothing == [kind |-> "none", items |-> <<>>]
Fallback == [kind |-> "fallback", items |-> <<>>]

LspInit ==
  /\ op \in Operations /\ phase = "setup"
  /\ server = "none" /\ out = <<>> /\ sent = 0
  /\ id = 0 /\ waiting = FALSE
  /\ diag = [received |-> FALSE, items |-> "none"]
  /\ stopped = FALSE /\ ioClosed = FALSE
  /\ result = Nothing /\ told = {} /\ answered = {}

------------------------------------------------------------------------------
(* decodeLSPLocations: an array decodes as locations, a link in it as a     *)
(* location without URI.  If no element has a URI the elements are decoded  *)
(* again as links and appended.                                             *)
AsLocation(e) == IF e.kind = "location" THEN e.uri ELSE ""
LinkURIs(items) == LET links == SelectSeq(items, LAMBDA e : e.kind = "link")
                   IN [i \in DOMAIN links |-> links[i].uri]

decodeLSPLocations(body) ==
  LET decoded == [i \in DOMAIN body.items |-> AsLocation(body.items[i])]
  IN CASE body.shape = "null" -> [ok |-> TRUE, uris |-> <<>>]
       [] body.shape = "array" ->
            IF decoded = <<>> \/ \E i \in DOMAIN decoded : decoded[i] # ""
            THEN [ok |-> TRUE, uris |-> decoded]
            ELSE [ok |-> TRUE, uris |-> decoded \o LinkURIs(body.items)]
       [] body.shape = "object" ->
            IF decoded[1] # "" THEN [ok |-> TRUE, uris |-> decoded] ELSE [ok |-> FALSE, uris |-> <<>>]

(* renderLSPLocations: cut to the maximum, then sorted. *)
renderLSPLocations(uris) == SubSeq(uris, 1, IF Len(uris) > MaxResults THEN MaxResults ELSE Len(uris))

------------------------------------------------------------------------------
(* The tool returns: what it says, and close() if there is a client. *)
Close(r) ==
  /\ result' = r
  /\ phase' = "shutdown" /\ waiting' = FALSE

(* stopAfterCancel, or the supervisor at the end: nothing of the server     *)
(* reaches the client after that.                                           *)
StopServer == server' = "dead" /\ out' = <<>> /\ stopped' = TRUE /\ ioClosed' = TRUE

(* Blocked input, an unsupported file, no executable, or a server that does *)
(* not start: there is no client to close.                                  *)
NotStarted ==
  /\ phase = "setup"
  /\ phase' = "returned"
  /\ result' \in {[kind |-> "blocked", items |-> <<>>], Fallback}
  /\ UNCHANGED <<op, server, out, sent, id, waiting, diag, stopped, ioClosed, told, answered>>

StartServer ==
  /\ phase = "setup"
  /\ phase' = "initialize" /\ server' = "alive"
  /\ UNCHANGED <<op, out, sent, id, waiting, diag, stopped, ioClosed, result, told, answered>>

(* request: the frame is written and the reading begins. *)
Request ==
  /\ phase \in {"initialize", "ask", "shutdown"} /\ ~ waiting /\ ~ stopped
  /\ server = "alive"
  /\ id' = id + 1 /\ waiting' = TRUE
  /\ UNCHANGED <<op, phase, server, out, sent, diag, stopped, ioClosed, result, told, answered>>

(* What an error of the request in progress means to the call. *)
Failed(timedOut) ==
  CASE phase = "shutdown" -> phase' = "closing" /\ waiting' = FALSE /\ UNCHANGED result
    [] phase = "initialize" -> Close(Fallback)
    [] phase = "ask" ->
         IF op = "diagnostics" /\ diag.received
         THEN Close([kind |-> "diagnostics", items |-> <<diag.items>>])
         ELSE Close(IF timedOut THEN [kind |-> "timeout", items |-> <<>>] ELSE Fallback)

(* A write to a server that has gone. *)
RequestFails ==
  /\ phase \in {"initialize", "ask", "shutdown"} /\ ~ waiting
  /\ server = "dead"
  /\ id' = id + 1
  /\ Failed(FALSE)
  /\ UNCHANGED <<op, server, out, sent, diag, stopped, ioClosed, told, answered>>

(* Notifications: initialized, didOpen with selectDocument. *)
DidOpen ==
  /\ phase = "open"
  /\ \/ server = "alive" /\ phase' = "ask" /\ UNCHANGED <<result, waiting>>
     \/ server = "dead" /\ Close(Fallback)
  /\ UNCHANGED <<op, server, out, sent, id, diag, stopped, ioClosed, told, answered>>

------------------------------------------------------------------------------
(* The server. *)

Frames ==
  [t : {"note"}, uri : {Target, "other"}, items : {"none", "some"}]
    \cup [t : {"error"}, id : 1..id] \cup {[t |-> "garbage"]}
    \cup [t : {"answer"}, id : 1..id, items : {"none", "some", "odd"}, body : Bodies]

ServerSends ==
  /\ server = "alive" /\ sent < MaxFrames /\ Len(out) < 2
  /\ \E f \in Frames : out' = Append(out, f)
  /\ sent' = sent + 1
  /\ UNCHANGED <<op, phase, server, id, waiting, diag, stopped, ioClosed, result, told, answered>>

ServerDies ==
  /\ server = "alive"
  /\ server' = "dead"
  /\ UNCHANGED <<op, phase, out, sent, id, waiting, diag, stopped, ioClosed, result, told, answered>>

------------------------------------------------------------------------------
(* readResponse. *)

Reading == waiting /\ ~ ioClosed

SetDiagnostics(uri, items) ==
  IF uri = Target
  THEN diag' = [received |-> TRUE, items |-> items] /\ told' = told \cup {items}
  ELSE UNCHANGED <<diag, told>>

ReadNotification ==
  /\ Reading /\ out # <<>> /\ Head(out).t = "note"
  /\ IF phase = "initialize" THEN UNCHANGED <<diag, told>>   \* no document selected yet
     ELSE SetDiagnostics(Head(out).uri, Head(out).items)
  /\ out' = Tail(out)
  /\ UNCHANGED <<op, phase, server, sent, id, waiting, stopped, ioClosed, result, answered>>

(* Only the answer to this request counts. *)
Mine(f) == f.t \in {"answer", "error"} /\ f.id = id

ReadStale ==
  /\ Reading /\ out # <<>> /\ Head(out).t \in {"answer", "error"} /\ ~ Mine(Head(out))
  /\ out' = Tail(out)
  /\ UNCHANGED <<op, phase, server, sent, id, waiting, diag, stopped, ioClosed, result, told, answered>>

(* What the answer to the question becomes. *)
AnswerDiagnostics(f) ==
  /\ IF f.items \in {"none", "some"} THEN SetDiagnostics(Target, f.items) ELSE UNCHANGED <<diag, told>>
  /\ Close([kind |-> "diagnostics", items |-> <<diag'.items>>])

AnswerLocations(f) ==
  /\ LET decoded == decodeLSPLocations(f.body)
     IN Close(IF decoded.ok THEN [kind |-> "locations", items |-> renderLSPLocations(decoded.uris)] ELSE Fallback)
  /\ UNCHANGED <<diag, told>>

ReadAnswer ==
  /\ Reading /\ out # <<>> /\ Head(out).t = "answer" /\ Mine(Head(out))
  /\ out' = Tail(out)
  /\ answered' = answered \cup {Head(out).id}
  /\ CASE phase = "initialize" -> phase' = "open" /\ waiting' = FALSE /\ UNCHANGED <<result, diag, told>>
       [] phase = "ask" /\ op = "diagnostics" -> AnswerDiagnostics(Head(out))
       [] phase = "ask" /\ op # "diagnostics" -> AnswerLocations(Head(out))
       [] phase = "shutdown" -> phase' = "closing" /\ waiting' = FALSE /\ UNCHANGED <<result, diag, told>>
  /\ UNCHANGED <<op, server, sent, id, stopped, ioClosed>>

(* An error answer, a frame that is not one, or the end of the stream. *)
ReadError ==
  /\ Reading
  /\ \/ out # <<>> /\ (Head(out).t = "garbage" \/ (Head(out).t = "error" /\ Mine(Head(out)))) /\ out' = Tail(out)
     \/ out = <<>> /\ server = "dead" /\ UNCHANGED out
  /\ Failed(FALSE)
  /\ UNCHANGED <<op, server, sent, id, diag, stopped, ioClosed, told, answered>>

(* The request's own timeout, or the run's context. *)
RequestDeadline ==
  /\ waiting
  /\ StopServer
  /\ Failed(TRUE)
  /\ UNCHANGED <<op, sent, id, diag, told, answered>>

(* close(): exit is sent, the process is stopped and its pipes are closed.  *)
EndClient ==
  /\ phase = "closing"
  /\ phase' = "returned"
  /\ StopServer
  /\ UNCHANGED <<op, sent, id, waiting, diag, result, told, answered>>

LspNext ==
  \/ NotStarted \/ StartServer \/ Request \/ RequestFails \/ DidOpen
  \/ ServerSends \/ ServerDies
  \/ ReadNotification \/ ReadStale \/ ReadAnswer \/ ReadError \/ RequestDeadline \/ EndClient

LspSpec == LspInit /\ [][LspNext]_lspVars

------------------------------------------------------------------------------
(* Every variable has its type; a server that runs has its pipes.           *)
LspTypeOK ==
  /\ op \in Operations
  /\ phase \in {"setup", "initialize", "open", "ask", "shutdown", "closing", "returned"}
  /\ server \in {"none", "alive", "dead"} /\ sent \in 0..MaxFrames /\ Len(out) <= 2
  /\ id \in 0..3 /\ waiting \in BOOLEAN
  /\ diag \in [received : BOOLEAN, items : {"none", "some"}]
  /\ stopped = ioClosed /\ (server = "alive" => ~ stopped)
  /\ result.kind \in {"none", "blocked", "fallback", "timeout", "diagnostics", "locations"}

(* Locations are the answer to the question that was asked: request 2, not  *)
(* a late or repeated answer to the one before it (lsp.go:539).             *)
LocationsAnswerTheQuestion ==
  result.kind = "locations" => 2 \in answered

(* Diagnostics that are shown were given for the requested document: those  *)
(* of another file never are (lsp.go:134).                                  *)
DiagnosticsBelong ==
  result.kind = "diagnostics" /\ result.items = <<"some">> => "some" \in told

(* The server does not outlive the call: whoever returns after a start has  *)
(* stopped the process and closed its pipes (lsp.go:584).                   *)
ServerDoesNotOutliveCall ==
  phase = "returned" /\ id > 0 => server = "dead" /\ stopped /\ ioClosed

------------------------------------------------------------------------------

(***************************************************************************)
(* A run-owned MCP runtime with one stdio server: the concurrent JSON-RPC  *)
(* client of agent/mcp_client.go and the executor binding and lifetime of  *)
(* agent/mcp_runtime.go.  Every caller makes one tool call; a call may     *)
(* first refresh the tool list.  The tool's schema is its version number;  *)
(* the catalogue of the run is bound to version 0.  The server is external *)
(* and may answer, stay silent, change its tools, notify or die.           *)
(***************************************************************************)
CONSTANTS
  Callers,
  MaxPending,      \* maxMCPPendingCalls
  MaxUnsolicited,  \* maxMCPUnsolicitedFrames
  MaxVersion,      \* bound on changes of the server's tools
  MaxNotes,        \* bound on other notifications
  Timeouts,        \* TRUE: call contexts may expire
  Crashes          \* TRUE: the server may die

VARIABLES
  mcpPhase,      \* where each caller is
  outcome,    \* how its call ended
  pending,    \* ids with a waiter in the table
  waiter,     \* what a waiter channel (capacity 1) holds
  writers,    \* ids whose frame a goroutine still has to write
  written,    \* ids whose frame is in the pipe
  toServer, toClient,
  reader,     \* the goroutine that owns stdout
  running,    \* running flag, stdin open
  stopping,   \* progress of shutdown: none, marked, drained, closed, stopped
  alive,      \* the server process
  stale,      \* toolsStale
  cached,     \* schema version of the client's tool list
  seen,       \* history: changes announced to the client so far
  newest,     \* history: the newest schema version the client has had
  version,    \* schema version of the server
  notes, unsolicited,
  closed,     \* the runtime is closed
  readers,    \* callers that hold the read lock of the runtime
  executed    \* ids of calls the server has run

mcpVars == <<mcpPhase, outcome, pending, waiter, writers, written, toServer, toClient, reader,
          running, stopping, alive, stale, cached, seen, newest, version, notes, unsolicited,
          closed, readers, executed>>
callVars == <<mcpPhase, outcome, readers>>
tableVars == <<pending, waiter, writers, written>>
serverVars == <<version, notes, executed>>
stopVars == <<running, stopping, alive>>

Id(c, m) == [caller |-> c, method |-> m]
Ids == {Id(c, m) : c \in Callers, m \in {"list", "call"}}
Bound == 0
Empty == [kind |-> "empty"]
ClosedResult == [kind |-> "closed"]
At(c, p) == mcpPhase[c] = p
Done == stopping \in {"closed", "stopped"}
IsRunning == running /\ ~ Done

McpInit ==
  /\ mcpPhase = [c \in Callers |-> "start"] /\ outcome = [c \in Callers |-> "none"]
  /\ pending = {} /\ waiter = [i \in Ids |-> Empty] /\ writers = {} /\ written = {}
  /\ toServer = <<>> /\ toClient = <<>> /\ reader = [at |-> "read"]
  /\ running = TRUE /\ stopping = "none" /\ alive = TRUE
  /\ stale = FALSE /\ cached = Bound /\ seen = 0 /\ newest = Bound /\ version = 0
  /\ notes = 0 /\ unsolicited = 0
  /\ closed = FALSE /\ readers = {} /\ executed = {}

Move(c, p) == mcpPhase' = [mcpPhase EXCEPT ![c] = p]
Finish(c, how) ==
  /\ Move(c, "done")
  /\ outcome' = [outcome EXCEPT ![c] = how]
  /\ readers' = readers \ {c}

(* The call or its refresh failed; a failed refresh is owed again. *)
Fail(c, m, how) == Finish(c, how) /\ stale' = (stale \/ m = "list")
-----------------------------------------------------------------------------
(* The caller. *)

Validate(c) ==
  /\ At(c, "start")
  /\ IF closed \/ ~ IsRunning \/ cached # Bound
     THEN Finish(c, "blocked")
     ELSE Move(c, "validated") /\ UNCHANGED <<outcome, readers>>
  /\ UNCHANGED <<tableVars, toServer, toClient, reader, stopVars, stale, cached, seen, newest, serverVars, unsolicited, closed>>

(* binding.call holds the read lock of the runtime until the call ends. *)
Enter(c) ==
  /\ At(c, "validated")
  /\ IF closed \/ ~ IsRunning
     THEN Finish(c, "blocked")
     ELSE /\ Move(c, "swap") /\ readers' = readers \cup {c} /\ UNCHANGED outcome
  /\ UNCHANGED <<tableVars, toServer, toClient, reader, stopVars, stale, cached, seen, newest, serverVars, unsolicited, closed>>

(* A stale tool list is refreshed by the caller that clears the flag. *)
Swap(c) ==
  /\ At(c, "swap")
  /\ Move(c, IF stale THEN "list" ELSE "call")
  /\ stale' = FALSE
  /\ UNCHANGED <<outcome, readers, tableVars, toServer, toClient, reader, stopVars, cached, seen, newest, serverVars, unsolicited, closed>>

Writing(m) == IF m = "list" THEN "write_list" ELSE "write_call"
Waiting(m) == IF m = "list" THEN "wait_list" ELSE "wait_call"
Canceling(m) == IF m = "list" THEN "cancel_list" ELSE "cancel_call"

(* addPending: the running flag is read before the table is locked. *)
Register(c, m) ==
  /\ At(c, m)
  /\ \/ /\ ~ running \/ Done \/ Cardinality(pending) >= MaxPending
        /\ Fail(c, m, "error")
        /\ UNCHANGED tableVars
     \/ /\ ~ Done /\ Cardinality(pending) < MaxPending
        /\ pending' = pending \cup {Id(c, m)}
        /\ writers' = writers \cup {Id(c, m)}
        /\ Move(c, Writing(m))
        /\ UNCHANGED <<outcome, readers, stale, waiter, written>>
  /\ UNCHANGED <<toServer, toClient, reader, stopVars, cached, seen, newest, serverVars, unsolicited, closed>>

(* The goroutine that writes a frame; it gives up once stdin is gone. *)
WriteFrame(i) ==
  /\ i \in writers
  /\ writers' = writers \ {i}
  /\ IF running /\ alive
     THEN toServer' = Append(toServer, i) /\ written' = written \cup {i}
     ELSE UNCHANGED <<toServer, written>>
  /\ UNCHANGED <<callVars, pending, waiter, toClient, reader, stopVars, stale, cached, seen, newest, serverVars, unsolicited, closed>>

Written(c, m) ==
  /\ At(c, Writing(m))
  /\ \/ Id(c, m) \in written /\ Move(c, Waiting(m)) /\ UNCHANGED <<outcome, readers, stale, pending>>
     \/ /\ Done \/ Id(c, m) \notin writers \cup written
        /\ Fail(c, m, "error") /\ pending' = pending \ {Id(c, m)}
  /\ UNCHANGED <<waiter, writers, written, toServer, toClient, reader, stopVars, cached, seen, newest, serverVars, unsolicited, closed>>

BeginShutdown ==
  /\ running' = FALSE
  /\ stopping' = IF stopping = "none" THEN "marked" ELSE stopping

(* The context expires during the write: delivery is unknown, so the whole *)
(* generation is closed before the caller is told.                         *)
WriteTimeout(c, m) ==
  /\ Timeouts /\ At(c, Writing(m))
  /\ Move(c, Canceling(m))
  /\ BeginShutdown
  /\ UNCHANGED <<outcome, readers, tableVars, toServer, toClient, reader, alive, stale, cached, seen, newest, serverVars, unsolicited, closed>>

Canceled(c, m) ==
  /\ At(c, Canceling(m)) /\ stopping = "stopped"
  /\ Fail(c, m, "canceled") /\ pending' = pending \ {Id(c, m)}
  /\ UNCHANGED <<waiter, writers, written, toServer, toClient, reader, stopVars, cached, seen, newest, serverVars, unsolicited, closed>>

(* The answer of a refresh replaces the tool list; the call follows. *)
Receive(c, m) ==
  /\ At(c, Waiting(m)) /\ waiter[Id(c, m)] # Empty
  /\ IF waiter[Id(c, m)] = ClosedResult
     THEN Fail(c, m, "error") /\ UNCHANGED <<cached, newest>>
     ELSE IF m = "list"
          THEN /\ cached' = waiter[Id(c, m)].version
               /\ newest' = IF cached' > newest THEN cached' ELSE newest
               /\ Move(c, "call") /\ UNCHANGED <<outcome, readers, stale>>
          ELSE Finish(c, "ok") /\ UNCHANGED <<cached, newest, stale>>
  /\ UNCHANGED <<tableVars, toServer, toClient, reader, stopVars, seen, serverVars, unsolicited, closed>>

GiveUp(c, m) ==
  /\ At(c, Waiting(m))
  /\ \/ Timeouts /\ Fail(c, m, "timeout")
     \/ Done /\ waiter[Id(c, m)] = Empty /\ Fail(c, m, "error")
  /\ pending' = pending \ {Id(c, m)}
  /\ UNCHANGED <<waiter, writers, written, toServer, toClient, reader, stopVars, cached, seen, newest, serverVars, unsolicited, closed>>
-----------------------------------------------------------------------------
(* The reader. *)

(* A frame nobody waits for: the client survives a bounded number. *)
Unsolicited ==
  /\ unsolicited' = unsolicited + 1
  /\ IF unsolicited + 1 > MaxUnsolicited
     THEN BeginShutdown /\ reader' = [at |-> "ended"]
     ELSE UNCHANGED <<running, stopping, reader>>

dispatchFrame_Oldest ==
  /\ reader.at = "read" /\ toClient # <<>>
  /\ toClient' = Tail(toClient)
  /\ LET f == Head(toClient)
     IN  \/ /\ f.kind = "response" /\ pending # {}
            /\ \E i \in pending :
                 /\ i.method = f.id.method
                 /\ reader' = [at |-> "deliver", id |-> i, result |-> f]
                 /\ pending' = pending \ {i}
            /\ UNCHANGED <<running, stopping, unsolicited, stale, seen>>
         \/ /\ f.kind # "response" \/ pending = {}
            /\ Unsolicited
            /\ stale' = (stale \/ f.kind = "changed")
            /\ seen' = IF f.kind = "changed" THEN f.version ELSE seen
            /\ UNCHANGED pending
  /\ UNCHANGED <<callVars, waiter, writers, written, toServer, alive, cached, newest, serverVars, closed>>

dispatchFrame ==
  /\ reader.at = "read" /\ toClient # <<>>
  /\ toClient' = Tail(toClient)
  /\ LET f == Head(toClient)
     IN  \/ /\ f.kind = "response" /\ f.id \in pending
            /\ reader' = [at |-> "deliver", id |-> f.id, result |-> f]
            /\ pending' = pending \ {f.id}
            /\ UNCHANGED <<running, stopping, unsolicited, stale, seen>>
         \/ /\ f.kind = "response" => f.id \notin pending
            /\ Unsolicited
            /\ stale' = (stale \/ f.kind = "changed")
            /\ seen' = IF f.kind = "changed" THEN f.version ELSE seen
            /\ UNCHANGED pending
  /\ UNCHANGED <<callVars, waiter, writers, written, toServer, alive, cached, newest, serverVars, closed>>

(* The send on the waiter channel, after the table was unlocked. *)
Deliver ==
  /\ reader.at = "deliver" /\ waiter[reader.id] = Empty
  /\ waiter' = [waiter EXCEPT ![reader.id] = reader.result]
  /\ reader' = [at |-> "read"]
  /\ UNCHANGED <<callVars, pending, writers, written, toServer, toClient, stopVars, stale, cached, seen, newest, serverVars, unsolicited, closed>>

(* The end of stdout closes the generation: the process may live on. *)
ReadEOF ==
  /\ reader.at = "read" /\ toClient = <<>> /\ ~ alive
  /\ reader' = [at |-> "ended"]
  /\ BeginShutdown
  /\ UNCHANGED <<callVars, tableVars, toServer, toClient, alive, stale, cached, seen, newest, serverVars, unsolicited, closed>>
-----------------------------------------------------------------------------
(* shutdown, once. *)

DrainPending ==
  /\ stopping = "marked" /\ stopping' = "drained"
  /\ waiter' = [i \in Ids |-> IF i \in pending /\ waiter[i] = Empty THEN ClosedResult ELSE waiter[i]]
  /\ pending' = {}
  /\ UNCHANGED <<callVars, writers, written, toServer, toClient, reader, running, alive, stale, cached, seen, newest, serverVars, unsolicited, closed>>

CloseDone ==
  /\ stopping = "drained" /\ stopping' = "closed"
  /\ UNCHANGED <<callVars, tableVars, toServer, toClient, reader, running, alive, stale, cached, seen, newest, serverVars, unsolicited, closed>>

StopProcess ==
  /\ stopping = "closed" /\ stopping' = "stopped"
  /\ alive' = FALSE /\ toServer' = <<>>
  /\ UNCHANGED <<callVars, tableVars, toClient, reader, running, stale, cached, seen, newest, serverVars, unsolicited, closed>>

(* Close of the runtime: the flag first, then the clients under the write  *)
(* lock, which waits for the calls in progress.                            *)
CloseRuntime ==
  /\ ~ closed /\ closed' = TRUE
  /\ UNCHANGED <<callVars, tableVars, toServer, toClient, reader, stopVars, stale, cached, seen, newest, serverVars, unsolicited>>

CloseClients ==
  /\ closed /\ readers = {} /\ stopping = "none"
  /\ BeginShutdown
  /\ UNCHANGED <<callVars, tableVars, toServer, toClient, reader, alive, stale, cached, seen, newest, serverVars, unsolicited, closed>>
-----------------------------------------------------------------------------
(* The server process (external). *)

ServerUnchanged == UNCHANGED <<callVars, tableVars, reader, running, stopping, stale, cached, seen, newest, unsolicited, closed>>

ServerTakes ==
  /\ alive /\ toServer # <<>>
  /\ toServer' = Tail(toServer)
  /\ toClient' = Append(toClient, [kind |-> "response", id |-> Head(toServer), version |-> version])
  /\ executed' = executed \cup {i \in {Head(toServer)} : i.method = "call"}
  /\ UNCHANGED <<alive, version, notes>> /\ ServerUnchanged

ServerChangesTools ==
  /\ alive /\ version < MaxVersion
  /\ version' = version + 1
  /\ toClient' = Append(toClient, [kind |-> "changed", version |-> version + 1])
  /\ UNCHANGED <<alive, toServer, notes, executed>> /\ ServerUnchanged

ServerNotifies ==
  /\ alive /\ notes < MaxNotes
  /\ notes' = notes + 1
  /\ toClient' = Append(toClient, [kind |-> "note"])
  /\ UNCHANGED <<alive, toServer, version, executed>> /\ ServerUnchanged

McpServerDies ==
  /\ Crashes /\ alive /\ alive' = FALSE
  /\ UNCHANGED <<toServer, toClient, serverVars>> /\ ServerUnchanged

Server == ServerTakes \/ ServerChangesTools \/ ServerNotifies \/ McpServerDies

Caller(c) ==
  \/ Validate(c) \/ Enter(c) \/ Swap(c)
  \/ \E m \in {"list", "call"} :
       \/ Register(c, m) \/ Written(c, m) \/ WriteTimeout(c, m) \/ Canceled(c, m)
       \/ Receive(c, m) \/ GiveUp(c, m)

Reader == dispatchFrame \/ Deliver \/ ReadEOF
Shutdown == DrainPending \/ CloseDone \/ StopProcess

McpNext ==
  \/ \E c \in Callers : Caller(c)
  \/ \E i \in Ids : WriteFrame(i)
  \/ Reader \/ Shutdown
  \/ CloseRuntime \/ CloseClients
  \/ Server

McpSpec == McpInit /\ [][McpNext]_mcpVars
-----------------------------------------------------------------------------
(* The table holds only calls in progress, within its limit.               *)
McpTypeOK ==
  /\ \A i \in pending : mcpPhase[i.caller] \in {Writing(i.method), Waiting(i.method), Canceling(i.method)}
  /\ Cardinality(pending) <= MaxPending
  /\ readers = {c \in Callers : mcpPhase[c] \notin {"start", "validated", "done"}}
  /\ cached \in 0 .. MaxVersion /\ version \in 0 .. MaxVersion
  /\ stopping \in {"none", "marked", "drained", "closed", "stopped"}

(* The one reader never blocks on a waiter: whoever takes an id out of the *)
(* table is the only one to answer it.                                     *)
ReaderNeverBlocks == reader.at = "deliver" => waiter[reader.id] = Empty

(* A caller is told of success only for a call of its own that the server  *)
(* has run, whatever was late, repeated or abandoned.                      *)
AnswersOwn == \A c \in Callers : outcome[c] = "ok" => Id(c, "call") \in executed

(* An announced change is not forgotten: until a list that shows it has     *)
(* been received, the list is marked stale or some call is refreshing it.   *)
(* What has been received may be overwritten once more by the answer of an  *)
(* older refresh that was still being delivered; discoverTools compares     *)
(* nothing, and then, and only then, the list is out of date unmarked.      *)
ChangeOwed ==
  running =>
    \/ seen <= newest
    \/ stale \/ \E c \in Callers : mcpPhase[c] \in {"list", "write_list", "wait_list", "cancel_list"}

=============================================================================
