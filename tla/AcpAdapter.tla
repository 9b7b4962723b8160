------------------------------ MODULE AcpAdapter ------------------------------
(***************************************************************************)
(* One newline-delimited JSON-RPC connection of the Agent Client Protocol: *)
(* the reader that starts one goroutine per request, the router of the     *)
(* session methods, the calls the agent makes back to the client, the      *)
(* writer with its bounded queue, and the shutdown that joins them all     *)
(* (src/internal/acp).                                                     *)
(*                                                                         *)
(* Requests are numbered in the order the client sends them.  A session    *)
(* state object of the code is named by the request that created it, so    *)
(* that two objects registered one after the other under the same session  *)
(* id are told apart, as their pointers tell them apart in the code.  Each *)
(* prompt makes at most one call back to the client (RequestPermission).   *)
(* The backend is an environment: it may succeed, fail, and it honours     *)
(* the cancellation of its context.                                        *)
(***************************************************************************)
EXTENDS Integers, Sequences, SequencesExt, FiniteSets

CONSTANTS
  Sessions,       \* session ids
  Ids,            \* JSON-RPC ids the client uses for its requests
  Script,         \* bound: the methods the client may use in its n-th request
  MaxInflight,    \* Options.MaxInflight
  WriteQueue,     \* Options.WriteQueue
  MaxCancels,     \* bound: cancellations the client sends
  MaxCalls,       \* bound: calls the agent makes to the client
  Negotiated,     \* the behaviour starts after a completed initialize
  MayEnd          \* the connection may be interrupted or shut down

Reqs  == DOMAIN Script
None  == 0

VARIABLES
  conn,        \* "open", "cancelled" (its context), "closed", "stopped"
  writer,      \* the writer goroutine runs
  initialized, \* "no", "busy" (initializing), "yes"
  sessions,    \* session id -> state object (the request that created it) or None
  obj,         \* state object -> [prompt, cancelled]
  sem,         \* slots taken
  inbound,     \* requests registered under their ids
  req,         \* request -> its frame and where its goroutine is
  call,        \* request -> the call its prompt makes to the client
  pending,     \* ids of the calls that await a response
  nextRequest, \* next id of a call
  writeQ,      \* jobs for the writer
  tasks,       \* spawned backend.CancelSession: sets of prompts the client meant
  reader,      \* the request whose refusal the reader is writing, or None
  cancels,     \* cancellations sent so far (bound)
  consent      \* prompts whose call the client has granted

connectionVars == <<conn, writer, initialized, sessions, obj, sem, inbound, req, call, pending,
          nextRequest, writeQ, tasks, reader, cancels, consent>>

Unsent == [st |-> "unsent", id |-> None, method |-> "none", sess |-> None, obj |-> None,
           created |-> FALSE, ctx |-> FALSE, ans |-> "none", fair |-> FALSE,
           stopped |-> FALSE, asked |-> FALSE]
NoCall == [st |-> "none", id |-> None, ctx |-> FALSE, resp |-> "none"]

ConnectionInit ==
  /\ conn = "open" /\ writer = TRUE /\ initialized = IF Negotiated THEN "yes" ELSE "no"
  /\ sessions = [s \in Sessions |-> None]
  /\ obj = [o \in Reqs |-> [prompt |-> None, cancelled |-> FALSE]]
  /\ sem = 0 /\ inbound = {}
  /\ req = [r \in Reqs |-> Unsent]
  /\ call = [r \in Reqs |-> NoCall]
  /\ pending = {} /\ nextRequest = 1
  /\ writeQ = <<>> /\ tasks = <<>> /\ reader = None
  /\ cancels = 0 /\ consent = {}

Sent       == {r \in Reqs : req[r].st # "unsent"}
Unanswered == {r \in Sent : req[r].st # "answered"}
Prompting(s) == {r \in Reqs : req[r].st = "prompting" /\ req[r].sess = s}

-----------------------------------------------------------------------------
(* The reader. *)

\* The client keeps to the protocol when it sends r: it has fewer than MaxInflight
\* requests whose answers it has not read, none of them under this id and, for a
\* prompt, none that is a prompt of the same session.
Conforming(m, s, i) ==
  /\ Cardinality(Unanswered) < MaxInflight
  /\ \A q \in Unanswered : req[q].id # i
  /\ \A q \in Unanswered : ~(m = "prompt" /\ req[q].method = "prompt" /\ req[q].sess = s)

Receive(r, m, s, i) ==
  LET frame == [Unsent EXCEPT !.id = i, !.method = m, !.sess = s, !.fair = Conforming(m, s, i)]
      Refuse(why) == /\ req' = [req EXCEPT ![r] = [frame EXCEPT !.st = "reply", !.ans = why]]
                     /\ reader' = r /\ UNCHANGED <<inbound, sem>>
  IN /\ conn \in {"open", "cancelled"} /\ reader = None
     /\ r = Cardinality(Sent) + 1
     /\ IF sem >= MaxInflight THEN Refuse("limit")
        ELSE IF \E q \in inbound : req[q].id = i THEN Refuse("duplicate")
        ELSE /\ req' = [req EXCEPT ![r] = [frame EXCEPT !.st = "dispatch", !.ctx = conn = "cancelled"]]
             /\ inbound' = inbound \cup {r} /\ sem' = sem + 1
             /\ UNCHANGED reader
     /\ UNCHANGED <<conn, writer, initialized, sessions, obj, call, pending, nextRequest, writeQ,
                    tasks, cancels, consent>>

\* Cancelling the context of a request cancels those derived from it.
CancelCtx(R) ==
  /\ req' = [r \in Reqs |-> IF r \in R THEN [req[r] EXCEPT !.ctx = TRUE] ELSE req[r]]
  /\ call' = [r \in Reqs |-> IF r \in R THEN [call[r] EXCEPT !.ctx = TRUE] ELSE call[r]]

\* handleNotification, $/cancel_request.
CancelRequest(i) ==
  /\ conn \in {"open", "cancelled"} /\ reader = None /\ cancels < MaxCancels
  /\ cancels' = cancels + 1
  /\ CancelCtx({r \in inbound : req[r].id = i})
  /\ UNCHANGED <<conn, writer, initialized, sessions, obj, sem, inbound, pending, nextRequest,
                 writeQ, tasks, reader, consent>>

\* markSessionCancelled: the object is marked, its prompt and the calls made in the
\* name of the session are cancelled.
MarkSessionCancelled(s, R) ==
  /\ obj' = [obj EXCEPT ![sessions[s]].cancelled = TRUE]
  /\ CancelCtx(R)

\* The prompt of the session's object and the prompts with a pending call of s.
CancelledBy(s) ==
  {r \in Reqs : r = obj[sessions[s]].prompt}
    \cup {r \in Prompting(s) : call[r].st \in {"sending", "waiting"}}

\* session/cancel: mark, then hand the cancellation to the backend on a goroutine
\* of its own.
SessionCancel(s) ==
  /\ conn \in {"open", "cancelled"} /\ reader = None /\ cancels < MaxCancels
  /\ cancels' = cancels + 1
  /\ sessions[s] # None
  /\ MarkSessionCancelled(s, CancelledBy(s))
  /\ tasks' = Append(tasks, [sess |-> s, meant |-> Prompting(s)])
  /\ UNCHANGED <<conn, writer, initialized, sessions, sem, inbound, pending, nextRequest, writeQ,
                 reader, consent>>

\* The spawned goroutine reaches backend.CancelSession, which cancels whatever run
\* of the session is active by then.
BackendCancel ==
  /\ tasks # <<>>
  /\ req' = [r \in Reqs |-> IF r \in Prompting(Head(tasks).sess)
                            THEN [req[r] EXCEPT !.stopped = TRUE,
                                                !.asked = @ \/ r \in Head(tasks).meant]
                            ELSE req[r]]
  /\ tasks' = Tail(tasks)
  /\ UNCHANGED <<conn, writer, initialized, sessions, obj, sem, inbound, call, pending,
                 nextRequest, writeQ, reader, cancels, consent>>

\* resolveResponse: the client answers the call of prompt r that it was sent, once
\* more or long after it ended; the answer goes to the call pending under its id.
Resolve(r, v) ==
  LET k == call[r].id IN
  /\ conn \in {"open", "cancelled"} /\ reader = None
  /\ k # None /\ call[r].st # "sending"
  /\ consent' = IF v = "grant" THEN consent \cup {r} ELSE consent
  /\ call' = [q \in Reqs |-> IF k \in pending /\ call[q].id = k /\ call[q].st = "waiting"
                                /\ call[q].resp = "none"
                             THEN [call[q] EXCEPT !.resp = v] ELSE call[q]]
  /\ UNCHANGED <<conn, writer, initialized, sessions, obj, sem, inbound, req, pending, nextRequest,
                 writeQ, tasks, reader, cancels>>

-----------------------------------------------------------------------------
(* The router: each method up to its backend call, and from it to its answer. *)

Dispatched(r, m) == req[r].st = "dispatch" /\ req[r].method = m
Answer(r, a)     == [req EXCEPT ![r].st = "ended", ![r].ans = a]
RouterUnchanged  == UNCHANGED <<conn, writer, sem, inbound, call, pending, nextRequest, writeQ,
                                tasks, reader, cancels, consent>>

\* dispatch: every method but initialize waits for it to have completed.
NotInitialized(r) ==
  /\ req[r].st = "dispatch" /\ req[r].method # "initialize" /\ initialized # "yes"
  /\ req' = Answer(r, "uninitialized")
  /\ UNCHANGED <<initialized, sessions, obj>> /\ RouterUnchanged

\* dispatchInitialize, to the backend.
InitializeStart(r) ==
  /\ Dispatched(r, "initialize")
  /\ IF initialized # "no"
       THEN req' = Answer(r, "once") /\ UNCHANGED initialized
       ELSE req' = [req EXCEPT ![r].st = "backend"] /\ initialized' = "busy"
  /\ UNCHANGED <<sessions, obj>> /\ RouterUnchanged

\* dispatchInitialize, from the backend.
InitializeEnd(r, ok) ==
  /\ req[r].st = "backend" /\ req[r].method = "initialize"
  /\ IF ok /\ ~req[r].ctx
       THEN req' = Answer(r, "ok") /\ initialized' = "yes"
       ELSE req' = Answer(r, "error") /\ initialized' = "no"
  /\ UNCHANGED <<sessions, obj>> /\ RouterUnchanged

Ready(r, m) == Dispatched(r, m) /\ initialized = "yes"

\* dispatchNewSession: the session is registered after the backend made it; an id
\* that is registered already is an error.
NewSession(r, ok) ==
  /\ Ready(r, "new")
  /\ IF ok /\ ~req[r].ctx /\ sessions[req[r].sess] = None
       THEN req' = Answer(r, "ok") /\ sessions' = [sessions EXCEPT ![req[r].sess] = r]
       ELSE req' = Answer(r, "error") /\ UNCHANGED sessions
  /\ UNCHANGED <<initialized, obj>> /\ RouterUnchanged

\* reserveSession of dispatchLoadSession and dispatchResumeSession.
LoadStart(r) ==
  LET o == sessions[req[r].sess] IN
  /\ Ready(r, "load")
  /\ IF o # None
       THEN /\ UNCHANGED sessions
            /\ req' = IF obj[o].prompt # None THEN Answer(r, "active")
                      ELSE [req EXCEPT ![r].st = "backend"]
       ELSE /\ sessions' = [sessions EXCEPT ![req[r].sess] = r]
            /\ req' = [req EXCEPT ![r].st = "backend", ![r].created = TRUE]
  /\ UNCHANGED <<initialized, obj>> /\ RouterUnchanged

\* The backend has loaded the session or not; rollbackSession forgets the session
\* when this request had reserved it.
LoadEnd(r, ok) ==
  /\ req[r].st = "backend" /\ req[r].method = "load"
  /\ IF ok /\ ~req[r].ctx
       THEN req' = Answer(r, "ok") /\ UNCHANGED sessions
       ELSE /\ req' = Answer(r, "error")
            /\ sessions' = IF req[r].created THEN [sessions EXCEPT ![req[r].sess] = None]
                           ELSE sessions
  /\ UNCHANGED <<initialized, obj>> /\ RouterUnchanged

\* dispatchDeleteSession: the check for an active prompt.
DeleteStart(r) ==
  LET o == sessions[req[r].sess] IN
  /\ Ready(r, "delete")
  /\ req' = IF o # None /\ obj[o].prompt # None THEN Answer(r, "active")
            ELSE [req EXCEPT ![r].st = "backend"]
  /\ UNCHANGED <<initialized, sessions, obj>> /\ RouterUnchanged

\* dispatchCloseSession: the session is marked and the backend told to cancel it.
CloseStart(r) ==
  LET s == req[r].sess IN
  /\ Ready(r, "close")
  /\ IF sessions[s] = None
       THEN req' = Answer(r, "notfound") /\ UNCHANGED <<obj, call>>
       ELSE LET hit == CancelledBy(s) IN
            /\ obj' = [obj EXCEPT ![sessions[s]].cancelled = TRUE]
            /\ call' = [q \in Reqs |-> IF q \in hit THEN [call[q] EXCEPT !.ctx = TRUE] ELSE call[q]]
            /\ req' = [q \in Reqs |->
                 IF q = r THEN [req[q] EXCEPT !.st = "backend"]
                 ELSE [req[q] EXCEPT !.ctx = @ \/ q \in hit,
                                     !.stopped = @ \/ q \in Prompting(s),
                                     !.asked = @ \/ q \in Prompting(s)]]
  /\ UNCHANGED <<initialized, sessions, conn, writer, sem, inbound, pending, nextRequest, writeQ,
                 tasks, reader, cancels, consent>>

\* Delete and close end: the session leaves the table when the backend agreed.
RemoveEnd(r, ok) ==
  /\ req[r].st = "backend" /\ req[r].method \in {"delete", "close"}
  /\ IF ok
       THEN req' = Answer(r, "ok") /\ sessions' = [sessions EXCEPT ![req[r].sess] = None]
       ELSE req' = Answer(r, "error") /\ UNCHANGED sessions
  /\ UNCHANGED <<initialized, obj>> /\ RouterUnchanged

\* dispatchSetMode, dispatchSetConfig: the session must be known.
Configure(r, ok) ==
  /\ Ready(r, "config")
  /\ req' = Answer(r, IF sessions[req[r].sess] = None THEN "notfound"
                      ELSE IF ok /\ ~req[r].ctx THEN "ok" ELSE "error")
  /\ UNCHANGED <<initialized, sessions, obj>> /\ RouterUnchanged

\* dispatchPrompt, to the backend: one prompt for each state object.
PromptStart(r) ==
  LET o == sessions[req[r].sess] IN
  /\ Ready(r, "prompt")
  /\ IF o = None THEN req' = Answer(r, "notfound") /\ UNCHANGED obj
     ELSE IF obj[o].prompt # None THEN req' = Answer(r, "busy") /\ UNCHANGED obj
     ELSE /\ req' = [req EXCEPT ![r].st = "prompting", ![r].obj = o]
          /\ obj' = [obj EXCEPT ![o] = [prompt |-> r, cancelled |-> FALSE]]
  /\ UNCHANGED <<initialized, sessions>> /\ RouterUnchanged

\* What the prompt answers, after the backend returned.
StopReason(r, ok) ==
  IF obj[req[r].obj].cancelled THEN "stopCancelled"
  ELSE IF req[r].ctx THEN "cancelled"
  ELSE IF req[r].stopped THEN "backendCancelled"
  ELSE IF ok THEN "endTurn" ELSE "error"

PromptEnd(r, ok) ==
  LET o == req[r].obj IN
  /\ req[r].st = "prompting" /\ call[r].st \notin {"sending", "waiting"}
  /\ req' = Answer(r, StopReason(r, ok))
  /\ obj' = IF sessions[req[r].sess] = o /\ obj[o].prompt = r
              THEN [obj EXCEPT ![o].prompt = None] ELSE obj
  /\ UNCHANGED <<initialized, sessions>> /\ RouterUnchanged

-----------------------------------------------------------------------------
(* The calls to the client. *)

CallStart(r) ==
  LET o == sessions[req[r].sess] IN
  /\ req[r].st = "prompting" /\ call[r].st = "none" /\ nextRequest <= MaxCalls
  /\ IF o = None \/ obj[o].prompt = None \/ conn = "closed" \/ Cardinality(pending) >= MaxInflight
       THEN /\ call' = [call EXCEPT ![r].st = "failed"]
            /\ UNCHANGED <<pending, nextRequest>>
       ELSE /\ call' = [call EXCEPT ![r] = [st |-> "sending", id |-> nextRequest,
                                            ctx |-> req[r].ctx, resp |-> "none"]]
            /\ pending' = pending \cup {nextRequest}
            /\ nextRequest' = nextRequest + 1
  /\ UNCHANGED <<conn, writer, initialized, sessions, obj, sem, inbound, req, writeQ, tasks,
                 reader, cancels, consent>>

\* The call returns v and its registration goes.
CallEnds(r, v) ==
  /\ call' = [call EXCEPT ![r].st = v]
  /\ pending' = pending \ {call[r].id}

\* send gives up: the context of the call or of the connection is done.
CallNotSent(r) ==
  /\ call[r].st = "sending" /\ (call[r].ctx \/ conn # "open")
  /\ CallEnds(r, "cancelled")
  /\ UNCHANGED <<conn, writer, initialized, sessions, obj, sem, inbound, req, nextRequest, writeQ,
                 tasks, reader, cancels, consent>>

CallCancelled(r) ==
  /\ call[r].st = "waiting" /\ (call[r].ctx \/ conn # "open")
  /\ CallEnds(r, "cancelled")
  /\ writeQ' = IF Len(writeQ) < WriteQueue
                 THEN Append(writeQ, [kind |-> "cancel", r |-> r]) ELSE writeQ
  /\ UNCHANGED <<conn, writer, initialized, sessions, obj, sem, inbound, req, nextRequest, tasks,
                 reader, cancels, consent>>

\* call takes the response; a context that is done by then wins over it.
CallAnswered_TakeLate(r) ==
  /\ call[r].st = "waiting" /\ call[r].resp # "none"
  /\ CallEnds(r, IF call[r].resp = "grant" THEN "granted" ELSE "denied")
  /\ UNCHANGED <<conn, writer, initialized, sessions, obj, sem, inbound, req, nextRequest, writeQ,
                 tasks, reader, cancels, consent>>
CallAnswered(r) ==
  /\ call[r].st = "waiting" /\ call[r].resp # "none"
  /\ CallEnds(r, IF call[r].ctx THEN "cancelled"
                 ELSE IF call[r].resp = "grant" THEN "granted" ELSE "denied")
  /\ UNCHANGED <<conn, writer, initialized, sessions, obj, sem, inbound, req, nextRequest, writeQ,
                 tasks, reader, cancels, consent>>

-----------------------------------------------------------------------------
(* The end of a request, the writer and the shutdown. *)

Finish(r) ==
  /\ req[r].st = "ended"
  /\ inbound' = inbound \ {r} /\ sem' = sem - 1
  /\ req' = [req EXCEPT ![r].st = "reply", ![r].ctx = TRUE]
  /\ UNCHANGED <<conn, writer, initialized, sessions, obj, call, pending, nextRequest, writeQ,
                 tasks, reader, cancels, consent>>

\* send: a job enters the queue when it has room.
Queued(kind, r) == \E n \in DOMAIN writeQ : writeQ[n] = [kind |-> kind, r |-> r]

Enqueue(r, kind) ==
  /\ conn = "open" /\ Len(writeQ) < WriteQueue /\ ~Queued(kind, r)
  /\ \/ kind = "reply" /\ req[r].st = "reply"
     \/ kind = "call" /\ call[r].st = "sending"
  /\ writeQ' = Append(writeQ, [kind |-> kind, r |-> r])
  /\ UNCHANGED <<conn, writer, initialized, sessions, obj, sem, inbound, req, call, pending,
                 nextRequest, tasks, reader, cancels, consent>>

\* The sender of a reply returns: to its end, or for a refusal back to reading.
Replied(r, st) ==
  /\ req' = [req EXCEPT ![r].st = st]
  /\ reader' = IF reader = r THEN None ELSE reader

\* writerLoop: the head of the queue is written, or skipped when the context of
\* the call that wants it is done.
Write ==
  LET job == Head(writeQ) IN
  /\ writer /\ conn = "open" /\ writeQ # <<>>
  /\ writeQ' = Tail(writeQ)
  /\ CASE job.kind = "reply" -> Replied(job.r, "answered") /\ UNCHANGED <<call, pending>>
       [] job.kind = "call"  -> /\ UNCHANGED <<req, reader>>
                                /\ IF call[job.r].st # "sending" THEN UNCHANGED <<call, pending>>
                                   ELSE IF call[job.r].ctx THEN CallEnds(job.r, "cancelled")
                                   ELSE call' = [call EXCEPT ![job.r].st = "waiting"] /\ UNCHANGED pending
       [] job.kind = "cancel" -> UNCHANGED <<req, reader, call, pending>>
  /\ UNCHANGED <<conn, writer, initialized, sessions, obj, sem, inbound, nextRequest, tasks,
                 cancels, consent>>

\* The write fails, or the caller of Serve cancels: the context of the connection
\* is done and, through it, every context.
Interrupt ==
  /\ MayEnd /\ conn = "open"
  /\ conn' = "cancelled"
  /\ CancelCtx(Reqs)
  /\ UNCHANGED <<writer, initialized, sessions, obj, sem, inbound, pending, nextRequest, writeQ,
                 tasks, reader, cancels, consent>>

\* Once the context is done, writerLoop returns and so do the senders of replies.
WriterExit ==
  /\ writer /\ conn # "open"
  /\ writer' = FALSE
  /\ UNCHANGED <<conn, initialized, sessions, obj, sem, inbound, req, call, pending, nextRequest,
                 writeQ, tasks, reader, cancels, consent>>

SendClosed(r) ==
  /\ conn # "open" /\ req[r].st = "reply"
  /\ Replied(r, "dropped")
  /\ UNCHANGED <<conn, writer, initialized, sessions, obj, sem, inbound, call, pending, nextRequest,
                 writeQ, tasks, cancels, consent>>

\* shutdown: the reader is at end of file or its input is closed; no request and
\* no call is accepted from here on and all the running ones are cancelled.
Shutdown ==
  /\ MayEnd /\ conn \in {"open", "cancelled"} /\ reader = None
  /\ conn' = "closed"
  /\ CancelCtx(Reqs)
  /\ UNCHANGED <<writer, initialized, sessions, obj, sem, inbound, pending, nextRequest, writeQ,
                 tasks, reader, cancels, consent>>

\* requestWG and writerWG are done and Serve returns.
Joined == /\ \A r \in Reqs : req[r].st \in {"unsent", "answered", "dropped"}
          /\ tasks = <<>> /\ ~writer

Stop ==
  /\ conn = "closed" /\ Joined
  /\ conn' = "stopped"
  /\ UNCHANGED <<writer, initialized, sessions, obj, sem, inbound, req, call, pending, nextRequest,
                 writeQ, tasks, reader, cancels, consent>>

-----------------------------------------------------------------------------
ClientStep ==
  \/ \E r \in Reqs, s \in Sessions, i \in Ids : \E m \in Script[r] : Receive(r, m, s, i)
  \/ \E i \in Ids : CancelRequest(i)
  \/ \E s \in Sessions : SessionCancel(s)
  \/ \E r \in Reqs, v \in {"grant", "deny"} : Resolve(r, v)

RequestStep(r) ==
  \/ NotInitialized(r) \/ InitializeStart(r)
  \/ LoadStart(r) \/ DeleteStart(r) \/ CloseStart(r) \/ PromptStart(r)
  \/ \E ok \in BOOLEAN : \/ InitializeEnd(r, ok) \/ NewSession(r, ok) \/ LoadEnd(r, ok)
                         \/ RemoveEnd(r, ok) \/ Configure(r, ok)
  \/ CallNotSent(r) \/ CallCancelled(r) \/ CallAnswered(r)
  \/ Finish(r) \/ SendClosed(r)
  \/ \E kind \in {"reply", "call"} : Enqueue(r, kind)

\* Steps the backend takes of its own accord while it runs a prompt.
BackendStep(r) ==
  \/ CallStart(r)
  \/ \E ok \in BOOLEAN : PromptEnd(r, ok)

ServerStep == Write \/ BackendCancel \/ WriterExit \/ Stop

ConnectionNext ==
  \/ ClientStep
  \/ \E r \in Reqs : RequestStep(r) \/ BackendStep(r)
  \/ ServerStep \/ Interrupt \/ Shutdown

ConnectionSpec == ConnectionInit /\ [][ConnectionNext]_connectionVars

-----------------------------------------------------------------------------
\* Every variable keeps to the values the connection's fields can hold, and a slot
\* is taken exactly for the requests registered as inbound (startRequest, finish).
ConnectionTypeOK ==
  /\ conn \in {"open", "cancelled", "closed", "stopped"} /\ writer \in BOOLEAN
  /\ initialized \in {"no", "busy", "yes"}
  /\ sessions \in [Sessions -> Reqs \cup {None}]
  /\ obj \in [Reqs -> [prompt : Reqs \cup {None}, cancelled : BOOLEAN]]
  /\ inbound \subseteq Reqs /\ sem = Cardinality(inbound) /\ sem <= MaxInflight
  /\ pending \subseteq 1..MaxCalls /\ nextRequest \in 1..(MaxCalls + 1)
  /\ Len(writeQ) <= WriteQueue /\ reader \in Reqs \cup {None}
  /\ \A r \in Reqs : req[r].st \in {"unsent", "dispatch", "backend", "prompting", "ended",
                                    "reply", "answered", "dropped"}

\* A client that sends its next request right after it has read a response, within
\* the inflight limit and its own ids, is never told that it has too many requests
\* inflight or that its id is still inflight; if all its requests were of that kind,
\* it is not told either that its session still has an active prompt (startRequest:
\* "must not see a stale inflight-limit failure").
ConformingServed ==
  /\ \A r \in Reqs : req[r].fair => req[r].ans \notin {"limit", "duplicate"}
  /\ (\A r \in Sent : req[r].fair) => \A r \in Reqs : req[r].ans # "busy"

\* A permission is granted by the client's answer to that very request: a late or
\* repeated answer to an earlier call never reaches another one (call's fresh ids,
\* resolveResponse).
GrantIsForThisCall ==
  \A r \in Reqs : call[r].st = "granted" => r \in consent

\* A call to the client ends in a grant only while the session of its prompt has
\* not been cancelled, whichever of the answer and the cancellation came first.
NoGrantOnceCancelled ==
  \A r \in Reqs : (call[r].st # "granted" /\ call'[r].st = "granted") =>
     ~obj[req[r].obj].cancelled /\ ~req[r].ctx

------------------------------------------------------------------------------

(***************************************************************************)
(* The bridge between the Agent Client Protocol and the agent kernel, for  *)
(* one durable session: the runtime object the bridge keeps for it, the    *)
(* prompts that run on it with their execution journal, the operations     *)
(* that load, configure, close and delete it, and the session in the store *)
(* that another adapter writes too (src/internal/acpbridge).               *)
(*                                                                         *)
(* Operations are numbered; each is one request served on its own          *)
(* goroutine.  A runtime object is named by the operation that created it. *)
(* The store is abstracted to what its compare-and-swap operations look    *)
(* at: the revision and the interruption marker.  A marker names the run   *)
(* and how many tool executions it covers.                                 *)
(***************************************************************************)
CONSTANTS
  Kinds,       \* bound: Kinds[i] is the set of requests operation i may be
  MaxEffects,  \* bound: tool executions of one prompt
  MaxOther,    \* bound: writes of the other adapter
  MaxFaults,   \* bound: store operations that fail
  MaxCrashes   \* bound: restarts of the process

Ops  == DOMAIN Kinds
BridgeNone == 0

VARIABLES
  store,      \* [exists, rev, run, n, rich, seen]: run = None means no marker;
              \* seen: the bridge has read or written this revision
  sess,       \* the runtime object registered for the session, or None
  bridgeObj,        \* runtime objects
  op,         \* operations; prev and cut belong to a load: what it put aside, and
              \* whether a close removed its object meanwhile
  open,       \* MCP runtimes that run, named by the prompts that created them
  committed,  \* prompts whose effects are in a committed transcript
  reconciled, \* prompts whose effects were reconciled explicitly
  budget      \* [other, fault, crash] used so far

bridgeVars == <<store, sess, bridgeObj, op, open, committed, reconciled, budget>>

NoObj == [rev |-> 0, recon |-> FALSE, loading |-> FALSE, starting |-> FALSE, active |-> BridgeNone,
          quarantined |-> FALSE, mcp |-> BridgeNone]
Idle  == [st |-> "idle", kind |-> "none", obj |-> BridgeNone, exp |-> 0, n |-> 0, rich |-> FALSE,
          failed |-> FALSE, effs |-> 0, ctx |-> FALSE, wait |-> BridgeNone, prev |-> NoObj,
          cut |-> FALSE]

BridgeInit ==
  /\ store = [exists |-> TRUE, rev |-> 1, run |-> BridgeNone, n |-> 0, rich |-> FALSE, seen |-> FALSE]
  /\ sess = BridgeNone
  /\ bridgeObj = [o \in Ops |-> NoObj]
  /\ op = [i \in Ops |-> Idle]
  /\ open = {} /\ committed = {} /\ reconciled = {}
  /\ budget = [other |-> 0, fault |-> 0, crash |-> 0]

-----------------------------------------------------------------------------
(* The store, as the bridge uses it. *)

Marked     == store.run # BridgeNone
Bumped     == [store EXCEPT !.rev = @ + 1, !.seen = TRUE]

CanSave(rev) == store.exists /\ ~Marked /\ store.rev = rev

\* The marker of prompt i as its journal has it is the one in the store, at the
\* journal's revision (sameSessionInterruption, UpdateInterruptedRun,
\* CommitInterruptedRun).
OwnMarker(i) ==
  /\ store.exists /\ store.rev = op[i].exp
  /\ store.run = i /\ store.n = op[i].n /\ store.rich = op[i].rich

\* A store operation fails for a reason of its own.
Fault(ok) ==
  /\ ~ok => budget.fault < MaxFaults
  /\ budget' = IF ok THEN budget ELSE [budget EXCEPT !.fault = @ + 1]

Ended(i)      == [op EXCEPT ![i].st = "ended"]
Starts(i, k)  == op[i].st = "idle" /\ k \in Kinds[i]
              /\ \A j \in Ops : j < i => op[j].st # "idle"
Goes(i, k, s) == [op EXCEPT ![i].st = s, ![i].kind = k]

-----------------------------------------------------------------------------
(* Loading, configuring, deleting and closing the session. *)

\* LoadSession reads the store before it takes the lock of the bridge.
LoadGet(i) ==
  /\ Starts(i, "load")
  /\ op' = IF ~store.exists \/ Marked THEN [Ended(i) EXCEPT ![i].kind = "load"]
           ELSE [Goes(i, "load", "got") EXCEPT ![i].exp = store.rev]
  /\ store' = [store EXCEPT !.seen = TRUE]
  /\ UNCHANGED <<sess, bridgeObj, open, committed, reconciled, budget>>

Busy(o) == bridgeObj[o].active # BridgeNone \/ bridgeObj[o].starting \/ bridgeObj[o].loading \/ bridgeObj[o].quarantined

\* LoadSession under the lock: a new object, or the existing one with what was read
\* and without its MCP runtime, which the load keeps aside.
LoadLock(i) ==
  /\ op[i].st = "got" /\ op[i].kind = "load"
  /\ IF sess # BridgeNone /\ Busy(sess)
       THEN op' = Ended(i) /\ UNCHANGED <<sess, bridgeObj>>
       ELSE LET o == IF sess = BridgeNone THEN i ELSE sess IN
            /\ sess' = o
            /\ bridgeObj' = [bridgeObj EXCEPT ![o] = [@ EXCEPT !.rev = op[i].exp, !.recon = FALSE,
                                                   !.loading = TRUE, !.mcp = BridgeNone]]
            /\ op' = [op EXCEPT ![i].st = "replaying", ![i].obj = o, ![i].prev = bridgeObj[o]]
  /\ UNCHANGED <<store, open, committed, reconciled, budget>>

BridgeLoadEnd(i, ok) ==
  LET o == op[i].obj IN
  /\ op[i].st = "replaying"
  /\ op' = Ended(i)
  /\ IF sess # o \/ ~bridgeObj[o].loading
       THEN UNCHANGED <<sess, bridgeObj, open>>
     ELSE IF ok
       THEN /\ bridgeObj' = [bridgeObj EXCEPT ![o].loading = FALSE]
            /\ open' = open \ {op[i].prev.mcp}
            /\ UNCHANGED sess
     ELSE IF o = i
       THEN sess' = BridgeNone /\ UNCHANGED <<bridgeObj, open>>
       ELSE bridgeObj' = [bridgeObj EXCEPT ![o] = op[i].prev] /\ UNCHANGED <<sess, open>>
  /\ UNCHANGED <<store, committed, reconciled, budget>>

\* SetSessionMode and the model option: saved at the revision the object holds; a
\* new mode retires the MCP runtime.
BridgeConfigure(i, ok) ==
  /\ Starts(i, "mode")
  /\ op' = [Ended(i) EXCEPT ![i].kind = "mode"]
  /\ Fault(ok)
  /\ IF /\ ok /\ sess # BridgeNone /\ ~Busy(sess) /\ ~bridgeObj[sess].recon
        /\ CanSave(bridgeObj[sess].rev)
       THEN /\ store' = Bumped
            /\ bridgeObj' = [bridgeObj EXCEPT ![sess] = [@ EXCEPT !.rev = store.rev + 1, !.mcp = BridgeNone]]
            /\ open' = open \ {bridgeObj[sess].mcp}
       ELSE UNCHANGED <<store, bridgeObj, open>>
  /\ UNCHANGED <<sess, committed, reconciled>>

\* DeleteSession reads the store, ...
DeleteGet(i) ==
  /\ Starts(i, "delete")
  /\ op' = IF store.exists THEN [Goes(i, "delete", "got") EXCEPT ![i].exp = store.rev]
           ELSE [Ended(i) EXCEPT ![i].kind = "delete"]
  /\ store' = [store EXCEPT !.seen = TRUE]
  /\ UNCHANGED <<sess, bridgeObj, open, committed, reconciled, budget>>

\* ... then deletes, under the lock, the revision its runtime holds or the one read.
DeleteLock(i) ==
  LET rev == IF sess = BridgeNone THEN op[i].exp ELSE bridgeObj[sess].rev IN
  /\ op[i].st = "got" /\ op[i].kind = "delete"
  /\ op' = Ended(i)
  /\ IF (sess # BridgeNone /\ Busy(sess)) \/ ~store.exists \/ store.rev # rev
       THEN UNCHANGED <<store, sess, open>>
       ELSE /\ store' = [store EXCEPT !.exists = FALSE]
            /\ sess' = BridgeNone
            /\ open' = IF sess = BridgeNone THEN open ELSE open \ {bridgeObj[sess].mcp}
  /\ UNCHANGED <<bridgeObj, committed, reconciled, budget>>

\* CloseSession cancels the active prompt and remembers what to wait for.
BridgeCloseStart(i) ==
  /\ Starts(i, "close")
  /\ IF sess # BridgeNone /\ (bridgeObj[sess].loading \/ bridgeObj[sess].quarantined \/ bridgeObj[sess].starting)
       THEN op' = [Ended(i) EXCEPT ![i].kind = "close"]
       ELSE LET p == IF sess = BridgeNone THEN BridgeNone ELSE bridgeObj[sess].active IN
            op' = [j \in Ops |-> IF j = i THEN [Goes(i, "close", "closing")[i] EXCEPT !.wait = p]
                                 ELSE [op[j] EXCEPT !.ctx = @ \/ j = p]]
  /\ UNCHANGED <<store, sess, bridgeObj, open, committed, reconciled, budget>>

\* The prompt has ended: whatever object is registered by now is removed, also one
\* that a load is working on, and its MCP runtime closed, unless it is quarantined.
CloseEnd(i) ==
  LET closes == sess # BridgeNone /\ ~bridgeObj[sess].quarantined IN
  /\ op[i].st = "closing"
  /\ op[i].wait # BridgeNone => op[op[i].wait].st = "ended"
  /\ op' = [j \in Ops |-> IF j = i THEN Ended(i)[i]
                         ELSE [op[j] EXCEPT !.cut = @ \/ (closes /\ op[j].st = "replaying"
                                                               /\ op[j].obj = sess)]]
  /\ IF closes
       THEN sess' = BridgeNone /\ open' = open \ {bridgeObj[sess].mcp}
       ELSE UNCHANGED <<sess, open>>
  /\ UNCHANGED <<store, bridgeObj, committed, reconciled, budget>>

\* CancelSession: the run that is active now.
CancelSession ==
  /\ sess # BridgeNone /\ bridgeObj[sess].active # BridgeNone
  /\ op' = [op EXCEPT ![bridgeObj[sess].active].ctx = TRUE]
  /\ UNCHANGED <<store, sess, bridgeObj, open, committed, reconciled, budget>>

-----------------------------------------------------------------------------
(* A prompt. *)

\* Prompt reserves the object.
Reserve(i) ==
  /\ Starts(i, "prompt")
  /\ IF sess = BridgeNone \/ Busy(sess) \/ bridgeObj[sess].recon
       THEN op' = [Ended(i) EXCEPT ![i].kind = "prompt"] /\ UNCHANGED bridgeObj
       ELSE /\ op' = [Goes(i, "prompt", "reserved") EXCEPT ![i].obj = sess]
            /\ bridgeObj' = [bridgeObj EXCEPT ![sess].starting = TRUE]
  /\ UNCHANGED <<store, sess, open, committed, reconciled, budget>>

\* The loop registry admits the run or not, and the reservation becomes the run.
Activate(i, ok) ==
  LET o == op[i].obj IN
  /\ op[i].st = "reserved"
  /\ IF ok /\ sess = o /\ bridgeObj[o].active = BridgeNone /\ bridgeObj[o].starting
       THEN /\ op' = [op EXCEPT ![i].st = "active"]
            /\ bridgeObj' = [bridgeObj EXCEPT ![o].active = i, ![o].starting = FALSE]
       ELSE /\ op' = Ended(i)
            /\ bridgeObj' = IF sess = o THEN [bridgeObj EXCEPT ![o].starting = FALSE] ELSE bridgeObj
  /\ UNCHANGED <<store, sess, open, committed, reconciled, budget>>

\* The deferred end of a prompt: the object is released if it is still registered.
Release(i) ==
  IF sess = op[i].obj /\ bridgeObj[op[i].obj].active = i
    THEN [bridgeObj EXCEPT ![op[i].obj].active = BridgeNone] ELSE bridgeObj

Owns(i) == sess = op[i].obj /\ bridgeObj[op[i].obj].active = i

\* sessionMCPRuntime: none is needed, the object's healthy one is reused, or one is
\* created, after an unhealthy one has been closed.
UseMCP(i, how) ==
  LET o == op[i].obj IN
  /\ op[i].st = "active"
  /\ IF how # "none" /\ (op[i].ctx \/ ~Owns(i))
       THEN op' = Ended(i) /\ bridgeObj' = Release(i) /\ UNCHANGED open
     ELSE CASE how = "none"   -> op' = [op EXCEPT ![i].st = "ready"] /\ UNCHANGED <<bridgeObj, open>>
            [] how = "reuse"  -> /\ bridgeObj[o].mcp # BridgeNone
                                 /\ op' = [op EXCEPT ![i].st = "ready"] /\ UNCHANGED <<bridgeObj, open>>
            [] how = "create" -> /\ op' = [op EXCEPT ![i].st = "creating"]
                                 /\ bridgeObj' = [bridgeObj EXCEPT ![o].mcp = BridgeNone]
                                 /\ open' = (open \ {bridgeObj[o].mcp}) \cup {i}
  /\ UNCHANGED <<store, sess, committed, reconciled, budget>>

\* createSessionMCPRuntime, once the factory has returned: the object takes the
\* runtime, or it is closed again.
CreatedMCP(i, ok) ==
  LET o == op[i].obj IN
  /\ op[i].st = "creating"
  /\ IF ok /\ ~op[i].ctx /\ Owns(i)
       THEN /\ bridgeObj' = [bridgeObj EXCEPT ![o].mcp = i]
            /\ op' = [op EXCEPT ![i].st = "ready"] /\ UNCHANGED open
       ELSE op' = Ended(i) /\ bridgeObj' = Release(i) /\ open' = open \ {i}
  /\ UNCHANGED <<store, sess, committed, reconciled, budget>>

\* The user message is saved at the revision of the object, and the run starts.
SaveUser(i, ok) ==
  LET o == op[i].obj IN
  /\ op[i].st = "ready"
  /\ Fault(ok)
  /\ IF ok /\ CanSave(bridgeObj[o].rev)
       THEN /\ store' = Bumped
            /\ bridgeObj' = IF sess = o THEN [bridgeObj EXCEPT ![o].rev = store.rev + 1] ELSE bridgeObj
            /\ op' = [op EXCEPT ![i].st = "running", ![i].exp = store.rev + 1]
       ELSE op' = Ended(i) /\ bridgeObj' = Release(i) /\ UNCHANGED store
  /\ UNCHANGED <<sess, open, committed, reconciled>>

\* failLocked: the journal is of no more use and its object is quarantined.
Quarantine(i) == IF sess = op[i].obj THEN [bridgeObj EXCEPT ![op[i].obj].quarantined = TRUE] ELSE bridgeObj

\* promptExecutionJournal.active.
JournalActive(i) == Owns(i) /\ ~bridgeObj[op[i].obj].loading /\ ~bridgeObj[op[i].obj].quarantined

Record(i, ok) ==
  LET new == [Bumped EXCEPT !.run = i, !.n = op[i].n + 1, !.rich = FALSE] IN
  /\ op[i].st = "running" /\ op[i].effs < MaxEffects /\ Fault(ok)
  /\ IF /\ ok /\ ~op[i].failed /\ JournalActive(i)
        /\ IF op[i].n = 0 THEN CanSave(op[i].exp) ELSE OwnMarker(i)
       THEN /\ store' = new
            /\ op' = [op EXCEPT ![i].st = "recorded", ![i].exp = store.rev + 1, ![i].n = @ + 1]
            /\ UNCHANGED bridgeObj
       ELSE /\ op' = [op EXCEPT ![i].failed = TRUE]
            /\ bridgeObj' = Quarantine(i) /\ UNCHANGED store
  /\ UNCHANGED <<sess, open, committed, reconciled>>

\* publish: the object learns the new revision, or is no longer the journal's; only
\* a record that was published lets the tool run.
Publish(i) ==
  /\ op[i].st = "recorded"
  /\ IF Owns(i)
       THEN /\ bridgeObj' = [bridgeObj EXCEPT ![op[i].obj].rev = op[i].exp, ![op[i].obj].recon = TRUE]
            /\ op' = [op EXCEPT ![i].st = "executing"]
       ELSE op' = [op EXCEPT ![i].st = "running", ![i].failed = TRUE] /\ bridgeObj' = Quarantine(i)
  /\ UNCHANGED <<store, sess, open, committed, reconciled, budget>>

\* The tool runs; its effect cannot be taken back.
Execute(i) ==
  /\ op[i].st = "executing"
  /\ op' = [op EXCEPT ![i].st = "running", ![i].effs = @ + 1]
  /\ UNCHANGED <<store, sess, bridgeObj, open, committed, reconciled, budget>>

\* The kernel has stopped with one of four durable outcomes: a success to commit,
\* nothing to commit, a terminal to reconcile, an error of the transport.
Outcomes == {"commit", "none", "reconcile", "error"}

BridgeStop(i, outcome) ==
  /\ op[i].st = "running"
  /\ outcome = "commit" => ~op[i].ctx
  /\ op' = [op EXCEPT ![i].st = outcome]
  /\ UNCHANGED <<store, sess, bridgeObj, open, committed, reconciled, budget>>

\* A prompt ends without touching the store: it set no marker, or the observer has
\* nothing to add to the one it set.
Leave(i) ==
  /\ op[i].st \in {"none", "error"} \/ (op[i].st = "reconcile" /\ op[i].n > 0 /\ op[i].effs = 0)
  /\ op[i].n > 0 => op[i].st = "none" \/ op[i].effs = 0
  /\ op' = Ended(i) /\ bridgeObj' = Release(i)
  /\ UNCHANGED <<store, sess, open, committed, reconciled, budget>>

\* The object of a prompt whose journal failed, as it is released.
Abandon(i) ==
  LET q == Quarantine(i) IN
  IF Owns(i) THEN [q EXCEPT ![op[i].obj].active = BridgeNone] ELSE q

\* EnrichReconciliation: the marker of the journal is replaced by the observer's.
Enrich(i, ok) ==
  /\ op[i].st \in {"none", "reconcile", "error"} /\ op[i].n > 0
  /\ Fault(ok) /\ op' = Ended(i)
  /\ IF ok /\ ~op[i].failed /\ JournalActive(i) /\ OwnMarker(i)
       THEN /\ store' = [Bumped EXCEPT !.rich = TRUE]
            /\ bridgeObj' = [Release(i) EXCEPT ![op[i].obj].rev = store.rev + 1]
       ELSE bridgeObj' = Abandon(i) /\ UNCHANGED store
  /\ UNCHANGED <<sess, open, committed, reconciled>>

\* A prompt that set no marker reaches a terminal to reconcile: what was observed is
\* committed, then the session is marked.
Unguarded(i, ok) ==
  /\ op[i].st = "reconcile" /\ op[i].n = 0
  /\ Fault(ok) /\ op' = Ended(i)
  /\ IF ok /\ ~op[i].failed /\ JournalActive(i) /\ CanSave(op[i].exp)
       THEN /\ store' = [Bumped EXCEPT !.rev = store.rev + 2, !.run = i, !.n = 0, !.rich = TRUE]
            /\ bridgeObj' = [Release(i) EXCEPT ![sess].rev = store.rev + 2, ![sess].recon = TRUE]
       ELSE bridgeObj' = Abandon(i) /\ UNCHANGED store
  /\ UNCHANGED <<sess, open, committed, reconciled>>

\* commitObservedRun: the transcript goes in and the marker out in one write; on
\* failure the object is quarantined and, if the session has lost its marker,
\* markInterrupted reads it again and marks it.
Commit_DropMarker(i, ok) ==
  /\ op[i].st = "commit" /\ Fault(ok) /\ op' = Ended(i)
  /\ store' = [Bumped EXCEPT !.run = BridgeNone, !.n = 0, !.rich = FALSE]
  /\ bridgeObj' = Release(i) /\ UNCHANGED committed
  /\ UNCHANGED <<sess, open, reconciled>>
Commit(i, ok) ==
  /\ op[i].st = "commit" /\ Fault(ok) /\ op' = Ended(i)
  /\ IF /\ ok /\ ~op[i].failed /\ JournalActive(i)
        /\ IF op[i].n > 0 THEN OwnMarker(i) ELSE CanSave(op[i].exp)
       THEN /\ store' = [Bumped EXCEPT !.run = BridgeNone, !.n = 0, !.rich = FALSE]
            /\ committed' = committed \cup {i}
            /\ bridgeObj' = [Release(i) EXCEPT ![op[i].obj].rev = store.rev + 1,
                                         ![op[i].obj].recon = FALSE]
     ELSE IF op[i].n > 0 /\ store.exists /\ ~Marked
       THEN /\ store' = [Bumped EXCEPT !.run = i, !.n = op[i].n, !.rich = TRUE]
            /\ bridgeObj' = [o \in Ops |-> IF o = sess
                          THEN [Abandon(i)[o] EXCEPT !.rev = store.rev + 1, !.recon = TRUE]
                          ELSE Abandon(i)[o]]
            /\ UNCHANGED committed
     ELSE bridgeObj' = Abandon(i) /\ UNCHANGED <<store, committed>>
  /\ UNCHANGED <<sess, open, reconciled>>

-----------------------------------------------------------------------------
(* The other adapter, the end of the process, and its restart. *)

\* The HTTP surface saves the session, or a user reconciles it there.
OtherWrite ==
  /\ budget.other < MaxOther /\ store.exists
  /\ budget' = [budget EXCEPT !.other = @ + 1]
  /\ store' = [Bumped EXCEPT !.run = BridgeNone, !.n = 0, !.rich = FALSE, !.seen = FALSE]
  /\ reconciled' = IF Marked THEN reconciled \cup {store.run} ELSE reconciled
  /\ UNCHANGED <<sess, bridgeObj, op, open, committed>>

\* Backend.Shutdown: the active runs are cancelled, the runtimes of the registered
\* objects closed.
BridgeShutdown ==
  /\ sess # BridgeNone /\ bridgeObj[sess].active = BridgeNone /\ bridgeObj[sess].mcp # BridgeNone
  /\ open' = open \ {bridgeObj[sess].mcp}
  /\ bridgeObj' = [bridgeObj EXCEPT ![sess].mcp = BridgeNone]
  /\ UNCHANGED <<store, sess, op, committed, reconciled, budget>>

Crash ==
  /\ budget.crash < MaxCrashes
  /\ budget' = [budget EXCEPT !.crash = @ + 1]
  /\ sess' = BridgeNone /\ bridgeObj' = [o \in Ops |-> NoObj] /\ open' = {}
  /\ op' = [i \in Ops |-> IF op[i].st = "idle" THEN Idle ELSE [op[i] EXCEPT !.st = "ended"]]
  /\ UNCHANGED <<store, committed, reconciled>>

-----------------------------------------------------------------------------
SessionStep(i) ==
  \/ LoadGet(i) \/ LoadLock(i) \/ DeleteGet(i) \/ DeleteLock(i) \/ BridgeCloseStart(i) \/ CloseEnd(i)
  \/ \E ok \in BOOLEAN : BridgeLoadEnd(i, ok) \/ BridgeConfigure(i, ok)

PromptStep(i) ==
  \/ Reserve(i) \/ Publish(i) \/ Execute(i) \/ Leave(i)
  \/ \E ok \in BOOLEAN : \/ Activate(i, ok) \/ CreatedMCP(i, ok) \/ SaveUser(i, ok)
                         \/ Record(i, ok) \/ Enrich(i, ok) \/ Unguarded(i, ok) \/ Commit(i, ok)
  \/ \E how \in {"none", "reuse", "create"} : UseMCP(i, how)
  \/ \E outcome \in Outcomes : BridgeStop(i, outcome)

BridgeNext ==
  \/ \E i \in Ops : SessionStep(i) \/ PromptStep(i)
  \/ CancelSession \/ OtherWrite \/ BridgeShutdown \/ Crash

BridgeSpec == BridgeInit /\ [][BridgeNext]_bridgeVars

-----------------------------------------------------------------------------
\* The values of the bridge's fields; the object registered was created by an
\* operation that loaded the session.
BridgeTypeOK ==
  /\ store.exists \in BOOLEAN /\ store.rev \in Nat /\ store.run \in Ops \cup {BridgeNone}
  /\ sess \in Ops \cup {BridgeNone} /\ open \subseteq Ops
  /\ \A o \in Ops : bridgeObj[o].active \in Ops \cup {BridgeNone} /\ bridgeObj[o].mcp \in Ops \cup {BridgeNone}
  /\ sess # BridgeNone => op[sess].kind = "load"
  /\ \A i \in Ops : op[i].effs <= op[i].n

\* Effects of a prompt that neither a commit nor a user's reconciliation settled.
Unsettled == {i \in Ops : op[i].effs > 0 /\ i \notin committed \cup reconciled}

\* Once a tool has run, the store says so: through the marker of that very run,
\* which covers every execution, until a commit or a reconciliation, whatever fails,
\* crashes, closes or is written by the other adapter meanwhile
\* (promptExecutionJournal).
EffectsRecorded ==
  store.exists => \A i \in Unsettled : store.run = i /\ store.n >= op[i].effs

\* Two prompts of the session never both have effects that are not settled, even
\* when a close and a load put a second object beside a prompt that still runs.
ExclusiveEffects == store.exists => Cardinality(Unsettled) <= 1

\* The bridge replaces the content of the session, or deletes it, only on top of a
\* revision it has read or written itself: nothing the other adapter commits is
\* lost under a stale runtime (DeleteSession: "cannot delete a newer HTTP/Web commit").
StaleNeverWrites ==
  ((store'.rev # store.rev /\ store'.run = BridgeNone) \/ store'.exists # store.exists) =>
     store.seen \/ budget'.other # budget.other

\* Every MCP runtime that runs belongs to the registered object, to a load that has
\* put it aside, or to the prompt that is creating it: "must be closed by its run or
\* protocol-session owner at that owner's lifetime boundary" (MCPRuntime).  A close
\* that waited for a prompt removes the object by then registered even while a load
\* works on it: the runtime that load had put aside is the only one that nobody
\* closes (LoadSession returns internalFailure before it comes to it).
NoOrphanRuntime ==
  open \subseteq {bridgeObj[o].mcp : o \in {sess} \ {BridgeNone}}
            \cup {op[i].prev.mcp : i \in {j \in Ops : op[j].st = "replaying" \/ op[j].cut}}
            \cup {i \in Ops : op[i].st = "creating"}

=============================================================================
