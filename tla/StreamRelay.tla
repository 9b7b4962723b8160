----------------------------- MODULE StreamRelay -----------------------------
(***************************************************************************)
(* One answer on its way through the proxy: the chunks of an OpenAI        *)
(* compatible upstream become canonical events (internal/translate,        *)
(* internal/stream), a goroutine of handleCanonicalProtocol observes them  *)
(* and pings the idle watchdog (internal/api/stream_watchdog.go), and the  *)
(* adapter of the client's wire checks their order and encodes them        *)
(* (internal/protocol).  A raw upstream speaks canonical events itself     *)
(* (internal/providers/anthropic.go) and need not keep to their order.     *)
(*                                                                         *)
(* A piece of text or of arguments is the number of the chunk that brought *)
(* it.  Client frames are reduced to what a client puts together from      *)
(* them: a slot is opened, filled, closed, and the success sentinel ends   *)
(* the stream.                                                             *)
(***************************************************************************)
EXTENDS Integers, SequencesExt, FiniteSetsExt

CONSTANTS Wires,      \* wires of the client: "anthropic", "chat", "responses", "json"
          Chunks,     \* chunks of a translated upstream
          RawEvents,  \* events of a raw upstream
          Faults,     \* what may go wrong: "silence" (of the upstream), "leave" (of the client)
          MaxChunks,  \* bound on what the upstream sends
          ChanCap     \* capacity of the provider's channel (64 in the code)

VARIABLES wire,
          up,        \* upstream: chunks sent, whether it finished its answer
          tr,        \* Translator
          prov,      \* provider goroutine: "run", "closing" or "exit"
          pend,      \* events it has yet to send
          chan,      \* its channel, closed when prov = "exit"
          relay,     \* observing goroutine: "run" or "exit"
          held,      \* the event it hands to the writer, or NoEvent
          msg,       \* canonicalMessage of the writer
          frames,    \* what the client has received
          writer,    \* WriteResponse: "run", "ok" or "err"
          handler,   \* "stream" or "done"
          cancelled, \* streamCtx
          gone,      \* the client has disconnected
          dog,       \* StreamWatchdog
          sent,      \* history: what the upstream said
          aborted    \* history: "no", "idle" or "live" (an event came after the timer)
vars == <<wire, up, tr, prov, pend, chan, relay, held, msg, frames, writer, handler,
          cancelled, gone, dog, sent, aborted>>

Closed == -1
NoEvent == [t |-> "none"]
Raw == Chunks = {}

-----------------------------------------------------------------------------
(* Translator: chunk to canonical events.  st.ev gathers the events.       *)

NewTranslator == [next |-> 0, text |-> Closed, think |-> Closed, calls |-> <<>>]
MessageStart == [t |-> "message_start"]
BlockStart(i, kind, id) == [t |-> "block_start", i |-> i, kind |-> kind, id |-> id]
BlockDelta(i, kind, d, ok) == [t |-> "block_delta", i |-> i, kind |-> kind, d |-> d, ok |-> ok]
BlockStop(i) == [t |-> "block_stop", i |-> i]
MessageDelta(reason) == [t |-> "message_delta", reason |-> reason]
MessageStop == [t |-> "message_stop"]

CloseText(st) == IF st.text = Closed THEN st
                 ELSE [st EXCEPT !.ev = Append(@, BlockStop(st.text)), !.text = Closed]
CloseThink(st) == IF st.think = Closed THEN st
                  ELSE [st EXCEPT !.ev = Append(@, BlockStop(st.think)), !.think = Closed]

Reasoning(st, n) ==
  LET c == CloseText(st)
      o == IF st.think # Closed THEN st
           ELSE [c EXCEPT !.ev = Append(@, BlockStart(c.next, "thinking", "")),
                          !.think = c.next, !.next = @ + 1]
  IN [o EXCEPT !.ev = Append(@, BlockDelta(o.think, "thinking", n, TRUE))]

Content(st, n) ==
  LET c == CloseThink(st)
      o == IF c.text # Closed THEN c
           ELSE [c EXCEPT !.ev = Append(@, BlockStart(c.next, "text", "")),
                          !.text = c.next, !.next = @ + 1]
  IN [o EXCEPT !.ev = Append(@, BlockDelta(o.text, "text", n, TRUE))]

ToolCall(st, tc, n) ==
  LET c == CloseText(st)
      o == IF tc.id = "" \/ tc.index \in DOMAIN c.calls THEN c
           ELSE [c EXCEPT !.ev = Append(@, BlockStart(c.next, "tool_use", tc.id)),
                          !.calls = (tc.index :> c.next) @@ @, !.next = @ + 1]
  IN IF ~tc.args \/ tc.index \notin DOMAIN o.calls THEN o
     ELSE [o EXCEPT !.ev = Append(@, BlockDelta(o.calls[tc.index], "tool_use", n, TRUE))]

Finish(st, reason) ==
  LET c == CloseText(CloseThink(st))
      open == SetToSortSeq({c.calls[k] : k \in DOMAIN c.calls}, <)
  IN [c EXCEPT !.calls = <<>>,
               !.ev = @ \o [k \in DOMAIN open |-> BlockStop(open[k])]
                        \o <<MessageDelta(reason), MessageStop>>]

Events(t) == [ev |-> <<>>] @@ t
Translate(t, c, n) ==
  LET a == IF c.reasoning THEN Reasoning(Events(t), n) ELSE Events(t)
      b == IF c.content THEN Content(a, n) ELSE a
      d == FoldLeft(LAMBDA st, tc : ToolCall(st, tc, n), b, c.tools)
  IN IF c.finish = "" THEN d ELSE Finish(d, c.finish)

\* The upstream ended without a finish reason.
End(t) ==
  IF t.calls # <<>> THEN Finish(Events(t), "tool_calls")
  ELSE LET c == CloseThink(Events(t))
           o == IF c.text # Closed \/ c.next = 0 THEN c
                ELSE [c EXCEPT !.ev = @ \o <<BlockStart(c.next, "text", ""),
                                             BlockDelta(c.next, "text", 0, TRUE),
                                             BlockStop(c.next)>>, !.next = @ + 1]
       IN [CloseText(o) EXCEPT !.ev = @ \o <<MessageDelta("stop"), MessageStop>>]

-----------------------------------------------------------------------------
(* canonicalMessage: the order of events that an adapter accepts.          *)

NewMessage == [started |-> FALSE, stopped |-> FALSE, delta |-> FALSE, order |-> <<>>,
               blocks |-> <<>>, reason |-> "stop"]
ToolIds(m) == {m.blocks[i].id : i \in DOMAIN m.blocks} \ {""}
OpenBlocks(m) == {i \in DOMAIN m.blocks : ~m.blocks[i].closed}

Accepts(m, e) ==
  /\ ~m.stopped
  /\ m.started <=> e.t # "message_start"
  /\ CASE e.t = "message_start" -> TRUE
       [] e.t = "block_start" -> /\ e.i \notin DOMAIN m.blocks
                                 /\ e.kind \in {"text", "tool_use"}
                                 /\ e.id \notin ToolIds(m)
       [] e.t = "block_delta" -> e.i \in OpenBlocks(m) /\ e.kind = m.blocks[e.i].kind
       [] e.t = "block_stop" -> /\ e.i \in OpenBlocks(m)
                                /\ m.blocks[e.i].kind = "tool_use" => m.blocks[e.i].ok
       [] e.t = "message_delta" -> ~m.delta /\ OpenBlocks(m) = {}
       [] e.t = "message_stop" -> m.delta /\ OpenBlocks(m) = {}

Consume(m, e) ==
  CASE e.t = "message_start" -> [m EXCEPT !.started = TRUE]
    [] e.t = "block_start" ->
         [m EXCEPT !.order = Append(@, e.i),
                   !.blocks = (e.i :> [kind |-> e.kind, id |-> e.id, closed |-> FALSE,
                                       data |-> <<>>, ok |-> TRUE]) @@ @]
    [] e.t = "block_delta" ->
         [m EXCEPT !.blocks[e.i] = [@ EXCEPT !.data = Append(@, e.d), !.ok = @ /\ e.ok]]
    [] e.t = "block_stop" -> [m EXCEPT !.blocks[e.i].closed = TRUE]
    [] e.t = "message_delta" -> [m EXCEPT !.delta = TRUE, !.reason = e.reason]
    [] e.t = "message_stop" -> [m EXCEPT !.stopped = TRUE]

SortedBlocks(m) == SetToSortSeq(DOMAIN m.blocks, <)
Output(m) == [p \in DOMAIN SortedBlocks(m) |-> m.blocks[SortedBlocks(m)[p]].id]

-----------------------------------------------------------------------------
(* The encoders.  m is the message after e.                                *)

Place(m, i) == CHOOSE p \in DOMAIN m.order : m.order[p] = i

Slot(w, m, i) ==
  CASE w = "anthropic" -> i
    [] w = "responses" -> Place(m, i) - 1                   \* output_index
    [] w = "chat" ->                                        \* content, or tool ordinal
         IF m.blocks[i].kind = "text" THEN Closed
         ELSE Cardinality({p \in 1 .. Place(m, i) - 1 : m.blocks[m.order[p]].kind = "tool_use"})
    [] OTHER -> i

Open(s, b) == [f |-> "open", slot |-> s, kind |-> b.kind, id |-> b.id]
Data(s, d) == [f |-> "data", slot |-> s, d |-> d]
Close(s) == [f |-> "close", slot |-> s]
Sentinel(m) == [f |-> "done", output |-> Output(m)]

Encode(w, m, e) ==
  CASE e.t = "message_start" -> <<>>
    [] e.t = "block_start" -> IF w = "chat" /\ e.kind = "text" THEN <<>>
                              ELSE <<Open(Slot(w, m, e.i), m.blocks[e.i])>>
    [] e.t = "block_delta" -> <<Data(Slot(w, m, e.i), e.d)>>
    [] e.t = "block_stop" -> IF w = "chat" THEN <<>> ELSE <<Close(Slot(w, m, e.i))>>
    [] e.t = "message_delta" -> <<>>
    [] e.t = "message_stop" -> <<Sentinel(m)>>

\* The JSON response of a request that does not stream.
Collected(m) ==
  FoldLeft(LAMBDA fs, i : fs \o <<Open(i, m.blocks[i])>>
                             \o [k \in DOMAIN m.blocks[i].data |-> Data(i, m.blocks[i].data[k])]
                             \o <<Close(i)>>,
           <<>>, SortedBlocks(m)) \o <<Sentinel(m)>>

-----------------------------------------------------------------------------

(* Goroutines, channel and watchdog are in one of their states; the        *)
(* channel never holds more than its capacity.                             *)
TypeOK ==
  /\ wire \in Wires
  /\ up \in [n : 0 .. MaxChunks, finished : BOOLEAN]
  /\ prov \in {"run", "closing", "exit"} /\ relay \in {"run", "exit"}
  /\ Len(chan) \in 0 .. ChanCap
  /\ writer \in {"run", "ok", "err"} /\ handler \in {"stream", "done"}
  /\ dog \in [armed : BOOLEAN, firing : BOOLEAN, fresh : BOOLEAN, stopped : BOOLEAN]
  /\ cancelled \in BOOLEAN /\ gone \in BOOLEAN /\ aborted \in {"no", "idle", "live"}

Init ==
  /\ wire \in Wires
  /\ up = [n |-> 0, finished |-> FALSE]
  /\ tr = NewTranslator
  /\ prov = "run" /\ relay = "run" /\ writer = "run" /\ handler = "stream"
  /\ pend = IF Raw THEN <<>> ELSE <<MessageStart>>
  /\ chan = <<>> /\ held = NoEvent
  /\ msg = NewMessage /\ frames = <<>>
  /\ cancelled = FALSE /\ gone = FALSE
  /\ dog = [armed |-> TRUE, firing |-> FALSE, fresh |-> FALSE, stopped |-> FALSE]
  /\ sent = [text |-> <<>>, args |-> <<>>]
  /\ aborted = "no"

-----------------------------------------------------------------------------
(* The provider goroutine.                                                 *)

Said(c, n) ==
  LET Grow(args, tc) ==
        LET id == IF tc.id # "" THEN tc.id ELSE tc.of
            old == IF id \in DOMAIN args THEN args[id] ELSE <<>>
        IN (id :> IF tc.args THEN Append(old, n) ELSE old) @@ args
  IN [text |-> IF c.content THEN Append(sent.text, n) ELSE sent.text,
      args |-> FoldLeft(Grow, sent.args, c.tools)]

\* An upstream that keeps to its protocol: nothing but usage after the finish reason.
ReadChunk ==
  /\ prov = "run" /\ pend = <<>> /\ up.n < MaxChunks /\ ~up.finished
  /\ \E c \in Chunks :
       LET n == up.n + 1
           t == Translate(tr, c, n)
       IN /\ \A k \in DOMAIN c.tools : c.tools[k].id = "" => c.tools[k].of \in DOMAIN sent.args
          /\ up' = [n |-> n, finished |-> c.finish # ""]
          /\ pend' = t.ev
          /\ tr' = [f \in DOMAIN NewTranslator |-> t[f]]
          /\ sent' = Said(c, n)
  /\ UNCHANGED <<wire, prov, chan, relay, held, msg, frames, writer, handler, cancelled, gone,
                 dog, aborted>>

ReadRaw ==
  /\ prov = "run" /\ pend = <<>> /\ up.n < MaxChunks /\ ~up.finished
  /\ \E e \in RawEvents :
       /\ up' = [n |-> up.n + 1, finished |-> e.t = "message_stop"]
       /\ pend' = <<e>>
  /\ UNCHANGED <<wire, tr, prov, chan, relay, held, msg, frames, writer, handler, cancelled,
                 gone, dog, sent, aborted>>

\* [DONE], end of file, a broken connection, or the body closed by the context.
UpstreamEnds ==
  /\ prov = "run" /\ pend = <<>>
  /\ prov' = "closing"
  /\ pend' = IF Raw \/ up.finished THEN <<>> ELSE End(tr).ev
  /\ UNCHANGED <<wire, up, tr, chan, relay, held, msg, frames, writer, handler, cancelled, gone,
                 dog, sent, aborted>>

SendEvent ==
  /\ pend # <<>> /\ Len(chan) < ChanCap
  /\ chan' = Append(chan, Head(pend))
  /\ pend' = Tail(pend)
  /\ UNCHANGED <<wire, up, tr, prov, relay, held, msg, frames, writer, handler, cancelled, gone,
                 dog, sent, aborted>>

\* sendSSEEvent finds the context cancelled, or every event has been sent.
ProviderExits ==
  /\ \/ pend # <<>> /\ cancelled
     \/ prov = "closing" /\ pend = <<>>
  /\ prov' = "exit" /\ pend' = <<>>
  /\ UNCHANGED <<wire, up, tr, chan, relay, held, msg, frames, writer, handler, cancelled, gone,
                 dog, sent, aborted>>

-----------------------------------------------------------------------------
(* The observing goroutine and the watchdog.                               *)

Ping(d) == IF d.stopped THEN d ELSE [d EXCEPT !.armed = TRUE, !.fresh = d.firing]

RelayTake ==
  /\ relay = "run" /\ held = NoEvent /\ chan # <<>>
  /\ held' = Head(chan) /\ chan' = Tail(chan)
  /\ dog' = Ping(dog)
  /\ UNCHANGED <<wire, up, tr, prov, pend, relay, msg, frames, writer, handler, cancelled, gone,
                 sent, aborted>>

RelayExits ==
  /\ relay = "run"
  /\ \/ held # NoEvent /\ cancelled
     \/ held = NoEvent /\ chan = <<>> /\ prov = "exit"
  /\ relay' = "exit" /\ held' = NoEvent
  /\ UNCHANGED <<wire, up, tr, prov, pend, chan, msg, frames, writer, handler, cancelled, gone,
                 dog, sent, aborted>>

\* The idle time has passed since the last reset of the timer.
TimerExpires ==
  /\ "silence" \in Faults /\ dog.armed
  /\ dog' = [dog EXCEPT !.armed = FALSE, !.firing = TRUE, !.fresh = FALSE]
  /\ UNCHANGED <<wire, up, tr, prov, pend, chan, relay, held, msg, frames, writer, handler,
                 cancelled, gone, sent, aborted>>

\* fire() gets the lock; it only looks at stopped.
Fire ==
  /\ dog.firing
  /\ dog' = [dog EXCEPT !.firing = FALSE, !.stopped = TRUE]
  /\ cancelled' = (cancelled \/ ~dog.stopped)
  /\ aborted' = IF dog.stopped THEN aborted ELSE IF dog.fresh THEN "live" ELSE "idle"
  /\ UNCHANGED <<wire, up, tr, prov, pend, chan, relay, held, msg, frames, writer, handler, gone,
                 sent>>

-----------------------------------------------------------------------------
(* WriteResponse of the adapter, the handler and the client.               *)

WriteEvent ==
  /\ writer = "run" /\ held # NoEvent
  /\ held' = NoEvent
  /\ \/ /\ Accepts(msg, held)
        /\ msg' = Consume(msg, held)
        /\ frames' = IF wire = "json" THEN frames ELSE frames \o Encode(wire, msg', held)
        /\ UNCHANGED writer
     \/ /\ ~Accepts(msg, held) \/ (gone /\ wire # "json")   \* refused, or the write fails
        /\ writer' = "err"
        /\ UNCHANGED <<msg, frames>>
  /\ UNCHANGED <<wire, up, tr, prov, pend, chan, relay, handler, cancelled, gone, dog, sent,
                 aborted>>

\* The context is done, or the channel is closed: complete or truncated.
WriterEnds ==
  /\ writer = "run"
  /\ \/ cancelled /\ writer' = "err" /\ UNCHANGED frames
     \/ /\ relay = "exit"
        /\ writer' = IF msg.stopped THEN "ok" ELSE "err"
        /\ frames' = IF wire = "json" /\ msg.stopped THEN Collected(msg) ELSE frames
  /\ UNCHANGED <<wire, up, tr, prov, pend, chan, relay, held, msg, handler, cancelled, gone, dog,
                 sent, aborted>>

\* Faulty: the stream context outlives the handler.
HandlerReturns_NoCancel ==
  /\ writer # "run" /\ handler = "stream"
  /\ handler' = "done"
  /\ dog' = [dog EXCEPT !.stopped = TRUE, !.armed = FALSE]
  /\ UNCHANGED <<wire, up, tr, prov, pend, chan, relay, held, msg, frames, writer, cancelled, gone,
                 sent, aborted>>
HandlerReturns ==
  /\ writer # "run" /\ handler = "stream"
  /\ handler' = "done" /\ cancelled' = TRUE
  /\ dog' = [dog EXCEPT !.stopped = TRUE, !.armed = FALSE]
  /\ UNCHANGED <<wire, up, tr, prov, pend, chan, relay, held, msg, frames, writer, gone, sent,
                 aborted>>

ClientLeaves ==
  /\ "leave" \in Faults /\ ~gone /\ handler = "stream"
  /\ gone' = TRUE /\ cancelled' = TRUE
  /\ UNCHANGED <<wire, up, tr, prov, pend, chan, relay, held, msg, frames, writer, handler, dog,
                 sent, aborted>>

Next ==
  \/ ReadChunk \/ ReadRaw \/ UpstreamEnds \/ SendEvent \/ ProviderExits
  \/ RelayTake \/ RelayExits \/ TimerExpires \/ Fire
  \/ WriteEvent \/ WriterEnds \/ HandlerReturns \/ ClientLeaves

Spec == Init /\ [][Next]_vars

-----------------------------------------------------------------------------

Complete == \E k \in DOMAIN frames : frames[k].f = "done"
OpenFrames == {frames[k] : k \in {j \in DOMAIN frames : frames[j].f = "open"}}
ToolFrames == {f \in OpenFrames : f.kind = "tool_use"}
DataIn(slots) ==
  LET fs == SelectSeq(frames, LAMBDA f : f.f = "data" /\ f.slot \in slots)
  IN [k \in DOMAIN fs |-> fs[k].d]
TextSlots == IF wire = "chat" THEN {Closed} ELSE {f.slot : f \in OpenFrames \ ToolFrames}

(* A client that is told its answer is complete can put together exactly   *)
(* what the upstream said: its text in order, and for each tool call its   *)
(* own arguments, whatever blocks were open side by side (Translate of     *)
(* response.go, Slot of the encoders).                                     *)
ClientReassembles ==
  (Complete /\ ~Raw) =>
    /\ DataIn(TextSlots) = sent.text
    /\ {f.id : f \in ToolFrames} = DOMAIN sent.args
    /\ \A f \in ToolFrames : DataIn({f.slot}) = sent.args[f.id]

(* The success sentinel is the last frame, comes at most once, and every   *)
(* item that was opened has been closed before it, even if the upstream    *)
(* does not keep to the order of events (consume in canonical.go).         *)
SentinelLast ==
  \A k \in DOMAIN frames : frames[k].f = "done" =>
    /\ k = Len(frames)
    /\ wire # "chat" => \A f \in OpenFrames : Close(f.slot) \in {frames[j] : j \in 1 .. k}
    /\ OpenBlocks(msg) = {}

(* The checks of canonicalMessage accept every stream that the translator  *)
(* makes of an upstream that keeps to its protocol, cut anywhere.          *)
TranslatedIsAccepted == (~Raw /\ held # NoEvent /\ writer = "run") => Accepts(msg, held)

=============================================================================
