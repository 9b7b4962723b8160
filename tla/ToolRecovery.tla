---------------------------- MODULE ToolRecovery ----------------------------
(***************************************************************************)
(* How a run turns the text of a model response into tool calls            *)
(* (internal/agent/toolrecover.go): the response policy, the cascade of    *)
(* text parsers, the legacy recovery, and the bounded corrections of       *)
(* runAgentLoop.  A text is a sequence of tokens, each on its own line:    *)
(*                                                                         *)
(*   "<t>" "</t>"   Hermes tags            "S" "E"   Liquid start, end     *)
(*   "B" "X"        tokenized section      "Ta" "Tx" begun tokenized calls *)
(*   "fence"        three backticks; "json", "tool", "py" after it are its *)
(*                  label                  "Na" "Nx" codeblock bodies      *)
(*   "Fa" "Fu"      <function=NAME> forms  "Pa" "Px" Liquid calls          *)
(*   "J.." JSON values: calls of a and b, an alias of a, an unknown tool,  *)
(*   arguments the schema refuses, a value that is no call, a cut one      *)
(*   "w" prose; "_" what a removed envelope leaves (no text)               *)
(*                                                                         *)
(* "E" (<|tool_call_end|>) belongs to the Liquid and to the tokenized form *)
(* alike.  No production caller declares a parser of its own, so the       *)
(* declared stage never applies.                                           *)
(***************************************************************************)
EXTENDS Integers, SequencesExt, FiniteSetsExt

CONSTANTS Alphabet,         \* the tokens a response may hold
          Policies,         \* the response policies of the run's harness
          Channels,         \* where the text arrives: {"visible", "reasoning"}
          MaxTokens,        \* bound: tokens of one response
          InputLimit,       \* defaultToolParseInputBytes, in tokens
          CallLimit,        \* defaultToolParseCalls
          CorrectionLimit,  \* defaultToolResponseCorrectionLimit
          MaxResponses      \* bound: responses of a run

VARIABLES policy,     \* the run's response policy
          channel,    \* where this response's text arrives
          text,       \* the text received so far
          phase,      \* "streaming", "executed", "answered", "failed"
          calls,      \* the calls of the decided response
          source,     \* where they come from: "none", "native", "text"
          visible,    \* its text after the decision
          attempts,   \* corrections requested so far
          responses   \* responses received so far

vars == <<policy, channel, text, phase, calls, source, visible, attempts, responses>>

Labels == {"json", "tool", "py"}
Catalog == {"a", "b"}

(* What strict decoding of a JSON token yields: the calls it names, or the  *)
(* reason for refusing it.  "Jt" does not decode.                           *)
Call(name, arg) == [name |-> name, id |-> -1, arg |-> arg]
JsonCalls ==
  [Ja |-> <<Call("a", "ok")>>, Jl |-> <<Call("alias", "ok")>>, Jb |-> <<Call("b", "ok")>>,
   Jal |-> <<Call("a", "ok"), Call("alias", "ok")>>, Jab |-> <<Call("a", "ok"), Call("b", "ok")>>,
   Ji |-> <<[Call("b", "ok") EXCEPT !.id = 1], Call("a", "ok")>>,
   Ju |-> <<Call("u", "ok")>>, Jn |-> <<Call("a", "bad")>>]
JsonTokens == DOMAIN JsonCalls \cup {"Jx", "Jt"}

NotApplicable == [status |-> "not_applicable", calls |-> <<>>, ranges |-> <<>>]
Malformed == [NotApplicable EXCEPT !.status = "malformed"]
Rejected == [NotApplicable EXCEPT !.status = "rejected"]
Parsed(cs, rs) == [status |-> "parsed", calls |-> cs, ranges |-> rs]

Positions(s, toks) == {i \in DOMAIN s : s[i] \in toks}
Holds(s, toks) == Positions(s, toks) # {}
Blank(s) == SelectSeq(s, LAMBDA t : t # "_")

(* The spans a non-greedy expression finds from left to right: an opening   *)
(* whose body starts at Body(i) and the first closing at or after it that   *)
(* leaves `least` tokens between them.                                      *)
Spans(s, IsOpen(_), Body(_), close, least) ==
  LET from[i \in 1 .. Len(s) + 1] ==
        LET ends == {j \in DOMAIN s : s[j] = close /\ j >= Body(i) + least}
        IN  IF i > Len(s) THEN <<>>
            ELSE IF IsOpen(i) /\ ends # {}
                 THEN <<[start |-> i, body |-> Body(i), end |-> Min(ends)]>> \o from[Min(ends) + 1]
                 ELSE from[i + 1]
  IN  from[1]

HermesSpans(s) == Spans(s, LAMBDA i : s[i] = "<t>", LAMBDA i : i + 1, "</t>", 0)
Label(s, i) == IF i < Len(s) /\ s[i + 1] \in Labels THEN s[i + 1] ELSE ""
FenceSpans(s) == Spans(s, LAMBDA i : s[i] = "fence",
                       LAMBDA i : IF Label(s, i) = "" THEN i + 1 ELSE i + 2, "fence", 1)
supportedToolFence(label) == label \in {"", "json", "tool"}
Payload(s, span) == Blank(SubSeq(s, span.body, span.end - 1))

RemoveSpans(s, spans) ==
  [i \in DOMAIN s |-> IF \E k \in DOMAIN spans : i \in spans[k].start .. spans[k].end THEN "_" ELSE s[i]]

(* One payload: a single JSON value, nothing after it. *)
parseJSONToolPayload(payload) ==
  IF Len(payload) # 1 \/ payload[1] \notin JsonTokens \ {"Jt"} THEN Malformed
  ELSE IF payload[1] = "Jx" \/ Len(JsonCalls[payload[1]]) > CallLimit THEN Rejected
  ELSE Parsed(JsonCalls[payload[1]], <<>>)

(* The envelopes of a format in turn: the first that does not parse decides,*)
(* and so does the call that exceeds the limit.                             *)
InTurn(s, spans) ==
  LET after[k \in 0 .. Len(spans)] ==
        IF k = 0 THEN Parsed(<<>>, spans)
        ELSE LET p == parseJSONToolPayload(Payload(s, spans[k]))
                 so == after[k - 1]
             IN  IF so.status # "parsed" THEN so
                 ELSE IF p.status # "parsed" THEN p
                 ELSE IF Len(so.calls) + Len(p.calls) > CallLimit THEN Rejected
                 ELSE Parsed(so.calls \o p.calls, spans)
  IN  after[Len(spans)]

HermesEnvelopes(s, spans) ==
  IF Holds(RemoveSpans(s, spans), {"<t>", "</t>"}) THEN Malformed
  ELSE IF spans = <<>> THEN NotApplicable
  ELSE InTurn(s, spans)
parseHermesToolText(s) == HermesEnvelopes(s, HermesSpans(s))

WithinLimit(r) == IF r.status = "parsed" /\ Len(r.calls) > CallLimit THEN Rejected ELSE r

(* Each start marker needs the next end marker, no start marker between     *)
(* them and a call list; an end marker before the next start is malformed.  *)
parseLiquidToolText(s) ==
  LET from[i \in 1 .. Len(s) + 1] ==
        LET rest == i .. Len(s)
            starts == Positions(s, {"S"}) \cap rest
            ends == Positions(s, {"E"}) \cap rest
            b == Min(starts)
            e == Min({j \in ends : j > b})
            rec == from[e + 1]
        IN  IF starts = {} THEN IF ends = {} THEN Parsed(<<>>, <<>>) ELSE Malformed
            ELSE IF (\A j \in ends : j < b) \/ (\E j \in ends : j < b) THEN Malformed
            ELSE IF e # b + 2 \/ s[b + 1] \notin {"Pa", "Px"} THEN Malformed
            ELSE IF s[b + 1] = "Px" THEN Rejected
            ELSE IF rec.status # "parsed" THEN rec
            ELSE Parsed(<<Call("a", "ok")>> \o rec.calls,
                        <<[start |-> b, body |-> b + 1, end |-> e]>> \o rec.ranges)
  IN  IF ~Holds(s, {"S", "E"}) THEN NotApplicable ELSE WithinLimit(from[1])

parseToolCodeblockText(s) ==
  LET opens == {i \in DOMAIN s : s[i] = "fence" /\ Label(s, i) = "tool"}
      o == Min(opens)
      ends == {j \in Positions(s, {"fence"}) : j >= o + 2}
      body == SubSeq(s, o + 2, Min(ends) - 1)
  IN  IF opens = {} THEN NotApplicable
      ELSE IF Cardinality(opens) # 1 \/ ends = {} THEN Malformed
      ELSE IF Min(ends) # Len(s) THEN Malformed
      ELSE IF body = <<"Nx">> THEN Rejected
      ELSE IF body # <<"Na">> THEN Malformed
      ELSE Parsed(<<Call("a", "ok")>>, <<[start |-> o, body |-> o + 2, end |-> Min(ends)]>>)

TokenizedMarkers == {"B", "X", "Ta", "Tx", "E"}
(* One section, the end of the text, no marker before it; calls in turn.    *)
parseTokenizedToolText(s) ==
  LET b == Min(Positions(s, {"B"}))
      body == SubSeq(s, b + 1, Len(s) - 1)
      pairs == Len(body) \div 2
      WellFormed(k) == body[2 * k - 1] \in {"Ta", "Tx"} /\ body[2 * k] = "E"
      bad == {k \in 1 .. pairs : ~WellFormed(k)}
      refused == {k \in 1 .. pairs : body[2 * k - 1] = "Tx"} \cup {k \in 1 .. pairs : k > CallLimit}
  IN  IF ~Holds(s, {"B"}) THEN IF Holds(s, TokenizedMarkers) THEN Malformed ELSE NotApplicable
      ELSE IF Cardinality(Positions(s, {"B"})) # 1 \/ Cardinality(Positions(s, {"X"})) # 1 THEN Malformed
      ELSE IF s[Len(s)] # "X" \/ Holds(SubSeq(s, 1, b - 1), TokenizedMarkers) THEN Malformed
      ELSE IF refused # {} /\ \A k \in bad : Min(refused) < k THEN Rejected
      ELSE IF bad # {} \/ Len(body) % 2 = 1 \/ body = <<>> THEN Malformed
      ELSE Parsed([k \in 1 .. pairs |-> Call("a", "ok")], <<[start |-> b, body |-> b + 1, end |-> Len(s)]>>)

SupportedFences(s, spans) == SelectSeq(spans, LAMBDA f : supportedToolFence(Label(s, f.start)))
Unclosed(left) == \E i \in Positions(left, {"fence"}) : supportedToolFence(Label(left, i))
FencedEnvelopes(all, supported, left) ==
  IF all.status # "parsed" THEN all
  ELSE IF Unclosed(left) THEN Malformed
  ELSE IF supported = <<>> THEN NotApplicable
  ELSE all
parseFencedToolText(s) ==
  FencedEnvelopes(InTurn(s, SupportedFences(s, FenceSpans(s))), SupportedFences(s, FenceSpans(s)),
                  RemoveSpans(s, FenceSpans(s)))

WholeText(s) == <<[start |-> 1, body |-> 1, end |-> Len(s)]>>
parseBareToolText(s) ==
  IF s = <<>> \/ s[1] \notin JsonTokens THEN NotApplicable
  ELSE LET p == parseJSONToolPayload(s) IN IF p.status = "parsed" THEN Parsed(p.calls, WholeText(s)) ELSE p

(* Only what does not decode is repaired: a cut value closed at its end.    *)
parseSuffixRepairToolText(s) ==
  IF s = <<>> \/ s[1] \notin JsonTokens \/ (Len(s) = 1 /\ s[1] # "Jt") THEN NotApplicable
  ELSE IF s # <<"Jt">> THEN Malformed
  ELSE Parsed(<<Call("a", "ok")>>, WholeText(s))

resolveRecoveredToolName(name) == IF name = "alias" THEN "a" ELSE name

(* Catalog, duplicates, generated ids and the schema: one bad call refuses  *)
(* the response.                                                            *)
Resolved(cs) == [k \in DOMAIN cs |-> [name |-> resolveRecoveredToolName(cs[k].name),
                                      id |-> IF cs[k].id = -1 THEN k - 1 ELSE cs[k].id,
                                      arg |-> cs[k].arg]]
validateToolParseResult_RawNames(r) ==
  LET cs == Resolved(r.calls)
  IN  IF r.status # "parsed" THEN r
      ELSE IF cs = <<>> THEN Malformed
      ELSE IF Len(cs) > CallLimit
              \/ (\E k \in DOMAIN cs : cs[k].name \notin Catalog \/ cs[k].arg # "ok")
              \/ (\E k, l \in DOMAIN cs : k < l /\ (r.calls[k].name = r.calls[l].name \/ cs[k].id = cs[l].id))
           THEN Rejected
      ELSE Parsed(cs, r.ranges)
validateToolParseResult(r) ==
  LET cs == Resolved(r.calls)
  IN  IF r.status # "parsed" THEN r
      ELSE IF cs = <<>> THEN Malformed
      ELSE IF Len(cs) > CallLimit
              \/ (\E k \in DOMAIN cs : cs[k].name \notin Catalog \/ cs[k].arg # "ok")
              \/ (\E k, l \in DOMAIN cs : k < l /\ (cs[k].name = cs[l].name \/ cs[k].id = cs[l].id))
           THEN Rejected
      ELSE Parsed(cs, r.ranges)

canonicalToolCallInterpretation(cs) == [k \in DOMAIN cs |-> <<cs[k].name, cs[k].arg>>]

Validated(rs) == [k \in DOMAIN rs |-> validateToolParseResult(rs[k])]
Results(s) ==
  Validated(<<parseHermesToolText(s), parseLiquidToolText(s), parseToolCodeblockText(s),
              parseTokenizedToolText(s), parseFencedToolText(s), parseBareToolText(s),
              parseSuffixRepairToolText(s)>>)

(* Disagreeing interpretations and refused envelopes win over parsed ones,  *)
(* parsed ones over malformed ones, earlier formats over later ones.        *)
FirstOf(rs, status) == rs[Min({k \in DOMAIN rs : rs[k].status = status})]
Statuses(rs) == {rs[k].status : k \in DOMAIN rs}
Readings(rs) ==
  {canonicalToolCallInterpretation(rs[k].calls) : k \in {k \in DOMAIN rs : rs[k].status = "parsed"}}
Strongest(rs) ==
  IF Cardinality(Readings(rs)) > 1 THEN Rejected
  ELSE IF "rejected" \in Statuses(rs) THEN FirstOf(rs, "rejected")
  ELSE IF "parsed" \in Statuses(rs) THEN FirstOf(rs, "parsed")
  ELSE IF "malformed" \in Statuses(rs) THEN FirstOf(rs, "malformed") ELSE NotApplicable
decodeToolCallCascade(s) == IF Len(s) > InputLimit THEN Rejected ELSE Strongest(Results(s))

(* Legacy recovery: function forms, tagged JSON, fenced JSON and a bare     *)
(* object, each on what the previous form left; what names no tool of the   *)
(* catalog stays in the text.  Arrays and values without a name are no      *)
(* calls here, and the schema is not consulted.                             *)
decodeRecoveredToolJSON(payload) ==
  IF Len(payload) = 1 /\ payload[1] \in {"Ja", "Jl", "Jb", "Jn", "Jt"}
  THEN <<CASE payload[1] = "Jb" -> "b" [] OTHER -> "a">> ELSE <<>>
Take(s, spans) == SelectSeq(spans, LAMBDA f : decodeRecoveredToolJSON(Payload(s, f)) # <<>>)
Names(s, spans) == FlattenSeq([k \in DOMAIN spans |-> decodeRecoveredToolJSON(Payload(s, spans[k]))])
LegacyFences(s) == Take(s, SupportedFences(s, FenceSpans(s)))
LegacyResult(names, cleaned) ==
  [calls |-> [k \in DOMAIN names |-> [name |-> names[k], id |-> k - 1, arg |-> "ok"]],
   cleaned |-> SelectSeq(cleaned, LAMBDA t : t \notin {"_", "<t>", "</t>"})]
LegacyBare(names, left, bare) == LegacyResult(names \o bare, IF bare # <<>> THEN <<>> ELSE left)
LegacyFenced(names, s, fences) ==
  LegacyBare(names \o Names(s, fences), RemoveSpans(s, fences),
             decodeRecoveredToolJSON(Blank(RemoveSpans(s, fences))))
LegacyRest(names, s) == LegacyFenced(names, s, LegacyFences(s))
LegacyTagged(names, s, spans) ==
  LegacyRest(names \o Names(s, Take(s, spans)), RemoveSpans(s, Take(s, spans)))
LegacyTags(names, s) == LegacyTagged(names, s, HermesSpans(s))
recoverLeakedToolCalls(s) ==
  LegacyTags([k \in 1 .. Cardinality(Positions(s, {"Fa"})) |-> "a"],
             [i \in DOMAIN s |-> IF s[i] = "Fa" THEN "_" ELSE s[i]])

(* The decision of one response without native calls. *)
Decision(cs, shown, correct) == [calls |-> cs, visible |-> shown, correct |-> correct]
DecideLegacy(shown, old) ==
  IF Len(shown) > InputLimit \/ old.calls = <<>> \/ Len(old.calls) > CallLimit
  THEN Decision(<<>>, shown, FALSE) ELSE Decision(old.calls, old.cleaned, FALSE)
DecideMulti(s, shown, r) ==
  IF s = <<>> \/ r.status = "not_applicable" THEN Decision(<<>>, shown, FALSE)
  ELSE IF r.status # "parsed" THEN Decision(<<>>, shown, TRUE)
  ELSE Decision(r.calls, Blank(RemoveSpans(shown, r.ranges)), FALSE)
applyToolResponsePolicy(pol, ch, s) ==
  LET shown == IF ch = "visible" THEN s ELSE <<>>
  IN  CASE pol = "native" -> Decision(<<>>, shown, FALSE)
        [] pol = "legacy" -> DecideLegacy(shown, recoverLeakedToolCalls(shown))
        [] pol = "multi" -> DecideMulti(s, shown, decodeToolCallCascade(s))
        [] OTHER -> Decision(<<>>, shown, TRUE)

Init == /\ policy \in Policies
        /\ channel \in Channels
        /\ text = <<>>
        /\ phase = "streaming"
        /\ calls = <<>>
        /\ source = "none"
        /\ visible = <<>>
        /\ attempts = 0
        /\ responses = 1

Stream(t) == /\ phase = "streaming"
             /\ Len(text) < MaxTokens
             /\ text' = Append(text, t)
             /\ UNCHANGED <<policy, channel, phase, calls, source, visible, attempts, responses>>

NextResponse(ch) == /\ responses < MaxResponses
                    /\ responses' = responses + 1
                    /\ channel' = ch
                    /\ text' = <<>>

(* A response that needs a correction costs one of the run's corrections;   *)
(* with none left the run fails.                                            *)
Correct == /\ phase = "streaming"
           /\ applyToolResponsePolicy(policy, channel, text).correct
           /\ IF attempts >= CorrectionLimit
              THEN /\ phase' = "failed"
                   /\ UNCHANGED <<attempts, channel, text, responses>>
              ELSE /\ attempts' = attempts + 1
                   /\ UNCHANGED phase
                   /\ \E ch \in Channels : NextResponse(ch)
           /\ UNCHANGED <<policy, calls, source, visible>>

Settle(d) == /\ ~d.correct
             /\ calls' = d.calls
             /\ source' = IF d.calls = <<>> THEN "none" ELSE "text"
             /\ visible' = d.visible
             /\ phase' = IF d.calls = <<>> THEN "answered" ELSE "executed"
Decide == /\ phase = "streaming"
          /\ Settle(applyToolResponsePolicy(policy, channel, text))
          /\ UNCHANGED <<policy, channel, text, attempts, responses>>

(* Native calls are taken as they are; the text stays. *)
Native == /\ phase = "streaming"
          /\ calls' = <<[name |-> "a", id |-> 0, arg |-> "ok"]>>
          /\ visible' = IF channel = "visible" THEN text ELSE <<>>
          /\ phase' = "executed"
          /\ source' = "native"
          /\ UNCHANGED <<policy, channel, text, attempts, responses>>

Proceed == /\ phase = "executed"
           /\ phase' = "streaming"
           /\ \E ch \in Channels : NextResponse(ch)
           /\ calls' = <<>>
           /\ source' = "none"
           /\ visible' = <<>>
           /\ UNCHANGED <<policy, attempts>>

Next == \/ \E t \in Alphabet : Stream(t)
        \/ Correct \/ Decide \/ Native \/ Proceed

Spec == Init /\ [][Next]_vars

(***************************************************************************)
(* Properties                                                              *)
(***************************************************************************)
(* Every part of the state has its type; no correction beyond the limit is  *)
(* requested and the run fails only when all were used.                     *)
TypeOK == /\ text \in Seq(Alphabet) /\ Len(text) <= MaxTokens
          /\ phase \in {"streaming", "executed", "answered", "failed"}
          /\ \A k \in DOMAIN calls : calls[k].name \in Catalog
          /\ attempts <= CorrectionLimit
          /\ phase = "failed" => attempts = CorrectionLimit

Recovered == source = "text" /\ policy = "multi"

(* Where a format has a whole envelope around one JSON value, and the calls *)
(* these envelopes name, read off the text directly.                        *)
Formats == {[opening |-> <<"<t>">>, closing |-> "</t>"], [opening |-> <<"fence", "json">>, closing |-> "fence"]}
At(s, f) == {i \in 2 .. Len(s) - 1 : /\ s[i] \in JsonTokens \ {"Jt"}
                                      /\ s[i + 1] = f.closing
                                      /\ IsSuffix(f.opening, SubSeq(s, 1, i - 1))}
Reading(s, f) ==
  LET cs == FlattenSeq([i \in DOMAIN s |-> IF i \in At(s, f) /\ s[i] # "Jx" THEN JsonCalls[s[i]] ELSE <<>>])
  IN  [k \in DOMAIN cs |-> <<IF cs[k].name = "alias" THEN "a" ELSE cs[k].name, cs[k].arg>>]
AllWhole(s, f) ==
  Cardinality(Positions(s, {f.opening[1], f.closing})) = 2 * Cardinality(At(s, f)) /\ At(s, f) # {}

(* No envelope is run while another one says something else or is refused:  *)
(* when the calls of a text run, every format whose envelopes are all whole *)
(* names exactly these calls.  The cascade compares the formats and lets a  *)
(* refused envelope stop the others (decodeToolCallCascade).                *)
OnlyReading ==
  Recovered => \A f \in Formats : AllWhole(text, f) =>
                 [k \in DOMAIN calls |-> <<calls[k].name, calls[k].arg>>] = Reading(text, f)

(* Calls recovered from text are distinct tools with distinct ids, within   *)
(* the limit, and none has arguments its schema refuses                     *)
(* (validateToolParseResult, after the aliases are resolved).               *)
CallsDistinct ==
  Recovered => /\ Len(calls) <= CallLimit
               /\ \A k \in DOMAIN calls : calls[k].arg = "ok"
               /\ \A k, l \in DOMAIN calls : k # l => calls[k].name # calls[l].name /\ calls[k].id # calls[l].id

(* What the user was told stays: removing the executed envelopes loses no   *)
(* prose and changes no order (removeExactToolTextRanges).                  *)
ProseSurvives ==
  (Recovered /\ channel = "visible") =>
    SelectSeq(visible, LAMBDA t : t = "w") = SelectSeq(text, LAMBDA t : t = "w")

(* Nothing that looks like a tool call passes for an answer: a text that    *)
(* ends the turn holds no marker of any format and is no JSON value         *)
(* (malformed results ask for a correction).                                *)
AnswerHasNoMarkers ==
  (phase = "answered" /\ policy = "multi") =>
    /\ ~Holds(text, {"<t>", "</t>", "S", "E", "B", "X", "Ta", "Tx"})
    /\ text # <<>> => text[1] \notin JsonTokens
    /\ \A i \in Positions(text, {"fence"}) :
         supportedToolFence(Label(text, i)) => \E j \in 1 .. i - 2 : text[j] = "fence" /\ text[j + 1] = "py"

(* A codeblock or a tokenized section is run only at the end of the text:   *)
(* a call in the middle of a text that goes on is no final envelope.        *)
FinalOnly ==
  (Recovered /\ Holds(text, {"Na", "Ta"}) /\ ~Holds(text, {"<t>", "S"} \cup JsonTokens))
    => text[Len(text)] \in {"fence", "X"}

(* Legacy recovery drops nothing: every envelope is run or still shown.     *)
LegacyRunsOrShows ==
  (policy = "legacy" /\ phase \in {"executed", "answered"} /\ channel = "visible" /\ source # "native") =>
    Cardinality(Positions(text, JsonTokens \cup {"Fa", "Fu"}))
      = Len(calls) + Cardinality(Positions(visible, JsonTokens \cup {"Fa", "Fu"}))

=============================================================================
