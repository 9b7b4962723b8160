---------------------------- MODULE ContextWindow -----------------------------
(***************************************************************************)
(* The message list of a run on its way to the provider: what the loop     *)
(* appends, NormalizeMessages (agent/normalize.go) before every request,   *)
(* BoundHistoricalToolResults and the structured compaction of             *)
(* agent/compact.go when the request is over budget.                       *)
(*                                                                         *)
(* The text of a message is a sequence of atoms: instructions of the user, *)
(* nudges of the loop and the fillers; joining two texts appends them.     *)
(* Whether a request is over budget is decided in ContextBudget; here any  *)
(* request may be.                                                         *)
(***************************************************************************)
EXTENDS Integers, Sequences, SequencesExt, FiniteSets

CONSTANTS
  Texts,          \* instructions a user may give, each once
  LongTexts,      \* those over the 600 bytes a snapshot keeps of one
  Ids,            \* ids of tool calls
  KeepUnits,      \* compactionRecentUnits
  MaxInstructions,\* maxCompactionUserInstructions
  MaxMessages,    \* maxTotalMessages
  MaxAppends,     \* bound on what is appended
  FromRun         \* TRUE: the loop, whose runs start from the transcript of
                  \* the client and hand their own instructions to the
                  \* snapshot; FALSE: compacted lists are continued and the
                  \* instructions are read back from them

VARIABLES
  messages,   \* the list the loop holds
  transcript, \* the list of the client: neither nudges nor compaction
  appended,   \* number of appends so far
  sent,       \* the request of the run's last iteration, after all reductions
  before,     \* the list that request was made from, after normalisation
  severed,    \* calls of this run that the message cap has cut in two
  blocked     \* unresolved_tool_pair

historyVars == <<messages, transcript, appended, sent, before, severed, blocked>>

CutMark == "cut"
Continued == "(continued)"
Preserved == "(preserved context continues)"
Nudge == "nudge"
NoSnapshot == <<"none">>

String(role, text) == [role |-> role, array |-> FALSE, text |-> text, uses |-> {},
                       results |-> {}, big |-> FALSE, snapshot |-> NoSnapshot]
Uses(ids) == [String("assistant", <<>>) EXCEPT !.array = TRUE, !.uses = ids]
Results(ids) == [String("user", <<>>) EXCEPT !.array = TRUE, !.results = ids, !.big = TRUE]
Reply == [String("assistant", <<"reply">>) EXCEPT !.array = TRUE]
Other(role) == IF role = "assistant" THEN "user" ELSE "assistant"
-----------------------------------------------------------------------------
(* NormalizeMessages: merge neighbours of one role, insert fillers, cap.   *)

Mergeable(a, b) ==
  /\ a.role = b.role
  /\ a.array = b.array
  /\ a.array \/ b.text # <<>>

Merge(a, b) ==
  [a EXCEPT !.text = @ \o b.text, !.uses = @ \cup b.uses,
            !.results = @ \cup b.results, !.big = @ \/ b.big]

mergeConsecutiveSameRole(ms) ==
  FoldLeft(LAMBDA out, m :
             IF out # <<>> /\ Mergeable(Last(out), m)
             THEN Append(Front(out), Merge(Last(out), m))
             ELSE Append(out, m), <<>>, ms)

Alternating(out, m, filler) ==
  IF out # <<>> /\ Last(out).role = m.role
  THEN out \o << String(Other(m.role), <<filler>>), m >>
  ELSE Append(out, m)

ensureAlternatingRoles(ms) ==
  FoldLeft(LAMBDA out, m : Alternating(out, m, Continued), <<>>, ms)

capMessageCount(ms) ==
  IF Len(ms) <= MaxMessages
  THEN ms
  ELSE SubSeq(ms, 1, 2) \o SubSeq(ms, Len(ms) - (MaxMessages - 2) + 1, Len(ms))

(* Calls of which a list has one half only. *)
Halved(ms) ==
  LET used     == UNION {ms[i].uses : i \in DOMAIN ms}
      answered == UNION {ms[i].results : i \in DOMAIN ms}
  IN  (used \ answered) \cup (answered \ used)

NormalizeMessages(ms) ==
  capMessageCount(ensureAlternatingRoles(mergeConsecutiveSameRole(ms)))
-----------------------------------------------------------------------------
(* Units of the history: a message, or a call with exactly its results.    *)

Paired(ms, i) ==
  /\ i \in 1 .. Len(ms) - 1
  /\ ms[i].role = "assistant" /\ ms[i + 1].role = "user"
  /\ ms[i].uses # {} /\ ms[i].uses = ms[i + 1].results

historyUnits(ms) == {i \in DOMAIN ms : ~ Paired(ms, i - 1)}

recentHistoryStart(ms, keep) ==
  LET later(i) == Cardinality({j \in historyUnits(ms) : j >= i})
  IN  IF Cardinality(historyUnits(ms)) <= keep
      THEN 1
      ELSE CHOOSE i \in historyUnits(ms) : later(i) = keep

unresolvedHistoricalPairs(ms) ==
  LET cutoff == recentHistoryStart(ms, KeepUnits)
      paired == UNION {ms[i].uses : i \in {j \in DOMAIN ms : Paired(ms, j)}}
  IN  UNION {ms[i].uses \cup ms[i].results : i \in 1 .. cutoff - 1} \ paired

BoundHistoricalToolResults(ms) ==
  LET used == UNION {ms[i].uses : i \in DOMAIN ms}
  IN  [i \in DOMAIN ms |->
         IF i < recentHistoryStart(ms, KeepUnits) /\ ms[i].results \cap used # {}
         THEN [ms[i] EXCEPT !.big = FALSE] ELSE ms[i]]
-----------------------------------------------------------------------------
(* Instructions of the user.                                               *)

meaningfulInstructionText(text) == IF text = <<Preserved>> THEN <<>> ELSE text

Instruction(m) == m.role = "user" /\ m.results = {} /\ meaningfulInstructionText(m.text) # <<>>

firstObjectiveIndex(ms) ==
  LET found == {i \in DOMAIN ms : Instruction(ms[i])}
  IN  IF found = {} THEN 0 ELSE CHOOSE i \in found : \A j \in found : j <= i

appendRecentInstruction(list, text) == Append(SelectSeq(list, LAMBDA x : x # text), text)

boundUserInstructionCount(list) ==
  IF Len(list) <= MaxInstructions
  THEN list
  ELSE <<Head(list)>> \o SubSeq(list, Len(list) - (MaxInstructions - 1) + 1, Len(list))

userInstructionTexts(ms) ==
  boundUserInstructionCount(FoldLeft(LAMBDA list, m :
    CASE m.snapshot # NoSnapshot -> m.snapshot
      [] m.snapshot = NoSnapshot /\ Instruction(m) -> appendRecentInstruction(list, m.text)
      [] OTHER -> list, <<>>, ms))

sanitizeRecentSnapshotText(text) ==
  IF Head(text) # CutMark /\ \E i \in DOMAIN text : text[i] \in LongTexts
  THEN <<CutMark>> \o text ELSE text

sanitizeUserInstructionList(list) ==
  [i \in DOMAIN boundUserInstructionCount(list) |->
     sanitizeRecentSnapshotText(boundUserInstructionCount(list)[i])]
-----------------------------------------------------------------------------
(* Structured compaction: the objective, one summary, the recent units.    *)

buildCompactionSnapshot(ms, known) ==
  [String("assistant", <<"state">>) EXCEPT
     !.snapshot = sanitizeUserInstructionList(
                    IF known = <<>> THEN userInstructionTexts(ms) ELSE known)]

buildCompactedMessages(ms, known) ==
  LET objective == firstObjectiveIndex(ms)
      start     == recentHistoryStart(ms, KeepUnits)
      kept      == IF objective \in 1 .. start - 1 THEN <<ms[objective]>> ELSE <<>>
  IN  FoldLeft(LAMBDA out, m : Alternating(out, m, Preserved), kept,
               <<buildCompactionSnapshot(ms, known)>> \o SubSeq(ms, start, Len(ms)))
-----------------------------------------------------------------------------
HistoryInit ==
  /\ messages = <<>> /\ transcript = <<>> /\ appended = 0
  /\ sent = <<>> /\ before = <<>> /\ severed = {} /\ blocked = FALSE

More(tail, own) ==
  /\ ~ blocked /\ appended < MaxAppends
  /\ messages' = IF own THEN transcript \o tail ELSE messages \o tail
  /\ transcript' = transcript \o tail
  /\ appended' = appended + 1
  /\ IF own THEN sent' = <<>> /\ before' = <<>> /\ severed' = {}
     ELSE UNCHANGED <<sent, before, severed>>
  /\ UNCHANGED blocked

(* The user gives an instruction: a run starts from the transcript. *)
Ask(t) ==
  /\ \A i \in DOMAIN transcript : transcript[i].text # <<t>>
  /\ More(<<String("user", <<t>>)>>, FromRun)

(* The model answers without a call. *)
Answer == messages # <<>> /\ More(<<Reply>>, FALSE)

(* A tool call and its (large) results; ids are fresh. *)
Call(id) ==
  /\ messages # <<>>
  /\ \A i \in DOMAIN transcript : id \notin transcript[i].uses
  /\ More(<<Uses({id}), Results({id})>>, FALSE)

(* The loop corrects the model in the role of the user. *)
Correct ==
  /\ FromRun /\ ~ blocked /\ appended < MaxAppends
  /\ messages # <<>> /\ Last(messages).role = "assistant"
  /\ messages' = Append(messages, String("user", <<Nudge>>))
  /\ appended' = appended + 1
  /\ UNCHANGED <<transcript, sent, before, severed, blocked>>

(* The instructions a run hands to the snapshot. *)
Known == IF FromRun THEN userInstructionTexts(transcript) ELSE <<>>

(* One iteration: normalise, then send as it is, with bounded results, or  *)
(* compacted; the loop goes on with what was sent.                         *)
Request ==
  /\ ~ blocked /\ messages # <<>>
  /\ LET normal == NormalizeMessages(messages)
         bounded == BoundHistoricalToolResults(normal)
     IN  \/ /\ sent' \in {normal, bounded}
            /\ before' = normal /\ messages' = sent' /\ UNCHANGED blocked
         \/ /\ unresolvedHistoricalPairs(bounded) = {}
            /\ sent' = buildCompactedMessages(bounded, Known)
            /\ before' = normal /\ messages' = sent' /\ UNCHANGED blocked
         \/ /\ unresolvedHistoricalPairs(bounded) # {}
            /\ blocked' = TRUE
            /\ UNCHANGED <<sent, before, messages>>
  /\ LET whole == ensureAlternatingRoles(mergeConsecutiveSameRole(messages))
     IN  severed' = severed \cup (Halved(capMessageCount(whole)) \ Halved(whole))
  /\ UNCHANGED <<transcript, appended>>

HistoryNext ==
  \/ \E t \in Texts : Ask(t)
  \/ Answer
  \/ \E id \in Ids : Call(id)
  \/ Correct
  \/ Request

HistorySpec == HistoryInit /\ [][HistoryNext]_historyVars
-----------------------------------------------------------------------------
Atoms == Texts \cup {CutMark, Continued, Preserved, Nudge, "reply", "state"}

(* Messages are made of the blocks the code knows, and a snapshot keeps no *)
(* more instructions than its limit.                                       *)
HistoryTypeOK ==
  /\ \A ms \in {messages, transcript, sent, before} : \A i \in DOMAIN ms :
       /\ ms[i].role \in {"user", "assistant"}
       /\ \A k \in DOMAIN ms[i].text : ms[i].text[k] \in Atoms
       /\ ms[i].uses \cup ms[i].results \subseteq Ids
       /\ ms[i].snapshot # NoSnapshot => Len(ms[i].snapshot) <= MaxInstructions
  /\ appended \in 0 .. MaxAppends
  /\ blocked \in BOOLEAN

(* What is sent to the provider alternates between user and assistant, as  *)
(* the comment on mergeConsecutiveSameRole requires, except at the place   *)
(* where the message cap, which looks at no roles, joined the two ends.    *)
RolesAlternate ==
  \A i \in 1 .. Len(sent) - 1 :
    sent[i].role = sent[i + 1].role => i = 2 /\ Len(sent) = MaxMessages

(* A result is never separated from its call: whatever was merged, filled  *)
(* or compacted away, in a request a result follows the message of its     *)
(* call and a call has its result next.  The message cap may cut a call    *)
(* from its result; nothing else does, and it harms no other call.         *)
PairsWhole ==
  \A id \in Ids \ severed : \A i \in DOMAIN sent :
    /\ id \in sent[i].results => i > 1 /\ id \in sent[i - 1].uses
    /\ id \in sent[i].uses => i < Len(sent) /\ id \in sent[i + 1].results

(* Compaction is never refused for a history whose pairs were whole, but   *)
(* only for one that the message cap had cut through.                      *)
NeverRefused == blocked => severed # {}

(* What the user asked last is in every request, as a message of the user *)
(* or as the last instruction of the snapshot, whatever the loop said in   *)
(* the role of the user since.                                             *)
LatestAskedKept ==
  LET asked == {i \in DOMAIN transcript : Instruction(transcript[i])}
      last  == transcript[CHOOSE i \in asked : \A j \in asked : j <= i].text[1]
      In(text) == \E k \in DOMAIN text : text[k] = last
  IN  asked # {} /\ (\E i \in DOMAIN before : before[i].role = "user" /\ In(before[i].text)) =>
        \E i \in DOMAIN sent :
          \/ sent[i].role = "user" /\ In(sent[i].text)
          \/ sent[i].snapshot # NoSnapshot /\ In(Last(sent[i].snapshot))

(* A compacted list says the same as the list it was made from: the        *)
(* instructions read back from it are the original one and the most recent *)
(* ones, in order, however often the list was compacted before.  Except    *)
(* that an instruction too long for the snapshot, still among the recent   *)
(* messages, is read back twice: its cut form is not taken for the same.   *)
InstructionsReconstructed ==
  (\E i \in DOMAIN sent : sent[i].snapshot # NoSnapshot /\
     \A j \in i + 1 .. Len(sent) :
       Instruction(sent[j]) => \A k \in DOMAIN sent[j].text : sent[j].text[k] \notin LongTexts) =>
    sanitizeUserInstructionList(userInstructionTexts(sent)) =
    sanitizeUserInstructionList(userInstructionTexts(before))

------------------------------------------------------------------------------

(***************************************************************************)
(* The token budget of one run: PlanContextRequest (agent/context_plan.go) *)
(* and compactPlannedContext (agent/compact.go) as the loop calls them     *)
(* (agent/loop.go).  Every section of a request is a number of tokens; how *)
(* the history is cut is the subject of ContextHistory.                    *)
(***************************************************************************)
CONSTANTS
  Window,          \* context window less requested output and safety margin
  Reliable,        \* ReliableInputTokens, 0 when unknown
  Overhead,        \* protocol framing of one tool definition
  Core,            \* core prompt
  RagSizes, MemorySizes,
  RequiredTools, OptionalTools,   \* tool definitions, one token each
  TurnSizes,       \* growth of the history in one turn
  BigSizes,        \* share of it that is large tool results
  Recent,          \* tokens the compacted history keeps at least
  NarrativeSizes,  \* size of a narrative of the summarizer
  ReasonSize,      \* size of llmFallbackReason in the rendered snapshot
  MaxCompactFailures,
  MaxTurns

VARIABLES
  small,      \* tokens of the history outside large old results
  big,        \* tokens of large old tool results
  tools,      \* the catalogue: schemas sent and names a call may use
  rag, memory,
  attempts,   \* compactionAttempts
  turns,
  run,        \* "planning", "sent", "blocked"
  code,       \* BlockCode
  trail,      \* reductions of the last plan
  llm         \* what the summarizer did in the last compaction

budgetVars == <<small, big, tools, rag, memory, attempts, turns, run, code, trail, llm>>

Usable(ts) ==
  LET left == Window - Overhead * Cardinality(ts)
  IN  IF Reliable > 0 /\ Reliable < left THEN Reliable ELSE left

Input(r, m, ts, h) == Core + r + m + Cardinality(ts) + h

calculate_NoOverhead(r, m, ts, h) == Input(r, m, ts, h) <= Usable({})

calculate(r, m, ts, h) == Usable(ts) > 0 /\ Input(r, m, ts, h) <= Usable(ts)

(* A plan: what is left of each section and the reductions made. *)
Plan(r, m, ts, s, b, t) == [rag |-> r, memory |-> m, tools |-> ts, small |-> s, big |-> b, trail |-> t]
FitsPlan(p) == calculate(p.rag, p.memory, p.tools, p.small + p.big)

Reduced(p, q, kind) == [q EXCEPT !.trail = Append(p.trail, kind)]

shrinkOptionalContext(size) == size \div 2

RagStep(p) ==
  LET short == Reduced(p, [p EXCEPT !.rag = shrinkOptionalContext(@)], "rag_shrink")
  IN  IF FitsPlan(p) \/ p.rag = 0 THEN p
      ELSE IF FitsPlan(short) \/ short.rag = 0 THEN short
      ELSE Reduced(short, [short EXCEPT !.rag = 0], "rag_remove")

MemoryStep(p) ==
  LET short == Reduced(p, [p EXCEPT !.memory = shrinkOptionalContext(@)], "memory_shrink")
  IN  IF FitsPlan(p) \/ p.memory = 0 THEN p
      ELSE IF FitsPlan(short) \/ short.memory = 0 THEN short
      ELSE Reduced(short, [short EXCEPT !.memory = 0], "memory_remove")

PruneStep(p) ==
  LET optional == p.tools \ RequiredTools
      options  == {Reduced(p, [p EXCEPT !.tools = @ \ gone], "tool_prune") :
                     gone \in SUBSET optional \ {{}}}
      fit      == {q \in options : FitsPlan(q)}
  IN  IF FitsPlan(p) \/ optional = {} THEN {p}
      ELSE IF fit # {} THEN {q \in fit : \A o \in fit : Cardinality(o.tools) <= Cardinality(q.tools)}
      ELSE {Reduced(p, [p EXCEPT !.tools = @ \ optional], "tool_prune")}

BoundStep(p) ==
  IF FitsPlan(p) \/ p.big = 0 THEN p
  ELSE Reduced(p, [p EXCEPT !.big = 0], "tool_result_preview")

PlanContextRequest(p) == {BoundStep(q) : q \in PruneStep(MemoryStep(RagStep(p)))}
-----------------------------------------------------------------------------
BudgetInit ==
  /\ small \in TurnSizes /\ big = 0
  /\ tools = RequiredTools \cup OptionalTools
  /\ rag \in RagSizes /\ memory \in MemorySizes
  /\ attempts = 0 /\ turns = 0
  /\ run = "planning" /\ code = "" /\ trail = <<>> /\ llm = "none"

Commit(p) ==
  /\ tools' = p.tools /\ small' = p.small /\ big' = p.big /\ trail' = p.trail
  /\ UNCHANGED <<rag, memory, turns>>

Block(why) ==
  /\ run' = "blocked" /\ code' = why
  /\ UNCHANGED <<small, big, tools, rag, memory, attempts, turns>>

(* Reservations leave nothing for the input: the planner refuses. *)
PlanFails ==
  /\ run = "planning" /\ Usable(tools) <= 0
  /\ Block("reservations_exhaust_window")
  /\ UNCHANGED <<trail, llm>>

(* The request fits, as it is or after reductions. *)
Send ==
  /\ run = "planning" /\ Usable(tools) > 0
  /\ \E p \in PlanContextRequest(Plan(rag, memory, tools, small, big, <<>>)) :
       /\ FitsPlan(p)
       /\ Commit(p)
  /\ run' = "sent"
  /\ UNCHANGED <<attempts, code, llm>>

CompactionLimit ==
  /\ run = "planning" /\ Usable(tools) > 0
  /\ attempts >= MaxCompactFailures
  /\ \E p \in PlanContextRequest(Plan(rag, memory, tools, small, big, <<>>)) :
       ~ FitsPlan(p) /\ trail' = p.trail
  /\ Block("compaction_limit_reached")
  /\ UNCHANGED llm

(* The messages after compaction: the snapshot and the recent units, plus  *)
(* what the candidate adds to the snapshot.                                *)
Compacted(p, extra) == [p EXCEPT !.small = Recent + extra, !.big = 0]

(* What the summarizer is good for: a narrative of some size, or the reason  *)
(* why there is none (timeout, stream error, empty summary).                *)
requestCompactionNarrative ==
  {<<"failed", ReasonSize>>} \cup {<<"narrative", n>> : n \in NarrativeSizes}

Candidates(p) ==
  IF ~ FitsPlan(Compacted(p, 0))
  THEN {<<"none", Compacted(p, 0)>>}
  ELSE {IF r[1] = "failed" \/ FitsPlan(Compacted(p, r[2])) THEN <<r[1], Compacted(p, r[2])>>
        ELSE <<"overflow", Compacted(p, ReasonSize)>> : r \in requestCompactionNarrative}

compactPlannedContext ==
  /\ run = "planning" /\ Usable(tools) > 0
  /\ attempts < MaxCompactFailures
  /\ \E p \in PlanContextRequest(Plan(rag, memory, tools, small, big, <<>>)) :
       /\ ~ FitsPlan(p)
       /\ \E c \in Candidates(p) :
            /\ llm' = c[1]
            /\ \/ /\ FitsPlan(c[2])
                  /\ Commit(Reduced(p, c[2], "history_compaction"))
                  /\ run' = "sent" /\ UNCHANGED code
               \/ /\ ~ FitsPlan(c[2])
                  /\ run' = "blocked" /\ code' = "context_overflow_after_compaction"
                  /\ trail' = Append(p.trail, "history_compaction")
                  /\ UNCHANGED <<small, big, tools, rag, memory, turns>>
  /\ attempts' = attempts + 1

(* An old history whose pairs are not whole is never cut. *)
UnresolvedPair ==
  /\ run = "planning" /\ Usable(tools) > 0
  /\ attempts < MaxCompactFailures
  /\ \E p \in PlanContextRequest(Plan(rag, memory, tools, small, big, <<>>)) :
       ~ FitsPlan(p) /\ trail' = p.trail
  /\ run' = "blocked" /\ code' = "unresolved_tool_pair"
  /\ attempts' = attempts + 1
  /\ UNCHANGED <<small, big, tools, rag, memory, turns, llm>>

(* The next iteration: the history grows, RAG belongs to the first turn,   *)
(* and the optional memory is rendered again.                              *)
NextTurn ==
  /\ run = "sent" /\ turns < MaxTurns
  /\ \E s \in TurnSizes, b \in BigSizes : small' = small + s /\ big' = big + b
  /\ turns' = turns + 1 /\ rag' = 0
  /\ run' = "planning" /\ trail' = <<>>
  /\ UNCHANGED <<tools, memory, attempts, code, llm>>

BudgetNext ==
  \/ PlanFails
  \/ Send
  \/ CompactionLimit
  \/ compactPlannedContext
  \/ UnresolvedPair
  \/ NextTurn

BudgetSpec == BudgetInit /\ [][BudgetNext]_budgetVars /\ WF_budgetVars(BudgetNext)
-----------------------------------------------------------------------------
Kinds == <<"rag_shrink", "rag_remove", "memory_shrink", "memory_remove",
           "tool_prune", "tool_result_preview", "history_compaction">>

(* The state of a planned run.                                             *)
BudgetTypeOK ==
  /\ small \in Nat /\ big \in Nat
  /\ RequiredTools \subseteq tools /\ tools \subseteq RequiredTools \cup OptionalTools
  /\ attempts \in 0 .. MaxCompactFailures /\ turns \in 0 .. MaxTurns
  /\ run \in {"planning", "sent", "blocked"}
  /\ \A i \in DOMAIN trail : \E k \in DOMAIN Kinds : trail[i] = Kinds[k]

(* Every request that is sent fits: with the history, the catalogue that   *)
(* calls are checked against and the reservations of output and framing,   *)
(* without the optional sections that the plan removed.                    *)
SentFits ==
  run = "sent" =>
    LET input == Core + Cardinality(tools) + small + big
    IN  /\ input + Overhead * Cardinality(tools) <= Window
        /\ Reliable > 0 => input <= Reliable

(* Reductions are made in the fixed order, so nothing of the history goes  *)
(* while a tool schema, and no tool while optional context, could go.      *)
InOrder ==
  \A i, j \in DOMAIN trail : i < j =>
    \E k, l \in DOMAIN Kinds : trail[i] = Kinds[k] /\ trail[j] = Kinds[l] /\ k < l

(* A run is not blocked by compaction when the deterministic compaction of *)
(* the history fits with the note of why it has no narrative: the note is  *)
(* not part of the preflight, and an answer of the summarizer, whatever    *)
(* its length, costs no more than the note.                                *)
FallbackIsEnough ==
  run = "blocked" /\ code = "context_overflow_after_compaction" =>
    \E p \in PlanContextRequest(Plan(rag, memory, tools, small, big, <<>>)) :
      ~ FitsPlan(Compacted(p, ReasonSize))

=============================================================================
