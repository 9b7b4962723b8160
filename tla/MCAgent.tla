------------------------------- MODULE MCAgent -------------------------------
(***************************************************************************)
(* One run of the agent kernel, piece by piece: the loop, the changes its  *)
(* calls make to files, the recovery of calls from text, the history a     *)
(* request is built from; and the proxy the request goes through: the      *)
(* account that serves it, what its answers teach, and the stream that     *)
(* comes back.  A behaviour is one of the component named by part; the     *)
(* others stay Off.                                                        *)
(***************************************************************************)
EXTENDS Integers, Sequences, FiniteSets, TLC

CONSTANTS Off, f1, f2, w1, w2, t1, t2, c1, c2, report, read, edit, r1, r2, q1, q2

VARIABLES
  part,
  run, pc, i, try, used, tools, explored, awaiting, edited, denied, tested, contract, refs,
  records, cycles, shown, receipt, beating, cancelled, hooks, mcp, outcome, closed, fresh,
  disk, ledger, gen, started, manifest, op, next, userEdits, byUser, fileSeen, runWrote,
  residue, lost, fileEdited,
  policy, channel, text, phase, calls, source, visible, attempts, responses,
  messages, transcript, appended, sent, before, severed, blocked,
  small, big, budgetTools, rag, memory, budgetAttempts, turns, budgetRun, code, trail, llm,
  accounts, current, day,
  now, tele, lease, req, collecting, level0, row529, okRun,
  wire, up, tr, prov, pend, chan, relay, held, msg, frames, writer, handler, streamCancelled, gone,
  dog, streamSent, aborted

loopVars == <<run, pc, i, try, used, tools, explored, awaiting, edited, denied, tested, contract, refs,
    records, cycles, shown, receipt, beating, cancelled, hooks, mcp, outcome, closed, fresh>>
fileVars == <<disk, ledger, gen, started, manifest, op, next, userEdits, byUser, fileSeen, runWrote,
    residue, lost, fileEdited>>
textVars == <<policy, channel, text, phase, calls, source, visible, attempts, responses>>
historyVars == <<messages, transcript, appended, sent, before, severed, blocked>>
budgetVars == <<small, big, budgetTools, rag, memory, budgetAttempts, turns, budgetRun, code, trail, llm>>
scheduleVars == <<accounts, current, day>>
requestVars == <<now, tele, lease, req, collecting, level0, row529, okRun>>
streamVars == <<wire, up, tr, prov, pend, chan, relay, held, msg, frames, writer, handler, streamCancelled,
    gone, dog, streamSent, aborted>>
vars == <<part, loopVars, fileVars, textVars, historyVars, budgetVars, scheduleVars,
    requestVars, streamVars>>

NoLoop ==
  /\ run = Off /\ pc = Off /\ i = Off /\ try = Off /\ used = Off /\ tools = Off
  /\ explored = Off /\ awaiting = Off /\ edited = Off /\ denied = Off /\ tested = Off
  /\ contract = Off /\ refs = Off /\ records = Off /\ cycles = Off /\ shown = Off
  /\ receipt = Off /\ beating = Off /\ cancelled = Off /\ hooks = Off /\ mcp = Off
  /\ outcome = Off /\ closed = Off /\ fresh = Off
NoFiles ==
  /\ disk = Off /\ ledger = Off /\ gen = Off /\ started = Off /\ manifest = Off /\ op = Off
  /\ next = Off /\ userEdits = Off /\ byUser = Off /\ fileSeen = Off /\ runWrote = Off
  /\ residue = Off /\ lost = Off /\ fileEdited = Off
NoText ==
  /\ policy = Off /\ channel = Off /\ text = Off /\ phase = Off /\ calls = Off /\ source = Off
  /\ visible = Off /\ attempts = Off /\ responses = Off
NoHistory ==
  /\ messages = Off /\ transcript = Off /\ appended = Off /\ sent = Off /\ before = Off
  /\ severed = Off /\ blocked = Off
NoBudget ==
  /\ small = Off /\ big = Off /\ budgetTools = Off /\ rag = Off /\ memory = Off
  /\ budgetAttempts = Off /\ turns = Off /\ budgetRun = Off /\ code = Off /\ trail = Off
  /\ llm = Off
NoSchedule ==
  /\ accounts = Off /\ current = Off /\ day = Off
NoRequests ==
  /\ now = Off /\ tele = Off /\ lease = Off /\ req = Off /\ collecting = Off /\ level0 = Off
  /\ row529 = Off /\ okRun = Off
NoStream ==
  /\ wire = Off /\ up = Off /\ tr = Off /\ prov = Off /\ pend = Off /\ chan = Off
  /\ relay = Off /\ held = Off /\ msg = Off /\ frames = Off /\ writer = Off /\ handler = Off
  /\ streamCancelled = Off /\ gone = Off /\ dog = Off /\ streamSent = Off /\ aborted = Off

-----------------------------------------------------------------------------
Plain == [task |-> "normal", policy |-> "advisory", strict |-> FALSE, question |-> FALSE, docs |-> FALSE,
          verify |-> FALSE, mode |-> FALSE, selector |-> FALSE, mcp |-> "none"]
StrictRuns == {[Plain EXCEPT !.strict = TRUE, !.task = "deep", !.policy = "block", !.verify = v] : v \in BOOLEAN}
OtherRuns ==
  {[Plain EXCEPT !.question = TRUE, !.selector = TRUE],
   [Plain EXCEPT !.task = "deep", !.policy = "block", !.docs = TRUE],
   [Plain EXCEPT !.task = "deep", !.policy = "block", !.mode = TRUE, !.mcp = "borrowed"],
   [Plain EXCEPT !.task = "deep", !.policy = "measure", !.verify = TRUE, !.mcp = "owned"],
   [Plain EXCEPT !.task = "quick"]}
LongerRuns ==
  {[Plain EXCEPT !.question = TRUE], [Plain EXCEPT !.task = "deep", !.policy = "measure", !.verify = TRUE],
   [Plain EXCEPT !.strict = TRUE, !.verify = TRUE]}

Strict == INSTANCE AgentLoop WITH
  Criteria <- {"c1"}, NeedsEvidence <- {"c1"}, MaxRefs <- 2, MaxStopBlocks <- 1, Profiles <- StrictRuns,
  MaxIterations <- 3, MaxErrorRounds <- 2, MaxCorrections <- 1, MaxVerify <- 1, MaxCompact <- 1,
  MaxCalls <- 2, ReadRounds <- 2, MoreRounds <- 2
Other == INSTANCE AgentLoop WITH
  Criteria <- {"c1"}, NeedsEvidence <- {"c1"}, MaxRefs <- 2, MaxStopBlocks <- 1, Profiles <- OtherRuns,
  MaxIterations <- 3, MaxErrorRounds <- 2, MaxCorrections <- 1, MaxVerify <- 2, MaxCompact <- 1,
  MaxCalls <- 2, ReadRounds <- 2, MoreRounds <- 2
\* Five iterations and three references: a strict run edits, its tests pass, the
\* contract sends it back, and it edits again.
Longer == INSTANCE AgentLoop WITH
  Criteria <- {"c1"}, NeedsEvidence <- {"c1"}, MaxRefs <- 3, MaxStopBlocks <- 1, Profiles <- LongerRuns,
  MaxIterations <- 5, MaxErrorRounds <- 1, MaxCorrections <- 1, MaxVerify <- 2, MaxCompact <- 0,
  MaxCalls <- 1, ReadRounds <- 1, MoreRounds <- 1

\* Batches of two files by one worker; one file and two workers.
Batches == INSTANCE FileMutation WITH
  Files <- {f1, f2}, Workers <- {w1}, InitialFiles <- {f1}, MaxContent <- 3, MaxUserEdits <- 0, MaxRuns <- 2,
  BatchSize <- 2, Window <- FALSE,
    seen <- fileSeen, edited <- fileEdited
Workers == INSTANCE FileMutation WITH
  Files <- {f1}, Workers <- {w1, w2}, InitialFiles <- {f1}, MaxContent <- 3, MaxUserEdits <- 1, MaxRuns <- 2,
  BatchSize <- 1, Window <- FALSE,
    seen <- fileSeen, edited <- fileEdited

\* Answers over four alphabets: tagged and fenced calls, the other markers,
\* whole responses in every policy, and the legacy policy.
Tagged == INSTANCE ToolRecovery WITH
  Alphabet <- {"<t>", "</t>", "Ja", "Jb", "Ju", "fence"}, Policies <- {"multi"}, Channels <- {"visible"},
  MaxTokens <- 6, InputLimit <- 9, CallLimit <- 2, CorrectionLimit <- 1, MaxResponses <- 1
Markers == INSTANCE ToolRecovery WITH
  Alphabet <- {"S", "E", "Pa", "B", "Ta", "fence", "tool", "Na", "w", "<t>"},
  Policies <- {"multi"}, Channels <- {"visible"},
  MaxTokens <- 5, InputLimit <- 9, CallLimit <- 1, CorrectionLimit <- 1, MaxResponses <- 1
Responses == INSTANCE ToolRecovery WITH
  Alphabet <- {"Ja", "Jl", "Jb", "Jal", "Jab", "Ji", "Ju", "Jn", "Jx", "Jt", "<t>", "</t>", "S", "Px", "E"},
  Policies <- {"multi", "native", "other"}, Channels <- {"visible", "reasoning"},
  MaxTokens <- 2, InputLimit <- 2, CallLimit <- 2, CorrectionLimit <- 1, MaxResponses <- 3
Legacy == INSTANCE ToolRecovery WITH
  Alphabet <- {"Fa", "Fu", "Ja", "Ju", "<t>", "</t>", "fence", "json", "w"},
  Policies <- {"legacy"}, Channels <- {"visible"},
  MaxTokens <- 4, InputLimit <- 9, CallLimit <- 2, CorrectionLimit <- 1, MaxResponses <- 1

\* A history that never reaches the message cap, one that does, and the
\* history of a loaded transcript, one of whose instructions is too long for
\* the snapshot; and a context window of fourteen units, in which what the
\* summarizer adds fits beside the recent messages, or does not (tight).
History == INSTANCE ContextWindow WITH
  Texts <- {t1, t2}, LongTexts <- {}, Ids <- {c1}, KeepUnits <- 2, MaxInstructions <- 2,
  MaxMessages <- 20, MaxAppends <- 4, FromRun <- TRUE,
  Window <- 14, Reliable <- 9, Overhead <- 2, Core <- 1, RagSizes <- {0, 3}, MemorySizes <- {0, 2},
  RequiredTools <- {report}, OptionalTools <- {edit, read}, TurnSizes <- {1, 3, 5}, BigSizes <- {0, 3},
  Recent <- 3, NarrativeSizes <- {1, 6}, ReasonSize <- 1, MaxCompactFailures <- 2, MaxTurns <- 5,
    tools <- budgetTools, attempts <- budgetAttempts, run <- budgetRun
Capped == INSTANCE ContextWindow WITH
  Texts <- {t1, t2}, LongTexts <- {}, Ids <- {c1, c2}, KeepUnits <- 2, MaxInstructions <- 2,
  MaxMessages <- 5, MaxAppends <- 5, FromRun <- TRUE,
  Window <- 14, Reliable <- 9, Overhead <- 2, Core <- 1, RagSizes <- {0}, MemorySizes <- {0},
  RequiredTools <- {report}, OptionalTools <- {edit}, TurnSizes <- {1, 5}, BigSizes <- {0, 3},
  Recent <- 6, NarrativeSizes <- {1, 6}, ReasonSize <- 2, MaxCompactFailures <- 2, MaxTurns <- 4,
    tools <- budgetTools, attempts <- budgetAttempts, run <- budgetRun
Transcript == INSTANCE ContextWindow WITH
  Texts <- {t1, t2}, LongTexts <- {t1}, Ids <- {c1}, KeepUnits <- 2, MaxInstructions <- 2,
  MaxMessages <- 20, MaxAppends <- 4, FromRun <- FALSE,
  Window <- 14, Reliable <- 9, Overhead <- 2, Core <- 1, RagSizes <- {0}, MemorySizes <- {0},
  RequiredTools <- {report}, OptionalTools <- {}, TurnSizes <- {1}, BigSizes <- {0},
  Recent <- 3, NarrativeSizes <- {1}, ReasonSize <- 0, MaxCompactFailures <- 2, MaxTurns <- 1,
    tools <- budgetTools, attempts <- budgetAttempts, run <- budgetRun

\* Text, two tool calls side by side, more arguments for each, and the end.
Chunk(content, callParts, finish) ==
  [reasoning |-> FALSE, content |-> content, tools |-> callParts, finish |-> finish]
FirstPart(index, id, args) == [index |-> index, id |-> id, args |-> args, of |-> id]
MorePart(index, id) == [index |-> index, id |-> "", args |-> TRUE, of |-> id]
ToolChunks ==
  {Chunk(TRUE, <<>>, ""), Chunk(FALSE, <<FirstPart(0, "a", TRUE)>>, ""),
   Chunk(FALSE, <<FirstPart(1, "b", FALSE)>>, ""), Chunk(FALSE, <<MorePart(1, "b"), MorePart(0, "a")>>, ""),
   Chunk(FALSE, <<MorePart(0, "a")>>, "tool_calls"), Chunk(FALSE, <<>>, "stop")}

\* Accounts as the scheduler may find them: nothing known, a week that ends
\* soon, rate limited, at its ceilings, used up, cooling down, unhealthy, with
\* data that goes stale, of another group.
AccountKind(healthy, cooldown, five, rate, seven, reset, observed, stale, group) ==
  [healthy |-> healthy, cooldownUntil |-> cooldown, five |-> five, rate |-> rate, seven |-> seven,
   resetAt |-> reset, observedAt |-> observed, allowStale |-> stale, group |-> group]
AccountKinds ==
  {AccountKind(TRUE, 0, 0, -1, 0, 0, 0, TRUE, "g"), AccountKind(TRUE, 0, 40, -1, 0, 4, 0, TRUE, "g"),
   AccountKind(TRUE, 0, 40, 80, 0, 0, 0, TRUE, "g"), AccountKind(TRUE, 0, 90, -1, 99, 9, 0, TRUE, "g"),
   AccountKind(TRUE, 0, 20, -1, 100, 3, 0, TRUE, "g"), AccountKind(TRUE, 4, 0, -1, 0, 0, 1, FALSE, "g"),
   AccountKind(FALSE, 0, 0, -1, 0, 0, 0, TRUE, "g"), AccountKind(TRUE, 0, 30, -1, 0, 0, 1, FALSE, "g"),
   AccountKind(TRUE, 0, 0, -1, 0, 0, 0, TRUE, "other")}

Proxy == INSTANCE ProxyRequest WITH
  HardCooldown <- 1, AvoidLadder <- <<1, 2, 3>>, RecoverySuccesses <- 2, Accounts <- {1, 2},
  Sessions <- {"s"}, Requests <- {r1, r2}, Sources <- {}, SessionOf <- [r \in {r1, r2} |-> "s"],
  LeaseTTL <- 2, ReevalInterval <- 2, MaxRetries <- 2, Max529 <- 3, Codes <- {200, 429, 503},
  SnapshotUses <- {0, 50}, Repeats <- FALSE, MaxTime <- 2
\* One request while two sources report quotas.
Quotas == INSTANCE ProxyRequest WITH
  HardCooldown <- 1, AvoidLadder <- <<1, 2, 3>>, RecoverySuccesses <- 2, Accounts <- {1, 2},
  Sessions <- {"s"}, Requests <- {r1}, Sources <- {q1, q2}, SessionOf <- [r \in {r1} |-> "s"],
  LeaseTTL <- 2, ReevalInterval <- 2, MaxRetries <- 1, Max529 <- 3, Codes <- {200, 401},
  SnapshotUses <- {50}, Repeats <- FALSE, MaxTime <- 2
Translated == INSTANCE StreamRelay WITH
  Wires <- {"anthropic", "chat", "responses", "json"}, Chunks <- ToolChunks, RawEvents <- {},
  Faults <- {}, MaxChunks <- 5, ChanCap <- 1,
    cancelled <- streamCancelled, sent <- streamSent

\* SelectAccount on every list of three accounts, called again and again with
\* its own choice as the current account, while days pass.
Ids == {1, 2, 3}
StaleAfter == 1
MaxDay == 3
ScheduleInit ==
  /\ \E pick \in [Ids -> AccountKinds] : accounts = {[id |-> k] @@ pick[k] : k \in Ids}
  /\ current \in {0} \cup Ids
  /\ day = 1
Decision == Proxy!SelectAccount(accounts, current, "g", day, StaleAfter)
ScheduleNext ==
  \/ current' = (IF Decision.id = 0 THEN current ELSE Decision.id) /\ UNCHANGED <<accounts, day>>
  \/ day < MaxDay /\ day' = day + 1 /\ UNCHANGED <<accounts, current>>

\* Streams that a provider of the client's own protocol sends, in any order.
OwnEvents ==
  {Translated!MessageStart, Translated!MessageDelta("stop"), Translated!MessageStop,
   Translated!BlockStart(0, "tool_use", "a"), Translated!BlockStart(1, "tool_use", "b"),
   Translated!BlockStart(2, "text", ""), Translated!BlockDelta(0, "tool_use", 1, TRUE),
   Translated!BlockStop(0), Translated!BlockStop(1)}
Relayed == INSTANCE StreamRelay WITH
  Wires <- {"chat", "responses", "json"}, Chunks <- {}, RawEvents <- OwnEvents, Faults <- {},
  MaxChunks <- 6, ChanCap <- 1,
    cancelled <- streamCancelled, sent <- streamSent

Symmetry == Permutations({r1, r2}) \cup Permutations({q1, q2})

Parts == {"strict", "other", "longer", "batches", "workers", "tagged", "markers", "responses", "legacy",
          "history", "capped", "transcript", "budget", "tight", "schedule", "requests", "quotas", "translated", "relayed"}

Init ==
  /\ part \in Parts
  /\ CASE part = "strict" -> Strict!Init [] part = "other" -> Other!Init
       [] part = "longer" -> Longer!Init [] OTHER -> NoLoop
  /\ CASE part = "batches" -> Batches!Init [] part = "workers" -> Workers!Init [] OTHER -> NoFiles
  /\ CASE part = "tagged" -> Tagged!Init [] part = "markers" -> Markers!Init
       [] part = "responses" -> Responses!Init [] part = "legacy" -> Legacy!Init [] OTHER -> NoText
  /\ CASE part = "history" -> History!HistoryInit [] part = "capped" -> Capped!HistoryInit
       [] part = "transcript" -> Transcript!HistoryInit [] OTHER -> NoHistory
  /\ CASE part = "budget" -> History!BudgetInit [] part = "tight" -> Capped!BudgetInit [] OTHER -> NoBudget
  /\ IF part = "schedule" THEN ScheduleInit ELSE NoSchedule
  /\ CASE part = "requests" -> Proxy!Init [] part = "quotas" -> Quotas!Init [] OTHER -> NoRequests
  /\ CASE part = "translated" -> Translated!Init [] part = "relayed" -> Relayed!Init [] OTHER -> NoStream

Next ==
  /\ part' = part
  /\ CASE part = "strict" -> Strict!Next [] part = "other" -> Other!Next
       [] part = "longer" -> Longer!Next [] OTHER -> UNCHANGED loopVars
  /\ CASE part = "batches" -> Batches!Next [] part = "workers" -> Workers!Next [] OTHER -> UNCHANGED fileVars
  /\ CASE part = "tagged" -> Tagged!Next [] part = "markers" -> Markers!Next
       [] part = "responses" -> Responses!Next [] part = "legacy" -> Legacy!Next [] OTHER -> UNCHANGED textVars
  /\ CASE part = "history" -> History!HistoryNext [] part = "capped" -> Capped!HistoryNext
       [] part = "transcript" -> Transcript!HistoryNext [] OTHER -> UNCHANGED historyVars
  /\ CASE part = "budget" -> History!BudgetNext [] part = "tight" -> Capped!BudgetNext
       [] OTHER -> UNCHANGED budgetVars
  /\ IF part = "schedule" THEN ScheduleNext ELSE UNCHANGED scheduleVars
  /\ CASE part = "requests" -> Proxy!Next [] part = "quotas" -> Quotas!Next [] OTHER -> UNCHANGED requestVars
  /\ CASE part = "translated" -> Translated!Next [] part = "relayed" -> Relayed!Next
       [] OTHER -> UNCHANGED streamVars

Spec == Init /\ [][Next]_vars

-----------------------------------------------------------------------------
\* What a run reports is true: strict runs end done only with current
\* evidence and a spent gate and show no prose before it, edits that are
\* reported were tested after the last of them, also when the contract or the
\* gate sent a run back whose tests had passed, reading stays in its budget,
\* and nobody writes on the event channel once it is closed.
RunsAreHonest ==
  /\ part = "strict" => Strict!TypeOK /\ Strict!DoneIsProved /\ Strict!GateSpent /\ Strict!ProseWithheld
  /\ part = "other" => Other!TypeOK /\ Other!NoWriterAfterClose
  /\ part = "longer" => Longer!ReadBudget /\ Longer!EditsWereTested

\* Edits: a failed batch leaves nothing behind, undo is all or nothing, and no
\* worker overwrites a change it has not seen.
EditsAreKept ==
  /\ part = "batches" => Batches!TypeOK /\ Batches!FailedBatchLeavesNothing /\ Batches!UndoAllOrNothing
  /\ part = "workers" => Workers!NoLostEdit /\ Workers!CheckpointPredatesRun

\* Calls recovered from text are the only reading of it: no text has two
\* readings, nothing runs before its end, calls are distinct, and prose
\* neither loses words nor keeps markers.
CallsAsWritten ==
  /\ part = "tagged" => Tagged!OnlyReading
  /\ part = "markers" => Markers!FinalOnly /\ Markers!ProseSurvives /\ Markers!AnswerHasNoMarkers
  /\ part = "responses" => Responses!TypeOK /\ Responses!CallsDistinct
  /\ part = "legacy" => Legacy!LegacyRunsOrShows

\* Every request a provider gets is well formed and fits: roles alternate and
\* calls keep their results except where the message cap cut, the last thing
\* asked and the instructions survive compaction, and what is sent is within
\* the window. Each conjunct names the exceptions of the code.
RequestsFit ==
  /\ part = "history" => History!HistoryTypeOK /\ History!RolesAlternate /\ History!PairsWhole /\ History!NeverRefused
  /\ part = "capped" => Capped!RolesAlternate /\ Capped!PairsWhole /\ Capped!NeverRefused /\ Capped!LatestAskedKept
  /\ part = "transcript" => Transcript!InstructionsReconstructed
  /\ part = "budget" => History!BudgetTypeOK /\ History!SentFits /\ History!InOrder /\ History!FallbackIsEnough
  /\ part = "tight" => Capped!SentFits /\ Capped!FallbackIsEnough

Own == {a \in accounts : a.group = "g"}
Usable == {a \in Own : Proxy!Eligible(a, day, StaleAfter)}
Score(a) == Proxy!AccountScore(a, day)

\* The account a request goes to can serve it: SelectAccount picks one that is
\* healthy, off cooldown and below every ceiling, takes stale data only when
\* nothing else is left, is at most the switch margin below the best, and leaves
\* a usable current account only for a better score; no request is sent to an
\* account that telemetry had excluded when it was chosen.  And what a client
\* reads is what the provider said: blocks reassemble to the calls and text of
\* the chunks, a translated stream is one the client's own protocol accepts, and
\* the end marker comes last and once.
ProxyIsFaithful ==
  /\ part = "schedule" =>
       /\ \A a \in Own : a.id = Decision.id =>
            /\ a.healthy /\ a.cooldownUntil <= day
            /\ a.five <= 90 /\ a.rate <= 90 /\ a.seven <= 99
            /\ a \in Usable \/ Usable = {}
       /\ \A c, a \in Usable : c.id = Decision.id => 4 * Score(a) <= 5 * Score(c)
       /\ \A c, a \in Usable : c.id = current /\ a.id = Decision.id /\ a # c => Score(a) > Score(c)
       /\ Usable # {} => \E best \in Usable : \A b \in Usable \ {best} : Proxy!RankLess(best, b, day)
  /\ part = "requests" => Proxy!TypeOK /\ Proxy!SentToUsable
  /\ part = "quotas" => Quotas!SentToUsable
  /\ part = "translated" =>
       Translated!TypeOK /\ Translated!ClientReassembles /\ Translated!TranslatedIsAccepted
  /\ part = "relayed" => Relayed!SentinelLast

\* What was learned about an account is not unlearned early: no cooldown is
\* shortened, avoidance ends only after enough successes in a row, and a
\* quota snapshot never replaces a younger one.
TelemetryStands ==
  [][ /\ part = "requests" => Proxy!CooldownsStand /\ Proxy!RecoveryIsEarned
      /\ part = "quotas" => Quotas!CooldownsStand /\ Quotas!SnapshotsInOrder ]_vars

=============================================================================
