-------------------------- MODULE WorkstreamRecords ---------------------------
(***************************************************************************)
(* One workstream on disk (internal/workstream/store.go, persist.go,       *)
(* handoff.go and the plan files of plans.go): a manifest, a plan file and *)
(* a timeline of appended JSON lines.  Every request builds its own Store  *)
(* but shares two locks: mu, of the workspace, for manifest and timeline,  *)
(* and planMu, of the workstream, for plan files.  A file write and the    *)
(* event that records it are separate steps, either may fail, an append    *)
(* may write a part of its line, and the process may crash in between.     *)
(*                                                                         *)
(* A client sends one request.  A patch changes a field of its own, so the *)
(* manifest is the set of clients whose patch it holds, and the plan file  *)
(* is its state revision.                                                  *)
(***************************************************************************)
EXTENDS Naturals, Sequences, FiniteSets

CONSTANTS
  Clients,       \* requests, by client
  Requests,      \* "create", "patch", "createPlan", "revise", "handoff"
  Faults,        \* "none" and what may go wrong: "fail", "torn"
  Crashes        \* TRUE: the process may crash

Free == "free"
NoManifest == {"absent"}
Bad == [by |-> "unknown", kind |-> "bad", rev |-> 0]

VARIABLES
  manifest,      \* the clients whose patch the manifest holds, or NoManifest
  plan,          \* state revision of the plan file, 0: there is none
  timeline,      \* the lines of timeline.jsonl
  open,          \* the last line has no newline yet
  joined,        \* history: clients whose line was appended to an unfinished one
  mu, planMu,    \* holders of the two locks
  req,           \* client -> [op, at, copy, events, rev, result]
  crashed        \* the process has crashed once

logVars == <<manifest, plan, timeline, open, joined, mu, planMu, req, crashed>>

Line(c, kind, rev) == [by |-> c, kind |-> kind, rev |-> rev]
Readable == \A i \in DOMAIN timeline : timeline[i] # Bad

New == [op |-> "none", at |-> "idle", copy |-> {}, events |-> <<>>, rev |-> 0, result |-> "none"]

LogInit ==
  /\ manifest \in {NoManifest, {}} /\ plan = 0
  /\ timeline = <<>> /\ open = FALSE /\ joined = {}
  /\ mu = Free /\ planMu = Free
  /\ req = [c \in Clients |-> New]
  /\ crashed = FALSE

At(c, op, at) == req[c].op = op /\ req[c].at = at
Go(c, at) == req' = [req EXCEPT ![c].at = at]

End(c, r) ==
  /\ req' = [req EXCEPT ![c].at = "done", ![c].result = r]
  /\ mu' = IF mu = c THEN Free ELSE mu
  /\ planMu' = IF planMu = c THEN Free ELSE planMu

\* A step that only answers.
Refuse(c) == End(c, "error") /\ UNCHANGED <<manifest, plan, timeline, open, joined, crashed>>

-----------------------------------------------------------------------------
AppendLine(line, fault) ==
  /\ fault \in Faults
  /\ timeline' = IF fault = "fail" \/ open THEN timeline
                 ELSE Append(timeline, IF fault = "torn" THEN Bad ELSE line)
  /\ open' = IF fault = "fail" THEN open ELSE fault = "torn"
  /\ joined' = IF fault = "none" /\ open THEN joined \cup {line.by} ELSE joined

Arrive(c, op) ==
  /\ req[c].at = "idle"
  /\ req' = [req EXCEPT ![c] = [New EXCEPT !.op = op, !.at = "start"]]
  /\ UNCHANGED <<manifest, plan, timeline, open, joined, mu, planMu, crashed>>

LockStore(c) == mu = Free /\ mu' = c

CreateChecks(c) ==
  /\ At(c, "create", "start") /\ LockStore(c)
  /\ Go(c, IF manifest = NoManifest THEN "write" ELSE "refuse")
  /\ UNCHANGED <<manifest, plan, timeline, open, joined, planMu, crashed>>

PatchReads(c) ==
  /\ At(c, "patch", "start") /\ LockStore(c)
  /\ req' = [req EXCEPT ![c].at = IF manifest = NoManifest THEN "refuse" ELSE "write",
                        ![c].copy = manifest]
  /\ UNCHANGED <<manifest, plan, timeline, open, joined, planMu, crashed>>

\* id already exists, or the manifest cannot be read.
Refused(c) == req[c].at = "refuse" /\ Refuse(c)

\* writeJSONAtomic: a temporary file and a rename.
WriteManifest(c, fault) ==
  /\ req[c].at = "write" /\ req[c].op \in {"create", "patch"} /\ fault \in Faults \ {"torn"}
  /\ \/ /\ fault = "none"
        /\ manifest' = IF req[c].op = "create" THEN {} ELSE req[c].copy \cup {c}
        /\ Go(c, "append") /\ UNCHANGED <<plan, timeline, open, joined, mu, planMu, crashed>>
     \/ /\ fault = "fail" /\ Refuse(c)

RecordChange(c, fault) ==
  /\ req[c].at = "append" /\ req[c].op \in {"create", "patch"}
  /\ AppendLine(Line(c, req[c].op, 0), fault)
  /\ End(c, IF fault = "none" THEN "ok" ELSE "error")
  /\ UNCHANGED <<manifest, plan, crashed>>

-----------------------------------------------------------------------------
(* CreatePlan and the mutations of an existing plan: planMu is held from    *)
(* the read to the event, mu only for reading the manifest and appending.   *)
LockPlan(c, op, has) ==
  /\ At(c, op, "start") /\ planMu = Free /\ mu = Free
  /\ planMu' = c
  /\ Go(c, IF manifest # NoManifest /\ has THEN "writePlan" ELSE "refuse")
  /\ UNCHANGED <<manifest, plan, timeline, open, joined, mu, crashed>>

CreatePlanChecks(c) == LockPlan(c, "createPlan", plan = 0)
ReviseChecks(c) == LockPlan(c, "revise", plan # 0)

WritePlan(c, fault) ==
  /\ req[c].at = "writePlan" /\ fault \in Faults \ {"torn"}
  /\ \/ /\ fault = "none"
        /\ plan' = plan + 1
        /\ req' = [req EXCEPT ![c].at = "appendPlan", ![c].rev = plan + 1]
        /\ UNCHANGED <<manifest, timeline, open, joined, mu, planMu, crashed>>
     \/ /\ fault = "fail" /\ Refuse(c)

\* CreatePlan reports a failed append, recordPlanEvent only logs it.
RecordPlanEvent(c, fault) ==
  /\ req[c].at = "appendPlan" /\ mu = Free
  /\ AppendLine(Line(c, "plan", req[c].rev), fault)
  /\ End(c, IF fault = "none" \/ req[c].op = "revise" THEN "ok" ELSE "error")
  /\ UNCHANGED <<manifest, plan, crashed>>

-----------------------------------------------------------------------------
(* GenerateHandoff: four sections under the locks and a file written        *)
(* between them.                                                            *)
HandoffGet(c) ==
  /\ At(c, "handoff", "start") /\ mu = Free
  /\ IF manifest = NoManifest THEN Refuse(c)
     ELSE /\ req' = [req EXCEPT ![c].at = "timeline", ![c].copy = manifest]
          /\ UNCHANGED <<manifest, plan, timeline, open, joined, mu, planMu, crashed>>

HandoffTimeline(c) ==
  /\ At(c, "handoff", "timeline") /\ mu = Free
  /\ IF ~Readable THEN Refuse(c)
     ELSE /\ req' = [req EXCEPT ![c].at = "plans", ![c].events = timeline]
          /\ UNCHANGED <<manifest, plan, timeline, open, joined, mu, planMu, crashed>>

HandoffPlans(c) ==
  /\ At(c, "handoff", "plans") /\ mu = Free /\ planMu = Free
  /\ req' = [req EXCEPT ![c].at = "render", ![c].rev = plan]
  /\ UNCHANGED <<manifest, plan, timeline, open, joined, mu, planMu, crashed>>

RenderHandoff(c, fault) ==
  /\ At(c, "handoff", "render") /\ fault \in Faults \ {"torn"}
  /\ IF fault = "fail" THEN Refuse(c)
     ELSE Go(c, "note") /\ UNCHANGED <<manifest, plan, timeline, open, joined, mu, planMu, crashed>>

NoteHandoff(c, fault) ==
  /\ At(c, "handoff", "note") /\ mu = Free
  /\ AppendLine(Line(c, "handoff", req[c].rev), fault)
  /\ End(c, IF fault = "none" THEN "ok" ELSE "error")
  /\ UNCHANGED <<manifest, plan, crashed>>

-----------------------------------------------------------------------------
\* The process dies and a new one starts: the locks are gone and so are the
\* requests under way; a line being appended may have been written in part.
Crash ==
  /\ Crashes /\ ~crashed /\ crashed' = TRUE
  /\ mu' = Free /\ planMu' = Free
  /\ req' = [c \in Clients |-> IF req[c].at \in {"idle", "done"} THEN req[c]
                               ELSE [req[c] EXCEPT !.at = "done", !.result = "lost"]]
  /\ \/ UNCHANGED <<timeline, open>>
     \/ /\ "torn" \in Faults /\ ~open
        /\ \E c \in Clients : req[c].at \in {"append", "appendPlan", "note"}
        /\ timeline' = Append(timeline, Bad) /\ open' = TRUE
  /\ UNCHANGED <<manifest, plan, joined>>

Step(c) ==
  \/ CreateChecks(c) \/ PatchReads(c) \/ Refused(c)
  \/ CreatePlanChecks(c) \/ ReviseChecks(c)
  \/ HandoffGet(c) \/ HandoffTimeline(c) \/ HandoffPlans(c)
  \/ \E f \in Faults : \/ WriteManifest(c, f) \/ RecordChange(c, f)
                       \/ WritePlan(c, f) \/ RecordPlanEvent(c, f)
                       \/ RenderHandoff(c, f) \/ NoteHandoff(c, f)

LogNext ==
  \/ \E c \in Clients : Step(c) \/ \E op \in Requests : Arrive(c, op)
  \/ Crash

LogSpec == LogInit /\ [][LogNext]_logVars /\ \A c \in Clients : WF_logVars(Step(c))

-----------------------------------------------------------------------------
Lines == [by : Clients, kind : {"create", "patch", "plan", "handoff"}, rev : 0 .. Cardinality(Clients)]
Places == {"idle", "start", "write", "append", "writePlan", "appendPlan", "refuse",
           "timeline", "plans", "render", "note", "done"}

\* Types; an unfinished line is the last one, and it is not readable.
LogTypeOK ==
  /\ manifest = NoManifest \/ manifest \subseteq Clients
  /\ plan \in 0 .. Cardinality(Clients)
  /\ timeline \in Seq(Lines \cup {Bad})
  /\ joined \subseteq Clients
  /\ open => timeline # <<>> /\ timeline[Len(timeline)] = Bad
  /\ mu \in Clients \cup {Free} /\ planMu \in Clients \cup {Free}
  /\ \A c \in Clients : req[c].at \in Places /\ req[c].result \in {"none", "ok", "error", "lost"}

\* store.go's comment: disjoint patches of independent Store instances do not
\* race.  What an acknowledged patch wrote is in the manifest for good.
PatchesKept ==
  \A c \in Clients :
    (req[c].op = "patch" /\ req[c].result = "ok") => manifest # NoManifest /\ c \in manifest

\* The requests whose failed append is reported.
Reported == {"create", "patch", "createPlan", "handoff"}

\* A request that reports a failed append and was answered with success has
\* its event on the timeline, once. The one exception is an event that was
\* appended to a line which a cut-off append left unfinished: it is lost, and
\* nobody can read the timeline any more.
AcknowledgedIsRecorded ==
  \A c \in Clients :
    (req[c].op \in Reported /\ req[c].result = "ok") =>
      LET told == {i \in DOMAIN timeline : timeline[i].by = c}
      IN Cardinality(told) = 1 \/ (c \in joined /\ told = {} /\ ~Readable)

\* The timeline tells the history of the plan in the order in which the plan
\* file went through it, and never a revision the file has not reached.
PlanEventsInOrder ==
  LET told == {i \in DOMAIN timeline : timeline[i].kind = "plan"}
  IN /\ \A i, j \in told : i < j => timeline[i].rev < timeline[j].rev
     /\ \A i \in told : timeline[i].rev <= plan

\* A handoff never lists a decision about a plan revision that is newer than
\* the plan it presents as current.
HandoffNotAhead ==
  \A c \in Clients :
    At(c, "handoff", "note") =>
      \A i \in DOMAIN req[c].events :
        req[c].events[i].kind = "plan" => req[c].events[i].rev <= req[c].rev

------------------------------------------------------------------------------

(***************************************************************************)
(* What a run is told of its workstream: the context of a plan-bound run   *)
(* cut to 2000 bytes (internal/workstream/context.go), the stage evidence  *)
(* that survives compaction (internal/server/workstream_compaction.go),    *)
(* and the lists a PATCH of the workstream replaces (handleWorkstreamPatch *)
(* and Store.Patch).  A text is its length in bytes.                       *)
(***************************************************************************)
CONSTANTS
  Lengths,       \* text -> the byte lengths it may have
  Limit,         \* the bound on the context: 2000
  MaxStages,     \* bound on the stages of a plan
  MaxItems       \* evidence items that compaction keeps: 12

Texts == {"id", "title", "planId", "stageId", "stageName", "run", "objective", "summary"}

ListFields == {"decisions", "openQuestions", "tags"}
Bodies == [list : {"absent", "empty", "items"}, has : BOOLEAN]

VARIABLES
  text,          \* text -> its length
  stages,        \* the statuses of the plan's stages
  bound,         \* the stage the run is bound to, 0: none
  out,           \* what the last rendering kept
  lists,         \* field -> "items" or "empty"
  asked          \* field -> the last body that was sent

contextVars == <<text, stages, bound, out, lists, asked>>

\* Stages run in order: the ones before the current one are completed.
StageLists ==
  UNION {{[i \in 1 .. n |-> IF i < k THEN "completed" ELSE IF i = k THEN s ELSE "pending"] :
            k \in 1 .. n, s \in {"running", "failed", "pending", "completed"}} : n \in 1 .. MaxStages}

NoOutput == [kept |-> {}, shown |-> 0, evidence |-> {}]

ContextInit ==
  /\ text \in [Texts -> UNION {Lengths[t] : t \in Texts}]
  /\ \A t \in Texts : text[t] \in Lengths[t]
  /\ stages \in StageLists /\ bound \in 0 .. Len(stages)
  /\ out = NoOutput
  /\ lists = [f \in ListFields |-> "items"]
  /\ asked = [f \in ListFields |-> [list |-> "items", has |-> FALSE]]

-----------------------------------------------------------------------------
ContextText(n, max) == IF n <= max THEN n ELSE max + 3

\* selectContextPlanStage.
FirstStage(want) ==
  CHOOSE i \in DOMAIN stages : stages[i] \in want /\ \A j \in 1 .. (i - 1) : stages[j] \notin want
Has(want) == \E i \in DOMAIN stages : stages[i] \in want
SelectStage ==
  CASE bound # 0 -> bound
    [] Has({"running"}) -> FirstStage({"running"})
    [] Has({"failed", "pending"}) -> FirstStage({"failed", "pending"})
    [] OTHER -> Len(stages)

Attempted(i) == stages[i] # "pending"

\* The lines of RenderContextWithPlan, in order, with their length. A
\* revision has up to 20 digits and a status up to nine letters.
ContextLines ==
  LET i == SelectStage
      line(name, n) == [name |-> name, len |-> n]
      only(cond, l) == IF cond THEN <<l>> ELSE <<>>
  IN <<line("header", 194),
       line("workstream", 18 + ContextText(text["id"], 256)),
       line("title", 21 + ContextText(text["title"], 180)),
       line("status", 22 + 9),
       line("plan", 81 + 60 + 9 + ContextText(text["planId"], 256)),
       line("stage", 26 + 9 + ContextText(text["stageId"], 256) + ContextText(text["stageName"], 120))>>
     \o only(Attempted(i), line("attempt", 47 + 16 + ContextText(text["run"], 160)))
     \o only(stages[i] = "running", line("recovery", 112))
     \o only(stages[i] = "completed", line("evidence", 43 + 27 + 64 + 64))
     \o <<line("objective", 19 + ContextText(text["objective"], 240)),
          line("goal", 20 + ContextText(text["objective"], 220)),
          line("summary", 12 + ContextText(text["summary"], 200))>>

\* Where each line ends.
EndsOf(ls) ==
  LET end[k \in 0 .. Len(ls)] == IF k = 0 THEN 0 ELSE end[k - 1] + ls[k].len
  IN end

\* capString: all of it, or the lines that end before the marker.
MarkerBytes == 32
Capped(ls) ==
  LET end == EndsOf(ls)
  IN IF end[Len(ls)] - 1 <= Limit THEN {ls[k].name : k \in DOMAIN ls}
     ELSE {ls[k].name : k \in {k \in DOMAIN ls : end[k] <= Limit - MarkerBytes}}

EvidenceOrder ==
  IF bound = 0 THEN [i \in DOMAIN stages |-> i]
  ELSE [i \in DOMAIN stages |-> IF i = Len(stages) THEN bound ELSE IF i < bound THEN i ELSE i + 1]
KeptEvidence ==
  {EvidenceOrder[i] : i \in {i \in DOMAIN stages : i + MaxItems > Len(stages)}}

Render ==
  /\ out' = [kept |-> Capped(ContextLines), shown |-> SelectStage, evidence |-> KeptEvidence]
  /\ UNCHANGED <<text, stages, bound, lists, asked>>

-----------------------------------------------------------------------------
Applied(f, b, old) ==
  LET replaced == b.list = "items" \/ (b.has /\ (b.list = "empty" \/ f = "decisions"))
  IN IF ~replaced THEN old ELSE IF b.list = "items" THEN "items" ELSE "empty"

Patch(f, b) ==
  /\ lists' = [lists EXCEPT ![f] = Applied(f, b, lists[f])]
  /\ asked' = [asked EXCEPT ![f] = b]
  /\ UNCHANGED <<text, stages, bound, out>>

ContextNext == Render \/ \E f \in ListFields, b \in Bodies : Patch(f, b)

ContextSpec == ContextInit /\ [][ContextNext]_contextVars

\* The renderings alone.
ContextRenderSpec == ContextInit /\ [][Render]_contextVars

-----------------------------------------------------------------------------
\* Types of the state.
ContextTypeOK ==
  /\ \A t \in Texts : text[t] \in Lengths[t]
  /\ stages \in StageLists /\ bound \in 0 .. Len(stages)
  /\ out.shown \in 0 .. Len(stages) /\ out.evidence \subseteq 1 .. MaxStages
  /\ lists \in [ListFields -> {"items", "empty"}]
  /\ asked \in [ListFields -> Bodies]

Identity == {"workstream", "status", "plan", "stage"}

\* The comment of RenderContextWithPlan: long texts cannot crowd the exact
\* workstream, plan, revision and stage references out of the context, nor
\* the latest attempt and its recovery notice or evidence.
IdentityKept ==
  out # NoOutput =>
    /\ Identity \subseteq out.kept
    /\ Attempted(out.shown) => "attempt" \in out.kept
    /\ stages[out.shown] = "running" => "recovery" \in out.kept
    /\ stages[out.shown] = "completed" => "evidence" \in out.kept

\* A run that is bound to no stage is shown the interrupted stage, and a
\* completed one only when the whole plan is completed.
ShowsOpenWork ==
  (out # NoOutput /\ bound = 0) =>
    /\ Has({"running"}) => stages[out.shown] = "running"
    /\ stages[out.shown] = "completed" => ~Has({"pending", "failed", "running"})

\* However many stages a plan has, compaction keeps the evidence of the bound
\* stage, and otherwise the evidence of the latest stages.
BoundEvidenceKept ==
  out # NoOutput =>
    /\ bound # 0 => bound \in out.evidence
    /\ Cardinality(out.evidence) = IF Len(stages) < MaxItems THEN Len(stages) ELSE MaxItems
    /\ Len(stages) > 1 /\ MaxItems > 1 => Len(stages) \in out.evidence

Honoured(f) == asked[f].has /\ asked[f].list # "items" => lists[f] = "empty"

\* docs/workstreams.md: hasDecisions permits clearing the decisions; and a
\* list with items is always applied.
DecisionsAsAsked ==
  Honoured("decisions") /\ \A f \in ListFields : asked[f].list = "items" => lists[f] = "items"

=============================================================================
