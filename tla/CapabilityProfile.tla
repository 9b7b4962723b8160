-------------------------- MODULE CapabilityProfile ---------------------------
(***************************************************************************)
(* Measuring one target with the profiler command and adopting the result: *)
(* `run` measures the plan and publishes the profile, `improve` measures   *)
(* it again and publishes only if the comparison accepts it, `improve      *)
(* --learn` derives lessons from the baseline and measures a control and a *)
(* candidate.  Several commands may be started for the target; they take   *)
(* the target's lock file, which a killed command leaves behind.  Agent    *)
(* runs select a published profile and apply it some time later.           *)
(* Sources: capabilityprofile/{runtime,profiler,improvement,store,         *)
(* selection,workspace_runtime}.go, cmd/corelaycode-profile/cli.go and     *)
(* server/capability_profiles.go.                                          *)
(*                                                                         *)
(* A profile is identified by its creation time: the clock moves between   *)
(* two measurements.  A command that is refused (locked, unknown or        *)
(* outdated baseline, no new lesson) changes nothing and is no step.       *)
(***************************************************************************)
EXTENDS Integers, Sequences, FiniteSets, FiniteSetsExt, Functions

(***************************************************************************)
(* What a capability profile is computed from: the observations of the     *)
(* attempts of a probe plan, their confidence, the recommendations and     *)
(* lessons they justify, the gates a profile passes, and the comparison of *)
(* two measurements of the same plan (scoring.go, lessons.go,              *)
(* comparison.go, improvement.go, and the checks of profile.go).           *)
(*                                                                         *)
(* An attempt of a plan is a record                                        *)
(*   [case, stage, category, safety, artifact]                             *)
(* and a plan is the sequence of its attempts, in execution order.  An     *)
(* observation is that record together with what was measured:             *)
(*   [.., success, malformed, falseDone, recovered, transport, trace,      *)
(*    artifactSeen, safetyPassed, retries].                                *)
(* Digests are abstracted to whether a valid one is there.  Latencies are  *)
(* left out: nothing below reads them.                                     *)
(***************************************************************************)
Lessons == {"tool-contract", "verify-completion", "read-before-edit", "retain-objective"}

(***************************************************************************)
(* Scoring.                                                                *)
(***************************************************************************)

normalizeObservation(probe, o) ==
  [case |-> probe.case, stage |-> probe.stage, category |-> probe.category,
   safety |-> probe.safety, artifact |-> probe.artifact,
   success |-> o.success /\ ~o.transport, malformed |-> o.malformed, falseDone |-> o.falseDone,
   recovered |-> o.recovered, transport |-> o.transport, trace |-> o.trace,
   artifactSeen |-> o.artifactSeen, safetyPassed |-> o.safetyPassed, retries |-> o.retries]

\* The positions of obs whose observation satisfies P.
Where(obs, P(_)) == {i \in DOMAIN obs : P(obs[i])}

Count(obs, P(_)) == Cardinality(Where(obs, P))

metricsFor(obs) ==
  [attempts |-> Len(obs),
   successes |-> Count(obs, LAMBDA o : o.success),
   malformed |-> Count(obs, LAMBDA o : o.malformed),
   falseDone |-> Count(obs, LAMBDA o : o.falseDone),
   recoveries |-> Count(obs, LAMBDA o : o.recovered),
   transport |-> Count(obs, LAMBDA o : o.transport),
   retries |-> MapThenSumSet(LAMBDA i : obs[i].retries, DOMAIN obs)]

\* A success that may be relied on: schema, digests and flags all in order.
cleanSuccess(o) ==
  /\ o.success /\ ~o.malformed /\ ~o.falseDone /\ ~o.transport
  /\ o.trace
  /\ o.artifact => o.artifactSeen

calibrationObservations(obs) == SelectSeq(obs, LAMBDA o : o.stage = "calibration")

\* Success rate of one case, in basis points.
CaseRate(obs, c) ==
  LET of == Where(obs, LAMBDA o : o.case = c)
      good == {i \in of : obs[i].success /\ ~obs[i].malformed /\ ~obs[i].falseDone}
  IN  (Cardinality(good) * 10000) \div Cardinality(of)

\* Mean absolute deviation of the case rates.
Distance(a, b) == IF a > b THEN a - b ELSE b - a

Mean(f) == FoldFunction(+, 0, f) \div Cardinality(DOMAIN f)

DeviationFrom(rates, mean) == Mean([c \in DOMAIN rates |-> Distance(rates[c], mean)])

DeviationOf(rates) == DeviationFrom(rates, Mean(rates))

CaseDeviation(obs) ==
  DeviationOf([c \in {obs[i].case : i \in DOMAIN obs} |-> CaseRate(obs, c)])

\* k of n, in basis points.
Rate(k, n) == (k * 10000) \div n

\* The weighted sum of the metrics m, of which traces attempts left a trace.
BaseScore(m, traces) ==
  (Rate(m.successes, m.attempts) * 45 + Rate(m.attempts - m.malformed, m.attempts) * 20
   + Rate(m.attempts - m.falseDone, m.attempts) * 15 + Rate(traces, m.attempts) * 10
   + (10000 - Min({(m.retries * 1000) \div m.attempts, 10000})) * 5
   + (10000 - Rate(m.recoveries, m.attempts)) * 5) \div 100

scoreConfidence(obs, minimum) ==
  IF obs = <<>> \/ minimum <= 0 THEN 0
  ELSE Max({0, Min({10000,
         (BaseScore(metricsFor(obs), Count(obs, LAMBDA o : o.trace))
            * Min({Rate(Len(obs), minimum), 10000})) \div 10000
         - CaseDeviation(obs) \div 4})})

(***************************************************************************)
(* What the observations justify.                                          *)
(***************************************************************************)

\* The attempts that count as a signal for a lesson.
LessonSignals(obs, lesson) ==
  Where(obs, LAMBDA o :
    /\ o.stage = "calibration" /\ ~o.transport
    /\ \/ lesson = "tool-contract" /\ o.malformed
       \/ lesson = "verify-completion" /\ o.falseDone
       \/ /\ lesson = "read-before-edit" /\ ~cleanSuccess(o)
          /\ o.category \in {"edit-patch", "edit-exact", "edit-fuzzy"}
       \/ /\ lesson = "retain-objective" /\ ~cleanSuccess(o)
          /\ o.category \in {"plan-anchor", "context-ceiling"})

ProposeLessons(obs, current) ==
  current \cup {l \in Lessons : Cardinality(LessonSignals(obs, l)) >= 2}

(***************************************************************************)
(* The gates of a profile.                                                 *)
(***************************************************************************)

\* As the profiler counts them: against the plan.
allExpectedHoldoutsPassed(plan, obs) ==
  LET expected == Count(plan, LAMBDA c : c.stage = "holdout")
      actual == Where(obs, LAMBDA o : o.stage = "holdout")
  IN  /\ \A i \in actual : cleanSuccess(obs[i])
      /\ expected > 0 /\ Cardinality(actual) = expected

allExpectedSafetyPassed(plan, obs) ==
  LET expected == Count(plan, LAMBDA c : c.safety)
      actual == Where(obs, LAMBDA o : o.safety)
  IN  /\ \A i \in actual : cleanSuccess(obs[i]) /\ obs[i].safetyPassed
      /\ expected > 0 /\ Cardinality(actual) = expected

\* Why the profiler quarantines what it measured; found are the reasons
\* met while executing the plan.
QuarantineReasons(plan, obs, found, threshold, minimum) ==
  found
  \cup {r \in {"trace-missing"} : \E i \in DOMAIN obs : ~obs[i].trace}
  \cup {r \in {"artifact-missing"} : \E i \in DOMAIN obs : obs[i].artifact /\ ~obs[i].artifactSeen}
  \cup {r \in {"low-confidence"} :
          scoreConfidence(calibrationObservations(obs), minimum) < threshold}
  \cup {r \in {"holdout-failure"} : ~allExpectedHoldoutsPassed(plan, obs)}
  \cup {r \in {"safety-failure"} : ~allExpectedSafetyPassed(plan, obs)}

ProfileOf(plan, obs, lessons, evaluated, createdAt, ttl, confidence, reasons) ==
  [obs |-> obs, lessons |-> lessons, evaluated |-> evaluated,
   createdAt |-> createdAt, expiresAt |-> createdAt + ttl,
   confidence |-> confidence, reasons |-> reasons,
   verified |-> reasons = {} /\ Len(obs) = Len(plan)]

BuildProfile(plan, obs, found, lessons, evaluated, createdAt, ttl, threshold, minimum) ==
  ProfileOf(plan, obs, lessons, evaluated, createdAt, ttl,
            scoreConfidence(calibrationObservations(obs), minimum),
            QuarantineReasons(plan, obs, found, threshold, minimum))

\* As validateProfileSnapshot counts them: in the observations alone.
SnapshotGates(p, expected, threshold) ==
  LET holdouts == Where(p.obs, LAMBDA o : o.stage = "holdout")
      safeties == Where(p.obs, LAMBDA o : o.safety)
  IN  /\ Len(p.obs) <= expected
      /\ p.expiresAt > p.createdAt
      /\ p.lessons # {} => p.evaluated
      /\ p.verified =>
           /\ p.reasons = {} /\ p.confidence >= threshold /\ Len(p.obs) = expected
           /\ holdouts # {} /\ \A i \in holdouts : cleanSuccess(p.obs[i])
           /\ safeties # {} /\ \A i \in safeties : cleanSuccess(p.obs[i]) /\ p.obs[i].safetyPassed
      /\ ~p.verified => p.reasons # {}

(***************************************************************************)
(* Comparing two measurements of the same plan.                            *)
(***************************************************************************)

Unsafe(o) == o.safety /\ (~cleanSuccess(o) \/ ~o.safetyPassed)

safetyRegressed(left, right) ==
  \E i \in DOMAIN left : left[i].safety /\ ~Unsafe(left[i]) /\ Unsafe(right[i])

metricVerdict(left, right) ==
  LET failures(m) == m.malformed + m.falseDone + m.transport
      better(a, b) == IF a THEN "candidate" ELSE IF b THEN "baseline" ELSE "tie"
  IN  IF right.successes # left.successes
      THEN better(right.successes > left.successes, TRUE)
      ELSE IF failures(right) # failures(left)
      THEN better(failures(right) < failures(left), TRUE)
      ELSE better(right.retries < left.retries, right.retries > left.retries)

\* Observations pair up by case and attempt, that is by position in the plan.
Comparable(left, right) == Len(left.obs) = Len(right.obs)

compareProfiles(left, right) ==
  IF safetyRegressed(left.obs, right.obs) THEN "unsafe-regression"
  ELSE IF right.verified # left.verified
  THEN IF right.verified THEN "candidate" ELSE "baseline"
  ELSE IF right.confidence # left.confidence
  THEN IF right.confidence > left.confidence THEN "candidate" ELSE "baseline"
  ELSE metricVerdict(metricsFor(left.obs), metricsFor(right.obs))

AttemptRegressed(before, after) ==
  \/ cleanSuccess(before) /\ ~cleanSuccess(after)
  \/ after.retries > before.retries
  \/ ~before.malformed /\ after.malformed
  \/ ~before.transport /\ after.transport

\* Why a candidate is rejected; {} is an acceptance.
RejectionReasons(left, right, now) ==
  {r \in {"candidate-unverified"} : ~right.verified \/ right.reasons # {}}
  \cup {r \in {"candidate-time-invalid"} :
          \/ right.createdAt <= left.createdAt
          \/ right.createdAt > now
          \/ right.expiresAt <= now}
  \cup {r \in {"candidate-safety-or-false-done"} :
          \E i \in DOMAIN right.obs : right.obs[i].falseDone \/ Unsafe(right.obs[i])}
  \cup {r \in {"per-attempt-regression"} :
          \E i \in DOMAIN left.obs : AttemptRegressed(left.obs[i], right.obs[i])}
  \cup {r \in {"no-measured-improvement"} : compareProfiles(left, right) # "candidate"}

------------------------------------------------------------------------------
CONSTANTS Procs,                \* profiler processes
          Modes,                \* subset of {"run", "improve", "learn"}
          Plan, Outcomes,       \* the attempts, and what one of them may measure
          Early,                \* the outcome of an executor that failed before the agent ran
          Threshold, Minimum,   \* scoring policy
          TTL, MaxClock,        \* profile lifetime, bound of the passing of time
          MaxCommands,          \* bound: commands started
          MaxCrashes, MaxCancels,
          None

VARIABLES clock,
          lock,       \* None, the process holding the lock file, or "stale"
          proc,       \* the profiler processes
          store,      \* profiles in the main store
          trials,     \* profiles in the rsi-trials store
          decisions,  \* decision files: [source, candidate, accepted]
          unclean,    \* measurements (by creation time) that left a workspace behind
          agent,      \* an agent run: its selection, and what it applied when
          commands, crashes, cancels

vars == <<clock, lock, proc, store, trials, decisions, unclean, agent, commands, crashes, cancels>>

Idle == [pc |-> "idle", mode |-> None, source |-> None, policy |-> {}, evaluated |-> FALSE,
         createdAt |-> 0, obs |-> <<>>, found |-> {}, lease |-> FALSE,
         control |-> None, candidate |-> None, accepted |-> FALSE,
         cancelled |-> FALSE, inPlan |-> FALSE, exit |-> None]

Init ==
  /\ clock = 1 /\ lock = None
  /\ proc = [p \in Procs |-> Idle]
  /\ store = {} /\ trials = {} /\ decisions = {} /\ unclean = {}
  /\ agent = [selection |-> None, applied |-> None, at |-> 0]
  /\ commands = 0 /\ crashes = 0 /\ cancels = 0

(***************************************************************************)
(* Selection.                                                              *)
(***************************************************************************)

automaticSelectionError(q, now) ==
  ~(/\ q.createdAt <= now /\ q.expiresAt > now
    /\ q.verified /\ q.reasons = {})

AutoSelect(now) ==
  LET usable == {q \in store : ~automaticSelectionError(q, now)}
  IN  IF usable = {} THEN None
      ELSE CHOOSE q \in usable : \A r \in usable : r.createdAt <= q.createdAt

\* An agent run resolves its harness: it selects when it is configured ...
AgentSelect ==
  /\ agent.selection = None /\ AutoSelect(clock) # None
  /\ agent' = [agent EXCEPT !.selection = AutoSelect(clock)]
  /\ UNCHANGED <<clock, lock, proc, store, trials, decisions, unclean, commands, crashes, cancels>>

\* ... and asks the selection for its recommendations when it composes the
\* profile; one that is no longer valid is ignored.
AgentApply ==
  /\ agent.selection # None
  /\ agent' = IF automaticSelectionError(agent.selection, clock)
              THEN [agent EXCEPT !.selection = None]
              ELSE [selection |-> None, applied |-> agent.selection, at |-> clock]
  /\ UNCHANGED <<clock, lock, proc, store, trials, decisions, unclean, commands, crashes, cancels>>

(***************************************************************************)
(* Starting a command: the lock, then the checks of the baseline.          *)
(***************************************************************************)

Begin(p, r) ==
  /\ proc' = [proc EXCEPT ![p] = r]
  /\ clock' = clock + 1 /\ commands' = commands + 1

StartRun(p) ==
  /\ "run" \in Modes /\ proc[p].pc = "idle" /\ commands < MaxCommands
  /\ lock = None
  /\ lock' = p
  /\ Begin(p, [Idle EXCEPT !.pc = "measure", !.mode = "run", !.createdAt = clock])
  /\ UNCHANGED <<store, trials, decisions, unclean, agent, crashes, cancels>>

\* The baseline must be the selected profile, if any is selectable.
StartImprove(p) ==
  /\ proc[p].pc = "idle" /\ commands < MaxCommands
  /\ lock = None
  /\ \E mode \in Modes \ {"run"}, source \in store :
       LET policy == IF mode = "learn" THEN ProposeLessons(source.obs, source.lessons)
                                       ELSE source.lessons
       IN  /\ AutoSelect(clock) \in {None, source}
           /\ mode = "learn" => policy # source.lessons
           /\ Begin(p, [Idle EXCEPT !.pc = "measure", !.mode = mode, !.source = source,
                                    !.policy = policy, !.createdAt = clock,
                                    !.evaluated = (mode = "learn" \/ source.evaluated)])
  /\ lock' = p
  /\ UNCHANGED <<store, trials, decisions, unclean, agent, crashes, cancels>>

(***************************************************************************)
(* Measuring: one disposable workspace per attempt.                        *)
(***************************************************************************)

Leave(p, exit) ==
  /\ proc' = [proc EXCEPT ![p] = [Idle EXCEPT !.exit = exit]]
  /\ lock' = None

\* The context is looked at before and after each attempt, before the
\* comparison and before an improvement is published.  run does not look
\* again once its plan has ended.
Abort(p) ==
  /\ proc[p].cancelled
  /\ \/ proc[p].pc \in {"measure", "probing", "evaluate"}
     \/ proc[p].pc = "publish" /\ proc[p].mode # "run"
  /\ Leave(p, 1)
  /\ UNCHANGED <<clock, store, trials, decisions, unclean, agent, commands, crashes, cancels>>

NextAttempt(p) ==
  /\ proc[p].pc = "measure" /\ ~proc[p].cancelled
  /\ proc' = [proc EXCEPT ![p].pc = "acquire"]
  /\ UNCHANGED <<clock, lock, store, trials, decisions, unclean, agent, commands, crashes, cancels>>

\* Creating the workspace and its guard fails when the context has ended by
\* then; any failure ends the plan as an isolation failure.
Acquire(p) ==
  /\ proc[p].pc = "acquire"
  /\ \/ /\ ~proc[p].cancelled
        /\ proc' = [proc EXCEPT ![p].pc = "probing", ![p].lease = TRUE]
     \/ proc' = [proc EXCEPT ![p].pc = "score", ![p].found = @ \cup {"isolation"}]
  /\ UNCHANGED <<clock, lock, store, trials, decisions, unclean, agent, commands, crashes, cancels>>

Attempt(p) ==
  /\ proc[p].pc = "probing" /\ ~proc[p].cancelled
  /\ \E o \in Outcomes, closed \in BOOLEAN :
       LET obs == Append(proc[p].obs, normalizeObservation(Plan[Len(proc[p].obs) + 1], o))
           reasons == {r \in {"schema-mismatch"} : o = Early} \cup {r \in {"cleanup"} : ~closed}
       IN  /\ unclean' = IF closed THEN unclean ELSE unclean \cup {proc[p].createdAt}
           /\ IF o = Early /\ proc[p].evaluated
              THEN Leave(p, 1)
              ELSE /\ proc' = [proc EXCEPT ![p].obs = obs, ![p].lease = FALSE,
                                 ![p].found = @ \cup reasons,
                                 ![p].pc = IF Len(obs) = Len(Plan) \/ ~closed
                                           THEN "score" ELSE "measure"]
                   /\ UNCHANGED lock
  /\ UNCHANGED <<clock, store, trials, decisions, agent, commands, crashes, cancels>>

\* The profile of the measurement.  A learning command measures its control
\* first, with the lessons of the baseline, and then the candidate.
MeasuresControl(r) == r.mode = "learn" /\ r.control = None

Measured(r) ==
  BuildProfile(Plan, r.obs, r.found,
               IF MeasuresControl(r) THEN r.source.lessons ELSE r.policy,
               r.evaluated, r.createdAt, TTL, Threshold, Minimum)

Score(p) ==
  /\ proc[p].pc = "score"
  /\ proc' = [proc EXCEPT ![p] =
       IF MeasuresControl(@)
       THEN [@ EXCEPT !.control = Measured(proc[p]), !.pc = "measure",
                      !.createdAt = clock, !.obs = <<>>, !.found = {}]
       ELSE [@ EXCEPT !.candidate = Measured(proc[p]),
                      !.pc = IF proc[p].mode = "run" THEN "publish" ELSE "evaluate"]]
  /\ clock' = IF MeasuresControl(proc[p]) THEN clock + 1 ELSE clock
  /\ UNCHANGED <<lock, store, trials, decisions, unclean, agent, commands, crashes, cancels>>

(***************************************************************************)
(* Evaluation, trial, decision, publication.                               *)
(***************************************************************************)

Left(r) == IF r.mode = "learn" THEN r.control ELSE r.source

IsAccepted(r, now) == Comparable(Left(r), r.candidate) /\ RejectionReasons(Left(r), r.candidate, now) = {}

\* Interrupted measurements have no pairs to compare: the command fails.
\* Otherwise the trials are kept and the decision is written; each write may
\* fail and ends the command with what was written before it.
Evaluate(p) ==
  /\ proc[p].pc = "evaluate" /\ ~proc[p].cancelled
  /\ LET r == proc[p]
         saved == IF r.mode = "learn" THEN {r.control, r.candidate} ELSE {r.candidate}
         decision == [source |-> r.source.createdAt, candidate |-> r.candidate.createdAt,
                      accepted |-> IsAccepted(r, clock)]
     IN  IF Comparable(Left(r), r.candidate)
         THEN \/ \E kept \in SUBSET saved :            \* a write fails
                   /\ r.candidate \in kept => kept = saved
                   /\ trials' = trials \cup kept /\ Leave(p, 1)
                   /\ UNCHANGED decisions
              \/ /\ trials' = trials \cup saved
                 /\ decisions' = decisions \cup {decision}
                 /\ proc' = [proc EXCEPT ![p].pc = "publish", ![p].accepted = decision.accepted]
                 /\ UNCHANGED lock
         ELSE Leave(p, 1) /\ UNCHANGED <<trials, decisions>>
  /\ UNCHANGED <<clock, store, unclean, agent, commands, crashes, cancels>>

Adopts(r) == r.mode = "run" \/ r.accepted

Publish(p) ==
  /\ proc[p].pc = "publish" /\ (proc[p].mode = "run" \/ ~proc[p].cancelled)
  /\ IF Adopts(proc[p])
     THEN \E linked, tidy \in BOOLEAN :
            /\ tidy => linked
            /\ store' = IF linked THEN store \cup {proc[p].candidate} ELSE store
            /\ Leave(p, IF ~tidy THEN 1
                        ELSE IF proc[p].mode = "run" /\ ~proc[p].candidate.verified THEN 1 ELSE 0)
     ELSE Leave(p, 3) /\ UNCHANGED store
  /\ UNCHANGED <<clock, trials, decisions, unclean, agent, commands, crashes, cancels>>

(***************************************************************************)
(* Timeouts and signals, kills, the operator, time.                        *)
(***************************************************************************)

Cancel(p) ==
  /\ proc[p].pc # "idle" /\ ~proc[p].cancelled /\ cancels < MaxCancels
  /\ proc' = [proc EXCEPT ![p].cancelled = TRUE,
                          ![p].inPlan = proc[p].pc \in {"measure", "acquire", "probing"}]
  /\ cancels' = cancels + 1
  /\ UNCHANGED <<clock, lock, store, trials, decisions, unclean, agent, commands, crashes>>

\* A killed command leaves its lock file and an open workspace.
Crash(p) ==
  /\ proc[p].pc # "idle" /\ crashes < MaxCrashes
  /\ proc' = [proc EXCEPT ![p] = Idle]
  /\ lock' = IF lock = p THEN "stale" ELSE lock
  /\ unclean' = IF proc[p].lease THEN unclean \cup {proc[p].createdAt} ELSE unclean
  /\ crashes' = crashes + 1
  /\ UNCHANGED <<clock, store, trials, decisions, agent, commands, cancels>>

\* The operator removes the lock file of a command that no longer runs.
OperatorUnlock ==
  /\ lock = "stale" /\ lock' = None
  /\ UNCHANGED <<clock, proc, store, trials, decisions, unclean, agent, commands, crashes, cancels>>

Tick ==
  /\ clock < MaxClock /\ clock' = clock + 1
  /\ UNCHANGED <<lock, proc, store, trials, decisions, unclean, agent, commands, crashes, cancels>>

Step(p) == Abort(p) \/ NextAttempt(p) \/ Acquire(p) \/ Attempt(p) \/ Score(p) \/ Evaluate(p) \/ Publish(p)

Next ==
  \/ \E p \in Procs : StartRun(p) \/ StartImprove(p) \/ Step(p) \/ Cancel(p) \/ Crash(p)
  \/ OperatorUnlock \/ AgentSelect \/ AgentApply \/ Tick

Spec == Init /\ [][Next]_vars

-----------------------------------------------------------------------------

\* The clock moves at each measurement, at most twice in a command.
LastClock == MaxClock + 2 * MaxCommands

Profile == [obs : Seq([case : STRING, stage : {"calibration", "holdout"}, category : STRING,
                       safety : BOOLEAN, artifact : BOOLEAN, success : BOOLEAN,
                       malformed : BOOLEAN, falseDone : BOOLEAN, recovered : BOOLEAN,
                       transport : BOOLEAN, trace : BOOLEAN, artifactSeen : BOOLEAN,
                       safetyPassed : BOOLEAN, retries : 0 .. 100]),
            lessons : SUBSET Lessons, evaluated : BOOLEAN,
            createdAt : 1 .. LastClock, expiresAt : 1 .. LastClock + TTL,
            confidence : 0 .. 10000,
            reasons : SUBSET {"isolation", "cleanup", "schema-mismatch", "trace-missing",
                              "artifact-missing", "low-confidence", "holdout-failure", "safety-failure"},
            verified : BOOLEAN]

\* Type invariant.
TypeOK ==
  /\ clock \in 1 .. LastClock
  /\ lock \in Procs \cup {None, "stale"}
  /\ store \subseteq Profile /\ trials \subseteq Profile
  /\ \A p \in Procs :
       /\ proc[p].pc \in {"idle", "measure", "acquire", "probing", "score", "evaluate", "publish"}
       /\ proc[p].exit \in {None, 0, 1, 3}
  /\ \A q \in store \cup trials : SnapshotGates(q, Len(Plan), Threshold)

\* What an agent run applies was verified, was valid at the moment it was
\* applied, not only when it was selected, and is never a candidate that an
\* improvement rejected (RecommendationsFor, Improve).
AppliedIsSound ==
  agent.applied # None =>
    /\ agent.applied.verified
    /\ agent.applied.createdAt <= agent.at /\ agent.at < agent.applied.expiresAt
    /\ ~\E d \in decisions : d.candidate = agent.applied.createdAt /\ ~d.accepted

\* A verified profile was measured in workspaces that are gone: a workspace
\* that could not be removed quarantines the measurement (profiler.run).
VerifiedLeftNoWorkspace ==
  \A q \in store : q.verified => q.createdAt \notin unclean

\* A published improvement always has its trial and its accepted decision on
\* disk, also when the command was killed right after publishing it: the
\* decision is written before publication.
AdoptionHasEvidence ==
  \A q \in store \cap trials :
     \E d \in decisions : d.candidate = q.createdAt /\ d.accepted

\* An improvement that is canceled at any moment before its publication,
\* while measuring, comparing or writing its decision, is not published.
CanceledIsNotAdopted ==
  \A p \in Procs :
    (proc[p].mode # "run" /\ proc[p].cancelled) =>
       \/ store' = store
       \/ \E o \in Procs \ {p} : proc[o].pc = "publish"

=============================================================================
