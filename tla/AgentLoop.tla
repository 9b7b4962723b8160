------------------------------ MODULE AgentLoop -------------------------------
(***************************************************************************)
(* One run of the agent kernel: RunLoopWithOptions (agent/loop.go) with    *)
(* its terminal finalizer (run_terminal.go), its correction budgets, the   *)
(* auto-verification, the completion contract and the evidence gate.       *)
(*                                                                         *)
(* The provider, the tools, the context planner and the user's cancel are  *)
(* the environment.  A reply of the model has at most one tool call.       *)
(***************************************************************************)
EXTENDS Naturals, Sequences, FiniteSets

(***************************************************************************)
(* The completion contract of a strict run (agent/completion_contract.go)  *)
(* and the evidence ledger (agent/evidence.go), as operators on values.    *)
(*                                                                         *)
(* A contract is [state : criterion -> pending/satisfied/blocked,          *)
(* proof : criterion -> evidence reference or 0, rev].  A reference is its *)
(* sequence number in refs, a sequence of outcomes (TRUE: it succeeded).   *)
(* A claim is [criterion, state, ref]; the texts of a claim are left out.  *)
(***************************************************************************)
CONSTANTS Criteria,
          NeedsEvidence,  \* the criteria that are not excepted
          MaxRefs,        \* maxCompletionEvidenceRefs
          MaxStopBlocks

NewContract ==
  [state |-> [c \in Criteria |-> "pending"], proof |-> [c \in Criteria |-> 0], rev |-> 0]

Status(contract) ==
  IF \E c \in Criteria : contract.state[c] = "blocked" THEN "blocked"
  ELSE IF \A c \in Criteria : contract.state[c] = "satisfied" THEN "complete"
  ELSE "incomplete"

\* prepareClaimLocked: a claim must change the state of its criterion, and
\* one that satisfies a criterion names evidence where evidence is required.
ValidClaim(contract, claim) ==
  /\ claim.state # contract.state[claim.criterion]
  /\ claim.state # "satisfied" => claim.ref = 0
  /\ claim.state = "satisfied" /\ claim.criterion \in NeedsEvidence => claim.ref # 0

Resolves(refs, ref) == ref \in 1 .. Len(refs) /\ refs[ref]

\* ApplyClaims: every claim of the batch, or none.
Accepts(contract, refs, expected, claims) ==
  /\ expected = contract.rev
  /\ claims # {}
  /\ \A x, y \in claims : x.criterion = y.criterion => x = y
  /\ \A claim \in claims : ValidClaim(contract, claim)
  /\ \A claim \in claims : claim.state = "satisfied" /\ claim.ref # 0 => Resolves(refs, claim.ref)

ApplyClaims(contract, refs, expected, claims) ==
  IF ~Accepts(contract, refs, expected, claims) THEN contract
  ELSE LET Of(c) == {claim \in claims : claim.criterion = c}
           Pick(c) == CHOOSE claim \in Of(c) : TRUE
       IN [state |-> [c \in Criteria |-> IF Of(c) = {} THEN contract.state[c] ELSE Pick(c).state],
           proof |-> [c \in Criteria |-> IF Of(c) = {} THEN contract.proof[c] ELSE Pick(c).ref],
           rev |-> contract.rev + 1]

-----------------------------------------------------------------------------
(* The gate.  task: quick, normal or deep; policy: off, measure, advisory  *)
(* or block; records: the results of verification that were observed.      *)

Gate(task, policy, changed, records, stopBlocks) ==
  IF policy = "off" \/ task = "quick" \/ ~changed \/ "passed" \in records THEN "allow"
  ELSE IF task # "deep" \/ policy = "advisory" THEN "warn"
  ELSE IF policy # "block" THEN "would-block"
  ELSE IF stopBlocks >= MaxStopBlocks THEN "warn" ELSE "block"

TerminalState(decision, status, records) ==
  LET seen == records \cup {status}
  IN IF decision = "block" THEN "blocked"
     ELSE IF decision = "allow" /\ "passed" \in seen /\ "failed" \notin seen THEN "verified"
     ELSE IF "passed" \in seen THEN "partially-verified" ELSE "unverified"

------------------------------------------------------------------------------
CONSTANTS Profiles,        \* the runs: see TypeOK
          MaxIterations, MaxErrorRounds,
          MaxCorrections,  \* parser, selector and completion corrections
          MaxVerify, MaxCompact, MaxCalls,
          ReadRounds, MoreRounds  \* read-only budget, in half rounds

VARIABLES run,       \* the profile of the run
          pc, i,     \* position in the loop body, iteration
          try,       \* calls of the provider in this iteration
          used,      \* [parser, selector, completion, verify, compact, stopBlocks, errors]
          tools,     \* what the catalog offers: all, readonly, none
          explored,  \* [total, more, checkpointed, guarding] of a read-only question
          awaiting,  \* the routing selector has not been answered
          edited, denied, tested,  \* tested: "" or the last result of auto-verify
          contract, refs, records,
          cycles,    \* the run mode stopped at its cycle limit
          shown,     \* prose of the model was sent to the client
          receipt, beating, cancelled, hooks,
          mcp,       \* the MCP runtime: none, owned, borrowed, or owned and closed
          outcome, closed,
          fresh      \* history: the tests ran after the last edit
vars == <<run, pc, i, try, used, tools, explored, awaiting, edited, denied, tested, contract, refs,
          records, cycles, shown, receipt, beating, cancelled, hooks, mcp, outcome, closed, fresh>>

Undecided == [kind |-> "", policy |-> "", state |-> ""]

\* The types, and every correction budget within its limit.
TypeOK ==
  /\ run \in Profiles
  /\ run.mcp \in {"none", "owned", "borrowed"} /\ mcp \in {"none", "owned", "borrowed", "closed"}
  /\ run.task \in {"quick", "normal", "deep"} /\ run.policy \in {"off", "measure", "advisory", "block"}
  /\ {run.strict, run.question, run.docs, run.verify, run.mode, run.selector} \subseteq BOOLEAN
  /\ i \in 0 .. MaxIterations /\ try \in 0 .. MaxCalls
  /\ used.parser \in 0 .. MaxCorrections /\ used.completion \in 0 .. MaxCorrections
  /\ used.selector \in 0 .. MaxCorrections /\ used.compact \in 0 .. MaxCompact
  /\ used.verify \in 0 .. MaxVerify /\ used.stopBlocks \in 0 .. MaxStopBlocks
  /\ used.errors \in 0 .. MaxErrorRounds
  /\ Len(refs) <= MaxRefs /\ records \subseteq {"passed", "failed"}
  /\ tools \in {"all", "readonly", "none"}
  /\ hooks \in {"none", "started", "ended"}

Init ==
  /\ run \in Profiles
  /\ pc = "preflight" /\ i = 0 /\ try = 0
  /\ used = [parser |-> 0, selector |-> 0, completion |-> 0, verify |-> 0, compact |-> 0,
             stopBlocks |-> 0, errors |-> 0]
  /\ tools = "all"
  /\ explored = [total |-> 0, more |-> 0, checkpointed |-> FALSE, guarding |-> run.question]
  /\ awaiting = run.selector
  /\ edited = FALSE /\ denied = FALSE /\ tested = ""
  /\ contract = NewContract /\ refs = <<>> /\ records = {}
  /\ cycles = FALSE /\ shown = FALSE /\ receipt = FALSE /\ beating = FALSE
  /\ cancelled = FALSE /\ hooks = "none" /\ mcp = "none"
  /\ outcome = Undecided /\ closed = FALSE
  /\ fresh = FALSE

session == <<hooks, mcp, closed>>
work == <<edited, denied, tested, contract, refs, records, fresh>>
budget == <<used, tools, explored, awaiting>>

-----------------------------------------------------------------------------
(* Leaving the loop: the first Complete or Fail decides (run_terminal.go). *)

Decide(kind, policy, state) ==
  /\ outcome' = IF outcome = Undecided THEN [kind |-> kind, policy |-> policy, state |-> state]
                ELSE outcome
  /\ pc' = "exit"

Fail(kind) == Decide(kind, "reconcile", "blocked")

\* The recovery receipt of a failing run: only after a repeated action was denied.
RecoveryReceipt == receipt' = (receipt \/ denied)

\* Deferred last, run first: an owned MCP runtime is closed.
CloseMCP ==
  /\ pc = "exit"
  /\ pc' = "finalize"
  /\ mcp' = IF mcp = "owned" THEN "closed" ELSE mcp
  /\ UNCHANGED <<run, i, try, budget, work, cycles, shown, receipt, beating, cancelled, outcome, hooks,
                 closed>>

Finalize ==
  /\ pc = "finalize" /\ ~closed
  /\ hooks' = IF hooks = "started" THEN "ended" ELSE hooks
  /\ outcome' = IF outcome = Undecided
                THEN [kind |-> "no_terminal", policy |-> "reconcile", state |-> "blocked"]
                ELSE outcome
  /\ closed' = TRUE
  /\ UNCHANGED <<run, pc, i, try, budget, work, cycles, shown, receipt, beating, cancelled, mcp>>

Cancel ==
  /\ ~cancelled /\ ~closed
  /\ cancelled' = TRUE
  /\ UNCHANGED <<run, pc, i, try, budget, work, cycles, shown, receipt, beating, outcome, session>>

-----------------------------------------------------------------------------
(* Before the first iteration                                              *)

\* Images, configuration, skills, execution policy, checkpoint scope.
PreflightFails ==
  /\ pc = "preflight"
  /\ Fail("failed")
  /\ UNCHANGED <<run, i, try, budget, work, cycles, shown, receipt, beating, cancelled, session>>

\* An explicit /undo of a user; never of a worker or a run mode.
UndoCommand ==
  /\ pc = "preflight" /\ ~run.mode
  /\ Decide("command", "none", "")
  /\ UNCHANGED <<run, i, try, budget, work, cycles, shown, receipt, beating, cancelled, session>>

\* Harness, plan binding, run mode, iteration limit, sandbox, contract.
Resolve(ok) ==
  /\ pc = "preflight"
  /\ IF ok THEN pc' = "connect" /\ UNCHANGED outcome ELSE Fail("failed")
  /\ UNCHANGED <<run, i, try, budget, work, cycles, shown, receipt, beating, cancelled, session>>

ConnectMCP(usable) ==
  /\ pc = "connect"
  /\ IF usable THEN pc' = "catalog" /\ UNCHANGED outcome ELSE Fail("failed")
  /\ mcp' = IF run.mcp = "owned" /\ ~usable THEN "closed" ELSE run.mcp
  /\ UNCHANGED <<run, i, try, budget, work, cycles, shown, receipt, beating, cancelled, hooks, closed>>

\* Plugins, the tool catalog and its budget, routing, the start of a run mode.
CatalogFails ==
  /\ pc = "catalog"
  /\ Fail("failed")
  /\ UNCHANGED <<run, i, try, budget, work, cycles, shown, receipt, beating, cancelled, session>>

StartSession ==
  /\ pc = "catalog"
  /\ hooks' = "started" /\ pc' = "slash"
  /\ UNCHANGED <<run, i, try, budget, work, cycles, shown, receipt, beating, cancelled, mcp, outcome, closed>>

\* A slash command: unknown, answered directly, or turned into a prompt.
SlashCommand(kind) ==
  /\ pc = "slash"
  /\ \/ kind = "prompt" /\ pc' = "ready" /\ UNCHANGED outcome
     \/ kind = "unknown" /\ ~run.mode /\ Fail("failed")
     \/ kind = "direct" /\ ~run.mode /\ Decide("command", "none", "")
  /\ UNCHANGED <<run, i, try, budget, work, cycles, shown, receipt, beating, cancelled, session>>

-----------------------------------------------------------------------------
(* One iteration                                                           *)

OutOfIterations ==
  /\ pc = "ready" /\ i = MaxIterations
  /\ RecoveryReceipt /\ Fail("max_iterations")
  /\ UNCHANGED <<run, i, try, budget, work, cycles, shown, beating, cancelled, session>>

Boundary(e) ==
  IF ~e.checkpointed THEN [e EXCEPT !.checkpointed = TRUE]
  ELSE IF e.more >= MoreRounds THEN [e EXCEPT !.guarding = FALSE]
  ELSE e

\* plan: what the context planner and the compaction say of the request.
Prepare(plan) ==
  LET e == IF explored.guarding /\ explored.total >= ReadRounds THEN Boundary(explored) ELSE explored
  IN /\ pc = "ready" /\ i < MaxIterations
     /\ i' = i + 1 /\ try' = 0
     /\ explored' = e
     /\ tools' = IF explored.guarding /\ ~e.guarding THEN "none"
                 ELSE IF e.checkpointed /\ ~explored.checkpointed THEN "readonly" ELSE tools
     /\ \/ plan = "fits" /\ pc' = "call" /\ UNCHANGED <<used, outcome>>
        \/ plan = "compacted" /\ used.compact < MaxCompact
           /\ used' = [used EXCEPT !.compact = @ + 1] /\ pc' = "call" /\ UNCHANGED outcome
        \/ plan = "broken" /\ Fail("failed") /\ UNCHANGED used
        \/ plan = "blocked" /\ Fail("context_blocked")
           /\ used' = [used EXCEPT !.compact = IF @ < MaxCompact THEN @ + 1 ELSE @]
     /\ beating' = (pc' = "call")
     /\ awaiting' = (awaiting /\ e.checkpointed = explored.checkpointed)
     /\ UNCHANGED <<run, work, cycles, shown, receipt, cancelled, session>>

CallFails_Beating ==
  /\ pc = "call"
  /\ try' = try + 1
  /\ IF try + 1 < MaxCalls THEN UNCHANGED <<pc, outcome>> ELSE Fail("failed")
  /\ UNCHANGED <<run, i, budget, work, cycles, shown, receipt, beating, cancelled, session>>
CallFails ==
  /\ pc = "call"
  /\ try' = try + 1
  /\ IF try + 1 < MaxCalls THEN UNCHANGED <<pc, outcome, beating>>
     ELSE Fail("failed") /\ beating' = FALSE
  /\ UNCHANGED <<run, i, budget, work, cycles, shown, receipt, cancelled, session>>

\* In the pause between two calls, or when the stream has ended.
SeesCancel ==
  /\ cancelled
  /\ (pc = "call" /\ try > 0) \/ pc = "stream"
  /\ beating' = FALSE /\ Fail("cancelled")
  /\ UNCHANGED <<run, i, try, budget, work, cycles, shown, receipt, cancelled, session>>

CallStreams ==
  /\ pc = "call"
  /\ pc' = "stream"
  /\ UNCHANGED <<run, i, try, budget, work, cycles, shown, receipt, beating, cancelled, outcome, session>>

EmptyStream ==
  /\ pc = "stream" /\ ~cancelled
  /\ beating' = FALSE /\ Fail("no_terminal")
  /\ UNCHANGED <<run, i, try, budget, work, cycles, shown, receipt, cancelled, session>>

\* A tool call that cannot be parsed is sent back, a bounded number of times.
Malformed ==
  /\ pc = "stream" /\ ~cancelled
  /\ beating' = FALSE
  /\ IF used.parser >= MaxCorrections THEN Fail("failed") /\ UNCHANGED used
     ELSE pc' = "ready" /\ used' = [used EXCEPT !.parser = @ + 1] /\ UNCHANGED outcome
  /\ UNCHANGED <<run, i, try, tools, explored, awaiting, work, cycles, shown, receipt, cancelled, session>>

\* The answer of the routing selector, right or wrong.
Selector(right) ==
  /\ pc = "stream" /\ ~cancelled /\ awaiting
  /\ beating' = FALSE
  /\ IF right
     THEN /\ awaiting' = FALSE /\ pc' = "ready" /\ shown' \in {shown, shown \/ ~run.strict}
          /\ UNCHANGED <<used, outcome>>
     ELSE /\ IF used.selector >= MaxCorrections THEN Fail("failed") /\ UNCHANGED used
             ELSE pc' = "ready" /\ used' = [used EXCEPT !.selector = @ + 1] /\ UNCHANGED outcome
          /\ UNCHANGED <<awaiting, shown>>
  /\ UNCHANGED <<run, i, try, tools, explored, work, cycles, receipt, cancelled, session>>

Shows(text) == shown' = (shown \/ (text /\ ~run.strict))

Reply(call) ==
  /\ pc = "stream" /\ ~cancelled /\ (awaiting => call \in {"", "report"})
  /\ beating' = FALSE
  /\ \E text \in BOOLEAN : Shows(text)
  /\ pc' = IF call = "" THEN "mode" ELSE call
  /\ UNCHANGED <<run, i, try, budget, work, cycles, receipt, cancelled, outcome, session>>

-----------------------------------------------------------------------------
(* A reply without a tool call                                             *)

Continue == pc' = "ready" /\ UNCHANGED outcome

ModeAdvances(directive) ==
  /\ pc = "mode"
  /\ \/ directive = "stop" /\ pc' = "verify" /\ UNCHANGED <<outcome, cycles>>
     \/ run.mode /\ directive = "max_cycles" /\ cycles' = TRUE /\ pc' = "verify" /\ UNCHANGED outcome
     \/ run.mode /\ directive = "continue" /\ Continue /\ UNCHANGED cycles
     \/ run.mode /\ directive = "error" /\ Fail("failed") /\ UNCHANGED cycles
  /\ UNCHANGED <<run, i, try, budget, work, shown, receipt, beating, cancelled, session>>

AutoVerify ==
  /\ edited /\ run.verify /\ used.verify < MaxVerify
  /\ ~(run.strict /\ Status(contract) = "blocked")

Verify(failed) ==
  /\ pc = "verify"
  /\ IF AutoVerify
     THEN LET result == IF failed THEN "failed" ELSE "passed"
          IN /\ tested' = result /\ fresh' = TRUE
             /\ records' = records \cup {result}
             /\ refs' = IF run.strict /\ Len(refs) < MaxRefs THEN Append(refs, ~failed) ELSE refs
             /\ IF failed THEN used' = [used EXCEPT !.verify = @ + 1] /\ pc' = "ready"
                ELSE pc' = "contract" /\ UNCHANGED used
     ELSE pc' = "contract" /\ UNCHANGED <<tested, fresh, records, refs, used>>
  /\ UNCHANGED <<run, i, try, tools, explored, awaiting, edited, denied, contract, cycles, shown,
                 receipt, beating, cancelled, outcome, session>>

CheckContract ==
  /\ pc = "contract"
  /\ IF ~run.strict THEN pc' = "gate" /\ UNCHANGED used
     ELSE CASE Status(contract) = "complete" -> pc' = "gate" /\ UNCHANGED used
            [] Status(contract) = "blocked" -> pc' = "finish" /\ UNCHANGED used
            [] OTHER -> IF used.completion < MaxCorrections
                        THEN pc' = "ready" /\ used' = [used EXCEPT !.completion = @ + 1]
                        ELSE pc' = "finish" /\ UNCHANGED used
  /\ UNCHANGED <<run, i, try, tools, explored, awaiting, work, cycles, shown, receipt, beating,
                 cancelled, outcome, session>>

CheckGate ==
  LET decision == Gate(run.task, run.policy, edited /\ ~run.docs, records, used.stopBlocks)
  IN /\ pc = "gate"
     /\ IF decision = "block"
        THEN pc' = "ready" /\ used' = [used EXCEPT !.stopBlocks = @ + 1]
        ELSE pc' = "finish" /\ UNCHANGED used
     /\ UNCHANGED <<run, i, try, tools, explored, awaiting, work, cycles, shown, receipt, beating,
                    cancelled, outcome, session>>

\* The prose, the receipt and the terminal.
Finish(text) ==
  LET blocked == run.strict /\ Status(contract) # "complete"
      decision == Gate(run.task, run.policy, edited /\ ~run.docs, records, used.stopBlocks)
      state == IF blocked \/ cycles THEN "blocked" ELSE TerminalState(decision, tested, records)
  IN /\ pc = "finish"
     /\ shown' = (shown \/ (text /\ run.strict /\ Status(contract) # "incomplete"))
     /\ receipt' = (receipt \/ edited \/ run.strict \/ denied)
     /\ CASE blocked -> Fail("failed")
          [] ~blocked /\ cycles -> Fail("max_cycles")
          [] OTHER -> Decide("completed", "commit", state)
     /\ UNCHANGED <<run, i, try, budget, work, cycles, beating, cancelled, session>>

-----------------------------------------------------------------------------
(* A reply with a tool call; result: ok, error, or denied before execution.*)

Count(result) ==
  /\ used' = [used EXCEPT !.errors = IF result = "ok" THEN 0 ELSE @ + 1]
  /\ IF result # "ok" /\ used.errors + 1 >= MaxErrorRounds
     THEN RecoveryReceipt /\ Fail("failed")
     ELSE pc' = "ready" /\ UNCHANGED <<receipt, outcome>>

Explore(half) ==
  explored' = [explored EXCEPT !.total = @ + half, !.more = IF explored.checkpointed THEN @ + half ELSE @]

Calls == {"nav", "read", "edit", "check", "report"}
Claims == [criterion : Criteria, state : {"pending", "satisfied", "blocked"}, ref : 0 .. MaxRefs]

\* The catalog of the iteration decides what can run at all.
Offered(call) == \/ call = "report" /\ run.strict
                 \/ call # "report" /\ tools = "all"
                 \/ call \in {"nav", "read"} /\ tools = "readonly"

Unindexed(call, result) ==
  run.strict /\ call # "report" /\ result # "denied" /\ Len(refs) >= MaxRefs

\* An executed check counts as passed only when its output does not say failed.
Observed(call, result) ==
  IF call # "check" THEN {{}}
  ELSE IF result = "ok" THEN {{"passed"}, {"failed"}} ELSE {{"failed"}}

ToolRound(call, result, guard) ==
  LET changes == call = "edit" /\ result = "ok" /\ ~Unindexed(call, result)
  IN /\ pc = call
     /\ (cancelled \/ ~Offered(call) \/ guard) => result = "denied"
     /\ denied' = (denied \/ guard)
     /\ Explore(IF call = "nav" THEN 1 ELSE 2)
     /\ edited' = (edited \/ changes)
     /\ fresh' = (fresh /\ ~(call = "edit" /\ result = "ok"))
     /\ \E seen \in Observed(call, result) : records' = records \cup seen
     /\ IF Unindexed(call, result)
        THEN Fail("failed") /\ UNCHANGED <<refs, used, receipt>>
        ELSE /\ Count(result)
             /\ refs' = IF run.strict /\ call # "report" /\ result # "denied"
                        THEN Append(refs, result = "ok") ELSE refs
     /\ IF call = "report" /\ result = "ok"
        THEN \E claim \in Claims : /\ Accepts(contract, refs, contract.rev, {claim})
                                   /\ contract' = ApplyClaims(contract, refs, contract.rev, {claim})
        ELSE UNCHANGED contract
     /\ UNCHANGED <<run, i, try, tools, awaiting, tested, cycles, shown, beating, cancelled, session>>

\* ImageRead, or an image in the request, on a model that takes no images.
ImageRefused ==
  /\ pc \in {"call", "read"} /\ (pc = "call" => try = 0)
  /\ beating' = FALSE /\ Fail("failed")
  /\ explored' = IF pc = "read"
                 THEN [explored EXCEPT !.total = @ + 2, !.more = IF explored.checkpointed THEN @ + 2 ELSE @]
                 ELSE explored
  /\ UNCHANGED <<run, i, try, used, tools, awaiting, work, cycles, shown, receipt, cancelled, session>>

-----------------------------------------------------------------------------
Step ==
  \/ CloseMCP \/ Finalize \/ PreflightFails \/ UndoCommand \/ CatalogFails \/ StartSession
  \/ \E ok \in BOOLEAN : Resolve(ok)
  \/ \E usable \in BOOLEAN : ConnectMCP(usable)
  \/ \E kind \in {"prompt", "unknown", "direct"} : SlashCommand(kind)
  \/ OutOfIterations
  \/ \E plan \in {"fits", "compacted", "blocked", "broken"} : Prepare(plan)
  \/ CallFails \/ SeesCancel \/ CallStreams \/ ImageRefused \/ EmptyStream \/ Malformed
  \/ \E right \in BOOLEAN : Selector(right)
  \/ \E call \in {""} \cup Calls : Reply(call)
  \/ \E directive \in {"stop", "max_cycles", "continue", "error"} : ModeAdvances(directive)
  \/ \E failed \in BOOLEAN : Verify(failed)
  \/ CheckContract \/ CheckGate
  \/ \E text \in BOOLEAN : Finish(text)
  \/ \E call \in Calls, result \in {"ok", "error", "denied"}, guard \in BOOLEAN :
       ToolRound(call, result, guard)

Next == Step \/ Cancel

Spec == Init /\ [][Next]_vars

-----------------------------------------------------------------------------
(* Properties                                                              *)

Commits == outcome.policy = "commit"

\* A strict run that is committed has every criterion satisfied, and each one
\* that needs evidence by an outcome that was observed and succeeded.
DoneIsProved ==
  Commits /\ run.strict =>
    \A c \in Criteria : /\ contract.state[c] = "satisfied"
                       /\ c \in NeedsEvidence => /\ contract.proof[c] \in 1 .. Len(refs)
                                               /\ refs[contract.proof[c]]

\* Under the block policy a deep run whose source edits were never verified
\* is committed only when it was sent back MaxStopBlocks times.
GateSpent ==
  Commits /\ run.task = "deep" /\ run.policy = "block" /\ edited /\ ~run.docs /\ "passed" \notin records
    => used.stopBlocks = MaxStopBlocks

\* Where tests can be run, the edits of a committed run were tested after the
\* last of them, or the attempts ran out and the run is not called verified.
EditsWereTested ==
  Commits /\ edited /\ run.verify =>
    \/ fresh
    \/ used.verify = MaxVerify /\ outcome.state # "verified"

\* The client of a strict run sees no prose of a model whose work the contract
\* does not accept.
ProseWithheld == run.strict /\ shown => Status(contract) # "incomplete"

\* No goroutine that writes events is left when the channel is closed: the
\* heartbeat has stopped and a runtime the run started is closed.
NoWriterAfterClose == closed => ~beating /\ mcp \in {"none", "borrowed", "closed"}

\* A read-only question is never again offered tools beyond both budgets.
ReadBudget ==
  run.question /\ pc = "call" /\ tools # "none" => explored.total <= ReadRounds + MoreRounds

=============================================================================
