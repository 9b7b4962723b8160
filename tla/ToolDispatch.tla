---------------------------- MODULE ToolDispatch ----------------------------
(***************************************************************************)
(* Dispatch of the tool calls of one model turn (tool_dispatch.go) and the *)
(* repetition guard of the run (run_guard.go).  Every call is authorized   *)
(* in turn, possibly waiting for the user; the concurrency-safe ones then  *)
(* run together, and the others one by one after all of them.  An action   *)
(* stands for the fingerprint of a call: tool, arguments, target revision, *)
(* failure code and plan step.                                             *)
(***************************************************************************)
EXTENDS Naturals, FiniteSets

CONSTANTS Actions,      \* fingerprints of calls
          Concurrent,   \* the ones IsConcurrencySafe accepts
          Ask,          \* the ones that need the user's approval
          Bound,        \* host interaction, plugin or full-mode calls: approval bound to the call
          Turn,         \* calls of one turn
          Limit,        \* RunGuard.repeatLimit
          Values,       \* contents a result may have
          MaxChanges,   \* bound: changes of what the tools return
          MaxApprovals  \* bound: approvals the user gives

VARIABLES call,       \* slot -> action
          pc,         \* slot -> how far the call is
          out,        \* slot -> its result
          seen,       \* RunGuard.seen, saturated above the limit
          digest,     \* RunGuard.successfulResults, 0: none
          value,      \* action -> what it returns now
          changes, approvals,
          cancelled,  \* the run's context
          streak      \* history: executions of an action that brought nothing new
vars == <<call, pc, out, seen, digest, value, changes, approvals, cancelled, streak>>

Slots == 1 .. Turn
States == {"auth", "await", "ready", "observed", "armed", "running", "done"}
Results == {"none", "denied", "canceled", "repeated", "ok", "error"}

TypeOK ==
  /\ call \in [Slots -> Actions] /\ pc \in [Slots -> States] /\ out \in [Slots -> Results]
  /\ seen \in [Actions -> 0 .. Limit + 1] /\ digest \in [Actions -> {0} \cup Values]
  /\ value \in [Actions -> Values]
  /\ \A s \in Slots : pc[s] = "done" <=> out[s] # "none"

Init ==
  /\ call \in [Slots -> Actions]
  /\ pc = [s \in Slots |-> "auth"] /\ out = [s \in Slots |-> "none"]
  /\ seen = [a \in Actions |-> 0] /\ digest = [a \in Actions |-> 0]
  /\ value \in {[a \in Actions |-> v] : v \in Values}
  /\ changes = 0 /\ approvals = 0 /\ cancelled = FALSE
  /\ streak = [a \in Actions |-> 0]

Done(s, r) ==
  /\ pc' = [pc EXCEPT ![s] = "done"]
  /\ out' = [out EXCEPT ![s] = r]

Authorizing(s) == pc[s] \in {"auth", "await"} /\ \A r \in 1 .. s - 1 : pc[r] \notin {"auth", "await"}
Authorized == \A s \in Slots : pc[s] \notin {"auth", "await"}

-----------------------------------------------------------------------------
\* The loop over the calls: catalogue, schema, identity, plan and offline
\* mode, execution policy, scope, permission, instructions.

Refuse(s) ==
  /\ Authorizing(s) /\ pc[s] = "auth"
  /\ Done(s, "denied")
  /\ UNCHANGED <<call, seen, digest, value, changes, approvals, cancelled, streak>>

AskUser(s) ==
  /\ Authorizing(s) /\ pc[s] = "auth" /\ call[s] \in Ask
  /\ pc' = [pc EXCEPT ![s] = "await"]
  /\ UNCHANGED <<call, out, seen, digest, value, changes, approvals, cancelled, streak>>

\* dispatchContextDenial, then the project's hook, which may block the call.
DispatchContextDenial == cancelled

Hook(s) ==
  \/ ~DispatchContextDenial /\ pc' = [pc EXCEPT ![s] = "ready"] /\ UNCHANGED out
  \/ ~DispatchContextDenial /\ Done(s, "denied")
  \/ DispatchContextDenial /\ Done(s, "canceled")

Allow(s) ==
  /\ Authorizing(s) /\ pc[s] = "auth" /\ call[s] \notin Ask
  /\ Hook(s)
  /\ UNCHANGED <<call, seen, digest, value, changes, approvals, cancelled, streak>>

\* RunGuard.Reset: an approval by the user starts a fresh budget.
Approve(s) ==
  /\ Authorizing(s) /\ pc[s] = "await" /\ approvals < MaxApprovals
  /\ approvals' = approvals + 1
  /\ seen' = [a \in Actions |-> 0] /\ digest' = [a \in Actions |-> 0]
  /\ streak' = [a \in Actions |-> 0]
  /\ Hook(s)
  /\ UNCHANGED <<call, value, changes, cancelled>>

\* Denied, expired, or the context ended the wait.
NotApproved(s) ==
  /\ Authorizing(s) /\ pc[s] = "await"
  /\ Done(s, "denied")
  /\ UNCHANGED <<call, seen, digest, value, changes, approvals, cancelled, streak>>

-----------------------------------------------------------------------------
\* executePreparedToolCall.  Reads run together; a serial call waits for all
\* of them and for the serial calls before it.

MayRun_Unordered(s) == Authorized
MayRun_AfterReads(s) ==
  /\ Authorized
  /\ call[s] \in Concurrent
     \/ \A r \in Slots : call[r] \in Concurrent => pc[r] = "done"
MayRun(s) ==
  /\ Authorized
  /\ call[s] \in Concurrent
     \/ \A r \in Slots : (call[r] \in Concurrent \/ r < s) => (r = s \/ pc[r] = "done")

\* The identity is checked and the policy asked; RunGuard.Observe counts.
Observed_OffByOne(a) == seen[a] <= Limit
Observed(a) == seen[a] < Limit
Count(a) == [seen EXCEPT ![a] = IF @ > Limit THEN @ ELSE @ + 1]

Observe(s) ==
  /\ pc[s] = "ready" /\ MayRun(s)
  /\ \/ DispatchContextDenial /\ Done(s, "canceled") /\ UNCHANGED seen
     \/ ~DispatchContextDenial /\ Done(s, "denied") /\ UNCHANGED seen    \* identity
     \/ /\ ~DispatchContextDenial
        /\ seen' = Count(call[s])
        /\ IF Observed(call[s]) THEN pc' = [pc EXCEPT ![s] = "observed"] /\ UNCHANGED out
           ELSE Done(s, "repeated")
     \/ ~DispatchContextDenial /\ seen' = Count(call[s]) /\ Done(s, "denied")    \* ledger
  /\ UNCHANGED <<call, digest, value, changes, approvals, cancelled, streak>>

\* BeforeExecute, then context and identity again, then the bindings.
Arm(s) ==
  /\ pc[s] = "observed"
  /\ \/ DispatchContextDenial /\ Done(s, "canceled")
     \/ Done(s, "denied")
     \/ ~DispatchContextDenial /\ pc' = [pc EXCEPT ![s] = "armed"] /\ UNCHANGED out
  /\ UNCHANGED <<call, seen, digest, value, changes, approvals, cancelled, streak>>

\* The journal.  Only a call that holds a full-mode grant looks at the context
\* once more before it spends the grant; Bound does not tell it from the others.
Start(s) ==
  /\ pc[s] = "armed"
  /\ \/ Done(s, "denied")
     \/ call[s] \in Bound /\ DispatchContextDenial /\ Done(s, "canceled")
     \/ pc' = [pc EXCEPT ![s] = "running"] /\ UNCHANGED out
  /\ UNCHANGED <<call, seen, digest, value, changes, approvals, cancelled, streak>>

Progress(a) == digest[a] # value[a]

Succeed(s) ==
  /\ pc[s] = "running"
  /\ Done(s, "ok")
  /\ IF Progress(call[s])
     THEN /\ digest' = [digest EXCEPT ![call[s]] = value[call[s]]]
          /\ seen' = [a \in Actions |-> 0]
     ELSE UNCHANGED <<digest, seen>>
  /\ streak' = IF digest[call[s]] # value[call[s]] THEN [a \in Actions |-> 0]
               ELSE [streak EXCEPT ![call[s]] = IF @ < Limit + Turn THEN @ + 1 ELSE @]
  /\ UNCHANGED <<call, value, changes, approvals, cancelled>>

FailTool(s) ==
  /\ pc[s] = "running"
  /\ Done(s, "error")
  /\ streak' = [streak EXCEPT ![call[s]] = IF @ < Limit + Turn THEN @ + 1 ELSE @]
  /\ UNCHANGED <<call, seen, digest, value, changes, approvals, cancelled>>

-----------------------------------------------------------------------------
\* The model's next turn: whatever it likes.
NextTurn ==
  /\ \A s \in Slots : pc[s] = "done"
  /\ ~cancelled
  /\ call' \in [Slots -> Actions]
  /\ pc' = [s \in Slots |-> "auth"] /\ out' = [s \in Slots |-> "none"]
  /\ UNCHANGED <<seen, digest, value, changes, approvals, cancelled, streak>>

Cancel ==
  /\ ~cancelled
  /\ cancelled' = TRUE
  /\ UNCHANGED <<call, pc, out, seen, digest, value, changes, approvals, streak>>

\* The world changes what a tool returns.
Change(a) ==
  /\ changes < MaxChanges
  /\ changes' = changes + 1
  /\ value' \in {[value EXCEPT ![a] = v] : v \in Values \ {value[a]}}
  /\ UNCHANGED <<call, pc, out, seen, digest, approvals, cancelled, streak>>

Execute(s) == Succeed(s) \/ FailTool(s)
CallStep(s) ==
  \/ Refuse(s) \/ AskUser(s) \/ Allow(s) \/ Approve(s) \/ NotApproved(s)
  \/ Observe(s) \/ Arm(s) \/ Start(s) \/ Execute(s)

Next ==
  \/ \E s \in Slots : CallStep(s)
  \/ NextTurn \/ Cancel
  \/ \E a \in Actions : Change(a)

Spec == Init /\ [][Next]_vars

-----------------------------------------------------------------------------
\* An action that brings nothing new, and is not approved again, runs at most
\* Limit times, plus the calls that were already past the guard when another
\* result reset it (run_guard.go:85).
RepetitionBounded == \A a \in Actions : streak[a] < Limit + Turn

\* The mutations of a turn are checked after all its reads ended, and one by
\* one: no serial call is under way together with another call
\* (tool_dispatch.go:295).
SerialAlone ==
  \A s, r \in Slots :
    (s # r /\ call[s] \notin Concurrent /\ pc[s] \in {"observed", "armed", "running"})
      => pc[r] \notin {"observed", "armed", "running"}

\* Once a call of the turn was refused because the run was canceled, no
\* serial call of the turn starts (tool_dispatch.go:510).
CanceledIsFinal ==
  [][\A s, r \in Slots :
       (out[r] = "canceled" /\ call[s] \notin Concurrent)
         => ~(pc[s] # "running" /\ pc'[s] = "running")]_vars

=============================================================================
