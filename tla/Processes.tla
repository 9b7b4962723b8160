------------------------------ MODULE Processes -------------------------------
(***************************************************************************)
(* One command run to its end behind the sandbox boundary: the admission   *)
(* of sandbox/contract.go, the adapter chosen by AutoRunner, the process   *)
(* with its descendants, the shared output budget of output_capture.go,    *)
(* and the verdict of unconfined.go (Unix) and job_windows.go, as the Bash *)
(* tool and the other one-shot tools see it.  Output is counted in bytes;  *)
(* processes, the kernel and os/exec are external.                         *)
(***************************************************************************)
EXTENDS Integers, FiniteSets

CONSTANTS
  Adapters,     \* secure adapters the platform may offer
  Policies,     \* policies a caller may pass
  Limit,        \* OutputLimitBytes
  MaxOutput,    \* bound on the bytes written in all
  Descendants,  \* the kinds of descendants a command may start
  ApiFaults     \* TRUE: Windows job calls may fail

VARIABLES
  secure, route, policy,
  phase,      \* setup, suspended, running, reaped, drained, claimed, done
  root, exit,
  kids,       \* the kinds of descendants that are alive
  ctx,        \* runContext: live, deadline, canceled
  pipe,       \* bytes written and not yet copied
  written, kept, truncated,
  limitHit,   \* onLimit has to run
  stopped,    \* executionContext cancelled by the limit
  reason,     \* executionTerminal
  killed,     \* terminationRequested / executionInterrupted
  seenCtx,    \* contextErr of the Windows runner
  waitErr,    \* error of the wait, apart from the exit code
  jobErr,     \* terminationErr
  jobDone,    \* the job was told to terminate
  applied, failure, isError

sandboxVars == <<secure, route, policy, phase, root, exit, kids, ctx, pipe, written, kept, truncated, limitHit,
          stopped, reason, killed, seenCtx, waitErr, jobErr, jobDone, applied, failure, isError>>
given == <<secure, route, policy>>
out == <<pipe, written, kept, truncated, limitHit, stopped>>
job == <<seenCtx, jobErr, jobDone>>
verdict == <<applied, failure, isError>>

Isolation == {"fs", "net", "proc", "env"}

Capabilities(r) ==
  CASE r = "unconfined" -> {}
    [] r = "unavailable" -> {}
    [] r = "bubblewrap" -> {"fs", "net", "proc"}
    [] r = "bubblewrap_nonet" -> {"fs", "proc"}
    [] r = "seatbelt" -> {"fs", "net"}
    [] r = "windows" -> {"proc", "limits"}

(* AutoRunner: only an explicit Disabled goes to the host. *)
Runner == IF policy.enforcement = "disabled" THEN "unconfined" ELSE secure
Windows == Runner = "windows"

RequiredCapabilities(p) ==
  p.required \cup (IF p.access # "none" THEN {"fs"} ELSE {})
             \cup (IF p.network = "deny" THEN {"net"} ELSE {})
             \cup (IF p.limits THEN {"limits"} ELSE {})

validatePolicyShape(p) ==
  /\ ~ (p.network = "allow" /\ "net" \in p.required)
  /\ p.enforcement \in {"required", "preferred", "disabled"}
  /\ p.enforcement = "disabled" => RequiredCapabilities(p) \cap Isolation = {}

ValidatePolicy(p, available) ==
  /\ validatePolicyShape(p)
  /\ p.enforcement \in {"required", "preferred"} => available \cap Isolation # {}
  /\ RequiredCapabilities(p) \subseteq available

CallerAdmits ==
  /\ route = "tool" => policy.enforcement # "disabled"
  /\ ValidatePolicy(policy, Capabilities(secure))

RunnerAdmits ==
  /\ Runner # "unavailable"
  /\ ValidatePolicy(policy, Capabilities(Runner))
  /\ Runner \in {"bubblewrap", "bubblewrap_nonet", "seatbelt"} => policy.access # "none"

SeatbeltIsolation == {"fs"} \cup (RequiredCapabilities(policy) \cap {"net"})

AppliedIsolation ==
  CASE Runner \in {"bubblewrap", "bubblewrap_nonet"} ->
         {"fs", "proc"} \cup (RequiredCapabilities(policy) \cap {"net"})
    [] Runner = "seatbelt" -> SeatbeltIsolation
    [] Windows -> {"proc"} \cup (IF policy.limits THEN {"limits"} ELSE {})
    [] OTHER -> {}

SandboxInit ==
  /\ secure \in Adapters /\ route \in {"bash", "tool"} /\ policy \in Policies
  /\ phase = "setup" /\ root = "none" /\ exit = 0 /\ kids = {} /\ ctx = "live"
  /\ pipe = 0 /\ written = 0 /\ kept = 0 /\ truncated = FALSE /\ limitHit = FALSE /\ stopped = FALSE
  /\ reason = "none" /\ killed = FALSE /\ seenCtx = "live" /\ waitErr = FALSE
  /\ jobErr = FALSE /\ jobDone = FALSE
  /\ applied = {} /\ failure = "unset" /\ isError = FALSE
-----------------------------------------------------------------------------
(* Setup. *)

NotStarted(code) ==
  /\ phase' = "done" /\ failure' = code /\ isError' = TRUE /\ applied' = {}
  /\ UNCHANGED <<given, root, exit, kids, ctx, out, reason, killed, waitErr, job>>

Ended == IF ctx = "deadline" THEN "timeout" ELSE "canceled"

Refuse ==
  /\ phase = "setup"
  /\ \/ ~ (CallerAdmits /\ RunnerAdmits) /\ NotStarted("refused")
     \/ NotStarted("start_failed")
     \/ ctx # "live" /\ NotStarted(Ended)

Start ==
  /\ phase = "setup" /\ CallerAdmits /\ RunnerAdmits /\ ctx = "live"
  /\ phase' = IF Windows THEN "suspended" ELSE "running"
  /\ root' = IF Windows THEN "suspended" ELSE "alive"
  /\ UNCHANGED <<given, exit, kids, ctx, out, reason, killed, waitErr, job, verdict>>

(* The child of the Windows runner is resumed only inside its job. *)
Resume ==
  /\ phase = "suspended"
  /\ \/ ctx = "live" /\ phase' = "running" /\ root' = "alive" /\ UNCHANGED <<exit, failure, isError, applied>>
     \/ /\ phase' = "done" /\ root' = "exited" /\ exit' = -1
        /\ failure' \in (IF ctx # "live" THEN {Ended} ELSE {}) \cup (IF ApiFaults THEN {"refused"} ELSE {})
        /\ isError' = TRUE /\ applied' = {}
  /\ UNCHANGED <<given, kids, ctx, out, reason, killed, waitErr, job>>
-----------------------------------------------------------------------------
(* The processes (external).  A descendant is a member of the process      *)
(* group of the root or has left it for a session of its own, and it holds *)
(* the output pipes it inherited or has redirected its output; at most one *)
(* of each kind is told apart.  A PID namespace ends with its first        *)
(* process, and nothing leaves a Windows job.                              *)

Kinds == {"piped", "silent", "escaped", "daemon"}
Group == {"piped", "silent"}
Attached == {"piped", "escaped"}
Namespaced == Runner \in {"bubblewrap", "bubblewrap_nonet"}

(* The root starts any kind; a descendant has what its parent has, or less. *)
Spawn ==
  \E k \in Descendants \ kids :
    /\ \/ root = "alive" /\ phase = "running"
       \/ \E j \in kids : (k \in Group => j \in Group) /\ (k \in Attached => j \in Attached)
    /\ Windows => k \in Group /\ ~ jobDone
    /\ kids' = kids \cup {k}
    /\ UNCHANGED <<given, phase, root, exit, ctx, out, reason, killed, waitErr, job, verdict>>

Emit ==
  /\ root = "alive" \/ kids \cap Attached # {}
  /\ phase \in {"running", "reaped"} /\ written < MaxOutput
  /\ written' = written + 1 /\ pipe' = pipe + 1
  /\ UNCHANGED <<given, phase, root, exit, kids, ctx, kept, truncated, limitHit, stopped, reason, killed, waitErr, job, verdict>>

RootExits ==
  /\ root = "alive"
  /\ root' = "exited" /\ exit' \in {0, 1}
  /\ kids' = IF Namespaced THEN {} ELSE kids
  /\ UNCHANGED <<given, phase, ctx, out, reason, killed, waitErr, job, verdict>>

KidExits ==
  /\ \E k \in kids : kids' = kids \ {k}
  /\ UNCHANGED <<given, phase, root, exit, ctx, out, reason, killed, waitErr, job, verdict>>

ContextEnds ==
  /\ ctx = "live" /\ phase # "done"
  /\ ctx' \in {"deadline", "canceled"}
  /\ UNCHANGED <<given, phase, root, exit, kids, out, reason, killed, waitErr, job, verdict>>
-----------------------------------------------------------------------------
(* Output. *)

(* boundedOutputWriter.Write: one budget, the whole chunk is consumed. *)
Copy ==
  /\ pipe > 0 /\ phase \in {"running", "reaped"} /\ ~ limitHit
  /\ \E n \in 1 .. pipe :
       LET keep == IF n > Limit - kept THEN Limit - kept ELSE n
       IN  /\ pipe' = pipe - n /\ kept' = kept + keep
           /\ truncated' = (truncated \/ keep < n)
           /\ limitHit' = (keep < n /\ ~ stopped)
  /\ UNCHANGED <<given, phase, root, exit, kids, ctx, written, stopped, reason, killed, waitErr, job, verdict>>

Claim(r) == IF reason = "none" THEN r ELSE reason
FromContext == IF ctx = "live" THEN "none" ELSE ctx

(* The callback of the capture: the reason first, then the cancellation. *)
OnLimit ==
  /\ limitHit /\ limitHit' = FALSE /\ stopped' = TRUE
  /\ reason' = Claim(IF ctx = "live" THEN "output_limit" ELSE ctx)
  /\ UNCHANGED <<given, phase, root, exit, kids, ctx, pipe, written, kept, truncated, killed, waitErr, job, verdict>>

ExecutionEnds == ctx # "live" \/ stopped
-----------------------------------------------------------------------------
(* Unix: os/exec with Cancel = kill of the process group (external), and   *)
(* a bounded wait for the pipes.                                           *)

CancelUnix_RootOnly ==
  /\ ~ Windows /\ phase = "running" /\ ExecutionEnds /\ ~ killed
  /\ killed' = TRUE
  /\ waitErr' \in IF root = "alive" THEN {TRUE} ELSE BOOLEAN
  /\ root' = "exited" /\ exit' = IF root = "alive" THEN -1 ELSE exit
  /\ kids' = IF Namespaced THEN {} ELSE kids
  /\ UNCHANGED <<given, phase, ctx, out, reason, job, verdict>>

(* A group of which only the root is left, unwaited for, may be killed too. *)
CancelUnix ==
  /\ ~ Windows /\ phase = "running" /\ ExecutionEnds /\ ~ killed
  /\ killed' = TRUE
  /\ waitErr' \in IF root = "alive" \/ kids \cap Group # {} THEN {TRUE} ELSE BOOLEAN
  /\ root' = "exited" /\ exit' = IF root = "alive" THEN -1 ELSE exit
  /\ kids' = IF Namespaced THEN {} ELSE kids \ Group
  /\ UNCHANGED <<given, phase, ctx, out, reason, job, verdict>>

ReapUnix ==
  /\ ~ Windows /\ phase = "running" /\ root = "exited"
  /\ phase' = "reaped"
  /\ UNCHANGED <<given, root, exit, kids, ctx, out, reason, killed, waitErr, job, verdict>>

(* The copies end when nobody holds the pipe any more, or are cut by       *)
(* WaitDelay; descendants that hold no pipe are not waited for.            *)
DrainUnix ==
  /\ ~ Windows /\ phase = "reaped" /\ ~ limitHit
  /\ \/ kids \cap Attached = {} /\ pipe = 0 /\ UNCHANGED <<waitErr, pipe>>
     \/ kids \cap Attached # {} /\ waitErr' = TRUE /\ pipe' = 0
     \/ pipe > 0 /\ waitErr' = TRUE /\ pipe' = 0
  /\ phase' = "drained"
  /\ UNCHANGED <<given, root, exit, kids, ctx, written, kept, truncated, limitHit, stopped, reason, killed, job, verdict>>
-----------------------------------------------------------------------------
(* Windows: the job ends with the root, whichever way the root ended.      *)

(* requestJobTermination: descendants die some time afterwards. *)
RequestTermination ==
  \/ jobDone' = TRUE /\ jobErr' \in (IF ApiFaults THEN BOOLEAN ELSE {FALSE})
  \/ ApiFaults /\ jobDone' = FALSE /\ jobErr' = TRUE

InterruptWindows ==
  /\ Windows /\ phase = "running" /\ ExecutionEnds
  /\ reason' = Claim(FromContext)
  /\ IF root = "exited"
     THEN UNCHANGED <<killed, seenCtx, root, exit, jobErr, jobDone>>
     ELSE /\ killed' = TRUE /\ seenCtx' = ctx
          /\ RequestTermination
          /\ root' = "exited" /\ exit' = -1
  /\ phase' = "reaped"
  /\ UNCHANGED <<given, kids, ctx, out, waitErr, verdict>>

ReapWindows ==
  /\ Windows /\ phase = "running" /\ root = "exited"
  /\ phase' = "reaped" /\ reason' = Claim(FromContext)
  /\ UNCHANGED <<given, root, exit, kids, ctx, out, killed, waitErr, job, verdict>>

EndJobWindows ==
  /\ Windows /\ phase = "reaped" /\ ~ jobDone /\ ~ jobErr
  /\ RequestTermination
  /\ UNCHANGED <<given, phase, root, exit, kids, ctx, out, reason, killed, seenCtx, waitErr, verdict>>

DrainWindows ==
  /\ Windows /\ phase = "reaped" /\ pipe = 0 /\ ~ limitHit
  /\ jobDone \/ jobErr
  /\ \/ kids = {} /\ UNCHANGED jobErr
     \/ jobErr' = TRUE
  /\ kids' = {}
  /\ phase' = "drained"
  /\ UNCHANGED <<given, root, exit, ctx, out, reason, killed, seenCtx, waitErr, jobDone, verdict>>
-----------------------------------------------------------------------------
(* The verdict. *)

ClaimContext ==
  /\ phase = "drained" /\ phase' = "claimed"
  /\ reason' = IF Windows THEN reason ELSE Claim(FromContext)
  /\ UNCHANGED <<given, root, exit, kids, ctx, out, killed, waitErr, job, verdict>>

Failed == waitErr \/ exit # 0
ContextEnded == IF Windows THEN seenCtx ELSE ctx

FinalReason ==
  LET r == IF reason \in {"deadline", "canceled"} /\ ~ (killed /\ (Windows \/ Failed)) THEN "none" ELSE reason
  IN  IF r = "none" /\ truncated THEN "output_limit" ELSE r

Verdict ==
  IF jobErr THEN "failed"
  ELSE IF FinalReason = "output_limit" THEN "output_limit"
  ELSE IF FinalReason = "deadline" /\ ContextEnded = "deadline" THEN "timeout"
  ELSE IF FinalReason = "canceled" /\ ContextEnded = "canceled" THEN "canceled"
  ELSE IF Failed THEN "failed" ELSE "none"

(* ExecuteBashDeep: exit 1 of grep, diff, test or find is no error. *)
BashIsError(semantic) ==
  LET v == Verdict
  IN  IF v \in {"timeout", "canceled"} THEN TRUE
      ELSE IF exit # 0 THEN ~ (semantic /\ exit = 1)
      ELSE v # "none"

Finish ==
  /\ phase = "claimed" /\ phase' = "done"
  /\ failure' = Verdict
  /\ applied' = AppliedIsolation \cup (IF Windows /\ ~ jobErr THEN {"treekill"} ELSE {})
  /\ \E semantic \in BOOLEAN : isError' = BashIsError(semantic)
  /\ UNCHANGED <<given, root, exit, kids, ctx, out, reason, killed, waitErr, job>>

SandboxNext ==
  \/ Refuse \/ Start \/ Resume
  \/ Spawn \/ Emit \/ RootExits \/ KidExits \/ ContextEnds
  \/ Copy \/ OnLimit
  \/ CancelUnix \/ ReapUnix \/ DrainUnix
  \/ InterruptWindows \/ ReapWindows \/ EndJobWindows \/ DrainWindows
  \/ ClaimContext \/ Finish

SandboxSpec == SandboxInit /\ [][SandboxNext]_sandboxVars
-----------------------------------------------------------------------------
(* What is kept of both streams together stays within the limit.           *)
SandboxTypeOK ==
  /\ kept \in 0 .. Limit /\ kept + pipe <= written
  /\ kids \subseteq Descendants
  /\ reason \in {"none", "output_limit", "deadline", "canceled"}
  /\ failure \in {"unset", "refused", "start_failed", "timeout", "canceled", "output_limit", "failed", "none"}

(* A command never runs with less isolation than its policy asks for; the  *)
(* host is used for an explicit Disabled only, and never by a tool.        *)
IsolationHolds ==
  root = "alive" =>
    /\ policy.required \cap Isolation \subseteq AppliedIsolation
    /\ policy.access # "none" => "fs" \in AppliedIsolation
    /\ policy.network = "deny" => "net" \in AppliedIsolation
    /\ policy.limits => "limits" \in AppliedIsolation
    /\ policy.enforcement # "disabled" => AppliedIsolation \cap Isolation # {}
    /\ route = "tool" => policy.enforcement # "disabled"

(* Success means that the root ended by itself with 0 and that every byte  *)
(* it or a descendant wrote was delivered.                                 *)
SuccessIsComplete ==
  failure = "none" => exit = 0 /\ ~ truncated /\ kept = written

(* A verdict that blames the deadline or the caller is true of the context *)
(* and of the process.                                                     *)
BlameIsTrue ==
  phase = "claimed" /\ phase' = "done" =>
    /\ failure' = "timeout" => ctx = "deadline" /\ killed
    /\ failure' = "canceled" => ctx = "canceled" /\ killed
    /\ truncated => failure' # "none"

(* What the Bash tool does not call an error ended by itself: with 0 and    *)
(* nothing wrong, or with the 1 that is an answer of that command.         *)
QuietIsOrderly ==
  phase = "done" /\ ~ isError =>
    \/ exit = 0 /\ failure = "none"
    \/ exit = 1 /\ failure \in {"failed", "output_limit"}

(* What a command that is reported finished can have left: nothing on      *)
(* Windows and in a PID namespace; elsewhere, after a kill, a descendant   *)
(* with a session of its own, which the kill of the group does not reach,  *)
(* and after an end of its own one that went to the background.  Nothing   *)
(* that can still write to its output outlives a success.                  *)
TreeGone ==
  phase = "done" =>
    /\ root # "alive"
    /\ Windows \/ Namespaced => kids = {}
    /\ killed => kids \cap Group = {}
    /\ failure = "none" => kids \cap Attached = {}

------------------------------------------------------------------------------

(***************************************************************************)
(* A long-lived child with streaming pipes, as MCP and language servers    *)
(* are run: the start behind AutoRunner (host, wrapped by bubblewrap or    *)
(* Seatbelt, Windows job), the goroutine that waits for the child, the     *)
(* watcher of its context, and callers of Stop and CloseIO, of             *)
(* processsupervisor/supervisor.go, wrapped.go, adapter.go, job_windows.go.*)
(* The kernel's processes and os/exec's copying of output are external.    *)
(***************************************************************************)
CONSTANTS
  SupervisorAdapters,    \* secure adapters the platform may offer
  Users,       \* goroutines that call Stop
  Kids,        \* descendants the child may start
  Reads,       \* TRUE: the client keeps reading the output
  Escapes,     \* TRUE: a descendant may leave the process group
  SupervisorApiFaults    \* TRUE: Windows calls may fail

VARIABLES
  supervisorSecure, isolating,   \* the adapter, and whether the policy asks for isolation
  supervisorPhase,     \* setup, built, suspended, started, failed
  inJob,
  supervisorRoot,      \* none, suspended, alive, dead
  supervisorKids,      \* none, piped (in the group, holds the output), silent, escaped, dead
  unread,    \* output the client has not taken
  io,        \* open, closed
  tmp,       \* private temporary directory: none, made, removed
  supervisorCtx,       \* live, ended
  waiter,    \* no, waiting, reaped, ended
  done,
  term,      \* the job controller's goroutine: no, killing, draining, done
  termErr,
  once,      \* stopOnce: no, busy, did
  stopErr,   \* none, gone, failed, late
  call,      \* per caller: idle, queued, inside, waiting, reaped, failed, late
  groupHit   \* history: a signal or the job reached the whole group

supervisorVars == <<supervisorSecure, isolating, supervisorPhase, inJob, supervisorRoot, supervisorKids, unread, io, tmp, supervisorCtx, waiter, done, term, termErr,
          once, stopErr, call, groupHit>>
setup == <<supervisorSecure, isolating>>
procs == <<supervisorRoot, supervisorKids>>
stops == <<once, stopErr, call>>
jobs == <<inJob, term, termErr>>

Callers == Users \cup {"watcher"}

(* AutoRunner: only a Disabled policy goes to the host runner. *)
SupervisorRunner == IF isolating THEN supervisorSecure ELSE "host"
SupervisorWindows == SupervisorRunner = "windows"

SupervisorAlive(k) == supervisorKids[k] \in {"piped", "silent", "escaped"}
Holds(k) == supervisorKids[k] \in {"piped", "escaped"}
Grouped(k) == supervisorKids[k] \in {"piped", "silent"}
Holders == supervisorRoot = "alive" \/ \E k \in Kids : Holds(k)

(* A signal to the process group, or the job's end. *)
EndGroup == [k \in Kids |-> IF Grouped(k) THEN "dead" ELSE supervisorKids[k]]

SupervisorInit ==
  /\ supervisorSecure \in SupervisorAdapters /\ isolating \in BOOLEAN
  /\ supervisorPhase = "setup" /\ inJob = FALSE
  /\ supervisorRoot = "none" /\ supervisorKids = [k \in Kids |-> "none"]
  /\ unread = FALSE /\ io = "open" /\ tmp = "none" /\ supervisorCtx = "live"
  /\ waiter = "no" /\ done = FALSE /\ term = "no" /\ termErr = FALSE
  /\ once = "no" /\ stopErr = "none" /\ call = [c \in Callers |-> "idle"]
  /\ groupHit = FALSE

------------------------------------------------------------------------------
(* Starting. *)

(* A policy, command, directory or environment the runner does not accept,  *)
(* an adapter that is not there, a context that has ended.                  *)
SupervisorRefuse ==
  /\ supervisorPhase = "setup"
  /\ supervisorPhase' = "failed"
  /\ UNCHANGED <<setup, procs, jobs, stops, unread, io, tmp, supervisorCtx, waiter, done, groupHit>>

(* The wrapper's specification; Seatbelt makes a temporary directory. *)
Build ==
  /\ supervisorPhase = "setup" /\ SupervisorRunner \in {"bubblewrap", "seatbelt"}
  /\ supervisorPhase' = "built"
  /\ tmp' = IF SupervisorRunner = "seatbelt" THEN "made" ELSE tmp
  /\ UNCHANGED <<setup, procs, jobs, stops, unread, io, supervisorCtx, waiter, done, groupHit>>

(* newManagedProcess starts the goroutine that waits. *)
Launched ==
  /\ supervisorPhase' = "started" /\ supervisorRoot' = "alive" /\ waiter' = "waiting"
  /\ UNCHANGED <<setup, supervisorKids, jobs, stops, unread, io, tmp, supervisorCtx, done, groupHit>>

(* HostRunner.Start, for itself or for a wrapper. *)
StartHost ==
  /\ (supervisorPhase = "setup" /\ SupervisorRunner = "host") \/ supervisorPhase = "built"
  /\ supervisorCtx = "live"
  /\ Launched

(* The host does not start it: the wrapper removes what it prepared. *)
StartHostFails ==
  /\ supervisorPhase = "built"
  /\ supervisorPhase' = "failed"
  /\ tmp' = IF tmp = "made" THEN "removed" ELSE tmp
  /\ UNCHANGED <<setup, procs, jobs, stops, unread, io, supervisorCtx, waiter, done, groupHit>>

CreateSuspended ==
  /\ supervisorPhase = "setup" /\ SupervisorWindows /\ supervisorCtx = "live"
  /\ supervisorPhase' = "suspended" /\ supervisorRoot' = "suspended"
  /\ UNCHANGED <<setup, supervisorKids, jobs, stops, unread, io, tmp, supervisorCtx, waiter, done, groupHit>>

AssignToJob ==
  /\ supervisorPhase = "suspended" /\ ~ inJob
  /\ inJob' = TRUE
  /\ UNCHANGED <<setup, supervisorPhase, procs, term, termErr, stops, unread, io, tmp, supervisorCtx, waiter, done, groupHit>>

(* Not in the job, the job's closing would not end it. *)
AssignFails ==
  /\ supervisorPhase = "suspended" /\ ~ inJob /\ SupervisorApiFaults
  /\ supervisorPhase' = "failed" /\ supervisorRoot' = "dead"
  /\ UNCHANGED <<setup, supervisorKids, jobs, stops, unread, io, tmp, supervisorCtx, waiter, done, groupHit>>

ResumeThread ==
  /\ supervisorPhase = "suspended" /\ inJob /\ supervisorCtx = "live"
  /\ Launched

(* The context ended, or the thread does not resume. *)
ResumeFails ==
  /\ supervisorPhase = "suspended" /\ inJob /\ (supervisorCtx = "ended" \/ SupervisorApiFaults)
  /\ supervisorPhase' = "failed" /\ supervisorRoot' = "dead"
  /\ UNCHANGED <<setup, supervisorKids, jobs, stops, unread, io, tmp, supervisorCtx, waiter, done, groupHit>>

------------------------------------------------------------------------------
(* The child and its descendants. *)

(* A descendant outside the group starts nobody in it, and one without the  *)
(* pipes nobody who has them.                                               *)
SupervisorSpawn(k) ==
  /\ supervisorKids[k] = "none"
  /\ \E s \in {"piped", "silent"} \cup (IF Escapes /\ ~ SupervisorWindows THEN {"escaped"} ELSE {}) :
       /\ supervisorRoot = "alive" \/ \E j \in Kids : supervisorKids[j] \in {"piped", s}
       /\ supervisorKids' = [supervisorKids EXCEPT ![k] = s]
  /\ UNCHANGED <<setup, supervisorPhase, supervisorRoot, jobs, stops, unread, io, tmp, supervisorCtx, waiter, done, groupHit>>

SupervisorEmit ==
  /\ Holders /\ ~ unread
  /\ unread' = TRUE
  /\ UNCHANGED <<setup, supervisorPhase, procs, jobs, stops, io, tmp, supervisorCtx, waiter, done, groupHit>>

ChildExits ==
  /\ supervisorRoot = "alive"
  /\ supervisorRoot' = "dead"
  /\ UNCHANGED <<setup, supervisorPhase, supervisorKids, jobs, stops, unread, io, tmp, supervisorCtx, waiter, done, groupHit>>

Read ==
  /\ Reads /\ unread /\ io = "open"
  /\ unread' = FALSE
  /\ UNCHANGED <<setup, supervisorPhase, procs, jobs, stops, io, tmp, supervisorCtx, waiter, done, groupHit>>

SupervisorContextEnds ==
  /\ supervisorCtx = "live" /\ supervisorPhase \in {"built", "suspended", "started"}
  /\ supervisorCtx' = "ended"
  /\ UNCHANGED <<setup, supervisorPhase, procs, jobs, stops, unread, io, tmp, waiter, done, groupHit>>

CloseIO ==
  /\ supervisorPhase = "started" /\ io = "open"
  /\ io' = "closed"
  /\ UNCHANGED <<setup, supervisorPhase, procs, jobs, stops, unread, tmp, supervisorCtx, waiter, done, groupHit>>

------------------------------------------------------------------------------
(* The waiting goroutine. *)

WaitReaps ==
  /\ waiter = "waiting" /\ supervisorRoot = "dead"
  /\ waiter' = "reaped"
  /\ term' = IF SupervisorWindows /\ term = "no" THEN "killing" ELSE term
  /\ UNCHANGED <<setup, supervisorPhase, procs, inJob, termErr, stops, unread, io, tmp, supervisorCtx, done, groupHit>>

(* exec.Cmd's Wait also waits for the copying of output: it ends at the     *)
(* last holder's end, or when the client has closed the reading end.        *)
CopyingEnded == (~ Holders /\ ~ unread) \/ (unread /\ io = "closed")

SupervisorEnded ==
  /\ waiter' = "ended" /\ done' = TRUE
  /\ UNCHANGED <<setup, supervisorPhase, supervisorRoot, jobs, stops, unread, io, tmp, supervisorCtx>>

WaitEnds ==
  /\ waiter = "reaped" /\ ~ SupervisorWindows /\ CopyingEnded
  /\ SupervisorEnded
  /\ UNCHANGED <<supervisorKids, groupHit>>

(* wait() returns after terminate, then close lets the kernel end what the  *)
(* job still holds.                                                         *)
WaitEndsWindows ==
  /\ waiter = "reaped" /\ SupervisorWindows /\ term = "done"
  /\ supervisorKids' = EndGroup /\ groupHit' = TRUE
  /\ SupervisorEnded

RemoveTemporary ==
  /\ supervisorPhase = "started" /\ tmp = "made" /\ done
  /\ tmp' = "removed"
  /\ UNCHANGED <<setup, supervisorPhase, procs, jobs, stops, unread, io, supervisorCtx, waiter, done, groupHit>>

(* windowsJobController.terminate's goroutine: TerminateJobObject, or the   *)
(* child alone when that fails; then the count of what is still running,    *)
(* until it is zero, cannot be read, or the grace is over.                  *)
KillJob ==
  /\ term = "killing"
  /\ term' = "draining"
  /\ supervisorRoot' = "dead"
  /\ \/ supervisorKids' = EndGroup /\ groupHit' = TRUE /\ UNCHANGED termErr
     \/ SupervisorApiFaults /\ termErr' = TRUE /\ UNCHANGED <<supervisorKids, groupHit>>
  /\ UNCHANGED <<setup, supervisorPhase, inJob, stops, unread, io, tmp, supervisorCtx, waiter, done>>

DrainJob ==
  /\ term = "draining"
  /\ term' = "done"
  /\ termErr' = (termErr \/ \E k \in Kids : SupervisorAlive(k))
  /\ UNCHANGED <<setup, supervisorPhase, procs, inJob, stops, unread, io, tmp, supervisorCtx, waiter, done, groupHit>>

------------------------------------------------------------------------------
(* Stop. *)

(* It closes stdin, answers at once when the process is done. *)
Stop(c) ==
  /\ supervisorPhase = "started" /\ call[c] = "idle"
  /\ c = "watcher" => supervisorCtx = "ended" /\ ~ done
  /\ call' = [call EXCEPT ![c] = IF done THEN "reaped" ELSE "queued"]
  /\ UNCHANGED <<setup, supervisorPhase, procs, jobs, once, stopErr, unread, io, tmp, supervisorCtx, waiter, done, groupHit>>

KillGroup(c) ==
  /\ call[c] = "queued" /\ once = "no" /\ ~ SupervisorWindows
  /\ once' = "did" /\ call' = [call EXCEPT ![c] = "waiting"]
  /\ stopErr' = IF waiter \in {"reaped", "ended"} /\ ~ (\E k \in Kids : Grouped(k)) THEN "gone" ELSE "none"
  /\ supervisorRoot' = "dead" /\ supervisorKids' = EndGroup
  /\ groupHit' = TRUE
  /\ UNCHANGED <<setup, supervisorPhase, jobs, unread, io, tmp, supervisorCtx, waiter, done>>

(* controller.terminate: the first call starts the goroutine. *)
TerminateJob(c) ==
  /\ call[c] = "queued" /\ once = "no" /\ SupervisorWindows
  /\ once' = "busy" /\ call' = [call EXCEPT ![c] = "inside"]
  /\ term' = IF term = "no" THEN "killing" ELSE term
  /\ UNCHANGED <<setup, supervisorPhase, procs, inJob, termErr, stopErr, unread, io, tmp, supervisorCtx, waiter, done, groupHit>>

(* The controller is done, or the caller's context has ended. *)
TerminateReturns(c) ==
  /\ call[c] = "inside"
  /\ \/ term = "done" /\ stopErr' = IF termErr THEN "failed" ELSE "none"
     \/ stopErr' = "late"
  /\ once' = "did" /\ call' = [call EXCEPT ![c] = "waiting"]
  /\ UNCHANGED <<setup, supervisorPhase, procs, jobs, unread, io, tmp, supervisorCtx, waiter, done, groupHit>>

(* sync.Once holds a second caller until the first has returned. *)
JoinStop(c) ==
  /\ call[c] = "queued" /\ once = "did"
  /\ call' = [call EXCEPT ![c] = "waiting"]
  /\ UNCHANGED <<setup, supervisorPhase, procs, jobs, once, stopErr, unread, io, tmp, supervisorCtx, waiter, done, groupHit>>

(* stopErr goes before the error of the wait. *)
Answer(waited) ==
  IF stopErr \in {"failed", "late"} THEN stopErr ELSE IF waited THEN "reaped" ELSE "late"

(* The wait ends at done or with the caller's context. *)
StopReturns(c) ==
  /\ call[c] = "waiting"
  /\ \E waited \in BOOLEAN :
       /\ waited => done
       /\ call' = [call EXCEPT ![c] = Answer(waited)]
  /\ UNCHANGED <<setup, supervisorPhase, procs, jobs, once, stopErr, unread, io, tmp, supervisorCtx, waiter, done, groupHit>>

SupervisorNext ==
  \/ SupervisorRefuse \/ Build \/ StartHost \/ StartHostFails
  \/ CreateSuspended \/ AssignToJob \/ AssignFails \/ ResumeThread \/ ResumeFails
  \/ \E k \in Kids : SupervisorSpawn(k)
  \/ SupervisorEmit \/ ChildExits \/ Read \/ SupervisorContextEnds \/ CloseIO
  \/ WaitReaps \/ WaitEnds \/ WaitEndsWindows \/ RemoveTemporary \/ KillJob \/ DrainJob
  \/ \E c \in Callers : \/ Stop(c) \/ KillGroup(c) \/ TerminateJob(c) \/ TerminateReturns(c)
                        \/ JoinStop(c) \/ StopReturns(c)

SupervisorSpec == SupervisorInit /\ [][SupervisorNext]_supervisorVars

------------------------------------------------------------------------------
(* Every variable has its type, and the single goroutine that waits for the *)
(* child is there exactly when the child was started.                       *)
SupervisorTypeOK ==
  /\ supervisorPhase \in {"setup", "built", "suspended", "started", "failed"} /\ inJob \in BOOLEAN
  /\ supervisorRoot \in {"none", "suspended", "alive", "dead"}
  /\ supervisorKids \in [Kids -> {"none", "piped", "silent", "escaped", "dead"}]
  /\ unread \in BOOLEAN /\ io \in {"open", "closed"} /\ tmp \in {"none", "made", "removed"}
  /\ supervisorCtx \in {"live", "ended"} /\ waiter \in {"no", "waiting", "reaped", "ended"}
  /\ term \in {"no", "killing", "draining", "done"} /\ termErr \in BOOLEAN
  /\ once \in {"no", "busy", "did"} /\ stopErr \in {"none", "gone", "failed", "late"}
  /\ call \in [Callers -> {"idle", "queued", "inside", "waiting", "reaped", "failed", "late"}]
  /\ done = (waiter = "ended") /\ (supervisorPhase = "started") = (waiter # "no")

(* A start that reports a failure leaves no process, suspended or not, and  *)
(* no temporary directory behind (wrapped.go:71, job_windows.go:163).       *)
FailedStartLeavesNothing ==
  supervisorPhase = "failed" => supervisorRoot \in {"none", "dead"} /\ tmp # "made"

(* A Stop that reports the end of the process is right: the child has been  *)
(* reaped and, if the group was signalled, nobody in the group runs.        *)
StopReportsTheEnd ==
  \A c \in Callers :
    call[c] = "reaped" =>
      /\ done /\ supervisorRoot = "dead"
      /\ groupHit => \A k \in Kids : ~ Grouped(k)

(* The private temporary directory outlives everyone who holds the pipes of *)
(* the child, unless the client has closed them (wrapped.go:79).            *)
TemporaryOutlivesHolders ==
  supervisorPhase = "started" /\ tmp = "removed" => ~ Holders \/ io = "closed"

(* Once Done is closed on Windows nothing of the job is left, whatever the  *)
(* calls of its termination answered (job_windows.go:254).                  *)
JobEndsWithItsChild ==
  SupervisorWindows /\ done => \A k \in Kids : ~ SupervisorAlive(k)

=============================================================================
