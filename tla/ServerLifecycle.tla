--------------------------- MODULE ServerLifecycle ----------------------------
(***************************************************************************)
(* The background server that terminal clients share (cmd/proxy/           *)
(* managed_server.go, main.go).  A client takes the startup lock, probes   *)
(* the endpoint and attaches, or starts a child and waits for it; a lease  *)
(* file that the client touches every second tells the child that it is    *)
(* needed.  The child stops itself when no lease was live for a while, and *)
(* holds the lock while it does; a signal stops it at any time, without.   *)
(***************************************************************************)
EXTENDS Naturals, FiniteSets

CONSTANTS
  Clients,          \* terminal client processes
  Children,         \* child processes that may be started
  NoOne,            \* lock and port: free; server of a client: none
  Suspends          \* whether a client may be suspended past the lease expiry

VARIABLES
  client,           \* client -> out | waiting | probing | starting | attached | failed | crashed | gone
  lease,            \* client -> none | live | expired
  child,            \* client -> the child it started
  server,           \* client -> the child it attached to
  proc,             \* child -> none | boot | up | drain | dead
  watch,            \* child -> busy | idle | lock, the idle watcher
  signalled,        \* history: children that drain on a signal, without the lock
  lock,             \* holder of startup.lock
  port              \* the child that listens

managedVars == <<client, lease, child, server, proc, watch, signalled, lock, port>>

Live == \E c \in Clients : lease[c] = "live"
Running(s) == proc[s] \in {"boot", "up", "drain"}

ManagedInit ==
  /\ client = [c \in Clients |-> "out"] /\ lease = [c \in Clients |-> "none"]
  /\ child = [c \in Clients |-> NoOne] /\ server = [c \in Clients |-> NoOne]
  /\ proc = [s \in Children |-> "none"] /\ watch = [s \in Children |-> "busy"]
  /\ lock = NoOne /\ port = NoOne /\ signalled = {}

------------------------------------------------------------------------------
(* ensureManagedLocalChatServer up to the lock.                             *)
Arrive(c) ==
  /\ client[c] = "out"
  /\ client' = [client EXCEPT ![c] = "waiting"]
  /\ UNCHANGED <<lease, child, server, proc, watch, signalled, lock, port>>

AcquireStartLock(c) ==
  /\ client[c] = "waiting" /\ lock = NoOne
  /\ lock' = c /\ client' = [client EXCEPT ![c] = "probing"]
  /\ UNCHANGED <<lease, child, server, proc, watch, signalled, port>>

LockTimeout(c) ==
  /\ client[c] = "waiting" /\ lock # NoOne
  /\ client' = [client EXCEPT ![c] = "failed"]
  /\ UNCHANGED <<lease, child, server, proc, watch, signalled, lock, port>>

(* The endpoint answers as Corelay: the lease is created under the lock.    *)
ProbeReady(c) ==
  /\ client[c] = "probing" /\ port # NoOne
  /\ lease' = [lease EXCEPT ![c] = "live"]
  /\ client' = [client EXCEPT ![c] = "attached"] /\ server' = [server EXCEPT ![c] = port]
  /\ lock' = NoOne
  /\ UNCHANGED <<child, proc, watch, signalled, port>>

ProbeFails(c) ==
  /\ client[c] = "probing"
  /\ client' = [client EXCEPT ![c] = "failed"] /\ lock' = NoOne
  /\ UNCHANGED <<lease, child, server, proc, watch, signalled, port>>

(* The connection is refused: lease first, then the child.                  *)
StartChild(c, s) ==
  /\ client[c] = "probing" /\ port = NoOne /\ proc[s] = "none"
  /\ lease' = [lease EXCEPT ![c] = "live"]
  /\ client' = [client EXCEPT ![c] = "starting"] /\ child' = [child EXCEPT ![c] = s]
  /\ proc' = [proc EXCEPT ![s] = "boot"]
  /\ UNCHANGED <<server, watch, signalled, lock, port>>

(* The ticker, or the exit of the child, finds the endpoint ready: whoever  *)
(* listens there is the server.                                             *)
BecomesReady(c) ==
  /\ client[c] = "starting" /\ port # NoOne
  /\ client' = [client EXCEPT ![c] = "attached"] /\ server' = [server EXCEPT ![c] = port]
  /\ lock' = NoOne
  /\ UNCHANGED <<lease, child, proc, watch, signalled, port>>

ChildExited(c) ==
  /\ client[c] = "starting" /\ proc[child[c]] = "dead" /\ port = NoOne
  /\ client' = [client EXCEPT ![c] = "failed"] /\ lease' = [lease EXCEPT ![c] = "none"]
  /\ lock' = NoOne
  /\ UNCHANGED <<child, server, proc, watch, signalled, port>>

StartTimeout(c) ==
  /\ client[c] = "starting"
  /\ client' = [client EXCEPT ![c] = "failed"] /\ lease' = [lease EXCEPT ![c] = "none"]
  /\ proc' = [proc EXCEPT ![child[c]] = "dead"]
  /\ port' = IF port = child[c] THEN NoOne ELSE port
  /\ lock' = NoOne
  /\ UNCHANGED <<child, server, watch, signalled>>

(* Lease.Close at the end of a client.                                      *)
Leave(c) ==
  /\ client[c] = "attached"
  /\ client' = [client EXCEPT ![c] = "gone"] /\ lease' = [lease EXCEPT ![c] = "none"]
  /\ UNCHANGED <<child, server, proc, watch, signalled, lock, port>>

(* A client is killed: the system drops its lock, its lease file stays.     *)
Crash(c) ==
  /\ client[c] \in {"waiting", "probing", "starting", "attached"}
  /\ client' = [client EXCEPT ![c] = "crashed"]
  /\ lock' = IF lock = c THEN NoOne ELSE lock
  /\ UNCHANGED <<lease, child, server, proc, watch, signalled, port>>

(* Six seconds without a heartbeat: the client is dead, or was suspended.   *)
LeaseExpires(c) ==
  /\ lease[c] = "live" /\ (client[c] = "crashed" \/ Suspends)
  /\ lease' = [lease EXCEPT ![c] = "expired"]
  /\ UNCHANGED <<client, child, server, proc, watch, signalled, lock, port>>

Heartbeat(c) ==
  /\ lease[c] = "expired" /\ client[c] \in {"starting", "attached"}
  /\ lease' = [lease EXCEPT ![c] = "live"]
  /\ UNCHANGED <<client, child, server, proc, watch, signalled, lock, port>>

------------------------------------------------------------------------------
(* srv.Start, in a goroutine: the port, or log.Fatalf.  A signal may have   *)
(* come before it.                                                          *)
Listen(s) ==
  /\ proc[s] \in {"boot", "drain"} /\ port # s
  /\ IF port = NoOne
     THEN port' = s /\ proc' = [proc EXCEPT ![s] = IF @ = "boot" THEN "up" ELSE @] /\ UNCHANGED lock
     ELSE /\ proc' = [proc EXCEPT ![s] = "dead"] /\ UNCHANGED port
          /\ lock' = IF lock = s THEN NoOne ELSE lock
  /\ UNCHANGED <<client, lease, child, server, watch, signalled>>

(* waitForManagedServerIdleLock, which runs from the start of the process:  *)
(* a look at the leases resets or sets idleSince, a later look after the    *)
(* idle timeout goes for the lock.                                          *)
Look(s) ==
  /\ proc[s] \in {"boot", "up"} /\ watch[s] \in {"busy", "idle"} /\ lock # s
  /\ watch' = [watch EXCEPT ![s] = IF Live THEN "busy" ELSE IF watch[s] = "busy" THEN "idle" ELSE "lock"]
  /\ UNCHANGED <<client, lease, child, server, proc, signalled, lock, port>>

AcquireIdleLock(s) ==
  /\ proc[s] \in {"boot", "up"} /\ watch[s] = "lock" /\ lock = NoOne
  /\ lock' = s
  /\ UNCHANGED <<client, lease, child, server, proc, watch, signalled, port>>

(* The final look, under the lock.                                          *)
Recheck_Skip(s) ==
  /\ lock = s /\ proc[s] \in {"boot", "up"}
  /\ proc' = [proc EXCEPT ![s] = "drain"]
  /\ UNCHANGED <<client, lease, child, server, watch, signalled, lock, port>>

Recheck(s) ==
  /\ lock = s /\ proc[s] \in {"boot", "up"}
  /\ IF Live THEN lock' = NoOne /\ watch' = [watch EXCEPT ![s] = "busy"] /\ UNCHANGED proc
     ELSE proc' = [proc EXCEPT ![s] = "drain"] /\ UNCHANGED <<lock, watch>>
  /\ UNCHANGED <<client, lease, child, server, signalled, port>>

(* SIGTERM, or an interrupt: the watcher is cancelled and waited for, and a *)
(* lock it holds is kept only if no lease is live (main.go:211-276).        *)
Signal(s) ==
  /\ proc[s] \in {"boot", "up"}
  /\ proc' = [proc EXCEPT ![s] = "drain"]
  /\ IF lock = s /\ ~Live
     THEN UNCHANGED <<lock, signalled>>
     ELSE signalled' = signalled \cup {s} /\ lock' = IF lock = s THEN NoOne ELSE lock
  /\ UNCHANGED <<client, lease, child, server, watch, port>>

Drain(s) ==
  /\ proc[s] = "drain"
  /\ proc' = [proc EXCEPT ![s] = "dead"]
  /\ port' = IF port = s THEN NoOne ELSE port
  /\ lock' = IF lock = s THEN NoOne ELSE lock
  /\ UNCHANGED <<client, lease, child, server, watch, signalled>>

Die(s) ==
  /\ Running(s)
  /\ proc' = [proc EXCEPT ![s] = "dead"]
  /\ port' = IF port = s THEN NoOne ELSE port
  /\ lock' = IF lock = s THEN NoOne ELSE lock
  /\ UNCHANGED <<client, lease, child, server, watch, signalled>>

ClientStep(c) ==
  \/ AcquireStartLock(c) \/ LockTimeout(c) \/ ProbeReady(c) \/ ProbeFails(c)
  \/ \E s \in Children : StartChild(c, s)
  \/ BecomesReady(c) \/ ChildExited(c) \/ StartTimeout(c)

ManagedNext ==
  \/ \E c \in Clients :
       \/ Arrive(c) \/ AcquireStartLock(c) \/ LockTimeout(c) \/ ProbeReady(c) \/ ProbeFails(c)
       \/ BecomesReady(c) \/ ChildExited(c) \/ StartTimeout(c)
       \/ Leave(c) \/ Crash(c) \/ LeaseExpires(c) \/ Heartbeat(c)
       \/ \E s \in Children : StartChild(c, s)
  \/ \E s \in Children : Listen(s) \/ Look(s) \/ AcquireIdleLock(s) \/ Recheck(s) \/ Signal(s) \/ Drain(s) \/ Die(s)

ManagedSpec == ManagedInit /\ [][ManagedNext]_managedVars

------------------------------------------------------------------------------
(* The type of the state: the lock is never held by a process that ended.   *)
ManagedTypeOK ==
  /\ client \in [Clients -> {"out", "waiting", "probing", "starting", "attached", "failed", "crashed", "gone"}]
  /\ lease \in [Clients -> {"none", "live", "expired"}]
  /\ \A c \in Clients : lock = c => client[c] \in {"probing", "starting"}
  /\ \A s \in Children : (lock = s => Running(s)) /\ (port = s => proc[s] \in {"up", "drain"})
  /\ signalled \subseteq Children

(* "A client cannot attach to a process that is already shutting down": no  *)
(* attached client's server is draining, although a draining server still   *)
(* answers probes.  The one exception is a server that was sent a signal:   *)
(* it drains with its clients attached and without the startup lock, and    *)
(* accepts more of them until its HTTP server ends.                         *)
NeverAttachedToDraining ==
  \A c \in Clients : client[c] = "attached" =>
    (server[c] \in Children /\ (proc[server[c]] = "drain" => server[c] \in signalled))

(* A client that reports a failed start leaves nothing behind: no lease, no *)
(* lock and no child.                                                       *)
FailedStartLeavesNothing ==
  \A c \in Clients : client[c] = "failed" =>
    /\ lease[c] = "none" /\ lock # c
    /\ (child[c] # NoOne => ~Running(child[c]))

------------------------------------------------------------------------------

(***************************************************************************)
(* corelaycode update (internal/updater, cmd/proxy/update.go): an artifact *)
(* is verified, staged beside the executable, and swapped in by two        *)
(* renames that keep the old executable as a rollback copy.  Every file    *)
(* operation is a step: it may fail, and the process may be killed between *)
(* two of them.  A file holds the old executable, the new one or something *)
(* else ("bad"); a process is the command, or on Windows its helper.       *)
(***************************************************************************)
CONSTANTS
  Procs,            \* update processes
  Contents,         \* what the artifact may turn into before it is staged
  Ops,              \* "install", "rollback": what a user asks for
  MaxOps            \* bound on the operations of a behaviour

None == "none"

VARIABLES
  target, backup,   \* contents of the executable and of target.previous
  source,           \* the artifact
  aside,            \* process -> the temporary sibling of a rollback
  updateProc,             \* process -> [op, at, staged, was, result]
  ops               \* operations started

updateVars == <<target, backup, source, aside, updateProc, ops>>

Idle == [op |-> "none", at |-> "idle", staged |-> None, was |-> None, result |-> "none"]

UpdateInit ==
  /\ target = "old" /\ backup = None /\ source = "new"
  /\ aside = [p \in Procs |-> None] /\ updateProc = [p \in Procs |-> Idle]
  /\ ops = 0

Go(p, at) == updateProc' = [updateProc EXCEPT ![p].at = at]
End(p, r) == updateProc' = [updateProc EXCEPT ![p].at = "idle", ![p].result = r, ![p].staged = None]
Resting(p) == updateProc[p].at = "idle"

------------------------------------------------------------------------------
(* runUpdate, or the helper once its parent has ended.                      *)
Begin(p, op) ==
  /\ Resting(p) /\ ops < MaxOps
  /\ ops' = ops + 1
  /\ updateProc' = [updateProc EXCEPT ![p] = [Idle EXCEPT !.op = op, !.was = target,
                                    !.at = IF op = "install" THEN "verify" ELSE "prepare"]]
  /\ UNCHANGED <<target, backup, source, aside>>

(* The artifact is not locked: it may change at any time.                   *)
ChangeSource(v) ==
  /\ source # v /\ source' = v
  /\ UNCHANGED <<target, backup, aside, updateProc, ops>>

(* VerifyArtifact, and the backup must not exist.                           *)
Verify(p) ==
  /\ updateProc[p].at = "verify"
  /\ IF source = "new" THEN Go(p, "inspect") ELSE End(p, "error")
  /\ UNCHANGED <<target, backup, source, aside, ops>>

Inspect(p) ==
  /\ updateProc[p].at = "inspect"
  /\ IF target # None /\ backup = None THEN Go(p, "stage") ELSE End(p, "error")
  /\ UNCHANGED <<target, backup, source, aside, ops>>

(* stage copies the artifact as it is now.                                  *)
Stage(p, ok) ==
  /\ updateProc[p].at = "stage"
  /\ IF ok THEN updateProc' = [updateProc EXCEPT ![p].at = "moveOld", ![p].staged = source] ELSE End(p, "error")
  /\ UNCHANGED <<target, backup, source, aside, ops>>

MoveOld(p, ok) ==
  /\ updateProc[p].at = "moveOld"
  /\ IF ok /\ target # None
     THEN backup' = target /\ target' = None /\ Go(p, "moveNew")
     ELSE End(p, "error") /\ UNCHANGED <<target, backup>>
  /\ UNCHANGED <<source, aside, ops>>

MoveNew(p, ok) ==
  /\ updateProc[p].at = "moveNew"
  /\ IF ok THEN target' = updateProc[p].staged /\ Go(p, "check")
     ELSE Go(p, "restore") /\ UNCHANGED target
  /\ UNCHANGED <<source, backup, aside, ops>>

Check(p) ==
  /\ updateProc[p].at = "check"
  /\ IF target = "new" THEN End(p, "installed") /\ UNCHANGED target
     ELSE Go(p, "restore") /\ target' = None
  /\ UNCHANGED <<source, backup, aside, ops>>

(* The rename of the backup to the target; ErrRollback when it fails.       *)
Restore(p, ok) ==
  /\ updateProc[p].at = "restore"
  /\ IF ok /\ backup # None
     THEN target' = backup /\ backup' = None /\ End(p, "error")
     ELSE End(p, "uncertain") /\ UNCHANGED <<target, backup>>
  /\ UNCHANGED <<source, aside, ops>>

------------------------------------------------------------------------------
(* Rollback: the current executable steps aside, the backup takes its       *)
(* place, and the old one is removed or put back.                           *)
Prepare(p) ==
  /\ updateProc[p].at = "prepare"
  /\ IF backup # None THEN Go(p, "setAside") ELSE End(p, "error")
  /\ UNCHANGED <<target, backup, source, aside, ops>>

SetAside(p, ok) ==
  /\ updateProc[p].at = "setAside"
  /\ IF ok \/ target = None
     THEN aside' = [aside EXCEPT ![p] = target] /\ target' = None /\ Go(p, "bringBack")
     ELSE End(p, "error") /\ UNCHANGED <<target, aside>>
  /\ UNCHANGED <<backup, source, ops>>

BringBack(p, ok, putBack) ==
  /\ updateProc[p].at = "bringBack"
  /\ IF ok /\ backup # None
     THEN /\ target' = backup /\ backup' = None /\ End(p, "rolledBack")
          /\ aside' = [aside EXCEPT ![p] = None]
     ELSE /\ IF putBack /\ aside[p] # None
             THEN target' = aside[p] /\ aside' = [aside EXCEPT ![p] = None]
             ELSE UNCHANGED <<target, aside>>
          /\ End(p, "error") /\ UNCHANGED backup
  /\ UNCHANGED <<source, ops>>

(* The process is killed; the staged file stays as litter.                  *)
Kill(p) ==
  /\ ~Resting(p)
  /\ End(p, "killed")
  /\ UNCHANGED <<target, backup, source, aside, ops>>

UpdateNext ==
  \/ \E v \in Contents : ChangeSource(v)
  \/ \E p \in Procs :
       \/ \E op \in Ops : Begin(p, op)
       \/ Verify(p) \/ Inspect(p) \/ Check(p) \/ Prepare(p) \/ Kill(p)
       \/ \E ok \in BOOLEAN :
            \/ Stage(p, ok) \/ MoveOld(p, ok) \/ MoveNew(p, ok) \/ Restore(p, ok)
            \/ SetAside(p, ok) \/ \E putBack \in BOOLEAN : BringBack(p, ok, putBack)

UpdateSpec == UpdateInit /\ [][UpdateNext]_updateVars

------------------------------------------------------------------------------
(* The type of the state: an operation that rests has nothing staged.       *)
UpdateTypeOK ==
  /\ {target, backup} \cup {aside[p] : p \in Procs} \subseteq {"old", "new", "bad", None}
  /\ \A p \in Procs :
       /\ updateProc[p].result \in {"none", "error", "installed", "rolledBack", "uncertain", "killed"}
       /\ (updateProc[p].staged # None => updateProc[p].at \in {"moveOld", "moveNew", "check", "restore"})

(* "The transaction keeps the previous executable as a rollback point": at  *)
(* no point of an install or a rollback, whatever fails and wherever the    *)
(* process is killed, is the original executable gone from both places.     *)
OriginalKept == "old" \in {target, backup}

(* A failed install leaves "the current executable unchanged", and one that *)
(* reports success has installed the verified artifact and kept a copy of   *)
(* what it replaced, even if the artifact changed after it was verified.    *)
OutcomeIsTrue ==
  \A p \in Procs : (Resting(p) /\ updateProc[p].op = "install" /\ \A q \in Procs \ {p} : updateProc[q] = Idle) =>
    /\ (updateProc[p].result = "error" => target = updateProc[p].was)
    /\ (updateProc[p].result = "installed" => target = "new" /\ backup = updateProc[p].was)

=============================================================================
