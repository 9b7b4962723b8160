----------------------------- MODULE ProxyRequest -----------------------------
(***************************************************************************)
(* Requests through the proxy (handleCanonicalProtocol in                  *)
(* internal/server/server.go): the choice of an account with the lease of  *)
(* the session (runtime_target.go, runtimeplane/lease_store.go), attempts  *)
(* with retries and a fallback model, and what they teach the telemetry.   *)
(* Quota sources report snapshots concurrently (quota_collector.go).       *)
(*                                                                         *)
(* Accounts are numbers, all of one group.  A session has one lease.       *)
(***************************************************************************)
EXTENDS Integers, Sequences, FiniteSets

(***************************************************************************)
(* What the proxy knows of an account (internal/runtimeplane/telemetry.go) *)
(* and how an observation changes it.  Times are ticks, 0 is the zero time.*)
(* Usage samples are left out: without a limit they weigh nothing.         *)
(***************************************************************************)
CONSTANTS HardCooldown,  \* after a 429
          AvoidLadder,   \* ticks of soft avoidance, by level
          RecoverySuccesses

Later(a, b) == IF a > b THEN a ELSE b

NewAccount(now) ==
  [healthy |-> TRUE, observedAt |-> now, snapshotAt |-> 0, cooldownUntil |-> 0,
   avoidUntil |-> 0, level |-> 0, streak |-> 0, five |-> 0]

\* applyFailureState; an answer that is no failure changes nothing.
FailureState_Forgets(t, code, now) ==
  [t EXCEPT !.level = IF code >= 500 /\ @ < Len(AvoidLadder) THEN @ + 1 ELSE @,
            !.cooldownUntil = IF code = 429 THEN now + HardCooldown ELSE 0]
FailureState(t, code, now) ==
  CASE code \in {401, 403} -> [t EXCEPT !.healthy = FALSE, !.streak = 0]
    [] code = 429 -> [t EXCEPT !.healthy = TRUE, !.streak = 0,
                               !.cooldownUntil = Later(@, now + HardCooldown)]
    [] code >= 500 ->
         LET level == IF t.level < Len(AvoidLadder) THEN t.level + 1 ELSE t.level
         IN [t EXCEPT !.healthy = TRUE, !.streak = 0, !.level = level,
                      !.avoidUntil = Later(@, now + AvoidLadder[level])]
    [] OTHER -> t

RecordFailure(t, code, now) == FailureState([t EXCEPT !.observedAt = now], code, now)

\* retryAfter: the cooldown a header asks for, 0 for none.
RecordResponse(t, code, retryAfter, now) ==
  FailureState([t EXCEPT !.observedAt = now,
                         !.cooldownUntil = IF retryAfter > now THEN Later(@, retryAfter) ELSE @],
               code, now)

RecordSuccess(t, now) ==
  LET r == [t EXCEPT !.observedAt = now, !.healthy = TRUE]
  IN IF t.level = 0 THEN r
     ELSE IF t.level = 1 \/ t.streak + 1 >= RecoverySuccesses
     THEN [r EXCEPT !.level = 0, !.streak = 0, !.avoidUntil = 0]
     ELSE [r EXCEPT !.streak = @ + 1]

Accepts(t, s) == s.observedAt >= t.snapshotAt

RecordAccountSnapshot(t, s) ==
  IF ~Accepts(t, s) THEN t
  ELSE [t EXCEPT !.snapshotAt = s.observedAt,
                 !.healthy = IF ~s.healthy \/ @ THEN s.healthy ELSE @,
                 !.observedAt = Later(@, s.observedAt),
                 !.cooldownUntil = Later(@, s.cooldownUntil),
                 !.five = s.five]

\* Merge: the account the scheduler sees.
Merge(t, id, now) ==
  LET until == Later(t.cooldownUntil, t.avoidUntil)
  IN [id |-> id, group |-> "g", healthy |-> t.healthy,
      cooldownUntil |-> IF until > now THEN until ELSE 0,
      observedAt |-> Later(now, t.observedAt), allowStale |-> TRUE,
      five |-> t.five, rate |-> -1, seven |-> 0, resetAt |-> 0]

------------------------------------------------------------------------------
(***************************************************************************)
(* The choice of an account (internal/runtimeplane/scheduler.go), a pure   *)
(* function of a snapshot.  Utilization is in percent, times are days, and *)
(* a score is multiplied by the seven days of the quota period, so that    *)
(* all of the arithmetic of the code is exact here.                        *)
(***************************************************************************)
FiveHourMax == 90
SevenDayMax == 99
UrgencyMax == 4
Period == 7

Clamp(v) == IF v < 0 THEN 0 ELSE IF v > 100 THEN 100 ELSE v
Headroom(max, utilization) == Clamp(max - utilization)
Min2(a, b) == IF a < b THEN a ELSE b

\* Seven times the urgency: from 1, a whole period before the reset, to
\* UrgencyMax when the quota is about to be renewed; 0 is no known reset.
Urgency(resetAt, now) ==
  IF resetAt = 0 \/ resetAt - now >= Period THEN Period
  ELSE IF resetAt <= now THEN Period * UrgencyMax
  ELSE Period + (Period - (resetAt - now)) * (UrgencyMax - 1)

\* rate = -1: no rate limit is known.
AccountScore(a, now) ==
  LET five == Headroom(FiveHourMax, a.five)
      rate == IF a.rate < 0 THEN five ELSE Min2(five, Headroom(FiveHourMax, a.rate))
  IN Min2(rate, Headroom(SevenDayMax, a.seven)) * Urgency(a.resetAt, now)

Gate(a, now, staleAfter) ==
  IF ~a.healthy THEN "auth unhealthy"
  ELSE IF a.cooldownUntil > now THEN "cooldown"
  ELSE IF a.five > FiveHourMax \/ a.rate > FiveHourMax \/ a.seven > SevenDayMax THEN "quota gated"
  ELSE IF ~a.allowStale /\ a.observedAt # 0 /\ now - a.observedAt > staleAfter THEN "usage stale"
  ELSE "none"

Eligible(a, now, staleAfter) == Gate(a, now, staleAfter) = "none"

RankLess(a, b, now) ==
  LET sa == AccountScore(a, now)
      sb == AccountScore(b, now)
  IN \/ sa > sb
     \/ sa = sb /\ a.five < b.five
     \/ sa = sb /\ a.five = b.five /\ a.resetAt # b.resetAt
          /\ a.resetAt # 0 /\ (b.resetAt = 0 \/ a.resetAt < b.resetAt)
     \/ sa = sb /\ a.five = b.five /\ a.resetAt = b.resetAt /\ a.id < b.id

WithinMargin(best, current) == 4 * best <= 5 * current

StaleRotation(S, current) ==
  IF S = {} THEN [action |-> "none", id |-> 0]
  ELSE LET first == CHOOSE a \in S : \A b \in S : a.id <= b.id
           after == {a \in S : a.id > current}
           next == IF (\E a \in S : a.id = current) /\ after # {}
                   THEN CHOOSE a \in after : \A b \in after : a.id <= b.id
                   ELSE first
       IN [action |-> IF next.id = current THEN "stay" ELSE "switch", id |-> next.id]

SelectAccount(accounts, current, group, now, staleAfter) ==
  LET own == {a \in accounts : a.group = group}
      candidates == {a \in own : Eligible(a, now, staleAfter)}
      best == CHOOSE a \in candidates : \A b \in candidates \ {a} : RankLess(a, b, now)
      mine == {a \in candidates : a.id = current}
  IN IF candidates = {}
     THEN StaleRotation({a \in own : Gate(a, now, staleAfter) = "usage stale"}, current)
     ELSE IF \E a \in mine : a = best
                             \/ WithinMargin(AccountScore(best, now), AccountScore(a, now))
     THEN [action |-> "stay", id |-> current]
     ELSE [action |-> "switch", id |-> best.id]

------------------------------------------------------------------------------
CONSTANTS Accounts, Sessions, Requests, Sources,
          SessionOf,        \* request -> session
          LeaseTTL, ReevalInterval,
          MaxRetries,       \* attempts of a request
          Max529,           \* 529s before the fallback model
          Codes,            \* answers of the upstream that occur
          SnapshotUses,     \* utilizations that quota sources report
          Repeats,          \* whether clients send again
          MaxTime           \* bound

VARIABLES now,
          tele,       \* account -> telemetry
          lease,      \* session -> lease, NoLease if there is none
          req,        \* request -> its local state
          collecting, \* source -> the snapshot it has read, with its account
          level0,     \* history: request -> level of its account before the attempt
          row529,     \* history: request -> 529s in a row
          okRun       \* history: account -> successes since its last failure
vars == <<now, tele, lease, req, collecting, level0, row529, okRun>>

NoLease == [account |-> 0, at |-> 0]
None == [at |-> 0]
Ready == [pc |-> "new", at |-> 0, view |-> {}, lease |-> NoLease, account |-> 0, attempt |-> 0,
          code |-> 0, count529 |-> 0, fallbackModel |-> FALSE]

TypeOK ==
  /\ now \in 1 .. MaxTime
  /\ tele \in [Accounts -> [healthy : BOOLEAN, observedAt : Nat, snapshotAt : Nat,
                            cooldownUntil : Nat, avoidUntil : Nat, level : 0 .. Len(AvoidLadder),
                            streak : 0 .. RecoverySuccesses - 1, five : SnapshotUses \cup {0}]]
  /\ lease \in [Sessions -> [account : Accounts \cup {0}, at : 0 .. MaxTime]]
  /\ \A r \in Requests :
       /\ req[r].pc \in {"new", "lease", "drop", "select", "send", "failed", "backoff",
                         "stream", "fallback", "done"}
       /\ req[r].attempt \in 0 .. MaxRetries
       /\ req[r].count529 \in 0 .. MaxRetries

Init ==
  /\ now = 1
  /\ tele = [a \in Accounts |-> NewAccount(1)]
  /\ lease = [s \in Sessions |-> NoLease]
  /\ req = [r \in Requests |-> Ready]
  /\ collecting = [s \in Sources |-> None]
  /\ level0 = [r \in Requests |-> 0]
  /\ row529 = [r \in Requests |-> 0]
  /\ okRun = [a \in Accounts |-> 0]

Tick ==
  /\ now < MaxTime
  /\ now' = now + 1
  /\ UNCHANGED <<tele, lease, req, collecting, level0, row529, okRun>>

-----------------------------------------------------------------------------
(* selectDirectRuntimeProviderName                                         *)

Step(r, f) == req' = [req EXCEPT ![r] = f]

Arrive(r) ==
  /\ req[r].pc = "new"
  /\ Step(r, [req[r] EXCEPT !.pc = "lease", !.at = now,
                            !.view = {Merge(tele[a], a, now) : a \in Accounts}])
  /\ UNCHANGED <<now, tele, lease, collecting, level0, row529, okRun>>

LeaseExpired(l, at) == l.at + LeaseTTL <= at

\* LeaseStore.Current reads under the read lock ...
ReadLease(r) ==
  LET l == lease[SessionOf[r]]
  IN /\ req[r].pc = "lease"
     /\ Step(r, IF l # NoLease /\ LeaseExpired(l, req[r].at) THEN [req[r] EXCEPT !.pc = "drop"]
                ELSE [req[r] EXCEPT !.pc = "select", !.lease = l])
     /\ UNCHANGED <<now, tele, lease, collecting, level0, row529, okRun>>

\* ... and drops the key under the write lock afterwards.
DropLease(r) ==
  /\ req[r].pc = "drop"
  /\ lease' = [lease EXCEPT ![SessionOf[r]] = NoLease]
  /\ Step(r, [req[r] EXCEPT !.pc = "select"])
  /\ UNCHANGED <<now, tele, collecting, level0, row529, okRun>>

InView(r, id) == CHOOSE a \in req[r].view : a.id = id

\* The leased account is kept between two scheduler passes while it is usable.
KeepsLease_Blindly(r) ==
  req[r].lease # NoLease /\ req[r].at - req[r].lease.at < ReevalInterval
KeepsLease(r) ==
  /\ req[r].lease # NoLease
  /\ req[r].at - req[r].lease.at < ReevalInterval
  /\ Eligible(InView(r, req[r].lease.account), req[r].at, MaxTime)

\* The account of the target's own provider is the current one without a lease.
DefaultAccount == CHOOSE a \in Accounts : \A b \in Accounts : a <= b

SendTo(r, account) ==
  /\ Step(r, [req[r] EXCEPT !.pc = "send", !.account = account, !.attempt = 1])
  /\ level0' = [level0 EXCEPT ![r] = tele[account].level]

StayOnLease(r) ==
  /\ req[r].pc = "select" /\ KeepsLease(r)
  /\ SendTo(r, req[r].lease.account)
  /\ UNCHANGED <<now, tele, lease, collecting, row529, okRun>>

Schedule(r) ==
  LET current == IF req[r].lease = NoLease THEN DefaultAccount ELSE req[r].lease.account
      d == SelectAccount(req[r].view, current, "g", req[r].at, MaxTime)
      l == [account |-> d.id, at |-> req[r].at]
  IN /\ req[r].pc = "select" /\ ~KeepsLease(r)
     /\ IF d.id = 0
        THEN SendTo(r, DefaultAccount) /\ UNCHANGED lease
        ELSE /\ SendTo(r, d.id)
             /\ lease' = [lease EXCEPT ![SessionOf[r]] = l]
     /\ UNCHANGED <<now, tele, collecting, row529, okRun>>

-----------------------------------------------------------------------------
(* The attempts.  Code 0 is an error without an HTTP status.               *)

\* The provider reports the status and the headers of every answer it gets.
Answer(r, code, retryAfter) ==
  LET a == req[r].account
  IN /\ req[r].pc = "send"
     /\ tele' = IF code = 0 THEN tele
                ELSE [tele EXCEPT ![a] = RecordResponse(@, code, retryAfter, now)]
     /\ okRun' = IF code \in {0, 200} THEN okRun ELSE [okRun EXCEPT ![a] = 0]
     /\ Step(r, [req[r] EXCEPT !.pc = IF code = 200 THEN "stream" ELSE "failed", !.code = code])
     /\ UNCHANGED <<now, lease, collecting, level0, row529>>

Counted529(r, n) == IF n >= Max529 /\ ~req[r].fallbackModel THEN 0 ELSE n

\* StreamMessage returned an error: it is recorded, 529s are counted and the
\* model may be exchanged for its fallback.
AttemptFails(r) ==
  LET n == IF req[r].code = 529 THEN req[r].count529 + 1 ELSE req[r].count529
      a == req[r].account
  IN /\ req[r].pc = "failed"
     /\ tele' = IF req[r].code = 0 THEN tele
                ELSE [tele EXCEPT ![a] = RecordFailure(@, req[r].code, now)]
     /\ Step(r, [req[r] EXCEPT
                   !.pc = IF req[r].attempt < MaxRetries THEN "backoff" ELSE "fallback",
                   !.count529 = Counted529(r, n),
                   !.fallbackModel = @ \/ n >= Max529])
     /\ row529' = [row529 EXCEPT ![r] = IF req[r].code = 529 THEN @ + 1 ELSE 0]
     /\ UNCHANGED <<now, lease, collecting, level0, okRun>>

Retry(r) ==
  /\ req[r].pc = "backoff"
  /\ Step(r, [req[r] EXCEPT !.pc = "send", !.attempt = @ + 1])
  /\ level0' = [level0 EXCEPT ![r] = tele[req[r].account].level]
  /\ UNCHANGED <<now, tele, lease, collecting, row529, okRun>>

ClientGone(r) ==
  /\ req[r].pc = "backoff"
  /\ Step(r, [req[r] EXCEPT !.pc = "done"])
  /\ UNCHANGED <<now, tele, lease, collecting, level0, row529, okRun>>

\* The router, if there is one, names another account for one more attempt.
Fallback(r, a, code) ==
  /\ req[r].pc = "fallback"
  /\ tele' = IF code = 0 THEN tele
             ELSE IF code = 200 THEN [tele EXCEPT ![a] = RecordResponse(@, code, 0, now)]
             ELSE [tele EXCEPT ![a] = RecordFailure(RecordResponse(@, code, 0, now), code, now)]
  /\ okRun' = IF code \in {0, 200} THEN okRun ELSE [okRun EXCEPT ![a] = 0]
  /\ Step(r, [req[r] EXCEPT !.pc = IF code = 200 THEN "stream" ELSE "done", !.account = a])
  /\ UNCHANGED <<now, lease, collecting, level0, row529>>

GiveUp(r) ==
  /\ req[r].pc = "fallback"
  /\ Step(r, [req[r] EXCEPT !.pc = "done"])
  /\ UNCHANGED <<now, tele, lease, collecting, level0, row529, okRun>>

\* The stream was written; one that breaks teaches the telemetry nothing.
StreamEnds(r, ok) ==
  LET a == req[r].account
  IN /\ req[r].pc = "stream"
     /\ tele' = IF ok THEN [tele EXCEPT ![a] = RecordSuccess(@, now)] ELSE tele
     /\ okRun' = IF ok THEN [okRun EXCEPT ![a] = @ + 1] ELSE okRun
     /\ Step(r, [req[r] EXCEPT !.pc = "done"])
     /\ UNCHANGED <<now, lease, collecting, level0, row529>>

-----------------------------------------------------------------------------
(* collectSource: the time is taken before the source is read.             *)

ReadSource(s, a, healthy, five) ==
  /\ collecting[s] = None
  /\ collecting' = [collecting EXCEPT ![s] =
       [at |-> now, account |-> a,
        snapshot |-> [observedAt |-> now, healthy |-> healthy, cooldownUntil |-> 0, five |-> five]]]
  /\ UNCHANGED <<now, tele, lease, req, level0, row529, okRun>>

ApplySource(s) ==
  LET c == collecting[s]
  IN /\ c # None
     /\ tele' = [tele EXCEPT ![c.account] = RecordAccountSnapshot(@, c.snapshot)]
     /\ collecting' = [collecting EXCEPT ![s] = None]
     /\ UNCHANGED <<now, lease, req, level0, row529, okRun>>

\* The next request of the same client.
Again(r) ==
  /\ req[r].pc = "done" /\ Repeats
  /\ Step(r, Ready)
  /\ row529' = [row529 EXCEPT ![r] = 0]
  /\ UNCHANGED <<now, tele, lease, collecting, level0, okRun>>

RequestStep(r) ==
  \/ Arrive(r) \/ ReadLease(r) \/ DropLease(r) \/ StayOnLease(r) \/ Schedule(r)
  \/ \E c \in Codes : Answer(r, c, 0) \/ (c = 429 /\ Answer(r, c, now + 1))
  \/ AttemptFails(r) \/ Retry(r) \/ ClientGone(r) \/ GiveUp(r)
  \/ \E a \in Accounts, c \in Codes : Fallback(r, a, c)
  \/ \E ok \in BOOLEAN : StreamEnds(r, ok)

SourceStep ==
  \E s \in Sources : \/ ApplySource(s)
                     \/ \E a \in Accounts, h \in BOOLEAN, u \in SnapshotUses : ReadSource(s, a, h, u)

Next == Tick \/ SourceStep \/ \E r \in Requests : RequestStep(r) \/ Again(r)

Spec == Init /\ [][Next]_vars

-----------------------------------------------------------------------------
\* "A hard quota cooldown only expires with time; a later success does not
\* clear it": no observation, success, snapshot or failure shortens it.
CooldownsStand ==
  \A a \in Accounts : tele'[a].cooldownUntil >= tele[a].cooldownUntil

\* Observations of quota sources are applied in the order of their times,
\* although a slow source may finish after a faster one.
SnapshotsInOrder ==
  \A s \in Sources :
    collecting[s] # None /\ collecting'[s] = None /\ tele' # tele =>
      collecting[s].snapshot.observedAt >= tele[collecting[s].account].snapshotAt

\* "a flapping upstream cannot bounce straight back into rotation": an
\* account beyond the first level returns only after enough successes in a
\* row, whoever's requests they were.
RecoveryIsEarned ==
  \A a \in Accounts :
    tele[a].level > 1 /\ tele'[a].level = 0 => okRun'[a] >= RecoverySuccesses

\* No request is sent to an account that its own view of the accounts rules
\* out while another one is usable, leased or not.
SentToUsable ==
  \A r \in Requests :
    req[r].pc = "send" /\ req[r].attempt = 1 /\ (\E a \in req[r].view : Eligible(a, req[r].at, MaxTime))
    => Eligible(InView(r, req[r].account), req[r].at, MaxTime)

=============================================================================
