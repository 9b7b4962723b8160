---------------------------- MODULE SessionContent ----------------------------
(***************************************************************************)
(* The blob store beside each durable session (agent/session_memory.go):   *)
(* uploaded images and large tool results, named by their digest, and the  *)
(* operations of the session store and of a durable run that keep it and   *)
(* the transcript together: preparing, committing and discarding images,   *)
(* storing results, saving, forking and deleting.                          *)
(*                                                                         *)
(* A blob is its digest; a file that fails verification is not modelled    *)
(* and neither are sizes: a quota counts blobs.  At most one run works on  *)
(* a session (the gate of DurableRun).  The store lock is held over every  *)
(* operation of the session store; the lock of a namespace over every      *)
(* operation of the blob store, which is one step here.                    *)
(***************************************************************************)
EXTENDS Integers, Sequences, SequencesExt, FiniteSets

CONSTANTS
  Sessions,      \* session identifiers; First exists, the others are for forks
  First,
  Runners,       \* the sessions that runs are started on
  Images, Results,  \* digests
  MaxImages, MaxResults, \* quotas of a namespace
  MaxRevision,   \* bound on saves
  Crashes,       \* bound on crashes of the process
  Faults         \* bound on I/O errors

VARIABLES
  session,   \* the transcript file of each session: what it refers to
  dir,       \* the namespace of each session
  run,       \* the durable run on each session
  op,        \* the operation that holds the store lock
  crashes, faults,
  inherited  \* history: what a fork found committed in its parent

memoryVars == <<session, dir, run, op, crashes, faults, inherited>>

NoSession == [here |-> FALSE, rev |-> 0, images |-> {}, results |-> {}]
NoDir == [here |-> FALSE, images |-> {}, results |-> {}, temps |-> 0]
NoRun == [pc |-> "none", rev |-> 0, upload |-> {}, images |-> {}, seen |-> {}, stored |-> {}]
NoOp == [what |-> "none"]

MemoryInit ==
  /\ session = [s \in Sessions |-> IF s = First THEN [NoSession EXCEPT !.here = TRUE, !.rev = 1] ELSE NoSession]
  /\ dir = [s \in Sessions |-> NoDir]
  /\ run = [s \in Sessions |-> NoRun]
  /\ op = NoOp
  /\ crashes = 0 /\ faults = 0
  /\ inherited = [s \in Sessions |-> NoSession]

Unlocked == op = NoOp
Fault == faults < Faults /\ faults' = faults + 1
At(s, pc) == run[s].pc = pc
Go(s, r) == run' = [run EXCEPT ![s] = r]
SetDir(s, d) == dir' = [dir EXCEPT ![s] = d]
-----------------------------------------------------------------------------
(* The blob store. *)

Full(held, max) == Cardinality(held) >= max

(* storeImageBlobLocked and storeBlobLocked: a blob that is there is kept, a *)
(* new one needs room, a directory that is gone refuses.                     *)
AcceptsImage(s, i) == dir[s].here /\ (i \in dir[s].images \/ ~ Full(dir[s].images, MaxImages))
AcceptsResult(s, r) == dir[s].here /\ (r \in dir[s].results \/ ~ Full(dir[s].results, MaxResults))

CleanupUnreferenced(d, referenced) == [d EXCEPT !.images = @ \cap referenced]
-----------------------------------------------------------------------------
(* A durable run. *)

(* prepareDurableAgentRun: the session and its namespace, under the store lock. *)
Prepare(s) ==
  /\ s \in Runners /\ Unlocked /\ At(s, "none") /\ session[s].here
  /\ \E u \in SUBSET Images :
       Go(s, [NoRun EXCEPT !.pc = "upload", !.rev = session[s].rev, !.upload = u])
  /\ SetDir(s, [dir[s] EXCEPT !.here = TRUE])
  /\ UNCHANGED <<session, op, crashes, faults, inherited>>

(* PrepareImages: store each image of the turn; the first failure gives up. *)
StoreImage(s) ==
  /\ At(s, "upload")
  /\ \E i \in run[s].upload \ run[s].images :
       \/ /\ AcceptsImage(s, i)
          /\ SetDir(s, [dir[s] EXCEPT !.images = @ \cup {i}])
          /\ Go(s, [run[s] EXCEPT !.images = @ \cup {i}])
          /\ UNCHANGED faults
       \/ /\ IF AcceptsImage(s, i) THEN Fault ELSE UNCHANGED faults
          /\ Go(s, [run[s] EXCEPT !.pc = "reject"])
          /\ UNCHANGED dir
  /\ UNCHANGED <<session, op, crashes, inherited>>

(* hydrateDurableImageHistory and the budget of the history. *)
Hydrate(s) ==
  /\ At(s, "upload") /\ run[s].upload = run[s].images
  /\ \/ /\ session[s].images \cup run[s].images \subseteq dir[s].images
        /\ Go(s, [run[s] EXCEPT !.pc = IF run[s].images = {} THEN "running" ELSE "prepared"])
     \/ Go(s, [run[s] EXCEPT !.pc = "reject"])
  /\ UNCHANGED <<session, dir, op, crashes, faults, inherited>>

(* The preflight of the Plan fails: DiscardPreparedImages. *)
PreflightFails(s) ==
  /\ At(s, "prepared")
  /\ Go(s, [run[s] EXCEPT !.pc = "reject"])
  /\ UNCHANGED <<session, dir, op, crashes, faults, inherited>>

(* ValidateImageReferences: every image of the candidate loads. *)
Loads(s, images) == images \subseteq dir[s].images

Save(s, images, results) ==
  session' = [session EXCEPT ![s].rev = @ + 1, ![s].images = @ \cup images, ![s].results = @ \cup results]

(* SaveExpected with the revision the run knows. *)
Current(s) == session[s].here /\ session[s].rev = run[s].rev

(* CommitImages.  A save may be published and yet report an error: the old  *)
(* file of a moved session cannot be removed, and neither can the new one.  *)
CommitImages(s) ==
  /\ At(s, "prepared") /\ Unlocked
  /\ \/ /\ Current(s) /\ Loads(s, run[s].images) /\ session[s].rev < MaxRevision
        /\ Save(s, run[s].images, {})
        /\ \/ Go(s, [run[s] EXCEPT !.pc = "running", !.rev = @ + 1]) /\ UNCHANGED faults
           \/ Go(s, [run[s] EXCEPT !.pc = "reject"]) /\ Fault
     \/ /\ \/ ~ (Current(s) /\ Loads(s, run[s].images)) /\ UNCHANGED faults
           \/ Fault
        /\ Go(s, [run[s] EXCEPT !.pc = "reject"])
        /\ UNCHANGED session
  /\ UNCHANGED <<dir, op, crashes, inherited>>

(* cleanupUnreferencedImages reads the transcript that is stored now ...    *)
ReadCurrent(s) ==
  /\ At(s, "reject") /\ Unlocked
  /\ IF session[s].here
     THEN Go(s, [run[s] EXCEPT !.pc = "clean", !.seen = session[s].images])
     ELSE Go(s, NoRun)
  /\ UNCHANGED <<session, dir, op, crashes, faults, inherited>>

(* ... and removes the images it does not name; an error is only reported. *)
Clean(s) ==
  /\ At(s, "clean")
  /\ \/ SetDir(s, CleanupUnreferenced(dir[s], run[s].seen)) /\ UNCHANGED faults
     \/ /\ Fault
        /\ \E left \in SUBSET dir[s].images : SetDir(s, CleanupUnreferenced(dir[s], run[s].seen \cup left))
  /\ Go(s, NoRun)
  /\ UNCHANGED <<session, op, crashes, inherited>>

(* persistSuccessfulToolResult: a result that cannot be stored is an error  *)
(* of the tool, and its reference never reaches the transcript.             *)
StoreResult(s) ==
  /\ At(s, "running")
  /\ \E r \in Results \ run[s].stored :
       /\ AcceptsResult(s, r)
       /\ SetDir(s, [dir[s] EXCEPT !.results = @ \cup {r}])
       /\ Go(s, [run[s] EXCEPT !.stored = @ \cup {r}])
  /\ UNCHANGED <<session, op, crashes, faults, inherited>>

(* The commit of the run: a revision that moved on loses its results. *)
CommitRun(s) ==
  /\ At(s, "running") /\ Unlocked
  /\ \/ Current(s) /\ session[s].rev < MaxRevision /\ Save(s, {}, run[s].stored)
     \/ ~ Current(s) /\ UNCHANGED session
  /\ Go(s, NoRun)
  /\ UNCHANGED <<dir, op, crashes, faults, inherited>>

(* Another client renames the session. *)
Rename(s) ==
  /\ Unlocked /\ session[s].here /\ session[s].rev < MaxRevision
  /\ session' = [session EXCEPT ![s].rev = @ + 1]
  /\ UNCHANGED <<dir, run, op, crashes, faults, inherited>>
-----------------------------------------------------------------------------
(* Fork: the child gets what the parent's transcript names, results first. *)

Fresh(c) == ~ session[c].here /\ session[c].rev = 0 /\ ~ dir[c].here

ForkBegin(p, c) ==
  /\ Unlocked /\ session[p].here /\ Fresh(c)
  /\ op' = [what |-> "fork", from |-> p, to |-> c, at |-> "results"]
  /\ inherited' = [inherited EXCEPT ![c] = session[p]]
  /\ dir' = [dir EXCEPT ![p].here = TRUE, ![c].here = TRUE]
  /\ UNCHANGED <<session, run, crashes, faults>>

ForkFails == /\ dir' = [dir EXCEPT ![op.to] = NoDir]
             /\ op' = NoOp

CloneResults ==
  /\ op.what = "fork" /\ op.at = "results"
  /\ \/ /\ session[op.from].results \subseteq dir[op.from].results
        /\ dir' = [dir EXCEPT ![op.to].results = session[op.from].results]
        /\ op' = [op EXCEPT !.at = "images"]
        /\ UNCHANGED faults
     \/ Fault /\ ForkFails
  /\ UNCHANGED <<session, run, crashes, inherited>>

CloneImages ==
  /\ op.what = "fork" /\ op.at = "images"
  /\ \/ /\ Loads(op.from, session[op.from].images)
        /\ dir' = [dir EXCEPT ![op.to].images = session[op.from].images]
        /\ op' = [op EXCEPT !.at = "persist"]
        /\ UNCHANGED faults
     \/ Fault /\ ForkFails
  /\ UNCHANGED <<session, run, crashes, inherited>>

ForkPersist ==
  /\ op.what = "fork" /\ op.at = "persist"
  /\ \/ /\ session' = [session EXCEPT ![op.to] = [session[op.from] EXCEPT !.rev = 1]]
        /\ op' = NoOp
        /\ UNCHANGED <<dir, faults>>
     \/ Fault /\ ForkFails /\ UNCHANGED session
  /\ UNCHANGED <<run, crashes, inherited>>
-----------------------------------------------------------------------------
(* Delete: the transcript goes first. *)

DeleteTranscript(s) ==
  /\ Unlocked /\ session[s].here
  /\ session' = [session EXCEPT ![s].here = FALSE]
  /\ op' = [what |-> "delete", to |-> s]
  /\ UNCHANGED <<dir, run, crashes, faults, inherited>>

(* CleanupSafe; a failure is reported as CleanupPending. *)
DeleteCleanup ==
  /\ op.what = "delete"
  /\ \/ dir' = [dir EXCEPT ![op.to] = NoDir] /\ UNCHANGED faults
     \/ Fault /\ UNCHANGED dir
  /\ op' = NoOp
  /\ UNCHANGED <<session, run, crashes, inherited>>
-----------------------------------------------------------------------------
(* The process dies and starts again: the files stay, the runs and locks go, *)
(* and a blob that was being written leaves its temporary file.              *)
Crash ==
  /\ crashes < Crashes
  /\ crashes' = crashes + 1
  /\ run' = [s \in Sessions |-> NoRun] /\ op' = NoOp
  /\ dir' = [s \in Sessions |->
               IF At(s, "upload") /\ run[s].upload # run[s].images /\ dir[s].here
               THEN [dir[s] EXCEPT !.temps = 1] ELSE dir[s]]
  /\ UNCHANGED <<session, faults, inherited>>
-----------------------------------------------------------------------------
RunStep(s) ==
  \/ StoreImage(s) \/ Hydrate(s) \/ PreflightFails(s) \/ CommitImages(s)
  \/ ReadCurrent(s) \/ Clean(s) \/ StoreResult(s) \/ CommitRun(s)
StoreStep == CloneResults \/ CloneImages \/ ForkPersist \/ DeleteCleanup

MemoryNext ==
  \/ \E s \in Sessions : Prepare(s) \/ RunStep(s) \/ Rename(s) \/ DeleteTranscript(s)
  \/ \E p, c \in Sessions : ForkBegin(p, c)
  \/ StoreStep
  \/ Crash

MemorySpec == MemoryInit /\ [][MemoryNext]_memoryVars

-----------------------------------------------------------------------------
(* The files, the runs and the lock holder; no namespace exceeds its quota. *)
MemoryTypeOK ==
  /\ \A s \in Sessions :
       /\ session[s].here \in BOOLEAN /\ session[s].rev \in 0 .. MaxRevision
       /\ session[s].images \subseteq Images /\ session[s].results \subseteq Results
       /\ run[s].pc \in {"none", "upload", "prepared", "reject", "clean", "running"}
       /\ Cardinality(dir[s].images) <= MaxImages /\ Cardinality(dir[s].results) <= MaxResults
  /\ op.what \in {"none", "fork", "delete"}

(* "rather than a live transcript with broken references": every image and  *)
(* result a stored transcript names is in its namespace, through rejected   *)
(* uploads, lost saves, forks, deletions and crashes.                       *)
NoBrokenReference ==
  \A s \in Sessions : session[s].here =>
    /\ session[s].images \subseteq dir[s].images
    /\ session[s].results \subseteq dir[s].results

(* "rejected uploads cannot fill the session quota": when no run works on a *)
(* session, and nothing failed or crashed, its images are the committed ones. *)
RejectedUploadsGone ==
  \A s \in Sessions : (crashes = 0 /\ faults = 0 /\ session[s].here /\ At(s, "none") /\ Unlocked)
    => dir[s].images = session[s].images

(* A fork inherits committed blobs and nothing else: results that a run of  *)
(* the parent stored and lost, or has not committed yet, stay there.        *)
ForkTakesCommitted ==
  \A c \in Sessions : (~ session[c].here /\ session'[c].here) =>
    /\ dir'[c].results = inherited[c].results
    /\ dir'[c].images = inherited[c].images

(* A deleted session leaves no namespace, unless its cleanup failed or the  *)
(* process died in it; a run that was still going does not bring it back.   *)
DeletedLeavesNothing ==
  \A s \in Sessions : (crashes = 0 /\ faults = 0 /\ session[s].rev > 0 /\ ~ session[s].here /\ Unlocked) => ~ dir[s].here

------------------------------------------------------------------------------

(***************************************************************************)
(* The two paged readers a model is offered: LoadSkill (skill_reader.go    *)
(* and the reader closure of skill_descriptors.go) and LoadToolResult      *)
(* (SessionMemory.ReadResult).                                             *)
(*                                                                         *)
(* A text is a sequence of bytes: "a" and "b" are characters of one byte,  *)
(* "l" and "c" the first and second byte of one of two bytes.  A skill has *)
(* a body, the path Body, and resources.                                   *)
(* Somebody may edit the files at any time; version 0 is the discovered    *)
(* one.  The reader closure runs under its mutex, so a call is one step.   *)
(***************************************************************************)
CONSTANTS
  Skills,          \* the candidates of the run
  Resources,       \* relative paths
  Text,            \* Text[v]: what version v of a file holds
  MaxVersion,      \* bound on edits of a file
  Limits,          \* page sizes a caller asks for
  MinLimit, MaxLimit,   \* minSkillBodyReadBytes, maxSkillBodyReadBytes
  MaxResources,    \* maxSkillResourcesPerRun
  MaxPages,        \* maxSkillReadPagesPerRun
  MaxBytes,        \* maxSkillSnapshotBytesPerRun
  Views,           \* redacted views of stored results
  ViewLimits       \* page sizes of LoadToolResult

Body == "body"
Paths == Resources \cup {Body}

VARIABLES
  version,     \* the files: version[s][p]
  selected,    \* selectedID, or "none"
  states,      \* readStates: continuation of each path that was read
  snapshots,   \* snapshots: version and owner of each path that was loaded
  attempted,   \* attemptedResources
  errors,      \* snapshotLoadErrors
  bytes,       \* snapshotBytes
  attempts,    \* readAttemptCount
  used,        \* skills in the receipt
  got,         \* history: the pages handed out for each skill and path
  view, offset, read, \* LoadToolResult: the result, the next offset, what was read
  stuck        \* history: the last page of a result was empty before its end

pageVars == <<version, selected, states, snapshots, attempted, errors, bytes, attempts, used, got, view, offset, read, stuck>>
skillVars == <<selected, states, snapshots, attempted, errors, bytes, attempts, used, got>>

(* utf8.Valid of the n bytes of t after offset o. *)
Valid(t, o, n) ==
  \A i \in o + 1 .. o + n :
    /\ t[i] = "l" => (i < o + n /\ t[i + 1] = "c")
    /\ t[i] = "c" => (i > o + 1 /\ t[i - 1] = "l")

(* The page shrinks to the end of a character. *)
PageLength(t, o, limit) ==
  LET room == IF o + limit > Len(t) THEN Len(t) - o ELSE limit
  IN  CHOOSE n \in 0 .. room : Valid(t, o, n) /\ \A m \in n + 1 .. room : ~ Valid(t, o, m)

OnBoundary(t, o) == o < Len(t) => t[o + 1] # "c"

NotRead == [next |-> 0, pages |-> 0, eof |-> FALSE, started |-> FALSE]
NotLoaded == [of |-> "none", ver |-> 0]

PageInit ==
  /\ version = [s \in Skills |-> [p \in Paths |-> 0]]
  /\ selected = "none"
  /\ states = [p \in Paths |-> NotRead]
  /\ snapshots = [p \in Paths |-> NotLoaded]
  /\ attempted = {} /\ errors = {} /\ bytes = 0 /\ attempts = 0 /\ used = {}
  /\ got = [s \in Skills |-> [p \in Paths |-> <<>>]]
  /\ view \in Views /\ offset = 0 /\ read = <<>> /\ stuck = FALSE
-----------------------------------------------------------------------------
(* The guards of the reader closure, in its order. *)

Selectable(s) == selected \in {"none", s}
Continues(p, o) ==
  IF states[p].started THEN o = states[p].next /\ ~ states[p].eof ELSE o = 0

BodyRead == states[Body].started /\ states[Body].eof

Admits(s, p, o) == Selectable(s) /\ Continues(p, o) /\ (p # Body => BodyRead)

(* A resource counts once, whether or not it can be read. *)
Attempt(p) ==
  IF p = Body \/ states[p].started \/ p \in attempted THEN attempted ELSE attempted \cup {p}

Attemptable(p) == Cardinality(Attempt(p)) <= MaxResources

Allowed(limit) == limit \in MinLimit .. MaxLimit
PagesLeft == attempts < MaxPages

(* loadSkillFileSnapshot and the checks after it: the body must be the one  *)
(* that was discovered, and the snapshots of a run have a budget of bytes.  *)
Loadable(s, p) ==
  /\ p = Body => version[s][p] = 0
  /\ bytes + Len(Text[version[s][p]]) <= MaxBytes

(* A path that was loaded is served from its snapshot. *)
Snapshot(s, p) == IF snapshots[p] = NotLoaded THEN [of |-> s, ver |-> version[s][p]] ELSE snapshots[p]
-----------------------------------------------------------------------------
(* Calls of LoadSkill. *)

(* A call past the guards whose snapshot cannot be loaded is remembered. *)
LoadFails(s, p, o, limit) ==
  /\ Admits(s, p, o) /\ Attemptable(p) /\ p \notin errors /\ Allowed(limit) /\ PagesLeft
  /\ snapshots[p] = NotLoaded /\ ~ Loadable(s, p)
  /\ attempted' = Attempt(p)
  /\ errors' = errors \cup {p}
  /\ attempts' = attempts + 1
  /\ UNCHANGED <<version, selected, states, snapshots, bytes, used, got, view, offset, read, stuck>>

(* A refused call may still use up the attempt of a resource. *)
Refused(s, p, o, limit) ==
  /\ Admits(s, p, o) /\ Attemptable(p)
  /\ p \in errors \/ ~ Allowed(limit) \/ ~ PagesLeft
  /\ attempted' = Attempt(p)
  /\ UNCHANGED <<version, selected, states, snapshots, errors, bytes, attempts, used, got, view, offset, read, stuck>>

ServePage(s, p, o, limit) ==
  /\ Admits(s, p, o) /\ Attemptable(p) /\ p \notin errors /\ Allowed(limit) /\ PagesLeft
  /\ snapshots[p] = NotLoaded => Loadable(s, p)
  /\ LET snap == Snapshot(s, p)
         text == Text[snap.ver]
         n    == PageLength(text, o, limit)
         eof  == o + n = Len(text)
     IN  /\ OnBoundary(text, o) /\ (o < Len(text) => n > 0)
         /\ snapshots' = [snapshots EXCEPT ![p] = snap]
         /\ bytes' = IF snapshots[p] = NotLoaded THEN bytes + Len(text) ELSE bytes
         /\ states' = [states EXCEPT ![p] = [next |-> o + n, pages |-> @.pages + 1, eof |-> eof, started |-> TRUE]]
         /\ used' = IF p = Body /\ eof THEN used \cup {s} ELSE used
         /\ got' = [got EXCEPT ![s][p] = @ \o SubSeq(text, o + 1, o + n)]
  /\ selected' = s
  /\ attempted' = Attempt(p)
  /\ attempts' = attempts + 1
  /\ UNCHANGED <<version, errors, view, offset, read, stuck>>

(* Somebody edits a file of a skill. *)
EditFile(s, p) ==
  /\ version[s][p] < MaxVersion
  /\ version' = [version EXCEPT ![s][p] = @ + 1]
  /\ UNCHANGED <<skillVars, view, offset, read, stuck>>
-----------------------------------------------------------------------------

(* LoadToolResult: the caller asks for the page at nextOffset until eof. *)
ReadResult(limit) ==
  /\ offset < Len(view) /\ OnBoundary(view, offset)
  /\ LET n == PageLength(view, offset, limit)
     IN  /\ read' = read \o SubSeq(view, offset + 1, offset + n)
         /\ offset' = offset + n
         /\ stuck' = (n = 0)
  /\ UNCHANGED <<version, skillVars, view>>
-----------------------------------------------------------------------------
Offsets == 0 .. MaxBytes

Call(s, p, o, limit) == LoadFails(s, p, o, limit) \/ Refused(s, p, o, limit) \/ ServePage(s, p, o, limit)

PageNext ==
  \/ \E s \in Skills, p \in Paths, o \in Offsets, limit \in Limits : Call(s, p, o, limit)
  \/ \E s \in Skills, p \in Paths : EditFile(s, p)
  \/ \E limit \in ViewLimits : ReadResult(limit)

PageSpec == PageInit /\ [][PageNext]_pageVars
-----------------------------------------------------------------------------
(* The bookkeeping of the reader; its limits hold. *)
PageTypeOK ==
  /\ selected \in Skills \cup {"none"} /\ used \subseteq Skills
  /\ attempted \subseteq Resources /\ Cardinality(attempted) <= MaxResources
  /\ errors \subseteq Paths /\ bytes \in 0 .. MaxBytes /\ attempts \in 0 .. MaxPages

(* The pages of a path put together are the beginning of one version of one *)
(* file of the selected skill, and for the body of the version that was     *)
(* discovered, however the files are edited between the calls.              *)
PagesOfOneVersion ==
  \A s \in Skills, p \in Paths : got[s][p] # <<>> =>
    /\ s = selected
    /\ \E v \in 0 .. MaxVersion : IsPrefix(got[s][p], Text[v]) /\ (p = Body => v = 0)

(* No resource is handed out before the complete instructions were, and the *)
(* receipt names a skill only when all of it was handed out.                *)
InstructionsFirst ==
  \A s \in Skills :
    /\ (\E p \in Resources : got[s][p] # <<>>) => got[s][Body] = Text[0]
    /\ s \in used => got[s][Body] = Text[0]

(* The pages of a stored result put together are the beginning of its view, *)
(* and every page ends at the end of a character.                           *)
PagesReassemble ==
  /\ read = SubSeq(view, 1, offset)
  /\ offset < Len(view) => OnBoundary(view, offset)

(* "Use offset and limit to page": a caller that asks for the next page     *)
(* moves on through the result.                                             *)
PagesAdvance == ~ stuck

=============================================================================
