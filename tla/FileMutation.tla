---------------------------- MODULE FileMutation ----------------------------
(***************************************************************************)
(* File changes of the agents of one session: the read ledger, the batch   *)
(* of Write and Edit calls of one model turn with its rollback             *)
(* (tool_dispatch.go, file_mutation_batch.go, file_mutation.go), the       *)
(* recovery checkpoint of the run generation (checkpoint.go,               *)
(* checkpoint_scope.go) and its undo (checkpoint_undo.go).  A content is a *)
(* number, 0 an absent file; nobody writes the same content twice.         *)
(* The comparison of a digest and the rename that follows it are one step: *)
(* the sources name that window as a limit they accept.                    *)
(***************************************************************************)
EXTENDS Naturals, Sequences, SequencesExt, FiniteSets

CONSTANTS Files, Workers,
          InitialFiles,  \* files that exist at first
          MaxContent,    \* bound: contents ever written
          MaxUserEdits,  \* bound: edits by someone else
          MaxRuns,       \* bound: run generations
          BatchSize,     \* bound: mutations of one turn
          Window         \* someone else may write between two looks of one call at its file

VARIABLES disk,      \* file -> content
          ledger,    \* worker -> file -> recorded revision, or None
          gen,       \* the run generation
          started,   \* CheckpointScope.started
          manifest,  \* the session's checkpoint: generation and entries
          op,        \* what holds fileMutationBatchMu
          next,      \* the last content written
          userEdits,
          byUser,    \* history: contents somebody else wrote
          seen,      \* history: worker -> contents it read or wrote
          runWrote,  \* history: contents the generation wrote
          residue,   \* history: contents of batches reported as rolled back
          lost,      \* history: contents of others overwritten unseen
          edited     \* history: files others changed after their preimage was captured
vars == <<disk, ledger, gen, started, manifest, op, next, userEdits, byUser, seen,
          runWrote, residue, lost, edited>>

None == MaxContent + 1
Contents == 0 .. MaxContent
Free == [k |-> "free"]
NoManifest == [gen |-> 0, files |-> [f \in {} |-> 0]]
Tools == {"Write", "Edit"}

\* ckptFile: the digests before the generation's first change and after its last.
Entries == [pre : Contents, post : Contents \cup {None}]

TypeOK ==
  /\ disk \in [Files -> Contents]
  /\ ledger \in [Workers -> [Files -> Contents \cup {None}]]
  /\ gen \in 1 .. MaxRuns /\ started \in BOOLEAN
  /\ manifest.gen \in 0 .. MaxRuns /\ DOMAIN manifest.files \subseteq Files
  /\ \A f \in DOMAIN manifest.files : manifest.files[f] \in Entries
  /\ op.k \in {"free", "batch", "undo"}
  /\ next \in Contents /\ userEdits \in 0 .. MaxUserEdits

Init ==
  /\ disk \in [Files -> Contents]
  /\ \A f \in Files : (disk[f] # 0) <=> (f \in InitialFiles)
  /\ \A f, g \in InitialFiles : disk[f] = disk[g] => f = g
  /\ next = Cardinality(InitialFiles) /\ \A f \in Files : disk[f] <= next
  /\ ledger = [w \in Workers |-> [f \in Files |-> None]]
  /\ gen = 1 /\ started = FALSE /\ manifest = NoManifest
  /\ op = Free /\ userEdits = 0
  /\ byUser = {disk[f] : f \in InitialFiles}
  /\ seen = [w \in Workers |-> {}]
  /\ runWrote = {} /\ residue = {} /\ lost = {} /\ edited = {}

-----------------------------------------------------------------------------
\* The read ledger.

\* RecordRead hashes the disk again; what cannot be hashed is forgotten.
Recorded(f) == IF disk[f] = 0 THEN None ELSE disk[f]

\* The reads of a worker's turn end before its mutations begin.
Read(w, f) ==
  /\ disk[f] # 0
  /\ op.k = "free" \/ (op.k = "batch" /\ op.w # w)
  /\ ledger' = [ledger EXCEPT ![w][f] = Recorded(f)]
  /\ seen' = [seen EXCEPT ![w] = @ \cup {disk[f]}]
  /\ UNCHANGED <<disk, gen, started, manifest, op, next, userEdits, byUser, runWrote,
                 residue, lost, edited>>

\* checkMutation: fresh Read evidence, or a Write that creates the file.
CheckMutation(w, tool, f) ==
  IF disk[f] = 0 THEN tool = "Write" ELSE ledger[w][f] = disk[f]

-----------------------------------------------------------------------------
\* One batch: it holds fileMutationBatchMu from its preflight to its report.
\* todo: the calls left; journal: the committed changes; cap: files captured.

Step(s) == op.k = "batch" /\ op.step = s
Call == Head(op.todo)
At(s) == op' = [op EXCEPT !.step = s]

StartBatch(w, calls) ==
  /\ op.k = "free"
  /\ \A i \in DOMAIN calls : CheckMutation(w, calls[i].tool, calls[i].f)
  /\ op' = [k |-> "batch", w |-> w, todo |-> calls, step |-> "snapshot", snap |-> 0,
            expected |-> 0, journal |-> <<>>, cap |-> {}, wrote |-> {},
            incomplete |-> FALSE]
  /\ UNCHANGED <<disk, ledger, gen, started, manifest, next, userEdits, byUser, seen,
                 runWrote, residue, lost, edited>>

\* A call that failed: the journal is rolled back, the calls after it are denied.
Fail_KeepsEarlier(unsafe) ==
  op' = [op EXCEPT !.step = "rollback", !.todo = <<>>, !.snap = 0, !.expected = 0,
                   !.journal = <<>>, !.incomplete = @ \/ unsafe]
Fail(unsafe) ==
  op' = [op EXCEPT !.step = "rollback", !.todo = <<>>, !.snap = 0, !.expected = 0,
                   !.incomplete = @ \/ unsafe]

\* captureFileMutationSnapshot; nothing is left: the batch was committed.
Snapshot ==
  /\ Step("snapshot")
  /\ \/ op.todo = <<>> /\ At("publish")
     \/ op.todo # <<>> /\ ~(Call.tool = "Edit" /\ disk[Call.f] = 0)
        /\ op' = [op EXCEPT !.step = "decide", !.snap = disk[Call.f]]
     \/ op.todo # <<>> /\ Call.tool = "Edit" /\ disk[Call.f] = 0 /\ Fail(FALSE)
  /\ UNCHANGED <<disk, ledger, gen, started, manifest, next, userEdits, byUser, seen,
                 runWrote, residue, lost, edited>>

\* checkDispatchRuntimePolicy: the revision it allows is bound to the call.
Decide ==
  /\ Step("decide")
  /\ IF CheckMutation(op.w, Call.tool, Call.f)
     THEN op' = [op EXCEPT !.step = "capture", !.expected = disk[Call.f]]
     ELSE Fail(FALSE)
  /\ UNCHANGED <<disk, ledger, gen, started, manifest, next, userEdits, byUser, seen,
                 runWrote, residue, lost, edited>>

\* startCheckpoint, once per generation, clears what the session had before.
Started ==
  IF started THEN manifest ELSE [gen |-> gen, files |-> [f \in {} |-> 0]]

\* checkpointFile: the state before the generation's first change, once.
WithPreimage(m, f) ==
  IF f \in DOMAIN m.files THEN m
  ELSE [m EXCEPT !.files = [g \in DOMAIN @ \cup {f} |->
                              IF g = f THEN [pre |-> disk[f], post |-> None] ELSE @[g]]]

\* captureBeforeMutation, or an error of the file system in it.
Capture ==
  /\ Step("capture")
  /\ \/ /\ Started.gen = gen
        /\ manifest' = WithPreimage(Started, Call.f)
        /\ started' = TRUE
        /\ op' = [op EXCEPT !.step = "execute", !.cap = @ \cup {Call.f}]
        /\ edited' = IF Call.f \in DOMAIN Started.files THEN edited ELSE edited \ {Call.f}
     \/ /\ Fail(FALSE)
        /\ UNCHANGED <<manifest, started, edited>>
  /\ UNCHANGED <<disk, ledger, gen, next, userEdits, byUser, seen, runWrote, residue, lost>>

\* What overwriting file f on behalf of readers who saw s loses.
Overwritten(f, s) == IF disk[f] \in byUser \ s THEN {disk[f]} ELSE {}

\* The executor: stageArtifact, syntax check, commit while the file still has
\* the bound revision; an error forgets the ledger entry.
ExpectedState == disk[Call.f] = op.expected

Commit ==
  /\ Step("execute") /\ next < MaxContent
  /\ ExpectedState
  /\ next' = next + 1
  /\ disk' = [disk EXCEPT ![Call.f] = next + 1]
  /\ lost' = lost \cup Overwritten(Call.f, seen[op.w])
  /\ seen' = [seen EXCEPT ![op.w] = @ \cup {next + 1}]
  /\ runWrote' = runWrote \cup {next + 1}
  /\ op' = [op EXCEPT !.step = "refresh", !.wrote = @ \cup {next + 1}]
  /\ UNCHANGED <<ledger, gen, started, manifest, userEdits, byUser, residue, edited>>

ExecutorFails ==
  /\ Step("execute")
  /\ ledger' = [ledger EXCEPT ![op.w][Call.f] = None]
  /\ Fail(FALSE)
  /\ UNCHANGED <<disk, gen, started, manifest, next, userEdits, byUser, seen, runWrote,
                 residue, lost, edited>>

\* RefreshAfterWrite.
Refresh ==
  /\ Step("refresh")
  /\ ledger' = [ledger EXCEPT ![op.w][Call.f] = Recorded(Call.f)]
  /\ At("journal")
  /\ UNCHANGED <<disk, gen, started, manifest, next, userEdits, byUser, seen, runWrote,
                 residue, lost, edited>>

\* committedMutationRevision; without it the change cannot be taken back.
Journal ==
  /\ Step("journal")
  /\ \/ /\ disk[Call.f] # 0
        /\ op' = [op EXCEPT !.step = "snapshot", !.todo = Tail(op.todo), !.snap = 0, !.expected = 0,
                            !.journal = Append(@, [f |-> Call.f, snap |-> op.snap,
                                                   post |-> disk[Call.f]])]
     \/ Fail(TRUE)
  /\ UNCHANGED <<disk, ledger, gen, started, manifest, next, userEdits, byUser, seen,
                 runWrote, residue, lost, edited>>

\* rollbackCommittedFileMutation, newest first: only what is still there as
\* it was committed is restored, and the ledger follows.
RestoreAllowed(j) == disk[j.f] = j.post

Rollback ==
  /\ Step("rollback") /\ op.journal # <<>>
  /\ LET j == Last(op.journal)
     IN \/ /\ RestoreAllowed(j)
           /\ disk' = [disk EXCEPT ![j.f] = j.snap]
           /\ lost' = lost \cup Overwritten(j.f, seen[op.w])
           /\ ledger' = [ledger EXCEPT ![op.w][j.f] = IF j.snap = 0 THEN None ELSE j.snap]
           /\ op' = [op EXCEPT !.journal = Front(op.journal)]
        \/ /\ ledger' = [ledger EXCEPT ![op.w][j.f] = None]
           /\ op' = [op EXCEPT !.journal = Front(op.journal), !.incomplete = TRUE]
           /\ UNCHANGED <<disk, lost>>
  /\ UNCHANGED <<gen, started, manifest, next, userEdits, byUser, seen, runWrote, residue, edited>>

\* The last change of each file.
FinalPosts ==
  {op.journal[i] : i \in {i \in DOMAIN op.journal :
                            \A k \in DOMAIN op.journal : k > i => op.journal[k].f # op.journal[i].f}}

WithPostimage(f, e) ==
  IF \E j \in FinalPosts : j.f = f
  THEN [e EXCEPT !.post = (CHOOSE j \in FinalPosts : j.f = f).post] ELSE e

\* recordCheckpointPostimages: all of them unchanged, or the batch is undone.
Publish ==
  /\ Step("publish")
  /\ \/ /\ \A j \in FinalPosts : disk[j.f] = j.post /\ j.f \in DOMAIN manifest.files
        /\ manifest' = [manifest EXCEPT !.files = [f \in DOMAIN @ |-> WithPostimage(f, @[f])]]
        /\ op' = Free
     \/ op' = [op EXCEPT !.step = "rollback"] /\ UNCHANGED manifest
  /\ UNCHANGED <<disk, ledger, gen, started, next, userEdits, byUser, seen, runWrote,
                 residue, lost, edited>>

\* settleCheckpointPostimages after a failed batch, and the report: a captured
\* file without postimage must be back at its preimage.
Unsettled == {f \in op.cap : manifest.files[f].post = None}
Settled ==
  [manifest EXCEPT !.files =
     [f \in DOMAIN @ |-> IF f \in Unsettled THEN [pre |-> @[f].pre, post |-> @[f].pre]
                         ELSE @[f]]]

Settle ==
  \/ /\ \A f \in Unsettled : disk[f] = manifest.files[f].pre
     /\ manifest' = Settled
     /\ residue' = IF op.incomplete THEN residue ELSE residue \cup op.wrote
  \/ UNCHANGED <<manifest, residue>>    \* reported as incomplete

ReportFailure ==
  /\ Step("rollback") /\ op.journal = <<>>
  /\ Settle
  /\ op' = Free
  /\ UNCHANGED <<disk, ledger, gen, started, next, userEdits, byUser, seen, runWrote, lost, edited>>

-----------------------------------------------------------------------------
\* Undo: a run of its own, under the same lock.

Status(f) ==
  LET e == manifest.files[f]
  IN CASE disk[f] = e.pre -> "already_restored"
       [] disk[f] # e.pre /\ disk[f] = e.post -> "restorable"
       [] OTHER -> "conflict"

\* preflightUndoManifestSelected: every selected entry has its postimage and
\* none conflicts, or nothing is touched.
Preflight(sel) ==
  \A f \in sel : manifest.files[f].post # None /\ Status(f) # "conflict"

StartUndo(sel) ==
  /\ op.k = "free" /\ gen < MaxRuns /\ sel # {} /\ sel \subseteq DOMAIN manifest.files
  /\ gen' = gen + 1 /\ started' = FALSE /\ runWrote' = {}
  /\ ledger' = [w \in Workers |-> [f \in Files |-> None]]
  /\ seen' = [w \in Workers |-> {}]
  /\ op' = IF Preflight(sel)
           THEN [k |-> "undo", step |-> "apply", sel |-> sel, files |-> manifest.files,
                 restorable |-> {f \in sel : Status(f) = "restorable"},
                 todo |-> {f \in sel : Status(f) # "already_restored"}, applied |-> <<>>,
                 outcome |-> "running", touched |-> {}]
           ELSE Free
  /\ UNCHANGED <<disk, manifest, next, userEdits, byUser, residue, lost, edited>>

UndoStep(s) == op.k = "undo" /\ op.step = s

\* verifyUndoActionState and the rename: the file is still at its postimage.
UndoState(f) == disk[f] = op.files[f].post

Apply(f) ==
  /\ UndoStep("apply") /\ f \in op.todo
  /\ UndoState(f)
  /\ disk' = [disk EXCEPT ![f] = op.files[f].pre]
  /\ lost' = lost \cup Overwritten(f, {})
  /\ op' = [op EXCEPT !.todo = @ \ {f}, !.applied = Append(@, f)]
  /\ UNCHANGED <<ledger, gen, started, manifest, next, userEdits, byUser, seen, runWrote,
                 residue, edited>>

\* The file changed, or the file system refused.
ApplyFails ==
  /\ UndoStep("apply") /\ op.todo # {}
  /\ op' = [op EXCEPT !.step = "unapply", !.outcome = "failed"]
  /\ UNCHANGED <<disk, ledger, gen, started, manifest, next, userEdits, byUser, seen,
                 runWrote, residue, lost, edited>>

\* rollbackUndoActions, newest first.
Unapply ==
  /\ UndoStep("unapply") /\ op.applied # <<>>
  /\ LET f == Last(op.applied)
     IN \/ /\ disk[f] # op.files[f].post /\ disk[f] = op.files[f].pre
           /\ disk' = [disk EXCEPT ![f] = op.files[f].post]
           /\ op' = [op EXCEPT !.applied = Front(@)]
        \/ /\ disk[f] = op.files[f].post
           /\ op' = [op EXCEPT !.applied = Front(@)] /\ UNCHANGED disk
        \/ /\ disk[f] # op.files[f].post
           /\ op' = [op EXCEPT !.applied = Front(@), !.outcome = "incomplete"]
           /\ UNCHANGED disk
  /\ UNCHANGED <<ledger, gen, started, manifest, next, userEdits, byUser, seen, runWrote,
                 residue, lost, edited>>

UnapplyEnds ==
  /\ UndoStep("unapply") /\ op.applied = <<>>
  /\ At("reported")
  /\ UNCHANGED <<disk, ledger, gen, started, manifest, next, userEdits, byUser, seen,
                 runWrote, residue, lost, edited>>

\* The manifest without the restored entries; with none left it is removed.
PublishUndo ==
  /\ UndoStep("apply") /\ op.todo = {}
  /\ \/ /\ manifest' = IF DOMAIN manifest.files \subseteq op.sel THEN NoManifest
                       ELSE [manifest EXCEPT !.files =
                               [f \in DOMAIN @ \ op.sel |-> @[f]]]
        /\ op' = [op EXCEPT !.step = "reported", !.outcome = "restored"]
     \/ op' = [op EXCEPT !.step = "unapply", !.outcome = "failed"] /\ UNCHANGED manifest
  /\ UNCHANGED <<disk, ledger, gen, started, next, userEdits, byUser, seen, runWrote,
                 residue, lost, edited>>

UndoReturns ==
  /\ UndoStep("reported")
  /\ op' = Free
  /\ UNCHANGED <<disk, ledger, gen, started, manifest, next, userEdits, byUser, seen,
                 runWrote, residue, lost, edited>>

-----------------------------------------------------------------------------
\* Someone else writes, or removes, a file; the lock is no obstacle.
\* A call looks twice at its file for its snapshot and its check, and for its
\* commit and the re-hash.
Looking ==
  (op.k = "batch" /\ op.step \in {"decide", "refresh", "journal"}) /\ ~Window

Touched(f) ==
  /\ edited' = edited \cup {f}
  /\ op' = IF op.k = "undo" THEN [op EXCEPT !.touched = @ \cup {f}] ELSE op

UserEdits(f) ==
  /\ userEdits < MaxUserEdits /\ next < MaxContent /\ ~Looking
  /\ userEdits' = userEdits + 1
  /\ next' = next + 1
  /\ disk' = [disk EXCEPT ![f] = next + 1]
  /\ byUser' = byUser \cup {next + 1}
  /\ Touched(f)
  /\ UNCHANGED <<ledger, gen, started, manifest, seen, runWrote, residue, lost>>

UserRemoves(f) ==
  /\ userEdits < MaxUserEdits /\ disk[f] # 0 /\ ~Looking
  /\ userEdits' = userEdits + 1
  /\ disk' = [disk EXCEPT ![f] = 0]
  /\ Touched(f)
  /\ UNCHANGED <<ledger, gen, started, manifest, next, byUser, seen, runWrote, residue, lost>>

\* The run ends, or the process dies in whatever it was doing: ledgers, scope
\* and lock are its memory.
NewRun ==
  /\ gen < MaxRuns
  /\ gen' = gen + 1 /\ started' = FALSE /\ op' = Free /\ runWrote' = {}
  /\ ledger' = [w \in Workers |-> [f \in Files |-> None]]
  /\ seen' = [w \in Workers |-> {}]
  /\ UNCHANGED <<disk, manifest, next, userEdits, byUser, residue, lost, edited>>

Calls == [tool : Tools, f : Files]

Next ==
  \/ \E w \in Workers, f \in Files : Read(w, f)
  \/ \E w \in Workers, n \in 1 .. BatchSize : \E calls \in [1 .. n -> Calls] : StartBatch(w, calls)
  \/ Snapshot \/ Decide \/ Capture \/ Commit \/ ExecutorFails \/ Refresh \/ Journal
  \/ Rollback \/ Publish \/ ReportFailure
  \/ \E sel \in SUBSET DOMAIN manifest.files : StartUndo(sel)
  \/ \E f \in Files : Apply(f)
  \/ ApplyFails \/ Unapply \/ UnapplyEnds \/ PublishUndo \/ UndoReturns
  \/ \E f \in Files : UserEdits(f) \/ UserRemoves(f)
  \/ NewRun

Spec == Init /\ [][Next]_vars

-----------------------------------------------------------------------------
\* A content somebody else wrote is overwritten only by a worker that had
\* read it, never by a rollback and never by an undo
\* (read_ledger.go, file_mutation.go commit, checkpoint_undo.go).
NoLostEdit == lost = {}

\* A batch that is reported as failed, without [TRANSACTION INCOMPLETE],
\* leaves none of its contents behind, in whatever order its calls touched
\* the files and whatever failed (tool_dispatch.go:352).
FailedBatchLeavesNothing == \A f \in Files : disk[f] \notin residue

\* An undo that reports an error, and no incomplete rollback, has left every
\* file it had restored at its postimage or to somebody else's edit; one that
\* reports success left no selected file as the run had written it
\* (checkpoint_undo.go:123).
UndoAllOrNothing ==
  UndoStep("reported") =>
    /\ op.outcome = "failed" =>
         \A f \in op.restorable \ op.touched : disk[f] = op.files[f].post
    /\ op.outcome = "restored" =>
         \A f \in op.sel \ op.touched : disk[f] = op.files[f].pre

\* The checkpoint of a generation never holds a content of its own as a
\* preimage, and every content it left on the disk can be taken back to one:
\* workers share the scope, batches fail half way and runs die
\* (checkpoint.go:149).
CheckpointPredatesRun ==
  manifest.gen = gen =>
    /\ \A f \in DOMAIN manifest.files : manifest.files[f].pre \notin runWrote
    /\ \A f \in Files : disk[f] \in runWrote => f \in DOMAIN manifest.files

=============================================================================
