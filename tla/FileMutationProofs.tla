--------------------------- MODULE FileMutationProofs ---------------------------
(***************************************************************************)
(* The file changes of a session, for any files, workers, batches, edits   *)
(* of others and run generations.                                          *)
(*                                                                         *)
(* None of the properties is inductive.  What makes them so is what a      *)
(* batch knows at each of its steps: every content it has on the disk is   *)
(* in its journal or about to be (BatchInv), its files are in the          *)
(* checkpoint (ScopeInv), what it may restore it had read (KeptInv); and   *)
(* that a content is written once (Known).                                 *)
(*                                                                         *)
(* At the end the other thing a tool leaves on the machine, its processes: *)
(* a command behind the sandbox boundary and a child under a supervisor.   *)
(***************************************************************************)
EXTENDS FileMutation, FiniteSetTheorems, TLAPS

\* What the bounds and the files at first must be.
Bounds ==
  /\ MaxContent \in Nat /\ MaxUserEdits \in Nat /\ MaxRuns \in Nat /\ MaxRuns > 0
  /\ InitialFiles \subseteq Files /\ IsFiniteSet(InitialFiles)
  /\ Cardinality(InitialFiles) <= MaxContent

FileMaps == UNION {[S -> Entries] : S \in SUBSET Files}
Manifests == [gen : Nat, files : FileMaps]
Changes == [f : Files, snap : Contents, post : Contents]
BatchSteps == {"snapshot", "decide", "capture", "execute", "refresh", "journal", "rollback", "publish"}
Batches ==
  [k : {"batch"}, w : Workers, todo : Seq(Calls), step : BatchSteps, snap : Contents,
   expected : Contents, journal : Seq(Changes), cap : SUBSET Files, wrote : SUBSET Contents,
   incomplete : BOOLEAN]
Undos ==
  [k : {"undo"}, step : {"apply", "unapply", "reported"}, sel : SUBSET Files, files : FileMaps,
   restorable : SUBSET Files, todo : SUBSET Files, applied : Seq(Files),
   outcome : {"running", "failed", "incomplete", "restored"}, touched : SUBSET Files]

InBatch == op.k = "batch"
InUndo == op.k = "undo"
\* The steps between the snapshot of a call and its record in the journal.
InCall == InBatch /\ op.step \in {"decide", "capture", "execute", "refresh", "journal"}
Written == InBatch /\ op.step \in {"refresh", "journal"}

Typed ==
  /\ disk \in [Files -> Contents]
  /\ ledger \in [Workers -> [Files -> Contents \cup {None}]]
  /\ gen \in 1 .. MaxRuns /\ started \in BOOLEAN
  /\ manifest \in Manifests /\ manifest.gen <= gen
  /\ op \in {Free} \cup Batches \cup Undos
  /\ next \in Contents /\ userEdits \in 0 .. MaxUserEdits
  /\ byUser \subseteq 1 .. next /\ runWrote \subseteq 1 .. next /\ residue \subseteq 1 .. next
  /\ seen \in [Workers -> SUBSET Contents]
  /\ InCall => op.todo # <<>>
  /\ InUndo => /\ op.sel \subseteq DOMAIN op.files
               /\ op.restorable \subseteq op.sel /\ op.todo \subseteq op.sel
               /\ \A f \in op.sel : op.files[f].post # None
               /\ \A i \in 1 .. Len(op.applied) : op.applied[i] \in op.sel

\* No content is ahead of the last one written.
Old(x) == x = None \/ x <= next
Known ==
  /\ \A f \in Files : Old(disk[f])
  /\ \A f \in DOMAIN manifest.files : Old(manifest.files[f].pre) /\ Old(manifest.files[f].post)
  /\ InBatch => /\ op.wrote \subseteq 1 .. next /\ Old(op.snap)
                /\ \A i \in 1 .. Len(op.journal) : Old(op.journal[i].snap) /\ Old(op.journal[i].post)
  /\ InUndo => \A f \in DOMAIN op.files : Old(op.files[f].pre) /\ Old(op.files[f].post)

\* The checkpoint of this generation holds every file the generation changed.
ScopeInv ==
  /\ started <=> manifest.gen = gen
  /\ ~started => runWrote = {}
  /\ started => /\ \A f \in DOMAIN manifest.files : manifest.files[f].pre \notin runWrote
                /\ \A f \in Files : disk[f] \in runWrote => f \in DOMAIN manifest.files
  /\ InUndo => ~started
  /\ InBatch => /\ op.cap \subseteq DOMAIN manifest.files /\ (op.cap # {} => started)
                /\ op.step \in {"execute", "refresh", "journal"} => Call.f \in op.cap
                /\ \A i \in 1 .. Len(op.journal) : op.journal[i].f \in op.cap

\* The first n entries of a journal hold content x of file f.
Journaled(journal, f, x, n) == \E i \in 1 .. n : journal[i].f = f /\ journal[i].post = x

\* Every content a batch left on the disk can be taken back with its journal.
BatchInv ==
  InBatch =>
    /\ \A f \in Files : disk[f] \in op.wrote =>
         /\ f \in op.cap
         /\ op.incomplete \/ Journaled(op.journal, f, disk[f], Len(op.journal)) \/ (Written /\ f = Call.f)
    /\ \A i \in 1 .. Len(op.journal) :
         op.journal[i].snap \in op.wrote => Journaled(op.journal, op.journal[i].f, op.journal[i].snap, i - 1)
    /\ InCall /\ op.snap \in op.wrote => Journaled(op.journal, Call.f, op.snap, Len(op.journal))
    /\ op.incomplete => op.step = "rollback"
    /\ \A f \in DOMAIN manifest.files :
         manifest.files[f].pre \notin op.wrote /\ manifest.files[f].post \notin op.wrote

\* Nothing can bring a content back that a failed batch left behind.
ResidueInv ==
  /\ \A f \in Files : disk[f] \notin residue
  /\ \A f \in DOMAIN manifest.files :
       manifest.files[f].pre \notin residue /\ manifest.files[f].post \notin residue
  /\ InBatch => /\ op.snap \notin residue /\ op.wrote \cap residue = {}
                /\ \A i \in 1 .. Len(op.journal) : op.journal[i].snap \notin residue
  /\ InUndo => \A f \in DOMAIN op.files :
                 op.files[f].pre \notin residue /\ op.files[f].post \notin residue

\* How far an undo has come, up to what others changed meanwhile.
UndoInv ==
  InUndo =>
    /\ op.step = "apply" =>
         /\ op.outcome = "running"
         /\ \A f \in op.sel \ op.touched : f \notin op.todo => disk[f] = op.files[f].pre
    /\ op.step = "unapply" => op.outcome \in {"failed", "incomplete"}
    /\ op.step \in {"apply", "unapply"} /\ op.outcome # "incomplete" =>
         \A f \in op.restorable \ op.touched :
           disk[f] = op.files[f].post \/ \E i \in 1 .. Len(op.applied) : op.applied[i] = f
    /\ UndoAllOrNothing

FileInv == Typed /\ Known /\ ScopeInv /\ BatchInv /\ ResidueInv /\ UndoInv

\* What a worker's ledger holds, it read or wrote.
LedgerSeen == \A w \in Workers, f \in Files : ledger[w][f] # None => ledger[w][f] \in seen[w]

\* What an undo could take back, nobody else wrote.
PostsOwn ==
  \A f \in DOMAIN manifest.files :
    LET e == manifest.files[f] IN e.post = None \/ e.post = e.pre \/ e.post \notin byUser

\* What a batch may restore or overwrite, its worker read or wrote.
BatchKept ==
  InBatch =>
    /\ op.wrote \subseteq seen[op.w] /\ op.wrote \cap byUser = {}
    /\ op.step = "decide" => op.snap = disk[Call.f]
    /\ op.step \in {"capture", "execute"} => op.expected = op.snap
    /\ InCall /\ op.step # "decide" => op.snap = 0 \/ op.snap \in seen[op.w]
    /\ Written => disk[Call.f] \in op.wrote
    /\ \A i \in 1 .. Len(op.journal) :
         /\ op.journal[i].snap = 0 \/ op.journal[i].snap \in seen[op.w]
         /\ op.journal[i].post \in op.wrote

UndoKept == InUndo => \A f \in op.todo : op.files[f].post \notin byUser

KeptInv == LedgerSeen /\ PostsOwn /\ BatchKept /\ UndoKept /\ lost = {}
-----------------------------------------------------------------------------
\* What holds the lock is a batch, an undo or nobody.
LEMMA BatchIs ==
  ASSUME Typed, InBatch
  PROVE  op \in Batches /\ ~InUndo
BY DEF Typed, InBatch, InUndo, Undos, Free

LEMMA UndoIs ==
  ASSUME Typed, InUndo
  PROVE  op \in Undos /\ ~InBatch
BY DEF Typed, InBatch, InUndo, Batches, Free

\* The contents are numbers, and None is above all of them.
LEMMA ContentsAreNumbers ==
  ASSUME Bounds
  PROVE  /\ 0 \in Contents /\ Contents \subseteq Nat /\ None \in Nat /\ None \notin Contents
         /\ \A x \in Contents : x < None
         /\ \A n \in Contents : n < MaxContent => n + 1 \in Contents
BY DEF Bounds, Contents, None

\* The entries of a checkpoint are about files.
LEMMA CheckpointEntries ==
  ASSUME NEW m \in FileMaps
  PROVE  /\ DOMAIN m \subseteq Files /\ m \in [DOMAIN m -> Entries]
         /\ \A f \in DOMAIN m : f \in Files /\ m[f] \in Entries
                                /\ m[f].pre \in Contents /\ m[f].post \in Contents \cup {None}
<1>1. PICK S \in SUBSET Files : m \in [S -> Entries]
  BY DEF FileMaps
<1> QED BY <1>1 DEF Entries

LEMMA CheckpointOf ==
  ASSUME NEW S \in SUBSET Files, NEW m \in [S -> Entries]
  PROVE  m \in FileMaps
BY DEF FileMaps

\* A batch has no undo to keep, and what it does not touch stays.
LEMMA NoUndo ==
  ASSUME ~InUndo'
  PROVE  UndoInv'
BY DEF UndoInv, InUndo

LEMMA NoBatch ==
  ASSUME ~InBatch'
  PROVE  BatchInv'
BY DEF BatchInv, InBatch

\* A call that fails keeps the journal, the files and the contents of its batch.
LEMMA FailResult ==
  ASSUME Bounds, Typed, InBatch, NEW unsafe \in BOOLEAN, Fail(unsafe)
  PROVE  /\ op' \in Batches /\ op'.k = "batch" /\ op'.step = "rollback" /\ op'.todo = <<>>
         /\ op'.w = op.w /\ op'.journal = op.journal /\ op'.cap = op.cap /\ op'.wrote = op.wrote
         /\ op'.snap = 0 /\ op'.incomplete = (op.incomplete \/ unsafe)
<1>1. op \in Batches /\ 0 \in Contents /\ <<>> \in Seq(Calls)
  BY BatchIs, ContentsAreNumbers
<1>2. (op.incomplete \/ unsafe) \in BOOLEAN
  OBVIOUS
<1> DEFINE v == op.incomplete \/ unsafe
<1>3. op' = [op EXCEPT !.step = "rollback", !.todo = <<>>, !.snap = 0, !.expected = 0,
                       !.incomplete = v]
  BY DEF Fail
<1>4. v \in BOOLEAN
  BY <1>2
<1> HIDE DEF v
<1>5. /\ op' \in Batches /\ op'.k = "batch" /\ op'.step = "rollback" /\ op'.todo = <<>>
      /\ op'.w = op.w /\ op'.journal = op.journal /\ op'.cap = op.cap /\ op'.wrote = op.wrote
      /\ op'.snap = 0 /\ op'.incomplete = v
  BY <1>1, <1>3, <1>4 DEF Batches, BatchSteps
<1> QED BY <1>5 DEF v

\* The call at the head of a batch is about a file.
LEMMA CallIs ==
  ASSUME Typed, op \in Batches, op.todo # <<>>
  PROVE  /\ Call.f \in Files /\ Call.tool \in Tools /\ disk[Call.f] \in Contents
         /\ Tail(op.todo) \in Seq(Calls)
<1>1. op.todo \in Seq(Calls)
  BY DEF Batches
<1>2. Head(op.todo) \in Calls /\ Tail(op.todo) \in Seq(Calls)
  BY <1>1
<1>3. disk \in [Files -> Contents]
  BY DEF Typed
<1> QED BY <1>2, <1>3 DEF Call, Calls

\* What the journal of a batch records.
LEMMA EntriesAreChanges ==
  ASSUME op \in Batches
  PROVE  /\ op.journal \in Seq(Changes) /\ Len(op.journal) \in Nat
         /\ \A i \in 1 .. Len(op.journal) :
              /\ op.journal[i] \in Changes /\ op.journal[i].f \in Files
              /\ op.journal[i].snap \in Contents /\ op.journal[i].post \in Contents
<1>1. op.journal \in Seq(Changes)
  BY DEF Batches
<1>2. \A i \in 1 .. Len(op.journal) : op.journal[i] \in Changes
  BY <1>1
<1> QED BY <1>1, <1>2 DEF Changes

\* A step of a batch that changes neither the disk nor the checkpoint: what it
\* must say of its snapshot and of the contents it wrote.
LEMMA QuietBatch ==
  ASSUME Bounds, FileInv, InBatch, op' \in Batches, op'.k = "batch",
         op'.journal = op.journal, op'.cap = op.cap, op'.wrote = op.wrote,
         UNCHANGED <<disk, gen, started, manifest, next, userEdits, byUser, runWrote, residue>>,
         ledger' \in [Workers -> [Files -> Contents \cup {None}]],
         seen' \in [Workers -> SUBSET Contents],
         op'.incomplete => op'.step = "rollback",
         op'.snap \in {0, op.snap} \cup {disk[f] : f \in Files},
         InCall' => op'.todo # <<>>,
         InCall' /\ op'.snap \in op.wrote => Journaled(op.journal, Call.f, op.snap, Len(op.journal))',
         op'.step \in {"execute", "refresh", "journal"} => Call'.f \in op.cap,
         op.incomplete \/ Written => op'.incomplete \/ (Written' /\ Call' = Call /\ op'.incomplete = op.incomplete)
  PROVE  FileInv'
<1>1. op \in Batches /\ InBatch' /\ ~InUndo'
  BY BatchIs DEF FileInv, InBatch, InUndo
<1>2. Typed'
  BY <1>1 DEF FileInv, Typed
<1>3. Old(op'.snap) /\ op'.snap \notin residue
  BY <1>1, ContentsAreNumbers DEF FileInv, Known, ResidueInv, Typed, Old
<1>4. Known'
  BY <1>1, <1>3 DEF FileInv, Known, Old
<1>5. ScopeInv'
  BY <1>1 DEF FileInv, ScopeInv
<1>6. ResidueInv'
  BY <1>1, <1>3 DEF FileInv, ResidueInv
<1>7. BatchInv'
  <2>1. ASSUME NEW f \in Files, disk[f] \in op.wrote
        PROVE  /\ f \in op.cap
               /\ op'.incomplete \/ Journaled(op.journal, f, disk[f], Len(op.journal)) \/ (Written' /\ f = Call'.f)
    BY <1>1, <2>1 DEF FileInv, BatchInv
  <2> QED BY <1>1, <2>1 DEF FileInv, BatchInv
<1> QED BY <1>1, <1>2, <1>4, <1>5, <1>6, <1>7, NoUndo DEF FileInv

LEMMA StartBatchKeeps ==
  ASSUME Bounds, FileInv, NEW w \in Workers, NEW calls \in Seq(Calls), StartBatch(w, calls)
  PROVE  FileInv'
<1>1. /\ op' \in Batches /\ op'.k = "batch" /\ op'.step = "snapshot" /\ op'.snap = 0
      /\ op'.journal = <<>> /\ op'.cap = {} /\ op'.wrote = {} /\ op'.incomplete = FALSE
  BY ContentsAreNumbers DEF StartBatch, Batches, BatchSteps
<1>2. InBatch' /\ ~InUndo' /\ ~InCall' /\ Len(op'.journal) = 0
  BY <1>1 DEF InBatch, InUndo, InCall
<1>3. Typed'
  BY <1>1, <1>2 DEF StartBatch, FileInv, Typed
<1>4. Known' /\ ScopeInv' /\ BatchInv'
  BY <1>1, <1>2, ContentsAreNumbers DEF StartBatch, FileInv, Typed, Known, ScopeInv, BatchInv, Old
<1>5. ResidueInv'
  BY <1>1, <1>2 DEF StartBatch, FileInv, Typed, ResidueInv
<1> QED BY <1>2, <1>3, <1>4, <1>5, NoUndo DEF FileInv

LEMMA SnapshotKeeps ==
  ASSUME Bounds, FileInv, Snapshot
  PROVE  FileInv'
<1>1. InBatch /\ op \in Batches /\ op.step = "snapshot" /\ ~InCall /\ ~Written /\ ~op.incomplete
  BY BatchIs DEF Snapshot, Step, InBatch, InCall, Written, FileInv, BatchInv
<1>2. ledger \in [Workers -> [Files -> Contents \cup {None}]] /\ seen \in [Workers -> SUBSET Contents]
  BY DEF FileInv, Typed
<1>3. CASE At("publish")
  <2>1. /\ op' \in Batches /\ op'.k = "batch" /\ op'.step = "publish" /\ op'.snap = op.snap
        /\ op'.journal = op.journal /\ op'.cap = op.cap /\ op'.wrote = op.wrote
        /\ op'.incomplete = op.incomplete
    BY <1>1, <1>3 DEF At, Batches, BatchSteps
  <2> QED BY <1>1, <1>2, <2>1, QuietBatch DEF Snapshot, InCall, Written
<1>4. CASE op.todo # <<>> /\ op' = [op EXCEPT !.step = "decide", !.snap = disk[Call.f]]
  <2>1. Call.f \in Files /\ disk[Call.f] \in Contents
    BY <1>1, <1>4, CallIs DEF FileInv
  <2>2. /\ op' \in Batches /\ op'.k = "batch" /\ op'.step = "decide" /\ op'.snap = disk[Call.f]
        /\ op'.journal = op.journal /\ op'.cap = op.cap /\ op'.wrote = op.wrote
        /\ op'.incomplete = op.incomplete /\ op'.todo = op.todo
    BY <1>1, <1>4, <2>1 DEF Batches, BatchSteps
  <2>3. disk[Call.f] \in op.wrote => Journaled(op.journal, Call.f, disk[Call.f], Len(op.journal))
    BY <1>1, <2>1 DEF FileInv, BatchInv
  <2>4. op'.snap \in op.wrote => Journaled(op.journal, Call.f, op.snap, Len(op.journal))'
    BY <2>2, <2>3 DEF Journaled, Call
  <2> QED BY <1>1, <1>2, <1>4, <2>1, <2>2, <2>4, QuietBatch DEF Snapshot, InCall, Written
<1>5. CASE Fail(FALSE)
  BY <1>1, <1>2, <1>5, FailResult, QuietBatch DEF Snapshot, InCall, Written, FileInv
<1> QED BY <1>3, <1>4, <1>5 DEF Snapshot

LEMMA DecideKeeps ==
  ASSUME Bounds, FileInv, Decide
  PROVE  FileInv'
<1>1. InBatch /\ op \in Batches /\ op.step = "decide" /\ InCall /\ ~Written /\ ~op.incomplete
  BY BatchIs DEF Decide, Step, InBatch, InCall, Written, FileInv, BatchInv
<1>2. /\ ledger \in [Workers -> [Files -> Contents \cup {None}]] /\ seen \in [Workers -> SUBSET Contents]
      /\ op.todo # <<>>
  BY <1>1 DEF FileInv, Typed
<1>3. CASE op' = [op EXCEPT !.step = "capture", !.expected = disk[Call.f]]
  <2>1. disk[Call.f] \in Contents
    BY <1>1, <1>2, CallIs DEF FileInv
  <2>2. /\ op' \in Batches /\ op'.k = "batch" /\ op'.step = "capture" /\ op'.snap = op.snap
        /\ op'.journal = op.journal /\ op'.cap = op.cap /\ op'.wrote = op.wrote
        /\ op'.incomplete = op.incomplete /\ op'.todo = op.todo
    BY <1>1, <1>3, <2>1 DEF Batches, BatchSteps
  <2>3. op'.snap \in op.wrote => Journaled(op.journal, Call.f, op.snap, Len(op.journal))'
    BY <1>1, <2>2 DEF FileInv, BatchInv, Journaled, Call
  <2> QED BY <1>1, <1>2, <2>2, <2>3, QuietBatch DEF Decide, InCall, Written
<1>4. CASE Fail(FALSE)
  BY <1>1, <1>2, <1>4, FailResult, QuietBatch DEF Decide, InCall, Written, FileInv
<1> QED BY <1>3, <1>4 DEF Decide

LEMMA ExecutorFailsKeeps ==
  ASSUME Bounds, FileInv, ExecutorFails
  PROVE  FileInv'
<1>1. InBatch /\ op \in Batches /\ op.step = "execute" /\ InCall /\ ~Written /\ ~op.incomplete
  BY BatchIs DEF ExecutorFails, Step, InBatch, InCall, Written, FileInv, BatchInv
<1>2. op.todo # <<>> /\ op.w \in Workers /\ Fail(FALSE)
  BY <1>1 DEF FileInv, Typed, Batches, ExecutorFails
<1>3. ledger' \in [Workers -> [Files -> Contents \cup {None}]] /\ seen' \in [Workers -> SUBSET Contents]
  BY <1>2 DEF FileInv, Typed, ExecutorFails
<1> QED BY <1>1, <1>2, <1>3, FailResult, QuietBatch DEF ExecutorFails, InCall, Written, FileInv

LEMMA RefreshKeeps ==
  ASSUME Bounds, FileInv, Refresh
  PROVE  FileInv'
<1>1. InBatch /\ op \in Batches /\ op.step = "refresh" /\ InCall /\ Written /\ ~op.incomplete
  BY BatchIs DEF Refresh, Step, InBatch, InCall, Written, FileInv, BatchInv
<1>2. op.todo # <<>> /\ op.w \in Workers
  BY <1>1 DEF FileInv, Typed, Batches
<1>3. Call.f \in Files /\ disk[Call.f] \in Contents
  BY <1>1, <1>2, CallIs DEF FileInv
<1>4. Recorded(Call.f) \in Contents \cup {None}
  BY <1>3 DEF Recorded
<1>5. ledger' \in [Workers -> [Files -> Contents \cup {None}]] /\ seen' \in [Workers -> SUBSET Contents]
  BY <1>2, <1>3, <1>4 DEF FileInv, Typed, Refresh
<1>6. /\ op' \in Batches /\ op'.k = "batch" /\ op'.step = "journal" /\ op'.snap = op.snap
      /\ op'.journal = op.journal /\ op'.cap = op.cap /\ op'.wrote = op.wrote
      /\ op'.incomplete = op.incomplete /\ op'.todo = op.todo
  BY <1>1 DEF Refresh, At, Batches, BatchSteps
<1>7. op'.snap \in op.wrote => Journaled(op.journal, Call.f, op.snap, Len(op.journal))'
  BY <1>1, <1>6 DEF FileInv, BatchInv, Journaled, Call
<1>8. Call' = Call /\ Call.f \in op.cap /\ Written'
  BY <1>1, <1>6 DEF Call, FileInv, ScopeInv, Written, InBatch
<1> QED BY <1>1, <1>2, <1>5, <1>6, <1>7, <1>8, QuietBatch DEF Refresh, InCall

\* The preimages of a checkpoint that Capture starts or goes on with.
LEMMA CaptureResult ==
  ASSUME Bounds, FileInv, NEW f \in Files
  PROVE  LET m == WithPreimage(Started, f) IN
         /\ m \in Manifests /\ m.gen = gen /\ f \in DOMAIN m.files
         /\ started => DOMAIN manifest.files \subseteq DOMAIN m.files
         /\ \A g \in DOMAIN m.files :
              \/ started /\ g \in DOMAIN manifest.files /\ m.files[g] = manifest.files[g]
              \/ /\ g = f /\ ~(started /\ g \in DOMAIN manifest.files)
                 /\ m.files[g].pre = disk[f] /\ m.files[g].post = None
<1> DEFINE s == Started
<1>1. /\ s \in Manifests /\ s.gen = gen
      /\ started => s.files = manifest.files
      /\ ~started => DOMAIN s.files = {}
  <2>1. [g \in {} |-> 0] \in FileMaps
    <3>1. [g \in {} |-> 0] \in [{} -> Entries] /\ {} \in SUBSET Files
      OBVIOUS
    <3> QED BY <3>1 DEF FileMaps
  <2>2. gen \in Nat /\ manifest \in Manifests
    BY DEF FileInv, Typed, Bounds
  <2>3. CASE started
    BY <2>2, <2>3 DEF Started, FileInv, ScopeInv
  <2>4. CASE ~started
    BY <2>1, <2>2, <2>4 DEF Started, Manifests
  <2> QED BY <2>3, <2>4
<1>2. s.files \in FileMaps /\ disk[f] \in Contents
  BY <1>1 DEF Manifests, FileInv, Typed
<1>3. DOMAIN s.files \subseteq Files /\ \A g \in DOMAIN s.files : s.files[g] \in Entries
  BY <1>2, CheckpointEntries
<1> HIDE DEF s
<1>4. CASE f \in DOMAIN s.files
  <2>1. WithPreimage(s, f) = s
    BY <1>4 DEF WithPreimage
  <2> QED BY <1>1, <1>4, <2>1 DEF s
<1>5. CASE f \notin DOMAIN s.files
  <2> DEFINE files == [g \in DOMAIN s.files \cup {f} |->
                         IF g = f THEN [pre |-> disk[f], post |-> None] ELSE s.files[g]]
  <2>1. WithPreimage(s, f) = [s EXCEPT !.files = files]
    BY <1>5 DEF WithPreimage
  <2>2. files \in [DOMAIN s.files \cup {f} -> Entries]
    BY <1>2, <1>3 DEF Entries
  <2>3. files \in FileMaps
    BY <1>3, <2>2, CheckpointOf
  <2>4. WithPreimage(s, f) \in Manifests /\ WithPreimage(s, f).gen = gen /\ WithPreimage(s, f).files = files
    BY <1>1, <2>1, <2>3 DEF Manifests
  <2>5. /\ f \in DOMAIN files /\ files[f].pre = disk[f] /\ files[f].post = None
        /\ DOMAIN files = DOMAIN s.files \cup {f}
        /\ \A g \in DOMAIN s.files : files[g] = s.files[g]
    BY <1>5
  <2> HIDE DEF files
  <2> QED BY <1>1, <1>5, <2>4, <2>5 DEF s
<1> QED BY <1>4, <1>5

LEMMA CaptureKeeps ==
  ASSUME Bounds, FileInv, Capture
  PROVE  FileInv'
<1>1. /\ InBatch /\ op \in Batches /\ op.step = "capture" /\ InCall /\ ~Written
      /\ ~op.incomplete /\ op.todo # <<>>
  BY BatchIs DEF Capture, Step, InBatch, InCall, Written, FileInv, BatchInv, Typed
<1>2. Call.f \in Files /\ disk[Call.f] \in Contents
  BY <1>1, CallIs DEF FileInv
<1>3. CASE Fail(FALSE) /\ UNCHANGED <<manifest, started, edited>>
  BY <1>1, <1>3, FailResult, QuietBatch DEF Capture, InCall, Written, FileInv, Typed
<1>4. CASE /\ manifest' = WithPreimage(Started, Call.f) /\ started' = TRUE
           /\ op' = [op EXCEPT !.step = "execute", !.cap = @ \cup {Call.f}]
  <2>1. /\ op' \in Batches /\ op'.k = "batch" /\ op'.step = "execute" /\ op'.snap = op.snap
        /\ op'.journal = op.journal /\ op'.cap = op.cap \cup {Call.f} /\ op'.wrote = op.wrote
        /\ op'.incomplete = op.incomplete /\ op'.todo = op.todo
    BY <1>1, <1>2, <1>4 DEF Batches, BatchSteps
  <2>2. /\ InBatch' /\ ~InUndo' /\ InCall' /\ ~Written' /\ Call' = Call
        /\ UNCHANGED <<disk, gen, next, userEdits, byUser, runWrote, residue, ledger, seen>>
    BY <1>1, <2>1 DEF InBatch, InUndo, InCall, Written, Call, Capture
  <2>3. /\ manifest' \in Manifests /\ manifest'.gen = gen /\ Call.f \in DOMAIN manifest'.files
        /\ started => DOMAIN manifest.files \subseteq DOMAIN manifest'.files
        /\ \A g \in DOMAIN manifest'.files :
             \/ started /\ g \in DOMAIN manifest.files /\ manifest'.files[g] = manifest.files[g]
             \/ /\ g = Call.f /\ ~(started /\ g \in DOMAIN manifest.files)
                /\ manifest'.files[g].pre = disk[Call.f] /\ manifest'.files[g].post = None
    BY <1>2, <1>4, CaptureResult
  <2>4. Typed'
    BY <2>1, <2>2, <2>3, <1>1, <1>4 DEF FileInv, Typed
  <2>5. Known'
    BY <1>1, <1>2, <2>1, <2>2, <2>3 DEF FileInv, Known, Old
  <2>6. disk[Call.f] \in runWrote => started /\ Call.f \in DOMAIN manifest.files
    BY <1>2 DEF FileInv, ScopeInv
  <2>7. ScopeInv'
    BY <1>1, <1>4, <2>1, <2>2, <2>3, <2>6 DEF FileInv, ScopeInv
  <2>8. disk[Call.f] \in op.wrote => started /\ Call.f \in DOMAIN manifest.files
    BY <1>1, <1>2 DEF FileInv, ScopeInv, BatchInv
  <2>9. None \notin op.wrote /\ None \notin residue
    BY <1>1, ContentsAreNumbers DEF FileInv, Typed, Known, Batches
  <2>10. ResidueInv'
    BY <1>1, <1>2, <2>1, <2>2, <2>3, <2>9 DEF FileInv, ResidueInv
  <2>11. BatchInv'
    <3>1. \A f \in DOMAIN manifest'.files :
            manifest'.files[f].pre \notin op.wrote /\ manifest'.files[f].post \notin op.wrote
      BY <1>1, <2>3, <2>8, <2>9 DEF FileInv, BatchInv
    <3> QED BY <1>1, <2>1, <2>2, <3>1 DEF FileInv, BatchInv
  <2> QED BY <2>2, <2>4, <2>5, <2>7, <2>10, <2>11, NoUndo DEF FileInv
<1> QED BY <1>3, <1>4 DEF Capture

LEMMA CommitKeeps ==
  ASSUME Bounds, FileInv, Commit
  PROVE  FileInv'
<1>1. /\ InBatch /\ op \in Batches /\ op.step = "execute" /\ InCall /\ ~Written
      /\ ~op.incomplete /\ op.todo # <<>> /\ op.w \in Workers
  BY BatchIs DEF Commit, Step, InBatch, InCall, Written, FileInv, BatchInv, Typed, Batches
<1>2. Call.f \in Files /\ Call.f \in op.cap
  BY <1>1, CallIs DEF FileInv, ScopeInv
<1>3. next \in Nat /\ next + 1 \in Contents /\ next + 1 # None /\ next < next + 1 /\ next + 1 \in 1 .. next + 1
      /\ \A x : Old(x) => x # next + 1
  BY ContentsAreNumbers DEF FileInv, Typed, Commit, Old
<1>4. /\ op' \in Batches /\ op'.k = "batch" /\ op'.step = "refresh" /\ op'.snap = op.snap
      /\ op'.journal = op.journal /\ op'.cap = op.cap /\ op'.wrote = op.wrote \cup {next + 1}
      /\ op'.incomplete = op.incomplete /\ op'.todo = op.todo
  BY <1>1, <1>3 DEF Commit, Batches, BatchSteps
<1>5. InBatch' /\ ~InUndo' /\ InCall' /\ Written' /\ Call' = Call
  BY <1>1, <1>4 DEF InBatch, InUndo, InCall, Written, Call
<1>6. /\ disk' = [disk EXCEPT ![Call.f] = next + 1] /\ next' = next + 1
      /\ runWrote' = runWrote \cup {next + 1} /\ seen' = [seen EXCEPT ![op.w] = @ \cup {next + 1}]
      /\ UNCHANGED <<ledger, gen, started, manifest, userEdits, byUser, residue>>
  BY DEF Commit
<1>7. \A f \in Files : disk'[f] = IF f = Call.f THEN next + 1 ELSE disk[f]
  BY <1>2, <1>6 DEF FileInv, Typed
<1>8. Typed'
  <2>1. disk' \in [Files -> Contents] /\ seen' \in [Workers -> SUBSET Contents]
    BY <1>1, <1>2, <1>3, <1>6 DEF FileInv, Typed
  <2> QED BY <1>1, <1>3, <1>4, <1>5, <1>6, <2>1 DEF FileInv, Typed
<1>9. \A x \in Contents \cup {None} : Old(x) => x = None \/ x <= next'
  BY <1>3, <1>6, ContentsAreNumbers DEF Old
<1>10. next + 1 <= next' /\ 1 .. next \subseteq 1 .. next'
  BY <1>3, <1>6
<1>11. Known'
  <2>1. \A f \in Files : disk[f] \in Contents
    BY DEF FileInv, Typed
  <2>2. \A f \in DOMAIN manifest.files :
          manifest.files[f].pre \in Contents /\ manifest.files[f].post \in Contents \cup {None}
    BY CheckpointEntries DEF FileInv, Typed, Manifests
  <2>3. /\ op.snap \in Contents
        /\ \A i \in 1 .. Len(op.journal) : op.journal[i].snap \in Contents /\ op.journal[i].post \in Contents
    BY <1>1, EntriesAreChanges DEF Batches
  <2> QED BY <1>1, <1>3, <1>4, <1>5, <1>6, <1>7, <1>9, <1>10, <2>1, <2>2, <2>3 DEF FileInv, Known, Old
<1>12. ScopeInv'
  BY <1>1, <1>2, <1>3, <1>4, <1>5, <1>6, <1>7 DEF FileInv, ScopeInv, Known
<1>13. next + 1 \notin residue
  BY <1>3 DEF FileInv, Typed
<1>14. ResidueInv'
  BY <1>1, <1>4, <1>5, <1>6, <1>7, <1>13 DEF FileInv, ResidueInv
<1>15. BatchInv'
  <2>2. ASSUME NEW f \in Files, disk'[f] \in op'.wrote
        PROVE  f \in op'.cap /\ (Journaled(op.journal, f, disk'[f], Len(op'.journal)) \/ f = Call.f)
    <3>1. CASE f = Call.f
      BY <1>2, <1>4, <3>1
    <3>2. CASE f # Call.f
      <4>1. disk'[f] = disk[f] /\ disk[f] \in op.wrote
        BY <1>3, <1>4, <1>7, <2>2, <3>2 DEF FileInv, Known
      <4> QED BY <1>1, <1>4, <4>1 DEF FileInv, BatchInv
    <3> QED BY <3>1, <3>2
  <2>3. ASSUME NEW i \in 1 .. Len(op.journal), op.journal[i].snap \in op'.wrote
        PROVE  Journaled(op.journal, op.journal[i].f, op.journal[i].snap, i - 1)
    <3>1. op.journal[i].snap \in op.wrote
      BY <1>1, <1>3, <1>4, <2>3 DEF FileInv, Known
    <3> QED BY <1>1, <3>1 DEF FileInv, BatchInv
  <2>4. op.snap \in op'.wrote => Journaled(op.journal, Call.f, op.snap, Len(op.journal))
    BY <1>1, <1>3, <1>4 DEF FileInv, Known, BatchInv
  <2>5. \A f \in DOMAIN manifest.files :
          manifest.files[f].pre \notin op'.wrote /\ manifest.files[f].post \notin op'.wrote
    BY <1>1, <1>3, <1>4 DEF FileInv, Known, BatchInv
  <2> QED BY <1>1, <1>4, <1>5, <1>6, <2>2, <2>3, <2>4, <2>5 DEF BatchInv
<1> QED BY <1>5, <1>8, <1>11, <1>12, <1>14, <1>15, NoUndo DEF FileInv

LEMMA JournalKeeps ==
  ASSUME Bounds, FileInv, Journal
  PROVE  FileInv'
<1>1. /\ InBatch /\ op \in Batches /\ op.step = "journal" /\ InCall /\ Written
      /\ ~op.incomplete /\ op.todo # <<>> /\ op.w \in Workers
  BY BatchIs DEF Journal, Step, InBatch, InCall, Written, FileInv, BatchInv, Typed, Batches
<1>2. Call.f \in Files /\ Call.f \in op.cap /\ disk[Call.f] \in Contents /\ Tail(op.todo) \in Seq(Calls)
  BY <1>1, CallIs DEF FileInv, ScopeInv
<1>3. UNCHANGED <<disk, ledger, gen, started, manifest, next, userEdits, byUser, seen, runWrote, residue>>
  BY DEF Journal
<1>4. CASE Fail(TRUE)
  BY <1>1, <1>3, <1>4, FailResult, QuietBatch DEF InCall, Written, FileInv, Typed
<1>5. CASE op' = [op EXCEPT !.step = "snapshot", !.todo = Tail(op.todo), !.snap = 0, !.expected = 0,
                            !.journal = Append(@, [f |-> Call.f, snap |-> op.snap, post |-> disk[Call.f]])]
  <2> DEFINE j == [f |-> Call.f, snap |-> op.snap, post |-> disk[Call.f]]
             n == Len(op.journal)
  <2>1. op.journal \in Seq(Changes) /\ n \in Nat
    BY <1>1, EntriesAreChanges
  <2>2. op.snap \in Contents /\ 0 \in Contents
    BY <1>1, ContentsAreNumbers DEF Batches
  <2>3. j \in Changes
    BY <1>2, <2>2 DEF Changes
  <2>4. j.f = Call.f /\ j.snap = op.snap /\ j.post = disk[Call.f]
    OBVIOUS
  <2> HIDE DEF j
  <2>5. /\ Append(op.journal, j) \in Seq(Changes) /\ Len(Append(op.journal, j)) = n + 1
        /\ \A i \in 1 .. n : Append(op.journal, j)[i] = op.journal[i]
        /\ Append(op.journal, j)[n + 1] = j
    BY <2>1, <2>3
  <2>6. op' = [op EXCEPT !.step = "snapshot", !.todo = Tail(op.todo), !.snap = 0, !.expected = 0,
                         !.journal = Append(op.journal, j)]
    BY <1>5 DEF j
  <2>7. /\ op' \in Batches /\ op'.k = "batch" /\ op'.step = "snapshot" /\ op'.snap = 0
        /\ op'.journal = Append(op.journal, j) /\ op'.cap = op.cap /\ op'.wrote = op.wrote
        /\ op'.incomplete = op.incomplete
    BY <1>1, <1>2, <2>2, <2>5, <2>6 DEF Batches, BatchSteps
  <2>8. InBatch' /\ ~InUndo' /\ ~InCall' /\ ~Written'
    BY <2>7 DEF InBatch, InUndo, InCall, Written
  <2>9. Typed'
    BY <1>1, <1>3, <2>7, <2>8 DEF FileInv, Typed
  <2>10. 1 .. n + 1 = 1 .. n \cup {n + 1} /\ n + 1 \in 1 .. n + 1
    BY <2>1
  <2>11. Known'
    <3>1. Old(op.snap) /\ Old(disk[Call.f]) /\ Old(0)
      BY <1>1, <1>2, ContentsAreNumbers DEF FileInv, Known, Old, Typed
    <3> QED BY <1>1, <1>3, <2>4, <2>5, <2>7, <2>8, <2>10, <3>1 DEF FileInv, Known, Old
  <2>12. ScopeInv'
    BY <1>1, <1>2, <1>3, <2>4, <2>5, <2>7, <2>8, <2>10 DEF FileInv, ScopeInv
  <2>13. ResidueInv'
    <3>1. 0 \notin residue
      BY DEF FileInv, Typed
    <3> QED BY <1>1, <1>3, <2>4, <2>5, <2>7, <2>8, <2>10, <3>1 DEF FileInv, ResidueInv
  <2>14. \A f, x : \A k \in 0 .. n : Journaled(op.journal, f, x, k) =>
                        Journaled(op'.journal, f, x, k) /\ Journaled(op'.journal, f, x, n + 1)
    BY <2>1, <2>5, <2>7 DEF Journaled
  <2>15. Journaled(op'.journal, Call.f, disk[Call.f], n + 1)
    <3>1. op'.journal[n + 1].f = Call.f /\ op'.journal[n + 1].post = disk[Call.f]
      BY <2>4, <2>5, <2>7
    <3> QED BY <1>3, <2>10, <3>1 DEF Journaled
  <2>16. BatchInv'
    <3>1. ASSUME NEW f \in Files, disk[f] \in op.wrote
          PROVE  f \in op.cap /\ Journaled(op'.journal, f, disk[f], n + 1)
      <4>1. f \in op.cap /\ (Journaled(op.journal, f, disk[f], n) \/ f = Call.f)
        BY <1>1, <3>1 DEF FileInv, BatchInv
      <4> QED BY <1>2, <1>3, <2>1, <2>14, <2>15, <4>1
    <3>2. ASSUME NEW i \in 1 .. n + 1, op'.journal[i].snap \in op.wrote
          PROVE  Journaled(op'.journal, op'.journal[i].f, op'.journal[i].snap, i - 1)
      <4>1. CASE i \in 1 .. n
        <5>1. op'.journal[i] = op.journal[i] /\ i - 1 \in 0 .. n
          BY <2>1, <2>5, <2>7, <4>1
        <5>2. Journaled(op.journal, op.journal[i].f, op.journal[i].snap, i - 1)
          BY <1>1, <3>2, <4>1, <5>1 DEF FileInv, BatchInv
        <5> QED BY <2>14, <5>1, <5>2
      <4>2. CASE i = n + 1
        <5>1. op'.journal[i].f = Call.f /\ op'.journal[i].snap = op.snap /\ i - 1 = n
          BY <2>1, <2>4, <2>5, <2>7, <4>2
        <5>2. Journaled(op.journal, Call.f, op.snap, n)
          BY <1>1, <3>2, <5>1 DEF FileInv, BatchInv
        <5> QED BY <2>1, <2>14, <5>1, <5>2
      <4> QED BY <2>10, <4>1, <4>2
    <3> QED BY <1>1, <1>3, <2>5, <2>7, <2>8, <3>1, <3>2 DEF FileInv, BatchInv
  <2> QED BY <2>8, <2>9, <2>11, <2>12, <2>13, <2>16, NoUndo DEF FileInv
<1> QED BY <1>4, <1>5 DEF Journal

\* The newest entry of a journal, and what is left without it.
LEMMA NewestEntry ==
  ASSUME op \in Batches, op.journal # <<>>
  PROVE  LET n == Len(op.journal) IN
         /\ n \in Nat /\ n >= 1 /\ Last(op.journal) = op.journal[n] /\ Last(op.journal) \in Changes
         /\ Front(op.journal) \in Seq(Changes) /\ Len(Front(op.journal)) = n - 1
         /\ \A i \in 1 .. n - 1 : Front(op.journal)[i] = op.journal[i]
<1>1. op.journal \in Seq(Changes) /\ Len(op.journal) \in Nat /\ Len(op.journal) >= 1
  BY EntriesAreChanges
<1>2. op.journal[Len(op.journal)] \in Changes
  BY <1>1, EntriesAreChanges
<1>3. /\ Front(op.journal) \in Seq(Changes) /\ Len(Front(op.journal)) = Len(op.journal) - 1
      /\ \A i \in 1 .. Len(op.journal) - 1 : Front(op.journal)[i] = op.journal[i]
  BY <1>1 DEF Front
<1> QED BY <1>1, <1>2, <1>3 DEF Last

LEMMA RollbackKeeps ==
  ASSUME Bounds, FileInv, Rollback
  PROVE  FileInv'
<1> DEFINE n == Len(op.journal)
           j == Last(op.journal)
<1>1. InBatch /\ op \in Batches /\ op.step = "rollback" /\ ~InCall /\ ~Written /\ op.journal # <<>> /\ op.w \in Workers
  BY BatchIs DEF Rollback, Step, InBatch, InCall, Written, FileInv, Batches
<1>2. /\ n = Len(op.journal) /\ n \in Nat /\ n >= 1 /\ j = op.journal[n] /\ j \in Changes
      /\ Front(op.journal) \in Seq(Changes) /\ Len(Front(op.journal)) = n - 1
      /\ \A i \in 1 .. n - 1 : Front(op.journal)[i] = op.journal[i]
  BY <1>1, NewestEntry
<1>3. j.f \in Files /\ j.snap \in Contents /\ n \in 1 .. n /\ 1 .. n = 1 .. n - 1 \cup {n}
  BY <1>2 DEF Changes
<1> HIDE DEF n, j
<1>4. PICK inc \in BOOLEAN :
        /\ op' = [op EXCEPT !.journal = Front(op.journal), !.incomplete = inc]
        /\ \/ disk' = [disk EXCEPT ![j.f] = j.snap] /\ inc = op.incomplete
           \/ disk' = disk /\ inc = TRUE
        /\ \E x \in Contents \cup {None} : ledger' = [ledger EXCEPT ![op.w][j.f] = x]
  <2>1. CASE /\ disk' = [disk EXCEPT ![j.f] = j.snap]
             /\ ledger' = [ledger EXCEPT ![op.w][j.f] = IF j.snap = 0 THEN None ELSE j.snap]
             /\ op' = [op EXCEPT !.journal = Front(op.journal)]
    <3>1. op' = [op EXCEPT !.journal = Front(op.journal), !.incomplete = op.incomplete] /\ op.incomplete \in BOOLEAN
      BY <1>1, <2>1 DEF Batches
    <3> QED BY <1>3, <2>1, <3>1
  <2>2. CASE /\ ledger' = [ledger EXCEPT ![op.w][j.f] = None] /\ disk' = disk
             /\ op' = [op EXCEPT !.journal = Front(op.journal), !.incomplete = TRUE]
    BY <2>2
  <2> QED BY <2>1, <2>2 DEF Rollback, j
<1>5. /\ op' \in Batches /\ op'.k = "batch" /\ op'.step = "rollback" /\ op'.snap = op.snap
      /\ op'.journal = Front(op.journal) /\ op'.cap = op.cap /\ op'.wrote = op.wrote /\ op'.incomplete = inc
  BY <1>1, <1>2, <1>4 DEF Batches
<1>6. InBatch' /\ ~InUndo' /\ ~InCall' /\ ~Written'
  BY <1>5 DEF InBatch, InUndo, InCall, Written
<1>7. UNCHANGED <<gen, started, manifest, next, userEdits, byUser, seen, runWrote, residue>>
  BY DEF Rollback
<1>8. disk' \in [Files -> Contents] /\ ledger' \in [Workers -> [Files -> Contents \cup {None}]]
  BY <1>1, <1>3, <1>4 DEF FileInv, Typed
<1>9. \A f \in Files : disk'[f] = disk[f] \/ (f = j.f /\ disk'[f] = j.snap)
  BY <1>3, <1>4 DEF FileInv, Typed
<1>10. Typed'
  BY <1>1, <1>5, <1>6, <1>7, <1>8 DEF FileInv, Typed
<1>11. n \in 1 .. n /\ Old(j.snap) /\ j.snap \notin residue /\ j.f \in op.cap /\ j.f \in DOMAIN manifest.files
  BY <1>1, <1>2, <1>3 DEF FileInv, Known, ResidueInv, ScopeInv
<1>12. Known'
  <2>1. \A i \in 1 .. n - 1 : i \in 1 .. n
    BY <1>2
  <2>2. \A f \in Files : disk'[f] = None \/ disk'[f] <= next
    BY <1>9, <1>11 DEF FileInv, Known, Old
  <2> QED BY <1>1, <1>2, <1>5, <1>6, <1>7, <2>1, <2>2 DEF FileInv, Known, Old
<1>13. ScopeInv'
  <2>1. \A f \in Files : started /\ disk'[f] \in runWrote => f \in DOMAIN manifest.files
    BY <1>9, <1>11 DEF FileInv, ScopeInv
  <2>2. \A i \in 1 .. n - 1 : Front(op.journal)[i].f \in op.cap
    BY <1>1, <1>2 DEF FileInv, ScopeInv
  <2> QED BY <1>1, <1>2, <1>5, <1>6, <1>7, <2>1, <2>2 DEF FileInv, ScopeInv
<1>14. ResidueInv'
  BY <1>1, <1>2, <1>5, <1>6, <1>7, <1>9, <1>11 DEF FileInv, ResidueInv
<1>15. BatchInv'
  <2>1. \A f, x : \A k \in 0 .. n - 1 : Journaled(op.journal, f, x, k) => Journaled(op'.journal, f, x, k)
    BY <1>2, <1>5 DEF Journaled
  <2>2. n - 1 \in 0 .. n - 1 /\ \A i \in 1 .. n - 1 : i - 1 \in 0 .. n - 1
    BY <1>2
  <2>3. ASSUME NEW f \in Files, disk'[f] \in op.wrote, ~inc
        PROVE  f \in op.cap /\ Journaled(op.journal, f, disk'[f], n - 1)
    <3>1. disk' = [disk EXCEPT ![j.f] = j.snap] /\ ~op.incomplete
      BY <1>4, <2>3
    <3>2. CASE f = j.f
      <4>1. disk'[f] = j.snap
        BY <3>1, <3>2, <1>3 DEF FileInv, Typed
      <4> QED BY <1>1, <1>2, <1>3, <1>11, <2>3, <3>2, <4>1 DEF FileInv, BatchInv
    <3>3. CASE f # j.f
      <4>1. disk'[f] = disk[f]
        BY <3>1, <3>3, <1>3 DEF FileInv, Typed
      <4>2. f \in op.cap /\ Journaled(op.journal, f, disk[f], n)
        BY <1>1, <1>2, <2>3, <3>1, <4>1 DEF FileInv, BatchInv
      <4> QED BY <1>2, <1>3, <3>3, <4>1, <4>2 DEF Journaled
    <3> QED BY <3>2, <3>3
  <2>4. ASSUME NEW f \in Files, disk'[f] \in op.wrote
        PROVE  f \in op.cap
    BY <1>1, <1>9, <1>11, <2>4 DEF FileInv, BatchInv
  <2>5. ASSUME NEW i \in 1 .. n - 1, op.journal[i].snap \in op.wrote
        PROVE  Journaled(op.journal, op.journal[i].f, op.journal[i].snap, i - 1)
    <3>1. i \in 1 .. Len(op.journal)
      BY <1>2
    <3> QED BY <1>1, <2>5, <3>1 DEF FileInv, BatchInv
  <2> QED BY <1>1, <1>2, <1>5, <1>6, <1>7, <2>1, <2>2, <2>3, <2>4, <2>5 DEF FileInv, BatchInv
<1> QED BY <1>6, <1>10, <1>12, <1>13, <1>14, <1>15, NoUndo DEF FileInv

\* The postimages of a committed batch are what the disk holds.
LEMMA PublishedEntry ==
  ASSUME FileInv, InBatch, op \in Batches, NEW f \in DOMAIN manifest.files,
         \A j \in FinalPosts : disk[j.f] = j.post
  PROVE  LET e == manifest.files[f]  q == WithPostimage(f, e) IN
         /\ q \in Entries /\ q.pre = e.pre
         /\ q = e \/ (q.post = disk[f] /\ \E i \in 1 .. Len(op.journal) : op.journal[i].post = q.post)
<1> DEFINE e == manifest.files[f]
<1>1. f \in Files /\ e \in Entries
  BY CheckpointEntries DEF FileInv, Typed, Manifests
<1>2. \A j \in FinalPosts : j \in Changes /\ \E i \in 1 .. Len(op.journal) : op.journal[i] = j
  BY EntriesAreChanges DEF FinalPosts
<1> HIDE DEF e
<1>3. CASE \E j \in FinalPosts : j.f = f
  <2> DEFINE j == CHOOSE j \in FinalPosts : j.f = f
  <2>1. j \in FinalPosts /\ j.f = f
    BY <1>3
  <2>2. WithPostimage(f, e) = [e EXCEPT !.post = j.post]
    BY <1>3 DEF WithPostimage
  <2> HIDE DEF j
  <2>3. j.post \in Contents /\ j.post = disk[f] /\ \E i \in 1 .. Len(op.journal) : op.journal[i].post = j.post
    BY <1>2, <2>1 DEF Changes
  <2> QED BY <1>1, <2>2, <2>3 DEF Entries, e
<1>4. CASE ~\E j \in FinalPosts : j.f = f
  BY <1>1, <1>4 DEF WithPostimage, e
<1> QED BY <1>3, <1>4

LEMMA PublishKeeps ==
  ASSUME Bounds, FileInv, Publish
  PROVE  FileInv'
<1>1. InBatch /\ op \in Batches /\ op.step = "publish" /\ ~InCall /\ ~Written /\ ~op.incomplete
  BY BatchIs DEF Publish, Step, InBatch, InCall, Written, FileInv, BatchInv
<1>2. /\ UNCHANGED <<disk, ledger, gen, started, next, userEdits, byUser, seen, runWrote, residue>>
      /\ ledger \in [Workers -> [Files -> Contents \cup {None}]] /\ seen \in [Workers -> SUBSET Contents]
  BY DEF Publish, FileInv, Typed
<1>3. CASE op' = [op EXCEPT !.step = "rollback"] /\ UNCHANGED manifest
  <2>1. /\ op' \in Batches /\ op'.k = "batch" /\ op'.step = "rollback" /\ op'.snap = op.snap
        /\ op'.journal = op.journal /\ op'.cap = op.cap /\ op'.wrote = op.wrote
        /\ op'.incomplete = op.incomplete
    BY <1>1, <1>3 DEF Batches, BatchSteps
  <2> QED BY <1>1, <1>2, <1>3, <2>1, QuietBatch DEF InCall, Written
<1>4. CASE /\ \A j \in FinalPosts : disk[j.f] = j.post /\ j.f \in DOMAIN manifest.files
           /\ manifest' = [manifest EXCEPT !.files = [f \in DOMAIN @ |-> WithPostimage(f, @[f])]]
           /\ op' = Free
  <2> DEFINE files == [f \in DOMAIN manifest.files |-> WithPostimage(f, manifest.files[f])]
  <2>1. \A f \in DOMAIN manifest.files :
          /\ files[f] \in Entries /\ files[f].pre = manifest.files[f].pre
          /\ files[f].post = manifest.files[f].post \/ (f \in Files /\ files[f].post = disk[f])
    <3>1. DOMAIN manifest.files \subseteq Files
      BY CheckpointEntries DEF FileInv, Typed, Manifests
    <3> QED BY <1>1, <1>4, <3>1, PublishedEntry
  <2>2. files \in [DOMAIN manifest.files -> Entries] /\ DOMAIN files = DOMAIN manifest.files
    BY <2>1
  <2> HIDE DEF files
  <2>3. files \in FileMaps
    BY <2>2, CheckpointEntries, CheckpointOf DEF FileInv, Typed, Manifests
  <2>4. manifest' \in Manifests /\ manifest'.gen = manifest.gen /\ manifest'.files = files
    BY <1>4, <2>3 DEF FileInv, Typed, Manifests, files
  <2>5. ~InBatch' /\ ~InUndo' /\ ~InCall'
    BY <1>4 DEF InBatch, InUndo, InCall, Free
  <2>6. Typed'
    BY <1>2, <1>4, <2>4, <2>5 DEF FileInv, Typed
  <2>7. Known' /\ ScopeInv' /\ ResidueInv'
    BY <1>2, <2>1, <2>2, <2>4, <2>5 DEF FileInv, Known, ScopeInv, ResidueInv, Old
  <2> QED BY <2>5, <2>6, <2>7, NoUndo, NoBatch DEF FileInv
<1> QED BY <1>3, <1>4 DEF Publish

LEMMA ReportFailureKeeps ==
  ASSUME Bounds, FileInv, ReportFailure
  PROVE  FileInv'
<1>1. InBatch /\ op \in Batches /\ op.step = "rollback" /\ ~InCall /\ ~Written /\ op.journal = <<>>
  BY BatchIs DEF ReportFailure, Step, InBatch, InCall, Written, FileInv
<1>2. UNCHANGED <<disk, ledger, gen, started, next, userEdits, byUser, seen, runWrote>> /\ op' = Free
  BY DEF ReportFailure
<1>3. ~InBatch' /\ ~InUndo' /\ ~InCall'
  BY <1>2 DEF InBatch, InUndo, InCall, Free
<1>4. \A f, x : ~Journaled(op.journal, f, x, Len(op.journal))
  BY <1>1 DEF Journaled
<1>5. ~op.incomplete => \A f \in Files : disk[f] \notin op.wrote
  BY <1>1, <1>4 DEF FileInv, BatchInv
<1>6. /\ residue' = residue \/ (residue' = residue \cup op.wrote /\ ~op.incomplete)
      /\ residue' \subseteq 1 .. next
  BY <1>1 DEF ReportFailure, Settle, FileInv, Typed, Known
<1>7. /\ manifest' \in Manifests /\ manifest'.gen = manifest.gen
      /\ DOMAIN manifest'.files = DOMAIN manifest.files
      /\ \A f \in DOMAIN manifest.files :
           /\ manifest'.files[f].pre = manifest.files[f].pre
           /\ manifest'.files[f].post \in {manifest.files[f].pre, manifest.files[f].post}
  <2>1. /\ manifest.files \in FileMaps /\ manifest \in Manifests /\ DOMAIN manifest.files \subseteq Files
        /\ \A f \in DOMAIN manifest.files :
             manifest.files[f] \in Entries /\ manifest.files[f].pre \in Contents
    BY CheckpointEntries DEF FileInv, Typed, Manifests
  <2>2. CASE manifest' = manifest
    BY <2>1, <2>2
  <2>3. CASE manifest' = Settled
    <3> DEFINE files == [f \in DOMAIN manifest.files |->
                           IF f \in Unsettled
                           THEN [pre |-> manifest.files[f].pre, post |-> manifest.files[f].pre]
                           ELSE manifest.files[f]]
    <3>1. \A f \in DOMAIN manifest.files :
            /\ files[f] \in Entries /\ files[f].pre = manifest.files[f].pre
            /\ files[f].post \in {manifest.files[f].pre, manifest.files[f].post}
      BY <2>1 DEF Entries
    <3>2. files \in [DOMAIN manifest.files -> Entries] /\ DOMAIN files = DOMAIN manifest.files
      BY <3>1
    <3>3. manifest' = [manifest EXCEPT !.files = files]
      BY <2>3 DEF Settled
    <3> HIDE DEF files
    <3>4. files \in FileMaps
      BY <2>1, <3>2, CheckpointOf
    <3> QED BY <2>1, <3>1, <3>2, <3>3, <3>4 DEF Manifests
  <2> QED BY <2>2, <2>3 DEF ReportFailure, Settle
<1>8. Typed'
  BY <1>2, <1>3, <1>6, <1>7 DEF FileInv, Typed
<1>9. Known' /\ ScopeInv'
  BY <1>1, <1>2, <1>3, <1>7 DEF FileInv, Known, ScopeInv, Old
<1>10. ResidueInv'
  BY <1>1, <1>2, <1>3, <1>5, <1>6, <1>7 DEF FileInv, ResidueInv, BatchInv
<1> QED BY <1>3, <1>8, <1>9, <1>10, NoUndo, NoBatch DEF FileInv

LEMMA ReadKeeps ==
  ASSUME Bounds, FileInv, NEW w \in Workers, NEW f \in Files, Read(w, f)
  PROVE  FileInv'
<1>1. UNCHANGED <<disk, gen, started, manifest, op, next, userEdits, byUser, runWrote, residue>>
  BY DEF Read
<1>2. disk[f] \in Contents
  BY DEF FileInv, Typed
<1>3. /\ ledger' \in [Workers -> [Files -> Contents \cup {None}]]
      /\ seen' \in [Workers -> SUBSET Contents]
  <2>1. Recorded(f) \in Contents \cup {None}
    BY <1>2 DEF Recorded
  <2>2. /\ ledger \in [Workers -> [Files -> Contents \cup {None}]]
        /\ seen \in [Workers -> SUBSET Contents]
    BY DEF FileInv, Typed
  <2>3. /\ ledger' = [ledger EXCEPT ![w][f] = Recorded(f)]
        /\ seen' = [seen EXCEPT ![w] = @ \cup {disk[f]}]
    BY DEF Read
  <2>4. ledger' \in [Workers -> [Files -> Contents \cup {None}]]
    BY <2>1, <2>2, <2>3
  <2> QED BY <1>2, <2>2, <2>3, <2>4
<1>4. Typed'
  <2>1. Typed /\ (InCall' <=> InCall) /\ (InUndo' <=> InUndo)
    BY <1>1 DEF FileInv, InCall, InBatch, InUndo
  <2>2. /\ InCall' => op'.todo # <<>>
        /\ InUndo' => /\ op'.sel \subseteq DOMAIN op'.files
                      /\ op'.restorable \subseteq op'.sel /\ op'.todo \subseteq op'.sel
                      /\ \A g \in op'.sel : op'.files[g].post # None
                      /\ \A i \in 1 .. Len(op'.applied) : op'.applied[i] \in op'.sel
    BY <1>1, <2>1 DEF Typed
  <2> QED BY <1>1, <1>3, <2>1, <2>2 DEF Typed
<1>5. Known' /\ ScopeInv' /\ ResidueInv'
  <2>1. (InBatch' <=> InBatch) /\ (InUndo' <=> InUndo) /\ Call' = Call
    BY <1>1 DEF InBatch, InUndo, Call
  <2>2. Known'
    BY <1>1, <2>1 DEF FileInv, Known, Old
  <2>3. ScopeInv'
    BY <1>1, <2>1 DEF FileInv, ScopeInv
  <2>4. ResidueInv'
    BY <1>1, <2>1 DEF FileInv, ResidueInv
  <2> QED BY <2>2, <2>3, <2>4
<1>6. BatchInv'
  BY <1>1 DEF FileInv, BatchInv, InBatch, InCall, Written, Call
<1>7. UndoInv'
  BY <1>1 DEF FileInv, UndoInv, InUndo, UndoAllOrNothing, UndoStep
<1> QED BY <1>4, <1>5, <1>6, <1>7 DEF FileInv

\* Somebody else writes a new content, or removes a file.
LEMMA OthersKeep ==
  ASSUME Bounds, FileInv, NEW f \in Files, UserEdits(f) \/ UserRemoves(f)
  PROVE  FileInv'
<1>1. PICK x \in Contents :
        /\ disk' = [disk EXCEPT ![f] = x]
        /\ \/ x = 0 /\ next' = next /\ byUser' = byUser
           \/ x = next + 1 /\ next' = next + 1 /\ byUser' = byUser \cup {next + 1}
  BY ContentsAreNumbers DEF FileInv, Typed, UserEdits, UserRemoves
<1>2. UNCHANGED <<ledger, gen, started, manifest, seen, runWrote, residue>> /\ Touched(f)
  BY DEF UserEdits, UserRemoves
<1>3. /\ next \in Nat /\ next' \in Contents /\ next <= next' /\ 1 .. next \subseteq 1 .. next'
      /\ x <= next' /\ (x = 0 \/ x = next + 1) /\ byUser' \subseteq 1 .. next'
  <2>1. next \in Nat /\ byUser \subseteq 1 .. next /\ x \in Nat
    BY ContentsAreNumbers DEF FileInv, Typed
  <2>2. next' \in Contents
    BY <1>1 DEF FileInv, Typed
  <2>3. CASE x = 0 /\ next' = next /\ byUser' = byUser
    BY <2>1, <2>2, <2>3
  <2>4. CASE x = next + 1 /\ next' = next + 1 /\ byUser' = byUser \cup {next + 1}
    BY <2>1, <2>2, <2>4
  <2> QED BY <1>1, <2>3, <2>4
<1>4. x \notin residue /\ x \notin runWrote
  BY <1>3 DEF FileInv, Typed
<1>5. disk' \in [Files -> Contents] /\ \A g \in Files : disk'[g] = IF g = f THEN x ELSE disk[g]
  BY <1>1 DEF FileInv, Typed
<1>6. userEdits' \in 0 .. MaxUserEdits
  BY DEF UserEdits, UserRemoves, FileInv, Typed, Bounds
<1>7. \A y \in Contents \cup {None} : Old(y) => y = None \/ y <= next'
  BY <1>3, ContentsAreNumbers DEF Old
<1>8. \A g \in DOMAIN manifest.files :
        manifest.files[g].pre \in Contents /\ manifest.files[g].post \in Contents \cup {None}
  BY CheckpointEntries DEF FileInv, Typed, Manifests
<1>9. CASE ~InUndo
  <2>1. op' = op
    BY <1>2, <1>9 DEF Touched, InUndo
  <2>2. Typed'
    BY <1>2, <1>3, <1>5, <1>6, <1>9, <2>1 DEF FileInv, Typed, InCall, InBatch, InUndo
  <2>3. InBatch => /\ op.snap \in Contents
                   /\ \A i \in 1 .. Len(op.journal) : op.journal[i].snap \in Contents /\ op.journal[i].post \in Contents
    BY BatchIs, EntriesAreChanges DEF FileInv, Batches
  <2>4. \A g \in Files : disk'[g] <= next'
    BY <1>3, <1>5, <1>7, ContentsAreNumbers DEF FileInv, Known, Typed
  <2>5. Known'
    BY <1>2, <1>3, <1>7, <1>8, <1>9, <2>1, <2>3, <2>4 DEF FileInv, Known, InBatch, InUndo, Old
  <2>6. ScopeInv' /\ ResidueInv'
    BY <1>2, <1>4, <1>5, <1>9, <2>1 DEF FileInv, ScopeInv, ResidueInv, InBatch, InUndo, Call
  <2>7. InBatch => x \notin op.wrote
    BY <1>3 DEF FileInv, Known
  <2>8. BatchInv'
    BY <1>2, <1>5, <2>1, <2>7 DEF FileInv, BatchInv, InBatch, InCall, Written, Call
  <2> QED BY <1>9, <2>1, <2>2, <2>5, <2>6, <2>8, NoUndo DEF FileInv, InUndo
<1>10. CASE InUndo
  <2>1. op \in Undos /\ op' = [op EXCEPT !.touched = @ \cup {f}]
    BY <1>2, <1>10, UndoIs DEF Touched, InUndo, FileInv
  <2>2. /\ op' \in Undos /\ op'.k = "undo" /\ op'.step = op.step /\ op'.sel = op.sel
        /\ op'.files = op.files /\ op'.restorable = op.restorable /\ op'.todo = op.todo
        /\ op'.applied = op.applied /\ op'.outcome = op.outcome /\ op'.touched = op.touched \cup {f}
    BY <2>1 DEF Undos
  <2>3. InUndo' /\ ~InBatch' /\ ~InCall' /\ ~InBatch
    BY <1>10, <2>2, UndoIs DEF InUndo, InBatch, InCall, FileInv
  <2>4. Typed'
    BY <1>2, <1>3, <1>5, <1>6, <1>10, <2>2, <2>3 DEF FileInv, Typed
  <2>5. \A g \in DOMAIN op.files : op.files[g].pre \in Contents /\ op.files[g].post \in Contents \cup {None}
    BY <2>1, CheckpointEntries DEF Undos
  <2>6. \A g \in Files : disk'[g] <= next'
    BY <1>3, <1>5, <1>7, ContentsAreNumbers DEF FileInv, Known, Typed
  <2>7. Known'
    BY <1>2, <1>3, <1>7, <1>8, <1>10, <2>2, <2>3, <2>5, <2>6 DEF FileInv, Known, Old
  <2>8. ScopeInv' /\ ResidueInv'
    BY <1>2, <1>4, <1>5, <1>10, <2>2, <2>3 DEF FileInv, ScopeInv, ResidueInv
  <2>9. UndoInv'
    <3>1. \A g \in op.sel \ op'.touched : g \in op.sel \ op.touched /\ g \in Files /\ disk'[g] = disk[g]
      BY <1>5, <2>1, <2>2 DEF Undos
    <3>2. op.restorable \subseteq op.sel
      BY <1>10 DEF FileInv, Typed
    <3> QED BY <1>10, <2>2, <3>1, <3>2 DEF FileInv, UndoInv, InUndo, UndoAllOrNothing, UndoStep
  <2> QED BY <2>3, <2>4, <2>7, <2>8, <2>9, NoBatch DEF FileInv
<1> QED BY <1>9, <1>10

LEMMA NewRunKeeps ==
  ASSUME Bounds, FileInv, NewRun
  PROVE  FileInv'
<1>1. /\ op' = Free /\ gen' = gen + 1 /\ started' = FALSE /\ runWrote' = {} /\ gen < MaxRuns
      /\ UNCHANGED <<disk, manifest, next, userEdits, byUser, residue>>
      /\ ledger' = [w \in Workers |-> [f \in Files |-> None]] /\ seen' = [w \in Workers |-> {}]
  BY DEF NewRun
<1>2. ~InBatch' /\ ~InUndo' /\ ~InCall'
  BY <1>1 DEF InBatch, InUndo, InCall, Free
<1>3. manifest.gen \in Nat /\ gen \in Nat /\ manifest.gen <= gen
  BY DEF FileInv, Typed, Manifests, Bounds
<1>4. Typed'
  <2>1. /\ gen' \in 1 .. MaxRuns /\ manifest'.gen <= gen' /\ started' \in BOOLEAN
        /\ runWrote' \subseteq 1 .. next'
    <3>1. MaxRuns \in Nat /\ gen \in 1 .. MaxRuns
      BY DEF Bounds, FileInv, Typed
    <3>2. gen + 1 \in 1 .. MaxRuns /\ manifest.gen <= gen + 1
      BY <1>1, <1>3, <3>1
    <3> QED BY <1>1, <3>2
  <2>2. /\ ledger' \in [Workers -> [Files -> Contents \cup {None}]]
        /\ seen' \in [Workers -> SUBSET Contents]
    BY <1>1
  <2> QED BY <1>1, <1>2, <2>1, <2>2 DEF FileInv, Typed
<1>5. Known' /\ ScopeInv' /\ ResidueInv'
  BY <1>1, <1>2, <1>3 DEF FileInv, Known, ScopeInv, ResidueInv, Old
<1> QED BY <1>2, <1>4, <1>5, NoUndo, NoBatch DEF FileInv

\* A step of an undo that leaves its selection and its checkpoint alone.
LEMMA UndoStepKeeps ==
  ASSUME Bounds, FileInv, InUndo, op' \in Undos, op'.k = "undo",
         op'.sel = op.sel, op'.files = op.files, op'.restorable = op.restorable, op'.touched = op.touched,
         op'.todo \subseteq op.todo,
         \A i \in 1 .. Len(op'.applied) : op'.applied[i] \in op.sel,
         UNCHANGED <<ledger, gen, started, manifest, next, userEdits, byUser, seen, runWrote, residue>>,
         disk' = disk \/ \E f \in op.sel : disk' = [disk EXCEPT ![f] = op.files[f].pre]
                                           \/ disk' = [disk EXCEPT ![f] = op.files[f].post],
         UndoInv'
  PROVE  FileInv'
<1>1. InUndo' /\ ~InBatch' /\ ~InCall' /\ op \in Undos
  BY UndoIs DEF InUndo, InBatch, InCall, FileInv
<1>2. /\ op.sel \subseteq DOMAIN op.files /\ DOMAIN op.files \subseteq Files
      /\ \A f \in op.sel : op.files[f].pre \in Contents /\ op.files[f].post \in Contents
  BY <1>1, CheckpointEntries DEF FileInv, Typed, Undos
<1>3. disk' \in [Files -> Contents]
  BY <1>2 DEF FileInv, Typed
<1>4. \A g \in Files : \/ disk'[g] = disk[g]
                       \/ g \in op.sel /\ disk'[g] \in {op.files[g].pre, op.files[g].post}
  BY <1>2 DEF FileInv, Typed
<1>5. Typed'
  BY <1>1, <1>3 DEF FileInv, Typed
<1>6. Known'
  BY <1>1, <1>2, <1>4 DEF FileInv, Known, Old
<1>7. ScopeInv'
  BY <1>1 DEF FileInv, ScopeInv
<1>8. ResidueInv'
  BY <1>1, <1>2, <1>4 DEF FileInv, ResidueInv
<1> QED BY <1>1, <1>5, <1>6, <1>7, <1>8, NoBatch DEF FileInv

LEMMA StartUndoKeeps ==
  ASSUME Bounds, FileInv, NEW sel \in SUBSET DOMAIN manifest.files, StartUndo(sel)
  PROVE  FileInv'
<1>1. /\ gen' = gen + 1 /\ gen < MaxRuns /\ started' = FALSE /\ runWrote' = {}
      /\ UNCHANGED <<disk, manifest, next, userEdits, byUser, residue>>
      /\ ledger' = [w \in Workers |-> [f \in Files |-> None]] /\ seen' = [w \in Workers |-> {}]
  BY DEF StartUndo
<1>2. /\ manifest.gen \in Nat /\ gen \in Nat /\ manifest.gen <= gen
      /\ manifest.files \in FileMaps /\ DOMAIN manifest.files \subseteq Files
  BY CheckpointEntries DEF FileInv, Typed, Manifests, Bounds
<1>3. /\ gen' \in 1 .. MaxRuns /\ manifest'.gen <= gen' /\ started' \in BOOLEAN
      /\ runWrote' \subseteq 1 .. next'
      /\ ledger' \in [Workers -> [Files -> Contents \cup {None}]]
      /\ seen' \in [Workers -> SUBSET Contents]
  <2>1. gen' \in 1 .. MaxRuns /\ manifest'.gen <= gen' /\ started' \in BOOLEAN /\ runWrote' \subseteq 1 .. next'
    <3>1. MaxRuns \in Nat /\ gen \in 1 .. MaxRuns
      BY DEF Bounds, FileInv, Typed
    <3>2. gen + 1 \in 1 .. MaxRuns /\ manifest.gen <= gen + 1
      BY <1>1, <1>2, <3>1
    <3> QED BY <1>1, <3>2
  <2> QED BY <1>1, <2>1
<1>4. CASE ~Preflight(sel)
  <2>1. op' = Free
    BY <1>4 DEF StartUndo
  <2>2. ~InBatch' /\ ~InUndo' /\ ~InCall'
    BY <2>1 DEF InBatch, InUndo, InCall, Free
  <2>3. Typed'
    BY <1>1, <1>3, <2>1, <2>2 DEF FileInv, Typed
  <2>4. Known' /\ ScopeInv' /\ ResidueInv'
    BY <1>1, <1>2, <2>2 DEF FileInv, Known, ScopeInv, ResidueInv, Old
  <2> QED BY <2>2, <2>3, <2>4, NoUndo, NoBatch DEF FileInv
<1>5. CASE Preflight(sel)
  <2>1. op' = [k |-> "undo", step |-> "apply", sel |-> sel, files |-> manifest.files,
               restorable |-> {f \in sel : Status(f) = "restorable"},
               todo |-> {f \in sel : Status(f) # "already_restored"}, applied |-> <<>>,
               outcome |-> "running", touched |-> {}]
    BY <1>5 DEF StartUndo
  <2>2. op' \in Undos
    BY <1>2, <2>1 DEF Undos
  <2>3. InUndo' /\ ~InBatch' /\ ~InCall'
    BY <2>1 DEF InUndo, InBatch, InCall
  <2>4. \A f \in sel :
          /\ manifest.files[f].post # None
          /\ Status(f) = "already_restored" => disk[f] = manifest.files[f].pre
          /\ Status(f) = "restorable" => disk[f] = manifest.files[f].post
    BY <1>5 DEF Preflight, Status
  <2>5. Typed'
    BY <1>1, <1>3, <2>1, <2>2, <2>3, <2>4 DEF FileInv, Typed
  <2>6. Known' /\ ScopeInv' /\ ResidueInv'
    BY <1>1, <1>2, <2>1, <2>3 DEF FileInv, Known, ScopeInv, ResidueInv, Old
  <2>7. UndoInv'
    BY <1>1, <2>1, <2>4 DEF UndoInv, UndoAllOrNothing, UndoStep
  <2> QED BY <2>3, <2>5, <2>6, <2>7, NoBatch DEF FileInv
<1> QED BY <1>4, <1>5

LEMMA ApplyKeeps ==
  ASSUME Bounds, FileInv, NEW f \in Files, Apply(f)
  PROVE  FileInv'
<1>1. InUndo /\ op \in Undos /\ op.step = "apply" /\ f \in op.todo /\ op.todo \subseteq op.sel
  BY UndoIs DEF Apply, UndoStep, InUndo, FileInv, Typed
<1>2. /\ op.applied \in Seq(Files) /\ Append(op.applied, f) \in Seq(Files)
      /\ Len(Append(op.applied, f)) = Len(op.applied) + 1 /\ Len(op.applied) \in Nat
      /\ \A i \in 1 .. Len(op.applied) : Append(op.applied, f)[i] = op.applied[i]
      /\ Append(op.applied, f)[Len(op.applied) + 1] = f
  BY <1>1 DEF Undos
<1>3. op' = [op EXCEPT !.todo = @ \ {f}, !.applied = Append(op.applied, f)]
      /\ disk' = [disk EXCEPT ![f] = op.files[f].pre]
      /\ UNCHANGED <<ledger, gen, started, manifest, next, userEdits, byUser, seen, runWrote, residue>>
  BY DEF Apply
<1>4. /\ op' \in Undos /\ op'.k = "undo" /\ op'.step = "apply" /\ op'.sel = op.sel
      /\ op'.files = op.files /\ op'.restorable = op.restorable /\ op'.todo = op.todo \ {f}
      /\ op'.applied = Append(op.applied, f) /\ op'.outcome = op.outcome /\ op'.touched = op.touched
  BY <1>1, <1>2, <1>3 DEF Undos
<1>5. disk'[f] = op.files[f].pre /\ \A g \in Files : g # f => disk'[g] = disk[g]
  BY <1>3 DEF FileInv, Typed
<1>6. \A i \in 1 .. Len(op.applied) + 1 : i \in 1 .. Len(op.applied) \/ i = Len(op.applied) + 1
  BY <1>2
<1>7. \A i \in 1 .. Len(op'.applied) : op'.applied[i] \in op.sel
  BY <1>1, <1>2, <1>4, <1>6 DEF FileInv, Typed
<1>8. UndoInv'
  <2>1. op.sel \subseteq Files /\ op.restorable \subseteq op.sel
    BY <1>1 DEF Undos, FileInv, Typed
  <2>2. \A g \in op.sel \ op.touched : g \notin op'.todo => disk'[g] = op.files[g].pre
    BY <1>1, <1>4, <1>5, <2>1 DEF FileInv, UndoInv
  <2>3. ASSUME NEW g \in op.restorable \ op.touched
        PROVE  disk'[g] = op.files[g].post \/ \E i \in 1 .. Len(op'.applied) : op'.applied[i] = g
    <3>1. CASE g = f
      BY <1>2, <1>4, <3>1
    <3>2. CASE g # f
      <4>1. disk[g] = op.files[g].post \/ \E i \in 1 .. Len(op.applied) : op.applied[i] = g
        BY <1>1, <2>1 DEF FileInv, UndoInv
      <4> QED BY <1>2, <1>4, <1>5, <2>1, <3>2, <4>1
    <3> QED BY <3>1, <3>2
  <2> QED BY <1>1, <1>4, <2>2, <2>3 DEF FileInv, UndoInv, UndoAllOrNothing, UndoStep
<1> QED BY <1>1, <1>3, <1>4, <1>7, <1>8, UndoStepKeeps

LEMMA UndoFailsKeeps ==
  ASSUME Bounds, FileInv, ApplyFails
  PROVE  FileInv'
<1>1. InUndo /\ op \in Undos /\ op.step = "apply"
  BY UndoIs DEF ApplyFails, UndoStep, InUndo, FileInv
<1>2. /\ op' \in Undos /\ op'.k = "undo" /\ op'.step = "unapply" /\ op'.sel = op.sel
      /\ op'.files = op.files /\ op'.restorable = op.restorable /\ op'.todo = op.todo
      /\ op'.applied = op.applied /\ op'.outcome = "failed" /\ op'.touched = op.touched
  BY <1>1 DEF Undos, ApplyFails
<1>3. UNCHANGED <<disk, ledger, gen, started, manifest, next, userEdits, byUser, seen, runWrote, residue>>
  BY DEF ApplyFails
<1>4. UndoInv' /\ \A i \in 1 .. Len(op'.applied) : op'.applied[i] \in op.sel
  BY <1>1, <1>2, <1>3 DEF FileInv, Typed, UndoInv, UndoAllOrNothing, UndoStep
<1> QED BY <1>1, <1>2, <1>3, <1>4, UndoStepKeeps

LEMMA UnapplyKeeps ==
  ASSUME Bounds, FileInv, Unapply
  PROVE  FileInv'
<1> DEFINE n == Len(op.applied)
           f == Last(op.applied)
<1>1. InUndo /\ op \in Undos /\ op.step = "unapply" /\ op.applied # <<>>
  BY UndoIs DEF Unapply, UndoStep, InUndo, FileInv
<1>2. /\ op.applied \in Seq(Files) /\ n = Len(op.applied) /\ n \in Nat /\ n >= 1
      /\ f = op.applied[n] /\ n \in 1 .. n
      /\ Front(op.applied) \in Seq(Files) /\ Len(Front(op.applied)) = n - 1
      /\ \A i \in 1 .. n - 1 : Front(op.applied)[i] = op.applied[i] /\ i \in 1 .. n
  <2>1. op.applied \in Seq(Files)
    BY <1>1 DEF Undos
  <2>2. n \in Nat /\ n >= 1
    BY <1>1, <2>1
  <2>3. /\ Front(op.applied) \in Seq(Files) /\ Len(Front(op.applied)) = n - 1
        /\ \A i \in 1 .. n - 1 : Front(op.applied)[i] = op.applied[i]
    BY <2>1, <2>2 DEF Front
  <2> QED BY <2>1, <2>2, <2>3 DEF Last
<1>3. f \in op.sel /\ f \in Files
  <2>1. op.sel \subseteq Files /\ \A i \in 1 .. Len(op.applied) : op.applied[i] \in op.sel
    BY <1>1 DEF FileInv, Typed, Undos
  <2> QED BY <1>2, <2>1
<1> HIDE DEF n, f
<1>4. PICK o \in {op.outcome, "incomplete"} :
        /\ op' = [op EXCEPT !.applied = Front(op.applied), !.outcome = o]
        /\ \/ disk' = [disk EXCEPT ![f] = op.files[f].post] /\ o = op.outcome
           \/ disk' = disk /\ disk[f] = op.files[f].post /\ o = op.outcome
           \/ disk' = disk /\ o = "incomplete"
        /\ UNCHANGED <<ledger, gen, started, manifest, next, userEdits, byUser, seen, runWrote, residue>>
  <2>1. op' = [op EXCEPT !.applied = Front(op.applied)] =>
          op' = [op EXCEPT !.applied = Front(op.applied), !.outcome = op.outcome]
    BY <1>1 DEF Undos
  <2> QED BY <2>1 DEF Unapply, f
<1>5. /\ op' \in Undos /\ op'.k = "undo" /\ op'.step = "unapply" /\ op'.sel = op.sel
      /\ op'.files = op.files /\ op'.restorable = op.restorable /\ op'.todo = op.todo
      /\ op'.applied = Front(op.applied) /\ op'.outcome = o /\ op'.touched = op.touched
  BY <1>1, <1>2, <1>4 DEF Undos
<1>6. \A i \in 1 .. Len(op'.applied) : op'.applied[i] \in op.sel
  BY <1>1, <1>2, <1>5 DEF FileInv, Typed
<1>7. UndoInv'
  <2>1. o \in {"failed", "incomplete"}
    BY <1>1, <1>4 DEF FileInv, UndoInv
  <2>2. ASSUME o # "incomplete", NEW g \in op.restorable \ op.touched
        PROVE  disk'[g] = op.files[g].post \/ \E i \in 1 .. n - 1 : op'.applied[i] = g
    <3>1. g \in Files /\ op.outcome # "incomplete" /\ o = op.outcome
      BY <1>1, <1>4, <2>2 DEF Undos
    <3>2. CASE g = f
      BY <1>3, <1>4, <2>2, <3>2 DEF FileInv, Typed
    <3>3. CASE g # f
      <4>1. disk'[g] = disk[g]
        BY <1>4, <3>1, <3>3, <1>3 DEF FileInv, Typed
      <4>2. disk[g] = op.files[g].post \/ \E i \in 1 .. n : op.applied[i] = g
        BY <1>1, <1>2, <3>1 DEF FileInv, UndoInv
      <4>3. ASSUME NEW i \in 1 .. n, op.applied[i] = g
            PROVE  i \in 1 .. n - 1 /\ op'.applied[i] = g
        <5>1. i # n /\ i \in 1 .. n - 1
          BY <1>2, <3>3, <4>3
        <5> QED BY <1>2, <1>5, <4>3, <5>1
      <4> QED BY <4>1, <4>2, <4>3
    <3> QED BY <3>2, <3>3
  <2> QED BY <1>1, <1>2, <1>5, <2>1, <2>2 DEF UndoInv, UndoAllOrNothing, UndoStep
<1> QED BY <1>1, <1>3, <1>4, <1>5, <1>6, <1>7, UndoStepKeeps

LEMMA UnapplyEndsKeeps ==
  ASSUME Bounds, FileInv, UnapplyEnds
  PROVE  FileInv'
<1>1. InUndo /\ op \in Undos /\ op.step = "unapply" /\ op.applied = <<>>
  BY UndoIs DEF UnapplyEnds, UndoStep, InUndo, FileInv
<1>2. /\ op' \in Undos /\ op'.k = "undo" /\ op'.step = "reported" /\ op'.sel = op.sel
      /\ op'.files = op.files /\ op'.restorable = op.restorable /\ op'.todo = op.todo
      /\ op'.applied = op.applied /\ op'.outcome = op.outcome /\ op'.touched = op.touched
  BY <1>1 DEF Undos, UnapplyEnds, At
<1>3. UNCHANGED <<disk, ledger, gen, started, manifest, next, userEdits, byUser, seen, runWrote, residue>>
  BY DEF UnapplyEnds
<1>4. Len(op.applied) = 0
  BY <1>1
<1>5. op.outcome = "failed" => \A f \in op.restorable \ op.touched : disk[f] = op.files[f].post
  BY <1>1, <1>4 DEF FileInv, UndoInv
<1>6. op.outcome \in {"failed", "incomplete"}
  BY <1>1 DEF FileInv, UndoInv
<1>7. UndoInv' /\ \A i \in 1 .. Len(op'.applied) : op'.applied[i] \in op.sel
  BY <1>1, <1>2, <1>3, <1>4, <1>5, <1>6 DEF UndoInv, UndoAllOrNothing, UndoStep
<1> QED BY <1>1, <1>2, <1>3, <1>7, UndoStepKeeps

LEMMA PublishUndoKeeps ==
  ASSUME Bounds, FileInv, PublishUndo
  PROVE  FileInv'
<1>1. InUndo /\ op \in Undos /\ op.step = "apply" /\ op.todo = {}
  BY UndoIs DEF PublishUndo, UndoStep, InUndo, FileInv
<1>2. UNCHANGED <<disk, ledger, gen, started, next, userEdits, byUser, seen, runWrote, residue>>
  BY DEF PublishUndo
<1>3. CASE op' = [op EXCEPT !.step = "unapply", !.outcome = "failed"] /\ UNCHANGED manifest
  <2>1. /\ op' \in Undos /\ op'.k = "undo" /\ op'.step = "unapply" /\ op'.sel = op.sel
        /\ op'.files = op.files /\ op'.restorable = op.restorable /\ op'.todo = op.todo
        /\ op'.applied = op.applied /\ op'.outcome = "failed" /\ op'.touched = op.touched
    BY <1>1, <1>3 DEF Undos
  <2>2. UndoInv' /\ \A i \in 1 .. Len(op'.applied) : op'.applied[i] \in op.sel
    BY <1>1, <1>2, <2>1 DEF FileInv, Typed, UndoInv, UndoAllOrNothing, UndoStep
  <2> QED BY <1>1, <1>2, <1>3, <2>1, <2>2, UndoStepKeeps
<1>4. CASE /\ manifest' = IF DOMAIN manifest.files \subseteq op.sel THEN NoManifest
                          ELSE [manifest EXCEPT !.files = [f \in DOMAIN @ \ op.sel |-> @[f]]]
           /\ op' = [op EXCEPT !.step = "reported", !.outcome = "restored"]
  <2>1. /\ op' \in Undos /\ op'.k = "undo" /\ op'.step = "reported" /\ op'.sel = op.sel
        /\ op'.files = op.files /\ op'.restorable = op.restorable /\ op'.todo = op.todo
        /\ op'.applied = op.applied /\ op'.outcome = "restored" /\ op'.touched = op.touched
    BY <1>1, <1>4 DEF Undos
  <2>2. InUndo' /\ ~InBatch' /\ ~InCall'
    BY <2>1 DEF InUndo, InBatch, InCall
  <2>3. /\ manifest' \in Manifests /\ manifest'.gen \in {0, manifest.gen}
        /\ \A f \in DOMAIN manifest'.files :
             f \in DOMAIN manifest.files /\ manifest'.files[f] = manifest.files[f]
    <3>1. /\ manifest \in Manifests /\ DOMAIN manifest.files \subseteq Files
          /\ \A f \in DOMAIN manifest.files : manifest.files[f] \in Entries
      BY CheckpointEntries DEF FileInv, Typed, Manifests
    <3>2. CASE DOMAIN manifest.files \subseteq op.sel
      <4>1. [f \in {} |-> 0] \in FileMaps
        <5>1. [f \in {} |-> 0] \in [{} -> Entries] /\ {} \in SUBSET Files
          OBVIOUS
        <5> QED BY <5>1 DEF FileMaps
      <4> QED BY <1>4, <3>2, <4>1 DEF NoManifest, Manifests
    <3>3. CASE ~(DOMAIN manifest.files \subseteq op.sel)
      <4> DEFINE files == [f \in DOMAIN manifest.files \ op.sel |-> manifest.files[f]]
      <4>1. files \in [DOMAIN manifest.files \ op.sel -> Entries] /\ DOMAIN files = DOMAIN manifest.files \ op.sel
            /\ \A f \in DOMAIN files : files[f] = manifest.files[f]
        BY <3>1
      <4>2. manifest' = [manifest EXCEPT !.files = files]
        BY <1>4, <3>3
      <4> HIDE DEF files
      <4>3. files \in FileMaps
        BY <3>1, <4>1, CheckpointOf
      <4> QED BY <3>1, <4>1, <4>2, <4>3 DEF Manifests
    <3> QED BY <3>2, <3>3
  <2>4. /\ gen \in Nat /\ gen > 0 /\ ~started /\ manifest.gen # gen /\ manifest.gen <= gen
    BY <1>1 DEF FileInv, Typed, ScopeInv, Bounds
  <2>5. Typed'
    BY <1>1, <1>2, <2>1, <2>2, <2>3, <2>4 DEF FileInv, Typed
  <2>6. Known' /\ ScopeInv' /\ ResidueInv'
    BY <1>1, <1>2, <2>1, <2>2, <2>3, <2>4 DEF FileInv, Known, ScopeInv, ResidueInv, Old
  <2>7. UndoInv'
    BY <1>1, <1>2, <2>1 DEF FileInv, UndoInv, UndoAllOrNothing, UndoStep
  <2> QED BY <2>2, <2>5, <2>6, <2>7, NoBatch DEF FileInv
<1> QED BY <1>3, <1>4 DEF PublishUndo

LEMMA UndoReturnsKeeps ==
  ASSUME Bounds, FileInv, UndoReturns
  PROVE  FileInv'
<1>1. /\ op' = Free
      /\ UNCHANGED <<disk, ledger, gen, started, manifest, next, userEdits, byUser, seen, runWrote, residue>>
  BY DEF UndoReturns
<1>2. ~InBatch' /\ ~InUndo' /\ ~InCall'
  BY <1>1 DEF InBatch, InUndo, InCall, Free
<1>3. Typed' /\ Known' /\ ScopeInv' /\ ResidueInv'
  BY <1>1, <1>2 DEF FileInv, Typed, Known, ScopeInv, ResidueInv, Old
<1> QED BY <1>2, <1>3, NoUndo, NoBatch DEF FileInv

LEMMA InitKeeps ==
  ASSUME Bounds, Init
  PROVE  FileInv
<1>1. Cardinality(InitialFiles) \in Nat
  BY FS_CardinalityType DEF Bounds
<1>2. next \in Contents /\ next \in Nat
  BY <1>1 DEF Init, Bounds, Contents
<1>3. byUser \subseteq 1 .. next
  <2>1. \A f \in InitialFiles : disk[f] \in Contents /\ disk[f] # 0 /\ disk[f] <= next
    BY DEF Init, Bounds
  <2> QED BY <1>2, <2>1 DEF Init, Contents
<1>4. ~InBatch /\ ~InUndo /\ ~InCall
  BY DEF Init, InBatch, InUndo, InCall, Free
<1>5. manifest \in Manifests /\ manifest.gen = 0 /\ DOMAIN manifest.files = {}
  <2>1. [f \in {} |-> 0] \in [{} -> Entries] /\ {} \in SUBSET Files
    OBVIOUS
  <2> QED BY <2>1 DEF Init, NoManifest, Manifests, FileMaps
<1>6. Typed
  <2>1. gen = 1 /\ 1 \in 1 .. MaxRuns /\ userEdits = 0 /\ 0 \in 0 .. MaxUserEdits
    BY DEF Init, Bounds
  <2>2. /\ ledger \in [Workers -> [Files -> Contents \cup {None}]]
        /\ seen \in [Workers -> SUBSET Contents]
    BY DEF Init
  <2>3. disk \in [Files -> Contents] /\ started \in BOOLEAN /\ op = Free /\ runWrote = {} /\ residue = {}
    BY DEF Init
  <2> QED BY <1>2, <1>3, <1>4, <1>5, <2>1, <2>2, <2>3 DEF Typed
<1>7. Known /\ ScopeInv /\ ResidueInv
  BY <1>4, <1>5 DEF Init, Known, ScopeInv, ResidueInv, Old
<1> QED BY <1>4, <1>6, <1>7 DEF FileInv, BatchInv, UndoInv

\* Every step keeps what the batches and the undos know.
LEMMA NextKeeps ==
  ASSUME Bounds, FileInv, [Next]_vars
  PROVE  FileInv'
<1>1. CASE UNCHANGED vars
  <2>1. /\ (InBatch' <=> InBatch) /\ (InUndo' <=> InUndo) /\ (InCall' <=> InCall)
        /\ (Written' <=> Written) /\ Call' = Call
        /\ (UndoAllOrNothing' <=> UndoAllOrNothing)
    BY <1>1 DEF vars, InBatch, InUndo, InCall, Written, Call, UndoAllOrNothing, UndoStep
  <2>2. Typed'
    BY <1>1, <2>1 DEF vars, FileInv, Typed
  <2>3. Known' /\ ScopeInv'
    BY <1>1, <2>1 DEF vars, FileInv, Known, ScopeInv, Old
  <2>4. BatchInv' /\ ResidueInv'
    BY <1>1, <2>1 DEF vars, FileInv, BatchInv, ResidueInv
  <2>5. UndoInv'
    BY <1>1, <2>1 DEF vars, FileInv, UndoInv
  <2> QED BY <2>2, <2>3, <2>4, <2>5 DEF FileInv
<1>2. ASSUME NEW w \in Workers, NEW f \in Files, Read(w, f)
      PROVE  FileInv'
  BY <1>2, ReadKeeps
<1>3. ASSUME NEW w \in Workers, NEW n \in 1 .. BatchSize, NEW calls \in [1 .. n -> Calls], StartBatch(w, calls)
      PROVE  FileInv'
  <2>1. calls \in Seq(Calls)
    OBVIOUS
  <2> QED BY <1>3, <2>1, StartBatchKeeps
<1>4. CASE Snapshot \/ Decide \/ Capture \/ Commit \/ ExecutorFails \/ Refresh \/ Journal
  BY <1>4, SnapshotKeeps, DecideKeeps, CaptureKeeps, CommitKeeps, ExecutorFailsKeeps, RefreshKeeps, JournalKeeps
<1>5. CASE Rollback \/ Publish \/ ReportFailure
  BY <1>5, RollbackKeeps, PublishKeeps, ReportFailureKeeps
<1>6. ASSUME NEW sel \in SUBSET DOMAIN manifest.files, StartUndo(sel)
      PROVE  FileInv'
  BY <1>6, StartUndoKeeps
<1>7. ASSUME NEW f \in Files, Apply(f) \/ UserEdits(f) \/ UserRemoves(f)
      PROVE  FileInv'
  BY <1>7, ApplyKeeps, OthersKeep
<1>8. CASE ApplyFails \/ Unapply \/ UnapplyEnds \/ PublishUndo \/ UndoReturns \/ NewRun
  BY <1>8, UndoFailsKeeps, UnapplyKeeps, UnapplyEndsKeeps, PublishUndoKeeps, UndoReturnsKeeps, NewRunKeeps
<1> QED BY <1>1, <1>2, <1>3, <1>4, <1>5, <1>6, <1>7, <1>8 DEF Next

LEMMA FilesInvariant ==
  ASSUME Bounds
  PROVE  Spec => []FileInv
<1>1. Init => FileInv
  BY InitKeeps
<1>2. FileInv /\ [Next]_vars => FileInv'
  BY NextKeeps
<1> QED BY <1>1, <1>2, PTL DEF Spec

\* The variables of the file changes keep their types.
THEOREM FileTypesCorrect ==
  ASSUME Bounds
  PROVE  Spec => []TypeOK
<1>1. FileInv => TypeOK
  <2> SUFFICES ASSUME FileInv PROVE TypeOK
    OBVIOUS
  <2>1. /\ DOMAIN manifest.files \subseteq Files
        /\ \A f \in DOMAIN manifest.files : manifest.files[f] \in Entries
    BY CheckpointEntries DEF FileInv, Typed, Manifests
  <2>2. manifest.gen \in 0 .. MaxRuns
    BY DEF FileInv, Typed, Manifests, Bounds
  <2>3. op.k \in {"free", "batch", "undo"}
    BY DEF FileInv, Typed, Batches, Undos, Free
  <2> QED BY <2>1, <2>2, <2>3 DEF FileInv, Typed, TypeOK
<1> QED BY <1>1, FilesInvariant, PTL

\* A batch reported as failed, without [TRANSACTION INCOMPLETE], left none of
\* its contents behind and nothing brings one back, whatever others write
\* between its steps (tool_dispatch.go:352).
THEOREM FailedBatchesLeaveNothing ==
  ASSUME Bounds
  PROVE  Spec => []FailedBatchLeavesNothing
<1>1. FileInv => FailedBatchLeavesNothing
  BY DEF FileInv, ResidueInv, FailedBatchLeavesNothing
<1> QED BY <1>1, FilesInvariant, PTL

\* An undo restored all of its files or none, up to what others wrote
\* meanwhile and to a rollback it reports as incomplete (checkpoint_undo.go:123).
THEOREM UndoIsAllOrNothing ==
  ASSUME Bounds
  PROVE  Spec => []UndoAllOrNothing
<1>1. FileInv => UndoAllOrNothing
  BY DEF FileInv, UndoInv, UndoAllOrNothing, UndoStep, InUndo
<1> QED BY <1>1, FilesInvariant, PTL

\* The checkpoint of a generation holds the state before it of every file the
\* generation changed (checkpoint.go:149).
THEOREM CheckpointsPredateRuns ==
  ASSUME Bounds
  PROVE  Spec => []CheckpointPredatesRun
<1>1. FileInv => CheckpointPredatesRun
  BY DEF FileInv, ScopeInv, CheckpointPredatesRun
<1> QED BY <1>1, FilesInvariant, PTL

-----------------------------------------------------------------------------
\* The edits of others.

LEMMA NoBatchKept ==
  ASSUME ~InBatch'
  PROVE  BatchKept'
BY DEF BatchKept, InBatch

LEMMA NoUndoKept ==
  ASSUME ~InUndo'
  PROVE  UndoKept'
BY DEF UndoKept, InUndo

\* A step of a batch that leaves the disk, the checkpoint and the journal: what
\* it must say of the call it is at.
LEMMA QuietKept ==
  ASSUME FileInv, KeptInv, InBatch, op'.k = "batch", op'.w = op.w,
         op'.journal = op.journal, op'.wrote = op.wrote,
         UNCHANGED <<disk, manifest, byUser, seen, lost>>,
         LedgerSeen',
         op'.step = "decide" => op'.snap = disk[Call'.f],
         op'.step \in {"capture", "execute"} => op'.expected = op'.snap,
         InCall' /\ op'.step # "decide" => op'.snap = 0 \/ op'.snap \in seen[op.w],
         Written' => disk[Call'.f] \in op.wrote
  PROVE  KeptInv'
<1>1. ~InUndo'
  BY DEF InUndo
<1>2. BatchKept'
  BY DEF KeptInv, BatchKept
<1>3. PostsOwn'
  BY DEF KeptInv, PostsOwn
<1> QED BY <1>1, <1>2, <1>3, NoUndoKept DEF KeptInv

\* A call that failed, after which the ledger may have lost an entry.
LEMMA FailKept ==
  ASSUME Bounds, FileInv, KeptInv, InBatch, NEW unsafe \in BOOLEAN, Fail(unsafe),
         UNCHANGED <<disk, manifest, byUser, seen, lost>>, LedgerSeen'
  PROVE  KeptInv'
<1>1. /\ op'.k = "batch" /\ op'.step = "rollback" /\ op'.w = op.w
      /\ op'.journal = op.journal /\ op'.wrote = op.wrote
  BY FailResult DEF FileInv
<1>2. ~InCall' /\ ~Written'
  BY <1>1 DEF InCall, Written
<1> QED BY <1>1, <1>2, QuietKept

\* A ledger of which at most one entry changed, to what its worker has seen.
LEMMA LedgerStays ==
  ASSUME Typed, LedgerSeen, NEW w \in Workers, NEW f \in Files, NEW x \in Contents \cup {None},
         ledger' = [ledger EXCEPT ![w][f] = x], x = None \/ x \in seen'[w],
         \A v \in Workers : seen[v] \subseteq seen'[v]
  PROVE  LedgerSeen'
<1>1. ledger \in [Workers -> [Files -> Contents \cup {None}]]
  BY DEF Typed
<1>2. \A v \in Workers, g \in Files : ledger'[v][g] = ledger[v][g] \/ (v = w /\ g = f /\ ledger'[v][g] = x)
  BY <1>1
<1> QED BY <1>2 DEF LedgerSeen

LEMMA StartBatchKept ==
  ASSUME Bounds, FileInv, KeptInv, NEW w \in Workers, NEW calls \in Seq(Calls), StartBatch(w, calls)
  PROVE  KeptInv'
<1>1. /\ op'.k = "batch" /\ op'.step = "snapshot" /\ op'.journal = <<>> /\ op'.wrote = {}
      /\ UNCHANGED <<disk, ledger, manifest, byUser, seen, lost>>
  BY DEF StartBatch
<1>2. ~InUndo' /\ ~InCall' /\ ~Written' /\ Len(op'.journal) = 0
  BY <1>1 DEF InUndo, InCall, Written
<1>3. LedgerSeen' /\ PostsOwn' /\ lost' = {}
  BY <1>1 DEF KeptInv, LedgerSeen, PostsOwn
<1>4. BatchKept'
  BY <1>1, <1>2 DEF BatchKept
<1> QED BY <1>2, <1>3, <1>4, NoUndoKept DEF KeptInv

LEMMA SnapshotKept ==
  ASSUME Bounds, FileInv, KeptInv, Snapshot
  PROVE  KeptInv'
<1>1. InBatch /\ op \in Batches /\ op.step = "snapshot"
  BY BatchIs DEF Snapshot, Step, InBatch, FileInv
<1>2. UNCHANGED <<disk, manifest, byUser, seen, lost>> /\ LedgerSeen'
  BY DEF Snapshot, KeptInv, LedgerSeen
<1>3. CASE At("publish")
  <2>1. /\ op'.k = "batch" /\ op'.step = "publish" /\ op'.w = op.w
        /\ op'.journal = op.journal /\ op'.wrote = op.wrote
    BY <1>1, <1>3 DEF At, Batches
  <2> QED BY <1>1, <1>2, <2>1, QuietKept DEF InCall, Written
<1>4. CASE op.todo # <<>> /\ op' = [op EXCEPT !.step = "decide", !.snap = disk[Call.f]]
  <2>1. /\ op'.k = "batch" /\ op'.step = "decide" /\ op'.w = op.w /\ op'.snap = disk[Call.f]
        /\ op'.journal = op.journal /\ op'.wrote = op.wrote /\ Call' = Call
    BY <1>1, <1>4 DEF Batches, Call
  <2> QED BY <1>1, <1>2, <2>1, QuietKept DEF InCall, Written
<1>5. CASE Fail(FALSE)
  BY <1>1, <1>2, <1>5, FailKept
<1> QED BY <1>3, <1>4, <1>5 DEF Snapshot

\* The revision the decision allows is the one of the snapshot, and the worker
\* read it.
LEMMA DecideKept ==
  ASSUME Bounds, FileInv, KeptInv, Decide
  PROVE  KeptInv'
<1>1. InBatch /\ op \in Batches /\ op.step = "decide" /\ InCall /\ op.todo # <<>> /\ op.w \in Workers
  BY BatchIs DEF Decide, Step, InBatch, InCall, FileInv, Typed, Batches
<1>2. UNCHANGED <<disk, manifest, byUser, seen, lost>> /\ LedgerSeen'
  BY DEF Decide, KeptInv, LedgerSeen
<1>3. CASE CheckMutation(op.w, Call.tool, Call.f) /\ op' = [op EXCEPT !.step = "capture", !.expected = disk[Call.f]]
  <2>1. /\ op'.k = "batch" /\ op'.step = "capture" /\ op'.w = op.w /\ op'.snap = op.snap
        /\ op'.expected = disk[Call.f] /\ op'.journal = op.journal /\ op'.wrote = op.wrote
    BY <1>1, <1>3 DEF Batches
  <2>2. Call.f \in Files /\ disk[Call.f] \in Contents /\ disk[Call.f] # None
    BY <1>1, CallIs, ContentsAreNumbers DEF FileInv
  <2>3. op.snap = disk[Call.f]
    BY <1>1 DEF KeptInv, BatchKept
  <2>4. op.snap = 0 \/ op.snap \in seen[op.w]
    BY <1>1, <1>3, <2>2, <2>3 DEF CheckMutation, KeptInv, LedgerSeen
  <2> QED BY <1>1, <1>2, <2>1, <2>3, <2>4, QuietKept DEF InCall, Written
<1>4. CASE Fail(FALSE)
  BY <1>1, <1>2, <1>4, FailKept
<1> QED BY <1>3, <1>4 DEF Decide

LEMMA CaptureKept ==
  ASSUME Bounds, FileInv, KeptInv, Capture
  PROVE  KeptInv'
<1>1. InBatch /\ op \in Batches /\ op.step = "capture" /\ InCall /\ op.todo # <<>>
  BY BatchIs DEF Capture, Step, InBatch, InCall, FileInv, Typed
<1>2. UNCHANGED <<disk, byUser, seen, lost>> /\ LedgerSeen'
  BY DEF Capture, KeptInv, LedgerSeen
<1>3. CASE Fail(FALSE) /\ UNCHANGED <<manifest, started, edited>>
  BY <1>1, <1>2, <1>3, FailKept
<1>4. CASE /\ manifest' = WithPreimage(Started, Call.f)
           /\ op' = [op EXCEPT !.step = "execute", !.cap = @ \cup {Call.f}]
  <2>1. /\ op'.k = "batch" /\ op'.step = "execute" /\ op'.w = op.w /\ op'.snap = op.snap
        /\ op'.expected = op.expected /\ op'.journal = op.journal /\ op'.wrote = op.wrote
    BY <1>1, <1>4 DEF Batches
  <2>2. ~InUndo' /\ InBatch' /\ ~Written'
    BY <2>1 DEF InUndo, InBatch, Written
  <2>3. Call.f \in Files
    BY <1>1, CallIs DEF FileInv
  <2>4. \A g \in DOMAIN manifest'.files :
          \/ g \in DOMAIN manifest.files /\ manifest'.files[g] = manifest.files[g]
          \/ manifest'.files[g].post = None
    BY <1>4, <2>3, CaptureResult
  <2>5. PostsOwn'
    BY <1>2, <2>4 DEF KeptInv, PostsOwn
  <2>6. BatchKept'
    BY <1>1, <1>2, <2>1, <2>2 DEF KeptInv, BatchKept
  <2> QED BY <1>2, <2>2, <2>5, <2>6, NoUndoKept DEF KeptInv
<1> QED BY <1>3, <1>4 DEF Capture

\* What a commit overwrites has the revision the worker read.
LEMMA CommitKept ==
  ASSUME Bounds, FileInv, KeptInv, Commit
  PROVE  KeptInv'
<1>1. /\ InBatch /\ op \in Batches /\ op.step = "execute" /\ InCall /\ op.todo # <<>> /\ op.w \in Workers
  BY BatchIs DEF Commit, Step, InBatch, InCall, FileInv, Typed, Batches
<1>2. Call.f \in Files
  BY <1>1, CallIs DEF FileInv
<1>3. /\ op'.k = "batch" /\ op'.step = "refresh" /\ op'.w = op.w /\ op'.snap = op.snap
      /\ op'.journal = op.journal /\ op'.wrote = op.wrote \cup {next + 1} /\ op'.todo = op.todo
  BY <1>1 DEF Commit, Batches
<1>4. ~InUndo' /\ InBatch' /\ Call' = Call
  BY <1>3 DEF InUndo, InBatch, Call
<1>5. next + 1 \notin byUser /\ 0 \notin byUser
  BY ContentsAreNumbers DEF FileInv, Typed
<1>6. disk'[Call.f] = next + 1
  BY <1>2 DEF Commit, FileInv, Typed
<1>7. /\ seen'[op.w] = seen[op.w] \cup {next + 1}
      /\ \A v \in Workers : seen[v] \subseteq seen'[v]
  BY <1>1 DEF Commit, FileInv, Typed
<1>8. disk[Call.f] = 0 \/ disk[Call.f] \in seen[op.w]
  BY <1>1 DEF Commit, ExpectedState, KeptInv, BatchKept
<1>9. lost' = {}
  BY <1>5, <1>8 DEF Commit, Overwritten, KeptInv
<1>10. LedgerSeen' /\ PostsOwn'
  BY <1>7 DEF Commit, KeptInv, LedgerSeen, PostsOwn
<1>11. BatchKept'
  <2>1. byUser' = byUser
    BY DEF Commit
  <2> QED BY <1>1, <1>3, <1>4, <1>5, <1>6, <1>7, <2>1 DEF KeptInv, BatchKept
<1> QED BY <1>4, <1>9, <1>10, <1>11, NoUndoKept DEF KeptInv

LEMMA ExecutorFailsKept ==
  ASSUME Bounds, FileInv, KeptInv, ExecutorFails
  PROVE  KeptInv'
<1>1. InBatch /\ op \in Batches /\ op.step = "execute" /\ InCall /\ op.todo # <<>> /\ op.w \in Workers
  BY BatchIs DEF ExecutorFails, Step, InBatch, InCall, FileInv, Typed, Batches
<1>2. Call.f \in Files
  BY <1>1, CallIs DEF FileInv
<1>3. LedgerSeen'
  BY <1>1, <1>2, LedgerStays DEF ExecutorFails, FileInv, KeptInv
<1> QED BY <1>1, <1>3, FailKept DEF ExecutorFails

\* The hash after the commit is that of the content it wrote.
LEMMA RefreshKept ==
  ASSUME Bounds, FileInv, KeptInv, Refresh
  PROVE  KeptInv'
<1>1. InBatch /\ op \in Batches /\ op.step = "refresh" /\ InCall /\ Written /\ op.todo # <<>> /\ op.w \in Workers
  BY BatchIs DEF Refresh, Step, InBatch, InCall, Written, FileInv, Typed, Batches
<1>2. Call.f \in Files /\ disk[Call.f] \in Contents
  BY <1>1, CallIs DEF FileInv
<1>3. disk[Call.f] \in op.wrote /\ op.wrote \subseteq seen[op.w] /\ (op.snap = 0 \/ op.snap \in seen[op.w])
  BY <1>1 DEF KeptInv, BatchKept
<1>4. Recorded(Call.f) \in Contents \cup {None} /\ (Recorded(Call.f) = None \/ Recorded(Call.f) \in seen[op.w])
  BY <1>2, <1>3 DEF Recorded
<1>5. UNCHANGED <<disk, manifest, byUser, seen, lost>> /\ ledger' = [ledger EXCEPT ![op.w][Call.f] = Recorded(Call.f)]
  BY DEF Refresh
<1>6. LedgerSeen'
  BY <1>1, <1>2, <1>4, <1>5, LedgerStays DEF FileInv, KeptInv
<1>7. /\ op'.k = "batch" /\ op'.step = "journal" /\ op'.w = op.w /\ op'.snap = op.snap
      /\ op'.journal = op.journal /\ op'.wrote = op.wrote /\ Call' = Call
  BY <1>1 DEF Refresh, At, Batches, Call
<1> QED BY <1>1, <1>3, <1>5, <1>6, <1>7, QuietKept

LEMMA JournalKept ==
  ASSUME Bounds, FileInv, KeptInv, Journal
  PROVE  KeptInv'
<1>1. InBatch /\ op \in Batches /\ op.step = "journal" /\ InCall /\ Written /\ op.todo # <<>>
  BY BatchIs DEF Journal, Step, InBatch, InCall, Written, FileInv, Typed
<1>2. UNCHANGED <<disk, manifest, byUser, seen, lost>> /\ LedgerSeen' /\ PostsOwn' /\ lost' = {}
  BY DEF Journal, KeptInv, LedgerSeen, PostsOwn
<1>3. CASE Fail(TRUE)
  BY <1>1, <1>2, <1>3, FailKept
<1>4. CASE op' = [op EXCEPT !.step = "snapshot", !.todo = Tail(op.todo), !.snap = 0, !.expected = 0,
                            !.journal = Append(@, [f |-> Call.f, snap |-> op.snap, post |-> disk[Call.f]])]
  <2> DEFINE j == [f |-> Call.f, snap |-> op.snap, post |-> disk[Call.f]]
             n == Len(op.journal)
  <2>1. op.journal \in Seq(Changes) /\ n \in Nat
    BY <1>1, EntriesAreChanges
  <2>2. j.snap = op.snap /\ j.post = disk[Call.f]
    OBVIOUS
  <2>3. Call.f \in Files /\ disk[Call.f] \in Contents /\ op.snap \in Contents
    BY <1>1, CallIs DEF FileInv, Batches
  <2>4. j \in Changes
    BY <2>3 DEF Changes
  <2> HIDE DEF j
  <2>5. /\ Len(Append(op.journal, j)) = n + 1 /\ 1 .. n + 1 = 1 .. n \cup {n + 1}
        /\ \A i \in 1 .. n : Append(op.journal, j)[i] = op.journal[i]
        /\ Append(op.journal, j)[n + 1] = j
    BY <2>1, <2>4
  <2>6. op' = [op EXCEPT !.step = "snapshot", !.todo = Tail(op.todo), !.snap = 0, !.expected = 0,
                         !.journal = Append(op.journal, j)]
    BY <1>4 DEF j
  <2>7. /\ op'.k = "batch" /\ op'.step = "snapshot" /\ op'.w = op.w
        /\ op'.journal = Append(op.journal, j) /\ op'.wrote = op.wrote
    BY <1>1, <2>6 DEF Batches
  <2>8. ~InUndo' /\ ~InCall' /\ ~Written'
    BY <2>7 DEF InUndo, InCall, Written
  <2>9. j.post \in op.wrote /\ (j.snap = 0 \/ j.snap \in seen[op.w])
    BY <1>1, <2>2 DEF KeptInv, BatchKept
  <2>10. BatchKept'
    BY <1>1, <1>2, <2>5, <2>7, <2>8, <2>9 DEF KeptInv, BatchKept
  <2> QED BY <1>2, <2>8, <2>10, NoUndoKept DEF KeptInv
<1> QED BY <1>3, <1>4 DEF Journal

\* What is taken back is a content of the batch.
LEMMA RollbackKept ==
  ASSUME Bounds, FileInv, KeptInv, Rollback
  PROVE  KeptInv'
<1> DEFINE n == Len(op.journal)
           j == Last(op.journal)
<1>1. InBatch /\ op \in Batches /\ op.step = "rollback" /\ op.journal # <<>> /\ op.w \in Workers
  BY BatchIs DEF Rollback, Step, InBatch, FileInv, Batches
<1>2. /\ n = Len(op.journal) /\ n \in Nat /\ n >= 1 /\ j = op.journal[n] /\ j \in Changes
      /\ Len(Front(op.journal)) = n - 1
      /\ \A i \in 1 .. n - 1 : Front(op.journal)[i] = op.journal[i]
  BY <1>1, NewestEntry
<1>3. j.f \in Files /\ j.snap \in Contents /\ n \in 1 .. n /\ \A i \in 1 .. n - 1 : i \in 1 .. n
  BY <1>2 DEF Changes
<1> HIDE DEF n, j
<1>4. j.post \in op.wrote /\ (j.snap = 0 \/ j.snap \in seen[op.w]) /\ op.wrote \cap byUser = {}
  BY <1>1, <1>2, <1>3 DEF KeptInv, BatchKept
<1>5. /\ op'.k = "batch" /\ op'.step = "rollback" /\ op'.w = op.w
      /\ op'.journal = Front(op.journal) /\ op'.wrote = op.wrote
  BY <1>1 DEF Rollback, Batches
<1>6. ~InUndo' /\ ~InCall' /\ ~Written' /\ UNCHANGED <<manifest, byUser, seen>>
  BY <1>5 DEF InUndo, InCall, Written, Rollback
<1>7. lost' = {}
  <2>1. CASE RestoreAllowed(j) /\ lost' = lost \cup Overwritten(j.f, seen[op.w])
    BY <1>4, <2>1 DEF RestoreAllowed, Overwritten, KeptInv
  <2>2. CASE UNCHANGED lost
    BY <2>2 DEF KeptInv
  <2> QED BY <2>1, <2>2 DEF Rollback, j
<1>8. PICK x \in Contents \cup {None} : ledger' = [ledger EXCEPT ![op.w][j.f] = x] /\ (x = None \/ x \in seen[op.w])
  BY <1>3, <1>4 DEF Rollback, j
<1>9. LedgerSeen'
  BY <1>1, <1>3, <1>6, <1>8, LedgerStays DEF FileInv, KeptInv
<1>10. PostsOwn'
  BY <1>6 DEF KeptInv, PostsOwn
<1>11. BatchKept'
  BY <1>1, <1>2, <1>3, <1>5, <1>6 DEF KeptInv, BatchKept
<1> QED BY <1>6, <1>7, <1>9, <1>10, <1>11, NoUndoKept DEF KeptInv

\* A postimage is a content of the batch.
LEMMA PublishKept ==
  ASSUME Bounds, FileInv, KeptInv, Publish
  PROVE  KeptInv'
<1>1. InBatch /\ op \in Batches /\ op.step = "publish"
  BY BatchIs DEF Publish, Step, InBatch, FileInv
<1>2. UNCHANGED <<disk, byUser, seen, lost>> /\ LedgerSeen' /\ lost' = {}
  BY DEF Publish, KeptInv, LedgerSeen
<1>3. CASE op' = [op EXCEPT !.step = "rollback"] /\ UNCHANGED manifest
  <2>1. /\ op'.k = "batch" /\ op'.step = "rollback" /\ op'.w = op.w
        /\ op'.journal = op.journal /\ op'.wrote = op.wrote
    BY <1>1, <1>3 DEF Batches
  <2> QED BY <1>1, <1>2, <1>3, <2>1, QuietKept DEF InCall, Written
<1>4. CASE /\ \A j \in FinalPosts : disk[j.f] = j.post /\ j.f \in DOMAIN manifest.files
           /\ manifest' = [manifest EXCEPT !.files = [f \in DOMAIN @ |-> WithPostimage(f, @[f])]]
           /\ op' = Free
  <2>1. ~InBatch' /\ ~InUndo'
    BY <1>4 DEF InBatch, InUndo, Free
  <2>2. /\ DOMAIN manifest'.files = DOMAIN manifest.files
        /\ \A f \in DOMAIN manifest.files : manifest'.files[f] = WithPostimage(f, manifest.files[f])
    BY <1>4 DEF FileInv, Typed, Manifests
  <2>3. ASSUME NEW f \in DOMAIN manifest.files
        PROVE  LET q == WithPostimage(f, manifest.files[f]) IN
               q = manifest.files[f] \/ q.post \notin byUser
    <3> DEFINE q == WithPostimage(f, manifest.files[f])
    <3>1. q = manifest.files[f] \/ \E i \in 1 .. Len(op.journal) : op.journal[i].post = q.post
      BY <1>1, <1>4, PublishedEntry
    <3> HIDE DEF q
    <3>2. q = manifest.files[f] \/ q.post \notin byUser
      BY <1>1, <3>1 DEF KeptInv, BatchKept
    <3> QED BY <3>2 DEF q
  <2>4. PostsOwn'
    BY <1>2, <2>2, <2>3 DEF KeptInv, PostsOwn
  <2> QED BY <1>2, <2>1, <2>4, NoBatchKept, NoUndoKept DEF KeptInv
<1> QED BY <1>3, <1>4 DEF Publish

LEMMA ReportFailureKept ==
  ASSUME Bounds, FileInv, KeptInv, ReportFailure
  PROVE  KeptInv'
<1>1. UNCHANGED <<ledger, byUser, seen, lost>> /\ op' = Free
  BY DEF ReportFailure
<1>2. ~InBatch' /\ ~InUndo'
  BY <1>1 DEF InBatch, InUndo, Free
<1>3. PostsOwn'
  <2>1. CASE manifest' = Settled
    <3>1. /\ DOMAIN manifest'.files = DOMAIN manifest.files
          /\ \A f \in DOMAIN manifest.files :
               \/ manifest'.files[f] = manifest.files[f]
               \/ manifest'.files[f].post = manifest'.files[f].pre
      BY <2>1 DEF Settled, FileInv, Typed, Manifests
    <3> QED BY <1>1, <3>1 DEF KeptInv, PostsOwn
  <2>2. CASE manifest' = manifest
    BY <1>1, <2>2 DEF KeptInv, PostsOwn
  <2> QED BY <2>1, <2>2 DEF ReportFailure, Settle
<1> QED BY <1>1, <1>2, <1>3, NoBatchKept, NoUndoKept DEF KeptInv, LedgerSeen

\* An undo takes back what the checkpoint has as a postimage.
LEMMA StartUndoKept ==
  ASSUME Bounds, FileInv, KeptInv, NEW sel \in SUBSET DOMAIN manifest.files, StartUndo(sel)
  PROVE  KeptInv'
<1>1. UNCHANGED <<disk, manifest, byUser, lost>> /\ ledger' = [w \in Workers |-> [f \in Files |-> None]]
  BY DEF StartUndo
<1>2. LedgerSeen' /\ PostsOwn' /\ lost' = {}
  BY <1>1 DEF KeptInv, LedgerSeen, PostsOwn
<1>3. CASE ~Preflight(sel)
  <2>1. ~InBatch' /\ ~InUndo'
    BY <1>3 DEF StartUndo, InBatch, InUndo, Free
  <2> QED BY <1>2, <2>1, NoBatchKept, NoUndoKept DEF KeptInv
<1>4. CASE Preflight(sel)
  <2>1. /\ op'.k = "undo" /\ op'.files = manifest.files
        /\ op'.todo = {f \in sel : Status(f) # "already_restored"}
    BY <1>4 DEF StartUndo
  <2>2. ~InBatch'
    BY <2>1 DEF InBatch
  <2>3. ASSUME NEW f \in sel, Status(f) # "already_restored"
        PROVE  manifest.files[f].post \notin byUser
    <3>1. manifest.files[f].post # None /\ disk[f] # manifest.files[f].pre /\ disk[f] = manifest.files[f].post
      BY <1>4, <2>3 DEF Preflight, Status
    <3> QED BY <3>1 DEF KeptInv, PostsOwn
  <2>4. UndoKept'
    BY <1>1, <2>1, <2>3 DEF UndoKept
  <2> QED BY <1>2, <2>2, <2>4, NoBatchKept DEF KeptInv
<1> QED BY <1>3, <1>4

\* A step of an undo that starts no file again.
LEMMA UndoStepKept ==
  ASSUME KeptInv, InUndo, op'.k = "undo", op'.files = op.files, op'.todo \subseteq op.todo,
         UNCHANGED <<ledger, manifest, byUser, seen>>, lost' = {}
  PROVE  KeptInv'
<1>1. ~InBatch'
  BY DEF InBatch
<1>2. UndoKept' /\ LedgerSeen' /\ PostsOwn'
  BY DEF KeptInv, UndoKept, LedgerSeen, PostsOwn
<1> QED BY <1>1, <1>2, NoBatchKept DEF KeptInv

LEMMA ApplyKept ==
  ASSUME Bounds, FileInv, KeptInv, NEW f \in Files, Apply(f)
  PROVE  KeptInv'
<1>1. InUndo /\ op \in Undos /\ f \in op.todo
  BY UndoIs DEF Apply, UndoStep, InUndo, FileInv
<1>2. op'.k = "undo" /\ op'.files = op.files /\ op'.todo \subseteq op.todo
  BY <1>1 DEF Apply, Undos
<1>3. disk[f] \notin byUser
  BY <1>1 DEF Apply, UndoState, KeptInv, UndoKept
<1>4. lost' = {} /\ UNCHANGED <<ledger, manifest, byUser, seen>>
  BY <1>3 DEF Apply, Overwritten, KeptInv
<1> QED BY <1>1, <1>2, <1>4, UndoStepKept

LEMMA UndoEndsKept ==
  ASSUME Bounds, FileInv, KeptInv, ApplyFails \/ Unapply \/ UnapplyEnds \/ PublishUndo
  PROVE  KeptInv'
<1>1. InUndo /\ op \in Undos
  BY UndoIs DEF ApplyFails, Unapply, UnapplyEnds, PublishUndo, UndoStep, InUndo, FileInv
<1>2. op'.k = "undo" /\ op'.files = op.files /\ op'.todo = op.todo
  BY <1>1 DEF ApplyFails, Unapply, UnapplyEnds, PublishUndo, At, Undos
<1>3. lost' = {} /\ UNCHANGED <<ledger, byUser, seen>>
  BY DEF ApplyFails, Unapply, UnapplyEnds, PublishUndo, KeptInv
<1>4. CASE UNCHANGED manifest
  BY <1>1, <1>2, <1>3, <1>4, UndoStepKept
<1>5. CASE manifest' = IF DOMAIN manifest.files \subseteq op.sel THEN NoManifest
                       ELSE [manifest EXCEPT !.files = [f \in DOMAIN @ \ op.sel |-> @[f]]]
  <2>1. \A f \in DOMAIN manifest'.files :
          f \in DOMAIN manifest.files /\ manifest'.files[f] = manifest.files[f]
    <3>1. CASE DOMAIN manifest.files \subseteq op.sel
      BY <1>5, <3>1 DEF NoManifest
    <3>2. CASE ~(DOMAIN manifest.files \subseteq op.sel)
      BY <1>5, <3>2 DEF FileInv, Typed, Manifests
    <3> QED BY <3>1, <3>2
  <2>2. PostsOwn'
    BY <1>3, <2>1 DEF KeptInv, PostsOwn
  <2>3. ~InBatch'
    BY <1>2 DEF InBatch
  <2>4. UndoKept' /\ LedgerSeen'
    BY <1>1, <1>2, <1>3 DEF KeptInv, UndoKept, LedgerSeen
  <2> QED BY <1>3, <2>2, <2>3, <2>4, NoBatchKept DEF KeptInv
<1> QED BY <1>4, <1>5 DEF ApplyFails, Unapply, UnapplyEnds, PublishUndo

LEMMA ReadKept ==
  ASSUME Bounds, FileInv, KeptInv, NEW w \in Workers, NEW f \in Files, Read(w, f)
  PROVE  KeptInv'
<1>1. UNCHANGED <<disk, manifest, op, byUser, lost>>
  BY DEF Read
<1>2. /\ seen \in [Workers -> SUBSET Contents] /\ disk[f] \in Contents
      /\ seen' = [seen EXCEPT ![w] = @ \cup {disk[f]}]
  BY DEF Read, FileInv, Typed
<1>3. disk[f] \in seen'[w] /\ \A v \in Workers : seen[v] \subseteq seen'[v]
  BY <1>2
<1>4. Recorded(f) \in Contents \cup {None} /\ (Recorded(f) = None \/ Recorded(f) \in seen'[w])
  BY <1>2, <1>3 DEF Recorded
<1>5. LedgerSeen'
  BY <1>3, <1>4, LedgerStays DEF Read, FileInv, KeptInv
<1>6. (InBatch' <=> InBatch) /\ (InCall' <=> InCall) /\ (Written' <=> Written) /\ (InUndo' <=> InUndo) /\ Call' = Call
  BY <1>1 DEF InBatch, InCall, Written, InUndo, Call
<1>7. InBatch => op.w \in Workers
  BY BatchIs DEF FileInv, Batches
<1>8. BatchKept'
  BY <1>1, <1>3, <1>6, <1>7 DEF KeptInv, BatchKept
<1>9. UndoKept' /\ PostsOwn'
  BY <1>1, <1>6 DEF KeptInv, UndoKept, PostsOwn
<1> QED BY <1>1, <1>5, <1>8, <1>9 DEF KeptInv

\* The content of somebody else is a new one, and it comes between no two looks
\* of a call at its file.
LEMMA OthersKept ==
  ASSUME Bounds, Window = FALSE, FileInv, KeptInv, NEW f \in Files, UserEdits(f) \/ UserRemoves(f)
  PROVE  KeptInv'
<1>1. PICK x \in {0, next + 1} :
        /\ disk' = [disk EXCEPT ![f] = x]
        /\ byUser' = byUser \/ byUser' = byUser \cup {next + 1}
  BY DEF UserEdits, UserRemoves
<1>2. UNCHANGED <<ledger, manifest, seen, lost>> /\ Touched(f) /\ ~Looking
  BY DEF UserEdits, UserRemoves
<1>3. next \in Nat /\ (next < MaxContent \/ byUser' = byUser)
  BY ContentsAreNumbers DEF UserEdits, UserRemoves, FileInv, Typed
<1>4. \A y \in Contents : Old(y) => (y \in byUser' => y \in byUser)
  BY <1>1, <1>3, ContentsAreNumbers DEF Old
<1>5. \A g \in DOMAIN manifest.files : manifest.files[g].post \in Contents \cup {None} /\ Old(manifest.files[g].post)
  BY CheckpointEntries DEF FileInv, Typed, Manifests, Known
<1>6. PostsOwn'
  BY <1>2, <1>4, <1>5 DEF KeptInv, PostsOwn
<1>7. LedgerSeen' /\ lost' = {}
  BY <1>2 DEF KeptInv, LedgerSeen
<1>8. CASE InBatch
  <2>1. op' = op /\ op \in Batches /\ ~InUndo
    BY <1>2, <1>8, BatchIs DEF Touched, InBatch, InUndo, FileInv
  <2>2. op.step \notin {"decide", "refresh", "journal"}
    BY <1>2, <1>8 DEF Looking, InBatch
  <2>3. op.wrote \cap byUser' = {}
    <3>1. \A y \in op.wrote : y \in Contents /\ Old(y) /\ y \notin byUser
      BY <1>8, <2>1, ContentsAreNumbers DEF Batches, FileInv, Known, Typed, Old, KeptInv, BatchKept
    <3> QED BY <1>4, <3>1
  <2>4. (InBatch' <=> InBatch) /\ (InCall' <=> InCall) /\ ~Written' /\ ~InUndo' /\ Call' = Call
    BY <2>1, <2>2 DEF InBatch, InCall, Written, InUndo, Call
  <2>5. BatchKept'
    BY <1>2, <1>8, <2>1, <2>2, <2>3, <2>4 DEF KeptInv, BatchKept
  <2> QED BY <1>6, <1>7, <2>4, <2>5, NoUndoKept DEF KeptInv
<1>9. CASE InUndo
  <2>1. op \in Undos /\ op'.k = "undo" /\ op'.files = op.files /\ op'.todo = op.todo
    BY <1>2, <1>9, UndoIs DEF Touched, InUndo, Undos, FileInv
  <2>2. \A g \in op.todo : op.files[g].post \in Contents /\ Old(op.files[g].post)
    BY <1>9, <2>1, CheckpointEntries DEF FileInv, Typed, Known, Undos
  <2>3. UndoKept' /\ ~InBatch'
    BY <1>4, <1>9, <2>1, <2>2 DEF KeptInv, UndoKept, InBatch
  <2> QED BY <1>6, <1>7, <2>3, NoBatchKept DEF KeptInv
<1>10. CASE ~InBatch /\ ~InUndo
  <2>1. ~InBatch' /\ ~InUndo'
    BY <1>2, <1>10 DEF Touched, InBatch, InUndo
  <2> QED BY <1>6, <1>7, <2>1, NoBatchKept, NoUndoKept DEF KeptInv
<1> QED BY <1>8, <1>9, <1>10

LEMMA EndsKept ==
  ASSUME Bounds, FileInv, KeptInv, UndoReturns \/ NewRun
  PROVE  KeptInv'
<1>1. op' = Free /\ UNCHANGED <<manifest, byUser, lost>>
  BY DEF UndoReturns, NewRun
<1>2. ~InBatch' /\ ~InUndo'
  BY <1>1 DEF InBatch, InUndo, Free
<1>3. LedgerSeen' /\ PostsOwn'
  BY <1>1 DEF UndoReturns, NewRun, KeptInv, LedgerSeen, PostsOwn
<1> QED BY <1>1, <1>2, <1>3, NoBatchKept, NoUndoKept DEF KeptInv

LEMMA KeptStep ==
  ASSUME Bounds, Window = FALSE, FileInv, KeptInv, [Next]_vars
  PROVE  KeptInv'
<1>1. CASE UNCHANGED vars
  <2>1. /\ (InBatch' <=> InBatch) /\ (InUndo' <=> InUndo) /\ (InCall' <=> InCall)
        /\ (Written' <=> Written) /\ Call' = Call
    BY <1>1 DEF vars, InBatch, InUndo, InCall, Written, Call
  <2>2. LedgerSeen' /\ PostsOwn' /\ UndoKept' /\ lost' = {}
    BY <1>1, <2>1 DEF vars, KeptInv, LedgerSeen, PostsOwn, UndoKept
  <2>3. BatchKept'
    BY <1>1, <2>1 DEF vars, KeptInv, BatchKept
  <2> QED BY <2>2, <2>3 DEF KeptInv
<1>2. ASSUME NEW w \in Workers, NEW f \in Files, Read(w, f)
      PROVE  KeptInv'
  BY <1>2, ReadKept
<1>3. ASSUME NEW w \in Workers, NEW n \in 1 .. BatchSize, NEW calls \in [1 .. n -> Calls], StartBatch(w, calls)
      PROVE  KeptInv'
  <2>1. calls \in Seq(Calls)
    OBVIOUS
  <2> QED BY <1>3, <2>1, StartBatchKept
<1>4. CASE Snapshot \/ Decide \/ Capture \/ Commit \/ ExecutorFails \/ Refresh \/ Journal
  BY <1>4, SnapshotKept, DecideKept, CaptureKept, CommitKept, ExecutorFailsKept, RefreshKept, JournalKept
<1>5. CASE Rollback \/ Publish \/ ReportFailure
  BY <1>5, RollbackKept, PublishKept, ReportFailureKept
<1>6. ASSUME NEW sel \in SUBSET DOMAIN manifest.files, StartUndo(sel)
      PROVE  KeptInv'
  BY <1>6, StartUndoKept
<1>7. ASSUME NEW f \in Files, Apply(f) \/ UserEdits(f) \/ UserRemoves(f)
      PROVE  KeptInv'
  BY <1>7, ApplyKept, OthersKept
<1>8. CASE ApplyFails \/ Unapply \/ UnapplyEnds \/ PublishUndo \/ UndoReturns \/ NewRun
  BY <1>8, UndoEndsKept, EndsKept
<1> QED BY <1>1, <1>2, <1>3, <1>4, <1>5, <1>6, <1>7, <1>8 DEF Next

\* A content somebody else wrote is overwritten only by a worker that had read
\* it, never by a rollback and never by an undo, when nobody writes between
\* the two looks of a call at its file (read_ledger.go, file_mutation.go).
THEOREM EditsAreNotLost ==
  ASSUME Bounds, Window = FALSE
  PROVE  Spec => []NoLostEdit
<1>1. Init => KeptInv
  <2> SUFFICES ASSUME Init PROVE KeptInv
    OBVIOUS
  <2>1. ~InBatch /\ ~InUndo /\ DOMAIN manifest.files = {}
    BY DEF Init, InBatch, InUndo, Free, NoManifest
  <2>2. \A w \in Workers, f \in Files : ledger[w][f] = None
    BY DEF Init
  <2> QED BY <2>1, <2>2 DEF Init, KeptInv, LedgerSeen, PostsOwn, BatchKept, UndoKept
<1>2. FileInv /\ KeptInv /\ [Next]_vars => KeptInv'
  BY KeptStep
<1>3. KeptInv => NoLostEdit
  BY DEF KeptInv, NoLostEdit
<1> QED BY <1>1, <1>2, <1>3, FilesInvariant, PTL DEF Spec

-----------------------------------------------------------------------------
(***************************************************************************)
(* What else a tool leaves on the machine: its processes.                  *)
(***************************************************************************)
CONSTANTS Adapters, Policies, Limit, MaxOutput, Descendants, ApiFaults,
          SupervisorAdapters, Users, Kids, Reads, Escapes, SupervisorApiFaults
VARIABLES secure, route, policy, phase, root, exit, kids, ctx, pipe, written, kept, truncated, limitHit, stopped,
          reason, killed, seenCtx, waitErr, jobErr, jobDone, applied, failure, isError,
          supervisorSecure, isolating, supervisorPhase, inJob, supervisorRoot, supervisorKids, unread, io, tmp,
          supervisorCtx, waiter, done, term, termErr, once, stopErr, call, groupHit

Procs == INSTANCE Processes

(***************************************************************************)
(* The processes a tool starts.  One command behind the sandbox boundary:  *)
(* for every policy, adapter, limit, number of descendants and fault.      *)
(***************************************************************************)

\* The adapters and the kinds of descendants there are; a limit is a number.
CommandConstants ==
  /\ Limit \in Nat /\ Descendants \subseteq Procs!Kinds
  /\ Adapters \subseteq {"bubblewrap", "bubblewrap_nonet", "seatbelt", "windows", "unavailable"}

Contexts == {"live", "deadline", "canceled"}
CommandPhases == {"setup", "suspended", "running", "reaped", "drained", "claimed", "done"}

\* What admits a command holds as long as its root may run, and the root is
\* gone once it has been reaped.
RootInv ==
  /\ root \in {"suspended", "alive"} => Procs!CallerAdmits /\ Procs!RunnerAdmits
  /\ phase = "setup" => root = "none" /\ ~killed
  /\ phase = "suspended" => root = "suspended" /\ ~killed
  /\ phase \in {"reaped", "drained", "claimed", "done"} => root # "alive"

\* No byte is lost unless the output was cut.
OutputInv ==
  /\ written \in Nat /\ pipe \in Nat /\ kept \in 0..Limit /\ kept + pipe <= written
  /\ ~truncated /\ ~(waitErr /\ phase \in {"drained", "claimed", "done"}) => kept + pipe = written
  /\ phase \in {"drained", "claimed", "done"} => pipe = 0 /\ ~limitHit
  /\ phase \in {"setup", "suspended"} => written = 0 /\ pipe = 0 /\ kept = 0 /\ ~truncated /\ ~limitHit

\* A reason that names the context names it truly, and once the output limit
\* or the runner ended the process there is a reason.
ReasonInv ==
  /\ ctx \in Contexts /\ reason \in {"none", "output_limit", "deadline", "canceled"}
  /\ reason \in {"deadline", "canceled"} => ctx = reason
  /\ stopped => reason # "none"
  /\ Procs!Windows /\ killed => reason # "none" /\ (reason \in {"deadline", "canceled"} => seenCtx = reason)

\* Who may be left: nobody once a job is drained or the first process of a
\* namespace is gone, nobody of the group after a kill, and nobody who holds
\* the output once it has been drained without an error.
TreeInv ==
  /\ kids \subseteq Descendants
  /\ phase \in {"setup", "suspended"} => kids = {}
  /\ Procs!Windows => kids \subseteq Procs!Group
  /\ Procs!Windows /\ phase \in {"drained", "claimed", "done"} => kids = {}
  /\ Procs!Namespaced /\ root # "alive" => kids = {}
  /\ killed /\ ~Procs!Windows => kids \cap Procs!Group = {} /\ root # "alive"
  /\ phase \in {"drained", "claimed", "done"} /\ ~waitErr => kids \cap Procs!Attached = {}

\* What is reported, from the state it was decided in.
ReportInv ==
  /\ phase # "done" => failure = "unset" /\ applied = {}
  /\ phase = "done" =>
       /\ failure \in {"refused", "start_failed", "timeout", "canceled", "output_limit", "failed", "none"}
       /\ failure = "none" => exit = 0 /\ ~truncated /\ ~waitErr
       /\ ~isError => (exit = 0 /\ failure = "none") \/ (exit = 1 /\ failure \in {"failed", "output_limit"})

\* The inductive invariant of a command.
CommandInv ==
  /\ secure \in Adapters /\ phase \in CommandPhases
  /\ killed \in BOOLEAN /\ waitErr \in BOOLEAN
  /\ truncated \in BOOLEAN /\ stopped \in BOOLEAN /\ limitHit \in BOOLEAN
  /\ RootInv /\ OutputInv /\ ReasonInv /\ TreeInv /\ ReportInv

\* The invariant holds initially.
LEMMA CommandInitially == CommandConstants /\ Procs!SandboxInit => CommandInv
<1> SUFFICES ASSUME CommandConstants, Procs!SandboxInit
             PROVE  CommandInv
  OBVIOUS
<1> USE DEF CommandConstants, Procs!SandboxInit
<1>1. RootInv
  BY DEF RootInv
<1>2. OutputInv
  BY DEF OutputInv
<1>3. ReasonInv
  BY DEF ReasonInv, Contexts
<1>4. TreeInv
  BY DEF TreeInv
<1>5. ReportInv
  BY DEF ReportInv
<1> QED
  BY <1>1, <1>2, <1>3, <1>4, <1>5 DEF CommandInv, CommandPhases

\* What runs is isolated as its policy asks.
LEMMA AdmittedIsIsolated ==
  ASSUME CommandConstants, secure \in Adapters, Procs!CallerAdmits, Procs!RunnerAdmits
  PROVE  /\ policy.required \cap Procs!Isolation \subseteq Procs!AppliedIsolation
         /\ policy.access # "none" => "fs" \in Procs!AppliedIsolation
         /\ policy.network = "deny" => "net" \in Procs!AppliedIsolation
         /\ policy.limits => "limits" \in Procs!AppliedIsolation
         /\ policy.enforcement # "disabled" => Procs!AppliedIsolation \cap Procs!Isolation # {}
         /\ route = "tool" => policy.enforcement # "disabled"
<1>0. PICK needed : needed = Procs!RequiredCapabilities(policy)
  OBVIOUS
<1>1. /\ policy.required \subseteq needed
      /\ policy.access # "none" => "fs" \in needed
      /\ policy.network = "deny" => "net" \in needed
      /\ policy.limits => "limits" \in needed
  BY <1>0 DEF Procs!RequiredCapabilities
<1>2. /\ needed \subseteq Procs!Capabilities(Procs!Runner)
      /\ policy.enforcement = "disabled" => needed \cap Procs!Isolation = {}
      /\ route = "tool" => policy.enforcement # "disabled"
  BY <1>0 DEF Procs!RunnerAdmits, Procs!CallerAdmits, Procs!ValidatePolicy,
         Procs!validatePolicyShape
<1>3. CASE policy.enforcement = "disabled"
  <2>1. Procs!Runner = "unconfined"
    BY <1>3 DEF Procs!Runner
  <2>2. Procs!Capabilities(Procs!Runner) = {} /\ Procs!AppliedIsolation = {}
    BY <2>1 DEF Procs!Capabilities, Procs!AppliedIsolation, Procs!Windows
  <2> QED
    BY <1>1, <1>2, <1>3, <2>2 DEF Procs!Isolation
<1>4. CASE policy.enforcement # "disabled"
  <2>1. Procs!Runner \in {"bubblewrap", "bubblewrap_nonet", "seatbelt", "windows"}
    BY <1>4 DEF CommandConstants, Procs!Runner, Procs!RunnerAdmits
  <2>2. CASE Procs!Runner \in {"bubblewrap", "bubblewrap_nonet"}
    <3>1. Procs!AppliedIsolation = {"fs", "proc"} \cup (needed \cap {"net"})
      BY <1>0, <2>2 DEF Procs!AppliedIsolation, Procs!Windows
    <3>2. Procs!Capabilities(Procs!Runner) \subseteq {"fs", "net", "proc"}
      BY <2>2 DEF Procs!Capabilities
    <3> QED
      BY <1>1, <1>2, <3>1, <3>2 DEF Procs!Isolation
  <2>3. CASE Procs!Runner = "seatbelt"
    <3>1. Procs!AppliedIsolation = {"fs"} \cup (needed \cap {"net"})
      BY <1>0, <2>3 DEF Procs!AppliedIsolation, Procs!SeatbeltIsolation, Procs!Windows
    <3>2. Procs!Capabilities(Procs!Runner) \subseteq {"fs", "net"}
      BY <2>3 DEF Procs!Capabilities
    <3> QED
      BY <1>1, <1>2, <3>1, <3>2 DEF Procs!Isolation
  <2>4. CASE Procs!Runner = "windows"
    <3>1. Procs!AppliedIsolation = {"proc"} \cup (IF policy.limits THEN {"limits"} ELSE {})
      BY <2>4 DEF Procs!AppliedIsolation, Procs!Windows
    <3>2. Procs!Capabilities(Procs!Runner) \subseteq {"proc", "limits"}
      BY <2>4 DEF Procs!Capabilities
    <3> QED
      BY <1>1, <1>2, <3>1, <3>2 DEF Procs!Isolation
  <2> QED
    BY <2>1, <2>2, <2>3, <2>4
<1> QED
  BY <1>3, <1>4

\* What was given to the command does not change, so neither does its runner.
LEMMA GivenStays ==
  ASSUME Procs!SandboxNext \/ UNCHANGED Procs!sandboxVars
  PROVE  UNCHANGED <<secure, route, policy, Procs!Windows, Procs!Namespaced, Procs!CallerAdmits,
                     Procs!RunnerAdmits>>
<1>1. UNCHANGED <<secure, route, policy>>
  BY DEF Procs!SandboxNext, Procs!sandboxVars, Procs!given, Procs!Refuse, Procs!NotStarted,
         Procs!Start, Procs!Resume, Procs!Spawn, Procs!Emit, Procs!RootExits, Procs!KidExits,
         Procs!ContextEnds, Procs!Copy, Procs!OnLimit, Procs!CancelUnix, Procs!ReapUnix, Procs!DrainUnix,
         Procs!InterruptWindows, Procs!ReapWindows, Procs!EndJobWindows, Procs!DrainWindows,
         Procs!ClaimContext, Procs!Finish
<1> QED
  BY <1>1 DEF Procs!Windows, Procs!Namespaced, Procs!Runner, Procs!CallerAdmits, Procs!RunnerAdmits

\* The steps before a command runs.
LEMMA SetupKeeps ==
  ASSUME CommandConstants, CommandInv, Procs!Refuse \/ Procs!Start \/ Procs!Resume
  PROVE  CommandInv'
<1>1. UNCHANGED <<secure, Procs!Windows, Procs!CallerAdmits, Procs!RunnerAdmits>>
  BY GivenStays DEF Procs!SandboxNext
<1>2. CASE Procs!Refuse
  <2>1. /\ phase = "setup" /\ phase' = "done" /\ isError' = TRUE /\ applied' = {}
        /\ failure' \in {"refused", "start_failed", "timeout", "canceled"}
        /\ UNCHANGED <<root, exit, kids, ctx, pipe, written, kept, truncated, limitHit, stopped, reason,
                       killed,
                       waitErr, seenCtx>>
    BY <1>2 DEF Procs!Refuse, Procs!NotStarted, Procs!Ended, Procs!out, Procs!job
  <2> QED
    BY <1>1, <2>1 DEF CommandInv, CommandPhases, RootInv, OutputInv, ReasonInv, TreeInv, ReportInv
<1>3. CASE Procs!Start
  <2>1. /\ phase = "setup" /\ Procs!CallerAdmits /\ Procs!RunnerAdmits
        /\ phase' = IF Procs!Windows THEN "suspended" ELSE "running"
        /\ root' = IF Procs!Windows THEN "suspended" ELSE "alive"
        /\ UNCHANGED <<exit, kids, ctx, pipe, written, kept, truncated, limitHit, stopped, reason, killed,
                       waitErr, seenCtx, applied, failure, isError>>
    BY <1>3 DEF Procs!Start, Procs!out, Procs!job, Procs!verdict
  <2> QED
    BY <1>1, <2>1 DEF CommandInv, CommandPhases, RootInv, OutputInv, ReasonInv, TreeInv, ReportInv
<1>4. CASE Procs!Resume
  <2>1. /\ phase = "suspended"
        /\ UNCHANGED <<kids, ctx, pipe, written, kept, truncated, limitHit, stopped, reason, killed,
                       waitErr, seenCtx>>
        /\ \/ phase' = "running" /\ root' = "alive" /\ UNCHANGED <<exit, failure, isError, applied>>
           \/ /\ phase' = "done" /\ root' = "exited" /\ isError' = TRUE /\ applied' = {}
              /\ failure' \in {"refused", "timeout", "canceled"}
    BY <1>4 DEF Procs!Resume, Procs!Ended, Procs!out, Procs!job
  <2> QED
    BY <1>1, <2>1 DEF CommandInv, CommandPhases, RootInv, OutputInv, ReasonInv, TreeInv, ReportInv
<1> QED
  BY <1>2, <1>3, <1>4

\* The steps of the processes, of the context and of the output.
LEMMA RunningKeeps ==
  ASSUME CommandConstants, CommandInv,
         Procs!Spawn \/ Procs!Emit \/ Procs!RootExits \/ Procs!KidExits \/ Procs!ContextEnds \/ Procs!Copy
                 \/ Procs!OnLimit
  PROVE  CommandInv'
<1>1. UNCHANGED <<secure, Procs!Windows, Procs!Namespaced, Procs!CallerAdmits, Procs!RunnerAdmits>>
  BY GivenStays DEF Procs!SandboxNext
<1> USE DEF CommandConstants, CommandInv, CommandPhases, RootInv, OutputInv, ReasonInv, TreeInv, ReportInv
<1>2. CASE Procs!Spawn
  <2>1. UNCHANGED <<phase, root, exit, ctx, pipe, written, kept, truncated, limitHit, stopped, reason,
                    killed, waitErr, seenCtx, applied, failure, isError>>
    BY <1>2 DEF Procs!Spawn, Procs!out, Procs!job, Procs!verdict
  <2>2. PICK k \in Descendants \ kids :
          /\ \/ root = "alive" /\ phase = "running"
             \/ \E j \in kids : (k \in Procs!Group => j \in Procs!Group)
                              /\ (k \in Procs!Attached => j \in Procs!Attached)
          /\ Procs!Windows => k \in Procs!Group
          /\ kids' = kids \cup {k}
    BY <1>2 DEF Procs!Spawn
  <2>3. CASE root = "alive" /\ phase = "running"
    BY <1>1, <2>1, <2>2, <2>3
  <2>4. CASE root # "alive" \/ phase # "running"
    <3>1. PICK j \in kids : (k \in Procs!Group => j \in Procs!Group)
                         /\ (k \in Procs!Attached => j \in Procs!Attached)
      BY <2>2, <2>4
    <3>2. TreeInv'
      BY <1>1, <2>1, <2>2, <3>1
    <3> QED
      BY <1>1, <2>1, <3>2
  <2> QED
    BY <2>3, <2>4
<1>3. CASE Procs!Emit
  <2>1. /\ phase \in {"running", "reaped"} /\ written' = written + 1 /\ pipe' = pipe + 1
        /\ UNCHANGED <<phase, root, exit, kids, ctx, kept, truncated, limitHit, stopped, reason, killed,
                       waitErr, seenCtx, applied, failure, isError>>
    BY <1>3 DEF Procs!Emit, Procs!out, Procs!job, Procs!verdict
  <2> QED
    BY <1>1, <2>1
<1>4. CASE Procs!RootExits
  <2>1. /\ root = "alive" /\ root' = "exited"
        /\ kids' = IF Procs!Namespaced THEN {} ELSE kids
        /\ UNCHANGED <<phase, ctx, pipe, written, kept, truncated, limitHit, stopped, reason, killed,
                       waitErr, seenCtx, applied, failure, isError>>
    BY <1>4 DEF Procs!RootExits, Procs!out, Procs!job, Procs!verdict
  <2> QED
    BY <1>1, <2>1
<1>5. CASE Procs!KidExits
  <2>1. /\ kids' \subseteq kids
        /\ UNCHANGED <<phase, root, exit, ctx, pipe, written, kept, truncated, limitHit, stopped, reason,
                       killed,
                       waitErr, seenCtx, applied, failure, isError>>
    BY <1>5 DEF Procs!KidExits, Procs!out, Procs!job, Procs!verdict
  <2> QED
    BY <1>1, <2>1
<1>6. CASE Procs!ContextEnds
  <2>1. /\ ctx = "live" /\ ctx' \in {"deadline", "canceled"}
        /\ UNCHANGED <<phase, root, exit, kids, pipe, written, kept, truncated, limitHit, stopped, reason,
                       killed,
                       waitErr, seenCtx, applied, failure, isError>>
    BY <1>6 DEF Procs!ContextEnds, Procs!out, Procs!job, Procs!verdict
  <2> QED
    BY <1>1, <2>1 DEF Contexts
<1>7. CASE Procs!Copy
  <2>1. /\ phase \in {"running", "reaped"}
        /\ UNCHANGED <<phase, root, exit, kids, ctx, written, stopped, reason, killed,
                       waitErr, seenCtx, applied, failure, isError>>
    BY <1>7 DEF Procs!Copy, Procs!job, Procs!verdict
  <2>2. PICK n \in 1..pipe, keep \in Int :
          /\ keep = IF n > Limit - kept THEN Limit - kept ELSE n
          /\ pipe' = pipe - n /\ kept' = kept + keep
          /\ truncated' = (truncated \/ keep < n)
          /\ limitHit' = (keep < n /\ ~stopped)
    BY <1>7 DEF Procs!Copy
  <2>3. (keep < n) = (n > Limit - kept)
    BY <2>2
  <2>6. /\ truncated' \in BOOLEAN /\ limitHit' \in BOOLEAN
        /\ keep < n => truncated'
        /\ ~(keep < n) => truncated' = truncated
    BY <2>2, Zenon
  <2>4. CASE n > Limit - kept
    <3>1. pipe' = pipe - n /\ kept' = Limit
      BY <2>2, <2>4
    <3> QED
      BY <1>1, <2>1, <2>2, <2>3, <2>4, <2>6, <3>1
  <2>5. CASE n <= Limit - kept
    <3>1. pipe' = pipe - n /\ kept' = kept + n
      BY <2>2, <2>5
    <3> QED
      BY <1>1, <2>1, <2>2, <2>3, <2>5, <2>6, <3>1
  <2> QED
    BY <2>4, <2>5
<1>8. CASE Procs!OnLimit
  <2>1. /\ limitHit /\ limitHit' = FALSE /\ stopped' = TRUE
        /\ reason' = IF reason = "none" THEN (IF ctx = "live" THEN "output_limit" ELSE ctx) ELSE reason
        /\ UNCHANGED <<phase, root, exit, kids, ctx, pipe, written, kept, truncated, killed,
                       waitErr, seenCtx, applied, failure, isError>>
    BY <1>8 DEF Procs!OnLimit, Procs!Claim, Procs!job, Procs!verdict
  <2>2. TreeInv' /\ RootInv' /\ OutputInv' /\ ReportInv'
    BY <1>1, <2>1
  <2>3. ReasonInv'
    BY <1>1, <2>1 DEF Contexts
  <2> QED
    BY <1>1, <2>1, <2>2, <2>3
<1> QED
  BY <1>2, <1>3, <1>4, <1>5, <1>6, <1>7, <1>8

\* The steps that end the processes and wait for them.
LEMMA EndingKeeps ==
  ASSUME CommandConstants, CommandInv,
         Procs!CancelUnix \/ Procs!ReapUnix \/ Procs!DrainUnix \/ Procs!InterruptWindows
                 \/ Procs!ReapWindows \/ Procs!EndJobWindows \/ Procs!DrainWindows
  PROVE  CommandInv'
<1>1. UNCHANGED <<secure, Procs!Windows, Procs!Namespaced, Procs!CallerAdmits, Procs!RunnerAdmits>>
  BY GivenStays DEF Procs!SandboxNext
<1> USE DEF CommandConstants, CommandInv, CommandPhases, RootInv, OutputInv, ReasonInv, TreeInv, ReportInv
<1>2. CASE Procs!CancelUnix
  <2>1. /\ ~Procs!Windows /\ phase = "running"
        /\ killed' = TRUE /\ waitErr' \in BOOLEAN /\ root' = "exited"
        /\ kids' = IF Procs!Namespaced THEN {} ELSE kids \ Procs!Group
        /\ UNCHANGED <<phase, ctx, pipe, written, kept, truncated, limitHit, stopped, reason, seenCtx,
                       applied, failure, isError>>
    BY <1>2 DEF Procs!CancelUnix, Procs!out, Procs!job, Procs!verdict
  <2> QED
    BY <1>1, <2>1
<1>3. CASE Procs!ReapUnix
  <2>1. /\ ~Procs!Windows /\ phase = "running" /\ root = "exited" /\ phase' = "reaped"
        /\ UNCHANGED <<root, exit, kids, ctx, pipe, written, kept, truncated, limitHit, stopped, reason,
                       killed,
                       waitErr, seenCtx, applied, failure, isError>>
    BY <1>3 DEF Procs!ReapUnix, Procs!out, Procs!job, Procs!verdict
  <2> QED
    BY <1>1, <2>1
<1>4. CASE Procs!DrainUnix
  <2>1. /\ ~Procs!Windows /\ phase = "reaped" /\ ~limitHit /\ phase' = "drained" /\ pipe' = 0
        /\ UNCHANGED <<root, exit, kids, ctx, written, kept, truncated, limitHit, stopped, reason, killed,
                       seenCtx, applied, failure, isError>>
    BY <1>4 DEF Procs!DrainUnix, Procs!job, Procs!verdict
  <2>2. CASE kids \cap Procs!Attached = {} /\ pipe = 0 /\ waitErr' = waitErr
    BY <1>1, <2>1, <2>2
  <2>3. CASE waitErr' = TRUE
    BY <1>1, <2>1, <2>3
  <2> QED
    BY <1>4, <2>2, <2>3 DEF Procs!DrainUnix
<1>5. CASE Procs!InterruptWindows
  <2>1. /\ Procs!Windows /\ phase = "running" /\ Procs!ExecutionEnds /\ phase' = "reaped"
        /\ reason' = Procs!Claim(Procs!FromContext) /\ root' = "exited"
        /\ UNCHANGED <<kids, ctx, pipe, written, kept, truncated, limitHit, stopped, waitErr,
                       applied, failure, isError>>
    BY <1>5 DEF Procs!InterruptWindows, Procs!out, Procs!verdict
  <2>2. /\ reason' \in {"none", "output_limit", "deadline", "canceled"}
        /\ reason' \in {"deadline", "canceled"} => ctx = reason'
        /\ reason' # "none" /\ (reason # "none" => reason' = reason)
    BY <2>1 DEF Procs!Claim, Procs!FromContext, Procs!ExecutionEnds, Contexts
  <2>3. ~Procs!Namespaced
    BY <2>1 DEF Procs!Windows, Procs!Namespaced
  <2>4. CASE UNCHANGED <<killed, seenCtx>>
    BY <1>1, <2>1, <2>2, <2>3, <2>4
  <2>5. CASE killed' = TRUE /\ seenCtx' = ctx
    BY <1>1, <2>1, <2>2, <2>3, <2>5
  <2> QED
    BY <1>5, <2>4, <2>5 DEF Procs!InterruptWindows
<1>6. CASE Procs!ReapWindows
  <2>1. /\ Procs!Windows /\ phase = "running" /\ root = "exited"
        /\ phase' = "reaped" /\ reason' = Procs!Claim(Procs!FromContext)
        /\ UNCHANGED <<root, exit, kids, ctx, pipe, written, kept, truncated, limitHit, stopped, killed,
                       waitErr, seenCtx, applied, failure, isError>>
    BY <1>6 DEF Procs!ReapWindows, Procs!out, Procs!job, Procs!verdict
  <2>2. /\ reason' \in {"none", "output_limit", "deadline", "canceled"}
        /\ reason' \in {"deadline", "canceled"} => ctx = reason'
        /\ reason # "none" => reason' = reason
    BY <2>1 DEF Procs!Claim, Procs!FromContext, Contexts
  <2> QED
    BY <1>1, <2>1, <2>2
<1>7. CASE Procs!EndJobWindows
  <2>1. /\ phase = "reaped"
        /\ UNCHANGED <<phase, root, exit, kids, ctx, pipe, written, kept, truncated, limitHit, stopped,
                       reason, killed,
                       waitErr, seenCtx, applied, failure, isError>>
    BY <1>7 DEF Procs!EndJobWindows, Procs!out, Procs!verdict
  <2> QED
    BY <1>1, <2>1
<1>8. CASE Procs!DrainWindows
  <2>1. /\ Procs!Windows /\ phase = "reaped" /\ pipe = 0 /\ ~limitHit /\ kids' = {} /\ phase' = "drained"
        /\ UNCHANGED <<root, exit, ctx, pipe, written, kept, truncated, limitHit, stopped, reason, killed,
                       waitErr, seenCtx, applied, failure, isError>>
    BY <1>8 DEF Procs!DrainWindows, Procs!out, Procs!verdict
  <2> QED
    BY <1>1, <2>1
<1> QED
  BY <1>2, <1>3, <1>4, <1>5, <1>6, <1>7, <1>8

\* What the verdict says of the exit, the output and the context.
LEMMA VerdictIsTrue ==
  ASSUME CommandInv, phase = "claimed"
  PROVE  /\ Procs!Verdict \in {"timeout", "canceled", "output_limit", "failed", "none"}
         /\ Procs!Verdict = "none" => exit = 0 /\ ~truncated /\ ~waitErr
         /\ truncated => Procs!Verdict # "none"
         /\ Procs!Verdict = "timeout" => ctx = "deadline" /\ killed
         /\ Procs!Verdict = "canceled" => ctx = "canceled" /\ killed
<1> DEFINE ended == killed /\ (Procs!Windows \/ Procs!Failed)
           clean == IF reason \in {"deadline", "canceled"} /\ ~ended THEN "none" ELSE reason
<1>1. Procs!FinalReason = IF clean = "none" /\ truncated THEN "output_limit" ELSE clean
  BY DEF Procs!FinalReason
<1>2. /\ clean \in {"none", "output_limit", "deadline", "canceled"}
      /\ clean \in {"deadline", "canceled"} => clean = reason /\ killed /\ (Procs!Windows \/ Procs!Failed)
  BY DEF CommandInv, ReasonInv
<1> HIDE DEF clean
<1>3. /\ Procs!FinalReason \in {"none", "output_limit", "deadline", "canceled"}
      /\ Procs!FinalReason \in {"deadline", "canceled"} =>
              ctx = Procs!FinalReason /\ killed /\ (Procs!Windows \/ Procs!Failed)
      /\ Procs!FinalReason \in {"deadline", "canceled"} /\ Procs!Windows =>
              Procs!ContextEnded = Procs!FinalReason
      /\ truncated => Procs!FinalReason # "none"
  BY <1>1, <1>2 DEF CommandInv, ReasonInv, Procs!ContextEnded
<1>4. /\ ~Procs!Failed => exit = 0 /\ ~waitErr
      /\ Procs!Verdict \in {"timeout", "canceled", "output_limit", "failed", "none"}
      /\ Procs!Verdict = "timeout" => Procs!FinalReason = "deadline"
      /\ Procs!Verdict = "canceled" => Procs!FinalReason = "canceled"
      /\ Procs!Verdict = "none" => ~Procs!Failed /\ Procs!FinalReason # "output_limit"
      /\ Procs!Verdict = "none" =>
              ~(Procs!FinalReason \in {"deadline", "canceled"} /\ Procs!ContextEnded = Procs!FinalReason)
  BY DEF Procs!Failed, Procs!Verdict
<1> QED
  BY <1>3, <1>4

\* The last steps: the claim of the context, and the report.
LEMMA FinishKeeps ==
  ASSUME CommandConstants, CommandInv, Procs!ClaimContext \/ Procs!Finish
  PROVE  CommandInv'
<1>1. UNCHANGED <<secure, Procs!Windows, Procs!Namespaced, Procs!CallerAdmits, Procs!RunnerAdmits>>
  BY GivenStays DEF Procs!SandboxNext
<1>2. CASE Procs!ClaimContext
  <2>1. /\ phase = "drained" /\ phase' = "claimed"
        /\ reason' = IF Procs!Windows THEN reason ELSE Procs!Claim(Procs!FromContext)
        /\ UNCHANGED <<root, exit, kids, ctx, pipe, written, kept, truncated, limitHit, stopped, killed,
                       waitErr, seenCtx, applied, failure, isError>>
    BY <1>2 DEF Procs!ClaimContext, Procs!out, Procs!job, Procs!verdict
  <2>2. ReasonInv'
    <3>1. CASE Procs!Windows
      BY <1>1, <2>1, <3>1 DEF CommandInv, ReasonInv
    <3>2. CASE ~Procs!Windows
      BY <1>1, <2>1, <3>2 DEF CommandInv, ReasonInv, Procs!Claim, Procs!FromContext, Contexts
    <3> QED
      BY <3>1, <3>2
  <2> QED
    BY <1>1, <2>1, <2>2 DEF CommandInv, CommandPhases, RootInv, OutputInv, TreeInv, ReportInv
<1>3. CASE Procs!Finish
  <2>1. /\ phase = "claimed" /\ phase' = "done" /\ failure' = Procs!Verdict
        /\ applied' = Procs!AppliedIsolation \cup (IF Procs!Windows /\ ~jobErr THEN {"treekill"} ELSE {})
        /\ UNCHANGED <<root, exit, kids, ctx, pipe, written, kept, truncated, limitHit, stopped, reason,
                       killed,
                       waitErr, seenCtx>>
    BY <1>3 DEF Procs!Finish, Procs!out, Procs!job
  <2>2. PICK semantic \in BOOLEAN : isError' = Procs!BashIsError(semantic)
    BY <1>3 DEF Procs!Finish
  <2>3. ~isError' =>
          (exit = 0 /\ Procs!Verdict = "none") \/ (exit = 1 /\ Procs!Verdict \in {"failed", "output_limit"})
    <3>1. ~Procs!BashIsError(semantic) =>
            /\ Procs!Verdict \notin {"timeout", "canceled"}
            /\ exit # 0 => exit = 1
            /\ exit = 0 => Procs!Verdict = "none"
      BY DEF Procs!BashIsError
    <3> QED
      BY <2>1, <2>2, <3>1, VerdictIsTrue
  <2>4. ReportInv'
    BY <2>1, <2>3, VerdictIsTrue DEF ReportInv
  <2> QED
    BY <1>1, <2>1, <2>4 DEF CommandInv, CommandPhases, RootInv, OutputInv, ReasonInv, TreeInv
<1> QED
  BY <1>2, <1>3

\* Every step keeps the invariant, and a verdict that blames the context is
\* true of it.
LEMMA CommandStep ==
  ASSUME CommandConstants, CommandInv, [Procs!SandboxNext]_(Procs!sandboxVars)
  PROVE  CommandInv' /\ [Procs!BlameIsTrue]_(Procs!sandboxVars)
<1>1. CommandInv'
  <2>1. CASE UNCHANGED Procs!sandboxVars
    <3>1. UNCHANGED <<Procs!CallerAdmits, Procs!RunnerAdmits, Procs!Windows, Procs!Namespaced>>
      BY <2>1, GivenStays
    <3> QED
      BY <2>1, <3>1 DEF CommandInv, RootInv, OutputInv, ReasonInv, TreeInv, ReportInv,
             Procs!sandboxVars
  <2> QED
    BY <2>1, SetupKeeps, RunningKeeps, EndingKeeps, FinishKeeps DEF Procs!SandboxNext
<1>2. [Procs!BlameIsTrue]_(Procs!sandboxVars)
  <2> SUFFICES ASSUME Procs!SandboxNext, phase = "claimed", phase' = "done"
               PROVE  Procs!BlameIsTrue
    BY DEF Procs!BlameIsTrue
  <2>1. failure' = Procs!Verdict
    BY DEF Procs!SandboxNext, Procs!Refuse, Procs!NotStarted, Procs!Start, Procs!Resume,
           Procs!Spawn, Procs!Emit, Procs!RootExits, Procs!KidExits, Procs!ContextEnds, Procs!Copy,
           Procs!OnLimit, Procs!CancelUnix, Procs!ReapUnix, Procs!DrainUnix, Procs!InterruptWindows,
           Procs!ReapWindows, Procs!EndJobWindows, Procs!DrainWindows, Procs!ClaimContext, Procs!Finish
  <2> QED
    BY <2>1, VerdictIsTrue DEF Procs!BlameIsTrue
<1> QED
  BY <1>1, <1>2

\* A command is isolated as its policy asks, its success is complete, what is
\* not called an error ended in order, what it left running is only what a
\* kill of the group cannot reach or what went to the background of a root
\* that ended by itself, and nothing that holds the output of a success, and
\* a verdict that blames the context is true (sandbox/contract.go,
\* output_capture.go, process_unix.go, unconfined.go, job_windows.go).
THEOREM CommandsAreContained ==
  ASSUME CommandConstants
  PROVE  Procs!SandboxSpec =>
           /\ [](/\ Procs!SandboxTypeOK /\ Procs!IsolationHolds /\ Procs!SuccessIsComplete
                 /\ Procs!QuietIsOrderly /\ Procs!TreeGone)
           /\ [][Procs!BlameIsTrue]_(Procs!sandboxVars)
<1>1. CommandInv =>
        /\ Procs!SandboxTypeOK /\ Procs!IsolationHolds /\ Procs!SuccessIsComplete
        /\ Procs!QuietIsOrderly /\ Procs!TreeGone
  <2> SUFFICES ASSUME CommandInv
               PROVE  /\ Procs!SandboxTypeOK /\ Procs!IsolationHolds /\ Procs!SuccessIsComplete
                      /\ Procs!QuietIsOrderly /\ Procs!TreeGone
    OBVIOUS
  <2>1. Procs!SandboxTypeOK
    BY DEF CommandInv, OutputInv, ReasonInv, TreeInv, ReportInv, Procs!SandboxTypeOK
  <2>2. Procs!IsolationHolds
    BY AdmittedIsIsolated DEF CommandInv, RootInv, Procs!IsolationHolds
  <2>3. Procs!SuccessIsComplete
    BY DEF CommandInv, OutputInv, ReportInv, Procs!SuccessIsComplete
  <2>4. Procs!QuietIsOrderly /\ Procs!TreeGone
    BY DEF CommandInv, RootInv, TreeInv, ReportInv, Procs!QuietIsOrderly, Procs!TreeGone
  <2> QED
    BY <2>1, <2>2, <2>3, <2>4
<1> QED
  BY <1>1, CommandInitially, CommandStep, PTL DEF Procs!SandboxSpec

(***************************************************************************)
(* A long-lived child behind a supervisor: for every adapter, any set of   *)
(* users and of descendants, every fault; no constant is assumed anything. *)
(***************************************************************************)

\* Where a start stands: nobody was signalled or waited for before it ended
\* well, and a temporary directory goes with the process or with the failure.
StartInv ==
  /\ supervisorPhase # "started" => term = "no" /\ ~groupHit /\ \A c \in Procs!Callers : call[c] = "idle"
  /\ supervisorPhase \in {"setup", "built"} => supervisorRoot = "none"
  /\ supervisorPhase \in {"setup", "suspended"} => tmp = "none"
  /\ supervisorPhase = "built" => tmp # "removed"
  /\ supervisorPhase = "failed" => supervisorRoot \in {"none", "dead"} /\ tmp # "made"
  /\ supervisorPhase = "started" /\ tmp = "removed" => done

\* A group that was hit has nobody left, and nobody leaves a job.
GroupInv ==
  /\ groupHit => supervisorRoot = "dead" /\ \A k \in Kids : ~Procs!Grouped(k)
  /\ Procs!SupervisorWindows => \A k \in Kids : supervisorKids[k] # "escaped"

\* What the end of the wait says.
EndInv ==
  /\ waiter \in {"reaped", "ended"} => supervisorRoot = "dead"
  /\ done /\ ~Procs!SupervisorWindows => ~Procs!Holders \/ io = "closed"
  /\ done /\ Procs!SupervisorWindows => \A k \in Kids : ~Procs!SupervisorAlive(k)
  /\ \A c \in Procs!Callers : call[c] = "reaped" => done

\* The inductive invariant of a supervised process.
SupervisedInv == Procs!SupervisorTypeOK /\ StartInv /\ GroupInv /\ EndInv

\* The invariant holds initially.
LEMMA SupervisedInitially == Procs!SupervisorInit => SupervisedInv
  BY DEF Procs!SupervisorInit, SupervisedInv, Procs!SupervisorTypeOK, StartInv, GroupInv, EndInv,
         Procs!Grouped, Procs!SupervisorAlive

\* The adapter of a process does not change.
LEMMA AdapterStays ==
  ASSUME Procs!SupervisorNext
  PROVE  UNCHANGED Procs!SupervisorWindows
<1>1. UNCHANGED <<supervisorSecure, isolating>>
  BY DEF Procs!SupervisorNext, Procs!setup, Procs!SupervisorRefuse, Procs!Build, Procs!StartHost,
         Procs!Launched, Procs!StartHostFails, Procs!CreateSuspended, Procs!AssignToJob, Procs!AssignFails,
         Procs!ResumeThread, Procs!ResumeFails, Procs!SupervisorSpawn, Procs!SupervisorEmit,
         Procs!ChildExits, Procs!Read, Procs!SupervisorContextEnds, Procs!CloseIO, Procs!WaitReaps,
         Procs!WaitEnds, Procs!SupervisorEnded, Procs!WaitEndsWindows, Procs!RemoveTemporary,
         Procs!KillJob, Procs!DrainJob, Procs!Stop, Procs!KillGroup, Procs!TerminateJob,
         Procs!TerminateReturns, Procs!JoinStop, Procs!StopReturns
<1> QED
  BY <1>1 DEF Procs!SupervisorWindows, Procs!SupervisorRunner

\* The end of the group: nobody of it is left, and nobody new appears.
LEMMA GroupEnds ==
  ASSUME Procs!SupervisorTypeOK
  PROVE  /\ Procs!EndGroup \in [Kids -> {"none", "piped", "silent", "escaped", "dead"}]
         /\ \A k \in Kids : Procs!EndGroup[k] \in {"none", "escaped", "dead"}
         /\ \A k \in Kids : Procs!EndGroup[k] = "escaped" => supervisorKids[k] = "escaped"
  BY DEF Procs!EndGroup, Procs!Grouped, Procs!SupervisorTypeOK

\* A start, whether it succeeds or fails.
LEMMA StartingKeeps ==
  ASSUME SupervisedInv, Procs!SupervisorNext,
         \/ Procs!SupervisorRefuse \/ Procs!Build \/ Procs!StartHost \/ Procs!StartHostFails
         \/ Procs!CreateSuspended \/ Procs!AssignToJob \/ Procs!AssignFails \/ Procs!ResumeThread
                 \/ Procs!ResumeFails
  PROVE  SupervisedInv'
<1>1. UNCHANGED Procs!SupervisorWindows
  BY AdapterStays
<1>2. supervisorPhase # "started" /\ UNCHANGED <<supervisorKids, term, termErr, once, stopErr, call,
                                                 unread, io,
                                                  supervisorCtx, done, groupHit>>
  BY DEF Procs!SupervisorRefuse, Procs!Build, Procs!StartHost, Procs!Launched, Procs!StartHostFails,
         Procs!CreateSuspended, Procs!AssignToJob, Procs!AssignFails, Procs!ResumeThread,
         Procs!ResumeFails, Procs!setup, Procs!procs, Procs!jobs, Procs!stops
<1>3. CASE Procs!StartHost \/ Procs!ResumeThread
  <2>1. /\ supervisorPhase \in {"setup", "built", "suspended"}
        /\ supervisorPhase' = "started" /\ supervisorRoot' = "alive" /\ waiter' = "waiting"
        /\ UNCHANGED <<inJob, tmp>>
    BY <1>3 DEF Procs!StartHost, Procs!ResumeThread, Procs!Launched, Procs!jobs
  <2>2. Procs!SupervisorTypeOK' /\ StartInv'
    BY <1>2, <2>1 DEF SupervisedInv, Procs!SupervisorTypeOK, StartInv
  <2> QED
    BY <1>1, <1>2, <2>1, <2>2 DEF SupervisedInv, Procs!SupervisorTypeOK, StartInv, GroupInv, EndInv
<1>4. CASE Procs!SupervisorRefuse \/ Procs!StartHostFails \/ Procs!AssignFails \/ Procs!ResumeFails
  <2>1. /\ supervisorPhase' = "failed"
        /\ \/ supervisorPhase \in {"setup", "built"} /\ supervisorRoot' = supervisorRoot
           \/ supervisorPhase = "suspended" /\ supervisorRoot' = "dead"
        /\ \/ supervisorPhase \in {"setup", "suspended"} /\ tmp' = tmp
           \/ supervisorPhase = "built" /\ tmp' = IF tmp = "made" THEN "removed" ELSE tmp
        /\ UNCHANGED <<inJob, waiter>>
    BY <1>4 DEF Procs!SupervisorRefuse, Procs!StartHostFails, Procs!AssignFails, Procs!ResumeFails,
           Procs!procs, Procs!jobs
  <2>2. Procs!SupervisorTypeOK' /\ StartInv'
    BY <1>2, <2>1 DEF SupervisedInv, Procs!SupervisorTypeOK, StartInv
  <2> QED
    BY <1>1, <1>2, <2>1, <2>2 DEF SupervisedInv, Procs!SupervisorTypeOK, StartInv, GroupInv, EndInv
<1>5. CASE Procs!Build \/ Procs!CreateSuspended \/ Procs!AssignToJob
  <2>1. /\ \/ /\ supervisorPhase = "setup" /\ supervisorPhase' = "built"
              /\ tmp' \in {"made", tmp} /\ supervisorRoot' = supervisorRoot
           \/ /\ supervisorPhase = "setup" /\ supervisorPhase' = "suspended"
              /\ tmp' = tmp /\ supervisorRoot' = "suspended"
           \/ supervisorPhase = "suspended" /\ UNCHANGED <<supervisorPhase, tmp, supervisorRoot>>
        /\ (inJob' = TRUE \/ inJob' = inJob) /\ waiter' = waiter
    BY <1>5 DEF Procs!Build, Procs!CreateSuspended, Procs!AssignToJob, Procs!procs, Procs!jobs
  <2>2. Procs!SupervisorTypeOK' /\ StartInv'
    <3>1. Procs!SupervisorTypeOK'
      <4>1. done' = (waiter' = "ended") /\ (supervisorPhase' = "started") = (waiter' # "no")
        BY <1>2, <2>1 DEF SupervisedInv, Procs!SupervisorTypeOK
      <4>2. /\ supervisorPhase' \in {"setup", "built", "suspended", "started", "failed"} /\ inJob' \in BOOLEAN
            /\ supervisorRoot' \in {"none", "suspended", "alive", "dead"}
                    /\ tmp' \in {"none", "made", "removed"}
        BY <1>2, <2>1 DEF SupervisedInv, Procs!SupervisorTypeOK
      <4>3. /\ waiter' \in {"no", "waiting", "reaped", "ended"} /\ call' = call
              /\ supervisorKids' = supervisorKids
            /\ UNCHANGED <<unread, io, supervisorCtx, term, termErr, once, stopErr>>
        BY <1>2, <2>1 DEF SupervisedInv, Procs!SupervisorTypeOK
      <4> QED
        BY <4>1, <4>2, <4>3 DEF SupervisedInv, Procs!SupervisorTypeOK
    <3>2. StartInv'
      BY <1>2, <2>1 DEF SupervisedInv, Procs!SupervisorTypeOK, StartInv
    <3> QED
      BY <3>1, <3>2
  <2> QED
    BY <1>1, <1>2, <2>1, <2>2 DEF SupervisedInv, Procs!SupervisorTypeOK, StartInv, GroupInv, EndInv
<1> QED
  BY <1>3, <1>4, <1>5

\* The child, its descendants, its client and its context.
LEMMA LivingKeeps ==
  ASSUME SupervisedInv, Procs!SupervisorNext,
         \/ \E k \in Kids : Procs!SupervisorSpawn(k)
         \/ Procs!SupervisorEmit \/ Procs!ChildExits \/ Procs!Read \/ Procs!SupervisorContextEnds
                 \/ Procs!CloseIO
  PROVE  SupervisedInv'
<1>1. UNCHANGED Procs!SupervisorWindows
  BY AdapterStays
<1>2. UNCHANGED <<supervisorPhase, inJob, term, termErr, once, stopErr, call, tmp, waiter, done, groupHit>>
  BY DEF Procs!SupervisorSpawn, Procs!SupervisorEmit, Procs!ChildExits, Procs!Read,
         Procs!SupervisorContextEnds, Procs!CloseIO, Procs!setup, Procs!procs, Procs!jobs, Procs!stops
<1>3. CASE \E k \in Kids : Procs!SupervisorSpawn(k)
  <2>1. PICK k \in Kids, s \in {"piped", "silent", "escaped"} :
          /\ supervisorRoot = "alive" \/ \E j \in Kids : supervisorKids[j] \in {"piped", s}
          /\ supervisorKids' = [supervisorKids EXCEPT ![k] = s]
          /\ s = "escaped" => ~Procs!SupervisorWindows
          /\ UNCHANGED <<supervisorRoot, unread, io, supervisorCtx>>
    BY <1>3 DEF Procs!SupervisorSpawn
  <2>2. /\ supervisorKids' \in [Kids -> {"none", "piped", "silent", "escaped", "dead"}]
        /\ \A j \in Kids : supervisorKids'[j] = supervisorKids[j] \/ supervisorKids'[j] = s
    BY <2>1 DEF SupervisedInv, Procs!SupervisorTypeOK
  <2>3. Procs!SupervisorTypeOK' /\ StartInv'
    BY <1>2, <2>1, <2>2 DEF SupervisedInv, Procs!SupervisorTypeOK, StartInv
  <2>4. GroupInv'
    BY <1>1, <1>2, <2>1, <2>2 DEF SupervisedInv, GroupInv, Procs!Grouped
  <2>5. done /\ ~Procs!SupervisorWindows => ~Procs!Holders' \/ io' = "closed"
    BY <1>2, <2>1, <2>2 DEF SupervisedInv, Procs!SupervisorTypeOK, EndInv, Procs!Holders,
           Procs!Holds
  <2>6. done /\ Procs!SupervisorWindows => \A j \in Kids : ~Procs!SupervisorAlive(j)'
    BY <1>2, <2>1, <2>2 DEF SupervisedInv, Procs!SupervisorTypeOK, EndInv, Procs!SupervisorAlive
  <2> QED
    BY <1>1, <1>2, <2>1, <2>3, <2>4, <2>5, <2>6 DEF SupervisedInv, EndInv
<1>4. CASE Procs!SupervisorEmit \/ Procs!ChildExits \/ Procs!Read \/ Procs!SupervisorContextEnds
        \/ Procs!CloseIO
  <2>1. /\ supervisorKids' = supervisorKids /\ unread' \in BOOLEAN
        /\ supervisorRoot' = supervisorRoot \/ (supervisorRoot = "alive" /\ supervisorRoot' = "dead")
        /\ io' \in {io, "closed"} /\ supervisorCtx' \in {supervisorCtx, "ended"}
    BY <1>4 DEF SupervisedInv, Procs!SupervisorTypeOK, Procs!SupervisorEmit, Procs!ChildExits,
           Procs!Read, Procs!SupervisorContextEnds, Procs!CloseIO, Procs!procs
  <2>2. Procs!SupervisorTypeOK' /\ StartInv'
    BY <1>2, <2>1 DEF SupervisedInv, Procs!SupervisorTypeOK, StartInv
  <2>3. GroupInv' /\ EndInv'
    BY <1>1, <1>2, <2>1 DEF SupervisedInv, Procs!SupervisorTypeOK, GroupInv, EndInv, Procs!Grouped,
           Procs!SupervisorAlive, Procs!Holders, Procs!Holds
  <2> QED
    BY <2>2, <2>3 DEF SupervisedInv
<1> QED
  BY <1>3, <1>4

\* The goroutine that waits, and the job controller's.
LEMMA WaitingKeeps ==
  ASSUME SupervisedInv, Procs!SupervisorNext,
         Procs!WaitReaps \/ Procs!WaitEnds \/ Procs!WaitEndsWindows \/ Procs!RemoveTemporary
                 \/ Procs!KillJob \/ Procs!DrainJob
  PROVE  SupervisedInv'
<1>1. UNCHANGED Procs!SupervisorWindows
  BY AdapterStays
<1>2. /\ supervisorPhase = "started"
      /\ UNCHANGED <<supervisorPhase, inJob, once, stopErr, call, unread, io, supervisorCtx>>
  BY DEF Procs!WaitReaps, Procs!WaitEnds, Procs!WaitEndsWindows, Procs!SupervisorEnded,
         Procs!RemoveTemporary, Procs!KillJob, Procs!DrainJob, Procs!setup, Procs!procs, Procs!jobs,
         Procs!stops, SupervisedInv, Procs!SupervisorTypeOK, StartInv
<1>3. CASE Procs!WaitReaps
  <2>1. /\ waiter = "waiting" /\ supervisorRoot = "dead" /\ waiter' = "reaped" /\ term' \in {term, "killing"}
        /\ UNCHANGED <<supervisorRoot, supervisorKids, termErr, tmp, done, groupHit>>
    BY <1>3 DEF Procs!WaitReaps, Procs!procs
  <2>2. Procs!SupervisorTypeOK' /\ StartInv'
    BY <1>2, <2>1 DEF SupervisedInv, Procs!SupervisorTypeOK, StartInv
  <2>3. GroupInv' /\ EndInv'
    BY <1>1, <1>2, <2>1 DEF SupervisedInv, Procs!SupervisorTypeOK, GroupInv, EndInv, Procs!Grouped,
           Procs!SupervisorAlive, Procs!Holders, Procs!Holds
  <2> QED
    BY <2>2, <2>3 DEF SupervisedInv
<1>4. CASE Procs!WaitEnds
  <2>1. /\ waiter = "reaped" /\ ~Procs!SupervisorWindows /\ waiter' = "ended" /\ done' = TRUE
        /\ ~Procs!Holders \/ io = "closed"
        /\ UNCHANGED <<supervisorRoot, supervisorKids, term, termErr, tmp, groupHit>>
    BY <1>4 DEF Procs!WaitEnds, Procs!SupervisorEnded, Procs!CopyingEnded, Procs!jobs
  <2>2. Procs!SupervisorTypeOK' /\ StartInv'
    <3>1. Procs!SupervisorTypeOK'
      <4>1. done' = (waiter' = "ended") /\ (supervisorPhase' = "started") = (waiter' # "no")
        BY <1>2, <2>1 DEF SupervisedInv, Procs!SupervisorTypeOK
      <4> QED
        BY <1>2, <2>1, <4>1 DEF SupervisedInv, Procs!SupervisorTypeOK
    <3>2. StartInv'
      BY <1>2, <2>1 DEF SupervisedInv, Procs!SupervisorTypeOK, StartInv
    <3> QED
      BY <3>1, <3>2
  <2>3. GroupInv' /\ EndInv'
    BY <1>1, <1>2, <2>1 DEF SupervisedInv, Procs!SupervisorTypeOK, GroupInv, EndInv, Procs!Grouped,
           Procs!SupervisorAlive, Procs!Holders, Procs!Holds
  <2> QED
    BY <2>2, <2>3 DEF SupervisedInv
<1>5. CASE Procs!WaitEndsWindows
  <2>1. /\ waiter = "reaped" /\ Procs!SupervisorWindows /\ waiter' = "ended" /\ done' = TRUE
        /\ supervisorKids' = Procs!EndGroup /\ groupHit' = TRUE
        /\ UNCHANGED <<supervisorRoot, term, termErr, tmp>>
    BY <1>5 DEF Procs!WaitEndsWindows, Procs!SupervisorEnded, Procs!jobs
  <2>2. \A k \in Kids : supervisorKids'[k] \in {"none", "dead"}
    BY <2>1, GroupEnds DEF SupervisedInv, GroupInv
  <2>3. Procs!SupervisorTypeOK' /\ StartInv'
    <3>1. supervisorKids' \in [Kids -> {"none", "piped", "silent", "escaped", "dead"}]
      BY <2>1, GroupEnds DEF SupervisedInv
    <3>2. Procs!SupervisorTypeOK'
      <4>1. done' = (waiter' = "ended") /\ (supervisorPhase' = "started") = (waiter' # "no")
        BY <1>2, <2>1 DEF SupervisedInv, Procs!SupervisorTypeOK
      <4> QED
        BY <1>2, <2>1, <3>1, <4>1 DEF SupervisedInv, Procs!SupervisorTypeOK
    <3>3. StartInv'
      BY <1>2, <2>1 DEF SupervisedInv, Procs!SupervisorTypeOK, StartInv
    <3> QED
      BY <3>2, <3>3
  <2>4. GroupInv' /\ EndInv'
    BY <1>1, <1>2, <2>1, <2>2 DEF SupervisedInv, GroupInv, EndInv, Procs!Grouped,
           Procs!SupervisorAlive, Procs!Holders, Procs!Holds
  <2> QED
    BY <2>3, <2>4 DEF SupervisedInv
<1>6. CASE Procs!RemoveTemporary
  <2>1. /\ done /\ tmp' = "removed"
        /\ UNCHANGED <<supervisorRoot, supervisorKids, term, termErr, waiter, done, groupHit>>
    BY <1>6 DEF Procs!RemoveTemporary, Procs!procs, Procs!jobs
  <2>2. Procs!SupervisorTypeOK' /\ StartInv'
    <3>1. Procs!SupervisorTypeOK'
      <4>1. done' = (waiter' = "ended") /\ (supervisorPhase' = "started") = (waiter' # "no")
        BY <1>2, <2>1 DEF SupervisedInv, Procs!SupervisorTypeOK
      <4>2. /\ supervisorPhase' \in {"setup", "built", "suspended", "started", "failed"} /\ inJob' \in BOOLEAN
            /\ supervisorRoot' \in {"none", "suspended", "alive", "dead"}
                    /\ tmp' \in {"none", "made", "removed"}
        BY <1>2, <2>1 DEF SupervisedInv, Procs!SupervisorTypeOK
      <4>3. /\ waiter' \in {"no", "waiting", "reaped", "ended"} /\ call' = call
              /\ supervisorKids' = supervisorKids
            /\ UNCHANGED <<unread, io, supervisorCtx, term, termErr, once, stopErr>>
        BY <1>2, <2>1 DEF SupervisedInv, Procs!SupervisorTypeOK
      <4> QED
        BY <4>1, <4>2, <4>3 DEF SupervisedInv, Procs!SupervisorTypeOK
    <3>2. StartInv'
      BY <1>2, <2>1 DEF SupervisedInv, Procs!SupervisorTypeOK, StartInv
    <3> QED
      BY <3>1, <3>2
  <2>3. GroupInv' /\ EndInv'
    BY <1>1, <1>2, <2>1 DEF SupervisedInv, Procs!SupervisorTypeOK, GroupInv, EndInv, Procs!Grouped,
           Procs!SupervisorAlive, Procs!Holders, Procs!Holds
  <2> QED
    BY <2>2, <2>3 DEF SupervisedInv
<1>7. CASE Procs!KillJob
  <2>1. /\ supervisorRoot' = "dead" /\ term' = "draining"
        /\ \/ supervisorKids' = Procs!EndGroup /\ groupHit' = TRUE /\ termErr' = termErr
           \/ termErr' = TRUE /\ UNCHANGED <<supervisorKids, groupHit>>
        /\ UNCHANGED <<tmp, waiter, done>>
    BY <1>7 DEF Procs!KillJob
  <2>2. CASE supervisorKids' = Procs!EndGroup /\ groupHit' = TRUE /\ termErr' = termErr
    <3>1. Procs!SupervisorTypeOK' /\ StartInv'
      BY <1>2, <2>1, <2>2, GroupEnds DEF SupervisedInv, Procs!SupervisorTypeOK, StartInv
    <3>2. GroupInv' /\ EndInv'
      BY <1>1, <1>2, <2>1, <2>2, GroupEnds DEF SupervisedInv, Procs!SupervisorTypeOK, GroupInv,
             EndInv, Procs!Grouped, Procs!SupervisorAlive, Procs!Holders, Procs!Holds
    <3> QED
      BY <3>1, <3>2 DEF SupervisedInv
  <2>3. CASE termErr' = TRUE /\ UNCHANGED <<supervisorKids, groupHit>>
    BY <1>1, <1>2, <2>1, <2>3 DEF SupervisedInv, Procs!SupervisorTypeOK, StartInv, GroupInv, EndInv,
           Procs!Grouped, Procs!SupervisorAlive, Procs!Holders, Procs!Holds
  <2> QED
    BY <2>1, <2>2, <2>3
<1>8. CASE Procs!DrainJob
  <2>1. /\ term' = "done" /\ termErr' \in BOOLEAN
        /\ UNCHANGED <<supervisorRoot, supervisorKids, tmp, waiter, done, groupHit>>
    BY <1>8 DEF Procs!DrainJob, Procs!procs
  <2>2. Procs!SupervisorTypeOK' /\ StartInv'
    BY <1>2, <2>1 DEF SupervisedInv, Procs!SupervisorTypeOK, StartInv
  <2>3. GroupInv' /\ EndInv'
    BY <1>1, <1>2, <2>1 DEF SupervisedInv, Procs!SupervisorTypeOK, GroupInv, EndInv, Procs!Grouped,
           Procs!SupervisorAlive, Procs!Holders, Procs!Holds
  <2> QED
    BY <2>2, <2>3 DEF SupervisedInv
<1> QED
  BY <1>3, <1>4, <1>5, <1>6, <1>7, <1>8

\* The callers of Stop.
LEMMA StoppingKeeps ==
  ASSUME SupervisedInv, Procs!SupervisorNext, NEW c \in Procs!Callers,
         \/ Procs!Stop(c) \/ Procs!KillGroup(c) \/ Procs!TerminateJob(c) \/ Procs!TerminateReturns(c)
                 \/ Procs!JoinStop(c) \/ Procs!StopReturns(c)
  PROVE  SupervisedInv'
<1>1. UNCHANGED Procs!SupervisorWindows
  BY AdapterStays
<1>2. /\ supervisorPhase = "started"
      /\ UNCHANGED <<supervisorPhase, inJob, termErr, unread, io, tmp, supervisorCtx, waiter, done>>
  BY DEF Procs!Stop, Procs!KillGroup, Procs!TerminateJob, Procs!TerminateReturns, Procs!JoinStop,
         Procs!StopReturns, Procs!setup, Procs!procs, Procs!jobs, SupervisedInv, StartInv
<1>3. PICK answer \in {"queued", "inside", "waiting", "reaped", "failed", "late"} :
        call' = [call EXCEPT ![c] = answer] /\ (answer = "reaped" => done)
  <2>1. CASE Procs!StopReturns(c)
    <3>1. PICK waited \in BOOLEAN : (waited => done) /\ call' = [call EXCEPT ![c] = Procs!Answer(waited)]
      BY <2>1 DEF Procs!StopReturns
    <3>2. Procs!Answer(waited) \in {"reaped", "failed", "late"} /\ (Procs!Answer(waited) = "reaped" => done)
      BY <3>1 DEF Procs!Answer, SupervisedInv, Procs!SupervisorTypeOK
    <3> QED
      BY <3>1, <3>2
  <2>2. CASE Procs!Stop(c)
    BY <2>2 DEF Procs!Stop
  <2>3. CASE Procs!KillGroup(c) \/ Procs!TerminateJob(c) \/ Procs!TerminateReturns(c) \/ Procs!JoinStop(c)
    BY <2>3 DEF Procs!KillGroup, Procs!TerminateJob, Procs!TerminateReturns, Procs!JoinStop
  <2> QED
    BY <2>1, <2>2, <2>3
<1>4. /\ call' \in [Procs!Callers -> {"idle", "queued", "inside", "waiting", "reaped", "failed", "late"}]
      /\ \A d \in Procs!Callers : call'[d] = "reaped" => done
  BY <1>3 DEF SupervisedInv, Procs!SupervisorTypeOK, EndInv
<1>5. once' \in {"no", "busy", "did"} /\ stopErr' \in {"none", "gone", "failed", "late"}
        /\ term' \in {term, "killing"}
  BY DEF Procs!Stop, Procs!KillGroup, Procs!TerminateJob, Procs!TerminateReturns, Procs!JoinStop,
         Procs!StopReturns, Procs!jobs, Procs!stops, SupervisedInv, Procs!SupervisorTypeOK
<1>6. \/ supervisorRoot' = "dead" /\ supervisorKids' = Procs!EndGroup /\ groupHit' = TRUE
      \/ UNCHANGED <<supervisorRoot, supervisorKids, groupHit>>
  BY DEF Procs!Stop, Procs!KillGroup, Procs!TerminateJob, Procs!TerminateReturns, Procs!JoinStop,
         Procs!StopReturns, Procs!procs
<1>7. Procs!SupervisorTypeOK' /\ StartInv'
  BY <1>2, <1>4, <1>5, <1>6, GroupEnds DEF SupervisedInv, Procs!SupervisorTypeOK, StartInv
<1>8. GroupInv' /\ EndInv'
  <2>1. CASE supervisorRoot' = "dead" /\ supervisorKids' = Procs!EndGroup /\ groupHit' = TRUE
    BY <1>1, <1>2, <1>4, <2>1, GroupEnds DEF SupervisedInv, Procs!SupervisorTypeOK, GroupInv,
           EndInv, Procs!Grouped, Procs!SupervisorAlive, Procs!Holders, Procs!Holds
  <2>2. CASE UNCHANGED <<supervisorRoot, supervisorKids, groupHit>>
    BY <1>1, <1>2, <1>4, <2>2 DEF SupervisedInv, GroupInv, EndInv, Procs!Grouped,
           Procs!SupervisorAlive, Procs!Holders, Procs!Holds
  <2> QED
    BY <1>6, <2>1, <2>2
<1> QED
  BY <1>7, <1>8 DEF SupervisedInv

\* A failed start leaves nothing, a Stop that reports the end is right, the
\* temporary directory outlives those who hold the pipes, and on Windows the
\* job ends with its child (processsupervisor/supervisor.go, wrapped.go,
\* job_windows.go).
THEOREM SupervisedProcessesEnd ==
  Procs!SupervisorSpec =>
    [](/\ Procs!SupervisorTypeOK /\ Procs!FailedStartLeavesNothing /\ Procs!StopReportsTheEnd
       /\ Procs!TemporaryOutlivesHolders /\ Procs!JobEndsWithItsChild)
<1>1. ASSUME SupervisedInv, [Procs!SupervisorNext]_(Procs!supervisorVars)
      PROVE  SupervisedInv'
  <2>1. CASE UNCHANGED Procs!supervisorVars
    BY <1>1, <2>1 DEF Procs!supervisorVars, SupervisedInv, Procs!SupervisorTypeOK, StartInv,
           GroupInv, EndInv, Procs!Grouped, Procs!SupervisorAlive, Procs!Holders, Procs!Holds,
           Procs!SupervisorWindows, Procs!SupervisorRunner
  <2>2. CASE Procs!SupervisorNext
    BY <1>1, <2>2, StartingKeeps, LivingKeeps, WaitingKeeps, StoppingKeeps DEF Procs!SupervisorNext
  <2> QED
    BY <1>1, <2>1, <2>2
<1>2. SupervisedInv => /\ Procs!SupervisorTypeOK /\ Procs!FailedStartLeavesNothing /\ Procs!StopReportsTheEnd
                       /\ Procs!TemporaryOutlivesHolders /\ Procs!JobEndsWithItsChild
  <2> SUFFICES ASSUME SupervisedInv
               PROVE  /\ Procs!SupervisorTypeOK /\ Procs!FailedStartLeavesNothing /\ Procs!StopReportsTheEnd
                      /\ Procs!TemporaryOutlivesHolders /\ Procs!JobEndsWithItsChild
    OBVIOUS
  <2>1. done => supervisorRoot = "dead"
    BY DEF SupervisedInv, Procs!SupervisorTypeOK, EndInv
  <2>2. Procs!FailedStartLeavesNothing /\ Procs!JobEndsWithItsChild
    BY DEF SupervisedInv, StartInv, EndInv, Procs!FailedStartLeavesNothing,
           Procs!JobEndsWithItsChild
  <2>3. Procs!StopReportsTheEnd
    BY <2>1 DEF SupervisedInv, GroupInv, EndInv, Procs!StopReportsTheEnd
  <2>4. Procs!TemporaryOutlivesHolders
    BY <2>1 DEF SupervisedInv, StartInv, EndInv, Procs!TemporaryOutlivesHolders, Procs!Holders,
           Procs!Holds, Procs!SupervisorAlive
  <2> QED
    BY <2>2, <2>3, <2>4 DEF SupervisedInv
<1> QED
  BY <1>1, <1>2, SupervisedInitially, PTL DEF Procs!SupervisorSpec

=============================================================================
