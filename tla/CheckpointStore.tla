--------------------------- MODULE CheckpointStore ---------------------------
(***************************************************************************)
(* The content-addressed checkpoint engine: storage/checkpoints.py, over   *)
(* project files that an artist goes on editing.                           *)
(*                                                                         *)
(* Processes create checkpoints and restore them to copies, one file       *)
(* operation at a time, and may die between two of them.  shutil.copy2 is  *)
(* two steps: it truncates its target, then fills it with what the source  *)
(* holds by then.  A content stands for the SHA-256 of itself, so blob h   *)
(* is sound when it holds h.                                               *)
(***************************************************************************)
EXTENDS Naturals

CONSTANTS Files,        \* the files a checkpoint is asked to preserve
          Contents,     \* what a file may hold, and its hash
          Checkpoints,  \* checkpoint ids, each used once
          Workers,      \* processes
          Suffixes,     \* of restored copies: the second a restore started in
          Torn,         \* a file truncated and not filled
          Missing,      \* no file, no entry
          Nobody,       \* a process without a checkpoint, a file or a suffix
          MaxFaults     \* bound: crashes and failed copies in a behaviour

\* files holds the entries of a manifest: the hash of each file, and its blob.
Manifest == [complete : BOOLEAN, files : [Files -> Contents \union {Missing}]]

ASSUME StoreAssumption ==
    /\ Torn \notin Contents /\ Missing \notin Contents /\ Torn # Missing
    /\ Missing \notin Manifest
    /\ Nobody \notin Checkpoints \union Files \union Suffixes
    /\ MaxFaults \in Nat

VARIABLES live,       \* the project files
          blobs,      \* blobs/<prefix>/<hash>
          manifests,  \* checkpoints/<id>/manifest.json
          copies,     \* [suffix][file]: <name>.<suffix>.<ext>
          proc,       \* what each process is doing
          shared,     \* history: processes whose restore has shared its suffix
          damaged,    \* history: hashes whose copy was interrupted or failed
          faults      \* crashes and failed copies so far

vars == <<live, blobs, manifests, copies, proc, shared, damaged, faults>>

OnDisk == Contents \union {Torn, Missing}

NoFiles == [f \in Files |-> Missing]

Idle == [pc |-> "idle", ckpt |-> Nobody, entries |-> NoFiles, file |-> Nobody,
         hash |-> Missing, done |-> {}, suffix |-> Nobody]

\* entries: the manifest's files, being built or being restored; file, hash:
\* the one at hand; done: files restored and verified.
Proc == [pc : {"idle", "next", "copy", "fill", "check", "restore", "refill", "recheck"},
         ckpt : Checkpoints \union {Nobody},
         entries : [Files -> Contents \union {Missing}],
         file : Files \union {Nobody},
         hash : Contents \union {Missing},
         done : SUBSET Files,
         suffix : Suffixes \union {Nobody}]

TypeOK ==
    /\ live \in [Files -> Contents]
    /\ blobs \in [Contents -> OnDisk]
    /\ manifests \in [Checkpoints -> Manifest \union {Missing}]
    /\ copies \in [Suffixes -> [Files -> OnDisk]]
    /\ proc \in [Workers -> Proc]
    /\ shared \subseteq Workers
    /\ damaged \subseteq Contents
    /\ faults \in Nat

Init ==
    /\ live \in [Files -> Contents]
    /\ blobs = [h \in Contents |-> Missing]
    /\ manifests = [c \in Checkpoints |-> Missing]
    /\ copies = [x \in Suffixes |-> NoFiles]
    /\ proc = [w \in Workers |-> Idle]
    /\ shared = {}
    /\ damaged = {}
    /\ faults = 0

At(w, pc) == proc[w].pc = pc

Become(w, r) == proc' = [proc EXCEPT ![w] = r]

-----------------------------------------------------------------------------
(***************************************************************************)
(* create_checkpoint.                                                      *)
(***************************************************************************)

\* The incomplete manifest is written first.  The size and budget checks
\* before it raise without a trace.
StartCheckpoint(w, c) ==
    /\ At(w, "idle")
    /\ manifests[c] = Missing
    /\ manifests' = [manifests EXCEPT ![c] = [complete |-> FALSE, files |-> NoFiles]]
    /\ Become(w, [Idle EXCEPT !.pc = "next", !.ckpt = c])
    /\ UNCHANGED <<live, blobs, copies, shared, damaged, faults>>

\* Faulty variant: the entry takes its hash from the blob.
Listed_FromBlob(w, f, h) ==
    Become(w, [proc[w] EXCEPT !.pc = "next", !.entries[f] = blobs[h],
                              !.file = Nobody, !.hash = Missing])

\* The manifest entry of f.
Listed(w, f, h) ==
    Become(w, [proc[w] EXCEPT !.pc = "next", !.entries[f] = h,
                              !.file = Nobody, !.hash = Missing])

\* Faulty variant: a manifest entry without a look at the blob store.
HashFile_NoCopy(w, f) ==
    /\ At(w, "next")
    /\ proc[w].entries[f] = Missing
    /\ Listed(w, f, live[f])
    /\ UNCHANGED <<live, blobs, manifests, copies, shared, damaged, faults>>

\* A blob that exists is trusted by its name.
HashFile(w, f) ==
    /\ At(w, "next")
    /\ proc[w].entries[f] = Missing
    /\ IF blobs[live[f]] # Missing
       THEN Listed(w, f, live[f])
       ELSE Become(w, [proc[w] EXCEPT !.pc = "copy", !.file = f, !.hash = live[f]])
    /\ UNCHANGED <<live, blobs, manifests, copies, shared, damaged, faults>>

TruncateBlob(w) ==
    /\ At(w, "copy")
    /\ blobs' = [blobs EXCEPT ![proc[w].hash] = Torn]
    /\ Become(w, [proc[w] EXCEPT !.pc = "fill"])
    /\ UNCHANGED <<live, manifests, copies, shared, damaged, faults>>

FillBlob(w) ==
    /\ At(w, "fill")
    /\ blobs' = [blobs EXCEPT ![proc[w].hash] = live[proc[w].file]]
    /\ Become(w, [proc[w] EXCEPT !.pc = "check"])
    /\ UNCHANGED <<live, manifests, copies, shared, damaged, faults>>

\* verify_sha256 of the new blob raises on a mismatch; the manifest is written
\* incomplete once more and the blob stays.
CheckBlob(w) ==
    /\ At(w, "check")
    /\ IF blobs[proc[w].hash] = proc[w].hash
       THEN Listed(w, proc[w].file, proc[w].hash) /\ UNCHANGED damaged
       ELSE Become(w, Idle) /\ damaged' = damaged \union {proc[w].hash}
    /\ UNCHANGED <<live, blobs, manifests, copies, shared, faults>>

CompleteCheckpoint(w) ==
    /\ At(w, "next")
    /\ \A f \in Files : proc[w].entries[f] # Missing
    /\ manifests' = [manifests EXCEPT ![proc[w].ckpt] =
                        [complete |-> TRUE, files |-> proc[w].entries]]
    /\ Become(w, Idle)
    /\ UNCHANGED <<live, blobs, copies, shared, damaged, faults>>

-----------------------------------------------------------------------------
(***************************************************************************)
(* restore_to_copy.  Restores that start in the same second, one after     *)
(* another or side by side, have the same suffix.                          *)
(***************************************************************************)

Restorable(c) == manifests[c] # Missing /\ manifests[c].complete

RestoringUnder(v, x) ==
    proc[v].pc \in {"restore", "refill", "recheck"} /\ proc[v].suffix = x

StartRestore(w, c, x) ==
    /\ At(w, "idle")
    /\ Restorable(c)
    /\ Become(w, [Idle EXCEPT !.pc = "restore", !.ckpt = c,
                              !.entries = manifests[c].files, !.suffix = x])
    /\ LET others == {v \in Workers : RestoringUnder(v, x)}
       IN  shared' = IF others = {} THEN shared \ {w} ELSE shared \union others \union {w}
    /\ UNCHANGED <<live, blobs, manifests, copies, damaged, faults>>

\* A missing blob raises.
TruncateCopy(w, f) ==
    /\ At(w, "restore")
    /\ f \notin proc[w].done
    /\ IF proc[w].entries[f] # Missing /\ blobs[proc[w].entries[f]] # Missing
       THEN /\ copies' = [copies EXCEPT ![proc[w].suffix][f] = Torn]
            /\ Become(w, [proc[w] EXCEPT !.pc = "refill", !.file = f,
                                         !.hash = proc[w].entries[f]])
       ELSE Become(w, Idle) /\ UNCHANGED copies
    /\ UNCHANGED <<live, blobs, manifests, shared, damaged, faults>>

FillCopy(w) ==
    /\ At(w, "refill")
    /\ copies' = [copies EXCEPT ![proc[w].suffix][proc[w].file] = blobs[proc[w].hash]]
    /\ Become(w, [proc[w] EXCEPT !.pc = "recheck"])
    /\ UNCHANGED <<live, blobs, manifests, shared, damaged, faults>>

\* Faulty variant: the copy is not hashed.
CheckCopy_Trusting(w) ==
    /\ At(w, "recheck")
    /\ Become(w, [proc[w] EXCEPT !.pc = "restore", !.done = @ \union {proc[w].file},
                                 !.file = Nobody, !.hash = Missing])
    /\ UNCHANGED <<live, blobs, manifests, copies, shared, damaged, faults>>

\* verify_sha256 of the copy: restore raises on a mismatch.
CheckCopy(w) ==
    /\ At(w, "recheck")
    /\ IF copies[proc[w].suffix][proc[w].file] = proc[w].hash
       THEN Become(w, [proc[w] EXCEPT !.pc = "restore", !.done = @ \union {proc[w].file},
                                      !.file = Nobody, !.hash = Missing])
       ELSE Become(w, Idle)
    /\ UNCHANGED <<live, blobs, manifests, copies, shared, damaged, faults>>

ReturnCopies(w) ==
    /\ At(w, "restore")
    /\ proc[w].done = Files
    /\ Become(w, Idle)
    /\ UNCHANGED <<live, blobs, manifests, copies, shared, damaged, faults>>

-----------------------------------------------------------------------------
(***************************************************************************)
(* The artist, and failures.                                               *)
(***************************************************************************)

Edit(f, c) ==
    /\ live[f] # c
    /\ live' = [live EXCEPT ![f] = c]
    /\ UNCHANGED <<blobs, manifests, copies, proc, shared, damaged, faults>>

\* The process dies, or a copy raises: either way the call ends and its blob
\* stays as it is.
Fail(w) ==
    /\ ~At(w, "idle")
    /\ faults < MaxFaults
    /\ faults' = faults + 1
    /\ damaged' = IF proc[w].pc \in {"fill", "check"}
                  THEN damaged \union {proc[w].hash} ELSE damaged
    /\ Become(w, Idle)
    /\ UNCHANGED <<live, blobs, manifests, copies, shared>>

Next ==
    \/ \E w \in Workers :
        \/ \E c \in Checkpoints : \/ StartCheckpoint(w, c)
                                  \/ \E x \in Suffixes : StartRestore(w, c, x)
        \/ \E f \in Files : HashFile(w, f) \/ TruncateCopy(w, f)
        \/ TruncateBlob(w) \/ FillBlob(w) \/ CheckBlob(w) \/ CompleteCheckpoint(w)
        \/ FillCopy(w) \/ CheckCopy(w) \/ ReturnCopies(w)
        \/ Fail(w)
    \/ \E f \in Files, c \in Contents : Edit(f, c)

Spec == Init /\ [][Next]_vars

-----------------------------------------------------------------------------
(***************************************************************************)
(* Properties.                                                             *)
(***************************************************************************)

\* "Verifies restored SHA-256 against manifest hashes"
\* (storage/checkpoints.py:187): a restore that returns, whatever happened to
\* the blobs since the checkpoint or is happening to them now, has left copies
\* of exactly what a complete manifest lists, unless another one ran at the same
\* time under its suffix (storage/checkpoints.py:200).
RestoreIsFaithful ==
    \A w \in Workers \ shared : At(w, "restore") /\ proc[w].done = Files =>
        /\ manifests[proc[w].ckpt].complete
        /\ copies[proc[w].suffix] = manifests[proc[w].ckpt].files

Copying(h) == \E w \in Workers : proc[w].pc \in {"fill", "check"} /\ proc[w].hash = h

Sound(m) == \A f \in Files : blobs[m.files[f]] = m.files[f]

\* An unsound blob of a complete checkpoint is the work of a copy that was
\* interrupted, failed, or is under way: without such a copy every complete
\* checkpoint can be restored, however often its files were edited since.
UnsoundBlobIsDamaged ==
    \A c \in Checkpoints : manifests[c] # Missing /\ manifests[c].complete =>
        \A f \in Files :
            LET h == manifests[c].files[f] IN
            blobs[h] = h \/ h \in damaged \/ Copying(h)

\* "Create a durable, verified checkpoint" (storage/checkpoints.py:61): the
\* blobs of a checkpoint are sound when its manifest is completed.
CompletedCheckpointIsSound ==
    [][\A c \in Checkpoints :
         /\ manifests[c] # Missing /\ ~manifests[c].complete
         /\ manifests'[c].complete
         => Sound(manifests'[c])]_vars
=============================================================================
