------------------------ MODULE CheckpointStore_proofs ------------------------
(***************************************************************************)
(* Proofs about CheckpointStore, for any number of files, contents,        *)
(* checkpoints, processes and faults.                                      *)
(*                                                                         *)
(* The inductive invariant says of every process what its step stands on:  *)
(* a creator owns an incomplete manifest nobody else writes, a restorer    *)
(* reads a complete one, the files it has done are what that one lists.    *)
(* Blobs are shared, so they are accounted for separately: whatever stands *)
(* under the name of a hash is sound, or its copy is under way or failed.  *)
(***************************************************************************)
EXTENDS CheckpointStore, TLAPS

Creating(w) == proc[w].pc \in {"next", "copy", "fill", "check"}

Restoring(w) == proc[w].pc \in {"restore", "refill", "recheck"}

\* A blob under the name of h is accounted for.
Explained(h) == blobs[h] = h \/ h \in damaged \/ Copying(h)

\* A process that works on a file has one, and its hash.
HasFile ==
    \A w \in Workers : proc[w].pc \in {"copy", "fill", "check", "refill", "recheck"} =>
        proc[w].file \in Files /\ proc[w].hash \in Contents

OwnsManifest ==
    \A w \in Workers : Creating(w) =>
        /\ proc[w].ckpt \in Checkpoints
        /\ manifests[proc[w].ckpt] # Missing
        /\ ~manifests[proc[w].ckpt].complete

OwnersDiffer ==
    \A v, w \in Workers : Creating(v) /\ Creating(w) /\ proc[v].ckpt = proc[w].ckpt => v = w

ReadsManifest ==
    \A w \in Workers : Restoring(w) =>
        /\ proc[w].ckpt \in Checkpoints
        /\ manifests[proc[w].ckpt] # Missing
        /\ manifests[proc[w].ckpt].complete
        /\ proc[w].entries = manifests[proc[w].ckpt].files

\* Two restores under one suffix know of each other.
SuffixesApart ==
    \A v, w \in Workers : Restoring(v) /\ Restoring(w) /\ v # w =>
        proc[v].suffix # proc[w].suffix \/ {v, w} \subseteq shared

DoneIsVerified ==
    \A w \in Workers : Restoring(w) =>
        /\ proc[w].suffix \in Suffixes
        /\ w \notin shared =>
              \A f \in proc[w].done : copies[proc[w].suffix][f] = proc[w].entries[f]
        /\ proc[w].pc # "restore" =>
              /\ proc[w].file \notin proc[w].done
              /\ proc[w].hash = proc[w].entries[proc[w].file]

\* What the invariant says of the restores.
RestoresKept == ReadsManifest /\ SuffixesApart /\ DoneIsVerified

BlobsExplained == \A h \in Contents : blobs[h] = Missing \/ Explained(h)

EntriesExplained ==
    \A w \in Workers, f \in Files :
        Creating(w) /\ proc[w].entries[f] # Missing => Explained(proc[w].entries[f])

ManifestsExplained ==
    \A c \in Checkpoints : manifests[c] # Missing /\ manifests[c].complete =>
        \A f \in Files : manifests[c].files[f] \in Contents /\ Explained(manifests[c].files[f])

SInv == /\ TypeOK /\ HasFile
        /\ OwnsManifest /\ OwnersDiffer /\ RestoresKept
        /\ BlobsExplained /\ EntriesExplained /\ ManifestsExplained
-----------------------------------------------------------------------------
(***************************************************************************)
(* Lemmas.                                                                 *)
(***************************************************************************)

LEMMA InitSInv == Init => SInv
<1> SUFFICES ASSUME Init PROVE SInv
  OBVIOUS
<1>1. TypeOK
  BY DEF Init, TypeOK, Idle, Proc, NoFiles, OnDisk
<1>2. \A w \in Workers : ~Creating(w) /\ ~Restoring(w) /\ proc[w].pc = "idle"
  BY DEF Init, Creating, Restoring, Idle
<1> QED BY <1>1, <1>2 DEF Init, SInv, HasFile, OwnsManifest, OwnersDiffer,
           RestoresKept, ReadsManifest, SuffixesApart, DoneIsVerified,
           BlobsExplained, EntriesExplained, ManifestsExplained

\* A process that is not copying may do what it likes with its own state.
LEMMA OthersExplain ==
    ASSUME NEW w \in Workers, NEW r, NEW h, TypeOK,
           Become(w, r), UNCHANGED <<blobs, damaged>>,
           proc[w].pc \notin {"fill", "check"}, Explained(h)
    PROVE  Explained(h)'
<1>1. \A v \in Workers \ {w} : proc'[v] = proc[v]
  BY DEF Become, TypeOK
<1> QED BY <1>1 DEF Explained, Copying

\* Such a process also keeps every invariant about the others.
LEMMA OthersKeep ==
    ASSUME NEW w \in Workers, NEW r, SInv, Become(w, r)
    PROVE  \A v \in Workers : proc'[v] = IF v = w THEN r ELSE proc[v]
BY DEF SInv, TypeOK, Become
\* A step that changes neither blobs nor damage, by a process outside a copy:
\* what accounts for blobs stays, entry by entry.
LEMMA QuietStep ==
    ASSUME NEW w \in Workers, NEW r \in Proc, SInv, Become(w, r),
           UNCHANGED <<blobs, damaged>>, proc[w].pc \notin {"fill", "check"},
           \A f \in Files : r.pc \in {"next", "copy", "fill", "check"} /\ r.entries[f] # Missing
                           => Explained(r.entries[f])
    PROVE  BlobsExplained' /\ EntriesExplained' /\ (UNCHANGED manifests => ManifestsExplained')
<1>1. \A h : Explained(h) => Explained(h)'
  BY OthersExplain DEF SInv
<1>2. \A v \in Workers : proc'[v] = IF v = w THEN r ELSE proc[v]
  BY OthersKeep
<1>3. BlobsExplained'
  BY <1>1 DEF SInv, BlobsExplained
<1>4. EntriesExplained'
  BY <1>1, <1>2 DEF SInv, EntriesExplained, Creating
<1>5. UNCHANGED manifests => ManifestsExplained'
  BY <1>1 DEF SInv, ManifestsExplained
<1> QED BY <1>3, <1>4, <1>5

\* A creator that goes on creating.
LEMMA CreatorStep ==
    ASSUME NEW w \in Workers, NEW r \in Proc, SInv, Become(w, r), Creating(w),
           r.pc \in {"next", "copy", "fill", "check"}, r.ckpt = proc[w].ckpt,
           r.pc # "next" => r.file \in Files /\ r.hash \in Contents,
           UNCHANGED <<manifests, copies, shared>>
    PROVE  HasFile' /\ OwnsManifest' /\ OwnersDiffer' /\ RestoresKept'
<1>1. \A v \in Workers : proc'[v] = IF v = w THEN r ELSE proc[v]
  BY OthersKeep
<1>2. HasFile'
  BY <1>1 DEF SInv, HasFile
<1>3. OwnsManifest' /\ OwnersDiffer'
  BY <1>1 DEF SInv, OwnsManifest, OwnersDiffer, Creating
<1>4. RestoresKept'
  BY <1>1 DEF SInv, RestoresKept, ReadsManifest, SuffixesApart, DoneIsVerified, Restoring
<1> QED BY <1>2, <1>3, <1>4

\* A process whose call ends, by return or by exception.
LEMMA EndStep ==
    ASSUME NEW w \in Workers, SInv, Become(w, Idle), UNCHANGED <<manifests, copies, shared>>
    PROVE  HasFile' /\ OwnsManifest' /\ OwnersDiffer' /\ RestoresKept'
<1>1. \A v \in Workers : proc'[v] = IF v = w THEN Idle ELSE proc[v]
  BY OthersKeep
<1>2. Idle.pc = "idle"
  BY DEF Idle
<1>3. HasFile'
  BY <1>1, <1>2 DEF SInv, HasFile
<1>4. OwnsManifest' /\ OwnersDiffer'
  BY <1>1, <1>2 DEF SInv, OwnsManifest, OwnersDiffer, Creating
<1>5. RestoresKept'
  BY <1>1, <1>2 DEF SInv, RestoresKept, ReadsManifest, SuffixesApart, DoneIsVerified, Restoring
<1> QED BY <1>3, <1>4, <1>5

\* A restorer that goes on restoring, and writes only its own copies.
LEMMA RestorerStep ==
    ASSUME NEW w \in Workers, NEW r \in Proc, SInv, Become(w, r), Restoring(w),
           r.pc \in {"restore", "refill", "recheck"},
           r.ckpt = proc[w].ckpt, r.entries = proc[w].entries, r.suffix = proc[w].suffix,
           r.pc # "restore" =>
              /\ r.file \in Files /\ r.hash \in Contents
              /\ r.file \notin r.done /\ r.hash = r.entries[r.file],
           UNCHANGED <<manifests, shared>>,
           \A x \in Suffixes \ {r.suffix} : copies'[x] = copies[x],
           w \notin shared => \A f \in r.done : copies'[r.suffix][f] = r.entries[f]
    PROVE  HasFile' /\ OwnsManifest' /\ OwnersDiffer' /\ RestoresKept'
<1>1. \A v \in Workers : proc'[v] = IF v = w THEN r ELSE proc[v]
  BY OthersKeep
<1>2. HasFile'
  BY <1>1 DEF SInv, HasFile
<1>3. OwnsManifest' /\ OwnersDiffer'
  BY <1>1 DEF SInv, OwnsManifest, OwnersDiffer, Creating
<1>4. ReadsManifest' /\ SuffixesApart'
  BY <1>1 DEF SInv, RestoresKept, ReadsManifest, SuffixesApart, Restoring
<1>5. DoneIsVerified'
  <2> SUFFICES ASSUME NEW v \in Workers, Restoring(v)'
               PROVE  /\ proc'[v].suffix \in Suffixes
                      /\ v \notin shared =>
                            \A f \in proc'[v].done :
                                copies'[proc'[v].suffix][f] = proc'[v].entries[f]
                      /\ proc'[v].pc # "restore" =>
                            /\ proc'[v].file \notin proc'[v].done
                            /\ proc'[v].hash = proc'[v].entries[proc'[v].file]
    BY DEF DoneIsVerified
  <2>1. CASE v = w
    BY <1>1, <2>1 DEF SInv, RestoresKept, DoneIsVerified
  <2>2. CASE v # w
    <3>1. proc'[v] = proc[v] /\ Restoring(v)
      BY <1>1, <2>2 DEF Restoring
    <3>2. v \notin shared => proc[v].suffix # r.suffix
      BY <2>2, <3>1 DEF SInv, RestoresKept, SuffixesApart
    <3> QED BY <3>1, <3>2 DEF SInv, RestoresKept, DoneIsVerified
  <2> QED BY <2>1, <2>2
<1> QED BY <1>2, <1>3, <1>4, <1>5 DEF RestoresKept

\* A write to the blob a process is copying disturbs no other blob, and that
\* one stays accounted for by the copy.
LEMMA CopyStep ==
    ASSUME NEW w \in Workers, NEW r \in Proc, NEW b, SInv, Become(w, r), Creating(w),
           r.pc \in {"fill", "check"}, r.hash = proc[w].hash, proc[w].hash \in Contents,
           r.entries = proc[w].entries,
           blobs' = [blobs EXCEPT ![proc[w].hash] = b], UNCHANGED <<damaged, manifests>>
    PROVE  BlobsExplained' /\ EntriesExplained' /\ ManifestsExplained'
<1>1. \A v \in Workers : proc'[v] = IF v = w THEN r ELSE proc[v]
  BY OthersKeep
<1>2. \A h \in Contents : h # proc[w].hash => blobs'[h] = blobs[h]
  BY DEF SInv, TypeOK
<1>3. ASSUME NEW h \in Contents, Explained(h)
      PROVE  Explained(h)'
  <2>1. CASE h = proc[w].hash
    BY <1>1, <2>1 DEF Explained, Copying
  <2>2. CASE h # proc[w].hash
    BY <1>1, <1>2, <1>3, <2>2 DEF Explained, Copying
  <2> QED BY <2>1, <2>2
<1>4. ASSUME NEW h, h = proc[w].hash
      PROVE  Explained(h)'
  BY <1>1, <1>4 DEF Explained, Copying
<1>5. BlobsExplained'
  BY <1>2, <1>3, <1>4 DEF SInv, BlobsExplained
<1>6. \A v \in Workers, f \in Files : proc[v].entries[f] \in Contents \union {Missing}
  BY DEF SInv, TypeOK, Proc
<1>7. EntriesExplained'
  BY <1>1, <1>3, <1>6 DEF SInv, EntriesExplained, Creating
<1>8. ManifestsExplained'
  BY <1>3 DEF SInv, ManifestsExplained
<1> QED BY <1>5, <1>7, <1>8

-----------------------------------------------------------------------------
(***************************************************************************)
(* One lemma per action.                                                   *)
(***************************************************************************)

LEMMA StartCheckpointKeeps ==
    ASSUME SInv, NEW w \in Workers, NEW c \in Checkpoints, StartCheckpoint(w, c)
    PROVE  SInv'
<1> DEFINE r == [Idle EXCEPT !.pc = "next", !.ckpt = c]
<1> USE DEF StartCheckpoint
<1>1. r \in Proc /\ r.pc = "next" /\ r.ckpt = c /\ r.entries = NoFiles
  BY DEF Proc, Idle, NoFiles
<1> HIDE DEF r
<1>2. Become(w, r)
  BY DEF r
<1>3. \A v \in Workers : proc'[v] = IF v = w THEN r ELSE proc[v]
  BY <1>2, OthersKeep
<1>4. TypeOK'
  BY <1>1, <1>2 DEF SInv, TypeOK, Become, Manifest, NoFiles
<1>5. manifests' = [manifests EXCEPT ![c] = [complete |-> FALSE, files |-> NoFiles]]
  OBVIOUS
<1>6. /\ manifests'[c] # Missing /\ ~manifests'[c].complete
      /\ \A d \in Checkpoints \ {c} : manifests'[d] = manifests[d]
  <2>1. [complete |-> FALSE, files |-> NoFiles] \in Manifest
    BY DEF Manifest, NoFiles
  <2>2. manifests'[c] = [complete |-> FALSE, files |-> NoFiles]
    BY <1>5 DEF SInv, TypeOK
  <2>3. \A d \in Checkpoints \ {c} : manifests'[d] = manifests[d]
    BY <1>5 DEF SInv, TypeOK
  <2>4. manifests'[c] # Missing
    BY <2>1, <2>2, StoreAssumption
  <2>5. ~manifests'[c].complete
    BY ONLY <2>2
  <2> QED BY <2>3, <2>4, <2>5
<1>7. \A v \in Workers : Creating(v) \/ Restoring(v) => proc[v].ckpt # c
  BY DEF SInv, OwnsManifest, RestoresKept, ReadsManifest
<1>8. HasFile'
  BY <1>1, <1>3 DEF SInv, HasFile
<1>9. OwnsManifest' /\ OwnersDiffer'
  BY <1>1, <1>3, <1>6, <1>7 DEF SInv, OwnsManifest, OwnersDiffer, Creating
<1>10. RestoresKept'
  BY <1>1, <1>3, <1>6, <1>7
     DEF SInv, RestoresKept, ReadsManifest, SuffixesApart, DoneIsVerified, Restoring
<1>11. BlobsExplained' /\ EntriesExplained'
  <2>1. \A f \in Files : r.entries[f] = Missing
    BY <1>1 DEF NoFiles
  <2>2. proc[w].pc \notin {"fill", "check"}
    BY DEF At
  <2> QED BY <1>1, <1>2, <2>1, <2>2, QuietStep
<1>12. ManifestsExplained'
  <2>1. \A h : Explained(h) => Explained(h)'
    BY <1>2, OthersExplain DEF SInv, At
  <2> QED BY <1>6, <2>1 DEF SInv, ManifestsExplained
<1> QED BY <1>4, <1>8, <1>9, <1>10, <1>11, <1>12 DEF SInv

LEMMA HashFileKeeps ==
    ASSUME SInv, NEW w \in Workers, NEW f \in Files, HashFile(w, f)
    PROVE  SInv'
<1> DEFINE h == live[f]
<1>1. h \in Contents /\ proc[w] \in Proc /\ proc[w].pc = "next" /\ Creating(w)
  BY DEF SInv, TypeOK, HashFile, At, Creating
<1>2. CASE blobs[h] # Missing
  <2> DEFINE r == [proc[w] EXCEPT !.pc = "next", !.entries[f] = h,
                                  !.file = Nobody, !.hash = Missing]
  <2>1. /\ r \in Proc /\ r.pc = "next" /\ r.ckpt = proc[w].ckpt
        /\ \A g \in Files : r.entries[g] = IF g = f THEN h ELSE proc[w].entries[g]
    BY <1>1 DEF Proc
  <2>2. Become(w, r)
    BY <1>2 DEF HashFile, Listed
  <2> HIDE DEF r
  <2>3. TypeOK'
    BY <2>1, <2>2 DEF SInv, TypeOK, Become, HashFile
  <2>4. HasFile' /\ OwnsManifest' /\ OwnersDiffer' /\ RestoresKept'
    BY <1>1, <2>1, <2>2, CreatorStep DEF HashFile
  <2>5. \A g \in Files : r.entries[g] # Missing => Explained(r.entries[g])
    BY <1>1, <1>2, <2>1 DEF SInv, BlobsExplained, EntriesExplained
  <2>6. BlobsExplained' /\ EntriesExplained' /\ ManifestsExplained'
    BY <1>1, <2>1, <2>2, <2>5, QuietStep DEF HashFile
  <2> QED BY <2>3, <2>4, <2>6 DEF SInv
<1>3. CASE blobs[h] = Missing
  <2> DEFINE r == [proc[w] EXCEPT !.pc = "copy", !.file = f, !.hash = h]
  <2>1. /\ r \in Proc /\ r.pc = "copy" /\ r.ckpt = proc[w].ckpt
        /\ r.entries = proc[w].entries /\ r.file = f /\ r.hash = h
    BY <1>1 DEF Proc
  <2>2. Become(w, r)
    BY <1>3 DEF HashFile
  <2> HIDE DEF r
  <2>3. TypeOK'
    BY <2>1, <2>2 DEF SInv, TypeOK, Become, HashFile
  <2>4. HasFile' /\ OwnsManifest' /\ OwnersDiffer' /\ RestoresKept'
    BY <1>1, <2>1, <2>2, CreatorStep DEF HashFile
  <2>5. \A g \in Files : r.entries[g] # Missing => Explained(r.entries[g])
    BY <1>1, <2>1 DEF SInv, EntriesExplained
  <2>6. BlobsExplained' /\ EntriesExplained' /\ ManifestsExplained'
    BY <1>1, <2>1, <2>2, <2>5, QuietStep DEF HashFile
  <2> QED BY <2>3, <2>4, <2>6 DEF SInv
<1> QED BY <1>2, <1>3

LEMMA TruncateBlobKeeps ==
    ASSUME SInv, NEW w \in Workers, TruncateBlob(w)
    PROVE  SInv'
<1> DEFINE r == [proc[w] EXCEPT !.pc = "fill"]
<1>1. /\ proc[w] \in Proc /\ Creating(w)
      /\ proc[w].file \in Files /\ proc[w].hash \in Contents
  BY DEF SInv, TypeOK, HasFile, TruncateBlob, At, Creating
<1>2. /\ r \in Proc /\ r.pc = "fill" /\ r.ckpt = proc[w].ckpt /\ r.hash = proc[w].hash
      /\ r.entries = proc[w].entries /\ r.file = proc[w].file
  BY <1>1 DEF Proc
<1>3. Become(w, r)
  BY DEF TruncateBlob
<1> HIDE DEF r
<1>4. TypeOK'
  BY <1>1, <1>2, <1>3 DEF SInv, TypeOK, Become, TruncateBlob, OnDisk
<1>5. HasFile' /\ OwnsManifest' /\ OwnersDiffer' /\ RestoresKept'
  BY <1>1, <1>2, <1>3, CreatorStep DEF TruncateBlob
<1>6. BlobsExplained' /\ EntriesExplained' /\ ManifestsExplained'
  BY <1>1, <1>2, <1>3, CopyStep DEF TruncateBlob
<1> QED BY <1>4, <1>5, <1>6 DEF SInv

LEMMA FillBlobKeeps ==
    ASSUME SInv, NEW w \in Workers, FillBlob(w)
    PROVE  SInv'
<1> DEFINE r == [proc[w] EXCEPT !.pc = "check"]
<1>1. /\ proc[w] \in Proc /\ Creating(w)
      /\ proc[w].file \in Files /\ proc[w].hash \in Contents
  BY DEF SInv, TypeOK, HasFile, FillBlob, At, Creating
<1>2. /\ r \in Proc /\ r.pc = "check" /\ r.ckpt = proc[w].ckpt /\ r.hash = proc[w].hash
      /\ r.entries = proc[w].entries /\ r.file = proc[w].file
  BY <1>1 DEF Proc
<1>3. Become(w, r)
  BY DEF FillBlob
<1> HIDE DEF r
<1>4. TypeOK'
  BY <1>1, <1>2, <1>3 DEF SInv, TypeOK, Become, FillBlob, OnDisk
<1>5. HasFile' /\ OwnsManifest' /\ OwnersDiffer' /\ RestoresKept'
  BY <1>1, <1>2, <1>3, CreatorStep DEF FillBlob
<1>6. BlobsExplained' /\ EntriesExplained' /\ ManifestsExplained'
  BY <1>1, <1>2, <1>3, CopyStep DEF FillBlob
<1> QED BY <1>4, <1>5, <1>6 DEF SInv

LEMMA IdleType == Idle \in Proc /\ Idle.pc = "idle"
BY DEF Idle, Proc, NoFiles

\* A copy that ends leaves its blob sound, or damaged.
LEMMA EndOfCopy ==
    ASSUME NEW w \in Workers, NEW r \in Proc, SInv, Become(w, r),
           proc[w].hash \in Contents, UNCHANGED <<blobs, manifests>>, damaged \subseteq damaged',
           blobs[proc[w].hash] = proc[w].hash \/ proc[w].hash \in damaged',
           \A f \in Files : r.pc \in {"next", "copy", "fill", "check"} /\ r.entries[f] # Missing
                           => r.entries[f] = proc[w].hash \/ Explained(r.entries[f])
    PROVE  BlobsExplained' /\ EntriesExplained' /\ ManifestsExplained'
<1>1. \A v \in Workers : proc'[v] = IF v = w THEN r ELSE proc[v]
  BY OthersKeep
<1>2. ASSUME NEW h, Explained(h) \/ h = proc[w].hash
      PROVE  Explained(h)'
  BY <1>1, <1>2 DEF Explained, Copying
<1>3. BlobsExplained'
  BY <1>2 DEF SInv, BlobsExplained
<1>4. EntriesExplained'
  BY <1>1, <1>2 DEF SInv, EntriesExplained, Creating
<1>5. ManifestsExplained'
  BY <1>2 DEF SInv, ManifestsExplained
<1> QED BY <1>3, <1>4, <1>5

LEMMA CheckBlobKeeps ==
    ASSUME SInv, NEW w \in Workers, CheckBlob(w)
    PROVE  SInv'
<1> DEFINE f == proc[w].file
           h == proc[w].hash
<1>1. /\ f \in Files /\ h \in Contents /\ proc[w] \in Proc
      /\ proc[w].pc = "check" /\ Creating(w)
  BY DEF SInv, TypeOK, HasFile, CheckBlob, At, Creating
<1>2. CASE blobs[h] = h
  <2> DEFINE r == [proc[w] EXCEPT !.pc = "next", !.entries[f] = h,
                                  !.file = Nobody, !.hash = Missing]
  <2>1. /\ r \in Proc /\ r.pc = "next" /\ r.ckpt = proc[w].ckpt
        /\ \A g \in Files : r.entries[g] = IF g = f THEN h ELSE proc[w].entries[g]
    BY <1>1 DEF Proc
  <2>2. Become(w, r) /\ UNCHANGED damaged
    BY <1>2 DEF CheckBlob, Listed
  <2> HIDE DEF r
  <2>3. TypeOK'
    BY <2>1, <2>2 DEF SInv, TypeOK, Become, CheckBlob
  <2>4. HasFile' /\ OwnsManifest' /\ OwnersDiffer' /\ RestoresKept'
    BY <1>1, <2>1, <2>2, CreatorStep DEF CheckBlob
  <2>5. \A g \in Files : r.entries[g] # Missing => r.entries[g] = h \/ Explained(r.entries[g])
    BY <1>1, <2>1 DEF SInv, EntriesExplained
  <2>6. BlobsExplained' /\ EntriesExplained' /\ ManifestsExplained'
    BY <1>1, <1>2, <2>1, <2>2, <2>5, EndOfCopy DEF CheckBlob
  <2> QED BY <2>3, <2>4, <2>6 DEF SInv
<1>3. CASE blobs[h] # h
  <2>1. Become(w, Idle) /\ damaged' = damaged \union {h}
    BY <1>3 DEF CheckBlob
  <2>2. TypeOK'
    BY <1>1, <2>1, IdleType DEF SInv, TypeOK, Become, CheckBlob
  <2>3. HasFile' /\ OwnsManifest' /\ OwnersDiffer' /\ RestoresKept'
    BY <2>1, EndStep DEF CheckBlob
  <2>4. BlobsExplained' /\ EntriesExplained' /\ ManifestsExplained'
    BY <1>1, <2>1, IdleType, EndOfCopy DEF CheckBlob
  <2> QED BY <2>2, <2>3, <2>4 DEF SInv
<1> QED BY <1>2, <1>3

LEMMA CompleteCheckpointKeeps ==
    ASSUME SInv, NEW w \in Workers, CompleteCheckpoint(w)
    PROVE  SInv'
<1> DEFINE c == proc[w].ckpt
           e == proc[w].entries
<1>1. /\ c \in Checkpoints /\ proc[w] \in Proc /\ proc[w].pc = "next" /\ Creating(w)
      /\ manifests[c] # Missing /\ ~manifests[c].complete
  BY DEF SInv, TypeOK, OwnsManifest, CompleteCheckpoint, At, Creating
<1>2. e \in [Files -> Contents] /\ \A f \in Files : Explained(e[f])
  BY <1>1 DEF SInv, EntriesExplained, CompleteCheckpoint, Proc
<1>3. /\ manifests'[c] = [complete |-> TRUE, files |-> e]
      /\ \A d \in Checkpoints \ {c} : manifests'[d] = manifests[d]
  BY <1>1 DEF SInv, TypeOK, CompleteCheckpoint
<1>4. Become(w, Idle) /\ UNCHANGED <<live, blobs, copies, shared, damaged, faults>>
  BY DEF CompleteCheckpoint
<1>5. \A v \in Workers : proc'[v] = IF v = w THEN Idle ELSE proc[v]
  BY <1>4, OthersKeep
<1>6. TypeOK'
  <2>1. [complete |-> TRUE, files |-> e] \in Manifest
    BY <1>2 DEF Manifest
  <2> QED BY <1>4, <2>1, IdleType DEF SInv, TypeOK, Become, CompleteCheckpoint
<1>7. HasFile'
  BY <1>5, IdleType DEF SInv, HasFile
<1>8. \A v \in Workers \ {w} : Creating(v) => proc[v].ckpt # c
  BY <1>1 DEF SInv, OwnersDiffer
<1>9. \A v \in Workers : Restoring(v) => proc[v].ckpt # c
  BY <1>1 DEF SInv, RestoresKept, ReadsManifest
<1>10. OwnsManifest' /\ OwnersDiffer'
  BY <1>3, <1>5, <1>8, IdleType DEF SInv, OwnsManifest, OwnersDiffer, Creating
<1>11. RestoresKept'
  BY <1>3, <1>4, <1>5, <1>9, IdleType
     DEF SInv, RestoresKept, ReadsManifest, SuffixesApart, DoneIsVerified, Restoring
<1>12. BlobsExplained' /\ EntriesExplained'
  BY <1>1, <1>4, IdleType, QuietStep
<1>13. \A h : Explained(h) => Explained(h)'
  BY <1>1, <1>4, OthersExplain DEF SInv
<1>14. ManifestsExplained'
  <2>1. manifests'[c].files = e
    BY <1>3
  <2> QED BY <1>2, <1>3, <1>13, <2>1 DEF SInv, ManifestsExplained
<1> QED BY <1>6, <1>7, <1>10, <1>11, <1>12, <1>14 DEF SInv

LEMMA StartRestoreKeeps ==
    ASSUME SInv, NEW w \in Workers, NEW c \in Checkpoints, NEW x \in Suffixes,
           StartRestore(w, c, x)
    PROVE  SInv'
<1> DEFINE r == [Idle EXCEPT !.pc = "restore", !.ckpt = c, !.entries = manifests[c].files,
                            !.suffix = x]
<1>1. /\ proc[w].pc = "idle" /\ manifests[c] # Missing /\ manifests[c].complete
      /\ manifests[c] \in Manifest
  BY DEF SInv, TypeOK, StartRestore, Restorable, At
<1>2. /\ r \in Proc /\ r.pc = "restore" /\ r.ckpt = c /\ r.entries = manifests[c].files
      /\ r.done = {} /\ r.suffix = x
  BY <1>1 DEF Proc, Idle, Manifest
<1>3. /\ Become(w, r) /\ UNCHANGED <<live, blobs, manifests, copies, damaged, faults>>
      /\ shared' \subseteq Workers
      /\ shared' \union {w} = shared \union {w} \union {v \in Workers : RestoringUnder(v, x)}
      /\ \A v \in Workers : RestoringUnder(v, x) => {v, w} \subseteq shared'
  BY DEF StartRestore, SInv, TypeOK
<1> HIDE DEF r
<1>4. \A v \in Workers : proc'[v] = IF v = w THEN r ELSE proc[v]
  BY <1>3, OthersKeep
<1>5. TypeOK'
  BY <1>2, <1>3 DEF SInv, TypeOK, Become
<1>6. HasFile'
  BY <1>2, <1>4 DEF SInv, HasFile
<1>7. OwnsManifest' /\ OwnersDiffer'
  BY <1>2, <1>3, <1>4 DEF SInv, OwnsManifest, OwnersDiffer, Creating
<1>8. RestoresKept'
  <2>1. ReadsManifest'
    BY <1>1, <1>2, <1>3, <1>4 DEF SInv, RestoresKept, ReadsManifest, Restoring
  <2>2. SuffixesApart'
    BY <1>1, <1>2, <1>3, <1>4 DEF SInv, RestoresKept, SuffixesApart, Restoring, RestoringUnder
  <2>3. DoneIsVerified'
    BY <1>1, <1>2, <1>3, <1>4 DEF SInv, RestoresKept, DoneIsVerified, Restoring
  <2> QED BY <2>1, <2>2, <2>3 DEF RestoresKept
<1>9. BlobsExplained' /\ EntriesExplained' /\ ManifestsExplained'
  BY <1>1, <1>2, <1>3, QuietStep
<1> QED BY <1>5, <1>6, <1>7, <1>8, <1>9 DEF SInv

\* A call that ends outside a copy.
LEMMA QuietEnd ==
    ASSUME SInv, NEW w \in Workers, Become(w, Idle), proc[w].pc \notin {"fill", "check"},
           UNCHANGED <<live, blobs, manifests, copies, shared, damaged>>, faults' \in Nat
    PROVE  SInv'
<1>1. TypeOK'
  BY IdleType DEF SInv, TypeOK, Become
<1>2. HasFile' /\ OwnsManifest' /\ OwnersDiffer' /\ RestoresKept'
  BY EndStep
<1>3. BlobsExplained' /\ EntriesExplained' /\ ManifestsExplained'
  BY IdleType, QuietStep
<1> QED BY <1>1, <1>2, <1>3 DEF SInv

LEMMA TruncateCopyKeeps ==
    ASSUME SInv, NEW w \in Workers, NEW f \in Files, TruncateCopy(w, f)
    PROVE  SInv'
<1> DEFINE e == proc[w].entries
           r == [proc[w] EXCEPT !.pc = "refill", !.file = f, !.hash = e[f]]
<1>1. proc[w] \in Proc /\ proc[w].pc = "restore" /\ Restoring(w) /\ f \notin proc[w].done
  BY DEF SInv, TypeOK, TruncateCopy, At, Restoring
<1>2. CASE e[f] # Missing /\ blobs[e[f]] # Missing
  <2>1. /\ r \in Proc /\ r.pc = "refill" /\ r.ckpt = proc[w].ckpt /\ r.entries = e
        /\ r.file = f /\ r.hash = e[f] /\ r.done = proc[w].done /\ r.suffix = proc[w].suffix
        /\ proc[w].suffix \in Suffixes /\ e[f] \in Contents
    BY <1>1, <1>2 DEF Proc, SInv, RestoresKept, DoneIsVerified
  <2>2. Become(w, r) /\ copies' = [copies EXCEPT ![proc[w].suffix][f] = Torn]
    BY <1>2 DEF TruncateCopy
  <2> HIDE DEF r
  <2>3. TypeOK'
    BY <2>1, <2>2 DEF SInv, TypeOK, Become, TruncateCopy, OnDisk
  <2>4. /\ \A x \in Suffixes \ {r.suffix} : copies'[x] = copies[x]
        /\ \A g \in Files \ {f} : copies'[r.suffix][g] = copies[r.suffix][g]
    BY <2>1, <2>2 DEF SInv, TypeOK
  <2>5. w \notin shared => \A g \in r.done : copies'[r.suffix][g] = r.entries[g]
    BY <1>1, <2>1, <2>4 DEF SInv, RestoresKept, DoneIsVerified, Proc
  <2>6. HasFile' /\ OwnsManifest' /\ OwnersDiffer' /\ RestoresKept'
    BY <1>1, <2>1, <2>2, <2>4, <2>5, RestorerStep DEF TruncateCopy
  <2>7. BlobsExplained' /\ EntriesExplained' /\ ManifestsExplained'
    BY <1>1, <2>1, <2>2, QuietStep DEF TruncateCopy
  <2> QED BY <2>3, <2>6, <2>7 DEF SInv
<1>3. CASE ~(e[f] # Missing /\ blobs[e[f]] # Missing)
  BY <1>1, <1>3, QuietEnd DEF TruncateCopy, SInv, TypeOK
<1> QED BY <1>2, <1>3

LEMMA FillCopyKeeps ==
    ASSUME SInv, NEW w \in Workers, FillCopy(w)
    PROVE  SInv'
<1> DEFINE f == proc[w].file
           r == [proc[w] EXCEPT !.pc = "recheck"]
<1>1. /\ proc[w] \in Proc /\ proc[w].pc = "refill" /\ Restoring(w)
      /\ f \in Files /\ proc[w].hash \in Contents
      /\ proc[w].suffix \in Suffixes
      /\ f \notin proc[w].done /\ proc[w].hash = proc[w].entries[f]
  BY DEF SInv, TypeOK, HasFile, RestoresKept, DoneIsVerified, FillCopy, At, Restoring
<1>2. /\ r \in Proc /\ r.pc = "recheck" /\ r.ckpt = proc[w].ckpt /\ r.entries = proc[w].entries
      /\ r.file = f /\ r.hash = proc[w].hash /\ r.done = proc[w].done
      /\ r.suffix = proc[w].suffix
  BY <1>1 DEF Proc
<1>3. Become(w, r) /\ copies' = [copies EXCEPT ![proc[w].suffix][f] = blobs[proc[w].hash]]
  BY DEF FillCopy
<1> HIDE DEF r
<1>4. TypeOK'
  BY <1>1, <1>2, <1>3 DEF SInv, TypeOK, Become, FillCopy
<1>5. /\ \A x \in Suffixes \ {r.suffix} : copies'[x] = copies[x]
      /\ \A g \in Files \ {f} : copies'[r.suffix][g] = copies[r.suffix][g]
  BY <1>1, <1>2, <1>3 DEF SInv, TypeOK
<1>6. w \notin shared => \A g \in r.done : copies'[r.suffix][g] = r.entries[g]
  BY <1>1, <1>2, <1>5 DEF SInv, RestoresKept, DoneIsVerified, Proc
<1>7. HasFile' /\ OwnsManifest' /\ OwnersDiffer' /\ RestoresKept'
  BY <1>1, <1>2, <1>3, <1>5, <1>6, RestorerStep DEF FillCopy
<1>8. BlobsExplained' /\ EntriesExplained' /\ ManifestsExplained'
  BY <1>1, <1>2, <1>3, QuietStep DEF FillCopy
<1> QED BY <1>4, <1>7, <1>8 DEF SInv

LEMMA CheckCopyKeeps ==
    ASSUME SInv, NEW w \in Workers, CheckCopy(w)
    PROVE  SInv'
<1> DEFINE f == proc[w].file
           r == [proc[w] EXCEPT !.pc = "restore", !.done = @ \union {f},
                                !.file = Nobody, !.hash = Missing]
<1>1. /\ proc[w] \in Proc /\ proc[w].pc = "recheck" /\ Restoring(w)
      /\ f \in Files /\ proc[w].hash = proc[w].entries[f]
  BY DEF SInv, TypeOK, HasFile, RestoresKept, DoneIsVerified, CheckCopy, At, Restoring
<1>2. CASE copies[proc[w].suffix][f] = proc[w].hash
  <2>1. /\ r \in Proc /\ r.pc = "restore" /\ r.ckpt = proc[w].ckpt
        /\ r.entries = proc[w].entries /\ r.done = proc[w].done \union {f}
        /\ r.suffix = proc[w].suffix
    BY <1>1 DEF Proc
  <2>2. Become(w, r)
    BY <1>2 DEF CheckCopy
  <2> HIDE DEF r
  <2>3. TypeOK'
    BY <2>1, <2>2 DEF SInv, TypeOK, Become, CheckCopy
  <2>4. w \notin shared => \A g \in r.done : copies[r.suffix][g] = r.entries[g]
    BY <1>1, <1>2, <2>1 DEF SInv, RestoresKept, DoneIsVerified
  <2>5. HasFile' /\ OwnsManifest' /\ OwnersDiffer' /\ RestoresKept'
    BY <1>1, <2>1, <2>2, <2>4, RestorerStep DEF CheckCopy
  <2>6. BlobsExplained' /\ EntriesExplained' /\ ManifestsExplained'
    BY <1>1, <2>1, <2>2, QuietStep DEF CheckCopy
  <2> QED BY <2>3, <2>5, <2>6 DEF SInv
<1>3. CASE copies[proc[w].suffix][f] # proc[w].hash
  BY <1>1, <1>3, QuietEnd DEF CheckCopy, SInv, TypeOK
<1> QED BY <1>2, <1>3

LEMMA FailKeeps ==
    ASSUME SInv, NEW w \in Workers, Fail(w)
    PROVE  SInv'
<1>1. Become(w, Idle) /\ UNCHANGED <<live, blobs, manifests, copies, shared>> /\ faults' \in Nat
  BY DEF Fail, SInv, TypeOK
<1>2. CASE proc[w].pc \in {"fill", "check"}
  <2>1. proc[w].hash \in Contents /\ damaged' = damaged \union {proc[w].hash}
    BY <1>2 DEF Fail, SInv, HasFile
  <2>2. TypeOK'
    BY <1>1, <2>1, IdleType DEF SInv, TypeOK, Become
  <2>3. HasFile' /\ OwnsManifest' /\ OwnersDiffer' /\ RestoresKept'
    BY <1>1, EndStep
  <2>4. BlobsExplained' /\ EntriesExplained' /\ ManifestsExplained'
    BY <1>1, <2>1, IdleType, EndOfCopy
  <2> QED BY <2>2, <2>3, <2>4 DEF SInv
<1>3. CASE proc[w].pc \notin {"fill", "check"}
  BY <1>1, <1>3, QuietEnd DEF Fail
<1> QED BY <1>2, <1>3

\* Editing a project file touches nothing a checkpoint stands on.
LEMMA EditKeeps ==
    ASSUME SInv, NEW f \in Files, NEW c \in Contents, Edit(f, c)
    PROVE  SInv'
<1> USE DEF Edit
<1>1. TypeOK'
  BY DEF SInv, TypeOK
<1>2. HasFile' /\ OwnsManifest' /\ OwnersDiffer'
  BY DEF SInv, HasFile, OwnsManifest, OwnersDiffer, Creating
<1>3. RestoresKept'
  BY DEF SInv, RestoresKept, ReadsManifest, SuffixesApart, DoneIsVerified, Restoring
<1>4. BlobsExplained' /\ EntriesExplained' /\ ManifestsExplained'
  BY DEF SInv, BlobsExplained, EntriesExplained, ManifestsExplained, Explained, Copying, Creating
<1> QED BY <1>1, <1>2, <1>3, <1>4 DEF SInv

LEMMA NextSInv == SInv /\ [Next]_vars => SInv'
<1> SUFFICES ASSUME SInv, [Next]_vars PROVE SInv'
  OBVIOUS
<1>1. CASE UNCHANGED vars
  <2>1. TypeOK' /\ HasFile' /\ OwnsManifest' /\ OwnersDiffer'
    BY <1>1 DEF vars, SInv, TypeOK, HasFile, OwnsManifest, OwnersDiffer, Creating
  <2>2. RestoresKept'
    BY <1>1 DEF vars, SInv, RestoresKept, ReadsManifest, SuffixesApart, DoneIsVerified, Restoring
  <2>3. BlobsExplained' /\ EntriesExplained' /\ ManifestsExplained'
    BY <1>1 DEF vars, SInv, BlobsExplained, EntriesExplained, ManifestsExplained,
                Explained, Copying, Creating
  <2> QED BY <2>1, <2>2, <2>3 DEF SInv
<1>2. ASSUME NEW w \in Workers, NEW c \in Checkpoints,
             StartCheckpoint(w, c) \/ \E x \in Suffixes : StartRestore(w, c, x)
      PROVE  SInv'
  BY <1>2, StartCheckpointKeeps, StartRestoreKeeps
<1>3. ASSUME NEW w \in Workers, NEW f \in Files, HashFile(w, f) \/ TruncateCopy(w, f)
      PROVE  SInv'
  BY <1>3, HashFileKeeps, TruncateCopyKeeps
<1>4. ASSUME NEW w \in Workers, \/ TruncateBlob(w) \/ FillBlob(w) \/ CheckBlob(w)
                                \/ CompleteCheckpoint(w)
      PROVE  SInv'
  BY <1>4, TruncateBlobKeeps, FillBlobKeeps, CheckBlobKeeps, CompleteCheckpointKeeps
<1>5. ASSUME NEW w \in Workers, ReturnCopies(w)
      PROVE  SInv'
  BY <1>5, QuietEnd DEF ReturnCopies, At, SInv, TypeOK
<1>6. ASSUME NEW w \in Workers, FillCopy(w) \/ CheckCopy(w) \/ Fail(w)
      PROVE  SInv'
  BY <1>6, FillCopyKeeps, CheckCopyKeeps, FailKeeps
<1>7. ASSUME NEW f \in Files, NEW c \in Contents, Edit(f, c)
      PROVE  SInv'
  BY <1>7, EditKeeps
<1> QED BY <1>1, <1>2, <1>3, <1>4, <1>5, <1>6, <1>7 DEF Next

-----------------------------------------------------------------------------
(***************************************************************************)
(* Theorems.                                                               *)
(***************************************************************************)

LEMMA StoreInvariant == Spec => []SInv
BY InitSInv, NextSInv, PTL DEF Spec

\* The store is well typed: a manifest entry is the hash of a content, never a
\* torn or missing file, and every process works on a file it can name
\* (storage/checkpoints.py:132).
THEOREM StoreTypeCorrect == Spec => []TypeOK
BY StoreInvariant, PTL DEF SInv

\* A restore that returns has left exactly the files a complete manifest lists,
\* whatever crashes, edits and other processes did to the store, unless another
\* restore ran beside it in the same second (storage/checkpoints.py:178, 200).
THEOREM RestoreFaithful == Spec => []RestoreIsFaithful
<1>1. SInv => RestoreIsFaithful
  <2> SUFFICES ASSUME SInv, NEW w \in Workers \ shared, At(w, "restore"), proc[w].done = Files
               PROVE  /\ manifests[proc[w].ckpt].complete
                      /\ copies[proc[w].suffix] = manifests[proc[w].ckpt].files
    BY DEF RestoreIsFaithful
  <2>1. Restoring(w)
    BY DEF At, Restoring
  <2>2. /\ manifests[proc[w].ckpt].complete
        /\ proc[w].entries = manifests[proc[w].ckpt].files
        /\ \A f \in Files : copies[proc[w].suffix][f] = proc[w].entries[f]
    BY <2>1 DEF SInv, RestoresKept, ReadsManifest, DoneIsVerified
  <2>3. /\ copies[proc[w].suffix] \in [Files -> OnDisk]
        /\ proc[w].entries \in [Files -> Contents \union {Missing}]
    BY <2>1 DEF SInv, TypeOK, Proc, RestoresKept, DoneIsVerified
  <2>4. copies[proc[w].suffix] = proc[w].entries
    BY <2>2, <2>3
  <2> QED BY <2>2, <2>4
<1> QED BY <1>1, StoreInvariant, PTL

\* A blob of a complete checkpoint that does not hold what its name says is the
\* work of a copy that was interrupted, failed, or is under way
\* (storage/checkpoints.py:127).
THEOREM DamageExplained == Spec => []UnsoundBlobIsDamaged
<1>1. SInv => UnsoundBlobIsDamaged
  BY DEF SInv, ManifestsExplained, Explained, UnsoundBlobIsDamaged
<1> QED BY <1>1, StoreInvariant, PTL
=============================================================================
