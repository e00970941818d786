----------------------------- MODULE Retention -----------------------------
(***************************************************************************)
(* Room for checkpoints: the disk budget that admits a new one             *)
(* (storage/disk_budget.py, called first by create_checkpoint) and the     *)
(* retention policy that says which old ones may go                        *)
(* (CheckpointEngine.evaluate_retention in storage/checkpoints.py, which   *)
(* reads the manifests, and calculate_retention in storage/retention.py,   *)
(* which decides).  The code deletes nothing; CleanUp is a caller acting   *)
(* on the answer it was given.                                             *)
(***************************************************************************)
EXTENDS Naturals, FiniteSets

CONSTANTS
    Sizes,             \* total_bytes a checkpoint may have
    Capacity,          \* bytes of the disk
    SafetyMargin,      \* safety_margin_bytes
    MaxCheckpoints,    \* policy.max_checkpoints
    MaxTotalBytes,     \* policy.max_total_bytes
    MaxTaken           \* bound on the checkpoints ever taken

ASSUME RetentionAssumption ==
    /\ Sizes \subseteq Nat /\ Capacity \in Nat /\ SafetyMargin \in Nat
    /\ MaxCheckpoints \in Nat /\ MaxTotalBytes \in Nat /\ MaxTaken \in Nat

VARIABLES
    shelf,         \* the manifests on disk
    taken,         \* the checkpoints taken so far
    answer         \* the last answer of evaluate_retention

retentionVars == <<shelf, taken, answer>>

NoAnswer == [asked |-> FALSE, candidates |-> {}]

(* `id`: its place in the order of created_at.                              *)
(* `needed`: the caller lists the id among those of its active jobs.        *)
(* `readable`: the manifest parses; an unreadable one is passed over.       *)
Manifests == [id : 1..MaxTaken, size : Sizes, pinned : BOOLEAN,
              needed : BOOLEAN, readable : BOOLEAN]

----------------------------------------------------------------------------
(* The budget *)

\* The size of the n-th checkpoint, if it is among these.
SizeOf(cps, n) ==
    IF \E c \in cps : c.id = n THEN (CHOOSE c \in cps : c.id = n).size ELSE 0

TotalBytes(cps) ==
    LET bytes[n \in 0..MaxTaken] == IF n = 0 THEN 0 ELSE bytes[n - 1] + SizeOf(cps, n)
    IN  bytes[MaxTaken]

Free == Capacity - TotalBytes(shelf)

calculate_disk_budget(required, available, margin) ==
    [allowed |-> available >= required + margin,
     shortfall |-> IF required + margin > available
                   THEN required + margin - available ELSE 0]

----------------------------------------------------------------------------
(* The policy *)

Protected(c) == c.pinned \/ c.needed

(* A slip: the count may pass its bound by one. *)
HasRoom_OffByOne(retained, c) ==
    /\ Cardinality(retained) <= MaxCheckpoints
    /\ TotalBytes(retained) + c.size <= MaxTotalBytes

(* Room for one more under both bounds. *)
HasRoom(retained, c) ==
    /\ Cardinality(retained) < MaxCheckpoints
    /\ TotalBytes(retained) + c.size <= MaxTotalBytes

(* A slip: the walk starts at the oldest. *)
Turn_OldestFirst(n) == n

(* The n-th of the walk: the newest comes first. *)
Turn(n) == MaxTaken + 1 - n

(* The protected ones are retained first; the others are then taken from    *)
(* the newest on while the count and the bytes allow, and one that does not *)
(* fit does not end the walk.                                               *)
calculate_retention(cps) ==
    LET retained[n \in 0..MaxTaken] ==
            IF n = 0 THEN {c \in cps : Protected(c)}
            ELSE retained[n - 1] \union
                 {c \in cps : /\ c.id = Turn(n) /\ ~Protected(c)
                              /\ HasRoom(retained[n - 1], c)}
    IN  retained[MaxTaken]

(* The manifests that do not parse are not counted. *)
Parsed(cps) == {c \in cps : c.readable}
evaluate_retention(cps) == Parsed(cps) \ calculate_retention(Parsed(cps))

----------------------------------------------------------------------------
(* Behaviour *)

RetentionInit == shelf = {} /\ taken = 0 /\ answer = NoAnswer

(* create_checkpoint, refused with DISK_BUDGET_EXCEEDED when there is no     *)
(* room; a checkpoint taken for a job is needed until the job ends.          *)
Take ==
    /\ taken < MaxTaken
    /\ \E size \in Sizes, pinned, needed \in BOOLEAN :
          /\ calculate_disk_budget(size, Free, SafetyMargin).allowed
          /\ shelf' = shelf \union {[id |-> taken + 1, size |-> size, pinned |-> pinned,
                                     needed |-> needed, readable |-> TRUE]}
    /\ taken' = taken + 1
    /\ answer' = NoAnswer

Alter(c, altered) == shelf' = (shelf \ {c}) \union {altered} /\ answer' = NoAnswer

JobEnds ==
    /\ \E c \in shelf : c.needed /\ Alter(c, [c EXCEPT !.needed = FALSE])
    /\ UNCHANGED taken

Damage ==
    /\ \E c \in shelf : c.readable /\ Alter(c, [c EXCEPT !.readable = FALSE])
    /\ UNCHANGED taken

Evaluate ==
    /\ answer' = [asked |-> TRUE, candidates |-> evaluate_retention(shelf)]
    /\ UNCHANGED <<shelf, taken>>

CleanUp ==
    /\ answer.candidates # {}
    /\ shelf' = shelf \ answer.candidates
    /\ answer' = [asked |-> TRUE, candidates |-> {}]
    /\ UNCHANGED taken

RetentionNext == Take \/ JobEnds \/ Damage \/ Evaluate \/ CleanUp

RetentionSpec == RetentionInit /\ [][RetentionNext]_retentionVars

----------------------------------------------------------------------------
(* Properties *)

(* An answer never costs a checkpoint it should not: none that is pinned or *)
(* needed or unreadable is a candidate, and each candidate would break a    *)
(* bound beside the checkpoints that stay and are protected or newer.       *)
(* retention.py:57-80, checkpoints.py:241-261                               *)
OnlySurplusGoes ==
    \A c \in shelf \intersect answer.candidates :
        LET rest == {d \in shelf : /\ d.readable /\ d \notin answer.candidates
                                   /\ d.id > c.id \/ Protected(d)}
        IN  /\ ~Protected(c) /\ c.readable
            /\ \/ Cardinality(rest) >= MaxCheckpoints
               \/ TotalBytes(rest) + c.size > MaxTotalBytes

(* Acting on an answer is enough: once its candidates are gone the shelf    *)
(* meets the policy, unless nothing but protected checkpoints is left, and  *)
(* another evaluation has nothing to add.  retention.py:64-80               *)
OneCleanUpSuffices ==
    answer.asked =>
        LET kept == Parsed(shelf) \ answer.candidates
        IN  /\ evaluate_retention(kept) = {}
            /\ \/ \A c \in kept : Protected(c)
               \/ /\ Cardinality(kept) <= MaxCheckpoints
                  /\ TotalBytes(kept) <= MaxTotalBytes
=============================================================================
