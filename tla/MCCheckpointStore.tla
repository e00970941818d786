-------------------------- MODULE MCCheckpointStore --------------------------
(***************************************************************************)
(* An instance of CheckpointStore for TLC: files, contents, ids, processes *)
(* and suffixes are interchangeable.                                       *)
(***************************************************************************)
EXTENDS CheckpointStore, TLC

Symmetry == Permutations(Files) \union Permutations(Contents)
            \union Permutations(Checkpoints) \union Permutations(Workers)
            \union Permutations(Suffixes)
=============================================================================
