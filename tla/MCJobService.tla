----------------------------- MODULE MCJobService -----------------------------
(***************************************************************************)
(* Instances of JobService for TLC.                                        *)
(***************************************************************************)
EXTENDS JobRefinement, TLC

CONSTANTS j1, j2, o1, o2, k1, k2, w1, w2

\* DurableFakeHost with initial_revision rev_1 and next_revision rev_2.
FakeNextRevision == "rev_1" :> "rev_2" @@ "rev_2" :> "rev_2_next" @@ "rev_2_next" :> "rev_2"
FakeRevisions == {"rev_1", "rev_2", "rev_2_next"}
FakeHashes == {"h1", "h2"}

\* Every request of the instances expects the initial revision.
ASSUME RevisionsNotReused

\* One job and one operation: every path of every handler.
OneOpKey == o1 :> k1
OneOpHash == o1 :> "h1"
OneOpRevision == o1 :> "rev_1"
OneOpJob == o1 :> j1

\* One job whose caller retries with a fresh operation id under the same key.
RetryKey == o1 :> k1 @@ o2 :> k1
RetryHash == o1 :> "h1" @@ o2 :> "h1"
RetryRevision == o1 :> "rev_1" @@ o2 :> "rev_1"
RetryJob == o1 :> j1 @@ o2 :> j1

\* Every job has been created, inspected and prepared with a checkpoint: the
\* state after CreateJob, Inspect and Prepare of each, which the contended runs
\* start from.
PreparedRecord == [Blank EXCEPT !.status = "prepared", !.seq = 4, !.checkpoint = TRUE]
PreparedJournal == <<[seq |-> 0, to |-> NoStatus], [seq |-> 1, to |-> "inspecting"],
                     [seq |-> 2, to |-> NoStatus], [seq |-> 3, to |-> NoStatus],
                     [seq |-> 4, to |-> "prepared"]>>
PreparedInit ==
    /\ HostInit
    /\ jobFile = [j \in Jobs |-> PreparedRecord]
    /\ journal = [j \in Jobs |-> PreparedJournal]
    /\ intents = {}
    /\ receipts = [j \in Jobs |-> [o \in Ops |-> NoOp]]
    /\ manifests = Jobs
    /\ registry = [k \in Keys |-> NoEntry]
    /\ lock = NoLock
    /\ task = [w \in Workers |-> Idle]
    /\ listed = [w \in Workers |-> NothingListed]
    /\ crashes = 0
    /\ verified = {}

\* The workers are alike, and so are an operation and its retry.
Symmetry == Permutations(Workers) \union Permutations(Ops)

PreparedSpec == PreparedInit /\ [][Next]_vars
=============================================================================
