----------------------------- MODULE DurableHost -----------------------------
(***************************************************************************)
(* The host that owns the document: the HostAdapter protocol of            *)
(* contracts/host.py as testing/durable_host.py implements it on disk.     *)
(*                                                                         *)
(* All state but copies is durable.  apply_operation looks up the record   *)
(* under the idempotency key, reads the document, saves it changed, and    *)
(* files a record under the operation id and one under the key: five       *)
(* accesses to the files, with no lock, between which the process may die  *)
(* and another process may run, so each is an action fragment of its own.  *)
(* Inspect, prepare, query and verify only read.                           *)
(***************************************************************************)
EXTENDS Integers

CONSTANTS Workers,        \* the processes that call the host
          Ops,            \* operation identities (operation_id)
          Keys,           \* idempotency keys
          Hashes,         \* values of compute_operation_request_hash
          Revisions,      \* document revisions
          NoOp,           \* no operation; not in Ops
          NoCopy,         \* no document in memory
          OpKey,          \* the idempotency key an operation carries
          OpHash,         \* the hash of its request
          OpRevision,     \* its expected_revision
          NextRevision,   \* the revision a mutation of a revision produces
          InitialRevision

ASSUME HostAssumption ==
    /\ NoOp \notin Ops
    /\ NoCopy \notin [revision : Revisions, mutations : [Ops -> Nat]]
    /\ OpKey \in [Ops -> Keys]
    /\ OpHash \in [Ops -> Hashes]
    /\ OpRevision \in [Ops -> Revisions]
    /\ NextRevision \in [Revisions -> Revisions]
    /\ InitialRevision \in Revisions
    \* The hash covers expected_revision.
    /\ \A o, p \in Ops : OpHash[o] = OpHash[p] => OpRevision[o] = OpRevision[p]

\* A mutation gives the document a revision it has not had: once o is executed,
\* no further mutation leads back to a revision that o, or another request under
\* o's key, expects.  S is what the document may still become.  A host need not
\* keep to this: the stand-in does for requests on its initial revision, and
\* afterwards only alternates between two others (durable_host.py:275).
RevisionsNotReused ==
    \A o, p \in Ops : OpKey[o] = OpKey[p] =>
        \E S \in SUBSET Revisions :
            /\ NextRevision[OpRevision[o]] \in S
            /\ \A r \in S : NextRevision[r] \in S
            /\ OpRevision[p] \notin S

\* The document, as far as the properties tell apart: the changes it carries.
Document == [revision : Revisions, mutations : [Ops -> Nat]]

VARIABLES docRevision,    \* current_revision of the document
          mutations,      \* how often the document on disk carries the change of
                          \* each operation; their sum is its mutation_count
          opRecords,      \* operations with a file in operations/
          keyRecords,     \* key -> operation whose record idempotency/ holds
          copies          \* the document a call of apply_operation has read

hostVars == <<docRevision, mutations, opRecords, keyRecords, copies>>

HostTypeOK ==
    /\ docRevision \in Revisions
    /\ mutations \in [Ops -> Nat]
    /\ opRecords \subseteq Ops
    /\ keyRecords \in [Keys -> Ops \union {NoOp}]
    /\ copies \in [Workers -> Document \union {NoCopy}]

HostInit ==
    /\ docRevision = InitialRevision
    /\ mutations = [o \in Ops |-> 0]
    /\ opRecords = {}
    /\ keyRecords = [k \in Keys |-> NoOp]
    /\ copies = [w \in Workers |-> NoCopy]

\* Faulty variant: the host does not compare revisions.
RevisionMatches_Skipped(o) == TRUE

\* prepare_operation and the revision check of apply_operation accept o.
RevisionMatches(o) == docRevision = OpRevision[o]

\* The record apply_operation finds under o's idempotency key, if any.
Cached(o) == keyRecords[OpKey[o]]

HostConflict(o) == Cached(o) # NoOp /\ OpHash[Cached(o)] # OpHash[o]

\* apply_operation step 2: the document is read, and has the revision expected.
ReadDocument(w, o) ==
    /\ RevisionMatches(o)
    /\ copies' = [copies EXCEPT ![w] = [revision |-> docRevision, mutations |-> mutations]]
    /\ UNCHANGED <<docRevision, mutations, opRecords, keyRecords>>

\* apply_operation step 3: the copy is changed and saved, over whatever the file
\* holds by now.
SaveDocument(w, o) ==
    /\ copies[w] # NoCopy
    /\ docRevision' = NextRevision[copies[w].revision]
    /\ mutations' = [copies[w].mutations EXCEPT ![o] = @ + 1]
    /\ copies' = [copies EXCEPT ![w] = NoCopy]
    /\ UNCHANGED <<opRecords, keyRecords>>

\* apply_operation step 4, first file.
RecordOperation(o) ==
    /\ opRecords' = opRecords \union {o}
    /\ UNCHANGED <<docRevision, mutations, keyRecords, copies>>

\* apply_operation step 4, second file.
RecordKey(o) ==
    /\ keyRecords' = [keyRecords EXCEPT ![OpKey[o]] = o]
    /\ UNCHANGED <<docRevision, mutations, opRecords, copies>>

\* The process of a caller dies: its copy is gone, the files stay.
Forget(w) ==
    /\ copies' = [copies EXCEPT ![w] = NoCopy]
    /\ UNCHANGED <<docRevision, mutations, opRecords, keyRecords>>

\* query_operation_status: the operation whose execution the registry proves
\* when asked about o, by operation id first and by key next; NoOp is the
\* authoritative NOT_FOUND.
Executed(o) == IF o \in opRecords THEN o ELSE Cached(o)

\* verify_operation cannot succeed unless the document still has the revision
\* that executing e produced.
Verifiable(e) == docRevision = NextRevision[OpRevision[e]]
=============================================================================
