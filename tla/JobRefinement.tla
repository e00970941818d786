----------------------------- MODULE JobRefinement -----------------------------
(***************************************************************************)
(* The job service implements JobLifecycle: the status of a job is the one *)
(* in its job.json, its effects are the operations the host has executed,  *)
(* and its confirmation is a verify_operation that succeeded.              *)
(***************************************************************************)
EXTENDS JobService

(***************************************************************************)
(* The implementation is that of a service with no concurrent caller, whose *)
(* requests are each for one job.                                          *)
(***************************************************************************)

\* Two calls on one job save over each other's statuses: job.json has no lock.
OneWorker == \A v, w \in Workers : v = w

\* The hash that detects a misused key (contracts/hashing.py:19) does not cover
\* the job: a second job under the key of the first would be answered from the
\* registry and complete without an effect of its own.
KeysOfOneJob == \A o, p \in Ops : OpKey[o] = OpKey[p] => OpJob[o] = OpJob[p]

Lifecycle == INSTANCE JobLifecycle WITH
    status <- [j \in Jobs |-> IF jobFile[j] = NoJob THEN NoStatus ELSE jobFile[j].status],
    effects <- [j \in Jobs |-> {o \in OpsOf(j) : mutations[o] > 0}],
    confirmed <- [j \in Jobs |-> OpsOf(j) \intersect verified # {}]

\* Through every crash and restart of a service with no concurrent caller, what
\* job.json shows moves along ALLOWED_TRANSITIONS (core/jobs.py:40), terminal
\* statuses stay, a cancelled job has not touched the document, and evidence
\* comes before "verifying" and "completed".
ImplementsLifecycle == Lifecycle!Spec
=============================================================================
