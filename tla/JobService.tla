----------------------------- MODULE JobService -----------------------------
(***************************************************************************)
(* The closed-loop job lifecycle: core/job_service.py with the startup     *)
(* scanner of core/recovery.py, over the files of storage/job_store.py,    *)
(* storage/idempotency.py and core/lock.py, driving a HostAdapter.         *)
(*                                                                         *)
(* A worker is one process running one call at a time.  A call loads       *)
(* job.json into memory and then advances one durable write or host call   *)
(* at a time; between any two of them another worker may run, and the      *)
(* worker may crash and lose all but the files.  task[w].pc names the next *)
(* step of the call, "idle" when there is none.                            *)
(*                                                                         *)
(* All jobs are about one document of one project, so there is one lock.   *)
(***************************************************************************)
EXTENDS JobStatus, DurableHost, FiniteSets, Sequences

CONSTANTS Jobs,
          OpJob,            \* the job an operation envelope is submitted to
          NeedsCheckpoint,  \* operations in apply mode, bar checkpoint.create
          NoJob,            \* an absent job.json, and a worker without a job
          NoEntry,          \* a key the idempotency registry has not seen
          NoLock,           \* no lock file
          Dead,             \* the pid of a process that has died
          Calls,            \* the handlers the callers of this instance use
          MaxEvents,        \* bound: a call starts on a journal shorter than this
          MaxResumeEvents,  \* bound: the same for resume_job, which an instance
                            \* can leave out of reach
          MaxCrashes        \* bound: how many crashes a behaviour has

\* The fields of JobRecord that the service reads back; error is kept as
\* whether there is one, a reference to a checkpoint as whether it is set.
JobRecord == [status : Statuses, seq : Nat \union {-1}, checkpoint : BOOLEAN,
              op : Ops \union {NoOp}, error : BOOLEAN]

\* The contents of the lock file, as far as they are read back.
LockRecord == [job : Jobs, pid : Workers \union {Dead}]

ASSUME JobAssumption ==
    /\ OpJob \in [Ops -> Jobs]
    /\ NeedsCheckpoint \subseteq Ops
    /\ NoJob \notin Jobs /\ NoJob \notin JobRecord
    /\ NoLock \notin LockRecord
    /\ Dead \notin Workers
    /\ Calls \subseteq {"inspect", "prepare", "apply", "resume", "cancel", "recover"}
    /\ MaxEvents \in Nat /\ MaxResumeEvents \in Nat /\ MaxCrashes \in Nat

Event == [seq : Nat, to : Statuses \union {NoStatus}]

Entry == [op : Ops, receipt : Ops \union {NoOp}]

VARIABLES
    jobFile,     \* jobs/<job>/job.json
    journal,     \* jobs/<job>/events.jsonl
    intents,     \* jobs/<job>/operations/: the pairs <<job, operation>> saved
    receipts,    \* jobs/<job>/receipts/: [job][operation] -> the operation whose
                 \* execution the receipt reports, NoOp when there is no file
    manifests,   \* jobs a complete, verified checkpoint was made for
    registry,    \* idempotency/: key -> Entry
    lock,        \* locks/<project>_<document>.lock
    task,        \* what each worker is executing
    listed,      \* the jobs each worker's scan still has to visit, as listed
    crashes,     \* crashes so far
    verified     \* history: operations verify_operation has confirmed

fileVars == <<intents, receipts, manifests, registry>>
storeVars == <<jobFile, journal, fileVars>>
restVars == <<hostVars, lock, listed, crashes, verified>>
vars == <<hostVars, storeVars, lock, task, listed, crashes, verified>>

Handlers == {"inspect", "prepare", "apply", "resume", "cancel", "recover"}

Labels == Handlers \union
    {"create", "idle", "return", "saveJob",
     "createCheckpoint", "checkpointCreated", "markPrepared",
     "checkIdempotency", "preflight", "applyStarted", "registerIntent",
     "redispatch", "recheck", "dispatch", "checkRevision", "saveDocument",
     "recordOperation", "recordKey", "interrupted", "queryAfterFailure", "applied",
     "verify", "saveReceipt", "registerReceipt", "receiptRecorded",
     "verifySucceeded", "complete", "verifyFailed", "verifyJob", "verifyAgain",
     "restore", "scan", "classify"}

Blank == [status |-> "queued", seq |-> -1, checkpoint |-> FALSE,
          op |-> NoOp, error |-> FALSE]

Idle == [pc |-> "idle", call |-> "idle", job |-> NoJob, mem |-> Blank, op |-> NoOp,
         result |-> NoOp, locked |-> FALSE, next |-> "idle"]

\* pc: the next step; call: the handler; job, op: its arguments; mem: its copy
\* of job.json; result: the operation whose apply_result or receipt it holds;
\* locked: inside the try/finally that releases the document lock; next: the
\* step that follows "saveJob".
Task == [pc : Labels, call : Labels, job : Jobs \union {NoJob}, mem : JobRecord,
         op : Ops \union {NoOp}, result : Ops \union {NoOp}, locked : BOOLEAN,
         next : Labels]

TypeOK ==
    /\ HostTypeOK
    /\ jobFile \in [Jobs -> JobRecord \union {NoJob}]
    /\ journal \in [Jobs -> Seq(Event)]
    /\ intents \subseteq Jobs \X Ops
    /\ receipts \in [Jobs -> [Ops -> Ops \union {NoOp}]]
    /\ manifests \subseteq Jobs
    /\ registry \in [Keys -> Entry \union {NoEntry}]
    /\ lock \in LockRecord \union {NoLock}
    /\ task \in [Workers -> Task]
    /\ listed \in [Workers -> [Jobs -> JobRecord \union {NoJob}]]
    /\ crashes \in Nat
    /\ verified \subseteq Ops

Init ==
    /\ HostInit
    /\ jobFile = [j \in Jobs |-> NoJob]
    /\ journal = [j \in Jobs |-> <<>>]
    /\ intents = {}
    /\ receipts = [j \in Jobs |-> [o \in Ops |-> NoOp]]
    /\ manifests = {}
    /\ registry = [k \in Keys |-> NoEntry]
    /\ lock = NoLock
    /\ task = [w \in Workers |-> Idle]
    /\ listed = [w \in Workers |-> [j \in Jobs |-> NoJob]]
    /\ crashes = 0
    /\ verified = {}

-----------------------------------------------------------------------------
(***************************************************************************)
(* Building blocks of the handlers.                                        *)
(***************************************************************************)

At(w, label) == task[w].pc = label

\* The call goes on with task record t at step label; no event, no save.
Goto(w, t, label) == task' = [task EXCEPT ![w] = [t EXCEPT !.pc = label]]

\* Faulty variant: the call ends without its finally clause.
Leave_Early(w) == task' = [task EXCEPT ![w] = Idle]

\* Leave the call, by return or by exception: the finally clause comes next.
Leave(w) == Goto(w, task[w], "return")

\* Faulty variant: the event takes the sequence of the one before it.
Append1_OffByOne(w, to) ==
    journal' = [journal EXCEPT
        ![task[w].job] = Append(@, [seq |-> task[w].mem.seq, to |-> to])]

\* _emit_event: append to the journal and advance the sequence in memory.
\* job.json is not saved.
Append1(w, to) ==
    journal' = [journal EXCEPT
        ![task[w].job] = Append(@, [seq |-> task[w].mem.seq + 1, to |-> to])]

Emit(w, t, label) ==
    /\ Append1(w, NoStatus)
    /\ Goto(w, [t EXCEPT !.mem.seq = @ + 1], label)

\* What _transition_job makes of the job in memory.  Every transition to
\* recovery_required carries an error and nothing ever clears one.
Moved(m, to) == [m EXCEPT !.status = to, !.seq = @ + 1,
                          !.error = @ \/ to = "recovery_required"]

\* Faulty variant: the transition is saved without an event.
Transition_Unjournaled(w, t, to, label) ==
    /\ IF CanMove(t.mem.status, to)
       THEN Goto(w, [t EXCEPT !.mem = Moved(@, to), !.next = label], "saveJob")
       ELSE Leave(w)
    /\ UNCHANGED journal

\* _transition_job: validate, append to the journal, then (the step "saveJob")
\* save job.json; an illegal transition raises.
Transition(w, t, to, label) ==
    IF CanMove(t.mem.status, to)
    THEN /\ Append1(w, to)
         /\ Goto(w, [t EXCEPT !.mem = Moved(@, to), !.next = label], "saveJob")
    ELSE Leave(w) /\ UNCHANGED journal

SaveJob(w) ==
    /\ At(w, "saveJob")
    /\ jobFile' = [jobFile EXCEPT ![task[w].job] = task[w].mem]
    /\ Goto(w, [task[w] EXCEPT !.next = "idle"], task[w].next)
    /\ UNCHANGED <<restVars, fileVars, journal>>

\* The validator of JobRecord rejects the file otherwise, and load_job raises.
Loadable(r) == r.status \in {"completed", "recovered"} => ~r.error

CanLoad(j) == jobFile[j] # NoJob /\ Loadable(jobFile[j])

-----------------------------------------------------------------------------
(***************************************************************************)
(* Calls.                                                                  *)
(***************************************************************************)

Room(j, call) ==
    Len(journal[j]) < IF call = "resume" THEN MaxResumeEvents ELSE MaxEvents

\* A caller invokes a handler on a job; the handler loads it (get_job).
Call(w, call, j, o) ==
    /\ At(w, "idle")
    /\ CanLoad(j)
    /\ Room(j, call)
    /\ IF call = "apply" THEN o \in Ops /\ OpJob[o] = j ELSE o = NoOp
    /\ Goto(w, [Idle EXCEPT !.call = call, !.job = j, !.mem = jobFile[j], !.op = o], call)
    /\ UNCHANGED <<restVars, storeVars>>

CreateJob(w, j) ==
    /\ At(w, "idle")
    /\ jobFile[j] = NoJob
    /\ journal[j] = <<>>
    /\ journal' = [journal EXCEPT ![j] = <<[seq |-> 0, to |-> NoStatus]>>]
    /\ Goto(w, [Idle EXCEPT !.call = "create", !.job = j, !.next = "return",
                            !.mem.seq = 0], "saveJob")
    /\ UNCHANGED <<restVars, fileVars, jobFile>>

\* The end of every call: DocumentLock.release if the lock was acquired.
Return(w) ==
    /\ At(w, "return")
    /\ lock' = IF task[w].locked /\ lock # NoLock /\ lock.job = task[w].job
               THEN NoLock ELSE lock
    /\ task' = [task EXCEPT ![w] = Idle]
    /\ UNCHANGED <<hostVars, storeVars, listed, crashes, verified>>

-----------------------------------------------------------------------------
(***************************************************************************)
(* start_inspecting, prepare_job, request_cancel, recover_job.             *)
(***************************************************************************)

Inspect(w) ==
    /\ At(w, "inspect")
    /\ Transition(w, task[w], "inspecting", "return")
    /\ UNCHANGED <<restVars, fileVars, jobFile>>

\* prepare_job with source files to checkpoint, or without.
Prepare(w) ==
    /\ At(w, "prepare")
    /\ \/ Emit(w, task[w], "createCheckpoint")
       \/ Transition(w, task[w], "prepared", "return")
    /\ UNCHANGED <<restVars, fileVars, jobFile>>

\* create_checkpoint ends with a complete manifest, or raises.
CreateCheckpoint(w) ==
    /\ At(w, "createCheckpoint")
    /\ \/ /\ manifests' = manifests \union {task[w].job}
          /\ Goto(w, [task[w] EXCEPT !.mem.checkpoint = TRUE], "checkpointCreated")
       \/ /\ Leave(w)
          /\ UNCHANGED manifests
    /\ UNCHANGED <<restVars, jobFile, journal, intents, receipts, registry>>

CheckpointCreated(w) ==
    /\ At(w, "checkpointCreated")
    /\ Emit(w, task[w], "markPrepared")
    /\ UNCHANGED <<restVars, fileVars, jobFile>>

MarkPrepared(w) ==
    /\ At(w, "markPrepared")
    /\ Transition(w, task[w], "prepared", "return")
    /\ UNCHANGED <<restVars, fileVars, jobFile>>

\* request_cancel: where it leads from a status; NoStatus when it does nothing.
CancelTarget(status) == CASE status \in PreMutation -> "cancelled"
                          [] status = "applying"    -> "cancel_requested"
                          [] OTHER                  -> NoStatus

Cancel(w) ==
    /\ At(w, "cancel")
    /\ LET to == CancelTarget(task[w].mem.status) IN
       IF to = NoStatus THEN Leave(w) /\ UNCHANGED journal
       ELSE Transition(w, task[w], to, "return")
    /\ UNCHANGED <<restVars, fileVars, jobFile>>

Recover(w) ==
    /\ At(w, "recover")
    /\ IF task[w].mem.status = "recovery_required" /\ task[w].mem.checkpoint
       THEN Emit(w, task[w], "restore")
       ELSE Leave(w) /\ UNCHANGED journal
    /\ UNCHANGED <<restVars, fileVars, jobFile>>

\* restore_to_copy writes the copies, or raises.
Restore(w) ==
    /\ At(w, "restore")
    /\ \/ Transition(w, task[w], "recovered", "return")
       \/ Leave(w) /\ UNCHANGED journal
    /\ UNCHANGED <<restVars, fileVars, jobFile>>
-----------------------------------------------------------------------------
(***************************************************************************)
(* start_apply.  The redispatch of resume_job shares the lock and the host *)
(* call.                                                                   *)
(***************************************************************************)

\* DocumentLock.acquire grants the lock unless another job's live process
\* holds it; the file is read and written in one step here.
MayAcquire(j) == lock = NoLock \/ lock.job = j \/ lock.pid = Dead

\* A lock already held by this job is refreshed, and keeps its pid.
Acquired(w, j) == IF lock # NoLock /\ lock.job = j THEN lock ELSE [job |-> j, pid |-> w]

AcquireLock(w) ==
    /\ At(w, "apply") \/ At(w, "redispatch")
    /\ IF MayAcquire(task[w].job)
       THEN /\ lock' = Acquired(w, task[w].job)
            /\ Goto(w, [task[w] EXCEPT !.locked = TRUE],
                    IF At(w, "apply") THEN "checkIdempotency" ELSE "recheck")
       ELSE Leave(w) /\ UNCHANGED lock
    /\ UNCHANGED <<hostVars, storeVars, listed, crashes, verified>>

SaveReceiptOf(j, o, result) == receipts' = [receipts EXCEPT ![j][o] = result]

\* IdempotencyRegistry.check raises: the key was used for another request.
KeyMisused(o) == /\ registry[OpKey[o]] # NoEntry
                 /\ OpHash[registry[OpKey[o]].op] # OpHash[o]

\* It returns a record with a receipt: the request was executed before.
AlreadyExecuted(o) == /\ registry[OpKey[o]] # NoEntry
                      /\ registry[OpKey[o]].receipt # NoOp

CheckIdempotency(w) ==
    /\ At(w, "checkIdempotency")
    /\ LET t == task[w]
           e == registry[OpKey[t.op]]
       IN  IF KeyMisused(t.op) THEN Leave(w) /\ UNCHANGED receipts
           ELSE IF AlreadyExecuted(t.op)
           THEN /\ SaveReceiptOf(t.job, e.op, e.receipt)
                /\ Goto(w, [t EXCEPT !.result = e.receipt],
                        IF t.mem.status = "completed" THEN "return" ELSE "verifyJob")
           ELSE Goto(w, t, "preflight") /\ UNCHANGED receipts
    /\ UNCHANGED <<restVars, jobFile, journal, intents, manifests, registry>>

\* Faulty variant: the checkpoint requirement is not checked.
CheckpointPresent_Unchecked(o, m) == TRUE

CheckpointPresent(o, m) == o \in NeedsCheckpoint => m.checkpoint

\* The host's prepare_operation, the checkpoint requirement, save_operation.
\* An unavailable host raises whatever the revision.
Preflight(w) ==
    /\ At(w, "preflight")
    /\ LET t == task[w] IN
       \/ /\ RevisionMatches(t.op)
          /\ CheckpointPresent(t.op, t.mem)
          /\ intents' = intents \union {<<t.job, t.op>>}
          /\ Goto(w, [t EXCEPT !.mem.op = t.op], "applyStarted")
       \/ Leave(w) /\ UNCHANGED intents
    /\ UNCHANGED <<restVars, jobFile, journal, receipts, manifests, registry>>

\* Faulty variant: dispatched before job.json says so.
ApplyStarted_Deferred(w) ==
    /\ At(w, "applyStarted")
    /\ Goto(w, task[w], "dispatch")
    /\ UNCHANGED <<restVars, storeVars>>

ApplyStarted(w) ==
    /\ At(w, "applyStarted")
    /\ Transition(w, task[w], "applying", "registerIntent")
    /\ UNCHANGED <<restVars, fileVars, jobFile>>

\* register raises if the key is taken by another request or operation id.
RegistryConflict(o) == /\ registry[OpKey[o]] # NoEntry
                       /\ registry[OpKey[o]].op # o

\* Faulty variant: the receipt is registered with the intent, unverified.
RegisterIntent_WithReceipt(w) ==
    /\ At(w, "registerIntent")
    /\ registry' = [registry EXCEPT ![OpKey[task[w].op]] =
                      [op |-> task[w].op, receipt |-> task[w].op]]
    /\ Goto(w, task[w], "dispatch")
    /\ UNCHANGED <<restVars, jobFile, journal, intents, receipts, manifests>>

RegisterIntent(w) ==
    /\ At(w, "registerIntent")
    /\ LET o == task[w].op IN
       IF RegistryConflict(o) THEN Leave(w) /\ UNCHANGED registry
       ELSE /\ registry' = [registry EXCEPT ![OpKey[o]] =
                              IF @ = NoEntry THEN [op |-> o, receipt |-> NoOp] ELSE @]
            /\ Goto(w, task[w], "dispatch")
    /\ UNCHANGED <<restVars, jobFile, journal, intents, receipts, manifests>>

-----------------------------------------------------------------------------
(***************************************************************************)
(* apply_operation on the host, and the outcome as the service sees it.    *)
(***************************************************************************)

\* The call raised: start_apply catches it, the redispatch does not.
HostFailed(w) ==
    Goto(w, task[w], IF task[w].call = "apply" THEN "interrupted" ELSE "return")

Applied(w, e) == Goto(w, [task[w] EXCEPT !.result = e], "applied")

\* The record under the idempotency key answers a repeated request.
Dispatch(w) ==
    /\ At(w, "dispatch")
    /\ LET e == Cached(task[w].op) IN
       \/ e = NoOp /\ Goto(w, task[w], "checkRevision")
       \/ e # NoOp /\ ~HostConflict(task[w].op) /\ Applied(w, e)
       \* Unavailable, or a conflict.
       \/ HostFailed(w)
    /\ UNCHANGED <<restVars, storeVars>>

\* The host may find the document stale whatever its revision.
CheckRevision(w) ==
    /\ At(w, "checkRevision")
    /\ \/ ReadDocument(w, task[w].op) /\ Goto(w, task[w], "saveDocument")
       \/ HostFailed(w) /\ UNCHANGED hostVars
    /\ UNCHANGED <<storeVars, lock, listed, crashes, verified>>

HostSavesDocument(w) ==
    /\ At(w, "saveDocument")
    /\ SaveDocument(w, task[w].op)
    /\ Goto(w, task[w], "recordOperation")
    /\ UNCHANGED <<storeVars, lock, listed, crashes, verified>>

HostRecordsOperation(w) ==
    /\ At(w, "recordOperation")
    /\ RecordOperation(task[w].op)
    /\ Goto(w, task[w], "recordKey")
    /\ UNCHANGED <<storeVars, lock, listed, crashes, verified>>

\* The acknowledgement arrives, or is lost.
HostRecordsKey(w) ==
    /\ At(w, "recordKey")
    /\ RecordKey(task[w].op)
    /\ Applied(w, task[w].op) \/ HostFailed(w)
    /\ UNCHANGED <<storeVars, lock, listed, crashes, verified>>

Interrupted(w) ==
    /\ At(w, "interrupted")
    /\ Emit(w, task[w], "queryAfterFailure")
    /\ UNCHANGED <<restVars, fileVars, jobFile>>

\* Faulty variant: a lost acknowledgement is taken for success.
QueryAfterFailure_Optimistic(w) ==
    /\ At(w, "queryAfterFailure")
    /\ Applied(w, task[w].op)
    /\ UNCHANGED <<restVars, storeVars>>

\* Anything but a proof of execution requires recovery; an unavailable host
\* proves nothing.
QueryAfterFailure(w) ==
    /\ At(w, "queryAfterFailure")
    /\ \/ /\ Executed(task[w].op) # NoOp
          /\ Applied(w, Executed(task[w].op))
          /\ UNCHANGED journal
       \/ Transition(w, task[w], "recovery_required", "return")
    /\ UNCHANGED <<restVars, fileVars, jobFile>>

StartVerifying(w) ==
    /\ At(w, "applied")
    /\ Transition(w, task[w], "verifying", "verify")
    /\ UNCHANGED <<restVars, fileVars, jobFile>>

-----------------------------------------------------------------------------
(***************************************************************************)
(* Verification and completion, shared by start_apply, resume_job and      *)
(* verify_job.                                                             *)
(***************************************************************************)

\* Faulty variant: an apply that returned counts as verified.
Verify_TrustsApply(w) ==
    /\ At(w, "verify")
    /\ Goto(w, task[w], "saveReceipt")
    /\ UNCHANGED <<restVars, storeVars>>

\* verify_operation: the host may deny the postconditions at any time, and
\* confirms them only at the revision the result reports.
Verify(w) ==
    /\ At(w, "verify")
    /\ \/ /\ Verifiable(task[w].result)
          /\ verified' = verified \union {task[w].op}
          /\ Goto(w, task[w], "saveReceipt")
          /\ UNCHANGED journal
       \/ Emit(w, task[w], "verifyFailed") /\ UNCHANGED verified
    /\ UNCHANGED <<hostVars, jobFile, fileVars, lock, listed, crashes>>

VerifyFailed(w) ==
    /\ At(w, "verifyFailed")
    /\ Transition(w, task[w], "recovery_required", "return")
    /\ UNCHANGED <<restVars, fileVars, jobFile>>

SaveReceipt(w) ==
    /\ At(w, "saveReceipt")
    /\ SaveReceiptOf(task[w].job, task[w].op, task[w].result)
    /\ Goto(w, task[w], "registerReceipt")
    /\ UNCHANGED <<restVars, jobFile, journal, intents, manifests, registry>>

RegisterReceipt(w) ==
    /\ At(w, "registerReceipt")
    /\ LET o == task[w].op IN
       IF RegistryConflict(o) THEN Leave(w) /\ UNCHANGED registry
       ELSE /\ registry' = [registry EXCEPT ![OpKey[o]] =
                              [op |-> o, receipt |-> task[w].result]]
            /\ Goto(w, task[w], "receiptRecorded")
    /\ UNCHANGED <<restVars, jobFile, journal, intents, receipts, manifests>>

ReceiptRecorded(w) ==
    /\ At(w, "receiptRecorded")
    /\ Emit(w, task[w], "verifySucceeded")
    /\ UNCHANGED <<restVars, fileVars, jobFile>>

VerifySucceeded(w) ==
    /\ At(w, "verifySucceeded")
    /\ Emit(w, task[w], "complete")
    /\ UNCHANGED <<restVars, fileVars, jobFile>>

Complete(w) ==
    /\ At(w, "complete")
    /\ Transition(w, task[w], "completed", "return")
    /\ UNCHANGED <<restVars, fileVars, jobFile>>

\* verify_job loads the job afresh ...
VerifyJob(w) ==
    /\ At(w, "verifyJob")
    /\ IF CanLoad(task[w].job)
       THEN Goto(w, [task[w] EXCEPT !.mem = jobFile[task[w].job]], "verifyAgain")
       ELSE Leave(w)
    /\ UNCHANGED <<restVars, storeVars>>

\* ... and has the host verify the receipt it was given.
VerifyAgain(w) ==
    /\ At(w, "verifyAgain")
    /\ \/ /\ Verifiable(task[w].result)
          /\ verified' = verified \union {task[w].op}
          /\ Emit(w, task[w], "complete")
       \/ Emit(w, task[w], "verifyFailed") /\ UNCHANGED verified
    /\ UNCHANGED <<hostVars, jobFile, fileVars, lock, listed, crashes>>
-----------------------------------------------------------------------------
(***************************************************************************)
(* resume_job.                                                             *)
(***************************************************************************)

\* Faulty variant: only an operation with a receipt counts as started.
HasIntent_NeedsReceipt(t) == /\ t.mem.op # NoOp
                             /\ <<t.job, t.mem.op>> \in intents
                             /\ receipts[t.job][t.mem.op] # NoOp

\* The operation named in job.json, once its envelope has been loaded.
HasIntent(t) == t.mem.op # NoOp /\ <<t.job, t.mem.op>> \in intents

\* The receipt on disk for that operation; NoOp when there is none.
Receipt(t) == receipts[t.job][t.mem.op]

\* A receipt on disk is verified, an execution the host proves is verified, an
\* operation the host proves it never saw may be dispatched again, and every
\* other answer requires recovery.
ResumeInFlight(w) ==
    /\ At(w, "resume")
    /\ task[w].mem.status \in InFlight
    /\ HasIntent(task[w])
    /\ LET t == [task[w] EXCEPT !.op = task[w].mem.op]
           e == Executed(t.op)
       IN  IF Receipt(t) # NoOp
           THEN Transition(w, [t EXCEPT !.result = Receipt(t)], "verifying", "verifyJob")
           ELSE \/ /\ e # NoOp
                   /\ Transition(w, [t EXCEPT !.result = e], "verifying", "verify")
                \/ /\ e = NoOp
                   /\ CheckpointPresent(t.op, t.mem)
                   /\ Goto(w, t, "redispatch")
                   /\ UNCHANGED journal
                \/ Transition(w, t, "recovery_required", "return")
    /\ UNCHANGED <<restVars, fileVars, jobFile>>

ResumeVerifying(w) ==
    /\ At(w, "resume")
    /\ task[w].mem.status = "verifying"
    /\ HasIntent(task[w])
    /\ Receipt(task[w]) # NoOp
    /\ Goto(w, [task[w] EXCEPT !.op = task[w].mem.op, !.result = Receipt(task[w])],
            "verifyJob")
    /\ UNCHANGED <<restVars, storeVars>>

\* Otherwise the job is returned as it is.
ResumeNothing(w) ==
    /\ At(w, "resume")
    /\ ~ /\ HasIntent(task[w])
         /\ \/ task[w].mem.status \in InFlight
            \/ task[w].mem.status = "verifying" /\ Receipt(task[w]) # NoOp
    /\ Leave(w)
    /\ UNCHANGED <<restVars, storeVars>>

\* Under the lock: inspect_document must answer with the expected revision.
Recheck(w) ==
    /\ At(w, "recheck")
    /\ \/ RevisionMatches(task[w].op) /\ Goto(w, task[w], "dispatch") /\ UNCHANGED journal
       \/ /\ ~RevisionMatches(task[w].op)
          /\ Transition(w, task[w], "recovery_required", "return")
       \/ Leave(w) /\ UNCHANGED journal
    /\ UNCHANGED <<restVars, fileVars, jobFile>>

-----------------------------------------------------------------------------
(***************************************************************************)
(* RecoveryScanner.scan_and_reconcile.                                     *)
(***************************************************************************)

NothingListed == [j \in Jobs |-> NoJob]

\* list_jobs_and_corrupt: a job.json that does not load is only reported.
StartScan(w) ==
    /\ At(w, "idle")
    /\ Goto(w, [Idle EXCEPT !.call = "scan"], "scan")
    /\ listed' = [listed EXCEPT ![w] = [j \in Jobs |->
                      IF CanLoad(j) THEN jobFile[j] ELSE NoJob]]
    /\ UNCHANGED <<hostVars, storeVars, lock, crashes, verified>>

\* The sequence check of reconcile_job_events.
Contiguous(s) == \A i \in DOMAIN s : s[i].seq = i - 1

\* st is the last status the events of s carry.
ReplaysTo(s, st) ==
    \/ st = NoStatus /\ \A i \in DOMAIN s : s[i].to = NoStatus
    \/ /\ st # NoStatus
       /\ \E i \in DOMAIN s : s[i].to = st /\ \A k \in i + 1 .. Len(s) : s[k].to = NoStatus

\* Faulty variant: a journal without a transition still sets the status.
Reconciled_Unguarded(r, s, st) == [r EXCEPT !.status = st, !.seq = s[Len(s)].seq]

\* reconcile_job_events: r corrected from its journal s, which replays to st.
\* The status and the sequence are restored, and nothing else.
Reconciled(r, s, st) ==
    [r EXCEPT !.status = IF st = NoStatus THEN @ ELSE st,
              !.seq = IF @ < s[Len(s)].seq THEN s[Len(s)].seq ELSE @]

\* One job of the scan.  An invalid journal raises and ends the whole scan.
ScanJob(w, j) ==
    /\ At(w, "scan")
    /\ listed[w][j] # NoJob
    /\ LET r == listed[w][j]
           s == journal[j]
           t == [task[w] EXCEPT !.job = j, !.next = "classify"]
       IN  \/ /\ r.status \in TERMINAL_STATUSES
              /\ listed' = [listed EXCEPT ![w][j] = NoJob]
              /\ UNCHANGED task
           \/ /\ r.status \notin TERMINAL_STATUSES
              /\ ~Contiguous(s)
              /\ listed' = [listed EXCEPT ![w] = NothingListed]
              /\ Leave(w)
           \/ /\ r.status \notin TERMINAL_STATUSES
              /\ Contiguous(s)
              /\ listed' = [listed EXCEPT ![w][j] = NoJob]
              /\ \E st \in Statuses \union {NoStatus} :
                    /\ ReplaysTo(s, st)
                    /\ LET m == Reconciled(r, s, st) IN
                       Goto(w, [t EXCEPT !.mem = m],
                            IF m # r THEN "saveJob" ELSE "classify")
    /\ UNCHANGED <<hostVars, storeVars, lock, crashes, verified>>

\* _classify_job: its one effect beyond the decision record, which nothing
\* reads back, is the receipt it writes when the host proves the execution.
Classify(w) ==
    /\ At(w, "classify")
    /\ LET t == task[w]
           e == Executed(t.mem.op)
       IN  \/ /\ t.mem.status \in InFlight /\ t.mem.op # NoOp
              /\ Receipt(t) = NoOp
              /\ e # NoOp
              /\ SaveReceiptOf(t.job, e, e)
           \/ UNCHANGED receipts
    /\ Goto(w, [Idle EXCEPT !.call = "scan"], "scan")
    /\ UNCHANGED <<restVars, jobFile, journal, intents, manifests, registry>>

EndScan(w) ==
    /\ At(w, "scan")
    /\ listed[w] = NothingListed
    /\ Leave(w)
    /\ UNCHANGED <<restVars, storeVars>>

-----------------------------------------------------------------------------
(***************************************************************************)
(* The specification.                                                      *)
(***************************************************************************)

\* The worker's process dies in the middle of a call.  Files stay, and a lock
\* file it wrote now names a dead process.
Crash(w) ==
    /\ task[w] # Idle
    /\ crashes < MaxCrashes
    /\ crashes' = crashes + 1
    /\ task' = [task EXCEPT ![w] = Idle]
    /\ listed' = [listed EXCEPT ![w] = NothingListed]
    /\ lock' = IF lock # NoLock /\ lock.pid = w THEN [lock EXCEPT !.pid = Dead] ELSE lock
    /\ Forget(w)
    /\ UNCHANGED <<storeVars, verified>>

Step(w) ==
    \/ SaveJob(w) \/ Return(w)
    \/ Inspect(w) \/ Prepare(w) \/ CreateCheckpoint(w) \/ CheckpointCreated(w)
    \/ MarkPrepared(w) \/ Cancel(w) \/ Recover(w) \/ Restore(w)
    \/ AcquireLock(w) \/ CheckIdempotency(w) \/ Preflight(w) \/ ApplyStarted(w)
    \/ RegisterIntent(w) \/ Dispatch(w) \/ CheckRevision(w) \/ HostSavesDocument(w)
    \/ HostRecordsOperation(w) \/ HostRecordsKey(w)
    \/ Interrupted(w) \/ QueryAfterFailure(w) \/ StartVerifying(w)
    \/ Verify(w) \/ VerifyFailed(w) \/ SaveReceipt(w) \/ RegisterReceipt(w)
    \/ ReceiptRecorded(w) \/ VerifySucceeded(w) \/ Complete(w)
    \/ VerifyJob(w) \/ VerifyAgain(w)
    \/ ResumeInFlight(w) \/ ResumeVerifying(w) \/ ResumeNothing(w) \/ Recheck(w)
    \/ \E j \in Jobs : ScanJob(w, j)
    \/ Classify(w) \/ EndScan(w)

Next ==
    \E w \in Workers :
        \/ \E j \in Jobs : CreateJob(w, j)
        \/ \E call \in Calls, j \in Jobs, o \in Ops \union {NoOp} : Call(w, call, j, o)
        \/ StartScan(w)
        \/ Step(w)
        \/ Crash(w)

Spec == Init /\ [][Next]_vars

\* A running process keeps executing its call.
Progress == \A w \in Workers : WF_vars(Step(w))

\* Of the attempts to reach the host on a redispatch, not all fail.
HostAnswers == \A w \in Workers :
    /\ SF_vars(Recheck(w) /\ task'[w].pc # "return")
    /\ SF_vars(Dispatch(w) /\ task'[w].pc # "return")
    /\ SF_vars(CheckRevision(w) /\ task'[w].pc # "return")

\* The add-on or a supervisor keeps resuming every job.
KeepsResuming == \A j \in Jobs : SF_vars(\E w \in Workers : Call(w, "resume", j, NoOp))

FairSpec == Spec /\ Progress /\ HostAnswers /\ KeepsResuming
-----------------------------------------------------------------------------
(***************************************************************************)
(* Properties that hold whatever the workers, calls and crashes.           *)
(***************************************************************************)

OpsOf(j) == {o \in Ops : OpJob[o] = j}

\* "Before entering applying, all authorized target files are snapshotted"
\* (docs/ARCHITECTURE.md:100): once an apply-mode operation has mutated the
\* document, a complete checkpoint of its job exists.
MutationHasCheckpoint ==
    \A o \in NeedsCheckpoint : mutations[o] > 0 => OpJob[o] \in manifests

\* "completed strictly requires host postcondition verification"
\* (docs/ARCHITECTURE.md:103): no crash, replay or race makes job.json, or the
\* journal a scan may rebuild it from, say completed before the host confirmed
\* an operation of that job.
CompletedIsVerified ==
    \A j \in Jobs :
        (\/ jobFile[j] # NoJob /\ jobFile[j].status = "completed"
         \/ \E i \in DOMAIN journal[j] : journal[j][i].to = "completed")
        => OpsOf(j) \intersect verified # {}

\* start_apply answers a repeated request from the idempotency registry without
\* asking the host: what is cached there has been verified, and the job's own
\* receipt was on disk first.
RegistryOnlyVerified ==
    \A k \in Keys : registry[k] # NoEntry =>
        LET e == registry[k] IN
        e.receipt # NoOp => e.op \in verified /\ receipts[OpJob[e.op]][e.op] # NoOp

\* "Mutation count remains strictly 1" (docs/JOB_LIFECYCLE_DEBUGGING.md:55):
\* over lost acknowledgements, crashes between the host's writes, restarts,
\* redispatch and retries under a fresh operation id, a request (an idempotency
\* key) mutates the document once.
AtMostOnce ==
    \A o, p \in Ops :
        /\ mutations[o] <= 1
        /\ OpKey[o] = OpKey[p] /\ mutations[o] > 0 /\ mutations[p] > 0 => o = p

\* job.json is never ahead of its journal: some prefix of the journal ends at
\* the sequence job.json holds and replays to the status it holds.
JobFileReplayable ==
    \A j \in Jobs : jobFile[j] # NoJob =>
        \E i \in DOMAIN journal[j] :
            /\ journal[j][i].seq = jobFile[j].seq
            /\ \E st \in Statuses \union {NoStatus} :
                 /\ ReplaysTo(SubSeq(journal[j], 1, i), st)
                 /\ jobFile[j].status = IF st = NoStatus THEN "queued" ELSE st

\* The finally clauses of start_apply and resume_job: a lock that names a live
\* process is held by a call of that process on that job, whichever way calls
\* end, so a caller is not kept out by a call that is over.
LockHasHolder ==
    lock # NoLock /\ lock.pid # Dead =>
        task[lock.pid].locked /\ task[lock.pid].job = lock.job

-----------------------------------------------------------------------------
(***************************************************************************)
(* Properties of one service over its store, with no concurrent caller.    *)
(***************************************************************************)

\* The write-ahead rule: the document changes only while job.json already says
\* that this operation is being applied, so a restart finds it.
MutatesOnlyWhileApplying ==
    [][\A o \in Ops : mutations'[o] # mutations[o] =>
          /\ jobFile[OpJob[o]].status \in InFlight
          /\ jobFile[OpJob[o]].op = o
          /\ lock # NoLock /\ lock.job = OpJob[o]]_vars

Status(j) == IF jobFile[j] = NoJob THEN NoStatus ELSE jobFile[j].status

\* A job interrupted while applying does not stay there if it keeps being
\* resumed, provided job.json names its operation.
ResumeResolvesApplying ==
    \A j \in Jobs :
        Status(j) \in InFlight /\ jobFile[j].op # NoOp ~> Status(j) \notin InFlight

-----------------------------------------------------------------------------
(***************************************************************************)
(* What the sources say and the service does not keep.                     *)
(***************************************************************************)

\* resume_job: "If verifying: resumes verification directly"
\* (core/job_service.py:512), and the scanner recommends just that
\* (core/recovery.py:249).
ResumeResolvesVerifying ==
    \A j \in Jobs : Status(j) = "verifying" ~> Status(j) # "verifying"

\* _emit_event: "Append monotonic event to journal and advance sequence"
\* (core/job_service.py:80), and docs/ARCHITECTURE.md:101.
JournalMonotonic ==
    \A j \in Jobs : \A i, k \in DOMAIN journal[j] :
        i < k => journal[j][i].seq < journal[j][k].seq

\* "Completed/Recovered require no unresolved error" (core/jobs.py:192): the
\* job.json a call has saved can be loaded again.
SavedJobLoads == \A j \in Jobs : jobFile[j] # NoJob => Loadable(jobFile[j])
=============================================================================
