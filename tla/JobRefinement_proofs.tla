------------------------ MODULE JobRefinement_proofs ------------------------
(***************************************************************************)
(* The job service implements JobLifecycle, and writes ahead: for any       *)
(* number of jobs, operations and crashes, under one worker at a time.      *)
(*                                                                         *)
(* Two invariants are added to those of JobService_proofs.  XInv: whatever  *)
(* a call, the host or the registry takes for an execution of a request did *)
(* change the document.  SInv: what a call has in memory is job.json or one *)
(* transition ahead of it, in step with the journal and with the effects of *)
(* the job.  From them every step of JobService is a step of JobLifecycle   *)
(* or leaves its variables alone; a save shows the transitions, the host's  *)
(* mutation and verify_operation the rest.                                  *)
(***************************************************************************)
EXTENDS JobRefinement, JobService_proofs

-----------------------------------------------------------------------------
(***************************************************************************)
(* Executions.  What the host, the registry, the receipts and the calls    *)
(* take for the execution of a request did change the document.  M stands   *)
(* for mutations, before or after a step.                                   *)
(***************************************************************************)

\* r is an execution of the request that o carries.
Reports(r, o, M) == o \in Ops /\ OpKey[r] = OpKey[o] /\ M[r] > 0

TaskReports(t, M) ==
    /\ t.result # NoOp => Reports(t.result, t.op, M)
    /\ Heading(t) \in {"recordOperation", "recordKey"} => M[t.op] > 0
    /\ Heading(t) = "resume" => t.result = NoOp

HostReports ==
    /\ \A o \in opRecords : mutations[o] > 0
    /\ \A k \in Keys : keyRecords[k] # NoOp =>
          OpKey[keyRecords[k]] = k /\ mutations[keyRecords[k]] > 0

RegistryReports ==
    \A k \in Keys : registry[k] # NoEntry =>
        /\ OpKey[registry[k].op] = k
        /\ registry[k].receipt # NoOp =>
              Reports(registry[k].receipt, registry[k].op, mutations)

ReceiptsReport ==
    \A j \in Jobs, o \in Ops : receipts[j][o] # NoOp =>
        OpJob[o] = j /\ Reports(receipts[j][o], o, mutations)

TasksReport == \A w \in Workers : TaskReports(task[w], mutations)

XInv == HostReports /\ RegistryReports /\ ReceiptsReport /\ TasksReport

\* With no concurrent caller, the document a call of the host has read is the one
\* on disk, and its save changes that one in place.
CopiesCurrent == \A w \in Workers : copies[w] # NoCopy => copies[w].mutations = mutations

LEMMA SavesInPlace ==
    ASSUME TInv, CopiesCurrent, NEW w \in Workers, HostSavesDocument(w)
    PROVE  /\ task[w].op \in Ops /\ mutations \in [Ops -> Nat]
           /\ mutations' = [mutations EXCEPT ![task[w].op] = mutations[task[w].op] + 1]
           /\ UNCHANGED <<opRecords, keyRecords>>
<1>1. task[w].op \in Ops
  BY DEF HostSavesDocument, At, TInv, WellFormed, Heading, OpLabels
<1>2. mutations \in [Ops -> Nat]
  BY DEF TInv, TypeOK, HostTypeOK
<1> QED BY <1>1, <1>2 DEF HostSavesDocument, SaveDocument, CopiesCurrent

LEMMA CopiesInit == Init => CopiesCurrent
BY DEF Init, HostInit, CopiesCurrent

LEMMA CopiesNext ==
    ASSUME OneWorker
    PROVE  TInv /\ CopiesCurrent /\ [Next]_vars => CopiesCurrent'
<1> SUFFICES ASSUME TInv, CopiesCurrent, [Next]_vars PROVE CopiesCurrent'
  OBVIOUS
<1>0. copies \in [Workers -> Document \union {NoCopy}]
  BY DEF TInv, TypeOK, HostTypeOK
<1>1. CASE UNCHANGED <<docRevision, mutations, copies>>
  BY <1>1 DEF CopiesCurrent
<1>2. ASSUME NEW w \in Workers, Crash(w)
      PROVE  CopiesCurrent'
  BY <1>0, <1>2 DEF Crash, Forget, CopiesCurrent
<1>3. ASSUME NEW w \in Workers, ReadDocument(w, task[w].op)
      PROVE  CopiesCurrent'
  BY <1>0, <1>3 DEF ReadDocument, CopiesCurrent
<1>4. ASSUME NEW w \in Workers, HostSavesDocument(w)
      PROVE  CopiesCurrent'
  BY <1>0, <1>4 DEF HostSavesDocument, SaveDocument, CopiesCurrent, OneWorker
<1> QED BY <1>1, <1>2, <1>3, <1>4, DocumentKept

\* Executions are not undone.
Lasting == \A o \in Ops : mutations[o] > 0 => mutations'[o] > 0

LEMMA ReportsLast ==
    ASSUME Lasting, NEW r \in Ops, NEW o, Reports(r, o, mutations)
    PROVE  Reports(r, o, mutations')
BY DEF Lasting, Reports

\* What the host proves executed, was.
LEMMA ExecutedReports ==
    ASSUME TInv, XInv, NEW o \in Ops, Executed(o) # NoOp
    PROVE  Executed(o) \in Ops /\ Reports(Executed(o), o, mutations)
BY HostAssumption
   DEF TInv, TypeOK, HostTypeOK, XInv, HostReports, Executed, Cached, Reports

\* The call of w goes on with the job, operation, result and finally clause of t.
Continues(w, t, label) ==
    /\ \A v \in Workers : v # w => task'[v] = task[v]
    /\ task'[w].job = t.job /\ task'[w].op = t.op /\ task'[w].result = t.result
    /\ task'[w].locked = t.locked
    /\ Heading(task'[w]) = label

LEMMA GotoContinues ==
    ASSUME TInv, NEW w \in Workers, NEW t \in Task, NEW label, label # "saveJob",
           Goto(w, t, label)
    PROVE  Continues(w, t, label)
BY DEF Goto, Continues, TInv, TypeOK, Task, Heading

LEMMA LeaveContinues ==
    ASSUME TInv, NEW w \in Workers, Leave(w)
    PROVE  Continues(w, task[w], "return")
<1>1. task[w] \in Task
  BY DEF TInv, TypeOK
<1> QED BY <1>1, GotoContinues DEF Leave

LEMMA EmitContinues ==
    ASSUME TInv, NEW w \in Workers, NEW t \in Task, NEW label, label # "saveJob",
           Emit(w, t, label)
    PROVE  Continues(w, t, label)
<1> DEFINE u == [t EXCEPT !.mem.seq = @ + 1]
           u2 == [u EXCEPT !.pc = label]
<1>1. \A v \in Workers : task'[v] = IF v = w THEN u2 ELSE task[v]
  BY DEF Emit, Goto, TInv, TypeOK
<1>2. /\ u2.job = t.job /\ u2.op = t.op /\ u2.result = t.result /\ u2.pc = label
      /\ u2.locked = t.locked
  BY DEF Task
<1> HIDE DEF u2
<1> QED BY <1>1, <1>2 DEF Continues, Heading

LEMMA TransitionContinues ==
    ASSUME TInv, NEW w \in Workers, NEW t \in Task, NEW to, NEW label,
           Transition(w, t, to, label)
    PROVE  Continues(w, t, label) \/ Continues(w, task[w], "return")
<1>1. CASE CanMove(t.mem.status, to)
  <2> DEFINE u == [t EXCEPT !.mem = Moved(@, to), !.next = label]
             u2 == [u EXCEPT !.pc = "saveJob"]
  <2>1. \A v \in Workers : task'[v] = IF v = w THEN u2 ELSE task[v]
    BY <1>1 DEF Transition, Goto, TInv, TypeOK
  <2>2. /\ u2.job = t.job /\ u2.op = t.op /\ u2.result = t.result /\ u2.locked = t.locked
        /\ u2.pc = "saveJob" /\ u2.next = label
    BY DEF Task
  <2> HIDE DEF u2
  <2> QED BY <2>1, <2>2 DEF Continues, Heading
<1>2. CASE ~CanMove(t.mem.status, to)
  BY <1>2, LeaveContinues DEF Transition
<1> QED BY <1>1, <1>2

\* A task that goes on keeps what it takes for an execution.
LEMMA TasksGoOn ==
    ASSUME TInv, TasksReport, Lasting, NEW w \in Workers, NEW t, NEW label,
           Continues(w, t, label),
           t.result # NoOp => Reports(t.result, t.op, mutations'),
           label \in {"recordOperation", "recordKey"} => mutations'[t.op] > 0,
           label = "resume" => t.result = NoOp
    PROVE  TasksReport'
<1>1. \A v \in Workers : task[v].result \in Ops \union {NoOp}
  BY DEF TInv, TypeOK, Task
<1>2. ASSUME NEW v \in Workers, v # w
      PROVE  TaskReports(task'[v], mutations')
  <2>1. task'[v] = task[v] /\ TaskReports(task[v], mutations) /\ WellFormed(task[v])
    BY <1>2 DEF Continues, TasksReport, TInv
  <2>2. Heading(task[v]) \in {"recordOperation", "recordKey"} => task[v].op \in Ops
    BY <2>1 DEF WellFormed, OpLabels
  <2> QED BY <1>1, <2>1, <2>2, ReportsLast DEF TaskReports, Lasting
<1>3. TaskReports(task'[w], mutations')
  BY DEF Continues, TaskReports
<1> QED BY <1>2, <1>3 DEF TasksReport

LEMMA OthersReport ==
    ASSUME TInv, XInv, Lasting
    PROVE  /\ UNCHANGED registry => RegistryReports'
           /\ UNCHANGED receipts => ReceiptsReport'
           /\ UNCHANGED <<opRecords, keyRecords>> => HostReports'
<1>1. ASSUME UNCHANGED registry
      PROVE  RegistryReports'
  <2>1. \A k \in Keys : registry[k] # NoEntry =>
            registry[k].receipt \in Ops \union {NoOp}
    BY DEF TInv, TypeOK, Entry
  <2> QED BY <1>1, <2>1, ReportsLast DEF XInv, RegistryReports
<1>2. ASSUME UNCHANGED receipts
      PROVE  ReceiptsReport'
  <2>1. \A j \in Jobs, o \in Ops : receipts[j][o] \in Ops \union {NoOp}
    BY DEF TInv, TypeOK
  <2> QED BY <1>2, <2>1, ReportsLast DEF XInv, ReceiptsReport
<1>3. ASSUME UNCHANGED <<opRecords, keyRecords>>
      PROVE  HostReports'
  BY <1>3 DEF TInv, TypeOK, HostTypeOK, XInv, HostReports, Lasting
<1> QED BY <1>1, <1>2, <1>3

\* A step inside a call that writes no file but job.json and the journal.
LEMMA QuietStepReports ==
    ASSUME TInv, XInv, UNCHANGED <<registry, receipts>>, TasksReport',
           UNCHANGED hostVars \/ UNCHANGED <<mutations, opRecords, keyRecords>>
    PROVE  XInv'
<1>1. Lasting
  BY DEF Lasting, hostVars
<1> QED BY <1>1, OthersReport DEF XInv, hostVars

LEMMA PlainStepsReport ==
    ASSUME TInv, EInv, XInv, NEW w \in Workers,
           \/ Inspect(w) \/ Prepare(w) \/ CheckpointCreated(w) \/ MarkPrepared(w)
           \/ Cancel(w) \/ Recover(w) \/ Restore(w) \/ ApplyStarted(w)
           \/ Interrupted(w) \/ QueryAfterFailure(w) \/ StartVerifying(w)
           \/ VerifyFailed(w) \/ ReceiptRecorded(w) \/ VerifySucceeded(w)
           \/ Complete(w) \/ ResumeInFlight(w) \/ Recheck(w)
    PROVE  XInv'
<1>1. UNCHANGED <<restVars, fileVars, jobFile>>
  BY DEF Inspect, Prepare, CheckpointCreated, MarkPrepared, Cancel, Recover, Restore,
         ApplyStarted, Interrupted, QueryAfterFailure, StartVerifying, VerifyFailed,
         ReceiptRecorded, VerifySucceeded, Complete, ResumeInFlight, Recheck
<1>2. task[w] \in Task /\ WellFormed(task[w]) /\ TaskReports(task[w], mutations)
      /\ TasksReport
  BY DEF TInv, WellFormed, XInv, TasksReport
<1>3. Lasting /\ mutations' = mutations
  BY <1>1 DEF Lasting, restVars, hostVars
<1>4. SUFFICES TasksReport'
  BY <1>1, QuietStepReports DEF restVars, fileVars
<1>5. ASSUME NEW label, label \notin {"recordOperation", "recordKey", "resume"},
             Continues(w, task[w], label)
      PROVE  TasksReport'
  BY <1>2, <1>3, <1>5, TasksGoOn DEF TaskReports
<1>6. ASSUME Leave(w)
      PROVE  TasksReport'
  BY <1>5, <1>6, LeaveContinues
<1>7. ASSUME NEW to, NEW label, label \notin {"recordOperation", "recordKey", "resume"},
             Transition(w, task[w], to, label)
      PROVE  TasksReport'
  BY <1>2, <1>5, <1>7, TransitionContinues
<1>8. ASSUME NEW label, label \notin {"recordOperation", "recordKey", "resume", "saveJob"},
             Emit(w, task[w], label) \/ Goto(w, task[w], label)
      PROVE  TasksReport'
  BY <1>2, <1>5, <1>8, EmitContinues, GotoContinues
<1>11. CASE Inspect(w)
  BY <1>7, <1>11 DEF Inspect
<1>12. CASE Prepare(w)
  BY <1>7, <1>8, <1>12 DEF Prepare
<1>13. CASE CheckpointCreated(w)
  BY <1>8, <1>13 DEF CheckpointCreated
<1>14. CASE MarkPrepared(w)
  BY <1>7, <1>14 DEF MarkPrepared
<1>15. CASE Cancel(w)
  <2>1. \/ Leave(w)
        \/ Transition(w, task[w], CancelTarget(task[w].mem.status), "return")
    BY <1>15 DEF Cancel
  <2> QED BY <1>6, <1>7, <2>1
<1>16. CASE Recover(w)
  BY <1>6, <1>8, <1>16 DEF Recover
<1>17. CASE Restore(w)
  BY <1>6, <1>7, <1>17 DEF Restore
<1>18. CASE ApplyStarted(w)
  BY <1>7, <1>18 DEF ApplyStarted
<1>19. CASE Interrupted(w)
  BY <1>8, <1>19 DEF Interrupted
<1>20. CASE QueryAfterFailure(w)
  <2> DEFINE e == Executed(task[w].op)
             t == [task[w] EXCEPT !.result = e]
  <2>1. task[w].op \in Ops
    BY <1>2, <1>20 DEF QueryAfterFailure, At, WellFormed, Heading, OpLabels
  <2>2. ASSUME e # NoOp, Applied(w, e)
        PROVE  TasksReport'
    <3>1. e \in Ops /\ Reports(e, task[w].op, mutations)
      BY <2>1, <2>2, ExecutedReports
    <3>2. t \in Task /\ t.result = e /\ t.op = task[w].op
      BY <1>2, <3>1 DEF Task
    <3>3. Goto(w, t, "applied")
      BY <2>2 DEF Applied
    <3> HIDE DEF t, e
    <3>4. Continues(w, t, "applied")
      BY <3>2, <3>3, GotoContinues
    <3> QED BY <1>2, <1>3, <3>1, <3>2, <3>4, TasksGoOn
  <2> QED BY <1>7, <1>20, <2>2 DEF QueryAfterFailure
<1>21. CASE StartVerifying(w)
  BY <1>7, <1>21 DEF StartVerifying
<1>22. CASE VerifyFailed(w)
  BY <1>7, <1>22 DEF VerifyFailed
<1>23. CASE ReceiptRecorded(w)
  BY <1>8, <1>23 DEF ReceiptRecorded
<1>24. CASE VerifySucceeded(w)
  BY <1>8, <1>24 DEF VerifySucceeded
<1>25. CASE Complete(w)
  BY <1>7, <1>25 DEF Complete
<1>26. CASE ResumeInFlight(w)
  <2> DEFINE o == task[w].mem.op
             t == [task[w] EXCEPT !.op = o]
  <2>1. o \in Ops /\ task[w].job \in Jobs
    BY <1>2, <1>26 DEF ResumeInFlight, HasIntent, At, WellFormed, Task, JobRecord
  <2>2. task[w].result = NoOp
    BY <1>2, <1>26 DEF ResumeInFlight, At, TaskReports, Heading
  <2>3. t \in Task /\ t.op = o /\ t.job = task[w].job /\ t.result = NoOp
    BY <1>2, <2>1, <2>2 DEF Task
  <2>4. \A r \in Ops \union {NoOp} :
            LET u == [t EXCEPT !.result = r] IN
            u \in Task /\ u.op = o /\ u.result = r
    BY <2>3 DEF Task
  <2>5. /\ Receipt(t) # NoOp => Reports(Receipt(t), o, mutations)
        /\ Receipt(t) \in Ops \union {NoOp}
    BY <2>1, <2>3 DEF Receipt, XInv, ReceiptsReport, TInv, TypeOK
  <2>6. Executed(o) # NoOp => Executed(o) \in Ops /\ Reports(Executed(o), o, mutations)
    BY <2>1, ExecutedReports
  <2>7. \/ /\ Receipt(t) # NoOp
           /\ Transition(w, [t EXCEPT !.result = Receipt(t)], "verifying", "verifyJob")
        \/ /\ Executed(o) # NoOp
           /\ Transition(w, [t EXCEPT !.result = Executed(o)], "verifying", "verify")
        \/ Goto(w, t, "redispatch")
        \/ Transition(w, t, "recovery_required", "return")
    BY <1>26, <2>3 DEF ResumeInFlight
  <2> HIDE DEF t, o
  <2>8. ASSUME NEW u \in Task, NEW label \in {"verifyJob", "verify", "redispatch", "return"},
               u.op = o, u.result # NoOp => Reports(u.result, o, mutations),
               Goto(w, u, label) \/ \E to \in Statuses : Transition(w, u, to, label)
        PROVE  TasksReport'
    <3>1. Continues(w, u, label) \/ Continues(w, task[w], "return")
      BY <2>8, GotoContinues, TransitionContinues
    <3>2. CASE Continues(w, u, label)
      BY <1>2, <1>3, <2>8, <3>2, TasksGoOn
    <3>3. CASE Continues(w, task[w], "return")
      BY <1>5, <3>3
    <3> QED BY <3>1, <3>2, <3>3
  <2>9. "verifying" \in Statuses /\ "recovery_required" \in Statuses
    BY DEF Statuses
  <2>10. ASSUME NEW r \in Ops, Reports(r, o, mutations), NEW label \in {"verifyJob", "verify"},
                Transition(w, [t EXCEPT !.result = r], "verifying", label)
         PROVE  TasksReport'
    <3> DEFINE u == [t EXCEPT !.result = r]
    <3>1. u \in Task /\ u.op = o /\ u.result = r
      BY <2>4
    <3>2. Transition(w, u, "verifying", label)
      BY <2>10
    <3> HIDE DEF u
    <3> QED BY <2>8, <2>9, <2>10, <3>1, <3>2
  <2> QED BY <2>3, <2>5, <2>6, <2>7, <2>8, <2>9, <2>10
<1>27. CASE Recheck(w)
  BY <1>6, <1>7, <1>8, <1>27 DEF Recheck
<1> QED BY <1>11, <1>12, <1>13, <1>14, <1>15, <1>16, <1>17, <1>18, <1>19, <1>20, <1>21,
           <1>22, <1>23, <1>24, <1>25, <1>26, <1>27

\* The steps that write other files, take the lock or call the host.
LEMMA WritingStepsReport ==
    ASSUME TInv, EInv, CopiesCurrent, XInv, KeysOfOneJob, NEW w \in Workers,
           \/ CreateCheckpoint(w) \/ AcquireLock(w) \/ CheckIdempotency(w)
           \/ Preflight(w) \/ RegisterIntent(w) \/ Dispatch(w)
           \/ CheckRevision(w) \/ HostSavesDocument(w)
           \/ HostRecordsOperation(w) \/ HostRecordsKey(w) \/ Verify(w)
           \/ SaveReceipt(w) \/ RegisterReceipt(w) \/ VerifyAgain(w)
    PROVE  XInv'
<1>1. task[w] \in Task /\ WellFormed(task[w]) /\ TaskReports(task[w], mutations)
      /\ TasksReport /\ Evidence(task[w], manifests, verified, receipts)
  BY DEF TInv, WellFormed, XInv, TasksReport, EInv, TasksBacked
<1>2. /\ task[w].job \in Jobs
      /\ ~CreateCheckpoint(w) => task[w].op \in Ops /\ OpJob[task[w].op] = task[w].job
  <2>1. task[w].job \in Jobs /\ (~CreateCheckpoint(w) => task[w].op \in Ops)
    BY <1>1 DEF WellFormed, Heading, OpLabels, At, CreateCheckpoint, AcquireLock,
         CheckIdempotency, Preflight, RegisterIntent, Dispatch, CheckRevision,
         HostSavesDocument, HostRecordsOperation,
         HostRecordsKey, Verify, SaveReceipt, RegisterReceipt, VerifyAgain
  <2> QED BY <1>1, <2>1, HostAssumption DEF Evidence
<1>3. ASSUME Lasting, NEW t, NEW label, label \notin {"recordOperation", "recordKey", "resume"},
             t.op = task[w].op, t.result = task[w].result, Continues(w, t, label)
      PROVE  TasksReport'
  <2>1. t.result # NoOp => Reports(t.result, t.op, mutations')
    BY <1>1, <1>3, ReportsLast DEF TaskReports, Task
  <2> QED BY <1>1, <1>3, <2>1, TasksGoOn
<1>4. ASSUME Lasting, Leave(w)
      PROVE  TasksReport'
  BY <1>3, <1>4, LeaveContinues
<1>5. ASSUME Lasting, NEW t \in Task, t.op = task[w].op, t.result = task[w].result, NEW label,
             label \notin {"recordOperation", "recordKey", "resume", "saveJob"},
             Goto(w, t, label) \/ Emit(w, t, label)
      PROVE  TasksReport'
  BY <1>3, <1>5, GotoContinues, EmitContinues
<1>6. UNCHANGED mutations => Lasting
  BY DEF Lasting
<1>7. CASE CreateCheckpoint(w)
  <2>1. UNCHANGED <<hostVars, registry, receipts>> /\ Lasting
    BY <1>6, <1>7 DEF CreateCheckpoint, restVars, hostVars
  <2> DEFINE t == [task[w] EXCEPT !.mem.checkpoint = TRUE]
  <2>2. t \in Task /\ t.op = task[w].op /\ t.result = task[w].result
    BY <1>1 DEF Task, JobRecord
  <2>3. ASSUME Goto(w, t, "checkpointCreated")
        PROVE  TasksReport'
    <3> HIDE DEF t
    <3> QED BY <1>5, <2>1, <2>2, <2>3
  <2>4. TasksReport'
    BY <1>4, <1>7, <2>1, <2>3 DEF CreateCheckpoint
  <2> QED BY <2>1, <2>4, QuietStepReports
<1>8. CASE AcquireLock(w)
  <2>1. UNCHANGED <<hostVars, registry, receipts>> /\ Lasting
    BY <1>6, <1>8 DEF AcquireLock, storeVars, fileVars, hostVars
  <2>2. LET t == [task[w] EXCEPT !.locked = TRUE] IN
        t \in Task /\ t.op = task[w].op /\ t.result = task[w].result
    BY <1>1 DEF Task
  <2>3. \/ Leave(w)
        \/ \E label \in {"checkIdempotency", "recheck"} :
              Goto(w, [task[w] EXCEPT !.locked = TRUE], label)
    BY <1>8 DEF AcquireLock
  <2>4. TasksReport'
    BY <1>4, <1>5, <2>1, <2>2, <2>3
  <2> QED BY <2>1, <2>4, QuietStepReports
<1>9. CASE CheckIdempotency(w)
  <2> DEFINE e == registry[OpKey[task[w].op]]
             t == [task[w] EXCEPT !.result = e.receipt]
  <2>1. UNCHANGED <<hostVars, registry>> /\ Lasting /\ task[w].op \in Ops
        /\ OpJob[task[w].op] = task[w].job
    BY <1>2, <1>6, <1>9 DEF CheckIdempotency, CreateCheckpoint, At, restVars, hostVars
  <2>2. CASE UNCHANGED receipts /\ (Leave(w) \/ Goto(w, task[w], "preflight"))
    <3>1. TasksReport'
      BY <1>1, <1>4, <1>5, <2>1, <2>2
    <3> QED BY <2>1, <2>2, <3>1, QuietStepReports
  <2>3. ASSUME AlreadyExecuted(task[w].op), SaveReceiptOf(task[w].job, e.op, e.receipt),
               NEW label \in {"return", "verifyJob"}, Goto(w, t, label)
        PROVE  XInv'
    <3>1. OpKey[task[w].op] \in Keys /\ e # NoEntry /\ e.receipt # NoOp
      BY <2>1, <2>3, HostAssumption DEF AlreadyExecuted
    <3>2. e \in Entry
      BY <3>1 DEF TInv, TypeOK
    <3>3. e.op \in Ops /\ e.receipt \in Ops
      BY <3>1, <3>2 DEF Entry
    <3>4. OpKey[e.op] = OpKey[task[w].op] /\ Reports(e.receipt, e.op, mutations)
      BY <3>1 DEF XInv, RegistryReports
    <3>5. OpJob[e.op] = task[w].job /\ Reports(e.receipt, task[w].op, mutations)
      BY <2>1, <3>3, <3>4 DEF KeysOfOneJob, Reports
    <3>6. ReceiptsReport'
      <4>1. mutations' = mutations
        BY <2>1 DEF hostVars
      <4> HIDE DEF e
      <4>2. \A j \in Jobs, o \in Ops :
                \/ receipts'[j][o] = receipts[j][o]
                \/ j = task[w].job /\ o = e.op /\ receipts'[j][o] = e.receipt
        BY <1>2, <2>3, <3>3 DEF SaveReceiptOf, TInv, TypeOK
      <4> QED BY <3>4, <3>5, <4>1, <4>2 DEF XInv, ReceiptsReport
    <3>7. t \in Task /\ t.op = task[w].op /\ t.result = e.receipt
      BY <1>1, <3>3 DEF Task
    <3> HIDE DEF t, e
    <3>8. Continues(w, t, label)
      BY <2>3, <3>7, GotoContinues
    <3>9. TasksReport'
      BY <1>1, <2>1, <3>3, <3>5, <3>7, <3>8, TasksGoOn, ReportsLast
    <3> QED BY <2>1, <3>6, <3>9, OthersReport DEF XInv, hostVars
  <2> QED BY <1>9, <2>2, <2>3 DEF CheckIdempotency
<1>10. CASE Preflight(w)
  <2>1. UNCHANGED <<hostVars, registry, receipts>> /\ Lasting
    BY <1>6, <1>10 DEF Preflight, restVars, hostVars
  <2>2. task[w].op \in Ops
    BY <1>2, <1>10 DEF Preflight, CreateCheckpoint, At
  <2> DEFINE t == [task[w] EXCEPT !.mem.op = task[w].op]
  <2>3. t \in Task /\ t.op = task[w].op /\ t.result = task[w].result
    BY <1>1, <2>2 DEF Task, JobRecord
  <2>4. ASSUME Goto(w, t, "applyStarted")
        PROVE  TasksReport'
    <3> HIDE DEF t
    <3> QED BY <1>5, <2>1, <2>3, <2>4
  <2>5. TasksReport'
    BY <1>4, <1>10, <2>1, <2>4 DEF Preflight
  <2> QED BY <2>1, <2>5, QuietStepReports
<1>11. CASE RegisterIntent(w)
  <2> DEFINE o == task[w].op
  <2>1. UNCHANGED <<hostVars, receipts>> /\ Lasting /\ o \in Ops
    BY <1>2, <1>6, <1>11 DEF RegisterIntent, CreateCheckpoint, At, restVars, hostVars
  <2>2. TasksReport'
    BY <1>1, <1>4, <1>5, <1>11, <2>1 DEF RegisterIntent
  <2>3. \/ UNCHANGED registry
        \/ registry' = [registry EXCEPT ![OpKey[o]] =
                           IF @ = NoEntry THEN [op |-> o, receipt |-> NoOp] ELSE @]
    BY <1>11 DEF RegisterIntent
  <2>4. \A k \in Keys :
            \/ registry'[k] = registry[k]
            \/ k = OpKey[o] /\ registry'[k] = [op |-> o, receipt |-> NoOp]
    BY <2>3 DEF TInv, TypeOK
  <2>5. RegistryReports'
    BY <2>1, <2>4 DEF XInv, RegistryReports, hostVars
  <2> QED BY <2>1, <2>2, <2>5, OthersReport DEF XInv, hostVars
<1>a. ASSUME HostFailed(w), UNCHANGED <<hostVars, registry, receipts>>
      PROVE  XInv'
  <2>1. Lasting
    BY <1>6, <1>a DEF hostVars
  <2>2. TasksReport'
    BY <1>1, <1>5, <1>a, <2>1 DEF HostFailed
  <2> QED BY <1>a, <2>2, QuietStepReports
<1>12. CASE Dispatch(w)
  <2> DEFINE o == task[w].op
  <2>1. UNCHANGED <<hostVars, registry, receipts>> /\ o \in Ops /\ Lasting
    BY <1>2, <1>6, <1>12
       DEF Dispatch, CreateCheckpoint, At, restVars, storeVars, fileVars, hostVars
  <2>2. CASE Goto(w, task[w], "checkRevision")
    <3>1. TasksReport'
      BY <1>1, <1>5, <2>1, <2>2
    <3> QED BY <2>1, <3>1, QuietStepReports
  <2>3. CASE Cached(o) # NoOp /\ Applied(w, Cached(o))
    <3> DEFINE t == [task[w] EXCEPT !.result = Cached(o)]
    <3>1. Cached(o) \in Ops /\ Reports(Cached(o), o, mutations)
      BY <2>1, <2>3, HostAssumption
         DEF Cached, XInv, HostReports, Reports, TInv, TypeOK, HostTypeOK
    <3>2. t \in Task /\ t.op = o /\ t.result = Cached(o) /\ Goto(w, t, "applied")
      BY <1>1, <2>3, <3>1 DEF Task, Applied
    <3> HIDE DEF t
    <3>3. TasksReport'
      BY <1>1, <2>1, <3>1, <3>2, GotoContinues, TasksGoOn, ReportsLast
    <3> QED BY <2>1, <3>3, QuietStepReports
  <2> QED BY <1>12, <1>a, <2>1, <2>2, <2>3 DEF Dispatch
<1>b. CASE CheckRevision(w)
  <2>1. UNCHANGED <<registry, receipts>>
    BY <1>b DEF CheckRevision, storeVars, fileVars
  <2>2. CASE ReadDocument(w, task[w].op) /\ Goto(w, task[w], "saveDocument")
    <3>1. UNCHANGED <<mutations, opRecords, keyRecords>> /\ Lasting
      BY <1>6, <2>2 DEF ReadDocument
    <3>2. TasksReport'
      BY <1>1, <1>5, <2>2, <3>1
    <3> QED BY <2>1, <3>1, <3>2, QuietStepReports
  <2> QED BY <1>a, <1>b, <2>1, <2>2 DEF CheckRevision
<1>c. CASE HostSavesDocument(w)
  <2> DEFINE o == task[w].op
  <2>1. /\ mutations \in [Ops -> Nat] /\ mutations' = [mutations EXCEPT ![o] = mutations[o] + 1]
        /\ o \in Ops /\ UNCHANGED <<opRecords, keyRecords>>
    BY <1>c, SavesInPlace
  <2>2. UNCHANGED <<registry, receipts>> /\ Goto(w, task[w], "recordOperation")
    BY <1>c DEF HostSavesDocument, storeVars, fileVars
  <2> HIDE DEF o
  <2>3. Lasting /\ mutations'[o] > 0
    BY <2>1 DEF Lasting
  <2>4. Continues(w, task[w], "recordOperation")
    BY <1>1, <2>2, GotoContinues
  <2>5. task[w].result # NoOp => Reports(task[w].result, o, mutations')
    BY <1>1, <2>3, ReportsLast DEF TaskReports, Task, o
  <2>6. TasksReport'
    BY <1>1, <2>3, <2>4, <2>5, TasksGoOn DEF o
  <2> QED BY <2>1, <2>2, <2>3, <2>6, OthersReport DEF XInv
<1>13. CASE HostRecordsOperation(w)
  <2> DEFINE o == task[w].op
  <2>1. /\ UNCHANGED <<registry, receipts, mutations, keyRecords>> /\ Lasting /\ o \in Ops
        /\ opRecords' = opRecords \union {o} /\ mutations[o] > 0
        /\ Continues(w, task[w], "recordKey")
    BY <1>1, <1>2, <1>6, <1>13, GotoContinues
       DEF HostRecordsOperation, RecordOperation, CreateCheckpoint, At, storeVars, fileVars,
           TaskReports, Heading
  <2>2. HostReports'
    BY <2>1 DEF XInv, HostReports
  <2>3. TasksReport'
    BY <1>1, <2>1, TasksGoOn DEF TaskReports
  <2> QED BY <2>1, <2>2, <2>3, OthersReport DEF XInv
<1>14. CASE HostRecordsKey(w)
  <2> DEFINE o == task[w].op
             t == [task[w] EXCEPT !.result = o]
  <2>1. /\ UNCHANGED <<registry, receipts, mutations, opRecords>> /\ Lasting /\ o \in Ops
        /\ keyRecords' = [keyRecords EXCEPT ![OpKey[o]] = o] /\ mutations[o] > 0
        /\ Goto(w, t, "applied") \/ HostFailed(w)
    BY <1>1, <1>2, <1>6, <1>14
       DEF HostRecordsKey, RecordKey, CreateCheckpoint, At, storeVars, fileVars, Applied,
           TaskReports, Heading
  <2>2. HostReports'
    BY <2>1 DEF XInv, HostReports, TInv, TypeOK, HostTypeOK
  <2>3. t \in Task /\ t.op = o /\ t.result = o
    BY <1>1, <2>1 DEF Task
  <2>4. ASSUME Goto(w, t, "applied")
        PROVE  TasksReport'
    <3> HIDE DEF t
    <3>1. Reports(o, o, mutations')
      BY <2>1 DEF Reports
    <3> QED BY <1>1, <2>1, <2>3, <2>4, <3>1, GotoContinues, TasksGoOn
  <2>5. ASSUME HostFailed(w)
        PROVE  TasksReport'
    BY <1>1, <1>5, <2>1, <2>5 DEF HostFailed
  <2> QED BY <2>1, <2>2, <2>4, <2>5, OthersReport DEF XInv
<1>15. CASE Verify(w) \/ VerifyAgain(w)
  <2>1. UNCHANGED <<hostVars, registry, receipts>> /\ Lasting
    BY <1>6, <1>15 DEF Verify, VerifyAgain, fileVars, hostVars
  <2>2. TasksReport'
    BY <1>1, <1>5, <1>15, <2>1 DEF Verify, VerifyAgain
  <2> QED BY <2>1, <2>2, QuietStepReports
<1>16. CASE SaveReceipt(w)
  <2> DEFINE o == task[w].op
             r == task[w].result
  <2>1. /\ UNCHANGED <<hostVars, registry>> /\ Lasting /\ o \in Ops
        /\ OpJob[o] = task[w].job
        /\ SaveReceiptOf(task[w].job, o, r)
        /\ Goto(w, task[w], "registerReceipt")
    BY <1>2, <1>6, <1>16 DEF SaveReceipt, CreateCheckpoint, At, restVars, hostVars
  <2>2. TasksReport'
    BY <1>1, <1>5, <2>1
  <2>3. \A j \in Jobs, p \in Ops :
            \/ receipts'[j][p] = receipts[j][p]
            \/ j = task[w].job /\ p = o /\ receipts'[j][p] = r
    BY <1>2, <2>1 DEF SaveReceiptOf, TInv, TypeOK
  <2>4. r # NoOp => Reports(r, o, mutations)
    BY <1>1 DEF TaskReports
  <2>5. ReceiptsReport'
    BY <2>1, <2>3, <2>4 DEF XInv, ReceiptsReport, hostVars
  <2> QED BY <2>1, <2>2, <2>5, OthersReport DEF XInv, hostVars
<1>17. CASE RegisterReceipt(w)
  <2> DEFINE o == task[w].op
             r == task[w].result
  <2>1. UNCHANGED <<hostVars, receipts>> /\ Lasting /\ o \in Ops
    BY <1>2, <1>6, <1>17 DEF RegisterReceipt, CreateCheckpoint, At, restVars, hostVars
  <2>2. TasksReport'
    BY <1>1, <1>4, <1>5, <1>17, <2>1 DEF RegisterReceipt
  <2>3. \/ UNCHANGED registry
        \/ registry' = [registry EXCEPT ![OpKey[o]] = [op |-> o, receipt |-> r]]
    BY <1>17 DEF RegisterReceipt
  <2>4. \A k \in Keys :
            \/ registry'[k] = registry[k]
            \/ k = OpKey[o] /\ registry'[k] = [op |-> o, receipt |-> r]
    BY <2>3 DEF TInv, TypeOK
  <2>5. r # NoOp => Reports(r, o, mutations)
    BY <1>1 DEF TaskReports
  <2>6. RegistryReports'
    BY <2>1, <2>4, <2>5 DEF XInv, RegistryReports, hostVars
  <2> QED BY <2>1, <2>2, <2>6, OthersReport DEF XInv, hostVars
<1> QED BY <1>7, <1>8, <1>9, <1>10, <1>11, <1>12, <1>b, <1>c, <1>13, <1>14, <1>15, <1>16, <1>17

\* The remaining steps: those about job.json, the callers' and the scan's.
LEMMA OtherStepsReport ==
    ASSUME TInv, EInv, XInv, KeysOfOneJob, NEW w \in Workers,
           \/ SaveJob(w) \/ Return(w) \/ VerifyJob(w)
           \/ ResumeVerifying(w) \/ ResumeNothing(w)
           \/ \E j \in Jobs : CreateJob(w, j)
           \/ \E call \in Calls, j \in Jobs, o \in Ops \union {NoOp} : Call(w, call, j, o)
           \/ StartScan(w) \/ Crash(w)
           \/ \E j \in Jobs : ScanJob(w, j)
           \/ EndScan(w)
    PROVE  XInv'
<1>1. UNCHANGED <<mutations, opRecords, keyRecords, registry, receipts>>
  BY DEF SaveJob, Return, VerifyJob, ResumeVerifying, ResumeNothing, CreateJob, Call,
         StartScan, Crash, Forget, ScanJob, EndScan, restVars, hostVars, storeVars, fileVars
<1>2. task[w] \in Task /\ WellFormed(task[w]) /\ TaskReports(task[w], mutations)
      /\ TasksReport
  BY DEF TInv, WellFormed, XInv, TasksReport
<1>3. Lasting /\ mutations' = mutations
  BY <1>1 DEF Lasting, hostVars
<1>4. SUFFICES TasksReport'
  BY <1>1, QuietStepReports
<1>5. ASSUME NEW t, NEW label,
             label \in {"recordOperation", "recordKey"} => mutations[t.op] > 0,
             t.result # NoOp => Reports(t.result, t.op, mutations),
             label = "resume" => t.result = NoOp,
             Continues(w, t, label)
      PROVE  TasksReport'
  BY <1>2, <1>3, <1>5, TasksGoOn
<1>6. ASSUME Leave(w)
      PROVE  TasksReport'
  BY <1>2, <1>5, <1>6, LeaveContinues DEF TaskReports
<1>7. ASSUME NEW t, t.result = NoOp, NEW label,
             label \notin {"recordOperation", "recordKey"},
             Continues(w, t, label)
      PROVE  TasksReport'
  BY <1>5, <1>7
<1>8. CASE SaveJob(w)
  <2> DEFINE t == [task[w] EXCEPT !.next = "idle"]
             u == [t EXCEPT !.pc = task[w].next]
  <2>1. task[w].pc = "saveJob" /\ Goto(w, t, task[w].next)
    BY <1>8 DEF SaveJob, At
  <2>2. \A v \in Workers : task'[v] = IF v = w THEN u ELSE task[v]
    BY <2>1 DEF Goto, TInv, TypeOK
  <2>3. /\ u.op = task[w].op /\ u.result = task[w].result /\ u.job = task[w].job
        /\ u.pc = task[w].next /\ u.next = "idle"
    BY <1>2 DEF Task
  <2> HIDE DEF u, t
  <2>4. Heading(u) \in {Heading(task[w]), "idle"}
    BY <2>1, <2>3 DEF Heading
  <2>5. Continues(w, u, Heading(u))
    BY <2>2 DEF Continues
  <2> QED BY <1>2, <1>5, <2>3, <2>4, <2>5 DEF TaskReports
<1>9. CASE Return(w) \/ Crash(w)
  <2>1. task' = [task EXCEPT ![w] = Idle] /\ task \in [Workers -> Task]
    BY <1>9 DEF Return, Crash, TInv, TypeOK
  <2>2. Idle.pc = "idle" /\ Idle.result = NoOp
    BY DEF Idle
  <2>3. Idle \in Task
    BY IdleWellFormed DEF WellFormed
  <2>4. Continues(w, Idle, "idle")
    BY <2>1, <2>2 DEF Continues, Heading
  <2> QED BY <1>7, <2>2, <2>3, <2>4
<1>10. CASE VerifyJob(w)
  <2>1. ASSUME Goto(w, [task[w] EXCEPT !.mem = jobFile[task[w].job]], "verifyAgain"),
               jobFile[task[w].job] # NoJob
        PROVE  TasksReport'
    <3> DEFINE t == [task[w] EXCEPT !.mem = jobFile[task[w].job]]
    <3>1. task[w].job \in Jobs
      BY <1>2, <1>10 DEF VerifyJob, At, WellFormed
    <3>2. jobFile[task[w].job] \in JobRecord
      BY <2>1, <3>1 DEF TInv, TypeOK
    <3>3. t \in Task /\ t.op = task[w].op /\ t.result = task[w].result
      BY <1>2, <3>2 DEF Task
    <3>4. Goto(w, t, "verifyAgain")
      BY <2>1
    <3> HIDE DEF t
    <3> QED BY <1>2, <1>5, <3>3, <3>4, GotoContinues DEF TaskReports
  <2> QED BY <1>6, <1>10, <2>1 DEF VerifyJob, CanLoad
<1>11. CASE ResumeVerifying(w)
  <2> DEFINE o == task[w].mem.op
             r == Receipt(task[w])
             t == [task[w] EXCEPT !.op = o, !.result = r]
  <2>1. o \in Ops /\ task[w].job \in Jobs /\ r # NoOp /\ Goto(w, t, "verifyJob")
    BY <1>2, <1>11 DEF ResumeVerifying, HasIntent, At, WellFormed, Task, JobRecord
  <2>2. r \in Ops /\ Reports(r, o, mutations)
    BY <2>1 DEF Receipt, XInv, ReceiptsReport, TInv, TypeOK
  <2>3. t \in Task /\ t.op = o /\ t.result = r
    BY <1>2, <2>1, <2>2 DEF Task
  <2> HIDE DEF t, o, r
  <2> QED BY <1>5, <2>1, <2>2, <2>3, GotoContinues
<1>12. CASE ResumeNothing(w) \/ EndScan(w)
  BY <1>6, <1>12 DEF ResumeNothing, EndScan
<1>13. ASSUME NEW j \in Jobs, CreateJob(w, j)
       PROVE  TasksReport'
  <2> DEFINE t == [Idle EXCEPT !.call = "create", !.job = j, !.next = "return",
                               !.mem.seq = 0]
             u == [t EXCEPT !.pc = "saveJob"]
  <2>1. \A v \in Workers : task'[v] = IF v = w THEN u ELSE task[v]
    BY <1>13 DEF CreateJob, Goto, TInv, TypeOK
  <2>2. u.result = NoOp /\ u.op = NoOp /\ u.job = j /\ Heading(u) = "return"
    BY DEF Idle, Heading
  <2> HIDE DEF u
  <2>3. Continues(w, u, "return")
    BY <2>1, <2>2 DEF Continues
  <2> QED BY <1>7, <2>2, <2>3
<1>14. ASSUME NEW call \in Calls, NEW j \in Jobs, NEW o \in Ops \union {NoOp}, Call(w, call, j, o)
       PROVE  TasksReport'
  <2> DEFINE t == [Idle EXCEPT !.call = call, !.job = j, !.mem = jobFile[j], !.op = o]
             u == [t EXCEPT !.pc = call]
  <2>1. \A v \in Workers : task'[v] = IF v = w THEN u ELSE task[v]
    BY <1>14 DEF Call, Goto, TInv, TypeOK
  <2>2. call \notin {"recordOperation", "recordKey", "saveJob"}
    BY JobAssumption
  <2>3. u.result = NoOp /\ u.op = o /\ u.job = j /\ u.pc = call
    BY DEF Idle
  <2> HIDE DEF u
  <2>4. Continues(w, u, call)
    BY <2>1, <2>2, <2>3 DEF Continues, Heading
  <2> QED BY <1>7, <2>2, <2>3, <2>4
<1>15. CASE StartScan(w)
  <2> DEFINE t == [Idle EXCEPT !.call = "scan"]
  <2>1. Goto(w, t, "scan") /\ t.result = NoOp
    BY <1>15 DEF StartScan, Idle
  <2>2. t \in Task
    <3>1. Idle \in Task /\ "scan" \in Labels
      BY IdleWellFormed DEF WellFormed, Labels
    <3> QED BY <3>1 DEF Task
  <2> HIDE DEF t
  <2> QED BY <1>7, <2>1, <2>2, GotoContinues
<1>16. ASSUME NEW j \in Jobs, ScanJob(w, j)
       PROVE  TasksReport'
  <2> DEFINE t == [task[w] EXCEPT !.job = j, !.next = "classify"]
  <2>1. ASSUME NEW m, NEW label \in {"saveJob", "classify"}, Goto(w, [t EXCEPT !.mem = m], label)
        PROVE  TasksReport'
    <3> DEFINE u == [[t EXCEPT !.mem = m] EXCEPT !.pc = label]
    <3>1. \A v \in Workers : task'[v] = IF v = w THEN u ELSE task[v]
      BY <2>1 DEF Goto, TInv, TypeOK
    <3>2. /\ u.op = task[w].op /\ u.result = task[w].result /\ u.job = j
          /\ u.next = "classify" /\ u.pc = label
      BY <1>2 DEF Task
    <3> HIDE DEF u
    <3>3. Continues(w, u, "classify")
      BY <2>1, <3>1, <3>2 DEF Continues, Heading
    <3> QED BY <1>2, <1>5, <3>2, <3>3 DEF TaskReports
  <2>2. \/ UNCHANGED task
        \/ Leave(w)
        \/ \E m : \E label \in {"saveJob", "classify"} : Goto(w, [t EXCEPT !.mem = m], label)
    BY <1>16 DEF ScanJob
  <2> HIDE DEF t
  <2> QED BY <1>2, <1>3, <1>6, <2>1, <2>2 DEF TasksReport
<1> QED BY <1>8, <1>9, <1>10, <1>11, <1>12, <1>13, <1>14, <1>15, <1>16

LEMMA ClassifyReports ==
    ASSUME TInv, EInv, XInv, KeysOfOneJob, NEW w \in Workers, Classify(w)
    PROVE  XInv'
<1> DEFINE t == [Idle EXCEPT !.call = "scan"]
           e == Executed(task[w].mem.op)
<1>1. UNCHANGED <<hostVars, registry>> /\ Goto(w, t, "scan")
  BY DEF Classify, restVars
<1>2. Lasting /\ mutations' = mutations
  BY <1>1 DEF Lasting, hostVars
<1>3. TasksReport'
  <2>1. t \in Task /\ t.result = NoOp
    <3>1. Idle \in Task /\ "scan" \in Labels /\ Idle.result = NoOp
      BY IdleWellFormed DEF WellFormed, Labels, Idle
    <3> QED BY <3>1 DEF Task
  <2> HIDE DEF t
  <2> QED BY <1>1, <1>2, <2>1, GotoContinues, TasksGoOn DEF XInv
<1>4. CASE UNCHANGED receipts
  BY <1>1, <1>3, <1>4, QuietStepReports
<1>5. CASE /\ task[w].mem.op # NoOp /\ e # NoOp
           /\ SaveReceiptOf(task[w].job, e, e)
  <2>1. /\ task[w] \in Task /\ WellFormed(task[w]) /\ task[w].pc = "classify"
        /\ Evidence(task[w], manifests, verified, receipts)
    BY DEF TInv, WellFormed, EInv, TasksBacked, Classify, At
  <2>2. task[w].job \in Jobs /\ task[w].mem.op \in Ops /\ OpJob[task[w].mem.op] = task[w].job
    BY <1>5, <2>1 DEF WellFormed, Task, JobRecord, Evidence, Backed
  <2>3. e \in Ops /\ Reports(e, task[w].mem.op, mutations)
    BY <1>5, <2>2, ExecutedReports
  <2>4. OpJob[e] = task[w].job /\ Reports(e, e, mutations)
    BY <2>2, <2>3 DEF KeysOfOneJob, Reports
  <2> HIDE DEF e
  <2>5. \A j \in Jobs, o \in Ops :
            \/ receipts'[j][o] = receipts[j][o]
            \/ j = task[w].job /\ o = e /\ receipts'[j][o] = e
    BY <1>5, <2>2, <2>3 DEF SaveReceiptOf, TInv, TypeOK
  <2>6. ReceiptsReport'
    BY <1>2, <2>4, <2>5 DEF XInv, ReceiptsReport
  <2> QED BY <1>1, <1>2, <1>3, <2>6, OthersReport DEF XInv, hostVars
<1> QED BY <1>4, <1>5 DEF Classify

LEMMA XInit == Init => XInv
BY HostAssumption
   DEF Init, HostInit, XInv, HostReports, RegistryReports, ReceiptsReport, TasksReport,
       TaskReports, Idle, Heading

LEMMA XNext ==
    ASSUME KeysOfOneJob
    PROVE  TInv /\ EInv /\ CopiesCurrent /\ XInv /\ [Next]_vars => XInv'
<1> SUFFICES ASSUME TInv, EInv, CopiesCurrent, XInv, [Next]_vars PROVE XInv'
  OBVIOUS
<1>1. CASE UNCHANGED vars
  BY <1>1 DEF XInv, HostReports, RegistryReports, ReceiptsReport, TasksReport,
              vars, hostVars, storeVars, fileVars
<1>2. ASSUME NEW w \in Workers, Step(w)
      PROVE  XInv'
  BY <1>2, PlainStepsReport, WritingStepsReport, OtherStepsReport, ClassifyReports DEF Step
<1>3. ASSUME NEW w \in Workers,
             \/ \E j \in Jobs : CreateJob(w, j)
             \/ \E call \in Calls, j \in Jobs, o \in Ops \union {NoOp} : Call(w, call, j, o)
             \/ StartScan(w)
             \/ Crash(w)
      PROVE  XInv'
  BY <1>3, OtherStepsReport
<1> QED BY <1>1, <1>2, <1>3 DEF Next

-----------------------------------------------------------------------------
(***************************************************************************)
(* The lock.  Every way out of a call that acquired it passes the finally  *)
(* clause, and a call that has not acquired it leaves it alone.            *)
(***************************************************************************)

\* A process between calls, or scanning, holds no lock.  (No save of job.json
\* leads to another, so nothing heads for "saveJob".)
FreeLabels == {"idle", "scan", "classify", "saveJob"}

LInv == /\ LockHasHolder
        /\ \A w \in Workers : Heading(task[w]) \in FreeLabels => ~task[w].locked

\* A call that goes on keeps what it holds.
LEMMA HolderKept ==
    ASSUME TInv, LInv, NEW w \in Workers, NEW t \in Task, NEW label,
           label \notin FreeLabels,
           t.job = task[w].job, t.locked = task[w].locked, UNCHANGED lock,
           \/ Goto(w, t, label)
           \/ Emit(w, t, label)
           \/ \E to : Transition(w, t, to, label)
    PROVE  LInv'
<1>1. task[w] \in Task /\ lock \in LockRecord \union {NoLock}
  BY DEF TInv, TypeOK
<1>2. PICK u \in Task :
          /\ u.job = task[w].job /\ u.locked = task[w].locked
          /\ \E l : Continues(w, u, l) /\ l \notin FreeLabels
  <2>1. Continues(w, t, label) \/ Continues(w, task[w], "return")
    BY GotoContinues, EmitContinues, TransitionContinues DEF FreeLabels
  <2>2. "return" \notin FreeLabels
    BY DEF FreeLabels
  <2> QED BY <1>1, <2>1, <2>2
<1> QED BY <1>1, <1>2 DEF LInv, LockHasHolder, Continues, LockRecord

\* So does one that ends, having released the lock, and one that has none.
LEMMA HolderGone ==
    ASSUME TInv, LInv, NEW w \in Workers, NEW u \in Task, task' = [task EXCEPT ![w] = u],
           ~u.locked, lock' \in {lock, NoLock},
           \/ ~task[w].locked
           \/ lock' = NoLock
           \/ lock.job # task[w].job
    PROVE  LInv'
BY DEF TInv, TypeOK, LInv, LockHasHolder, LockRecord

LEMMA LInit == Init => LInv
BY DEF Init, Idle, LInv, LockHasHolder, Heading

\* The steps of a call that go on with its own record.
LEMMA OwnRecordKeepsHolder ==
    ASSUME TInv, LInv, NEW w \in Workers,
           \/ Inspect(w) \/ Prepare(w) \/ CheckpointCreated(w) \/ MarkPrepared(w)
           \/ Cancel(w) \/ Recover(w) \/ Restore(w) \/ ApplyStarted(w)
           \/ RegisterIntent(w) \/ CheckRevision(w) \/ HostSavesDocument(w)
           \/ HostRecordsOperation(w) \/ Interrupted(w) \/ StartVerifying(w)
           \/ Verify(w) \/ VerifyFailed(w) \/ SaveReceipt(w) \/ RegisterReceipt(w)
           \/ ReceiptRecorded(w) \/ VerifySucceeded(w) \/ Complete(w) \/ VerifyAgain(w)
           \/ Recheck(w) \/ ResumeNothing(w) \/ EndScan(w)
    PROVE  LInv'
<1> DEFINE t == task[w]
           after == {"return", "createCheckpoint", "markPrepared", "restore",
                     "registerIntent", "dispatch", "saveDocument", "interrupted",
                     "recordOperation", "recordKey", "queryAfterFailure", "verify",
                     "saveReceipt", "verifyFailed", "registerReceipt", "receiptRecorded",
                     "verifySucceeded", "complete"}
<1>1. UNCHANGED lock
  BY DEF Inspect, Prepare, CheckpointCreated, MarkPrepared, Cancel, Recover, Restore,
         ApplyStarted, RegisterIntent, CheckRevision, HostSavesDocument,
         HostRecordsOperation, Interrupted, StartVerifying, Verify, VerifyFailed,
         SaveReceipt, RegisterReceipt, ReceiptRecorded, VerifySucceeded, Complete,
         VerifyAgain, Recheck, ResumeNothing, EndScan, restVars
<1>2. t \in Task /\ after \intersect (FreeLabels) = {}
  BY DEF TInv, TypeOK, FreeLabels
<1>3. \E label \in after : \/ Goto(w, t, label)
                           \/ Emit(w, t, label)
                           \/ \E to : Transition(w, t, to, label)
  BY DEF Inspect, Prepare, CheckpointCreated, MarkPrepared, Cancel, Recover, Restore,
         ApplyStarted, RegisterIntent, CheckRevision, HostSavesDocument,
         HostRecordsOperation, Interrupted, StartVerifying, Verify, VerifyFailed,
         SaveReceipt, RegisterReceipt, ReceiptRecorded, VerifySucceeded, Complete,
         VerifyAgain, Recheck, ResumeNothing, EndScan, Leave, HostFailed
<1> HIDE DEF t, after
<1> QED BY <1>1, <1>2, <1>3, HolderKept DEF t

\* The steps that put something into it.
LEMMA NewRecordKeepsHolder ==
    ASSUME TInv, LInv, NEW w \in Workers,
           \/ CreateCheckpoint(w) \/ CheckIdempotency(w) \/ Preflight(w) \/ Dispatch(w)
           \/ HostRecordsKey(w) \/ QueryAfterFailure(w) \/ VerifyJob(w)
           \/ ResumeInFlight(w) \/ ResumeVerifying(w)
    PROVE  LInv'
<1>1. UNCHANGED lock
  BY DEF CreateCheckpoint, CheckIdempotency, Preflight, Dispatch, HostRecordsKey,
         QueryAfterFailure, VerifyJob, ResumeInFlight, ResumeVerifying, restVars
<1>2. task[w] \in Task /\ WellFormed(task[w])
  BY DEF TInv, TypeOK
<1> DEFINE after == {"return", "checkpointCreated", "verifyJob", "preflight",
                     "applyStarted", "checkRevision", "interrupted", "applied",
                     "verifyAgain", "verify", "redispatch"}
           results == Ops \union {NoOp}
<1>3. after \intersect (FreeLabels) = {}
  BY DEF FreeLabels
<1>4. ASSUME NEW t \in Task, t.job = task[w].job, t.locked = task[w].locked,
             NEW label \in after,
             \/ Goto(w, t, label)
             \/ Emit(w, t, label)
             \/ \E to : Transition(w, t, to, label)
      PROVE  LInv'
  <2> HIDE DEF after
  <2> QED BY <1>1, <1>3, <1>4, HolderKept
<1>5. ASSUME Leave(w)
      PROVE  LInv'
  BY <1>2, <1>4, <1>5 DEF Leave
<1>6. ASSUME NEW r \in results, Applied(w, r)
      PROVE  LInv'
  <2> DEFINE t == [task[w] EXCEPT !.result = r]
  <2>1. t \in Task /\ t.job = task[w].job /\ t.locked = task[w].locked
    BY <1>2 DEF Task
  <2>2. Goto(w, t, "applied")
    BY <1>6 DEF Applied
  <2> HIDE DEF t
  <2> QED BY <1>4, <2>1, <2>2
<1>7. ASSUME HostFailed(w)
      PROVE  LInv'
  BY <1>2, <1>4, <1>7 DEF HostFailed
<1>8. /\ \A o \in Ops : Cached(o) \in results /\ Executed(o) \in results
      /\ \A o \in Ops : registry[OpKey[o]] \in Entry \union {NoEntry}
  BY HostAssumption DEF TInv, TypeOK, HostTypeOK, Cached, Executed
<1>9. CASE CreateCheckpoint(w)
  <2> DEFINE t == [task[w] EXCEPT !.mem.checkpoint = TRUE]
  <2>1. t \in Task /\ t.job = task[w].job /\ t.locked = task[w].locked
    BY <1>2 DEF Task, JobRecord
  <2>2. Goto(w, t, "checkpointCreated") \/ Leave(w)
    BY <1>9 DEF CreateCheckpoint
  <2> HIDE DEF t
  <2> QED BY <1>4, <1>5, <2>1, <2>2
<1>10. CASE CheckIdempotency(w)
  <2> DEFINE r == registry[OpKey[task[w].op]].receipt
             t == [task[w] EXCEPT !.result = r]
  <2>1. \/ Leave(w) \/ Goto(w, task[w], "preflight")
        \/ /\ AlreadyExecuted(task[w].op)
           /\ \E label \in {"return", "verifyJob"} : Goto(w, t, label)
    BY <1>10 DEF CheckIdempotency
  <2>2. ASSUME AlreadyExecuted(task[w].op)
        PROVE  t \in Task /\ t.job = task[w].job /\ t.locked = task[w].locked
    <3>1. task[w].op \in Ops
      BY <1>2, <1>10 DEF CheckIdempotency, At, WellFormed, Heading, OpLabels
    <3>2. r \in results
      BY <1>8, <2>2, <3>1 DEF AlreadyExecuted, Entry
    <3> HIDE DEF r
    <3> QED BY <1>2, <3>2 DEF Task
  <2> HIDE DEF t
  <2> QED BY <1>2, <1>4, <1>5, <2>1, <2>2
<1>11. CASE Preflight(w)
  <2> DEFINE t == [task[w] EXCEPT !.mem.op = task[w].op]
  <2>1. t \in Task /\ t.job = task[w].job /\ t.locked = task[w].locked
    BY <1>2 DEF Task, JobRecord
  <2>2. Goto(w, t, "applyStarted") \/ Leave(w)
    BY <1>11 DEF Preflight
  <2> HIDE DEF t
  <2> QED BY <1>4, <1>5, <2>1, <2>2
<1>12. CASE Dispatch(w) \/ HostRecordsKey(w) \/ QueryAfterFailure(w)
  <2>1. task[w].op \in Ops
    BY <1>2, <1>12
       DEF Dispatch, HostRecordsKey, QueryAfterFailure, At, WellFormed, Heading, OpLabels
  <2>2. \/ Goto(w, task[w], "checkRevision") \/ HostFailed(w)
        \/ \E r \in {Cached(task[w].op), Executed(task[w].op), task[w].op} : Applied(w, r)
        \/ \E to : Transition(w, task[w], to, "return")
    BY <1>12 DEF Dispatch, HostRecordsKey, QueryAfterFailure
  <2> QED BY <1>2, <1>4, <1>6, <1>7, <1>8, <2>1, <2>2
<1>13. CASE VerifyJob(w)
  <2> DEFINE t == [task[w] EXCEPT !.mem = jobFile[task[w].job]]
  <2>1. ASSUME CanLoad(task[w].job)
        PROVE  t \in Task /\ t.job = task[w].job /\ t.locked = task[w].locked
    BY <1>2, <1>13, <2>1 DEF VerifyJob, At, WellFormed, CanLoad, Task, TInv, TypeOK
  <2>2. (CanLoad(task[w].job) /\ Goto(w, t, "verifyAgain")) \/ Leave(w)
    BY <1>13 DEF VerifyJob
  <2> HIDE DEF t
  <2> QED BY <1>4, <1>5, <2>1, <2>2
<1>14. CASE ResumeInFlight(w) \/ ResumeVerifying(w)
  <2> DEFINE o == task[w].mem.op
             t == [task[w] EXCEPT !.op = o]
             res == {Receipt(t), Executed(o), Receipt(task[w])}
  <2>1. o \in Ops /\ task[w].job \in Jobs
    BY <1>2, <1>14
       DEF ResumeInFlight, ResumeVerifying, HasIntent, At, WellFormed, Task, JobRecord
  <2>2. t \in Task /\ t.job = task[w].job /\ t.locked = task[w].locked /\ t.op = o
        /\ t.mem = task[w].mem
    BY <1>2, <2>1 DEF Task
  <2>3. res \subseteq results
    BY <1>8, <2>1, <2>2 DEF Receipt, TInv, TypeOK
  <2>4. \/ Goto(w, t, "redispatch") \/ \E to : Transition(w, t, to, "return")
        \/ \E r \in res, label \in {"verifyJob", "verify"} : \E to :
              Transition(w, [t EXCEPT !.result = r], to, label)
        \/ Goto(w, [task[w] EXCEPT !.op = o, !.result = Receipt(task[w])], "verifyJob")
    <3>1. CASE ResumeInFlight(w)
      BY <2>2, <3>1 DEF ResumeInFlight
    <3>2. CASE ResumeVerifying(w)
      BY <3>2 DEF ResumeVerifying
    <3> QED BY <1>14, <3>1, <3>2
  <2>5. \A r \in results : LET u == [t EXCEPT !.result = r] IN
            u \in Task /\ u.job = task[w].job /\ u.locked = task[w].locked
    BY <2>2 DEF Task
  <2>6. LET u == [task[w] EXCEPT !.op = o, !.result = Receipt(task[w])] IN
            u \in Task /\ u.job = task[w].job /\ u.locked = task[w].locked
    BY <1>2, <2>1, <2>3 DEF Task
  <2> HIDE DEF t, o, res
  <2>7. ASSUME NEW r \in res, NEW to, NEW label \in {"verifyJob", "verify"},
               Transition(w, [t EXCEPT !.result = r], to, label)
        PROVE  LInv'
    <3> DEFINE u == [t EXCEPT !.result = r]
    <3>1. u \in Task /\ u.job = task[w].job /\ u.locked = task[w].locked
      BY <2>3, <2>5
    <3>2. Transition(w, u, to, label)
      BY <2>7
    <3> HIDE DEF u
    <3> QED BY <1>4, <3>1, <3>2
  <2>8. ASSUME Goto(w, [task[w] EXCEPT !.op = o, !.result = Receipt(task[w])], "verifyJob")
        PROVE  LInv'
    <3> DEFINE u == [task[w] EXCEPT !.op = o, !.result = Receipt(task[w])]
    <3>1. /\ u \in Task /\ u.job = task[w].job /\ u.locked = task[w].locked
          /\ Goto(w, u, "verifyJob")
      BY <2>6, <2>8
    <3> HIDE DEF u
    <3> QED BY <1>4, <3>1
  <2> QED BY <1>4, <2>2, <2>4, <2>7, <2>8
<1> QED BY <1>9, <1>10, <1>11, <1>12, <1>13, <1>14

\* The steps that take or give up the lock, that begin or end a call or a scan,
\* and that only move on.
LEMMA OtherStepsKeepHolder ==
    ASSUME TInv, TInv', LInv, NEW w \in Workers,
           \/ SaveJob(w) \/ Return(w) \/ AcquireLock(w) \/ Classify(w) \/ StartScan(w)
           \/ Crash(w)
           \/ \E j \in Jobs : ScanJob(w, j)
           \/ \E j \in Jobs : CreateJob(w, j)
           \/ \E call \in Calls, j \in Jobs, o \in Ops \union {NoOp} : Call(w, call, j, o)
    PROVE  LInv'
<1>1. /\ task \in [Workers -> Task] /\ task' \in [Workers -> Task]
      /\ lock \in LockRecord \union {NoLock} /\ WellFormed(task[w])
  BY DEF TInv, TypeOK
<1>2. ~Idle.locked /\ Idle \in Task
  BY IdleWellFormed DEF Idle, WellFormed
<1>3. CASE SaveJob(w)
  <2> DEFINE u == [[task[w] EXCEPT !.next = "idle"] EXCEPT !.pc = task[w].next]
  <2>1. task' = [task EXCEPT ![w] = u] /\ UNCHANGED lock /\ task[w].pc = "saveJob"
    BY <1>3 DEF SaveJob, Goto, At, restVars
  <2>2. /\ u.locked = task[w].locked /\ u.job = task[w].job
        /\ u.pc = task[w].next /\ u.next = "idle"
    BY <1>1 DEF Task
  <2> HIDE DEF u
  <2>3. Heading(u) \in FreeLabels => Heading(task[w]) \in FreeLabels
    BY <2>1, <2>2 DEF Heading, FreeLabels
  <2> QED BY <1>1, <2>1, <2>2, <2>3 DEF LInv, LockHasHolder, LockRecord
<1>4. CASE Return(w)
  <2>1. /\ task' = [task EXCEPT ![w] = Idle]
        /\ lock' = IF task[w].locked /\ lock # NoLock /\ lock.job = task[w].job
                   THEN NoLock ELSE lock
    BY <1>4 DEF Return
  <2> QED BY <1>2, <2>1, HolderGone
<1>5. CASE AcquireLock(w)
  <2>1. CASE MayAcquire(task[w].job)
    <3> DEFINE t == [task[w] EXCEPT !.locked = TRUE]
    <3>1. /\ lock' = Acquired(w, task[w].job)
          /\ \E label \in {"checkIdempotency", "recheck"} : Goto(w, t, label)
      BY <1>5, <2>1 DEF AcquireLock
    <3>2. t \in Task /\ t.locked /\ t.job = task[w].job
      BY <1>1 DEF Task
    <3> HIDE DEF t
    <3>3. /\ \A v \in Workers : v # w => task'[v] = task[v]
          /\ task'[w].locked /\ task'[w].job = task[w].job
          /\ Heading(task'[w]) \notin FreeLabels
      BY <3>1, <3>2, GotoContinues DEF Continues, FreeLabels
    <3>4. lock' = lock \/ lock' = [job |-> task[w].job, pid |-> w]
      BY <3>1 DEF Acquired
    <3> QED BY <1>1, <3>3, <3>4 DEF LInv, LockHasHolder, LockRecord
  <2>2. CASE Leave(w) /\ UNCHANGED lock
    <3>1. "return" \notin FreeLabels
      BY DEF FreeLabels
    <3> QED BY <1>1, <2>2, <3>1, HolderKept DEF Leave
  <2> QED BY <1>5, <2>1, <2>2 DEF AcquireLock
<1>6. ASSUME Heading(task[w]) \in FreeLabels, UNCHANGED lock, ~task'[w].locked,
             \E u : task' = [task EXCEPT ![w] = u]
      PROVE  LInv'
  BY <1>1, <1>6 DEF LInv, LockHasHolder, LockRecord
<1>7. CASE \/ StartScan(w) \/ \E j \in Jobs : CreateJob(w, j)
           \/ \E call \in Calls, j \in Jobs, o \in Ops \union {NoOp} : Call(w, call, j, o)
  <2>1. /\ task[w].pc = "idle" /\ UNCHANGED lock
        /\ \E u : task' = [task EXCEPT ![w] = u]
    BY <1>7 DEF StartScan, CreateJob, Call, At, Goto, restVars
  <2>2. \E u : task' = [task EXCEPT ![w] = u] /\ ~u.locked
    <3>1. CASE StartScan(w)
      <4> DEFINE u == [[Idle EXCEPT !.call = "scan"] EXCEPT !.pc = "scan"]
      <4>1. task' = [task EXCEPT ![w] = u]
        BY <3>1 DEF StartScan, Goto
      <4>2. ~u.locked
        BY DEF Idle
      <4> QED BY <4>1, <4>2
    <3>2. ASSUME NEW j \in Jobs, CreateJob(w, j)
          PROVE  \E u : task' = [task EXCEPT ![w] = u] /\ ~u.locked
      <4> DEFINE t == [Idle EXCEPT !.call = "create", !.job = j, !.next = "return",
                                   !.mem.seq = 0]
                 u == [t EXCEPT !.pc = "saveJob"]
      <4>1. task' = [task EXCEPT ![w] = u]
        BY <3>2 DEF CreateJob, Goto
      <4>2. ~u.locked
        BY DEF Idle
      <4> QED BY <4>1, <4>2
    <3>3. ASSUME NEW call \in Calls, NEW j \in Jobs, NEW o \in Ops \union {NoOp},
                 Call(w, call, j, o)
          PROVE  \E u : task' = [task EXCEPT ![w] = u] /\ ~u.locked
      <4> DEFINE t == [Idle EXCEPT !.call = call, !.job = j, !.mem = jobFile[j], !.op = o]
                 u == [t EXCEPT !.pc = call]
      <4>1. task' = [task EXCEPT ![w] = u]
        BY <3>3 DEF Call, Goto
      <4>2. ~u.locked
        BY DEF Idle
      <4> QED BY <4>1, <4>2
    <3> QED BY <1>7, <3>1, <3>2, <3>3
  <2>3. ~task'[w].locked
    BY <1>1, <2>2
  <2> QED BY <1>6, <2>1, <2>3 DEF Heading, FreeLabels
<1>8. CASE Classify(w)
  <2>1. /\ task[w].pc = "classify" /\ UNCHANGED lock
        /\ \E u : task' = [task EXCEPT ![w] = u]
    BY <1>8 DEF Classify, At, Goto, restVars
  <2>2. ~task'[w].locked
    BY <1>1, <1>8 DEF Classify, Goto, Idle
  <2> QED BY <1>6, <2>1, <2>2 DEF Heading, FreeLabels
<1>9. ASSUME NEW j \in Jobs, ScanJob(w, j)
      PROVE  LInv'
  <2>1. task[w].pc = "scan" /\ UNCHANGED lock /\ ~task[w].locked
    BY <1>9 DEF ScanJob, At, LInv, Heading, FreeLabels
  <2> DEFINE t == [task[w] EXCEPT !.job = j, !.next = "classify"]
  <2>2. \/ UNCHANGED task \/ Leave(w)
        \/ \E m : \E label \in {"saveJob", "classify"} : Goto(w, [t EXCEPT !.mem = m], label)
    BY <1>9 DEF ScanJob
  <2>3. ASSUME NEW m, NEW label, Goto(w, [t EXCEPT !.mem = m], label)
        PROVE  LInv'
    <3> DEFINE u == [[t EXCEPT !.mem = m] EXCEPT !.pc = label]
    <3>1. task' = [task EXCEPT ![w] = u]
      BY <2>3 DEF Goto
    <3>2. ~u.locked
      BY <1>1, <2>1 DEF Task
    <3> HIDE DEF u
    <3> QED BY <1>1, <1>6, <2>1, <3>1, <3>2 DEF Heading, FreeLabels
  <2>4. CASE UNCHANGED task
    BY <2>1, <2>4 DEF LInv, LockHasHolder
  <2>5. CASE Leave(w)
    <3>1. "return" \notin FreeLabels
      BY DEF FreeLabels
    <3> QED BY <1>1, <2>1, <2>5, <3>1, HolderKept DEF Leave
  <2> HIDE DEF t
  <2> QED BY <2>2, <2>3, <2>4, <2>5
<1>10. CASE Crash(w)
  <2>1. /\ task' = [task EXCEPT ![w] = Idle]
        /\ lock' = IF lock # NoLock /\ lock.pid = w THEN [lock EXCEPT !.pid = Dead] ELSE lock
    BY <1>10 DEF Crash
  <2>2. CASE lock # NoLock /\ lock.pid = w
    <3>1. lock'.pid = Dead
      BY <1>1, <2>1, <2>2 DEF LockRecord
    <3>2. LockHasHolder'
      BY <3>1 DEF LockHasHolder
    <3> QED BY <1>1, <1>2, <2>1, <3>2 DEF LInv
  <2>3. CASE lock = NoLock
    <3>1. lock' = NoLock
      BY <2>1, <2>3
    <3> QED BY <1>1, <1>2, <2>1, <3>1 DEF LInv, LockHasHolder
  <2>4. CASE lock # NoLock /\ lock.pid # w
    <3>1. lock' = lock
      BY <2>1, <2>4
    <3> QED BY <1>1, <1>2, <2>1, <2>4, <3>1 DEF LInv, LockHasHolder
  <2> QED BY <2>2, <2>3, <2>4
<1> QED BY <1>3, <1>4, <1>5, <1>7, <1>8, <1>9, <1>10

LEMMA LNext == TInv /\ TInv' /\ LInv /\ [Next]_vars => LInv'
<1> SUFFICES ASSUME TInv, TInv', LInv, [Next]_vars PROVE LInv'
  OBVIOUS
<1>1. CASE UNCHANGED vars
  BY <1>1 DEF vars, LInv, LockHasHolder
<1>2. ASSUME NEW w \in Workers, Step(w)
      PROVE  LInv'
  BY <1>2, OwnRecordKeepsHolder, NewRecordKeepsHolder, OtherStepsKeepHolder DEF Step
<1>3. ASSUME NEW w \in Workers,
             \/ \E j \in Jobs : CreateJob(w, j)
             \/ \E call \in Calls, j \in Jobs, o \in Ops \union {NoOp} : Call(w, call, j, o)
             \/ StartScan(w)
             \/ Crash(w)
      PROVE  LInv'
  BY <1>3, OtherStepsKeepHolder
<1> QED BY <1>1, <1>2, <1>3 DEF Next

\* However many workers call, fail, raise and crash, no lock outlives the call
\* of a live process that acquired it: the finally clauses at
\* core/job_service.py:457 and core/job_service.py:674.
THEOREM LocksAreHeld == Spec => []LockHasHolder
<1>1. Init => TInv /\ LInv
  BY TInit, LInit
<1>2. TInv /\ LInv /\ [Next]_vars => (TInv /\ LInv)'
  BY TNext, LNext
<1>3. LInv => LockHasHolder
  BY DEF LInv
<1> QED BY <1>1, <1>2, <1>3, PTL DEF Spec

-----------------------------------------------------------------------------
(***************************************************************************)
(* One worker.  With no concurrent caller, what a call holds in memory is   *)
(* at most one transition ahead of job.json, and so is the journal of a     *)
(* worker that crashed before it saved.                                     *)
(***************************************************************************)

HasEffect(j) == \E o \in OpsOf(j) : mutations[o] > 0

\* The evidence that entering a status takes.
Proof(j, to) == /\ to = "verifying" => HasEffect(j)
                /\ to = "completed" => Confirmed(j, verified)

\* The events of s that the record f does not have move the job nowhere.
Unmoved(f, s) == \A k \in f.seq + 2 .. Len(s) : s[k].to = NoStatus

\* Or all but the last one, which is a transition that was not saved.
AheadByOne(j) ==
    \A k \in jobFile[j].seq + 2 .. Len(journal[j]) :
        \/ journal[j][k].to = NoStatus
        \/ /\ k = Len(journal[j])
           /\ CanMove(jobFile[j].status, journal[j][k].to)
           /\ Proof(j, journal[j][k].to)

\* A crash followed by another event breaks the sequence for good, which is why
\* only contiguous journals need be considered: the scan replays no other.
FilesInStep ==
    \A j \in Jobs : jobFile[j] # NoJob =>
        /\ Contiguous(journal[j]) => AheadByOne(j)
        /\ jobFile[j].status = "verifying" => HasEffect(j)

\* A job changes the document by the operation its job.json names.
EffectsOwned ==
    \A o \in Ops : mutations[o] > 0 =>
        /\ jobFile[OpJob[o]] # NoJob
        /\ jobFile[OpJob[o]].op = o
        /\ jobFile[OpJob[o]].status \notin PreMutation

\* The steps at which a worker has no copy of job.json to go by.
Resting == {"idle", "return", "scan", "saveJob", "classify"}

InStep(t) ==
    t.pc \notin Resting =>
        /\ jobFile[t.job] # NoJob
        /\ t.mem.status = jobFile[t.job].status
        /\ t.pc # "applyStarted" => t.mem.op = jobFile[t.job].op
        /\ t.mem.seq = Len(journal[t.job]) - 1 => Unmoved(jobFile[t.job], journal[t.job])

\* The record m may replace the record f of job j.
MayReplace(f, j, m) ==
    IF f = NoJob THEN m.status = "queued"
    ELSE /\ \/ m.status = f.status
            \/ CanMove(f.status, m.status) /\ Proof(j, m.status)
         /\ f.status \notin PreMutation => m.op = f.op

Saving(t) ==
    t.pc = "saveJob" =>
        /\ Contiguous(journal[t.job]) => t.mem.seq = Len(journal[t.job]) - 1
        /\ MayReplace(jobFile[t.job], t.job, t.mem)

InFlightLabels == {"registerIntent", "redispatch", "recheck", "dispatch",
                   "checkRevision", "saveDocument"}
LockLabels == {"checkIdempotency", "preflight", "applyStarted", "registerIntent",
               "recheck", "dispatch", "checkRevision", "saveDocument"}

\* What a call with operation o and record m of job j has ensured on its way to
\* a label; L and V stand for lock and verified.
Armed(label, o, j, m, L, V) ==
    /\ label \in InFlightLabels \union {"applyStarted"} => m.op = o
    /\ label \in InFlightLabels => m.status \in InFlight
    /\ label \in LockLabels => L # NoLock /\ L.job = j
    /\ label = "verify" => m.status = "verifying"
    /\ label \in {"verifyJob", "verifyAgain"} => m.status = "verifying" \/ Confirmed(j, V)

ArmedTask(t) == Armed(Heading(t), t.op, t.job, t.mem, lock, verified)

ListingsInStep ==
    \A w \in Workers, j \in Jobs : listed[w][j] # NoJob =>
        /\ listed[w][j] = jobFile[j]
        /\ Heading(task[w]) \in {"scan", "classify"}
        /\ task[w].pc # "scan" => task[w].job # j

TasksInStep ==
    \A w \in Workers : InStep(task[w]) /\ Saving(task[w]) /\ ArmedTask(task[w])

SInv == FilesInStep /\ EffectsOwned /\ ListingsInStep /\ TasksInStep

\* Confirmations and executions are not undone.
Keeps == Lasting /\ verified \subseteq verified'

LEMMA ProofLasts ==
    ASSUME Keeps, NEW j \in Jobs, NEW to, Proof(j, to)
    PROVE  Proof(j, to)'
BY DEF Keeps, Lasting, Proof, HasEffect, OpsOf, Confirmed

\* The edges of the status graph.
LEMMA Moves ==
    ASSUME NEW from \in Statuses, NEW to, CanMove(from, to)
    PROVE  /\ to \in Statuses /\ to # NoStatus
           /\ to \in PreMutation => from \in PreMutation
           /\ to = "applying" => from = "prepared"
BY DEF CanMove, ALLOWED_TRANSITIONS, Statuses, PreMutation, TERMINAL_STATUSES, NoStatus

LEMMA FilesKept ==
    ASSUME SInv, Keeps, UNCHANGED <<jobFile, journal>>
    PROVE  FilesInStep'
<1> SUFFICES ASSUME NEW j \in Jobs, jobFile[j] # NoJob
             PROVE  /\ Contiguous(journal[j]) => AheadByOne(j)'
                    /\ jobFile[j].status = "verifying" => HasEffect(j)'
  BY DEF FilesInStep
<1>1. \A to : Proof(j, to) => Proof(j, to)'
  BY ProofLasts
<1>2. HasEffect(j) => HasEffect(j)'
  BY DEF Keeps, Lasting, HasEffect, OpsOf
<1> QED BY <1>1, <1>2 DEF SInv, FilesInStep, AheadByOne

\* An event of a call whose record is in step with job.json.
LEMMA FilesAppended ==
    ASSUME TInv, SInv, Keeps, NEW w \in Workers, task[w].pc \notin Resting,
           NEW i \in Jobs, task[w].job = i,
           NEW to \in Statuses \union {NoStatus}, Append1(w, to),
           \/ to = NoStatus
           \/ CanMove(task[w].mem.status, to) /\ Proof(i, to)',
           UNCHANGED jobFile
    PROVE  FilesInStep'
<1> DEFINE m == task[w].mem
           f == jobFile[i]
           s == journal[i]
           e == [seq |-> m.seq + 1, to |-> to]
           a == Append(s, e)
<1>1. /\ journal \in [Jobs -> Seq(Event)] /\ jobFile \in [Jobs -> JobRecord \union {NoJob}]
      /\ m \in JobRecord
  BY DEF TInv, TypeOK, Task
<1>2. journal' = [journal EXCEPT ![i] = a]
  BY DEF Append1
<1>3. /\ f # NoJob /\ m.status = f.status
      /\ m.seq = Len(s) - 1 => Unmoved(f, s)
  BY DEF SInv, TasksInStep, InStep
<1>4. \A t : \A j \in Jobs : Proof(j, t) => Proof(j, t)'
  BY ProofLasts
<1>5. \A j \in Jobs : HasEffect(j) => HasEffect(j)'
  BY DEF Keeps, Lasting, HasEffect, OpsOf
<1>6. ASSUME NEW j \in Jobs, j # i, jobFile[j] # NoJob
      PROVE  /\ Contiguous(journal'[j]) => AheadByOne(j)'
             /\ jobFile'[j].status = "verifying" => HasEffect(j)'
  <2>1. journal'[j] = journal[j]
    BY <1>1, <1>2, <1>6
  <2> QED BY <1>4, <1>5, <1>6, <2>1 DEF SInv, FilesInStep, AheadByOne
<1>7. ASSUME Contiguous(a)
      PROVE  AheadByOne(i)'
  <2>1. /\ s \in Seq(Event) /\ Len(a) = Len(s) + 1 /\ DOMAIN a = 1 .. Len(s) + 1
        /\ a[Len(s) + 1] = e /\ \A k \in 1 .. Len(s) : a[k] = s[k]
    BY <1>1
  <2>2. e.seq = m.seq + 1 /\ e.to = to
    OBVIOUS
  <2>3. f \in JobRecord
    BY <1>1, <1>3
  <2>4. m.seq \in Int /\ f.seq \in Nat \union {-1} /\ Len(s) \in Nat
    BY <1>1, <2>1, <2>3 DEF JobRecord
  <2>5. journal'[i] = a
    BY <1>1, <1>2
  <2> HIDE DEF a, e, m, f, s
  <2>6. e.seq = Len(s)
    BY <1>7, <2>1, <2>4 DEF Contiguous
  <2>7. m.seq = Len(s) - 1
    BY <2>2, <2>4, <2>6
  <2>8. \A k \in f.seq + 2 .. Len(s) : s[k].to = NoStatus
    BY <1>3, <2>7 DEF Unmoved
  <2>9. ASSUME NEW k \in jobFile'[i].seq + 2 .. Len(journal'[i])
        PROVE  \/ journal'[i][k].to = NoStatus
               \/ /\ k = Len(journal'[i])
                  /\ CanMove(jobFile'[i].status, journal'[i][k].to)
                  /\ Proof(i, journal[i][k].to)'
    <3>1. jobFile'[i] = f /\ k \in f.seq + 2 .. Len(a)
      BY <2>5 DEF f
    <3>2. CASE k = Len(s) + 1
      <4>1. journal'[i][k].to = to /\ k = Len(journal'[i])
        BY <2>1, <2>2, <2>5, <3>2
      <4>2. to = NoStatus \/ (CanMove(f.status, to) /\ Proof(i, to)')
        BY <1>3 DEF m
      <4> QED BY <3>1, <4>1, <4>2
    <3>3. CASE k # Len(s) + 1
      <4>1. k \in 1 .. Len(s) /\ k \in f.seq + 2 .. Len(s)
        BY <2>1, <2>4, <3>1, <3>3
      <4> QED BY <2>1, <2>5, <2>8, <4>1
    <3> QED BY <3>2, <3>3
  <2> QED BY <2>9 DEF AheadByOne
<1>8. /\ Contiguous(journal'[i]) => AheadByOne(i)'
      /\ jobFile'[i].status = "verifying" => HasEffect(i)'
  <2>1. journal'[i] = a
    BY <1>1, <1>2
  <2> HIDE DEF a
  <2> QED BY <1>3, <1>5, <1>7, <2>1 DEF SInv, FilesInStep
<1> HIDE DEF a, s, m, f
<1> QED BY <1>6, <1>8 DEF FilesInStep

\* A step inside a call of the one worker, which is not scanning.
LEMMA StepInStep ==
    ASSUME TInv, SInv, OneWorker, NEW w \in Workers, task[w].pc \notin Resting,
           UNCHANGED <<jobFile, listed>>, UNCHANGED mutations \/ EffectsOwned',
           FilesInStep', InStep(task[w])', Saving(task[w])', ArmedTask(task[w])'
    PROVE  SInv'
<1>1. \A v \in Workers : v = w
  BY DEF OneWorker
<1>2. \A j \in Jobs : listed[w][j] = NoJob
  <2>1. Heading(task[w]) \notin {"scan", "classify"}
    BY DEF Heading, Resting
  <2> QED BY <2>1 DEF SInv, ListingsInStep
<1>3. ListingsInStep'
  BY <1>1, <1>2 DEF ListingsInStep
<1>4. EffectsOwned'
  BY DEF SInv, EffectsOwned
<1>5. TasksInStep'
  BY <1>1 DEF TasksInStep
<1> QED BY <1>3, <1>4, <1>5 DEF SInv

\* Going on to another step with the record at hand.
LEMMA GotoInStep ==
    ASSUME TInv, SInv, OneWorker, Keeps, NEW w \in Workers, task[w].pc \notin Resting,
           UNCHANGED <<jobFile, listed, journal>>, UNCHANGED mutations \/ EffectsOwned',
           NEW t \in Task, NEW label, label \notin {"saveJob", "scan", "classify"},
           Goto(w, t, label), t.job = task[w].job,
           \/ label \in Resting
           \/ /\ t.mem.status = task[w].mem.status /\ t.mem.seq = task[w].mem.seq
              /\ label # "applyStarted" => t.mem.op = jobFile[t.job].op,
           Armed(label, t.op, t.job, t.mem, lock', verified')
    PROVE  SInv'
<1>1. /\ task'[w].pc = label /\ task'[w].job = t.job /\ task'[w].op = t.op
      /\ task'[w].mem = t.mem
  BY DEF Goto, TInv, TypeOK, Task
<1>2. FilesInStep'
  BY FilesKept
<1>3. InStep(task[w])'
  <2> DEFINE j == t.job
             m == t.mem
  <2>1. /\ jobFile[j] # NoJob /\ task[w].mem.status = jobFile[j].status
        /\ task[w].mem.seq = Len(journal[j]) - 1 => Unmoved(jobFile[j], journal[j])
    BY DEF SInv, TasksInStep, InStep
  <2>2. /\ task'[w].pc = label /\ task'[w].job = j /\ task'[w].mem = m
        /\ jobFile' = jobFile /\ journal' = journal
    BY <1>1
  <2>3. \/ label \in Resting
        \/ /\ m.status = task[w].mem.status /\ m.seq = task[w].mem.seq
           /\ label # "applyStarted" => m.op = jobFile[j].op
    BY DEF j, m
  <2> HIDE DEF j, m
  <2> QED BY <2>1, <2>2, <2>3 DEF InStep
<1>4. Saving(task[w])'
  BY <1>1 DEF Saving
<1>5. ArmedTask(task[w])'
  BY <1>1 DEF ArmedTask, Heading
<1> QED BY <1>2, <1>3, <1>4, <1>5, StepInStep

\* Leaving a call.
LEMMA LeaveInStep ==
    ASSUME TInv, SInv, OneWorker, Keeps, NEW w \in Workers, task[w].pc \notin Resting,
           UNCHANGED <<jobFile, listed, mutations, journal>>, Leave(w)
    PROVE  SInv'
<1>1. task[w] \in Task
  BY DEF TInv, TypeOK
<1>2. Armed("return", task[w].op, task[w].job, task[w].mem, lock', verified')
  BY DEF Armed, InFlightLabels, LockLabels
<1> DEFINE t == task[w]
<1>3. Goto(w, t, "return") /\ t \in Task /\ t.job = task[w].job
  BY <1>1 DEF Leave
<1>4. "return" \in Resting /\ "return" \notin {"saveJob", "scan", "classify"}
  BY DEF Resting
<1>5. Armed("return", t.op, t.job, t.mem, lock', verified')
  BY <1>2
<1>6. t.job = task[w].job /\ t.mem.status = task[w].mem.status
  OBVIOUS
<1> HIDE DEF t
<1> QED BY <1>3, <1>4, <1>5, <1>6, GotoInStep

\* An event without a transition.
LEMMA EmitInStep ==
    ASSUME TInv, SInv, OneWorker, Keeps, NEW w \in Workers,
           task[w].pc \notin Resting \union {"applyStarted"}, task[w].job \in Jobs,
           UNCHANGED <<jobFile, listed, mutations>>,
           NEW label, label \notin Resting, Emit(w, task[w], label),
           Armed(label, task[w].op, task[w].job, task[w].mem, lock', verified')
    PROVE  SInv'
<1> DEFINE i == task[w].job
           m == task[w].mem
           u == [task[w] EXCEPT !.mem.seq = @ + 1]
           u2 == [u EXCEPT !.pc = label]
<1>1. task[w] \in Task /\ m \in JobRecord
  BY DEF TInv, TypeOK, Task
<1>2. task'[w] = u2 /\ Append1(w, NoStatus)
  BY DEF Emit, Goto, TInv, TypeOK
<1>3. /\ u2.pc = label /\ u2.job = i /\ u2.op = task[w].op
      /\ u2.mem.status = m.status /\ u2.mem.op = m.op /\ u2.mem.seq = m.seq + 1
  BY <1>1 DEF Task, JobRecord
<1> HIDE DEF u2
<1>4. FilesInStep'
  BY <1>2, FilesAppended
<1>5. /\ jobFile[i] # NoJob /\ m.status = jobFile[i].status /\ m.op = jobFile[i].op
      /\ m.seq = Len(journal[i]) - 1 => Unmoved(jobFile[i], journal[i])
  BY DEF SInv, TasksInStep, InStep
<1>6. ASSUME m.seq + 1 = Len(journal'[i]) - 1
      PROVE  Unmoved(jobFile[i], journal'[i])
  <2> DEFINE e == [seq |-> m.seq + 1, to |-> NoStatus]
             s == journal[i]
             a == Append(s, e)
  <2>1. journal'[i] = a /\ s \in Seq(Event)
    BY <1>2 DEF Append1, TInv, TypeOK
  <2>2. /\ Len(a) = Len(s) + 1 /\ a[Len(s) + 1] = e /\ e.to = NoStatus
        /\ \A k \in 1 .. Len(s) : a[k] = s[k]
    BY <2>1
  <2>3. /\ m.seq \in Int /\ Len(s) \in Nat
        /\ jobFile[i] \in JobRecord /\ jobFile[i].seq \in Nat \union {-1}
    BY <1>1, <1>5, <2>1 DEF JobRecord, TInv, TypeOK
  <2> HIDE DEF a, e, s, m
  <2>4. m.seq = Len(s) - 1
    BY <1>6, <2>1, <2>2, <2>3
  <2>5. \A k \in jobFile[i].seq + 2 .. Len(s) : s[k].to = NoStatus
    BY <1>5, <2>4 DEF Unmoved, s
  <2>6. ASSUME NEW k \in jobFile[i].seq + 2 .. Len(a)
        PROVE  a[k].to = NoStatus
    <3>1. CASE k = Len(s) + 1
      BY <2>2, <3>1
    <3>2. CASE k # Len(s) + 1
      <4>1. k \in 1 .. Len(s) /\ k \in jobFile[i].seq + 2 .. Len(s)
        BY <2>2, <2>3, <3>2
      <4> QED BY <2>2, <2>5, <4>1
    <3> QED BY <3>1, <3>2
  <2> QED BY <2>1, <2>6 DEF Unmoved
<1> HIDE DEF i, m
<1>7. task'[w].job = i /\ task'[w].pc = label /\ jobFile' = jobFile
  BY <1>2, <1>3
<1>8. InStep(task[w])'
  BY <1>2, <1>3, <1>5, <1>6, <1>7 DEF InStep
<1>9. Saving(task[w])'
  BY <1>7 DEF Saving, Resting
<1>10. ArmedTask(task[w])'
  BY <1>2, <1>3, <1>7 DEF ArmedTask, Heading, Armed, Resting, i, m
<1> QED BY <1>4, <1>8, <1>9, <1>10, StepInStep

\* A transition leads from the status in job.json, which is the one in memory.
LEMMA TransitionInStep ==
    ASSUME TInv, SInv, OneWorker, Keeps, NEW w \in Workers, task[w].pc \notin Resting,
           NEW i \in Jobs, task[w].job = i,
           UNCHANGED <<jobFile, listed, mutations>>,
           NEW t \in Task, NEW to \in Statuses, NEW label, label # "saveJob",
           t.job = i, t.mem = task[w].mem, Transition(w, t, to, label),
           task[w].pc = "applyStarted" => to = "applying",
           Proof(i, to)',
           \A m \in JobRecord : m.status = to /\ m.op = t.mem.op =>
               Armed(label, t.op, i, m, lock', verified')
    PROVE  SInv'
<1>1. CASE CanMove(t.mem.status, to)
  <2> DEFINE m == Moved(t.mem, to)
             u == [t EXCEPT !.mem = Moved(@, to), !.next = label]
             u2 == [u EXCEPT !.pc = "saveJob"]
             e == [seq |-> t.mem.seq + 1, to |-> to]
             a == Append(journal[i], e)
  <2>1. task'[w] = u2 /\ Append1(w, to)
    BY <1>1 DEF Transition, Goto, TInv, TypeOK
  <2>2. /\ u2.pc = "saveJob" /\ u2.next = label /\ u2.job = i /\ u2.op = t.op
        /\ u2.mem = m
    BY DEF Task
  <2>3. m \in JobRecord /\ t.mem \in JobRecord
    BY MovedType DEF Task
  <2>4. m.status = to /\ m.op = t.mem.op /\ m.seq = t.mem.seq + 1
    BY <2>3 DEF Moved, JobRecord
  <2> HIDE DEF u2, m
  <2>5. FilesInStep'
    BY <1>1, <2>1, FilesAppended
  <2>6. /\ jobFile[i] # NoJob /\ t.mem.status = jobFile[i].status
        /\ task[w].pc # "applyStarted" => t.mem.op = jobFile[i].op
        /\ jobFile[i] \in JobRecord
    BY DEF SInv, TasksInStep, InStep, TInv, TypeOK
  <2>7. jobFile[i].status \notin PreMutation => m.op = jobFile[i].op
    <3>1. CASE task[w].pc = "applyStarted"
      <4>1. jobFile[i].status = "prepared"
        BY <1>1, <2>6, <3>1, Moves DEF JobRecord
      <4> QED BY <4>1 DEF PreMutation
    <3>2. CASE task[w].pc # "applyStarted"
      BY <2>4, <2>6, <3>2
    <3> QED BY <3>1, <3>2
  <2>8. Contiguous(journal'[i]) => m.seq = Len(journal'[i]) - 1
    <3>1. /\ journal'[i] = a /\ journal[i] \in Seq(Event)
      BY <2>1 DEF Append1, TInv, TypeOK
    <3>2. /\ Len(a) = Len(journal[i]) + 1 /\ DOMAIN a = 1 .. Len(journal[i]) + 1
          /\ a[Len(journal[i]) + 1] = e /\ e.seq = t.mem.seq + 1 /\ Len(journal[i]) \in Nat
      BY <3>1
    <3> HIDE DEF a, e
    <3>3. Contiguous(a) => e.seq = Len(journal[i])
      BY <3>2 DEF Contiguous
    <3> QED BY <2>4, <3>1, <3>2, <3>3
  <2>9. task'[w].pc = "saveJob" /\ task'[w].job = i /\ task'[w].mem = m
    BY <2>1, <2>2
  <2>10. Saving(task[w])'
    BY <1>1, <2>4, <2>6, <2>7, <2>8, <2>9 DEF Saving, MayReplace
  <2>11. InStep(task[w])'
    BY <2>9 DEF InStep, Resting
  <2>12. Armed(label, t.op, i, m, lock', verified')
    BY <2>3, <2>4
  <2>13. ArmedTask(task[w])'
    BY <2>1, <2>2, <2>12 DEF ArmedTask, Heading
  <2> QED BY <2>5, <2>10, <2>11, <2>13, StepInStep
<1>2. CASE ~CanMove(t.mem.status, to)
  BY <1>2, LeaveInStep DEF Transition
<1> QED BY <1>1, <1>2

\* The steps for which nothing has to be ensured.
ArmedLabels == InFlightLabels \union LockLabels \union {"verify", "verifyJob", "verifyAgain"}

LEMMA Unarmed ==
    ASSUME NEW label, label \notin ArmedLabels, NEW o, NEW j, NEW m, NEW L, NEW V
    PROVE  Armed(label, o, j, m, L, V)
BY DEF Armed, ArmedLabels, LockLabels, InFlightLabels

\* What counts as an execution of a request of job i is an effect of job i.
LEMMA ReportsEffect ==
    ASSUME KeysOfOneJob, NEW i \in Jobs, NEW o, OpJob[o] = i, NEW r \in Ops,
           Reports(r, o, mutations)
    PROVE  HasEffect(i)
BY DEF KeysOfOneJob, Reports, HasEffect, OpsOf

LEMMA PlainStepsInStep ==
    ASSUME TInv, EInv, XInv, SInv, OneWorker, KeysOfOneJob, NEW w \in Workers,
           \/ Inspect(w) \/ Prepare(w) \/ CheckpointCreated(w) \/ MarkPrepared(w)
           \/ Cancel(w) \/ Recover(w) \/ Restore(w) \/ ApplyStarted(w)
           \/ Interrupted(w) \/ QueryAfterFailure(w) \/ StartVerifying(w)
           \/ VerifyFailed(w) \/ ReceiptRecorded(w) \/ VerifySucceeded(w)
           \/ Complete(w) \/ ResumeInFlight(w) \/ Recheck(w)
    PROVE  SInv'
<1>1. UNCHANGED <<jobFile, listed, mutations, verified, lock>> /\ Keeps
  <2>1. UNCHANGED <<restVars, fileVars, jobFile>>
    BY DEF Inspect, Prepare, CheckpointCreated, MarkPrepared, Cancel, Recover, Restore,
           ApplyStarted, Interrupted, QueryAfterFailure, StartVerifying, VerifyFailed,
           ReceiptRecorded, VerifySucceeded, Complete, ResumeInFlight, Recheck
  <2> QED BY <2>1 DEF restVars, hostVars, Keeps, Lasting
<1>2. /\ task[w] \in Task /\ WellFormed(task[w]) /\ TaskReports(task[w], mutations)
      /\ Evidence(task[w], manifests, verified, receipts)
      /\ InStep(task[w]) /\ ArmedTask(task[w])
  BY DEF TInv, WellFormed, XInv, TasksReport, EInv, TasksBacked, SInv, TasksInStep
<1>3. task[w].pc \notin Resting /\ Heading(task[w]) = task[w].pc
  BY DEF Inspect, Prepare, CheckpointCreated, MarkPrepared, Cancel, Recover, Restore,
         ApplyStarted, Interrupted, QueryAfterFailure, StartVerifying, VerifyFailed,
         ReceiptRecorded, VerifySucceeded, Complete, ResumeInFlight, Recheck, At,
         Resting, Heading
<1>4. PICK i \in Jobs : task[w].job = i
  BY <1>2, <1>3 DEF WellFormed, Resting
<1>5. ASSUME NEW to, Proof(i, to)
      PROVE  Proof(i, to)'
  BY <1>1, <1>5, ProofLasts
<1>6. ASSUME NEW to \in Statuses, Proof(i, to), NEW label, label # "saveJob",
             Transition(w, task[w], to, label),
             task[w].pc = "applyStarted" => to = "applying",
             \A m \in JobRecord : m.status = to /\ m.op = task[w].mem.op =>
                 Armed(label, task[w].op, i, m, lock', verified')
      PROVE  SInv'
  <2> DEFINE t == task[w]
  <2>1. /\ t \in Task /\ t.job = i /\ t.mem = task[w].mem /\ Transition(w, t, to, label)
        /\ \A m \in JobRecord : m.status = to /\ m.op = t.mem.op =>
               Armed(label, t.op, i, m, lock', verified')
    BY <1>2, <1>4, <1>6
  <2> HIDE DEF t
  <2> QED BY <1>1, <1>3, <1>4, <1>5, <1>6, <2>1, TransitionInStep
<1>7. ASSUME NEW to \in Statuses \ {"verifying", "completed"},
             task[w].pc # "applyStarted", Transition(w, task[w], to, "return")
      PROVE  SInv'
  <2>1. \A m \in JobRecord : Armed("return", task[w].op, i, m, lock', verified')
    BY Unarmed DEF ArmedLabels, InFlightLabels, LockLabels
  <2>2. Proof(i, to)
    BY <1>7 DEF Proof
  <2> QED BY <1>6, <1>7, <2>1, <2>2
<1>8. ASSUME NEW label, label \notin Resting \union ArmedLabels,
             task[w].pc # "applyStarted", Emit(w, task[w], label)
      PROVE  SInv'
  <2>1. Armed(label, task[w].op, task[w].job, task[w].mem, lock', verified')
    BY <1>8, Unarmed
  <2> QED BY <1>1, <1>3, <1>4, <1>8, <2>1, EmitInStep
<1>9. ASSUME Leave(w), UNCHANGED journal
      PROVE  SInv'
  BY <1>1, <1>3, <1>9, LeaveInStep
<1>10. /\ {"inspecting", "prepared", "cancelled", "cancel_requested", "recovered",
           "recovery_required"} \subseteq Statuses \ {"verifying", "completed"}
       /\ {"createCheckpoint", "markPrepared", "restore", "queryAfterFailure",
           "verifySucceeded", "complete"} \intersect (Resting \union ArmedLabels) = {}
  BY DEF Statuses, Resting, ArmedLabels, InFlightLabels, LockLabels
<1>11. CASE Inspect(w)
  BY <1>7, <1>10, <1>11 DEF Inspect, At
<1>12. CASE Prepare(w)
  BY <1>7, <1>8, <1>10, <1>12 DEF Prepare, At
<1>13. CASE CheckpointCreated(w)
  BY <1>8, <1>10, <1>13 DEF CheckpointCreated, At
<1>14. CASE MarkPrepared(w)
  BY <1>7, <1>10, <1>14 DEF MarkPrepared, At
<1>15. CASE Cancel(w)
  <2> DEFINE to == CancelTarget(task[w].mem.status)
  <2>1. to \in {"cancelled", "cancel_requested", NoStatus}
    BY DEF CancelTarget
  <2>2. \/ Leave(w) /\ UNCHANGED journal
        \/ to # NoStatus /\ Transition(w, task[w], to, "return")
    BY <1>15 DEF Cancel
  <2> HIDE DEF to
  <2> QED BY <1>7, <1>9, <1>10, <1>15, <2>1, <2>2 DEF Cancel, At
<1>16. CASE Recover(w)
  BY <1>8, <1>9, <1>10, <1>16 DEF Recover, At
<1>17. CASE Restore(w)
  BY <1>7, <1>9, <1>10, <1>17 DEF Restore, At
<1>18. CASE ApplyStarted(w)
  <2>1. task[w].pc = "applyStarted" /\ Transition(w, task[w], "applying", "registerIntent")
    BY <1>18 DEF ApplyStarted, At
  <2>2. task[w].mem.op = task[w].op /\ lock # NoLock /\ lock.job = i
    BY <1>2, <1>3, <1>4, <2>1 DEF ArmedTask, Armed, LockLabels
  <2>3. \A m \in JobRecord : m.status = "applying" /\ m.op = task[w].mem.op =>
            Armed("registerIntent", task[w].op, i, m, lock', verified')
    BY <1>1, <2>2 DEF Armed, InFlight
  <2>4. "applying" \in Statuses /\ Proof(i, "applying")
    BY DEF Statuses, Proof
  <2> QED BY <1>6, <2>1, <2>3, <2>4
<1>19. CASE Interrupted(w)
  BY <1>8, <1>10, <1>19 DEF Interrupted, At
<1>20. CASE QueryAfterFailure(w)
  <2> DEFINE e == Executed(task[w].op)
             t == [task[w] EXCEPT !.result = e]
  <2>1. task[w].op \in Ops
    BY <1>2, <1>20 DEF QueryAfterFailure, At, WellFormed, Heading, OpLabels
  <2>2. ASSUME e # NoOp, Applied(w, e), UNCHANGED journal
        PROVE  SInv'
    <3>1. e \in Ops
      BY <2>1, <2>2, ExecutedReports
    <3>2. t \in Task /\ t.job = task[w].job /\ t.mem = task[w].mem
      BY <1>2, <3>1 DEF Task
    <3>3. Goto(w, t, "applied")
      BY <2>2 DEF Applied
    <3> HIDE DEF t, e
    <3>4. t.mem.op = jobFile[t.job].op
      BY <1>2, <1>3, <1>20, <3>2 DEF InStep, QueryAfterFailure, At
    <3>5. Armed("applied", t.op, t.job, t.mem, lock', verified')
      BY Unarmed DEF ArmedLabels, InFlightLabels, LockLabels
    <3> QED BY <1>1, <1>3, <2>2, <3>2, <3>3, <3>4, <3>5, GotoInStep
  <2> QED BY <1>7, <1>10, <1>20, <2>2 DEF QueryAfterFailure, At
<1>21. CASE StartVerifying(w)
  <2>1. task[w].pc = "applied" /\ Transition(w, task[w], "verifying", "verify")
    BY <1>21 DEF StartVerifying, At
  <2>2. task[w].result # NoOp /\ task[w].op \in Ops /\ OpJob[task[w].op] = i
    BY <1>2, <1>3, <1>4, <2>1, HostAssumption
       DEF Evidence, ResultLabels, WellFormed, OpLabels
  <2>3. task[w].result \in Ops /\ Reports(task[w].result, task[w].op, mutations)
    BY <1>2, <2>2 DEF TaskReports, Task
  <2>4. "verifying" \in Statuses /\ Proof(i, "verifying")
    BY <2>2, <2>3, ReportsEffect DEF Statuses, Proof
  <2>5. \A m \in JobRecord : m.status = "verifying" =>
            Armed("verify", task[w].op, i, m, lock', verified')
    BY DEF Armed, InFlightLabels, LockLabels
  <2> QED BY <1>6, <2>1, <2>4, <2>5
<1>22. CASE VerifyFailed(w)
  BY <1>7, <1>10, <1>22 DEF VerifyFailed, At
<1>23. CASE ReceiptRecorded(w)
  BY <1>8, <1>10, <1>23 DEF ReceiptRecorded, At
<1>24. CASE VerifySucceeded(w)
  BY <1>8, <1>10, <1>24 DEF VerifySucceeded, At
<1>25. CASE Complete(w)
  <2>1. task[w].pc = "complete" /\ Transition(w, task[w], "completed", "return")
    BY <1>25 DEF Complete, At
  <2>2. task[w].op \in verified /\ OpJob[task[w].op] = i /\ verified \subseteq Ops
    BY <1>2, <1>3, <1>4, <2>1 DEF Evidence, ConfirmedLabels, TInv, TypeOK
  <2>3. "completed" \in Statuses /\ Proof(i, "completed")
    BY <2>2 DEF Statuses, Proof, Confirmed, OpsOf
  <2>4. \A m \in JobRecord : Armed("return", task[w].op, i, m, lock', verified')
    BY Unarmed DEF ArmedLabels, InFlightLabels, LockLabels
  <2> QED BY <1>6, <2>1, <2>3, <2>4
<1>26. CASE ResumeInFlight(w)
  <2> DEFINE o == task[w].mem.op
             t == [task[w] EXCEPT !.op = o]
  <2>1. /\ o \in Ops /\ OpJob[o] = i /\ task[w].pc = "resume"
        /\ task[w].mem.status \in InFlight
    BY <1>2, <1>4, <1>26 DEF ResumeInFlight, HasIntent, At, Task, JobRecord, Evidence, Backed
  <2>2. t \in Task /\ t.op = o /\ t.job = i /\ t.mem = task[w].mem
    BY <1>2, <1>4, <2>1 DEF Task
  <2>3. \A r \in Ops \union {NoOp} :
            LET u == [t EXCEPT !.result = r] IN
            u \in Task /\ u.op = o /\ u.job = i /\ u.mem = task[w].mem
    BY <2>2 DEF Task
  <2>4. /\ Receipt(t) # NoOp => Receipt(t) \in Ops /\ Reports(Receipt(t), o, mutations)
        /\ Executed(o) # NoOp => Executed(o) \in Ops /\ Reports(Executed(o), o, mutations)
    BY <2>1, <2>2, ExecutedReports DEF Receipt, XInv, ReceiptsReport, TInv, TypeOK
  <2>5. \/ /\ Receipt(t) # NoOp
           /\ Transition(w, [t EXCEPT !.result = Receipt(t)], "verifying", "verifyJob")
        \/ /\ Executed(o) # NoOp
           /\ Transition(w, [t EXCEPT !.result = Executed(o)], "verifying", "verify")
        \/ Goto(w, t, "redispatch") /\ UNCHANGED journal
        \/ Transition(w, t, "recovery_required", "return")
    BY <1>26, <2>2 DEF ResumeInFlight
  <2>6. jobFile[i].op = task[w].mem.op
    BY <1>2, <1>3, <1>4, <2>1 DEF InStep
  <2> HIDE DEF t
  <2>7. ASSUME NEW u \in Task, u.job = i, u.mem = task[w].mem, NEW to \in Statuses,
               NEW label \in {"verifyJob", "verify", "return"},
               Proof(i, to), label # "return" => to = "verifying", Transition(w, u, to, label)
        PROVE  SInv'
    <3>1. \A m \in JobRecord : m.status = to => Armed(label, u.op, i, m, lock', verified')
      BY <2>7 DEF Armed, InFlightLabels, LockLabels
    <3>2. label # "saveJob" /\ task[w].pc # "applyStarted"
      BY <2>1
    <3> QED BY <1>1, <1>3, <1>4, <1>5, <2>7, <3>1, <3>2, TransitionInStep
  <2>8. ASSUME NEW r \in Ops, Reports(r, o, mutations), NEW label \in {"verifyJob", "verify"},
               Transition(w, [t EXCEPT !.result = r], "verifying", label)
        PROVE  SInv'
    <3> DEFINE u == [t EXCEPT !.result = r]
    <3>1. u \in Task /\ u.job = i /\ u.mem = task[w].mem /\ Transition(w, u, "verifying", label)
      BY <2>3, <2>8
    <3>2. "verifying" \in Statuses /\ Proof(i, "verifying")
      BY <2>1, <2>8, ReportsEffect DEF Statuses, Proof
    <3> HIDE DEF u, o
    <3> QED BY <2>7, <3>1, <3>2
  <2>9. ASSUME Goto(w, t, "redispatch"), UNCHANGED journal
        PROVE  SInv'
    <3>1. Armed("redispatch", t.op, t.job, t.mem, lock', verified')
      BY <2>1, <2>2 DEF Armed, LockLabels
    <3>2. t.mem.op = jobFile[t.job].op
      BY <2>2, <2>6
    <3> HIDE DEF o
    <3> QED BY <1>1, <1>3, <1>4, <2>2, <2>9, <3>1, <3>2, GotoInStep
  <2>10. ASSUME Transition(w, t, "recovery_required", "return")
         PROVE  SInv'
    <3>1. "recovery_required" \in Statuses /\ Proof(i, "recovery_required")
      BY DEF Statuses, Proof
    <3> HIDE DEF o
    <3> QED BY <2>2, <2>7, <2>10, <3>1
  <2> HIDE DEF o
  <2> QED BY <2>4, <2>5, <2>8, <2>9, <2>10
<1>27. CASE Recheck(w)
  <2>1. task[w].pc = "recheck"
    BY <1>27 DEF Recheck, At
  <2>2. ASSUME Goto(w, task[w], "dispatch"), UNCHANGED journal
        PROVE  SInv'
    <3> DEFINE t == task[w]
    <3>1. /\ t \in Task /\ t.job = task[w].job /\ t.mem = task[w].mem
          /\ Goto(w, t, "dispatch") /\ t.mem.op = jobFile[t.job].op
      BY <1>2, <1>3, <2>1, <2>2 DEF InStep
    <3>2. Armed("dispatch", t.op, t.job, t.mem, lock', verified')
      BY <1>1, <1>2, <1>3, <2>1 DEF ArmedTask, Armed, InFlightLabels, LockLabels
    <3> HIDE DEF t
    <3> QED BY <1>1, <1>3, <2>2, <3>1, <3>2, GotoInStep
  <2> QED BY <1>7, <1>9, <1>10, <1>27, <2>1, <2>2 DEF Recheck
<1> QED BY <1>11, <1>12, <1>13, <1>14, <1>15, <1>16, <1>17, <1>18, <1>19, <1>20, <1>21,
           <1>22, <1>23, <1>24, <1>25, <1>26, <1>27

LEMMA WritingStepsInStep ==
    ASSUME TInv, EInv, CopiesCurrent, XInv, SInv, OneWorker, KeysOfOneJob,
           NEW w \in Workers,
           \/ CreateCheckpoint(w) \/ AcquireLock(w) \/ CheckIdempotency(w)
           \/ Preflight(w) \/ RegisterIntent(w) \/ Dispatch(w)
           \/ CheckRevision(w) \/ HostSavesDocument(w)
           \/ HostRecordsOperation(w) \/ HostRecordsKey(w) \/ Verify(w)
           \/ SaveReceipt(w) \/ RegisterReceipt(w) \/ VerifyAgain(w)
    PROVE  SInv'
<1>1. /\ task[w] \in Task /\ WellFormed(task[w])
      /\ Evidence(task[w], manifests, verified, receipts)
      /\ InStep(task[w]) /\ ArmedTask(task[w])
  BY DEF TInv, WellFormed, EInv, TasksBacked, SInv, TasksInStep
<1>2. task[w].pc \notin Resting /\ Heading(task[w]) = task[w].pc
      /\ UNCHANGED <<jobFile, listed>>
  BY DEF CreateCheckpoint, AcquireLock, CheckIdempotency, Preflight, RegisterIntent,
         Dispatch, CheckRevision,
         HostSavesDocument, HostRecordsOperation, HostRecordsKey, Verify, SaveReceipt,
         RegisterReceipt, VerifyAgain, At, Resting, Heading, restVars, storeVars
<1>3. PICK i \in Jobs : task[w].job = i
  BY <1>1, <1>2 DEF WellFormed, Resting
<1>4. ~CreateCheckpoint(w) => task[w].op \in Ops /\ OpJob[task[w].op] = i
  <2>1. ~CreateCheckpoint(w) => task[w].op \in Ops
    BY <1>1 DEF WellFormed, Heading, OpLabels, At, CreateCheckpoint, AcquireLock,
         CheckIdempotency, Preflight, RegisterIntent, Dispatch, CheckRevision,
         HostSavesDocument, HostRecordsOperation,
         HostRecordsKey, Verify, SaveReceipt, RegisterReceipt, VerifyAgain
  <2> QED BY <1>1, <1>3, <2>1, HostAssumption DEF Evidence
<1>5. /\ jobFile[i] # NoJob /\ task[w].mem.status = jobFile[i].status
      /\ task[w].pc # "applyStarted" => task[w].mem.op = jobFile[i].op
  BY <1>1, <1>2, <1>3 DEF InStep
<1>6. UNCHANGED <<mutations, verified>> => Keeps
  BY DEF Keeps, Lasting
<1>7. ASSUME Keeps, UNCHANGED journal, UNCHANGED mutations \/ EffectsOwned',
             NEW t \in Task, t.job = i, t.mem.status = task[w].mem.status,
             t.mem.seq = task[w].mem.seq, t.mem.op = task[w].mem.op,
             task[w].pc # "applyStarted",
             NEW label, label \notin {"saveJob", "scan", "classify"},
             Goto(w, t, label), Armed(label, t.op, i, t.mem, lock', verified')
      PROVE  SInv'
  BY <1>2, <1>3, <1>5, <1>7, GotoInStep
<1>8. ASSUME Keeps, UNCHANGED journal, UNCHANGED mutations \/ EffectsOwned',
             task[w].pc # "applyStarted",
             NEW label, label \notin {"saveJob", "scan", "classify"} \union ArmedLabels,
             Goto(w, task[w], label)
      PROVE  SInv'
  <2> DEFINE t == task[w]
  <2>1. /\ t \in Task /\ t.job = i /\ t.mem.status = task[w].mem.status
        /\ t.mem.seq = task[w].mem.seq /\ t.mem.op = task[w].mem.op
        /\ Goto(w, t, label)
    BY <1>1, <1>3, <1>8
  <2>2. Armed(label, t.op, i, t.mem, lock', verified')
    BY <1>8, Unarmed
  <2> HIDE DEF t
  <2> QED BY <1>7, <1>8, <2>1, <2>2
<1>9. ASSUME UNCHANGED <<journal, mutations, verified>>, Leave(w)
      PROVE  SInv'
  BY <1>2, <1>6, <1>9, LeaveInStep
<1>10. ASSUME Keeps, UNCHANGED mutations, NEW label, label \notin Resting \union ArmedLabels,
              task[w].pc # "applyStarted", Emit(w, task[w], label)
       PROVE  SInv'
  <2>1. Armed(label, task[w].op, task[w].job, task[w].mem, lock', verified')
    BY <1>10, Unarmed
  <2> QED BY <1>2, <1>3, <1>10, <2>1, EmitInStep
<1>11. /\ {"return", "recordOperation", "recordKey", "interrupted", "applied", "saveReceipt",
           "registerReceipt", "receiptRecorded", "checkpointCreated"}
              \intersect ({"saveJob", "scan", "classify"} \union ArmedLabels) = {}
       /\ {"complete", "verifyFailed"} \intersect (Resting \union ArmedLabels) = {}
  BY DEF Resting, ArmedLabels, InFlightLabels, LockLabels
<1>12. ASSUME UNCHANGED <<journal, mutations, verified>>, task[w].pc # "applyStarted", HostFailed(w)
       PROVE  SInv'
  BY <1>6, <1>8, <1>11, <1>12 DEF HostFailed
<1>13. ASSUME UNCHANGED <<journal, mutations, verified>>, task[w].pc # "applyStarted",
              NEW e \in Ops \union {NoOp}, Applied(w, e)
       PROVE  SInv'
  <2> DEFINE t == [task[w] EXCEPT !.result = e]
  <2>1. /\ t \in Task /\ t.job = i /\ t.mem = task[w].mem /\ Goto(w, t, "applied")
    BY <1>1, <1>3, <1>13 DEF Task, Applied
  <2> HIDE DEF t
  <2>2. Armed("applied", t.op, i, t.mem, lock', verified')
    BY <1>11, Unarmed
  <2> QED BY <1>6, <1>7, <1>13, <2>1, <2>2
<1>14. CASE CreateCheckpoint(w)
  <2> DEFINE t == [task[w] EXCEPT !.mem.checkpoint = TRUE]
  <2>1. /\ t \in Task /\ t.job = i /\ t.mem.status = task[w].mem.status
        /\ t.mem.seq = task[w].mem.seq /\ t.mem.op = task[w].mem.op
    BY <1>1, <1>3 DEF Task, JobRecord
  <2>2. UNCHANGED <<journal, mutations, verified>> /\ task[w].pc # "applyStarted"
    BY <1>14 DEF CreateCheckpoint, restVars, hostVars, At
  <2>3. Goto(w, t, "checkpointCreated") \/ Leave(w)
    BY <1>14 DEF CreateCheckpoint
  <2> HIDE DEF t
  <2>4. Armed("checkpointCreated", t.op, i, t.mem, lock', verified')
    BY <1>11, Unarmed
  <2> QED BY <1>6, <1>7, <1>9, <2>1, <2>2, <2>3, <2>4
<1>15. CASE AcquireLock(w)
  <2>1. UNCHANGED <<journal, mutations, verified>> /\ task[w].pc \in {"apply", "redispatch"}
    BY <1>15 DEF AcquireLock, storeVars, hostVars, At
  <2> DEFINE t == [task[w] EXCEPT !.locked = TRUE]
             label == IF task[w].pc = "apply" THEN "checkIdempotency" ELSE "recheck"
  <2>2. /\ t \in Task /\ t.job = i /\ t.mem = task[w].mem /\ t.op = task[w].op
    BY <1>1, <1>3 DEF Task
  <2>3. \/ Leave(w)
        \/ Goto(w, t, label) /\ lock' = Acquired(w, i)
    BY <1>3, <1>15 DEF AcquireLock, At
  <2> HIDE DEF t
  <2>4. ASSUME lock' = Acquired(w, i)
        PROVE  Armed(label, t.op, i, t.mem, lock', verified')
    <3>1. lock' # NoLock /\ lock'.job = i
      <4>1. [job |-> i, pid |-> w] \in LockRecord
        BY DEF LockRecord
      <4> QED BY <2>4, <4>1, JobAssumption DEF Acquired
    <3>2. task[w].pc = "redispatch" => t.mem.op = t.op /\ t.mem.status \in InFlight
      BY <1>1, <1>2, <2>2 DEF ArmedTask, Armed, InFlightLabels
    <3> QED BY <2>1, <3>1, <3>2 DEF Armed, InFlightLabels
  <2> QED BY <1>6, <1>7, <1>9, <2>1, <2>2, <2>3, <2>4
<1>16. CASE CheckIdempotency(w)
  <2> DEFINE o == task[w].op
             e == registry[OpKey[o]]
             t == [task[w] EXCEPT !.result = e.receipt]
  <2>1. /\ UNCHANGED <<journal, mutations, verified, lock>>
        /\ task[w].pc = "checkIdempotency" /\ o \in Ops /\ OpJob[o] = i
    BY <1>4, <1>16 DEF CheckIdempotency, CreateCheckpoint, restVars, hostVars, At
  <2>2. ASSUME AlreadyExecuted(o), NEW label \in {"return", "verifyJob"}, Goto(w, t, label)
        PROVE  SInv'
    <3>1. e \in Entry /\ OpKey[o] \in Keys /\ e # NoEntry
      BY <2>1, <2>2, HostAssumption DEF AlreadyExecuted, TInv, TypeOK
    <3>2. t \in Task /\ t.job = i /\ t.mem = task[w].mem
      BY <1>1, <1>3, <3>1 DEF Task, Entry
    <3>3. e.op \in verified /\ e.op \in Ops /\ OpKey[e.op] = OpKey[o]
      BY <2>2, <3>1 DEF AlreadyExecuted, EInv, RegistryOnlyVerified, XInv, RegistryReports,
                        Entry
    <3>4. Confirmed(i, verified)
      BY <2>1, <3>3 DEF KeysOfOneJob, Confirmed, OpsOf
    <3>5. Armed(label, t.op, i, t.mem, lock', verified')
      BY <2>1, <2>2, <3>4 DEF Armed, InFlightLabels, LockLabels
    <3> HIDE DEF t
    <3> QED BY <1>6, <1>7, <2>1, <2>2, <3>2, <3>5
  <2>3. ASSUME Goto(w, task[w], "preflight")
        PROVE  SInv'
    <3> DEFINE u == task[w]
    <3>1. /\ u \in Task /\ u.job = i /\ u.mem = task[w].mem /\ Goto(w, u, "preflight")
      BY <1>1, <1>3, <2>3
    <3>2. Armed("preflight", u.op, i, u.mem, lock', verified')
      BY <1>1, <1>2, <1>3, <2>1 DEF ArmedTask, Armed, InFlightLabels, LockLabels
    <3> HIDE DEF u
    <3> QED BY <1>6, <1>7, <2>1, <3>1, <3>2
  <2>4. \/ Leave(w)
        \/ AlreadyExecuted(o) /\ \E label \in {"return", "verifyJob"} : Goto(w, t, label)
        \/ Goto(w, task[w], "preflight")
    BY <1>16 DEF CheckIdempotency
  <2> HIDE DEF t, o
  <2> QED BY <1>9, <2>1, <2>2, <2>3, <2>4
<1>17. CASE Preflight(w)
  <2> DEFINE t == [task[w] EXCEPT !.mem.op = task[w].op]
  <2>1. /\ UNCHANGED <<journal, mutations, verified, lock>> /\ task[w].pc = "preflight"
        /\ task[w].op \in Ops
    BY <1>4, <1>17 DEF Preflight, CreateCheckpoint, restVars, hostVars, At
  <2>2. /\ t \in Task /\ t.job = task[w].job /\ t.mem.status = task[w].mem.status
        /\ t.mem.seq = task[w].mem.seq /\ t.mem.op = t.op /\ t.op = task[w].op
    BY <1>1, <2>1 DEF Task, JobRecord
  <2>3. Goto(w, t, "applyStarted") \/ Leave(w)
    BY <1>17 DEF Preflight
  <2> HIDE DEF t
  <2>4. Armed("applyStarted", t.op, t.job, t.mem, lock', verified')
    BY <1>1, <1>2, <2>1, <2>2 DEF ArmedTask, Armed, LockLabels, InFlightLabels
  <2> QED BY <1>2, <1>6, <1>9, <2>1, <2>2, <2>3, <2>4, GotoInStep
<1>18. CASE RegisterIntent(w)
  <2>1. /\ UNCHANGED <<journal, mutations, verified, lock>> /\ task[w].pc = "registerIntent"
        /\ Leave(w) \/ Goto(w, task[w], "dispatch")
    BY <1>18 DEF RegisterIntent, restVars, hostVars, At
  <2>2. ASSUME Goto(w, task[w], "dispatch")
        PROVE  SInv'
    <3> DEFINE u == task[w]
    <3>1. /\ u \in Task /\ u.job = i /\ u.mem = task[w].mem /\ Goto(w, u, "dispatch")
      BY <1>1, <1>3, <2>2
    <3>2. Armed("dispatch", u.op, i, u.mem, lock', verified')
      BY <1>1, <1>2, <1>3, <2>1 DEF ArmedTask, Armed, InFlightLabels, LockLabels
    <3> HIDE DEF u
    <3> QED BY <1>6, <1>7, <2>1, <3>1, <3>2
  <2> QED BY <1>9, <2>1, <2>2
<1>a. ASSUME NEW label \in {"checkRevision", "saveDocument"}, Goto(w, task[w], label),
             task[w].pc \in {"dispatch", "checkRevision"},
             UNCHANGED <<journal, mutations, verified, lock>>
      PROVE  SInv'
  <2> DEFINE u == task[w]
  <2>1. u \in Task /\ u.job = i /\ u.mem = task[w].mem /\ Goto(w, u, label)
    BY <1>1, <1>3, <1>a
  <2>2. Armed(label, u.op, i, u.mem, lock', verified')
    BY <1>1, <1>2, <1>3, <1>a DEF ArmedTask, Armed, InFlightLabels, LockLabels
  <2> HIDE DEF u
  <2> QED BY <1>6, <1>7, <1>a, <2>1, <2>2
<1>19. CASE Dispatch(w)
  <2> DEFINE o == task[w].op
  <2>1. /\ UNCHANGED <<journal, mutations, verified, lock>> /\ task[w].pc = "dispatch"
        /\ o \in Ops
    BY <1>4, <1>19 DEF Dispatch, CreateCheckpoint, restVars, storeVars, hostVars, At
  <2>2. Cached(o) \in Ops \union {NoOp}
    BY <2>1, HostAssumption DEF Cached, TInv, TypeOK, HostTypeOK
  <2>3. \/ Goto(w, task[w], "checkRevision")
        \/ Applied(w, Cached(o))
        \/ HostFailed(w)
    BY <1>19 DEF Dispatch
  <2> HIDE DEF o
  <2> QED BY <1>12, <1>13, <1>a, <2>1, <2>2, <2>3
<1>b. CASE CheckRevision(w)
  <2>1. /\ UNCHANGED <<journal, mutations, verified, lock>> /\ task[w].pc = "checkRevision"
        /\ Goto(w, task[w], "saveDocument") \/ HostFailed(w)
    BY <1>b DEF CheckRevision, ReadDocument, storeVars, hostVars, At
  <2> QED BY <1>12, <1>a, <2>1
<1>c. CASE HostSavesDocument(w)
  <2> DEFINE o == task[w].op
  <2>1. /\ UNCHANGED <<journal, verified, lock>> /\ task[w].pc = "saveDocument"
        /\ Goto(w, task[w], "recordOperation") /\ OpJob[o] = i
    BY <1>4, <1>c DEF HostSavesDocument, CreateCheckpoint, storeVars, At
  <2>2. /\ mutations' = [mutations EXCEPT ![o] = mutations[o] + 1]
        /\ mutations \in [Ops -> Nat] /\ o \in Ops
    BY <1>c, SavesInPlace
  <2>3. Keeps /\ \A p \in Ops : p # o => mutations'[p] = mutations[p]
    BY <2>1, <2>2 DEF Keeps, Lasting
  <2>4. jobFile[i].op = o /\ jobFile[i].status \in InFlight
    BY <1>1, <1>2, <1>5, <2>1 DEF ArmedTask, Armed, InFlightLabels
  <2>5. EffectsOwned'
    BY <1>2, <1>5, <2>1, <2>2, <2>3, <2>4 DEF SInv, EffectsOwned, InFlight, PreMutation
  <2> QED BY <1>8, <1>11, <2>1, <2>3, <2>5
<1>20. CASE HostRecordsOperation(w)
  <2>1. UNCHANGED <<journal, mutations, verified>> /\ task[w].pc = "recordOperation"
    BY <1>20 DEF HostRecordsOperation, RecordOperation, storeVars, At
  <2> QED BY <1>6, <1>8, <1>11, <1>20, <2>1 DEF HostRecordsOperation
<1>21. CASE HostRecordsKey(w)
  <2>1. /\ UNCHANGED <<journal, mutations, verified>> /\ task[w].pc = "recordKey"
        /\ Applied(w, task[w].op) \/ HostFailed(w)
        /\ task[w].op \in Ops
    BY <1>4, <1>21 DEF HostRecordsKey, CreateCheckpoint, RecordKey, storeVars, At
  <2> QED BY <1>12, <1>13, <2>1
<1>22. CASE Verify(w)
  <2>1. /\ UNCHANGED mutations /\ Keeps /\ task[w].pc = "verify"
        /\ \/ Goto(w, task[w], "saveReceipt") /\ UNCHANGED journal
           \/ Emit(w, task[w], "verifyFailed")
    BY <1>22 DEF Verify, At, hostVars, Keeps, Lasting
  <2> QED BY <1>8, <1>10, <1>11, <2>1
<1>23. CASE SaveReceipt(w)
  <2>1. /\ UNCHANGED <<journal, mutations, verified>> /\ task[w].pc = "saveReceipt"
        /\ Goto(w, task[w], "registerReceipt")
    BY <1>23 DEF SaveReceipt, At, restVars, hostVars
  <2> QED BY <1>6, <1>8, <1>11, <2>1
<1>24. CASE RegisterReceipt(w)
  <2>1. /\ UNCHANGED <<journal, mutations, verified>> /\ task[w].pc = "registerReceipt"
        /\ Leave(w) \/ Goto(w, task[w], "receiptRecorded")
    BY <1>24 DEF RegisterReceipt, At, restVars, hostVars
  <2> QED BY <1>6, <1>8, <1>9, <1>11, <2>1
<1>25. CASE VerifyAgain(w)
  <2>1. /\ UNCHANGED mutations /\ Keeps /\ task[w].pc = "verifyAgain"
        /\ Emit(w, task[w], "complete") \/ Emit(w, task[w], "verifyFailed")
    BY <1>25 DEF VerifyAgain, At, hostVars, Keeps, Lasting
  <2> QED BY <1>10, <1>11, <2>1
<1> QED BY <1>14, <1>15, <1>16, <1>17, <1>18, <1>19, <1>b, <1>c,
           <1>20, <1>21, <1>22, <1>23, <1>24, <1>25

\* A step after which the one worker has no copy of job.json to go by.
LEMMA RestsInStep ==
    ASSUME TInv, SInv, OneWorker, Keeps, NEW w \in Workers, UNCHANGED <<jobFile, mutations>>,
           task'[w].pc \in Resting \ {"saveJob"}, FilesInStep', ListingsInStep'
    PROVE  SInv'
<1>1. \A v \in Workers : v = w
  BY DEF OneWorker
<1>2. InStep(task[w])' /\ Saving(task[w])'
  BY DEF InStep, Saving, Resting
<1>3. ArmedTask(task[w])'
  BY DEF ArmedTask, Heading, Armed, Resting, InFlightLabels, LockLabels
<1>4. EffectsOwned'
  BY DEF SInv, EffectsOwned
<1> QED BY <1>1, <1>2, <1>3, <1>4 DEF SInv, TasksInStep

LEMMA NothingToVisit ==
    ASSUME SInv, NEW w \in Workers, Heading(task[w]) \notin {"scan", "classify"}
    PROVE  \A j \in Jobs : listed[w][j] = NoJob
BY DEF SInv, ListingsInStep

LEMMA SaveInStep ==
    ASSUME TInv, SInv, OneWorker, NEW w \in Workers, SaveJob(w)
    PROVE  SInv'
<1> DEFINE t == [task[w] EXCEPT !.next = "idle"]
           u == [t EXCEPT !.pc = task[w].next]
           m == task[w].mem
<1>1. /\ task[w] \in Task /\ WellFormed(task[w]) /\ Saving(task[w]) /\ ArmedTask(task[w])
      /\ task[w].pc = "saveJob"
  BY DEF TInv, WellFormed, SInv, TasksInStep, SaveJob, At
<1>2. PICK i \in Jobs : task[w].job = i
  BY <1>1 DEF WellFormed
<1>3. \A v \in Workers : v = w
  BY DEF OneWorker
<1>4. /\ jobFile' = [jobFile EXCEPT ![i] = m] /\ jobFile \in [Jobs -> JobRecord \union {NoJob}]
      /\ journal \in [Jobs -> Seq(Event)] /\ m \in JobRecord /\ task'[w] = u
      /\ UNCHANGED <<journal, mutations, verified, lock, listed>>
  BY <1>1, <1>2 DEF SaveJob, Goto, TInv, TypeOK, Task, restVars, hostVars
<1>5. /\ u.pc = task[w].next /\ u.job = i /\ u.op = task[w].op /\ u.mem = m
      /\ u.next = "idle"
  BY <1>1, <1>2 DEF Task
<1> HIDE DEF u, t
<1>6. /\ jobFile'[i] = m /\ m # NoJob /\ \A j \in Jobs : j # i => jobFile'[j] = jobFile[j]
  BY <1>4, JobAssumption
<1>7. /\ Contiguous(journal[i]) => m.seq = Len(journal[i]) - 1
      /\ MayReplace(jobFile[i], i, m)
  BY <1>1, <1>2 DEF Saving
<1>8. m.seq = Len(journal[i]) - 1 => \A k \in m.seq + 2 .. Len(journal[i]) : FALSE
  <2>1. Len(journal[i]) \in Nat
    BY <1>4
  <2> QED BY <2>1
<1>9. Keeps /\ \A j \in Jobs : HasEffect(j) => HasEffect(j)'
  BY <1>4 DEF Keeps, Lasting, HasEffect, OpsOf
<1> HIDE DEF m
<1>10. FilesInStep'
  <2>1. ASSUME NEW j \in Jobs, j # i, jobFile[j] # NoJob
        PROVE  /\ Contiguous(journal[j]) => AheadByOne(j)'
               /\ jobFile'[j].status = "verifying" => HasEffect(j)'
    <3>1. \A to : Proof(j, to) => Proof(j, to)'
      BY <1>9, ProofLasts
    <3> QED BY <1>4, <1>6, <1>9, <2>1, <3>1 DEF SInv, FilesInStep, AheadByOne
  <2>2. Contiguous(journal[i]) => AheadByOne(i)'
    BY <1>4, <1>6, <1>7, <1>8 DEF AheadByOne
  <2>3. m.status = "verifying" => HasEffect(i)'
    BY <1>7, <1>9 DEF MayReplace, Proof, SInv, FilesInStep
  <2> QED BY <1>4, <1>6, <2>1, <2>2, <2>3 DEF FilesInStep
<1>11. EffectsOwned'
  <2>1. ASSUME NEW o \in Ops, mutations[o] > 0, OpJob[o] = i
        PROVE  m.op = o /\ m.status \notin PreMutation
    <3>1. jobFile[i] # NoJob /\ jobFile[i].op = o /\ jobFile[i].status \notin PreMutation
      BY <2>1 DEF SInv, EffectsOwned
    <3>2. jobFile[i].status \in Statuses
      BY <1>4, <3>1 DEF JobRecord
    <3> QED BY <1>7, <3>1, <3>2, Moves DEF MayReplace
  <2> QED BY <1>4, <1>6, <2>1, HostAssumption, JobAssumption DEF SInv, EffectsOwned
<1>12. Heading(task[w]) = task[w].next
  BY <1>1 DEF Heading
<1>13. ListingsInStep'
  <2> SUFFICES ASSUME NEW j \in Jobs, listed[w][j] # NoJob
               PROVE  /\ listed[w][j] = jobFile'[j]
                      /\ Heading(u) \in {"scan", "classify"}
                      /\ u.job # j
    BY <1>3, <1>4 DEF ListingsInStep
  <2>1. /\ listed[w][j] = jobFile[j] /\ task[w].next \in {"scan", "classify"}
        /\ task[w].job # j
    BY <1>1, <1>12 DEF SInv, ListingsInStep
  <2> QED BY <1>2, <1>5, <1>6, <2>1 DEF Heading
<1>14. InStep(task[w])'
  BY <1>4, <1>5, <1>6, <1>8 DEF InStep, Unmoved
<1>15. Saving(task[w])'
  BY <1>4, <1>5, <1>6, <1>7 DEF Saving, MayReplace
<1>16. ArmedTask(task[w])'
  <2>1. Heading(u) = task[w].next \/ Heading(u) = "idle"
    BY <1>5 DEF Heading
  <2>2. Armed(task[w].next, task[w].op, i, m, lock, verified)
    BY <1>1, <1>2, <1>12 DEF ArmedTask, m
  <2>3. "idle" \notin ArmedLabels
    BY DEF ArmedLabels, InFlightLabels, LockLabels
  <2> QED BY <1>4, <1>5, <2>1, <2>2, <2>3, Unarmed DEF ArmedTask
<1> QED BY <1>3, <1>10, <1>11, <1>13, <1>14, <1>15, <1>16 DEF SInv, TasksInStep

\* A call that loads job.json, which nobody else can be ahead of.
LEMMA LoadInStep ==
    ASSUME TInv, SInv, OneWorker, Keeps, NEW w \in Workers,
           Heading(task[w]) \notin {"scan", "classify"},
           UNCHANGED <<jobFile, listed, mutations, journal>>,
           NEW t \in Task, NEW i \in Jobs, t.job = i, jobFile[i] # NoJob, t.mem = jobFile[i],
           NEW label, label \notin Resting, Goto(w, t, label),
           Armed(label, t.op, i, t.mem, lock', verified')
    PROVE  SInv'
<1> DEFINE f == jobFile[i]
<1>1. \A v \in Workers : v = w
  BY DEF OneWorker
<1>2. /\ task'[w].pc = label /\ task'[w].job = i /\ task'[w].op = t.op
      /\ task'[w].mem = f
  BY DEF Goto, TInv, TypeOK, Task
<1>3. FilesInStep'
  BY FilesKept
<1>4. jobFile'[i] = f /\ f # NoJob /\ Len(journal'[i]) \in Nat
  BY DEF TInv, TypeOK
<1>5. Armed(label, t.op, i, f, lock', verified')
  OBVIOUS
<1> HIDE DEF f
<1>6. InStep(task[w])'
  <2>1. f.seq = Len(journal'[i]) - 1 => \A k \in f.seq + 2 .. Len(journal'[i]) : FALSE
    BY <1>4
  <2> QED BY <1>2, <1>4, <2>1 DEF InStep, Unmoved
<1>7. Saving(task[w])'
  BY <1>2 DEF Saving, Resting
<1>8. ArmedTask(task[w])'
  BY <1>2, <1>5 DEF ArmedTask, Heading, Resting
<1>9. ListingsInStep'
  BY <1>1, NothingToVisit DEF ListingsInStep
<1>10. EffectsOwned'
  BY DEF SInv, EffectsOwned
<1> QED BY <1>1, <1>3, <1>6, <1>7, <1>8, <1>9, <1>10 DEF SInv, TasksInStep

LEMMA CallerStepsInStep ==
    ASSUME TInv, SInv, OneWorker, NEW w \in Workers,
           \/ VerifyJob(w) \/ ResumeVerifying(w) \/ ResumeNothing(w)
           \/ Return(w) \/ Crash(w) \/ StartScan(w) \/ Classify(w) \/ EndScan(w)
           \/ \E j \in Jobs : CreateJob(w, j)
           \/ \E call \in Calls, j \in Jobs, o \in Ops \union {NoOp} : Call(w, call, j, o)
    PROVE  SInv'
<1>1. UNCHANGED <<jobFile, mutations, verified>> /\ Keeps
  <2>1. UNCHANGED <<jobFile, mutations, verified>>
    BY DEF VerifyJob, ResumeVerifying, ResumeNothing, Return, Crash, Forget, StartScan,
           Classify, EndScan, CreateJob, Call, restVars, hostVars, storeVars
  <2> QED BY <2>1 DEF Keeps, Lasting
<1>2. \A v \in Workers : v = w
  BY DEF OneWorker
<1>3. /\ task[w] \in Task /\ WellFormed(task[w])
      /\ InStep(task[w]) /\ ArmedTask(task[w]) /\ ListingsInStep
  BY DEF TInv, WellFormed, SInv, TasksInStep
<1>4. UNCHANGED journal => FilesInStep'
  BY <1>1, FilesKept
<1>5. Idle.pc = "idle" /\ Heading(Idle) = "idle"
  BY DEF Idle, Heading
<1>6. CASE VerifyJob(w)
  <2>1. /\ UNCHANGED <<journal, listed, lock>> /\ task[w].pc = "verifyJob"
        /\ Heading(task[w]) = "verifyJob" /\ "verifyJob" \notin Resting
    BY <1>6 DEF VerifyJob, At, restVars, storeVars, Heading, Resting
  <2>2. PICK i \in Jobs : task[w].job = i
    BY <1>3, <2>1 DEF WellFormed
  <2> DEFINE t == [task[w] EXCEPT !.mem = jobFile[i]]
  <2>3. Leave(w) \/ (jobFile[i] # NoJob /\ Goto(w, t, "verifyAgain"))
    BY <1>6, <2>2 DEF VerifyJob, CanLoad
  <2>4. ASSUME jobFile[i] # NoJob, Goto(w, t, "verifyAgain")
        PROVE  SInv'
    <3>1. jobFile[i] \in JobRecord
      BY <2>4 DEF TInv, TypeOK
    <3>2. t \in Task /\ t.job = i /\ t.mem = jobFile[i]
      BY <1>3, <2>2, <3>1 DEF Task
    <3>3. task[w].mem.status = jobFile[i].status
      BY <1>3, <2>1, <2>2 DEF InStep
    <3>4. Armed("verifyAgain", t.op, i, t.mem, lock', verified')
      BY <1>1, <1>3, <2>1, <2>2, <3>2, <3>3 DEF ArmedTask, Armed, InFlightLabels, LockLabels
    <3> HIDE DEF t
    <3>5. "verifyAgain" \notin Resting /\ Heading(task[w]) \notin {"scan", "classify"}
      BY <2>1 DEF Resting
    <3> QED BY <1>1, <2>1, <2>4, <3>2, <3>4, <3>5, LoadInStep
  <2> QED BY <1>1, <2>1, <2>3, <2>4, LeaveInStep
<1>7. CASE ResumeVerifying(w)
  <2> DEFINE o == task[w].mem.op
             r == Receipt(task[w])
             t == [task[w] EXCEPT !.op = o, !.result = r]
  <2>1. /\ UNCHANGED <<journal, listed, lock>> /\ task[w].pc = "resume"
        /\ task[w].mem.status = "verifying" /\ o # NoOp /\ Goto(w, t, "verifyJob")
    BY <1>7 DEF ResumeVerifying, At, restVars, storeVars, HasIntent
  <2>2. o \in Ops /\ task[w].job \in Jobs
    BY <1>3, <2>1 DEF WellFormed, Task, JobRecord
  <2>3. r \in Ops \union {NoOp}
    BY <2>2 DEF Receipt, TInv, TypeOK
  <2>4. t \in Task /\ t.job = task[w].job /\ t.mem = task[w].mem
    BY <1>3, <2>2, <2>3 DEF Task
  <2> HIDE DEF t, r, o
  <2>5. Armed("verifyJob", t.op, t.job, t.mem, lock', verified')
    BY <2>1, <2>4 DEF Armed, InFlightLabels, LockLabels
  <2>6. task[w].pc \notin Resting /\ t.mem.op = jobFile[t.job].op
    BY <1>3, <2>1, <2>4 DEF InStep, Resting
  <2> QED BY <1>1, <2>1, <2>4, <2>5, <2>6, GotoInStep
<1>8. CASE ResumeNothing(w)
  <2>1. UNCHANGED <<journal, listed>> /\ task[w].pc \notin Resting /\ Leave(w)
    BY <1>8 DEF ResumeNothing, At, restVars, storeVars, Resting
  <2> QED BY <1>1, <2>1, LeaveInStep
<1>9. CASE Return(w) \/ Crash(w)
  <2>1. /\ task'[w] = Idle /\ UNCHANGED journal
        /\ listed'[w] = listed[w] \/ listed'[w] = NothingListed
    BY <1>9 DEF Return, Crash, storeVars, TInv, TypeOK
  <2>2. Return(w) => \A j \in Jobs : listed[w][j] = NoJob
    BY NothingToVisit DEF Return, At, Heading
  <2>3. \A j \in Jobs : listed'[w][j] = NoJob
    BY <1>9, <2>1, <2>2 DEF NothingListed, Return, Crash, TInv, TypeOK
  <2>4. ListingsInStep'
    BY <1>2, <2>3 DEF ListingsInStep
  <2> QED BY <1>1, <1>4, <1>5, <2>1, <2>4, RestsInStep DEF Resting
<1>10. CASE StartScan(w)
  <2>1. /\ task'[w].pc = "scan" /\ UNCHANGED journal
        /\ \A j \in Jobs : listed'[w][j] \in {jobFile[j], NoJob}
    BY <1>10 DEF StartScan, Goto, Idle, storeVars, TInv, TypeOK
  <2>2. ListingsInStep'
    BY <1>1, <1>2, <2>1 DEF ListingsInStep, Heading
  <2> QED BY <1>1, <1>4, <2>1, <2>2, RestsInStep DEF Resting
<1>11. CASE Classify(w)
  <2>1. task'[w].pc = "scan" /\ UNCHANGED <<journal, listed>>
    BY <1>11 DEF Classify, Goto, Idle, restVars, TInv, TypeOK
  <2>2. ListingsInStep'
    BY <1>1, <1>2, <1>3, <2>1 DEF ListingsInStep, Heading
  <2> QED BY <1>1, <1>4, <2>1, <2>2, RestsInStep DEF Resting
<1>12. CASE EndScan(w)
  <2>1. /\ task'[w].pc = "return" /\ UNCHANGED <<journal, listed>>
        /\ listed[w] = NothingListed
    BY <1>12 DEF EndScan, Leave, Goto, restVars, storeVars, TInv, TypeOK, Task
  <2>2. ListingsInStep'
    BY <1>2, <2>1 DEF ListingsInStep, NothingListed
  <2> QED BY <1>1, <1>4, <2>1, <2>2, RestsInStep DEF Resting
<1>13. ASSUME NEW i \in Jobs, CreateJob(w, i)
       PROVE  SInv'
  <2> DEFINE t == [Idle EXCEPT !.call = "create", !.job = i, !.next = "return",
                               !.mem.seq = 0]
             u == [t EXCEPT !.pc = "saveJob"]
  <2>1. /\ task'[w] = u /\ UNCHANGED listed /\ jobFile[i] = NoJob
        /\ journal' = [journal EXCEPT ![i] = <<[seq |-> 0, to |-> NoStatus]>>]
    BY <1>13 DEF CreateJob, Goto, restVars, TInv, TypeOK
  <2>2. /\ u.pc = "saveJob" /\ u.next = "return" /\ u.job = i /\ u.mem.seq = 0
        /\ u.mem.status = "queued"
    BY DEF Idle, Blank
  <2> HIDE DEF u
  <2>3. journal'[i] = <<[seq |-> 0, to |-> NoStatus]>> /\ Len(journal'[i]) = 1
        /\ \A j \in Jobs : j # i => journal'[j] = journal[j]
    BY <2>1 DEF TInv, TypeOK
  <2>4. FilesInStep'
    <3> SUFFICES ASSUME NEW j \in Jobs, jobFile[j] # NoJob
                 PROVE  /\ Contiguous(journal'[j]) => AheadByOne(j)'
                        /\ jobFile[j].status = "verifying" => HasEffect(j)'
      BY <1>1 DEF FilesInStep
    <3>1. \A to : Proof(j, to) => Proof(j, to)'
      BY <1>1, ProofLasts
    <3>2. HasEffect(j) => HasEffect(j)'
      BY <1>1 DEF HasEffect, OpsOf
    <3> QED BY <1>1, <2>1, <2>3, <3>1, <3>2 DEF SInv, FilesInStep, AheadByOne
  <2>5. ListingsInStep'
    <3>1. \A j \in Jobs : listed[w][j] = NoJob
      BY <1>13, NothingToVisit DEF CreateJob, At, Heading
    <3> QED BY <1>2, <2>1, <3>1 DEF ListingsInStep
  <2>6. InStep(task[w])' /\ Saving(task[w])' /\ ArmedTask(task[w])'
    <3>1. InStep(task[w])'
      BY <2>1, <2>2 DEF InStep, Resting
    <3>2. Saving(task[w])'
      BY <1>1, <2>1, <2>2, <2>3 DEF Saving, MayReplace
    <3>3. ArmedTask(task[w])'
      BY <2>1, <2>2 DEF ArmedTask, Heading, Armed, InFlightLabels, LockLabels
    <3> QED BY <3>1, <3>2, <3>3
  <2>7. EffectsOwned'
    BY <1>1 DEF SInv, EffectsOwned
  <2> QED BY <1>2, <2>4, <2>5, <2>6, <2>7 DEF SInv, TasksInStep
<1>14. ASSUME NEW call \in Calls, NEW i \in Jobs, NEW o \in Ops \union {NoOp}, Call(w, call, i, o)
       PROVE  SInv'
  <2> DEFINE t == [Idle EXCEPT !.call = call, !.job = i, !.mem = jobFile[i], !.op = o]
  <2>1. /\ UNCHANGED <<journal, listed>> /\ Goto(w, t, call) /\ jobFile[i] # NoJob
        /\ Heading(task[w]) = "idle"
    BY <1>14 DEF Call, CanLoad, restVars, storeVars, At, Heading
  <2>2. call \notin Resting \union ArmedLabels /\ call \in Labels
    BY JobAssumption DEF Resting, ArmedLabels, InFlightLabels, LockLabels, Labels, Handlers
  <2>3. jobFile[i] \in JobRecord
    BY <2>1 DEF TInv, TypeOK
  <2>4. t \in Task /\ t.job = i /\ t.mem = jobFile[i]
    BY <2>2, <2>3, IdleWellFormed DEF WellFormed, Task, Idle
  <2> HIDE DEF t
  <2>5. Armed(call, t.op, i, t.mem, lock', verified')
    BY <2>2, Unarmed
  <2> QED BY <1>1, <2>1, <2>2, <2>4, <2>5, LoadInStep
<1> QED BY <1>6, <1>7, <1>8, <1>9, <1>10, <1>11, <1>12, <1>13, <1>14

\* What a scan makes of job.json is what job.json said, or the one transition
\* that the journal is ahead by.
LEMMA ReconciledInStep ==
    ASSUME NEW j \in Jobs, NEW r \in JobRecord, NEW s \in Seq(Event), s # <<>>,
           r = jobFile[j], s = journal[j], NoJob \notin JobRecord,
           Contiguous(s), AheadByOne(j), Replayable(r, s),
           NEW st \in Statuses \union {NoStatus}, ReplaysTo(s, st)
    PROVE  /\ Reconciled(r, s, st).seq = Len(s) - 1
           /\ MayReplace(r, j, Reconciled(r, s, st))
<1> DEFINE m == Reconciled(r, s, st)
           n == Len(s)
<1>1. n \in Nat /\ n > 0 /\ DOMAIN s = 1 .. n
  OBVIOUS
<1>2. s[n].seq = n - 1
  BY <1>1 DEF Contiguous
<1>3. PICK i \in 1 .. n : ReplayedAt(r, s, i)
  BY DEF Replayable
<1>4. r.seq = i - 1
  BY <1>1, <1>3 DEF Contiguous, ReplayedAt
<1>5. /\ m.seq = IF r.seq < s[n].seq THEN s[n].seq ELSE r.seq
      /\ m.status = IF st = NoStatus THEN r.status ELSE st
      /\ m.op = r.op
  BY DEF Reconciled, JobRecord
<1>6. m.seq = n - 1
  BY <1>1, <1>2, <1>4, <1>5
<1> HIDE DEF m
<1>7. ASSUME st # NoStatus
      PROVE  st = r.status \/ (CanMove(r.status, st) /\ Proof(j, st))
  <2>1. PICK k \in 1 .. n : s[k].to = st /\ \A l \in k + 1 .. n : s[l].to = NoStatus
    BY <1>1, <1>7 DEF ReplaysTo
  <2>2. CASE k \in i + 1 .. n
    BY <1>4, <1>7, <2>1, <2>2 DEF AheadByOne
  <2>3. CASE k \notin i + 1 .. n
    <3>1. k \in 1 .. i
      BY <1>1, <2>3
    <3>2. PICK u \in Statuses \union {NoStatus} :
              EndsIn(s, i, u) /\ r.status = IF u = NoStatus THEN "queued" ELSE u
      BY <1>3 DEF ReplayedAt
    <3>3. u # NoStatus
      BY <1>7, <2>1, <3>1, <3>2 DEF EndsIn
    <3>4. PICK h \in 1 .. i : s[h].to = u /\ \A l \in h + 1 .. i : s[l].to = NoStatus
      BY <3>2, <3>3 DEF EndsIn
    <3>5. h = k
      <4>1. k \notin h + 1 .. i
        BY <1>7, <2>1, <3>4
      <4>2. h \notin k + 1 .. n
        BY <2>1, <3>3, <3>4
      <4> QED BY <1>1, <3>1, <4>1, <4>2
    <3> QED BY <2>1, <3>2, <3>3, <3>4, <3>5
  <2> QED BY <2>2, <2>3
<1>8. MayReplace(r, j, m)
  BY <1>5, <1>7 DEF MayReplace
<1> QED BY <1>6, <1>8 DEF m

LEMMA ScanInStep ==
    ASSUME TInv, SInv, RInv, OneWorker, NEW w \in Workers, NEW i \in Jobs, ScanJob(w, i)
    PROVE  SInv'
<1> DEFINE r == listed[w][i]
           s == journal[i]
           t == [task[w] EXCEPT !.job = i, !.next = "classify"]
<1>1. UNCHANGED <<jobFile, journal, mutations, verified, lock>> /\ Keeps
  BY DEF ScanJob, hostVars, storeVars, Keeps, Lasting
<1>2. \A v \in Workers : v = w
  BY DEF OneWorker
<1>3. /\ task[w] \in Task /\ task[w].pc = "scan" /\ ListingsInStep /\ r # NoJob
      /\ listed \in [Workers -> [Jobs -> JobRecord \union {NoJob}]]
      /\ s \in Seq(Event) /\ jobFile[i] \in JobRecord \union {NoJob}
  BY DEF TInv, TypeOK, SInv, ScanJob, At
<1>4. FilesInStep'
  BY <1>1, FilesKept
<1>5. r = jobFile[i]
  BY <1>3 DEF ListingsInStep
<1>6. CASE listed' = [listed EXCEPT ![w][i] = NoJob] /\ UNCHANGED task
  <2>1. \A j \in Jobs : listed'[w][j] \in {listed[w][j], NoJob}
    BY <1>3, <1>6
  <2>2. ListingsInStep'
    BY <1>1, <1>2, <1>3, <1>6, <2>1 DEF ListingsInStep
  <2> QED BY <1>1, <1>3, <1>4, <1>6, <2>2, RestsInStep DEF Resting
<1>7. CASE listed' = [listed EXCEPT ![w] = NothingListed] /\ Leave(w)
  <2>1. /\ task'[w].pc = "return" /\ \A j \in Jobs : listed'[w][j] = NoJob
    BY <1>3, <1>7 DEF Leave, Goto, NothingListed, TInv, TypeOK, Task
  <2>2. ListingsInStep'
    BY <1>2, <2>1 DEF ListingsInStep
  <2> QED BY <1>1, <1>4, <2>1, <2>2, RestsInStep DEF Resting
<1>8. ASSUME Contiguous(s), listed' = [listed EXCEPT ![w][i] = NoJob],
             NEW st \in Statuses \union {NoStatus}, ReplaysTo(s, st),
             NEW label \in {"saveJob", "classify"}, NEW m, m = Reconciled(r, s, st),
             Goto(w, [t EXCEPT !.mem = m], label)
      PROVE  SInv'
  <2> DEFINE u == [[t EXCEPT !.mem = m] EXCEPT !.pc = label]
  <2>1. task'[w] = u
    BY <1>8 DEF Goto, TInv, TypeOK
  <2>2. u.pc = label /\ u.job = i /\ u.mem = m /\ u.next = "classify"
    BY <1>3 DEF Task
  <2>3. m.seq = Len(s) - 1 /\ MayReplace(jobFile[i], i, m)
    <3>1. s # <<>> /\ r \in JobRecord /\ Replayable(r, s) /\ AheadByOne(i)
      BY <1>3, <1>5, <1>8 DEF TInv, Journaled, RInv, SInv, FilesInStep
    <3>2. s \in Seq(Event) /\ s = journal[i] /\ Contiguous(s) /\ ReplaysTo(s, st)
      BY <1>3, <1>8
    <3>3. NoJob \notin JobRecord
      BY JobAssumption
    <3> HIDE DEF r, s
    <3>4. /\ Reconciled(r, s, st).seq = Len(s) - 1
          /\ MayReplace(r, i, Reconciled(r, s, st))
      BY <1>5, <3>1, <3>2, <3>3, ReconciledInStep
    <3> QED BY <1>5, <1>8, <3>4
  <2>4. MayReplace(jobFile[i], i, m)'
    <3>1. \A to : Proof(i, to) => Proof(i, to)'
      BY <1>1, ProofLasts
    <3> QED BY <1>1, <2>3, <3>1 DEF MayReplace
  <2> HIDE DEF u, t, r
  <2>5. \A j \in Jobs : listed'[w][j] = IF j = i THEN NoJob ELSE listed[w][j]
    BY <1>3, <1>8
  <2>6. ListingsInStep'
    BY <1>1, <1>2, <1>3, <1>8, <2>1, <2>2, <2>5 DEF ListingsInStep, Heading
  <2>7. InStep(task[w])'
    BY <1>8, <2>1, <2>2 DEF InStep, Resting
  <2>8. Saving(task[w])'
    BY <1>1, <2>1, <2>2, <2>3, <2>4 DEF Saving
  <2>9. ArmedTask(task[w])'
    BY <1>8, <2>1, <2>2 DEF ArmedTask, Heading, Armed, InFlightLabels, LockLabels
  <2>10. EffectsOwned'
    BY <1>1 DEF SInv, EffectsOwned
  <2> QED BY <1>2, <1>4, <2>6, <2>7, <2>8, <2>9, <2>10 DEF SInv, TasksInStep
<1>9. \/ listed' = [listed EXCEPT ![w][i] = NoJob] /\ UNCHANGED task
      \/ listed' = [listed EXCEPT ![w] = NothingListed] /\ Leave(w)
      \/ /\ Contiguous(s) /\ listed' = [listed EXCEPT ![w][i] = NoJob]
         /\ \E st \in Statuses \union {NoStatus} :
              /\ ReplaysTo(s, st)
              /\ \E label \in {"saveJob", "classify"}, m \in {Reconciled(r, s, st)} :
                    Goto(w, [t EXCEPT !.mem = m], label)
  BY DEF ScanJob
<1> HIDE DEF t, r, s
<1> QED BY <1>6, <1>7, <1>8, <1>9

LEMMA SInit == Init => SInv
<1> SUFFICES ASSUME Init PROVE SInv
  OBVIOUS
<1>1. \A w \in Workers : task[w] = Idle /\ \A j \in Jobs : listed[w][j] = NoJob
  BY DEF Init
<1>2. \A o \in Ops : ~(mutations[o] > 0)
  BY DEF Init, HostInit
<1>3. \A j \in Jobs : jobFile[j] = NoJob
  BY DEF Init
<1>4. Idle.pc = "idle" /\ Heading(Idle) = "idle"
  BY DEF Idle, Heading
<1>5. TasksInStep
  BY <1>1, <1>4 DEF TasksInStep, InStep, Saving, ArmedTask, Armed, Resting, InFlightLabels,
                    LockLabels
<1> QED BY <1>1, <1>2, <1>3, <1>5 DEF SInv, FilesInStep, EffectsOwned, ListingsInStep

LEMMA SNext ==
    ASSUME KeysOfOneJob, OneWorker
    PROVE  TInv /\ EInv /\ RInv /\ CopiesCurrent /\ XInv /\ SInv /\ [Next]_vars => SInv'
<1> SUFFICES ASSUME TInv, EInv, RInv, CopiesCurrent, XInv, SInv, [Next]_vars PROVE SInv'
  OBVIOUS
<1>1. CASE UNCHANGED vars
  <2>1. /\ UNCHANGED <<jobFile, journal, listed, task, mutations, lock, verified>>
        /\ Keeps
    BY <1>1 DEF vars, hostVars, storeVars, Keeps, Lasting
  <2>2. FilesInStep'
    BY <2>1, FilesKept
  <2>3. EffectsOwned' /\ ListingsInStep'
    BY <2>1 DEF SInv, EffectsOwned, ListingsInStep
  <2>4. TasksInStep'
    <3> SUFFICES ASSUME NEW w \in Workers
                 PROVE  InStep(task[w])' /\ Saving(task[w])' /\ ArmedTask(task[w])'
      BY DEF TasksInStep
    <3>1. InStep(task[w]) /\ Saving(task[w]) /\ ArmedTask(task[w])
      BY DEF SInv, TasksInStep
    <3>2. InStep(task[w])'
      BY <2>1, <3>1 DEF InStep
    <3>3. ArmedTask(task[w])'
      BY <2>1, <3>1 DEF ArmedTask
    <3>4. Saving(task[w])'
      BY <2>1, <3>1 DEF Saving, MayReplace, Proof, HasEffect, Confirmed
    <3> QED BY <3>2, <3>3, <3>4
  <2> QED BY <2>2, <2>3, <2>4 DEF SInv
<1>2. ASSUME NEW w \in Workers, Step(w)
      PROVE  SInv'
  BY <1>2, PlainStepsInStep, WritingStepsInStep, SaveInStep, CallerStepsInStep, ScanInStep
     DEF Step
<1>3. ASSUME NEW w \in Workers,
             \/ \E j \in Jobs : CreateJob(w, j)
             \/ \E call \in Calls, j \in Jobs, o \in Ops \union {NoOp} : Call(w, call, j, o)
             \/ StartScan(w)
             \/ Crash(w)
      PROVE  SInv'
  BY <1>3, CallerStepsInStep
<1> QED BY <1>1, <1>2, <1>3 DEF Next

\* The write-ahead rule, for one step.
LEMMA MutatesInFlight ==
    ASSUME TInv, EInv, CopiesCurrent, SInv, [Next]_vars,
           NEW o \in Ops, mutations'[o] # mutations[o]
    PROVE  /\ jobFile[OpJob[o]] # NoJob
           /\ jobFile[OpJob[o]].status \in InFlight
           /\ jobFile[OpJob[o]].op = o
           /\ lock # NoLock /\ lock.job = OpJob[o]
<1>1. PICK w \in Workers : HostSavesDocument(w)
  BY DocumentKept DEF Crash, Forget, ReadDocument
<1>2. task[w].op = o
  BY <1>1, SavesInPlace
<1>3. /\ task[w].pc = "saveDocument" /\ Heading(task[w]) = "saveDocument"
      /\ task[w].job \in Jobs
      /\ InStep(task[w]) /\ ArmedTask(task[w])
      /\ Evidence(task[w], manifests, verified, receipts)
  BY <1>1 DEF HostSavesDocument, At, Heading, TInv, WellFormed, SInv, TasksInStep, EInv,
              TasksBacked
<1>4. OpJob[o] = task[w].job
  BY <1>2, <1>3, HostAssumption DEF Evidence
<1> QED BY <1>2, <1>3, <1>4 DEF InStep, ArmedTask, Armed, InFlightLabels, LockLabels, Resting

JInv == TInv /\ EInv /\ RInv /\ CopiesCurrent /\ XInv /\ SInv

LEMMA OneWorkerInvariant ==
    ASSUME OneWorker, KeysOfOneJob
    PROVE  Spec => [](TInv /\ EInv /\ RInv /\ CopiesCurrent /\ XInv /\ SInv)
<1>1. Init => JInv
  BY TInit, EInit, RInit, CopiesInit, XInit, SInit DEF JInv
<1>2. JInv /\ [Next]_vars => JInv'
  BY TNext, ENext, RNext, CopiesNext, XNext, SNext DEF JInv
<1>3. JInv => TInv /\ EInv /\ RInv /\ CopiesCurrent /\ XInv /\ SInv
  BY DEF JInv
<1> QED BY <1>1, <1>2, <1>3, PTL DEF Spec

\* Through every crash and restart of one service with no concurrent caller, the
\* document changes only while job.json says that this operation of the job is
\* being applied, and under the job's lock, so a restart finds the operation
\* (core/job_service.py:307-330).
THEOREM WriteAhead ==
    ASSUME OneWorker, KeysOfOneJob
    PROVE  Spec => MutatesOnlyWhileApplying
<1>1. TInv /\ EInv /\ CopiesCurrent /\ SInv /\ [Next]_vars =>
          [\A o \in Ops : mutations'[o] # mutations[o] =>
              /\ jobFile[OpJob[o]].status \in InFlight
              /\ jobFile[OpJob[o]].op = o
              /\ lock # NoLock /\ lock.job = OpJob[o]]_vars
  BY MutatesInFlight
<1> QED BY <1>1, OneWorkerInvariant, PTL DEF Spec, MutatesOnlyWhileApplying

-----------------------------------------------------------------------------
(***************************************************************************)
(* The refinement.  A save of job.json creates a job, moves it along one   *)
(* edge or leaves its status alone; the mutation is the abstract one; a    *)
(* verify_operation that succeeds confirms the effect, or repeats a        *)
(* confirmation; nothing else shows.                                        *)
(***************************************************************************)

\* What JobLifecycle sees of the state.
StatusMap == [j \in Jobs |-> IF jobFile[j] = NoJob THEN NoStatus ELSE jobFile[j].status]
EffectMap == [j \in Jobs |-> {o \in OpsOf(j) : mutations[o] > 0}]
ConfirmMap == [j \in Jobs |-> OpsOf(j) \intersect verified # {}]

\* No other step shows.
LEMMA OthersHidden ==
    ASSUME TInv, [Next]_vars
    PROVE  \/ UNCHANGED <<jobFile, mutations, verified>>
           \/ \E w \in Workers : SaveJob(w) \/ HostSavesDocument(w) \/ Verify(w) \/ VerifyAgain(w)
<1>1. CASE UNCHANGED vars
  BY <1>1 DEF vars, hostVars, storeVars
<1>2. ASSUME NEW w \in Workers, Step(w),
             ~(SaveJob(w) \/ HostSavesDocument(w) \/ Verify(w) \/ VerifyAgain(w))
      PROVE  UNCHANGED <<jobFile, mutations, verified>>
  BY <1>2
     DEF Step, restVars, hostVars, storeVars, RecordOperation, RecordKey,
         Return, Inspect, Prepare, CreateCheckpoint, CheckpointCreated,
         MarkPrepared, Cancel, Recover, Restore, AcquireLock, CheckIdempotency, Preflight,
         ApplyStarted, RegisterIntent, Dispatch, CheckRevision, ReadDocument,
         HostRecordsOperation, HostRecordsKey, Interrupted,
         QueryAfterFailure, StartVerifying, VerifyFailed, SaveReceipt,
         RegisterReceipt, ReceiptRecorded, VerifySucceeded, Complete, VerifyJob,
         ResumeInFlight, ResumeVerifying, ResumeNothing, Recheck, ScanJob,
         Classify, EndScan
<1>3. ASSUME NEW w \in Workers,
             \/ \E j \in Jobs : CreateJob(w, j)
             \/ \E call \in Calls, j \in Jobs, o \in Ops \union {NoOp} : Call(w, call, j, o)
             \/ StartScan(w)
             \/ Crash(w)
      PROVE  UNCHANGED <<jobFile, mutations, verified>>
  BY <1>3 DEF CreateJob, Call, StartScan, Crash, Forget, restVars, hostVars, storeVars
<1> QED BY <1>1, <1>2, <1>3 DEF Next

LEMMA HiddenMaps ==
    /\ UNCHANGED jobFile => StatusMap' = StatusMap
    /\ UNCHANGED mutations => EffectMap' = EffectMap
    /\ UNCHANGED verified => ConfirmMap' = ConfirmMap
BY DEF StatusMap, EffectMap, ConfirmMap, OpsOf

\* A confirmation of an operation of job i.
LEMMA ConfirmMaps ==
    ASSUME NEW i \in Jobs, NEW o \in Ops, OpJob[o] = i, verified' = verified \union {o}
    PROVE  ConfirmMap' = [ConfirmMap EXCEPT ![i] = TRUE]
<1>1. ASSUME NEW j \in Jobs, j # i
      PROVE  (OpsOf(j) \intersect verified' # {}) = (OpsOf(j) \intersect verified # {})
  BY <1>1 DEF OpsOf
<1>2. OpsOf(i) \intersect verified' # {}
  BY DEF OpsOf
<1> DEFINE c(j) == OpsOf(j) \intersect verified # {}
           d(j) == OpsOf(j) \intersect verified' # {}
<1>3. /\ ConfirmMap' = [j \in Jobs |-> d(j)] /\ ConfirmMap = [j \in Jobs |-> c(j)]
      /\ d(i) = TRUE /\ \A j \in Jobs : j # i => d(j) = c(j)
  BY <1>1, <1>2 DEF ConfirmMap, OpsOf
<1> HIDE DEF c, d
<1> QED BY <1>3

\* A save of job.json.
LEMMA SaveShows ==
    ASSUME TInv, SInv, NEW w \in Workers, SaveJob(w)
    PROVE  \E i \in Jobs :
              \/ StatusMap' = StatusMap
              \/ StatusMap[i] = NoStatus /\ StatusMap' = [StatusMap EXCEPT ![i] = "queued"]
              \/ /\ StatusMap[i] \in Statuses
                 /\ \E to \in ALLOWED_TRANSITIONS[StatusMap[i]] :
                      /\ Proof(i, to)
                      /\ StatusMap' = [StatusMap EXCEPT ![i] = to]
<1> DEFINE m == task[w].mem
<1>1. PICK i \in Jobs : task[w].job = i
  BY DEF SaveJob, At, TInv, WellFormed
<1>2. /\ jobFile' = [jobFile EXCEPT ![i] = m] /\ jobFile \in [Jobs -> JobRecord \union {NoJob}]
      /\ m \in JobRecord /\ m # NoJob /\ MayReplace(jobFile[i], i, m)
  BY <1>1, JobAssumption
     DEF SaveJob, At, TInv, TypeOK, Task, SInv, TasksInStep, Saving
<1> HIDE DEF m
<1>3. StatusMap' = [StatusMap EXCEPT ![i] = m.status]
  BY <1>2 DEF StatusMap
<1>4. CASE jobFile[i] = NoJob
  <2>1. StatusMap[i] = NoStatus /\ m.status = "queued"
    BY <1>2, <1>4 DEF StatusMap, MayReplace
  <2> QED BY <1>3, <2>1
<1>5. CASE jobFile[i] # NoJob
  <2>1. StatusMap[i] = jobFile[i].status /\ jobFile[i].status \in Statuses
    BY <1>2, <1>5 DEF StatusMap, JobRecord
  <2>2. CASE m.status = jobFile[i].status
    BY <1>3, <2>1, <2>2 DEF StatusMap
  <2>3. CASE CanMove(jobFile[i].status, m.status) /\ Proof(i, m.status)
    BY <1>3, <2>1, <2>3 DEF CanMove
  <2> QED BY <1>2, <1>5, <2>2, <2>3 DEF MayReplace
<1> QED BY <1>4, <1>5

\* The change of the document.
LEMMA MutationShows ==
    ASSUME TInv, EInv, CopiesCurrent, AtMostOnce', SInv, [Next]_vars,
           NEW w \in Workers, HostSavesDocument(w)
    PROVE  \E i \in Jobs, o \in Ops :
              /\ StatusMap[i] \in InFlight
              /\ EffectMap[i] = {}
              /\ EffectMap' = [EffectMap EXCEPT ![i] = {o}]
<1> DEFINE o == task[w].op
           i == OpJob[o]
<1>1. /\ o \in Ops /\ OpJob[o] \in Jobs
      /\ mutations' = [mutations EXCEPT ![o] = mutations[o] + 1]
      /\ mutations \in [Ops -> Nat]
  BY SavesInPlace, JobAssumption
<1>2. mutations'[o] = mutations[o] + 1 /\ mutations'[o] <= 1
  BY <1>1 DEF AtMostOnce
<1>3. mutations[o] = 0 /\ mutations'[o] > 0
  BY <1>1, <1>2
<1>4. /\ jobFile[i] # NoJob /\ jobFile[i].status \in InFlight /\ jobFile[i].op = o
  BY <1>1, <1>2, <1>3, MutatesInFlight
<1>5. \A p \in Ops : OpJob[p] = i => ~(mutations[p] > 0)
  BY <1>3, <1>4 DEF SInv, EffectsOwned
<1>6. \A p \in Ops : mutations'[p] > 0 <=> mutations[p] > 0 \/ p = o
  BY <1>1, <1>3
<1> HIDE DEF i
<1>7. i \in Jobs /\ OpJob[o] = i
  BY <1>1 DEF i
<1> HIDE DEF o
<1>8. EffectMap[i] = {} /\ StatusMap[i] \in InFlight
  BY <1>4, <1>5, <1>7 DEF EffectMap, StatusMap, OpsOf
<1>9. EffectMap' = [EffectMap EXCEPT ![i] = {o}]
  <2>1. \A j \in Jobs : {p \in OpsOf(j) : mutations'[p] > 0} =
            IF j = i THEN {o} ELSE {p \in OpsOf(j) : mutations[p] > 0}
    BY <1>1, <1>5, <1>6, <1>7 DEF OpsOf
  <2> QED BY <1>7, <2>1 DEF EffectMap, OpsOf
<1> QED BY <1>1, <1>7, <1>8, <1>9

\* A verification that succeeds.
LEMMA ConfirmationShows ==
    ASSUME TInv, EInv, SInv, NEW w \in Workers, Verify(w) \/ VerifyAgain(w)
    PROVE  \E i \in Jobs :
              \/ ConfirmMap' = ConfirmMap
              \/ /\ StatusMap[i] = "verifying"
                 /\ EffectMap[i] # {}
                 /\ ConfirmMap' = [ConfirmMap EXCEPT ![i] = TRUE]
<1> DEFINE o == task[w].op
<1>1. /\ task[w].pc \in {"verify", "verifyAgain"} /\ Heading(task[w]) = task[w].pc
      /\ InStep(task[w]) /\ ArmedTask(task[w]) /\ WellFormed(task[w])
      /\ Evidence(task[w], manifests, verified, receipts)
  BY DEF Verify, VerifyAgain, At, Heading, TInv, SInv, TasksInStep, EInv, TasksBacked
<1>2. PICK i \in Jobs : task[w].job = i
  BY <1>1 DEF WellFormed
<1>3. o \in Ops /\ OpJob[o] = i
  BY <1>1, <1>2, HostAssumption DEF WellFormed, OpLabels, Evidence
<1>4. CASE UNCHANGED verified
  BY <1>2, <1>4, HiddenMaps
<1>5. CASE verified' = verified \union {o}
  <2>1. ConfirmMap' = [ConfirmMap EXCEPT ![i] = TRUE]
    BY <1>3, <1>5, ConfirmMaps
  <2>2. CASE jobFile[i].status = "verifying"
    <3>1. jobFile[i] # NoJob
      BY <1>1, <1>2 DEF InStep, Resting
    <3>2. HasEffect(i)
      BY <2>2, <3>1 DEF SInv, FilesInStep
    <3>3. StatusMap[i] = "verifying" /\ EffectMap[i] # {}
      BY <2>2, <3>1, <3>2 DEF StatusMap, EffectMap, HasEffect
    <3> QED BY <2>1, <3>3
  <2>3. CASE Confirmed(i, verified)
    <3>1. ConfirmMap[i] = TRUE
      BY <2>3 DEF ConfirmMap, Confirmed
    <3>2. [ConfirmMap EXCEPT ![i] = TRUE] = ConfirmMap
      BY <3>1 DEF ConfirmMap
    <3> QED BY <1>2, <2>1, <3>2
  <2>4. task[w].mem.status = jobFile[i].status
    BY <1>1, <1>2 DEF InStep, Resting
  <2> QED BY <1>1, <1>2, <2>2, <2>3, <2>4 DEF ArmedTask, Armed
<1> QED BY <1>4, <1>5 DEF Verify, VerifyAgain

\* Both modules read the status graph of JobStatus.
LEMMA SameGraph ==
    /\ Lifecycle!Statuses = Statuses
    /\ Lifecycle!NoStatus = NoStatus
    /\ Lifecycle!InFlight = InFlight
    /\ Lifecycle!ALLOWED_TRANSITIONS = ALLOWED_TRANSITIONS
BY DEF Lifecycle!Statuses, Statuses, Lifecycle!NoStatus, NoStatus,
       Lifecycle!InFlight, InFlight, Lifecycle!ALLOWED_TRANSITIONS, ALLOWED_TRANSITIONS,
       Lifecycle!TERMINAL_STATUSES, TERMINAL_STATUSES

LEMMA RefinesInit == Init => Lifecycle!Init
<1> SUFFICES ASSUME Init PROVE Lifecycle!Init
  OBVIOUS
<1>1. \A j \in Jobs : jobFile[j] = NoJob
  BY DEF Init
<1>2. \A o \in Ops : ~(mutations[o] > 0) /\ o \notin verified
  BY DEF Init, HostInit
<1>3. \A j \in Jobs : {o \in OpsOf(j) : mutations[o] > 0} = {}
  BY <1>2 DEF OpsOf
<1>4. \A j \in Jobs : (OpsOf(j) \intersect verified # {}) = FALSE
  BY <1>2 DEF OpsOf
<1> QED BY <1>1, <1>3, <1>4, SameGraph DEF Lifecycle!Init

LEMMA RefinesNext ==
    ASSUME TInv, EInv, CopiesCurrent, AtMostOnce', SInv, [Next]_vars
    PROVE  [Lifecycle!Next]_(Lifecycle!vars)
<1>1. CASE UNCHANGED <<jobFile, mutations, verified>>
  BY <1>1, HiddenMaps DEF Lifecycle!vars, StatusMap, EffectMap, ConfirmMap
<1>2. ASSUME NEW w \in Workers, SaveJob(w)
      PROVE  [Lifecycle!Next]_(Lifecycle!vars)
  <2>1. EffectMap' = EffectMap /\ ConfirmMap' = ConfirmMap
    BY <1>2, HiddenMaps DEF SaveJob, restVars, hostVars
  <2>2. PICK i \in Jobs :
              \/ StatusMap' = StatusMap
              \/ StatusMap[i] = NoStatus /\ StatusMap' = [StatusMap EXCEPT ![i] = "queued"]
              \/ /\ StatusMap[i] \in Statuses
                 /\ \E to \in ALLOWED_TRANSITIONS[StatusMap[i]] :
                      /\ Proof(i, to)
                      /\ StatusMap' = [StatusMap EXCEPT ![i] = to]
    BY <1>2, SaveShows
  <2>3. CASE StatusMap' = StatusMap
    BY <2>1, <2>3 DEF Lifecycle!vars, StatusMap, EffectMap, ConfirmMap
  <2>4. CASE StatusMap[i] = NoStatus /\ StatusMap' = [StatusMap EXCEPT ![i] = "queued"]
    <3>1. Lifecycle!Create(i)
      BY <2>1, <2>4, SameGraph DEF Lifecycle!Create, StatusMap, EffectMap, ConfirmMap
    <3> QED BY <3>1 DEF Lifecycle!Next
  <2>5. ASSUME StatusMap[i] \in Statuses,
               NEW to \in ALLOWED_TRANSITIONS[StatusMap[i]], Proof(i, to),
               StatusMap' = [StatusMap EXCEPT ![i] = to]
        PROVE  [Lifecycle!Next]_(Lifecycle!vars)
    <3>1. Lifecycle!Evidence(i, to)
      <4>1. to = "verifying" => EffectMap[i] # {}
        BY <2>5 DEF Proof, HasEffect, EffectMap
      <4>2. to = "completed" => ConfirmMap[i]
        BY <2>5 DEF Proof, Confirmed, ConfirmMap
      <4> QED BY <4>1, <4>2 DEF Lifecycle!Evidence, EffectMap, ConfirmMap
    <3>2. Lifecycle!Move(i)
      BY <2>1, <2>5, <3>1, SameGraph DEF Lifecycle!Move, StatusMap, EffectMap, ConfirmMap
    <3> QED BY <3>2 DEF Lifecycle!Next
  <2> QED BY <2>2, <2>3, <2>4, <2>5
<1>3. ASSUME NEW w \in Workers, HostSavesDocument(w)
      PROVE  [Lifecycle!Next]_(Lifecycle!vars)
  <2>1. StatusMap' = StatusMap /\ ConfirmMap' = ConfirmMap
    BY <1>3, HiddenMaps DEF HostSavesDocument, storeVars
  <2>2. PICK i \in Jobs, o \in Ops :
              /\ StatusMap[i] \in InFlight
              /\ EffectMap[i] = {}
              /\ EffectMap' = [EffectMap EXCEPT ![i] = {o}]
    BY <1>3, MutationShows
  <2>3. Lifecycle!Mutate(i, o)
    BY <2>1, <2>2, SameGraph DEF Lifecycle!Mutate, StatusMap, EffectMap, ConfirmMap
  <2> QED BY <2>3 DEF Lifecycle!Next
<1>4. ASSUME NEW w \in Workers, Verify(w) \/ VerifyAgain(w)
      PROVE  [Lifecycle!Next]_(Lifecycle!vars)
  <2>1. StatusMap' = StatusMap /\ EffectMap' = EffectMap
    BY <1>4, HiddenMaps DEF Verify, VerifyAgain, hostVars
  <2>2. PICK i \in Jobs :
              \/ ConfirmMap' = ConfirmMap
              \/ /\ StatusMap[i] = "verifying"
                 /\ EffectMap[i] # {}
                 /\ ConfirmMap' = [ConfirmMap EXCEPT ![i] = TRUE]
    BY <1>4, ConfirmationShows
  <2>3. CASE ConfirmMap' = ConfirmMap
    BY <2>1, <2>3 DEF Lifecycle!vars, StatusMap, EffectMap, ConfirmMap
  <2>4. CASE /\ StatusMap[i] = "verifying"
             /\ EffectMap[i] # {}
             /\ ConfirmMap' = [ConfirmMap EXCEPT ![i] = TRUE]
    <3>1. Lifecycle!Confirm(i)
      BY <2>1, <2>4 DEF Lifecycle!Confirm, StatusMap, EffectMap, ConfirmMap
    <3> QED BY <3>1 DEF Lifecycle!Next
  <2> QED BY <2>2, <2>3, <2>4
<1> QED BY <1>1, <1>2, <1>3, <1>4, OthersHidden

\* One service with no concurrent caller, over its files, the host's and any
\* number of crashes, is JobLifecycle: a job moves along ALLOWED_TRANSITIONS
\* (core/jobs.py:40), its request takes effect once and only in flight, and
\* evidence comes before "verifying" and "completed".
THEOREM ServiceImplementsLifecycle ==
    ASSUME OneWorker, KeysOfOneJob, RevisionsNotReused
    PROVE  Spec => ImplementsLifecycle
<1>1. TInv /\ EInv /\ CopiesCurrent /\ AtMostOnce' /\ SInv /\ [Next]_vars
          => [Lifecycle!Next]_(Lifecycle!vars)
  BY RefinesNext
<1>2. Spec => []AtMostOnce
  BY RequestTakesEffectOnce
<1> QED BY <1>1, <1>2, RefinesInit, OneWorkerInvariant, PTL
        DEF Spec, ImplementsLifecycle, Lifecycle!Spec
=============================================================================
