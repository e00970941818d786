-------------------------- MODULE JobService_proofs --------------------------
(***************************************************************************)
(* Theorems about JobService, for any number of jobs, operations, workers  *)
(* and crashes.  Every invariant is proved the same way: what holds of the *)
(* files is strengthened with what holds of the record task[w] of a worker *)
(* in the middle of a call, for each label the call may be at.             *)
(***************************************************************************)
EXTENDS JobService, SequenceTheorems, TLAPS

-----------------------------------------------------------------------------
(***************************************************************************)
(* Types.                                                                  *)
(***************************************************************************)

\* The steps that read the operation of the call.
OpLabels == {"apply", "checkIdempotency", "preflight", "applyStarted", "registerIntent",
             "redispatch", "recheck", "dispatch", "checkRevision",
             "saveDocument", "recordOperation", "recordKey",
             "interrupted", "queryAfterFailure", "applied", "verify", "saveReceipt",
             "registerReceipt", "verifyJob", "verifyAgain"}

\* The step a call has reached, once the save under way is over.
Heading(t) == IF t.pc = "saveJob" THEN t.next ELSE t.pc

\* A call past its first step has a job, and an operation where it needs one.
WellFormed(t) ==
    /\ t \in Task
    /\ t.pc \notin {"idle", "return", "scan"} => t.job \in Jobs
    /\ Heading(t) \in OpLabels => t.op \in Ops

\* A job that is on disk, in a listing or in a call has a journal.
Journaled ==
    \A j \in Jobs :
        \/ jobFile[j] # NoJob
        \/ \E w \in Workers : task[w].job = j \/ listed[w][j] # NoJob
        => journal[j] # <<>>

TInv == /\ TypeOK
        /\ \A w \in Workers : WellFormed(task[w])
        /\ Journaled

\* A step of a call keeps every task record well formed if it does so for the
\* record of the worker that takes it.
LEMMA GotoWellFormed ==
    ASSUME task \in [Workers -> Task], \A v \in Workers : WellFormed(task[v]),
           NEW w \in Workers, NEW t, NEW label,
           Goto(w, t, label), WellFormed([t EXCEPT !.pc = label])
    PROVE  /\ task' \in [Workers -> Task]
           /\ \A v \in Workers : WellFormed(task'[v])
           /\ \A v \in Workers : task'[v] = IF v = w THEN [t EXCEPT !.pc = label] ELSE task[v]
BY DEF Goto, WellFormed

\* Leaving a call is always well formed.
LEMMA LeaveWellFormed ==
    ASSUME task \in [Workers -> Task], \A v \in Workers : WellFormed(task[v]),
           NEW w \in Workers, Leave(w)
    PROVE  /\ task' \in [Workers -> Task]
           /\ \A v \in Workers : WellFormed(task'[v])
           /\ \A v \in Workers : task'[v].job = task[v].job
<1>1. WellFormed([task[w] EXCEPT !.pc = "return"])
  BY DEF WellFormed, Task, Heading, Labels, OpLabels
<1> QED BY <1>1, GotoWellFormed DEF Leave, Task, WellFormed

\* The record Idle is well formed.
LEMMA IdleWellFormed == WellFormed(Idle)
BY DEF WellFormed, Idle, Task, Heading, Labels, Blank, JobRecord, Statuses, OpLabels

\* An appended event keeps the journals well typed, and only adds to them.
LEMMA AppendType ==
    ASSUME TypeOK, NEW w \in Workers, NEW to \in Statuses \union {NoStatus},
           task[w].job \in Jobs, Append1(w, to)
    PROVE  /\ journal' \in [Jobs -> Seq(Event)]
           /\ \A j \in Jobs : journal[j] # <<>> => journal'[j] # <<>>
<1> DEFINE e == [seq |-> task[w].mem.seq + 1, to |-> to]
<1>1. task[w].mem \in JobRecord
  BY DEF TypeOK, Task
<1>2. e.seq \in Nat
  BY <1>1 DEF JobRecord
<1>3. e \in Event
  BY <1>2 DEF Event
<1>4. journal' = [journal EXCEPT ![task[w].job] = Append(@, e)]
  BY DEF Append1
<1> HIDE DEF e
<1>5. \A s \in Seq(Event) : Append(s, e) \in Seq(Event) /\ Append(s, e) # <<>>
  BY <1>3, AppendProperties
<1> QED BY <1>4, <1>5 DEF TypeOK

LEMMA MovedType ==
    ASSUME NEW m \in JobRecord, NEW to \in Statuses
    PROVE  Moved(m, to) \in JobRecord
<1> DEFINE e == m.error \/ to = "recovery_required"
<1>1. e \in BOOLEAN
  OBVIOUS
<1>2. Moved(m, to) = [m EXCEPT !.status = to, !.seq = m.seq + 1, !.error = e]
  BY DEF Moved, JobRecord
<1>3. m.seq + 1 \in Nat
  BY DEF JobRecord
<1>4. \A s \in Nat, b \in BOOLEAN :
          [m EXCEPT !.status = to, !.seq = s, !.error = b] \in JobRecord
  BY DEF JobRecord
<1> HIDE DEF e
<1> QED BY <1>1, <1>2, <1>3, <1>4

\* What a step inside a call does to the journals and to the task records.
Advances ==
    /\ journal' \in [Jobs -> Seq(Event)]
    /\ \A j \in Jobs : journal[j] # <<>> => journal'[j] # <<>>
    /\ task' \in [Workers -> Task]
    /\ \A v \in Workers : WellFormed(task'[v])
    /\ \A v \in Workers : task'[v].job = task[v].job

LEMMA LeaveAdvances ==
    ASSUME TInv, NEW w \in Workers, Leave(w), UNCHANGED journal
    PROVE  Advances
BY LeaveWellFormed DEF TInv, TypeOK, Advances

LEMMA GotoAdvances ==
    ASSUME TInv, NEW w \in Workers, NEW t \in Task, NEW label \in Labels,
           t.job = task[w].job, task[w].job \in Jobs,
           label \in OpLabels => t.op \in Ops,
           label = "saveJob" /\ t.next \in OpLabels => t.op \in Ops,
           Goto(w, t, label), UNCHANGED journal
    PROVE  Advances
<1> DEFINE u == [t EXCEPT !.pc = label]
<1>1. u \in Task /\ u.pc = label /\ u.job = t.job /\ u.op = t.op /\ u.next = t.next
  BY DEF Task
<1>2. WellFormed(u)
  BY <1>1 DEF WellFormed, Heading
<1>3. /\ task' \in [Workers -> Task]
      /\ \A v \in Workers : WellFormed(task'[v])
      /\ \A v \in Workers : task'[v] = IF v = w THEN u ELSE task[v]
  BY <1>2, GotoWellFormed DEF TInv, TypeOK
<1> QED BY <1>1, <1>3 DEF TInv, TypeOK, Advances

LEMMA EmitAdvances ==
    ASSUME TInv, NEW w \in Workers, NEW t \in Task, NEW label \in Labels,
           t.job = task[w].job, task[w].job \in Jobs, label # "saveJob",
           label \in OpLabels => t.op \in Ops,
           Emit(w, t, label)
    PROVE  Advances
<1> DEFINE m == [t.mem EXCEPT !.seq = @ + 1]
           u == [t EXCEPT !.mem.seq = @ + 1]
           u2 == [u EXCEPT !.pc = label]
<1>1. m \in JobRecord
  BY DEF Task, JobRecord
<1>2. u = [t EXCEPT !.mem = m]
  BY DEF Task, JobRecord
<1>3. u \in Task /\ u.job = t.job /\ u.op = t.op
  BY <1>1, <1>2 DEF Task
<1>4. u2 \in Task /\ u2.pc = label /\ u2.job = t.job /\ u2.op = t.op
  BY <1>3 DEF Task
<1>5. WellFormed(u2)
  BY <1>4 DEF WellFormed, Heading
<1>6. Goto(w, u, label)
  BY DEF Emit
<1>7. /\ task' \in [Workers -> Task]
      /\ \A v \in Workers : WellFormed(task'[v])
      /\ \A v \in Workers : task'[v] = IF v = w THEN u2 ELSE task[v]
  BY <1>5, <1>6, GotoWellFormed DEF TInv, TypeOK
<1>8. /\ journal' \in [Jobs -> Seq(Event)]
      /\ \A j \in Jobs : journal[j] # <<>> => journal'[j] # <<>>
  BY AppendType DEF Emit, TInv
<1> QED BY <1>4, <1>7, <1>8 DEF Advances

LEMMA TransitionAdvances ==
    ASSUME TInv, NEW w \in Workers, NEW t \in Task, NEW to \in Statuses,
           NEW label \in Labels,
           t.job = task[w].job, task[w].job \in Jobs,
           label \in OpLabels => t.op \in Ops,
           Transition(w, t, to, label)
    PROVE  Advances
<1>1. CASE CanMove(t.mem.status, to)
  <2> DEFINE u == [t EXCEPT !.mem = Moved(@, to), !.next = label]
             u2 == [u EXCEPT !.pc = "saveJob"]
  <2>1. Moved(t.mem, to) \in JobRecord
    BY MovedType DEF Task
  <2>2. u \in Task /\ u.job = t.job /\ u.op = t.op /\ u.next = label
    BY <2>1 DEF Task
  <2> HIDE DEF u
  <2>a. "saveJob" \in Labels
    BY DEF Labels
  <2>3. u2 \in Task /\ u2.job = t.job /\ u2.op = t.op /\ u2.next = label /\ u2.pc = "saveJob"
    BY <2>2, <2>a DEF Task
  <2>4. WellFormed(u2)
    BY <2>3 DEF WellFormed, Heading
  <2>5. Goto(w, u, "saveJob") /\ Append1(w, to)
    BY <1>1 DEF Transition, u
  <2>6. /\ task' \in [Workers -> Task]
        /\ \A v \in Workers : WellFormed(task'[v])
        /\ \A v \in Workers : task'[v] = IF v = w THEN u2 ELSE task[v]
    BY <2>4, <2>5, GotoWellFormed DEF TInv, TypeOK
  <2>7. /\ journal' \in [Jobs -> Seq(Event)]
        /\ \A j \in Jobs : journal[j] # <<>> => journal'[j] # <<>>
    BY <2>5, AppendType DEF TInv
  <2> QED BY <2>3, <2>6, <2>7 DEF Advances
<1>2. CASE ~CanMove(t.mem.status, to)
  BY <1>2, LeaveAdvances DEF Transition
<1> QED BY <1>1, <1>2

\* A step that changes nothing but the journals and the task records.
LEMMA AdvancesType ==
    ASSUME TInv, Advances, UNCHANGED <<restVars, fileVars, jobFile>>
    PROVE  TInv'
<1>1. TypeOK'
  BY DEF TInv, TypeOK, Advances, restVars, fileVars, hostVars, HostTypeOK
<1>2. Journaled'
  BY DEF TInv, Journaled, Advances, restVars
<1> QED BY <1>1, <1>2 DEF TInv, Advances

\* The handlers and steps that only add an event, a transition or nothing.
LEMMA PlainStepsAdvance ==
    ASSUME TInv, NEW w \in Workers,
           \/ Inspect(w) \/ Prepare(w) \/ CheckpointCreated(w) \/ MarkPrepared(w)
           \/ Cancel(w) \/ Recover(w) \/ Restore(w) \/ ApplyStarted(w)
           \/ Interrupted(w) \/ QueryAfterFailure(w) \/ StartVerifying(w)
           \/ VerifyFailed(w) \/ ReceiptRecorded(w) \/ VerifySucceeded(w)
           \/ Complete(w) \/ ResumeInFlight(w) \/ Recheck(w)
    PROVE  TInv'
<1>0. /\ task[w] \in Task
      /\ WellFormed(task[w])
  BY DEF TInv, WellFormed
<1>1. CASE Inspect(w)
  <2>1. Transition(w, task[w], "inspecting", "return") /\ task[w].job \in Jobs
    BY <1>0, <1>1 DEF Inspect, At, WellFormed
  <2>2. Advances
    BY <1>0, <2>1, TransitionAdvances DEF Statuses, Labels, OpLabels
  <2> QED BY <1>1, <2>2, AdvancesType DEF Inspect
<1>2. CASE Prepare(w)
  <2>1. task[w].job \in Jobs
    BY <1>0, <1>2 DEF Prepare, At, WellFormed
  <2>2. ASSUME Emit(w, task[w], "createCheckpoint")
        PROVE  Advances
    BY <1>0, <2>1, <2>2, EmitAdvances DEF Labels, OpLabels
  <2>3. ASSUME Transition(w, task[w], "prepared", "return")
        PROVE  Advances
    BY <1>0, <2>1, <2>3, TransitionAdvances DEF Statuses, Labels, OpLabels
  <2> QED BY <1>2, <2>2, <2>3, AdvancesType DEF Prepare
<1>3. CASE CheckpointCreated(w)
  <2>1. Emit(w, task[w], "markPrepared") /\ task[w].job \in Jobs
    BY <1>0, <1>3 DEF CheckpointCreated, At, WellFormed
  <2>2. Advances
    BY <1>0, <2>1, EmitAdvances DEF Labels, OpLabels
  <2> QED BY <1>3, <2>2, AdvancesType DEF CheckpointCreated
<1>4. CASE MarkPrepared(w)
  <2>1. Transition(w, task[w], "prepared", "return") /\ task[w].job \in Jobs
    BY <1>0, <1>4 DEF MarkPrepared, At, WellFormed
  <2>2. Advances
    BY <1>0, <2>1, TransitionAdvances DEF Statuses, Labels, OpLabels
  <2> QED BY <1>4, <2>2, AdvancesType DEF MarkPrepared
<1>5. CASE Cancel(w)
  <2> DEFINE to == CancelTarget(task[w].mem.status)
  <2>1. task[w].job \in Jobs
    BY <1>0, <1>5 DEF Cancel, At, WellFormed
  <2>2. ASSUME to = NoStatus
        PROVE  Advances
    BY <1>5, <2>2, LeaveAdvances DEF Cancel
  <2>3. ASSUME to # NoStatus
        PROVE  Advances
    <3>1. to \in Statuses
      BY <2>3 DEF CancelTarget, Statuses
    <3>2. Transition(w, task[w], to, "return")
      BY <1>5, <2>3 DEF Cancel
    <3> HIDE DEF to
    <3> QED BY <1>0, <2>1, <3>1, <3>2, TransitionAdvances DEF Labels, OpLabels
  <2> QED BY <1>5, <2>2, <2>3, AdvancesType DEF Cancel
<1>6. CASE Recover(w)
  <2>1. task[w].job \in Jobs
    BY <1>0, <1>6 DEF Recover, At, WellFormed
  <2>2. ASSUME Emit(w, task[w], "restore")
        PROVE  Advances
    BY <1>0, <2>1, <2>2, EmitAdvances DEF Labels, OpLabels
  <2>3. ASSUME Leave(w) /\ UNCHANGED journal
        PROVE  Advances
    BY <2>3, LeaveAdvances
  <2> QED BY <1>6, <2>2, <2>3, AdvancesType DEF Recover
<1>7. CASE Restore(w)
  <2>1. task[w].job \in Jobs
    BY <1>0, <1>7 DEF Restore, At, WellFormed
  <2>2. ASSUME Transition(w, task[w], "recovered", "return")
        PROVE  Advances
    BY <1>0, <2>1, <2>2, TransitionAdvances DEF Statuses, Labels, OpLabels
  <2>3. ASSUME Leave(w) /\ UNCHANGED journal
        PROVE  Advances
    BY <2>3, LeaveAdvances
  <2> QED BY <1>7, <2>2, <2>3, AdvancesType DEF Restore
<1>8. CASE ApplyStarted(w)
  <2>1. /\ Transition(w, task[w], "applying", "registerIntent")
        /\ task[w].job \in Jobs /\ task[w].op \in Ops
    BY <1>0, <1>8 DEF ApplyStarted, At, WellFormed, Heading, OpLabels
  <2>2. Advances
    BY <1>0, <2>1, TransitionAdvances DEF Statuses, Labels
  <2> QED BY <1>8, <2>2, AdvancesType DEF ApplyStarted
<1>9. CASE Interrupted(w)
  <2>1. /\ Emit(w, task[w], "queryAfterFailure")
        /\ task[w].job \in Jobs /\ task[w].op \in Ops
    BY <1>0, <1>9 DEF Interrupted, At, WellFormed, Heading, OpLabels
  <2>2. Advances
    BY <1>0, <2>1, EmitAdvances DEF Labels
  <2> QED BY <1>9, <2>2, AdvancesType DEF Interrupted
<1>10. CASE QueryAfterFailure(w)
  <2>1. task[w].job \in Jobs /\ task[w].op \in Ops
    BY <1>0, <1>10 DEF QueryAfterFailure, At, WellFormed, Heading, OpLabels
  <2>2. ASSUME /\ Executed(task[w].op) # NoOp
               /\ Applied(w, Executed(task[w].op))
               /\ UNCHANGED journal
        PROVE  Advances
    <3> DEFINE t == [task[w] EXCEPT !.result = Executed(task[w].op)]
    <3>1. Executed(task[w].op) \in Ops \union {NoOp}
      BY <2>1, HostAssumption DEF TInv, TypeOK, HostTypeOK, Executed, Cached
    <3>2. t \in Task /\ t.job = task[w].job /\ t.op = task[w].op
      BY <1>0, <3>1 DEF Task
    <3>3. Goto(w, t, "applied") /\ UNCHANGED journal
      BY <2>2 DEF Applied
    <3> HIDE DEF t
    <3> QED BY <2>1, <3>2, <3>3, GotoAdvances DEF Labels
  <2>3. ASSUME Transition(w, task[w], "recovery_required", "return")
        PROVE  Advances
    BY <1>0, <2>1, <2>3, TransitionAdvances DEF Statuses, Labels, OpLabels
  <2> QED BY <1>10, <2>2, <2>3, AdvancesType DEF QueryAfterFailure
<1>11. CASE StartVerifying(w)
  <2>1. /\ Transition(w, task[w], "verifying", "verify")
        /\ task[w].job \in Jobs /\ task[w].op \in Ops
    BY <1>0, <1>11 DEF StartVerifying, At, WellFormed, Heading, OpLabels
  <2>2. Advances
    BY <1>0, <2>1, TransitionAdvances DEF Statuses, Labels
  <2> QED BY <1>11, <2>2, AdvancesType DEF StartVerifying
<1>12. CASE VerifyFailed(w)
  <2>1. Transition(w, task[w], "recovery_required", "return") /\ task[w].job \in Jobs
    BY <1>0, <1>12 DEF VerifyFailed, At, WellFormed
  <2>2. Advances
    BY <1>0, <2>1, TransitionAdvances DEF Statuses, Labels, OpLabels
  <2> QED BY <1>12, <2>2, AdvancesType DEF VerifyFailed
<1>13. CASE ReceiptRecorded(w)
  <2>1. Emit(w, task[w], "verifySucceeded") /\ task[w].job \in Jobs
    BY <1>0, <1>13 DEF ReceiptRecorded, At, WellFormed
  <2>2. Advances
    BY <1>0, <2>1, EmitAdvances DEF Labels, OpLabels
  <2> QED BY <1>13, <2>2, AdvancesType DEF ReceiptRecorded
<1>14. CASE VerifySucceeded(w)
  <2>1. Emit(w, task[w], "complete") /\ task[w].job \in Jobs
    BY <1>0, <1>14 DEF VerifySucceeded, At, WellFormed
  <2>2. Advances
    BY <1>0, <2>1, EmitAdvances DEF Labels, OpLabels
  <2> QED BY <1>14, <2>2, AdvancesType DEF VerifySucceeded
<1>15. CASE Complete(w)
  <2>1. Transition(w, task[w], "completed", "return") /\ task[w].job \in Jobs
    BY <1>0, <1>15 DEF Complete, At, WellFormed
  <2>2. Advances
    BY <1>0, <2>1, TransitionAdvances DEF Statuses, Labels, OpLabels
  <2> QED BY <1>15, <2>2, AdvancesType DEF Complete
<1>16. CASE ResumeInFlight(w)
  <2> DEFINE o == task[w].mem.op
             t == [task[w] EXCEPT !.op = o]
  <2>1. o \in Ops /\ task[w].job \in Jobs
    BY <1>0, <1>16 DEF ResumeInFlight, HasIntent, At, WellFormed, Task, JobRecord
  <2>2. t \in Task /\ t.op \in Ops /\ t.job = task[w].job /\ t.mem = task[w].mem
    BY <1>0, <2>1 DEF Task
  <2>3. \A r \in Ops \union {NoOp} :
            LET u == [t EXCEPT !.result = r] IN
            u \in Task /\ u.op = t.op /\ u.job = t.job
    BY <2>2 DEF Task
  <2>4. Receipt(t) \in Ops \union {NoOp} /\ Executed(t.op) \in Ops \union {NoOp}
    BY <2>1, <2>2, HostAssumption
       DEF TInv, TypeOK, HostTypeOK, Receipt, Executed, Cached
  <2>5. \/ Transition(w, [t EXCEPT !.result = Receipt(t)], "verifying", "verifyJob")
        \/ Transition(w, [t EXCEPT !.result = Executed(t.op)], "verifying", "verify")
        \/ Goto(w, t, "redispatch") /\ UNCHANGED journal
        \/ Transition(w, t, "recovery_required", "return")
    BY <1>16 DEF ResumeInFlight
  <2> HIDE DEF t
  <2>6. ASSUME Transition(w, [t EXCEPT !.result = Receipt(t)], "verifying", "verifyJob")
        PROVE  Advances
    BY <2>1, <2>2, <2>3, <2>4, <2>6, TransitionAdvances DEF Statuses, Labels
  <2>7. ASSUME Transition(w, [t EXCEPT !.result = Executed(t.op)], "verifying", "verify")
        PROVE  Advances
    BY <2>1, <2>2, <2>3, <2>4, <2>7, TransitionAdvances DEF Statuses, Labels
  <2>8. ASSUME Goto(w, t, "redispatch") /\ UNCHANGED journal
        PROVE  Advances
    BY <2>1, <2>2, <2>8, GotoAdvances DEF Labels
  <2>9. ASSUME Transition(w, t, "recovery_required", "return")
        PROVE  Advances
    BY <2>1, <2>2, <2>9, TransitionAdvances DEF Statuses, Labels
  <2> QED BY <1>16, <2>5, <2>6, <2>7, <2>8, <2>9, AdvancesType DEF ResumeInFlight
<1>17. CASE Recheck(w)
  <2>1. task[w].job \in Jobs /\ task[w].op \in Ops
    BY <1>0, <1>17 DEF Recheck, At, WellFormed, Heading, OpLabels
  <2>2. ASSUME Goto(w, task[w], "dispatch") /\ UNCHANGED journal
        PROVE  Advances
    BY <1>0, <2>1, <2>2, GotoAdvances DEF Labels
  <2>3. ASSUME Transition(w, task[w], "recovery_required", "return")
        PROVE  Advances
    BY <1>0, <2>1, <2>3, TransitionAdvances DEF Statuses, Labels, OpLabels
  <2>4. ASSUME Leave(w) /\ UNCHANGED journal
        PROVE  Advances
    BY <2>4, LeaveAdvances
  <2> QED BY <1>17, <2>2, <2>3, <2>4, AdvancesType DEF Recheck
<1> QED BY <1>1, <1>2, <1>3, <1>4, <1>5, <1>6, <1>7, <1>8, <1>9, <1>10, <1>11, <1>12,
           <1>13, <1>14, <1>15, <1>16, <1>17

\* Types of everything but the journals and the task records.
RestType ==
    /\ HostTypeOK
    /\ intents \subseteq Jobs \X Ops
    /\ receipts \in [Jobs -> [Ops -> Ops \union {NoOp}]]
    /\ manifests \subseteq Jobs
    /\ registry \in [Keys -> Entry \union {NoEntry}]
    /\ lock \in LockRecord \union {NoLock}
    /\ crashes \in Nat
    /\ verified \subseteq Ops

LEMMA AdvancesRest ==
    ASSUME TInv, Advances, RestType', UNCHANGED <<jobFile, listed>>
    PROVE  TInv'
BY DEF TInv, TypeOK, Advances, RestType, Journaled

LEMMA RestTypeNow == TInv => RestType
BY DEF TInv, TypeOK, RestType

\* The steps that write other files, take the lock or call the host.
LEMMA WritingStepsAdvance ==
    ASSUME TInv, NEW w \in Workers,
           \/ CreateCheckpoint(w) \/ AcquireLock(w) \/ CheckIdempotency(w)
           \/ Preflight(w) \/ RegisterIntent(w) \/ Dispatch(w)
           \/ CheckRevision(w) \/ HostSavesDocument(w)
           \/ HostRecordsOperation(w) \/ HostRecordsKey(w) \/ Verify(w)
           \/ SaveReceipt(w) \/ RegisterReceipt(w) \/ VerifyAgain(w)
    PROVE  TInv'
<1>0. /\ task[w] \in Task
      /\ WellFormed(task[w])
      /\ RestType
  BY RestTypeNow DEF TInv, WellFormed
<1>1. CASE CreateCheckpoint(w)
  <2>1. task[w].job \in Jobs
    BY <1>0, <1>1 DEF CreateCheckpoint, At, WellFormed
  <2>2. ASSUME Goto(w, [task[w] EXCEPT !.mem.checkpoint = TRUE], "checkpointCreated")
        PROVE  Advances
    <3> DEFINE t == [task[w] EXCEPT !.mem.checkpoint = TRUE]
    <3>1. t \in Task /\ t.job = task[w].job
      BY <1>0 DEF Task, JobRecord
    <3> HIDE DEF t
    <3> QED BY <1>1, <2>1, <2>2, <3>1, GotoAdvances
            DEF CreateCheckpoint, Labels, OpLabels, t
  <2>3. ASSUME Leave(w)
        PROVE  Advances
    BY <1>1, <2>3, LeaveAdvances DEF CreateCheckpoint
  <2>4. RestType'
    BY <1>0, <1>1, <2>1 DEF CreateCheckpoint, RestType, restVars, hostVars, HostTypeOK
  <2> QED BY <1>1, <2>2, <2>3, <2>4, AdvancesRest DEF CreateCheckpoint, restVars
<1>2. CASE AcquireLock(w)
  <2>1. task[w].job \in Jobs /\ task[w].op \in Ops
    BY <1>0, <1>2 DEF AcquireLock, At, WellFormed, Heading, OpLabels
  <2>2. ASSUME NEW label \in {"checkIdempotency", "recheck"},
               Goto(w, [task[w] EXCEPT !.locked = TRUE], label)
        PROVE  Advances
    <3> DEFINE t == [task[w] EXCEPT !.locked = TRUE]
    <3>1. t \in Task /\ t.job = task[w].job /\ t.op = task[w].op
      BY <1>0 DEF Task
    <3> HIDE DEF t
    <3> QED BY <1>2, <2>1, <2>2, <3>1, GotoAdvances DEF AcquireLock, storeVars, Labels, t
  <2>3. ASSUME Leave(w)
        PROVE  Advances
    BY <1>2, <2>3, LeaveAdvances DEF AcquireLock, storeVars
  <2>4. RestType'
    BY <1>0, <1>2, <2>1
       DEF AcquireLock, Acquired, LockRecord, RestType, storeVars, fileVars, hostVars, HostTypeOK
  <2> QED BY <1>2, <2>2, <2>3, <2>4, AdvancesRest DEF AcquireLock, storeVars
<1>3. CASE CheckIdempotency(w)
  <2> DEFINE e == registry[OpKey[task[w].op]]
  <2>1. task[w].job \in Jobs /\ task[w].op \in Ops
    BY <1>0, <1>3 DEF CheckIdempotency, At, WellFormed, Heading, OpLabels
  <2>2. e \in Entry \union {NoEntry}
    BY <1>0, <2>1, HostAssumption DEF RestType
  <2>3. ASSUME e # NoEntry, NEW label \in {"return", "verifyJob"},
               Goto(w, [task[w] EXCEPT !.result = e.receipt], label)
        PROVE  Advances
    <3> DEFINE t == [task[w] EXCEPT !.result = e.receipt]
    <3>1. e.receipt \in Ops \union {NoOp}
      BY <2>2, <2>3 DEF Entry
    <3>2. t \in Task /\ t.job = task[w].job /\ t.op = task[w].op
      BY <1>0, <3>1 DEF Task
    <3> HIDE DEF t, e
    <3> QED BY <1>3, <2>1, <2>3, <3>2, GotoAdvances DEF CheckIdempotency, Labels, t
  <2>4. ASSUME Goto(w, task[w], "preflight")
        PROVE  Advances
    BY <1>0, <1>3, <2>1, <2>4, GotoAdvances DEF CheckIdempotency, Labels
  <2>5. ASSUME Leave(w)
        PROVE  Advances
    BY <1>3, <2>5, LeaveAdvances DEF CheckIdempotency
  <2>6. Advances
    BY <1>3, <2>3, <2>4, <2>5 DEF CheckIdempotency, AlreadyExecuted
  <2>7. \/ UNCHANGED receipts
        \/ e # NoEntry /\ SaveReceiptOf(task[w].job, e.op, e.receipt)
    BY <1>3 DEF CheckIdempotency, AlreadyExecuted
  <2>8. receipts' \in [Jobs -> [Ops -> Ops \union {NoOp}]]
    BY <1>0, <2>1, <2>2, <2>7 DEF RestType, SaveReceiptOf, Entry
  <2>9. RestType'
    BY <1>0, <1>3, <2>8 DEF CheckIdempotency, RestType, restVars, hostVars, HostTypeOK
  <2> QED BY <1>3, <2>6, <2>9, AdvancesRest DEF CheckIdempotency, restVars
<1>4. CASE Preflight(w)
  <2>1. task[w].job \in Jobs /\ task[w].op \in Ops
    BY <1>0, <1>4 DEF Preflight, At, WellFormed, Heading, OpLabels
  <2>2. ASSUME Goto(w, [task[w] EXCEPT !.mem.op = task[w].op], "applyStarted")
        PROVE  Advances
    <3> DEFINE t == [task[w] EXCEPT !.mem.op = task[w].op]
    <3>1. t \in Task /\ t.job = task[w].job /\ t.op = task[w].op
      BY <1>0 DEF Task, JobRecord
    <3> HIDE DEF t
    <3> QED BY <1>4, <2>1, <2>2, <3>1, GotoAdvances DEF Preflight, Labels, t
  <2>3. ASSUME Leave(w)
        PROVE  Advances
    BY <1>4, <2>3, LeaveAdvances DEF Preflight
  <2>4. RestType'
    BY <1>0, <1>4, <2>1 DEF Preflight, RestType, restVars, hostVars, HostTypeOK
  <2> QED BY <1>4, <2>2, <2>3, <2>4, AdvancesRest DEF Preflight, restVars
<1>5. CASE RegisterIntent(w)
  <2>1. task[w].job \in Jobs /\ task[w].op \in Ops
    BY <1>0, <1>5 DEF RegisterIntent, At, WellFormed, Heading, OpLabels
  <2>2. ASSUME Goto(w, task[w], "dispatch")
        PROVE  Advances
    BY <1>0, <1>5, <2>1, <2>2, GotoAdvances DEF RegisterIntent, Labels
  <2>3. ASSUME Leave(w)
        PROVE  Advances
    BY <1>5, <2>3, LeaveAdvances DEF RegisterIntent
  <2>4. registry' \in [Keys -> Entry \union {NoEntry}]
    BY <1>0, <1>5, <2>1 DEF RegisterIntent, RestType, Entry
  <2>5. RestType'
    BY <1>0, <1>5, <2>4 DEF RegisterIntent, RestType, restVars, hostVars, HostTypeOK
  <2> QED BY <1>5, <2>2, <2>3, <2>5, AdvancesRest DEF RegisterIntent, restVars
<1>6. CASE Dispatch(w)
  <2>1. task[w].job \in Jobs /\ task[w].op \in Ops
    BY <1>0, <1>6 DEF Dispatch, At, WellFormed, Heading, OpLabels
  <2>2. ASSUME NEW label \in {"checkRevision", "interrupted", "return"},
               Goto(w, task[w], label)
        PROVE  Advances
    BY <1>0, <1>6, <2>1, <2>2, GotoAdvances DEF Dispatch, Labels, storeVars
  <2>3. ASSUME Applied(w, Cached(task[w].op))
        PROVE  Advances
    <3> DEFINE t == [task[w] EXCEPT !.result = Cached(task[w].op)]
    <3>1. Cached(task[w].op) \in Ops \union {NoOp}
      BY <1>0, <2>1, HostAssumption DEF RestType, HostTypeOK, Cached
    <3>2. t \in Task /\ t.job = task[w].job /\ t.op = task[w].op
      BY <1>0, <3>1 DEF Task
    <3> HIDE DEF t
    <3> QED BY <1>6, <2>1, <2>3, <3>2, GotoAdvances DEF Dispatch, Applied, Labels, storeVars, t
  <2>4. Advances
    BY <1>6, <2>2, <2>3 DEF Dispatch, HostFailed
  <2>5. RestType'
    BY <1>0, <1>6
       DEF Dispatch, RestType, restVars, storeVars, fileVars, hostVars, HostTypeOK
  <2> QED BY <1>6, <2>4, <2>5, AdvancesRest DEF Dispatch, restVars, storeVars
<1>13. CASE CheckRevision(w)
  <2>1. task[w].job \in Jobs /\ task[w].op \in Ops
    BY <1>0, <1>13 DEF CheckRevision, At, WellFormed, Heading, OpLabels
  <2>2. ASSUME NEW label \in {"saveDocument", "interrupted", "return"},
               Goto(w, task[w], label)
        PROVE  Advances
    BY <1>0, <1>13, <2>1, <2>2, GotoAdvances DEF CheckRevision, Labels, storeVars
  <2>3. Advances
    BY <1>13, <2>2 DEF CheckRevision, HostFailed
  <2>4. [revision |-> docRevision, mutations |-> mutations] \in Document
    BY <1>0 DEF RestType, HostTypeOK, Document
  <2>5. HostTypeOK'
    BY <1>0, <1>13, <2>4 DEF CheckRevision, ReadDocument, RestType, hostVars, HostTypeOK
  <2>6. RestType'
    BY <1>0, <1>13, <2>5 DEF CheckRevision, RestType, storeVars, fileVars
  <2> QED BY <1>13, <2>3, <2>6, AdvancesRest DEF CheckRevision, storeVars
<1>14. CASE HostSavesDocument(w)
  <2>1. task[w].job \in Jobs /\ task[w].op \in Ops
    BY <1>0, <1>14 DEF HostSavesDocument, At, WellFormed, Heading, OpLabels
  <2>2. Advances
    BY <1>0, <1>14, <2>1, GotoAdvances DEF HostSavesDocument, Labels, storeVars
  <2>3. copies[w] \in Document
    BY <1>0, <1>14 DEF HostSavesDocument, SaveDocument, RestType, HostTypeOK
  <2>4. copies[w].revision \in Revisions /\ copies[w].mutations \in [Ops -> Nat]
    BY <2>3 DEF Document
  <2>5. docRevision' \in Revisions /\ mutations' \in [Ops -> Nat]
    BY <1>14, <2>1, <2>4, HostAssumption DEF HostSavesDocument, SaveDocument
  <2>6. HostTypeOK'
    BY <1>0, <1>14, <2>5 DEF HostSavesDocument, SaveDocument, RestType, HostTypeOK
  <2>7. RestType'
    BY <1>0, <1>14, <2>6 DEF HostSavesDocument, RestType, storeVars, fileVars
  <2> QED BY <1>14, <2>2, <2>7, AdvancesRest DEF HostSavesDocument, storeVars
<1>7. CASE HostRecordsOperation(w)
  <2>1. task[w].job \in Jobs /\ task[w].op \in Ops
    BY <1>0, <1>7 DEF HostRecordsOperation, At, WellFormed, Heading, OpLabels
  <2>2. Advances
    BY <1>0, <1>7, <2>1, GotoAdvances DEF HostRecordsOperation, Labels, storeVars
  <2>3. HostTypeOK'
    BY <1>0, <1>7, <2>1 DEF HostRecordsOperation, RecordOperation, RestType, HostTypeOK
  <2>4. RestType'
    BY <1>0, <1>7, <2>3 DEF HostRecordsOperation, RestType, storeVars, fileVars
  <2> QED BY <1>7, <2>2, <2>4, AdvancesRest DEF HostRecordsOperation, storeVars
<1>8. CASE HostRecordsKey(w)
  <2>1. task[w].job \in Jobs /\ task[w].op \in Ops
    BY <1>0, <1>8 DEF HostRecordsKey, At, WellFormed, Heading, OpLabels
  <2>2. ASSUME NEW label \in {"interrupted", "return"}, Goto(w, task[w], label)
        PROVE  Advances
    BY <1>0, <1>8, <2>1, <2>2, GotoAdvances DEF HostRecordsKey, Labels, storeVars
  <2>3. ASSUME Applied(w, task[w].op)
        PROVE  Advances
    <3> DEFINE t == [task[w] EXCEPT !.result = task[w].op]
    <3>1. t \in Task /\ t.job = task[w].job /\ t.op = task[w].op
      BY <1>0, <2>1 DEF Task
    <3> HIDE DEF t
    <3> QED BY <1>8, <2>1, <2>3, <3>1, GotoAdvances
            DEF HostRecordsKey, Applied, Labels, storeVars, t
  <2>4. HostTypeOK'
    BY <1>0, <1>8, <2>1, HostAssumption
       DEF HostRecordsKey, RecordKey, RestType, HostTypeOK
  <2>5. RestType'
    BY <1>0, <1>8, <2>4 DEF HostRecordsKey, RestType, storeVars, fileVars
  <2> QED BY <1>8, <2>2, <2>3, <2>5, AdvancesRest DEF HostRecordsKey, HostFailed, storeVars
<1>9. CASE Verify(w)
  <2>1. task[w].job \in Jobs /\ task[w].op \in Ops
    BY <1>0, <1>9 DEF Verify, At, WellFormed, Heading, OpLabels
  <2>2. ASSUME Goto(w, task[w], "saveReceipt"), UNCHANGED journal
        PROVE  Advances
    BY <1>0, <2>1, <2>2, GotoAdvances DEF Labels
  <2>3. ASSUME Emit(w, task[w], "verifyFailed")
        PROVE  Advances
    BY <1>0, <2>1, <2>3, EmitAdvances DEF Labels, OpLabels
  <2>4. RestType'
    BY <1>0, <1>9, <2>1 DEF Verify, RestType, fileVars, hostVars, HostTypeOK
  <2> QED BY <1>9, <2>2, <2>3, <2>4, AdvancesRest DEF Verify
<1>10. CASE SaveReceipt(w)
  <2>1. task[w].job \in Jobs /\ task[w].op \in Ops
    BY <1>0, <1>10 DEF SaveReceipt, At, WellFormed, Heading, OpLabels
  <2>2. Advances
    BY <1>0, <1>10, <2>1, GotoAdvances DEF SaveReceipt, Labels
  <2>3. task[w].result \in Ops \union {NoOp}
    BY <1>0 DEF Task
  <2>4. RestType'
    BY <1>0, <1>10, <2>1, <2>3
       DEF SaveReceipt, SaveReceiptOf, RestType, restVars, hostVars, HostTypeOK
  <2> QED BY <1>10, <2>2, <2>4, AdvancesRest DEF SaveReceipt, restVars
<1>11. CASE RegisterReceipt(w)
  <2>1. task[w].job \in Jobs /\ task[w].op \in Ops
    BY <1>0, <1>11 DEF RegisterReceipt, At, WellFormed, Heading, OpLabels
  <2>2. ASSUME Goto(w, task[w], "receiptRecorded")
        PROVE  Advances
    BY <1>0, <1>11, <2>1, <2>2, GotoAdvances DEF RegisterReceipt, Labels
  <2>3. ASSUME Leave(w)
        PROVE  Advances
    BY <1>11, <2>3, LeaveAdvances DEF RegisterReceipt
  <2>4. task[w].result \in Ops \union {NoOp}
    BY <1>0 DEF Task
  <2>5. registry' \in [Keys -> Entry \union {NoEntry}]
    BY <1>0, <1>11, <2>1, <2>4 DEF RegisterReceipt, RestType, Entry
  <2>6. RestType'
    BY <1>0, <1>11, <2>5 DEF RegisterReceipt, RestType, restVars, hostVars, HostTypeOK
  <2> QED BY <1>11, <2>2, <2>3, <2>6, AdvancesRest DEF RegisterReceipt, restVars
<1>12. CASE VerifyAgain(w)
  <2>1. task[w].job \in Jobs /\ task[w].op \in Ops
    BY <1>0, <1>12 DEF VerifyAgain, At, WellFormed, Heading, OpLabels
  <2>2. ASSUME NEW label \in {"complete", "verifyFailed"}, Emit(w, task[w], label)
        PROVE  Advances
    BY <1>0, <2>1, <2>2, EmitAdvances DEF Labels, OpLabels
  <2>3. RestType'
    BY <1>0, <1>12, <2>1 DEF VerifyAgain, RestType, fileVars, hostVars, HostTypeOK
  <2> QED BY <1>12, <2>2, <2>3, AdvancesRest DEF VerifyAgain
<1> QED BY <1>1, <1>2, <1>3, <1>4, <1>5, <1>6, <1>7, <1>8, <1>9, <1>10, <1>11, <1>12,
           <1>13, <1>14

\* The steps that read or write job.json, and the end of a call.
LEMMA JobFileStepsAdvance ==
    ASSUME TInv, NEW w \in Workers,
           \/ SaveJob(w) \/ Return(w) \/ VerifyJob(w)
           \/ ResumeVerifying(w) \/ ResumeNothing(w)
    PROVE  TInv'
<1>0. /\ task[w] \in Task
      /\ WellFormed(task[w])
      /\ RestType
  BY RestTypeNow DEF TInv, WellFormed
<1>1. CASE SaveJob(w)
  <2> DEFINE t == [task[w] EXCEPT !.next = "idle"]
             u == [t EXCEPT !.pc = task[w].next]
  <2>1. task[w].job \in Jobs /\ (task[w].next \in OpLabels => task[w].op \in Ops)
    BY <1>0, <1>1 DEF SaveJob, At, WellFormed, Heading
  <2>2. u \in Task /\ u.job = task[w].job /\ u.op = task[w].op
        /\ u.pc = task[w].next /\ u.next = "idle"
    BY <1>0 DEF Task, Labels
  <2>3. WellFormed(u)
    BY <2>1, <2>2 DEF WellFormed, Heading, OpLabels
  <2>4. Goto(w, t, task[w].next)
    BY <1>1 DEF SaveJob
  <2>5. /\ task' \in [Workers -> Task]
        /\ \A v \in Workers : WellFormed(task'[v])
        /\ \A v \in Workers : task'[v] = IF v = w THEN u ELSE task[v]
    BY <2>3, <2>4, GotoWellFormed DEF TInv, TypeOK
  <2> HIDE DEF u, t
  <2>6. jobFile' = [jobFile EXCEPT ![task[w].job] = task[w].mem]
        /\ UNCHANGED <<restVars, fileVars, journal>>
    BY <1>1 DEF SaveJob
  <2>7. jobFile' \in [Jobs -> JobRecord \union {NoJob}]
    BY <1>0, <2>6 DEF TInv, TypeOK, Task
  <2>8. TypeOK'
    BY <2>5, <2>6, <2>7 DEF TInv, TypeOK, restVars, fileVars, hostVars, HostTypeOK
  <2>9. Journaled'
    BY <2>1, <2>2, <2>5, <2>6 DEF TInv, TypeOK, Journaled, restVars
  <2> QED BY <2>5, <2>8, <2>9 DEF TInv
<1>2. CASE Return(w)
  <2>1. task' = [task EXCEPT ![w] = Idle]
        /\ UNCHANGED <<hostVars, storeVars, listed, crashes, verified>>
    BY <1>2 DEF Return
  <2>2. /\ task' \in [Workers -> Task]
        /\ \A v \in Workers : WellFormed(task'[v])
    BY <2>1, IdleWellFormed DEF TInv, TypeOK, WellFormed
  <2>3. \A v \in Workers : task'[v].job \in {task[v].job, NoJob}
    BY <2>1 DEF TInv, TypeOK, Idle
  <2>4. lock' \in LockRecord \union {NoLock}
    BY <1>0, <1>2 DEF Return, RestType
  <2>5. TypeOK'
    BY <2>1, <2>2, <2>4 DEF TInv, TypeOK, storeVars, fileVars, hostVars, HostTypeOK
  <2>6. Journaled'
    BY <2>1, <2>3, JobAssumption DEF TInv, Journaled, storeVars
  <2> QED BY <2>2, <2>5, <2>6 DEF TInv
<1>3. CASE VerifyJob(w)
  <2>1. task[w].job \in Jobs /\ task[w].op \in Ops
    BY <1>0, <1>3 DEF VerifyJob, At, WellFormed, Heading, OpLabels
  <2>2. UNCHANGED journal
    BY <1>3 DEF VerifyJob, storeVars
  <2>3. ASSUME CanLoad(task[w].job),
               Goto(w, [task[w] EXCEPT !.mem = jobFile[task[w].job]], "verifyAgain")
        PROVE  Advances
    <3> DEFINE t == [task[w] EXCEPT !.mem = jobFile[task[w].job]]
    <3>1. jobFile[task[w].job] \in JobRecord
      BY <2>1, <2>3 DEF CanLoad, TInv, TypeOK
    <3>2. t \in Task /\ t.job = task[w].job /\ t.op = task[w].op
      BY <1>0, <3>1 DEF Task
    <3> HIDE DEF t
    <3> QED BY <2>1, <2>2, <2>3, <3>2, GotoAdvances DEF Labels, t
  <2>4. ASSUME Leave(w)
        PROVE  Advances
    BY <2>2, <2>4, LeaveAdvances
  <2> QED BY <1>3, <2>3, <2>4, AdvancesType DEF VerifyJob, storeVars
<1>4. CASE ResumeVerifying(w)
  <2> DEFINE o == task[w].mem.op
             t == [task[w] EXCEPT !.op = o, !.result = Receipt(task[w])]
  <2>1. o \in Ops /\ task[w].job \in Jobs
    BY <1>0, <1>4 DEF ResumeVerifying, HasIntent, At, WellFormed, Task, JobRecord
  <2>2. Receipt(task[w]) \in Ops \union {NoOp}
    BY <1>0, <2>1 DEF RestType, Receipt
  <2>3. t \in Task /\ t.op \in Ops /\ t.job = task[w].job
    BY <1>0, <2>1, <2>2 DEF Task
  <2>4. Goto(w, t, "verifyJob") /\ UNCHANGED journal
    BY <1>4 DEF ResumeVerifying, storeVars
  <2> HIDE DEF t
  <2>5. Advances
    BY <2>1, <2>3, <2>4, GotoAdvances DEF Labels
  <2> QED BY <1>4, <2>5, AdvancesType DEF ResumeVerifying, storeVars
<1>5. CASE ResumeNothing(w)
  <2>1. Leave(w) /\ UNCHANGED journal
    BY <1>5 DEF ResumeNothing, storeVars
  <2>2. Advances
    BY <2>1, LeaveAdvances
  <2> QED BY <1>5, <2>2, AdvancesType DEF ResumeNothing, storeVars
<1> QED BY <1>1, <1>2, <1>3, <1>4, <1>5

\* A call begins, or the worker dies.
LEMMA CallerStepsType ==
    ASSUME TInv, NEW w \in Workers,
           \/ \E j \in Jobs : CreateJob(w, j)
           \/ \E call \in Calls, j \in Jobs, o \in Ops \union {NoOp} : Call(w, call, j, o)
           \/ StartScan(w)
           \/ Crash(w)
    PROVE  TInv'
<1>0. RestType
  BY RestTypeNow
<1>1. ASSUME NEW j \in Jobs, CreateJob(w, j)
      PROVE  TInv'
  <2> DEFINE e == [seq |-> 0, to |-> NoStatus]
             t == [Idle EXCEPT !.call = "create", !.job = j, !.next = "return",
                               !.mem.seq = 0]
             u == [t EXCEPT !.pc = "saveJob"]
  <2>1. e \in Event
    BY DEF Event
  <2>2. <<e>> \in Seq(Event) /\ <<e>> # <<>>
    BY <2>1
  <2>3. journal' = [journal EXCEPT ![j] = <<e>>] /\ Goto(w, t, "saveJob")
        /\ UNCHANGED <<restVars, fileVars, jobFile>>
    BY <1>1 DEF CreateJob
  <2> HIDE DEF e
  <2>4. /\ journal' \in [Jobs -> Seq(Event)]
        /\ journal'[j] # <<>>
        /\ \A i \in Jobs : journal[i] # <<>> => journal'[i] # <<>>
    BY <2>2, <2>3 DEF TInv, TypeOK
  <2>5. u \in Task /\ u.pc = "saveJob" /\ u.next = "return" /\ u.job = j
    BY DEF Idle, Task, Labels, Blank, JobRecord, Statuses
  <2>6. WellFormed(u)
    BY <2>5 DEF WellFormed, Heading, OpLabels
  <2>7. /\ task' \in [Workers -> Task]
        /\ \A v \in Workers : WellFormed(task'[v])
        /\ \A v \in Workers : task'[v] = IF v = w THEN u ELSE task[v]
    BY <2>3, <2>6, GotoWellFormed DEF TInv, TypeOK
  <2> HIDE DEF u, t
  <2>8. TypeOK'
    BY <2>3, <2>4, <2>7 DEF TInv, TypeOK, restVars, fileVars, hostVars, HostTypeOK
  <2>9. Journaled'
    BY <2>3, <2>4, <2>5, <2>7 DEF TInv, Journaled, restVars
  <2> QED BY <2>7, <2>8, <2>9 DEF TInv
<1>2. ASSUME NEW call \in Calls, NEW j \in Jobs, NEW o \in Ops \union {NoOp},
             Call(w, call, j, o)
      PROVE  TInv'
  <2> DEFINE t == [Idle EXCEPT !.call = call, !.job = j, !.mem = jobFile[j], !.op = o]
             u == [t EXCEPT !.pc = call]
  <2>1. call \in Handlers
    BY JobAssumption DEF Handlers
  <2>2. jobFile[j] \in JobRecord /\ jobFile[j] # NoJob
    BY <1>2 DEF Call, CanLoad, TInv, TypeOK
  <2>3. call = "apply" => o \in Ops
    BY <1>2 DEF Call
  <2>4. /\ u \in Task /\ u.pc = call /\ u.job = j /\ u.op = o
    BY <2>1, <2>2 DEF Idle, Task, Labels
  <2>5. WellFormed(u)
    BY <2>1, <2>3, <2>4 DEF WellFormed, Heading, OpLabels, Handlers
  <2>6. Goto(w, t, call) /\ UNCHANGED <<restVars, storeVars>>
    BY <1>2 DEF Call
  <2>7. /\ task' \in [Workers -> Task]
        /\ \A v \in Workers : WellFormed(task'[v])
        /\ \A v \in Workers : task'[v] = IF v = w THEN u ELSE task[v]
    BY <2>5, <2>6, GotoWellFormed DEF TInv, TypeOK
  <2> HIDE DEF u, t
  <2>8. TypeOK'
    BY <2>6, <2>7 DEF TInv, TypeOK, restVars, storeVars, fileVars, hostVars, HostTypeOK
  <2>9. Journaled'
    BY <2>2, <2>4, <2>6, <2>7 DEF TInv, Journaled, restVars, storeVars
  <2> QED BY <2>7, <2>8, <2>9 DEF TInv
<1>3. CASE StartScan(w)
  <2> DEFINE t == [Idle EXCEPT !.call = "scan"]
             u == [t EXCEPT !.pc = "scan"]
  <2>1. Goto(w, t, "scan") /\ UNCHANGED <<hostVars, storeVars, lock, crashes, verified>>
    BY <1>3 DEF StartScan
  <2>2. u \in Task /\ u.pc = "scan" /\ u.job = NoJob
    BY DEF Idle, Task, Labels, Blank, JobRecord, Statuses
  <2>3. WellFormed(u)
    BY <2>2 DEF WellFormed, Heading, OpLabels
  <2>4. /\ task' \in [Workers -> Task]
        /\ \A v \in Workers : WellFormed(task'[v])
        /\ \A v \in Workers : task'[v] = IF v = w THEN u ELSE task[v]
    BY <2>1, <2>3, GotoWellFormed DEF TInv, TypeOK
  <2> HIDE DEF u, t
  <2>5. /\ listed' \in [Workers -> [Jobs -> JobRecord \union {NoJob}]]
        /\ \A v \in Workers, j \in Jobs : listed'[v][j] \in {listed[v][j], jobFile[j], NoJob}
    BY <1>3 DEF StartScan, TInv, TypeOK
  <2>6. TypeOK'
    BY <2>1, <2>4, <2>5 DEF TInv, TypeOK, storeVars, fileVars, hostVars, HostTypeOK
  <2>7. Journaled'
    BY <2>1, <2>2, <2>4, <2>5, JobAssumption DEF TInv, Journaled, storeVars
  <2> QED BY <2>4, <2>6, <2>7 DEF TInv
<1>4. CASE Crash(w)
  <2>1. /\ task' = [task EXCEPT ![w] = Idle]
        /\ crashes' = crashes + 1
        /\ listed' = [listed EXCEPT ![w] = NothingListed]
        /\ UNCHANGED <<storeVars, verified>>
    BY <1>4 DEF Crash
  <2>2. /\ task' \in [Workers -> Task]
        /\ \A v \in Workers : WellFormed(task'[v])
    BY <2>1, IdleWellFormed DEF TInv, TypeOK, WellFormed
  <2>3. \A v \in Workers : task'[v].job \in {task[v].job, NoJob}
    BY <2>1 DEF TInv, TypeOK, Idle
  <2>4. lock' \in LockRecord \union {NoLock}
    BY <1>0, <1>4 DEF Crash, RestType, LockRecord
  <2>5. /\ listed' \in [Workers -> [Jobs -> JobRecord \union {NoJob}]]
        /\ \A v \in Workers, j \in Jobs : listed'[v][j] \in {listed[v][j], NoJob}
    BY <2>1 DEF NothingListed, TInv, TypeOK
  <2>a. HostTypeOK'
    BY <1>4 DEF Crash, Forget, TInv, TypeOK, HostTypeOK
  <2>6. TypeOK'
    BY <2>1, <2>2, <2>4, <2>5, <2>a DEF TInv, TypeOK, storeVars, fileVars
  <2>7. Journaled'
    BY <2>1, <2>3, <2>5, JobAssumption DEF TInv, Journaled, storeVars
  <2> QED BY <2>2, <2>6, <2>7 DEF TInv
<1> QED BY <1>1, <1>2, <1>3, <1>4

LEMMA ReconciledType ==
    ASSUME NEW r \in JobRecord, NEW s \in Seq(Event), s # <<>>,
           NEW st \in Statuses \union {NoStatus}
    PROVE  Reconciled(r, s, st) \in JobRecord
<1>1. s[Len(s)] \in Event
  OBVIOUS
<1>2. s[Len(s)].seq \in Nat
  BY <1>1 DEF Event
<1>3. \A y \in Statuses, k \in Nat \union {-1} :
          [r EXCEPT !.status = y, !.seq = k] \in JobRecord
  BY DEF JobRecord
<1> DEFINE x == IF st = NoStatus THEN r.status ELSE st
           n == IF r.seq < s[Len(s)].seq THEN s[Len(s)].seq ELSE r.seq
<1>4. x \in Statuses /\ n \in Nat \union {-1}
  BY <1>2 DEF JobRecord
<1>5. Reconciled(r, s, st) =
        [r EXCEPT !.status = x, !.seq = n]
  BY DEF Reconciled, JobRecord
<1> HIDE DEF x, n
<1> QED BY <1>3, <1>4, <1>5

\* The steps of a scan.
LEMMA ScanStepsType ==
    ASSUME TInv, NEW w \in Workers,
           (\E j \in Jobs : ScanJob(w, j)) \/ Classify(w) \/ EndScan(w)
    PROVE  TInv'
<1>0. /\ task[w] \in Task
      /\ WellFormed(task[w])
      /\ RestType
  BY RestTypeNow DEF TInv, WellFormed
<1>1. ASSUME NEW j \in Jobs, ScanJob(w, j)
      PROVE  TInv'
  <2> DEFINE r == listed[w][j]
             s == journal[j]
             t == [task[w] EXCEPT !.job = j, !.next = "classify"]
  <2>a. listed[w][j] # NoJob /\ UNCHANGED <<hostVars, storeVars, lock, crashes, verified>>
    BY <1>1 DEF ScanJob
  <2>b. r \in JobRecord
    BY <2>a DEF TInv, TypeOK
  <2>c. s \in Seq(Event) /\ s # <<>>
    BY <2>a DEF TInv, TypeOK, Journaled
  <2>1. /\ r \in JobRecord
        /\ s \in Seq(Event) /\ s # <<>>
        /\ UNCHANGED <<hostVars, storeVars, lock, crashes, verified>>
    BY <2>a, <2>b, <2>c
  <2>d. \/ listed' = [listed EXCEPT ![w][j] = NoJob]
        \/ listed' = [listed EXCEPT ![w] = NothingListed]
    BY <1>1 DEF ScanJob
  <2>2. /\ listed' \in [Workers -> [Jobs -> JobRecord \union {NoJob}]]
        /\ \A v \in Workers, i \in Jobs : listed'[v][i] \in {listed[v][i], NoJob}
    <3> DEFINE f == [listed[w] EXCEPT ![j] = NoJob]
    <3>1. listed \in [Workers -> [Jobs -> JobRecord \union {NoJob}]]
      BY DEF TInv, TypeOK
    <3>2. /\ f \in [Jobs -> JobRecord \union {NoJob}]
          /\ \A i \in Jobs : f[i] \in {listed[w][i], NoJob}
      BY <3>1
    <3>3. /\ NothingListed \in [Jobs -> JobRecord \union {NoJob}]
          /\ \A i \in Jobs : NothingListed[i] = NoJob
      BY DEF NothingListed
    <3>4. listed' = [listed EXCEPT ![w] = f] \/ listed' = [listed EXCEPT ![w] = NothingListed]
      BY <2>d
    <3> HIDE DEF f
    <3> QED BY <3>1, <3>2, <3>3, <3>4
  <2>3. ASSUME /\ task' \in [Workers -> Task]
               /\ \A v \in Workers : WellFormed(task'[v])
               /\ \A v \in Workers : task'[v].job \in {task[v].job, j}
        PROVE  TInv'
    <3>1. TypeOK'
      BY <2>1, <2>2, <2>3 DEF TInv, TypeOK, storeVars, fileVars, hostVars, HostTypeOK
    <3>2. Journaled'
      BY <2>1, <2>2, <2>3, JobAssumption DEF TInv, Journaled, storeVars
    <3> QED BY <2>3, <3>1, <3>2 DEF TInv
  <2>4. CASE UNCHANGED task
    BY <2>3, <2>4 DEF TInv, TypeOK
  <2>5. CASE Leave(w)
    BY <2>3, <2>5, LeaveWellFormed DEF TInv, TypeOK
  <2>6. CASE \E st \in Statuses \union {NoStatus} :
                 Goto(w, [t EXCEPT !.mem = Reconciled(r, s, st)],
                      IF Reconciled(r, s, st) # r THEN "saveJob" ELSE "classify")
    <3>1. PICK st \in Statuses \union {NoStatus} :
                 Goto(w, [t EXCEPT !.mem = Reconciled(r, s, st)],
                      IF Reconciled(r, s, st) # r THEN "saveJob" ELSE "classify")
      BY <2>6
    <3>2. PICK label \in {"saveJob", "classify"} :
                 Goto(w, [t EXCEPT !.mem = Reconciled(r, s, st)], label)
      BY <3>1
    <3> DEFINE m == Reconciled(r, s, st)
               u == [t EXCEPT !.mem = m]
               u2 == [u EXCEPT !.pc = label]
    <3>3. m \in JobRecord
      BY <2>1, ReconciledType
    <3> HIDE DEF m
    <3>a. {"saveJob", "classify"} \subseteq Labels
      BY DEF Labels
    <3>b. /\ u \in Task /\ u.job = j /\ u.next = "classify"
      BY <1>0, <3>3, <3>a DEF Task
    <3> HIDE DEF u
    <3>4. u2 \in Task /\ u2.job = j /\ u2.next = "classify" /\ u2.pc = label
      BY <3>a, <3>b DEF Task
    <3>5. WellFormed(u2)
      BY <3>4 DEF WellFormed, Heading, OpLabels
    <3>6. Goto(w, u, label)
      BY <3>2 DEF m, u
    <3>7. /\ task' \in [Workers -> Task]
          /\ \A v \in Workers : WellFormed(task'[v])
          /\ \A v \in Workers : task'[v] = IF v = w THEN u2 ELSE task[v]
      BY <3>5, <3>6, GotoWellFormed DEF TInv, TypeOK
    <3> HIDE DEF u2
    <3>8. \A v \in Workers : task'[v].job \in {task[v].job, j}
      BY <3>4, <3>7
    <3> QED BY <2>3, <3>7, <3>8
  <2>7. \/ UNCHANGED task
        \/ Leave(w)
        \/ \E st \in Statuses \union {NoStatus} :
                 Goto(w, [t EXCEPT !.mem = Reconciled(r, s, st)],
                      IF Reconciled(r, s, st) # r THEN "saveJob" ELSE "classify")
    BY <1>1 DEF ScanJob
  <2> QED BY <2>4, <2>5, <2>6, <2>7
<1>2. CASE Classify(w)
  <2> DEFINE t == [Idle EXCEPT !.call = "scan"]
             u == [t EXCEPT !.pc = "scan"]
             e == Executed(task[w].mem.op)
  <2>1. /\ Goto(w, t, "scan")
        /\ UNCHANGED <<restVars, jobFile, journal, intents, manifests, registry>>
        /\ \/ /\ task[w].mem.op # NoOp /\ e # NoOp
              /\ SaveReceiptOf(task[w].job, e, e)
           \/ UNCHANGED receipts
        /\ task[w].job \in Jobs
    BY <1>0, <1>2 DEF Classify, At, WellFormed
  <2>2. u \in Task /\ u.pc = "scan" /\ u.job = NoJob
    BY DEF Idle, Task, Labels, Blank, JobRecord, Statuses
  <2>3. WellFormed(u)
    BY <2>2 DEF WellFormed, Heading, OpLabels
  <2>4. /\ task' \in [Workers -> Task]
        /\ \A v \in Workers : WellFormed(task'[v])
        /\ \A v \in Workers : task'[v] = IF v = w THEN u ELSE task[v]
    BY <2>1, <2>3, GotoWellFormed DEF TInv, TypeOK
  <2> HIDE DEF u, t
  <2>5. task[w].mem.op # NoOp => e \in Ops \union {NoOp}
    <3>1. task[w].mem.op \in Ops \union {NoOp}
      BY <1>0 DEF Task, JobRecord
    <3> QED BY <1>0, <3>1, HostAssumption DEF RestType, HostTypeOK, Executed, Cached
  <2> HIDE DEF e
  <2>6. receipts' \in [Jobs -> [Ops -> Ops \union {NoOp}]]
    BY <1>0, <2>1, <2>5 DEF RestType, SaveReceiptOf
  <2>7. TypeOK'
    BY <2>1, <2>4, <2>6 DEF TInv, TypeOK, restVars, hostVars, HostTypeOK
  <2>8. Journaled'
    BY <2>1, <2>2, <2>4, JobAssumption DEF TInv, Journaled, restVars
  <2> QED BY <2>4, <2>7, <2>8 DEF TInv
<1>3. CASE EndScan(w)
  <2>1. Leave(w) /\ UNCHANGED journal
    BY <1>3 DEF EndScan, storeVars
  <2>2. Advances
    BY <2>1, LeaveAdvances
  <2> QED BY <1>3, <2>2, AdvancesType DEF EndScan, storeVars
<1> QED BY <1>1, <1>2, <1>3

LEMMA TInit == Init => TInv
<1> SUFFICES ASSUME Init PROVE TInv
  OBVIOUS
<1>1. TypeOK
  BY HostAssumption, IdleWellFormed, EmptySeq
     DEF Init, HostInit, TypeOK, HostTypeOK, WellFormed
<1>2. \A w \in Workers : WellFormed(task[w])
  BY IdleWellFormed DEF Init
<1>3. Journaled
  BY JobAssumption DEF Init, Journaled, Idle
<1> QED BY <1>1, <1>2, <1>3 DEF TInv

LEMMA TNext == TInv /\ [Next]_vars => TInv'
<1> SUFFICES ASSUME TInv, [Next]_vars PROVE TInv'
  OBVIOUS
<1>1. CASE UNCHANGED vars
  BY <1>1 DEF TInv, TypeOK, Journaled, vars, storeVars, fileVars, hostVars, HostTypeOK
<1>2. ASSUME NEW w \in Workers, Step(w)
      PROVE  TInv'
  BY <1>2, PlainStepsAdvance, WritingStepsAdvance, JobFileStepsAdvance, ScanStepsType
     DEF Step
<1>3. ASSUME NEW w \in Workers,
             \/ \E j \in Jobs : CreateJob(w, j)
             \/ \E call \in Calls, j \in Jobs, o \in Ops \union {NoOp} : Call(w, call, j, o)
             \/ StartScan(w)
             \/ Crash(w)
      PROVE  TInv'
  BY <1>3, CallerStepsType
<1> QED BY <1>1, <1>2, <1>3 DEF Next

\* Every reachable state is well typed: in particular no call ever reads the
\* operation of a call that has none, or replays a journal that has no event
\* (core/job_service.py, core/recovery.py).
THEOREM TypeCorrect == Spec => []TypeOK
<1>1. Spec => []TInv
  BY TInit, TNext, PTL DEF Spec
<1>2. TInv => TypeOK
  BY DEF TInv
<1> QED BY <1>1, <1>2, PTL

-----------------------------------------------------------------------------
(***************************************************************************)
(* job.json and the journal.  What is on disk, listed by a scan or about   *)
(* to be saved is what some prefix of the journal replays to.  Workers may *)
(* append in between, so it need not be the whole journal, nor one worker's *)
(* events alone.                                                            *)
(***************************************************************************)

\* The first i events of s replay to st.
EndsIn(s, i, st) ==
    \/ st = NoStatus /\ \A k \in 1 .. i : s[k].to = NoStatus
    \/ /\ st # NoStatus
       /\ \E k \in 1 .. i : s[k].to = st /\ \A l \in k + 1 .. i : s[l].to = NoStatus

\* The copy r of job.json is what the first i events of s lead to.
ReplayedAt(r, s, i) ==
    /\ s[i].seq = r.seq
    /\ \E st \in Statuses \union {NoStatus} :
         EndsIn(s, i, st) /\ r.status = IF st = NoStatus THEN "queued" ELSE st

Replayable(r, s) == \E i \in 1 .. Len(s) : ReplayedAt(r, s, i)

\* A saved task: its record is about to become job.json.
Saved(t) == t.job \in Jobs /\ Replayable(t.mem, journal[t.job])

RInv ==
    /\ \A j \in Jobs : jobFile[j] # NoJob => Replayable(jobFile[j], journal[j])
    /\ \A w \in Workers, j \in Jobs :
         listed[w][j] # NoJob => Replayable(listed[w][j], journal[j])
    /\ \A w \in Workers : task[w].pc = "saveJob" => Saved(task[w])

\* Replaying a prefix of a journal only reads that prefix.
LEMMA PrefixReplays ==
    ASSUME NEW s \in Seq(Event), NEW i \in 1 .. Len(s), NEW st, EndsIn(s, i, st)
    PROVE  ReplaysTo(SubSeq(s, 1, i), st)
<1> DEFINE p == SubSeq(s, 1, i)
<1>1. /\ DOMAIN p = 1 .. i /\ Len(p) = i
      /\ \A k \in 1 .. i : p[k] = s[k]
  OBVIOUS
<1> HIDE DEF p
<1>2. ASSUME st = NoStatus
      PROVE  ReplaysTo(p, st)
  BY <1>1, <1>2 DEF EndsIn, ReplaysTo
<1>3. ASSUME st # NoStatus
      PROVE  ReplaysTo(p, st)
  <2>1. PICK k \in 1 .. i : s[k].to = st /\ \A l \in k + 1 .. i : s[l].to = NoStatus
    BY <1>3 DEF EndsIn
  <2>2. k \in DOMAIN p /\ p[k].to = st
    BY <1>1, <2>1
  <2>3. \A l \in k + 1 .. Len(p) : l \in 1 .. i /\ p[l].to = NoStatus
    BY <1>1, <2>1
  <2> QED BY <1>3, <2>2, <2>3 DEF ReplaysTo
<1>4. ReplaysTo(p, st)
  BY <1>2, <1>3
<1> QED BY <1>4 DEF p

\* Appending an event leaves what was replayable replayable.
LEMMA ReplayableGrows ==
    ASSUME NEW s \in Seq(Event), NEW e \in Event, NEW r, Replayable(r, s)
    PROVE  Replayable(r, Append(s, e))
<1> DEFINE a == Append(s, e)
<1>1. Len(a) = Len(s) + 1 /\ \A k \in 1 .. Len(s) : a[k] = s[k]
  OBVIOUS
<1>2. PICK i \in 1 .. Len(s) : ReplayedAt(r, s, i)
  BY DEF Replayable
<1>3. i \in 1 .. Len(a) /\ \A k \in 1 .. i : a[k] = s[k]
  BY <1>1
<1> HIDE DEF a
<1>4. \A st : EndsIn(s, i, st) => EndsIn(a, i, st)
  BY <1>3 DEF EndsIn
<1>5. ReplayedAt(r, a, i)
  BY <1>2, <1>3, <1>4 DEF ReplayedAt
<1>6. Replayable(r, a)
  BY <1>3, <1>5 DEF Replayable
<1> QED BY <1>6 DEF a

\* An event that carries a status makes the record with that status and that
\* sequence replayable, whatever was appended before it.
LEMMA EventReplayable ==
    ASSUME NEW s \in Seq(Event), NEW e \in Event, e.to \in Statuses,
           NEW r, r.seq = e.seq, r.status = e.to
    PROVE  Replayable(r, Append(s, e))
<1> DEFINE a == Append(s, e)
           i == Len(s) + 1
<1>1. i \in 1 .. Len(a) /\ a[i] = e
  OBVIOUS
<1>2. e.to # NoStatus
  BY DEF Statuses, NoStatus
<1> HIDE DEF a
<1>3. EndsIn(a, i, e.to)
  <2>1. i \in 1 .. i /\ \A l \in i + 1 .. i : a[l].to = NoStatus
    OBVIOUS
  <2> HIDE DEF i
  <2> QED BY <1>1, <1>2, <2>1 DEF EndsIn
<1> HIDE DEF i
<1>4. ReplayedAt(r, a, i)
  BY <1>1, <1>2, <1>3 DEF ReplayedAt
<1>5. Replayable(r, a)
  BY <1>1, <1>4 DEF Replayable
<1> QED BY <1>5 DEF a

\* What a scan makes of a listed record and a contiguous journal.  The record
\* is never ahead of the journal, and a journal without a transition belongs to
\* a record that is still queued.
LEMMA ReconciledReplayable ==
    ASSUME NEW s \in Seq(Event), NEW r \in JobRecord, Replayable(r, s), Contiguous(s),
           NEW st \in Statuses \union {NoStatus}, ReplaysTo(s, st)
    PROVE  Replayable(Reconciled(r, s, st), s)
<1> DEFINE n == Len(s)
           m == Reconciled(r, s, st)
<1>1. PICK i \in 1 .. n : ReplayedAt(r, s, i)
  BY DEF Replayable
<1>2. n \in 1 .. n /\ DOMAIN s = 1 .. n
  BY <1>1
<1> HIDE DEF n
<1>3. s[n].seq = n - 1 /\ r.seq = i - 1 /\ i <= n /\ n \in Nat /\ i \in Nat
  BY <1>1, <1>2 DEF Contiguous, ReplayedAt
<1>4. EndsIn(s, n, st)
  BY <1>2 DEF ReplaysTo, EndsIn, n
<1>5. /\ m.seq = IF r.seq < s[n].seq THEN s[n].seq ELSE r.seq
      /\ m.status = IF st = NoStatus THEN r.status ELSE st
  BY DEF Reconciled, JobRecord, n
<1>6. m.seq = s[n].seq
  BY <1>3, <1>5
<1>7. st = NoStatus => r.status = "queued"
  <2>1. SUFFICES ASSUME st = NoStatus PROVE r.status = "queued"
    OBVIOUS
  <2>2. \A k \in 1 .. n : s[k].to = NoStatus
    BY <1>4, <2>1 DEF EndsIn
  <2>3. \A k \in 1 .. i : s[k].to = NoStatus
    BY <1>3, <2>2
  <2> QED BY <1>1, <2>3 DEF ReplayedAt, EndsIn
<1> HIDE DEF m
<1>8. ReplayedAt(m, s, n)
  BY <1>4, <1>5, <1>6, <1>7 DEF ReplayedAt
<1>9. Replayable(m, s)
  BY <1>2, <1>8 DEF Replayable, n
<1> QED BY <1>9 DEF m

\* A journal is appended to, one event at a time, and a task about to save
\* keeps the record it had or has one that is replayable.
JournalGrows ==
    \A j \in Jobs : \/ journal'[j] = journal[j]
                    \/ \E e \in Event : journal'[j] = Append(journal[j], e)

Settles ==
    /\ JournalGrows
    /\ \A v \in Workers : task'[v].pc = "saveJob" => task'[v] = task[v] \/ Saved(task[v])'

LEMMA ReplayableLater ==
    ASSUME TInv, JournalGrows, NEW j \in Jobs, NEW r, Replayable(r, journal[j])
    PROVE  Replayable(r, journal'[j])
<1>1. journal[j] \in Seq(Event)
  BY DEF TInv, TypeOK
<1> QED BY <1>1, ReplayableGrows DEF JournalGrows

\* A step that neither saves job.json nor lists it.
LEMMA SettledStep ==
    ASSUME TInv, RInv, Settles, UNCHANGED <<jobFile, listed>>
    PROVE  RInv'
<1>1. \A j \in Jobs : jobFile'[j] # NoJob => Replayable(jobFile'[j], journal'[j])
  BY ReplayableLater DEF RInv, Settles
<1>2. \A w \in Workers, j \in Jobs :
          listed'[w][j] # NoJob => Replayable(listed'[w][j], journal'[j])
  BY ReplayableLater DEF RInv, Settles
<1>3. \A w \in Workers : task'[w].pc = "saveJob" => Saved(task[w])'
  BY ReplayableLater DEF RInv, Settles, Saved
<1> QED BY <1>1, <1>2, <1>3 DEF RInv

\* Going on to another step than a save.
LEMMA GotoSettles ==
    ASSUME TInv, NEW w \in Workers, NEW t, "pc" \in DOMAIN t, NEW label,
           label # "saveJob", Goto(w, t, label), JournalGrows
    PROVE  Settles
<1>1. \A v \in Workers : task'[v] = IF v = w THEN [t EXCEPT !.pc = label] ELSE task[v]
  BY DEF Goto, TInv, TypeOK
<1>2. [t EXCEPT !.pc = label].pc = label
  OBVIOUS
<1> QED BY <1>1, <1>2 DEF Settles

LEMMA JournalStays == UNCHANGED journal => JournalGrows
BY DEF JournalGrows

LEMMA LeaveSettles ==
    ASSUME TInv, NEW w \in Workers, Leave(w), UNCHANGED journal
    PROVE  Settles
<1>1. "pc" \in DOMAIN task[w]
  BY DEF TInv, TypeOK, Task
<1> QED BY <1>1, GotoSettles, JournalStays DEF Leave

LEMMA AppendGrows ==
    ASSUME TInv, NEW w \in Workers, NEW to \in Statuses \union {NoStatus},
           task[w].job \in Jobs, Append1(w, to)
    PROVE  JournalGrows
<1> DEFINE e == [seq |-> task[w].mem.seq + 1, to |-> to]
<1>1. task[w].mem \in JobRecord
  BY DEF TInv, TypeOK, Task
<1>2. e.seq \in Nat
  BY <1>1 DEF JobRecord
<1>3. e \in Event
  BY <1>2 DEF Event
<1>4. journal' = [journal EXCEPT ![task[w].job] = Append(@, e)]
  BY DEF Append1
<1> HIDE DEF e
<1>5. journal \in [Jobs -> Seq(Event)]
  BY DEF TInv, TypeOK
<1> QED BY <1>3, <1>4, <1>5 DEF JournalGrows

LEMMA EmitSettles ==
    ASSUME TInv, NEW w \in Workers, NEW t \in Task, NEW label, label # "saveJob",
           task[w].job \in Jobs, Emit(w, t, label)
    PROVE  Settles
<1>1. JournalGrows
  BY AppendGrows DEF Emit
<1>2. Goto(w, [t EXCEPT !.mem.seq = @ + 1], label)
  BY DEF Emit
<1>3. "pc" \in DOMAIN [t EXCEPT !.mem.seq = @ + 1]
  BY DEF Task
<1> QED BY <1>1, <1>2, <1>3, GotoSettles

\* A transition appends the event that makes the record it will save
\* replayable.
LEMMA TransitionSettles ==
    ASSUME TInv, NEW w \in Workers, NEW t \in Task, NEW to \in Statuses, NEW label,
           t.job = task[w].job, t.mem = task[w].mem, task[w].job \in Jobs,
           Transition(w, t, to, label)
    PROVE  Settles
<1>1. CASE CanMove(t.mem.status, to)
  <2> DEFINE u == [t EXCEPT !.mem = Moved(@, to), !.next = label]
             u2 == [u EXCEPT !.pc = "saveJob"]
             e == [seq |-> task[w].mem.seq + 1, to |-> to]
  <2>1. Append1(w, to) /\ task' = [task EXCEPT ![w] = u2]
    BY <1>1 DEF Transition, Goto
  <2>2. JournalGrows
    BY <2>1, AppendGrows
  <2>3. u2.job = task[w].job /\ u2.mem = Moved(task[w].mem, to)
    BY DEF Task
  <2>4. task[w].mem \in JobRecord
    BY DEF TInv, TypeOK, Task
  <2>5. Moved(task[w].mem, to).seq = e.seq /\ Moved(task[w].mem, to).status = e.to
    BY <2>4 DEF Moved, JobRecord
  <2>6. e.seq \in Nat /\ e.to \in Statuses
    BY <2>4 DEF JobRecord
  <2>7. e \in Event
    BY <2>6 DEF Event
  <2>8. journal \in [Jobs -> Seq(Event)] /\ journal'[task[w].job] = Append(journal[task[w].job], e)
    BY <2>1 DEF TInv, TypeOK, Append1
  <2> HIDE DEF u2, e
  <2>9. Replayable(u2.mem, journal'[task[w].job])
    BY <2>3, <2>5, <2>6, <2>7, <2>8, EventReplayable
  <2>10. \A v \in Workers : task'[v] = IF v = w THEN u2 ELSE task[v]
    BY <2>1 DEF TInv, TypeOK
  <2> QED BY <2>2, <2>3, <2>9, <2>10 DEF Settles, Saved
<1>2. CASE ~CanMove(t.mem.status, to)
  BY <1>2, LeaveSettles DEF Transition
<1> QED BY <1>1, <1>2

\* The handlers and steps that only add an event, a transition or nothing.
LEMMA PlainStepsReplayable ==
    ASSUME TInv, RInv, NEW w \in Workers,
           \/ Inspect(w) \/ Prepare(w) \/ CheckpointCreated(w) \/ MarkPrepared(w)
           \/ Cancel(w) \/ Recover(w) \/ Restore(w) \/ ApplyStarted(w)
           \/ Interrupted(w) \/ QueryAfterFailure(w) \/ StartVerifying(w)
           \/ VerifyFailed(w) \/ ReceiptRecorded(w) \/ VerifySucceeded(w)
           \/ Complete(w) \/ ResumeInFlight(w) \/ Recheck(w)
    PROVE  RInv'
<1>1. UNCHANGED <<restVars, fileVars, jobFile>>
  BY DEF Inspect, Prepare, CheckpointCreated, MarkPrepared, Cancel, Recover, Restore,
         ApplyStarted, Interrupted, QueryAfterFailure, StartVerifying, VerifyFailed,
         ReceiptRecorded, VerifySucceeded, Complete, ResumeInFlight, Recheck
<1>2. task[w] \in Task /\ WellFormed(task[w]) /\ "pc" \in DOMAIN task[w]
  BY DEF TInv, WellFormed, Task
<1>3. task[w].job \in Jobs
  BY <1>2 DEF WellFormed, At,
         Inspect, Prepare, CheckpointCreated, MarkPrepared, Cancel, Recover, Restore,
         ApplyStarted, Interrupted, QueryAfterFailure, StartVerifying, VerifyFailed,
         ReceiptRecorded, VerifySucceeded, Complete, ResumeInFlight, Recheck
<1>4. SUFFICES Settles
  BY <1>1, SettledStep DEF restVars
<1>5. ASSUME Leave(w), UNCHANGED journal
      PROVE  Settles
  BY <1>5, LeaveSettles
<1>6. ASSUME NEW to \in Statuses, NEW label, Transition(w, task[w], to, label)
      PROVE  Settles
  BY <1>2, <1>3, <1>6, TransitionSettles
<1>7. ASSUME NEW label, label # "saveJob", Emit(w, task[w], label)
      PROVE  Settles
  BY <1>2, <1>3, <1>7, EmitSettles
<1>8. ASSUME NEW label, label # "saveJob", NEW t, "pc" \in DOMAIN t, Goto(w, t, label),
             UNCHANGED journal
      PROVE  Settles
  BY <1>8, GotoSettles, JournalStays
<1>11. CASE Inspect(w)
  BY <1>6, <1>11 DEF Inspect, Statuses
<1>12. CASE Prepare(w)
  BY <1>6, <1>7, <1>12 DEF Prepare, Statuses
<1>13. CASE CheckpointCreated(w)
  BY <1>7, <1>13 DEF CheckpointCreated
<1>14. CASE MarkPrepared(w)
  BY <1>6, <1>14 DEF MarkPrepared, Statuses
<1>15. CASE Cancel(w)
  <2> DEFINE to == CancelTarget(task[w].mem.status)
  <2>1. to \in Statuses \union {NoStatus}
    BY DEF CancelTarget, Statuses
  <2>2. \/ to = NoStatus /\ Leave(w) /\ UNCHANGED journal
        \/ to # NoStatus /\ Transition(w, task[w], to, "return")
    BY <1>15 DEF Cancel
  <2> HIDE DEF to
  <2> QED BY <1>5, <1>6, <2>1, <2>2
<1>16. CASE Recover(w)
  BY <1>5, <1>7, <1>16 DEF Recover
<1>17. CASE Restore(w)
  BY <1>5, <1>6, <1>17 DEF Restore, Statuses
<1>18. CASE ApplyStarted(w)
  BY <1>6, <1>18 DEF ApplyStarted, Statuses
<1>19. CASE Interrupted(w)
  BY <1>7, <1>19 DEF Interrupted
<1>20. CASE QueryAfterFailure(w)
  <2>1. ASSUME NEW r, Applied(w, r), UNCHANGED journal
        PROVE  Settles
    <3>1. "pc" \in DOMAIN [task[w] EXCEPT !.result = r]
      BY <1>2
    <3> QED BY <1>8, <2>1, <3>1 DEF Applied
  <2> QED BY <1>6, <1>20, <2>1 DEF QueryAfterFailure, Statuses
<1>21. CASE StartVerifying(w)
  BY <1>6, <1>21 DEF StartVerifying, Statuses
<1>22. CASE VerifyFailed(w)
  BY <1>6, <1>22 DEF VerifyFailed, Statuses
<1>23. CASE ReceiptRecorded(w)
  BY <1>7, <1>23 DEF ReceiptRecorded
<1>24. CASE VerifySucceeded(w)
  BY <1>7, <1>24 DEF VerifySucceeded
<1>25. CASE Complete(w)
  BY <1>6, <1>25 DEF Complete, Statuses
<1>26. CASE ResumeInFlight(w)
  <2> DEFINE t == [task[w] EXCEPT !.op = task[w].mem.op]
             x == [t EXCEPT !.result = Receipt(t)]
             y == [t EXCEPT !.result = Executed(t.op)]
  <2>1. task[w].mem.op \in Ops /\ Receipt(t) \in Ops \union {NoOp}
        /\ Executed(t.op) \in Ops \union {NoOp}
    BY <1>2, <1>3, <1>26, HostAssumption
       DEF ResumeInFlight, HasIntent, Task, JobRecord, TInv, TypeOK, HostTypeOK,
           Receipt, Executed, Cached
  <2>2. /\ t \in Task /\ t.job = task[w].job /\ t.mem = task[w].mem
        /\ x \in Task /\ x.job = task[w].job /\ x.mem = task[w].mem
        /\ y \in Task /\ y.job = task[w].job /\ y.mem = task[w].mem
        /\ "pc" \in DOMAIN t
    BY <1>2, <2>1 DEF Task
  <2>3. \/ Transition(w, x, "verifying", "verifyJob")
        \/ Transition(w, y, "verifying", "verify")
        \/ Goto(w, t, "redispatch") /\ UNCHANGED journal
        \/ Transition(w, t, "recovery_required", "return")
    BY <1>26 DEF ResumeInFlight
  <2> HIDE DEF t, x, y
  <2>4. "verifying" \in Statuses /\ "recovery_required" \in Statuses
    BY DEF Statuses
  <2>5. ASSUME NEW to \in Statuses, NEW label, NEW u \in {t, x, y}, Transition(w, u, to, label)
        PROVE  Settles
    BY <1>3, <2>2, <2>5, TransitionSettles
  <2> QED BY <1>8, <2>2, <2>3, <2>4, <2>5
<1>27. CASE Recheck(w)
  BY <1>2, <1>5, <1>6, <1>8, <1>27 DEF Recheck, Statuses
<1> QED BY <1>11, <1>12, <1>13, <1>14, <1>15, <1>16, <1>17, <1>18, <1>19, <1>20, <1>21,
           <1>22, <1>23, <1>24, <1>25, <1>26, <1>27

\* The steps that write other files, take the lock or call the host.
LEMMA WritingStepsReplayable ==
    ASSUME TInv, RInv, NEW w \in Workers,
           \/ CreateCheckpoint(w) \/ AcquireLock(w) \/ CheckIdempotency(w)
           \/ Preflight(w) \/ RegisterIntent(w) \/ Dispatch(w)
           \/ CheckRevision(w) \/ HostSavesDocument(w)
           \/ HostRecordsOperation(w) \/ HostRecordsKey(w) \/ Verify(w)
           \/ SaveReceipt(w) \/ RegisterReceipt(w) \/ VerifyAgain(w)
    PROVE  RInv'
<1>1. UNCHANGED <<jobFile, listed>>
  BY DEF CreateCheckpoint, AcquireLock, CheckIdempotency, Preflight, RegisterIntent,
         Dispatch, CheckRevision,
         HostSavesDocument, HostRecordsOperation, HostRecordsKey, Verify, SaveReceipt,
         RegisterReceipt, VerifyAgain, restVars, storeVars
<1>2. task[w] \in Task /\ WellFormed(task[w])
  BY DEF TInv, WellFormed
<1>3. SUFFICES Settles
  BY <1>1, SettledStep
<1>4. ASSUME Leave(w), UNCHANGED journal
      PROVE  Settles
  BY <1>4, LeaveSettles
<1>5. ASSUME NEW label, label # "saveJob", NEW t, DOMAIN t = DOMAIN task[w],
             Goto(w, t, label), UNCHANGED journal
      PROVE  Settles
  BY <1>2, <1>5, GotoSettles, JournalStays DEF Task
<1>6. ASSUME NEW label, label # "saveJob", NEW r, NEW b, UNCHANGED journal,
             \/ Goto(w, task[w], label)
             \/ Goto(w, [task[w] EXCEPT !.result = r], label)
             \/ Goto(w, [task[w] EXCEPT !.locked = b], label)
             \/ Goto(w, [task[w] EXCEPT !.mem.op = r], label)
             \/ Goto(w, [task[w] EXCEPT !.mem.checkpoint = b], label)
      PROVE  Settles
  BY <1>5, <1>6
<1>7. ASSUME NEW label, label # "saveJob", Emit(w, task[w], label),
             Verify(w) \/ VerifyAgain(w)
      PROVE  Settles
  <2>1. task[w].job \in Jobs
    BY <1>2, <1>7 DEF Verify, VerifyAgain, At, WellFormed
  <2> QED BY <1>2, <1>7, <2>1, EmitSettles
<1>8. CASE CreateCheckpoint(w)
  BY <1>4, <1>6, <1>8 DEF CreateCheckpoint
<1>9. CASE AcquireLock(w)
  <2>1. ASSUME NEW label \in {"checkIdempotency", "recheck"},
               Goto(w, [task[w] EXCEPT !.locked = TRUE], label), UNCHANGED journal
        PROVE  Settles
    BY <1>6, <2>1
  <2> QED BY <1>4, <1>9, <2>1 DEF AcquireLock, storeVars
<1>10. CASE CheckIdempotency(w)
  <2> DEFINE e == registry[OpKey[task[w].op]]
  <2>1. /\ UNCHANGED journal
        /\ \/ Leave(w)
           \/ \E label \in {"return", "verifyJob"} :
                Goto(w, [task[w] EXCEPT !.result = e.receipt], label)
           \/ Goto(w, task[w], "preflight")
    BY <1>10 DEF CheckIdempotency
  <2> HIDE DEF e
  <2> QED BY <1>4, <1>6, <2>1
<1>11. CASE Preflight(w)
  BY <1>4, <1>6, <1>11 DEF Preflight
<1>12. CASE RegisterIntent(w)
  BY <1>4, <1>6, <1>12 DEF RegisterIntent
<1>13. ASSUME UNCHANGED journal, HostFailed(w)
       PROVE  Settles
  BY <1>6, <1>13 DEF HostFailed
<1>14. ASSUME UNCHANGED journal, NEW r, Applied(w, r)
       PROVE  Settles
  BY <1>6, <1>14 DEF Applied
<1>15. CASE Dispatch(w)
  <2>1. /\ UNCHANGED journal
        /\ \/ Goto(w, task[w], "checkRevision")
           \/ Applied(w, Cached(task[w].op))
           \/ HostFailed(w)
    BY <1>15 DEF Dispatch, storeVars
  <2> QED BY <1>6, <1>13, <1>14, <2>1
<1>22. CASE CheckRevision(w)
  BY <1>6, <1>13, <1>22 DEF CheckRevision, storeVars
<1>23. CASE HostSavesDocument(w)
  BY <1>6, <1>23 DEF HostSavesDocument, storeVars
<1>16. CASE HostRecordsOperation(w)
  BY <1>6, <1>16 DEF HostRecordsOperation, storeVars
<1>17. CASE HostRecordsKey(w)
  BY <1>13, <1>14, <1>17 DEF HostRecordsKey, storeVars
<1>18. CASE Verify(w)
  BY <1>6, <1>7, <1>18 DEF Verify
<1>19. CASE SaveReceipt(w)
  BY <1>6, <1>19 DEF SaveReceipt
<1>20. CASE RegisterReceipt(w)
  BY <1>4, <1>6, <1>20 DEF RegisterReceipt
<1>21. CASE VerifyAgain(w)
  BY <1>7, <1>21 DEF VerifyAgain
<1> QED BY <1>8, <1>9, <1>10, <1>11, <1>12, <1>15, <1>16, <1>17, <1>18, <1>19, <1>20, <1>21,
           <1>22, <1>23

\* The steps that write or read job.json, and the end of a call.
LEMMA JobFileStepsReplayable ==
    ASSUME TInv, RInv, NEW w \in Workers,
           \/ SaveJob(w) \/ Return(w) \/ VerifyJob(w)
           \/ ResumeVerifying(w) \/ ResumeNothing(w)
    PROVE  RInv'
<1>1. task[w] \in Task /\ WellFormed(task[w]) /\ "pc" \in DOMAIN task[w]
  BY DEF TInv, WellFormed, Task
<1>2. CASE SaveJob(w)
  <2>1. /\ task[w].pc = "saveJob"
        /\ jobFile' = [jobFile EXCEPT ![task[w].job] = task[w].mem]
        /\ Goto(w, [task[w] EXCEPT !.next = "idle"], task[w].next)
        /\ UNCHANGED <<journal, listed>>
    BY <1>2 DEF SaveJob, At, restVars
  <2>2. task[w].job \in Jobs /\ Replayable(task[w].mem, journal[task[w].job])
    BY <2>1 DEF RInv, Saved
  <2>3. \A j \in Jobs : jobFile'[j] # NoJob => Replayable(jobFile'[j], journal'[j])
    BY <2>1, <2>2 DEF RInv, TInv, TypeOK
  <2>4. \A v \in Workers : v # w => task'[v] = task[v]
    BY <2>1 DEF Goto, TInv, TypeOK
  <2>5. task'[w].job = task[w].job /\ task'[w].mem = task[w].mem
    BY <1>1, <2>1 DEF Goto, TInv, TypeOK, Task
  <2>6. \A v \in Workers : task'[v].pc = "saveJob" => Saved(task[v])'
    BY <2>1, <2>2, <2>4, <2>5 DEF RInv, Saved
  <2>7. \A v \in Workers, j \in Jobs :
            listed'[v][j] # NoJob => Replayable(listed'[v][j], journal'[j])
    BY <2>1 DEF RInv
  <2> QED BY <2>3, <2>6, <2>7 DEF RInv
<1>3. CASE ~SaveJob(w)
  <2>1. UNCHANGED <<jobFile, listed, journal>>
    BY <1>3 DEF Return, VerifyJob, ResumeVerifying, ResumeNothing, restVars, storeVars
  <2>2. SUFFICES Settles
    BY <2>1, SettledStep
  <2>3. ASSUME NEW t, DOMAIN t = DOMAIN task[w], NEW label, label # "saveJob", Goto(w, t, label)
        PROVE  Settles
    BY <1>1, <2>1, <2>3, GotoSettles, JournalStays
  <2>4. CASE Return(w)
    <3>1. \A v \in Workers : task'[v] = IF v = w THEN Idle ELSE task[v]
      BY <2>4 DEF Return, TInv, TypeOK
    <3> QED BY <2>1, <3>1, JournalStays DEF Settles, Idle
  <2>5. CASE VerifyJob(w)
    <3>1. ASSUME NEW m, Goto(w, [task[w] EXCEPT !.mem = m], "verifyAgain")
          PROVE  Settles
      BY <2>3, <3>1
    <3> QED BY <2>1, <2>5, <3>1, LeaveSettles DEF VerifyJob
  <2>6. CASE ResumeVerifying(w)
    BY <2>3, <2>6 DEF ResumeVerifying
  <2>7. CASE ResumeNothing(w)
    BY <2>1, <2>7, LeaveSettles DEF ResumeNothing
  <2> QED BY <1>3, <2>4, <2>5, <2>6, <2>7
<1> QED BY <1>2, <1>3

\* A caller starts a call, a scan or a new job, or its process dies.
LEMMA CallerStepsReplayable ==
    ASSUME TInv, RInv, NEW w \in Workers,
           \/ \E j \in Jobs : CreateJob(w, j)
           \/ \E call \in Calls, j \in Jobs, o \in Ops \union {NoOp} : Call(w, call, j, o)
           \/ StartScan(w)
           \/ Crash(w)
    PROVE  RInv'
<1>1. ASSUME NEW j \in Jobs, CreateJob(w, j)
      PROVE  RInv'
  <2> DEFINE e == [seq |-> 0, to |-> NoStatus]
             t == [Idle EXCEPT !.call = "create", !.job = j, !.next = "return",
                               !.mem.seq = 0]
             u == [t EXCEPT !.pc = "saveJob"]
  <2>1. /\ journal[j] = <<>> /\ journal' = [journal EXCEPT ![j] = <<e>>]
        /\ Goto(w, t, "saveJob") /\ UNCHANGED <<jobFile, listed>>
    BY <1>1 DEF CreateJob, restVars
  <2>2. e \in Event /\ Append(journal[j], e) = <<e>>
    BY <2>1 DEF Event
  <2>3. JournalGrows
    BY <2>1, <2>2 DEF JournalGrows, TInv, TypeOK
  <2>4. u.job = j /\ u.mem.seq = 0 /\ u.mem.status = "queued"
    BY DEF Idle, Blank
  <2>5. ReplayedAt(u.mem, <<e>>, 1)
    BY <2>4 DEF ReplayedAt, EndsIn
  <2>6. Replayable(u.mem, <<e>>)
    BY <2>5 DEF Replayable
  <2>7. \A v \in Workers : task'[v] = IF v = w THEN u ELSE task[v]
    BY <2>1 DEF Goto, TInv, TypeOK
  <2>8. journal'[j] = <<e>>
    BY <2>1 DEF TInv, TypeOK
  <2> HIDE DEF u, e
  <2>9. Settles
    BY <2>3, <2>4, <2>6, <2>7, <2>8 DEF Settles, Saved
  <2> QED BY <2>1, <2>9, SettledStep
<1>2. ASSUME NEW call \in Calls, NEW j \in Jobs, NEW o \in Ops \union {NoOp}, Call(w, call, j, o)
      PROVE  RInv'
  <2> DEFINE t == [Idle EXCEPT !.call = call, !.job = j, !.mem = jobFile[j], !.op = o]
  <2>1. Goto(w, t, call) /\ UNCHANGED <<jobFile, listed, journal>>
    BY <1>2 DEF Call, restVars, storeVars
  <2>2. call # "saveJob" /\ "pc" \in DOMAIN t
    BY JobAssumption DEF Idle
  <2> QED BY <2>1, <2>2, GotoSettles, JournalStays, SettledStep
<1>3. CASE StartScan(w)
  <2>1. /\ Goto(w, [Idle EXCEPT !.call = "scan"], "scan") /\ UNCHANGED <<jobFile, journal>>
        /\ listed' = [listed EXCEPT ![w] = [j \in Jobs |->
                          IF CanLoad(j) THEN jobFile[j] ELSE NoJob]]
    BY <1>3 DEF StartScan, storeVars
  <2>2. "pc" \in DOMAIN [Idle EXCEPT !.call = "scan"]
    BY DEF Idle
  <2>3. Settles
    BY <2>1, <2>2, GotoSettles, JournalStays
  <2>4. \A v \in Workers, j \in Jobs :
            listed'[v][j] # NoJob => Replayable(listed'[v][j], journal'[j])
    BY <2>1 DEF RInv, TInv, TypeOK
  <2>5. \A v \in Workers : task'[v].pc = "saveJob" => Saved(task[v])'
    BY <2>1, <2>3 DEF Settles, RInv, Saved
  <2> QED BY <2>1, <2>4, <2>5 DEF RInv
<1>4. CASE Crash(w)
  <2>1. /\ task' = [task EXCEPT ![w] = Idle] /\ UNCHANGED <<jobFile, journal>>
        /\ listed' = [listed EXCEPT ![w] = NothingListed]
    BY <1>4 DEF Crash, storeVars
  <2>2. \A v \in Workers, j \in Jobs :
            listed'[v][j] # NoJob => Replayable(listed'[v][j], journal'[j])
    BY <2>1 DEF RInv, TInv, TypeOK, NothingListed
  <2>3. \A v \in Workers : task'[v] = IF v = w THEN Idle ELSE task[v]
    BY <2>1 DEF TInv, TypeOK
  <2>4. \A v \in Workers : task'[v].pc = "saveJob" => Saved(task[v])'
    BY <2>1, <2>3 DEF RInv, Saved, Idle
  <2> QED BY <2>1, <2>2, <2>4 DEF RInv
<1> QED BY <1>1, <1>2, <1>3, <1>4

\* The startup scan.
LEMMA ScanStepsReplayable ==
    ASSUME TInv, RInv, NEW w \in Workers,
           \/ \E j \in Jobs : ScanJob(w, j)
           \/ Classify(w) \/ EndScan(w)
    PROVE  RInv'
<1>1. task[w] \in Task /\ "pc" \in DOMAIN task[w]
  BY DEF TInv, TypeOK, Task
<1>2. ASSUME NEW j \in Jobs, ScanJob(w, j)
      PROVE  RInv'
  <2> DEFINE r == listed[w][j]
             s == journal[j]
             t == [task[w] EXCEPT !.job = j, !.next = "classify"]
  <2>1. UNCHANGED <<jobFile, journal>> /\ r # NoJob
    BY <1>2 DEF ScanJob, storeVars
  <2>2. /\ r \in JobRecord /\ s \in Seq(Event) /\ Replayable(r, s)
    BY <2>1 DEF TInv, TypeOK, RInv
  <2>3. ASSUME Settles,
               \A v \in Workers, i \in Jobs :
                   listed'[v][i] # NoJob => listed'[v][i] = listed[v][i]
        PROVE  RInv'
    <3>1. \A v \in Workers : task'[v].pc = "saveJob" => Saved(task[v])'
      BY <2>1, <2>3 DEF RInv, Settles, Saved
    <3> QED BY <2>1, <2>3, <3>1 DEF RInv
  <2>4. /\ \/ listed' = [listed EXCEPT ![w][j] = NoJob]
           \/ listed' = [listed EXCEPT ![w] = NothingListed]
    BY <1>2 DEF ScanJob
  <2>5. \A v \in Workers, i \in Jobs : listed'[v][i] # NoJob => listed'[v][i] = listed[v][i]
    <3>1. listed \in [Workers -> [Jobs -> JobRecord \union {NoJob}]]
      BY DEF TInv, TypeOK
    <3>2. CASE listed' = [listed EXCEPT ![w][j] = NoJob]
      BY <3>1, <3>2
    <3>3. CASE listed' = [listed EXCEPT ![w] = NothingListed]
      BY <3>1, <3>3 DEF NothingListed
    <3> QED BY <2>4, <3>2, <3>3
  <2>6. ASSUME UNCHANGED task
        PROVE  Settles
    BY <2>1, <2>6, JournalStays DEF Settles
  <2>7. ASSUME NEW st \in Statuses \union {NoStatus}, ReplaysTo(s, st), Contiguous(s),
               NEW label \in {"saveJob", "classify"},
               Goto(w, [t EXCEPT !.mem = Reconciled(r, s, st)], label)
        PROVE  Settles
    <3> DEFINE m == Reconciled(r, s, st)
               u == [[t EXCEPT !.mem = m] EXCEPT !.pc = label]
    <3>1. Replayable(m, s)
      BY <2>2, <2>7, ReconciledReplayable
    <3>2. u.job = j /\ u.mem = m
      BY <1>1 DEF Task
    <3>3. \A v \in Workers : task'[v] = IF v = w THEN u ELSE task[v]
      BY <2>7 DEF Goto, TInv, TypeOK
    <3> HIDE DEF u, m
    <3> QED BY <2>1, <3>1, <3>2, <3>3, JournalStays DEF Settles, Saved
  <2>8. \/ UNCHANGED task
        \/ Leave(w)
        \/ /\ Contiguous(s)
           /\ \E st \in Statuses \union {NoStatus} :
                /\ ReplaysTo(s, st)
                /\ \E label \in {"saveJob", "classify"} :
                      Goto(w, [t EXCEPT !.mem = Reconciled(r, s, st)], label)
    BY <1>2 DEF ScanJob
  <2> HIDE DEF t, r, s
  <2> QED BY <2>1, <2>3, <2>5, <2>6, <2>7, <2>8, LeaveSettles
<1>3. CASE Classify(w)
  <2>1. /\ Goto(w, [Idle EXCEPT !.call = "scan"], "scan")
        /\ UNCHANGED <<jobFile, journal, listed>>
    BY <1>3 DEF Classify, restVars
  <2>2. "pc" \in DOMAIN [Idle EXCEPT !.call = "scan"]
    BY DEF Idle
  <2> QED BY <2>1, <2>2, GotoSettles, JournalStays, SettledStep
<1>4. CASE EndScan(w)
  <2>1. Leave(w) /\ UNCHANGED <<jobFile, journal, listed>>
    BY <1>4 DEF EndScan, restVars, storeVars
  <2> QED BY <2>1, LeaveSettles, SettledStep
<1> QED BY <1>2, <1>3, <1>4

LEMMA RInit == Init => RInv
BY DEF Init, RInv, Idle

LEMMA RNext == TInv /\ RInv /\ [Next]_vars => RInv'
<1> SUFFICES ASSUME TInv, RInv, [Next]_vars PROVE RInv'
  OBVIOUS
<1>1. CASE UNCHANGED vars
  BY <1>1 DEF RInv, Saved, vars, storeVars
<1>2. ASSUME NEW w \in Workers, Step(w)
      PROVE  RInv'
  BY <1>2, PlainStepsReplayable, WritingStepsReplayable, JobFileStepsReplayable,
     ScanStepsReplayable DEF Step
<1>3. ASSUME NEW w \in Workers,
             \/ \E j \in Jobs : CreateJob(w, j)
             \/ \E call \in Calls, j \in Jobs, o \in Ops \union {NoOp} : Call(w, call, j, o)
             \/ StartScan(w)
             \/ Crash(w)
      PROVE  RInv'
  BY <1>3, CallerStepsReplayable
<1> QED BY <1>1, <1>2, <1>3 DEF Next

\* However many workers append to a journal, save the copies they hold and
\* crash in between, the job.json on disk is what a prefix of the journal
\* replays to, so a scan that replays the journal never loses a status that
\* job.json has (core/job_service.py:86, core/recovery.py:74).
THEOREM JobFileIsReplayable == Spec => []JobFileReplayable
<1>1. TInv /\ RInv => JobFileReplayable
  <2> SUFFICES ASSUME TInv, RInv, NEW j \in Jobs, jobFile[j] # NoJob
               PROVE  \E i \in DOMAIN journal[j] :
                        /\ journal[j][i].seq = jobFile[j].seq
                        /\ \E st \in Statuses \union {NoStatus} :
                             /\ ReplaysTo(SubSeq(journal[j], 1, i), st)
                             /\ jobFile[j].status = IF st = NoStatus THEN "queued" ELSE st
    BY DEF JobFileReplayable
  <2>1. journal[j] \in Seq(Event)
    BY DEF TInv, TypeOK
  <2>2. PICK i \in 1 .. Len(journal[j]) : ReplayedAt(jobFile[j], journal[j], i)
    BY DEF RInv, Replayable
  <2>3. PICK st \in Statuses \union {NoStatus} :
               /\ EndsIn(journal[j], i, st)
               /\ jobFile[j].status = IF st = NoStatus THEN "queued" ELSE st
    BY <2>2 DEF ReplayedAt
  <2>4. ReplaysTo(SubSeq(journal[j], 1, i), st)
    BY <2>1, <2>2, <2>3, PrefixReplays
  <2>5. i \in DOMAIN journal[j] /\ journal[j][i].seq = jobFile[j].seq
    BY <2>1, <2>2 DEF ReplayedAt
  <2> QED BY <2>3, <2>4, <2>5
<1>2. Init => TInv /\ RInv
  BY TInit, RInit
<1>3. TInv /\ RInv /\ [Next]_vars => (TInv /\ RInv)'
  BY TNext, RNext
<1> QED BY <1>1, <1>2, <1>3, PTL DEF Spec

-----------------------------------------------------------------------------
(***************************************************************************)
(* One effect per request.  The worker that redispatches a request, or     *)
(* retries it under a fresh operation id, may find no record of it on the  *)
(* host: the process may have died before writing one.  What protects the  *)
(* document is that the revision the request expects does not come back.   *)
(* A copy a call has read is saved over whatever the file holds by then,   *)
(* so what holds of the document is proved of every such copy as well.     *)
(***************************************************************************)

\* What a worker does leaves the calls of the others where they are.
Own(w) == UNCHANGED task \/ \E t : task' = [task EXCEPT ![w] = t]

LEMMA StepIsOwn ==
    ASSUME NEW w \in Workers, Step(w)
    PROVE  Own(w)
<1>1. ASSUME NEW t, NEW label, Goto(w, t, label)
      PROVE  Own(w)
  BY <1>1 DEF Goto, Own
<1>2. ASSUME Leave(w)
      PROVE  Own(w)
  BY <1>1, <1>2 DEF Leave
<1>3. ASSUME NEW t, NEW label, Emit(w, t, label)
      PROVE  Own(w)
  BY <1>1, <1>3 DEF Emit
<1>4. ASSUME NEW t, NEW to, NEW label, Transition(w, t, to, label)
      PROVE  Own(w)
  BY <1>1, <1>2, <1>4 DEF Transition
<1>5. ASSUME NEW e, Applied(w, e)
      PROVE  Own(w)
  BY <1>1, <1>5 DEF Applied
<1>6. ASSUME HostFailed(w)
      PROVE  Own(w)
  BY <1>1, <1>6 DEF HostFailed
<1>7. ASSUME task' = task
      PROVE  Own(w)
  BY <1>7 DEF Own
<1>8. CASE \/ SaveJob(w) \/ Inspect(w) \/ Prepare(w) \/ CreateCheckpoint(w)
           \/ CheckpointCreated(w) \/ MarkPrepared(w) \/ Cancel(w) \/ Recover(w)
           \/ Restore(w) \/ AcquireLock(w) \/ Preflight(w) \/ ApplyStarted(w)
  BY <1>1, <1>2, <1>3, <1>4, <1>8
     DEF SaveJob, Inspect, Prepare, CreateCheckpoint, CheckpointCreated, MarkPrepared,
         Cancel, Recover, Restore, AcquireLock, Preflight, ApplyStarted
<1>9. CASE Return(w)
  BY <1>9 DEF Return, Own
<1>10. CASE CheckIdempotency(w) \/ RegisterIntent(w) \/ RegisterReceipt(w)
  BY <1>1, <1>2, <1>10 DEF CheckIdempotency, RegisterIntent, RegisterReceipt
<1>11. CASE \/ Dispatch(w) \/ CheckRevision(w) \/ HostSavesDocument(w)
            \/ HostRecordsOperation(w) \/ HostRecordsKey(w)
  BY <1>1, <1>5, <1>6, <1>11
     DEF Dispatch, CheckRevision, HostSavesDocument, HostRecordsOperation, HostRecordsKey
<1>12. CASE \/ Interrupted(w) \/ QueryAfterFailure(w) \/ StartVerifying(w)
            \/ Verify(w) \/ VerifyFailed(w) \/ SaveReceipt(w) \/ ReceiptRecorded(w)
            \/ VerifySucceeded(w) \/ Complete(w) \/ VerifyJob(w) \/ VerifyAgain(w)
  BY <1>1, <1>2, <1>3, <1>4, <1>5, <1>12
     DEF Interrupted, QueryAfterFailure, StartVerifying, Verify, VerifyFailed, SaveReceipt,
         ReceiptRecorded, VerifySucceeded, Complete, VerifyJob, VerifyAgain
<1>13. CASE ResumeInFlight(w) \/ ResumeVerifying(w) \/ ResumeNothing(w) \/ Recheck(w)
  BY <1>1, <1>2, <1>4, <1>13 DEF ResumeInFlight, ResumeVerifying, ResumeNothing, Recheck
<1>14. CASE (\E j \in Jobs : ScanJob(w, j)) \/ Classify(w) \/ EndScan(w)
  BY <1>1, <1>2, <1>7, <1>14 DEF ScanJob, Classify, EndScan
<1> QED BY <1>8, <1>9, <1>10, <1>11, <1>12, <1>13, <1>14 DEF Step

\* The document and the copies of it change in three steps only, and a call that
\* holds a copy takes no other.
LEMMA DocumentKept ==
    ASSUME TInv, [Next]_vars
    PROVE  \/ /\ UNCHANGED <<docRevision, mutations, copies>>
              /\ \A v \in Workers : task[v].pc = "saveDocument" => task'[v] = task[v]
           \/ \E w \in Workers : Crash(w)
           \/ \E w \in Workers : CheckRevision(w) /\ ReadDocument(w, task[w].op)
           \/ \E w \in Workers : HostSavesDocument(w)
<1>1. task \in [Workers -> Task]
  BY DEF TInv, TypeOK
<1>2. ASSUME NEW w \in Workers, Own(w), task[w].pc # "saveDocument"
      PROVE  \A v \in Workers : task[v].pc = "saveDocument" => task'[v] = task[v]
  BY <1>1, <1>2 DEF Own
<1>3. CASE UNCHANGED vars
  BY <1>3 DEF vars, hostVars
<1>4. ASSUME NEW w \in Workers, Step(w), ~HostSavesDocument(w),
             ~(CheckRevision(w) /\ ReadDocument(w, task[w].op))
      PROVE  /\ UNCHANGED <<docRevision, mutations, copies>>
             /\ task[w].pc # "saveDocument"
  BY <1>4
     DEF Step, restVars, hostVars, RecordOperation, RecordKey, At,
         SaveJob, Return, Inspect, Prepare, CreateCheckpoint, CheckpointCreated,
         MarkPrepared, Cancel, Recover, Restore, AcquireLock, CheckIdempotency, Preflight,
         ApplyStarted, RegisterIntent, Dispatch, CheckRevision, HostRecordsOperation,
         HostRecordsKey, Interrupted,
         QueryAfterFailure, StartVerifying, Verify, VerifyFailed, SaveReceipt,
         RegisterReceipt, ReceiptRecorded, VerifySucceeded, Complete, VerifyJob,
         VerifyAgain, ResumeInFlight, ResumeVerifying, ResumeNothing, Recheck, ScanJob,
         Classify, EndScan
<1>5. ASSUME NEW w \in Workers,
             \/ \E j \in Jobs : CreateJob(w, j)
             \/ \E call \in Calls, j \in Jobs, o \in Ops \union {NoOp} : Call(w, call, j, o)
             \/ StartScan(w)
      PROVE  /\ UNCHANGED <<docRevision, mutations, copies>>
             /\ task[w].pc # "saveDocument" /\ Own(w)
  BY <1>5 DEF CreateJob, Call, StartScan, At, Goto, Own, restVars, hostVars
<1> QED BY <1>2, <1>3, <1>4, <1>5, StepIsOwn DEF Next

\* The sets of revisions the document stays in once o has been executed.
Futures(o) ==
    {S \in SUBSET Revisions : /\ NextRevision[OpRevision[o]] \in S
                              /\ \A r \in S : NextRevision[r] \in S}

\* Of the content M of a document: one change for each request.
Once(M) ==
    \A o, p \in Ops :
        /\ M[o] <= 1
        /\ OpKey[o] = OpKey[p] /\ M[o] > 0 /\ M[p] > 0 => o = p

\* Of a document with content M and revision r: it is past its changes.
Spent(M, r) == \A o \in Ops : M[o] > 0 => \A S \in Futures(o) : r \in S

MInv ==
    /\ Once(mutations) /\ Spent(mutations, docRevision)
    /\ \A w \in Workers : copies[w] # NoCopy =>
          /\ task[w].pc = "saveDocument"
          /\ copies[w].revision = OpRevision[task[w].op]
          /\ Once(copies[w].mutations) /\ Spent(copies[w].mutations, copies[w].revision)

\* A document at the revision o expects carries no change under o's key, and
\* after o it carries one.
LEMMA ChangedOnce ==
    ASSUME RevisionsNotReused, NEW M \in [Ops -> Nat], NEW o \in Ops, NEW N,
           Once(M), Spent(M, OpRevision[o]), N = [M EXCEPT ![o] = @ + 1]
    PROVE  Once(N) /\ Spent(N, NextRevision[OpRevision[o]])
<1>1. ASSUME NEW p \in Ops, OpKey[p] = OpKey[o]
      PROVE  M[p] = 0
  <2>1. PICK S \in SUBSET Revisions : /\ NextRevision[OpRevision[p]] \in S
                                      /\ \A r \in S : NextRevision[r] \in S
                                      /\ OpRevision[o] \notin S
    BY <1>1 DEF RevisionsNotReused
  <2>2. S \in Futures(p)
    BY <2>1 DEF Futures
  <2>3. ~(M[p] > 0)
    BY <2>1, <2>2 DEF Spent
  <2> QED BY <2>3
<1>2. N[o] = 1 /\ \A p \in Ops : p # o => N[p] = M[p]
  BY <1>1
<1>3. Once(N)
  BY <1>1, <1>2 DEF Once
<1>4. ASSUME NEW p \in Ops, N[p] > 0, NEW S \in Futures(p)
      PROVE  NextRevision[OpRevision[o]] \in S
  <2>1. /\ NextRevision[OpRevision[p]] \in S
        /\ \A r \in S : NextRevision[r] \in S
    BY DEF Futures
  <2>2. CASE p = o
    BY <2>1, <2>2
  <2>3. CASE p # o
    BY <1>2, <1>4, <2>1, <2>3 DEF Spent
  <2> QED BY <2>2, <2>3
<1> QED BY <1>3, <1>4 DEF Spent

LEMMA MNext ==
    ASSUME RevisionsNotReused
    PROVE  TInv /\ MInv /\ [Next]_vars => MInv'
<1> SUFFICES ASSUME TInv, MInv, [Next]_vars PROVE MInv'
  OBVIOUS
<1>0. /\ copies \in [Workers -> Document \union {NoCopy}] /\ task \in [Workers -> Task]
      /\ mutations \in [Ops -> Nat]
  BY DEF TInv, TypeOK, HostTypeOK
<1>1. CASE /\ UNCHANGED <<docRevision, mutations, copies>>
           /\ \A v \in Workers : task[v].pc = "saveDocument" => task'[v] = task[v]
  BY <1>1 DEF MInv
<1>2. ASSUME NEW w \in Workers, Crash(w)
      PROVE  MInv'
  <2>1. /\ UNCHANGED <<docRevision, mutations>>
        /\ \A v \in Workers : IF v = w THEN copies'[v] = NoCopy
                              ELSE copies'[v] = copies[v] /\ task'[v] = task[v]
    BY <1>0, <1>2 DEF Crash, Forget
  <2> QED BY <2>1 DEF MInv
<1>3. ASSUME NEW w \in Workers, CheckRevision(w), ReadDocument(w, task[w].op)
      PROVE  MInv'
  <2> DEFINE d == [revision |-> docRevision, mutations |-> mutations]
  <2>1. /\ UNCHANGED <<docRevision, mutations>> /\ docRevision = OpRevision[task[w].op]
        /\ \A v \in Workers : IF v = w THEN copies'[v] = d
                              ELSE copies'[v] = copies[v]
    BY <1>0, <1>3 DEF ReadDocument, RevisionMatches
  <2>2. \/ Goto(w, task[w], "saveDocument")
        \/ HostFailed(w) /\ UNCHANGED copies
    BY <1>3 DEF CheckRevision, hostVars
  <2>3. CASE Goto(w, task[w], "saveDocument")
    <3>1. \A v \in Workers : IF v = w THEN task'[v].pc = "saveDocument" /\ task'[v].op = task[v].op
                             ELSE task'[v] = task[v]
      BY <1>0, <2>3 DEF Goto, Task
    <3>2. d.revision = docRevision /\ d.mutations = mutations
      OBVIOUS
    <3> HIDE DEF d
    <3> QED BY <2>1, <3>1, <3>2 DEF MInv
  <2>4. CASE HostFailed(w) /\ UNCHANGED copies
    <3>1. copies[w] = d /\ d.revision = docRevision
      BY <2>1, <2>4
    <3>2. d # NoCopy
      BY <1>0, HostAssumption DEF Document, TInv, TypeOK, HostTypeOK
    <3>3. task[w].pc # "saveDocument"
      BY <1>3 DEF CheckRevision, At
    <3> QED BY <3>1, <3>2, <3>3 DEF MInv
  <2> QED BY <2>2, <2>3, <2>4
<1>4. ASSUME NEW w \in Workers, HostSavesDocument(w)
      PROVE  MInv'
  <2> DEFINE o == task[w].op
             M == copies[w].mutations
  <2>1. o \in Ops
    BY <1>4 DEF HostSavesDocument, At, TInv, WellFormed, Heading, OpLabels
  <2>2. /\ copies[w] # NoCopy /\ copies[w] \in Document
        /\ copies' = [copies EXCEPT ![w] = NoCopy]
        /\ mutations' = [M EXCEPT ![o] = @ + 1]
        /\ docRevision' = NextRevision[copies[w].revision]
    BY <1>0, <1>4 DEF HostSavesDocument, SaveDocument
  <2>3. M \in [Ops -> Nat] /\ Once(M) /\ Spent(M, OpRevision[o])
        /\ copies[w].revision = OpRevision[o]
    BY <2>2 DEF MInv, Document
  <2>4. Once(mutations') /\ Spent(mutations', docRevision')
    <3> HIDE DEF o, M
    <3> QED BY <2>1, <2>2, <2>3, ChangedOnce
  <2>5. \A v \in Workers : IF v = w THEN copies'[v] = NoCopy
                           ELSE copies'[v] = copies[v] /\ task'[v] = task[v]
    BY <1>0, <1>4, <2>2 DEF HostSavesDocument, Goto
  <2> QED BY <2>4, <2>5 DEF MInv
<1> QED BY <1>1, <1>2, <1>3, <1>4, DocumentKept

LEMMA MInit == Init => MInv
BY DEF Init, HostInit, MInv, Once, Spent

\* However many workers apply, redispatch, retry under fresh operation ids and
\* crash between the host's accesses to its files, two of them between the check
\* of the revision and the save included, the document carries the change of a
\* request at most once: the reasoning behind the redispatch of resume_job
\* (core/job_service.py:620, testing/durable_host.py:263).  It takes a host that
\* does not give the document a revision again.
THEOREM RequestTakesEffectOnce ==
    ASSUME RevisionsNotReused
    PROVE  Spec => []AtMostOnce
<1>1. Init => TInv /\ MInv
  BY TInit, MInit
<1>2. TInv /\ MInv /\ [Next]_vars => (TInv /\ MInv)'
  BY TNext, MNext
<1>3. MInv => AtMostOnce
  BY DEF MInv, Once, AtMostOnce
<1> QED BY <1>1, <1>2, <1>3, PTL DEF Spec

\* The stand-in host never returns to its initial revision, so requests that
\* expect that one are safe on it (testing/durable_host.py:275).
THEOREM FirstRevisionIsNotReused ==
    ASSUME \A o \in Ops : OpRevision[o] = InitialRevision,
           \A r \in Revisions : NextRevision[r] # InitialRevision
    PROVE  RevisionsNotReused
<1> DEFINE S == Revisions \ {InitialRevision}
<1>1. ASSUME NEW o \in Ops, NEW p \in Ops
      PROVE  /\ NextRevision[OpRevision[o]] \in S
             /\ \A r \in S : NextRevision[r] \in S
             /\ OpRevision[p] \notin S
  BY HostAssumption
<1>2. S \in SUBSET Revisions
  OBVIOUS
<1> HIDE DEF S
<1> QED BY <1>1, <1>2 DEF RevisionsNotReused

-----------------------------------------------------------------------------
(***************************************************************************)
(* What the job service has evidence for: a checkpoint before the document *)
(* is changed, and a confirmation by the host before anything says         *)
(* "completed" or is cached as executed.                                   *)
(*                                                                         *)
(* Checkpoints (C), confirmed operations (V) and receipts (R) are never    *)
(* taken back, so what a call has evidence for stays true whatever the     *)
(* other workers do; the operators below take them as parameters to speak  *)
(* of them before and after a step.                                        *)
(***************************************************************************)
\* The steps taken only with the checkpoint that the operation needs, only once
\* the host has confirmed the operation, and only with a result in hand.
GuardedLabels == {"applyStarted", "registerIntent", "redispatch", "recheck", "dispatch",
                  "checkRevision", "saveDocument"}
ConfirmedLabels == {"saveReceipt", "registerReceipt", "receiptRecorded",
                    "verifySucceeded", "complete"}
ResultLabels == {"applied", "verify", "saveReceipt", "registerReceipt",
                 "verifyJob", "verifyAgain"}

Confirmed(j, V) == OpsOf(j) \intersect V # {}

\* What a copy of job.json claims is backed.
Backed(j, m, C, V) ==
    /\ m.checkpoint => j \in C
    /\ m.op # NoOp => OpJob[m.op] = j
    /\ m.status = "completed" => Confirmed(j, V)

Evidence(t, C, V, R) ==
    /\ Heading(t) = "scan" => t.op = NoOp
    /\ t.job \in Jobs =>
        /\ Backed(t.job, t.mem, C, V)
        /\ t.op # NoOp => OpJob[t.op] = t.job
        /\ Heading(t) \in GuardedLabels => CheckpointPresent(t.op, t.mem)
        /\ Heading(t) \in ConfirmedLabels => t.op \in V /\ t.op # NoOp
        /\ Heading(t) \in ResultLabels => t.result # NoOp
        /\ Heading(t) = "registerReceipt" => R[t.job][t.op] # NoOp

TasksBacked == \A v \in Workers : Evidence(task[v], manifests, verified, receipts)

FilesBacked ==
    \A j \in Jobs : jobFile[j] # NoJob => Backed(j, jobFile[j], manifests, verified)

ListingsBacked ==
    \A v \in Workers, j \in Jobs :
        listed[v][j] # NoJob => Backed(j, listed[v][j], manifests, verified)

JournalConfirmed ==
    \A j \in Jobs : \A i \in DOMAIN journal[j] :
        journal[j][i].to = "completed" => Confirmed(j, verified)

\* So is what the document says, on disk or read by a call of the host.
EffectsBacked ==
    /\ MutationHasCheckpoint
    /\ \A v \in Workers : copies[v] # NoCopy =>
          \A o \in NeedsCheckpoint : copies[v].mutations[o] > 0 => OpJob[o] \in manifests

EInv == /\ TasksBacked
        /\ FilesBacked
        /\ ListingsBacked
        /\ JournalConfirmed
        /\ RegistryOnlyVerified
        /\ EffectsBacked

-----------------------------------------------------------------------------
(***************************************************************************)
(* Evidence only grows.                                                    *)
(***************************************************************************)

Grows == /\ manifests \subseteq manifests'
         /\ verified \subseteq verified'
         /\ \A j \in Jobs, o \in Ops : receipts[j][o] # NoOp => receipts'[j][o] # NoOp

LEMMA BackedGrows ==
    ASSUME Grows, NEW j, NEW m, Backed(j, m, manifests, verified)
    PROVE  Backed(j, m, manifests', verified')
BY DEF Grows, Backed, Confirmed

LEMMA EvidenceGrows ==
    ASSUME Grows, NEW t, t.job \in Jobs => WellFormed(t),
           Evidence(t, manifests, verified, receipts)
    PROVE  Evidence(t, manifests', verified', receipts')
<1>1. t.job \in Jobs => Backed(t.job, t.mem, manifests', verified')
  BY BackedGrows DEF Evidence
<1>2. t.job \in Jobs /\ Heading(t) = "registerReceipt" => receipts'[t.job][t.op] # NoOp
  BY DEF Grows, Evidence, WellFormed, OpLabels
<1>3. t.job \in Jobs /\ Heading(t) \in ConfirmedLabels => t.op \in verified'
  BY DEF Grows, Evidence
<1> QED BY <1>1, <1>2, <1>3 DEF Evidence

\* A step of one worker keeps every task backed if it keeps its own.
LEMMA GotoBacked ==
    ASSUME TInv, TasksBacked, Grows, NEW w \in Workers, NEW t, NEW label,
           Goto(w, t, label),
           Evidence([t EXCEPT !.pc = label], manifests', verified', receipts')
    PROVE  TasksBacked'
<1>1. \A v \in Workers : task'[v] = IF v = w THEN [t EXCEPT !.pc = label] ELSE task[v]
  BY DEF Goto, TInv, TypeOK
<1>2. \A v \in Workers : Evidence(task[v], manifests', verified', receipts')
  BY EvidenceGrows DEF TInv, TasksBacked
<1> QED BY <1>1, <1>2 DEF TasksBacked

LEMMA LeaveBacked ==
    ASSUME TInv, TasksBacked, Grows, NEW w \in Workers, Leave(w)
    PROVE  TasksBacked'
<1> DEFINE u == [task[w] EXCEPT !.pc = "return"]
<1>1. Evidence(task[w], manifests', verified', receipts') /\ task[w] \in Task
  BY EvidenceGrows DEF TInv, TasksBacked, WellFormed
<1>2. /\ u.job = task[w].job /\ u.mem = task[w].mem /\ u.op = task[w].op
      /\ Heading(u) = "return"
  BY <1>1 DEF Task, Heading
<1>3. Evidence(u, manifests', verified', receipts')
  BY <1>1, <1>2 DEF Evidence, GuardedLabels, ConfirmedLabels, ResultLabels
<1> QED BY <1>3, GotoBacked DEF Leave

LEMMA AppendConfirmed ==
    ASSUME TInv, JournalConfirmed, Grows, NEW w \in Workers,
           NEW to \in Statuses \union {NoStatus}, task[w].job \in Jobs, Append1(w, to),
           to = "completed" => Confirmed(task[w].job, verified')
    PROVE  JournalConfirmed'
<1> DEFINE e == [seq |-> task[w].mem.seq + 1, to |-> to]
<1>1. journal' = [journal EXCEPT ![task[w].job] = Append(@, e)] /\ e.to = to
  BY DEF Append1
<1> HIDE DEF e
<1>2. \A j \in Jobs : \A i \in DOMAIN journal[j] :
          journal[j][i].to = "completed" => Confirmed(j, verified')
  BY DEF JournalConfirmed, Grows, Confirmed
<1>3. \A s \in Seq(Event) : \A i \in DOMAIN Append(s, e) :
          Append(s, e)[i] = e \/ (i \in DOMAIN s /\ Append(s, e)[i] = s[i])
  OBVIOUS
<1> QED BY <1>1, <1>2, <1>3 DEF JournalConfirmed, TInv, TypeOK

\* The event of an Emit says nothing; its caller has evidence for the label.
LEMMA EmitBacked ==
    ASSUME TInv, TasksBacked, JournalConfirmed, Grows, NEW w \in Workers,
           NEW t \in Task, NEW label \in Labels, label # "saveJob",
           t.job = task[w].job, task[w].job \in Jobs, Emit(w, t, label),
           Evidence([t EXCEPT !.pc = label], manifests', verified', receipts')
    PROVE  TasksBacked' /\ JournalConfirmed'
<1> DEFINE a == [t EXCEPT !.pc = label]
           u == [t EXCEPT !.mem.seq = @ + 1]
           u2 == [u EXCEPT !.pc = label]
<1>1. /\ a.job = t.job /\ a.mem = t.mem /\ a.op = t.op /\ a.result = t.result
      /\ Heading(a) = label
  BY DEF Task, Heading
<1>2. /\ u2.job = t.job /\ u2.op = t.op /\ u2.result = t.result
      /\ Heading(u2) = label
  BY DEF Task, Heading
<1>3. /\ u2.mem.checkpoint = t.mem.checkpoint /\ u2.mem.op = t.mem.op
      /\ u2.mem.status = t.mem.status
  BY DEF Task, JobRecord
<1> HIDE DEF a, u2
<1>4. Evidence(u2, manifests', verified', receipts')
  BY <1>1, <1>2, <1>3 DEF Evidence, Backed, CheckpointPresent, a
<1>5. Goto(w, u, label) /\ Append1(w, NoStatus)
  BY DEF Emit
<1>6. TasksBacked'
  BY <1>4, <1>5, GotoBacked DEF u2
<1>7. JournalConfirmed'
  BY <1>5, AppendConfirmed DEF NoStatus
<1> QED BY <1>6, <1>7

\* A transition needs evidence for the label it leads to, and for "completed".
LEMMA TransitionBacked ==
    ASSUME TInv, TasksBacked, JournalConfirmed, Grows, NEW w \in Workers,
           NEW t \in Task, NEW to \in Statuses, NEW label \in Labels, label # "saveJob",
           t.job = task[w].job, task[w].job \in Jobs, Transition(w, t, to, label),
           Evidence([t EXCEPT !.pc = label], manifests', verified', receipts'),
           to = "completed" => Confirmed(task[w].job, verified')
    PROVE  TasksBacked' /\ JournalConfirmed'
<1>1. CASE CanMove(t.mem.status, to)
  <2> DEFINE a == [t EXCEPT !.pc = label]
             u == [t EXCEPT !.mem = Moved(@, to), !.next = label]
             u2 == [u EXCEPT !.pc = "saveJob"]
  <2>1. /\ a.job = t.job /\ a.mem = t.mem /\ a.op = t.op /\ a.result = t.result
        /\ Heading(a) = label
    BY DEF Task, Heading
  <2>2. /\ u2.job = t.job /\ u2.op = t.op /\ u2.result = t.result
        /\ u2.mem = Moved(t.mem, to) /\ Heading(u2) = label
    BY DEF Task, Heading
  <2>3. /\ Moved(t.mem, to).checkpoint = t.mem.checkpoint
        /\ Moved(t.mem, to).op = t.mem.op
        /\ Moved(t.mem, to).status = to
    BY DEF Task, JobRecord, Moved
  <2> HIDE DEF a, u2
  <2>4. Evidence(u2, manifests', verified', receipts')
    BY <2>1, <2>2, <2>3 DEF Evidence, Backed, CheckpointPresent, a
  <2>5. Goto(w, u, "saveJob") /\ Append1(w, to)
    BY <1>1 DEF Transition
  <2>6. TasksBacked'
    BY <2>4, <2>5, GotoBacked DEF u2
  <2>7. JournalConfirmed'
    BY <2>5, AppendConfirmed
  <2> QED BY <2>6, <2>7
<1>2. CASE ~CanMove(t.mem.status, to)
  <2>1. Leave(w) /\ UNCHANGED journal
    BY <1>2 DEF Transition
  <2>2. JournalConfirmed'
    BY <2>1 DEF JournalConfirmed, Grows, Confirmed
  <2> QED BY <2>1, <2>2, LeaveBacked
<1> QED BY <1>1, <1>2

\* A step that changes nothing but the journals and the task records.
LEMMA PlainStepBacked ==
    ASSUME TInv, EInv, TasksBacked', JournalConfirmed',
           UNCHANGED <<restVars, fileVars, jobFile>>
    PROVE  EInv'
<1>1. FilesBacked' /\ ListingsBacked'
  BY DEF EInv, FilesBacked, ListingsBacked, restVars, fileVars
<1>2. RegistryOnlyVerified'
  BY DEF EInv, RegistryOnlyVerified, restVars, fileVars
<1>3. EffectsBacked'
  BY DEF EInv, EffectsBacked, MutationHasCheckpoint, restVars, fileVars, hostVars
<1> QED BY <1>1, <1>2, <1>3 DEF EInv

LEMMA KeptGrows == UNCHANGED <<manifests, verified, receipts>> => Grows
BY DEF Grows

LEMMA KeptJournal ==
    ASSUME JournalConfirmed, Grows, UNCHANGED journal
    PROVE  JournalConfirmed'
BY DEF JournalConfirmed, Grows, Confirmed

\* What it takes to go on to a label with the same record.
LEMMA Relabel ==
    ASSUME NEW t \in Task, NEW label, label # "saveJob", NEW C, NEW V, NEW R,
           Evidence(t, C, V, R),
           label \in GuardedLabels => CheckpointPresent(t.op, t.mem),
           label \in ConfirmedLabels => t.op \in V /\ t.op # NoOp,
           label \in ResultLabels => t.result # NoOp,
           label = "registerReceipt" => R[t.job][t.op] # NoOp,
           label = "scan" => t.op = NoOp
    PROVE  Evidence([t EXCEPT !.pc = label], C, V, R)
<1> DEFINE a == [t EXCEPT !.pc = label]
<1>1. /\ a.job = t.job /\ a.mem = t.mem /\ a.op = t.op /\ a.result = t.result
      /\ Heading(a) = label
  BY DEF Task, Heading
<1> HIDE DEF a
<1>2. Evidence(a, C, V, R)
  BY <1>1 DEF Evidence
<1> QED BY <1>2 DEF a

-----------------------------------------------------------------------------
(***************************************************************************)
(* The steps.                                                              *)
(***************************************************************************)

\* The handlers and steps that only add an event, a transition or nothing.
LEMMA PlainStepsBacked ==
    ASSUME TInv, EInv, NEW w \in Workers,
           \/ Inspect(w) \/ Prepare(w) \/ CheckpointCreated(w) \/ MarkPrepared(w)
           \/ Cancel(w) \/ Recover(w) \/ Restore(w) \/ ApplyStarted(w)
           \/ Interrupted(w) \/ QueryAfterFailure(w) \/ StartVerifying(w)
           \/ VerifyFailed(w) \/ ReceiptRecorded(w) \/ VerifySucceeded(w)
           \/ Complete(w) \/ ResumeInFlight(w) \/ Recheck(w)
    PROVE  EInv'
<1>1. UNCHANGED <<restVars, fileVars, jobFile>>
  BY DEF Inspect, Prepare, CheckpointCreated, MarkPrepared, Cancel, Recover, Restore,
         ApplyStarted, Interrupted, QueryAfterFailure, StartVerifying, VerifyFailed,
         ReceiptRecorded, VerifySucceeded, Complete, ResumeInFlight, Recheck
<1>2. /\ task[w] \in Task /\ WellFormed(task[w])
      /\ Evidence(task[w], manifests, verified, receipts)
      /\ TasksBacked /\ JournalConfirmed
  BY DEF TInv, WellFormed, EInv, TasksBacked
<1>3. task[w].job \in Jobs
  BY <1>2 DEF WellFormed, At,
         Inspect, Prepare, CheckpointCreated, MarkPrepared, Cancel, Recover, Restore,
         ApplyStarted, Interrupted, QueryAfterFailure, StartVerifying, VerifyFailed,
         ReceiptRecorded, VerifySucceeded, Complete, ResumeInFlight, Recheck
<1>4. Grows
  BY <1>1, KeptGrows DEF restVars, fileVars
<1>5. Evidence(task[w], manifests', verified', receipts')
  BY <1>2, <1>4, EvidenceGrows
<1>6. SUFFICES TasksBacked' /\ JournalConfirmed'
  BY <1>1, PlainStepBacked
<1>7. \A label \in Labels \ (GuardedLabels \union ConfirmedLabels \union ResultLabels
                               \union {"saveJob", "scan"}) :
          Evidence([task[w] EXCEPT !.pc = label], manifests', verified', receipts')
  BY <1>2, <1>5, Relabel DEF ResultLabels
<1>8. ASSUME Leave(w), UNCHANGED journal
      PROVE  TasksBacked' /\ JournalConfirmed'
  BY <1>2, <1>4, <1>8, LeaveBacked, KeptJournal
<1>9. ASSUME NEW to \in Statuses \ {"completed"}, Transition(w, task[w], to, "return")
      PROVE  TasksBacked' /\ JournalConfirmed'
  BY <1>2, <1>3, <1>4, <1>7, <1>9, TransitionBacked
     DEF Labels, GuardedLabels, ConfirmedLabels, ResultLabels
<1>10. ASSUME NEW label \in {"createCheckpoint", "markPrepared", "restore",
                              "queryAfterFailure"},
              Emit(w, task[w], label)
       PROVE  TasksBacked' /\ JournalConfirmed'
  BY <1>2, <1>3, <1>4, <1>7, <1>10, EmitBacked
     DEF Labels, GuardedLabels, ConfirmedLabels, ResultLabels
<1>11. CASE Inspect(w)
  BY <1>9, <1>11 DEF Inspect, Statuses
<1>12. CASE Prepare(w)
  BY <1>9, <1>10, <1>12 DEF Prepare, Statuses
<1>13. CASE CheckpointCreated(w)
  BY <1>10, <1>13 DEF CheckpointCreated
<1>14. CASE MarkPrepared(w)
  BY <1>9, <1>14 DEF MarkPrepared, Statuses
<1>15. CASE Cancel(w)
  <2> DEFINE to == CancelTarget(task[w].mem.status)
  <2>1. to \in {"cancelled", "cancel_requested", NoStatus}
    BY DEF CancelTarget
  <2>2. \/ to = NoStatus /\ Leave(w) /\ UNCHANGED journal
        \/ to # NoStatus /\ Transition(w, task[w], to, "return")
    BY <1>15 DEF Cancel
  <2> HIDE DEF to
  <2> QED BY <1>8, <1>9, <2>1, <2>2 DEF Statuses
<1>16. CASE Recover(w)
  BY <1>8, <1>10, <1>16 DEF Recover
<1>17. CASE Restore(w)
  BY <1>8, <1>9, <1>17 DEF Restore, Statuses
<1>18. CASE ApplyStarted(w)
  <2>1. /\ Transition(w, task[w], "applying", "registerIntent")
        /\ CheckpointPresent(task[w].op, task[w].mem)
    BY <1>2, <1>3, <1>18 DEF ApplyStarted, At, Evidence, Heading, GuardedLabels
  <2>2. Evidence([task[w] EXCEPT !.pc = "registerIntent"], manifests', verified', receipts')
    BY <1>2, <1>5, <2>1, Relabel DEF ConfirmedLabels, ResultLabels
  <2> QED BY <1>2, <1>3, <1>4, <2>1, <2>2, TransitionBacked DEF Statuses, Labels
<1>19. CASE Interrupted(w)
  BY <1>10, <1>19 DEF Interrupted
<1>20. CASE QueryAfterFailure(w)
  <2>1. ASSUME Executed(task[w].op) # NoOp, Applied(w, Executed(task[w].op)),
               UNCHANGED journal
        PROVE  TasksBacked' /\ JournalConfirmed'
    <3> DEFINE e == Executed(task[w].op)
               t == [task[w] EXCEPT !.result = e]
    <3>1. e \in Ops \union {NoOp}
      <4>1. task[w].op \in Ops
        BY <1>2, <1>20 DEF QueryAfterFailure, At, WellFormed, Heading, OpLabels
      <4> QED BY <4>1, HostAssumption DEF TInv, TypeOK, HostTypeOK, Executed, Cached
    <3>2. /\ t \in Task /\ t.job = task[w].job /\ t.mem = task[w].mem
          /\ t.op = task[w].op /\ t.result = e /\ Heading(t) = "queryAfterFailure"
      BY <1>2, <1>20, <3>1 DEF Task, Heading, QueryAfterFailure, At
    <3>3. Goto(w, t, "applied") /\ e # NoOp
      BY <2>1 DEF Applied
    <3> HIDE DEF t, e
    <3>4. Evidence(t, manifests', verified', receipts')
      BY <1>5, <3>2 DEF Evidence, GuardedLabels, ConfirmedLabels, ResultLabels
    <3>5. Evidence([t EXCEPT !.pc = "applied"], manifests', verified', receipts')
      BY <3>2, <3>3, <3>4, Relabel DEF GuardedLabels, ConfirmedLabels
    <3> QED BY <1>2, <1>4, <2>1, <3>3, <3>5, GotoBacked, KeptJournal
  <2> QED BY <1>9, <1>20, <2>1 DEF QueryAfterFailure, Statuses
<1>21. CASE StartVerifying(w)
  <2>1. Transition(w, task[w], "verifying", "verify") /\ task[w].result # NoOp
    BY <1>2, <1>3, <1>21 DEF StartVerifying, At, Evidence, Heading, ResultLabels
  <2>2. Evidence([task[w] EXCEPT !.pc = "verify"], manifests', verified', receipts')
    BY <1>2, <1>5, <2>1, Relabel DEF GuardedLabels, ConfirmedLabels
  <2> QED BY <1>2, <1>3, <1>4, <2>1, <2>2, TransitionBacked DEF Statuses, Labels
<1>22. CASE VerifyFailed(w)
  BY <1>9, <1>22 DEF VerifyFailed, Statuses
<1>23. ASSUME NEW label \in {"verifySucceeded", "complete"}, Emit(w, task[w], label),
              At(w, "receiptRecorded") \/ At(w, "verifySucceeded")
       PROVE  TasksBacked' /\ JournalConfirmed'
  <2>1. task[w].op \in verified' /\ task[w].op # NoOp
    BY <1>3, <1>5, <1>23 DEF At, Evidence, Heading, ConfirmedLabels
  <2>2. Evidence([task[w] EXCEPT !.pc = label], manifests', verified', receipts')
    BY <1>2, <1>5, <1>23, <2>1, Relabel DEF GuardedLabels, ResultLabels
  <2> QED BY <1>2, <1>3, <1>4, <1>23, <2>2, EmitBacked DEF Labels
<1>24. CASE ReceiptRecorded(w)
  BY <1>23, <1>24 DEF ReceiptRecorded
<1>25. CASE VerifySucceeded(w)
  BY <1>23, <1>25 DEF VerifySucceeded
<1>26. CASE Complete(w)
  <2>1. /\ Transition(w, task[w], "completed", "return")
        /\ task[w].op \in verified' /\ task[w].op # NoOp
        /\ OpJob[task[w].op] = task[w].job
    BY <1>3, <1>5, <1>26 DEF Complete, At, Evidence, Heading, ConfirmedLabels
  <2>2. Confirmed(task[w].job, verified')
    BY <1>2, <2>1 DEF Confirmed, OpsOf, Task
  <2>3. Evidence([task[w] EXCEPT !.pc = "return"], manifests', verified', receipts')
    BY <1>7 DEF Labels, GuardedLabels, ConfirmedLabels, ResultLabels
  <2> QED BY <1>2, <1>3, <1>4, <2>1, <2>2, <2>3, TransitionBacked DEF Statuses, Labels
<1>27. CASE ResumeInFlight(w)
  <2> DEFINE o == task[w].mem.op
             t == [task[w] EXCEPT !.op = o]
  <2>1. /\ o \in Ops /\ OpJob[o] = task[w].job
    BY <1>2, <1>3, <1>27, HostAssumption
       DEF ResumeInFlight, HasIntent, Evidence, Backed, Task, JobRecord
  <2>2. /\ t \in Task /\ t.op = o /\ t.job = task[w].job /\ t.mem = task[w].mem
        /\ Heading(t) = "resume"
    BY <1>2, <1>27, <2>1 DEF Task, Heading, ResumeInFlight, At
  <2>3. Receipt(t) \in Ops \union {NoOp} /\ Executed(t.op) \in Ops \union {NoOp}
    BY <1>3, <2>1, <2>2, HostAssumption
       DEF TInv, TypeOK, HostTypeOK, Receipt, Executed, Cached
  <2>4. \/ /\ Receipt(t) # NoOp
           /\ Transition(w, [t EXCEPT !.result = Receipt(t)], "verifying", "verifyJob")
        \/ /\ Executed(t.op) # NoOp
           /\ Transition(w, [t EXCEPT !.result = Executed(t.op)], "verifying", "verify")
        \/ /\ CheckpointPresent(t.op, t.mem)
           /\ Goto(w, t, "redispatch") /\ UNCHANGED journal
        \/ Transition(w, t, "recovery_required", "return")
    BY <1>27 DEF ResumeInFlight
  <2>5. Evidence(t, manifests', verified', receipts')
    BY <1>3, <1>5, <2>1, <2>2 DEF Evidence, GuardedLabels, ConfirmedLabels, ResultLabels
  <2> HIDE DEF t, o
  <2>6. ASSUME NEW r \in Ops, NEW label \in {"verifyJob", "verify"},
               Transition(w, [t EXCEPT !.result = r], "verifying", label)
        PROVE  TasksBacked' /\ JournalConfirmed'
    <3> DEFINE u == [t EXCEPT !.result = r]
    <3>1. /\ u \in Task /\ u.op = t.op /\ u.job = t.job /\ u.mem = t.mem
          /\ u.result = r /\ Heading(u) = "resume"
      BY <2>2 DEF Task, Heading
    <3> HIDE DEF u
    <3>2. Evidence(u, manifests', verified', receipts')
      BY <2>2, <2>5, <3>1 DEF Evidence, GuardedLabels, ConfirmedLabels, ResultLabels
    <3>3. Evidence([u EXCEPT !.pc = label], manifests', verified', receipts')
      BY <3>1, <3>2, Relabel, HostAssumption DEF GuardedLabels, ConfirmedLabels
    <3>4. Transition(w, u, "verifying", label)
      BY <2>6 DEF u
    <3> QED BY <1>2, <1>3, <1>4, <2>2, <3>1, <3>3, <3>4, TransitionBacked
            DEF Statuses, Labels
  <2>7. ASSUME CheckpointPresent(t.op, t.mem), Goto(w, t, "redispatch"), UNCHANGED journal
        PROVE  TasksBacked' /\ JournalConfirmed'
    <3>1. Evidence([t EXCEPT !.pc = "redispatch"], manifests', verified', receipts')
      BY <2>2, <2>5, <2>7, Relabel DEF ConfirmedLabels, ResultLabels
    <3> QED BY <1>2, <1>4, <2>7, <3>1, GotoBacked, KeptJournal
  <2>8. ASSUME Transition(w, t, "recovery_required", "return")
        PROVE  TasksBacked' /\ JournalConfirmed'
    <3>1. Evidence([t EXCEPT !.pc = "return"], manifests', verified', receipts')
      BY <2>2, <2>5, Relabel DEF GuardedLabels, ConfirmedLabels, ResultLabels
    <3> QED BY <1>2, <1>3, <1>4, <2>2, <2>8, <3>1, TransitionBacked DEF Statuses, Labels
  <2> QED BY <2>3, <2>4, <2>6, <2>7, <2>8
<1>28. CASE Recheck(w)
  <2>1. CheckpointPresent(task[w].op, task[w].mem)
    BY <1>2, <1>3, <1>28 DEF Recheck, At, Evidence, Heading, GuardedLabels
  <2>2. Evidence([task[w] EXCEPT !.pc = "dispatch"], manifests', verified', receipts')
    BY <1>2, <1>5, <2>1, Relabel DEF ConfirmedLabels, ResultLabels
  <2>3. ASSUME Goto(w, task[w], "dispatch"), UNCHANGED journal
        PROVE  TasksBacked' /\ JournalConfirmed'
    BY <1>2, <1>4, <2>2, <2>3, GotoBacked, KeptJournal
  <2> QED BY <1>8, <1>9, <1>28, <2>3 DEF Recheck, Statuses
<1> QED BY <1>11, <1>12, <1>13, <1>14, <1>15, <1>16, <1>17, <1>18, <1>19, <1>20, <1>21,
           <1>22, <1>24, <1>25, <1>26, <1>27, <1>28

LEMMA KeptFiles ==
    ASSUME EInv, Grows, UNCHANGED <<jobFile, listed>>
    PROVE  FilesBacked' /\ ListingsBacked'
BY BackedGrows DEF EInv, FilesBacked, ListingsBacked

LEMMA KeptRegistry ==
    ASSUME TInv, EInv, Grows, UNCHANGED registry
    PROVE  RegistryOnlyVerified'
<1>1. \A k \in Keys : registry[k] # NoEntry =>
          registry[k].op \in Ops /\ OpJob[registry[k].op] \in Jobs
  BY JobAssumption DEF TInv, TypeOK, Entry
<1> QED BY <1>1 DEF EInv, Grows, RegistryOnlyVerified

LEMMA KeptMutations ==
    ASSUME EInv, Grows, UNCHANGED mutations,
           \A v \in Workers : copies'[v] \in {copies[v], NoCopy}
    PROVE  EffectsBacked'
BY DEF EInv, Grows, EffectsBacked, MutationHasCheckpoint

\* The steps that write other files, take the lock or call the host.
LEMMA WritingStepsBacked ==
    ASSUME TInv, EInv, NEW w \in Workers,
           \/ CreateCheckpoint(w) \/ AcquireLock(w) \/ CheckIdempotency(w)
           \/ Preflight(w) \/ RegisterIntent(w) \/ Dispatch(w)
           \/ CheckRevision(w) \/ HostSavesDocument(w)
           \/ HostRecordsOperation(w) \/ HostRecordsKey(w) \/ Verify(w)
           \/ SaveReceipt(w) \/ RegisterReceipt(w) \/ VerifyAgain(w)
    PROVE  EInv'
<1>1. UNCHANGED <<jobFile, listed>>
  BY DEF CreateCheckpoint, AcquireLock, CheckIdempotency, Preflight, RegisterIntent,
         Dispatch, CheckRevision,
         HostSavesDocument, HostRecordsOperation, HostRecordsKey, Verify, SaveReceipt,
         RegisterReceipt, VerifyAgain, restVars, storeVars
<1>2. /\ task[w] \in Task /\ WellFormed(task[w])
      /\ Evidence(task[w], manifests, verified, receipts)
      /\ TasksBacked /\ JournalConfirmed /\ RegistryOnlyVerified /\ EffectsBacked
  BY DEF TInv, WellFormed, EInv, TasksBacked
<1>3. task[w].job \in Jobs
  BY <1>2 DEF WellFormed, At, CreateCheckpoint, AcquireLock, CheckIdempotency, Preflight,
         RegisterIntent, Dispatch, CheckRevision,
         HostSavesDocument, HostRecordsOperation, HostRecordsKey, Verify,
         SaveReceipt, RegisterReceipt, VerifyAgain
<1>4. ~CreateCheckpoint(w) => task[w].op \in Ops /\ OpJob[task[w].op] = task[w].job
  <2>1. ~CreateCheckpoint(w) => task[w].op \in Ops
    BY <1>2 DEF WellFormed, Heading, OpLabels, At, AcquireLock, CheckIdempotency,
         Preflight, RegisterIntent, Dispatch, CheckRevision,
         HostSavesDocument, HostRecordsOperation, HostRecordsKey,
         Verify, SaveReceipt, RegisterReceipt, VerifyAgain
  <2> QED BY <1>2, <1>3, <2>1, HostAssumption DEF Evidence
<1>5. ASSUME Grows, TasksBacked', JournalConfirmed', RegistryOnlyVerified',
             EffectsBacked'
      PROVE  EInv'
  BY <1>1, <1>5, KeptFiles DEF EInv
<1>6. ASSUME Grows, Leave(w), UNCHANGED <<journal, registry, mutations, copies>>
      PROVE  EInv'
  BY <1>2, <1>5, <1>6, LeaveBacked, KeptJournal, KeptRegistry, KeptMutations
<1>7. ASSUME Grows, NEW t, NEW label, Goto(w, t, label),
             Evidence([t EXCEPT !.pc = label], manifests', verified', receipts'),
             UNCHANGED <<journal, registry, mutations, copies>>
      PROVE  EInv'
  BY <1>2, <1>5, <1>7, GotoBacked, KeptJournal, KeptRegistry, KeptMutations
<1>8. ASSUME Grows
      PROVE  Evidence(task[w], manifests', verified', receipts')
  BY <1>2, <1>8, EvidenceGrows
<1>9. CASE CreateCheckpoint(w)
  <2>1. Grows /\ UNCHANGED <<journal, registry, mutations, copies>>
    BY <1>9 DEF CreateCheckpoint, Grows, restVars, hostVars
  <2>2. ASSUME manifests' = manifests \union {task[w].job},
               Goto(w, [task[w] EXCEPT !.mem.checkpoint = TRUE], "checkpointCreated")
        PROVE  EInv'
    <3> DEFINE t == [task[w] EXCEPT !.mem.checkpoint = TRUE]
               u == [t EXCEPT !.pc = "checkpointCreated"]
    <3>1. /\ u.job = task[w].job /\ u.op = task[w].op /\ Heading(u) = "checkpointCreated"
          /\ u.mem.op = task[w].mem.op /\ u.mem.status = task[w].mem.status
      BY <1>2 DEF Task, JobRecord, Heading
    <3> HIDE DEF u
    <3>2. Evidence(u, manifests', verified', receipts')
      BY <1>8, <2>1, <2>2, <3>1
         DEF Evidence, Backed, GuardedLabels, ConfirmedLabels, ResultLabels
    <3> QED BY <1>7, <2>1, <2>2, <3>2 DEF u
  <2> QED BY <1>6, <1>9, <2>1, <2>2 DEF CreateCheckpoint
<1>10. CASE AcquireLock(w)
  <2>1. Grows /\ UNCHANGED <<journal, registry, mutations, copies>>
    BY <1>10 DEF AcquireLock, Grows, storeVars, fileVars, hostVars
  <2>2. CASE At(w, "apply") /\ Goto(w, [task[w] EXCEPT !.locked = TRUE], "checkIdempotency")
    <3> DEFINE t == [task[w] EXCEPT !.locked = TRUE]
               u == [t EXCEPT !.pc = "checkIdempotency"]
    <3>1. /\ u.job = task[w].job /\ u.op = task[w].op /\ u.mem = task[w].mem
          /\ Heading(u) = "checkIdempotency"
      BY <1>2 DEF Task, Heading
    <3> HIDE DEF u
    <3>2. Evidence(u, manifests', verified', receipts')
      BY <1>8, <2>1, <3>1 DEF Evidence, GuardedLabels, ConfirmedLabels, ResultLabels
    <3> QED BY <1>7, <2>1, <2>2, <3>2 DEF u
  <2>3. CASE At(w, "redispatch") /\ Goto(w, [task[w] EXCEPT !.locked = TRUE], "recheck")
    <3> DEFINE t == [task[w] EXCEPT !.locked = TRUE]
               u == [t EXCEPT !.pc = "recheck"]
    <3>1. /\ u.job = task[w].job /\ u.op = task[w].op /\ u.mem = task[w].mem
          /\ Heading(u) = "recheck"
      BY <1>2 DEF Task, Heading
    <3> HIDE DEF u
    <3>2. CheckpointPresent(task[w].op, task[w].mem)
      BY <1>2, <1>3, <2>3 DEF At, Evidence, Heading, GuardedLabels
    <3>3. Evidence(u, manifests', verified', receipts')
      BY <1>8, <2>1, <3>1, <3>2 DEF Evidence, ConfirmedLabels, ResultLabels
    <3> QED BY <1>7, <2>1, <2>3, <3>3 DEF u
  <2>4. "apply" # "redispatch"
    OBVIOUS
  <2> QED BY <1>6, <1>10, <2>1, <2>2, <2>3, <2>4 DEF AcquireLock, At
<1>11. CASE CheckIdempotency(w)
  <2> DEFINE e == registry[OpKey[task[w].op]]
  <2>1. UNCHANGED <<journal, registry, mutations, copies, manifests, verified>>
    BY <1>11 DEF CheckIdempotency, restVars, hostVars
  <2>2. task[w].op \in Ops
    BY <1>4, <1>11 DEF CheckIdempotency, CreateCheckpoint, At
  <2>3. e \in Entry \union {NoEntry}
    BY <2>2, HostAssumption DEF TInv, TypeOK
  <2>4. CASE UNCHANGED receipts /\ Leave(w)
    BY <1>6, <2>1, <2>4, KeptGrows
  <2>5. CASE UNCHANGED receipts /\ Goto(w, task[w], "preflight")
    <3>1. Grows
      BY <2>1, <2>5, KeptGrows
    <3>2. Evidence([task[w] EXCEPT !.pc = "preflight"], manifests', verified', receipts')
      BY <1>2, <1>8, <3>1, Relabel DEF GuardedLabels, ConfirmedLabels, ResultLabels
    <3> QED BY <1>7, <2>1, <2>5, <3>1, <3>2
  <2>6. ASSUME AlreadyExecuted(task[w].op), SaveReceiptOf(task[w].job, e.op, e.receipt),
               NEW label \in {"return", "verifyJob"},
               Goto(w, [task[w] EXCEPT !.result = e.receipt], label)
        PROVE  EInv'
    <3> DEFINE t == [task[w] EXCEPT !.result = e.receipt]
               u == [t EXCEPT !.pc = label]
    <3>1. e # NoEntry /\ e.receipt # NoOp
      BY <2>6 DEF AlreadyExecuted
    <3>2. e.op \in Ops /\ e.receipt \in Ops \union {NoOp}
      BY <2>3, <3>1 DEF Entry
    <3>3. Grows
      BY <1>3, <2>1, <2>6, <3>1, <3>2 DEF Grows, SaveReceiptOf, TInv, TypeOK
    <3>4. /\ u.job = task[w].job /\ u.op = task[w].op /\ u.mem = task[w].mem
          /\ u.result = e.receipt /\ Heading(u) = label
      BY <1>2, <2>6 DEF Task, Heading
    <3> HIDE DEF u, e
    <3>5. Evidence(u, manifests', verified', receipts')
      BY <1>8, <2>6, <3>1, <3>3, <3>4 DEF Evidence, GuardedLabels, ConfirmedLabels
    <3> QED BY <1>7, <2>1, <2>6, <3>3, <3>5 DEF u
  <2> QED BY <1>11, <2>4, <2>5, <2>6 DEF CheckIdempotency
<1>12. CASE Preflight(w)
  <2>1. Grows /\ UNCHANGED <<journal, registry, mutations, copies>>
    BY <1>12 DEF Preflight, Grows, restVars, hostVars
  <2>2. ASSUME CheckpointPresent(task[w].op, task[w].mem),
               Goto(w, [task[w] EXCEPT !.mem.op = task[w].op], "applyStarted")
        PROVE  EInv'
    <3> DEFINE t == [task[w] EXCEPT !.mem.op = task[w].op]
               u == [t EXCEPT !.pc = "applyStarted"]
    <3>1. /\ u.job = task[w].job /\ u.op = task[w].op /\ Heading(u) = "applyStarted"
          /\ u.mem.op = task[w].op /\ u.mem.status = task[w].mem.status
          /\ u.mem.checkpoint = task[w].mem.checkpoint
      BY <1>2 DEF Task, JobRecord, Heading
    <3> HIDE DEF u
    <3>2. Evidence(u, manifests', verified', receipts')
      BY <1>8, <2>1, <2>2, <3>1
         DEF Evidence, Backed, CheckpointPresent, ConfirmedLabels, ResultLabels
    <3> QED BY <1>7, <2>1, <2>2, <3>2 DEF u
  <2> QED BY <1>6, <1>12, <2>1, <2>2 DEF Preflight
<1>13. CASE RegisterIntent(w)
  <2>1. Grows /\ UNCHANGED <<journal, mutations, copies, verified, receipts>>
    BY <1>13 DEF RegisterIntent, Grows, restVars, hostVars
  <2>2. CheckpointPresent(task[w].op, task[w].mem)
    BY <1>2, <1>3, <1>13 DEF RegisterIntent, At, Evidence, Heading, GuardedLabels
  <2>3. ASSUME Goto(w, task[w], "dispatch"), NEW k,
               registry' = [registry EXCEPT ![k] =
                   IF @ = NoEntry THEN [op |-> task[w].op, receipt |-> NoOp] ELSE @]
        PROVE  EInv'
    <3>1. Evidence([task[w] EXCEPT !.pc = "dispatch"], manifests', verified', receipts')
      BY <1>2, <1>8, <2>1, <2>2, Relabel DEF ConfirmedLabels, ResultLabels
    <3>2. RegistryOnlyVerified'
      BY <1>2, <2>1, <2>3 DEF RegistryOnlyVerified, TInv, TypeOK
    <3> QED BY <1>2, <1>5, <2>1, <2>3, <3>1, <3>2, GotoBacked, KeptJournal, KeptMutations
  <2> QED BY <1>6, <1>13, <2>1, <2>3 DEF RegisterIntent
<1>a. ASSUME Grows, HostFailed(w), UNCHANGED <<journal, registry, mutations, copies>>
      PROVE  EInv'
  <2>1. PICK label \in {"interrupted", "return"} : Goto(w, task[w], label)
    BY <1>a DEF HostFailed
  <2>2. Evidence([task[w] EXCEPT !.pc = label], manifests', verified', receipts')
    BY <1>2, <1>8, <1>a, <2>1, Relabel DEF GuardedLabels, ConfirmedLabels, ResultLabels
  <2> QED BY <1>7, <1>a, <2>1, <2>2
<1>b. ASSUME CheckRevision(w) \/ HostSavesDocument(w)
      PROVE  /\ Grows /\ UNCHANGED <<journal, registry>>
             /\ CheckpointPresent(task[w].op, task[w].mem)
  BY <1>2, <1>3, <1>b DEF CheckRevision, HostSavesDocument, Grows, storeVars, fileVars,
                          At, Evidence, Heading, GuardedLabels
<1>c. copies \in [Workers -> Document \union {NoCopy}] /\ mutations \in [Ops -> Nat]
  BY DEF TInv, TypeOK, HostTypeOK
<1>14. CASE Dispatch(w)
  <2>1. Grows /\ UNCHANGED <<journal, registry, mutations, copies>>
    BY <1>14 DEF Dispatch, Grows, restVars, storeVars, fileVars, hostVars
  <2>2. CheckpointPresent(task[w].op, task[w].mem)
    BY <1>2, <1>3, <1>14 DEF Dispatch, At, Evidence, Heading, GuardedLabels
  <2>3. ASSUME Goto(w, task[w], "checkRevision")
        PROVE  EInv'
    <3>1. Evidence([task[w] EXCEPT !.pc = "checkRevision"], manifests', verified', receipts')
      BY <1>2, <1>8, <2>1, <2>2, Relabel DEF ConfirmedLabels, ResultLabels
    <3> QED BY <1>7, <2>1, <2>3, <3>1
  <2>4. ASSUME Cached(task[w].op) # NoOp, Applied(w, Cached(task[w].op))
        PROVE  EInv'
    <3> DEFINE e == Cached(task[w].op)
               t == [task[w] EXCEPT !.result = e]
               u == [t EXCEPT !.pc = "applied"]
    <3>1. /\ u.job = task[w].job /\ u.op = task[w].op /\ u.mem = task[w].mem
          /\ u.result = e /\ Heading(u) = "applied"
      BY <1>2 DEF Task, Heading
    <3> HIDE DEF u, e
    <3>2. Evidence(u, manifests', verified', receipts')
      BY <1>8, <2>1, <2>4, <3>1 DEF Evidence, GuardedLabels, ConfirmedLabels, e
    <3> QED BY <1>7, <2>1, <2>4, <3>2 DEF u, e, Applied
  <2> QED BY <1>14, <1>a, <2>1, <2>3, <2>4 DEF Dispatch
<1>d. CASE CheckRevision(w)
  <2> DEFINE d == [revision |-> docRevision, mutations |-> mutations]
  <2>1. ASSUME ReadDocument(w, task[w].op), Goto(w, task[w], "saveDocument")
        PROVE  EInv'
    <3>1. Evidence([task[w] EXCEPT !.pc = "saveDocument"], manifests', verified', receipts')
      BY <1>2, <1>8, <1>b, <1>d, Relabel DEF ConfirmedLabels, ResultLabels
    <3>2. /\ UNCHANGED mutations /\ d.mutations = mutations
          /\ \A v \in Workers : copies'[v] \in {copies[v], d}
      BY <1>c, <2>1 DEF ReadDocument
    <3> HIDE DEF d
    <3>3. EffectsBacked'
      BY <1>2, <1>b, <1>d, <3>2 DEF EffectsBacked, MutationHasCheckpoint, Grows
    <3> QED BY <1>2, <1>5, <1>b, <1>d, <2>1, <3>1, <3>3, GotoBacked, KeptJournal, KeptRegistry
  <2> QED BY <1>a, <1>b, <1>d, <2>1 DEF CheckRevision, hostVars
<1>e. CASE HostSavesDocument(w)
  <2> DEFINE M == copies[w].mutations
  <2>1. /\ Goto(w, task[w], "recordOperation")
        /\ copies[w] # NoCopy /\ mutations' = [M EXCEPT ![task[w].op] = @ + 1]
        /\ \A v \in Workers : copies'[v] \in {copies[v], NoCopy}
    BY <1>c, <1>e DEF HostSavesDocument, SaveDocument
  <2>2. Evidence([task[w] EXCEPT !.pc = "recordOperation"], manifests', verified', receipts')
    BY <1>2, <1>8, <1>b, <1>e, Relabel DEF GuardedLabels, ConfirmedLabels, ResultLabels
  <2>3. /\ task[w].op \in Ops /\ OpJob[task[w].op] = task[w].job
        /\ task[w].op \in NeedsCheckpoint => task[w].job \in manifests'
    BY <1>2, <1>3, <1>4, <1>8, <1>b, <1>e
       DEF HostSavesDocument, CreateCheckpoint, At, CheckpointPresent, Evidence, Backed
  <2>4. M \in [Ops -> Nat]
    BY <1>c, <2>1 DEF Document
  <2>5. \A o \in Ops : o # task[w].op => mutations'[o] = M[o]
    BY <2>1, <2>4
  <2>6. EffectsBacked'
    BY <1>2, <1>b, <1>e, <2>1, <2>3, <2>5, JobAssumption
       DEF EffectsBacked, MutationHasCheckpoint, Grows
  <2> QED BY <1>2, <1>5, <1>b, <1>e, <2>1, <2>2, <2>6, GotoBacked, KeptJournal, KeptRegistry
<1>15. CASE HostRecordsOperation(w)
  <2>1. /\ Grows /\ UNCHANGED <<journal, registry, mutations, copies>>
        /\ Goto(w, task[w], "recordKey")
    BY <1>15 DEF HostRecordsOperation, RecordOperation, Grows, storeVars, fileVars
  <2>2. Evidence([task[w] EXCEPT !.pc = "recordKey"], manifests', verified', receipts')
    BY <1>2, <1>8, <2>1, Relabel DEF GuardedLabels, ConfirmedLabels, ResultLabels
  <2> QED BY <1>7, <2>1, <2>2
<1>16. CASE HostRecordsKey(w)
  <2>1. /\ Grows /\ UNCHANGED <<journal, registry, mutations, copies>>
        /\ task[w].op \in Ops
    BY <1>4, <1>16 DEF HostRecordsKey, RecordKey, Grows, storeVars, fileVars, CreateCheckpoint, At
  <2>2. ASSUME Applied(w, task[w].op)
        PROVE  EInv'
    <3> DEFINE t == [task[w] EXCEPT !.result = task[w].op]
               u == [t EXCEPT !.pc = "applied"]
    <3>1. /\ u.job = task[w].job /\ u.op = task[w].op /\ u.mem = task[w].mem
          /\ u.result = task[w].op /\ Heading(u) = "applied"
      BY <1>2 DEF Task, Heading
    <3> HIDE DEF u
    <3>2. Evidence(u, manifests', verified', receipts')
      BY <1>8, <2>1, <3>1, HostAssumption DEF Evidence, GuardedLabels, ConfirmedLabels
    <3> QED BY <1>7, <2>1, <2>2, <3>2 DEF u, Applied
  <2> QED BY <1>16, <1>a, <2>1, <2>2 DEF HostRecordsKey
<1>17. ASSUME Grows, NEW label \in {"complete", "verifyFailed"}, Emit(w, task[w], label),
              label = "complete" => task[w].op \in verified' /\ task[w].op # NoOp,
              UNCHANGED <<registry, mutations, copies>>
       PROVE  EInv'
  <2>1. Evidence([task[w] EXCEPT !.pc = label], manifests', verified', receipts')
    BY <1>2, <1>8, <1>17, Relabel DEF GuardedLabels, ConfirmedLabels, ResultLabels
  <2>2. TasksBacked' /\ JournalConfirmed'
    BY <1>2, <1>3, <1>17, <2>1, EmitBacked DEF Labels
  <2> QED BY <1>2, <1>5, <1>17, <2>2, KeptRegistry, KeptMutations
<1>18. CASE Verify(w)
  <2>1. /\ Grows /\ UNCHANGED <<registry, mutations, copies>>
        /\ task[w].op \in Ops /\ task[w].result # NoOp
    BY <1>2, <1>3, <1>4, <1>18
       DEF Verify, Grows, fileVars, hostVars, CreateCheckpoint, At, Evidence, Heading,
           ResultLabels
  <2>2. ASSUME verified' = verified \union {task[w].op}, Goto(w, task[w], "saveReceipt"),
               UNCHANGED journal
        PROVE  EInv'
    <3>1. Evidence([task[w] EXCEPT !.pc = "saveReceipt"], manifests', verified', receipts')
      BY <1>2, <1>8, <2>1, <2>2, Relabel, HostAssumption DEF GuardedLabels
    <3> QED BY <1>7, <2>1, <2>2, <3>1
  <2> QED BY <1>17, <1>18, <2>1, <2>2 DEF Verify
<1>19. CASE SaveReceipt(w)
  <2>1. /\ UNCHANGED <<journal, registry, mutations, copies, manifests, verified>>
        /\ task[w].op \in verified /\ task[w].op # NoOp /\ task[w].result # NoOp
        /\ task[w].op \in Ops
    BY <1>2, <1>3, <1>4, <1>19
       DEF SaveReceipt, restVars, hostVars, CreateCheckpoint, At, Evidence, Heading,
           ResultLabels, ConfirmedLabels
  <2>2. receipts' = [receipts EXCEPT ![task[w].job][task[w].op] = task[w].result]
        /\ Goto(w, task[w], "registerReceipt")
    BY <1>19 DEF SaveReceipt, SaveReceiptOf
  <2>3. Grows /\ receipts'[task[w].job][task[w].op] # NoOp
    BY <1>3, <2>1, <2>2 DEF Grows, TInv, TypeOK
  <2>4. Evidence([task[w] EXCEPT !.pc = "registerReceipt"], manifests', verified', receipts')
    BY <1>2, <1>8, <2>1, <2>3, Relabel DEF GuardedLabels
  <2> QED BY <1>7, <2>1, <2>2, <2>3, <2>4
<1>20. CASE RegisterReceipt(w)
  <2>1. /\ Grows /\ UNCHANGED <<journal, mutations, copies, verified, receipts>>
        /\ task[w].op \in verified /\ task[w].op # NoOp
        /\ receipts[task[w].job][task[w].op] # NoOp
        /\ OpJob[task[w].op] = task[w].job
    BY <1>2, <1>3, <1>4, <1>20
       DEF RegisterReceipt, Grows, restVars, hostVars, CreateCheckpoint, At, Evidence, Heading,
           ConfirmedLabels
  <2>2. ASSUME Goto(w, task[w], "receiptRecorded"), NEW k,
               registry' = [registry EXCEPT ![k] =
                              [op |-> task[w].op, receipt |-> task[w].result]]
        PROVE  EInv'
    <3>1. Evidence([task[w] EXCEPT !.pc = "receiptRecorded"], manifests', verified', receipts')
      BY <1>2, <1>8, <2>1, Relabel DEF GuardedLabels, ResultLabels
    <3>2. RegistryOnlyVerified'
      BY <1>2, <2>1, <2>2 DEF RegistryOnlyVerified, TInv, TypeOK
    <3> QED BY <1>2, <1>5, <2>1, <2>2, <3>1, <3>2, GotoBacked, KeptJournal, KeptMutations
  <2> QED BY <1>6, <1>20, <2>1, <2>2 DEF RegisterReceipt
<1>21. CASE VerifyAgain(w)
  <2>1. Grows /\ UNCHANGED <<registry, mutations, copies>> /\ task[w].op \in Ops
    BY <1>4, <1>21 DEF VerifyAgain, Grows, fileVars, hostVars, CreateCheckpoint, At
  <2> QED BY <1>17, <1>21, <2>1, HostAssumption DEF VerifyAgain
<1> QED BY <1>9, <1>10, <1>11, <1>12, <1>13, <1>14, <1>d, <1>e, <1>15, <1>16, <1>18, <1>19,
           <1>20, <1>21

\* A step that leaves alone everything but job.json, the listings and the tasks.
LEMMA RestKept ==
    ASSUME TInv, EInv, UNCHANGED <<hostVars, fileVars, journal, verified>>
    PROVE  Grows /\ JournalConfirmed' /\ RegistryOnlyVerified' /\ EffectsBacked'
<1>1. Grows
  BY KeptGrows DEF fileVars
<1> QED BY <1>1, KeptJournal, KeptRegistry, KeptMutations DEF EInv, fileVars, hostVars

\* The steps that read or write job.json, and the end of a call.
LEMMA JobFileStepsBacked ==
    ASSUME TInv, EInv, NEW w \in Workers,
           \/ SaveJob(w) \/ Return(w) \/ VerifyJob(w)
           \/ ResumeVerifying(w) \/ ResumeNothing(w)
    PROVE  EInv'
<1>1. UNCHANGED <<hostVars, fileVars, journal, listed, verified>>
  BY DEF SaveJob, Return, VerifyJob, ResumeVerifying, ResumeNothing, restVars, storeVars
<1>2. /\ Grows /\ JournalConfirmed' /\ RegistryOnlyVerified' /\ EffectsBacked'
      /\ TasksBacked
  BY <1>1, RestKept DEF EInv
<1>3. /\ task[w] \in Task /\ WellFormed(task[w])
      /\ Evidence(task[w], manifests, verified, receipts)
      /\ Evidence(task[w], manifests', verified', receipts')
  BY <1>2, EvidenceGrows DEF TInv, WellFormed, EInv, TasksBacked
<1>4. ASSUME UNCHANGED jobFile, TasksBacked'
      PROVE  EInv'
  BY <1>1, <1>2, <1>4, KeptFiles DEF EInv
<1>5. CASE SaveJob(w)
  <2> DEFINE t == [task[w] EXCEPT !.next = "idle"]
             u == [t EXCEPT !.pc = task[w].next]
  <2>1. /\ task[w].job \in Jobs /\ Heading(task[w]) = task[w].next
        /\ Goto(w, t, task[w].next)
        /\ jobFile' = [jobFile EXCEPT ![task[w].job] = task[w].mem]
    BY <1>3, <1>5 DEF SaveJob, At, WellFormed, Heading
  <2>2. /\ u.job = task[w].job /\ u.op = task[w].op /\ u.mem = task[w].mem
        /\ u.result = task[w].result /\ u.pc = task[w].next /\ u.next = "idle"
    BY <1>3 DEF Task
  <2>3. Heading(u) \in {Heading(task[w]), "idle"}
    BY <2>1, <2>2 DEF Heading
  <2> HIDE DEF u
  <2>4. Evidence(u, manifests', verified', receipts')
    BY <1>3, <2>2, <2>3 DEF Evidence, GuardedLabels, ConfirmedLabels, ResultLabels
  <2>5. TasksBacked'
    BY <1>2, <2>1, <2>4, GotoBacked DEF u
  <2>6. Backed(task[w].job, task[w].mem, manifests', verified')
    BY <1>3, <2>1 DEF Evidence
  <2>7. FilesBacked'
    BY <1>2, <2>1, <2>6, BackedGrows DEF EInv, FilesBacked, TInv, TypeOK
  <2>8. ListingsBacked'
    BY <1>1, <1>2, BackedGrows DEF EInv, ListingsBacked
  <2> QED BY <1>2, <2>5, <2>7, <2>8 DEF EInv
<1>6. CASE Return(w)
  <2>1. task' = [task EXCEPT ![w] = Idle] /\ UNCHANGED jobFile
    BY <1>6 DEF Return, storeVars
  <2>2. Evidence(Idle, manifests', verified', receipts')
    BY JobAssumption DEF Evidence, Idle
  <2>3. \A v \in Workers : Evidence(task[v], manifests', verified', receipts')
    BY <1>2, EvidenceGrows DEF TInv, TasksBacked
  <2>4. TasksBacked'
    BY <2>1, <2>2, <2>3 DEF TasksBacked, TInv, TypeOK
  <2> QED BY <1>4, <2>1, <2>4
<1>7. CASE VerifyJob(w)
  <2>1. /\ task[w].job \in Jobs /\ task[w].result # NoOp /\ UNCHANGED jobFile
    BY <1>3, <1>7 DEF VerifyJob, At, WellFormed, Evidence, Heading, ResultLabels, storeVars
  <2>2. ASSUME CanLoad(task[w].job),
               Goto(w, [task[w] EXCEPT !.mem = jobFile[task[w].job]], "verifyAgain")
        PROVE  TasksBacked'
    <3> DEFINE t == [task[w] EXCEPT !.mem = jobFile[task[w].job]]
               u == [t EXCEPT !.pc = "verifyAgain"]
    <3>1. Backed(task[w].job, jobFile[task[w].job], manifests', verified')
      BY <1>2, <2>1, <2>2, BackedGrows DEF CanLoad, EInv, FilesBacked
    <3>2. /\ u.job = task[w].job /\ u.op = task[w].op /\ u.mem = jobFile[task[w].job]
          /\ u.result = task[w].result /\ Heading(u) = "verifyAgain"
      BY <1>3 DEF Task, Heading
    <3> HIDE DEF u
    <3>3. Evidence(u, manifests', verified', receipts')
      BY <1>3, <2>1, <3>1, <3>2 DEF Evidence, GuardedLabels, ConfirmedLabels
    <3> QED BY <1>2, <2>2, <3>3, GotoBacked DEF u
  <2> QED BY <1>2, <1>4, <1>7, <2>1, <2>2, LeaveBacked DEF VerifyJob
<1>8. CASE ResumeVerifying(w)
  <2> DEFINE o == task[w].mem.op
             r == Receipt(task[w])
             t == [task[w] EXCEPT !.op = o, !.result = r]
             u == [t EXCEPT !.pc = "verifyJob"]
  <2>1. /\ task[w].job \in Jobs /\ o # NoOp /\ r # NoOp
        /\ Goto(w, t, "verifyJob") /\ UNCHANGED jobFile
    BY <1>3, <1>8 DEF ResumeVerifying, HasIntent, At, WellFormed, storeVars
  <2>2. /\ u.job = task[w].job /\ u.op = o /\ u.mem = task[w].mem
        /\ u.result = r /\ Heading(u) = "verifyJob"
    BY <1>3 DEF Task, Heading
  <2> HIDE DEF u, r
  <2>3. Evidence(u, manifests', verified', receipts')
    BY <1>3, <2>1, <2>2 DEF Evidence, Backed, GuardedLabels, ConfirmedLabels
  <2> QED BY <1>2, <1>4, <2>1, <2>3, GotoBacked DEF u, r
<1>9. CASE ResumeNothing(w)
  BY <1>2, <1>4, <1>9, LeaveBacked DEF ResumeNothing, storeVars
<1> QED BY <1>5, <1>6, <1>7, <1>8, <1>9

\* A call begins, or the worker dies.
LEMMA CallerStepsBacked ==
    ASSUME TInv, EInv, NEW w \in Workers,
           \/ \E j \in Jobs : CreateJob(w, j)
           \/ \E call \in Calls, j \in Jobs, o \in Ops \union {NoOp} : Call(w, call, j, o)
           \/ StartScan(w)
           \/ Crash(w)
    PROVE  EInv'
<1>1. /\ UNCHANGED <<mutations, fileVars, jobFile, verified>>
      /\ \A v \in Workers : copies'[v] \in {copies[v], NoCopy}
  BY DEF CreateJob, Call, StartScan, Crash, Forget, restVars, storeVars, hostVars,
         TInv, TypeOK, HostTypeOK
<1>2. Grows /\ TasksBacked /\ RegistryOnlyVerified' /\ EffectsBacked'
  BY <1>1, KeptGrows, KeptRegistry, KeptMutations DEF EInv, fileVars
<1>3. ASSUME NEW j \in Jobs, CreateJob(w, j)
      PROVE  EInv'
  <2> DEFINE e == [seq |-> 0, to |-> NoStatus]
             t == [Idle EXCEPT !.call = "create", !.job = j, !.next = "return",
                               !.mem.seq = 0]
             u == [t EXCEPT !.pc = "saveJob"]
  <2>1. /\ Goto(w, t, "saveJob") /\ journal' = [journal EXCEPT ![j] = <<e>>]
        /\ UNCHANGED listed
    BY <1>3 DEF CreateJob, restVars
  <2>2. /\ u.job = j /\ u.op = NoOp /\ u.mem.op = NoOp /\ u.mem.status = "queued"
        /\ u.mem.checkpoint = FALSE /\ Heading(u) = "return"
    BY DEF Idle, Blank, Heading
  <2> HIDE DEF u
  <2>3. Evidence(u, manifests', verified', receipts')
    BY <2>2 DEF Evidence, Backed, GuardedLabels, ConfirmedLabels, ResultLabels
  <2>4. TasksBacked'
    BY <1>2, <2>1, <2>3, GotoBacked DEF u
  <2>5. JournalConfirmed'
    <3>1. DOMAIN <<e>> = {1} /\ <<e>>[1].to = NoStatus
      OBVIOUS
    <3> HIDE DEF e
    <3> QED BY <1>1, <2>1, <3>1
            DEF EInv, JournalConfirmed, NoStatus, TInv, TypeOK
  <2> QED BY <1>1, <1>2, <2>1, <2>4, <2>5, KeptFiles DEF EInv
<1>4. ASSUME NEW call \in Calls, NEW j \in Jobs, NEW o \in Ops \union {NoOp},
             Call(w, call, j, o)
      PROVE  EInv'
  <2> DEFINE t == [Idle EXCEPT !.call = call, !.job = j, !.mem = jobFile[j], !.op = o]
             u == [t EXCEPT !.pc = call]
  <2>1. /\ Goto(w, t, call) /\ jobFile[j] # NoJob
        /\ o # NoOp => OpJob[o] = j
        /\ UNCHANGED <<restVars, storeVars>>
    BY <1>4 DEF Call, CanLoad
  <2>2. call \in Handlers
    BY JobAssumption DEF Handlers
  <2>3. /\ u.job = j /\ u.op = o /\ u.mem = jobFile[j] /\ Heading(u) = call
    BY <2>2 DEF Idle, Heading, Handlers
  <2> HIDE DEF u
  <2>4. Backed(j, jobFile[j], manifests', verified')
    BY <1>2, <2>1, BackedGrows DEF EInv, FilesBacked
  <2>5. Evidence(u, manifests', verified', receipts')
    BY <2>1, <2>2, <2>3, <2>4
       DEF Evidence, Handlers, GuardedLabels, ConfirmedLabels, ResultLabels
  <2>6. TasksBacked'
    BY <1>2, <2>1, <2>5, GotoBacked DEF u
  <2>7. JournalConfirmed'
    BY <1>2, <2>1, KeptJournal DEF EInv, storeVars
  <2> QED BY <1>1, <1>2, <2>1, <2>6, <2>7, KeptFiles DEF EInv, restVars
<1>5. CASE StartScan(w)
  <2> DEFINE t == [Idle EXCEPT !.call = "scan"]
             u == [t EXCEPT !.pc = "scan"]
  <2>1. Goto(w, t, "scan") /\ UNCHANGED <<journal, jobFile>>
    BY <1>5 DEF StartScan, storeVars
  <2>2. u.job = NoJob /\ u.op = NoOp
    BY DEF Idle
  <2> HIDE DEF u
  <2>3. Evidence(u, manifests', verified', receipts')
    BY <2>2, JobAssumption DEF Evidence
  <2>4. TasksBacked' /\ JournalConfirmed'
    BY <1>2, <2>1, <2>3, GotoBacked, KeptJournal DEF u, EInv
  <2>5. \A v \in Workers, j \in Jobs : listed'[v][j] \in {listed[v][j], jobFile[j], NoJob}
    BY <1>5 DEF StartScan, TInv, TypeOK
  <2>6. ListingsBacked'
    BY <1>2, <2>5, BackedGrows DEF EInv, ListingsBacked, FilesBacked
  <2>7. FilesBacked'
    BY <1>2, <2>1, BackedGrows DEF EInv, FilesBacked
  <2> QED BY <1>2, <2>4, <2>6, <2>7 DEF EInv
<1>6. CASE Crash(w)
  <2>1. /\ task' = [task EXCEPT ![w] = Idle]
        /\ listed' = [listed EXCEPT ![w] = NothingListed]
        /\ UNCHANGED <<journal, jobFile>>
    BY <1>6 DEF Crash, storeVars
  <2>2. Evidence(Idle, manifests', verified', receipts')
    BY JobAssumption DEF Evidence, Idle
  <2>3. \A v \in Workers : Evidence(task[v], manifests', verified', receipts')
    BY <1>2, EvidenceGrows DEF TInv, TasksBacked
  <2>4. TasksBacked' /\ JournalConfirmed'
    BY <1>2, <2>1, <2>2, <2>3, KeptJournal DEF TasksBacked, TInv, TypeOK, EInv
  <2>5. \A v \in Workers, j \in Jobs : listed'[v][j] \in {listed[v][j], NoJob}
    BY <2>1 DEF NothingListed, TInv, TypeOK
  <2>6. ListingsBacked'
    BY <1>2, <2>5, BackedGrows DEF EInv, ListingsBacked
  <2>7. FilesBacked'
    BY <1>2, <2>1, BackedGrows DEF EInv, FilesBacked
  <2> QED BY <1>2, <2>4, <2>6, <2>7 DEF EInv
<1> QED BY <1>3, <1>4, <1>5, <1>6

\* A reconciled record says "completed" only if the record or the journal did.
LEMMA ReconciledBacked ==
    ASSUME NEW j \in Jobs, NEW r \in JobRecord, NEW C, NEW V,
           Backed(j, r, C, V), NEW s \in Seq(Event), NEW st \in Statuses \union {NoStatus},
           ReplaysTo(s, st),
           \A i \in DOMAIN s : s[i].to = "completed" => Confirmed(j, V)
    PROVE  Backed(j, Reconciled(r, s, st), C, V)
<1> DEFINE m == Reconciled(r, s, st)
<1>1. /\ m.checkpoint = r.checkpoint /\ m.op = r.op
      /\ m.status = IF st = NoStatus THEN r.status ELSE st
  BY DEF Reconciled, JobRecord
<1>2. st = "completed" => Confirmed(j, V)
  BY DEF ReplaysTo, NoStatus
<1> HIDE DEF m
<1>3. Backed(j, m, C, V)
  BY <1>1, <1>2 DEF Backed
<1> QED BY <1>3 DEF m

\* The steps of a scan.
LEMMA ScanStepsBacked ==
    ASSUME TInv, EInv, NEW w \in Workers,
           (\E j \in Jobs : ScanJob(w, j)) \/ Classify(w) \/ EndScan(w)
    PROVE  EInv'
<1>1. UNCHANGED <<hostVars, jobFile, journal, manifests, registry, verified>>
  BY DEF ScanJob, Classify, EndScan, restVars, storeVars, fileVars
<1>2. /\ task[w] \in Task /\ WellFormed(task[w]) /\ TasksBacked
  BY DEF TInv, WellFormed, EInv
<1>3. ASSUME Grows, TasksBacked', ListingsBacked'
      PROVE  EInv'
  <2>1. FilesBacked'
    BY <1>1, <1>3, BackedGrows DEF EInv, FilesBacked
  <2> QED BY <1>1, <1>3, <2>1, KeptJournal, KeptRegistry, KeptMutations DEF EInv, hostVars
<1>4. ASSUME NEW j \in Jobs, ScanJob(w, j)
      PROVE  EInv'
  <2> DEFINE r == listed[w][j]
             s == journal[j]
             t == [task[w] EXCEPT !.job = j, !.next = "classify"]
  <2>1. /\ At(w, "scan") /\ listed[w][j] # NoJob /\ UNCHANGED storeVars
        /\ \/ listed' = [listed EXCEPT ![w][j] = NoJob]
           \/ listed' = [listed EXCEPT ![w] = NothingListed]
    BY <1>4 DEF ScanJob
  <2>2. Grows
    BY <1>1, <2>1, KeptGrows DEF storeVars, fileVars
  <2>3. \A v \in Workers, i \in Jobs : listed'[v][i] \in {listed[v][i], NoJob}
    <3> DEFINE f == [listed[w] EXCEPT ![j] = NoJob]
    <3>1. listed \in [Workers -> [Jobs -> JobRecord \union {NoJob}]]
      BY DEF TInv, TypeOK
    <3>2. \A i \in Jobs : f[i] \in {listed[w][i], NoJob} /\ NothingListed[i] = NoJob
      BY <3>1 DEF NothingListed
    <3>3. listed' = [listed EXCEPT ![w] = f] \/ listed' = [listed EXCEPT ![w] = NothingListed]
      BY <2>1
    <3> HIDE DEF f
    <3> QED BY <3>1, <3>2, <3>3
  <2>4. ListingsBacked'
    BY <2>2, <2>3, BackedGrows DEF EInv, ListingsBacked
  <2>5. CASE UNCHANGED task
    <3>1. TasksBacked'
      BY <2>2, <2>5, EvidenceGrows DEF TInv, EInv, TasksBacked
    <3> QED BY <1>3, <2>2, <2>4, <3>1
  <2>6. CASE Leave(w)
    BY <1>2, <1>3, <2>2, <2>4, <2>6, LeaveBacked
  <2>7. ASSUME NEW st \in Statuses \union {NoStatus}, ReplaysTo(s, st),
               NEW label \in {"saveJob", "classify"},
               Goto(w, [t EXCEPT !.mem = Reconciled(r, s, st)], label)
        PROVE  EInv'
    <3> DEFINE m == Reconciled(r, s, st)
               u == [t EXCEPT !.mem = m]
               u2 == [u EXCEPT !.pc = label]
    <3>1. Backed(j, m, manifests', verified')
      <4>1. r \in JobRecord /\ s \in Seq(Event)
        BY <2>1 DEF TInv, TypeOK
      <4>2. Backed(j, r, manifests', verified')
        BY <2>1, <2>2, BackedGrows DEF EInv, ListingsBacked
      <4>3. \A i \in DOMAIN s : s[i].to = "completed" => Confirmed(j, verified')
        BY <1>1 DEF EInv, JournalConfirmed
      <4> HIDE DEF s, r
      <4> QED BY <2>7, <4>1, <4>2, <4>3, ReconciledBacked
    <3> HIDE DEF m
    <3>2. /\ u2.job = j /\ u2.mem = m /\ u2.op = task[w].op /\ Heading(u2) = "classify"
      BY <1>2, <2>7 DEF Task, Heading
    <3>3. Goto(w, u, label)
      BY <2>7 DEF m
    <3> HIDE DEF u2
    <3>4. task[w].op = NoOp
      BY <1>2, <2>1 DEF At, TasksBacked, Evidence, Heading
    <3>5. Evidence(u2, manifests', verified', receipts')
      BY <3>1, <3>2, <3>4 DEF Evidence, GuardedLabels, ConfirmedLabels, ResultLabels
    <3> QED BY <1>2, <1>3, <2>2, <2>4, <3>3, <3>5, GotoBacked DEF u2
  <2> QED BY <1>4, <2>5, <2>6, <2>7 DEF ScanJob
<1>5. CASE Classify(w)
  <2> DEFINE t == [Idle EXCEPT !.call = "scan"]
             u == [t EXCEPT !.pc = "scan"]
             e == Executed(task[w].mem.op)
  <2>1. /\ Goto(w, t, "scan") /\ UNCHANGED <<manifests, verified, listed>>
        /\ \/ UNCHANGED receipts
           \/ /\ e # NoOp /\ Receipt(task[w]) = NoOp
              /\ SaveReceiptOf(task[w].job, e, e)
    BY <1>5 DEF Classify, restVars
  <2>2. u.job = NoJob /\ u.op = NoOp
    BY DEF Idle
  <2> HIDE DEF u, e
  <2>a. task[w].job \in Jobs
    BY <1>2, <1>5 DEF Classify, At, WellFormed
  <2>b. receipts \in [Jobs -> [Ops -> Ops \union {NoOp}]]
    BY DEF TInv, TypeOK
  <2>3. Grows
    BY <2>1, <2>a, <2>b DEF Grows, SaveReceiptOf
  <2>4. Evidence(u, manifests', verified', receipts')
    BY <2>2, JobAssumption DEF Evidence
  <2>5. ListingsBacked'
    BY <2>1, <2>3, BackedGrows DEF EInv, ListingsBacked
  <2> QED BY <1>2, <1>3, <2>1, <2>3, <2>4, <2>5, GotoBacked DEF u
<1>6. CASE EndScan(w)
  <2>1. Leave(w) /\ UNCHANGED <<manifests, verified, receipts, listed>>
    BY <1>6 DEF EndScan, restVars, storeVars, fileVars
  <2>2. Grows
    BY <2>1, KeptGrows
  <2>3. ListingsBacked'
    BY <2>1, <2>2, BackedGrows DEF EInv, ListingsBacked
  <2> QED BY <1>2, <1>3, <2>1, <2>2, <2>3, LeaveBacked
<1> QED BY <1>4, <1>5, <1>6

LEMMA EInit == Init => EInv
<1> SUFFICES ASSUME Init PROVE EInv
  OBVIOUS
<1>1. TasksBacked
  BY JobAssumption DEF Init, TasksBacked, Evidence, Idle
<1>2. FilesBacked /\ ListingsBacked /\ JournalConfirmed
  BY DEF Init, FilesBacked, ListingsBacked, JournalConfirmed
<1>3. RegistryOnlyVerified
  BY DEF Init, RegistryOnlyVerified
<1>4. EffectsBacked
  BY JobAssumption DEF Init, HostInit, EffectsBacked, MutationHasCheckpoint
<1> QED BY <1>1, <1>2, <1>3, <1>4 DEF EInv

LEMMA ENext == TInv /\ EInv /\ [Next]_vars => EInv'
<1> SUFFICES ASSUME TInv, EInv, [Next]_vars PROVE EInv'
  OBVIOUS
<1>1. CASE UNCHANGED vars
  <2>1. Grows /\ JournalConfirmed' /\ RegistryOnlyVerified' /\ EffectsBacked'
    BY <1>1, RestKept DEF vars, storeVars
  <2>2. FilesBacked' /\ ListingsBacked'
    BY <1>1, <2>1, KeptFiles DEF vars, storeVars
  <2>3. TasksBacked'
    BY <1>1, <2>1, EvidenceGrows DEF TInv, EInv, TasksBacked, vars
  <2> QED BY <2>1, <2>2, <2>3 DEF EInv
<1>2. ASSUME NEW w \in Workers, Step(w)
      PROVE  EInv'
  BY <1>2, PlainStepsBacked, WritingStepsBacked, JobFileStepsBacked, ScanStepsBacked
     DEF Step
<1>3. ASSUME NEW w \in Workers,
             \/ \E j \in Jobs : CreateJob(w, j)
             \/ \E call \in Calls, j \in Jobs, o \in Ops \union {NoOp} : Call(w, call, j, o)
             \/ StartScan(w)
             \/ Crash(w)
      PROVE  EInv'
  BY <1>3, CallerStepsBacked
<1> QED BY <1>1, <1>2, <1>3 DEF Next

\* The evidence invariant, with the typing it rests on.
LEMMA EvidenceInvariant == Spec => [](TInv /\ EInv)
<1>1. Init => TInv /\ EInv
  BY TInit, EInit
<1>2. TInv /\ EInv /\ [Next]_vars => (TInv /\ EInv)'
  BY TNext, ENext
<1> QED BY <1>1, <1>2, PTL DEF Spec

\* However many workers apply, resume, cancel and crash, the document is not
\* changed by an apply-mode operation before a complete checkpoint of its job
\* exists (core/job_service.py:289, core/job_service.py:587).
THEOREM CheckpointBeforeMutation == Spec => []MutationHasCheckpoint
<1>1. EInv => MutationHasCheckpoint
  BY DEF EInv, EffectsBacked
<1> QED BY <1>1, EvidenceInvariant, PTL

\* No crash, replay or race makes job.json or its journal say "completed" of a
\* job none of whose operations the host has confirmed
\* (core/job_service.py:353, core/job_service.py:376, core/recovery.py:74).
THEOREM CompletionIsVerified == Spec => []CompletedIsVerified
<1>1. EInv => CompletedIsVerified
  BY DEF EInv, CompletedIsVerified, FilesBacked, JournalConfirmed, Backed, Confirmed
<1> QED BY <1>1, EvidenceInvariant, PTL

\* What the idempotency registry answers a repeated request with was confirmed
\* by the host, and the receipt is on disk (core/job_service.py:354-365).
THEOREM RegistryIsVerified == Spec => []RegistryOnlyVerified
BY EvidenceInvariant, PTL DEF EInv
=============================================================================
