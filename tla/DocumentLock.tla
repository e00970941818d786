---------------------------- MODULE DocumentLock ----------------------------
(***************************************************************************)
(* The lock file of core/lock.py, one file-system call at a time.          *)
(*                                                                         *)
(* A process runs one call of the job service at a time, for one job.      *)
(* acquire reads the file, judges what it has read, and writes; release    *)
(* looks for the file, reads it, and unlinks.  Nothing excludes another    *)
(* process between any two of these.  Each file operation is atomic        *)
(* (write_json_atomic renames a complete temporary file), or is refused    *)
(* by the file system and raises.                                          *)
(*                                                                         *)
(* When a process dies, what names its pid names the dead from then on;    *)
(* the process that starts in its place has a pid of its own, and pids are *)
(* not given out again.  Ages stand for time stamps: the age of a lock     *)
(* file is counted up to one past the timeout.                             *)
(***************************************************************************)
EXTENDS Naturals

CONSTANTS Processes,
          Mortals,   \* the processes that may die
          Jobs,
          Dead,      \* the pid of a process that has died
          NoLock,    \* no lock file
          NoJob,     \* the job of a process that is in no call
          Timeout    \* stale_timeout_seconds, in ticks

ASSUME LockAssumption ==
    /\ Mortals \subseteq Processes
    /\ Timeout \in Nat
    /\ NoJob \notin Jobs
    /\ Dead \notin Processes
    /\ NoLock \notin [job : Jobs, pid : Processes \union {Dead}, age : 0 .. Timeout + 1]

Ages == 0 .. Timeout + 1

\* The fields of LockMetadata that are compared; updated_at as an age.
LockMetadata == [job : Jobs, pid : Processes \union {Dead}, age : Ages]

VARIABLES
    file,       \* <project>_<document>.lock
    pc,         \* what each process does next
    job,        \* the job each process calls the service for
    seen,       \* the content of the file as each process has read it
    incidents   \* history: what has happened that the protocol does not exclude

vars == <<file, pc, job, seen, incidents>>

Labels == {"idle", "look", "decide", "refresh", "write", "inside",
           "exists", "compare", "unlink"}

Incidents == {"raced", "expired", "shared"}

TypeOK ==
    /\ file \in LockMetadata \union {NoLock}
    /\ pc \in [Processes -> Labels]
    /\ job \in [Processes -> Jobs \union {NoJob}]
    /\ seen \in [Processes -> LockMetadata \union {NoLock}]
    /\ incidents \subseteq Incidents

Init ==
    /\ file = NoLock
    /\ pc = [p \in Processes |-> "idle"]
    /\ job = [p \in Processes |-> NoJob]
    /\ seen = [p \in Processes |-> NoLock]
    /\ incidents = {}

At(p, label) == pc[p] = label

\* The next step of the call, which has read r from the file, or nothing yet.
Goto(p, label, r) ==
    /\ pc' = [pc EXCEPT ![p] = label]
    /\ seen' = [seen EXCEPT ![p] = r]
    /\ UNCHANGED job

\* The call leaves acquire or release, by return or by exception.
Leave(p) ==
    /\ pc' = [pc EXCEPT ![p] = "idle"]
    /\ seen' = [seen EXCEPT ![p] = NoLock]
    /\ job' = [job EXCEPT ![p] = NoJob]

\* _is_pid_alive, asked at this moment.
Alive(pid) == pid # Dead

Expired(l) == l.age > Timeout

\* Faulty variant: only the age is judged.
Stale_AgeOnly(l) == Expired(l)

\* Faulty variant: a lock that is just as old as the timeout is stale already.
Stale_AtTimeout(l) == ~Alive(l.pid) \/ l.age >= Timeout

\* A lock that acquire takes for stale.
Stale(l) == ~Alive(l.pid) \/ Expired(l)

\* History: what overwriting or removing the file would be an incident of.
Raced(p) == IF seen[p] # file THEN {"raced"} ELSE {}

\* History: what writing a new lock would do to a living process whose lock
\* has been read.
Displaced(p) ==
    IF seen[p] = NoLock \/ seen[p].pid \in {p, Dead} THEN {}
    ELSE {i \in {"shared", "expired"} :
             IF i = "shared" THEN seen[p].job = job[p] ELSE Expired(seen[p])}

-----------------------------------------------------------------------------
(***************************************************************************)
(* acquire.                                                                *)
(***************************************************************************)

Start(p, j) ==
    /\ At(p, "idle")
    /\ job' = [job EXCEPT ![p] = j]
    /\ pc' = [pc EXCEPT ![p] = "look"]
    /\ UNCHANGED <<file, seen, incidents>>

\* What a read of the file yields: its content; or nothing, when the file is not
\* there, has vanished since exists, or is refused, so that read_json raises.
Readings == {file, NoLock}

\* exists and read_json.  What makes read_json raise is treated like a corrupted
\* lock, as if there were none.
Look(p) ==
    /\ At(p, "look")
    /\ \E r \in Readings : Goto(p, "decide", r)
    /\ UNCHANGED <<file, incidents>>

\* The same job: refresh.  No lock, or a stale one: write.  Else LOCK_CONFLICT.
Decide(p) ==
    /\ At(p, "decide")
    /\ \/ seen[p] = NoLock /\ Goto(p, "write", NoLock)
       \/ /\ seen[p] # NoLock
          /\ \/ seen[p].job = job[p] /\ Goto(p, "refresh", seen[p])
             \/ seen[p].job # job[p] /\ Stale(seen[p]) /\ Goto(p, "write", seen[p])
             \/ seen[p].job # job[p] /\ ~Stale(seen[p]) /\ Leave(p)
    /\ UNCHANGED <<file, incidents>>

\* The content that was read goes back with a new time stamp and its old pid.
Refresh(p) ==
    /\ At(p, "refresh")
    /\ file' = [seen[p] EXCEPT !.age = 0]
    /\ incidents' = incidents \union Raced(p)
                    \union (IF seen[p].pid # p THEN {"shared"} ELSE {})
    /\ Goto(p, "inside", NoLock)

\* The write is refused: acquire swallows that and writes a new lock.
RefreshFails(p) ==
    /\ At(p, "refresh")
    /\ Goto(p, "write", seen[p])
    /\ UNCHANGED <<file, incidents>>

\* Faulty variant: the new lock does not say for which job it is held.
Write_Jobless(p) ==
    /\ At(p, "write")
    /\ file' = [job |-> NoJob, pid |-> p, age |-> 0]
    /\ incidents' = incidents \union Raced(p) \union Displaced(p)
    /\ Goto(p, "inside", NoLock)

Write(p) ==
    /\ At(p, "write")
    /\ file' = [job |-> job[p], pid |-> p, age |-> 0]
    /\ incidents' = incidents \union Raced(p) \union Displaced(p)
    /\ Goto(p, "inside", NoLock)

WriteFails(p) ==
    /\ At(p, "write")
    /\ Leave(p)
    /\ UNCHANGED <<file, incidents>>

-----------------------------------------------------------------------------
(***************************************************************************)
(* The critical section ends; release.                                     *)
(***************************************************************************)

Finish(p) ==
    /\ At(p, "inside")
    /\ Goto(p, "exists", NoLock)
    /\ UNCHANGED <<file, incidents>>

Exists(p) ==
    /\ At(p, "exists")
    /\ IF file = NoLock THEN Leave(p) ELSE Goto(p, "compare", NoLock)
    /\ UNCHANGED <<file, incidents>>

\* Faulty variant: whatever lock is there is removed.
Compare_AnyJob(p) ==
    /\ At(p, "compare")
    /\ Goto(p, "unlink", file)
    /\ UNCHANGED <<file, incidents>>

\* When read_json raises, release unlinks too.
Compare(p) ==
    /\ At(p, "compare")
    /\ \E r \in Readings :
          IF r = NoLock \/ r.job = job[p] THEN Goto(p, "unlink", r) ELSE Leave(p)
    /\ UNCHANGED <<file, incidents>>

Unlink(p) ==
    /\ At(p, "unlink")
    /\ file' = NoLock
    /\ incidents' = incidents \union Raced(p)
    /\ Leave(p)

UnlinkFails(p) ==
    /\ At(p, "unlink")
    /\ Leave(p)
    /\ UNCHANGED <<file, incidents>>

-----------------------------------------------------------------------------
(***************************************************************************)
(* Death, time, and the specification.                                     *)
(***************************************************************************)

Buried(l, p) == IF l # NoLock /\ l.pid = p THEN [l EXCEPT !.pid = Dead] ELSE l

\* The file stays, and whoever has read it finds its pid dead from now on.
Die(p) ==
    /\ p \in Mortals
    /\ file' = Buried(file, p)
    /\ seen' = [q \in Processes |-> IF q = p THEN NoLock ELSE Buried(seen[q], p)]
    /\ pc' = [pc EXCEPT ![p] = "idle"]
    /\ job' = [job EXCEPT ![p] = NoJob]
    /\ UNCHANGED incidents

Older(l) == IF l = NoLock \/ Expired(l) THEN l ELSE [l EXCEPT !.age = @ + 1]

Tick ==
    /\ file' = Older(file)
    /\ seen' = [p \in Processes |-> Older(seen[p])]
    /\ UNCHANGED <<pc, job, incidents>>

Refused(p) == RefreshFails(p) \/ WriteFails(p) \/ UnlinkFails(p)

Step(p) ==
    \/ Look(p) \/ Decide(p) \/ Refresh(p) \/ Write(p)
    \/ Finish(p) \/ Exists(p) \/ Compare(p) \/ Unlink(p)
    \/ Refused(p)

Next ==
    \/ \E p \in Processes :
          \/ \E j \in Jobs : Start(p, j)
          \/ Step(p)
          \/ Die(p)
    \/ Tick

Spec == Init /\ [][Next]_vars

\* A process that does not die goes on and asks again, and of its repeated
\* attempts to write or unlink the file one is not refused.  Nothing is assumed
\* of the clock, nor of a process that may die.
FairSpec ==
    /\ Spec
    /\ \A p \in Processes \ Mortals :
          /\ WF_vars(\E j \in Jobs : Start(p, j))
          /\ WF_vars(Step(p))
          /\ SF_vars(Write(p)) /\ SF_vars(Unlink(p))

-----------------------------------------------------------------------------
(***************************************************************************)
(* Properties.                                                             *)
(***************************************************************************)

Inside(p) == At(p, "inside")

\* The lock file is this process's own.
Holds(p) == file # NoLock /\ file.pid = p /\ file.job = job[p]

\* "Ensures single-writer mutation protection per document/project"
\* (core/lock.py:3), as far as it goes: over any number of deaths and refused
\* writes, two processes are past acquire only after a call has changed the file
\* on the strength of a reading that another call's change had outdated or that
\* had failed, after a living holder's lock has expired, or after a lock naming
\* another process has been taken for one's own.
SingleWriterUnlessIncident ==
    incidents = {} =>
        \A p, q \in Processes : Inside(p) /\ Inside(q) => p = q

\* A process past acquire loses its lock only to a process of its own job, to
\* one that acts on what the file held earlier or could not read it, or to the
\* timeout.
LockLostForAReason ==
    [][\A p \in Processes :
          Inside(p) /\ Holds(p) /\ Inside(p)' /\ ~Holds(p)' =>
              \/ Expired(file)
              \/ \E q \in Processes \ {p} :
                    /\ pc'[q] # pc[q]
                    /\ job[q] = job[p] \/ seen[q] # file]_vars

\* The lock of a process that has died does not stay in the way, whether or not
\* its timeout passes, provided one process stays alive and keeps asking.
DeadHolderIsReplaced ==
    (file # NoLock /\ ~Alive(file.pid)) ~> (file = NoLock \/ Alive(file.pid))
=============================================================================
