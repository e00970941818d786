----------------------------- MODULE JobLifecycle -----------------------------
(***************************************************************************)
(* What the job service promises to the owner of a document, with its      *)
(* files, calls and crashes abstracted away: a job walks the status graph  *)
(* one edge at a time, its operation takes effect only while the job is in *)
(* flight and only once, and the job completes only after the host has     *)
(* confirmed that effect.                                                  *)
(***************************************************************************)
EXTENDS JobStatus

CONSTANTS Jobs, Ops

VARIABLES status,      \* the status of each job, NoStatus before it exists
          effects,     \* the operations of each job that changed the document
          confirmed    \* whether the host has confirmed the job's effect

vars == <<status, effects, confirmed>>

TypeOK == /\ status \in [Jobs -> Statuses \union {NoStatus}]
          /\ effects \in [Jobs -> SUBSET Ops]
          /\ confirmed \in [Jobs -> BOOLEAN]

Init == /\ status = [j \in Jobs |-> NoStatus]
        /\ effects = [j \in Jobs |-> {}]
        /\ confirmed = [j \in Jobs |-> FALSE]

Create(j) == /\ status[j] = NoStatus
             /\ status' = [status EXCEPT ![j] = "queued"]
             /\ UNCHANGED <<effects, confirmed>>

\* The evidence a job needs before it may enter a status.
Evidence(j, to) == /\ to = "verifying" => effects[j] # {}
                   /\ to = "completed" => confirmed[j]

Move(j) == /\ status[j] \in Statuses
           /\ \E to \in ALLOWED_TRANSITIONS[status[j]] :
                /\ Evidence(j, to)
                /\ status' = [status EXCEPT ![j] = to]
           /\ UNCHANGED <<effects, confirmed>>

Mutate(j, o) == /\ status[j] \in InFlight
                /\ effects[j] = {}
                /\ effects' = [effects EXCEPT ![j] = {o}]
                /\ UNCHANGED <<status, confirmed>>

Confirm(j) == /\ status[j] = "verifying"
              /\ effects[j] # {}
              /\ confirmed' = [confirmed EXCEPT ![j] = TRUE]
              /\ UNCHANGED <<status, effects>>

Next == \E j \in Jobs : \/ Create(j) \/ Move(j) \/ Confirm(j)
                        \/ \E o \in Ops : Mutate(j, o)

Spec == Init /\ [][Next]_vars

-----------------------------------------------------------------------------
\* A job cancelled before it was applied has left the document alone, a job
\* with an effect is in flight or past it, and a completed job has exactly one
\* effect, which the host confirmed.
Outcome ==
    \A j \in Jobs :
        /\ status[j] \in PreMutation \union {"cancelled", NoStatus} => effects[j] = {}
        /\ status[j] = "completed" => confirmed[j] /\ \E o \in Ops : effects[j] = {o}
=============================================================================
