------------------------- MODULE JobLifecycle_proofs -------------------------
(***************************************************************************)
(* What follows from the promise JobLifecycle states, for any number of    *)
(* jobs and operations.                                                    *)
(***************************************************************************)
EXTENDS JobLifecycle, TLAPS

\* An effect comes after the pre-mutation statuses, only once, and before the
\* confirmation that completion needs.
LifecycleInv ==
    /\ TypeOK
    /\ \A j \in Jobs :
         /\ status[j] \in PreMutation \union {"cancelled", NoStatus} => effects[j] = {}
         /\ effects[j] # {} => \E o \in Ops : effects[j] = {o}
         /\ confirmed[j] => effects[j] # {}
         /\ status[j] = "completed" => confirmed[j]

\* The edges of the status graph the argument needs: nothing leads back to a
\* status before the mutation, or from in flight to cancelled.
LEMMA Edges ==
    ASSUME NEW from \in Statuses, NEW to \in ALLOWED_TRANSITIONS[from]
    PROVE  /\ to \in Statuses
           /\ to \in PreMutation \union {"cancelled"} => from \in PreMutation
BY DEF ALLOWED_TRANSITIONS, Statuses, PreMutation, TERMINAL_STATUSES

LEMMA LifecycleInit == Init => LifecycleInv
BY DEF Init, LifecycleInv, TypeOK, NoStatus, Statuses

LEMMA LifecycleNext == LifecycleInv /\ [Next]_vars => LifecycleInv'
<1> SUFFICES ASSUME LifecycleInv, [Next]_vars PROVE LifecycleInv'
  OBVIOUS
<1>1. CASE UNCHANGED vars
  BY <1>1 DEF LifecycleInv, TypeOK, vars
<1>2. ASSUME NEW j \in Jobs, Create(j)
      PROVE  LifecycleInv'
  BY <1>2 DEF Create, LifecycleInv, TypeOK, Statuses, PreMutation, NoStatus
<1>3. ASSUME NEW j \in Jobs, Move(j)
      PROVE  LifecycleInv'
  <2>1. PICK to \in ALLOWED_TRANSITIONS[status[j]] :
               Evidence(j, to) /\ status' = [status EXCEPT ![j] = to]
    BY <1>3 DEF Move
  <2>2. status[j] \in Statuses /\ UNCHANGED <<effects, confirmed>>
    BY <1>3 DEF Move
  <2>3. to \in Statuses /\ (to \in PreMutation \union {"cancelled"} => status[j] \in PreMutation)
    BY <2>2, Edges
  <2>4. to # NoStatus
    BY <2>3 DEF Statuses, NoStatus
  <2>5. TypeOK'
    BY <2>1, <2>2, <2>3 DEF LifecycleInv, TypeOK
  <2> QED BY <2>1, <2>2, <2>3, <2>4, <2>5 DEF LifecycleInv, TypeOK, Evidence
<1>4. ASSUME NEW j \in Jobs, Confirm(j)
      PROVE  LifecycleInv'
  BY <1>4 DEF Confirm, LifecycleInv, TypeOK
<1>5. ASSUME NEW j \in Jobs, NEW o \in Ops, Mutate(j, o)
      PROVE  LifecycleInv'
  <2>1. status[j] \notin PreMutation \union {"cancelled", NoStatus}
    BY <1>5 DEF Mutate, InFlight, PreMutation, NoStatus
  <2> QED BY <1>5, <2>1 DEF Mutate, LifecycleInv, TypeOK
<1> QED BY <1>1, <1>2, <1>3, <1>4, <1>5 DEF Next

\* A job that was cancelled, or has not been applied, has left the document
\* alone; a completed one changed it exactly once and the host confirmed it
\* (core/job_service.py:759, core/job_service.py:376).
THEOREM OutcomeHolds == Spec => []Outcome
<1>1. LifecycleInv => Outcome
  BY DEF LifecycleInv, Outcome
<1> QED BY <1>1, LifecycleInit, LifecycleNext, PTL DEF Spec
=============================================================================
