----------------------------- MODULE JobBinding -----------------------------
(***************************************************************************)
(* validate_job_binding (core/binding.py): do a plan, an operation, a      *)
(* checkpoint manifest and a receipt belong to the job they are presented  *)
(* with?  A caller holds some of the four, any field of which may come     *)
(* from one other job, and asks.                                           *)
(***************************************************************************)
EXTENDS Naturals, FiniteSets

CONSTANT MaxForeign   \* bound on the fields that come from another job

VARIABLES
    dossier,   \* the fields, as <<entity, field>>, that are not the job's own
    given,     \* which of the four are presented
    verdict    \* the error code raised, "accepted", or "unasked"

bindingVars == <<dossier, given, verdict>>

Entities == {"plan", "operation", "checkpoint", "receipt"}

(* The fields that say whose an artefact is, compared or not, and those the  *)
(* checks depend on.  An own `mode` is APPLY and an own `tool` any tool but  *)
(* checkpoint.create; a receipt without an own `has_revision` has None for   *)
(* its host_revision_before; `operations` are own if all that the plan lists *)
(* are of its job.                                                           *)
Fields ==
    [plan       |-> {"job_id", "project_id", "host_instance_id", "document_id",
                     "expected_revision", "plan_id", "operations"},
     operation  |-> {"job_id", "project_id", "host_instance_id", "document_id",
                     "expected_revision", "prepared_plan_ref", "checkpoint_ref",
                     "operation_id", "mode", "tool"},
     checkpoint |-> {"job_id", "project_id", "checkpoint_id", "source_revision",
                     "complete", "verified_at", "files"},
     receipt    |-> {"operation_id", "host_revision_before", "has_revision"}]

Slots == UNION {{e} \X Fields[e] : e \in Entities}

Own(e, f) == <<e, f>> \notin dossier
Mismatch(e, fields) == \E f \in fields : ~Own(e, f)

Mutates == Own("operation", "mode")
NeedsCheckpoint == Mutates /\ Own("operation", "tool")

Identity_AnyHost == {"job_id", "project_id", "document_id", "expected_revision"}

(* What a plan and an operation must share with their job. *)
Identity ==
    {"job_id", "project_id", "host_instance_id", "document_id", "expected_revision"}

(* The checks in the code's order, each with the error code it raises. *)
Checks ==
    <<[fails |-> "plan" \in given /\ Mismatch("plan", Identity),
       code |-> "JOB_BINDING_MISMATCH"],
      [fails |-> /\ "operation" \in given
                 /\ \/ Mismatch("operation", Identity)
                    \/ Mutates /\ ~Own("operation", "prepared_plan_ref")
                    \/ NeedsCheckpoint /\ ~Own("operation", "checkpoint_ref"),
       code |-> "JOB_BINDING_MISMATCH"],
      [fails |-> /\ "checkpoint" \in given
                 /\ Mismatch("checkpoint", {"job_id", "project_id", "checkpoint_id",
                                            "source_revision"}),
       code |-> "CHECKPOINT_BINDING_MISMATCH"],
      [fails |-> /\ "checkpoint" \in given
                 /\ Mismatch("checkpoint", {"complete", "verified_at", "files"}),
       code |-> "CHECKPOINT_INCOMPLETE"],
      [fails |-> /\ {"checkpoint", "operation"} \subseteq given /\ NeedsCheckpoint
                 /\ Own("operation", "checkpoint_ref") # Own("checkpoint", "checkpoint_id"),
       code |-> "CHECKPOINT_BINDING_MISMATCH"],
      [fails |-> /\ {"receipt", "operation"} \subseteq given
                 /\ Own("receipt", "operation_id") # Own("operation", "operation_id"),
       code |-> "RECEIPT_BINDING_MISMATCH"],
      [fails |-> /\ "receipt" \in given /\ Own("receipt", "has_revision")
                 /\ ~Own("receipt", "host_revision_before"),
       code |-> "RECEIPT_BINDING_MISMATCH"]>>

Failing == {i \in DOMAIN Checks : Checks[i].fails}

validate_job_binding ==
    IF Failing = {} THEN "accepted"
    ELSE Checks[CHOOSE i \in Failing : \A j \in Failing : i <= j].code

----------------------------------------------------------------------------
(* Behaviour *)

BindingInit == dossier = {} /\ given \in SUBSET Entities /\ verdict = "unasked"

(* One field turns out to come from elsewhere. *)
Mix ==
    /\ Cardinality(dossier) < MaxForeign
    /\ \E slot \in Slots \ dossier : slot[1] \in given /\ dossier' = dossier \cup {slot}
    /\ verdict' = "unasked"
    /\ UNCHANGED given

Validate ==
    /\ verdict = "unasked"
    /\ verdict' = validate_job_binding
    /\ UNCHANGED <<dossier, given>>

BindingNext == Mix \/ Validate

BindingSpec == BindingInit /\ [][BindingNext]_bindingVars

----------------------------------------------------------------------------
(* Properties *)

(* What the entities presented, and the job itself, claim: each claim names *)
(* a thing, whether it is the job's own, and the field that says so.        *)
Claim(thing, e, f) == <<thing, Own(e, f), <<e, f>>>>

(* The job names its project, ..., its plan_ref, its checkpoint_ref and its *)
(* current_operation_id.                                                    *)
Things == {"job", "project", "host", "document", "revision", "plan", "checkpoint"}
JobClaims == {<<thing, TRUE, <<"job", thing>>>> : thing \in Things \cup {"operation"}}

PlanClaims ==
    {Claim("job", "plan", "job_id"), Claim("project", "plan", "project_id"),
     Claim("host", "plan", "host_instance_id"), Claim("document", "plan", "document_id"),
     Claim("revision", "plan", "expected_revision"),
     Claim("plan", "plan", "plan_id"), Claim("job", "plan", "operations")}

OperationClaims ==
    {Claim("job", "operation", "job_id"), Claim("project", "operation", "project_id"),
     Claim("host", "operation", "host_instance_id"),
     Claim("document", "operation", "document_id"),
     Claim("revision", "operation", "expected_revision"),
     Claim("operation", "operation", "operation_id"),
     Claim("plan", "operation", "prepared_plan_ref"),
     Claim("checkpoint", "operation", "checkpoint_ref")}

CheckpointClaims ==
    {Claim("job", "checkpoint", "job_id"), Claim("project", "checkpoint", "project_id"),
     Claim("checkpoint", "checkpoint", "checkpoint_id"),
     Claim("revision", "checkpoint", "source_revision")}

ReceiptClaims ==
    {Claim("operation", "receipt", "operation_id")}
    \cup (IF Own("receipt", "has_revision")
          THEN {Claim("revision", "receipt", "host_revision_before")} ELSE {})

Claims ==
    JobClaims
    \cup (IF "plan" \in given THEN PlanClaims ELSE {})
    \cup (IF "operation" \in given THEN OperationClaims ELSE {})
    \cup (IF "checkpoint" \in given THEN CheckpointClaims ELSE {})
    \cup (IF "receipt" \in given THEN ReceiptClaims ELSE {})

(* The claims the code compares with no other: which plan the plan is and   *)
(* whose the operations are that it lists, the references of an operation   *)
(* that need not have them, and the operation that the job says it is at.   *)
NeverCompared ==
    {<<"plan", "plan_id">>, <<"plan", "operations">>, <<"job", "operation">>}
    \cup (IF Mutates THEN {} ELSE {<<"operation", "prepared_plan_ref">>})
    \cup (IF NeedsCheckpoint THEN {} ELSE {<<"operation", "checkpoint_ref">>})

Disagree(c, d) == c[1] = d[1] /\ c[2] # d[2]

(* Entities are accepted exactly when no two of them, nor one and the job,  *)
(* disagree about the same thing, and a checkpoint among them is complete.  *)
(* No artefact of another job or document gets by in any combination and no *)
(* consistent set is refused, save by a claim that is never compared: so    *)
(* another plan of the same job does get by.  core/binding.py:31-155        *)
AcceptedIsConsistent ==
    verdict # "unasked" =>
        (verdict = "accepted" <=>
            /\ \A c, d \in Claims :
                  Disagree(c, d) => {c[3], d[3]} \cap NeverCompared # {}
            /\ "checkpoint" \in given =>
                  {"complete", "verified_at", "files"}
                      \cap {slot[2] : slot \in dossier} = {})
=============================================================================
