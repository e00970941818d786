------------------------------ MODULE JobStatus ------------------------------
(***************************************************************************)
(* The status graph every RigMate job follows: core/jobs.py.  A status is  *)
(* the string the code persists in job.json.                               *)
(***************************************************************************)

Statuses == {"queued", "inspecting", "needs_input", "prepared", "applying",
             "cancel_requested", "verifying", "recovery_required",
             "completed", "failed", "cancelled", "recovered"}

\* An event whose payload has no "to_status", and a job that is not on disk.
NoStatus == "none"

TERMINAL_STATUSES == {"completed", "failed", "cancelled", "recovered"}

\* The statuses from which request_cancel ends the job at once.
PreMutation == {"queued", "inspecting", "needs_input", "prepared"}

\* The statuses in which the host may be executing the job's operation.
InFlight == {"applying", "cancel_requested"}

ALLOWED_TRANSITIONS ==
    [s \in Statuses |->
        CASE s = "queued"            -> {"inspecting", "cancelled", "failed"}
          [] s = "inspecting"        -> {"needs_input", "prepared", "cancelled", "failed"}
          [] s = "needs_input"       -> {"inspecting", "prepared", "cancelled", "failed"}
          [] s = "prepared"          -> {"applying", "cancelled", "failed"}
          [] s = "applying"          -> {"verifying", "cancel_requested",
                                         "recovery_required", "failed"}
          [] s = "cancel_requested"  -> {"verifying", "recovery_required", "failed"}
          [] s = "verifying"         -> {"completed", "failed", "recovery_required"}
          [] s = "recovery_required" -> {"recovered", "failed"}
          [] s \in TERMINAL_STATUSES -> {}]

\* validate_transition: it raises unless this holds.
CanMove(from, to) == /\ from \notin TERMINAL_STATUSES
                     /\ to \in ALLOWED_TRANSITIONS[from]
=============================================================================
