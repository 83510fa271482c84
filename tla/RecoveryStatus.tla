--------------------------- MODULE RecoveryStatus ---------------------------
(***************************************************************************)
(* How the deployment generation (the RECOVERY_GENERATION variable of a    *)
(* process) and the service_state row of the database combine into one     *)
(* control status, and what that status allows.                            *)
(***************************************************************************)
CONSTANTS
    Generation,     \* the well-formed generations
    NoGeneration    \* a missing or malformed value, none of them

RecoveryMode == {"ready", "reconciling"}

(* The service_state row, or its absence on a fresh database. *)
NoControls == [generation |-> NoGeneration, mode |-> "none"]
ServiceStateRow == [generation : Generation, mode : RecoveryMode]

ControlState ==
    {"config_missing", "uninitialized", "generation_mismatch",
     "reconciling", "ready"}

(* The generation of a status is always the deployed one: every caller     *)
(* that compares a request or a job compares it with that value.           *)
ClassifyControlState(row, deployment) ==
    [state |->
        CASE deployment = NoGeneration -> "config_missing"
          [] deployment # NoGeneration /\ row = NoControls -> "uninitialized"
          [] deployment # NoGeneration /\ row # NoControls
                /\ row.generation # deployment -> "generation_mismatch"
          [] OTHER -> row.mode,
     generation |-> deployment]

(* The generation a session hands to new client work. *)
ClientGeneration(status) == status.generation

GateDecision ==
    {"allow", "recovery_required", "recovery_in_progress",
     "invalid_generation"}

DecideMutationGate(status, request) ==
    CASE request = NoGeneration -> "invalid_generation"
      [] request # NoGeneration /\ status.state = "config_missing"
            -> "recovery_in_progress"
      [] request # NoGeneration /\ status.state # "config_missing"
            /\ request # status.generation -> "recovery_required"
      [] OTHER -> IF status.state = "ready" THEN "allow"
                                            ELSE "recovery_in_progress"

JobAssessment == {"execute", "stale", "blocked"}

AssessJob(status, jobGeneration) ==
    IF status.state # "ready" THEN "blocked"
    ELSE IF status.generation = jobGeneration THEN "execute" ELSE "stale"
=============================================================================
