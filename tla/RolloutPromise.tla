--------------------------- MODULE RolloutPromise ---------------------------
(***************************************************************************)
(* What a rollout plan promises the services that start one and look at    *)
(* its status (agent_app/governance/policy_rollout.py): steps get done in  *)
(* the order their require_previous_step asks for, and "completed" is only *)
(* ever said of a plan all of whose steps are done.  It promises nothing   *)
(* about a status being final.                                             *)
(***************************************************************************)
CONSTANTS Steps,   \* the steps of the plan
          Prev     \* require_previous_step of each step, or NoStep
CONSTANT  NoStep

VARIABLES status,  \* the status of the plan
          done,    \* the steps that succeeded
          skipped  \* the steps that a gate skipped

Statuses == {"draft", "active", "completed", "failed", "cancelled"}

Init == status = "draft" /\ done = {} /\ skipped = {}

Ready(s) == Prev[s] \in done \cup {NoStep}

Advance ==
    /\ \E s \in Steps :
          \/ UNCHANGED <<done, skipped>>
          \/ Ready(s) /\ done' = done \cup {s} /\ UNCHANGED skipped
          \/ Ready(s) /\ skipped' = skipped \cup {s} /\ UNCHANGED done
    /\ status' \in Statuses
    /\ status' = "completed" /\ status # "completed" => done' \cup skipped' = Steps

Spec == Init /\ [][Advance]_<<status, done, skipped>>
=============================================================================
