-------------------------- MODULE ExecutionStates --------------------------
(***************************************************************************)
(* The statuses of an execution and the rules that decide which request    *)
(* may change which status.  The status names are cloudify-common's        *)
(* ExecutionState (a library outside this repository); the rules are the   *)
(* manager's own (resource_manager.py).                                    *)
(***************************************************************************)

\* ExecutionState.ACTIVE_STATES without the three cancelling ones.
Running == {"pending", "started"}
\* The statuses cancel_execution may give.
Cancelling == {"cancelling", "force_cancelling", "kill_cancelling"}
\* ExecutionState.ACTIVE_STATES
ACTIVE_STATES == Running \cup Cancelling
\* ExecutionState.END_STATES
END_STATES == {"terminated", "failed", "cancelled"}
\* "absent": there is no row for the execution yet; "rejected": its creation was
\* refused and rolled back, there never is one.
Statuses == {"absent", "rejected", "queued"} \cup ACTIVE_STATES \cup END_STATES

\* The names of the cancel requests: POST /executions/<id> {action}.
CancelModes == {"cancel", "force-cancel", "kill"}

--------------------------------------------------------------------------
\* (mutant) a report with another status is not refused in an end state
ValidUpdateEnded(isSnapshot, current, future) ==
  \/ current = future
  \/ current \notin {"cancelling", "force_cancelling"} \/ future \in {"failed", "cancelled"}

(***************************************************************************)
(* _validate_execution_update: may a status report move `current' to       *)
(* `future'?  create_snapshot executions alone may leave an end state.     *)
(***************************************************************************)

ValidUpdate(isSnapshot, current, future) ==
  \/ current = future
  \/ /\ current \in END_STATES => isSnapshot
     /\ ~(current = "cancelling" /\ future \in ACTIVE_STATES \cup {"terminated"})
     /\ ~( /\ current = "force_cancelling"
           /\ future \in ACTIVE_STATES \cup {"terminated", "cancelling"})

\* cancel_execution: a queued execution is always cancelled with the kill flag.
KillFlag(mode, current) == mode = "kill" \/ current = "queued"

\* (mutant) force-cancel is not restricted to executions that are active
CancelAllowedForced(mode, current) ==
  \/ KillFlag(mode, current)
  \/ mode = "force-cancel"
  \/ current \in Running

\* _validate_cancel_execution (a queued or kill-flagged one is never refused).
CancelAllowed(mode, current) ==
  \/ KillFlag(mode, current)
  \/ mode = "force-cancel" /\ current = "cancelling"
  \/ current \in Running

\* (mutant) the name of the request is written as it is
CancelStatusAsked(mode) == mode

\* The status a cancel request writes: by what was asked, not by the kill flag.
CancelStatus(mode) ==
  CASE mode = "kill"         -> "kill_cancelling"
    [] mode = "force-cancel" -> "force_cancelling"
    [] mode = "cancel"       -> "cancelling"

\* resume_execution's guard: force-resume is refused on a started execution.
ResumeAllowed(force, current) ==
  \/ current \in {"cancelled", "failed"}
  \/ ~force /\ current = "started"
=============================================================================
