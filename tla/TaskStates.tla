----------------------------- MODULE TaskStates -----------------------------
(***************************************************************************)
(* The state machine of a Task (src/internal/domain/task/state.go).  Every *)
(* command has one target state, whatever state it is accepted in, so the  *)
(* transition table is a set of sources and a target per command.          *)
(***************************************************************************)

\* BACKLOG is left out: a migration moved the tasks of old databases to READY
\* and nothing enters it any more.
TaskStatus == {"READY", "RUNNING", "REVIEW", "CHANGES_REQUESTED", "BLOCKED",
               "ACCEPTED", "CANCELLED"}

\* Mutant: a human cancels a task under the run that works on it.
Sources_CancelRunning(c) ==
    CASE c = "CLAIM_RUN"                       -> {"READY", "CHANGES_REQUESTED"}
      [] c \in {"RUN_SUCCEEDED", "RUN_FAILED"} -> {"RUNNING"}
      [] c = "CANCEL_TASK"                     -> {"READY", "RUNNING", "BLOCKED"}
      [] OTHER                                 -> {}

\* The states in which the table accepts command c.
Sources(c) ==
    CASE c = "CLAIM_RUN"             -> {"READY", "CHANGES_REQUESTED"}
      [] c = "SUBMIT_REVIEW"         -> {"READY"}
      [] c = "RUN_SUCCEEDED"         -> {"RUNNING"}
      [] c = "RUN_FAILED"            -> {"RUNNING"}
      [] c = "NEEDS_INPUT"           -> {"RUNNING"}
      [] c = "CANCEL_RUN"            -> {"RUNNING"}
      [] c = "ACCEPT"                -> {"REVIEW"}
      [] c = "REJECT"                -> {"REVIEW"}
      [] c = "RETRY"                 -> {"BLOCKED"}
      [] c = "RESUME_IMPLEMENTATION" -> {"BLOCKED"}
      [] c = "RESUME_REVISION"       -> {"BLOCKED"}
      [] c = "SYNC_TARGET"           -> {"ACCEPTED"}
      [] c = "REQUEST_CHANGES"       -> {"READY", "REVIEW", "CHANGES_REQUESTED",
                                         "BLOCKED", "ACCEPTED"}
      [] c = "CANCEL_TASK"           -> {"READY", "REVIEW", "CHANGES_REQUESTED",
                                         "BLOCKED"}
      [] OTHER                       -> {}

\* The state command c leads to.
Target(c) ==
    CASE c = "CLAIM_RUN"                                  -> "RUNNING"
      [] c \in {"SUBMIT_REVIEW", "RUN_SUCCEEDED"}         -> "REVIEW"
      [] c \in {"RUN_FAILED", "NEEDS_INPUT", "CANCEL_RUN"} -> "BLOCKED"
      [] c = "ACCEPT"                                     -> "ACCEPTED"
      [] c \in {"RETRY", "RESUME_IMPLEMENTATION"}         -> "READY"
      [] c = "CANCEL_TASK"                                -> "CANCELLED"
      [] OTHER                                            -> "CHANGES_REQUESTED"

\* The command with which a run that ends with status s moves its task.
FinishCommand(s) ==
    CASE s = "SUCCEEDED"   -> "RUN_SUCCEEDED"
      [] s = "CANCELLED"   -> "CANCEL_RUN"
      [] s = "NEEDS_INPUT" -> "NEEDS_INPUT"
      [] OTHER             -> "RUN_FAILED"
=============================================================================
