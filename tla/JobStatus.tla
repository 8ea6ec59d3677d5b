------------------------------- MODULE JobStatus -------------------------------
(***************************************************************************)
(* The status machine of a migration job (domain/job). Every operation of  *)
(* the aggregate is a partial function on the status: it returns the new   *)
(* status, or Illegal where the code returns JobError::IllegalTransition   *)
(* and leaves the job as it was.                                           *)
(***************************************************************************)

Illegal == "ILLEGAL_TRANSITION"

TerminalStatus == {"COMPLETED", "COMPLETED_WITH_ERRORS", "CANCELLED", "FAILED"}

UnfinishedMutation == {"RUNNING_CANARY", "RUNNING", "PAUSING", "CANCELLING"}

TransferResumable == {"PAUSED", "QUEUED", "SOURCE_RATE_LIMITED",
                      "WAITING_FOR_QUOTA", "AUTH_REQUIRED"}

Statuses == TerminalStatus \cup UnfinishedMutation \cup TransferResumable
              \cup {"DRAFT", "SCANNING", "READY_FOR_REVIEW", "CANARY_REVIEW"}

(* A transition that is allowed from the states of "from" and is a no-op in *)
(* its own result.                                                          *)
Move(s, from, to) == IF s \in from \cup {to} THEN to ELSE Illegal

StartScanning(s)     == Move(s, {"DRAFT", "PAUSED"}, "SCANNING")
PauseScanning(s)     == Move(s, {"SCANNING"}, "PAUSED")
CompleteScanning(s)  == Move(s, {"SCANNING"}, "READY_FOR_REVIEW")
FailScanning(s)      == IF s \in {"SCANNING", "PAUSED"} THEN "FAILED" ELSE Illegal

StartCanary(s)       == Move(s, {"READY_FOR_REVIEW", "QUEUED"}, "RUNNING_CANARY")
CompleteCanary(s)    == Move(s, {"RUNNING_CANARY"}, "CANARY_REVIEW")
StartBulk(s)         == Move(s, {"CANARY_REVIEW"}, "RUNNING")
PauseSharingLimitInBulk(s) == Move(s, {"RUNNING"}, "SOURCE_RATE_LIMITED")   \* mutant
PauseSharingLimit(s) == Move(s, {"RUNNING_CANARY", "RUNNING"}, "SOURCE_RATE_LIMITED")
WaitForQuota(s)      == Move(s, {"RUNNING_CANARY", "RUNNING"}, "WAITING_FOR_QUOTA")
PauseTransfer(s)     == Move(s, UnfinishedMutation, "PAUSED")
CancelJob(s)         == Move(s, Statuses \ TerminalStatus, "CANCELLED")
RequireAuth(s)       == Move(s, UnfinishedMutation \cup TransferResumable, "AUTH_REQUIRED")
Enqueue(s)           == Move(s, {"READY_FOR_REVIEW", "CANARY_REVIEW"} \cup TransferResumable,
                             "QUEUED")

(* A finished transfer stays finished, whatever the second call says. *)
CompleteTransfer(s, hadErrors) ==
  IF s \in {"COMPLETED", "COMPLETED_WITH_ERRORS"} THEN s
  ELSE IF s # "RUNNING" THEN Illegal
  ELSE IF hadErrors THEN "COMPLETED_WITH_ERRORS" ELSE "COMPLETED"

ResumeTransfer(s, asCanary) ==
  Move(s, TransferResumable, IF asCanary THEN "RUNNING_CANARY" ELSE "RUNNING")

RemoveFromQueue(s, restored) ==
  IF s = "QUEUED" /\ restored \in {"READY_FOR_REVIEW", "CANARY_REVIEW", "PAUSED"}
  THEN restored ELSE Illegal
================================================================================
