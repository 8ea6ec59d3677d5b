------------------------------- MODULE ItemState -------------------------------
(***************************************************************************)
(* The life cycle of one migration item: the states of domain/item.rs, the *)
(* classes the application asks about, and the transition relation every   *)
(* in-memory change of an item's state goes through (transition_to).       *)
(*                                                                         *)
(* transition_to returns IllegalTransition for a pair that CanTransition   *)
(* rejects; the transfer engine turns that error into a fatal one.         *)
(***************************************************************************)

Skipped == {"SKIPPED_ALREADY_OWNED_BY_TARGET", "SKIPPED_NOT_OWNED_BY_SOURCE",
            "SKIPPED_SHARED_DRIVE", "SKIPPED_SHORTCUT_TARGET",
            "SKIPPED_TRASHED", "SKIPPED_INELIGIBLE"}

Terminal == Skipped \cup {"VERIFIED", "PERMANENT_FAILED", "CANCELLED"}

TransferActive == {"ELIGIBLE", "PENDING_OWNER_REQUIRED", "PENDING_OWNER_CREATED",
                   "ACCEPT_REQUIRED", "ACCEPTING", "TRANSFERRED", "VERIFYING",
                   "RETRYABLE_FAILED"}

UnstartedForCancel == {"DISCOVERED", "ELIGIBLE", "PENDING_OWNER_REQUIRED",
                       "RETRYABLE_FAILED"}

IntermediateCheckpoint == {"PENDING_OWNER_CREATED", "ACCEPTING", "TRANSFERRED",
                           "VERIFYING"}

States == Terminal \cup TransferActive \cup {"DISCOVERED"}

(* The ways out of a transfer every state from PENDING_OWNER_CREATED on has. *)
GiveUp == {"RETRYABLE_FAILED", "PERMANENT_FAILED", "CANCELLED", "SKIPPED_TRASHED"}

(* can_transition_to without the reflexive arm. *)
Successors(s) ==
  CASE s = "DISCOVERED"             -> {"ELIGIBLE"}
    [] s = "ELIGIBLE"               -> GiveUp \cup (Skipped \ {"SKIPPED_SHORTCUT_TARGET"})
                                         \cup {"PENDING_OWNER_REQUIRED", "VERIFYING"}
    [] s = "PENDING_OWNER_REQUIRED" -> GiveUp \cup {"PENDING_OWNER_CREATED", "VERIFYING",
                                         "SKIPPED_SHARED_DRIVE", "SKIPPED_NOT_OWNED_BY_SOURCE"}
    [] s = "PENDING_OWNER_CREATED"  -> GiveUp \cup {"ACCEPT_REQUIRED", "VERIFYING",
                                         "SKIPPED_SHARED_DRIVE"}
    [] s = "ACCEPT_REQUIRED"        -> GiveUp \cup {"ACCEPTING", "VERIFYING"}
    [] s = "ACCEPTING"              -> GiveUp \cup {"TRANSFERRED", "VERIFYING"}
    [] s = "TRANSFERRED"            -> GiveUp \cup {"VERIFYING"}
    [] s = "VERIFYING"              -> GiveUp \cup {"VERIFIED"}
    [] s = "RETRYABLE_FAILED"       -> {"PENDING_OWNER_REQUIRED", "VERIFYING",
                                         "PERMANENT_FAILED", "CANCELLED",
                                         "SKIPPED_TRASHED", "SKIPPED_SHARED_DRIVE"}
    [] OTHER                        -> {}

CanTransition(from, to) == from = to \/ to \in Successors(from)
================================================================================
