------------------------------ MODULE MCAccounts ------------------------------
(***************************************************************************)
(* Two commands at a time on one account. A session either uses the        *)
(* account or takes it away: a refresh in flight writes CONNECTED over the *)
(* DISCONNECTED of a disconnection, so the two are apart.                  *)
(***************************************************************************)
EXTENDS Accounts, TLC

CONSTANTS t1, t2

UsesOrLeaves ==
  {[commands |-> {"job", "browse", "connect", "reauthenticate"}, faults |-> 2],
   [commands |-> {"connect", "disconnect", "remove", "delete"}, faults |-> 1]}
================================================================================
