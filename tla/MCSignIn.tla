------------------------------- MODULE MCSignIn -------------------------------
(***************************************************************************)
(* Two dialogs, at most two callback connections at a time, and one client *)
(* besides the embedded one. Either two dialogs meet, or one dialog meets   *)
(* the settings and a fault.                                               *)
(***************************************************************************)
EXTENDS SignIn, TLC

CONSTANTS a1, a2

DialogsOrSettings ==
  {[dialogs |-> {a1, a2}, configures |-> FALSE, faults |-> 0],
   [dialogs |-> {a1},     configures |-> TRUE,  faults |-> 1]}
================================================================================
