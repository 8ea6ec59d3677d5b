------------------------------ MODULE MCBrowser ------------------------------
(***************************************************************************)
(* My Drive and one folder in it, two orders, two pages a listing. Either  *)
(* four loads meet an edit, or three loads meet a removal of two files, or *)
(* three loads meet an account that is signed out, rejected or changed.    *)
(***************************************************************************)
EXTENDS Browser, TLC

EditsOrAccounts ==
  {[loads |-> 4, edits |-> 1, changes |-> 0],
   [loads |-> 3, edits |-> 2, changes |-> 0],
   [loads |-> 3, edits |-> 0, changes |-> 1]}
================================================================================
