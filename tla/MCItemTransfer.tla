----------------------------- MODULE MCItemTransfer -----------------------------
(* Small instances of ItemTransfer: two files, the deeper one first. *)
EXTENDS ItemTransfer, TLC

CONSTANTS f1, f2

MCItems == {f1, f2}
MCRank  == f1 :> 1 @@ f2 :> 2

Kinds(fault, env, crash, retry) ==
  [k \in {"fault", "env", "crash", "retry"} |->
     CASE k = "fault" -> fault [] k = "env" -> env
       [] k = "crash" -> crash [] k = "retry" -> retry]

CrashBudget  == Kinds(1, 1, 1, 0)
PeopleBudget == Kinds(1, 1, 0, 1)
CalmBudget   == Kinds(1, 1, 0, 0)
NothingWrong == Kinds(0, 0, 0, 0)

AllKinds == {"trash", "revoke", "share", "accept", "giveaway", "shareddrive", "move",
             "giveback"}
NoHelp   == AllKinds \ {"accept", "giveback"}
NoKinds  == {}
================================================================================
