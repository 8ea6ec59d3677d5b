--------------------------- MODULE OwnershipHandover ---------------------------
(***************************************************************************)
(* What a migration promises about each file, without saying how: the      *)
(* ownership of a file never returns to the source, it reaches the target  *)
(* only through an offer made while the source owned the file, and         *)
(* the claim the application keeps about a file is settled once. A file is *)
(* claimed "verified" only while the target owns it. The other settled     *)
(* claim, "closed" (failed for good, skipped or cancelled), promises       *)
(* nothing about the owner: a lost response can hide a transfer.           *)
(***************************************************************************)
CONSTANT Items
VARIABLES owner,   \* "source", "target", or "elsewhere"
          offered, \* an offer to the target is pending
          claim    \* "open", "verified" or "closed"

vars == <<owner, offered, claim>>

Init ==
  /\ owner = [i \in Items |-> "source"]
  /\ offered \in [Items -> BOOLEAN]
  /\ claim = [i \in Items |-> "open"]

Offer(i) ==
  /\ owner[i] = "source" /\ ~offered[i]
  /\ offered' = [offered EXCEPT ![i] = TRUE]
  /\ UNCHANGED <<owner, claim>>

Withdraw(i) ==
  /\ offered[i]
  /\ offered' = [offered EXCEPT ![i] = FALSE]
  /\ UNCHANGED <<owner, claim>>

(* The acceptance uses the offer up. *)
Accept(i) ==
  /\ owner[i] = "source" /\ offered[i]
  /\ owner'   = [owner EXCEPT ![i] = "target"]
  /\ offered' = [offered EXCEPT ![i] = FALSE]
  /\ UNCHANGED claim

(* Its owner gives the file to somebody else, outside the application. *)
Lose(i) ==
  /\ owner[i] # "elsewhere"
  /\ owner'   = [owner EXCEPT ![i] = "elsewhere"]
  /\ offered' = [offered EXCEPT ![i] = FALSE]
  /\ UNCHANGED claim

Verify(i) ==
  /\ claim[i] = "open" /\ owner[i] = "target"
  /\ claim' = [claim EXCEPT ![i] = "verified"]
  /\ UNCHANGED <<owner, offered>>

(* A cancelled job closes all the files it had not begun at once. *)
Close(S) ==
  /\ \A i \in S : claim[i] = "open"
  /\ claim' = [i \in Items |-> IF i \in S THEN "closed" ELSE claim[i]]
  /\ UNCHANGED <<owner, offered>>

Change(i) == Offer(i) \/ Withdraw(i) \/ Accept(i) \/ Lose(i) \/ Verify(i)

(* One step may both change a file and close its claim: an acceptance that *)
(* took effect but was answered with an error.                             *)
ChangeAndClose(i) ==
  /\ claim[i] = "open" /\ claim' = [claim EXCEPT ![i] = "closed"]
  /\ \/ /\ owner[i] = "source" /\ offered[i]
        /\ owner' = [owner EXCEPT ![i] = "target"]
        /\ offered' = [offered EXCEPT ![i] = FALSE]
     \/ /\ owner[i] = "source" /\ ~offered[i]
        /\ offered' = [offered EXCEPT ![i] = TRUE] /\ UNCHANGED owner

Next ==
  \/ \E i \in Items : Change(i) \/ ChangeAndClose(i)
  \/ \E S \in SUBSET Items : Close(S)

Spec == Init /\ [][Next]_vars
================================================================================
