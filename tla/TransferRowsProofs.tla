--------------------------- MODULE TransferRowsProofs ---------------------------
(***************************************************************************)
(* What becomes of the rows of a job over its whole life: theorems about   *)
(* ItemTransfer that rest on the invariant of ItemTransferProofs and on    *)
(* what a row on disk and its copies in memory have to do with each other. *)
(***************************************************************************)
EXTENDS ItemTransferProofs, FiniteSetTheorems, WellFoundedInduction

USE DEF durable, worker

--------------------------------------------------------------------------------
(* The invariants. *)

(* Where no list is loaded. *)
Resting == {"idle", "down", "scanned", "launch", "start", "sweep", "persist", "cancelling"}

(* What is in memory to be worked on is not settled on disk, and no row is  *)
(* in memory twice.                                                         *)
Unsettled ==
  /\ pc \in Resting => DOMAIN copy = {}
  /\ \A i \in DOMAIN copy : rows[i].state \notin Terminal
  /\ pc \in ItemPcs => cur \notin DOMAIN copy /\ rows[cur].state \notin Terminal

(* Until the canary has been run to its end, no other row is touched, only  *)
(* the canary is in memory, and neither the job nor its latest event        *)
(* mention the bulk phase.                                                  *)
Finished == {"canary_done", "done", "done_with_errors"}
BulkPhase == {"RUNNING", "CANARY_REVIEW"}

RowGate  == \A i \in Items : ~rows[i].canary => rows[i].state \in {"ELIGIBLE", "CANCELLED"}
ListGate == (\A i \in DOMAIN copy : copy[i].canary) /\ (pc \in ItemPcs => mem.canary)
JobGate  == /\ mode = "canary" /\ outcome \notin Finished /\ status \notin BulkPhase
            /\ \A s \in BulkPhase : ~Mentions(s)

CanaryOnly == ~reviewed => RowGate /\ ListGate /\ JobGate

(* The states that admit that the target may own the file. *)
Admits(s) ==
  \/ s \in {"ACCEPTING", "TRANSFERRED", "VERIFYING", "VERIFIED", "RETRYABLE_FAILED",
            "PERMANENT_FAILED", "SKIPPED_TRASHED", "CANCELLED"}
  \/ Budget["retry"] > 0 /\ s = "PENDING_OWNER_REQUIRED"

(* So does every copy that will be written over a row; and ACCEPTING is on  *)
(* disk before the acceptance is asked for.                                 *)
AcceptingSaved == pc \in {"accept", "accepted"} => rows[cur].state = "ACCEPTING"
RowsAdmit  == \A i \in Items : drive[i].owner = "target" => Admits(rows[i].state)
CopyAdmits == \A i \in DOMAIN copy : drive[i].owner = "target" => Admits(copy[i].state)
ItemAdmits == pc \in ItemPcs /\ drive[cur].owner = "target" =>
                Admits(mem.state) /\ pc \notin {"create", "update", "offered"}

Ahead ==
  /\ left["retry"] <= Budget["retry"] /\ AcceptingSaved
  /\ "accept" \notin EnvKinds => RowsAdmit /\ CopyAdmits /\ ItemAdmits

--------------------------------------------------------------------------------
(* The steps of an item. *)

(* A step that works on the item in hand: it writes the row of that item    *)
(* only, and keeps the item, lets go of it, or ends the run.                *)
WriteBack ==
  /\ \A j \in Items \ {cur} : rows'[j] = rows[j]
  /\ rows'[cur] = rows[cur] \/ rows'[cur].canary = mem.canary
  /\ outcome' \notin Finished /\ mode' = mode
  /\ \/ /\ copy' = copy /\ cur' = cur /\ pc' \in ItemPcs /\ mem'.canary = mem.canary
        /\ rows'[cur] = rows[cur] \/ rows'[cur].state \notin Terminal
     \/ copy' = copy /\ pc' = "next"
     \/ DOMAIN copy' = {} /\ pc' \in EndPcs

(* A run that ends. *)
LEMMA EndRunWrites ==
  ASSUME NEW o \in Outcomes \ Finished, EndRun(o),
         rows' = rows \/ (rows \in [Items -> Row] /\ cur \in Items
                            /\ rows' = [rows EXCEPT ![cur] = mem])
  PROVE  WriteBack /\ pc' \in EndPcs /\ DOMAIN copy' = {}
BY DEF EndRun, LetGo, NoRows, EndPcs, WriteBack

(* A save that keeps the item in hand. *)
LEMMA SaveWrites ==
  ASSUME IInv, pc \in ItemPcs, NEW s \in TransferActive, NEW p, NEW next \in ItemPcs,
         Save(s, p, next)
  PROVE  WriteBack
<1>1. cur \in Items /\ rows \in [Items -> Row] /\ mem \in Row /\ outcome = "none"
  BY DEF IInv, ItemOK, DataOK, ControlOK, ItemPcs, EndPcs
<1>2. CASE CanTransition(mem.state, s)
  <2>1. /\ mem' = [mem EXCEPT !.state = s, !.perm = p]
        /\ rows' = [rows EXCEPT ![cur] = [mem EXCEPT !.state = s, !.perm = p]]
        /\ pc' = next /\ UNCHANGED <<mode, copy, cur, outcome>>
    BY <1>2 DEF Save
  <2>2. mem'.canary = mem.canary /\ mem'.state = s
    BY <1>1, <2>1 DEF Row
  <2>3. rows'[cur] = mem' /\ \A j \in Items \ {cur} : rows'[j] = rows[j]
    BY <1>1, <2>1
  <2>4. s \notin Terminal
    BY DEF TransferActive, Terminal, Skipped
  <2>. QED BY <1>1, <2>1, <2>2, <2>3, <2>4 DEF WriteBack, Finished
<1>3. CASE ~CanTransition(mem.state, s)
  BY <1>3, EndRunWrites DEF Save, Outcomes, Finished
<1>. QED BY <1>2, <1>3

(* A save that lets go of the item. *)
LEMMA FinishWrites ==
  ASSUME IInv, pc \in ItemPcs, NEW s, SaveAndFinish(s)
  PROVE  /\ WriteBack /\ pc' \notin ItemPcs
         /\ rows'[cur] = rows[cur] \/ rows'[cur].state = s
<1>1. cur \in Items /\ rows \in [Items -> Row] /\ mem \in Row
  BY DEF IInv, ItemOK, DataOK
<1>2. CASE CanTransition(mem.state, s)
  <2>1. /\ rows' = [rows EXCEPT ![cur] = [mem EXCEPT !.state = s]]
        /\ pc' = "next" /\ outcome' = "none" /\ UNCHANGED <<mode, copy>>
    BY <1>2 DEF SaveAndFinish, LetGo
  <2>2. /\ rows'[cur].canary = mem.canary /\ rows'[cur].state = s
        /\ \A j \in Items \ {cur} : rows'[j] = rows[j]
    BY <1>1, <2>1 DEF Row
  <2>. QED BY <2>1, <2>2 DEF WriteBack, Finished, ItemPcs
<1>3. CASE ~CanTransition(mem.state, s)
  BY <1>3, EndRunWrites DEF SaveAndFinish, Outcomes, Finished, EndPcs, ItemPcs
<1>. QED BY <1>2, <1>3

(* finalize_step: a halt keeps the state, anything else is the last save. *)
LEMMA FinalizeWrites ==
  ASSUME IInv, pc \in ItemPcs, NEW c, FinalizeStep(c)
  PROVE  /\ WriteBack /\ pc' \notin ItemPcs
         /\ rows'[cur] \in {rows[cur], mem} \/ (rows'[cur].state = c /\ c \notin Halts)
<1>1. cur \in Items /\ rows \in [Items -> Row] /\ mem \in Row
  BY DEF IInv, ItemOK, DataOK
<1>2. CASE c \in Halts
  <2>1. rows' = [rows EXCEPT ![cur] = mem] /\ EndRun(c)
    BY <1>2 DEF FinalizeStep
  <2>2. c \in Outcomes \ Finished
    BY <1>2 DEF Outcomes, Halts, Finished
  <2>3. WriteBack /\ pc' \in EndPcs
    BY <1>1, <2>1, <2>2, EndRunWrites
  <2>. QED BY <1>1, <2>1, <2>3 DEF EndPcs, ItemPcs
<1>3. CASE c \notin Halts
  BY <1>3, FinishWrites DEF FinalizeStep
<1>. QED BY <1>2, <1>3

(* A failing call goes around, or the item is finished with an error. *)
LEMMA FailWrites ==
  ASSUME IInv, pc \in ItemPcs, NEW kind \in ErrorKinds, Fails(kind)
  PROVE  /\ WriteBack
         /\ \/ UNCHANGED <<rows, pc, mem>>
            \/ /\ pc' \notin ItemPcs
               /\ \/ rows'[cur] \in {rows[cur], mem}
                  \/ rows'[cur].state \in {"RETRYABLE_FAILED", "PERMANENT_FAILED"}
<1>1. outcome = "none"
  BY DEF IInv, ControlOK, ItemPcs, EndPcs
<1>2. CASE Classify(kind) = "RETRYABLE_FAILED" /\ tries < MaxRetry
  <2>1. UNCHANGED <<rows, pc, mode, copy, cur, mem, outcome>>
    BY <1>2 DEF Fails
  <2>. QED BY <1>1, <2>1 DEF WriteBack, Finished
<1>3. CASE ~(Classify(kind) = "RETRYABLE_FAILED" /\ tries < MaxRetry)
  <2>1. FinalizeStep(Classify(kind))
    BY <1>3 DEF Fails
  <2>2. Classify(kind) \notin Halts => Classify(kind) \in {"RETRYABLE_FAILED", "PERMANENT_FAILED"}
    BY DEF Classify, ErrorKinds, Halts
  <2>. QED BY <2>1, <2>2, FinalizeWrites
<1>. QED BY <1>2, <1>3

(* The hops to ACCEPT_REQUIRED. *)
LEMMA AdvanceWrites ==
  ASSUME IInv, pc \in ItemPcs, AdvanceToAcceptRequired("accepting")
  PROVE  WriteBack /\ pc' \notin {"create", "update", "offered", "accept", "accepted"}
<1>1. cur \in Items /\ rows \in [Items -> Row] /\ mem \in Row /\ outcome = "none"
  BY DEF IInv, ItemOK, DataOK, ControlOK, ItemPcs, EndPcs
<1>2. CASE CanAdvance(mem.state)
  <2>1. PICK s \in {"ACCEPTING", "ACCEPT_REQUIRED"} :
          /\ mem' = [mem EXCEPT !.state = s, !.perm = TRUE]
          /\ rows' = [rows EXCEPT ![cur] = [mem EXCEPT !.state = s, !.perm = TRUE]]
          /\ pc' = "accepting" /\ UNCHANGED <<mode, copy, cur, outcome>>
    BY <1>2 DEF AdvanceToAcceptRequired
  <2>2. mem'.canary = mem.canary /\ mem'.state = s
    BY <1>1, <2>1 DEF Row
  <2>3. rows'[cur] = mem' /\ \A j \in Items \ {cur} : rows'[j] = rows[j]
    BY <1>1, <2>1
  <2>4. s \notin Terminal
    BY DEF Terminal, Skipped
  <2>. QED BY <1>1, <2>1, <2>2, <2>3, <2>4 DEF WriteBack, Finished, ItemPcs
<1>3. CASE ~CanAdvance(mem.state)
  BY <1>3, EndRunWrites DEF AdvanceToAcceptRequired, Outcomes, Finished, EndPcs
<1>. QED BY <1>2, <1>3

ItemWork ==
  \/ ItemStep \/ RemoteFails \/ OfferLost \/ AcceptLost
  \/ (RunFails /\ pc \in ItemPcs)

(* All the steps of an item are of this kind. *)
LEMMA ItemWrites ==
  ASSUME IInv, ItemWork
  PROVE  pc \in ItemPcs /\ WriteBack /\ Unmoved
<1>1. CASE ReadSkips \/ ReadNotOwner
  <2>1. pc \in ItemPcs /\ Unmoved
    BY <1>1 DEF ReadSkips, ReadNotOwner, Reads, Quiet, ItemPcs
  <2>. QED BY <1>1, <2>1, FinishWrites, FinalizeWrites DEF ReadSkips, ReadNotOwner
<1>2. CASE ReadAlreadyMoved \/ ReadToOffer
  <2>1. pc \in ItemPcs /\ Unmoved
    BY <1>2 DEF ReadAlreadyMoved, ReadToOffer, Reads, Quiet, ItemPcs
  <2>2. PICK s \in {"VERIFYING", "PENDING_OWNER_REQUIRED"}, p \in {TRUE, mem.perm},
             next \in {"verify", "update", "create"} : Save(s, p, next)
    BY <1>2 DEF ReadAlreadyMoved, ReadToOffer
  <2>3. s \in TransferActive /\ next \in ItemPcs
    BY DEF TransferActive, ItemPcs
  <2>. QED BY <2>1, <2>2, <2>3, SaveWrites
<1>3. CASE ReadAlreadyOffered \/ SaveOffered
  <2>1. pc \in ItemPcs /\ Unmoved
    BY <1>3 DEF ReadAlreadyOffered, SaveOffered, Reads, Quiet, ItemPcs
  <2>. QED BY <1>3, <2>1, AdvanceWrites DEF ReadAlreadyOffered, SaveOffered
<1>4. CASE OfferSucceeds \/ AcceptSucceeds
  <2>1. pc \in ItemPcs /\ Unmoved /\ pc' \in ItemPcs /\ UNCHANGED <<rows, worker>>
    BY <1>4 DEF OfferSucceeds, AcceptSucceeds, Offers, Accepts, ItemPcs
  <2>2. outcome = "none"
    BY <2>1 DEF IInv, ControlOK, ItemPcs, EndPcs
  <2>. QED BY <2>1, <2>2 DEF WriteBack, Finished
<1>5. CASE OfferLost \/ AcceptLost \/ OfferRefused \/ AcceptRefused \/ RemoteFails \/ VerifyInvisible
  <2>1. pc \in ItemPcs /\ Unmoved
    BY <1>5 DEF OfferLost, AcceptLost, OfferRefused, AcceptRefused, RemoteFails,
                VerifyInvisible, Offers, Accepts, Verifies, Quiet, ItemPcs
  <2>2. PICK kind \in ErrorKinds : Fails(kind)
    BY <1>5 DEF OfferLost, AcceptLost, OfferRefused, AcceptRefused, RemoteFails,
                VerifyInvisible, ErrorKinds
  <2>. QED BY <2>1, <2>2, FailWrites
<1>6. CASE SaveAccepting \/ SaveTransferred \/ SaveVerifying
  <2>1. pc \in ItemPcs /\ Unmoved
    BY <1>6 DEF SaveAccepting, SaveTransferred, SaveVerifying, Quiet, ItemPcs
  <2>2. PICK s \in {"ACCEPTING", "TRANSFERRED", "VERIFYING"},
             next \in {"accept", "transferred", "verify"} : Save(s, mem.perm, next)
    BY <1>6 DEF SaveAccepting, SaveTransferred, SaveVerifying
  <2>3. s \in TransferActive /\ next \in ItemPcs
    BY DEF TransferActive, ItemPcs
  <2>. QED BY <2>1, <2>2, <2>3, SaveWrites
<1>7. CASE VerifyTrashed \/ VerifyConfirmed \/ VerifyNobody
  <2>1. pc \in ItemPcs /\ Unmoved
    BY <1>7 DEF VerifyTrashed, VerifyConfirmed, VerifyNobody, Verifies, Quiet, ItemPcs
  <2>. QED BY <1>7, <2>1, FinishWrites, FinalizeWrites
       DEF VerifyTrashed, VerifyConfirmed, VerifyNobody
<1>8. CASE VerifyUnconfirmed
  <2>1. pc \in ItemPcs /\ Unmoved
    BY <1>8 DEF VerifyUnconfirmed, Verifies, Quiet, ItemPcs
  <2>2. CASE polls < MaxRetry
    <3>1. UNCHANGED <<rows, pc, mode, copy, cur, mem, outcome>>
      BY <1>8, <2>2 DEF VerifyUnconfirmed
    <3>2. outcome = "none"
      BY <2>1 DEF IInv, ControlOK, ItemPcs, EndPcs
    <3>. QED BY <2>1, <3>1, <3>2 DEF WriteBack, Finished
  <2>3. CASE ~(polls < MaxRetry)
    BY <1>8, <2>1, <2>3, FinalizeWrites DEF VerifyUnconfirmed
  <2>. QED BY <2>2, <2>3
<1>9. CASE (RunFails /\ pc \in ItemPcs)
  BY <1>9, EndRunWrites DEF RunFails, Outcomes, Finished
<1>. QED BY <1>1, <1>2, <1>3, <1>4, <1>5, <1>6, <1>7, <1>8, <1>9 DEF ItemWork, ItemStep

--------------------------------------------------------------------------------
(* Settled rows. *)

SettledStay == \A i \in Items : rows[i].state \in Terminal => rows'[i] = rows[i]

(* The item in hand may be settled, and is let go of then. *)
LEMMA UnsettledItem ==
  ASSUME IInv, Unsettled, ItemWork
  PROVE  Unsettled' /\ SettledStay
<1>1. pc \in ItemPcs /\ WriteBack /\ cur \in Items /\ DOMAIN copy \subseteq Items
  BY ItemWrites DEF IInv, ItemOK, CopyOK
<1>2. SettledStay
  BY <1>1 DEF WriteBack, SettledStay, Unsettled
<1>3. \A i \in DOMAIN copy : rows'[i] = rows[i] /\ rows[i].state \notin Terminal
  BY <1>1 DEF WriteBack, Unsettled
<1>4. CASE /\ copy' = copy /\ cur' = cur /\ pc' \in ItemPcs
           /\ (rows'[cur] = rows[cur] \/ rows'[cur].state \notin Terminal)
  <2>1. cur \notin DOMAIN copy /\ rows[cur].state \notin Terminal
    BY <1>1 DEF Unsettled
  <2>2. cur' \notin DOMAIN copy' /\ rows'[cur'].state \notin Terminal /\ pc' \notin Resting
    BY <1>4, <2>1 DEF ItemPcs, Resting
  <2>3. \A i \in DOMAIN copy' : rows'[i].state \notin Terminal
    BY <1>3, <1>4
  <2>. QED BY <1>2, <1>4, <2>2, <2>3 DEF Unsettled
<1>5. CASE copy' = copy /\ pc' = "next"
  <2>1. \A i \in DOMAIN copy' : rows'[i].state \notin Terminal
    BY <1>3, <1>5
  <2>. QED BY <1>2, <1>5, <2>1 DEF Unsettled, ItemPcs, Resting
<1>6. CASE DOMAIN copy' = {} /\ pc' \in EndPcs
  <2>1. pc' \notin ItemPcs
    BY <1>6 DEF ItemPcs, EndPcs
  <2>. QED BY <1>2, <1>6, <2>1 DEF Unsettled
<1>. QED BY <1>1, <1>2, <1>4, <1>5, <1>6 DEF WriteBack

(* The list is the rows of some items that are not settled.                 *)
LEMMA ListUnsettled ==
  ASSUME Unsettled, NEW S, S \subseteq Items, copy' = RowsOf(S), rows' = rows,
         \A i \in S : rows[i].state \notin Terminal, pc' \in {"resume", "startup", "next"}
  PROVE  Unsettled' /\ SettledStay
BY DEF Unsettled, RowsOf, SettledStay, Resting, ItemPcs

(* The classes of states a list is loaded from have no settled state. *)
LEMMA Classes ==
  /\ IntermediateCheckpoint \cap Terminal = {} /\ TransferActive \cap Terminal = {}
  /\ UnstartedForCancel \cap Terminal = {} /\ "RETRYABLE_FAILED" \notin Terminal
  /\ "PENDING_OWNER_REQUIRED" \notin Terminal
BY DEF IntermediateCheckpoint, TransferActive, UnstartedForCancel, Terminal, Skipped

(* The commands of the user. *)
LEMMA UnsettledUser ==
  ASSUME IInv, Unsettled, UserStep \/ CancelJobStep
  PROVE  Unsettled' /\ SettledStay
<1>1. CASE StartCanaryCommand \/ ContinueMigration \/ ScanAgain
  <2>1. rows' = rows /\ copy' = copy /\ pc = "idle" /\ pc' \in {"launch", "idle"}
    BY <1>1 DEF StartCanaryCommand, ContinueMigration, ScanAgain, Idle, Launch
  <2>. QED BY <2>1 DEF Unsettled, SettledStay, Resting, ItemPcs
<1>2. CASE PauseMigration \/ CancelJobStep
  <2>1. /\ rows' = rows /\ copy' = copy /\ cur' = cur
        /\ (pc' = pc \/ (pc = "cancelling" /\ pc' = "idle"))
    BY <1>2 DEF PauseMigration, CancelJobStep
  <2>2. CASE pc' = pc
    BY <2>1, <2>2 DEF Unsettled, SettledStay
  <2>3. CASE pc = "cancelling" /\ pc' = "idle"
    BY <2>1, <2>3 DEF Unsettled, SettledStay, Resting, ItemPcs
  <2>. QED BY <2>1, <2>2, <2>3
<1>3. CASE ResumeMigration
  <2>1. pc' = "resume" /\ copy' = RowsOf(Checkpoints) /\ rows' = rows
    BY <1>3 DEF ResumeMigration, BeginResume
  <2>. QED BY <2>1, ListUnsettled, Classes DEF Checkpoints
<1>4. CASE CancelMigration
  <2>1. CASE InFlight
    <3>1. UNCHANGED <<rows, pc, copy, cur>>
      BY <1>4, <2>1 DEF CancelMigration
    <3>. QED BY <3>1 DEF Unsettled, SettledStay
  <2>2. CASE ~InFlight
    <3>1. pc = "idle" /\ pc' = "cancelling" /\ copy' = copy /\ SweepUnstarted
      BY <1>4, <2>2 DEF CancelMigration, Serving
    <3>2. SettledStay
      BY <3>1, Classes DEF SweepUnstarted, SettledStay
    <3>. QED BY <3>1, <3>2 DEF Unsettled, Resting, ItemPcs
  <2>. QED BY <2>1, <2>2
<1>5. CASE RetryFailedItems
  <2>1. rows \in [Items -> Row] /\ DOMAIN copy \subseteq Items /\ (pc \in ItemPcs => cur \in Items)
    BY DEF IInv, DataOK, CopyOK, ItemOK
  <2>2. \A i \in Items : \/ rows'[i] = rows[i]
                         \/ /\ rows[i].state = "RETRYABLE_FAILED"
                            /\ rows'[i].state = "PENDING_OWNER_REQUIRED"
    BY <1>5, <2>1 DEF RetryFailedItems, Row
  <2>3. SettledStay /\ \A i \in Items : rows[i].state \notin Terminal => rows'[i].state \notin Terminal
    BY <2>2, Classes DEF SettledStay
  <2>4. CASE CanResume
    <3>1. pc' = "resume" /\ copy' = RowsOf(Checkpoints)
      BY <1>5, <2>4 DEF RetryFailedItems, BeginResume
    <3>2. \A i \in Checkpoints : rows[i].state \notin Terminal
      BY Classes DEF Checkpoints
    <3>3. DOMAIN copy' = Checkpoints /\ Checkpoints \subseteq Items
      BY <3>1 DEF RowsOf, Checkpoints
    <3>. QED BY <2>3, <3>1, <3>2, <3>3 DEF Unsettled, Resting, ItemPcs
  <2>5. CASE ~CanResume
    <3>1. UNCHANGED <<pc, copy, cur>>
      BY <1>5, <2>5 DEF RetryFailedItems
    <3>. QED BY <2>1, <2>3, <3>1 DEF Unsettled
  <2>. QED BY <2>4, <2>5
<1>. QED BY <1>1, <1>2, <1>3, <1>4, <1>5 DEF UserStep

(* Loading, marking and walking the list, and the end of a run. *)
LEMMA UnsettledBatch ==
  ASSUME IInv, Unsettled, BatchStep
  PROVE  Unsettled' /\ SettledStay
<1>0. rows \in [Items -> Row] /\ DOMAIN copy \subseteq Items
  BY DEF IInv, DataOK, CopyOK
<1>1. CASE RunAutoMutationIfReady \/ ClearFlags \/ CanaryContinues
  <2>1. /\ rows' = rows /\ copy' = copy /\ DOMAIN copy = {}
        /\ pc' \in {"launch", "start"}
    BY <1>1 DEF RunAutoMutationIfReady, ClearFlags, CanaryContinues, Launch, Exhausted,
                Unsettled, Resting
  <2>. QED BY <2>1 DEF Unsettled, SettledStay, ItemPcs
<1>2. CASE LoadCanary
  <2>1. rows' = rows /\ copy' = CanaryBatch /\ pc' = "mark"
    BY <1>2 DEF LoadCanary
  <2>2. DOMAIN CanaryBatch \subseteq Items
    BY DEF CanaryBatch, RowsOf, FirstOf, Active, Cohort
  <2>3. \A i \in DOMAIN CanaryBatch : rows[i].state \notin Terminal
    BY Classes DEF CanaryBatch, RowsOf, FirstOf, Active
  <2>. QED BY <2>1, <2>2, <2>3 DEF Unsettled, SettledStay, Resting, ItemPcs
<1>3. CASE LoadBulk
  <2>1. rows' = rows /\ copy' = RowsOf(Active) /\ pc' = "next"
    BY <1>3 DEF LoadBulk
  <2>. QED BY <2>1, ListUnsettled, Classes DEF Active
<1>4. CASE CanaryMarked
  BY <1>4 DEF CanaryMarked, Unsettled, SettledStay, Resting, ItemPcs
<1>5. CASE StopRequested \/ BulkExhausted \/ CanaryExhausted
  <2>1. rows' = rows /\ DOMAIN copy' = {} /\ pc' \in EndPcs
    BY <1>5 DEF StopRequested, BulkExhausted, CanaryExhausted, EndRun, LetGo, NoRows, EndPcs
  <2>. QED BY <2>1 DEF Unsettled, SettledStay, ItemPcs, EndPcs
<1>6. CASE SweepCancelled
  <2>1. pc = "sweep" /\ pc' = "persist" /\ copy' = copy /\ SweepUnstarted
    BY <1>6 DEF SweepCancelled
  <2>2. SettledStay
    BY <2>1, Classes DEF SweepUnstarted, SettledStay
  <2>. QED BY <2>1, <2>2 DEF Unsettled, Resting, ItemPcs
<1>7. CASE PersistOutcome
  <2>1. pc = "persist" /\ pc' = "idle" /\ copy' = copy /\ rows' = rows
    BY <1>7 DEF PersistOutcome, LetGo
  <2>. QED BY <2>1 DEF Unsettled, SettledStay, Resting, ItemPcs
<1>8. ASSUME NEW i \in Items, MarkCanary(i) PROVE Unsettled' /\ SettledStay
  <2>1. /\ i \in DOMAIN copy /\ rows' = [rows EXCEPT ![i] = copy[i]]
        /\ pc = "mark" /\ pc' = pc /\ copy' = copy
    BY <1>8 DEF MarkCanary, IsFirst, Unmarked
  <2>2. copy[i].state \notin Terminal
    BY <2>1, Classes DEF IInv, CopyOK
  <2>. QED BY <1>0, <2>1, <2>2 DEF Unsettled, SettledStay, Resting, ItemPcs
<1>9. ASSUME NEW i \in Items, TakeTransferred(i) \/ TakeUnstarted(i) PROVE Unsettled' /\ SettledStay
  <2>1. /\ i \in DOMAIN copy /\ cur' = i /\ copy' = Without(copy, i) /\ rows' = rows
        /\ pc' \in {"read", "transferred"}
    BY <1>9 DEF TakeTransferred, TakeUnstarted, Take, IsFirst
  <2>2. DOMAIN copy' = DOMAIN copy \ {i}
    BY <2>1 DEF Without
  <2>. QED BY <2>1, <2>2 DEF Unsettled, SettledStay, Resting, ItemPcs
<1>10. ASSUME NEW i \in Items, TakeOffered(i) PROVE Unsettled' /\ SettledStay
  <2>1. /\ i \in DOMAIN copy /\ copy' = Without(copy, i) /\ pc = "next"
        /\ \/ cur' = i /\ pc' = "accepting" /\ rows' = rows
           \/ pc' = pc /\ rows' = [rows EXCEPT ![i] = [copy[i] EXCEPT !.state = "PERMANENT_FAILED"]]
    BY <1>10 DEF TakeOffered, IsFirst
  <2>2. DOMAIN copy' = DOMAIN copy \ {i}
    BY <2>1 DEF Without
  <2>3. \A j \in Items \ {i} : rows'[j] = rows[j]
    BY <1>0, <2>1
  <2>. QED BY <1>0, <2>1, <2>2, <2>3 DEF Unsettled, SettledStay, Resting, ItemPcs
<1>. QED BY <1>1, <1>2, <1>3, <1>4, <1>5, <1>6, <1>7, <1>8, <1>9, <1>10 DEF BatchStep

(* The steps that are not of an item, of the user or of the batch. *)
Rest ==
  \/ ReconcileStep \/ World \/ CanaryUnsettled \/ (RunFails /\ pc \notin ItemPcs)
  \/ ReconcileError \/ ReconcileUnauthorized \/ Crash \/ StartupWithoutTokens

(* Reconciliation, faults, restarts and the world outside. *)
LEMMA UnsettledRest ==
  ASSUME IInv, Unsettled, Rest
  PROVE  Unsettled' /\ SettledStay
<1>0. rows \in [Items -> Row] /\ DOMAIN copy \subseteq Items
  BY DEF IInv, DataOK, CopyOK
<1>1. ASSUME NEW i \in Items, ReconcileItem(i) PROVE Unsettled' /\ SettledStay
  <2>1. /\ i \in DOMAIN copy /\ copy' = Without(copy, i) /\ pc' = pc /\ pc \in {"resume", "startup"}
        /\ \A j \in Items \ {i} : rows'[j] = rows[j]
    BY <1>0, <1>1 DEF ReconcileItem, IsFirst, Reading
  <2>2. DOMAIN copy' = DOMAIN copy \ {i}
    BY <2>1 DEF Without
  <2>. QED BY <1>0, <2>1, <2>2 DEF Unsettled, SettledStay, Resting, ItemPcs
<1>2. CASE ResumeReconciled \/ StartupReconciled
  <2>1. rows' = rows /\ copy' = copy /\ DOMAIN copy = {} /\ pc' \in {"launch", "idle"}
    BY <1>2 DEF ResumeReconciled, StartupReconciled, Launch
  <2>. QED BY <2>1 DEF Unsettled, SettledStay, ItemPcs
<1>3. CASE Startup
  <2>1. pc = "down" /\ rows' = rows
    BY <1>3 DEF Startup
  <2>2. CASE pc' = "startup" /\ copy' = RowsOf(Checkpoints)
    BY <2>1, <2>2, ListUnsettled, Classes DEF Checkpoints
  <2>3. CASE pc' = "idle" /\ copy' = copy
    BY <2>1, <2>3 DEF Unsettled, SettledStay, Resting, ItemPcs
  <2>. QED BY <1>3, <2>2, <2>3 DEF Startup
<1>4. CASE World
  BY <1>4 DEF World, Touched, Outside, Unsettled, SettledStay
<1>5. CASE CanaryUnsettled \/ (RunFails /\ pc \notin ItemPcs)
  <2>1. rows' = rows /\ DOMAIN copy' = {} /\ pc' \in EndPcs
    BY <1>5 DEF CanaryUnsettled, RunFails, EndRun, LetGo, NoRows, EndPcs
  <2>. QED BY <2>1 DEF Unsettled, SettledStay, ItemPcs, EndPcs
<1>6. CASE ReconcileError \/ ReconcileUnauthorized \/ Crash
  <2>1. rows' = rows /\ DOMAIN copy' = {} /\ pc' \in {"idle", "down"}
    BY <1>6 DEF ReconcileError, ReconcileUnauthorized, Crash, LetGo, NoRows
  <2>. QED BY <2>1 DEF Unsettled, SettledStay, ItemPcs
<1>7. CASE StartupWithoutTokens
  BY <1>7 DEF StartupWithoutTokens, Unsettled, SettledStay, Resting, ItemPcs
<1>. QED BY <1>1, <1>2, <1>3, <1>4, <1>5, <1>6, <1>7 DEF Rest, ReconcileStep

(* Every step is of one of these kinds. *)
LEMMA StepKinds ==
  ASSUME Next
  PROVE  ItemWork \/ UserStep \/ CancelJobStep \/ BatchStep \/ Rest
BY DEF Next, WorkerStep, FaultStep, ItemWork, Rest

(* Every step keeps it, and leaves the settled rows alone. *)
LEMMA UnsettledNext ==
  ASSUME IInv, Unsettled, [Next]_vars
  PROVE  Unsettled' /\ SettledStay
<1>1. CASE UNCHANGED vars
  BY <1>1 DEF vars, Unsettled, SettledStay
<1>2. CASE Next
  BY <1>2, StepKinds, UnsettledItem, UnsettledUser, UnsettledBatch, UnsettledRest
<1>. QED BY <1>1, <1>2

(* At first no list is loaded. *)
LEMMA UnsettledInit ==
  ASSUME Init PROVE Unsettled
BY DEF Init, NoRows, Unsettled, ItemPcs

(* A settled row is never written again, by whatever copy, command or       *)
(* restart.                                                                 *)
THEOREM SettledForever == Spec => TerminalIsFinal
<1>1. IInv /\ Unsettled /\ [Next]_vars => Unsettled' /\ [SettledStay]_vars
  BY UnsettledNext
<1>2. Spec => [][SettledStay]_vars
  BY <1>1, UnsettledInit, Invariance, PTL DEF Spec
<1>. QED BY <1>2 DEF TerminalIsFinal, SettledStay

--------------------------------------------------------------------------------
(* The canary goes first. *)

(* A step that writes a status before the bulk phase, with its event. *)
LEMMA JobGateKept ==
  ASSUME JobGate, status' \notin BulkPhase, event' = event \/ event' = <<status, status'>>,
         mode' = "canary", outcome' \notin Finished
  PROVE  JobGate'
BY DEF JobGate, Mentions

(* The transfer of an item: the row it writes is of the canary. *)
LEMMA GateItem ==
  ASSUME IInv, CanaryOnly, ItemWork
  PROVE  CanaryOnly'
<1>1. pc \in ItemPcs /\ WriteBack /\ Unmoved
  BY ItemWrites
<1>. SUFFICES ASSUME ~reviewed' PROVE RowGate' /\ ListGate' /\ JobGate'
  BY DEF CanaryOnly
<1>2. RowGate /\ ListGate /\ JobGate /\ mem.canary
  BY <1>1 DEF CanaryOnly, Unmoved, ListGate
<1>3. RowGate'
  BY <1>1, <1>2 DEF RowGate, WriteBack
<1>4. ListGate'
  <2>1. CASE copy' = copy /\ pc' \in ItemPcs /\ mem'.canary = mem.canary
    BY <1>2, <2>1 DEF ListGate
  <2>2. CASE copy' = copy /\ pc' = "next"
    BY <1>2, <2>2 DEF ListGate, ItemPcs
  <2>3. CASE DOMAIN copy' = {} /\ pc' \in EndPcs
    BY <2>3 DEF ListGate, ItemPcs, EndPcs
  <2>. QED BY <1>1, <2>1, <2>2, <2>3 DEF WriteBack
<1>5. JobGate'
  BY <1>1, <1>2 DEF JobGate, Mentions, WriteBack, Unmoved
<1>. QED BY <1>3, <1>4, <1>5

(* A sweep takes rows outside the canary only to CANCELLED. *)
LEMMA GateSweep ==
  ASSUME rows \in [Items -> Row], RowGate, SweepUnstarted
  PROVE  RowGate'
BY DEF RowGate, SweepUnstarted, Row

(* A job that never reviewed its canary is resumed as a canary, with the    *)
(* checkpoints of canary rows.                                              *)
LEMMA GateResume ==
  ASSUME rows \in [Items -> Row], RowGate, JobGate, BeginResume
  PROVE  mode' = "canary" /\ ListGate'
<1>1. ShouldResumeAsCanary
  BY DEF RowGate, JobGate, BulkPhase, ShouldResumeAsCanary, BulkMutationHasStarted, Active,
         TransferActive
<1>2. copy' = RowsOf(Checkpoints) /\ pc' = "resume" /\ mode' = "canary"
  BY <1>1 DEF BeginResume
<1>3. \A i \in Checkpoints : i \in Items /\ rows[i].state \notin {"ELIGIBLE", "CANCELLED"}
  BY DEF Checkpoints, IntermediateCheckpoint
<1>. QED BY <1>2, <1>3 DEF ListGate, RowsOf, RowGate, ItemPcs

(* The commands of the user: none starts the bulk phase before the review. *)
LEMMA GateUser ==
  ASSUME IInv, CanaryOnly, UserStep \/ CancelJobStep
  PROVE  CanaryOnly'
<1>1. reviewed' = reviewed /\ outcome' = outcome
  BY DEF UserStep, CancelJobStep, StartCanaryCommand, ContinueMigration, ScanAgain,
         ResumeMigration, RetryFailedItems, PauseMigration, CancelMigration, Idle
<1>. SUFFICES ASSUME ~reviewed PROVE RowGate' /\ ListGate' /\ JobGate'
  BY <1>1 DEF CanaryOnly
<1>2. RowGate /\ ListGate /\ JobGate /\ rows \in [Items -> Row]
  BY DEF CanaryOnly, IInv, DataOK
<1>3. status \notin BulkPhase /\ outcome' \notin Finished /\ mode = "canary"
  BY <1>1, <1>2 DEF JobGate
<1>4. CASE StartCanaryCommand \/ ScanAgain
  <2>1. /\ rows' = rows /\ copy' = copy /\ pc' \notin ItemPcs
        /\ (event' = event \/ event' = <<status, status'>>) /\ mode' = "canary"
        /\ status' \in {"RUNNING_CANARY", "READY_FOR_REVIEW"}
    BY <1>3, <1>4 DEF StartCanaryCommand, ScanAgain, Idle, Launch, StartCanary, Move, ItemPcs,
         StartScanning, CompleteScanning
  <2>2. JobGate'
    BY <1>2, <1>3, <2>1, JobGateKept DEF BulkPhase
  <2>. QED BY <1>2, <2>1, <2>2 DEF RowGate, ListGate
<1>5. CASE ContinueMigration
  BY <1>3, <1>5 DEF ContinueMigration, BulkPhase
<1>6. CASE ResumeMigration
  <2>1. rows' = rows /\ status' = status /\ event' = event /\ BeginResume
    BY <1>6 DEF ResumeMigration
  <2>. QED BY <1>2, <1>3, <2>1, GateResume, JobGateKept DEF RowGate
<1>7. CASE RetryFailedItems
  <2>1. RowGate'
    BY <1>2, <1>7 DEF RetryFailedItems, RowGate, Row
  <2>2. CASE CanResume
    <3>1. BeginResume /\ status' = status /\ event' = event
      BY <1>7, <2>2 DEF RetryFailedItems
    <3>. QED BY <1>2, <1>3, <2>1, <3>1, GateResume, JobGateKept
  <2>3. CASE ~CanResume
    <3>1. UNCHANGED <<pc, mode, copy, mem, status, event>>
      BY <1>7, <2>3 DEF RetryFailedItems
    <3>. QED BY <1>2, <1>3, <2>1, <3>1, JobGateKept DEF ListGate
  <2>. QED BY <2>2, <2>3
<1>8. CASE PauseMigration \/ CancelJobStep
  <2>1. /\ UNCHANGED <<rows, copy, mode, mem>> /\ (pc' = pc \/ pc' = "idle")
        /\ event' = event \/ event' = <<status, status'>>
        /\ status' \in {status, "PAUSED", "CANCELLED", Illegal}
    BY <1>8 DEF PauseMigration, CancelJobStep, PauseTransfer, CancelJob, Move
  <2>2. JobGate'
    BY <1>2, <1>3, <2>1, JobGateKept DEF BulkPhase, Illegal
  <2>. QED BY <1>2, <2>1, <2>2 DEF RowGate, ListGate, ItemPcs
<1>9. CASE CancelMigration
  <2>1. /\ UNCHANGED <<copy, mode, mem, status, event>>
        /\ (pc' = pc \/ pc' = "cancelling") /\ (rows' = rows \/ SweepUnstarted)
    BY <1>9 DEF CancelMigration
  <2>2. RowGate'
    BY <1>2, <2>1, GateSweep DEF RowGate
  <2>. QED BY <1>2, <1>3, <2>1, <2>2, JobGateKept DEF ListGate, ItemPcs
<1>. QED BY <1>4, <1>5, <1>6, <1>7, <1>8, <1>9 DEF UserStep

(* The batch: it loads the canary, and its end is the review. *)
LEMMA GateBatch ==
  ASSUME IInv, CanaryOnly, BatchStep
  PROVE  CanaryOnly'
<1>. SUFFICES ASSUME ~reviewed' PROVE RowGate' /\ ListGate' /\ JobGate'
  BY DEF CanaryOnly
<1>0. rows \in [Items -> Row] /\ copy \in [DOMAIN copy -> Row] /\ DOMAIN copy \subseteq Items
  BY DEF IInv, DataOK, CopyOK
<1>. DEFINE Before == RowGate /\ ListGate /\ JobGate
<1>1. CASE RunAutoMutationIfReady
  <2>1. /\ UNCHANGED <<rows, reviewed, copy, outcome>> /\ pc' = "launch" /\ mode' = "canary"
        /\ event' = <<status, status'>> /\ status' = "RUNNING_CANARY"
    BY <1>1 DEF RunAutoMutationIfReady, Launch, StartCanary, Move
  <2>2. Before
    BY <2>1 DEF CanaryOnly
  <2>3. outcome' \notin Finished
    BY <2>1, <2>2 DEF JobGate
  <2>4. JobGate'
    BY <2>1, <2>2, <2>3, JobGateKept DEF BulkPhase
  <2>. QED BY <2>1, <2>2, <2>4 DEF RowGate, ListGate, ItemPcs
<1>2. CASE ClearFlags \/ CanaryMarked
  <2>1. UNCHANGED <<rows, worker, status, event, reviewed>> /\ pc' \in {"start", "next"}
    BY <1>2 DEF ClearFlags, CanaryMarked, Quiet, Unmoved
  <2>2. Before
    BY <2>1 DEF CanaryOnly
  <2>. QED BY <2>1, <2>2 DEF RowGate, ListGate, JobGate, Mentions, ItemPcs
<1>3. CASE LoadCanary
  <2>1. /\ UNCHANGED <<rows, mode, outcome, status, event, reviewed>>
        /\ copy' = CanaryBatch /\ pc' = "mark"
    BY <1>3 DEF LoadCanary, Quiet, Unmoved
  <2>2. Before
    BY <2>1 DEF CanaryOnly
  <2>3. \A i \in DOMAIN CanaryBatch : CanaryBatch[i].canary
    BY <1>0 DEF CanaryBatch, RowsOf, Cohort, Active, FirstOf, Row
  <2>. QED BY <2>1, <2>2, <2>3 DEF RowGate, ListGate, JobGate, Mentions, ItemPcs
<1>4. CASE LoadBulk
  <2>1. mode = "bulk" /\ reviewed' = reviewed
    BY <1>4 DEF LoadBulk, Quiet, Unmoved
  <2>. QED BY <2>1 DEF CanaryOnly, JobGate
<1>5. CASE StopRequested
  <2>1. /\ UNCHANGED <<rows, mode, status, event, reviewed>> /\ DOMAIN copy' = {}
        /\ outcome' = stop /\ pc' \in EndPcs
    BY <1>5 DEF StopRequested, EndRun, LetGo, NoRows, Quiet, Unmoved, EndPcs
  <2>2. Before /\ stop \notin Finished
    BY <2>1 DEF CanaryOnly, IInv, JobOK, Finished
  <2>. QED BY <2>1, <2>2 DEF RowGate, ListGate, JobGate, Mentions, ItemPcs, EndPcs
<1>6. CASE BulkExhausted
  <2>1. mode = "bulk" /\ reviewed' = reviewed
    BY <1>6 DEF BulkExhausted, Quiet, Unmoved
  <2>. QED BY <2>1 DEF CanaryOnly, JobGate
<1>7. CASE CanaryExhausted \/ CanaryContinues
  BY <1>7 DEF CanaryExhausted, CanaryContinues
<1>8. CASE SweepCancelled
  <2>1. UNCHANGED <<worker, status, event, reviewed>> /\ pc' = "persist" /\ SweepUnstarted
    BY <1>8 DEF SweepCancelled, Quiet, Unmoved
  <2>2. Before
    BY <2>1 DEF CanaryOnly
  <2>3. RowGate'
    BY <1>0, <2>1, <2>2, GateSweep
  <2>. QED BY <2>1, <2>2, <2>3 DEF ListGate, JobGate, Mentions, ItemPcs
<1>9. CASE PersistOutcome
  <2>1. /\ UNCHANGED <<rows, reviewed, copy>> /\ outcome' = "none" /\ mode' = "canary"
        /\ status' = FinalStatus(status, outcome) /\ event' = <<status, status'>> /\ pc' = "idle"
    BY <1>9 DEF PersistOutcome, LetGo
  <2>2. Before
    BY <2>1 DEF CanaryOnly
  <2>3. status' \notin BulkPhase /\ outcome' \notin Finished
    BY <2>1, <2>2 DEF JobGate, Finished, FinalStatus, PauseSharingLimit, WaitForQuota,
         RequireAuth, PauseTransfer, CancelJob, Move, BulkPhase, Illegal
  <2>4. JobGate'
    BY <2>1, <2>2, <2>3, JobGateKept
  <2>. QED BY <2>1, <2>2, <2>4 DEF RowGate, ListGate, ItemPcs
<1>10. ASSUME NEW i \in Items, MarkCanary(i) PROVE RowGate' /\ ListGate' /\ JobGate'
  <2>1. /\ i \in DOMAIN copy /\ rows' = [rows EXCEPT ![i] = copy[i]]
        /\ UNCHANGED <<pc, worker, status, event, reviewed>>
    BY <1>10 DEF MarkCanary, IsFirst, Unmarked, Quiet, Unmoved
  <2>2. Before
    BY <2>1 DEF CanaryOnly
  <2>3. RowGate'
    BY <1>0, <2>1, <2>2 DEF RowGate, ListGate
  <2>. QED BY <2>1, <2>2, <2>3 DEF ListGate, JobGate, Mentions
<1>11. ASSUME NEW i \in Items, TakeTransferred(i) \/ TakeUnstarted(i)
       PROVE  RowGate' /\ ListGate' /\ JobGate'
  <2>1. /\ i \in DOMAIN copy /\ mem' = copy[i] /\ copy' = Without(copy, i)
        /\ UNCHANGED <<rows, mode, outcome, status, event, reviewed>>
    BY <1>11 DEF TakeTransferred, TakeUnstarted, Take, IsFirst, Quiet, Unmoved
  <2>2. Before
    BY <2>1 DEF CanaryOnly
  <2>3. ListGate'
    BY <2>1, <2>2 DEF ListGate, Without
  <2>. QED BY <2>1, <2>2, <2>3 DEF RowGate, JobGate, Mentions
<1>12. ASSUME NEW i \in Items, TakeOffered(i) PROVE RowGate' /\ ListGate' /\ JobGate'
  <2>1. /\ i \in DOMAIN copy /\ copy' = Without(copy, i) /\ pc = "next"
        /\ UNCHANGED <<mode, outcome, status, event, reviewed>>
        /\ \/ mem' = copy[i] /\ rows' = rows
           \/ pc' = pc /\ rows' = [rows EXCEPT ![i] = [copy[i] EXCEPT !.state = "PERMANENT_FAILED"]]
    BY <1>12 DEF TakeOffered, IsFirst, Quiet, Unmoved
  <2>2. Before /\ copy[i].canary
    BY <2>1 DEF CanaryOnly, ListGate
  <2>3. RowGate'
    BY <1>0, <2>1, <2>2 DEF RowGate, Row
  <2>4. ListGate'
    BY <2>1, <2>2 DEF ListGate, Without, ItemPcs
  <2>. QED BY <2>1, <2>2, <2>3, <2>4 DEF JobGate, Mentions
<1>. QED BY <1>1, <1>2, <1>3, <1>4, <1>5, <1>6, <1>7, <1>8, <1>9, <1>10, <1>11, <1>12 DEF BatchStep

(* Reconciliation, faults, restarts and the world outside. *)
LEMMA GateRest ==
  ASSUME IInv, CanaryOnly, Rest
  PROVE  CanaryOnly'
<1>. SUFFICES ASSUME ~reviewed' PROVE RowGate' /\ ListGate' /\ JobGate'
  BY DEF CanaryOnly
<1>0. rows \in [Items -> Row] /\ copy \in [DOMAIN copy -> Row] /\ DOMAIN copy \subseteq Items
  BY DEF IInv, DataOK, CopyOK
<1>. DEFINE Before == RowGate /\ ListGate /\ JobGate
<1>1. ASSUME NEW i \in Items, ReconcileItem(i) PROVE RowGate' /\ ListGate' /\ JobGate'
  <2>1. /\ i \in DOMAIN copy /\ copy' = Without(copy, i) /\ pc' = pc /\ pc \in {"resume", "startup"}
        /\ UNCHANGED <<mode, outcome, status, event, reviewed>>
        /\ \/ rows' = [rows EXCEPT ![i] = Reconciled(copy[i], drive[i])]
           \/ rows' = [rows EXCEPT ![i] = [copy[i] EXCEPT !.state = "PERMANENT_FAILED"]]
    BY <1>1 DEF ReconcileItem, IsFirst, Reading, Quiet, Unmoved
  <2>2. Before /\ copy[i].canary
    BY <2>1 DEF CanaryOnly, ListGate
  <2>3. copy[i] \in Row
    BY <1>0, <2>1
  <2>4. Reconciled(copy[i], drive[i]).canary
    BY <2>2, <2>3 DEF Reconciled, Row
  <2>5. RowGate'
    BY <1>0, <2>1, <2>2, <2>3, <2>4 DEF RowGate, Row
  <2>6. ListGate'
    BY <2>1, <2>2 DEF ListGate, Without, ItemPcs
  <2>. QED BY <2>1, <2>2, <2>5, <2>6 DEF JobGate, Mentions
<1>2. CASE ResumeReconciled \/ StartupReconciled \/ StartupWithoutTokens
  <2>1. /\ UNCHANGED <<rows, copy, outcome, reviewed>> /\ mode' = mode
        /\ event' = event \/ event' = <<status, status'>>
        /\ pc' \in {"launch", "idle"}
    BY <1>2 DEF ResumeReconciled, StartupReconciled, StartupWithoutTokens, Launch
  <2>2. Before
    BY <2>1 DEF CanaryOnly
  <2>3. status' \notin BulkPhase /\ outcome' \notin Finished /\ mode' = "canary"
    BY <1>2, <2>1, <2>2 DEF JobGate, ResumeReconciled, StartupReconciled, StartupWithoutTokens,
         Launch, ResumeTransfer, PauseTransfer, RequireAuth, Move, BulkPhase, Illegal
  <2>4. JobGate'
    BY <2>1, <2>2, <2>3, JobGateKept
  <2>. QED BY <2>1, <2>2, <2>4 DEF RowGate, ListGate, ItemPcs
<1>3. CASE Startup
  <2>1. /\ UNCHANGED <<rows, mode, outcome, status, event, reviewed>>
        /\ pc' \in {"startup", "idle"} /\ (copy' = RowsOf(Checkpoints) \/ copy' = copy)
    BY <1>3 DEF Startup, Quiet, Unmoved
  <2>2. Before
    BY <2>1 DEF CanaryOnly
  <2>3. \A i \in Checkpoints : i \in Items /\ rows[i].canary
    BY <2>2 DEF Checkpoints, IntermediateCheckpoint, RowGate
  <2>4. ListGate'
    BY <2>1, <2>2, <2>3 DEF ListGate, RowsOf, ItemPcs
  <2>. QED BY <2>1, <2>2, <2>4 DEF RowGate, JobGate, Mentions
<1>4. CASE World
  <2>1. UNCHANGED <<rows, pc, worker, status, event, reviewed>>
    BY <1>4 DEF World, Touched, Outside, Unmoved
  <2>. QED BY <2>1 DEF CanaryOnly, RowGate, ListGate, JobGate, Mentions
<1>5. CASE CanaryUnsettled
  BY <1>5 DEF CanaryUnsettled
<1>6. CASE RunFails
  <2>1. /\ UNCHANGED <<rows, mode, status, event, reviewed>> /\ DOMAIN copy' = {}
        /\ outcome' = "fatal" /\ pc' \in EndPcs
    BY <1>6 DEF RunFails, EndRun, LetGo, NoRows, Unmoved, EndPcs
  <2>. QED BY <2>1 DEF CanaryOnly, RowGate, ListGate, JobGate, Mentions, ItemPcs, EndPcs, Finished
<1>7. CASE ReconcileError \/ ReconcileUnauthorized \/ Crash
  <2>1. /\ UNCHANGED <<rows, reviewed>> /\ DOMAIN copy' = {} /\ pc' \in {"idle", "down"}
        /\ event' = event \/ event' = <<status, status'>>
        /\ mode' \in {mode, "canary"} /\ outcome' \in {outcome, "none"}
        /\ status' \in {status, "PAUSED", "AUTH_REQUIRED", Illegal}
    BY <1>7 DEF ReconcileError, ReconcileUnauthorized, Crash, LetGo, NoRows, PauseTransfer,
         RequireAuth, Move
  <2>2. Before
    BY <2>1 DEF CanaryOnly
  <2>3. status' \notin BulkPhase /\ outcome' \notin Finished /\ mode' = "canary"
    BY <2>1, <2>2 DEF JobGate, Finished, BulkPhase, Illegal
  <2>4. JobGate'
    BY <2>1, <2>2, <2>3, JobGateKept
  <2>. QED BY <2>1, <2>2, <2>4 DEF RowGate, ListGate, ItemPcs
<1>. QED BY <1>1, <1>2, <1>3, <1>4, <1>5, <1>6, <1>7 DEF Rest, ReconcileStep

(* Every step keeps the gate closed until the review. *)
LEMMA GateNext ==
  ASSUME IInv, CanaryOnly, [Next]_vars
  PROVE  CanaryOnly'
<1>1. CASE UNCHANGED vars
  BY <1>1 DEF vars, CanaryOnly, RowGate, ListGate, JobGate, Mentions
<1>2. CASE Next
  BY <1>2, StepKinds, GateItem, GateUser, GateBatch, GateRest
<1>. QED BY <1>1, <1>2

(* At first nothing is touched. *)
LEMMA GateInit ==
  ASSUME Init PROVE CanaryOnly
BY DEF Init, NoRows, CanaryOnly, RowGate, ListGate, JobGate, Mentions, BulkPhase, Finished, ItemPcs

(* No file outside the canary is touched before the canary was run, for any *)
(* set of files and any size of the canary.                                 *)
THEOREM CanaryGoesFirst == Spec => []CanaryGate
<1>1. IInv /\ CanaryOnly /\ [Next]_vars => CanaryOnly'
  BY GateNext
<1>2. CanaryOnly => CanaryGate
  BY DEF CanaryOnly, RowGate, CanaryGate
<1>. QED BY <1>1, <1>2, GateInit, Invariance, PTL DEF Spec

--------------------------------------------------------------------------------
(* The row is ahead of the target. *)

(* Nothing but the acceptance hands a file to the target.                   *)
OwnersStay ==
  \A j \in Items : drive'[j].owner = "target" =>
     drive[j].owner = "target" \/ (j = cur /\ pc = "accept")
NoNewRetry == left'["retry"] \in 0..left["retry"]

(* What a step on the item in hand owes: whatever it does to the file, the  *)
(* row and the copy in memory admit it.                                     *)
Honest ==
  /\ OwnersStay /\ NoNewRetry
  /\ pc' \in {"accept", "accepted"} => rows'[cur].state = "ACCEPTING"
  /\ "accept" \notin EnvKinds /\ drive'[cur].owner = "target" =>
       /\ Admits(rows'[cur].state)
       /\ pc' \in ItemPcs => Admits(mem'.state) /\ pc' \notin {"create", "update", "offered"}

(* The budget of retry requests is a number. *)
LEMMA BudgetType == Budget["retry"] \in Nat /\ (IInv => left["retry"] \in Nat)
BY BoundsAssumption DEF IInv, ControlOK

(* A fault, a crash or an outside change costs no retry request. *)
LEMMA SpendOther ==
  ASSUME IInv, NEW k \in {"fault", "env", "crash"}, Spend(k)
  PROVE  NoNewRetry
<1>1. left \in [{"fault", "env", "crash", "retry"} -> Nat] /\ left' = [left EXCEPT ![k] = @ - 1]
  BY DEF IInv, ControlOK, Spend
<1>. QED BY <1>1 DEF NoNewRetry

(* Nor does a step that costs nothing. *)
LEMMA SameLeft == ASSUME IInv, left' = left PROVE NoNewRetry
BY BudgetType DEF NoNewRetry

(* Where no file changes, no owner does. *)
LEMMA SameOwners == ASSUME drive' = drive PROVE OwnersStay
BY DEF OwnersStay

(* An honest step keeps the rows ahead of the target. *)
LEMMA HonestAhead ==
  ASSUME IInv, Unsettled, Ahead, pc \in ItemPcs, WriteBack, Honest
  PROVE  Ahead'
<1>1. cur \in Items /\ cur \notin DOMAIN copy /\ DOMAIN copy \subseteq Items
  BY DEF IInv, ItemOK, CopyOK, Unsettled
<1>2. left'["retry"] <= Budget["retry"]
  BY BudgetType DEF Honest, NoNewRetry, Ahead
<1>3. AcceptingSaved'
  BY DEF WriteBack, Honest, AcceptingSaved, EndPcs
<1>4. ASSUME "accept" \notin EnvKinds PROVE RowsAdmit' /\ CopyAdmits' /\ ItemAdmits'
  <2>1. \A j \in Items \ {cur} : drive'[j].owner = "target" => drive[j].owner = "target"
    BY DEF Honest, OwnersStay
  <2>2. RowsAdmit /\ CopyAdmits /\ ItemAdmits
    BY <1>4 DEF Ahead
  <2>3. RowsAdmit'
    BY <1>4, <2>1, <2>2 DEF RowsAdmit, WriteBack, Honest, Admits
  <2>4. CopyAdmits'
    BY <1>1, <2>1, <2>2 DEF CopyAdmits, WriteBack, Admits
  <2>5. ItemAdmits'
    BY <1>4 DEF ItemAdmits, WriteBack, Honest, ItemPcs, EndPcs, Admits
  <2>. QED BY <2>3, <2>4, <2>5
<1>. QED BY <1>2, <1>3, <1>4 DEF Ahead

(* A row or copy that a step keeps still admits what it admitted.           *)
LEMMA StillAdmits ==
  ASSUME IInv, Ahead, pc \in ItemPcs, OwnersStay, "accept" \notin EnvKinds,
         drive'[cur].owner = "target"
  PROVE  Admits(rows[cur].state) /\ Admits(mem.state) /\ pc \notin {"create", "update", "offered"}
<1>1. cur \in Items /\ Knows(pc, mem.state, mem.perm)
  BY DEF IInv, ItemOK
<1>2. CASE drive[cur].owner = "target"
  BY <1>1, <1>2 DEF Ahead, RowsAdmit, ItemAdmits
<1>3. CASE pc = "accept"
  <2>1. rows[cur].state = "ACCEPTING" /\ mem.state = "ACCEPTING"
    BY <1>1, <1>3 DEF Ahead, AcceptingSaved, Knows
  <2>. QED BY <1>3, <2>1 DEF Admits
<1>. QED BY <1>1, <1>2, <1>3 DEF OwnersStay

(* A failing call, whether or not it took effect. *)
LEMMA FailHonest ==
  ASSUME IInv, Ahead, pc \in ItemPcs, OwnersStay, NoNewRetry, NEW kind \in ErrorKinds, Fails(kind)
  PROVE  Honest
<1>1. CASE UNCHANGED <<rows, pc, mem>>
  <2>1. pc' \in {"accept", "accepted"} => rows'[cur].state = "ACCEPTING"
    BY <1>1 DEF Ahead, AcceptingSaved
  <2>2. ASSUME "accept" \notin EnvKinds, drive'[cur].owner = "target"
        PROVE  /\ Admits(rows'[cur].state) /\ Admits(mem'.state)
               /\ pc' \notin {"create", "update", "offered"}
    BY <1>1, <2>2, StillAdmits DEF Admits
  <2>. QED BY <2>1, <2>2 DEF Honest
<1>2. CASE /\ pc' \notin ItemPcs
           /\ \/ rows'[cur] \in {rows[cur], mem}
              \/ rows'[cur].state \in {"RETRYABLE_FAILED", "PERMANENT_FAILED"}
  <2>1. ASSUME "accept" \notin EnvKinds, drive'[cur].owner = "target"
        PROVE  Admits(rows'[cur].state)
    <3>1. Admits(rows[cur].state) /\ Admits(mem.state)
      BY <2>1, StillAdmits
    <3>. QED BY <1>2, <3>1 DEF Admits
  <2>2. pc' \notin {"accept", "accepted"}
    BY <1>2 DEF ItemPcs
  <2>. QED BY <1>2, <2>1, <2>2 DEF Honest
<1>. QED BY <1>1, <1>2, FailWrites

(* A last save that admits what the target owns. *)
LEMMA FinishHonest ==
  ASSUME IInv, Ahead, pc \in ItemPcs, NEW s, UNCHANGED <<drive, left>>,
         SaveAndFinish(s) \/ (FinalizeStep(s) /\ s \notin Halts),
         drive[cur].owner = "target" => Admits(s)
  PROVE  Honest
<1>1. SaveAndFinish(s) /\ OwnersStay /\ NoNewRetry
  BY SameLeft, SameOwners DEF FinalizeStep
<1>2. pc' \notin ItemPcs /\ (rows'[cur] = rows[cur] \/ rows'[cur].state = s)
  BY <1>1, FinishWrites
<1>3. ASSUME "accept" \notin EnvKinds, drive'[cur].owner = "target"
      PROVE  Admits(rows'[cur].state)
  <2>1. Admits(rows[cur].state)
    BY <1>1, <1>3, StillAdmits
  <2>. QED BY <1>2, <2>1, <1>3 DEF Admits
<1>4. pc' \notin {"accept", "accepted"}
  BY <1>2 DEF ItemPcs
<1>. QED BY <1>1, <1>2, <1>3, <1>4 DEF Honest

(* A run that ends writes nothing, or the copy in memory.                   *)
LEMMA EndHonest ==
  ASSUME IInv, Ahead, pc \in ItemPcs, UNCHANGED <<drive, rows>>, NoNewRetry, NEW o, EndRun(o)
  PROVE  Honest
<1>1. pc' \notin ItemPcs /\ pc' \notin {"accept", "accepted"} /\ OwnersStay
  BY SameOwners DEF EndRun, LetGo, ItemPcs
<1>2. ASSUME "accept" \notin EnvKinds, drive'[cur].owner = "target"
      PROVE  Admits(rows'[cur].state)
  BY <1>1, <1>2, StillAdmits DEF Admits
<1>. QED BY <1>1, <1>2 DEF Honest

(* A save on the way. *)
LEMMA SaveHonest ==
  ASSUME IInv, Ahead, pc \in ItemPcs, UNCHANGED <<drive, left>>,
         NEW s, NEW p, NEW next, Save(s, p, next),
         next \in {"accept", "accepted"} => s = "ACCEPTING",
         "accept" \notin EnvKinds /\ drive[cur].owner = "target" =>
            Admits(s) /\ next \notin {"create", "update", "offered"}
  PROVE  Honest
<1>1. cur \in Items /\ rows \in [Items -> Row] /\ mem \in Row
  BY DEF IInv, ItemOK, DataOK
<1>2. NoNewRetry /\ OwnersStay
  BY SameLeft, SameOwners
<1>3. CASE CanTransition(mem.state, s)
  <2>1. /\ mem' = [mem EXCEPT !.state = s, !.perm = p] /\ pc' = next
        /\ rows' = [rows EXCEPT ![cur] = [mem EXCEPT !.state = s, !.perm = p]]
    BY <1>3 DEF Save
  <2>2. mem'.state = s /\ rows'[cur].state = s
    BY <1>1, <2>1 DEF Row
  <2>. QED BY <1>2, <2>1, <2>2 DEF Honest, Admits
<1>4. CASE ~CanTransition(mem.state, s)
  BY <1>2, <1>4, EndHonest DEF Save
<1>. QED BY <1>3, <1>4

(* The hops of a file that the target does not own. *)
LEMMA AdvanceHonest ==
  ASSUME IInv, Ahead, pc \in ItemPcs, UNCHANGED <<drive, left>>,
         AdvanceToAcceptRequired("accepting"),
         "accept" \notin EnvKinds => drive[cur].owner # "target"
  PROVE  Honest
<1>1. NoNewRetry /\ OwnersStay
  BY SameLeft, SameOwners
<1>2. pc' \notin {"accept", "accepted"}
  BY DEF AdvanceToAcceptRequired, EndRun, LetGo
<1>. QED BY <1>1, <1>2 DEF Honest

(* What the read of the file decides. *)
LEMMA HonestReads ==
  ASSUME IInv, Ahead,
         ReadSkips \/ ReadAlreadyMoved \/ ReadNotOwner \/ ReadAlreadyOffered \/ ReadToOffer
  PROVE  Honest
<1>0. pc \in ItemPcs /\ UNCHANGED <<drive, left>>
  BY DEF ReadSkips, ReadAlreadyMoved, ReadNotOwner, ReadAlreadyOffered, ReadToOffer, Reads,
         Quiet, ItemPcs
<1>1. CASE ReadSkips
  <2>1. PICK s \in {"SKIPPED_TRASHED", "SKIPPED_SHARED_DRIVE"} :
          SaveAndFinish(s) /\ (drive[cur].owner = "target" => s = "SKIPPED_TRASHED")
    BY <1>1 DEF ReadSkips, Remote
  <2>. QED BY <1>0, <2>1, FinishHonest DEF Admits
<1>2. CASE ReadAlreadyMoved
  BY <1>0, <1>2, SaveHonest DEF ReadAlreadyMoved, Admits
<1>3. CASE ReadNotOwner
  BY <1>0, <1>3, FinishHonest DEF ReadNotOwner, Admits, Halts
<1>4. CASE ReadAlreadyOffered
  BY <1>0, <1>4, AdvanceHonest DEF ReadAlreadyOffered, Remote, SourceOwns
<1>5. CASE ReadToOffer
  <2>1. drive[cur].owner # "target"
    BY <1>5 DEF ReadToOffer, Remote, SourceOwns
  <2>2. PICK p \in {TRUE, mem.perm}, next \in {"update", "create"} : Save("PENDING_OWNER_REQUIRED", p, next)
    BY <1>5 DEF ReadToOffer
  <2>. QED BY <1>0, <2>1, <2>2, SaveHonest
<1>. QED BY <1>1, <1>2, <1>3, <1>4, <1>5

(* The offer and the acceptance, with or without an answer. *)
LEMMA HonestMutations ==
  ASSUME IInv, Ahead,
         OfferSucceeds \/ OfferLost \/ OfferRefused \/ AcceptSucceeds \/ AcceptLost \/ AcceptRefused
  PROVE  Honest
<1>0. cur \in Items /\ drive \in [Items -> File] /\ pc \in ItemPcs
      /\ Knows(pc, mem.state, mem.perm)
  BY DEF IInv, ItemOK, DataOK, OfferSucceeds, OfferLost, OfferRefused, AcceptSucceeds,
         AcceptLost, AcceptRefused, Offers, Accepts, ItemPcs
<1>1. OwnersStay
  <2>1. CASE OfferSucceeds \/ OfferLost
    <3>1. drive' = [drive EXCEPT ![cur].perm = "pending"]
      BY <2>1 DEF OfferSucceeds, OfferLost, OfferEffect
    <3>. QED BY <1>0, <3>1 DEF OwnersStay, File
  <2>2. CASE AcceptSucceeds \/ AcceptLost
    <3>1. /\ drive' = [drive EXCEPT ![cur].perm = "owner", ![cur].owner = "target"]
          /\ pc = "accept"
      BY <2>2 DEF AcceptSucceeds, AcceptLost, AcceptEffect, Accepts
    <3>2. \A j \in Items \ {cur} : drive'[j] = drive[j]
      BY <1>0, <3>1
    <3>. QED BY <3>1, <3>2 DEF OwnersStay
  <2>3. CASE OfferRefused \/ AcceptRefused
    BY <2>3, SameOwners DEF OfferRefused, AcceptRefused
  <2>. QED BY <2>1, <2>2, <2>3
<1>2. CASE OfferSucceeds
  <2>1. /\ pc' = "offered" /\ UNCHANGED <<rows, worker, left>> /\ drive[cur].owner = "source"
        /\ drive' = [drive EXCEPT ![cur].perm = "pending"]
    BY <1>2 DEF OfferSucceeds, OfferPossible, OfferEffect, Remote
  <2>2. drive'[cur].owner # "target"
    BY <1>0, <2>1 DEF File
  <2>. QED BY <1>1, <2>1, <2>2, SameLeft DEF Honest
<1>3. CASE AcceptSucceeds
  <2>1. pc = "accept" /\ pc' = "accepted" /\ UNCHANGED <<rows, worker, left>>
    BY <1>3 DEF AcceptSucceeds, Accepts
  <2>2. rows'[cur].state = "ACCEPTING" /\ mem'.state = "ACCEPTING"
    BY <1>0, <2>1 DEF Ahead, AcceptingSaved, Knows
  <2>. QED BY <1>1, <2>1, <2>2, SameLeft DEF Honest, Admits
<1>4. CASE OfferLost \/ AcceptLost \/ OfferRefused \/ AcceptRefused
  <2>1. NoNewRetry
    BY <1>4, SpendOther, SameLeft DEF OfferLost, AcceptLost, OfferRefused, AcceptRefused
  <2>2. PICK kind \in ErrorKinds : Fails(kind)
    BY <1>4 DEF OfferLost, AcceptLost, OfferRefused, AcceptRefused, ErrorKinds
  <2>. QED BY <1>0, <1>1, <2>1, <2>2, FailHonest
<1>. QED BY <1>2, <1>3, <1>4

(* The saves around them. *)
LEMMA HonestSaves ==
  ASSUME IInv, Ahead, SaveOffered \/ SaveAccepting \/ SaveTransferred \/ SaveVerifying
  PROVE  Honest
<1>0. pc \in ItemPcs /\ UNCHANGED <<drive, left>>
  BY DEF SaveOffered, SaveAccepting, SaveTransferred, SaveVerifying, Quiet, ItemPcs
<1>1. CASE SaveOffered
  <2>1. "accept" \notin EnvKinds => drive[cur].owner # "target"
    BY <1>0, <1>1 DEF SaveOffered, Ahead, ItemAdmits
  <2>. QED BY <1>0, <1>1, <2>1, AdvanceHonest DEF SaveOffered
<1>2. CASE SaveAccepting \/ SaveTransferred \/ SaveVerifying
  <2>1. PICK s \in {"ACCEPTING", "TRANSFERRED", "VERIFYING"},
             next \in {"accept", "transferred", "verify"} :
          Save(s, mem.perm, next) /\ (next = "accept" => s = "ACCEPTING")
    BY <1>2 DEF SaveAccepting, SaveTransferred, SaveVerifying
  <2>2. Admits(s) /\ next \notin {"create", "update", "offered", "accepted"}
    BY DEF Admits
  <2>. QED BY <1>0, <2>1, <2>2, SaveHonest
<1>. QED BY <1>1, <1>2

(* The verification. *)
LEMMA HonestVerify ==
  ASSUME IInv, Ahead,
         \/ VerifyInvisible \/ VerifyTrashed \/ VerifyConfirmed \/ VerifyNobody
         \/ VerifyUnconfirmed
  PROVE  Honest
<1>0. pc \in ItemPcs /\ pc = "verify" /\ UNCHANGED <<drive, left>> /\ OwnersStay /\ NoNewRetry
  <2>1. pc = "verify" /\ UNCHANGED <<drive, left>>
    BY DEF VerifyInvisible, VerifyTrashed, VerifyConfirmed, VerifyNobody, VerifyUnconfirmed,
         Verifies, Quiet
  <2>. QED BY <2>1, SameLeft, SameOwners DEF ItemPcs
<1>1. CASE VerifyInvisible
  <2>1. Fails("notfound") /\ "notfound" \in ErrorKinds
    BY <1>1 DEF VerifyInvisible, ErrorKinds
  <2>. QED BY <1>0, <2>1, FailHonest
<1>2. CASE VerifyTrashed \/ VerifyConfirmed \/ VerifyNobody
  <2>1. PICK s \in {"SKIPPED_TRASHED", "VERIFIED", "PERMANENT_FAILED"} :
          SaveAndFinish(s) \/ FinalizeStep(s)
    BY <1>2 DEF VerifyTrashed, VerifyConfirmed, VerifyNobody
  <2>2. Admits(s) /\ s \notin Halts
    BY DEF Admits, Halts
  <2>. QED BY <1>0, <2>1, <2>2, FinishHonest
<1>3. CASE VerifyUnconfirmed
  <2>1. CASE polls < MaxRetry
    <3>1. UNCHANGED <<rows, pc, mem>>
      BY <1>3, <2>1 DEF VerifyUnconfirmed
    <3>2. ASSUME "accept" \notin EnvKinds, drive'[cur].owner = "target"
          PROVE  Admits(rows'[cur].state) /\ Admits(mem'.state)
      BY <1>0, <3>1, <3>2, StillAdmits DEF Admits
    <3>. QED BY <1>0, <3>1, <3>2 DEF Honest
  <2>2. CASE ~(polls < MaxRetry)
    <3>1. FinalizeStep("RETRYABLE_FAILED")
      BY <1>3, <2>2 DEF VerifyUnconfirmed
    <3>. QED BY <1>0, <3>1, FinishHonest DEF Admits, Halts
  <2>. QED BY <2>1, <2>2
<1>. QED BY <1>1, <1>2, <1>3

(* Every step on the item in hand is honest, and so keeps the rows ahead. *)
LEMMA HonestItem ==
  ASSUME IInv, Ahead, ItemWork
  PROVE  Honest
<1>1. pc \in ItemPcs
  BY ItemWrites
<1>2. CASE RemoteFails
  <2>1. drive' = drive /\ Spend("fault")
    BY <1>2 DEF RemoteFails
  <2>2. PICK kind \in ErrorKinds : Fails(kind)
    BY <1>2 DEF RemoteFails
  <2>. QED BY <1>1, <2>1, <2>2, FailHonest, SpendOther, SameOwners
<1>3. CASE RunFails
  <2>1. UNCHANGED <<drive, rows>> /\ Spend("fault") /\ EndRun("fatal")
    BY <1>3 DEF RunFails
  <2>. QED BY <1>1, <2>1, EndHonest, SpendOther
<1>4. CASE ItemStep \/ OfferLost \/ AcceptLost
  BY <1>4, HonestReads, HonestMutations, HonestSaves, HonestVerify DEF ItemStep
<1>. QED BY <1>2, <1>3, <1>4 DEF ItemWork

LEMMA AheadItem ==
  ASSUME IInv, Unsettled, Ahead, ItemWork
  PROVE  Ahead'
BY ItemWrites, HonestItem, HonestAhead

(* A step outside the transfer of an item.                                  *)
LEMMA AheadKept ==
  ASSUME IInv, Ahead, NoNewRetry,
         pc' \in ItemPcs => /\ UNCHANGED <<pc, cur, mem>>
                            /\ rows[cur].state = "ACCEPTING" => rows'[cur].state = "ACCEPTING",
         "accept" \notin EnvKinds =>
           /\ \A i \in Items : drive'[i].owner = "target" =>
                 drive[i].owner = "target" /\ Admits(rows'[i].state)
           /\ DOMAIN copy' \subseteq Items
           /\ \A i \in DOMAIN copy' : drive[i].owner = "target" => Admits(copy'[i].state)
  PROVE  Ahead'
<1>1. left'["retry"] <= Budget["retry"]
  BY BudgetType DEF NoNewRetry, Ahead
<1>2. AcceptingSaved'
  BY DEF Ahead, AcceptingSaved, ItemPcs
<1>3. ASSUME "accept" \notin EnvKinds PROVE RowsAdmit' /\ CopyAdmits' /\ ItemAdmits'
  <2>1. RowsAdmit'
    BY <1>3 DEF RowsAdmit, Admits
  <2>2. CopyAdmits'
    BY <1>3 DEF CopyAdmits, Admits
  <2>3. ASSUME pc' \in ItemPcs, drive'[cur'].owner = "target"
        PROVE  Admits(mem'.state) /\ pc' \notin {"create", "update", "offered"}
    <3>1. UNCHANGED <<pc, cur, mem>> /\ cur \in Items
      BY <2>3 DEF IInv, ItemOK
    <3>. QED BY <1>3, <2>3, <3>1 DEF Ahead, ItemAdmits, Admits
  <2>4. ItemAdmits'
    BY <2>3 DEF ItemAdmits, Admits
  <2>. QED BY <2>1, <2>2, <2>4
<1>. QED BY <1>1, <1>2, <1>3 DEF Ahead

(* The same, where neither the files nor the rows change.                   *)
LEMMA AheadList ==
  ASSUME IInv, Ahead, UNCHANGED <<drive, rows>>, NoNewRetry,
         pc' \in ItemPcs => UNCHANGED <<pc, cur, mem>>,
         \/ copy' = copy \/ DOMAIN copy' = {} \/ copy' = RowsOf(Checkpoints)
         \/ copy' = RowsOf(Active)
  PROVE  Ahead'
<1>1. DOMAIN copy \subseteq Items
  BY DEF IInv, CopyOK
<1>2. ASSUME "accept" \notin EnvKinds
      PROVE  /\ \A i \in Items : drive[i].owner = "target" => Admits(rows[i].state)
             /\ DOMAIN copy' \subseteq Items
             /\ \A i \in DOMAIN copy' : drive[i].owner = "target" => Admits(copy'[i].state)
  BY <1>1, <1>2 DEF Ahead, RowsAdmit, CopyAdmits, RowsOf, Checkpoints, Active
<1>. QED BY <1>2, AheadKept

(* A swept row says CANCELLED, which admits anything. *)
LEMMA SweepAdmits ==
  ASSUME NEW i \in Items, Admits(rows[i].state), rows \in [Items -> Row], SweepUnstarted
  PROVE  Admits(rows'[i].state)
<1>1. rows'[i] = rows[i] \/ rows'[i].state = "CANCELLED"
  BY DEF SweepUnstarted, Row
<1>. QED BY <1>1 DEF Admits

(* The commands of the user: only a retry request, which is limited, takes an admission back. *)
LEMMA AheadUser ==
  ASSUME IInv, Ahead, UserStep \/ CancelJobStep
  PROVE  Ahead'
<1>0. rows \in [Items -> Row] /\ DOMAIN copy \subseteq Items /\ (pc \in ItemPcs => cur \in Items)
  BY DEF IInv, DataOK, CopyOK, ItemOK
<1>1. CASE StartCanaryCommand \/ ContinueMigration \/ ScanAgain \/ ResumeMigration
           \/ PauseMigration \/ CancelJobStep
  <2>1. /\ UNCHANGED <<drive, rows, left>> /\ (copy' = copy \/ copy' = RowsOf(Checkpoints))
        /\ pc' \in {"launch", "idle", "resume"} \/ UNCHANGED <<pc, cur, mem>>
    BY <1>1 DEF StartCanaryCommand, ContinueMigration, ScanAgain, ResumeMigration, BeginResume,
         PauseMigration, CancelJobStep, Idle, Launch
  <2>. QED BY <2>1, SameLeft, AheadList DEF ItemPcs
<1>2. CASE CancelMigration
  <2>1. /\ UNCHANGED <<drive, copy, left>>
        /\ \/ UNCHANGED <<rows, pc, cur, mem>>
           \/ pc' = "cancelling" /\ SweepUnstarted
    BY <1>2 DEF CancelMigration
  <2>2. ASSUME "accept" \notin EnvKinds
        PROVE  /\ \A i \in Items : drive[i].owner = "target" => Admits(rows'[i].state)
               /\ \A i \in DOMAIN copy' : drive[i].owner = "target" => Admits(copy'[i].state)
    BY <1>0, <2>1, <2>2, SweepAdmits DEF Ahead, RowsAdmit, CopyAdmits
  <2>. QED BY <1>0, <2>1, <2>2, SameLeft, AheadKept DEF ItemPcs
<1>3. CASE RetryFailedItems
  <2>1. Spend("retry") /\ drive' = drive /\ left["retry"] \in Nat
    BY <1>3, BudgetType DEF RetryFailedItems
  <2>2. left["retry"] > 0 /\ left'["retry"] = left["retry"] - 1
    BY <2>1 DEF Spend, IInv, ControlOK
  <2>3. NoNewRetry /\ Budget["retry"] > 0
    BY <2>1, <2>2, BudgetType DEF NoNewRetry, Ahead
  <2>4. \A i \in Items : \/ rows'[i] = rows[i]
                         \/ /\ rows[i].state = "RETRYABLE_FAILED"
                            /\ rows'[i].state = "PENDING_OWNER_REQUIRED"
    BY <1>0, <1>3 DEF RetryFailedItems, Row
  <2>5. ASSUME "accept" \notin EnvKinds
        PROVE  \A i \in Items : drive[i].owner = "target" =>
                  Admits(rows[i].state) /\ Admits(rows'[i].state)
    BY <2>3, <2>4, <2>5 DEF Ahead, RowsAdmit, Admits
  <2>6. /\ copy' = copy \/ copy' = RowsOf(Checkpoints)
        /\ pc' = "resume" \/ UNCHANGED <<pc, cur, mem>>
    BY <1>3 DEF RetryFailedItems, BeginResume
  <2>7. ASSUME "accept" \notin EnvKinds
        PROVE  \A i \in DOMAIN copy' : i \in Items /\ (drive[i].owner = "target" => Admits(copy'[i].state))
    BY <1>0, <2>5, <2>6, <2>7 DEF Ahead, CopyAdmits, RowsOf, Checkpoints
  <2>8. pc' \in ItemPcs => /\ UNCHANGED <<pc, cur, mem>>
                           /\ rows[cur].state = "ACCEPTING" => rows'[cur].state = "ACCEPTING"
    BY <1>0, <2>4, <2>6 DEF ItemPcs
  <2>. QED BY <2>1, <2>3, <2>5, <2>7, <2>8, AheadKept
<1>. QED BY <1>1, <1>2, <1>3 DEF UserStep

(* The batch: what is marked, taken or swept was loaded from rows. *)
LEMMA AheadBatch ==
  ASSUME IInv, Ahead, BatchStep
  PROVE  Ahead'
<1>0. rows \in [Items -> Row] /\ DOMAIN copy \subseteq Items
  BY DEF IInv, DataOK, CopyOK
<1>1. CASE \/ RunAutoMutationIfReady \/ ClearFlags \/ LoadBulk \/ CanaryMarked \/ StopRequested
           \/ BulkExhausted \/ CanaryExhausted \/ CanaryContinues \/ PersistOutcome
  <2>1. /\ UNCHANGED <<drive, rows, left>> /\ pc' \notin ItemPcs
        /\ copy' = copy \/ copy' = RowsOf(Active) \/ DOMAIN copy' = {}
    BY <1>1 DEF RunAutoMutationIfReady, ClearFlags, LoadBulk, CanaryMarked, StopRequested,
         BulkExhausted, CanaryExhausted, CanaryContinues, PersistOutcome, Launch, EndRun, LetGo,
         NoRows, Quiet, ItemPcs
  <2>. QED BY <2>1, SameLeft, AheadList
<1>2. CASE LoadCanary
  <2>1. UNCHANGED <<drive, rows, left>> /\ pc' = "mark" /\ copy' = CanaryBatch
    BY <1>2 DEF LoadCanary, Quiet
  <2>2. \A i \in DOMAIN CanaryBatch : /\ i \in Items
                                      /\ \/ CanaryBatch[i].state = rows[i].state
                                         \/ rows[i].state = "ELIGIBLE"
    BY <1>0 DEF CanaryBatch, RowsOf, Cohort, Active, FirstOf, Row
  <2>3. ASSUME "accept" \notin EnvKinds
        PROVE  /\ \A i \in Items : drive[i].owner = "target" => Admits(rows'[i].state)
               /\ \A i \in DOMAIN copy' :
                     i \in Items /\ (drive[i].owner = "target" => Admits(copy'[i].state))
    <3>1. RowsAdmit /\ ~Admits("ELIGIBLE")
      BY <2>3 DEF Ahead, Admits
    <3>2. \A i \in Items : drive[i].owner = "target" =>
             Admits(rows[i].state) /\ rows[i].state # "ELIGIBLE"
      BY <3>1 DEF RowsAdmit
    <3>. QED BY <2>1, <2>2, <3>2
  <2>. QED BY <2>1, <2>3, SameLeft, AheadKept DEF ItemPcs
<1>3. CASE SweepCancelled
  <2>1. UNCHANGED <<drive, left, copy>> /\ pc' = "persist" /\ SweepUnstarted
    BY <1>3 DEF SweepCancelled, Quiet
  <2>2. ASSUME "accept" \notin EnvKinds
        PROVE  /\ \A i \in Items : drive[i].owner = "target" => Admits(rows'[i].state)
               /\ \A i \in DOMAIN copy' : drive[i].owner = "target" => Admits(copy'[i].state)
    BY <1>0, <2>1, <2>2, SweepAdmits DEF Ahead, RowsAdmit, CopyAdmits
  <2>. QED BY <1>0, <2>1, <2>2, SameLeft, AheadKept DEF ItemPcs
<1>4. ASSUME NEW i \in Items, MarkCanary(i) PROVE Ahead'
  <2>1. /\ i \in DOMAIN copy /\ rows' = [rows EXCEPT ![i] = copy[i]]
        /\ pc' = "mark" /\ UNCHANGED <<drive, left, copy>>
    BY <1>4 DEF MarkCanary, IsFirst, Unmarked, Quiet
  <2>2. ASSUME "accept" \notin EnvKinds
        PROVE  /\ \A j \in Items : drive[j].owner = "target" => Admits(rows'[j].state)
               /\ \A j \in DOMAIN copy' : drive[j].owner = "target" => Admits(copy'[j].state)
    BY <1>0, <2>1, <2>2 DEF Ahead, RowsAdmit, CopyAdmits
  <2>. QED BY <1>0, <2>1, <2>2, SameLeft, AheadKept DEF ItemPcs
<1>5. ASSUME NEW i \in Items, TakeTransferred(i) \/ TakeUnstarted(i) \/ (TakeOffered(i) /\ rows' = rows)
      PROVE  Ahead'
  <2>1. /\ i \in DOMAIN copy /\ copy' = Without(copy, i) /\ UNCHANGED <<drive, rows, left>>
        /\ \/ pc' \in {"read", "transferred", "accepting"} /\ cur' = i /\ mem' = copy[i]
           \/ pc' = "next"
    BY <1>5 DEF TakeTransferred, TakeUnstarted, Take, TakeOffered, IsFirst, Quiet
  <2>2. left'["retry"] <= Budget["retry"] /\ AcceptingSaved'
    BY <2>1 DEF Ahead, AcceptingSaved
  <2>3. ASSUME "accept" \notin EnvKinds PROVE RowsAdmit' /\ CopyAdmits' /\ ItemAdmits'
    <3>1. RowsAdmit /\ CopyAdmits
      BY <2>3 DEF Ahead
    <3>2. RowsAdmit' /\ CopyAdmits'
      BY <2>1, <3>1 DEF RowsAdmit, CopyAdmits, Without, Admits
    <3>3. ItemAdmits'
      BY <2>1, <3>1 DEF CopyAdmits, ItemAdmits, ItemPcs, Admits
    <3>. QED BY <3>2, <3>3
  <2>. QED BY <2>2, <2>3 DEF Ahead
<1>6. ASSUME NEW i \in Items, TakeOffered(i), rows' # rows PROVE Ahead'
  <2>1. /\ copy' = Without(copy, i) /\ UNCHANGED <<drive, left>> /\ pc' = "next"
        /\ rows' = [rows EXCEPT ![i] = [copy[i] EXCEPT !.state = "PERMANENT_FAILED"]]
        /\ i \in DOMAIN copy
    BY <1>6 DEF TakeOffered, IsFirst, Quiet
  <2>2. copy[i] \in Row
    BY <2>1 DEF IInv, CopyOK
  <2>3. rows'[i].state = "PERMANENT_FAILED" /\ \A j \in Items \ {i} : rows'[j] = rows[j]
    BY <1>0, <2>1, <2>2 DEF Row
  <2>4. ASSUME "accept" \notin EnvKinds
        PROVE  /\ \A j \in Items : drive[j].owner = "target" => Admits(rows'[j].state)
               /\ \A j \in DOMAIN copy' :
                     j \in Items /\ (drive[j].owner = "target" => Admits(copy'[j].state))
    <3>1. RowsAdmit /\ CopyAdmits /\ Admits("PERMANENT_FAILED")
      BY <2>4 DEF Ahead, Admits
    <3>. QED BY <1>0, <2>1, <2>3, <3>1 DEF RowsAdmit, CopyAdmits, Without
  <2>. QED BY <2>1, <2>4, SameLeft, AheadKept DEF ItemPcs
<1>. QED BY <1>1, <1>2, <1>3, <1>4, <1>5, <1>6 DEF BatchStep

(* Reconciliation, faults, restarts and the world outside. *)
LEMMA AheadRest ==
  ASSUME IInv, Ahead, Rest
  PROVE  Ahead'
<1>0. rows \in [Items -> Row] /\ drive \in [Items -> File] /\ DOMAIN copy \subseteq Items
  BY DEF IInv, DataOK, CopyOK
<1>1. ASSUME NEW i \in Items, ReconcileItem(i) PROVE Ahead'
  <2>1. /\ i \in DOMAIN copy /\ copy' = Without(copy, i) /\ pc' \notin ItemPcs
        /\ UNCHANGED <<drive, left>>
        /\ \/ rows' = [rows EXCEPT ![i] = Reconciled(copy[i], drive[i])]
           \/ rows' = [rows EXCEPT ![i] = [copy[i] EXCEPT !.state = "PERMANENT_FAILED"]]
    BY <1>1 DEF ReconcileItem, IsFirst, Reading, Quiet, ItemPcs
  <2>2. copy[i] \in Row
    BY <2>1 DEF IInv, CopyOK
  <2>3. drive[i].owner = "target" =>
           Reconciled(copy[i], drive[i]).state \in {copy[i].state, "SKIPPED_TRASHED", "VERIFYING"}
    BY <2>2 DEF Reconciled, TargetOwns, Row
  <2>4. /\ \A j \in Items \ {i} : rows'[j] = rows[j]
        /\ drive[i].owner = "target" =>
              rows'[i].state \in {copy[i].state, "SKIPPED_TRASHED", "VERIFYING", "PERMANENT_FAILED"}
    BY <1>0, <2>1, <2>2, <2>3 DEF Row
  <2>5. ASSUME "accept" \notin EnvKinds
        PROVE  /\ \A j \in Items : drive[j].owner = "target" => Admits(rows'[j].state)
               /\ \A j \in DOMAIN copy' :
                     j \in Items /\ (drive[j].owner = "target" => Admits(copy'[j].state))
    <3>1. /\ RowsAdmit /\ CopyAdmits
          /\ \A s \in {"SKIPPED_TRASHED", "VERIFYING", "PERMANENT_FAILED"} : Admits(s)
      BY <2>5 DEF Ahead, Admits
    <3>2. drive[i].owner = "target" => Admits(rows'[i].state)
      BY <2>1, <2>4, <3>1 DEF CopyAdmits
    <3>. QED BY <1>0, <2>1, <2>4, <3>1, <3>2 DEF RowsAdmit, CopyAdmits, Without
  <2>. QED BY <2>1, <2>5, SameLeft, AheadKept
<1>2. CASE ResumeReconciled \/ StartupReconciled \/ Startup
  <2>1. /\ UNCHANGED <<drive, rows, left>> /\ pc' \in {"launch", "idle", "startup"}
        /\ copy' = copy \/ copy' = RowsOf(Checkpoints)
    BY <1>2 DEF ResumeReconciled, StartupReconciled, Startup, Launch, Quiet
  <2>. QED BY <2>1, SameLeft, AheadList DEF ItemPcs
<1>3. CASE CanaryUnsettled \/ RunFails \/ ReconcileError \/ ReconcileUnauthorized \/ Crash
           \/ StartupWithoutTokens
  <2>1. /\ UNCHANGED <<drive, rows>> /\ pc' \notin ItemPcs
        /\ copy' = copy \/ DOMAIN copy' = {}
        /\ Spend("fault") \/ Spend("crash")
    BY <1>3 DEF CanaryUnsettled, RunFails, ReconcileError, ReconcileUnauthorized, Crash,
         StartupWithoutTokens, EndRun, LetGo, NoRows, ItemPcs
  <2>. QED BY <2>1, SpendOther, AheadList
<1>4. CASE World
  <2>1. PICK i \in Items : Touched(i)
    BY <1>4 DEF World
  <2>2. PICK kind \in EnvKinds, f \in File : Outside(i, kind, f) /\ (f.owner = "target" =>
             drive[i].owner = "target" \/ kind = "accept")
    BY <1>0, <2>1 DEF Touched, Outside, File
  <2>3. Spend("env") /\ UNCHANGED <<rows, pc, worker>> /\ drive' = [drive EXCEPT ![i] = f]
    BY <2>2 DEF Outside
  <2>4. ASSUME "accept" \notin EnvKinds
        PROVE  /\ \A j \in Items : drive'[j].owner = "target" =>
                     drive[j].owner = "target" /\ Admits(rows'[j].state)
               /\ \A j \in DOMAIN copy' : drive[j].owner = "target" => Admits(copy'[j].state)
    <3>1. \A j \in Items : drive'[j].owner = "target" => drive[j].owner = "target"
      BY <1>0, <2>2, <2>3, <2>4
    <3>. QED BY <2>3, <2>4, <3>1 DEF Ahead, RowsAdmit, CopyAdmits
  <2>. QED BY <1>0, <2>3, <2>4, SpendOther, AheadKept
<1>. QED BY <1>1, <1>2, <1>3, <1>4 DEF Rest, ReconcileStep

(* Every step keeps the rows ahead of the target. *)
LEMMA AheadNext ==
  ASSUME IInv, Unsettled, Ahead, [Next]_vars
  PROVE  Ahead'
<1>1. CASE UNCHANGED vars
  BY <1>1 DEF vars, Ahead, AcceptingSaved, RowsAdmit, CopyAdmits, ItemAdmits, Admits
<1>2. CASE Next
  BY <1>2, StepKinds, AheadItem, AheadUser, AheadBatch, AheadRest
<1>. QED BY <1>1, <1>2

(* At first the source owns everything. *)
LEMMA AheadInit ==
  ASSUME Init PROVE Ahead
<1>1. \A i \in Items : drive[i].owner = "source"
  BY DEF Init
<1>2. DOMAIN copy = {} /\ pc \in {"idle", "scanned"} /\ left = Budget
  BY DEF Init, NoRows
<1>. QED BY <1>1, <1>2, BudgetType
     DEF Ahead, AcceptingSaved, RowsAdmit, CopyAdmits, ItemAdmits, ItemPcs

(* A copy in memory, of the list or of the item in hand, says of an         *)
(* acceptance what the row says; and the target sees what it owns.          *)
Fresh ==
  /\ \A i \in DOMAIN copy : copy[i].state \in Recorded <=> rows[i].state \in Recorded
  /\ pc \in ItemPcs => (mem.state \in Recorded <=> rows[cur].state \in Recorded)
  /\ \A i \in Items : drive[i].owner = "target" => drive[i].perm = "owner"

(* What a step on the item in hand does to its row.                         *)
GaveUp == {"RETRYABLE_FAILED", "PERMANENT_FAILED", "SKIPPED_TRASHED"}
InHandWrite ==
  \/ rows'[cur] = rows[cur]
  \/ pc \in {"read", "create", "update", "offered"}
  \/ rows'[cur].state \in Recorded
  \/ pc \in {"accept", "verify"} /\ (rows'[cur] = mem \/ rows'[cur].state \in GaveUp)
InHandCopy ==
  pc' \in ItemPcs => /\ cur' = cur
                     /\ \/ rows'[cur] = rows[cur] /\ mem' = mem
                        \/ rows'[cur].state = mem'.state

(* A save on the way writes what it keeps. *)
LEMMA SaveInHand ==
  ASSUME IInv, pc \in ItemPcs, NEW s, NEW p, NEW next, Save(s, p, next),
         s \in Recorded \/ pc = "read"
  PROVE  InHandWrite /\ InHandCopy
<1>1. cur \in Items /\ rows \in [Items -> Row] /\ mem \in Row
  BY DEF IInv, ItemOK, DataOK
<1>2. CASE CanTransition(mem.state, s)
  <2>1. /\ mem' = [mem EXCEPT !.state = s, !.perm = p] /\ cur' = cur
        /\ rows' = [rows EXCEPT ![cur] = [mem EXCEPT !.state = s, !.perm = p]]
    BY <1>2 DEF Save
  <2>2. mem'.state = s /\ rows'[cur].state = s
    BY <1>1, <2>1 DEF Row
  <2>. QED BY <2>1, <2>2 DEF InHandWrite, InHandCopy
<1>3. CASE ~CanTransition(mem.state, s)
  <2>1. rows' = rows /\ pc' \notin ItemPcs
    BY <1>3 DEF Save, EndRun, LetGo, ItemPcs
  <2>. QED BY <2>1 DEF InHandWrite, InHandCopy
<1>. QED BY <1>2, <1>3

(* A failing call writes nothing, or gives the item up or back. *)
LEMMA FailInHand ==
  ASSUME IInv, NEW kind \in ErrorKinds, Fails(kind),
         pc \in {"read", "create", "update", "accept", "verify"}, cur' = cur \/ pc' \notin ItemPcs
  PROVE  InHandWrite /\ InHandCopy
<1>1. pc \in ItemPcs
  BY DEF ItemPcs
<1>. QED BY <1>1, FailWrites DEF InHandWrite, InHandCopy, GaveUp

(* A failing call that goes around keeps the item. *)
LEMMA FailKeepsItem ==
  ASSUME IInv, pc \in ItemPcs, NEW kind \in ErrorKinds, Fails(kind)
  PROVE  cur' = cur \/ pc' \notin ItemPcs
<1>1. CASE Classify(kind) = "RETRYABLE_FAILED" /\ tries < MaxRetry
  BY <1>1 DEF Fails
<1>2. CASE ~(Classify(kind) = "RETRYABLE_FAILED" /\ tries < MaxRetry)
  BY <1>2, FinalizeWrites DEF Fails
<1>. QED BY <1>1, <1>2

(* Every step on the item in hand is of this kind. *)
LEMMA ItemInHand ==
  ASSUME IInv, ItemWork
  PROVE  InHandWrite /\ InHandCopy
<1>0. pc \in ItemPcs
  BY ItemWrites
<1>1. CASE ReadSkips \/ ReadNotOwner
  <2>1. pc = "read" /\ pc' \notin ItemPcs
    BY <1>0, <1>1, FinishWrites, FinalizeWrites DEF ReadSkips, ReadNotOwner, Reads
  <2>. QED BY <2>1 DEF InHandWrite, InHandCopy
<1>2. CASE ReadAlreadyMoved \/ ReadToOffer
  <2>1. pc = "read"
    BY <1>2 DEF ReadAlreadyMoved, ReadToOffer, Reads
  <2>2. PICK s, p, next : Save(s, p, next)
    BY <1>2 DEF ReadAlreadyMoved, ReadToOffer
  <2>. QED BY <1>0, <2>1, <2>2, SaveInHand
<1>3. CASE ReadAlreadyOffered \/ SaveOffered
  <2>1. pc \in {"read", "offered"} /\ AdvanceToAcceptRequired("accepting")
    BY <1>3 DEF ReadAlreadyOffered, SaveOffered, Reads
  <2>2. cur \in Items /\ rows \in [Items -> Row] /\ mem \in Row
    BY <1>0 DEF IInv, ItemOK, DataOK
  <2>3. CASE CanAdvance(mem.state)
    <3>1. /\ rows' = [rows EXCEPT ![cur] = mem'] /\ cur' = cur
      BY <2>1, <2>3 DEF AdvanceToAcceptRequired
    <3>. QED BY <2>1, <2>2, <3>1 DEF InHandWrite, InHandCopy
  <2>4. CASE ~CanAdvance(mem.state)
    <3>1. pc' \notin ItemPcs
      BY <2>1, <2>4 DEF AdvanceToAcceptRequired, EndRun, LetGo, ItemPcs
    <3>. QED BY <2>1, <3>1 DEF InHandWrite, InHandCopy
  <2>. QED BY <2>3, <2>4
<1>4. CASE OfferSucceeds \/ AcceptSucceeds
  BY <1>4 DEF OfferSucceeds, AcceptSucceeds, InHandWrite, InHandCopy
<1>5. CASE OfferLost \/ AcceptLost \/ OfferRefused \/ AcceptRefused \/ RemoteFails \/ VerifyInvisible
  <2>1. pc \in {"read", "create", "update", "accept", "verify"}
    BY <1>5 DEF OfferLost, AcceptLost, OfferRefused, AcceptRefused, RemoteFails,
                VerifyInvisible, Offers, Accepts, Verifies
  <2>2. PICK kind \in ErrorKinds : Fails(kind)
    BY <1>5 DEF OfferLost, AcceptLost, OfferRefused, AcceptRefused, RemoteFails,
                VerifyInvisible, ErrorKinds
  <2>. QED BY <1>0, <2>1, <2>2, FailInHand, FailKeepsItem
<1>6. CASE SaveAccepting \/ SaveTransferred \/ SaveVerifying
  <2>1. PICK s \in {"ACCEPTING", "TRANSFERRED", "VERIFYING"},
             next \in {"accept", "transferred", "verify"} : Save(s, mem.perm, next)
    BY <1>6 DEF SaveAccepting, SaveTransferred, SaveVerifying
  <2>2. s \in Recorded
    BY DEF Recorded
  <2>. QED BY <1>0, <2>1, <2>2, SaveInHand
<1>7. CASE VerifyTrashed \/ VerifyConfirmed \/ VerifyNobody
  <2>1. pc = "verify" /\ UNCHANGED drive
    BY <1>7 DEF VerifyTrashed, VerifyConfirmed, VerifyNobody, Verifies, Quiet
  <2>2. PICK s \in GaveUp \cup {"VERIFIED"} : SaveAndFinish(s) \/ FinalizeStep(s)
    BY <1>7 DEF VerifyTrashed, VerifyConfirmed, VerifyNobody, GaveUp
  <2>3. SaveAndFinish(s)
    BY <2>2 DEF FinalizeStep, Halts, GaveUp
  <2>. QED BY <1>0, <2>1, <2>3, FinishWrites DEF InHandWrite, InHandCopy, Recorded
<1>8. CASE VerifyUnconfirmed
  <2>1. CASE polls < MaxRetry
    BY <1>8, <2>1 DEF VerifyUnconfirmed, InHandWrite, InHandCopy
  <2>2. CASE ~(polls < MaxRetry)
    <3>1. pc = "verify" /\ FinalizeStep("RETRYABLE_FAILED") /\ "RETRYABLE_FAILED" \notin Halts
      BY <1>8, <2>2 DEF VerifyUnconfirmed, Verifies, Halts
    <3>. QED BY <1>0, <3>1, FinalizeWrites DEF InHandWrite, InHandCopy, GaveUp
  <2>. QED BY <2>1, <2>2
<1>9. CASE (RunFails /\ pc \in ItemPcs)
  BY <1>9 DEF RunFails, EndRun, LetGo, InHandWrite, InHandCopy, ItemPcs
<1>. QED BY <1>1, <1>2, <1>3, <1>4, <1>5, <1>6, <1>7, <1>8, <1>9 DEF ItemWork, ItemStep

(* A remote mutation leaves the target able to see what it owns. *)
LEMMA TargetSees ==
  ASSUME IInv, Fresh, ItemWork
  PROVE  \A i \in Items : drive'[i].owner = "target" => drive'[i].perm = "owner"
<1>0. drive \in [Items -> File] /\ \A i \in Items : drive[i].owner = "target" => drive[i].perm = "owner"
  BY DEF IInv, DataOK, Fresh
<1>1. CASE OfferSucceeds \/ OfferLost
  <2>1. drive[cur].owner = "source" /\ drive' = [drive EXCEPT ![cur].perm = "pending"]
    BY <1>1 DEF OfferSucceeds, OfferLost, OfferPossible, OfferEffect, Remote
  <2>. QED BY <1>0, <2>1 DEF File
<1>2. CASE AcceptSucceeds \/ AcceptLost
  <2>1. drive' = [drive EXCEPT ![cur].perm = "owner", ![cur].owner = "target"]
    BY <1>2 DEF AcceptSucceeds, AcceptLost, AcceptEffect
  <2>. QED BY <1>0, <2>1 DEF File
<1>3. CASE ~(OfferSucceeds \/ OfferLost \/ AcceptSucceeds \/ AcceptLost)
  <2>1. drive' = drive
    BY <1>3 DEF ItemWork, ItemStep, ReadSkips, ReadAlreadyMoved, ReadNotOwner, ReadAlreadyOffered,
         ReadToOffer, Reads, OfferRefused, AcceptRefused, SaveOffered, SaveAccepting,
         SaveTransferred, SaveVerifying, VerifyInvisible, VerifyTrashed, VerifyConfirmed,
         VerifyNobody, VerifyUnconfirmed, Verifies, RemoteFails, RunFails, Quiet
  <2>. QED BY <1>0, <2>1
<1>. QED BY <1>1, <1>2, <1>3

(* The transfer of an item keeps the record. *)
LEMMA RecordItem ==
  ASSUME IInv, Unsettled, Ahead, Fresh, ItemWork
  PROVE  Fresh' /\ ("accept" \notin EnvKinds => RecordKept)
<1>1. /\ pc \in ItemPcs /\ WriteBack /\ OwnersStay /\ InHandWrite /\ InHandCopy
      /\ cur \in Items /\ cur \notin DOMAIN copy /\ DOMAIN copy \subseteq Items
  BY ItemWrites, HonestItem, ItemInHand DEF IInv, ItemOK, CopyOK, Unsettled, Honest
<1>2. Knows(pc, mem.state, mem.perm) /\ AcceptingSaved
  BY DEF IInv, ItemOK, Ahead
<1>3. \A i \in DOMAIN copy : rows'[i] = rows[i]
  BY <1>1 DEF WriteBack
<1>4. \A i \in DOMAIN copy' : copy'[i].state \in Recorded <=> rows'[i].state \in Recorded
  BY <1>1, <1>3 DEF WriteBack, Fresh
<1>5. pc' \in ItemPcs => (mem'.state \in Recorded <=> rows'[cur'].state \in Recorded)
  BY <1>1 DEF InHandCopy, Fresh
<1>6. Fresh'
  BY <1>4, <1>5, TargetSees DEF Fresh, Recorded
<1>7. ASSUME "accept" \notin EnvKinds, NEW i \in Items, drive'[i].owner = "target",
             drive[i].owner = "target" => rows[i].state \in Recorded
      PROVE  rows'[i].state \in Recorded \/ GivenUp(i)
  <2>1. CASE i # cur
    BY <1>1, <1>7, <2>1 DEF WriteBack, OwnersStay
  <2>2. CASE i = cur
    <3>1. rows[cur].state \in Recorded
      BY <1>1, <1>2, <1>7, <2>2 DEF OwnersStay, AcceptingSaved, Recorded
    <3>2. mem.state \in Recorded
      BY <1>1, <3>1 DEF Fresh
    <3>3. pc # "read"
      BY <1>2, <3>2 DEF Knows, Recorded
    <3>4. pc \notin {"create", "update", "offered"}
      BY <1>1, <1>7, <2>2, StillAdmits
    <3>. QED BY <1>1, <2>2, <3>1, <3>2, <3>3, <3>4 DEF InHandWrite, GivenUp, GaveUp
  <2>. QED BY <2>1, <2>2
<1>8. "accept" \notin EnvKinds => RecordKept
  BY <1>7 DEF RecordKept
<1>. QED BY <1>6, <1>8

(* A step elsewhere takes nothing from a row, nor adds to it.               *)
LEMMA RecordElsewhere ==
  ASSUME IInv, Fresh,
         \A i \in Items : rows'[i].state \in Recorded <=> rows[i].state \in Recorded,
         \A i \in DOMAIN copy' : i \in Items /\ (copy'[i].state \in Recorded <=> rows[i].state \in Recorded),
         pc' \in ItemPcs => \/ UNCHANGED <<pc, cur, mem>>
                            \/ cur' \in Items /\ (mem'.state \in Recorded <=> rows[cur'].state \in Recorded),
         \A i \in Items : drive'[i].owner = "target" =>
            drive'[i].perm = "owner" /\ (drive[i].owner = "target" \/ "accept" \in EnvKinds)
  PROVE  Fresh' /\ ("accept" \notin EnvKinds => RecordKept)
<1>1. pc \in ItemPcs => cur \in Items
  BY DEF IInv, ItemOK
<1>2. \A i \in DOMAIN copy' : copy'[i].state \in Recorded <=> rows'[i].state \in Recorded
  OBVIOUS
<1>3. pc' \in ItemPcs => (mem'.state \in Recorded <=> rows'[cur'].state \in Recorded)
  BY <1>1 DEF Fresh
<1>4. Fresh'
  BY <1>2, <1>3 DEF Fresh, Recorded
<1>5. "accept" \notin EnvKinds => RecordKept
  BY DEF RecordKept
<1>. QED BY <1>4, <1>5

(* The same, where neither the files nor the rows change.                   *)
LEMMA RecordList ==
  ASSUME IInv, Fresh, UNCHANGED <<drive, rows>>,
         pc' \in ItemPcs => UNCHANGED <<pc, cur, mem>>,
         \/ copy' = copy \/ DOMAIN copy' = {} \/ copy' = RowsOf(Checkpoints)
         \/ copy' = RowsOf(Active)
  PROVE  Fresh' /\ ("accept" \notin EnvKinds => RecordKept)
<1>1. \A i \in DOMAIN copy' : i \in Items /\ (copy'[i].state \in Recorded <=> rows[i].state \in Recorded)
  BY DEF IInv, CopyOK, Fresh, RowsOf, Checkpoints, Active
<1>2. \A i \in Items : drive[i].owner = "target" => drive[i].perm = "owner"
  BY DEF Fresh
<1>. QED BY <1>1, <1>2, RecordElsewhere

(* A sweep touches no row that records an acceptance. *)
LEMMA SweepRecord ==
  ASSUME NEW i \in Items, rows \in [Items -> Row], SweepUnstarted
  PROVE  rows'[i].state \in Recorded <=> rows[i].state \in Recorded
BY DEF SweepUnstarted, UnstartedForCancel, Recorded, Row

(* The same, where the files stay and the list and the item in hand do, too. *)
LEMMA RecordRows ==
  ASSUME IInv, Fresh, UNCHANGED <<drive, copy>>,
         pc' \in ItemPcs => UNCHANGED <<pc, cur, mem>>,
         \A i \in Items : rows'[i].state \in Recorded <=> rows[i].state \in Recorded
  PROVE  Fresh' /\ ("accept" \notin EnvKinds => RecordKept)
<1>1. \A i \in DOMAIN copy' : i \in Items /\ (copy'[i].state \in Recorded <=> rows[i].state \in Recorded)
  BY DEF IInv, CopyOK, Fresh
<1>2. \A i \in Items : drive[i].owner = "target" => drive[i].perm = "owner"
  BY DEF Fresh
<1>. QED BY <1>1, <1>2, RecordElsewhere

(* The commands of the user. *)
LEMMA RecordUser ==
  ASSUME IInv, Fresh, UserStep \/ CancelJobStep
  PROVE  Fresh' /\ ("accept" \notin EnvKinds => RecordKept)
<1>0. rows \in [Items -> Row]
  BY DEF IInv, DataOK
<1>1. CASE StartCanaryCommand \/ ContinueMigration \/ ScanAgain \/ ResumeMigration
           \/ PauseMigration \/ CancelJobStep
  <2>1. /\ UNCHANGED <<drive, rows>> /\ (copy' = copy \/ copy' = RowsOf(Checkpoints))
        /\ pc' \in {"launch", "idle", "resume"} \/ UNCHANGED <<pc, cur, mem>>
    BY <1>1 DEF StartCanaryCommand, ContinueMigration, ScanAgain, ResumeMigration, BeginResume,
         PauseMigration, CancelJobStep, Idle, Launch
  <2>. QED BY <2>1, RecordList DEF ItemPcs
<1>2. CASE CancelMigration
  <2>1. /\ UNCHANGED <<drive, copy>>
        /\ \/ UNCHANGED <<rows, pc, cur, mem>>
           \/ pc' = "cancelling" /\ SweepUnstarted
    BY <1>2 DEF CancelMigration
  <2>2. \A i \in Items : rows'[i].state \in Recorded <=> rows[i].state \in Recorded
    BY <1>0, <2>1, SweepRecord
  <2>. QED BY <2>1, <2>2, RecordRows DEF ItemPcs
<1>3. CASE RetryFailedItems
  <2>1. \A i \in Items : rows'[i].state \in Recorded <=> rows[i].state \in Recorded
    BY <1>0, <1>3 DEF RetryFailedItems, Row, Recorded
  <2>2. /\ drive' = drive /\ (copy' = copy \/ copy' = RowsOf(Checkpoints))
        /\ pc' = "resume" \/ UNCHANGED <<pc, cur, mem>>
    BY <1>3 DEF RetryFailedItems, BeginResume
  <2>3. \A i \in DOMAIN copy' : i \in Items /\ (copy'[i].state \in Recorded <=> rows[i].state \in Recorded)
    BY <2>2 DEF IInv, CopyOK, Fresh, RowsOf, Checkpoints
  <2>4. \A i \in Items : drive[i].owner = "target" => drive[i].perm = "owner"
    BY DEF Fresh
  <2>. QED BY <2>1, <2>2, <2>3, <2>4, RecordElsewhere DEF ItemPcs
<1>. QED BY <1>1, <1>2, <1>3 DEF UserStep

(* The batch: what is marked or taken was loaded from rows. *)
LEMMA RecordBatch ==
  ASSUME IInv, Fresh, BatchStep
  PROVE  Fresh' /\ ("accept" \notin EnvKinds => RecordKept)
<1>0. /\ rows \in [Items -> Row] /\ DOMAIN copy \subseteq Items
      /\ \A i \in Items : drive[i].owner = "target" => drive[i].perm = "owner"
      /\ \A i \in DOMAIN copy : copy[i].state \in Recorded <=> rows[i].state \in Recorded
  BY DEF IInv, DataOK, CopyOK, Fresh
<1>1. CASE \/ RunAutoMutationIfReady \/ ClearFlags \/ LoadBulk \/ CanaryMarked \/ StopRequested
           \/ BulkExhausted \/ CanaryExhausted \/ CanaryContinues \/ PersistOutcome
  <2>1. /\ UNCHANGED <<drive, rows>> /\ pc' \notin ItemPcs
        /\ copy' = copy \/ copy' = RowsOf(Active) \/ DOMAIN copy' = {}
    BY <1>1 DEF RunAutoMutationIfReady, ClearFlags, LoadBulk, CanaryMarked, StopRequested,
         BulkExhausted, CanaryExhausted, CanaryContinues, PersistOutcome, Launch, EndRun, LetGo,
         NoRows, Quiet, ItemPcs
  <2>. QED BY <2>1, RecordList
<1>2. CASE LoadCanary
  <2>1. UNCHANGED <<drive, rows>> /\ pc' = "mark" /\ copy' = CanaryBatch
    BY <1>2 DEF LoadCanary, Quiet
  <2>2. \A i \in DOMAIN CanaryBatch :
           i \in Items /\ (CanaryBatch[i].state \in Recorded <=> rows[i].state \in Recorded)
    <3>1. FirstOf(Active) \subseteq Active /\ Active \subseteq Items /\ Cohort \subseteq Items
      BY DEF FirstOf, Active, Cohort
    <3>2. ASSUME NEW i \in Items
          PROVE  [rows[i] EXCEPT !.canary = TRUE].state = rows[i].state
      BY <1>0 DEF Row
    <3>3. ASSUME NEW i \in Items
          PROVE  [rows[i] EXCEPT !.canary = TRUE, !.state = "PENDING_OWNER_REQUIRED"].state
                   = "PENDING_OWNER_REQUIRED"
      BY <1>0 DEF Row
    <3>4. CASE Cohort # {}
      BY <3>1, <3>4 DEF CanaryBatch, RowsOf
    <3>5. CASE Cohort = {} /\ {i \in Active : rows[i].state # "ELIGIBLE"} # {}
      BY <3>1, <3>2, <3>5 DEF CanaryBatch
    <3>6. CASE Cohort = {} /\ {i \in Active : rows[i].state # "ELIGIBLE"} = {}
      <4>1. CanaryBatch = [i \in FirstOf(Active) |->
              [rows[i] EXCEPT !.canary = TRUE, !.state = "PENDING_OWNER_REQUIRED"]]
        BY <3>6 DEF CanaryBatch
      <4>2. \A i \in FirstOf(Active) : i \in Items /\ rows[i].state = "ELIGIBLE"
        BY <3>1, <3>6
      <4>. QED BY <3>3, <4>1, <4>2 DEF Recorded
    <3>. QED BY <3>4, <3>5, <3>6
  <2>. QED BY <1>0, <2>1, <2>2, RecordElsewhere DEF ItemPcs
<1>3. CASE SweepCancelled
  <2>1. UNCHANGED <<drive, copy>> /\ pc' = "persist" /\ SweepUnstarted
    BY <1>3 DEF SweepCancelled, Quiet
  <2>2. \A i \in Items : rows'[i].state \in Recorded <=> rows[i].state \in Recorded
    BY <1>0, <2>1, SweepRecord
  <2>. QED BY <2>1, <2>2, RecordRows DEF ItemPcs
<1>4. ASSUME NEW i \in Items, MarkCanary(i)
      PROVE  Fresh' /\ ("accept" \notin EnvKinds => RecordKept)
  <2>1. /\ i \in DOMAIN copy /\ rows' = [rows EXCEPT ![i] = copy[i]]
        /\ pc' = "mark" /\ UNCHANGED <<drive, copy>>
    BY <1>4 DEF MarkCanary, IsFirst, Unmarked, Quiet
  <2>2. \A j \in Items : rows'[j].state \in Recorded <=> rows[j].state \in Recorded
    BY <1>0, <2>1
  <2>. QED BY <2>1, <2>2, RecordRows DEF ItemPcs
<1>5. ASSUME NEW i \in Items, TakeTransferred(i) \/ TakeUnstarted(i) \/ TakeOffered(i)
      PROVE  Fresh' /\ ("accept" \notin EnvKinds => RecordKept)
  <2>0. ASSUME TakeOffered(i) PROVE copy[i].perm
    BY <2>0 DEF TakeOffered, IsFirst, IInv, CopyOK, RowOK
  <2>1. /\ i \in DOMAIN copy /\ copy' = Without(copy, i) /\ UNCHANGED <<drive, rows>>
        /\ pc' \in ItemPcs => cur' = i /\ mem' = copy[i]
    BY <1>5, <2>0 DEF TakeTransferred, TakeUnstarted, Take, TakeOffered, IsFirst, Quiet
  <2>2. \A j \in DOMAIN copy' : j \in Items /\ (copy'[j].state \in Recorded <=> rows[j].state \in Recorded)
    BY <1>0, <2>1 DEF Without
  <2>. QED BY <1>0, <2>1, <2>2, RecordElsewhere
<1>. QED BY <1>1, <1>2, <1>3, <1>4, <1>5 DEF BatchStep

(* A reconciliation sees every file of the target: its row says more        *)
(* afterwards, unless the file is in the trash.                             *)
LEMMA RecordReconcile ==
  ASSUME IInv, Fresh, NEW i \in Items, ReconcileItem(i)
  PROVE  Fresh' /\ ("accept" \notin EnvKinds => RecordKept)
<1>1. /\ i \in DOMAIN copy /\ copy' = Without(copy, i) /\ pc' \notin ItemPcs /\ drive' = drive
      /\ Reading
      /\ rows' = [rows EXCEPT ![i] =
                    IF VisibleToReader(copy[i], drive[i]) THEN Reconciled(copy[i], drive[i])
                    ELSE [copy[i] EXCEPT !.state = "PERMANENT_FAILED"]]
  BY DEF ReconcileItem, IsFirst, Reading, Quiet, ItemPcs
<1>2. /\ copy[i] \in Row /\ rows \in [Items -> Row] /\ DOMAIN copy \subseteq Items
      /\ \A j \in Items : drive[j].owner = "target" => drive[j].perm = "owner"
      /\ \A j \in DOMAIN copy : copy[j].state \in Recorded <=> rows[j].state \in Recorded
  BY <1>1 DEF IInv, DataOK, CopyOK, Fresh
<1>3. \A j \in Items \ {i} : rows'[j] = rows[j]
  BY <1>1, <1>2
<1>4. \A j \in DOMAIN copy' : copy'[j].state \in Recorded <=> rows'[j].state \in Recorded
  BY <1>1, <1>2, <1>3 DEF Without
<1>5. Fresh'
  BY <1>1, <1>2, <1>4 DEF Fresh, Recorded
<1>6. ASSUME drive[i].owner = "target", rows[i].state \in Recorded
      PROVE  rows'[i].state \in Recorded \/ FoundTrashed(i)
  <2>1. VisibleToReader(copy[i], drive[i]) /\ copy[i].state \in Recorded
    BY <1>1, <1>2, <1>6 DEF VisibleToReader
  <2>2. rows'[i] = Reconciled(copy[i], drive[i])
    BY <1>1, <1>2, <2>1
  <2>3. CASE drive[i].trashed
    <3>1. rows'[i].state = "SKIPPED_TRASHED"
      BY <1>2, <2>2, <2>3 DEF Reconciled, Row
    <3>. QED BY <1>1, <2>3, <3>1 DEF FoundTrashed
  <2>4. CASE ~drive[i].trashed
    <3>1. rows'[i].state \in {copy[i].state, "VERIFYING"}
      BY <1>2, <1>6, <2>2, <2>4 DEF Reconciled, TargetOwns, Row
    <3>. QED BY <2>1, <3>1 DEF Recorded
  <2>. QED BY <2>3, <2>4
<1>7. RecordKept
  BY <1>1, <1>3, <1>6 DEF RecordKept
<1>. QED BY <1>5, <1>7

(* Reconciliation, faults, restarts and the world outside. *)
LEMMA RecordRest ==
  ASSUME IInv, Fresh, Rest
  PROVE  Fresh' /\ ("accept" \notin EnvKinds => RecordKept)
<1>0. /\ drive \in [Items -> File] /\ DOMAIN copy \subseteq Items
      /\ \A j \in Items : drive[j].owner = "target" => drive[j].perm = "owner"
      /\ \A j \in DOMAIN copy : copy[j].state \in Recorded <=> rows[j].state \in Recorded
  BY DEF IInv, DataOK, CopyOK, Fresh
<1>2. CASE ResumeReconciled \/ StartupReconciled \/ Startup
  <2>1. /\ UNCHANGED <<drive, rows>> /\ pc' \in {"launch", "idle", "startup"}
        /\ copy' = copy \/ copy' = RowsOf(Checkpoints)
    BY <1>2 DEF ResumeReconciled, StartupReconciled, Startup, Launch, Quiet
  <2>. QED BY <2>1, RecordList DEF ItemPcs
<1>3. CASE CanaryUnsettled \/ RunFails \/ ReconcileError \/ ReconcileUnauthorized \/ Crash
           \/ StartupWithoutTokens
  <2>1. /\ UNCHANGED <<drive, rows>> /\ pc' \notin ItemPcs
        /\ copy' = copy \/ DOMAIN copy' = {}
    BY <1>3 DEF CanaryUnsettled, RunFails, ReconcileError, ReconcileUnauthorized, Crash,
         StartupWithoutTokens, EndRun, LetGo, NoRows, ItemPcs
  <2>. QED BY <2>1, RecordList
<1>4. CASE World
  <2>1. PICK i \in Items : Touched(i)
    BY <1>4 DEF World
  <2>2. PICK kind \in EnvKinds, f \in File :
          /\ Outside(i, kind, f)
          /\ f.owner = "target" => /\ drive[i].owner = "target" \/ kind = "accept"
                                   /\ f.perm = "owner"
    BY <1>0, <2>1 DEF Touched, Outside, File
  <2>3. UNCHANGED <<rows, pc, worker>> /\ drive' = [drive EXCEPT ![i] = f]
    BY <2>2 DEF Outside
  <2>4. \A j \in Items : drive'[j].owner = "target" =>
           drive'[j].perm = "owner" /\ (drive[j].owner = "target" \/ "accept" \in EnvKinds)
    BY <1>0, <2>2, <2>3
  <2>. QED BY <1>0, <2>3, <2>4, RecordElsewhere
<1>. QED BY <1>2, <1>3, <1>4, RecordReconcile DEF Rest, ReconcileStep

(* Every step keeps what is recorded. *)
LEMMA RecordNext ==
  ASSUME IInv, Unsettled, Ahead, Fresh, [Next]_vars
  PROVE  Fresh' /\ ["accept" \notin EnvKinds => RecordKept]_vars
<1>1. CASE UNCHANGED vars
  BY <1>1 DEF vars, Fresh, Recorded
<1>2. CASE Next
  BY <1>2, StepKinds, RecordItem, RecordUser, RecordBatch, RecordRest
<1>. QED BY <1>1, <1>2

(* At first the source owns everything and no list is loaded. *)
LEMMA FreshInit ==
  ASSUME Init PROVE Fresh
BY DEF Init, NoRows, Fresh, ItemPcs

(* Write-ahead: a file that becomes the target's has a row that says so,    *)
(* and keeps it until the file is given up, so a reconciliation after a     *)
(* crash anywhere in between finds it.                                      *)
THEOREM OwnershipRecorded == Spec => OwnedIsRecorded
<1>1. IInv /\ Unsettled /\ [Next]_vars => Unsettled'
  BY UnsettledNext
<1>2. IInv /\ Unsettled /\ Ahead /\ [Next]_vars => Ahead'
  BY AheadNext
<1>3. IInv /\ Unsettled /\ Ahead /\ Fresh /\ [Next]_vars
        => Fresh' /\ ["accept" \notin EnvKinds => RecordKept]_vars
  BY RecordNext
<1>4. Spec => []["accept" \notin EnvKinds => RecordKept]_vars
  BY <1>1, <1>2, <1>3, UnsettledInit, AheadInit, FreshInit, Invariance, PTL DEF Spec
<1>. QED BY <1>4 DEF OwnedIsRecorded

--------------------------------------------------------------------------------
(* The canary is chosen once.                                               *)

Before(S, i) == {j \in S : Rank[j] < Rank[i]}

(* Ranks order the files: of two files, one has strictly fewer before it.   *)
LEMMA RanksOrder ==
  ASSUME NEW S \in SUBSET Items, NEW i \in S, NEW j \in S, i # j
  PROVE  Cardinality(Before(S, i)) # Cardinality(Before(S, j))
<1>1. /\ \A x \in S : Before(S, x) \in SUBSET S
      /\ \A x, y \in S : Rank[x] < Rank[y] => /\ Before(S, x) \subseteq Before(S, y)
                                              /\ x \in Before(S, y) \ Before(S, x)
  BY RankAssumption DEF Before
<1>2. IsFiniteSet(S)
  BY ItemsAssumption, FS_Subset
<1>3. \A x \in S : IsFiniteSet(Before(S, x))
  BY <1>1, <1>2, FS_Subset
<1>4. \A x, y \in S : Rank[x] < Rank[y] =>
         Cardinality(Before(S, x)) # Cardinality(Before(S, y))
  <2>1. SUFFICES ASSUME NEW x \in S, NEW y \in S, Rank[x] < Rank[y],
                        Cardinality(Before(S, x)) = Cardinality(Before(S, y))
                 PROVE  FALSE
    OBVIOUS
  <2>2. Before(S, x) = Before(S, y)
    BY <1>1, <1>3, <2>1, FS_Subset
  <2>. QED BY <1>1, <2>1, <2>2
<1>5. Rank[i] < Rank[j] \/ Rank[j] < Rank[i]
  BY RankAssumption
<1>. QED BY <1>4, <1>5

(* A fresh canary is no larger than the job asked for.                      *)
LEMMA FirstOfBound ==
  ASSUME NEW S \in SUBSET Items
  PROVE  IsFiniteSet(FirstOf(S)) /\ Cardinality(FirstOf(S)) <= CanarySize
<1>. DEFINE f == [i \in FirstOf(S) |-> Cardinality(Before(S, i))]
            T == 0..(CanarySize - 1)
<1>1. FirstOf(S) \subseteq S /\ CanarySize \in Nat \ {0}
  BY BoundsAssumption DEF FirstOf
<1>2. \A i \in FirstOf(S) : Cardinality(Before(S, i)) \in T
  <2>1. \A i \in S : IsFiniteSet(Before(S, i))
    BY ItemsAssumption, FS_Subset DEF Before
  <2>2. \A i \in S : Cardinality(Before(S, i)) \in Nat
    BY <2>1, FS_CardinalityType
  <2>3. \A i \in FirstOf(S) : Cardinality(Before(S, i)) < CanarySize
    BY DEF FirstOf, Before
  <2>. QED BY <1>1, <2>2, <2>3
<1>3. f \in Injection(FirstOf(S), T)
  BY <1>1, <1>2, RanksOrder DEF Injection, IsInjective
<1>4. IsFiniteSet(T) /\ Cardinality(T) = CanarySize
  BY <1>1, FS_Interval
<1>. QED BY <1>3, <1>4, FS_Injection

(* Nor is it empty, while there is anything left to transfer.               *)
LEMMA FirstOfSome ==
  ASSUME NEW S \in SUBSET Items, S # {}
  PROVE  FirstOf(S) # {}
<1>. DEFINE T == {Before(S, i) : i \in S}
<1>1. IsFiniteSet(S) /\ T # {}
  BY ItemsAssumption, FS_Subset
<1>2. T \subseteq FiniteSubsetsOf(S)
  BY <1>1, FS_Subset DEF FiniteSubsetsOf, Before
<1>3. PICK X \in T : \A Y \in T : <<Y, X>> \notin StrictSubsetOrdering(S)
  <2>. HIDE DEF T
  <2>. QED BY <1>1, <1>2, FS_StrictSubsetOrderingWellFounded, WFMin
<1>4. PICK i \in S : X = Before(S, i)
  BY <1>3
<1>5. ASSUME NEW j \in Before(S, i) PROVE FALSE
  <2>1. j \in S /\ Before(S, j) \subseteq Before(S, i) /\ j \notin Before(S, j)
    BY <1>4, <1>5, RankAssumption DEF Before
  <2>2. <<Before(S, j), Before(S, i)>> \in StrictSubsetOrdering(S)
    BY <1>5, <2>1 DEF StrictSubsetOrdering, Before
  <2>. QED BY <1>3, <1>4, <2>1, <2>2
<1>6. Cardinality(Before(S, i)) = 0
  BY <1>5, FS_EmptySet
<1>. QED BY <1>4, <1>6, BoundsAssumption DEF FirstOf, Before

(* Either there is a canary, or there is nothing it could consist of. *)
Chosen == Cohort # {} \/ Active = {}

(* The copies in memory say what the rows say about the canary; only while  *)
(* a canary is being marked they are ahead of the rows, and then the rows   *)
(* marked so far are among them.                                            *)
CopyMarks == IF pc = "mark" THEN mode = "canary" /\ \A i \in DOMAIN copy : copy[i].canary
             ELSE \A i \in DOMAIN copy : copy[i].canary = rows[i].canary
ItemMarks == pc \in ItemPcs => mem.canary = rows[cur].canary
Marking   == pc = "mark" => \/ Unmarked = {}
                            \/ /\ Cohort \subseteq DOMAIN copy /\ ~reviewed
                               /\ Cardinality(DOMAIN copy) <= CanarySize
Choosing  == /\ pc = "mark" => DOMAIN copy # {} \/ Chosen
             /\ pc \in {"next"} \cup ItemPcs /\ mode = "canary" => Chosen
             /\ reviewed => Chosen

Marks == CopyMarks /\ ItemMarks /\ Marking /\ Choosing /\ CohortBounded

MarksStay == \A i \in Items : rows'[i].canary = rows[i].canary

(* A row that is not to be transferred is settled.                          *)
LEMMA InactiveSettled ==
  ASSUME IInv
  PROVE  \A i \in Items : rows[i].state \in TransferActive \/ rows[i].state \in Terminal
BY DEF IInv, DataOK, Row, RowOK, States

(* What was chosen stays chosen.                                            *)
LEMMA ChosenStays ==
  ASSUME IInv, SettledStay, MarksStay
  PROVE  Cohort' = Cohort /\ (Chosen => Chosen')
<1>1. Cohort' = Cohort
  BY DEF Cohort, MarksStay
<1>2. Active = {} => Active' = {}
  BY InactiveSettled, Classes DEF Active, SettledStay
<1>. QED BY <1>1, <1>2 DEF Chosen

(* A step that does not work on the marks.                                  *)
LEMMA MarksKept ==
  ASSUME IInv, Marks, SettledStay, MarksStay, pc' # "mark",
         \A i \in DOMAIN copy' : i \in Items /\ copy'[i].canary = rows[i].canary,
         pc' \in ItemPcs => cur' \in Items /\ mem'.canary = rows[cur'].canary,
         pc' \in {"next"} \cup ItemPcs /\ mode' = "canary" => Chosen,
         reviewed' => Chosen
  PROVE  Marks' /\ Cohort' = Cohort
<1>1. Cohort' = Cohort /\ (Chosen => Chosen')
  BY ChosenStays
<1>2. CopyMarks' /\ ItemMarks'
  BY DEF MarksStay, CopyMarks, ItemMarks
<1>3. Marking' /\ Choosing'
  BY <1>1 DEF Marking, Choosing
<1>. QED BY <1>1, <1>2, <1>3 DEF Marks, CohortBounded

(* A step beside the worker, wherever that is.                              *)
LEMMA MarksBeside ==
  ASSUME IInv, Marks, SettledStay, MarksStay,
         UNCHANGED <<pc, mode, copy, cur, mem, reviewed>>
  PROVE  Marks' /\ Cohort' = Cohort
<1>0. DOMAIN copy \subseteq Items /\ (pc \in ItemPcs => cur \in Items)
  BY DEF IInv, CopyOK, ItemOK
<1>1. Cohort' = Cohort /\ (Chosen => Chosen')
  BY ChosenStays
<1>2. CopyMarks' /\ ItemMarks'
  BY <1>0 DEF Marks, MarksStay, CopyMarks, ItemMarks
<1>3. Unmarked' = Unmarked
  BY <1>0 DEF Unmarked, MarksStay
<1>4. Marking' /\ Choosing'
  BY <1>1, <1>3 DEF Marks, Marking, Choosing
<1>. QED BY <1>1, <1>2, <1>4 DEF Marks, CohortBounded

(* The transfer of an item writes its row back with the mark it had.        *)
LEMMA MarksItem ==
  ASSUME IInv, Marks, SettledStay, ItemWork
  PROVE  Marks' /\ Cohort' = Cohort
<1>1. pc \in ItemPcs /\ WriteBack /\ Unmoved
  BY ItemWrites
<1>2. cur \in Items /\ DOMAIN copy \subseteq Items /\ pc # "mark"
  BY <1>1 DEF IInv, CopyOK, ItemOK, ItemPcs
<1>3. /\ \A i \in DOMAIN copy : copy[i].canary = rows[i].canary
      /\ mem.canary = rows[cur].canary /\ (mode = "canary" \/ reviewed => Chosen)
  BY <1>1, <1>2 DEF Marks, CopyMarks, ItemMarks, Choosing
<1>4. MarksStay
  BY <1>1, <1>3 DEF MarksStay, WriteBack
<1>5. /\ pc' # "mark" /\ reviewed' = reviewed /\ mode' = mode
      /\ pc' \in ItemPcs => cur' = cur /\ mem'.canary = mem.canary
      /\ copy' = copy \/ DOMAIN copy' = {}
  BY <1>1 DEF WriteBack, Unmoved, ItemPcs, EndPcs
<1>. QED BY <1>2, <1>3, <1>4, <1>5, MarksKept

(* A sweep, like a retry request, changes states only.                      *)
LEMMA SweepKeepsMarks ==
  ASSUME rows \in [Items -> Row], SweepUnstarted PROVE MarksStay
BY DEF SweepUnstarted, MarksStay, Row

(* The commands of the user. *)
LEMMA MarksUser ==
  ASSUME IInv, Marks, SettledStay, UserStep \/ CancelJobStep
  PROVE  Marks' /\ Cohort' = Cohort
<1>0. rows \in [Items -> Row] /\ DOMAIN copy \subseteq Items
  BY DEF IInv, DataOK, CopyOK
<1>1. reviewed' = reviewed /\ (reviewed => Chosen)
  BY DEF UserStep, CancelJobStep, StartCanaryCommand, ContinueMigration, ScanAgain,
         ResumeMigration, RetryFailedItems, PauseMigration, CancelMigration, Idle, Marks, Choosing
<1>2. MarksStay
  <2>1. CASE rows' = rows
    BY <2>1 DEF MarksStay
  <2>2. CASE RetryFailedItems
    BY <1>0, <2>2 DEF RetryFailedItems, MarksStay, Row
  <2>3. CASE CancelMigration
    BY <2>1, <2>3, <1>0, SweepKeepsMarks DEF CancelMigration
  <2>. QED BY <2>1, <2>2, <2>3 DEF UserStep, CancelJobStep, StartCanaryCommand,
         ContinueMigration, ScanAgain, ResumeMigration, PauseMigration, Idle
<1>3. CASE StartCanaryCommand \/ ContinueMigration
  <2>1. pc = "idle" /\ pc' = "launch" /\ copy' = copy
    BY <1>3 DEF StartCanaryCommand, ContinueMigration, Idle, Launch
  <2>2. \A i \in DOMAIN copy : copy[i].canary = rows[i].canary
    BY <2>1 DEF Marks, CopyMarks
  <2>. QED BY <1>0, <1>1, <1>2, <2>1, <2>2, MarksKept DEF ItemPcs
<1>4. CASE BeginResume
  <2>1. pc' = "resume" /\ copy' = RowsOf(Checkpoints)
    BY <1>4 DEF BeginResume
  <2>2. \A i \in DOMAIN copy' : i \in Items /\ copy'[i].canary = rows[i].canary
    BY <2>1 DEF RowsOf, Checkpoints
  <2>. QED BY <1>1, <1>2, <2>1, <2>2, MarksKept DEF ItemPcs
<1>5. CASE ScanAgain \/ PauseMigration \/ (RetryFailedItems /\ ~CanResume)
  <2>1. UNCHANGED <<pc, mode, copy, cur, mem, reviewed>>
    BY <1>5 DEF ScanAgain, PauseMigration, RetryFailedItems, Idle
  <2>. QED BY <1>2, <2>1, MarksBeside
<1>6. CASE CancelMigration \/ CancelJobStep
  <2>1. /\ UNCHANGED <<mode, copy, cur, mem, reviewed>>
        /\ pc' = pc \/ (pc \in {"idle", "cancelling"} /\ pc' \in {"idle", "cancelling"})
    BY <1>6 DEF CancelMigration, CancelJobStep, Serving
  <2>2. CASE pc' = pc
    BY <1>2, <2>1, <2>2, MarksBeside
  <2>3. CASE pc \in {"idle", "cancelling"} /\ pc' \in {"idle", "cancelling"}
    <3>1. \A i \in DOMAIN copy : copy[i].canary = rows[i].canary
      BY <2>3 DEF Marks, CopyMarks
    <3>. QED BY <1>0, <1>1, <1>2, <2>1, <2>3, <3>1, MarksKept DEF ItemPcs
  <2>. QED BY <2>1, <2>2, <2>3
<1>. QED BY <1>3, <1>4, <1>5, <1>6 DEF UserStep, ResumeMigration, RetryFailedItems

(* Only this step of the batch marks a row.                                 *)
LEMMA MarksMark ==
  ASSUME IInv, Marks, SettledStay, NEW i \in Items, MarkCanary(i)
  PROVE  Marks' /\ ~reviewed
<1>0. rows \in [Items -> Row] /\ DOMAIN copy \subseteq Items
  BY DEF IInv, DataOK, CopyOK
<1>1. /\ i \in DOMAIN copy /\ ~rows[i].canary /\ rows' = [rows EXCEPT ![i] = copy[i]]
      /\ pc = "mark" /\ UNCHANGED <<pc, worker, reviewed>>
  BY DEF MarkCanary, IsFirst, Unmarked, Quiet, Unmoved
<1>2. /\ Cohort \subseteq DOMAIN copy /\ Cardinality(DOMAIN copy) <= CanarySize /\ ~reviewed
      /\ mode = "canary" /\ \A j \in DOMAIN copy : copy[j].canary
  BY <1>1 DEF Marks, Marking, Unmarked, CopyMarks
<1>3. Cohort' \subseteq DOMAIN copy
  BY <1>0, <1>1, <1>2 DEF Cohort
<1>4. CohortBounded'
  <2>1. IsFiniteSet(DOMAIN copy)
    BY <1>0, ItemsAssumption, FS_Subset
  <2>2. /\ Cardinality(Cohort') <= Cardinality(DOMAIN copy)
        /\ Cardinality(Cohort') \in Nat /\ Cardinality(DOMAIN copy) \in Nat
    BY <1>3, <2>1, FS_Subset, FS_CardinalityType
  <2>. QED BY <1>2, <2>2, BoundsAssumption DEF CohortBounded
<1>5. CopyMarks' /\ ItemMarks'
  BY <1>1, <1>2 DEF CopyMarks, ItemMarks, ItemPcs
<1>6. Marking' /\ Choosing'
  BY <1>1, <1>2, <1>3 DEF Marking, Choosing, ItemPcs
<1>. QED BY <1>2, <1>4, <1>5, <1>6 DEF Marks

(* A canary is chosen only when there is none, and no file was touched then. *)
LEMMA MarksLoad ==
  ASSUME IInv, CanaryOnly, Marks, SettledStay, LoadCanary
  PROVE  Marks' /\ Cohort' = Cohort
<1>0. rows \in [Items -> Row]
  BY DEF IInv, DataOK
<1>1. /\ pc = "start" /\ pc' = "mark" /\ copy' = CanaryBatch
      /\ UNCHANGED <<rows, mode, reviewed>> /\ mode = "canary"
  BY DEF LoadCanary, Quiet, Unmoved
<1>2. Cohort' = Cohort /\ (Chosen => Chosen')
  BY <1>1, ChosenStays DEF MarksStay
<1>3. CopyMarks' /\ ItemMarks'
  <2>1. \A i \in DOMAIN CanaryBatch : CanaryBatch[i].canary
    BY <1>0 DEF CanaryBatch, RowsOf, Cohort, Active, FirstOf, Row
  <2>. QED BY <1>1, <2>1 DEF CopyMarks, ItemMarks, ItemPcs
<1>4. CohortBounded' /\ (reviewed' => Chosen')
  BY <1>1, <1>2 DEF Marks, CohortBounded, Choosing
<1>5. CASE Cohort # {}
  <2>1. Unmarked' = {}
    BY <1>1, <1>5 DEF Unmarked, CanaryBatch, RowsOf, Cohort
  <2>2. Chosen'
    BY <1>2, <1>5 DEF Chosen
  <2>. QED BY <1>1, <1>2, <1>3, <1>4, <2>1, <2>2 DEF Marks, Marking, Choosing, ItemPcs
<1>6. CASE Cohort = {} /\ Active = {}
  <2>1. DOMAIN copy' = {}
    BY <1>1, <1>6 DEF CanaryBatch, FirstOf
  <2>2. Chosen' /\ Unmarked' = {}
    BY <1>2, <1>6, <2>1 DEF Chosen, Unmarked
  <2>. QED BY <1>1, <1>2, <1>3, <1>4, <2>2 DEF Marks, Marking, Choosing, ItemPcs
<1>7. CASE Cohort = {} /\ Active # {}
  <2>1. ~reviewed
    BY <1>7 DEF Marks, Choosing, Chosen
  <2>2. \A i \in Active : rows[i].state = "ELIGIBLE"
    BY <1>7, <2>1 DEF CanaryOnly, RowGate, Active, Cohort, TransferActive
  <2>3. DOMAIN copy' = FirstOf(Active)
    BY <1>1, <1>7, <2>2 DEF CanaryBatch
  <2>4. Active \in SUBSET Items
    BY DEF Active
  <2>5. DOMAIN copy' # {} /\ Cardinality(DOMAIN copy') <= CanarySize
    BY <1>7, <2>3, <2>4, FirstOfBound, FirstOfSome
  <2>. QED BY <1>1, <1>2, <1>3, <1>4, <1>7, <2>1, <2>5 DEF Marks, Marking, Choosing, ItemPcs
<1>. QED BY <1>5, <1>6, <1>7

(* The rest of the batch. *)
LEMMA MarksBatch ==
  ASSUME IInv, CanaryOnly, Marks, SettledStay, BatchStep
  PROVE  Marks' /\ (reviewed => Cohort' = Cohort)
<1>0. rows \in [Items -> Row] /\ DOMAIN copy \subseteq Items /\ copy \in [DOMAIN copy -> Row]
  BY DEF IInv, DataOK, CopyOK
<1>1. CASE RunAutoMutationIfReady \/ ClearFlags \/ LoadBulk
  <2>1. /\ UNCHANGED <<rows, reviewed>> /\ pc # "mark"
        /\ pc' \in {"launch", "start"} \/ (pc' = "next" /\ mode' = "bulk")
        /\ copy' = copy \/ copy' = RowsOf(Active)
    BY <1>1 DEF RunAutoMutationIfReady, ClearFlags, LoadBulk, Launch, Quiet, Unmoved
  <2>2. \A i \in DOMAIN copy' : i \in Items /\ copy'[i].canary = rows[i].canary
    BY <1>0, <2>1 DEF Marks, CopyMarks, RowsOf, Active
  <2>. QED BY <2>1, <2>2, MarksKept DEF Marks, MarksStay, Choosing, ItemPcs
<1>2. CASE CanaryMarked
  <2>1. pc = "mark" /\ Unmarked = {} /\ pc' = "next" /\ UNCHANGED <<rows, copy, reviewed>>
    BY <1>2 DEF CanaryMarked, Quiet, Unmoved
  <2>2. \A i \in DOMAIN copy : i \in Items /\ copy[i].canary /\ rows[i].canary
    BY <1>0, <2>1 DEF Marks, CopyMarks, Unmarked
  <2>3. Chosen
    BY <2>1, <2>2 DEF Marks, Choosing, Chosen, Cohort
  <2>4. \A i \in DOMAIN copy' : i \in Items /\ copy'[i].canary = rows[i].canary
    BY <1>0, <2>1, <2>2 DEF Row
  <2>. QED BY <2>1, <2>3, <2>4, MarksKept DEF MarksStay, ItemPcs
<1>3. CASE StopRequested \/ BulkExhausted
  <2>1. UNCHANGED <<rows, reviewed>> /\ DOMAIN copy' = {} /\ pc' \in EndPcs
    BY <1>3 DEF StopRequested, BulkExhausted, EndRun, LetGo, NoRows, Quiet, Unmoved, EndPcs
  <2>. QED BY <2>1, MarksKept DEF Marks, MarksStay, Choosing, ItemPcs, EndPcs
<1>4. CASE CanaryExhausted \/ CanaryContinues
  <2>1. /\ rows' = rows /\ pc = "next" /\ mode = "canary" /\ DOMAIN copy = {}
        /\ copy' = copy \/ DOMAIN copy' = {}
        /\ pc' \in EndPcs \cup {"start"}
    BY <1>4 DEF CanaryExhausted, CanaryContinues, Exhausted, EndRun, LetGo, NoRows, EndPcs
  <2>2. Chosen
    BY <2>1 DEF Marks, Choosing
  <2>. QED BY <2>1, <2>2, MarksKept DEF MarksStay, ItemPcs, EndPcs
<1>5. CASE SweepCancelled \/ PersistOutcome
  <2>1. /\ UNCHANGED <<copy, reviewed>> /\ pc \in EndPcs /\ pc' \in {"persist", "idle"}
        /\ rows' = rows \/ SweepUnstarted
    BY <1>5 DEF SweepCancelled, PersistOutcome, LetGo, Quiet, Unmoved, EndPcs
  <2>2. MarksStay
    BY <1>0, <2>1, SweepKeepsMarks DEF MarksStay
  <2>3. \A i \in DOMAIN copy' : i \in Items /\ copy'[i].canary = rows[i].canary
    BY <1>0, <2>1 DEF Marks, CopyMarks, EndPcs
  <2>. QED BY <2>1, <2>2, <2>3, MarksKept DEF Marks, Choosing, ItemPcs
<1>6. ASSUME NEW i \in Items, TakeTransferred(i) \/ TakeUnstarted(i)
      PROVE  Marks' /\ Cohort' = Cohort
  <2>1. /\ i \in DOMAIN copy /\ pc = "next" /\ cur' = i /\ mem' = copy[i]
        /\ copy' = Without(copy, i) /\ UNCHANGED <<rows, mode, reviewed>>
        /\ pc' \in {"read", "transferred"}
    BY <1>6 DEF TakeTransferred, TakeUnstarted, Take, IsFirst, Quiet, Unmoved
  <2>2. \A j \in DOMAIN copy : j \in Items /\ copy[j].canary = rows[j].canary
    BY <1>0, <2>1 DEF Marks, CopyMarks
  <2>3. \A j \in DOMAIN copy' : j \in Items /\ copy'[j].canary = rows[j].canary
    BY <2>1, <2>2 DEF Without
  <2>. QED BY <2>1, <2>2, <2>3, MarksKept DEF Marks, MarksStay, Choosing
<1>7. ASSUME NEW i \in Items, TakeOffered(i) PROVE Marks' /\ Cohort' = Cohort
  <2>1. /\ i \in DOMAIN copy /\ pc = "next" /\ copy' = Without(copy, i)
        /\ UNCHANGED <<mode, reviewed>>
        /\ \/ cur' = i /\ mem' = copy[i] /\ pc' = "accepting" /\ rows' = rows
           \/ pc' = pc /\ rows' = [rows EXCEPT ![i] = [copy[i] EXCEPT !.state = "PERMANENT_FAILED"]]
    BY <1>7 DEF TakeOffered, IsFirst, Quiet, Unmoved
  <2>2. \A j \in DOMAIN copy : j \in Items /\ copy[j].canary = rows[j].canary
    BY <1>0, <2>1 DEF Marks, CopyMarks
  <2>3. \A j \in DOMAIN copy' : j \in Items /\ copy'[j].canary = rows[j].canary
    BY <2>1, <2>2 DEF Without
  <2>4. MarksStay
    BY <1>0, <2>1, <2>2 DEF MarksStay, Row
  <2>5. Chosen \/ mode # "canary"
    BY <2>1 DEF Marks, Choosing
  <2>. QED BY <2>1, <2>2, <2>3, <2>4, <2>5, MarksKept DEF Marks, Choosing, ItemPcs
<1>. QED BY <1>1, <1>2, <1>3, <1>4, <1>5, <1>6, <1>7, MarksMark, MarksLoad DEF BatchStep

(* Reconciliation, faults, restarts and the world outside. *)
LEMMA MarksRest ==
  ASSUME IInv, Marks, SettledStay, Rest
  PROVE  Marks' /\ Cohort' = Cohort
<1>0. rows \in [Items -> Row] /\ DOMAIN copy \subseteq Items /\ copy \in [DOMAIN copy -> Row]
  BY DEF IInv, DataOK, CopyOK
<1>1. ASSUME NEW i \in Items, ReconcileItem(i) PROVE Marks' /\ Cohort' = Cohort
  <2>1. /\ i \in DOMAIN copy /\ copy' = Without(copy, i) /\ pc' = pc /\ pc \in {"resume", "startup"}
        /\ reviewed' = reviewed
        /\ \/ rows' = [rows EXCEPT ![i] = Reconciled(copy[i], drive[i])]
           \/ rows' = [rows EXCEPT ![i] = [copy[i] EXCEPT !.state = "PERMANENT_FAILED"]]
    BY <1>1 DEF ReconcileItem, IsFirst, Reading, Quiet, Unmoved
  <2>2. \A j \in DOMAIN copy : j \in Items /\ copy[j].canary = rows[j].canary
    BY <1>0, <2>1 DEF Marks, CopyMarks
  <2>3. copy[i] \in Row
    BY <1>0, <2>1
  <2>4. Reconciled(copy[i], drive[i]).canary = copy[i].canary
    BY <2>3 DEF Reconciled, Row
  <2>5. MarksStay
    BY <1>0, <2>1, <2>2, <2>3, <2>4 DEF MarksStay, Row
  <2>6. \A j \in DOMAIN copy' : j \in Items /\ copy'[j].canary = rows[j].canary
    BY <2>1, <2>2 DEF Without
  <2>. QED BY <2>1, <2>5, <2>6, MarksKept DEF Marks, Choosing, ItemPcs
<1>2. CASE ResumeReconciled \/ StartupReconciled \/ StartupWithoutTokens \/ Startup
  <2>1. /\ UNCHANGED <<rows, reviewed>> /\ pc # "mark" /\ pc' \in {"launch", "idle", "startup"}
        /\ copy' = copy \/ copy' = RowsOf(Checkpoints)
    BY <1>2 DEF ResumeReconciled, StartupReconciled, StartupWithoutTokens, Startup, Launch,
         Quiet, Unmoved
  <2>2. \A i \in DOMAIN copy' : i \in Items /\ copy'[i].canary = rows[i].canary
    BY <1>0, <2>1 DEF Marks, CopyMarks, RowsOf, Checkpoints
  <2>. QED BY <2>1, <2>2, MarksKept DEF Marks, MarksStay, Choosing, ItemPcs
<1>3. CASE World
  <2>1. UNCHANGED <<rows, pc, worker, reviewed>>
    BY <1>3 DEF World, Touched, Outside, Unmoved
  <2>. QED BY <2>1, MarksBeside DEF MarksStay
<1>4. CASE CanaryUnsettled
  <2>1. /\ rows' = rows /\ pc = "next" /\ mode = "canary" /\ DOMAIN copy' = {} /\ pc' \in EndPcs
    BY <1>4 DEF CanaryUnsettled, Exhausted, EndRun, LetGo, NoRows, EndPcs
  <2>. QED BY <2>1, MarksKept DEF Marks, MarksStay, Choosing, ItemPcs, EndPcs
<1>5. CASE RunFails \/ ReconcileError \/ ReconcileUnauthorized \/ Crash
  <2>1. /\ UNCHANGED <<rows, reviewed>> /\ DOMAIN copy' = {}
        /\ pc' \in {"idle", "down"} \cup EndPcs
    BY <1>5 DEF RunFails, ReconcileError, ReconcileUnauthorized, Crash, EndRun, LetGo, NoRows,
         Unmoved, EndPcs
  <2>. QED BY <2>1, MarksKept DEF Marks, MarksStay, Choosing, ItemPcs, EndPcs
<1>. QED BY <1>1, <1>2, <1>3, <1>4, <1>5 DEF Rest, ReconcileStep

(* Every step keeps the marks, and the canary stays what it is once it ran. *)
CohortStays == reviewed => Cohort' = Cohort

LEMMA MarksNext ==
  ASSUME IInv, Unsettled, CanaryOnly, Marks, [Next]_vars
  PROVE  Marks' /\ CohortStays
<1>1. SettledStay
  BY UnsettledNext
<1>2. CASE UNCHANGED vars
  <2>1. UNCHANGED <<rows, pc, mode, copy, cur, mem, reviewed>>
    BY <1>2 DEF vars
  <2>. QED BY <1>1, <2>1, MarksBeside DEF MarksStay, CohortStays
<1>3. CASE Next
  BY <1>1, <1>3, StepKinds, MarksItem, MarksUser, MarksBatch, MarksRest DEF CohortStays
<1>. QED BY <1>2, <1>3

(* At first there is no canary. *)
LEMMA MarksInit ==
  ASSUME Init PROVE Marks
<1>1. Cohort = {} /\ DOMAIN copy = {} /\ pc \in {"idle", "scanned"} /\ ~reviewed
  BY DEF Init, Cohort, NoRows
<1>2. Cardinality(Cohort) = 0
  BY <1>1, FS_EmptySet
<1>. QED BY <1>1, <1>2, BoundsAssumption
     DEF Marks, CopyMarks, ItemMarks, Marking, Choosing, CohortBounded, ItemPcs

(* All that is known of a state that the engine reaches.                    *)
LEMMA MarksInvariance == Spec => [](IInv /\ Unsettled /\ CanaryOnly /\ Marks)
<1>1. IInv /\ Unsettled /\ [Next]_vars => Unsettled'
  BY UnsettledNext
<1>2. IInv /\ CanaryOnly /\ [Next]_vars => CanaryOnly'
  BY GateNext
<1>3. IInv /\ Unsettled /\ CanaryOnly /\ Marks /\ [Next]_vars => Marks'
  BY MarksNext
<1>. QED BY <1>1, <1>2, <1>3, UnsettledInit, GateInit, MarksInit, Invariance, PTL DEF Spec

(* No crash while the canary is being marked, and no resume, makes it       *)
(* larger than the job asked for; at no time is it.                         *)
THEOREM CanaryBounded == Spec => []CohortBounded
<1>1. Marks => CohortBounded
  BY DEF Marks
<1>. QED BY <1>1, MarksInvariance, PTL

(* No step marks one file too many, and after the canary was run, no step   *)
(* adds a file to it or takes one away.                                     *)
THEOREM CanaryChosenOnce == Spec => ChosenOnce
<1>1. IInv /\ Unsettled /\ CanaryOnly /\ Marks /\ [Next]_vars
        => [CohortBounded' /\ CohortStays]_vars
  <2>1. IInv /\ Unsettled /\ CanaryOnly /\ Marks /\ [Next]_vars => Marks' /\ CohortStays
    BY MarksNext
  <2>. QED BY <2>1 DEF Marks
<1>2. Spec => [][CohortBounded' /\ CohortStays]_vars
  BY <1>1, MarksInvariance, PTL DEF Spec
<1>. QED BY <1>2 DEF ChosenOnce, CohortStays

--------------------------------------------------------------------------------
(* What a job that says it is completed has behind it.                      *)

(* A row with nothing left to do in this run; a retry request may reopen it. *)
Fin(s) == \/ s \in Terminal \cup {"RETRYABLE_FAILED"}
          \/ Budget["retry"] > 0 /\ s = "PENDING_OWNER_REQUIRED"

(* While the list is walked, whatever it was loaded from is done, or still  *)
(* in hand.                                                                 *)
Walking == {"mark", "next"} \cup ItemPcs
Walked  == IF mode = "canary" THEN Cohort ELSE Items
InHand(i) == i \in DOMAIN copy \/ (pc \in ItemPcs /\ i = cur)
Covered == pc \in Walking => \A i \in Walked : Fin(rows[i].state) \/ InHand(i)

(* When a run has come to its end, all the rows are done, and it knows of   *)
(* every failed one.                                                        *)
Ended == pc = "persist" /\ outcome \in {"done", "done_with_errors"} =>
  \A i \in Items :
    /\ Fin(rows[i].state)
    /\ outcome = "done" => rows[i].state \notin {"RETRYABLE_FAILED", "PERMANENT_FAILED"}

(* Without a crash, cancelled rows are of a job that is cancelled, about to *)
(* be, or was over before.                                                  *)
Cancelling == \/ status \in {"CANCELLED", "COMPLETED_WITH_ERRORS"}
              \/ Budget["retry"] > 0 /\ status = "COMPLETED"
              \/ pc = "cancelling"
              \/ pc = "persist" /\ outcome = "cancel"
CancelTraced ==
  Budget["crash"] = 0 => \A i \in Items : rows[i].state = "CANCELLED" => Cancelling

(* The automatic run begins with the canary. *)
AutoFirst == /\ pc = "scanned" => ~reviewed
             /\ auto /\ mode = "canary" /\ pc \notin EndPcs => ~reviewed

Traces == /\ left["crash"] <= Budget["crash"] /\ status # "FAILED"
          /\ pc = "sweep" => outcome = "cancel"

Done == Covered /\ Ended /\ CancelTraced /\ AutoFirst /\ Traces /\ CompletedMeansDone

Known == IInv /\ Unsettled /\ CanaryOnly /\ Marks /\ Ahead

(* No row becomes cancelled. *)
NoneCancelled ==
  \A i \in Items : rows'[i].state = "CANCELLED" => rows[i].state = "CANCELLED"

(* A job at work is not over. *)
LEMMA OpenJob ==
  ASSUME IInv, pc \in WorkerPcs \cup {"resume", "startup"}
  PROVE  status \notin TerminalStatus /\ (Cancelling => pc = "persist")
<1>1. status \notin TerminalStatus
  BY DEF IInv, JobOK, TerminalStatus, TransferResumable, UnfinishedMutation
<1>. QED BY <1>1 DEF Cancelling, WorkerPcs, BatchPcs, ItemPcs, EndPcs, TerminalStatus

(* The budget of crashes. *)
LEMMA CrashBudgetType ==
  /\ Budget["crash"] \in Nat /\ Budget["retry"] \in Nat
  /\ IInv => left["crash"] \in Nat /\ left["retry"] \in Nat
BY BoundsAssumption DEF IInv, ControlOK

(* A fault costs no crash, an outside change or a retry request neither.    *)
LEMMA SpendKeepsCrash ==
  ASSUME IInv, NEW k \in {"fault", "env", "retry"}, Spend(k)
  PROVE  left'["crash"] = left["crash"]
<1>1. left \in [{"fault", "env", "crash", "retry"} -> Nat] /\ left' = [left EXCEPT ![k] = @ - 1]
  BY DEF IInv, ControlOK, Spend
<1>. QED BY <1>1

(* What each step owes.                                                     *)
LEMMA DoneKept ==
  ASSUME IInv, Done, left'["crash"] \in Nat, left'["crash"] <= left["crash"],
         NoneCancelled \/ Cancelling', Cancelling => Cancelling',
         \/ status' \notin {"COMPLETED", "COMPLETED_WITH_ERRORS", "FAILED"}
         \/ UNCHANGED <<status, rows>>,
         pc' = "scanned" => UNCHANGED <<pc, reviewed>>,
         auto' /\ mode' = "canary" /\ pc' \notin EndPcs => ~reviewed',
         pc' = "sweep" => outcome' = "cancel",
         Covered', Ended'
  PROVE  Done'
<1>1. Traces'
  BY CrashBudgetType DEF Done, Traces
<1>2. AutoFirst'
  BY DEF Done, AutoFirst
<1>3. CancelTraced'
  BY DEF Done, CancelTraced, NoneCancelled
<1>4. CompletedMeansDone'
  BY DEF Done, CompletedMeansDone
<1>. QED BY <1>1, <1>2, <1>3, <1>4 DEF Done

(* A step of a process at work owes less.                                   *)
LEMMA DoneRunning ==
  ASSUME IInv, Done, pc \in (WorkerPcs \ {"persist"}) \cup {"resume", "startup"},
         left'["crash"] = left["crash"], NoneCancelled,
         status' \notin TerminalStatus, pc' # "scanned",
         auto' /\ mode' = "canary" /\ pc' \notin EndPcs => ~reviewed',
         pc' = "sweep" => outcome' = "cancel",
         Covered', Ended'
  PROVE  Done'
<1>1. ~Cancelling
  BY OpenJob
<1>. QED BY <1>1, DoneKept, CrashBudgetType DEF TerminalStatus

(* What becomes of an item that the worker lets go of.                      *)
ItemEnds ==
  /\ auto' = auto /\ (pc' = "sweep" => outcome' = "cancel")
  /\ pc' = "next" => Fin(rows'[cur].state)
  /\ rows'[cur].state = "CANCELLED" => rows[cur].state = "CANCELLED"

(* A run that ends for another reason than a cancel request. *)
LEMMA EndSettles ==
  ASSUME IInv, pc \in ItemPcs, NEW o, o # "cancel", EndRun(o),
         rows' = rows \/ rows' = [rows EXCEPT ![cur] = mem]
  PROVE  ItemEnds
<1>1. cur \in Items /\ rows \in [Items -> Row] /\ mem.state # "CANCELLED"
  BY DEF IInv, ItemOK, DataOK, Knows, ItemPcs
<1>2. auto' = auto /\ pc' = "persist"
  BY DEF EndRun, LetGo
<1>. QED BY <1>1, <1>2 DEF ItemEnds

(* A save on the way. *)
LEMMA SaveSettles ==
  ASSUME IInv, pc \in ItemPcs, NEW s, s # "CANCELLED", NEW p, NEW next \in ItemPcs,
         Save(s, p, next)
  PROVE  ItemEnds
<1>1. cur \in Items /\ rows \in [Items -> Row] /\ mem \in Row
  BY DEF IInv, ItemOK, DataOK
<1>2. CASE CanTransition(mem.state, s)
  <2>1. /\ rows' = [rows EXCEPT ![cur] = [mem EXCEPT !.state = s, !.perm = p]]
        /\ pc' = next /\ auto' = auto
    BY <1>2 DEF Save
  <2>2. rows'[cur].state = s
    BY <1>1, <2>1 DEF Row
  <2>. QED BY <2>1, <2>2 DEF ItemEnds, ItemPcs
<1>3. CASE ~CanTransition(mem.state, s)
  BY <1>3, EndSettles DEF Save
<1>. QED BY <1>2, <1>3

(* The last save of an item. *)
LEMMA FinishSettles ==
  ASSUME IInv, pc \in ItemPcs, NEW s, s # "CANCELLED", Fin(s), SaveAndFinish(s)
  PROVE  ItemEnds
<1>1. cur \in Items /\ rows \in [Items -> Row] /\ mem \in Row
  BY DEF IInv, ItemOK, DataOK
<1>2. CASE CanTransition(mem.state, s)
  <2>1. /\ rows' = [rows EXCEPT ![cur] = [mem EXCEPT !.state = s]]
        /\ pc' = "next" /\ auto' = auto
    BY <1>2 DEF SaveAndFinish, LetGo
  <2>2. rows'[cur].state = s
    BY <1>1, <2>1 DEF Row
  <2>. QED BY <2>1, <2>2 DEF ItemEnds
<1>3. CASE ~CanTransition(mem.state, s)
  BY <1>3, EndSettles DEF SaveAndFinish
<1>. QED BY <1>2, <1>3

(* What an error finalizes to. *)
Errors == (Halts \ {"cancel"}) \cup {"RETRYABLE_FAILED", "PERMANENT_FAILED"}

LEMMA FinalizeSettles ==
  ASSUME IInv, pc \in ItemPcs, NEW c \in Errors, FinalizeStep(c)
  PROVE  ItemEnds
<1>1. CASE c \in Halts
  BY <1>1, EndSettles DEF FinalizeStep, Errors, Halts
<1>2. CASE c \notin Halts
  <2>1. c \in {"RETRYABLE_FAILED", "PERMANENT_FAILED"} /\ SaveAndFinish(c)
    BY <1>2 DEF Errors, FinalizeStep
  <2>. QED BY <2>1, FinishSettles DEF Fin, Terminal
<1>. QED BY <1>1, <1>2

(* A failing call. *)
LEMMA FailSettles ==
  ASSUME IInv, pc \in ItemPcs, NEW kind \in ErrorKinds, Fails(kind)
  PROVE  ItemEnds
<1>1. CASE Classify(kind) = "RETRYABLE_FAILED" /\ tries < MaxRetry
  <2>1. UNCHANGED <<rows, pc, auto>> /\ pc \notin {"next", "sweep"}
    BY <1>1 DEF Fails, ItemPcs
  <2>. QED BY <2>1 DEF ItemEnds
<1>2. CASE ~(Classify(kind) = "RETRYABLE_FAILED" /\ tries < MaxRetry)
  <2>1. FinalizeStep(Classify(kind))
    BY <1>2 DEF Fails
  <2>2. Classify(kind) \in Errors
    BY DEF Classify, ErrorKinds, Errors, Halts
  <2>. QED BY <2>1, <2>2, FinalizeSettles
<1>. QED BY <1>1, <1>2

(* The hops to ACCEPT_REQUIRED. *)
LEMMA AdvanceSettles ==
  ASSUME IInv, pc \in ItemPcs, AdvanceToAcceptRequired("accepting")
  PROVE  ItemEnds
<1>1. cur \in Items /\ rows \in [Items -> Row] /\ mem \in Row
  BY DEF IInv, ItemOK, DataOK
<1>2. CASE CanAdvance(mem.state)
  <2>1. PICK s \in {"ACCEPTING", "ACCEPT_REQUIRED"} :
          /\ rows' = [rows EXCEPT ![cur] = [mem EXCEPT !.state = s, !.perm = TRUE]]
          /\ pc' = "accepting" /\ auto' = auto
    BY <1>2 DEF AdvanceToAcceptRequired
  <2>2. rows'[cur].state = s
    BY <1>1, <2>1 DEF Row
  <2>. QED BY <2>1, <2>2 DEF ItemEnds
<1>3. CASE ~CanAdvance(mem.state)
  BY <1>3, EndSettles DEF AdvanceToAcceptRequired
<1>. QED BY <1>2, <1>3

(* All the steps of an item are of this kind, and cost at most a fault. *)
LEMMA ItemSettles ==
  ASSUME IInv, ItemWork
  PROVE  ItemEnds /\ left'["crash"] = left["crash"]
<1>0. pc \in ItemPcs
  BY ItemWrites
<1>1. ItemEnds
  <2>1. CASE ReadSkips \/ VerifyTrashed \/ VerifyConfirmed
    <3>1. PICK s \in {"SKIPPED_TRASHED", "SKIPPED_SHARED_DRIVE", "VERIFIED"} : SaveAndFinish(s)
      BY <2>1 DEF ReadSkips, VerifyTrashed, VerifyConfirmed
    <3>. QED BY <1>0, <3>1, FinishSettles DEF Fin, Terminal, Skipped
  <2>2. CASE ReadAlreadyMoved \/ ReadToOffer \/ SaveAccepting \/ SaveTransferred \/ SaveVerifying
    <3>1. PICK s \in {"VERIFYING", "PENDING_OWNER_REQUIRED", "ACCEPTING", "TRANSFERRED"},
               p \in {TRUE, mem.perm},
               next \in {"verify", "update", "create", "accept", "transferred"} : Save(s, p, next)
      BY <2>2 DEF ReadAlreadyMoved, ReadToOffer, SaveAccepting, SaveTransferred, SaveVerifying
    <3>2. next \in ItemPcs /\ s # "CANCELLED"
      BY DEF ItemPcs
    <3>. QED BY <1>0, <3>1, <3>2, SaveSettles
  <2>3. CASE ReadAlreadyOffered \/ SaveOffered
    BY <1>0, <2>3, AdvanceSettles DEF ReadAlreadyOffered, SaveOffered
  <2>4. CASE OfferSucceeds \/ AcceptSucceeds
    <3>1. pc' \in {"offered", "accepted"} /\ UNCHANGED <<rows, auto>>
      BY <2>4 DEF OfferSucceeds, AcceptSucceeds
    <3>. QED BY <3>1 DEF ItemEnds
  <2>5. CASE OfferLost \/ AcceptLost \/ OfferRefused \/ AcceptRefused \/ RemoteFails
             \/ VerifyInvisible
    <3>1. PICK kind \in ErrorKinds : Fails(kind)
      BY <2>5 DEF OfferLost, AcceptLost, OfferRefused, AcceptRefused, RemoteFails,
                  VerifyInvisible, ErrorKinds
    <3>. QED BY <1>0, <3>1, FailSettles
  <2>6. CASE ReadNotOwner \/ VerifyNobody
    BY <1>0, <2>6, FinalizeSettles DEF ReadNotOwner, VerifyNobody, Errors
  <2>7. CASE VerifyUnconfirmed
    <3>1. CASE polls < MaxRetry
      <4>1. UNCHANGED <<rows, pc, auto>> /\ pc \notin {"next", "sweep"}
        BY <1>0, <2>7, <3>1 DEF VerifyUnconfirmed, ItemPcs
      <4>. QED BY <4>1 DEF ItemEnds
    <3>2. CASE ~(polls < MaxRetry)
      BY <1>0, <2>7, <3>2, FinalizeSettles DEF VerifyUnconfirmed, Errors
    <3>. QED BY <3>1, <3>2
  <2>8. CASE RunFails
    BY <1>0, <2>8, EndSettles DEF RunFails
  <2>. QED BY <2>1, <2>2, <2>3, <2>4, <2>5, <2>6, <2>7, <2>8 DEF ItemWork, ItemStep
<1>2. left' = left \/ Spend("fault")
  BY DEF ItemWork, ItemStep, RemoteFails, OfferLost, AcceptLost, RunFails, ReadSkips,
     ReadAlreadyMoved, ReadNotOwner, ReadAlreadyOffered, ReadToOffer, OfferSucceeds,
     OfferRefused, AcceptSucceeds, AcceptRefused, SaveOffered, SaveAccepting, SaveTransferred,
     SaveVerifying, VerifyInvisible, VerifyTrashed, VerifyConfirmed, VerifyNobody,
     VerifyUnconfirmed, Reads, Verifies, Quiet
<1>. QED BY <1>1, <1>2, SpendKeepsCrash

(* The transfer of an item: when the worker lets go of it, it is done.      *)
LEMMA DoneItem ==
  ASSUME Known, Done, SettledStay, ItemWork
  PROVE  Done'
<1>1. pc \in ItemPcs /\ WriteBack /\ Unmoved /\ ItemEnds /\ left'["crash"] = left["crash"]
  BY ItemWrites, ItemSettles DEF Known
<1>2. IInv /\ cur \in Items /\ DOMAIN copy \subseteq Items /\ Cohort' = Cohort
      /\ Cohort \subseteq Items
  BY <1>1, MarksItem DEF Known, IInv, ItemOK, CopyOK, Cohort
<1>3. status' \notin TerminalStatus
  BY <1>1, <1>2, OpenJob DEF Unmoved, WorkerPcs
<1>4. NoneCancelled
  BY <1>1 DEF WriteBack, ItemEnds, NoneCancelled
<1>5. /\ pc' # "scanned" /\ (pc' = "sweep" => outcome' = "cancel")
      /\ auto' /\ mode' = "canary" => ~reviewed'
  BY <1>1 DEF WriteBack, ItemEnds, Unmoved, Done, AutoFirst, ItemPcs, EndPcs
<1>6. Ended'
  BY <1>1 DEF WriteBack, Ended, Finished
<1>7. Covered'
  <2>1. CASE /\ copy' = copy /\ cur' = cur /\ pc' \in ItemPcs
    <3>1. \A i \in Walked : Fin(rows'[i].state) \/ i \in DOMAIN copy \/ i = cur
      BY <1>1, <1>2 DEF Done, Covered, Walking, Walked, InHand, WriteBack
    <3>. QED BY <1>1, <1>2, <2>1, <3>1 DEF Covered, Walked, InHand, Fin, WriteBack
  <2>2. CASE copy' = copy /\ pc' = "next"
    <3>1. \A i \in Walked : Fin(rows'[i].state) \/ i \in DOMAIN copy
      BY <1>1, <1>2, <2>2 DEF Done, Covered, Walking, Walked, InHand, WriteBack, ItemEnds
    <3>. QED BY <1>1, <1>2, <2>2, <3>1 DEF Covered, Walked, InHand, Fin, WriteBack
  <2>3. CASE pc' \in EndPcs
    BY <2>3 DEF Covered, Walking, ItemPcs, EndPcs
  <2>. QED BY <1>1, <2>1, <2>2, <2>3 DEF WriteBack
<1>. QED BY <1>1, <1>2, <1>3, <1>4, <1>5, <1>6, <1>7, DoneRunning
     DEF WorkerPcs, ItemPcs, EndPcs

(* A sweep leaves done rows done, and completed jobs completed. *)
LEMMA SweepStates ==
  ASSUME IInv, SweepUnstarted, NEW i \in Items
  PROVE  \/ rows'[i] = rows[i]
         \/ rows[i].state \in UnstartedForCancel /\ rows'[i].state = "CANCELLED"
BY DEF IInv, DataOK, SweepUnstarted, Row

(* A retry request reopens failed rows, if it is made at all.               *)
LEMMA DoneRetry ==
  ASSUME Known, Done, RetryFailedItems
  PROVE  Done'
<1>0. IInv /\ rows \in [Items -> Row] /\ Cohort \subseteq Items
  BY DEF Known, IInv, DataOK, Cohort
<1>1. Spend("retry") /\ Budget["retry"] > 0 /\ left'["crash"] = left["crash"]
  <2>1. Spend("retry") /\ left["retry"] > 0
    BY DEF RetryFailedItems, Spend
  <2>2. left["retry"] <= Budget["retry"]
    BY DEF Known, Ahead
  <2>. QED BY <1>0, <2>1, <2>2, CrashBudgetType, SpendKeepsCrash
<1>2. \A i \in Items : rows'[i].canary = rows[i].canary
  BY <1>0 DEF RetryFailedItems, Row
<1>3. \A i \in Items : \/ rows'[i] = rows[i]
                       \/ /\ rows[i].state = "RETRYABLE_FAILED"
                          /\ rows'[i].state = "PENDING_OWNER_REQUIRED"
  BY <1>0 DEF RetryFailedItems, Row
<1>4. NoneCancelled /\ \A i \in Items : Fin(rows[i].state) => Fin(rows'[i].state)
  BY <1>1, <1>3 DEF NoneCancelled, Fin
<1>5. UNCHANGED <<status, reviewed, outcome>>
  BY DEF RetryFailedItems
<1>6. /\ \/ UNCHANGED <<pc, mode, auto, copy, cur>>
         \/ pc = "idle" /\ status \in TransferResumable /\ pc' = "resume" /\ ~auto'
  BY DEF RetryFailedItems, CanResume, BeginResume
<1>7. Traces' /\ AutoFirst'
  BY <1>1, <1>5, <1>6 DEF Done, Traces, AutoFirst
<1>8. Cancelling => Cancelling'
  BY <1>5, <1>6 DEF Cancelling, TransferResumable
<1>9. CancelTraced'
  BY <1>4, <1>8 DEF Done, CancelTraced, NoneCancelled
<1>10. CompletedMeansDone'
  <2>1. \A i \in Items : rows'[i].state \in {rows[i].state, "PENDING_OWNER_REQUIRED"}
    BY <1>3
  <2>. QED BY <1>1, <1>5, <2>1 DEF Done, CompletedMeansDone
<1>11. Ended'
  <2>1. \A i \in Items : rows'[i].state \in {rows[i].state, "PENDING_OWNER_REQUIRED"}
    BY <1>3
  <2>. QED BY <1>4, <1>5, <1>6, <2>1 DEF Done, Ended, Fin
<1>12. Covered'
  <2>1. CASE UNCHANGED <<pc, mode, auto, copy, cur>>
    <3>1. Cohort' = Cohort
      BY <1>2 DEF Cohort
    <3>. QED BY <1>0, <1>4, <2>1, <3>1 DEF Done, Covered, Walked, InHand, Fin
  <2>2. CASE pc' = "resume"
    BY <2>2 DEF Covered, Walking, ItemPcs
  <2>. QED BY <1>6, <2>1, <2>2
<1>. QED BY <1>7, <1>9, <1>10, <1>11, <1>12 DEF Done

(* The other commands of the user. *)
LEMMA DoneUser ==
  ASSUME Known, Done, UserStep \/ CancelJobStep
  PROVE  Done'
<1>0. IInv /\ left["crash"] \in Nat /\ left["crash"] <= left["crash"]
  BY CrashBudgetType DEF Known
<1>1. CASE StartCanaryCommand \/ ContinueMigration \/ ResumeMigration
  <2>1. /\ UNCHANGED <<rows, left, reviewed>> /\ pc = "idle" /\ pc' \in {"launch", "resume"} /\ ~auto'
        /\ status \notin TerminalStatus
        /\ status' \notin TerminalStatus
    BY <1>1 DEF StartCanaryCommand, ContinueMigration, ResumeMigration, BeginResume, CanResume,
         Idle, Launch, StartCanary, StartBulk, Move, TerminalStatus, TransferResumable, Illegal
  <2>2. ~Cancelling
    BY <2>1 DEF Cancelling, TerminalStatus
  <2>3. Covered' /\ Ended'
    BY <2>1 DEF Covered, Ended, Walking, ItemPcs
  <2>. QED BY <1>0, <2>1, <2>2, <2>3, DoneKept DEF NoneCancelled, TerminalStatus
<1>2. CASE ScanAgain
  <2>1. /\ UNCHANGED <<rows, left, reviewed, pc, mode, auto>> /\ pc = "idle"
        /\ status = "PAUSED" /\ status' = "READY_FOR_REVIEW"
    BY <1>2 DEF ScanAgain, Idle, CompleteScanning, StartScanning, Move
  <2>2. ~Cancelling
    BY <2>1 DEF Cancelling
  <2>3. Covered' /\ Ended'
    BY <2>1 DEF Covered, Ended, Walking, ItemPcs
  <2>. QED BY <1>0, <2>1, <2>2, <2>3, DoneKept DEF NoneCancelled, Done, AutoFirst
<1>3. CASE RetryFailedItems
  BY <1>3, DoneRetry
<1>4. CASE PauseMigration /\ ~InFlight
  <2>1. /\ UNCHANGED <<rows, left, reviewed, pc, mode, auto>> /\ pc = "idle"
        /\ status \notin TerminalStatus /\ status' = "PAUSED"
    BY <1>4 DEF PauseMigration, Serving, PauseTransfer, Move, UnfinishedMutation, TerminalStatus
  <2>2. ~Cancelling
    BY <2>1 DEF Cancelling, TerminalStatus
  <2>3. Covered' /\ Ended'
    BY <2>1 DEF Covered, Ended, Walking, ItemPcs
  <2>. QED BY <1>0, <2>1, <2>2, <2>3, DoneKept DEF NoneCancelled, Done, AutoFirst
<1>5. CASE (PauseMigration \/ CancelMigration) /\ InFlight
  <2>1. UNCHANGED <<rows, left, reviewed, pc, worker, status>>
    BY <1>5 DEF PauseMigration, CancelMigration
  <2>. QED BY <2>1 DEF Done, Covered, Walked, Cohort, InHand, Fin, Ended, CancelTraced, Cancelling,
            AutoFirst, Traces, CompletedMeansDone
<1>6. CASE CancelMigration /\ ~InFlight
  <2>1. /\ pc' = "cancelling" /\ UNCHANGED <<left, reviewed, worker, status>> /\ SweepUnstarted
        /\ pc = "idle"
    BY <1>6 DEF CancelMigration, Serving
  <2>2. CompletedMeansDone'
    <3>1. \A i \in Items : \/ rows'[i] = rows[i]
                           \/ rows[i].state \in UnstartedForCancel /\ rows'[i].state = "CANCELLED"
      BY <1>0, <2>1, SweepStates
    <3>2. "CANCELLED" \in Terminal
      BY DEF Terminal
    <3>3. UnstartedForCancel \cap (Skipped \cup {"VERIFIED", "CANCELLED"}) = {}
      BY DEF UnstartedForCancel, Skipped
    <3>4. status = "COMPLETED" =>
            \A i \in Items : \/ rows'[i].state \in Skipped \cup {"VERIFIED"}
                             \/ Budget["crash"] > 0 /\ rows'[i].state = "CANCELLED"
                             \/ /\ Budget["retry"] > 0
                                /\ rows'[i].state \in {"PENDING_OWNER_REQUIRED", "CANCELLED"}
      BY <3>1, <3>3 DEF Done, CompletedMeansDone
    <3>5. status = "COMPLETED_WITH_ERRORS" =>
            \A i \in Items : \/ rows'[i].state \in Terminal \cup {"RETRYABLE_FAILED"}
                             \/ Budget["retry"] > 0 /\ rows'[i].state = "PENDING_OWNER_REQUIRED"
      BY <3>1, <3>2 DEF Done, CompletedMeansDone
    <3>. QED BY <2>1, <3>4, <3>5 DEF CompletedMeansDone
  <2>3. Covered' /\ Ended' /\ CancelTraced' /\ AutoFirst' /\ Traces'
    BY <2>1 DEF Done, Covered, Ended, CancelTraced, Cancelling, AutoFirst, Traces, Walking, ItemPcs,
         EndPcs
  <2>. QED BY <2>2, <2>3 DEF Done
<1>7. CASE CancelJobStep
  <2>1. /\ UNCHANGED <<rows, left, reviewed, worker>> /\ pc = "cancelling" /\ pc' = "idle"
        /\ \/ status' = "CANCELLED"
           \/ status' = status /\ CancelJob(status) = Illegal
    BY <1>7 DEF CancelJobStep, CancelJob, Move
  <2>2. Covered' /\ Ended' /\ AutoFirst' /\ Traces' /\ CompletedMeansDone'
    BY <2>1 DEF Done, Covered, Ended, AutoFirst, Traces, CompletedMeansDone, Walking, ItemPcs,
         EndPcs
  <2>3. CancelTraced'
    <3>1. CASE status' = "CANCELLED"
      BY <3>1 DEF CancelTraced, Cancelling
    <3>2. CASE status' = status /\ CancelJob(status) = Illegal
      <4>1. status \in {"COMPLETED", "COMPLETED_WITH_ERRORS"}
        BY <1>0, <3>2 DEF IInv, JobOK, CancelJob, Move, TerminalStatus, Illegal, Done, Traces
      <4>2. "CANCELLED" \notin Skipped
        BY DEF Skipped
      <4>. QED BY <2>1, <3>2, <4>1, <4>2, CrashBudgetType
               DEF Done, CompletedMeansDone, CancelTraced, Cancelling
    <3>. QED BY <2>1, <3>1, <3>2
  <2>. QED BY <2>2, <2>3 DEF Done
<1>. QED BY <1>1, <1>2, <1>3, <1>4, <1>5, <1>6, <1>7 DEF UserStep

(* The list is loaded, marked and walked.                                   *)
LEMMA DoneWalk ==
  ASSUME Known, Done, NEW i,
         \/ RunAutoMutationIfReady \/ ClearFlags \/ LoadCanary \/ LoadBulk \/ CanaryMarked
         \/ MarkCanary(i) \/ TakeTransferred(i) \/ TakeOffered(i) \/ TakeUnstarted(i)
  PROVE  Done'
<1>0. /\ IInv /\ rows \in [Items -> Row] /\ Cohort \subseteq Items /\ Traces /\ AutoFirst
      /\ DOMAIN copy \subseteq Items /\ copy \in [DOMAIN copy -> Row]
      /\ \A j \in DOMAIN copy : copy[j].state \in TransferActive
      /\ left["crash"] \in Nat /\ left["crash"] <= left["crash"]
  BY CrashBudgetType DEF Known, IInv, DataOK, CopyOK, Cohort, Done
<1>1. CASE RunAutoMutationIfReady
  <2>1. /\ UNCHANGED <<rows, left, reviewed>> /\ pc = "scanned" /\ pc' = "launch"
        /\ status = "READY_FOR_REVIEW" /\ status' = "RUNNING_CANARY" /\ ~reviewed
    BY <1>0, <1>1 DEF RunAutoMutationIfReady, Launch, StartCanary, Move, AutoFirst
  <2>2. ~Cancelling
    BY <2>1 DEF Cancelling
  <2>3. Covered' /\ Ended'
    BY <2>1 DEF Covered, Ended, Walking, ItemPcs
  <2>. QED BY <1>0, <2>1, <2>2, <2>3, DoneKept DEF NoneCancelled
<1>2. CASE ~RunAutoMutationIfReady
  <2>1. /\ pc \in {"launch", "start", "mark", "next"}
        /\ UNCHANGED <<left, reviewed, status, mode, auto, outcome>>
        /\ pc' \in {"start", "mark", "next"} \cup ItemPcs
    BY <1>2 DEF RunAutoMutationIfReady, ClearFlags, LoadCanary, LoadBulk, CanaryMarked, MarkCanary,
         TakeTransferred, TakeUnstarted, Take, TakeOffered, Quiet, Unmoved, ItemPcs
  <2>2. /\ status \notin TerminalStatus /\ pc \in (WorkerPcs \ {"persist"})
        /\ pc' \notin {"scanned", "sweep"}
        /\ auto' /\ mode' = "canary" => ~reviewed'
    BY <1>0, <2>1, OpenJob DEF WorkerPcs, BatchPcs, AutoFirst, EndPcs, ItemPcs
  <2>3. Ended'
    BY <2>1 DEF Ended, ItemPcs
  <2>4. NoneCancelled
    <3>1. CASE rows' = rows
      BY <3>1 DEF NoneCancelled
    <3>2. CASE \/ rows' = [rows EXCEPT ![i] = copy[i]] /\ i \in DOMAIN copy
               \/ rows' = [rows EXCEPT ![i] = [copy[i] EXCEPT !.state = "PERMANENT_FAILED"]]
                    /\ i \in DOMAIN copy
      <4>1. rows'[i].state # "CANCELLED" /\ \A j \in Items \ {i} : rows'[j] = rows[j]
        BY <1>0, <3>2 DEF TransferActive, Row
      <4>. QED BY <4>1 DEF NoneCancelled
    <3>. QED BY <1>2, <3>1, <3>2 DEF ClearFlags, LoadCanary, LoadBulk, CanaryMarked, MarkCanary,
              TakeTransferred, TakeUnstarted, Take, TakeOffered, IsFirst, Unmarked, Quiet
  <2>5. Covered'
    <3>1. CASE ClearFlags
      BY <3>1 DEF ClearFlags, Covered, Walking, ItemPcs
    <3>2. CASE LoadCanary
      <4>1. pc' = "mark" /\ mode' = "canary" /\ copy' = CanaryBatch /\ rows' = rows
        BY <3>2 DEF LoadCanary
      <4>2. \A j \in Cohort : rows[j].state \in Terminal \/ j \in DOMAIN CanaryBatch
        BY DEF CanaryBatch, RowsOf
      <4>3. Cohort' = Cohort
        BY <4>1 DEF Cohort
      <4>. QED BY <4>1, <4>2, <4>3 DEF Covered, Walked, InHand, Fin
    <3>3. CASE LoadBulk
      <4>1. pc' = "next" /\ mode' = "bulk" /\ copy' = RowsOf(Active) /\ rows' = rows
        BY <3>3 DEF LoadBulk
      <4>2. \A j \in Items : rows[j].state \in Terminal \/ j \in DOMAIN RowsOf(Active)
        BY <1>0, InactiveSettled DEF RowsOf, Active
      <4>. QED BY <4>1, <4>2 DEF Covered, Walked, InHand, Fin
    <3>4. CASE CanaryMarked
      <4>1. pc = "mark" /\ pc' = "next" /\ UNCHANGED <<rows, mode, copy>>
        BY <3>4 DEF CanaryMarked
      <4>. QED BY <4>1 DEF Done, Covered, Walking, Walked, Cohort, InHand, Fin, ItemPcs
    <3>5. CASE MarkCanary(i)
      <4>1. /\ i \in DOMAIN copy /\ rows' = [rows EXCEPT ![i] = copy[i]]
            /\ pc = "mark" /\ UNCHANGED <<pc, mode, copy>>
        BY <3>5 DEF MarkCanary, IsFirst, Unmarked
      <4>2. mode = "canary"
        BY <4>1 DEF Known, Marks, CopyMarks
      <4>3. \A j \in Cohort' : j \in Cohort \/ j = i
        BY <1>0, <4>1 DEF Cohort
      <4>4. \A j \in Cohort' : Fin(rows'[j].state) \/ j \in DOMAIN copy
        BY <1>0, <4>1, <4>2, <4>3 DEF Done, Covered, Walking, Walked, InHand, ItemPcs
      <4>. QED BY <4>1, <4>2, <4>4 DEF Covered, Walked, InHand, Fin
    <3>6. CASE TakeTransferred(i) \/ TakeUnstarted(i)
      <4>1. /\ pc = "next" /\ pc' \in ItemPcs /\ cur' = i /\ copy' = Without(copy, i)
            /\ UNCHANGED <<rows, mode>>
        BY <3>6 DEF TakeTransferred, TakeUnstarted, Take, ItemPcs
      <4>2. \A j \in Walked : Fin(rows[j].state) \/ j \in DOMAIN copy
        BY <4>1 DEF Done, Covered, Walking, InHand, ItemPcs
      <4>3. Walked' = Walked
        BY <4>1 DEF Walked, Cohort
      <4>. QED BY <4>1, <4>2, <4>3 DEF Covered, InHand, Fin, Without
    <3>7. CASE TakeOffered(i)
      <4>1. /\ pc = "next" /\ copy' = Without(copy, i) /\ i \in DOMAIN copy
            /\ UNCHANGED <<mode>>
            /\ \/ cur' = i /\ pc' \in ItemPcs /\ rows' = rows
               \/ pc' = "next" /\ rows' = [rows EXCEPT ![i] = [copy[i] EXCEPT !.state = "PERMANENT_FAILED"]]
        BY <3>7 DEF TakeOffered, IsFirst, ItemPcs
      <4>2. \A j \in Walked : Fin(rows[j].state) \/ j \in DOMAIN copy
        BY <4>1 DEF Done, Covered, Walking, InHand, ItemPcs
      <4>3. copy[i].canary = rows[i].canary
        BY <4>1 DEF Known, Marks, CopyMarks
      <4>4. CASE cur' = i /\ pc' \in ItemPcs /\ rows' = rows
        <5>1. Walked' = Walked
          BY <4>1, <4>4 DEF Walked, Cohort
        <5>. QED BY <4>1, <4>2, <4>4, <5>1 DEF Covered, InHand, Fin, Without
      <4>5. CASE pc' = "next" /\ rows' = [rows EXCEPT ![i] = [copy[i] EXCEPT !.state = "PERMANENT_FAILED"]]
        <5>1. /\ rows'[i].state = "PERMANENT_FAILED" /\ rows'[i].canary = rows[i].canary
              /\ \A j \in Items \ {i} : rows'[j] = rows[j]
          BY <1>0, <4>1, <4>3, <4>5 DEF Row
        <5>2. Walked' = Walked /\ Walked \subseteq Items
          BY <1>0, <4>1, <5>1 DEF Walked, Cohort
        <5>3. \A j \in Walked : Fin(rows'[j].state) \/ j \in DOMAIN copy'
          BY <4>1, <4>2, <5>1, <5>2 DEF Fin, Terminal, Without
        <5>. QED BY <5>2, <5>3 DEF Covered, InHand, Fin
      <4>. QED BY <4>1, <4>4, <4>5
    <3>. QED BY <1>2, <3>1, <3>2, <3>3, <3>4, <3>5, <3>6, <3>7
  <2>. QED BY <1>0, <2>1, <2>2, <2>3, <2>4, <2>5, DoneRunning
<1>. QED BY <1>1, <1>2

(* The list is exhausted, or the run ends before.                           *)
LEMMA DoneEnd ==
  ASSUME Known, Done,
         \/ StopRequested \/ BulkExhausted \/ CanaryExhausted \/ CanaryContinues
         \/ CanaryUnsettled \/ (RunFails /\ pc \notin ItemPcs)
  PROVE  Done'
<1>0. /\ IInv /\ Cohort \subseteq Items
  BY DEF Known, Cohort
<1>1. /\ pc \in {"start", "mark", "next"} /\ rows' = rows
      /\ pc' \in EndPcs \/ (pc' = "start" /\ mode' = "bulk")
      /\ left' = left \/ Spend("fault")
      /\ pc' = "sweep" => outcome' = "cancel"
  BY DEF StopRequested, BulkExhausted, CanaryExhausted, CanaryContinues, CanaryUnsettled, RunFails,
     Exhausted, EndRun, LetGo, Quiet, EndPcs
<1>2. status' \notin TerminalStatus /\ pc \in (WorkerPcs \ {"persist"})
  <2>1. status \notin TerminalStatus /\ pc \in (WorkerPcs \ {"persist"})
    BY <1>0, <1>1, OpenJob DEF WorkerPcs, BatchPcs
  <2>2. status' \in {status, "RUNNING"}
    BY DEF StopRequested, BulkExhausted, CanaryExhausted, CanaryContinues, CanaryUnsettled,
       RunFails, Quiet, Unmoved
  <2>. QED BY <2>1, <2>2 DEF TerminalStatus
<1>3. left'["crash"] = left["crash"] /\ NoneCancelled /\ pc' # "scanned"
  BY <1>0, <1>1, SpendKeepsCrash DEF NoneCancelled, EndPcs
<1>4. Covered'
  BY <1>1 DEF Covered, Walking, ItemPcs, EndPcs
<1>5. Ended'
  <2>1. CASE BulkExhausted
    <3>1. /\ pc = "next" /\ mode = "bulk" /\ DOMAIN copy = {}
          /\ outcome' = "done" => ~Failed(Items)
      BY <2>1 DEF BulkExhausted, Exhausted, EndRun, LetGo
    <3>2. \A i \in Items : Fin(rows[i].state)
      BY <3>1 DEF Done, Covered, Walking, Walked, InHand, ItemPcs
    <3>. QED BY <1>1, <3>1, <3>2 DEF Ended, Failed, Fin
  <2>2. CASE CanaryExhausted /\ CanaryCoversAll
    <3>1. /\ pc = "next" /\ mode = "canary" /\ DOMAIN copy = {} /\ auto /\ Active \subseteq Cohort
          /\ outcome' = "done" => ~Failed(Cohort)
      BY <2>2 DEF CanaryExhausted, CanaryCoversAll, Exhausted, EndRun, LetGo
    <3>2. \A i \in Cohort : Fin(rows[i].state)
      BY <3>1 DEF Done, Covered, Walking, Walked, InHand, ItemPcs
    <3>3. ~reviewed
      BY <3>1 DEF Done, AutoFirst, EndPcs
    <3>4. \A i \in Items \ Cohort : rows[i].state = "CANCELLED"
      <4>1. \A i \in Items \ Cohort : rows[i].state \in {"ELIGIBLE", "CANCELLED"}
        BY <3>3 DEF Known, CanaryOnly, RowGate, Cohort
      <4>2. \A i \in Items \ Cohort : rows[i].state \notin TransferActive
        BY <3>1 DEF Active
      <4>. QED BY <4>1, <4>2 DEF TransferActive
    <3>5. Fin("CANCELLED")
      BY DEF Fin, Terminal
    <3>6. \A i \in Items : Fin(rows[i].state)
      BY <3>2, <3>4, <3>5
    <3>. QED BY <1>1, <3>1, <3>4, <3>6 DEF Ended, Failed, Fin
  <2>3. CASE ~(BulkExhausted \/ (CanaryExhausted /\ CanaryCoversAll))
    <3>1. outcome' \notin {"done", "done_with_errors"} \/ pc' = "start"
      BY <1>0, <2>3 DEF StopRequested, BulkExhausted, CanaryExhausted, CanaryContinues,
         CanaryUnsettled, RunFails, EndRun, LetGo, IInv, JobOK
    <3>. QED BY <3>1 DEF Ended
  <2>. QED BY <2>1, <2>2, <2>3
<1>6. auto' /\ mode' = "canary" /\ pc' \notin EndPcs => ~reviewed'
  BY <1>1
<1>. QED BY <1>0, <1>1, <1>2, <1>3, <1>4, <1>5, <1>6, DoneRunning

(* The outcome is stored. *)
LEMMA DonePersist ==
  ASSUME Known, Done, PersistOutcome
  PROVE  Done'
<1>0. /\ IInv /\ left["crash"] \in Nat /\ left["crash"] <= left["crash"]
  BY CrashBudgetType DEF Known
<1>1. /\ pc = "persist" /\ pc' = "idle" /\ UNCHANGED <<rows, left, reviewed>> /\ ~auto'
      /\ status' = FinalStatus(status, outcome)
  BY DEF PersistOutcome, LetGo
<1>2. status \in {"RUNNING_CANARY", "RUNNING"} /\ outcome \in Outcomes
      /\ (outcome = "canary_done" => status = "RUNNING_CANARY")
  BY <1>0, <1>1 DEF IInv, JobOK, ControlOK, WorkerPcs, EndPcs
<1>3. /\ outcome = "done" => status' = "COMPLETED"
      /\ outcome = "done_with_errors" => status' = "COMPLETED_WITH_ERRORS"
      /\ outcome = "cancel" => status' = "CANCELLED"
      /\ outcome \notin {"done", "done_with_errors", "cancel"} =>
            status' \notin TerminalStatus
  BY <1>1, <1>2 DEF FinalStatus, CompleteCanary, StartBulk, CompleteTransfer, PauseSharingLimit,
     WaitForQuota, RequireAuth, PauseTransfer, CancelJob, Move, TerminalStatus, UnfinishedMutation,
     Outcomes, Halts, Illegal, Statuses
<1>4. Covered' /\ Ended' /\ AutoFirst'
  BY <1>1 DEF Covered, Ended, AutoFirst, Walking, ItemPcs
<1>5. Traces'
  BY <1>1, <1>2, <1>3 DEF Done, Traces, TerminalStatus, Outcomes, Halts
<1>6. CASE outcome = "cancel"
  <2>1. CancelTraced' /\ CompletedMeansDone'
    BY <1>3, <1>6 DEF CancelTraced, Cancelling, CompletedMeansDone
  <2>. QED BY <1>4, <1>5, <2>1 DEF Done
<1>7. CASE outcome # "cancel"
  <2>1. Budget["crash"] = 0 => \A i \in Items : rows[i].state # "CANCELLED"
    BY <1>1, <1>2, <1>7 DEF Done, CancelTraced, Cancelling
  <2>2. CancelTraced'
    BY <1>1, <2>1 DEF CancelTraced
  <2>3. CASE outcome = "done"
    <3>1. \A i \in Items :
            Fin(rows[i].state) /\ rows[i].state \notin {"RETRYABLE_FAILED", "PERMANENT_FAILED"}
      BY <1>1, <2>3 DEF Done, Ended
    <3>2. \A i \in Items : \/ rows[i].state \in Skipped \cup {"VERIFIED"}
                           \/ rows[i].state = "CANCELLED"
                           \/ Budget["retry"] > 0 /\ rows[i].state = "PENDING_OWNER_REQUIRED"
      BY <3>1 DEF Fin, Terminal
    <3>3. CompletedMeansDone'
      BY <1>1, <1>3, <2>1, <2>3, <3>2, CrashBudgetType DEF CompletedMeansDone
    <3>. QED BY <1>4, <1>5, <2>2, <3>3 DEF Done
  <2>4. CASE outcome = "done_with_errors"
    <3>1. \A i \in Items : Fin(rows[i].state)
      BY <1>1, <2>4 DEF Done, Ended
    <3>2. CompletedMeansDone'
      BY <1>1, <1>3, <2>4, <3>1 DEF CompletedMeansDone, Fin
    <3>. QED BY <1>4, <1>5, <2>2, <3>2 DEF Done
  <2>5. CASE outcome \notin {"done", "done_with_errors"}
    <3>1. CompletedMeansDone'
      BY <1>3, <1>7, <2>5 DEF CompletedMeansDone, TerminalStatus
    <3>. QED BY <1>4, <1>5, <2>2, <3>1 DEF Done
  <2>. QED BY <2>3, <2>4, <2>5
<1>. QED BY <1>6, <1>7

(* The sweep of a cancelled run. *)
LEMMA DoneSweep ==
  ASSUME Known, Done, SweepCancelled
  PROVE  Done'
<1>1. /\ pc = "sweep" /\ pc' = "persist" /\ UNCHANGED <<left, reviewed, status, worker>>
      /\ outcome = "cancel" /\ IInv
  BY DEF SweepCancelled, Quiet, Unmoved, Done, Traces, Known
<1>2. status \notin TerminalStatus
  BY <1>1, OpenJob DEF WorkerPcs, EndPcs
<1>3. Covered' /\ Ended' /\ CancelTraced' /\ AutoFirst'
  BY <1>1 DEF Covered, Ended, CancelTraced, Cancelling, AutoFirst, Walking, ItemPcs, EndPcs
<1>4. Traces' /\ CompletedMeansDone'
  BY <1>1, <1>2 DEF Done, Traces, CompletedMeansDone, TerminalStatus
<1>. QED BY <1>3, <1>4 DEF Done

(* Reconciliation, faults, restarts and the world outside. *)
LEMMA DoneRest ==
  ASSUME Known, Done, Rest
  PROVE  Done'
<1>0. /\ IInv /\ rows \in [Items -> Row] /\ left["crash"] \in Nat /\ left["crash"] <= left["crash"]
      /\ DOMAIN copy \subseteq Items /\ copy \in [DOMAIN copy -> Row]
      /\ \A j \in DOMAIN copy : copy[j].state \in TransferActive
  BY CrashBudgetType DEF Known, IInv, DataOK, CopyOK
<1>1. ASSUME NEW i \in Items, ReconcileItem(i) PROVE Done'
  <2>1. /\ i \in DOMAIN copy /\ pc' = pc /\ pc \in {"resume", "startup"}
        /\ UNCHANGED <<left, mode, auto, outcome, status, reviewed>>
        /\ \/ rows' = [rows EXCEPT ![i] = Reconciled(copy[i], drive[i])]
           \/ rows' = [rows EXCEPT ![i] = [copy[i] EXCEPT !.state = "PERMANENT_FAILED"]]
    BY <1>1 DEF ReconcileItem, IsFirst, Reading, Quiet, Unmoved
  <2>2. copy[i] \in Row /\ copy[i].state # "CANCELLED"
    BY <1>0, <2>1 DEF TransferActive
  <2>3. Reconciled(copy[i], drive[i]).state # "CANCELLED"
    BY <2>2 DEF Reconciled, Row
  <2>4. NoneCancelled
    BY <1>0, <2>1, <2>2, <2>3 DEF NoneCancelled, Row
  <2>5. Covered' /\ Ended' /\ (auto' /\ mode' = "canary" => ~reviewed')
    BY <2>1 DEF Covered, Ended, Walking, ItemPcs, Done, AutoFirst, EndPcs
  <2>6. status \notin TerminalStatus
    BY <1>0, <2>1, OpenJob
  <2>. QED BY <1>0, <2>1, <2>4, <2>5, <2>6, DoneRunning
<1>2. CASE ResumeReconciled \/ StartupReconciled \/ ReconcileError \/ ReconcileUnauthorized
  <2>1. /\ pc \in {"resume", "startup"} /\ UNCHANGED <<rows, mode, reviewed>>
        /\ auto' = auto \/ ~auto'
        /\ pc' \in {"launch", "idle"} /\ (left' = left \/ Spend("fault"))
        /\ status' \in {status, "RUNNING_CANARY", "RUNNING", "PAUSED", "AUTH_REQUIRED", Illegal}
    BY <1>2 DEF ResumeReconciled, StartupReconciled, ReconcileError, ReconcileUnauthorized, Reading,
         Launch, ResumeTransfer, PauseTransfer, RequireAuth, Move
  <2>2. status' \notin TerminalStatus
    BY <1>0, <2>1, OpenJob DEF TerminalStatus, Illegal
  <2>3. Covered' /\ Ended' /\ (auto' /\ mode' = "canary" => ~reviewed')
    BY <2>1 DEF Covered, Ended, Walking, ItemPcs, Done, AutoFirst, EndPcs
  <2>. QED BY <1>0, <2>1, <2>2, <2>3, SpendKeepsCrash, DoneRunning DEF NoneCancelled
<1>3. CASE Startup \/ StartupWithoutTokens
  <2>1. /\ pc = "down" /\ UNCHANGED <<rows, mode, auto, reviewed>> /\ pc' \in {"startup", "idle"}
        /\ left' = left \/ Spend("fault")
        /\ \/ status' = status
           \/ status \in UnfinishedMutation /\ status' = "AUTH_REQUIRED"
    BY <1>3 DEF Startup, StartupWithoutTokens, Quiet, Unmoved, RequireAuth, Move
  <2>2. left'["crash"] = left["crash"]
    BY <1>0, <2>1, SpendKeepsCrash
  <2>3. Cancelling => Cancelling'
    BY <2>1 DEF Cancelling, UnfinishedMutation
  <2>4. Covered' /\ Ended' /\ (auto' /\ mode' = "canary" => ~reviewed')
    BY <2>1 DEF Covered, Ended, Walking, ItemPcs, Done, AutoFirst, EndPcs
  <2>. QED BY <1>0, <2>1, <2>2, <2>3, <2>4, DoneKept DEF NoneCancelled
<1>4. CASE World
  <2>1. UNCHANGED <<rows, pc, worker, status, reviewed>> /\ Spend("env")
    BY <1>4 DEF World, Touched, Outside, Unmoved
  <2>2. left'["crash"] = left["crash"]
    BY <1>0, <2>1, SpendKeepsCrash
  <2>. QED BY <2>1, <2>2 DEF Done, Covered, Walked, Cohort, InHand, Fin, Ended, CancelTraced,
            Cancelling, AutoFirst, Traces, CompletedMeansDone
<1>5. CASE Crash
  <2>1. /\ UNCHANGED <<rows, status, reviewed>> /\ pc' = "down" /\ ~auto' /\ Spend("crash")
    BY <1>5 DEF Crash, LetGo
  <2>2. left["crash"] > 0 /\ left'["crash"] = left["crash"] - 1
    BY <1>0, <2>1 DEF Spend, IInv, ControlOK
  <2>3. Budget["crash"] > 0 /\ left'["crash"] <= Budget["crash"]
    BY <1>0, <2>2, CrashBudgetType DEF Done, Traces
  <2>4. Covered' /\ Ended' /\ AutoFirst' /\ CancelTraced'
    BY <2>1, <2>3, CrashBudgetType DEF Covered, Ended, Walking, ItemPcs, AutoFirst, CancelTraced
  <2>5. Traces' /\ CompletedMeansDone'
    BY <2>1, <2>3 DEF Done, Traces, CompletedMeansDone
  <2>. QED BY <2>4, <2>5 DEF Done
<1>. QED BY <1>1, <1>2, <1>3, <1>4, <1>5, DoneEnd DEF Rest, ReconcileStep

(* Every step keeps it. *)
LEMMA DoneNext ==
  ASSUME Known, Done, [Next]_vars
  PROVE  Done'
<1>0. SettledStay
  BY UnsettledNext DEF Known
<1>1. CASE UNCHANGED vars
  BY <1>1 DEF vars, Done, Covered, Walked, Cohort, InHand, Fin, Ended, CancelTraced, Cancelling,
     AutoFirst, Traces, CompletedMeansDone
<1>2. CASE BatchStep
  <2>1. ASSUME NEW i \in Items, MarkCanary(i) \/ TakeTransferred(i) \/ TakeOffered(i) \/ TakeUnstarted(i)
        PROVE  Done'
    BY <2>1, DoneWalk
  <2>2. CASE RunAutoMutationIfReady \/ ClearFlags \/ LoadCanary \/ LoadBulk \/ CanaryMarked
    BY <2>2, DoneWalk
  <2>. QED BY <1>2, <2>1, <2>2, DoneEnd, DonePersist, DoneSweep DEF BatchStep
<1>3. CASE Next /\ ~BatchStep
  BY <1>0, <1>3, StepKinds, DoneItem, DoneUser, DoneRest
<1>. QED BY <1>1, <1>2, <1>3

(* At first nothing is done. *)
LEMMA DoneInit ==
  ASSUME Init PROVE Done
<1>1. /\ pc \in {"idle", "scanned"} /\ ~reviewed /\ ~auto /\ left = Budget
      /\ status = "READY_FOR_REVIEW" /\ \A i \in Items : rows[i].state = "ELIGIBLE"
  BY DEF Init
<1>. QED BY <1>1, CrashBudgetType
     DEF Done, Covered, Walking, ItemPcs, Ended, CancelTraced, AutoFirst, Traces, CompletedMeansDone

(* A job that says COMPLETED, or COMPLETED_WITH_ERRORS, is: whatever was    *)
(* interrupted, resumed, cancelled or changed in Drive before, no row was   *)
(* forgotten and no failure overlooked.                                     *)
THEOREM CompletedIsDone == Spec => []CompletedMeansDone
<1>1. Spec => []Known
  <2>1. IInv /\ Unsettled /\ Ahead /\ [Next]_vars => Ahead'
    BY AheadNext
  <2>2. Known <=> IInv /\ Unsettled /\ CanaryOnly /\ Marks /\ Ahead
    BY DEF Known
  <2>. QED BY <2>1, <2>2, MarksInvariance, AheadInit, PTL DEF Spec
<1>2. Known /\ Done /\ [Next]_vars => Done'
  BY DoneNext
<1>3. Done => CompletedMeansDone
  BY DEF Done
<1>. QED BY <1>1, <1>2, <1>3, DoneInit, PTL DEF Spec

--------------------------------------------------------------------------------
(* The transfer engine implements OwnershipHandover: every step it makes is *)
(* a step of the hand-over, or changes nothing the hand-over speaks of.     *)

(* What a file and its row mean to the hand-over. *)
Who(f)     == IF f.owner \in {"source", "target"} THEN f.owner ELSE "elsewhere"
Offered(f) == f.perm = "pending"
Claim(r)   == IF r.state = "VERIFIED" THEN "verified"
              ELSE IF r.state \in Terminal THEN "closed" ELSE "open"

(* The permission of the target tells who owns the file. *)
DriveAgrees ==
  \A i \in Items : /\ drive[i].perm = "pending" => drive[i].owner = "source"
                   /\ drive[i].perm = "owner" => drive[i].owner = "target"

SameFile(i)  == Who(drive'[i]) = Who(drive[i]) /\ Offered(drive'[i]) = Offered(drive[i])
SameClaim(i) == Claim(rows'[i]) = Claim(rows[i])

Simulates == [Handover!Next]_(Handover!vars)

(* No claim is settled but by closing it. *)
NoNewVerified == \A i \in Items : rows'[i].state = "VERIFIED" => rows[i].state = "VERIFIED"

(* Some claims are closed, and nothing else. *)
LEMMA Closes ==
  ASSUME \A i \in Items : SameFile(i), NEW S \in SUBSET Items,
         \A i \in S : Claim(rows[i]) = "open" /\ Claim(rows'[i]) = "closed",
         \A i \in Items \ S : SameClaim(i)
  PROVE  Simulates
<1>1. Handover!Close(S)
  BY DEF SameFile, SameClaim, Who, Offered, Claim, Handover!Close
<1>. QED BY <1>1 DEF Simulates, Handover!Next

(* A step that touches no file may close the claims of some.                *)
LEMMA Settles ==
  ASSUME \A i \in Items : SameFile(i), SettledStay, NoNewVerified
  PROVE  Simulates
<1>. DEFINE S == {i \in Items : rows[i].state \notin Terminal /\ rows'[i].state \in Terminal}
<1>1. S \in SUBSET Items /\ "VERIFIED" \in Terminal
  BY DEF Terminal
<1>2. \A i \in S : Claim(rows[i]) = "open" /\ Claim(rows'[i]) = "closed"
  BY <1>1 DEF Claim, NoNewVerified
<1>3. \A i \in Items \ S : SameClaim(i)
  BY <1>1 DEF SettledStay, Claim, SameClaim
<1>. QED BY <1>1, <1>2, <1>3, Closes

(* The claim of one file is verified. *)
LEMMA Confirms ==
  ASSUME drive' = drive, NEW i \in Items, \A j \in Items \ {i} : SameClaim(j),
         Claim(rows[i]) = "open", Claim(rows'[i]) = "verified", drive[i].owner = "target"
  PROVE  Simulates
<1>1. Handover!Verify(i)
  BY DEF SameClaim, Who, Offered, Claim, Handover!Verify
<1>. QED BY <1>1 DEF Simulates, Handover!Next, Handover!Change

(* A step that touches one file, and may close its claim.                   *)
OneFile(i) ==
  /\ \A j \in Items \ {i} : SameFile(j) /\ SameClaim(j)
  /\ SameClaim(i) \/ (Claim(rows[i]) = "open" /\ Claim(rows'[i]) = "closed")

(* An offer, with or without the end of its claim. *)
LEMMA OffersFile ==
  ASSUME NEW i \in Items, OneFile(i), drive[i].owner = "source", drive'[i].owner = "source",
         drive[i].perm # "pending", drive'[i].perm = "pending"
  PROVE  Simulates
<1>1. CASE SameClaim(i)
  <2>1. Handover!Offer(i)
    BY <1>1 DEF OneFile, SameFile, SameClaim, Who, Offered, Claim, Handover!Offer
  <2>. QED BY <2>1 DEF Simulates, Handover!Next, Handover!Change
<1>2. CASE Claim(rows[i]) = "open" /\ Claim(rows'[i]) = "closed"
  <2>1. Handover!ChangeAndClose(i)
    BY <1>2 DEF OneFile, SameFile, SameClaim, Who, Offered, Claim, Handover!ChangeAndClose
  <2>. QED BY <2>1 DEF Simulates, Handover!Next
<1>. QED BY <1>1, <1>2 DEF OneFile

(* An acceptance, with or without the end of its claim. *)
LEMMA AcceptsFile ==
  ASSUME NEW i \in Items, OneFile(i), drive[i].owner = "source", drive'[i].owner = "target",
         drive[i].perm = "pending", drive'[i].perm # "pending"
  PROVE  Simulates
<1>1. CASE SameClaim(i)
  <2>1. Handover!Accept(i)
    BY <1>1 DEF OneFile, SameFile, SameClaim, Who, Offered, Claim, Handover!Accept
  <2>. QED BY <2>1 DEF Simulates, Handover!Next, Handover!Change
<1>2. CASE Claim(rows[i]) = "open" /\ Claim(rows'[i]) = "closed"
  <2>1. Handover!ChangeAndClose(i)
    BY <1>2 DEF OneFile, SameFile, SameClaim, Who, Offered, Claim, Handover!ChangeAndClose
  <2>. QED BY <2>1 DEF Simulates, Handover!Next
<1>. QED BY <1>1, <1>2 DEF OneFile

(* An offer is withdrawn. *)
LEMMA WithdrawsFile ==
  ASSUME NEW i \in Items, OneFile(i), rows' = rows, drive'[i].owner = drive[i].owner,
         drive[i].perm = "pending", drive'[i].perm # "pending"
  PROVE  Simulates
<1>1. Handover!Withdraw(i)
  BY DEF OneFile, SameFile, SameClaim, Who, Offered, Claim, Handover!Withdraw
<1>. QED BY <1>1 DEF Simulates, Handover!Next, Handover!Change

(* A file is given away. *)
LEMMA LosesFile ==
  ASSUME NEW i \in Items, OneFile(i), rows' = rows, drive[i].owner \in {"source", "target"},
         drive'[i].owner \notin {"source", "target"}, drive'[i].perm # "pending"
  PROVE  Simulates
<1>1. Handover!Lose(i)
  BY DEF OneFile, SameFile, SameClaim, Who, Offered, Claim, Handover!Lose
<1>. QED BY <1>1 DEF Simulates, Handover!Next, Handover!Change

--------------------------------------------------------------------------------
(* Which steps settle a row as VERIFIED: the confirmation alone.            *)

(* The steps of an item settle its row as VERIFIED by a confirmation only. *)
LEMMA NotVerified ==
  ASSUME IInv, Unsettled, ItemWork
  PROVE  NoNewVerified \/ VerifyConfirmed
<1>0. /\ pc \in ItemPcs /\ cur \in Items /\ rows \in [Items -> Row] /\ mem \in Row
      /\ \A j \in Items \ {cur} : rows'[j] = rows[j]
      /\ mem.state # "VERIFIED"
  <2>1. pc \in ItemPcs /\ WriteBack
    BY ItemWrites
  <2>2. Knows(pc, mem.state, mem.perm)
    BY DEF IInv, ItemOK
  <2>. QED BY <2>1, <2>2 DEF IInv, ItemOK, DataOK, WriteBack, Knows, ItemPcs
<1>. SUFFICES ASSUME ~VerifyConfirmed
              PROVE  rows'[cur] \in {rows[cur], mem} \/ rows'[cur].state # "VERIFIED"
  BY <1>0 DEF NoNewVerified
<1>1. ASSUME NEW s, NEW p, NEW next, s # "VERIFIED", Save(s, p, next)
      PROVE  rows'[cur] = rows[cur] \/ rows'[cur].state # "VERIFIED"
  <2>1. CASE CanTransition(mem.state, s)
    <3>1. rows' = [rows EXCEPT ![cur] = [mem EXCEPT !.state = s, !.perm = p]]
      BY <1>1, <2>1 DEF Save
    <3>. QED BY <1>0, <1>1, <3>1 DEF Row
  <2>2. CASE ~CanTransition(mem.state, s)
    BY <1>1, <2>2 DEF Save
  <2>. QED BY <2>1, <2>2
<1>2. ASSUME AdvanceToAcceptRequired("accepting")
      PROVE  rows'[cur] = rows[cur] \/ rows'[cur].state # "VERIFIED"
  <2>1. CASE CanAdvance(mem.state)
    <3>1. PICK s \in {"ACCEPTING", "ACCEPT_REQUIRED"} :
            rows' = [rows EXCEPT ![cur] = [mem EXCEPT !.state = s, !.perm = TRUE]]
      BY <1>2, <2>1 DEF AdvanceToAcceptRequired
    <3>. QED BY <1>0, <3>1 DEF Row
  <2>2. CASE ~CanAdvance(mem.state)
    BY <1>2, <2>2 DEF AdvanceToAcceptRequired
  <2>. QED BY <2>1, <2>2
<1>3. ASSUME NEW s, s # "VERIFIED", SaveAndFinish(s) \/ FinalizeStep(s)
      PROVE  rows'[cur] \in {rows[cur], mem} \/ rows'[cur].state # "VERIFIED"
  BY <1>0, <1>3, FinishWrites, FinalizeWrites
<1>4. CASE ReadSkips \/ ReadNotOwner \/ VerifyTrashed \/ VerifyNobody
  <2>1. PICK s \in {"SKIPPED_TRASHED", "SKIPPED_SHARED_DRIVE", "PERMANENT_FAILED"} :
          SaveAndFinish(s) \/ FinalizeStep(s)
    BY <1>4 DEF ReadSkips, ReadNotOwner, VerifyTrashed, VerifyNobody
  <2>. QED BY <1>3, <2>1
<1>5. CASE ReadAlreadyMoved \/ ReadToOffer \/ SaveAccepting \/ SaveTransferred \/ SaveVerifying
  <2>1. PICK s \in {"VERIFYING", "PENDING_OWNER_REQUIRED", "ACCEPTING", "TRANSFERRED"},
             p \in {TRUE, mem.perm},
             next \in {"verify", "update", "create", "accept", "transferred"} : Save(s, p, next)
    BY <1>5 DEF ReadAlreadyMoved, ReadToOffer, SaveAccepting, SaveTransferred, SaveVerifying
  <2>. QED BY <1>1, <2>1
<1>6. CASE ReadAlreadyOffered \/ SaveOffered
  BY <1>2, <1>6 DEF ReadAlreadyOffered, SaveOffered
<1>7. CASE OfferSucceeds \/ AcceptSucceeds \/ RunFails
  BY <1>7 DEF OfferSucceeds, AcceptSucceeds, RunFails
<1>8. CASE OfferLost \/ AcceptLost \/ OfferRefused \/ AcceptRefused \/ RemoteFails \/ VerifyInvisible
  <2>1. PICK kind \in ErrorKinds : Fails(kind)
    BY <1>8 DEF OfferLost, AcceptLost, OfferRefused, AcceptRefused, RemoteFails,
                VerifyInvisible, ErrorKinds
  <2>. QED BY <1>0, <2>1, FailWrites
<1>9. CASE VerifyUnconfirmed
  BY <1>3, <1>9 DEF VerifyUnconfirmed
<1>. QED BY <1>4, <1>5, <1>6, <1>7, <1>8, <1>9 DEF ItemWork, ItemStep

--------------------------------------------------------------------------------
(* What the steps do to the files. *)

(* What a step on the item in hand does to its file: nothing, an offer, or  *)
(* an acceptance.                                                           *)
LEMMA FileOfItem ==
  ASSUME IInv, DriveAgrees, ItemWork
  PROVE  /\ \A j \in Items \ {cur} : drive'[j] = drive[j]
         /\ DriveAgrees'
         /\ \/ drive' = drive \/ SameFile(cur)
            \/ /\ drive[cur].owner = "source" /\ drive'[cur].owner = "source"
               /\ drive[cur].perm # "pending" /\ drive'[cur].perm = "pending"
            \/ /\ drive[cur].owner = "source" /\ drive'[cur].owner = "target"
               /\ drive[cur].perm = "pending" /\ drive'[cur].perm # "pending"
<1>0. cur \in Items /\ drive \in [Items -> File]
  BY ItemWrites DEF IInv, ItemOK, DataOK
<1>1. CASE OfferSucceeds \/ OfferLost
  <2>1. drive[cur].owner = "source" /\ drive' = [drive EXCEPT ![cur].perm = "pending"]
    BY <1>1 DEF OfferSucceeds, OfferLost, OfferPossible, OfferEffect, Remote
  <2>2. /\ drive'[cur].owner = "source" /\ drive'[cur].perm = "pending"
        /\ \A j \in Items \ {cur} : drive'[j] = drive[j]
    BY <1>0, <2>1 DEF File
  <2>3. DriveAgrees'
    BY <2>2 DEF DriveAgrees
  <2>. QED BY <2>1, <2>2, <2>3 DEF SameFile, Who, Offered
<1>2. CASE AcceptSucceeds \/ AcceptLost
  <2>1. /\ drive[cur].perm \in {"pending", "owner"}
        /\ drive' = [drive EXCEPT ![cur].perm = "owner", ![cur].owner = "target"]
    BY <1>2 DEF AcceptSucceeds, AcceptLost, AcceptPossible, AcceptEffect, Remote
  <2>2. /\ drive'[cur].owner = "target" /\ drive'[cur].perm = "owner"
        /\ \A j \in Items \ {cur} : drive'[j] = drive[j]
    BY <1>0, <2>1 DEF File
  <2>3. DriveAgrees'
    BY <2>2 DEF DriveAgrees
  <2>. QED BY <1>0, <2>1, <2>2, <2>3 DEF SameFile, Who, Offered, DriveAgrees
<1>3. CASE ~(OfferSucceeds \/ OfferLost \/ AcceptSucceeds \/ AcceptLost)
  <2>1. drive' = drive
    BY <1>3 DEF ItemWork, ItemStep, RemoteFails, RunFails, ReadSkips, ReadAlreadyMoved,
         ReadNotOwner, ReadAlreadyOffered, ReadToOffer, Reads, OfferRefused, AcceptRefused,
         SaveOffered, SaveAccepting, SaveTransferred, SaveVerifying, VerifyInvisible,
         VerifyTrashed, VerifyConfirmed, VerifyNobody, VerifyUnconfirmed, Verifies, Quiet
  <2>. QED BY <2>1 DEF DriveAgrees
<1>. QED BY <1>1, <1>2, <1>3

(* The steps of an item. *)
LEMMA ItemSimulates ==
  ASSUME IInv, Unsettled, DriveAgrees, ItemWork
  PROVE  Simulates
<1>0. /\ cur \in Items /\ rows[cur].state \notin Terminal
      /\ \A j \in Items \ {cur} : rows'[j] = rows[j] /\ drive'[j] = drive[j]
  BY ItemWrites, FileOfItem DEF IInv, ItemOK, WriteBack, Unsettled
<1>1. SettledStay
  BY UnsettledItem
<1>2. CASE VerifyConfirmed
  <2>1. drive' = drive /\ drive[cur].owner = "target" /\ SaveAndFinish("VERIFIED") /\ pc \in ItemPcs
    BY <1>2 DEF VerifyConfirmed, Verifies, Confirmed, TargetOwns, Remote, Quiet, ItemPcs
  <2>2. rows'[cur] = rows[cur] \/ rows'[cur].state = "VERIFIED"
    BY <2>1, FinishWrites
  <2>3. CASE rows'[cur] = rows[cur]
    BY <1>0, <2>1, <2>3, <1>1, Settles DEF SameFile, NoNewVerified
  <2>4. CASE rows'[cur].state = "VERIFIED"
    <3>1. Claim(rows[cur]) = "open" /\ Claim(rows'[cur]) = "verified"
      BY <1>0, <2>4 DEF Claim, Terminal
    <3>. QED BY <1>0, <2>1, <3>1, Confirms DEF SameClaim
  <2>. QED BY <2>2, <2>3, <2>4
<1>3. CASE ~VerifyConfirmed
  <2>1. NoNewVerified
    BY <1>3, NotVerified
  <2>2. CASE drive' = drive \/ SameFile(cur)
    BY <1>0, <1>1, <2>1, <2>2, Settles DEF SameFile
  <2>3. OneFile(cur)
    BY <1>0, <2>1 DEF OneFile, SameFile, SameClaim, Claim, NoNewVerified, Terminal
  <2>. QED BY <1>0, <2>2, <2>3, FileOfItem, OffersFile, AcceptsFile
<1>. QED BY <1>2, <1>3

(* The steps of the user, the batch and the rest touch no file, but for the *)
(* world outside.                                                           *)
LEMMA SweepNotVerified ==
  ASSUME rows \in [Items -> Row], SweepUnstarted PROVE NoNewVerified
BY DEF SweepUnstarted, NoNewVerified, Row

(* The commands of the user. *)
LEMMA UserSimulates ==
  ASSUME IInv, Unsettled, UserStep \/ CancelJobStep
  PROVE  Simulates /\ drive' = drive
<1>0. rows \in [Items -> Row]
  BY DEF IInv, DataOK
<1>1. drive' = drive
  BY DEF UserStep, CancelJobStep, StartCanaryCommand, ContinueMigration, ScanAgain, Idle,
         ResumeMigration, RetryFailedItems, PauseMigration, CancelMigration
<1>2. NoNewVerified
  <2>1. CASE RetryFailedItems
    BY <1>0, <2>1 DEF RetryFailedItems, NoNewVerified, Row
  <2>2. CASE CancelMigration
    BY <1>0, <2>2, SweepNotVerified DEF CancelMigration, NoNewVerified
  <2>3. CASE ~RetryFailedItems /\ ~CancelMigration
    BY <2>3 DEF UserStep, CancelJobStep, StartCanaryCommand, ContinueMigration, ScanAgain, Idle,
         ResumeMigration, PauseMigration, NoNewVerified
  <2>. QED BY <2>1, <2>2, <2>3
<1>. QED BY <1>1, <1>2, UnsettledUser, Settles DEF SameFile

(* The batch. *)
LEMMA BatchSimulates ==
  ASSUME IInv, Unsettled, BatchStep
  PROVE  Simulates /\ drive' = drive
<1>0. rows \in [Items -> Row] /\ DOMAIN copy \subseteq Items
      /\ \A i \in DOMAIN copy : copy[i] \in Row /\ copy[i].state # "VERIFIED"
  BY DEF IInv, DataOK, CopyOK, TransferActive
<1>1. drive' = drive
  BY DEF BatchStep, RunAutoMutationIfReady, ClearFlags, LoadCanary, LoadBulk, CanaryMarked,
         StopRequested, BulkExhausted, CanaryExhausted, CanaryContinues, SweepCancelled,
         PersistOutcome, MarkCanary, TakeTransferred, TakeOffered, TakeUnstarted, Take, Quiet
<1>2. NoNewVerified
  <2>1. ASSUME NEW i \in Items, MarkCanary(i) \/ TakeOffered(i) PROVE NoNewVerified
    <3>1. /\ i \in DOMAIN copy
          /\ \/ rows' = rows
             \/ rows' = [rows EXCEPT ![i] = copy[i]]
             \/ rows' = [rows EXCEPT ![i] = [copy[i] EXCEPT !.state = "PERMANENT_FAILED"]]
      BY <2>1 DEF MarkCanary, TakeOffered, IsFirst, Unmarked
    <3>. QED BY <1>0, <3>1 DEF NoNewVerified, Row
  <2>2. ASSUME NEW i \in Items, TakeTransferred(i) \/ TakeUnstarted(i) PROVE NoNewVerified
    BY <2>2 DEF TakeTransferred, TakeUnstarted, Take, NoNewVerified
  <2>3. CASE SweepCancelled
    BY <1>0, <2>3, SweepNotVerified DEF SweepCancelled
  <2>4. CASE \/ RunAutoMutationIfReady \/ ClearFlags \/ LoadCanary \/ LoadBulk \/ CanaryMarked
             \/ StopRequested \/ BulkExhausted \/ CanaryExhausted \/ CanaryContinues
             \/ PersistOutcome
    BY <2>4 DEF RunAutoMutationIfReady, ClearFlags, LoadCanary, LoadBulk, CanaryMarked,
         StopRequested, BulkExhausted, CanaryExhausted, CanaryContinues, PersistOutcome,
         NoNewVerified
  <2>. QED BY <2>1, <2>2, <2>3, <2>4 DEF BatchStep
<1>. QED BY <1>1, <1>2, UnsettledBatch, Settles DEF SameFile

(* People outside, whatever they do to a file, do one thing at a time.      *)
LEMMA WorldSimulates ==
  ASSUME IInv, DriveAgrees, World
  PROVE  Simulates /\ DriveAgrees'
<1>0. drive \in [Items -> File]
  BY DEF IInv, DataOK
<1>1. PICK i \in Items : Touched(i)
  BY DEF World
<1>2. rows' = rows
  BY <1>1 DEF Touched, Outside
<1>. DEFINE f == drive[i]
            g == drive'[i]
<1>3. /\ \A j \in Items \ {i} : drive'[j] = drive[j]
      /\ \/ g.owner = f.owner /\ g.perm = f.perm
         \/ f.owner = "target" /\ g.owner = "other" /\ g.perm # "pending" /\ g.perm # "owner"
         \/ /\ f.owner = "source"
            /\ \/ g.owner = "source" /\ g.perm # "pending" /\ g.perm # "owner"
               \/ f.perm = "pending" /\ g.owner = "target" /\ g.perm = "owner"
               \/ g.owner \in {"other", "shareddrive"} /\ g.perm # "pending" /\ g.perm # "owner"
  <2>1. f \in File
    BY <1>0
  <2>2. PICK p \in Permissions, o \in Owners, h \in File :
          /\ drive' = [drive EXCEPT ![i] = h]
          /\ \/ h.owner = f.owner /\ h.perm = f.perm
             \/ f.owner = "target" /\ h.owner = "other" /\ h.perm # "pending" /\ h.perm # "owner"
             \/ /\ f.owner = "source"
                /\ \/ h.owner = "source" /\ h.perm # "pending" /\ h.perm # "owner"
                   \/ f.perm = "pending" /\ h.owner = "target" /\ h.perm = "owner"
                   \/ /\ h.owner \in {"other", "shareddrive"}
                      /\ h.perm # "pending" /\ h.perm # "owner"
    BY <1>1, <2>1 DEF Touched, Outside, File, Permissions, Owners
  <2>. QED BY <1>0, <2>2
<1>. HIDE DEF f, g
<1>4. (f.perm = "pending" => f.owner = "source") /\ (f.perm = "owner" => f.owner = "target")
  BY DEF DriveAgrees, f
<1>5. DriveAgrees'
  <2>1. (g.perm = "pending" => g.owner = "source") /\ (g.perm = "owner" => g.owner = "target")
    BY <1>3, <1>4
  <2>. QED BY <1>3, <2>1 DEF DriveAgrees, g
<1>6. OneFile(i) /\ SettledStay /\ NoNewVerified
  BY <1>2, <1>3 DEF OneFile, SameFile, SameClaim, SettledStay, NoNewVerified
<1>7. CASE Who(g) = Who(f) /\ Offered(g) = Offered(f)
  <2>1. \A j \in Items : SameFile(j)
    BY <1>3, <1>7 DEF SameFile, f, g
  <2>. QED BY <1>5, <1>6, <2>1, Settles
<1>8. CASE f.owner \in {"source", "target"} /\ g.owner \notin {"source", "target"} /\ g.perm # "pending"
  BY <1>2, <1>5, <1>6, <1>8, LosesFile DEF f, g
<1>9. CASE f.owner = "source" /\ g.owner = "target" /\ f.perm = "pending" /\ g.perm # "pending"
  BY <1>5, <1>6, <1>9, AcceptsFile DEF f, g
<1>10. CASE f.owner = g.owner /\ f.perm = "pending" /\ g.perm # "pending"
  BY <1>2, <1>5, <1>6, <1>10, WithdrawsFile DEF f, g
<1>. QED BY <1>3, <1>7, <1>8, <1>9, <1>10 DEF Who, Offered

(* Reconciliation, faults and restarts. *)
LEMMA RestSimulates ==
  ASSUME IInv, Unsettled, DriveAgrees, Rest
  PROVE  Simulates /\ DriveAgrees'
<1>0. rows \in [Items -> Row]
      /\ \A i \in DOMAIN copy : copy[i] \in Row /\ copy[i].state # "VERIFIED"
  BY DEF IInv, DataOK, CopyOK, TransferActive
<1>1. CASE World
  BY <1>1, WorldSimulates
<1>2. ASSUME NEW i \in Items, ReconcileItem(i) PROVE drive' = drive /\ NoNewVerified
  <2>1. /\ i \in DOMAIN copy /\ drive' = drive
        /\ \/ rows' = [rows EXCEPT ![i] = Reconciled(copy[i], drive[i])]
           \/ rows' = [rows EXCEPT ![i] = [copy[i] EXCEPT !.state = "PERMANENT_FAILED"]]
    BY <1>2 DEF ReconcileItem, IsFirst, Quiet
  <2>2. copy[i] \in Row /\ copy[i].state # "VERIFIED"
    BY <1>0, <2>1
  <2>3. Reconciled(copy[i], drive[i]).state # "VERIFIED"
    BY <2>2 DEF Reconciled, Row
  <2>. QED BY <1>0, <2>1, <2>2, <2>3 DEF NoNewVerified, Row
<1>3. CASE \/ ResumeReconciled \/ StartupReconciled \/ Startup \/ CanaryUnsettled \/ RunFails
           \/ ReconcileError \/ ReconcileUnauthorized \/ Crash \/ StartupWithoutTokens
  <2>1. drive' = drive /\ rows' = rows
    BY <1>3 DEF ResumeReconciled, StartupReconciled, Startup, CanaryUnsettled, RunFails,
         ReconcileError, ReconcileUnauthorized, Crash, StartupWithoutTokens, Quiet
  <2>2. NoNewVerified
    BY <2>1 DEF NoNewVerified
  <2>. QED BY <2>1, <2>2, UnsettledRest, Settles DEF SameFile, DriveAgrees
<1>4. CASE drive' = drive /\ NoNewVerified
  BY <1>4, UnsettledRest, Settles DEF SameFile, DriveAgrees
<1>. QED BY <1>1, <1>2, <1>3, <1>4 DEF Rest, ReconcileStep

(* Every step is a step of the hand-over, or a stutter. *)
LEMMA HandoverStep ==
  ASSUME IInv, Unsettled, DriveAgrees, [Next]_vars
  PROVE  Simulates /\ DriveAgrees'
<1>1. CASE UNCHANGED vars
  <2>1. /\ \A i \in Items : SameFile(i)
        /\ SettledStay /\ NoNewVerified /\ DriveAgrees'
    BY <1>1 DEF vars, SameFile, SettledStay, NoNewVerified, DriveAgrees
  <2>. QED BY <2>1, Settles
<1>2. CASE ItemWork
  BY <1>2, ItemSimulates, FileOfItem
<1>3. CASE UserStep \/ CancelJobStep \/ BatchStep
  <2>1. Simulates /\ drive' = drive
    BY <1>3, UserSimulates, BatchSimulates
  <2>. QED BY <2>1 DEF DriveAgrees
<1>4. CASE Rest
  BY <1>4, RestSimulates
<1>. QED BY <1>1, <1>2, <1>3, <1>4, StepKinds

(* The initial states are those of the hand-over. *)
LEMMA HandoverInit ==
  ASSUME Init PROVE Handover!Init /\ DriveAgrees
<1>1. /\ \A i \in Items : drive[i].owner = "source" /\ drive[i].perm \in {"none", "writer", "pending"}
      /\ \A i \in Items : rows[i].state = "ELIGIBLE"
  BY DEF Init
<1>. QED BY <1>1 DEF Handover!Init, DriveAgrees, Terminal, Skipped

(* The engine implements the hand-over, whatever fails, crashes, is retried *)
(* or done to the files outside: ownership reaches the target only through  *)
(* an offer of the source, never returns, and a claim is settled once.      *)
THEOREM Implementation == Spec => ImplementsHandover
<1>1. IInv /\ Unsettled /\ [Next]_vars => Unsettled'
  BY UnsettledNext
<1>2. IInv /\ Unsettled /\ DriveAgrees /\ [Next]_vars
        => [Handover!Next]_(Handover!vars) /\ DriveAgrees'
  BY HandoverStep DEF Simulates
<1>3. Init => Handover!Init /\ DriveAgrees /\ Unsettled
  BY HandoverInit, UnsettledInit
<1>. QED BY <1>1, <1>2, <1>3, Invariance, PTL DEF Spec, ImplementsHandover, Handover!Spec
================================================================================
