--------------------------- MODULE ItemTransferProofs ---------------------------
(***************************************************************************)
(* Theorems about the transfer engine for every set of files, every size   *)
(* of the canary, every retry limit and every budget of faults.            *)
(***************************************************************************)
EXTENDS ItemTransfer, TLAPS

--------------------------------------------------------------------------------
(* The inductive invariant, one conjunct per group of variables that steps  *)
(* change together.                                                         *)

RowOK(r) ==
  /\ r.state \notin {"PENDING_OWNER_CREATED", "DISCOVERED"}
  /\ r.state \in {"ACCEPT_REQUIRED", "ACCEPTING", "TRANSFERRED"} => r.perm

(* The rows on disk, against Drive. *)
DataOK ==
  /\ drive \in [Items -> File] /\ rows \in [Items -> Row]
  /\ \A i \in Items : RowOK(rows[i])
  /\ VerifiedIsOwned

(* The job's status agrees with what the process is doing. *)
JobOK ==
  /\ status \in Statuses /\ event \in (Statuses \cup {"NONE"}) \X (Statuses \cup {"NONE"})
  /\ reviewed \in BOOLEAN /\ cancelled \in BOOLEAN /\ stop \in {"none", "pause", "cancel"}
  /\ pc \in WorkerPcs => status = (IF mode = "canary" THEN "RUNNING_CANARY" ELSE "RUNNING")
  /\ pc = "resume" => status \in TransferResumable
  /\ pc = "startup" => status \in UnfinishedMutation

(* How far the process is. *)
ControlOK ==
  /\ pc \in WorkerPcs \cup {"down", "idle", "scanned", "resume", "startup", "cancelling"}
  /\ mode \in {"canary", "bulk"} /\ auto \in BOOLEAN
  /\ outcome \in Outcomes \ {"invalid"} /\ (outcome = "canary_done" => mode = "canary")
  /\ pc \notin EndPcs => outcome = "none"
  /\ left \in [{"fault", "env", "crash", "retry"} -> Nat]

(* The list holds copies of rows that are worth working on. *)
CopyOK ==
  /\ DOMAIN copy \subseteq Items /\ copy \in [DOMAIN copy -> Row]
  /\ \A i \in DOMAIN copy : RowOK(copy[i]) /\ copy[i].state \in TransferActive

(* What the worker knows of the item it holds, at each step of its transfer. *)
Knows(at, state, perm) ==
  /\ at = "read" => state \in {"ELIGIBLE", "PENDING_OWNER_REQUIRED", "RETRYABLE_FAILED"}
  /\ at \in {"create", "update", "offered"} => state = "PENDING_OWNER_REQUIRED"
  /\ at = "accepting" => state \in {"ACCEPT_REQUIRED", "ACCEPTING"} /\ perm
  /\ at \in {"accept", "accepted"} => state = "ACCEPTING" /\ perm
  /\ at = "transferred" => state = "VERIFYING" \/ (state = "TRANSFERRED" /\ perm)
  /\ at = "verify" => state = "VERIFYING"

ItemOK ==
  /\ cur \in Items \cup {NoItem} /\ mem \in Row
  /\ tries \in 0..MaxRetry /\ polls \in 0..MaxRetry
  /\ pc \in ItemPcs => cur \in Items
  /\ Knows(pc, mem.state, mem.perm)

IInv == DataOK /\ JobOK /\ ControlOK /\ CopyOK /\ ItemOK

USE DEF durable, worker

--------------------------------------------------------------------------------
(* Facts about the helpers the actions are built from. *)

(* Drive after a step of the application or of people outside: nobody takes *)
(* a file away from the target that does not give it away.                  *)
TargetKeeps ==
  /\ drive' \in [Items -> File]
  /\ "giveback" \notin EnvKinds =>
       \A i \in Items : drive[i].owner = "target" => drive'[i].owner = "target"

LeftOK == left' \in [{"fault", "env", "crash", "retry"} -> Nat]

(* Spending a unit of the budget keeps it a budget. *)
LEMMA SpendType ==
  ASSUME ControlOK, NEW k \in {"fault", "env", "crash", "retry"}, Spend(k)
  PROVE  LeftOK
BY DEF ControlOK, Spend, LeftOK

(* One row is overwritten. *)
LEMMA WriteRow ==
  ASSUME DataOK, TargetKeeps, NEW i \in Items, NEW r \in Row, RowOK(r),
         r.state = "VERIFIED" => drive[i].owner = "target",
         rows' = [rows EXCEPT ![i] = r]
  PROVE  DataOK'
<1>1. \A j \in Items : rows'[j] = IF j = i THEN r ELSE rows[j]
  BY DEF DataOK
<1>2. rows' \in [Items -> Row] /\ drive' \in [Items -> File]
  BY DEF DataOK, TargetKeeps
<1>3. \A j \in Items : RowOK(rows'[j])
  BY <1>1 DEF DataOK
<1>4. VerifiedIsOwned'
  BY <1>1 DEF DataOK, TargetKeeps, VerifiedIsOwned
<1>. QED BY <1>2, <1>3, <1>4 DEF DataOK, RowOK

(* No row is overwritten. *)
LEMMA KeepRows ==
  ASSUME DataOK, TargetKeeps, rows' = rows
  PROVE  DataOK'
BY DEF DataOK, TargetKeeps, RowOK, VerifiedIsOwned

(* A step that leaves Drive alone takes nothing from the target.            *)
LEMMA SameDrive ==
  ASSUME DataOK, drive' = drive
  PROVE  TargetKeeps
BY DEF DataOK, TargetKeeps

(* The worker has let go of its item. *)
LEMMA LetGoItem ==
  ASSUME NEW o, NEW next, next \notin ItemPcs, LetGo(o, next)
  PROVE  ItemOK' /\ outcome' = o /\ pc' = next
<1>1. BlankRow \in Row
  BY DEF BlankRow, Row, States, Terminal, Skipped, TransferActive
<1>2. pc' = next /\ outcome' = o /\ cur' = NoItem /\ mem' = BlankRow /\ tries' = 0 /\ polls' = 0
  BY DEF LetGo
<1>3. 0 \in 0..MaxRetry
  BY BoundsAssumption
<1>. QED BY <1>1, <1>2, <1>3 DEF ItemOK, Knows, ItemPcs

(* A run ends, for any reason but an illegal transition. *)
LEMMA EndRunKeeps ==
  ASSUME JobOK, ControlOK, pc \in WorkerPcs, Unmoved, LeftOK,
         NEW o \in Outcomes \ {"invalid"}, o = "canary_done" => mode = "canary",
         EndRun(o)
  PROVE  JobOK' /\ ControlOK' /\ CopyOK' /\ ItemOK'
<1>1. PICK p \in {"sweep", "persist"} : LetGo(o, p)
  BY DEF EndRun
<1>2. ItemOK' /\ outcome' = o /\ pc' = p
  BY <1>1, LetGoItem DEF ItemPcs
<1>3. copy' = NoRows /\ mode' = mode /\ auto' = auto
  BY DEF EndRun
<1>4. CopyOK'
  BY <1>3 DEF CopyOK, NoRows
<1>5. p \in WorkerPcs
  BY DEF WorkerPcs, EndPcs
<1>6. JobOK'
  BY <1>2, <1>3, <1>5 DEF JobOK, Unmoved, WorkerPcs, BatchPcs, ItemPcs, EndPcs
<1>7. ControlOK'
  BY <1>2, <1>3, <1>5 DEF ControlOK, LeftOK, EndPcs
<1>. QED BY <1>2, <1>4, <1>6, <1>7

(* What an update of a row's fields leaves.                                 *)
LEMMA SetState ==
  ASSUME NEW m \in Row, NEW s \in States
  PROVE  /\ [m EXCEPT !.state = s] \in Row
         /\ [m EXCEPT !.state = s].state = s
         /\ [m EXCEPT !.state = s].perm = m.perm
<1>1. [m EXCEPT !.state = s] \in Row
  BY DEF Row
<1>2. [m EXCEPT !.state = s].state = s
  BY DEF Row
<1>3. [m EXCEPT !.state = s].perm = m.perm
  BY DEF Row
<1>. QED BY <1>1, <1>2, <1>3

Calling == {"read", "create", "update", "accept", "verify"}

(* What the worker's copy of its item is worth during a remote call, and    *)
(* the transitions it may ask for then.                                     *)
LEMMA CallingMem ==
  ASSUME ItemOK, pc \in Calling
  PROVE  /\ cur \in Items /\ mem \in Row /\ RowOK(mem) /\ mem.state # "VERIFIED"
         /\ \A s \in {"RETRYABLE_FAILED", "PERMANENT_FAILED", "SKIPPED_TRASHED"} :
              CanTransition(mem.state, s)
<1>1. cur \in Items /\ mem \in Row
  BY DEF ItemOK, Calling, ItemPcs
<1>2. /\ mem.state \in {"ELIGIBLE", "PENDING_OWNER_REQUIRED", "RETRYABLE_FAILED",
                        "ACCEPTING", "VERIFYING"}
      /\ mem.state = "ACCEPTING" => mem.perm
  BY DEF ItemOK, Knows, Calling
<1>3. RowOK(mem) /\ mem.state # "VERIFIED"
  BY <1>2 DEF RowOK
<1>4. \A s \in {"RETRYABLE_FAILED", "PERMANENT_FAILED", "SKIPPED_TRASHED"} :
        CanTransition(mem.state, s)
  BY <1>2 DEF CanTransition, Successors, GiveUp
<1>. QED BY <1>1, <1>3, <1>4

(* The worker writes the last row of an item and lets go of it. *)
LEMMA FinishKeeps ==
  ASSUME IInv, pc \in ItemPcs, TargetKeeps, Unmoved, LeftOK,
         NEW s \in (Terminal \cup {"RETRYABLE_FAILED"}),
         CanTransition(mem.state, s), s = "VERIFIED" => drive[cur].owner = "target",
         SaveAndFinish(s)
  PROVE  IInv'
<1>. DEFINE r == [mem EXCEPT !.state = s]
<1>1. cur \in Items /\ mem \in Row
  BY DEF IInv, ItemOK
<1>2. r \in Row /\ r.state = s
  <2>1. s \in States
    BY DEF States, TransferActive
  <2>. QED BY <1>1, <2>1, SetState
<1>3. RowOK(r)
  BY <1>2 DEF RowOK, Terminal, Skipped
<1>4. rows' = [rows EXCEPT ![cur] = r] /\ LetGo("none", "next") /\ UNCHANGED <<mode, auto, copy>>
  BY DEF SaveAndFinish
<1>5. DataOK'
  BY <1>1, <1>2, <1>3, <1>4, WriteRow DEF IInv
<1>6. ItemOK' /\ outcome' = "none" /\ pc' = "next"
  BY <1>4, LetGoItem DEF ItemPcs
<1>7. JobOK' /\ ControlOK'
  BY <1>4, <1>6 DEF IInv, JobOK, ControlOK, LeftOK, Unmoved, WorkerPcs, BatchPcs, ItemPcs,
                    EndPcs, Outcomes
<1>8. CopyOK'
  BY <1>4 DEF IInv, CopyOK, RowOK
<1>. QED BY <1>5, <1>6, <1>7, <1>8 DEF IInv

(* A remote call fails for good, or once more. *)
LEMMA FinalizeKeeps ==
  ASSUME IInv, pc \in Calling, TargetKeeps, Unmoved, LeftOK,
         NEW c \in (Halts \cup {"RETRYABLE_FAILED", "PERMANENT_FAILED"}), FinalizeStep(c)
  PROVE  IInv'
<1>1. cur \in Items /\ mem \in Row /\ RowOK(mem) /\ mem.state # "VERIFIED"
  BY CallingMem DEF IInv
<1>2. pc \in ItemPcs /\ pc \in WorkerPcs
  BY DEF Calling, ItemPcs, WorkerPcs
<1>3. CASE c \in Halts
  <2>1. rows' = [rows EXCEPT ![cur] = mem] /\ EndRun(c)
    BY <1>3 DEF FinalizeStep
  <2>2. DataOK'
    BY <1>1, <2>1, WriteRow DEF IInv
  <2>3. c \in Outcomes \ {"invalid"} /\ c # "canary_done"
    BY <1>3 DEF Halts, Outcomes
  <2>4. JobOK' /\ ControlOK' /\ CopyOK' /\ ItemOK'
    BY <1>2, <2>1, <2>3, EndRunKeeps DEF IInv
  <2>. QED BY <2>2, <2>4 DEF IInv
<1>4. CASE c \notin Halts
  <2>1. SaveAndFinish(c) /\ c \in {"RETRYABLE_FAILED", "PERMANENT_FAILED"}
    BY <1>4 DEF FinalizeStep
  <2>2. CanTransition(mem.state, c) /\ c # "VERIFIED" /\ c \in Terminal \cup {"RETRYABLE_FAILED"}
    BY <2>1, CallingMem DEF IInv, Terminal
  <2>. QED BY <1>2, <2>1, <2>2, FinishKeeps
<1>. QED BY <1>3, <1>4

(* Any failure of a remote call keeps the invariant.                        *)
LEMMA FailKeeps ==
  ASSUME IInv, pc \in Calling, TargetKeeps, Unmoved, LeftOK,
         NEW kind \in ErrorKinds, Fails(kind)
  PROVE  IInv'
<1>1. Classify(kind) \in Halts \cup {"RETRYABLE_FAILED", "PERMANENT_FAILED"}
  BY DEF Classify, ErrorKinds, Halts
<1>2. CASE Classify(kind) = "RETRYABLE_FAILED" /\ tries < MaxRetry
  <2>1. /\ tries' = tries + 1
        /\ UNCHANGED <<rows, pc, mode, auto, copy, cur, mem, polls, outcome>>
    BY <1>2 DEF Fails
  <2>2. DataOK'
    BY <2>1, KeepRows DEF IInv
  <2>3. JobOK' /\ ControlOK' /\ CopyOK'
    BY <2>1 DEF IInv, JobOK, ControlOK, CopyOK, RowOK, LeftOK, Unmoved
  <2>4. tries' \in 0..MaxRetry
    BY <1>2, <2>1, BoundsAssumption DEF IInv, ItemOK
  <2>5. ItemOK'
    BY <2>1, <2>4 DEF IInv, ItemOK, RowOK
  <2>. QED BY <2>2, <2>3, <2>5 DEF IInv
<1>3. CASE ~(Classify(kind) = "RETRYABLE_FAILED" /\ tries < MaxRetry)
  <2>1. FinalizeStep(Classify(kind))
    BY <1>3 DEF Fails
  <2>. QED BY <1>1, <2>1, FinalizeKeeps
<1>. QED BY <1>2, <1>3

Saved(s, p, next) ==
  LET row == [mem EXCEPT !.state = s, !.perm = p] IN
  /\ mem' = row /\ rows' = [rows EXCEPT ![cur] = row] /\ pc' = next
  /\ tries' = 0 /\ UNCHANGED <<mode, auto, copy, cur, polls, outcome>>

(* The worker writes its item down and goes on with it.                     *)
LEMMA SavedKeeps ==
  ASSUME IInv, pc \in ItemPcs, Quiet, NEW s \in TransferActive, NEW p \in BOOLEAN,
         s # "PENDING_OWNER_CREATED",
         s \in {"ACCEPT_REQUIRED", "ACCEPTING", "TRANSFERRED"} => p,
         NEW next \in ItemPcs, Knows(next, s, p), Saved(s, p, next)
  PROVE  IInv'
<1>. DEFINE r == [mem EXCEPT !.state = s, !.perm = p]
<1>1. cur \in Items /\ mem \in Row
  BY DEF IInv, ItemOK
<1>2. r \in Row /\ r.state = s /\ r.perm = p
  <2>1. s \in States
    BY DEF States
  <2>2. [mem EXCEPT !.state = s, !.perm = p] \in Row
    BY <1>1, <2>1 DEF Row
  <2>3. [mem EXCEPT !.state = s, !.perm = p].state = s
    BY <1>1 DEF Row
  <2>4. [mem EXCEPT !.state = s, !.perm = p].perm = p
    BY <1>1 DEF Row
  <2>. QED BY <2>2, <2>3, <2>4
<1>3. RowOK(r) /\ r.state # "VERIFIED"
  BY <1>2 DEF RowOK, TransferActive
<1>4. mem' = r /\ rows' = [rows EXCEPT ![cur] = r]
  BY DEF Saved
<1>. HIDE DEF r
<1>5. TargetKeeps
  BY SameDrive DEF IInv, Quiet
<1>6. DataOK'
  BY <1>1, <1>2, <1>3, <1>4, <1>5, WriteRow DEF IInv
<1>7. pc' = next /\ tries' = 0 /\ UNCHANGED <<mode, auto, copy, cur, polls, outcome>>
  BY DEF Saved
<1>8. JobOK' /\ ControlOK'
  BY <1>7 DEF IInv, JobOK, ControlOK, Quiet, Unmoved, WorkerPcs, ItemPcs, EndPcs
<1>9. CopyOK'
  BY <1>7 DEF IInv, CopyOK, RowOK
<1>10. ItemOK'
  <2>1. Knows(pc', mem'.state, mem'.perm)
    BY <1>2, <1>4, <1>7
  <2>2. tries' \in 0..MaxRetry /\ polls' \in 0..MaxRetry
    BY <1>7, BoundsAssumption DEF IInv, ItemOK
  <2>3. cur' \in Items /\ mem' \in Row
    BY <1>1, <1>2, <1>4, <1>7
  <2>. QED BY <2>1, <2>2, <2>3 DEF ItemOK, Knows
<1>. QED BY <1>6, <1>8, <1>9, <1>10 DEF IInv

(* The hops to ACCEPT_REQUIRED, made in memory and saved once.              *)
LEMMA AdvanceKeeps ==
  ASSUME IInv, pc \in {"read", "offered"}, Quiet, AdvanceToAcceptRequired("accepting")
  PROVE  IInv'
<1>1. mem.state \in {"ELIGIBLE", "PENDING_OWNER_REQUIRED", "RETRYABLE_FAILED"}
  BY DEF IInv, ItemOK, Knows
<1>2. CanAdvance(mem.state)
  BY <1>1 DEF CanAdvance, CanTransition, Successors, GiveUp
<1>3. Saved("ACCEPT_REQUIRED", TRUE, "accepting")
  BY <1>1, <1>2 DEF AdvanceToAcceptRequired, Saved
<1>4. Knows("accepting", "ACCEPT_REQUIRED", TRUE)
  BY DEF Knows
<1>5. "ACCEPT_REQUIRED" \in TransferActive /\ "accepting" \in ItemPcs /\ pc \in ItemPcs
  BY DEF TransferActive, ItemPcs
<1>. QED BY <1>3, <1>4, <1>5, SavedKeeps

--------------------------------------------------------------------------------
(* Every step keeps the invariant: one lemma per group of actions.          *)

(* Reading the file and offering it.                                        *)
LEMMA ReadSteps ==
  ASSUME IInv, ReadSkips \/ ReadAlreadyMoved \/ ReadNotOwner \/ ReadAlreadyOffered \/ ReadToOffer
  PROVE  IInv'
<1>1. pc = "read" /\ Quiet
  BY DEF ReadSkips, ReadAlreadyMoved, ReadNotOwner, ReadAlreadyOffered, ReadToOffer, Reads
<1>2. pc \in ItemPcs /\ pc \in Calling /\ mem \in Row
      /\ mem.state \in {"ELIGIBLE", "PENDING_OWNER_REQUIRED", "RETRYABLE_FAILED"}
  BY <1>1 DEF IInv, ItemOK, Knows, ItemPcs, Calling
<1>3. TargetKeeps /\ Unmoved /\ LeftOK
  BY <1>1, SameDrive DEF IInv, ControlOK, Quiet, LeftOK
<1>4. \A s \in {"SKIPPED_TRASHED", "SKIPPED_SHARED_DRIVE", "VERIFYING", "PENDING_OWNER_REQUIRED"} :
        CanTransition(mem.state, s)
  BY <1>2 DEF CanTransition, Successors, GiveUp, Skipped
<1>5. CASE ReadSkips
  <2>1. PICK s \in {"SKIPPED_TRASHED", "SKIPPED_SHARED_DRIVE"} : SaveAndFinish(s)
    BY <1>5 DEF ReadSkips
  <2>2. s \in Terminal /\ s # "VERIFIED" /\ CanTransition(mem.state, s)
    BY <1>4 DEF Terminal, Skipped
  <2>. QED BY <1>2, <1>3, <2>1, <2>2, FinishKeeps
<1>6. CASE ReadAlreadyMoved
  <2>1. Saved("VERIFYING", mem.perm, "verify")
    BY <1>4, <1>6 DEF ReadAlreadyMoved, Save, Saved
  <2>2. Knows("verify", "VERIFYING", mem.perm) /\ mem.perm \in BOOLEAN
    BY <1>2 DEF Knows, Row
  <2>3. "VERIFYING" \in TransferActive /\ "verify" \in ItemPcs
    BY DEF TransferActive, ItemPcs
  <2>. QED BY <1>1, <1>2, <2>1, <2>2, <2>3, SavedKeeps
<1>7. CASE ReadNotOwner
  <2>1. FinalizeStep("PERMANENT_FAILED")
    BY <1>7 DEF ReadNotOwner
  <2>. QED BY <1>2, <1>3, <2>1, FinalizeKeeps
<1>8. CASE ReadAlreadyOffered
  BY <1>1, <1>8, AdvanceKeeps DEF ReadAlreadyOffered
<1>9. CASE ReadToOffer
  <2>1. PICK p \in BOOLEAN, next \in {"create", "update"} :
          Save("PENDING_OWNER_REQUIRED", p, next)
    BY <1>2, <1>9 DEF ReadToOffer, Row
  <2>2. Saved("PENDING_OWNER_REQUIRED", p, next)
    BY <1>4, <2>1 DEF Save, Saved
  <2>3. Knows(next, "PENDING_OWNER_REQUIRED", p)
    BY DEF Knows
  <2>4. "PENDING_OWNER_REQUIRED" \in TransferActive /\ next \in ItemPcs
    BY DEF TransferActive, ItemPcs
  <2>. QED BY <1>1, <1>2, <2>2, <2>3, <2>4, SavedKeeps
<1>. QED BY <1>5, <1>6, <1>7, <1>8, <1>9

(* The saves between two remote calls.                                      *)
LEMMA SaveSteps ==
  ASSUME IInv, SaveOffered \/ SaveAccepting \/ SaveTransferred \/ SaveVerifying
  PROVE  IInv'
<1>1. mem \in Row /\ mem.perm \in BOOLEAN
  BY DEF IInv, ItemOK, Row
<1>2. {"ACCEPTING", "TRANSFERRED", "VERIFYING"} \subseteq TransferActive
      /\ {"accepting", "accept", "accepted", "transferred", "verify"} \subseteq ItemPcs
  BY DEF TransferActive, ItemPcs
<1>3. CASE SaveOffered
  BY <1>3, AdvanceKeeps DEF SaveOffered
<1>4. CASE SaveAccepting
  <2>1. pc = "accepting" /\ Quiet /\ mem.state \in {"ACCEPT_REQUIRED", "ACCEPTING"} /\ mem.perm
    BY <1>4 DEF SaveAccepting, IInv, ItemOK, Knows
  <2>2. CanTransition(mem.state, "ACCEPTING")
    BY <2>1 DEF CanTransition, Successors
  <2>3. Saved("ACCEPTING", mem.perm, "accept")
    BY <1>4, <2>2 DEF SaveAccepting, Save, Saved
  <2>4. Knows("accept", "ACCEPTING", mem.perm)
    BY <2>1 DEF Knows
  <2>. QED BY <1>1, <1>2, <2>1, <2>3, <2>4, SavedKeeps
<1>5. CASE SaveTransferred
  <2>1. pc = "accepted" /\ Quiet /\ mem.state = "ACCEPTING" /\ mem.perm
    BY <1>5 DEF SaveTransferred, IInv, ItemOK, Knows
  <2>2. CanTransition(mem.state, "TRANSFERRED")
    BY <2>1 DEF CanTransition, Successors
  <2>3. Saved("TRANSFERRED", mem.perm, "transferred")
    BY <1>5, <2>2 DEF SaveTransferred, Save, Saved
  <2>4. Knows("transferred", "TRANSFERRED", mem.perm)
    BY <2>1 DEF Knows
  <2>. QED BY <1>1, <1>2, <2>1, <2>3, <2>4, SavedKeeps
<1>6. CASE SaveVerifying
  <2>1. pc = "transferred" /\ Quiet /\ mem.state \in {"TRANSFERRED", "VERIFYING"}
    BY <1>6 DEF SaveVerifying, IInv, ItemOK, Knows
  <2>2. CanTransition(mem.state, "VERIFYING")
    BY <2>1 DEF CanTransition, Successors
  <2>3. Saved("VERIFYING", mem.perm, "verify")
    BY <1>6, <2>2 DEF SaveVerifying, Save, Saved
  <2>4. Knows("verify", "VERIFYING", mem.perm)
    BY <2>1 DEF Knows
  <2>. QED BY <1>1, <1>2, <2>1, <2>3, <2>4, SavedKeeps
<1>. QED BY <1>3, <1>4, <1>5, <1>6

(* The remote mutations: Drive may change, the target's files stay its own. *)
LEMMA OfferTargetKeeps ==
  ASSUME IInv, cur \in Items, Remote.owner = "source", OfferEffect
  PROVE  TargetKeeps
<1>1. drive \in [Items -> File]
  BY DEF IInv, DataOK
<1>2. [drive[cur] EXCEPT !.perm = "pending"] \in File
  BY <1>1 DEF File, Permissions
<1>3. drive' = [drive EXCEPT ![cur] = [drive[cur] EXCEPT !.perm = "pending"]]
  BY <1>1 DEF OfferEffect
<1>4. drive' \in [Items -> File]
  BY <1>1, <1>2, <1>3
<1>5. \A i \in Items : drive[i].owner = "target" => drive'[i] = drive[i]
  BY <1>1, <1>3 DEF Remote
<1>. QED BY <1>4, <1>5 DEF TargetKeeps

(* An acceptance only adds to what the target owns.                         *)
LEMMA AcceptTargetKeeps ==
  ASSUME IInv, cur \in Items, AcceptEffect
  PROVE  TargetKeeps
<1>1. drive \in [Items -> File]
  BY DEF IInv, DataOK
<1>. DEFINE f == [drive[cur] EXCEPT !.perm = "owner", !.owner = "target"]
<1>2. f \in File
  BY <1>1 DEF File, Permissions, Owners
<1>3. f.owner = "target"
  BY <1>1 DEF File
<1>4. drive' = [drive EXCEPT ![cur] = f]
  BY <1>1 DEF AcceptEffect
<1>. HIDE DEF f
<1>5. drive' \in [Items -> File]
  BY <1>1, <1>2, <1>4
<1>6. \A i \in Items : drive'[i] = drive[i] \/ drive'[i] = f
  BY <1>1, <1>4
<1>. QED BY <1>3, <1>5, <1>6 DEF TargetKeeps

(* An answer arrives: only Drive and the place of the worker change.        *)
LEMMA AnswerKeeps ==
  ASSUME IInv, pc \in ItemPcs, TargetKeeps, Unmoved, UNCHANGED <<rows, worker, left>>,
         NEW next \in {"offered", "accepted"}, pc' = next,
         Knows(next, mem.state, mem.perm)
  PROVE  IInv'
<1>1. DataOK'
  BY KeepRows DEF IInv
<1>2. JobOK' /\ ControlOK'
  BY DEF IInv, JobOK, ControlOK, Unmoved, WorkerPcs, ItemPcs, EndPcs
<1>3. CopyOK'
  BY DEF IInv, CopyOK, RowOK
<1>4. ItemOK'
  BY DEF IInv, ItemOK, Knows
<1>. QED BY <1>1, <1>2, <1>3, <1>4 DEF IInv

(* Every answer to an offer or an acceptance keeps the invariant.           *)
LEMMA MutationSteps ==
  ASSUME IInv, \/ OfferSucceeds \/ OfferLost \/ OfferRefused
               \/ AcceptSucceeds \/ AcceptLost \/ AcceptRefused
  PROVE  IInv'
<1>1. /\ pc \in {"create", "update", "accept"} /\ Unmoved
      /\ pc \in ItemPcs /\ pc \in Calling /\ cur \in Items
  BY DEF OfferSucceeds, OfferLost, OfferRefused, AcceptSucceeds, AcceptLost, AcceptRefused,
         Offers, Accepts, IInv, ItemOK, ItemPcs, Calling
<1>2. CASE OfferSucceeds
  <2>1. TargetKeeps
    BY <1>1, <1>2, OfferTargetKeeps DEF OfferSucceeds, OfferPossible
  <2>2. Knows("offered", mem.state, mem.perm)
    BY <1>2 DEF OfferSucceeds, Offers, IInv, ItemOK, Knows
  <2>3. pc' = "offered" /\ UNCHANGED <<rows, worker, left>>
    BY <1>2 DEF OfferSucceeds
  <2>. QED BY <1>1, <2>1, <2>2, <2>3, AnswerKeeps
<1>3. CASE OfferLost
  <2>1. TargetKeeps
    BY <1>1, <1>3, OfferTargetKeeps DEF OfferLost, OfferPossible
  <2>2. LeftOK
    BY <1>3, SpendType DEF OfferLost, IInv
  <2>3. PICK kind \in ErrorKinds : Fails(kind)
    BY <1>3 DEF OfferLost, ErrorKinds
  <2>. QED BY <1>1, <2>1, <2>2, <2>3, FailKeeps
<1>4. CASE OfferRefused
  <2>1. TargetKeeps /\ LeftOK
    BY <1>4, SameDrive DEF OfferRefused, IInv, ControlOK, LeftOK
  <2>2. PICK kind \in ErrorKinds : Fails(kind)
    BY <1>4 DEF OfferRefused, ErrorKinds
  <2>. QED BY <1>1, <2>1, <2>2, FailKeeps
<1>5. CASE AcceptSucceeds
  <2>1. TargetKeeps
    BY <1>1, <1>5, AcceptTargetKeeps DEF AcceptSucceeds
  <2>2. Knows("accepted", mem.state, mem.perm)
    BY <1>5 DEF AcceptSucceeds, Accepts, IInv, ItemOK, Knows
  <2>3. pc' = "accepted" /\ UNCHANGED <<rows, worker, left>>
    BY <1>5 DEF AcceptSucceeds
  <2>. QED BY <1>1, <2>1, <2>2, <2>3, AnswerKeeps
<1>6. CASE AcceptLost
  <2>1. TargetKeeps
    BY <1>1, <1>6, AcceptTargetKeeps DEF AcceptLost
  <2>2. LeftOK
    BY <1>6, SpendType DEF AcceptLost, IInv
  <2>3. PICK kind \in ErrorKinds : Fails(kind)
    BY <1>6 DEF AcceptLost, ErrorKinds
  <2>. QED BY <1>1, <2>1, <2>2, <2>3, FailKeeps
<1>7. CASE AcceptRefused
  <2>1. TargetKeeps /\ LeftOK
    BY <1>7, SameDrive DEF AcceptRefused, IInv, ControlOK, LeftOK
  <2>2. PICK kind \in ErrorKinds : Fails(kind)
    BY <1>7 DEF AcceptRefused, ErrorKinds
  <2>. QED BY <1>1, <2>1, <2>2, FailKeeps
<1>. QED BY <1>2, <1>3, <1>4, <1>5, <1>6, <1>7

(* The verification: VERIFIED is written only when the target owns the file. *)
LEMMA VerifySteps ==
  ASSUME IInv, \/ VerifyInvisible \/ VerifyTrashed \/ VerifyConfirmed
               \/ VerifyNobody \/ VerifyUnconfirmed
  PROVE  IInv'
<1>1. pc = "verify" /\ Quiet
  BY DEF VerifyInvisible, VerifyTrashed, VerifyConfirmed, VerifyNobody, VerifyUnconfirmed,
         Verifies
<1>2. pc \in ItemPcs /\ pc \in Calling /\ mem.state = "VERIFYING"
  BY <1>1 DEF IInv, ItemOK, Knows, ItemPcs, Calling
<1>3. TargetKeeps /\ Unmoved /\ LeftOK
  BY <1>1, SameDrive DEF IInv, ControlOK, Quiet, LeftOK
<1>4. CASE VerifyInvisible
  BY <1>2, <1>3, <1>4, FailKeeps DEF VerifyInvisible, ErrorKinds
<1>5. CASE VerifyTrashed
  <2>1. SaveAndFinish("SKIPPED_TRASHED")
    BY <1>5 DEF VerifyTrashed
  <2>2. CanTransition(mem.state, "SKIPPED_TRASHED") /\ "SKIPPED_TRASHED" \in Terminal
    BY <1>2, CallingMem DEF IInv, Terminal, Skipped
  <2>. QED BY <1>2, <1>3, <2>1, <2>2, FinishKeeps
<1>6. CASE VerifyConfirmed
  <2>1. SaveAndFinish("VERIFIED") /\ drive[cur].owner = "target"
    BY <1>6 DEF VerifyConfirmed, Confirmed, Remote, TargetOwns
  <2>2. CanTransition(mem.state, "VERIFIED") /\ "VERIFIED" \in Terminal
    BY <1>2 DEF CanTransition, Successors, Terminal
  <2>. QED BY <1>2, <1>3, <2>1, <2>2, FinishKeeps
<1>7. CASE VerifyNobody
  BY <1>2, <1>3, <1>7, FinalizeKeeps DEF VerifyNobody
<1>8. CASE VerifyUnconfirmed /\ polls < MaxRetry
  <2>1. polls' = polls + 1 /\ tries' = 0
        /\ UNCHANGED <<rows, pc, mode, auto, copy, cur, mem, outcome>>
    BY <1>8 DEF VerifyUnconfirmed
  <2>2. DataOK'
    BY <1>3, <2>1, KeepRows DEF IInv
  <2>3. JobOK' /\ ControlOK'
    BY <1>3, <2>1 DEF IInv, JobOK, ControlOK, LeftOK, Unmoved
  <2>4. CopyOK'
    BY <2>1 DEF IInv, CopyOK, RowOK
  <2>5. polls' \in 0..MaxRetry /\ tries' \in 0..MaxRetry
    BY <1>8, <2>1, BoundsAssumption DEF IInv, ItemOK
  <2>6. ItemOK'
    BY <2>1, <2>5 DEF IInv, ItemOK, Knows
  <2>. QED BY <2>2, <2>3, <2>4, <2>6 DEF IInv
<1>9. CASE VerifyUnconfirmed /\ ~(polls < MaxRetry)
  BY <1>2, <1>3, <1>9, FinalizeKeeps DEF VerifyUnconfirmed
<1>. QED BY <1>4, <1>5, <1>6, <1>7, <1>8, <1>9

(* Steps that leave the item alone, between items or without a worker.      *)
LEMMA ItemAlone ==
  ASSUME IInv, UNCHANGED <<cur, mem, tries, polls>>, pc' \notin ItemPcs
  PROVE  ItemOK'
BY DEF IInv, ItemOK, Knows, ItemPcs

(* The rows of a set of files, as the worker's list.                        *)
LEMMA ListOfRows ==
  ASSUME IInv, NEW S, S \subseteq Items, copy' = RowsOf(S),
         \A i \in S : rows[i].state \in TransferActive
  PROVE  CopyOK'
<1>1. DOMAIN copy' = S /\ \A i \in S : copy'[i] = rows[i]
  BY DEF RowsOf
<1>2. \A i \in S : rows[i] \in Row /\ RowOK(rows[i])
  BY DEF IInv, DataOK
<1>3. copy' \in [S -> Row]
  BY <1>2 DEF RowsOf
<1>. QED BY <1>1, <1>2, <1>3 DEF CopyOK, RowOK

(* The worker strikes a row off its list.                                   *)
LEMMA ShorterList ==
  ASSUME CopyOK, NEW i, copy' = Without(copy, i)
  PROVE  CopyOK'
<1>1. DOMAIN copy' = DOMAIN copy \ {i} /\ \A j \in DOMAIN copy' : copy'[j] = copy[j]
  BY DEF Without
<1>2. copy' \in [DOMAIN copy' -> Row]
  BY <1>1 DEF CopyOK, Without
<1>. QED BY <1>1, <1>2 DEF CopyOK, RowOK

(* The list is left alone or given up.                                      *)
LEMMA SameList ==
  ASSUME CopyOK, copy' = copy \/ copy' = NoRows
  PROVE  CopyOK'
<1>1. CASE copy' = copy
  BY <1>1 DEF CopyOK, RowOK
<1>2. CASE copy' = NoRows
  BY <1>2 DEF CopyOK, NoRows
<1>. QED BY <1>1, <1>2

(* The rows of a cancelled job, and of a retry request, are sound.          *)
LEMMA SweepKeeps ==
  ASSUME DataOK, TargetKeeps, NEW from \in SUBSET States,
         NEW to \in {"CANCELLED", "PENDING_OWNER_REQUIRED"},
         rows' = [i \in Items |-> IF rows[i].state \in from
                                  THEN [rows[i] EXCEPT !.state = to] ELSE rows[i]]
  PROVE  DataOK'
<1>. DEFINE r(i) == [rows[i] EXCEPT !.state = to]
<1>1. to \in States
  BY DEF States, Terminal, TransferActive
<1>2. ASSUME NEW i \in Items
      PROVE  r(i) \in Row /\ r(i).state = to
  <2>1. rows[i] \in Row
    BY DEF DataOK
  <2>. QED BY <1>1, <2>1, SetState
<1>3. ASSUME NEW i \in Items
      PROVE  rows'[i] = rows[i] \/ rows'[i] = r(i)
  OBVIOUS
<1>. HIDE DEF r
<1>4. ASSUME NEW i \in Items
      PROVE  /\ rows'[i] \in Row /\ RowOK(rows'[i])
             /\ rows'[i].state = "VERIFIED" => rows[i].state = "VERIFIED"
  <2>1. CASE rows'[i] = rows[i]
    BY <2>1 DEF DataOK
  <2>2. CASE rows'[i] = r(i)
    BY <1>2, <2>2 DEF RowOK
  <2>. QED BY <1>3, <2>1, <2>2
<1>5. rows' \in [Items -> Row]
  BY <1>4
<1>. QED BY <1>4, <1>5 DEF DataOK, TargetKeeps, RowOK, VerifiedIsOwned

(* A run is started.                                                        *)
LEMMA LaunchKeeps ==
  ASSUME IInv, pc \notin EndPcs, NEW m \in {"canary", "bulk"}, NEW a \in BOOLEAN,
         Launch(IF m = "canary" THEN "RUNNING_CANARY" ELSE "RUNNING", m, a),
         cancelled' \in BOOLEAN,
         UNCHANGED <<drive, rows, reviewed, stop, copy, cur, mem, tries, polls, outcome, left>>
  PROVE  IInv'
<1>. DEFINE s == IF m = "canary" THEN "RUNNING_CANARY" ELSE "RUNNING"
<1>1. status' = s /\ event' = <<status, s>> /\ pc' = "launch" /\ mode' = m /\ auto' = a
  BY DEF Launch
<1>2. s \in Statuses
  BY DEF Statuses, UnfinishedMutation
<1>3. DataOK' /\ CopyOK'
  BY SameDrive, KeepRows, SameList DEF IInv
<1>4. ItemOK'
  BY <1>1, ItemAlone DEF ItemPcs
<1>5. JobOK'
  BY <1>1, <1>2 DEF IInv, JobOK
<1>6. ControlOK'
  BY <1>1 DEF IInv, ControlOK, WorkerPcs, BatchPcs, EndPcs
<1>. QED BY <1>3, <1>4, <1>5, <1>6 DEF IInv

(* The batch: loading, marking and walking the list.                        *)
LEMMA LoadSteps ==
  ASSUME IInv, RunAutoMutationIfReady \/ ClearFlags \/ LoadCanary \/ LoadBulk \/ CanaryMarked
  PROVE  IInv'
<1>1. rows' = rows /\ drive' = drive /\ UNCHANGED <<cur, mem, tries, polls, left, outcome>>
      /\ pc' \in {"launch", "start", "mark", "next"}
  BY DEF RunAutoMutationIfReady, ClearFlags, LoadCanary, LoadBulk, CanaryMarked, Launch, Quiet
<1>2. DataOK' /\ ItemOK'
  <2>1. pc' \notin ItemPcs
    BY <1>1 DEF ItemPcs
  <2>. QED BY <1>1, <2>1, SameDrive, KeepRows, ItemAlone DEF IInv
<1>3. CASE RunAutoMutationIfReady
  <2>1. StartCanary(status) = "RUNNING_CANARY" /\ pc \notin EndPcs
    BY <1>3 DEF RunAutoMutationIfReady, StartCanary, Move, EndPcs
  <2>. QED BY <1>3, <2>1, LaunchKeeps DEF RunAutoMutationIfReady, IInv, JobOK
<1>4. CASE ClearFlags
  <2>1. pc = "launch" /\ pc' = "start" /\ stop' = "none"
        /\ UNCHANGED <<status, event, reviewed, cancelled, mode, auto, copy>>
    BY <1>4 DEF ClearFlags
  <2>2. JobOK' /\ ControlOK'
    BY <1>1, <2>1 DEF IInv, JobOK, ControlOK, WorkerPcs, BatchPcs, EndPcs
  <2>. QED BY <1>2, <2>1, <2>2, SameList DEF IInv
<1>5. CASE LoadCanary \/ LoadBulk \/ CanaryMarked
  <2>1. pc \in {"start", "mark"} /\ pc' \in {"mark", "next"}
        /\ UNCHANGED <<status, event, reviewed, stop, cancelled, mode, auto>>
    BY <1>5 DEF LoadCanary, LoadBulk, CanaryMarked, Quiet, Unmoved
  <2>2. JobOK' /\ ControlOK'
    BY <1>1, <2>1 DEF IInv, JobOK, ControlOK, WorkerPcs, BatchPcs, EndPcs
  <2>3. CASE LoadCanary
    <3>1. copy' = CanaryBatch
      BY <2>3 DEF LoadCanary
    <3>. DEFINE started == {i \in Active : rows[i].state # "ELIGIBLE"}
    <3>2. CASE Cohort # {}
      <4>. DEFINE S == {i \in Cohort : rows[i].state \notin Terminal}
      <4>1. copy' = RowsOf(S)
        BY <3>1, <3>2 DEF CanaryBatch
      <4>2. S \subseteq Items /\ \A i \in S : rows[i].state \in TransferActive
        BY DEF Cohort, IInv, DataOK, RowOK, Row, States
      <4>. QED BY <1>2, <2>2, <4>1, <4>2, ListOfRows DEF IInv
    <3>3. CASE Cohort = {} /\ started # {}
      <4>1. copy' = [i \in started |-> [rows[i] EXCEPT !.canary = TRUE]]
        BY <3>1, <3>3 DEF CanaryBatch
      <4>2. ASSUME NEW i \in started
            PROVE  /\ [rows[i] EXCEPT !.canary = TRUE] \in Row
                   /\ RowOK([rows[i] EXCEPT !.canary = TRUE])
                   /\ [rows[i] EXCEPT !.canary = TRUE].state \in TransferActive
        <5>1. rows[i] \in Row /\ RowOK(rows[i]) /\ rows[i].state \in TransferActive
          BY DEF IInv, DataOK, Active
        <5>2. [rows[i] EXCEPT !.canary = TRUE] \in Row
          BY <5>1 DEF Row
        <5>3. [rows[i] EXCEPT !.canary = TRUE].state = rows[i].state
          BY <5>1 DEF Row
        <5>4. [rows[i] EXCEPT !.canary = TRUE].perm = rows[i].perm
          BY <5>1 DEF Row
        <5>. QED BY <5>1, <5>2, <5>3, <5>4 DEF RowOK
      <4>3. CopyOK'
        <5>1. DOMAIN copy' = started /\ started \subseteq Items
          BY <4>1 DEF Active
        <5>2. \A i \in started : copy'[i] \in Row /\ RowOK(copy'[i])
                                 /\ copy'[i].state \in TransferActive
          BY <4>1, <4>2
        <5>3. copy' \in [started -> Row]
          BY <4>1, <4>2
        <5>. QED BY <5>1, <5>2, <5>3 DEF CopyOK, RowOK
      <4>. QED BY <1>2, <2>2, <4>3 DEF IInv
    <3>4. CASE Cohort = {} /\ started = {}
      <4>. DEFINE F == FirstOf(Active)
                  r(i) == [rows[i] EXCEPT !.canary = TRUE, !.state = "PENDING_OWNER_REQUIRED"]
      <4>1. copy' = [i \in F |-> r(i)]
        BY <3>1, <3>4 DEF CanaryBatch
      <4>2. F \subseteq Items
        BY DEF FirstOf, Active
      <4>3. ASSUME NEW i \in F
            PROVE  r(i) \in Row /\ r(i).state = "PENDING_OWNER_REQUIRED"
        <5>1. rows[i] \in Row
          BY <4>2 DEF IInv, DataOK
        <5>2. "PENDING_OWNER_REQUIRED" \in States
          BY DEF States, TransferActive
        <5>3. r(i) \in Row
          BY <5>1, <5>2 DEF Row
        <5>4. r(i).state = "PENDING_OWNER_REQUIRED"
          BY <5>1 DEF Row
        <5>. QED BY <5>3, <5>4
      <4>. HIDE DEF r, F
      <4>4. CopyOK'
        <5>1. DOMAIN copy' = F /\ \A i \in F : copy'[i] = r(i)
          BY <4>1
        <5>2. copy' \in [F -> Row]
          BY <4>1, <4>3
        <5>3. \A i \in F : RowOK(copy'[i]) /\ copy'[i].state \in TransferActive
          BY <4>3, <5>1 DEF RowOK, TransferActive
        <5>. QED BY <4>2, <5>1, <5>2, <5>3 DEF CopyOK, RowOK
      <4>. QED BY <1>2, <2>2, <4>4 DEF IInv
    <3>. QED BY <3>2, <3>3, <3>4
  <2>4. CASE LoadBulk
    <3>1. copy' = RowsOf(Active) /\ Active \subseteq Items
          /\ \A i \in Active : rows[i].state \in TransferActive
      BY <2>4 DEF LoadBulk, Active
    <3>. QED BY <1>2, <2>2, <3>1, ListOfRows DEF IInv
  <2>5. CASE CanaryMarked
    BY <1>2, <2>2, <2>5, SameList DEF CanaryMarked, IInv
  <2>. QED BY <1>5, <2>3, <2>4, <2>5
<1>. QED BY <1>3, <1>4, <1>5

(* Marking the cohort and taking an item off the list.                      *)
LEMMA ListSteps ==
  ASSUME IInv, NEW i \in Items,
         MarkCanary(i) \/ TakeTransferred(i) \/ TakeOffered(i) \/ TakeUnstarted(i)
  PROVE  IInv'
<1>1. Quiet /\ TargetKeeps
  BY SameDrive DEF MarkCanary, TakeTransferred, TakeOffered, TakeUnstarted, Take, IInv, Quiet
<1>2. i \in DOMAIN copy /\ copy[i] \in Row /\ RowOK(copy[i])
      /\ copy[i].state \in TransferActive /\ copy[i].state # "VERIFIED"
  <2>1. i \in DOMAIN copy
    BY DEF MarkCanary, TakeTransferred, TakeOffered, TakeUnstarted, Take, IsFirst, Unmarked
  <2>2. copy[i] \in Row /\ RowOK(copy[i]) /\ copy[i].state \in TransferActive
    BY <2>1 DEF IInv, CopyOK
  <2>. QED BY <2>1, <2>2 DEF TransferActive
<1>3. CASE MarkCanary(i)
  <2>1. rows' = [rows EXCEPT ![i] = copy[i]] /\ UNCHANGED <<pc, worker>>
    BY <1>3 DEF MarkCanary
  <2>2. DataOK'
    BY <1>1, <1>2, <2>1, WriteRow DEF IInv
  <2>3. JobOK' /\ ControlOK' /\ CopyOK' /\ ItemOK'
    BY <1>1, <2>1 DEF IInv, JobOK, ControlOK, CopyOK, RowOK, ItemOK, Knows, Quiet, Unmoved
  <2>. QED BY <2>2, <2>3 DEF IInv
<1>4. ASSUME NEW next \in {"transferred", "read", "accepting"}, pc = "next",
             cur' = i, mem' = copy[i], copy' = Without(copy, i), pc' = next,
             Knows(next, copy[i].state, copy[i].perm),
             UNCHANGED <<rows, mode, auto, tries, polls, outcome>>
      PROVE  IInv'
  <2>1. DataOK'
    BY <1>1, <1>4, KeepRows DEF IInv
  <2>2. CopyOK'
    BY <1>4, ShorterList DEF IInv
  <2>3. JobOK' /\ ControlOK'
    BY <1>1, <1>4 DEF IInv, JobOK, ControlOK, Quiet, Unmoved, WorkerPcs, BatchPcs,
                           ItemPcs, EndPcs
  <2>4. ItemOK'
    BY <1>2, <1>4 DEF IInv, ItemOK, Knows
  <2>. QED BY <2>1, <2>2, <2>3, <2>4 DEF IInv
<1>5. CASE TakeTransferred(i)
  <2>1. Knows("transferred", copy[i].state, copy[i].perm)
    BY <1>2, <1>5 DEF TakeTransferred, Knows, RowOK
  <2>. QED BY <1>4, <1>5, <2>1 DEF TakeTransferred, Take
<1>6. CASE TakeUnstarted(i)
  <2>1. Knows("read", copy[i].state, copy[i].perm)
    BY <1>2, <1>6 DEF TakeUnstarted, Knows, RowOK, TransferActive
  <2>. QED BY <1>4, <1>6, <2>1 DEF TakeUnstarted, Take
<1>7. CASE TakeOffered(i)
  <2>1. copy[i].perm /\ copy[i].state \in {"ACCEPT_REQUIRED", "ACCEPTING"}
    BY <1>2, <1>7 DEF TakeOffered, RowOK
  <2>2. Knows("accepting", copy[i].state, copy[i].perm)
    BY <2>1 DEF Knows
  <2>. QED BY <1>4, <1>7, <2>1, <2>2 DEF TakeOffered
<1>. QED BY <1>3, <1>5, <1>6, <1>7

(* The end of a run: stop, exhaustion, sweep and the last status.           *)
LEMMA EndSteps ==
  ASSUME IInv, \/ StopRequested \/ BulkExhausted \/ CanaryExhausted \/ CanaryContinues
               \/ SweepCancelled \/ PersistOutcome
  PROVE  IInv'
<1>1. TargetKeeps /\ LeftOK
  BY SameDrive DEF StopRequested, BulkExhausted, CanaryExhausted, CanaryContinues,
                   SweepCancelled, PersistOutcome, IInv, ControlOK, LeftOK, Quiet
<1>2. CASE StopRequested \/ BulkExhausted
  <2>1. pc \in WorkerPcs /\ Unmoved /\ rows' = rows
    BY <1>2 DEF StopRequested, BulkExhausted, Exhausted, Quiet, WorkerPcs, BatchPcs
  <2>2. PICK o \in {"pause", "cancel", "done", "done_with_errors"} : EndRun(o)
    BY <1>2 DEF StopRequested, BulkExhausted, IInv, JobOK
  <2>3. o \in Outcomes \ {"invalid"} /\ o # "canary_done"
    BY DEF Outcomes, Halts
  <2>4. DataOK'
    BY <1>1, <2>1, KeepRows DEF IInv
  <2>5. JobOK' /\ ControlOK' /\ CopyOK' /\ ItemOK'
    BY <1>1, <2>1, <2>2, <2>3, EndRunKeeps DEF IInv
  <2>. QED BY <2>4, <2>5 DEF IInv
<1>3. CASE CanaryExhausted
  <2>1. PICK o \in {"canary_done", "done", "done_with_errors"} :
          EndRun(o) /\ (o = "canary_done" => mode = "canary")
    BY <1>3 DEF CanaryExhausted
  <2>2. PICK p \in {"sweep", "persist"} : LetGo(o, p)
    BY <2>1 DEF EndRun
  <2>3. ItemOK' /\ outcome' = o /\ pc' = p
    BY <2>2, LetGoItem DEF ItemPcs
  <2>4. UNCHANGED <<rows, status, event, stop, cancelled, left, mode, auto>>
        /\ copy' = NoRows /\ reviewed' \in BOOLEAN /\ pc = "next" /\ mode = "canary"
    BY <1>3, <2>1 DEF CanaryExhausted, EndRun, Exhausted
  <2>5. DataOK'
    BY <1>1, <2>4, KeepRows DEF IInv
  <2>6. JobOK' /\ ControlOK'
    BY <2>3, <2>4 DEF IInv, JobOK, ControlOK, Outcomes, Halts, WorkerPcs, BatchPcs, EndPcs
  <2>. QED BY <2>3, <2>4, <2>5, <2>6, SameList DEF IInv
<1>4. CASE CanaryContinues
  <2>1. /\ rows' = rows /\ reviewed' = TRUE /\ pc = "next" /\ pc' = "start"
        /\ status' = "RUNNING" /\ event' = <<"CANARY_REVIEW", "RUNNING">> /\ mode' = "bulk"
        /\ UNCHANGED <<stop, cancelled, auto, copy, cur, mem, tries, polls, outcome, left>>
    BY <1>4 DEF CanaryContinues, Exhausted
  <2>2. outcome # "canary_done" \/ mode = "canary"
    BY DEF IInv, ControlOK
  <2>3. DataOK' /\ CopyOK'
    BY <1>1, <2>1, KeepRows, SameList DEF IInv
  <2>4. JobOK'
    BY <2>1 DEF IInv, JobOK, Statuses, UnfinishedMutation
  <2>5. ItemOK'
    BY <2>1, ItemAlone DEF ItemPcs
  <2>6. outcome = "none"
    BY <2>1 DEF IInv, ControlOK, EndPcs
  <2>7. ControlOK'
    BY <2>1, <2>6 DEF IInv, ControlOK, WorkerPcs, BatchPcs, EndPcs
  <2>. QED BY <2>3, <2>4, <2>5, <2>7 DEF IInv
<1>5. CASE SweepCancelled
  <2>1. pc = "sweep" /\ pc' = "persist" /\ Unmoved /\ UNCHANGED <<mode, auto, copy, cur, mem,
          tries, polls, outcome, left>>
    BY <1>5 DEF SweepCancelled, Quiet
  <2>2. DataOK'
    <3>1. UnstartedForCancel \in SUBSET States
      BY DEF UnstartedForCancel, States, TransferActive
    <3>. QED BY <1>1, <1>5, <3>1, SweepKeeps DEF SweepCancelled, SweepUnstarted, IInv
  <2>3. JobOK' /\ ControlOK'
    BY <2>1 DEF IInv, JobOK, ControlOK, Unmoved, WorkerPcs, EndPcs
  <2>4. CopyOK' /\ ItemOK'
    BY <2>1, SameList, ItemAlone DEF IInv, ItemPcs
  <2>. QED BY <2>2, <2>3, <2>4 DEF IInv
<1>6. CASE PersistOutcome
  <2>1. /\ pc = "persist" /\ status' = FinalStatus(status, outcome)
        /\ event' = <<status, status'>> /\ LetGo("none", "idle") /\ stop' = "none"
        /\ mode' = "canary" /\ auto' = FALSE
        /\ UNCHANGED <<rows, reviewed, cancelled, copy, left>>
    BY <1>6 DEF PersistOutcome
  <2>2. ItemOK' /\ outcome' = "none" /\ pc' = "idle"
    BY <2>1, LetGoItem DEF ItemPcs
  <2>3. /\ status \in {"RUNNING_CANARY", "RUNNING"} /\ outcome \in Outcomes \ {"invalid"}
        /\ outcome = "canary_done" => status = "RUNNING_CANARY"
    BY <2>1 DEF IInv, JobOK, ControlOK, WorkerPcs, EndPcs
  <2>4. FinalStatus(status, outcome) \in Statuses
    <3>1. CASE outcome = "canary_done"
      BY <2>3, <3>1 DEF FinalStatus, CompleteCanary, Move, Statuses
    <3>2. CASE outcome \in {"done", "done_with_errors"}
      <4>1. CompleteTransfer("RUNNING", outcome = "done_with_errors") \in Statuses
        BY DEF CompleteTransfer, Statuses, TerminalStatus
      <4>2. StartBulk(CompleteCanary("RUNNING_CANARY")) = "RUNNING"
        BY DEF StartBulk, CompleteCanary, Move
      <4>3. FinalStatus(status, outcome) = CompleteTransfer("RUNNING", outcome = "done_with_errors")
        BY <2>3, <3>2, <4>2 DEF FinalStatus
      <4>. QED BY <4>1, <4>3
    <3>3. CASE outcome = "sharing"
      BY <2>3, <3>3 DEF FinalStatus, PauseSharingLimit, Move, Statuses, TransferResumable
    <3>4. CASE outcome = "quota"
      BY <2>3, <3>4 DEF FinalStatus, WaitForQuota, Move, Statuses, TransferResumable
    <3>5. CASE outcome = "auth"
      BY <2>3, <3>5 DEF FinalStatus, RequireAuth, Move, Statuses, UnfinishedMutation,
                        TransferResumable
    <3>6. CASE outcome = "pause"
      BY <2>3, <3>6 DEF FinalStatus, PauseTransfer, Move, Statuses, UnfinishedMutation,
                        TransferResumable
    <3>7. CASE outcome = "cancel"
      BY <2>3, <3>7 DEF FinalStatus, CancelJob, Move, Statuses, TerminalStatus,
                        UnfinishedMutation
    <3>8. CASE outcome \in {"none", "fatal"}
      BY <2>3, <3>8 DEF FinalStatus, Statuses, UnfinishedMutation
    <3>. QED BY <2>3, <3>1, <3>2, <3>3, <3>4, <3>5, <3>6, <3>7, <3>8 DEF Outcomes, Halts
  <2>5. JobOK'
    BY <2>1, <2>2, <2>4 DEF IInv, JobOK, WorkerPcs, BatchPcs, ItemPcs, EndPcs
  <2>6. ControlOK'
    BY <2>1, <2>2 DEF IInv, ControlOK, Outcomes
  <2>7. DataOK' /\ CopyOK'
    BY <1>1, <2>1, KeepRows, SameList DEF IInv
  <2>. QED BY <2>2, <2>5, <2>6, <2>7 DEF IInv
<1>. QED BY <1>2, <1>3, <1>4, <1>5, <1>6

(* Reconciliation before a resume and at startup.                           *)
LEMMA ReconciledRow ==
  ASSUME NEW row \in Row, RowOK(row), row.state \in TransferActive, NEW f \in File
  PROVE  /\ Reconciled(row, f) \in Row /\ RowOK(Reconciled(row, f))
         /\ Reconciled(row, f).state # "VERIFIED"
<1>1. row.state \notin {"VERIFIED", "PENDING_OWNER_CREATED"}
  BY DEF RowOK, TransferActive
<1>2. CASE f.trashed
  <2>1. Reconciled(row, f) = [row EXCEPT !.state = "SKIPPED_TRASHED"]
    BY <1>2 DEF Reconciled
  <2>2. "SKIPPED_TRASHED" \in States
    BY DEF States, Terminal, Skipped
  <2>3. /\ Reconciled(row, f) \in Row /\ Reconciled(row, f).state = "SKIPPED_TRASHED"
    BY <2>1, <2>2, SetState
  <2>. QED BY <2>3 DEF RowOK
<1>3. CASE ~f.trashed /\ f.owner = "target"
  <2>. DEFINE s == IF row.state \in {"PENDING_OWNER_CREATED", "ACCEPTING"}
                   THEN "VERIFYING" ELSE row.state
  <2>1. Reconciled(row, f) = [row EXCEPT !.state = s]
    BY <1>3 DEF Reconciled, TargetOwns
  <2>2. s \in States
    BY DEF States, TransferActive
  <2>3. s # "VERIFIED" /\ s # "PENDING_OWNER_CREATED" /\ s # "DISCOVERED"
        /\ (s \in {"ACCEPT_REQUIRED", "ACCEPTING", "TRANSFERRED"} => row.perm)
    BY <1>1 DEF RowOK
  <2>. HIDE DEF s
  <2>4. /\ [row EXCEPT !.state = s] \in Row
        /\ [row EXCEPT !.state = s].state = s /\ [row EXCEPT !.state = s].perm = row.perm
    BY <2>2, SetState
  <2>. QED BY <2>1, <2>3, <2>4 DEF RowOK
<1>4. CASE ~f.trashed /\ f.owner # "target" /\ f.perm = "none"
  BY <1>1, <1>4 DEF Reconciled, TargetOwns
<1>5. CASE ~f.trashed /\ f.owner # "target" /\ f.perm # "none"
  <2>. DEFINE s == IF row.state = "PENDING_OWNER_CREATED" /\ f.perm = "pending"
                   THEN "ACCEPT_REQUIRED" ELSE row.state
              r == [row EXCEPT !.perm = TRUE, !.state = s]
  <2>1. Reconciled(row, f) = r
    BY <1>5 DEF Reconciled, TargetOwns
  <2>2. s = row.state
    BY <1>1
  <2>3. r \in Row
    BY <2>2 DEF Row
  <2>4. r.state = s
    BY DEF Row
  <2>5. r.perm = TRUE
    BY DEF Row
  <2>. QED BY <1>1, <2>1, <2>2, <2>3, <2>4, <2>5 DEF RowOK
<1>. QED BY <1>2, <1>3, <1>4, <1>5

(* Every way a reconciliation ends keeps the invariant.                     *)
LEMMA ReconcileSteps ==
  ASSUME IInv, \/ \E i \in Items : ReconcileItem(i)
               \/ ReconcileError \/ ReconcileUnauthorized \/ ResumeReconciled
               \/ StartupReconciled \/ Startup \/ StartupWithoutTokens
  PROVE  IInv'
<1>1. TargetKeeps
  BY SameDrive DEF ReconcileItem, ReconcileError, ReconcileUnauthorized, ResumeReconciled,
                   StartupReconciled, Startup, StartupWithoutTokens, IInv, Quiet
<1>2. ASSUME NEW i \in Items, ReconcileItem(i)
      PROVE  IInv'
  <2>1. i \in DOMAIN copy
    BY <1>2 DEF ReconcileItem, IsFirst
  <2>2. copy[i] \in Row /\ RowOK(copy[i]) /\ copy[i].state \in TransferActive /\ drive[i] \in File
    BY <2>1 DEF IInv, CopyOK, DataOK
  <2>3. PICK r \in Row : /\ RowOK(r) /\ r.state # "VERIFIED"
                         /\ rows' = [rows EXCEPT ![i] = r]
    <3>1. CASE VisibleToReader(copy[i], drive[i])
      BY <1>2, <2>2, <3>1, ReconciledRow DEF ReconcileItem
    <3>2. CASE ~VisibleToReader(copy[i], drive[i])
      <4>. DEFINE r == [copy[i] EXCEPT !.state = "PERMANENT_FAILED"]
      <4>1. "PERMANENT_FAILED" \in States
        BY DEF States, Terminal
      <4>2. r \in Row /\ r.state = "PERMANENT_FAILED"
        BY <2>2, <4>1, SetState
      <4>3. rows' = [rows EXCEPT ![i] = r]
        BY <1>2, <3>2 DEF ReconcileItem
      <4>. QED BY <4>2, <4>3 DEF RowOK
    <3>. QED BY <3>1, <3>2
  <2>4. DataOK'
    BY <1>1, <2>3, WriteRow DEF IInv
  <2>5. CopyOK'
    BY <1>2, ShorterList DEF ReconcileItem, IInv
  <2>6. JobOK' /\ ControlOK' /\ ItemOK'
    BY <1>2 DEF ReconcileItem, IInv, JobOK, ControlOK, ItemOK, Knows, Quiet, Unmoved
  <2>. QED BY <2>4, <2>5, <2>6 DEF IInv
<1>3. ASSUME rows' = rows, pc' = "idle", copy' = copy \/ copy' = NoRows,
             UNCHANGED <<reviewed, stop, cancelled, mode, auto, cur, mem, tries, polls, outcome>>,
             pc \notin EndPcs, LeftOK, status' \in Statuses,
             event' = event \/ event' = <<status, status'>>
      PROVE  IInv'
  <2>1. DataOK' /\ CopyOK'
    BY <1>1, <1>3, KeepRows, SameList DEF IInv
  <2>2. ItemOK'
    BY <1>3, ItemAlone DEF ItemPcs
  <2>3. JobOK'
    BY <1>3 DEF IInv, JobOK, WorkerPcs, BatchPcs, ItemPcs, EndPcs
  <2>4. ControlOK'
    BY <1>3 DEF IInv, ControlOK, LeftOK, EndPcs
  <2>. QED BY <2>1, <2>2, <2>3, <2>4 DEF IInv
<1>4. \A s \in UnfinishedMutation : PauseTransfer(s) \in Statuses
  BY DEF PauseTransfer, Move, Statuses, TransferResumable
<1>5. \A s \in UnfinishedMutation \cup TransferResumable : RequireAuth(s) \in Statuses
  BY DEF RequireAuth, Move, Statuses, TransferResumable
<1>6. status \in Statuses /\ (pc = "startup" => status \in UnfinishedMutation)
      /\ (pc = "resume" => status \in TransferResumable)
  BY DEF IInv, JobOK
<1>7. CASE ReconcileError
  <2>1. LeftOK /\ pc \notin EndPcs
    BY <1>7, SpendType DEF ReconcileError, Reading, EndPcs, IInv
  <2>2. status' \in Statuses
    BY <1>4, <1>6, <1>7 DEF ReconcileError
  <2>. QED BY <1>3, <1>7, <2>1, <2>2 DEF ReconcileError
<1>8. CASE ReconcileUnauthorized
  <2>1. LeftOK /\ pc \notin EndPcs
    BY <1>8, SpendType DEF ReconcileUnauthorized, Reading, EndPcs, IInv
  <2>2. status' \in Statuses
    BY <1>5, <1>6, <1>8 DEF ReconcileUnauthorized, Reading
  <2>. QED BY <1>3, <1>8, <2>1, <2>2 DEF ReconcileUnauthorized
<1>9. CASE StartupWithoutTokens
  <2>1. LeftOK /\ pc \notin EndPcs
    BY <1>9, SpendType DEF StartupWithoutTokens, EndPcs, IInv
  <2>2. status' \in Statuses
    BY <1>5, <1>9 DEF StartupWithoutTokens
  <2>. QED BY <1>3, <1>9, <2>1, <2>2 DEF StartupWithoutTokens
<1>10. CASE StartupReconciled
  <2>1. LeftOK /\ pc \notin EndPcs
    BY <1>10 DEF StartupReconciled, EndPcs, IInv, ControlOK, LeftOK
  <2>2. status' \in Statuses
    BY <1>4, <1>6, <1>10 DEF StartupReconciled
  <2>. QED BY <1>3, <1>10, <2>1, <2>2 DEF StartupReconciled
<1>11. CASE ResumeReconciled
  <2>1. pc = "resume" /\ pc \notin EndPcs /\ mode \in {"canary", "bulk"}
    BY <1>11 DEF ResumeReconciled, EndPcs, IInv, ControlOK
  <2>2. ResumeTransfer(status, mode = "canary")
          = (IF mode = "canary" THEN "RUNNING_CANARY" ELSE "RUNNING")
    BY <1>6, <2>1 DEF ResumeTransfer, Move
  <2>. QED BY <1>11, <2>1, <2>2, LaunchKeeps DEF ResumeReconciled, IInv, JobOK
<1>12. CASE Startup
  <2>1. /\ pc = "down" /\ Quiet /\ pc' \in {"startup", "idle"}
        /\ pc' = "startup" => status \in UnfinishedMutation
        /\ UNCHANGED <<rows, mode, auto, cur, mem, tries, polls, outcome>>
    BY <1>12 DEF Startup
  <2>2. DataOK' /\ ItemOK'
    BY <1>1, <2>1, KeepRows, ItemAlone DEF IInv, ItemPcs
  <2>3. JobOK' /\ ControlOK'
    BY <2>1 DEF IInv, JobOK, ControlOK, Quiet, Unmoved, WorkerPcs, BatchPcs, ItemPcs, EndPcs
  <2>4. CopyOK'
    <3>1. CASE copy' = RowsOf(Checkpoints)
      <4>1. Checkpoints \subseteq Items /\ \A i \in Checkpoints : rows[i].state \in TransferActive
        BY DEF Checkpoints, IntermediateCheckpoint, TransferActive
      <4>. QED BY <3>1, <4>1, ListOfRows
    <3>2. CASE copy' = copy
      BY <3>2, SameList DEF IInv
    <3>. QED BY <1>12, <3>1, <3>2 DEF Startup
  <2>. QED BY <2>2, <2>3, <2>4 DEF IInv
<1>. QED BY <1>2, <1>7, <1>8, <1>9, <1>10, <1>11, <1>12

(* The commands.                                                            *)
LEMMA BeginResumeKeeps ==
  ASSUME IInv, DataOK', pc = "idle", status \in TransferResumable, BeginResume,
         UNCHANGED <<status, event, reviewed, stop, cur, mem, tries, polls, outcome>>, LeftOK
  PROVE  IInv'
<1>1. pc' = "resume" /\ mode' \in {"canary", "bulk"} /\ auto' = FALSE /\ cancelled' = FALSE
      /\ copy' = RowsOf(Checkpoints)
  BY DEF BeginResume
<1>2. Checkpoints \subseteq Items /\ \A i \in Checkpoints : rows[i].state \in TransferActive
  BY DEF Checkpoints, IntermediateCheckpoint, TransferActive
<1>3. CopyOK'
  BY <1>1, <1>2, ListOfRows
<1>4. ItemOK'
  BY <1>1, ItemAlone DEF ItemPcs
<1>5. JobOK'
  BY <1>1 DEF IInv, JobOK, WorkerPcs, BatchPcs, ItemPcs, EndPcs
<1>6. ControlOK'
  BY <1>1 DEF IInv, ControlOK, LeftOK, EndPcs
<1>. QED BY <1>3, <1>4, <1>5, <1>6 DEF IInv

(* Every command keeps the invariant.                                       *)
LEMMA UserSteps ==
  ASSUME IInv, UserStep \/ CancelJobStep
  PROVE  IInv'
<1>1. status \in Statuses
  BY DEF IInv, JobOK
<1>2. CASE StartCanaryCommand
  <2>1. StartCanary(status) = "RUNNING_CANARY" /\ pc \notin EndPcs
    BY <1>2 DEF StartCanaryCommand, Idle, StartCanary, Move, EndPcs
  <2>. QED BY <1>2, <2>1, LaunchKeeps DEF StartCanaryCommand, Idle
<1>3. CASE ContinueMigration
  <2>1. StartBulk(status) = "RUNNING" /\ pc \notin EndPcs
    BY <1>3 DEF ContinueMigration, Idle, StartBulk, Move, EndPcs
  <2>. QED BY <1>3, <2>1, LaunchKeeps DEF ContinueMigration, Idle
<1>4. CASE ScanAgain
  <2>1. pc = "idle" /\ cancelled' = FALSE /\ UNCHANGED <<drive, rows, reviewed, copy, cur, mem,
          tries, polls, outcome, left, event, stop, pc, mode, auto>>
    BY <1>4 DEF ScanAgain, Idle
  <2>2. status' = "READY_FOR_REVIEW" /\ status' \in Statuses
    BY <1>4 DEF ScanAgain, CompleteScanning, StartScanning, Move, Statuses
  <2>3. DataOK' /\ CopyOK' /\ ItemOK'
    BY <2>1, SameDrive, KeepRows, SameList, ItemAlone DEF IInv, ItemPcs
  <2>4. JobOK' /\ ControlOK'
    BY <2>1, <2>2 DEF IInv, JobOK, ControlOK, WorkerPcs, BatchPcs, ItemPcs, EndPcs
  <2>. QED BY <2>3, <2>4 DEF IInv
<1>5. CASE ResumeMigration
  <2>1. DataOK' /\ LeftOK
    BY <1>5, SameDrive, KeepRows DEF ResumeMigration, IInv, ControlOK, LeftOK
  <2>. QED BY <1>5, <2>1, BeginResumeKeeps DEF ResumeMigration, CanResume
<1>6. CASE RetryFailedItems
  <2>1. LeftOK /\ TargetKeeps
    BY <1>6, SpendType, SameDrive DEF RetryFailedItems, IInv
  <2>2. DataOK'
    <3>. DEFINE from == {"RETRYABLE_FAILED"}
    <3>1. from \in SUBSET States
      BY DEF States, TransferActive
    <3>2. rows' = [i \in Items |-> IF rows[i].state \in from
                                   THEN [rows[i] EXCEPT !.state = "PENDING_OWNER_REQUIRED"]
                                   ELSE rows[i]]
      BY <1>6 DEF RetryFailedItems
    <3>. HIDE DEF from
    <3>. QED BY <2>1, <3>1, <3>2, SweepKeeps DEF IInv
  <2>3. UNCHANGED <<status, event, reviewed, stop, cur, mem, tries, polls, outcome>>
    BY <1>6 DEF RetryFailedItems
  <2>4. CASE CanResume
    BY <1>6, <2>1, <2>2, <2>3, <2>4, BeginResumeKeeps DEF RetryFailedItems, CanResume
  <2>5. CASE ~CanResume
    <3>1. UNCHANGED <<pc, mode, auto, copy, cancelled>>
      BY <1>6, <2>5 DEF RetryFailedItems
    <3>2. CopyOK'
      BY <3>1, SameList DEF IInv
    <3>3. JobOK' /\ ControlOK' /\ ItemOK'
      BY <2>1, <2>3, <3>1 DEF IInv, JobOK, ControlOK, ItemOK, Knows, LeftOK
    <3>. QED BY <2>2, <3>2, <3>3 DEF IInv
  <2>. QED BY <2>4, <2>5
<1>7. CASE PauseMigration
  <2>1. UNCHANGED <<drive, rows, reviewed, cancelled, pc, mode, auto, copy, cur, mem, tries,
                    polls, outcome, left>>
    BY <1>7 DEF PauseMigration
  <2>2. stop' \in {"none", "pause", "cancel"}
    BY <1>7 DEF PauseMigration, IInv, JobOK
  <2>3. DataOK' /\ CopyOK'
    BY <2>1, SameDrive, KeepRows, SameList DEF IInv
  <2>4. ControlOK' /\ ItemOK'
    BY <2>1 DEF IInv, ControlOK, ItemOK, Knows
  <2>5. CASE InFlight
    BY <1>7, <2>1, <2>2, <2>3, <2>4, <2>5 DEF PauseMigration, IInv, JobOK
  <2>6. CASE ~InFlight
    <3>1. status' = PauseTransfer(status) /\ event' = <<status, status'>>
          /\ status \in {"RUNNING_CANARY", "RUNNING", "PAUSED"} /\ pc = "idle"
      BY <1>7, <2>6 DEF PauseMigration, Serving
    <3>2. status' \in Statuses
      BY <3>1 DEF PauseTransfer, Move, Statuses, UnfinishedMutation, TransferResumable
    <3>3. JobOK'
      BY <2>1, <2>2, <3>1, <3>2 DEF IInv, JobOK, WorkerPcs, BatchPcs, ItemPcs, EndPcs
    <3>. QED BY <2>3, <2>4, <3>3 DEF IInv
  <2>. QED BY <2>5, <2>6
<1>8. CASE CancelMigration
  <2>1. stop' = "cancel" /\ cancelled' \in BOOLEAN
        /\ UNCHANGED <<drive, status, event, reviewed, mode, auto, copy, cur, mem, tries,
                       polls, outcome, left>>
    BY <1>8 DEF CancelMigration, IInv, JobOK
  <2>2. TargetKeeps /\ CopyOK'
    BY <2>1, SameDrive, SameList DEF IInv
  <2>3. CASE InFlight
    <3>1. UNCHANGED <<rows, pc>>
      BY <1>8, <2>3 DEF CancelMigration
    <3>2. DataOK'
      BY <2>2, <3>1, KeepRows DEF IInv
    <3>3. JobOK' /\ ControlOK' /\ ItemOK'
      BY <2>1, <3>1 DEF IInv, JobOK, ControlOK, ItemOK, Knows
    <3>. QED BY <2>2, <3>2, <3>3 DEF IInv
  <2>4. CASE ~InFlight
    <3>1. pc = "idle" /\ pc' = "cancelling" /\ SweepUnstarted
      BY <1>8, <2>4 DEF CancelMigration, Serving
    <3>2. DataOK'
      <4>1. UnstartedForCancel \in SUBSET States
        BY DEF UnstartedForCancel, States, TransferActive
      <4>. QED BY <2>2, <3>1, <4>1, SweepKeeps DEF SweepUnstarted, IInv
    <3>3. ItemOK'
      BY <2>1, <3>1, ItemAlone DEF ItemPcs
    <3>4. JobOK' /\ ControlOK'
      BY <2>1, <3>1 DEF IInv, JobOK, ControlOK, WorkerPcs, BatchPcs, ItemPcs, EndPcs
    <3>. QED BY <2>2, <3>2, <3>3, <3>4 DEF IInv
  <2>. QED BY <2>3, <2>4
<1>9. CASE CancelJobStep
  <2>1. pc = "cancelling" /\ pc' = "idle"
        /\ UNCHANGED <<drive, rows, reviewed, stop, mode, auto, copy, cur, mem, tries, polls,
                       outcome, left>>
    BY <1>9 DEF CancelJobStep
  <2>2. status' \in Statuses /\ (event' = event \/ event' = <<status, status'>>)
        /\ cancelled' \in BOOLEAN
    <3>1. CancelJob(status) \in {"CANCELLED", Illegal}
      BY DEF CancelJob, Move
    <3>2. "CANCELLED" \in Statuses
      BY DEF Statuses, TerminalStatus
    <3>. QED BY <1>1, <1>9, <3>1, <3>2 DEF CancelJobStep, IInv, JobOK
  <2>3. DataOK' /\ CopyOK' /\ ItemOK'
    BY <2>1, SameDrive, KeepRows, SameList, ItemAlone DEF IInv, ItemPcs
  <2>4. JobOK' /\ ControlOK'
    BY <1>1, <2>1, <2>2 DEF IInv, JobOK, ControlOK, WorkerPcs, BatchPcs, ItemPcs, EndPcs
  <2>. QED BY <2>3, <2>4 DEF IInv
<1>. QED BY <1>2, <1>3, <1>4, <1>5, <1>6, <1>7, <1>8, <1>9 DEF UserStep

(* Faults, crashes and people outside.                                      *)
LEMMA FaultSteps ==
  ASSUME IInv, RemoteFails \/ RunFails \/ Crash \/ CanaryUnsettled
  PROVE  IInv'
<1>1. TargetKeeps
  BY SameDrive DEF RemoteFails, RunFails, Crash, CanaryUnsettled, IInv
<1>2. LeftOK
  BY SpendType DEF RemoteFails, RunFails, Crash, CanaryUnsettled, IInv
<1>3. CASE RemoteFails
  BY <1>1, <1>2, <1>3, FailKeeps DEF RemoteFails, Calling
<1>4. CASE RunFails
  <2>1. pc \in WorkerPcs /\ EndRun("fatal") /\ Unmoved /\ rows' = rows
    BY <1>4 DEF RunFails, WorkerPcs, BatchPcs
  <2>2. "fatal" \in Outcomes \ {"invalid"}
    BY DEF Outcomes
  <2>3. DataOK'
    BY <1>1, <2>1, KeepRows DEF IInv
  <2>4. JobOK' /\ ControlOK' /\ CopyOK' /\ ItemOK'
    BY <1>2, <2>1, <2>2, EndRunKeeps DEF IInv
  <2>. QED BY <2>3, <2>4 DEF IInv
<1>5. CASE Crash
  <2>1. LetGo("none", "down") /\ copy' = NoRows /\ mode' = "canary" /\ auto' = FALSE
        /\ stop' = "none" /\ cancelled' = FALSE /\ UNCHANGED <<rows, status, event, reviewed>>
    BY <1>5 DEF Crash
  <2>2. ItemOK' /\ outcome' = "none" /\ pc' = "down"
    BY <2>1, LetGoItem DEF ItemPcs
  <2>3. DataOK' /\ CopyOK'
    BY <1>1, <2>1, KeepRows, SameList DEF IInv
  <2>4. JobOK' /\ ControlOK'
    BY <1>2, <2>1, <2>2 DEF IInv, JobOK, ControlOK, LeftOK, Outcomes, WorkerPcs, BatchPcs,
                            ItemPcs, EndPcs
  <2>. QED BY <2>2, <2>3, <2>4 DEF IInv
<1>6. CASE CanaryUnsettled
  <2>1. LetGo("canary_done", "persist") /\ copy' = NoRows /\ pc = "next"
        /\ mode = "canary" /\ reviewed' = TRUE
        /\ UNCHANGED <<rows, status, event, stop, cancelled, mode, auto>>
    BY <1>6 DEF CanaryUnsettled, EndRun, Exhausted
  <2>2. ItemOK' /\ outcome' = "canary_done" /\ pc' = "persist"
    BY <2>1, LetGoItem DEF ItemPcs
  <2>3. DataOK' /\ CopyOK'
    BY <1>1, <2>1, KeepRows, SameList DEF IInv
  <2>4. JobOK' /\ ControlOK'
    BY <1>2, <2>1, <2>2 DEF IInv, JobOK, ControlOK, LeftOK, Outcomes, WorkerPcs, BatchPcs, EndPcs
  <2>. QED BY <2>2, <2>3, <2>4 DEF IInv
<1>. QED BY <1>3, <1>4, <1>5, <1>6

(* The change f of file i takes nothing from a target that keeps its files. *)
TargetLets(i, f) ==
  "giveback" \notin EnvKinds /\ drive[i].owner = "target" => f.owner = "target"

(* Nothing people do outside breaks the invariant.                          *)
LEMMA WorldSteps ==
  ASSUME IInv, World
  PROVE  IInv'
<1>1. PICK i \in Items, kind \in EnvKinds, f \in File :
        Outside(i, kind, f) /\ TargetLets(i, f)
  <2>1. PICK i \in Items : Touched(i)
    BY DEF World
  <2>2. drive[i] \in File
    BY DEF IInv, DataOK
  <2>3. ASSUME NEW kind, NEW f, Outside(i, kind, f), TargetLets(i, f)
        PROVE  \E k \in EnvKinds, g \in File :
                 Outside(i, k, g) /\ TargetLets(i, g)
    BY <2>3 DEF Outside
  <2>4. CASE Outside(i, "trash", [drive[i] EXCEPT !.trashed = TRUE])
    <3>1. [drive[i] EXCEPT !.trashed = TRUE].owner = drive[i].owner
      BY <2>2 DEF File
    <3>. QED BY <2>3, <2>4, <3>1 DEF TargetLets
  <2>5. CASE Outside(i, "move", [drive[i] EXCEPT !.moved = TRUE])
    <3>1. [drive[i] EXCEPT !.moved = TRUE].owner = drive[i].owner
      BY <2>2 DEF File
    <3>. QED BY <2>3, <2>5, <3>1 DEF TargetLets
  <2>6. CASE drive[i].owner = "source" /\ \E k, g : Outside(i, k, g)
    BY <2>3, <2>6 DEF TargetLets
  <2>7. CASE \E f : Outside(i, "giveback", f)
    BY <2>3, <2>7 DEF TargetLets, Outside
  <2>8. \/ Outside(i, "trash", [drive[i] EXCEPT !.trashed = TRUE])
        \/ Outside(i, "move", [drive[i] EXCEPT !.moved = TRUE])
        \/ \E f : Outside(i, "giveback", f)
        \/ drive[i].owner = "source" /\ \E k, g : Outside(i, k, g)
    BY <2>1, Zenon DEF Touched
  <2>. QED BY <2>1, <2>4, <2>5, <2>6, <2>7, <2>8
<1>2. drive' = [drive EXCEPT ![i] = f] /\ Spend("env") /\ Unmoved /\ UNCHANGED <<rows, pc, worker>>
  BY <1>1 DEF Outside
<1>3. TargetKeeps
  BY <1>1, <1>2 DEF TargetKeeps, TargetLets, IInv, DataOK
<1>4. LeftOK
  BY <1>2, SpendType DEF IInv
<1>5. DataOK' /\ CopyOK'
  BY <1>2, <1>3, KeepRows, SameList DEF IInv
<1>6. JobOK' /\ ControlOK' /\ ItemOK'
  BY <1>2, <1>4 DEF IInv, JobOK, ControlOK, ItemOK, Knows, LeftOK, Unmoved
<1>. QED BY <1>5, <1>6 DEF IInv

--------------------------------------------------------------------------------
(* The job of a finished scan satisfies the invariant.                      *)
LEMMA InitInvariant ==
  ASSUME Init PROVE IInv
<1>1. drive \in [Items -> File]
  BY DEF Init
<1>2. rows \in [Items -> Row] /\ \A i \in Items : rows[i].state = "ELIGIBLE"
  BY DEF Init, Row, States, TransferActive
<1>3. DataOK
  BY <1>1, <1>2 DEF DataOK, RowOK, VerifiedIsOwned
<1>4. JobOK
  BY DEF Init, JobOK, Statuses, WorkerPcs, BatchPcs, ItemPcs, EndPcs
<1>5. ControlOK
  BY BoundsAssumption DEF Init, ControlOK, Outcomes, EndPcs
<1>6. CopyOK
  BY DEF Init, CopyOK, NoRows
<1>7. BlankRow \in Row
  BY DEF BlankRow, Row, States
<1>8. ItemOK
  BY <1>7, BoundsAssumption DEF Init, ItemOK, Knows, ItemPcs
<1>. QED BY <1>3, <1>4, <1>5, <1>6, <1>8 DEF IInv

(* Every step of the application, of Google Drive and of people outside     *)
(* keeps the invariant.                                                     *)
LEMMA NextInvariant ==
  ASSUME IInv, [Next]_vars PROVE IInv'
<1>1. CASE UNCHANGED vars
  BY <1>1 DEF vars, IInv, DataOK, JobOK, ControlOK, CopyOK, ItemOK, Knows, RowOK,
                 VerifiedIsOwned
<1>2. CASE UserStep \/ CancelJobStep
  BY <1>2, UserSteps
<1>3. CASE BatchStep
  BY <1>3, LoadSteps, ListSteps, EndSteps DEF BatchStep
<1>4. CASE ItemStep
  BY <1>4, ReadSteps, SaveSteps, MutationSteps, VerifySteps DEF ItemStep
<1>5. CASE ReconcileStep
  BY <1>5, ReconcileSteps DEF ReconcileStep
<1>6. CASE FaultStep
  BY <1>6, FaultSteps, MutationSteps, ReconcileSteps DEF FaultStep
<1>7. CASE World
  BY <1>7, WorldSteps
<1>. QED BY <1>1, <1>2, <1>3, <1>4, <1>5, <1>6, <1>7 DEF Next, WorkerStep

(* The invariant holds in every run of the engine, whatever fails.          *)
THEOREM Invariance == Spec => []IInv
<1>1. Init => IInv
  BY InitInvariant
<1>2. IInv /\ [Next]_vars => IInv'
  BY NextInvariant
<1>. QED BY <1>1, <1>2, PTL DEF Spec

(* Every variable keeps its type; in particular no operation of the job is  *)
(* applied in a status it refuses while a run is under way.                 *)
THEOREM TypeCorrect == Spec => []TypeOK
<1>1. IInv => TypeOK
  BY DEF IInv, DataOK, JobOK, ControlOK, CopyOK, ItemOK, TypeOK
<1>. QED BY <1>1, Invariance, PTL

(* A row says VERIFIED only while the target owns the file, if the target   *)
(* gives nothing away.                                                      *)
THEOREM VerifiedOwnership == Spec => []VerifiedIsOwned
<1>1. IInv => VerifiedIsOwned
  BY DEF IInv, DataOK
<1>. QED BY <1>1, Invariance, PTL

(* A row that waits for the acceptance always names the permission, and     *)
(* PENDING_OWNER_CREATED is never on disk.                                  *)
THEOREM PermissionKnown == Spec => []AcceptKnowsPermission
<1>1. IInv => AcceptKnowsPermission
  BY DEF IInv, DataOK, RowOK, AcceptKnowsPermission
<1>. QED BY <1>1, Invariance, PTL

(* The engine asks only for transitions that item.rs allows.                *)
THEOREM LegalTransitions == Spec => []EngineStaysLegal
<1>1. IInv => EngineStaysLegal
  BY DEF IInv, ControlOK, EngineStaysLegal
<1>. QED BY <1>1, Invariance, PTL
================================================================================
