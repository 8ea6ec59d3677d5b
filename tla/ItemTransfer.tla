------------------------------ MODULE ItemTransfer ------------------------------
(***************************************************************************)
(* The transfer engine of one migration job (application/transfer.rs) and  *)
(* the part of JobService that starts, stops and resumes it: a worker that *)
(* walks the job's items, moves the ownership of each one from the source  *)
(* to the target account in two remote steps (offer by the source,         *)
(* acceptance by the target), and writes a row to SQLite between any two   *)
(* remote effects, so that a crash can be recovered from the rows.         *)
(*                                                                         *)
(* Google Drive is external: "drive" says who owns a file and what         *)
(* permission the target has. A remote mutation may fail without effect,   *)
(* or take effect and lose its response; the owner of the files may change *)
(* them meanwhile (EnvKinds). A step that reads Drive and then saves a row *)
(* is one action: nothing but the worker uses that row, so a change of     *)
(* Drive between the two is a change right after the save. A step that     *)
(* changes Drive and the save after it are two actions, as a crash between *)
(* them matters.                                                           *)
(*                                                                         *)
(* Commands of the user run here without interleaving with each other;     *)
(* JobControl models their races. No bound is part of the code except      *)
(* MaxRetry: Budget limits how often the world may misbehave.              *)
(***************************************************************************)
EXTENDS Integers, FiniteSets, ItemState, JobStatus

CONSTANTS
  Items,      \* the job's files, as the scan left them
  NoItem,
  Rank,       \* position of a file in ORDER BY depth DESC, name
  CanarySize, \* job.canary_size()
  MaxRetry,   \* MAX_RETRY_ATTEMPTS
  EnvKinds,   \* what people may do to the files outside the application
  Budget      \* how many faults, outside changes, crashes and retry requests

ASSUME ItemsAssumption  == IsFiniteSet(Items) /\ NoItem \notin Items
ASSUME RankAssumption   == /\ Rank \in [Items -> Nat]
                           /\ \A i, j \in Items : Rank[i] = Rank[j] => i = j
ASSUME BoundsAssumption == /\ CanarySize \in Nat \ {0}
                           /\ MaxRetry \in Nat
                           /\ Budget \in [{"fault", "env", "crash", "retry"} -> Nat]
ASSUME EnvAssumption    == EnvKinds \subseteq {"trash", "revoke", "share", "accept",
                                               "giveaway", "shareddrive", "move", "giveback"}

VARIABLES
  drive,     \* external: owner, target's permission, trashed, moved of each file
  rows,      \* migration_items: state, target_permission_id recorded?, canary_selected
  status,    \* migration_jobs.status
  event,     \* <<previous, new>> of the latest JOB_STATUS event
  reviewed,  \* history: the canary has been run to its end
  stop,      \* the pause and cancel flags of the job (cancel is looked at first)
  cancelled, \* history: a cancel request was answered and the job is not over yet
  pc,        \* where the process is
  mode,      \* "canary" or "bulk"
  auto,      \* worker spawned by run_auto_mutation_if_ready
  copy,      \* the rows loaded into the worker's list and not yet worked on
  cur, mem,  \* the item being transferred and its in-memory copy
  tries,     \* attempt of the retry loop around the current remote call
  polls,     \* attempt of the verification loop
  outcome,   \* how the run ended
  left       \* what is left of Budget

durable == <<rows, status, event, reviewed>>
worker  == <<mode, auto, copy, cur, mem, tries, polls, outcome>>
vars == <<drive, rows, status, event, reviewed, stop, cancelled, pc, mode, auto,
          copy, cur, mem, tries, polls, outcome, left>>

--------------------------------------------------------------------------------
Owners      == {"source", "target", "other", "shareddrive"}
Permissions == {"none", "writer", "pending", "owner"}
File == [owner: Owners, perm: Permissions, trashed: BOOLEAN, moved: BOOLEAN]
Row  == [state: States, perm: BOOLEAN, canary: BOOLEAN]
BlankRow == [state |-> "DISCOVERED", perm |-> FALSE, canary |-> FALSE]

Halts    == {"sharing", "quota", "auth", "pause", "cancel"}
Outcomes == Halts \cup {"none", "canary_done", "done", "done_with_errors",
                        "fatal", "invalid"}

BatchPcs  == {"launch", "start", "mark", "next"}
ItemPcs   == {"read", "create", "update", "offered", "accepting", "accept",
              "accepted", "transferred", "verify"}
EndPcs    == {"sweep", "persist"}
WorkerPcs == BatchPcs \cup ItemPcs \cup EndPcs
InFlight  == pc \in WorkerPcs \cup {"resume"}   \* transfer_is_in_flight(job)

HasPermission(f) == f.perm # "none"   \* mutant: looks at the permissions

TargetOwns(f) == f.owner = "target"   \* is_owner, on either account
SourceOwns(f) == f.owner = "source"

NoRows == [i \in {} |-> BlankRow]
IsFirst(i, S) == i \in S /\ \A j \in S : Rank[i] <= Rank[j]
Without(f, i) == [j \in DOMAIN f \ {i} |-> f[j]]
RowsOf(S)     == [i \in S |-> rows[i]]

Active == {i \in Items : rows[i].state \in TransferActive} \* list_items_for_transfer
Cohort == {i \in Items : rows[i].canary}                   \* list_canary_cohort
Failed(S) == \E i \in S : rows[i].state \in {"RETRYABLE_FAILED", "PERMANENT_FAILED"}

Spend(k) == left[k] > 0 /\ left' = [left EXCEPT ![k] = @ - 1]

(* What JobService infers about the phase of a job that is not running. *)
Mentions(s) == event[1] = s \/ event[2] = s
BulkMutationHasStarted ==
  \E i \in Active : ~rows[i].canary /\ rows[i].state # "ELIGIBLE"
ResumeAsCanaryByEvent ==   \* mutant: asks the latest event only
  ~Mentions("RUNNING") /\ ~Mentions("CANARY_REVIEW") /\ Mentions("RUNNING_CANARY")

ShouldResumeAsCanary ==
  /\ ~Mentions("RUNNING") /\ ~Mentions("CANARY_REVIEW")
  /\ Mentions("RUNNING_CANARY") \/ ~BulkMutationHasStarted
LooksLikeTransferPause ==
  event[1] \in UnfinishedMutation \/ Cohort # {} \/ BulkMutationHasStarted
RunPhaseIsScan ==
  /\ ~LooksLikeTransferPause
  /\ status # "PAUSED" => ~ShouldResumeAsCanary
--------------------------------------------------------------------------------
Init ==
  /\ drive \in [Items -> {f \in File : /\ f.owner = "source" /\ ~f.trashed /\ ~f.moved
                                       /\ f.perm \in {"none", "writer", "pending"}}]
  /\ rows = [i \in Items |-> [state |-> "ELIGIBLE", perm |-> FALSE, canary |-> FALSE]]
  /\ status = "READY_FOR_REVIEW" /\ event = <<"NONE", "NONE">> /\ reviewed = FALSE
  /\ stop = "none" /\ cancelled = FALSE /\ pc \in {"idle", "scanned"}
  /\ mode = "canary" /\ auto = FALSE /\ copy = NoRows
  /\ cur = NoItem /\ mem = BlankRow /\ tries = 0 /\ polls = 0
  /\ outcome = "none" /\ left = Budget

--------------------------------------------------------------------------------
(* The worker lets go of its item; o # "none" also ends the run. *)
LetGo(o, next) ==
  /\ cur' = NoItem /\ mem' = BlankRow /\ tries' = 0 /\ polls' = 0
  /\ outcome' = o /\ pc' = next

EndRun(o) ==
  /\ LetGo(o, IF o = "cancel" THEN "sweep" ELSE "persist")
  /\ copy' = NoRows /\ UNCHANGED <<mode, auto>>

(* apply_state_outcome and persist_outcome on the current item. *)
Save(state, perm, next) ==
  LET row == [mem EXCEPT !.state = state, !.perm = perm] IN
  IF CanTransition(mem.state, state)
  THEN /\ mem' = row /\ rows' = [rows EXCEPT ![cur] = row] /\ pc' = next
       /\ tries' = 0 /\ UNCHANGED <<mode, auto, copy, cur, polls, outcome>>
  ELSE EndRun("invalid") /\ UNCHANGED rows

(* The same, and the worker is done with the item. *)
SaveAndFinish(state) ==
  IF CanTransition(mem.state, state)
  THEN /\ rows' = [rows EXCEPT ![cur] = [mem EXCEPT !.state = state]]
       /\ LetGo("none", "next") /\ UNCHANGED <<mode, auto, copy>>
  ELSE EndRun("invalid") /\ UNCHANGED rows

CanAdvanceAtOnce(s) ==   \* mutant: the hops are skipped
  s \in {"ACCEPT_REQUIRED", "ACCEPTING"} \/ CanTransition(s, "ACCEPT_REQUIRED")

(* The hops advance_to_accept_required makes in memory before one save. *)
CanAdvance(s) ==
  /\ s \in {"ELIGIBLE", "RETRYABLE_FAILED"} => CanTransition(s, "PENDING_OWNER_REQUIRED")
  /\ s \in {"ELIGIBLE", "RETRYABLE_FAILED", "PENDING_OWNER_REQUIRED"}
       => CanTransition("PENDING_OWNER_REQUIRED", "PENDING_OWNER_CREATED")
  /\ s \in {"ELIGIBLE", "RETRYABLE_FAILED", "PENDING_OWNER_REQUIRED",
            "PENDING_OWNER_CREATED"}
       => CanTransition("PENDING_OWNER_CREATED", "ACCEPT_REQUIRED")
  /\ s \in {"ELIGIBLE", "RETRYABLE_FAILED", "PENDING_OWNER_REQUIRED",
            "PENDING_OWNER_CREATED", "ACCEPT_REQUIRED", "ACCEPTING"}

AdvanceWithoutPermission(next) ==   \* mutant: forgets the permission
  LET row == [mem EXCEPT !.state = "ACCEPT_REQUIRED"] IN
  /\ mem' = row /\ rows' = [rows EXCEPT ![cur] = row] /\ pc' = next
  /\ tries' = 0 /\ UNCHANGED <<mode, auto, copy, cur, polls, outcome>>

AdvanceToAcceptRequired(next) ==
  LET state == IF mem.state = "ACCEPTING" THEN mem.state ELSE "ACCEPT_REQUIRED"
      row == [mem EXCEPT !.state = state, !.perm = TRUE]
  IN
  IF CanAdvance(mem.state)
  THEN /\ mem' = row /\ rows' = [rows EXCEPT ![cur] = row] /\ pc' = next
       /\ tries' = 0 /\ UNCHANGED <<mode, auto, copy, cur, polls, outcome>>
  ELSE EndRun("invalid") /\ UNCHANGED rows

ErrorKinds == {"sharing", "quota", "auth", "notfound", "transient", "permanent"}

Classify(kind) ==
  CASE kind = "transient" -> "RETRYABLE_FAILED"
    [] kind = "permanent" -> "PERMANENT_FAILED"
    [] kind = "notfound"  -> IF pc \in {"accept", "verify"}
                             THEN "RETRYABLE_FAILED" ELSE "PERMANENT_FAILED"
    [] OTHER              -> kind

(* finalize_step: a halt saves the error with the state unchanged. *)
FinalizeStep(c) ==
  IF c \in Halts
  THEN rows' = [rows EXCEPT ![cur] = mem] /\ EndRun(c)
  ELSE SaveAndFinish(c)

(* A remote call failed: the retry loop goes around or gives up. *)
Fails(kind) ==
  IF Classify(kind) = "RETRYABLE_FAILED" /\ tries < MaxRetry
  THEN /\ tries' = tries + 1
       /\ UNCHANGED <<rows, pc, mode, auto, copy, cur, mem, polls, outcome>>
  ELSE FinalizeStep(Classify(kind))

Unmoved == UNCHANGED <<status, event, reviewed, stop, cancelled>>
Quiet   == Unmoved /\ UNCHANGED <<drive, left>>

(* The worker's bookkeeping when a run is started: persist_status, spawn. *)
Launch(s, m, a) ==
  /\ status' = s /\ event' = <<status, s>>
  /\ pc' = "launch" /\ mode' = m /\ auto' = a

--------------------------------------------------------------------------------
(* Commands of the user, each run to its end or to the worker it leaves behind. *)

Serving == pc = "idle" \/ InFlight
Idle == pc = "idle" /\ UNCHANGED <<drive, rows, reviewed, copy, cur, mem, tries, polls,
                                   outcome, left>>

StartCanaryCommand ==
  /\ Idle /\ status \in {"READY_FOR_REVIEW", "RUNNING_CANARY"}
  /\ Launch(StartCanary(status), "canary", FALSE)
  /\ cancelled' = FALSE /\ UNCHANGED stop

(* What a scan started with auto_continue does as its last act. *)
RunAutoMutationIfReady ==
  /\ pc = "scanned" /\ status = "READY_FOR_REVIEW"
  /\ Launch(StartCanary(status), "canary", TRUE)
  /\ UNCHANGED <<drive, rows, reviewed, stop, cancelled, copy, cur, mem, tries, polls,
                 outcome, left>>

ContinueMigration ==
  /\ Idle /\ status \in {"CANARY_REVIEW", "RUNNING"}
  /\ Launch(StartBulk(status), "bulk", FALSE)
  /\ cancelled' = FALSE /\ UNCHANGED stop

(* start_scan of a job that stopped before it had a canary: nothing new is *)
(* found and the job is ready for review again.                            *)
ScanAgain ==
  /\ Idle /\ status = "PAUSED" /\ ~LooksLikeTransferPause
  /\ status' = CompleteScanning(StartScanning(status))
  /\ cancelled' = FALSE /\ UNCHANGED <<event, stop, pc, mode, auto>>

CanResume == pc = "idle" /\ status \in TransferResumable /\ ~RunPhaseIsScan

Checkpoints == {i \in Items : rows[i].state \in IntermediateCheckpoint}

BeginResume ==
  /\ pc' = "resume" /\ mode' = IF ShouldResumeAsCanary THEN "canary" ELSE "bulk"
  /\ auto' = FALSE /\ copy' = RowsOf(Checkpoints)
  /\ cancelled' = FALSE

ResumeMigration ==
  /\ CanResume /\ BeginResume
  /\ UNCHANGED <<drive, durable, stop, cur, mem, tries, polls, outcome, left>>

(* retry_failed_items asks nothing of the job's status; it resumes the job *)
(* when it can.                                                            *)
RetryFailedItems ==
  /\ Serving /\ Spend("retry")
  /\ rows' = [i \in Items |-> IF rows[i].state = "RETRYABLE_FAILED"
                              THEN [rows[i] EXCEPT !.state = "PENDING_OWNER_REQUIRED"]
                              ELSE rows[i]]
  /\ IF CanResume THEN BeginResume ELSE UNCHANGED <<pc, mode, auto, copy, cancelled>>
  /\ UNCHANGED <<drive, status, event, reviewed, stop, cur, mem, tries, polls, outcome>>

PauseMigration ==
  /\ Serving
  /\ status \in {"RUNNING_CANARY", "RUNNING", "PAUSED"}
  /\ IF InFlight
     THEN /\ stop' = (IF stop = "cancel" THEN stop ELSE "pause")
          /\ UNCHANGED <<status, event>>
     ELSE /\ stop' = (IF stop = "cancel" THEN stop ELSE "none")
          /\ status' = PauseTransfer(status) /\ event' = <<status, status'>>
  /\ UNCHANGED <<drive, rows, reviewed, cancelled, pc, worker, left>>

SweepUnverified ==   \* mutant: sweeps what has failed or was skipped, too
  rows' = [i \in Items |-> IF rows[i].state # "VERIFIED"
                          THEN [rows[i] EXCEPT !.state = "CANCELLED"] ELSE rows[i]]

SweepUnstarted ==
  rows' = [i \in Items |-> IF rows[i].state \in UnstartedForCancel
                          THEN [rows[i] EXCEPT !.state = "CANCELLED"] ELSE rows[i]]

(* Without a worker the rows are swept before the job is asked whether it  *)
(* may be cancelled at all.                                                *)
CancelMigration ==
  /\ Serving
  /\ stop' = "cancel"
  /\ IF InFlight THEN cancelled' = TRUE /\ UNCHANGED <<rows, pc>>
                 ELSE pc' = "cancelling" /\ SweepUnstarted /\ UNCHANGED cancelled
  /\ UNCHANGED <<drive, status, event, reviewed, worker, left>>

CancelJobStep ==
  /\ pc = "cancelling" /\ pc' = "idle"
  /\ IF CancelJob(status) = Illegal
     THEN UNCHANGED <<status, event, cancelled>>
     ELSE /\ status' = CancelJob(status) /\ event' = <<status, status'>>
          /\ cancelled' = TRUE
  /\ UNCHANGED <<drive, rows, reviewed, stop, worker, left>>

UserStep ==
  \/ StartCanaryCommand \/ ContinueMigration \/ ScanAgain \/ ResumeMigration
  \/ RetryFailedItems \/ PauseMigration \/ CancelMigration

--------------------------------------------------------------------------------
(* reconcile_job_items: before a resume ("resume") and at startup          *)
(* ("startup") the checkpointed rows are brought up to date with Drive,    *)
(* read-only. "copy" is what is left of the list.                          *)

Reading == pc \in {"resume", "startup"}

(* The row reconcile_intermediate_readonly leaves for a file it could read. *)
Reconciled(row, f) ==
  IF f.trashed THEN [row EXCEPT !.state = "SKIPPED_TRASHED"]
  ELSE IF TargetOwns(f)
  THEN [row EXCEPT !.state = IF @ \in {"PENDING_OWNER_CREATED", "ACCEPTING"}
                             THEN "VERIFYING" ELSE @]
  ELSE IF f.perm = "none" THEN row
  ELSE [row EXCEPT !.perm = TRUE,
                   !.state = IF @ = "PENDING_OWNER_CREATED" /\ f.perm = "pending"
                             THEN "ACCEPT_REQUIRED" ELSE @]

(* All checkpoints but PENDING_OWNER_CREATED are read with the target's token. *)
VisibleToReader(row, f) == row.state = "PENDING_OWNER_CREATED" \/ f.perm # "none"

ReconcileItem(i) ==
  /\ Reading /\ IsFirst(i, DOMAIN copy)
  /\ rows' = [rows EXCEPT ![i] =
                 IF VisibleToReader(copy[i], drive[i]) THEN Reconciled(copy[i], drive[i])
                 ELSE [copy[i] EXCEPT !.state = "PERMANENT_FAILED"]]
  /\ copy' = Without(copy, i)
  /\ Quiet /\ UNCHANGED <<pc, mode, auto, cur, mem, tries, polls, outcome>>

(* A resume gives the job back as it was; startup pauses it all the same. *)
ReconcileError ==
  /\ Reading /\ DOMAIN copy # {} /\ Spend("fault")
  /\ status' = IF pc = "startup" THEN PauseTransfer(status) ELSE status
  /\ pc' = "idle" /\ copy' = NoRows
  /\ UNCHANGED <<drive, rows, event, reviewed, stop, cancelled, mode, auto, cur, mem,
                 tries, polls, outcome>>

ReconcileUnauthorized ==
  /\ Reading /\ DOMAIN copy # {} /\ Spend("fault")
  /\ status' = RequireAuth(status)
  /\ event' = IF pc = "resume" THEN <<status, status'>> ELSE event
  /\ pc' = "idle" /\ copy' = NoRows
  /\ UNCHANGED <<drive, rows, reviewed, stop, cancelled, mode, auto, cur, mem,
                 tries, polls, outcome>>

ResumeReconciled ==
  /\ pc = "resume" /\ DOMAIN copy = {}
  /\ Launch(ResumeTransfer(status, mode = "canary"), mode, FALSE)
  /\ UNCHANGED <<drive, rows, reviewed, stop, cancelled, copy, cur, mem, tries, polls,
                 outcome, left>>

StartupReconciled ==
  /\ pc = "startup" /\ DOMAIN copy = {}
  /\ status' = PauseTransfer(status) /\ pc' = "idle"
  /\ UNCHANGED <<drive, rows, event, reviewed, stop, cancelled, worker, left>>

(* The process dies with everything it held in memory. *)
Crash ==
  /\ pc # "down" /\ Spend("crash")
  /\ LetGo("none", "down") /\ copy' = NoRows /\ mode' = "canary" /\ auto' = FALSE
  /\ stop' = "none" /\ cancelled' = FALSE
  /\ UNCHANGED <<drive, durable>>

(* reconcile_on_startup, before any command is served. *)
Startup ==
  /\ pc = "down"
  /\ IF status \in UnfinishedMutation
     THEN pc' = "startup" /\ copy' = RowsOf(Checkpoints)
     ELSE pc' = "idle" /\ UNCHANGED copy
  /\ Quiet /\ UNCHANGED <<rows, mode, auto, cur, mem, tries, polls, outcome>>

StartupWithoutTokens ==
  /\ pc = "down" /\ status \in UnfinishedMutation /\ Spend("fault")
  /\ status' = RequireAuth(status) /\ pc' = "idle"
  /\ UNCHANGED <<drive, rows, event, reviewed, stop, cancelled, worker>>

ReconcileStep ==
  \/ \E i \in Items : ReconcileItem(i)
  \/ ResumeReconciled \/ StartupReconciled \/ Startup

--------------------------------------------------------------------------------
(* The batch: execute_canary, execute_bulk, transfer_items. *)

(* The spawned task begins by clearing both flags of the job. *)
ClearFlags ==
  /\ pc = "launch" /\ pc' = "start" /\ stop' = "none"
  /\ UNCHANGED <<drive, durable, cancelled, worker, left>>

FirstOf(S) == {i \in S : Cardinality({j \in S : Rank[j] < Rank[i]}) < CanarySize}

NextCanaryBatch ==   \* mutant: a finished cohort is followed by another one
  LET unfinished == {i \in Cohort : rows[i].state \notin Terminal} IN
  IF unfinished # {} THEN RowsOf(unfinished)
  ELSE [i \in FirstOf(Active) |->
          [rows[i] EXCEPT !.canary = TRUE, !.state = "PENDING_OWNER_REQUIRED"]]

(* select_canary_batch: a cohort is chosen once, then only finished. The   *)
(* second case serves rows that a release without cohorts left half way.   *)
CanaryBatch ==
  LET started == {i \in Active : rows[i].state # "ELIGIBLE"} IN
  IF Cohort # {} THEN RowsOf({i \in Cohort : rows[i].state \notin Terminal})
  ELSE IF started # {} THEN [i \in started |-> [rows[i] EXCEPT !.canary = TRUE]]
  ELSE [i \in FirstOf(Active) |->
          [rows[i] EXCEPT !.canary = TRUE, !.state = "PENDING_OWNER_REQUIRED"]]

LoadCanary ==
  /\ pc = "start" /\ mode = "canary" /\ copy' = CanaryBatch /\ pc' = "mark"
  /\ Quiet /\ UNCHANGED <<rows, mode, auto, cur, mem, tries, polls, outcome>>

LoadBulk ==
  /\ pc = "start" /\ mode = "bulk" /\ copy' = RowsOf(Active) /\ pc' = "next"
  /\ Quiet /\ UNCHANGED <<rows, mode, auto, cur, mem, tries, polls, outcome>>

Unmarked == {i \in DOMAIN copy : ~rows[i].canary}

MarkCanary(i) ==
  /\ pc = "mark" /\ IsFirst(i, Unmarked)
  /\ rows' = [rows EXCEPT ![i] = copy[i]]
  /\ Quiet /\ UNCHANGED <<pc, worker>>

CanaryMarked ==
  /\ pc = "mark" /\ Unmarked = {} /\ pc' = "next"
  /\ Quiet /\ UNCHANGED <<rows, worker>>

StopRequested ==
  /\ pc = "next" /\ stop # "none"
  /\ EndRun(stop)
  /\ Quiet /\ UNCHANGED rows

(* transfer_one, up to its first remote call. *)
Take(i, next) ==
  /\ pc = "next" /\ stop = "none" /\ IsFirst(i, DOMAIN copy)
  /\ cur' = i /\ mem' = copy[i] /\ copy' = Without(copy, i) /\ pc' = next
  /\ Quiet /\ UNCHANGED <<rows, mode, auto, tries, polls, outcome>>

TakeTransferred(i) ==
  /\ Take(i, "transferred") /\ copy[i].state \in {"TRANSFERRED", "VERIFYING"}

(* An offer whose permission id was not recorded cannot be accepted. *)
TakeOffered(i) ==
  /\ pc = "next" /\ stop = "none" /\ IsFirst(i, DOMAIN copy)
  /\ copy[i].state \in {"ACCEPT_REQUIRED", "ACCEPTING"} /\ copy' = Without(copy, i)
  /\ IF copy[i].perm
     THEN cur' = i /\ mem' = copy[i] /\ pc' = "accepting" /\ UNCHANGED rows
     ELSE /\ rows' = [rows EXCEPT ![i] = [copy[i] EXCEPT !.state = "PERMANENT_FAILED"]]
          /\ UNCHANGED <<cur, mem, pc>>
  /\ Quiet /\ UNCHANGED <<mode, auto, tries, polls, outcome>>

TakeUnstarted(i) ==
  /\ Take(i, "read")
  /\ copy[i].state \notin {"TRANSFERRED", "VERIFYING", "ACCEPT_REQUIRED", "ACCEPTING"}

Exhausted == pc = "next" /\ stop = "none" /\ DOMAIN copy = {}

BulkExhaustedOwnCount ==   \* mutant: counts the failures of the bulk phase only
  /\ Exhausted /\ mode = "bulk"
  /\ EndRun(IF Failed(Items \ Cohort) THEN "done_with_errors" ELSE "done")
  /\ Quiet /\ UNCHANGED rows

BulkExhausted ==
  /\ Exhausted /\ mode = "bulk"
  /\ EndRun(IF Failed(Items) THEN "done_with_errors" ELSE "done")
  /\ Quiet /\ UNCHANGED rows

(* execute_auto_transfer: a canary that covers all the items ends the job. *)
CanaryCoversAll == auto /\ Active \subseteq Cohort
CohortVerified  == Cohort # {} /\ \A i \in Cohort : rows[i].state = "VERIFIED"

CanaryExhausted ==
  /\ Exhausted /\ mode = "canary" /\ reviewed' = TRUE
  /\ CanaryCoversAll \/ ~(auto /\ CohortVerified)
  /\ EndRun(IF ~CanaryCoversAll THEN "canary_done"
            ELSE IF Failed(Cohort) THEN "done_with_errors" ELSE "done")
  /\ UNCHANGED <<drive, rows, status, event, stop, cancelled, left>>

(* A query fails after the canary: the run ends, in CANARY_REVIEW. *)
CanaryUnsettled ==
  /\ Exhausted /\ mode = "canary" /\ auto /\ reviewed' = TRUE
  /\ EndRun("canary_done") /\ Spend("fault")
  /\ UNCHANGED <<drive, rows, status, event, stop, cancelled>>

(* run_transfer_auto goes on with the bulk phase under the same lease. *)
CanaryContinues ==
  /\ Exhausted /\ mode = "canary" /\ reviewed' = TRUE
  /\ ~CanaryCoversAll /\ auto /\ CohortVerified
  /\ status' = "RUNNING" /\ event' = <<"CANARY_REVIEW", "RUNNING">>
  /\ mode' = "bulk" /\ pc' = "start"
  /\ UNCHANGED <<drive, rows, stop, cancelled, auto, copy, cur, mem, tries, polls,
                 outcome, left>>

--------------------------------------------------------------------------------
(* reconcile_and_prepare: what the source's view of the file decides. *)

Remote == drive[cur]
Reads == pc = "read" /\ Quiet

ReadSkips ==
  /\ Reads /\ (Remote.trashed \/ Remote.owner = "shareddrive")
  /\ SaveAndFinish(IF Remote.trashed THEN "SKIPPED_TRASHED" ELSE "SKIPPED_SHARED_DRIVE")

ReadAlreadyMoved ==
  /\ Reads /\ ~Remote.trashed /\ TargetOwns(Remote)
  /\ Save("VERIFYING", mem.perm, "verify")

ReadNotOwner ==
  /\ Reads /\ ~Remote.trashed /\ Remote.owner # "shareddrive"
  /\ ~TargetOwns(Remote) /\ ~SourceOwns(Remote)
  /\ FinalizeStep("PERMANENT_FAILED")

ReadAlreadyOffered ==
  /\ Reads /\ ~Remote.trashed /\ SourceOwns(Remote) /\ ~TargetOwns(Remote)
  /\ Remote.perm = "pending"
  /\ AdvanceToAcceptRequired("accepting")

ReadToOffer ==
  /\ Reads /\ ~Remote.trashed /\ SourceOwns(Remote) /\ ~TargetOwns(Remote)
  /\ Remote.perm # "pending"
  /\ IF Remote.perm = "writer" THEN Save("PENDING_OWNER_REQUIRED", TRUE, "update")
                              ELSE Save("PENDING_OWNER_REQUIRED", mem.perm, "create")

--------------------------------------------------------------------------------
(* The two remote mutations. What Drive answers is external; "lost" is an  *)
(* effect whose response never arrived or could not be parsed.             *)

OfferPossible  == Remote.owner = "source" /\ (pc = "update" => Remote.perm # "none")
AcceptPossible == Remote.perm \in {"pending", "owner"}

OfferEffect  == drive' = [drive EXCEPT ![cur].perm = "pending"]
AcceptEffect == drive' = [drive EXCEPT ![cur].perm = "owner", ![cur].owner = "target"]

Offers  == pc \in {"create", "update"} /\ Unmoved
Accepts == pc = "accept" /\ Unmoved

OfferSucceeds ==
  /\ Offers /\ OfferPossible /\ OfferEffect
  /\ pc' = "offered" /\ UNCHANGED <<rows, worker, left>>

OfferLost ==
  /\ Offers /\ OfferPossible /\ OfferEffect /\ Spend("fault")
  /\ \E kind \in {"transient", "permanent"} : Fails(kind)

OfferRefused ==
  /\ Offers /\ ~OfferPossible
  /\ Fails(IF Remote.owner = "source" THEN "notfound" ELSE "permanent")
  /\ UNCHANGED <<drive, left>>

AcceptSucceeds ==
  /\ Accepts /\ AcceptPossible /\ AcceptEffect
  /\ pc' = "accepted" /\ UNCHANGED <<rows, worker, left>>

AcceptLost ==
  /\ Accepts /\ AcceptPossible /\ AcceptEffect /\ Spend("fault")
  /\ \E kind \in {"transient", "permanent"} : Fails(kind)

(* A file that the target already owns may or may not be accepted again. *)
AcceptRefused ==
  /\ Accepts /\ Remote.perm # "pending"
  /\ Fails(IF Remote.perm = "none" THEN "notfound" ELSE "permanent")
  /\ UNCHANGED <<drive, left>>

SaveOffered ==
  pc = "offered" /\ AdvanceToAcceptRequired("accepting") /\ Quiet

AcceptUnsaved ==   \* mutant: ACCEPTING is not written before the acceptance
  /\ pc = "accepting" /\ mem' = [mem EXCEPT !.state = "ACCEPTING"] /\ pc' = "accept"
  /\ Quiet /\ UNCHANGED <<rows, mode, auto, copy, cur, tries, polls, outcome>>

SaveAccepting ==
  pc = "accepting" /\ Save("ACCEPTING", mem.perm, "accept") /\ Quiet

SaveTransferred ==
  pc = "accepted" /\ Save("TRANSFERRED", mem.perm, "transferred") /\ Quiet

SaveVerifying ==
  pc = "transferred" /\ Save("VERIFYING", mem.perm, "verify") /\ Quiet

--------------------------------------------------------------------------------
(* verify_ownership: what the target's view of the file confirms. *)

Verifies  == pc = "verify" /\ Quiet
NotBySource == ~Remote.trashed /\ ~SourceOwns(Remote) /\ ~Remote.moved   \* mutant

Confirmed == ~Remote.trashed /\ TargetOwns(Remote) /\ ~Remote.moved

VerifyInvisible == Verifies /\ Remote.perm = "none" /\ Fails("notfound")

VerifyTrashed ==
  /\ Verifies /\ Remote.perm # "none" /\ Remote.trashed
  /\ SaveAndFinish("SKIPPED_TRASHED")

VerifyConfirmed ==
  /\ Verifies /\ Remote.perm # "none" /\ Confirmed
  /\ SaveAndFinish("VERIFIED")

VerifyNobody ==
  /\ Verifies /\ Remote.perm # "none" /\ ~Remote.trashed
  /\ ~TargetOwns(Remote) /\ ~SourceOwns(Remote)
  /\ FinalizeStep("PERMANENT_FAILED")

VerifyForever ==   \* mutant: the attempts are not counted
  /\ Verifies /\ Remote.perm # "none" /\ ~Remote.trashed
  /\ TargetOwns(Remote) \/ SourceOwns(Remote)
  /\ tries' = 0 /\ UNCHANGED <<rows, pc, mode, auto, copy, cur, mem, polls, outcome>>

(* Not confirmed: the file was moved, or Drive still shows the owner it had *)
(* before the acceptance. Look again, up to MAX_RETRY_ATTEMPTS times.       *)
VerifyUnconfirmed ==
  /\ Verifies /\ Remote.perm # "none" /\ ~Remote.trashed
  /\ TargetOwns(Remote) \/ SourceOwns(Remote)
  /\ IF polls < MaxRetry
     THEN /\ polls' = polls + 1 /\ tries' = 0
          /\ UNCHANGED <<rows, pc, mode, auto, copy, cur, mem, outcome>>
     ELSE FinalizeStep("RETRYABLE_FAILED")

--------------------------------------------------------------------------------
(* Faults, the end of a run, and the world outside. *)

RemoteFails ==
  /\ pc \in {"read", "create", "update", "accept", "verify"} /\ Spend("fault")
  /\ \E kind \in ErrorKinds : Fails(kind)
  /\ Unmoved /\ UNCHANGED drive

(* No token at the start of a run, or SQLite refused a row or a query. *)
RunFails ==
  /\ pc \in {"start", "mark", "next"} \cup ItemPcs /\ Spend("fault") /\ EndRun("fatal")
  /\ Unmoved /\ UNCHANGED <<drive, rows>>

SweepCancelled ==
  /\ pc = "sweep" /\ pc' = "persist" /\ SweepUnstarted
  /\ Quiet /\ UNCHANGED worker

(* apply_halt and the end of the executions; a fatal error leaves the job's *)
(* in-memory status, and so its row, as they were.                          *)
FinalStatus(s, o) ==
  CASE o = "canary_done" -> CompleteCanary(s)
    [] o \in {"done", "done_with_errors"} ->
         CompleteTransfer(IF s = "RUNNING_CANARY" THEN StartBulk(CompleteCanary(s)) ELSE s,
                          o = "done_with_errors")
    [] o = "sharing" -> PauseSharingLimit(s)
    [] o = "quota"   -> WaitForQuota(s)
    [] o = "auth"    -> RequireAuth(s)
    [] o = "pause"   -> PauseTransfer(s)
    [] o = "cancel"  -> CancelJob(s)
    [] OTHER         -> s

PersistOutcome ==
  /\ pc = "persist"
  /\ status' = FinalStatus(status, outcome) /\ event' = <<status, status'>>
  /\ LetGo("none", "idle") /\ stop' = "none"
  /\ mode' = "canary" /\ auto' = FALSE
  /\ UNCHANGED <<drive, rows, reviewed, cancelled, copy, left>>

Outside(i, kind, f) ==
  /\ kind \in EnvKinds /\ f \in File /\ f # drive[i]
  /\ drive' = [drive EXCEPT ![i] = f] /\ Spend("env")
  /\ Unmoved /\ UNCHANGED <<rows, pc, worker>>

(* What the owner of a file, or the target, may do to it in Google Drive. *)
Touched(i) ==
  LET f == drive[i] IN
  \/ Outside(i, "trash", [f EXCEPT !.trashed = TRUE])
  \/ Outside(i, "move", [f EXCEPT !.moved = TRUE])
  \/ /\ f.owner = "target"
     /\ \E p \in {"none", "writer"} :
          Outside(i, "giveback", [f EXCEPT !.owner = "other", !.perm = p])
  \/ /\ f.owner = "source"
     /\ \/ f.perm = "none" /\ Outside(i, "share", [f EXCEPT !.perm = "writer"])
        \/ f.perm = "pending" /\ Outside(i, "revoke", [f EXCEPT !.perm = "writer"])
        \/ Outside(i, "revoke", [f EXCEPT !.perm = "none"])
        \/ /\ f.perm = "pending"
           /\ Outside(i, "accept", [f EXCEPT !.perm = "owner", !.owner = "target"])
        \/ Outside(i, "giveaway", [f EXCEPT !.owner = "other", !.perm = "none"])
        \/ Outside(i, "giveaway", [f EXCEPT !.owner = "other", !.perm = "writer"])
        \/ Outside(i, "shareddrive", [f EXCEPT !.owner = "shareddrive", !.perm = "none"])

World == \E i \in Items : Touched(i)

BatchStep ==
  \/ RunAutoMutationIfReady \/ ClearFlags \/ LoadCanary \/ LoadBulk \/ CanaryMarked \/ StopRequested
  \/ BulkExhausted \/ CanaryExhausted \/ CanaryContinues \/ SweepCancelled
  \/ PersistOutcome
  \/ \E i \in Items : \/ MarkCanary(i) \/ TakeTransferred(i) \/ TakeOffered(i)
                      \/ TakeUnstarted(i)

ItemStep ==
  \/ ReadSkips \/ ReadAlreadyMoved \/ ReadNotOwner \/ ReadAlreadyOffered \/ ReadToOffer
  \/ OfferSucceeds \/ OfferRefused \/ AcceptSucceeds \/ AcceptRefused
  \/ SaveOffered \/ SaveAccepting \/ SaveTransferred \/ SaveVerifying
  \/ VerifyInvisible \/ VerifyTrashed \/ VerifyConfirmed \/ VerifyNobody
  \/ VerifyUnconfirmed

FaultStep ==
  \/ RemoteFails \/ OfferLost \/ AcceptLost \/ RunFails \/ CanaryUnsettled
  \/ ReconcileError \/ ReconcileUnauthorized \/ Crash \/ StartupWithoutTokens

WorkerStep == BatchStep \/ ItemStep \/ ReconcileStep \/ CancelJobStep

Next == UserStep \/ WorkerStep \/ FaultStep \/ World

Spec     == Init /\ [][Next]_vars
FairSpec == Spec /\ WF_vars(WorkerStep)

--------------------------------------------------------------------------------
(* Every variable has its type. *)
TypeOK ==
  /\ drive \in [Items -> File] /\ rows \in [Items -> Row]
  /\ status \in Statuses /\ event \in (Statuses \cup {"NONE"}) \X (Statuses \cup {"NONE"})
  /\ reviewed \in BOOLEAN /\ cancelled \in BOOLEAN
  /\ stop \in {"none", "pause", "cancel"}
  /\ pc \in WorkerPcs \cup {"down", "idle", "scanned", "resume", "startup",
                           "cancelling"}
  /\ mode \in {"canary", "bulk"} /\ auto \in BOOLEAN
  /\ DOMAIN copy \subseteq Items /\ copy \in [DOMAIN copy -> Row]
  /\ cur \in Items \cup {NoItem} /\ mem \in Row /\ (pc \in ItemPcs => cur \in Items)
  /\ tries \in 0..MaxRetry /\ polls \in 0..MaxRetry
  /\ outcome \in Outcomes
  /\ left \in [{"fault", "env", "crash", "retry"} -> Nat]

(* A row that says VERIFIED belongs to a file the target owns, whatever     *)
(* crashed, was retried or was changed outside before and after the row was *)
(* written, as long as the target keeps what it got: only the ownership     *)
(* that Drive reports counts, never a permission or an answered request.    *)
VerifiedIsOwned ==
  "giveback" \notin EnvKinds =>
    \A i \in Items : rows[i].state = "VERIFIED" => drive[i].owner = "target"

(* The states that say an acceptance was under way; the reconciliation      *)
(* loads all of them but VERIFIED.                                          *)
Recorded == {"ACCEPTING", "TRANSFERRED", "VERIFYING", "VERIFIED"}

(* The worker gives the file in hand up: the acceptance or the verification *)
(* failed for good, or the file was not confirmed or is in the trash.       *)
GivenUp(i) ==
  /\ i = cur /\ pc \in {"accept", "verify"}
  /\ rows'[i].state \in {"RETRYABLE_FAILED", "PERMANENT_FAILED", "SKIPPED_TRASHED"}

(* A reconciliation of the checkpoints found the file in the trash. *)
FoundTrashed(i) == Reading /\ drive[i].trashed /\ rows'[i].state = "SKIPPED_TRASHED"

RecordKept ==
  \A i \in Items :
    /\ drive'[i].owner = "target"
    /\ drive[i].owner = "target" => rows[i].state \in Recorded
    => rows'[i].state \in Recorded \/ GivenUp(i) \/ FoundTrashed(i)

(* Write-ahead: at the step that makes the target the owner of a file, its  *)
(* row already says that an acceptance was under way, so a reconciliation   *)
(* after a crash looks at it; and the row goes on saying so, in every later *)
(* step with every crash, resume, stale copy and sweep, for as long as the  *)
(* file is the target's and nobody has given it up. The exceptions: a row   *)
(* that was given up is retried or swept like any other, and may be         *)
(* CANCELLED or failed while the target owns the file, where the            *)
(* reconciliation does not look at it; and a target that accepts by hand    *)
(* gets ahead of its row.                                                   *)
OwnedIsRecorded == [][ "accept" \notin EnvKinds => RecordKept ]_vars

(* A row that waits for the acceptance names the permission to accept, in   *)
(* every order of crash, resume and retry: missing_target_permission is an  *)
(* error that never happens. PENDING_OWNER_CREATED is never saved, so no    *)
(* restart finds it.                                                        *)
AcceptKnowsPermission ==
  \A i \in Items :
    /\ rows[i].state \in {"ACCEPT_REQUIRED", "ACCEPTING", "TRANSFERRED"} => rows[i].perm
    /\ rows[i].state # "PENDING_OWNER_CREATED"

(* The engine never asks for a transition item.rs refuses: that error would *)
(* end the run and leave the job RUNNING with nobody running it.            *)
EngineStaysLegal == outcome # "invalid"

(* No file outside the canary cohort is touched before the canary was run   *)
(* to its end, whatever JobService infers about the phase on a resume.      *)
CanaryGate ==
  \A i \in Items :
    ~rows[i].canary /\ rows[i].state \notin {"ELIGIBLE", "CANCELLED"} => reviewed

(* The canary is chosen once: a crash while the cohort is being marked, or  *)
(* a later resume, never makes it larger than the job asked for, and after  *)
(* the canary was run it is what it is (005_canary_selected.sql).           *)
CohortBounded == Cardinality(Cohort) <= CanarySize
ChosenOnce == [][CohortBounded' /\ (reviewed => Cohort' = Cohort)]_vars

(* A settled row is never written again: not by a worker with an older copy *)
(* of it, a reconciliation, a retry request or a cancellation.              *)
TerminalIsFinal ==
  [][\A i \in Items : rows[i].state \in Terminal => rows'[i] = rows[i]]_vars

(* A job that says COMPLETED has nothing failed, unfinished or cancelled;   *)
(* one that says COMPLETED_WITH_ERRORS has nothing unfinished. A crash      *)
(* between the two transactions of a cancellation can leave cancelled rows  *)
(* in a job that goes on and completes; and retry_failed_items, which asks  *)
(* nothing of the job's status, makes failed rows pending behind the back   *)
(* of a run, or in a job that is over (where a cancel sweeps them).         *)
CompletedMeansDone ==
  /\ status = "COMPLETED" =>
       \A i \in Items : \/ rows[i].state \in Skipped \cup {"VERIFIED"}
                        \/ Budget["crash"] > 0 /\ rows[i].state = "CANCELLED"
                        \/ /\ Budget["retry"] > 0
                           /\ rows[i].state \in {"PENDING_OWNER_REQUIRED", "CANCELLED"}
  /\ status = "COMPLETED_WITH_ERRORS" =>
       \A i \in Items : \/ rows[i].state \in Terminal \cup {"RETRYABLE_FAILED"}
                        \/ Budget["retry"] > 0 /\ rows[i].state = "PENDING_OWNER_REQUIRED"

(* A run ends by itself: no retry loop, verification loop or list of items  *)
(* keeps a worker, and with it the job's lease, for ever.                   *)
RunEnds == InFlight ~> ~InFlight

(* What the engine promises about ownership (module OwnershipHandover). *)
Handover == INSTANCE OwnershipHandover WITH
  owner   <- [i \in Items |-> IF drive[i].owner \in {"source", "target"}
                             THEN drive[i].owner ELSE "elsewhere"],
  offered <- [i \in Items |-> drive[i].perm = "pending"],
  claim   <- [i \in Items |-> IF rows[i].state = "VERIFIED" THEN "verified"
                             ELSE IF rows[i].state \in Terminal THEN "closed" ELSE "open"]

(* The engine implements the hand-over: every step is one of its steps.     *)
ImplementsHandover == Handover!Spec

--------------------------------------------------------------------------------
(* What the documentation says and the code does not do. *)

(* The UI answers an accepted cancel with "Migration cancelled.": a run     *)
(* that has a file in hand after that would know that it stops with it.     *)
AnsweredCancelCancels == cancelled /\ pc \in ItemPcs => stop = "cancel"
================================================================================
