-------------------------------- MODULE JobRows --------------------------------
(***************************************************************************)
(* The rows of the jobs (infrastructure/job_store.rs, job_queue.rs) and    *)
(* the commands that read them, wait, and write them: drafts and their     *)
(* roots, scans that are started, and the queue (queue_service.rs).        *)
(*                                                                         *)
(* A command works on a copy of the row it loaded. What protects the row   *)
(* from an older copy is in the SQL: roots, account pairs and deletions    *)
(* are written only to a DRAFT, and a queue change compares the table with *)
(* the snapshot it was computed from. Every other write is unconditional.  *)
(*                                                                         *)
(* The pool has one connection, so a statement or transaction is one step. *)
(* Merged into one step are: a job loaded with its roots; what a start of  *)
(* a scan or of a transfer reads to decide the phase of its job; and a     *)
(* test of what runs with the write that follows it, in a cancellation or  *)
(* a pause. What a scan or a transfer does, and the order of its locks, is *)
(* Scanner's, ItemTransfer's and JobControl's: here it is a cohort and a   *)
(* status written at some time. Position 0 stands for NULL. "requests"     *)
(* bounds the commands of a session.                                       *)
(***************************************************************************)
EXTENDS Integers, FiniteSets, JobStatus

CONSTANTS
  Jobs, NoJob,
  Clients,    \* commands served at the same time
  Accounts,   \* source accounts; the target is the other one
  Folders,    \* Drive folders a user may name as roots
  Owner,      \* Owner[f]: the account that owns folder f
  FirstRoot,  \* the root that the jobs found at the start were created with
  Id,         \* the order of the ids of the jobs
  None,       \* no folder, account or event
  Sessions    \* each what is known of every job, and a number of requests

Gone == {"ABSENT", "DELETED"}     \* not created yet, and deleted

Halted    == {"SOURCE_RATE_LIMITED", "WAITING_FOR_QUOTA", "AUTH_REQUIRED"}
Queueable == {"READY_FOR_REVIEW", "CANARY_REVIEW", "PAUSED"} \cup Halted

\* What an earlier session leaves of a job. It joined the queue from a status
\* it may be queued in, and only a transfer that had begun was halted.
KnownJob(k) ==
  /\ k.status \in Statuses \cup Gone /\ k.from \in Statuses \cup {"none"}
  /\ k.position \in 0..Cardinality(Jobs) /\ (k.status = "QUEUED" <=> k.position > 0)
  /\ k.event # None => {k.event.prev, k.event.new} \subseteq Statuses
  /\ k.begun \in BOOLEAN /\ k.frontier \in BOOLEAN
  /\ k.status = "QUEUED" => k.from \in Queueable
  /\ k.status \in Halted \/ (k.status = "QUEUED" /\ k.from \in Halted)
     => k.begun /\ (k.event # None => k.event.new # "CANARY_REVIEW")

ASSUME RowsAssumption ==
  /\ IsFiniteSet(Jobs) /\ NoJob \notin Jobs
  /\ Id \in [Jobs -> Nat] /\ \A j, k \in Jobs : j # k => Id[j] # Id[k]
  /\ Owner \in [Folders -> Accounts] /\ FirstRoot \in Folders
  /\ \A s \in Sessions : s.requests \in Nat /\ \A j \in Jobs : KnownJob(s.jobs[j])
  /\ \A s \in Sessions : \A j, k \in Jobs :
       j # k /\ s.jobs[j].position = s.jobs[k].position => s.jobs[j].position = 0

VARIABLES
  row,       \* migration_jobs, with migration_roots
  event,     \* the latest JOB_STATUS event of each job
  from,      \* queued_from_status: what a job left to enter the queue
  begun,     \* the job has a canary cohort; a bulk transfer starts only after it
  frontier,  \* the job has scan checkpoints
  lease,     \* worker_leases: the job whose transfer runs
  run,       \* the copy its worker has, once the worker runs
  scanning,  \* scan_in_flight: "no", "asked", "runs", or "ends" with a copy
  scanned,   \* the copy a scan that ends has loaded
  entries,   \* history: how often a job entered the queue
  relapsed,  \* history: the jobs a scan put back into the queue or a halt
  proc,      \* the commands under way
  left       \* requests that are left

works == <<lease, run, scanning, scanned>>
trail == <<event, from, begun, frontier, entries, relapsed>>
vars  == <<row, trail, works, proc, left>>

--------------------------------------------------------------------------------
Running == {"RUNNING_CANARY", "RUNNING"}
Exists(j) == row[j].status \notin Gone

NoRow  == [status |-> "ABSENT", position |-> 0, source |-> None, roots |-> {}]
NoSnap == [j \in Jobs |-> [status |-> "ABSENT", position |-> 0]]
NoTrace == [latest |-> "none", cohort |-> FALSE, frontier |-> FALSE]
Begun(at, cmd, job, copy, arg, place) ==
  [at |-> at, cmd |-> cmd, job |-> job, copy |-> copy, arg |-> arg, place |-> place,
   snap |-> NoSnap, since |-> 0, seen |-> NoTrace, restored |-> "none"]
Free   == Begun("free", "none", NoJob, NoRow, None, 0)

IsFree(p)  == proc[p].at = "free"
At(p, a)   == proc[p].at = a
Job(p)     == proc[p].job
Copy(p)    == proc[p].copy
Goto(p, a) == proc' = [proc EXCEPT ![p].at = a]
End(p)     == proc' = [proc EXCEPT ![p] = Free]

NewRow(status, account, roots) ==
  [status |-> status, position |-> 0, source |-> account, roots |-> roots]

Became(prev, new) == [prev |-> prev, new |-> new]
LatestBecame(j)   == IF event[j] = None THEN "none" ELSE event[j].new
LatestWas(j)      == IF event[j] = None THEN "none" ELSE event[j].prev

Now(j)   == [status |-> row[j].status, position |-> row[j].position]
ListJobs == [j \in Jobs |-> Now(j)]

(* update_job writes every column of the row from the copy, if there still  *)
(* is one; the roots are rows of their own. persist_job_with_event adds the *)
(* event.                                                                   *)
Save(j, r) ==
  row' = IF Exists(j) THEN [row EXCEPT ![j] = [r EXCEPT !.roots = row[j].roots]] ELSE row

PersistStatus(j, r, prev, s) ==
  /\ Save(j, [r EXCEPT !.status = s, !.position = 0])
  /\ event' = IF Exists(j) THEN [event EXCEPT ![j] = Became(prev, s)] ELSE event

LooksLikeTransferPause(j) ==
  begun[j] \/ LatestWas(j) \in UnfinishedMutation

(* What a session finds: the jobs of earlier ones, all with one root. *)
Init ==
  /\ \E s \in Sessions :
       LET known(j) == s.jobs[j] IN
       /\ row = [j \in Jobs |->
            IF known(j).status \in Gone THEN NoRow
            ELSE [NewRow(known(j).status, Owner[FirstRoot], {FirstRoot})
                    EXCEPT !.position = known(j).position]]
       /\ event = [j \in Jobs |-> known(j).event]
       /\ from = [j \in Jobs |-> known(j).from]
       /\ begun = [j \in Jobs |-> known(j).begun]
       /\ frontier = [j \in Jobs |-> known(j).frontier]
       /\ left = s.requests
  /\ lease = NoJob /\ run = NoRow
  /\ scanning = [j \in Jobs |-> "no"] /\ scanned = [j \in Jobs |-> NoRow]
  /\ entries = [j \in Jobs |-> 0] /\ relapsed = {}
  /\ proc = [p \in Clients |-> Free]

(* get_job: the command goes on at "at" with its copy. *)
Load(p, cmd, at, j, arg) ==
  /\ left > 0 /\ IsFree(p) /\ left' = left - 1
  /\ proc' = [proc EXCEPT ![p] = Begun(at, cmd, j, row[j], arg, 0)]

Reading == UNCHANGED <<row, trail, works>>

--------------------------------------------------------------------------------
(* Jobs and accounts: create_job, update_draft_job_accounts, delete_draft.  *)

CreateJob(p, a) ==
  /\ left > 0 /\ IsFree(p) /\ left' = left - 1
  /\ proc' = [proc EXCEPT ![p] = Begun("create", "create", NoJob, NoRow, a, 0)]
  /\ Reading

(* The id of a new job was never used before. *)
InsertJob(p) ==
  /\ At(p, "create") /\ End(p)
  /\ \E j \in Jobs :
       /\ row[j].status = "ABSENT"
       /\ row' = [row EXCEPT ![j] = NewRow("DRAFT", proc[p].arg, {})]
  /\ UNCHANGED <<trail, works, left>>

UpdateDraftJobAccounts(p, j, a) ==
  Exists(j) /\ Load(p, "accounts", "accounts", j, a) /\ Reading

(* change_accounts: the roots stay when only the target changes. *)
ChangeAccounts(r, a) ==
  [r EXCEPT !.source = a, !.roots = IF r.source = a THEN r.roots ELSE {}]

(* The row must still be a DRAFT; its roots are replaced by the copy's. *)
SaveDraft(p) ==
  LET j == Job(p) IN
  /\ At(p, "accounts") /\ End(p)
  /\ row' = IF Copy(p).status = "DRAFT" /\ row[j].status = "DRAFT"
            THEN [row EXCEPT ![j] = ChangeAccounts(Copy(p), proc[p].arg)] ELSE row
  /\ UNCHANGED <<trail, works, left>>

DeleteDraftJob(p, j) ==
  row[j].status = "DRAFT" /\ Load(p, "delete", "delete", j, None) /\ Reading

DeleteDraft(p) ==
  LET j == Job(p) IN
  /\ At(p, "delete") /\ End(p)
  /\ row' = IF row[j].status = "DRAFT"
            THEN [row EXCEPT ![j] = [NoRow EXCEPT !.status = "DELETED"]] ELSE row
  /\ UNCHANGED <<trail, works, left>>

--------------------------------------------------------------------------------
(* Roots: validate_root and add_root, remove_root. *)

AddRoot(p, j, f) ==
  row[j].status = "DRAFT" /\ Load(p, "addroot", "metadata", j, f) /\ Reading

(* validate_root asks Drive for the folder, and whether the source account  *)
(* of its copy owns it; add_root then loads the job once more.              *)
ValidateRoot(p) ==
  /\ At(p, "metadata")
  /\ IF Owner[proc[p].arg] = Copy(p).source /\ Exists(Job(p))
     THEN proc' = [proc EXCEPT ![p].at = "insertroot", ![p].copy = row[Job(p)]]
     ELSE End(p)
  /\ UNCHANGED <<row, trail, works, left>>

MayAddRoot(r, f)    == r.status = "DRAFT" /\ f \notin r.roots
MayRemoveRoot(r, f) == r.status = "DRAFT" /\ f \in r.roots

InsertRootUnlocked(p) ==   \* mutant: the status is asked only of the copy
  LET j == Job(p) f == proc[p].arg IN
  /\ At(p, "insertroot") /\ End(p)
  /\ row' = IF MayAddRoot(Copy(p), f) /\ Exists(j)
            THEN [row EXCEPT ![j].roots = @ \cup {f}] ELSE row
  /\ UNCHANGED <<trail, works, left>>

InsertRoot(p) ==
  LET j == Job(p) f == proc[p].arg IN
  /\ At(p, "insertroot") /\ End(p)
  /\ row' = IF MayAddRoot(Copy(p), f) /\ row[j].status = "DRAFT"
            THEN [row EXCEPT ![j].roots = @ \cup {f}] ELSE row
  /\ UNCHANGED <<trail, works, left>>

RemoveRoot(p, j, f) ==
  /\ MayRemoveRoot(row[j], f)
  /\ Load(p, "removeroot", "deleteroot", j, f) /\ Reading

(* A root that was added again meanwhile has another id. *)
DeleteRoot(p) ==
  LET j == Job(p) IN
  /\ At(p, "deleteroot") /\ End(p)
  /\ row' \in {row, IF row[j].status = "DRAFT"
                    THEN [row EXCEPT ![j].roots = @ \ {proc[p].arg}] ELSE row}
  /\ UNCHANGED <<trail, works, left>>

--------------------------------------------------------------------------------
(* Scans: start_transfer_operation, start_scan, and the end of a scan. *)

StartTransferOperation(p, a) ==
  /\ left > 0 /\ IsFree(p) /\ left' = left - 1
  /\ proc' = [proc EXCEPT ![p] = Begun("seed", "transfer", NoJob, NoRow, a, 0)]
  /\ Reading

(* The job, its roots and the first items and checkpoints are one           *)
(* transaction, after which the scan is started as start_scan does.         *)
CreateSeededScan(p) ==
  /\ At(p, "seed")
  /\ \E j \in Jobs, roots \in SUBSET {f \in Folders : Owner[f] = proc[p].arg} :
       /\ row[j].status = "ABSENT" /\ roots # {}
       /\ row' = [row EXCEPT ![j] = NewRow("SCANNING", proc[p].arg, roots)]
       /\ frontier' = [frontier EXCEPT ![j] = TRUE]
       /\ proc' = [proc EXCEPT ![p].at = "scanload", ![p].job = j]
  /\ UNCHANGED <<event, from, begun, entries, relapsed, works, left>>

StartScan(p, j) ==
  Exists(j) /\ Load(p, "scan", "scanload", j, None) /\ Reading

(* get_job, looks_like_transfer_pause and try_acquire_scan. *)
AcquireScan(p) ==
  LET j == Job(p) IN
  /\ At(p, "scanload")
  /\ IF \/ ~Exists(j) \/ scanning[j] # "no"
        \/ row[j].status = "PAUSED" /\ LooksLikeTransferPause(j)
     THEN End(p) /\ UNCHANGED scanning
     ELSE /\ scanning' = [scanning EXCEPT ![j] = "asked"]
          /\ proc' = [proc EXCEPT ![p].at = "token", ![p].copy = row[j]]
  /\ UNCHANGED <<row, trail, lease, run, scanned, left>>

(* Without a token the scan is given back, and persist_paused loads the job *)
(* again when its copy was SCANNING.                                        *)
TokenFails(p) ==
  LET j == Job(p) IN
  /\ At(p, "token") /\ scanning' = [scanning EXCEPT ![j] = "no"]
  /\ IF Copy(p).status = "SCANNING" THEN Goto(p, "reload") ELSE End(p)
  /\ UNCHANGED <<row, trail, lease, run, scanned, left>>

LoadParked(p) ==
  /\ At(p, "reload")
  /\ proc' = [proc EXCEPT ![p].at = "park", ![p].copy = row[Job(p)]]
  /\ UNCHANGED <<row, trail, works, left>>

(* Without a scan in flight the status is written by the command.           *)
PauseScan(p, j) ==
  /\ row[j].status \in {"SCANNING", "PAUSED"}
  /\ Load(p, "pause", "settle", j, None) /\ Reading

SettlePause(p) ==
  /\ At(p, "settle") /\ IF scanning[Job(p)] # "no" THEN End(p) ELSE Goto(p, "park")
  /\ UNCHANGED <<row, trail, works, left>>

(* A scan writes all of its copy, and with it also a status it cannot       *)
(* change: one that the job had when the copy was loaded.                   *)
Unfit == Halted \cup {"QUEUED"}
SaveScanned(j, r, s) ==
  /\ Save(j, [r EXCEPT !.status = IF s = Illegal THEN @ ELSE s])
  /\ relapsed' = IF r.status \in Unfit THEN relapsed \cup {j} ELSE relapsed

ParkScan(p) ==
  /\ At(p, "park") /\ End(p)
  /\ SaveScanned(Job(p), Copy(p), PauseScanning(Copy(p).status))
  /\ UNCHANGED <<event, from, begun, frontier, entries, works, left>>

CanScan(r) == StartScanning(r.status) # Illegal /\ (r.status = "DRAFT" => r.roots # {})

(* start_scanning decides on the copy, and update_job writes all of it. *)
BeginScan(p) ==
  LET j == Job(p) IN
  /\ At(p, "token") /\ End(p)
  /\ IF CanScan(Copy(p)) /\ Exists(j)
     THEN /\ Save(j, [Copy(p) EXCEPT !.status = "SCANNING"])
          /\ scanning' = [scanning EXCEPT ![j] = "runs"]
     ELSE scanning' = [scanning EXCEPT ![j] = "no"] /\ UNCHANGED row
  /\ UNCHANGED <<trail, lease, run, scanned, left>>

(* execute_scan: the walk is over and leaves checkpoints or none; the job   *)
(* is loaded, and after the lookup of the target's quota its copy is        *)
(* written, whatever the row has become.                                    *)
ScanDone(j) ==
  /\ scanning[j] = "runs"
  /\ scanned' = [scanned EXCEPT ![j] = row[j]]
  /\ scanning' = [scanning EXCEPT ![j] = IF Exists(j) THEN "ends" ELSE "no"]
  /\ \E rest \in BOOLEAN : frontier' = [frontier EXCEPT ![j] = rest]
  /\ UNCHANGED <<row, event, from, begun, entries, relapsed, lease, run, proc, left>>

ScanEnds(j) ==
  LET r == scanned[j] IN
  /\ scanning[j] = "ends" /\ scanning' = [scanning EXCEPT ![j] = "no"]
  /\ scanned' = [scanned EXCEPT ![j] = NoRow]
  /\ \/ ~frontier[j] /\ SaveScanned(j, r, CompleteScanning(r.status))
     \/ SaveScanned(j, r, PauseScanning(r.status))
     \/ SaveScanned(j, r, FailScanning(r.status))
  /\ UNCHANGED <<event, from, begun, frontier, entries, lease, run, proc, left>>

--------------------------------------------------------------------------------
(* Transfers: start_canary, continue_migration and resume_migration load    *)
(* the job, take the lease and write a running status; cancel_migration.    *)

(* The phase of a job is the scan: it was paused before its transfer began. *)
InScanPhase(j, s) ==
  /\ s = "PAUSED" \/ (s = "QUEUED" /\ from[j] = "PAUSED")
  /\ ~LooksLikeTransferPause(j)

(* What the three commands make of a status. Whether a canary or the bulk   *)
(* is resumed is a matter of ItemTransfer.                                  *)
ByStart(s)     == IF s \in {"READY_FOR_REVIEW", "RUNNING_CANARY", "QUEUED"}
                    THEN {"RUNNING_CANARY"} ELSE {}
ByContinue(s)  == IF s \in {"CANARY_REVIEW", "RUNNING", "QUEUED"} THEN {"RUNNING"} ELSE {}
ByResume(j, s) == IF s \in TransferResumable /\ ~InScanPhase(j, s) THEN Running ELSE {}
Started(j, s)  == ByStart(s) \cup ByContinue(s) \cup ByResume(j, s)

StartTransfer(p, j) ==
  Started(j, row[j].status) # {} /\ Load(p, "start", "lease", j, None) /\ Reading

(* try_acquire_transfer; queue_or_busy when another job holds the lease. *)
AcquireLease(p) ==
  LET j == Job(p) IN
  /\ At(p, "lease")
  /\ IF lease = NoJob THEN lease' = j /\ Goto(p, "write")
     ELSE /\ UNCHANGED lease
          /\ IF lease = j \/ row[j].status \in Running THEN End(p) ELSE Goto(p, "snapshot")
  /\ UNCHANGED <<row, trail, run, scanning, scanned, left>>

WriteStarted(p) ==
  LET j == Job(p) IN
  /\ At(p, "write") /\ End(p)
  /\ \E s \in Started(j, Copy(p).status) :
       /\ PersistStatus(j, Copy(p), Copy(p).status, s)
       /\ run' = [Copy(p) EXCEPT !.status = s, !.position = 0]
  /\ UNCHANGED <<from, begun, frontier, entries, relapsed, lease, scanning, scanned, left>>

(* A resumed transfer that finds a checkpoint it has no access to.          *)
ResumeHalts(p) ==
  LET j == Job(p) IN
  /\ At(p, "write") /\ End(p)
  /\ Copy(p).status \in TransferResumable /\ begun[j]
  /\ PersistStatus(j, Copy(p), Copy(p).status, "AUTH_REQUIRED")
  /\ UNCHANGED <<from, begun, frontier, entries, relapsed, works, left>>

(* A run selects a cohort before it touches an item. *)
SelectCohort(j) ==
  /\ lease = j /\ run.status \in Running /\ ~begun[j]
  /\ begun' = [begun EXCEPT ![j] = TRUE]
  /\ UNCHANGED <<row, event, from, frontier, entries, relapsed, works, proc, left>>

(* The end of a run is written from its own copy, before its lease is given *)
(* back. It is halted by an item only.                                      *)
WriteOutcome(j) ==
  /\ lease = j /\ run.status \in Running
  /\ \E o \in {"PAUSED", "CANCELLED", "COMPLETED"} \cup Halted \cup
              (IF run.status = "RUNNING_CANARY" THEN {"CANARY_REVIEW"} ELSE {}) :
       (o \in Halted => begun[j]) /\ PersistStatus(j, run, run.status, o)
  /\ run' = NoRow
  /\ UNCHANGED <<from, begun, frontier, entries, relapsed, lease, scanning, scanned, proc, left>>

(* Also after a start whose status could not be written. *)
ReleaseLease(j) ==
  /\ lease = j /\ run = NoRow /\ lease' = NoJob
  /\ proc' = [p \in Clients |-> IF At(p, "write") /\ Job(p) = j THEN Free ELSE proc[p]]
  /\ UNCHANGED <<row, trail, run, scanning, scanned, left>>

CancelMigration(p, j) ==
  Exists(j) /\ Load(p, "cancel", "stop", j, None) /\ Reading

PauseMigration(p, j) ==
  /\ row[j].status \in (UnfinishedMutation \ {"CANCELLING"}) \cup {"PAUSED"}
  /\ Load(p, "halt", "stop", j, None) /\ Reading

(* Without a run in flight the status is written here. *)
SettleStop(p) ==
  LET j == Job(p)
      s == IF proc[p].cmd = "cancel" THEN CancelJob(Copy(p).status)
                                     ELSE PauseTransfer(Copy(p).status)
  IN
  /\ At(p, "stop") /\ End(p)
  /\ IF lease = j \/ s = Illegal THEN UNCHANGED <<row, event>>
     ELSE PersistStatus(j, Copy(p), Copy(p).status, s)
  /\ UNCHANGED <<from, begun, frontier, entries, relapsed, works, left>>

--------------------------------------------------------------------------------
(* The queue: change_queue, remove_queued_job and persist_queue_changes.    *)

(* place 0 is the end of the queue. *)
QueueJob(p, j, place, cmd) ==
  /\ Exists(j) /\ left > 0 /\ IsFree(p) /\ left' = left - 1
  /\ cmd = "reorder" => place # 0
  /\ proc' = [proc EXCEPT ![p] = Begun("snapshot", cmd, j, NoRow, None, place)]
  /\ Reading

RemoveQueuedJob(p, j) ==
  QueueJob(p, j, 0, "remove")

InQueue(snap) == {j \in Jobs : snap[j].status = "QUEUED"}

(* The rank of a queued job among the others: the sort of the snapshot, in  *)
(* which the ids decide between equal positions.                            *)
Sorted(snap, i, k) ==
  \/ snap[i].position < snap[k].position
  \/ snap[i].position = snap[k].position /\ Id[i] <= Id[k]
Rank(snap, others, k) == Cardinality({i \in others : Sorted(snap, i, k)})

Others(p)   == InQueue(proc[p].snap) \ {Job(p)}
Insert(p)   == IF proc[p].place = 0 THEN Cardinality(Others(p)) + 1 ELSE proc[p].place

TakeAnything(p, snap) ==   \* mutant: the status of the job is not looked at
  proc[p].place <= Cardinality(InQueue(snap) \ {Job(p)}) + 1
MayChange(p, snap) ==
  LET s == snap[Job(p)].status IN
  /\ proc[p].place <= Cardinality(InQueue(snap) \ {Job(p)}) + 1
  /\ Enqueue(s) # Illegal
  /\ proc[p].cmd \in {"reorder", "remove"} => s = "QUEUED"

(* list_jobs, and the checks made on its answer. *)
Snapshot(p) ==
  /\ At(p, "snapshot")
  /\ IF MayChange(p, ListJobs)
     THEN proc' = [proc EXCEPT ![p].snap = ListJobs, ![p].since = entries[Job(p)],
                     ![p].at = IF proc[p].cmd = "remove" THEN "event" ELSE "commit"]
     ELSE End(p)
  /\ UNCHANGED <<row, trail, works, left>>

(* The status a job has after its removal is inferred from its latest event,*)
(* its cohort, its checkpoints and the status it was queued in, each read   *)
(* in a statement of its own.                                               *)
See(p, next, seen) ==
  /\ proc' = [proc EXCEPT ![p].at = next, ![p].seen = seen]
  /\ UNCHANGED <<row, trail, works, left>>

ReadEvent(p) ==
  At(p, "event") /\ See(p, "cohort", [proc[p].seen EXCEPT !.latest = LatestBecame(Job(p))])
ReadCohort(p) ==
  At(p, "cohort") /\ See(p, "checkpoints", [proc[p].seen EXCEPT !.cohort = begun[Job(p)]])
ReadCheckpoints(p) ==
  At(p, "checkpoints") /\ See(p, "origin", [proc[p].seen EXCEPT !.frontier = frontier[Job(p)]])

(* "none" where the phase of the transfer has to tell. *)
Restored(seen, origin) ==
  IF origin \in {"READY_FOR_REVIEW", "PAUSED"} THEN origin
  ELSE IF "CANARY_REVIEW" \in {origin, seen.latest} THEN "CANARY_REVIEW"
  ELSE IF seen.frontier \/ seen.latest = "PAUSED" \/ seen.cohort THEN "PAUSED"
  ELSE "none"

Restore(p, next, status) ==
  /\ proc' = [proc EXCEPT ![p].at = next, ![p].restored = status]
  /\ UNCHANGED <<row, trail, works, left>>

ReadOrigin(p) ==
  LET s == Restored(proc[p].seen, from[Job(p)]) IN
  At(p, "origin") /\ Restore(p, IF s = "none" THEN "phase" ELSE "commit", s)

(* looks_like_transfer_pause: the event once more, and then the items: the  *)
(* cohort and, as a bulk transfer has one, what the bulk has under way.     *)
ReadPhase(p) ==
  /\ At(p, "phase")
  /\ IF LatestWas(Job(p)) \in UnfinishedMutation THEN Restore(p, "commit", "PAUSED")
                                                 ELSE Restore(p, "items", "none")
ReadItems(p) ==
  /\ At(p, "items")
  /\ Restore(p, "commit", IF begun[Job(p)] THEN "PAUSED" ELSE "READY_FOR_REVIEW")

(* The rows of the queue, renumbered from 1, and the job that joins it. *)
Renumbered(p) ==
  LET rank(k) == Rank(proc[p].snap, Others(p), k) IN
  [k \in Others(p) \cup {Job(p)} |->
     IF k = Job(p)
     THEN IF proc[p].cmd = "remove" THEN [status |-> proc[p].restored, position |-> 0]
                                    ELSE [status |-> "QUEUED", position |-> Insert(p)]
     ELSE [status |-> "QUEUED",
           position |-> IF proc[p].cmd = "remove" \/ rank(k) < Insert(p)
                        THEN rank(k) ELSE rank(k) + 1]]

(* The comparisons of the transaction: the queue is the snapshot's, and     *)
(* each row to change is as it was, with no transfer of it under way.       *)
NotCompared(p) == TRUE   \* mutant: only the rows that change are compared
SameQueue(p) ==
  LET snap == proc[p].snap IN
  \A j \in Jobs : (snap[j].status = "QUEUED" \/ row[j].status = "QUEUED") => Now(j) = snap[j]
QueueOnly(p) == TRUE     \* mutant: only the queue is compared
SameRows(p) ==
  \A j \in DOMAIN Renumbered(p) : Now(j) = proc[p].snap[j] /\ lease # j

(* QUEUE_UPDATED events keep the status a job had before it was queued. *)
FromEvery(p, j) == row[j].status   \* mutant: a reordering counts as an entry
From(p, j) == IF row[j].status = "QUEUED" THEN from[j] ELSE row[j].status

PersistQueueChanges(p) ==
  LET new == Renumbered(p) IN
  /\ At(p, "commit") /\ End(p)
  /\ IF SameQueue(p) /\ SameRows(p)
     THEN /\ row' = [j \in Jobs |->
               IF j \in DOMAIN new
               THEN [row[j] EXCEPT !.status = new[j].status, !.position = new[j].position]
               ELSE row[j]]
          /\ from' = [j \in Jobs |-> IF j \in DOMAIN new THEN From(p, j) ELSE from[j]]
          /\ entries' = [j \in Jobs |->
               entries[j] + IF row'[j].status = "QUEUED" /\ row[j].status # "QUEUED"
                            THEN 1 ELSE 0]
     ELSE UNCHANGED <<row, from, entries>>
  /\ UNCHANGED <<event, begun, frontier, relapsed, works, left>>

--------------------------------------------------------------------------------
Inspecting == {"event", "cohort", "checkpoints", "origin", "phase", "items"}

(* An account is not connected, Drive refuses, or the database fails. *)
Refused(p) ==
  /\ \E a \in {"create", "accounts", "metadata", "seed"} \cup Inspecting : At(p, a)
  /\ End(p) /\ UNCHANGED <<row, trail, works, left>>

Request(p) ==
  \/ \E a \in Accounts : CreateJob(p, a) \/ StartTransferOperation(p, a)
  \/ \E j \in Jobs :
       \/ \E a \in Accounts : UpdateDraftJobAccounts(p, j, a)
       \/ \E f \in Folders : AddRoot(p, j, f) \/ RemoveRoot(p, j, f)
       \/ DeleteDraftJob(p, j) \/ StartScan(p, j) \/ StartTransfer(p, j)
       \/ PauseScan(p, j) \/ PauseMigration(p, j)
       \/ CancelMigration(p, j) \/ RemoveQueuedJob(p, j)
       \/ \E place \in 0..Cardinality(Jobs), cmd \in {"queue", "reorder"} :
            QueueJob(p, j, place, cmd)

Draft(p) ==
  \/ InsertJob(p) \/ SaveDraft(p) \/ DeleteDraft(p)
  \/ ValidateRoot(p) \/ InsertRoot(p) \/ DeleteRoot(p)
Start(p) ==
  \/ CreateSeededScan(p) \/ AcquireScan(p) \/ BeginScan(p)
  \/ TokenFails(p) \/ LoadParked(p) \/ SettlePause(p) \/ ParkScan(p)
  \/ AcquireLease(p) \/ WriteStarted(p) \/ ResumeHalts(p) \/ SettleStop(p)
Inspect(p) ==
  \/ ReadEvent(p) \/ ReadCohort(p) \/ ReadCheckpoints(p) \/ ReadOrigin(p)
  \/ ReadPhase(p) \/ ReadItems(p)
Queue(p) == Snapshot(p) \/ Inspect(p) \/ PersistQueueChanges(p)
Task(j) ==
  ScanDone(j) \/ ScanEnds(j) \/ SelectCohort(j) \/ WriteOutcome(j) \/ ReleaseLease(j)

Next ==
  \/ \E p \in Clients : Request(p) \/ Draft(p) \/ Start(p) \/ Queue(p) \/ Refused(p)
  \/ \E j \in Jobs : Task(j)

Spec == Init /\ [][Next]_vars

--------------------------------------------------------------------------------
Row == [status : Statuses \cup Gone, position : 0..Cardinality(Jobs),
        source : Accounts \cup {None}, roots : SUBSET Folders]

(* Every row, event, copy and command has its type. *)
TypeOK ==
  /\ row \in [Jobs -> Row] /\ run \in Row /\ scanned \in [Jobs -> Row]
  /\ \A j \in Jobs : event[j] # None => {event[j].prev, event[j].new} \subseteq Statuses
  /\ from \in [Jobs -> Statuses \cup {"none"}]
  /\ begun \in [Jobs -> BOOLEAN] /\ frontier \in [Jobs -> BOOLEAN]
  /\ lease \in Jobs \cup {NoJob} /\ scanning \in [Jobs -> {"no", "asked", "runs", "ends"}]
  /\ entries \in [Jobs -> Nat] /\ relapsed \subseteq Jobs /\ left \in Nat
  /\ \A p \in Clients : IsFree(p) => proc[p] = Free

(* The jobs of the queue, and they alone, have a position, and no two the   *)
(* same: whatever was enqueued, moved, removed, started or cancelled while  *)
(* a queue command was under way, the order the user sees is an order. Two  *)
(* positions may be the same when one is of a job that a scan has put back, *)
(* with the copy it had loaded (job_service.rs:1358).                       *)
QueueIsAnOrder ==
  \A j, k \in Jobs :
    /\ row[j].status = "QUEUED" <=> row[j].position > 0
    /\ row[j].status = "QUEUED" /\ j # k /\ {j, k} \cap relapsed = {}
       => row[j].position # row[k].position

Before(j, k) == row[j].status = "QUEUED" /\ row[k].status = "QUEUED"
                  /\ row[j].position < row[k].position

Commits(p) == At(p, "commit") /\ proc'[p].at = "free" /\ row' # row

(* A queue command moves one job. The others that wait keep their order,    *)
(* none of them is dropped or brought back, and the job itself enters only  *)
(* from a status it may be queued in, although the command computed all of  *)
(* it from what it had read before.                                         *)
QueueChangeIsLocal ==
  [][\A p \in Clients : Commits(p) =>
       /\ \A j \in Jobs \ {Job(p)} : row'[j].status = row[j].status
       /\ \A j, k \in Jobs \ {Job(p)} : Before(j, k) => Before(j, k)'
       /\ row'[Job(p)].status = "QUEUED" => Enqueue(row[Job(p)].status) # Illegal]_vars

(* A halted transfer is resumed like a paused one. *)
Unqueued(s) == IF s \in Halted THEN "PAUSED" ELSE s

(* A job taken out of the queue has the status it was queued in, although   *)
(* the removal infers it from what it read one after the other, while a run *)
(* began, selected a cohort, halted or was cancelled: one that awaits a     *)
(* review is not put back before its canary, and a stopped one is not ready *)
(* again. Not claimed of a job that left the queue and returned while it    *)
(* was being removed, which the comparisons cannot tell, nor of one that a  *)
(* scan has put back, with the copy it had loaded.                          *)
RemovalRestores ==
  [][\A p \in Clients :
       LET j == Job(p) IN
       Commits(p) /\ proc[p].cmd = "remove" /\ proc[p].since = entries[j] /\ j \notin relapsed
       => row'[j].status = Unqueued(from[j])]_vars

(* Once a job is no draft, its roots do not change: not by an addition or a *)
(* removal that found it a draft, nor by a change of its accounts.          *)
RootsLocked ==
  [][\A j \in Jobs : row[j].status \notin Gone \cup {"DRAFT"}
       => row'[j].roots = row[j].roots]_vars
================================================================================
