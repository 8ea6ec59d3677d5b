------------------------------- MODULE JobControl -------------------------------
(***************************************************************************)
(* JobService (application/job_service.rs) as concurrent processes: the    *)
(* commands of the user, the tasks that scan and the tasks that transfer.  *)
(* A command reads the job, waits, and acts on what it read; between two   *)
(* awaits other commands and tasks run. What keeps two jobs from changing  *)
(* Drive at once is the mutation lease: a slot in memory and a row in      *)
(* worker_leases. What a transfer does to its items is ItemTransfer's.     *)
(*                                                                         *)
(* "at" is the await a process is in front of, "seen" its copy of the      *)
(* job's status; a status is always written from that copy, as update_job  *)
(* and persist_job_with_event write whole rows unconditionally.            *)
(*                                                                         *)
(* SOURCE_RATE_LIMITED and WAITING_FOR_QUOTA are like AUTH_REQUIRED here,  *)
(* COMPLETED_WITH_ERRORS is like COMPLETED, and positions in the queue are *)
(* left out. Tasks bounds the spawned tasks, Restarts the crashes.         *)
(***************************************************************************)
EXTENDS Integers, FiniteSets, JobStatus

CONSTANTS
  Jobs, NoJob,
  Clients,   \* commands served at the same time
  Tasks,     \* spawned tasks alive at the same time
  Commands,  \* the commands that are used
  Restarts   \* how often the process dies

ASSUME ControlAssumption ==
  /\ NoJob \notin Jobs /\ Clients \cap Tasks = {} /\ Restarts \in Nat
  /\ Commands \subseteq {"start", "continue", "resume", "pause", "cancel",
                         "scan", "transfer", "pausescan"}

VARIABLES
  status,    \* migration_jobs.status of each job
  begun,     \* the rows or events of a job show that its transfer began
  lease,     \* worker_leases: the job that holds the one durable lease
  slot,      \* transfer_lease: the job that holds the slot in memory
  flags,     \* transfer_pause_flags and transfer_cancel_flags that are set
  scanning,  \* scan_in_flight
  scanPause, \* scan_pause_flags
  gate,      \* update_gate: "open", or an installation that "checks" or "installs"
  proc,      \* the processes
  restarts   \* how many restarts are left

memory == <<flags, scanning, scanPause>>
vars == <<status, begun, lease, slot, flags, scanning, scanPause, gate, proc, restarts>>

--------------------------------------------------------------------------------
Absent == "ABSENT"   \* the status of a job that was not created yet
Procs  == Clients \cup Tasks
Kinds  == {"pause", "cancel"}

Begun(at, cmd, job, seen, canary) ==
  [at |-> at, cmd |-> cmd, job |-> job, seen |-> seen, canary |-> canary,
   heard |-> {}, kept |-> {}]
Free == Begun("free", "none", NoJob, Absent, FALSE)

IsFree(p) == proc[p].at = "free"
At(p, a)  == proc[p].at = a
Job(p)    == proc[p].job
Seen(p)   == proc[p].seen
Cmd(p)    == proc[p].cmd

WorkerCmds == {"worker", "autoworker"}
Workers == {p \in Tasks : Cmd(p) \in WorkerCmds}
Mutating == {p \in Workers : At(p, "run")}       \* tasks that may change Drive now

CommandReaders == {p \in Clients : ~IsFree(p)}   \* mutant: tasks do not hold the gate
Readers == {p \in Procs : ~IsFree(p)}            \* holders of update_gate for reading

Goto(p, a)    == proc' = [proc EXCEPT ![p].at = a]
Keep(p, a, s) == proc' = [proc EXCEPT ![p].at = a, ![p].seen = s]
End(p)        == proc' = [proc EXCEPT ![p] = Free]
Write(p, s)   == status' = [status EXCEPT ![Job(p)] = s]
Scanner(p)    == p \in Tasks /\ Cmd(p) \notin WorkerCmds
ScanOver(p)   == scanning' = IF Scanner(p) THEN scanning \ {Job(p)} ELSE scanning

Init ==
  /\ status \in [Jobs -> {Absent, "DRAFT", "READY_FOR_REVIEW"}]
  /\ begun = [j \in Jobs |-> FALSE]
  /\ lease = NoJob /\ slot = NoJob
  /\ flags = [j \in Jobs |-> {}]
  /\ scanning = {} /\ scanPause = [j \in Jobs |-> FALSE]
  /\ gate = "open" /\ proc = [p \in Procs |-> Free] /\ restarts = Restarts

--------------------------------------------------------------------------------
(* The commands: begin_work, get_job and the check of the status. *)

Begin(c, cmd, first, j, canary) ==
  /\ cmd \in Commands /\ IsFree(c) /\ gate = "open"
  /\ proc' = [proc EXCEPT ![c] = Begun(first, cmd, j, status[j], canary)]

Untouched == UNCHANGED <<begun, lease, slot, memory, gate, restarts>>

StartCanaryCommand(c, j) ==
  /\ status[j] \in {"READY_FOR_REVIEW", "RUNNING_CANARY", "QUEUED"}
  /\ Begin(c, "start", "slot", j, TRUE) /\ Untouched /\ UNCHANGED status

ContinueMigration(c, j) ==
  /\ status[j] \in {"CANARY_REVIEW", "RUNNING", "QUEUED"}
  /\ Begin(c, "continue", "slot", j, FALSE) /\ Untouched /\ UNCHANGED status

ResumeMigration(c, j) ==
  /\ status[j] \in TransferResumable /\ (status[j] = "PAUSED" => begun[j])
  /\ \E canary \in BOOLEAN : Begin(c, "resume", "slot", j, canary)
  /\ Untouched /\ UNCHANGED status

PauseMigration(c, j) ==
  /\ status[j] \in {"RUNNING_CANARY", "RUNNING", "PAUSED"}
  /\ Begin(c, "pause", "signal", j, FALSE) /\ Untouched /\ UNCHANGED status

CancelMigration(c, j) ==
  /\ status[j] # Absent
  /\ Begin(c, "cancel", "signal", j, FALSE) /\ Untouched /\ UNCHANGED status

StartScan(c, j) ==
  /\ status[j] # Absent /\ (status[j] = "PAUSED" => ~begun[j])
  /\ Begin(c, "scan", "scanslot", j, FALSE) /\ Untouched /\ UNCHANGED status

(* start_transfer_operation creates the job in SCANNING, with its roots, and *)
(* calls start_scan_with_auto.                                               *)
StartTransferOperation(c, j) ==
  /\ status[j] = Absent /\ status' = [status EXCEPT ![j] = "SCANNING"]
  /\ Begin(c, "transfer", "scanload", j, FALSE) /\ Untouched

PauseScan(c, j) ==
  /\ status[j] \in {"SCANNING", "PAUSED"}
  /\ Begin(c, "pausescan", "scansignal", j, FALSE) /\ Untouched /\ UNCHANGED status

Command(c, j) ==
  \/ StartCanaryCommand(c, j) \/ ContinueMigration(c, j) \/ ResumeMigration(c, j)
  \/ PauseMigration(c, j) \/ CancelMigration(c, j) \/ StartScan(c, j)
  \/ StartTransferOperation(c, j) \/ PauseScan(c, j)

--------------------------------------------------------------------------------
(* try_acquire_transfer, and what follows when the lease is taken. *)

AcquireSlot(p) ==
  /\ At(p, "slot")
  /\ IF slot = NoJob THEN slot' = Job(p) /\ Goto(p, "lease")
                    ELSE Goto(p, "queue") /\ UNCHANGED slot
  /\ UNCHANGED <<status, begun, lease, memory, gate, restarts>>

AcquireLease(p) ==
  /\ At(p, "lease")
  /\ IF lease = NoJob
     THEN /\ lease' = Job(p) /\ UNCHANGED slot
          /\ Goto(p, IF Cmd(p) = "resume" THEN "reconcile" ELSE "prepare")
     ELSE /\ slot' = (IF slot = Job(p) THEN NoJob ELSE slot) /\ UNCHANGED lease
          /\ Goto(p, "queue")
  /\ UNCHANGED <<status, begun, memory, gate, restarts>>

QueueOrBusy(p) ==
  /\ At(p, "queue")
  /\ LET busy == \/ slot = Job(p) \/ lease = Job(p)
                 \/ status[Job(p)] \in {"RUNNING", "RUNNING_CANARY"}
                 \/ Enqueue(status[Job(p)]) = Illegal
     IN IF busy THEN End(p) /\ ScanOver(p)
                ELSE Keep(p, "enqueue", status[Job(p)]) /\ UNCHANGED scanning
  /\ UNCHANGED <<status, begun, lease, slot, flags, scanPause, gate, restarts>>

(* persist_queue_changes compares the job with the snapshot; it also refuses *)
(* when the rest of the queue has changed.                                   *)
JoinQueue(p) ==
  /\ At(p, "enqueue") /\ End(p) /\ ScanOver(p)
  /\ \/ /\ status[Job(p)] = Seen(p) /\ lease # Job(p)
        /\ Write(p, Enqueue(Seen(p)))
     \/ UNCHANGED status
  /\ UNCHANGED <<begun, lease, slot, flags, scanPause, gate, restarts>>

(* resume_migration revalidates the tokens and reconciles the checkpoints.  *)
ReconcileForResume(p) ==
  /\ At(p, "reconcile") /\ \E next \in {"prepare", "release", "auth"} : Goto(p, next)
  /\ UNCHANGED <<status, begun, lease, slot, memory, gate, restarts>>

AuthHalt(p) ==
  /\ At(p, "auth") /\ Write(p, RequireAuth(Seen(p))) /\ Goto(p, "release")
  /\ UNCHANGED <<begun, lease, slot, memory, gate, restarts>>

Prepared(p) ==
  CASE Cmd(p) = "resume" -> ResumeTransfer(Seen(p), proc[p].canary)
    [] Cmd(p) = "continue" -> IF Seen(p) = "QUEUED" THEN ResumeTransfer(Seen(p), FALSE)
                                                    ELSE StartBulk(Seen(p))
    [] OTHER -> StartCanary(Seen(p))

(* prepare_and_run_mutation writes the status and spawns the worker. *)
SpawnWorker(p) ==
  /\ At(p, "prepare") /\ Write(p, Prepared(p)) /\ ScanOver(p)
  /\ \E t \in Tasks :
       /\ IsFree(t)
       /\ proc' = [proc EXCEPT ![p] = Free,
            ![t] = Begun("launch", IF Cmd(p) = "auto" THEN "autoworker" ELSE "worker",
                         Job(p), Prepared(p), FALSE)]
  /\ UNCHANGED <<begun, lease, slot, flags, scanPause, gate, restarts>>

(* The status could not be written. *)
SpawnFails(p) ==
  /\ At(p, "prepare") /\ Goto(p, "release")
  /\ UNCHANGED <<status, begun, lease, slot, memory, gate, restarts>>

Acquire(p) ==
  \/ AcquireSlot(p) \/ AcquireLease(p) \/ QueueOrBusy(p) \/ JoinQueue(p)
  \/ ReconcileForResume(p) \/ AuthHalt(p) \/ SpawnWorker(p) \/ SpawnFails(p)

--------------------------------------------------------------------------------
(* Giving the lease back: a worker, a pause or cancellation that found no   *)
(* worker, and a resume that failed.                                        *)

KeepAfterFailure(p) ==   \* mutant: a start that failed keeps the durable lease
  /\ At(p, "release")
  /\ lease' = IF lease = Job(p) /\ Cmd(p) \in WorkerCmds THEN NoJob ELSE lease
  /\ Goto(p, IF Cmd(p) \in WorkerCmds THEN "flags" ELSE "drop")
  /\ UNCHANGED <<status, begun, slot, memory, gate, restarts>>

ReleaseLease(p) ==
  /\ At(p, "release") /\ lease' = IF lease = Job(p) THEN NoJob ELSE lease
  /\ Goto(p, IF Cmd(p) \in WorkerCmds THEN "flags" ELSE "drop")
  /\ UNCHANGED <<status, begun, slot, memory, gate, restarts>>

KeepSlot(p) ==   \* mutant: the worker ends without dropping its guard
  /\ At(p, "drop") /\ slot' = IF Cmd(p) \in WorkerCmds THEN slot ELSE NoJob
  /\ End(p) /\ ScanOver(p)
  /\ UNCHANGED <<status, begun, lease, flags, scanPause, gate, restarts>>

(* Dropping the guard, and clear_memory_lease, do the same to the slot. *)
DropSlot(p) ==
  /\ At(p, "drop") /\ slot' = IF slot = Job(p) THEN NoJob ELSE slot
  /\ IF Cmd(p) = "pause" THEN Goto(p, "flags") /\ UNCHANGED scanning
                         ELSE End(p) /\ ScanOver(p)
  /\ UNCHANGED <<status, begun, lease, flags, scanPause, gate, restarts>>

(* A flag that is taken out of its map is out of reach of later requests:   *)
(* a worker that holds it keeps the value it had.                           *)
RemoveFlags(p) ==
  LET gone == IF Cmd(p) = "pause" THEN {"pause"} ELSE Kinds
      deafened == [q \in Procs |->
        IF q \in Workers /\ Job(q) = Job(p)
        THEN [proc[q] EXCEPT !.heard = @ \ gone,
                             !.kept = @ \cup (flags[Job(p)] \cap gone \cap proc[q].heard)]
        ELSE proc[q]]
  IN
  /\ At(p, "flags")
  /\ flags' = [flags EXCEPT ![Job(p)] = @ \ gone]
  /\ proc' = IF Cmd(p) = "pause" THEN [deafened EXCEPT ![p] = Free]
                                 ELSE [deafened EXCEPT ![p].at = "drop"]
  /\ UNCHANGED <<status, begun, lease, slot, scanning, scanPause, gate, restarts>>

GiveBack(p) == ReleaseLease(p) \/ DropSlot(p) \/ RemoveFlags(p)

--------------------------------------------------------------------------------
(* pause_migration and cancel_migration. *)

(* A cancellation sets the pause flag first and the cancel flag after it. *)
SetFlag(p) ==
  /\ At(p, "signal")
  /\ flags' = [flags EXCEPT ![Job(p)] = @ \cup {"pause"}]
  /\ Goto(p, IF Cmd(p) = "cancel" THEN "cancelsignal" ELSE "inflight")
  /\ UNCHANGED <<status, begun, lease, slot, scanning, scanPause, gate, restarts>>

SetCancelFlag(p) ==
  /\ At(p, "cancelsignal") /\ Goto(p, "inflight")
  /\ flags' = [flags EXCEPT ![Job(p)] = @ \cup {"cancel"}]
  /\ UNCHANGED <<status, begun, lease, slot, scanning, scanPause, gate, restarts>>

NeverInFlight(p) ==   \* mutant: the worker is not asked for
  /\ At(p, "inflight") /\ Goto(p, "settle")
  /\ UNCHANGED <<status, begun, lease, slot, memory, gate, restarts>>

TransferIsInFlight(p) ==
  /\ At(p, "inflight")
  /\ IF slot = Job(p) THEN End(p) ELSE Goto(p, "settle")
  /\ UNCHANGED <<status, begun, lease, slot, memory, gate, restarts>>

(* No worker: the status is written here. The rows are ItemTransfer's. *)
SettleStop(p) ==
  LET new == IF Cmd(p) = "pause" THEN PauseTransfer(Seen(p)) ELSE CancelJob(Seen(p)) IN
  /\ At(p, "settle")
  /\ IF new = Illegal THEN End(p) /\ UNCHANGED <<status, begun>>
     ELSE /\ Write(p, new) /\ Goto(p, "release")
          /\ begun' = [begun EXCEPT ![Job(p)] = @ \/ Seen(p) \in UnfinishedMutation]
  /\ UNCHANGED <<lease, slot, memory, gate, restarts>>

Halt(p) == SetFlag(p) \/ SetCancelFlag(p) \/ TransferIsInFlight(p) \/ SettleStop(p)

--------------------------------------------------------------------------------
(* The worker: run_mutation, run_auto_mutation_if_ready's task. *)

ClearFlags(p) ==
  /\ At(p, "launch") /\ Goto(p, "listen")
  /\ flags' = [flags EXCEPT ![Job(p)] = {}]
  /\ UNCHANGED <<status, begun, lease, slot, scanning, scanPause, gate, restarts>>

TakeFlags(p) ==
  /\ At(p, "listen") /\ begun' = [begun EXCEPT ![Job(p)] = TRUE]
  /\ proc' = [proc EXCEPT ![p].at = "run", ![p].heard = Kinds]
  /\ UNCHANGED <<status, lease, slot, memory, gate, restarts>>

Heard(p) == (flags[Job(p)] \cap proc[p].heard) \cup proc[p].kept

WorkerStops(p) ==
  /\ At(p, "run") /\ Heard(p) # {}
  /\ Keep(p, "ended", IF "cancel" \in Heard(p) THEN CancelJob(Seen(p))
                                              ELSE PauseTransfer(Seen(p)))
  /\ UNCHANGED <<status, begun, lease, slot, memory, gate, restarts>>

(* All items are done, the account or its quota is exhausted, or an error   *)
(* that leaves the status as it is.                                         *)
WorkerEnds(p) ==
  /\ At(p, "run")
  /\ \E s \in {Seen(p), RequireAuth(Seen(p))} \cup
          (IF Seen(p) = "RUNNING" THEN {CompleteTransfer(Seen(p), FALSE)}
           ELSE {CompleteCanary(Seen(p))} \cup
                (IF Cmd(p) = "autoworker" THEN {CompleteTransfer("RUNNING", FALSE)} ELSE {})) :
       Keep(p, "ended", s)
  /\ UNCHANGED <<status, begun, lease, slot, memory, gate, restarts>>

WorkerContinues(p) ==
  /\ At(p, "run") /\ Cmd(p) = "autoworker" /\ Seen(p) = "RUNNING_CANARY"
  /\ Write(p, "RUNNING") /\ Keep(p, "run", "RUNNING")
  /\ UNCHANGED <<begun, lease, slot, memory, gate, restarts>>

PersistOutcome(p) ==
  /\ At(p, "ended") /\ Write(p, Seen(p)) /\ Goto(p, "release")
  /\ UNCHANGED <<begun, lease, slot, memory, gate, restarts>>

Work(p) ==
  \/ ClearFlags(p) \/ TakeFlags(p) \/ WorkerStops(p) \/ WorkerEnds(p)
  \/ WorkerContinues(p) \/ PersistOutcome(p)

--------------------------------------------------------------------------------
(* start_scan_with_auto, execute_scan and pause_scan. *)

ScanLoad(p) ==
  /\ At(p, "scanload")
  /\ IF status[Job(p)] = "PAUSED" /\ begun[Job(p)] THEN End(p)
     ELSE Keep(p, "scanslot", status[Job(p)])
  /\ UNCHANGED <<status, begun, lease, slot, memory, gate, restarts>>

AcquireScan(p) ==
  /\ At(p, "scanslot")
  /\ IF Job(p) \in scanning THEN End(p) /\ UNCHANGED scanning
     ELSE scanning' = scanning \cup {Job(p)} /\ Goto(p, "scanflag")
  /\ UNCHANGED <<status, begun, lease, slot, flags, scanPause, gate, restarts>>

ResetScanFlag(p) ==
  /\ At(p, "scanflag") /\ Goto(p, "scanstart")
  /\ scanPause' = [scanPause EXCEPT ![Job(p)] = FALSE]
  /\ UNCHANGED <<status, begun, lease, slot, flags, scanning, gate, restarts>>

(* The source gave no token: a job left in SCANNING is paused. *)
ScanTokenFails(p) ==
  /\ At(p, "scanstart") /\ scanning' = scanning \ {Job(p)}
  /\ IF Seen(p) = "SCANNING" THEN Keep(p, "scanpark", status[Job(p)]) ELSE End(p)
  /\ UNCHANGED <<status, begun, lease, slot, flags, scanPause, gate, restarts>>

(* persist_paused. *)
Parked(s) == IF s = "SCANNING" THEN PauseScanning(s) ELSE s

ParkScan(p) ==
  /\ At(p, "scanpark") /\ Write(p, Parked(Seen(p))) /\ End(p)
  /\ UNCHANGED <<begun, lease, slot, memory, gate, restarts>>

SpawnScan(p) ==
  /\ At(p, "scanstart")
  /\ IF StartScanning(Seen(p)) = Illegal
     THEN End(p) /\ scanning' = scanning \ {Job(p)} /\ UNCHANGED status
     ELSE /\ Write(p, "SCANNING") /\ UNCHANGED scanning
          /\ \E t \in Tasks :
               /\ IsFree(t)
               /\ proc' = [proc EXCEPT ![p] = Free,
                    ![t] = Begun("scan", IF Cmd(p) = "transfer" THEN "autoscan" ELSE "scan",
                                 Job(p), Absent, FALSE)]
  /\ UNCHANGED <<begun, lease, slot, flags, scanPause, gate, restarts>>

(* run_scan returns, and the job is read again. *)
ScanReturns(p) ==
  /\ At(p, "scan")
  /\ \E outcome \in {"complete", "park", "fail"} \cup
                    (IF scanPause[Job(p)] THEN {"pause"} ELSE {}) :
       Keep(p, outcome, status[Job(p)])
  /\ UNCHANGED <<status, begun, lease, slot, memory, gate, restarts>>

AnyOutcome(new, old) == new   \* mutant: a refused transition is written
Legal(new, old) == IF new = Illegal THEN old ELSE new

PersistScan(p) ==
  LET s == Seen(p)
      new == CASE At(p, "complete") -> Legal(CompleteScanning(s), s)
               [] At(p, "pause")    -> Legal(PauseScanning(s), s)
               [] At(p, "fail")     -> Legal(FailScanning(s), s)
               [] OTHER             -> Parked(s)
  IN
  /\ At(p, "complete") \/ At(p, "pause") \/ At(p, "fail") \/ At(p, "park")
  /\ Write(p, new) /\ scanPause' = [scanPause EXCEPT ![Job(p)] = FALSE]
  /\ IF At(p, "complete") /\ CompleteScanning(s) # Illegal /\ Cmd(p) = "autoscan"
     THEN Goto(p, "autoload") /\ UNCHANGED scanning
     ELSE End(p) /\ ScanOver(p)
  /\ UNCHANGED <<begun, lease, slot, flags, gate, restarts>>

(* run_auto_mutation_if_ready, in the task of the scan. *)
AutoLoad(p) ==
  /\ At(p, "autoload")
  /\ IF status[Job(p)] = "READY_FOR_REVIEW"
     THEN /\ proc' = [proc EXCEPT ![p].at = "slot", ![p].cmd = "auto",
                                  ![p].seen = "READY_FOR_REVIEW"]
          /\ UNCHANGED scanning
     ELSE End(p) /\ ScanOver(p)
  /\ UNCHANGED <<status, begun, lease, slot, flags, scanPause, gate, restarts>>

SetScanFlag(p) ==
  /\ At(p, "scansignal")
  /\ scanPause' = [scanPause EXCEPT ![Job(p)] = TRUE]
  /\ Goto(p, "scaninflight")
  /\ UNCHANGED <<status, begun, lease, slot, flags, scanning, gate, restarts>>

(* No scan in flight: the pause is written here. *)
SettleScanPause(p) ==
  /\ At(p, "scaninflight") /\ End(p)
  /\ IF Job(p) \in scanning THEN UNCHANGED status
     ELSE Write(p, Legal(PauseScanning(Seen(p)), status[Job(p)]))
  /\ UNCHANGED <<begun, lease, slot, memory, gate, restarts>>

Scan(p) ==
  \/ ScanLoad(p) \/ AcquireScan(p) \/ ResetScanFlag(p) \/ ScanTokenFails(p) \/ ParkScan(p)
  \/ SpawnScan(p) \/ ScanReturns(p) \/ PersistScan(p) \/ AutoLoad(p) \/ SetScanFlag(p)
  \/ SettleScanPause(p)

--------------------------------------------------------------------------------
(* The installation of an update, and a crash with the restart after it. *)

Busy(s) == s \in UnfinishedMutation \cup {"SCANNING"}

BeginInstallation ==
  /\ gate = "open" /\ Readers = {} /\ gate' = "checks"
  /\ UNCHANGED <<status, begun, lease, slot, memory, proc, restarts>>

CheckInstallation ==
  /\ gate = "checks"
  /\ gate' = IF lease # NoJob \/ \E j \in Jobs : Busy(status[j]) THEN "open" ELSE "installs"
  /\ UNCHANGED <<status, begun, lease, slot, memory, proc, restarts>>

EndInstallation ==
  /\ gate = "installs" /\ gate' = "open"
  /\ UNCHANGED <<status, begun, lease, slot, memory, proc, restarts>>

(* reconcile_on_startup runs before any command is served. *)
Restart ==
  /\ restarts > 0 /\ restarts' = restarts - 1
  /\ proc' = [p \in Procs |-> Free] /\ slot' = NoJob /\ lease' = NoJob
  /\ flags' = [j \in Jobs |-> {}] /\ scanning' = {}
  /\ scanPause' = [j \in Jobs |-> FALSE] /\ gate' = "open"
  /\ \E lost \in SUBSET Jobs :
       status' = [j \in Jobs |->
         IF status[j] = "SCANNING" THEN PauseScanning(status[j])
         ELSE IF status[j] \notin UnfinishedMutation THEN status[j]
         ELSE IF j \in lost THEN RequireAuth(status[j]) ELSE PauseTransfer(status[j])]
  /\ UNCHANGED begun

Step(p) == Acquire(p) \/ GiveBack(p) \/ Halt(p) \/ Work(p) \/ Scan(p)

Next ==
  \/ \E c \in Clients, j \in Jobs : Command(c, j)
  \/ \E p \in Procs : Step(p)
  \/ BeginInstallation \/ CheckInstallation \/ EndInstallation \/ Restart

Spec     == Init /\ [][Next]_vars
FairSpec == Spec /\ \A p \in Procs : WF_vars(Step(p))

--------------------------------------------------------------------------------
(* Every variable has its type; a process that is free holds nothing. *)
TypeOK ==
  /\ status \in [Jobs -> Statuses \cup {Absent}] /\ begun \in [Jobs -> BOOLEAN]
  /\ lease \in Jobs \cup {NoJob} /\ slot \in Jobs \cup {NoJob}
  /\ flags \in [Jobs -> SUBSET Kinds]
  /\ scanning \subseteq Jobs /\ scanPause \in [Jobs -> BOOLEAN]
  /\ gate \in {"open", "checks", "installs"}
  /\ \A p \in Procs : /\ Job(p) \in Jobs \cup {NoJob}
                      /\ Seen(p) \in Statuses \cup {Absent}
                      /\ IsFree(p) => proc[p] = Free

(* Only one task may be changing Drive, whatever the jobs, the commands and *)
(* the restarts: two would send two kinds of ownership change at once, and  *)
(* two of one job would treat the same item twice.                          *)
SingleMutator == Cardinality(Mutating) <= 1

(* "Only one job may issue ownership mutations at a time" (README.md:19):   *)
(* tasks that may change Drive at the same time are of the same job.        *)
OneJobMutates == \A p, q \in Mutating : Job(p) = Job(q)

(* A task that may change Drive holds both halves of the lease: no pause,   *)
(* failed start or other job took from it what was acquired commands ago.   *)
WorkerHoldsLease == \A p \in Mutating : slot = Job(p) /\ lease = Job(p)

(* The durable lease and the slot are held only on behalf of a process that *)
(* is on its way to give them back: no failed command leaves the whole      *)
(* application unable to transfer until its next start.                     *)
LeaseIsNotLeaked ==
  /\ lease # NoJob => \E p \in Procs :
       Job(p) = lease /\ proc[p].at \in {"reconcile", "prepare", "auth", "launch", "listen",
                                         "run", "ended", "release"}
  /\ slot # NoJob => \E p \in Procs :
       Job(p) = slot /\ proc[p].at \in {"lease", "reconcile", "prepare", "auth", "launch",
                                        "listen", "run", "ended", "release", "flags", "drop"}

(* The lease and the work it is for are there together, in both directions. *)
LeaseFitsWork == WorkerHoldsLease /\ LeaseIsNotLeaked

(* An update is installed only while nothing runs and no job says that      *)
(* something does: not even a task that outlived the command it came from.  *)
InstallsAlone ==
  gate = "installs" => /\ \A p \in Procs : IsFree(p)
                       /\ lease = NoJob
                       /\ \A j \in Jobs : ~Busy(status[j])

(* Every job that took the slot gives it back, however its worker, or the   *)
(* command that took it, ends.                                              *)
LeaseReturns == \A j \in Jobs : slot = j ~> slot # j
================================================================================
