--------------------------- MODULE JobControlProofs ---------------------------
(***************************************************************************)
(* Theorems about the leases and the concurrent jobs, for every set of     *)
(* jobs, clients and tasks, every set of commands and number of restarts.  *)
(***************************************************************************)
EXTENDS JobControl, TLAPS, FiniteSetTheorems

--------------------------------------------------------------------------------
(* The inductive invariant: what is known of a process from where it is,   *)
(* and who is on the way to give the halves of the lease back.             *)

Known == Statuses \cup {Absent}

Places == {"free", "slot", "lease", "queue", "enqueue", "reconcile", "auth", "prepare",
           "release", "drop", "flags", "signal", "cancelsignal", "inflight", "settle",
           "launch", "listen", "run", "ended", "scanload", "scanslot", "scanflag",
           "scanstart", "scanpark", "scan", "complete", "park", "fail", "pause",
           "autoload", "scansignal", "scaninflight"}

Names == {"none", "start", "continue", "resume", "pause", "cancel", "scan", "transfer",
          "pausescan", "auto", "worker", "autoworker", "autoscan"}

Process == [at : Places, cmd : Names, job : Jobs \cup {NoJob}, seen : Known,
            canary : BOOLEAN, heard : SUBSET Kinds, kept : SUBSET Kinds]

(* The copies from which a transfer may be started. *)
Startable(r) ==
  \/ r.cmd = "start" /\ r.seen \in {"READY_FOR_REVIEW", "RUNNING_CANARY", "QUEUED"}
  \/ r.cmd = "auto" /\ r.seen = "READY_FOR_REVIEW"
  \/ r.cmd = "continue" /\ r.seen \in {"CANARY_REVIEW", "RUNNING", "QUEUED"}
  \/ r.cmd = "resume" /\ r.seen \in TransferResumable

ProcOK(r) ==
  /\ r \in Process
  /\ r.at = "free" => r = Free
  /\ r.at # "free" => r.job \in Jobs
  /\ r.at \in {"slot", "lease", "prepare"} => Startable(r)
  /\ r.at \in {"reconcile", "auth"} => r.cmd = "resume" /\ r.seen \in TransferResumable
  /\ r.at = "enqueue" => Enqueue(r.seen) # Illegal
  /\ r.at \in {"signal", "cancelsignal", "inflight", "settle"} => r.cmd \in {"pause", "cancel"}
  /\ r.at \in {"launch", "listen", "run"} =>
       r.cmd \in WorkerCmds /\ r.seen \in {"RUNNING_CANARY", "RUNNING"}
  /\ r.at = "ended" => r.cmd \in WorkerCmds /\ r.seen \in Statuses
  /\ r.at = "flags" => r.cmd \in WorkerCmds \cup {"pause"}

(* A process that pauses a job without a worker has given the lease back    *)
(* before it removes the flag.                                              *)
HoldsLease(r) == r.at \in {"reconcile", "prepare", "auth", "launch", "listen", "run",
                           "ended", "release"}
HoldsSlot(r)  == \/ HoldsLease(r) \/ r.at \in {"lease", "drop"}
                 \/ r.at = "flags" /\ r.cmd # "pause"

ProcsOK == proc \in [Procs -> Process] /\ \A p \in Procs : ProcOK(proc[p])
JobsOK ==
  /\ status \in [Jobs -> Known] /\ begun \in [Jobs -> BOOLEAN]
  /\ flags \in [Jobs -> SUBSET Kinds]
  /\ scanning \subseteq Jobs /\ scanPause \in [Jobs -> BOOLEAN]
LeasesOK ==
  /\ lease \in Jobs \cup {NoJob} /\ slot \in Jobs \cup {NoJob}
  /\ lease # NoJob => \E p \in Procs : Job(p) = lease /\ HoldsLease(proc[p])
  /\ slot # NoJob => \E p \in Procs : Job(p) = slot /\ HoldsSlot(proc[p])
GateOK ==
  /\ gate \in {"open", "checks", "installs"}
  /\ gate # "open" => \A p \in Procs : IsFree(p)
  /\ gate = "installs" => \A j \in Jobs : ~Busy(status[j])

IInv == ProcsOK /\ JobsOK /\ LeasesOK /\ GateOK

LEMMA FreeOK == ProcOK(Free) /\ ~HoldsSlot(Free) /\ ~HoldsLease(Free)
BY DEF Free, Begun, ProcOK, Process, Places, Names, Known, HoldsSlot, HoldsLease, Kinds

LEMMA InvInit == Init => IInv
<1>. SUFFICES ASSUME Init PROVE IInv
  OBVIOUS
<1>1. ProcsOK
  BY FreeOK DEF Init, ProcsOK, ProcOK
<1>2. JobsOK
  BY DEF Init, JobsOK, Known, Statuses
<1>3. LeasesOK
  BY DEF Init, LeasesOK
<1>4. GateOK
  BY DEF Init, GateOK
<1>. QED BY <1>1, <1>2, <1>3, <1>4 DEF IInv

LEMMA InvMeans == IInv => TypeOK /\ LeaseIsNotLeaked /\ InstallsAlone
<1>. SUFFICES ASSUME IInv PROVE TypeOK /\ LeaseIsNotLeaked /\ InstallsAlone
  OBVIOUS
<1>1. TypeOK
  <2>1. \A p \in Procs : /\ Job(p) \in Jobs \cup {NoJob} /\ Seen(p) \in Known
                         /\ IsFree(p) => proc[p] = Free
    BY DEF IInv, ProcsOK, ProcOK, Process, Job, Seen, IsFree
  <2>. QED BY <2>1 DEF IInv, JobsOK, LeasesOK, GateOK, TypeOK, Known
<1>2. LeaseIsNotLeaked
  BY DEF IInv, LeasesOK, LeaseIsNotLeaked, HoldsLease, HoldsSlot
<1>3. InstallsAlone
  BY DEF IInv, GateOK, LeasesOK, InstallsAlone, HoldsLease, IsFree
<1>. QED BY <1>1, <1>2, <1>3

--------------------------------------------------------------------------------
(* What the operations of the status return. *)

LEMMA Moves ==
  ASSUME NEW s \in Known
  PROVE  /\ PauseTransfer(s) \in {"PAUSED", Illegal} /\ CancelJob(s) \in {"CANCELLED", Illegal}
         /\ PauseScanning(s) \in {"PAUSED", Illegal}
         /\ CompleteScanning(s) \in {"READY_FOR_REVIEW", Illegal}
         /\ FailScanning(s) \in {"FAILED", Illegal}
         /\ Enqueue(s) \in {"QUEUED", Illegal}
BY DEF PauseTransfer, CancelJob, PauseScanning, CompleteScanning, FailScanning, Enqueue, Move

LEMMA WrittenKnown ==
  ASSUME NEW s \in Known
  PROVE  /\ Parked(s) \in Known /\ Legal(PauseScanning(s), s) \in Known
         /\ Legal(CompleteScanning(s), s) \in Known /\ Legal(FailScanning(s), s) \in Known
BY DEF Parked, Legal, PauseScanning, CompleteScanning, FailScanning, Move, Known, Statuses,
       TransferResumable, TerminalStatus

LEMMA PreparedRuns ==
  ASSUME NEW p \in Procs, Startable(proc[p]), proc[p].canary \in BOOLEAN
  PROVE  Prepared(p) \in {"RUNNING", "RUNNING_CANARY"}
<1>1. CASE Cmd(p) = "resume"
  BY <1>1 DEF Startable, Prepared, Cmd, Seen, ResumeTransfer, Move
<1>2. CASE Cmd(p) = "continue"
  <2>1. Seen(p) \in {"CANARY_REVIEW", "RUNNING", "QUEUED"}
    BY <1>2 DEF Startable, Cmd, Seen
  <2>2. "QUEUED" \in TransferResumable
    BY DEF TransferResumable
  <2>. QED BY <1>2, <2>1, <2>2 DEF Prepared, ResumeTransfer, StartBulk, Move
<1>3. CASE Cmd(p) \in {"start", "auto"}
  <2>1. Seen(p) \in {"READY_FOR_REVIEW", "RUNNING_CANARY", "QUEUED"}
    BY <1>3 DEF Startable, Cmd, Seen
  <2>. QED BY <1>3, <2>1 DEF Prepared, StartCanary, Move
<1>. QED BY <1>1, <1>2, <1>3 DEF Startable, Cmd

LEMMA WorkedKnown ==
  ASSUME NEW s \in {"RUNNING", "RUNNING_CANARY"}
  PROVE  /\ CancelJob(s) \in Statuses /\ PauseTransfer(s) \in Statuses
         /\ RequireAuth(s) \in Statuses /\ s \in Statuses
         /\ s = "RUNNING" => CompleteTransfer(s, FALSE) \in Statuses
         /\ s = "RUNNING_CANARY" => CompleteCanary(s) \in Statuses
         /\ CompleteTransfer("RUNNING", FALSE) \in Statuses
BY DEF CancelJob, PauseTransfer, RequireAuth, CompleteTransfer, CompleteCanary, Move, Statuses,
       TerminalStatus, UnfinishedMutation, TransferResumable

--------------------------------------------------------------------------------
(* One process goes on; the halves of the lease follow it or stay. *)

LEMMA ProcStep ==
  ASSUME ProcsOK, NEW p \in Procs, NEW r, ProcOK(r), proc' = [proc EXCEPT ![p] = r]
  PROVE  ProcsOK' /\ \A q \in Procs : proc'[q] = IF q = p THEN r ELSE proc[q]
BY DEF ProcsOK, ProcOK

(* A step that takes or gives back nothing. *)
LEMMA HoldStep ==
  ASSUME ProcsOK, LeasesOK, NEW p \in Procs, NEW r, ProcOK(r), proc' = [proc EXCEPT ![p] = r],
         r.job = Job(p) \/ ~HoldsSlot(proc[p]),
         HoldsSlot(proc[p]) => HoldsSlot(r), HoldsLease(proc[p]) => HoldsLease(r),
         UNCHANGED <<lease, slot>>
  PROVE  ProcsOK' /\ LeasesOK'
<1>1. ProcsOK' /\ \A q \in Procs : proc'[q] = IF q = p THEN r ELSE proc[q]
  BY ProcStep
<1>2. HoldsLease(proc[p]) => HoldsSlot(proc[p])
  BY DEF HoldsSlot
<1>. QED BY <1>1, <1>2 DEF LeasesOK, Job

(* The gate is not concerned while a process is under way. *)
LEMMA GateStep ==
  ASSUME GateOK, NEW p \in Procs, ~IsFree(p), UNCHANGED gate
  PROVE  GateOK' /\ gate = "open"
BY DEF GateOK

LEMMA WriteKnown ==
  ASSUME JobsOK, NEW p \in Procs, Job(p) \in Jobs, NEW s \in Known, Write(p, s)
  PROVE  status' \in [Jobs -> Known]
BY DEF JobsOK, Write

(* A process that went on to a with the copy s, whatever else it remembers. *)
WentOn(p, a, s, r) ==
  /\ r \in Process /\ r.at = a /\ r.cmd = Cmd(p) /\ r.job = Job(p) /\ r.seen = s

LEMMA WentTo ==
  ASSUME ProcsOK, NEW p \in Procs, NEW a \in Places
  PROVE  WentOn(p, a, Seen(p), [proc[p] EXCEPT !.at = a])
<1>1. proc[p] \in Process
  BY DEF ProcsOK
<1>. QED BY <1>1 DEF WentOn, Process, Cmd, Job, Seen

LEMMA WentWith ==
  ASSUME ProcsOK, NEW p \in Procs, NEW a \in Places, NEW s \in Known
  PROVE  WentOn(p, a, s, [proc[p] EXCEPT !.at = a, !.seen = s])
<1>1. proc[p] \in Process
  BY DEF ProcsOK
<1>. QED BY <1>1 DEF WentOn, Process, Cmd, Job

Fits(p, a, s) ==
  \A r : WentOn(p, a, s, r) =>
    /\ ProcOK(r)
    /\ HoldsSlot(proc[p]) => HoldsSlot(r)
    /\ HoldsLease(proc[p]) => HoldsLease(r)

(* A step of p that keeps the halves of the lease. *)
LEMMA KeepKeeps ==
  ASSUME IInv, NEW p \in Procs, NEW a \in Places, NEW s \in Known, ~IsFree(p), Keep(p, a, s),
         Fits(p, a, s), UNCHANGED <<lease, slot, gate>>
  PROVE  ProcsOK' /\ LeasesOK' /\ GateOK'
<1>. DEFINE r == [proc[p] EXCEPT !.at = a, !.seen = s]
<1>1. WentOn(p, a, s, r)
  BY WentWith, Zenon DEF IInv
<1>2. proc' = [proc EXCEPT ![p] = r]
  BY DEF Keep, IInv, ProcsOK
<1>. HIDE DEF r
<1>3. ProcsOK' /\ LeasesOK'
  BY <1>1, <1>2, HoldStep DEF IInv, Fits, WentOn
<1>. QED BY <1>3, GateStep DEF IInv

LEMMA GotoKeeps ==
  ASSUME IInv, NEW p \in Procs, NEW a \in Places, ~IsFree(p), Goto(p, a),
         Fits(p, a, Seen(p)), UNCHANGED <<lease, slot, gate>>
  PROVE  ProcsOK' /\ LeasesOK' /\ GateOK'
<1>. DEFINE r == [proc[p] EXCEPT !.at = a]
<1>1. WentOn(p, a, Seen(p), r)
  BY WentTo, Zenon DEF IInv
<1>2. proc' = [proc EXCEPT ![p] = r]
  BY DEF Goto, IInv, ProcsOK
<1>. HIDE DEF r
<1>3. ProcsOK' /\ LeasesOK'
  BY <1>1, <1>2, HoldStep DEF IInv, Fits, WentOn
<1>. QED BY <1>3, GateStep DEF IInv

(* A process without a share of the lease ends. *)
LEMMA EndKeeps ==
  ASSUME IInv, NEW p \in Procs, ~IsFree(p), End(p), ~HoldsSlot(proc[p]),
         UNCHANGED <<lease, slot, gate>>
  PROVE  ProcsOK' /\ LeasesOK' /\ GateOK'
<1>1. ~HoldsLease(proc[p])
  BY DEF HoldsSlot
<1>2. ProcsOK' /\ LeasesOK'
  BY <1>1, FreeOK, HoldStep DEF IInv, End
<1>3. GateOK'
  BY GateStep DEF IInv
<1>. QED BY <1>2, <1>3

LEMMA JobsKept ==
  ASSUME JobsOK, UNCHANGED <<begun, memory>>, status' \in [Jobs -> Known]
  PROVE  JobsOK'
BY DEF JobsOK, memory

LEMMA ScanOverKeeps ==
  ASSUME JobsOK, NEW p \in Procs, ScanOver(p), UNCHANGED <<begun, flags, scanPause>>,
         status' \in [Jobs -> Known]
  PROVE  JobsOK'
BY DEF JobsOK, ScanOver

--------------------------------------------------------------------------------
(* The commands. *)

LEMMA BeginKeeps ==
  ASSUME IInv, NEW c \in Clients, NEW cmd, NEW first, NEW j \in Jobs, NEW canary \in BOOLEAN,
         Begin(c, cmd, first, j, canary), Untouched, status' \in [Jobs -> Known],
         first \in {"slot", "signal", "scanslot", "scanload", "scansignal"},
         first = "slot" => \/ cmd = "start" /\ status[j] \in {"READY_FOR_REVIEW",
                                                             "RUNNING_CANARY", "QUEUED"}
                           \/ cmd = "continue" /\ status[j] \in {"CANARY_REVIEW", "RUNNING",
                                                                "QUEUED"}
                           \/ cmd = "resume" /\ status[j] \in TransferResumable,
         first = "signal" => cmd \in {"pause", "cancel"}
  PROVE  IInv'
<1>. DEFINE r == Begun(first, cmd, j, status[j], canary)
<1>1. r = [at |-> first, cmd |-> cmd, job |-> j, seen |-> status[j], canary |-> canary,
           heard |-> {}, kept |-> {}]
  BY DEF Begun
<1>2. status[j] \in Known /\ cmd \in Names \ {"none"} /\ first \in Places /\ c \in Procs
  BY ControlAssumption DEF Begin, IInv, JobsOK, Names, Places, Procs
<1>3. r \in Process
  BY <1>1, <1>2 DEF Process
<1>4. ProcOK(r)
  BY <1>1, <1>3 DEF ProcOK, Startable
<1>5. proc' = [proc EXCEPT ![c] = r]
  BY DEF Begin
<1>6. ~HoldsSlot(proc[c]) /\ ~HoldsLease(proc[c])
  BY <1>2 DEF Begin, IsFree, HoldsSlot, HoldsLease
<1>. HIDE DEF r
<1>7. ProcsOK' /\ LeasesOK'
  BY <1>2, <1>4, <1>5, <1>6, HoldStep DEF IInv, Untouched
<1>8. JobsOK'
  BY JobsKept DEF IInv, Untouched
<1>9. GateOK'
  BY DEF IInv, GateOK, Begin, Untouched
<1>. QED BY <1>7, <1>8, <1>9 DEF IInv

LEMMA CommandKeeps ==
  ASSUME IInv, NEW c \in Clients, NEW j \in Jobs, Command(c, j)
  PROVE  IInv'
<1>0. status \in [Jobs -> Known] /\ "SCANNING" \in Known
  BY DEF IInv, JobsOK, Known, Statuses
<1>1. CASE StartCanaryCommand(c, j)
  BY <1>0, <1>1, BeginKeeps DEF StartCanaryCommand
<1>2. CASE ContinueMigration(c, j)
  BY <1>0, <1>2, BeginKeeps DEF ContinueMigration
<1>3. CASE ResumeMigration(c, j)
  BY <1>0, <1>3, BeginKeeps DEF ResumeMigration
<1>4. CASE PauseMigration(c, j)
  BY <1>0, <1>4, BeginKeeps DEF PauseMigration
<1>5. CASE CancelMigration(c, j)
  BY <1>0, <1>5, BeginKeeps DEF CancelMigration
<1>6. CASE StartScan(c, j)
  BY <1>0, <1>6, BeginKeeps DEF StartScan
<1>7. CASE StartTransferOperation(c, j)
  BY <1>0, <1>7, BeginKeeps DEF StartTransferOperation
<1>8. CASE PauseScan(c, j)
  BY <1>0, <1>8, BeginKeeps DEF PauseScan
<1>. QED BY <1>1, <1>2, <1>3, <1>4, <1>5, <1>6, <1>7, <1>8 DEF Command

--------------------------------------------------------------------------------
(* The lease is taken, or the job is put into the queue. *)

LEMMA AcquireSlotKeeps ==
  ASSUME IInv, NEW p \in Procs, AcquireSlot(p)
  PROVE  IInv'
<1>. USE DEF At
<1>1. /\ ~IsFree(p) /\ UNCHANGED gate /\ Startable(proc[p]) /\ Job(p) \in Jobs
      /\ ~HoldsSlot(proc[p]) /\ ~HoldsLease(proc[p])
  BY DEF AcquireSlot, IsFree, IInv, ProcsOK, ProcOK, HoldsSlot, HoldsLease, Job
<1>2. JobsOK' /\ GateOK'
  BY <1>1, JobsKept, GateStep DEF AcquireSlot, IInv, JobsOK
<1>3. CASE slot = NoJob
  <2>. DEFINE r == [proc[p] EXCEPT !.at = "lease"]
  <2>1. ProcOK(r) /\ r.job = Job(p) /\ HoldsSlot(r)
    <3>0. "lease" \in Places
      BY DEF Places
    <3>1. r \in Process /\ r.at = "lease" /\ r.cmd = Cmd(p) /\ r.job = Job(p) /\ r.seen = Seen(p)
      BY <3>0, WentTo DEF IInv, WentOn
    <3>. HIDE DEF r
    <3>. QED BY <1>1, <3>1 DEF ProcOK, Startable, HoldsSlot, Cmd, Seen
  <2>2. proc' = [proc EXCEPT ![p] = r]
    BY <1>3 DEF AcquireSlot, Goto, IInv, ProcsOK
  <2>. HIDE DEF r
  <2>3. ProcsOK' /\ \A q \in Procs : proc'[q] = IF q = p THEN r ELSE proc[q]
    BY <2>1, <2>2, ProcStep DEF IInv
  <2>4. slot' = Job(p) /\ lease' = lease
    BY <1>3 DEF AcquireSlot
  <2>5. LeasesOK'
    BY <1>1, <2>1, <2>3, <2>4 DEF IInv, LeasesOK, Job
  <2>. QED BY <1>2, <2>3, <2>5 DEF IInv
<1>4. CASE slot # NoJob
  <2>1. "queue" \in Places /\ Goto(p, "queue") /\ UNCHANGED <<lease, slot, gate>>
    BY <1>4 DEF Places, AcquireSlot
  <2>2. Fits(p, "queue", Seen(p))
    BY <1>1 DEF Fits, WentOn, ProcOK
  <2>3. ProcsOK' /\ LeasesOK'
    BY <1>1, <2>1, <2>2, GotoKeeps
  <2>. QED BY <1>2, <2>3 DEF IInv
<1>. QED BY <1>3, <1>4

LEMMA AcquireLeaseKeeps ==
  ASSUME IInv, NEW p \in Procs, AcquireLease(p)
  PROVE  IInv'
<1>. USE DEF At
<1>1. /\ ~IsFree(p) /\ UNCHANGED gate /\ Startable(proc[p]) /\ Job(p) \in Jobs
      /\ ~HoldsLease(proc[p])
  BY DEF AcquireLease, IsFree, IInv, ProcsOK, ProcOK, HoldsLease, Job
<1>2. JobsOK' /\ GateOK'
  BY <1>1, JobsKept, GateStep DEF AcquireLease, IInv, JobsOK
<1>3. CASE lease = NoJob
  <2>. DEFINE a == IF Cmd(p) = "resume" THEN "reconcile" ELSE "prepare"
              r == [proc[p] EXCEPT !.at = a]
  <2>1. ProcOK(r) /\ r.job = Job(p) /\ HoldsLease(r) /\ HoldsSlot(r)
    <3>0. a \in Places
      BY DEF Places
    <3>1. r \in Process /\ r.at = a /\ r.cmd = Cmd(p) /\ r.job = Job(p) /\ r.seen = Seen(p)
      BY <3>0, WentTo DEF IInv, WentOn
    <3>. HIDE DEF r
    <3>. QED BY <1>1, <3>1 DEF ProcOK, Startable, HoldsLease, HoldsSlot, Cmd, Seen
  <2>2. proc' = [proc EXCEPT ![p] = r]
    BY <1>3 DEF AcquireLease, Goto, IInv, ProcsOK
  <2>. HIDE DEF r
  <2>3. ProcsOK' /\ \A q \in Procs : proc'[q] = IF q = p THEN r ELSE proc[q]
    BY <2>1, <2>2, ProcStep DEF IInv
  <2>4. lease' = Job(p) /\ slot' = slot
    BY <1>3 DEF AcquireLease
  <2>5. LeasesOK'
    BY <1>1, <2>1, <2>3, <2>4 DEF IInv, LeasesOK, Job
  <2>. QED BY <1>2, <2>3, <2>5 DEF IInv
<1>4. CASE lease # NoJob
  <2>. DEFINE r == [proc[p] EXCEPT !.at = "queue"]
  <2>1. ProcOK(r) /\ r.job = Job(p)
    <3>0. "queue" \in Places
      BY DEF Places
    <3>1. r \in Process /\ r.at = "queue" /\ r.job = Job(p)
      BY <3>0, WentTo DEF IInv, WentOn
    <3>. QED BY <1>1, <3>1 DEF ProcOK
  <2>2. proc' = [proc EXCEPT ![p] = r]
    BY <1>4 DEF AcquireLease, Goto, IInv, ProcsOK
  <2>. HIDE DEF r
  <2>3. ProcsOK' /\ \A q \in Procs : proc'[q] = IF q = p THEN r ELSE proc[q]
    BY <2>1, <2>2, ProcStep DEF IInv
  <2>4. lease' = lease /\ slot' = IF slot = Job(p) THEN NoJob ELSE slot
    BY <1>4 DEF AcquireLease
  <2>5. LeasesOK'
    BY <1>1, <2>1, <2>3, <2>4 DEF IInv, LeasesOK, Job
  <2>. QED BY <1>2, <2>3, <2>5 DEF IInv
<1>. QED BY <1>3, <1>4

LEMMA QueueKeeps ==
  ASSUME IInv, NEW p \in Procs, QueueOrBusy(p) \/ JoinQueue(p)
  PROVE  IInv'
<1>. USE DEF At
<1>1. /\ ~IsFree(p) /\ UNCHANGED <<lease, slot, gate>> /\ Job(p) \in Jobs
      /\ ~HoldsSlot(proc[p]) /\ ~HoldsLease(proc[p]) /\ Seen(p) \in Known
      /\ status \in [Jobs -> Known]
  BY DEF QueueOrBusy, JoinQueue, IsFree, IInv, ProcsOK, ProcOK, Process, HoldsSlot, HoldsLease,
         Job, Seen, JobsOK
<1>2. CASE QueueOrBusy(p)
  <2>1. CASE End(p) /\ ScanOver(p)
    BY <1>1, <1>2, <2>1, EndKeeps, ScanOverKeeps DEF QueueOrBusy, IInv
  <2>2. CASE /\ Keep(p, "enqueue", status[Job(p)]) /\ UNCHANGED scanning
             /\ Enqueue(status[Job(p)]) # Illegal
    <3>1. status[Job(p)] \in Known /\ "enqueue" \in Places
      BY <1>1 DEF Places
    <3>3. Fits(p, "enqueue", status[Job(p)])
      BY <1>1, <2>2 DEF Fits, WentOn, ProcOK
    <3>4. ProcsOK' /\ LeasesOK' /\ GateOK'
      BY <1>1, <2>2, <3>1, <3>3, KeepKeeps
    <3>5. JobsOK'
      BY <1>1, <1>2, <2>2, JobsKept DEF QueueOrBusy, IInv, memory
    <3>. QED BY <3>4, <3>5 DEF IInv
  <2>. QED BY <1>2, <2>1, <2>2 DEF QueueOrBusy
<1>3. CASE JoinQueue(p)
  <2>1. Enqueue(Seen(p)) = "QUEUED"
    BY <1>1, <1>3, Moves DEF JoinQueue, IInv, ProcsOK, ProcOK, Seen
  <2>2. "QUEUED" \in Known
    BY DEF Known, Statuses, TransferResumable
  <2>3. status' \in [Jobs -> Known]
    BY <1>1, <1>3, <2>1, <2>2, WriteKnown DEF JoinQueue, IInv
  <2>. QED BY <1>1, <1>3, <2>3, EndKeeps, ScanOverKeeps DEF JoinQueue, IInv
<1>. QED BY <1>2, <1>3

LEMMA UnderWay ==
  ASSUME IInv, NEW p \in Procs, proc[p].at # "free"
  PROVE  /\ ~IsFree(p) /\ ProcOK(proc[p]) /\ Job(p) \in Jobs /\ Seen(p) \in Known
         /\ status \in [Jobs -> Known] /\ status[Job(p)] \in Known
BY DEF IInv, ProcsOK, ProcOK, Process, JobsOK, IsFree, Job, Seen

(* A process ends, and a task goes on with its share of the lease. *)
LEMMA SpawnKeeps ==
  ASSUME IInv, NEW p \in Procs, NEW t \in Tasks, ~IsFree(p), IsFree(t), NEW r, ProcOK(r),
         r.job = Job(p), HoldsSlot(proc[p]) => HoldsSlot(r), HoldsLease(proc[p]) => HoldsLease(r),
         proc' = [proc EXCEPT ![p] = Free, ![t] = r], UNCHANGED <<lease, slot, gate>>
  PROVE  ProcsOK' /\ LeasesOK' /\ GateOK'
<1>1. t \in Procs /\ t # p /\ r \in Process /\ Free \in Process
  BY FreeOK DEF Procs, ProcOK
<1>2. proc' \in [Procs -> Process]
  BY <1>1 DEF IInv, ProcsOK
<1>3. \A q \in Procs : proc'[q] = IF q = t THEN r ELSE IF q = p THEN Free ELSE proc[q]
  BY <1>1 DEF IInv, ProcsOK
<1>4. ProcsOK'
  BY <1>1, <1>2, <1>3, FreeOK DEF IInv, ProcsOK
<1>5. ~HoldsSlot(proc[t]) /\ ~HoldsLease(proc[t])
  BY DEF IsFree, HoldsSlot, HoldsLease
<1>6. LeasesOK'
  BY <1>1, <1>3, <1>5 DEF IInv, LeasesOK, Job
<1>. QED BY <1>4, <1>6, GateStep DEF IInv

LEMMA ReconcileKeeps ==
  ASSUME IInv, NEW p \in Procs, ReconcileForResume(p) \/ AuthHalt(p) \/ SpawnFails(p)
  PROVE  IInv'
<1>1. ~IsFree(p) /\ ProcOK(proc[p]) /\ Job(p) \in Jobs /\ Seen(p) \in Known
      /\ status \in [Jobs -> Known] /\ UNCHANGED <<begun, lease, slot, memory, gate>>
  BY UnderWay DEF ReconcileForResume, AuthHalt, SpawnFails, At
<1>2. \A a \in {"prepare", "release", "auth"} : a \in Places
  BY DEF Places
<1>3. CASE ReconcileForResume(p)
  <2>1. PICK a \in {"prepare", "release", "auth"} : Goto(p, a)
    BY <1>3 DEF ReconcileForResume
  <2>2. Fits(p, a, Seen(p))
    BY <1>1, <1>3 DEF ReconcileForResume, At, Fits, WentOn, ProcOK, Startable, HoldsSlot,
                      HoldsLease, Cmd, Seen
  <2>3. ProcsOK' /\ LeasesOK' /\ GateOK'
    BY <1>1, <1>2, <2>1, <2>2, GotoKeeps
  <2>. QED BY <1>1, <1>3, <2>3, JobsKept DEF ReconcileForResume, IInv
<1>4. CASE AuthHalt(p)
  <2>1. Fits(p, "release", Seen(p))
    BY <1>1 DEF Fits, WentOn, ProcOK, HoldsSlot, HoldsLease
  <2>2. ProcsOK' /\ LeasesOK' /\ GateOK'
    BY <1>1, <1>2, <1>4, <2>1, GotoKeeps DEF AuthHalt
  <2>3. RequireAuth(Seen(p)) \in Known
    BY <1>1, <1>4 DEF AuthHalt, At, ProcOK, Seen, RequireAuth, Move, Known, Statuses,
                      TransferResumable
  <2>4. status' \in [Jobs -> Known]
    BY <1>1, <1>4, <2>3, WriteKnown DEF AuthHalt, IInv
  <2>. QED BY <1>1, <2>2, <2>4, JobsKept DEF IInv
<1>5. CASE SpawnFails(p)
  <2>1. Fits(p, "release", Seen(p))
    BY <1>1 DEF Fits, WentOn, ProcOK, HoldsSlot, HoldsLease
  <2>2. ProcsOK' /\ LeasesOK' /\ GateOK'
    BY <1>1, <1>2, <1>5, <2>1, GotoKeeps DEF SpawnFails
  <2>. QED BY <1>1, <1>5, <2>2, JobsKept DEF SpawnFails, IInv
<1>. QED BY <1>3, <1>4, <1>5

LEMMA SpawnWorkerKeeps ==
  ASSUME IInv, NEW p \in Procs, SpawnWorker(p)
  PROVE  IInv'
<1>1. ~IsFree(p) /\ ProcOK(proc[p]) /\ Job(p) \in Jobs /\ At(p, "prepare")
  BY UnderWay DEF SpawnWorker, At
<1>2. Prepared(p) \in {"RUNNING", "RUNNING_CANARY"}
  BY <1>1, PreparedRuns DEF ProcOK, Process, At
<1>3. Prepared(p) \in Known
  BY <1>2 DEF Known, Statuses, UnfinishedMutation
<1>. DEFINE cmd == IF Cmd(p) = "auto" THEN "autoworker" ELSE "worker"
            r   == Begun("launch", cmd, Job(p), Prepared(p), FALSE)
<1>4. PICK t \in Tasks : IsFree(t) /\ proc' = [proc EXCEPT ![p] = Free, ![t] = r]
  BY DEF SpawnWorker
<1>5. r \in Process /\ r.at = "launch" /\ r.cmd \in WorkerCmds /\ r.job = Job(p)
      /\ r.seen = Prepared(p)
  BY <1>1, <1>3 DEF Begun, Process, Places, Names, Kinds, WorkerCmds
<1>6. ProcOK(r) /\ HoldsSlot(r) /\ HoldsLease(r)
  BY <1>1, <1>2, <1>5 DEF ProcOK, HoldsSlot, HoldsLease
<1>. HIDE DEF r
<1>7. ProcsOK' /\ LeasesOK' /\ GateOK'
  BY <1>1, <1>4, <1>5, <1>6, SpawnKeeps DEF SpawnWorker
<1>8. JobsOK'
  BY <1>1, <1>3, WriteKnown, ScanOverKeeps DEF SpawnWorker, IInv
<1>. QED BY <1>7, <1>8 DEF IInv

LEMMA AcquireKeeps ==
  ASSUME IInv, NEW p \in Procs, Acquire(p)
  PROVE  IInv'
BY AcquireSlotKeeps, AcquireLeaseKeeps, QueueKeeps, ReconcileKeeps, SpawnWorkerKeeps DEF Acquire

--------------------------------------------------------------------------------
(* The lease is given back. *)

LEMMA ReleaseLeaseKeeps ==
  ASSUME IInv, NEW p \in Procs, ReleaseLease(p)
  PROVE  IInv'
<1>1. ~IsFree(p) /\ ProcOK(proc[p]) /\ Job(p) \in Jobs /\ proc[p].at = "release"
  BY UnderWay DEF ReleaseLease, At
<1>. DEFINE a == IF Cmd(p) \in WorkerCmds THEN "flags" ELSE "drop"
            r == [proc[p] EXCEPT !.at = a]
<1>2. WentOn(p, a, Seen(p), r)
  <2>1. a \in Places
    BY DEF Places
  <2>. QED BY <2>1, WentTo DEF IInv
<1>3. ProcOK(r) /\ r.job = Job(p) /\ HoldsSlot(r)
  BY <1>1, <1>2 DEF WentOn, ProcOK, HoldsSlot, WorkerCmds
<1>4. proc' = [proc EXCEPT ![p] = r] /\ slot' = slot
      /\ lease' = IF lease = Job(p) THEN NoJob ELSE lease
  BY DEF ReleaseLease, Goto, IInv, ProcsOK
<1>. HIDE DEF r
<1>5. ProcsOK' /\ \A q \in Procs : proc'[q] = IF q = p THEN r ELSE proc[q]
  BY <1>3, <1>4, ProcStep DEF IInv
<1>6. LeasesOK'
  BY <1>1, <1>3, <1>4, <1>5 DEF IInv, LeasesOK, Job
<1>7. JobsOK' /\ GateOK'
  BY <1>1, JobsKept, GateStep DEF ReleaseLease, IInv, JobsOK
<1>. QED BY <1>5, <1>6, <1>7 DEF IInv

LEMMA DropSlotKeeps ==
  ASSUME IInv, NEW p \in Procs, DropSlot(p)
  PROVE  IInv'
<1>1. ~IsFree(p) /\ ProcOK(proc[p]) /\ Job(p) \in Jobs /\ proc[p].at = "drop"
  BY UnderWay DEF DropSlot, At
<1>2. PICK r : /\ proc' = [proc EXCEPT ![p] = r] /\ ProcOK(r)
               /\ ~HoldsLease(r) /\ ~HoldsSlot(r)
  <2>1. CASE Cmd(p) = "pause"
    <3>1. "flags" \in Places
      BY DEF Places
    <3>2. WentOn(p, "flags", Seen(p), [proc[p] EXCEPT !.at = "flags"])
      BY <3>1, WentTo DEF IInv
    <3>3. /\ ProcOK([proc[p] EXCEPT !.at = "flags"])
          /\ ~HoldsSlot([proc[p] EXCEPT !.at = "flags"])
          /\ ~HoldsLease([proc[p] EXCEPT !.at = "flags"])
      BY <1>1, <2>1, <3>2 DEF WentOn, ProcOK, HoldsSlot, HoldsLease
    <3>4. proc' = [proc EXCEPT ![p] = [proc[p] EXCEPT !.at = "flags"]]
      BY <2>1 DEF DropSlot, Goto, IInv, ProcsOK
    <3>. QED BY <3>3, <3>4
  <2>2. CASE Cmd(p) # "pause"
    BY <2>2, FreeOK DEF DropSlot, End
  <2>. QED BY <2>1, <2>2
<1>3. ProcsOK' /\ \A q \in Procs : proc'[q] = IF q = p THEN r ELSE proc[q]
  BY <1>2, ProcStep DEF IInv
<1>4. lease' = lease /\ slot' = IF slot = Job(p) THEN NoJob ELSE slot
  BY DEF DropSlot
<1>5. LeasesOK'
  <2>1. ~HoldsLease(proc[p])
    BY <1>1 DEF HoldsLease
  <2>. QED BY <1>1, <1>2, <1>3, <1>4, <2>1 DEF IInv, LeasesOK, Job
<1>6. JobsOK' /\ GateOK'
  BY <1>1, ScanOverKeeps, GateStep DEF DropSlot, IInv, JobsOK
<1>. QED BY <1>3, <1>5, <1>6 DEF IInv

LEMMA RemoveFlagsKeeps ==
  ASSUME IInv, NEW p \in Procs, RemoveFlags(p)
  PROVE  IInv'
<1>1. ~IsFree(p) /\ ProcOK(proc[p]) /\ Job(p) \in Jobs /\ proc[p].at = "flags"
  BY UnderWay DEF RemoveFlags, At
<1>. DEFINE gone == IF Cmd(p) = "pause" THEN {"pause"} ELSE Kinds
            deaf(q) == [proc[q] EXCEPT !.heard = @ \ gone,
                          !.kept = @ \cup (flags[Job(p)] \cap gone \cap proc[q].heard)]
            deafened == [q \in Procs |-> IF q \in Workers /\ Job(q) = Job(p)
                                         THEN deaf(q) ELSE proc[q]]
<1>2. flags \in [Jobs -> SUBSET Kinds] /\ gone \subseteq Kinds
  BY DEF IInv, JobsOK, Kinds
<1>3. \A q \in Procs : /\ ProcOK(proc[q]) /\ proc[q] \in Process
  BY DEF IInv, ProcsOK
<1>4. \A q \in Procs : /\ deaf(q) \in Process /\ deaf(q).at = proc[q].at
                       /\ deaf(q).cmd = proc[q].cmd /\ deaf(q).job = proc[q].job
                       /\ deaf(q).seen = proc[q].seen
  BY <1>1, <1>2, <1>3 DEF Process
<1>5. \A q \in Procs : q \in Workers => proc[q].at # "free"
  BY <1>3 DEF Workers, ProcOK, Free, Begun, Cmd, WorkerCmds
<1>. HIDE DEF deaf, gone
<1>6. \A q \in Procs : /\ ProcOK(deafened[q]) /\ deafened[q] \in Process
                       /\ deafened[q].at = proc[q].at /\ deafened[q].cmd = proc[q].cmd
                       /\ deafened[q].job = proc[q].job /\ deafened[q].seen = proc[q].seen
  BY <1>3, <1>4, <1>5 DEF ProcOK, Startable
<1>7. PICK r : /\ proc' = [deafened EXCEPT ![p] = r] /\ ProcOK(r) /\ ~HoldsLease(r)
               /\ r.job = Job(p) \/ Cmd(p) = "pause"
               /\ HoldsSlot(r) \/ Cmd(p) = "pause"
  <2>1. CASE Cmd(p) = "pause"
    BY <2>1, FreeOK DEF RemoveFlags, gone, deaf
  <2>2. CASE Cmd(p) # "pause"
    <3>. DEFINE r == [deafened[p] EXCEPT !.at = "drop"]
    <3>1. proc' = [deafened EXCEPT ![p] = r]
      <4>1. proc' = [deafened EXCEPT ![p].at = "drop"]
        BY <2>2 DEF RemoveFlags, gone, deaf
      <4>. QED BY <4>1
    <3>. HIDE DEF deafened
    <3>2. r \in Process /\ r.at = "drop" /\ r.job = Job(p)
      BY <1>6 DEF Process, Places, Job
    <3>3. ProcOK(r) /\ ~HoldsLease(r) /\ HoldsSlot(r)
      BY <1>1, <3>2 DEF ProcOK, HoldsLease, HoldsSlot
    <3>. QED BY <3>1, <3>2, <3>3
  <2>. QED BY <2>1, <2>2
<1>8. proc' \in [Procs -> Process]
  BY <1>6, <1>7 DEF ProcOK
<1>9. \A q \in Procs : proc'[q] = IF q = p THEN r ELSE deafened[q]
  BY <1>7
<1>. HIDE DEF deafened
<1>10. ProcsOK'
  BY <1>6, <1>7, <1>8, <1>9 DEF ProcsOK
<1>11. ~HoldsLease(proc[p]) /\ (HoldsSlot(proc[p]) <=> Cmd(p) # "pause")
  BY <1>1 DEF HoldsLease, HoldsSlot, Cmd
<1>12. \A q \in Procs : q # p => /\ HoldsLease(proc[q]) => HoldsLease(proc'[q])
                                 /\ HoldsSlot(proc[q]) => HoldsSlot(proc'[q])
                                 /\ proc'[q].job = Job(q)
  BY <1>6, <1>9 DEF HoldsLease, HoldsSlot, Job
<1>13. LeasesOK'
  BY <1>1, <1>7, <1>9, <1>11, <1>12 DEF RemoveFlags, IInv, LeasesOK, Job
<1>14. JobsOK'
  <2>1. flags' = [flags EXCEPT ![Job(p)] = @ \ gone]
    BY DEF RemoveFlags, gone
  <2>. QED BY <1>2, <2>1 DEF RemoveFlags, IInv, JobsOK
<1>15. GateOK'
  BY <1>1, GateStep DEF RemoveFlags, IInv
<1>. QED BY <1>10, <1>13, <1>14, <1>15 DEF IInv

LEMMA GiveBackKeeps ==
  ASSUME IInv, NEW p \in Procs, GiveBack(p)
  PROVE  IInv'
BY ReleaseLeaseKeeps, DropSlotKeeps, RemoveFlagsKeeps DEF GiveBack

--------------------------------------------------------------------------------
(* A pause or a cancellation. *)

LEMMA HaltKeeps ==
  ASSUME IInv, NEW p \in Procs, Halt(p)
  PROVE  IInv'
<1>1. ~IsFree(p) /\ ProcOK(proc[p]) /\ Job(p) \in Jobs /\ Seen(p) \in Known
      /\ status \in [Jobs -> Known] /\ UNCHANGED <<lease, slot, gate>>
      /\ proc[p].at \in {"signal", "cancelsignal", "inflight", "settle"}
      /\ Cmd(p) \in {"pause", "cancel"}
  BY UnderWay DEF Halt, SetFlag, SetCancelFlag, TransferIsInFlight, SettleStop, At, ProcOK, Cmd
<1>2. \A a \in {"cancelsignal", "inflight", "settle", "release"} : a \in Places
  BY DEF Places
<1>3. ~HoldsSlot(proc[p]) /\ ~HoldsLease(proc[p])
  BY <1>1 DEF HoldsSlot, HoldsLease
<1>4. \A a \in {"cancelsignal", "inflight", "settle", "release"} : Fits(p, a, Seen(p))
  BY <1>1, <1>3 DEF Fits, WentOn, ProcOK
<1>5. \A a \in {"cancelsignal", "inflight", "settle", "release"} :
        Goto(p, a) => ProcsOK' /\ LeasesOK' /\ GateOK'
  BY <1>1, <1>2, <1>4, GotoKeeps
<1>6. End(p) => ProcsOK' /\ LeasesOK' /\ GateOK'
  BY <1>1, <1>3, EndKeeps
<1>7. CASE SetFlag(p) \/ SetCancelFlag(p)
  <2>1. flags' \in [Jobs -> SUBSET Kinds] /\ UNCHANGED <<status, begun, scanning, scanPause>>
    BY <1>7 DEF SetFlag, SetCancelFlag, IInv, JobsOK, Kinds
  <2>2. JobsOK'
    BY <2>1 DEF IInv, JobsOK
  <2>. QED BY <1>5, <1>7, <2>2 DEF SetFlag, SetCancelFlag, IInv
<1>8. CASE TransferIsInFlight(p)
  <2>1. JobsOK'
    BY <1>1, <1>8, JobsKept DEF TransferIsInFlight, IInv
  <2>. QED BY <1>5, <1>6, <1>8, <2>1 DEF TransferIsInFlight, IInv
<1>9. CASE SettleStop(p)
  <2>. DEFINE new == IF Cmd(p) = "pause" THEN PauseTransfer(Seen(p)) ELSE CancelJob(Seen(p))
  <2>1. new \in {"PAUSED", "CANCELLED", Illegal}
    BY <1>1, Moves
  <2>2. "PAUSED" \in Known /\ "CANCELLED" \in Known
    BY DEF Known, Statuses, TransferResumable, TerminalStatus
  <2>3. status' \in [Jobs -> Known]
    BY <1>1, <1>9, <2>1, <2>2, WriteKnown DEF SettleStop, IInv
  <2>4. begun' \in [Jobs -> BOOLEAN]
    BY <1>1, <1>9 DEF SettleStop, IInv, JobsOK
  <2>5. JobsOK'
    BY <1>9, <2>3, <2>4 DEF SettleStop, IInv, JobsOK, memory
  <2>. QED BY <1>5, <1>6, <1>9, <2>5 DEF SettleStop, IInv
<1>. QED BY <1>7, <1>8, <1>9 DEF Halt

--------------------------------------------------------------------------------
(* The worker. *)

LEMMA WorkKeeps ==
  ASSUME IInv, NEW p \in Procs, Work(p)
  PROVE  IInv'
<1>1. ~IsFree(p) /\ ProcOK(proc[p]) /\ Job(p) \in Jobs /\ Seen(p) \in Known
      /\ status \in [Jobs -> Known] /\ UNCHANGED <<lease, slot, gate>>
      /\ proc[p].at \in {"launch", "listen", "run", "ended"} /\ Cmd(p) \in WorkerCmds
  BY UnderWay DEF Work, ClearFlags, TakeFlags, WorkerStops, WorkerEnds, WorkerContinues,
                  PersistOutcome, At, ProcOK, Cmd
<1>2. proc[p].at # "ended" => Seen(p) \in {"RUNNING_CANARY", "RUNNING"}
  BY <1>1 DEF ProcOK, Seen
<1>3. HoldsSlot(proc[p]) /\ HoldsLease(proc[p])
  BY <1>1 DEF HoldsSlot, HoldsLease
<1>4. \A a \in {"listen", "run", "ended", "release"} : a \in Places
  BY DEF Places
<1>5. CASE ClearFlags(p)
  <2>1. Fits(p, "listen", Seen(p))
    BY <1>1, <1>2, <1>5 DEF ClearFlags, At, Fits, WentOn, ProcOK, HoldsSlot, HoldsLease
  <2>2. ProcsOK' /\ LeasesOK' /\ GateOK'
    BY <1>1, <1>4, <1>5, <2>1, GotoKeeps DEF ClearFlags
  <2>3. flags' \in [Jobs -> SUBSET Kinds]
    BY <1>1, <1>5 DEF ClearFlags, IInv, JobsOK
  <2>. QED BY <1>5, <2>2, <2>3 DEF ClearFlags, IInv, JobsOK
<1>6. CASE TakeFlags(p)
  <2>. DEFINE r == [proc[p] EXCEPT !.at = "run", !.heard = Kinds]
  <2>1. r \in Process /\ r.at = "run" /\ r.cmd = Cmd(p) /\ r.job = Job(p) /\ r.seen = Seen(p)
    BY <1>1, <1>4 DEF ProcOK, Process, Cmd, Job, Seen
  <2>2. ProcOK(r) /\ HoldsSlot(r) /\ HoldsLease(r)
    BY <1>1, <1>2, <1>6, <2>1 DEF TakeFlags, At, ProcOK, HoldsSlot, HoldsLease
  <2>3. proc' = [proc EXCEPT ![p] = r]
    BY <1>6 DEF TakeFlags, IInv, ProcsOK
  <2>. HIDE DEF r
  <2>4. ProcsOK' /\ LeasesOK'
    BY <1>1, <2>1, <2>2, <2>3, HoldStep DEF IInv
  <2>5. begun' \in [Jobs -> BOOLEAN] /\ UNCHANGED <<status, memory>>
    BY <1>1, <1>6 DEF TakeFlags, IInv, JobsOK
  <2>6. JobsOK'
    BY <2>5 DEF IInv, JobsOK, memory
  <2>. QED BY <1>1, <2>4, <2>6, GateStep DEF IInv
<1>7. CASE WorkerStops(p) \/ WorkerEnds(p)
  <2>1. PICK s \in Statuses : Keep(p, "ended", s)
    BY <1>2, <1>7, WorkedKnown DEF WorkerStops, WorkerEnds, At
  <2>2. Fits(p, "ended", s) /\ s \in Known
    BY <1>1, <2>1 DEF Fits, WentOn, ProcOK, HoldsSlot, HoldsLease, Known
  <2>3. ProcsOK' /\ LeasesOK' /\ GateOK'
    BY <1>1, <1>4, <2>1, <2>2, KeepKeeps
  <2>. QED BY <1>1, <1>7, <2>3, JobsKept DEF WorkerStops, WorkerEnds, IInv
<1>8. CASE WorkerContinues(p)
  <2>1. "RUNNING" \in Known
    BY DEF Known, Statuses, UnfinishedMutation
  <2>2. Fits(p, "run", "RUNNING")
    BY <1>1 DEF Fits, WentOn, ProcOK, HoldsSlot, HoldsLease
  <2>3. ProcsOK' /\ LeasesOK' /\ GateOK'
    BY <1>1, <1>4, <1>8, <2>1, <2>2, KeepKeeps DEF WorkerContinues
  <2>4. status' \in [Jobs -> Known]
    BY <1>1, <1>8, <2>1, WriteKnown DEF WorkerContinues, IInv
  <2>. QED BY <1>8, <2>3, <2>4, JobsKept DEF WorkerContinues, IInv
<1>9. CASE PersistOutcome(p)
  <2>1. Fits(p, "release", Seen(p))
    BY <1>1 DEF Fits, WentOn, ProcOK, HoldsSlot, HoldsLease
  <2>2. ProcsOK' /\ LeasesOK' /\ GateOK'
    BY <1>1, <1>4, <1>9, <2>1, GotoKeeps DEF PersistOutcome
  <2>3. status' \in [Jobs -> Known]
    BY <1>1, <1>9, WriteKnown DEF PersistOutcome, IInv
  <2>. QED BY <1>9, <2>2, <2>3, JobsKept DEF PersistOutcome, IInv
<1>. QED BY <1>5, <1>6, <1>7, <1>8, <1>9 DEF Work

--------------------------------------------------------------------------------
(* The scans. *)

ScanPlaces == {"scanload", "scanslot", "scanflag", "scanstart", "scanpark", "scan", "complete",
               "park", "fail", "pause", "scansignal", "scaninflight", "autoload"}

LEMMA ScanKeeps ==
  ASSUME IInv, NEW p \in Procs, Scan(p)
  PROVE  IInv'
<1>1. proc[p].at \in ScanPlaces /\ UNCHANGED <<begun, lease, slot, flags, gate>>
  BY DEF Scan, ScanLoad, AcquireScan, ResetScanFlag, ScanTokenFails, ParkScan, SpawnScan,
         ScanReturns, PersistScan, AutoLoad, SetScanFlag, SettleScanPause, At, ScanPlaces, memory
<1>2. ~IsFree(p) /\ ProcOK(proc[p]) /\ Job(p) \in Jobs /\ Seen(p) \in Known
      /\ status \in [Jobs -> Known] /\ status[Job(p)] \in Known
  BY <1>1, UnderWay DEF ScanPlaces
<1>3. ~HoldsSlot(proc[p]) /\ ~HoldsLease(proc[p])
  BY <1>1 DEF HoldsSlot, HoldsLease, ScanPlaces
<1>4. \A a \in ScanPlaces : a \in Places
  BY DEF Places, ScanPlaces
<1>5. \A a \in ScanPlaces : \A s \in Known : Fits(p, a, s)
  BY <1>2, <1>3 DEF Fits, WentOn, ProcOK, ScanPlaces
<1>6. \A a \in ScanPlaces : Goto(p, a) => ProcsOK' /\ LeasesOK' /\ GateOK'
  BY <1>1, <1>2, <1>4, <1>5, GotoKeeps
<1>7. \A a \in ScanPlaces : \A s \in Known : Keep(p, a, s) => ProcsOK' /\ LeasesOK' /\ GateOK'
  BY <1>1, <1>2, <1>4, <1>5, KeepKeeps
<1>8. End(p) => ProcsOK' /\ LeasesOK' /\ GateOK'
  BY <1>1, <1>2, <1>3, EndKeeps
<1>9. \A s \in Known : Write(p, s) => status' \in [Jobs -> Known]
  BY <1>2, WriteKnown DEF IInv
<1>10. (scanning' \subseteq Jobs /\ scanPause' \in [Jobs -> BOOLEAN] /\ status' \in [Jobs -> Known])
         => JobsOK'
  BY <1>1 DEF IInv, JobsOK
<1>11. scanning \subseteq Jobs /\ scanPause \in [Jobs -> BOOLEAN]
  BY DEF IInv, JobsOK
<1>12. ScanOver(p) => scanning' \subseteq Jobs
  BY <1>11 DEF ScanOver
<1>13. \A b \in BOOLEAN : [scanPause EXCEPT ![Job(p)] = b] \in [Jobs -> BOOLEAN]
  BY <1>11
<1>. USE DEF memory
<1>14. CASE ScanLoad(p)
  <2>1. ProcsOK' /\ LeasesOK' /\ GateOK'
    BY <1>2, <1>7, <1>8, <1>14 DEF ScanLoad, ScanPlaces
  <2>. QED BY <1>2, <1>10, <1>11, <1>14, <2>1 DEF ScanLoad, IInv
<1>15. CASE AcquireScan(p)
  <2>1. ProcsOK' /\ LeasesOK' /\ GateOK'
    BY <1>6, <1>8, <1>15 DEF AcquireScan, ScanPlaces
  <2>2. scanning' \subseteq Jobs
    BY <1>2, <1>11, <1>15 DEF AcquireScan
  <2>. QED BY <1>2, <1>10, <1>11, <1>15, <2>1, <2>2 DEF AcquireScan, IInv
<1>16. CASE ResetScanFlag(p) \/ SetScanFlag(p)
  <2>1. ProcsOK' /\ LeasesOK' /\ GateOK'
    BY <1>6, <1>16 DEF ResetScanFlag, SetScanFlag, ScanPlaces
  <2>2. scanPause' \in [Jobs -> BOOLEAN] /\ UNCHANGED <<status, scanning>>
    BY <1>13, <1>16 DEF ResetScanFlag, SetScanFlag
  <2>. QED BY <1>2, <1>10, <1>11, <2>1, <2>2 DEF IInv
<1>17. CASE ScanTokenFails(p)
  <2>1. ProcsOK' /\ LeasesOK' /\ GateOK'
    BY <1>2, <1>7, <1>8, <1>17 DEF ScanTokenFails, ScanPlaces
  <2>2. scanning' \subseteq Jobs
    BY <1>11, <1>17 DEF ScanTokenFails
  <2>. QED BY <1>2, <1>10, <1>11, <1>17, <2>1, <2>2 DEF ScanTokenFails, IInv
<1>18. CASE ParkScan(p)
  <2>1. Parked(Seen(p)) \in Known
    BY <1>2, WrittenKnown
  <2>. QED BY <1>8, <1>9, <1>10, <1>11, <1>18, <2>1 DEF ParkScan, IInv
<1>19. CASE SpawnScan(p)
  <2>1. CASE StartScanning(Seen(p)) = Illegal
    <3>1. End(p) /\ scanning' \subseteq Jobs /\ UNCHANGED <<status, scanPause>>
      BY <1>11, <1>19, <2>1 DEF SpawnScan
    <3>. QED BY <1>2, <1>8, <1>10, <1>11, <3>1 DEF IInv
  <2>2. CASE StartScanning(Seen(p)) # Illegal
    <3>. DEFINE r == Begun("scan", IF Cmd(p) = "transfer" THEN "autoscan" ELSE "scan",
                           Job(p), Absent, FALSE)
    <3>1. PICK t \in Tasks : IsFree(t) /\ proc' = [proc EXCEPT ![p] = Free, ![t] = r]
      BY <1>19, <2>2 DEF SpawnScan
    <3>2. r \in Process /\ r.at = "scan" /\ r.job = Job(p)
      BY <1>2 DEF Begun, Process, Places, Names, Kinds, Known
    <3>3. ProcOK(r)
      BY <1>2, <3>2 DEF ProcOK
    <3>. HIDE DEF r
    <3>4. ProcsOK' /\ LeasesOK' /\ GateOK'
      BY <1>1, <1>2, <1>3, <3>1, <3>2, <3>3, SpawnKeeps
    <3>5. "SCANNING" \in Known
      BY DEF Known, Statuses
    <3>6. Write(p, "SCANNING") /\ UNCHANGED <<scanning, scanPause>>
      BY <1>19, <2>2 DEF SpawnScan
    <3>. QED BY <1>9, <1>10, <1>11, <3>4, <3>5, <3>6 DEF IInv
  <2>. QED BY <2>1, <2>2
<1>20. CASE ScanReturns(p)
  <2>1. PICK a \in ScanPlaces : Keep(p, a, status[Job(p)])
    BY <1>20 DEF ScanReturns, ScanPlaces
  <2>. QED BY <1>2, <1>7, <1>10, <1>11, <1>20, <2>1 DEF ScanReturns, IInv
<1>21. CASE PersistScan(p)
  <2>1. PICK s \in Known : Write(p, s)
    BY <1>2, <1>21, WrittenKnown DEF PersistScan
  <2>2. scanPause' \in [Jobs -> BOOLEAN]
    BY <1>13, <1>21 DEF PersistScan
  <2>3. /\ Goto(p, "autoload") \/ End(p)
        /\ ScanOver(p) \/ UNCHANGED scanning
    BY <1>21 DEF PersistScan
  <2>. QED BY <1>6, <1>8, <1>9, <1>10, <1>11, <1>12, <2>1, <2>2, <2>3 DEF ScanPlaces, IInv
<1>22. CASE AutoLoad(p)
  <2>1. CASE status[Job(p)] = "READY_FOR_REVIEW"
    <3>. DEFINE r == [proc[p] EXCEPT !.at = "slot", !.cmd = "auto", !.seen = "READY_FOR_REVIEW"]
    <3>1. r \in Process /\ r.at = "slot" /\ r.cmd = "auto" /\ r.seen = "READY_FOR_REVIEW"
          /\ r.job = Job(p)
      BY <1>2 DEF ProcOK, Process, Places, Names, Known, Statuses, Job
    <3>2. ProcOK(r)
      BY <1>2, <3>1 DEF ProcOK, Startable
    <3>3. proc' = [proc EXCEPT ![p] = r] /\ UNCHANGED <<status, scanning, scanPause>>
      BY <1>22, <2>1 DEF AutoLoad, IInv, ProcsOK
    <3>. HIDE DEF r
    <3>4. ProcsOK' /\ LeasesOK'
      BY <1>1, <1>3, <3>1, <3>2, <3>3, HoldStep DEF IInv
    <3>. QED BY <1>1, <1>2, <1>10, <1>11, <3>3, <3>4, GateStep DEF IInv
  <2>2. CASE status[Job(p)] # "READY_FOR_REVIEW"
    BY <1>2, <1>8, <1>10, <1>11, <1>12, <1>22, <2>2 DEF AutoLoad, IInv
  <2>. QED BY <2>1, <2>2
<1>23. CASE SettleScanPause(p)
  <2>1. PauseScanning(Seen(p)) \in Known \cup {Illegal}
    <3>1. "PAUSED" \in Known
      BY DEF Known, Statuses, TransferResumable
    <3>. QED BY <1>2, <3>1, Moves
  <2>2. Legal(PauseScanning(Seen(p)), status[Job(p)]) \in Known
    BY <1>2, <2>1 DEF Legal
  <2>. QED BY <1>2, <1>8, <1>9, <1>10, <1>11, <1>23, <2>2 DEF SettleScanPause, IInv
<1>. QED BY <1>14, <1>15, <1>16, <1>17, <1>18, <1>19, <1>20, <1>21, <1>22, <1>23 DEF Scan

--------------------------------------------------------------------------------
(* The installation of an update, the restart, and the theorems. *)

LEMMA InstallationKeeps ==
  ASSUME IInv, BeginInstallation \/ CheckInstallation \/ EndInstallation
  PROVE  IInv'
<1>1. UNCHANGED <<status, begun, lease, slot, memory, proc>>
  BY DEF BeginInstallation, CheckInstallation, EndInstallation
<1>2. ProcsOK' /\ JobsOK' /\ LeasesOK'
  BY <1>1 DEF IInv, ProcsOK, JobsOK, LeasesOK, memory, Job
<1>3. GateOK'
  <2>1. BeginInstallation => \A p \in Procs : IsFree(p)
    BY DEF BeginInstallation, Readers
  <2>. QED BY <1>1, <2>1 DEF BeginInstallation, CheckInstallation, EndInstallation, IInv, GateOK,
                             IsFree, Busy
<1>. QED BY <1>2, <1>3 DEF IInv

LEMMA RestartKeeps ==
  ASSUME IInv, Restart
  PROVE  IInv'
<1>1. ProcsOK'
  BY FreeOK DEF Restart, ProcsOK, ProcOK
<1>2. LeasesOK' /\ GateOK'
  BY DEF Restart, LeasesOK, GateOK
<1>3. JobsOK'
  <2>1. PICK lost \in SUBSET Jobs :
          status' = [j \in Jobs |->
            IF status[j] = "SCANNING" THEN PauseScanning(status[j])
            ELSE IF status[j] \notin UnfinishedMutation THEN status[j]
            ELSE IF j \in lost THEN RequireAuth(status[j]) ELSE PauseTransfer(status[j])]
    BY DEF Restart
  <2>2. \A s \in Known :
          /\ s = "SCANNING" => PauseScanning(s) \in Known
          /\ s \in UnfinishedMutation => RequireAuth(s) \in Known /\ PauseTransfer(s) \in Known
    BY DEF PauseScanning, RequireAuth, PauseTransfer, Move, Known, Statuses, TransferResumable
  <2>3. status' \in [Jobs -> Known]
    BY <2>1, <2>2 DEF IInv, JobsOK
  <2>. QED BY <2>3 DEF Restart, IInv, JobsOK
<1>. QED BY <1>1, <1>2, <1>3 DEF IInv

LEMMA InvNext == IInv /\ [Next]_vars => IInv'
<1>. SUFFICES ASSUME IInv, [Next]_vars PROVE IInv'
  OBVIOUS
<1>1. ASSUME NEW c \in Clients, NEW j \in Jobs, Command(c, j) PROVE IInv'
  BY <1>1, CommandKeeps
<1>2. ASSUME NEW p \in Procs, Step(p) PROVE IInv'
  BY <1>2, AcquireKeeps, GiveBackKeeps, HaltKeeps, WorkKeeps, ScanKeeps DEF Step
<1>3. CASE UNCHANGED vars
  BY <1>3 DEF vars, IInv, ProcsOK, JobsOK, LeasesOK, GateOK, Job, IsFree, memory
<1>. QED BY <1>1, <1>2, <1>3, InstallationKeeps, RestartKeeps DEF Next

(* Statuses, leases, processes and the gate are consistent in every        *)
(* reachable state of the service, whatever commands are used and whenever *)
(* the process dies.                                                       *)
THEOREM Invariance == Spec => []IInv
BY InvInit, InvNext, PTL DEF Spec

(* Every status that is written is a status: no command and no task writes *)
(* the result of an operation that job.rs refuses.                         *)
THEOREM TypeCorrect == Spec => []TypeOK
BY Invariance, InvMeans, PTL

(* A lease that is held is held for somebody who will give it back, through *)
(* failed starts, answered pauses and workers that ended.                   *)
THEOREM NoLeak == Spec => []LeaseIsNotLeaked
BY Invariance, InvMeans, PTL

(* While an update is installed no command, scan or transfer is under way. *)
THEOREM Installation == Spec => []InstallsAlone
BY Invariance, InvMeans, PTL

--------------------------------------------------------------------------------
(* The lease as a lock. A pause and a cancellation look for a worker in the *)
(* slot and take both halves away later (TransferIsInFlight, ReleaseLease,  *)
(* DropSlot), which is how OneJobMutates is violated: a transfer of that    *)
(* job must be started in between. So the lock holds while these two are    *)
(* not used, and also while commands are served one after the other and no  *)
(* scan starts a transfer on its own.                                       *)

StopCmds == {"pause", "cancel"}
NoStops == Commands \cap StopCmds = {}
OneAtATime == (\A c, d \in Clients : c = d) /\ "transfer" \notin Commands
Orderly == NoStops \/ OneAtATime

(* The holders of the lock: a process that stops a job is none of them.     *)
Slotted(r) == HoldsSlot(r) /\ r.cmd \notin StopCmds
Leased(r)  == HoldsLease(r) /\ r.cmd \notin StopCmds

(* When commands are served one after the other, only a command can start   *)
(* or stop a transfer.                                                      *)
Proper(p, r) ==
  /\ r.cmd \in StopCmds => OneAtATime
  /\ OneAtATime =>
       /\ r.at # "autoload" /\ r.cmd \notin {"transfer", "auto", "autoscan", "autoworker"}
       /\ p \in Tasks => r.cmd \in {"none", "scan", "worker"}

(* A stop that goes on after it found no worker still finds none.           *)
Clear(r, s) == r.cmd \in StopCmds /\ r.at \in {"settle", "release", "drop"} => s # r.job

Alone ==
  /\ \A p \in Procs : Proper(p, proc[p]) /\ Clear(proc[p], slot)
  /\ \A p \in Procs : Slotted(proc[p]) => slot = Job(p)
  /\ \A p \in Procs : Leased(proc[p]) => lease = Job(p)
  /\ \A p, q \in Procs : Slotted(proc[p]) /\ Slotted(proc[q]) => p = q

LEMMA AloneMeans == IInv /\ Alone => SingleMutator /\ OneJobMutates /\ WorkerHoldsLease
<1>. SUFFICES ASSUME IInv, Alone PROVE SingleMutator /\ OneJobMutates /\ WorkerHoldsLease
  OBVIOUS
<1>1. \A p \in Mutating : p \in Procs /\ Slotted(proc[p]) /\ Leased(proc[p])
  BY DEF Mutating, Workers, WorkerCmds, Procs, At, Cmd, Slotted, Leased, HoldsSlot, HoldsLease,
         StopCmds
<1>2. WorkerHoldsLease
  BY <1>1 DEF WorkerHoldsLease, Alone
<1>3. OneJobMutates
  BY <1>1 DEF OneJobMutates, Alone
<1>4. CASE Mutating = {}
  BY <1>2, <1>3, <1>4, FS_EmptySet DEF SingleMutator
<1>5. CASE Mutating # {}
  <2>1. PICK p \in Mutating : TRUE
    BY <1>5
  <2>2. Mutating = {p}
    BY <1>1, <2>1 DEF Alone
  <2>3. Cardinality(Mutating) = 1
    BY <2>2, FS_Singleton
  <2>. QED BY <1>2, <1>3, <2>3 DEF SingleMutator
<1>. QED BY <1>4, <1>5

(* Nobody else moves. *)
Moved(p) == \A q \in Procs \ {p} : /\ proc'[q].at = proc[q].at
                                   /\ proc'[q].cmd = proc[q].cmd
                                   /\ proc'[q].job = proc[q].job
Went(p, a) == Moved(p) /\ proc'[p].at = a /\ proc'[p].cmd = Cmd(p) /\ proc'[p].job = Job(p)

LEMMA Moves1 ==
  ASSUME ProcsOK, NEW p \in Procs
  PROVE  /\ \A a : Goto(p, a) => Went(p, a)
         /\ \A a, s : Keep(p, a, s) => Went(p, a)
         /\ End(p) => Moved(p) /\ proc'[p] = Free
BY DEF ProcsOK, Process, Goto, Keep, End, Went, Moved, Cmd, Job

LEMMA FreeAlone ==
  ASSUME NEW p \in Procs
  PROVE  /\ ~Slotted(Free) /\ ~Leased(Free) /\ Proper(p, Free)
         /\ \A s : Clear(Free, s)
BY FreeOK DEF Free, Begun, Slotted, Leased, Proper, Clear, StopCmds

(* What a step of p may do to the lock: take it when it is open and nobody  *)
(* is about to give it back, and give back what it holds, or what nobody    *)
(* holds.                                                                   *)
LEMMA AloneStep ==
  ASSUME IInv, Alone, NEW p \in Procs, Moved(p),
         Proper(p, proc'[p]), Clear(proc'[p], slot'),
         Slotted(proc'[p]) => /\ slot' = proc'[p].job
                              /\ Slotted(proc[p]) \/ slot = NoJob,
         Leased(proc'[p]) => lease' = proc'[p].job,
         slot' # slot => /\ Slotted(proc[p]) \/ slot = NoJob
                         /\ slot' = NoJob \/ \A q \in Procs : q # p => proc[q].cmd \notin StopCmds,
         lease' # lease => \/ Slotted(proc[p])
                           \/ \A q \in Procs : q # p /\ Slotted(proc[q]) => lease # Job(q)
  PROVE  Alone'
<1>1. \A q \in Procs : q # p => /\ Slotted(proc'[q]) <=> Slotted(proc[q])
                                /\ Leased(proc'[q]) <=> Leased(proc[q])
                                /\ proc'[q].job = Job(q)
  BY DEF Moved, Slotted, Leased, HoldsSlot, HoldsLease, Job
<1>2. \A q \in Procs : Slotted(proc[q]) => Job(q) \in Jobs
  BY DEF IInv, ProcsOK, ProcOK, Slotted, HoldsSlot, HoldsLease, Job
<1>3. \A q \in Procs : Leased(proc[q]) => Slotted(proc[q])
  BY DEF Slotted, Leased, HoldsSlot
<1>4. Slotted(proc[p]) \/ slot = NoJob => \A q \in Procs : q # p => ~Slotted(proc[q])
  BY <1>2, ControlAssumption DEF Alone
<1>5. \A q \in Procs : q # p => /\ Slotted(proc'[q]) => slot' = proc'[q].job
                                /\ Leased(proc'[q]) => lease' = proc'[q].job
  BY <1>1, <1>3, <1>4 DEF Alone
<1>6. ASSUME NEW q \in Procs, q # p PROVE Proper(q, proc'[q]) /\ Clear(proc'[q], slot')
  <2>1. Proper(q, proc[q]) /\ Clear(proc[q], slot)
    BY DEF Alone
  <2>2. proc'[q].at = proc[q].at /\ proc'[q].cmd = proc[q].cmd /\ proc'[q].job = proc[q].job
    BY <1>6 DEF Moved
  <2>3. Proper(q, proc'[q])
    BY <2>1, <2>2 DEF Proper
  <2>4. CASE slot' = slot
    BY <2>1, <2>2, <2>3, <2>4 DEF Clear
  <2>5. CASE proc[q].cmd \notin StopCmds
    BY <2>2, <2>3, <2>5 DEF Clear
  <2>6. CASE slot' = NoJob
    <3>1. proc[q].at # "free" => proc[q].job \in Jobs
      BY DEF IInv, ProcsOK, ProcOK
    <3>. QED BY <2>2, <2>3, <2>6, <3>1, ControlAssumption DEF Clear
  <2>. QED BY <1>6, <2>4, <2>5, <2>6
<1>7. \A q, o \in Procs : Slotted(proc'[q]) /\ Slotted(proc'[o]) => q = o
  BY <1>1, <1>4 DEF Alone
<1>. QED BY <1>5, <1>6, <1>7 DEF Alone, Job

(* A step that neither takes nor gives back. *)
LEMMA AloneAside ==
  ASSUME IInv, Alone, NEW p \in Procs, Moved(p), UNCHANGED <<lease, slot>>,
         Proper(p, proc'[p]), Clear(proc'[p], slot),
         Slotted(proc'[p]) => Slotted(proc[p]) /\ proc'[p].job = Job(p),
         Leased(proc'[p]) => Leased(proc[p]) /\ proc'[p].job = Job(p)
  PROVE  Alone'
<1>1. Slotted(proc[p]) => slot = Job(p)
  BY DEF Alone
<1>2. Leased(proc[p]) => lease = Job(p)
  BY DEF Alone
<1>. QED BY <1>1, <1>2, AloneStep

(* The command of a process stays what it was.                              *)
LEMMA StaysProper ==
  ASSUME Alone, NEW p \in Procs, NEW a, Went(p, a)
  PROVE  /\ a # "autoload" => Proper(p, proc'[p])
         /\ Cmd(p) \notin StopCmds => \A s : Clear(proc'[p], s)
         /\ Slotted(proc'[p]) => Cmd(p) \notin StopCmds
         /\ Leased(proc'[p]) => Cmd(p) \notin StopCmds
BY DEF Alone, Went, Proper, Clear, Cmd, Slotted, Leased

(* Its share goes to a task. *)
LEMMA AloneSpawn ==
  ASSUME IInv, Alone, NEW p \in Procs, NEW t \in Tasks, IsFree(t), ~IsFree(p), NEW r \in Process,
         r.cmd \notin StopCmds, r.job = Job(p), Proper(t, r), UNCHANGED <<lease, slot>>,
         Slotted(r) => Slotted(proc[p]), Leased(r) => Leased(proc[p]),
         proc' = [proc EXCEPT ![p] = Free, ![t] = r]
  PROVE  Alone'
<1>1. t \in Procs /\ t # p
  BY DEF Procs
<1>2. \A q \in Procs : proc'[q] = IF q = t THEN r ELSE IF q = p THEN Free ELSE proc[q]
  BY <1>1 DEF IInv, ProcsOK
<1>3. ~Slotted(Free) /\ ~Leased(Free) /\ Proper(p, Free) /\ Clear(Free, slot)
  BY FreeAlone
<1>4. \A q \in Procs : Proper(q, proc'[q]) /\ Clear(proc'[q], slot')
  <2>1. \A q \in Procs : Proper(q, proc[q]) /\ Clear(proc[q], slot)
    BY DEF Alone
  <2>2. Clear(r, slot)
    BY DEF Clear
  <2>. QED BY <1>2, <1>3, <2>1, <2>2, Zenon
<1>5. \A q \in Procs : /\ Slotted(proc'[q]) => slot' = proc'[q].job
                       /\ Leased(proc'[q]) => lease' = proc'[q].job
  <2>1. /\ Slotted(r) => slot' = r.job
        /\ Leased(r) => lease' = r.job
    BY DEF Alone
  <2>2. \A q \in Procs : /\ Slotted(proc[q]) => slot' = proc[q].job
                         /\ Leased(proc[q]) => lease' = proc[q].job
    BY DEF Alone, Job
  <2>. QED BY <1>2, <1>3, <2>1, <2>2, Zenon
<1>6. \A q, o \in Procs : Slotted(proc'[q]) /\ Slotted(proc'[o]) => q = o
  BY <1>1, <1>2, <1>3 DEF Alone
<1>. QED BY <1>4, <1>5, <1>6 DEF Alone, Job

LEMMA AloneInit == Init => Alone
<1>. SUFFICES ASSUME Init PROVE Alone
  OBVIOUS
<1>1. \A p \in Procs : proc[p] = Free
  BY DEF Init
<1>. QED BY <1>1, FreeAlone DEF Alone

LEMMA AloneCommand ==
  ASSUME IInv, Alone, Orderly, NEW c \in Clients, NEW j \in Jobs, Command(c, j)
  PROVE  Alone'
<1>1. PICK cmd \in Commands, first \in {"slot", "signal", "scanslot", "scanload", "scansignal"},
           canary \in BOOLEAN :
        Begin(c, cmd, first, j, canary) /\ Untouched
  BY DEF Command, StartCanaryCommand, ContinueMigration, ResumeMigration, PauseMigration,
         CancelMigration, StartScan, StartTransferOperation, PauseScan, Begin
<1>. DEFINE r == Begun(first, cmd, j, status[j], canary)
<1>2. r.at = first /\ r.cmd = cmd
  BY DEF Begun
<1>3. proc' = [proc EXCEPT ![c] = r] /\ c \in Procs
  BY <1>1 DEF Begin, Procs
<1>. HIDE DEF r
<1>4. Moved(c) /\ proc'[c] = r
  BY <1>3 DEF Moved, IInv, ProcsOK
<1>5. ~Slotted(r) /\ ~Leased(r) /\ Clear(r, slot)
  BY <1>2 DEF Slotted, Leased, HoldsSlot, HoldsLease, Clear
<1>6. Proper(c, r)
  BY <1>2, ControlAssumption DEF Proper, Orderly, NoStops, OneAtATime
<1>. QED BY <1>1, <1>3, <1>4, <1>5, <1>6, AloneAside DEF Untouched

(* Who starts a transfer is alone with it.                                  *)
LEMMA NobodyStops ==
  ASSUME IInv, Alone, NEW p \in Procs, proc[p].at = "slot"
  PROVE  \A q \in Procs : q # p => proc[q].cmd \notin StopCmds
<1>1. Cmd(p) \in {"start", "auto", "continue", "resume"}
  BY DEF IInv, ProcsOK, ProcOK, Startable, Cmd
<1>2. ASSUME NEW q \in Procs, q # p, proc[q].cmd \in StopCmds PROVE FALSE
  <2>1. OneAtATime
    BY <1>2 DEF Alone, Proper
  <2>2. p \notin Tasks
    BY <1>1, <2>1 DEF Alone, Proper, Cmd
  <2>3. q \notin Tasks
    BY <1>2, <2>1 DEF Alone, Proper, StopCmds
  <2>. QED BY <1>2, <2>1, <2>2, <2>3 DEF OneAtATime, Procs
<1>. QED BY <1>2

LEMMA AloneAcquire ==
  ASSUME IInv, Alone, NEW p \in Procs, Acquire(p)
  PROVE  Alone'
<1>. USE DEF At
<1>1. proc[p].at # "free"
  BY DEF Acquire, AcquireSlot, AcquireLease, QueueOrBusy, JoinQueue, ReconcileForResume, AuthHalt,
         SpawnWorker, SpawnFails
<1>2. ~IsFree(p) /\ Job(p) \in Jobs /\ ProcOK(proc[p])
  BY <1>1, UnderWay
<1>3. /\ \A a : Goto(p, a) => Went(p, a)
      /\ \A a, s : Keep(p, a, s) => Went(p, a)
      /\ End(p) => Moved(p) /\ proc'[p] = Free
  BY Moves1 DEF IInv
<1>4. ~Slotted(Free) /\ ~Leased(Free) /\ Proper(p, Free) /\ Clear(Free, slot)
  BY FreeAlone
<1>5. proc[p].at \in {"slot", "lease", "prepare", "reconcile", "auth"} => Cmd(p) \notin StopCmds
  BY <1>2 DEF ProcOK, Startable, Cmd, StopCmds
<1>6. CASE AcquireSlot(p)
  <2>1. CASE slot = NoJob
    <3>1. Went(p, "lease") /\ slot' = Job(p) /\ lease' = lease /\ proc[p].at = "slot"
      BY <1>3, <1>6, <2>1 DEF AcquireSlot
    <3>2. ~Leased(proc'[p])
      BY <3>1 DEF Went, Leased, HoldsLease
    <3>3. \A q \in Procs : q # p => proc[q].cmd \notin StopCmds
      BY <3>1, NobodyStops
    <3>4. Proper(p, proc'[p]) /\ Clear(proc'[p], slot')
      BY <1>5, <3>1, StaysProper
    <3>. QED BY <2>1, <3>1, <3>2, <3>3, <3>4, AloneStep DEF Went
  <2>2. CASE slot # NoJob
    <3>1. Went(p, "queue") /\ UNCHANGED <<lease, slot>> /\ proc[p].at = "slot"
      BY <1>3, <1>6, <2>2 DEF AcquireSlot
    <3>2. ~Slotted(proc'[p]) /\ ~Leased(proc'[p])
      BY <3>1 DEF Went, Slotted, Leased, HoldsSlot, HoldsLease
    <3>. QED BY <1>5, <3>1, <3>2, StaysProper, AloneAside DEF Went
  <2>. QED BY <2>1, <2>2
<1>7. CASE AcquireLease(p)
  <2>1. Slotted(proc[p]) /\ slot = Job(p) /\ proc[p].at = "lease"
    <3>1. Slotted(proc[p]) /\ proc[p].at = "lease"
      BY <1>5, <1>7 DEF AcquireLease, HoldsSlot, Slotted, Cmd
    <3>. QED BY <3>1 DEF Alone
  <2>2. CASE lease = NoJob
    <3>1. (Went(p, "reconcile") \/ Went(p, "prepare")) /\ lease' = Job(p) /\ slot' = slot
      BY <1>3, <1>7, <2>2 DEF AcquireLease
    <3>2. Proper(p, proc'[p]) /\ Clear(proc'[p], slot')
      BY <1>5, <2>1, <3>1, StaysProper
    <3>. QED BY <2>1, <3>1, <3>2, AloneStep DEF Went
  <2>3. CASE lease # NoJob
    <3>1. Went(p, "queue") /\ lease' = lease /\ slot' = NoJob
      BY <1>3, <1>7, <2>1, <2>3 DEF AcquireLease
    <3>2. ~Slotted(proc'[p]) /\ ~Leased(proc'[p])
      BY <3>1 DEF Went, Slotted, Leased, HoldsSlot, HoldsLease
    <3>3. Proper(p, proc'[p]) /\ Clear(proc'[p], slot')
      BY <1>5, <2>1, <3>1, StaysProper
    <3>. QED BY <2>1, <3>1, <3>2, <3>3, AloneStep DEF Went
  <2>. QED BY <2>2, <2>3
<1>8. CASE QueueOrBusy(p) \/ JoinQueue(p)
  <2>1. Went(p, "enqueue") \/ (Moved(p) /\ proc'[p] = Free)
    BY <1>3, <1>8 DEF QueueOrBusy, JoinQueue
  <2>2. UNCHANGED <<lease, slot>>
    BY <1>8 DEF QueueOrBusy, JoinQueue
  <2>3. CASE Went(p, "enqueue")
    <3>1. ~Slotted(proc'[p]) /\ ~Leased(proc'[p]) /\ Clear(proc'[p], slot)
      BY <2>3 DEF Went, Slotted, Leased, HoldsSlot, HoldsLease, Clear
    <3>. QED BY <2>2, <2>3, <3>1, StaysProper, AloneAside DEF Went
  <2>. QED BY <1>4, <2>1, <2>2, <2>3, AloneAside
<1>9. CASE ReconcileForResume(p) \/ AuthHalt(p) \/ SpawnFails(p)
  <2>1. Went(p, "prepare") \/ Went(p, "release") \/ Went(p, "auth")
    BY <1>3, <1>9 DEF ReconcileForResume, AuthHalt, SpawnFails
  <2>2. UNCHANGED <<lease, slot>> /\ Cmd(p) \notin StopCmds
        /\ proc[p].at \in {"reconcile", "auth", "prepare"}
    BY <1>5, <1>9 DEF ReconcileForResume, AuthHalt, SpawnFails
  <2>3. Slotted(proc[p]) /\ Leased(proc[p])
    BY <2>2 DEF Slotted, Leased, HoldsSlot, HoldsLease, Cmd
  <2>4. Proper(p, proc'[p]) /\ Clear(proc'[p], slot)
    BY <2>1, <2>2, StaysProper
  <2>. QED BY <2>1, <2>2, <2>3, <2>4, AloneAside DEF Went
<1>10. CASE SpawnWorker(p)
  <2>. DEFINE cmd == IF Cmd(p) = "auto" THEN "autoworker" ELSE "worker"
              r   == Begun("launch", cmd, Job(p), Prepared(p), FALSE)
  <2>1. PICK t \in Tasks : IsFree(t) /\ proc' = [proc EXCEPT ![p] = Free, ![t] = r]
    BY <1>10 DEF SpawnWorker
  <2>2. Prepared(p) \in Known
    BY <1>2, <1>10, PreparedRuns DEF SpawnWorker, ProcOK, Process, Known, Statuses,
                                    UnfinishedMutation
  <2>3. r \in Process /\ r.cmd \in WorkerCmds /\ r.job = Job(p) /\ r.at = "launch"
        /\ (r.cmd = "autoworker" => Cmd(p) = "auto")
    BY <1>2, <2>2 DEF Begun, Process, Places, Names, Kinds, WorkerCmds
  <2>4. Slotted(proc[p]) /\ Leased(proc[p]) /\ UNCHANGED <<lease, slot>>
    BY <1>5, <1>10 DEF SpawnWorker, Slotted, Leased, HoldsSlot, HoldsLease, Cmd
  <2>. HIDE DEF r
  <2>5. r.cmd \notin StopCmds
    BY <2>3 DEF WorkerCmds, StopCmds
  <2>6. Proper(t, r)
    <3>1. Proper(p, proc[p])
      BY DEF Alone
    <3>. QED BY <2>3, <2>5, <3>1 DEF Proper, WorkerCmds, Cmd
  <2>. QED BY <1>2, <2>1, <2>3, <2>4, <2>5, <2>6, AloneSpawn
<1>. QED BY <1>6, <1>7, <1>8, <1>9, <1>10 DEF Acquire

(* A stop that went on gives back nothing that is in use.                   *)
LEMMA AloneGiveBack ==
  ASSUME IInv, Alone, NEW p \in Procs, GiveBack(p)
  PROVE  Alone'
<1>1. proc[p].at \in {"release", "drop", "flags"}
  BY DEF GiveBack, ReleaseLease, DropSlot, RemoveFlags, At
<1>2. Cmd(p) \notin StopCmds => Slotted(proc[p]) /\ slot = Job(p)
  <2>1. Cmd(p) \notin StopCmds => Slotted(proc[p])
    BY <1>1 DEF Slotted, HoldsSlot, HoldsLease, Cmd, StopCmds
  <2>. QED BY <2>1 DEF Alone
<1>3. /\ \A a : Goto(p, a) => Went(p, a)
      /\ End(p) => Moved(p) /\ proc'[p] = Free
  BY Moves1 DEF IInv
<1>4. ~Slotted(Free) /\ ~Leased(Free) /\ Proper(p, Free) /\ \A s : Clear(Free, s)
  BY FreeAlone
<1>5. Cmd(p) \in StopCmds /\ proc[p].at \in {"release", "drop"} => slot # Job(p)
  BY DEF Alone, Clear, Cmd, Job
<1>6. CASE ReleaseLease(p)
  <2>1. (Went(p, "flags") \/ Went(p, "drop")) /\ slot' = slot /\ proc[p].at = "release"
        /\ (lease' # lease => lease = Job(p))
    BY <1>3, <1>6 DEF ReleaseLease, At
  <2>2. ~Leased(proc'[p]) /\ (Slotted(proc'[p]) => Slotted(proc[p]))
    <3>1. ~HoldsLease(proc'[p])
      BY <2>1 DEF Went, HoldsLease
    <3>2. Slotted(proc'[p]) => Cmd(p) \notin StopCmds
      BY <2>1, StaysProper
    <3>. QED BY <1>2, <3>1, <3>2 DEF Leased
  <2>3. Proper(p, proc'[p]) /\ Clear(proc'[p], slot')
    <3>1. Clear(proc'[p], slot)
      BY <1>5, <2>1 DEF Went, Clear, Cmd
    <3>. QED BY <2>1, <3>1, StaysProper
  <2>4. CASE Cmd(p) \notin StopCmds
    BY <1>2, <2>1, <2>2, <2>3, <2>4, AloneStep DEF Went
  <2>5. CASE Cmd(p) \in StopCmds
    <3>1. \A q \in Procs : q # p /\ Slotted(proc[q]) => Job(p) # Job(q)
      BY <1>5, <2>1, <2>5 DEF Alone
    <3>2. ~Slotted(proc'[p])
      BY <2>1, <2>5, StaysProper
    <3>. QED BY <2>1, <2>2, <2>3, <3>1, <3>2, AloneStep DEF Went
  <2>. QED BY <2>4, <2>5
<1>7. CASE DropSlot(p)
  <2>1. lease' = lease /\ proc[p].at = "drop"
    BY <1>7 DEF DropSlot, At
  <2>2. CASE Cmd(p) \notin StopCmds
    <3>1. Moved(p) /\ proc'[p] = Free /\ slot' = NoJob
      BY <1>2, <1>3, <1>7, <2>2 DEF DropSlot, StopCmds
    <3>. QED BY <1>2, <1>4, <2>1, <2>2, <3>1, AloneStep
  <2>3. CASE Cmd(p) \in StopCmds
    <3>1. slot' = slot /\ (Went(p, "flags") \/ (Moved(p) /\ proc'[p] = Free))
      BY <1>3, <1>5, <1>7, <2>1, <2>3 DEF DropSlot
    <3>2. CASE Went(p, "flags")
      <4>1. ~Slotted(proc'[p]) /\ ~Leased(proc'[p]) /\ Proper(p, proc'[p])
        BY <2>3, <3>2, StaysProper
      <4>2. Clear(proc'[p], slot)
        BY <3>2 DEF Went, Clear
      <4>. QED BY <2>1, <3>1, <3>2, <4>1, <4>2, AloneAside DEF Went
    <3>. QED BY <1>4, <2>1, <3>1, <3>2, AloneAside
  <2>. QED BY <2>2, <2>3
<1>8. CASE RemoveFlags(p)
  <2>. DEFINE gone == IF Cmd(p) = "pause" THEN {"pause"} ELSE Kinds
              deaf(q) == [proc[q] EXCEPT !.heard = @ \ gone,
                            !.kept = @ \cup (flags[Job(p)] \cap gone \cap proc[q].heard)]
              deafened == [q \in Procs |-> IF q \in Workers /\ Job(q) = Job(p)
                                           THEN deaf(q) ELSE proc[q]]
  <2>. DEFINE r == IF Cmd(p) = "pause" THEN Free ELSE [deafened[p] EXCEPT !.at = "drop"]
  <2>1. proc' = [deafened EXCEPT ![p] = r] /\ UNCHANGED <<lease, slot>>
    BY <1>8 DEF RemoveFlags
  <2>2. \A q \in Procs : proc[q] \in Process
    BY DEF IInv, ProcsOK
  <2>3. flags[Job(p)] \subseteq Kinds
    BY <1>1, UnderWay DEF IInv, JobsOK
  <2>4. \A q \in Procs : /\ deaf(q) \in Process /\ deaf(q).at = proc[q].at
                         /\ deaf(q).cmd = proc[q].cmd /\ deaf(q).job = proc[q].job
    BY <2>2, <2>3 DEF Process
  <2>. HIDE DEF deaf
  <2>5. \A q \in Procs : /\ deafened[q] \in Process /\ deafened[q].at = proc[q].at
                         /\ deafened[q].cmd = proc[q].cmd /\ deafened[q].job = proc[q].job
    BY <2>2, <2>4
  <2>6. Cmd(p) # "pause" => r.at = "drop" /\ r.cmd = Cmd(p) /\ r.job = Job(p)
    BY <2>5 DEF Process, Cmd, Job
  <2>7. Cmd(p) = "pause" => r = Free
    OBVIOUS
  <2>8. \A q \in Procs : proc'[q] = IF q = p THEN r ELSE deafened[q]
    BY <2>1
  <2>. HIDE DEF deafened, r
  <2>9. Moved(p) /\ proc'[p] = r
    BY <2>5, <2>8 DEF Moved
  <2>10. CASE Cmd(p) = "pause"
    BY <1>4, <2>1, <2>7, <2>9, <2>10, AloneAside
  <2>11. CASE Cmd(p) # "pause"
    <3>1. Cmd(p) \in WorkerCmds /\ proc[p].at = "flags"
      BY <1>1, <1>8, <2>11, UnderWay DEF RemoveFlags, At, ProcOK, Cmd
    <3>2. Cmd(p) \notin StopCmds /\ Went(p, "drop")
      BY <2>6, <2>9, <2>11, <3>1 DEF WorkerCmds, StopCmds, Went
    <3>3. ~Leased(proc'[p])
      BY <3>2 DEF Leased, HoldsLease, Went
    <3>. QED BY <1>2, <2>1, <3>2, <3>3, StaysProper, AloneAside DEF Went
  <2>. QED BY <2>10, <2>11
<1>. QED BY <1>6, <1>7, <1>8 DEF GiveBack

LEMMA AloneHalt ==
  ASSUME IInv, Alone, NEW p \in Procs, Halt(p)
  PROVE  Alone'
<1>1. Cmd(p) \in StopCmds /\ UNCHANGED <<lease, slot>>
      /\ proc[p].at \in {"signal", "cancelsignal", "inflight", "settle"}
  <2>1. proc[p].at \in {"signal", "cancelsignal", "inflight", "settle"}
    BY DEF Halt, SetFlag, SetCancelFlag, TransferIsInFlight, SettleStop, At
  <2>2. ProcOK(proc[p])
    BY DEF IInv, ProcsOK
  <2>. QED BY <2>1, <2>2 DEF Halt, SetFlag, SetCancelFlag, TransferIsInFlight, SettleStop,
                             ProcOK, Cmd, StopCmds
<1>2. /\ \A a : Goto(p, a) => Went(p, a)
      /\ End(p) => Moved(p) /\ proc'[p] = Free
  BY Moves1 DEF IInv
<1>3. (Moved(p) /\ proc'[p] = Free) => Alone'
  BY <1>1, FreeAlone, AloneAside
<1>4. ASSUME NEW a, Went(p, a), a # "autoload", a = "settle" \/ a = "release" => slot # Job(p),
             a # "drop"
      PROVE Alone'
  <2>1. ~Slotted(proc'[p]) /\ ~Leased(proc'[p]) /\ Proper(p, proc'[p])
    BY <1>1, <1>4, StaysProper
  <2>2. Clear(proc'[p], slot)
    BY <1>4 DEF Clear, Went
  <2>. QED BY <1>1, <1>4, <2>1, <2>2, AloneAside DEF Went
<1>5. CASE SetFlag(p) \/ SetCancelFlag(p)
  <2>1. Went(p, "cancelsignal") \/ Went(p, "inflight")
    BY <1>2, <1>5 DEF SetFlag, SetCancelFlag
  <2>. QED BY <1>4, <2>1
<1>6. CASE TransferIsInFlight(p)
  <2>1. (Went(p, "settle") /\ slot # Job(p)) \/ (Moved(p) /\ proc'[p] = Free)
    BY <1>2, <1>6 DEF TransferIsInFlight
  <2>. QED BY <1>3, <1>4, <2>1
<1>7. CASE SettleStop(p)
  <2>1. Went(p, "release") \/ (Moved(p) /\ proc'[p] = Free)
    BY <1>2, <1>7 DEF SettleStop
  <2>2. slot # Job(p)
    BY <1>1, <1>7 DEF SettleStop, At, Alone, Clear, Cmd, Job
  <2>. QED BY <1>3, <1>4, <2>1, <2>2
<1>. QED BY <1>5, <1>6, <1>7 DEF Halt

LEMMA AloneWork ==
  ASSUME IInv, Alone, NEW p \in Procs, Work(p)
  PROVE  Alone'
<1>1. proc[p].at \in {"launch", "listen", "run", "ended"} /\ UNCHANGED <<lease, slot>>
  BY DEF Work, ClearFlags, TakeFlags, WorkerStops, WorkerEnds, WorkerContinues, PersistOutcome, At
<1>2. Cmd(p) \notin StopCmds
  <2>1. ProcOK(proc[p])
    BY DEF IInv, ProcsOK
  <2>. QED BY <1>1, <2>1 DEF ProcOK, WorkerCmds, Cmd, StopCmds
<1>3. Slotted(proc[p]) /\ Leased(proc[p])
  BY <1>1, <1>2 DEF Slotted, Leased, HoldsSlot, HoldsLease, Cmd
<1>4. Went(p, "listen") \/ Went(p, "run") \/ Went(p, "ended") \/ Went(p, "release")
  <2>1. CASE TakeFlags(p)
    <3>1. proc[p] \in Process /\ proc' = [proc EXCEPT ![p].at = "run", ![p].heard = Kinds]
      BY <2>1 DEF TakeFlags, IInv, ProcsOK
    <3>2. Went(p, "run")
      BY <3>1 DEF IInv, ProcsOK, Process, Went, Moved, Cmd, Job
    <3>. QED BY <3>2
  <2>2. CASE ~TakeFlags(p)
    BY <2>2, Moves1 DEF IInv, Work, ClearFlags, WorkerStops, WorkerEnds, WorkerContinues,
                        PersistOutcome
  <2>. QED BY <2>1, <2>2
<1>5. Proper(p, proc'[p]) /\ Clear(proc'[p], slot)
  BY <1>2, <1>4, StaysProper
<1>. QED BY <1>1, <1>3, <1>4, <1>5, AloneAside DEF Went

LEMMA AloneScan ==
  ASSUME IInv, Alone, NEW p \in Procs, Scan(p)
  PROVE  Alone'
<1>1. proc[p].at \in ScanPlaces /\ UNCHANGED <<lease, slot>>
  BY DEF Scan, ScanLoad, AcquireScan, ResetScanFlag, ScanTokenFails, ParkScan, SpawnScan,
         ScanReturns, PersistScan, AutoLoad, SetScanFlag, SettleScanPause, At, ScanPlaces
<1>2. ~Slotted(Free) /\ ~Leased(Free) /\ Proper(p, Free) /\ Clear(Free, slot)
  BY FreeAlone
<1>3. Proper(p, proc[p])
  BY DEF Alone
<1>4. \A a \in ScanPlaces : Went(p, a) /\ (a = "autoload" => ~OneAtATime) => Alone'
  <2>1. SUFFICES ASSUME NEW a \in ScanPlaces, Went(p, a), a = "autoload" => ~OneAtATime
                 PROVE  Alone'
    OBVIOUS
  <2>2. Proper(p, proc'[p])
    BY <1>3, <2>1 DEF Went, Proper, Cmd
  <2>3. Clear(proc'[p], slot) /\ ~Slotted(proc'[p]) /\ ~Leased(proc'[p])
    BY <2>1 DEF Went, Clear, Slotted, Leased, HoldsSlot, HoldsLease, ScanPlaces
  <2>. QED BY <1>1, <2>1, <2>2, <2>3, AloneAside DEF Went
<1>5. (Moved(p) /\ proc'[p] = Free) => Alone'
  BY <1>1, <1>2, AloneAside
<1>6. /\ \A a \in ScanPlaces \ {"autoload"} : Goto(p, a) => Alone'
      /\ \A a \in ScanPlaces \ {"autoload"} : \A s : Keep(p, a, s) => Alone'
      /\ ~OneAtATime /\ Goto(p, "autoload") => Alone'
      /\ End(p) => Alone'
  BY <1>4, <1>5, Moves1 DEF IInv, ScanPlaces
<1>7. CASE SpawnScan(p) /\ ~End(p)
  <2>. DEFINE r == Begun("scan", IF Cmd(p) = "transfer" THEN "autoscan" ELSE "scan",
                         Job(p), Absent, FALSE)
  <2>1. PICK t \in Tasks : IsFree(t) /\ proc' = [proc EXCEPT ![p] = Free, ![t] = r]
    BY <1>7 DEF SpawnScan
  <2>2. ~IsFree(p) /\ Job(p) \in Jobs
    BY <1>1, UnderWay DEF ScanPlaces
  <2>3. r \in Process /\ r.at = "scan" /\ r.job = Job(p) /\ r.cmd \in {"scan", "autoscan"}
        /\ (r.cmd = "autoscan" => Cmd(p) = "transfer")
    BY <2>2 DEF Begun, Process, Places, Names, Kinds, Known
  <2>4. ~Slotted(r) /\ ~Leased(r)
    BY <2>3 DEF Slotted, Leased, HoldsSlot, HoldsLease
  <2>. HIDE DEF r
  <2>5. r.cmd \notin StopCmds /\ Proper(t, r)
    BY <1>3, <2>3 DEF Proper, Cmd, StopCmds
  <2>. QED BY <1>1, <2>1, <2>2, <2>3, <2>4, <2>5, AloneSpawn
<1>8. CASE AutoLoad(p) /\ ~End(p)
  <2>. DEFINE r == [proc[p] EXCEPT !.at = "slot", !.cmd = "auto", !.seen = "READY_FOR_REVIEW"]
  <2>1. proc[p] \in Process /\ proc' = [proc EXCEPT ![p] = r] /\ proc[p].at = "autoload"
    BY <1>8 DEF AutoLoad, At, IInv, ProcsOK
  <2>2. r.at = "slot" /\ r.cmd = "auto" /\ r.job = Job(p)
    BY <2>1 DEF Process, Job
  <2>. HIDE DEF r
  <2>3. Moved(p) /\ proc'[p] = r
    BY <2>1 DEF IInv, ProcsOK, Moved
  <2>4. Proper(p, r) /\ Clear(r, slot) /\ ~Slotted(r) /\ ~Leased(r)
    BY <1>3, <2>1, <2>2 DEF Proper, Clear, Slotted, Leased, HoldsSlot, HoldsLease, StopCmds
  <2>. QED BY <1>1, <2>3, <2>4, AloneAside
<1>9. CASE PersistScan(p)
  <2>1. (Cmd(p) = "autoscan" /\ Goto(p, "autoload")) \/ End(p)
    BY <1>9 DEF PersistScan
  <2>. QED BY <1>3, <1>6, <2>1 DEF Proper, Cmd
<1>10. CASE ~SpawnScan(p) /\ ~AutoLoad(p) /\ ~PersistScan(p)
  BY <1>6, <1>10 DEF Scan, ScanLoad, AcquireScan, ResetScanFlag, ScanTokenFails, ParkScan,
                     ScanReturns, SetScanFlag, SettleScanPause, ScanPlaces
<1>. QED BY <1>6, <1>7, <1>8, <1>9, <1>10

LEMMA AloneNext == IInv /\ Alone /\ Orderly /\ [Next]_vars => Alone'
<1>. SUFFICES ASSUME IInv, Alone, Orderly, [Next]_vars PROVE Alone'
  OBVIOUS
<1>1. ASSUME NEW c \in Clients, NEW j \in Jobs, Command(c, j) PROVE Alone'
  BY <1>1, AloneCommand
<1>2. ASSUME NEW p \in Procs, Step(p) PROVE Alone'
  BY <1>2, AloneAcquire, AloneGiveBack, AloneHalt, AloneWork, AloneScan DEF Step
<1>3. CASE Restart
  <2>1. \A p \in Procs : proc'[p] = Free
    BY <1>3 DEF Restart
  <2>. QED BY <2>1, FreeAlone DEF Alone
<1>4. CASE BeginInstallation \/ CheckInstallation \/ EndInstallation \/ UNCHANGED vars
  BY <1>4 DEF BeginInstallation, CheckInstallation, EndInstallation, vars, Alone, Cmd, Job
<1>. QED BY <1>1, <1>2, <1>3, <1>4 DEF Next

LEMMA OrderlyStep == Orderly /\ IInv /\ Alone /\ [Next]_vars => IInv' /\ Alone'
BY InvNext, AloneNext

(* A task that may change Drive holds both halves of the lease: nothing     *)
(* took them from it, whatever was started, resumed, paused, cancelled or   *)
(* failed meanwhile, as long as commands come one after the other, or       *)
(* nobody pauses or cancels.                                                *)
THEOREM WorkerKeepsLease == Orderly => (Spec => []WorkerHoldsLease)
<1>. SUFFICES ASSUME Orderly PROVE Spec => []WorkerHoldsLease
  OBVIOUS
<1>1. IInv /\ Alone => WorkerHoldsLease
  BY AloneMeans
<1>. QED BY <1>1, OrderlyStep, InvInit, AloneInit, PTL DEF Spec

(* And the lease is held for nobody else: starts, resumes, scans that start *)
(* a transfer, failures and restarts in any order leave it with the worker. *)
THEOREM LeaseHeld == Orderly => (Spec => []LeaseFitsWork)
<1>. SUFFICES ASSUME Orderly PROVE Spec => []LeaseFitsWork
  OBVIOUS
<1>1. IInv /\ Alone => LeaseFitsWork
  BY AloneMeans, InvMeans DEF LeaseFitsWork
<1>. QED BY <1>1, OrderlyStep, InvInit, AloneInit, PTL DEF Spec

(* And then no two tasks ever change Drive at the same time, be it for two  *)
(* jobs or for one.                                                         *)
THEOREM OneMutator == Orderly => (Spec => [](SingleMutator /\ OneJobMutates))
<1>. SUFFICES ASSUME Orderly PROVE Spec => [](SingleMutator /\ OneJobMutates)
  OBVIOUS
<1>1. IInv /\ Alone => SingleMutator /\ OneJobMutates
  BY AloneMeans
<1>. QED BY <1>1, OrderlyStep, InvInit, AloneInit, PTL DEF Spec
================================================================================
