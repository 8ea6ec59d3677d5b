----------------------------- MODULE JobRowsProofs -----------------------------
(***************************************************************************)
(* Theorems about the rows of the jobs for every finite set of jobs, every *)
(* set of commands under way, and every well-formed start of a session.    *)
(***************************************************************************)
EXTENDS JobRows, TLAPS, FiniteSetTheorems

--------------------------------------------------------------------------------
(* The inductive invariant. A command acts on a copy, so what is known of a *)
(* row is also known of every copy, and the checks a queue command made     *)
(* are still true of its snapshot.                                          *)

Snap == [Jobs -> [status : Statuses \cup Gone, position : 0..Cardinality(Jobs)]]
Proc == [at : {"free", "create", "accounts", "delete", "metadata", "insertroot", "deleteroot",
               "seed", "scanload", "token", "reload", "settle", "park", "lease", "write",
               "stop", "snapshot", "commit"} \cup Inspecting,
         cmd : {"none", "create", "accounts", "delete", "addroot", "removeroot", "transfer",
                "scan", "pause", "start", "cancel", "halt", "queue", "reorder", "remove"},
         job : Jobs \cup {NoJob}, copy : Row, snap : Snap, since : Nat,
         arg : Accounts \cup Folders \cup {None}, place : 0..Cardinality(Jobs),
         seen : [latest : Statuses \cup {"none"}, cohort : BOOLEAN, frontier : BOOLEAN],
         restored : Statuses \cup {"none"}]

Placed(r) == r.status = "QUEUED" <=> r.position > 0

ProcOK(q) ==
  /\ q \in Proc /\ Placed(q.copy)
  /\ q.at = "free" => q = Free
  /\ q.at \notin {"free", "create", "seed"} => q.job \in Jobs
  /\ q.at \in {"create", "accounts", "seed"} => q.arg \in Accounts
  /\ q.at \in {"metadata", "insertroot", "deleteroot"} => q.arg \in Folders
  /\ q.at \in Inspecting \cup {"commit"} =>
       /\ Enqueue(q.snap[q.job].status) # Illegal
       /\ q.place <= Cardinality(InQueue(q.snap) \ {q.job}) + 1
       /\ q.cmd = "remove" => q.snap[q.job].status = "QUEUED"
  /\ q.at \in Inspecting => q.cmd = "remove"
  /\ q.at = "commit" /\ q.cmd = "remove" =>
       q.restored \in {"READY_FOR_REVIEW", "CANARY_REVIEW", "PAUSED"}

ProcsOK == proc \in [Clients -> Proc] /\ \A p \in Clients : ProcOK(proc[p])
RowsOK  == row \in [Jobs -> Row] /\ QueueIsAnOrder /\ relapsed \subseteq Jobs
TrailOK ==
  /\ \A j \in Jobs : event[j] # None => {event[j].prev, event[j].new} \subseteq Statuses
  /\ event = [j \in Jobs |-> event[j]]
  /\ from \in [Jobs -> Statuses \cup {"none"}]
  /\ begun \in [Jobs -> BOOLEAN] /\ frontier \in [Jobs -> BOOLEAN]
  /\ entries \in [Jobs -> Nat]
OthersOK ==
  /\ lease \in Jobs \cup {NoJob} /\ scanning \in [Jobs -> {"no", "asked", "runs", "ends"}]
  /\ run \in Row /\ left \in Nat
  /\ scanned \in [Jobs -> Row] /\ \A j \in Jobs : Placed(scanned[j])

IInv == RowsOK /\ TrailOK /\ OthersOK /\ ProcsOK

LEMMA JobsCount == IsFiniteSet(Jobs) /\ Cardinality(Jobs) \in Nat
BY RowsAssumption, FS_CardinalityType

LEMMA InvType == IInv => TypeOK
BY DEF IInv, RowsOK, TrailOK, OthersOK, ProcsOK, ProcOK, TypeOK, IsFree

--------------------------------------------------------------------------------
(* The rows, when one of them changes. *)

LEMMA PlacedRows ==
  ASSUME RowsOK
  PROVE  \A j \in Jobs : row[j] \in Row /\ Placed(row[j])
BY DEF RowsOK, QueueIsAnOrder, Placed

(* A row that is not in the queue may replace any other. *)
LEMMA OutOfQueue ==
  ASSUME RowsOK, NEW j \in Jobs, NEW r \in Row, r.status # "QUEUED", r.position = 0,
         row' = [row EXCEPT ![j] = r], relapsed' = relapsed
  PROVE  RowsOK'
<1>1. row' \in [Jobs -> Row] /\ \A k \in Jobs : row'[k] = IF k = j THEN r ELSE row[k]
  BY DEF RowsOK
<1>. QED BY <1>1 DEF RowsOK, QueueIsAnOrder

(* So may one that stands where the row stood. *)
LEMMA SamePlace ==
  ASSUME RowsOK, NEW j \in Jobs, NEW r \in Row, r.status = row[j].status,
         r.position = row[j].position, row' = [row EXCEPT ![j] = r], relapsed' = relapsed
  PROVE  RowsOK'
<1>1. row' \in [Jobs -> Row] /\ \A k \in Jobs : row'[k] = IF k = j THEN r ELSE row[k]
  BY DEF RowsOK
<1>. QED BY <1>1 DEF RowsOK, QueueIsAnOrder

(* And any copy, when the job counts as one that a scan has put back. *)
LEMMA PutBack ==
  ASSUME RowsOK, NEW j \in Jobs, NEW r \in Row, Placed(r),
         row' = [row EXCEPT ![j] = r], relapsed' = relapsed \cup {j}
  PROVE  RowsOK'
<1>1. row' \in [Jobs -> Row] /\ \A k \in Jobs : row'[k] = IF k = j THEN r ELSE row[k]
  BY DEF RowsOK
<1>. QED BY <1>1 DEF RowsOK, QueueIsAnOrder, Placed

LEMMA RowsStay ==
  ASSUME RowsOK, row' = row, relapsed \subseteq relapsed', relapsed' \subseteq Jobs
  PROVE  RowsOK'
BY DEF RowsOK, QueueIsAnOrder

(* The copy that update_job writes. *)
LEMMA SavedRow ==
  ASSUME RowsOK, NEW j \in Jobs, NEW r \in Row, Save(j, r)
  PROVE  \/ row' = row
         \/ \E q \in Row : /\ row' = [row EXCEPT ![j] = q] /\ Exists(j)
                          /\ q.status = r.status /\ q.position = r.position
                          /\ q.roots = row[j].roots
<1>. DEFINE q == [r EXCEPT !.roots = row[j].roots]
<1>1. q \in Row /\ q.roots = row[j].roots
  BY DEF RowsOK, Row
<1>2. q.status = r.status
  BY DEF Row
<1>3. q.position = r.position
  BY DEF Row
<1>4. row' = row \/ (row' = [row EXCEPT ![j] = q] /\ Exists(j))
  BY DEF Save
<1>. HIDE DEF q
<1>. QED BY <1>1, <1>2, <1>3, <1>4

(* update_job with a copy whose status is no longer QUEUED. *)
LEMMA SavedOutOfQueue ==
  ASSUME RowsOK, NEW j \in Jobs, NEW r \in Row, r.status # "QUEUED", r.position = 0, Save(j, r),
         relapsed' = relapsed
  PROVE  RowsOK'
<1>1. CASE row' = row
  BY <1>1, RowsStay DEF RowsOK
<1>2. ASSUME NEW q \in Row, row' = [row EXCEPT ![j] = q], q.status = r.status,
             q.position = r.position
      PROVE  RowsOK'
  BY <1>2, OutOfQueue
<1>. QED BY <1>1, <1>2, SavedRow

(* One command goes on. *)
LEMMA ProcStep ==
  ASSUME ProcsOK, NEW p \in Clients, NEW q, ProcOK(q), proc' = [proc EXCEPT ![p] = q]
  PROVE  ProcsOK'
<1>1. proc' \in [Clients -> Proc]
  BY DEF ProcsOK, ProcOK
<1>2. \A o \in Clients : proc'[o] = IF o = p THEN q ELSE proc[o]
  BY DEF ProcsOK
<1>. QED BY <1>1, <1>2 DEF ProcsOK

LEMMA FreeOK == ProcOK(Free)
<1>1. NoRow \in Row /\ Placed(NoRow)
  BY JobsCount DEF NoRow, Row, Gone, Placed
<1>2. NoSnap \in Snap
  BY JobsCount DEF NoSnap, Snap, Gone
<1>3. Free \in Proc
  BY <1>1, <1>2, JobsCount DEF Free, Begun, NoTrace, Proc
<1>. QED BY <1>1, <1>3 DEF Free, Begun, ProcOK, Inspecting

LEMMA EndKeeps ==
  ASSUME ProcsOK, NEW p \in Clients, End(p)
  PROVE  ProcsOK'
BY FreeOK, ProcStep DEF End

--------------------------------------------------------------------------------
(* Requests: a command begins with a copy of the row, or without one. *)

LEMMA BegunOK ==
  ASSUME NEW at \in {"create", "accounts", "delete", "metadata", "deleteroot", "seed",
                     "scanload", "settle", "lease", "stop", "snapshot"},
         NEW cmd \in {"create", "accounts", "delete", "addroot", "removeroot", "transfer",
                      "scan", "pause", "start", "cancel", "halt", "queue", "reorder", "remove"},
         NEW j \in Jobs \cup {NoJob}, NEW copy \in Row, Placed(copy),
         NEW arg \in Accounts \cup Folders \cup {None}, NEW place \in 0..Cardinality(Jobs),
         at \notin {"create", "seed"} => j \in Jobs,
         at \in {"create", "accounts", "seed"} => arg \in Accounts,
         at \in {"metadata", "deleteroot"} => arg \in Folders
  PROVE  ProcOK(Begun(at, cmd, j, copy, arg, place))
<1>1. NoSnap \in Snap
  BY JobsCount DEF NoSnap, Snap, Gone
<1>2. Begun(at, cmd, j, copy, arg, place) \in Proc
  BY <1>1 DEF Begun, NoTrace, Proc
<1>. QED BY <1>2 DEF ProcOK, Begun, Inspecting

LEMMA LoadKeeps ==
  ASSUME RowsOK, OthersOK, ProcsOK, NEW p \in Clients, NEW j \in Jobs,
         NEW cmd \in {"accounts", "delete", "addroot", "removeroot", "scan", "pause", "start",
                      "cancel", "halt"},
         NEW at \in {"accounts", "delete", "metadata", "deleteroot", "scanload", "settle",
                     "lease", "stop"},
         NEW arg \in Accounts \cup Folders \cup {None},
         at = "accounts" => arg \in Accounts,
         at \in {"metadata", "deleteroot"} => arg \in Folders,
         Load(p, cmd, at, j, arg)
  PROVE  ProcsOK' /\ left' \in Nat
<1>1. row[j] \in Row /\ Placed(row[j]) /\ 0 \in 0..Cardinality(Jobs)
  BY PlacedRows, JobsCount
<1>2. ProcOK(Begun(at, cmd, j, row[j], arg, 0))
  BY <1>1, BegunOK
<1>3. ProcsOK'
  BY <1>2, ProcStep DEF Load
<1>4. left' \in Nat
  BY DEF Load, OthersOK
<1>. QED BY <1>3, <1>4

LEMMA EmptyRow == NoRow \in Row /\ Placed(NoRow) /\ 0 \in 0..Cardinality(Jobs)
BY JobsCount DEF NoRow, Row, Gone, Placed

LEMMA BeginKeeps ==
  ASSUME ProcsOK, NEW p \in Clients, NEW at \in {"create", "seed"},
         NEW cmd \in {"create", "transfer"}, NEW a \in Accounts,
         proc' = [proc EXCEPT ![p] = Begun(at, cmd, NoJob, NoRow, a, 0)]
  PROVE  ProcsOK'
<1>1. ProcOK(Begun(at, cmd, NoJob, NoRow, a, 0))
  BY EmptyRow, BegunOK
<1>. QED BY <1>1, ProcStep

LEMMA QueueJobKeeps ==
  ASSUME OthersOK, ProcsOK, NEW p \in Clients, NEW j \in Jobs,
         NEW place \in 0..Cardinality(Jobs), NEW cmd \in {"queue", "reorder", "remove"},
         QueueJob(p, j, place, cmd)
  PROVE  ProcsOK' /\ left' \in Nat
<1>1. ProcOK(Begun("snapshot", cmd, j, NoRow, None, place))
  BY EmptyRow, BegunOK
<1>2. ProcsOK'
  BY <1>1, ProcStep DEF QueueJob
<1>3. left' \in Nat
  BY DEF QueueJob, OthersOK
<1>. QED BY <1>2, <1>3

LEMMA RequestsRead ==
  ASSUME NEW p \in Clients, Request(p)
  PROVE  UNCHANGED <<row, trail, works>>
BY DEF Request, CreateJob, StartTransferOperation, UpdateDraftJobAccounts, AddRoot, RemoveRoot,
       DeleteDraftJob, StartScan, PauseScan, StartTransfer, PauseMigration, CancelMigration,
       RemoveQueuedJob, QueueJob, Reading

LEMMA RequestKeeps ==
  ASSUME IInv, NEW p \in Clients, Request(p)
  PROVE  IInv'
<1>1. Reading
  BY RequestsRead DEF Reading
<1>2. RowsOK' /\ TrailOK'
  BY <1>1 DEF Reading, trail, IInv, RowsOK, TrailOK, QueueIsAnOrder
<1>3. ProcsOK' /\ left' \in Nat
  <2>1. CASE \E a \in Accounts : CreateJob(p, a) \/ StartTransferOperation(p, a)
    <3>1. PICK a \in Accounts : CreateJob(p, a) \/ StartTransferOperation(p, a)
      BY <2>1
    <3>2. left' \in Nat
      BY <3>1 DEF CreateJob, StartTransferOperation, IInv, OthersOK
    <3>3. OthersOK /\ ProcsOK
      BY DEF IInv
    <3>4. CASE CreateJob(p, a)
      BY <3>2, <3>3, <3>4, BeginKeeps DEF CreateJob
    <3>5. CASE StartTransferOperation(p, a)
      BY <3>2, <3>3, <3>5, BeginKeeps DEF StartTransferOperation
    <3>. QED BY <3>1, <3>4, <3>5
  <2>2. ASSUME NEW j \in Jobs, NEW a \in Accounts, UpdateDraftJobAccounts(p, j, a)
        PROVE  ProcsOK' /\ left' \in Nat
    BY <2>2, LoadKeeps DEF UpdateDraftJobAccounts, IInv
  <2>3. ASSUME NEW j \in Jobs, NEW f \in Folders, AddRoot(p, j, f) \/ RemoveRoot(p, j, f)
        PROVE  ProcsOK' /\ left' \in Nat
    BY <2>3, LoadKeeps DEF AddRoot, RemoveRoot, IInv
  <2>4. ASSUME NEW j \in Jobs, DeleteDraftJob(p, j) \/ StartScan(p, j) \/ StartTransfer(p, j)
        PROVE  ProcsOK' /\ left' \in Nat
    BY <2>4, LoadKeeps DEF DeleteDraftJob, StartScan, StartTransfer, IInv
  <2>5. ASSUME NEW j \in Jobs, PauseScan(p, j) \/ PauseMigration(p, j) \/ CancelMigration(p, j)
        PROVE  ProcsOK' /\ left' \in Nat
    BY <2>5, LoadKeeps DEF PauseScan, PauseMigration, CancelMigration, IInv
  <2>6. ASSUME NEW j \in Jobs, NEW place \in 0..Cardinality(Jobs), NEW cmd \in {"queue", "reorder"},
               QueueJob(p, j, place, cmd)
        PROVE  ProcsOK' /\ left' \in Nat
    BY <2>6, QueueJobKeeps DEF IInv
  <2>7. ASSUME NEW j \in Jobs, RemoveQueuedJob(p, j)
        PROVE  ProcsOK' /\ left' \in Nat
    BY <2>7, QueueJobKeeps, JobsCount DEF RemoveQueuedJob, IInv
  <2>. QED BY <2>1, <2>2, <2>3, <2>4, <2>5, <2>6, <2>7 DEF Request
<1>. QED BY <1>1, <1>2, <1>3 DEF Reading, works, IInv, OthersOK

--------------------------------------------------------------------------------
(* Drafts and their roots. *)

LEMMA TrailStays ==
  ASSUME TrailOK, UNCHANGED trail
  PROVE  TrailOK'
BY DEF TrailOK, trail

LEMMA DraftKeeps ==
  ASSUME IInv, NEW p \in Clients, Draft(p)
  PROVE  IInv'
<1>1. TrailOK'
  <2>1. UNCHANGED trail
    BY DEF Draft, InsertJob, SaveDraft, DeleteDraft, ValidateRoot, InsertRoot, DeleteRoot
  <2>. QED BY <2>1, TrailStays DEF IInv
<1>2. OthersOK'
  <2>1. UNCHANGED <<works, left>>
    BY DEF Draft, InsertJob, SaveDraft, DeleteDraft, ValidateRoot, InsertRoot, DeleteRoot
  <2>. QED BY <2>1 DEF works, IInv, OthersOK
<1>3. ProcsOK'
  <2>1. CASE ValidateRoot(p) /\ ~End(p)
    <3>. DEFINE q == [proc[p] EXCEPT !.at = "insertroot", !.copy = row[Job(p)]]
    <3>1. proc' = [proc EXCEPT ![p] = q] /\ At(p, "metadata")
      BY <2>1 DEF ValidateRoot
    <3>2. ProcOK(proc[p]) /\ proc[p].at = "metadata"
      BY <3>1 DEF IInv, ProcsOK, At
    <3>3. Job(p) \in Jobs /\ proc[p].arg \in Folders
      BY <3>2 DEF ProcOK, Job
    <3>4. row[Job(p)] \in Row /\ Placed(row[Job(p)])
      BY <3>3, PlacedRows DEF IInv
    <3>5. /\ q \in Proc /\ q.at = "insertroot" /\ q.copy = row[Job(p)]
          /\ q.job = Job(p) /\ q.arg = proc[p].arg
      BY <3>2, <3>4 DEF ProcOK, Proc, Job
    <3>. HIDE DEF q
    <3>6. ProcOK(q)
      BY <3>3, <3>4, <3>5 DEF ProcOK, Inspecting
    <3>. QED BY <3>1, <3>6, ProcStep DEF IInv
  <2>2. CASE End(p)
    BY <2>2, EndKeeps DEF IInv
  <2>. QED BY <2>1, <2>2 DEF Draft, InsertJob, SaveDraft, DeleteDraft, ValidateRoot,
                            InsertRoot, DeleteRoot
<1>4. RowsOK'
  <2>1. RowsOK /\ ProcOK(proc[p]) /\ (\A j \in Jobs : row[j] \in Row) /\ relapsed' = relapsed
    BY PlacedRows DEF IInv, ProcsOK, trail, Draft, InsertJob, SaveDraft, DeleteDraft,
                      ValidateRoot, InsertRoot, DeleteRoot
  <2>2. CASE row' = row
    BY <2>1, <2>2, RowsStay DEF RowsOK
  <2>3. CASE InsertJob(p)
    <3>1. PICK j \in Jobs : row' = [row EXCEPT ![j] = NewRow("DRAFT", proc[p].arg, {})]
      BY <2>3 DEF InsertJob
    <3>2. proc[p].arg \in Accounts
      BY <2>1, <2>3 DEF InsertJob, At, ProcOK
    <3>3. NewRow("DRAFT", proc[p].arg, {}) \in Row
      BY <3>2, JobsCount DEF NewRow, Row, Statuses
    <3>. QED BY <2>1, <3>1, <3>3, OutOfQueue DEF NewRow
  <2>4. CASE SaveDraft(p) /\ row' # row
    <3>. DEFINE r == ChangeAccounts(Copy(p), proc[p].arg)
    <3>1. /\ row' = [row EXCEPT ![Job(p)] = r] /\ At(p, "accounts")
          /\ Copy(p).status = "DRAFT"
      BY <2>4 DEF SaveDraft
    <3>2. Job(p) \in Jobs /\ proc[p].arg \in Accounts /\ Copy(p) \in Row /\ Placed(Copy(p))
      BY <2>1, <3>1 DEF ProcOK, Proc, At, Job, Copy
    <3>3. Copy(p).position = 0
      BY <3>1, <3>2 DEF Placed, Row
    <3>4. r \in Row /\ r.status = "DRAFT" /\ r.position = 0
      BY <3>1, <3>2, <3>3 DEF ChangeAccounts, Row
    <3>. QED BY <2>1, <3>1, <3>2, <3>4, OutOfQueue
  <2>5. CASE DeleteDraft(p) /\ row' # row
    <3>1. row' = [row EXCEPT ![Job(p)] = [NoRow EXCEPT !.status = "DELETED"]] /\ At(p, "delete")
      BY <2>5 DEF DeleteDraft
    <3>2. Job(p) \in Jobs
      BY <2>1, <3>1 DEF ProcOK, At, Job
    <3>3. /\ [NoRow EXCEPT !.status = "DELETED"] \in Row
          /\ [NoRow EXCEPT !.status = "DELETED"].status = "DELETED"
          /\ [NoRow EXCEPT !.status = "DELETED"].position = 0
      BY JobsCount DEF NoRow, Row, Gone
    <3>. QED BY <2>1, <3>1, <3>2, <3>3, OutOfQueue
  <2>6. CASE (InsertRoot(p) \/ DeleteRoot(p)) /\ row' # row
    <3>1. At(p, "insertroot") \/ At(p, "deleteroot")
      BY <2>6 DEF InsertRoot, DeleteRoot
    <3>2. Job(p) \in Jobs /\ proc[p].arg \in Folders
      BY <2>1, <3>1 DEF ProcOK, At, Job
    <3>3. PICK roots \in SUBSET Folders :
            row' = [row EXCEPT ![Job(p)] = [row[Job(p)] EXCEPT !.roots = roots]]
      <4>1. row[Job(p)].roots \in SUBSET Folders
        BY <2>1, <3>2 DEF Row
      <4>2. CASE row' = [row EXCEPT ![Job(p)].roots = @ \cup {proc[p].arg}]
        BY <3>2, <4>1, <4>2
      <4>3. CASE row' = [row EXCEPT ![Job(p)].roots = @ \ {proc[p].arg}]
        BY <3>2, <4>1, <4>3
      <4>. QED BY <2>6, <4>2, <4>3 DEF InsertRoot, DeleteRoot
    <3>4. [row[Job(p)] EXCEPT !.roots = roots] \in Row
      BY <2>1, <3>2 DEF Row
    <3>5. [row[Job(p)] EXCEPT !.roots = roots].status = row[Job(p)].status
      BY <2>1, <3>2 DEF Row
    <3>6. [row[Job(p)] EXCEPT !.roots = roots].position = row[Job(p)].position
      BY <2>1, <3>2 DEF Row
    <3>. QED BY <2>1, <3>2, <3>3, <3>4, <3>5, <3>6, SamePlace
  <2>. QED BY <2>2, <2>3, <2>4, <2>5, <2>6 DEF Draft, ValidateRoot
<1>. QED BY <1>1, <1>2, <1>3, <1>4 DEF IInv

--------------------------------------------------------------------------------
(* Scans and transfers. *)

LEMMA CommandOK ==
  ASSUME IInv, NEW p \in Clients
  PROVE  ProcOK(proc[p]) /\ Copy(p) \in Row /\ Placed(Copy(p))
BY DEF IInv, ProcsOK, ProcOK, Proc, Copy

(* One status is written with its event; the job is in no queue any more. *)
LEMMA PersistKeeps ==
  ASSUME RowsOK, TrailOK, NEW j \in Jobs, NEW r \in Row, NEW prev \in Statuses,
         NEW s \in Statuses \ {"QUEUED"}, PersistStatus(j, r, prev, s), relapsed' = relapsed
  PROVE  /\ RowsOK'
         /\ \A k \in Jobs : event'[k] # None => {event'[k].prev, event'[k].new} \subseteq Statuses
         /\ event' = [k \in Jobs |-> event'[k]]
<1>. DEFINE q == [r EXCEPT !.status = s, !.position = 0]
<1>1. q \in Row /\ q.status = s /\ q.position = 0
  <2>1. s \in Statuses \cup Gone /\ 0 \in 0..Cardinality(Jobs)
    BY JobsCount
  <2>2. q \in Row
    BY <2>1 DEF Row
  <2>3. q.status = s
    BY DEF Row
  <2>4. q.position = 0
    BY DEF Row
  <2>. QED BY <2>2, <2>3, <2>4
<1>2. /\ Save(j, q)
      /\ event' = event \/ event' = [event EXCEPT ![j] = Became(prev, s)]
  BY DEF PersistStatus
<1>. HIDE DEF q
<1>3. RowsOK'
  BY <1>1, <1>2, SavedOutOfQueue
<1>4. CASE event' = event
  BY <1>3, <1>4 DEF TrailOK
<1>5. CASE event' = [event EXCEPT ![j] = Became(prev, s)]
  <2>1. event' = [k \in Jobs |-> IF k = j THEN Became(prev, s) ELSE event[k]]
    BY <1>5 DEF TrailOK
  <2>2. \A k \in Jobs : event'[k] = IF k = j THEN Became(prev, s) ELSE event[k]
    BY <2>1
  <2>3. Became(prev, s).prev \in Statuses /\ Became(prev, s).new \in Statuses
    BY DEF Became
  <2>4. \A k \in Jobs : event'[k] # None => {event'[k].prev, event'[k].new} \subseteq Statuses
    BY <2>2, <2>3 DEF TrailOK
  <2>. QED BY <1>3, <2>1, <2>2, <2>4
<1>. QED BY <1>2, <1>4, <1>5

LEMMA SeedKeeps ==
  ASSUME IInv, NEW p \in Clients, CreateSeededScan(p)
  PROVE  IInv'
<1>1. PICK j \in Jobs, roots \in SUBSET Folders :
        /\ row' = [row EXCEPT ![j] = NewRow("SCANNING", proc[p].arg, roots)]
        /\ frontier' = [frontier EXCEPT ![j] = TRUE]
        /\ proc' = [proc EXCEPT ![p].at = "scanload", ![p].job = j]
  BY DEF CreateSeededScan
<1>2. ProcOK(proc[p]) /\ proc[p].at = "seed"
  BY CommandOK DEF CreateSeededScan, At
<1>3. NewRow("SCANNING", proc[p].arg, roots) \in Row
  BY <1>2, JobsCount DEF ProcOK, NewRow, Row, Statuses
<1>4. RowsOK'
  BY <1>1, <1>3, OutOfQueue DEF IInv, NewRow, CreateSeededScan
<1>5. ProcsOK'
  <2>. DEFINE q == [proc[p] EXCEPT !.at = "scanload", !.job = j]
  <2>1. q \in Proc /\ q.at = "scanload" /\ q.job = j /\ q.copy = proc[p].copy
    BY <1>2 DEF ProcOK, Proc
  <2>2. proc' = [proc EXCEPT ![p] = q]
    BY <1>1
  <2>. HIDE DEF q
  <2>3. ProcOK(q)
    BY <1>2, <2>1 DEF ProcOK, Inspecting
  <2>. QED BY <2>2, <2>3, ProcStep DEF IInv
<1>6. TrailOK' /\ OthersOK'
  BY <1>1 DEF CreateSeededScan, works, IInv, TrailOK, OthersOK
<1>. QED BY <1>4, <1>5, <1>6 DEF IInv

(* A command that waits goes on, with its copy or with a new one. *)
LEMMA GotoKeeps ==
  ASSUME IInv, NEW p \in Clients, proc[p].at \notin {"free", "create", "seed"},
         NEW a \in {"token", "reload", "settle", "park", "write", "snapshot"},
         NEW r \in Row, Placed(r),
         proc' = [proc EXCEPT ![p] = [proc[p] EXCEPT !.at = a, !.copy = r]]
  PROVE  ProcsOK'
<1>. DEFINE q == [proc[p] EXCEPT !.at = a, !.copy = r]
<1>1. ProcOK(proc[p])
  BY CommandOK
<1>2. q \in Proc /\ q.at = a /\ q.copy = r /\ q.job = proc[p].job
  BY <1>1 DEF ProcOK, Proc
<1>. HIDE DEF q
<1>3. ProcOK(q)
  BY <1>1, <1>2 DEF ProcOK, Inspecting
<1>. QED BY <1>3, ProcStep DEF IInv, q

LEMMA GoesOn ==
  ASSUME IInv, NEW p \in Clients, proc[p].at \notin {"free", "create", "seed"},
         NEW a \in {"reload", "park", "write", "snapshot"}, Goto(p, a)
  PROVE  ProcsOK'
<1>1. proc[p] \in Proc /\ Copy(p) \in Row /\ Placed(Copy(p))
  BY CommandOK DEF ProcOK
<1>2. [proc[p] EXCEPT !.at = a] = [proc[p] EXCEPT !.at = a, !.copy = Copy(p)]
  BY <1>1 DEF Proc, Copy
<1>3. proc' = [proc EXCEPT ![p] = [proc[p] EXCEPT !.at = a]]
  BY DEF Goto
<1>. QED BY <1>1, <1>2, <1>3, GotoKeeps

(* What a scan writes back stands in no queue, unless the job counts as one *)
(* that was put back.                                                       *)
LEMMA ScannedKeeps ==
  ASSUME RowsOK, NEW j \in Jobs, NEW r \in Row, Placed(r),
         NEW s \in {Illegal, "READY_FOR_REVIEW", "PAUSED", "FAILED"},
         s # Illegal => r.status \in {"SCANNING", "PAUSED", "READY_FOR_REVIEW"},
         SaveScanned(j, r, s)
  PROVE  RowsOK'
<1>. DEFINE q == [r EXCEPT !.status = IF s = Illegal THEN @ ELSE s]
<1>1. q \in Row /\ q.position = r.position
  BY DEF Row, Statuses, TransferResumable, TerminalStatus
<1>2. q.status = IF s = Illegal THEN r.status ELSE s
  BY DEF Row
<1>3. Save(j, q) /\ relapsed' = IF r.status \in Unfit THEN relapsed \cup {j} ELSE relapsed
  BY DEF SaveScanned
<1>. HIDE DEF q
<1>4. r.position \in Nat
  BY JobsCount DEF Row
<1>5. CASE r.status \in Unfit
  <2>1. s = Illegal
    BY <1>5 DEF Unfit, Halted
  <2>2. Placed(q)
    BY <1>1, <1>2, <2>1 DEF Placed, Illegal
  <2>3. CASE row' = row
    BY <1>3, <1>5, <2>3, RowsStay DEF RowsOK
  <2>4. ASSUME NEW o \in Row, row' = [row EXCEPT ![j] = o], o.status = q.status,
               o.position = q.position
        PROVE  RowsOK'
    <3>1. Placed(o)
      BY <2>2, <2>4 DEF Placed
    <3>. QED BY <1>3, <1>5, <2>4, <3>1, PutBack
  <2>. QED BY <1>1, <1>3, <2>3, <2>4, SavedRow
<1>6. CASE r.status \notin Unfit
  <2>1. r.status # "QUEUED" /\ q.status # "QUEUED"
    BY <1>2, <1>6 DEF Unfit
  <2>2. q.position = 0
    BY <1>1, <1>4, <2>1 DEF Placed
  <2>. QED BY <1>1, <1>3, <1>6, <2>1, <2>2, SavedOutOfQueue
<1>. QED BY <1>5, <1>6

LEMMA ScanResults ==
  ASSUME NEW s \in Statuses \cup Gone, NEW t \in {CompleteScanning(s), PauseScanning(s), FailScanning(s)}
  PROVE  /\ t \in {Illegal, "READY_FOR_REVIEW", "PAUSED", "FAILED"}
         /\ t # Illegal => s \in {"SCANNING", "PAUSED", "READY_FOR_REVIEW"}
BY DEF CompleteScanning, PauseScanning, FailScanning, Move, Illegal

LEMMA ScanKeeps ==
  ASSUME IInv, NEW p \in Clients,
         AcquireScan(p) \/ TokenFails(p) \/ LoadParked(p) \/ SettlePause(p) \/ ParkScan(p)
           \/ BeginScan(p)
  PROVE  IInv'
<1>1. ProcOK(proc[p]) /\ Job(p) \in Jobs /\ Copy(p) \in Row /\ Placed(Copy(p))
      /\ proc[p].at \in {"scanload", "token", "reload", "settle", "park"}
  BY CommandOK DEF AcquireScan, TokenFails, LoadParked, SettlePause, ParkScan, BeginScan, At,
                   Job, ProcOK
<1>2. TrailOK'
  BY DEF IInv, TrailOK, trail, AcquireScan, TokenFails, LoadParked, SettlePause, ParkScan, BeginScan
<1>3. OthersOK'
  BY <1>1 DEF IInv, OthersOK, works, AcquireScan, TokenFails, LoadParked, SettlePause, ParkScan,
              BeginScan
<1>4. row[Job(p)] \in Row /\ Placed(row[Job(p)])
  BY <1>1, PlacedRows DEF IInv
<1>5. ProcsOK'
  <2>1. ASSUME NEW a \in {"token", "park"},
               proc' = [proc EXCEPT ![p].at = a, ![p].copy = row[Job(p)]]
        PROVE  ProcsOK'
    <3>1. proc' = [proc EXCEPT ![p] = [proc[p] EXCEPT !.at = a, !.copy = row[Job(p)]]]
      BY <2>1 DEF IInv, ProcsOK
    <3>. QED BY <1>1, <1>4, <3>1, GotoKeeps
  <2>2. CASE End(p)
    BY <2>2, EndKeeps DEF IInv
  <2>3. ASSUME NEW a \in {"reload", "park"}, Goto(p, a)
        PROVE  ProcsOK'
    BY <1>1, <2>3, GoesOn
  <2>. QED BY <2>1, <2>2, <2>3 DEF AcquireScan, TokenFails, LoadParked, SettlePause, ParkScan,
                                   BeginScan
<1>6. RowsOK'
  <2>1. CASE row' = row /\ relapsed' = relapsed
    BY <2>1, RowsStay DEF IInv, RowsOK
  <2>2. CASE ParkScan(p)
    <3>1. Copy(p).status \in Statuses \cup Gone
      BY <1>1 DEF Row
    <3>. QED BY <1>1, <2>2, <3>1, ScanResults, ScannedKeeps DEF ParkScan, IInv
  <2>3. CASE BeginScan(p) /\ row' # row
    <3>. DEFINE r == [Copy(p) EXCEPT !.status = "SCANNING"]
    <3>1. CanScan(Copy(p)) /\ Save(Job(p), r) /\ relapsed' = relapsed
      BY <2>3 DEF BeginScan, trail
    <3>2. Copy(p).position = 0
      <4>1. Copy(p).status # "QUEUED"
        BY <3>1 DEF CanScan, StartScanning, Move
      <4>. QED BY <1>1, <4>1 DEF Placed, Row
    <3>3. r \in Row /\ r.status = "SCANNING" /\ r.position = 0
      BY <1>1, <3>2 DEF Row, Statuses
    <3>. HIDE DEF r
    <3>. QED BY <1>1, <3>1, <3>3, SavedOutOfQueue DEF IInv
  <2>. QED BY <2>1, <2>2, <2>3 DEF AcquireScan, TokenFails, LoadParked, SettlePause, BeginScan,
                                   trail
<1>. QED BY <1>2, <1>3, <1>5, <1>6 DEF IInv

LEMMA LeaseKeeps ==
  ASSUME IInv, NEW p \in Clients, AcquireLease(p)
  PROVE  IInv'
<1>1. ProcOK(proc[p]) /\ Job(p) \in Jobs /\ proc[p].at = "lease"
  BY CommandOK DEF AcquireLease, At, Job, ProcOK
<1>2. RowsOK' /\ TrailOK' /\ OthersOK'
  BY <1>1 DEF AcquireLease, IInv, RowsOK, QueueIsAnOrder, TrailOK, trail, OthersOK
<1>3. ProcsOK'
  <2>1. CASE End(p)
    BY <2>1, EndKeeps DEF IInv
  <2>2. ASSUME NEW a \in {"write", "snapshot"}, Goto(p, a)
        PROVE  ProcsOK'
    BY <1>1, <2>2, GoesOn
  <2>. QED BY <2>1, <2>2 DEF AcquireLease
<1>. QED BY <1>2, <1>3 DEF IInv

LEMMA StatusKeeps ==
  ASSUME IInv, NEW p \in Clients, WriteStarted(p) \/ ResumeHalts(p) \/ SettleStop(p)
  PROVE  IInv'
<1>1. Job(p) \in Jobs /\ Copy(p) \in Row /\ ProcOK(proc[p]) /\ relapsed' = relapsed
  BY CommandOK DEF WriteStarted, ResumeHalts, SettleStop, At, Job, ProcOK
<1>2. OthersOK'
  <2>1. CASE run' = run
    BY <2>1 DEF WriteStarted, ResumeHalts, SettleStop, works, IInv, OthersOK
  <2>2. CASE WriteStarted(p)
    <3>1. PICK s \in Started(Job(p), Copy(p).status) :
            run' = [Copy(p) EXCEPT !.status = s, !.position = 0]
      BY <2>2 DEF WriteStarted
    <3>2. s \in Statuses \cup Gone /\ 0 \in 0..Cardinality(Jobs)
      BY JobsCount DEF Started, ByStart, ByContinue, ByResume, Running, Statuses, UnfinishedMutation
    <3>3. run' \in Row
      BY <1>1, <3>1, <3>2 DEF Row
    <3>. QED BY <2>2, <3>3 DEF WriteStarted, IInv, OthersOK
  <2>. QED BY <2>1, <2>2 DEF ResumeHalts, SettleStop, works
<1>3. CASE UNCHANGED <<row, event>>
  <2>1. RowsOK' /\ TrailOK'
    BY <1>1, <1>3 DEF WriteStarted, ResumeHalts, SettleStop, IInv, RowsOK, QueueIsAnOrder, TrailOK
  <2>. QED BY <1>2, <2>1, EndKeeps DEF IInv, WriteStarted, ResumeHalts, SettleStop
<1>4. CASE \E s \in Statuses \ {"QUEUED"} :
             /\ Copy(p).status \in Statuses
             /\ PersistStatus(Job(p), Copy(p), Copy(p).status, s)
  <2>1. /\ RowsOK'
        /\ \A k \in Jobs : event'[k] # None => {event'[k].prev, event'[k].new} \subseteq Statuses
        /\ event' = [k \in Jobs |-> event'[k]]
    BY <1>1, <1>4, PersistKeeps DEF IInv
  <2>2. TrailOK'
    BY <2>1 DEF WriteStarted, ResumeHalts, SettleStop, IInv, TrailOK
  <2>. QED BY <1>2, <2>1, <2>2, EndKeeps DEF IInv, WriteStarted, ResumeHalts, SettleStop
<1>5. CASE WriteStarted(p)
  <2>1. PICK s \in Started(Job(p), Copy(p).status) :
          PersistStatus(Job(p), Copy(p), Copy(p).status, s)
    BY <1>5 DEF WriteStarted
  <2>2. s \in Running /\ Copy(p).status \in Statuses
    BY <2>1 DEF Started, ByStart, ByContinue, ByResume, Running, Statuses, TransferResumable,
                 UnfinishedMutation
  <2>3. s \in Statuses \ {"QUEUED"}
    BY <2>2 DEF Running, Statuses, UnfinishedMutation
  <2>. QED BY <1>4, <2>1, <2>2, <2>3
<1>6. CASE SettleStop(p) /\ ~UNCHANGED <<row, event>>
  <2>. DEFINE s == IF proc[p].cmd = "cancel" THEN CancelJob(Copy(p).status)
                                             ELSE PauseTransfer(Copy(p).status)
  <2>1. s # Illegal /\ PersistStatus(Job(p), Copy(p), Copy(p).status, s)
    BY <1>6 DEF SettleStop
  <2>2. s \in {"CANCELLED", "PAUSED"} /\ Copy(p).status \in Statuses
    BY <2>1 DEF CancelJob, PauseTransfer, Move, Statuses, UnfinishedMutation, TransferResumable,
                TerminalStatus
  <2>3. s \in Statuses \ {"QUEUED"}
    BY <2>2 DEF Statuses, TerminalStatus, TransferResumable
  <2>. HIDE DEF s
  <2>. QED BY <1>4, <2>1, <2>2, <2>3
<1>7. CASE ResumeHalts(p)
  <2>1. Copy(p).status \in Statuses /\ "AUTH_REQUIRED" \in Statuses \ {"QUEUED"}
    BY <1>7 DEF ResumeHalts, Statuses, TransferResumable
  <2>. QED BY <1>4, <1>7, <2>1 DEF ResumeHalts
<1>. QED BY <1>3, <1>5, <1>6, <1>7

LEMMA RefusedKeeps ==
  ASSUME IInv, NEW p \in Clients, Refused(p)
  PROVE  IInv'
<1>1. RowsOK' /\ TrailOK' /\ OthersOK'
  BY DEF Refused, IInv, RowsOK, QueueIsAnOrder, TrailOK, trail, works, OthersOK
<1>. QED BY <1>1, EndKeeps DEF IInv, Refused

LEMMA TaskKeeps ==
  ASSUME IInv, NEW j \in Jobs, Task(j)
  PROVE  IInv'
<1>1. row[j] \in Row /\ Placed(row[j])
  BY PlacedRows DEF IInv
<1>2. CASE ScanDone(j)
  <2>1. RowsOK' /\ ProcsOK'
    BY <1>2 DEF ScanDone, IInv, RowsOK, QueueIsAnOrder, ProcsOK
  <2>2. TrailOK'
    BY <1>2 DEF ScanDone, IInv, TrailOK
  <2>3. OthersOK'
    BY <1>1, <1>2 DEF ScanDone, IInv, OthersOK
  <2>. QED BY <2>1, <2>2, <2>3 DEF IInv
<1>3. CASE ScanEnds(j)
  <2>1. scanned[j] \in Row /\ Placed(scanned[j])
    BY DEF IInv, OthersOK
  <2>2. PICK t \in {CompleteScanning(scanned[j].status), PauseScanning(scanned[j].status),
                    FailScanning(scanned[j].status)} : SaveScanned(j, scanned[j], t)
    BY <1>3 DEF ScanEnds
  <2>3. scanned[j].status \in Statuses \cup Gone
    BY <2>1 DEF Row
  <2>4. RowsOK'
    BY <2>1, <2>2, <2>3, ScanResults, ScannedKeeps DEF IInv
  <2>5. TrailOK' /\ ProcsOK'
    BY <1>3 DEF ScanEnds, IInv, TrailOK, ProcsOK
  <2>6. OthersOK'
    BY <1>3, EmptyRow DEF ScanEnds, IInv, OthersOK
  <2>. QED BY <2>4, <2>5, <2>6 DEF IInv
<1>4. CASE WriteOutcome(j)
  <2>1. run \in Row /\ run.status \in Statuses
    BY <1>4 DEF WriteOutcome, Running, Statuses, UnfinishedMutation, IInv, OthersOK
  <2>2. PICK o \in {"PAUSED", "CANCELLED", "COMPLETED", "CANARY_REVIEW"} \cup Halted :
          PersistStatus(j, run, run.status, o)
    BY <1>4 DEF WriteOutcome
  <2>3. o \in Statuses \ {"QUEUED"}
    BY <2>2 DEF Halted, Statuses, TransferResumable, TerminalStatus
  <2>4. /\ RowsOK'
        /\ \A k \in Jobs : event'[k] # None => {event'[k].prev, event'[k].new} \subseteq Statuses
        /\ event' = [k \in Jobs |-> event'[k]]
    BY <1>4, <2>1, <2>2, <2>3, PersistKeeps DEF IInv, WriteOutcome
  <2>5. TrailOK' /\ OthersOK' /\ ProcsOK'
    BY <1>4, <2>4, EmptyRow DEF WriteOutcome, IInv, TrailOK, OthersOK, ProcsOK
  <2>. QED BY <2>4, <2>5 DEF IInv
<1>5. CASE ReleaseLease(j)
  <2>1. RowsOK' /\ TrailOK' /\ OthersOK'
    BY <1>5 DEF ReleaseLease, IInv, RowsOK, QueueIsAnOrder, TrailOK, trail, OthersOK
  <2>2. ProcsOK'
    <3>1. \A p \in Clients : proc'[p] = Free \/ proc'[p] = proc[p]
      BY <1>5 DEF ReleaseLease
    <3>2. \A p \in Clients : ProcOK(proc'[p])
      BY <3>1, FreeOK DEF IInv, ProcsOK
    <3>3. proc' = [p \in Clients |-> proc'[p]]
      BY <1>5 DEF ReleaseLease
    <3>. QED BY <3>2, <3>3 DEF ProcsOK, ProcOK
  <2>. QED BY <2>1, <2>2 DEF IInv
<1>6. CASE SelectCohort(j)
  <2>1. RowsOK' /\ OthersOK' /\ ProcsOK'
    BY <1>6 DEF SelectCohort, works, IInv, RowsOK, QueueIsAnOrder, OthersOK, ProcsOK
  <2>2. TrailOK'
    BY <1>6 DEF SelectCohort, IInv, TrailOK
  <2>. QED BY <2>1, <2>2 DEF IInv
<1>. QED BY <1>2, <1>3, <1>4, <1>5, <1>6 DEF Task

--------------------------------------------------------------------------------
(* The queue. *)

(* The rank of a job among the queued ones counts it, and grows along the   *)
(* order.                                                                   *)
LEMMA RankBounds ==
  ASSUME NEW snap \in Snap, NEW S \in SUBSET Jobs, NEW k \in S
  PROVE  Rank(snap, S, k) \in 1..Cardinality(S)
<1>. DEFINE A == {i \in S : Sorted(snap, i, k)}
<1>1. IsFiniteSet(S) /\ Cardinality(S) \in Nat
  BY JobsCount, FS_Subset, FS_CardinalityType
<1>2. IsFiniteSet(A) /\ Cardinality(A) <= Cardinality(S) /\ Cardinality(A) \in Nat
  BY <1>1, FS_Subset, FS_CardinalityType
<1>3. k \in A
  BY RowsAssumption DEF Sorted
<1>4. Cardinality(A) # 0
  BY <1>2, <1>3, FS_EmptySet
<1>. QED BY <1>1, <1>2, <1>4 DEF Rank

LEMMA RankGrows ==
  ASSUME NEW snap \in Snap, NEW S \in SUBSET Jobs, NEW k \in S, NEW l \in S,
         k # l, Sorted(snap, k, l)
  PROVE  Rank(snap, S, k) < Rank(snap, S, l)
<1>. DEFINE A == {i \in S : Sorted(snap, i, k)}
            B == {i \in S : Sorted(snap, i, l)}
<1>1. IsFiniteSet(S)
  BY JobsCount, FS_Subset
<1>2. /\ \A i \in S : snap[i].position \in Int /\ Id[i] \in Int
      /\ Id[k] # Id[l]
  BY JobsCount, RowsAssumption DEF Snap
<1>3. A \subseteq B
  BY <1>2 DEF Sorted
<1>4. l \in B /\ l \notin A
  BY <1>2 DEF Sorted
<1>5. IsFiniteSet(A) /\ IsFiniteSet(B)
  BY <1>1, FS_Subset
<1>6. Cardinality(A) \in Nat /\ Cardinality(B) \in Nat
  BY <1>5, FS_CardinalityType
<1>7. Cardinality(A) <= Cardinality(B) /\ Cardinality(A) # Cardinality(B)
  BY <1>3, <1>4, <1>5, FS_Subset
<1>. QED BY <1>6, <1>7 DEF Rank

(* A queue command that is about to be committed: where it puts each job. *)
LEMMA Renumbering ==
  ASSUME NEW p \in Clients, ProcOK(proc[p]), At(p, "commit")
  PROVE  LET new == Renumbered(p) IN
         /\ DOMAIN new = Others(p) \cup {Job(p)} /\ Job(p) \in Jobs /\ Others(p) \subseteq Jobs
         /\ \A k \in Others(p) : /\ new[k].status = "QUEUED"
                                 /\ new[k].position \in 1..Cardinality(Jobs)
         /\ \A k, l \in Others(p) :
              proc[p].snap[k].position < proc[p].snap[l].position
              => new[k].position < new[l].position
         /\ \A k, l \in Others(p) : k # l => new[k].position # new[l].position
         /\ \/ /\ proc[p].cmd = "remove" /\ new[Job(p)].position = 0
               /\ new[Job(p)].status \in {"READY_FOR_REVIEW", "CANARY_REVIEW", "PAUSED"}
            \/ /\ new[Job(p)].status = "QUEUED"
               /\ new[Job(p)].position \in 1..Cardinality(Jobs)
               /\ \A k \in Others(p) : new[k].position # new[Job(p)].position
<1>. DEFINE snap == proc[p].snap
            rank(k) == Rank(snap, Others(p), k)
            new == Renumbered(p)
            place(k) == IF proc[p].cmd = "remove" \/ rank(k) < Insert(p)
                        THEN rank(k) ELSE rank(k) + 1
<1>1. Job(p) \in Jobs /\ snap \in Snap /\ Job(p) \notin Others(p) /\ Others(p) \subseteq Jobs
  BY DEF ProcOK, Proc, At, Job, Others, InQueue
<1>2. /\ IsFiniteSet(Others(p)) /\ Cardinality(Others(p)) \in Nat
      /\ Cardinality(Others(p)) + 1 <= Cardinality(Jobs) /\ Cardinality(Jobs) \in Nat
  <2>1. IsFiniteSet(Others(p)) /\ Cardinality(Others(p)) \in Nat
    BY <1>1, JobsCount, FS_Subset, FS_CardinalityType
  <2>2. Cardinality(Others(p) \cup {Job(p)}) = Cardinality(Others(p)) + 1
    BY <1>1, <2>1, FS_AddElement
  <2>3. Cardinality(Others(p) \cup {Job(p)}) <= Cardinality(Jobs)
    BY <1>1, JobsCount, FS_Subset
  <2>. QED BY <2>1, <2>2, <2>3, JobsCount
<1>3. Insert(p) \in 1..(Cardinality(Others(p)) + 1)
  <2>1. proc[p].place \in Nat /\ proc[p].place <= Cardinality(Others(p)) + 1
    BY JobsCount DEF ProcOK, Proc, At, Others, Job
  <2>. QED BY <1>2, <2>1 DEF Insert
<1>4. \A k \in Others(p) : rank(k) \in 1..Cardinality(Others(p))
  BY <1>1, RankBounds
<1>5. /\ \A k, l \in Others(p) : snap[k].position < snap[l].position => rank(k) < rank(l)
      /\ \A k, l \in Others(p) : k # l => rank(k) < rank(l) \/ rank(l) < rank(k)
  <2>1. \A k, l \in Others(p) : k # l /\ Sorted(snap, k, l) => rank(k) < rank(l)
    BY <1>1, RankGrows
  <2>2. \A k \in Others(p) : snap[k].position \in Int /\ Id[k] \in Int
    BY <1>1, JobsCount, RowsAssumption DEF Snap
  <2>3. \A k, l \in Others(p) : snap[k].position < snap[l].position => k # l
    BY <2>2
  <2>4. \A k, l \in Others(p) : Sorted(snap, k, l) \/ Sorted(snap, l, k)
    BY <2>2 DEF Sorted
  <2>5. \A k, l \in Others(p) : snap[k].position < snap[l].position => Sorted(snap, k, l)
    BY DEF Sorted
  <2>. HIDE DEF rank
  <2>. QED BY <2>1, <2>3, <2>4, <2>5
<1>6. /\ DOMAIN new = Others(p) \cup {Job(p)}
      /\ \A k \in Others(p) : new[k] = [status |-> "QUEUED", position |-> place(k)]
      /\ new[Job(p)] = IF proc[p].cmd = "remove"
                       THEN [status |-> proc[p].restored, position |-> 0]
                       ELSE [status |-> "QUEUED", position |-> Insert(p)]
  BY <1>1 DEF Renumbered
<1>. HIDE DEF new, rank
<1>7. \A k \in Others(p) : place(k) \in 1..Cardinality(Jobs)
  BY <1>2, <1>3, <1>4
<1>8. /\ \A k, l \in Others(p) : snap[k].position < snap[l].position => place(k) < place(l)
      /\ \A k, l \in Others(p) : k # l => place(k) # place(l)
  BY <1>2, <1>3, <1>4, <1>5
<1>9. proc[p].cmd # "remove" => \A k \in Others(p) : place(k) # Insert(p)
  BY <1>2, <1>3, <1>4
<1>10. proc[p].cmd = "remove" =>
         proc[p].restored \in {"READY_FOR_REVIEW", "CANARY_REVIEW", "PAUSED"}
  BY DEF ProcOK, At
<1>11. Insert(p) \in 1..Cardinality(Jobs)
  BY <1>2, <1>3
<1>. HIDE DEF place
<1>12. \A k \in Others(p) : new[k].status = "QUEUED" /\ new[k].position = place(k)
  BY <1>6
<1>13. CASE proc[p].cmd = "remove"
  <2>1. new[Job(p)].status = proc[p].restored /\ new[Job(p)].position = 0
    BY <1>6, <1>13
  <2>. QED BY <1>1, <1>6, <1>7, <1>8, <1>10, <1>12, <1>13, <2>1 DEF new
<1>14. CASE proc[p].cmd # "remove"
  <2>1. new[Job(p)].status = "QUEUED" /\ new[Job(p)].position = Insert(p)
    BY <1>6, <1>14
  <2>. QED BY <1>1, <1>6, <1>7, <1>8, <1>9, <1>11, <1>12, <1>14, <2>1 DEF new
<1>. QED BY <1>13, <1>14

(* What a commit that passes the comparisons does to the rows.              *)
Swapped(p) ==
  /\ SameQueue(p) /\ SameRows(p)
  /\ row' = [j \in Jobs |->
       IF j \in DOMAIN Renumbered(p)
       THEN [row[j] EXCEPT !.status = Renumbered(p)[j].status,
                           !.position = Renumbered(p)[j].position]
       ELSE row[j]]

LEMMA SwappedRows ==
  ASSUME IInv, NEW p \in Clients, At(p, "commit"), Swapped(p)
  PROVE  LET new == Renumbered(p) IN
         /\ row' \in [Jobs -> Row]
         /\ \A j \in DOMAIN new : /\ row'[j].status = new[j].status
                                  /\ row'[j].position = new[j].position
                                  /\ row'[j].roots = row[j].roots
         /\ \A j \in Jobs \ DOMAIN new : row'[j] = row[j] /\ row[j].status # "QUEUED"
         /\ \A k \in Others(p) : /\ row[k].status = "QUEUED"
                                 /\ row[k].position = proc[p].snap[k].position
         /\ Enqueue(row[Job(p)].status) # Illegal
<1>. DEFINE new == Renumbered(p)
            snap == proc[p].snap
<1>1. ProcOK(proc[p]) /\ row \in [Jobs -> Row]
  BY CommandOK DEF IInv, RowsOK
<1>2. /\ DOMAIN new = Others(p) \cup {Job(p)} /\ Job(p) \in Jobs /\ Others(p) \subseteq Jobs
      /\ \A j \in DOMAIN new : /\ new[j].status \in Statuses
                               /\ new[j].position \in 0..Cardinality(Jobs)
  <2>1. {"QUEUED", "READY_FOR_REVIEW", "CANARY_REVIEW", "PAUSED"} \subseteq Statuses
    BY DEF Statuses, TransferResumable
  <2>2. 0 \in 0..Cardinality(Jobs) /\ 1..Cardinality(Jobs) \subseteq 0..Cardinality(Jobs)
    BY JobsCount
  <2>. QED BY <1>1, <2>1, <2>2, Renumbering
<1>. HIDE DEF new
<1>3. \A j \in DOMAIN new :
        LET r == [row[j] EXCEPT !.status = new[j].status, !.position = new[j].position] IN
        /\ r \in Row /\ r.status = new[j].status /\ r.position = new[j].position
        /\ r.roots = row[j].roots
  <2>. TAKE j \in DOMAIN new
  <2>1. row[j] \in Row /\ new[j].status \in Statuses \cup Gone
        /\ new[j].position \in 0..Cardinality(Jobs)
    BY <1>1, <1>2
  <2>. QED BY <2>1 DEF Row
<1>4. \A j \in Jobs : row'[j] =
        IF j \in DOMAIN new
        THEN [row[j] EXCEPT !.status = new[j].status, !.position = new[j].position]
        ELSE row[j]
  BY DEF Swapped, new
<1>5. row' \in [Jobs -> Row]
  <2>1. \A j \in Jobs : row'[j] \in Row
    BY <1>1, <1>3, <1>4
  <2>2. row' = [j \in Jobs |-> row'[j]]
    BY DEF Swapped
  <2>. QED BY <2>1, <2>2
<1>6. \A j \in Jobs : (snap[j].status = "QUEUED" \/ row[j].status = "QUEUED") =>
        row[j].status = snap[j].status /\ row[j].position = snap[j].position
  <2>1. \A j \in Jobs : (snap[j].status = "QUEUED" \/ row[j].status = "QUEUED") =>
          Now(j) = snap[j]
    BY DEF Swapped, SameQueue
  <2>2. \A j \in Jobs : Now(j).status = row[j].status /\ Now(j).position = row[j].position
    BY DEF Now
  <2>. QED BY <2>1, <2>2
<1>7. \A j \in Jobs \ DOMAIN new : row[j].status # "QUEUED"
  BY <1>2, <1>6 DEF Others, InQueue
<1>8. Enqueue(row[Job(p)].status) # Illegal
  <2>1. Now(Job(p)) = snap[Job(p)]
    BY <1>2 DEF Swapped, SameRows, new
  <2>2. row[Job(p)].status = snap[Job(p)].status
    BY <2>1 DEF Now
  <2>. QED BY <1>1, <2>2 DEF ProcOK, At, Job
<1>9. \A k \in Others(p) : row[k].status = "QUEUED" /\ row[k].position = snap[k].position
  BY <1>6 DEF Others, InQueue
<1>. QED BY <1>2, <1>3, <1>4, <1>5, <1>7, <1>8, <1>9 DEF new

LEMMA CommitKeeps ==
  ASSUME IInv, NEW p \in Clients, PersistQueueChanges(p)
  PROVE  IInv'
<1>1. At(p, "commit") /\ ProcsOK'
  BY EndKeeps DEF PersistQueueChanges, IInv
<1>2. CASE UNCHANGED <<row, from, entries>>
  BY <1>1, <1>2 DEF PersistQueueChanges, IInv, RowsOK, QueueIsAnOrder, TrailOK, OthersOK, works
<1>3. CASE SameQueue(p) /\ SameRows(p)
  <2>. DEFINE new == Renumbered(p)
  <2>1. Swapped(p)
    BY <1>3 DEF PersistQueueChanges, Swapped
  <2>2. ProcOK(proc[p])
    BY CommandOK
  <2>3. /\ DOMAIN new = Others(p) \cup {Job(p)} /\ Job(p) \in Jobs /\ Others(p) \subseteq Jobs
        /\ \A k \in Others(p) : /\ new[k].status = "QUEUED"
                                /\ new[k].position \in 1..Cardinality(Jobs)
        /\ \A k, l \in Others(p) :
             proc[p].snap[k].position < proc[p].snap[l].position
             => new[k].position < new[l].position
        /\ \A k, l \in Others(p) : k # l => new[k].position # new[l].position
        /\ \/ /\ proc[p].cmd = "remove" /\ new[Job(p)].position = 0
              /\ new[Job(p)].status \in {"READY_FOR_REVIEW", "CANARY_REVIEW", "PAUSED"}
           \/ /\ new[Job(p)].status = "QUEUED"
              /\ new[Job(p)].position \in 1..Cardinality(Jobs)
              /\ \A k \in Others(p) : new[k].position # new[Job(p)].position
    BY <1>1, <2>2, Renumbering
  <2>4. /\ row' \in [Jobs -> Row]
        /\ \A j \in DOMAIN new : row'[j].status = new[j].status /\ row'[j].position = new[j].position
        /\ \A j \in Jobs \ DOMAIN new : row'[j] = row[j] /\ row[j].status # "QUEUED"
        /\ \A k \in Others(p) : /\ row[k].status = "QUEUED"
                                /\ row[k].position = proc[p].snap[k].position
        /\ Enqueue(row[Job(p)].status) # Illegal
    BY <1>1, <2>1, SwappedRows
  <2>. HIDE DEF new
  <2>5. \A j \in Jobs : row'[j].status = "QUEUED" <=> row'[j].position > 0
    <3>1. \A j \in Jobs : row[j].status = "QUEUED" <=> row[j].position > 0
      BY DEF IInv, RowsOK, QueueIsAnOrder
    <3>. QED BY <2>3, <2>4, <3>1
  <2>6. \A j, k \in Jobs : row'[j].status = "QUEUED" /\ j # k =>
          row'[j].position # row'[k].position
    <3>. SUFFICES ASSUME NEW j \in Jobs, NEW k \in Jobs, j # k, row'[j].status = "QUEUED",
                         row'[k].status = "QUEUED"
                  PROVE  row'[j].position # row'[k].position
      BY <2>5
    <3>1. j \in DOMAIN new /\ k \in DOMAIN new
      BY <2>4
    <3>. QED BY <2>3, <2>4, <3>1
  <2>7. RowsOK'
    BY <2>4, <2>5, <2>6 DEF RowsOK, QueueIsAnOrder, PersistQueueChanges, IInv
  <2>8. TrailOK'
    <3>1. from' \in [Jobs -> Statuses \cup {"none"}]
      <4>1. row[Job(p)].status \in Statuses
        BY <2>4 DEF Enqueue, Move, Statuses, TransferResumable
      <4>2. \A j \in DOMAIN new : From(p, j) \in Statuses \cup {"none"}
        BY <2>3, <2>4, <4>1 DEF From, IInv, TrailOK
      <4>3. from' = [j \in Jobs |-> IF j \in DOMAIN new THEN From(p, j) ELSE from[j]]
        BY <1>3 DEF PersistQueueChanges, new
      <4>. QED BY <4>2, <4>3 DEF IInv, TrailOK
    <3>2. entries' \in [Jobs -> Nat]
      <4>1. entries' = [j \in Jobs |->
               entries[j] + IF row'[j].status = "QUEUED" /\ row[j].status # "QUEUED"
                            THEN 1 ELSE 0]
        BY <1>3 DEF PersistQueueChanges
      <4>. QED BY <4>1 DEF IInv, TrailOK
    <3>. QED BY <3>1, <3>2 DEF PersistQueueChanges, IInv, TrailOK
  <2>9. OthersOK'
    BY DEF PersistQueueChanges, IInv, OthersOK, works
  <2>. QED BY <1>1, <2>7, <2>8, <2>9 DEF IInv
<1>. QED BY <1>2, <1>3 DEF PersistQueueChanges

(* A read of the removal adds to what the command knows, and no more. *)
LEMMA InspectOK ==
  ASSUME NEW p \in Clients, ProcOK(proc[p]), proc[p].at \in Inspecting,
         NEW at \in Inspecting \cup {"commit"},
         NEW seen \in [latest : Statuses \cup {"none"}, cohort : BOOLEAN, frontier : BOOLEAN],
         NEW s \in Statuses \cup {"none"},
         at = "commit" => s \in {"READY_FOR_REVIEW", "CANARY_REVIEW", "PAUSED"}
  PROVE  ProcOK([proc[p] EXCEPT !.at = at, !.seen = seen, !.restored = s])
<1>. DEFINE q == [proc[p] EXCEPT !.at = at, !.seen = seen, !.restored = s]
<1>0. proc[p] \in Proc
  BY DEF ProcOK
<1>1. /\ q \in Proc /\ q.at = at /\ q.restored = s /\ q.snap = proc[p].snap
      /\ q.job = proc[p].job /\ q.copy = proc[p].copy /\ q.cmd = proc[p].cmd
      /\ q.place = proc[p].place /\ q.arg = proc[p].arg
  <2>1. q \in Proc
    BY <1>0 DEF Proc
  <2>2. q.at = at /\ q.restored = s
    BY <1>0 DEF Proc
  <2>3. /\ q.snap = proc[p].snap /\ q.job = proc[p].job /\ q.copy = proc[p].copy
        /\ q.cmd = proc[p].cmd /\ q.place = proc[p].place /\ q.arg = proc[p].arg
    BY <1>0 DEF Proc
  <2>. QED BY <2>1, <2>2, <2>3
<1>. HIDE DEF q
<1>2. ProcOK(q)
  BY <1>1 DEF ProcOK, Inspecting
<1>. QED BY <1>2 DEF q

LEMMA SeeKeeps ==
  ASSUME IInv, NEW p \in Clients, proc[p].at \in Inspecting,
         NEW at \in {"cohort", "checkpoints", "origin"},
         NEW seen \in [latest : Statuses \cup {"none"}, cohort : BOOLEAN, frontier : BOOLEAN],
         See(p, at, seen)
  PROVE  ProcsOK'
<1>1. ProcOK(proc[p]) /\ proc[p] \in Proc
  BY CommandOK DEF ProcOK
<1>2. ProcOK([proc[p] EXCEPT !.at = at, !.seen = seen, !.restored = proc[p].restored])
  BY <1>1, InspectOK DEF Proc, Inspecting
<1>3. [proc[p] EXCEPT !.at = at, !.seen = seen]
      = [proc[p] EXCEPT !.at = at, !.seen = seen, !.restored = proc[p].restored]
  BY <1>1 DEF Proc
<1>4. proc' = [proc EXCEPT ![p] = [proc[p] EXCEPT !.at = at, !.seen = seen]]
  BY DEF See, IInv, ProcsOK
<1>. QED BY <1>2, <1>3, <1>4, ProcStep DEF IInv

LEMMA RestoreKeeps ==
  ASSUME IInv, NEW p \in Clients, proc[p].at \in Inspecting,
         NEW at \in {"commit", "phase", "items"}, NEW s \in Statuses \cup {"none"},
         at = "commit" => s \in {"READY_FOR_REVIEW", "CANARY_REVIEW", "PAUSED"},
         Restore(p, at, s)
  PROVE  ProcsOK'
<1>1. ProcOK(proc[p]) /\ proc[p] \in Proc
  BY CommandOK DEF ProcOK
<1>2. ProcOK([proc[p] EXCEPT !.at = at, !.seen = proc[p].seen, !.restored = s])
  BY <1>1, InspectOK DEF Proc, Inspecting
<1>3. [proc[p] EXCEPT !.at = at, !.restored = s]
      = [proc[p] EXCEPT !.at = at, !.seen = proc[p].seen, !.restored = s]
  BY <1>1 DEF Proc
<1>4. proc' = [proc EXCEPT ![p] = [proc[p] EXCEPT !.at = at, !.restored = s]]
  BY DEF Restore, IInv, ProcsOK
<1>. QED BY <1>2, <1>3, <1>4, ProcStep DEF IInv

LEMMA InspectKeeps ==
  ASSUME IInv, NEW p \in Clients, Inspect(p)
  PROVE  ProcsOK'
<1>1. ProcOK(proc[p]) /\ proc[p].at \in Inspecting /\ Job(p) \in Jobs
  BY CommandOK DEF Inspect, ReadEvent, ReadCohort, ReadCheckpoints, ReadOrigin, ReadPhase,
                   ReadItems, At, Inspecting, ProcOK, Job
<1>. DEFINE Seen == [latest : Statuses \cup {"none"}, cohort : BOOLEAN, frontier : BOOLEAN]
<1>2. proc[p].seen \in Seen /\ LatestBecame(Job(p)) \in Statuses \cup {"none"}
      /\ begun[Job(p)] \in BOOLEAN /\ frontier[Job(p)] \in BOOLEAN
  BY <1>1 DEF ProcOK, Proc, IInv, TrailOK, LatestBecame
<1>3. {"READY_FOR_REVIEW", "CANARY_REVIEW", "PAUSED"} \subseteq Statuses
  BY DEF Statuses, TransferResumable
<1>4. ASSUME NEW at \in {"cohort", "checkpoints", "origin"}, NEW seen \in Seen, See(p, at, seen)
      PROVE  ProcsOK'
  BY <1>1, <1>4, SeeKeeps
<1>5. ASSUME NEW at \in {"commit", "phase", "items"},
             NEW s \in {"READY_FOR_REVIEW", "CANARY_REVIEW", "PAUSED", "none"},
             at = "commit" => s # "none", Restore(p, at, s)
      PROVE  ProcsOK'
  BY <1>1, <1>3, <1>5, RestoreKeeps
<1>6. CASE ReadEvent(p)
  <2>1. [proc[p].seen EXCEPT !.latest = LatestBecame(Job(p))] \in Seen
    BY <1>2
  <2>. QED BY <1>4, <1>6, <2>1 DEF ReadEvent
<1>7. CASE ReadCohort(p)
  <2>1. [proc[p].seen EXCEPT !.cohort = begun[Job(p)]] \in Seen
    BY <1>2
  <2>. QED BY <1>4, <1>7, <2>1 DEF ReadCohort
<1>8. CASE ReadCheckpoints(p)
  <2>1. [proc[p].seen EXCEPT !.frontier = frontier[Job(p)]] \in Seen
    BY <1>2
  <2>. QED BY <1>4, <1>8, <2>1 DEF ReadCheckpoints
<1>9. CASE ReadOrigin(p)
  <2>. DEFINE s == Restored(proc[p].seen, from[Job(p)])
  <2>1. s \in {"READY_FOR_REVIEW", "CANARY_REVIEW", "PAUSED", "none"}
    BY DEF Restored
  <2>2. Restore(p, IF s = "none" THEN "phase" ELSE "commit", s)
    BY <1>9 DEF ReadOrigin
  <2>. HIDE DEF s
  <2>. QED BY <1>5, <2>1, <2>2
<1>10. CASE ReadPhase(p) \/ ReadItems(p)
  BY <1>5, <1>10 DEF ReadPhase, ReadItems
<1>. QED BY <1>6, <1>7, <1>8, <1>9, <1>10 DEF Inspect

LEMMA QueueKeeps ==
  ASSUME IInv, NEW p \in Clients, Queue(p)
  PROVE  IInv'
<1>1. CASE PersistQueueChanges(p)
  BY <1>1, CommitKeeps
<1>2. CASE Snapshot(p) \/ Inspect(p)
  <2>0. UNCHANGED <<row, trail, works, left>>
    BY <1>2 DEF Snapshot, Inspect, ReadEvent, ReadCohort, ReadCheckpoints, ReadOrigin, ReadPhase,
                ReadItems, See, Restore
  <2>1. RowsOK' /\ TrailOK' /\ OthersOK'
    BY <2>0 DEF IInv, RowsOK, QueueIsAnOrder, TrailOK, trail, works, OthersOK
  <2>2. CASE Inspect(p)
    BY <2>1, <2>2, InspectKeeps DEF IInv
  <2>3. CASE End(p)
    BY <2>1, <2>3, EndKeeps DEF IInv
  <2>4. CASE Snapshot(p) /\ MayChange(p, ListJobs) /\ ~End(p)
    <3>. DEFINE at == IF proc[p].cmd = "remove" THEN "event" ELSE "commit"
                q == [proc[p] EXCEPT !.snap = ListJobs, !.since = entries[Job(p)], !.at = at]
    <3>1. proc' = [proc EXCEPT ![p] = q] /\ ProcOK(proc[p]) /\ Job(p) \in Jobs
      BY <2>4, CommandOK DEF Snapshot, At, Job, ProcOK
    <3>2. ListJobs \in Snap
      BY DEF IInv, RowsOK, Row, ListJobs, Now, Snap
    <3>3. entries[Job(p)] \in Nat
      BY <3>1 DEF IInv, TrailOK
    <3>4. /\ q \in Proc /\ q.at = at /\ q.snap = ListJobs /\ q.job = Job(p)
          /\ q.copy = proc[p].copy /\ q.cmd = proc[p].cmd /\ q.place = proc[p].place
      <4>1. proc[p] \in Proc /\ at \in Inspecting \cup {"commit"}
        BY <3>1 DEF ProcOK, Inspecting
      <4>. HIDE DEF at
      <4>2. q \in Proc
        BY <3>2, <3>3, <4>1 DEF Proc
      <4>. QED BY <4>1, <4>2 DEF Proc, Job
    <3>5. at \in {"event", "commit"} /\ (at = "event" <=> proc[p].cmd = "remove")
      OBVIOUS
    <3>. HIDE DEF q, at
    <3>6. ProcOK(q)
      BY <2>4, <3>1, <3>4, <3>5 DEF ProcOK, MayChange, Inspecting
    <3>. QED BY <2>1, <3>1, <3>6, ProcStep DEF IInv
  <2>. QED BY <1>2, <2>2, <2>3, <2>4 DEF Snapshot
<1>. QED BY <1>1, <1>2 DEF Queue


--------------------------------------------------------------------------------
(* The theorems. *)

LEMMA InitInvariant == Init => IInv
<1>. SUFFICES ASSUME Init PROVE IInv
  OBVIOUS
<1>1. PICK s \in Sessions :
        /\ row = [j \in Jobs |->
             IF s.jobs[j].status \in Gone THEN NoRow
             ELSE [NewRow(s.jobs[j].status, Owner[FirstRoot], {FirstRoot})
                     EXCEPT !.position = s.jobs[j].position]]
        /\ event = [j \in Jobs |-> s.jobs[j].event]
        /\ from = [j \in Jobs |-> s.jobs[j].from]
        /\ begun = [j \in Jobs |-> s.jobs[j].begun]
        /\ frontier = [j \in Jobs |-> s.jobs[j].frontier]
        /\ left = s.requests
  BY DEF Init
<1>2. s.requests \in Nat /\ \A j \in Jobs : KnownJob(s.jobs[j])
  BY RowsAssumption
<1>3. \A j \in Jobs : /\ row[j] \in Row
                      /\ row[j].position \in {0, s.jobs[j].position}
                      /\ row[j].status = "QUEUED" <=> row[j].position > 0
  <2>. TAKE j \in Jobs
  <2>1. s.jobs[j].status \in Statuses \cup Gone /\ s.jobs[j].position \in 0..Cardinality(Jobs)
        /\ (s.jobs[j].status = "QUEUED" <=> s.jobs[j].position > 0)
    BY <1>2 DEF KnownJob
  <2>2. CASE s.jobs[j].status \in Gone
    <3>1. row[j] = NoRow
      BY <1>1, <2>2
    <3>. QED BY <3>1, EmptyRow DEF NoRow
  <2>3. CASE s.jobs[j].status \notin Gone
    <3>1. row[j] = [status |-> s.jobs[j].status, position |-> s.jobs[j].position,
                    source |-> Owner[FirstRoot], roots |-> {FirstRoot}]
      BY <1>1, <2>3 DEF NewRow
    <3>2. Owner[FirstRoot] \in Accounts /\ FirstRoot \in Folders
      BY RowsAssumption
    <3>. QED BY <2>1, <3>1, <3>2 DEF Row
  <2>. QED BY <2>2, <2>3
<1>4. \A j, k \in Jobs : row[j].status = "QUEUED" /\ j # k => row[j].position # row[k].position
  <2>1. \A j, k \in Jobs : j # k /\ s.jobs[j].position = s.jobs[k].position =>
                             s.jobs[j].position = 0
    BY RowsAssumption
  <2>2. \A j \in Jobs : row[j].position \in Nat
    BY <1>3, JobsCount DEF Row
  <2>. QED BY <1>3, <2>1, <2>2
<1>5. RowsOK
  BY <1>1, <1>3, <1>4 DEF Init, RowsOK, QueueIsAnOrder
<1>6. TrailOK
  BY <1>1, <1>2 DEF Init, TrailOK, KnownJob
<1>7. OthersOK
  BY <1>1, <1>2, EmptyRow DEF Init, OthersOK
<1>8. ProcsOK
  BY FreeOK DEF Init, ProcsOK, ProcOK
<1>. QED BY <1>5, <1>6, <1>7, <1>8 DEF IInv

LEMMA NextInvariant == IInv /\ [Next]_vars => IInv'
<1>. SUFFICES ASSUME IInv, [Next]_vars PROVE IInv'
  OBVIOUS
<1>1. CASE UNCHANGED vars
  BY <1>1 DEF vars, trail, works, IInv, RowsOK, QueueIsAnOrder, TrailOK, OthersOK, ProcsOK
<1>2. ASSUME NEW p \in Clients, Request(p) \/ Draft(p) \/ Start(p) \/ Queue(p) \/ Refused(p)
      PROVE  IInv'
  BY <1>2, RequestKeeps, DraftKeeps, SeedKeeps, ScanKeeps, LeaseKeeps, StatusKeeps, QueueKeeps,
     RefusedKeeps DEF Start
<1>3. ASSUME NEW j \in Jobs, Task(j)
      PROVE  IInv'
  BY <1>3, TaskKeeps
<1>. QED BY <1>1, <1>2, <1>3 DEF Next

(* The invariant holds in every reachable state. *)
THEOREM Invariance == Spec => []IInv
BY InitInvariant, NextInvariant, PTL DEF Spec

(* Every row, event, copy and command has its type, whatever copy is        *)
(* written back over a row.                                                 *)
THEOREM TypeCorrect == Spec => []TypeOK
BY Invariance, InvType, PTL

(* The positions order exactly the queued jobs, for any number of jobs and  *)
(* of commands that read the queue, decide and write (persist_queue_changes *)
(* and all the commands that take a job out of the queue); except that a    *)
(* job which the end of a scan put back, with the copy it had loaded, may   *)
(* share its position with another.                                         *)
THEOREM OrderedQueue == Spec => []QueueIsAnOrder
<1>1. IInv => QueueIsAnOrder
  BY DEF IInv, RowsOK
<1>. QED BY <1>1, Invariance, PTL

--------------------------------------------------------------------------------
(* What a step may not do. *)

LockedRoots ==
  \A j \in Jobs : row[j].status \notin Gone \cup {"DRAFT"} => row'[j].roots = row[j].roots

(* A whole-row write leaves the roots, whatever the copy says. *)
LEMMA SaveKeepsRoots ==
  ASSUME RowsOK, NEW k \in Jobs, NEW r \in Row, Save(k, r)
  PROVE  LockedRoots
<1>1. CASE row' = row
  BY <1>1 DEF LockedRoots
<1>2. ASSUME NEW q, row' = [row EXCEPT ![k] = q], q.roots = row[k].roots
      PROVE  LockedRoots
  BY <1>2 DEF RowsOK, LockedRoots
<1>. QED BY <1>1, <1>2, SavedRow

LEMMA ScanKeepsRoots ==
  ASSUME RowsOK, NEW k \in Jobs, NEW r \in Row,
         NEW s \in {Illegal, "READY_FOR_REVIEW", "PAUSED", "FAILED"}, SaveScanned(k, r, s)
  PROVE  LockedRoots
<1>1. [r EXCEPT !.status = IF s = Illegal THEN @ ELSE s] \in Row
  BY DEF Row, Statuses, TransferResumable, TerminalStatus
<1>. QED BY <1>1, SaveKeepsRoots DEF SaveScanned

LEMMA RootsStep == IInv /\ [Next]_vars => LockedRoots
<1>. SUFFICES ASSUME IInv, [Next]_vars PROVE LockedRoots
  OBVIOUS
<1>1. RowsOK /\ row \in [Jobs -> Row]
  BY DEF IInv, RowsOK
<1>2. ASSUME row' = row PROVE LockedRoots
  BY <1>2 DEF LockedRoots
<1>3. ASSUME NEW k \in Jobs, row[k].status \in Gone \cup {"DRAFT"},
             \E r : row' = [row EXCEPT ![k] = r]
      PROVE  LockedRoots
  BY <1>1, <1>3 DEF LockedRoots
<1>4. ASSUME NEW k \in Jobs, NEW r \in Row, NEW s \in Statuses, NEW prev,
             PersistStatus(k, r, prev, s)
      PROVE  LockedRoots
  <2>1. [r EXCEPT !.status = s, !.position = 0] \in Row
    <3>1. s \in Statuses \cup Gone /\ 0 \in 0..Cardinality(Jobs)
      BY JobsCount
    <3>. QED BY <3>1 DEF Row
  <2>. QED BY <1>1, <1>4, <2>1, SaveKeepsRoots DEF PersistStatus
<1>5. ASSUME NEW p \in Clients, Draft(p)
      PROVE  LockedRoots
  <2>1. ProcOK(proc[p])
    BY CommandOK
  <2>2. CASE InsertJob(p)
    BY <1>3, <2>2 DEF InsertJob, Gone
  <2>3. CASE (SaveDraft(p) \/ DeleteDraft(p) \/ InsertRoot(p) \/ DeleteRoot(p)) /\ row' # row
    <3>1. Job(p) \in Jobs
      BY <2>1, <2>3 DEF SaveDraft, DeleteDraft, InsertRoot, DeleteRoot, At, Job, ProcOK
    <3>2. row[Job(p)].status = "DRAFT" /\ \E r : row' = [row EXCEPT ![Job(p)] = r]
      BY <2>3 DEF SaveDraft, DeleteDraft, InsertRoot, DeleteRoot
    <3>. QED BY <1>3, <3>1, <3>2
  <2>. QED BY <1>2, <1>5, <2>2, <2>3 DEF Draft, ValidateRoot
<1>6. ASSUME NEW p \in Clients, Start(p), row' # row
      PROVE  LockedRoots
  <2>1. Copy(p) \in Row /\ ProcOK(proc[p])
    BY CommandOK
  <2>2. CASE CreateSeededScan(p)
    BY <1>3, <2>2 DEF CreateSeededScan, Gone
  <2>3. CASE ParkScan(p)
    <3>1. Job(p) \in Jobs /\ Copy(p).status \in Statuses \cup Gone
      BY <2>1, <2>3 DEF ParkScan, At, Job, ProcOK, Row
    <3>. QED BY <1>1, <2>1, <2>3, <3>1, ScanResults, ScanKeepsRoots DEF ParkScan
  <2>4. CASE BeginScan(p)
    <3>1. Save(Job(p), [Copy(p) EXCEPT !.status = "SCANNING"]) /\ Job(p) \in Jobs
      BY <1>6, <2>1, <2>4 DEF BeginScan, At, Job, ProcOK
    <3>2. [Copy(p) EXCEPT !.status = "SCANNING"] \in Row
      BY <2>1 DEF Row, Statuses
    <3>. QED BY <1>1, <2>1, <3>1, <3>2, SaveKeepsRoots
  <2>5. CASE WriteStarted(p) \/ ResumeHalts(p) \/ SettleStop(p)
    <3>1. Job(p) \in Jobs
      BY <2>1, <2>5 DEF WriteStarted, ResumeHalts, SettleStop, At, Job, ProcOK
    <3>2. \E s \in Running \cup {"CANCELLED", "PAUSED", "AUTH_REQUIRED"} :
            PersistStatus(Job(p), Copy(p), Copy(p).status, s)
      BY <1>6, <2>5 DEF WriteStarted, ResumeHalts, SettleStop, Started, ByStart, ByContinue,
                        ByResume, Running, CancelJob, PauseTransfer, Move
    <3>3. Running \cup {"CANCELLED", "PAUSED", "AUTH_REQUIRED"} \subseteq Statuses
      BY DEF Running, Statuses, UnfinishedMutation, TransferResumable, TerminalStatus
    <3>. QED BY <1>4, <2>1, <3>1, <3>2, <3>3
  <2>. QED BY <1>6, <2>2, <2>3, <2>4, <2>5 DEF Start, AcquireScan, TokenFails, LoadParked,
                                              SettlePause, AcquireLease
<1>7. ASSUME NEW p \in Clients, Queue(p), row' # row
      PROVE  LockedRoots
  <2>1. At(p, "commit") /\ Swapped(p)
    BY <1>7 DEF Queue, Snapshot, Inspect, ReadEvent, ReadCohort, ReadCheckpoints, ReadOrigin,
                ReadPhase, ReadItems, See, Restore, PersistQueueChanges, Swapped
  <2>2. /\ \A j \in DOMAIN Renumbered(p) : row'[j].roots = row[j].roots
        /\ \A j \in Jobs \ DOMAIN Renumbered(p) : row'[j] = row[j]
    BY <2>1, SwappedRows
  <2>. QED BY <2>2 DEF LockedRoots
<1>8. ASSUME NEW k \in Jobs, ScanEnds(k)
      PROVE  LockedRoots
  <2>1. scanned[k] \in Row /\ scanned[k].status \in Statuses \cup Gone
    BY DEF IInv, OthersOK, Row
  <2>2. PICK t \in {CompleteScanning(scanned[k].status), PauseScanning(scanned[k].status),
                    FailScanning(scanned[k].status)} : SaveScanned(k, scanned[k], t)
    BY <1>8 DEF ScanEnds
  <2>. QED BY <1>1, <2>1, <2>2, ScanResults, ScanKeepsRoots
<1>9. ASSUME NEW k \in Jobs, WriteOutcome(k)
      PROVE  LockedRoots
  <2>1. PICK s \in {"PAUSED", "CANCELLED", "COMPLETED", "CANARY_REVIEW"} \cup Halted :
          PersistStatus(k, run, run.status, s)
    BY <1>9 DEF WriteOutcome
  <2>2. s \in Statuses /\ run \in Row
    BY <2>1 DEF Halted, Statuses, TransferResumable, TerminalStatus, IInv, OthersOK
  <2>. QED BY <1>1, <1>4, <2>1, <2>2
<1>10. CASE row' = row
  BY <1>2, <1>10
<1>11. CASE row' # row
  <2>1. Next
    BY <1>11 DEF vars
  <2>2. ASSUME NEW p \in Clients, Request(p) \/ Refused(p) PROVE FALSE
    BY <1>11, <2>2, RequestsRead DEF Refused
  <2>3. ASSUME NEW k \in Jobs, ScanDone(k) \/ SelectCohort(k) \/ ReleaseLease(k) PROVE FALSE
    BY <1>11, <2>3 DEF ScanDone, SelectCohort, ReleaseLease
  <2>. QED BY <1>5, <1>6, <1>7, <1>8, <1>9, <1>11, <2>1, <2>2, <2>3 DEF Next, Task
<1>. QED BY <1>10, <1>11

LocalChange ==
  \A p \in Clients : Commits(p) =>
    /\ \A j \in Jobs \ {Job(p)} : row'[j].status = row[j].status
    /\ \A j, k \in Jobs \ {Job(p)} : Before(j, k) => Before(j, k)'
    /\ row'[Job(p)].status = "QUEUED" => Enqueue(row[Job(p)].status) # Illegal

(* Only the command's own step commits its change. *)
LEMMA CommitsAreSwaps ==
  ASSUME IInv, [Next]_vars, NEW p \in Clients, Commits(p)
  PROVE  At(p, "commit") /\ Swapped(p)
<1>1. At(p, "commit") /\ proc[p].at = "commit" /\ proc'[p].at = "free" /\ row' # row
  BY DEF Commits, At
<1>2. Next /\ proc \in [Clients -> Proc]
  BY <1>1 DEF vars, IInv, ProcsOK
<1>3. \A k \in Jobs : ~Task(k)
  BY <1>1 DEF Task, ScanDone, ScanEnds, SelectCohort, WriteOutcome, ReleaseLease
<1>4. PICK o \in Clients : Draft(o) \/ Start(o) \/ Queue(o)
  BY <1>1, <1>2, <1>3, RequestsRead DEF Next, Refused
<1>5. o = p
  <2>1. \E q : proc' = [proc EXCEPT ![o] = q]
    BY <1>4 DEF Draft, Start, Queue, InsertJob, SaveDraft, DeleteDraft, ValidateRoot, InsertRoot,
       DeleteRoot, CreateSeededScan, AcquireScan, TokenFails, LoadParked, SettlePause, ParkScan,
       BeginScan, AcquireLease, WriteStarted, ResumeHalts, SettleStop, Snapshot, Inspect,
       ReadEvent, ReadCohort, ReadCheckpoints, ReadOrigin, ReadPhase, ReadItems, See, Restore,
       PersistQueueChanges, End, Goto
  <2>. QED BY <1>1, <1>2, <2>1
<1>6. PersistQueueChanges(p)
  BY <1>1, <1>4, <1>5 DEF Draft, Start, Queue, InsertJob, SaveDraft, DeleteDraft, ValidateRoot,
     InsertRoot, DeleteRoot, CreateSeededScan, AcquireScan, TokenFails, LoadParked, SettlePause,
     ParkScan, BeginScan, AcquireLease, WriteStarted, ResumeHalts, SettleStop, Snapshot, Inspect,
     ReadEvent, ReadCohort, ReadCheckpoints, ReadOrigin, ReadPhase, ReadItems, At
<1>. QED BY <1>1, <1>6 DEF PersistQueueChanges, Swapped

LEMMA LocalStep == IInv /\ [Next]_vars => LocalChange
<1>. SUFFICES ASSUME IInv, [Next]_vars, NEW p \in Clients, Commits(p)
              PROVE  /\ \A j \in Jobs \ {Job(p)} : row'[j].status = row[j].status
                     /\ \A j, k \in Jobs \ {Job(p)} : Before(j, k) => Before(j, k)'
                     /\ row'[Job(p)].status = "QUEUED" => Enqueue(row[Job(p)].status) # Illegal
  BY DEF LocalChange
<1>. DEFINE new == Renumbered(p)
<1>1. At(p, "commit") /\ Swapped(p) /\ ProcOK(proc[p])
  BY CommitsAreSwaps, CommandOK
<1>2. /\ DOMAIN new = Others(p) \cup {Job(p)}
      /\ \A k \in Others(p) : new[k].status = "QUEUED"
      /\ \A k, l \in Others(p) :
           proc[p].snap[k].position < proc[p].snap[l].position
           => new[k].position < new[l].position
  BY <1>1, Renumbering
<1>3. /\ \A j \in DOMAIN new : row'[j].status = new[j].status /\ row'[j].position = new[j].position
      /\ \A j \in Jobs \ DOMAIN new : row'[j] = row[j] /\ row[j].status # "QUEUED"
      /\ \A k \in Others(p) : /\ row[k].status = "QUEUED"
                              /\ row[k].position = proc[p].snap[k].position
      /\ Enqueue(row[Job(p)].status) # Illegal
  BY <1>1, SwappedRows
<1>. HIDE DEF new
<1>4. \A j \in Jobs \ {Job(p)} : row'[j].status = row[j].status
  BY <1>2, <1>3
<1>5. ASSUME NEW j \in Jobs \ {Job(p)}, NEW k \in Jobs \ {Job(p)}, Before(j, k)
      PROVE  Before(j, k)'
  <2>1. j \in Others(p) /\ k \in Others(p)
    BY <1>2, <1>3, <1>5 DEF Before
  <2>2. row[j].position < row[k].position
    BY <1>5 DEF Before
  <2>3. new[j].position < new[k].position
    BY <1>2, <1>3, <2>1, <2>2
  <2>. QED BY <1>2, <1>3, <2>1, <2>3 DEF Before
<1>. QED BY <1>3, <1>4, <1>5

(* Once a scan may have read them, the roots of a job are fixed: the status *)
(* is compared in the statement that writes them (add_root, remove_root,    *)
(* update_draft_job_accounts), and update_job does not touch them.          *)
THEOREM LockedForever == Spec => RootsLocked
<1>1. IInv /\ [Next]_vars => LockedRoots
  BY RootsStep
<1>2. Spec => [][LockedRoots]_vars
  BY <1>1, Invariance, PTL DEF Spec
<1>. QED BY <1>2 DEF RootsLocked, LockedRoots

(* A queue command moves one job and keeps the order of the others, for any *)
(* number of jobs and commands, although it was computed from a snapshot.   *)
THEOREM LocalQueueChanges == Spec => QueueChangeIsLocal
<1>1. IInv /\ [Next]_vars => LocalChange
  BY LocalStep
<1>2. Spec => [][LocalChange]_vars
  BY <1>1, Invariance, PTL DEF Spec
<1>. QED BY <1>2 DEF QueueChangeIsLocal, LocalChange

--------------------------------------------------------------------------------
(* Where a removed job goes. The removal infers it from the status the job  *)
(* was queued in and from the traces of its transfer; so these must still   *)
(* be there, and what was read of them must be of the stay in the queue     *)
(* that the removal ends.                                                   *)

Halting(j) == row[j].status \in Halted \/ (row[j].status = "QUEUED" /\ from[j] \in Halted)

Traced ==
  \A j \in Jobs \ relapsed :
    /\ row[j].status = "QUEUED" => from[j] \in Queueable
    /\ Halting(j) => begun[j] /\ LatestBecame(j) # "CANARY_REVIEW"

(* The job has not left the queue since the removal looked at it. *)
Stays(p) ==
  /\ proc[p].since = entries[Job(p)] /\ row[Job(p)].status = "QUEUED"
  /\ Job(p) \notin relapsed

Removing(p) == proc[p].at \in Inspecting \/ (proc[p].at = "commit" /\ proc[p].cmd = "remove")

RemovalOK(p) ==
  LET origin == from[Job(p)] IN
  /\ Removing(p) => proc[p].since <= entries[Job(p)]
  /\ Removing(p) /\ Stays(p) =>
       /\ proc[p].at \in {"cohort", "checkpoints", "origin"} /\ origin \in Halted
            => proc[p].seen.latest # "CANARY_REVIEW"
       /\ proc[p].at \in {"checkpoints", "origin"} /\ origin \in Halted => proc[p].seen.cohort
       /\ proc[p].at \notin {"phase", "items"}
       /\ proc[p].at = "commit" => proc[p].restored = Unqueued(origin)

Removal == Traced /\ \A p \in Clients : RemovalOK(p)

(* With these traces the inference is right. *)
LEMMA RestoredIsRight ==
  ASSUME NEW seen, NEW origin \in Queueable,
         origin \in Halted => seen.cohort /\ seen.latest # "CANARY_REVIEW"
  PROVE  Restored(seen, origin) = Unqueued(origin) /\ Restored(seen, origin) # "none"
<1>1. CASE origin \in Halted
  BY <1>1 DEF Restored, Unqueued, Halted
<1>2. CASE origin \in {"READY_FOR_REVIEW", "PAUSED"}
  <2>1. origin \notin Halted
    BY <1>2 DEF Halted
  <2>. QED BY <1>2, <2>1 DEF Restored, Unqueued
<1>3. CASE origin = "CANARY_REVIEW"
  <2>1. origin \notin Halted
    BY <1>3 DEF Halted
  <2>. QED BY <1>3, <2>1 DEF Restored, Unqueued
<1>. QED BY <1>1, <1>2, <1>3 DEF Queueable

(* What a step may do to one job: leave it alone, give it a status outside  *)
(* the queue, halt its transfer, queue it, or put back an older copy.       *)
Same(j)     == /\ row'[j].status = row[j].status /\ event'[j] = event[j] /\ from'[j] = from[j]
               /\ entries'[j] = entries[j] /\ (begun[j] => begun'[j])
Leaves(j)   == row'[j].status \notin Halted \cup {"QUEUED"} /\ entries'[j] = entries[j]
Halts(j)    == /\ row'[j].status \in Halted /\ entries'[j] = entries[j] /\ begun'[j]
               /\ event'[j] = None \/ event'[j].new # "CANARY_REVIEW"
Enters(j)   == /\ row[j].status \in Queueable /\ row'[j].status = "QUEUED"
               /\ from'[j] = row[j].status /\ event'[j] = event[j] /\ begun'[j] = begun[j]
               /\ entries'[j] = entries[j] + 1
Relapses(j) == j \in relapsed' /\ entries'[j] = entries[j]
Moves(j)    == Same(j) \/ Leaves(j) \/ Halts(j) \/ Enters(j) \/ Relapses(j)
JobStep     == relapsed \subseteq relapsed' /\ \A j \in Jobs : Moves(j)

LEMMA TracedStep == IInv /\ Traced /\ JobStep => Traced'
<1>. SUFFICES ASSUME IInv, Traced, JobStep, NEW j \in Jobs, j \notin relapsed'
              PROVE  /\ row'[j].status = "QUEUED" => from'[j] \in Queueable
                     /\ Halting(j)' => begun'[j] /\ LatestBecame(j)' # "CANARY_REVIEW"
  BY DEF Traced
<1>0. j \notin relapsed /\ Moves(j) /\ ~Relapses(j)
  BY DEF JobStep, Relapses
<1>1. /\ row[j].status = "QUEUED" => from[j] \in Queueable
      /\ Halting(j) => begun[j] /\ LatestBecame(j) # "CANARY_REVIEW"
  BY <1>0 DEF Traced
<1>2. "QUEUED" \notin Halted /\ Halted \subseteq Queueable
  BY DEF Halted, Queueable
<1>3. CASE Same(j)
  BY <1>1, <1>3 DEF Same, Halting, LatestBecame
<1>4. CASE Leaves(j)
  BY <1>4 DEF Leaves, Halting
<1>5. CASE Halts(j)
  BY <1>2, <1>5 DEF Halts, LatestBecame
<1>6. CASE Enters(j)
  BY <1>1, <1>2, <1>6 DEF Enters, Halting, LatestBecame
<1>. QED BY <1>0, <1>3, <1>4, <1>5, <1>6 DEF Moves

LEMMA Nothing ==
  ASSUME relapsed \subseteq relapsed', UNCHANGED <<row, event, from, begun, entries>>
  PROVE  JobStep
BY DEF JobStep, Moves, Same

(* One status is written; the event goes with it. *)
LEMMA PersistStep ==
  ASSUME IInv, NEW j \in Jobs, NEW r \in Row, NEW prev, NEW s \in Statuses \ {"QUEUED"},
         PersistStatus(j, r, prev, s), UNCHANGED <<from, begun, entries, relapsed>>,
         s \in Halted => begun[j]
  PROVE  JobStep
<1>. DEFINE q == [r EXCEPT !.status = s, !.position = 0]
<1>1. q \in Row /\ q.status = s
  <2>1. s \in Statuses \cup Gone /\ 0 \in 0..Cardinality(Jobs)
    BY JobsCount
  <2>. QED BY <2>1 DEF Row
<1>2. /\ Save(j, q)
      /\ event' = IF Exists(j) THEN [event EXCEPT ![j] = Became(prev, s)] ELSE event
  BY DEF PersistStatus
<1>. HIDE DEF q
<1>3. CASE ~Exists(j)
  BY <1>2, <1>3, Nothing DEF Save
<1>4. CASE Exists(j)
  <2>1. row' = [row EXCEPT ![j] = [q EXCEPT !.roots = row[j].roots]]
        /\ event' = [event EXCEPT ![j] = Became(prev, s)]
    BY <1>2, <1>4 DEF Save
  <2>2. [q EXCEPT !.roots = row[j].roots].status = s
    BY <1>1 DEF Row
  <2>3. row \in [Jobs -> Row] /\ event = [k \in Jobs |-> event[k]]
    BY DEF IInv, RowsOK, TrailOK
  <2>4. row'[j].status = s /\ \A k \in Jobs : k # j => row'[k] = row[k]
    BY <2>1, <2>2, <2>3
  <2>5. event'[j] = Became(prev, s) /\ \A k \in Jobs : k # j => event'[k] = event[k]
    BY <2>1, <2>3
  <2>6. \A k \in Jobs : k # j => Same(k)
    BY <2>4, <2>5 DEF Same
  <2>7. event'[j].new = s
    BY <2>5 DEF Became
  <2>8. Leaves(j) \/ Halts(j)
    BY <2>4, <2>7 DEF Leaves, Halts, Halted
  <2>. QED BY <2>6, <2>8 DEF JobStep, Moves
<1>. QED BY <1>3, <1>4

(* One row is written without an event.                                     *)
LEMMA RowStep ==
  ASSUME IInv, NEW j \in Jobs, NEW r, row' = [row EXCEPT ![j] = r],
         r.status = row[j].status \/ r.status \notin Halted \cup {"QUEUED"} \/ j \in relapsed',
         relapsed \subseteq relapsed', UNCHANGED <<event, from, begun, entries>>
  PROVE  JobStep
<1>1. \A k \in Jobs : row'[k] = IF k = j THEN r ELSE row[k]
  BY DEF IInv, RowsOK
<1>. QED BY <1>1 DEF JobStep, Moves, Same, Leaves, Relapses

(* A scan writes its copy. *)
LEMMA ScanStep ==
  ASSUME IInv, NEW j \in Jobs, NEW r \in Row,
         NEW s \in {Illegal, "READY_FOR_REVIEW", "PAUSED", "FAILED"},
         SaveScanned(j, r, s), UNCHANGED <<event, from, begun, entries>>
  PROVE  JobStep
<1>. DEFINE q == [r EXCEPT !.status = IF s = Illegal THEN @ ELSE s]
<1>1. q \in Row
  BY DEF Row, Statuses, TransferResumable, TerminalStatus
<1>2. q.status = IF s = Illegal THEN r.status ELSE s
  BY DEF Row
<1>3. Save(j, q) /\ relapsed' = IF r.status \in Unfit THEN relapsed \cup {j} ELSE relapsed
  BY DEF SaveScanned
<1>. HIDE DEF q
<1>4. q.status \notin Halted \cup {"QUEUED"} \/ j \in relapsed'
  BY <1>2, <1>3 DEF Unfit, Halted
<1>5. CASE row' = row
  BY <1>3, <1>5, Nothing
<1>6. ASSUME NEW o \in Row, row' = [row EXCEPT ![j] = o], o.status = q.status
      PROVE  JobStep
  <2>1. o.status = row[j].status \/ o.status \notin Halted \cup {"QUEUED"} \/ j \in relapsed'
    BY <1>4, <1>6
  <2>2. relapsed \subseteq relapsed'
    BY <1>3
  <2>. QED BY <1>6, <2>1, <2>2, RowStep
<1>7. RowsOK
  BY DEF IInv
<1>. QED BY <1>1, <1>3, <1>5, <1>6, <1>7, SavedRow

LEMMA SwapStep ==
  ASSUME IInv, NEW p \in Clients, PersistQueueChanges(p)
  PROVE  JobStep
<1>1. At(p, "commit") /\ ProcOK(proc[p]) /\ UNCHANGED <<event, begun, relapsed>>
  BY CommandOK DEF PersistQueueChanges
<1>2. CASE UNCHANGED <<row, from, entries>>
  BY <1>1, <1>2, Nothing
<1>3. CASE SameQueue(p) /\ SameRows(p)
  <2>. DEFINE new == Renumbered(p)
  <2>1. /\ Swapped(p)
        /\ from' = [j \in Jobs |-> IF j \in DOMAIN new THEN From(p, j) ELSE from[j]]
        /\ entries' = [j \in Jobs |->
             entries[j] + IF row'[j].status = "QUEUED" /\ row[j].status # "QUEUED"
                          THEN 1 ELSE 0]
    BY <1>3 DEF PersistQueueChanges, Swapped
  <2>2. /\ DOMAIN new = Others(p) \cup {Job(p)}
        /\ \A k \in Others(p) : new[k].status = "QUEUED"
        /\ \/ new[Job(p)].status \in {"READY_FOR_REVIEW", "CANARY_REVIEW", "PAUSED"}
           \/ new[Job(p)].status = "QUEUED"
    BY <1>1, Renumbering
  <2>3. /\ \A j \in DOMAIN new : row'[j].status = new[j].status
        /\ \A j \in Jobs \ DOMAIN new : row'[j] = row[j]
        /\ \A k \in Others(p) : row[k].status = "QUEUED"
        /\ Enqueue(row[Job(p)].status) # Illegal
    BY <1>1, <2>1, SwappedRows
  <2>. HIDE DEF new
  <2>4. entries \in [Jobs -> Nat]
    BY DEF IInv, TrailOK
  <2>5. ASSUME NEW j \in Jobs, row'[j].status = row[j].status PROVE Same(j)
    <3>1. entries'[j] = entries[j]
      BY <2>1, <2>4, <2>5
    <3>2. row'[j].status # "QUEUED" => j \notin DOMAIN new \/ j = Job(p)
      BY <2>2, <2>3
    <3>3. j \in DOMAIN new => row[j].status = "QUEUED"
      <4>1. CASE j \in Others(p)
        BY <2>3, <4>1
      <4>2. CASE j = Job(p) /\ j \in DOMAIN new
        <5>1. new[j].status = row[j].status
          BY <2>3, <2>5, <4>2
        <5>2. SUFFICES ASSUME row[j].status # "QUEUED" PROVE FALSE
          OBVIOUS
        <5>3. proc[p].cmd = "remove"
          BY <1>1, <2>2, <4>2, <5>1, <5>2, Renumbering DEF new
        <5>4. proc[p].snap[j].status = "QUEUED"
          BY <1>1, <4>2, <5>3 DEF ProcOK, At, Job
        <5>5. Now(j) = proc[p].snap[j]
          BY <2>1, <5>4 DEF Swapped, SameQueue
        <5>. QED BY <5>2, <5>4, <5>5 DEF Now
      <4>. QED BY <2>2, <4>1, <4>2
    <3>4. from'[j] = from[j]
      BY <2>1, <3>3 DEF From
    <3>. QED BY <1>1, <2>5, <3>1, <3>4 DEF Same
  <2>6. ASSUME row'[Job(p)].status # row[Job(p)].status
        PROVE  Enters(Job(p)) \/ Leaves(Job(p))
    <3>. DEFINE j == Job(p)
    <3>1. j \in Jobs /\ j \in DOMAIN new
      BY <1>1, <2>2 DEF ProcOK, At, Job
    <3>2. CASE row'[j].status = "QUEUED"
      <4>1. row[j].status \in Queueable
        BY <2>3, <2>6, <3>2 DEF Enqueue, Move, Queueable, Halted, TransferResumable
      <4>2. from'[j] = row[j].status
        BY <2>1, <2>6, <3>1, <3>2 DEF From
      <4>3. entries'[j] = entries[j] + 1
        BY <2>1, <2>6, <3>1, <3>2
      <4>. QED BY <1>1, <3>2, <4>1, <4>2, <4>3 DEF Enters
    <3>3. CASE row'[j].status # "QUEUED"
      <4>1. row'[j].status \in {"READY_FOR_REVIEW", "CANARY_REVIEW", "PAUSED"}
        BY <2>2, <2>3, <3>1, <3>3
      <4>2. entries'[j] = entries[j]
        BY <2>1, <2>4, <3>1, <3>3
      <4>. QED BY <4>1, <4>2 DEF Leaves, Halted
    <3>. QED BY <3>2, <3>3
  <2>7. \A j \in Jobs : j # Job(p) => row'[j].status = row[j].status
    BY <2>2, <2>3
  <2>. QED BY <1>1, <2>5, <2>6, <2>7 DEF JobStep, Moves
<1>. QED BY <1>2, <1>3 DEF PersistQueueChanges

(* No other step touches the queue but by giving one job a status.          *)
LEMMA StartStep ==
  ASSUME IInv, NEW p \in Clients, Start(p)
  PROVE  JobStep
<1>1. ProcOK(proc[p]) /\ Copy(p) \in Row /\ row \in [Jobs -> Row]
  BY CommandOK DEF IInv, RowsOK
<1>2. proc[p].at \in {"token", "park", "write", "stop"} => Job(p) \in Jobs
  BY <1>1 DEF ProcOK, Job
<1>3. CASE CreateSeededScan(p)
  <2>1. PICK j \in Jobs, roots \in SUBSET Folders :
          row' = [row EXCEPT ![j] = NewRow("SCANNING", proc[p].arg, roots)]
    BY <1>3 DEF CreateSeededScan
  <2>2. NewRow("SCANNING", proc[p].arg, roots).status = "SCANNING"
    BY DEF NewRow
  <2>. QED BY <1>3, <2>1, <2>2, RowStep DEF CreateSeededScan, Halted
<1>4. CASE UNCHANGED <<row, trail>>
  BY <1>4, Nothing DEF trail
<1>5. CASE ParkScan(p)
  <2>1. Job(p) \in Jobs /\ Copy(p).status \in Statuses \cup Gone
    BY <1>1, <1>2, <1>5 DEF ParkScan, At, Row
  <2>. QED BY <1>1, <1>5, <2>1, ScanResults, ScanStep DEF ParkScan
<1>6. CASE BeginScan(p)
  <2>1. Job(p) \in Jobs /\ UNCHANGED trail
    BY <1>2, <1>6 DEF BeginScan, At
  <2>2. CASE Save(Job(p), [Copy(p) EXCEPT !.status = "SCANNING"])
    <3>. DEFINE q == [Copy(p) EXCEPT !.status = "SCANNING"]
    <3>1. q \in Row /\ q.status = "SCANNING"
      BY <1>1 DEF Row, Statuses
    <3>2. Save(Job(p), q) /\ RowsOK
      BY <2>2 DEF IInv
    <3>. HIDE DEF q
    <3>3. ASSUME NEW o \in Row, row' = [row EXCEPT ![Job(p)] = o], o.status = q.status
          PROVE  JobStep
      BY <2>1, <3>1, <3>3, RowStep DEF trail, Halted
    <3>. QED BY <1>4, <2>1, <3>1, <3>2, <3>3, SavedRow
  <2>. QED BY <1>4, <1>6, <2>1, <2>2 DEF BeginScan
<1>7. CASE WriteStarted(p) \/ ResumeHalts(p) \/ SettleStop(p)
  <2>1. Job(p) \in Jobs /\ UNCHANGED <<from, begun, entries, relapsed>>
    BY <1>2, <1>7 DEF WriteStarted, ResumeHalts, SettleStop, At
  <2>2. CASE UNCHANGED <<row, event>>
    BY <2>1, <2>2, Nothing
  <2>3. CASE \E s \in Running \cup {"CANCELLED", "PAUSED"} :
               PersistStatus(Job(p), Copy(p), Copy(p).status, s)
    <3>1. PICK s \in Running \cup {"CANCELLED", "PAUSED"} :
            PersistStatus(Job(p), Copy(p), Copy(p).status, s)
      BY <2>3
    <3>2. s \in Statuses \ {"QUEUED"} /\ s \notin Halted
      BY <3>1 DEF Running, Statuses, UnfinishedMutation, TerminalStatus, TransferResumable, Halted
    <3>. QED BY <1>1, <2>1, <3>1, <3>2, PersistStep
  <2>4. CASE ResumeHalts(p)
    <3>1. PersistStatus(Job(p), Copy(p), Copy(p).status, "AUTH_REQUIRED") /\ begun[Job(p)]
      BY <2>4 DEF ResumeHalts
    <3>2. "AUTH_REQUIRED" \in Statuses \ {"QUEUED"}
      BY DEF Statuses, TransferResumable
    <3>. QED BY <1>1, <2>1, <3>1, <3>2, PersistStep
  <2>. QED BY <1>7, <2>2, <2>3, <2>4 DEF WriteStarted, SettleStop, Started, ByStart, ByContinue,
                                        ByResume, Running, CancelJob, PauseTransfer, Move
<1>. QED BY <1>3, <1>4, <1>5, <1>6, <1>7 DEF Start, AcquireScan, TokenFails, LoadParked,
                                             SettlePause, AcquireLease

LEMMA DraftStep ==
  ASSUME IInv, NEW p \in Clients, Draft(p)
  PROVE  JobStep
<1>1. ProcOK(proc[p]) /\ Copy(p) \in Row /\ row \in [Jobs -> Row] /\ UNCHANGED trail
  BY CommandOK DEF IInv, RowsOK, Draft, InsertJob, SaveDraft, DeleteDraft, ValidateRoot,
                   InsertRoot, DeleteRoot
<1>2. proc[p].at \in {"accounts", "delete", "insertroot", "deleteroot"} => Job(p) \in Jobs
  BY <1>1 DEF ProcOK, Job
<1>3. CASE row' = row
  BY <1>1, <1>3, Nothing DEF trail
<1>4. ASSUME NEW j \in Jobs, NEW r, row' = [row EXCEPT ![j] = r],
             r.status = row[j].status \/ r.status \in {"DRAFT", "DELETED"}
      PROVE JobStep
  BY <1>1, <1>4, RowStep DEF trail, Halted
<1>5. CASE InsertJob(p)
  <2>1. PICK j \in Jobs : row' = [row EXCEPT ![j] = NewRow("DRAFT", proc[p].arg, {})]
    BY <1>5 DEF InsertJob
  <2>2. NewRow("DRAFT", proc[p].arg, {}).status = "DRAFT"
    BY DEF NewRow
  <2>. QED BY <1>4, <2>1, <2>2
<1>6. CASE SaveDraft(p) /\ row' # row
  <2>1. Job(p) \in Jobs /\ Copy(p).status = "DRAFT"
        /\ row' = [row EXCEPT ![Job(p)] = ChangeAccounts(Copy(p), proc[p].arg)]
    BY <1>2, <1>6 DEF SaveDraft, At
  <2>2. ChangeAccounts(Copy(p), proc[p].arg).status = "DRAFT"
    BY <1>1, <2>1 DEF ChangeAccounts, Row
  <2>. QED BY <1>4, <2>1, <2>2
<1>7. CASE DeleteDraft(p) /\ row' # row
  <2>1. Job(p) \in Jobs /\ row' = [row EXCEPT ![Job(p)] = [NoRow EXCEPT !.status = "DELETED"]]
    BY <1>2, <1>7 DEF DeleteDraft, At
  <2>2. [NoRow EXCEPT !.status = "DELETED"].status = "DELETED"
    BY DEF NoRow
  <2>. QED BY <1>4, <2>1, <2>2
<1>8. CASE (InsertRoot(p) \/ DeleteRoot(p)) /\ row' # row
  <2>1. Job(p) \in Jobs
    BY <1>2, <1>8 DEF InsertRoot, DeleteRoot, At
  <2>2. \E roots : row' = [row EXCEPT ![Job(p)] = [row[Job(p)] EXCEPT !.roots = roots]]
    BY <1>1, <1>8, <2>1 DEF InsertRoot, DeleteRoot
  <2>3. \A roots : [row[Job(p)] EXCEPT !.roots = roots].status = row[Job(p)].status
    BY <1>1, <2>1 DEF Row
  <2>. QED BY <1>4, <2>1, <2>2, <2>3
<1>. QED BY <1>3, <1>5, <1>6, <1>7, <1>8 DEF Draft, ValidateRoot

LEMMA TaskStep ==
  ASSUME IInv, NEW j \in Jobs, Task(j)
  PROVE  JobStep
<1>1. CASE ScanDone(j) \/ ReleaseLease(j)
  BY <1>1, Nothing DEF ScanDone, ReleaseLease, trail
<1>2. CASE ScanEnds(j)
  <2>1. scanned[j] \in Row /\ scanned[j].status \in Statuses \cup Gone
    BY DEF IInv, OthersOK, Row
  <2>2. PICK t \in {CompleteScanning(scanned[j].status), PauseScanning(scanned[j].status),
                    FailScanning(scanned[j].status)} : SaveScanned(j, scanned[j], t)
    BY <1>2 DEF ScanEnds
  <2>3. UNCHANGED <<event, from, begun, entries>>
    BY <1>2 DEF ScanEnds
  <2>. QED BY <2>1, <2>2, <2>3, ScanResults, ScanStep
<1>3. CASE WriteOutcome(j)
  <2>1. PICK o \in {"PAUSED", "CANCELLED", "COMPLETED", "CANARY_REVIEW"} \cup Halted :
          PersistStatus(j, run, run.status, o) /\ (o \in Halted => begun[j])
    BY <1>3 DEF WriteOutcome
  <2>2. o \in Statuses \ {"QUEUED"} /\ run \in Row
    BY <2>1 DEF Halted, Statuses, TransferResumable, TerminalStatus, IInv, OthersOK
  <2>3. UNCHANGED <<from, begun, entries, relapsed>>
    BY <1>3 DEF WriteOutcome
  <2>. QED BY <2>1, <2>2, <2>3, PersistStep
<1>4. CASE SelectCohort(j)
  <2>1. \A k \in Jobs : begun[k] => begun'[k]
    BY <1>4 DEF SelectCohort, IInv, TrailOK
  <2>. QED BY <1>4, <2>1 DEF SelectCohort, JobStep, Moves, Same
<1>. QED BY <1>1, <1>2, <1>3, <1>4 DEF Task

LEMMA JobsMove == IInv /\ [Next]_vars => JobStep
<1>. SUFFICES ASSUME IInv, [Next]_vars PROVE JobStep
  OBVIOUS
<1>1. CASE UNCHANGED <<row, trail>>
  BY <1>1, Nothing DEF trail
<1>2. ASSUME NEW p \in Clients, Request(p) \/ Refused(p) PROVE UNCHANGED <<row, trail>>
  BY <1>2, RequestsRead DEF Refused
<1>3. ASSUME NEW p \in Clients, Queue(p) PROVE JobStep
  BY <1>1, <1>3, SwapStep DEF Queue, Snapshot, Inspect, ReadEvent, ReadCohort, ReadCheckpoints,
                              ReadOrigin, ReadPhase, ReadItems, See, Restore
<1>. QED BY <1>1, <1>2, <1>3, DraftStep, StartStep, TaskStep DEF Next, vars

(* How a queue command comes to its commit. *)
Awaits == Inspecting \cup {"commit"}
Reads(p) ==
  \/ proc'[p] = proc[p]
  \/ proc'[p].at \notin Awaits
  \/ /\ proc'[p].at = "event" \/ proc'[p].cmd # "remove"
     /\ proc'[p].at \in {"event", "commit"}
     /\ proc'[p].job = Job(p) /\ proc'[p].since = entries[Job(p)] /\ entries' = entries
  \/ Inspect(p)

LEMMA CommandsMove == IInv /\ [Next]_vars => \A p \in Clients : Reads(p)
<1>. SUFFICES ASSUME IInv, [Next]_vars, NEW p \in Clients PROVE Reads(p)
  OBVIOUS
<1>1. proc \in [Clients -> Proc]
  BY DEF IInv, ProcsOK
<1>2. ASSUME NEW o \in Clients, NEW q, proc' = [proc EXCEPT ![o] = q], q.at \notin Awaits
      PROVE  Reads(p)
  BY <1>1, <1>2 DEF Reads
<1>3. Free.at \notin Awaits
  BY DEF Free, Begun, Awaits, Inspecting
<1>4. \A o \in Clients : End(o) => Reads(p)
  BY <1>2, <1>3 DEF End
<1>5. ASSUME NEW o \in Clients, NEW a \in {"insertroot", "token", "reload", "park", "write", "snapshot"},
             NEW r, proc' = [proc EXCEPT ![o] = [proc[o] EXCEPT !.at = a, !.copy = r]]
      PROVE  Reads(p)
  <2>1. [proc[o] EXCEPT !.at = a, !.copy = r].at = a
    BY <1>1 DEF Proc
  <2>2. a \notin Awaits
    BY DEF Awaits, Inspecting
  <2>. QED BY <1>2, <1>5, <2>1, <2>2
<1>6. ASSUME NEW o \in Clients, NEW a \in {"insertroot", "token", "reload", "park", "write", "snapshot"},
             \/ Goto(o, a)
             \/ \E r : proc' = [proc EXCEPT ![o].at = a, ![o].copy = r]
      PROVE  Reads(p)
  <2>1. CASE Goto(o, a)
    <3>1. [proc[o] EXCEPT !.at = a].at = a
      BY <1>1 DEF Proc
    <3>2. a \notin Awaits
      BY DEF Awaits, Inspecting
    <3>. QED BY <1>2, <2>1, <3>1, <3>2 DEF Goto
  <2>2. ASSUME NEW r, proc' = [proc EXCEPT ![o].at = a, ![o].copy = r]
        PROVE  Reads(p)
    <3>1. proc' = [proc EXCEPT ![o] = [proc[o] EXCEPT !.at = a, !.copy = r]]
      BY <1>1, <2>2
    <3>. QED BY <1>5, <3>1
  <2>. QED BY <1>6, <2>1, <2>2
<1>7. ASSUME NEW o \in Clients, Request(o) PROVE Reads(p)
  <2>1. \E at \in {"create", "accounts", "delete", "metadata", "deleteroot", "seed", "scanload",
                   "settle", "lease", "stop", "snapshot"} : \E cmd, job, copy, arg, place :
          proc' = [proc EXCEPT ![o] = Begun(at, cmd, job, copy, arg, place)]
    BY <1>7 DEF Request, CreateJob, StartTransferOperation, UpdateDraftJobAccounts, AddRoot,
       RemoveRoot, DeleteDraftJob, StartScan, PauseScan, StartTransfer, PauseMigration,
       CancelMigration, RemoveQueuedJob, QueueJob, Load
  <2>2. \A at, cmd, job, copy, arg, place : Begun(at, cmd, job, copy, arg, place).at = at
    BY DEF Begun
  <2>. QED BY <1>2, <2>1, <2>2 DEF Awaits, Inspecting
<1>8. ASSUME NEW o \in Clients, Draft(o) PROVE Reads(p)
  <2>1. CASE ValidateRoot(o) /\ ~End(o)
    BY <1>6, <2>1 DEF ValidateRoot
  <2>. QED BY <1>4, <1>8, <2>1 DEF Draft, InsertJob, SaveDraft, DeleteDraft, InsertRoot, DeleteRoot
<1>9. ASSUME NEW o \in Clients, Start(o) PROVE Reads(p)
  <2>1. CASE CreateSeededScan(o)
    <3>1. PICK j \in Jobs : proc' = [proc EXCEPT ![o].at = "scanload", ![o].job = j]
      BY <2>1 DEF CreateSeededScan
    <3>. DEFINE q == [proc[o] EXCEPT !.at = "scanload", !.job = j]
    <3>2. proc' = [proc EXCEPT ![o] = q] /\ q.at = "scanload"
      BY <1>1, <3>1 DEF Proc
    <3>. HIDE DEF q
    <3>3. "scanload" \notin Awaits
      BY DEF Awaits, Inspecting
    <3>. QED BY <1>2, <3>2, <3>3
  <2>2. CASE (AcquireScan(o) \/ LoadParked(o)) /\ ~End(o)
    <3>1. \E a \in {"token", "park"} : proc' = [proc EXCEPT ![o].at = a, ![o].copy = row[Job(o)]]
      BY <2>2 DEF AcquireScan, LoadParked
    <3>. QED BY <1>6, <3>1
  <2>. QED BY <1>4, <1>6, <1>9, <2>1, <2>2 DEF Start, TokenFails, LoadParked, SettlePause,
         ParkScan, BeginScan, AcquireLease, WriteStarted, ResumeHalts, SettleStop
<1>10. ASSUME NEW o \in Clients, Queue(o) PROVE Reads(p)
  <2>1. CASE Snapshot(o) /\ ~End(o)
    <3>. DEFINE at == IF proc[o].cmd = "remove" THEN "event" ELSE "commit"
                q == [proc[o] EXCEPT !.snap = ListJobs, !.since = entries[Job(o)], !.at = at]
    <3>1. proc' = [proc EXCEPT ![o] = q] /\ entries' = entries
      BY <2>1 DEF Snapshot, trail
    <3>2. q.at = at /\ q.cmd = proc[o].cmd /\ q.job = Job(o) /\ q.since = entries[Job(o)]
      BY <1>1 DEF Proc, Job
    <3>3. at \in {"event", "commit"} /\ (at = "event" \/ proc[o].cmd # "remove")
      OBVIOUS
    <3>. HIDE DEF q, at
    <3>. QED BY <1>1, <3>1, <3>2, <3>3 DEF Reads
  <2>2. CASE Inspect(o)
    <3>1. CASE o = p
      BY <2>2, <3>1 DEF Reads
    <3>2. CASE o # p
      <4>1. \E q : proc' = [proc EXCEPT ![o] = q]
        BY <2>2 DEF Inspect, ReadEvent, ReadCohort, ReadCheckpoints, ReadOrigin, ReadPhase,
                    ReadItems, See, Restore
      <4>. QED BY <1>1, <3>2, <4>1 DEF Reads
    <3>. QED BY <3>1, <3>2
  <2>. QED BY <1>4, <1>10, <2>1, <2>2 DEF Queue, PersistQueueChanges
<1>11. ASSUME NEW j \in Jobs, Task(j) PROVE Reads(p)
  <2>1. proc'[p] = proc[p] \/ proc'[p] = Free
    BY <1>11 DEF Task, ScanDone, ScanEnds, SelectCohort, WriteOutcome, ReleaseLease
  <2>. QED BY <1>3, <2>1 DEF Reads
<1>12. CASE UNCHANGED vars
  BY <1>12 DEF vars, Reads
<1>. QED BY <1>4, <1>7, <1>8, <1>9, <1>10, <1>11, <1>12 DEF Next, Refused

LEMMA RemovalInit == Init => Removal
<1>. SUFFICES ASSUME Init PROVE Removal
  OBVIOUS
<1>1. PICK s \in Sessions :
        /\ row = [j \in Jobs |->
             IF s.jobs[j].status \in Gone THEN NoRow
             ELSE [NewRow(s.jobs[j].status, Owner[FirstRoot], {FirstRoot})
                     EXCEPT !.position = s.jobs[j].position]]
        /\ event = [j \in Jobs |-> s.jobs[j].event]
        /\ from = [j \in Jobs |-> s.jobs[j].from]
        /\ begun = [j \in Jobs |-> s.jobs[j].begun]
  BY DEF Init
<1>2. \A j \in Jobs : KnownJob(s.jobs[j])
  BY RowsAssumption
<1>3. \A j \in Jobs : row[j].status = s.jobs[j].status \/ row[j].status = "ABSENT"
  BY <1>1 DEF NoRow, NewRow
<1>4. Traced
  BY <1>1, <1>2, <1>3 DEF Traced, Halting, KnownJob, LatestBecame, Halted
<1>5. \A p \in Clients : ~Removing(p)
  BY DEF Init, Free, Begun, Removing, Inspecting
<1>. QED BY <1>4, <1>5 DEF Removal, RemovalOK

(* A job that is still in the queue was left alone. *)
LEMMA Stayed ==
  ASSUME IInv, JobStep, NEW p \in Clients, Removing(p), proc'[p] = proc[p],
         proc[p].since <= entries[Job(p)]
  PROVE  /\ proc[p].since <= entries'[Job(p)]
         /\ Stays(p)' => Stays(p) /\ Same(Job(p))
<1>. DEFINE j == Job(p)
<1>1. ProcOK(proc[p]) /\ j \in Jobs /\ proc[p].since \in Nat /\ entries[j] \in Nat
  BY CommandOK DEF Removing, ProcOK, Proc, Inspecting, Job, IInv, TrailOK
<1>2. Moves(j) /\ relapsed \subseteq relapsed'
  BY <1>1 DEF JobStep
<1>3. entries'[j] = entries[j] \/ (entries'[j] = entries[j] + 1 /\ Enters(j))
  BY <1>2 DEF Moves, Same, Leaves, Halts, Enters, Relapses
<1>4. proc[p].since <= entries'[j]
  BY <1>1, <1>3
<1>5. ASSUME Stays(p)' PROVE Stays(p) /\ Same(j)
  <2>1. proc[p].since = entries'[j] /\ row'[j].status = "QUEUED" /\ j \notin relapsed'
    BY <1>5 DEF Stays, Job
  <2>2. entries'[j] = entries[j]
    BY <1>1, <1>3, <2>1
  <2>3. ~Enters(j) /\ ~Leaves(j) /\ ~Halts(j) /\ ~Relapses(j)
    BY <1>1, <2>1, <2>2 DEF Enters, Leaves, Halts, Relapses, Halted
  <2>4. Same(j)
    BY <1>2, <2>3 DEF Moves
  <2>. QED BY <1>2, <2>1, <2>2, <2>4 DEF Same, Stays, Job
<1>. QED BY <1>4, <1>5

(* A read leaves the jobs alone and takes the command one step further. *)
LEMMA ReadStep ==
  ASSUME IInv, Traced, NEW p \in Clients, RemovalOK(p), Inspect(p)
  PROVE  RemovalOK(p)'
<1>. DEFINE j == Job(p)
<1>1. ProcOK(proc[p]) /\ proc[p] \in Proc /\ proc[p].at \in Inspecting /\ j \in Jobs
  BY CommandOK DEF Inspect, ReadEvent, ReadCohort, ReadCheckpoints, ReadOrigin, ReadPhase,
                   ReadItems, At, Inspecting, ProcOK, Job
<1>2. UNCHANGED <<row, event, from, begun, entries, relapsed>> /\ proc \in [Clients -> Proc]
  BY DEF Inspect, ReadEvent, ReadCohort, ReadCheckpoints, ReadOrigin, ReadPhase, ReadItems,
         See, Restore, trail, IInv, ProcsOK
<1>3. Removing(p) /\ proc[p].since <= entries[j]
  BY <1>1 DEF Removing, RemovalOK
<1>4. ASSUME proc'[p].job = j, proc'[p].since = proc[p].since,
             Stays(p) =>
               /\ proc'[p].at \in {"cohort", "checkpoints", "origin"} /\ from[j] \in Halted
                    => proc'[p].seen.latest # "CANARY_REVIEW"
               /\ proc'[p].at \in {"checkpoints", "origin"} /\ from[j] \in Halted
                    => proc'[p].seen.cohort
               /\ proc'[p].at \notin {"phase", "items"}
               /\ proc'[p].at = "commit" => proc'[p].restored = Unqueued(from[j])
      PROVE  RemovalOK(p)'
  <2>1. Job(p)' = j
    BY <1>4 DEF Job
  <2>2. Stays(p)' => Stays(p)
    BY <1>2, <1>4, <2>1 DEF Stays
  <2>. QED BY <1>2, <1>3, <1>4, <2>1, <2>2 DEF RemovalOK
<1>5. ASSUME NEW at, NEW seen, See(p, at, seen)
      PROVE  proc'[p].at = at /\ proc'[p].seen = seen /\ proc'[p].job = j
             /\ proc'[p].since = proc[p].since
  <2>1. proc'[p] = [proc[p] EXCEPT !.at = at, !.seen = seen]
    BY <1>2, <1>5 DEF See
  <2>. QED BY <1>1, <2>1 DEF Proc, Job
<1>6. ASSUME NEW at, NEW s, Restore(p, at, s)
      PROVE  proc'[p].at = at /\ proc'[p].restored = s /\ proc'[p].job = j
             /\ proc'[p].since = proc[p].since
  <2>1. proc'[p] = [proc[p] EXCEPT !.at = at, !.restored = s]
    BY <1>2, <1>6 DEF Restore
  <2>. QED BY <1>1, <2>1 DEF Proc, Job
<1>7. Stays(p) => /\ from[j] \in Queueable
                  /\ from[j] \in Halted => begun[j] /\ LatestBecame(j) # "CANARY_REVIEW"
  BY <1>1 DEF Stays, Traced, Halting
<1>8. Stays(p) =>
        /\ proc[p].at \in {"cohort", "checkpoints", "origin"} /\ from[j] \in Halted
             => proc[p].seen.latest # "CANARY_REVIEW"
        /\ proc[p].at \in {"checkpoints", "origin"} /\ from[j] \in Halted => proc[p].seen.cohort
        /\ proc[p].at \notin {"phase", "items"}
  BY <1>3 DEF RemovalOK
<1>9. proc[p].seen \in [latest : Statuses \cup {"none"}, cohort : BOOLEAN, frontier : BOOLEAN]
  BY <1>1 DEF Proc
<1>10. CASE ReadEvent(p)
  <2>. DEFINE seen == [proc[p].seen EXCEPT !.latest = LatestBecame(j)]
  <2>1. seen.latest = LatestBecame(j) /\ See(p, "cohort", seen)
    BY <1>9, <1>10 DEF ReadEvent
  <2>. HIDE DEF seen
  <2>2. /\ proc'[p].at = "cohort" /\ proc'[p].seen = seen /\ proc'[p].job = j
        /\ proc'[p].since = proc[p].since
    BY <1>5, <2>1
  <2>. QED BY <1>4, <1>7, <2>1, <2>2
<1>11. CASE ReadCohort(p)
  <2>. DEFINE seen == [proc[p].seen EXCEPT !.cohort = begun[j]]
  <2>1. /\ seen.cohort = begun[j] /\ seen.latest = proc[p].seen.latest
        /\ See(p, "checkpoints", seen) /\ proc[p].at = "cohort"
    BY <1>9, <1>11 DEF ReadCohort, At
  <2>. HIDE DEF seen
  <2>2. /\ proc'[p].at = "checkpoints" /\ proc'[p].seen = seen /\ proc'[p].job = j
        /\ proc'[p].since = proc[p].since
    BY <1>5, <2>1
  <2>. QED BY <1>4, <1>7, <1>8, <2>1, <2>2
<1>12. CASE ReadCheckpoints(p)
  <2>. DEFINE seen == [proc[p].seen EXCEPT !.frontier = frontier[j]]
  <2>1. /\ seen.cohort = proc[p].seen.cohort /\ seen.latest = proc[p].seen.latest
        /\ See(p, "origin", seen) /\ proc[p].at = "checkpoints"
    BY <1>9, <1>12 DEF ReadCheckpoints, At
  <2>. HIDE DEF seen
  <2>2. /\ proc'[p].at = "origin" /\ proc'[p].seen = seen /\ proc'[p].job = j
        /\ proc'[p].since = proc[p].since
    BY <1>5, <2>1
  <2>. QED BY <1>4, <1>8, <2>1, <2>2
<1>13. CASE ReadOrigin(p)
  <2>. DEFINE s == Restored(proc[p].seen, from[j])
              at == IF s = "none" THEN "phase" ELSE "commit"
  <2>1. Restore(p, at, s) /\ proc[p].at = "origin"
    BY <1>13 DEF ReadOrigin, At
  <2>2. Stays(p) => s = Unqueued(from[j]) /\ s # "none"
    BY <1>7, <1>8, <2>1, RestoredIsRight
  <2>3. at \in {"phase", "commit"} /\ (at = "phase" <=> s = "none")
    OBVIOUS
  <2>. HIDE DEF s, at
  <2>4. /\ proc'[p].at = at /\ proc'[p].restored = s /\ proc'[p].job = j
        /\ proc'[p].since = proc[p].since
    BY <1>6, <2>1
  <2>. QED BY <1>4, <2>2, <2>3, <2>4
<1>14. CASE ReadPhase(p) \/ ReadItems(p)
  <2>1. ~Stays(p)
    BY <1>8, <1>14 DEF ReadPhase, ReadItems, At
  <2>2. PICK at, s : Restore(p, at, s)
    BY <1>14 DEF ReadPhase, ReadItems
  <2>3. proc'[p].job = j /\ proc'[p].since = proc[p].since
    BY <1>6, <2>2
  <2>. QED BY <1>4, <2>1, <2>3
<1>. QED BY <1>10, <1>11, <1>12, <1>13, <1>14 DEF Inspect

LEMMA RemovalStep == IInv /\ Removal /\ [Next]_vars => Removal'
<1>. SUFFICES ASSUME IInv, Removal, [Next]_vars PROVE Removal'
  OBVIOUS
<1>1. JobStep /\ Traced /\ Traced'
  BY JobsMove, TracedStep DEF Removal
<1>2. ASSUME NEW p \in Clients PROVE RemovalOK(p)'
  <2>1. RemovalOK(p)
    BY DEF Removal
  <2>2. CASE proc'[p] = proc[p] /\ Removing(p)
    <3>1. proc[p].since <= entries[Job(p)]
      BY <2>1, <2>2 DEF RemovalOK
    <3>2. /\ proc[p].since <= entries'[Job(p)]
          /\ Stays(p)' => Stays(p) /\ Same(Job(p))
      BY <1>1, <2>2, <3>1, Stayed
    <3>3. Job(p)' = Job(p)
      BY <2>2 DEF Job
    <3>. QED BY <2>1, <2>2, <3>2, <3>3 DEF RemovalOK, Same
  <2>3. CASE proc'[p] = proc[p] /\ ~Removing(p)
    BY <2>3 DEF RemovalOK, Removing
  <2>4. CASE proc'[p].at \notin Awaits
    BY <2>4 DEF RemovalOK, Removing, Awaits
  <2>5. CASE /\ proc'[p].at = "event" \/ proc'[p].cmd # "remove"
             /\ proc'[p].at \in {"event", "commit"}
             /\ proc'[p].job = Job(p) /\ proc'[p].since = entries[Job(p)] /\ entries' = entries
    <3>1. CASE ~Removing(p)'
      BY <3>1 DEF RemovalOK
    <3>2. CASE Removing(p)'
      <4>1. proc'[p].at = "event"
        BY <2>5, <3>2 DEF Removing, Inspecting
      <4>2. proc'[p].since \in Nat
        BY NextInvariant DEF IInv, ProcsOK, ProcOK, Proc
      <4>3. proc'[p].since <= entries'[Job(p)']
        BY <2>5, <4>2 DEF Job
      <4>. QED BY <4>1, <4>3 DEF RemovalOK
    <3>. QED BY <3>1, <3>2
  <2>6. CASE Inspect(p)
    BY <1>1, <2>1, <2>6, ReadStep
  <2>. QED BY <2>2, <2>3, <2>4, <2>5, <2>6, CommandsMove DEF Reads
<1>. QED BY <1>1, <1>2 DEF Removal

RemovalRestored ==
  \A p \in Clients :
    LET j == Job(p) IN
    Commits(p) /\ proc[p].cmd = "remove" /\ proc[p].since = entries[j] /\ j \notin relapsed
    => row'[j].status = Unqueued(from[j])

LEMMA RestoredStep == IInv /\ Removal /\ [Next]_vars => RemovalRestored
<1>. SUFFICES ASSUME IInv, Removal, [Next]_vars, NEW p \in Clients, Commits(p),
                     proc[p].cmd = "remove", proc[p].since = entries[Job(p)],
                     Job(p) \notin relapsed
              PROVE  row'[Job(p)].status = Unqueued(from[Job(p)])
  BY DEF RemovalRestored
<1>1. At(p, "commit") /\ Swapped(p) /\ ProcOK(proc[p])
  BY CommitsAreSwaps, CommandOK
<1>2. Job(p) \in Jobs /\ proc[p].snap[Job(p)].status = "QUEUED"
  BY <1>1 DEF ProcOK, At, Job
<1>3. row[Job(p)].status = "QUEUED"
  <2>1. Now(Job(p)) = proc[p].snap[Job(p)]
    BY <1>1, <1>2 DEF Swapped, SameQueue
  <2>. QED BY <1>2, <2>1 DEF Now
<1>4. proc[p].restored = Unqueued(from[Job(p)])
  BY <1>1, <1>3 DEF Removal, RemovalOK, Removing, Stays, At
<1>5. Job(p) \in DOMAIN Renumbered(p) /\ Renumbered(p)[Job(p)].status = proc[p].restored
  BY DEF Renumbered
<1>6. row'[Job(p)].status = Renumbered(p)[Job(p)].status
  BY <1>1, <1>5, SwappedRows
<1>. QED BY <1>4, <1>5, <1>6

(* A job that is removed from the queue goes back to the status it came     *)
(* from, for any number of jobs and commands: between the reads of the      *)
(* removal (queue_service.rs:73-97) others start, halt, cancel or reorder   *)
(* jobs, and what it read is still of the stay in the queue that it ends.   *)
(* Excepted are a job that left the queue and returned meanwhile, and one   *)
(* that the end of a scan has put back.                                     *)
THEOREM RestoredOnRemoval == Spec => RemovalRestores
<1>1. Spec => []Removal
  <2>1. IInv /\ Removal /\ [Next]_vars => Removal'
    BY RemovalStep
  <2>. QED BY <2>1, RemovalInit, Invariance, PTL DEF Spec
<1>2. IInv /\ Removal /\ [Next]_vars => RemovalRestored
  BY RestoredStep
<1>3. Spec => [][RemovalRestored]_vars
  BY <1>1, <1>2, Invariance, PTL DEF Spec
<1>. QED BY <1>3 DEF RemovalRestores, RemovalRestored
================================================================================
