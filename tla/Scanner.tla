-------------------------------- MODULE Scanner --------------------------------
(***************************************************************************)
(* The recursive scan of a job (application/scanner.rs) with the commands  *)
(* that start and pause it. The database keeps the items found so far and  *)
(* a checkpoint for every folder that is not listed to its end. Every      *)
(* commit_scan_batch is a transaction of its own, so a crash, or a commit  *)
(* that fails, falls between any two of them, and a later scan goes on     *)
(* from what the rows say.                                                 *)
(*                                                                         *)
(* Drive does not change during the scan. A file is its name, what         *)
(* classify_drive_child looks at (Look) and, for a folder, its pages. A    *)
(* page token is the number of the page; the first page has none, which is *)
(* 1 here. Rows other than the job's status are those of one job.          *)
(***************************************************************************)
EXTENDS Integers, Sequences, FiniteSets, SequencesExt, JobStatus

CONSTANTS
  Files,
  Roots,        \* the roots of the job, in the order they were added
  Pages,        \* Pages[f]: the children of f, page by page
  Look,         \* Look[f]: what Drive says of f
  Batch,        \* SCAN_CHECKPOINT_BATCH_SIZE
  Concurrency   \* pages asked for at the same time

RootSet == ToSet(Roots)

Looks == [trashed: BOOLEAN, shared: BOOLEAN,
          owners: SUBSET {"source", "target", "other"},
          kind: {"folder", "file", "shortcut"}]

ASSUME ScannerAssumption ==
  /\ IsFiniteSet(Files) /\ Roots \in Seq(Files) /\ Roots # <<>>
  /\ Pages \in [Files -> Seq(Seq(Files))] /\ \A f \in Files : Pages[f] # <<>>
  /\ Look \in [Files -> Looks]
  /\ Batch \in Nat \ {0} /\ Concurrency \in Nat \ {0}

VARIABLES
  status,   \* of the job
  depthOf,  \* the committed items, each with its depth
  ckpt,     \* the checkpoints: folder -> [page, depth]
  opens,    \* the folders this job opens: none if it is not recursive
  at,       \* where the scan task is; "idle" when there is none
  pause,    \* the flag pause_scan sets
  batch,    \* root items that are not committed yet
  visited, queue,
  flight,   \* the pages of this wave that are not applied yet
  page      \* the page being applied, or NoPage

rows == <<status, depthOf, ckpt, opens>>
task == <<at, pause, batch, visited, queue, flight, page>>
vars == <<rows, task>>

Classify(f) ==
  IF Look[f].trashed THEN "Trashed"
  ELSE IF Look[f].shared THEN "SharedDrive"
  ELSE IF "target" \in Look[f].owners THEN "AlreadyOwnedByTarget"
  ELSE IF "source" \notin Look[f].owners THEN "NotOwnedBySource"
  ELSE IF Look[f].kind = "shortcut" THEN "Shortcut"
  ELSE IF Look[f].kind = "folder" THEN "EligibleFolder" ELSE "EligibleFile"
Eligible == {f \in Files : Classify(f) = "EligibleFolder"}

NoPage == [folder |-> "none"]
Committed == DOMAIN depthOf
Work == [folder: Files, page: Nat \ {0}, depth: Nat]

(***************************************************************************)
(* The store. An item that is there stays as it is, a checkpoint is        *)
(* overwritten.                                                            *)
(***************************************************************************)
CommitBatch(items, depth, folders, point, gone) ==
  /\ depthOf' = [f \in Committed \cup items |->
                   IF f \in Committed THEN depthOf[f] ELSE depth]
  /\ ckpt' = [f \in ((DOMAIN ckpt) \cup folders) \ gone |->
                IF f \in folders THEN point ELSE ckpt[f]]

First(s, n) == SubSeq(s, 1, IF n < Len(s) THEN n ELSE Len(s))
Rest(s, n)  == SubSeq(s, n + 1, Len(s))

\* The elements of s that are in S, each where it first occurs in s.
Fresh(s, S) ==
  LET here    == {i \in DOMAIN s : s[i] \in S /\ \A j \in 1..(i - 1) : s[j] # s[i]}
      rank(i) == Cardinality({j \in here : j <= i})
  IN [k \in 1..Cardinality(here) |-> s[CHOOSE i \in here : rank(i) = k]]

\* A dropped task forgets all it had in memory.
Forget ==
  /\ at' = "idle" /\ pause' = FALSE /\ batch' = <<>>
  /\ visited' = {} /\ queue' = <<>> /\ flight' = <<>> /\ page' = NoPage

(***************************************************************************)
(* A job starts as a draft, or with its roots already committed in the     *)
(* transaction that created it (create_seeded_scan).                       *)
(***************************************************************************)
Init ==
  /\ \/ /\ status = "DRAFT" /\ opens = Eligible
        /\ depthOf = <<>> /\ ckpt = <<>>
     \/ /\ status = "SCANNING" /\ opens \in {Eligible, {}}
        /\ depthOf = [f \in RootSet |-> 0]
        /\ ckpt = [f \in RootSet \cap opens |-> [page |-> 1, depth |-> 0]]
  /\ at = "idle" /\ pause = FALSE /\ batch = <<>>
  /\ visited = {} /\ queue = <<>> /\ flight = <<>> /\ page = NoPage

\* The checkpoints come in whatever order the database returns them.
Resumed ==
  {[i \in DOMAIN s |-> [folder |-> s[i], page |-> ckpt[s[i]].page, depth |-> ckpt[s[i]].depth]] :
     s \in SetToSeqs(DOMAIN ckpt)}

StartScan ==
  /\ at = "idle"
  /\ StartScanning(status) # Illegal
  /\ status' = StartScanning(status)
  /\ IF DOMAIN ckpt = {} /\ Committed = {}
       THEN at' = "collect" /\ UNCHANGED <<visited, queue>>
       ELSE at' = "run" /\ visited' = Committed /\ queue' \in Resumed
  /\ pause' = FALSE
  /\ UNCHANGED <<depthOf, ckpt, opens, batch, flight, page>>

\* Without a token a job that was left SCANNING is paused, another stays.
StartScanWithoutToken ==
  /\ at = "idle" /\ status = "SCANNING"
  /\ status' = "PAUSED"
  /\ UNCHANGED <<depthOf, ckpt, opens, task>>

\* Each root is read from Drive, a repeated one once.
CollectRoots ==
  /\ at = "collect"
  /\ batch' = Fresh(Roots, Files)
  /\ at' = "seed"
  /\ UNCHANGED <<rows, pause, visited, queue, flight, page>>

PersistRoots ==
  /\ at = "seed" /\ batch # <<>>
  /\ LET items == ToSet(First(batch, Batch)) IN
       CommitBatch(items, 0, items \cap opens, [page |-> 1, depth |-> 0], {})
  /\ batch' = Rest(batch, Batch)
  /\ UNCHANGED <<status, opens, at, pause, visited, queue, flight, page>>

Seeded ==
  /\ at = "seed" /\ batch = <<>>
  /\ visited' = Committed /\ queue' \in Resumed
  /\ at' = "run"
  /\ UNCHANGED <<rows, pause, batch, flight, page>>

BetweenPages == at = "run" /\ page = NoPage   \* mutant: pages still in flight
BetweenWaves == at = "run" /\ flight = <<>> /\ page = NoPage

StartWave ==
  /\ BetweenWaves /\ ~pause /\ queue # <<>>
  /\ flight' = First(queue, Concurrency)
  /\ queue' = Rest(queue, Concurrency)
  /\ UNCHANGED <<rows, at, pause, batch, visited, page>>

\* The token of the page after w, 0 when w is the last one.
NextPageBeyond(w) == IF w.page <= Len(Pages[w.folder]) THEN w.page + 1 ELSE 0   \* mutant
NextPageAgain(w) == IF w.page < Len(Pages[w.folder]) THEN w.page ELSE 0         \* mutant
NextPage(w) == IF w.page < Len(Pages[w.folder]) THEN w.page + 1 ELSE 0

\* Pages come back in any order and are applied one after the other.
PageArrives ==
  /\ page = NoPage
  /\ \E i \in DOMAIN flight :
       LET w   == flight[i]
           new == Fresh(Pages[w.folder][w.page], Files \ visited)
           sub == Fresh(new, opens)
       IN /\ page' = [folder |-> w.folder, depth |-> w.depth, items |-> new,
                      checkpoints |-> sub, enqueue |-> sub,
                      next |-> NextPage(w)]
          /\ visited' = visited \cup ToSet(new)
          /\ flight' = RemoveAt(flight, i)
  /\ UNCHANGED <<rows, at, pause, batch, queue>>

\* The k-th folder's checkpoint goes with the k-th item or earlier, so that
\* no checkpoint is left when the items are through.
CommitItemsAlone ==   \* mutant: the folders' checkpoints are left for the page
  /\ page # NoPage /\ page.items # <<>>
  /\ CommitBatch(ToSet(First(page.items, Batch)), page.depth + 1, {}, <<>>, {})
  /\ page' = [page EXCEPT !.items = Rest(@, Batch)]
  /\ UNCHANGED <<status, opens, at, pause, batch, visited, queue, flight>>
CommitItemsShallow ==   \* mutant: a new folder's checkpoint has its parent's depth
  /\ page # NoPage /\ page.items # <<>>
  /\ CommitBatch(ToSet(First(page.items, Batch)), page.depth + 1,
                 ToSet(First(page.checkpoints, Batch)), [page |-> 1, depth |-> page.depth], {})
  /\ page' = [page EXCEPT !.items = Rest(@, Batch), !.checkpoints = Rest(@, Batch)]
  /\ UNCHANGED <<status, opens, at, pause, batch, visited, queue, flight>>
CommitItems ==
  /\ page # NoPage /\ page.items # <<>>
  /\ CommitBatch(ToSet(First(page.items, Batch)), page.depth + 1,
                 ToSet(First(page.checkpoints, Batch)),
                 [page |-> 1, depth |-> page.depth + 1], {})
  /\ page' = [page EXCEPT !.items = Rest(@, Batch), !.checkpoints = Rest(@, Batch)]
  /\ UNCHANGED <<status, opens, at, pause, batch, visited, queue, flight>>

AsWork(fs, n, d) == [i \in DOMAIN fs |-> [folder |-> fs[i], page |-> n, depth |-> d]]

CommitPage ==
  /\ page # NoPage /\ page.items = <<>>
  /\ IF page.next # 0
       THEN CommitBatch({}, 0, {page.folder},
                        [page |-> page.next, depth |-> page.depth], {})
       ELSE CommitBatch({}, 0, {}, <<>>, {page.folder})
  /\ queue' = queue
       \o (IF page.next = 0 THEN <<>> ELSE AsWork(<<page.folder>>, page.next, page.depth))
       \o AsWork(page.enqueue, 1, page.depth + 1)
  /\ page' = NoPage
  /\ UNCHANGED <<status, opens, at, pause, batch, visited, flight>>

(***************************************************************************)
(* How a scan ends.                                                        *)
(***************************************************************************)
Complete ==      \* a pause that comes now is too late
  /\ BetweenWaves /\ queue = <<>>
  /\ status' = CompleteScanning(status)
  /\ Forget /\ UNCHANGED <<depthOf, ckpt, opens>>

Pause ==
  /\ BetweenWaves /\ pause /\ queue # <<>>
  /\ status' = PauseScanning(status)
  /\ Forget /\ UNCHANGED <<depthOf, ckpt, opens>>

DriveErrors == {"RateLimited", "Forbidden", "Unavailable", "Transport", "Unauthorized",
                "NotFound", "InvalidResponse", "UnexpectedStatus"}
Retryable(e) ==
  e \in {"Store", "RateLimited", "Forbidden", "Unavailable", "Transport"}

\* An error drops the pages in flight and what is left of the page at hand.
EndWith(e) ==
  /\ status' = IF Retryable(e) THEN PauseScanning(status) ELSE FailScanning(status)
  /\ Forget /\ UNCHANGED <<depthOf, ckpt, opens>>

DriveFails ==
  /\ at = "collect" \/ (flight # <<>> /\ page = NoPage)
  /\ \E e \in DriveErrors : EndWith(e)
StoreFails == (at \in {"collect", "seed"} \/ page # NoPage) /\ EndWith("Store")

\* The outcome cannot be saved: the job stays SCANNING, with no scan.
OutcomeUnsaved ==
  /\ BetweenWaves /\ (pause \/ queue = <<>>)
  /\ Forget /\ UNCHANGED rows

(***************************************************************************)
(* The user, and the process.                                              *)
(***************************************************************************)
PauseScan ==
  /\ status \in {"SCANNING", "PAUSED"}
  /\ \/ at # "idle" /\ pause' = TRUE /\ UNCHANGED status
     \/ at = "idle" /\ status' = PauseScanning(status) /\ UNCHANGED pause
  /\ UNCHANGED <<depthOf, ckpt, opens, at, batch, visited, queue, flight, page>>

\* The process dies; the next one pauses what it finds SCANNING.
Restart ==
  /\ status' = IF status = "SCANNING" THEN PauseScanning(status) ELSE status
  /\ Forget /\ UNCHANGED <<depthOf, ckpt, opens>>

Worker ==
  \/ CollectRoots \/ PersistRoots \/ Seeded
  \/ StartWave \/ PageArrives \/ CommitItems \/ CommitPage
  \/ Complete \/ Pause
Disturb ==
  \/ StartScanWithoutToken \/ DriveFails \/ StoreFails \/ OutcomeUnsaved
  \/ PauseScan \/ Restart
Next == StartScan \/ Worker \/ Disturb

Spec == Init /\ [][Next]_vars

\* The task runs on, and somebody starts a scan that is not running.
FairSpec == Spec /\ WF_vars(Worker) /\ WF_vars(StartScan)

(***************************************************************************)
(* Properties.                                                             *)
(***************************************************************************)
TypeOK ==
  /\ status \in Statuses /\ opens \in {Eligible, {}}
  /\ Committed \subseteq Files /\ \A f \in Committed : depthOf[f] \in Nat
  /\ DOMAIN ckpt \subseteq opens
  /\ \A f \in DOMAIN ckpt : ckpt[f].page \in DOMAIN Pages[f] /\ ckpt[f].depth \in Nat
  /\ at \in {"idle", "collect", "seed", "run"} /\ pause \in BOOLEAN
  /\ batch \in Seq(RootSet) /\ visited \subseteq Files
  /\ queue \in Seq(Work) /\ flight \in Seq(Work)
  /\ page # NoPage => {page.items, page.checkpoints, page.enqueue} \subseteq Seq(Files)

\* All that a folder contains.
Kids == [f \in Files |-> UNION {ToSet(Pages[f][n]) : n \in DOMAIN Pages[f]}]

\* What the rows say of f has been listed: what is before its checkpoint,
\* or everything when it has none.
Listed(f) ==
  UNION {ToSet(Pages[f][n]) :
           n \in {m \in DOMAIN Pages[f] : f \in DOMAIN ckpt => m < ckpt[f].page}}

\* Wherever a crash or a failed commit cuts a scan, what the rows take for
\* listed is there: a checkpoint never runs ahead of the items, and no folder
\* is found without being finished or having a checkpoint (apply_page).
NothingForgotten == \A f \in Committed \cap opens : Listed(f) \subseteq Committed

\* Transfers run deepest first (ORDER BY depth DESC): what is in a folder is
\* deeper than the folder, unless it is a root itself, although a resumed scan
\* has the depths from checkpoints that may be older than the items.
ContentsAreDeeper ==
  \A f \in Committed \cap opens : \A c \in (Kids[f] \cap Committed) \ RootSet :
    depthOf[c] > depthOf[f]

\* However often a scan is paused, fails or is cut by a crash, it finds what
\* one undisturbed walk over the tree finds, and nothing is missing or
\* foreign when the job is ready for review.
Walk == INSTANCE TreeWalk WITH
  File <- Files, Start <- RootSet, found <- Committed, Modes <- {Eligible, {}},
  done <- status \notin {"DRAFT", "SCANNING", "PAUSED", "FAILED"}
ImplementsWalk == Walk!Spec

\* A scan that is left alone from some point on comes to its end: neither a
\* folder listed twice nor a checkpoint left behind keeps it busy.
ScanEnds == (<>[][~Disturb]_vars) => <>(status \in {"READY_FOR_REVIEW", "FAILED"})
================================================================================
