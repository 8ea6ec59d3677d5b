# GDOM in TLA+

GDOM is a desktop application (Tauri: Rust and a TypeScript UI) that moves the
ownership of Google Drive files from one Gmail account to another. Google asks
for two steps per file: the source offers the ownership (a permission with
`pendingOwner`), the target accepts it. GDOM scans the chosen folders, transfers
a small canary first, and then the rest, one file at a time; everything it knows
is in SQLite, so that it can be stopped, killed and resumed.

This directory holds a model of it, what TLC checks about the model on small
instances, and what TLAPS proves about it for all.

## Inventory

| Component | State | Operations | Talks to | Hard part | What makes it correct |
|---|---|---|---|---|---|
| Item life cycle, `gdom-migration/src/item.rs` | `ItemState` | `transition_to` | engine, store | partial transition relation | the engine asks for nothing it refuses |
| Job status machine, `gdom-migration/src/job/` | `JobStatus`, queue position | 16 operations | job service | each partial, several idempotent | terminal is final |
| Transfer engine, `application/transfer.rs` | a loaded list, the item in flight, attempt counters | canary, bulk, automatic run, reconciliation | Drive, item store, flags | crash between a remote effect and its row; lost responses; Drive changed by people | rows are a truthful write-ahead record; VERIFIED means owned |
| Item store, `infrastructure/item_store.rs` | `migration_items`, checkpoints, audit events | scan batch, save, sweep, reset, aggregates | SQLite | sweeps against a worker's older copy | settled rows never change |
| Job service, `application/job_service.rs` | status rows, events, flags, memory lease, durable lease | start, continue, pause, resume, cancel, retry, startup reconciliation | all of the above | commands interleave at every await; phase inferred from the last event | canary gate; a single mutator; answered requests count |
| Drafts, roots and rows, `job_store.rs`, `job.rs`, `job/roots.rs` | the row of a job, its roots | create, change accounts, add and remove roots, delete, whole-row update | SQLite, Drive | copies read before a long request are written after it | roots are fixed once a scan may have read them |
| Queue, `queue_service.rs`, `job_queue.rs` | `queue_position` | enqueue, reorder, remove | job store | read, decided, then compared and swapped | the order is an order; a removed job gets its status back |
| Scanner, `application/scanner.rs`, `item_classifier.rs` | frontier, visited ids, page checkpoints | collect roots, waves of pages, commit of a page | Drive, item store | crash between pages and transactions | a resumed scan finds what an uninterrupted one does |
| Tokens and accounts, `account_token_provider.rs`, `connect_account.rs`, `account_lifecycle.rs` | account row, credential store, cached tokens, one mutex per account | get a token, refresh, mark, connect, reauthenticate, disconnect, remove | Google OAuth, keychain | single flight; two stores and no transaction | a rejected token is gone; a connected account has a credential |
| OAuth connection, `commands/account_connection.rs`, `oauth_listener.rs`, `oauth_connection.rs` | pending attempt, lock, loopback connections, OAuth client | begin, connect, cancel, configure, recover | browser, keychain | abandoned dialogs, reaped connections, cancellation at every await | a cancelled attempt is over; a callback that was read counts |
| Update gate, `update_gate.rs` | read/write lock | work, installation | job service | tasks outlive the command | no installation during work |
| Drive browser, `DriveFileBrowser.tsx`, `drive_browser.rs` | path, rows, dialogs, the newest request | open, sort, load more, rename, trash, sign in again | Drive client, account registry | answers in any order | the rows are of one listing, the one asked for |
| Drive client, preflight, reports, commands | none | | | I/O and formatting | see *Not modelled* |
| Logs, `gdom-logs` | current file, generations | write, rotate | disk | size boundary | bounded disk use |

Components interact by direct async calls inside one process. What is shared is
SQLite, two atomic flags per job, the memory slot of the mutation lease, the
token cache with its mutexes and the lock of the sign-in. Transfers and scans run
in spawned tasks, the commands in others, and the UI in the web view, where every
call is an await.

## Modules

| Module | Models | State and actions |
|---|---|---|
| `ItemState` | `item.rs` | the states, their classes, `CanTransition` |
| `JobStatus` | `job/status.rs`, `job/transfer.rs`, `job/scanning.rs`, the queue's operations | one operator per operation: new status or `Illegal` |
| `ItemTransfer` | `transfer.rs`, the item store's transfer queries, the run, resume, pause, cancel, retry and startup code of `job_service.rs` | one job, its files, one worker, a crash |
| `OwnershipHandover` | what a migration promises per file | offer, withdraw, accept, lose, verify, close |
| `JobControl` | the commands, scan tasks and transfer tasks of `job_service.rs` between two awaits, `update_gate.rs`, the lease row | several jobs, processes, flags, leases |
| `JobRows` | `job_store.rs`, `job_queue.rs`, `queue_service.rs`, `job.rs`, `job/roots.rs` and the commands that read a row, wait and write it | several jobs and commands, each with its copy |
| `Scanner` | `scanner.rs`, `item_classifier.rs`, `job/scanning.rs`, the scan task of `job_service.rs` | one job, its roots, waves, pages, checkpoints |
| `TreeWalk` | what a scan promises | discover, finish |
| `Accounts` | `account_token_provider.rs`, `connect_account.rs`, `account_lifecycle.rs`, the account and credential stores | one Google identity, several commands |
| `SignIn` | `account_connection.rs`, `oauth_listener.rs`, `oauth_callback.rs`, `oauth_connection.rs`, `oauth_secret_recovery.rs`, `useAccountConnection.ts` | several dialogs, one listener, the OAuth client |
| `Browser` | `DriveFileBrowser.tsx`, its dialogs, `useAccountRegistry.ts`, `drive_browser.rs`, the listing of the Drive client | one account, requests in flight, the screen |
| `MCItemTransfer`, `MCJobControl`, `MCJobRows`, `MCScanner`, `MCAccounts`, `MCSignIn`, `MCBrowser` | | the small instances |
| `ItemTransferProofs`, `JobControlProofs`, `JobRowsProofs`, `SignInProofs`, `AccountsProofs`, `BrowserProofs` | | theorems about the module of that name |
| `ScannerProofs` | | theorems about `Scanner` and `TreeWalk`, and that the one implements the other |
| `TransferRowsProofs` | | theorems about the rows of `ItemTransfer` over a job's whole life, on top of `ItemTransferProofs`, and that it implements `OwnershipHandover` |

The modules are cut where the code waits. `ItemTransfer` follows one job down to
its rows and Drive and takes commands one at a time; `JobControl` interleaves the
commands of several jobs and knows of a worker only that it runs; `JobRows` looks
at the columns the first two leave out. `Scanner` is the inside of a scan task,
which is one step in `JobControl`. `Accounts` begins where `SignIn` ends, at the
grant. `JobStatus` is shared by all that write a status. An operator whose comment
says *mutant* is not part of a specification: it is a plausible mistake in the
operator below it, kept to show that the properties notice it.

### `ItemTransfer`

`drive` is the external Drive: owner, permission of the target, trashed, moved.
`rows`, `status` and `event` (the latest `JOB_STATUS` event) are what a crash
leaves. Everything else is memory: `stop` (the two flags), `pc`, and the
worker's `mode`, `auto`, `copy`, `cur`, `mem`, `tries`, `polls`, `outcome`.
`reviewed` and `cancelled` are history variables. `left` is the remaining budget
of things that go wrong.

`pc` follows the code:

    idle -> launch -> start -> (mark ->) next -> read -> create|update -> offered
         -> accepting -> accept -> accepted -> transferred -> verify -> next ...
         -> (sweep ->) persist -> idle

`launch` is a spawned task that has not begun, `start` has cleared the flags,
`mark` writes the cohort row by row, `next` is the loop of `transfer_items`, the
names after it are the steps of `transfer_one`, and `persist` is the end of
`run_mutation`. `resume` and `startup` are the two uses of
`reconcile_checkpoint`, `cancelling` is the point between the two transactions
of a cancellation, `scanned` a finished scan that was started with
`auto_continue`, `down` a dead process.

*Granularity.* Every database write is a step of its own and so is every remote
mutation: a crash, a stop request or a change in Drive fits between any two.
A remote read and the save that follows it are one step: only the worker uses
the row, so a change of Drive in between equals one right after.
A row is saved whole from the worker's copy, as `save_item` does, and the copy
may be older than the row.

*Data.* Of an item's row the model keeps the state, whether the permission id is
recorded, and cohort membership. Errors, times, names, audit events and progress
are left out. A remote error is one of the classes `classify` makes.
The lists are sets ordered by `Rank`, the `ORDER BY` of the query.

*What Drive does* is external, read off how the engine uses it: a mutation may
be refused, fail, or take effect with its response lost; the target sees a file
only through a permission; verification may still be shown the old owner.
`EnvKinds` are the changes people may make: trash, revoke, share, accept by
hand, give away, move to a shared drive, move, and the target giving a file
away again.

*Not interleaved here:* the commands of the user with each other, several jobs,
and the leases. A command is one step, except for a cancellation (two
transactions) and for a resume (its reconciliation is stepwise, and pause,
cancel and retry may arrive during it).

*The abstract specification.* `OwnershipHandover` has three variables per file:
who owns it, whether an offer is pending, and the application's claim (open,
verified, closed). Ownership leaves the source for the target only through a
pending offer, never comes back to the source, a claim is settled once, and
"verified" is claimed only of a file the target owns at that moment.
`ImplementsHandover` checks that every step of `ItemTransfer` is one of its steps
or none, under the mapping at the end of `ItemTransfer`. `ChangeAndClose` is the
one place where it is weaker than one might wish: an acceptance with a lost
response may transfer the file and close the claim as failed in the same step.

### `JobControl`

Several jobs, with commands and tasks that run at the same time. A process is a
record: the command it serves (`cmd`), the await it is in front of (`at`), the
status it read (`seen`), and, for a worker, the flags it still listens to
(`heard`) and the value of those taken out of the map while it held them (`kept`).
Shared are `status` in the database, the durable `lease`, the memory `slot`, the
`flags`, `scanning` (`scan_in_flight`), `scanPause`, and the update `gate`.

    start, continue, resume:  slot -> lease -> (reconcile ->) prepare -> task
                              slot, lease -> queue -> enqueue
    worker task:              launch -> listen -> run -> ended -> release -> flags -> drop
    pause, cancel:            signal -> (cancelsignal ->) inflight -> settle -> release -> drop
    scan, transfer:           scanload -> scanslot -> scanflag -> scanstart -> task
    scan task:                scan -> complete|pause|park|fail -> (autoload -> slot ...)

*Granularity.* A step is what runs between two awaits that matter: two that touch
state no other process reads in between are one step. The status is written from
`seen`, unconditionally, as `update_job` does. A process holds the gate for
reading as long as it is not free; that a spawned task inherits the hold is what
`InstallsAlone` is about, and its mutant drops it.

*Data.* What a worker does with its items is `ItemTransfer`'s: here it runs until
it hears a flag or ends in one of the statuses a run may end in. `begun` stands
for `looks_like_transfer_pause`. Resuming as canary or bulk is a free choice, as
the rows decide it. SOURCE_RATE_LIMITED and WAITING_FOR_QUOTA behave like
AUTH_REQUIRED and are left out. A failing read of the database is left out; a
failing write is `SpawnFails`.

### `JobRows`

What a command may do to a row it read some awaits ago. A command is a record
with the job, its `copy` of the row, an argument, the place it asked for and, for
a queue command, the snapshot (`snap`) it computes from. `Save` writes every
column of the row from the copy (`update_job`) but not the roots, which are rows
of their own; the statements that compare before they write (`add_root`,
`remove_root`, `update_draft_job_accounts`, `delete_draft`, `persist_queue_changes`)
have the comparison in their guard. What a transfer does is a status written at
some later time (`WriteOutcome`). A scan ends in two steps: it loads the job
(`ScanDone`) and, after the look-up of the target's quota, writes that copy back
whatever the row has become (`ScanEnds`, `job_service.rs:1311` and `1358`); a pause
that finds no scan in flight writes its own copy in the same way (`SettlePause`,
`ParkScan`). A removal from the queue awaits each of its reads: the latest event, the
cohort, the checkpoints, the origin and, for a job that looks paused, phase and items
(`ReadEvent`, `ReadCohort`, `ReadCheckpoints`, `ReadOrigin`, `ReadPhase`, `ReadItems`); what it
has read so far is in `seen`, and any other command or worker may act in between. The three commands that start a transfer accept
what `start_canary`, `continue_migration` and the resumption accept, the running statuses
included (`ByStart`, `ByContinue`, `ByResume`); a resumption that finds a checkpoint it has
no access to halts the job at once (`ResumeHalts`). `Halted` are the three statuses of a
transfer that stopped by itself, which may be queued again.

*History.* `from` is the status a queued job came from, `entries` counts how often
a job entered the queue, `since` is that number when a removal took its snapshot, and
`relapsed` are the jobs that the late write of a scan put back into the queue or into a halt.

*Data.* A folder has an owner, which is what the validation of a root asks. Of a
job's items and checkpoints there are `begun` (a cohort is marked) and `frontier`
(checkpoints are left), which `status_after_queue` looks at. A session starts with
jobs as earlier sessions leave them (`Sessions`), so that queues of some length
need few commands.

### `Scanner` and `TreeWalk`

The database has `depthOf` (the items, by depth), `ckpt` (a checkpoint per folder
that is not listed to its end) and the status; a scan task has its frontier
(`queue`, `visited`), the pages of the wave in flight and the page being applied.

    StartScan -> CollectRoots -> PersistRoots* -> Seeded
              -> (StartWave -> (PageArrives -> CommitItems* -> CommitPage)*)* -> Complete

Every `commit_scan_batch` is a transaction and a step: a batch of items with as
many checkpoints of new folders, then the page's own checkpoint. A crash, a
failing commit, a failing request or a pause comes between any two; what resumes
is computed from the rows, in whatever order the checkpoints come back. Drive
does not change during a scan. A failed task drops what is in flight.

`TreeWalk` is the promise: find only what can be reached from the roots, and
finish only when what is found is closed under opening folders. A scan that is
cut and resumed any number of times refines one walk (`ImplementsWalk`).
`ContentsAreDeeper` is about the depth a row is stored with, which the transfer orders
its list by: it comes from a checkpoint that may be as old as the scan.

### `Accounts`

One Google identity: its row, its credential, its cached token, and the entry of
its mutex in the lock table (a new entry is a new mutex, so a removal in between
lets a second command in). A command is at one await (`at`) with what it read
(`id`, `token`, `before`); `mutex` is the one it waits for or holds. Google numbers
its grants: a refresh token and the access tokens obtained with it are the number
of their grant, and `revoked` says up to which they are rejected.

    job, browse:     get -> queue -> find -> refreshing -> load -> google -> publish -> use
                     use -> mark -> mark queue -> mark write
    connect:         consent -> prior -> upsert -> persist (-> rollback)
    reauthenticate:  consent -> match -> save -> reconnect -> renewed
    disconnect, remove, delete:  check -> forget -> leave

Every access to one of the three stores is a step and may fail (`Fault`), in every
session. A status write whose error the code ignores is `TrySetStatus`. `Stranded` is an
account that is shown as connected, has no credential, and has no command at work on it
between the two stores (`Between`).

### `SignIn`

A dialog (`ui`) begins an attempt, which takes `connect_account_lock` and is
registered as a reservation; `connect_account` (`run`) takes the reservation,
listens, reads a callback, exchanges its code and releases lock and registration.
Closing the dialog cancels the attempt and waits for its end. The listener keeps
at most `MaxInFlight` connections and reaps the oldest without losing one whose
callback it has read. `configure_oauth`, `reset_oauth_config` and the recovery of
the secret (`settings`) change the client in three places: the setting, the
credential store, the memory. An OAuth client is its id and a secret is the id it
belongs to; `torn` records that a failure separated the two stores. `Restart`
drops everything but the stores.

### `Browser`

What `DriveFileBrowser` keeps on the screen. A call of `loadFolder` is a record
with its number, the listing it asked for, its page token and where it is
(`asked`, `listed`, failed, asking for the account's status); `latest` is
`activeReqIdRef`. Beside the loads there are the registry's refreshes, the
rename and trash dialogs with their requests, and a new sign-in, all of which
answer in any order. A listing is a folder in a sort order, its content the
version of the folder, which an edit raises; `due` is the version the person was
told is done. `strayed` and `unseen` are history variables that mark the two
excepted cases (below).

## Runs

| Run | Bounds | Shows |
|---|---|---|
| `Transfer_crash` | two files, canary 1; one fault, one outside change, one crash | types; VERIFIED is owned; a row says that an acceptance was under way before the file is the target's, and until it is given up; a row to accept has its permission; the cohort is chosen once, and not too large; COMPLETED leaves nothing over |
| `Transfer_people` | two files, canary 1; one fault, one outside change of any kind, one retry request | legal transitions only; the canary gate; settled rows are final; the refinement of `OwnershipHandover` |
| `Transfer_live` | two files, canary 2; one fault, one outside change | every run ends |
| `Control_scan` | two jobs, one client, two tasks, one restart; scan, pause of a scan, the automatic transfer, continue | types; a worker holds slot and lease and nobody else keeps them; an installation is alone |
| `Control_stop` | two jobs, one client, two tasks; start, resume, pause, cancel | a worker holds slot and lease; each lease is given back |
| `Scan_resume` | two roots, the second inside the first; folders of several pages, items of every class; batches of two, two pages at a time | types; rows never claim what is not there; what is in a folder is deeper than the folder; the refinement of `TreeWalk`; a scan left alone ends |
| `Accounts_commands` | two commands at a time, two ids, two grants; either {job, browse, connect, reauthenticate} with two faults or {connect, disconnect, remove, delete} with one | types; one refresh at a time; no rejected token left; no first failure of a store strands a connected account without a credential, but in the two named ways; every command answers |
| `SignIn_dialogs` | either two dialogs, or one dialog, a configuration and one fault; two connections at a time, three in all | types; a cancelled attempt is over and uses no grant; a callback that was read counts; one client at a time; every dialog ends |
| `Jobs_rows` | three jobs, two clients, three folders of two accounts; five sessions of two to four requests | types; the queue is an order and its changes are local; a removal restores, whatever happens between its reads; roots are fixed after the draft |
| `Browser_screen` | two folders, two orders, two pages; four loads and an edit, three loads and a trashing of two files, or three loads and a change of the account | types; rows of one listing; the screen at rest shows what was asked for and done |
| `Bad_mutators` | two jobs, one client, two tasks; start, the automatic transfer, cancel | the workers of two different jobs change Drive at once |
| `Bad_cancel` | two files, canary 1; no fault, no crash, no outside change | an answered cancel is lost: the run takes a file in hand afterwards |

*Why the bounds are enough.*

- `ItemTransfer`: items do not interact except through the list order, the cohort
  and the counts at the end of a phase. Two items with a canary of one give one
  item on each side of the gate; a canary of two covers the job. `MaxRetry = 1`
  (the code's 6) exercises both ways out of each loop. Every hazard listed needs at
  most one crash, one lost response and one outside change together; stop and
  resume commands are not limited in number. Faults and crashes are bounded only
  by `Budget`, which the proofs leave arbitrary.
- `JobControl`: two jobs compete for one lease; two tasks give a scan or a worker
  of each, or a scan and the worker it starts. `Commands` differs per run, because
  `WorkerHoldsLease` does not hold for all of them: a cancel or a pause that
  found no worker gives away the lease of one that started since (`Bad_mutators`).
  With one client that needs an automatic transfer, so `Control_stop` leaves that
  out, and `Control_scan` leaves out pause and cancel.
- `JobRows`: three jobs are a queue with a first, a middle and a last; a race needs
  two commands, and a third request (the sessions of three) makes one command
  meet two others one after the other.
- `JobRows`, sessions: what an earlier session leaves is any job it can have left
  (`KnownJob`): a queued one came from a status that may be queued, a halted one had begun.
  The session of four requests lets a job leave the queue and come back while it is being
  removed.
- `Scanner`: batches of two against pages of three give a page whose folder comes
  in a later batch than its checkpoint; two pages at a time against up to four
  folders give several waves; a root inside the other is met both ways. The draft
  has no more roots than a batch: see the findings below.
- `Accounts`: two commands are the race; a third queues behind the same mutex. Two
  grants tell an old token from a new one. Two faults are a failing store and a
  failing roll back; where accounts are taken away there is one, as
  `ConnectedHasCredential` is about the first failure of a run.
- `SignIn`: the lock admits one attempt, so a second dialog is every other one. Two
  connections at a time with a third make the listener reap, with the code in any
  of the three.
- `Browser`: the newest of four loads is the one that counts, and the others
  are older ones in every order; only an edit needs a fourth.

*Symmetry* is used in `Control_scan` (jobs, tasks) and `Jobs_rows` (clients), where no
definition distinguishes the members; not where there is a liveness property.

*Deadlock* is checked for `ItemTransfer` and `JobControl`, where the user can always
ask for something and a dead process be started again. The other five runs use
sessions that end: the requests, grants, dialogs or loads are used up, or the job
is scanned, and the system rests. What must not get stuck there is stated as
`ScanEnds`, `EveryCommandAnswers`, `DialogEnds` and `SettledScreen`.

*Fairness.* Nothing is asked of the user, of faults, or of people.

- `ItemTransfer`: weak fairness of `WorkerStep`. The Tokio runtime polls a spawned
  task that is ready, remote calls have timeouts, and a sleep ends. A restart after
  a crash is part of `WorkerStep`, but `RunEnds` is checked without crashes.
- `JobControl`: weak fairness of the steps of every process under way, of no
  command and of no installation.
- `Scanner`: weak fairness of `Worker`, and of `StartScan`, as a scan nobody starts
  does not end. `ScanEnds` speaks of behaviours in which nothing disturbs the scan
  from some point on.
- `Accounts`: weak fairness of each command's steps, strong fairness of `Enter` and
  `MarkEnter`: a Tokio mutex is fair, it goes to the first that asked. Not of
  `Consent`: a person may leave the browser open (`EveryCommandAnswers` excepts it).
- `SignIn`: weak fairness of each attempt's steps and of the configuration's. The
  attempt has a deadline, so it ends without the person.

## What is proved

For every finite instance (the assumptions of the modules are all that is used):

| Module | Theorem | Statement |
|---|---|---|
| `ItemTransferProofs` | `Invariance` | `Spec => []IInv` |
| | `TypeCorrect` | `Spec => []TypeOK` |
| | `VerifiedOwnership` | `Spec => []VerifiedIsOwned` |
| | `PermissionKnown` | `Spec => []AcceptKnowsPermission` |
| | `LegalTransitions` | `Spec => []EngineStaysLegal` |
| `TransferRowsProofs` | `SettledForever` | `Spec => TerminalIsFinal` |
| | `CanaryGoesFirst` | `Spec => []CanaryGate` |
| | `OwnershipRecorded` | `Spec => OwnedIsRecorded` |
| | `CanaryBounded` | `Spec => []CohortBounded` |
| | `CanaryChosenOnce` | `Spec => ChosenOnce` |
| | `CompletedIsDone` | `Spec => []CompletedMeansDone` |
| | `Implementation` | `Spec => ImplementsHandover` |
| `JobControlProofs` | `Invariance` | `Spec => []IInv` |
| | `TypeCorrect` | `Spec => []TypeOK` |
| | `NoLeak` | `Spec => []LeaseIsNotLeaked` |
| | `Installation` | `Spec => []InstallsAlone` |
| | `WorkerKeepsLease` | `Orderly => (Spec => []WorkerHoldsLease)` |
| | `LeaseHeld` | `Orderly => (Spec => []LeaseFitsWork)` |
| | `OneMutator` | `Orderly => (Spec => [](SingleMutator /\ OneJobMutates))` |
| `JobRowsProofs` | `Invariance` | `Spec => []IInv` |
| | `TypeCorrect` | `Spec => []TypeOK` |
| | `OrderedQueue` | `Spec => []QueueIsAnOrder` |
| | `LockedForever` | `Spec => RootsLocked` |
| | `LocalQueueChanges` | `Spec => QueueChangeIsLocal` |
| | `RestoredOnRemoval` | `Spec => RemovalRestores` |
| `SignInProofs` | `CancelledIsOver` | `Spec => []CancelMeansOver` |
| | `Invariance` | `Spec => []IInv` |
| | `TypeCorrect` | `Spec => []TypeOK` |
| | `ClientKept` | `Spec => []OneClient` |
| | `NoLateGrant` | `Spec => NoGrantAfterCancel` |
| | `CallbackCounts` | `Spec => ReadCallbackCounts` |
| `AccountsProofs` | `TypeCorrect` | `Spec => []TypeOK` |
| | `OneRefresh` | `Spec => []SingleFlight` |
| | `RejectedIsGone` | `Spec => []RejectedTokenGone` |
| | `CredentialKept` | `SessionsApart => (Spec => ConnectedHasCredential)` |
| `ScannerProofs` | `TypeCorrect` | `Spec => []TypeOK` |
| | `NothingLost` | `Spec => []NothingForgotten` |
| | `WalkComplete` | `Walk!Spec => []Walk!Complete` |
| | `ScanImplementsWalk` | `RootsFit => (Spec => ImplementsWalk)` |
| | `ReviewIsComplete` | `RootsFit => (Spec => []Walk!Complete)` |
| | `DeeperInside` | `RootsFit /\ DriveIsATree => (Spec => []ContentsAreDeeper)` |
| `BrowserProofs` | `TypeCorrect` | `Spec => []TypeOK` |
| | `RowsOfOneListing` | `Spec => []OneListing` |
| | `ScreenSettles` | `Spec => []SettledScreen` |

Each hypothesis names the states of the code the statement leaves out, and each is
satisfied by a run that checks the property: `Orderly` by `Control_scan` (nobody pauses or
cancels) and by `Control_stop` (one client, no automatic transfer), `SessionsApart` by
`Accounts_commands`, `RootsFit` and `DriveIsATree` by `Scan_resume`.

*`ItemTransfer`.* None of the properties of `ItemTransferProofs` is inductive. The worker saves rows
from a copy it loaded or changed earlier, so what is known of a row must also be
known of every copy: that is `CopyOK` for the loaded list and `ItemOK` for the item
in flight. `Knows` says, per program point, which states the copy may be in and
whether it names the permission; it is what makes each transition legal and each
saved row right. A copy in the list that says VERIFIED would break
`VerifiedIsOwned` when saved, so the copies are only of rows that are not settled.
`JobOK` ties the status to the program point: a worker exists only in a status in
which the operation at the end of its run is allowed, which `TypeCorrect` needs, as
`Illegal` is not a status. `ControlOK` ties the outcome to the mode. There is one
lemma for each helper that saves and one per group of actions.

*The rows of a job.* `TransferRowsProofs` adds one invariant per property, each about
the rows on disk *and* the copies of them in memory. `Unsettled`: what is loaded or in
hand is not settled on disk, and no row is in memory twice, so a stale copy never
overwrites a settled row. `CanaryOnly`: until the review only canary rows were touched or
are loaded, and neither the status nor the latest event mentions the bulk phase, from
which the inference of a resume (`ShouldResumeAsCanary`) follows. `Ahead`: a row and every
copy that will be written over it admit that the target may own the file; ACCEPTING is on
disk before the acceptance is asked for; and an admission is taken back by a retry request
only, of which there are as many as the budget says. `OwnedIsRecorded` is about steps, and
needs `Fresh` besides: a copy in the list or in hand says of an acceptance what its row
says, so that writing it back takes nothing away; and the target sees what it owns. What it
excepts are the two ways the worker itself lets go of a row (`GivenUp`, `FoundTrashed`): such a
row may later be CANCELLED or failed while the target owns the file, and the
reconciliation after a crash does not look at it. `WriteBack` and `Honest` say what the
steps of an item have in common, so that each action is looked at once.

*The canary.* `Marks`: a copy carries the mark its row has or is about to get; no file is
marked beyond those a list of at most `CanarySize` names; and from the first file of a run
on the cohort is `Chosen`, that is, it is not empty or there is nothing left to choose
from. That the first `CanarySize` rows of the order are at most so many is a fact about
ranks (`RanksOrder`: of two files one has strictly fewer before it).

*Completion.* `Covered`: while a list is walked, every row of the phase is finished or still
in hand; from it `Ended`: when the run is over nothing is left, and its outcome knows of
every failure. `CancelTraced` ties a cancelled row to a job that is cancelled, or about to
be, unless a crash fell between the two transactions. The proof attempt corrected the
property: a retry request may also reopen rows of a job that has said COMPLETED after a
crash left it with failed ones, which `CompletedMeansDone` now excepts for every `Budget`.

*The hand-over.* Each step is mapped by what it does to the one file and the rows: an
offer, an acceptance, a withdrawal or a loss, possibly with the claim closed in the same
step (a lost response); a confirmation; or the closing of a set of claims. Needed are
`Unsettled` (claims are settled once), that the permission of the target tells the owner
(`DriveAgrees`: an offer is pending only while the source owns the file), and that no step
but the confirmation writes VERIFIED.

*`JobControl`.* `ProcOK` says what is known of a process from where it is: which
command brought it there and which status it read, so that the status it is going to
write is legal. `LeasesOK` names a witness for each half of the lease: a process that
will give it back. These hold for all commands. That a lease belongs to one process
*only* does not: pause and cancel release by the job's id, whoever holds it. Under
`Orderly` it does: either neither command is among `Commands`, for any number of clients,
tasks and restarts; or commands are answered one after the other and no scan starts a
transfer by itself. In the second case a stop gives back a lease it did not take, so the
invariant (`Alone`) says of a stop that has passed its look for a worker that there is none
of that job, and that none can have begun since. So
`OneMutator` and `Bad_mutators` together say where the gap is: a pause or a cancel
beside a transfer that is just beginning, and nowhere else.

*`JobRows`.* A whole-row write puts a copy over the row, so every copy carries the
invariant of a row (a position exactly if it is queued). That no two positions are
equal survives it because no such write puts a job into the queue (the status it
writes is not QUEUED, and the position is 0), with one exception: a scan whose copy was
loaded while the job was in the queue writes that copy, position included, when it ends.
Such a job is `relapsed`, and `QueueIsAnOrder` says nothing of its place. Otherwise only a
queue command puts a job into the queue, and it compares its snapshot first. When the comparison succeeds, the
snapshot *is* the table, and the lemmas about `Rank` (it is strictly monotone in the
positions, and bounded by the number of jobs) give the new order.

*The removal from the queue* reads the latest event, the cohort, the checkpoints and the
origin in four steps, and scans, transfers and other commands may write any of them between two of these. `Traced`, of
the jobs that are not `relapsed`, says that the traces are there: a
queued job came from a status that may be queued, and a halted one has a cohort and is not
before its review. `RemovalOK` says for each place between two reads what the reads so far
must have shown, and carries the inference to the commit: if the job has not left
the queue since (`since` is the number of its stay), what was inferred is the status it came
from. Finding the invariant changed the model twice: a session may begin with any job an
earlier one can have left, and no other (`KnownJob`), and the alternatives of
`Restored` overlap, so that the order in which the code asks matters: it is an IF chain.

*`SignIn`.* The registration, the lock and the running attempts determine each other
(`ReservationOK`, `RunOK`, `DialogOK`), which gives `CancelMeansOver`; the listener is
non-empty only under an attempt that listens; and the client's parts are pairwise
consistent unless the configuration is between them (`ConfigOK`, `PairOK`), which holds
as long as no failure has torn them.

*`Accounts`.* `Fits` says which command is where and what it carries, which is enough for
the types. Two of them count, hence the finite `Tasks` and `Ids`: a sign-in that may make an
account has an unused id, and a new mutex is one that neither a command nor an entry has,
of which there are fewer than mutexes. `OneInside` and `OwnMutex` tie each command inside a mutex to the entry of
its account in the lock table; with no removal in the session the entry never changes, and
two commands inside are one. `EmptyInside` is the half that `RejectedTokenGone` needs: who is
inside has emptied the cache, and a row that says REAUTH_REQUIRED was written from inside.
`CredentialKept` is about the step that strands an account, and has two halves. `BInv`, for
every session, says what a command between the two stores knows of the row. Where accounts are
only used, `UInv` has a witness: after at most one failure, an account that is shown without
a credential is one that a command is at work on, so nothing strands it and no exception is
needed. Where accounts are taken away, no such invariant holds, and `Strands` is shown
step by step: only a disconnection, removal or deletion whose write of the row fails
(`LeaveRowFails`) and the rollback of a connection (`DisconnectedRollsBack`) take the last
witness away. `SessionsApart` keeps only commands that refresh or reauthenticate an account
apart from those that take it away, as a refresh in flight undoes a disconnection (below); it
says nothing of faults.

*`Scanner` and `TreeWalk`.* `Behind` is the invariant of a resumable scan: no checkpoint, no
page asked for and no folder without checkpoint is ahead of the items that are stored.
`InTime` makes it inductive: in the lists that a page is cut into, a folder's checkpoint comes
no later than its item, so that the k-th batch never stores a folder whose checkpoint is
still to come. `Remembered` says that a task works off every checkpoint there is, which makes
an empty frontier an end. With `Rooted` (the roots are stored together, before anything else;
this is `RootsFit`, and the hazard of `scanner.rs:201` is what happens without it), every
transaction is a step of the walk or none, and `Sound` gives the inclusion in what can be
reached, in any Drive, cycles included. The reachable files are the least closed set, so a
finished walk has exactly them; both together are `ReviewIsComplete`. `DeeperInside` assumes
that every file has one place (`DriveIsATree`): with two, its depth would be that of the
page that came first. `Fresh` (a list without repetitions and without what is known) is
written by counting, because what a recursive definition computes cannot be proved here.

*`Browser`.* Everything is said of the newest call, as no other one has a say: its page
token, if it has one, is the one at hand, which continues the rows at hand (`RowsOK`, from
which `OneListing` follows: a further page fits because the call that superseded it would
have made it old); a spinner is its (`Spinner`); what it was answered is not older than what
is done (`Recent`); and what was asked for is on the screen or it asks for it (`Viewed`).
Each action is one of six kinds (a view is opened, a further page asked for, a request
answered, an old call dropped, the newest one shown or failed) or has nothing to do with a
call. `Announced` is about the registry: whatever its newest load has read is not older than
the status. The proof attempt corrected the property: a listing that was abandoned may mark
an account that was reconnected and revoked meanwhile, and nobody has the registry read
again (`unseen`).

Each of these invariants was an invariant of a TLC run first.

Only model-checked: liveness under fairness (`RunEnds`, `LeaseReturns`,
`ScanEnds`, `EveryCommandAnswers`, `DialogEnds`), which is out of the prover's reach; and the
claims of the violated runs. No theorem is about a definition that recurses over a
sequence: the provers have no induction over data.

## What the code does otherwise than the documents say

Two runs state a sentence of the documentation or of the UI as a property, and TLC
finds the run of the code that contradicts it; `PROJECT.json` quotes sentence and
line under "findings".

- `Bad_mutators`: a cancellation decides on what it read several awaits before, and gives
  away the lease of the transfer that the job's scan has started meanwhile; the worker of
  another job then runs beside it.
- `Bad_cancel`: a flag is cleared after it was set. Without any fault, the run takes a file
  in hand after the cancellation was answered, and no request is left to stop it.

What follows was met while modelling, is reachable in the models as they stand, and
has no run of its own.

- The automatic run skips CANARY_REVIEW when the canary covers the whole job, also
  if a canary item failed (`transfer.rs:130`; `docs/architecture.md:230` says failed
  canary items stop the progression).
- A retryable failure may hide a completed transfer; a cancellation then reports a
  transferred file as CANCELLED (`item.rs:128`; `docs/DESIGN.md:135`).
- A refused cancellation of a finished job has already turned its failed rows into
  CANCELLED ones (`job_service.rs:1795`), and a retry request reopens the rows of a
  finished job, which then has no run to process them (`job_service.rs:1807`).
- A connection that cannot store its credential writes the previous account back
  through an upsert that says CONNECTED, also if it was DISCONNECTED
  (`connect_account.rs:610`, `account_store.rs:248`; `docs/architecture.md:111` promises that the
  record is reverted). `ConnectedHasCredential` excepts it by name (`DisconnectedRollsBack`).
- A disconnection, removal or deletion deletes the credential before it writes the row;
  when that write fails the account stays CONNECTED without one (`account_lifecycle.rs:216`).
  `ConnectedHasCredential` excepts it by name (`LeaveRowFails`).
- A refresh in flight writes CONNECTED over the DISCONNECTED of a disconnection that
  was answered meanwhile (`account_token_provider.rs:229`), which is why
  `Accounts_commands` keeps the two in different sessions.
- A scan that ends writes the copy it loaded before the quota was looked up
  (`job_service.rs:1358`): it overwrites a cancellation answered meanwhile, and can put a job
  back into the queue, at a position another job has since.
- A root inside another root is at depth 0, although its parents are deeper
  (`docs/architecture.md:223` has the deepest first). `ContentsAreDeeper` excepts roots.
- More than 100 roots are stored in several transactions; after a crash between two
  of them a resumed scan finds checkpoints and does not collect the rest
  (`scanner.rs:201`). With `Batch = 1` and two disjoint roots `ImplementsWalk` fails on
  exactly this.
- A scan that read its draft before the accounts were changed writes the old source
  over the new one and scans without roots; a command that read a draft and cancels
  it, twice and overlapping, changes the pair of a cancelled job
  (`job_store.rs:221`; `docs/architecture.md:76` calls the pair immutable from the
  scan on). After two account changes and a cancellation a job has roots that its source
  does not own.
- A removal from the queue of a job that left and re-entered it between two of the reads
  infers its status from traces of two stays (`queue_service.rs:73`); `RemovalRestores` is
  about one stay.
- A rename or trash dialog dismissed while its request runs later reloads the folder it
  was opened in, below the path of another (`DriveFileBrowser.tsx:305`; `strayed`). A
  failed removal of the second of two files does not reload the first; a further page
  that arrives after an error leaves the error shown.
- A listing whose token Google rejects marks the account without announcing it
  (`drive_browser.rs:133`); its caller asks for the status, but not when a newer call has
  superseded it. The account is then shown as connected until the next listing (`unseen`).
- `start_canary` and `continue_migration` accept RUNNING_CANARY and RUNNING, so a start
  that waited for the lease of a worker that has ended runs the job again
  (`job_service.rs:1595`).

## Plan

Done: the modules above, with the properties the table of runs names.

Left, in this order:

1. `OneMutator` for a single job with any commands, where the gap is only between jobs.
2. Models: rotation of the logs by size and number of files.

## Not modelled

The HTTP client, requests to Google and keychain calls (I/O); parsing a folder id out
of a link, link formats, PKCE (pure functions with unit tests); reports and CSV export
(formatting of rows); the preflight and the tree (queries without state of their own);
the Tauri adapters and their wiring, which decide nothing, except for the commands that
do and are modelled with their component; the progress panel and the job list, which
render what the backend says; the migration wizard, which `App` does not mount; labels,
avatars and the migration of the schema; the log files (planned). Whether Google keeps
its promises is an assumption, stated by the external definitions of `ItemTransfer`,
`Accounts`, `SignIn` and `Browser`.

## Running

    tlc -workers 2 -config Transfer_crash.cfg MCItemTransfer
    tlc -workers 2 -config Jobs_rows.cfg MCJobRows
    tlapm JobControlProofs.tla

A run `X_y` uses `X_y.cfg` and the MC module that `PROJECT.json` names for it.
