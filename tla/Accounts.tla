------------------------------- MODULE Accounts -------------------------------
(***************************************************************************)
(* The connected account of one Google identity and the commands that work *)
(* on it at the same time: AccountTokenProvider, ConnectAccountService and *)
(* AccountLifecycleService, over the account table, the credential store   *)
(* and the token cache. None of the three stores knows of the others, and  *)
(* every access is a step of its own.                                      *)
(*                                                                         *)
(* Google numbers its grants. A refresh token and the access tokens        *)
(* obtained with it are the number of their grant, 0 is none, and the      *)
(* grants up to "revoked" are the ones Google rejects by now.              *)
(***************************************************************************)
EXTENDS Integers, FiniteSets

CONSTANTS
  Tasks,      \* the commands in flight
  Ids,        \* internal account ids; a new account takes an unused one
  Sessions,   \* which commands are used together, and how many faults occur
  MaxGrants   \* bound: consents the person gives

Commands == {"job", "browse", "connect", "reauthenticate",
             "disconnect", "remove", "delete"}

Free == "free"   \* connect_account_lock is not held

ASSUME AccountsAssumption ==
  /\ IsFiniteSet(Tasks) /\ Free \notin Tasks
  /\ IsFiniteSet(Ids) /\ Ids \subseteq Nat \ {0}
  /\ \A s \in Sessions : s.commands \subseteq Commands /\ s.faults \in Nat
  /\ MaxGrants \in Nat

VARIABLES
  session,   \* the element of Sessions this behaviour belongs to
  row,       \* the row of the account table
  known,     \* ids that were given out
  keychain,  \* id -> the stored refresh token
  cache,     \* id -> the cached access token that has not expired
  entry,     \* id -> its mutex in the lock table, 0 if there is none
  signIn,    \* the task that holds connect_account_lock, or Free
  jobs,      \* what has_active_jobs_for_account and has_jobs_for_account see
  issued, revoked,
  faults,    \* storage failures so far
  task       \* task -> where it is, and what it read on the way

stores == <<row, known, keychain>>
google == <<issued, revoked>>
vars == <<session, row, known, keychain, cache, entry, signIn, jobs,
          issued, revoked, faults, task>>

NoRow == [id |-> 0, status |-> "none", removed |-> FALSE]
Statuses == {"CONNECTED", "TOKEN_REFRESHING", "REAUTH_REQUIRED", "DISCONNECTED"}
Idle == [at |-> "idle", command |-> "none", id |-> 0, mutex |-> 0,
         token |-> 0, before |-> NoRow]

\* find_by_id and find_by_permission_id do not see removed rows.
Visible == IF row.removed THEN NoRow ELSE row
Has(id) == id # 0 /\ Visible.id = id
Usable(id) == Has(id) /\ row.status \in {"CONNECTED", "TOKEN_REFRESHING"}

\* The account's mutex is held from the moment it is acquired to the last
\* step of the refresh or of the mark.
UnderMutex == {"find", "refreshing", "load", "google", "publish", "mark write"}
Locked(m) == \E t \in Tasks : task[t].mutex = m /\ task[t].at \in UnderMutex

Go(t, place)   == task' = [task EXCEPT ![t].at = place]
Answer(t)      == task' = [task EXCEPT ![t] = Idle]
Fault          == faults < session.faults /\ faults' = faults + 1
SetStatus(id, s) == row' = IF row.id = id THEN [row EXCEPT !.status = s] ELSE row

SetCredential(id, token) == keychain' = [keychain EXCEPT ![id] = token]
SoftRemove(id) ==
  row' = IF row.id = id THEN [row EXCEPT !.status = "DISCONNECTED", !.removed = TRUE] ELSE row

\* A write whose error is ignored.
TrySetStatus(id, s) ==
  \/ SetStatus(id, s) /\ UNCHANGED faults
  \/ Fault /\ UNCHANGED row

Init ==
  /\ session \in Sessions
  /\ row = NoRow /\ known = {} /\ signIn = Free /\ jobs = "none"
  /\ keychain = [i \in Ids |-> 0] /\ cache = [i \in Ids |-> 0]
  /\ entry = [i \in Ids |-> 0]
  /\ issued = 0 /\ revoked = 0 /\ faults = 0
  /\ task = [t \in Tasks |-> Idle]

(***************************************************************************)
(* get_access_token. The browser of files looks at the row before it asks, *)
(* a job does not.                                                         *)
(***************************************************************************)
AskToken(t) ==
  /\ task[t] = Idle
  /\ \E c \in session.commands \cap {"job", "browse"}, i \in known :
       /\ c = "browse" => Usable(i)
       /\ task' = [task EXCEPT ![t] = [Idle EXCEPT !.at = "get", !.command = c, !.id = i]]
  /\ UNCHANGED <<session, stores, cache, entry, signIn, jobs, google, faults>>

\* get_account_lock: a mutex nobody refers to any more is as good as a new one.
MutexOf(t, id) ==
  LET unused == (1..(Cardinality(Tasks) + Cardinality(Ids))) \
                  ({entry[i] : i \in Ids} \cup {task[u].mutex : u \in Tasks})
      m == IF entry[id] # 0 THEN entry[id]
           ELSE CHOOSE n \in unused : \A k \in unused : n <= k
  IN entry' = [entry EXCEPT ![id] = m] /\
     task' = [task EXCEPT ![t].mutex = m, ![t].at =
                IF task[t].at = "get" THEN "queue" ELSE "mark queue"]

FastPath(t) ==
  /\ task[t].at = "get"
  /\ IF cache[task[t].id] # 0
       THEN task' = [task EXCEPT ![t].token = cache[task[t].id], ![t].at = "use"]
            /\ UNCHANGED entry
       ELSE MutexOf(t, task[t].id)
  /\ UNCHANGED <<session, stores, cache, signIn, jobs, google, faults>>

\* Acquires the mutex and looks into the cache again.
EnterUnlocked(t) ==   \* mutant: the refresh does not wait for the mutex
  /\ task[t].at = "queue"
  /\ IF cache[task[t].id] # 0
       THEN task' = [task EXCEPT ![t].token = cache[task[t].id], ![t].at = "use",
                                 ![t].mutex = 0]
       ELSE Go(t, "find")
  /\ UNCHANGED <<session, stores, cache, entry, signIn, jobs, google, faults>>
Enter(t) ==
  /\ task[t].at = "queue" /\ ~Locked(task[t].mutex)
  /\ IF cache[task[t].id] # 0
       THEN task' = [task EXCEPT ![t].token = cache[task[t].id], ![t].at = "use",
                                 ![t].mutex = 0]
       ELSE Go(t, "find")
  /\ UNCHANGED <<session, stores, cache, entry, signIn, jobs, google, faults>>

(***************************************************************************)
(* refresh_access_token_locked                                             *)
(***************************************************************************)
FindForRefresh(t) ==
  /\ task[t].at = "find"
  /\ \/ /\ Usable(task[t].id) /\ UNCHANGED faults
        /\ task' = [task EXCEPT ![t].at = "refreshing", ![t].before = row]
     \/ ~Usable(task[t].id) /\ Answer(t) /\ UNCHANGED faults
     \/ Fault /\ Answer(t)
  /\ UNCHANGED <<session, stores, cache, entry, signIn, jobs, google>>

MarkRefreshing(t) ==
  /\ task[t].at = "refreshing"
  /\ TrySetStatus(task[t].id, "TOKEN_REFRESHING")
  /\ Go(t, "load")
  /\ UNCHANGED <<session, known, keychain, cache, entry, signIn, jobs, google>>

\* Without a credential, or a credential store, the row stays TOKEN_REFRESHING.
LoadRefreshTokenAgain(t) ==   \* mutant: retried until the credential is there
  /\ task[t].at = "load"
  /\ \/ /\ keychain[task[t].id] # 0 /\ UNCHANGED faults
        /\ task' = [task EXCEPT ![t].token = keychain[task[t].id], ![t].at = "google"]
     \/ keychain[task[t].id] = 0 /\ Go(t, "find") /\ UNCHANGED faults
     \/ Fault /\ Go(t, "find")
  /\ UNCHANGED <<session, stores, cache, entry, signIn, jobs, google>>
LoadRefreshToken(t) ==
  /\ task[t].at = "load"
  /\ \/ /\ keychain[task[t].id] # 0 /\ UNCHANGED faults
        /\ task' = [task EXCEPT ![t].token = keychain[task[t].id], ![t].at = "google"]
     \/ keychain[task[t].id] = 0 /\ Answer(t) /\ UNCHANGED faults
     \/ Fault /\ Answer(t)
  /\ UNCHANGED <<session, stores, cache, entry, signIn, jobs, google>>

\* A token arrived; it goes into the cache only if the account is found and
\* not disconnected.
Refreshed(t) ==
  /\ task[t].at = "google" /\ task[t].token > revoked
  /\ \/ Has(task[t].id) /\ row.status # "DISCONNECTED" /\ Go(t, "publish") /\ UNCHANGED faults
     \/ /\ IF Has(task[t].id) /\ row.status # "DISCONNECTED" THEN Fault ELSE UNCHANGED faults
        /\ task' = [task EXCEPT ![t].at = "use", ![t].mutex = 0]
  /\ UNCHANGED <<session, stores, cache, entry, signIn, jobs, google>>

RefreshRejected(t) ==
  /\ task[t].at = "google" /\ task[t].token <= revoked
  /\ TrySetStatus(task[t].id, "REAUTH_REQUIRED")
  /\ Answer(t)
  /\ UNCHANGED <<session, known, keychain, cache, entry, signIn, jobs, google>>

RefreshFails(t) ==
  /\ task[t].at = "google"
  /\ TrySetStatus(task[t].id, task[t].before.status)
  /\ Answer(t)
  /\ UNCHANGED <<session, known, keychain, cache, entry, signIn, jobs, google>>

\* The cache is locked until mark_last_authenticated is through, so the two
\* are one step for everybody who reads the cache.
Publish(t) ==
  /\ task[t].at = "publish"
  /\ cache' = [cache EXCEPT ![task[t].id] = task[t].token]
  /\ TrySetStatus(task[t].id, "CONNECTED")
  /\ task' = [task EXCEPT ![t].at = "use", ![t].mutex = 0]
  /\ UNCHANGED <<session, known, keychain, entry, signIn, jobs, google>>

\* Drive's answer to a request with the token. Only some of the callers report
\* a rejected token.
UseToken(t) ==
  /\ task[t].at = "use"
  /\ \/ task[t].token <= revoked /\ Go(t, "mark")
     \/ Answer(t)
  /\ UNCHANGED <<session, stores, cache, entry, signIn, jobs, google, faults>>

(***************************************************************************)
(* mark_reauth_required                                                    *)
(***************************************************************************)
MarkInvalidate(t) ==
  /\ task[t].at = "mark"
  /\ cache' = [cache EXCEPT ![task[t].id] = 0]
  /\ MutexOf(t, task[t].id)
  /\ UNCHANGED <<session, stores, signIn, jobs, google, faults>>

MarkEnterOnce(t) ==   \* mutant: the cache is not emptied a second time
  /\ task[t].at = "mark queue" /\ ~Locked(task[t].mutex)
  /\ Go(t, "mark write")
  /\ UNCHANGED <<session, stores, cache, entry, signIn, jobs, google, faults>>
MarkEnter(t) ==
  /\ task[t].at = "mark queue" /\ ~Locked(task[t].mutex)
  /\ cache' = [cache EXCEPT ![task[t].id] = 0]
  /\ Go(t, "mark write")
  /\ UNCHANGED <<session, stores, entry, signIn, jobs, google, faults>>

MarkWrite(t) ==
  /\ task[t].at = "mark write"
  /\ TrySetStatus(task[t].id, "REAUTH_REQUIRED")
  /\ Answer(t)
  /\ UNCHANGED <<session, known, keychain, cache, entry, signIn, jobs, google>>

(***************************************************************************)
(* Signing in: connect_account and reauthenticate_account hold             *)
(* connect_account_lock from before the browser opens to their answer.     *)
(***************************************************************************)
SignIn(t) ==
  /\ task[t] = Idle /\ signIn = Free
  /\ \E c \in session.commands \cap {"connect", "reauthenticate"} :
       /\ c = "connect" => known # Ids
       /\ \E i \in (IF c = "connect" THEN {0} ELSE known) :
            task' = [task EXCEPT ![t] =
                       [Idle EXCEPT !.at = "consent", !.command = c, !.id = i]]
  /\ signIn' = t
  /\ UNCHANGED <<session, stores, cache, entry, jobs, google, faults>>

EndSignInKept(t) == Answer(t) /\ UNCHANGED signIn   \* mutant: the lock is not given back
EndSignIn(t) == Answer(t) /\ signIn' = Free

Consent(t) ==
  /\ task[t].at = "consent" /\ issued < MaxGrants
  /\ issued' = issued + 1
  /\ task' = [task EXCEPT ![t].token = issued + 1, ![t].at =
                IF task[t].command = "connect" THEN "prior" ELSE "match"]
  /\ UNCHANGED <<session, stores, cache, entry, signIn, jobs, revoked, faults>>

\* Refused or cancelled in the browser, or the exchange of the code, the
\* identity or its comparison fails.
SignInFails(t) ==
  /\ task[t].at \in {"consent", "prior", "match", "save"}
  /\ EndSignIn(t)
  /\ UNCHANGED <<session, stores, cache, entry, jobs, google, faults>>

FindPrior(t) ==
  /\ task[t].at = "prior"
  /\ task' = [task EXCEPT ![t].before = Visible, ![t].at = "upsert"]
  /\ UNCHANGED <<session, stores, cache, entry, signIn, jobs, google, faults>>

\* ON CONFLICT (google_permission_id): the row keeps its id and becomes
\* CONNECTED whatever the status of the account that is written.
Upserted(account) ==
  IF row = NoRow THEN account ELSE [row EXCEPT !.status = "CONNECTED", !.removed = FALSE]

\* The id of a new account is the time it is made.
NewId == CHOOSE i \in Ids \ known : \A j \in Ids \ known : i <= j

Connect(t) ==
  /\ task[t].at = "upsert"
  /\ \/ LET id == IF task[t].before = NoRow THEN NewId ELSE task[t].before.id
            written == Upserted([id |-> id, status |-> "CONNECTED", removed |-> FALSE])
        IN /\ row' = written
           /\ known' = known \cup {written.id}
           /\ task' = [task EXCEPT ![t].id = written.id, ![t].at = "persist"]
           /\ UNCHANGED <<signIn, faults>>
     \/ Fault /\ EndSignIn(t) /\ UNCHANGED <<row, known>>
  /\ UNCHANGED <<session, keychain, cache, entry, jobs, google>>

\* persist_credential: if Google leaves the refresh token out, one has to be
\* stored already. It is asked for one each time, so that is a fault too.
PersistCredential(t) ==
  /\ task[t].at = "persist"
  /\ \/ /\ SetCredential(task[t].id, task[t].token)
        /\ EndSignIn(t) /\ UNCHANGED faults
     \/ Fault /\ keychain[task[t].id] # 0 /\ EndSignIn(t) /\ UNCHANGED keychain
     \/ Fault /\ Go(t, "rollback") /\ UNCHANGED <<keychain, signIn>>
  /\ UNCHANGED <<session, row, known, cache, entry, jobs, google>>

RollbackForgotten(t) ==   \* mutant: the account stays as the upsert left it
  /\ task[t].at = "rollback"
  /\ EndSignIn(t)
  /\ UNCHANGED <<session, stores, cache, entry, jobs, google, faults>>
Rollback(t) ==
  /\ task[t].at = "rollback"
  /\ \/ task[t].before # NoRow /\ row' = Upserted(task[t].before) /\ UNCHANGED faults
     \/ /\ task[t].before = NoRow
        /\ \/ keychain[task[t].id] # 0 /\ UNCHANGED <<row, faults>>
           \/ keychain[task[t].id] = 0 /\ SoftRemove(task[t].id) /\ UNCHANGED faults
           \/ Fault /\ SoftRemove(task[t].id)   \* the credential store cannot tell
     \/ Fault /\ UNCHANGED row
  /\ EndSignIn(t)
  /\ UNCHANGED <<session, known, keychain, cache, entry, jobs, google>>

\* reauthenticate_account: the account is looked up, the identity compared,
\* the credential stored, and only then the row is written.
FindForReauth(t) ==
  /\ task[t].at = "match"
  /\ IF Has(task[t].id) THEN Go(t, "save") /\ UNCHANGED signIn ELSE EndSignIn(t)
  /\ UNCHANGED <<session, stores, cache, entry, jobs, google, faults>>

SaveCredential(t) ==
  /\ task[t].at = "save"
  /\ \/ /\ SetCredential(task[t].id, task[t].token)
        /\ Go(t, "reconnect") /\ UNCHANGED <<signIn, faults>>
     \/ Fault /\ keychain[task[t].id] # 0 /\ Go(t, "reconnect") /\ UNCHANGED <<keychain, signIn>>
     \/ Fault /\ EndSignIn(t) /\ UNCHANGED keychain
  /\ UNCHANGED <<session, row, known, cache, entry, jobs, google>>

Reconnect(t) ==
  /\ task[t].at = "reconnect"
  /\ \/ /\ row' = Upserted([id |-> task[t].id, status |-> "CONNECTED", removed |-> FALSE])
        /\ Go(t, "renewed") /\ UNCHANGED <<signIn, faults>>
     \/ Fault /\ EndSignIn(t) /\ UNCHANGED row
  /\ UNCHANGED <<session, known, keychain, cache, entry, jobs, google>>

InvalidateRenewed(t) ==
  /\ task[t].at = "renewed"
  /\ cache' = [cache EXCEPT ![task[t].id] = 0]
  /\ EndSignIn(t)
  /\ UNCHANGED <<session, stores, entry, jobs, google, faults>>

(***************************************************************************)
(* disconnect_account, remove_account and delete_local_account_data. The   *)
(* commands empty the cache first; the last two drop the mutex with it,    *)
(* before they know whether the account may go.                            *)
(***************************************************************************)
Leave(t) ==
  /\ task[t] = Idle
  /\ \E c \in session.commands \cap {"disconnect", "remove", "delete"}, i \in known :
       /\ task' = [task EXCEPT ![t] = [Idle EXCEPT !.at = "check", !.command = c, !.id = i]]
       /\ cache' = [cache EXCEPT ![i] = 0]
       /\ entry' = IF c = "disconnect" THEN entry ELSE [entry EXCEPT ![i] = 0]
  /\ UNCHANGED <<session, stores, signIn, jobs, google, faults>>

MayLeave(t) ==
  CASE task[t].command = "disconnect" -> Has(task[t].id)
    [] task[t].command = "remove"     -> Has(task[t].id) /\ jobs # "active"
    [] task[t].command = "delete"     -> jobs = "none"

CheckJobs(t) ==
  /\ task[t].at = "check"
  /\ \/ MayLeave(t) /\ Go(t, "forget") /\ UNCHANGED faults
     \/ ~MayLeave(t) /\ Answer(t) /\ UNCHANGED faults
     \/ Fault /\ Answer(t)
  /\ UNCHANGED <<session, stores, cache, entry, signIn, jobs, google>>

DeleteCredential(t) ==
  /\ task[t].at = "forget"
  /\ \/ /\ SetCredential(task[t].id, 0)
        /\ Go(t, "leave") /\ UNCHANGED faults
     \/ Fault /\ Answer(t) /\ UNCHANGED keychain
  /\ UNCHANGED <<session, row, known, cache, entry, signIn, jobs, google>>

LeaveRow(t) ==
  /\ task[t].at = "leave"
  /\ \/ /\ CASE task[t].command = "disconnect" -> SetStatus(task[t].id, "DISCONNECTED")
             [] task[t].command = "remove"     -> SoftRemove(task[t].id)
             [] task[t].command = "delete"     -> row' = IF row.id = task[t].id THEN NoRow ELSE row
        /\ UNCHANGED faults
     \/ Fault /\ UNCHANGED row
  /\ Answer(t)
  /\ UNCHANGED <<session, known, keychain, cache, entry, signIn, jobs, google>>

(***************************************************************************)
(* Around the program: tokens expire, the person withdraws the consent at  *)
(* Google, jobs are created and end.                                       *)
(***************************************************************************)
Expire ==
  /\ \E i \in Ids : cache[i] # 0 /\ cache' = [cache EXCEPT ![i] = 0]
  /\ UNCHANGED <<session, stores, entry, signIn, jobs, google, faults, task>>

Revoke ==
  /\ revoked < issued /\ revoked' = issued
  /\ UNCHANGED <<session, stores, cache, entry, signIn, jobs, issued, faults, task>>

JobsChange ==
  /\ session.commands \cap {"remove", "delete"} # {}
  /\ \/ jobs # "active" /\ Visible # NoRow /\ row.status # "DISCONNECTED" /\ jobs' = "active"
     \/ jobs = "active" /\ jobs' = "ended"
  /\ UNCHANGED <<session, stores, cache, entry, signIn, google, faults, task>>

Step(t) ==
  \/ FastPath(t) \/ Enter(t) \/ FindForRefresh(t) \/ MarkRefreshing(t)
  \/ LoadRefreshToken(t) \/ Refreshed(t) \/ RefreshRejected(t) \/ RefreshFails(t)
  \/ Publish(t) \/ UseToken(t) \/ MarkInvalidate(t) \/ MarkEnter(t) \/ MarkWrite(t)
  \/ SignInFails(t) \/ FindPrior(t) \/ Connect(t) \/ PersistCredential(t) \/ Rollback(t)
  \/ FindForReauth(t) \/ SaveCredential(t) \/ Reconnect(t) \/ InvalidateRenewed(t)
  \/ CheckJobs(t) \/ DeleteCredential(t) \/ LeaveRow(t)

Next ==
  \/ \E t \in Tasks : AskToken(t) \/ SignIn(t) \/ Leave(t) \/ Consent(t) \/ Step(t)
  \/ Expire \/ Revoke \/ JobsChange

Spec == Init /\ [][Next]_vars

(***************************************************************************)
(* Every step of a command ends: the database and the credential store     *)
(* answer or fail, the requests to Google and the wait for the person have *)
(* timeouts, and tokio gives a mutex in the order it was asked for.        *)
(***************************************************************************)
Fairness ==
  \A t \in Tasks : WF_vars(Step(t)) /\ SF_vars(Enter(t)) /\ SF_vars(MarkEnter(t))
FairSpec == Spec /\ Fairness

(***************************************************************************)
(* Properties                                                              *)
(***************************************************************************)
Places == UnderMutex \cup
  {"idle", "get", "queue", "use", "mark", "mark queue", "consent", "prior", "upsert",
   "persist", "rollback", "match", "save", "reconnect", "renewed", "check", "forget", "leave"}
Grants == 0..MaxGrants
Rows == [id: Ids, status: Statuses, removed: BOOLEAN] \cup {NoRow}
Mutexes == 0..(Cardinality(Tasks) + Cardinality(Ids))

\* The shape of the state; connect_account_lock is held by a sign-in only.
TypeOK ==
  /\ session \in Sessions /\ row \in Rows /\ known \subseteq Ids
  /\ keychain \in [Ids -> Grants] /\ cache \in [Ids -> Grants]
  /\ entry \in [Ids -> Mutexes]
  /\ jobs \in {"none", "active", "ended"}
  /\ issued \in Grants /\ revoked \in 0..issued /\ faults \in 0..session.faults
  /\ task \in [Tasks -> [at: Places, command: Commands \cup {"none"}, id: Ids \cup {0},
                         mutex: Mutexes, token: Grants, before: Rows]]
  /\ signIn \in Tasks \cup {Free}
  /\ \A t \in Tasks : (signIn = t) = (task[t].command \in {"connect", "reauthenticate"})

MutexStays == session.commands \cap {"remove", "delete"} = {}

\* Of two commands that need a token of the same account only one refreshes
\* it, and the other takes what it finds (the account refresh mutex of
\* get_access_token). A removal, even a refused one, takes the mutex away.
SingleFlight ==
  MutexStays =>
    \A t, u \in Tasks :
      /\ task[t].at \in UnderMutex /\ task[u].at \in UnderMutex
      /\ task[t].id = task[u].id
      => t = u

\* Once the account is known to need a new sign-in, no token of it is left in
\* the cache, not even one that a refresh obtained at the same moment
\* (mark_reauth_required empties the cache again under the mutex).
RejectedTokenGone ==
  MutexStays /\ row.status = "REAUTH_REQUIRED" /\ ~Locked(entry[row.id]) => cache[row.id] = 0

\* Shown as connected, without a refresh token, and no command that works on
\* the account is between the two stores.
Between(id) == \E t \in Tasks : task[t].id = id /\ task[t].at \in {"persist", "rollback", "leave"}
Stranded ==
  /\ Visible # NoRow /\ row.status \in {"CONNECTED", "TOKEN_REFRESHING"}
  /\ keychain[row.id] = 0 /\ ~Between(row.id)

\* The two ways the code strands an account: a disconnection, a removal or a
\* deletion cannot write the row after it deleted the credential, ...
LeaveRowFails == \E t \in Tasks : task[t].at = "leave" /\ task[t].id = row.id /\ faults' > faults
\* ... and a connection that cannot store the credential puts the account it
\* found back as a CONNECTED one, although it was disconnected or taken away,
\* before or meanwhile, and its credential deleted (docs/architecture.md:111
\* says that the record is reverted).
Leaving == session.commands \cap {"disconnect", "remove", "delete"} # {}
DisconnectedRollsBack ==
  Leaving /\ \E t \in Tasks : task[t].at = "rollback" /\ task[t].before # NoRow /\ task'[t] = Idle

\* No store failure, the first one of a run, leaves an account that is shown as
\* connected without a refresh token, however the commands interleave between
\* the row and the credential store (the rollback of connect_account, the
\* order of the writes in reauthenticate_account and in the disconnection),
\* except for the two above. Where accounts are only used there is no exception.
\* Jobs and reauthentications are not in one session with disconnections: a
\* refresh in flight, or a reauthentication, writes CONNECTED over them.
ConnectedHasCredential ==
  [][Stranded' /\ faults' <= 1 => Stranded \/ LeaveRowFails \/ DisconnectedRollsBack]_vars

\* No command waits for ever: the mutex of the account and the lock of the
\* sign-in are given back on every path.
EveryCommandAnswers ==
  \A t \in Tasks : task[t].at \notin {"idle", "consent"} ~> task[t] = Idle
================================================================================
