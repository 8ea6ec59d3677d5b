----------------------------- MODULE AccountsProofs -----------------------------
(***************************************************************************)
(* Theorems about the connected account, for any commands in flight, any   *)
(* ids, any number of consents and of storage failures.                    *)
(***************************************************************************)
EXTENDS Accounts, FiniteSetTheorems, FunctionTheorems, WellFoundedInduction, TLAPS

--------------------------------------------------------------------------------
(* Two facts about numbers: a set of them has a least one, and a function   *)
(* has no more values than arguments. Neither is in the library in a form   *)
(* that can be cited.                                                       *)

(* Every set of naturals that is not empty has a least element.             *)
LEMMA LeastNumber ==
  ASSUME NEW S \in SUBSET Nat, S # {}
  PROVE  \E m \in S : \A k \in S : m <= k
<1>1. PICK n \in S : TRUE
  OBVIOUS
<1> DEFINE B == 0..n
           T == {0..k : k \in {i \in S : i <= n}}
<1>2. IsFiniteSet(B)
  BY <1>1, FS_Interval
<1>3. \A X \in T : X \in SUBSET B
  BY <1>1
<1>4. T \subseteq FiniteSubsetsOf(B)
  BY <1>2, <1>3, FS_Subset DEF FiniteSubsetsOf
<1>5. T # {}
  BY <1>1
<1>6. PICK X \in T : \A Y \in T : <<Y, X>> \notin StrictSubsetOrdering(B)
  <2> HIDE DEF B, T
  <2> QED BY <1>2, <1>4, <1>5, FS_StrictSubsetOrderingWellFounded, WFMin
<1>7. PICK m \in S : m <= n /\ X = 0..m
  BY <1>6
<1>8. ASSUME NEW k \in S, k < m PROVE FALSE
  <2>1. 0..k \in T
    BY <1>1, <1>7, <1>8
  <2>2. 0..k \in SUBSET B /\ 0..m \in SUBSET B
    BY <1>1, <1>7, <1>8
  <2>3. m \in 0..m /\ m \notin 0..k
    BY <1>8
  <2>4. <<0..k, 0..m>> \in StrictSubsetOrdering(B)
    BY <1>8, <2>2, <2>3 DEF StrictSubsetOrdering
  <2> QED
    BY <1>6, <1>7, <2>1, <2>4
<1> QED
  BY <1>7, <1>8

(* A function on a finite set has at most as many values as arguments.      *)
LEMMA ImageBound ==
  ASSUME NEW S, IsFiniteSet(S), NEW f, f \in [S -> {f[x] : x \in S}]
  PROVE  /\ IsFiniteSet({f[x] : x \in S})
         /\ Cardinality({f[x] : x \in S}) <= Cardinality(S)
<1>1. f \in Surjection(S, {f[x] : x \in S})
  BY DEF Surjection
<1> QED
  BY <1>1, FS_Surjection

--------------------------------------------------------------------------------
(* What is known of a command from the place it is at: which command it is, *)
(* that it knows its account, and that a new account finds a free id.       *)

TaskRecord ==
  [at: Places, command: Commands \cup {"none"}, id: Ids \cup {0},
   mutex: Mutexes, token: Grants, before: Rows]

TokenPlaces   == UnderMutex \cup {"get", "queue", "use", "mark", "mark queue"}
ConnectPlaces == {"prior", "upsert", "persist", "rollback"}
ReauthPlaces  == {"match", "save", "reconnect", "renewed"}
LeavePlaces   == {"check", "forget", "leave"}
NewAccount    == {"consent", "prior", "upsert"}
Refreshing    == {"refreshing", "load", "google", "publish"}
SigningIn     == {"connect", "reauthenticate"}

Fits(k, given) ==
  /\ k.at = "idle" => k = Idle
  /\ k.at \in TokenPlaces => k.command \in {"job", "browse"} /\ k.id \in Ids
  /\ k.at = "consent" => k.command \in SigningIn
  /\ k.at \in ConnectPlaces => k.command = "connect"
  /\ k.at \in ReauthPlaces => k.command = "reauthenticate"
  /\ k.at \in LeavePlaces => /\ k.command \in {"disconnect", "remove", "delete"}
                              /\ k.id \in Ids
  /\ k.command = "reauthenticate" \/ k.at \in {"persist", "rollback"}
       => k.id \in Ids
  /\ k.at \in Refreshing => k.before.status \in {"CONNECTED", "TOKEN_REFRESHING"}
  /\ k.command = "connect" /\ k.at \in NewAccount => given # Ids

StoresOK ==
  /\ session \in Sessions /\ row \in Rows /\ known \subseteq Ids
  /\ keychain \in [Ids -> Grants] /\ cache \in [Ids -> Grants]
  /\ entry \in [Ids -> Mutexes]
  /\ jobs \in {"none", "active", "ended"}
  /\ issued \in Grants /\ revoked \in 0..issued /\ faults \in 0..session.faults

TasksOK ==
  /\ task \in [Tasks -> TaskRecord]
  /\ signIn \in Tasks \cup {Free}
  /\ \A t \in Tasks : (signIn = t) = (task[t].command \in SigningIn)
  /\ \A t \in Tasks : Fits(task[t], known)

TInv == StoresOK /\ TasksOK

(* The constants, and the small sets the records are made of.               *)
LEMMA Constants ==
  /\ Cardinality(Tasks) \in Nat /\ Cardinality(Ids) \in Nat
  /\ 0 \in Mutexes /\ 0 \in Grants /\ NoRow \in Rows /\ Idle \in TaskRecord
  /\ \A s \in Sessions : s.commands \subseteq Commands /\ s.faults \in Nat
  /\ \A r \in Rows : r # NoRow => r \in [id: Ids, status: Statuses, removed: BOOLEAN]
  /\ 0 \notin Ids /\ Free \notin Tasks
<1>1. Cardinality(Tasks) \in Nat /\ Cardinality(Ids) \in Nat
  BY AccountsAssumption, FS_CardinalityType
<1>2. 0 \in Mutexes /\ 0 \in Grants /\ NoRow \in Rows
  BY <1>1, AccountsAssumption DEF Mutexes, Grants, Rows
<1>3. Idle \in TaskRecord
  BY <1>2 DEF Idle, TaskRecord, Places
<1> QED
  BY <1>1, <1>2, <1>3, AccountsAssumption DEF Rows

(* Rows that are written are rows.                                          *)
LEMMA RowTypes ==
  ASSUME row \in Rows
  PROVE  /\ Visible \in Rows
         /\ \A a \in Rows \ {NoRow} : Upserted(a) \in Rows \ {NoRow}
         /\ \A i \in Ids, s \in Statuses : SetStatus(i, s) => row' \in Rows
         /\ \A i \in Ids : SoftRemove(i) => row' \in Rows
<1> USE Constants
<1>1. Visible \in Rows
  BY DEF Visible
<1>2. ASSUME NEW a \in Rows \ {NoRow} PROVE Upserted(a) \in Rows \ {NoRow}
  BY DEF Upserted, Rows, NoRow, Statuses
<1>3. \A i \in Ids : row.id = i => row \in [id: Ids, status: Statuses, removed: BOOLEAN]
  BY DEF NoRow
<1>4. ASSUME NEW i \in Ids, NEW s \in Statuses, SetStatus(i, s) PROVE row' \in Rows
  BY <1>3, <1>4 DEF SetStatus, Rows
<1>5. ASSUME NEW i \in Ids, SoftRemove(i) PROVE row' \in Rows
  BY <1>3, <1>5 DEF SoftRemove, Rows, Statuses
<1> QED
  BY <1>1, <1>2, <1>4, <1>5

(* What the writes of a status and of a removal do to the row.              *)
LEMMA StatusWritten ==
  ASSUME row \in Rows, NEW i \in Ids
  PROVE  /\ \A s : SetStatus(i, s) => /\ row'.id = row.id /\ row'.removed = row.removed
                                      /\ row.id = i => row'.status = s
                                      /\ row.id # i => row' = row
         /\ SoftRemove(i) => /\ row'.id = row.id
                             /\ row.id # i => row' = row
                             /\ row.id = i => row'.removed /\ row'.status = "DISCONNECTED"
<1> USE Constants
<1>1. row.id = i => row \in [id: Ids, status: Statuses, removed: BOOLEAN]
  BY DEF NoRow
<1>2. ASSUME NEW s, SetStatus(i, s)
      PROVE  /\ row'.id = row.id /\ row'.removed = row.removed
             /\ row.id = i => row'.status = s
             /\ row.id # i => row' = row
  BY <1>1, <1>2 DEF SetStatus
<1>3. ASSUME SoftRemove(i)
      PROVE  /\ row'.id = row.id
             /\ row.id # i => row' = row
             /\ row.id = i => row'.removed /\ row'.status = "DISCONNECTED"
  BY <1>1, <1>3 DEF SoftRemove
<1> QED
  BY <1>2, <1>3

(* At first nobody does anything.                                           *)
LEMMA TInit == Init => TInv
<1> SUFFICES ASSUME Init PROVE TInv
  OBVIOUS
<1> USE Constants DEF Init
<1>1. StoresOK
  BY DEF StoresOK, Grants
<1>2. Fits(Idle, known) /\ Idle.command \notin SigningIn
  BY DEF Fits, Idle, TokenPlaces, UnderMutex, ConnectPlaces, ReauthPlaces,
         LeavePlaces, NewAccount, Refreshing, SigningIn
<1>3. TasksOK
  BY <1>2 DEF TasksOK
<1> QED
  BY <1>1, <1>3 DEF TInv

(* A step of one command that keeps the sign-in lock: what is left is what  *)
(* is known of that command.                                                *)
LEMMA OneCommand ==
  ASSUME TInv, NEW t \in Tasks, NEW k \in TaskRecord, task' = [task EXCEPT ![t] = k],
         signIn' = signIn, known' = known,
         k.command \in SigningIn <=> task[t].command \in SigningIn,
         Fits(k, known)
  PROVE  TasksOK'
<1>1. task' \in [Tasks -> TaskRecord]
  BY DEF TInv, TasksOK
<1>2. task'[t] = k /\ \A u \in Tasks : u # t => task'[u] = task[u]
  BY DEF TInv, TasksOK
<1>3. \A u \in Tasks : (signIn' = u) = (task'[u].command \in SigningIn)
  BY <1>2 DEF TInv, TasksOK
<1>4. \A u \in Tasks : Fits(task'[u], known')
  BY <1>2 DEF TInv, TasksOK
<1> QED
  BY <1>1, <1>3, <1>4 DEF TInv, TasksOK

(* Commands that answer without the sign-in lock, and sign-ins that end.    *)
LEMMA Answers ==
  ASSUME TInv, NEW t \in Tasks, Answer(t), known' = known,
         \/ task[t].command \notin SigningIn /\ signIn' = signIn
         \/ task[t].command \in SigningIn /\ signIn' = Free
  PROVE  TasksOK'
<1> USE Constants
<1>1. task' \in [Tasks -> TaskRecord]
  BY DEF TInv, TasksOK, Answer
<1>2. task'[t] = Idle /\ \A u \in Tasks : u # t => task'[u] = task[u]
  BY DEF TInv, TasksOK, Answer
<1>3. Fits(Idle, known) /\ Idle.command \notin SigningIn
  BY DEF Fits, Idle, TokenPlaces, UnderMutex, ConnectPlaces, ReauthPlaces,
         LeavePlaces, NewAccount, Refreshing, SigningIn
<1>4. \A u \in Tasks : Fits(task'[u], known')
  BY <1>2, <1>3 DEF TInv, TasksOK
<1>5. \A u \in Tasks : (signIn' = u) = (task'[u].command \in SigningIn)
  BY <1>2, <1>3 DEF TInv, TasksOK
<1>6. signIn' \in Tasks \cup {Free}
  BY DEF TInv, TasksOK
<1> QED
  BY <1>1, <1>4, <1>5, <1>6 DEF TasksOK

(* The mutex m is the one of the account, made if it had none, and t waits  *)
(* for it.                                                                  *)
Assigned(t, id, m) ==
  /\ entry' = [entry EXCEPT ![id] = m]
  /\ task' = [task EXCEPT ![t] = [task[t] EXCEPT !.mutex = m, !.at =
                IF task[t].at = "get" THEN "queue" ELSE "mark queue"]]
  /\ entry[id] # 0 => m = entry[id]
  /\ entry[id] = 0 => \A i \in Ids : entry[i] # m
  /\ entry[id] = 0 => \A u \in Tasks : task[u].mutex # m

(* The mutex of an account is found or made: the numbers in use never use   *)
(* up the range.                                                            *)
LEMMA FindsMutex ==
  ASSUME TInv, NEW t \in Tasks, NEW id \in Ids, MutexOf(t, id)
  PROVE  \E m \in Mutexes \ {0} : Assigned(t, id, m)
<1> DEFINE N == Cardinality(Tasks) + Cardinality(Ids)
           used == {entry[i] : i \in Ids} \cup {task[u].mutex : u \in Tasks}
           unused == (1..N) \ used
           m == IF entry[id] # 0 THEN entry[id]
                ELSE CHOOSE n \in unused : \A k \in unused : n <= k
<1>1. N \in Nat /\ Mutexes = 0..N
  BY Constants DEF Mutexes
<1>2. /\ entry' = [entry EXCEPT ![id] = m]
      /\ task' = [task EXCEPT ![t] = [task[t] EXCEPT !.mutex = m, !.at =
                    IF task[t].at = "get" THEN "queue" ELSE "mark queue"]]
  <2>1. /\ entry' = [entry EXCEPT ![id] = m]
        /\ task' = [task EXCEPT ![t].mutex = m, ![t].at =
                      IF task[t].at = "get" THEN "queue" ELSE "mark queue"]
    BY Zenon DEF MutexOf
  <2> HIDE DEF m
  <2>2. task \in [Tasks -> TaskRecord]
    BY DEF TInv, TasksOK
  <2> QED
    BY <2>1, <2>2 DEF TaskRecord
<1>3. entry \in [Ids -> Mutexes] /\ task \in [Tasks -> TaskRecord]
  BY DEF TInv, StoresOK, TasksOK
<1>4. CASE entry[id] # 0
  BY <1>2, <1>3, <1>4 DEF Assigned
<1>5. CASE entry[id] = 0
  <2>1. IsFiniteSet(used) /\ Cardinality(used) <= N
    <3> DEFINE h == [u \in Tasks |-> task[u].mutex]
    <3>1. entry \in [Ids -> {entry[x] : x \in Ids}]
      BY <1>3
    <3>2. IsFiniteSet({entry[x] : x \in Ids}) /\ Cardinality({entry[x] : x \in Ids}) <= Cardinality(Ids)
      BY <3>1, ImageBound, AccountsAssumption
    <3>3. h \in [Tasks -> {h[x] : x \in Tasks}]
      OBVIOUS
    <3>4. IsFiniteSet({h[x] : x \in Tasks}) /\ Cardinality({h[x] : x \in Tasks}) <= Cardinality(Tasks)
      <4> HIDE DEF h
      <4> QED BY <3>3, ImageBound, AccountsAssumption
    <3>5. {h[x] : x \in Tasks} = {task[u].mutex : u \in Tasks}
      OBVIOUS
    <3>6. IsFiniteSet({task[u].mutex : u \in Tasks})
          /\ Cardinality({task[u].mutex : u \in Tasks}) <= Cardinality(Tasks)
      BY <3>4, <3>5
    <3> DEFINE A == {entry[x] : x \in Ids}
               B == {task[u].mutex : u \in Tasks}
    <3>7. /\ IsFiniteSet(A \cup B) /\ Cardinality(A \cap B) \in Nat
          /\ Cardinality(A) \in Nat /\ Cardinality(B) \in Nat
          /\ Cardinality(A \cup B) = Cardinality(A) + Cardinality(B) - Cardinality(A \cap B)
      <4>1. IsFiniteSet(A) /\ IsFiniteSet(B)
        BY <3>2, <3>6
      <4> HIDE DEF A, B
      <4>2. IsFiniteSet(A \cap B)
        BY <4>1, FS_Subset
      <4> QED BY <4>1, <4>2, FS_Union, FS_CardinalityType
    <3>8. Cardinality(A) <= Cardinality(Ids) /\ Cardinality(B) <= Cardinality(Tasks)
      BY <3>2, <3>6
    <3>9. used = A \cup B
      OBVIOUS
    <3>10. Cardinality(A \cup B) <= N
      <4> HIDE DEF A, B
      <4> QED BY <3>7, <3>8, Constants
    <3> QED
      BY <3>7, <3>9, <3>10
  <2>2. unused # {}
    <3> SUFFICES ASSUME unused = {} PROVE FALSE
      OBVIOUS
    <3>1. 0 \in used
      BY <1>5
    <3>2. 0..N \subseteq used
      BY <1>1, <3>1
    <3> HIDE DEF N, used
    <3>3. Cardinality(0..N) = N + 1
      BY <1>1, FS_Interval
    <3>4. Cardinality(0..N) <= Cardinality(used)
      BY <2>1, <3>2, FS_Subset
    <3>5. Cardinality(used) \in Nat
      BY <2>1, FS_CardinalityType
    <3> QED
      BY <1>1, <2>1, <3>3, <3>4, <3>5
  <2>3. \E n \in unused : \A k \in unused : n <= k
    <3>1. unused \in SUBSET Nat
      BY <1>1
    <3> HIDE DEF unused
    <3> QED BY <2>2, <3>1, LeastNumber
  <2>4. m \in unused
    <3> HIDE DEF unused
    <3> QED BY <1>5, <2>3
  <2>5. m \in Mutexes \ {0} /\ m \notin used
    <3> HIDE DEF m, used, N
    <3> QED BY <1>1, <2>4
  <2>6. (\A i \in Ids : entry[i] # m) /\ (\A u \in Tasks : task[u].mutex # m)
    <3> HIDE DEF m
    <3> QED BY <2>5
  <2> HIDE DEF m
  <2> QED
    BY <1>2, <1>5, <2>5, <2>6 DEF Assigned
<1> QED
  BY <1>4, <1>5

(* The steps of get_access_token and mark_reauth_required.                  *)
LEMMA TokenTypes ==
  ASSUME TInv, NEW t \in Tasks
  PROVE  AskToken(t) \/ FastPath(t) \/ MarkInvalidate(t) => TInv'
<1> USE Constants
<1>0. /\ task[t] \in TaskRecord /\ Fits(task[t], known) /\ row \in Rows /\ session \in Sessions
      /\ session.faults \in Nat /\ faults \in 0..session.faults
  BY DEF TInv, TasksOK, StoresOK
<1> USE DEF Fits, TokenPlaces, UnderMutex, ConnectPlaces, ReauthPlaces, LeavePlaces,
            NewAccount, Refreshing, SigningIn
<1>1. ASSUME AskToken(t) PROVE TInv'
  <2>1. PICK c \in {"job", "browse"}, i \in Ids :
          task' = [task EXCEPT ![t] = [Idle EXCEPT !.at = "get", !.command = c, !.id = i]]
    BY <1>1 DEF AskToken, TInv, StoresOK
  <2> DEFINE r == [Idle EXCEPT !.at = "get", !.command = c, !.id = i]
  <2>2. r \in TaskRecord /\ r.command \notin SigningIn /\ task[t].command \notin SigningIn
    BY <1>1 DEF AskToken, TaskRecord, Idle, Places, Commands
  <2>3. Fits(r, known)
    BY DEF Idle
  <2>4. signIn' = signIn /\ known' = known /\ task' = [task EXCEPT ![t] = r]
    BY <1>1, <2>1 DEF AskToken, stores
  <2>5. TasksOK'
    <3> HIDE DEF r, Fits, SigningIn
    <3> QED BY <2>2, <2>3, <2>4, OneCommand
  <2>6. StoresOK'
    BY <1>1 DEF AskToken, TInv, StoresOK, stores, google
  <2> QED BY <2>5, <2>6 DEF TInv
<1>2. ASSUME NEW m \in Mutexes \ {0}, task[t].at \in {"get", "mark"}, signIn' = signIn, known' = known,
             task' = [task EXCEPT ![t] = [task[t] EXCEPT !.mutex = m, !.at =
                         IF task[t].at = "get" THEN "queue" ELSE "mark queue"]]
      PROVE  TasksOK'
  <2> DEFINE r == [task[t] EXCEPT !.mutex = m, !.at =
                         IF task[t].at = "get" THEN "queue" ELSE "mark queue"]
  <2>2. r \in TaskRecord /\ r.command = task[t].command
    BY <1>0, <1>2 DEF TaskRecord, Places
  <2>3. Fits(r, known)
    BY <1>0, <1>2 DEF TaskRecord
  <2>4. task' = [task EXCEPT ![t] = r]
    BY <1>2
  <2> HIDE DEF r, Fits, SigningIn
  <2> QED BY <1>2, <2>2, <2>3, <2>4, OneCommand
<1>3. ASSUME FastPath(t) PROVE TInv'
  <2>1. CASE cache[task[t].id] # 0
    <3> DEFINE r == [task[t] EXCEPT !.token = cache[task[t].id], !.at = "use"]
    <3>1. task' = [task EXCEPT ![t] = r] /\ signIn' = signIn /\ known' = known
      BY <1>0, <1>3, <2>1 DEF FastPath, stores, TaskRecord
    <3>2. r \in TaskRecord /\ r.command = task[t].command
      BY <1>0, <1>3 DEF FastPath, TaskRecord, Places, TInv, StoresOK
    <3>3. Fits(r, known)
      BY <1>0, <1>3 DEF FastPath, TaskRecord
    <3>4. TasksOK'
      <4> HIDE DEF r, Fits, SigningIn
      <4> QED BY <3>1, <3>2, <3>3, OneCommand
    <3> QED
      BY <1>3, <2>1, <3>4 DEF FastPath, TInv, StoresOK, stores, google
  <2>2. CASE cache[task[t].id] = 0
    <3>1. MutexOf(t, task[t].id) /\ task[t].id \in Ids
      BY <1>0, <1>3, <2>2 DEF FastPath
    <3>2. PICK m \in Mutexes \ {0} : Assigned(t, task[t].id, m)
      BY <3>1, FindsMutex
    <3>3. TasksOK'
      BY <1>2, <1>3, <3>2 DEF FastPath, stores, Assigned
    <3>4. entry' \in [Ids -> Mutexes]
      BY <3>2 DEF TInv, StoresOK, Assigned
    <3> QED
      BY <1>3, <3>3, <3>4 DEF FastPath, TInv, StoresOK, stores, google
  <2> QED BY <2>1, <2>2
<1>4. ASSUME MarkInvalidate(t) PROVE TInv'
  <2>1. MutexOf(t, task[t].id) /\ task[t].id \in Ids
    BY <1>0, <1>4 DEF MarkInvalidate
  <2>2. PICK m \in Mutexes \ {0} : Assigned(t, task[t].id, m)
    BY <2>1, FindsMutex
  <2>3. TasksOK'
    BY <1>2, <1>4, <2>2 DEF MarkInvalidate, stores, Assigned
  <2>4. entry' \in [Ids -> Mutexes] /\ cache' \in [Ids -> Grants]
    BY <1>4, <2>2 DEF TInv, StoresOK, MarkInvalidate, Assigned
  <2> QED
    BY <1>4, <2>3, <2>4 DEF MarkInvalidate, TInv, StoresOK, stores, google
<1> QED
  BY <1>1, <1>3, <1>4

(* A command that only moves on.                                            *)
LEMMA Goes ==
  ASSUME TInv, NEW t \in Tasks, NEW p \in Places, Go(t, p), signIn' = signIn, known' = known,
         Fits([task[t] EXCEPT !.at = p], known)
  PROVE  TasksOK'
<1> DEFINE k == [task[t] EXCEPT !.at = p]
<1>1. k \in TaskRecord /\ k.command = task[t].command /\ task' = [task EXCEPT ![t] = k]
  BY DEF TInv, TasksOK, TaskRecord, Go
<1> HIDE DEF k
<1> QED
  BY <1>1, OneCommand DEF k

(* A write whose error is ignored leaves a row and a count of faults.       *)
LEMMA TryTypes ==
  ASSUME StoresOK, NEW i \in Ids, NEW s \in Statuses, TrySetStatus(i, s),
         UNCHANGED <<session, known, keychain, entry, jobs, google>>, cache' \in [Ids -> Grants]
  PROVE  StoresOK'
<1>1. row' \in Rows
  BY RowTypes DEF StoresOK, TrySetStatus
<1>2. faults' \in 0..session'.faults
  BY Constants DEF StoresOK, TrySetStatus, Fault
<1> QED
  BY <1>1, <1>2 DEF StoresOK, google

(* The steps of a refresh under the mutex, and of the mark.                 *)
LEMMA RefreshTypes ==
  ASSUME TInv, NEW t \in Tasks
  PROVE  \/ Enter(t) \/ FindForRefresh(t) \/ MarkRefreshing(t) \/ LoadRefreshToken(t)
         \/ Refreshed(t) \/ RefreshRejected(t) \/ RefreshFails(t) \/ Publish(t)
         \/ UseToken(t) \/ MarkEnter(t) \/ MarkWrite(t)
         => TInv'
<1> USE Constants
<1> DEFINE i == task[t].id
<1>0. /\ task[t] \in TaskRecord /\ Fits(task[t], known) /\ row \in Rows /\ session \in Sessions
      /\ session.faults \in Nat /\ faults \in 0..session.faults /\ task \in [Tasks -> TaskRecord]
      /\ StoresOK
  BY DEF TInv, TasksOK, StoresOK
<1> USE DEF Fits, TokenPlaces, UnderMutex, ConnectPlaces, ReauthPlaces, LeavePlaces,
            NewAccount, Refreshing, SigningIn
<1>1. ASSUME NEW p \in TokenPlaces, task[t].at \in TokenPlaces, Go(t, p),
             signIn' = signIn, known' = known,
             p \in Refreshing => task[t].at \in Refreshing
      PROVE  TasksOK'
  <2>1. Fits([task[t] EXCEPT !.at = p], known)
    BY <1>0, <1>1 DEF TaskRecord
  <2>2. p \in Places
    BY DEF Places
  <2> HIDE DEF Fits, TokenPlaces, UnderMutex
  <2> QED BY <1>1, <2>1, <2>2, Goes
<1>2. ASSUME task[t].at \in TokenPlaces, Answer(t), signIn' = signIn, known' = known
      PROVE  TasksOK'
  <2>1. task[t].command \notin SigningIn
    BY <1>0, <1>2
  <2> HIDE DEF SigningIn
  <2> QED BY <1>2, <2>1, Answers
<1>3. ASSUME task[t].at \in TokenPlaces, NEW g \in Grants, signIn' = signIn, known' = known,
             task' = [task EXCEPT ![t] = [task[t] EXCEPT !.at = "use", !.mutex = 0, !.token = g]]
      PROVE  TasksOK'
  <2> DEFINE r == [task[t] EXCEPT !.at = "use", !.mutex = 0, !.token = g]
  <2>1. r \in TaskRecord /\ r.command = task[t].command
    BY <1>0 DEF TaskRecord, Places
  <2>2. Fits(r, known)
    BY <1>0, <1>3 DEF TaskRecord
  <2>3. task' = [task EXCEPT ![t] = r]
    BY <1>3
  <2> HIDE DEF r, Fits, SigningIn
  <2> QED BY <1>3, <2>1, <2>2, <2>3, OneCommand
<1>4. ASSUME Enter(t) PROVE TInv'
  <2>1. CASE cache[i] # 0
    <3>1. cache[i] \in Grants
      BY <1>0, <1>4 DEF StoresOK, Enter
    <3>2. task' = [task EXCEPT ![t] = [task[t] EXCEPT !.at = "use", !.mutex = 0, !.token = cache[i]]]
      BY <1>0, <1>4, <2>1 DEF Enter, TaskRecord
    <3> QED BY <1>0, <1>3, <1>4, <3>1, <3>2 DEF Enter, TInv, StoresOK, stores, google
  <2>2. CASE cache[i] = 0
    BY <1>0, <1>1, <1>4, <2>2 DEF Enter, TInv, StoresOK, stores, google
  <2> QED BY <2>1, <2>2
<1>5. ASSUME FindForRefresh(t) PROVE TInv'
  <2>1. StoresOK'
    BY <1>0, <1>5 DEF FindForRefresh, StoresOK, stores, google, Fault
  <2>2. CASE Usable(i) /\ task' = [task EXCEPT ![t].at = "refreshing", ![t].before = row]
    <3> DEFINE r == [task[t] EXCEPT !.at = "refreshing", !.before = row]
    <3>1. r \in TaskRecord /\ r.command = task[t].command
      BY <1>0 DEF TaskRecord, Places
    <3>2. Fits(r, known)
      BY <1>0, <1>5, <2>2 DEF TaskRecord, FindForRefresh, Usable
    <3>3. task' = [task EXCEPT ![t] = r]
      BY <1>0, <2>2 DEF TaskRecord
    <3>4. signIn' = signIn /\ known' = known
      BY <1>5 DEF FindForRefresh, stores
    <3> HIDE DEF r, Fits, SigningIn
    <3> QED BY <2>1, <3>1, <3>2, <3>3, <3>4, OneCommand DEF TInv
  <2>3. CASE Answer(t)
    BY <1>2, <1>5, <2>1, <2>3 DEF FindForRefresh, TInv, stores
  <2> QED BY <1>5, <2>2, <2>3 DEF FindForRefresh
<1>6. ASSUME MarkRefreshing(t) PROVE TInv'
  <2>1. StoresOK'
    BY <1>0, <1>6, TryTypes DEF MarkRefreshing, Statuses, StoresOK
  <2> QED BY <1>1, <1>6, <2>1 DEF MarkRefreshing, TInv
<1>7. ASSUME LoadRefreshToken(t) PROVE TInv'
  <2>1. StoresOK'
    BY <1>0, <1>7 DEF LoadRefreshToken, StoresOK, stores, google, Fault
  <2>2. CASE task' = [task EXCEPT ![t].token = keychain[i], ![t].at = "google"]
    <3> DEFINE r == [task[t] EXCEPT !.token = keychain[i], !.at = "google"]
    <3>1. r \in TaskRecord /\ r.command = task[t].command
      BY <1>0, <1>7 DEF TaskRecord, Places, StoresOK, LoadRefreshToken
    <3>2. Fits(r, known)
      BY <1>0, <1>7 DEF TaskRecord, LoadRefreshToken
    <3>3. task' = [task EXCEPT ![t] = r]
      BY <1>0, <2>2 DEF TaskRecord
    <3>4. signIn' = signIn /\ known' = known
      BY <1>7 DEF LoadRefreshToken, stores
    <3> HIDE DEF r, Fits, SigningIn
    <3> QED BY <2>1, <3>1, <3>2, <3>3, <3>4, OneCommand DEF TInv
  <2>3. CASE Answer(t)
    BY <1>2, <1>7, <2>1, <2>3 DEF LoadRefreshToken, TInv, stores
  <2> QED BY <1>7, <2>2, <2>3 DEF LoadRefreshToken
<1>8. ASSUME Refreshed(t) PROVE TInv'
  <2>1. StoresOK'
    BY <1>0, <1>8 DEF Refreshed, StoresOK, stores, google, Fault
  <2>2. CASE Go(t, "publish")
    BY <1>1, <1>8, <2>1, <2>2 DEF Refreshed, TInv, stores
  <2>3. CASE task' = [task EXCEPT ![t].at = "use", ![t].mutex = 0]
    <3>1. task' = [task EXCEPT ![t] = [task[t] EXCEPT !.at = "use", !.mutex = 0, !.token = task[t].token]]
      BY <1>0, <2>3 DEF TaskRecord
    <3>2. task[t].token \in Grants
      BY <1>0 DEF TaskRecord
    <3> QED BY <1>3, <1>8, <2>1, <3>1, <3>2 DEF Refreshed, TInv, stores
  <2> QED BY <1>8, <2>2, <2>3 DEF Refreshed
<1>9. ASSUME RefreshRejected(t) PROVE TInv'
  <2>1. StoresOK'
    BY <1>0, <1>9, TryTypes DEF RefreshRejected, Statuses, StoresOK
  <2> QED BY <1>2, <1>9, <2>1 DEF RefreshRejected, TInv
<1>10. ASSUME RefreshFails(t) PROVE TInv'
  <2>1. StoresOK'
    BY <1>0, <1>10, TryTypes DEF RefreshFails, Statuses, StoresOK
  <2> QED BY <1>2, <1>10, <2>1 DEF RefreshFails, TInv
<1>11. ASSUME Publish(t) PROVE TInv'
  <2>1. cache' \in [Ids -> Grants]
    BY <1>0, <1>11 DEF Publish, StoresOK, TaskRecord
  <2>2. StoresOK'
    BY <1>0, <1>11, <2>1, TryTypes DEF Publish, Statuses
  <2>3. task' = [task EXCEPT ![t] = [task[t] EXCEPT !.at = "use", !.mutex = 0, !.token = task[t].token]]
    BY <1>0, <1>11 DEF TaskRecord, Publish
  <2>4. task[t].token \in Grants
    BY <1>0 DEF TaskRecord
  <2> QED BY <1>3, <1>11, <2>2, <2>3, <2>4 DEF Publish, TInv
<1>12. ASSUME UseToken(t) PROVE TInv'
  <2>1. StoresOK'
    BY <1>0, <1>12 DEF UseToken, StoresOK, stores, google
  <2> QED BY <1>1, <1>2, <1>12, <2>1 DEF UseToken, TInv, stores
<1>13. ASSUME MarkEnter(t) PROVE TInv'
  <2>1. StoresOK'
    BY <1>0, <1>13 DEF MarkEnter, StoresOK, stores, google
  <2> QED BY <1>1, <1>13, <2>1 DEF MarkEnter, TInv, stores
<1>14. ASSUME MarkWrite(t) PROVE TInv'
  <2>1. StoresOK'
    BY <1>0, <1>14, TryTypes DEF MarkWrite, Statuses, StoresOK
  <2> QED BY <1>2, <1>14, <2>1 DEF MarkWrite, TInv
<1> QED
  BY <1>4, <1>5, <1>6, <1>7, <1>8, <1>9, <1>10, <1>11, <1>12, <1>13, <1>14

(* The steps of a sign-in. The lock is given back with the answer, and the  *)
(* id that SignIn made sure of is still free when Connect takes it.         *)
LEMMA SignInTypes ==
  ASSUME TInv, NEW t \in Tasks
  PROVE  \/ SignIn(t) \/ Consent(t) \/ SignInFails(t) \/ FindPrior(t) \/ Connect(t)
         \/ PersistCredential(t) \/ Rollback(t) \/ FindForReauth(t) \/ SaveCredential(t)
         \/ Reconnect(t) \/ InvalidateRenewed(t)
         => TInv'
<1> USE Constants
<1> DEFINE i == task[t].id
           signing == {"consent"} \cup ConnectPlaces \cup ReauthPlaces
<1>0. /\ task[t] \in TaskRecord /\ Fits(task[t], known) /\ row \in Rows /\ session \in Sessions
      /\ session.faults \in Nat /\ faults \in 0..session.faults /\ task \in [Tasks -> TaskRecord]
      /\ StoresOK /\ \A u \in Tasks : (signIn = u) = (task[u].command \in SigningIn)
  BY DEF TInv, TasksOK, StoresOK
<1> USE DEF Fits, TokenPlaces, UnderMutex, ConnectPlaces, ReauthPlaces, LeavePlaces,
            NewAccount, Refreshing, SigningIn
<1>1. ASSUME NEW p \in ReauthPlaces \cup {"rollback"}, Go(t, p),
             (task[t].at \in ReauthPlaces /\ p # "rollback") \/ task[t].at = "persist",
             p \in ReauthPlaces => task[t].at \in ReauthPlaces,
             signIn' = signIn, known' = known
      PROVE  TasksOK'
  <2>1. Fits([task[t] EXCEPT !.at = p], known)
    BY <1>0, <1>1 DEF TaskRecord
  <2>2. p \in Places
    BY DEF Places
  <2> HIDE DEF Fits, TokenPlaces, UnderMutex
  <2> QED BY <1>1, <2>1, <2>2, Goes
<1>2. ASSUME task[t].at \in signing, EndSignIn(t), known' = known
      PROVE  TasksOK'
  <2>1. task[t].command \in SigningIn
    BY <1>0, <1>2
  <2> HIDE DEF SigningIn
  <2> QED BY <1>2, <2>1, Answers DEF EndSignIn
<1>3. ASSUME SignIn(t) PROVE TInv'
  <2>1. PICK c \in SigningIn, j \in Ids \cup {0} :
          /\ c = "connect" => known # Ids
          /\ c = "reauthenticate" => j \in Ids
          /\ task' = [task EXCEPT ![t] = [Idle EXCEPT !.at = "consent", !.command = c, !.id = j]]
    <3>1. PICK c \in session.commands \cap {"connect", "reauthenticate"} :
            /\ c = "connect" => known # Ids
            /\ \E j \in (IF c = "connect" THEN {0} ELSE known) :
                 task' = [task EXCEPT ![t] = [Idle EXCEPT !.at = "consent", !.command = c, !.id = j]]
      BY <1>3 DEF SignIn
    <3>2. CASE c = "connect"
      BY <3>1, <3>2
    <3>3. CASE c = "reauthenticate"
      BY <1>0, <3>1, <3>3 DEF StoresOK
    <3> QED BY <3>2, <3>3
  <2> DEFINE r == [Idle EXCEPT !.at = "consent", !.command = c, !.id = j]
  <2>2. r \in TaskRecord /\ Fits(r, known) /\ r.command \in SigningIn
    BY <2>1 DEF Idle, TaskRecord, Places, Commands
  <2>3. /\ task' \in [Tasks -> TaskRecord] /\ task'[t] = r
        /\ \A u \in Tasks : u # t => task'[u] = task[u]
    <3> HIDE DEF r
    <3> QED BY <1>0, <2>1, <2>2 DEF r
  <2>4. signIn' = t /\ known' = known /\ signIn = Free
    BY <1>3 DEF SignIn, stores
  <2>5. \A u \in Tasks : Fits(task'[u], known')
    <3> HIDE DEF r, Fits
    <3> QED BY <2>2, <2>3, <2>4 DEF TInv, TasksOK
  <2>6. \A u \in Tasks : (signIn' = u) = (task'[u].command \in SigningIn)
    <3> HIDE DEF r, Fits, SigningIn
    <3> QED BY <1>0, <2>2, <2>3, <2>4
  <2>7. TasksOK'
    <3> HIDE DEF r, Fits, SigningIn
    <3> QED BY <2>3, <2>4, <2>5, <2>6 DEF TasksOK
  <2>8. StoresOK'
    BY <1>0, <1>3 DEF SignIn, StoresOK, stores, google
  <2> QED BY <2>7, <2>8 DEF TInv
<1>4. ASSUME Consent(t) PROVE TInv'
  <2> DEFINE r == [task[t] EXCEPT !.token = issued + 1, !.at =
                     IF task[t].command = "connect" THEN "prior" ELSE "match"]
  <2>1. issued + 1 \in Grants /\ StoresOK'
    BY <1>0, <1>4, AccountsAssumption DEF Consent, StoresOK, Grants, stores, google
  <2>2. r \in TaskRecord /\ r.command = task[t].command
    <3>1. CASE task[t].command = "connect"
      BY <1>0, <2>1, <3>1 DEF TaskRecord, Places
    <3>2. CASE task[t].command # "connect"
      BY <1>0, <2>1, <3>2 DEF TaskRecord, Places
    <3> QED BY <3>1, <3>2
  <2>3. Fits(r, known)
    BY <1>0, <1>4 DEF TaskRecord, Consent
  <2>4. task' = [task EXCEPT ![t] = r] /\ signIn' = signIn /\ known' = known
    BY <1>0, <1>4 DEF Consent, TaskRecord, stores
  <2> HIDE DEF r, Fits, SigningIn
  <2> QED BY <2>1, <2>2, <2>3, <2>4, OneCommand DEF TInv
<1>5. ASSUME SignInFails(t) PROVE TInv'
  <2>1. StoresOK'
    BY <1>0, <1>5 DEF SignInFails, StoresOK, stores, google
  <2> QED BY <1>2, <1>5, <2>1 DEF SignInFails, TInv, stores
<1>6. ASSUME FindPrior(t) PROVE TInv'
  <2> DEFINE r == [task[t] EXCEPT !.before = Visible, !.at = "upsert"]
  <2>1. StoresOK'
    BY <1>0, <1>6 DEF FindPrior, StoresOK, stores, google
  <2>2. r \in TaskRecord /\ r.command = task[t].command
    BY <1>0, RowTypes DEF TaskRecord, Places
  <2>3. Fits(r, known)
    BY <1>0, <1>6 DEF TaskRecord, FindPrior
  <2>4. task' = [task EXCEPT ![t] = r] /\ signIn' = signIn /\ known' = known
    BY <1>0, <1>6 DEF FindPrior, TaskRecord, stores
  <2> HIDE DEF r, Fits, SigningIn
  <2> QED BY <2>1, <2>2, <2>3, <2>4, OneCommand DEF TInv
<1>7. ASSUME Connect(t) PROVE TInv'
  <2> DEFINE id == IF task[t].before = NoRow THEN NewId ELSE task[t].before.id
             account == [id |-> id, status |-> "CONNECTED", removed |-> FALSE]
             written == Upserted(account)
             r == [task[t] EXCEPT !.id = written.id, !.at = "persist"]
  <2>1. CASE Fault /\ EndSignIn(t) /\ UNCHANGED <<row, known>>
    <3>1. StoresOK'
      BY <1>0, <1>7, <2>1 DEF Connect, StoresOK, google, Fault
    <3> QED BY <1>2, <1>7, <2>1, <3>1 DEF Connect, TInv
  <2>2. CASE /\ row' = written /\ known' = known \cup {written.id}
             /\ task' = [task EXCEPT ![t].id = written.id, ![t].at = "persist"]
             /\ UNCHANGED <<signIn, faults>>
    <3>1. NewId \in Ids
      <4>1. Ids \ known # {} /\ Ids \ known \in SUBSET Nat
        BY <1>0, <1>7, AccountsAssumption DEF Connect, StoresOK
      <4>2. \E m \in Ids \ known : \A j \in Ids \ known : m <= j
        BY <4>1, LeastNumber
      <4> QED BY <4>2 DEF NewId
    <3>2. id \in Ids
      BY <1>0, <3>1 DEF TaskRecord
    <3>3. written \in Rows \ {NoRow} /\ written.id \in Ids
      <4>1. account \in Rows \ {NoRow}
        <5> HIDE DEF id
        <5> QED BY <3>2 DEF Rows, Statuses, NoRow
      <4>2. written \in Rows \ {NoRow}
        <5> HIDE DEF account
        <5> QED BY <1>0, <4>1, RowTypes
      <4> HIDE DEF written
      <4> QED BY <4>2
    <3> HIDE DEF written
    <3>4. StoresOK'
      BY <1>0, <1>7, <2>2, <3>3 DEF Connect, StoresOK, google
    <3>5. r \in TaskRecord /\ r.command = task[t].command
      BY <1>0, <3>3 DEF TaskRecord, Places
    <3>6. Fits(r, known') /\ r.command \in SigningIn
      BY <1>0, <1>7, <3>3 DEF TaskRecord, Connect
    <3>7. /\ task' \in [Tasks -> TaskRecord] /\ task'[t] = r
          /\ \A u \in Tasks : u # t => task'[u] = task[u]
      BY <1>0, <2>2, <3>5 DEF TaskRecord
    <3>8. \A u \in Tasks : u # t => task[u].command \notin SigningIn
      <4> HIDE DEF SigningIn, r
      <4> QED BY <1>0, <3>5, <3>6
    <3>9. \A u \in Tasks : u # t => Fits(task'[u], known')
      <4>1. \A k : k.command \notin SigningIn /\ Fits(k, known) => Fits(k, known')
        OBVIOUS
      <4> HIDE DEF SigningIn, Fits
      <4> QED BY <3>7, <3>8, <4>1 DEF TInv, TasksOK
    <3>10. TasksOK'
      <4> HIDE DEF SigningIn, r, Fits
      <4> QED BY <1>0, <2>2, <3>5, <3>6, <3>7, <3>9 DEF TInv, TasksOK
    <3> QED BY <3>4, <3>10 DEF TInv
  <2> QED BY <1>7, <2>1, <2>2 DEF Connect
<1>8. ASSUME PersistCredential(t) PROVE TInv'
  <2>1. StoresOK'
    BY <1>0, <1>8 DEF PersistCredential, StoresOK, google, Fault, SetCredential, TaskRecord
  <2> QED BY <1>1, <1>2, <1>8, <2>1 DEF PersistCredential, TInv
<1>9. ASSUME Rollback(t) PROVE TInv'
  <2>1. i \in Ids
    BY <1>0, <1>9 DEF Rollback
  <2>2. row' \in Rows
    BY <1>0, <1>9, <2>1, RowTypes DEF Rollback, TaskRecord
  <2>3. faults' \in 0..session.faults
    BY <1>0, <1>9 DEF Rollback, Fault
  <2>4. StoresOK'
    BY <1>0, <1>9, <2>2, <2>3 DEF Rollback, StoresOK, google
  <2> QED BY <1>2, <1>9, <2>4 DEF Rollback, TInv
<1>10. ASSUME FindForReauth(t) PROVE TInv'
  <2>1. StoresOK'
    BY <1>0, <1>10 DEF FindForReauth, StoresOK, stores, google
  <2> QED BY <1>1, <1>2, <1>10, <2>1 DEF FindForReauth, TInv, stores
<1>11. ASSUME SaveCredential(t) PROVE TInv'
  <2>1. StoresOK'
    BY <1>0, <1>11 DEF SaveCredential, StoresOK, google, Fault, SetCredential, TaskRecord
  <2> QED BY <1>1, <1>2, <1>11, <2>1 DEF SaveCredential, TInv
<1>12. ASSUME Reconnect(t) PROVE TInv'
  <2>1. i \in Ids
    BY <1>0, <1>12 DEF Reconnect
  <2>2. [id |-> i, status |-> "CONNECTED", removed |-> FALSE] \in Rows \ {NoRow}
    BY <2>1 DEF Rows, Statuses, NoRow
  <2>3. row' \in Rows
    BY <1>0, <1>12, <2>2, RowTypes DEF Reconnect
  <2>4. StoresOK'
    BY <1>0, <1>12, <2>3 DEF Reconnect, StoresOK, google, Fault
  <2> QED BY <1>1, <1>2, <1>12, <2>4 DEF Reconnect, TInv
<1>13. ASSUME InvalidateRenewed(t) PROVE TInv'
  <2>1. StoresOK'
    BY <1>0, <1>13 DEF InvalidateRenewed, StoresOK, stores, google
  <2> QED BY <1>2, <1>13, <2>1 DEF InvalidateRenewed, TInv, stores
<1> QED
  BY <1>3, <1>4, <1>5, <1>6, <1>7, <1>8, <1>9, <1>10, <1>11, <1>12, <1>13

(* The steps of disconnect, remove and delete, and of the world around.     *)
LEMMA LeaveTypes ==
  ASSUME TInv, NEW t \in Tasks
  PROVE  Leave(t) \/ CheckJobs(t) \/ DeleteCredential(t) \/ LeaveRow(t) => TInv'
<1> USE Constants
<1> DEFINE i == task[t].id
<1>0. /\ task[t] \in TaskRecord /\ Fits(task[t], known) /\ row \in Rows /\ session \in Sessions
      /\ session.faults \in Nat /\ faults \in 0..session.faults /\ task \in [Tasks -> TaskRecord]
      /\ StoresOK
  BY DEF TInv, TasksOK, StoresOK
<1> USE DEF Fits, TokenPlaces, UnderMutex, ConnectPlaces, ReauthPlaces, LeavePlaces,
            NewAccount, Refreshing, SigningIn
<1>1. ASSUME NEW p \in LeavePlaces, task[t].at \in LeavePlaces, Go(t, p),
             signIn' = signIn, known' = known
      PROVE  TasksOK'
  <2>1. Fits([task[t] EXCEPT !.at = p], known)
    BY <1>0, <1>1 DEF TaskRecord
  <2>2. p \in Places
    BY DEF Places
  <2> HIDE DEF Fits, LeavePlaces
  <2> QED BY <1>1, <2>1, <2>2, Goes
<1>2. ASSUME task[t].at \in LeavePlaces, Answer(t), signIn' = signIn, known' = known
      PROVE  TasksOK'
  <2>1. task[t].command \notin SigningIn
    BY <1>0, <1>2
  <2> HIDE DEF SigningIn
  <2> QED BY <1>2, <2>1, Answers
<1>3. ASSUME Leave(t) PROVE TInv'
  <2>1. PICK c \in {"disconnect", "remove", "delete"}, j \in Ids :
          /\ task' = [task EXCEPT ![t] = [Idle EXCEPT !.at = "check", !.command = c, !.id = j]]
          /\ cache' = [cache EXCEPT ![j] = 0]
          /\ entry' = IF c = "disconnect" THEN entry ELSE [entry EXCEPT ![j] = 0]
    BY <1>0, <1>3 DEF Leave, StoresOK
  <2> DEFINE r == [Idle EXCEPT !.at = "check", !.command = c, !.id = j]
  <2>2. r \in TaskRecord /\ r.command \notin SigningIn /\ task[t].command \notin SigningIn
    BY <1>3 DEF Leave, TaskRecord, Idle, Places, Commands
  <2>3. Fits(r, known)
    BY DEF Idle
  <2>4. signIn' = signIn /\ known' = known /\ task' = [task EXCEPT ![t] = r]
    BY <1>3, <2>1 DEF Leave, stores
  <2>5. TasksOK'
    <3> HIDE DEF r, Fits, SigningIn
    <3> QED BY <2>2, <2>3, <2>4, OneCommand
  <2>6. StoresOK'
    BY <1>0, <1>3, <2>1 DEF Leave, StoresOK, stores, google
  <2> QED BY <2>5, <2>6 DEF TInv
<1>4. ASSUME CheckJobs(t) PROVE TInv'
  <2>1. StoresOK'
    BY <1>0, <1>4 DEF CheckJobs, StoresOK, stores, google, Fault
  <2> QED BY <1>1, <1>2, <1>4, <2>1 DEF CheckJobs, TInv, stores
<1>5. ASSUME DeleteCredential(t) PROVE TInv'
  <2>1. StoresOK'
    BY <1>0, <1>5 DEF DeleteCredential, StoresOK, google, Fault, SetCredential
  <2> QED BY <1>1, <1>2, <1>5, <2>1 DEF DeleteCredential, TInv
<1>6. ASSUME LeaveRow(t) PROVE TInv'
  <2>1. i \in Ids /\ task[t].command \in {"disconnect", "remove", "delete"}
    BY <1>0, <1>6 DEF LeaveRow
  <2>2. row' \in Rows
    <3>1. \/ SetStatus(i, "DISCONNECTED") \/ SoftRemove(i)
          \/ row' = IF row.id = i THEN NoRow ELSE row
          \/ row' = row
      BY <1>6, <2>1 DEF LeaveRow
    <3> QED BY <1>0, <2>1, <3>1, RowTypes DEF Statuses
  <2>3. faults' \in 0..session.faults
    <3>1. faults' = faults \/ Fault
      BY <1>6, <2>1 DEF LeaveRow
    <3> HIDE DEF Fits
    <3>2. CASE faults' = faults
      BY <1>0, <3>2
    <3>3. CASE Fault
      BY <1>0, <3>3 DEF Fault
    <3> QED BY <3>1, <3>2, <3>3
  <2>4. StoresOK'
    BY <1>0, <1>6, <2>2, <2>3 DEF LeaveRow, StoresOK, google
  <2> QED BY <1>2, <1>6, <2>4 DEF LeaveRow, TInv
<1> QED
  BY <1>3, <1>4, <1>5, <1>6

(* The type invariant is inductive.                                         *)
LEMMA TNext == TInv /\ [Next]_vars => TInv'
<1> SUFFICES ASSUME TInv, [Next]_vars PROVE TInv'
  OBVIOUS
<1>1. ASSUME NEW t \in Tasks, AskToken(t) \/ SignIn(t) \/ Leave(t) \/ Consent(t) \/ Step(t)
      PROVE  TInv'
  BY <1>1, TokenTypes, RefreshTypes, SignInTypes, LeaveTypes DEF Step
<1>2. CASE Expire \/ Revoke \/ JobsChange
  <2>1. StoresOK'
    <3>1. CASE Expire
      BY <3>1, Constants DEF Expire, TInv, StoresOK, stores, google
    <3>2. CASE Revoke
      BY <3>2, Constants DEF Revoke, TInv, StoresOK, stores, Grants
    <3>3. CASE JobsChange
      BY <3>3 DEF JobsChange, TInv, StoresOK, stores, google
    <3> QED BY <1>2, <3>1, <3>2, <3>3
  <2> QED BY <1>2, <2>1 DEF Expire, Revoke, JobsChange, TInv, TasksOK, stores
<1>3. CASE UNCHANGED vars
  BY <1>3 DEF vars, TInv, StoresOK, TasksOK
<1> QED
  BY <1>1, <1>2, <1>3 DEF Next

(* Type correctness: the stores and every command have the shape TypeOK     *)
(* says, a mutex is always found for an account, and connect_account_lock   *)
(* is held by a sign-in and by nobody else.                                 *)
THEOREM TypeCorrect == Spec => []TypeOK
<1>1. TInv => TypeOK
  BY DEF TInv, StoresOK, TasksOK, TypeOK, TaskRecord, SigningIn
<1> QED
  BY <1>1, TInit, TNext, PTL DEF Spec

--------------------------------------------------------------------------------
(* The mutex of an account. Nobody shares the inside of a mutex; as long as *)
(* no removal takes a mutex out of the table, whoever waits for one or is   *)
(* inside has the one of its account, no two accounts share one, and the    *)
(* cache of an account is empty while somebody is inside.                   *)

Waiting == UnderMutex \cup {"queue", "mark queue"}

OneInside ==
  \A t, u \in Tasks :
    task[t].at \in UnderMutex /\ task[u].at \in UnderMutex /\ task[t].mutex = task[u].mutex
      => t = u

OwnMutex ==
  /\ \A t \in Tasks : task[t].at \in Waiting =>
       task[t].mutex = entry[task[t].id] /\ entry[task[t].id] # 0
  /\ \A i, j \in Ids : entry[i] = entry[j] /\ entry[i] # 0 => i = j

EmptyInside ==
  /\ \A t \in Tasks : task[t].at \in UnderMutex => cache[task[t].id] = 0
  /\ \A t \in Tasks : task[t].at \in Refreshing /\ row.id = task[t].id
                        => row.status # "REAUTH_REQUIRED"
  /\ row.status = "REAUTH_REQUIRED" /\ ~Locked(entry[row.id]) => cache[row.id] = 0

(* No command runs that the session does not have, so no row is deleted.    *)
OfSession == \A t \in Tasks : task[t].command \in session.commands \cup {"none"}

RowStays == \A t \in Tasks : task[t].before # NoRow => row # NoRow

MInv == /\ OfSession /\ OneInside
        /\ MutexStays => OwnMutex /\ EmptyInside /\ RowStays

(* What every step of a command does with it: it moves on, or answers. The  *)
(* other commands stay where they are.                                      *)
Only(t) ==
  /\ \A u \in Tasks : u # t => task'[u] = task[u]
  /\ task'[t].command \in {task[t].command, "none"}

(* Every way a step changes a command leaves the others alone.              *)
LEMMA OnlyGoes ==
  ASSUME TInv, NEW t \in Tasks
  PROVE  /\ Answer(t) => Only(t)
         /\ \A p : Go(t, p) => Only(t)
         /\ \A p, g : task' = [task EXCEPT ![t].token = g, ![t].at = p] => Only(t)
         /\ \A p, b : task' = [task EXCEPT ![t].at = p, ![t].before = b] => Only(t)
         /\ \A p, b : task' = [task EXCEPT ![t].before = b, ![t].at = p] => Only(t)
         /\ \A p, m : task' = [task EXCEPT ![t].at = p, ![t].mutex = m] => Only(t)
         /\ \A p, i : task' = [task EXCEPT ![t].id = i, ![t].at = p] => Only(t)
         /\ \A p, g, m : task' = [task EXCEPT ![t].token = g, ![t].at = p, ![t].mutex = m] => Only(t)
         /\ \A i \in Ids : MutexOf(t, i) => Only(t)
<1>0. task \in [Tasks -> TaskRecord] /\ task[t] \in TaskRecord
  BY DEF TInv, TasksOK
<1>1. ASSUME NEW i \in Ids, MutexOf(t, i) PROVE Only(t)
  <2>1. PICK m \in Mutexes \ {0} : Assigned(t, i, m)
    BY <1>1, FindsMutex
  <2> QED BY <1>0, <2>1 DEF Assigned, Only, TaskRecord
<1>2. Answer(t) => Only(t)
  BY <1>0 DEF Answer, Only, Idle
<1>3. \A p : Go(t, p) => Only(t)
  BY <1>0 DEF Go, Only, TaskRecord
<1>4. ASSUME NEW p, NEW x
      PROVE  /\ task' = [task EXCEPT ![t].token = x, ![t].at = p] => Only(t)
             /\ task' = [task EXCEPT ![t].at = p, ![t].before = x] => Only(t)
             /\ task' = [task EXCEPT ![t].before = x, ![t].at = p] => Only(t)
             /\ task' = [task EXCEPT ![t].at = p, ![t].mutex = x] => Only(t)
             /\ task' = [task EXCEPT ![t].id = x, ![t].at = p] => Only(t)
  BY <1>0 DEF Only, TaskRecord
<1>5. \A p, g, m : task' = [task EXCEPT ![t].token = g, ![t].at = p, ![t].mutex = m] => Only(t)
  BY <1>0 DEF Only, TaskRecord
<1> QED
  BY <1>1, <1>2, <1>3, <1>4, <1>5

(* What a command is after an answer and after a move.                      *)
LEMMA Shapes ==
  ASSUME TInv, NEW t \in Tasks
  PROVE  /\ Answer(t) => task'[t] = Idle
         /\ \A p : Go(t, p) => task'[t] = [task[t] EXCEPT !.at = p]
         /\ \A i \in Ids : MutexOf(t, i) => task'[t].at \in {"queue", "mark queue"}
<1>1. task \in [Tasks -> TaskRecord] /\ task[t] \in TaskRecord
  BY DEF TInv, TasksOK
<1>2. ASSUME NEW i \in Ids, MutexOf(t, i) PROVE task'[t].at \in {"queue", "mark queue"}
  <2>1. PICK m \in Mutexes \ {0} : Assigned(t, i, m)
    BY <1>2, FindsMutex
  <2> QED BY <1>1, <2>1 DEF Assigned, TaskRecord
<1> QED
  BY <1>1, <1>2 DEF Answer, Go

(* So every step of a command concerns that command only.                   *)
LEMMA StepShape ==
  ASSUME TInv, NEW t \in Tasks, Consent(t) \/ Step(t)
  PROVE  Only(t) /\ session' = session
<1> USE OnlyGoes
<1>1. CASE FastPath(t) \/ MarkInvalidate(t)
  <2>1. task[t].id \in Ids
    BY <1>1 DEF TInv, TasksOK, Fits, FastPath, MarkInvalidate, TokenPlaces
  <2> QED BY <1>1, <2>1 DEF FastPath, MarkInvalidate
<1>2. CASE Consent(t) \/ Enter(t) \/ FindForRefresh(t) \/ MarkRefreshing(t)
  BY <1>2 DEF Consent, Enter, FindForRefresh, MarkRefreshing
<1>3. CASE LoadRefreshToken(t) \/ Refreshed(t) \/ RefreshRejected(t) \/ RefreshFails(t)
  BY <1>3 DEF LoadRefreshToken, Refreshed, RefreshRejected, RefreshFails
<1>4. CASE Publish(t) \/ UseToken(t) \/ MarkEnter(t) \/ MarkWrite(t)
  BY <1>4 DEF Publish, UseToken, MarkEnter, MarkWrite
<1>5. CASE SignInFails(t) \/ FindPrior(t) \/ PersistCredential(t)
  BY <1>5 DEF SignInFails, FindPrior, PersistCredential, EndSignIn
<1>6. CASE Connect(t)
  BY <1>6 DEF Connect, EndSignIn
<1>7. CASE Rollback(t) \/ FindForReauth(t) \/ SaveCredential(t) \/ Reconnect(t)
  BY <1>7 DEF Rollback, FindForReauth, SaveCredential, Reconnect, EndSignIn
<1>8. CASE InvalidateRenewed(t) \/ CheckJobs(t) \/ DeleteCredential(t)
  BY <1>8 DEF InvalidateRenewed, CheckJobs, DeleteCredential, EndSignIn
<1>9. CASE LeaveRow(t)
  BY <1>9 DEF LeaveRow
<1> QED
  BY <1>1, <1>2, <1>3, <1>4, <1>5, <1>6, <1>7, <1>8, <1>9 DEF Step

(* Commands belong to the session they began in.                            *)
LEMMA SessionNext ==
  ASSUME TInv, OfSession, [Next]_vars
  PROVE  OfSession' /\ session' = session
<1>1. ASSUME NEW t \in Tasks, Consent(t) \/ Step(t) PROVE OfSession' /\ session' = session
  BY <1>1, StepShape DEF OfSession, Only
<1>2. ASSUME NEW t \in Tasks, AskToken(t) \/ SignIn(t) \/ Leave(t)
      PROVE  OfSession' /\ session' = session
  <2>1. task \in [Tasks -> TaskRecord]
    BY DEF TInv, TasksOK
  <2>2. task'[t].command \in session.commands /\ \A u \in Tasks : u # t => task'[u] = task[u]
    <3>1. CASE AskToken(t)
      <4>1. PICK c \in session.commands, i \in known :
              task' = [task EXCEPT ![t] = [Idle EXCEPT !.at = "get", !.command = c, !.id = i]]
        BY <3>1 DEF AskToken
      <4> QED BY <2>1, <4>1 DEF Idle
    <3>2. CASE SignIn(t)
      <4>1. PICK c \in session.commands, i \in known \cup {0} :
              task' = [task EXCEPT ![t] = [Idle EXCEPT !.at = "consent", !.command = c, !.id = i]]
        BY <3>2 DEF SignIn
      <4> QED BY <2>1, <4>1 DEF Idle
    <3>3. CASE Leave(t)
      <4>1. PICK c \in session.commands, i \in known :
              task' = [task EXCEPT ![t] = [Idle EXCEPT !.at = "check", !.command = c, !.id = i]]
        BY <3>3 DEF Leave
      <4> QED BY <2>1, <4>1 DEF Idle
    <3> QED BY <1>2, <3>1, <3>2, <3>3
  <2>3. session' = session
    BY <1>2 DEF AskToken, SignIn, Leave
  <2> QED BY <2>2, <2>3 DEF OfSession
<1>3. CASE Expire \/ Revoke \/ JobsChange \/ UNCHANGED vars
  BY <1>3 DEF Expire, Revoke, JobsChange, vars, OfSession
<1> QED
  BY <1>1, <1>2, <1>3 DEF Next

(* At first nobody is inside a mutex.                                       *)
LEMMA MInit == Init => MInv
<1> SUFFICES ASSUME Init PROVE MInv
  OBVIOUS
<1>1. \A t \in Tasks : task[t] = Idle
  BY DEF Init
<1>2. OfSession /\ OneInside
  <2>1. \A t \in Tasks : task[t].at = "idle" /\ task[t].command = "none"
    BY <1>1 DEF Idle
  <2> QED BY <2>1 DEF OfSession, OneInside, UnderMutex
<1>3. OwnMutex
  BY <1>1 DEF Init, OwnMutex, Idle, Waiting, UnderMutex
<1>4. EmptyInside
  BY <1>1 DEF Init, EmptyInside, Idle, Refreshing, UnderMutex, NoRow
<1>5. RowStays
  BY <1>1 DEF RowStays, Idle
<1> QED
  BY <1>2, <1>3, <1>4, <1>5 DEF MInv

(* The places of the mutex.                                                 *)
LEMMA UnderMutexWaits ==
  /\ UnderMutex \subseteq Waiting /\ Refreshing \subseteq UnderMutex
  /\ \A p \in {"idle", "get", "consent", "check", "use"} : p \notin Waiting
BY DEF UnderMutex, Waiting, Refreshing

(* Where a step takes a command: under the mutex only by acquiring it, to   *)
(* the queue only with the mutex of its account, to a refresh only when the *)
(* account is usable.                                                       *)
PlaceOK(t) ==
  /\ task'[t].at \in UnderMutex =>
       /\ task[t].at \in UnderMutex \/ ~Locked(task[t].mutex)
       /\ task[t].at \in Waiting
  /\ task'[t].at \in Waiting =>
       \/ /\ task[t].at \in Waiting
          /\ task'[t].id = task[t].id /\ task'[t].mutex = task[t].mutex
       \/ task[t].at \in {"get", "mark"} /\ MutexOf(t, task[t].id) /\ task'[t].at \notin UnderMutex
  /\ task'[t].at \in Refreshing /\ row.id = task[t].id =>
       task[t].at \in Refreshing \/ row.status # "REAUTH_REQUIRED"

(* Every step takes its command to such a place.                            *)
LEMMA StepPlaces ==
  ASSUME TInv, NEW t \in Tasks, Consent(t) \/ Step(t)
  PROVE  PlaceOK(t)
<1>0. task \in [Tasks -> TaskRecord] /\ task[t] \in TaskRecord
  BY DEF TInv, TasksOK
<1> DEFINE Same == task'[t].id = task[t].id /\ task'[t].mutex = task[t].mutex
<1>a. task'[t].at \notin Waiting => PlaceOK(t)
  BY DEF PlaceOK, Waiting, UnderMutex, Refreshing
<1>b. ASSUME NEW p, Go(t, p) PROVE Same /\ task'[t].at = p
  <2>1. task'[t] = [task[t] EXCEPT !.at = p]
    BY <1>b, Shapes
  <2> QED BY <1>0, <2>1 DEF TaskRecord
<1>c. ASSUME Same, task[t].at \in UnderMutex, task'[t].at \in UnderMutex,
             task'[t].at \in Refreshing /\ row.id = task[t].id =>
               task[t].at \in Refreshing \/ row.status # "REAUTH_REQUIRED"
      PROVE  PlaceOK(t)
  BY <1>c DEF PlaceOK, Waiting
<1>d. Answer(t) => PlaceOK(t)
  <2>1. ASSUME Answer(t) PROVE task'[t].at = "idle"
    <3>1. task'[t] = Idle
      BY <2>1, Shapes
    <3> QED BY <3>1 DEF Idle
  <2> QED BY <1>a, <2>1 DEF Waiting, UnderMutex
<1>1. CASE FastPath(t) \/ MarkInvalidate(t)
  <2>1. task[t].id \in Ids
    BY <1>1 DEF TInv, TasksOK, Fits, FastPath, MarkInvalidate, TokenPlaces
  <2>2. CASE MutexOf(t, task[t].id)
    <3>1. task'[t].at \in {"queue", "mark queue"}
      BY <2>1, <2>2, Shapes
    <3>2. task[t].at \in {"get", "mark"}
      BY <1>1 DEF FastPath, MarkInvalidate
    <3> QED BY <2>2, <3>1, <3>2 DEF PlaceOK, UnderMutex, Refreshing
  <2>3. CASE task' = [task EXCEPT ![t].token = cache[task[t].id], ![t].at = "use"]
    <3>1. task'[t].at = "use"
      BY <1>0, <2>3 DEF TaskRecord
    <3> QED BY <1>a, <3>1 DEF Waiting, UnderMutex
  <2> QED BY <1>1, <2>2, <2>3 DEF FastPath, MarkInvalidate
<1>2. CASE Enter(t)
  <2>1. CASE Go(t, "find")
    <3>1. task'[t].at = "find" /\ Same
      BY <1>b, <2>1
    <3>2. task[t].at = "queue" /\ ~Locked(task[t].mutex)
      BY <1>2 DEF Enter
    <3> QED BY <3>1, <3>2 DEF PlaceOK, Waiting, UnderMutex, Refreshing
  <2>2. CASE task' = [task EXCEPT ![t].token = cache[task[t].id], ![t].at = "use", ![t].mutex = 0]
    <3>1. task'[t].at = "use"
      BY <1>0, <2>2 DEF TaskRecord
    <3> QED BY <1>a, <3>1 DEF Waiting, UnderMutex
  <2> QED BY <1>2, <2>1, <2>2 DEF Enter
<1>3. CASE FindForRefresh(t)
  <2>1. CASE Usable(task[t].id) /\ task' = [task EXCEPT ![t].at = "refreshing", ![t].before = row]
    <3>1. task'[t].at = "refreshing" /\ Same
      BY <1>0, <2>1 DEF TaskRecord
    <3>2. task[t].at = "find" /\ row.status # "REAUTH_REQUIRED"
      BY <1>3, <2>1 DEF FindForRefresh, Usable
    <3> QED BY <1>c, <3>1, <3>2 DEF UnderMutex
  <2> QED BY <1>3, <1>d, <2>1 DEF FindForRefresh
<1>4. CASE MarkRefreshing(t)
  <2>1. task'[t].at = "load" /\ Same /\ task[t].at = "refreshing"
    BY <1>4, <1>b DEF MarkRefreshing
  <2> QED BY <1>c, <2>1 DEF UnderMutex, Refreshing
<1>5. CASE MarkEnter(t)
  <2>1. task'[t].at = "mark write" /\ Same /\ task[t].at = "mark queue" /\ ~Locked(task[t].mutex)
    BY <1>5, <1>b DEF MarkEnter
  <2> QED BY <2>1 DEF PlaceOK, Waiting, UnderMutex, Refreshing
<1>6. CASE LoadRefreshToken(t)
  <2>1. CASE task' = [task EXCEPT ![t].token = keychain[task[t].id], ![t].at = "google"]
    <3>1. task'[t].at = "google" /\ Same
      BY <1>0, <2>1 DEF TaskRecord
    <3>2. task[t].at = "load"
      BY <1>6 DEF LoadRefreshToken
    <3> QED BY <1>c, <3>1, <3>2 DEF UnderMutex, Refreshing
  <2> QED BY <1>6, <1>d, <2>1 DEF LoadRefreshToken
<1>7. CASE Refreshed(t)
  <2>1. CASE Go(t, "publish")
    <3>1. task'[t].at = "publish" /\ Same /\ task[t].at = "google"
      BY <1>7, <1>b, <2>1 DEF Refreshed
    <3> QED BY <1>c, <3>1 DEF UnderMutex, Refreshing
  <2>2. CASE task' = [task EXCEPT ![t].at = "use", ![t].mutex = 0]
    <3>1. task'[t].at = "use"
      BY <1>0, <2>2 DEF TaskRecord
    <3> QED BY <1>a, <3>1 DEF Waiting, UnderMutex
  <2> QED BY <1>7, <2>1, <2>2 DEF Refreshed
<1>8. CASE Publish(t)
  <2>1. task'[t].at = "use"
    BY <1>0, <1>8 DEF Publish, TaskRecord
  <2> QED BY <1>a, <2>1 DEF Waiting, UnderMutex
<1>9. CASE Consent(t)
  <2>1. task'[t].at \in {"prior", "match"}
    BY <1>0, <1>9 DEF Consent, TaskRecord
  <2> QED BY <1>a, <2>1 DEF Waiting, UnderMutex
<1>10. CASE FindPrior(t)
  <2>1. task'[t].at = "upsert"
    BY <1>0, <1>10 DEF FindPrior, TaskRecord
  <2> QED BY <1>a, <2>1 DEF Waiting, UnderMutex
<1>11. CASE Connect(t)
  <2>1. CASE \E i : task' = [task EXCEPT ![t].id = i, ![t].at = "persist"]
    <3>1. task'[t].at = "persist"
      BY <1>0, <2>1 DEF TaskRecord
    <3> QED BY <1>a, <3>1 DEF Waiting, UnderMutex
  <2> QED BY <1>11, <1>d, <2>1 DEF Connect, EndSignIn
<1>12. CASE \/ RefreshRejected(t) \/ RefreshFails(t) \/ UseToken(t) \/ MarkWrite(t)
            \/ SignInFails(t) \/ PersistCredential(t) \/ Rollback(t) \/ FindForReauth(t)
            \/ SaveCredential(t) \/ Reconnect(t) \/ InvalidateRenewed(t)
            \/ CheckJobs(t) \/ DeleteCredential(t) \/ LeaveRow(t)
  <2>1. Answer(t) \/ \E p \in {"mark", "rollback", "save", "reconnect", "renewed", "forget", "leave"} :
          Go(t, p)
    BY <1>12 DEF RefreshRejected, RefreshFails, UseToken, MarkWrite, SignInFails,
      PersistCredential, Rollback, FindForReauth, SaveCredential, Reconnect, InvalidateRenewed,
      CheckJobs, DeleteCredential, LeaveRow, EndSignIn
  <2>2. CASE \E p \in {"mark", "rollback", "save", "reconnect", "renewed", "forget", "leave"} :
               Go(t, p)
    BY <1>a, <1>b, <2>2 DEF Waiting, UnderMutex
  <2> QED BY <1>d, <2>1, <2>2
<1> QED
  BY <1>1, <1>2, <1>3, <1>4, <1>5, <1>6, <1>7, <1>8, <1>9, <1>10, <1>11, <1>12 DEF Step

(* A command that begins is not at a place of the mutex.                    *)
LEMMA Begins ==
  ASSUME TInv, NEW t \in Tasks, AskToken(t) \/ SignIn(t) \/ Leave(t)
  PROVE  /\ \A u \in Tasks : u # t => task'[u] = task[u]
         /\ task'[t].at \in {"get", "consent", "check"} /\ task'[t].before = NoRow
         /\ row' = row /\ keychain' = keychain /\ faults' = faults
         /\ \A i \in Ids : cache'[i] \in {cache[i], 0}
         /\ entry' = entry \/ ~MutexStays
<1> USE DEF stores, google
<1>0. task \in [Tasks -> TaskRecord] /\ cache \in [Ids -> Grants]
  BY DEF TInv, TasksOK, StoresOK
<1>1. CASE AskToken(t)
  <2>1. PICK c \in session.commands, i \in known :
          task' = [task EXCEPT ![t] = [Idle EXCEPT !.at = "get", !.command = c, !.id = i]]
    BY <1>1 DEF AskToken
  <2> QED BY <1>0, <1>1, <2>1 DEF Idle, AskToken
<1>2. CASE SignIn(t)
  <2>1. PICK c \in session.commands, i \in known \cup {0} :
          task' = [task EXCEPT ![t] = [Idle EXCEPT !.at = "consent", !.command = c, !.id = i]]
    BY <1>2 DEF SignIn
  <2> QED BY <1>0, <1>2, <2>1 DEF Idle, SignIn
<1>3. CASE Leave(t)
  <2>1. PICK c \in session.commands \cap {"disconnect", "remove", "delete"}, i \in known :
          /\ task' = [task EXCEPT ![t] = [Idle EXCEPT !.at = "check", !.command = c, !.id = i]]
          /\ cache' = [cache EXCEPT ![i] = 0]
          /\ entry' = IF c = "disconnect" THEN entry ELSE [entry EXCEPT ![i] = 0]
    BY <1>3 DEF Leave
  <2>2. entry' = entry \/ ~MutexStays
    BY <2>1 DEF MutexStays
  <2> QED BY <1>0, <1>3, <2>1, <2>2 DEF Idle, Leave
<1> QED
  BY <1>1, <1>2, <1>3

(* Nobody is inside a mutex with another: it is entered only when free, and *)
(* whoever is inside keeps it.                                              *)
LEMMA OneInsideNext ==
  ASSUME TInv, OneInside, [Next]_vars
  PROVE  OneInside'
<1>1. ASSUME NEW t \in Tasks, Consent(t) \/ Step(t) PROVE OneInside'
  <2>1. /\ Only(t)
        /\ task'[t].at \in UnderMutex =>
             /\ task[t].at \in UnderMutex \/ ~Locked(task[t].mutex)
             /\ task'[t].mutex = task[t].mutex
    BY <1>1, StepShape, StepPlaces, UnderMutexWaits DEF PlaceOK
  <2> QED BY <2>1 DEF OneInside, Only, Locked
<1>2. ASSUME NEW t \in Tasks, AskToken(t) \/ SignIn(t) \/ Leave(t) PROVE OneInside'
  <2>1. task'[t].at \notin UnderMutex /\ \A u \in Tasks : u # t => task'[u] = task[u]
    BY <1>2, Begins DEF UnderMutex
  <2> QED BY <2>1 DEF OneInside
<1>3. CASE Expire \/ Revoke \/ JobsChange \/ UNCHANGED vars
  BY <1>3 DEF Expire, Revoke, JobsChange, vars, OneInside
<1> QED
  BY <1>1, <1>2, <1>3 DEF Next

(* A step that gives nobody a mutex, fills no cache and does not write      *)
(* REAUTH_REQUIRED. What it enters is empty, and what it leaves was.        *)
LEMMA Quiet ==
  ASSUME TInv, MInv, NEW t \in Tasks, MutexStays, entry' = entry, Only(t), PlaceOK(t),
         task'[t].at \in Waiting => task[t].at \in Waiting,
         task'[t].at \in UnderMutex => task[t].at \in UnderMutex \/ cache'[task[t].id] = 0,
         \A i \in Ids : cache'[i] \in {cache[i], 0},
         row'.status = "REAUTH_REQUIRED" => row' = row
  PROVE  OwnMutex' /\ EmptyInside'
<1> USE Constants
<1>0. /\ OwnMutex /\ EmptyInside /\ row \in Rows /\ entry \in [Ids -> Mutexes]
      /\ \A u \in Tasks : task[u].at \in Waiting => task[u].id \in Ids
      /\ \A u \in Tasks : u # t => task'[u] = task[u]
  BY DEF MInv, TInv, StoresOK, TasksOK, Fits, TokenPlaces, Waiting, Only
<1>1. task'[t].at \in Waiting => /\ task[t].at \in Waiting /\ task'[t].id = task[t].id
                                 /\ task'[t].mutex = task[t].mutex
  BY DEF PlaceOK, Waiting, UnderMutex
<1>2. OwnMutex'
  BY <1>0, <1>1 DEF OwnMutex
<1>3. ASSUME NEW u \in Tasks, task'[u].at \in UnderMutex PROVE cache'[task'[u].id] = 0
  <2>1. task'[u].id = task[u].id /\ task[u].id \in Ids
    BY <1>0, <1>1, <1>3, UnderMutexWaits
  <2>2. CASE task[u].at \in UnderMutex
    BY <1>0, <2>1, <2>2 DEF EmptyInside
  <2>3. CASE task[u].at \notin UnderMutex
    BY <1>0, <1>3, <2>1, <2>3
  <2> QED BY <2>2, <2>3
<1>4. ASSUME NEW u \in Tasks, task'[u].at \in Refreshing, row'.id = task'[u].id
      PROVE  row'.status # "REAUTH_REQUIRED"
  <2> SUFFICES ASSUME row.id = task[u].id, row.status = "REAUTH_REQUIRED" PROVE FALSE
    BY <1>0, <1>1, <1>4, UnderMutexWaits
  <2>1. task[u].at \notin Refreshing
    BY <1>0 DEF EmptyInside
  <2>2. u = t
    BY <1>0, <1>4, <2>1
  <2> QED BY <1>4, <2>1, <2>2 DEF PlaceOK
<1>5. ASSUME row'.status = "REAUTH_REQUIRED", ~Locked(entry[row.id])' PROVE cache'[row'.id] = 0
  <2>1. row' = row /\ row.id \in Ids
    BY <1>0, <1>5 DEF NoRow
  <2>2. CASE ~Locked(entry[row.id])
    BY <1>0, <1>5, <2>1, <2>2 DEF EmptyInside
  <2>3. CASE Locked(entry[row.id])
    <3>1. PICK u \in Tasks : task[u].mutex = entry[row.id] /\ task[u].at \in UnderMutex
      BY <2>3 DEF Locked
    <3>2. u = t
      BY <1>0, <1>5, <2>1, <3>1 DEF Locked
    <3>3. task[t].id = row.id
      <4>1. task[t].at \in Waiting /\ task[t].id \in Ids
        BY <1>0, <3>1, <3>2, UnderMutexWaits
      <4>2. entry[task[t].id] = entry[row.id] /\ entry[task[t].id] # 0
        BY <1>0, <3>1, <3>2, <4>1 DEF OwnMutex
      <4> QED BY <1>0, <2>1, <4>1, <4>2 DEF OwnMutex
    <3>4. cache[row.id] = 0
      BY <1>0, <3>1, <3>2, <3>3 DEF EmptyInside
    <3> QED BY <2>1, <3>4
  <2> QED BY <2>2, <2>3
<1> QED
  BY <1>2, <1>3, <1>4, <1>5 DEF EmptyInside

(* Two commands inside the mutex of one account are one.                    *)
LEMMA OneOfAccount ==
  ASSUME MInv, MutexStays, NEW t \in Tasks, NEW u \in Tasks, task[t].at \in UnderMutex,
         task[u].at \in UnderMutex, task[t].id = task[u].id
  PROVE  t = u
BY UnderMutexWaits DEF MInv, OwnMutex, OneInside

(* A command that is inside the mutex writes REAUTH_REQUIRED and leaves it. *)
LEMMA Rejects ==
  ASSUME TInv, MInv, MutexStays, NEW t \in Tasks, task[t].at \in UnderMutex, Only(t), PlaceOK(t),
         task'[t].at \notin Waiting, entry' = entry, cache' = cache,
         row'.status = "REAUTH_REQUIRED" => row' = row \/ row.id = task[t].id,
         row'.id = row.id
  PROVE  OwnMutex' /\ EmptyInside'
<1> USE Constants
<1>1. CASE row'.status = "REAUTH_REQUIRED" => row' = row
  <2>1. \A i \in Ids : cache'[i] \in {cache[i], 0}
    OBVIOUS
  <2> QED BY <1>1, <2>1, Quiet, UnderMutexWaits
<1>2. CASE row'.status = "REAUTH_REQUIRED" /\ row.id = task[t].id
  <2>0. /\ OwnMutex /\ EmptyInside /\ \A u \in Tasks : u # t => task'[u] = task[u]
    BY DEF MInv, Only
  <2>1. OwnMutex'
    BY <2>0 DEF OwnMutex
  <2>2. \A u \in Tasks : task'[u].at \in UnderMutex => u # t /\ cache'[task'[u].id] = 0
    BY <2>0, UnderMutexWaits DEF EmptyInside
  <2>3. \A u \in Tasks : task'[u].at \in Refreshing => row'.id # task'[u].id
    BY <1>2, <2>0, OneOfAccount, UnderMutexWaits
  <2>4. cache'[row'.id] = 0
    BY <1>2, <2>0 DEF EmptyInside
  <2> QED BY <2>1, <2>2, <2>3, <2>4 DEF EmptyInside
<1> QED
  BY <1>1, <1>2

(* A command gets the mutex of its account, and the cache may be emptied.   *)
LEMMA GetsMutex ==
  ASSUME TInv, MInv, MutexStays, NEW t \in Tasks, task[t].at \in {"get", "mark"}, Only(t),
         MutexOf(t, task[t].id), row' = row, \A i \in Ids : cache'[i] \in {cache[i], 0}
  PROVE  OwnMutex' /\ EmptyInside'
<1> USE Constants
<1>0. /\ OwnMutex /\ EmptyInside /\ row \in Rows /\ entry \in [Ids -> Mutexes]
      /\ \A u \in Tasks : task[u].at \in Waiting => task[u].id \in Ids
      /\ \A u \in Tasks : u # t => task'[u] = task[u]
      /\ task \in [Tasks -> TaskRecord] /\ task[t] \in TaskRecord /\ task[t].id \in Ids
  BY DEF MInv, TInv, StoresOK, TasksOK, Fits, TokenPlaces, Waiting, Only
<1>1. PICK m \in Mutexes \ {0} : Assigned(t, task[t].id, m)
  BY <1>0, FindsMutex
<1>2. /\ task'[t].mutex = m /\ task'[t].id = task[t].id /\ task'[t].at \in {"queue", "mark queue"}
      /\ entry'[task[t].id] = m /\ \A i \in Ids : i # task[t].id => entry'[i] = entry[i]
  BY <1>0, <1>1 DEF Assigned, TaskRecord
<1>3. \A i \in Ids : entry[i] # 0 => entry'[i] = entry[i]
  BY <1>1, <1>2 DEF Assigned
<1>4. OwnMutex'
  <2>1. ASSUME NEW u \in Tasks, task'[u].at \in Waiting
        PROVE  task'[u].mutex = entry'[task'[u].id] /\ entry'[task'[u].id] # 0
    <3>1. CASE u = t
      BY <1>2, <3>1
    <3>2. CASE u # t
      BY <1>0, <1>3, <2>1, <3>2 DEF OwnMutex
    <3> QED BY <3>1, <3>2
  <2>2. ASSUME NEW i \in Ids, NEW j \in Ids, entry'[i] = entry'[j], entry'[i] # 0 PROVE i = j
    <3>1. CASE entry[task[t].id] = 0
      BY <1>0, <1>1, <1>2, <2>2, <3>1 DEF OwnMutex, Assigned
    <3>2. CASE entry[task[t].id] # 0
      <4>1. \A k \in Ids : entry'[k] = entry[k]
        BY <1>0, <1>2, <1>3, <3>2
      <4> QED BY <1>0, <2>2, <4>1 DEF OwnMutex
    <3> QED BY <3>1, <3>2
  <2> QED BY <2>1, <2>2 DEF OwnMutex
<1>5. task[t].at \notin UnderMutex /\ task'[t].at \notin UnderMutex
  BY <1>2 DEF UnderMutex
<1>6. ASSUME NEW u \in Tasks, task'[u].at \in UnderMutex
      PROVE  /\ cache'[task'[u].id] = 0
             /\ task'[u].at \in Refreshing /\ row'.id = task'[u].id => row'.status # "REAUTH_REQUIRED"
  BY <1>0, <1>5, <1>6, UnderMutexWaits DEF EmptyInside
<1>7. ASSUME row'.status = "REAUTH_REQUIRED", ~Locked(entry[row.id])' PROVE cache'[row'.id] = 0
  <2>1. row.id \in Ids /\ row.status = "REAUTH_REQUIRED"
    BY <1>0, <1>7 DEF NoRow
  <2>2. ~Locked(entry[row.id])
    <3> SUFFICES ASSUME NEW u \in Tasks, task[u].mutex = entry[row.id], task[u].at \in UnderMutex
                 PROVE  FALSE
      BY DEF Locked
    <3>1. u # t /\ entry[row.id] # 0
      BY <1>0, <1>5, UnderMutexWaits DEF OwnMutex
    <3> QED BY <1>0, <1>3, <1>7, <2>1, <3>1 DEF Locked
  <2> QED BY <1>0, <2>1, <2>2 DEF EmptyInside
<1> QED
  BY <1>4, <1>6, <1>7, UnderMutexWaits DEF EmptyInside

(* A token is published by the one who is inside, while the account is not  *)
(* known to need a sign-in.                                                 *)
LEMMA Publishes ==
  ASSUME TInv, MInv, MutexStays, NEW t \in Tasks, Publish(t), Only(t)
  PROVE  OwnMutex' /\ EmptyInside'
<1> USE Constants
<1>0. /\ OwnMutex /\ EmptyInside /\ row \in Rows
      /\ \A u \in Tasks : task[u].at \in Waiting => task[u].id \in Ids
      /\ \A u \in Tasks : u # t => task'[u] = task[u]
      /\ task \in [Tasks -> TaskRecord] /\ task[t] \in TaskRecord
      /\ cache \in [Ids -> Grants]
  BY DEF MInv, TInv, StoresOK, TasksOK, Fits, TokenPlaces, Waiting, Only
<1>1. /\ task[t].at = "publish" /\ entry' = entry /\ cache' = [cache EXCEPT ![task[t].id] = task[t].token]
      /\ TrySetStatus(task[t].id, "CONNECTED")
  BY DEF Publish
<1>2. task[t].at \in UnderMutex /\ task[t].at \in Refreshing /\ task[t].id \in Ids
  BY <1>0, <1>1, UnderMutexWaits DEF UnderMutex, Refreshing
<1>3. task'[t].at \notin Waiting
  <2>1. task'[t].at = "use"
    BY <1>0 DEF Publish, TaskRecord
  <2> QED BY <2>1, UnderMutexWaits
<1>4. OwnMutex'
  BY <1>0, <1>1, <1>3 DEF OwnMutex
<1>5. \A u \in Tasks : task'[u].at \in UnderMutex =>
        /\ u # t /\ task'[u] = task[u] /\ task[u].id # task[t].id /\ task[u].id \in Ids
        /\ cache'[task'[u].id] = 0
  <2> SUFFICES ASSUME NEW u \in Tasks, task'[u].at \in UnderMutex
               PROVE  /\ u # t /\ task'[u] = task[u] /\ task[u].id # task[t].id /\ task[u].id \in Ids
                      /\ cache'[task'[u].id] = 0
    OBVIOUS
  <2>1. u # t /\ task'[u] = task[u] /\ task[u].id \in Ids
    BY <1>0, <1>3, UnderMutexWaits
  <2>2. task[u].id # task[t].id
    BY <1>2, <2>1, OneOfAccount
  <2> QED BY <1>0, <1>1, <2>1, <2>2 DEF EmptyInside
<1>6. row'.status = "REAUTH_REQUIRED" => row' = row
  BY <1>0, <1>1, <1>2, StatusWritten DEF TrySetStatus
<1>7. \A u \in Tasks : task'[u].at \in Refreshing /\ row'.id = task'[u].id
                         => row'.status # "REAUTH_REQUIRED"
  BY <1>0, <1>5, <1>6, UnderMutexWaits DEF EmptyInside
<1>8. ASSUME row'.status = "REAUTH_REQUIRED", ~Locked(entry[row.id])' PROVE cache'[row'.id] = 0
  <2>1. row' = row /\ row.id \in Ids /\ row.id # task[t].id
    BY <1>0, <1>2, <1>6, <1>8 DEF EmptyInside, NoRow
  <2>2. ~Locked(entry[row.id])
    <3> SUFFICES ASSUME NEW u \in Tasks, task[u].mutex = entry[row.id], task[u].at \in UnderMutex
                 PROVE  FALSE
      BY DEF Locked
    <3>1. u = t
      BY <1>0, <1>1, <1>8, <2>1 DEF Locked
    <3>2. entry[task[t].id] = entry[row.id] /\ entry[row.id] # 0
      BY <1>0, <1>2, <3>1, UnderMutexWaits DEF OwnMutex
    <3> QED BY <1>0, <1>2, <2>1, <3>2 DEF OwnMutex
  <2> QED BY <1>0, <1>1, <1>8, <2>1, <2>2 DEF EmptyInside
<1> QED
  BY <1>4, <1>5, <1>7, <1>8 DEF EmptyInside

(* What the row becomes: it needs a sign-in only when a refresh or a mark   *)
(* says so under the mutex, and without a deletion it stays a row.          *)
LEMMA RowSteps ==
  ASSUME TInv, OfSession, MutexStays, NEW t \in Tasks, Consent(t) \/ Step(t), row' # row
  PROVE  /\ row # NoRow => row' # NoRow
         /\ row'.status = "REAUTH_REQUIRED" =>
              \/ RefreshRejected(t) \/ MarkWrite(t)
              \/ Rollback(t) /\ task[t].before # NoRow /\ row = NoRow
<1> USE Constants
<1>0. /\ row \in Rows /\ task[t] \in TaskRecord /\ Fits(task[t], known)
      /\ task[t].command \in session.commands \cup {"none"}
  BY DEF TInv, StoresOK, TasksOK, OfSession
<1>1. ASSUME NEW i \in Ids, NEW x, SetStatus(i, x)
      PROVE  /\ row' # NoRow /\ row # NoRow /\ row'.status = x /\ row.id = i /\ row'.id = row.id
  BY <1>0, <1>1, StatusWritten DEF NoRow
<1>2. ASSUME NEW a \in Rows \ {NoRow}
      PROVE  /\ Upserted(a) # NoRow
             /\ row # NoRow => Upserted(a).status = "CONNECTED"
             /\ row = NoRow => Upserted(a) = a
  BY <1>0, RowTypes DEF Upserted, Rows
<1>3. CASE MarkRefreshing(t) \/ RefreshFails(t) \/ Publish(t)
  <2>1. task[t].id \in Ids
    BY <1>0, <1>3 DEF MarkRefreshing, RefreshFails, Publish, Fits, TokenPlaces, UnderMutex
  <2>2. task[t].at = "google" => task[t].before.status # "REAUTH_REQUIRED"
    BY <1>0 DEF Fits, Refreshing
  <2>3. \E x : x # "REAUTH_REQUIRED" /\ SetStatus(task[t].id, x)
    BY <1>3, <2>2 DEF MarkRefreshing, RefreshFails, Publish, TrySetStatus
  <2> QED BY <1>1, <2>1, <2>3
<1>4. CASE RefreshRejected(t) \/ MarkWrite(t)
  <2>1. task[t].id \in Ids
    BY <1>0, <1>4 DEF RefreshRejected, MarkWrite, Fits, TokenPlaces, UnderMutex
  <2> QED BY <1>1, <1>4, <2>1 DEF RefreshRejected, MarkWrite, TrySetStatus
<1>5. CASE Connect(t)
  <2> DEFINE id == IF task[t].before = NoRow THEN NewId ELSE task[t].before.id
             account == [id |-> id, status |-> "CONNECTED", removed |-> FALSE]
  <2>1. row' = Upserted(account)
    BY <1>5 DEF Connect
  <2>2. row' \in Rows
    BY SignInTypes, <1>5 DEF TInv, StoresOK
  <2>3. row = NoRow => row' = account
    BY <2>1 DEF Upserted
  <2>4. row # NoRow => row' = [row EXCEPT !.status = "CONNECTED", !.removed = FALSE]
    BY <2>1 DEF Upserted
  <2>5. row # NoRow => row' # NoRow /\ row'.status = "CONNECTED"
    <3> SUFFICES ASSUME row # NoRow PROVE row' # NoRow /\ row'.status = "CONNECTED"
      OBVIOUS
    <3>1. row \in [id: Ids, status: Statuses, removed: BOOLEAN]
      BY <1>0
    <3>2. row'.status = "CONNECTED"
      BY <2>4, <3>1
    <3> QED BY <3>2 DEF NoRow
  <2> QED BY <2>3, <2>5
<1>6. CASE Reconnect(t)
  <2> DEFINE account == [id |-> task[t].id, status |-> "CONNECTED", removed |-> FALSE]
  <2>1. task[t].id \in Ids
    BY <1>0, <1>6 DEF Reconnect, Fits, ReauthPlaces
  <2>2. account \in Rows \ {NoRow} /\ account.status = "CONNECTED"
    BY <2>1 DEF Rows, Statuses, NoRow
  <2>3. row' = Upserted(account)
    BY <1>6 DEF Reconnect
  <2> HIDE DEF account
  <2> QED BY <1>2, <2>2, <2>3
<1>7. CASE Rollback(t)
  <2>1. task[t].id \in Ids
    BY <1>0, <1>7 DEF Rollback, Fits
  <2>2. \/ task[t].before # NoRow /\ row' = Upserted(task[t].before)
        \/ SoftRemove(task[t].id)
    BY <1>7 DEF Rollback
  <2>3. CASE task[t].before # NoRow /\ row' = Upserted(task[t].before)
    BY <1>0, <1>2, <1>7, <2>3 DEF TaskRecord
  <2>4. CASE SoftRemove(task[t].id)
    <3>1. row'.status = "DISCONNECTED"
      BY <1>0, <2>1, <2>4, StatusWritten
    <3> QED BY <3>1 DEF NoRow
  <2> QED BY <2>2, <2>3, <2>4
<1>8. CASE LeaveRow(t)
  <2>1. task[t].command \in {"disconnect", "remove", "delete"} /\ task[t].id \in Ids
    BY <1>0, <1>8 DEF LeaveRow, Fits, LeavePlaces
  <2>2. task[t].command = "disconnect"
    BY <1>0, <2>1 DEF MutexStays
  <2>3. SetStatus(task[t].id, "DISCONNECTED")
    BY <1>8, <2>2 DEF LeaveRow
  <2> QED BY <1>1, <2>1, <2>3
<1>9. \/ MarkRefreshing(t) \/ RefreshFails(t) \/ Publish(t) \/ RefreshRejected(t) \/ MarkWrite(t)
      \/ Connect(t) \/ Reconnect(t) \/ Rollback(t) \/ LeaveRow(t)
  <2>1. CASE Consent(t) \/ FastPath(t) \/ Enter(t) \/ FindForRefresh(t) \/ LoadRefreshToken(t)
             \/ Refreshed(t) \/ UseToken(t) \/ MarkInvalidate(t) \/ MarkEnter(t)
    BY <2>1 DEF Consent, FastPath, Enter, FindForRefresh, LoadRefreshToken, Refreshed, UseToken,
      MarkInvalidate, MarkEnter, stores
  <2>2. CASE SignInFails(t) \/ FindPrior(t) \/ PersistCredential(t) \/ FindForReauth(t)
             \/ SaveCredential(t) \/ InvalidateRenewed(t) \/ CheckJobs(t) \/ DeleteCredential(t)
    BY <2>2 DEF SignInFails, FindPrior, PersistCredential, FindForReauth, SaveCredential,
      InvalidateRenewed, CheckJobs, DeleteCredential, stores
  <2> QED BY <2>1, <2>2 DEF Step
<1> QED
  BY <1>3, <1>4, <1>5, <1>6, <1>7, <1>8, <1>9

(* What a step does to the lock table and to the cache: a mutex is taken    *)
(* only at the two places that ask for one, the cache is filled only by a   *)
(* publication, and whatever is entered is empty.                           *)
Still(t) ==
  /\ entry' = entry
  /\ task'[t].at \in Waiting => task[t].at \in Waiting
  /\ task'[t].at \in UnderMutex => task[t].at \in UnderMutex \/ cache'[task[t].id] = 0
  /\ \A i \in Ids : cache'[i] \in {cache[i], 0}

Asks(t) ==
  /\ task[t].at \in {"get", "mark"} /\ MutexOf(t, task[t].id) /\ row' = row
  /\ \A i \in Ids : cache'[i] \in {cache[i], 0}

(* Every step of a command asks for a mutex, publishes or does neither.     *)
LEMMA CacheSteps ==
  ASSUME TInv, NEW t \in Tasks, Consent(t) \/ Step(t)
  PROVE  Asks(t) \/ Publish(t) \/ Still(t)
<1>0. /\ task[t] \in TaskRecord /\ Fits(task[t], known) /\ cache \in [Ids -> Grants]
      /\ task \in [Tasks -> TaskRecord]
  BY DEF TInv, StoresOK, TasksOK
<1>a. PlaceOK(t)
  BY StepPlaces
<1>b. ASSUME task[t].at \notin {"get", "mark", "queue"}, entry' = entry,
             cache' = cache \/ cache' = [cache EXCEPT ![task[t].id] = 0],
             task[t].at = "mark queue" => cache'[task[t].id] = 0
      PROVE  Still(t)
  BY <1>0, <1>a, <1>b DEF Still, PlaceOK, Waiting, UnderMutex
<1>1. CASE FastPath(t)
  <2>1. CASE MutexOf(t, task[t].id)
    BY <1>1, <2>1 DEF FastPath, Asks, stores
  <2>2. CASE task' = [task EXCEPT ![t].token = cache[task[t].id], ![t].at = "use"] /\ entry' = entry
    <3>1. task'[t].at = "use"
      BY <1>0, <2>2 DEF TaskRecord
    <3> QED BY <1>1, <2>2, <3>1 DEF FastPath, Still, Waiting, UnderMutex
  <2> QED BY <1>1, <2>1, <2>2 DEF FastPath
<1>2. CASE MarkInvalidate(t)
  BY <1>0, <1>2 DEF MarkInvalidate, Asks, stores
<1>3. CASE Enter(t)
  <2>1. task[t].at \in Waiting /\ entry' = entry /\ cache' = cache
    BY <1>3 DEF Enter, Waiting
  <2>2. CASE cache[task[t].id] = 0
    BY <2>1, <2>2 DEF Still
  <2>3. CASE task' = [task EXCEPT ![t].token = cache[task[t].id], ![t].at = "use", ![t].mutex = 0]
    <3>1. task'[t].at = "use"
      BY <1>0, <2>3 DEF TaskRecord
    <3> QED BY <2>1, <3>1 DEF Still, UnderMutex
  <2> QED BY <1>3, <2>2, <2>3 DEF Enter
<1>4. CASE MarkEnter(t)
  <2>1. task[t].id \in Ids
    BY <1>0, <1>4 DEF MarkEnter, Fits, TokenPlaces
  <2> QED BY <1>0, <1>4, <1>b, <2>1 DEF MarkEnter
<1>5. CASE InvalidateRenewed(t)
  BY <1>5, <1>b DEF InvalidateRenewed
<1>6. CASE \/ Consent(t) \/ FindForRefresh(t) \/ MarkRefreshing(t) \/ LoadRefreshToken(t)
           \/ Refreshed(t) \/ RefreshRejected(t) \/ RefreshFails(t) \/ UseToken(t)
  BY <1>6, <1>b DEF Consent, FindForRefresh, MarkRefreshing, LoadRefreshToken, Refreshed,
    RefreshRejected, RefreshFails, UseToken
<1>7. CASE MarkWrite(t) \/ SignInFails(t) \/ FindPrior(t) \/ Connect(t) \/ PersistCredential(t)
  BY <1>7, <1>b DEF MarkWrite, SignInFails, FindPrior, Connect, PersistCredential
<1>8. CASE \/ Rollback(t) \/ FindForReauth(t) \/ SaveCredential(t) \/ Reconnect(t)
           \/ CheckJobs(t) \/ DeleteCredential(t) \/ LeaveRow(t)
  BY <1>8, <1>b DEF Rollback, FindForReauth, SaveCredential, Reconnect, CheckJobs,
    DeleteCredential, LeaveRow
<1> QED
  BY <1>1, <1>2, <1>3, <1>4, <1>5, <1>6, <1>7, <1>8 DEF Step

(* An account's entry in the cache may be emptied by anybody at any time.   *)
LEMMA EmptyStays ==
  ASSUME TInv, EmptyInside, row' = row, entry' = entry,
         \A i \in Ids : cache'[i] \in {cache[i], 0},
         \A u \in Tasks : \/ task'[u] = task[u]
                          \/ task'[u].at \notin UnderMutex /\ task[u].at \notin UnderMutex
  PROVE  EmptyInside'
<1>0. /\ row \in Rows
      /\ \A u \in Tasks : task[u].at \in UnderMutex => task[u].id \in Ids
  BY DEF TInv, StoresOK, TasksOK, Fits, TokenPlaces
<1>1. row.status = "REAUTH_REQUIRED" => row.id \in Ids
  BY <1>0, Constants DEF NoRow
<1>2. Locked(entry[row.id])' <=> Locked(entry[row.id])
  BY DEF Locked
<1> QED
  BY <1>0, <1>1, <1>2, UnderMutexWaits DEF EmptyInside

(* What a command remembers of the account is the row as it was.            *)
LEMMA BeforeIsRow ==
  ASSUME TInv, NEW t \in Tasks, Consent(t) \/ Step(t)
  PROVE  task'[t].before \in {task[t].before, NoRow, row}
<1>0. task \in [Tasks -> TaskRecord] /\ task[t] \in TaskRecord
  BY DEF TInv, TasksOK
<1> DEFINE Goal == task'[t].before \in {task[t].before, NoRow, row}
<1>a. ASSUME Answer(t) PROVE Goal
  <2>1. task'[t] = Idle
    BY <1>a, Shapes
  <2> QED BY <2>1 DEF Idle
<1>b. ASSUME NEW p, Go(t, p) PROVE Goal
  <2>1. task'[t] = [task[t] EXCEPT !.at = p]
    BY <1>b, Shapes
  <2> QED BY <1>0, <2>1 DEF TaskRecord
<1>1. CASE FastPath(t) \/ MarkInvalidate(t)
  <2>1. task[t].id \in Ids
    BY <1>1 DEF TInv, TasksOK, Fits, FastPath, MarkInvalidate, TokenPlaces
  <2>2. CASE MutexOf(t, task[t].id)
    <3>1. PICK m \in Mutexes \ {0} : Assigned(t, task[t].id, m)
      BY <2>1, <2>2, FindsMutex
    <3> QED BY <1>0, <3>1 DEF Assigned, TaskRecord
  <2>3. CASE task' = [task EXCEPT ![t].token = cache[task[t].id], ![t].at = "use"]
    BY <1>0, <2>3 DEF TaskRecord
  <2> QED BY <1>1, <2>2, <2>3 DEF FastPath, MarkInvalidate
<1>2. CASE Enter(t) \/ Refreshed(t) \/ Publish(t)
  <2>1. CASE \E p : Go(t, p)
    BY <1>b, <2>1
  <2>2. CASE task' = [task EXCEPT ![t].token = cache[task[t].id], ![t].at = "use", ![t].mutex = 0]
    BY <1>0, <2>2 DEF TaskRecord
  <2>3. CASE task' = [task EXCEPT ![t].at = "use", ![t].mutex = 0]
    BY <1>0, <2>3 DEF TaskRecord
  <2> QED BY <1>2, <2>1, <2>2, <2>3 DEF Enter, Refreshed, Publish
<1>3. CASE FindForRefresh(t) \/ FindPrior(t)
  <2>1. CASE task' = [task EXCEPT ![t].at = "refreshing", ![t].before = row]
    BY <1>0, <2>1 DEF TaskRecord
  <2>2. CASE task' = [task EXCEPT ![t].before = Visible, ![t].at = "upsert"]
    BY <1>0, <2>2 DEF TaskRecord, Visible
  <2> QED BY <1>3, <1>a, <2>1, <2>2 DEF FindForRefresh, FindPrior
<1>4. CASE LoadRefreshToken(t)
  <2>1. CASE task' = [task EXCEPT ![t].token = keychain[task[t].id], ![t].at = "google"]
    BY <1>0, <2>1 DEF TaskRecord
  <2> QED BY <1>4, <1>a, <2>1 DEF LoadRefreshToken
<1>5. CASE Consent(t)
  BY <1>0, <1>5 DEF Consent, TaskRecord
<1>6. CASE Connect(t)
  <2>1. CASE \E i : task' = [task EXCEPT ![t].id = i, ![t].at = "persist"]
    BY <1>0, <2>1 DEF TaskRecord
  <2> QED BY <1>6, <1>a, <2>1 DEF Connect, EndSignIn
<1>7. CASE \/ MarkRefreshing(t) \/ RefreshRejected(t) \/ RefreshFails(t) \/ UseToken(t)
           \/ MarkEnter(t) \/ MarkWrite(t) \/ SignInFails(t) \/ PersistCredential(t)
           \/ Rollback(t) \/ FindForReauth(t) \/ SaveCredential(t) \/ Reconnect(t)
           \/ InvalidateRenewed(t) \/ CheckJobs(t) \/ DeleteCredential(t) \/ LeaveRow(t)
  <2>1. Answer(t) \/ \E p : Go(t, p)
    BY <1>7 DEF MarkRefreshing, RefreshRejected, RefreshFails, UseToken, MarkEnter, MarkWrite,
      SignInFails, PersistCredential, Rollback, FindForReauth, SaveCredential, Reconnect,
      InvalidateRenewed, CheckJobs, DeleteCredential, LeaveRow, EndSignIn
  <2> QED BY <1>a, <1>b, <2>1
<1> QED
  BY <1>1, <1>2, <1>3, <1>4, <1>5, <1>6, <1>7 DEF Step

(* Who writes REAUTH_REQUIRED under the mutex leaves it and touches neither *)
(* the lock table nor the cache.                                            *)
LEMMA Rejecting ==
  ASSUME TInv, NEW t \in Tasks, RefreshRejected(t) \/ MarkWrite(t)
  PROVE  /\ task[t].at \in UnderMutex /\ task'[t].at \notin Waiting
         /\ entry' = entry /\ cache' = cache /\ row'.id = row.id
         /\ row'.status = "REAUTH_REQUIRED" => row' = row \/ row.id = task[t].id
<1>1. task[t].at \in UnderMutex /\ row \in Rows
  BY DEF RefreshRejected, MarkWrite, UnderMutex, TInv, StoresOK
<1>2. task[t].id \in Ids
  BY <1>1 DEF TInv, TasksOK, Fits, TokenPlaces
<1>3. entry' = entry /\ cache' = cache /\ Answer(t) /\ TrySetStatus(task[t].id, "REAUTH_REQUIRED")
  BY DEF RefreshRejected, MarkWrite
<1>4. task'[t].at = "idle"
  <2>1. task'[t] = Idle
    BY <1>3, Shapes
  <2> QED BY <2>1 DEF Idle
<1> QED
  BY <1>1, <1>2, <1>3, <1>4, StatusWritten, UnderMutexWaits DEF TrySetStatus

(* The invariants of the mutex are inductive while no removal takes it away.*)
LEMMA MutexNext ==
  ASSUME TInv, MInv, MutexStays, [Next]_vars
  PROVE  OwnMutex' /\ EmptyInside' /\ RowStays'
<1> USE Constants
<1>0. OwnMutex /\ EmptyInside /\ RowStays /\ OfSession
  BY DEF MInv
<1>1. ASSUME NEW t \in Tasks, Consent(t) \/ Step(t) PROVE OwnMutex' /\ EmptyInside' /\ RowStays'
  <2>0. Only(t) /\ PlaceOK(t)
    BY <1>1, StepShape, StepPlaces
  <2>1. \/ row' = row
        \/ /\ row # NoRow => row' # NoRow
           /\ row'.status = "REAUTH_REQUIRED" => RefreshRejected(t) \/ MarkWrite(t)
    <3>1. ASSUME Rollback(t), task[t].before # NoRow PROVE row # NoRow
      BY <1>0, <3>1 DEF Rollback, RowStays
    <3> QED BY <1>0, <1>1, <3>1, RowSteps
  <2>2. RowStays'
    BY <1>0, <1>1, <2>0, <2>1, BeforeIsRow DEF RowStays, Only
  <2>3. CASE Asks(t)
    BY <2>0, <2>2, <2>3, GetsMutex DEF Asks
  <2>4. CASE Publish(t)
    BY <2>0, <2>2, <2>4, Publishes
  <2>5. CASE Still(t) /\ ~RefreshRejected(t) /\ ~MarkWrite(t)
    <3>1. row'.status = "REAUTH_REQUIRED" => row' = row
      BY <2>1, <2>5
    <3> QED BY <2>0, <2>2, <2>5, <3>1, Quiet DEF Still
  <2>6. CASE RefreshRejected(t) \/ MarkWrite(t)
    BY <2>0, <2>2, <2>6, Rejecting, Rejects
  <2> QED BY <1>1, <2>2, <2>3, <2>4, <2>5, <2>6, CacheSteps
<1>2. ASSUME NEW t \in Tasks, AskToken(t) \/ SignIn(t) \/ Leave(t)
      PROVE  OwnMutex' /\ EmptyInside' /\ RowStays'
  <2>0. /\ \A u \in Tasks : u # t => task'[u] = task[u]
        /\ task'[t].at \notin Waiting /\ task'[t].at \notin UnderMutex
        /\ row' = row /\ entry' = entry /\ task'[t].before = NoRow
        /\ \A i \in Ids : cache'[i] \in {cache[i], 0}
    BY <1>2, Begins, UnderMutexWaits
  <2>1. task[t].at \notin UnderMutex
    <3>1. task[t] = Idle
      BY <1>2 DEF AskToken, SignIn, Leave
    <3> QED BY <3>1 DEF Idle, UnderMutex
  <2>2. OwnMutex' /\ RowStays'
    BY <1>0, <2>0 DEF OwnMutex, RowStays
  <2>3. EmptyInside'
    BY <1>0, <2>0, <2>1, EmptyStays
  <2> QED BY <2>2, <2>3
<1>3. CASE Expire \/ Revoke \/ JobsChange \/ UNCHANGED vars
  <2>0. /\ task' = task /\ row' = row /\ entry' = entry
        /\ \A i \in Ids : cache'[i] \in {cache[i], 0}
    BY <1>3 DEF Expire, Revoke, JobsChange, vars, stores, TInv, StoresOK
  <2>1. OwnMutex' /\ RowStays'
    BY <1>0, <2>0 DEF OwnMutex, RowStays
  <2> QED BY <1>0, <2>0, <2>1, EmptyStays
<1> QED
  BY <1>1, <1>2, <1>3 DEF Next

(* The invariants of the mutex are inductive.                               *)
LEMMA MNext == TInv /\ MInv /\ [Next]_vars => MInv'
<1> SUFFICES ASSUME TInv, MInv, [Next]_vars PROVE MInv'
  OBVIOUS
<1>1. OfSession' /\ session' = session
  BY SessionNext DEF MInv
<1>2. OneInside'
  BY OneInsideNext DEF MInv
<1>3. MutexStays' => OwnMutex' /\ EmptyInside' /\ RowStays'
  BY <1>1, MutexNext DEF MutexStays
<1> QED
  BY <1>1, <1>2, <1>3 DEF MInv

(* One command at a time refreshes a token: in every session without a      *)
(* removal, whoever is inside holds the mutex of its account, and nobody    *)
(* else is inside the same mutex.                                           *)
THEOREM OneRefresh == Spec => []SingleFlight
<1>1. MInv => SingleFlight
  BY OneOfAccount DEF SingleFlight
<1> QED
  BY <1>1, TInit, TNext, MInit, MNext, PTL DEF Spec

(* No token of an account that needs a new sign-in is left in the cache,    *)
(* unless somebody is inside its mutex to take it out.                      *)
THEOREM RejectedIsGone == Spec => []RejectedTokenGone
<1>1. MInv => RejectedTokenGone
  BY DEF MInv, EmptyInside, RejectedTokenGone
<1> QED
  BY <1>1, TInit, TNext, MInit, MNext, PTL DEF Spec

--------------------------------------------------------------------------------
(* The row and the credential. Where accounts are only used, one that is    *)
(* shown without a credential is one that a command is at work on between   *)
(* the two stores: an invariant. Where accounts are taken away there is no  *)
(* such invariant, and each step is looked at: whether it strands one.      *)

(* The sessions the property is about: an account is used or taken away.    *)
SessionsApart ==
  \A s \in Sessions : s.commands \cap {"disconnect", "remove", "delete"} # {} =>
    s.commands \cap {"job", "browse", "reauthenticate"} = {}

Betweens == {"persist", "rollback", "leave"}

SignInPlaces == ConnectPlaces \cup ReauthPlaces

CommandOK(t) ==
  /\ task[t].at \in SignInPlaces => task[t].token > 0
  /\ task[t].at = "rollback" => faults > 0

(* The account a connection is at work on is the one there is, if any.      *)
AtWork(t) == task[t].at \in {"persist", "rollback"} => row = NoRow \/ row.id = task[t].id

BInv == \A t \in Tasks : CommandOK(t) /\ AtWork(t)

(* At first nobody is at work.                                              *)
LEMMA BInit == Init => BInv
<1> SUFFICES ASSUME Init PROVE BInv
  OBVIOUS
<1>1. \A t \in Tasks : task[t].at = "idle"
  BY DEF Init, Idle
<1> QED
  BY <1>1 DEF BInv, CommandOK, AtWork, SignInPlaces, ConnectPlaces, ReauthPlaces

(* A step counts at most one fault.                                         *)
LEMMA FaultSteps ==
  ASSUME NEW t \in Tasks, Consent(t) \/ Step(t)
  PROVE  faults' = faults \/ Fault
<1>1. CASE Consent(t) \/ FastPath(t) \/ Enter(t) \/ FindForRefresh(t) \/ MarkRefreshing(t)
           \/ LoadRefreshToken(t) \/ Refreshed(t) \/ RefreshRejected(t) \/ RefreshFails(t)
  BY <1>1 DEF Consent, FastPath, Enter, FindForRefresh, MarkRefreshing, LoadRefreshToken,
    Refreshed, RefreshRejected, RefreshFails, TrySetStatus
<1>2. CASE Publish(t) \/ UseToken(t) \/ MarkInvalidate(t) \/ MarkEnter(t) \/ MarkWrite(t)
           \/ SignInFails(t) \/ FindPrior(t) \/ PersistCredential(t)
  BY <1>2 DEF Publish, UseToken, MarkInvalidate, MarkEnter, MarkWrite, TrySetStatus, SignInFails,
    FindPrior, PersistCredential
<1>3. CASE Connect(t) \/ Rollback(t) \/ FindForReauth(t) \/ SaveCredential(t) \/ Reconnect(t)
           \/ InvalidateRenewed(t) \/ CheckJobs(t) \/ DeleteCredential(t)
  BY <1>3 DEF Connect, Rollback, FindForReauth, SaveCredential, Reconnect, InvalidateRenewed,
    CheckJobs, DeleteCredential
<1>4. CASE LeaveRow(t)
  BY <1>4 DEF LeaveRow
<1> QED
  BY <1>1, <1>2, <1>3, <1>4 DEF Step

(* One sign-in is at work at a time.                                        *)
LEMMA OneSignIn ==
  ASSUME TInv, NEW t \in Tasks, NEW u \in Tasks,
         task[t].at \in SignInPlaces, task[u].at \in SignInPlaces
  PROVE  t = u
<1>1. /\ \A v \in Tasks : (signIn = v) = (task[v].command \in SigningIn)
      /\ Fits(task[t], known) /\ Fits(task[u], known)
  BY DEF TInv, TasksOK
<1>2. task[t].command \in SigningIn /\ task[u].command \in SigningIn
  BY <1>1 DEF Fits, SignInPlaces, SigningIn
<1> QED
  BY <1>1, <1>2

(* The frame of BInv: one command steps, and only a sign-in gives the row   *)
(* another id.                                                              *)
LEMMA BFrame ==
  ASSUME TInv, BInv, NEW t \in Tasks, Consent(t) \/ Step(t), CommandOK(t)', AtWork(t)',
         \/ row' \in {row, NoRow} \/ (row # NoRow /\ row'.id = row.id)
         \/ task[t].at \in SignInPlaces
  PROVE  BInv'
<1>1. \A u \in Tasks : u # t => task'[u] = task[u]
  BY StepShape DEF Only
<1>2. faults \in Nat /\ faults' \in Nat /\ faults' >= faults
  <2>1. faults \in Nat
    BY Constants DEF TInv, StoresOK
  <2> QED BY <2>1, FaultSteps DEF Fault
<1>3. ASSUME NEW u \in Tasks, u # t PROVE CommandOK(u)' /\ AtWork(u)'
  <2>1. CommandOK(u)'
    BY <1>1, <1>2, <1>3 DEF BInv, CommandOK
  <2>2. ASSUME task[u].at \in {"persist", "rollback"} PROVE row' = NoRow \/ row'.id = task[u].id
    <3>1. task[u].at \in SignInPlaces
      BY <2>2 DEF SignInPlaces, ConnectPlaces
    <3>2. row' \in {row, NoRow} \/ (row # NoRow /\ row'.id = row.id)
      BY <1>3, <3>1, OneSignIn
    <3>3. row = NoRow \/ row.id = task[u].id
      BY <2>2 DEF BInv, AtWork
    <3> QED BY <3>2, <3>3
  <2>3. AtWork(u)'
    BY <1>1, <1>3, <2>2 DEF AtWork
  <2> QED BY <2>1, <2>3
<1> QED
  BY <1>3 DEF BInv

(* The steps of a refresh and of a mark, and the ends of a command: they    *)
(* write at most the status of the row and begin nothing.                   *)
LEMMA OtherShapes ==
  ASSUME TInv, NEW t \in Tasks,
         \/ FastPath(t) \/ Enter(t) \/ FindForRefresh(t) \/ MarkRefreshing(t)
         \/ LoadRefreshToken(t) \/ Refreshed(t) \/ RefreshRejected(t) \/ RefreshFails(t)
         \/ Publish(t) \/ UseToken(t) \/ MarkInvalidate(t) \/ MarkEnter(t) \/ MarkWrite(t)
         \/ SignInFails(t) \/ InvalidateRenewed(t) \/ CheckJobs(t)
  PROVE  /\ task'[t].at \notin SignInPlaces
         /\ task[t].at \notin Betweens /\ keychain' = keychain
         /\ \/ row' = row
            \/ /\ row'.id = row.id /\ row'.removed = row.removed /\ row # NoRow
               /\ task[t].at \in TokenPlaces
<1>0. /\ task[t] \in TaskRecord /\ Fits(task[t], known) /\ row \in Rows /\ Step(t)
      /\ task \in [Tasks -> TaskRecord]
  BY DEF TInv, StoresOK, TasksOK, Step
<1> DEFINE Away == task'[t].at \notin SignInPlaces
<1>a. ASSUME NEW p, p \notin SignInPlaces, Go(t, p) PROVE Away
  <2>1. task'[t] = [task[t] EXCEPT !.at = p]
    BY <1>a, Shapes
  <2> QED BY <1>0, <1>a, <2>1 DEF TaskRecord
<1>b. ASSUME Answer(t) PROVE Away
  <2>1. task'[t] = Idle
    BY <1>b, Shapes
  <2> QED BY <2>1 DEF Idle, SignInPlaces, ConnectPlaces, ReauthPlaces
<1>c. ASSUME task'[t].at = "use" PROVE Away
  BY <1>c DEF SignInPlaces, ConnectPlaces, ReauthPlaces
<1>1. Away
  <2> USE DEF SignInPlaces, ConnectPlaces, ReauthPlaces
  <2>1. CASE FastPath(t) \/ MarkInvalidate(t)
    <3>1. task[t].id \in Ids
      BY <1>0, <2>1 DEF Fits, FastPath, MarkInvalidate, TokenPlaces
    <3>2. CASE MutexOf(t, task[t].id)
      BY <3>1, <3>2, Shapes
    <3>3. CASE task' = [task EXCEPT ![t].token = cache[task[t].id], ![t].at = "use"]
      BY <1>0, <3>3 DEF TaskRecord
    <3> QED BY <2>1, <3>2, <3>3 DEF FastPath, MarkInvalidate
  <2>2. CASE Enter(t) \/ Refreshed(t) \/ Publish(t)
    <3>1. CASE Go(t, "find") \/ Go(t, "publish")
      BY <1>a, <3>1
    <3>2. CASE task' = [task EXCEPT ![t].token = cache[task[t].id], ![t].at = "use", ![t].mutex = 0]
      BY <1>0, <3>2 DEF TaskRecord
    <3>3. CASE task' = [task EXCEPT ![t].at = "use", ![t].mutex = 0]
      BY <1>0, <3>3 DEF TaskRecord
    <3> QED BY <2>2, <3>1, <3>2, <3>3 DEF Enter, Refreshed, Publish
  <2>3. CASE FindForRefresh(t) \/ LoadRefreshToken(t)
    <3>1. CASE task' = [task EXCEPT ![t].at = "refreshing", ![t].before = row]
      BY <1>0, <3>1 DEF TaskRecord
    <3>2. CASE task' = [task EXCEPT ![t].token = keychain[task[t].id], ![t].at = "google"]
      BY <1>0, <3>2 DEF TaskRecord
    <3> QED BY <1>b, <2>3, <3>1, <3>2 DEF FindForRefresh, LoadRefreshToken
  <2>4. CASE \/ MarkRefreshing(t) \/ RefreshRejected(t) \/ RefreshFails(t) \/ UseToken(t)
             \/ MarkEnter(t) \/ MarkWrite(t) \/ SignInFails(t) \/ InvalidateRenewed(t) \/ CheckJobs(t)
    <3>1. Answer(t) \/ \E p \in {"load", "mark", "mark write", "forget"} : Go(t, p)
      BY <2>4 DEF MarkRefreshing, RefreshRejected, RefreshFails, UseToken, MarkEnter, MarkWrite,
        SignInFails, InvalidateRenewed, CheckJobs, EndSignIn
    <3> QED BY <1>a, <1>b, <3>1
  <2> QED BY <2>1, <2>2, <2>3, <2>4
<1>2. task[t].at \notin Betweens /\ keychain' = keychain
  <2>1. CASE \/ FastPath(t) \/ Enter(t) \/ FindForRefresh(t) \/ MarkRefreshing(t)
             \/ LoadRefreshToken(t) \/ Refreshed(t) \/ RefreshRejected(t) \/ RefreshFails(t)
    BY <2>1 DEF Betweens, FastPath, Enter, FindForRefresh, MarkRefreshing, LoadRefreshToken,
      Refreshed, RefreshRejected, RefreshFails, stores
  <2>2. CASE \/ Publish(t) \/ UseToken(t) \/ MarkInvalidate(t) \/ MarkEnter(t) \/ MarkWrite(t)
             \/ SignInFails(t) \/ InvalidateRenewed(t) \/ CheckJobs(t)
    BY <2>2 DEF Betweens, Publish, UseToken, MarkInvalidate, MarkEnter, MarkWrite, SignInFails,
      InvalidateRenewed, CheckJobs, stores
  <2> QED BY <2>1, <2>2
<1>3. \/ row' = row
      \/ /\ row'.id = row.id /\ row'.removed = row.removed /\ row # NoRow
         /\ task[t].at \in TokenPlaces
  <2>1. CASE MarkRefreshing(t) \/ RefreshRejected(t) \/ RefreshFails(t) \/ Publish(t) \/ MarkWrite(t)
    <3>1. task[t].at \in TokenPlaces
      BY <2>1 DEF MarkRefreshing, RefreshRejected, RefreshFails, Publish, MarkWrite, TokenPlaces,
        UnderMutex
    <3>2. task[t].id \in Ids
      BY <1>0, <3>1 DEF Fits
    <3>3. row' = row \/ \E x : SetStatus(task[t].id, x)
      BY <2>1 DEF MarkRefreshing, RefreshRejected, RefreshFails, Publish, MarkWrite, TrySetStatus
    <3> QED BY <1>0, <3>1, <3>2, <3>3, StatusWritten, Constants DEF NoRow
  <2>2. CASE \/ FastPath(t) \/ Enter(t) \/ FindForRefresh(t) \/ LoadRefreshToken(t) \/ Refreshed(t)
             \/ UseToken(t) \/ MarkInvalidate(t) \/ MarkEnter(t) \/ SignInFails(t)
             \/ InvalidateRenewed(t) \/ CheckJobs(t)
    BY <2>2 DEF FastPath, Enter, FindForRefresh, LoadRefreshToken, Refreshed, UseToken,
      MarkInvalidate, MarkEnter, SignInFails, InvalidateRenewed, CheckJobs, stores
  <2> QED BY <2>1, <2>2
<1> QED
  BY <1>1, <1>2, <1>3

(* A command that ends is between no stores.                                *)
LEMMA Ends ==
  ASSUME TInv, NEW t \in Tasks, Answer(t)
  PROVE  task'[t].at = "idle" /\ CommandOK(t)' /\ AtWork(t)'
<1>1. task'[t] = Idle
  BY Shapes
<1>2. task'[t].at = "idle"
  BY <1>1 DEF Idle
<1> QED
  BY <1>2 DEF CommandOK, AtWork, SignInPlaces, ConnectPlaces, ReauthPlaces

(* What a move from one place to another keeps of a command.                *)
LEMMA Moved ==
  ASSUME TInv, NEW t \in Tasks, NEW p, Go(t, p)
  PROVE  /\ task'[t].at = p /\ task'[t].id = task[t].id
         /\ task'[t].token = task[t].token /\ task'[t].before = task[t].before
<1>1. task'[t] = [task[t] EXCEPT !.at = p]
  BY Shapes
<1>2. task[t] \in TaskRecord
  BY DEF TInv, TasksOK
<1> QED
  BY <1>1, <1>2 DEF TaskRecord

(* Where the looks of a sign-in lead, and what it remembers of the account. *)
LEMMA LookShapes ==
  ASSUME TInv, NEW t \in Tasks, Consent(t) \/ FindPrior(t) \/ FindForReauth(t)
  PROVE  /\ row' = row /\ keychain' = keychain /\ faults' = faults
         /\ task[t].at \in {"consent", "prior", "match"}
         /\ \/ task'[t].at \in {"prior", "match", "idle"}
            \/ /\ task'[t].at = "upsert" /\ task'[t].before = Visible /\ task[t].at = "prior"
            \/ task'[t].at = "save" /\ row.id = task'[t].id
         /\ task[t].at = "consent" => task'[t].token > 0
         /\ task[t].at # "consent" /\ task'[t].at # "idle" => task'[t].token = task[t].token
<1> USE Constants
<1>0. task[t] \in TaskRecord /\ task \in [Tasks -> TaskRecord] /\ issued \in Nat
  BY DEF TInv, StoresOK, TasksOK, Grants
<1>1. /\ row' = row /\ keychain' = keychain /\ faults' = faults
      /\ task[t].at \in {"consent", "prior", "match"}
  BY DEF Consent, FindPrior, FindForReauth, stores
<1>2. CASE Consent(t)
  <2>1. /\ task'[t].token = issued + 1 /\ task'[t].at \in {"prior", "match"}
        /\ task[t].at = "consent"
    BY <1>0, <1>2 DEF Consent, TaskRecord
  <2> QED BY <1>0, <1>1, <2>1
<1>3. CASE FindPrior(t)
  <2>1. /\ task'[t].token = task[t].token /\ task'[t].at = "upsert" /\ task'[t].before = Visible
        /\ task[t].at = "prior"
    BY <1>0, <1>3 DEF FindPrior, TaskRecord
  <2> QED BY <1>1, <2>1
<1>4. CASE FindForReauth(t)
  <2>0. task[t].at = "match"
    BY <1>4 DEF FindForReauth
  <2>1. CASE Go(t, "save") /\ Has(task[t].id)
    <3>1. row.id = task[t].id
      BY <2>1 DEF Has, Visible, NoRow
    <3>2. /\ task'[t].at = "save" /\ task'[t].id = task[t].id /\ task'[t].token = task[t].token
      BY <2>1, Moved
    <3> QED BY <1>1, <2>0, <3>1, <3>2
  <2>2. CASE EndSignIn(t)
    <3>1. task'[t].at = "idle"
      BY <2>2, Ends DEF EndSignIn
    <3> QED BY <1>1, <2>0, <3>1
  <2> QED BY <1>4, <2>1, <2>2 DEF FindForReauth
<1> QED
  BY <1>2, <1>3, <1>4

(* What the upsert of a connection does: it moves to persist with the id of *)
(* the row it wrote, or ends.                                               *)
LEMMA ConnectShapes ==
  ASSUME TInv, NEW t \in Tasks, Connect(t)
  PROVE  /\ task[t].at = "upsert" /\ keychain' = keychain
         /\ \/ row' = row /\ Answer(t)
            \/ /\ task'[t].id = row'.id /\ task'[t].at = "persist" /\ faults' = faults
               /\ task'[t].token = task[t].token /\ task'[t].before = task[t].before
               /\ row # NoRow => row'.id = row.id
<1>0. task[t] \in TaskRecord /\ task \in [Tasks -> TaskRecord] /\ row \in Rows
  BY DEF TInv, StoresOK, TasksOK
<1>1. task[t].at = "upsert" /\ keychain' = keychain
  BY DEF Connect
<1>2. CASE row' = row /\ Answer(t)
  BY <1>1, <1>2
<1>3. CASE /\ faults' = faults /\ row' = Upserted([id |-> IF task[t].before = NoRow THEN NewId ELSE task[t].before.id,
                                                   status |-> "CONNECTED", removed |-> FALSE])
           /\ task' = [task EXCEPT ![t].id = row'.id, ![t].at = "persist"]
  <2>1. /\ task'[t].id = row'.id /\ task'[t].at = "persist" /\ task'[t].token = task[t].token
        /\ task'[t].before = task[t].before
    BY <1>0, <1>3 DEF TaskRecord
  <2>2. row # NoRow => row'.id = row.id
    BY <1>0, <1>3, Constants DEF Upserted
  <2> QED BY <1>1, <1>3, <2>1, <2>2
<1> QED
  BY <1>2, <1>3 DEF Connect, EndSignIn

(* Every step of a command keeps what is known of the commands at work.     *)
LEMMA BStep ==
  ASSUME TInv, BInv, NEW t \in Tasks, Consent(t) \/ Step(t)
  PROVE  BInv'
<1> USE Constants
<1>0. /\ CommandOK(t) /\ AtWork(t) /\ row \in Rows /\ Fits(task[t], known) /\ faults \in Nat
  BY DEF TInv, StoresOK, TasksOK, BInv
<1>1. CASE \/ FastPath(t) \/ Enter(t) \/ FindForRefresh(t) \/ MarkRefreshing(t)
           \/ LoadRefreshToken(t) \/ Refreshed(t) \/ RefreshRejected(t) \/ RefreshFails(t)
           \/ Publish(t) \/ UseToken(t) \/ MarkInvalidate(t) \/ MarkEnter(t) \/ MarkWrite(t)
           \/ SignInFails(t) \/ InvalidateRenewed(t) \/ CheckJobs(t)
  <2>1. /\ task'[t].at \notin SignInPlaces
        /\ row' = row \/ (row # NoRow /\ row'.id = row.id)
    BY <1>1, OtherShapes
  <2>2. CommandOK(t)' /\ AtWork(t)'
    BY <2>1 DEF CommandOK, AtWork, SignInPlaces, ConnectPlaces
  <2> QED BY <2>1, <2>2, BFrame
<1>2. CASE Consent(t) \/ FindPrior(t) \/ FindForReauth(t)
  <2>1. CommandOK(t)' /\ AtWork(t)' /\ row' = row
    BY <1>0, <1>2, LookShapes DEF CommandOK, AtWork, SignInPlaces, ConnectPlaces, ReauthPlaces
  <2> QED BY <2>1, BFrame
<1>3. CASE Connect(t)
  <2>1. task[t].at \in SignInPlaces
    BY <1>3, ConnectShapes DEF SignInPlaces, ConnectPlaces
  <2>2. CommandOK(t)' /\ AtWork(t)'
    BY <1>0, <1>3, <2>1, ConnectShapes, Ends DEF CommandOK, AtWork
  <2> QED BY <2>1, <2>2, BFrame
<1>4. CASE PersistCredential(t)
  <2>0. row' = row /\ task[t].at = "persist" /\ task[t].token > 0
    BY <1>0, <1>4 DEF PersistCredential, CommandOK, SignInPlaces, ConnectPlaces
  <2>1. CASE Answer(t)
    BY <2>0, <2>1, Ends, BFrame
  <2>2. CASE Fault /\ Go(t, "rollback")
    <3>1. /\ task'[t].at = "rollback" /\ task'[t].id = task[t].id
          /\ task'[t].token = task[t].token /\ faults' > 0
      BY <1>0, <2>2, Moved DEF Fault
    <3>2. CommandOK(t)' /\ AtWork(t)'
      BY <1>0, <2>0, <3>1 DEF CommandOK, AtWork
    <3> QED BY <2>0, <3>2, BFrame
  <2> QED BY <1>4, <2>1, <2>2 DEF PersistCredential, EndSignIn
<1>5. CASE Rollback(t) \/ SaveCredential(t) \/ Reconnect(t)
  <2>1. task[t].at \in SignInPlaces
    BY <1>5 DEF Rollback, SaveCredential, Reconnect, SignInPlaces, ConnectPlaces, ReauthPlaces
  <2>2. Answer(t) \/ \E p \in {"reconnect", "renewed"} : Go(t, p)
    BY <1>5 DEF Rollback, SaveCredential, Reconnect, EndSignIn
  <2>3. CommandOK(t)' /\ AtWork(t)'
    <3>1. ASSUME NEW p \in {"reconnect", "renewed"}, Go(t, p) PROVE CommandOK(t)' /\ AtWork(t)'
      BY <1>0, <2>1, <3>1, Moved DEF CommandOK, AtWork
    <3> QED BY <2>2, <3>1, Ends
  <2> QED BY <2>1, <2>3, BFrame
<1>6. CASE DeleteCredential(t)
  <2>1. row' = row /\ (Answer(t) \/ Go(t, "leave"))
    BY <1>6 DEF DeleteCredential
  <2>2. CommandOK(t)' /\ AtWork(t)'
    <3>1. Go(t, "leave") => CommandOK(t)' /\ AtWork(t)'
      BY Moved DEF CommandOK, AtWork, SignInPlaces, ConnectPlaces, ReauthPlaces
    <3> QED BY <2>1, <3>1, Ends
  <2> QED BY <2>1, <2>2, BFrame
<1>7. CASE LeaveRow(t)
  <2>1. Answer(t) /\ task[t].id \in Ids /\ task[t].command \in {"disconnect", "remove", "delete"}
    BY <1>0, <1>7 DEF LeaveRow, Fits, LeavePlaces
  <2>2. \/ row' = row \/ SetStatus(task[t].id, "DISCONNECTED") \/ SoftRemove(task[t].id)
        \/ row' = IF row.id = task[t].id THEN NoRow ELSE row
    BY <1>7, <2>1 DEF LeaveRow
  <2>3. row' \in {row, NoRow} \/ (row # NoRow /\ row'.id = row.id)
    BY <1>0, <2>1, <2>2, StatusWritten DEF NoRow
  <2> QED BY <2>1, <2>3, Ends, BFrame
<1> QED
  BY <1>1, <1>2, <1>3, <1>4, <1>5, <1>6, <1>7 DEF Step

(* And so does every other step.                                            *)
LEMMA BNext == TInv /\ BInv /\ [Next]_vars => BInv'
<1> SUFFICES ASSUME TInv, BInv, [Next]_vars PROVE BInv'
  OBVIOUS
<1>1. ASSUME NEW t \in Tasks, AskToken(t) \/ SignIn(t) \/ Leave(t) PROVE BInv'
  BY <1>1, Begins DEF BInv, CommandOK, AtWork, SignInPlaces, ConnectPlaces, ReauthPlaces
<1>2. CASE Expire \/ Revoke \/ JobsChange \/ UNCHANGED vars
  <2>1. task' = task /\ row' = row /\ faults' = faults
    BY <1>2 DEF Expire, Revoke, JobsChange, vars, stores
  <2> QED BY <2>1 DEF BInv, CommandOK, AtWork
<1> QED
  BY <1>1, <1>2, BStep DEF Next

(* Where an account is only used. The invariant: an account that is shown   *)
(* without a credential is one that a command is at work on.                *)

Shown == row # NoRow /\ ~row.removed

Witnessed == faults <= 1 /\ Shown /\ keychain[row.id] = 0 => Between(row.id)

KeptOK(t) ==
  /\ task[t].at \in {"upsert", "persist", "rollback"} /\ task[t].before # NoRow /\ faults <= 1
       => row.id = task[t].before.id /\ keychain[row.id] # 0
  /\ task[t].at \in {"persist", "rollback", "save", "reconnect"} => row.id = task[t].id
  /\ task[t].at = "reconnect" => keychain[task[t].id] # 0

UInv == (\A t \in Tasks : KeptOK(t)) /\ Witnessed

(* Before the first command there is no account.                            *)
LEMMA UInit == Init => UInv
<1> SUFFICES ASSUME Init PROVE UInv
  OBVIOUS
<1>1. \A t \in Tasks : task[t].at = "idle"
  BY DEF Init, Idle
<1> QED
  BY <1>1 DEF Init, UInv, KeptOK, Witnessed, Shown

(* Which commands a session has: nobody uses an account that is taken away. *)
LEMMA Apart ==
  ASSUME SessionsApart, TInv, OfSession, NEW t \in Tasks
  PROVE  /\ Leaving => task[t].at \notin TokenPlaces /\ task[t].at \notin ReauthPlaces
         /\ task[t].at \in LeavePlaces => Leaving
<1>1. /\ session \in Sessions /\ Fits(task[t], known)
      /\ task[t].command \in session.commands \cup {"none"}
  BY DEF TInv, StoresOK, TasksOK, OfSession
<1>2. Leaving => session.commands \cap {"job", "browse", "reauthenticate"} = {}
  BY <1>1 DEF SessionsApart, Leaving
<1>3. Leaving => task[t].at \notin TokenPlaces /\ task[t].at \notin ReauthPlaces
  BY <1>1, <1>2 DEF Fits
<1>4. task[t].at \in LeavePlaces => Leaving
  BY <1>1 DEF Fits, Leaving
<1> QED
  BY <1>3, <1>4

(* What every step of such a session leaves alone: the row keeps its id,    *)
(* and no credential is lost.                                               *)
Keeps == /\ row # NoRow => row'.id = row.id
         /\ \A i \in Ids : keychain[i] # 0 => keychain'[i] # 0

(* The frame of the proof: one command steps, and only what it does itself  *)
(* has to be looked at.                                                     *)
LEMMA Frame ==
  ASSUME TInv, UInv, NEW t \in Tasks, Consent(t) \/ Step(t), KeptOK(t)', Keeps, Witnessed'
  PROVE  UInv'
<1>1. /\ \A u \in Tasks : u # t => task'[u] = task[u]
      /\ row \in Rows /\ task \in [Tasks -> TaskRecord] /\ faults \in Nat
      /\ \A u \in Tasks : Fits(task[u], known)
  BY StepShape, Constants DEF Only, TInv, StoresOK, TasksOK
<1>2. faults' \in Nat /\ faults' >= faults
  BY <1>1, FaultSteps DEF Fault
<1>3. ASSUME NEW u \in Tasks, u # t PROVE KeptOK(u)'
  <2>0. KeptOK(u) /\ task'[u] = task[u] /\ task[u] \in TaskRecord
    BY <1>1, <1>3 DEF UInv
  <2>1. task[u].at \in {"persist", "rollback", "save", "reconnect"} => task[u].id \in Ids
    BY <1>1 DEF Fits, ReauthPlaces
  <2>2. task[u].before # NoRow => task[u].before.id \in Ids
    BY <2>0, Constants DEF TaskRecord
  <2>3. \A i \in Ids : row.id = i => row'.id = i
    BY <2>0, Constants DEF Keeps, NoRow
  <2>4. task'[u].at \in {"persist", "rollback", "save", "reconnect"} => row'.id = task'[u].id
    BY <2>0, <2>1, <2>3 DEF KeptOK
  <2>5. task'[u].at = "reconnect" => keychain'[task'[u].id] # 0
    BY <2>0, <2>1 DEF KeptOK, Keeps
  <2>6. task'[u].at \in {"upsert", "persist", "rollback"} /\ task'[u].before # NoRow /\ faults' <= 1
          => row'.id = task'[u].before.id /\ keychain'[row'.id] # 0
    <3> SUFFICES ASSUME task[u].at \in {"upsert", "persist", "rollback"}, task[u].before # NoRow,
                        faults' <= 1
                 PROVE  row'.id = task[u].before.id /\ keychain'[row'.id] # 0
      BY <2>0
    <3>1. faults <= 1
      BY <1>1, <1>2
    <3>2. row.id = task[u].before.id /\ keychain[row.id] # 0
      BY <2>0, <3>1 DEF KeptOK
    <3> QED BY <2>0, <2>2, <2>3, <3>2 DEF Keeps
  <2> QED BY <2>4, <2>5, <2>6 DEF KeptOK
<1> QED
  BY <1>3 DEF UInv

(* A step that neither shows an account nor takes a credential away, of a   *)
(* command that is not between the stores of the account, or stays there.   *)
LEMMA Calm ==
  ASSUME TInv, Witnessed, NEW t \in Tasks, Consent(t) \/ Step(t),
         row'.id = row.id, Shown' => Shown, Shown => (keychain'[row.id] = 0 => keychain[row.id] = 0),
         \/ task[t].at \notin Betweens \/ task[t].id # row.id
         \/ task'[t].at \in Betweens /\ task'[t].id = task[t].id
  PROVE  Witnessed'
<1> SUFFICES ASSUME faults' <= 1, Shown', keychain'[row'.id] = 0 PROVE Between(row.id)'
  BY DEF Witnessed, Between
<1>1. \A u \in Tasks : u # t => task'[u] = task[u]
  BY StepShape DEF Only
<1>2. faults <= 1
  <2>1. faults' = faults \/ Fault
    BY FaultSteps
  <2>2. faults \in Nat
    BY Constants DEF TInv, StoresOK
  <2> QED BY <2>1, <2>2 DEF Fault
<1>3. PICK u \in Tasks : task[u].id = row.id /\ task[u].at \in Betweens
  BY <1>2 DEF Witnessed, Between, Betweens
<1>4. task'[u].id = row.id /\ task'[u].at \in Betweens
  BY <1>1, <1>3
<1> QED
  BY <1>4 DEF Between, Betweens

(* A command that ends has nothing more to keep.                            *)
LEMMA Kept ==
  ASSUME NEW t \in Tasks, task'[t].at \notin SignInPlaces
  PROVE  KeptOK(t)'
BY DEF KeptOK, SignInPlaces, ConnectPlaces, ReauthPlaces

(* The steps of a refresh and of a mark, and the ends of a command.         *)
LEMMA OtherSteps ==
  ASSUME TInv, UInv, NEW t \in Tasks,
         \/ FastPath(t) \/ Enter(t) \/ FindForRefresh(t) \/ MarkRefreshing(t)
         \/ LoadRefreshToken(t) \/ Refreshed(t) \/ RefreshRejected(t) \/ RefreshFails(t)
         \/ Publish(t) \/ UseToken(t) \/ MarkInvalidate(t) \/ MarkEnter(t) \/ MarkWrite(t)
         \/ SignInFails(t) \/ InvalidateRenewed(t) \/ CheckJobs(t)
  PROVE  UInv'
<1>1. /\ task'[t].at \notin SignInPlaces
      /\ task[t].at \notin Betweens /\ keychain' = keychain
      /\ row' = row \/ (row'.id = row.id /\ row'.removed = row.removed /\ row # NoRow)
  BY OtherShapes
<1>2. Step(t)
  BY DEF Step
<1>3. Shown' => Shown
  BY <1>1 DEF Shown
<1>4. Witnessed'
  BY <1>1, <1>2, <1>3, Calm DEF UInv
<1>5. Keeps
  BY <1>1 DEF Keeps
<1> QED
  BY <1>1, <1>2, <1>4, <1>5, Kept, Frame

(* A sign-in that looks at the row: what it remembers of the account is     *)
(* there, because no other sign-in is between the stores.                   *)
LEMMA LookSteps ==
  ASSUME SessionsApart, ~Leaving, TInv, OfSession, UInv, NEW t \in Tasks,
         Consent(t) \/ FindPrior(t) \/ FindForReauth(t)
  PROVE  UInv'
<1>0. /\ row' = row /\ keychain' = keychain /\ faults' = faults
      /\ task[t].at \in {"consent", "prior", "match"}
      /\ (Consent(t) \/ Step(t)) /\ \A u \in Tasks : Fits(task[u], known)
  BY LookShapes DEF Step, TInv, TasksOK
<1>1. Witnessed'
  BY <1>0, Calm DEF UInv, Betweens, Shown
<1>2. KeptOK(t)'
  <2>1. CASE task'[t].at = "upsert" /\ task'[t].before = Visible /\ task[t].at = "prior"
    <3>1. ASSUME Visible # NoRow, faults <= 1 PROVE row.id = Visible.id /\ keychain[row.id] # 0
      <4>1. row = Visible /\ Shown
        BY <3>1 DEF Visible, Shown
      <4>2. ASSUME NEW u \in Tasks, task[u].at \in Betweens PROVE FALSE
        <5>1. task[u].at # "leave"
          BY Apart DEF LeavePlaces
        <5>2. task[u].at \in SignInPlaces /\ task[t].at \in SignInPlaces
          BY <2>1, <4>2, <5>1 DEF Betweens, SignInPlaces, ConnectPlaces
        <5>3. u = t
          BY <5>2, OneSignIn
        <5> QED BY <2>1, <4>2, <5>3 DEF Betweens
      <4> QED BY <3>1, <4>1, <4>2 DEF UInv, Witnessed, Between, Betweens
    <3> QED BY <1>0, <2>1, <3>1 DEF KeptOK
  <2>2. CASE task'[t].at \in {"prior", "match", "idle"}
    BY <2>2 DEF KeptOK
  <2>3. CASE task'[t].at = "save" /\ row.id = task'[t].id
    BY <1>0, <2>3 DEF KeptOK
  <2> QED BY <2>1, <2>2, <2>3, LookShapes
<1>3. Keeps
  BY <1>0 DEF Keeps
<1> QED
  BY <1>0, <1>1, <1>2, <1>3, Frame

(* The upsert of a connection: the account it shows is the one the          *)
(* connection is at work on.                                                *)
LEMMA ConnectStep ==
  ASSUME TInv, UInv, NEW t \in Tasks, Connect(t)
  PROVE  UInv'
<1>0. /\ task[t] \in TaskRecord /\ Step(t) /\ KeptOK(t) /\ task[t].at = "upsert"
      /\ keychain' = keychain
  BY ConnectShapes DEF TInv, TasksOK, Step, UInv
<1>1. CASE /\ task'[t].id = row'.id /\ task'[t].at = "persist" /\ faults' = faults
           /\ task'[t].token = task[t].token /\ task'[t].before = task[t].before
           /\ row # NoRow => row'.id = row.id
  <2>1. ASSUME task[t].before # NoRow, faults <= 1
        PROVE  row'.id = task[t].before.id /\ keychain'[row'.id] # 0
    <3>1. task[t].before.id # 0
      BY <1>0, <2>1, Constants DEF TaskRecord
    <3>2. row.id = task[t].before.id /\ keychain[row.id] # 0
      BY <1>0, <2>1 DEF KeptOK
    <3>3. row # NoRow
      BY <3>1, <3>2 DEF NoRow
    <3> QED BY <1>0, <1>1, <3>2, <3>3
  <2>2. KeptOK(t)' /\ Keeps
    BY <1>0, <1>1, <2>1 DEF KeptOK, Keeps
  <2>3. Witnessed'
    BY <1>1 DEF Witnessed, Between
  <2> QED BY <1>0, <2>2, <2>3, Frame
<1>2. CASE row' = row /\ Answer(t)
  <2>1. Witnessed'
    BY <1>0, <1>2, Calm DEF UInv, Betweens, Shown
  <2>2. Keeps
    BY <1>0, <1>2 DEF Keeps
  <2>3. task'[t].at \notin SignInPlaces
    BY <1>2, Ends DEF SignInPlaces, ConnectPlaces, ReauthPlaces
  <2> QED BY <1>0, <2>1, <2>2, <2>3, Kept, Frame
<1> QED
  BY <1>1, <1>2, ConnectShapes

(* The credential of a connection is stored, found or missed.               *)
LEMMA PersistStep ==
  ASSUME TInv, BInv, UInv, NEW t \in Tasks, PersistCredential(t)
  PROVE  UInv'
<1>0. /\ Step(t) /\ CommandOK(t) /\ KeptOK(t) /\ task[t].at = "persist" /\ task[t].token > 0
      /\ row' = row /\ keychain \in [Ids -> Grants] /\ row.id = task[t].id /\ task[t].id \in Ids
      /\ faults \in Nat /\ Witnessed
  BY Constants DEF TInv, StoresOK, TasksOK, Step, BInv, UInv, PersistCredential, CommandOK, KeptOK,
    Fits, SignInPlaces, ConnectPlaces
<1>1. CASE Answer(t) /\ keychain'[task[t].id] # 0 /\ (\A i \in Ids : i # task[t].id => keychain'[i] = keychain[i])
  <2>1. Witnessed' /\ Keeps
    BY <1>0, <1>1 DEF Witnessed, Keeps
  <2>2. task'[t].at \notin SignInPlaces
    BY <1>1, Ends DEF SignInPlaces, ConnectPlaces, ReauthPlaces
  <2> QED BY <1>0, <2>1, <2>2, Kept, Frame
<1>2. CASE Fault /\ Go(t, "rollback") /\ keychain' = keychain
  <2>1. /\ task'[t].at = "rollback" /\ task'[t].id = task[t].id
        /\ task'[t].before = task[t].before /\ faults' = faults + 1
    BY <1>2, Moved DEF Fault
  <2>2. Witnessed'
    BY <1>0, <1>2, <2>1, Calm DEF Betweens, Shown
  <2>3. KeptOK(t)' /\ Keeps
    BY <1>0, <1>2, <2>1 DEF KeptOK, Keeps
  <2> QED BY <1>0, <2>2, <2>3, Frame
<1> QED
  <2>1. CASE SetCredential(task[t].id, task[t].token) /\ Answer(t)
    BY <1>0, <1>1, <2>1 DEF SetCredential
  <2>2. CASE keychain' = keychain /\ keychain[task[t].id] # 0 /\ Answer(t)
    BY <1>1, <2>2
  <2> QED BY <1>2, <2>1, <2>2 DEF PersistCredential, EndSignIn

(* The rollback restores the account that was there, which has its          *)
(* credential, or takes the new one away; only a second fault leaves it.    *)
LEMMA RollbackStep ==
  ASSUME TInv, BInv, UInv, NEW t \in Tasks, Rollback(t)
  PROVE  UInv'
<1> USE Constants
<1>0. /\ task[t] \in TaskRecord /\ row \in Rows /\ Step(t) /\ Answer(t) /\ keychain' = keychain
      /\ task[t].at = "rollback" /\ task[t].id \in Ids /\ faults \in Nat /\ faults > 0
      /\ KeptOK(t)
  BY DEF TInv, StoresOK, TasksOK, Step, UInv, BInv, CommandOK, Rollback, EndSignIn, Fits
<1>1. row.id = task[t].id /\ row # NoRow
  BY <1>0 DEF KeptOK, NoRow
<1>2. \/ task[t].before # NoRow /\ row' = Upserted(task[t].before) /\ faults' = faults
      \/ keychain[task[t].id] # 0 /\ row' = row
      \/ SoftRemove(task[t].id)
      \/ Fault /\ row' = row
  BY DEF Rollback
<1>3. row'.id = row.id
  <2>1. CASE row' = Upserted(task[t].before)
    BY <1>0, <1>1, <2>1 DEF Upserted
  <2> QED BY <1>0, <1>2, <2>1, StatusWritten
<1>4. Keeps
  BY <1>0, <1>3 DEF Keeps
<1>5. Witnessed'
  <2> SUFFICES ASSUME faults' <= 1, Shown', keychain[row.id] = 0 PROVE FALSE
    BY <1>0, <1>3 DEF Witnessed
  <2>1. CASE task[t].before # NoRow /\ faults' = faults
    BY <1>0, <2>1 DEF KeptOK
  <2>2. CASE keychain[task[t].id] # 0
    BY <1>1, <2>2
  <2>3. CASE SoftRemove(task[t].id)
    BY <1>0, <1>1, <2>3, StatusWritten DEF Shown
  <2>4. CASE Fault
    BY <1>0, <2>4 DEF Fault
  <2> QED BY <1>2, <2>1, <2>2, <2>3, <2>4
<1>6. task'[t].at \notin SignInPlaces
  BY <1>0, Ends DEF SignInPlaces, ConnectPlaces, ReauthPlaces
<1> QED
  BY <1>0, <1>4, <1>5, <1>6, Kept, Frame

(* Reauthentication writes the credential before the row.                   *)
LEMMA ReauthSteps ==
  ASSUME TInv, BInv, UInv, NEW t \in Tasks, SaveCredential(t) \/ Reconnect(t)
  PROVE  UInv'
<1> USE Constants
<1>0. /\ Step(t) /\ task[t].at \in {"save", "reconnect"} /\ task[t].token > 0 /\ KeptOK(t)
      /\ row \in Rows /\ keychain \in [Ids -> Grants] /\ task[t].id \in Ids /\ row.id = task[t].id /\ row # NoRow
  <2>1. /\ Step(t) /\ task[t].at \in {"save", "reconnect"} /\ CommandOK(t) /\ KeptOK(t)
        /\ row \in Rows /\ keychain \in [Ids -> Grants] /\ Fits(task[t], known)
    BY DEF TInv, StoresOK, TasksOK, Step, BInv, UInv, SaveCredential, Reconnect
  <2>2. task[t].at \in ReauthPlaces /\ task[t].id \in Ids
    BY <2>1 DEF ReauthPlaces, Fits
  <2>3. task[t].token > 0 /\ row.id = task[t].id
    BY <2>1, <2>2 DEF CommandOK, KeptOK, SignInPlaces
  <2> QED BY <2>1, <2>2, <2>3 DEF NoRow
<1>a. ASSUME Answer(t) PROVE KeptOK(t)'
  BY <1>a, Ends, Kept DEF SignInPlaces, ConnectPlaces, ReauthPlaces
<1>1. CASE SaveCredential(t)
  <2>0. row' = row /\ task[t].at = "save"
    BY <1>1 DEF SaveCredential
  <2>1. \/ Answer(t) /\ keychain' = keychain
        \/ /\ Go(t, "reconnect") /\ keychain'[task[t].id] # 0
           /\ \A i \in Ids : i # task[t].id => keychain'[i] = keychain[i]
    BY <1>0, <1>1 DEF SaveCredential, SetCredential, EndSignIn
  <2>2. CASE Answer(t) /\ keychain' = keychain
    <3>1. Witnessed'
      BY <1>0, <2>0, <2>2, Calm DEF UInv, Betweens, Shown
    <3>2. Keeps
      BY <2>0, <2>2 DEF Keeps
    <3> QED BY <1>0, <1>a, <2>2, <3>1, <3>2, Frame
  <2>3. CASE /\ Go(t, "reconnect") /\ keychain'[task[t].id] # 0
             /\ \A i \in Ids : i # task[t].id => keychain'[i] = keychain[i]
    <3>1. /\ task'[t].at = "reconnect" /\ task'[t].id = task[t].id
      BY <2>3, Moved
    <3>2. Witnessed'
      BY <1>0, <2>0, <2>3 DEF Witnessed
    <3>3. KeptOK(t)' /\ Keeps
      BY <1>0, <2>0, <2>3, <3>1 DEF KeptOK, Keeps
    <3> QED BY <1>0, <3>2, <3>3, Frame
  <2> QED BY <2>1, <2>2, <2>3
<1>2. CASE Reconnect(t)
  <2>0. keychain' = keychain /\ task[t].at = "reconnect" /\ keychain[row.id] # 0
    BY <1>0, <1>2 DEF Reconnect, KeptOK
  <2>1. row'.id = row.id
    BY <1>0, <1>2 DEF Reconnect, Upserted
  <2>2. Witnessed' /\ Keeps
    BY <2>0, <2>1 DEF Witnessed, Keeps
  <2>3. KeptOK(t)'
    <3>1. Go(t, "renewed") => KeptOK(t)'
      BY Moved DEF KeptOK
    <3> QED BY <1>2, <1>a, <3>1 DEF Reconnect, EndSignIn
  <2> QED BY <1>0, <2>2, <2>3, Frame
<1> QED
  BY <1>1, <1>2

(* The invariant of an account that is only used is inductive.              *)
LEMMA UNext == SessionsApart /\ ~Leaving /\ TInv /\ OfSession /\ BInv /\ UInv /\ [Next]_vars => UInv'
<1> SUFFICES ASSUME SessionsApart, ~Leaving, TInv, OfSession, BInv, UInv, [Next]_vars PROVE UInv'
  OBVIOUS
<1>1. ASSUME NEW t \in Tasks, Consent(t) \/ Step(t) PROVE UInv'
  <2>1. ~DeleteCredential(t) /\ ~LeaveRow(t)
    BY Apart DEF DeleteCredential, LeaveRow, LeavePlaces
  <2> QED
    BY <1>1, <2>1, OtherSteps, LookSteps, ConnectStep, PersistStep, RollbackStep, ReauthSteps
    DEF Step
<1>2. ASSUME NEW t \in Tasks, AskToken(t) \/ SignIn(t) \/ Leave(t) PROVE UInv'
  <2>0. /\ \A u \in Tasks : u # t => task'[u] = task[u]
        /\ task'[t].at \in {"get", "consent", "check"} /\ task[t].at = "idle"
        /\ row' = row /\ keychain' = keychain /\ faults' = faults
    <3>1. task[t] = Idle
      BY <1>2 DEF AskToken, SignIn, Leave
    <3> QED BY <1>2, <3>1, Begins DEF Idle
  <2>1. \A u \in Tasks : KeptOK(u)'
    <3> SUFFICES ASSUME NEW u \in Tasks PROVE KeptOK(u)'
      OBVIOUS
    <3>1. CASE u = t
      BY <2>0, <3>1 DEF KeptOK
    <3>2. CASE u # t
      BY <2>0, <3>2 DEF UInv, KeptOK
    <3> QED BY <3>1, <3>2
  <2>2. Witnessed'
    BY <2>0 DEF UInv, Witnessed, Shown, Between
  <2> QED BY <2>1, <2>2 DEF UInv
<1>3. CASE Expire \/ Revoke \/ JobsChange \/ UNCHANGED vars
  <2>1. task' = task /\ row' = row /\ keychain' = keychain /\ faults' = faults
    BY <1>3 DEF Expire, Revoke, JobsChange, vars, stores
  <2> QED BY <2>1 DEF UInv, KeptOK, Witnessed, Shown, Between
<1> QED
  BY <1>1, <1>2, <1>3 DEF Next

(* Where an account is taken away. No step strands it that is not one of    *)
(* the two named ones: first the steps that do not touch the stores, of a   *)
(* command that is not at work on the account there is, ...                 *)
Strands == Stranded' /\ faults' <= 1 => Stranded \/ LeaveRowFails \/ DisconnectedRollsBack

LEMMA Untouched ==
  ASSUME TInv, NEW t \in Tasks, Consent(t) \/ Step(t), row' = row,
         row # NoRow => keychain'[row.id] = keychain[row.id],
         task[t].at \notin Betweens \/ task[t].id # row.id
  PROVE  Strands
<1>1. \A u \in Tasks : u # t => task'[u] = task[u]
  BY StepShape DEF Only
<1>2. Between(row.id) => Between(row.id)'
  BY <1>1 DEF Between, Betweens
<1> QED
  BY <1>2 DEF Strands, Stranded, Visible

(* ... then the connection between the two stores, ...                      *)
LEMMA ConnectStrands ==
  ASSUME Leaving, TInv, BInv, NEW t \in Tasks,
         Connect(t) \/ PersistCredential(t) \/ Rollback(t)
  PROVE  Strands
<1> USE Constants
<1>0. /\ Step(t) /\ row \in Rows /\ keychain \in [Ids -> Grants] /\ CommandOK(t) /\ AtWork(t)
      /\ Fits(task[t], known) /\ task[t] \in TaskRecord /\ faults \in Nat
  BY DEF Step, TInv, StoresOK, TasksOK, BInv
<1>1. CASE Connect(t)
  <2>1. CASE row' = row /\ Answer(t)
    BY <1>0, <1>1, <2>1, ConnectShapes, Untouched DEF Betweens
  <2>2. CASE task'[t].id = row'.id /\ task'[t].at = "persist"
    BY <2>2 DEF Strands, Stranded, Between
  <2> QED BY <1>1, <2>1, <2>2, ConnectShapes
<1>2. CASE PersistCredential(t)
  <2>0. /\ row' = row /\ (row = NoRow \/ row.id = task[t].id) /\ task[t].id \in Ids
        /\ task[t].token > 0
    BY <1>0, <1>2 DEF PersistCredential, AtWork, CommandOK, Fits, SignInPlaces, ConnectPlaces
  <2>1. CASE keychain'[task[t].id] # 0
    BY <2>0, <2>1 DEF Strands, Stranded, Visible
  <2>2. CASE Go(t, "rollback")
    <3>1. task'[t].at = "rollback" /\ task'[t].id = task[t].id
      BY <2>2, Moved
    <3> QED BY <2>0, <3>1 DEF Strands, Stranded, Visible, Between
  <2>3. keychain'[task[t].id] # 0 \/ Go(t, "rollback")
    BY <1>0, <1>2, <2>0 DEF PersistCredential, SetCredential
  <2> QED BY <2>1, <2>2, <2>3
<1>3. CASE Rollback(t)
  <2>0. /\ row = NoRow \/ row.id = task[t].id
        /\ task[t].id \in Ids /\ faults > 0 /\ keychain' = keychain /\ task[t].at = "rollback"
        /\ task'[t] = Idle
    BY <1>0, <1>3, Shapes DEF Rollback, EndSignIn, AtWork, CommandOK, Fits
  <2>1. \/ task[t].before # NoRow /\ row' = Upserted(task[t].before)
        \/ keychain[task[t].id] # 0 /\ row' = row
        \/ SoftRemove(task[t].id)
        \/ Fault
    BY <1>3 DEF Rollback
  <2>2. CASE task[t].before # NoRow
    BY <2>0, <2>2 DEF Strands, DisconnectedRollsBack
  <2>3. CASE keychain[task[t].id] # 0 /\ row' = row
    BY <2>0, <2>3 DEF Strands, Stranded, Visible
  <2>4. CASE SoftRemove(task[t].id)
    <3>1. row'.removed \/ (row' = row /\ row = NoRow)
      BY <1>0, <2>0, <2>4, StatusWritten DEF NoRow
    <3> QED BY <3>1 DEF Strands, Stranded, Visible
  <2>5. CASE Fault
    BY <1>0, <2>0, <2>5 DEF Strands, Fault
  <2> QED BY <2>1, <2>2, <2>3, <2>4, <2>5
<1> QED
  BY <1>1, <1>2, <1>3

(* ... and the disconnection, the removal and the deletion.                 *)
LEMMA LeaveStrands ==
  ASSUME TInv, NEW t \in Tasks, DeleteCredential(t) \/ LeaveRow(t)
  PROVE  Strands
<1> USE Constants
<1>0. /\ Step(t) /\ row \in Rows /\ keychain \in [Ids -> Grants] /\ Fits(task[t], known)
      /\ task[t] \in TaskRecord /\ faults \in Nat
  BY DEF Step, TInv, StoresOK, TasksOK
<1>1. task[t].id \in Ids /\ task[t].command \in {"disconnect", "remove", "delete"}
  BY <1>0 DEF DeleteCredential, LeaveRow, Fits, LeavePlaces
<1>2. CASE DeleteCredential(t)
  <2>0. row' = row /\ task[t].at = "forget"
    BY <1>2 DEF DeleteCredential
  <2>1. CASE keychain' = keychain \/ row.id # task[t].id
    <3>1. row # NoRow => keychain'[row.id] = keychain[row.id]
      <4>1. row # NoRow => row.id \in Ids
        BY <1>0
      <4> QED BY <1>0, <1>2, <2>1, <4>1 DEF DeleteCredential, SetCredential
    <3> QED BY <1>0, <2>0, <3>1, Untouched DEF Betweens
  <2>2. CASE Go(t, "leave") /\ row.id = task[t].id
    <3>1. task'[t].at = "leave" /\ task'[t].id = task[t].id
      BY <2>2, Moved
    <3> QED BY <2>0, <2>2, <3>1 DEF Strands, Stranded, Between
  <2> QED BY <1>2, <2>1, <2>2 DEF DeleteCredential
<1>3. CASE LeaveRow(t)
  <2>0. keychain' = keychain /\ task[t].at = "leave"
    BY <1>3 DEF LeaveRow
  <2>1. \/ SetStatus(task[t].id, "DISCONNECTED") \/ SoftRemove(task[t].id)
        \/ row' = IF row.id = task[t].id THEN NoRow ELSE row
        \/ Fault /\ row' = row
    BY <1>1, <1>3 DEF LeaveRow
  <2>2. CASE row.id # task[t].id
    <3>1. row' = row
      BY <1>0, <1>1, <2>1, <2>2, StatusWritten
    <3> QED BY <1>0, <2>0, <2>2, <3>1, Untouched
  <2>3. CASE row.id = task[t].id /\ Fault
    <3>1. faults' > faults
      BY <1>0, <2>3 DEF Fault
    <3> QED BY <2>0, <2>3, <3>1 DEF Strands, LeaveRowFails
  <2>4. CASE row.id = task[t].id /\ ~Fault
    <3>1. row'.status = "DISCONNECTED" \/ row' = NoRow
      BY <1>0, <1>1, <2>1, <2>4, StatusWritten
    <3> QED BY <3>1 DEF Strands, Stranded, Visible, NoRow
  <2> QED BY <2>2, <2>3, <2>4
<1> QED
  BY <1>2, <1>3

(* Together: no step but the two strands an account.                        *)
LEMMA StrandsNext ==
  SessionsApart /\ Leaving /\ TInv /\ OfSession /\ BInv /\ [Next]_vars => Strands
<1> SUFFICES ASSUME SessionsApart, Leaving, TInv, OfSession, BInv, [Next]_vars PROVE Strands
  OBVIOUS
<1>1. ASSUME NEW t \in Tasks, Consent(t) \/ Step(t) PROVE Strands
  <2>0. task[t].at \notin TokenPlaces /\ task[t].at \notin ReauthPlaces
    BY Apart
  <2>1. CASE \/ FastPath(t) \/ Enter(t) \/ FindForRefresh(t) \/ MarkRefreshing(t)
             \/ LoadRefreshToken(t) \/ Refreshed(t) \/ RefreshRejected(t) \/ RefreshFails(t)
             \/ Publish(t) \/ UseToken(t) \/ MarkInvalidate(t) \/ MarkEnter(t) \/ MarkWrite(t)
             \/ SignInFails(t) \/ InvalidateRenewed(t) \/ CheckJobs(t)
    BY <1>1, <2>0, <2>1, OtherShapes, Untouched
  <2>2. CASE Consent(t) \/ FindPrior(t) \/ FindForReauth(t)
    BY <1>1, <2>2, LookShapes, Untouched DEF Betweens
  <2>3. ~SaveCredential(t) /\ ~Reconnect(t)
    BY <2>0 DEF SaveCredential, Reconnect, ReauthPlaces
  <2> QED BY <1>1, <2>1, <2>2, <2>3, ConnectStrands, LeaveStrands DEF Step
<1>2. ASSUME NEW t \in Tasks, AskToken(t) \/ SignIn(t) \/ Leave(t) PROVE Strands
  <2>1. task[t].at = "idle"
    <3>1. task[t] = Idle
      BY <1>2 DEF AskToken, SignIn, Leave
    <3> QED BY <3>1 DEF Idle
  <2> QED BY <1>2, <2>1, Begins DEF Strands, Stranded, Visible, Between
<1>3. CASE Expire \/ Revoke \/ JobsChange \/ UNCHANGED vars
  <2>1. task' = task /\ row' = row /\ keychain' = keychain
    BY <1>3 DEF Expire, Revoke, JobsChange, vars, stores
  <2> QED BY <2>1 DEF Strands, Stranded, Visible, Between
<1> QED
  BY <1>1, <1>2, <1>3 DEF Next

(* One store failure strands no account, in a session that uses it or takes *)
(* it away, except by the row write of a disconnection that fails and by    *)
(* the rollback of an account that was disconnected.                        *)
THEOREM CredentialKept == SessionsApart => (Spec => ConnectedHasCredential)
<1> SUFFICES ASSUME SessionsApart PROVE Spec => ConnectedHasCredential
  OBVIOUS
<1> DEFINE Good == ~Leaving => UInv
<1>1. Init => Good
  BY UInit
<1>2. TInv /\ MInv /\ BInv /\ Good /\ [Next]_vars => Good'
  <2> SUFFICES ASSUME TInv, MInv, BInv, Good, [Next]_vars PROVE Good'
    OBVIOUS
  <2>1. OfSession /\ session' = session
    BY SessionNext DEF MInv
  <2>2. Leaving' <=> Leaving
    BY <2>1 DEF Leaving
  <2> QED BY <2>1, <2>2, UNext
<1>3. TInv /\ TInv' /\ MInv /\ BInv /\ Good' /\ [Next]_vars
        => [Stranded' /\ faults' <= 1 => Stranded \/ LeaveRowFails \/ DisconnectedRollsBack]_vars
  <2> SUFFICES ASSUME TInv, TInv', MInv, BInv, Good', [Next]_vars PROVE Strands
    BY DEF Strands
  <2>1. OfSession /\ session' = session
    BY SessionNext DEF MInv
  <2>2. CASE Leaving
    BY <2>1, <2>2, StrandsNext
  <2>3. CASE ~Leaving
    <3>1. UInv'
      BY <2>1, <2>3 DEF Leaving
    <3>2. ~(Stranded' /\ faults' <= 1)
      BY <3>1 DEF UInv, Witnessed, Shown, Stranded, Visible
    <3> QED BY <3>2 DEF Strands
  <2> QED BY <2>2, <2>3
<1> HIDE DEF Good
<1> QED
  BY <1>1, <1>2, <1>3, TInit, TNext, MInit, MNext, BInit, BNext, PTL
  DEF Spec, ConnectedHasCredential

================================================================================
