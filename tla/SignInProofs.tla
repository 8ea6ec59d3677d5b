------------------------------ MODULE SignInProofs ------------------------------
(***************************************************************************)
(* Theorems about the sign-in for every set of dialogs and of clients, and *)
(* every number of connections, faults and restarts.                       *)
(***************************************************************************)
EXTENDS SignIn, TLAPS

--------------------------------------------------------------------------------
(* The registration of an attempt, the lock and the command that runs       *)
(* belong together: whoever runs holds the lock, and whoever has it is      *)
(* registered.                                                              *)

Finishing == {"stored", "refused"}
Runs == Running \cup Finishing \cup {"none", "called", "connected", "failed"}
Uis  == {"new", "beginning", "registered", "connecting", "cancelling", "over"}

AttemptsOK ==
  /\ ui \in [Attempts -> Uis] /\ run \in [Attempts -> Runs]
  /\ closed \subseteq Attempts /\ cancelled \subseteq Attempts /\ done \subseteq Attempts
  /\ pending \in Attempts \cup {None} /\ reserved \in BOOLEAN
  /\ lock \in Attempts \cup {Free, "settings", "reauthenticate"}

ReservationOK ==
  reserved => /\ pending \in Attempts /\ pending \notin done /\ lock = pending
              /\ run[pending] \in {"none", "called"} /\ ui[pending] # "over"

RunOK(a) ==
  /\ run[a] \in Running => lock = a /\ pending = a /\ ~reserved
  /\ lock = a => \/ reserved /\ pending = a
                 \/ run[a] \in Running \cup Finishing
  /\ a \in done => lock # a /\ run[a] \notin Running \cup Finishing
  /\ run[a] \in Finishing => ~(reserved /\ pending = a)

DialogOK(a) ==
  /\ ui[a] \in {"new", "beginning", "registered"} => run[a] = "none"
  /\ ui[a] \in {"new", "beginning"} => pending # a /\ lock # a /\ a \notin done
  /\ ui[a] = "over" => run[a] \notin Running /\ lock # a
  /\ run[a] = "connected" => lock # a
  /\ lock = a => pending = a

LInv == /\ AttemptsOK /\ ReservationOK
        /\ \A a \in Attempts : RunOK(a) /\ DialogOK(a)

LEMMA LInit == Init => LInv
BY SignInAssumption DEF Init, LInv, AttemptsOK, ReservationOK, RunOK, DialogOK, Runs, Uis, Running, Finishing,
       Free, None

(* A step of one dialog or of its command that leaves the registration and  *)
(* the lock alone.                                                          *)
LEMMA Local ==
  ASSUME LInv, NEW a \in Attempts, NEW u \in Uis, NEW r \in Runs,
         ui' = [ui EXCEPT ![a] = u], run' = [run EXCEPT ![a] = r],
         closed' \subseteq Attempts, cancelled' \subseteq Attempts,
         UNCHANGED <<pending, reserved, done, lock>>,
         ReservationOK', RunOK(a)', DialogOK(a)'
  PROVE  LInv'
<1>1. AttemptsOK'
  BY DEF LInv, AttemptsOK
<1>2. \A b \in Attempts : b # a => ui'[b] = ui[b] /\ run'[b] = run[b]
  BY DEF LInv, AttemptsOK
<1>3. \A b \in Attempts : b # a => RunOK(b)'
  BY <1>2 DEF LInv, RunOK
<1>4. \A b \in Attempts : b # a => DialogOK(b)'
  BY <1>2 DEF LInv, DialogOK
<1>. QED BY <1>1, <1>3, <1>4 DEF LInv

LEMMA LBegin ==
  ASSUME LInv, NEW a \in Attempts, Begin(a)
  PROVE  LInv'
<1>1. CASE reserved
  <2>1. /\ ui' = [ui EXCEPT ![a] = "registered"] /\ lock' = a /\ pending' = a /\ reserved' = TRUE
        /\ done' = done \cup {pending} /\ UNCHANGED <<closed, cancelled, run>>
    BY <1>1 DEF Begin
  <2>2. pending # a /\ run[a] = "none" /\ a \notin done
    BY DEF Begin, LInv, DialogOK
  <2>3. pending \in Attempts /\ run[pending] \in {"none", "called"} /\ lock = pending
    BY <1>1 DEF LInv, ReservationOK
  <2>4. AttemptsOK'
    BY <2>1, <2>3 DEF LInv, AttemptsOK, Uis
  <2>5. ReservationOK'
    BY <2>1, <2>2 DEF LInv, AttemptsOK, ReservationOK
  <2>6. \A b \in Attempts : RunOK(b)'
    BY <2>1, <2>2, <2>3 DEF LInv, AttemptsOK, RunOK, Running, Finishing
  <2>7. \A b \in Attempts : DialogOK(b)'
    BY <2>1, <2>2, <2>3 DEF LInv, AttemptsOK, DialogOK, Running
  <2>. QED BY <2>4, <2>5, <2>6, <2>7 DEF LInv
<1>2. CASE ~reserved /\ lock = Free
  <2>1. /\ ui' = [ui EXCEPT ![a] = "registered"] /\ lock' = a /\ pending' = a /\ reserved' = TRUE
        /\ UNCHANGED <<done, closed, cancelled, run>>
    BY <1>2 DEF Begin
  <2>2. pending # a /\ run[a] = "none" /\ a \notin done
    BY DEF Begin, LInv, DialogOK
  <2>3. \A b \in Attempts : run[b] \notin Running
    BY <1>2, SignInAssumption DEF LInv, RunOK
  <2>. QED BY <2>1, <2>2, <2>3 DEF LInv, AttemptsOK, ReservationOK, RunOK, DialogOK, Uis, Running,
                                   Finishing
<1>3. CASE ~reserved /\ lock # Free
  <2>1. ui' = [ui EXCEPT ![a] = "over"] /\ reserved' = FALSE
        /\ UNCHANGED <<lock, pending, done, closed, cancelled, run>>
    BY <1>3 DEF Begin
  <2>2. run[a] = "none" /\ lock # a
    BY DEF Begin, LInv, DialogOK
  <2>3. "over" \in Uis /\ run' = [run EXCEPT ![a] = "none"] /\ "none" \in Runs
    BY <2>1, <2>2 DEF Uis, Runs, LInv, AttemptsOK
  <2>4. RunOK(a)' /\ DialogOK(a)'
    BY <2>1, <2>2 DEF LInv, AttemptsOK, RunOK, DialogOK, Running
  <2>. QED BY <1>3, <2>1, <2>3, <2>4, Local DEF LInv, AttemptsOK, ReservationOK
<1>. QED BY <1>1, <1>2, <1>3 DEF LInv, AttemptsOK

(* The dialog goes on, or is closed; the command goes on. *)
LEMMA LLocal ==
  ASSUME LInv, NEW a \in Attempts,
         \/ Open(a) \/ CallConnect(a) \/ Close(a) \/ Acknowledge(a) \/ Connected(a)
         \/ OpenBrowser(a) \/ GivesUp(a) \/ CutShort(a) \/ Respond(a) \/ Exchange(a)
         \/ Accept(a) \/ Handled(a) \/ Collect(a)
  PROVE  LInv'
<1>1. UNCHANGED <<pending, reserved, done, lock>>
  BY DEF Open, CallConnect, Close, Acknowledge, Connected, OpenBrowser, GivesUp, CutShort, Respond,
         Exchange, Accept, Handled, Collect, dialogs
<1>2. closed' \subseteq Attempts /\ cancelled' \subseteq Attempts
  BY DEF LInv, AttemptsOK, Open, CallConnect, Close, Acknowledge, Connected, OpenBrowser, GivesUp,
         CutShort, Respond, Exchange, Accept, Handled, Collect, dialogs
<1>3. ui[a] \in Uis /\ run[a] \in Runs /\ ui = [ui EXCEPT ![a] = ui[a]]
      /\ run = [run EXCEPT ![a] = run[a]]
  BY DEF LInv, AttemptsOK
<1>4. PICK u \in Uis, r \in Runs : /\ ui' = [ui EXCEPT ![a] = u] /\ run' = [run EXCEPT ![a] = r]
        /\ \/ u = ui[a] /\ r = run[a]
           \/ u = "beginning" /\ ui[a] = "new" /\ r = run[a]
           \/ u = "connecting" /\ ui[a] = "registered" /\ r = "called"
           \/ u = "over" /\ ui[a] = "cancelling" /\ a \in done /\ r = run[a]
           \/ u = "over" /\ run[a] = "connected" /\ r = run[a]
           \/ u = ui[a] /\ run[a] \in Running /\ r \in Running \cup Finishing
  <2>1. CASE Open(a)
    BY <1>3, <2>1 DEF Open, Uis
  <2>2. CASE CallConnect(a)
    BY <1>3, <2>2 DEF CallConnect, Uis, Runs
  <2>3. CASE Close(a) \/ Accept(a) \/ Handled(a)
    BY <1>3, <2>3 DEF Close, Accept, Handled, dialogs
  <2>4. CASE Acknowledge(a)
    BY <1>3, <2>4 DEF Acknowledge, Uis
  <2>5. CASE Connected(a)
    BY <1>3, <2>5 DEF Connected, Uis
  <2>6. CASE \/ OpenBrowser(a) \/ GivesUp(a) \/ CutShort(a) \/ Respond(a) \/ Exchange(a)
             \/ Collect(a)
    <3>1. ui' = ui /\ run[a] \in Running
      BY <2>6 DEF OpenBrowser, GivesUp, CutShort, Respond, Exchange, Collect, Waiting, Running
    <3>2. \E r \in Running \cup Finishing : run' = [run EXCEPT ![a] = r]
      <4>1. CASE Collect(a)
        BY <1>3, <3>1, <4>1 DEF Collect, Running, Finishing
      <4>2. CASE ~Collect(a)
        BY <2>6, <4>2 DEF OpenBrowser, GivesUp, CutShort, Respond, Exchange, Running, Finishing
      <4>. QED BY <4>1, <4>2
    <3>. QED BY <1>3, <3>1, <3>2 DEF Runs
  <2>. QED BY <2>1, <2>2, <2>3, <2>4, <2>5, <2>6
<1>5. ui'[a] = u /\ run'[a] = r /\ RunOK(a) /\ DialogOK(a) /\ ReservationOK
      /\ \A b \in Attempts : b # a => ui'[b] = ui[b] /\ run'[b] = run[b]
  BY <1>4 DEF LInv, AttemptsOK
<1>6. ReservationOK'
  BY <1>1, <1>4, <1>5 DEF ReservationOK, RunOK, Finishing
<1>7. RunOK(a)'
  BY <1>1, <1>4, <1>5 DEF RunOK, DialogOK, Running, Finishing
<1>8. DialogOK(a)'
  BY <1>1, <1>4, <1>5 DEF RunOK, DialogOK, Running, Finishing
<1>. QED BY <1>1, <1>2, <1>4, <1>6, <1>7, <1>8, Local

LEMMA LTake ==
  ASSUME LInv, NEW a \in Attempts, Take(a)
  PROVE  LInv'
<1>1. CASE pending = a /\ reserved
  <2>1. run' = [run EXCEPT ![a] = "starting"] /\ reserved' = FALSE
        /\ UNCHANGED <<ui, pending, done, lock, closed, cancelled>>
    BY <1>1 DEF Take
  <2>2. lock = a /\ a \notin done /\ ui[a] # "over" /\ run[a] = "called"
    BY <1>1 DEF Take, LInv, ReservationOK
  <2>3. AttemptsOK' /\ ReservationOK'
    BY <2>1 DEF LInv, AttemptsOK, ReservationOK, Runs, Running
  <2>4. \A b \in Attempts : RunOK(b)'
    BY <1>1, <2>1, <2>2 DEF LInv, AttemptsOK, RunOK, Running, Finishing
  <2>5. \A b \in Attempts : DialogOK(b)'
    BY <2>1, <2>2 DEF LInv, AttemptsOK, DialogOK, Running
  <2>. QED BY <2>3, <2>4, <2>5 DEF LInv
<1>2. CASE ~(pending = a /\ reserved)
  <2>1. run' = [run EXCEPT ![a] = "failed"] /\ reserved' = reserved /\ run[a] = "called"
        /\ UNCHANGED <<ui, pending, done, lock, closed, cancelled>>
    BY <1>2 DEF Take, LInv, AttemptsOK
  <2>2. ui = [ui EXCEPT ![a] = ui[a]] /\ ui[a] \in Uis /\ "failed" \in Runs
    BY DEF LInv, AttemptsOK, Runs
  <2>3. run'[a] = "failed" /\ \A b \in Attempts : b # a => run'[b] = run[b]
    BY <2>1 DEF LInv, AttemptsOK
  <2>4. ReservationOK'
    BY <1>2, <2>1, <2>3 DEF LInv, AttemptsOK, ReservationOK
  <2>5. RunOK(a)' /\ DialogOK(a)'
    BY <2>1, <2>3 DEF LInv, RunOK, DialogOK, Running, Finishing
  <2>. QED BY <2>1, <2>2, <2>4, <2>5, Local DEF LInv, AttemptsOK
<1>. QED BY <1>1, <1>2

(* The dialog asks for the end of its attempt. *)
LEMMA LCancel ==
  ASSUME LInv, NEW a \in Attempts, Cancel(a)
  PROVE  LInv'
<1>1. UNCHANGED <<pending, run>> /\ closed' \subseteq Attempts /\ cancelled' \subseteq Attempts
      /\ ui[a] \in {"registered", "connecting"}
  BY DEF Cancel, LInv, AttemptsOK
<1>2. run = [run EXCEPT ![a] = run[a]] /\ run[a] \in Runs /\ RunOK(a) /\ DialogOK(a)
  BY DEF LInv, AttemptsOK
<1>3. CASE pending # a
  <2>1. ui' = [ui EXCEPT ![a] = "over"] /\ UNCHANGED <<reserved, done, lock>> /\ "over" \in Uis
    BY <1>3 DEF Cancel, Uis
  <2>2. ui'[a] = "over" /\ \A b \in Attempts : b # a => ui'[b] = ui[b]
    BY <2>1 DEF LInv, AttemptsOK
  <2>3. ReservationOK'
    BY <1>1, <1>3, <2>1, <2>2 DEF LInv, ReservationOK
  <2>4. RunOK(a)' /\ DialogOK(a)'
    BY <1>1, <1>2, <1>3, <2>1, <2>2 DEF RunOK, DialogOK
  <2>. QED BY <1>1, <1>2, <2>1, <2>3, <2>4, Local
<1>4. CASE pending = a /\ ~reserved
  <2>1. ui' = [ui EXCEPT ![a] = "cancelling"] /\ UNCHANGED <<reserved, done, lock>>
        /\ "cancelling" \in Uis
    BY <1>4 DEF Cancel, Uis, LInv, AttemptsOK
  <2>2. ui'[a] = "cancelling"
    BY <2>1 DEF LInv, AttemptsOK
  <2>3. ReservationOK'
    BY <1>4, <2>1 DEF ReservationOK
  <2>4. RunOK(a)' /\ DialogOK(a)'
    BY <1>1, <1>2, <2>1, <2>2 DEF RunOK, DialogOK
  <2>. QED BY <1>1, <1>2, <2>1, <2>3, <2>4, Local
<1>5. CASE pending = a /\ reserved
  <2>1. /\ ui' = [ui EXCEPT ![a] = "cancelling"] /\ reserved' = FALSE
        /\ done' = done \cup {a} /\ lock' = Free
    BY <1>5 DEF Cancel
  <2>2. lock = a /\ run[a] \in {"none", "called"}
    BY <1>5 DEF LInv, ReservationOK
  <2>3. AttemptsOK' /\ ReservationOK'
    BY <1>1, <2>1 DEF LInv, AttemptsOK, ReservationOK, Uis
  <2>4. \A b \in Attempts : b # a => ui'[b] = ui[b] /\ lock # b
    BY <2>1, <2>2 DEF LInv, AttemptsOK
  <2>5. ui'[a] = "cancelling" /\ lock' \notin Attempts
    BY <2>1, SignInAssumption DEF LInv, AttemptsOK
  <2>6. \A b \in Attempts : RunOK(b)'
    BY <1>1, <1>5, <2>1, <2>2, <2>4, <2>5 DEF LInv, RunOK, Running, Finishing
  <2>7. \A b \in Attempts : DialogOK(b)'
    BY <1>1, <2>1, <2>2, <2>4, <2>5 DEF LInv, DialogOK, Running
  <2>. QED BY <2>3, <2>6, <2>7 DEF LInv
<1>. QED BY <1>3, <1>4, <1>5 DEF LInv, AttemptsOK

LEMMA LRelease ==
  ASSUME LInv, NEW a \in Attempts, Release(a)
  PROVE  LInv'
<1>1. UNCHANGED <<ui, pending, reserved, closed, cancelled>> /\ run[a] \in Finishing
      /\ ~(reserved /\ pending = a)
  BY DEF Release, Finishing, LInv, RunOK
<1>2. CASE lock = a
  <2>1. lock' = Free /\ UNCHANGED <<done, run>> /\ lock' \notin Attempts
    BY <1>2, SignInAssumption DEF Release
  <2>2. ~reserved
    BY <1>1, <1>2 DEF LInv, ReservationOK
  <2>3. AttemptsOK' /\ ReservationOK'
    BY <1>1, <2>1, <2>2 DEF LInv, AttemptsOK, ReservationOK
  <2>4. \A b \in Attempts : run[b] \notin Running
    BY <1>1, <1>2 DEF LInv, RunOK, Running, Finishing
  <2>5. \A b \in Attempts : RunOK(b)'
    BY <1>1, <2>1, <2>4 DEF LInv, RunOK
  <2>6. \A b \in Attempts : DialogOK(b)'
    BY <1>1, <2>1 DEF LInv, DialogOK
  <2>. QED BY <2>3, <2>5, <2>6 DEF LInv
<1>3. CASE lock # a
  <2>1. /\ lock' = lock /\ done' = done \cup {a}
        /\ run' = [run EXCEPT ![a] = IF run[a] = "stored" THEN "connected" ELSE "failed"]
    BY <1>3 DEF Release
  <2>2. run'[a] \in {"connected", "failed"} /\ \A b \in Attempts : b # a => run'[b] = run[b]
    BY <2>1 DEF LInv, AttemptsOK
  <2>3. AttemptsOK'
    BY <1>1, <2>1 DEF LInv, AttemptsOK, Runs
  <2>4. ReservationOK'
    BY <1>1, <2>1, <2>2 DEF LInv, ReservationOK
  <2>5. \A b \in Attempts : RunOK(b)'
    BY <1>1, <1>3, <2>1, <2>2 DEF LInv, RunOK, Running, Finishing
  <2>6. \A b \in Attempts : DialogOK(b)'
    BY <1>1, <1>3, <2>1, <2>2 DEF LInv, DialogOK, Running, Finishing
  <2>. QED BY <2>3, <2>4, <2>5, <2>6 DEF LInv
<1>. QED BY <1>2, <1>3

(* Somebody else takes the lock while it is free, or gives it back. *)
LEMMA LOthers ==
  ASSUME LInv, UNCHANGED dialogs, lock \notin Attempts, lock' \notin Attempts,
         lock' \in {Free, "settings", "reauthenticate"}
  PROVE  LInv'
<1>1. ~reserved
  BY DEF LInv, ReservationOK
<1>2. AttemptsOK' /\ ReservationOK'
  BY <1>1 DEF dialogs, LInv, AttemptsOK, ReservationOK
<1>3. \A b \in Attempts : RunOK(b)'
  BY DEF dialogs, LInv, RunOK
<1>4. \A b \in Attempts : DialogOK(b)'
  BY DEF dialogs, LInv, DialogOK
<1>. QED BY <1>2, <1>3, <1>4 DEF LInv

LEMMA LAside ==
  ASSUME LInv, UNCHANGED dialogs, UNCHANGED lock
  PROVE  LInv'
<1>1. AttemptsOK' /\ ReservationOK'
  BY DEF dialogs, LInv, AttemptsOK, ReservationOK
<1>2. \A b \in Attempts : RunOK(b)' /\ DialogOK(b)'
  BY DEF dialogs, LInv, RunOK, DialogOK
<1>. QED BY <1>1, <1>2 DEF LInv

LEMMA LSettings ==
  ASSUME LInv, \/ Configure \/ Recover \/ SettingsStep \/ OtherSignIn \/ RemoveAccount
  PROVE  LInv'
<1>1. UNCHANGED dialogs
  BY DEF Configure, Recover, SettingsStep, StoreId, StoreSecret, UseConfigured, Recovered,
         OtherSignIn, RemoveAccount
<1>2. \/ UNCHANGED lock
      \/ /\ lock \in {Free, "settings", "reauthenticate"}
         /\ lock' \in {Free, "settings", "reauthenticate"}
  BY DEF Configure, Recover, SettingsStep, StoreId, StoreSecret, UseConfigured, Recovered,
         OtherSignIn, RemoveAccount, EndSettings
<1>. QED BY <1>1, <1>2, LOthers, LAside, SignInAssumption

LEMMA LRestart ==
  ASSUME LInv, Restart
  PROVE  LInv'
<1>1. /\ ui' = [a \in Attempts |-> IF ui[a] = "new" THEN "new" ELSE "over"]
      /\ run' = [a \in Attempts |-> IF run[a] = "none" THEN "none" ELSE "failed"]
      /\ closed' = {} /\ pending' = None /\ reserved' = FALSE /\ cancelled' = {} /\ done' = {}
      /\ lock' = Free
  BY DEF Restart
<1>2. AttemptsOK' /\ ReservationOK'
  BY <1>1 DEF AttemptsOK, ReservationOK, Uis, Runs
<1>3. \A a \in Attempts : run'[a] \in {"none", "failed"} /\ ui'[a] \in {"new", "over"}
                          /\ (ui'[a] = "new" => run'[a] = "none")
  BY <1>1 DEF LInv, DialogOK
<1>4. Free \notin Attempts /\ None \notin Attempts
  BY SignInAssumption
<1>5. \A a \in Attempts : RunOK(a)'
  BY <1>1, <1>3, <1>4 DEF RunOK, Running, Finishing
<1>6. \A a \in Attempts : DialogOK(a)'
  BY <1>1, <1>3, <1>4 DEF DialogOK, Running
<1>. QED BY <1>2, <1>5, <1>6 DEF LInv

LEMMA LNext == LInv /\ [Next]_vars => LInv'
<1>. SUFFICES ASSUME LInv, [Next]_vars PROVE LInv'
  OBVIOUS
<1>1. ASSUME NEW a \in Attempts, Open(a) \/ Close(a) \/ Accept(a) \/ Handled(a) \/ Step(a)
      PROVE  LInv'
  BY <1>1, LLocal, LBegin, LTake, LCancel, LRelease DEF Step
<1>2. CASE UNCHANGED vars
  BY <1>2, LAside DEF vars
<1>. QED BY <1>1, <1>2, LSettings, LRestart DEF Next

(* When a dialog ends, nothing of its attempt runs or holds the lock any    *)
(* more: Closure is the acknowledgement, whenever the dialog is closed and  *)
(* whatever the commands of other dialogs do.                               *)
THEOREM CancelledIsOver == Spec => []CancelMeansOver
<1>1. LInv => CancelMeansOver
  BY DEF LInv, DialogOK, CancelMeansOver
<1>. QED BY <1>1, LInit, LNext, PTL DEF Spec

--------------------------------------------------------------------------------
(* The listener. *)

Conn == [kind : Kinds, read : BOOLEAN]

ListenerOK == /\ conns \in Seq(Conn) /\ Len(conns) <= MaxInFlight
              /\ arrived \in 0..MaxCallbacks

LEMMA Removed ==
  ASSUME NEW S, NEW s \in Seq(S), NEW i \in 1..Len(s)
  PROVE  /\ RemoveAt(s, i) \in Seq(S) /\ Len(RemoveAt(s, i)) = Len(s) - 1
         /\ \A k \in 1..(Len(s) - 1) :
              RemoveAt(s, i)[k] = IF k < i THEN s[k] ELSE s[k + 1]
<1>. DEFINE u == SubSeq(s, 1, i - 1)
            v == SubSeq(s, i + 1, Len(s))
<1>1. u \in Seq(S) /\ Len(u) = i - 1 /\ \A k \in 1..(i - 1) : u[k] = s[k]
  OBVIOUS
<1>2. v \in Seq(S) /\ Len(v) = Len(s) - i /\ \A k \in 1..(Len(s) - i) : v[k] = s[i + k]
  OBVIOUS
<1>. HIDE DEF u, v
<1>3. u \o v \in Seq(S) /\ Len(u \o v) = Len(s) - 1
  BY <1>1, <1>2
<1>4. \A k \in 1..(Len(s) - 1) : (u \o v)[k] = IF k < i THEN s[k] ELSE s[k + 1]
  <2>1. \A k \in 1..(Len(s) - 1) : (u \o v)[k] = IF k < i THEN u[k] ELSE v[k - (i - 1)]
    BY <1>1, <1>2
  <2>. QED BY <1>1, <1>2, <2>1
<1>. QED BY <1>3, <1>4 DEF RemoveAt, u, v

LEMMA Accepted ==
  ASSUME ListenerOK, NEW a \in Attempts, Accept(a)
  PROVE  ListenerOK'
<1>1. PICK k \in Kinds :
        conns' = Append(IF Len(conns) = MaxInFlight THEN Tail(conns) ELSE conns,
                        [kind |-> k, read |-> FALSE])
  BY DEF Accept
<1>2. [kind |-> k, read |-> FALSE] \in Conn
  BY DEF Conn
<1>3. MaxInFlight \in Nat \ {0} /\ MaxCallbacks \in Nat
  BY SignInAssumption
<1>4. CASE Len(conns) = MaxInFlight
  <2>1. conns # <<>> /\ Tail(conns) \in Seq(Conn) /\ Len(Tail(conns)) = Len(conns) - 1
    BY <1>3, <1>4 DEF ListenerOK
  <2>2. conns' \in Seq(Conn) /\ Len(conns') = Len(conns)
    BY <1>1, <1>2, <1>4, <2>1 DEF ListenerOK
  <2>. QED BY <1>3, <1>4, <2>2 DEF Accept, ListenerOK
<1>5. CASE Len(conns) # MaxInFlight
  <2>1. conns' \in Seq(Conn) /\ Len(conns') = Len(conns) + 1
    BY <1>1, <1>2, <1>5 DEF ListenerOK
  <2>. QED BY <1>3, <1>5, <2>1 DEF Accept, ListenerOK
<1>. QED BY <1>4, <1>5

LEMMA HandledKeeps ==
  ASSUME ListenerOK, NEW a \in Attempts, Handled(a)
  PROVE  ListenerOK'
<1>0. PICK i \in DOMAIN conns :
        \E k \in {conns[i].kind, "other"} :
          conns' = [conns EXCEPT ![i] = [kind |-> k, read |-> TRUE]]
  BY DEF Handled
<1>1. PICK k \in {conns[i].kind, "other"} :
        conns' = [conns EXCEPT ![i] = [kind |-> k, read |-> TRUE]]
  BY <1>0
<1>2. [kind |-> k, read |-> TRUE] \in Conn
  <2>1. conns[i] \in Conn
    BY DEF ListenerOK
  <2>. QED BY <2>1 DEF Conn, Kinds
<1>3. conns' \in Seq(Conn) /\ Len(conns') = Len(conns)
  BY <1>1, <1>2 DEF ListenerOK
<1>. QED BY <1>3 DEF Handled, ListenerOK

LEMMA Emptied ==
  ASSUME ListenerOK, conns' = <<>>, arrived' \in {arrived, 0}
  PROVE  ListenerOK'
BY SignInAssumption DEF ListenerOK

LEMMA Collected ==
  ASSUME ListenerOK, NEW a \in Attempts, Collect(a)
  PROVE  ListenerOK'
<1>1. PICK i \in Ready :
        IF Answers(conns[i]) THEN conns' = <<>> ELSE conns' = RemoveAt(conns, i)
  BY DEF Collect
<1>2. i \in 1..Len(conns)
  BY <1>1 DEF Ready, ListenerOK
<1>3. conns' = RemoveAt(conns, i) => conns' \in Seq(Conn) /\ Len(conns') = Len(conns) - 1
  BY <1>2, Removed DEF ListenerOK
<1>. QED BY <1>1, <1>3, Emptied, SignInAssumption DEF Collect, ListenerOK

LEMMA ListenerNext ==
  ASSUME ListenerOK, [Next]_vars
  PROVE  ListenerOK'
<1>1. ASSUME NEW a \in Attempts, Open(a) \/ Close(a) \/ Accept(a) \/ Handled(a) \/ Step(a)
      PROVE  ListenerOK'
  <2>1. \/ Accept(a) \/ Handled(a) \/ Collect(a)
        \/ conns' = <<>> /\ arrived' \in {arrived, 0}
        \/ UNCHANGED listener
    BY <1>1 DEF Open, Close, Step, Begin, CallConnect, Take, Cancel, Acknowledge, Connected,
                OpenBrowser, GivesUp, CutShort, Respond, Exchange, Release
  <2>. QED BY <2>1, Accepted, HandledKeeps, Collected, Emptied DEF listener, ListenerOK
<1>2. CASE Restart
  BY <1>2, Emptied DEF Restart
<1>3. CASE \/ Configure \/ Recover \/ SettingsStep \/ OtherSignIn \/ RemoveAccount \/ UNCHANGED vars
  <2>1. UNCHANGED listener
    BY <1>3 DEF Configure, Recover, SettingsStep, StoreId, StoreSecret, UseConfigured, Recovered,
                OtherSignIn, RemoveAccount, vars
  <2>. QED BY <2>1 DEF listener, ListenerOK
<1>. QED BY <1>1, <1>2, <1>3 DEF Next

--------------------------------------------------------------------------------
(* The client. *)

Ids == Clients \cup {Default}

ConfigOK ==
  /\ memory \in Pair /\ storedId \in Clients \cup {None} /\ storedSecret \in Clients \cup {None}
  /\ settings \in [at: {"idle", "id", "secret", "memory", "recover"}, id: Ids \cup {None}]
  /\ settings.at = "idle" => settings = NoCommand
  /\ settings.at # "idle" => lock = "settings"
  /\ settings.at \in {"id", "secret", "memory"} => settings.id \in Ids
  /\ account \in Ids \cup {None} /\ torn \in BOOLEAN
  /\ client \in [Attempts -> Ids \cup {None}]
  /\ session \in Sessions /\ faults \in 0..session.faults

(* Where the pair is while a command changes it, unless a failure tore it. *)
PairOK ==
  ~torn =>
    /\ memory.secret \in {memory.id, None}
    /\ settings.at \in {"idle", "id", "recover"} =>
         storedId = Stored(memory.id) /\ storedSecret = storedId
    /\ settings.at = "secret" => storedId = Stored(settings.id)
    /\ settings.at = "memory" => storedId = Stored(settings.id) /\ storedSecret = storedId
    /\ settings.at = "recover" => settings.id \in {memory.id, None}
    /\ account # None => account = memory.id
    /\ account # None /\ settings.at \in {"id", "secret", "memory"} => settings.id = account
    /\ \A a \in Attempts : run[a] \in {"listening", "answering", "exchange"} =>
                             client[a] = memory.id

IInv == LInv /\ ListenerOK /\ ConfigOK /\ PairOK

LEMMA InvInit == Init => IInv
<1>. SUFFICES ASSUME Init PROVE IInv
  OBVIOUS
<1>1. ListenerOK
  BY SignInAssumption DEF Init, ListenerOK
<1>2. ConfigOK
  <2>1. session \in Sessions /\ session.faults \in Nat /\ faults = 0
    BY SignInAssumption DEF Init
  <2>2. memory \in Pair /\ settings = NoCommand
    BY DEF Init, Pair
  <2>3. /\ settings \in [at: {"idle", "id", "secret", "memory", "recover"}, id: Ids \cup {None}]
        /\ settings.at = "idle"
    BY <2>2 DEF NoCommand
  <2>4. client \in [Attempts -> Ids \cup {None}]
    BY DEF Init
  <2>5. session \in Sessions /\ faults \in 0..session.faults
    BY <2>1
  <2>6. /\ storedId \in Clients \cup {None} /\ storedSecret \in Clients \cup {None}
        /\ account \in Ids \cup {None} /\ torn \in BOOLEAN
    BY DEF Init
  <2>. QED BY <2>2, <2>3, <2>4, <2>5, <2>6 DEF ConfigOK
<1>3. PairOK
  BY DEF Init, PairOK, NoCommand, Stored
<1>. QED BY LInit, <1>1, <1>2, <1>3 DEF IInv

(* The lock tells what a command on the configuration can meet. *)
LEMMA Locked ==
  ASSUME LInv, ConfigOK
  PROVE  /\ \A a \in Attempts : run[a] \in Running => lock = a /\ settings = NoCommand
         /\ settings.at # "idle" => \A a \in Attempts : run[a] \notin Running
BY SignInAssumption DEF LInv, RunOK, ConfigOK

(* What does not concern the configuration. *)
LEMMA ConfigAside ==
  ASSUME ConfigOK, PairOK, UNCHANGED <<session, config, account, faults>>,
         settings.at # "idle" => lock' = lock,
         client' \in [Attempts -> Ids \cup {None}],
         \A a \in Attempts : run'[a] \in {"listening", "answering", "exchange"} =>
           \/ run[a] \in {"listening", "answering", "exchange"} /\ client'[a] = client[a]
           \/ client'[a] = memory.id
  PROVE  ConfigOK' /\ PairOK'
<1>1. ConfigOK'
  BY DEF ConfigOK, config
<1>2. PairOK'
  BY DEF PairOK, config
<1>. QED BY <1>1, <1>2

LEMMA ConfigDialogs ==
  ASSUME LInv, ConfigOK, PairOK, NEW a \in Attempts,
         \/ Open(a) \/ Begin(a) \/ CallConnect(a) \/ Take(a) \/ Close(a) \/ Cancel(a)
         \/ Acknowledge(a) \/ Connected(a) \/ GivesUp(a) \/ CutShort(a) \/ Respond(a)
         \/ Release(a) \/ Accept(a) \/ Handled(a) \/ Collect(a)
  PROVE  ConfigOK' /\ PairOK'
<1>1. UNCHANGED <<session, config, account, faults, client>>
  BY DEF Open, Begin, CallConnect, Take, Close, Cancel, Acknowledge, Connected, GivesUp, CutShort,
         Respond, Release, Accept, Handled, Collect, dialogs
<1>2. settings.at # "idle" => lock' = lock
  <2>. SUFFICES ASSUME settings.at # "idle" PROVE lock' = lock
    OBVIOUS
  <2>1. lock = "settings" /\ ~reserved /\ lock # Free /\ lock # a
    BY SignInAssumption DEF ConfigOK, LInv, ReservationOK, Free
  <2>. QED BY <2>1 DEF Open, Begin, CallConnect, Take, Close, Cancel, Acknowledge, Connected,
                       GivesUp, CutShort, Respond, Release, Accept, Handled, Collect, dialogs
<1>3. client' \in [Attempts -> Ids \cup {None}]
  BY <1>1 DEF ConfigOK
<1>4. \A b \in Attempts : run'[b] \in {"listening", "answering", "exchange"} =>
                          run[b] \in {"listening", "answering", "exchange"}
  BY DEF LInv, AttemptsOK, Open, Begin, CallConnect, Take, Close, Cancel, Acknowledge, Connected,
         GivesUp, CutShort, Respond, Release, Accept, Handled, Collect, dialogs
<1>. QED BY <1>1, <1>2, <1>3, <1>4, ConfigAside

LEMMA ConfigOpens ==
  ASSUME LInv, ConfigOK, PairOK, NEW a \in Attempts, OpenBrowser(a)
  PROVE  ConfigOK' /\ PairOK'
<1>. DEFINE secret == IF memory.secret = None /\ storedId = memory.id THEN storedSecret
                      ELSE memory.secret
<1>1. run[a] = "starting" /\ lock = a /\ settings = NoCommand
  BY Locked DEF OpenBrowser, Running
<1>2. /\ memory' = [memory EXCEPT !.secret = secret] /\ client' = [client EXCEPT ![a] = memory.id]
      /\ UNCHANGED <<session, lock, storedId, storedSecret, settings, torn, account, faults>>
  BY DEF OpenBrowser
<1>3. memory \in Pair /\ storedSecret \in Clients \cup {None}
  BY DEF ConfigOK
<1>4. memory'.id = memory.id /\ memory'.secret = secret /\ memory' \in Pair
  BY <1>2, <1>3 DEF Pair
<1>5. client' \in [Attempts -> Ids \cup {None}]
  BY <1>2, <1>3 DEF ConfigOK, Pair, Ids
<1>6. ConfigOK'
  BY <1>2, <1>4, <1>5 DEF ConfigOK
<1>7. ~torn => secret \in {memory.id, None}
  BY <1>1 DEF PairOK, NoCommand
<1>8. \A b \in Attempts : b # a => run'[b] = run[b] /\ client'[b] = client[b]
  BY <1>2 DEF OpenBrowser, LInv, AttemptsOK, ConfigOK
<1>9. client'[a] = memory.id
  BY <1>2 DEF ConfigOK
<1>10. PairOK'
  BY <1>1, <1>2, <1>4, <1>7, <1>8, <1>9 DEF PairOK, NoCommand
<1>. QED BY <1>6, <1>10

LEMMA ConfigExchanges ==
  ASSUME LInv, ConfigOK, PairOK, NEW a \in Attempts, Exchange(a)
  PROVE  ConfigOK' /\ PairOK'
<1>1. run[a] = "exchange" /\ settings = NoCommand
  BY Locked DEF Exchange, Running
<1>2. /\ account' \in {account, memory.id}
      /\ UNCHANGED <<session, client, lock, config, faults>>
  BY DEF Exchange
<1>3. \A b \in Attempts : run'[b] \in {"listening", "answering", "exchange"} => run'[b] = run[b]
  BY DEF Exchange, LInv, AttemptsOK
<1>4. ConfigOK'
  BY <1>2 DEF ConfigOK, config, Pair, Ids
<1>5. PairOK'
  BY <1>1, <1>2, <1>3 DEF PairOK, config, NoCommand
<1>. QED BY <1>4, <1>5

LEMMA ConfigSettings ==
  ASSUME LInv, ConfigOK, PairOK,
         \/ Configure \/ Recover \/ SettingsStep \/ OtherSignIn \/ RemoveAccount
  PROVE  ConfigOK' /\ PairOK'
<1>1. UNCHANGED <<session, run, client>>
  BY DEF Configure, Recover, SettingsStep, StoreId, StoreSecret, UseConfigured, Recovered,
         OtherSignIn, RemoveAccount, dialogs
<1>2. memory \in Pair /\ memory.id \in Ids /\ memory.secret \in Ids \cup {None}
  BY DEF ConfigOK, Pair, Ids
<1>3. CASE Configure
  <2>1. PICK c \in Ids : (account = None \/ memory.id = c) /\ settings' = [at |-> "id", id |-> c]
    BY <1>3 DEF Configure, Ids
  <2>2. /\ settings'.at = "id" /\ settings'.id = c /\ lock' = "settings" /\ settings.at = "idle"
        /\ UNCHANGED <<memory, storedId, storedSecret, torn, account, faults>>
    BY <1>3, <2>1 DEF Configure, NoCommand
  <2>3. settings' \in [at: {"idle", "id", "secret", "memory", "recover"}, id: Ids \cup {None}]
    BY <2>1
  <2>4. ConfigOK'
    BY <1>1, <2>1, <2>2, <2>3 DEF ConfigOK
  <2>5. PairOK'
    BY <1>1, <2>1, <2>2 DEF PairOK
  <2>. QED BY <2>4, <2>5
<1>4. CASE Recover
  <2>1. /\ settings' = [at |-> "recover", id |-> storedSecret] /\ lock' = "settings"
        /\ settings.at = "idle" /\ storedId = memory.id
        /\ UNCHANGED <<memory, storedId, storedSecret, torn, account, faults>>
    BY <1>4 DEF Recover, NoCommand
  <2>2. /\ settings'.at = "recover" /\ settings'.id = storedSecret
        /\ settings' \in [at: {"idle", "id", "secret", "memory", "recover"}, id: Ids \cup {None}]
    BY <2>1 DEF ConfigOK, Ids
  <2>3. ConfigOK'
    BY <1>1, <2>1, <2>2 DEF ConfigOK
  <2>4. PairOK'
    BY <1>1, <2>1, <2>2 DEF PairOK
  <2>. QED BY <2>3, <2>4
<1>5. CASE StoreId
  <2>1. /\ settings.at = "id" /\ storedId' = Stored(settings.id)
        /\ settings' = [settings EXCEPT !.at = "secret"]
        /\ UNCHANGED <<lock, memory, storedSecret, torn, account, faults>>
    BY <1>5 DEF StoreId
  <2>2. /\ settings'.at = "secret" /\ settings'.id = settings.id
        /\ settings' \in [at: {"idle", "id", "secret", "memory", "recover"}, id: Ids \cup {None}]
    BY <2>1 DEF ConfigOK
  <2>3. Stored(settings.id) \in Clients \cup {None}
    BY <2>1 DEF ConfigOK, Stored, Ids
  <2>4. ConfigOK'
    BY <1>1, <2>1, <2>2, <2>3 DEF ConfigOK
  <2>5. PairOK'
    BY <1>1, <2>1, <2>2 DEF PairOK
  <2>. QED BY <2>4, <2>5
<1>6. CASE StoreSecret /\ settings' # NoCommand
  <2>1. /\ settings.at = "secret" /\ storedSecret' = Stored(settings.id)
        /\ settings' = [settings EXCEPT !.at = "memory"]
        /\ UNCHANGED <<lock, memory, storedId, torn, account, faults>>
    BY <1>6 DEF StoreSecret, EndSettings
  <2>2. /\ settings'.at = "memory" /\ settings'.id = settings.id
        /\ settings' \in [at: {"idle", "id", "secret", "memory", "recover"}, id: Ids \cup {None}]
    BY <2>1 DEF ConfigOK
  <2>3. Stored(settings.id) \in Clients \cup {None}
    BY <2>1 DEF ConfigOK, Stored, Ids
  <2>4. ConfigOK'
    BY <1>1, <2>1, <2>2, <2>3 DEF ConfigOK
  <2>5. PairOK'
    BY <1>1, <2>1, <2>2 DEF PairOK
  <2>. QED BY <2>4, <2>5
<1>7. CASE StoreSecret /\ settings' = NoCommand
  <2>1. NoCommand # [settings EXCEPT !.at = "memory"]
    BY DEF ConfigOK, NoCommand
  <2>2. /\ torn' = TRUE /\ faults < session.faults /\ faults' = faults + 1
        /\ UNCHANGED <<memory, storedId, storedSecret, account>>
    BY <1>7, <2>1 DEF StoreSecret
  <2>3. /\ settings'.at = "idle"
        /\ settings' \in [at: {"idle", "id", "secret", "memory", "recover"}, id: Ids \cup {None}]
    BY <1>7 DEF NoCommand
  <2>4. session.faults \in Nat /\ faults' \in 0..session.faults
    BY <2>2, SignInAssumption DEF ConfigOK
  <2>5. ConfigOK'
    BY <1>1, <1>7, <2>2, <2>3, <2>4 DEF ConfigOK
  <2>6. PairOK'
    BY <2>2 DEF PairOK
  <2>. QED BY <2>5, <2>6
<1>8. CASE UseConfigured
  <2>1. /\ settings.at = "memory" /\ memory' = [id |-> settings.id, secret |-> settings.id]
        /\ settings' = NoCommand
        /\ UNCHANGED <<storedId, storedSecret, torn, account, faults>>
    BY <1>8 DEF UseConfigured, EndSettings
  <2>2. /\ settings'.at = "idle"
        /\ settings' \in [at: {"idle", "id", "secret", "memory", "recover"}, id: Ids \cup {None}]
    BY <2>1 DEF NoCommand
  <2>3. memory' \in Pair /\ memory'.id = settings.id /\ memory'.secret = settings.id
    BY <2>1 DEF ConfigOK, Pair, Ids
  <2>4. ConfigOK'
    BY <1>1, <2>1, <2>2, <2>3 DEF ConfigOK
  <2>5. \A a \in Attempts : run[a] \notin Running
    BY <2>1, Locked
  <2>6. PairOK'
    BY <1>1, <2>1, <2>2, <2>3, <2>5 DEF PairOK, Running
  <2>. QED BY <2>4, <2>6
<1>9. CASE Recovered
  <2>1. /\ settings.at = "recover" /\ memory' = [memory EXCEPT !.secret = settings.id]
        /\ settings' = NoCommand
        /\ UNCHANGED <<storedId, storedSecret, torn, account, faults>>
    BY <1>9 DEF Recovered, EndSettings
  <2>2. /\ settings'.at = "idle"
        /\ settings' \in [at: {"idle", "id", "secret", "memory", "recover"}, id: Ids \cup {None}]
    BY <2>1 DEF NoCommand
  <2>3. memory' \in Pair /\ memory'.id = memory.id /\ memory'.secret = settings.id
    BY <2>1 DEF ConfigOK, Pair, Ids
  <2>4. ConfigOK'
    BY <1>1, <2>1, <2>2, <2>3 DEF ConfigOK
  <2>5. PairOK'
    BY <1>1, <2>1, <2>2, <2>3 DEF PairOK
  <2>. QED BY <2>4, <2>5
<1>10. CASE OtherSignIn
  <2>1. settings.at = "idle" /\ UNCHANGED <<settings, memory, storedId, storedSecret, torn, account, faults>>
    BY <1>10 DEF OtherSignIn, ConfigOK, config, Free
  <2>. QED BY <1>1, <2>1 DEF ConfigOK, PairOK
<1>11. CASE RemoveAccount
  <2>1. account' = None /\ UNCHANGED <<lock, settings, memory, storedId, storedSecret, torn, faults>>
    BY <1>11 DEF RemoveAccount, config
  <2>. QED BY <1>1, <2>1 DEF ConfigOK, PairOK
<1>. QED BY <1>3, <1>4, <1>5, <1>6, <1>7, <1>8, <1>9, <1>10, <1>11 DEF SettingsStep

LEMMA ConfigRestart ==
  ASSUME ConfigOK, PairOK, Restart
  PROVE  ConfigOK' /\ PairOK'
<1>1. /\ memory' \in Resolved /\ settings' = NoCommand /\ faults' = faults + 1
      /\ faults < session.faults /\ client' = [a \in Attempts |-> None]
      /\ torn' = (torn \/ settings.at \in {"secret"})
      /\ UNCHANGED <<session, storedId, storedSecret, account>>
  BY DEF Restart
<1>2. /\ settings'.at = "idle"
      /\ settings' \in [at: {"idle", "id", "secret", "memory", "recover"}, id: Ids \cup {None}]
  BY <1>1 DEF NoCommand
<1>3. session.faults \in Nat /\ faults' \in 0..session.faults
  BY <1>1, SignInAssumption DEF ConfigOK
<1>4. /\ memory'.id = IF storedId = None THEN Default ELSE storedId
      /\ memory'.secret \in IF storedId = None THEN {Default} ELSE {storedSecret, None}
      /\ memory' \in Pair
  <2>1. CASE storedId = None
    BY <1>1, <2>1 DEF Resolved, Pair
  <2>2. CASE storedId # None
    <3>1. PICK c \in {storedSecret, None} : memory' = [id |-> storedId, secret |-> c]
      BY <1>1, <2>2 DEF Resolved
    <3>2. storedId \in Clients /\ c \in Clients \cup {None}
      BY <2>2 DEF ConfigOK
    <3>. QED BY <2>2, <3>1, <3>2 DEF Pair
  <2>. QED BY <2>1, <2>2
<1>5. ConfigOK'
  <2>1. client' \in [Attempts -> Ids \cup {None}]
    BY <1>1
  <2>. QED BY <1>1, <1>2, <1>3, <1>4, <2>1 DEF ConfigOK
<1>6. \A a \in Attempts : run'[a] \notin {"listening", "answering", "exchange"}
  BY DEF Restart
<1>7. PairOK'
  <2>. SUFFICES ASSUME ~torn' PROVE PairOK'
    BY DEF PairOK
  <2>1. ~torn /\ settings.at # "secret"
    BY <1>1 DEF ConfigOK
  <2>. DEFINE i == IF settings.at = "memory" THEN settings.id ELSE memory.id
  <2>2. storedId = Stored(i) /\ storedSecret = storedId /\ (account # None => account = i)
    BY <2>1 DEF PairOK, ConfigOK
  <2>3. i \in Ids
    BY DEF ConfigOK, Pair, Ids
  <2>4. memory'.id = i
    BY <1>4, <2>2, <2>3, SignInAssumption DEF Stored, Ids
  <2>5. memory'.secret \in {memory'.id, None}
    BY <1>4, <2>2
  <2>. QED BY <1>1, <1>2, <1>6, <2>2, <2>4, <2>5 DEF PairOK
<1>. QED BY <1>5, <1>7

LEMMA InvNext == IInv /\ [Next]_vars => IInv'
<1>. SUFFICES ASSUME IInv, [Next]_vars PROVE IInv'
  OBVIOUS
<1>1. LInv /\ LInv' /\ ListenerOK' /\ ConfigOK /\ PairOK
  BY LNext, ListenerNext DEF IInv
<1>2. ASSUME NEW a \in Attempts, Open(a) \/ Close(a) \/ Accept(a) \/ Handled(a) \/ Step(a)
      PROVE  ConfigOK' /\ PairOK'
  BY <1>1, <1>2, ConfigDialogs, ConfigOpens, ConfigExchanges DEF Step
<1>3. ASSUME UNCHANGED vars PROVE ConfigOK' /\ PairOK'
  <2>1. ConfigOK'
    BY <1>1, <1>3 DEF vars, dialogs, config, ConfigOK
  <2>2. PairOK'
    BY <1>1, <1>3 DEF vars, dialogs, config, PairOK
  <2>. QED BY <2>1, <2>2
<1>. QED BY <1>1, <1>2, <1>3, ConfigSettings, ConfigRestart DEF Next, IInv

LEMMA InvMeans == IInv => TypeOK /\ OneClient
<1>. SUFFICES ASSUME IInv PROVE TypeOK /\ OneClient
  OBVIOUS
<1>1. TypeOK
  <2>1. reserved => lock = pending /\ pending \notin done
    BY DEF IInv, LInv, ReservationOK
  <2>. QED BY <2>1 DEF IInv, LInv, AttemptsOK, ListenerOK, ConfigOK, TypeOK, Uis, Runs, Finishing,
                       Running, Conn, Ids
<1>2. OneClient
  BY DEF IInv, PairOK, OneClient
<1>. QED BY <1>1, <1>2

(* Registration, lock, commands, listener and configuration are consistent  *)
(* in every reachable state.                                                *)
THEOREM Invariance == Spec => []IInv
BY InvInit, InvNext, PTL DEF Spec

(* Types; in particular there are never more than MAX_IN_FLIGHT_CALLBACKS   *)
(* connections, and a reservation always holds the lock.                    *)
THEOREM TypeCorrect == Spec => []TypeOK
BY Invariance, InvMeans, PTL

(* A code is exchanged as the client it was given for, and accounts belong  *)
(* to the client in use, unless a failure between the two stores tore the   *)
(* pair: through configurations, recoveries of the secret and restarts.     *)
THEOREM ClientKept == Spec => []OneClient
BY Invariance, InvMeans, PTL

(* No grant is used after a cancellation that came before it.               *)
THEOREM NoLateGrant == Spec => NoGrantAfterCancel
<1>1. IInv /\ [Next]_vars =>
        \A a \in Attempts : a \in cancelled /\ Waiting(a) => run'[a] # "exchange"
  <2>. SUFFICES ASSUME IInv, [Next]_vars, NEW a \in Attempts, a \in cancelled, Waiting(a),
                       run'[a] = "exchange"
                PROVE  FALSE
    OBVIOUS
  <2>1. run \in [Attempts -> Runs] /\ run[a] \in {"starting", "listening", "answering"}
    BY DEF IInv, LInv, AttemptsOK, Waiting
  <2>2. ASSUME NEW b \in Attempts, Open(b) \/ Close(b) \/ Accept(b) \/ Handled(b) \/ Step(b)
        PROVE  FALSE
    BY <2>1, <2>2 DEF Open, Close, Accept, Handled, Step, Begin, CallConnect, Take, Cancel,
         Acknowledge, Connected, OpenBrowser, GivesUp, CutShort, Collect, Respond, Exchange,
         Release, dialogs
  <2>3. CASE Configure \/ Recover \/ SettingsStep \/ OtherSignIn \/ RemoveAccount \/ UNCHANGED vars
    BY <2>1, <2>3 DEF Configure, Recover, SettingsStep, StoreId, StoreSecret, UseConfigured,
         Recovered, OtherSignIn, RemoveAccount, vars, dialogs
  <2>4. CASE Restart
    BY <2>1, <2>4 DEF Restart
  <2>. QED BY <2>2, <2>3, <2>4 DEF Next
<1>. QED BY <1>1, Invariance, PTL DEF Spec, NoGrantAfterCancel

(* A callback that was read decides its attempt. The lock is what keeps     *)
(* another attempt from emptying the listener meanwhile.                    *)
THEOREM CallbackCounts == Spec => ReadCallbackCounts
<1>. DEFINE Decided(a) ==
       \/ \E i \in DOMAIN conns' : conns'[i].read /\ Answers(conns'[i])
       \/ \E i \in Ready : Answers(conns[i]) /\ run'[a] =
              (IF conns[i].kind = "code" THEN "answering" ELSE "refused")
       \/ a \in cancelled' \/ faults' # faults
<1>1. ASSUME IInv, [Next]_vars, NEW a \in Attempts, run[a] = "listening", a \notin cancelled,
             NEW i \in Ready, Answers(conns[i])
      PROVE  Decided(a)
  <2>1. /\ lock = a /\ i \in DOMAIN conns /\ conns[i].read /\ Ready # {}
        /\ \A b \in Attempts : run[b] \in Running => b = a
        /\ run \in [Attempts -> Runs] /\ conns \in Seq(Conn)
    BY <1>1 DEF IInv, LInv, AttemptsOK, RunOK, Running, Ready, ListenerOK
  <2>2. ASSUME conns' = conns PROVE Decided(a)
    BY <1>1, <2>1, <2>2 DEF Answers
  <2>3. ASSUME NEW b \in Attempts, Handled(b) PROVE Decided(a)
    <3>1. PICK k \in DOMAIN conns : /\ ~conns[k].read
                                   /\ \E r : conns' = [conns EXCEPT ![k] = r]
      BY <2>3 DEF Handled
    <3>2. i # k /\ DOMAIN conns' = DOMAIN conns /\ conns'[i] = conns[i]
      BY <2>1, <3>1
    <3>. QED BY <1>1, <2>1, <3>2 DEF Answers
  <2>4. ASSUME NEW b \in Attempts, Collect(b) PROVE Decided(a)
    <3>1. b = a
      BY <2>1, <2>4 DEF Collect, Running
    <3>2. PICK k \in Ready :
            IF Answers(conns[k])
            THEN run' = [run EXCEPT ![a] = IF conns[k].kind = "code" THEN "answering" ELSE "refused"]
            ELSE conns' = RemoveAt(conns, k)
      BY <2>4, <3>1 DEF Collect
    <3>3. CASE Answers(conns[k])
      <4>1. run'[a] = IF conns[k].kind = "code" THEN "answering" ELSE "refused"
        BY <2>1, <3>2, <3>3
      <4>. QED BY <3>2, <3>3, <4>1
    <3>4. CASE ~Answers(conns[k])
      <4>. DEFINE j == IF i < k THEN i ELSE i - 1
      <4>1. i # k /\ k \in 1..Len(conns) /\ i \in 1..Len(conns)
        BY <1>1, <2>1, <3>2, <3>4 DEF Ready
      <4>2. j \in 1..(Len(conns) - 1) /\ (IF j < k THEN conns[j] ELSE conns[j + 1]) = conns[i]
        BY <2>1, <4>1
      <4>3. DOMAIN conns' = 1..(Len(conns) - 1) /\ conns'[j] = conns[i]
        <5>1. RemoveAt(conns, k) \in Seq(Conn) /\ Len(RemoveAt(conns, k)) = Len(conns) - 1
              /\ RemoveAt(conns, k)[j] = IF j < k THEN conns[j] ELSE conns[j + 1]
          BY <2>1, <4>1, <4>2, Removed
        <5>. QED BY <3>2, <3>4, <4>2, <5>1
      <4>. QED BY <1>1, <2>1, <4>2, <4>3 DEF Answers
    <3>. QED BY <3>3, <3>4
  <2>5. ASSUME NEW b \in Attempts,
               Open(b) \/ Close(b) \/ Accept(b) \/ (Step(b) /\ ~Collect(b))
        PROVE  conns' = conns
    BY <1>1, <2>1, <2>5 DEF Open, Close, Accept, Step, Begin, CallConnect, Take, Cancel,
       Acknowledge, Connected, OpenBrowser, GivesUp, CutShort, Respond, Exchange, Release,
       listener, Waiting, Running
  <2>6. CASE Configure \/ Recover \/ SettingsStep \/ OtherSignIn \/ RemoveAccount \/ UNCHANGED vars
    BY <2>2, <2>6 DEF Configure, Recover, SettingsStep, StoreId, StoreSecret, UseConfigured,
       Recovered, OtherSignIn, RemoveAccount, vars, listener
  <2>7. CASE Restart
    <3>1. faults' # faults
      <4>1. session.faults \in Nat /\ faults \in Nat
        BY <1>1, SignInAssumption DEF IInv, ConfigOK
      <4>. QED BY <2>7, <4>1 DEF Restart
    <3>. QED BY <3>1
  <2>. QED BY <1>1, <2>2, <2>3, <2>4, <2>5, <2>6, <2>7 DEF Next
<1>2. IInv /\ [Next]_vars =>
        \A a \in Attempts :
          /\ run[a] = "listening" /\ a \notin cancelled
          /\ \E i \in Ready : Answers(conns[i])
          => Decided(a)
  BY <1>1
<1>. QED BY <1>2, Invariance, PTL DEF Spec, ReadCallbackCounts
================================================================================
