-------------------------------- MODULE SignIn --------------------------------
(***************************************************************************)
(* Getting a grant from Google: the dialogs that begin, run and cancel an  *)
(* attempt (useAccountConnection and AccountConnections), the loopback     *)
(* listener that waits for the browser (oauth_listener), and the OAuth     *)
(* client the attempt uses, which configure_oauth, reset_oauth_config and  *)
(* the recovery of the client's secret change. connect_account_lock keeps  *)
(* the three apart. What becomes of the grant is Accounts.                 *)
(*                                                                         *)
(* An OAuth client is its id. A secret is the id of the client it belongs  *)
(* to, so a pair fits if the two are equal.                                *)
(***************************************************************************)
EXTENDS Integers, Sequences, FiniteSets, SequencesExt

CONSTANTS
  Attempts,       \* attempt ids; every dialog draws a new one
  Clients,        \* the clients a person may configure
  Default,        \* the client of from_env or default_config
  MaxInFlight,    \* MAX_IN_FLIGHT_CALLBACKS
  MaxCallbacks,   \* bound: connections per attempt
  Sessions        \* which dialogs are opened, whether the client is configured,
                  \* and how often the credential store fails or the app restarts

None == "none"
Free == "free"

ASSUME SignInAssumption ==
  /\ Default \notin Clients /\ None \notin Clients \cup {Default}
  /\ Attempts \cap {None, Free, "settings", "reauthenticate"} = {}
  /\ MaxInFlight \in Nat \ {0} /\ MaxCallbacks \in Nat
  /\ Sessions \subseteq [dialogs: SUBSET Attempts, configures: BOOLEAN, faults: Nat]

VARIABLES
  session,    \* the element of Sessions this behaviour belongs to
  ui,         \* attempt -> where its dialog is
  closed,     \* the attempts whose dialog was closed
  pending,    \* the registered attempt, or None
  reserved,   \* whether pending still holds its reservation
  cancelled,  \* the attempts that were told to stop
  done,       \* the attempts whose completion is signalled
  lock,       \* the holder of connect_account_lock, or Free
  run,        \* attempt -> where its connect_account command is
  client,     \* attempt -> the client its browser page was opened for
  conns,      \* connections of the listener, oldest first
  arrived,    \* connections so far
  memory,     \* oauth_config: [id, secret]
  storedId, storedSecret,   \* app_settings and the credential store
  settings,   \* the command on the configuration: [at, id]
  account,    \* the client that obtained the connected account, or None
  faults, torn

dialogs == <<ui, closed, pending, reserved, cancelled, done, run, client>>
listener == <<conns, arrived>>
config == <<memory, storedId, storedSecret, settings, torn>>
vars == <<session, dialogs, lock, listener, config, account, faults>>

NoCommand == [at |-> "idle", id |-> None]
Running == {"starting", "listening", "answering", "exchange"}

Init ==
  /\ session \in Sessions
  /\ ui = [a \in Attempts |-> "new"] /\ closed = {} /\ pending = None /\ reserved = FALSE
  /\ cancelled = {} /\ done = {} /\ lock = Free
  /\ run = [a \in Attempts |-> "none"] /\ client = [a \in Attempts |-> None]
  /\ conns = <<>> /\ arrived = 0
  /\ memory = [id |-> Default, secret |-> Default]
  /\ storedId = None /\ storedSecret = None /\ settings = NoCommand
  /\ account = None /\ faults = 0 /\ torn = FALSE

(***************************************************************************)
(* Registering an attempt. A reservation nobody took is given back first,  *)
(* with its lock, so a dialog that went away does not block the next one.  *)
(***************************************************************************)
Open(a) ==
  /\ ui[a] = "new" /\ a \in session.dialogs
  /\ ui' = [ui EXCEPT ![a] = "beginning"]
  /\ UNCHANGED <<session, closed, pending, reserved, cancelled, done, run, client,
                 lock, listener, config, account, faults>>

Begin(a) ==
  /\ ui[a] = "beginning"
  /\ LET now == IF reserved THEN Free ELSE lock
     IN /\ done' = IF reserved THEN done \cup {pending} ELSE done
        /\ IF now = Free
             THEN /\ lock' = a /\ pending' = a /\ reserved' = TRUE
                  /\ ui' = [ui EXCEPT ![a] = "registered"]
             ELSE /\ lock' = now /\ reserved' = FALSE /\ UNCHANGED pending
                  /\ ui' = [ui EXCEPT ![a] = "over"]
  /\ UNCHANGED <<session, closed, cancelled, run, client, listener, config, account, faults>>

\* The dialog goes on to connect_account unless it was closed meanwhile.
CallConnect(a) ==
  /\ ui[a] = "registered" /\ a \notin closed
  /\ ui' = [ui EXCEPT ![a] = "connecting"] /\ run' = [run EXCEPT ![a] = "called"]
  /\ UNCHANGED <<session, closed, pending, reserved, cancelled, done, client,
                 lock, listener, config, account, faults>>

TakeAny(a) ==   \* mutant: the reservation of whichever attempt is pending
  /\ run[a] = "called"
  /\ run' = [run EXCEPT ![a] = IF reserved THEN "starting" ELSE "failed"]
  /\ reserved' = FALSE
  /\ UNCHANGED <<session, ui, closed, pending, cancelled, done, client,
                 lock, listener, config, account, faults>>
Take(a) ==
  /\ run[a] = "called"
  /\ run' = [run EXCEPT ![a] = IF pending = a /\ reserved THEN "starting" ELSE "failed"]
  /\ reserved' = (reserved /\ pending # a)
  /\ UNCHANGED <<session, ui, closed, pending, cancelled, done, client,
                 lock, listener, config, account, faults>>

\* The person closes the dialog, or it is unmounted.
Close(a) ==
  /\ ui[a] \in {"beginning", "registered", "connecting"} /\ a \notin closed
  /\ closed' = closed \cup {a}
  /\ UNCHANGED <<session, ui, pending, reserved, cancelled, done, run, client,
                 lock, listener, config, account, faults>>

\* A closed dialog cancels its attempt once it is registered, an open one
\* after connect_account failed. Of another attempt than the pending one
\* there is nothing to cancel; otherwise the command waits for its end.
CancelTaken(a) ==   \* mutant: the reservation that was not taken is kept
  /\ \/ a \in closed /\ ui[a] \in {"registered", "connecting"}
     \/ ui[a] = "connecting" /\ run[a] = "failed"
  /\ IF pending # a
       THEN ui' = [ui EXCEPT ![a] = "over"] /\ closed' = closed \ {a} /\ UNCHANGED cancelled
       ELSE /\ ui' = [ui EXCEPT ![a] = "cancelling"] /\ UNCHANGED closed
            /\ cancelled' = cancelled \cup {a}
  /\ UNCHANGED <<session, pending, reserved, done, lock, run, client,
                 listener, config, account, faults>>
Cancel(a) ==
  /\ \/ a \in closed /\ ui[a] \in {"registered", "connecting"}
     \/ ui[a] = "connecting" /\ run[a] = "failed"
  /\ IF pending # a
       THEN /\ ui' = [ui EXCEPT ![a] = "over"] /\ closed' = closed \ {a}
            /\ UNCHANGED <<reserved, cancelled, done, lock>>
       ELSE /\ ui' = [ui EXCEPT ![a] = "cancelling"] /\ UNCHANGED closed
            /\ cancelled' = cancelled \cup {a}
            /\ reserved' = FALSE
            /\ done' = IF reserved THEN done \cup {a} ELSE done
            /\ lock' = IF reserved THEN Free ELSE lock
  /\ UNCHANGED <<session, pending, run, client, listener, config, account, faults>>

Acknowledge(a) ==
  /\ ui[a] = "cancelling" /\ a \in done
  /\ ui' = [ui EXCEPT ![a] = "over"] /\ closed' = closed \ {a}
  /\ UNCHANGED <<session, pending, reserved, cancelled, done, run, client,
                 lock, listener, config, account, faults>>

Connected(a) ==
  /\ ui[a] = "connecting" /\ run[a] = "connected" /\ a \notin closed
  /\ ui' = [ui EXCEPT ![a] = "over"]
  /\ UNCHANGED <<session, closed, pending, reserved, cancelled, done, run, client,
                 lock, listener, config, account, faults>>

(***************************************************************************)
(* connect_account. Up to the grant a cancellation is looked at first      *)
(* (the biased select of wait_for_authorization); after it the command     *)
(* finishes. The lock is dropped before the completion is.                 *)
(***************************************************************************)
Waiting(a) == run[a] \in {"starting", "listening", "answering"}

OpenBrowser(a) ==
  /\ run[a] = "starting" /\ a \notin cancelled
  /\ LET secret == IF memory.secret = None /\ storedId = memory.id THEN storedSecret
                   ELSE memory.secret
     IN /\ memory' = [memory EXCEPT !.secret = secret]
        /\ run' = [run EXCEPT ![a] = IF secret = None THEN "refused" ELSE "listening"]
  /\ client' = [client EXCEPT ![a] = memory.id]
  /\ conns' = <<>> /\ arrived' = 0
  /\ UNCHANGED <<session, ui, closed, pending, reserved, cancelled, done, lock,
                 storedId, storedSecret, settings, torn, account, faults>>

\* The keychain, the listener or the browser fails, or the time is up: a
\* callback that was read by then is taken instead.
Ready == {i \in DOMAIN conns : conns[i].read}
Answers(c) == c.kind \in {"code", "denied"}
GivesUp(a) ==
  /\ run[a] \in {"starting", "listening"} /\ a \notin cancelled /\ Ready = {}
  /\ run' = [run EXCEPT ![a] = "refused"] /\ conns' = <<>>
  /\ UNCHANGED <<session, ui, closed, pending, reserved, cancelled, done, client,
                 lock, arrived, config, account, faults>>

CutShort(a) ==
  /\ Waiting(a) /\ a \in cancelled
  /\ run' = [run EXCEPT ![a] = "refused"] /\ conns' = <<>>
  /\ UNCHANGED <<session, ui, closed, pending, reserved, cancelled, done, client,
                 lock, arrived, config, account, faults>>

\* The response to the browser is sent before the grant is handed on.
RespondEvenCancelled(a) ==   \* mutant: the select is not biased
  /\ run[a] = "answering"
  /\ run' = [run EXCEPT ![a] = "exchange"]
  /\ UNCHANGED <<session, ui, closed, pending, reserved, cancelled, done, client,
                 lock, listener, config, account, faults>>
Respond(a) ==
  /\ run[a] = "answering" /\ a \notin cancelled
  /\ run' = [run EXCEPT ![a] = "exchange"]
  /\ UNCHANGED <<session, ui, closed, pending, reserved, cancelled, done, client,
                 lock, listener, config, account, faults>>

Exchange(a) ==
  /\ run[a] = "exchange"
  /\ \/ account' = memory.id /\ run' = [run EXCEPT ![a] = "stored"]
     \/ run' = [run EXCEPT ![a] = "refused"] /\ UNCHANGED account
  /\ UNCHANGED <<session, ui, closed, pending, reserved, cancelled, done, client,
                 lock, listener, config, faults>>

Release(a) ==
  /\ \/ /\ run[a] \in {"stored", "refused"} /\ lock = a
        /\ lock' = Free /\ UNCHANGED <<done, run>>
     \/ /\ run[a] \in {"stored", "refused"} /\ lock # a
        /\ done' = done \cup {a} /\ UNCHANGED lock
        /\ run' = [run EXCEPT ![a] = IF run[a] = "stored" THEN "connected" ELSE "failed"]
  /\ UNCHANGED <<session, ui, closed, pending, reserved, cancelled, client,
                 listener, config, account, faults>>

(***************************************************************************)
(* The listener. Every connection has a handler of its own; at most        *)
(* MaxInFlight at a time, and a new one takes the place of the oldest. A   *)
(* handler that has read a request answers it itself unless it is a        *)
(* callback with the expected state: those end the wait.                   *)
(***************************************************************************)
Kinds == {"code", "denied", "other"}   \* other: not a callback, or not ours

AcceptEvictingRead(a) ==   \* mutant: the limit is enforced before results are looked at
  /\ run[a] = "listening" /\ arrived < MaxCallbacks
  /\ arrived' = arrived + 1
  /\ \E k \in Kinds :
       conns' = Append(IF Len(conns) = MaxInFlight THEN Tail(conns) ELSE conns,
                       [kind |-> k, read |-> FALSE])
  /\ UNCHANGED <<session, dialogs, lock, config, account, faults>>
AcceptUnlimited(a) ==   \* mutant: the oldest connection stays
  /\ run[a] = "listening" /\ a \notin cancelled /\ Ready = {} /\ arrived < MaxCallbacks
  /\ arrived' = arrived + 1
  /\ \E k \in Kinds : conns' = Append(conns, [kind |-> k, read |-> FALSE])
  /\ UNCHANGED <<session, dialogs, lock, config, account, faults>>
Accept(a) ==
  /\ run[a] = "listening" /\ a \notin cancelled /\ Ready = {} /\ arrived < MaxCallbacks
  /\ arrived' = arrived + 1
  /\ \E k \in Kinds :
       conns' = Append(IF Len(conns) = MaxInFlight THEN Tail(conns) ELSE conns,
                       [kind |-> k, read |-> FALSE])
  /\ UNCHANGED <<session, dialogs, lock, config, account, faults>>

\* The handler is through: a request that took too long counts as none.
Handled(a) ==
  /\ run[a] = "listening"
  /\ \E i \in DOMAIN conns :
       /\ ~conns[i].read
       /\ \E k \in {conns[i].kind, "other"} :
            conns' = [conns EXCEPT ![i] = [kind |-> k, read |-> TRUE]]
  /\ UNCHANGED <<session, dialogs, lock, arrived, config, account, faults>>

Collect(a) ==
  /\ run[a] = "listening" /\ a \notin cancelled
  /\ \E i \in Ready :
       IF Answers(conns[i])
         THEN /\ conns' = <<>>
              /\ run' = [run EXCEPT ![a] =
                           IF conns[i].kind = "code" THEN "answering" ELSE "refused"]
         ELSE conns' = RemoveAt(conns, i) /\ UNCHANGED run
  /\ UNCHANGED <<session, ui, closed, pending, reserved, cancelled, done, client,
                 lock, arrived, config, account, faults>>

(***************************************************************************)
(* The OAuth client. Configuring writes the id to the database, then the   *)
(* secret to the credential store, then the pair in memory; resetting does *)
(* the same in the other direction. The id cannot change while there is an *)
(* account.                                                                *)
(***************************************************************************)
ConfigureUnlocked ==   \* mutant: the lock is not taken
  /\ settings = NoCommand /\ session.configures
  /\ \E c \in Clients \cup {Default} :
       /\ account = None \/ memory.id = c
       /\ settings' = [at |-> "id", id |-> c]
  /\ UNCHANGED <<session, dialogs, lock, listener, memory, storedId, storedSecret, torn, account, faults>>
Configure ==
  /\ settings = NoCommand /\ lock = Free /\ session.configures
  /\ \E c \in Clients \cup {Default} :
       /\ account = None \/ memory.id = c
       /\ settings' = [at |-> "id", id |-> c]
  /\ lock' = "settings"
  /\ UNCHANGED <<session, dialogs, listener, memory, storedId, storedSecret, torn, account, faults>>

Stored(c) == IF c = Default THEN None ELSE c   \* resetting empties both stores
StoreId ==
  /\ settings.at = "id"
  /\ storedId' = Stored(settings.id)
  /\ settings' = [settings EXCEPT !.at = "secret"]
  /\ UNCHANGED <<session, dialogs, lock, listener, memory, storedSecret, torn, account, faults>>

EndSettings == settings' = NoCommand /\ lock' = IF lock = "settings" THEN Free ELSE lock

StoreSecret ==
  /\ settings.at = "secret"
  /\ \/ /\ storedSecret' = Stored(settings.id)
        /\ settings' = [settings EXCEPT !.at = "memory"]
        /\ UNCHANGED <<lock, torn, faults>>
     \/ /\ faults < session.faults /\ faults' = faults + 1
        /\ torn' = TRUE /\ EndSettings /\ UNCHANGED storedSecret
  /\ UNCHANGED <<session, dialogs, listener, memory, storedId, account>>

UseConfigured ==
  /\ settings.at = "memory"
  /\ memory' = [id |-> settings.id, secret |-> settings.id]
  /\ EndSettings
  /\ UNCHANGED <<session, dialogs, listener, storedId, storedSecret, torn, account, faults>>

\* get_oauth_config and a token refresh fetch a secret that the credential
\* store did not give at startup: if nobody signs in or configures.
Recover ==
  /\ settings = NoCommand /\ lock = Free
  /\ memory.secret = None /\ storedId = memory.id
  /\ settings' = [at |-> "recover", id |-> storedSecret]
  /\ lock' = "settings"
  /\ UNCHANGED <<session, dialogs, listener, memory, storedId, storedSecret, torn, account, faults>>

Recovered ==
  /\ settings.at = "recover"
  /\ memory' = [memory EXCEPT !.secret = settings.id]
  /\ EndSettings
  /\ UNCHANGED <<session, dialogs, listener, storedId, storedSecret, torn, account, faults>>

(***************************************************************************)
(* Around: another sign-in (reauthenticate_account), the removal of the    *)
(* account, which take no part in the above but the lock, and a restart.   *)
(***************************************************************************)
OtherSignIn ==
  /\ \/ lock = Free /\ lock' = "reauthenticate"
     \/ lock = "reauthenticate" /\ lock' = Free
  /\ UNCHANGED <<session, dialogs, listener, config, account, faults>>

RemoveAccount ==
  /\ account # None /\ account' = None
  /\ UNCHANGED <<session, dialogs, lock, listener, config, faults>>

\* Whatever the credential store can give at startup.
Resolved ==
  IF storedId = None THEN {[id |-> Default, secret |-> Default]}
  ELSE {[id |-> storedId, secret |-> s] : s \in {storedSecret, None}}
Restart ==
  /\ faults < session.faults /\ faults' = faults + 1
  /\ ui' = [a \in Attempts |-> IF ui[a] = "new" THEN "new" ELSE "over"]
  /\ run' = [a \in Attempts |-> IF run[a] = "none" THEN "none" ELSE "failed"]
  /\ closed' = {} /\ pending' = None /\ reserved' = FALSE /\ cancelled' = {} /\ done' = {}
  /\ client' = [a \in Attempts |-> None]
  /\ lock' = Free /\ conns' = <<>> /\ arrived' = 0
  /\ memory' \in Resolved /\ settings' = NoCommand
  /\ torn' = (torn \/ settings.at \in {"secret"})
  /\ UNCHANGED <<session, storedId, storedSecret, account>>

Step(a) ==
  \/ Begin(a) \/ CallConnect(a) \/ Take(a) \/ Cancel(a) \/ Acknowledge(a) \/ Connected(a)
  \/ OpenBrowser(a) \/ GivesUp(a) \/ CutShort(a) \/ Collect(a) \/ Respond(a)
  \/ Exchange(a) \/ Release(a)
SettingsStep == StoreId \/ StoreSecret \/ UseConfigured \/ Recovered

Next ==
  \/ \E a \in Attempts : Open(a) \/ Close(a) \/ Accept(a) \/ Handled(a) \/ Step(a)
  \/ Configure \/ Recover \/ SettingsStep
  \/ OtherSignIn \/ RemoveAccount \/ Restart

Spec == Init /\ [][Next]_vars

\* The dialog's promises and the commands go on; the listener, the browser's
\* answer and the exchange have timeouts, so GivesUp is a step like the others.
Fairness == (\A a \in Attempts : WF_vars(Step(a))) /\ WF_vars(SettingsStep)
FairSpec == Spec /\ Fairness

(***************************************************************************)
(* Properties                                                              *)
(***************************************************************************)
Pair == [id: Clients \cup {Default}, secret: Clients \cup {Default, None}]

TypeOK ==
  /\ session \in Sessions
  /\ ui \in [Attempts -> {"new", "beginning", "registered", "connecting", "cancelling", "over"}]
  /\ closed \subseteq Attempts /\ cancelled \subseteq Attempts /\ done \subseteq Attempts
  /\ pending \in Attempts \cup {None} /\ reserved \in BOOLEAN
  /\ reserved => lock = pending /\ pending \notin done
  /\ lock \in Attempts \cup {Free, "settings", "reauthenticate"}
  /\ run \in [Attempts -> Running \cup {"none", "called", "stored", "refused",
                                       "connected", "failed"}]
  /\ client \in [Attempts -> Clients \cup {Default, None}]
  /\ conns \in Seq([kind: Kinds, read: BOOLEAN]) /\ Len(conns) <= MaxInFlight
  /\ arrived \in 0..MaxCallbacks
  /\ memory \in Pair /\ storedId \in Clients \cup {None} /\ storedSecret \in Clients \cup {None}
  /\ settings \in [at: {"idle", "id", "secret", "memory", "recover"},
                   id: Clients \cup {Default, None}]
  /\ account \in Clients \cup {Default, None} /\ faults \in 0..session.faults /\ torn \in BOOLEAN

\* When a dialog is told that its attempt is over, the attempt is: nothing of
\* it runs any more and the next one finds the lock free ("Closure is the
\* acknowledgement, including any token persistence already in flight").
CancelMeansOver ==
  \A a \in Attempts : ui[a] = "over" => run[a] \notin Running /\ lock # a

\* A code that Google gave for one client is exchanged as that client, with the
\* secret of that client, and the accounts belong to the client in use.
OneClient ==
  ~torn => /\ memory.secret \in {memory.id, None}
           /\ \A a \in Attempts : run[a] \in {"listening", "answering", "exchange"} =>
                                    client[a] = memory.id
           /\ account # None /\ settings = NoCommand => account = memory.id

\* A cancellation that comes before the grant keeps the grant from being used.
NoGrantAfterCancel ==
  [][\A a \in Attempts : a \in cancelled /\ Waiting(a) => run'[a] # "exchange"]_vars

\* A callback that was read decides the attempt: connections that pile up
\* behind it or the end of the waiting time do not discard it.
ReadCallbackCounts ==
  [][\A a \in Attempts :
       /\ run[a] = "listening" /\ a \notin cancelled
       /\ \E i \in Ready : Answers(conns[i])
       => \/ \E i \in DOMAIN conns' : conns'[i].read /\ Answers(conns'[i])
          \/ \E i \in Ready : Answers(conns[i]) /\ run'[a] =
                 (IF conns[i].kind = "code" THEN "answering" ELSE "refused")
          \/ a \in cancelled' \/ faults' # faults]_vars

\* Every dialog that is opened ends.
DialogEnds == \A a \in Attempts : ui[a] = "beginning" ~> ui[a] = "over"
================================================================================
