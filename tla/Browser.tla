------------------------------- MODULE Browser -------------------------------
(***************************************************************************)
(* The Drive file browser of one account: what DriveFileBrowser keeps on   *)
(* the screen while listings, renames, removals to the trash, a new        *)
(* sign-in and refreshes of the account registry answer in any order, and  *)
(* what DriveBrowserService and the Drive client make of each request.     *)
(* Switching accounts remounts the component (its key in App), so one      *)
(* account is enough. While a dialog is open the page behind it is inert,  *)
(* but Escape and Close dismiss a dialog whose request is still running.   *)
(*                                                                         *)
(* A listing is a folder in a sort order. What it contains is a number,    *)
(* the version of the folder, which every edit raises.                     *)
(***************************************************************************)
EXTENDS Integers, Sequences, FiniteSets, SequencesExt

CONSTANTS
  Folders,     \* the folders and folder shortcuts a person can open
  Root,        \* My Drive, where the browser starts
  Orders,      \* the sort orders
  Pages,       \* pages of a listing
  Visits       \* bounds of a behaviour: the calls of loadFolder, the files renamed
               \* or trashed, and the changes to the account made elsewhere

ASSUME BrowserAssumption ==
  /\ Root \in Folders
  /\ Pages \in Nat \ {0}
  /\ Visits \subseteq [loads: Nat \ {0}, edits: Nat, changes: Nat]

VARIABLES
  visit,      \* the element of Visits this behaviour belongs to
  path,       \* breadcrumbs
  order,      \* sortField and sortOrder
  items,      \* the pages on the screen, each [listing, page, version]
  next,       \* nextPageToken: [listing, page], or NoToken
  loading, loadingMore,
  error,      \* "none", "auth" or "other"
  reauthenticationRequired,
  reauthenticating,   \* "no", "asked", "signed in" or "reloading"
  latest,     \* activeReqIdRef
  loads,      \* the calls of loadFolder under way
  dialog,     \* the rename or trash dialog: [kind, busy]
  edits,      \* confirmed dialogs whose requests are under way
  auth,       \* the account's status in the store
  revoked,    \* whether Google rejects the account's token
  shown,      \* the status in the account property of the component
  registryError,      \* whether the last load of the registry failed
  refreshes,  \* loads of the account registry under way
  unseen,     \* whether a listing marked the account and nobody loaded the registry since
  version, due,       \* per folder: its content, and what the person was told is done
  strayed,    \* whether an edit last reloaded a listing the person had left
  edited, changes     \* so far

screen == <<items, next, loading, loadingMore, error, reauthenticationRequired, latest, loads>>
account == <<auth, revoked, changes>>
registry == <<shown, registryError, refreshes, unseen>>
drive == <<version, due, edited>>
editing == <<dialog, edits>>
vars == <<visit, path, order, screen, reauthenticating, editing, account, registry, drive, strayed>>

Statuses == {"CONNECTED", "REAUTH_REQUIRED", "DISCONNECTED"}
NoToken == [listing |-> [folder |-> Root, order |-> 0], page |-> 0]
NoDialog == [kind |-> "none", busy |-> FALSE]
Asked == [folder |-> Last(path), order |-> order]
Lost(status) == status \in {"REAUTH_REQUIRED", "DISCONNECTED"}

\* Which button the error row offers.
NeedsReauthentication == reauthenticationRequired \/ Lost(shown)

\* Reachable for the person: no dialog makes the page inert.
Reachable == dialog = NoDialog

Init ==
  /\ visit \in Visits
  /\ path = <<Root>> /\ order \in Orders
  /\ items = <<>> /\ next = NoToken
  /\ loading = TRUE /\ loadingMore = FALSE
  /\ error = "none" /\ reauthenticationRequired = FALSE /\ reauthenticating = "no"
  /\ latest = 1
  /\ loads = {[id |-> 1, listing |-> [folder |-> Root, order |-> order], token |-> NoToken,
               kind |-> "open", step |-> "asked", answer |-> NoToken, version |-> 0]}
  /\ dialog = NoDialog /\ edits = {}
  /\ auth \in Statuses /\ revoked \in BOOLEAN
  /\ visit.changes = 0 => auth = "CONNECTED" /\ ~revoked
  /\ shown = auth /\ registryError = FALSE /\ refreshes = {} /\ unseen = FALSE
  /\ version = [f \in Folders |-> 0] /\ due = [f \in Folders |-> 0]
  /\ strayed = FALSE /\ edited = 0 /\ changes = 0

(***************************************************************************)
(* loadFolder up to its await. The newest call is the one that counts.     *)
(***************************************************************************)
LoadFolder(listing, token, kind) ==
  /\ latest < visit.loads
  /\ latest' = latest + 1
  /\ loads' = loads \union {[id |-> latest + 1, listing |-> listing, token |-> token,
                             kind |-> kind, step |-> "asked", answer |-> NoToken,
                             version |-> 0]}
  /\ IF kind = "append"
     THEN loadingMore' = TRUE /\ UNCHANGED <<loading, error>>
     ELSE loading' = TRUE /\ error' = "none" /\ UNCHANGED loadingMore
  /\ UNCHANGED <<items, next>>

\* A load the person asked for, of the listing asked for from now on.
Browse(listing) ==
  /\ Reachable
  /\ LoadFolder(listing, NoToken, "open")
  /\ strayed' = FALSE
  /\ UNCHANGED <<reauthenticationRequired, reauthenticating, editing, account, registry, drive>>

ItemsVisible == ~loading /\ error = "none" /\ items # <<>>

\* A folder that is already on the trail is gone back to, not appended. A
\* shortcut to the current folder replaces its crumb, so that it loads again.
OpenFolder ==
  \E f \in Folders :
    /\ ItemsVisible
    /\ \/ \E i \in DOMAIN path : /\ path[i] = f /\ \A j \in 1..(i - 1) : path[j] # f
                                /\ path' = SubSeq(path, 1, i)
       \/ f \notin ToSet(path) /\ path' = Append(path, f)
    /\ Browse([folder |-> f, order |-> order])
    /\ UNCHANGED order

OpenBreadcrumb ==
  \E i \in 1..(Len(path) - 1) :
    /\ path' = SubSeq(path, 1, i)
    /\ Browse([folder |-> path[i], order |-> order])
    /\ UNCHANGED order

HandleSortKeepingRows ==
  \E o \in Orders \ {order} :
    /\ Reachable
    /\ order' = o
    /\ UNCHANGED <<path, screen, reauthenticating, editing, account, registry, drive, strayed>>

HandleSort ==
  \E o \in Orders \ {order} :
    /\ order' = o
    /\ Browse([folder |-> Last(path), order |-> o])
    /\ UNCHANGED path

Refresh ==
  /\ ~loading
  /\ Browse(Asked)
  /\ UNCHANGED <<path, order>>

LoadMore ==
  /\ next # NoToken /\ ~loading /\ ~loadingMore /\ Reachable
  /\ LoadFolder(Asked, next, "append")
  /\ UNCHANGED <<path, order, reauthenticationRequired, reauthenticating, editing, account,
                 registry, drive, strayed>>

(***************************************************************************)
(* list_files: the account must be connected, a rejected token marks it,   *)
(* and a page token continues the listing it belongs to. Drive may refuse  *)
(* a token of another listing, and a request may fail on its way.          *)
(***************************************************************************)
Continued(l) == IF l.token = NoToken THEN [listing |-> l.listing, page |-> 1] ELSE l.token
FollowingBeyond(p) == [p EXCEPT !.page = @ + 1]
Following(p) == IF p.page < Pages THEN [p EXCEPT !.page = @ + 1] ELSE NoToken

Answered(l, result) == loads' = (loads \ {l}) \union {result}

Rejected(l) ==
  /\ auth # "CONNECTED" \/ revoked
  /\ auth' = IF auth = "CONNECTED" THEN "REAUTH_REQUIRED" ELSE auth
  /\ unseen' = (unseen \/ auth = "CONNECTED")
  /\ Answered(l, [l EXCEPT !.step = "auth"])

Listed(l) ==
  /\ auth = "CONNECTED" /\ ~revoked
  /\ Answered(l, [l EXCEPT !.step = "listed", !.answer = Continued(l),
                           !.version = version[Continued(l).listing.folder]])
  /\ UNCHANGED <<auth, unseen>>

Unreachable(l) ==
  /\ auth = "CONNECTED"
  /\ Answered(l, [l EXCEPT !.step = "other"])
  /\ UNCHANGED <<auth, unseen>>

ListFiles ==
  /\ \E l \in loads : l.step = "asked" /\ (Rejected(l) \/ Listed(l) \/ Unreachable(l))
  /\ UNCHANGED <<path, order, items, next, loading, loadingMore, error, reauthenticationRequired,
                 latest, reauthenticating, editing, revoked, changes, shown, registryError,
                 refreshes, drive, strayed>>

\* The registry's newest load counts: older ones answer null.
RefreshRegistry(load) ==
  /\ refreshes' = {[r EXCEPT !.current = FALSE] : r \in refreshes}
                    \union {[load |-> load, current |-> TRUE, answer |-> "asked"]}
  /\ unseen' = FALSE

AnyIsLatest(l) == l.id \in 1..latest
IsLatest(l) == l.id = latest

\* The call of loadFolder returns, and with it the retry that awaits it.
Return(l) ==
  /\ loads' = loads \ {l}
  /\ reauthenticating' = IF l.kind = "retry" THEN "no" ELSE reauthenticating

\* A page arrives.
ShowPage ==
  /\ \E l \in loads :
       /\ l.step = "listed"
       /\ Return(l)
       /\ IF IsLatest(l)
          THEN LET page == [listing |-> l.answer.listing, page |-> l.answer.page,
                            version |-> l.version]
               IN  /\ items' = IF l.kind = "append" THEN Append(items, page) ELSE <<page>>
                   /\ next' = Following(l.answer)
                   /\ reauthenticationRequired' = FALSE
                   /\ loading' = FALSE /\ loadingMore' = FALSE
          ELSE UNCHANGED <<items, next, reauthenticationRequired, loading, loadingMore>>
  /\ UNCHANGED <<path, order, error, latest, editing, account, registry, drive, strayed>>

\* A failure arrives: the account's status is asked for before it is shown.
AskStatus ==
  /\ \E l \in loads :
       /\ l.step \in {"auth", "other"}
       /\ \/ /\ IsLatest(l)
             /\ Answered(l, [l EXCEPT !.step = IF @ = "auth" THEN "status of auth"
                                                             ELSE "status of other"])
             /\ RefreshRegistry(l.id)
             /\ UNCHANGED reauthenticating
          \/ ~IsLatest(l) /\ Return(l) /\ UNCHANGED <<refreshes, unseen>>
  /\ UNCHANGED <<path, order, items, next, loading, loadingMore, error, reauthenticationRequired,
                 latest, editing, account, shown, registryError, drive, strayed>>

(***************************************************************************)
(* useAccountRegistry: list_accounts reads the store or fails, and the     *)
(* newest load updates the account property. The load of a folder that     *)
(* waits for it goes on with the status, or with null.                     *)
(***************************************************************************)
ReadRegistry ==
  /\ \E r \in refreshes, answer \in {auth, "failed"} :
       /\ r.answer = "asked"
       /\ refreshes' = (refreshes \ {r}) \union {[r EXCEPT !.answer = answer]}
  /\ UNCHANGED <<path, order, screen, reauthenticating, editing, account, shown, registryError,
                 unseen, drive, strayed>>

ShowFailure(l, status) ==
  /\ Return(l)
  /\ IF IsLatest(l)
     THEN /\ reauthenticationRequired' = Lost(status)
          /\ error' = IF l.step = "status of auth" THEN "auth" ELSE "other"
          /\ loading' = FALSE /\ loadingMore' = FALSE
     ELSE UNCHANGED <<reauthenticationRequired, error, loading, loadingMore>>

RegistryLoaded ==
  /\ \E r \in refreshes :
       /\ r.answer # "asked"
       /\ refreshes' = refreshes \ {r}
       /\ shown' = IF r.current /\ r.answer # "failed" THEN r.answer ELSE shown
       /\ registryError' = IF r.current THEN r.answer = "failed" ELSE registryError
       /\ \/ \E l \in loads : l.id = r.load /\ ShowFailure(l, IF r.current THEN r.answer ELSE "null")
          \/ /\ \A l \in loads : l.id # r.load
             /\ UNCHANGED <<loads, reauthenticating, reauthenticationRequired, error, loading,
                            loadingMore>>
  /\ UNCHANGED <<path, order, items, next, latest, editing, account, unseen, drive, strayed>>

(***************************************************************************)
(* The button of the error row. After a sign-in the view of that moment is *)
(* loaded, not the one the button was pressed in.                          *)
(***************************************************************************)
Retry ==
  /\ error # "none" /\ ~loading /\ reauthenticating = "no" /\ ~NeedsReauthentication
  /\ Browse(Asked)
  /\ UNCHANGED <<path, order>>

Reauthenticate ==
  /\ error # "none" /\ ~loading /\ reauthenticating = "no" /\ NeedsReauthentication
  /\ Reachable
  /\ reauthenticating' = "asked"
  /\ UNCHANGED <<path, order, screen, editing, account, registry, drive, strayed>>

\* The command connects the account and announces it; the registry reloads.
SignIn ==
  /\ reauthenticating = "asked"
  /\ reauthenticating' = "signed in"
  /\ auth' = "CONNECTED" /\ revoked' = FALSE
  /\ RefreshRegistry(0)
  /\ UNCHANGED <<path, order, screen, editing, changes, shown, registryError, drive, strayed>>

Reconnected ==
  /\ reauthenticating = "signed in"
  /\ reauthenticating' = "reloading"
  /\ reauthenticationRequired' = FALSE
  /\ LoadFolder(Asked, NoToken, "retry")
  /\ strayed' = FALSE
  /\ UNCHANGED <<path, order, editing, account, registry, drive>>

SignInFails ==
  /\ reauthenticating = "asked"
  /\ reauthenticating' = "no"
  /\ error' = "auth" /\ reauthenticationRequired' = TRUE
  /\ UNCHANGED <<path, order, items, next, loading, loadingMore, latest, loads, editing, account,
                 registry, drive, strayed>>

(***************************************************************************)
(* Rename and trash. The confirmed dialog keeps the view it was rendered   *)
(* in and reloads that one. A removal goes file by file and stops at the   *)
(* first failure; a file can be changed although its answer is lost.       *)
(***************************************************************************)
OpenDialog ==
  /\ ItemsVisible /\ Reachable
  /\ \E kind \in {"rename", "trash"} : dialog' = [kind |-> kind, busy |-> FALSE]
  /\ UNCHANGED <<path, order, screen, reauthenticating, edits, account, registry, drive, strayed>>

Confirm ==
  /\ dialog # NoDialog /\ ~dialog.busy
  /\ dialog' = [dialog EXCEPT !.busy = TRUE]
  /\ \E files \in 1..(visit.edits - edited) :
       /\ dialog.kind = "rename" => files = 1
       /\ edited' = edited + files
       /\ edits' = edits \union {[kind |-> dialog.kind, listing |-> Asked, files |-> files,
                                  open |-> TRUE]}
  /\ UNCHANGED <<path, order, screen, reauthenticating, account, registry, version, due, strayed>>

\* Cancel, Escape or Close; only Cancel is disabled while the request runs.
Dismiss ==
  /\ dialog # NoDialog
  /\ dialog' = NoDialog
  /\ edits' = {[e EXCEPT !.open = FALSE] : e \in edits}
  /\ UNCHANGED <<path, order, screen, reauthenticating, account, registry, drive, strayed>>

EditFile ==
  /\ \E e \in edits :
       /\ e.files > 0 /\ auth = "CONNECTED" /\ ~revoked
       /\ version' = [version EXCEPT ![e.listing.folder] = @ + 1]
       /\ edits' = (edits \ {e}) \union {[e EXCEPT !.files = @ - 1]}
  /\ UNCHANGED <<path, order, screen, reauthenticating, dialog, account, registry, due, edited,
                 strayed>>

\* A failure, or the answer to the last request, is lost: the dialog says so.
EditFails ==
  /\ \E e \in edits :
       /\ edits' = edits \ {e}
       /\ dialog' = IF e.open THEN [dialog EXCEPT !.busy = FALSE] ELSE dialog
  /\ UNCHANGED <<path, order, screen, reauthenticating, account, registry, drive, strayed>>

EditDone ==
  /\ \E e \in edits :
       /\ e.files = 0
       /\ edits' = edits \ {e}
       /\ dialog' = IF dialog.kind = e.kind THEN NoDialog ELSE dialog
       /\ due' = [due EXCEPT ![e.listing.folder] = version[e.listing.folder]]
       /\ LoadFolder(e.listing, NoToken, "open")
       /\ strayed' = (e.listing # Asked)
  /\ UNCHANGED <<path, order, reauthenticationRequired, reauthenticating, account, registry,
                 version, edited>>

(***************************************************************************)
(* The account changes elsewhere: Google revokes it, a job marks it, or    *)
(* the account menu disconnects or reconnects it. All but the first are    *)
(* announced and reload the registry.                                      *)
(***************************************************************************)
Revoke ==
  /\ changes < visit.changes
  /\ changes' = changes + 1
  /\ revoked' = TRUE
  /\ UNCHANGED <<path, order, screen, reauthenticating, editing, auth, registry, drive, strayed>>

ChangeAccount ==
  /\ changes < visit.changes
  /\ changes' = changes + 1
  /\ \E status \in Statuses \ {auth} :
       /\ auth' = status
       /\ revoked' = (revoked /\ status # "CONNECTED")
  /\ RefreshRegistry(0)
  /\ UNCHANGED <<path, order, screen, reauthenticating, editing, shown, registryError, drive,
                 strayed>>

Next ==
  /\ \/ OpenFolder \/ OpenBreadcrumb \/ HandleSort \/ Refresh \/ LoadMore
     \/ ListFiles \/ ShowPage \/ AskStatus \/ ReadRegistry \/ RegistryLoaded
     \/ Retry \/ Reauthenticate \/ SignIn \/ Reconnected \/ SignInFails
     \/ OpenDialog \/ Confirm \/ Dismiss \/ EditFile \/ EditFails \/ EditDone
     \/ Revoke \/ ChangeAccount
  /\ UNCHANGED visit

Spec == Init /\ [][Next]_vars

(***************************************************************************)
(* What must hold.                                                         *)
(***************************************************************************)
Listings == [folder: Folders, order: Orders]
Tokens == [listing: Listings, page: 1..Pages] \union {NoToken}
Steps == {"asked", "listed", "auth", "other", "status of auth", "status of other"}

\* Every variable stays in its type.
TypeOK ==
  /\ visit \in Visits
  /\ path \in Seq(Folders) /\ path # <<>> /\ order \in Orders
  /\ items \in Seq([listing: Listings, page: 1..Pages, version: Nat])
  /\ next \in Tokens
  /\ {loading, loadingMore, reauthenticationRequired, revoked, registryError, unseen, strayed}
       \subseteq BOOLEAN
  /\ error \in {"none", "auth", "other"} /\ reauthenticating \in {"no", "asked", "signed in", "reloading"}
  /\ latest \in 1..visit.loads
  /\ loads \subseteq [id: 1..latest, listing: Listings, token: Tokens,
                      kind: {"open", "append", "retry"}, step: Steps, answer: Tokens, version: Nat]
  /\ dialog \in [kind: {"none", "rename", "trash"}, busy: BOOLEAN]
  /\ edits \subseteq [kind: {"rename", "trash"}, listing: Listings, files: 0..visit.edits,
                      open: BOOLEAN]
  /\ auth \in Statuses /\ shown \in Statuses
  /\ refreshes \subseteq [load: 0..visit.loads, current: BOOLEAN,
                          answer: Statuses \union {"asked", "failed"}]
  /\ version \in [Folders -> Nat] /\ due \in [Folders -> Nat]
  /\ edited \in 0..visit.edits /\ changes \in 0..visit.changes

\* The rows, also while a spinner or an error hides them, are the first pages
\* of one listing, in order and without a gap or a repetition, whatever
\* answered in which order (the comparisons with activeReqIdRef in loadFolder).
OneListing ==
  \A i \in DOMAIN items : items[i].page = i /\ items[i].listing = items[1].listing

Quiet == loads = {} /\ refreshes = {} /\ edits = {} /\ reauthenticating = "no"

\* When nothing is under way the spinner is gone, and the screen shows the
\* folder and order asked for with every change the person was told is done,
\* or an error whose button is the right one: an account that must sign in is
\* offered that. Excepted is a dialog dismissed while its request ran: its
\* reload brings back the view it was opened in (strayed); and an account that
\* an abandoned listing marked after everybody had asked for its status
\* (unseen).
SettledScreen ==
  Quiet =>
    /\ ~loading /\ ~loadingMore
    /\ error = "none" /\ ~strayed =>
         /\ items # <<>>
         /\ \A i \in DOMAIN items : /\ items[i].listing = Asked
                                    /\ items[i].version >= due[Asked.folder]
    /\ auth # "CONNECTED" => Lost(shown) \/ registryError \/ unseen
================================================================================
