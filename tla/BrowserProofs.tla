------------------------------ MODULE BrowserProofs ------------------------------
(***************************************************************************)
(* Theorems about the Drive browser, for any folders, orders and pages,    *)
(* any number of listings, edits and changes of the account, and answers   *)
(* in any order.                                                           *)
(***************************************************************************)
EXTENDS Browser, SequenceTheorems, TLAPS

--------------------------------------------------------------------------------
(* What is known of a call of loadFolder: only a further page is asked for  *)
(* by a token, and the answer is the page that was asked for. No two calls  *)
(* have a number in common.                                                 *)
LoadOK(l) ==
  /\ l.kind = "append" <=> l.token # NoToken
  /\ l.step = "listed" => l.answer = Continued(l)

LoadsOK == (\A l \in loads : LoadOK(l)) /\ (\A l, m \in loads : l.id = m.id => l = m)

(* The token at hand continues the rows at hand, and the newest call, when  *)
(* it asks for a further page, asks with that token.                        *)
RowsOK ==
  /\ OneListing
  /\ next # NoToken => /\ items # <<>> /\ next.listing = items[1].listing
                       /\ next.page = Len(items) + 1
  /\ \A l \in loads : IsLatest(l) /\ l.kind = "append" => l.token = next

(* A spinner is of the newest call.                                         *)
Spinner ==
  /\ loading \/ loadingMore => \E l \in loads : IsLatest(l)
  /\ \A l \in loads : IsLatest(l) /\ l.kind # "append" => loading

(* What the newest call was answered is not older than what is done.        *)
Recent ==
  /\ \A f \in Folders : due[f] <= version[f]
  /\ \A l \in loads : IsLatest(l) /\ l.step = "listed"
                        => l.version >= due[l.answer.listing.folder]

(* What was asked for is on the screen, or the newest call asks for it.     *)
Good == /\ items # <<>>
        /\ \A i \in DOMAIN items : /\ items[i].listing = Asked
                                   /\ items[i].version >= due[Asked.folder]
Opening == \E l \in loads : IsLatest(l) /\ l.kind # "append"
Viewed ==
  error = "none" /\ ~strayed =>
    /\ \A l \in loads : IsLatest(l) /\ l.kind # "append" => l.listing = Asked
    /\ Good \/ Opening

Screen == LoadsOK /\ RowsOK /\ Spinner /\ Recent /\ Viewed

(* The registry says of an account that must sign in that it must, or will: *)
(* whatever its newest load has read is not older than the status.          *)
Announced ==
  auth # "CONNECTED" /\ ~unseen =>
    /\ \A r \in refreshes : r.current => r.answer # "CONNECTED"
    /\ Lost(shown) \/ registryError \/ \E r \in refreshes : r.current

IInv == TypeOK /\ Screen /\ Announced

LEMMA Constants ==
  /\ Root \in Folders /\ Pages \in Nat \ {0} /\ NoToken \in Tokens
  /\ \A v \in Visits : v.loads \in Nat \ {0} /\ v.edits \in Nat /\ v.changes \in Nat
  /\ \A t \in Tokens : t # NoToken => t \in [listing: Listings, page: 1..Pages]
  /\ NoToken \notin [listing: Listings, page: 1..Pages]
BY BrowserAssumption DEF Tokens, NoToken

(* The types, in two parts: what loadFolder and its answers change, and the *)
(* rest.                                                                    *)
Calls == [id: 1..latest, listing: Listings, token: Tokens,
          kind: {"open", "append", "retry"}, step: Steps, answer: Tokens, version: Nat]
ScreenTypes ==
  /\ items \in Seq([listing: Listings, page: 1..Pages, version: Nat])
  /\ next \in Tokens
  /\ loading \in BOOLEAN /\ loadingMore \in BOOLEAN /\ reauthenticationRequired \in BOOLEAN
  /\ error \in {"none", "auth", "other"}
  /\ latest \in 1..visit.loads
  /\ loads \subseteq Calls

Edits == [kind: {"rename", "trash"}, listing: Listings, files: 0..visit.edits, open: BOOLEAN]
Refreshes == [load: 0..visit.loads, current: BOOLEAN, answer: Statuses \union {"asked", "failed"}]
PathTypes == path \in Seq(Folders) /\ path # <<>> /\ order \in Orders
AccountTypes ==
  /\ auth \in Statuses /\ revoked \in BOOLEAN /\ changes \in 0..visit.changes
  /\ shown \in Statuses /\ registryError \in BOOLEAN /\ unseen \in BOOLEAN
  /\ refreshes \subseteq Refreshes
EditTypes ==
  /\ dialog \in [kind: {"none", "rename", "trash"}, busy: BOOLEAN]
  /\ edits \subseteq Edits /\ edited \in 0..visit.edits
  /\ version \in [Folders -> Nat] /\ due \in [Folders -> Nat]
OtherTypes ==
  /\ visit \in Visits /\ strayed \in BOOLEAN
  /\ reauthenticating \in {"no", "asked", "signed in", "reloading"}
  /\ PathTypes /\ AccountTypes /\ EditTypes

LEMMA TypeParts ==
  /\ TypeOK <=> ScreenTypes /\ OtherTypes
  /\ TypeOK' <=> ScreenTypes' /\ OtherTypes'
BY DEF TypeOK, ScreenTypes, OtherTypes, PathTypes, AccountTypes, EditTypes, Calls, Edits, Refreshes

LEMMA InitInvariant == Init => IInv
<1>. SUFFICES ASSUME Init PROVE IInv
  OBVIOUS
<1>1. ScreenTypes
  <2>1. latest = 1 /\ visit.loads \in Nat \ {0} /\ latest \in 1..visit.loads
    <3>1. visit \in Visits /\ latest = 1
      BY DEF Init
    <3>2. visit.loads \in Nat \ {0}
      BY <3>1, Constants
    <3>. QED BY <3>1, <3>2
  <2>2. [folder |-> Root, order |-> order] \in Listings
    BY Constants DEF Init, Listings
  <2>3. [id |-> 1, listing |-> [folder |-> Root, order |-> order], token |-> NoToken,
         kind |-> "open", step |-> "asked", answer |-> NoToken, version |-> 0] \in Calls
    BY <2>1, <2>2, Constants DEF Calls, Steps
  <2>4. loads \subseteq Calls
    BY <2>3 DEF Init
  <2>5. items \in Seq([listing: Listings, page: 1..Pages, version: Nat])
    BY EmptySeq DEF Init
  <2>. QED BY <2>1, <2>4, <2>5, Constants DEF Init, ScreenTypes
<1>2. PathTypes
  BY Constants DEF Init, PathTypes
<1>3. AccountTypes /\ EditTypes
  <2>1. visit.edits \in Nat /\ visit.changes \in Nat
    <3>1. visit \in Visits
      BY DEF Init
    <3>. QED BY <3>1, Constants
  <2>2. 0 \in 0..visit.edits /\ 0 \in 0..visit.changes
    BY <2>1
  <2>3. AccountTypes
    BY <2>2 DEF Init, AccountTypes
  <2>4. EditTypes
    <3>1. [f \in Folders |-> 0] \in [Folders -> Nat]
      OBVIOUS
    <3>2. NoDialog \in [kind: {"none", "rename", "trash"}, busy: BOOLEAN]
      BY DEF NoDialog
    <3>. QED BY <2>2, <3>1, <3>2 DEF Init, EditTypes
  <2>. QED BY <2>3, <2>4
<1>4. TypeOK
  BY <1>1, <1>2, <1>3, TypeParts DEF Init, OtherTypes
<1>5. LoadsOK
  BY DEF Init, LoadsOK, LoadOK
<1>6. RowsOK /\ Spinner
  BY DEF Init, RowsOK, OneListing, Spinner, IsLatest
<1>7. Recent
  BY DEF Init, Recent
<1>8. Viewed
  BY <1>2 DEF Init, Viewed, Opening, IsLatest, Asked, Last, PathTypes
<1>9. Announced
  BY DEF Init, Announced, Statuses, Lost
<1>. QED BY <1>4, <1>5, <1>6, <1>7, <1>8, <1>9 DEF IInv, Screen

--------------------------------------------------------------------------------
(* Calls of loadFolder: what the steps of one leave of the screen. *)

LEMMA AskedType ==
  ASSUME PathTypes
  PROVE  Asked \in Listings /\ Last(path) \in Folders /\ Len(path) \in Nat \ {0}
<1>1. Len(path) \in Nat \ {0} /\ path[Len(path)] \in Folders
  BY DEF PathTypes
<1>. QED BY <1>1 DEF Asked, Last, Listings, PathTypes

LEMMA Numbers ==
  ASSUME TypeOK
  PROVE  /\ visit \in Visits /\ visit.loads \in Nat \ {0} /\ visit.edits \in Nat
         /\ visit.changes \in Nat /\ latest \in Nat \ {0} /\ latest <= visit.loads
         /\ \A l \in loads : l \in Calls /\ l.id \in Nat /\ l.id <= latest
<1>1. visit \in Visits
  BY DEF TypeOK
<1>2. visit.loads \in Nat \ {0} /\ visit.edits \in Nat /\ visit.changes \in Nat
  BY <1>1, Constants
<1>3. latest \in 1..visit.loads /\ loads \subseteq Calls
  BY TypeParts DEF ScreenTypes
<1>4. latest \in Nat \ {0} /\ latest <= visit.loads
  BY <1>2, <1>3
<1>5. \A l \in loads : l \in Calls /\ l.id \in 1..latest
  BY <1>3 DEF Calls
<1>. QED BY <1>1, <1>2, <1>4, <1>5

(* A new call. *)
LEMMA LoadFolderTypes ==
  ASSUME TypeOK, visit' = visit, NEW listing \in Listings, NEW token \in Tokens,
         NEW kind \in {"open", "append", "retry"}, LoadFolder(listing, token, kind),
         reauthenticationRequired' \in BOOLEAN
  PROVE  ScreenTypes'
<1>1. latest + 1 \in 1..visit.loads /\ latest' = latest + 1
  BY Numbers DEF LoadFolder
<1>. DEFINE new == [id |-> latest + 1, listing |-> listing, token |-> token, kind |-> kind,
                    step |-> "asked", answer |-> NoToken, version |-> 0]
<1>2. new \in Calls'
  <2>1. latest + 1 \in 1..latest'
    BY <1>1, Numbers
  <2>. QED BY <2>1, Constants DEF Calls, Steps
<1>3. \A l \in loads : l \in Calls'
  BY <1>1, Numbers DEF Calls
<1>4. loads' = loads \union {new}
  BY DEF LoadFolder
<1>5. loads' \subseteq Calls'
  <2>. HIDE DEF new
  <2>. QED BY <1>2, <1>3, <1>4
<1>6. ScreenTypes
  BY TypeParts
<1>. QED BY <1>1, <1>5, <1>6 DEF ScreenTypes, LoadFolder

(* It is the newest one, and the only one of its number. *)
LEMMA NewCall ==
  ASSUME TypeOK, Screen, NEW listing, NEW token, NEW kind,
         LoadFolder(listing, token, kind), kind = "append" <=> token # NoToken
  PROVE  /\ LoadsOK'
         /\ \A l \in loads' : IsLatest(l)' => /\ l.listing = listing /\ l.token = token
                                              /\ l.kind = kind /\ l.step = "asked"
         /\ \E l \in loads' : IsLatest(l)'
<1>. DEFINE new == [id |-> latest + 1, listing |-> listing, token |-> token, kind |-> kind,
                    step |-> "asked", answer |-> NoToken, version |-> 0]
<1>1. /\ new.id = latest + 1 /\ new.listing = listing /\ new.token = token /\ new.kind = kind
      /\ new.step = "asked"
  OBVIOUS
<1>2. loads' = loads \union {new} /\ latest' = latest + 1
  BY DEF LoadFolder
<1>3. \A l \in loads : l.id # latest + 1 /\ l.id # new.id
  BY <1>1, Numbers
<1>. HIDE DEF new
<1>4. LoadOK(new)
  BY <1>1 DEF LoadOK
<1>5. LoadsOK'
  BY <1>2, <1>3, <1>4 DEF LoadsOK, Screen, LoadOK, Continued
<1>. QED BY <1>1, <1>2, <1>3, <1>5 DEF IsLatest

(* A listing is opened, sorted or loaded again: it is the one asked for, or *)
(* the browser has strayed.                                                 *)
Opens ==
  \E listing \in Listings, kind \in {"open", "retry"} :
    /\ LoadFolder(listing, NoToken, kind)
    /\ strayed' \/ listing = Asked'
    /\ version' = version
    /\ \A f \in Folders : due'[f] <= version[f]

LEMMA OpensKeeps == TypeOK /\ Screen /\ Opens => Screen'
<1>. SUFFICES ASSUME TypeOK, Screen, NEW listing \in Listings, NEW kind \in {"open", "retry"},
                     LoadFolder(listing, NoToken, kind), strayed' \/ listing = Asked',
                     version' = version, \A f \in Folders : due'[f] <= version[f]
              PROVE  Screen'
  BY DEF Opens
<1>1. /\ LoadsOK'
      /\ \A l \in loads' : IsLatest(l)' => /\ l.listing = listing /\ l.token = NoToken
                                           /\ l.kind = kind /\ l.step = "asked"
      /\ \E l \in loads' : IsLatest(l)'
  BY NewCall
<1>2. UNCHANGED <<items, next>> /\ loading'
  BY DEF LoadFolder
<1>3. RowsOK'
  BY <1>1, <1>2 DEF RowsOK, OneListing, Screen
<1>4. Spinner'
  BY <1>1, <1>2 DEF Spinner
<1>5. Recent'
  BY <1>1 DEF Recent
<1>6. Viewed'
  BY <1>1 DEF Viewed, Opening
<1>. QED BY <1>1, <1>3, <1>4, <1>5, <1>6 DEF Screen

(* A further page is asked for. *)
LEMMA LoadMoreKeeps == TypeOK /\ Screen /\ LoadMore => Screen'
<1>. SUFFICES ASSUME TypeOK, Screen, LoadMore PROVE Screen'
  OBVIOUS
<1>1. /\ LoadFolder(Asked, next, "append") /\ next # NoToken /\ ~loading
      /\ UNCHANGED <<path, order, drive, strayed>>
  BY DEF LoadMore
<1>2. /\ LoadsOK'
      /\ \A l \in loads' : IsLatest(l)' => /\ l.token = next /\ l.kind = "append"
                                           /\ l.step = "asked"
      /\ \E l \in loads' : IsLatest(l)'
  BY <1>1, NewCall
<1>3. UNCHANGED <<items, next, loading, error>>
  BY <1>1 DEF LoadFolder
<1>4. RowsOK' /\ Spinner'
  BY <1>1, <1>2, <1>3 DEF RowsOK, OneListing, Spinner, Screen
<1>5. Recent'
  BY <1>1, <1>2 DEF Recent, Screen, drive
<1>6. Viewed'
  <2>1. ~Opening
    BY <1>1 DEF Screen, Spinner, Opening
  <2>2. Good' <=> Good
    BY <1>1, <1>3 DEF Good, Asked, drive
  <2>. QED BY <1>1, <1>2, <1>3, <2>1, <2>2 DEF Viewed, Screen
<1>. QED BY <1>2, <1>4, <1>5, <1>6 DEF Screen

(* Steps that have nothing to do with a call: an error may be shown, and a  *)
(* file may change.                                                         *)
Aside ==
  /\ UNCHANGED <<path, order, items, next, loading, loadingMore, latest, loads, due, strayed>>
  /\ error' = error \/ error' # "none"
  /\ \A f \in Folders : version'[f] \in Nat /\ version'[f] >= version[f]

LEMMA AsideKeeps == TypeOK /\ Screen /\ Aside => Screen'
<1>. SUFFICES ASSUME TypeOK, Screen, Aside PROVE Screen'
  OBVIOUS
<1>1. LoadsOK' /\ RowsOK' /\ Spinner'
  BY DEF Aside, Screen, LoadsOK, LoadOK, Continued, RowsOK, OneListing, Spinner, IsLatest
<1>2. Recent'
  <2>1. \A f \in Folders : due'[f] <= version'[f]
    <3>. SUFFICES ASSUME NEW f \in Folders PROVE due'[f] <= version'[f]
      OBVIOUS
    <3>1. due[f] \in Nat /\ version[f] \in Nat
      BY DEF TypeOK
    <3>2. version'[f] \in Nat /\ version'[f] >= version[f]
      BY DEF Aside
    <3>3. due' = due /\ due[f] <= version[f]
      BY DEF Aside, Screen, Recent
    <3>. QED BY <3>1, <3>2, <3>3
  <2>. QED BY <2>1 DEF Aside, Screen, Recent, IsLatest
<1>3. Viewed'
  BY DEF Aside, Screen, Viewed, Good, Opening, IsLatest, Asked
<1>. QED BY <1>1, <1>2, <1>3 DEF Screen

(* A request is answered, or the reason of a failure is asked for: the call *)
(* is the same one. A page is as new as what is done, and is the one asked  *)
(* for.                                                                     *)
Answers ==
  \E l \in loads, m \in Calls :
    /\ loads' = (loads \ {l}) \union {m}
    /\ m.id = l.id /\ m.listing = l.listing /\ m.token = l.token /\ m.kind = l.kind
    /\ m.step = "listed" => m.answer = Continued(l) /\ m.version >= due[m.answer.listing.folder]
    /\ UNCHANGED <<path, order, items, next, loading, loadingMore, error, latest, drive, strayed>>

LEMMA AnswersKeeps == TypeOK /\ Screen /\ Answers => Screen'
<1>. SUFFICES ASSUME TypeOK, Screen, NEW l \in loads, NEW m \in Calls,
                     loads' = (loads \ {l}) \union {m}, m.id = l.id, m.listing = l.listing,
                     m.token = l.token, m.kind = l.kind,
                     m.step = "listed" => /\ m.answer = Continued(l)
                                          /\ m.version >= due[m.answer.listing.folder],
                     UNCHANGED <<path, order, items, next, loading, loadingMore, error, latest,
                                 drive, strayed>>
              PROVE  Screen'
  BY DEF Answers
<1>1. Continued(m) = Continued(l)
  BY DEF Continued
<1>2. LoadOK(l) /\ \A a, b \in loads : a.id = b.id => a = b
  BY DEF Screen, LoadsOK
<1>3. LoadOK(m)
  BY <1>1, <1>2 DEF LoadOK
<1>4. LoadsOK'
  <2>1. \A a \in loads' : LoadOK(a)
    BY <1>3 DEF Screen, LoadsOK
  <2>2. \A a, b \in loads' : a.id = b.id => a = b
    BY <1>2
  <2>. QED BY <2>1, <2>2 DEF LoadsOK, LoadOK, Continued
<1>5. \A a : IsLatest(a)' <=> IsLatest(a)
  BY DEF IsLatest
<1>6. RowsOK'
  BY <1>5 DEF Screen, RowsOK, OneListing, IsLatest
<1>7. Spinner'
  BY <1>5 DEF Screen, Spinner, IsLatest
<1>8. Recent'
  BY <1>5 DEF Screen, Recent, IsLatest, drive
<1>9. Viewed'
  <2>1. Good' <=> Good
    BY DEF Good, Asked, drive
  <2>2. Opening' <=> Opening
    BY <1>5 DEF Opening, IsLatest
  <2>3. Asked' = Asked
    BY DEF Asked
  <2>4. \A a \in loads' : IsLatest(a) /\ a.kind # "append" =>
           \E b \in loads : IsLatest(b) /\ b.kind # "append" /\ b.listing = a.listing
    BY DEF IsLatest
  <2>. QED BY <2>1, <2>2, <2>3, <2>4, <1>5 DEF Viewed, Screen
<1>. QED BY <1>4, <1>6, <1>7, <1>8, <1>9 DEF Screen

(* A call that is no longer the newest returns, and nothing comes of it. *)
Drops ==
  \E l \in loads :
    /\ ~IsLatest(l) /\ loads' = loads \ {l}
    /\ UNCHANGED <<path, order, items, next, loading, loadingMore, error, latest, drive, strayed>>

LEMMA DropsKeeps == TypeOK /\ Screen /\ Drops => Screen'
<1>. SUFFICES ASSUME TypeOK, Screen, NEW l \in loads, ~IsLatest(l), loads' = loads \ {l},
                     UNCHANGED <<path, order, items, next, loading, loadingMore, error, latest,
                                 drive, strayed>>
              PROVE  Screen'
  BY DEF Drops
<1>1. LoadsOK' /\ RowsOK' /\ Spinner'
  BY DEF Screen, LoadsOK, LoadOK, Continued, RowsOK, OneListing, Spinner, IsLatest
<1>2. Recent'
  BY DEF Screen, Recent, IsLatest, drive
<1>3. Viewed'
  BY DEF Screen, Viewed, Good, Opening, IsLatest, Asked, drive
<1>. QED BY <1>1, <1>2, <1>3 DEF Screen

(* The newest call returns: no other one is the newest. *)
LEMMA NewestGone ==
  ASSUME Screen, NEW l \in loads, IsLatest(l), loads' = loads \ {l}, latest' = latest
  PROVE  \A m \in loads' : ~IsLatest(m)'
BY DEF Screen, LoadsOK, IsLatest

(* It failed. *)
Fails ==
  \E l \in loads :
    /\ IsLatest(l) /\ loads' = loads \ {l}
    /\ error' # "none" /\ ~loading' /\ ~loadingMore'
    /\ UNCHANGED <<path, order, items, next, latest, drive, strayed>>

LEMMA FailsKeeps == TypeOK /\ Screen /\ Fails => Screen'
<1>. SUFFICES ASSUME TypeOK, Screen, NEW l \in loads, IsLatest(l), loads' = loads \ {l},
                     error' # "none", ~loading', ~loadingMore',
                     UNCHANGED <<path, order, items, next, latest, drive, strayed>>
              PROVE  Screen'
  BY DEF Fails
<1>1. \A m \in loads' : ~IsLatest(m)'
  BY NewestGone
<1>2. LoadsOK'
  BY DEF Screen, LoadsOK, LoadOK, Continued
<1>3. RowsOK'
  BY <1>1 DEF Screen, RowsOK, OneListing
<1>4. Spinner' /\ Viewed'
  BY <1>1 DEF Spinner, Viewed
<1>5. Recent'
  BY <1>1 DEF Screen, Recent, drive
<1>. QED BY <1>2, <1>3, <1>4, <1>5 DEF Screen

(* It brought a page: the first of what was asked for, or the one after the *)
(* rows at hand.                                                            *)
PageOf(l) == [listing |-> l.answer.listing, page |-> l.answer.page, version |-> l.version]
Shows ==
  \E l \in loads :
    /\ l.step = "listed" /\ IsLatest(l) /\ loads' = loads \ {l}
    /\ items' = IF l.kind = "append" THEN Append(items, PageOf(l)) ELSE <<PageOf(l)>>
    /\ next' = Following(l.answer)
    /\ ~loading' /\ ~loadingMore'
    /\ UNCHANGED <<path, order, error, latest, drive, strayed>>

LEMMA FollowingOK ==
  ASSUME NEW p \in [listing: Listings, page: 1..Pages]
  PROVE  /\ Following(p) \in Tokens
         /\ Following(p) # NoToken => /\ Following(p).listing = p.listing
                                      /\ Following(p).page = p.page + 1
<1>1. Pages \in Nat \ {0}
  BY Constants
<1>2. CASE p.page < Pages
  <2>1. Following(p) = [p EXCEPT !.page = p.page + 1]
    BY <1>2 DEF Following
  <2>2. p.page + 1 \in 1..Pages
    BY <1>1, <1>2
  <2>. QED BY <2>1, <2>2 DEF Tokens
<1>3. CASE ~(p.page < Pages)
  BY <1>3, Constants DEF Following
<1>. QED BY <1>2, <1>3

(* What a listed call was answered is a page, and it fits the rows. *)
LEMMA AnswerFits ==
  ASSUME TypeOK, Screen, NEW l \in loads, l.step = "listed"
  PROVE  /\ l.answer \in [listing: Listings, page: 1..Pages] /\ l.version \in Nat
         /\ PageOf(l) \in [listing: Listings, page: 1..Pages, version: Nat]
         /\ IF l.kind = "append" THEN l.answer = l.token /\ l.token # NoToken
                                 ELSE l.answer = [listing |-> l.listing, page |-> 1]
<1>1. l \in Calls
  BY Numbers
<1>2. (l.kind = "append" <=> l.token # NoToken) /\ l.answer = Continued(l)
  BY DEF Screen, LoadsOK, LoadOK
<1>3. IF l.kind = "append" THEN l.answer = l.token /\ l.token # NoToken
                           ELSE l.answer = [listing |-> l.listing, page |-> 1]
  BY <1>2 DEF Continued
<1>4. l.answer \in [listing: Listings, page: 1..Pages]
  <2>1. 1 \in 1..Pages
    BY Constants
  <2>2. l.token \in Tokens /\ l.listing \in Listings
    BY <1>1 DEF Calls
  <2>. QED BY <1>3, <2>1, <2>2, Constants
<1>5. l.version \in Nat
  BY <1>1 DEF Calls
<1>. QED BY <1>3, <1>4, <1>5 DEF PageOf

LEMMA ShowsKeeps == TypeOK /\ Screen /\ Shows => Screen'
<1>. SUFFICES ASSUME TypeOK, Screen, NEW l \in loads, l.step = "listed", IsLatest(l),
                     loads' = loads \ {l},
                     items' = IF l.kind = "append" THEN Append(items, PageOf(l))
                                                   ELSE <<PageOf(l)>>,
                     next' = Following(l.answer), ~loading', ~loadingMore',
                     UNCHANGED <<path, order, error, latest, drive, strayed>>
              PROVE  Screen'
  BY DEF Shows
<1>. DEFINE P == [listing: Listings, page: 1..Pages, version: Nat]
<1>1. \A m \in loads' : ~IsLatest(m)'
  BY NewestGone
<1>2. /\ l.answer \in [listing: Listings, page: 1..Pages] /\ l.version \in Nat
      /\ PageOf(l) \in P
      /\ IF l.kind = "append" THEN l.answer = l.token /\ l.token # NoToken
                              ELSE l.answer = [listing |-> l.listing, page |-> 1]
  BY AnswerFits
<1>3. /\ PageOf(l).listing = l.answer.listing /\ PageOf(l).page = l.answer.page
      /\ PageOf(l).version = l.version
  BY DEF PageOf
<1>4. items \in Seq(P) /\ Len(items) \in Nat
  <2>1. items \in Seq(P)
    BY TypeParts DEF ScreenTypes
  <2>. HIDE DEF P
  <2>. QED BY <2>1, LenProperties
<1>5. /\ next' # NoToken => /\ next'.listing = l.answer.listing
                            /\ next'.page = l.answer.page + 1
  BY <1>2, FollowingOK
<1>6. l.version >= due[l.answer.listing.folder]
  BY DEF Screen, Recent
<1>7. error = "none" /\ ~strayed =>
        IF l.kind = "append" THEN Good ELSE l.listing = Asked
  <2>1. l.kind = "append" => ~Opening
    BY DEF Screen, LoadsOK, IsLatest, Opening
  <2>. QED BY <2>1 DEF Screen, Viewed
<1>8. LoadsOK'
  BY DEF Screen, LoadsOK, LoadOK, Continued
<1>9. Spinner' /\ Recent'
  BY <1>1 DEF Spinner, Recent, Screen, drive
<1>10. CASE l.kind = "append"
  <2>1. /\ items # <<>> /\ l.answer = next /\ next.listing = items[1].listing
        /\ next.page = Len(items) + 1
    BY <1>2, <1>10 DEF Screen, RowsOK
  <2>2. /\ items' = Append(items, PageOf(l)) /\ Len(items') = Len(items) + 1
        /\ items' # <<>> /\ items'[Len(items) + 1] = PageOf(l)
        /\ \A i \in 1..Len(items) : items'[i] = items[i]
        /\ DOMAIN items' = 1..(Len(items) + 1) /\ DOMAIN items = 1..Len(items)
    <3>. HIDE DEF P
    <3>. QED BY <1>2, <1>4, <1>10, AppendProperties, LenProperties
  <2>3. Len(items) >= 1 /\ items'[1] = items[1]
    BY <1>4, <2>1, <2>2, EmptySeq
  <2>4. \A i \in DOMAIN items' : i \in DOMAIN items \/ i = Len(items) + 1
    BY <1>4, <2>2
  <2>5. OneListing'
    <3>1. \A i \in DOMAIN items' : items'[i].page = i /\ items'[i].listing = items'[1].listing
      BY <1>3, <2>1, <2>2, <2>3, <2>4 DEF Screen, RowsOK, OneListing
    <3>. QED BY <3>1 DEF OneListing
  <2>6. RowsOK'
    BY <1>1, <1>5, <2>1, <2>2, <2>3, <2>5 DEF RowsOK
  <2>7. Viewed'
    <3>. SUFFICES ASSUME error = "none", ~strayed PROVE Good'
      BY <1>1 DEF Viewed
    <3>1. /\ l.answer.listing = Asked /\ 1 \in DOMAIN items
          /\ \A i \in DOMAIN items : /\ items[i].listing = Asked
                                     /\ items[i].version >= due[Asked.folder]
      BY <1>4, <1>7, <1>10, <2>1, <2>2, <2>3 DEF Good
    <3>2. \A i \in DOMAIN items' : /\ items'[i].listing = Asked
                                   /\ items'[i].version >= due[Asked.folder]
      BY <1>3, <1>6, <2>2, <2>4, <3>1
    <3>3. Asked' = Asked /\ due' = due
      BY DEF Asked, drive
    <3>. QED BY <2>2, <3>2, <3>3 DEF Good
  <2>. QED BY <1>8, <1>9, <2>6, <2>7 DEF Screen
<1>11. CASE l.kind # "append"
  <2>1. /\ items' = <<PageOf(l)>> /\ items' # <<>> /\ Len(items') = 1
        /\ items'[1] = PageOf(l) /\ DOMAIN items' = {1}
    BY <1>11
  <2>2. PageOf(l).listing = l.listing /\ PageOf(l).page = 1 /\ l.answer.listing = l.listing
    BY <1>2, <1>3, <1>11
  <2>3. RowsOK'
    BY <1>1, <1>3, <1>5, <2>1, <2>2 DEF RowsOK, OneListing
  <2>4. Viewed'
    <3>. SUFFICES ASSUME error = "none", ~strayed PROVE Good'
      BY <1>1 DEF Viewed
    <3>1. l.listing = Asked /\ Asked' = Asked /\ due' = due
      BY <1>7, <1>11 DEF Asked, drive
    <3>. QED BY <1>3, <1>6, <2>1, <2>2, <3>1 DEF Good
  <2>. QED BY <1>8, <1>9, <2>3, <2>4 DEF Screen
<1>. QED BY <1>10, <1>11

--------------------------------------------------------------------------------
(* The actions, each as one of these.                                       *)

LEMMA Trail ==
  ASSUME PathTypes, NEW i \in 1..Len(path)
  PROVE  /\ path[i] \in Folders /\ SubSeq(path, 1, i) \in Seq(Folders)
         /\ SubSeq(path, 1, i) # <<>> /\ Last(SubSeq(path, 1, i)) = path[i]
<1>1. path \in Seq(Folders) /\ Len(path) \in Nat
  BY DEF PathTypes
<1>2. SubSeq(path, 1, i) \in Seq(Folders) /\ Len(SubSeq(path, 1, i)) = i
      /\ SubSeq(path, 1, i)[i] = path[i] /\ path[i] \in Folders
  BY <1>1
<1>. QED BY <1>2 DEF Last

LEMMA Longer ==
  ASSUME PathTypes, NEW f \in Folders
  PROVE  /\ Append(path, f) \in Seq(Folders) /\ Append(path, f) # <<>>
         /\ Last(Append(path, f)) = f
BY DEF PathTypes, Last

(* What a step that calls loadFolder with a new view keeps of the path. *)
LEMMA OpenFolderOpens == TypeOK /\ Screen /\ OpenFolder => Opens /\ PathTypes'
<1>. SUFFICES ASSUME TypeOK, Screen, OpenFolder PROVE Opens /\ PathTypes'
  OBVIOUS
<1>1. PathTypes
  BY TypeParts DEF OtherTypes
<1>2. PICK f \in Folders :
        /\ \/ \E i \in DOMAIN path : path[i] = f /\ path' = SubSeq(path, 1, i)
           \/ path' = Append(path, f)
        /\ Browse([folder |-> f, order |-> order]) /\ order' = order
  BY DEF OpenFolder
<1>3. path' \in Seq(Folders) /\ path' # <<>> /\ Last(path') = f
  <2>1. CASE \E i \in DOMAIN path : path[i] = f /\ path' = SubSeq(path, 1, i)
    <3>1. DOMAIN path = 1..Len(path)
      BY <1>1 DEF PathTypes
    <3>. QED BY <1>1, <2>1, <3>1, Trail
  <2>2. CASE path' = Append(path, f)
    BY <1>1, <2>2, Longer
  <2>. QED BY <1>2, <2>1, <2>2
<1>4. PathTypes'
  BY <1>1, <1>2, <1>3 DEF PathTypes
<1>5. [folder |-> f, order |-> order] \in Listings
  BY <1>1 DEF PathTypes, Listings
<1>6. [folder |-> f, order |-> order] = Asked'
  BY <1>2, <1>3 DEF Asked
<1>. QED BY <1>2, <1>4, <1>5, <1>6 DEF Opens, Browse, Screen, Recent, drive

LEMMA OpenBreadcrumbOpens == TypeOK /\ Screen /\ OpenBreadcrumb => Opens /\ PathTypes'
<1>. SUFFICES ASSUME TypeOK, Screen, OpenBreadcrumb PROVE Opens /\ PathTypes'
  OBVIOUS
<1>1. PathTypes /\ Len(path) \in Nat
  BY TypeParts, AskedType DEF OtherTypes
<1>2. PICK i \in 1..Len(path) :
        /\ path' = SubSeq(path, 1, i) /\ order' = order
        /\ Browse([folder |-> path[i], order |-> order])
  BY <1>1 DEF OpenBreadcrumb
<1>3. path' \in Seq(Folders) /\ path' # <<>> /\ Last(path') = path[i] /\ path[i] \in Folders
  BY <1>1, <1>2, Trail
<1>4. PathTypes'
  BY <1>1, <1>2, <1>3 DEF PathTypes
<1>5. [folder |-> path[i], order |-> order] \in Listings
  BY <1>1, <1>3 DEF PathTypes, Listings
<1>6. [folder |-> path[i], order |-> order] = Asked'
  BY <1>2, <1>3 DEF Asked
<1>. QED BY <1>2, <1>4, <1>5, <1>6 DEF Opens, Browse, Screen, Recent, drive

LEMMA HandleSortOpens == TypeOK /\ Screen /\ HandleSort => Opens /\ PathTypes'
<1>. SUFFICES ASSUME TypeOK, Screen, HandleSort PROVE Opens /\ PathTypes'
  OBVIOUS
<1>1. PathTypes /\ Last(path) \in Folders
  BY TypeParts, AskedType DEF OtherTypes
<1>2. PICK o \in Orders : /\ order' = o /\ path' = path
                          /\ Browse([folder |-> Last(path), order |-> o])
  BY DEF HandleSort
<1>3. PathTypes'
  BY <1>1, <1>2 DEF PathTypes
<1>4. [folder |-> Last(path), order |-> o] \in Listings
  BY <1>1 DEF Listings
<1>5. [folder |-> Last(path), order |-> o] = Asked'
  BY <1>2 DEF Asked
<1>. QED BY <1>2, <1>3, <1>4, <1>5 DEF Opens, Browse, Screen, Recent, drive

LEMMA ReloadOpens ==
  TypeOK /\ Screen /\ (Refresh \/ Retry \/ Reconnected) => Opens /\ PathTypes'
<1>. SUFFICES ASSUME TypeOK, Screen, Refresh \/ Retry \/ Reconnected PROVE Opens /\ PathTypes'
  OBVIOUS
<1>1. PathTypes /\ Asked \in Listings
  BY TypeParts, AskedType DEF OtherTypes
<1>2. PICK kind \in {"open", "retry"} : LoadFolder(Asked, NoToken, kind)
  BY DEF Refresh, Retry, Reconnected, Browse
<1>3. UNCHANGED <<path, order, drive>>
  BY DEF Refresh, Retry, Reconnected, Browse
<1>4. Asked' = Asked /\ PathTypes'
  BY <1>1, <1>3 DEF Asked, PathTypes
<1>. QED BY <1>1, <1>2, <1>3, <1>4 DEF Opens, Screen, Recent, drive

LEMMA EditDoneOpens == TypeOK /\ Screen /\ EditDone => Opens /\ PathTypes'
<1>. SUFFICES ASSUME TypeOK, Screen, EditDone PROVE Opens /\ PathTypes'
  OBVIOUS
<1>1. PathTypes /\ edits \subseteq Edits /\ version \in [Folders -> Nat] /\ due \in [Folders -> Nat]
  BY TypeParts DEF OtherTypes, EditTypes
<1>2. PICK e \in edits :
        /\ due' = [due EXCEPT ![e.listing.folder] = version[e.listing.folder]]
        /\ LoadFolder(e.listing, NoToken, "open") /\ strayed' = (e.listing # Asked)
  BY DEF EditDone
<1>3. UNCHANGED <<path, order, version>>
  BY DEF EditDone
<1>4. e.listing \in Listings
  BY <1>1 DEF Edits
<1>5. Asked' = Asked /\ PathTypes'
  BY <1>1, <1>3 DEF Asked, PathTypes
<1>6. \A f \in Folders : due'[f] <= version[f]
  <2>1. \A f \in Folders : version[f] \in Nat /\ due[f] <= version[f]
    BY <1>1 DEF Screen, Recent
  <2>2. \A f \in Folders : due'[f] = due[f] \/ due'[f] = version[f]
    BY <1>1, <1>2
  <2>. QED BY <2>1, <2>2
<1>. QED BY <1>2, <1>3, <1>4, <1>5, <1>6 DEF Opens

(* list_files answers. *)
LEMMA ListFilesAnswers == TypeOK /\ Screen /\ ListFiles => Answers
<1>. SUFFICES ASSUME TypeOK, Screen, ListFiles PROVE Answers
  OBVIOUS
<1>1. PICK l \in loads : l.step = "asked" /\ (Rejected(l) \/ Listed(l) \/ Unreachable(l))
  BY DEF ListFiles
<1>2. UNCHANGED <<path, order, items, next, loading, loadingMore, error, latest, drive, strayed>>
  BY DEF ListFiles
<1>3. l \in Calls
  BY Numbers
<1>4. CASE Rejected(l) \/ Unreachable(l)
  <2>1. PICK step \in {"auth", "other"} : Answered(l, [l EXCEPT !.step = step])
    BY <1>4 DEF Rejected, Unreachable
  <2>. DEFINE m == [l EXCEPT !.step = step]
  <2>2. /\ m \in Calls /\ m.id = l.id /\ m.listing = l.listing /\ m.token = l.token
        /\ m.kind = l.kind /\ m.step = step
    BY <1>3 DEF Calls, Steps
  <2>3. loads' = (loads \ {l}) \union {m}
    BY <2>1 DEF Answered
  <2>. HIDE DEF m
  <2>. QED BY <1>2, <2>2, <2>3 DEF Answers
<1>5. CASE Listed(l)
  <2>. DEFINE a == Continued(l)
              v == version[a.listing.folder]
              m == [l EXCEPT !.step = "listed", !.answer = a, !.version = v]
  <2>1. a \in Tokens /\ a.listing.folder \in Folders
    <3>1. l.token \in Tokens /\ l.listing \in Listings /\ 1 \in 1..Pages
      BY <1>3, Constants DEF Calls
    <3>2. a \in [listing: Listings, page: 1..Pages]
      BY <3>1, Constants DEF Continued
    <3>. QED BY <3>2 DEF Tokens, Listings
  <2>2. v \in Nat /\ v >= due[a.listing.folder]
    <3>1. version \in [Folders -> Nat] /\ due \in [Folders -> Nat]
      BY TypeParts DEF OtherTypes, EditTypes
    <3>2. due[a.listing.folder] <= v
      BY <2>1 DEF Screen, Recent
    <3>. QED BY <2>1, <3>1, <3>2
  <2>3. loads' = (loads \ {l}) \union {m}
    BY <1>5 DEF Listed, Answered
  <2>. HIDE DEF a, v
  <2>4. /\ m \in Calls /\ m.id = l.id /\ m.listing = l.listing /\ m.token = l.token
        /\ m.kind = l.kind /\ m.step = "listed" /\ m.answer = a /\ m.version = v
    BY <1>3, <2>1, <2>2 DEF Calls, Steps
  <2>. HIDE DEF m
  <2>5. m.answer = Continued(l) /\ m.version >= due[m.answer.listing.folder]
    BY <2>2, <2>4 DEF a
  <2>. QED BY <1>2, <2>3, <2>4, <2>5 DEF Answers
<1>. QED BY <1>1, <1>4, <1>5

LEMMA AskStatusKeeps == TypeOK /\ Screen /\ AskStatus => Answers \/ Drops
<1>. SUFFICES ASSUME TypeOK, Screen, AskStatus PROVE Answers \/ Drops
  OBVIOUS
<1>1. UNCHANGED <<path, order, items, next, loading, loadingMore, error, latest, drive, strayed>>
  BY DEF AskStatus
<1>2. PICK l \in loads :
        \/ /\ IsLatest(l)
           /\ Answered(l, [l EXCEPT !.step = IF @ = "auth" THEN "status of auth"
                                                           ELSE "status of other"])
        \/ ~IsLatest(l) /\ Return(l)
  BY DEF AskStatus
<1>3. l \in Calls
  BY Numbers
<1>4. CASE ~IsLatest(l) /\ Return(l)
  BY <1>1, <1>4 DEF Drops, Return
<1>5. CASE Answered(l, [l EXCEPT !.step = IF @ = "auth" THEN "status of auth"
                                                        ELSE "status of other"])
  <2>1. PICK step \in {"status of auth", "status of other"} :
          Answered(l, [l EXCEPT !.step = step])
    BY <1>5
  <2>. DEFINE m == [l EXCEPT !.step = step]
  <2>2. /\ m \in Calls /\ m.id = l.id /\ m.listing = l.listing /\ m.token = l.token
        /\ m.kind = l.kind /\ m.step = step
    BY <1>3 DEF Calls, Steps
  <2>3. loads' = (loads \ {l}) \union {m}
    BY <2>1 DEF Answered
  <2>. HIDE DEF m
  <2>. QED BY <1>1, <2>2, <2>3 DEF Answers
<1>. QED BY <1>2, <1>4, <1>5

LEMMA ShowPageKeeps == ShowPage => Shows \/ Drops
<1>. SUFFICES ASSUME ShowPage PROVE Shows \/ Drops
  OBVIOUS
<1>1. UNCHANGED <<path, order, error, latest, drive, strayed>>
  BY DEF ShowPage
<1>2. PICK l \in loads :
       /\ l.step = "listed" /\ Return(l)
       /\ IF IsLatest(l)
          THEN LET page == [listing |-> l.answer.listing, page |-> l.answer.page,
                            version |-> l.version]
               IN  /\ items' = IF l.kind = "append" THEN Append(items, page) ELSE <<page>>
                   /\ next' = Following(l.answer)
                   /\ reauthenticationRequired' = FALSE
                   /\ loading' = FALSE /\ loadingMore' = FALSE
          ELSE UNCHANGED <<items, next, reauthenticationRequired, loading, loadingMore>>
  BY DEF ShowPage
<1>3. CASE IsLatest(l)
  BY <1>1, <1>2, <1>3 DEF Shows, PageOf, Return
<1>4. CASE ~IsLatest(l)
  BY <1>1, <1>2, <1>4 DEF Drops, Return
<1>. QED BY <1>3, <1>4

LEMMA RegistryLoadedKeeps == TypeOK /\ RegistryLoaded => Aside \/ Fails \/ Drops
<1>. SUFFICES ASSUME TypeOK, RegistryLoaded PROVE Aside \/ Fails \/ Drops
  OBVIOUS
<1>1. UNCHANGED <<path, order, items, next, latest, drive, strayed>>
  BY DEF RegistryLoaded
<1>2. \A f \in Folders : version'[f] \in Nat /\ version'[f] >= version[f]
  <2>1. version \in [Folders -> Nat]
    BY TypeParts DEF OtherTypes, EditTypes
  <2>. QED BY <1>1, <2>1 DEF drive
<1>3. CASE \E l \in loads : \E status : ShowFailure(l, status)
  BY <1>1, <1>3 DEF ShowFailure, Return, Fails, Drops
<1>4. CASE UNCHANGED <<loads, error, loading, loadingMore>>
  BY <1>1, <1>2, <1>4 DEF Aside, drive
<1>. QED BY <1>3, <1>4 DEF RegistryLoaded

LEMMA OthersAside ==
  /\ TypeOK
  /\ \/ ReadRegistry \/ Reauthenticate \/ SignIn \/ SignInFails \/ OpenDialog \/ Confirm
     \/ Dismiss \/ EditFile \/ EditFails \/ Revoke \/ ChangeAccount
  => Aside
<1>. SUFFICES ASSUME TypeOK,
                     \/ ReadRegistry \/ Reauthenticate \/ SignIn \/ SignInFails \/ OpenDialog
                     \/ Confirm \/ Dismiss \/ EditFile \/ EditFails \/ Revoke \/ ChangeAccount
              PROVE  Aside
  OBVIOUS
<1>1. version \in [Folders -> Nat] /\ edits \subseteq Edits
  BY TypeParts DEF OtherTypes, EditTypes
<1>2. CASE EditFile
  <2>1. PICK e \in edits : version' = [version EXCEPT ![e.listing.folder] = @ + 1]
    BY <1>2 DEF EditFile
  <2>2. \A f \in Folders : version'[f] \in Nat /\ version'[f] >= version[f]
    BY <1>1, <2>1
  <2>3. UNCHANGED <<path, order, items, next, loading, loadingMore, error, latest, loads, due,
                    strayed>>
    BY <1>2 DEF EditFile, screen
  <2>. QED BY <2>2, <2>3 DEF Aside
<1>3. CASE version' = version
  <2>1. \A f \in Folders : version'[f] \in Nat /\ version'[f] >= version[f]
    BY <1>1, <1>3
  <2>2. CASE SignInFails
    BY <2>1, <2>2 DEF SignInFails, Aside, drive
  <2>3. CASE ReadRegistry \/ Reauthenticate \/ SignIn \/ OpenDialog
    BY <2>1, <2>3 DEF ReadRegistry, Reauthenticate, SignIn, OpenDialog, Aside, drive, screen
  <2>4. CASE Confirm \/ Dismiss \/ EditFails \/ Revoke \/ ChangeAccount
    BY <2>1, <2>4 DEF Confirm, Dismiss, EditFails, Revoke, ChangeAccount, Aside, drive, screen
  <2>5. CASE EditFile
    BY <1>2, <2>5
  <2>. QED BY <2>2, <2>3, <2>4, <2>5
<1>4. \/ EditFile
      \/ version' = version
  BY DEF ReadRegistry, Reauthenticate, SignIn, SignInFails, OpenDialog, Confirm, Dismiss, EditFails,
         Revoke, ChangeAccount, drive
<1>. QED BY <1>2, <1>3, <1>4

LEMMA ScreenStep == TypeOK /\ Screen /\ Next => Screen'
<1>. SUFFICES ASSUME TypeOK, Screen, Next PROVE Screen'
  OBVIOUS
<1>1. CASE OpenFolder \/ OpenBreadcrumb \/ HandleSort \/ Refresh \/ Retry \/ Reconnected \/ EditDone
  BY <1>1, OpenFolderOpens, OpenBreadcrumbOpens, HandleSortOpens, ReloadOpens, EditDoneOpens,
     OpensKeeps
<1>2. CASE LoadMore
  BY <1>2, LoadMoreKeeps
<1>3. CASE ListFiles \/ AskStatus
  BY <1>3, ListFilesAnswers, AskStatusKeeps, AnswersKeeps, DropsKeeps
<1>4. CASE ShowPage
  BY <1>4, ShowPageKeeps, ShowsKeeps, DropsKeeps
<1>5. CASE RegistryLoaded
  BY <1>5, RegistryLoadedKeeps, AsideKeeps, FailsKeeps, DropsKeeps
<1>6. CASE \/ ReadRegistry \/ Reauthenticate \/ SignIn \/ SignInFails \/ OpenDialog \/ Confirm
           \/ Dismiss \/ EditFile \/ EditFails \/ Revoke \/ ChangeAccount
  BY <1>6, OthersAside, AsideKeeps
<1>. QED BY <1>1, <1>2, <1>3, <1>4, <1>5, <1>6 DEF Next

--------------------------------------------------------------------------------
(* Types. *)

LEMMA RefreshTypes ==
  ASSUME TypeOK, visit' = visit, NEW load \in 0..visit.loads, RefreshRegistry(load)
  PROVE  refreshes' \subseteq Refreshes' /\ unseen' \in BOOLEAN
<1>1. refreshes \subseteq Refreshes /\ Refreshes' = Refreshes
  BY TypeParts DEF OtherTypes, AccountTypes, Refreshes
<1>2. \A r \in refreshes : [r EXCEPT !.current = FALSE] \in Refreshes
  BY <1>1 DEF Refreshes
<1>3. [load |-> load, current |-> TRUE, answer |-> "asked"] \in Refreshes
  BY DEF Refreshes
<1>. QED BY <1>1, <1>2, <1>3 DEF RefreshRegistry

(* The account and the registry. *)
LEMMA AccountStep == TypeOK /\ Next => AccountTypes'
<1>. SUFFICES ASSUME TypeOK, Next PROVE AccountTypes'
  OBVIOUS
<1>1. AccountTypes /\ visit' = visit
  BY TypeParts DEF OtherTypes, Next
<1>2. /\ visit.loads \in Nat \ {0} /\ visit.changes \in Nat /\ latest \in Nat \ {0}
      /\ latest <= visit.loads /\ 0 \in 0..visit.loads /\ Refreshes' = Refreshes
  BY <1>1, Numbers DEF Refreshes
<1>3. CASE UNCHANGED <<account, registry>>
  BY <1>1, <1>2, <1>3 DEF AccountTypes, account, registry
<1>4. CASE ListFiles
  <2>1. auth' \in Statuses /\ unseen' \in BOOLEAN
    BY <1>1, <1>4 DEF ListFiles, Rejected, Listed, Unreachable, AccountTypes, Statuses
  <2>. QED BY <1>1, <1>2, <1>4, <2>1 DEF ListFiles, AccountTypes
<1>5. CASE AskStatus
  <2>1. refreshes' \subseteq Refreshes' /\ unseen' \in BOOLEAN
    <3>1. PICK l \in loads : RefreshRegistry(l.id) \/ UNCHANGED <<refreshes, unseen>>
      BY <1>5 DEF AskStatus
    <3>2. l \in Calls /\ l.id \in 0..visit.loads
      BY <1>2, Numbers DEF Calls
    <3>3. CASE RefreshRegistry(l.id)
      BY <1>1, <3>2, <3>3, RefreshTypes
    <3>4. CASE UNCHANGED <<refreshes, unseen>>
      BY <1>1, <1>2, <3>4 DEF AccountTypes
    <3>. QED BY <3>1, <3>3, <3>4
  <2>. QED BY <1>1, <1>5, <2>1 DEF AskStatus, AccountTypes, account
<1>6. CASE ReadRegistry
  <2>1. PICK r \in refreshes, answer \in {auth, "failed"} :
          refreshes' = (refreshes \ {r}) \union {[r EXCEPT !.answer = answer]}
    BY <1>6 DEF ReadRegistry
  <2>2. answer \in Statuses \union {"asked", "failed"} /\ r \in Refreshes
    BY <1>1 DEF AccountTypes
  <2>3. [r EXCEPT !.answer = answer] \in Refreshes
    BY <2>2 DEF Refreshes
  <2>4. refreshes' \subseteq Refreshes'
    BY <1>1, <1>2, <2>1, <2>3 DEF AccountTypes
  <2>. QED BY <1>1, <1>6, <2>4 DEF ReadRegistry, AccountTypes, account
<1>7. CASE RegistryLoaded
  <2>1. PICK r \in refreshes :
          /\ r.answer # "asked" /\ refreshes' = refreshes \ {r}
          /\ shown' = IF r.current /\ r.answer # "failed" THEN r.answer ELSE shown
          /\ registryError' = IF r.current THEN r.answer = "failed" ELSE registryError
    BY <1>7 DEF RegistryLoaded
  <2>2. r \in Refreshes
    BY <1>1 DEF AccountTypes
  <2>3. shown' \in Statuses
    BY <1>1, <2>1, <2>2 DEF Refreshes, AccountTypes
  <2>4. registryError' \in BOOLEAN
    BY <1>1, <2>1 DEF AccountTypes
  <2>5. refreshes' \subseteq Refreshes'
    BY <1>1, <1>2, <2>1 DEF AccountTypes
  <2>. QED BY <1>1, <1>7, <2>3, <2>4, <2>5 DEF RegistryLoaded, AccountTypes, account
<1>8. CASE SignIn
  <2>1. refreshes' \subseteq Refreshes' /\ unseen' \in BOOLEAN
    BY <1>1, <1>2, <1>8, RefreshTypes DEF SignIn
  <2>. QED BY <1>1, <1>8, <2>1 DEF SignIn, AccountTypes, Statuses
<1>9. CASE Revoke
  <2>1. changes' \in 0..visit'.changes
    BY <1>1, <1>2, <1>9 DEF Revoke, AccountTypes
  <2>. QED BY <1>1, <1>2, <1>9, <2>1 DEF Revoke, AccountTypes, registry
<1>10. CASE ChangeAccount
  <2>1. refreshes' \subseteq Refreshes' /\ unseen' \in BOOLEAN
    BY <1>1, <1>2, <1>10, RefreshTypes DEF ChangeAccount
  <2>2. changes' \in 0..visit'.changes
    BY <1>1, <1>2, <1>10 DEF ChangeAccount, AccountTypes
  <2>3. auth' \in Statuses /\ revoked' \in BOOLEAN
    BY <1>1, <1>10 DEF ChangeAccount, AccountTypes
  <2>. QED BY <1>1, <1>10, <2>1, <2>2, <2>3 DEF ChangeAccount, AccountTypes
<1>11. CASE \/ OpenFolder \/ OpenBreadcrumb \/ HandleSort \/ Refresh \/ Retry
  BY <1>3, <1>11 DEF OpenFolder, OpenBreadcrumb, HandleSort, Refresh, Retry, Browse
<1>12. CASE \/ LoadMore \/ Reconnected \/ ShowPage \/ Reauthenticate \/ SignInFails
  BY <1>3, <1>12 DEF LoadMore, Reconnected, ShowPage, Reauthenticate, SignInFails
<1>13. CASE \/ OpenDialog \/ Confirm \/ Dismiss \/ EditFile \/ EditFails \/ EditDone
  BY <1>3, <1>13 DEF OpenDialog, Confirm, Dismiss, EditFile, EditFails, EditDone
<1>. QED BY <1>4, <1>5, <1>6, <1>7, <1>8, <1>9, <1>10, <1>11, <1>12, <1>13 DEF Next

(* The dialogs and the edits. *)
LEMMA EditStep == TypeOK /\ Next => EditTypes'
<1>. SUFFICES ASSUME TypeOK, Next PROVE EditTypes'
  OBVIOUS
<1>1. EditTypes /\ PathTypes /\ visit' = visit
  BY TypeParts DEF OtherTypes, Next
<1>2. visit.edits \in Nat /\ Asked \in Listings /\ Edits' = Edits
  BY <1>1, Numbers, AskedType DEF Edits
<1>3. CASE UNCHANGED <<editing, drive>>
  BY <1>1, <1>2, <1>3 DEF EditTypes, editing, drive
<1>4. CASE OpenDialog
  BY <1>1, <1>2, <1>4 DEF OpenDialog, EditTypes, drive
<1>5. CASE Confirm
  <2>1. PICK files \in 1..(visit.edits - edited) :
          /\ edited' = edited + files
          /\ edits' = edits \union {[kind |-> dialog.kind, listing |-> Asked, files |-> files,
                                     open |-> TRUE]}
    BY <1>5 DEF Confirm
  <2>2. /\ dialog # NoDialog /\ ~dialog.busy /\ dialog' = [dialog EXCEPT !.busy = TRUE]
        /\ UNCHANGED <<version, due>>
    BY <1>5 DEF Confirm
  <2>3. edited \in 0..visit.edits
    BY <1>1 DEF EditTypes
  <2>4. edited' \in 0..visit.edits /\ files \in 0..visit.edits
    BY <1>2, <2>1, <2>3
  <2>5. dialog.kind \in {"rename", "trash"} /\ dialog' \in [kind: {"none", "rename", "trash"}, busy: BOOLEAN]
    <3>1. dialog \in [kind: {"none", "rename", "trash"}, busy: BOOLEAN]
      BY <1>1 DEF EditTypes
    <3>. QED BY <2>2, <3>1 DEF NoDialog
  <2>6. edits' \subseteq Edits'
    BY <1>1, <1>2, <2>1, <2>4, <2>5 DEF EditTypes, Edits
  <2>. QED BY <1>1, <2>2, <2>4, <2>5, <2>6 DEF EditTypes
<1>6. CASE Dismiss
  <2>1. \A e \in edits : [e EXCEPT !.open = FALSE] \in Edits
    BY <1>1 DEF EditTypes, Edits
  <2>2. edits' \subseteq Edits'
    BY <1>2, <1>6, <2>1 DEF Dismiss
  <2>. QED BY <1>1, <1>6, <2>2 DEF Dismiss, EditTypes, NoDialog, drive
<1>7. CASE EditFile
  <2>1. PICK e \in edits :
          /\ e.files > 0
          /\ version' = [version EXCEPT ![e.listing.folder] = @ + 1]
          /\ edits' = (edits \ {e}) \union {[e EXCEPT !.files = @ - 1]}
    BY <1>7 DEF EditFile
  <2>2. e \in Edits
    BY <1>1 DEF EditTypes
  <2>3. e.files - 1 \in 0..visit.edits
    BY <1>2, <2>1, <2>2 DEF Edits
  <2>4. edits' \subseteq Edits'
    BY <1>1, <1>2, <2>1, <2>2, <2>3 DEF EditTypes, Edits
  <2>5. version' \in [Folders -> Nat]
    <3>1. e.listing.folder \in Folders
      BY <2>2 DEF Edits, Listings
    <3>. QED BY <1>1, <2>1, <3>1 DEF EditTypes
  <2>. QED BY <1>1, <1>7, <2>4, <2>5 DEF EditFile, EditTypes
<1>8. CASE EditFails
  <2>1. edits' \subseteq Edits'
    BY <1>1, <1>2, <1>8 DEF EditFails, EditTypes
  <2>2. dialog' \in [kind: {"none", "rename", "trash"}, busy: BOOLEAN]
    BY <1>1, <1>8 DEF EditFails, EditTypes
  <2>. QED BY <1>1, <1>8, <2>1, <2>2 DEF EditFails, EditTypes, drive
<1>9. CASE EditDone
  <2>1. PICK e \in edits :
          /\ edits' = edits \ {e} /\ dialog' = IF dialog.kind = e.kind THEN NoDialog ELSE dialog
          /\ due' = [due EXCEPT ![e.listing.folder] = version[e.listing.folder]]
    BY <1>9 DEF EditDone
  <2>2. e.listing.folder \in Folders
    BY <1>1 DEF EditTypes, Edits, Listings
  <2>3. due' \in [Folders -> Nat]
    BY <1>1, <2>1, <2>2 DEF EditTypes
  <2>4. dialog' \in [kind: {"none", "rename", "trash"}, busy: BOOLEAN]
    BY <1>1, <2>1 DEF EditTypes, NoDialog
  <2>5. edits' \subseteq Edits'
    BY <1>1, <1>2, <2>1 DEF EditTypes
  <2>. QED BY <1>1, <1>9, <2>3, <2>4, <2>5 DEF EditDone, EditTypes
<1>10. CASE \/ OpenFolder \/ OpenBreadcrumb \/ HandleSort \/ Refresh \/ Retry
  BY <1>3, <1>10 DEF OpenFolder, OpenBreadcrumb, HandleSort, Refresh, Retry, Browse
<1>11. CASE \/ LoadMore \/ Reconnected \/ ShowPage \/ Reauthenticate \/ SignInFails
  BY <1>3, <1>11 DEF LoadMore, Reconnected, ShowPage, Reauthenticate, SignInFails
<1>12. CASE \/ ListFiles \/ AskStatus \/ ReadRegistry \/ RegistryLoaded
  BY <1>3, <1>12 DEF ListFiles, AskStatus, ReadRegistry, RegistryLoaded, editing
<1>13. CASE \/ SignIn \/ Revoke \/ ChangeAccount
  BY <1>3, <1>13 DEF SignIn, Revoke, ChangeAccount
<1>. QED BY <1>4, <1>5, <1>6, <1>7, <1>8, <1>9, <1>10, <1>11, <1>12, <1>13 DEF Next

(* The folder trail and the rest. *)
LEMMA OtherStep == TypeOK /\ Screen /\ Next => OtherTypes'
<1>. SUFFICES ASSUME TypeOK, Screen, Next PROVE OtherTypes'
  OBVIOUS
<1>1. OtherTypes /\ visit' \in Visits
  BY TypeParts DEF OtherTypes, Next
<1>2. AccountTypes' /\ EditTypes'
  BY AccountStep, EditStep
<1>3. PathTypes'
  <2>1. CASE OpenFolder \/ OpenBreadcrumb \/ HandleSort \/ Refresh \/ Retry \/ Reconnected \/ EditDone
    BY <2>1, OpenFolderOpens, OpenBreadcrumbOpens, HandleSortOpens, ReloadOpens, EditDoneOpens
  <2>2. CASE UNCHANGED <<path, order>>
    BY <1>1, <2>2 DEF OtherTypes, PathTypes
  <2>3. CASE LoadMore \/ ListFiles \/ ShowPage \/ AskStatus \/ ReadRegistry \/ RegistryLoaded
    BY <2>2, <2>3 DEF LoadMore, ListFiles, ShowPage, AskStatus, ReadRegistry, RegistryLoaded
  <2>4. CASE Reauthenticate \/ SignIn \/ SignInFails \/ OpenDialog \/ Confirm
    BY <2>2, <2>4 DEF Reauthenticate, SignIn, SignInFails, OpenDialog, Confirm
  <2>5. CASE Dismiss \/ EditFile \/ EditFails \/ Revoke \/ ChangeAccount
    BY <2>2, <2>5 DEF Dismiss, EditFile, EditFails, Revoke, ChangeAccount
  <2>. QED BY <2>1, <2>3, <2>4, <2>5 DEF Next
<1>4. strayed' \in BOOLEAN
  <2>1. strayed \in BOOLEAN
    BY <1>1 DEF OtherTypes
  <2>2. CASE strayed' = strayed
    BY <2>1, <2>2
  <2>3. CASE OpenFolder \/ OpenBreadcrumb \/ HandleSort \/ Refresh \/ Retry \/ Reconnected
    BY <2>3 DEF OpenFolder, OpenBreadcrumb, HandleSort, Refresh, Retry, Reconnected, Browse
  <2>4. CASE EditDone
    BY <2>4 DEF EditDone
  <2>5. CASE LoadMore \/ ListFiles \/ ShowPage \/ AskStatus \/ ReadRegistry \/ RegistryLoaded
    BY <2>2, <2>5 DEF LoadMore, ListFiles, ShowPage, AskStatus, ReadRegistry, RegistryLoaded
  <2>6. CASE Reauthenticate \/ SignIn \/ SignInFails \/ OpenDialog \/ Confirm
    BY <2>2, <2>6 DEF Reauthenticate, SignIn, SignInFails, OpenDialog, Confirm
  <2>7. CASE Dismiss \/ EditFile \/ EditFails \/ Revoke \/ ChangeAccount
    BY <2>2, <2>7 DEF Dismiss, EditFile, EditFails, Revoke, ChangeAccount
  <2>. QED BY <2>3, <2>4, <2>5, <2>6, <2>7 DEF Next
<1>5. reauthenticating' \in {"no", "asked", "signed in", "reloading"}
  <2>1. reauthenticating \in {"no", "asked", "signed in", "reloading"}
    BY <1>1 DEF OtherTypes
  <2>2. CASE reauthenticating' \in {reauthenticating, "no", "asked", "signed in", "reloading"}
    BY <2>1, <2>2
  <2>3. CASE OpenFolder \/ OpenBreadcrumb \/ HandleSort \/ Refresh \/ Retry \/ Reconnected \/ EditDone
    BY <2>2, <2>3 DEF OpenFolder, OpenBreadcrumb, HandleSort, Refresh, Retry, Reconnected, Browse,
                      EditDone
  <2>4. CASE LoadMore \/ ListFiles \/ ShowPage \/ AskStatus \/ ReadRegistry
    BY <2>2, <2>4 DEF LoadMore, ListFiles, ShowPage, AskStatus, ReadRegistry, Return
  <2>5. CASE RegistryLoaded
    BY <2>2, <2>5 DEF RegistryLoaded, ShowFailure, Return
  <2>6. CASE Reauthenticate \/ SignIn \/ SignInFails \/ OpenDialog \/ Confirm
    BY <2>2, <2>6 DEF Reauthenticate, SignIn, SignInFails, OpenDialog, Confirm
  <2>7. CASE Dismiss \/ EditFile \/ EditFails \/ Revoke \/ ChangeAccount
    BY <2>2, <2>7 DEF Dismiss, EditFile, EditFails, Revoke, ChangeAccount
  <2>. QED BY <2>3, <2>4, <2>5, <2>6, <2>7 DEF Next
<1>. QED BY <1>1, <1>2, <1>3, <1>4, <1>5 DEF OtherTypes

(* The screen. *)
LEMMA ScreenTypesStep == TypeOK /\ Screen /\ Next => ScreenTypes'
<1>. SUFFICES ASSUME TypeOK, Screen, Next PROVE ScreenTypes'
  OBVIOUS
<1>1. /\ ScreenTypes /\ visit' = visit /\ Asked \in Listings /\ NoToken \in Tokens
      /\ latest \in 1..visit.loads
  BY TypeParts, AskedType, Constants DEF OtherTypes, Next, ScreenTypes
<1>2. CASE OpenFolder \/ OpenBreadcrumb \/ HandleSort \/ Refresh \/ Retry \/ Reconnected \/ EditDone
  <2>1. reauthenticationRequired' \in BOOLEAN
    BY <1>1, <1>2 DEF OpenFolder, OpenBreadcrumb, HandleSort, Refresh, Retry, Reconnected, EditDone,
                      Browse, ScreenTypes
  <2>2. Opens
    BY <1>2, OpenFolderOpens, OpenBreadcrumbOpens, HandleSortOpens, ReloadOpens, EditDoneOpens
  <2>3. PICK listing \in Listings, kind \in {"open", "retry"} : LoadFolder(listing, NoToken, kind)
    BY <2>2 DEF Opens
  <2>. QED BY <1>1, <2>1, <2>3, LoadFolderTypes
<1>3. CASE LoadMore
  <2>1. LoadFolder(Asked, next, "append") /\ reauthenticationRequired' \in BOOLEAN /\ next \in Tokens
    BY <1>1, <1>3 DEF LoadMore, ScreenTypes
  <2>. QED BY <1>1, <2>1, LoadFolderTypes
<1>4. CASE ListFiles
  <2>1. Answers /\ latest' = latest /\ UNCHANGED <<items, next, loading, loadingMore, error,
                                                   reauthenticationRequired>>
    BY <1>4, ListFilesAnswers DEF ListFiles
  <2>2. loads' \subseteq Calls' /\ latest' \in 1..visit'.loads
    BY <1>1, <2>1 DEF Answers, Calls, ScreenTypes
  <2>. QED BY <1>1, <2>1, <2>2 DEF ScreenTypes
<1>5. CASE AskStatus
  <2>1. (Answers \/ Drops) /\ latest' = latest
        /\ UNCHANGED <<items, next, loading, loadingMore, error, reauthenticationRequired>>
    BY <1>5, AskStatusKeeps DEF AskStatus
  <2>2. loads' \subseteq Calls' /\ latest' \in 1..visit'.loads
    BY <1>1, <2>1 DEF Answers, Drops, Calls, ScreenTypes
  <2>. QED BY <1>1, <2>1, <2>2 DEF ScreenTypes
<1>6. CASE ShowPage
  <2>1. latest' = latest /\ error' = error /\ loads' \subseteq loads
    BY <1>6 DEF ShowPage, Return
  <2>2. loads' \subseteq Calls' /\ latest' \in 1..visit'.loads
    BY <1>1, <2>1 DEF Calls, ScreenTypes
  <2>3. PICK l \in loads :
          /\ l.step = "listed"
          /\ \/ UNCHANGED <<items, next, reauthenticationRequired, loading, loadingMore>>
             \/ /\ items' = Append(items, PageOf(l)) \/ items' = <<PageOf(l)>>
                /\ next' = Following(l.answer)
                /\ reauthenticationRequired' = FALSE /\ loading' = FALSE /\ loadingMore' = FALSE
    BY <1>6 DEF ShowPage, PageOf
  <2>4. /\ PageOf(l) \in [listing: Listings, page: 1..Pages, version: Nat]
        /\ Following(l.answer) \in Tokens
    BY <2>3, AnswerFits, FollowingOK
  <2>5. items' \in Seq([listing: Listings, page: 1..Pages, version: Nat])
    <3>. DEFINE P == [listing: Listings, page: 1..Pages, version: Nat]
    <3>1. items \in Seq(P) /\ PageOf(l) \in P
      BY <1>1, <2>4 DEF ScreenTypes
    <3>. HIDE DEF P
    <3>2. Append(items, PageOf(l)) \in Seq(P) /\ <<PageOf(l)>> \in Seq(P)
      BY <3>1
    <3>3. items' \in Seq(P)
      BY <2>3, <3>1, <3>2
    <3>. QED BY <3>3 DEF P
  <2>6. /\ next' \in Tokens /\ loading' \in BOOLEAN /\ loadingMore' \in BOOLEAN
        /\ reauthenticationRequired' \in BOOLEAN
    BY <1>1, <2>3, <2>4 DEF ScreenTypes
  <2>. QED BY <1>1, <2>1, <2>2, <2>5, <2>6 DEF ScreenTypes
<1>7. CASE RegistryLoaded
  <2>1. latest' = latest /\ loads' \subseteq loads /\ UNCHANGED <<items, next>>
    BY <1>7 DEF RegistryLoaded, ShowFailure, Return
  <2>2. loads' \subseteq Calls' /\ latest' \in 1..visit'.loads
    BY <1>1, <2>1 DEF Calls, ScreenTypes
  <2>3. /\ error' \in {error, "auth", "other"} /\ reauthenticationRequired' \in BOOLEAN
        /\ loading' \in BOOLEAN /\ loadingMore' \in BOOLEAN
    <3>1. CASE \E l \in loads : \E status : ShowFailure(l, status)
      <4>1. PICK status : \E l \in loads : ShowFailure(l, status)
        BY <3>1
      <4>2. error' \in {error, "auth", "other"} /\ loading' \in BOOLEAN /\ loadingMore' \in BOOLEAN
        BY <1>1, <4>1 DEF ShowFailure, ScreenTypes
      <4>3. \/ reauthenticationRequired' = Lost(status)
            \/ reauthenticationRequired' = reauthenticationRequired
        BY <4>1 DEF ShowFailure
      <4>4. Lost(status) \in BOOLEAN /\ reauthenticationRequired \in BOOLEAN
        BY <1>1 DEF Lost, ScreenTypes
      <4>. QED BY <4>2, <4>3, <4>4
    <3>2. CASE UNCHANGED <<reauthenticationRequired, error, loading, loadingMore>>
      BY <1>1, <3>2 DEF ScreenTypes
    <3>. QED BY <1>7, <3>1, <3>2 DEF RegistryLoaded
  <2>. QED BY <1>1, <2>1, <2>2, <2>3 DEF ScreenTypes
<1>8. CASE SignInFails
  BY <1>1, <1>8 DEF SignInFails, ScreenTypes, Calls
<1>9. CASE UNCHANGED screen
  BY <1>1, <1>9 DEF ScreenTypes, Calls, screen
<1>10. CASE \/ ReadRegistry \/ Reauthenticate \/ SignIn \/ OpenDialog \/ Confirm
            \/ Dismiss \/ EditFile \/ EditFails \/ Revoke \/ ChangeAccount
  BY <1>9, <1>10 DEF ReadRegistry, Reauthenticate, SignIn, OpenDialog, Confirm, Dismiss, EditFile,
                     EditFails, Revoke, ChangeAccount
<1>. QED BY <1>2, <1>3, <1>4, <1>5, <1>6, <1>7, <1>8, <1>10 DEF Next

--------------------------------------------------------------------------------
(* Whoever changes the status has the registry read again, but for a        *)
(* listing that marks the account; and what a load of it has read is not    *)
(* older than the status.                                                   *)

LEMMA AnnouncedStep == TypeOK /\ Announced /\ Next => Announced'
<1>. SUFFICES ASSUME TypeOK, Announced, Next PROVE Announced'
  OBVIOUS
<1>1. refreshes \subseteq Refreshes /\ shown \in Statuses
  BY TypeParts DEF OtherTypes, AccountTypes
<1>2. CASE UNCHANGED <<auth, registry>>
  BY <1>2 DEF Announced, registry
<1>3. CASE ListFiles
  BY <1>3 DEF ListFiles, Rejected, Listed, Unreachable, Announced
<1>4. CASE \E load : RefreshRegistry(load)
  <2>1. PICK load : refreshes' = {[r EXCEPT !.current = FALSE] : r \in refreshes}
                                   \union {[load |-> load, current |-> TRUE, answer |-> "asked"]}
    BY <1>4 DEF RefreshRegistry
  <2>2. \A r \in refreshes' : r.current => r.answer # "CONNECTED"
    BY <1>1, <2>1 DEF Refreshes
  <2>. DEFINE new == [load |-> load, current |-> TRUE, answer |-> "asked"]
  <2>3. \E r \in refreshes' : r.current
    <3>1. new \in refreshes' /\ new.current
      BY <2>1
    <3>. HIDE DEF new
    <3>. QED BY <3>1
  <2>. QED BY <2>2, <2>3 DEF Announced
<1>5. CASE AskStatus
  <2>1. (\E load : RefreshRegistry(load)) \/ UNCHANGED <<refreshes, unseen>>
    BY <1>5 DEF AskStatus
  <2>2. UNCHANGED <<auth, shown, registryError>>
    BY <1>5 DEF AskStatus, account
  <2>3. CASE UNCHANGED <<refreshes, unseen>>
    BY <2>2, <2>3 DEF Announced
  <2>. QED BY <1>4, <2>1, <2>3
<1>6. CASE ReadRegistry
  <2>1. PICK r \in refreshes, answer \in {auth, "failed"} :
          refreshes' = (refreshes \ {r}) \union {[r EXCEPT !.answer = answer]}
    BY <1>6 DEF ReadRegistry
  <2>. DEFINE m == [r EXCEPT !.answer = answer]
  <2>2. m.current = r.current /\ m.answer = answer
    BY <1>1 DEF Refreshes
  <2>3. refreshes' = (refreshes \ {r}) \union {m}
    BY <2>1
  <2>4. UNCHANGED <<auth, unseen, shown, registryError>>
    BY <1>6 DEF ReadRegistry, account
  <2>. HIDE DEF m
  <2>. QED BY <2>1, <2>2, <2>3, <2>4 DEF Announced
<1>7. CASE RegistryLoaded
  <2>1. PICK r \in refreshes :
          /\ r.answer # "asked" /\ refreshes' = refreshes \ {r}
          /\ shown' = IF r.current /\ r.answer # "failed" THEN r.answer ELSE shown
          /\ registryError' = IF r.current THEN r.answer = "failed" ELSE registryError
    BY <1>7 DEF RegistryLoaded
  <2>2. UNCHANGED <<auth, unseen>>
    BY <1>7 DEF RegistryLoaded, account
  <2>3. r.answer \in Statuses \union {"failed"} /\ r.current \in BOOLEAN
    BY <1>1, <2>1 DEF Refreshes
  <2>4. CASE r.current /\ r.answer # "failed"
    BY <2>1, <2>2, <2>3, <2>4 DEF Announced, Statuses, Lost
  <2>5. CASE r.current /\ r.answer = "failed"
    BY <2>1, <2>2, <2>5 DEF Announced
  <2>6. CASE ~r.current
    BY <2>1, <2>2, <2>6 DEF Announced, Lost
  <2>. QED BY <2>3, <2>4, <2>5, <2>6
<1>8. CASE SignIn \/ ChangeAccount
  BY <1>4, <1>8 DEF SignIn, ChangeAccount
<1>9. CASE \/ OpenFolder \/ OpenBreadcrumb \/ HandleSort \/ Refresh \/ Retry
  BY <1>2, <1>9 DEF OpenFolder, OpenBreadcrumb, HandleSort, Refresh, Retry, Browse, account
<1>10. CASE \/ LoadMore \/ Reconnected \/ ShowPage \/ Reauthenticate \/ SignInFails \/ Revoke
  BY <1>2, <1>10 DEF LoadMore, Reconnected, ShowPage, Reauthenticate, SignInFails, Revoke, account
<1>11. CASE \/ OpenDialog \/ Confirm \/ Dismiss \/ EditFile \/ EditFails \/ EditDone
  BY <1>2, <1>11 DEF OpenDialog, Confirm, Dismiss, EditFile, EditFails, EditDone, account
<1>. QED BY <1>3, <1>5, <1>6, <1>7, <1>8, <1>9, <1>10, <1>11 DEF Next

LEMMA Stutter == IInv /\ UNCHANGED vars => IInv'
<1>. SUFFICES ASSUME IInv, UNCHANGED vars PROVE IInv'
  OBVIOUS
<1>1. UNCHANGED <<visit, path, order, items, next, loading, loadingMore, error,
                  reauthenticationRequired, latest, loads, reauthenticating, dialog, edits>>
  BY DEF vars, screen, editing
<1>2. UNCHANGED <<auth, revoked, changes, shown, registryError, refreshes, unseen, version, due,
                  edited, strayed>>
  BY DEF vars, account, registry, drive
<1>3. TypeOK'
  BY <1>1, <1>2 DEF IInv, TypeOK
<1>4. Screen'
  BY <1>1, <1>2 DEF IInv, Screen, LoadsOK, LoadOK, Continued, RowsOK, OneListing, Spinner, Recent,
                    Viewed, Good, Opening, IsLatest, Asked
<1>5. Announced'
  BY <1>1, <1>2 DEF IInv, Announced
<1>. QED BY <1>3, <1>4, <1>5 DEF IInv

THEOREM Invariance == Spec => []IInv
<1>1. IInv /\ Next => IInv'
  BY ScreenStep, ScreenTypesStep, OtherStep, TypeParts, AnnouncedStep DEF IInv
<1>2. IInv /\ [Next]_vars => IInv'
  BY <1>1, Stutter
<1>. QED BY <1>2, InitInvariant, PTL DEF Spec

(* Every variable stays in its type. *)
THEOREM TypeCorrect == Spec => []TypeOK
<1>1. IInv => TypeOK
  BY DEF IInv
<1>. QED BY <1>1, Invariance, PTL

(* However the answers are ordered, the rows are the first pages of one     *)
(* listing, without a gap or a repetition (loadFolder and activeReqIdRef).  *)
THEOREM RowsOfOneListing == Spec => []OneListing
<1>1. IInv => OneListing
  BY DEF IInv, Screen, RowsOK
<1>. QED BY <1>1, Invariance, PTL

(* When nothing is under way, the spinner is gone, the screen shows what was *)
(* asked for with every change the person was told is done, and an account   *)
(* that must sign in is offered that, with the exceptions SettledScreen says. *)
THEOREM ScreenSettles == Spec => []SettledScreen
<1>1. IInv => SettledScreen
  <2>. SUFFICES ASSUME IInv, Quiet PROVE
         /\ ~loading /\ ~loadingMore
         /\ error = "none" /\ ~strayed => Good
         /\ auth # "CONNECTED" => Lost(shown) \/ registryError \/ unseen
    BY DEF SettledScreen, Good
  <2>1. loads = {} /\ refreshes = {}
    BY DEF Quiet
  <2>2. ~loading /\ ~loadingMore
    BY <2>1 DEF IInv, Screen, Spinner
  <2>3. error = "none" /\ ~strayed => Good
    BY <2>1 DEF IInv, Screen, Viewed, Opening
  <2>4. auth # "CONNECTED" => Lost(shown) \/ registryError \/ unseen
    BY <2>1 DEF IInv, Announced
  <2>. QED BY <2>2, <2>3, <2>4
<1>. QED BY <1>1, Invariance, PTL
================================================================================
