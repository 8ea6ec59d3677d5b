------------------------------ MODULE ScannerProofs ------------------------------
(***************************************************************************)
(* Theorems about the scan, for any folders, pages and owners, any number  *)
(* of pages in flight, and any crashes, failures and resumed scans.        *)
(***************************************************************************)
EXTENDS Scanner, FiniteSetTheorems, SequenceTheorems, WellFoundedInduction, TLAPS

--------------------------------------------------------------------------------
(* Sequences. *)

(* Every set of naturals that is not empty has a least element.             *)
LEMMA LeastNumber ==
  ASSUME NEW S \in SUBSET Nat, S # {}
  PROVE  \E m \in S : \A k \in S : m <= k
<1>1. PICK n \in S : TRUE
  OBVIOUS
<1>. DEFINE B == 0..n
            T == {0..k : k \in {i \in S : i <= n}}
<1>2. IsFiniteSet(B)
  BY <1>1, FS_Interval
<1>3. \A X \in T : X \in SUBSET B
  BY <1>1
<1>4. T \subseteq FiniteSubsetsOf(B) /\ T # {}
  BY <1>1, <1>2, <1>3, FS_Subset DEF FiniteSubsetsOf
<1>5. PICK X \in T : \A Y \in T : <<Y, X>> \notin StrictSubsetOrdering(B)
  <2>. HIDE DEF B, T
  <2>. QED BY <1>2, <1>4, FS_StrictSubsetOrderingWellFounded, WFMin
<1>6. PICK m \in S : m <= n /\ X = 0..m
  BY <1>5
<1>7. ASSUME NEW k \in S, k < m PROVE FALSE
  <2>1. 0..k \in T /\ 0..k \in SUBSET B /\ 0..m \in SUBSET B
    BY <1>1, <1>6, <1>7
  <2>2. m \in 0..m /\ m \notin 0..k
    BY <1>7
  <2>3. <<0..k, 0..m>> \in StrictSubsetOrdering(B)
    BY <1>7, <2>1, <2>2 DEF StrictSubsetOrdering
  <2>. QED BY <1>5, <1>6, <2>1, <2>3
<1>. QED BY <1>6, <1>7

(* The rank of a number among those of a finite set: it tells them apart,   *)
(* every rank up to the size of the set is taken, and none is larger than   *)
(* its number.                                                              *)
Upto(H, i) == {j \in H : j <= i}

LEMMA Ranks ==
  ASSUME NEW n \in Nat, NEW H \in SUBSET (1..n)
  PROVE  /\ Cardinality(H) \in 0..n
         /\ \A i \in H : /\ Cardinality(Upto(H, i)) \in 1..Cardinality(H)
                         /\ Cardinality(Upto(H, i)) <= i
         /\ \A i, k \in H : Cardinality(Upto(H, i)) = Cardinality(Upto(H, k)) => i = k
         /\ \A r \in 1..Cardinality(H) : \E i \in H : Cardinality(Upto(H, i)) = r
<1>. DEFINE rank == [i \in H |-> Cardinality(Upto(H, i))]
<1>1. IsFiniteSet(1..n) /\ Cardinality(1..n) = n
  BY FS_Interval
<1>2. IsFiniteSet(H) /\ Cardinality(H) \in 0..n
  <2>1. IsFiniteSet(H) /\ Cardinality(H) <= n
    BY <1>1, FS_Subset
  <2>. QED BY <2>1, FS_CardinalityType
<1>3. ASSUME NEW i \in H
      PROVE  Cardinality(Upto(H, i)) \in 1..Cardinality(H) /\ Cardinality(Upto(H, i)) <= i
  <2>1. i \in 1..n /\ i \in Nat
    OBVIOUS
  <2>2. Upto(H, i) \in SUBSET H
    BY DEF Upto
  <2>3. IsFiniteSet(Upto(H, i)) /\ Cardinality(Upto(H, i)) <= Cardinality(H)
    BY <1>2, <2>2, FS_Subset
  <2>4. i \in Upto(H, i)
    BY <2>1 DEF Upto
  <2>5. Cardinality(Upto(H, i)) \in Nat /\ Cardinality(Upto(H, i)) # 0
    BY <2>3, <2>4, FS_EmptySet, FS_CardinalityType
  <2>6. \A j \in Upto(H, i) : j \in 1..i
    <3>1. \A j \in H : j \in 1..n
      OBVIOUS
    <3>. QED BY <2>1, <3>1 DEF Upto
  <2>7. IsFiniteSet(1..i) /\ Cardinality(1..i) = i
    BY <2>1, FS_Interval
  <2>8. Cardinality(Upto(H, i)) <= i
    BY <2>6, <2>7, FS_Subset
  <2>. QED BY <1>2, <2>3, <2>5, <2>8
<1>4. ASSUME NEW i \in H, NEW k \in H, i < k
      PROVE  Cardinality(Upto(H, i)) # Cardinality(Upto(H, k))
  <2>1. i \in 1..n /\ k \in 1..n /\ \A j \in H : j \in 1..n
    OBVIOUS
  <2>2. /\ \A j \in Upto(H, i) : j \in Upto(H, k)
        /\ k \in Upto(H, k) /\ k \notin Upto(H, i)
    BY <1>4, <2>1 DEF Upto
  <2>3. IsFiniteSet(Upto(H, k))
    BY <1>2, FS_Subset DEF Upto
  <2>. QED BY <2>2, <2>3, FS_Subset
<1>5. ASSUME NEW i \in H, NEW k \in H, Cardinality(Upto(H, i)) = Cardinality(Upto(H, k))
      PROVE  i = k
  <2>1. i \in 1..n /\ k \in 1..n
    OBVIOUS
  <2>. QED BY <1>4, <1>5, <2>1
<1>6. rank \in Injection(H, 1..Cardinality(H))
  BY <1>3, <1>5 DEF Injection, IsInjective
<1>7. IsFiniteSet(1..Cardinality(H)) /\ Cardinality(1..Cardinality(H)) = Cardinality(H)
  BY <1>2, FS_Interval
<1>8. rank \in Surjection(H, 1..Cardinality(H))
  <2>. HIDE DEF rank
  <2>. QED BY <1>6, <1>7, FS_Injection
<1>9. \A r \in 1..Cardinality(H) : \E i \in H : Cardinality(Upto(H, i)) = r
  BY <1>8 DEF Surjection
<1>. QED BY <1>2, <1>3, <1>5, <1>9

(* What Fresh keeps, and that nothing moves to the right.                   *)
LEMMA FreshFacts ==
  ASSUME NEW T, NEW s \in Seq(T), NEW S
  PROVE  /\ Fresh(s, S) \in Seq(T)
         /\ ToSet(Fresh(s, S)) = ToSet(s) \cap S
         /\ Len(Fresh(s, S)) <= Len(s)
         /\ \A i \in DOMAIN s : s[i] \in S =>
              \E k \in DOMAIN Fresh(s, S) : k <= i /\ Fresh(s, S)[k] = s[i]
<1>. DEFINE H == {i \in DOMAIN s : s[i] \in S /\ \A j \in 1..(i - 1) : s[j] # s[i]}
            rank(i) == Cardinality(Upto(H, i))
            nth(r) == CHOOSE i \in H : rank(i) = r
            f == Fresh(s, S)
<1>1. Len(s) \in Nat /\ DOMAIN s = 1..Len(s) /\ H \in SUBSET (1..Len(s))
  BY LenProperties
<1>2. f = [k \in 1..Cardinality(H) |-> s[nth(k)]]
  BY Zenon DEF Fresh, Upto
<1>3. \A i \in H : s[i] \in T /\ s[i] \in S /\ i \in DOMAIN s
  BY <1>1
<1>4. ASSUME NEW i \in DOMAIN s, s[i] \in S PROVE \E m \in H : m <= i /\ s[m] = s[i]
  <2>. DEFINE E == {j \in 1..i : s[j] = s[i]}
  <2>1. E \in SUBSET Nat /\ i \in E
    BY <1>1
  <2>2. PICK m \in E : \A k \in E : m <= k
    BY <2>1, LeastNumber
  <2>3. m \in H /\ m <= i /\ s[m] = s[i]
    BY <1>1, <1>4, <2>2
  <2>. QED BY <2>3
<1>. HIDE DEF H
<1>5. /\ Cardinality(H) \in 0..Len(s)
      /\ \A i \in H : rank(i) \in 1..Cardinality(H) /\ rank(i) <= i
      /\ \A i, k \in H : rank(i) = rank(k) => i = k
      /\ \A r \in 1..Cardinality(H) : \E i \in H : rank(i) = r
  BY <1>1, Ranks
<1>. HIDE DEF rank
<1>6. \A r \in 1..Cardinality(H) : nth(r) \in H /\ rank(nth(r)) = r
  BY <1>5
<1>7. \A i \in H : nth(rank(i)) = i
  BY <1>5, <1>6
<1>. HIDE DEF nth, f
<1>8. f \in Seq(T) /\ DOMAIN f = 1..Cardinality(H) /\ Len(f) = Cardinality(H)
  BY <1>2, <1>3, <1>5, <1>6
<1>9. ASSUME NEW i \in DOMAIN s, s[i] \in S
      PROVE  \E k \in DOMAIN f : k <= i /\ f[k] = s[i]
  <2>1. PICK m \in H : m <= i /\ s[m] = s[i]
    BY <1>4, <1>9
  <2>2. rank(m) \in 1..Cardinality(H) /\ rank(m) <= m /\ nth(rank(m)) = m
    BY <1>5, <1>7
  <2>3. rank(m) \in DOMAIN f /\ f[rank(m)] = s[i]
    BY <1>2, <1>8, <2>1, <2>2
  <2>4. rank(m) <= i
    BY <1>1, <1>5, <2>1, <2>2
  <2>. QED BY <2>3, <2>4
<1>10. ToSet(f) = ToSet(s) \cap S
  <2>1. \A k \in DOMAIN f : f[k] \in ToSet(s) \cap S
    BY <1>2, <1>3, <1>6, <1>8 DEF ToSet
  <2>. QED BY <1>9, <2>1 DEF ToSet
<1>. QED BY <1>5, <1>8, <1>9, <1>10 DEF f

(* A batch and what is left of a sequence.                                  *)
Splits(T, s, n) ==
  /\ First(s, n) \in Seq(T) /\ Rest(s, n) \in Seq(T)
  /\ ToSet(s) = ToSet(First(s, n)) \cup ToSet(Rest(s, n))
  /\ \A i \in DOMAIN Rest(s, n) : i + n \in DOMAIN s /\ Rest(s, n)[i] = s[i + n]
  /\ \A i \in DOMAIN s : /\ i <= n => s[i] \in ToSet(First(s, n))
                         /\ i > n => i - n \in DOMAIN Rest(s, n) /\ Rest(s, n)[i - n] = s[i]
  /\ \A x \in ToSet(First(s, n)) : \E i \in DOMAIN s : i <= n /\ s[i] = x
  /\ Len(s) <= n => Rest(s, n) = <<>>

LEMMA SplitFacts ==
  ASSUME NEW T, NEW s \in Seq(T), NEW n \in Nat
  PROVE  Splits(T, s, n)
<1>. DEFINE m == IF n < Len(s) THEN n ELSE Len(s)
            a == First(s, n)
            b == Rest(s, n)
<1>1. Len(s) \in Nat /\ DOMAIN s = 1..Len(s) /\ \A i \in 1..Len(s) : s[i] \in T
  BY LenProperties, ElementOfSeq
<1>2. /\ a \in Seq(T) /\ Len(a) = m /\ DOMAIN a = 1..m
      /\ \A i \in 1..m : a[i] = s[i]
  <2>1. a = SubSeq(s, 1, m)
    BY DEF First
  <2>2. m \in Int /\ 1 \in Int /\ \A i \in 1..m : s[i] \in T
    BY <1>1
  <2>3. /\ SubSeq(s, 1, m) \in Seq(T)
        /\ Len(SubSeq(s, 1, m)) = IF 1 <= m THEN m - 1 + 1 ELSE 0
        /\ \A i \in 1 .. m - 1 + 1 : SubSeq(s, 1, m)[i] = s[1 + i - 1]
    <3>. HIDE DEF m
    <3>. QED BY <2>2, SubSeqProperties
  <2>4. Len(a) = m /\ \A i \in 1..m : a[i] = s[i]
    BY <1>1, <2>1, <2>3
  <2>. QED BY <2>1, <2>3, <2>4, LenProperties
<1>3. /\ b \in Seq(T) /\ Len(b) = (IF n < Len(s) THEN Len(s) - n ELSE 0)
      /\ DOMAIN b = 1..Len(b) /\ \A i \in 1..Len(b) : b[i] = s[i + n]
  <2>1. b = SubSeq(s, n + 1, Len(s))
    BY DEF Rest
  <2>2. n + 1 \in Int /\ Len(s) \in Int /\ \A i \in (n + 1)..Len(s) : s[i] \in T
    BY <1>1
  <2>3. /\ SubSeq(s, n + 1, Len(s)) \in Seq(T)
        /\ Len(SubSeq(s, n + 1, Len(s)))
             = IF n + 1 <= Len(s) THEN Len(s) - (n + 1) + 1 ELSE 0
        /\ \A i \in 1 .. Len(s) - (n + 1) + 1 :
             SubSeq(s, n + 1, Len(s))[i] = s[(n + 1) + i - 1]
    BY <2>2, SubSeqProperties
  <2>4. Len(b) = IF n < Len(s) THEN Len(s) - n ELSE 0
    BY <1>1, <2>1, <2>3
  <2>5. \A i \in 1..Len(b) : b[i] = s[i + n]
    BY <1>1, <2>1, <2>3, <2>4
  <2>. QED BY <2>1, <2>3, <2>4, <2>5, LenProperties
<1>. HIDE DEF a, b
<1>4. \A i \in DOMAIN b : i + n \in DOMAIN s /\ b[i] = s[i + n]
  BY <1>1, <1>3
<1>5. \A i \in DOMAIN s : i <= n => s[i] \in ToSet(a)
  BY <1>1, <1>2 DEF ToSet
<1>6. \A i \in DOMAIN s : i > n => i - n \in DOMAIN b /\ b[i - n] = s[i]
  <2>1. SUFFICES ASSUME NEW i \in DOMAIN s, i > n PROVE i - n \in DOMAIN b /\ b[i - n] = s[i]
    OBVIOUS
  <2>2. i \in 1..Len(s) /\ n < Len(s)
    BY <1>1, <2>1
  <2>3. Len(b) = Len(s) - n
    BY <1>3, <2>2
  <2>4. i - n \in 1..Len(b) /\ (i - n) + n = i
    BY <1>1, <2>1, <2>2, <2>3
  <2>. QED BY <1>3, <2>4
<1>7. ToSet(a) \subseteq ToSet(s) /\ ToSet(b) \subseteq ToSet(s)
  BY <1>1, <1>2, <1>4 DEF ToSet
<1>8. ToSet(s) \subseteq ToSet(a) \cup ToSet(b)
  <2>1. \A i \in DOMAIN s : s[i] \in ToSet(a) \cup ToSet(b)
    <3>1. \A i \in DOMAIN s : i > n => s[i] \in ToSet(b)
      BY <1>6 DEF ToSet
    <3>. QED BY <1>1, <1>5, <3>1
  <2>. QED BY <2>1 DEF ToSet
<1>9. Len(s) <= n => b = <<>>
  <2>1. Len(s) <= n => Len(b) = 0
    BY <1>1, <1>3
  <2>. QED BY <1>3, <2>1, EmptySeq
<1>10. \A x \in ToSet(a) : \E i \in DOMAIN s : i <= n /\ s[i] = x
  BY <1>1, <1>2 DEF ToSet
<1>. QED BY <1>2, <1>3, <1>4, <1>5, <1>6, <1>7, <1>8, <1>9, <1>10 DEF a, b, Splits

LEMMA ConcatFacts ==
  ASSUME NEW T, NEW s \in Seq(T), NEW t \in Seq(T)
  PROVE  s \o t \in Seq(T) /\ ToSet(s \o t) = ToSet(s) \cup ToSet(t)
<1>1. /\ s \o t \in Seq(T) /\ Len(s \o t) = Len(s) + Len(t)
      /\ \A i \in 1 .. Len(s) + Len(t) :
           (s \o t)[i] = IF i <= Len(s) THEN s[i] ELSE t[i - Len(s)]
  BY ConcatProperties
<1>2. /\ Len(s) \in Nat /\ DOMAIN s = 1..Len(s)
      /\ Len(t) \in Nat /\ DOMAIN t = 1..Len(t) /\ DOMAIN (s \o t) = 1..(Len(s) + Len(t))
  BY <1>1, LenProperties
<1>. DEFINE u == s \o t
<1>. HIDE DEF u
<1>3. \A i \in DOMAIN u : u[i] \in ToSet(s) \cup ToSet(t)
  BY <1>1, <1>2 DEF ToSet, u
<1>4. \A i \in DOMAIN s : i \in DOMAIN u /\ u[i] = s[i]
  BY <1>1, <1>2 DEF u
<1>5. \A i \in DOMAIN t : i + Len(s) \in DOMAIN u /\ u[i + Len(s)] = t[i]
  BY <1>1, <1>2 DEF u
<1>6. ToSet(u) = ToSet(s) \cup ToSet(t)
  BY <1>3, <1>4, <1>5 DEF ToSet
<1>. QED BY <1>1, <1>6 DEF u

LEMMA RemoveFacts ==
  ASSUME NEW T, NEW s \in Seq(T), NEW i \in DOMAIN s
  PROVE  RemoveAt(s, i) \in Seq(T) /\ ToSet(s) = ToSet(RemoveAt(s, i)) \cup {s[i]}
<1>. DEFINE a == SubSeq(s, 1, i - 1)
            b == SubSeq(s, i + 1, Len(s))
<1>1. Len(s) \in Nat /\ DOMAIN s = 1..Len(s) /\ \A m \in 1..Len(s) : s[m] \in T
  BY LenProperties, ElementOfSeq
<1>2. a = First(s, i - 1) /\ b = Rest(s, i) /\ i - 1 \in Nat /\ i \in Nat
  BY <1>1 DEF First, Rest
<1>. HIDE DEF a, b
<1>3. PICK k \in Nat : k = i - 1
  BY <1>2
<1>4. Splits(T, s, k) /\ Splits(T, s, i)
  BY <1>2, SplitFacts
<1>5. a \in Seq(T) /\ b \in Seq(T)
  BY <1>2, <1>3, <1>4 DEF Splits
<1>6. ToSet(s) = ToSet(a) \cup ToSet(b) \cup {s[i]}
  <2>1. ToSet(s) = ToSet(a) \cup ToSet(Rest(s, k))
    BY <1>2, <1>3, <1>4 DEF Splits
  <2>2. ToSet(s) = ToSet(First(s, i)) \cup ToSet(b)
    BY <1>2, <1>4 DEF Splits
  <2>3. ToSet(First(s, i)) \subseteq ToSet(a) \cup {s[i]}
    <3>1. /\ SubSeq(s, 1, i) \in Seq(T) /\ Len(SubSeq(s, 1, i)) = i
          /\ \A m \in 1..i : SubSeq(s, 1, i)[m] = s[m]
      <4>1. 1 \in Int /\ i \in Int /\ \A m \in 1..i : s[m] \in T
        BY <1>1
      <4>. QED BY <1>1, <4>1, SubSeqProperties
    <3>2. First(s, i) = SubSeq(s, 1, i)
      BY <1>1 DEF First
    <3>3. \A m \in 1..i : m <= i - 1 => s[m] \in ToSet(a)
      <4>1. \A m \in DOMAIN s : m <= k => s[m] \in ToSet(First(s, k))
        BY <1>4 DEF Splits
      <4>2. \A m \in 1..i : m \in DOMAIN s
        BY <1>1
      <4>. QED BY <1>2, <1>3, <4>1, <4>2
    <3>4. \A m \in 1..i : m <= i - 1 \/ m = i
      BY <1>1
    <3>. QED BY <3>1, <3>2, <3>3, <3>4, LenProperties DEF ToSet
  <2>4. s[i] \in ToSet(s)
    BY DEF ToSet
  <2>. QED BY <2>1, <2>2, <2>3, <2>4
<1>7. RemoveAt(s, i) = a \o b
  BY DEF RemoveAt, a, b
<1>. QED BY <1>5, <1>6, <1>7, ConcatFacts

LEMMA EmptyFacts ==
  ASSUME NEW T PROVE <<>> \in Seq(T) /\ ToSet(<<>>) = {}
BY EmptySeq DEF ToSet

--------------------------------------------------------------------------------
(* The inductive invariant. Read(f, n) is what the pages of f before n      *)
(* show; Works is what the task still has to ask for.                       *)
Read(f, n) == UNION {ToSet(Pages[f][m]) : m \in 1..(n - 1)}
Works      == ToSet(queue) \cup ToSet(flight)
Pending    == IF page = NoPage THEN {} ELSE ToSet(page.items)

Point == [page : Nat \ {0}, depth : Nat]
Applied == [folder : Files, depth : Nat, items : Seq(Files), checkpoints : Seq(Files),
            enqueue : Seq(Files), next : Nat]

Place(f, n)  == f \in opens /\ n \in DOMAIN Pages[f]
ListedTo(p)  == IF p.next = 0 THEN Len(Pages[p.folder]) + 1 ELSE p.next

Types ==
  /\ status \in Statuses /\ opens \in {Eligible, {}}
  /\ Committed \subseteq Files /\ depthOf \in [Committed -> Nat]
  /\ DOMAIN ckpt \subseteq opens /\ ckpt \in [DOMAIN ckpt -> Point]
  /\ at \in {"idle", "collect", "seed", "run"} /\ pause \in BOOLEAN
  /\ batch \in Seq(RootSet) /\ visited \subseteq Files
  /\ queue \in Seq(Work) /\ flight \in Seq(Work)

Places ==
  /\ \A f \in DOMAIN ckpt : Place(f, ckpt[f].page)
  /\ \A w \in Works : Place(w.folder, w.page)
  /\ page # NoPage => /\ page \in Applied /\ page.folder \in opens
                      /\ page.next # 0 => Place(page.folder, page.next)
                      /\ ToSet(page.checkpoints) \subseteq ToSet(page.enqueue)
                      /\ ToSet(page.enqueue) \subseteq opens

(* The memory of a scan goes with its task and has what the rows have.      *)
Phases ==
  /\ at # "run" => queue = <<>> /\ flight = <<>> /\ page = NoPage
  /\ at # "idle" => status = "SCANNING"
  /\ at = "run" => visited = Committed \cup Pending

(* Nothing is ahead of the items: no checkpoint, no page that is asked for, *)
(* and no folder that has no checkpoint any more.                           *)
Behind ==
  /\ \A f \in DOMAIN ckpt : Read(f, ckpt[f].page) \subseteq Committed
  /\ \A w \in Works : Read(w.folder, w.page) \subseteq Committed
  /\ page # NoPage => Read(page.folder, ListedTo(page)) \subseteq Committed \cup Pending
  /\ \A f \in (Committed \cap opens) \ DOMAIN ckpt : Kids[f] \subseteq Committed

(* A folder of the page at hand gets its checkpoint with its item, or       *)
(* before: its place among the folders is not after that among the items.   *)
InTime ==
  page # NoPage =>
    \A i \in DOMAIN page.items : page.items[i] \in opens =>
      \/ page.items[i] \in DOMAIN ckpt
      \/ \E k \in DOMAIN page.checkpoints : k <= i /\ page.checkpoints[k] = page.items[i]

(* Every checkpoint is on the way to be worked off.                         *)
Remembered ==
  at = "run" => \A f \in DOMAIN ckpt :
    \/ \E w \in Works : w.folder = f
    \/ page # NoPage /\ (f = page.folder \/ f \in ToSet(page.enqueue))

IInv == Types /\ Places /\ Phases /\ Behind /\ InTime /\ Remembered

--------------------------------------------------------------------------------
(* The tree. *)

LEMMA Tree ==
  /\ IsFiniteSet(Files) /\ Roots \in Seq(Files) /\ RootSet \subseteq Files
  /\ Eligible \subseteq Files /\ Batch \in Nat \ {0} /\ Concurrency \in Nat \ {0}
  /\ \A f \in Files : /\ Pages[f] \in Seq(Seq(Files)) /\ Len(Pages[f]) \in Nat \ {0}
                      /\ DOMAIN Pages[f] = 1..Len(Pages[f])
                      /\ \A n \in DOMAIN Pages[f] : Pages[f][n] \in Seq(Files)
<1>1. Roots \in Seq(Files) /\ RootSet \subseteq Files
  <2>1. Roots \in Seq(Files)
    BY ScannerAssumption
  <2>. QED BY <2>1, LenProperties, ElementOfSeq DEF RootSet, ToSet
<1>2. ASSUME NEW f \in Files
      PROVE  /\ Pages[f] \in Seq(Seq(Files)) /\ Len(Pages[f]) \in Nat \ {0}
             /\ DOMAIN Pages[f] = 1..Len(Pages[f])
             /\ \A n \in DOMAIN Pages[f] : Pages[f][n] \in Seq(Files)
  <2>1. Pages[f] \in Seq(Seq(Files)) /\ Pages[f] # <<>>
    BY ScannerAssumption
  <2>2. Len(Pages[f]) \in Nat \ {0} /\ DOMAIN Pages[f] = 1..Len(Pages[f])
    BY <2>1, EmptySeq, LenProperties
  <2>. QED BY <2>1, <2>2, ElementOfSeq
<1>. QED BY <1>1, <1>2, ScannerAssumption DEF Eligible

(* The pages are read one after the other, and the last one ends it.        *)
LEMMA Reading ==
  ASSUME NEW f \in Files
  PROVE  /\ Read(f, 1) = {} /\ 1 \in DOMAIN Pages[f]
         /\ Read(f, Len(Pages[f]) + 1) = Kids[f]
         /\ \A n \in DOMAIN Pages[f] : Read(f, n + 1) = Read(f, n) \cup ToSet(Pages[f][n])
         /\ \A n \in DOMAIN Pages[f] : ToSet(Pages[f][n]) \subseteq Kids[f]
<1>1. Len(Pages[f]) \in Nat \ {0} /\ DOMAIN Pages[f] = 1..Len(Pages[f])
  BY Tree
<1>2. Read(f, 1) = {}
  <2>1. 1..(1 - 1) = {}
    OBVIOUS
  <2>. QED BY <2>1 DEF Read
<1>3. Read(f, Len(Pages[f]) + 1) = Kids[f]
  <2>1. 1..((Len(Pages[f]) + 1) - 1) = DOMAIN Pages[f]
    BY <1>1
  <2>. QED BY <2>1 DEF Read, Kids
<1>4. ASSUME NEW n \in DOMAIN Pages[f]
      PROVE  Read(f, n + 1) = Read(f, n) \cup ToSet(Pages[f][n])
  <2>1. 1..((n + 1) - 1) = (1..(n - 1)) \cup {n}
    BY <1>1
  <2>. QED BY <2>1 DEF Read
<1>5. \A n \in DOMAIN Pages[f] : ToSet(Pages[f][n]) \subseteq Kids[f]
  BY DEF Kids
<1>. QED BY <1>1, <1>2, <1>3, <1>4, <1>5

(* What a transaction of the scan leaves. *)
Commits(items, d, folders, point, gone) ==
  /\ Committed' = Committed \cup items /\ Committed' \subseteq Files
  /\ depthOf' \in [Committed' -> Nat]
  /\ \A f \in Committed' : depthOf'[f] = IF f \in Committed THEN depthOf[f] ELSE d
  /\ DOMAIN ckpt' = (DOMAIN ckpt \cup folders) \ gone /\ DOMAIN ckpt' \subseteq opens
  /\ ckpt' \in [DOMAIN ckpt' -> Point]
  /\ \A f \in DOMAIN ckpt' : ckpt'[f] = IF f \in folders THEN point ELSE ckpt[f]

LEMMA Batches ==
  ASSUME Types, NEW items \in SUBSET Files, NEW d \in Nat, NEW folders \in SUBSET opens,
         NEW point, folders = {} \/ point \in Point, NEW gone,
         CommitBatch(items, d, folders, point, gone), opens' = opens
  PROVE  Commits(items, d, folders, point, gone)
<1>1. /\ depthOf' = [f \in Committed \cup items |-> IF f \in Committed THEN depthOf[f] ELSE d]
      /\ ckpt' = [f \in (DOMAIN ckpt \cup folders) \ gone |->
                    IF f \in folders THEN point ELSE ckpt[f]]
  BY DEF CommitBatch
<1>2. Committed' = Committed \cup items
  BY <1>1 DEF Committed
<1>3. /\ \A f \in Committed' : depthOf'[f] = IF f \in Committed THEN depthOf[f] ELSE d
      /\ \A f \in DOMAIN ckpt' : ckpt'[f] = IF f \in folders THEN point ELSE ckpt[f]
      /\ DOMAIN ckpt' = (DOMAIN ckpt \cup folders) \ gone
  BY <1>1, <1>2
<1>4. /\ Committed \subseteq Files /\ depthOf \in [Committed -> Nat]
      /\ DOMAIN ckpt \subseteq opens /\ ckpt \in [DOMAIN ckpt -> Point]
  BY DEF Types
<1>5. depthOf' \in [Committed' -> Nat]
  BY <1>1, <1>2, <1>4
<1>6. ckpt' \in [DOMAIN ckpt' -> Point]
  BY <1>1, <1>3, <1>4
<1>. QED BY <1>2, <1>3, <1>4, <1>5, <1>6 DEF Commits

(* The queue of a resumed scan holds each checkpoint once. *)
LEMMA ResumedFacts ==
  ASSUME Types, NEW q \in Resumed
  PROVE  /\ q \in Seq(Work)
         /\ \A w \in ToSet(q) : w.folder \in DOMAIN ckpt /\ w.page = ckpt[w.folder].page
                                  /\ w.depth = ckpt[w.folder].depth
         /\ \A f \in DOMAIN ckpt : \E w \in ToSet(q) : w.folder = f
<1>. DEFINE C == DOMAIN ckpt
            work(f) == [folder |-> f, page |-> ckpt[f].page, depth |-> ckpt[f].depth]
<1>1. PICK s \in SetToSeqs(C) : q = [i \in DOMAIN s |-> work(s[i])]
  BY DEF Resumed
<1>2. C \in SUBSET Files /\ IsFiniteSet(C) /\ Cardinality(C) \in Nat
  <2>1. C \in SUBSET Files
    BY Tree DEF Types
  <2>. QED BY <2>1, Tree, FS_Subset, FS_CardinalityType
<1>3. s \in [1..Cardinality(C) -> C] /\ \A i, j \in 1..Cardinality(C) : i # j => s[i] # s[j]
  BY <1>1 DEF SetToSeqs
<1>4. \A f \in C : \E i \in 1..Cardinality(C) : s[i] = f
  <2>1. s \in Injection(1..Cardinality(C), C)
    BY <1>3 DEF Injection, IsInjective
  <2>2. IsFiniteSet(1..Cardinality(C)) /\ Cardinality(1..Cardinality(C)) = Cardinality(C)
    BY <1>2, FS_Interval
  <2>. HIDE DEF C
  <2>3. s \in Surjection(1..Cardinality(C), C)
    BY <1>2, <2>1, <2>2, FS_Injection
  <2>. QED BY <2>3 DEF Surjection
<1>5. \A f \in C : work(f) \in Work
  BY <1>2 DEF Types, Point, Work
<1>6. DOMAIN q = 1..Cardinality(C) /\ \A i \in 1..Cardinality(C) : q[i] = work(s[i])
  BY <1>1, <1>3
<1>7. q \in Seq(Work)
  <2>. HIDE DEF C, work
  <2>1. q = [i \in 1..Cardinality(C) |-> work(s[i])]
    BY <1>1, <1>3
  <2>2. \A i \in 1..Cardinality(C) : work(s[i]) \in Work
    BY <1>3, <1>5
  <2>. QED BY <1>2, <2>1, <2>2
<1>8. \A w \in ToSet(q) : \E f \in C : w = work(f)
  <2>. HIDE DEF work
  <2>. QED BY <1>3, <1>6 DEF ToSet
<1>9. \A f \in C : work(f) \in ToSet(q)
  <2>. HIDE DEF work, C
  <2>. QED BY <1>4, <1>6 DEF ToSet
<1>10. \A f \in C : work(f).folder = f /\ work(f).page = ckpt[f].page /\ work(f).depth = ckpt[f].depth
  OBVIOUS
<1>. HIDE DEF work
<1>. QED BY <1>7, <1>8, <1>9, <1>10

--------------------------------------------------------------------------------
(* The steps that leave the rows alone. *)

LEMMA Forgets ==
  ASSUME IInv, Forget, UNCHANGED <<depthOf, ckpt, opens>>, status' \in Statuses
  PROVE  IInv'
<1>1. /\ at' = "idle" /\ pause' = FALSE /\ batch' = <<>> /\ visited' = {}
      /\ queue' = <<>> /\ flight' = <<>> /\ page' = NoPage
  BY DEF Forget
<1>2. Works' = {} /\ Committed' = Committed
  BY <1>1, EmptyFacts DEF Works, Committed
<1>3. Types'
  BY <1>1, <1>2, EmptyFacts DEF IInv, Types
<1>4. Places'
  BY <1>1, <1>2 DEF IInv, Places, Place
<1>5. Phases'
  BY <1>1 DEF Phases
<1>6. Behind'
  BY <1>1, <1>2 DEF IInv, Behind
<1>7. InTime' /\ Remembered'
  BY <1>1 DEF InTime, Remembered
<1>. QED BY <1>3, <1>4, <1>5, <1>6, <1>7 DEF IInv

(* A scan goes on from the rows. *)
LEMMA Runs ==
  ASSUME IInv, UNCHANGED <<depthOf, ckpt, opens, batch, flight, page>>, flight = <<>>,
         page = NoPage, at' = "run", status' = "SCANNING", visited' = Committed,
         queue' \in Resumed, pause' \in BOOLEAN
  PROVE  IInv'
<1>1. /\ queue' \in Seq(Work)
      /\ \A w \in ToSet(queue') : /\ w.folder \in DOMAIN ckpt /\ w.page = ckpt[w.folder].page
                                  /\ w.depth = ckpt[w.folder].depth
      /\ \A f \in DOMAIN ckpt : \E w \in ToSet(queue') : w.folder = f
  BY ResumedFacts DEF IInv
<1>2. Works' = ToSet(queue') /\ Committed' = Committed /\ Pending' = {}
  BY EmptyFacts DEF Works, Committed, Pending
<1>3. Types'
  BY <1>1, <1>2, EmptyFacts DEF IInv, Types, Statuses
<1>4. Places'
  BY <1>1, <1>2 DEF IInv, Places, Place
<1>5. Phases'
  BY <1>2 DEF Phases
<1>6. Behind'
  BY <1>1, <1>2 DEF IInv, Behind
<1>7. InTime' /\ Remembered'
  BY <1>1, <1>2 DEF InTime, Remembered
<1>. QED BY <1>3, <1>4, <1>5, <1>6, <1>7 DEF IInv

LEMMA StartKeeps == IInv /\ StartScan => IInv'
<1>. SUFFICES ASSUME IInv, StartScan PROVE IInv'
  OBVIOUS
<1>1. /\ at = "idle" /\ status' = "SCANNING" /\ pause' = FALSE
      /\ UNCHANGED <<depthOf, ckpt, opens, batch, flight, page>>
  BY DEF StartScan, StartScanning, Move, Illegal
<1>2. queue = <<>> /\ flight = <<>> /\ page = NoPage
  BY <1>1 DEF IInv, Phases
<1>3. CASE at' = "run" /\ visited' = Committed /\ queue' \in Resumed
  BY <1>1, <1>2, <1>3, Runs
<1>4. CASE at' = "collect" /\ UNCHANGED <<visited, queue>>
  <2>1. Works' = Works /\ Committed' = Committed /\ Pending' = Pending /\ Pending = {}
    BY <1>1, <1>2, <1>4 DEF Works, Committed, Pending
  <2>2. Types' /\ Places' /\ Phases'
    BY <1>1, <1>2, <1>4, <2>1 DEF IInv, Types, Places, Place, Phases, Statuses
  <2>3. Behind' /\ InTime' /\ Remembered'
    BY <1>1, <1>2, <1>4, <2>1 DEF IInv, Behind, InTime, Remembered
  <2>. QED BY <2>2, <2>3 DEF IInv
<1>. QED BY <1>3, <1>4 DEF StartScan

(* What one transaction of root items leaves. *)
Now(s) == ToSet(First(s, Batch))
Begin(d) == [page |-> 1, depth |-> d]

RootsCommitted ==
  /\ Commits(Now(batch), 0, Now(batch) \cap opens, Begin(0), {})
  /\ Now(batch) \subseteq RootSet /\ Splits(RootSet, batch, Batch)
  /\ batch' = Rest(batch, Batch) /\ at = "seed"
  /\ UNCHANGED <<status, opens, at, pause, visited, queue, flight, page>>

LEMMA RootsEffect == IInv /\ PersistRoots => RootsCommitted
<1>. SUFFICES ASSUME IInv, PersistRoots PROVE RootsCommitted
  OBVIOUS
<1>1. /\ CommitBatch(Now(batch), 0, Now(batch) \cap opens, Begin(0), {})
      /\ batch' = Rest(batch, Batch) /\ at = "seed"
      /\ UNCHANGED <<status, opens, at, pause, visited, queue, flight, page>>
  BY DEF PersistRoots, Now, Begin
<1>2. Splits(RootSet, batch, Batch) /\ batch \in Seq(RootSet)
  BY Tree, SplitFacts DEF IInv, Types
<1>3. Now(batch) \subseteq RootSet /\ RootSet \subseteq Files
  <2>1. First(batch, Batch) \in Seq(RootSet)
    BY <1>2 DEF Splits
  <2>. QED BY <2>1, Tree, LenProperties, ElementOfSeq DEF ToSet, Now
<1>4. Begin(0) \in Point
  BY DEF Point, Begin
<1>5. Commits(Now(batch), 0, Now(batch) \cap opens, Begin(0), {})
  BY <1>1, <1>3, <1>4, Batches DEF IInv
<1>. QED BY <1>1, <1>2, <1>3, <1>5 DEF RootsCommitted

(* The roots. *)
LEMMA SeedKeeps == IInv /\ (CollectRoots \/ PersistRoots \/ Seeded) => IInv'
<1>. SUFFICES ASSUME IInv, CollectRoots \/ PersistRoots \/ Seeded PROVE IInv'
  OBVIOUS
<1>1. CASE Seeded
  <2>1. status = "SCANNING" /\ flight = <<>> /\ page = NoPage
    BY <1>1 DEF Seeded, IInv, Phases
  <2>. QED BY <1>1, <2>1, Runs DEF Seeded, rows, IInv, Types
<1>2. CASE CollectRoots
  <2>1. batch' \in Seq(RootSet)
    <3>1. Roots \in Seq(RootSet)
      BY Tree, LenProperties DEF RootSet, ToSet
    <3>. QED BY <1>2, <3>1, FreshFacts DEF CollectRoots
  <2>2. /\ at = "collect" /\ at' = "seed" /\ UNCHANGED <<rows, pause, visited, queue, flight, page>>
        /\ Works' = Works /\ Committed' = Committed /\ Pending' = Pending
    BY <1>2 DEF CollectRoots, rows, Works, Committed, Pending
  <2>3. Types' /\ Places' /\ Phases'
    BY <2>1, <2>2 DEF IInv, Types, Places, Place, Phases, rows
  <2>4. Behind' /\ InTime' /\ Remembered'
    BY <2>2 DEF IInv, Behind, InTime, Remembered, rows
  <2>. QED BY <2>3, <2>4 DEF IInv
<1>3. CASE PersistRoots
  <2>. DEFINE items == Now(batch)
              point == Begin(0)
  <2>1. RootsCommitted /\ at = "seed" /\ opens' = opens
        /\ UNCHANGED <<status, opens, at, pause, visited, queue, flight, page>>
    BY <1>3, RootsEffect DEF RootsCommitted
  <2>3. batch' \in Seq(RootSet)
    BY <2>1 DEF RootsCommitted, Splits
  <2>4. point.page = 1
    BY DEF Begin
  <2>. HIDE DEF items, point
  <2>5. /\ Committed' = Committed \cup items /\ Committed' \subseteq Files
        /\ depthOf' \in [Committed' -> Nat]
        /\ DOMAIN ckpt' = DOMAIN ckpt \cup (items \cap opens) /\ DOMAIN ckpt' \subseteq opens
        /\ ckpt' \in [DOMAIN ckpt' -> Point]
        /\ \A f \in DOMAIN ckpt' : ckpt'[f] = IF f \in items \cap opens THEN point ELSE ckpt[f]
    BY <2>1 DEF RootsCommitted, Commits, items, point
  <2>6. queue = <<>> /\ flight = <<>> /\ page = NoPage
    BY <2>1 DEF IInv, Phases
  <2>7. Works' = {}
    BY <2>1, <2>6, EmptyFacts DEF Works
  <2>8. Types'
    BY <2>1, <2>3, <2>5 DEF IInv, Types
  <2>9. opens \subseteq Files
    BY Tree DEF IInv, Types
  <2>10. Places'
    <3>1. \A f \in DOMAIN ckpt' : Place(f, ckpt'[f].page)
      BY <2>4, <2>5, <2>9, Reading DEF IInv, Places, Place
    <3>. QED BY <2>1, <2>6, <2>7, <3>1 DEF Places, Place
  <2>11. Phases'
    BY <2>1 DEF IInv, Phases
  <2>12. Behind'
    <3>1. \A f \in DOMAIN ckpt' : Read(f, ckpt'[f].page) \subseteq Committed'
      BY <2>4, <2>5, <2>9, Reading DEF IInv, Behind
    <3>2. \A f \in (Committed' \cap opens) \ DOMAIN ckpt' : Kids[f] \subseteq Committed'
      BY <2>5 DEF IInv, Behind
    <3>. QED BY <2>1, <2>6, <2>7, <3>1, <3>2 DEF Behind
  <2>13. InTime' /\ Remembered'
    BY <2>1, <2>6 DEF InTime, Remembered
  <2>. QED BY <2>8, <2>10, <2>11, <2>12, <2>13 DEF IInv
<1>. QED BY <1>1, <1>2, <1>3

(* The next pages are asked for. *)
LEMMA WaveKeeps == IInv /\ StartWave => IInv'
<1>. SUFFICES ASSUME IInv, StartWave PROVE IInv'
  OBVIOUS
<1>1. /\ flight = <<>> /\ page = NoPage /\ at = "run"
      /\ flight' = First(queue, Concurrency) /\ queue' = Rest(queue, Concurrency)
      /\ UNCHANGED <<rows, at, pause, batch, visited, page>>
  BY DEF StartWave, BetweenWaves
<1>2. Splits(Work, queue, Concurrency)
  BY Tree, SplitFacts DEF IInv, Types
<1>3. queue' \in Seq(Work) /\ flight' \in Seq(Work) /\ Works' = Works
  BY <1>1, <1>2, EmptyFacts DEF Works, Splits
<1>4. Committed' = Committed /\ Pending' = Pending
  BY <1>1 DEF Committed, Pending, rows
<1>5. Types' /\ Places' /\ Phases'
  BY <1>1, <1>3, <1>4 DEF IInv, Types, Places, Place, Phases, rows
<1>6. Behind' /\ InTime' /\ Remembered'
  BY <1>1, <1>3, <1>4 DEF IInv, Behind, InTime, Remembered, rows
<1>. QED BY <1>5, <1>6 DEF IInv

--------------------------------------------------------------------------------
(* A page comes back, its items are committed batch by batch, and then its  *)
(* checkpoint.                                                              *)

LEMMA NotApplied == \A p \in Applied : p # NoPage
BY DEF Applied, NoPage

Asks(q, fs, n, d) ==
  /\ q \in Seq(Work)
  /\ \A w \in ToSet(q) : w.folder \in ToSet(fs) /\ w.page = n /\ w.depth = d
  /\ \A f \in ToSet(fs) : \E w \in ToSet(q) : w.folder = f

LEMMA AsWorkFacts ==
  ASSUME NEW fs \in Seq(Files), NEW n \in Nat \ {0}, NEW d \in Nat
  PROVE  Asks(AsWork(fs, n, d), fs, n, d)
<1>. DEFINE q == AsWork(fs, n, d)
            work(f) == [folder |-> f, page |-> n, depth |-> d]
<1>1. Len(fs) \in Nat /\ DOMAIN fs = 1..Len(fs) /\ \A i \in DOMAIN fs : fs[i] \in Files
  BY LenProperties, ElementOfSeq
<1>2. q = [i \in 1..Len(fs) |-> work(fs[i])]
  BY <1>1 DEF AsWork
<1>3. \A f \in Files : /\ work(f) \in Work /\ work(f).folder = f
                       /\ work(f).page = n /\ work(f).depth = d
  BY DEF Work
<1>. HIDE DEF work, q
<1>4. q \in Seq(Work) /\ DOMAIN q = DOMAIN fs
  BY <1>1, <1>2, <1>3
<1>5. \A i \in DOMAIN fs : q[i] = work(fs[i])
  BY <1>1, <1>2
<1>6. \A w \in ToSet(q) : w.folder \in ToSet(fs) /\ w.page = n /\ w.depth = d
  BY <1>1, <1>3, <1>4, <1>5 DEF ToSet
<1>7. \A f \in ToSet(fs) : \E w \in ToSet(q) : w.folder = f
  BY <1>1, <1>3, <1>4, <1>5 DEF ToSet
<1>. QED BY <1>4, <1>6, <1>7 DEF q, Asks

(* What is asked for after a page. *)
LEMMA NextPages ==
  ASSUME NEW w \in Work, w.page \in DOMAIN Pages[w.folder]
  PROVE  /\ NextPage(w) \in Nat
         /\ NextPage(w) # 0 => NextPage(w) \in DOMAIN Pages[w.folder]
         /\ (IF NextPage(w) = 0 THEN Len(Pages[w.folder]) + 1 ELSE NextPage(w)) = w.page + 1
<1>1. w.folder \in Files /\ w.page \in Nat \ {0}
  BY DEF Work
<1>. QED BY <1>1, Tree DEF NextPage

(* The page that comes back in the place of w. *)
Arrives(w, new, sub) ==
  /\ page' \in Applied /\ page'.folder = w.folder /\ page'.depth = w.depth
  /\ page'.items = new /\ page'.checkpoints = sub /\ page'.enqueue = sub
  /\ page'.next = NextPage(w)
  /\ new \in Seq(Files) /\ sub \in Seq(Files)
  /\ ToSet(new) = ToSet(Pages[w.folder][w.page]) \ visited
  /\ ToSet(sub) = ToSet(new) \cap opens
  /\ \A i \in DOMAIN new : new[i] \in opens =>
       \E k \in DOMAIN sub : k <= i /\ sub[k] = new[i]
  /\ visited' = visited \cup ToSet(new)
  /\ flight' \in Seq(Work) /\ Works = Works' \cup {w}
  /\ w \in Work /\ w \in Works /\ Place(w.folder, w.page)

LEMMA Arrival ==
  ASSUME IInv, PageArrives
  PROVE  \E w \in Work : \E new, sub \in Seq(Files) : Arrives(w, new, sub)
<1>1. PICK i \in DOMAIN flight :
        LET w   == flight[i]
            new == Fresh(Pages[w.folder][w.page], Files \ visited)
            sub == Fresh(new, opens)
        IN /\ page' = [folder |-> w.folder, depth |-> w.depth, items |-> new,
                       checkpoints |-> sub, enqueue |-> sub,
                       next |-> NextPage(w)]
           /\ visited' = visited \cup ToSet(new)
           /\ flight' = RemoveAt(flight, i)
  BY DEF PageArrives
<1>. DEFINE w == flight[i]
            new == Fresh(Pages[w.folder][w.page], Files \ visited)
            sub == Fresh(new, opens)
<1>2. /\ page' = [folder |-> w.folder, depth |-> w.depth, items |-> new,
                  checkpoints |-> sub, enqueue |-> sub, next |-> NextPage(w)]
      /\ visited' = visited \cup ToSet(new)
      /\ flight' = RemoveAt(flight, i) /\ queue' = queue
  BY <1>1 DEF PageArrives
<1>3. w \in Work /\ w \in Works
  <2>1. flight \in Seq(Work) /\ w \in ToSet(flight)
    BY DEF IInv, Types, ToSet
  <2>. QED BY <2>1, LenProperties, ElementOfSeq DEF Works
<1>4. Place(w.folder, w.page)
  BY <1>3 DEF IInv, Places
<1>. HIDE DEF w
<1>5. w.folder \in Files /\ w.depth \in Nat /\ w.page \in DOMAIN Pages[w.folder]
  BY <1>3, <1>4 DEF Work, Place
<1>6. /\ Pages[w.folder][w.page] \in Seq(Files)
      /\ ToSet(Pages[w.folder][w.page]) \subseteq Files
  <2>1. Pages[w.folder][w.page] \in Seq(Files)
    BY <1>5, Tree
  <2>. QED BY <2>1, LenProperties, ElementOfSeq DEF ToSet
<1>7. new \in Seq(Files) /\ ToSet(new) = ToSet(Pages[w.folder][w.page]) \ visited
  BY <1>6, FreshFacts
<1>. HIDE DEF new
<1>8. /\ sub \in Seq(Files) /\ ToSet(sub) = ToSet(new) \cap opens
      /\ \A j \in DOMAIN new : new[j] \in opens =>
           \E k \in DOMAIN sub : k <= j /\ sub[k] = new[j]
  BY <1>7, FreshFacts
<1>. HIDE DEF sub
<1>9. /\ page' \in Applied /\ page'.folder = w.folder /\ page'.depth = w.depth
      /\ page'.items = new /\ page'.checkpoints = sub /\ page'.enqueue = sub
      /\ page'.next = NextPage(w)
  BY <1>2, <1>3, <1>5, <1>7, <1>8, NextPages DEF Applied
<1>10. flight' \in Seq(Work) /\ Works = Works' \cup {w}
  <2>1. flight' \in Seq(Work) /\ ToSet(flight) = ToSet(flight') \cup {w}
    BY <1>2, RemoveFacts DEF IInv, Types, w
  <2>. QED BY <1>2, <2>1 DEF Works
<1>. QED BY <1>2, <1>3, <1>4, <1>7, <1>8, <1>9, <1>10 DEF Arrives

LEMMA PageArrivesKeeps == IInv /\ PageArrives => IInv'
<1>. SUFFICES ASSUME IInv, PageArrives PROVE IInv'
  OBVIOUS
<1>1. PICK w \in Work, new \in Seq(Files), sub \in Seq(Files) : Arrives(w, new, sub)
  BY Arrival
<1>2. page = NoPage /\ UNCHANGED <<rows, at, pause, batch, queue>>
  BY DEF PageArrives
<1>3. at = "run"
  <2>1. flight # <<>>
    BY DEF PageArrives
  <2>. QED BY <2>1 DEF IInv, Phases
<1>4. /\ page' # NoPage /\ Pending = {} /\ visited = Committed
      /\ Committed' = Committed /\ Pending' = ToSet(new)
  BY <1>1, <1>2, <1>3, NotApplied DEF Arrives, Pending, Committed, rows, IInv, Phases
<1>5. /\ w.folder \in Files /\ w.folder \in opens /\ w.page \in DOMAIN Pages[w.folder]
      /\ ToSet(new) \subseteq Files
  <2>1. w.folder \in Files /\ w.folder \in opens /\ w.page \in DOMAIN Pages[w.folder]
    BY <1>1 DEF Arrives, Place, Work
  <2>. QED BY <2>1, LenProperties, ElementOfSeq DEF ToSet
<1>6. /\ NextPage(w) # 0 => NextPage(w) \in DOMAIN Pages[w.folder]
      /\ ListedTo(page') = w.page + 1
  BY <1>1, <1>5, NextPages DEF Arrives, ListedTo
<1>7. Types'
  BY <1>1, <1>2, <1>4, <1>5 DEF IInv, Types, rows, Arrives
<1>8. Places'
  <2>1. \A f \in DOMAIN ckpt' : f \in opens' /\ ckpt'[f].page \in DOMAIN Pages[f]
    BY <1>2 DEF IInv, Places, Place, rows
  <2>2. \A v \in Works' : v.folder \in opens' /\ v.page \in DOMAIN Pages[v.folder]
    BY <1>1, <1>2 DEF IInv, Places, Place, rows, Arrives
  <2>3. /\ page' \in Applied /\ page'.folder \in opens'
        /\ page'.next # 0 => page'.next \in DOMAIN Pages[page'.folder]
        /\ ToSet(page'.checkpoints) \subseteq ToSet(page'.enqueue)
        /\ ToSet(page'.enqueue) \subseteq opens'
    BY <1>1, <1>2, <1>5, <1>6 DEF rows, Arrives
  <2>. QED BY <2>1, <2>2, <2>3 DEF Places, Place
<1>9. Phases'
  BY <1>1, <1>2, <1>3, <1>4 DEF IInv, Phases, rows, Arrives
<1>10. Behind'
  <2>1. Read(page'.folder, ListedTo(page')) \subseteq Committed \cup ToSet(new)
    <3>1. Read(w.folder, w.page + 1) = Read(w.folder, w.page) \cup ToSet(Pages[w.folder][w.page])
      BY <1>5, Reading
    <3>2. Read(w.folder, w.page) \subseteq Committed
      BY <1>1 DEF Arrives, IInv, Behind
    <3>3. page'.folder = w.folder /\ ToSet(Pages[w.folder][w.page]) \subseteq Committed \cup ToSet(new)
      BY <1>1, <1>4 DEF Arrives
    <3>. QED BY <1>6, <3>1, <3>2, <3>3
  <2>2. \A v \in Works' : Read(v.folder, v.page) \subseteq Committed
    BY <1>1 DEF Arrives, IInv, Behind
  <2>. QED BY <1>2, <1>4, <2>1, <2>2 DEF IInv, Behind, rows
<1>11. InTime'
  BY <1>1, <1>2 DEF Arrives, InTime, rows
<1>12. Remembered'
  BY <1>1, <1>2, <1>3, <1>4 DEF Arrives, Remembered, IInv, rows
<1>. QED BY <1>7, <1>8, <1>9, <1>10, <1>11, <1>12 DEF IInv

(* The fields of the page that CommitItems leaves. *)
Shortened ==
  /\ page' \in Applied /\ page'.folder = page.folder /\ page'.depth = page.depth
  /\ page'.next = page.next /\ page'.enqueue = page.enqueue
  /\ page'.items = Rest(page.items, Batch)
  /\ page'.checkpoints = Rest(page.checkpoints, Batch)

LEMMA Shortens ==
  ASSUME page \in Applied, Batch \in Nat,
         page' = [page EXCEPT !.items = Rest(@, Batch), !.checkpoints = Rest(@, Batch)]
  PROVE  Shortened
<1>1. Splits(Files, page.items, Batch) /\ Splits(Files, page.checkpoints, Batch)
  BY SplitFacts DEF Applied
<1>2. Rest(page.items, Batch) \in Seq(Files) /\ Rest(page.checkpoints, Batch) \in Seq(Files)
  BY <1>1 DEF Splits
<1>. QED BY <1>2 DEF Shortened, Applied

ItemsCommitted ==
  /\ Commits(Now(page.items), page.depth + 1, Now(page.checkpoints), Begin(page.depth + 1), {})
  /\ Splits(Files, page.items, Batch) /\ Splits(Files, page.checkpoints, Batch)
  /\ Now(page.items) \subseteq ToSet(page.items)
  /\ Now(page.checkpoints) \subseteq ToSet(page.checkpoints)
  /\ page # NoPage /\ page \in Applied /\ page' # NoPage /\ Shortened /\ at = "run"
  /\ UNCHANGED <<status, opens, at, pause, batch, visited, queue, flight>>

LEMMA ItemsEffect == IInv /\ CommitItems => ItemsCommitted
<1>. SUFFICES ASSUME IInv, CommitItems PROVE ItemsCommitted
  OBVIOUS
<1>. DEFINE I == Now(page.items)
            K == Now(page.checkpoints)
            point == Begin(page.depth + 1)
<1>1. /\ CommitBatch(I, page.depth + 1, K, point, {})
      /\ page' = [page EXCEPT !.items = Rest(@, Batch), !.checkpoints = Rest(@, Batch)]
      /\ page # NoPage /\ UNCHANGED <<status, opens, at, pause, batch, visited, queue, flight>>
  BY DEF CommitItems, Now, Begin
<1>2. /\ page \in Applied /\ at = "run"
      /\ ToSet(page.checkpoints) \subseteq ToSet(page.enqueue)
      /\ ToSet(page.enqueue) \subseteq opens
  BY <1>1 DEF IInv, Places, Phases
<1>3. Splits(Files, page.items, Batch) /\ Splits(Files, page.checkpoints, Batch)
  BY <1>2, Tree, SplitFacts DEF Applied
<1>4. Shortened /\ page' # NoPage
  <2>1. Shortened
    BY <1>1, <1>2, Tree, Shortens
  <2>. QED BY <2>1, NotApplied DEF Shortened
<1>5. I \subseteq Files /\ I \subseteq ToSet(page.items) /\ K \subseteq ToSet(page.checkpoints)
  <2>1. First(page.items, Batch) \in Seq(Files)
    BY <1>3 DEF Splits
  <2>2. I \subseteq Files
    BY <2>1, LenProperties, ElementOfSeq DEF ToSet, Now
  <2>. QED BY <1>3, <2>2 DEF Splits, Now
<1>6. point \in Point /\ page.depth + 1 \in Nat
  BY <1>2 DEF Point, Applied, Begin
<1>. HIDE DEF I, K, point
<1>7. Commits(I, page.depth + 1, K, point, {})
  BY <1>1, <1>2, <1>5, <1>6, Batches DEF IInv
<1>. QED BY <1>1, <1>2, <1>3, <1>4, <1>5, <1>7 DEF ItemsCommitted, I, K, point

LEMMA CommitItemsKeeps == IInv /\ CommitItems => IInv'
<1>. SUFFICES ASSUME IInv, CommitItems PROVE IInv'
  OBVIOUS
<1>. DEFINE I == Now(page.items)
            K == Now(page.checkpoints)
            point == Begin(page.depth + 1)
<1>1. /\ ItemsCommitted /\ page # NoPage
      /\ UNCHANGED <<status, opens, at, pause, batch, visited, queue, flight>>
  BY ItemsEffect DEF ItemsCommitted
<1>2. /\ page \in Applied /\ page.folder \in opens /\ at = "run"
      /\ ToSet(page.checkpoints) \subseteq ToSet(page.enqueue)
      /\ ToSet(page.enqueue) \subseteq opens
      /\ page.next # 0 => page.next \in DOMAIN Pages[page.folder]
  BY <1>1 DEF IInv, Places, Place, Phases
<1>3. Splits(Files, page.items, Batch) /\ Splits(Files, page.checkpoints, Batch)
  BY <1>1 DEF ItemsCommitted
<1>4. Shortened /\ page' # NoPage
  BY <1>1 DEF ItemsCommitted
<1>5. K \subseteq ToSet(page.checkpoints)
  BY <1>1 DEF ItemsCommitted
<1>6. point.page = 1
  BY DEF Begin
<1>7. /\ Pending = ToSet(page.items) /\ Pending' = ToSet(page'.items)
      /\ ToSet(page.items) = I \cup ToSet(page'.items)
      /\ ToSet(page'.checkpoints) \subseteq ToSet(page.checkpoints)
  BY <1>1, <1>3, <1>4 DEF Pending, Shortened, Splits, Now
<1>8. \A i \in DOMAIN page.items : i <= Batch /\ page.items[i] \in opens =>
        page.items[i] \in DOMAIN ckpt \cup K
  <2>1. SUFFICES ASSUME NEW i \in DOMAIN page.items, i <= Batch, page.items[i] \in opens,
                        page.items[i] \notin DOMAIN ckpt
                 PROVE  page.items[i] \in K
    OBVIOUS
  <2>2. PICK k \in DOMAIN page.checkpoints : k <= i /\ page.checkpoints[k] = page.items[i]
    BY <1>1, <2>1 DEF IInv, InTime
  <2>3. k \in Nat /\ i \in Nat /\ Batch \in Nat
    BY <1>2, Tree, LenProperties DEF Applied
  <2>4. k <= Batch
    BY <2>1, <2>2, <2>3
  <2>. QED BY <1>3, <2>2, <2>4 DEF Splits, Now
<1>9. \A f \in I : \E i \in DOMAIN page.items : i <= Batch /\ page.items[i] = f
  BY <1>3 DEF Splits, Now
<1>. HIDE DEF I, K, point
<1>10. /\ Committed' = Committed \cup I /\ Committed' \subseteq Files
       /\ depthOf' \in [Committed' -> Nat]
       /\ DOMAIN ckpt' = DOMAIN ckpt \cup K /\ DOMAIN ckpt' \subseteq opens
       /\ ckpt' \in [DOMAIN ckpt' -> Point]
       /\ \A f \in DOMAIN ckpt' : ckpt'[f] = IF f \in K THEN point ELSE ckpt[f]
  BY <1>1 DEF ItemsCommitted, Commits, I, K, point
<1>11. Works' = Works /\ opens' = opens /\ opens \subseteq Files
  BY <1>1, Tree DEF Works, IInv, Types
<1>12. Types'
  BY <1>1, <1>10 DEF IInv, Types
<1>13. Places'
  <2>1. \A f \in DOMAIN ckpt' : f \in opens' /\ ckpt'[f].page \in DOMAIN Pages[f]
    BY <1>6, <1>10, <1>11, Reading DEF IInv, Places, Place
  <2>2. \A v \in Works' : v.folder \in opens' /\ v.page \in DOMAIN Pages[v.folder]
    BY <1>11 DEF IInv, Places, Place
  <2>3. /\ page' \in Applied /\ page'.folder \in opens'
        /\ page'.next # 0 => page'.next \in DOMAIN Pages[page'.folder]
        /\ ToSet(page'.checkpoints) \subseteq ToSet(page'.enqueue)
        /\ ToSet(page'.enqueue) \subseteq opens'
    BY <1>2, <1>4, <1>7, <1>11 DEF Shortened
  <2>. QED BY <2>1, <2>2, <2>3 DEF Places, Place
<1>14. Phases'
  <2>1. visited = Committed \cup Pending
    BY <1>2 DEF IInv, Phases
  <2>2. visited' = Committed' \cup Pending'
    BY <1>1, <1>7, <1>10, <2>1
  <2>. QED BY <1>1, <1>2, <2>2 DEF IInv, Phases
<1>15. Behind'
  <2>1. \A f \in DOMAIN ckpt' : Read(f, ckpt'[f].page) \subseteq Committed'
    BY <1>6, <1>10, <1>11, Reading DEF IInv, Behind
  <2>2. \A v \in Works' : Read(v.folder, v.page) \subseteq Committed'
    BY <1>10, <1>11 DEF IInv, Behind
  <2>3. Read(page'.folder, ListedTo(page')) \subseteq Committed' \cup Pending'
    <3>1. page'.folder = page.folder /\ ListedTo(page') = ListedTo(page)
      BY <1>4 DEF Shortened, ListedTo
    <3>2. Read(page.folder, ListedTo(page)) \subseteq Committed \cup Pending
      BY <1>1 DEF IInv, Behind
    <3>. QED BY <1>7, <1>10, <3>1, <3>2
  <2>4. ASSUME NEW f \in (Committed' \cap opens) \ DOMAIN ckpt' PROVE Kids[f] \subseteq Committed'
    <3>1. f \notin I
      BY <1>8, <1>9, <1>10, <2>4
    <3>2. f \in (Committed \cap opens) \ DOMAIN ckpt
      BY <1>10, <2>4, <3>1
    <3>. QED BY <1>10, <3>2 DEF IInv, Behind
  <2>. QED BY <1>11, <2>1, <2>2, <2>3, <2>4 DEF Behind
<1>16. InTime'
  <2>1. SUFFICES ASSUME NEW i \in DOMAIN page'.items, page'.items[i] \in opens,
                        page'.items[i] \notin DOMAIN ckpt'
                 PROVE  \E k \in DOMAIN page'.checkpoints :
                          k <= i /\ page'.checkpoints[k] = page'.items[i]
    BY <1>11 DEF InTime
  <2>2. i + Batch \in DOMAIN page.items /\ page'.items[i] = page.items[i + Batch]
    BY <1>3, <1>4, <2>1 DEF Splits, Shortened
  <2>3. PICK k \in DOMAIN page.checkpoints :
          k <= i + Batch /\ page.checkpoints[k] = page.items[i + Batch]
    <3>1. page.items[i + Batch] \in opens /\ page.items[i + Batch] \notin DOMAIN ckpt
      BY <1>10, <2>1, <2>2
    <3>. QED BY <1>1, <2>2, <3>1 DEF IInv, InTime
  <2>4. k \in Nat /\ i \in Nat /\ Batch \in Nat
    BY <1>2, <1>4, <2>1, Tree, LenProperties DEF Applied, Shortened
  <2>5. k > Batch
    <3>1. page.checkpoints[k] \notin K
      BY <1>10, <2>1, <2>2, <2>3
    <3>2. k <= Batch => page.checkpoints[k] \in K
      BY <1>3 DEF Splits, K, Now
    <3>. QED BY <2>4, <3>1, <3>2
  <2>6. k - Batch \in DOMAIN page'.checkpoints /\ page'.checkpoints[k - Batch] = page.checkpoints[k]
    BY <1>3, <1>4, <2>5 DEF Splits, Shortened
  <2>7. k - Batch <= i
    BY <2>3, <2>4
  <2>. QED BY <2>2, <2>3, <2>6, <2>7
<1>17. Remembered'
  BY <1>1, <1>2, <1>4, <1>5, <1>10, <1>11 DEF IInv, Remembered, Shortened
<1>. QED BY <1>12, <1>13, <1>14, <1>15, <1>16, <1>17 DEF IInv

(* The queue after a page: the rest of its folder, then its own folders. *)
Queued ==
  /\ queue' \in Seq(Work) /\ ToSet(queue) \subseteq ToSet(queue')
  /\ \A w \in ToSet(queue') :
       \/ w \in ToSet(queue)
       \/ /\ page.next # 0 /\ w.folder = page.folder
          /\ w.page = page.next /\ w.depth = page.depth
       \/ w.folder \in ToSet(page.enqueue) /\ w.page = 1 /\ w.depth = page.depth + 1
  /\ \A f \in ToSet(page.enqueue) : \E w \in ToSet(queue') : w.folder = f
  /\ page.next # 0 => \E w \in ToSet(queue') : w.folder = page.folder

LEMMA Queues ==
  ASSUME page \in Applied, queue \in Seq(Work), CommitPage
  PROVE  Queued
<1>. DEFINE A == IF page.next = 0 THEN <<>> ELSE AsWork(<<page.folder>>, page.next, page.depth)
            B == AsWork(page.enqueue, 1, page.depth + 1)
<1>1. queue' = (queue \o A) \o B
  BY DEF CommitPage
<1>2. /\ page.folder \in Files /\ page.depth \in Nat /\ page.depth + 1 \in Nat
      /\ page.next \in Nat /\ page.enqueue \in Seq(Files)
  BY DEF Applied
<1>3. /\ A \in Seq(Work)
      /\ \A w \in ToSet(A) : /\ page.next # 0 /\ w.folder = page.folder
                             /\ w.page = page.next /\ w.depth = page.depth
      /\ page.next # 0 => \E w \in ToSet(A) : w.folder = page.folder
  <2>1. CASE page.next = 0
    BY <2>1, EmptyFacts
  <2>2. CASE page.next # 0
    <3>1. <<page.folder>> \in Seq(Files) /\ ToSet(<<page.folder>>) = {page.folder}
      BY <1>2 DEF ToSet
    <3>2. A = AsWork(<<page.folder>>, page.next, page.depth) /\ page.next \in Nat \ {0}
      BY <1>2, <2>2
    <3>. HIDE DEF A
    <3>3. Asks(A, <<page.folder>>, page.next, page.depth)
      BY <1>2, <3>1, <3>2, AsWorkFacts
    <3>. QED BY <2>2, <3>1, <3>3 DEF Asks
  <2>. QED BY <2>1, <2>2
<1>4. /\ B \in Seq(Work)
      /\ \A w \in ToSet(B) : w.folder \in ToSet(page.enqueue) /\ w.page = 1
                               /\ w.depth = page.depth + 1
      /\ \A f \in ToSet(page.enqueue) : \E w \in ToSet(B) : w.folder = f
  <2>1. 1 \in Nat \ {0}
    OBVIOUS
  <2>2. Asks(B, page.enqueue, 1, page.depth + 1)
    BY <1>2, <2>1, AsWorkFacts
  <2>. QED BY <2>2 DEF Asks
<1>. HIDE DEF A, B
<1>5. queue \o A \in Seq(Work) /\ ToSet(queue \o A) = ToSet(queue) \cup ToSet(A)
  BY <1>3, ConcatFacts
<1>6. queue' \in Seq(Work) /\ ToSet(queue') = ToSet(queue) \cup ToSet(A) \cup ToSet(B)
  <2>. DEFINE q == queue \o A
  <2>1. q \in Seq(Work) /\ B \in Seq(Work)
    BY <1>4, <1>5
  <2>. HIDE DEF q
  <2>2. q \o B \in Seq(Work) /\ ToSet(q \o B) = ToSet(q) \cup ToSet(B)
    BY <2>1, ConcatFacts
  <2>3. queue' = q \o B /\ ToSet(q) = ToSet(queue) \cup ToSet(A)
    BY <1>1, <1>5 DEF q
  <2>. QED BY <2>2, <2>3
<1>. QED BY <1>3, <1>4, <1>6 DEF Queued

PageCommitted ==
  /\ Queued /\ page # NoPage /\ page \in Applied /\ page' = NoPage /\ at = "run"
  /\ Pending = {} /\ Pending' = {}
  /\ Committed' = Committed /\ depthOf' \in [Committed' -> Nat]
  /\ \A f \in Committed : depthOf'[f] = depthOf[f]
  /\ ckpt' \in [DOMAIN ckpt' -> Point] /\ DOMAIN ckpt' \subseteq opens
  /\ \A f \in DOMAIN ckpt' :
       \/ f \in DOMAIN ckpt /\ f # page.folder /\ ckpt'[f] = ckpt[f]
       \/ /\ page.next # 0 /\ f = page.folder
          /\ ckpt'[f].page = page.next /\ ckpt'[f].depth = page.depth
  /\ \A f \in DOMAIN ckpt : f # page.folder => f \in DOMAIN ckpt'
  /\ page.next # 0 => page.folder \in DOMAIN ckpt'
  /\ UNCHANGED <<status, opens, at, pause, batch, visited, flight>>

LEMMA PageEffect == IInv /\ CommitPage => PageCommitted
<1>. SUFFICES ASSUME IInv, CommitPage PROVE PageCommitted
  OBVIOUS
<1>1. /\ page # NoPage /\ page.items = <<>> /\ page' = NoPage
      /\ UNCHANGED <<status, opens, at, pause, batch, visited, flight>>
  BY DEF CommitPage
<1>2. page \in Applied /\ page.folder \in opens /\ at = "run"
  BY <1>1 DEF IInv, Places, Phases
<1>3. Queued
  BY <1>2, Queues DEF IInv, Types
<1>4. Pending = {} /\ Pending' = {}
  BY <1>1, EmptyFacts DEF Pending
<1>5. /\ Committed' = Committed /\ depthOf' \in [Committed' -> Nat]
      /\ \A f \in Committed : depthOf'[f] = depthOf[f]
      /\ ckpt' \in [DOMAIN ckpt' -> Point] /\ DOMAIN ckpt' \subseteq opens
      /\ \A f \in DOMAIN ckpt' :
           \/ f \in DOMAIN ckpt /\ f # page.folder /\ ckpt'[f] = ckpt[f]
           \/ /\ page.next # 0 /\ f = page.folder
              /\ ckpt'[f].page = page.next /\ ckpt'[f].depth = page.depth
      /\ \A f \in DOMAIN ckpt : f # page.folder => f \in DOMAIN ckpt'
      /\ page.next # 0 => page.folder \in DOMAIN ckpt'
  <2>1. CASE page.next # 0
    <3>. DEFINE point == [page |-> page.next, depth |-> page.depth]
    <3>1. CommitBatch({}, 0, {page.folder}, point, {})
      BY <2>1 DEF CommitPage
    <3>2. point \in Point /\ point.page = page.next /\ point.depth = page.depth
      BY <1>2, <2>1 DEF Point, Applied
    <3>. HIDE DEF point
    <3>3. Commits({}, 0, {page.folder}, point, {})
      BY <1>1, <1>2, <3>1, <3>2, Batches DEF IInv
    <3>. QED BY <2>1, <3>2, <3>3 DEF Commits
  <2>2. CASE page.next = 0
    <3>1. CommitBatch({}, 0, {}, <<>>, {page.folder})
      BY <2>2 DEF CommitPage
    <3>2. Commits({}, 0, {}, <<>>, {page.folder})
      BY <1>1, <1>2, <3>1, Batches DEF IInv
    <3>. QED BY <2>2, <3>2 DEF Commits
  <2>. QED BY <2>1, <2>2
<1>. QED BY <1>1, <1>2, <1>3, <1>4, <1>5 DEF PageCommitted

LEMMA CommitPageKeeps == IInv /\ CommitPage => IInv'
<1>. SUFFICES ASSUME IInv, CommitPage PROVE IInv'
  OBVIOUS
<1>1. /\ PageCommitted /\ page # NoPage /\ page' = NoPage
      /\ UNCHANGED <<status, opens, at, pause, batch, visited, flight>>
  BY PageEffect DEF PageCommitted
<1>2. /\ page \in Applied /\ page.folder \in opens /\ at = "run"
      /\ ToSet(page.enqueue) \subseteq opens
      /\ page.next # 0 => page.next \in DOMAIN Pages[page.folder]
      /\ opens \subseteq Files /\ opens' = opens
  BY <1>1, Tree DEF IInv, Types, Places, Place, Phases
<1>3. Queued
  BY <1>1 DEF PageCommitted
<1>4. Pending = {} /\ Pending' = {}
  BY <1>1 DEF PageCommitted
<1>5. Read(page.folder, ListedTo(page)) \subseteq Committed
  BY <1>1, <1>4 DEF IInv, Behind
<1>6. /\ Committed' = Committed /\ depthOf' \in [Committed' -> Nat]
      /\ ckpt' \in [DOMAIN ckpt' -> Point] /\ DOMAIN ckpt' \subseteq opens
      /\ \A f \in DOMAIN ckpt' :
           \/ f \in DOMAIN ckpt /\ f # page.folder /\ ckpt'[f] = ckpt[f]
           \/ page.next # 0 /\ f = page.folder /\ ckpt'[f].page = page.next
      /\ \A f \in DOMAIN ckpt : f # page.folder => f \in DOMAIN ckpt'
      /\ page.next # 0 => page.folder \in DOMAIN ckpt'
  BY <1>1 DEF PageCommitted
<1>7. /\ \A w \in Works' : \/ w \in Works
                           \/ page.next # 0 /\ w.folder = page.folder /\ w.page = page.next
                           \/ w.folder \in ToSet(page.enqueue) /\ w.page = 1
      /\ Works \subseteq Works'
      /\ \A f \in ToSet(page.enqueue) : \E w \in Works' : w.folder = f
      /\ page.next # 0 => \E w \in Works' : w.folder = page.folder
  BY <1>1, <1>3 DEF Queued, Works
<1>8. Types'
  BY <1>1, <1>3, <1>6 DEF IInv, Types, Queued
<1>9. Places'
  <2>1. \A f \in DOMAIN ckpt' : f \in opens' /\ ckpt'[f].page \in DOMAIN Pages[f]
    BY <1>2, <1>6 DEF IInv, Places, Place
  <2>2. \A v \in Works' : v.folder \in opens' /\ v.page \in DOMAIN Pages[v.folder]
    BY <1>2, <1>7, Reading DEF IInv, Places, Place
  <2>. QED BY <1>1, <2>1, <2>2 DEF Places, Place
<1>10. Phases'
  BY <1>1, <1>2, <1>4, <1>6 DEF IInv, Phases
<1>11. Behind'
  <2>1. page.next # 0 => Read(page.folder, page.next) \subseteq Committed
    BY <1>5 DEF ListedTo
  <2>2. page.next = 0 => Kids[page.folder] \subseteq Committed
    BY <1>2, <1>5, Reading DEF ListedTo
  <2>3. \A f \in DOMAIN ckpt' : Read(f, ckpt'[f].page) \subseteq Committed'
    BY <1>6, <2>1 DEF IInv, Behind
  <2>4. \A v \in Works' : Read(v.folder, v.page) \subseteq Committed'
    BY <1>2, <1>6, <1>7, <2>1, Reading DEF IInv, Behind
  <2>5. \A f \in (Committed' \cap opens) \ DOMAIN ckpt' : Kids[f] \subseteq Committed'
    BY <1>6, <2>2 DEF IInv, Behind
  <2>. QED BY <1>1, <1>2, <2>3, <2>4, <2>5 DEF Behind
<1>12. InTime'
  BY <1>1 DEF InTime
<1>13. Remembered'
  <2>1. SUFFICES ASSUME NEW f \in DOMAIN ckpt' PROVE \E w \in Works' : w.folder = f
    BY DEF Remembered
  <2>2. CASE page.next # 0 /\ f = page.folder
    BY <1>7, <2>2
  <2>3. CASE f \in DOMAIN ckpt /\ f # page.folder
    <3>1. \/ \E w \in Works : w.folder = f
          \/ f \in ToSet(page.enqueue)
      BY <1>2, <2>3 DEF IInv, Remembered
    <3>. QED BY <1>7, <3>1
  <2>. QED BY <1>6, <2>2, <2>3
<1>. QED BY <1>8, <1>9, <1>10, <1>11, <1>12, <1>13 DEF IInv

--------------------------------------------------------------------------------
(* The end of a scan, the user and the process. *)

Ending == Complete \/ Pause \/ DriveFails \/ StoreFails \/ OutcomeUnsaved \/ Restart

LEMMA Ends == IInv /\ Ending => Forget /\ UNCHANGED <<depthOf, ckpt, opens>> /\ status' \in Statuses
<1>. SUFFICES ASSUME IInv, Ending
              PROVE  Forget /\ UNCHANGED <<depthOf, ckpt, opens>> /\ status' \in Statuses
  OBVIOUS
<1>1. status \in Statuses /\ (at # "idle" => status = "SCANNING")
  BY DEF IInv, Types, Phases
<1>2. CASE Complete
  BY <1>1, <1>2 DEF Complete, BetweenWaves, CompleteScanning, Move, Statuses
<1>3. CASE Pause
  BY <1>1, <1>3 DEF Pause, BetweenWaves, PauseScanning, Move, Statuses, TransferResumable
<1>4. ASSUME NEW e, at # "idle", EndWith(e)
      PROVE  Forget /\ UNCHANGED <<depthOf, ckpt, opens>> /\ status' \in Statuses
  BY <1>1, <1>4 DEF EndWith, PauseScanning, FailScanning, Move, Statuses, TransferResumable,
                    TerminalStatus
<1>5. flight # <<>> \/ page # NoPage => at # "idle"
  BY DEF IInv, Phases
<1>6. CASE DriveFails
  BY <1>4, <1>5, <1>6 DEF DriveFails
<1>7. CASE StoreFails
  BY <1>4, <1>5, <1>7 DEF StoreFails
<1>8. CASE OutcomeUnsaved
  BY <1>1, <1>8 DEF OutcomeUnsaved, rows
<1>9. CASE Restart
  BY <1>1, <1>9 DEF Restart, PauseScanning, Move, Statuses, TransferResumable
<1>. QED BY <1>2, <1>3, <1>6, <1>7, <1>8, <1>9 DEF Ending

(* Commands that change the status, or the flag, and nothing else. *)
LEMMA CommandKeeps ==
  IInv /\ (StartScanWithoutToken \/ PauseScan \/ UNCHANGED vars) => IInv'
<1>. SUFFICES ASSUME IInv, StartScanWithoutToken \/ PauseScan \/ UNCHANGED vars PROVE IInv'
  OBVIOUS
<1>1. /\ UNCHANGED <<depthOf, ckpt, opens, at, batch, visited, queue, flight, page>>
      /\ status' \in Statuses /\ pause' \in BOOLEAN /\ (at # "idle" => status' = status)
  <2>1. status \in Statuses /\ pause \in BOOLEAN
    BY DEF IInv, Types
  <2>2. CASE StartScanWithoutToken
    BY <2>1, <2>2 DEF StartScanWithoutToken, task, Statuses, TransferResumable
  <2>3. CASE PauseScan
    BY <2>1, <2>3 DEF PauseScan, PauseScanning, Move, Statuses, TransferResumable
  <2>4. CASE UNCHANGED vars
    BY <2>1, <2>4 DEF vars, rows, task
  <2>. QED BY <2>2, <2>3, <2>4
<1>2. Works' = Works /\ Committed' = Committed /\ Pending' = Pending
  BY <1>1 DEF Works, Committed, Pending
<1>3. Types' /\ Places' /\ Phases'
  BY <1>1, <1>2 DEF IInv, Types, Places, Place, Phases
<1>4. Behind' /\ InTime' /\ Remembered'
  BY <1>1, <1>2 DEF IInv, Behind, InTime, Remembered
<1>. QED BY <1>3, <1>4 DEF IInv

LEMMA NextKeeps == IInv /\ [Next]_vars => IInv'
<1>. SUFFICES ASSUME IInv, [Next]_vars PROVE IInv'
  OBVIOUS
<1>1. CASE Ending
  BY <1>1, Ends, Forgets
<1>. QED BY <1>1, StartKeeps, SeedKeeps, WaveKeeps, PageArrivesKeeps, CommitItemsKeeps,
            CommitPageKeeps, CommandKeeps DEF Next, Worker, Disturb, Ending

LEMMA InitHolds == Init => IInv
<1>. SUFFICES ASSUME Init PROVE IInv
  OBVIOUS
<1>1. /\ at = "idle" /\ pause = FALSE /\ batch = <<>>
      /\ visited = {} /\ queue = <<>> /\ flight = <<>> /\ page = NoPage
      /\ opens \in {Eligible, {}} /\ opens \subseteq Files /\ status \in Statuses
  BY Tree DEF Init, Statuses
<1>2. Works = {}
  BY <1>1, EmptyFacts DEF Works
<1>3. /\ Committed \subseteq Files /\ depthOf \in [Committed -> Nat]
      /\ DOMAIN ckpt \subseteq opens /\ ckpt \in [DOMAIN ckpt -> Point]
      /\ \A f \in DOMAIN ckpt : ckpt[f].page = 1
      /\ Committed \cap opens \subseteq DOMAIN ckpt
  <2>1. CASE depthOf = <<>> /\ ckpt = <<>>
    BY <2>1 DEF Committed, Point
  <2>2. CASE /\ depthOf = [f \in RootSet |-> 0]
             /\ ckpt = [f \in RootSet \cap opens |-> [page |-> 1, depth |-> 0]]
    BY <2>2, Tree DEF Committed, Point
  <2>. QED BY <2>1, <2>2 DEF Init
<1>4. Types
  BY <1>1, <1>3, EmptyFacts DEF Types
<1>5. Places
  BY <1>1, <1>2, <1>3, Reading DEF Places, Place
<1>6. Phases /\ InTime /\ Remembered
  BY <1>1 DEF Phases, InTime, Remembered
<1>7. Behind
  BY <1>1, <1>2, <1>3, Reading DEF Behind
<1>. QED BY <1>4, <1>5, <1>6, <1>7 DEF IInv

LEMMA Invariance == Spec => []IInv
BY InitHolds, NextKeeps, PTL DEF Spec

(* The rows and the memory of a scan keep their types, and a checkpoint is  *)
(* always at a page that its folder has, whatever cuts the scan.            *)
THEOREM TypeCorrect == Spec => []TypeOK
<1>1. IInv => TypeOK
  <2>. SUFFICES ASSUME IInv PROVE TypeOK
    OBVIOUS
  <2>1. \A f \in DOMAIN ckpt : ckpt[f].page \in DOMAIN Pages[f] /\ ckpt[f].depth \in Nat
    BY DEF IInv, Types, Places, Place, Point
  <2>2. page # NoPage => {page.items, page.checkpoints, page.enqueue} \subseteq Seq(Files)
    BY DEF IInv, Places, Applied
  <2>. QED BY <2>1, <2>2 DEF TypeOK, IInv, Types
<1>. QED BY <1>1, Invariance, PTL

(* However a scan is cut, paused, failed and resumed, the rows never take a *)
(* page for listed whose items are not there.                               *)
THEOREM NothingLost == Spec => []NothingForgotten
<1>1. IInv => NothingForgotten
  <2>. SUFFICES ASSUME IInv, NEW f \in Committed \cap opens PROVE Listed(f) \subseteq Committed
    BY DEF NothingForgotten
  <2>1. f \in Files
    BY Tree DEF IInv, Types
  <2>2. CASE f \notin DOMAIN ckpt
    <3>1. Listed(f) \subseteq Kids[f]
      BY <2>1, Reading DEF Listed
    <3>. QED BY <2>2, <3>1 DEF IInv, Behind
  <2>3. CASE f \in DOMAIN ckpt
    <3>1. DOMAIN Pages[f] = 1..Len(Pages[f]) /\ Len(Pages[f]) \in Nat /\ ckpt[f].page \in Nat
      BY <2>1, <2>3, Tree DEF IInv, Types, Point
    <3>2. \A m \in DOMAIN Pages[f] : m < ckpt[f].page => m \in 1..(ckpt[f].page - 1)
      BY <3>1
    <3>3. Listed(f) \subseteq Read(f, ckpt[f].page)
      BY <2>3, <3>2 DEF Listed, Read
    <3>. QED BY <2>3, <3>3 DEF IInv, Behind
  <2>. QED BY <2>2, <2>3
<1>. QED BY <1>1, Invariance, PTL

--------------------------------------------------------------------------------
(* What each step does to what the scan knows: for the invariants below.    *)

(* The rows stay; the task does too, or it is gone with its memory. *)
Quiet ==
  /\ UNCHANGED <<depthOf, ckpt, opens>>
  /\ \/ at' = "idle" /\ page' = NoPage /\ Works' = {}
     \/ UNCHANGED <<at, batch, queue, flight, page>>

(* A scan begins, with its roots or with the rows. *)
FromRows ==
  \A w \in Works' : w.folder \in DOMAIN ckpt /\ w.depth = ckpt[w.folder].depth

Starts ==
  /\ UNCHANGED <<depthOf, ckpt, opens, batch, flight, page>> /\ Works = {} /\ page = NoPage
  /\ \/ at' = "collect" /\ Works' = {}
     \/ at' = "run" /\ (DOMAIN ckpt # {} \/ Committed # {}) /\ FromRows

Collects ==
  /\ at = "collect" /\ at' = "seed" /\ batch' = Fresh(Roots, Files)
  /\ UNCHANGED <<depthOf, ckpt, opens, queue, flight, page>>

Seeds ==
  /\ at = "seed" /\ batch = <<>> /\ at' = "run" /\ FromRows
  /\ UNCHANGED <<depthOf, ckpt, opens, batch, flight, page>> /\ page = NoPage

Asked == Works' = Works /\ UNCHANGED <<depthOf, ckpt, opens, at, batch, page>>

Came ==
  /\ \E w \in Work : \E new, sub \in Seq(Files) : Arrives(w, new, sub)
  /\ page = NoPage /\ page' # NoPage /\ at = "run" /\ visited = Committed
  /\ UNCHANGED <<depthOf, ckpt, opens, at, batch, queue>>

LEMMA QuietSteps ==
  IInv /\ (Ending \/ StartScanWithoutToken \/ PauseScan \/ UNCHANGED vars) => Quiet
<1>. SUFFICES ASSUME IInv, Ending \/ StartScanWithoutToken \/ PauseScan \/ UNCHANGED vars
              PROVE  Quiet
  OBVIOUS
<1>1. CASE Ending
  <2>1. Forget /\ UNCHANGED <<depthOf, ckpt, opens>>
    BY <1>1, Ends
  <2>. QED BY <2>1, EmptyFacts DEF Forget, Quiet, Works
<1>2. CASE StartScanWithoutToken \/ PauseScan \/ UNCHANGED vars
  BY <1>2 DEF StartScanWithoutToken, PauseScan, vars, rows, task, Quiet
<1>. QED BY <1>1, <1>2

LEMMA StartSteps == IInv /\ StartScan => Starts
<1>. SUFFICES ASSUME IInv, StartScan PROVE Starts
  OBVIOUS
<1>1. /\ at = "idle" /\ UNCHANGED <<depthOf, ckpt, opens, batch, flight, page>>
  BY DEF StartScan
<1>2. queue = <<>> /\ flight = <<>> /\ page = NoPage
  BY <1>1 DEF IInv, Phases
<1>3. Works = {}
  BY <1>2, EmptyFacts DEF Works
<1>4. CASE /\ at' = "run" /\ queue' \in Resumed
           /\ (DOMAIN ckpt # {} \/ Committed # {})
  <2>1. Works' = ToSet(queue')
    BY <1>1, <1>2, EmptyFacts DEF Works
  <2>2. FromRows
    BY <1>4, <2>1, ResumedFacts DEF FromRows, IInv
  <2>. QED BY <1>1, <1>2, <1>3, <1>4, <2>2 DEF Starts
<1>5. CASE at' = "collect" /\ UNCHANGED <<visited, queue>>
  BY <1>1, <1>2, <1>3, <1>5 DEF Starts, Works
<1>. QED BY <1>4, <1>5 DEF StartScan

LEMMA CollectSteps == CollectRoots => Collects
BY DEF CollectRoots, Collects, rows

LEMMA SeedSteps == IInv /\ Seeded => Seeds
<1>. SUFFICES ASSUME IInv, Seeded PROVE Seeds
  OBVIOUS
<1>1. /\ at = "seed" /\ batch = <<>> /\ at' = "run" /\ queue' \in Resumed
      /\ UNCHANGED <<depthOf, ckpt, opens, batch, flight, page>>
  BY DEF Seeded, rows
<1>2. flight = <<>> /\ page = NoPage
  BY <1>1 DEF IInv, Phases
<1>3. Works' = ToSet(queue')
  BY <1>1, <1>2, EmptyFacts DEF Works
<1>4. FromRows
  BY <1>1, <1>3, ResumedFacts DEF FromRows, IInv
<1>. QED BY <1>1, <1>2, <1>4 DEF Seeds

LEMMA WaveSteps == IInv /\ StartWave => Asked
<1>. SUFFICES ASSUME IInv, StartWave PROVE Asked
  OBVIOUS
<1>1. /\ flight = <<>> /\ flight' = First(queue, Concurrency) /\ queue' = Rest(queue, Concurrency)
      /\ UNCHANGED <<rows, at, pause, batch, visited, page>>
  BY DEF StartWave, BetweenWaves
<1>2. Splits(Work, queue, Concurrency)
  BY Tree, SplitFacts DEF IInv, Types
<1>. QED BY <1>1, <1>2, EmptyFacts DEF Works, Splits, Asked, rows

LEMMA ArrivalSteps == IInv /\ PageArrives => Came
<1>. SUFFICES ASSUME IInv, PageArrives PROVE Came
  OBVIOUS
<1>1. \E w \in Work : \E new, sub \in Seq(Files) : Arrives(w, new, sub)
  BY Arrival
<1>2. page = NoPage /\ UNCHANGED <<rows, at, pause, batch, queue>>
  BY DEF PageArrives
<1>3. page' # NoPage
  BY <1>1, NotApplied DEF Arrives
<1>4. at = "run" /\ visited = Committed
  <2>1. flight # <<>>
    BY DEF PageArrives
  <2>. QED BY <1>2, <2>1 DEF IInv, Phases, Pending
<1>. QED BY <1>1, <1>2, <1>3, <1>4 DEF Came, rows

(* Every step is one of these. *)
Steps ==
  \/ Quiet \/ Starts \/ Collects \/ Seeds \/ Asked \/ Came
  \/ RootsCommitted \/ ItemsCommitted \/ PageCommitted

LEMMA NextSteps == IInv /\ [Next]_vars => Steps
BY QuietSteps, StartSteps, CollectSteps, SeedSteps, WaveSteps, ArrivalSteps, RootsEffect,
   ItemsEffect, PageEffect DEF Next, Worker, Disturb, Ending, Steps

--------------------------------------------------------------------------------
(* The roots are committed together, before anything else, provided that    *)
(* they fit into one transaction (scanner.rs stores them batch by batch and *)
(* a restart between two batches goes on without the rest).                 *)
RootsFit == Len(Roots) <= Batch

Rooted ==
  /\ Committed # {} \/ at = "run" => RootSet \subseteq Committed
  /\ DOMAIN ckpt # {} => Committed # {}
  /\ at = "seed" => Len(batch) <= Batch /\ RootSet \subseteq Committed \cup ToSet(batch)

LEMMA RootedKeeps == RootsFit /\ IInv /\ Rooted /\ Steps => Rooted'
<1>. SUFFICES ASSUME RootsFit, IInv, Rooted, Steps PROVE Rooted'
  OBVIOUS
<1>1. RootSet # {} /\ RootSet \subseteq Files
  <2>1. Roots \in Seq(Files) /\ Roots # <<>>
    BY ScannerAssumption
  <2>2. 1 \in DOMAIN Roots
    BY <2>1, EmptySeq, LenProperties
  <2>. QED BY <2>2, Tree DEF RootSet, ToSet
<1>2. CASE Quiet
  BY <1>2 DEF Quiet, Rooted, Committed
<1>3. CASE Starts
  BY <1>3 DEF Starts, Rooted, Committed
<1>4. CASE Collects
  <2>1. Len(Fresh(Roots, Files)) <= Len(Roots) /\ ToSet(Fresh(Roots, Files)) = RootSet
        /\ Fresh(Roots, Files) \in Seq(Files)
    BY <1>1, Tree, FreshFacts DEF RootSet
  <2>2. Len(Fresh(Roots, Files)) <= Batch
    BY <2>1, Tree, LenProperties DEF RootsFit
  <2>. QED BY <1>4, <2>1, <2>2 DEF Collects, Rooted, Committed
<1>5. CASE Seeds
  BY <1>5, EmptyFacts DEF Seeds, Rooted, Committed
<1>6. CASE Asked
  BY <1>6 DEF Asked, Rooted, Committed
<1>7. CASE Came
  BY <1>7 DEF Came, Rooted, Committed
<1>8. CASE RootsCommitted
  <2>1. /\ Committed' = Committed \cup Now(batch) /\ batch' = Rest(batch, Batch) /\ at = "seed"
        /\ at' = at /\ Splits(RootSet, batch, Batch)
    BY <1>8 DEF RootsCommitted, Commits
  <2>2. Rest(batch, Batch) = <<>> /\ ToSet(batch) = Now(batch)
    BY <2>1, EmptyFacts DEF Splits, Rooted, Now
  <2>3. RootSet \subseteq Committed' /\ Len(batch') <= Batch
    BY <2>1, <2>2, Tree DEF Rooted
  <2>. QED BY <1>1, <2>1, <2>3 DEF Rooted
<1>9. CASE ItemsCommitted
  BY <1>1, <1>9 DEF ItemsCommitted, Commits, Rooted
<1>10. CASE PageCommitted
  BY <1>1, <1>10 DEF PageCommitted, Rooted
<1>. QED BY <1>2, <1>3, <1>4, <1>5, <1>6, <1>7, <1>8, <1>9, <1>10 DEF Steps

LEMMA RootedInit == Init => Rooted
<1>. SUFFICES ASSUME Init PROVE Rooted
  OBVIOUS
<1>1. CASE depthOf = <<>> /\ ckpt = <<>>
  BY <1>1 DEF Init, Rooted, Committed
<1>2. CASE /\ depthOf = [f \in RootSet |-> 0]
           /\ ckpt = [f \in RootSet \cap opens |-> [page |-> 1, depth |-> 0]]
  BY <1>2 DEF Init, Rooted, Committed
<1>. QED BY <1>1, <1>2 DEF Init

LEMMA RootsFirst == RootsFit => (Spec => [](IInv /\ Rooted))
<1>. SUFFICES ASSUME RootsFit PROVE Spec => [](IInv /\ Rooted)
  OBVIOUS
<1>1. IInv /\ Rooted /\ [Next]_vars => (IInv /\ Rooted)'
  BY NextKeeps, NextSteps, RootedKeeps
<1>. QED BY <1>1, InitHolds, RootedInit, PTL DEF Spec

--------------------------------------------------------------------------------
(* The walk, for every tree, cycles included. What can be reached is        *)
(* closed, so a walk that found all of it may end, and it is the least      *)
(* closed set.                                                              *)
LEMMA Constants == Walk!WalkConstants /\ Eligible \subseteq Files
<1>1. \A f \in Files : Kids[f] \subseteq Files
  BY Tree, LenProperties, ElementOfSeq DEF Kids, ToSet
<1>2. DOMAIN Kids = Files /\ Kids = [f \in Files |-> Kids[f]]
  BY DEF Kids
<1>. QED BY <1>1, <1>2, Tree DEF Walk!WalkConstants

LEMMA ReachIsClosed ==
  ASSUME NEW o \in {Eligible, {}}
  PROVE  Walk!Closed(Walk!Reach[o], o) /\ Walk!Reach[o] \in SUBSET Files
<1>1. Walk!Reach[o] = {f \in Files : \A S \in SUBSET Files : Walk!Closed(S, o) => f \in S}
  BY DEF Walk!Reach
<1>2. RootSet \subseteq Walk!Reach[o]
  BY <1>1, Constants DEF Walk!WalkConstants, Walk!Closed
<1>3. ASSUME NEW f \in Walk!Reach[o] \cap o PROVE Kids[f] \subseteq Walk!Reach[o]
  <2>1. f \in Files /\ Kids[f] \subseteq Files
    BY <1>1, <1>3, Constants DEF Walk!WalkConstants
  <2>2. ASSUME NEW S \in SUBSET Files, Walk!Closed(S, o) PROVE Kids[f] \subseteq S
    BY <1>1, <1>3, <2>2 DEF Walk!Closed
  <2>. QED BY <1>1, <2>1, <2>2
<1>. QED BY <1>1, <1>2, <1>3 DEF Walk!Closed

LEMMA ReachIsLeast ==
  ASSUME NEW o \in {Eligible, {}}, NEW S \in SUBSET Files, Walk!Closed(S, o)
  PROVE  Walk!Reach[o] \subseteq S
BY DEF Walk!Reach

Early == {"DRAFT", "SCANNING", "PAUSED", "FAILED"}

Walked ==
  /\ opens \in {Eligible, {}} /\ Committed \in SUBSET Files
  /\ Committed \subseteq Walk!Reach[opens]
  /\ status \notin Early => Walk!Closed(Committed, opens)

(* However a walk proceeds, it ends with exactly what can be reached from   *)
(* its roots.                                                               *)
THEOREM WalkComplete == Walk!Spec => []Walk!Complete
<1>1. Walk!Init => Walked
  BY ReachIsClosed, Constants DEF Walk!Init, Walked, Walk!WalkConstants, Walk!Closed, Early
<1>2. Walked /\ [Walk!Next]_<<Committed, opens, status \notin Early>> => Walked'
  <2>. SUFFICES ASSUME Walked, [Walk!Next]_<<Committed, opens, status \notin Early>> PROVE Walked'
    OBVIOUS
  <2>1. CASE Walk!Discover
    <3>1. PICK S \in SUBSET (Walk!Reach[opens] \ Committed) : Committed' = Committed \cup S
      BY <2>1 DEF Walk!Discover
    <3>2. Walk!Reach[opens] \subseteq Files
      BY ReachIsClosed DEF Walked
    <3>. QED BY <2>1, <3>1, <3>2 DEF Walk!Discover, Walked, Early
  <2>2. CASE Walk!Finish
    BY <2>2 DEF Walk!Finish, Walked
  <2>3. CASE UNCHANGED <<Committed, opens, status \notin Early>>
    BY <2>3 DEF Walked, Walk!Closed
  <2>. QED BY <2>1, <2>2, <2>3 DEF Walk!Next
<1>3. Walked => Walk!Complete
  BY ReachIsLeast DEF Walked, Walk!Complete, Early
<1>. QED BY <1>1, <1>2, <1>3, PTL DEF Walk!Spec, Walk!walk, Early

--------------------------------------------------------------------------------
(* Whatever the rows or the task know of can be reached from the roots.     *)
At(p) == IF p = NoPage THEN {} ELSE {p.folder} \cup ToSet(p.items) \cup ToSet(p.enqueue)
Known == Committed \cup DOMAIN ckpt \cup {w.folder : w \in Works} \cup At(page)
Sound == Known \subseteq Walk!Reach[opens]

(* It is closed under what a step finds. *)
LEMMA Grows ==
  ASSUME IInv, Steps
  PROVE  opens' = opens /\ \A f \in Known' :
           \/ f \in Known
           \/ f \in RootSet
           \/ \E g \in Known \cap opens : f \in Kids[g]
<1>. DEFINE Found(f) == \/ f \in Known
                        \/ f \in RootSet
                        \/ \E g \in Known \cap opens : f \in Kids[g]
<1>. SUFFICES opens' = opens /\ \A f \in Known' : Found(f)
  OBVIOUS
<1>1. CASE Quiet
  BY <1>1 DEF Quiet, Known, Works, Committed, At
<1>2. CASE Starts \/ Seeds
  <2>1. /\ UNCHANGED <<depthOf, ckpt, opens>> /\ page' = NoPage
        /\ \A w \in Works' : w.folder \in DOMAIN ckpt
    BY <1>2 DEF Starts, Seeds, FromRows
  <2>. QED BY <2>1 DEF Known, Committed, At
<1>3. CASE Collects
  BY <1>3 DEF Collects, Known, Works, Committed, At
<1>4. CASE Asked
  BY <1>4 DEF Asked, Known, Committed, At
<1>5. CASE Came
  <2>1. PICK w \in Work, new \in Seq(Files), sub \in Seq(Files) : Arrives(w, new, sub)
    BY <1>5 DEF Came
  <2>2. w.folder \in Known \cap opens /\ w.folder \in Files /\ w.page \in DOMAIN Pages[w.folder]
    BY <2>1 DEF Arrives, Known, Place, Work
  <2>3. ToSet(new) \subseteq Kids[w.folder] /\ ToSet(sub) \subseteq Kids[w.folder]
    BY <2>1, <2>2, Reading DEF Arrives
  <2>4. At(page') = {w.folder} \cup ToSet(new) \cup ToSet(sub)
    BY <1>5, <2>1 DEF Arrives, Came, At
  <2>5. Committed' = Committed /\ ckpt' = ckpt /\ opens' = opens /\ Works' \subseteq Works
    BY <1>5, <2>1 DEF Came, Arrives, Committed
  <2>. QED BY <2>2, <2>3, <2>4, <2>5 DEF Known
<1>6. CASE RootsCommitted
  <2>1. /\ Committed' = Committed \cup Now(batch) /\ Now(batch) \subseteq RootSet
        /\ DOMAIN ckpt' \subseteq DOMAIN ckpt \cup Now(batch)
        /\ Works' = Works /\ page' = page /\ opens' = opens
    BY <1>6 DEF RootsCommitted, Commits, Works
  <2>. QED BY <2>1 DEF Known, At
<1>7. CASE ItemsCommitted
  <2>1. /\ Committed' \subseteq Committed \cup ToSet(page.items)
        /\ DOMAIN ckpt' \subseteq DOMAIN ckpt \cup ToSet(page.checkpoints)
        /\ Works' = Works /\ opens' = opens /\ page # NoPage /\ page' # NoPage
    BY <1>7 DEF ItemsCommitted, Commits, Works
  <2>2. /\ page'.folder = page.folder /\ page'.enqueue = page.enqueue
        /\ ToSet(page'.items) \subseteq ToSet(page.items)
    BY <1>7 DEF ItemsCommitted, Shortened, Splits
  <2>3. ToSet(page.checkpoints) \subseteq ToSet(page.enqueue)
    BY <2>1 DEF IInv, Places
  <2>. QED BY <2>1, <2>2, <2>3 DEF Known, At
<1>8. CASE PageCommitted
  <2>1. /\ Committed' = Committed /\ DOMAIN ckpt' \subseteq DOMAIN ckpt \cup {page.folder}
        /\ opens' = opens /\ flight' = flight /\ page # NoPage /\ page' = NoPage
    BY <1>8 DEF PageCommitted
  <2>2. \A w \in Works' : w \in Works \/ w.folder = page.folder \/ w.folder \in ToSet(page.enqueue)
    BY <1>8, <2>1 DEF PageCommitted, Queued, Works
  <2>. QED BY <2>1, <2>2 DEF Known, At
<1>. QED BY <1>1, <1>2, <1>3, <1>4, <1>5, <1>6, <1>7, <1>8 DEF Steps

LEMMA SoundKeeps == IInv /\ Sound /\ Steps => Sound'
<1>. SUFFICES ASSUME IInv, Sound, Steps PROVE Sound'
  OBVIOUS
<1>1. Walk!Closed(Walk!Reach[opens], opens)
  BY ReachIsClosed DEF IInv, Types
<1>2. \A f \in Known' : f \in Walk!Reach[opens]
  BY <1>1, Grows DEF Sound, Walk!Closed
<1>. QED BY <1>2, Grows DEF Sound

LEMMA SoundInit == Init => Sound
<1>. SUFFICES ASSUME Init PROVE Sound
  OBVIOUS
<1>1. Works = {} /\ At(page) = {} /\ opens \in {Eligible, {}}
  BY EmptyFacts DEF Init, Works, At
<1>2. Committed \subseteq RootSet /\ DOMAIN ckpt \subseteq RootSet
  BY DEF Init, Committed
<1>3. RootSet \subseteq Walk!Reach[opens]
  BY <1>1, ReachIsClosed DEF Walk!Closed
<1>. QED BY <1>1, <1>2, <1>3 DEF Sound, Known

LEMMA SoundAlways == Spec => []Sound
<1>1. IInv /\ Sound /\ [Next]_vars => Sound'
  BY NextSteps, SoundKeeps
<1>. QED BY <1>1, Invariance, SoundInit, PTL DEF Spec

--------------------------------------------------------------------------------
(* The scan implements the walk. *)

(* A scan that is through has a closed set of items. *)
LEMMA Through ==
  ASSUME IInv, Rooted, BetweenWaves, queue = <<>>
  PROVE  Walk!Closed(Committed, opens)
<1>1. Works = {} /\ page = NoPage /\ at = "run"
  BY EmptyFacts DEF BetweenWaves, Works
<1>2. DOMAIN ckpt = {}
  BY <1>1 DEF IInv, Remembered
<1>3. \A f \in Committed \cap opens : Kids[f] \subseteq Committed
  BY <1>2 DEF IInv, Behind
<1>. QED BY <1>1, <1>3 DEF Rooted, Walk!Closed

(* Only the end of a scan ends the walk. *)
LEMMA EarlySteps ==
  ASSUME IInv, [Next]_vars, ~Complete
  PROVE  (status' \in Early) = (status \in Early)
<1>1. at # "idle" => status = "SCANNING"
  BY DEF IInv, Phases
<1>2. (flight # <<>> \/ page # NoPage) => at # "idle"
  BY DEF IInv, Phases
<1>3. CASE StartScan
  BY <1>3 DEF StartScan, StartScanning, Move, Illegal, Early
<1>4. CASE StartScanWithoutToken \/ PauseScan \/ Restart
  BY <1>4 DEF StartScanWithoutToken, PauseScan, Restart, PauseScanning, Move, Early
<1>5. ASSUME NEW e, at # "idle", EndWith(e) PROVE status' \in Early /\ status \in Early
  BY <1>1, <1>5 DEF EndWith, PauseScanning, FailScanning, Move, Early
<1>6. CASE DriveFails \/ StoreFails
  <2>1. \E e \in DriveErrors \cup {"Store"} : EndWith(e) /\ at # "idle"
    BY <1>2, <1>6 DEF DriveFails, StoreFails
  <2>. QED BY <1>5, <2>1
<1>7. CASE Pause
  BY <1>1, <1>7 DEF Pause, BetweenWaves, PauseScanning, Move, Early
<1>8. CASE CollectRoots \/ PersistRoots \/ Seeded \/ StartWave \/ PageArrives \/ CommitItems
             \/ CommitPage \/ OutcomeUnsaved \/ UNCHANGED vars
  BY <1>8 DEF CollectRoots, PersistRoots, Seeded, StartWave, PageArrives, CommitItems, CommitPage,
              OutcomeUnsaved, vars, rows
<1>. QED BY <1>3, <1>4, <1>6, <1>7, <1>8 DEF Next, Worker, Disturb

(* However often a scan is paused, fails or is cut by a crash, with any     *)
(* Drive: it finds only what can be reached, forgets nothing, and when it   *)
(* reports READY_FOR_REVIEW it has everything.                              *)
THEOREM ScanImplementsWalk == RootsFit => (Spec => ImplementsWalk)
<1>. SUFFICES ASSUME RootsFit PROVE Spec => ImplementsWalk
  OBVIOUS
<1>1. Init => Walk!Init
  <2>. SUFFICES ASSUME Init PROVE Walk!Init
    OBVIOUS
  <2>1. Committed \in {{}, RootSet} /\ opens \in {Eligible, {}} /\ status \in Early
    BY DEF Init, Committed, Early
  <2>. QED BY <2>1 DEF Walk!Init, Early
<1>2. IInv /\ Rooted /\ Sound /\ Sound' /\ [Next]_vars =>
        [Walk!Next]_<<Committed, opens, status \notin Early>>
  <2>. SUFFICES ASSUME IInv, Rooted, Sound, Sound', [Next]_vars
                PROVE  [Walk!Next]_<<Committed, opens, status \notin Early>>
    OBVIOUS
  <2>1. Steps
    BY NextSteps
  <2>2. opens' = opens /\ Committed' \subseteq Walk!Reach[opens]
    BY <2>1, Grows DEF Sound, Known
  <2>3. CASE Complete
    <3>1. status = "SCANNING" /\ status' = "READY_FOR_REVIEW" /\ Committed' = Committed
      BY <2>3 DEF Complete, CompleteScanning, Move, BetweenWaves, IInv, Phases, Committed
    <3>2. Walk!Closed(Committed, opens)
      BY <2>3, Through DEF Complete
    <3>. QED BY <2>2, <3>1, <3>2 DEF Walk!Next, Walk!Finish, Early
  <2>4. CASE ~Complete
    <3>1. (status' \in Early) = (status \in Early)
      BY <2>4, EarlySteps
    <3>2. CASE Committed' = Committed
      BY <2>2, <3>1, <3>2
    <3>3. CASE Committed' # Committed
      <4>1. Committed \subseteq Committed' /\ status \in Early
        <5>1. RootsCommitted \/ ItemsCommitted
          BY <2>1, <3>3 DEF Steps, Quiet, Starts, Collects, Seeds, Asked, Came, PageCommitted,
                            Committed
        <5>2. at # "idle"
          BY <5>1 DEF RootsCommitted, ItemsCommitted
        <5>3. Committed \subseteq Committed'
          BY <5>1 DEF RootsCommitted, ItemsCommitted, Commits
        <5>. QED BY <5>2, <5>3 DEF IInv, Phases, Early
      <4>2. PICK S : S = Committed' \ Committed
        OBVIOUS
      <4>3. /\ S \in SUBSET (Walk!Reach[opens] \ Committed) /\ S # {}
            /\ Committed' = Committed \cup S
        BY <2>2, <3>3, <4>1, <4>2
      <4>4. (status' \notin Early) = (status \notin Early)
        BY <3>1
      <4>5. Walk!Discover
        BY <2>2, <4>1, <4>3, <4>4 DEF Walk!Discover, Early
      <4>. QED BY <4>5 DEF Walk!Next
    <3>. QED BY <3>2, <3>3
  <2>. QED BY <2>3, <2>4
<1>. QED BY <1>1, <1>2, RootsFirst, SoundAlways, PTL DEF Spec, ImplementsWalk, Walk!Spec,
                                                         Walk!walk, Early

(* A job in review, and from then on, has exactly the items that can be     *)
(* reached from its roots.                                                  *)
THEOREM ReviewIsComplete == RootsFit => (Spec => []Walk!Complete)
BY ScanImplementsWalk, WalkComplete, PTL DEF ImplementsWalk

--------------------------------------------------------------------------------
(* Depths. In a tree every file has one level; a root has level 0, also     *)
(* where it lies in another root's folder.                                  *)
Level(D) ==
  /\ D \in [Files -> Nat] /\ \A r \in RootSet : D[r] = 0
  /\ \A f \in Eligible : \A c \in Kids[f] \ RootSet : D[c] = D[f] + 1
DriveIsATree == \E D \in [Files -> Nat] : Level(D)

(* The rows and the task have the levels, whichever page was listed first.  *)
Leveled(D) ==
  /\ \A f \in Committed : depthOf[f] = D[f]
  /\ \A f \in DOMAIN ckpt : ckpt[f].depth = D[f]
  /\ \A w \in Works : w.depth = D[w.folder]
  /\ page # NoPage =>
       /\ page.depth = D[page.folder]
       /\ \A f \in ToSet(page.items) \cup ToSet(page.enqueue) : D[f] = page.depth + 1

LEMMA LeveledKeeps ==
  ASSUME NEW D, Level(D), IInv, Rooted, Leveled(D), Steps
  PROVE  Leveled(D)'
<1>1. /\ \A r \in RootSet : D[r] = 0 /\ opens \subseteq Eligible
      /\ \A f \in Eligible : \A c \in Kids[f] \ RootSet : D[c] = D[f] + 1
  BY DEF Level, IInv, Types
<1>2. CASE Quiet
  BY <1>2 DEF Quiet, Leveled, Works, Committed
<1>3. CASE Starts \/ Seeds
  <2>1. /\ UNCHANGED <<depthOf, ckpt>> /\ page' = NoPage
        /\ \A w \in Works' : w.folder \in DOMAIN ckpt /\ w.depth = ckpt[w.folder].depth
    BY <1>3 DEF Starts, Seeds, FromRows
  <2>. QED BY <2>1 DEF Leveled, Committed
<1>4. CASE Collects
  BY <1>4 DEF Collects, Leveled, Works, Committed
<1>5. CASE Asked
  BY <1>5 DEF Asked, Leveled, Committed
<1>6. CASE Came
  <2>1. PICK w \in Work, new \in Seq(Files), sub \in Seq(Files) : Arrives(w, new, sub)
    BY <1>6 DEF Came
  <2>2. w.folder \in opens /\ w.folder \in Files /\ w.page \in DOMAIN Pages[w.folder]
    BY <2>1 DEF Arrives, Place, Work
  <2>3. ToSet(new) \subseteq Kids[w.folder] \ RootSet /\ ToSet(sub) \subseteq ToSet(new)
    <3>1. ToSet(new) \subseteq Kids[w.folder] /\ ToSet(new) \cap visited = {}
      BY <2>1, <2>2, Reading DEF Arrives
    <3>2. RootSet \subseteq visited
      BY <1>6 DEF Came, Rooted
    <3>. QED BY <2>1, <3>1, <3>2 DEF Arrives
  <2>4. w.depth = D[w.folder]
    BY <2>1 DEF Arrives, Leveled
  <2>5. /\ page'.depth = D[page'.folder]
        /\ \A f \in ToSet(page'.items) \cup ToSet(page'.enqueue) : D[f] = page'.depth + 1
    <3>1. /\ page'.folder = w.folder /\ page'.depth = w.depth
          /\ page'.items = new /\ page'.enqueue = sub
      BY <2>1 DEF Arrives
    <3>2. w.folder \in Eligible
      <4>1. opens \subseteq Eligible
        BY DEF IInv, Types
      <4>. QED BY <2>2, <4>1
    <3>3. \A f \in ToSet(new) \cup ToSet(sub) : f \in Kids[w.folder] \ RootSet
      BY <2>3
    <3>4. \A f \in ToSet(new) \cup ToSet(sub) : D[f] = w.depth + 1
      BY <1>1, <2>4, <3>2, <3>3
    <3>. QED BY <2>4, <3>1, <3>4
  <2>6. UNCHANGED <<depthOf, ckpt>> /\ Works' \subseteq Works
    BY <1>6, <2>1 DEF Came, Arrives
  <2>. QED BY <2>5, <2>6 DEF Leveled, Committed
<1>7. CASE RootsCommitted
  <2>1. /\ Committed' = Committed \cup Now(batch) /\ Now(batch) \subseteq RootSet
        /\ \A f \in Committed' : depthOf'[f] = IF f \in Committed THEN depthOf[f] ELSE 0
        /\ DOMAIN ckpt' = DOMAIN ckpt \cup (Now(batch) \cap opens)
        /\ \A f \in DOMAIN ckpt' :
             ckpt'[f] = IF f \in Now(batch) \cap opens THEN Begin(0) ELSE ckpt[f]
        /\ Works' = Works /\ page' = page
    BY <1>7 DEF RootsCommitted, Commits, Works
  <2>2. Begin(0).depth = 0
    BY DEF Begin
  <2>3. \A f \in Committed' : depthOf'[f] = D[f]
    BY <1>1, <2>1 DEF Leveled
  <2>4. \A f \in DOMAIN ckpt' : ckpt'[f].depth = D[f]
    BY <1>1, <2>1, <2>2 DEF Leveled
  <2>. QED BY <2>1, <2>3, <2>4 DEF Leveled
<1>8. CASE ItemsCommitted
  <2>. DEFINE I == Now(page.items)
              K == Now(page.checkpoints)
              d == page.depth + 1
  <2>1. /\ Committed' = Committed \cup I
        /\ \A f \in Committed' : depthOf'[f] = IF f \in Committed THEN depthOf[f] ELSE d
        /\ DOMAIN ckpt' = DOMAIN ckpt \cup K
        /\ \A f \in DOMAIN ckpt' : ckpt'[f] = IF f \in K THEN Begin(d) ELSE ckpt[f]
        /\ Works' = Works /\ page # NoPage
    BY <1>8 DEF ItemsCommitted, Commits, Works
  <2>2. I \subseteq ToSet(page.items) /\ K \subseteq ToSet(page.enqueue)
    <3>1. ToSet(page.checkpoints) \subseteq ToSet(page.enqueue)
      BY <2>1 DEF IInv, Places
    <3>. QED BY <1>8, <3>1 DEF ItemsCommitted
  <2>3. Begin(d).depth = d /\ \A f \in I \cup K : D[f] = d
    BY <2>1, <2>2 DEF Begin, Leveled
  <2>4. /\ page'.folder = page.folder /\ page'.depth = page.depth /\ page'.enqueue = page.enqueue
        /\ ToSet(page'.items) \subseteq ToSet(page.items)
    BY <1>8 DEF ItemsCommitted, Shortened, Splits
  <2>. HIDE DEF I, K, d
  <2>5. \A f \in Committed' : depthOf'[f] = D[f]
    BY <2>1, <2>3 DEF Leveled
  <2>6. \A f \in DOMAIN ckpt' : ckpt'[f].depth = D[f]
    BY <2>1, <2>3 DEF Leveled
  <2>7. /\ page'.depth = D[page'.folder]
        /\ \A f \in ToSet(page'.items) \cup ToSet(page'.enqueue) : D[f] = page'.depth + 1
    BY <2>1, <2>4 DEF Leveled
  <2>. QED BY <2>1, <2>5, <2>6, <2>7 DEF Leveled
<1>9. CASE PageCommitted
  <2>1. /\ Committed' = Committed /\ \A f \in Committed : depthOf'[f] = depthOf[f]
        /\ \A f \in DOMAIN ckpt' : \/ f \in DOMAIN ckpt /\ ckpt'[f] = ckpt[f]
                                   \/ f = page.folder /\ ckpt'[f].depth = page.depth
        /\ page # NoPage /\ page' = NoPage
    BY <1>9 DEF PageCommitted
  <2>2. \A w \in Works' : \/ w \in Works
                          \/ w.folder = page.folder /\ w.depth = page.depth
                          \/ w.folder \in ToSet(page.enqueue) /\ w.depth = page.depth + 1
    BY <1>9 DEF PageCommitted, Queued, Works
  <2>. QED BY <2>1, <2>2 DEF Leveled
<1>. QED BY <1>2, <1>3, <1>4, <1>5, <1>6, <1>7, <1>8, <1>9 DEF Steps

LEMMA LeveledInit == ASSUME NEW D, Level(D), Init PROVE Leveled(D)
<1>1. Works = {} /\ page = NoPage
  BY EmptyFacts DEF Init, Works
<1>2. CASE depthOf = <<>> /\ ckpt = <<>>
  BY <1>1, <1>2 DEF Leveled, Committed
<1>3. CASE /\ depthOf = [f \in RootSet |-> 0]
           /\ ckpt = [f \in RootSet \cap opens |-> [page |-> 1, depth |-> 0]]
  BY <1>1, <1>3 DEF Leveled, Committed, Level
<1>. QED BY <1>2, <1>3 DEF Init

(* What is in a folder is deeper than the folder, whatever order the pages  *)
(* came in and however old the checkpoints of a resumed scan are: transfers *)
(* go deepest first by these depths.                                        *)
THEOREM DeeperInside == RootsFit /\ DriveIsATree => (Spec => []ContentsAreDeeper)
<1>. SUFFICES ASSUME RootsFit, DriveIsATree PROVE Spec => []ContentsAreDeeper
  OBVIOUS
<1>1. PICK D \in [Files -> Nat] : Level(D)
  BY DEF DriveIsATree
<1>2. Init => Leveled(D)
  BY <1>1, LeveledInit
<1>3. IInv /\ Rooted /\ Leveled(D) /\ [Next]_vars => Leveled(D)'
  BY <1>1, NextSteps, LeveledKeeps
<1>4. IInv /\ Leveled(D) => ContentsAreDeeper
  <2>. SUFFICES ASSUME IInv, Leveled(D), NEW f \in Committed \cap opens,
                       NEW c \in (Kids[f] \cap Committed) \ RootSet
                PROVE  depthOf[c] > depthOf[f]
    BY DEF ContentsAreDeeper
  <2>1. f \in Eligible /\ f \in Files
    BY Tree DEF IInv, Types
  <2>2. D[c] = D[f] + 1 /\ D[f] \in Nat
    BY <1>1, <2>1 DEF Level
  <2>. QED BY <2>2 DEF Leveled
<1>. QED BY <1>2, <1>3, <1>4, RootsFirst, PTL DEF Spec

================================================================================
