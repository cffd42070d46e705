---------------------------- MODULE SearchProofs ----------------------------
(***************************************************************************)
(* Proofs about Search: what the store's List, the shared candidate limit,  *)
(* the filter and the stable sort make of any set of records, and that a    *)
(* client's walk through the pages is sound whatever is written meanwhile.  *)
(***************************************************************************)
EXTENDS Search, Induction, FiniteSetTheorems, SequenceTheorems, TLAPS

-----------------------------------------------------------------------------
(* The inductive invariant *)

\* Records are finitely many, live or deleted.
RecordsInv ==
  /\ DOMAIN records \subseteq Ids /\ IsFiniteSet(DOMAIN records)
  /\ records = [i \in DOMAIN records |-> records[i]]
  /\ \A i \in DOMAIN records : records[i] \in Keys \cup {None}
  /\ deleted \subseteq Ids \ DOMAIN records /\ broken \subseteq DOMAIN records

\* The place in the list of matches where a walk began, and where its last page ended.
begun(request) == IF request.start < 1 THEN 1 ELSE request.start
reached(w) == begun(w.request) - 1 + Len(w.seen)

wantsNone(request) == request.count # None /\ request.count <= 0

WalkType(w) ==
  /\ w = [f \in {"request", "status", "ended", "seen", "first", "writes", "made"} |-> w[f]]
  /\ w.request \in Requests
  /\ w.status \in {200, 400, 413, 500}
  /\ w.ended \in BOOLEAN
  /\ w.seen \in Seq(Ids)
  /\ wantsNone(w.request) => w.seen = <<>>

\* Undisturbed, the client has the matches from the start to the place it reached.
Undisturbed(db, w) ==
  w.writes = {} =>
    /\ w.seen # <<>> => reached(w) <= Cardinality(matching(db, w.request))
    /\ w.seen = SubSeq(inOrder(db, w.request), begun(w.request), reached(w))
    /\ w.ended /\ w.status = 200 => w.seen = reference(db, w.request)

\* With creations only, what the client has not seen lies ahead.
NothingMissed(db, w) ==
  w.writes \subseteq {"create"} /\ w.request.start <= 1 =>
    /\ w.first \subseteq matching(db, w.request)
    /\ \A i \in w.first : i \in Range(w.seen) \/ position(db, w.request, i) > reached(w)
    /\ w.ended /\ w.status = 200 /\ ~wantsNone(w.request) => w.first \subseteq Range(w.seen)

\* With deletions only, what the client has seen lies behind.
NothingRepeated(db, w) ==
  w.writes \subseteq {"delete"} =>
    /\ IsInjective(w.seen)
    /\ \A i \in Range(w.seen) \cap matching(db, w.request) :
         position(db, w.request, i) <= reached(w)

WalkInv(db, w) ==
  WalkType(w) /\ Undisturbed(db, w) /\ NothingMissed(db, w) /\ NothingRepeated(db, w)

SearchInv == RecordsInv /\ (walk # None => WalkInv(records, walk))

-----------------------------------------------------------------------------
(* Sorted sequences.  An order is a set of pairs, so that lemmas about it can be cited. *)

Ordered(s, R) == \A i, j \in DOMAIN s : i < j => <<s[i], s[j]>> \in R

\* R is a strict total order of S.
StrictOrder(R, S) ==
  /\ \A x, y \in S : <<x, y>> \in R => <<y, x>> \notin R
  /\ \A x, y, z \in S : <<x, y>> \in R /\ <<y, z>> \in R => <<x, z>> \in R
  /\ \A x, y \in S : x # y => <<x, y>> \in R \/ <<y, x>> \in R

\* What InsertAt builds.
LEMMA InsertAtElements ==
  ASSUME NEW S, NEW s \in Seq(S), NEW x \in S, NEW k \in 1 .. Len(s) + 1
  PROVE  /\ InsertAt(s, k, x) \in Seq(S)
         /\ Len(InsertAt(s, k, x)) = Len(s) + 1
         /\ \A i \in 1 .. Len(s) + 1 :
              InsertAt(s, k, x)[i] = IF i < k THEN s[i] ELSE IF i = k THEN x ELSE s[i - 1]
<1> DEFINE a == SubSeq(s, 1, k - 1)
           b == <<x>>
           c == SubSeq(s, k, Len(s))
<1>0. Len(s) \in Nat /\ \A i \in 1 .. Len(s) : s[i] \in S
  BY LenProperties, ElementOfSeq
<1>1. a \in Seq(S) /\ Len(a) = k - 1 /\ \A i \in 1 .. k - 1 : a[i] = s[i]
  <2>1. \A i \in 1 .. k - 1 : s[i] \in S
    BY <1>0
  <2> QED
    BY <2>1, <1>0, SubSeqProperties
<1>2. b \in Seq(S) /\ Len(b) = 1 /\ b[1] = x
  OBVIOUS
<1>3. c \in Seq(S) /\ Len(c) = Len(s) - k + 1 /\ \A i \in 1 .. Len(s) - k + 1 : c[i] = s[k + i - 1]
  <2>1. \A i \in k .. Len(s) : s[i] \in S
    BY <1>0
  <2> QED
    BY <2>1, <1>0, SubSeqProperties
<1>4. InsertAt(s, k, x) = (a \o b) \o c
  BY DEF InsertAt
<1> HIDE DEF a, b, c
<1>5. /\ a \o b \in Seq(S) /\ Len(a \o b) = k
      /\ \A i \in 1 .. k : (a \o b)[i] = IF i < k THEN s[i] ELSE x
  <2>1. /\ a \o b \in Seq(S) /\ Len(a \o b) = Len(a) + Len(b)
        /\ \A i \in 1 .. Len(a) + Len(b) : (a \o b)[i] = IF i <= Len(a) THEN a[i] ELSE b[i - Len(a)]
    BY <1>1, <1>2, ConcatProperties
  <2>2. k - 1 + 1 = k
    BY <1>0
  <2>3. ASSUME NEW i \in 1 .. k PROVE (a \o b)[i] = IF i < k THEN s[i] ELSE x
    BY <2>1, <2>3, <1>1, <1>2, <1>0
  <2> QED
    BY <2>1, <2>2, <2>3, <1>1, <1>2
<1> DEFINE d == a \o b
           t == d \o c
<1> HIDE DEF d
<1>6. /\ t \in Seq(S) /\ Len(t) = k + Len(c)
      /\ \A i \in 1 .. k + Len(c) : t[i] = IF i <= k THEN d[i] ELSE c[i - k]
  <2>1. d \in Seq(S) /\ Len(d) = k
    BY <1>5 DEF d
  <2> QED
    BY <2>1, <1>3, ConcatProperties
<1> HIDE DEF t
<1>7. k + Len(c) = Len(s) + 1
  BY <1>0, <1>3
<1>8. ASSUME NEW i \in 1 .. Len(s) + 1
      PROVE  t[i] = IF i < k THEN s[i] ELSE IF i = k THEN x ELSE s[i - 1]
  <2>1. CASE i <= k
    <3>1. d[i] = IF i < k THEN s[i] ELSE x
      BY <2>1, <1>0, <1>5 DEF d
    <3>2. t[i] = d[i]
      BY <2>1, <1>0, <1>6, <1>7
    <3> QED
      BY <3>1, <3>2, <2>1, <1>0
  <2>2. CASE i > k
    <3>1. i - k \in 1 .. Len(s) - k + 1 /\ k + (i - k) - 1 = i - 1
      BY <2>2, <1>0
    <3> QED
      BY <3>1, <2>2, <1>0, <1>3, <1>6, <1>7
  <2> QED
    BY <2>1, <2>2, <1>0
<1> QED
  BY <1>4, <1>6, <1>7, <1>8 DEF t, d

\* A downward closed set of indexes is an initial segment.
LEMMA InitialSegment ==
  ASSUME NEW n \in Nat, NEW P \in SUBSET (1 .. n), \A i \in P : \A j \in 1 .. i : j \in P
  PROVE  Cardinality(P) \in 0 .. n /\ P = 1 .. Cardinality(P)
<1>1. IsFiniteSet(1 .. n) /\ Cardinality(1 .. n) = n
  BY FS_Interval
<1>2. IsFiniteSet(P) /\ Cardinality(P) \in 0 .. n
  <2>1. IsFiniteSet(P) /\ Cardinality(P) <= n
    <3> DEFINE I == 1 .. n
    <3>1. IsFiniteSet(I) /\ Cardinality(I) = n /\ P \in SUBSET I
      BY <1>1
    <3> HIDE DEF I
    <3> QED
      BY <3>1, FS_Subset
  <2>2. Cardinality(P) \in Nat
    BY <2>1, FS_CardinalityType
  <2> QED
    BY <2>1, <2>2
<1>3. CASE P = {}
  BY <1>3, <1>2, FS_EmptySet
<1>4. CASE P # {}
  <2>1. PICK m \in P : \A i \in P : i <= m
    <3> DEFINE Up == {n - i : i \in P}
    <3>1. Up # {} /\ Up \subseteq Nat
      BY <1>4
    <3>2. PICK u \in Up : \A v \in Up : <<v, u>> \notin OpToRel(<, Nat)
      <4> HIDE DEF Up
      <4> QED
        BY <3>1, NatLessThanWellFounded, WFMin
    <3>3. PICK m \in P : u = n - m
      OBVIOUS
    <3>4. ASSUME NEW i \in P PROVE i <= m
      <4>1. n - i \in Up /\ n - i \in Nat /\ u \in Nat
        BY <3>1
      <4>2. ~(n - i < u)
        BY <3>2, <4>1 DEF OpToRel
      <4> QED
        BY <4>1, <4>2, <3>3
    <3> QED
      BY <3>4
  <2>2. P = 1 .. m
    <3>1. ASSUME NEW i \in P PROVE i \in 1 .. m
      <4>1. i \in 1 .. n /\ m \in 1 .. n /\ i <= m
        BY <2>1
      <4> QED
        BY <4>1
    <3>2. \A i \in 1 .. m : i \in P
      BY <2>1
    <3> QED
      BY <3>1, <3>2
  <2>3. Cardinality(P) = m
    BY <2>2, FS_Interval
  <2> QED
    BY <2>2, <2>3, <1>2
<1> QED
  BY <1>3, <1>4

\* Inserting keeps a sequence ordered.
LEMMA InsertedOrdered ==
  ASSUME NEW S, NEW R, StrictOrder(R, S), NEW s \in Seq(S), Ordered(s, R),
         NEW x \in S, x \notin Range(s)
  PROVE  LET t == inserted(s, x, R) IN
         /\ t \in Seq(S) /\ Len(t) = Len(s) + 1
         /\ Range(t) = Range(s) \cup {x}
         /\ Ordered(t, R)
<1> DEFINE P == {i \in DOMAIN s : <<x, s[i]>> \notin R}
           k == Cardinality(P) + 1
           t == InsertAt(s, k, x)
<1>0. Len(s) \in Nat /\ DOMAIN s = 1 .. Len(s) /\ \A i \in 1 .. Len(s) : s[i] \in S
  BY LenProperties, ElementOfSeq
<1>1. \A i \in 1 .. Len(s) : s[i] # x /\ s[i] \in Range(s)
  BY <1>0 DEF Range
<1>2. ASSUME NEW i \in P, NEW j \in 1 .. i PROVE j \in P
  <2>1. i \in 1 .. Len(s) /\ j \in 1 .. Len(s) /\ (j = i \/ j < i)
    BY <1>0
  <2>2. <<s[i], x>> \in R
    BY <2>1, <1>0, <1>1 DEF StrictOrder
  <2>3. <<s[j], x>> \in R
    BY <2>1, <2>2, <1>0 DEF StrictOrder, Ordered
  <2> QED
    BY <2>1, <2>3, <1>0 DEF StrictOrder
<1>3. Cardinality(P) \in 0 .. Len(s) /\ P = 1 .. Cardinality(P)
  <2>1. P \in SUBSET (1 .. Len(s))
    BY <1>0
  <2> HIDE DEF P
  <2> QED
    BY <2>1, <1>0, <1>2, InitialSegment
<1>4. inserted(s, x, R) = t
  BY DEF inserted
<1>5. k \in 1 .. Len(s) + 1 /\ \A i \in 1 .. Len(s) : i < k <=> <<x, s[i]>> \notin R
  <2>1. \A i \in 1 .. Len(s) : i \in P <=> <<x, s[i]>> \notin R
    BY <1>0
  <2> HIDE DEF P
  <2> QED
    BY <2>1, <1>0, <1>3
<1> HIDE DEF k
<1>6. /\ t \in Seq(S) /\ Len(t) = Len(s) + 1
      /\ \A i \in 1 .. Len(s) + 1 :
           t[i] = IF i < k THEN s[i] ELSE IF i = k THEN x ELSE s[i - 1]
  BY <1>5, InsertAtElements
<1> HIDE DEF t
<1>7. DOMAIN t = 1 .. Len(s) + 1
  BY <1>6, LenProperties
<1>8. Range(t) = Range(s) \cup {x}
  <2>1. ASSUME NEW i \in 1 .. Len(s) PROVE s[i] \in Range(t)
    <3>1. CASE i < k
      BY <3>1, <1>0, <1>6, <1>7 DEF Range
    <3>2. CASE i >= k
      <4>1. i + 1 \in 1 .. Len(s) + 1 /\ (i + 1) - 1 = i /\ ~(i + 1 < k) /\ i + 1 # k
        BY <3>2, <1>0, <1>5
      <4>2. t[i + 1] = s[i]
        BY <4>1, <1>6
      <4> QED
        BY <4>1, <4>2, <1>7 DEF Range
    <3> QED
      BY <3>1, <3>2, <1>0, <1>5
  <2>2. x \in Range(t)
    BY <1>5, <1>6, <1>7 DEF Range
  <2>3. ASSUME NEW i \in 1 .. Len(s) + 1 PROVE t[i] \in Range(s) \cup {x}
    <3>1. i < k => i \in 1 .. Len(s)
      BY <1>0, <1>5
    <3>2. i > k => i - 1 \in 1 .. Len(s)
      BY <1>0, <1>5
    <3> QED
      BY <3>1, <3>2, <1>0, <1>1, <1>5, <1>6
  <2>4. Range(s) = {s[i] : i \in 1 .. Len(s)} /\ Range(t) = {t[i] : i \in 1 .. Len(s) + 1}
    BY <1>0, <1>7 DEF Range
  <2> QED
    BY <2>1, <2>2, <2>3, <2>4
<1>9. Ordered(t, R)
  <2> SUFFICES ASSUME NEW i \in 1 .. Len(s) + 1, NEW j \in 1 .. Len(s) + 1, i < j
               PROVE  <<t[i], t[j]>> \in R
    BY <1>7 DEF Ordered
  <2>1. CASE j < k
    <3>1. i \in 1 .. Len(s) /\ j \in 1 .. Len(s) /\ t[i] = s[i] /\ t[j] = s[j]
      BY <2>1, <1>0, <1>5, <1>6
    <3> QED
      BY <3>1, <1>0 DEF Ordered
  <2>2. CASE j = k
    <3>1. i \in 1 .. Len(s) /\ t[i] = s[i] /\ t[j] = x /\ <<x, s[i]>> \notin R
      BY <2>2, <1>0, <1>5, <1>6
    <3> QED
      BY <3>1, <1>0, <1>1 DEF StrictOrder
  <2>3. CASE j > k
    <3>0. j - 1 \in 1 .. Len(s) /\ ~(j - 1 < k) /\ t[j] = s[j - 1]
      BY <2>3, <1>0, <1>5, <1>6
    <3>1. CASE i < k
      <4>1. i \in 1 .. Len(s) /\ i < j - 1 /\ t[i] = s[i]
        BY <2>3, <3>1, <1>0, <1>5, <1>6
      <4> QED
        BY <4>1, <3>0, <1>0 DEF Ordered
    <3>2. CASE i = k
      <4>1. t[i] = x /\ <<x, s[j - 1]>> \in R
        BY <3>2, <3>0, <1>5, <1>6
      <4> QED
        BY <4>1, <3>0
    <3>3. CASE i > k
      <4>1. i - 1 \in 1 .. Len(s) /\ i - 1 < j - 1 /\ t[i] = s[i - 1]
        BY <3>3, <1>0, <1>5, <1>6
      <4> QED
        BY <4>1, <3>0, <1>0 DEF Ordered
    <3> QED
      BY <3>1, <3>2, <3>3, <1>5
  <2> QED
    BY <2>1, <2>2, <2>3, <1>5
<1> QED
  BY <1>4, <1>6, <1>8, <1>9

\* What the loop of a sort goes through.
SortsTo(f, s, R) ==
  /\ f[0] = <<>>
  /\ \A n \in 1 .. Len(s) : f[n] = inserted(f[n - 1], s[n], R)
  /\ stableSort(s, R) = f[Len(s)]

\* There is such a loop.
LEMMA SortLoop ==
  ASSUME NEW s, NEW R, Len(s) \in Nat
  PROVE  \E f : SortsTo(f, s, R)
<1> DEFINE step(p, n) == inserted(p, s[n], R)
           Fits(f, m) == f = [n \in 0 .. m |-> IF n = 0 THEN <<>> ELSE step(f[n - 1], n)]
           Good == {m \in Nat : \E f : Fits(f, m)}
           loop == CHOOSE f : Fits(f, Len(s))
<1> HIDE DEF step
<1>1. 0 \in Good
  <2>1. Fits([n \in 0 .. 0 |-> <<>>], 0)
    OBVIOUS
  <2> QED
    BY <2>1
<1>2. ASSUME NEW m \in Nat, m \in Good PROVE m + 1 \in Good
  <2>1. PICK f : Fits(f, m)
    BY <1>2
  <2> DEFINE g == [n \in 0 .. m + 1 |-> IF n = m + 1 THEN step(f[m], n) ELSE f[n]]
  <2>2. \A n \in 0 .. m + 1 : g[n] = IF n = 0 THEN <<>> ELSE step(g[n - 1], n)
    BY <2>1
  <2>3. Fits(g, m + 1)
    BY <2>2
  <2> HIDE DEF g
  <2> QED
    BY <2>3
<1>3. \E f : Fits(f, Len(s))
  BY <1>1, <1>2, NatSetInduction
<1>4. Fits(loop, Len(s))
  BY <1>3
<1>5. stableSort(s, R) = loop[Len(s)]
  BY DEF stableSort, step
<1> HIDE DEF loop
<1>6. loop[0] = <<>> /\ \A n \in 1 .. Len(s) : loop[n] = step(loop[n - 1], n)
  BY <1>4
<1> QED
  BY <1>5, <1>6 DEF step, SortsTo

\* A sort of different elements puts all of them in order.
LEMMA StableSortSorts ==
  ASSUME NEW S, NEW R, StrictOrder(R, S), NEW s \in Seq(S), IsInjective(s)
  PROVE  LET t == stableSort(s, R) IN
         /\ t \in Seq(S) /\ Len(t) = Len(s)
         /\ Range(t) = Range(s)
         /\ Ordered(t, R)
<1>0. Len(s) \in Nat /\ DOMAIN s = 1 .. Len(s) /\ \A i \in 1 .. Len(s) : s[i] \in S
  BY LenProperties, ElementOfSeq
<1>a. Len(s) \in Nat
  BY <1>0
<1>b. PICK f : SortsTo(f, s, R)
  BY <1>a, SortLoop
<1>1. /\ f[0] = <<>>
      /\ \A n \in 1 .. Len(s) : f[n] = inserted(f[n - 1], s[n], R)
      /\ stableSort(s, R) = f[Len(s)]
  BY <1>b DEF SortsTo
<1> DEFINE Sorted(n) == /\ f[n] \in Seq(S) /\ Len(f[n]) = n
                        /\ Range(f[n]) = {s[i] : i \in 1 .. n}
                        /\ Ordered(f[n], R)
           Good == {n \in Nat : n <= Len(s) => Sorted(n)}
<1>2. 0 \in Good
  <2>1. <<>> \in Seq(S) /\ Len(<<>>) = 0 /\ DOMAIN <<>> = {}
    OBVIOUS
  <2>2. Range(<<>>) = {} /\ Ordered(<<>>, R) /\ {s[i] : i \in 1 .. 0} = {}
    BY <2>1 DEF Range, Ordered
  <2>3. Sorted(0)
    BY <1>1, <2>1, <2>2
  <2> HIDE DEF Sorted
  <2> QED
    BY <2>3
<1>3. ASSUME NEW n \in Nat, n \in Good PROVE n + 1 \in Good
  <2> SUFFICES ASSUME n + 1 <= Len(s) PROVE Sorted(n + 1)
    OBVIOUS
  <2>1. Sorted(n) /\ n + 1 \in 1 .. Len(s) /\ (n + 1) - 1 = n
    BY <1>0, <1>3
  <2>2. s[n + 1] \in S /\ s[n + 1] \notin Range(f[n])
    <3>1. ASSUME NEW i \in 1 .. n PROVE s[i] # s[n + 1]
      <4>1. i \in DOMAIN s /\ n + 1 \in DOMAIN s /\ i # n + 1
        BY <1>0, <2>1
      <4> QED
        BY <4>1 DEF IsInjective
    <3> QED
      BY <3>1, <2>1, <1>0
  <2> DEFINE t == inserted(f[n], s[n + 1], R)
  <2>3. f[n + 1] = t
    BY <1>1, <2>1
  <2>4. /\ t \in Seq(S) /\ Len(t) = n + 1
        /\ Range(t) = Range(f[n]) \cup {s[n + 1]}
        /\ Ordered(t, R)
    BY <2>1, <2>2, InsertedOrdered
  <2>5. {s[i] : i \in 1 .. n + 1} = {s[i] : i \in 1 .. n} \cup {s[n + 1]}
    OBVIOUS
  <2> HIDE DEF t
  <2> QED
    BY <2>1, <2>3, <2>4, <2>5
<1> HIDE DEF Sorted
<1>4. Len(s) \in Good
  BY <1>a, <1>2, <1>3, NatSetInduction
<1>5. Sorted(Len(s))
  BY <1>a, <1>4
<1> QED
  BY <1>0, <1>1, <1>5 DEF Range, Sorted

\* An ordered sequence holds no element twice.
LEMMA OrderedIsInjective ==
  ASSUME NEW S, NEW R, StrictOrder(R, S), NEW s \in Seq(S), Ordered(s, R)
  PROVE  IsInjective(s)
<1>0. Len(s) \in Nat /\ DOMAIN s = 1 .. Len(s) /\ \A i \in 1 .. Len(s) : s[i] \in S
  BY LenProperties, ElementOfSeq
<1>1. ASSUME NEW i \in 1 .. Len(s), NEW j \in 1 .. Len(s), i < j PROVE s[i] # s[j]
  BY <1>0, <1>1 DEF StrictOrder, Ordered
<1> QED
  BY <1>0, <1>1 DEF IsInjective

\* An injective sequence is as long as its range is large.
LEMMA InjectiveLength ==
  ASSUME NEW S, NEW s \in Seq(S), IsInjective(s)
  PROVE  IsFiniteSet(Range(s)) /\ Cardinality(Range(s)) = Len(s)
<1>0. Len(s) \in Nat /\ s \in [1 .. Len(s) -> S]
  BY LenProperties
<1>1. s \in Bijection(1 .. Len(s), Range(s))
  BY <1>0 DEF Bijection, Injection, Surjection, IsInjective, Range
<1>2. ExistsBijection(1 .. Len(s), Range(s))
  BY <1>1 DEF ExistsBijection
<1>3. IsFiniteSet(1 .. Len(s)) /\ Cardinality(1 .. Len(s)) = Len(s)
  BY <1>0, FS_Interval
<1> QED
  BY <1>2, <1>3, FS_Bijection

-----------------------------------------------------------------------------
(* The candidates of a search *)

ofType(type) == {i \in DOMAIN records : TypeOf[i] = type}

\* The live resources of the first n of the searched types.
live(types, n) == {i \in DOMAIN records : \E m \in 1 .. n : TypeOf[i] = types[m]}

\* By type and then by id.
ByType(types) ==
  {pair \in (DOMAIN records) \X (DOMAIN records) :
     \E m, n \in DOMAIN types :
       /\ TypeOf[pair[1]] = types[m] /\ TypeOf[pair[2]] = types[n]
       /\ m < n \/ (m = n /\ pair[1] < pair[2])}

\* Live ids are numbers, and finitely many.
LEMMA LiveFacts ==
  ASSUME RecordsInv, NEW S, S \subseteq DOMAIN records
  PROVE  S \subseteq Nat /\ IsFiniteSet(S) /\ Cardinality(S) \in Nat
<1>1. S \subseteq Nat
  BY SearchAssumption DEF RecordsInv
<1>2. IsFiniteSet(S)
  BY FS_Subset DEF RecordsInv
<1> QED
  BY <1>1, <1>2, FS_CardinalityType

\* The order of ids is one.
LEMMA ByIdIsOrder ==
  ASSUME NEW S, S \subseteq Nat
  PROVE  StrictOrder(byId(S), S)
<1>1. \A x, y \in S : <<x, y>> \in byId(S) <=> x < y
  BY DEF byId
<1> QED
  BY <1>1 DEF StrictOrder

\* List gives all ids of the type, in order.
LEMMA ListFacts ==
  ASSUME RecordsInv, NEW type, NEW limit \in Nat \ {0}
  PROVE  LET ids == List(type, limit).ids IN
         /\ ids \in Seq(ofType(type)) /\ Range(ids) = ofType(type)
         /\ Len(ids) = Cardinality(ofType(type))
         /\ Ordered(ids, byId(ofType(type)))
         /\ List(type, limit).error =
              IF Cardinality(ofType(type)) > limit THEN "tooMany" ELSE "none"
<1> DEFINE S == ofType(type)
           ids == stableSort(SetToSeq(S), byId(S))
<1>1. S \subseteq Nat /\ IsFiniteSet(S) /\ Cardinality(S) \in Nat
  BY LiveFacts DEF ofType
<1>2. /\ List(type, limit).ids = ids
      /\ List(type, limit).error = IF Cardinality(S) > limit THEN "tooMany" ELSE "none"
  BY DEF List, ofType
<1> HIDE DEF S
<1>3. SetToSeq(S) \in Seq(S) /\ Range(SetToSeq(S)) = S /\ IsInjective(SetToSeq(S))
  BY <1>1, SetToSeqEnumerates DEF Enumerates
<1>4. StrictOrder(byId(S), S)
  BY <1>1, ByIdIsOrder
<1>5. ids \in Seq(S) /\ Range(ids) = S /\ Ordered(ids, byId(S))
  BY <1>3, <1>4, StableSortSorts
<1> HIDE DEF ids
<1>6. Len(ids) = Cardinality(S)
  <2>1. IsInjective(ids)
    BY <1>4, <1>5, OrderedIsInjective
  <2> QED
    BY <2>1, <1>5, InjectiveLength
<1> QED
  BY <1>2, <1>5, <1>6 DEF S

\* The order by type and id is one, when no type is searched twice.
LEMMA ByTypeIsOrder ==
  ASSUME RecordsInv, NEW T, NEW types \in Seq(T), IsInjective(types)
  PROVE  StrictOrder(ByType(types), live(types, Len(types)))
<1> DEFINE L == live(types, Len(types))
           R == ByType(types)
           at(x) == CHOOSE n \in 1 .. Len(types) : TypeOf[x] = types[n]
<1>0. Len(types) \in Nat /\ DOMAIN types = 1 .. Len(types)
  BY LenProperties
<1>1. L \subseteq DOMAIN records /\ L \subseteq Nat
  BY LiveFacts DEF live
<1>2. ASSUME NEW x \in L PROVE at(x) \in 1 .. Len(types) /\ TypeOf[x] = types[at(x)]
  BY DEF live
<1>3. ASSUME NEW x \in L, NEW n \in 1 .. Len(types), TypeOf[x] = types[n] PROVE n = at(x)
  <2>1. at(x) \in 1 .. Len(types) /\ types[at(x)] = types[n]
    BY <1>2, <1>3
  <2> HIDE DEF at
  <2> QED
    BY <2>1, <1>0 DEF IsInjective
<1>4. ASSUME NEW x \in L, NEW y \in L
      PROVE  <<x, y>> \in R <=> at(x) < at(y) \/ (at(x) = at(y) /\ x < y)
  <2>1. /\ at(x) \in DOMAIN types /\ TypeOf[x] = types[at(x)]
        /\ at(y) \in DOMAIN types /\ TypeOf[y] = types[at(y)]
    BY <1>0, <1>2
  <2>2. /\ \A m \in DOMAIN types : TypeOf[x] = types[m] => m = at(x)
        /\ \A m \in DOMAIN types : TypeOf[y] = types[m] => m = at(y)
    BY <1>0, <1>3
  <2> HIDE DEF at
  <2>3. <<x, y>> \in R <=> \E m, n \in DOMAIN types :
                             /\ TypeOf[x] = types[m] /\ TypeOf[y] = types[n]
                             /\ m < n \/ (m = n /\ x < y)
    <3>1. x \in DOMAIN records /\ y \in DOMAIN records
      BY <1>1
    <3>2. <<x, y>> \in (DOMAIN records) \X (DOMAIN records)
      BY <3>1
    <3>3. <<x, y>>[1] = x /\ <<x, y>>[2] = y
      OBVIOUS
    <3> QED
      BY <3>2, <3>3, Zenon DEF ByType
  <2> QED
    BY <2>1, <2>2, <2>3
<1>5. \A x \in L : at(x) \in Nat /\ x \in Nat
  BY <1>0, <1>1, <1>2
<1> HIDE DEF at, R, L
<1>6. StrictOrder(R, L)
  <2>1. ASSUME NEW x \in L, NEW y \in L, <<x, y>> \in R PROVE <<y, x>> \notin R
    BY <2>1, <1>4, <1>5
  <2>2. ASSUME NEW x \in L, NEW y \in L, NEW z \in L, <<x, y>> \in R, <<y, z>> \in R
        PROVE  <<x, z>> \in R
    BY <2>2, <1>4, <1>5
  <2>3. ASSUME NEW x \in L, NEW y \in L, x # y PROVE <<x, y>> \in R \/ <<y, x>> \in R
    BY <2>3, <1>4, <1>5
  <2> QED
    BY <2>1, <2>2, <2>3 DEF StrictOrder
<1> QED
  BY <1>6 DEF R, L

\* Two more pieces of a list, the later one of a later type.
LEMMA ConcatOrdered ==
  ASSUME NEW S, NEW R, NEW s \in Seq(S), NEW t \in Seq(S), Ordered(s, R), Ordered(t, R),
         \A x \in Range(s), y \in Range(t) : <<x, y>> \in R
  PROVE  /\ s \o t \in Seq(S) /\ Len(s \o t) = Len(s) + Len(t)
         /\ Range(s \o t) = Range(s) \cup Range(t)
         /\ Ordered(s \o t, R)
<1> DEFINE u == s \o t
<1>0. /\ Len(s) \in Nat /\ DOMAIN s = 1 .. Len(s)
      /\ Len(t) \in Nat /\ DOMAIN t = 1 .. Len(t)
  BY LenProperties
<1>1. /\ u \in Seq(S) /\ Len(u) = Len(s) + Len(t)
      /\ \A i \in 1 .. Len(s) + Len(t) : u[i] = IF i <= Len(s) THEN s[i] ELSE t[i - Len(s)]
  BY ConcatProperties
<1> HIDE DEF u
<1>2. DOMAIN u = 1 .. Len(s) + Len(t)
  BY <1>1, LenProperties
<1>3. ASSUME NEW i \in 1 .. Len(s) + Len(t)
      PROVE  IF i <= Len(s) THEN i \in DOMAIN s /\ u[i] = s[i] /\ u[i] \in Range(s)
             ELSE i - Len(s) \in DOMAIN t /\ u[i] = t[i - Len(s)] /\ u[i] \in Range(t)
  <2>1. i <= Len(s) => i \in DOMAIN s /\ u[i] = s[i]
    BY <1>0, <1>1
  <2>2. ~(i <= Len(s)) => i - Len(s) \in DOMAIN t /\ u[i] = t[i - Len(s)]
    BY <1>0, <1>1
  <2> QED
    BY <2>1, <2>2 DEF Range
<1>4. Range(u) = Range(s) \cup Range(t)
  <2>1. ASSUME NEW i \in DOMAIN s PROVE s[i] \in Range(u)
    <3>1. i \in 1 .. Len(s) + Len(t) /\ i <= Len(s)
      BY <1>0
    <3> QED
      BY <3>1, <1>1, <1>2 DEF Range
  <2>2. ASSUME NEW i \in DOMAIN t PROVE t[i] \in Range(u)
    <3>1. i + Len(s) \in 1 .. Len(s) + Len(t) /\ ~(i + Len(s) <= Len(s)) /\ (i + Len(s)) - Len(s) = i
      BY <1>0
    <3>2. u[i + Len(s)] = t[i]
      BY <3>1, <1>1
    <3> QED
      BY <3>1, <3>2, <1>2 DEF Range
  <2>3. \A x \in Range(u) : x \in Range(s) \cup Range(t)
    BY <1>2, <1>3 DEF Range
  <2> QED
    BY <2>1, <2>2, <2>3 DEF Range
<1>5. Ordered(u, R)
  <2> SUFFICES ASSUME NEW i \in 1 .. Len(s) + Len(t), NEW j \in 1 .. Len(s) + Len(t), i < j
               PROVE  <<u[i], u[j]>> \in R
    BY <1>2 DEF Ordered
  <2>1. CASE j <= Len(s)
    <3>1. i <= Len(s)
      BY <2>1, <1>0
    <3> QED
      BY <2>1, <3>1, <1>3 DEF Ordered
  <2>2. CASE i <= Len(s) /\ ~(j <= Len(s))
    BY <2>2, <1>3
  <2>3. CASE ~(i <= Len(s)) /\ ~(j <= Len(s))
    <3>1. i - Len(s) < j - Len(s)
      BY <1>0
    <3> QED
      BY <2>3, <3>1, <1>3 DEF Ordered
  <2> QED
    BY <2>1, <2>2, <2>3, <1>0
<1> QED
  BY <1>1, <1>4, <1>5 DEF u

\* The loop over the searched types.
FoundBy(f, types) ==
  /\ f[0] = [status |-> 200, remaining |-> maximumSearchCandidates, ids |-> <<>>]
  /\ \A n \in 1 .. Len(types) : f[n] = collect(f[n - 1], types[n])
  /\ candidates(types) = f[Len(types)]

\* There is such a loop.
LEMMA CandidateLoop ==
  ASSUME NEW types, Len(types) \in Nat
  PROVE  \E f : FoundBy(f, types)
<1> DEFINE start == [status |-> 200, remaining |-> maximumSearchCandidates, ids |-> <<>>]
           step(p, n) == collect(p, types[n])
           Fits(f, m) == f = [n \in 0 .. m |-> IF n = 0 THEN start ELSE step(f[n - 1], n)]
           Good == {m \in Nat : \E f : Fits(f, m)}
           loop == CHOOSE f : Fits(f, Len(types))
<1> HIDE DEF step, start
<1>1. 0 \in Good
  <2>1. Fits([n \in 0 .. 0 |-> start], 0)
    OBVIOUS
  <2> QED
    BY <2>1
<1>2. ASSUME NEW m \in Nat, m \in Good PROVE m + 1 \in Good
  <2>1. PICK f : Fits(f, m)
    BY <1>2
  <2> DEFINE g == [n \in 0 .. m + 1 |-> IF n = m + 1 THEN step(f[m], n) ELSE f[n]]
  <2>2. \A n \in 0 .. m + 1 : g[n] = IF n = 0 THEN start ELSE step(g[n - 1], n)
    BY <2>1
  <2>3. Fits(g, m + 1)
    BY <2>2
  <2> HIDE DEF g
  <2> QED
    BY <2>3
<1>3. \E f : Fits(f, Len(types))
  BY <1>1, <1>2, NatSetInduction
<1>4. Fits(loop, Len(types))
  BY <1>3
<1>5. candidates(types) = loop[Len(types)]
  BY DEF candidates, step, start
<1> HIDE DEF loop
<1>6. loop[0] = start /\ \A n \in 1 .. Len(types) : loop[n] = step(loop[n - 1], n)
  BY <1>4
<1> QED
  BY <1>5, <1>6 DEF step, start, FoundBy

\* What is found after n types: their ids in order, which use up the candidate limit
\* together, or too many of them.
Collected(found, types, n) ==
  /\ found = [status |-> found.status, remaining |-> found.remaining, ids |-> found.ids]
  /\ found.status \in {200, 413}
  /\ found.status = 200 =>
       /\ found.ids \in Seq(live(types, n)) /\ Range(found.ids) = live(types, n)
       /\ found.remaining \in Nat
       /\ Len(found.ids) + found.remaining = maximumSearchCandidates
       /\ Ordered(found.ids, ByType(types))
  /\ found.status = 413 => Cardinality(live(types, n)) > maximumSearchCandidates

\* The types searched so far and the next one share no resource.
LEMMA LiveGrows ==
  ASSUME RecordsInv, NEW T, NEW types \in Seq(T), IsInjective(types),
         NEW n \in Nat, n + 1 <= Len(types)
  PROVE  /\ live(types, n + 1) = live(types, n) \cup ofType(types[n + 1])
         /\ Cardinality(live(types, n + 1))
              = Cardinality(live(types, n)) + Cardinality(ofType(types[n + 1]))
         /\ Cardinality(live(types, n)) \in Nat /\ Cardinality(ofType(types[n + 1])) \in Nat
         /\ \A x \in live(types, n), y \in ofType(types[n + 1]) : <<x, y>> \in ByType(types)
<1> DEFINE A == live(types, n)
           B == ofType(types[n + 1])
<1>0. Len(types) \in Nat /\ DOMAIN types = 1 .. Len(types)
  BY LenProperties
<1>1. live(types, n + 1) = A \cup B
  <2>1. ASSUME NEW i \in DOMAIN records
        PROVE  (\E m \in 1 .. n + 1 : TypeOf[i] = types[m])
                 <=> (\E m \in 1 .. n : TypeOf[i] = types[m]) \/ TypeOf[i] = types[n + 1]
    <3>1. \A m \in 1 .. n + 1 : m \in 1 .. n \/ m = n + 1
      OBVIOUS
    <3>2. n + 1 \in 1 .. n + 1 /\ \A m \in 1 .. n : m \in 1 .. n + 1
      OBVIOUS
    <3> QED
      BY <3>1, <3>2
  <2> QED
    BY <2>1 DEF live, ofType
<1>2. A \cap B = {}
  <2> SUFFICES ASSUME NEW x \in A, x \in B PROVE FALSE
    OBVIOUS
  <2>1. PICK m \in 1 .. n : TypeOf[x] = types[m]
    BY DEF live
  <2>2. TypeOf[x] = types[n + 1]
    BY DEF ofType
  <2>3. m \in DOMAIN types /\ n + 1 \in DOMAIN types /\ m # n + 1
    BY <1>0
  <2> QED
    BY <2>1, <2>2, <2>3 DEF IsInjective
<1>3. /\ IsFiniteSet(A) /\ Cardinality(A) \in Nat
      /\ IsFiniteSet(B) /\ Cardinality(B) \in Nat
  <2>1. A \subseteq DOMAIN records /\ B \subseteq DOMAIN records
    BY DEF live, ofType
  <2> HIDE DEF A, B
  <2> QED
    BY <2>1, LiveFacts
<1>4. ASSUME NEW x \in A, NEW y \in B PROVE <<x, y>> \in ByType(types)
  <2>1. PICK m \in 1 .. n : TypeOf[x] = types[m]
    BY DEF live
  <2>2. x \in DOMAIN records /\ y \in DOMAIN records /\ TypeOf[y] = types[n + 1]
    BY DEF live, ofType
  <2>3. m \in DOMAIN types /\ n + 1 \in DOMAIN types /\ m < n + 1
    BY <1>0
  <2>4. <<x, y>> \in (DOMAIN records) \X (DOMAIN records) /\ <<x, y>>[1] = x /\ <<x, y>>[2] = y
    BY <2>2
  <2> QED
    BY <2>1, <2>2, <2>3, <2>4, Zenon DEF ByType
<1> HIDE DEF A, B
<1>5. Cardinality(A \cup B) = Cardinality(A) + Cardinality(B)
  <2>1. Cardinality(A \cup B) = Cardinality(A) + Cardinality(B) - Cardinality(A \cap B)
    BY <1>3, FS_Union
  <2>2. Cardinality(A \cap B) = 0
    BY <1>2, FS_EmptySet
  <2> QED
    BY <2>1, <2>2, <1>3
<1> QED
  BY <1>1, <1>3, <1>4, <1>5 DEF A, B

\* Ids of one type in their order are in the order by type and id.
LEMMA ByIdWithinType ==
  ASSUME RecordsInv, NEW types, NEW n \in DOMAIN types, NEW s,
         s \in Seq(ofType(types[n])), Ordered(s, byId(ofType(types[n])))
  PROVE  Ordered(s, ByType(types))
<1> DEFINE B == ofType(types[n])
<1>1. ASSUME NEW x \in B, NEW y \in B, <<x, y>> \in byId(B) PROVE <<x, y>> \in ByType(types)
  <2>1. x \in DOMAIN records /\ y \in DOMAIN records /\ TypeOf[x] = types[n] /\ TypeOf[y] = types[n]
    BY DEF ofType
  <2>2. x < y
    BY <1>1 DEF byId
  <2>3. <<x, y>> \in (DOMAIN records) \X (DOMAIN records) /\ <<x, y>>[1] = x /\ <<x, y>>[2] = y
    BY <2>1
  <2> QED
    BY <2>1, <2>2, <2>3, Zenon DEF ByType
<1> HIDE DEF B
<1>2. s \in Seq(B) /\ Ordered(s, byId(B))
  BY DEF B
<1>3. DOMAIN s = 1 .. Len(s) /\ \A i \in 1 .. Len(s) : s[i] \in B
  BY <1>2, LenProperties, ElementOfSeq
<1> QED
  BY <1>1, <1>2, <1>3 DEF Ordered

\* One more type.
LEMMA CollectStep ==
  ASSUME RecordsInv, NEW T, NEW types \in Seq(T), IsInjective(types),
         NEW n \in Nat, n + 1 <= Len(types),
         NEW found, Collected(found, types, n)
  PROVE  Collected(collect(found, types[n + 1]), types, n + 1)
<1> DEFINE type == types[n + 1]
           limit == IF found.remaining = 0 THEN 1 ELSE found.remaining
           listed == List(type, limit)
           next == collect(found, type)
           a == Cardinality(live(types, n))
           b == Cardinality(ofType(type))
<1>0. /\ live(types, n + 1) = live(types, n) \cup ofType(type)
      /\ Cardinality(live(types, n + 1)) = a + b
      /\ a \in Nat /\ b \in Nat
      /\ \A x \in live(types, n), y \in ofType(type) : <<x, y>> \in ByType(types)
  BY LiveGrows
<1>1. maximumSearchCandidates \in Nat /\ n + 1 \in DOMAIN types
  <2>1. Len(types) \in Nat /\ DOMAIN types = 1 .. Len(types)
    BY LenProperties
  <2> QED
    BY <2>1, SearchAssumption
<1>2. CASE found.status # 200
  <2>1. next = found
    BY <1>2 DEF collect
  <2>2. found.status = 413 /\ a > maximumSearchCandidates
    BY <1>2 DEF Collected
  <2>3. Cardinality(live(types, n + 1)) > maximumSearchCandidates
    BY <2>2, <1>0, <1>1
  <2> QED
    BY <2>1, <2>2, <2>3 DEF Collected
<1>3. CASE found.status = 200
  <2>1. /\ found = [status |-> found.status, remaining |-> found.remaining, ids |-> found.ids]
        /\ found.ids \in Seq(live(types, n)) /\ Range(found.ids) = live(types, n)
        /\ found.remaining \in Nat
        /\ Len(found.ids) + found.remaining = maximumSearchCandidates
        /\ Ordered(found.ids, ByType(types))
    BY <1>3 DEF Collected
  <2>2. limit \in Nat \ {0}
    BY <2>1
  <2> HIDE DEF limit
  <2>3. /\ listed.ids \in Seq(ofType(type)) /\ Range(listed.ids) = ofType(type)
        /\ Len(listed.ids) = b
        /\ Ordered(listed.ids, byId(ofType(type)))
        /\ listed.error = IF b > limit THEN "tooMany" ELSE "none"
    BY <2>2, ListFacts
  <2>4. next = CASE listed.error = "invalid" -> [found EXCEPT !.status = 500]
                 [] listed.error = "tooMany" \/ (found.remaining = 0 /\ listed.ids # <<>>)
                      -> [found EXCEPT !.status = 413]
                 [] OTHER -> [status |-> 200, remaining |-> found.remaining - Len(listed.ids),
                              ids |-> found.ids \o listed.ids]
    BY <1>3 DEF collect, limit
  <2> HIDE DEF listed, type
  <2>5. listed.error # "invalid"
    BY <2>3
  <2>6. a = Len(found.ids) /\ Len(found.ids) \in Nat
    <3>1. StrictOrder(ByType(types), live(types, Len(types))) /\ Len(types) \in Nat
      BY ByTypeIsOrder, LenProperties
    <3>2. live(types, n) \subseteq live(types, Len(types))
      BY <3>1 DEF live
    <3>3. StrictOrder(ByType(types), live(types, n))
      BY <3>1, <3>2 DEF StrictOrder
    <3>4. IsInjective(found.ids)
      BY <2>1, <3>3, OrderedIsInjective
    <3> QED
      BY <2>1, <3>4, InjectiveLength, LenProperties
  <2>7. CASE listed.error = "tooMany" \/ (found.remaining = 0 /\ listed.ids # <<>>)
    <3>1. next = [found EXCEPT !.status = 413]
      BY <2>4, <2>5, <2>7
    <3>2. b > found.remaining
      <4>1. CASE listed.error = "tooMany"
        <5>1. b > limit
          BY <4>1, <2>3
        <5> QED
          BY <5>1, <1>0, <2>1 DEF limit
      <4>2. CASE found.remaining = 0 /\ listed.ids # <<>>
        <5>1. Len(listed.ids) # 0
          BY <4>2, <2>3, EmptySeq
        <5> QED
          BY <4>2, <5>1, <2>3, <1>0
      <4> QED
        BY <2>7, <4>1, <4>2
    <3>3. Cardinality(live(types, n + 1)) > maximumSearchCandidates
      BY <3>2, <2>1, <2>6, <1>0, <1>1
    <3>4. next = [status |-> 413, remaining |-> found.remaining, ids |-> found.ids]
      BY <3>1, <2>1
    <3> HIDE DEF next
    <3>5. next.status = 413 /\ next.remaining = found.remaining /\ next.ids = found.ids
      BY <3>4
    <3>6. Collected(next, types, n + 1)
      BY <3>3, <3>4, <3>5 DEF Collected
    <3> QED
      BY <3>6 DEF next, type
  <2>8. CASE ~(listed.error = "tooMany" \/ (found.remaining = 0 /\ listed.ids # <<>>))
    <3> DEFINE ids == found.ids \o listed.ids
               left == found.remaining - Len(listed.ids)
    <3>1. next = [status |-> 200, remaining |-> left, ids |-> ids]
      BY <2>4, <2>5, <2>8
    <3>3. b <= found.remaining
      <4>1. b <= limit
        BY <2>3, <2>8, <2>2, <1>0
      <4>2. CASE found.remaining = 0
        BY <4>2, <2>8, <2>3
      <4>3. CASE found.remaining # 0
        BY <4>1, <4>3 DEF limit
      <4> QED
        BY <4>2, <4>3
    <3>4. /\ ids \in Seq(live(types, n + 1)) /\ Len(ids) = Len(found.ids) + Len(listed.ids)
          /\ Range(ids) = live(types, n + 1)
          /\ Ordered(ids, ByType(types))
      <4>1. Ordered(listed.ids, ByType(types))
        BY <2>3, <1>1, ByIdWithinType DEF type
      <4>2. found.ids \in Seq(live(types, n + 1)) /\ listed.ids \in Seq(live(types, n + 1))
        BY <1>0, <2>1, <2>3, SeqMonotonic
      <4>3. \A x \in Range(found.ids), y \in Range(listed.ids) : <<x, y>> \in ByType(types)
        BY <1>0, <2>1, <2>3
      <4>4. /\ ids \in Seq(live(types, n + 1)) /\ Len(ids) = Len(found.ids) + Len(listed.ids)
            /\ Range(ids) = Range(found.ids) \cup Range(listed.ids)
            /\ Ordered(ids, ByType(types))
        BY <4>1, <4>2, <4>3, <2>1, ConcatOrdered
      <4> QED
        BY <4>4, <1>0, <2>1, <2>3
    <3>5. left \in Nat /\ Len(ids) + left = maximumSearchCandidates
      <4>1. b \in Nat /\ Len(listed.ids) = b
        BY <2>3, <1>0
      <4>2. /\ found.remaining \in Nat /\ Len(found.ids) \in Nat
            /\ Len(found.ids) + found.remaining = maximumSearchCandidates
        BY <2>1, <2>6, <1>0, <1>1
      <4>3. Len(ids) = Len(found.ids) + b /\ left = found.remaining - b
        BY <3>4, <4>1
      <4> HIDE DEF ids, left, b
      <4> QED
        BY <4>1, <4>2, <4>3, <3>3, SMTT(30)
    <3> HIDE DEF ids, left, next
    <3>6. next.status = 200 /\ next.remaining = left /\ next.ids = ids
      BY <3>1
    <3>7. Collected(next, types, n + 1)
      BY <3>1, <3>4, <3>5, <3>6 DEF Collected
    <3> QED
      BY <3>7 DEF next, type
  <2> QED
    BY <2>7, <2>8
<1>4. found.status \in {200, 413}
  BY DEF Collected
<1> QED
  BY <1>2, <1>3

\* All types.
LEMMA CandidatesCollected ==
  ASSUME RecordsInv, NEW T, NEW types \in Seq(T), IsInjective(types)
  PROVE  Collected(candidates(types), types, Len(types))
<1>1. Len(types) \in Nat
  BY LenProperties
<1>2. PICK f : FoundBy(f, types)
  BY <1>1, CandidateLoop
<1>3. /\ f[0] = [status |-> 200, remaining |-> maximumSearchCandidates, ids |-> <<>>]
      /\ \A n \in 1 .. Len(types) : f[n] = collect(f[n - 1], types[n])
      /\ candidates(types) = f[Len(types)]
  BY <1>2 DEF FoundBy
<1> DEFINE Good == {n \in Nat : n <= Len(types) => Collected(f[n], types, n)}
<1>4. 0 \in Good
  <2>1. live(types, 0) = {}
    BY DEF live
  <2>2. /\ f[0].status = 200 /\ f[0].remaining = maximumSearchCandidates /\ f[0].ids = <<>>
    BY <1>3
  <2>3. <<>> \in Seq({}) /\ Len(<<>>) = 0 /\ DOMAIN <<>> = {}
    OBVIOUS
  <2>4. Range(<<>>) = {} /\ Ordered(<<>>, ByType(types))
    BY <2>3 DEF Range, Ordered
  <2>5. maximumSearchCandidates \in Nat /\ 0 + maximumSearchCandidates = maximumSearchCandidates
    BY SearchAssumption
  <2>6. Collected(f[0], types, 0)
    <3>1. f[0] = [status |-> f[0].status, remaining |-> f[0].remaining, ids |-> f[0].ids]
      BY <1>3
    <3>2. /\ f[0].ids \in Seq(live(types, 0)) /\ Range(f[0].ids) = live(types, 0)
          /\ f[0].remaining \in Nat
          /\ Len(f[0].ids) + f[0].remaining = maximumSearchCandidates
          /\ Ordered(f[0].ids, ByType(types))
      BY <2>1, <2>2, <2>3, <2>4, <2>5
    <3> QED
      BY <2>2, <3>1, <3>2 DEF Collected
  <2> QED
    BY <2>6
<1>5. ASSUME NEW n \in Nat, n \in Good PROVE n + 1 \in Good
  <2> SUFFICES ASSUME n + 1 <= Len(types) PROVE Collected(f[n + 1], types, n + 1)
    OBVIOUS
  <2>1. n + 1 \in 1 .. Len(types) /\ (n + 1) - 1 = n /\ n <= Len(types)
    BY <1>1
  <2>2. Collected(f[n], types, n)
    BY <1>5, <2>1
  <2>3. f[n + 1] = collect(f[n], types[n + 1])
    BY <1>3, <2>1
  <2> QED
    BY <2>2, <2>3, CollectStep
<1>6. Len(types) \in Good
  BY <1>1, <1>4, <1>5, NatSetInduction
<1> QED
  BY <1>1, <1>3, <1>6

-----------------------------------------------------------------------------
(* The filter and the order of the matches *)

\* An element behind all others.
LEMMA AppendOrdered ==
  ASSUME NEW S, NEW R, NEW s \in Seq(S), Ordered(s, R), NEW x \in S,
         \A y \in Range(s) : <<y, x>> \in R
  PROVE  /\ Append(s, x) \in Seq(S)
         /\ Range(Append(s, x)) = Range(s) \cup {x}
         /\ Ordered(Append(s, x), R)
<1> DEFINE t == <<x>>
<1>1. t \in Seq(S) /\ DOMAIN t = {1} /\ t[1] = x
  OBVIOUS
<1>2. Range(t) = {x} /\ Ordered(t, R)
  BY <1>1 DEF Range, Ordered
<1>3. Append(s, x) = s \o t
  OBVIOUS
<1> HIDE DEF t
<1> QED
  BY <1>1, <1>2, <1>3, ConcatOrdered

\* The loop of the filter.
KeptBy(f, ids, filter) ==
  /\ f[0] = <<>>
  /\ \A n \in 1 .. Len(ids) : f[n] = IF records[ids[n]] \in filter THEN Append(f[n - 1], ids[n]) ELSE f[n - 1]
  /\ satisfying(ids, filter) = f[Len(ids)]

\* There is such a loop.
LEMMA FilterLoop ==
  ASSUME NEW ids, NEW filter, Len(ids) \in Nat
  PROVE  \E f : KeptBy(f, ids, filter)
<1> DEFINE start == <<>>
           step(p, n) == IF records[ids[n]] \in filter THEN Append(p, ids[n]) ELSE p
           Fits(f, m) == f = [n \in 0 .. m |-> IF n = 0 THEN start ELSE step(f[n - 1], n)]
           Good == {m \in Nat : \E f : Fits(f, m)}
           loop == CHOOSE f : Fits(f, Len(ids))
<1> HIDE DEF step, start
<1>1. 0 \in Good
  <2>1. Fits([n \in 0 .. 0 |-> start], 0)
    OBVIOUS
  <2> QED
    BY <2>1
<1>2. ASSUME NEW m \in Nat, m \in Good PROVE m + 1 \in Good
  <2>1. PICK f : Fits(f, m)
    BY <1>2
  <2> DEFINE g == [n \in 0 .. m + 1 |-> IF n = m + 1 THEN step(f[m], n) ELSE f[n]]
  <2>2. \A n \in 0 .. m + 1 : g[n] = IF n = 0 THEN start ELSE step(g[n - 1], n)
    BY <2>1
  <2>3. Fits(g, m + 1)
    BY <2>2
  <2> HIDE DEF g
  <2> QED
    BY <2>3
<1>3. \E f : Fits(f, Len(ids))
  BY <1>1, <1>2, NatSetInduction
<1>4. Fits(loop, Len(ids))
  BY <1>3
<1>5. satisfying(ids, filter) = loop[Len(ids)]
  BY DEF satisfying, step, start
<1> HIDE DEF loop
<1>6. loop[0] = start /\ \A n \in 1 .. Len(ids) : loop[n] = step(loop[n - 1], n)
  BY <1>4
<1> QED
  BY <1>5, <1>6 DEF step, start, KeptBy

\* The filter keeps the matching candidates, in their order.
LEMMA FilterKeepsOrder ==
  ASSUME NEW S, NEW R, NEW ids \in Seq(S), Range(ids) = S, Ordered(ids, R), NEW filter
  PROVE  LET t == satisfying(ids, filter)  M == {i \in S : records[i] \in filter} IN
         t \in Seq(M) /\ Range(t) = M /\ Ordered(t, R)
<1> DEFINE M == {i \in S : records[i] \in filter}
           upTo(n) == {ids[i] : i \in {k \in 1 .. n : records[ids[k]] \in filter}}
<1>0. DOMAIN ids = 1 .. Len(ids) /\ \A i \in 1 .. Len(ids) : ids[i] \in S
  BY LenProperties, ElementOfSeq
<1>1. Len(ids) \in Nat
  BY LenProperties
<1>2. PICK f : KeptBy(f, ids, filter)
  BY <1>1, FilterLoop
<1>3. /\ f[0] = <<>>
      /\ \A n \in 1 .. Len(ids) :
           f[n] = IF records[ids[n]] \in filter THEN Append(f[n - 1], ids[n]) ELSE f[n - 1]
      /\ satisfying(ids, filter) = f[Len(ids)]
  BY <1>2 DEF KeptBy
<1> DEFINE Kept(n) == f[n] \in Seq(M) /\ Range(f[n]) = upTo(n) /\ Ordered(f[n], R)
           Good == {n \in Nat : n <= Len(ids) => Kept(n)}
<1>4. 0 \in Good
  <2>1. <<>> \in Seq(M) /\ DOMAIN <<>> = {}
    OBVIOUS
  <2>2. Range(<<>>) = {} /\ Ordered(<<>>, R)
    BY <2>1 DEF Range, Ordered
  <2>3. upTo(0) = {}
    OBVIOUS
  <2> HIDE DEF M, upTo
  <2>4. Kept(0)
    BY <1>3, <2>1, <2>2, <2>3
  <2> HIDE DEF Kept
  <2> QED
    BY <2>4
<1>5. ASSUME NEW n \in Nat, n \in Good PROVE n + 1 \in Good
  <2> SUFFICES ASSUME n + 1 <= Len(ids) PROVE Kept(n + 1)
    OBVIOUS
  <2> DEFINE x == ids[n + 1]
  <2>1. n + 1 \in 1 .. Len(ids) /\ (n + 1) - 1 = n /\ n <= Len(ids)
    BY <1>1
  <2>2. Kept(n)
    BY <1>5, <2>1
  <2>3. f[n + 1] = IF records[x] \in filter THEN Append(f[n], x) ELSE f[n]
    BY <1>3, <2>1
  <2>4. upTo(n + 1) = IF records[x] \in filter THEN upTo(n) \cup {x} ELSE upTo(n)
    <3>1. \A i \in 1 .. n + 1 : i \in 1 .. n \/ i = n + 1
      OBVIOUS
    <3>2. n + 1 \in 1 .. n + 1 /\ \A i \in 1 .. n : i \in 1 .. n + 1
      OBVIOUS
    <3>3. CASE records[x] \in filter
      BY <3>1, <3>2, <3>3
    <3>4. CASE records[x] \notin filter
      BY <3>1, <3>2, <3>4
    <3> QED
      BY <3>3, <3>4
  <2>5. CASE records[x] \in filter
    <3>1. x \in M
      BY <2>5, <2>1, <1>0
    <3>2. ASSUME NEW y \in upTo(n) PROVE <<y, x>> \in R
      <4>1. PICK i \in 1 .. n : y = ids[i]
        OBVIOUS
      <4>2. i \in DOMAIN ids /\ n + 1 \in DOMAIN ids /\ i < n + 1
        BY <2>1, <1>0, <1>1
      <4> QED
        BY <4>1, <4>2 DEF Ordered
    <3> HIDE DEF M, upTo, x
    <3>3. /\ Append(f[n], x) \in Seq(M)
          /\ Range(Append(f[n], x)) = Range(f[n]) \cup {x}
          /\ Ordered(Append(f[n], x), R)
      BY <2>2, <3>1, <3>2, AppendOrdered
    <3> QED
      BY <2>2, <2>3, <2>4, <2>5, <3>3
  <2>6. CASE records[x] \notin filter
    <3> HIDE DEF M, upTo, x
    <3> QED
      BY <2>2, <2>3, <2>4, <2>6
  <2> QED
    BY <2>5, <2>6
<1>6. upTo(Len(ids)) = M
  BY <1>0 DEF Range
<1> HIDE DEF Kept
<1>7. Len(ids) \in Good
  BY <1>1, <1>4, <1>5, NatSetInduction
<1>8. Kept(Len(ids))
  BY <1>1, <1>7
<1> HIDE DEF M, upTo
<1>9. LET t == satisfying(ids, filter) IN t \in Seq(M) /\ Range(t) = M /\ Ordered(t, R)
  BY <1>3, <1>6, <1>8 DEF Kept
<1> QED
  BY <1>9 DEF M

\* A stretch of different elements.
LEMMA StretchSize ==
  ASSUME NEW S, NEW s \in Seq(S), IsInjective(s),
         NEW a \in 1 .. Len(s) + 1, NEW b \in 0 .. Len(s), a <= b + 1
  PROVE  Cardinality({s[i] : i \in a .. b}) = b - a + 1
<1> DEFINE T == {s[i] : i \in a .. b}
           g == [i \in a .. b |-> s[i]]
<1>0. Len(s) \in Nat /\ DOMAIN s = 1 .. Len(s)
  BY LenProperties
<1>1. a \in Int /\ b \in Int /\ \A i \in a .. b : i \in DOMAIN s
  BY <1>0
<1>2. g \in Bijection(a .. b, T)
  BY <1>1 DEF Bijection, Injection, Surjection, IsInjective
<1>3. ExistsBijection(a .. b, T)
  BY <1>2 DEF ExistsBijection
<1>4. IsFiniteSet(a .. b) /\ Cardinality(a .. b) = IF a > b THEN 0 ELSE b - a + 1
  BY <1>1, FS_Interval
<1>5. Cardinality(T) = Cardinality(a .. b)
  BY <1>3, <1>4, FS_Bijection
<1>6. Cardinality(a .. b) = b - a + 1
  BY <1>1, <1>4
<1> QED
  BY <1>5, <1>6

Smaller(R, S, e) == {x \in S : <<x, e>> \in R}
Larger(R, S, e)  == {x \in S : <<e, x>> \in R}

\* In an ordered sequence, as many come before an element as its index says.
LEMMA RankOfElement ==
  ASSUME NEW S, NEW R, StrictOrder(R, S), NEW s \in Seq(S), Range(s) = S, Ordered(s, R),
         NEW p \in 1 .. Len(s)
  PROVE  /\ Cardinality(Smaller(R, S, s[p])) = p - 1
         /\ Cardinality(Larger(R, S, s[p])) = Len(s) - p
<1>0. Len(s) \in Nat /\ DOMAIN s = 1 .. Len(s) /\ \A i \in 1 .. Len(s) : s[i] \in S
  BY LenProperties, ElementOfSeq
<1>1. IsInjective(s)
  BY OrderedIsInjective
<1>2. ASSUME NEW i \in 1 .. Len(s)
      PROVE  /\ <<s[i], s[p]>> \in R <=> i < p
             /\ <<s[p], s[i]>> \in R <=> p < i
  <2>1. CASE i < p
    BY <2>1, <1>0 DEF Ordered, StrictOrder
  <2>2. CASE i = p
    BY <2>2, <1>0 DEF StrictOrder
  <2>3. CASE p < i
    BY <2>3, <1>0 DEF Ordered, StrictOrder
  <2> QED
    BY <2>1, <2>2, <2>3, <1>0
<1>3. S = {s[i] : i \in 1 .. Len(s)}
  BY <1>0 DEF Range
<1>4. {x \in S : <<x, s[p]>> \in R} = {s[i] : i \in 1 .. p - 1}
  <2>1. \A i \in 1 .. Len(s) : i < p <=> i \in 1 .. p - 1
    BY <1>0
  <2>2. \A i \in 1 .. p - 1 : i \in 1 .. Len(s)
    BY <1>0
  <2> QED
    BY <2>1, <2>2, <1>2, <1>3
<1>5. {x \in S : <<s[p], x>> \in R} = {s[i] : i \in p + 1 .. Len(s)}
  <2>1. \A i \in 1 .. Len(s) : p < i <=> i \in p + 1 .. Len(s)
    BY <1>0
  <2>2. \A i \in p + 1 .. Len(s) : i \in 1 .. Len(s)
    BY <1>0
  <2> QED
    BY <2>1, <2>2, <1>2, <1>3
<1>6. Cardinality({s[i] : i \in 1 .. p - 1}) = (p - 1) - 1 + 1
  <2>1. 1 \in 1 .. Len(s) + 1 /\ p - 1 \in 0 .. Len(s) /\ 1 <= (p - 1) + 1
    BY <1>0
  <2> QED
    BY <2>1, <1>1, StretchSize
<1>7. Cardinality({s[i] : i \in p + 1 .. Len(s)}) = Len(s) - (p + 1) + 1
  <2>1. p + 1 \in 1 .. Len(s) + 1 /\ Len(s) \in 0 .. Len(s) /\ p + 1 <= Len(s) + 1
    BY <1>0
  <2> QED
    BY <2>1, <1>1, StretchSize
<1>8. (p - 1) - 1 + 1 = p - 1 /\ Len(s) - (p + 1) + 1 = Len(s) - p
  BY <1>0
<1> QED
  BY <1>4, <1>5, <1>6, <1>7, <1>8 DEF Smaller, Larger

\* A request as the decoder leaves it.
Legal(request) ==
  /\ request.types \in Seq(Range(request.types)) /\ IsInjective(request.types)
  /\ request.sorted \in BOOLEAN
  /\ request.order \in {None, "ascending", "descending"}
  /\ request.start \in Int
  /\ request.count = None \/ request.count \in Int

\* The reference order, and its reverse, among the ids in S.
ReferenceOrder(request, S) == {pair \in S \X S : precedes(records, request, pair[1], pair[2])}
ReverseOrder(request, S)   == {pair \in S \X S : precedes(records, request, pair[2], pair[1])}

\* The reference order of a sorted search.
LEMMA PrecedesSorted ==
  ASSUME RecordsInv, NEW request, request.sorted, NEW i \in DOMAIN records, NEW j \in DOMAIN records
  PROVE  precedes(records, request, i, j) <=>
           \/ records[i] # None /\ records[j] = None
           \/ records[i] # None /\ records[j] # None /\ records[i] < records[j]
           \/ records[i] = records[j] /\ i < j
<1> DEFINE unset(k) == IF records[k] = None THEN 1 ELSE 0
           value(k) == IF records[k] = None THEN 0 ELSE records[k]
<1>1. precedes(records, request, i, j) <=>
        \/ unset(i) < unset(j)
        \/ unset(i) = unset(j) /\ value(i) < value(j)
        \/ unset(i) = unset(j) /\ value(i) = value(j) /\ i < j
  BY DEF precedes
<1>2. \A k \in DOMAIN records : records[k] # None => records[k] \in Nat
  BY SearchAssumption DEF RecordsInv
<1>3. CASE records[i] = None /\ records[j] = None
  BY <1>1, <1>3
<1>4. CASE records[i] = None /\ records[j] # None
  BY <1>1, <1>4
<1>5. CASE records[i] # None /\ records[j] = None
  BY <1>1, <1>5
<1>6. CASE records[i] # None /\ records[j] # None
  BY <1>1, <1>2, <1>6
<1> QED
  BY <1>3, <1>4, <1>5, <1>6

\* The reference order of a search without sortBy.
LEMMA PrecedesUnsorted ==
  ASSUME RecordsInv, NEW request, Legal(request), ~request.sorted,
         NEW i \in matching(records, request), NEW j \in matching(records, request)
  PROVE  precedes(records, request, i, j) <=> <<i, j>> \in ByType(request.types)
<1> DEFINE types == request.types
           rank(k) == CHOOSE n \in DOMAIN types : types[n] = TypeOf[k]
<1>1. precedes(records, request, i, j) <=>
        rank(i) < rank(j) \/ (rank(i) = rank(j) /\ i < j) \/ (rank(i) = rank(j) /\ i = j /\ 0 < 0)
  BY DEF precedes
<1>2. ASSUME NEW k \in matching(records, request)
      PROVE  /\ k \in DOMAIN records
             /\ rank(k) \in DOMAIN types /\ TypeOf[k] = types[rank(k)]
             /\ \A n \in DOMAIN types : TypeOf[k] = types[n] => n = rank(k)
  <2>1. k \in DOMAIN records /\ \E n \in DOMAIN types : types[n] = TypeOf[k]
    BY DEF matching, Range
  <2>2. rank(k) \in DOMAIN types /\ types[rank(k)] = TypeOf[k]
    BY <2>1
  <2> HIDE DEF rank
  <2>3. \A n \in DOMAIN types : TypeOf[k] = types[n] => n = rank(k)
    BY <2>2 DEF Legal, IsInjective
  <2> QED
    BY <2>1, <2>2, <2>3
<1>3. DOMAIN types \subseteq Nat
  <2>1. types \in Seq(Range(types))
    BY DEF Legal
  <2> QED
    BY <2>1, LenProperties
<1>4. <<i, j>> \in (DOMAIN records) \X (DOMAIN records) /\ <<i, j>>[1] = i /\ <<i, j>>[2] = j
  BY <1>2
<1> HIDE DEF rank
<1>5. <<i, j>> \in ByType(types) <=> rank(i) < rank(j) \/ (rank(i) = rank(j) /\ i < j)
  <2>1. <<i, j>> \in ByType(types) <=>
          \E m, n \in DOMAIN types : /\ TypeOf[i] = types[m] /\ TypeOf[j] = types[n]
                                     /\ m < n \/ (m = n /\ i < j)
    BY <1>4, Zenon DEF ByType
  <2> HIDE DEF types
  <2> QED
    BY <2>1, <1>2
<1> QED
  BY <1>1, <1>3, <1>5

\* The reference order is one.
LEMMA ReferenceIsOrder ==
  ASSUME RecordsInv, NEW request, Legal(request)
  PROVE  /\ StrictOrder(ReferenceOrder(request, matching(records, request)), matching(records, request))
         /\ StrictOrder(ReverseOrder(request, matching(records, request)), matching(records, request))
<1> DEFINE M == matching(records, request)
<1>1. /\ \A x, y \in M : <<x, y>> \in ReferenceOrder(request, M) <=> precedes(records, request, x, y)
      /\ \A x, y \in M : <<x, y>> \in ReverseOrder(request, M) <=> precedes(records, request, y, x)
  <2>1. ASSUME NEW x \in M, NEW y \in M
        PROVE  <<x, y>> \in M \X M /\ <<x, y>>[1] = x /\ <<x, y>>[2] = y
    OBVIOUS
  <2> HIDE DEF M
  <2> QED
    BY <2>1, Zenon DEF ReferenceOrder, ReverseOrder
<1>2. M \subseteq DOMAIN records /\ M \subseteq Nat
  <2>1. M \subseteq DOMAIN records
    BY DEF matching
  <2> QED
    BY <2>1, LiveFacts
<1>3. /\ \A x, y \in M : precedes(records, request, x, y) => ~precedes(records, request, y, x)
      /\ \A x, y, z \in M : precedes(records, request, x, y) /\ precedes(records, request, y, z) => precedes(records, request, x, z)
      /\ \A x, y \in M : x # y => precedes(records, request, x, y) \/ precedes(records, request, y, x)
  <2>1. CASE request.sorted
    <3> DEFINE v(k) == records[k]
    <3>1. ASSUME NEW x \in M, NEW y \in M
          PROVE  precedes(records, request, x, y) <=>
                   \/ v(x) # None /\ v(y) = None
                   \/ v(x) # None /\ v(y) # None /\ v(x) < v(y)
                   \/ v(x) = v(y) /\ x < y
      BY <2>1, <1>2, PrecedesSorted
    <3>2. \A x \in M : v(x) = None \/ v(x) \in Nat
      BY <1>2, SearchAssumption DEF RecordsInv
    <3> HIDE DEF v, M
    <3>3. ASSUME NEW x \in M, NEW y \in M, precedes(records, request, x, y) PROVE ~precedes(records, request, y, x)
      BY <3>1, <3>2, <3>3, <1>2
    <3>4. ASSUME NEW x \in M, NEW y \in M, NEW z \in M,
                 precedes(records, request, x, y), precedes(records, request, y, z)
          PROVE  precedes(records, request, x, z)
      BY <3>1, <3>2, <3>4, <1>2
    <3>5. ASSUME NEW x \in M, NEW y \in M, x # y
          PROVE  precedes(records, request, x, y) \/ precedes(records, request, y, x)
      BY <3>1, <3>2, <3>5, <1>2
    <3> QED
      BY <3>3, <3>4, <3>5
  <2>2. CASE ~request.sorted
    <3> DEFINE types == request.types
               L == live(types, Len(types))
    <3>1. types \in Seq(Range(types)) /\ IsInjective(types) /\ DOMAIN types = 1 .. Len(types)
      BY LenProperties DEF Legal
    <3>2. StrictOrder(ByType(types), L)
      <4>1. types \in Seq(Range(types)) /\ IsInjective(types)
        BY <3>1
      <4> HIDE DEF types
      <4> QED
        BY <4>1, ByTypeIsOrder
    <3>3. M \subseteq L
      BY <3>1 DEF matching, live, Range
    <3>4. \A x, y \in M : precedes(records, request, x, y) <=> <<x, y>> \in ByType(types)
      BY <2>2, PrecedesUnsorted
    <3> HIDE DEF L, M, types
    <3> QED
      BY <3>2, <3>3, <3>4 DEF StrictOrder
  <2> QED
    BY <2>1, <2>2
<1> HIDE DEF M
<1>4. StrictOrder(ReferenceOrder(request, M), M)
  BY <1>1, <1>3 DEF StrictOrder
<1>5. StrictOrder(ReverseOrder(request, M), M)
  BY <1>1, <1>3 DEF StrictOrder
<1> QED
  BY <1>4, <1>5 DEF M

\* applySearch's comparison agrees with the reference order.
LEMMA ComesBeforeAgrees ==
  ASSUME RecordsInv, NEW request, Legal(request), request.sorted,
         NEW i \in DOMAIN records, NEW j \in DOMAIN records
  PROVE  comesBefore(request.order, i, j) <=>
           IF request.order = "descending" THEN precedes(records, request, j, i) ELSE precedes(records, request, i, j)
<1> DEFINE c == compareSortValues(i, j)
<1>1. /\ i \in Nat /\ j \in Nat
      /\ records[i] # None => records[i] \in Nat
      /\ records[j] # None => records[j] \in Nat
  BY LiveFacts, SearchAssumption DEF RecordsInv
<1>2. /\ c \in Int
      /\ c < 0 <=> \/ records[i] # None /\ records[j] = None
                   \/ records[i] # None /\ records[j] # None /\ records[i] < records[j]
      /\ c > 0 <=> \/ records[j] # None /\ records[i] = None
                   \/ records[j] # None /\ records[i] # None /\ records[j] < records[i]
      /\ c = 0 <=> records[i] = records[j]
  <2>1. CASE records[i] = None /\ records[j] = None
    BY <2>1 DEF compareSortValues
  <2>2. CASE records[i] = None /\ records[j] # None
    <3>1. c = 1
      BY <2>2 DEF compareSortValues
    <3> QED
      BY <2>2, <3>1
  <2>3. CASE records[i] # None /\ records[j] = None
    <3>1. c = -1
      BY <2>3 DEF compareSortValues
    <3> QED
      BY <2>3, <3>1
  <2>4. CASE records[i] # None /\ records[j] # None
    <3>1. c = records[i] - records[j]
      BY <2>4 DEF compareSortValues
    <3> QED
      BY <2>4, <3>1, <1>1
  <2> QED
    BY <2>1, <2>2, <2>3, <2>4
<1>3. comesBefore(request.order, i, j) <=>
        IF request.order = "descending" THEN (IF c = 0 THEN i - j ELSE c) > 0
        ELSE (IF c = 0 THEN i - j ELSE c) < 0
  BY DEF comesBefore
<1> HIDE DEF c
<1>4. precedes(records, request, i, j) <=> c < 0 \/ (c = 0 /\ i < j)
  BY <1>2, PrecedesSorted
<1>5. precedes(records, request, j, i) <=> c > 0 \/ (c = 0 /\ j < i)
  BY <1>2, PrecedesSorted
<1> QED
  BY <1>1, <1>2, <1>3, <1>4, <1>5

\* The order a request asks for.
OrderOf(request, S) ==
  IF request.order = "descending" THEN ReverseOrder(request, S) ELSE ReferenceOrder(request, S)

\* What the pairs of that order are.
LEMMA OrderOfPairs ==
  ASSUME NEW request, NEW S, NEW x \in S, NEW y \in S
  PROVE  <<x, y>> \in OrderOf(request, S) <=>
           IF request.order = "descending" THEN precedes(records, request, y, x) ELSE precedes(records, request, x, y)
<1>1. <<x, y>> \in S \X S /\ <<x, y>>[1] = x /\ <<x, y>>[2] = y
  OBVIOUS
<1>2. <<x, y>> \in ReferenceOrder(request, S) <=> precedes(records, request, x, y)
  BY <1>1, Zenon DEF ReferenceOrder
<1>3. <<x, y>> \in ReverseOrder(request, S) <=> precedes(records, request, y, x)
  BY <1>1, Zenon DEF ReverseOrder
<1> QED
  BY <1>2, <1>3 DEF OrderOf

\* The matches in that order are the reference's.
LEMMA MatchesInOrder ==
  ASSUME RecordsInv, NEW request, Legal(request),
         NEW s \in Seq(matching(records, request)), Range(s) = matching(records, request),
         Ordered(s, OrderOf(request, matching(records, request)))
  PROVE  /\ Len(s) = Cardinality(matching(records, request))
         /\ \A q \in 1 .. Len(s) : position(records, request, s[q]) = q
         /\ inOrder(records, request) = s
<1> DEFINE M == matching(records, request)
           R == OrderOf(request, M)
<1>0. Len(s) \in Nat /\ DOMAIN s = 1 .. Len(s) /\ \A q \in 1 .. Len(s) : s[q] \in M
  BY LenProperties, ElementOfSeq
<1>1. StrictOrder(R, M)
  BY ReferenceIsOrder DEF OrderOf
<1>2. Len(s) = Cardinality(M)
  <2>1. IsInjective(s)
    BY <1>1, OrderedIsInjective
  <2> QED
    BY <2>1, InjectiveLength
<1>3. ASSUME NEW q \in 1 .. Len(s) PROVE position(records, request, s[q]) = q
  <2> DEFINE smaller == {j \in M : precedes(records, request, j, s[q])}
  <2>1. position(records, request, s[q]) = IF request.order = "descending"
                                  THEN Cardinality(M) - Cardinality(smaller)
                                  ELSE Cardinality(smaller) + 1
    BY DEF position
  <2> HIDE DEF M
  <2>2. /\ Cardinality(Smaller(R, M, s[q])) = q - 1
        /\ Cardinality(Larger(R, M, s[q])) = Len(s) - q
    <3>1. s \in Seq(M) /\ Range(s) = M /\ Ordered(s, R)
      BY DEF M
    <3> HIDE DEF R
    <3> QED
      BY <3>1, <1>1, RankOfElement
  <2>3. CASE request.order = "descending"
    <3>1. \A x \in M : <<s[q], x>> \in R <=> precedes(records, request, x, s[q])
      BY <1>0, <2>3, OrderOfPairs
    <3>2. smaller = Larger(R, M, s[q])
      BY <3>1 DEF Larger
    <3>3. Cardinality(smaller) = Len(s) - q
      BY <3>2, <2>2
    <3> QED
      BY <3>3, <2>1, <2>3, <1>0, <1>2
  <2>4. CASE request.order # "descending"
    <3>1. \A x \in M : <<x, s[q]>> \in R <=> precedes(records, request, x, s[q])
      BY <1>0, <2>4, OrderOfPairs
    <3>2. smaller = Smaller(R, M, s[q])
      BY <3>1 DEF Smaller
    <3>3. Cardinality(smaller) = q - 1
      BY <3>2, <2>2
    <3> QED
      BY <3>3, <2>1, <2>4, <1>0
  <2> QED
    BY <2>3, <2>4
<1>4. inOrder(records, request) = [q \in 1 .. Cardinality(M) |-> CHOOSE i \in M : position(records, request, i) = q]
  BY DEF inOrder
<1>5. s = [q \in 1 .. Len(s) |-> s[q]]
  BY LenProperties
<1>6. Range(s) = M
  OBVIOUS
<1> HIDE DEF M, R
<1>7. ASSUME NEW q \in 1 .. Len(s) PROVE (CHOOSE i \in M : position(records, request, i) = q) = s[q]
  <2>1. s[q] \in M /\ position(records, request, s[q]) = q
    BY <1>0, <1>3
  <2>2. ASSUME NEW i \in M, position(records, request, i) = q PROVE i = s[q]
    <3>1. PICK k \in 1 .. Len(s) : i = s[k]
      BY <1>0, <1>6 DEF Range
    <3> QED
      BY <3>1, <2>2, <1>3
  <2> QED
    BY <2>1, <2>2
<1>8. inOrder(records, request) = s
  BY <1>2, <1>4, <1>5, <1>7
<1> QED
  BY <1>2, <1>3, <1>8 DEF M

\* The smaller of two numbers.
LEMMA MinOfTwo ==
  ASSUME NEW a \in Int, NEW b \in Int
  PROVE  Min({a, b}) = IF a <= b THEN a ELSE b
<1>1. \E x \in {a, b} : \A y \in {a, b} : x <= y
  OBVIOUS
<1> QED
  BY <1>1 DEF Min

\* The larger of two numbers.
LEMMA MaxOfTwo ==
  ASSUME NEW a \in Int, NEW b \in Int
  PROVE  Max({a, b}) = IF a >= b THEN a ELSE b
<1>1. \E x \in {a, b} : \A y \in {a, b} : x >= y
  OBVIOUS
<1> QED
  BY <1>1 DEF Max

\* What compileSearch makes of start and count.
LEMMA PlanFacts ==
  ASSUME NEW request, Legal(request)
  PROVE  /\ compileSearch(request).start = begun(request)
         /\ begun(request) \in Nat \ {0}
         /\ compileSearch(request).count \in Nat
         /\ compileSearch(request).count = 0 <=> request.count # None /\ request.count <= 0
<1> DEFINE c == compileSearch(request).count
<1>1. compileSearch(request).start = begun(request) /\ begun(request) \in Nat \ {0}
  BY DEF compileSearch, begun, Legal
<1>2. c = IF request.count = None THEN maximumPageSize
          ELSE Min({Max({request.count, 0}), maximumPageSize})
  BY DEF compileSearch, parseSearchCount
<1>3. maximumPageSize \in Nat \ {0}
  BY SearchAssumption
<1> HIDE DEF c
<1>4. ASSUME request.count = None
      PROVE  c \in Nat /\ c # 0
  BY <1>2, <1>3, <1>4
<1>5. ASSUME request.count # None
      PROVE  c \in Nat /\ (c = 0 <=> request.count <= 0)
  <2>1. request.count \in Int
    BY <1>5 DEF Legal
  <2> DEFINE m == Max({request.count, 0})
  <2>2. m = IF request.count >= 0 THEN request.count ELSE 0
    BY <2>1, MaxOfTwo
  <2>3. c = Min({m, maximumPageSize})
    BY <1>2, <1>5
  <2> HIDE DEF m
  <2>4. c = IF m <= maximumPageSize THEN m ELSE maximumPageSize
    BY <2>1, <2>2, <2>3, <1>3, MinOfTwo
  <2> QED
    BY <2>1, <2>2, <2>4, <1>3, <1>5
<1> QED
  BY <1>1, <1>4, <1>5 DEF c

\* The stretch of the matches that a page shows.
pageBegin(request) ==
  LET n == Cardinality(matching(records, request)) IN
  IF begun(request) - 1 <= n THEN begun(request) - 1 ELSE n

pageEnd(request) ==
  LET n == Cardinality(matching(records, request))
      e == pageBegin(request) + compileSearch(request).count
  IN  IF e <= n THEN e ELSE n

\* The filtered and sorted candidates are the matches in the order asked for.
LEMMA CandidatesInOrder ==
  ASSUME RecordsInv, NEW request, Legal(request), ~refused(request),
         candidates(request.types).status = 200
  PROVE  LET filtered == satisfying(candidates(request.types).ids, request.filter)
             before == {pair \in Range(filtered) \X Range(filtered) :
                          comesBefore(request.order, pair[1], pair[2])}
             ordered == IF request.sorted THEN stableSort(filtered, before) ELSE filtered
         IN  /\ Len(filtered) = Cardinality(matching(records, request))
             /\ ordered \in Seq(matching(records, request)) /\ Range(ordered) = matching(records, request)
             /\ Ordered(ordered, OrderOf(request, matching(records, request)))
<1> DEFINE types == request.types
           ids == candidates(types).ids
           L == live(types, Len(types))
           M == matching(records, request)
           R == OrderOf(request, M)
           filtered == satisfying(ids, request.filter)
           before == {pair \in M \X M : comesBefore(request.order, pair[1], pair[2])}
<1>1. /\ types \in Seq(Range(types)) /\ IsInjective(types)
      /\ Len(types) \in Nat /\ DOMAIN types = 1 .. Len(types)
  BY LenProperties DEF Legal
<1>2. ids \in Seq(L) /\ Range(ids) = L /\ Ordered(ids, ByType(types)) /\ StrictOrder(ByType(types), L)
  <2>1. types \in Seq(Range(types)) /\ IsInjective(types) /\ candidates(types).status = 200
    BY <1>1
  <2> HIDE DEF types
  <2>2. Collected(candidates(types), types, Len(types))
    BY <2>1, CandidatesCollected
  <2> QED
    BY <2>1, <2>2, ByTypeIsOrder DEF Collected
<1>3. M = {i \in L : records[i] \in request.filter}
  <2>1. Range(types) = {types[m] : m \in 1 .. Len(types)}
    BY <1>1 DEF Range
  <2>2. L = {i \in DOMAIN records : TypeOf[i] \in Range(types)}
    BY <2>1 DEF live
  <2>3. M = {i \in DOMAIN records : TypeOf[i] \in Range(types) /\ records[i] \in request.filter}
    BY DEF matching
  <2> HIDE DEF M, L, types
  <2> QED
    BY <2>2, <2>3
<1>4. filtered \in Seq(M) /\ Range(filtered) = M /\ Ordered(filtered, ByType(types))
  <2> DEFINE F == {i \in L : records[i] \in request.filter}
             filter == request.filter
             order == ByType(types)
  <2>1. filtered \in Seq(F) /\ Range(filtered) = F /\ Ordered(filtered, ByType(types))
    <3>1. ids \in Seq(L) /\ Range(ids) = L /\ Ordered(ids, order)
      BY <1>2
    <3> HIDE DEF L, ids, types, filter, order
    <3>2. LET t == satisfying(ids, filter)  S == {i \in L : records[i] \in filter} IN
          t \in Seq(S) /\ Range(t) = S /\ Ordered(t, order)
      BY <3>1, FilterKeepsOrder
    <3> QED
      BY <3>2 DEF filter, order
  <2> HIDE DEF F, M
  <2>2. M = F
    BY <1>3 DEF F
  <2> QED
    BY <2>1, <2>2
<1>5. StrictOrder(ByType(types), M)
  BY <1>2, <1>3 DEF StrictOrder
<1>6. IsInjective(filtered)
  <2> HIDE DEF M, filtered, types
  <2> QED
    BY <1>4, <1>5, OrderedIsInjective
<1>7. Len(filtered) = Cardinality(M)
  <2> HIDE DEF M, filtered
  <2> QED
    BY <1>4, <1>6, InjectiveLength
<1>8. StrictOrder(R, M)
  BY ReferenceIsOrder DEF OrderOf
<1>9. ASSUME ~request.sorted PROVE Ordered(filtered, R)
  <2>1. request.order # "descending"
    BY <1>9, SearchAssumption DEF refused
  <2>2. ASSUME NEW x \in M, NEW y \in M, <<x, y>> \in ByType(types) PROVE <<x, y>> \in R
    <3>1. precedes(records, request, x, y)
      BY <1>9, <2>2, PrecedesUnsorted
    <3> QED
      BY <3>1, <2>1, OrderOfPairs
  <2> HIDE DEF M, R, filtered, types
  <2>3. DOMAIN filtered = 1 .. Len(filtered) /\ \A i \in 1 .. Len(filtered) : filtered[i] \in M
    BY <1>4, LenProperties, ElementOfSeq
  <2> QED
    BY <2>2, <2>3, <1>4 DEF Ordered
<1>10. ASSUME request.sorted
       PROVE  LET ordered == stableSort(filtered, before) IN
              ordered \in Seq(M) /\ Range(ordered) = M /\ Ordered(ordered, R)
  <2>1. ASSUME NEW x \in M, NEW y \in M PROVE <<x, y>> \in before <=> <<x, y>> \in R
    <3>1. x \in DOMAIN records /\ y \in DOMAIN records
      BY DEF matching
    <3>2. comesBefore(request.order, x, y) <=> <<x, y>> \in R
      BY <1>10, <3>1, ComesBeforeAgrees, OrderOfPairs
    <3>3. <<x, y>> \in M \X M /\ <<x, y>>[1] = x /\ <<x, y>>[2] = y
      OBVIOUS
    <3> HIDE DEF M, R
    <3>4. <<x, y>> \in before <=> comesBefore(request.order, x, y)
      BY <3>3, Zenon
    <3> QED
      BY <3>2, <3>4
  <2> HIDE DEF M, R, filtered, before
  <2>2. StrictOrder(before, M)
    BY <2>1, <1>8 DEF StrictOrder
  <2> DEFINE ordered == stableSort(filtered, before)
  <2>3. ordered \in Seq(M) /\ Range(ordered) = Range(filtered) /\ Ordered(ordered, before)
    BY <2>2, <1>4, <1>6, StableSortSorts
  <2> HIDE DEF ordered
  <2>4. DOMAIN ordered = 1 .. Len(ordered) /\ \A i \in 1 .. Len(ordered) : ordered[i] \in M
    BY <2>3, LenProperties, ElementOfSeq
  <2>5. Ordered(ordered, R)
    BY <2>1, <2>3, <2>4 DEF Ordered
  <2> QED
    BY <2>3, <2>5, <1>4 DEF ordered
<1> HIDE DEF M, R, filtered
<1>11. LET ordered == IF request.sorted THEN stableSort(filtered, before) ELSE filtered
       IN  ordered \in Seq(M) /\ Range(ordered) = M /\ Ordered(ordered, R)
  BY <1>4, <1>9, <1>10
<1>12. before = {pair \in Range(filtered) \X Range(filtered) :
                   comesBefore(request.order, pair[1], pair[2])}
  BY <1>4
<1> HIDE DEF before
<1> QED
  BY <1>7, <1>11, <1>12 DEF M, R, filtered, ids, types

-----------------------------------------------------------------------------
(* A page *)

searched(request) == {i \in DOMAIN records : TypeOf[i] \in Range(request.types)}

\* The reference list holds each match at its position.
Listed(request) ==
  LET n == Cardinality(matching(records, request)) IN
  /\ n \in Nat
  /\ inOrder(records, request) \in Seq(matching(records, request))
  /\ Len(inOrder(records, request)) = n
  /\ \A q \in 1 .. n : position(records, request, inOrder(records, request)[q]) = q
  /\ \A i \in matching(records, request) : \E q \in 1 .. n : inOrder(records, request)[q] = i

\* What a search answers.
LEMMA SearchAnswer ==
  ASSUME RecordsInv, NEW request, Legal(request)
  PROVE  /\ refused(request) =>
              executeSearch(request) = [status |-> 400, total |-> 0, resources |-> <<>>]
         /\ ~refused(request) /\ Cardinality(searched(request)) > maximumSearchCandidates =>
              executeSearch(request) = [status |-> 413, total |-> 0, resources |-> <<>>]
         /\ /\ ~refused(request) /\ ~(Cardinality(searched(request)) > maximumSearchCandidates)
            /\ searched(request) \cap broken # {}
            => executeSearch(request) = [status |-> 500, total |-> 0, resources |-> <<>>]
         /\ /\ ~refused(request) /\ ~(Cardinality(searched(request)) > maximumSearchCandidates)
            /\ searched(request) \cap broken = {}
            => /\ Listed(request)
               /\ executeSearch(request) =
                    [status |-> 200, total |-> Cardinality(matching(records, request)),
                     resources |-> SubSeq(inOrder(records, request), pageBegin(request) + 1, pageEnd(request))]
<1> DEFINE types == request.types
           found == candidates(types)
<1>1. /\ types \in Seq(Range(types)) /\ IsInjective(types)
      /\ Len(types) \in Nat /\ DOMAIN types = 1 .. Len(types)
  BY LenProperties DEF Legal
<1>2. searched(request) = live(types, Len(types))
  BY <1>1 DEF searched, live, Range
<1>3. Collected(found, types, Len(types))
  <2> HIDE DEF types
  <2> QED
    BY <1>1, CandidatesCollected
<1>4. /\ found.status \in {200, 413}
      /\ found.status = 413 => Cardinality(searched(request)) > maximumSearchCandidates
  BY <1>2, <1>3 DEF Collected
<1>5. ASSUME found.status = 200 PROVE ~(Cardinality(searched(request)) > maximumSearchCandidates)
  <2> DEFINE L == live(types, Len(types))
  <2>1. /\ found.ids \in Seq(L) /\ Range(found.ids) = L
        /\ found.remaining \in Nat
        /\ Len(found.ids) + found.remaining = maximumSearchCandidates
        /\ Ordered(found.ids, ByType(types))
    BY <1>3, <1>5 DEF Collected
  <2>2. StrictOrder(ByType(types), L)
    <3> HIDE DEF types
    <3> QED
      BY <1>1, ByTypeIsOrder
  <2> HIDE DEF L, found, types
  <2>3. Cardinality(L) = Len(found.ids) /\ Len(found.ids) \in Nat
    BY <2>1, <2>2, OrderedIsInjective, InjectiveLength, LenProperties
  <2> QED
    BY <2>1, <2>3, <1>2 DEF L
<1>6. executeSearch(request) =
        IF refused(request) THEN [status |-> 400, total |-> 0, resources |-> <<>>]
        ELSE IF found.status # 200 THEN [status |-> found.status, total |-> 0, resources |-> <<>>]
        ELSE IF Range(found.ids) \cap broken # {} THEN [status |-> 500, total |-> 0, resources |-> <<>>]
        ELSE applySearch(request, compileSearch(request), found.ids)
  BY DEF executeSearch
<1>7. ASSUME ~refused(request), found.status = 200
      PROVE  /\ Listed(request)
             /\ applySearch(request, compileSearch(request), found.ids) =
                  [status |-> 200, total |-> Cardinality(matching(records, request)),
                   resources |-> SubSeq(inOrder(records, request), pageBegin(request) + 1, pageEnd(request))]
  <2> DEFINE M == matching(records, request)
             n == Cardinality(M)
             filtered == satisfying(found.ids, request.filter)
             before == {pair \in Range(filtered) \X Range(filtered) :
                          comesBefore(request.order, pair[1], pair[2])}
             ordered == IF request.sorted THEN stableSort(filtered, before) ELSE filtered
             plan == compileSearch(request)
             begin == Min({plan.start - 1, Len(filtered)})
             end == Min({begin + plan.count, Len(filtered)})
  <2>1. /\ Len(filtered) = n
        /\ ordered \in Seq(M) /\ Range(ordered) = M
        /\ Ordered(ordered, OrderOf(request, M))
    BY <1>7, CandidatesInOrder
  <2>2. applySearch(request, plan, found.ids) =
          [status |-> 200, total |-> Len(filtered), resources |-> SubSeq(ordered, begin + 1, end)]
    BY DEF applySearch
  <2> HIDE DEF filtered, before, ordered
  <2>3. /\ Len(ordered) = n /\ inOrder(records, request) = ordered
        /\ \A q \in 1 .. Len(ordered) : position(records, request, ordered[q]) = q
    BY <2>1, MatchesInOrder
  <2>4. Len(ordered) \in Nat /\ DOMAIN ordered = 1 .. Len(ordered)
    <3> HIDE DEF M
    <3> QED
      BY <2>1, LenProperties
  <2>5. Listed(request)
    <3> HIDE DEF M
    <3>1. \A i \in M : \E q \in 1 .. n : ordered[q] = i
      BY <2>1, <2>3, <2>4 DEF Range
    <3> QED
      BY <2>1, <2>3, <2>4, <3>1 DEF Listed, M
  <2>6. begin = pageBegin(request) /\ end = pageEnd(request)
    <3>1. /\ plan.start = begun(request) /\ begun(request) \in Nat \ {0}
          /\ plan.count \in Nat
      BY PlanFacts
    <3>2. n \in Nat
      BY <2>3, <2>4
    <3> HIDE DEF plan, n
    <3>3. begin = IF begun(request) - 1 <= n THEN begun(request) - 1 ELSE n
      BY <2>1, <3>1, <3>2, MinOfTwo
    <3>4. begin = pageBegin(request)
      BY <3>3 DEF pageBegin, n
    <3>5. begin \in Int
      BY <3>1, <3>2, <3>3
    <3> HIDE DEF begin
    <3>6. end = IF begin + plan.count <= n THEN begin + plan.count ELSE n
      BY <2>1, <3>1, <3>2, <3>5, MinOfTwo
    <3> QED
      BY <3>4, <3>6 DEF pageEnd, n, plan
  <2> HIDE DEF begin, end
  <2> QED
    BY <2>1, <2>2, <2>3, <2>5, <2>6
<1>8. found.status = 200 => Range(found.ids) = searched(request)
  BY <1>2, <1>3 DEF Collected
<1> HIDE DEF found
<1>9. CASE refused(request)
  <2>1. executeSearch(request) = [status |-> 400, total |-> 0, resources |-> <<>>]
    BY <1>6, <1>9
  <2> QED
    BY <2>1, <1>9
<1>10. CASE ~refused(request) /\ found.status = 413
  <2>1. found.status # 200
    BY <1>10
  <2>2. executeSearch(request) = [status |-> found.status, total |-> 0, resources |-> <<>>]
    BY <2>1, <1>6, <1>10
  <2>3. executeSearch(request) = [status |-> 413, total |-> 0, resources |-> <<>>]
    BY <2>2, <1>10
  <2> QED
    BY <2>3, <1>4, <1>10
<1>11. CASE ~refused(request) /\ found.status = 200
  <2>1. ~(Cardinality(searched(request)) > maximumSearchCandidates)
    BY <1>5, <1>11
  <2>2. CASE searched(request) \cap broken # {}
    BY <2>1, <2>2, <1>6, <1>8, <1>11
  <2>3. CASE searched(request) \cap broken = {}
    <3>1. executeSearch(request) = applySearch(request, compileSearch(request), found.ids)
      BY <2>3, <1>6, <1>8, <1>11
    <3> QED
      BY <3>1, <2>1, <2>3, <1>7, <1>11
  <2> QED
    BY <2>2, <2>3
<1> QED
  BY <1>4, <1>9, <1>10, <1>11

\* A request of a walk, with another start.
LEMMA AnotherStart ==
  ASSUME NEW request \in Requests, NEW start \in Int
  PROVE  LET sent == [request EXCEPT !.start = start] IN
         /\ Legal(request) /\ Legal(sent)
         /\ sent.start = start
         /\ matching(records, sent) = matching(records, request)
         /\ searched(sent) = searched(request)
         /\ inOrder(records, sent) = inOrder(records, request)
         /\ refused(sent) <=> refused(request)
         /\ compileSearch(sent).count = compileSearch(request).count
         /\ Listed(sent) => Listed(request)
<1> DEFINE sent == [request EXCEPT !.start = start]
<1>1. /\ DOMAIN request = {"types", "filter", "sorted", "order", "start", "count"}
      /\ Legal(request)
  BY RequestAssumption DEF Legal
<1>2. /\ sent.types = request.types /\ sent.filter = request.filter /\ sent.sorted = request.sorted
      /\ sent.order = request.order /\ sent.count = request.count /\ sent.start = start
  BY <1>1
<1> HIDE DEF sent
<1>3. Legal(sent)
  BY <1>1, <1>2 DEF Legal
<1>4. matching(records, sent) = matching(records, request) /\ searched(sent) = searched(request)
  BY <1>2 DEF matching, searched
<1>5. \A i, j : precedes(records, sent, i, j) <=> precedes(records, request, i, j)
  BY <1>2 DEF precedes
<1>6. \A i : position(records, sent, i) = position(records, request, i)
  BY <1>2, <1>4, <1>5 DEF position
<1>7. inOrder(records, sent) = inOrder(records, request)
  BY <1>4, <1>6 DEF inOrder
<1>8. Listed(sent) => Listed(request)
  BY <1>4, <1>6, <1>7 DEF Listed
<1>9. (refused(sent) <=> refused(request)) /\ compileSearch(sent).count = compileSearch(request).count
  BY <1>2 DEF refused, compileSearch
<1> QED
  BY <1>1, <1>2, <1>3, <1>4, <1>7, <1>8, <1>9 DEF sent

\* The page a walk is about to get: where it begins and ends, and what is on it.
matches(w)  == Cardinality(matching(records, w.request))
begins(w)   == IF reached(w) <= matches(w) THEN reached(w) ELSE matches(w)
ends(w)     == LET e == begins(w) + compileSearch(w.request).count IN IF e <= matches(w) THEN e ELSE matches(w)
shown(w)    == SubSeq(inOrder(records, w.request), begins(w) + 1, ends(w))

\* The two outcomes of a page.
PageFails(w, v) == v.status \in {400, 413, 500} /\ v.seen = w.seen /\ v.ended

PageArrives(w, v) ==
  /\ v.status = 200
  /\ Listed(w.request)
  /\ v.seen = w.seen \o shown(w)
  /\ v.ended <=> shown(w) = <<>> \/ reached(w) + Len(shown(w)) >= matches(w)

\* A page fails or arrives, and nothing else changes.
LEMMA PageOutcome ==
  ASSUME RecordsInv, WalkType(walk), Page
  PROVE  /\ walk' = [f \in {"request", "status", "ended", "seen", "first", "writes", "made"} |-> walk'[f]]
         /\ walk'.request = walk.request /\ walk'.first = walk.first
         /\ walk'.writes = walk.writes
         /\ walk'.ended \in BOOLEAN
         /\ PageFails(walk, walk') \/ PageArrives(walk, walk')
         /\ ~refused(walk.request) =>
              /\ walk'.status = 413 <=> Cardinality(searched(walk.request)) > maximumSearchCandidates
              /\ walk'.status = 500 <=>
                   /\ ~(Cardinality(searched(walk.request)) > maximumSearchCandidates)
                   /\ searched(walk.request) \cap broken # {}
<1> DEFINE request == walk.request
           start == compileSearch(request).start + Len(walk.seen)
           x == IF walk.seen = <<>> THEN request.start ELSE start
           sent == [request EXCEPT !.start = x]
           answer == executeSearch(sent)
<1>1. /\ DOMAIN walk = {"request", "status", "ended", "seen", "first", "writes", "made"}
      /\ request \in Requests /\ walk.seen \in Seq(Ids) /\ Len(walk.seen) \in Nat
      /\ walk.seen = <<>> <=> Len(walk.seen) = 0
  BY LenProperties, EmptySeq DEF WalkType
<1>2. Legal(request)
  BY <1>1, RequestAssumption DEF Legal
<1>3. /\ start = begun(request) + Len(walk.seen) /\ start \in Nat \ {0}
      /\ x \in Int /\ (IF x < 1 THEN 1 ELSE x) = start
  <2>1. compileSearch(request).start = begun(request) /\ begun(request) \in Nat \ {0}
    BY <1>2, PlanFacts
  <2>2. request.start \in Int /\ begun(request) = IF request.start < 1 THEN 1 ELSE request.start
    BY <1>2 DEF Legal, begun
  <2>3. start = begun(request) + Len(walk.seen) /\ start \in Nat \ {0}
    BY <2>1, <1>1
  <2>4. CASE walk.seen = <<>>
    BY <2>1, <2>2, <2>3, <2>4, <1>1
  <2>5. CASE walk.seen # <<>>
    BY <2>3, <2>5
  <2> QED
    BY <2>3, <2>4, <2>5
<1>4. walk' = [walk EXCEPT !.status = answer.status, !.seen = walk.seen \o answer.resources,
                 !.ended = \/ answer.resources = <<>>
                           \/ start - 1 + Len(answer.resources) >= answer.total]
  BY DEF Page
<1>5. /\ walk'.status = answer.status /\ walk'.seen = walk.seen \o answer.resources
      /\ walk'.ended = (answer.resources = <<>> \/ start - 1 + Len(answer.resources) >= answer.total)
      /\ walk'.request = request /\ walk'.first = walk.first /\ walk'.writes = walk.writes
      /\ walk' = [f \in {"request", "status", "ended", "seen", "first", "writes", "made"} |-> walk'[f]]
  <2> HIDE DEF answer, start
  <2> QED
    BY <1>1, <1>4
<1> HIDE DEF start, x
<1>6. /\ Legal(sent) /\ sent.start = x
      /\ matching(records, sent) = matching(records, request)
      /\ searched(sent) = searched(request)
      /\ inOrder(records, sent) = inOrder(records, request)
      /\ refused(sent) <=> refused(request)
      /\ compileSearch(sent).count = compileSearch(request).count
      /\ Listed(sent) => Listed(request)
  BY <1>1, <1>3, AnotherStart
<1> HIDE DEF sent
<1>7. begun(sent) - 1 = reached(walk) /\ start - 1 = reached(walk)
  <2>1. begun(sent) = start
    BY <1>3, <1>6 DEF begun
  <2>2. begun(request) \in Nat /\ start - 1 = begun(request) - 1 + Len(walk.seen)
    <3>1. begun(request) \in Nat \ {0}
      BY <1>2, PlanFacts
    <3> QED
      BY <3>1, <1>1, <1>3
  <2> QED
    BY <2>1, <2>2 DEF reached
<1>8. pageBegin(sent) = begins(walk)
  BY <1>6, <1>7 DEF pageBegin, begins, matches
<1>9. pageEnd(sent) = ends(walk)
  BY <1>6, <1>8 DEF pageEnd, ends, matches
<1>10. walk.seen \o <<>> = walk.seen
  BY <1>1, ConcatEmptySeq
<1>11. CASE refused(request)
  <2>1. answer = [status |-> 400, total |-> 0, resources |-> <<>>]
    BY <1>6, <1>11, SearchAnswer
  <2> HIDE DEF answer
  <2>2. answer.status = 400 /\ answer.resources = <<>>
    BY <2>1
  <2>3. walk'.status = 400 /\ walk'.seen = walk.seen
    BY <2>2, <1>5, <1>10
  <2>4. walk'.ended = TRUE
    BY <2>2, <1>5, Zenon
  <2>5. PageFails(walk, walk')
    BY <2>3, <2>4 DEF PageFails
  <2>6. walk'.ended \in BOOLEAN
    BY <2>4
  <2> QED
    BY <2>3, <2>5, <2>6, <1>5, <1>11
<1>12. CASE ~refused(request) /\ Cardinality(searched(request)) > maximumSearchCandidates
  <2>1. answer = [status |-> 413, total |-> 0, resources |-> <<>>]
    BY <1>6, <1>12, SearchAnswer
  <2> HIDE DEF answer
  <2>2. answer.status = 413 /\ answer.resources = <<>>
    BY <2>1
  <2>3. walk'.status = 413 /\ walk'.seen = walk.seen
    BY <2>2, <1>5, <1>10
  <2>4. walk'.ended = TRUE
    BY <2>2, <1>5, Zenon
  <2>5. PageFails(walk, walk')
    BY <2>3, <2>4 DEF PageFails
  <2>6. walk'.ended \in BOOLEAN
    BY <2>4
  <2> QED
    BY <2>3, <2>5, <2>6, <1>5, <1>12
<1>13. CASE /\ ~refused(request) /\ ~(Cardinality(searched(request)) > maximumSearchCandidates)
            /\ searched(request) \cap broken # {}
  <2>1. answer = [status |-> 500, total |-> 0, resources |-> <<>>]
    BY <1>6, <1>13, SearchAnswer
  <2> HIDE DEF answer
  <2>2. answer.status = 500 /\ answer.resources = <<>>
    BY <2>1
  <2>3. walk'.status = 500 /\ walk'.seen = walk.seen
    BY <2>2, <1>5, <1>10
  <2>4. walk'.ended = TRUE
    BY <2>2, <1>5, Zenon
  <2>5. PageFails(walk, walk')
    BY <2>3, <2>4 DEF PageFails
  <2>6. walk'.ended \in BOOLEAN
    BY <2>4
  <2> QED
    BY <2>3, <2>5, <2>6, <1>5, <1>13
<1>14. CASE /\ ~refused(request) /\ ~(Cardinality(searched(request)) > maximumSearchCandidates)
            /\ searched(request) \cap broken = {}
  <2>1. /\ Listed(request)
        /\ answer = [status |-> 200, total |-> matches(walk), resources |-> shown(walk)]
    BY <1>6, <1>8, <1>9, <1>14, SearchAnswer DEF matches, shown
  <2> HIDE DEF answer
  <2>2. answer.status = 200 /\ answer.total = matches(walk) /\ answer.resources = shown(walk)
    BY <2>1
  <2>3. walk'.ended = (shown(walk) = <<>> \/ reached(walk) + Len(shown(walk)) >= matches(walk))
    BY <2>2, <1>5, <1>7
  <2>4. walk'.status = 200 /\ walk'.seen = walk.seen \o shown(walk)
    BY <2>2, <1>5
  <2>5. PageArrives(walk, walk')
    BY <2>1, <2>3, <2>4, Zenon DEF PageArrives
  <2> QED
    BY <2>3, <2>4, <2>5, <1>5, <1>14
<1> QED
  BY <1>11, <1>12, <1>14, <1>13

\* What is on a page that arrives.
LEMMA ShownFacts ==
  ASSUME RecordsInv, NEW w, WalkType(w), Listed(w.request)
  PROVE  /\ matches(w) \in Nat /\ reached(w) \in Nat /\ begun(w.request) \in Nat \ {0}
         /\ reached(w) = begun(w.request) - 1 + Len(w.seen) /\ Len(w.seen) \in Nat
         /\ begins(w) \in Nat /\ ends(w) \in Nat
         /\ begins(w) <= ends(w) /\ ends(w) <= matches(w) /\ begins(w) <= reached(w)
         /\ shown(w) \in Seq(matching(records, w.request)) /\ shown(w) \in Seq(Ids)
         /\ Len(shown(w)) = ends(w) - begins(w)
         /\ \A k \in 1 .. Len(shown(w)) : shown(w)[k] = inOrder(records, w.request)[begins(w) + k]
         /\ Len(shown(w)) # 0 => begins(w) = reached(w)
         /\ wantsNone(w.request) => Len(shown(w)) = 0
         /\ ~wantsNone(w.request) /\ Len(shown(w)) = 0 => matches(w) <= reached(w)
<1> DEFINE request == w.request
           M == matching(records, request)
           n == matches(w)
           b == begins(w)
           e == ends(w)
           c == compileSearch(request).count
           all == inOrder(records, request)
<1>1. request \in Requests /\ w.seen \in Seq(Ids) /\ Len(w.seen) \in Nat
  BY LenProperties DEF WalkType
<1>2. Legal(request)
  BY <1>1, RequestAssumption DEF Legal
<1>3. /\ begun(request) \in Nat \ {0} /\ c \in Nat
      /\ c = 0 <=> wantsNone(request)
  BY <1>2, PlanFacts DEF wantsNone
<1>4. n \in Nat /\ all \in Seq(M) /\ Len(all) = n
  BY DEF Listed, matches
<1>5. reached(w) = begun(request) - 1 + Len(w.seen) /\ reached(w) \in Nat
  BY <1>1, <1>3 DEF reached
<1>6. b = IF reached(w) <= n THEN reached(w) ELSE n
  BY DEF begins
<1>7. e = IF b + c <= n THEN b + c ELSE n
  BY DEF ends
<1> HIDE DEF b, e, c, n
<1>8. b \in Nat /\ e \in Nat /\ b <= e /\ e <= n /\ b <= reached(w)
  BY <1>3, <1>4, <1>5, <1>6, <1>7
<1>9. shown(w) = SubSeq(all, b + 1, e)
  BY DEF shown, b, e
<1> HIDE DEF all, M
<1>10. /\ shown(w) \in Seq(M) /\ Len(shown(w)) = e - b
       /\ \A k \in 1 .. Len(shown(w)) : shown(w)[k] = all[b + k]
  <2>1. \A i \in b + 1 .. e : all[i] \in M
    <3>1. \A i \in b + 1 .. e : i \in 1 .. Len(all)
      BY <1>4, <1>8
    <3> QED
      BY <3>1, <1>4, ElementOfSeq
  <2>2. /\ SubSeq(all, b + 1, e) \in Seq(M)
        /\ Len(SubSeq(all, b + 1, e)) = IF b + 1 <= e THEN e - (b + 1) + 1 ELSE 0
        /\ \A k \in 1 .. e - (b + 1) + 1 : SubSeq(all, b + 1, e)[k] = all[(b + 1) + k - 1]
    <3>1. b + 1 \in Int /\ e \in Int
      BY <1>8
    <3> QED
      BY <3>1, <2>1, SubSeqProperties
  <2>3. e - (b + 1) + 1 = e - b /\ \A k \in 1 .. e - b : (b + 1) + k - 1 = b + k
    BY <1>8
  <2>4. (IF b + 1 <= e THEN e - (b + 1) + 1 ELSE 0) = e - b
    BY <1>8
  <2> QED
    BY <2>2, <2>3, <2>4, <1>9
<1>11. shown(w) \in Seq(Ids)
  <2>1. M \subseteq Ids
    BY DEF M, matching, RecordsInv
  <2> QED
    BY <2>1, <1>10, SeqMonotonic
<1>12. Len(shown(w)) # 0 => b = reached(w)
  BY <1>4, <1>5, <1>6, <1>7, <1>3, <1>8, <1>10
<1>13. wantsNone(request) => Len(shown(w)) = 0
  BY <1>3, <1>4, <1>7, <1>8, <1>10
<1>14. ~wantsNone(request) /\ Len(shown(w)) = 0 => n <= reached(w)
  <2> SUFFICES ASSUME ~wantsNone(request), Len(shown(w)) = 0 PROVE n <= reached(w)
    OBVIOUS
  <2>1. c >= 1 /\ e = b
    BY <1>3, <1>8, <1>10
  <2>2. b = n
    BY <2>1, <1>3, <1>4, <1>7, <1>8
  <2> QED
    BY <2>2, <1>8
<1> QED
  BY <1>1, <1>3, <1>4, <1>5, <1>8, <1>10, <1>11, <1>12, <1>13, <1>14 DEF b, e, n, all, M

\* A page that arrives keeps the types and moves the place reached.
LEMMA PageAdvances ==
  ASSUME RecordsInv, NEW w, NEW v, WalkType(w), PageArrives(w, v), v.request = w.request
  PROVE  /\ v.seen \in Seq(Ids)
         /\ reached(v) = reached(w) + Len(shown(w))
         /\ Range(v.seen) = Range(w.seen) \cup Range(shown(w))
         /\ wantsNone(w.request) => shown(w) = <<>>
         /\ shown(w) # <<>> => reached(w) = begins(w) /\ reached(v) = ends(w)
         /\ shown(w) = <<>> => v.seen = w.seen /\ reached(v) = reached(w)
         /\ shown(w) = <<>> <=> Len(shown(w)) = 0
<1> DEFINE res == shown(w)
<1>1. /\ reached(w) \in Nat /\ begun(w.request) \in Nat \ {0}
      /\ reached(w) = begun(w.request) - 1 + Len(w.seen) /\ Len(w.seen) \in Nat
      /\ begins(w) \in Nat /\ ends(w) \in Nat
      /\ res \in Seq(Ids)
      /\ Len(res) = ends(w) - begins(w)
      /\ Len(res) # 0 => begins(w) = reached(w)
      /\ wantsNone(w.request) => Len(res) = 0
  <2>1. Listed(w.request)
    BY DEF PageArrives
  <2> QED
    BY <2>1, ShownFacts
<1>2. w.seen \in Seq(Ids) /\ v.seen = w.seen \o res
  BY DEF WalkType, PageArrives
<1> HIDE DEF res
<1>3. /\ v.seen \in Seq(Ids) /\ Len(v.seen) = Len(w.seen) + Len(res)
      /\ \A i \in 1 .. Len(w.seen) + Len(res) :
           v.seen[i] = IF i <= Len(w.seen) THEN w.seen[i] ELSE res[i - Len(w.seen)]
  <2> DEFINE old == w.seen
  <2>1. old \in Seq(Ids) /\ res \in Seq(Ids) /\ v.seen = old \o res
    BY <1>1, <1>2
  <2> HIDE DEF old
  <2>2. /\ old \o res \in Seq(Ids) /\ Len(old \o res) = Len(old) + Len(res)
        /\ \A i \in 1 .. Len(old) + Len(res) :
             (old \o res)[i] = IF i <= Len(old) THEN old[i] ELSE res[i - Len(old)]
    BY <2>1, ConcatProperties
  <2> QED
    BY <2>1, <2>2 DEF old
<1>4. Len(res) \in Nat /\ (res = <<>> <=> Len(res) = 0)
  BY <1>1, EmptySeq, LenProperties
<1>5. reached(v) = reached(w) + Len(res)
  BY <1>1, <1>3, <1>4 DEF reached
<1>6. Range(v.seen) = Range(w.seen) \cup Range(res)
  <2>1. DOMAIN w.seen = 1 .. Len(w.seen) /\ DOMAIN res = 1 .. Len(res)
        /\ DOMAIN v.seen = 1 .. Len(w.seen) + Len(res)
    BY <1>1, <1>2, <1>3, LenProperties
  <2>2. ASSUME NEW i \in 1 .. Len(w.seen) + Len(res) PROVE v.seen[i] \in Range(w.seen) \cup Range(res)
    <3>1. CASE i <= Len(w.seen)
      <4>1. i \in 1 .. Len(w.seen) /\ v.seen[i] = w.seen[i]
        BY <3>1, <1>1, <1>3
      <4> QED
        BY <4>1, <2>1 DEF Range
    <3>2. CASE ~(i <= Len(w.seen))
      <4>1. i - Len(w.seen) \in 1 .. Len(res)
        BY <3>2, <1>1, <1>4
      <4> QED
        BY <4>1, <3>2, <1>3, <2>1 DEF Range
    <3> QED
      BY <3>1, <3>2
  <2>3. ASSUME NEW i \in 1 .. Len(w.seen) PROVE w.seen[i] \in Range(v.seen)
    <3>1. i \in 1 .. Len(w.seen) + Len(res) /\ i <= Len(w.seen)
      BY <1>1, <1>4
    <3> QED
      BY <3>1, <1>3, <2>1 DEF Range
  <2>4. ASSUME NEW i \in 1 .. Len(res) PROVE res[i] \in Range(v.seen)
    <3> DEFINE k == Len(w.seen) + i
    <3>1. k \in 1 .. Len(w.seen) + Len(res) /\ ~(k <= Len(w.seen)) /\ k - Len(w.seen) = i
      BY <1>1, <1>4, SMTT(30)
    <3> HIDE DEF k
    <3>2. v.seen[k] = res[i]
      BY <3>1, <1>3
    <3> QED
      BY <3>1, <3>2, <2>1 DEF Range
  <2> QED
    BY <2>1, <2>2, <2>3, <2>4 DEF Range
<1>7. res = <<>> => v.seen = w.seen
  BY <1>2, ConcatEmptySeq
<1>8. res # <<>> => reached(w) = begins(w) /\ reached(v) = ends(w)
  BY <1>1, <1>4, <1>5
<1>9. res = <<>> => reached(v) = reached(w)
  BY <1>1, <1>4, <1>5
<1> QED
  BY <1>1, <1>3, <1>4, <1>5, <1>6, <1>7, <1>8, <1>9 DEF res

\* Undisturbed, each page continues the list where the one before it ended.
LEMMA PageUndisturbed ==
  ASSUME RecordsInv, NEW w, NEW v, WalkType(w), PageArrives(w, v),
         v.request = w.request, v.writes = w.writes, Undisturbed(records, w)
  PROVE  Undisturbed(records, v)
<1> SUFFICES ASSUME w.writes = {}
             PROVE  /\ v.seen # <<>> => reached(v) <= matches(w)
                    /\ v.seen = SubSeq(inOrder(records, w.request), begun(w.request), reached(v))
                    /\ v.ended => v.seen = reference(records, w.request)
  BY DEF Undisturbed, matches
<1> DEFINE request == w.request
           all == inOrder(records, request)
           n == matches(w)
           res == shown(w)
           from == begun(request)
<1>1. /\ n \in Nat /\ reached(w) \in Nat /\ from \in Nat \ {0}
      /\ reached(w) = from - 1 + Len(w.seen) /\ Len(w.seen) \in Nat
      /\ begins(w) \in Nat /\ ends(w) \in Nat
      /\ begins(w) <= ends(w) /\ ends(w) <= n
      /\ ~wantsNone(request) /\ Len(res) = 0 => n <= reached(w)
  <2>1. Listed(w.request)
    BY DEF PageArrives
  <2> QED
    BY <2>1, ShownFacts
<1>2. /\ wantsNone(request) => res = <<>>
      /\ res # <<>> => reached(w) = begins(w) /\ reached(v) = ends(w)
      /\ res = <<>> => v.seen = w.seen /\ reached(v) = reached(w)
      /\ res = <<>> <=> Len(res) = 0
      /\ reached(v) = reached(w) + Len(res)
  BY PageAdvances
<1>3. /\ w.seen # <<>> => reached(w) <= n
      /\ w.seen = SubSeq(all, from, reached(w))
  BY DEF Undisturbed, matches
<1>4. /\ all \in Seq(matching(records, request)) /\ Len(all) = n
      /\ v.seen = w.seen \o res /\ res = SubSeq(all, begins(w) + 1, ends(w))
      /\ v.ended <=> res = <<>> \/ reached(w) + Len(res) >= n
  BY DEF PageArrives, Listed, matches, shown
<1>5. reference(records, request) = IF wantsNone(request) THEN <<>> ELSE SubSeq(all, from, n)
  <2>1. request.start \in Int
    BY RequestAssumption DEF WalkType
  <2>2. Max({request.start, 1}) = from
    BY <2>1, MaxOfTwo DEF begun
  <2> QED
    BY <2>2 DEF reference, wantsNone, matches
<1>6. wantsNone(request) => w.seen = <<>>
  BY DEF WalkType
<1> HIDE DEF all, n, res, from
<1>a. Len(all) = n
  BY <1>4
<1>b. v.ended => res = <<>> \/ reached(w) + Len(res) >= n
  BY <1>4
<1>c. w.seen # <<>> => reached(w) <= n
  BY <1>3
<1>7. v.seen # <<>> => reached(v) <= n
  BY <1>1, <1>2, <1>3
<1>8. v.seen = SubSeq(all, from, reached(v))
  <2>1. CASE res = <<>>
    BY <2>1, <1>2, <1>3
  <2>2. CASE res # <<>>
    <3>1. /\ from \in 1 .. Len(all) + 1 /\ reached(w) \in from - 1 .. Len(all)
          /\ ends(w) \in reached(w) .. Len(all)
      <4>1. reached(w) <= ends(w) /\ ends(w) <= n /\ from - 1 <= reached(w)
        BY <2>2, <1>1, <1>2
      <4> QED
        BY <4>1, <1>1, <1>a
    <3>2. SubSeq(all, from, reached(w)) \o SubSeq(all, reached(w) + 1, ends(w)) = SubSeq(all, from, ends(w))
      BY <3>1, <1>4, ConcatAdjacentSubSeq
    <3> QED
      BY <3>2, <2>2, <1>2, <1>3, <1>4
  <2> QED
    BY <2>1, <2>2
<1>9. ASSUME v.ended PROVE v.seen = reference(records, request)
  <2>1. CASE wantsNone(request)
    BY <2>1, <1>2, <1>5, <1>6
  <2>2. CASE ~wantsNone(request) /\ res # <<>>
    <3>1. reached(v) = n
      <4>1. reached(v) <= n /\ reached(v) >= n /\ reached(v) \in Nat
        BY <2>2, <1>1, <1>2, <1>b, <1>9
      <4> QED
        BY <4>1, <1>1
    <3> QED
      BY <3>1, <2>2, <1>5, <1>8
  <2>3. CASE ~wantsNone(request) /\ res = <<>>
    <3>1. n <= reached(w) /\ v.seen = w.seen /\ reached(v) = reached(w)
      BY <2>3, <1>1, <1>2
    <3>2. CASE reached(w) = n
      BY <3>1, <3>2, <2>3, <1>3, <1>5
    <3>3. CASE reached(w) # n
      <4>1. w.seen = <<>> /\ n < from
        <5>1. w.seen = <<>>
          BY <3>1, <3>3, <1>1, <1>c
        <5>2. Len(w.seen) = 0
          BY <5>1
        <5> QED
          BY <5>1, <5>2, <3>1, <3>3, <1>1
      <4>2. SubSeq(all, from, n) = <<>>
        BY <4>1, <1>1, SubSeqEmpty
      <4> QED
        BY <4>1, <4>2, <3>1, <2>3, <1>5
    <3> QED
      BY <3>2, <3>3
  <2> QED
    BY <2>1, <2>2, <2>3
<1> QED
  BY <1>7, <1>8, <1>9 DEF all, n, from

\* A page shows the next matches and passes none of them over.
LEMMA PageMissesNothing ==
  ASSUME RecordsInv, NEW w, NEW v, WalkType(w), PageArrives(w, v),
         v.request = w.request, v.writes = w.writes, v.first = w.first, NothingMissed(records, w)
  PROVE  NothingMissed(records, v)
<1> DEFINE request == w.request
           M == matching(records, request)
           all == inOrder(records, request)
           n == matches(w)
           res == shown(w)
           at(i) == position(records, request, i)
<1> SUFFICES ASSUME w.writes \subseteq {"create"}, request.start <= 1
             PROVE  /\ w.first \subseteq M
                    /\ \A i \in w.first : i \in Range(v.seen) \/ at(i) > reached(v)
                    /\ v.ended /\ ~wantsNone(request) => w.first \subseteq Range(v.seen)
  BY DEF NothingMissed
<1>1. w.first \subseteq M /\ \A i \in w.first : i \in Range(w.seen) \/ at(i) > reached(w)
  BY DEF NothingMissed
<1>2. /\ n \in Nat /\ reached(w) \in Nat
      /\ begins(w) \in Nat /\ ends(w) \in Nat
      /\ res \in Seq(M) /\ Len(res) = ends(w) - begins(w)
      /\ \A k \in 1 .. Len(res) : res[k] = all[begins(w) + k]
      /\ ~wantsNone(request) /\ Len(res) = 0 => n <= reached(w)
  <2>1. Listed(w.request)
    BY DEF PageArrives
  <2> QED
    BY <2>1, ShownFacts
<1>3. /\ reached(v) = reached(w) + Len(res)
      /\ Range(v.seen) = Range(w.seen) \cup Range(res)
      /\ res # <<>> => reached(w) = begins(w) /\ reached(v) = ends(w)
      /\ res = <<>> => v.seen = w.seen /\ reached(v) = reached(w)
      /\ res = <<>> <=> Len(res) = 0
  BY PageAdvances
<1>4. ASSUME NEW i \in M PROVE at(i) \in 1 .. n /\ all[at(i)] = i
  BY DEF PageArrives, Listed, matches
<1>5. v.ended <=> res = <<>> \/ reached(w) + Len(res) >= n
  BY DEF PageArrives
<1> HIDE DEF M, all, n, res, at
<1>6. ASSUME NEW i \in w.first PROVE i \in Range(v.seen) \/ at(i) > reached(v)
  <2> SUFFICES ASSUME at(i) > reached(w), ~(at(i) > reached(v)) PROVE i \in Range(res)
    BY <1>1, <1>3
  <2>1. at(i) \in 1 .. n /\ all[at(i)] = i
    BY <1>1, <1>4
  <2>2. res # <<>>
    BY <1>3
  <2> DEFINE k == at(i) - begins(w)
  <2>3. k \in 1 .. Len(res) /\ begins(w) + k = at(i)
    BY <2>1, <2>2, <1>2, <1>3
  <2> HIDE DEF k
  <2>4. res[k] = i
    BY <2>1, <2>3, <1>2
  <2>5. DOMAIN res = 1 .. Len(res)
    BY <1>2, LenProperties
  <2> QED
    BY <2>3, <2>4, <2>5 DEF Range
<1>7. ASSUME v.ended, ~wantsNone(request), NEW i \in w.first PROVE i \in Range(v.seen)
  <2>1. n <= reached(v)
    BY <1>2, <1>3, <1>5, <1>7
  <2>2. at(i) \in 1 .. n /\ reached(v) \in Int
    BY <1>1, <1>2, <1>3, <1>4
  <2>3. ~(at(i) > reached(v))
    BY <2>1, <2>2, <1>2
  <2> QED
    BY <2>3, <1>6
<1> QED
  BY <1>1, <1>6, <1>7

\* A page shows matches that lie ahead, and none twice.
LEMMA PageRepeatsNothing ==
  ASSUME RecordsInv, NEW w, NEW v, WalkType(w), PageArrives(w, v),
         v.request = w.request, v.writes = w.writes, NothingRepeated(records, w)
  PROVE  NothingRepeated(records, v)
<1> DEFINE request == w.request
           M == matching(records, request)
           all == inOrder(records, request)
           n == matches(w)
           res == shown(w)
           at(i) == position(records, request, i)
<1> SUFFICES ASSUME w.writes \subseteq {"delete"}
             PROVE  /\ IsInjective(v.seen)
                    /\ \A i \in Range(v.seen) \cap M : at(i) <= reached(v)
  BY DEF NothingRepeated
<1>1. IsInjective(w.seen) /\ \A i \in Range(w.seen) \cap M : at(i) <= reached(w)
  BY DEF NothingRepeated
<1>2. /\ n \in Nat /\ reached(w) \in Nat /\ Len(w.seen) \in Nat
      /\ begins(w) \in Nat /\ ends(w) \in Nat /\ ends(w) <= n
      /\ res \in Seq(M) /\ res \in Seq(Ids) /\ Len(res) = ends(w) - begins(w)
      /\ \A k \in 1 .. Len(res) : res[k] = all[begins(w) + k]
  <2>1. Listed(w.request)
    BY DEF PageArrives
  <2> QED
    BY <2>1, ShownFacts
<1>3. /\ reached(v) = reached(w) + Len(res)
      /\ Range(v.seen) = Range(w.seen) \cup Range(res)
      /\ res # <<>> => reached(w) = begins(w) /\ reached(v) = ends(w)
      /\ res = <<>> => v.seen = w.seen /\ reached(v) = reached(w)
      /\ res = <<>> <=> Len(res) = 0
  BY PageAdvances
<1>4. \A q \in 1 .. n : at(all[q]) = q
  BY DEF PageArrives, Listed, matches
<1>5. v.seen = w.seen \o res /\ w.seen \in Seq(Ids)
  BY DEF PageArrives, WalkType
<1> HIDE DEF M, all, n, res, at
<1>6. CASE res = <<>>
  BY <1>1, <1>3, <1>6
<1>7. CASE res # <<>>
  <2>0. /\ DOMAIN res = 1 .. Len(res) /\ \A k \in 1 .. Len(res) : res[k] \in M
        /\ DOMAIN w.seen = 1 .. Len(w.seen)
        /\ Len(res) \in Nat
    BY <1>2, <1>5, LenProperties, ElementOfSeq
  <2>1. ASSUME NEW k \in 1 .. Len(res)
        PROVE  at(res[k]) = reached(w) + k /\ at(res[k]) <= reached(v) /\ res[k] \notin Range(w.seen)
    <3>1. begins(w) + k \in 1 .. n /\ reached(w) = begins(w)
      BY <1>2, <1>3, <1>7
    <3>2. at(res[k]) = reached(w) + k
      BY <3>1, <1>2, <1>4
    <3>3. reached(w) + k <= reached(v) /\ ~(reached(w) + k <= reached(w))
      BY <2>0, <1>2, <1>3
    <3> QED
      BY <3>2, <3>3, <2>0, <1>1
  <2>2. \A i \in Range(v.seen) \cap M : at(i) <= reached(v)
    <3>1. ASSUME NEW i \in Range(w.seen) \cap M PROVE at(i) <= reached(v)
      <4>1. at(i) <= reached(w) /\ reached(w) <= reached(v)
        BY <1>1, <1>2, <1>3, <2>0
      <4>2. PICK q \in 1 .. n : all[q] = i
        <5>1. \A j \in M : \E q \in 1 .. n : all[q] = j
          BY DEF PageArrives, Listed, matches, M, all, n
        <5> QED
          BY <5>1
      <4>3. at(i) \in Int
        BY <4>2, <1>4
      <4> QED
        BY <4>1, <4>3, <1>2, <1>3, <2>0
    <3>2. ASSUME NEW i \in Range(res) PROVE at(i) <= reached(v)
      BY <2>0, <2>1 DEF Range
    <3> QED
      BY <3>1, <3>2, <1>3
  <2>3. /\ DOMAIN v.seen = 1 .. Len(w.seen) + Len(res)
        /\ \A i \in 1 .. Len(w.seen) + Len(res) :
             v.seen[i] = IF i <= Len(w.seen) THEN w.seen[i] ELSE res[i - Len(w.seen)]
    <3> DEFINE old == w.seen
    <3>1. old \in Seq(Ids) /\ res \in Seq(Ids) /\ v.seen = old \o res
      BY <1>2, <1>5
    <3> HIDE DEF old
    <3>2. /\ old \o res \in Seq(Ids) /\ Len(old \o res) = Len(old) + Len(res)
          /\ \A i \in 1 .. Len(old) + Len(res) :
               (old \o res)[i] = IF i <= Len(old) THEN old[i] ELSE res[i - Len(old)]
      BY <3>1, ConcatProperties
    <3>3. DOMAIN (old \o res) = 1 .. Len(old) + Len(res)
      BY <3>2, LenProperties
    <3> QED
      BY <3>1, <3>2, <3>3 DEF old
  <2>4. ASSUME NEW i \in 1 .. Len(w.seen) + Len(res), NEW j \in 1 .. Len(w.seen) + Len(res),
               v.seen[i] = v.seen[j], i < j
        PROVE  FALSE
    <3>1. CASE j <= Len(w.seen)
      <4>1. /\ i \in DOMAIN w.seen /\ j \in DOMAIN w.seen /\ w.seen[i] = w.seen[j] /\ i # j
        <5>1. i <= Len(w.seen) /\ i \in 1 .. Len(w.seen) /\ j \in 1 .. Len(w.seen) /\ i # j
          BY <3>1, <2>0, <2>4, <1>2
        <5>2. v.seen[i] = w.seen[i] /\ v.seen[j] = w.seen[j]
          BY <5>1, <3>1, <2>3
        <5> QED
          BY <5>1, <5>2, <2>0, <2>4
      <4> QED
        BY <4>1, <1>1 DEF IsInjective
    <3>2. CASE ~(j <= Len(w.seen)) /\ i <= Len(w.seen)
      <4> DEFINE l == Len(w.seen)
                 m == Len(res)
      <4>0. /\ l \in Nat /\ m \in Nat /\ i \in 1 .. l + m /\ j \in 1 .. l + m
            /\ i <= l /\ ~(j <= l)
        BY <3>2, <2>0, <2>4, <1>2
      <4>1. i \in DOMAIN w.seen /\ j - Len(w.seen) \in 1 .. Len(res) /\ w.seen[i] = res[j - Len(w.seen)]
        <5>1. v.seen[i] = w.seen[i] /\ v.seen[j] = res[j - l]
          BY <4>0, <2>3
        <5>2. DOMAIN w.seen = 1 .. l
          BY <2>0
        <5> HIDE DEF l, m
        <5>3. i \in 1 .. l /\ j - l \in 1 .. m
          BY <4>0
        <5> QED
          BY <5>1, <5>2, <5>3, <2>4 DEF l, m
      <4>2. w.seen[i] \in Range(w.seen)
        BY <4>1 DEF Range
      <4> QED
        BY <4>1, <4>2, <2>1
    <3>3. CASE ~(j <= Len(w.seen)) /\ ~(i <= Len(w.seen))
      <4> DEFINE a == i - Len(w.seen)
                 b == j - Len(w.seen)
      <4>1. a \in 1 .. Len(res) /\ b \in 1 .. Len(res) /\ res[a] = res[b] /\ a # b
        <5>1. a \in 1 .. Len(res) /\ b \in 1 .. Len(res) /\ a # b
          <6> DEFINE l == Len(w.seen)
                     m == Len(res)
          <6>1. l \in Nat /\ m \in Nat /\ i \in 1 .. l + m /\ j \in 1 .. l + m /\ i < j
            BY <2>0, <2>4, <1>2
          <6>2. ~(j <= l) /\ ~(i <= l)
            BY <3>3
          <6> HIDE DEF l, m
          <6>3. i - l \in 1 .. m /\ j - l \in 1 .. m /\ i - l # j - l
            BY <6>1, <6>2
          <6> QED
            BY <6>3 DEF l, m
        <5>2. v.seen[i] = res[a] /\ v.seen[j] = res[b]
          BY <3>3, <2>3
        <5> QED
          BY <5>1, <5>2, <2>4
      <4> HIDE DEF a, b
      <4>2. at(res[a]) = reached(w) + a /\ at(res[b]) = reached(w) + b
        BY <4>1, <2>1
      <4>3. reached(w) + a # reached(w) + b
        BY <4>1, <1>2, <2>0
      <4> QED
        BY <4>1, <4>2, <4>3
    <3> QED
      BY <3>1, <3>2, <3>3
  <2>5. IsInjective(v.seen)
    <3>1. \A i, j \in 1 .. Len(w.seen) + Len(res) : i = j \/ i < j \/ j < i
      BY <1>2, <2>0
    <3>2. ASSUME NEW i \in DOMAIN v.seen, NEW j \in DOMAIN v.seen, v.seen[i] = v.seen[j] PROVE i = j
      BY <3>1, <3>2, <2>3, <2>4
    <3> QED
      BY <3>2 DEF IsInjective
  <2> QED
    BY <2>2, <2>5
<1> QED
  BY <1>6, <1>7

-----------------------------------------------------------------------------
(* Writes of others *)

\* More records, and the same values: a match stays one and moves only backwards.
LEMMA MoreRecords ==
  ASSUME NEW db, NEW more, IsFiniteSet(DOMAIN more), DOMAIN db \subseteq DOMAIN more,
         \A i \in DOMAIN db : db[i] = more[i], NEW request
  PROVE  /\ matching(db, request) \subseteq matching(more, request)
         /\ \A i \in matching(db, request) :
              /\ position(db, request, i) \in Int /\ position(more, request, i) \in Int
              /\ position(db, request, i) <= position(more, request, i)
<1> DEFINE M == matching(db, request)
           N == matching(more, request)
<1>1. M \subseteq N
  BY DEF matching
<1>2. IsFiniteSet(N) /\ IsFiniteSet(M)
  <2>1. N \subseteq DOMAIN more
    BY DEF matching
  <2>2. IsFiniteSet(N)
    BY <2>1, FS_Subset
  <2> QED
    BY <2>2, <1>1, FS_Subset
<1>3. ASSUME NEW i \in M
      PROVE  /\ position(db, request, i) \in Int /\ position(more, request, i) \in Int
             /\ position(db, request, i) <= position(more, request, i)
  <2> DEFINE A == {j \in M : precedes(db, request, j, i)}
             B == {j \in N : precedes(more, request, j, i)}
  <2>1. ASSUME NEW j \in M PROVE precedes(db, request, j, i) <=> precedes(more, request, j, i)
    <3>1. db[j] = more[j] /\ db[i] = more[i]
      BY DEF matching
    <3> QED
      BY <3>1 DEF precedes
  <2>2. A \subseteq B /\ M \ A \subseteq N \ B /\ A \subseteq M /\ B \subseteq N
    BY <2>1, <1>1
  <2>3. /\ position(db, request, i) =
             IF request.order = "descending" THEN Cardinality(M) - Cardinality(A) ELSE Cardinality(A) + 1
        /\ position(more, request, i) =
             IF request.order = "descending" THEN Cardinality(N) - Cardinality(B) ELSE Cardinality(B) + 1
    BY DEF position
  <2> HIDE DEF A, B, M, N
  <2>4. IsFiniteSet(A) /\ IsFiniteSet(B) /\ IsFiniteSet(M \ A) /\ IsFiniteSet(N \ B)
    BY <2>2, <1>2, FS_Subset, FS_Difference
  <2>5. /\ Cardinality(A) \in Nat /\ Cardinality(B) \in Nat
        /\ Cardinality(M) \in Nat /\ Cardinality(N) \in Nat
    BY <2>4, <1>2, FS_CardinalityType
  <2>6. Cardinality(A) <= Cardinality(B)
    BY <2>2, <2>4, FS_Subset
  <2>7. Cardinality(M \ A) <= Cardinality(N \ B)
    BY <2>2, <2>4, FS_Subset
  <2>8. Cardinality(M \ A) = Cardinality(M) - Cardinality(A)
    <3>1. M \cap A = A
      BY <2>2
    <3> QED
      BY <3>1, <1>2, FS_Difference
  <2>9. Cardinality(N \ B) = Cardinality(N) - Cardinality(B)
    <3>1. N \cap B = B
      BY <2>2
    <3> QED
      BY <3>1, <1>2, FS_Difference
  <2> QED
    BY <2>3, <2>5, <2>6, <2>7, <2>8, <2>9
<1> QED
  BY <1>1, <1>3

\* A write is counted and changes nothing else of a walk.
LEMMA WriteOutcome ==
  ASSUME WalkType(walk), NEW kind, during(kind)
  PROVE  /\ WalkType(walk')
         /\ walk'.request = walk.request /\ walk'.first = walk.first /\ walk'.seen = walk.seen
         /\ walk'.writes = walk.writes \cup {kind}
         /\ ~walk'.ended
         /\ reached(walk') = reached(walk) /\ reached(walk) \in Int
<1>1. DOMAIN walk = {"request", "status", "ended", "seen", "first", "writes", "made"}
  BY DEF WalkType
<1>2. /\ walk' = [walk EXCEPT !.writes = walk.writes \cup {kind}, !.made = walk.made + 1]
      /\ ~walk.ended
  BY DEF during
<1>3. /\ walk'.request = walk.request /\ walk'.first = walk.first /\ walk'.seen = walk.seen
      /\ walk'.writes = walk.writes \cup {kind}
      /\ walk'.ended = walk.ended /\ walk'.status = walk.status
      /\ walk' = [f \in {"request", "status", "ended", "seen", "first", "writes", "made"} |-> walk'[f]]
  BY <1>1, <1>2
<1>4. WalkType(walk')
  BY <1>3 DEF WalkType
<1>5. reached(walk') = reached(walk)
  BY <1>3 DEF reached
<1>6. reached(walk) \in Int
  <2>1. walk.request.start \in Int
    BY RequestAssumption DEF WalkType
  <2>2. Len(walk.seen) \in Nat
    BY LenProperties DEF WalkType
  <2> QED
    BY <2>1, <2>2 DEF reached, begun
<1> QED
  BY <1>2, <1>3, <1>4, <1>5, <1>6

-----------------------------------------------------------------------------
(* The invariant *)

\* Every write keeps the records' part of the invariant.
LEMMA RecordsInvStep ==
  ASSUME RecordsInv, [Next]_vars
  PROVE  RecordsInv'
<1>1. CASE UNCHANGED <<records, broken, deleted>>
  BY <1>1 DEF RecordsInv
<1>2. CASE Create
  <2>1. PICK i \in Ids \ (DOMAIN records \cup deleted), k \in Keys \cup {None} :
          /\ records' = [j \in DOMAIN records \cup {i} |-> IF j = i THEN k ELSE records[j]]
          /\ broken' \subseteq broken \cup {i}
    BY <1>2 DEF Create, writes
  <2>2. DOMAIN records' = DOMAIN records \cup {i} /\ deleted' = deleted
    BY <1>2, <2>1 DEF Create
  <2>3. IsFiniteSet(DOMAIN records \cup {i})
    BY FS_AddElement DEF RecordsInv
  <2> QED
    BY <2>1, <2>2, <2>3 DEF RecordsInv
<1>3. CASE Replace
  <2>1. PICK i \in DOMAIN records, k \in Keys \cup {None} :
          records' = [records EXCEPT ![i] = k] /\ broken' \subseteq broken \cup {i}
    BY <1>3 DEF Replace, writes
  <2>2. DOMAIN records' = DOMAIN records /\ deleted' = deleted /\ broken' \subseteq DOMAIN records
    BY <1>3, <2>1 DEF Replace, RecordsInv
  <2>3. records' = [j \in DOMAIN records' |-> records'[j]]
    BY <2>1
  <2>4. \A j \in DOMAIN records' : records'[j] \in Keys \cup {None}
    BY <2>1 DEF RecordsInv
  <2> QED
    BY <2>2, <2>3, <2>4 DEF RecordsInv
<1>4. CASE Delete
  <2>1. PICK i \in DOMAIN records : /\ records' = [j \in DOMAIN records \ {i} |-> records[j]]
                                    /\ broken' = broken \ {i}
                                    /\ deleted' = deleted \cup {i}
    BY <1>4 DEF Delete
  <2>2. IsFiniteSet(DOMAIN records \ {i})
    BY FS_RemoveElement DEF RecordsInv
  <2> QED
    BY <2>1, <2>2 DEF RecordsInv
<1> QED
  BY <1>1, <1>2, <1>3, <1>4 DEF Next, vars, Begin, Page, StoreFails

\* A walk begins with nothing seen and all matches ahead.
LEMMA BeginKeeps ==
  ASSUME RecordsInv, Begin
  PROVE  WalkInv(records, walk')
<1>1. PICK request \in Requests :
        walk' = [request |-> request, status |-> 200, ended |-> FALSE, seen |-> <<>>,
                 first |-> matching(records, request), writes |-> {}, made |-> 0]
  BY DEF Begin
<1>2. /\ walk'.request = request /\ walk'.status = 200 /\ walk'.ended = FALSE /\ walk'.seen = <<>>
      /\ walk'.first = matching(records, request) /\ walk'.writes = {}
      /\ walk' = [f \in {"request", "status", "ended", "seen", "first", "writes", "made"} |-> walk'[f]]
  BY <1>1
<1>3. Legal(request)
  BY RequestAssumption DEF Legal
<1>4. begun(request) \in Nat \ {0} /\ reached(walk') = begun(request) - 1
  <2>1. begun(request) \in Nat \ {0}
    BY <1>3, PlanFacts
  <2>2. reached(walk') = begun(request) - 1 + Len(<<>>)
    BY <1>2 DEF reached
  <2> QED
    BY <2>1, <2>2
<1>5. WalkType(walk')
  <2>1. <<>> \in Seq(Ids)
    OBVIOUS
  <2> QED
    BY <2>1, <1>2 DEF WalkType
<1>6. Undisturbed(records, walk')
  <2>1. SubSeq(inOrder(records, request), begun(request), begun(request) - 1) = <<>>
    BY <1>4, SubSeqEmpty
  <2> QED
    BY <2>1, <1>2, <1>4 DEF Undisturbed
<1>7. NothingMissed(records, walk')
  <2> SUFFICES ASSUME request.start <= 1, NEW i \in matching(records, request)
               PROVE  position(records, request, i) > reached(walk')
    BY <1>2 DEF NothingMissed
  <2> DEFINE M == matching(records, request)
             A == {j \in M : precedes(records, request, j, i)}
  <2>1. reached(walk') = 0
    <3>1. request.start \in Int
      BY <1>3 DEF Legal
    <3>2. begun(request) = 1
      BY <3>1 DEF begun
    <3> QED
      BY <3>2, <1>4
  <2>2. position(records, request, i) = IF request.order = "descending"
                                        THEN Cardinality(M) - Cardinality(A) ELSE Cardinality(A) + 1
    BY DEF position
  <2>3. A \subseteq M /\ A # M
    <3>1. StrictOrder(ReferenceOrder(request, M), M)
      BY <1>3, ReferenceIsOrder
    <3>2. <<i, i>> \notin ReferenceOrder(request, M)
      BY <3>1 DEF StrictOrder
    <3>3. <<i, i>> \in M \X M /\ <<i, i>>[1] = i /\ <<i, i>>[2] = i
      OBVIOUS
    <3>4. ~precedes(records, request, i, i)
      BY <3>2, <3>3, Zenon DEF ReferenceOrder
    <3> QED
      BY <3>4
  <2>4. IsFiniteSet(M) /\ Cardinality(M) \in Nat
    <3>1. M \subseteq DOMAIN records
      BY DEF matching
    <3> HIDE DEF M
    <3> QED
      BY <3>1, LiveFacts
  <2> HIDE DEF A, M
  <2>5. Cardinality(A) <= Cardinality(M) /\ Cardinality(A) # Cardinality(M) /\ IsFiniteSet(A)
    BY <2>3, <2>4, FS_Subset
  <2>6. Cardinality(A) \in Nat
    BY <2>5, FS_CardinalityType
  <2> QED
    BY <2>1, <2>2, <2>4, <2>5, <2>6
<1>8. NothingRepeated(records, walk')
  <2>1. Range(<<>>) = {} /\ IsInjective(<<>>)
    BY DEF Range, IsInjective
  <2> QED
    BY <2>1, <1>2 DEF NothingRepeated
<1> QED
  BY <1>5, <1>6, <1>7, <1>8 DEF WalkInv

\* A page that fails leaves the client where it was.
LEMMA FailKeeps ==
  ASSUME WalkInv(records, walk), PageFails(walk, walk'), walk'.ended \in BOOLEAN,
         walk' = [f \in {"request", "status", "ended", "seen", "first", "writes", "made"} |-> walk'[f]],
         walk'.request = walk.request, walk'.first = walk.first, walk'.writes = walk.writes
  PROVE  WalkInv(records, walk')
<1>1. walk'.seen = walk.seen /\ walk'.status \in {400, 413, 500} /\ walk'.status # 200
  BY DEF PageFails
<1>2. reached(walk') = reached(walk)
  BY <1>1 DEF reached
<1>3. WalkType(walk')
  BY <1>1 DEF WalkInv, WalkType
<1>4. Undisturbed(records, walk')
  BY <1>1, <1>2 DEF WalkInv, Undisturbed
<1>5. NothingMissed(records, walk')
  BY <1>1, <1>2 DEF WalkInv, NothingMissed
<1>6. NothingRepeated(records, walk')
  BY <1>1, <1>2 DEF WalkInv, NothingRepeated
<1> QED
  BY <1>3, <1>4, <1>5, <1>6 DEF WalkInv

\* So does a failure of the store.
LEMMA StoreFailsKeeps ==
  ASSUME WalkInv(records, walk), StoreFails
  PROVE  WalkInv(records, walk')
<1>1. DOMAIN walk = {"request", "status", "ended", "seen", "first", "writes", "made"}
  BY DEF WalkInv, WalkType
<1>2. walk' = [walk EXCEPT !.status = 500, !.ended = TRUE]
  BY DEF StoreFails
<1>3. /\ walk'.status = 500 /\ walk'.ended = TRUE /\ walk'.seen = walk.seen
      /\ walk'.request = walk.request /\ walk'.first = walk.first /\ walk'.writes = walk.writes
      /\ DOMAIN walk' = DOMAIN walk
  BY <1>1, <1>2
<1>4. walk' = [f \in {"request", "status", "ended", "seen", "first", "writes", "made"} |-> walk'[f]]
  <2>1. walk' = [f \in DOMAIN walk |-> walk'[f]]
    BY <1>2, ZenonT(60)
  <2> QED
    BY <2>1, <1>1
<1>5. PageFails(walk, walk')
  BY <1>3 DEF PageFails
<1> QED
  BY <1>3, <1>5, <1>4, FailKeeps

\* A page keeps a walk sound.
LEMMA PageKeeps ==
  ASSUME RecordsInv, WalkInv(records, walk), Page
  PROVE  WalkInv(records, walk')
<1>0. WalkType(walk) /\ ~walk.ended
  BY DEF WalkInv, Page
<1>1. /\ walk' = [f \in {"request", "status", "ended", "seen", "first", "writes", "made"} |-> walk'[f]]
      /\ walk'.request = walk.request /\ walk'.first = walk.first
      /\ walk'.writes = walk.writes
      /\ walk'.ended \in BOOLEAN
      /\ PageFails(walk, walk') \/ PageArrives(walk, walk')
  BY <1>0, PageOutcome
<1>2. CASE PageFails(walk, walk')
  BY <1>0, <1>1, <1>2, FailKeeps
<1>3. CASE PageArrives(walk, walk')
  <2>1. /\ walk'.seen \in Seq(Ids)
        /\ wantsNone(walk.request) => walk'.seen = walk.seen
    BY <1>0, <1>1, <1>3, PageAdvances
  <2>2. WalkType(walk')
    BY <1>0, <1>1, <1>3, <2>1 DEF WalkType, PageArrives
  <2>3. Undisturbed(records, walk')
    BY <1>0, <1>1, <1>3, PageUndisturbed DEF WalkInv
  <2>4. NothingMissed(records, walk')
    BY <1>0, <1>1, <1>3, PageMissesNothing DEF WalkInv
  <2>5. NothingRepeated(records, walk')
    BY <1>0, <1>1, <1>3, PageRepeatsNothing DEF WalkInv
  <2> QED
    BY <2>2, <2>3, <2>4, <2>5 DEF WalkInv
<1> QED
  BY <1>1, <1>2, <1>3

\* A creation hides nothing from a walk.
LEMMA CreateKeeps ==
  ASSUME RecordsInv, WalkInv(records, walk), Create, RecordsInv'
  PROVE  WalkInv(records', walk')
<1> DEFINE request == walk.request
<1>1. /\ WalkType(walk')
      /\ walk'.request = request /\ walk'.first = walk.first /\ walk'.seen = walk.seen
      /\ walk'.writes = walk.writes \cup {"create"}
      /\ ~walk'.ended
      /\ reached(walk') = reached(walk) /\ reached(walk) \in Int
  BY WriteOutcome DEF WalkInv, Create
<1>2. /\ IsFiniteSet(DOMAIN records') /\ DOMAIN records \subseteq DOMAIN records'
      /\ \A i \in DOMAIN records : records[i] = records'[i]
  BY DEF Create, RecordsInv
<1>3. /\ matching(records, request) \subseteq matching(records', request)
      /\ \A i \in matching(records, request) :
           /\ position(records, request, i) \in Int /\ position(records', request, i) \in Int
           /\ position(records, request, i) <= position(records', request, i)
  BY <1>2, MoreRecords
<1>4. NothingMissed(records', walk')
  <2> SUFFICES ASSUME walk'.writes \subseteq {"create"}, request.start <= 1
               PROVE  /\ walk.first \subseteq matching(records', request)
                      /\ \A i \in walk.first :
                           i \in Range(walk.seen) \/ position(records', request, i) > reached(walk)
    BY <1>1 DEF NothingMissed
  <2>1. walk.writes \subseteq {"create"}
    BY <1>1
  <2>2. /\ walk.first \subseteq matching(records, request)
        /\ \A i \in walk.first :
             i \in Range(walk.seen) \/ position(records, request, i) > reached(walk)
    BY <2>1 DEF WalkInv, NothingMissed
  <2> QED
    BY <2>2, <1>1, <1>3
<1>5. Undisturbed(records', walk') /\ NothingRepeated(records', walk')
  <2>1. walk'.writes # {} /\ ~(walk'.writes \subseteq {"delete"})
    BY <1>1
  <2>2. Undisturbed(records', walk')
    BY <2>1 DEF Undisturbed
  <2>3. NothingRepeated(records', walk')
    BY <2>1 DEF NothingRepeated
  <2> QED
    BY <2>2, <2>3
<1> QED
  BY <1>1, <1>4, <1>5 DEF WalkInv

\* A deletion moves nothing ahead of a walk.
LEMMA DeleteKeeps ==
  ASSUME RecordsInv, WalkInv(records, walk), Delete
  PROVE  WalkInv(records', walk')
<1> DEFINE request == walk.request
<1>1. /\ WalkType(walk')
      /\ walk'.request = request /\ walk'.first = walk.first /\ walk'.seen = walk.seen
      /\ walk'.writes = walk.writes \cup {"delete"}
      /\ ~walk'.ended
      /\ reached(walk') = reached(walk) /\ reached(walk) \in Int
  BY WriteOutcome DEF WalkInv, Delete
<1>2. /\ IsFiniteSet(DOMAIN records) /\ DOMAIN records' \subseteq DOMAIN records
      /\ \A i \in DOMAIN records' : records'[i] = records[i]
  BY DEF Delete, RecordsInv
<1>3. /\ matching(records', request) \subseteq matching(records, request)
      /\ \A i \in matching(records', request) :
           /\ position(records', request, i) \in Int /\ position(records, request, i) \in Int
           /\ position(records', request, i) <= position(records, request, i)
  BY <1>2, MoreRecords
<1>4. NothingRepeated(records', walk')
  <2> SUFFICES ASSUME walk'.writes \subseteq {"delete"}
               PROVE  /\ IsInjective(walk.seen)
                      /\ \A i \in Range(walk.seen) \cap matching(records', request) :
                           position(records', request, i) <= reached(walk)
    BY <1>1 DEF NothingRepeated
  <2>1. walk.writes \subseteq {"delete"}
    BY <1>1
  <2>2. /\ IsInjective(walk.seen)
        /\ \A i \in Range(walk.seen) \cap matching(records, request) :
             position(records, request, i) <= reached(walk)
    BY <2>1 DEF WalkInv, NothingRepeated
  <2> QED
    BY <2>2, <1>1, <1>3
<1>5. Undisturbed(records', walk') /\ NothingMissed(records', walk')
  <2>1. walk'.writes # {} /\ ~(walk'.writes \subseteq {"create"})
    BY <1>1
  <2>2. Undisturbed(records', walk')
    BY <2>1 DEF Undisturbed
  <2>3. NothingMissed(records', walk')
    BY <2>1 DEF NothingMissed
  <2> QED
    BY <2>2, <2>3
<1> QED
  BY <1>1, <1>4, <1>5 DEF WalkInv

\* After a replacement nothing more is claimed of a walk.
LEMMA ReplaceKeeps ==
  ASSUME WalkInv(records, walk), Replace
  PROVE  WalkInv(records', walk')
<1>1. WalkType(walk') /\ walk'.writes = walk.writes \cup {"replace"}
  BY WriteOutcome DEF WalkInv, Replace
<1>2. /\ walk'.writes # {} /\ ~(walk'.writes \subseteq {"create"})
      /\ ~(walk'.writes \subseteq {"delete"})
  BY <1>1
<1>3. Undisturbed(records', walk')
  BY <1>2 DEF Undisturbed
<1>4. NothingMissed(records', walk')
  BY <1>2 DEF NothingMissed
<1>5. NothingRepeated(records', walk')
  BY <1>2 DEF NothingRepeated
<1> QED
  BY <1>1, <1>3, <1>4, <1>5 DEF WalkInv

\* Every step keeps the invariant.
LEMMA SearchInvStep ==
  ASSUME SearchInv, [Next]_vars
  PROVE  SearchInv'
<1>1. RecordsInv /\ RecordsInv'
  BY RecordsInvStep DEF SearchInv
<1> SUFFICES ASSUME walk' # None PROVE WalkInv(records', walk')
  BY <1>1 DEF SearchInv
<1>2. CASE Begin
  <2>1. records' = records
    BY <1>2 DEF Begin
  <2> QED
    BY <2>1, <1>1, <1>2, BeginKeeps
<1>3. CASE Page
  <2>1. records' = records /\ WalkInv(records, walk)
    BY <1>3 DEF Page, SearchInv
  <2> QED
    BY <2>1, <1>1, <1>3, PageKeeps
<1>4. CASE Create
  <2>1. WalkInv(records, walk)
    BY <1>4 DEF Create, during, SearchInv
  <2> QED
    BY <2>1, <1>1, <1>4, CreateKeeps
<1>5. CASE Replace
  <2>1. WalkInv(records, walk)
    BY <1>5 DEF Replace, during, SearchInv
  <2> QED
    BY <2>1, <1>5, ReplaceKeeps
<1>6. CASE Delete
  <2>1. WalkInv(records, walk)
    BY <1>6 DEF Delete, during, SearchInv
  <2> QED
    BY <2>1, <1>1, <1>6, DeleteKeeps
<1>7. CASE StoreFails
  <2>1. records' = records /\ WalkInv(records, walk)
    BY <1>7 DEF StoreFails, SearchInv
  <2> QED
    BY <2>1, <1>7, StoreFailsKeeps
<1>8. CASE UNCHANGED vars
  <2>1. records' = records /\ walk' = walk
    BY <1>8 DEF vars
  <2> QED
    BY <2>1 DEF SearchInv
<1> QED
  BY <1>2, <1>3, <1>4, <1>5, <1>6, <1>8, <1>7 DEF Next

\* Whatever is written during a walk, and however its pages fall, the client's place in
\* the list of matches is what the invariant says (executeSearch, applySearch).
THEOREM SearchInvariance == Spec => []SearchInv
<1>1. Init => SearchInv
  <2> SUFFICES ASSUME Init PROVE RecordsInv
    BY DEF Init, SearchInv
  <2>1. PICK S \in {T \in SUBSET Ids : IsFiniteSet(T)} : records \in [S -> Keys \cup {None}]
    BY DEF Init
  <2> QED
    BY <2>1 DEF Init, RecordsInv
<1>2. SearchInv /\ [Next]_vars => SearchInv'
  BY SearchInvStep
<1> QED
  BY <1>1, <1>2, PTL DEF Spec

\* Records stay live or deleted, never both, and an id that was deleted is not drawn again
\* (Create, Delete).
THEOREM TypeCorrect == Spec => []TypeOK
<1>1. SearchInv => TypeOK
  BY DEF SearchInv, RecordsInv, WalkInv, WalkType, TypeOK
<1> QED
  BY <1>1, SearchInvariance, PTL

\* A walk that nothing disturbs sees each match once and in order, creations hide nothing
\* from it and deletions repeat nothing, for any number of resources, any page size and
\* any request (applySearch's order by value and id, and its slice).
THEOREM WalksStaySound == Spec => []WalksAreSound
<1>1. ASSUME SearchInv PROVE WalksAreSound
  <2> SUFFICES ASSUME walk # None, walk.ended, walk.status = 200
               PROVE  /\ walk.writes = {} => walk.seen = reference(records, walk.request)
                      /\ /\ walk.writes = {"create"}
                         /\ walk.request.start <= 1
                         /\ walk.request.count = None \/ walk.request.count > 0
                         => walk.first \subseteq Range(walk.seen)
                      /\ walk.writes = {"delete"} => IsInjective(walk.seen)
    BY DEF WalksAreSound
  <2>1. WalkInv(records, walk)
    BY <1>1 DEF SearchInv
  <2>2. walk.writes = {} => walk.seen = reference(records, walk.request)
    BY <2>1 DEF WalkInv, Undisturbed
  <2>3. ASSUME walk.request.count = None \/ walk.request.count > 0 PROVE ~wantsNone(walk.request)
    <3>1. walk.request.count = None \/ walk.request.count \in Int
      BY <2>1, RequestAssumption DEF WalkInv, WalkType
    <3> QED
      BY <2>3, <3>1 DEF wantsNone
  <2>4. ASSUME walk.writes = {"create"}, walk.request.start <= 1,
               walk.request.count = None \/ walk.request.count > 0
        PROVE  walk.first \subseteq Range(walk.seen)
    BY <2>1, <2>3, <2>4 DEF WalkInv, NothingMissed
  <2>5. walk.writes = {"delete"} => IsInjective(walk.seen)
    BY <2>1 DEF WalkInv, NothingRepeated
  <2> QED
    BY <2>2, <2>4, <2>5
<1> QED
  BY <1>1, SearchInvariance, PTL

\* 413 is answered exactly beyond maximumSearchCandidates live resources of the searched
\* types together, wherever between two types the limit is used up.
THEOREM BoundaryExact == Spec => BoundaryIsExact
<1> DEFINE Exact == Page =>
             LET L == {i \in DOMAIN records : TypeOf[i] \in Range(walk.request.types)} IN
             ~refused(walk.request) =>
               (walk'.status = 413 <=> Cardinality(L) > maximumSearchCandidates)
<1>1. ASSUME SearchInv PROVE Exact
  <2> SUFFICES ASSUME Page, ~refused(walk.request)
               PROVE  walk'.status = 413 <=> Cardinality(searched(walk.request)) > maximumSearchCandidates
    BY DEF searched
  <2>1. RecordsInv /\ WalkType(walk)
    BY <1>1 DEF SearchInv, WalkInv, Page
  <2> QED
    BY <2>1, PageOutcome
<1>2. SearchInv /\ [Next]_vars => [Exact]_vars
  BY <1>1
<1> QED
  BY <1>1, SearchInvariance, PTL DEF BoundaryIsExact, Spec

\* While the store works, 500 is answered exactly when a live resource of the searched
\* types cannot be rendered and the limit does not refuse the search first: the shared
\* limit never makes List fail, however many types there are (executeSearch).
THEOREM ServerErrorsExact == Spec => ServerErrorsAreExact
<1> DEFINE Exact == Page =>
             LET L == {i \in DOMAIN records : TypeOf[i] \in Range(walk.request.types)} IN
             ~refused(walk.request) =>
               (walk'.status = 500 <=> /\ Cardinality(L) <= maximumSearchCandidates
                                       /\ L \cap broken # {})
<1>1. ASSUME SearchInv PROVE Exact
  <2> SUFFICES ASSUME Page, ~refused(walk.request)
               PROVE  walk'.status = 500 <=>
                        /\ Cardinality(searched(walk.request)) <= maximumSearchCandidates
                        /\ searched(walk.request) \cap broken # {}
    BY DEF searched
  <2>1. RecordsInv /\ WalkType(walk)
    BY <1>1 DEF SearchInv, WalkInv, Page
  <2>2. Cardinality(searched(walk.request)) \in Nat /\ maximumSearchCandidates \in Nat
    BY <2>1, LiveFacts, SearchAssumption DEF searched
  <2>3. walk'.status = 500 <=> /\ ~(Cardinality(searched(walk.request)) > maximumSearchCandidates)
                               /\ searched(walk.request) \cap broken # {}
    BY <2>1, PageOutcome
  <2> QED
    BY <2>2, <2>3
<1>2. SearchInv /\ [Next]_vars => [Exact]_vars
  BY <1>1
<1> QED
  BY <1>1, SearchInvariance, PTL DEF ServerErrorsAreExact, Spec
=============================================================================
