-------------------------- MODULE ClientPullProofs --------------------------
(***************************************************************************)
(* Proofs about the pull, the realtime handler and the drain, for every    *)
(* set of rows, page size and number of writes, edits and incidents: the   *)
(* types, NoSilentGap and VersionTellsValue.                               *)
(*                                                                         *)
(* The order is: sequences and the ids that are deferred; the listing of   *)
(* the gateway and its pages; the inductive invariant; what the helpers of *)
(* the handlers do; frames, which say what of the invariant a step need    *)
(* not touch; one lemma per action; the theorems.                          *)
(***************************************************************************)
EXTENDS ClientPull, FiniteSetTheorems, SequenceTheorems, WellFoundedInduction, TLAPS

USE PullAssumption

-----------------------------------------------------------------------------
(***************************************************************************)
(* Sequences and the ids that are deferred.                                *)
(***************************************************************************)
LEMMA Least ==
  ASSUME NEW Bad \in SUBSET Nat, Bad # {}
  PROVE  \E n \in Bad : n \in Nat /\ \A m \in Bad : n <= m
<1>1. PICK n \in Bad : \A m \in Bad : ~(<<m, n>> \in OpToRel(<, Nat))
  BY WFMin, NatLessThanWellFounded, Zenon
<1>2. \A m \in Bad : ~(m < n)
  BY <1>1, Zenon DEF OpToRel
<1> QED BY <1>2

LEMMA HeadTailIs ==
  ASSUME NEW S, NEW s \in Seq(S), s # <<>>
  PROVE  /\ Head(s) \in S /\ Tail(s) \in Seq(S)
         /\ ToSet(s) = {Head(s)} \cup ToSet(Tail(s))
         /\ Head(s) = s[1] /\ 1 \in DOMAIN s
         /\ \A i \in DOMAIN Tail(s) : i + 1 \in DOMAIN s /\ Tail(s)[i] = s[i + 1] /\ i + 1 # 1
<1>1. /\ Head(s) \in S /\ Tail(s) \in Seq(S) /\ Len(Tail(s)) = Len(s) - 1
      /\ \A i \in 1..Len(Tail(s)) : Tail(s)[i] = s[i + 1]
  BY HeadTailProperties
<1>2. Len(s) \in Nat /\ Len(s) # 0 /\ DOMAIN s = 1..Len(s) /\ DOMAIN Tail(s) = 1..Len(Tail(s))
  BY <1>1
<1>3. Head(s) = s[1]
  OBVIOUS
<1>4. \A i \in DOMAIN s : i = 1 \/ (i - 1 \in DOMAIN Tail(s) /\ Tail(s)[i - 1] = s[i])
  BY <1>1, <1>2
<1>5. \A i \in DOMAIN Tail(s) : i + 1 \in DOMAIN s /\ Tail(s)[i] = s[i + 1] /\ i + 1 # 1
  BY <1>1, <1>2
<1>6. ToSet(s) \subseteq {Head(s)} \cup ToSet(Tail(s))
  BY <1>2, <1>3, <1>4 DEF ToSet
<1>7. {Head(s)} \cup ToSet(Tail(s)) \subseteq ToSet(s)
  <2>1. 1 \in DOMAIN s
    BY <1>2
  <2> QED BY <2>1, <1>3, <1>5 DEF ToSet
<1>8. 1 \in DOMAIN s
  BY <1>2
<1> QED BY <1>1, <1>3, <1>5, <1>6, <1>7, <1>8

LEMMA AppendIs ==
  ASSUME NEW S, NEW s \in Seq(S), NEW x \in S
  PROVE  Append(s, x) \in Seq(S) /\ ToSet(Append(s, x)) = ToSet(s) \cup {x}
<1>1. /\ Append(s, x) \in Seq(S) /\ DOMAIN s = 1..Len(s) /\ Len(s) \in Nat
      /\ DOMAIN Append(s, x) = 1..(Len(s) + 1)
      /\ Append(s, x)[Len(s) + 1] = x
      /\ \A i \in 1..Len(s) : Append(s, x)[i] = s[i]
  OBVIOUS
<1> QED BY <1>1 DEF ToSet

\* The ids that are left are the last ones.
LEMMA ClampIs ==
  ASSUME NEW ids \in Seq(Rows)
  PROVE  /\ Clamp(ids) \in Seq(Rows) /\ Len(Clamp(ids)) <= DeferMax
         /\ IsInjective(ids) => IsInjective(Clamp(ids))
<1> DEFINE n == Len(ids)
           first == IF n > DeferMax THEN n - DeferMax + 1 ELSE 1
<1>1. n \in Nat /\ first \in Int /\ first >= 1 /\ first <= n + 1 /\ n - first + 1 <= DeferMax
  OBVIOUS
<1>2. Clamp(ids) = SubSeq(ids, first, n)
  BY DEF Clamp
<1>3. \A i \in first..n : ids[i] \in Rows
  BY <1>1
<1> HIDE DEF first, n
<1>4. /\ Clamp(ids) \in Seq(Rows)
      /\ Len(Clamp(ids)) = IF first <= n THEN n - first + 1 ELSE 0
      /\ \A i \in 1..n - first + 1 : Clamp(ids)[i] = ids[first + i - 1]
  BY <1>1, <1>2, <1>3, SubSeqProperties
<1>5. \A i \in DOMAIN Clamp(ids) : first + i - 1 \in DOMAIN ids /\ Clamp(ids)[i] = ids[first + i - 1]
  <2>1. \A i \in DOMAIN Clamp(ids) : i \in 1..n - first + 1
    BY <1>1, <1>4
  <2>2. \A i \in 1..n - first + 1 : first + i - 1 \in 1..n
    BY <1>1
  <2>3. DOMAIN ids = 1..n
    BY DEF n
  <2> QED BY <1>4, <2>1, <2>2, <2>3
<1>6. \A i, j \in DOMAIN Clamp(ids) : i \in Int /\ j \in Int /\ (first + i - 1 = first + j - 1 => i = j)
  BY <1>1, <1>4
<1>7. Len(Clamp(ids)) <= DeferMax
  BY <1>1, <1>4
<1> QED BY <1>4, <1>5, <1>6, <1>7 DEF IsInjective

LEMMA OneMore ==
  ASSUME NEW n \in Nat, NEW s, NEW t, NEW x,
         DOMAIN s = 1..n, DOMAIN t = 1..(n + 1), t[n + 1] = x,
         \A i \in 1..n : t[i] = s[i] /\ s[i] # x,
         IsInjective(s)
  PROVE  IsInjective(t)
<1>1. \A i, j \in 1..n : s[i] = s[j] => i = j
  BY DEF IsInjective
<1>2. \A i \in 1..(n + 1) : i = n + 1 \/ i \in 1..n
  OBVIOUS
<1> QED BY <1>1, <1>2 DEF IsInjective

LEMMA AppendKeepsInjective ==
  ASSUME NEW s \in Seq(Rows), NEW r \in Rows, r \notin ToSet(s), IsInjective(s)
  PROVE  Append(s, r) \in Seq(Rows) /\ IsInjective(Append(s, r))
<1>1. /\ DOMAIN s = 1..Len(s) /\ Len(s) \in Nat
      /\ DOMAIN Append(s, r) = 1..(Len(s) + 1)
      /\ Append(s, r)[Len(s) + 1] = r
      /\ \A i \in 1..Len(s) : Append(s, r)[i] = s[i]
  OBVIOUS
<1>2. \A i \in 1..Len(s) : s[i] # r
  BY <1>1 DEF ToSet
<1>3. PICK n, t : n = Len(s) /\ t = Append(s, r)
  OBVIOUS
<1>4. /\ n \in Nat /\ DOMAIN s = 1..n /\ DOMAIN t = 1..(n + 1) /\ t[n + 1] = r
      /\ \A i \in 1..n : t[i] = s[i] /\ s[i] # r
  BY <1>1, <1>2, <1>3
<1>5. IsInjective(t)
  BY <1>4, OneMore
<1>6. IsInjective(Append(s, r))
  BY <1>3, <1>5, Zenon
<1>7. Append(s, r) \in Seq(Rows)
  OBVIOUS
<1> QED BY <1>6, <1>7

\* applyDeferred() leaves ids, each of them once, and no more than the bound.
LEMMA AddToIs ==
  ASSUME NEW ids \in Seq(Rows), NEW more \in Seq(Rows), IsInjective(ids)
  PROVE  /\ AddTo(ids, more) \in Seq(Rows) /\ Len(AddTo(ids, more)) <= DeferMax
         /\ IsInjective(AddTo(ids, more))
<1> DEFINE L == Len(more)
           Step(f, n) == IF n = 0 THEN ids
                         ELSE IF more[n] \in ToSet(f[n - 1]) THEN f[n - 1] ELSE Append(f[n - 1], more[n])
           Adds(f) == f = [n \in 0..L |-> Step(f, n)]
           Upto(f, k) == \A n \in 0..k : f[n] = Step(f, n)
           added == CHOOSE f : Adds(f)
<1>1. AddTo(ids, more) = Clamp(added[L])
  BY Zenon DEF AddTo
<1>2. L \in Nat
  OBVIOUS
<1>3. ASSUME NEW k \in 0..L, k # 0, NEW f, Upto(f, k - 1)
      PROVE  \E h : Upto(h, k)
  <2> DEFINE h == [n \in 0..k |-> IF n = k THEN Step(f, k) ELSE f[n]]
  <2>1. ASSUME NEW n \in 0..k PROVE h[n] = Step(h, n)
    <3>1. n # 0 => n - 1 \in 0..k /\ n - 1 # k /\ h[n - 1] = f[n - 1]
      BY <1>2, <1>3
    <3>2. n # k => n \in 0..(k - 1)
      BY <1>2, <1>3
    <3>3. h[n] = Step(f, n)
      BY <3>2, <1>3
    <3>4. Step(f, n) = Step(h, n)
      BY <3>1
    <3> QED BY <3>3, <3>4
  <2> HIDE DEF h
  <2> QED BY <2>1
<1> DEFINE Missing == {k \in 0..L : ~\E f : Upto(f, k)}
<1>4. Missing = {}
  <2>1. SUFFICES ASSUME Missing # {} PROVE FALSE
    OBVIOUS
  <2>2. PICK k \in Missing : \A m \in Missing : k <= m
    <3>1. Missing \in SUBSET Nat
      BY <1>2
    <3> HIDE DEF Missing
    <3> QED BY <2>1, <3>1, Least
  <2>3. k \in 0..L
    OBVIOUS
  <2>4. CASE k = 0
    <3> DEFINE h == [n \in 0..0 |-> ids]
    <3>1. \A n \in 0..0 : n = 0 /\ h[n] = ids
      OBVIOUS
    <3>2. Upto(h, 0)
      BY <3>1
    <3> QED BY <2>4, <3>2
  <2>5. CASE k # 0
    <3>1. k - 1 \in 0..L /\ ~(k <= k - 1)
      BY <1>2, <2>3, <2>5
    <3>2. PICK f : Upto(f, k - 1)
      BY <2>2, <3>1
    <3> HIDE DEF Upto
    <3> QED BY <1>3, <2>3, <2>5, <3>2
  <2> QED BY <2>4, <2>5
<1>5. \E f : Adds(f)
  <2>1. PICK f : Upto(f, L)
    <3> HIDE DEF Upto
    <3> QED BY <1>2, <1>4
  <2> DEFINE h == [n \in 0..L |-> f[n]]
  <2>2. ASSUME NEW n \in 0..L PROVE f[n] = Step(h, n)
    <3>1. n # 0 => n - 1 \in 0..L /\ h[n - 1] = f[n - 1]
      BY <1>2
    <3>2. f[n] = Step(f, n)
      BY <2>1
    <3>3. Step(f, n) = Step(h, n)
      BY <3>1
    <3> QED BY <3>2, <3>3
  <2>3. h = [n \in 0..L |-> Step(h, n)]
    BY <2>2
  <2> QED BY <2>3
<1>6. Adds(added)
  <2> HIDE DEF Adds
  <2> QED BY <1>5
<1> HIDE DEF added
<1> DEFINE Good(s) == s \in Seq(Rows) /\ IsInjective(s)
           Bad == {n \in 0..L : ~Good(added[n])}
<1>7. Bad = {}
  <2>1. SUFFICES ASSUME Bad # {} PROVE FALSE
    OBVIOUS
  <2>2. PICK k \in Bad : \A m \in Bad : k <= m
    <3>1. Bad \in SUBSET Nat
      BY <1>2
    <3> HIDE DEF Bad
    <3> QED BY <2>1, <3>1, Least
  <2>3. k \in 0..L /\ added[k] = Step(added, k)
    BY <1>6
  <2>4. CASE k = 0
    BY <2>2, <2>3, <2>4
  <2>5. CASE k # 0
    <3>1. k - 1 \in 0..L /\ ~(k <= k - 1) /\ k \in 1..L
      BY <1>2, <2>3, <2>5
    <3>2. Good(added[k - 1])
      BY <2>2, <3>1
    <3>3. more[k] \in Rows
      BY <3>1
    <3>4. Good(added[k])
      <4>1. CASE more[k] \in ToSet(added[k - 1])
        BY <2>3, <2>5, <3>2, <4>1
      <4>2. CASE more[k] \notin ToSet(added[k - 1])
        <5>1. added[k] = Append(added[k - 1], more[k])
          BY <2>3, <2>5, <4>2
        <5> DEFINE before == added[k - 1]
        <5>2. before \in Seq(Rows) /\ IsInjective(before) /\ more[k] \notin ToSet(before)
          BY <3>2, <4>2
        <5>3. added[k] = Append(before, more[k])
          BY <5>1
        <5> HIDE DEF before
        <5>4. Append(before, more[k]) \in Seq(Rows)
          BY <3>3, <5>2
        <5>5. IsInjective(Append(before, more[k]))
          BY <3>3, <5>2, AppendKeepsInjective, Zenon
        <5> QED BY <5>3, <5>4, <5>5
      <4> QED BY <4>1, <4>2
    <3> QED BY <2>2, <3>4
  <2> QED BY <2>4, <2>5
<1>8. Good(added[L])
  BY <1>2, <1>7
<1> QED BY <1>1, <1>8, ClampIs

-----------------------------------------------------------------------------
(***************************************************************************)
(* The listing of the gateway.                                             *)
(***************************************************************************)
CloudType == [Rows -> [write: Nat, at: Nat, gone: BOOLEAN]]

LEMMA PrecedesOrders ==
  ASSUME cloud \in CloudType, NEW q \in Rows, NEW r \in Rows, NEW s \in Rows
  PROVE  /\ Precedes(q, q)
         /\ Precedes(q, r) \/ Precedes(r, q)
         /\ Precedes(q, r) /\ Precedes(r, q) => q = r
         /\ Precedes(q, r) /\ Precedes(r, s) => Precedes(q, s)
         /\ Precedes(q, r) => cloud[q].at <= cloud[r].at
<1>1. /\ q \in Nat /\ r \in Nat /\ s \in Nat
      /\ cloud[q].at \in Nat /\ cloud[r].at \in Nat /\ cloud[s].at \in Nat
  BY DEF CloudType
<1> QED BY <1>1 DEF Precedes

\* Every row from the cursor on is listed, once, and the stamps never go back.
LEMMA ListingIs ==
  ASSUME cloud \in CloudType, cursor \in Nat
  PROVE  /\ Listing \in Seq(Rows)
         /\ IsInjective(Listing)
         /\ \A i, j \in DOMAIN Listing : i <= j => cloud[Listing[i]].at <= cloud[Listing[j]].at
         /\ \A r \in Rows : cloud[r].at >= cursor => \E i \in DOMAIN Listing : Listing[i] = r
<1> DEFINE rows == {r \in Rows : cloud[r].at >= cursor}
           Before(r) == {q \in rows : Precedes(q, r)}
           N == Cardinality(rows)
           at(i) == CHOOSE r \in rows : Cardinality(Before(r)) = i
           rank == [r \in rows |-> Cardinality(Before(r))]
<1>1. Listing = [i \in 1..N |-> at(i)]
  BY Zenon DEF Listing
<1>2. rows \subseteq Rows /\ IsFiniteSet(rows) /\ N \in Nat
  BY FS_Subset, FS_CardinalityType
<1>3. \A r \in rows : Before(r) \subseteq rows
  OBVIOUS
<1>4. \A r \in rows : r \in Before(r) /\ \A q \in rows : q \in Before(r) <=> Precedes(q, r)
  BY PrecedesOrders
<1>5. \A r \in Rows : cloud[r].at >= cursor => r \in rows
  OBVIOUS
<1> HIDE DEF rows, Before
<1>6. \A r \in rows : IsFiniteSet(Before(r)) /\ Cardinality(Before(r)) \in 1..N
  <2> SUFFICES ASSUME NEW r \in rows
               PROVE  IsFiniteSet(Before(r)) /\ Cardinality(Before(r)) \in 1..N
    OBVIOUS
  <2>1. IsFiniteSet(Before(r)) /\ Cardinality(Before(r)) <= N
    BY <1>2, <1>3, FS_Subset
  <2>2. Cardinality(Before(r)) \in Nat /\ Cardinality(Before(r)) # 0
    BY <2>1, <1>4, FS_CardinalityType, FS_EmptySet
  <2> QED BY <1>2, <2>1, <2>2
<1>7. ASSUME NEW r \in rows, NEW s \in rows, r # s, Precedes(r, s)
      PROVE  Cardinality(Before(r)) < Cardinality(Before(s))
  <2>1. Before(r) \subseteq Before(s)
    BY <1>2, <1>3, <1>4, <1>7, PrecedesOrders
  <2>2. s \in Before(s) /\ s \notin Before(r)
    BY <1>2, <1>4, <1>7, PrecedesOrders
  <2>3. /\ Cardinality(Before(r)) <= Cardinality(Before(s))
        /\ Cardinality(Before(r)) # Cardinality(Before(s))
    BY <1>6, <2>1, <2>2, FS_Subset
  <2>4. Cardinality(Before(r)) \in Nat /\ Cardinality(Before(s)) \in Nat
    BY <1>2, <1>6
  <2> QED BY <2>3, <2>4
<1>8. \A r, s \in rows : Cardinality(Before(r)) <= Cardinality(Before(s)) => Precedes(r, s)
  <2> SUFFICES ASSUME NEW r \in rows, NEW s \in rows,
                      Cardinality(Before(r)) <= Cardinality(Before(s)), ~Precedes(r, s)
               PROVE  FALSE
    OBVIOUS
  <2>1. Precedes(s, r) /\ r # s
    BY <1>2, PrecedesOrders
  <2>2. Cardinality(Before(s)) < Cardinality(Before(r))
    BY <2>1, <1>7
  <2>3. Cardinality(Before(r)) \in Nat /\ Cardinality(Before(s)) \in Nat
    BY <1>2, <1>6
  <2> QED BY <2>2, <2>3
<1>9. \A r, s \in rows : Cardinality(Before(r)) = Cardinality(Before(s)) => r = s
  <2> SUFFICES ASSUME NEW r \in rows, NEW s \in rows, Cardinality(Before(r)) = Cardinality(Before(s))
               PROVE  r = s
    OBVIOUS
  <2>1. Cardinality(Before(r)) \in Nat /\ Cardinality(Before(s)) \in Nat
    BY <1>2, <1>6
  <2>2. Precedes(r, s) /\ Precedes(s, r)
    BY <2>1, <1>8
  <2> QED BY <1>2, <2>2, PrecedesOrders
<1>10. \A i \in 1..N : at(i) \in rows /\ Cardinality(Before(at(i))) = i
  <2>1. rank \in Injection(rows, 1..N)
    <3>1. rank \in [rows -> 1..N] /\ \A r \in rows : rank[r] = Cardinality(Before(r))
      BY <1>6
    <3> HIDE DEF rank
    <3> QED BY <3>1, <1>9 DEF Injection, IsInjective
  <2>2. IsFiniteSet(1..N) /\ Cardinality(1..N) = N
    BY <1>2, FS_Interval
  <2>3. rank \in Surjection(rows, 1..N)
    BY <2>1, <2>2, FS_Injection
  <2>4. \A i \in 1..N : \E r \in rows : rank[r] = i
    BY <2>3 DEF Surjection
  <2>5. \A i \in 1..N : \E r \in rows : Cardinality(Before(r)) = i
    BY <2>4
  <2> QED BY <2>5
<1> HIDE DEF at
<1>11. /\ Listing \in Seq(Rows) /\ DOMAIN Listing = 1..N
       /\ \A i \in 1..N : Listing[i] = at(i)
  <2>1. \A i \in 1..N : at(i) \in Rows
    BY <1>2, <1>10
  <2> HIDE DEF N
  <2> QED BY <1>1, <1>2, <2>1
<1>12. IsInjective(Listing)
  BY <1>10, <1>11 DEF IsInjective
<1>13. ASSUME NEW i \in DOMAIN Listing, NEW j \in DOMAIN Listing, i <= j
       PROVE  cloud[Listing[i]].at <= cloud[Listing[j]].at
  <2>1. Precedes(at(i), at(j)) /\ at(i) \in Rows /\ at(j) \in Rows
    BY <1>2, <1>8, <1>10, <1>11, <1>13
  <2> QED BY <1>11, <2>1, PrecedesOrders
<1>14. ASSUME NEW r \in rows PROVE \E i \in DOMAIN Listing : Listing[i] = r
  <2> DEFINE i == Cardinality(Before(r))
  <2>1. i \in 1..N
    BY <1>6
  <2>2. at(i) = r
    BY <1>9, <1>10, <2>1
  <2> QED BY <1>11, <2>1, <2>2
<1> QED BY <1>5, <1>11, <1>12, <1>13, <1>14

\* A page: a part of the listing.  A row from the cursor on is before it, on
\* it, or after it with a stamp that is not before the last one of the page.
LEMMA PageIs ==
  ASSUME cloud \in CloudType, cursor \in Nat, NEW o \in Nat, Page(o) # <<>>
  PROVE  /\ Page(o) \in Seq(Rows) /\ IsInjective(Page(o))
         /\ Last(Page(o)) \in Rows /\ Len(Page(o)) \in Nat
         /\ \A r \in Rows : cloud[r].at >= cursor =>
              \/ r \in ToSet(SubSeq(Listing, 1, UpTo(o)))
              \/ r \in ToSet(Page(o))
              \/ cloud[r].at >= cloud[Last(Page(o))].at
<1> DEFINE n == Len(Listing)
<1>1. /\ Listing \in Seq(Rows) /\ IsInjective(Listing)
      /\ \A i, j \in DOMAIN Listing : i <= j => cloud[Listing[i]].at <= cloud[Listing[j]].at
      /\ \A r \in Rows : cloud[r].at >= cursor => \E i \in DOMAIN Listing : Listing[i] = r
  BY ListingIs
<1>2. n \in Nat /\ DOMAIN Listing = 1..n /\ \A i \in 1..n : Listing[i] \in Rows
  BY <1>1
<1>3. \A k \in Nat : UpTo(k) = IF k <= n THEN k ELSE n
  <2> SUFFICES ASSUME NEW k \in Nat PROVE UpTo(k) = IF k <= n THEN k ELSE n
    OBVIOUS
  <2> DEFINE Lowest(x) == x \in {k, n} /\ \A y \in {k, n} : x <= y
             m == IF k <= n THEN k ELSE n
  <2>1. \A x : Lowest(x) <=> x = m
    BY <1>2
  <2>2. UpTo(k) = CHOOSE x : Lowest(x)
    BY Zenon DEF UpTo, Min
  <2> HIDE DEF Lowest, m
  <2>3. UpTo(k) = m
    BY <2>1, <2>2
  <2> QED BY <2>3 DEF m
<1> DEFINE u == UpTo(o + PageSize)
           page == SubSeq(Listing, o + 1, u)
<1>4. Page(o) = page
  BY DEF Page
<1>5. u \in Nat /\ u <= n
  BY <1>2, <1>3
<1> HIDE DEF u, n
<1>6. \A i \in o + 1..u : Listing[i] \in Rows
  BY <1>2, <1>5
<1>7. /\ page \in Seq(Rows)
      /\ Len(page) = IF o + 1 <= u THEN u - (o + 1) + 1 ELSE 0
      /\ \A i \in 1..u - (o + 1) + 1 : page[i] = Listing[o + 1 + i - 1]
  BY <1>5, <1>6, SubSeqProperties
<1>8. page # <<>>
  BY <1>4
<1> HIDE DEF page
<1>9. /\ o + 1 <= u /\ Len(page) = u - o /\ DOMAIN page = 1..u - o
      /\ \A i \in 1..u - o : page[i] = Listing[o + i]
  BY <1>5, <1>7, <1>8
<1>10. UpTo(o) = o
  BY <1>2, <1>3, <1>5, <1>9
<1>11. Last(page) = Listing[u] /\ u \in DOMAIN Listing
  BY <1>2, <1>5, <1>9 DEF Last
<1>12. IsInjective(page)
  <2>1. \A i \in 1..u - o : o + i \in DOMAIN Listing
    BY <1>2, <1>5
  <2>2. \A i, j \in 1..u - o : o + i = o + j => i = j
    BY <1>5
  <2> QED BY <1>1, <1>9, <2>1, <2>2 DEF IsInjective
<1>13. ASSUME NEW r \in Rows, cloud[r].at >= cursor
       PROVE  \/ r \in ToSet(SubSeq(Listing, 1, o))
              \/ r \in ToSet(page)
              \/ cloud[r].at >= cloud[Last(page)].at
  <2>1. PICK i \in 1..n : Listing[i] = r
    BY <1>1, <1>2, <1>13
  <2>2. CASE i <= o
    <3> DEFINE first == SubSeq(Listing, 1, o)
    <3>1. \A k \in 1..o : Listing[k] \in Rows
      BY <1>2, <1>5, <1>9
    <3>2. first \in Seq(Rows) /\ Len(first) = o /\ \A k \in 1..o - 1 + 1 : first[k] = Listing[1 + k - 1]
      BY <2>1, <2>2, <3>1, SubSeqProperties
    <3> HIDE DEF first
    <3>3. i \in DOMAIN first /\ first[i] = r
      BY <2>1, <2>2, <3>2
    <3>4. r \in ToSet(first)
      BY <3>3 DEF ToSet
    <3> QED BY <3>4 DEF first
  <2>3. CASE o < i /\ i <= u
    <3>1. i - o \in 1..u - o /\ page[i - o] = Listing[o + (i - o)] /\ o + (i - o) = i
      BY <1>2, <1>5, <1>9, <2>1, <2>3
    <3> QED BY <1>9, <2>1, <3>1 DEF ToSet
  <2>4. CASE u < i
    <3>1. cloud[Listing[u]].at <= cloud[Listing[i]].at
      BY <1>1, <1>2, <1>5, <1>11, <2>1, <2>4
    <3>2. cloud[Listing[u]].at \in Nat /\ cloud[r].at \in Nat
      BY <1>2, <1>11 DEF CloudType
    <3> QED BY <1>11, <2>1, <3>1, <3>2
  <2> QED BY <1>2, <1>5, <2>1, <2>2, <2>3, <2>4
<1>14. Last(page) \in Rows /\ Len(page) \in Nat
  BY <1>2, <1>5, <1>7, <1>11
<1> QED BY <1>4, <1>7, <1>10, <1>12, <1>13, <1>14

-----------------------------------------------------------------------------
(***************************************************************************)
(* The inductive invariant.  Shape and Phases say what the variables hold  *)
(* and which of them are empty when; Bounds counts; Clocks orders versions *)
(* and times; Told and Kept carry the two properties.                      *)
(***************************************************************************)
CopyType == [id: Rows, write: Nat, at: Nat, gone: BOOLEAN]
RecordType == [here: {"absent", "live", "deleted"}, version: Nat, value: Nat, at: Nat, time: Int]
OpType == [write: Nat, base: Nat]
IdsType == {ids \in Seq(Rows) : IsInjective(ids) /\ Len(ids) <= DeferMax}
JobType == [pc: {"idle", "read", "store", "tombstone"}, row: CopyType \cup {NoRow}, seen: RecordType]
PassType == [pc: {"fetch", "rows"}, offset: Nat, todo: Seq(CopyType), fresh: SUBSET CopyType,
             more: BOOLEAN, tail: Nat, covered: SUBSET (Rows \X Nat)]
DrainType == [on: BOOLEAN, ids: Seq(Rows), todo: Seq(CopyType), blocked: Seq(Rows)]

Busy(w) == job[w].pc # "idle"

\* A writer at work has a copy of a row.  A live copy is stored, a tombstone
\* deletes; only the drain looks at the queue before it reads the row.
Working(w) ==
  Busy(w) => /\ job[w].row \in CopyType
             /\ job[w].pc = "store" => ~job[w].row.gone
             /\ job[w].pc = "tombstone" => job[w].row.gone
             /\ job[w].pc = "read" => w = "drain"

JobsOK == job \in [Writers -> JobType] /\ \A w \in Writers : Working(w)

Shape ==
  /\ cloud \in CloudType /\ events \subseteq CopyType
  /\ clock \in Nat /\ written \in Nat /\ edited \in Nat /\ incidents \in Nat
  /\ local \in [Rows -> RecordType]
  /\ saving \in [Rows -> OpType] /\ pending \in [Rows -> OpType]
  /\ cursor \in Nat /\ pass \in PassType /\ drain \in DrainType /\ JobsOK
  /\ deferred \in IdsType /\ stored \in IdsType
  /\ persistDue \in BOOLEAN /\ hydrated \in BOOLEAN
  /\ missed \in [Rows -> SUBSET Causes] /\ unsent \subseteq Rows /\ ahead \subseteq Rows

\* The copies of a page are of different rows, taken up or not; the rows that
\* wait for the end of the page are live.
Pages ==
  /\ \A i, j \in DOMAIN pass.todo : pass.todo[i].id = pass.todo[j].id => i = j
  /\ \A a, b \in pass.fresh : a.id = b.id => a = b
  /\ \A a \in pass.fresh : ~a.gone /\ \A i \in DOMAIN pass.todo : pass.todo[i].id # a.id

Phases ==
  /\ Pages
  /\ pass.pc = "fetch" => pass.todo = <<>> /\ pass.fresh = {} /\ ~Busy("pull")
  /\ ~drain.on => drain.ids = <<>> /\ drain.todo = <<>> /\ drain.blocked = <<>> /\ ~Busy("drain")
  /\ drain.ids # <<>> => drain.todo = <<>> /\ drain.blocked = <<>> /\ ~Busy("drain")
  /\ drain.on => hydrated

\* The clock ticks for every write of another device, for every edit, and once
\* more when the operation of an edit is written.
Bounds ==
  /\ edited <= MaxEdits /\ incidents <= MaxIncidents
  /\ written <= edited + MaxWrites + 1
  /\ clock + Cardinality({r \in Rows : saving[r] # NoOp})
           + Cardinality({r \in Rows : pending[r] # NoOp}) <= written + edited + 1

\* What a copy says of its row: a version the row has had, and if it is the
\* last one, all of it.
Past(copy) ==
  /\ copy.write <= cloud[copy.id].write
  /\ copy.write = cloud[copy.id].write => copy = Copy(copy.id)
  /\ copy.at <= cloud[copy.id].at

Copies ==
  /\ \A copy \in events \cup ToSet(pass.todo) \cup pass.fresh \cup ToSet(drain.todo) : Past(copy)
  /\ \A w \in Writers : Busy(w) => Past(job[w].row)
  /\ \A v \in pass.covered : v[2] <= cloud[v[1]].write

\* The row has an edit that is not in the cloud yet, that was given up, or that
\* was made while the clock of the device was ahead.
Dirty(r) == saving[r] # NoOp \/ pending[r] # NoOp \/ r \in unsent \/ r \in ahead

\* What a record of the local table, or one a writer has read, knows: only an
\* edit can give a row a time after the one in the cloud.
Behind(r, record) ==
  /\ record.version <= cloud[r].write /\ record.value <= written
  /\ record.at <= cloud[r].at
  /\ record.time <= clock \/ r \in ahead
  /\ record.here = "live" => record.time <= cloud[r].at \/ Dirty(r)

Made(op) == op # NoOp => op.base < op.write /\ op.write <= written

Clocks ==
  /\ \A r \in Rows : cloud[r].at <= clock /\ cloud[r].write <= written
  /\ cursor <= clock /\ pass.tail <= clock
  /\ Copies
  /\ \A r \in Rows : Behind(r, local[r]) /\ Made(saving[r]) /\ Made(pending[r])
  /\ \A w \in Writers : Busy(w) => Behind(job[w].row.id, job[w].seen)

\* A row with the last version has the last value, or an edit of its own.
Told ==
  \A r \in Rows : local[r].here = "live" /\ local[r].version = cloud[r].write =>
    local[r].value = cloud[r].write \/ Dirty(r)

\* A copy of the last version of the row.
Current(copy, r) == copy.id = r /\ copy.write = cloud[r].write

\* The drain will read the row, or has read its last version.
Held(r) ==
  \/ r \in ToSet(deferred) \cup ToSet(drain.ids) \cup ToSet(drain.blocked)
  \/ ~hydrated /\ r \in ToSet(stored)
  \/ \E copy \in ToSet(drain.todo) : Current(copy, r)
  \/ Busy("drain") /\ Current(job["drain"].row, r)

\* The pull holds the last version of the row, or has not come to it yet.
InPull(r) ==
  \/ \E copy \in ToSet(pass.todo) \cup pass.fresh : Current(copy, r)
  \/ Busy("pull") /\ Current(job["pull"].row, r)
ToCome(r) == cloud[r].at >= pass.tail /\ Version(r) \notin pass.covered

Known(r) == HasVersion(r, local[r]) \/ missed[r] # {}
Kept == \A r \in Rows :
  Known(r) \/ Held(r) \/ (cloud[r].at >= cursor /\ (ToCome(r) \/ InPull(r)))

IInv == Shape /\ Phases /\ Bounds /\ Clocks /\ Told /\ Kept

-----------------------------------------------------------------------------
(***************************************************************************)
(* What the helpers of the handlers do.                                    *)
(***************************************************************************)
LEMMA Constants ==
  /\ Absent \in RecordType /\ Absent.here = "absent"
  /\ NoOp \in OpType
  /\ IdleJob \in JobType /\ IdleJob.pc = "idle"
  /\ IdlePass \in PassType /\ IdlePass.pc = "fetch" /\ IdlePass.todo = <<>> /\ IdlePass.fresh = {}
  /\ IdlePass.tail = 0 /\ IdlePass.covered = {}
  /\ IdleDrain \in DrainType /\ ~IdleDrain.on /\ IdleDrain.ids = <<>> /\ IdleDrain.todo = <<>> /\ IdleDrain.blocked = <<>>
  /\ <<>> \in IdsType /\ ToSet(<<>>) = {}
<1>1. <<>> \in IdsType
  BY DEF IdsType, IsInjective
<1>2. ToSet(<<>>) = {}
  BY DEF ToSet
<1> QED BY <1>1, <1>2 DEF Absent, RecordType, NoOp, OpType, IdleJob, JobType, NoRow,
                           IdlePass, PassType, IdleDrain, DrainType

LEMMA WorkIs ==
  ASSUME JobsOK, NEW w \in Writers, NEW pc \in {"read", "store", "tombstone"},
         NEW row \in CopyType, NEW seen \in RecordType, Work(w, pc, row, seen),
         pc = "store" => ~row.gone, pc = "tombstone" => row.gone, pc = "read" => w = "drain"
  PROVE  /\ JobsOK'
         /\ job'[w].pc = pc /\ job'[w].row = row /\ job'[w].seen = seen
         /\ \A v \in Writers : v # w => job'[v] = job[v]
<1> DEFINE x == [pc |-> pc, row |-> row, seen |-> seen]
<1>1. x \in JobType /\ x.pc = pc /\ x.row = row /\ x.seen = seen
  BY DEF JobType
<1>2. job' = [job EXCEPT ![w] = x]
  BY DEF Work
<1> HIDE DEF x
<1>3. job'[w] = x /\ \A v \in Writers : v # w => job'[v] = job[v]
  BY <1>2 DEF JobsOK
<1>4. job' \in [Writers -> JobType]
  BY <1>1, <1>2 DEF JobsOK
<1>5. \A v \in Writers : Working(v)'
  BY <1>1, <1>3 DEF JobsOK, Working, Busy
<1> QED BY <1>1, <1>3, <1>4, <1>5 DEF JobsOK

LEMMA RestIs ==
  ASSUME JobsOK, NEW w \in Writers, Rest(w)
  PROVE  /\ JobsOK' /\ job'[w].pc = "idle"
         /\ \A v \in Writers : v # w => job'[v] = job[v]
<1>1. job' = [job EXCEPT ![w] = IdleJob]
  BY DEF Rest
<1>2. job'[w] = IdleJob /\ \A v \in Writers : v # w => job'[v] = job[v]
  BY <1>1 DEF JobsOK
<1>3. job' \in [Writers -> JobType]
  BY <1>1, Constants DEF JobsOK
<1>4. \A v \in Writers : Working(v)'
  BY <1>2, Constants DEF JobsOK, Working, Busy
<1> QED BY <1>2, <1>3, <1>4, Constants DEF JobsOK

LEMMA TombstoneIs ==
  ASSUME JobsOK, NEW w \in Writers, NEW row \in CopyType, row.gone, NEW seen \in RecordType,
         Tombstone(w, row, seen)
  PROVE  /\ JobsOK'
         /\ \A v \in Writers : v # w => job'[v] = job[v]
         /\ \/ job'[w].pc = "tombstone" /\ job'[w].row = row /\ job'[w].seen = seen
            \/ job'[w].pc = "idle" /\ seen.here # "live"
<1>1. CASE Work(w, "tombstone", row, seen)
  BY <1>1, WorkIs
<1>2. CASE seen.here # "live" /\ Rest(w)
  BY <1>2, RestIs
<1> QED BY <1>1, <1>2 DEF Tombstone

\* A cause is only noted, never taken back, where nothing is stored.
Noted == \A q \in Rows : missed[q] \subseteq missed'[q]

LEMMA MissIs ==
  ASSUME missed \in [Rows -> SUBSET Causes], NEW rows, NEW cause \in Causes, Miss(rows, cause)
  PROVE  /\ missed' \in [Rows -> SUBSET Causes] /\ Noted /\ unsent' = unsent /\ ahead' = ahead
         /\ \A q \in Rows : q \in rows => HasVersion(q, local[q]) \/ missed'[q] # {}
<1>1. \A q \in Rows : missed'[q] = missed[q] \cup (IF q \in rows /\ ~HasVersion(q, local[q]) THEN {cause} ELSE {})
  BY DEF Miss
<1>2. missed' = [q \in Rows |->
        missed[q] \cup (IF q \in rows /\ ~HasVersion(q, local[q]) THEN {cause} ELSE {})]
  BY DEF Miss
<1>3. missed' \in [Rows -> SUBSET Causes]
  BY <1>2
<1> QED BY <1>1, <1>3 DEF Miss, Noted

LEMMA AddToType ==
  ASSUME NEW ids \in IdsType, NEW more \in Seq(Rows)
  PROVE  AddTo(ids, more) \in IdsType
BY AddToIs DEF IdsType

\* No id is lost by applyDeferred() but those it drops.
LEMMA AddsAll ==
  ASSUME NEW ids, NEW more, NEW r \in ToSet(ids) \cup ToSet(more)
  PROVE  r \in ToSet(AddTo(ids, more)) \/ r \in DroppedBy(ids, more)
BY DEF DroppedBy

LEMMA DeferIs ==
  ASSUME deferred \in IdsType, missed \in [Rows -> SUBSET Causes], NEW r \in Rows, deferRemoteMerge(r)
  PROVE  /\ deferred' \in IdsType /\ persistDue' \in BOOLEAN
         /\ stored' = stored /\ hydrated' = hydrated /\ unsent' = unsent /\ ahead' = ahead
         /\ missed' \in [Rows -> SUBSET Causes] /\ Noted
         /\ \A q \in Rows : q \in ToSet(deferred) \/ q = r =>
              q \in ToSet(deferred') \/ HasVersion(q, local[q]) \/ missed'[q] # {}
<1>1. <<r>> \in Seq(Rows) /\ r \in ToSet(<<r>>)
  BY DEF ToSet
<1>2. deferred' = AddTo(deferred, <<r>>) /\ Miss(DroppedBy(deferred, <<r>>), "dropped")
  BY DEF deferRemoteMerge
<1>3. deferred' \in IdsType
  BY <1>1, <1>2, AddToType
<1>4. "dropped" \in Causes
  BY DEF Causes
<1>5. /\ missed' \in [Rows -> SUBSET Causes] /\ Noted /\ unsent' = unsent /\ ahead' = ahead
      /\ \A q \in Rows : q \in DroppedBy(deferred, <<r>>) => HasVersion(q, local[q]) \/ missed'[q] # {}
  BY <1>2, <1>4, MissIs
<1>6. \A q \in ToSet(deferred) \cup ToSet(<<r>>) : q \in ToSet(deferred') \/ q \in DroppedBy(deferred, <<r>>)
  BY <1>2, AddsAll
<1> QED BY <1>1, <1>3, <1>5, <1>6 DEF deferRemoteMerge

\* What becomes of a copy the pull or the realtime handler takes up.
LEMMA TakeUpIs ==
  ASSUME Shape, NEW w \in {"pull", "realtime"}, NEW row \in CopyType, TakeUp(w, row)
  PROVE  /\ JobsOK' /\ \A v \in Writers : v # w => job'[v] = job[v]
         /\ deferred' \in IdsType /\ persistDue' \in BOOLEAN
         /\ stored' = stored /\ hydrated' = hydrated /\ unsent' = unsent /\ ahead' = ahead
         /\ missed' \in [Rows -> SUBSET Causes] /\ Noted
         /\ \A q \in Rows : q \in ToSet(deferred) =>
              q \in ToSet(deferred') \/ HasVersion(q, local[q]) \/ missed'[q] # {}
         /\ \/ /\ job'[w].pc \in {"store", "tombstone"}
               /\ job'[w].row = row /\ job'[w].seen = local[row.id]
            \/ /\ job'[w].pc = "idle"
               /\ \/ row.gone /\ local[row.id].here # "live"
                  \/ row.id \in ToSet(deferred')
                  \/ HasVersion(row.id, local[row.id]) \/ missed'[row.id] # {}
<1> DEFINE seen == local[row.id]
<1>1. /\ JobsOK /\ w \in Writers /\ row.id \in Rows /\ seen \in RecordType /\ row.gone \in BOOLEAN
      /\ deferred \in IdsType /\ persistDue \in BOOLEAN /\ missed \in [Rows -> SUBSET Causes]
  BY DEF Shape, Writers, CopyType
<1>2. ASSUME UNCHANGED <<deferral, history>>
      PROVE  /\ deferred' = deferred /\ deferred' \in IdsType /\ persistDue' \in BOOLEAN
             /\ stored' = stored /\ hydrated' = hydrated /\ unsent' = unsent /\ ahead' = ahead
             /\ missed' \in [Rows -> SUBSET Causes] /\ Noted
  BY <1>1, <1>2 DEF deferral, history, Noted
<1>3. CASE row.gone /\ Tombstone(w, row, seen) /\ UNCHANGED <<deferral, history>>
  <2>1. /\ JobsOK' /\ \A v \in Writers : v # w => job'[v] = job[v]
        /\ \/ job'[w].pc = "tombstone" /\ job'[w].row = row /\ job'[w].seen = seen
           \/ job'[w].pc = "idle" /\ seen.here # "live"
    BY <1>1, <1>3, TombstoneIs
  <2> QED BY <1>2, <1>3, <2>1
<1>4. CASE ~row.gone /\ Work(w, "store", row, seen) /\ UNCHANGED <<deferral, history>>
  <2>1. /\ JobsOK' /\ \A v \in Writers : v # w => job'[v] = job[v]
        /\ job'[w].pc = "store" /\ job'[w].row = row /\ job'[w].seen = seen
    BY <1>1, <1>4, WorkIs
  <2> QED BY <1>2, <1>4, <2>1
<1>5. CASE ~row.gone /\ deferRemoteMerge(row.id) /\ Rest(w)
  <2>1. /\ JobsOK' /\ job'[w].pc = "idle" /\ \A v \in Writers : v # w => job'[v] = job[v]
    BY <1>1, <1>5, RestIs
  <2>2. /\ deferred' \in IdsType /\ persistDue' \in BOOLEAN
        /\ stored' = stored /\ hydrated' = hydrated /\ unsent' = unsent /\ ahead' = ahead
        /\ missed' \in [Rows -> SUBSET Causes] /\ Noted
        /\ \A q \in Rows : q \in ToSet(deferred) \/ q = row.id =>
             q \in ToSet(deferred') \/ HasVersion(q, local[q]) \/ missed'[q] # {}
    BY <1>1, <1>5, DeferIs
  <2> QED BY <1>1, <2>1, <2>2
<1> QED BY <1>3, <1>4, <1>5 DEF TakeUp

\* The merge of a live copy.
LEMMA MergeIs ==
  ASSUME NEW seen \in RecordType, NEW row \in CopyType
  PROVE  /\ Merge(seen, row) \in RecordType
         /\ Merge(seen, row).here # "absent"
         /\ Merge(seen, row).here = "live" => seen.here # "deleted"
         /\ Merge(seen, row).version = row.write
         /\ Merge(seen, row).at = row.at /\ Merge(seen, row).time = row.at
         /\ \/ Merge(seen, row).value = row.write
            \/ Merge(seen, row).value = seen.value /\ seen.here # "absent" /\ ~Outdates(row, seen)
<1>1. /\ seen.here \in {"absent", "live", "deleted"} /\ seen.value \in Nat
      /\ row.write \in Nat /\ row.at \in Nat
  BY DEF RecordType, CopyType
<1> QED BY <1>1 DEF Merge, RecordType

\* What a writer stores: the rows of the records and no other.
LEMMA StoreIs ==
  ASSUME local \in [Rows -> RecordType], missed \in [Rows -> SUBSET Causes],
         NEW records, \A r \in DOMAIN records : records[r] \in RecordType, Store(records)
  PROVE  /\ local' \in [Rows -> RecordType] /\ missed' \in [Rows -> SUBSET Causes] /\ unsent' = unsent /\ ahead' = ahead
         /\ \A r \in Rows : r \notin DOMAIN records => local'[r] = local[r] /\ missed'[r] = missed[r]
         /\ \A r \in Rows : r \in DOMAIN records =>
              /\ local'[r] = records[r]
              /\ \/ HasVersion(r, records[r])
                 \/ missed[r] \subseteq missed'[r] /\ (HasVersion(r, local[r]) => missed'[r] # {})
<1>1. local' = [r \in Rows |-> IF r \in DOMAIN records THEN records[r] ELSE local[r]]
  BY DEF Store
<1>2. missed' = [r \in Rows |->
        IF r \notin DOMAIN records THEN missed[r]
        ELSE IF HasVersion(r, records[r]) THEN {}
        ELSE missed[r] \cup (IF HasVersion(r, local[r]) THEN {"stale"} ELSE {})]
  BY DEF Store
<1>3. local' \in [Rows -> RecordType]
  BY <1>1
<1>4. "stale" \in Causes
  BY DEF Causes
<1>5. missed' \in [Rows -> SUBSET Causes]
  BY <1>2, <1>4
<1>6. \A r \in Rows : r \notin DOMAIN records => local'[r] = local[r] /\ missed'[r] = missed[r]
  BY <1>1, <1>2
<1>7. ASSUME NEW r \in Rows, r \in DOMAIN records
      PROVE  /\ local'[r] = records[r]
             /\ \/ HasVersion(r, records[r])
                \/ missed[r] \subseteq missed'[r] /\ (HasVersion(r, local[r]) => missed'[r] # {})
  <2>1. local'[r] = records[r]
    BY <1>1, <1>7
  <2>2. missed'[r] = IF HasVersion(r, records[r]) THEN {}
                     ELSE missed[r] \cup (IF HasVersion(r, local[r]) THEN {"stale"} ELSE {})
    BY <1>2, <1>7
  <2> QED BY <2>1, <2>2
<1> QED BY <1>3, <1>5, <1>6, <1>7 DEF Store

\* db.put() and db.delete() store one record.
LEMMA StoreOneIs ==
  ASSUME local \in [Rows -> RecordType], missed \in [Rows -> SUBSET Causes],
         NEW q \in Rows, NEW record \in RecordType, Store([r \in {q} |-> record])
  PROVE  /\ local' \in [Rows -> RecordType] /\ missed' \in [Rows -> SUBSET Causes] /\ unsent' = unsent /\ ahead' = ahead
         /\ \A r \in Rows : r # q => local'[r] = local[r] /\ missed'[r] = missed[r]
         /\ local'[q] = record
         /\ \/ HasVersion(q, record)
            \/ missed[q] \subseteq missed'[q] /\ (HasVersion(q, local[q]) => missed'[q] # {})
<1> DEFINE records == [r \in {q} |-> record]
<1>1. DOMAIN records = {q} /\ records[q] = record
  OBVIOUS
<1> HIDE DEF records
<1>2. \A r \in DOMAIN records : records[r] \in RecordType
  BY <1>1
<1>3. Store(records)
  BY DEF records
<1> QED BY <1>1, <1>2, <1>3, StoreIs

-----------------------------------------------------------------------------
(***************************************************************************)
(* What the steps have in common.  A calm step writes nothing to the      *)
(* cloud and makes, enqueues or settles no edit.                           *)
(***************************************************************************)
Calm ==
  /\ cloud' = cloud /\ clock' = clock /\ written' = written /\ edited' = edited
  /\ saving' = saving /\ pending' = pending /\ unsent' = unsent /\ ahead' = ahead
  /\ incidents' \in Nat /\ incidents' <= MaxIncidents

LEMMA IncidentIs ==
  ASSUME Shape, Bounds, Incident \/ incidents' = incidents
  PROVE  incidents' \in Nat /\ incidents' <= MaxIncidents
BY DEF Incident, Shape, Bounds

LEMMA CalmBounds ==
  ASSUME Bounds, Calm
  PROVE  Bounds'
<1>1. UNCHANGED <<clock, written, edited, saving, pending>> /\ incidents' <= MaxIncidents
  BY DEF Calm
<1>2. /\ {r \in Rows : saving[r] # NoOp}' = {r \in Rows : saving[r] # NoOp}
      /\ {r \in Rows : pending[r] # NoOp}' = {r \in Rows : pending[r] # NoOp}
  BY <1>1
<1> QED BY <1>1, <1>2 DEF Bounds

\* The copies, the records and the marks after a calm step.
LEMMA CalmClocks ==
  ASSUME Clocks, Calm,
         \A copy \in events' \cup ToSet(pass'.todo) \cup pass'.fresh \cup ToSet(drain'.todo) : Past(copy),
         \A w \in Writers : job'[w].pc # "idle" =>
           Past(job'[w].row) /\ Behind(job'[w].row.id, job'[w].seen),
         \A v \in pass'.covered : v[2] <= cloud[v[1]].write,
         cursor' <= clock, pass'.tail <= clock,
         \A r \in Rows : Behind(r, local'[r])
  PROVE  Clocks'
<1>1. /\ cloud' = cloud /\ clock' = clock /\ written' = written
      /\ saving' = saving /\ pending' = pending /\ unsent' = unsent /\ ahead' = ahead
  BY DEF Calm
<1>2. Copies'
  BY <1>1 DEF Copies, Past, Copy, Busy
<1>3. \A r \in Rows : cloud'[r].at <= clock' /\ cloud'[r].write <= written'
  BY <1>1 DEF Clocks
<1>4. \A r \in Rows : Behind(r, local[r])'
  BY <1>1 DEF Behind, Dirty
<1>5. \A r \in Rows : Made(saving[r])' /\ Made(pending[r])'
  BY <1>1 DEF Clocks, Made
<1>6. \A w \in Writers : Busy(w)' => Behind(job[w].row.id, job[w].seen)'
  BY <1>1 DEF Behind, Dirty, Busy
<1> QED BY <1>1, <1>2, <1>3, <1>4, <1>5, <1>6 DEF Clocks

\* A record that tells its value.
Tells(r, record) ==
  record.here = "live" /\ record.version = cloud[r].write =>
    record.value = cloud[r].write \/ Dirty(r)

LEMMA CalmTold ==
  ASSUME Told, Calm, \A r \in Rows : local'[r] = local[r] \/ Tells(r, local'[r])
  PROVE  Told'
BY DEF Told, Tells, Calm, Dirty

\* A step that stores nothing.
LEMMA KeptFrame ==
  ASSUME Kept, cloud' = cloud, local' = local, Noted,
         \A r \in Rows : Held(r) => Held(r)' \/ Known(r)',
         \A r \in Rows : ~Known(r)' /\ cloud[r].at >= cursor /\ (ToCome(r) \/ InPull(r)) =>
           Held(r)' \/ (cloud[r].at >= cursor' /\ (ToCome(r)' \/ InPull(r)'))
  PROVE  Kept'
<1>1. \A r \in Rows : Known(r) => Known(r)'
  BY DEF Known, HasVersion, Noted
<1> QED BY <1>1 DEF Kept

LEMMA KnownIs ==
  ASSUME cloud' = cloud, local' = local, NEW r \in Rows,
         HasVersion(r, local[r]) \/ missed'[r] # {}
  PROVE  Known(r)'
BY DEF Known, HasVersion

LEMMA HeldFrame ==
  ASSUME cloud' = cloud, drain' = drain, job'["drain"] = job["drain"],
         hydrated' = hydrated, stored' = stored,
         \A r \in Rows : r \in ToSet(deferred) => r \in ToSet(deferred') \/ Known(r)'
  PROVE  \A r \in Rows : Held(r) => Held(r)' \/ Known(r)'
BY DEF Held, Current, Busy

LEMMA PullFrame ==
  ASSUME cloud' = cloud, pass' = pass, cursor' = cursor, job'["pull"] = job["pull"]
  PROVE  \A r \in Rows : ~Known(r)' /\ cloud[r].at >= cursor /\ (ToCome(r) \/ InPull(r)) =>
           Held(r)' \/ (cloud[r].at >= cursor' /\ (ToCome(r)' \/ InPull(r)'))
BY DEF ToCome, InPull, Current, Version, Busy

\* The copies and the records in use, taken out of the invariant.
LEMMA InUse ==
  ASSUME Clocks
  PROVE  /\ \A copy \in events \cup ToSet(pass.todo) \cup pass.fresh \cup ToSet(drain.todo) : Past(copy)
         /\ \A w \in Writers : job[w].pc # "idle" =>
              Past(job[w].row) /\ Behind(job[w].row.id, job[w].seen)
         /\ \A v \in pass.covered : v[2] <= cloud[v[1]].write
         /\ cursor <= clock /\ pass.tail <= clock
         /\ \A r \in Rows : Behind(r, local[r])
BY DEF Clocks, Copies, Busy

\* A copy the cloud gives out.
LEMMA CopyIs ==
  ASSUME cloud \in CloudType, NEW r \in Rows
  PROVE  Copy(r) \in CopyType /\ Past(Copy(r)) /\ Copy(r).id = r /\ Current(Copy(r), r)
BY DEF CloudType, CopyType, Copy, Past, Current

LEMMA AbsentIs ==
  ASSUME Shape, NEW r \in Rows
  PROVE  Behind(r, Absent)
BY DEF Shape, CloudType, Behind, Absent

-----------------------------------------------------------------------------
(***************************************************************************)
(* One lemma per action.  First the ones that store nothing.               *)
(***************************************************************************)
LEMMA PersistKeeps ==
  ASSUME IInv, Persist
  PROVE  IInv'
<1> USE DEF IInv
<1>1. /\ stored' = deferred /\ persistDue' = FALSE
      /\ Miss(IF hydrated THEN {} ELSE ToSet(stored) \ ToSet(deferred), "overwritten")
      /\ cloud' = cloud /\ events' = events /\ clock' = clock /\ written' = written /\ edited' = edited
      /\ incidents' = incidents /\ local' = local /\ saving' = saving /\ pending' = pending
      /\ cursor' = cursor /\ pass' = pass /\ drain' = drain /\ job' = job
      /\ deferred' = deferred /\ hydrated' = hydrated
  BY DEF Persist, world, device
<1>2. /\ missed' \in [Rows -> SUBSET Causes] /\ Noted /\ unsent' = unsent /\ ahead' = ahead
      /\ \A q \in Rows : ~hydrated /\ q \in ToSet(stored) /\ q \notin ToSet(deferred) =>
           HasVersion(q, local[q]) \/ missed'[q] # {}
  <2>1. "overwritten" \in Causes /\ missed \in [Rows -> SUBSET Causes]
    BY DEF Causes, Shape
  <2> QED BY <1>1, <2>1, MissIs
<1>3. Calm
  BY <1>1, <1>2, IncidentIs DEF Calm
<1>4. Shape'
  BY <1>1, <1>2 DEF Shape, JobsOK, Working, Busy
<1>5. Phases'
  BY <1>1 DEF Phases, Pages, Busy
<1>6. Bounds'
  BY <1>3, CalmBounds
<1>7. Clocks'
  BY <1>1, <1>3, InUse, CalmClocks
<1>8. Told'
  BY <1>1, <1>3, CalmTold
<1>9. Kept'
  <2>1. \A r \in Rows : Held(r) => Held(r)' \/ Known(r)'
    BY <1>1, <1>2, KnownIs DEF Held, Current, Busy
  <2> QED BY <1>1, <1>2, <2>1, PullFrame, KeptFrame
<1> QED BY <1>4, <1>5, <1>6, <1>7, <1>8, <1>9

\* Stored ids that could not be read are marked.
LEMMA HydrateFailsKeeps ==
  ASSUME IInv, HydrateFails
  PROVE  IInv'
<1> USE DEF IInv
<1>1. /\ ~drain.on /\ ~hydrated /\ hydrated' = TRUE /\ Incident
      /\ Miss(ToSet(stored) \ ToSet(deferred), "unread")
      /\ cloud' = cloud /\ events' = events /\ clock' = clock /\ written' = written /\ edited' = edited
      /\ local' = local /\ saving' = saving /\ pending' = pending
      /\ cursor' = cursor /\ pass' = pass /\ drain' = drain /\ job' = job
      /\ deferred' = deferred /\ stored' = stored /\ persistDue' = persistDue
  BY DEF HydrateFails, world, device
<1>2. /\ missed' \in [Rows -> SUBSET Causes] /\ Noted /\ unsent' = unsent /\ ahead' = ahead
      /\ \A q \in Rows : q \in ToSet(stored) /\ q \notin ToSet(deferred) =>
           HasVersion(q, local[q]) \/ missed'[q] # {}
  <2>1. "unread" \in Causes /\ missed \in [Rows -> SUBSET Causes]
    BY DEF Causes, Shape
  <2>2. PICK rows : rows = ToSet(stored) \ ToSet(deferred)
    OBVIOUS
  <2>3. Miss(rows, "unread")
    BY <1>1, <2>2
  <2>4. /\ missed' \in [Rows -> SUBSET Causes] /\ Noted /\ unsent' = unsent /\ ahead' = ahead
        /\ \A q \in Rows : q \in rows => HasVersion(q, local[q]) \/ missed'[q] # {}
    BY <2>1, <2>3, MissIs
  <2> QED BY <2>2, <2>4
<1>3. Calm
  BY <1>1, <1>2, IncidentIs DEF Calm
<1>4. Shape'
  BY <1>1, <1>2, <1>3 DEF Shape, Calm, JobsOK, Working, Busy
<1>5. Phases'
  BY <1>1 DEF Phases, Pages, Busy
<1>6. Bounds'
  BY <1>3, CalmBounds
<1>7. Clocks'
  BY <1>1, <1>3, InUse, CalmClocks
<1>8. Told'
  BY <1>1, <1>3, CalmTold
<1>9. Kept'
  <2>1. \A r \in Rows : Held(r) => Held(r)' \/ Known(r)'
    BY <1>1, <1>2, KnownIs DEF Held, Current, Busy
  <2> QED BY <1>1, <1>2, <2>1, PullFrame, KeptFrame
<1> QED BY <1>4, <1>5, <1>6, <1>7, <1>8, <1>9

LEMMA EndPassKeeps ==
  ASSUME IInv, pass.pc = "fetch", EndPass, Incident \/ incidents' = incidents,
         UNCHANGED <<world, device, drain, job, deferral, history>>
  PROVE  IInv'
<1> USE DEF IInv
<1>1. /\ cloud' = cloud /\ events' = events /\ clock' = clock /\ written' = written /\ edited' = edited
      /\ local' = local /\ saving' = saving /\ pending' = pending
      /\ drain' = drain /\ job' = job /\ deferred' = deferred /\ stored' = stored
      /\ persistDue' = persistDue /\ hydrated' = hydrated /\ missed' = missed /\ unsent' = unsent /\ ahead' = ahead
      /\ pass' = IdlePass /\ cursor' = IF pass.tail > 0 THEN pass.tail ELSE cursor
  BY DEF world, device, deferral, history, EndPass
<1>2. incidents' \in Nat /\ incidents' <= MaxIncidents
  BY IncidentIs
<1>3. Calm
  BY <1>1, <1>2 DEF Calm
<1>4. pass \in PassType /\ cursor \in Nat /\ pass.tail \in Nat /\ cloud \in CloudType
  BY DEF Shape, PassType
<1>5. Shape'
  BY <1>1, <1>2, <1>4, Constants DEF Shape, JobsOK, Working, Busy
<1>6. Phases'
  BY <1>1, Constants DEF Phases, Pages, Busy
<1>7. Bounds'
  BY <1>3, CalmBounds
<1>8. Clocks'
  <2>1. ToSet(pass'.todo) = {} /\ pass'.fresh = {} /\ pass'.covered = {} /\ pass'.tail = 0
    BY <1>1, Constants
  <2>2. cursor' <= clock /\ pass'.tail <= clock
    BY <1>1, <1>4, <2>1 DEF Clocks, Shape
  <2> QED BY <1>1, <1>3, <2>1, <2>2, InUse, CalmClocks
<1>9. Told'
  BY <1>1, <1>3, CalmTold
<1>10. Kept'
  <2>1. Noted
    BY <1>1 DEF Noted
  <2>2. ASSUME NEW r \in Rows, cloud[r].at >= cursor, ToCome(r) \/ InPull(r)
        PROVE  cloud[r].at >= cursor' /\ ToCome(r)'
    <3>1. ToCome(r)
      <4>1. ToSet(<<>>) = {} /\ pass.todo = <<>> /\ pass.fresh = {} /\ ~Busy("pull")
        BY Constants DEF Phases
      <4> QED BY <2>2, <4>1 DEF InPull
    <3>2. cloud[r].at \in Nat
      BY <1>4 DEF CloudType
    <3> QED BY <1>1, <1>4, <2>2, <3>1, <3>2, Constants DEF ToCome
  <2> QED BY <1>1, <2>1, <2>2, HeldFrame, KeptFrame
<1> QED BY <1>5, <1>6, <1>7, <1>8, <1>9, <1>10

LEMMA PassFailsKeeps ==
  ASSUME IInv, PassFails
  PROVE  IInv'
<1> USE DEF IInv
<1>1. /\ cloud' = cloud /\ events' = events /\ clock' = clock /\ written' = written /\ edited' = edited
      /\ local' = local /\ saving' = saving /\ pending' = pending
      /\ drain' = drain /\ cursor' = cursor /\ deferred' = deferred /\ stored' = stored
      /\ persistDue' = persistDue /\ hydrated' = hydrated /\ missed' = missed /\ unsent' = unsent /\ ahead' = ahead
      /\ pass' = IdlePass /\ Rest("pull") /\ Incident
  BY DEF PassFails, world, device, deferral, history
<1>2. incidents' \in Nat /\ incidents' <= MaxIncidents
  BY <1>1, IncidentIs
<1>3. /\ JobsOK' /\ job'["pull"].pc = "idle" /\ "drain" \in Writers
      /\ \A v \in Writers : v # "pull" => job'[v] = job[v]
  BY <1>1, RestIs DEF Shape, Writers
<1>4. Calm
  BY <1>1, <1>2 DEF Calm
<1>5. Shape'
  BY <1>1, <1>2, <1>3, Constants DEF Shape
<1>6. Phases'
  BY <1>1, <1>3, Constants DEF Phases, Pages, Busy
<1>7. Bounds'
  BY <1>4, CalmBounds
<1>8. Clocks'
  <2>1. ToSet(pass'.todo) = {} /\ pass'.fresh = {} /\ pass'.covered = {} /\ pass'.tail = 0
    BY <1>1, Constants
  <2>2. cursor' <= clock /\ pass'.tail <= clock
    BY <1>1, <2>1 DEF Clocks, Shape
  <2>3. \A w \in Writers : job'[w].pc # "idle" => Past(job'[w].row) /\ Behind(job'[w].row.id, job'[w].seen)
    BY <1>3, InUse
  <2> QED BY <1>1, <1>4, <2>1, <2>2, <2>3, InUse, CalmClocks
<1>9. Told'
  BY <1>1, <1>4, CalmTold
<1>10. Kept'
  <2>1. Noted
    BY <1>1 DEF Noted
  <2>2. ASSUME NEW r \in Rows PROVE ToCome(r)'
    <3>1. pass'.tail = 0 /\ pass'.covered = {}
      BY <1>1, Constants
    <3>2. cloud'[r].at \in Nat
      BY <1>1 DEF Shape, CloudType
    <3> QED BY <3>1, <3>2 DEF ToCome
  <2> QED BY <1>1, <1>3, <2>1, <2>2, HeldFrame, KeptFrame
<1> QED BY <1>5, <1>6, <1>7, <1>8, <1>9, <1>10

LEMMA FetchPageKeeps ==
  ASSUME IInv, FetchPage
  PROVE  IInv'
<1> USE DEF IInv
<1> DEFINE page == Page(pass.offset)
           before == ToSet(SubSeq(Listing, 1, UpTo(pass.offset)))
           copies == [i \in DOMAIN page |-> Copy(page[i])]
<1>1. /\ cloud' = cloud /\ events' = events /\ clock' = clock /\ written' = written /\ edited' = edited
      /\ incidents' = incidents /\ local' = local /\ saving' = saving /\ pending' = pending
      /\ drain' = drain /\ job' = job /\ deferred' = deferred /\ stored' = stored
      /\ persistDue' = persistDue /\ hydrated' = hydrated
  BY DEF FetchPage, world, device, deferral
<1>2. CASE page = <<>>
  BY <1>2, EndPassKeeps DEF FetchPage
<1>3. CASE page # <<>>
  <2>1. /\ pass' = [pass EXCEPT !.pc = "rows", !.todo = copies,
                      !.more = Len(page) = PageSize,
                      !.tail = cloud[Last(page)].at,
                      !.covered = @ \cup {Version(r) : r \in ToSet(page)}]
        /\ Miss({r \in before : Version(r) \notin pass.covered}, "skipped")
        /\ cursor' = cursor /\ pass.pc = "fetch"
    BY <1>3 DEF FetchPage
  <2>2. /\ pass \in PassType /\ pass.offset \in Nat /\ cloud \in CloudType /\ cursor \in Nat
        /\ missed \in [Rows -> SUBSET Causes]
    BY DEF Shape, PassType
  <2> HIDE DEF copies
  <2>3. /\ pass'.pc = "rows" /\ pass'.offset = pass.offset /\ pass'.todo = copies
        /\ pass'.fresh = pass.fresh /\ pass'.more = (Len(page) = PageSize)
        /\ pass'.tail = cloud[Last(page)].at
        /\ pass'.covered = pass.covered \cup {Version(r) : r \in ToSet(page)}
    BY <2>1, <2>2 DEF PassType
  <2>4. pass' = [pc |-> pass'.pc, offset |-> pass'.offset, todo |-> pass'.todo, fresh |-> pass'.fresh,
                 more |-> pass'.more, tail |-> pass'.tail, covered |-> pass'.covered]
    BY <2>1, <2>2 DEF PassType
  <2>5. /\ page \in Seq(Rows) /\ IsInjective(page) /\ Last(page) \in Rows /\ Len(page) \in Nat
        /\ \A r \in Rows : cloud[r].at >= cursor =>
             r \in before \/ r \in ToSet(page) \/ cloud[r].at >= cloud[Last(page)].at
    BY <1>3, <2>2, PageIs
  <2> HIDE DEF page, before
  <2>6. /\ DOMAIN page = 1..Len(page) /\ \A i \in DOMAIN page : page[i] \in Rows
        /\ ToSet(page) \subseteq Rows
    BY <2>5 DEF ToSet
  <2>7. /\ DOMAIN copies = DOMAIN page
        /\ \A i \in DOMAIN page : copies[i] = Copy(page[i])
    BY DEF copies
  <2>8. copies \in Seq(CopyType)
    <3>1. \A i \in DOMAIN page : Copy(page[i]) \in CopyType
      BY <2>2, <2>6, CopyIs
    <3> QED BY <2>5, <2>6, <3>1 DEF copies
  <2>9. ToSet(copies) = {Copy(r) : r \in ToSet(page)}
    BY <2>7 DEF ToSet
  <2>10. /\ missed' \in [Rows -> SUBSET Causes] /\ Noted /\ unsent' = unsent /\ ahead' = ahead
         /\ \A q \in Rows : q \in before /\ Version(q) \notin pass.covered =>
              HasVersion(q, local[q]) \/ missed'[q] # {}
    <3>1. "skipped" \in Causes
      BY DEF Causes
    <3> QED BY <2>1, <2>2, <3>1, MissIs
  <2>11. Calm
    BY <1>1, <2>10, IncidentIs DEF Calm
  <2>12. \A r \in Rows : Version(r) \in Rows \X Nat /\ cloud[r].at \in Nat
    BY <2>2 DEF Version, CloudType
  <2>13. pass' \in PassType
    <3>1. pass'.fresh \in SUBSET CopyType /\ pass'.tail \in Nat /\ pass'.more \in BOOLEAN
      BY <2>2, <2>3, <2>5, <2>12 DEF PassType
    <3>2. pass.covered \subseteq Rows \X Nat
      BY <2>2 DEF PassType
    <3>3. \A v \in pass'.covered : v \in Rows \X Nat
      BY <2>3, <2>6, <2>12, <3>2, Zenon
    <3> QED BY <2>2, <2>3, <2>4, <2>8, <3>1, <3>3 DEF PassType
  <2>14. Shape'
    BY <1>1, <2>1, <2>10, <2>13 DEF Shape, JobsOK, Working, Busy
  <2>15. Phases'
    <3>1. pass.fresh = {}
      BY <2>1 DEF Phases
    <3>2. \A i, j \in DOMAIN copies : copies[i].id = copies[j].id => i = j
      <4>1. \A i \in DOMAIN page : copies[i].id = page[i]
        BY <2>7 DEF Copy
      <4> QED BY <2>5, <2>7, <4>1 DEF IsInjective
    <3>3. Pages'
      BY <2>3, <3>1, <3>2 DEF Pages
    <3> QED BY <1>1, <2>3, <3>3 DEF Phases, Busy
  <2>16. Bounds'
    BY <2>11, CalmBounds
  <2>17. Clocks'
    <3>1. \A copy \in ToSet(pass'.todo) : Past(copy)
      BY <2>2, <2>3, <2>6, <2>9, CopyIs
    <3>2. \A v \in pass'.covered : v[2] <= cloud[v[1]].write
      <4>1. \A r \in Rows : Version(r)[1] = r /\ Version(r)[2] = cloud[r].write /\ cloud[r].write \in Nat
        BY <2>2 DEF Version, CloudType
      <4>2. ASSUME NEW v \in pass'.covered PROVE v[2] <= cloud[v[1]].write
        <5>1. CASE v \in pass.covered
          BY <5>1, InUse
        <5>2. CASE v \notin pass.covered
          <6>1. PICK r \in ToSet(page) : v = Version(r)
            BY <2>3, <5>2
          <6>2. r \in Rows
            BY <2>6
          <6>3. v[1] = r /\ v[2] = cloud[r].write
            BY <6>1 DEF Version
          <6> QED BY <4>1, <6>2, <6>3
        <5> QED BY <5>1, <5>2
      <4> QED BY <4>2
    <3>3. cursor' <= clock /\ pass'.tail <= clock
      BY <2>1, <2>3, <2>5 DEF Clocks
    <3> QED BY <1>1, <2>3, <2>11, <3>1, <3>2, <3>3, InUse, CalmClocks
  <2>18. Told'
    BY <1>1, <2>11, CalmTold
  <2>19. Kept'
    <3>1. ASSUME NEW r \in Rows, ~Known(r)', cloud[r].at >= cursor, ToCome(r) \/ InPull(r)
          PROVE  cloud[r].at >= cursor' /\ (ToCome(r)' \/ InPull(r)')
      <4>1. ToCome(r)
        <5>1. ToSet(<<>>) = {} /\ pass.todo = <<>> /\ pass.fresh = {} /\ ~Busy("pull")
          BY <2>1, Constants DEF Phases
        <5> QED BY <3>1, <5>1 DEF InPull
      <4>2. r \notin before
        BY <1>1, <2>10, <3>1, <4>1, KnownIs DEF ToCome
      <4>3. CASE r \in ToSet(page)
        <5>1. Copy(r) \in ToSet(pass'.todo) /\ Current(Copy(r), r)
          BY <2>2, <2>3, <2>9, <4>3, CopyIs
        <5>2. InPull(r)'
          BY <1>1, <5>1 DEF InPull, Current
        <5> QED BY <2>1, <3>1, <5>2
      <4>4. CASE r \notin ToSet(page) /\ cloud[r].at >= cloud[Last(page)].at
        <5>1. \A q \in Rows : Version(q) = Version(r) => q = r
          BY DEF Version
        <5>2. Version(r) \notin pass'.covered
          BY <2>3, <2>6, <4>1, <4>4, <5>1 DEF ToCome
        <5>3. ToCome(r)'
          BY <1>1, <2>3, <4>4, <5>2 DEF ToCome, Version
        <5> QED BY <2>1, <3>1, <5>3
      <4> QED BY <2>5, <3>1, <4>2, <4>3, <4>4
    <3> QED BY <1>1, <2>10, <3>1, HeldFrame, KeptFrame
  <2> QED BY <2>14, <2>15, <2>16, <2>17, <2>18, <2>19
<1> QED BY <1>2, <1>3

\* A copy of a deleted row that is the last version, and nothing to delete.
LEMMA DeletedIs ==
  ASSUME NEW copy, Past(copy), copy.gone, NEW r, Current(copy, r), NEW record, record.here # "live"
  PROVE  HasVersion(r, record)
BY DEF Past, Current, Copy, HasVersion

LEMMA PullRowKeeps ==
  ASSUME IInv, PullRow
  PROVE  IInv'
<1> USE DEF IInv
<1>1. PICK row : row = Head(pass.todo)
  OBVIOUS
<1> DEFINE new == ~row.gone /\ local[row.id].here = "absent"
<1>2. /\ cloud' = cloud /\ events' = events /\ clock' = clock /\ written' = written /\ edited' = edited
      /\ incidents' = incidents /\ local' = local /\ saving' = saving /\ pending' = pending
      /\ cursor' = cursor /\ drain' = drain
      /\ pass.pc = "rows" /\ job["pull"].pc = "idle" /\ pass.todo # <<>>
      /\ pass' = [pass EXCEPT !.todo = Tail(@), !.fresh = IF new THEN @ \cup {row} ELSE @]
  BY <1>1 DEF PullRow, world, device, At
<1>3. /\ pass \in PassType /\ pass.todo \in Seq(CopyType) /\ pass.fresh \subseteq CopyType
      /\ missed \in [Rows -> SUBSET Causes] /\ deferred \in IdsType /\ persistDue \in BOOLEAN /\ JobsOK
      /\ "pull" \in Writers /\ "drain" \in Writers
  BY DEF Shape, PassType, Writers
<1>4. /\ row \in CopyType /\ Tail(pass.todo) \in Seq(CopyType)
      /\ ToSet(pass.todo) = {row} \cup ToSet(Tail(pass.todo))
      /\ row = pass.todo[1] /\ 1 \in DOMAIN pass.todo
      /\ \A i \in DOMAIN Tail(pass.todo) :
           i + 1 \in DOMAIN pass.todo /\ Tail(pass.todo)[i] = pass.todo[i + 1] /\ i + 1 # 1 /\ i \in Int
  <2>1. \A i \in DOMAIN Tail(pass.todo) : i \in Int
    BY <1>2, <1>3
  <2> QED BY <1>1, <1>2, <1>3, <2>1, HeadTailIs
<1>5. /\ new => ~row.gone /\ Rest("pull") /\ UNCHANGED <<deferral, history>>
      /\ ~new => TakeUp("pull", row)
  BY <1>1 DEF PullRow
<1> HIDE DEF new
<1>6. /\ pass'.todo = Tail(pass.todo) /\ pass'.fresh = IF new THEN pass.fresh \cup {row} ELSE pass.fresh
      /\ pass'.pc = "rows" /\ pass'.tail = pass.tail /\ pass'.covered = pass.covered
      /\ pass' \in PassType
  <2>1. pass'.fresh \in SUBSET CopyType
    BY <1>2, <1>3, <1>4 DEF PassType
  <2> QED BY <1>2, <1>3, <1>4, <2>1 DEF PassType
<1>7. /\ JobsOK' /\ \A v \in Writers : v # "pull" => job'[v] = job[v]
      /\ deferred' \in IdsType /\ persistDue' \in BOOLEAN
      /\ stored' = stored /\ hydrated' = hydrated /\ unsent' = unsent /\ ahead' = ahead
      /\ missed' \in [Rows -> SUBSET Causes] /\ Noted
      /\ \A q \in Rows : q \in ToSet(deferred) =>
           q \in ToSet(deferred') \/ HasVersion(q, local[q]) \/ missed'[q] # {}
      /\ \/ /\ job'["pull"].pc \in {"store", "tombstone"}
            /\ job'["pull"].row = row /\ job'["pull"].seen = local[row.id]
         \/ /\ job'["pull"].pc = "idle"
            /\ \/ row \in pass'.fresh
               \/ row.gone /\ local[row.id].here # "live"
               \/ row.id \in ToSet(deferred')
               \/ HasVersion(row.id, local[row.id]) \/ missed'[row.id] # {}
  <2>1. CASE new
    <3>1. JobsOK' /\ job'["pull"].pc = "idle" /\ \A v \in Writers : v # "pull" => job'[v] = job[v]
      BY <1>3, <1>5, <2>1, RestIs
    <3>2. /\ deferred' = deferred /\ persistDue' = persistDue /\ stored' = stored /\ hydrated' = hydrated
          /\ missed' = missed /\ unsent' = unsent /\ ahead' = ahead
      BY <1>5, <2>1 DEF deferral, history
    <3>3. Noted
      BY <3>2 DEF Noted
    <3> QED BY <1>3, <1>6, <2>1, <3>1, <3>2, <3>3
  <2>2. CASE ~new
    BY <1>4, <1>5, <2>2, TakeUpIs
  <2> QED BY <2>1, <2>2
<1>8. Calm
  BY <1>2, <1>7, IncidentIs DEF Calm
<1>9. Shape'
  BY <1>2, <1>6, <1>7 DEF Shape
<1>10. Phases'
  <2>1. new => ~row.gone
    BY <1>5
  <2>2. Pages
    BY DEF Phases
  <2>3. \A i, j \in DOMAIN pass'.todo : pass'.todo[i].id = pass'.todo[j].id => i = j
    <3>1. \A i, j \in DOMAIN Tail(pass.todo) : i + 1 = j + 1 => i = j
      BY <1>4
    <3> QED BY <1>4, <1>6, <2>2, <3>1 DEF Pages
  <2>4. \A i \in DOMAIN pass'.todo : pass'.todo[i].id # row.id
    BY <1>4, <1>6, <2>2 DEF Pages
  <2>5. \A a \in pass.fresh : a.id # row.id
    BY <1>4, <2>2 DEF Pages
  <2>6. \A a, b \in pass'.fresh : a.id = b.id => a = b
    BY <1>6, <2>2, <2>5 DEF Pages
  <2>7. \A a \in pass'.fresh : ~a.gone /\ \A i \in DOMAIN pass'.todo : pass'.todo[i].id # a.id
    BY <1>4, <1>6, <2>1, <2>2, <2>4 DEF Pages
  <2>8. Pages'
    BY <2>3, <2>6, <2>7 DEF Pages
  <2>9. Busy("drain")' <=> Busy("drain")
    BY <1>3, <1>7 DEF Busy
  <2> QED BY <1>2, <1>6, <1>7, <2>8, <2>9 DEF Phases
<1>11. Bounds'
  BY <1>8, CalmBounds
<1>12. Past(row) /\ row.id \in Rows
  BY <1>4, InUse DEF CopyType
<1>13. Clocks'
  <2>1. \A copy \in ToSet(pass'.todo) \cup pass'.fresh : Past(copy)
    BY <1>4, <1>6, <1>12, InUse
  <2>2. \A w \in Writers : job'[w].pc # "idle" => Past(job'[w].row) /\ Behind(job'[w].row.id, job'[w].seen)
    BY <1>7, <1>12, InUse
  <2> QED BY <1>2, <1>6, <1>8, <2>1, <2>2, InUse, CalmClocks
<1>14. Told'
  BY <1>2, <1>8, CalmTold
<1>15. Kept'
  <2>1. \A r \in Rows : Held(r) => Held(r)' \/ Known(r)'
    BY <1>2, <1>3, <1>7, KnownIs, HeldFrame
  <2>2. ASSUME NEW r \in Rows, ~Known(r)', ToCome(r) \/ InPull(r)
        PROVE  Held(r)' \/ ToCome(r)' \/ InPull(r)'
    <3>1. CASE ToCome(r)
      BY <1>2, <1>6, <3>1 DEF ToCome, Version
    <3>2. CASE Current(row, r)
      <4>1. r = row.id /\ Current(row, r)'
        BY <1>2, <3>2 DEF Current
      <4>2. CASE job'["pull"].pc # "idle"
        BY <1>7, <4>1, <4>2 DEF InPull, Busy
      <4>3. CASE row \in pass'.fresh
        BY <4>1, <4>3 DEF InPull
      <4>4. CASE row.gone /\ local[row.id].here # "live"
        BY <1>2, <1>12, <2>2, <3>2, <4>1, <4>4, DeletedIs, KnownIs
      <4>5. CASE row.id \in ToSet(deferred')
        BY <4>1, <4>5 DEF Held
      <4>6. CASE HasVersion(row.id, local[row.id]) \/ missed'[row.id] # {}
        BY <1>2, <2>2, <4>1, <4>6, KnownIs
      <4> QED BY <1>7, <4>2, <4>3, <4>4, <4>5, <4>6
    <3>3. CASE \E copy \in ToSet(Tail(pass.todo)) \cup pass.fresh : Current(copy, r)
      BY <1>2, <1>6, <3>3 DEF InPull, Current
    <3> QED BY <1>2, <1>4, <2>2, <3>1, <3>2, <3>3 DEF InPull, Busy
  <2> QED BY <1>2, <1>7, <2>1, <2>2, KeptFrame
<1> QED BY <1>9, <1>10, <1>11, <1>13, <1>14, <1>15

LEMMA ReceiveKeeps ==
  ASSUME IInv, Receive
  PROVE  IInv'
<1> USE DEF IInv
<1>1. /\ cloud' = cloud /\ clock' = clock /\ written' = written /\ edited' = edited
      /\ local' = local /\ saving' = saving /\ pending' = pending
      /\ cursor' = cursor /\ pass' = pass /\ drain' = drain /\ Incident
  BY DEF Receive, device
<1>2. PICK row \in events : events' = events \ {row} /\ TakeUp("realtime", row)
  BY DEF Receive
<1>3. row \in CopyType /\ row.id \in Rows /\ Past(row)
  BY InUse DEF Shape, CopyType
<1>4. /\ JobsOK' /\ \A v \in Writers : v # "realtime" => job'[v] = job[v]
      /\ deferred' \in IdsType /\ persistDue' \in BOOLEAN
      /\ stored' = stored /\ hydrated' = hydrated /\ unsent' = unsent /\ ahead' = ahead
      /\ missed' \in [Rows -> SUBSET Causes] /\ Noted
      /\ \A q \in Rows : q \in ToSet(deferred) =>
           q \in ToSet(deferred') \/ HasVersion(q, local[q]) \/ missed'[q] # {}
      /\ \/ job'["realtime"].row = row /\ job'["realtime"].seen = local[row.id]
         \/ job'["realtime"].pc = "idle"
  BY <1>2, <1>3, TakeUpIs
<1>5. "pull" \in Writers /\ "drain" \in Writers /\ job'["pull"] = job["pull"] /\ job'["drain"] = job["drain"]
  BY <1>4 DEF Writers
<1>6. incidents' \in Nat /\ incidents' <= MaxIncidents
  BY <1>1, IncidentIs
<1>7. Calm
  BY <1>1, <1>4, <1>6 DEF Calm
<1>8. Shape'
  BY <1>1, <1>2, <1>4, <1>6 DEF Shape
<1>9. Phases'
  BY <1>1, <1>4, <1>5 DEF Phases, Pages, Busy
<1>10. Bounds'
  BY <1>7, CalmBounds
<1>11. Clocks'
  <2>1. \A w \in Writers : job'[w].pc # "idle" => Past(job'[w].row) /\ Behind(job'[w].row.id, job'[w].seen)
    BY <1>3, <1>4, InUse
  <2> QED BY <1>1, <1>2, <1>7, <2>1, InUse, CalmClocks
<1>12. Told'
  BY <1>1, <1>7, CalmTold
<1>13. Kept'
  <2>1. \A r \in Rows : Held(r) => Held(r)' \/ Known(r)'
    BY <1>1, <1>4, <1>5, KnownIs, HeldFrame
  <2> QED BY <1>1, <1>4, <1>5, <2>1, PullFrame, KeptFrame
<1> QED BY <1>8, <1>9, <1>10, <1>11, <1>12, <1>13

LEMMA StartDrainKeeps ==
  ASSUME IInv, StartDrain
  PROVE  IInv'
<1> USE DEF IInv
<1>1. PICK ids : ids = IF hydrated THEN deferred ELSE AddTo(deferred, stored)
  OBVIOUS
<1>2. /\ cloud' = cloud /\ events' = events /\ clock' = clock /\ written' = written /\ edited' = edited
      /\ incidents' = incidents /\ local' = local /\ saving' = saving /\ pending' = pending
      /\ cursor' = cursor /\ pass' = pass /\ job' = job /\ stored' = stored /\ persistDue' = persistDue
      /\ hydrated' = TRUE /\ deferred' = <<>> /\ ~drain.on
  BY DEF StartDrain, world, device
<1>3. /\ drain' = [IdleDrain EXCEPT !.on = TRUE, !.ids = ids]
      /\ Miss(IF hydrated THEN {} ELSE DroppedBy(deferred, stored), "dropped")
  BY <1>1 DEF StartDrain
<1>4. /\ deferred \in IdsType /\ stored \in IdsType /\ stored \in Seq(Rows)
      /\ missed \in [Rows -> SUBSET Causes]
  BY DEF Shape, IdsType
<1>5. ids \in Seq(Rows)
  <2>1. ids \in IdsType
    BY <1>1, <1>4, AddToType
  <2> QED BY <2>1 DEF IdsType
<1>6. /\ missed' \in [Rows -> SUBSET Causes] /\ Noted /\ unsent' = unsent /\ ahead' = ahead
      /\ \A q \in Rows : ~hydrated /\ q \in DroppedBy(deferred, stored) =>
           HasVersion(q, local[q]) \/ missed'[q] # {}
  <2>1. "dropped" \in Causes
    BY DEF Causes
  <2> QED BY <1>3, <1>4, <2>1, MissIs
<1>7. \A q \in Rows : q \in ToSet(deferred) \/ (~hydrated /\ q \in ToSet(stored)) =>
        q \in ToSet(ids) \/ HasVersion(q, local[q]) \/ missed'[q] # {}
  BY <1>1, <1>6, AddsAll
<1>8. /\ drain' \in DrainType /\ drain'.on /\ drain'.ids = ids
      /\ drain'.todo = <<>> /\ drain'.blocked = <<>>
  BY <1>3, <1>5, Constants DEF DrainType
<1>9. Calm
  BY <1>2, <1>6, IncidentIs DEF Calm
<1>10. Shape'
  BY <1>2, <1>6, <1>8, Constants DEF Shape, JobsOK, Working, Busy
<1>11. Phases'
  BY <1>2, <1>8 DEF Phases, Pages, Busy
<1>12. Bounds'
  BY <1>9, CalmBounds
<1>13. Clocks'
  <2>1. ToSet(drain'.todo) = {}
    BY <1>8, Constants
  <2> QED BY <1>2, <1>9, <2>1, InUse, CalmClocks
<1>14. Told'
  BY <1>2, <1>9, CalmTold
<1>15. Kept'
  <2>1. ASSUME NEW r \in Rows, Held(r) PROVE Held(r)' \/ Known(r)'
    <3>1. r \in ToSet(deferred) \/ (~hydrated /\ r \in ToSet(stored))
      BY <1>2, <2>1, Constants DEF Held, Phases
    <3>2. CASE r \notin ToSet(ids)
      BY <1>2, <1>7, <3>1, <3>2, KnownIs
    <3>3. CASE r \in ToSet(ids)
      BY <1>8, <3>3 DEF Held
    <3> QED BY <3>2, <3>3
  <2> QED BY <1>2, <1>6, <2>1, PullFrame, KeptFrame
<1> QED BY <1>10, <1>11, <1>12, <1>13, <1>14, <1>15

LEMMA DrainFetchKeeps ==
  ASSUME IInv, DrainFetch
  PROVE  IInv'
<1> USE DEF IInv
<1>1. PICK ids : ids = drain.ids
  OBVIOUS
<1>2. /\ cloud' = cloud /\ events' = events /\ clock' = clock /\ written' = written /\ edited' = edited
      /\ local' = local /\ saving' = saving /\ pending' = pending
      /\ cursor' = cursor /\ pass' = pass /\ job' = job /\ deferred' = deferred /\ stored' = stored
      /\ persistDue' = persistDue /\ hydrated' = hydrated
      /\ missed' = missed /\ unsent' = unsent /\ ahead' = ahead /\ ids # <<>>
  BY <1>1 DEF DrainFetch, world, device, deferral, history
<1>3. /\ Incident \/ incidents' = incidents
      /\ \/ drain' = [drain EXCEPT !.ids = <<>>, !.todo = ByIds(ids)]
         \/ drain' = [drain EXCEPT !.ids = <<>>, !.blocked = ids]
  BY <1>1 DEF DrainFetch
<1>4. cloud \in CloudType /\ drain \in DrainType /\ ids \in Seq(Rows)
  BY <1>1 DEF Shape, DrainType
<1>5. /\ drain.on /\ drain.todo = <<>> /\ drain.blocked = <<>> /\ ~Busy("drain")
  BY <1>1, <1>2 DEF Phases
<1>6. /\ \A i \in DOMAIN ids : ids[i] \in Rows
      /\ DOMAIN ids = 1..Len(ids) /\ Len(ids) \in Nat
  BY <1>4
<1>7. ByIds(ids) \in Seq(CopyType) /\ ToSet(ByIds(ids)) = {Copy(r) : r \in ToSet(ids)}
  <2>1. DOMAIN ByIds(ids) = DOMAIN ids /\ \A i \in DOMAIN ids : ByIds(ids)[i] = Copy(ids[i])
    BY DEF ByIds
  <2>2. \A i \in DOMAIN ids : Copy(ids[i]) \in CopyType
    BY <1>4, <1>6, CopyIs
  <2>3. ByIds(ids) \in Seq(CopyType)
    BY <1>6, <2>2 DEF ByIds
  <2> QED BY <2>1, <2>3 DEF ToSet
<1>8. /\ drain' \in DrainType /\ drain'.on /\ drain'.ids = <<>>
      /\ \/ drain'.todo = ByIds(ids) /\ drain'.blocked = <<>>
         \/ drain'.todo = <<>> /\ drain'.blocked = ids
  BY <1>3, <1>4, <1>5, <1>7 DEF DrainType
<1>9. incidents' \in Nat /\ incidents' <= MaxIncidents
  BY <1>3, IncidentIs
<1>10. Calm
  BY <1>2, <1>9 DEF Calm
<1>11. Shape'
  BY <1>2, <1>8, <1>9 DEF Shape, JobsOK, Working, Busy
<1>12. Phases'
  <2>1. drain'.ids = <<>> /\ drain'.on /\ hydrated' /\ Pages /\ (pass.pc = "fetch" => pass.todo = <<>> /\ pass.fresh = {} /\ ~Busy("pull"))
    BY <1>2, <1>5, <1>8 DEF Phases
  <2> QED BY <1>2, <2>1 DEF Phases, Pages, Busy
<1>13. Bounds'
  BY <1>10, CalmBounds
<1>14. \A r \in ToSet(ids) : r \in Rows
  BY <1>6 DEF ToSet
<1>15. Clocks'
  <2>1. \A copy \in ToSet(drain'.todo) : Past(copy)
    <3>1. \A r \in ToSet(ids) : Past(Copy(r))
      BY <1>4, <1>14, CopyIs
    <3>2. \A copy \in ToSet(ByIds(ids)) : Past(copy)
      BY <1>7, <3>1
    <3>3. ToSet(drain'.todo) = ToSet(ByIds(ids)) \/ ToSet(drain'.todo) = {}
      BY <1>8, Constants
    <3> QED BY <3>2, <3>3
  <2> QED BY <1>2, <1>10, <2>1, InUse, CalmClocks
<1>16. Told'
  BY <1>2, <1>10, CalmTold
<1>17. Kept'
  <2>1. ASSUME NEW r \in Rows, Held(r) PROVE Held(r)' \/ Known(r)'
    <3>1. r \in ToSet(deferred) \/ r \in ToSet(ids) \/ (~hydrated /\ r \in ToSet(stored))
      BY <1>1, <1>5, <2>1, Constants DEF Held
    <3>2. CASE r \in ToSet(deferred) \/ (~hydrated /\ r \in ToSet(stored))
      BY <1>2, <3>2 DEF Held
    <3>3. CASE r \in ToSet(ids) /\ drain'.blocked = ids
      BY <3>3 DEF Held
    <3>4. CASE r \in ToSet(ids) /\ drain'.todo = ByIds(ids)
      <4>1. Copy(r) \in ToSet(drain'.todo) /\ Current(Copy(r), r)
        BY <1>4, <1>7, <3>4, CopyIs
      <4> QED BY <1>2, <4>1 DEF Held, Current
    <3> QED BY <1>8, <3>1, <3>2, <3>3, <3>4
  <2>2. Noted
    BY <1>2 DEF Noted
  <2> QED BY <1>2, <2>1, <2>2, PullFrame, KeptFrame
<1> QED BY <1>11, <1>12, <1>13, <1>15, <1>16, <1>17

LEMMA DrainBreaksKeeps ==
  ASSUME IInv, DrainBreaks
  PROVE  IInv'
<1> USE DEF IInv
<1>1. /\ cloud' = cloud /\ events' = events /\ clock' = clock /\ written' = written /\ edited' = edited
      /\ local' = local /\ saving' = saving /\ pending' = pending
      /\ cursor' = cursor /\ pass' = pass /\ job' = job /\ deferred' = deferred
      /\ persistDue' = persistDue /\ hydrated' = hydrated
      /\ drain.ids # <<>> /\ drain' = IdleDrain /\ stored' = deferred
      /\ Incident /\ Miss(ToSet(drain.ids) \ ToSet(deferred), "refused")
  BY DEF DrainBreaks, world, device
<1>2. /\ deferred \in IdsType /\ missed \in [Rows -> SUBSET Causes]
  BY DEF Shape
<1>3. drain.on /\ hydrated /\ drain.todo = <<>> /\ drain.blocked = <<>> /\ ~Busy("drain")
  BY <1>1 DEF Phases
<1>4. /\ missed' \in [Rows -> SUBSET Causes] /\ Noted /\ unsent' = unsent /\ ahead' = ahead
      /\ \A q \in Rows : q \in ToSet(drain.ids) /\ q \notin ToSet(deferred) =>
           HasVersion(q, local[q]) \/ missed'[q] # {}
  <2>1. "refused" \in Causes
    BY DEF Causes
  <2>2. PICK rows : rows = ToSet(drain.ids) \ ToSet(deferred)
    OBVIOUS
  <2>3. Miss(rows, "refused")
    BY <1>1, <2>2
  <2>4. /\ missed' \in [Rows -> SUBSET Causes] /\ Noted /\ unsent' = unsent /\ ahead' = ahead
        /\ \A q \in Rows : q \in rows => HasVersion(q, local[q]) \/ missed'[q] # {}
    BY <1>2, <2>1, <2>3, MissIs
  <2> QED BY <2>2, <2>4
<1>5. incidents' \in Nat /\ incidents' <= MaxIncidents
  BY <1>1, IncidentIs
<1>6. Calm
  BY <1>1, <1>4, <1>5 DEF Calm
<1>7. Shape'
  BY <1>1, <1>2, <1>4, <1>5, Constants DEF Shape, JobsOK, Working, Busy
<1>8. Phases'
  BY <1>1, <1>3, Constants DEF Phases, Pages, Busy
<1>9. Bounds'
  BY <1>6, CalmBounds
<1>10. Clocks'
  <2>1. ToSet(drain'.todo) = {}
    BY <1>1, Constants
  <2> QED BY <1>1, <1>6, <2>1, InUse, CalmClocks
<1>11. Told'
  BY <1>1, <1>6, CalmTold
<1>12. Kept'
  <2>1. ASSUME NEW r \in Rows, Held(r) PROVE Held(r)' \/ Known(r)'
    <3>1. r \in ToSet(deferred) \/ r \in ToSet(drain.ids)
      BY <1>3, <2>1, Constants DEF Held
    <3> QED BY <1>1, <1>4, <3>1, KnownIs DEF Held
  <2> QED BY <1>1, <1>4, <2>1, PullFrame, KeptFrame
<1> QED BY <1>7, <1>8, <1>9, <1>10, <1>11, <1>12

LEMMA EndDrainKeeps ==
  ASSUME IInv, EndDrain
  PROVE  IInv'
<1> USE DEF IInv
<1>1. /\ cloud' = cloud /\ events' = events /\ clock' = clock /\ written' = written /\ edited' = edited
      /\ incidents' = incidents /\ local' = local /\ saving' = saving /\ pending' = pending
      /\ cursor' = cursor /\ pass' = pass /\ job' = job /\ persistDue' = persistDue /\ hydrated' = hydrated
      /\ drain.on /\ drain.ids = <<>> /\ drain.todo = <<>> /\ job["drain"].pc = "idle"
      /\ deferred' = AddTo(deferred, drain.blocked) /\ stored' = deferred' /\ drain' = IdleDrain
      /\ Miss(DroppedBy(deferred, drain.blocked), "dropped")
  BY DEF EndDrain, world, device, At
<1>2. /\ deferred \in IdsType /\ drain.blocked \in Seq(Rows) /\ missed \in [Rows -> SUBSET Causes]
  BY DEF Shape, DrainType
<1>3. deferred' \in IdsType
  BY <1>1, <1>2, AddToType
<1>4. /\ missed' \in [Rows -> SUBSET Causes] /\ Noted /\ unsent' = unsent /\ ahead' = ahead
      /\ \A q \in Rows : q \in DroppedBy(deferred, drain.blocked) =>
           HasVersion(q, local[q]) \/ missed'[q] # {}
  <2>1. "dropped" \in Causes
    BY DEF Causes
  <2> QED BY <1>1, <1>2, <2>1, MissIs
<1>5. Calm
  BY <1>1, <1>4, IncidentIs DEF Calm
<1>6. Shape'
  BY <1>1, <1>3, <1>4, Constants DEF Shape, JobsOK, Working, Busy
<1>7. Phases'
  BY <1>1, Constants DEF Phases, Pages, Busy
<1>8. Bounds'
  BY <1>5, CalmBounds
<1>9. Clocks'
  <2>1. ToSet(drain'.todo) = {}
    BY <1>1, Constants
  <2> QED BY <1>1, <1>5, <2>1, InUse, CalmClocks
<1>10. Told'
  BY <1>1, <1>5, CalmTold
<1>11. Kept'
  <2>1. ASSUME NEW r \in Rows, Held(r) PROVE Held(r)' \/ Known(r)'
    <3>1. hydrated
      BY <1>1 DEF Phases
    <3>2. r \in ToSet(deferred) \cup ToSet(drain.blocked)
      BY <1>1, <2>1, <3>1, Constants DEF Held, Busy
    <3>3. r \in ToSet(deferred') \/ r \in DroppedBy(deferred, drain.blocked)
      BY <1>1, <3>2, AddsAll
    <3> QED BY <1>1, <1>4, <3>3, KnownIs DEF Held
  <2> QED BY <1>1, <1>4, <2>1, PullFrame, KeptFrame
<1> QED BY <1>6, <1>7, <1>8, <1>9, <1>10, <1>11

LEMMA DrainCheckKeeps ==
  ASSUME IInv, DrainCheck
  PROVE  IInv'
<1> USE DEF IInv
<1>1. PICK row : row = Head(drain.todo)
  OBVIOUS
<1>2. /\ cloud' = cloud /\ events' = events /\ clock' = clock /\ written' = written /\ edited' = edited
      /\ incidents' = incidents /\ local' = local /\ saving' = saving /\ pending' = pending
      /\ cursor' = cursor /\ pass' = pass /\ deferred' = deferred /\ stored' = stored
      /\ persistDue' = persistDue /\ hydrated' = hydrated /\ missed' = missed /\ unsent' = unsent /\ ahead' = ahead
      /\ drain.on /\ drain.todo # <<>> /\ job["drain"].pc = "idle"
      /\ \/ drain' = [drain EXCEPT !.todo = Tail(@), !.blocked = Append(@, row.id)] /\ job' = job
         \/ drain' = [drain EXCEPT !.todo = Tail(@)] /\ Work("drain", "read", row, Absent)
  BY <1>1 DEF DrainCheck, world, device, deferral, history, At
<1>3. /\ drain \in DrainType /\ drain.todo \in Seq(CopyType) /\ drain.blocked \in Seq(Rows)
      /\ JobsOK /\ "drain" \in Writers /\ "pull" \in Writers
  BY DEF Shape, DrainType, Writers
<1>4. /\ row \in CopyType /\ row.id \in Rows /\ Tail(drain.todo) \in Seq(CopyType)
      /\ ToSet(drain.todo) = {row} \cup ToSet(Tail(drain.todo))
  <2>1. /\ row \in CopyType /\ Tail(drain.todo) \in Seq(CopyType)
        /\ ToSet(drain.todo) = {row} \cup ToSet(Tail(drain.todo))
    BY <1>1, <1>2, <1>3, HeadTailIs
  <2> QED BY <2>1 DEF CopyType
<1>5. /\ Append(drain.blocked, row.id) \in Seq(Rows)
      /\ ToSet(Append(drain.blocked, row.id)) = ToSet(drain.blocked) \cup {row.id}
  BY <1>3, <1>4, AppendIs
<1>6. /\ drain' \in DrainType /\ drain'.on /\ drain'.todo = Tail(drain.todo)
      /\ drain'.blocked = drain.blocked \/ drain'.blocked = Append(drain.blocked, row.id)
  BY <1>2, <1>3, <1>4, <1>5 DEF DrainType
<1>7. /\ JobsOK' /\ \A v \in Writers : v # "drain" => job'[v] = job[v]
      /\ \/ job'["drain"].pc = "idle" /\ drain'.blocked = Append(drain.blocked, row.id)
         \/ job'["drain"].pc = "read" /\ job'["drain"].row = row /\ job'["drain"].seen = Absent
  <2>1. CASE drain' = [drain EXCEPT !.todo = Tail(@), !.blocked = Append(@, row.id)] /\ job' = job
    <3>1. JobsOK'
      BY <1>3, <2>1 DEF JobsOK, Working, Busy
    <3>2. drain'.blocked = Append(drain.blocked, row.id)
      BY <1>3, <2>1 DEF DrainType
    <3> QED BY <1>2, <2>1, <3>1, <3>2
  <2>2. CASE Work("drain", "read", row, Absent)
    BY <1>3, <1>4, <2>2, WorkIs, Constants
  <2> QED BY <1>2, <2>1, <2>2
<1>8. job'["pull"] = job["pull"]
  BY <1>3, <1>7
<1>9. Calm
  BY <1>2, IncidentIs DEF Calm
<1>10. Shape'
  BY <1>2, <1>6, <1>7 DEF Shape
<1>11. Phases'
  <2>1. drain.ids = <<>> /\ hydrated /\ Pages /\ (pass.pc = "fetch" => pass.todo = <<>> /\ pass.fresh = {} /\ ~Busy("pull"))
    BY <1>2 DEF Phases
  <2>2. drain'.ids = drain.ids
    BY <1>2, <1>3 DEF DrainType
  <2> QED BY <1>2, <1>6, <1>8, <2>1, <2>2 DEF Phases, Pages, Busy
<1>12. Bounds'
  BY <1>9, CalmBounds
<1>13. Clocks'
  <2>1. \A copy \in ToSet(drain'.todo) : Past(copy)
    BY <1>4, <1>6, InUse
  <2>2. Past(row) /\ Behind(row.id, Absent)
    BY <1>4, InUse, AbsentIs
  <2>3. \A w \in Writers : job'[w].pc # "idle" => Past(job'[w].row) /\ Behind(job'[w].row.id, job'[w].seen)
    BY <1>7, <2>2, InUse
  <2> QED BY <1>2, <1>9, <2>1, <2>3, InUse, CalmClocks
<1>14. Told'
  BY <1>2, <1>9, CalmTold
<1>15. Kept'
  <2>1. ASSUME NEW r \in Rows, Held(r) PROVE Held(r)' \/ Known(r)'
    <3>1. CASE r \in ToSet(deferred) \cup ToSet(drain.blocked) \/ (~hydrated /\ r \in ToSet(stored))
      <4>1. ToSet(drain.blocked) \subseteq ToSet(drain'.blocked)
        BY <1>5, <1>6
      <4> QED BY <1>2, <3>1, <4>1 DEF Held
    <3>2. CASE Current(row, r)
      <4>1. r = row.id /\ Current(row, r)'
        BY <1>2, <3>2 DEF Current
      <4> QED BY <1>5, <1>7, <4>1 DEF Held, Busy
    <3>3. CASE \E copy \in ToSet(Tail(drain.todo)) : Current(copy, r)
      BY <1>2, <1>6, <3>3 DEF Held, Current
    <3>4. drain.ids = <<>> /\ ~Busy("drain")
      BY <1>2 DEF Phases, Busy
    <3>5. \/ r \in ToSet(deferred) \cup ToSet(drain.blocked) \/ (~hydrated /\ r \in ToSet(stored))
          \/ \E copy \in ToSet(drain.todo) : Current(copy, r)
      BY <2>1, <3>4, Constants DEF Held
    <3>6. CASE \E copy \in ToSet(drain.todo) : Current(copy, r)
      BY <1>4, <3>2, <3>3, <3>6
    <3> QED BY <3>1, <3>5, <3>6
  <2>2. Noted
    BY <1>2 DEF Noted
  <2> QED BY <1>2, <1>8, <2>1, <2>2, PullFrame, KeptFrame
<1> QED BY <1>10, <1>11, <1>12, <1>13, <1>14, <1>15

LEMMA DrainReadKeeps ==
  ASSUME IInv, DrainRead
  PROVE  IInv'
<1> USE DEF IInv
<1>1. PICK row : row = job["drain"].row
  OBVIOUS
<1>2. /\ cloud' = cloud /\ events' = events /\ clock' = clock /\ written' = written /\ edited' = edited
      /\ incidents' = incidents /\ local' = local /\ saving' = saving /\ pending' = pending
      /\ cursor' = cursor /\ pass' = pass /\ drain' = drain /\ deferred' = deferred /\ stored' = stored
      /\ persistDue' = persistDue /\ hydrated' = hydrated /\ missed' = missed /\ unsent' = unsent /\ ahead' = ahead
      /\ job["drain"].pc = "read"
      /\ IF ~row.gone THEN Work("drain", "store", row, local[row.id])
         ELSE Tombstone("drain", row, local[row.id])
  BY <1>1 DEF DrainRead, world, device, deferral, history, At
<1>3. /\ JobsOK /\ "drain" \in Writers /\ "pull" \in Writers /\ row \in CopyType /\ row.id \in Rows
      /\ local[row.id] \in RecordType /\ row.gone \in BOOLEAN
  <2>1. JobsOK /\ "drain" \in Writers /\ "pull" \in Writers
    BY DEF Shape, Writers
  <2>2. row \in CopyType
    BY <1>1, <1>2, <2>1 DEF JobsOK, Working, Busy
  <2> QED BY <2>1, <2>2 DEF Shape, CopyType
<1>4. /\ JobsOK' /\ \A v \in Writers : v # "drain" => job'[v] = job[v]
      /\ \/ job'["drain"].pc # "idle" /\ job'["drain"].row = row /\ job'["drain"].seen = local[row.id]
         \/ job'["drain"].pc = "idle" /\ row.gone /\ local[row.id].here # "live"
  <2>1. CASE ~row.gone
    BY <1>2, <1>3, <2>1, WorkIs
  <2>2. CASE row.gone
    BY <1>2, <1>3, <2>2, TombstoneIs
  <2> QED BY <2>1, <2>2
<1>5. job'["pull"] = job["pull"]
  BY <1>3, <1>4
<1>6. Calm
  BY <1>2, IncidentIs DEF Calm
<1>7. Shape'
  BY <1>2, <1>4 DEF Shape
<1>8. Phases'
  <2>1. drain.on
    BY <1>2 DEF Phases, Busy
  <2> QED BY <1>2, <1>5, <2>1 DEF Phases, Pages, Busy
<1>9. Bounds'
  BY <1>6, CalmBounds
<1>10. Past(row)
  BY <1>1, <1>2, <1>3, InUse
<1>11. Clocks'
  <2>1. \A w \in Writers : job'[w].pc # "idle" => Past(job'[w].row) /\ Behind(job'[w].row.id, job'[w].seen)
    BY <1>3, <1>4, <1>10, InUse
  <2> QED BY <1>2, <1>6, <2>1, InUse, CalmClocks
<1>12. Told'
  BY <1>2, <1>6, CalmTold
<1>13. Kept'
  <2>1. ASSUME NEW r \in Rows, Held(r) PROVE Held(r)' \/ Known(r)'
    <3>1. CASE Current(row, r)
      <4>1. r = row.id /\ Current(row, r)'
        BY <1>2, <3>1 DEF Current
      <4>2. CASE job'["drain"].pc # "idle"
        BY <1>4, <4>1, <4>2 DEF Held, Busy
      <4>3. CASE row.gone /\ local[row.id].here # "live"
        BY <1>2, <1>10, <3>1, <4>1, <4>3, DeletedIs, KnownIs
      <4> QED BY <1>4, <4>2, <4>3
    <3>2. CASE ~Current(row, r)
      BY <1>1, <1>2, <2>1, <3>2 DEF Held, Current
    <3> QED BY <3>1, <3>2
  <2>2. Noted
    BY <1>2 DEF Noted
  <2> QED BY <1>2, <1>5, <2>1, <2>2, PullFrame, KeptFrame
<1> QED BY <1>7, <1>8, <1>9, <1>11, <1>12, <1>13

LEMMA DrainRowFailsKeeps ==
  ASSUME IInv, DrainRowFails
  PROVE  IInv'
<1> USE DEF IInv
<1>1. PICK row : row = job["drain"].row
  OBVIOUS
<1>2. /\ cloud' = cloud /\ events' = events /\ clock' = clock /\ written' = written /\ edited' = edited
      /\ local' = local /\ saving' = saving /\ pending' = pending
      /\ cursor' = cursor /\ pass' = pass /\ drain' = drain /\ deferred' = deferred /\ stored' = stored
      /\ persistDue' = persistDue /\ hydrated' = hydrated
      /\ Incident /\ Miss({row.id}, "failed") /\ Rest("drain")
  BY <1>1 DEF DrainRowFails, world, device, deferral
<1>3. JobsOK /\ "drain" \in Writers /\ "pull" \in Writers /\ missed \in [Rows -> SUBSET Causes]
  BY DEF Shape, Writers
<1>4. /\ JobsOK' /\ job'["drain"].pc = "idle" /\ \A v \in Writers : v # "drain" => job'[v] = job[v]
  BY <1>2, <1>3, RestIs
<1>5. /\ missed' \in [Rows -> SUBSET Causes] /\ Noted /\ unsent' = unsent /\ ahead' = ahead
      /\ \A q \in Rows : q = row.id => HasVersion(q, local[q]) \/ missed'[q] # {}
  <2>1. "failed" \in Causes
    BY DEF Causes
  <2> QED BY <1>2, <1>3, <2>1, MissIs
<1>6. job'["pull"] = job["pull"]
  BY <1>3, <1>4
<1>7. incidents' \in Nat /\ incidents' <= MaxIncidents
  BY <1>2, IncidentIs
<1>8. Calm
  BY <1>2, <1>5, <1>7 DEF Calm
<1>9. Shape'
  BY <1>2, <1>4, <1>5, <1>7 DEF Shape
<1>10. Phases'
  BY <1>2, <1>4, <1>6 DEF Phases, Pages, Busy
<1>11. Bounds'
  BY <1>8, CalmBounds
<1>12. Clocks'
  <2>1. \A w \in Writers : job'[w].pc # "idle" => Past(job'[w].row) /\ Behind(job'[w].row.id, job'[w].seen)
    BY <1>4, InUse
  <2> QED BY <1>2, <1>8, <2>1, InUse, CalmClocks
<1>13. Told'
  BY <1>2, <1>8, CalmTold
<1>14. Kept'
  <2>1. ASSUME NEW r \in Rows, Held(r) PROVE Held(r)' \/ Known(r)'
    <3>1. CASE Current(row, r)
      BY <1>2, <1>5, <3>1, KnownIs DEF Current
    <3>2. CASE ~Current(row, r)
      BY <1>1, <1>2, <2>1, <3>2 DEF Held, Current
    <3> QED BY <3>1, <3>2
  <2> QED BY <1>2, <1>5, <1>6, <2>1, PullFrame, KeptFrame
<1> QED BY <1>9, <1>10, <1>11, <1>12, <1>13, <1>14

-----------------------------------------------------------------------------
(***************************************************************************)
(* The steps that store.                                                   *)
(***************************************************************************)
LEMMA KeptStep ==
  ASSUME Kept, cloud' = cloud,
         \A r \in Rows : Known(r) => Known(r)',
         \A r \in Rows : Held(r) => Held(r)' \/ Known(r)',
         \A r \in Rows : ~Known(r)' /\ cloud[r].at >= cursor /\ (ToCome(r) \/ InPull(r)) =>
           Held(r)' \/ (cloud[r].at >= cursor' /\ (ToCome(r)' \/ InPull(r)'))
  PROVE  Kept'
BY DEF Kept

\* A record that carries what the copy says, stored: it is of the row, and
\* it has the last version if the copy does.
Takes(copy, record) ==
  /\ record \in RecordType
  /\ Behind(copy.id, record) /\ Tells(copy.id, record)
  /\ copy.write = cloud[copy.id].write => HasVersion(copy.id, record)

LEMMA MergeTakes ==
  ASSUME cloud \in CloudType, Clocks, NEW copy \in CopyType, Past(copy), ~copy.gone,
         NEW seen \in RecordType, Behind(copy.id, seen), clock \in Nat, written \in Nat
  PROVE  Takes(copy, Merge(seen, copy))
<1>1. PICK r : r = copy.id
  OBVIOUS
<1>2. PICK record : record = Merge(seen, copy)
  OBVIOUS
<1>3. /\ r \in Rows /\ copy.write \in Nat /\ copy.at \in Nat
      /\ cloud[r].write \in Nat /\ cloud[r].at \in Nat
      /\ cloud[r].at <= clock /\ cloud[r].write <= written
      /\ seen.value \in Nat /\ seen.at \in Nat /\ seen.time \in Int /\ seen.here \in {"absent", "live", "deleted"}
  BY <1>1 DEF CopyType, CloudType, Clocks, RecordType
<1>4. /\ record \in RecordType /\ record.here # "absent"
      /\ record.here = "live" => seen.here # "deleted"
      /\ record.version = copy.write /\ record.at = copy.at /\ record.time = copy.at
      /\ \/ record.value = copy.write
         \/ record.value = seen.value /\ seen.here # "absent" /\ ~Outdates(copy, seen)
  BY <1>2, MergeIs
<1>5. /\ copy.write <= cloud[r].write /\ copy.at <= cloud[r].at
      /\ copy.write = cloud[r].write => ~cloud[r].gone /\ copy.at = cloud[r].at
  BY <1>1 DEF Past, Copy
<1>6. /\ seen.value <= written /\ seen.at <= cloud[r].at
      /\ seen.here = "live" => seen.time <= cloud[r].at \/ Dirty(r)
  BY <1>1 DEF Behind
<1>7. Behind(r, record)
  BY <1>3, <1>4, <1>5, <1>6 DEF Behind
<1>8. Tells(r, record)
  BY <1>3, <1>4, <1>5, <1>6 DEF Tells, Outdates
<1>9. copy.write = cloud[r].write => HasVersion(r, record)
  BY <1>4, <1>5 DEF HasVersion
<1> QED BY <1>1, <1>2, <1>4, <1>7, <1>8, <1>9 DEF Takes

LEMMA DeleteTakes ==
  ASSUME NEW copy \in CopyType, Past(copy), copy.gone,
         NEW seen \in RecordType, Behind(copy.id, seen)
  PROVE  Takes(copy, [seen EXCEPT !.here = "deleted"])
<1>1. PICK record : record = [seen EXCEPT !.here = "deleted"]
  OBVIOUS
<1>2. /\ record \in RecordType /\ record.here = "deleted"
      /\ record.version = seen.version /\ record.value = seen.value
      /\ record.at = seen.at /\ record.time = seen.time
  BY <1>1 DEF RecordType
<1>3. Behind(copy.id, record) /\ Tells(copy.id, record)
  BY <1>2 DEF Behind, Tells
<1>4. copy.write = cloud[copy.id].write => HasVersion(copy.id, record)
  BY <1>2 DEF Past, Copy, HasVersion
<1> QED BY <1>1, <1>2, <1>3, <1>4 DEF Takes

\* A writer has stored the record for its copy, and rests.
LEMMA RowStepKeeps ==
  ASSUME IInv, NEW w \in Writers, NEW copy, NEW record,
         Busy(w), copy = job[w].row, Takes(copy, record),
         Store([r \in {copy.id} |-> record]), Rest(w),
         UNCHANGED <<world, incidents, saving, pending, cursor, pass, drain, deferral>>
  PROVE  IInv'
<1> USE DEF IInv
<1>1. /\ cloud' = cloud /\ events' = events /\ clock' = clock /\ written' = written /\ edited' = edited
      /\ incidents' = incidents /\ saving' = saving /\ pending' = pending
      /\ cursor' = cursor /\ pass' = pass /\ drain' = drain /\ deferred' = deferred /\ stored' = stored
      /\ persistDue' = persistDue /\ hydrated' = hydrated
  BY DEF world, deferral
<1>2. /\ JobsOK /\ local \in [Rows -> RecordType] /\ missed \in [Rows -> SUBSET Causes]
      /\ copy.id \in Rows /\ record \in RecordType
  BY DEF Shape, JobsOK, Working, CopyType, Takes
<1>3. /\ local' \in [Rows -> RecordType] /\ missed' \in [Rows -> SUBSET Causes] /\ unsent' = unsent /\ ahead' = ahead
      /\ \A r \in Rows : r # copy.id => local'[r] = local[r] /\ missed'[r] = missed[r]
      /\ local'[copy.id] = record
      /\ \/ HasVersion(copy.id, record)
         \/ /\ missed[copy.id] \subseteq missed'[copy.id]
            /\ HasVersion(copy.id, local[copy.id]) => missed'[copy.id] # {}
  BY <1>2, StoreOneIs
<1>4. JobsOK' /\ job'[w].pc = "idle" /\ \A v \in Writers : v # w => job'[v] = job[v]
  BY <1>2, RestIs
<1>5. Calm
  BY <1>1, <1>3, IncidentIs DEF Calm
<1>6. Shape'
  BY <1>1, <1>3, <1>4 DEF Shape
<1>7. Phases'
  <2>1. \A v \in Writers : Busy(v)' => Busy(v)
    BY <1>4 DEF Busy
  <2>2. "pull" \in Writers /\ "drain" \in Writers
    BY DEF Writers
  <2> QED BY <1>1, <2>1, <2>2 DEF Phases, Pages
<1>8. Bounds'
  BY <1>5, CalmBounds
<1>9. Clocks'
  <2>1. \A v \in Writers : job'[v].pc # "idle" => Past(job'[v].row) /\ Behind(job'[v].row.id, job'[v].seen)
    BY <1>4, InUse
  <2>2. \A r \in Rows : Behind(r, local'[r])
    BY <1>3, InUse DEF Takes
  <2> QED BY <1>1, <1>5, <2>1, <2>2, InUse, CalmClocks
<1>10. Told'
  <2>1. \A r \in Rows : local'[r] = local[r] \/ Tells(r, local'[r])
    BY <1>3 DEF Takes
  <2> QED BY <1>5, <2>1, CalmTold
<1>11. Kept'
  <2>1. \A r \in Rows : Known(r) => Known(r)'
    BY <1>1, <1>3 DEF Known, HasVersion
  <2>2. ASSUME NEW r \in Rows, Current(copy, r) PROVE Known(r)'
    <3>1. r = copy.id /\ HasVersion(r, record)
      BY <2>2 DEF Current, Takes
    <3> QED BY <1>1, <1>3, <3>1 DEF Known, HasVersion
  <2>3. \A v \in Writers : v # w => job'[v] = job[v]
    BY <1>4
  <2>4. \A r \in Rows : Held(r) => Held(r)' \/ Known(r)'
    BY <1>1, <2>2, <2>3 DEF Held, Busy, Current, Writers
  <2>5. \A r \in Rows : ToCome(r) \/ InPull(r) => ToCome(r)' \/ InPull(r)' \/ Known(r)'
    BY <1>1, <2>2, <2>3 DEF ToCome, InPull, Version, Busy, Current, Writers
  <2> QED BY <1>1, <2>1, <2>4, <2>5, KeptStep
<1> QED BY <1>6, <1>7, <1>8, <1>9, <1>10, <1>11

LEMMA PutKeeps ==
  ASSUME IInv, NEW w \in Writers, Put(w)
  PROVE  IInv'
<1> USE DEF IInv
<1>1. PICK copy, seen, record : copy = job[w].row /\ seen = job[w].seen /\ record = Merge(seen, copy)
  OBVIOUS
<1>2. /\ Busy(w) /\ copy \in CopyType /\ ~copy.gone /\ seen \in RecordType
      /\ cloud \in CloudType /\ clock \in Nat /\ written \in Nat
  BY <1>1 DEF Put, At, Busy, Shape, JobsOK, Working, JobType
<1>3. Past(copy) /\ Behind(copy.id, seen)
  BY <1>1, <1>2, InUse DEF Busy
<1>4. Takes(copy, record)
  BY <1>1, <1>2, <1>3, MergeTakes
<1>5. /\ Store([r \in {copy.id} |-> record]) /\ Rest(w)
      /\ UNCHANGED <<world, incidents, saving, pending, cursor, pass, drain, deferral>>
  BY <1>1 DEF Put
<1> QED BY <1>1, <1>2, <1>4, <1>5, RowStepKeeps

LEMMA DeleteWriteKeeps ==
  ASSUME IInv, NEW w \in Writers, DeleteWrite(w)
  PROVE  IInv'
<1> USE DEF IInv
<1>1. PICK copy, seen, record : /\ copy = job[w].row /\ seen = job[w].seen
                                /\ record = [seen EXCEPT !.here = "deleted"]
  OBVIOUS
<1>2. Busy(w) /\ copy \in CopyType /\ copy.gone /\ seen \in RecordType
  BY <1>1 DEF DeleteWrite, At, Busy, Shape, JobsOK, Working, JobType
<1>3. Past(copy) /\ Behind(copy.id, seen)
  BY <1>1, <1>2, InUse DEF Busy
<1>4. Takes(copy, record)
  BY <1>1, <1>2, <1>3, DeleteTakes
<1>5. /\ Store([r \in {copy.id} |-> record]) /\ Rest(w)
      /\ UNCHANGED <<world, incidents, saving, pending, cursor, pass, drain, deferral>>
  BY <1>1 DEF DeleteWrite
<1> QED BY <1>1, <1>2, <1>4, <1>5, RowStepKeeps

LEMMA EndPageKeeps ==
  ASSUME IInv, EndPage
  PROVE  IInv'
<1> USE DEF IInv
<1> DEFINE ids == {row.id : row \in pass.fresh}
           records == [r \in ids |-> Merge(Absent, CHOOSE row \in pass.fresh : row.id = r)]
<1>1. /\ cloud' = cloud /\ events' = events /\ clock' = clock /\ written' = written /\ edited' = edited
      /\ incidents' = incidents /\ saving' = saving /\ pending' = pending
      /\ drain' = drain /\ job' = job /\ deferred' = deferred /\ stored' = stored
      /\ persistDue' = persistDue /\ hydrated' = hydrated
      /\ pass.todo = <<>> /\ job["pull"].pc = "idle" /\ Store(records)
      /\ \/ /\ pass' = [pass EXCEPT !.pc = "fetch", !.offset = @ + PageSize, !.fresh = {}, !.more = FALSE]
            /\ cursor' = cursor
         \/ pass' = IdlePass /\ cursor' = IF pass.tail > 0 THEN pass.tail ELSE cursor
  BY DEF EndPage, EndPass, world, deferral, At
<1>2. /\ pass \in PassType /\ pass.fresh \subseteq CopyType /\ pass.tail \in Nat
      /\ cloud \in CloudType /\ cursor \in Nat /\ clock \in Nat /\ written \in Nat
      /\ local \in [Rows -> RecordType] /\ missed \in [Rows -> SUBSET Causes]
  BY DEF Shape, PassType
<1>3. ASSUME NEW copy \in pass.fresh
      PROVE  copy.id \in ids /\ Takes(copy, records[copy.id])
  <2>1. (CHOOSE row \in pass.fresh : row.id = copy.id) = copy
    BY DEF Phases, Pages
  <2>2. copy.id \in ids /\ records[copy.id] = Merge(Absent, copy)
    BY <2>1
  <2>3. /\ copy \in CopyType /\ copy.id \in Rows /\ Past(copy) /\ ~copy.gone
        /\ Absent \in RecordType /\ Behind(copy.id, Absent)
    BY <1>2, InUse, AbsentIs, Constants DEF Phases, Pages, CopyType
  <2> HIDE DEF ids, records
  <2> QED BY <1>2, <2>2, <2>3, MergeTakes
<1>4. DOMAIN records = ids /\ \A r \in ids : \E copy \in pass.fresh : copy.id = r
  OBVIOUS
<1> HIDE DEF ids, records
<1>5. \A r \in ids : records[r] \in RecordType
  BY <1>3, <1>4 DEF Takes
<1>6. /\ local' \in [Rows -> RecordType] /\ missed' \in [Rows -> SUBSET Causes] /\ unsent' = unsent /\ ahead' = ahead
      /\ \A r \in Rows : r \notin ids => local'[r] = local[r] /\ missed'[r] = missed[r]
      /\ \A r \in Rows : r \in ids =>
           /\ local'[r] = records[r]
           /\ \/ HasVersion(r, records[r])
              \/ missed[r] \subseteq missed'[r] /\ (HasVersion(r, local[r]) => missed'[r] # {})
  BY <1>1, <1>2, <1>4, <1>5, StoreIs
<1>7. /\ pass' \in PassType /\ pass'.pc = "fetch" /\ pass'.todo = <<>> /\ pass'.fresh = {}
      /\ \/ pass'.tail = pass.tail /\ pass'.covered = pass.covered /\ cursor' = cursor
         \/ /\ pass'.tail = 0 /\ pass'.covered = {}
            /\ cursor' = IF pass.tail > 0 THEN pass.tail ELSE cursor
  <2>1. CASE pass' = IdlePass
    BY <1>1, <2>1, Constants DEF IdlePass
  <2>2. CASE /\ pass' = [pass EXCEPT !.pc = "fetch", !.offset = @ + PageSize, !.fresh = {}, !.more = FALSE]
             /\ cursor' = cursor
    <3>1. PICK n : n = pass.offset + PageSize
      OBVIOUS
    <3>2. n \in Nat
      BY <1>2, <3>1 DEF PassType
    <3>3. pass' = [pass EXCEPT !.pc = "fetch", !.offset = n, !.fresh = {}, !.more = FALSE]
      BY <2>2, <3>1
    <3>4. pass' \in PassType
      BY <1>2, <3>2, <3>3 DEF PassType
    <3>5. /\ pass'.pc = "fetch" /\ pass'.todo = <<>> /\ pass'.fresh = {}
          /\ pass'.tail = pass.tail /\ pass'.covered = pass.covered
      BY <1>1, <1>2, <3>3 DEF PassType
    <3> QED BY <2>2, <3>4, <3>5
  <2> QED BY <1>1, <2>1, <2>2
<1>8. Calm
  BY <1>1, <1>6, IncidentIs DEF Calm
<1>9. Shape'
  <2>1. cursor' \in Nat
    BY <1>2, <1>7
  <2> QED BY <1>1, <1>6, <1>7, <2>1 DEF Shape, JobsOK, Working, Busy
<1>10. Phases'
  BY <1>1, <1>7 DEF Phases, Pages, Busy
<1>11. Bounds'
  BY <1>8, CalmBounds
<1>12. Clocks'
  <2>1. ToSet(pass'.todo) = {}
    BY <1>7, Constants
  <2>2. \A v \in pass'.covered : v[2] <= cloud[v[1]].write
    BY <1>7, InUse
  <2>3. cursor' <= clock /\ pass'.tail <= clock
    BY <1>2, <1>7, InUse
  <2>4. \A r \in Rows : Behind(r, local'[r])
    BY <1>3, <1>4, <1>6, InUse DEF Takes
  <2> QED BY <1>1, <1>7, <1>8, <2>1, <2>2, <2>3, <2>4, InUse, CalmClocks
<1>13. Told'
  <2>1. \A r \in Rows : local'[r] = local[r] \/ Tells(r, local'[r])
    <3>1. \A r \in ids : Tells(r, records[r])
      BY <1>3, <1>4 DEF Takes
    <3> QED BY <1>6, <3>1
  <2> QED BY <1>8, <2>1, CalmTold
<1>14. Kept'
  <2>1. \A r \in Rows : Known(r) => Known(r)'
    BY <1>1, <1>6 DEF Known, HasVersion
  <2>2. \A r \in Rows : Held(r) => Held(r)'
    BY <1>1 DEF Held, Current, Busy
  <2>3. ASSUME NEW r \in Rows, ~Known(r)', cloud[r].at >= cursor, ToCome(r) \/ InPull(r)
        PROVE  cloud[r].at >= cursor' /\ ToCome(r)'
    <3>1. ~InPull(r)
      <4>1. SUFFICES ASSUME InPull(r) PROVE FALSE
        OBVIOUS
      <4>2. PICK copy \in pass.fresh : Current(copy, r)
        BY <1>1, <4>1, Constants DEF InPull, Busy
      <4>3. copy.id = r /\ r \in ids /\ HasVersion(r, records[r])
        BY <1>3, <4>2 DEF Current, Takes
      <4>4. local'[r] = records[r] /\ cloud' = cloud
        BY <1>1, <1>6, <4>3
      <4> QED BY <2>3, <4>3, <4>4 DEF Known, HasVersion
    <3>2. cloud[r].at \in Nat
      BY <1>2 DEF CloudType
    <3>3. ToCome(r) /\ cloud' = cloud /\ cursor \in Nat /\ pass.tail \in Nat
      BY <1>1, <1>2, <2>3, <3>1 DEF PassType
    <3>4. cloud[r].at >= pass.tail /\ <<r, cloud[r].write>> \notin pass.covered
      BY <3>3 DEF ToCome, Version
    <3>5. CASE pass'.tail = pass.tail /\ pass'.covered = pass.covered /\ cursor' = cursor
      BY <2>3, <3>3, <3>4, <3>5 DEF ToCome, Version
    <3>6. CASE /\ pass'.tail = 0 /\ pass'.covered = {}
               /\ cursor' = IF pass.tail > 0 THEN pass.tail ELSE cursor
      <4>1. cloud[r].at >= cursor'
        BY <2>3, <3>2, <3>3, <3>4, <3>6
      <4>2. ToCome(r)'
        BY <3>2, <3>3, <3>6 DEF ToCome
      <4> QED BY <3>3, <4>1, <4>2
    <3> QED BY <1>7, <3>5, <3>6
  <2> QED BY <1>1, <2>1, <2>2, <2>3, KeptStep
<1> QED BY <1>9, <1>10, <1>11, <1>12, <1>13, <1>14

-----------------------------------------------------------------------------
(***************************************************************************)
(* The operations that are waiting, counted.                               *)
(***************************************************************************)
Waiting(ops) == {q \in Rows : ops[q] # NoOp}

LEMMA WaitingIs ==
  ASSUME NEW ops
  PROVE  IsFiniteSet(Waiting(ops)) /\ Cardinality(Waiting(ops)) \in Nat
<1>1. Waiting(ops) \in SUBSET Rows
  BY DEF Waiting
<1>2. IsFiniteSet(Waiting(ops))
  BY <1>1, FS_Subset
<1> QED BY <1>2, FS_CardinalityType

LEMMA OneLess ==
  ASSUME NEW ops \in [Rows -> OpType], NEW r \in Rows, ops[r] # NoOp
  PROVE  Cardinality(Waiting([ops EXCEPT ![r] = NoOp])) = Cardinality(Waiting(ops)) - 1
<1>1. Waiting([ops EXCEPT ![r] = NoOp]) = Waiting(ops) \ {r} /\ r \in Waiting(ops)
  BY DEF Waiting
<1>2. IsFiniteSet(Waiting(ops))
  BY WaitingIs
<1>3. PICK S, T : S = Waiting(ops) /\ T = Waiting([ops EXCEPT ![r] = NoOp])
  OBVIOUS
<1>4. IsFiniteSet(S) /\ r \in S /\ T = S \ {r}
  BY <1>1, <1>2, <1>3
<1>5. Cardinality(T) = Cardinality(S) - 1
  BY <1>4, FS_RemoveElement
<1> QED BY <1>3, <1>5

LEMMA OneMoreWaits ==
  ASSUME NEW ops \in [Rows -> OpType], NEW r \in Rows, NEW op
  PROVE  Cardinality(Waiting([ops EXCEPT ![r] = op])) <= Cardinality(Waiting(ops)) + 1
<1>1. Waiting([ops EXCEPT ![r] = op]) \in SUBSET (Waiting(ops) \cup {r})
  BY DEF Waiting
<1>2. /\ IsFiniteSet(Waiting(ops) \cup {r})
      /\ Cardinality(Waiting(ops) \cup {r}) = IF r \in Waiting(ops) THEN Cardinality(Waiting(ops))
                                              ELSE Cardinality(Waiting(ops)) + 1
  BY WaitingIs, FS_AddElement
<1>3. Cardinality(Waiting([ops EXCEPT ![r] = op])) <= Cardinality(Waiting(ops) \cup {r})
  BY <1>1, <1>2, FS_Subset
<1>4. Cardinality(Waiting(ops)) \in Nat /\ Cardinality(Waiting([ops EXCEPT ![r] = op])) \in Nat
  BY WaitingIs
<1> QED BY <1>2, <1>3, <1>4

LEMMA BoundsIs ==
  ASSUME Shape
  PROVE  Bounds <=> /\ edited <= MaxEdits /\ incidents <= MaxIncidents
                    /\ written <= edited + MaxWrites + 1
                    /\ clock + Cardinality(Waiting(saving)) + Cardinality(Waiting(pending)) <= written + edited + 1
BY DEF Bounds, Waiting

-----------------------------------------------------------------------------
(***************************************************************************)
(* The steps that write to the cloud.                                      *)
(***************************************************************************)
\* What they leave alone.
Apart ==
  /\ local' = local /\ cursor' = cursor /\ pass' = pass /\ drain' = drain /\ job' = job
  /\ deferred' = deferred /\ stored' = stored /\ persistDue' = persistDue /\ hydrated' = hydrated

NewVersion(r, write, t, gone) ==
  /\ cloud' \in CloudType
  /\ cloud'[r].write = write /\ cloud'[r].at = t /\ cloud'[r].gone = gone
  /\ \A q \in Rows : q # r => cloud'[q] = cloud[q]
  /\ events' \subseteq CopyType
  /\ \A copy \in events' : copy \in events \/
       (copy.id = r /\ copy = [id |-> r, write |-> write, at |-> t, gone |-> gone])

LEMMA CommitIs ==
  ASSUME Shape, NEW r \in Rows, NEW write \in Nat, NEW t \in Nat, NEW gone \in BOOLEAN,
         Commit(r, write, t, gone)
  PROVE  NewVersion(r, write, t, gone)
<1> DEFINE row == [write |-> write, at |-> t, gone |-> gone]
           event == [id |-> r, write |-> write, at |-> t, gone |-> gone]
<1>1. row \in [write: Nat, at: Nat, gone: BOOLEAN] /\ row.write = write /\ row.at = t /\ row.gone = gone
  OBVIOUS
<1>2. event \in CopyType /\ event.id = r
  BY DEF CopyType
<1>3. cloud' = [cloud EXCEPT ![r] = row] /\ events' = events \cup {event}
  BY DEF Commit, Publish
<1> HIDE DEF row, event
<1>4. cloud \in CloudType /\ events \subseteq CopyType
  BY DEF Shape
<1>5. cloud' \in CloudType /\ cloud'[r] = row /\ \A q \in Rows : q # r => cloud'[q] = cloud[q]
  BY <1>1, <1>3, <1>4 DEF CloudType
<1>6. cloud'[r].write = write /\ cloud'[r].at = t /\ cloud'[r].gone = gone
  BY <1>1, <1>5
<1>7. events' \subseteq CopyType /\ \A copy \in events' : copy \in events \/ (copy.id = r /\ copy = event)
  BY <1>2, <1>3, <1>4
<1> QED BY <1>5, <1>6, <1>7 DEF NewVersion, event

\* A later version makes every copy there is an older one.
LEMMA CommitClocks ==
  ASSUME Shape, Clocks, Apart, NEW r \in Rows, NEW write \in Nat, NEW t \in Nat, NEW gone \in BOOLEAN,
         Commit(r, write, t, gone), cloud[r].write < write, cloud[r].at <= t,
         clock' \in Nat, written' \in Nat,
         clock <= clock', t <= clock', written <= written', write <= written', ahead \subseteq ahead',
         \A q \in Rows : Dirty(q) => Dirty(q)' \/ (q = r /\ clock <= t),
         \A q \in Rows : Made(saving[q])' /\ Made(pending[q])'
  PROVE  Clocks'
<1>1. /\ cloud' \in CloudType /\ cloud \in CloudType
      /\ cloud'[r].write = write /\ cloud'[r].at = t /\ cloud'[r].gone = gone
      /\ \A q \in Rows : q # r => cloud'[q] = cloud[q]
      /\ events' \subseteq CopyType
      /\ \A copy \in events' : copy \in events \/
           (copy.id = r /\ copy = [id |-> r, write |-> write, at |-> t, gone |-> gone])
  <2>1. NewVersion(r, write, t, gone)
    BY CommitIs
  <2>2. cloud \in CloudType
    BY DEF Shape
  <2> QED BY <2>1, <2>2 DEF NewVersion
<1>2. /\ clock \in Nat /\ written \in Nat /\ cursor \in Nat /\ pass.tail \in Nat
      /\ \A q \in Rows : cloud[q].write \in Nat /\ cloud[q].at \in Nat
  BY <1>1 DEF Shape, PassType, CloudType
<1>3. ASSUME NEW copy \in CopyType, Past(copy) PROVE Past(copy)'
  <2>1. copy.id \in Rows /\ copy.write \in Nat /\ copy.at \in Nat
    BY DEF CopyType
  <2>2. CASE copy.id = r
    <3>1. copy.write <= cloud[r].write /\ copy.at <= cloud[r].at
      BY <1>3, <2>2 DEF Past
    <3>2. cloud'[r].write = write /\ cloud'[r].at = t
      BY <1>1
    <3>3. cloud[r].write \in Nat /\ cloud[r].at \in Nat
      BY <1>2
    <3>4. copy.write <= write /\ copy.write # write
      BY <2>1, <3>1, <3>3
    <3>5. copy.at <= t
      BY <2>1, <3>1, <3>3
    <3> QED BY <2>2, <3>2, <3>4, <3>5 DEF Past
  <2>3. CASE copy.id # r
    BY <1>1, <1>3, <2>1, <2>3 DEF Past, Copy
  <2> QED BY <2>2, <2>3
<1>4. ASSUME NEW copy, copy.id = r, copy = [id |-> r, write |-> write, at |-> t, gone |-> gone] PROVE Past(copy)'
  BY <1>1, <1>4 DEF Past, Copy
<1>5. ASSUME NEW q \in Rows, NEW x \in RecordType, Behind(q, x) PROVE Behind(q, x)'
  <2>1. x.version \in Nat /\ x.value \in Nat /\ x.at \in Nat /\ x.time \in Int
    BY DEF RecordType
  <2>2. /\ x.version <= cloud[q].write /\ x.value <= written /\ x.at <= cloud[q].at
        /\ x.time <= clock \/ q \in ahead
        /\ x.here = "live" => x.time <= cloud[q].at \/ Dirty(q)
    BY <1>5 DEF Behind
  <2>3. /\ cloud[q].write \in Nat /\ cloud[q].at \in Nat
        /\ cloud'[q].write \in Nat /\ cloud'[q].at \in Nat
        /\ cloud[q].write <= cloud'[q].write /\ cloud[q].at <= cloud'[q].at
        /\ q = r => cloud'[q].at = t
    <3>1. cloud'[q].write \in Nat /\ cloud'[q].at \in Nat
      BY <1>1 DEF CloudType
    <3>2. CASE q = r
      BY <1>1, <1>2, <3>1, <3>2
    <3>3. CASE q # r
      BY <1>1, <1>2, <3>1, <3>3
    <3> QED BY <3>2, <3>3
  <2>4. /\ x.version <= cloud'[q].write /\ x.value <= written' /\ x.at <= cloud'[q].at
        /\ x.time <= clock' \/ q \in ahead'
    <3>1. x.version <= cloud'[q].write
      <4>1. x.version <= cloud[q].write
        BY <2>2
      <4>2. cloud[q].write \in Nat /\ cloud'[q].write \in Nat /\ cloud[q].write <= cloud'[q].write
        BY <2>3
      <4> QED BY <2>1, <4>1, <4>2
    <3>2. x.value <= written'
      <4>1. written \in Nat /\ x.value <= written
        BY <1>2, <2>2
      <4> QED BY <2>1, <4>1
    <3>3. x.time <= clock' \/ q \in ahead'
      <4>1. clock \in Nat /\ (x.time <= clock \/ q \in ahead)
        BY <1>2, <2>2
      <4> QED BY <2>1, <4>1
    <3>4. x.at <= cloud'[q].at
      BY <2>1, <2>2, <2>3
    <3> QED BY <3>1, <3>2, <3>3, <3>4
  <2>5. x.here = "live" => x.time <= cloud'[q].at \/ Dirty(q)'
    <3>1. Dirty(q) => Dirty(q)' \/ (q = r /\ clock <= t)
      OBVIOUS
    <3>2. x.time <= cloud[q].at => x.time <= cloud'[q].at
      <4>1. PICK a \in Nat, b \in Nat : a = cloud[q].at /\ b = cloud'[q].at
        BY <2>3
      <4>2. a <= b
        BY <2>3, <4>1
      <4>3. x.time <= a => x.time <= b
        BY <2>1, <4>2
      <4> QED BY <4>1, <4>3
    <3>3. q = r /\ clock <= t => x.time <= cloud'[q].at \/ Dirty(q)'
      <4>1. q \in ahead => Dirty(q)'
        BY DEF Dirty
      <4>2. x.time <= clock \/ q \in ahead
        BY <2>2
      <4>3. q = r /\ clock <= t /\ x.time <= clock => x.time <= cloud'[q].at
        BY <1>2, <2>1, <2>3
      <4> QED BY <4>1, <4>2, <4>3
    <3> QED BY <2>2, <3>1, <3>2, <3>3
  <2> QED BY <2>4, <2>5 DEF Behind
<1>6. /\ events \subseteq CopyType /\ ToSet(pass.todo) \subseteq CopyType /\ pass.fresh \subseteq CopyType
      /\ ToSet(drain.todo) \subseteq CopyType /\ pass.covered \subseteq Rows \X Nat
      /\ \A w \in Writers : Busy(w) => job[w].row \in CopyType
      /\ \A w \in Writers : job[w].seen \in RecordType
      /\ local \in [Rows -> RecordType]
  <2>1. pass.todo \in Seq(CopyType) /\ drain.todo \in Seq(CopyType)
    BY DEF Shape, PassType, DrainType
  <2>2. ToSet(pass.todo) \subseteq CopyType /\ ToSet(drain.todo) \subseteq CopyType
    BY <2>1 DEF ToSet
  <2> QED BY <2>2 DEF Shape, PassType, JobsOK, JobType, Working
<1>7. Copies'
  <2>1. \A copy \in events' : Past(copy)'
    BY <1>1, <1>3, <1>4, <1>6, InUse
  <2>2. \A copy \in ToSet(pass.todo) \cup pass.fresh \cup ToSet(drain.todo) : Past(copy)'
    BY <1>3, <1>6, InUse
  <2>3. \A w \in Writers : Busy(w) => Past(job[w].row)'
    BY <1>3, <1>6, InUse DEF Busy, Apart, Past, Copy
  <2>4. \A v \in pass.covered : v[2] <= cloud'[v[1]].write
    <3> SUFFICES ASSUME NEW v \in pass.covered PROVE v[2] <= cloud'[v[1]].write
      OBVIOUS
    <3>1. PICK q \in Rows, n \in Nat : v[1] = q /\ v[2] = n
      BY <1>6
    <3>2. n <= cloud[q].write
      BY <3>1, InUse
    <3>3. n <= cloud'[q].write
      BY <1>1, <1>2, <3>2
    <3> QED BY <3>1, <3>3
  <2> QED BY <2>1, <2>2, <2>3, <2>4 DEF Copies, Apart, Busy
<1>8. \A q \in Rows : Behind(q, local[q])'
  <2>1. \A q \in Rows : local[q] \in RecordType /\ Behind(q, local[q])
    BY <1>6, InUse
  <2> QED BY <1>5, <2>1 DEF Apart, Behind
<1>9. \A w \in Writers : Busy(w)' => Behind(job[w].row.id, job[w].seen)'
  <2> SUFFICES ASSUME NEW w \in Writers, Busy(w)' PROVE Behind(job[w].row.id, job[w].seen)'
    OBVIOUS
  <2>1. PICK q, x : q = job[w].row.id /\ x = job[w].seen
    OBVIOUS
  <2>2. Busy(w) /\ q \in Rows /\ x \in RecordType /\ Behind(q, x)
    BY <1>6, <2>1, InUse DEF Busy, Apart, CopyType
  <2>3. Behind(q, x)'
    BY <1>5, <2>2
  <2>4. job[w].row.id' = q /\ job[w].seen' = x
    BY <2>1 DEF Apart
  <2> QED BY <2>3, <2>4 DEF Behind
<1>10. \A q \in Rows : cloud'[q].at <= clock' /\ cloud'[q].write <= written'
  <2> SUFFICES ASSUME NEW q \in Rows PROVE cloud'[q].at <= clock' /\ cloud'[q].write <= written'
    OBVIOUS
  <2>1. CASE q = r
    <3>1. cloud'[r].write = write /\ cloud'[r].at = t
      BY <1>1
    <3> QED BY <2>1, <3>1
  <2>2. CASE q # r
    <3>1. cloud'[q] = cloud[q] /\ cloud[q].write \in Nat /\ cloud[q].at \in Nat
      BY <1>1, <1>2, <2>2
    <3>2. cloud[q].at <= clock /\ cloud[q].write <= written
      BY DEF Clocks
    <3>3. cloud[q].at <= clock'
      BY <1>2, <3>1, <3>2
    <3>4. cloud[q].write <= written'
      BY <1>2, <3>1, <3>2
    <3> QED BY <3>1, <3>3, <3>4
  <2> QED BY <2>1, <2>2
<1>11. cursor' <= clock' /\ pass'.tail <= clock'
  BY <1>2, InUse DEF Apart
<1> QED BY <1>7, <1>8, <1>9, <1>10, <1>11 DEF Clocks

LEMMA CommitTold ==
  ASSUME Shape, Clocks, Told, Apart, NEW r \in Rows, NEW write \in Nat, NEW t \in Nat, NEW gone \in BOOLEAN,
         Commit(r, write, t, gone), cloud[r].write < write,
         \A q \in Rows : q # r => (Dirty(q) => Dirty(q)')
  PROVE  Told'
<1>1. /\ cloud'[r].write = write /\ cloud'[r].at = t
      /\ \A q \in Rows : q # r => cloud'[q] = cloud[q]
  <2>1. NewVersion(r, write, t, gone)
    BY CommitIs
  <2> QED BY <2>1 DEF NewVersion
<1>2. /\ local' = local /\ local[r].version <= cloud[r].write
      /\ local[r].version \in Nat /\ cloud[r].write \in Nat
  BY InUse DEF Shape, RecordType, CloudType, Behind, Apart
<1>3. local'[r].version # cloud'[r].write
  BY <1>1, <1>2
<1>4. ASSUME NEW q \in Rows, q # r, local'[q].here = "live", local'[q].version = cloud'[q].write
      PROVE  local'[q].value = cloud'[q].write \/ Dirty(q)'
  BY <1>1, <1>2, <1>4 DEF Told
<1> QED BY <1>3, <1>4 DEF Told

\* The new version is ahead of the pull, or a cause is noted.
LEMMA CommitKept ==
  ASSUME Shape, Clocks, Kept, Apart, NEW r \in Rows, NEW write \in Nat, NEW t \in Nat, NEW gone \in BOOLEAN,
         Commit(r, write, t, gone), cloud[r].write < write,
         \A q \in Rows : q # r => missed'[q] = missed[q],
         missed'[r] # {} \/ (t >= cursor /\ t >= pass.tail)
  PROVE  Kept'
<1>1. /\ cloud'[r].write = write /\ cloud'[r].at = t
      /\ \A q \in Rows : q # r => cloud'[q] = cloud[q]
  <2>1. NewVersion(r, write, t, gone)
    BY CommitIs
  <2> QED BY <2>1 DEF NewVersion
<1>2. ASSUME NEW q \in Rows, q # r
      PROVE  /\ Known(q) => Known(q)'
             /\ Held(q) => Held(q)'
             /\ ToCome(q) => ToCome(q)'
             /\ InPull(q) => InPull(q)'
             /\ cloud'[q].at >= cursor' <=> cloud[q].at >= cursor
  <2>1. cloud'[q] = cloud[q] /\ missed'[q] = missed[q]
    BY <1>1, <1>2
  <2>2. Known(q) => Known(q)'
    BY <2>1 DEF Known, HasVersion, Apart
  <2>3. Held(q) => Held(q)'
    BY <2>1 DEF Held, Current, Busy, Apart
  <2>4. ToCome(q) => ToCome(q)'
    BY <2>1 DEF ToCome, Version, Apart
  <2>5. InPull(q) => InPull(q)'
    BY <2>1 DEF InPull, Current, Busy, Apart
  <2> QED BY <2>1, <2>2, <2>3, <2>4, <2>5 DEF Apart
<1>3. ASSUME missed'[r] = {} PROVE cloud'[r].at >= cursor' /\ ToCome(r)'
  <2>1. pass' = pass /\ cursor' = cursor
    BY DEF Apart
  <2>2. <<r, write>> \notin pass.covered
    <3>1. SUFFICES ASSUME <<r, write>> \in pass.covered PROVE FALSE
      OBVIOUS
    <3>2. write <= cloud[r].write
      BY <3>1, InUse
    <3>3. cloud[r].write \in Nat
      BY DEF Shape, CloudType
    <3> QED BY <3>2, <3>3
  <2>3. t >= cursor /\ t >= pass.tail
    BY <1>3
  <2> QED BY <1>1, <2>1, <2>2, <2>3 DEF ToCome, Version
<1>4. ASSUME NEW q \in Rows
      PROVE  Known(q)' \/ Held(q)' \/ (cloud'[q].at >= cursor' /\ (ToCome(q)' \/ InPull(q)'))
  <2>1. CASE q = r
    BY <1>3, <2>1 DEF Known
  <2>2. CASE q # r
    BY <1>2, <2>2 DEF Kept
  <2> QED BY <2>1, <2>2
<1> QED BY <1>4 DEF Kept

\* The queue is untouched, and so is what is dirty.
LEMMA SameOps ==
  ASSUME Clocks, saving' = saving, pending' = pending, unsent' = unsent /\ ahead' = ahead, Shape,
         clock' \in Nat, written' \in Nat, clock <= clock', written <= written'
  PROVE  /\ \A q \in Rows : Dirty(q)' <=> Dirty(q)
         /\ \A q \in Rows : Made(saving[q])' /\ Made(pending[q])'
<1>1. ASSUME NEW op \in OpType, Made(op) PROVE Made(op)'
  BY <1>1 DEF Made, OpType, NoOp, Shape
<1>2. \A q \in Rows : saving[q] \in OpType /\ pending[q] \in OpType /\ Made(saving[q]) /\ Made(pending[q])
  BY DEF Shape, Clocks
<1>3. \A q \in Rows : Made(saving[q])' /\ Made(pending[q])'
  BY <1>1, <1>2 DEF Made, NoOp
<1> QED BY <1>3 DEF Dirty

LEMMA OtherDeviceWritesKeeps ==
  ASSUME IInv, NEW r \in Rows, NEW gone \in BOOLEAN, OtherDeviceWrites(r, gone)
  PROVE  IInv'
<1> USE DEF IInv
<1>1. /\ written - edited <= MaxWrites /\ written' = written + 1 /\ edited' = edited
      /\ clock' = clock + 1 /\ Commit(r, written + 1, clock + 1, gone)
      /\ missed' = [missed EXCEPT ![r] = {}] /\ unsent' = unsent /\ ahead' = ahead /\ incidents' = incidents
      /\ saving' = saving /\ pending' = pending /\ Apart
  BY DEF OtherDeviceWrites, OtherWrites, device, deferral, Apart
<1>2. /\ clock \in Nat /\ written \in Nat /\ edited \in Nat /\ cursor \in Nat /\ pass.tail \in Nat
      /\ cloud[r].write \in Nat /\ cloud[r].at \in Nat
      /\ missed \in [Rows -> SUBSET Causes]
  BY DEF Shape, PassType, CloudType
<1>3. PICK write \in Nat, t \in Nat : write = written + 1 /\ t = clock + 1
  BY <1>2
<1>4. cloud[r].write < write /\ cloud[r].at <= t
  BY <1>2, <1>3 DEF Clocks
<1>5. Commit(r, write, t, gone)
  BY <1>1, <1>3
<1>6. /\ clock' \in Nat /\ written' \in Nat /\ clock <= clock' /\ t <= clock'
      /\ written <= written' /\ write <= written' /\ clock <= t
  BY <1>1, <1>2, <1>3
<1>7. cloud' \in CloudType /\ events' \subseteq CopyType
  <2>1. NewVersion(r, write, t, gone)
    BY <1>5, CommitIs
  <2> QED BY <2>1 DEF NewVersion
<1>8. Shape'
  BY <1>1, <1>2, <1>7 DEF Shape, Apart, JobsOK, Working, Busy
<1>9. Phases'
  BY <1>1 DEF Phases, Pages, Busy, Apart
<1>10. Bounds'
  <2>1. Cardinality(Waiting(saving)) \in Nat /\ Cardinality(Waiting(pending)) \in Nat
    BY WaitingIs
  <2>2. Waiting(saving)' = Waiting(saving) /\ Waiting(pending)' = Waiting(pending)
    BY <1>1
  <2>3. Bounds <=> /\ edited <= MaxEdits /\ incidents <= MaxIncidents
                   /\ written <= edited + MaxWrites + 1
                   /\ clock + Cardinality(Waiting(saving)) + Cardinality(Waiting(pending)) <= written + edited + 1
    BY BoundsIs
  <2>4. /\ edited' <= MaxEdits /\ incidents' <= MaxIncidents
        /\ written' <= edited' + MaxWrites + 1
        /\ clock' + Cardinality(Waiting(saving)) + Cardinality(Waiting(pending)) <= written' + edited' + 1
    BY <1>1, <1>2, <2>1, <2>3
  <2> QED BY <1>1, <2>4 DEF Bounds, Waiting
<1>11. /\ \A q \in Rows : Dirty(q)' <=> Dirty(q)
       /\ \A q \in Rows : Made(saving[q])' /\ Made(pending[q])'
  BY <1>1, <1>6, SameOps
<1>12. Clocks'
  BY <1>1, <1>11, <1>4, <1>5, <1>6, CommitClocks
<1>13. Told'
  BY <1>1, <1>11, <1>4, <1>5, CommitTold
<1>14. Kept'
  <2>1. t >= cursor /\ t >= pass.tail
    BY <1>2, <1>3, InUse
  <2>2. \A q \in Rows : q # r => missed'[q] = missed[q]
    BY <1>1, <1>2
  <2> QED BY <1>1, <1>4, <1>5, <2>1, <2>2, CommitKept
<1> QED BY <1>8, <1>9, <1>10, <1>12, <1>13, <1>14

LEMMA LateWriteKeeps ==
  ASSUME IInv, NEW r \in Rows, LateWrite(r)
  PROVE  IInv'
<1> USE DEF IInv
<1>1. PICK t \in cloud[r].at..clock :
        /\ Commit(r, written + 1, t, FALSE)
        /\ missed' = [missed EXCEPT ![r] = IF t < cursor \/ t < pass.tail THEN {"late"} ELSE {}]
  BY DEF LateWrite
<1>2. /\ written - edited <= MaxWrites /\ written' = written + 1 /\ edited' = edited
      /\ clock' = clock /\ unsent' = unsent /\ ahead' = ahead /\ Incident
      /\ saving' = saving /\ pending' = pending /\ Apart
  BY DEF LateWrite, OtherWrites, device, deferral, Apart
<1>3. /\ clock \in Nat /\ written \in Nat /\ edited \in Nat /\ cursor \in Nat /\ pass.tail \in Nat
      /\ cloud[r].write \in Nat /\ cloud[r].at \in Nat
      /\ missed \in [Rows -> SUBSET Causes]
  BY DEF Shape, PassType, CloudType
<1>4. t \in Nat /\ cloud[r].at <= t /\ t <= clock
  BY <1>3
<1>5. PICK write \in Nat : write = written + 1
  BY <1>3
<1>6. PICK gone \in BOOLEAN : gone = FALSE
  OBVIOUS
<1>7. cloud[r].write < write
  BY <1>3, <1>5 DEF Clocks
<1>8. Commit(r, write, t, gone)
  BY <1>1, <1>5, <1>6
<1>9. /\ clock' \in Nat /\ written' \in Nat /\ clock <= clock' /\ t <= clock'
      /\ written <= written' /\ write <= written'
  BY <1>2, <1>3, <1>4, <1>5
<1>10. cloud' \in CloudType /\ events' \subseteq CopyType
  <2>1. NewVersion(r, write, t, gone)
    BY <1>4, <1>8, CommitIs
  <2> QED BY <2>1 DEF NewVersion
<1>11. incidents' \in Nat /\ incidents' <= MaxIncidents
  BY <1>2, IncidentIs
<1>12. Shape'
  <2>1. "late" \in Causes
    BY DEF Causes
  <2>2. missed' \in [Rows -> SUBSET Causes]
    BY <1>1, <1>3, <2>1
  <2> QED BY <1>2, <1>3, <1>10, <1>11, <2>2 DEF Shape, Apart, JobsOK, Working, Busy
<1>13. Phases'
  BY <1>2 DEF Phases, Pages, Busy, Apart
<1>14. Bounds'
  <2>1. Cardinality(Waiting(saving)) \in Nat /\ Cardinality(Waiting(pending)) \in Nat
    BY WaitingIs
  <2>2. /\ edited <= MaxEdits
        /\ clock + Cardinality(Waiting(saving)) + Cardinality(Waiting(pending)) <= written + edited + 1
    BY BoundsIs
  <2>3. /\ edited' <= MaxEdits /\ written' <= edited' + MaxWrites + 1
        /\ clock' + Cardinality(Waiting(saving)) + Cardinality(Waiting(pending)) <= written' + edited' + 1
    BY <1>2, <1>3, <2>1, <2>2
  <2> QED BY <1>2, <1>11, <2>3 DEF Bounds, Waiting
<1>15. /\ \A q \in Rows : Dirty(q)' <=> Dirty(q)
       /\ \A q \in Rows : Made(saving[q])' /\ Made(pending[q])'
  BY <1>2, <1>9, SameOps
<1>16. Clocks'
  BY <1>2, <1>4, <1>7, <1>15, <1>8, <1>9, CommitClocks
<1>17. Told'
  BY <1>2, <1>4, <1>7, <1>15, <1>8, CommitTold
<1>18. Kept'
  <2>1. missed'[r] # {} \/ (t >= cursor /\ t >= pass.tail)
    BY <1>1, <1>3, <1>4
  <2>2. \A q \in Rows : q # r => missed'[q] = missed[q]
    BY <1>1, <1>3
  <2> QED BY <1>2, <1>4, <1>7, <1>8, <2>1, <2>2, CommitKept
<1> QED BY <1>12, <1>13, <1>14, <1>16, <1>17, <1>18

\* An operation stays what it is while the clock and the writes go on.
LEMMA MadeStays ==
  ASSUME Shape, NEW op \in OpType, Made(op),
         clock' \in Nat, written' \in Nat, clock <= clock', written <= written'
  PROVE  op # NoOp => op.base < op.write /\ op.write <= written'
<1>1. op.write \in Nat /\ clock \in Nat /\ written \in Nat
  BY DEF OpType, Shape
<1> QED BY <1>1 DEF Made

\* The clocks after a step that leaves the cloud alone and gives nobody a copy.
LEMMA OpsClocks ==
  ASSUME Shape, Clocks, cloud' = cloud,
         clock' \in Nat, written' \in Nat, clock <= clock', written <= written', ahead \subseteq ahead',
         \A q \in Rows : Dirty(q) => Dirty(q)',
         \A q \in Rows : Made(saving[q])' /\ Made(pending[q])',
         events' \subseteq events,
         \A copy \in ToSet(pass'.todo) : copy \in ToSet(pass.todo),
         \A copy \in ToSet(drain'.todo) : copy \in ToSet(drain.todo),
         pass'.fresh \subseteq pass.fresh, pass'.covered \subseteq pass.covered,
         pass'.tail \in {0, pass.tail}, cursor' = cursor,
         \A w \in Writers : job'[w] = job[w] \/ job'[w].pc = "idle",
         \A q \in Rows : local'[q] = local[q] \/ Behind(q, local[q])'
  PROVE  Clocks'
<1>1. /\ clock \in Nat /\ written \in Nat /\ cursor \in Nat /\ pass.tail \in Nat
      /\ \A q \in Rows : cloud[q].write \in Nat /\ cloud[q].at \in Nat /\ local[q] \in RecordType
      /\ \A w \in Writers : job[w].seen \in RecordType
      /\ \A w \in Writers : Busy(w) => job[w].row.id \in Rows
  BY DEF Shape, PassType, CloudType, JobsOK, JobType, Working, CopyType
<1>2. Copies'
  <2>1. \A copy \in events' \cup ToSet(pass'.todo) \cup pass'.fresh \cup ToSet(drain'.todo) : Past(copy)
    BY InUse
  <2>2. \A w \in Writers : job'[w].pc # "idle" => Past(job'[w].row)
    BY InUse
  <2>3. \A v \in pass'.covered : v[2] <= cloud[v[1]].write
    BY InUse
  <2> QED BY <2>1, <2>2, <2>3 DEF Copies, Past, Copy, Busy
<1>3. ASSUME NEW q \in Rows, NEW x \in RecordType, Behind(q, x) PROVE Behind(q, x)'
  <2>1. x.version \in Nat /\ x.value \in Nat /\ x.time \in Int
    BY DEF RecordType
  <2>2. x.value <= written'
    BY <1>1, <1>3, <2>1 DEF Behind
  <2>3. x.time <= clock' \/ q \in ahead'
    BY <1>1, <1>3, <2>1 DEF Behind
  <2> QED BY <1>3, <2>2, <2>3 DEF Behind
<1>4. \A q \in Rows : Behind(q, local[q])'
  <2> SUFFICES ASSUME NEW q \in Rows, local'[q] = local[q] PROVE Behind(q, local[q])'
    OBVIOUS
  <2>1. PICK x \in RecordType : x = local[q]
    BY <1>1
  <2>2. Behind(q, x)
    BY <2>1, InUse
  <2>3. Behind(q, x)'
    BY <1>3, <2>2
  <2>4. local'[q] = x
    BY <2>1
  <2> QED BY <2>3, <2>4 DEF Behind
<1>5. \A w \in Writers : Busy(w)' => Behind(job[w].row.id, job[w].seen)'
  <2> SUFFICES ASSUME NEW w \in Writers, Busy(w)' PROVE Behind(job[w].row.id, job[w].seen)'
    OBVIOUS
  <2>1. job'[w] = job[w] /\ Busy(w)
    BY DEF Busy
  <2>2. PICK q \in Rows : q = job[w].row.id
    BY <1>1, <2>1
  <2>3. PICK x \in RecordType : x = job[w].seen
    BY <1>1
  <2>4. Behind(q, x)
    BY <2>1, <2>2, <2>3, InUse DEF Busy
  <2>5. Behind(q, x)'
    BY <1>3, <2>4
  <2>6. job'[w].row.id = q /\ job'[w].seen = x
    BY <2>1, <2>2, <2>3
  <2> QED BY <2>5, <2>6 DEF Behind
<1>6. \A q \in Rows : cloud'[q].at <= clock' /\ cloud'[q].write <= written'
  BY <1>1 DEF Clocks
<1>7. cursor' <= clock' /\ pass'.tail <= clock'
  BY <1>1, InUse
<1> QED BY <1>2, <1>4, <1>5, <1>6, <1>7 DEF Clocks

LEMMA OpsTold ==
  ASSUME Told, cloud' = cloud, \A q \in Rows : Dirty(q) => Dirty(q)',
         \A q \in Rows : local'[q] = local[q] \/ Dirty(q)'
  PROVE  Told'
BY DEF Told

LEMMA SettleKeeps ==
  ASSUME IInv, NEW r \in Rows, Settle(r)
  PROVE  IInv'
<1> USE DEF IInv
<1>1. /\ pending[r] # NoOp /\ pending' = [pending EXCEPT ![r] = NoOp]
      /\ written' = written /\ edited' = edited /\ saving' = saving /\ Apart
  BY DEF Settle, deferral, Apart
<1>2. /\ clock \in Nat /\ written \in Nat /\ edited \in Nat /\ cursor \in Nat /\ pass.tail \in Nat
      /\ cloud[r].write \in Nat /\ cloud[r].at \in Nat
      /\ missed \in [Rows -> SUBSET Causes]
      /\ saving \in [Rows -> OpType] /\ pending \in [Rows -> OpType]
  BY DEF Shape, PassType, CloudType
<1>3. pending' \in [Rows -> OpType] /\ pending'[r] = NoOp /\ \A q \in Rows : q # r => pending'[q] = pending[q]
  BY <1>1, <1>2, Constants
<1>4. Phases'
  BY <1>1 DEF Phases, Pages, Busy, Apart
<1>5. /\ Cardinality(Waiting(pending')) = Cardinality(Waiting(pending)) - 1
      /\ Cardinality(Waiting(saving')) = Cardinality(Waiting(saving))
      /\ Cardinality(Waiting(saving)) \in Nat /\ Cardinality(Waiting(pending)) \in Nat
  BY <1>1, <1>2, WaitingIs, OneLess
<1>6. /\ edited <= MaxEdits /\ incidents <= MaxIncidents /\ written <= edited + MaxWrites + 1
      /\ clock + Cardinality(Waiting(saving)) + Cardinality(Waiting(pending)) <= written + edited + 1
  BY BoundsIs
<1>7. /\ pending[r] \in OpType /\ Made(pending[r])
      /\ \A q \in Rows : saving[q] \in OpType /\ pending[q] \in OpType /\ Made(saving[q]) /\ Made(pending[q])
  BY <1>2 DEF Clocks
<1>8. ASSUME clock' \in Nat, clock <= clock' PROVE \A q \in Rows : Made(saving[q])' /\ Made(pending[q])'
  <2>1. written' \in Nat /\ written <= written'
    BY <1>1, <1>2
  <2>2. \A q \in Rows : \A op \in {saving[q], pending[q]} :
          op # NoOp => op.base < op.write /\ op.write <= written'
    BY <1>7, <1>8, <2>1, MadeStays
  <2>3. \A q \in Rows : saving'[q] = saving[q] /\ pending'[q] \in {pending[q], NoOp}
    BY <1>1, <1>3
  <2> QED BY <2>2, <2>3 DEF Made, NoOp
<1>9. CASE /\ ~Conflicts(r) /\ Commit(r, pending[r].write, clock + 1, FALSE)
           /\ clock' = clock + 1 /\ missed' = [missed EXCEPT ![r] = {}]
           /\ incidents' = incidents /\ unsent' = unsent /\ ahead' = ahead
  <2>1. PICK write \in Nat, t \in Nat : write = pending[r].write /\ t = clock + 1
    <3>1. pending[r].write \in Nat
      BY <1>7 DEF OpType
    <3>2. clock + 1 \in Nat
      BY <1>2
    <3> QED BY <3>1, <3>2, Zenon
  <2>2. PICK gone \in BOOLEAN : gone = FALSE
    OBVIOUS
  <2>3. Commit(r, write, t, gone)
    BY <1>9, <2>1, <2>2
  <2>4. pending[r].base = cloud[r].write /\ pending[r].base < write /\ write <= written
    BY <1>1, <1>7, <1>9, <2>1 DEF Conflicts, Made
  <2>5. cloud[r].write < write /\ cloud[r].at <= t
    <3>1. cloud[r].at <= clock
      BY DEF Clocks
    <3> QED BY <1>2, <2>1, <2>4, <3>1
  <2>6. /\ clock' \in Nat /\ written' \in Nat /\ clock <= clock' /\ t <= clock'
        /\ written <= written' /\ write <= written' /\ clock <= t
    BY <1>1, <1>2, <1>9, <2>1, <2>4
  <2>7. cloud' \in CloudType /\ events' \subseteq CopyType
    <3>1. NewVersion(r, write, t, gone)
      BY <2>3, CommitIs
    <3> QED BY <3>1 DEF NewVersion
  <2>8. Shape'
    BY <1>1, <1>2, <1>3, <1>9, <2>6, <2>7 DEF Shape, Apart, JobsOK, Working, Busy
  <2>9. Bounds'
    <3>1. /\ edited' <= MaxEdits /\ incidents' <= MaxIncidents /\ written' <= edited' + MaxWrites + 1
          /\ clock' + Cardinality(Waiting(saving')) + Cardinality(Waiting(pending')) <= written' + edited' + 1
      BY <1>1, <1>2, <1>5, <1>6, <1>9
    <3> QED BY <3>1 DEF Bounds, Waiting
  <2>10. \A q \in Rows : q # r => (Dirty(q) => Dirty(q)')
    BY <1>1, <1>3, <1>9 DEF Dirty
  <2>11. \A q \in Rows : Made(saving[q])' /\ Made(pending[q])'
    BY <1>8, <2>6
  <2>12. Clocks'
    <3>1. \A q \in Rows : Dirty(q) => Dirty(q)' \/ (q = r /\ clock <= t)
      BY <2>6, <2>10
    <3>2. ahead \subseteq ahead'
      BY <1>9
    <3> QED BY <1>1, <2>3, <2>5, <2>6, <2>11, <3>1, <3>2, CommitClocks
  <2>13. Told'
    BY <1>1, <2>3, <2>5, <2>10, CommitTold
  <2>14. Kept'
    <3>1. t >= cursor /\ t >= pass.tail
      BY <1>2, <2>1, InUse
    <3>2. \A q \in Rows : q # r => missed'[q] = missed[q]
      BY <1>2, <1>9
    <3> QED BY <1>1, <2>3, <2>5, <3>1, <3>2, CommitKept
  <2> QED BY <1>4, <2>8, <2>9, <2>12, <2>13, <2>14
<1>10. CASE /\ Incident \/ incidents' = incidents
            /\ unsent' = unsent \cup {r} /\ ahead' = ahead
            /\ cloud' = cloud /\ events' = events /\ clock' = clock /\ missed' = missed
  <2>1. incidents' \in Nat /\ incidents' <= MaxIncidents
    BY <1>10, IncidentIs
  <2>2. Shape'
    BY <1>1, <1>2, <1>3, <1>10, <2>1 DEF Shape, Apart, JobsOK, Working, Busy
  <2>3. Bounds'
    <3>1. edited' <= MaxEdits /\ written' <= edited' + MaxWrites + 1
      BY <1>1, <1>6
    <3>2. clock' = clock /\ written' = written /\ edited' = edited
      BY <1>1, <1>10
    <3>3. clock' + Cardinality(Waiting(saving')) + Cardinality(Waiting(pending')) <= written' + edited' + 1
      <4>1. PICK a, b : a = Cardinality(Waiting(saving)) /\ b = Cardinality(Waiting(pending))
        OBVIOUS
      <4>2. /\ Cardinality(Waiting(saving')) = a /\ Cardinality(Waiting(pending')) = b - 1
            /\ a \in Nat /\ b \in Nat /\ clock + a + b <= written + edited + 1
        BY <1>5, <1>6, <4>1
      <4> QED BY <1>2, <3>2, <4>2
    <3> QED BY <2>1, <3>1, <3>3 DEF Bounds, Waiting
  <2>4. \A q \in Rows : Dirty(q) => Dirty(q)'
    <3>1. r \in unsent' /\ unsent \subseteq unsent' /\ ahead' = ahead
      BY <1>10
    <3>2. saving' = saving /\ \A q \in Rows : q # r => pending'[q] = pending[q]
      BY <1>1, <1>3
    <3> QED BY <3>1, <3>2 DEF Dirty
  <2>5. Clocks'
    <3>1. \A q \in Rows : Made(saving[q])' /\ Made(pending[q])'
      <4>1. clock' = clock
        BY <1>10
      <4>2. clock' \in Nat /\ clock <= clock'
        BY <1>2, <4>1
      <4> QED BY <1>8, <4>2, Zenon
    <3>2. clock' \in Nat /\ written' \in Nat /\ clock <= clock' /\ written <= written'
      BY <1>1, <1>2, <1>10
    <3> QED BY <1>1, <1>10, <2>4, <3>1, <3>2, OpsClocks DEF Apart
  <2>6. Told'
    BY <1>1, <1>10, <2>4, OpsTold DEF Apart
  <2>7. Kept'
    <3>1. Noted
      BY <1>10 DEF Noted
    <3>2. \A q \in Rows : Held(q) => Held(q)' \/ Known(q)'
      BY <1>1, <1>10, HeldFrame DEF Apart
    <3> QED BY <1>1, <1>10, <3>1, <3>2, PullFrame, KeptFrame DEF Apart
  <2> QED BY <1>4, <2>2, <2>3, <2>5, <2>6, <2>7
<1> QED BY <1>9, <1>10 DEF Settle

-----------------------------------------------------------------------------
(***************************************************************************)
(* The edits of this device, and its restart.                              *)
(***************************************************************************)
LEMMA EditKeeps ==
  ASSUME IInv, NEW r \in Rows, Edit(r)
  PROVE  IInv'
<1> USE DEF IInv
<1>1. /\ clock \in Nat /\ written \in Nat /\ edited \in Nat
      /\ local \in [Rows -> RecordType] /\ local[r] \in RecordType /\ local[r].version \in Nat
      /\ saving \in [Rows -> OpType] /\ pending \in [Rows -> OpType]
      /\ cloud[r].write \in Nat
  BY DEF Shape, CloudType, RecordType
<1>2. PICK skew \in Skews :
        /\ local' = [local EXCEPT ![r].value = written + 1, ![r].time = clock + 1 + skew]
        /\ ahead' = IF skew > 0 THEN ahead \cup {r} ELSE ahead
  BY DEF Edit
<1>3. PICK write \in Nat, t \in Int, base \in Nat :
        write = written + 1 /\ t = clock + 1 + skew /\ base = local[r].version
  <2>1. skew \in Int
    BY SkewAssumption
  <2>2. written + 1 \in Nat /\ clock + 1 + skew \in Int /\ local[r].version \in Nat
    BY <1>1, <2>1
  <2> QED BY <2>2, Zenon
<1>4. /\ skew \in Int /\ ahead \subseteq ahead' /\ ahead' \subseteq Rows
      /\ t <= clock + 1 \/ r \in ahead'
  <2>1. skew \in Int /\ ahead \subseteq Rows
    BY SkewAssumption DEF Shape
  <2>2. CASE skew > 0
    BY <1>2, <2>1, <2>2
  <2>3. CASE ~(skew > 0)
    <3>1. ahead' = ahead
      BY <1>2, <2>3
    <3>2. t <= clock + 1
      BY <1>1, <1>3, <2>1, <2>3
    <3> QED BY <2>1, <3>1, <3>2
  <2> QED BY <2>2, <2>3
<1>5. PICK op \in OpType : op = [write |-> write, base |-> base]
  BY DEF OpType
<1>6. PICK x \in RecordType : x = [local[r] EXCEPT !.value = write, !.time = t]
  <2>1. [local[r] EXCEPT !.value = write, !.time = t] \in RecordType
    BY <1>1 DEF RecordType
  <2> QED BY <2>1
<1>7. /\ x.here = local[r].here /\ x.version = local[r].version /\ x.value = write /\ x.time = t
      /\ x.at = local[r].at
  BY <1>1, <1>6 DEF RecordType
<1>8. /\ edited < MaxEdits /\ edited' = edited + 1 /\ written' = written + 1 /\ clock' = clock + 1
      /\ cloud' = cloud /\ events' = events /\ incidents' = incidents /\ pending' = pending
      /\ cursor' = cursor /\ pass' = pass /\ drain' = drain /\ job' = job
      /\ deferred' = deferred /\ stored' = stored /\ persistDue' = persistDue /\ hydrated' = hydrated
      /\ missed' = missed /\ unsent' = unsent
  BY DEF Edit, deferral
<1>9. local' = [local EXCEPT ![r] = x] /\ saving' = [saving EXCEPT ![r] = op]
  BY <1>2, <1>3, <1>5, <1>6 DEF Edit
<1>10. /\ local' \in [Rows -> RecordType] /\ local'[r] = x /\ \A q \in Rows : q # r => local'[q] = local[q]
       /\ saving' \in [Rows -> OpType] /\ saving'[r] = op /\ \A q \in Rows : q # r => saving'[q] = saving[q]
  BY <1>1, <1>9
<1>11. op # NoOp /\ op.base = base /\ op.write = write
  BY <1>1, <1>3, <1>5 DEF NoOp
<1>12. Shape'
  BY <1>1, <1>4, <1>8, <1>10 DEF Shape, JobsOK, Working, Busy
<1>13. Phases'
  BY <1>8 DEF Phases, Pages, Busy
<1>14. Bounds'
  <2>1. /\ Cardinality(Waiting(saving')) <= Cardinality(Waiting(saving)) + 1
        /\ Cardinality(Waiting(pending')) = Cardinality(Waiting(pending))
        /\ Cardinality(Waiting(saving)) \in Nat /\ Cardinality(Waiting(pending)) \in Nat
        /\ Cardinality(Waiting(saving')) \in Nat
    BY <1>1, <1>8, <1>9, WaitingIs, OneMoreWaits
  <2>2. /\ edited <= MaxEdits /\ incidents <= MaxIncidents /\ written <= edited + MaxWrites + 1
        /\ clock + Cardinality(Waiting(saving)) + Cardinality(Waiting(pending)) <= written + edited + 1
    BY BoundsIs
  <2>3. edited' <= MaxEdits /\ incidents' <= MaxIncidents
    BY <1>1, <1>8, <2>2, PullAssumption
  <2>4. written' <= edited' + MaxWrites + 1
    BY <1>1, <1>8, <2>2, PullAssumption
  <2>5. clock' + Cardinality(Waiting(saving')) + Cardinality(Waiting(pending')) <= written' + edited' + 1
    BY <1>1, <1>8, <2>1, <2>2
  <2> QED BY <2>3, <2>4, <2>5 DEF Bounds, Waiting
<1>15. clock' \in Nat /\ written' \in Nat /\ clock <= clock' /\ written <= written' /\ write <= written'
  BY <1>1, <1>3, <1>8
<1>16. \A q \in Rows : Dirty(q) => Dirty(q)'
  BY <1>4, <1>8, <1>10, <1>11 DEF Dirty
<1>17. Dirty(r)'
  BY <1>10, <1>11 DEF Dirty
<1>18. base <= cloud[r].write /\ base < write /\ write <= written'
  <2>1. base <= cloud[r].write /\ cloud[r].write <= written
    BY <1>3, InUse DEF Clocks, Behind
  <2> QED BY <1>1, <1>3, <1>15, <2>1
<1>19. \A q \in Rows : Made(saving[q])' /\ Made(pending[q])'
  <2>1. \A q \in Rows : saving[q] \in OpType /\ pending[q] \in OpType /\ Made(saving[q]) /\ Made(pending[q])
    BY <1>1 DEF Clocks
  <2>2. \A q \in Rows : \A old \in {saving[q], pending[q]} :
          old # NoOp => old.base < old.write /\ old.write <= written'
    BY <1>15, <2>1, MadeStays
  <2>3. \A q \in Rows : q # r => saving'[q] = saving[q]
    BY <1>10
  <2> QED BY <1>8, <1>10, <1>11, <1>18, <2>2, <2>3 DEF Made, NoOp
<1>20. Behind(r, local[r])'
  <2>1. local[r].at <= cloud[r].at
    BY InUse DEF Behind
  <2> QED BY <1>3, <1>4, <1>7, <1>8, <1>10, <1>17, <1>18, <2>1 DEF Behind
<1>21. Clocks'
  BY <1>4, <1>8, <1>10, <1>15, <1>16, <1>19, <1>20, OpsClocks
<1>22. Told'
  BY <1>8, <1>10, <1>16, <1>17, OpsTold
<1>23. Kept'
  <2>1. \A q \in Rows : Known(q) => Known(q)'
    BY <1>7, <1>8, <1>10 DEF Known, HasVersion
  <2>2. \A q \in Rows : (Held(q) => Held(q)') /\ (ToCome(q) => ToCome(q)') /\ (InPull(q) => InPull(q)')
    BY <1>8 DEF Held, ToCome, InPull, Current, Version, Busy
  <2> QED BY <1>8, <2>1, <2>2 DEF Kept
<1> QED BY <1>12, <1>13, <1>14, <1>21, <1>22, <1>23

LEMMA EnqueueKeeps ==
  ASSUME IInv, NEW r \in Rows, Enqueue(r)
  PROVE  IInv'
<1> USE DEF IInv
<1>1. /\ clock \in Nat /\ written \in Nat /\ edited \in Nat
      /\ saving \in [Rows -> OpType] /\ pending \in [Rows -> OpType]
  BY DEF Shape
<1>2. PICK op \in OpType : op = saving[r]
  BY <1>1
<1>3. /\ op # NoOp /\ saving[r] # NoOp
      /\ pending' = [pending EXCEPT ![r] = op] /\ saving' = [saving EXCEPT ![r] = NoOp]
      /\ cloud' = cloud /\ events' = events /\ clock' = clock /\ written' = written /\ edited' = edited
      /\ incidents' = incidents /\ local' = local
      /\ cursor' = cursor /\ pass' = pass /\ drain' = drain /\ job' = job
      /\ deferred' = deferred /\ stored' = stored /\ persistDue' = persistDue /\ hydrated' = hydrated
      /\ missed' = missed /\ unsent' = unsent /\ ahead' = ahead
  BY <1>2 DEF Enqueue, world, deferral, history
<1>4. /\ pending' \in [Rows -> OpType] /\ pending'[r] = op /\ \A q \in Rows : q # r => pending'[q] = pending[q]
      /\ saving' \in [Rows -> OpType] /\ saving'[r] = NoOp /\ \A q \in Rows : q # r => saving'[q] = saving[q]
  BY <1>1, <1>3, Constants
<1>5. Shape'
  BY <1>1, <1>3, <1>4 DEF Shape, JobsOK, Working, Busy
<1>6. Phases'
  BY <1>3 DEF Phases, Pages, Busy
<1>7. Bounds'
  <2>1. /\ Cardinality(Waiting(saving')) = Cardinality(Waiting(saving)) - 1
        /\ Cardinality(Waiting(pending')) <= Cardinality(Waiting(pending)) + 1
        /\ Cardinality(Waiting(saving)) \in Nat /\ Cardinality(Waiting(pending)) \in Nat
        /\ Cardinality(Waiting(pending')) \in Nat
    BY <1>1, <1>3, WaitingIs, OneLess, OneMoreWaits
  <2>2. /\ edited <= MaxEdits /\ incidents <= MaxIncidents /\ written <= edited + MaxWrites + 1
        /\ clock + Cardinality(Waiting(saving)) + Cardinality(Waiting(pending)) <= written + edited + 1
    BY BoundsIs
  <2>3. clock' + Cardinality(Waiting(saving')) + Cardinality(Waiting(pending')) <= written' + edited' + 1
    BY <1>1, <1>3, <2>1, <2>2
  <2> QED BY <1>3, <2>2, <2>3 DEF Bounds, Waiting
<1>8. \A q \in Rows : Dirty(q) => Dirty(q)'
  BY <1>3, <1>4 DEF Dirty
<1>9. \A q \in Rows : Made(saving[q])' /\ Made(pending[q])'
  <2>1. \A q \in Rows : Made(saving[q]) /\ Made(pending[q])
    BY DEF Clocks
  <2>2. Made(op)
    BY <1>2, <2>1
  <2> QED BY <1>3, <1>4, <2>1, <2>2 DEF Made
<1>10. Clocks'
  BY <1>1, <1>3, <1>8, <1>9, OpsClocks
<1>11. Told'
  BY <1>3, <1>8, OpsTold
<1>12. Kept'
  <2>1. Noted
    BY <1>3 DEF Noted
  <2>2. \A q \in Rows : Held(q) => Held(q)' \/ Known(q)'
    BY <1>3, HeldFrame
  <2> QED BY <1>3, <2>1, <2>2, PullFrame, KeptFrame
<1> QED BY <1>5, <1>6, <1>7, <1>10, <1>11, <1>12

\* What the drain holds of a row is among the ids a restart looks at.
LEMMA DrainHolds ==
  ASSUME Phases, NEW r \in Rows, Held(r)
  PROVE  r \in ToSet(deferred) \cup DrainRows \/ (~hydrated /\ r \in ToSet(stored))
<1>1. ASSUME NEW copy \in ToSet(drain.todo), Current(copy, r) PROVE r \in DrainRows
  BY <1>1 DEF DrainRows, Current
<1>2. ASSUME Busy("drain"), Current(job["drain"].row, r) PROVE r \in DrainRows
  BY <1>2 DEF DrainRows, Current, Busy, At
<1>3. ToSet(drain.blocked) \cup ToSet(drain.ids) \subseteq DrainRows
  BY DEF DrainRows
<1> QED BY <1>1, <1>2, <1>3 DEF Held

LEMMA RestartKeeps ==
  ASSUME IInv, Restart
  PROVE  IInv'
<1> USE DEF IInv
<1>1. /\ missed' = [q \in Rows |-> missed[q]
           \cup (IF ~HasVersion(q, local[q]) /\ q \in (ToSet(deferred) \cup DrainRows) \ ToSet(stored)
                 THEN {"crash"} ELSE {})]
      /\ unsent' = unsent \cup {q \in Rows : saving[q] # NoOp}
      /\ saving' = [q \in Rows |-> NoOp]
      /\ events' = {} /\ pass' = IdlePass /\ drain' = IdleDrain
      /\ job' = [w \in Writers |-> IdleJob]
      /\ deferred' = <<>> /\ persistDue' = FALSE /\ hydrated' = FALSE
      /\ cloud' = cloud /\ clock' = clock /\ written' = written /\ edited' = edited
      /\ local' = local /\ pending' = pending /\ cursor' = cursor /\ stored' = stored /\ ahead' = ahead
  BY DEF Restart
<1>2. incidents' \in Nat /\ incidents' <= MaxIncidents
  BY IncidentIs DEF Restart
<1>3. /\ missed' \in [Rows -> SUBSET Causes] /\ Noted
      /\ \A q \in Rows : q \in ToSet(deferred) \cup DrainRows =>
           HasVersion(q, local[q]) \/ q \in ToSet(stored) \/ missed'[q] # {}
  <2>1. missed \in [Rows -> SUBSET Causes] /\ "crash" \in Causes
    BY DEF Shape, Causes
  <2>2. \A q \in Rows : missed'[q] = missed[q]
           \cup (IF ~HasVersion(q, local[q]) /\ q \in (ToSet(deferred) \cup DrainRows) \ ToSet(stored)
                 THEN {"crash"} ELSE {})
    BY <1>1
  <2>3. missed' \in [Rows -> SUBSET Causes]
    BY <1>1, <2>1
  <2> QED BY <2>2, <2>3 DEF Noted
<1>4. \A q \in Rows : saving'[q] = NoOp
  BY <1>1
<1>5. saving' \in [Rows -> OpType] /\ unsent' \subseteq Rows
  BY <1>1, Constants DEF Shape
<1>6. job' \in [Writers -> JobType] /\ \A w \in Writers : job'[w].pc = "idle"
  BY <1>1, Constants
<1>7. Shape'
  <2>1. JobsOK'
    BY <1>6 DEF JobsOK, Working, Busy
  <2>2. pass' \in PassType /\ drain' \in DrainType /\ deferred' \in IdsType
    BY <1>1, Constants
  <2> QED BY <1>1, <1>2, <1>3, <1>5, <2>1, <2>2 DEF Shape
<1>8. /\ pass'.pc = "fetch" /\ pass'.todo = <<>> /\ pass'.fresh = {} /\ pass'.tail = 0 /\ pass'.covered = {}
      /\ ~drain'.on /\ drain'.ids = <<>> /\ drain'.todo = <<>> /\ drain'.blocked = <<>>
  BY <1>1, Constants
<1>9. Phases'
  <2>1. Pages'
    BY <1>8 DEF Pages
  <2>2. \A w \in {"pull", "drain"} : ~Busy(w)'
    BY <1>6 DEF Busy, Writers
  <2> QED BY <1>8, <2>1, <2>2 DEF Phases
<1>10. Bounds'
  <2>1. Waiting(saving') = {}
    BY <1>4 DEF Waiting
  <2>2. Cardinality(Waiting(saving')) = 0
    BY <2>1, FS_EmptySet
  <2>3. Cardinality(Waiting(saving)) \in Nat /\ Cardinality(Waiting(pending)) \in Nat
    BY WaitingIs
  <2>4. /\ edited <= MaxEdits /\ written <= edited + MaxWrites + 1
        /\ clock + Cardinality(Waiting(saving)) + Cardinality(Waiting(pending)) <= written + edited + 1
    BY BoundsIs
  <2>5. clock \in Nat /\ written \in Nat /\ edited \in Nat
    BY DEF Shape
  <2>6. Waiting(pending') = Waiting(pending)
    BY <1>1
  <2>7. clock' + Cardinality(Waiting(saving')) + Cardinality(Waiting(pending')) <= written' + edited' + 1
    BY <1>1, <2>2, <2>3, <2>4, <2>5, <2>6
  <2> QED BY <1>1, <1>2, <2>4, <2>7 DEF Bounds, Waiting
<1>11. \A q \in Rows : Dirty(q) => Dirty(q)'
  BY <1>1 DEF Dirty
<1>12. Clocks'
  <2>1. \A q \in Rows : Made(saving[q])' /\ Made(pending[q])'
    BY <1>1, <1>4 DEF Clocks, Made
  <2>2. clock' \in Nat /\ written' \in Nat /\ clock <= clock' /\ written <= written'
    BY <1>1 DEF Shape
  <2>3. ToSet(pass'.todo) = {} /\ ToSet(drain'.todo) = {}
    BY <1>8, Constants
  <2> QED BY <1>1, <1>6, <1>8, <1>11, <2>1, <2>2, <2>3, OpsClocks
<1>13. Told'
  BY <1>1, <1>11, OpsTold
<1>14. Kept'
  <2>1. ASSUME NEW q \in Rows, Held(q) PROVE Held(q)' \/ Known(q)'
    <3>1. q \in ToSet(deferred) \cup DrainRows \/ q \in ToSet(stored)
      BY <2>1, DrainHolds
    <3>2. q \in ToSet(stored) => Held(q)'
      BY <1>1 DEF Held
    <3> QED BY <1>1, <1>3, <3>1, <3>2, KnownIs
  <2>2. \A q \in Rows : cloud[q].at >= cursor => cloud[q].at >= cursor' /\ ToCome(q)'
    <3>1. \A q \in Rows : cloud[q].at \in Nat
      BY DEF Shape, CloudType
    <3> QED BY <1>1, <1>8, <3>1 DEF ToCome, Version
  <2> QED BY <1>1, <1>3, <2>1, <2>2, KeptFrame
<1> QED BY <1>7, <1>9, <1>10, <1>12, <1>13, <1>14

-----------------------------------------------------------------------------
(***************************************************************************)
(* The invariant, and the three properties.                                *)
(***************************************************************************)
LEMMA LeftoverIs == Leftover \in IdsType /\ ToSet(Leftover) \subseteq Rows \ New
<1>1. ToSet(Leftover) \subseteq Rows \ New
  BY DEF ToSet
<1>2. Leftover \in Seq(Rows)
  BY <1>1 DEF ToSet
<1> QED BY <1>1, <1>2 DEF IdsType

LEMMA InitIInv == Init => IInv
<1> SUFFICES ASSUME Init PROVE IInv
  OBVIOUS
<1>1. /\ cloud = [r \in Rows |-> IF r \in ToSet(Leftover) THEN [write |-> 1, at |-> 1, gone |-> FALSE]
                                 ELSE [write |-> 0, at |-> 2, gone |-> FALSE]]
      /\ local = [r \in Rows |-> IF r \in New THEN Absent
                                 ELSE [Absent EXCEPT !.here = "live", !.at = cloud[r].at, !.time = cloud[r].at]]
      /\ saving = [r \in Rows |-> NoOp] /\ pending = [r \in Rows |-> NoOp]
      /\ job = [w \in Writers |-> IdleJob] /\ missed = [r \in Rows |-> {}]
      /\ cursor = IF New = Rows THEN 0 ELSE 2
  BY DEF Init
<1>2. /\ events = {} /\ clock = 2 /\ written = 1 /\ edited = 0 /\ incidents = 0
      /\ pass = IdlePass /\ drain = IdleDrain
      /\ deferred = <<>> /\ stored = Leftover /\ persistDue = FALSE /\ hydrated = FALSE /\ unsent = {} /\ ahead = {}
  BY DEF Init
<1>3. ASSUME NEW r \in Rows
      PROVE  /\ cloud[r] \in [write: Nat, at: Nat, gone: BOOLEAN]
             /\ cloud[r].gone = FALSE /\ cloud[r].at \in 1..2 /\ cloud[r].write \in 0..1
             /\ r \notin ToSet(Leftover) => cloud[r].write = 0 /\ cloud[r].at = 2
  <2>1. CASE r \in ToSet(Leftover)
    <3>1. cloud[r] = [write |-> 1, at |-> 1, gone |-> FALSE]
      BY <1>1, <2>1
    <3> QED BY <2>1, <3>1
  <2>2. CASE r \notin ToSet(Leftover)
    <3>1. cloud[r] = [write |-> 0, at |-> 2, gone |-> FALSE]
      BY <1>1, <2>2
    <3> QED BY <3>1
  <2> QED BY <2>1, <2>2
<1>4. /\ cloud \in CloudType
      /\ \A r \in Rows : /\ cloud[r].gone = FALSE /\ cloud[r].at \in 1..2 /\ cloud[r].write \in 0..1
                         /\ r \notin ToSet(Leftover) => cloud[r].write = 0 /\ cloud[r].at = 2
  <2>1. DOMAIN cloud = Rows /\ cloud = [r \in Rows |-> cloud[r]]
    BY <1>1
  <2>2. cloud \in CloudType
    BY <1>3, <2>1 DEF CloudType
  <2> QED BY <1>3, <2>2
<1>5. cursor \in {0, 2}
  BY <1>1
<1>6. \A r \in Rows : /\ local[r] \in RecordType
                      /\ local[r].version = 0 /\ local[r].value = 0 /\ local[r].time <= 2 /\ local[r].at <= cloud[r].at
                      /\ r \in New => local[r].here = "absent"
                      /\ r \notin New => local[r].here = "live" /\ local[r].time = cloud[r].at
  <2> SUFFICES ASSUME NEW r \in Rows
               PROVE  /\ local[r] \in RecordType
                      /\ local[r].version = 0 /\ local[r].value = 0 /\ local[r].time <= 2 /\ local[r].at <= cloud[r].at
                      /\ r \in New => local[r].here = "absent"
                      /\ r \notin New => local[r].here = "live" /\ local[r].time = cloud[r].at
    OBVIOUS
  <2>1. cloud[r].at \in 1..2
    BY <1>4
  <2>2. CASE r \in New
    <3>1. local[r] = Absent
      BY <1>1, <2>2
    <3>2. Absent \in RecordType
      BY Constants
    <3>3. Absent.here = "absent" /\ Absent.version = 0 /\ Absent.value = 0 /\ Absent.at = 0 /\ Absent.time = 0
      BY DEF Absent
    <3> QED BY <2>1, <2>2, <3>1, <3>2, <3>3
  <2>3. CASE r \notin New
    <3>1. PICK t \in 1..2 : t = cloud[r].at
      BY <2>1
    <3>2. local[r] = [Absent EXCEPT !.here = "live", !.at = t, !.time = t]
      BY <1>1, <2>3, <3>1
    <3>3. local[r] = [here |-> "live", version |-> 0, value |-> 0, at |-> t, time |-> t]
      BY <3>2 DEF Absent
    <3> QED BY <2>3, <3>1, <3>3 DEF RecordType
  <2> QED BY <2>2, <2>3
<1>7. local \in [Rows -> RecordType]
  BY <1>1, <1>6
<1>8. /\ saving \in [Rows -> OpType] /\ pending \in [Rows -> OpType]
      /\ \A r \in Rows : saving[r] = NoOp /\ pending[r] = NoOp
  BY <1>1, Constants
<1>9. /\ JobsOK /\ \A w \in Writers : ~Busy(w)
  <2>1. \A w \in Writers : job[w] = IdleJob
    BY <1>1
  <2> QED BY <1>1, <2>1, Constants DEF JobsOK, Working, Busy
<1>10. Shape
  <2>1. pass \in PassType /\ drain \in DrainType /\ deferred \in IdsType /\ stored \in IdsType
    BY <1>2, Constants, LeftoverIs
  <2>2. cursor \in Nat /\ missed \in [Rows -> SUBSET Causes]
    BY <1>1
  <2> QED BY <1>2, <1>4, <1>7, <1>8, <1>9, <2>1, <2>2 DEF Shape
<1>11. Phases
  <2>1. Pages
    BY <1>2, Constants DEF Pages
  <2>2. ~Busy("pull") /\ ~Busy("drain")
    BY <1>9 DEF Writers
  <2> QED BY <1>2, <2>1, <2>2, Constants DEF Phases
<1>12. Bounds
  <2>1. {r \in Rows : saving[r] # NoOp} = {} /\ {r \in Rows : pending[r] # NoOp} = {}
    BY <1>8
  <2>2. /\ Cardinality({r \in Rows : saving[r] # NoOp}) = 0
        /\ Cardinality({r \in Rows : pending[r] # NoOp}) = 0
    BY <2>1, FS_EmptySet
  <2> QED BY <1>2, <2>2 DEF Bounds
<1>13. Clocks
  <2>1. \A r \in Rows : cloud[r].at <= clock /\ cloud[r].write <= written
    BY <1>2, <1>4
  <2>2. cursor <= clock /\ pass.tail <= clock
    BY <1>2, <1>5, Constants
  <2>3. Copies
    BY <1>2, <1>9, Constants DEF Copies
  <2>4. \A r \in Rows : Behind(r, local[r])
    <3> SUFFICES ASSUME NEW r \in Rows PROVE Behind(r, local[r])
      OBVIOUS
    <3>1. cloud[r].write \in Nat /\ cloud[r].at \in Nat
      BY <1>4
    <3>2. local[r].version <= cloud[r].write /\ local[r].value <= written /\ local[r].time <= clock /\ local[r].at <= cloud[r].at
      <4>1. local[r].version = 0 /\ local[r].value = 0 /\ local[r].time <= 2 /\ local[r].at <= cloud[r].at
        BY <1>6
      <4> QED BY <1>2, <3>1, <4>1
    <3>3. local[r].here = "live" => local[r].time <= cloud[r].at
      BY <1>6, <3>1
    <3> QED BY <3>2, <3>3 DEF Behind
  <2>5. \A r \in Rows : Made(saving[r]) /\ Made(pending[r])
    BY <1>8 DEF Made
  <2> QED BY <1>9, <2>1, <2>2, <2>3, <2>4, <2>5 DEF Clocks
<1>14. Told
  BY <1>6 DEF Told
<1>15. Kept
  <2> SUFFICES ASSUME NEW r \in Rows
               PROVE  Known(r) \/ Held(r) \/ (cloud[r].at >= cursor /\ (ToCome(r) \/ InPull(r)))
    BY DEF Kept
  <2>1. CASE r \in ToSet(Leftover)
    BY <1>2, <2>1 DEF Held
  <2>2. CASE r \notin ToSet(Leftover)
    <3>1. cloud[r].at >= cursor /\ cloud[r].at >= 0
      BY <1>4, <1>5, <2>2
    <3>2. pass.tail = 0 /\ pass.covered = {}
      BY <1>2, Constants
    <3>3. ToCome(r)
      BY <3>1, <3>2 DEF ToCome
    <3> QED BY <3>1, <3>3
  <2> QED BY <2>1, <2>2
<1> QED BY <1>10, <1>11, <1>12, <1>13, <1>14, <1>15 DEF IInv

\* Steps that touch nothing the invariant speaks of but the incidents.
LEMMA StillIInv ==
  ASSUME IInv, Incident \/ incidents' = incidents,
         UNCHANGED <<cloud, events, clock, written, edited, device, cursor, pass, drain, job, deferral, history>>
  PROVE  IInv'
<1>1. /\ cloud' = cloud /\ events' = events /\ clock' = clock /\ written' = written /\ edited' = edited
      /\ local' = local /\ saving' = saving /\ pending' = pending
      /\ cursor' = cursor /\ pass' = pass /\ drain' = drain /\ job' = job
      /\ deferred' = deferred /\ stored' = stored /\ persistDue' = persistDue /\ hydrated' = hydrated
      /\ missed' = missed /\ unsent' = unsent /\ ahead' = ahead
  BY DEF device, deferral, history
<1>2. incidents' \in Nat /\ incidents' <= MaxIncidents
  BY IncidentIs DEF IInv
<1>3. Shape' /\ Phases'
  BY <1>1, <1>2 DEF IInv, Shape, JobsOK, Working, Busy, Phases, Pages
<1>4. Bounds' /\ Told'
  BY <1>1, <1>2 DEF IInv, Bounds, Told, Dirty
<1>5. Clocks'
  BY <1>1 DEF IInv, Clocks, Copies, Past, Copy, Behind, Dirty, Made, Busy
<1>6. Kept'
  BY <1>1 DEF IInv, Kept, Known, HasVersion, Held, InPull, ToCome, Current, Version, Busy
<1> QED BY <1>3, <1>4, <1>5, <1>6 DEF IInv

LEMMA StutterIInv ==
  ASSUME IInv, UNCHANGED vars
  PROVE  IInv'
BY StillIInv DEF vars, world

LEMMA EngineIInv ==
  ASSUME IInv, EngineStops \/ EngineSettles
  PROVE  IInv'
BY StillIInv DEF EngineStops, EngineSettles

LEMMA RowStepIInv ==
  ASSUME IInv, NEW w \in Writers, RowStep(w)
  PROVE  IInv'
BY PutKeeps, DeleteWriteKeeps DEF RowStep

LEMMA PageFailsKeeps ==
  ASSUME IInv, PageFails
  PROVE  IInv'
<1>1. /\ pass.pc = "fetch" /\ EndPass /\ Incident
      /\ UNCHANGED <<world, device, drain, job, deferral, history>>
  BY DEF PageFails
<1> QED BY <1>1, EndPassKeeps

LEMMA NextIInv == IInv /\ [Next]_vars => IInv'
<1> SUFFICES ASSUME IInv, [Next]_vars PROVE IInv'
  OBVIOUS
<1> USE DEF Writers
<1>1. ASSUME NEW r \in Shared, NEW gone \in BOOLEAN, OtherDeviceWrites(r, gone) PROVE IInv'
  BY <1>1, OtherDeviceWritesKeeps
<1>2. ASSUME NEW r \in Rows, LateWrite(r) PROVE IInv'
  BY <1>2, LateWriteKeeps
<1>3. ASSUME NEW r \in Shared, Edit(r) \/ Enqueue(r) \/ Settle(r) PROVE IInv'
  <2>1. r \in Rows
    OBVIOUS
  <2> QED BY <1>3, <2>1, EditKeeps, EnqueueKeeps, SettleKeeps
<1>4. CASE Persist
  BY <1>4, PersistKeeps
<1>5. CASE PullStep
  BY <1>5, FetchPageKeeps, PullRowKeeps, EndPageKeeps, RowStepIInv DEF PullStep
<1>6. CASE PageFails
  BY <1>6, PageFailsKeeps
<1>7. CASE PassFails
  BY <1>7, PassFailsKeeps
<1>8. CASE Receive
  BY <1>8, ReceiveKeeps
<1>9. CASE DrainStep
  BY <1>9, DrainFetchKeeps, DrainCheckKeeps, DrainReadKeeps, EndDrainKeeps, RowStepIInv DEF DrainStep
<1>10. CASE DrainRowFails
  BY <1>10, DrainRowFailsKeeps
<1>11. CASE RowStep("realtime")
  BY <1>11, RowStepIInv
<1>12. CASE Restart
  BY <1>12, RestartKeeps
<1>13. CASE StartDrain
  BY <1>13, StartDrainKeeps
<1>14. CASE DrainBreaks
  BY <1>14, DrainBreaksKeeps
<1>15. CASE EngineStops \/ EngineSettles
  BY <1>15, EngineIInv
<1>16. CASE HydrateFails
  BY <1>16, HydrateFailsKeeps
<1>17. CASE UNCHANGED vars
  BY <1>17, StutterIInv
<1> QED BY <1>1, <1>2, <1>3, <1>4, <1>5, <1>6, <1>7, <1>8, <1>9, <1>10, <1>11, <1>12, <1>13, <1>14,
           <1>15, <1>16, <1>17 DEF Next

LEMMA SpecIInv == Spec => []IInv
BY InitIInv, NextIInv, PTL DEF Spec

\* Only its own two steps change what the push engine is kept from.
LEMMA SpecEngine == Spec => [](engine \in Engines)
<1>1. Init => engine \in Engines
  BY DEF Init, Engines
<1>2. engine \in Engines /\ [Next]_vars => (engine \in Engines)'
  <2> SUFFICES ASSUME engine \in Engines, [Next]_vars PROVE engine' \in Engines
    OBVIOUS
  <2>1. ASSUME NEW w \in Writers, RowStep(w) PROVE engine' = engine
    BY <2>1 DEF RowStep, Put, DeleteWrite, world
  <2>2. CASE PullStep
    BY <2>1, <2>2 DEF PullStep, FetchPage, PullRow, EndPage, world, Writers
  <2>3. CASE DrainStep
    BY <2>1, <2>3 DEF DrainStep, DrainFetch, DrainCheck, DrainRead, EndDrain, world, Writers
  <2>4. CASE HydrateFails \/ StartDrain \/ DrainRowFails \/ DrainBreaks
    BY <2>4 DEF HydrateFails, StartDrain, DrainRowFails, DrainBreaks, world
  <2>5. CASE Persist \/ PageFails \/ PassFails \/ Receive
    BY <2>5 DEF Persist, PageFails, PassFails, Receive, world
  <2>6. CASE EngineStops \/ EngineSettles
    BY <2>6 DEF EngineStops, EngineSettles, Engines
  <2>7. CASE Restart
    BY <2>7 DEF Restart
  <2>8. ASSUME NEW r \in Rows, NEW gone \in BOOLEAN, OtherDeviceWrites(r, gone) PROVE engine' = engine
    BY <2>8 DEF OtherDeviceWrites
  <2>9. ASSUME NEW r \in Rows, LateWrite(r) \/ Edit(r) \/ Enqueue(r) \/ Settle(r) PROVE engine' = engine
    BY <2>9 DEF LateWrite, Edit, Enqueue, Settle, world
  <2>10. CASE RowStep("realtime")
    BY <2>1, <2>10 DEF Writers
  <2>11. CASE UNCHANGED vars
    BY <2>11 DEF vars, world
  <2> QED BY <2>2, <2>3, <2>4, <2>5, <2>6, <2>7, <2>8, <2>9, <2>10, <2>11, PullAssumption DEF Next
<1> QED BY <1>1, <1>2, PTL DEF Spec

\* A row the device lacks the last version of is one it will read: it is not
\* older than the cursor, or it waits for the drain, in memory or in what an
\* earlier session has stored, or a cause is noted.  It is the code's cursor,
\* that moves past rows runPullRemoteChanges() has deferred, and the deferred
\* merges of syncService.ts that have to make up for it.
THEOREM NoSilentGapHolds == Spec => []NoSilentGap
<1>1. IInv => NoSilentGap
  <2> SUFFICES ASSUME IInv, NEW r \in Rows
               PROVE  HasVersion(r, local[r]) \/ ToBeRead(r) \/ missed[r] # {}
    BY DEF NoSilentGap
  <2>1. CASE Known(r)
    BY <2>1 DEF Known
  <2>2. CASE Held(r)
    <3>1. r \in ToSet(deferred) \cup DrainRows \/ (~hydrated /\ r \in ToSet(stored))
      BY <2>2, DrainHolds DEF IInv
    <3> QED BY <3>1 DEF ToBeRead, Remembered
  <2>3. CASE cloud[r].at >= cursor
    BY <2>3 DEF ToBeRead
  <2> QED BY <2>1, <2>2, <2>3 DEF IInv, Kept
<1> QED BY <1>1, SpecIInv, PTL

\* A live row that carries the last version of the cloud and has no edit to
\* send holds the last value too, unless the queue gave an edit of it up, or
\* the clock of the device was ahead when it was edited: fieldLevelMerge() takes
\* the remote version over even when it keeps the local value.
THEOREM VersionTellsValueHolds == Spec => []VersionTellsValue
<1>1. IInv => VersionTellsValue
  BY DEF IInv, Told, Dirty, VersionTellsValue, ValueTold
<1> QED BY <1>1, SpecIInv, PTL

\* The ids of a list without repetitions are as many as it is long.
LEMMA LengthIs ==
  ASSUME NEW ids \in IdsType
  PROVE  /\ ToSet(ids) \subseteq Rows
         /\ Len(ids) = Cardinality(ToSet(ids)) /\ Len(ids) <= DeferMax
<1>1. /\ ids \in Seq(Rows) /\ IsInjective(ids) /\ Len(ids) <= DeferMax
  BY DEF IdsType
<1>2. Len(ids) \in Nat /\ DOMAIN ids = 1..Len(ids)
  BY <1>1
<1>3. ToSet(ids) \subseteq Rows
  BY <1>1, <1>2 DEF ToSet
<1>4. PICK f : f = ids
  OBVIOUS
<1>5. f \in [1..Len(ids) -> ToSet(ids)]
  BY <1>1, <1>2, <1>4 DEF ToSet
<1>6. f \in Surjection(1..Len(ids), ToSet(ids))
  BY <1>2, <1>4, <1>5 DEF Surjection, ToSet
<1>7. f \in Injection(1..Len(ids), ToSet(ids))
  BY <1>1, <1>4, <1>5 DEF Injection
<1>8. ExistsBijection(1..Len(ids), ToSet(ids))
  BY <1>6, <1>7 DEF ExistsBijection, Bijection
<1>9. Cardinality(ToSet(ids)) = Len(ids)
  BY <1>2, <1>8, FS_CountingElements
<1> QED BY <1>1, <1>3, <1>9

\* Every variable keeps its shape, versions and clocks stay within what the
\* bounds allow, and the ids applyDeferred() leaves in memory and in the
\* queue's meta are a set of at most DEFERRED_MERGE_MAX_PER_TABLE ids.
THEOREM TypeCorrect == Spec => []TypeOK
<1>1. IInv /\ engine \in Engines => TypeOK
  <2> SUFFICES ASSUME IInv, engine \in Engines PROVE TypeOK
    OBVIOUS
  <2>1. written \in Writes /\ clock \in Times /\ edited \in 0..MaxEdits /\ incidents \in 0..MaxIncidents
    <3>1. Cardinality(Waiting(saving)) \in Nat /\ Cardinality(Waiting(pending)) \in Nat
      BY WaitingIs
    <3>2. /\ edited <= MaxEdits /\ incidents <= MaxIncidents /\ written <= edited + MaxWrites + 1
          /\ clock + Cardinality(Waiting(saving)) + Cardinality(Waiting(pending)) <= written + edited + 1
      BY BoundsIs DEF IInv
    <3>3. written \in Nat /\ clock \in Nat /\ edited \in Nat /\ incidents \in Nat
      BY DEF IInv, Shape
    <3>4. written <= MaxWrites + MaxEdits + 1
      BY <3>2, <3>3
    <3>5. clock <= MaxWrites + 2 * MaxEdits + 2
      BY <3>1, <3>2, <3>3
    <3> QED BY <3>2, <3>3, <3>4, <3>5 DEF Writes, Times
  <2>2. \A n \in Nat : (n <= written => n \in Writes) /\ (n <= clock => n \in Times)
    BY <2>1 DEF Writes, Times
  <2>3. \A r \in Rows : /\ cloud[r].write \in Writes /\ cloud[r].at \in Times /\ cloud[r].gone \in BOOLEAN
                        /\ cloud[r].write \in Nat /\ cloud[r].at \in Nat
                        /\ cloud[r].write <= written /\ cloud[r].at <= clock
    <3>1. \A r \in Rows : cloud[r].write \in Nat /\ cloud[r].at \in Nat /\ cloud[r].gone \in BOOLEAN
      BY DEF IInv, Shape, CloudType
    <3>2. \A r \in Rows : cloud[r].write <= written /\ cloud[r].at <= clock
      BY DEF IInv, Clocks
    <3> QED BY <2>2, <3>1, <3>2
  <2>4. cloud \in [Rows -> [write: Writes, at: Times, gone: BOOLEAN]]
    BY <2>3 DEF IInv, Shape, CloudType
  <2>5. events \subseteq RowCopy
    <3> SUFFICES ASSUME NEW copy \in events PROVE copy \in RowCopy
      OBVIOUS
    <3>1. copy \in CopyType /\ Past(copy)
      BY InUse DEF IInv, Shape
    <3>2. PICK r \in Rows, n \in Nat : r = copy.id /\ n = copy.write
      BY <3>1 DEF CopyType
    <3>3. PICK t \in Nat : t = copy.at
      BY <3>1 DEF CopyType
    <3>4. n <= written /\ t <= clock
      <4>1. n <= cloud[r].write /\ t <= cloud[r].at
        BY <3>1, <3>2, <3>3 DEF Past
      <4> QED BY <2>3, <4>1 DEF IInv, Shape
    <3>5. copy.write \in Writes /\ copy.at \in Times
      BY <2>2, <3>2, <3>3, <3>4
    <3> QED BY <3>1, <3>5 DEF CopyType, RowCopy
  <2>6. local \in [Rows -> Record]
    <3> SUFFICES ASSUME NEW r \in Rows PROVE local[r] \in Record
      BY DEF IInv, Shape
    <3>1. /\ local[r] \in RecordType /\ local[r].version \in Nat /\ local[r].value \in Nat /\ local[r].at \in Nat /\ local[r].time \in Int
      BY DEF IInv, Shape, RecordType
    <3>2. local[r].version <= cloud[r].write /\ local[r].value <= written /\ local[r].at <= cloud[r].at
      BY InUse DEF IInv, Behind
    <3>3. local[r].version <= written /\ local[r].at <= clock
      <4>1. /\ cloud[r].write \in Nat /\ cloud[r].at \in Nat
            /\ cloud[r].write <= written /\ cloud[r].at <= clock
        BY <2>3
      <4>2. written \in Nat /\ clock \in Nat
        BY DEF IInv, Shape
      <4> QED BY <3>1, <3>2, <4>1, <4>2
    <3>4. local[r].version \in Writes /\ local[r].value \in Writes /\ local[r].at \in Times
      BY <2>2, <3>1, <3>2, <3>3
    <3> QED BY <3>1, <3>4 DEF RecordType, Record
  <2>7. ASSUME NEW op \in OpType, Made(op) PROVE op \in Op
    <3>1. op.write \in Nat /\ op.base \in Nat
      BY DEF OpType
    <3>2. CASE op = NoOp
      BY <3>2, PullAssumption DEF NoOp, Op, Writes, Times
    <3>3. CASE op # NoOp
      <4>1. op.write <= written /\ op.base <= written
        BY <2>7, <3>1, <3>3 DEF Made, IInv, Shape
      <4>2. op.write \in Writes /\ op.base \in Writes
        BY <2>2, <3>1, <4>1
      <4> QED BY <4>2 DEF OpType, Op
    <3> QED BY <3>2, <3>3
  <2>8. saving \in [Rows -> Op] /\ pending \in [Rows -> Op]
    <3>1. \A r \in Rows : saving[r] \in OpType /\ pending[r] \in OpType /\ Made(saving[r]) /\ Made(pending[r])
      BY DEF IInv, Shape, Clocks
    <3>2. \A r \in Rows : saving[r] \in Op /\ pending[r] \in Op
      BY <2>7, <3>1
    <3> QED BY <3>2 DEF IInv, Shape
  <2>9. cursor \in Times /\ pass.pc \in {"fetch", "rows"} /\ pass.tail \in Times
    <3>1. cursor \in Nat /\ pass.tail \in Nat /\ pass.pc \in {"fetch", "rows"}
      BY DEF IInv, Shape, PassType
    <3>2. cursor <= clock /\ pass.tail <= clock
      BY InUse DEF IInv
    <3> QED BY <2>2, <3>1, <3>2
  <2>10. \A ids \in {deferred, stored} :
           /\ ToSet(ids) \subseteq Rows
           /\ Len(ids) = Cardinality(ToSet(ids)) /\ Len(ids) <= DeferMax
    BY LengthIs DEF IInv, Shape
  <2>11. missed \in [Rows -> SUBSET Causes] /\ unsent \subseteq Rows /\ ahead \subseteq Rows
    BY DEF IInv, Shape
  <2> QED BY <2>1, <2>4, <2>5, <2>6, <2>8, <2>9, <2>10, <2>11 DEF TypeOK
<1> QED BY <1>1, SpecIInv, SpecEngine, PTL
=============================================================================
