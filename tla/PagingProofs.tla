----------------------------- MODULE PagingProofs -----------------------------
(* Proofs about walks over the list, for any keys, any page size and any   *)
(* number of changes meanwhile.                                            *)
EXTENDS Paging, FiniteSetTheorems, TLAPS

-----------------------------------------------------------------------------
(* Ranks in a finite list. *)

RankIn(S, k) == Cardinality({j \in S : j <= k})

(* A list of keys. *)
IsList(S) == S \subseteq Nat /\ IsFiniteSet(S)

(* The keys whose rank is beyond a and not beyond b. *)
Stretch(S, a, b) == {k \in S : a < RankIn(S, k) /\ RankIn(S, k) <= b}

(* A rank is a number up to the length of the list. *)
LEMMA RankTypes ==
  ASSUME NEW S, IsList(S), NEW k \in Nat
  PROVE  /\ IsFiniteSet({j \in S : j <= k})
         /\ RankIn(S, k) \in Nat /\ Cardinality(S) \in Nat
         /\ RankIn(S, k) <= Cardinality(S)
         /\ k \in S => RankIn(S, k) > 0
<1>1. {j \in S : j <= k} \in SUBSET S
  OBVIOUS
<1>2. /\ IsFiniteSet({j \in S : j <= k})
      /\ Cardinality({j \in S : j <= k}) <= Cardinality(S)
  BY <1>1, FS_Subset DEF IsList
<1>3. RankIn(S, k) \in Nat /\ Cardinality(S) \in Nat
  BY <1>2, FS_CardinalityType DEF RankIn, IsList
<1>4. ASSUME k \in S PROVE RankIn(S, k) # 0
  <2>1. k \in {j \in S : j <= k}
    BY <1>4 DEF IsList
  <2> QED
    BY <1>2, <2>1, FS_EmptySet DEF RankIn
<1> QED
  BY <1>2, <1>3, <1>4 DEF RankIn

(* Of two keys in the list, the smaller one has the smaller rank.          *)
LEMMA RanksFollowKeys ==
  ASSUME NEW S, IsList(S), NEW j \in S, NEW k \in S, j < k
  PROVE  RankIn(S, j) < RankIn(S, k)
<1> DEFINE A == {i \in S : i <= j}
           B == {i \in S : i <= k}
<1>0. /\ j \in Nat /\ k \in Nat /\ \A i \in S : i \in Nat
  BY DEF IsList
<1>1. A \in SUBSET B /\ k \in B /\ k \notin A
  <2>1. \A i \in S : i <= j => i <= k
    BY <1>0
  <2>2. k <= k /\ ~(k <= j)
    BY <1>0
  <2> QED
    BY <2>1, <2>2
<1>2. IsFiniteSet(B)
  BY <1>0, RankTypes
<1>3. Cardinality(A) <= Cardinality(B) /\ Cardinality(A) # Cardinality(B)
  <2> HIDE DEF A, B
  <2> QED
    BY <1>1, <1>2, FS_Subset
<1>4. Cardinality(A) \in Nat /\ Cardinality(B) \in Nat
  BY <1>0, RankTypes DEF RankIn
<1> QED
  BY <1>3, <1>4 DEF RankIn

(* How many numbers there are from a + 1 to b. *)
LEMMA IntervalCount ==
  ASSUME NEW a \in Int, NEW b \in Int, a <= b
  PROVE  IsFiniteSet((a+1)..b) /\ Cardinality((a+1)..b) = b - a
<1>1. a + 1 \in Int
  OBVIOUS
<1>2. /\ IsFiniteSet((a+1)..b)
      /\ Cardinality((a+1)..b) = IF a + 1 > b THEN 0 ELSE b - (a + 1) + 1
  BY <1>1, FS_Interval
<1>3. (IF a + 1 > b THEN 0 ELSE b - (a + 1) + 1) = b - a
  OBVIOUS
<1> QED
  BY <1>2, <1>3

(* At most b - a keys have ranks from a + 1 to b ...                       *)
LEMMA StretchIsBounded ==
  ASSUME NEW S, IsList(S), NEW a \in Int, NEW b \in Int, a <= b
  PROVE  /\ IsFiniteSet(Stretch(S, a, b))
         /\ Cardinality(Stretch(S, a, b)) \in Nat
         /\ Cardinality(Stretch(S, a, b)) <= b - a
<1> DEFINE T == Stretch(S, a, b)
           f == [k \in T |-> RankIn(S, k)]
<1>1. f \in Injection(T, (a+1)..b)
  <2>1. ASSUME NEW k \in T PROVE k \in S /\ k \in Nat /\ RankIn(S, k) \in (a+1)..b
    <3>1. k \in S /\ k \in Nat /\ a < RankIn(S, k) /\ RankIn(S, k) <= b
      BY DEF Stretch, IsList
    <3>2. RankIn(S, k) \in Nat
      BY <3>1, RankTypes
    <3> QED
      BY <3>1, <3>2
  <2>2. f \in [T -> (a+1)..b]
    BY <2>1
  <2>3. ASSUME NEW j \in T, NEW k \in T, f[j] = f[k] PROVE j = k
    <3>1. RankIn(S, j) = RankIn(S, k) /\ RankIn(S, k) \in Int
      BY <2>1, <2>3
    <3>2. ~(j < k) /\ ~(k < j)
      BY <2>1, <3>1, RanksFollowKeys
    <3> QED
      BY <2>1, <3>2
  <2> HIDE DEF f, T
  <2> QED
    BY <2>2, <2>3 DEF Injection, IsInjective
<1>2. IsFiniteSet((a+1)..b) /\ Cardinality((a+1)..b) = b - a
  BY IntervalCount
<1>3. IsFiniteSet(T) /\ Cardinality(T) <= b - a
  <2> HIDE DEF f, T
  <2> QED
    BY <1>1, <1>2, FS_Injection
<1> QED
  BY <1>3, FS_CardinalityType

(* ... and exactly so many, within the list: no rank is left out.          *)
LEMMA StretchIsFull ==
  ASSUME NEW S, IsList(S), NEW a \in Nat, NEW b \in Nat, a <= b, b <= Cardinality(S)
  PROVE  Cardinality(Stretch(S, a, b)) = b - a
<1> DEFINE n == Cardinality(S)
           f == [k \in S |-> RankIn(S, k)]
           T == Stretch(S, a, b)
           g == [k \in T |-> RankIn(S, k)]
<1>0. n \in Nat /\ \A k \in S : k \in Nat /\ RankIn(S, k) \in 1..n
  <2>1. n \in Nat
    BY FS_CardinalityType DEF IsList
  <2>2. ASSUME NEW k \in S PROVE k \in Nat /\ RankIn(S, k) \in 1..n
    <3>1. k \in Nat
      BY DEF IsList
    <3>2. RankIn(S, k) \in Nat /\ RankIn(S, k) > 0 /\ RankIn(S, k) <= n
      BY <3>1, RankTypes
    <3> QED
      BY <2>1, <3>1, <3>2
  <2> QED
    BY <2>1, <2>2
<1>1. ASSUME NEW j \in S, NEW k \in S, RankIn(S, j) = RankIn(S, k) PROVE j = k
  <2>1. ~(j < k) /\ ~(k < j)
    BY <1>0, <1>1, RanksFollowKeys
  <2> QED
    BY <1>0, <2>1
<1>2. f \in Injection(S, 1..n)
  <2>1. f \in [S -> 1..n]
    BY <1>0
  <2>2. \A j, k \in S : f[j] = f[k] => j = k
    BY <1>1
  <2> HIDE DEF f, n
  <2> QED
    BY <2>1, <2>2 DEF Injection, IsInjective
<1>3. f \in Surjection(S, 1..n)
  <2>1. IsFiniteSet(1..n) /\ Cardinality(1..n) = n
    BY <1>0, FS_Interval
  <2> HIDE DEF f
  <2> QED
    BY <1>2, <2>1, FS_Injection
<1>4. \A r \in 1..n : \E k \in S : RankIn(S, k) = r
  BY <1>3 DEF Surjection
<1>5. g \in Bijection(T, (a+1)..b)
  <2>0. T \subseteq S
    BY DEF Stretch
  <2>1. g \in [T -> (a+1)..b]
    BY <1>0 DEF Stretch
  <2>2. \A j, k \in T : g[j] = g[k] => j = k
    BY <1>1, <2>0
  <2>3. ASSUME NEW r \in (a+1)..b PROVE \E k \in T : g[k] = r
    <3>1. r \in 1..n
      BY <1>0, <2>3
    <3>2. PICK k \in S : RankIn(S, k) = r
      BY <1>4, <3>1
    <3>3. k \in T
      BY <2>3, <3>2 DEF Stretch
    <3> QED
      BY <3>2, <3>3
  <2> HIDE DEF g, T
  <2> QED
    BY <2>1, <2>2, <2>3 DEF Bijection, Injection, Surjection, IsInjective
<1>6. IsFiniteSet(T)
  BY StretchIsBounded
<1>7. Cardinality((a+1)..b) = Cardinality(T)
  <2>1. ExistsBijection(T, (a+1)..b)
    BY <1>5 DEF ExistsBijection
  <2> HIDE DEF T
  <2> QED
    BY <1>6, <2>1, FS_Bijection
<1>8. Cardinality((a+1)..b) = b - a
  BY IntervalCount
<1> HIDE DEF T
<1> QED
  BY <1>7, <1>8 DEF T

(* A key more in the list moves those above it by one.                     *)
LEMMA RankAfterPut ==
  ASSUME NEW S, IsList(S), NEW k \in Nat, k \notin S, NEW j \in Nat
  PROVE  RankIn(S \cup {k}, j) = IF k <= j THEN RankIn(S, j) + 1 ELSE RankIn(S, j)
<1>1. CASE k <= j
  <2>1. {i \in S \cup {k} : i <= j} = {i \in S : i <= j} \cup {k}
    BY <1>1
  <2>2. IsFiniteSet({i \in S : i <= j}) /\ k \notin {i \in S : i <= j}
    BY RankTypes
  <2> QED
    BY <1>1, <2>1, <2>2, FS_AddElement DEF RankIn
<1>2. CASE ~(k <= j)
  <2>1. {i \in S \cup {k} : i <= j} = {i \in S : i <= j}
    BY <1>2
  <2> QED
    BY <1>2, <2>1 DEF RankIn
<1> QED
  BY <1>1, <1>2

(* Without the keys gone, ranks drop by no more than these are.            *)
LEMMA RankAfterRemove ==
  ASSUME NEW S, IsList(S), NEW gone \in SUBSET S, NEW j \in Nat
  PROVE  /\ RankIn(S \ gone, j) <= RankIn(S, j)
         /\ RankIn(S, j) - Cardinality(gone) <= RankIn(S \ gone, j)
<1> DEFINE A == {i \in S : i <= j}
           B == {i \in S \ gone : i <= j}
<1>1. IsFiniteSet(A) /\ IsFiniteSet(gone) /\ IsFiniteSet(B)
  <2>1. IsFiniteSet(A)
    BY RankTypes
  <2>2. B \in SUBSET A
    OBVIOUS
  <2> QED
    BY <2>1, <2>2, FS_Subset DEF IsList
<1>2. /\ Cardinality(A) \in Nat /\ Cardinality(B) \in Nat /\ Cardinality(gone) \in Nat
  BY <1>1, FS_CardinalityType
<1>3. Cardinality(B) <= Cardinality(A)
  <2>1. B \in SUBSET A
    OBVIOUS
  <2> QED
    BY <1>1, <2>1, FS_Subset
<1>4. Cardinality(A) <= Cardinality(B) + Cardinality(gone)
  <2>1. A \in SUBSET (B \cup gone)
    OBVIOUS
  <2> HIDE DEF A, B
  <2>2. /\ IsFiniteSet(B \cup gone)
        /\ Cardinality(B \cup gone) = Cardinality(B) + Cardinality(gone) - Cardinality(B \cap gone)
    BY <1>1, FS_Union
  <2>3. Cardinality(A) <= Cardinality(B \cup gone)
    BY <2>1, <2>2, FS_Subset
  <2>4. Cardinality(B \cap gone) \in Nat
    BY <1>1, FS_Intersection, FS_CardinalityType
  <2> QED
    BY <1>2, <2>2, <2>3, <2>4
<1> QED
  BY <1>2, <1>3, <1>4 DEF RankIn

-----------------------------------------------------------------------------
(* The walk. *)

(* What is stored is a list, and what the invariant counts can be counted. *)
LEMMA ListOfKeys ==
  ASSUME PagingTypeOK
  PROVE  /\ IsList(stored) /\ IsFiniteSet(seen) /\ IsFiniteSet(steady)
         /\ Cardinality(stored) \in Nat /\ Cardinality(seen) \in Nat
         /\ IsFiniteSet(PassedOver) /\ Cardinality(PassedOver) \in Nat
         /\ IsFiniteSet(ToRepeat) /\ Cardinality(ToRepeat) \in Nat
         /\ \A k \in Nat : RankIn(stored, k) \in Nat /\ Rank(k) = RankIn(stored, k)
<1>1. /\ stored \in SUBSET Keys /\ seen \in SUBSET Keys /\ steady \in SUBSET Keys
      /\ PassedOver \in SUBSET Keys /\ ToRepeat \in SUBSET Keys
  BY DEF PagingTypeOK, PassedOver, ToRepeat
<1>2. \A S \in SUBSET Keys : IsFiniteSet(S) /\ Cardinality(S) \in Nat /\ IsList(S)
  BY PagingAssumption, FS_Subset, FS_CardinalityType DEF IsList
<1>3. IsList(stored)
  BY <1>1, <1>2
<1>4. \A k \in Nat : RankIn(stored, k) \in Nat /\ Rank(k) = RankIn(stored, k)
  BY <1>3, RankTypes DEF Rank, RankIn
<1> QED
  BY <1>1, <1>2, <1>4

(* A page that does not panic is the next PageSize entries, or what is     *)
(* left; it panics if the list is shorter than what the walk has passed.   *)
LEMMA PageEffect ==
  ASSUME PagingTypeOK
  PROVE  LET stop == start + PageSize - 1
             page == Page(start, stop)
             len  == Cardinality(stored)
         IN  /\ Panics(start, stop, len) <=> start - 1 > len
             /\ page \subseteq stored /\ IsFiniteSet(page)
             /\ \A k \in stored : k \in page <=> start <= Rank(k) /\ Rank(k) <= stop
             /\ start - 1 <= len =>
                  Cardinality(page) = (IF stop > len THEN len ELSE stop) - (start - 1)
<1> DEFINE stop == start + PageSize - 1
           page == Page(start, stop)
           len  == Cardinality(stored)
           m    == IF stop > len THEN len ELSE stop
<1>1. /\ start \in Nat \ {0} /\ stop \in Nat \ {0} /\ start <= stop /\ len \in Nat
      /\ IsList(stored)
      /\ \A k \in stored : Rank(k) \in Nat /\ Rank(k) = RankIn(stored, k) /\ Rank(k) <= len
  <2>1. start \in Nat \ {0} /\ stop \in Nat \ {0} /\ start <= stop
    BY PagingAssumption DEF PagingTypeOK
  <2>2. len \in Nat /\ IsList(stored)
    BY ListOfKeys
  <2>3. ASSUME NEW k \in stored
        PROVE  Rank(k) \in Nat /\ Rank(k) = RankIn(stored, k) /\ Rank(k) <= len
    <3>1. k \in Nat
      BY <2>2 DEF IsList
    <3> QED
      BY <2>2, <3>1, ListOfKeys, RankTypes
  <2> QED
    BY <2>1, <2>2, <2>3
<1> HIDE DEF stop, len
<1>2. Bounds(start, stop, len) = <<start - 1, m>>
  BY <1>1 DEF Bounds, ConvertStartStopToSliceIndexes
<1>3. Panics(start, stop, len) <=> start - 1 > len
  BY <1>1, <1>2 DEF Panics
<1>4. page = {k \in stored : start - 1 < Rank(k) /\ Rank(k) <= m}
  BY <1>2 DEF Page, len
<1>5. \A k \in stored : k \in page <=> start <= Rank(k) /\ Rank(k) <= stop
  BY <1>1, <1>4
<1>6. page = Stretch(stored, start - 1, m)
  BY <1>1, <1>4 DEF Stretch
<1>7. page \subseteq stored /\ IsFiniteSet(page)
  <2>1. page \in SUBSET stored
    BY <1>4
  <2> HIDE DEF page
  <2> QED
    BY <1>1, <2>1, FS_Subset DEF IsList
<1>8. ASSUME start - 1 <= len PROVE Cardinality(page) = m - (start - 1)
  <2>1. start - 1 \in Nat /\ m \in Nat /\ start - 1 <= m /\ m <= Cardinality(stored)
    BY <1>1, <1>8 DEF len
  <2> HIDE DEF m, page
  <2> QED
    BY <1>1, <1>6, <2>1, StretchIsFull
<1> QED
  BY <1>3, <1>5, <1>7, <1>8 DEF stop, len

(* A Get of all panics, for any start and stop and any list, just if stop  *)
(* is negative, or start is beyond the end of the list, or beyond a stop   *)
(* that is given by more than one.                                         *)
THEOREM WhenAGetPanics ==
  ASSUME NEW from \in Int, NEW stop \in Int, NEW length \in Nat
  PROVE  Panics(from, stop, length) <=>
           \/ stop < 0
           \/ from > length + 1
           \/ stop > 0 /\ from > stop + 1
<1> DEFINE a == IF from <= 0 THEN 0 ELSE from - 1
           c == IF stop > length THEN length ELSE stop
           b == IF c = 0 THEN length ELSE c
<1>1. Bounds(from, stop, length) = <<a, b>>
  BY DEF Bounds, ConvertStartStopToSliceIndexes
<1>2. Panics(from, stop, length) <=> ~(0 <= a /\ a <= b /\ b <= length)
  BY <1>1 DEF Panics
<1> QED
  BY <1>2

(* What it returns if it does not: the instances of rank start to stop, or *)
(* to the end without a stop.                                              *)
THEOREM WhatAGetReturns ==
  ASSUME PagingTypeOK, NEW from \in Int, NEW stop \in Int,
         ~Panics(from, stop, Cardinality(stored))
  PROVE  Page(from, stop) = {k \in stored : from <= Rank(k) /\ (stop = 0 \/ Rank(k) <= stop)}
<1> DEFINE len == Cardinality(stored)
           a   == IF from <= 0 THEN 0 ELSE from - 1
           c   == IF stop > len THEN len ELSE stop
           b   == IF c = 0 THEN len ELSE c
<1>1. /\ len \in Nat
      /\ \A k \in stored : Rank(k) \in Nat /\ Rank(k) <= len /\ Rank(k) > 0
  <2>1. IsList(stored) /\ len \in Nat
    BY ListOfKeys
  <2>2. ASSUME NEW k \in stored PROVE Rank(k) \in Nat /\ Rank(k) <= len /\ Rank(k) > 0
    <3>1. k \in Nat
      BY <2>1 DEF IsList
    <3> QED
      BY <2>1, <3>1, ListOfKeys, RankTypes
  <2> QED
    BY <2>1, <2>2
<1>2. ~(stop < 0)
  BY <1>1, WhenAGetPanics
<1> HIDE DEF len
<1>3. Bounds(from, stop, len) = <<a, b>>
  BY DEF Bounds, ConvertStartStopToSliceIndexes
<1>4. Page(from, stop) = {k \in stored : a < Rank(k) /\ Rank(k) <= b}
  BY <1>3 DEF Page, len
<1>5. ASSUME NEW k \in stored
      PROVE  a < Rank(k) /\ Rank(k) <= b <=> from <= Rank(k) /\ (stop = 0 \/ Rank(k) <= stop)
  <2>1. Rank(k) \in Nat /\ Rank(k) <= len /\ Rank(k) > 0
    BY <1>1
  <2>2. a < Rank(k) <=> from <= Rank(k)
    BY <2>1
  <2>3. Rank(k) <= b <=> stop = 0 \/ Rank(k) <= stop
    BY <1>1, <1>2, <2>1
  <2> QED
    BY <2>2, <2>3
<1> QED
  BY <1>4, <1>5

(* Every step preserves the types.                                         *)
LEMMA PagingTypeStep ==
  ASSUME PagingTypeOK, PagingNext
  PROVE  PagingTypeOK'
<1> USE DEF PagingTypeOK
<1>1. CASE GetPage
  <2>1. /\ UNCHANGED <<stored, steady, lost, gained>>
        /\ walk' \in {"walking", "done", "crashed"}
    BY <1>1 DEF GetPage
  <2>2. CASE UNCHANGED <<start, seen, received>>
    BY <2>1, <2>2
  <2>3. CASE ~UNCHANGED <<start, seen, received>>
    <3> DEFINE stop == start + PageSize - 1
               page == Page(start, stop)
    <3>1. /\ seen' = seen \cup page /\ received' = received + Cardinality(page)
          /\ start' = stop + 1
      BY <1>1, <2>3 DEF GetPage
    <3>2. page \subseteq stored /\ Cardinality(page) \in Nat
      BY PageEffect, FS_CardinalityType
    <3>3. stop + 1 \in Nat \ {0}
      BY PagingAssumption
    <3> HIDE DEF page, stop
    <3> QED
      BY <2>1, <3>1, <3>2, <3>3
  <2> QED
    BY <2>2, <2>3
<1>2. ASSUME NEW k \in Keys, Put(k) PROVE PagingTypeOK'
  BY <1>2 DEF Put, walkVars
<1>3. ASSUME NEW first \in Keys, NEW last \in Keys, Remove(first, last) PROVE PagingTypeOK'
  <2> DEFINE gone == {k \in stored : first <= k /\ k <= last}
  <2>1. gone \in SUBSET stored /\ Cardinality(gone) \in Nat
    <3>1. gone \in SUBSET stored
      OBVIOUS
    <3> HIDE DEF gone
    <3> QED
      BY <3>1, ListOfKeys, FS_Subset, FS_CardinalityType DEF IsList
  <2>2. /\ stored' = stored \ gone /\ steady' = steady \ gone
        /\ lost' = lost + Cardinality(gone) /\ UNCHANGED <<start, seen, received, walk, gained>>
    BY <1>3 DEF Remove, walkVars
  <2> HIDE DEF gone
  <2> QED
    BY <2>1, <2>2
<1> QED
  BY <1>1, <1>2, <1>3 DEF PagingNext

(* A page: whatever it passes it delivers.                                 *)
LEMMA GetPageKeeps ==
  ASSUME PagingInv, PagingTypeOK', GetPage
  PROVE  MissedAreLost' /\ RepeatedAreGained'
<1> DEFINE stop == start + PageSize - 1
           page == Page(start, stop)
           len  == Cardinality(stored)
<1>0. /\ PagingTypeOK /\ MissedAreLost /\ RepeatedAreGained
      /\ start \in Nat \ {0} /\ PageSize \in Nat \ {0} /\ stop \in Nat /\ len \in Nat
      /\ received \in Nat /\ lost \in Nat /\ gained \in Nat
      /\ walk = "walking" /\ UNCHANGED <<stored, steady, lost, gained>>
  BY PagingAssumption, ListOfKeys DEF PagingInv, PagingTypeOK, GetPage
<1>1. /\ Panics(start, stop, len) <=> start - 1 > len
      /\ page \subseteq stored /\ IsFiniteSet(page) /\ Cardinality(page) \in Nat
      /\ \A k \in stored : k \in page <=> start <= Rank(k) /\ Rank(k) <= stop
      /\ start - 1 <= len =>
           Cardinality(page) = (IF stop > len THEN len ELSE stop) - (start - 1)
  BY <1>0, PageEffect, FS_CardinalityType
<1>2. \A k \in stored : Rank(k)' = Rank(k) /\ Rank(k) \in Nat /\ Rank(k) <= len
  <2>1. ASSUME NEW k \in stored PROVE Rank(k) \in Nat /\ Rank(k) <= len
    <3>1. IsList(stored) /\ k \in Nat
      BY <1>0, ListOfKeys DEF IsList
    <3> QED
      BY <1>0, <3>1, ListOfKeys, RankTypes
  <2> QED
    BY <1>0, <2>1 DEF Rank
<1>3. CASE Panics(start, stop, len)
  <2>1. walk' = "crashed" /\ UNCHANGED <<start, seen, received>>
    BY <1>3 DEF GetPage
  <2>2. lost > 0
    BY <1>0, <1>1, <1>3 DEF MissedAreLost
  <2>3. PassedOver' = PassedOver /\ ToRepeat' = ToRepeat
    BY <1>0, <2>1 DEF PassedOver, ToRepeat, Rank
  <2> QED
    BY <1>0, <2>1, <2>2, <2>3 DEF MissedAreLost, RepeatedAreGained
<1>4. CASE ~Panics(start, stop, len)
  <2>1. /\ seen' = seen \cup page /\ received' = received + Cardinality(page)
        /\ start' = stop + 1
        /\ walk' = IF Cardinality(page) < PageSize THEN "done" ELSE "walking"
    BY <1>4 DEF GetPage
  <2> HIDE DEF page
  <2>2. PassedOver' \in SUBSET PassedOver
    <3> SUFFICES ASSUME NEW k \in PassedOver' PROVE k \in PassedOver
      OBVIOUS
    <3>1. k \in steady /\ k \in stored /\ k \notin seen \cup page /\ Rank(k)' < start'
      BY <1>0, <2>1 DEF PassedOver, PagingTypeOK
    <3>2. Rank(k) < start
      BY <1>0, <1>1, <1>2, <2>1, <3>1
    <3> QED
      BY <3>1, <3>2 DEF PassedOver
  <2>3. Cardinality(PassedOver') <= Cardinality(PassedOver) /\ Cardinality(PassedOver') \in Nat
    BY <1>0, <2>2, ListOfKeys, FS_Subset, FS_CardinalityType
  <2>4. MissedAreLost'
    <3>1. Cardinality(PassedOver') <= lost'
      BY <1>0, <2>3, ListOfKeys DEF MissedAreLost
    <3>2. walk' # "crashed"
      BY <2>1
    <3>3. ASSUME walk' = "walking" PROVE start' - 1 <= Cardinality(stored') + lost'
      <4>1. ~(Cardinality(page) < PageSize)
        BY <2>1, <3>3
      <4> QED
        BY <1>0, <1>1, <1>4, <2>1, <4>1
    <3>4. ASSUME walk' = "done", NEW k \in stored PROVE Rank(k)' < start'
      <4>1. Cardinality(page) < PageSize
        BY <2>1, <3>4
      <4>2. stop > len
        BY <1>0, <1>1, <1>4, <4>1
      <4> QED
        BY <1>0, <1>2, <2>1, <3>4, <4>2
    <3> QED
      BY <1>0, <3>1, <3>2, <3>3, <3>4 DEF MissedAreLost
  <2>5. ToRepeat' = ToRepeat \ page
    <3>1. ASSUME NEW k \in stored
          PROVE  k \in ToRepeat' <=> k \in ToRepeat /\ k \notin page
      <4>1. k \in ToRepeat' <=> k \in seen \cup page /\ Rank(k) > stop
        BY <1>0, <1>2, <2>1 DEF ToRepeat
      <4>2. k \in ToRepeat <=> k \in seen /\ Rank(k) >= start
        BY DEF ToRepeat
      <4>3. k \in page <=> start <= Rank(k) /\ Rank(k) <= stop
        BY <1>1
      <4>4. Rank(k) \in Nat /\ start <= stop
        BY <1>0, <1>2
      <4> HIDE DEF stop
      <4> QED
        BY <1>0, <4>1, <4>2, <4>3, <4>4
    <3>2. ToRepeat \subseteq stored /\ ToRepeat' \subseteq stored
      BY <1>0 DEF ToRepeat
    <3> QED
      BY <3>1, <3>2
  <2>6. seen \cap page = ToRepeat \cap page
    BY <1>1 DEF ToRepeat
  <2>7. /\ Cardinality(seen') = Cardinality(seen) + Cardinality(page) - Cardinality(seen \cap page)
        /\ Cardinality(seen) \in Nat /\ Cardinality(seen \cap page) \in Nat
    <3>1. IsFiniteSet(seen) /\ IsFiniteSet(seen \cap page)
      BY <1>0, ListOfKeys, FS_Intersection
    <3> QED
      BY <1>1, <2>1, <3>1, FS_Union, FS_CardinalityType
  <2>8. /\ Cardinality(ToRepeat') = Cardinality(ToRepeat) - Cardinality(ToRepeat \cap page)
        /\ Cardinality(ToRepeat) \in Nat
    BY <1>0, <2>5, ListOfKeys, FS_Difference
  <2>9. RepeatedAreGained'
    <3>1. /\ received' = received + Cardinality(page) /\ gained' = gained
          /\ received \in Nat /\ gained \in Nat /\ Cardinality(page) \in Nat
          /\ received - Cardinality(seen) + Cardinality(ToRepeat) <= gained
      BY <1>0, <1>1, <2>1 DEF RepeatedAreGained
    <3>2. /\ Cardinality(seen') = Cardinality(seen) + Cardinality(page) - Cardinality(seen \cap page)
          /\ Cardinality(ToRepeat') = Cardinality(ToRepeat) - Cardinality(seen \cap page)
      BY <2>6, <2>7, <2>8
    <3>3. received' - Cardinality(seen') + Cardinality(ToRepeat') <= gained'
      BY <2>7, <2>8, <3>1, <3>2
    <3> QED
      BY <3>3 DEF RepeatedAreGained
  <2> QED
    BY <2>4, <2>9
<1> QED
  BY <1>3, <1>4

(* A Put moves what is beyond it by one, and at most one entry past start. *)
LEMMA PutKeeps ==
  ASSUME PagingInv, PagingTypeOK', NEW k \in Keys, Put(k)
  PROVE  MissedAreLost' /\ RepeatedAreGained'
<1>0. /\ PagingTypeOK /\ MissedAreLost /\ RepeatedAreGained
      /\ start \in Nat \ {0} /\ received \in Nat /\ lost \in Nat /\ gained \in Nat
      /\ walk = "walking" /\ UNCHANGED <<start, seen, received, walk, steady, lost>>
      /\ k \notin stored /\ k \in Nat /\ stored' = stored \cup {k} /\ gained' = gained + 1
      /\ stored \subseteq Nat /\ IsFiniteSet(stored) /\ Cardinality(stored) \in Nat
  BY PagingAssumption, ListOfKeys DEF PagingInv, PagingTypeOK, Put, walkVars, IsList
<1>1. \A j \in Nat : /\ Rank(j) \in Nat /\ Rank(j)' \in Nat
                     /\ Rank(j)' = IF k <= j THEN Rank(j) + 1 ELSE Rank(j)
  <2> SUFFICES ASSUME NEW j \in Nat
               PROVE  /\ Rank(j) \in Nat /\ Rank(j)' \in Nat
                      /\ Rank(j)' = IF k <= j THEN Rank(j) + 1 ELSE Rank(j)
    OBVIOUS
  <2>1. RankIn(stored \cup {k}, j)
          = IF k <= j THEN RankIn(stored, j) + 1 ELSE RankIn(stored, j)
    BY <1>0, ListOfKeys, RankAfterPut
  <2>2. Rank(j) = RankIn(stored, j) /\ Rank(j) \in Nat
    BY <1>0, ListOfKeys
  <2>3. Rank(j)' = RankIn(stored \cup {k}, j)
    BY <1>0 DEF Rank, RankIn
  <2>4. Rank(j)' = IF k <= j THEN Rank(j) + 1 ELSE Rank(j)
    BY <2>1, <2>2, <2>3
  <2> QED
    BY <2>2, <2>4
<1>2. Cardinality(stored') = Cardinality(stored) + 1
  BY <1>0, FS_AddElement
<1>3. PassedOver' \in SUBSET PassedOver
  <2>1. \A j \in steady : j \in Nat
    BY <1>0 DEF PagingTypeOK
  <2>2. \A j \in steady : Rank(j)' < start => Rank(j) < start
    BY <1>0, <1>1, <2>1
  <2> QED
    BY <1>0, <2>2 DEF PassedOver
<1>4. Cardinality(PassedOver') <= Cardinality(PassedOver) /\ Cardinality(PassedOver') \in Nat
  BY <1>0, <1>3, ListOfKeys, FS_Subset, FS_CardinalityType
<1>5. MissedAreLost'
  BY <1>0, <1>2, <1>4, ListOfKeys DEF MissedAreLost
<1>6. PICK x : ToRepeat' \subseteq ToRepeat \cup {x}
  <2>1. CASE Rank(k)' >= start
    <3>1. ASSUME NEW j \in stored, j \in seen, Rank(j)' >= start PROVE Rank(j) >= start
      <4>1. j \in Nat /\ j # k /\ IsList(stored')
        BY <1>0, <3>1, ListOfKeys, FS_AddElement DEF IsList
      <4>2. CASE j < k
        BY <1>0, <1>1, <3>1, <4>1, <4>2
      <4>3. CASE k < j
        <5>1. RankIn(stored', k) < RankIn(stored', j)
          BY <1>0, <4>1, <4>3, RanksFollowKeys
        <5>2. Rank(k)' < Rank(j)'
          BY <5>1 DEF Rank, RankIn
        <5> QED
          BY <1>0, <1>1, <2>1, <4>1, <4>3, <5>2
      <4> QED
        BY <1>0, <4>1, <4>2, <4>3
    <3>2. ToRepeat' \subseteq ToRepeat \cup {k}
      BY <1>0, <3>1 DEF ToRepeat
    <3> QED
      BY <3>2
  <2>2. CASE ~(Rank(k)' >= start)
    <3>1. ASSUME NEW i \in ToRepeat', NEW j \in ToRepeat', i \notin ToRepeat, j \notin ToRepeat
          PROVE  i = j
      <4>1. /\ i \in stored /\ j \in stored /\ i \in Nat /\ j \in Nat
            /\ Rank(i)' >= start /\ Rank(j)' >= start
            /\ ~(Rank(i) >= start) /\ ~(Rank(j) >= start)
        BY <1>0, <2>2, <3>1 DEF ToRepeat
      <4>2. Rank(i) = Rank(j)
        <5>1. /\ start \in Nat /\ Rank(i) \in Nat /\ Rank(j) \in Nat
              /\ Rank(i)' \in Nat /\ Rank(j)' \in Nat
          BY <1>0, <1>1, <4>1
        <5>2. Rank(i)' <= Rank(i) + 1 /\ Rank(j)' <= Rank(j) + 1
          BY <1>1, <4>1
        <5>3. Rank(i) = start - 1
          BY <4>1, <5>1, <5>2
        <5>4. Rank(j) = start - 1
          BY <4>1, <5>1, <5>2
        <5> QED
          BY <5>3, <5>4
      <4>3. RankIn(stored, i) = RankIn(stored, j) /\ RankIn(stored, i) \in Nat
        BY <1>0, <4>1, <4>2, ListOfKeys
      <4>4. ~(i < j) /\ ~(j < i)
        <5>1. IsList(stored)
          BY <1>0, ListOfKeys
        <5>2. i < j => RankIn(stored, i) < RankIn(stored, j)
          BY <4>1, <5>1, RanksFollowKeys
        <5>3. j < i => RankIn(stored, j) < RankIn(stored, i)
          BY <4>1, <5>1, RanksFollowKeys
        <5> QED
          BY <4>3, <5>2, <5>3
      <4> QED
        BY <4>1, <4>4
    <3> QED
      BY <3>1
  <2> QED
    BY <2>1, <2>2
<1>7. Cardinality(ToRepeat') <= Cardinality(ToRepeat) + 1 /\ Cardinality(ToRepeat') \in Nat
  <2>1. /\ IsFiniteSet(ToRepeat \cup {x}) /\ Cardinality(ToRepeat) \in Nat
        /\ Cardinality(ToRepeat \cup {x}) =
             IF x \in ToRepeat THEN Cardinality(ToRepeat) ELSE Cardinality(ToRepeat) + 1
    BY <1>0, ListOfKeys, FS_AddElement
  <2>2. IsFiniteSet(ToRepeat') /\ Cardinality(ToRepeat') <= Cardinality(ToRepeat \cup {x})
    BY <1>6, <2>1, FS_Subset
  <2> QED
    BY <2>1, <2>2, FS_CardinalityType
<1>8. RepeatedAreGained'
  BY <1>0, <1>7, ListOfKeys DEF RepeatedAreGained
<1> QED
  BY <1>5, <1>8

(* A removal brings forward, past start, no more than it takes: what was   *)
(* next in the list, so many ranks of it.                                  *)
LEMMA RemoveKeeps ==
  ASSUME PagingInv, PagingTypeOK', NEW first \in Keys, NEW last \in Keys, Remove(first, last)
  PROVE  MissedAreLost' /\ RepeatedAreGained'
<1> DEFINE gone == {k \in stored : first <= k /\ k <= last}
           n    == Cardinality(gone)
           next == Stretch(stored, start - 1, start - 1 + n)
<1>0. /\ PagingTypeOK /\ MissedAreLost /\ RepeatedAreGained
      /\ start \in Nat \ {0} /\ received \in Nat /\ lost \in Nat /\ gained \in Nat
      /\ walk = "walking" /\ UNCHANGED <<start, seen, received, walk, gained>>
      /\ gone \in SUBSET stored /\ stored' = stored \ gone /\ steady' = steady \ gone
      /\ lost' = lost + n
  BY DEF PagingInv, PagingTypeOK, Remove, walkVars
<1>1. IsList(stored) /\ IsFiniteSet(stored) /\ Cardinality(stored) \in Nat
  BY <1>0, ListOfKeys DEF IsList
<1> HIDE DEF gone
<1>2. IsFiniteSet(gone) /\ n \in Nat
  BY <1>0, <1>1, FS_Subset, FS_CardinalityType
<1>3. \A j \in stored : /\ j \in Nat /\ Rank(j) \in Nat /\ Rank(j)' \in Nat
                        /\ Rank(j) = RankIn(stored, j)
                        /\ Rank(j)' <= Rank(j) /\ Rank(j) <= Rank(j)' + n
  <2> SUFFICES ASSUME NEW j \in stored
               PROVE  /\ j \in Nat /\ Rank(j) \in Nat /\ Rank(j)' \in Nat
                      /\ Rank(j) = RankIn(stored, j)
                      /\ Rank(j)' <= Rank(j) /\ Rank(j) <= Rank(j)' + n
    OBVIOUS
  <2>1. j \in Nat
    BY <1>1 DEF IsList
  <2>2. Rank(j) = RankIn(stored, j) /\ RankIn(stored, j) \in Nat
    BY <1>0, <2>1, ListOfKeys
  <2>3. Rank(j)' = RankIn(stored \ gone, j)
    BY <1>0 DEF Rank, RankIn
  <2>4. IsList(stored \ gone)
    BY <1>0, <1>1, FS_Difference DEF IsList
  <2>5. RankIn(stored \ gone, j) \in Nat
    BY <2>1, <2>4, RankTypes
  <2>6. /\ RankIn(stored \ gone, j) <= RankIn(stored, j)
        /\ RankIn(stored, j) - n <= RankIn(stored \ gone, j)
    BY <1>0, <1>1, <2>1, RankAfterRemove
  <2>7. Rank(j)' \in Nat /\ Rank(j)' <= Rank(j) /\ Rank(j) <= Rank(j)' + n
    BY <1>2, <2>2, <2>3, <2>5, <2>6
  <2> QED
    BY <2>1, <2>2, <2>7
<1>4. Cardinality(stored') = Cardinality(stored) - n
  <2>1. stored \cap gone = gone
    BY <1>0
  <2> QED
    BY <1>0, <1>1, <2>1, FS_Difference
<1>5. /\ IsFiniteSet(next) /\ Cardinality(next) \in Nat /\ Cardinality(next) <= n
  <2>1. start - 1 \in Int /\ start - 1 + n \in Int /\ start - 1 <= start - 1 + n
    BY <1>0, <1>2
  <2> DEFINE a == start - 1
             b == start - 1 + n
  <2>2. next = Stretch(stored, a, b) /\ b - a = n
    BY <1>0, <1>2
  <2>3. a \in Int /\ b \in Int /\ a <= b
    BY <2>1
  <2> HIDE DEF a, b, next
  <2>4. /\ IsFiniteSet(Stretch(stored, a, b)) /\ Cardinality(Stretch(stored, a, b)) \in Nat
        /\ Cardinality(Stretch(stored, a, b)) <= b - a
    BY <1>1, <2>3, StretchIsBounded
  <2> QED
    BY <2>2, <2>4
<1>6. PassedOver' \in SUBSET (PassedOver \cup next)
  <2> SUFFICES ASSUME NEW j \in PassedOver', j \notin PassedOver PROVE j \in next
    OBVIOUS
  <2>1. j \in steady /\ j \in stored /\ j \notin seen /\ Rank(j)' < start
    BY <1>0 DEF PassedOver, PagingTypeOK
  <2>2. ~(Rank(j) < start)
    BY <2>1 DEF PassedOver
  <2>3. start - 1 < RankIn(stored, j) /\ RankIn(stored, j) <= start - 1 + n
    BY <1>0, <1>2, <1>3, <2>1, <2>2
  <2> QED
    BY <2>1, <2>3 DEF Stretch
<1>7. Cardinality(PassedOver') <= lost'
  <2> HIDE DEF next
  <2>1. IsFiniteSet(PassedOver) /\ Cardinality(PassedOver) \in Nat
    BY <1>0, ListOfKeys
  <2>2. /\ IsFiniteSet(PassedOver \cup next)
        /\ Cardinality(PassedOver \cup next) =
             Cardinality(PassedOver) + Cardinality(next) - Cardinality(PassedOver \cap next)
    BY <1>5, <2>1, FS_Union
  <2>3. Cardinality(PassedOver \cap next) \in Nat
    BY <1>5, <2>1, FS_Intersection, FS_CardinalityType
  <2>4. /\ Cardinality(PassedOver') <= Cardinality(PassedOver \cup next)
        /\ Cardinality(PassedOver') \in Nat
    BY <1>6, <2>2, FS_Subset, FS_CardinalityType
  <2>5. Cardinality(PassedOver) <= lost
    BY <1>0 DEF MissedAreLost
  <2> QED
    BY <1>0, <1>2, <1>5, <2>1, <2>2, <2>3, <2>4, <2>5
<1>8. MissedAreLost'
  <2>1. walk' = "walking"
    BY <1>0
  <2>2. start - 1 <= Cardinality(stored) + lost
    BY <1>0 DEF MissedAreLost
  <2>3. start' - 1 <= Cardinality(stored') + lost'
    BY <1>0, <1>1, <1>2, <1>4, <2>2
  <2> QED
    BY <1>7, <2>1, <2>3 DEF MissedAreLost
<1>9. ToRepeat' \in SUBSET ToRepeat
  <2> SUFFICES ASSUME NEW j \in ToRepeat' PROVE j \in ToRepeat
    OBVIOUS
  <2>1. j \in seen /\ j \in stored /\ Rank(j)' >= start
    BY <1>0 DEF ToRepeat
  <2>2. Rank(j) >= start
    BY <1>0, <1>3, <2>1
  <2> QED
    BY <2>1, <2>2 DEF ToRepeat
<1>10. RepeatedAreGained'
  <2>1. /\ Cardinality(ToRepeat') <= Cardinality(ToRepeat) /\ Cardinality(ToRepeat') \in Nat
        /\ Cardinality(ToRepeat) \in Nat /\ Cardinality(seen) \in Nat
    <3>1. IsFiniteSet(ToRepeat) /\ Cardinality(ToRepeat) \in Nat /\ Cardinality(seen) \in Nat
      BY <1>0, ListOfKeys
    <3> QED
      BY <1>9, <3>1, FS_Subset, FS_CardinalityType
  <2>2. received - Cardinality(seen) + Cardinality(ToRepeat) <= gained
    BY <1>0 DEF RepeatedAreGained
  <2>3. received' - Cardinality(seen') + Cardinality(ToRepeat') <= gained'
    BY <1>0, <2>1, <2>2
  <2> QED
    BY <2>3 DEF RepeatedAreGained
<1> QED
  BY <1>8, <1>10

-----------------------------------------------------------------------------
(* Nothing has been passed or got when the walk begins.                    *)
LEMMA PagingInvInit ==
  ASSUME PagingInit
  PROVE  PagingInv
<1>1. PagingTypeOK
  BY DEF PagingInit, PagingTypeOK
<1>2. \A k \in stored : ~(Rank(k) < 1)
  <2> SUFFICES ASSUME NEW k \in stored PROVE ~(Rank(k) < 1)
    OBVIOUS
  <2>1. IsList(stored) /\ k \in Nat
    BY <1>1, ListOfKeys DEF IsList
  <2>2. Rank(k) = RankIn(stored, k) /\ RankIn(stored, k) \in Nat /\ RankIn(stored, k) > 0
    BY <1>1, <2>1, ListOfKeys, RankTypes
  <2> QED
    BY <2>2
<1>3. PassedOver = {} /\ ToRepeat = {} /\ seen = {}
  BY <1>2 DEF PagingInit, PassedOver, ToRepeat
<1>4. Cardinality({}) = 0
  BY FS_EmptySet
<1>5. MissedAreLost
  <2>1. Cardinality(stored) \in Nat
    BY <1>1, ListOfKeys
  <2> QED
    BY <1>3, <1>4, <2>1 DEF PagingInit, MissedAreLost
<1>6. RepeatedAreGained
  BY <1>3, <1>4 DEF PagingInit, RepeatedAreGained
<1> QED
  BY <1>1, <1>5, <1>6 DEF PagingInv

(* Every step preserves the invariant.                                     *)
LEMMA PagingInvStep ==
  ASSUME PagingInv, [PagingNext]_pagingVars
  PROVE  PagingInv'
<1>1. CASE PagingNext
  <2>1. PagingTypeOK'
    BY <1>1, PagingTypeStep DEF PagingInv
  <2>2. CASE GetPage
    BY <2>1, <2>2, GetPageKeeps DEF PagingInv
  <2>3. ASSUME NEW k \in Keys, Put(k) PROVE PagingInv'
    BY <2>1, <2>3, PutKeeps DEF PagingInv
  <2>4. ASSUME NEW first \in Keys, NEW last \in Keys, Remove(first, last) PROVE PagingInv'
    BY <2>1, <2>4, RemoveKeeps DEF PagingInv
  <2> QED
    BY <1>1, <2>2, <2>3, <2>4 DEF PagingNext
<1>2. CASE UNCHANGED pagingVars
  BY <1>2 DEF pagingVars, walkVars, PagingInv, PagingTypeOK, MissedAreLost, RepeatedAreGained,
              PassedOver, ToRepeat, Rank
<1> QED
  BY <1>1, <1>2

(* What a walk has passed over, or will get again, is paid for at every    *)
(* moment by what has been removed, or put, since it began.                *)
THEOREM PagingInvariance == PagingSpec => []PagingInv
<1>1. PagingInit => PagingInv
  BY PagingInvInit
<1>2. PagingInv /\ [PagingNext]_pagingVars => PagingInv'
  BY PagingInvStep
<1> QED
  BY <1>1, <1>2, PTL DEF PagingSpec

(* Of what was stored all along, a walk misses no more entries than were   *)
(* removed meanwhile, and the server panics only if some were: pages of    *)
(* any size, of any list.                                                  *)
THEOREM WalkMisses == PagingSpec => []MissesNoMoreThanLost
<1>1. ASSUME PagingInv PROVE MissesNoMoreThanLost
  <2>1. PagingTypeOK /\ MissedAreLost
    BY <1>1 DEF PagingInv
  <2>2. ASSUME walk = "done" PROVE Cardinality(steady \ seen) <= lost
    <3>1. steady \ seen = PassedOver
      BY <2>1, <2>2 DEF MissedAreLost, PassedOver, PagingTypeOK
    <3> QED
      BY <2>1, <3>1 DEF MissedAreLost
  <2> QED
    BY <2>1, <2>2 DEF MissesNoMoreThanLost, MissedAreLost
<1> QED
  BY <1>1, PagingInvariance, PTL

(* Nor has it got more entries twice than were put meanwhile.              *)
THEOREM WalkRepeats == PagingSpec => []RepeatsNoMoreThanGained
<1>1. ASSUME PagingInv PROVE RepeatsNoMoreThanGained
  <2>1. /\ received \in Nat /\ gained \in Nat /\ Cardinality(seen) \in Nat
        /\ Cardinality(ToRepeat) \in Nat
        /\ received - Cardinality(seen) + Cardinality(ToRepeat) <= gained
    BY <1>1, ListOfKeys DEF PagingInv, PagingTypeOK, RepeatedAreGained
  <2> QED
    BY <2>1 DEF RepeatsNoMoreThanGained
<1> QED
  BY <1>1, PagingInvariance, PTL
=============================================================================
