---------------------------- MODULE RanksProofs ----------------------------
(***************************************************************************)
(* What the operators of Ranks return, for every list and set of places.   *)
(***************************************************************************)
EXTENDS Ranks, FiniteSetTheorems, SequenceTheorems, TLAPS

LEMMA UpTo ==
    ASSUME NEW n \in Nat
    PROVE  IsFiniteSet(1 .. n) /\ Cardinality(1 .. n) = n
BY FS_Interval

(* A non-empty set of naturals has a least element. *)
LEMMA LeastNatural ==
    ASSUME NEW T \in SUBSET Nat, T # {}
    PROVE  \E m \in T : \A n \in T : m <= n
<1> DEFINE R == {p \in Nat \X Nat : p[1] < p[2]}
<1>1. PICK m \in T : \A n \in T : <<n, m>> \notin R
  <2>1. IsWellFoundedOn(R, Nat)
    BY NatLessThanWellFounded, Zenon DEF OpToRel
  <2> HIDE DEF R
  <2> QED
    BY <2>1, WFMin
<1> QED
  <2>1. \A n \in T : ~ (n < m)
    BY <1>1
  <2> QED
    BY <2>1

(* In a finite set of naturals the ranks are 1, 2, ..., one for each element, *)
(* in the order of the elements.                                             *)
LEMMA RankOrder ==
    ASSUME NEW S \in SUBSET Nat, IsFiniteSet(S), NEW m \in S, NEW n \in S
    PROVE  /\ Rank(S, n) \in 1 .. Cardinality(S)
           /\ m < n <=> Rank(S, m) < Rank(S, n)
           /\ m = n <=> Rank(S, m) = Rank(S, n)
<1> DEFINE Below(k) == {j \in S : j <= k}
<1>1. \A k \in S : /\ IsFiniteSet(Below(k)) /\ Cardinality(Below(k)) \in Nat
                   /\ Cardinality(Below(k)) <= Cardinality(S)
                   /\ Cardinality(Below(k)) # 0
  <2> TAKE k \in S
  <2>1. Below(k) \subseteq S /\ k \in Below(k)
    OBVIOUS
  <2> HIDE DEF Below
  <2> QED
    BY <2>1, FS_Subset, FS_CardinalityType, FS_EmptySet
<1>2. ASSUME NEW a \in S, NEW b \in S, a < b
      PROVE  Cardinality(Below(a)) < Cardinality(Below(b))
  <2>1. Below(a) \subseteq Below(b) /\ b \notin Below(a) /\ b \in Below(b)
    <3>1. a \in Nat /\ b \in Nat /\ S \subseteq Nat
      OBVIOUS
    <3>2. \A j \in S : j <= a => j <= b
      BY <1>2, <3>1
    <3>3. b \in Below(b) /\ b \notin Below(a)
      BY <1>2, <3>1
    <3> QED
      BY <3>2, <3>3
  <2>2. Below(a) # Below(b)
    BY <2>1
  <2> HIDE DEF Below
  <2> QED
    BY <1>1, <2>1, <2>2, FS_Subset
<1>3. Cardinality(S) \in Nat
  BY FS_CardinalityType
<1>4. \A k : Rank(S, k) = Cardinality(Below(k))
  BY DEF Rank
<1>5. m < n \/ m = n \/ n < m
  OBVIOUS
<1> HIDE DEF Below
<1>6. m < n => Rank(S, m) < Rank(S, n)
  BY <1>2, <1>4
<1>7. n < m => Rank(S, n) < Rank(S, m)
  BY <1>2, <1>4
<1>8. Rank(S, m) \in Nat /\ Rank(S, n) \in Nat
  BY <1>1, <1>4
<1> QED
  BY <1>1, <1>3, <1>4, <1>5, <1>6, <1>7, <1>8

(* The k-th smallest element is there, and is what its rank says. *)
LEMMA NthElement ==
    ASSUME NEW S \in SUBSET Nat, IsFiniteSet(S), NEW k \in 1 .. Cardinality(S)
    PROVE  Nth(S, k) \in S /\ Rank(S, Nth(S, k)) = k
<1> DEFINE c == Cardinality(S)
           f == [n \in S |-> Rank(S, n)]
<1>1. c \in Nat /\ IsFiniteSet(1 .. c) /\ Cardinality(1 .. c) = c
  BY FS_CardinalityType, FS_Interval
<1>2. f \in [S -> 1 .. c]
  BY RankOrder
<1>3. f \in Injection(S, 1 .. c)
  <2>1. \A a, b \in S : f[a] = f[b] => a = b
    BY RankOrder
  <2> HIDE DEF f
  <2> QED
    BY <1>2, <2>1 DEF Injection, IsInjective
<1>4. f \in Surjection(S, 1 .. c)
  <2> HIDE DEF f
  <2> QED
    BY <1>1, <1>3, FS_Injection
<1>5. \E n \in S : Rank(S, n) = k
  BY <1>4 DEF Surjection
<1> QED
  BY <1>5 DEF Nth

(* Each element is the one of its rank. *)
LEMMA NthOfRank ==
    ASSUME NEW S \in SUBSET Nat, IsFiniteSet(S), NEW n \in S
    PROVE  Nth(S, Rank(S, n)) = n
<1>1. Rank(S, n) \in 1 .. Cardinality(S)
  BY RankOrder
<1>2. Nth(S, Rank(S, n)) \in S /\ Rank(S, Nth(S, Rank(S, n))) = Rank(S, n)
  BY <1>1, NthElement
<1> QED
  BY <1>2, RankOrder

(* Taking the k-th keeps the order. *)
LEMMA NthOrder ==
    ASSUME NEW S \in SUBSET Nat, IsFiniteSet(S),
           NEW k \in 1 .. Cardinality(S), NEW l \in 1 .. Cardinality(S)
    PROVE  /\ k < l <=> Nth(S, k) < Nth(S, l)
           /\ k = l <=> Nth(S, k) = Nth(S, l)
<1>1. /\ Nth(S, k) \in S /\ Rank(S, Nth(S, k)) = k
      /\ Nth(S, l) \in S /\ Rank(S, Nth(S, l)) = l
  BY NthElement
<1>2. ASSUME NEW a \in S, NEW b \in S
      PROVE  (a < b <=> Rank(S, a) < Rank(S, b)) /\ (a = b <=> Rank(S, a) = Rank(S, b))
  BY RankOrder
<1>3. Nth(S, k) < Nth(S, l) <=> Rank(S, Nth(S, k)) < Rank(S, Nth(S, l))
  BY <1>1, <1>2
<1>4. Nth(S, k) = Nth(S, l) <=> Rank(S, Nth(S, k)) = Rank(S, Nth(S, l))
  BY <1>1, <1>2
<1> QED
  BY <1>1, <1>3, <1>4

(* The entries at places of a list are a list of just those entries, and no   *)
(* entry is there twice if none was in the list.                             *)
LEMMA AtPlacesOfList ==
    ASSUME NEW T, NEW list \in Seq(T), NEW S \in SUBSET (DOMAIN list)
    PROVE  /\ AtPlaces(list, S) \in Seq(T)
           /\ Len(AtPlaces(list, S)) = Cardinality(S)
           /\ ToSet(AtPlaces(list, S)) = {list[i] : i \in S}
           /\ IsInjective(list) => IsInjective(AtPlaces(list, S))
<1> DEFINE c == Cardinality(S)
           A == AtPlaces(list, S)
<1>1. DOMAIN list = 1 .. Len(list) /\ Len(list) \in Nat
  OBVIOUS
<1>2. S \in SUBSET Nat /\ IsFiniteSet(S) /\ c \in Nat
  <2>1. IsFiniteSet(1 .. Len(list)) /\ S \in SUBSET (1 .. Len(list))
    BY <1>1, FS_Interval
  <2>2. IsFiniteSet(S)
    BY <2>1, FS_Subset
  <2> QED
    BY <2>1, <2>2, FS_CardinalityType
<1>3. A = [k \in 1 .. c |-> list[Nth(S, k)]]
  BY DEF AtPlaces
<1>4. \A k \in 1 .. c : Nth(S, k) \in S /\ list[Nth(S, k)] \in T
  BY <1>1, <1>2, NthElement
<1> HIDE DEF A, c
<1>5. A \in Seq(T) /\ Len(A) = c /\ DOMAIN A = 1 .. c
  BY <1>2, <1>3, <1>4
<1>6. ToSet(A) \subseteq {list[i] : i \in S}
  BY <1>3, <1>4, <1>5 DEF ToSet
<1>7. {list[i] : i \in S} \subseteq ToSet(A)
  <2> SUFFICES ASSUME NEW i \in S PROVE list[i] \in ToSet(A)
    OBVIOUS
  <2>1. Rank(S, i) \in 1 .. c /\ Nth(S, Rank(S, i)) = i
    BY <1>2, RankOrder, NthOfRank DEF c
  <2> QED
    BY <1>3, <1>5, <2>1 DEF ToSet
<1>8. IsInjective(list) => IsInjective(A)
  <2> SUFFICES ASSUME IsInjective(list), NEW k \in 1 .. c, NEW l \in 1 .. c, A[k] = A[l]
               PROVE  k = l
    BY <1>5 DEF IsInjective
  <2>1. list[Nth(S, k)] = list[Nth(S, l)]
    BY <1>3
  <2>2. Nth(S, k) = Nth(S, l)
    BY <1>4, <2>1 DEF IsInjective
  <2> QED
    BY <1>2, <2>2, NthOrder DEF c
<1> QED
  BY <1>5, <1>6, <1>7, <1>8 DEF A, c

(* Keep leaves the entries that are in P, no other, and no new order. *)
LEMMA KeepOfList ==
    ASSUME NEW T, NEW list \in Seq(T), NEW P
    PROVE  /\ Keep(list, P) \in Seq(T)
           /\ ToSet(Keep(list, P)) = ToSet(list) \cap P
           /\ IsInjective(list) => IsInjective(Keep(list, P))
<1> DEFINE S == {i \in DOMAIN list : list[i] \in P}
<1>1. S \in SUBSET (DOMAIN list)
  OBVIOUS
<1>2. {list[i] : i \in S} = ToSet(list) \cap P
  BY DEF ToSet
<1>3. Keep(list, P) = AtPlaces(list, S)
  BY DEF Keep
<1> HIDE DEF S
<1> QED
  BY <1>1, <1>2, <1>3, AtPlacesOfList

(* The entries of a concatenation, of a sequence with one more in front or at *)
(* the end, and of a tail.                                                   *)
LEMMA EntriesOfConcat ==
    ASSUME NEW T, NEW a \in Seq(T), NEW b \in Seq(T)
    PROVE  /\ a \o b \in Seq(T)
           /\ ToSet(a \o b) = ToSet(a) \cup ToSet(b)
           /\ IsInjective(a \o b) <=> /\ IsInjective(a) /\ IsInjective(b)
                                      /\ ToSet(a) \cap ToSet(b) = {}
<1>1. /\ a \o b \in Seq(T) /\ DOMAIN (a \o b) = 1 .. Len(a) + Len(b)
      /\ DOMAIN a = 1 .. Len(a) /\ DOMAIN b = 1 .. Len(b)
      /\ Len(a) \in Nat /\ Len(b) \in Nat
  BY ConcatProperties
<1>2. \A i \in 1 .. Len(a) : (a \o b)[i] = a[i]
  BY ConcatProperties
<1>3. \A i \in 1 .. Len(b) : (a \o b)[Len(a) + i] = b[i]
  BY ConcatProperties
<1>4. \A i \in 1 .. Len(a) + Len(b) : i \in 1 .. Len(a) \/ \E j \in 1 .. Len(b) : i = Len(a) + j
  <2> SUFFICES ASSUME NEW i \in 1 .. Len(a) + Len(b), i \notin 1 .. Len(a)
               PROVE  \E j \in 1 .. Len(b) : i = Len(a) + j
    OBVIOUS
  <2> WITNESS i - Len(a) \in 1 .. Len(b)
  <2> QED
    BY <1>1
<1> DEFINE c == a \o b
<1> HIDE DEF c
<1>5. ToSet(c) = ToSet(a) \cup ToSet(b)
  <2>1. ToSet(c) \subseteq ToSet(a) \cup ToSet(b)
    BY <1>1, <1>2, <1>3, <1>4, SMTT(60) DEF ToSet, c
  <2>2. ToSet(a) \subseteq ToSet(c)
    BY <1>1, <1>2 DEF ToSet, c
  <2>3. ToSet(b) \subseteq ToSet(c)
    <3>1. \A i \in 1 .. Len(b) : Len(a) + i \in 1 .. Len(a) + Len(b)
      BY <1>1
    <3> QED
      BY <1>1, <1>3, <3>1 DEF ToSet, c
  <2> QED
    BY <2>1, <2>2, <2>3
<1>6. ASSUME IsInjective(c)
      PROVE  IsInjective(a) /\ IsInjective(b) /\ ToSet(a) \cap ToSet(b) = {}
  <2>1. IsInjective(a)
    BY <1>1, <1>2, <1>6 DEF IsInjective, c
  <2>2. \A i \in 1 .. Len(b) : Len(a) + i \in 1 .. Len(a) + Len(b)
    BY <1>1
  <2>3. \A i, j \in 1 .. Len(b) : b[i] = b[j] => Len(a) + i = Len(a) + j
    BY <1>1, <1>3, <1>6, <2>2 DEF IsInjective, c
  <2>4. IsInjective(b)
    BY <1>1, <2>3 DEF IsInjective
  <2>5. \A i \in 1 .. Len(a), j \in 1 .. Len(b) : a[i] # b[j]
    <3> SUFFICES ASSUME NEW i \in 1 .. Len(a), NEW j \in 1 .. Len(b), a[i] = b[j]
                 PROVE  FALSE
      OBVIOUS
    <3>1. i \in 1 .. Len(a) + Len(b) /\ i # Len(a) + j
      BY <1>1
    <3> QED
      BY <1>1, <1>2, <1>3, <1>6, <2>2, <3>1 DEF IsInjective, c
  <2> QED
    BY <1>1, <2>1, <2>4, <2>5 DEF ToSet
<1>7. ASSUME IsInjective(a), IsInjective(b), ToSet(a) \cap ToSet(b) = {}
      PROVE  IsInjective(c)
  <2> SUFFICES ASSUME NEW i \in 1 .. Len(a) + Len(b), NEW j \in 1 .. Len(a) + Len(b), c[i] = c[j]
               PROVE  i = j
    BY <1>1 DEF IsInjective, c
  <2>0. \A k \in 1 .. Len(a), m \in 1 .. Len(b) : a[k] # b[m]
    BY <1>1, <1>7 DEF ToSet
  <2>1. CASE i \in 1 .. Len(a) /\ j \in 1 .. Len(a)
    BY <1>1, <1>2, <1>7, <2>1 DEF IsInjective, c
  <2>2. CASE i \in 1 .. Len(a) /\ j \notin 1 .. Len(a)
    BY <1>2, <1>3, <1>4, <2>0, <2>2 DEF c
  <2>3. CASE i \notin 1 .. Len(a) /\ j \in 1 .. Len(a)
    BY <1>2, <1>3, <1>4, <2>0, <2>3 DEF c
  <2>4. CASE i \notin 1 .. Len(a) /\ j \notin 1 .. Len(a)
    <3>1. PICK k \in 1 .. Len(b) : i = Len(a) + k
      BY <1>4, <2>4
    <3>2. PICK m \in 1 .. Len(b) : j = Len(a) + m
      BY <1>4, <2>4
    <3>3. b[k] = b[m]
      BY <1>3, <3>1, <3>2 DEF c
    <3> QED
      BY <1>1, <1>7, <3>1, <3>2, <3>3 DEF IsInjective
  <2> QED
    BY <2>1, <2>2, <2>3, <2>4
<1> QED
  BY <1>1, <1>5, <1>6, <1>7 DEF c

LEMMA EntriesOfSingleton ==
    ASSUME NEW T, NEW x \in T
    PROVE  <<x>> \in Seq(T) /\ ToSet(<<x>>) = {x} /\ IsInjective(<<x>>)
<1>1. <<x>> \in Seq(T) /\ DOMAIN <<x>> = 1 .. 1 /\ <<x>>[1] = x
  OBVIOUS
<1> QED
  BY <1>1 DEF ToSet, IsInjective

LEMMA EntriesOfAppend ==
    ASSUME NEW T, NEW a \in Seq(T), NEW x \in T
    PROVE  Append(a, x) \in Seq(T) /\ ToSet(Append(a, x)) = ToSet(a) \cup {x}
<1> DEFINE w == <<x>>
<1>1. Append(a, x) = a \o w
  OBVIOUS
<1>2. w \in Seq(T) /\ ToSet(w) = {x}
  BY EntriesOfSingleton
<1> HIDE DEF w
<1> QED
  BY <1>1, <1>2, EntriesOfConcat

LEMMA EntriesOfSubSeq ==
    ASSUME NEW T, NEW a \in Seq(T), NEW m \in Nat \ {0}, NEW n \in Nat, n <= Len(a)
    PROVE  SubSeq(a, m, n) \in Seq(T) /\ ToSet(SubSeq(a, m, n)) \subseteq ToSet(a)
<1>1. \A i \in m .. n : i \in DOMAIN a /\ a[i] \in T
  OBVIOUS
<1> DEFINE s == SubSeq(a, m, n)
<1>2. s \in Seq(T) /\ Len(s) = (IF m <= n THEN n - m + 1 ELSE 0)
      /\ \A i \in 1 .. n - m + 1 : s[i] = a[m + i - 1]
  BY <1>1, SubSeqProperties
<1>3. ASSUME NEW i \in DOMAIN s PROVE s[i] \in ToSet(a)
  <2>1. i \in 1 .. n - m + 1 /\ m + i - 1 \in m .. n
    BY <1>2
  <2> QED
    BY <1>1, <1>2, <2>1 DEF ToSet
<1> HIDE DEF s
<1>4. ToSet(s) \subseteq ToSet(a)
  BY <1>3 DEF ToSet
<1> QED
  BY <1>2, <1>4 DEF s

LEMMA EntriesOfTail ==
    ASSUME NEW T, NEW a \in Seq(T), a # <<>>
    PROVE  /\ Head(a) \in ToSet(a) /\ Head(a) \in T
           /\ Tail(a) \in Seq(T) /\ ToSet(Tail(a)) \subseteq ToSet(a)
<1>1. Len(a) \in Nat \ {0} /\ Head(a) = a[1] /\ 1 \in DOMAIN a
  OBVIOUS
<1>2. Tail(a) = SubSeq(a, 2, Len(a))
  BY TailIsSubSeq
<1> QED
  BY <1>1, <1>2, EntriesOfSubSeq DEF ToSet

=============================================================================
