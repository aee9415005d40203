----------------------------- MODULE Collections ----------------------------
(***************************************************************************)
(* Facts about numbers, finite sets and sequences that the proofs of       *)
(* several components use. The library's induction theorems take the       *)
(* predicate as a parameter, which the provers cannot instantiate; here     *)
(* induction is stated of one set, and follows from the fact that a set of *)
(* naturals has a least element. With it there are folds, and orders.      *)
(***************************************************************************)
EXTENDS Integers, SequencesExt, FiniteSetsExt, FiniteSetTheorems, WellFoundedInduction, TLAPS

(* Numbers. *)

(* The order of the naturals, as a relation. *)
Less == {p \in Nat \X Nat : p[1] < p[2]}

(* A set of naturals has a least element. *)
LEMMA LeastOf ==
    ASSUME NEW S \in SUBSET Nat, S # {}
    PROVE  \E m \in S : \A k \in S : m <= k
  <1>1. IsWellFoundedOn(Less, Nat)
    BY NatLessThanWellFounded DEF OpToRel, Less
  <1>2. PICK m \in S : \A k \in S : <<k, m>> \notin Less
    BY <1>1, WFMin
  <1>3. ASSUME NEW k \in S, k < m PROVE FALSE
    <2>1. <<k, m>> \in Nat \X Nat /\ <<k, m>>[1] < <<k, m>>[2]
      BY <1>3
    <2>2. <<k, m>> \in Less
      BY <2>1 DEF Less
    <2>3. QED
      BY <1>2, <2>2
  <1>4. QED
    BY <1>3

(* What induction over the naturals comes to for one set: it is all of them *)
(* when it has every number whose predecessor it has.                       *)
LEMMA AllNumbers ==
    ASSUME NEW N \in SUBSET Nat, 0 \in N, \A n \in N : n + 1 \in N
    PROVE  N = Nat
  <1> SUFFICES ASSUME Nat \ N # {} PROVE FALSE
    OBVIOUS
  <1>1. PICK m \in Nat \ N : \A k \in Nat \ N : m <= k
    BY LeastOf
  <1>2. m # 0 /\ m - 1 \in Nat /\ m - 1 \notin Nat \ N
    BY <1>1
  <1>3. QED
    BY <1>2

(* A set of numbers up to a bound has a greatest one. *)
LEMMA GreatestOf ==
    ASSUME NEW n \in Nat, NEW S \in SUBSET (0..n), S # {}
    PROVE  \E m \in S : \A k \in S : k <= m
  <1> DEFINE T == {n - s : s \in S}
  <1>1. T \in SUBSET Nat /\ T # {}
    <2>1. \A s \in S : n - s \in Nat
      OBVIOUS
    <2>2. PICK s \in S : TRUE
      OBVIOUS
    <2>3. n - s \in T
      BY <2>2
    <2>4. QED
      BY <2>1, <2>3
  <1>2. PICK l \in T : \A k \in T : l <= k
    BY <1>1, LeastOf
  <1>3. PICK m \in S : l = n - m
    OBVIOUS
  <1>4. \A k \in S : k <= m
    BY <1>2, <1>3
  <1>5. QED
    BY <1>4

(* A set of naturals that has a bound has a greatest element, which Max is. *)
LEMMA MaxOf ==
    ASSUME NEW n \in Nat, NEW S \in SUBSET (1..n), S # {}
    PROVE  Max(S) \in S /\ \A k \in S : k <= Max(S)
  <1> DEFINE B == {m \in Nat : \A k \in S : k <= m}
  <1>1. n \in B
    OBVIOUS
  <1>2. PICK m \in B : \A k \in B : m <= k
    BY <1>1, LeastOf
  <1>3. m \in S
    <2> SUFFICES ASSUME m \notin S PROVE FALSE
      OBVIOUS
    <2>1. PICK k \in S : TRUE
      OBVIOUS
    <2>2. m \in Nat /\ k <= m /\ k \in Nat /\ k >= 1
      OBVIOUS
    <2>3. m - 1 \in Nat /\ \A j \in S : j <= m - 1
      BY <2>2
    <2>4. m <= m - 1
      BY <1>2, <2>3
    <2>5. QED
      BY <2>2, <2>4
  <1>4. \E x \in S : \A y \in S : x >= y
    BY <1>3
  <1>5. QED
    BY <1>4 DEF Max

(* The places of a list, counted from zero or from one, are finitely many.   *)
LEMMA SegmentFinite ==
    \A k \in Nat : IsFiniteSet(0..k) /\ IsFiniteSet(1..k)
  <1> TAKE k \in Nat
  <1>1. 0 \in Int /\ 1 \in Int /\ k \in Int
    OBVIOUS
  <1>2. IsFiniteSet(0..k)
    BY <1>1, FS_Interval
  <1>3. IsFiniteSet(1..k)
    BY <1>1, FS_Interval
  <1>4. QED
    BY <1>2, <1>3

(* Two finite sets together are finite.                                     *)
LEMMA UnionFinite ==
    \A A, B : IsFiniteSet(A) /\ IsFiniteSet(B) => IsFiniteSet(A \union B)
  BY FS_Union

(* Counting the elements of a set of numbers up to each, every number of    *)
(* elements is reached, at one of them.                                     *)
LEMMA CountReaches ==
    ASSUME NEW K \in Nat, NEW F \in SUBSET (1..K), NEW n \in 1..Cardinality(F)
    PROVE  \E m \in F : Cardinality(F \intersect (1..m)) = n
  <1> DEFINE upto(m) == F \intersect (1..m)
             B == {m \in Nat : n <= Cardinality(upto(m))}
  <1>1. IsFiniteSet(F)
    <2>1. IsFiniteSet(1..K)
      BY SegmentFinite
    <2>2. QED
      BY <2>1, FS_Subset
  <1>2. Cardinality(F) \in Nat /\ n \in Nat /\ n >= 1 /\ n <= Cardinality(F)
    BY <1>1, FS_CardinalityType
  <1>3. \A m \in Nat : IsFiniteSet(upto(m)) /\ Cardinality(upto(m)) \in Nat
    BY <1>1, FS_Subset, FS_CardinalityType
  <1>4. upto(K) = F
    OBVIOUS
  <1>5. upto(0) = {}
    OBVIOUS
  <1>6. \A m \in Nat \ {0} : upto(m) = upto(m - 1) \union ({m} \intersect F)
    OBVIOUS
  <1> HIDE DEF upto
  <1>7. K \in B
    BY <1>2, <1>4
  <1>8. PICK m \in B : \A k \in B : m <= k
    <2>1. B \in SUBSET Nat /\ B # {}
      BY <1>7
    <2> HIDE DEF B
    <2>2. QED
      BY <2>1, LeastOf
  <1>9. m # 0
    <2>1. Cardinality(upto(0)) = 0
      BY <1>5, FS_EmptySet
    <2>2. QED
      BY <1>2, <2>1
  <1>10. m - 1 \in Nat /\ Cardinality(upto(m - 1)) < n
    <2>1. m \in Nat /\ m - 1 \in Nat /\ m - 1 \notin B
      BY <1>8, <1>9
    <2>2. QED
      BY <1>2, <1>3, <2>1
  <1>11. m \in F
    <2> SUFFICES ASSUME m \notin F PROVE FALSE
      OBVIOUS
    <2>1. upto(m) = upto(m - 1)
      BY <1>6, <1>9
    <2>2. QED
      BY <1>2, <1>3, <1>10, <2>1
  <1>12. upto(m) = upto(m - 1) \union {m}
    BY <1>6, <1>9, <1>11
  <1>13. Cardinality(upto(m)) <= Cardinality(upto(m - 1)) + 1
    <2>1. \/ Cardinality(upto(m)) = Cardinality(upto(m - 1))
          \/ Cardinality(upto(m)) = Cardinality(upto(m - 1)) + 1
      BY <1>3, <1>10, <1>12, FS_AddElement
    <2>2. QED
      BY <1>3, <1>10, <2>1
  <1>14. Cardinality(upto(m)) = n
    BY <1>2, <1>3, <1>10, <1>13
  <1>15. QED
    BY <1>11, <1>14 DEF upto

-----------------------------------------------------------------------------
(* Finite sets. *)

(* An element of s. *)
Some(s) == CHOOSE x \in s : TRUE

(* The subsets of S with at most n elements. *)
Smaller(S, n) == {s \in SUBSET S : Cardinality(s) <= n}

(* A set of subsets that holds every set from which one element may be      *)
(* taken, once it holds the rest, holds the whole.                          *)
LEMMA HoldsWhole ==
    ASSUME NEW S, IsFiniteSet(S), NEW Q, {} \in Q,
           \A s \in SUBSET S : s # {} /\ s \ {Some(s)} \in Q => s \in Q
    PROVE  S \in Q
  <1> DEFINE N == {n \in Nat : \A s \in Smaller(S, n) : s \in Q}
  <1>1. \A s \in SUBSET S : IsFiniteSet(s) /\ Cardinality(s) \in Nat
    BY FS_Subset, FS_CardinalityType
  <1>2. \A s \in SUBSET S : s # {} => Some(s) \in s /\ Cardinality(s \ {Some(s)}) = Cardinality(s) - 1
    BY <1>1, FS_RemoveElement DEF Some
  <1>3. 0 \in N
    <2>1. \A s \in Smaller(S, 0) : s = {}
      BY <1>1, FS_EmptySet DEF Smaller
    <2>2. QED
      BY <2>1
  <1>4. ASSUME NEW n \in N PROVE n + 1 \in N
    <2>1. ASSUME NEW s \in Smaller(S, n + 1), s # {} PROVE s \ {Some(s)} \in Smaller(S, n)
      BY <1>1, <1>2, <2>1 DEF Smaller
    <2>2. \A s \in Smaller(S, n + 1) : s \in Q
      BY <2>1 DEF Smaller
    <2>3. QED
      BY <2>2
  <1>5. N = Nat
    BY <1>3, <1>4, AllNumbers
  <1>6. Cardinality(S) \in N /\ S \in Smaller(S, Cardinality(S))
    BY <1>1, <1>5 DEF Smaller
  <1>7. QED
    BY <1>6

-----------------------------------------------------------------------------
(* Sequences. *)

(* Elements of a sequence. *)
LEMMA ElementOf == ASSUME NEW R, NEW s \in Seq(R), NEW n \in DOMAIN s PROVE s[n] \in R
  OBVIOUS

(* The ends of a sequence. *)
LEMMA HeadAndTail ==
    ASSUME NEW R, NEW s \in Seq(R), s # <<>>
    PROVE  /\ Head(s) \in R /\ Head(s) = s[1] /\ 1 \in DOMAIN s
           /\ Tail(s) \in Seq(R) /\ Len(Tail(s)) = Len(s) - 1
           /\ \A n \in DOMAIN Tail(s) : n + 1 \in DOMAIN s /\ Tail(s)[n] = s[n + 1]
           /\ \A n \in Nat : n + 1 \in DOMAIN s /\ n # 0 => n \in DOMAIN Tail(s)
  OBVIOUS

(* What an append does to a sequence. *)
LEMMA Appended ==
    ASSUME NEW R, NEW s \in Seq(R), NEW e \in R
    PROVE  /\ Append(s, e) \in Seq(R)
           /\ Len(Append(s, e)) = Len(s) + 1
           /\ DOMAIN Append(s, e) = DOMAIN s \union {Len(s) + 1}
           /\ \A n \in DOMAIN s : Append(s, e)[n] = s[n] /\ n # Len(s) + 1
           /\ Append(s, e)[Len(s) + 1] = e
  OBVIOUS

-----------------------------------------------------------------------------
(* Folds. *)

(* g is what a fold over the first n elements of a sequence comes to: at    *)
(* first base, and then what step makes of it and the last element.         *)
Folds(g, base, step, n) ==
    g = [s \in SUBSET (1..n) |-> IF s = {} THEN base ELSE step[<<g[s \ {Max(s)}], Max(s)>>]]

(* There is a fold of each length, and it stays among the values that the   *)
(* steps stay among.                                                        *)
LEMMA FoldExists ==
    ASSUME NEW n \in Nat, NEW V, NEW base \in V, NEW step,
           \A v \in V, i \in 1..n : step[<<v, i>>] \in V
    PROVE  \E g \in [SUBSET (1..n) -> V] : Folds(g, base, step, n)
  <1> DEFINE N == {k \in Nat : k <= n => \E g \in [SUBSET (1..k) -> V] : Folds(g, base, step, k)}
  <1>1. 0 \in N
    <2> DEFINE g == [s \in SUBSET (1..0) |-> base]
    <2>1. \A s \in SUBSET (1..0) : s = {}
      OBVIOUS
    <2>2. g \in [SUBSET (1..0) -> V]
      OBVIOUS
    <2>3. Folds(g, base, step, 0)
      BY <2>1 DEF Folds
    <2>4. QED
      BY <2>2, <2>3
  <1>2. ASSUME NEW k \in N PROVE k + 1 \in N
    <2> SUFFICES ASSUME k + 1 <= n
                 PROVE  \E g \in [SUBSET (1..(k + 1)) -> V] : Folds(g, base, step, k + 1)
      <3>1. k + 1 \in Nat
        OBVIOUS
      <3>2. QED
        BY <3>1
    <2>1. k \in Nat /\ k <= n
      OBVIOUS
    <2>2. PICK g \in [SUBSET (1..k) -> V] : Folds(g, base, step, k)
      BY <2>1
    <2> DEFINE h == [s \in SUBSET (1..(k + 1)) |->
                        IF s = {} THEN base ELSE step[<<g[s \ {Max(s)}], Max(s)>>]]
    <2>3. ASSUME NEW s \in SUBSET (1..(k + 1)), s # {}
          PROVE  s \ {Max(s)} \in SUBSET (1..k) /\ Max(s) \in 1..n
      <3>1. Max(s) \in s /\ \A j \in s : j <= Max(s)
        BY <2>1, <2>3, MaxOf
      <3>2. ASSUME NEW j \in s, j # Max(s) PROVE j \in 1..k
        <4>1. j \in 1..(k + 1) /\ Max(s) \in 1..(k + 1)
          BY <3>1
        <4>2. j <= Max(s)
          BY <3>1
        <4>3. QED
          BY <2>1, <3>2, <4>1, <4>2
      <3>3. s \ {Max(s)} \in SUBSET (1..k)
        BY <3>2
      <3>4. Max(s) \in 1..n
        <4>1. Max(s) \in 1..(k + 1)
          BY <3>1
        <4>2. k + 1 <= n
          OBVIOUS
        <4>3. QED
          BY <2>1, <4>1, <4>2
      <3>5. QED
        BY <3>3, <3>4
    <2>4. h \in [SUBSET (1..(k + 1)) -> V]
      BY <2>3
    <2>5. \A s \in SUBSET (1..k) : s \in SUBSET (1..(k + 1)) /\ h[s] = g[s]
      <3>1. 1..k \subseteq 1..(k + 1)
        BY <2>1
      <3>2. QED
        BY <2>2, <3>1 DEF Folds
    <2>6. h = [s \in SUBSET (1..(k + 1)) |->
                  IF s = {} THEN base ELSE step[<<h[s \ {Max(s)}], Max(s)>>]]
      BY <2>3, <2>5
    <2>7. QED
      BY <2>4, <2>6 DEF Folds
  <1>3. N = Nat
    <2> HIDE DEF N
    <2>1. N \in SUBSET Nat
      BY DEF N
    <2>2. QED
      BY <1>1, <1>2, <2>1, AllNumbers
  <1>4. n \in N
    <2> HIDE DEF N
    <2>1. QED
      BY <1>3
  <1>5. n <= n
    OBVIOUS
  <1>6. QED
    BY <1>4, <1>5

(* What holds at first and after each step holds of the whole fold.         *)
LEMMA FoldHolds ==
    ASSUME NEW n \in Nat, NEW V, NEW g, g[{}] \in V,
           \A k \in 1..n : g[1..(k - 1)] \in V => g[1..k] \in V
    PROVE  g[1..n] \in V
  <1> DEFINE N == {k \in Nat : k <= n => g[1..k] \in V}
  <1>1. 0 \in N
    <2>1. 1..0 = {}
      OBVIOUS
    <2>2. QED
      BY <2>1
  <1>2. ASSUME NEW k \in N PROVE k + 1 \in N
    <2>1. SUFFICES ASSUME k + 1 <= n PROVE g[1..(k + 1)] \in V
      OBVIOUS
    <2>2. k \in Nat /\ k + 1 \in 1..n /\ (k + 1) - 1 = k /\ g[1..k] \in V
      BY <2>1
    <2>3. g[1..((k + 1) - 1)] \in V => g[1..(k + 1)] \in V
      BY <2>2
    <2>4. QED
      BY <2>2, <2>3
  <1>3. N = Nat
    <2> HIDE DEF N
    <2>1. N \in SUBSET Nat
      BY DEF N
    <2>2. QED
      BY <1>1, <1>2, <2>1, AllNumbers
  <1>4. QED
    BY <1>3

(* The last element of a first part of a sequence.                          *)
LEMMA LastOfFirst ==
    ASSUME NEW n \in Nat, NEW k \in 1..n
    PROVE  /\ 1..k \in SUBSET (1..n) /\ 1..k # {} /\ Max(1..k) = k
           /\ (1..k) \ {k} = 1..(k - 1)
  <1>1. 1..k \in SUBSET (1..n) /\ k \in 1..k /\ 1..k # {}
    OBVIOUS
  <1>2. Max(1..k) \in 1..k /\ \A j \in 1..k : j <= Max(1..k)
    BY <1>1, MaxOf
  <1>3. Max(1..k) = k
    BY <1>1, <1>2
  <1>4. (1..k) \ {k} = 1..(k - 1)
    OBVIOUS
  <1>5. QED
    BY <1>1, <1>3, <1>4

-----------------------------------------------------------------------------
(* Orders. *)

(* R is a strict total order of S.                                          *)
Orders(R, S) ==
    /\ R \in SUBSET (S \X S)
    /\ \A x \in S : <<x, x>> \notin R
    /\ \A x, y, z \in S : <<x, y>> \in R /\ <<y, z>> \in R => <<x, z>> \in R
    /\ \A x, y \in S : x # y => <<x, y>> \in R \/ <<y, x>> \in R

(* What of S comes before i.                                                *)
Preceding(R, S, i) == {j \in S : <<j, i>> \in R}

(* A finite set with an order has an element at each place: of the n-th,    *)
(* n - 1 others come first.                                                 *)
LEMMA OrderedLists ==
    ASSUME NEW S, IsFiniteSet(S), NEW R, Orders(R, S), NEW n \in 1..Cardinality(S)
    PROVE  \E i \in S : Cardinality(Preceding(R, S, i)) = n - 1
  <1> DEFINE first(i) == {j \in S : <<j, i>> \in R}
             N == Cardinality(S)
             rank == [i \in S |-> Cardinality(first(i))]
  <1>1. N \in Nat /\ n \in 1..N
    BY FS_CardinalityType
  <1>2. ASSUME NEW i \in S
        PROVE  /\ IsFiniteSet(first(i)) /\ Cardinality(first(i)) \in Nat
               /\ Cardinality(first(i)) \in 0..(N - 1)
    <2>1. first(i) \subseteq S \ {i}
      BY DEF Orders
    <2>2. IsFiniteSet(S \ {i}) /\ Cardinality(S \ {i}) = N - 1
      BY FS_RemoveElement
    <2>3. IsFiniteSet(first(i)) /\ Cardinality(first(i)) <= Cardinality(S \ {i})
      BY <2>1, <2>2, FS_Subset
    <2>4. Cardinality(first(i)) \in Nat
      BY <2>3, FS_CardinalityType
    <2>5. QED
      BY <1>1, <2>2, <2>3, <2>4
  <1>3. ASSUME NEW i \in S, NEW k \in S, <<i, k>> \in R
        PROVE  rank[i] < rank[k]
    <2>1. first(i) \union {i} \subseteq first(k)
      BY <1>3 DEF Orders
    <2>2. i \notin first(i)
      BY DEF Orders
    <2>3. Cardinality(first(i) \union {i}) = Cardinality(first(i)) + 1
      BY <1>2, <2>2, FS_AddElement
    <2>4. Cardinality(first(i) \union {i}) <= Cardinality(first(k))
      BY <1>2, <2>1, FS_Subset
    <2>5. Cardinality(first(i)) \in Nat /\ Cardinality(first(k)) \in Nat
      BY <1>2
    <2>6. QED
      BY <2>3, <2>4, <2>5
  <1> HIDE DEF first
  <1>4. rank \in Injection(S, 0..(N - 1))
    <2>1. rank \in [S -> 0..(N - 1)]
      BY <1>2
    <2>2. ASSUME NEW i \in S, NEW k \in S, rank[i] = rank[k] PROVE i = k
      <3>1. rank[i] \in Nat /\ rank[k] \in Nat
        BY <1>1, <2>1
      <3>2. <<i, k>> \notin R /\ <<k, i>> \notin R
        BY <1>3, <2>2, <3>1
      <3>3. QED
        BY <3>2 DEF Orders
    <2> HIDE DEF rank
    <2>3. QED
      BY <2>1, <2>2 DEF Injection, IsInjective
  <1>5. IsFiniteSet(0..(N - 1)) /\ Cardinality(0..(N - 1)) = N
    <2> HIDE DEF N
    <2>1. N - 1 \in Int /\ 0 \in Int /\ ~(0 > N - 1) /\ (N - 1) - 0 + 1 = N
      BY <1>1
    <2>2. QED
      BY <2>1, FS_Interval
  <1>6. rank \in Surjection(S, 0..(N - 1))
    BY <1>4, <1>5, FS_Injection
  <1>7. n - 1 \in 0..(N - 1)
    BY <1>1
  <1>8. PICK i \in S : rank[i] = n - 1
    BY <1>6, <1>7 DEF Surjection
  <1>9. QED
    BY <1>8 DEF first, Preceding

=============================================================================
