---------------------------- MODULE RetrievalProofs ----------------------------
(***************************************************************************)
(* Proofs about MarkdownChunker and KeywordRetrieval: a document is cut    *)
(* into chunks that keep its text, fit, and stand under their headings,    *)
(* and a Context holds the best of the stored chunks, for any document,    *)
(* any stored chunks and any limits.                                       *)
(*                                                                         *)
(* What the model computes with folds is turned into runs first: functions *)
(* f over 0..n of which f[0] is the start and f[n + 1] one step from f[n]. *)
(* Invariants of the runs are then proved by induction, which rests on the *)
(* least element of a set of natural numbers.                              *)
(***************************************************************************)
EXTENDS MCRetrieval, FiniteSetTheorems, SequenceTheorems, WellFoundedInduction, TLAPS


-----------------------------------------------------------------------------
(* Sets in order, and the rank of an element *)

\* R, a set of pairs, orders S totally and strictly.
IsStrictOrderOn(R, S) ==
  /\ \A x \in S : <<x, x>> \notin R
  /\ \A x, y, z \in S : <<x, y>> \in R /\ <<y, z>> \in R => <<x, z>> \in R
  /\ \A x, y \in S : x # y => <<x, y>> \in R \/ <<y, x>> \in R

IsOrderedBy(s, R) == \A i, j \in 1..Len(s) : i < j => <<s[i], s[j]>> \in R

Below(R, S, x) == {y \in S : <<y, x>> \in R}

\* An element's place is one more than the number of elements below it.
PlacesAreRanks(s, R, S) ==
  \A k \in 1..Len(s) :
    /\ \A x : x \in Below(R, S, s[k]) <=> \E l \in 1..k - 1 : x = s[l]
    /\ Cardinality(Below(R, S, s[k])) = k - 1

\* What is lower has fewer elements below it: the set of those grows strictly.
LEMMA BelowGrows ==
  ASSUME NEW S, IsFiniteSet(S), NEW R, IsStrictOrderOn(R, S),
         NEW x \in S, NEW y \in S, <<y, x>> \in R
  PROVE  /\ Cardinality(Below(R, S, y)) \in Nat
         /\ Cardinality(Below(R, S, x)) \in Nat
         /\ Cardinality(Below(R, S, y)) < Cardinality(Below(R, S, x))
<1> DEFINE B(u) == Below(R, S, u)
<1>1. B(x) \subseteq S /\ B(y) \subseteq S
  BY DEF Below
<1>2. IsFiniteSet(B(x)) /\ IsFiniteSet(B(y))
  BY <1>1, FS_Subset
<1>3. B(y) \subseteq B(x) \ {y} /\ y \in B(x)
  BY DEF Below, IsStrictOrderOn
<1>4. /\ IsFiniteSet(B(x) \ {y})
      /\ Cardinality(B(x) \ {y}) = Cardinality(B(x)) - 1
  BY <1>2, <1>3, FS_RemoveElement
<1>5. Cardinality(B(y)) <= Cardinality(B(x) \ {y})
  BY <1>3, <1>4, FS_Subset
<1>6. Cardinality(B(x)) \in Nat /\ Cardinality(B(y)) \in Nat
  BY <1>2, FS_CardinalityType
<1> QED
  BY <1>4, <1>5, <1>6

\* An enumeration of a finite set has every element of it once.
LEMMA Enumerated ==
  ASSUME NEW S, IsFiniteSet(S), NEW s \in SetToSeqs(S)
  PROVE  /\ s \in Seq(S)
         /\ Len(s) = Cardinality(S)
         /\ \A i, j \in 1..Len(s) : i # j => s[i] # s[j]
         /\ ToSet(s) = S
<1> DEFINE n == Cardinality(S)
<1>1. n \in Nat
  BY FS_CardinalityType
<1>2. s \in [1..n -> S] /\ \A i, j \in 1..n : i # j => s[i] # s[j]
  BY DEF SetToSeqs
<1>3. s \in Seq(S) /\ Len(s) = n /\ DOMAIN s = 1..n
  BY <1>1, <1>2
<1>4. s \in Injection(1..n, S)
  BY <1>2 DEF Injection, IsInjective
<1>5. IsFiniteSet(1..n) /\ Cardinality(1..n) = n
  BY <1>1, FS_Interval
<1>6. s \in Surjection(1..n, S)
  BY <1>4, <1>5, FS_Injection
<1>7. ToSet(s) = S
  BY <1>2, <1>3, <1>6 DEF Surjection, ToSet
<1> QED
  BY <1>2, <1>3, <1>7

\* A finite set has an enumeration in any strict order, so that the choice of
\* InOrder (knowledge.py, sorted() in retrieve) is of one that exists.
LEMMA SortedEnumeration ==
  ASSUME NEW S, IsFiniteSet(S), NEW R, IsStrictOrderOn(R, S)
  PROVE  \E s \in SetToSeqs(S) : IsOrderedBy(s, R)
<1> DEFINE n == Cardinality(S)
           rank == [x \in S |-> Cardinality(Below(R, S, x)) + 1]
<1>1. n \in Nat
  BY FS_CardinalityType
<1>2. rank \in [S -> 1..n]
  <2> SUFFICES ASSUME NEW x \in S
               PROVE  Cardinality(Below(R, S, x)) + 1 \in 1..n
    OBVIOUS
  <2>1. Below(R, S, x) \subseteq S \ {x}
    BY DEF Below, IsStrictOrderOn
  <2>2. IsFiniteSet(S \ {x}) /\ Cardinality(S \ {x}) = n - 1
    BY FS_RemoveElement
  <2>3. /\ IsFiniteSet(Below(R, S, x))
        /\ Cardinality(Below(R, S, x)) <= n - 1
    BY <2>1, <2>2, FS_Subset
  <2>4. Cardinality(Below(R, S, x)) \in Nat
    BY <2>3, FS_CardinalityType
  <2> QED
    BY <1>1, <2>3, <2>4
<1>3. \A x, y \in S : <<y, x>> \in R => rank[y] < rank[x]
  BY BelowGrows
<1>4. rank \in Injection(S, 1..n)
  <2> SUFFICES ASSUME NEW x \in S, NEW y \in S, x # y
               PROVE  rank[x] # rank[y]
    BY <1>2 DEF Injection, IsInjective
  <2>1. <<x, y>> \in R \/ <<y, x>> \in R
    BY DEF IsStrictOrderOn
  <2>2. rank[x] \in Nat /\ rank[y] \in Nat
    BY <1>2
  <2> QED
    BY <1>3, <2>1, <2>2
<1>5. IsFiniteSet(1..n) /\ Cardinality(1..n) = n
  BY <1>1, FS_Interval
<1>6. rank \in Surjection(S, 1..n)
  BY <1>4, <1>5, FS_Injection
<1> HIDE DEF rank
<1>7. PICK s \in [1..n -> S] : \A k \in 1..n : rank[s[k]] = k
  <2> DEFINE t == [k \in 1..n |-> CHOOSE x \in S : rank[x] = k]
  <2>1. \A k \in 1..n : \E x \in S : rank[x] = k
    BY <1>6 DEF Surjection
  <2>2. t \in [1..n -> S] /\ \A k \in 1..n : rank[t[k]] = k
    BY <2>1
  <2> QED
    BY <2>2
<1>8. s \in SetToSeqs(S) /\ Len(s) = n
  BY <1>1, <1>7 DEF SetToSeqs
<1>9. ASSUME NEW i \in 1..n, NEW j \in 1..n, i < j
      PROVE  <<s[i], s[j]>> \in R
  <2>1. s[i] \in S /\ s[j] \in S /\ rank[s[i]] = i /\ rank[s[j]] = j
    BY <1>7
  <2>2. ~(<<s[j], s[i]>> \in R)
    BY <1>3, <1>9, <2>1
  <2> QED
    BY <1>9, <2>1, <2>2 DEF IsStrictOrderOn
<1> QED
  BY <1>8, <1>9 DEF IsOrderedBy

\* In an enumeration that is in order, places are ranks.
LEMMA PlaceIsRank ==
  ASSUME NEW S, IsFiniteSet(S), NEW R, IsStrictOrderOn(R, S),
         NEW s \in SetToSeqs(S), IsOrderedBy(s, R)
  PROVE  PlacesAreRanks(s, R, S)
<1> SUFFICES ASSUME NEW k \in 1..Len(s)
             PROVE  /\ \A x : x \in Below(R, S, s[k]) <=> \E l \in 1..k - 1 : x = s[l]
                    /\ Cardinality(Below(R, S, s[k])) = k - 1
  BY DEF PlacesAreRanks
<1> DEFINE T == {s[l] : l \in 1..k - 1}
           f == [l \in 1..k - 1 |-> s[l]]
<1>1. /\ s \in Seq(S) /\ Len(s) \in Nat /\ ToSet(s) = S
      /\ \A i, j \in 1..Len(s) : i # j => s[i] # s[j]
  BY Enumerated
<1>2. \A l \in 1..Len(s) : s[l] \in S
  BY <1>1
<1>3. T \subseteq Below(R, S, s[k])
  BY <1>1, <1>2 DEF Below, IsOrderedBy
<1>4. ASSUME NEW x \in Below(R, S, s[k])
      PROVE  x \in T
  <2>1. PICK l \in 1..Len(s) : x = s[l]
    BY <1>1 DEF Below, ToSet
  <2>2. <<s[l], s[k]>> \in R
    BY <2>1 DEF Below
  <2>3. ~(k < l)
    BY <1>2, <2>2 DEF IsStrictOrderOn, IsOrderedBy
  <2>4. l # k
    BY <1>2, <2>2 DEF IsStrictOrderOn
  <2> QED
    BY <1>1, <2>1, <2>3, <2>4
<1>5. f \in Bijection(1..k - 1, T)
  BY <1>1 DEF Bijection, Injection, Surjection, IsInjective
<1>6. IsFiniteSet(1..k - 1) /\ Cardinality(1..k - 1) = k - 1
  <2>1. k - 1 \in Nat
    BY <1>1
  <2> QED
    BY <2>1, FS_Interval
<1>7. Cardinality(T) = k - 1
  BY <1>5, <1>6, FS_Bijection DEF ExistsBijection
<1> QED
  BY <1>3, <1>4, <1>7

\* Whatever the stored chunks, the Context has of the chunks that score exactly
\* those with fewer than Limit chunks before them, none of which has the same
\* content (knowledge.py, retrieve and build_for_mission).
THEOREM BestChunks ==
  ASSUME NEW Hash,
         NEW store \in Seq([matches : Nat, preferred : BOOLEAN, hash : Hash])
  PROVE  HoldsTheBest(store)
<1> DEFINE S == Scoring(store)
           R == {p \in S \X S : RanksBefore(store, p[1], p[2])}
           best == {i \in S : /\ Cardinality(Before(store, i)) < Limit
                              /\ \A j \in Before(store, i) : store[j].hash # store[i].hash}
<1>1. DOMAIN store = 1..Len(store) /\ Len(store) \in Nat
  OBVIOUS
<1>2. \A i \in DOMAIN store : Score(store[i]) \in Nat
  <2> SUFFICES ASSUME NEW i \in DOMAIN store
               PROVE  Score(store[i]) \in Nat
    OBVIOUS
  <2>1. store[i] \in [matches : Nat, preferred : BOOLEAN, hash : Hash]
    BY <1>1, ElementOfSeq
  <2>2. store[i].matches \in Nat
    BY <2>1
  <2> QED
    BY <2>2 DEF Score
<1>3. S \subseteq 1..Len(store) /\ IsFiniteSet(S)
  <2>1. S \subseteq 1..Len(store)
    BY <1>1 DEF Scoring
  <2>2. IsFiniteSet(1..Len(store))
    BY <1>1, FS_Interval
  <2> QED
    BY <2>1, <2>2, FS_Subset
<1>4. IsStrictOrderOn(R, S)
  <2>1. \A i \in S : i \in Nat /\ Score(store[i]) \in Nat
    BY <1>1, <1>2, <1>3
  <2> HIDE DEF S
  <2> QED
    BY <2>1 DEF IsStrictOrderOn, RanksBefore
<1>5. PICK ranked \in SetToSeqs(S) :
        /\ IsOrderedBy(ranked, R)
        /\ Retrieved(store) = SubSeq(ranked, 1, IF Limit < Len(ranked) THEN Limit ELSE Len(ranked))
  <2> DEFINE r == InOrder(S, LAMBDA i, j : RanksBefore(store, i, j))
  <2>1. PICK s \in SetToSeqs(S) : IsOrderedBy(s, R)
    BY <1>3, <1>4, SortedEnumeration
  <2>2. \A i, j \in 1..Len(s) : i < j => RanksBefore(store, s[i], s[j])
    BY <2>1 DEF IsOrderedBy
  <2>3. r \in SetToSeqs(S) /\ \A i, j \in 1..Len(r) : i < j => RanksBefore(store, r[i], r[j])
    BY <2>1, <2>2 DEF InOrder, IsSorted
  <2>4. Retrieved(store) = SubSeq(r, 1, IF Limit < Len(r) THEN Limit ELSE Len(r))
    BY DEF Retrieved
  <2> HIDE DEF r
  <2>5. r \in Seq(S)
    BY <1>3, <2>3, Enumerated
  <2>6. \A i \in 1..Len(r) : r[i] \in S
    BY <2>5
  <2>7. IsOrderedBy(r, R)
    BY <2>3, <2>6 DEF IsOrderedBy
  <2> QED
    BY <2>3, <2>4, <2>7
<1> DEFINE m == IF Limit < Len(ranked) THEN Limit ELSE Len(ranked)
<1>6. /\ ranked \in Seq(S) /\ Len(ranked) \in Nat /\ ToSet(ranked) = S
      /\ \A k \in 1..Len(ranked) : ranked[k] \in S
  <2>1. ranked \in Seq(S) /\ ToSet(ranked) = S
    BY <1>3, <1>5, Enumerated
  <2> QED
    BY <2>1
<1>7. \A k \in 1..Len(ranked) :
        /\ \A x : x \in Before(store, ranked[k]) <=> \E l \in 1..k - 1 : x = ranked[l]
        /\ Cardinality(Before(store, ranked[k])) = k - 1
  <2>1. \A k \in 1..Len(ranked) : Before(store, ranked[k]) = Below(R, S, ranked[k])
    BY <1>6 DEF Before, Below
  <2>2. /\ ranked \in SetToSeqs(S) /\ IsFiniteSet(S) /\ IsStrictOrderOn(R, S)
        /\ IsOrderedBy(ranked, R)
    BY <1>3, <1>4, <1>5
  <2> HIDE DEF S, R
  <2>3. PlacesAreRanks(ranked, R, S)
    BY <2>2, PlaceIsRank
  <2> QED
    BY <2>1, <2>3 DEF PlacesAreRanks
<1>8. /\ m \in Nat /\ m <= Len(ranked) /\ m <= Limit
      /\ \A k \in 1..Len(ranked) : k <= m <=> k - 1 < Limit
  BY <1>6, LimitAssumption
<1>9. /\ DOMAIN Retrieved(store) = 1..m
      /\ \A k \in 1..m : Retrieved(store)[k] = ranked[k]
  <2>1. Retrieved(store) = SubSeq(ranked, 1, m)
    BY <1>5
  <2> HIDE DEF m
  <2> QED
    BY <1>6, <1>8, <2>1
<1>10. Unique(store, Retrieved(store)) = best
  <2> HIDE DEF S, m
  <2>1. ASSUME NEW k \in 1..m
        PROVE  /\ ranked[k] \in S /\ Cardinality(Before(store, ranked[k])) < Limit
               /\ FirstOfItsHash(store, Retrieved(store), k)
                    <=> \A j \in Before(store, ranked[k]) : store[j].hash # store[ranked[k]].hash
    <3>1. k \in 1..Len(ranked) /\ k <= m
      BY <1>6, <1>8
    <3>2. k \in 1..Len(ranked) /\ k - 1 < Limit
      BY <1>8, <3>1
    <3>3. /\ \A x : x \in Before(store, ranked[k]) <=> \E l \in 1..k - 1 : x = ranked[l]
          /\ Cardinality(Before(store, ranked[k])) = k - 1
      BY <1>7, <3>2
    <3>4. \A l \in 1..k - 1 : l \in 1..m
      BY <1>8
    <3>5. \A l \in 1..k - 1 : Retrieved(store)[l] = ranked[l]
      BY <1>9, <3>4
    <3>6. FirstOfItsHash(store, Retrieved(store), k)
            <=> \A j \in Before(store, ranked[k]) : store[j].hash # store[ranked[k]].hash
      <4> DEFINE h(j) == store[j].hash # store[ranked[k]].hash
      <4>1. FirstOfItsHash(store, Retrieved(store), k) <=> \A l \in 1..k - 1 : h(ranked[l])
        BY <1>9, <3>5 DEF FirstOfItsHash
      <4> HIDE DEF h
      <4>2. (\A l \in 1..k - 1 : h(ranked[l])) <=> \A j \in Before(store, ranked[k]) : h(j)
        BY <3>3
      <4> QED
        BY <4>1, <4>2 DEF h
    <3> QED
      BY <1>6, <3>2, <3>3, <3>6
  <2>2. ASSUME NEW i \in best
        PROVE  \E k \in 1..m : i = ranked[k]
    <3>1. PICK k \in 1..Len(ranked) : i = ranked[k]
      BY <1>6 DEF ToSet
    <3> QED
      BY <1>6, <1>7, <1>8, <3>1
  <2>3. Unique(store, Retrieved(store))
          = {ranked[k] : k \in {l \in 1..m : FirstOfItsHash(store, Retrieved(store), l)}}
    BY <1>9 DEF Unique
  <2> QED
    BY <2>1, <2>2, <2>3
<1>11. ToSet(ContextChunks(store)) = best
  <2> DEFINE Q == {p \in best \X best : p[1] < p[2]}
  <2>1. IsFiniteSet(best) /\ best \subseteq Nat
    BY <1>1, <1>3, FS_Subset
  <2> HIDE DEF best
  <2>2. IsStrictOrderOn(Q, best)
    BY <2>1 DEF IsStrictOrderOn
  <2>3. PICK s \in SetToSeqs(best) : IsOrderedBy(s, Q)
    BY <2>1, <2>2, SortedEnumeration
  <2>4. \A i, j \in 1..Len(s) : i < j => s[i] < s[j]
    BY <2>3 DEF IsOrderedBy
  <2>5. InOrder(best, <) \in SetToSeqs(best)
    BY <2>3, <2>4 DEF InOrder, IsSorted
  <2> QED
    BY <1>10, <2>1, <2>5, Enumerated DEF ContextChunks
<1> QED
  BY <1>11 DEF HoldsTheBest

-----------------------------------------------------------------------------
(* Induction over natural numbers *)

\* A set of natural numbers has a least element.
LEMMA Least ==
  ASSUME NEW S \in SUBSET Nat, S # {}
  PROVE  \E m \in S : \A k \in S : m <= k
<1> DEFINE R == {ss \in Nat \X Nat : ss[1] < ss[2]}
<1>1. R = OpToRel(<, Nat)
  BY DEF OpToRel
<1>2. IsWellFoundedOn(R, Nat)
  BY <1>1, NatLessThanWellFounded
<1>3. \A k, m \in Nat : <<k, m>> \in R <=> k < m
  OBVIOUS
<1> HIDE DEF R
<1>4. \E m \in S : \A k \in S : ~(<<k, m>> \in R)
  BY <1>2, WFMin
<1>5. PICK m \in S : \A k \in S : ~(<<k, m>> \in R)
  BY <1>4
<1>6. ASSUME NEW k \in S PROVE m <= k
  <2>1. k \in Nat /\ m \in Nat /\ ~(k < m)
    BY <1>3, <1>5
  <2> QED
    BY <2>1
<1> QED
  BY <1>6

\* A set with 0, and with n + 1 for each n it has, has every natural number.
LEMMA Induction ==
  ASSUME NEW S, 0 \in S, \A n \in Nat : n \in S => n + 1 \in S
  PROVE  Nat \subseteq S
<1> SUFFICES ASSUME Nat \ S # {} PROVE FALSE
  OBVIOUS
<1>1. PICK m \in Nat \ S : \A k \in Nat \ S : m <= k
  BY Least
<1>2. m # 0
  OBVIOUS
<1>3. m - 1 \in Nat /\ m - 1 \in S
  BY <1>1, <1>2
<1> QED
  BY <1>1, <1>3

\* The same up to N, which is how every run below is followed.
LEMMA InductionUpTo ==
  ASSUME NEW N \in Nat, NEW S, 0 \in S, \A n \in 0..N - 1 : n \in S => n + 1 \in S
  PROVE  0..N \subseteq S
<1> DEFINE T == {n \in Nat : n <= N => n \in S}
<1>1. 0 \in T
  OBVIOUS
<1>2. ASSUME NEW n \in Nat, n \in T PROVE n + 1 \in T
  BY <1>2
<1> HIDE DEF T
<1>3. Nat \subseteq T
  BY <1>1, <1>2, Induction
<1> QED
  BY <1>3 DEF T

-----------------------------------------------------------------------------
(* Folds *)

\* Max, by which the folds choose the next place, is an element of the places.
LEMMA MaxOfSubset ==
  ASSUME NEW n \in Nat, NEW t \in SUBSET (1..n), t # {}
  PROVE  Max(t) \in t /\ \A k \in t : k <= Max(t)
<1> DEFINE S == {i \in Nat : n - i \in t}
<1>1. \A k \in t : k \in 1..n /\ n - k \in Nat /\ n - (n - k) = k
  OBVIOUS
<1>2. S # {}
  <2>1. PICK k \in t : TRUE
    OBVIOUS
  <2>2. n - k \in S
    BY <1>1
  <2> QED
    BY <2>2
<1>3. PICK m \in S : \A i \in S : m <= i
  BY <1>2, Least
<1>4. ASSUME NEW k \in t
      PROVE  n - m >= k
  <2>1. n - k \in S
    BY <1>1
  <2>2. m <= n - k
    BY <1>3, <2>1
  <2> QED
    BY <1>1, <2>2
<1>5. Max(t) \in t /\ \A y \in t : Max(t) >= y
  BY <1>4 DEF Max
<1> QED
  BY <1>1, <1>5

\* h is the function that a fold over the places S of s defines recursively.
IsFoldOf(h, S, A, base, g, s) ==
  /\ h \in [SUBSET S -> A]
  /\ \A t \in SUBSET S : h[t] = IF t = {} THEN base ELSE g[<<h[t \ {Max(t)}], s[Max(t)]>>]

\* There is such a function: a fold has the value its recursion gives it.
LEMMA FoldExists ==
  ASSUME NEW A, NEW B, NEW base \in A, NEW g \in [A \X B -> A], NEW s \in Seq(B)
  PROVE  \E h : IsFoldOf(h, DOMAIN s, A, base, g, s)
<1> DEFINE Done == {n \in Nat : n <= Len(s) => \E h : IsFoldOf(h, 1..n, A, base, g, s)}
<1>1. 0 \in Done
  <2> DEFINE h == [t \in SUBSET (1..0) |-> base]
  <2>1. 1..0 = {}
    OBVIOUS
  <2>2. IsFoldOf(h, 1..0, A, base, g, s)
    BY <2>1 DEF IsFoldOf
  <2> QED
    BY <2>2
<1>2. ASSUME NEW n \in Nat, n \in Done
      PROVE  n + 1 \in Done
  <2> SUFFICES ASSUME n + 1 <= Len(s)
               PROVE  \E h : IsFoldOf(h, 1..n + 1, A, base, g, s)
    OBVIOUS
  <2>1. PICK h : IsFoldOf(h, 1..n, A, base, g, s)
    BY <1>2
  <2> DEFINE k == [t \in SUBSET (1..n + 1) |->
                     IF n + 1 \in t THEN g[<<h[t \ {n + 1}], s[n + 1]>>] ELSE h[t]]
  <2>2. \A t \in SUBSET (1..n + 1) : n + 1 \notin t => t \in SUBSET (1..n)
    OBVIOUS
  <2>3. \A t \in SUBSET (1..n + 1) : t \ {n + 1} \in SUBSET (1..n)
    OBVIOUS
  <2>4. s[n + 1] \in B
    OBVIOUS
  <2>5. h \in [SUBSET (1..n) -> A]
    BY <2>1 DEF IsFoldOf
  <2>6. ASSUME NEW t \in SUBSET (1..n + 1)
        PROVE  k[t] \in A
    <3>1. CASE n + 1 \in t
      <4>1. h[t \ {n + 1}] \in A
        BY <2>3, <2>5
      <4>2. g[<<h[t \ {n + 1}], s[n + 1]>>] \in A
        BY <2>4, <4>1
      <4> QED
        BY <3>1, <4>2
    <3>2. CASE n + 1 \notin t
      BY <2>2, <2>5, <3>2
    <3> QED
      BY <3>1, <3>2
  <2>7. k \in [SUBSET (1..n + 1) -> A]
    BY <2>6
  <2>8. ASSUME NEW t \in SUBSET (1..n + 1)
        PROVE  k[t] = IF t = {} THEN base ELSE g[<<k[t \ {Max(t)}], s[Max(t)]>>]
    <3>1. CASE n + 1 \in t
      <4>1. Max(t) \in t /\ \A j \in t : j <= Max(t)
        BY <3>1, n + 1 \in Nat, MaxOfSubset
      <4>2. Max(t) = n + 1
        <5>1. Max(t) \in 1..n + 1 /\ n + 1 <= Max(t)
          BY <3>1, <4>1
        <5> QED
          BY <5>1
      <4>3. t \ {n + 1} \in SUBSET (1..n + 1) /\ n + 1 \notin t \ {n + 1}
        OBVIOUS
      <4>4. k[t \ {n + 1}] = h[t \ {n + 1}]
        BY <4>3
      <4> QED
        BY <3>1, <4>2, <4>4
    <3>2. CASE n + 1 \notin t /\ t # {}
      <4>1. t \in SUBSET (1..n)
        BY <2>2, <3>2
      <4>2. h[t] = g[<<h[t \ {Max(t)}], s[Max(t)]>>]
        BY <2>1, <3>2, <4>1 DEF IsFoldOf
      <4>3. t \ {Max(t)} \in SUBSET (1..n + 1) /\ n + 1 \notin t \ {Max(t)}
        BY <3>2
      <4>4. k[t \ {Max(t)}] = h[t \ {Max(t)}]
        BY <4>3
      <4> QED
        BY <3>2, <4>2, <4>4
    <3>3. CASE t = {}
      <4>1. h[t] = base
        BY <2>1, <3>3 DEF IsFoldOf
      <4> QED
        BY <3>3, <4>1
    <3> QED
      BY <3>1, <3>2, <3>3
  <2> HIDE DEF k
  <2>9. IsFoldOf(k, 1..n + 1, A, base, g, s)
    BY <2>7, <2>8 DEF IsFoldOf
  <2> QED
    BY <2>9
<1> HIDE DEF Done
<1>3. Nat \subseteq Done
  BY <1>1, <1>2, Induction
<1>4. Len(s) \in Nat /\ DOMAIN s = 1..Len(s)
  OBVIOUS
<1>5. Len(s) \in Done
  BY <1>3, <1>4
<1> QED
  BY <1>4, <1>5 DEF Done

\* Of the places up to n + 1 the fold takes n + 1 last.
LEMMA MaxOfPrefix ==
  ASSUME NEW n \in Nat
  PROVE  Max(1..n + 1) = n + 1 /\ (1..n + 1) \ {n + 1} = 1..n
<1>1. Max(1..n + 1) \in 1..n + 1 /\ \A k \in 1..n + 1 : k <= Max(1..n + 1)
  BY n + 1 \in Nat, n + 1 \in 1..n + 1, MaxOfSubset
<1>2. n + 1 <= Max(1..n + 1)
  BY <1>1
<1> QED
  BY <1>1, <1>2

-----------------------------------------------------------------------------
(* The steps of the chunker as runs: sections *)

\* A line of a document: any level as a heading, any length.
Line == [level : Nat, len : Nat]

\* A section has the path of its headings and the numbers of its lines.
SectionType(doc) == [path : Seq(DOMAIN doc), body : Seq(DOMAIN doc)]

ScanType(doc) ==
  [done : Seq(SectionType(doc)), path : Seq(DOMAIN doc), body : Seq(DOMAIN doc)]

NoScan == [done |-> <<>>, path |-> <<>>, body |-> <<>>]

\* headings[: level - 1] is a prefix of the path (knowledge.py, _sections).
LEMMA KeptType ==
  ASSUME NEW S, NEW path \in Seq(S), NEW level \in Nat, level > 0
  PROVE  /\ Kept(path, level) \in Seq(S)
         /\ Len(Kept(path, level)) = IF level - 1 < Len(path) THEN level - 1 ELSE Len(path)
         /\ \A i \in 1..Len(Kept(path, level)) : Kept(path, level)[i] = path[i]
<1> DEFINE m == IF level - 1 < Len(path) THEN level - 1 ELSE Len(path)
<1>1. m \in 0..Len(path) /\ Kept(path, level) = SubSeq(path, 1, m)
  BY DEF Kept
<1> HIDE DEF m
<1>2. \A i \in 1..m : path[i] \in S
  BY <1>1
<1>3. /\ SubSeq(path, 1, m) \in Seq(S)
      /\ Len(SubSeq(path, 1, m)) = m
      /\ \A i \in 1..m : SubSeq(path, 1, m)[i] = path[i]
  BY <1>1, <1>2
<1> QED
  BY <1>1, <1>3 DEF m

\* A line keeps the type of the scan.
LEMMA ScanLineType ==
  ASSUME NEW doc \in Seq(Line), NEW scan \in ScanType(doc), NEW n \in DOMAIN doc
  PROVE  ScanLine(doc, scan, n) \in ScanType(doc)
<1>1. doc[n] \in Line
  BY ElementOfSeq
<1>2. doc[n].level \in Nat
  BY <1>1 DEF Line
<1>3. /\ scan.done \in Seq(SectionType(doc)) /\ scan.path \in Seq(DOMAIN doc)
      /\ scan.body \in Seq(DOMAIN doc)
  BY DEF ScanType
<1>4. Append(scan.body, n) \in Seq(DOMAIN doc)
  BY <1>3
<1>5. CASE doc[n].level = 0
  BY <1>4, <1>5 DEF ScanLine, ScanType
<1>6. CASE doc[n].level # 0
  <2>1. Kept(scan.path, doc[n].level) \in Seq(DOMAIN doc)
    BY <1>2, <1>3, <1>6, KeptType
  <2>2. Append(Kept(scan.path, doc[n].level), n) \in Seq(DOMAIN doc)
    BY <2>1
  <2>3. [path |-> scan.path, body |-> scan.body] \in SectionType(doc)
    BY <1>3 DEF SectionType
  <2>4. Closed(scan) \in Seq(SectionType(doc))
    BY <1>3, <2>3 DEF Closed
  <2> QED
    BY <1>6, <2>2, <2>4 DEF ScanLine, ScanType
<1> QED
  BY <1>5, <1>6

\* _sections goes through the lines one by one.
LEMMA ScanRuns ==
  ASSUME NEW doc \in Seq(Line)
  PROVE  \E f : /\ f[0] = NoScan
                /\ \A n \in 0..Len(doc) - 1 : f[n + 1] = ScanLine(doc, f[n], n + 1)
                /\ Sections(doc) = Closed(f[Len(doc)])
<1> DEFINE s == Numbers(doc)
           g == [x \in ScanType(doc) \X DOMAIN doc |-> ScanLine(doc, x[1], x[2])]
           P(h) == h = [t \in SUBSET DOMAIN s |->
                          IF t = {} THEN NoScan ELSE ScanLine(doc, h[t \ {Max(t)}], s[Max(t)])]
           c == CHOOSE h : P(h)
<1>1. DOMAIN doc = 1..Len(doc) /\ Len(doc) \in Nat
  OBVIOUS
<1>2. s \in Seq(DOMAIN doc) /\ DOMAIN s = DOMAIN doc /\ \A n \in DOMAIN doc : s[n] = n
  BY <1>1 DEF Numbers
<1>3. g \in [ScanType(doc) \X DOMAIN doc -> ScanType(doc)]
  BY ScanLineType
<1>4. NoScan \in ScanType(doc)
  BY DEF NoScan, ScanType
<1> HIDE DEF s
<1>5. PICK h : IsFoldOf(h, DOMAIN s, ScanType(doc), NoScan, g, s)
  <2> HIDE DEF g
  <2> QED
    BY <1>2, <1>3, <1>4, FoldExists
<1>6. P(h)
  <2>1. ASSUME NEW t \in SUBSET DOMAIN s, t # {}
        PROVE  h[t] = ScanLine(doc, h[t \ {Max(t)}], s[Max(t)])
    <3>1. Max(t) \in DOMAIN doc
      BY <1>1, <1>2, <2>1, MaxOfSubset
    <3>2. h[t \ {Max(t)}] \in ScanType(doc) /\ s[Max(t)] \in DOMAIN doc
      BY <1>2, <1>5, <3>1 DEF IsFoldOf
    <3> QED
      BY <1>5, <2>1, <3>2 DEF IsFoldOf
  <2>2. h[{}] = NoScan
    BY <1>5 DEF IsFoldOf
  <2>3. h = [t \in SUBSET DOMAIN s |-> h[t]]
    BY <1>5 DEF IsFoldOf
  <2> QED
    BY <2>1, <2>2, <2>3
<1>7. P(c)
  BY <1>6
<1>8. Sections(doc) = Closed(c[DOMAIN s])
  BY DEF Sections, FoldLeft, MapThenFoldSet, s, NoScan
<1> HIDE DEF c
<1> DEFINE f == [n \in 0..Len(doc) |-> c[1..n]]
<1>9. f[0] = NoScan
  <2>1. 1..0 = {}
    OBVIOUS
  <2>2. c[{}] = NoScan
    BY <1>7
  <2> QED
    BY <1>1, <2>1, <2>2
<1>10. ASSUME NEW n \in 0..Len(doc) - 1
       PROVE  f[n + 1] = ScanLine(doc, f[n], n + 1)
  <2>1. n \in Nat /\ n \in 0..Len(doc) /\ n + 1 \in 0..Len(doc)
    BY <1>1
  <2>2. 1..n + 1 \in SUBSET DOMAIN s /\ 1..n + 1 # {}
    <3>1. n + 1 \in 1..n + 1 /\ \A i \in 1..n + 1 : i \in 1..Len(doc)
      BY <1>1
    <3> QED
      BY <1>1, <1>2, <3>1
  <2>3. Max(1..n + 1) = n + 1 /\ (1..n + 1) \ {n + 1} = 1..n
    BY <2>1, MaxOfPrefix
  <2>4. c[1..n + 1] = ScanLine(doc, c[(1..n + 1) \ {Max(1..n + 1)}], s[Max(1..n + 1)])
    BY <1>7, <2>2
  <2>5. c[1..n + 1] = ScanLine(doc, c[1..n], n + 1)
    <3>1. s[n + 1] = n + 1
      <4>1. n + 1 \in DOMAIN doc
        BY <1>1
      <4> QED
        BY <1>2, <4>1
    <3> QED
      BY <2>3, <2>4, <3>1
  <2> QED
    BY <2>1, <2>5
<1>11. Sections(doc) = Closed(f[Len(doc)])
  BY <1>1, <1>2, <1>8
<1> QED
  BY <1>9, <1>10, <1>11

-----------------------------------------------------------------------------
(* Paragraphs, lengths and packs *)

CutType(doc) == [done : Seq(Seq(DOMAIN doc)), open : Seq(DOMAIN doc)]

NoCut == [done |-> <<>>, open |-> <<>>]

\* To end the open paragraph keeps the type.
LEMMA EndedType ==
  ASSUME NEW doc \in Seq(Line), NEW cut \in CutType(doc)
  PROVE  Ended(cut) \in Seq(Seq(DOMAIN doc))
<1>1. cut.done \in Seq(Seq(DOMAIN doc)) /\ cut.open \in Seq(DOMAIN doc)
  BY DEF CutType
<1>2. Append(cut.done, cut.open) \in Seq(Seq(DOMAIN doc))
  BY <1>1, AppendProperties
<1> QED
  BY <1>1, <1>2 DEF Ended

\* A line keeps the type of the cut into paragraphs.
LEMMA CutLineType ==
  ASSUME NEW doc \in Seq(Line), NEW cut \in CutType(doc), NEW n \in DOMAIN doc
  PROVE  CutLine(doc, cut, n) \in CutType(doc)
<1>1. Ended(cut) \in Seq(Seq(DOMAIN doc))
  BY EndedType
<1>2. cut.done \in Seq(Seq(DOMAIN doc)) /\ cut.open \in Seq(DOMAIN doc)
  BY DEF CutType
<1>3. CASE doc[n].len = 0
  BY <1>1, <1>3 DEF CutLine, CutType
<1>4. CASE doc[n].len # 0
  <2>1. CutLine(doc, cut, n) = [done |-> cut.done, open |-> Append(cut.open, n)]
    BY <1>4 DEF CutLine, CutType
  <2> QED
    BY <1>2, <2>1 DEF CutType
<1> QED
  BY <1>3, <1>4

\* The paragraphs of a section are cut line by line (knowledge.py, _chunk_section).
LEMMA CutRuns ==
  ASSUME NEW doc \in Seq(Line), NEW body \in Seq(DOMAIN doc)
  PROVE  \E f : /\ f[0] = NoCut
                /\ \A n \in 0..Len(body) - 1 : f[n + 1] = CutLine(doc, f[n], body[n + 1])
                /\ Paragraphs(doc, body) = Ended(f[Len(body)])
<1> DEFINE g == [x \in CutType(doc) \X DOMAIN doc |-> CutLine(doc, x[1], x[2])]
           P(h) == h = [t \in SUBSET DOMAIN body |->
                          IF t = {} THEN NoCut ELSE CutLine(doc, h[t \ {Max(t)}], body[Max(t)])]
           c == CHOOSE h : P(h)
<1>1. DOMAIN body = 1..Len(body) /\ Len(body) \in Nat
  OBVIOUS
<1>2. g \in [CutType(doc) \X DOMAIN doc -> CutType(doc)]
  BY CutLineType
<1>3. NoCut \in CutType(doc)
  BY DEF NoCut, CutType
<1>4. PICK h : IsFoldOf(h, DOMAIN body, CutType(doc), NoCut, g, body)
  <2> HIDE DEF g
  <2> QED
    BY <1>2, <1>3, FoldExists
<1>5. P(h)
  <2>1. ASSUME NEW t \in SUBSET DOMAIN body, t # {}
        PROVE  h[t] = CutLine(doc, h[t \ {Max(t)}], body[Max(t)])
    <3>1. Max(t) \in 1..Len(body)
      BY <1>1, <2>1, MaxOfSubset
    <3>2. h[t \ {Max(t)}] \in CutType(doc) /\ body[Max(t)] \in DOMAIN doc
      BY <1>4, <3>1, ElementOfSeq DEF IsFoldOf
    <3> QED
      BY <1>4, <2>1, <3>2 DEF IsFoldOf
  <2>2. h[{}] = NoCut
    BY <1>4 DEF IsFoldOf
  <2>3. h = [t \in SUBSET DOMAIN body |-> h[t]]
    BY <1>4 DEF IsFoldOf
  <2> QED
    BY <2>1, <2>2, <2>3
<1>6. P(c)
  BY <1>5
<1>7. Paragraphs(doc, body) = Ended(c[DOMAIN body])
  BY DEF Paragraphs, FoldLeft, MapThenFoldSet, NoCut
<1> HIDE DEF c
<1> DEFINE f == [n \in 0..Len(body) |-> c[1..n]]
<1>8. f[0] = NoCut
  <2>1. 1..0 = {}
    OBVIOUS
  <2>2. c[{}] = NoCut
    BY <1>6
  <2> QED
    BY <1>1, <2>1, <2>2
<1>9. ASSUME NEW n \in 0..Len(body) - 1
       PROVE  f[n + 1] = CutLine(doc, f[n], body[n + 1])
  <2>1. n \in Nat /\ n \in 0..Len(body) /\ n + 1 \in 0..Len(body)
    BY <1>1
  <2>2. 1..n + 1 \in SUBSET DOMAIN body /\ 1..n + 1 # {}
    <3>1. n + 1 \in 1..n + 1 /\ \A i \in 1..n + 1 : i \in 1..Len(body)
      BY <1>1
    <3> QED
      BY <1>1, <3>1
  <2>3. Max(1..n + 1) = n + 1 /\ (1..n + 1) \ {n + 1} = 1..n
    BY <2>1, MaxOfPrefix
  <2>4. c[1..n + 1] = CutLine(doc, c[(1..n + 1) \ {Max(1..n + 1)}], body[Max(1..n + 1)])
    BY <1>6, <2>2
  <2>5. c[1..n + 1] = CutLine(doc, c[1..n], body[n + 1])
    BY <2>3, <2>4
  <2> QED
    BY <2>1, <2>5
<1>10. Paragraphs(doc, body) = Ended(f[Len(body)])
  BY <1>1, <1>7
<1> QED
  BY <1>8, <1>9, <1>10

\* A total is added up number by number.
LEMMA TotalRuns ==
  ASSUME NEW lengths \in Seq(Int)
  PROVE  \E f : /\ f[0] = 0
                /\ \A n \in 0..Len(lengths) - 1 : f[n + 1] = f[n] + lengths[n + 1]
                /\ Total(lengths) = f[Len(lengths)]
<1> DEFINE g == [x \in Int \X Int |-> x[1] + x[2]]
           P(h) == h = [t \in SUBSET DOMAIN lengths |->
                          IF t = {} THEN 0 ELSE h[t \ {Max(t)}] + lengths[Max(t)]]
           c == CHOOSE h : P(h)
<1>1. DOMAIN lengths = 1..Len(lengths) /\ Len(lengths) \in Nat
  OBVIOUS
<1>2. g \in [Int \X Int -> Int]
  OBVIOUS
<1>3. PICK h : IsFoldOf(h, DOMAIN lengths, Int, 0, g, lengths)
  <2> DEFINE Z == Int
  <2>1. 0 \in Z /\ g \in [Z \X Z -> Z] /\ lengths \in Seq(Z)
    BY <1>2
  <2> HIDE DEF g, Z
  <2>2. \E h : IsFoldOf(h, DOMAIN lengths, Z, 0, g, lengths)
    BY <2>1, FoldExists
  <2> QED
    BY <2>2 DEF Z
<1>4. P(h)
  <2>1. ASSUME NEW t \in SUBSET DOMAIN lengths, t # {}
        PROVE  h[t] = h[t \ {Max(t)}] + lengths[Max(t)]
    <3>1. Max(t) \in 1..Len(lengths)
      BY <1>1, <2>1, MaxOfSubset
    <3>2. h[t \ {Max(t)}] \in Int /\ lengths[Max(t)] \in Int
      BY <1>3, <3>1, ElementOfSeq DEF IsFoldOf
    <3> QED
      BY <1>3, <2>1, <3>2 DEF IsFoldOf
  <2>2. h[{}] = 0
    BY <1>3 DEF IsFoldOf
  <2>3. h = [t \in SUBSET DOMAIN lengths |-> h[t]]
    BY <1>3 DEF IsFoldOf
  <2> QED
    BY <2>1, <2>2, <2>3
<1>5. P(c)
  BY <1>4
<1>6. Total(lengths) = c[DOMAIN lengths]
  BY DEF Total, FoldLeft, MapThenFoldSet
<1> HIDE DEF c
<1> DEFINE f == [n \in 0..Len(lengths) |-> c[1..n]]
<1>7. f[0] = 0
  <2>1. 1..0 = {}
    OBVIOUS
  <2>2. c[{}] = 0
    BY <1>5
  <2> QED
    BY <1>1, <2>1, <2>2
<1>8. ASSUME NEW n \in 0..Len(lengths) - 1
       PROVE  f[n + 1] = f[n] + lengths[n + 1]
  <2>1. n \in Nat /\ n \in 0..Len(lengths) /\ n + 1 \in 0..Len(lengths)
    BY <1>1
  <2>2. 1..n + 1 \in SUBSET DOMAIN lengths /\ 1..n + 1 # {}
    <3>1. n + 1 \in 1..n + 1 /\ \A i \in 1..n + 1 : i \in 1..Len(lengths)
      BY <1>1
    <3> QED
      BY <1>1, <3>1
  <2>3. Max(1..n + 1) = n + 1 /\ (1..n + 1) \ {n + 1} = 1..n
    BY <2>1, MaxOfPrefix
  <2>4. c[1..n + 1] = c[(1..n + 1) \ {Max(1..n + 1)}] + lengths[Max(1..n + 1)]
    BY <1>5, <2>2
  <2>5. c[1..n + 1] = c[1..n] + lengths[n + 1]
    BY <2>3, <2>4
  <2> QED
    BY <2>1, <2>5
<1>9. Total(lengths) = f[Len(lengths)]
  BY <1>1, <1>6
<1> QED
  BY <1>7, <1>8, <1>9

\* A total of integers is an integer.
LEMMA TotalType ==
  ASSUME NEW lengths \in Seq(Int)
  PROVE  Total(lengths) \in Int
<1>1. PICK f : /\ f[0] = 0
               /\ \A n \in 0..Len(lengths) - 1 : f[n + 1] = f[n] + lengths[n + 1]
               /\ Total(lengths) = f[Len(lengths)]
  BY TotalRuns
<1>2. Len(lengths) \in Nat
  OBVIOUS
<1> DEFINE Done == {n \in 0..Len(lengths) : f[n] \in Int}
<1>3. 0 \in Done
  BY <1>1, <1>2
<1>4. ASSUME NEW n \in 0..Len(lengths) - 1, n \in Done
      PROVE  n + 1 \in Done
  <2>1. n + 1 \in 0..Len(lengths) /\ n + 1 \in 1..Len(lengths) /\ f[n] \in Int
    BY <1>2, <1>4
  <2>2. lengths[n + 1] \in Int
    BY <2>1, ElementOfSeq
  <2>3. f[n + 1] = f[n] + lengths[n + 1]
    BY <1>1
  <2> QED
    BY <2>1, <2>2, <2>3
<1> HIDE DEF Done
<1>5. 0..Len(lengths) \subseteq Done
  BY <1>2, <1>3, <1>4, InductionUpTo
<1> QED
  BY <1>1, <1>2, <1>5 DEF Done

\* One number more adds just that number, wherever the others come from.
LEMMA TotalAppend ==
  ASSUME NEW s \in Seq(Int), NEW t \in Seq(Int), Len(t) = Len(s) + 1,
         \A i \in 1..Len(s) : t[i] = s[i]
  PROVE  Total(t) = Total(s) + t[Len(t)]
<1>1. PICK f : /\ f[0] = 0
               /\ \A n \in 0..Len(s) - 1 : f[n + 1] = f[n] + s[n + 1]
               /\ Total(s) = f[Len(s)]
  BY TotalRuns
<1>2. PICK g : /\ g[0] = 0
               /\ \A n \in 0..Len(t) - 1 : g[n + 1] = g[n] + t[n + 1]
               /\ Total(t) = g[Len(t)]
  BY TotalRuns
<1>3. Len(s) \in Nat
  OBVIOUS
<1> DEFINE Done == {n \in 0..Len(s) : f[n] = g[n]}
<1>4. 0 \in Done
  BY <1>1, <1>2, <1>3
<1>5. ASSUME NEW n \in 0..Len(s) - 1, n \in Done
      PROVE  n + 1 \in Done
  <2>1. /\ n + 1 \in 0..Len(s) /\ n + 1 \in 1..Len(s) /\ n \in 0..Len(t) - 1
        /\ f[n] = g[n]
    BY <1>3, <1>5
  <2>2. f[n + 1] = f[n] + s[n + 1]
    BY <1>1
  <2>3. g[n + 1] = g[n] + t[n + 1]
    BY <1>2, <2>1
  <2>4. f[n + 1] = g[n + 1]
    BY <2>1, <2>2, <2>3
  <2> QED
    BY <2>1, <2>4
<1> HIDE DEF Done
<1>6. 0..Len(s) \subseteq Done
  BY <1>3, <1>4, <1>5, InductionUpTo
<1>7. f[Len(s)] = g[Len(s)]
  BY <1>3, <1>6 DEF Done
<1>8. g[Len(s) + 1] = g[Len(s)] + t[Len(s) + 1]
  <2>1. Len(s) \in 0..Len(t) - 1
    BY <1>3
  <2> QED
    BY <1>2, <2>1
<1> QED
  BY <1>1, <1>2, <1>7, <1>8

PackType(doc) ==
  [done : Seq(Seq(Seq(DOMAIN doc))), open : Seq(Seq(DOMAIN doc)), length : Int]

NoPack == [done |-> <<>>, open |-> <<>>, length |-> 0]

\* The packs of a section of these paragraphs: what ChunkSection makes chunks of.
PacksOf(doc, ps) ==
  Packed(FoldLeft(LAMBDA pack, p : Pack(doc, pack, p), NoPack, ps))

\* The length of a paragraph is an integer.
LEMMA LengthOfType ==
  ASSUME NEW doc \in Seq(Line), NEW p \in Seq(DOMAIN doc)
  PROVE  LengthOf(doc, p) \in Int
<1> DEFINE lengths == [i \in DOMAIN p |-> doc[p[i]].len]
<1>1. DOMAIN p = 1..Len(p) /\ Len(p) \in Nat
  OBVIOUS
<1>2. ASSUME NEW i \in 1..Len(p)
      PROVE  doc[p[i]].len \in Int
  <2>1. p[i] \in DOMAIN doc
    BY ElementOfSeq
  <2>2. doc[p[i]] \in Line
    BY <2>1, ElementOfSeq
  <2>3. doc[p[i]].len \in Nat
    BY <2>2 DEF Line
  <2> QED
    BY <2>3
<1>3. lengths \in Seq(Int)
  BY <1>1, <1>2
<1> HIDE DEF lengths
<1>4. Total(lengths) \in Int
  BY <1>3, TotalType
<1> QED
  BY <1>1, <1>4 DEF LengthOf, lengths

\* A paragraph keeps the type of the packs.
LEMMA PackStepType ==
  ASSUME NEW doc \in Seq(Line), NEW pack \in PackType(doc), NEW p \in Seq(DOMAIN doc)
  PROVE  Pack(doc, pack, p) \in PackType(doc)
<1> DEFINE projected == pack.length + LengthOf(doc, p) + Joint(pack.open)
<1>1. /\ pack.done \in Seq(Seq(Seq(DOMAIN doc))) /\ pack.open \in Seq(Seq(DOMAIN doc))
      /\ pack.length \in Int
  BY DEF PackType
<1>2. LengthOf(doc, p) \in Int /\ projected \in Int
  BY <1>1, LengthOfType DEF Joint
<1>3. /\ Append(pack.done, pack.open) \in Seq(Seq(Seq(DOMAIN doc)))
      /\ Append(pack.open, p) \in Seq(Seq(DOMAIN doc))
      /\ <<p>> \in Seq(Seq(DOMAIN doc))
  BY <1>1, AppendProperties
<1>4. CASE pack.open # <<>> /\ projected > MaxChars
  BY <1>2, <1>3, <1>4 DEF Pack, PackType
<1>5. CASE ~(pack.open # <<>> /\ projected > MaxChars)
  <2>1. Pack(doc, pack, p) = [done |-> pack.done, open |-> Append(pack.open, p),
                              length |-> projected]
    BY <1>5 DEF Pack, PackType
  <2> HIDE DEF projected
  <2> QED
    BY <1>1, <1>2, <1>3, <2>1 DEF PackType
<1> QED
  BY <1>4, <1>5

\* The paragraphs are packed one by one (knowledge.py, _chunk_section).
LEMMA PackRuns ==
  ASSUME NEW doc \in Seq(Line), NEW ps \in Seq(Seq(DOMAIN doc))
  PROVE  \E f : /\ f[0] = NoPack
                /\ \A n \in 0..Len(ps) - 1 : f[n + 1] = Pack(doc, f[n], ps[n + 1])
                /\ PacksOf(doc, ps) = Packed(f[Len(ps)])
<1> DEFINE g == [x \in PackType(doc) \X Seq(DOMAIN doc) |-> Pack(doc, x[1], x[2])]
           P(h) == h = [t \in SUBSET DOMAIN ps |->
                          IF t = {} THEN NoPack ELSE Pack(doc, h[t \ {Max(t)}], ps[Max(t)])]
           c == CHOOSE h : P(h)
<1>1. DOMAIN ps = 1..Len(ps) /\ Len(ps) \in Nat
  OBVIOUS
<1>2. g \in [PackType(doc) \X Seq(DOMAIN doc) -> PackType(doc)]
  BY PackStepType
<1>3. NoPack \in PackType(doc)
  BY DEF NoPack, PackType
<1>4. PICK h : IsFoldOf(h, DOMAIN ps, PackType(doc), NoPack, g, ps)
  <2> HIDE DEF g
  <2> QED
    BY <1>2, <1>3, FoldExists
<1>5. P(h)
  <2>1. ASSUME NEW t \in SUBSET DOMAIN ps, t # {}
        PROVE  h[t] = Pack(doc, h[t \ {Max(t)}], ps[Max(t)])
    <3>1. Max(t) \in 1..Len(ps)
      BY <1>1, <2>1, MaxOfSubset
    <3>2. h[t \ {Max(t)}] \in PackType(doc) /\ ps[Max(t)] \in Seq(DOMAIN doc)
      BY <1>4, <3>1, ElementOfSeq DEF IsFoldOf
    <3> QED
      BY <1>4, <2>1, <3>2 DEF IsFoldOf
  <2>2. h[{}] = NoPack
    BY <1>4 DEF IsFoldOf
  <2>3. h = [t \in SUBSET DOMAIN ps |-> h[t]]
    BY <1>4 DEF IsFoldOf
  <2> QED
    BY <2>1, <2>2, <2>3
<1>6. P(c)
  BY <1>5
<1>7. PacksOf(doc, ps) = Packed(c[DOMAIN ps])
  BY DEF PacksOf, FoldLeft, MapThenFoldSet, NoPack
<1> HIDE DEF c
<1> DEFINE f == [n \in 0..Len(ps) |-> c[1..n]]
<1>8. f[0] = NoPack
  <2>1. 1..0 = {}
    OBVIOUS
  <2>2. c[{}] = NoPack
    BY <1>6
  <2> QED
    BY <1>1, <2>1, <2>2
<1>9. ASSUME NEW n \in 0..Len(ps) - 1
       PROVE  f[n + 1] = Pack(doc, f[n], ps[n + 1])
  <2>1. n \in Nat /\ n \in 0..Len(ps) /\ n + 1 \in 0..Len(ps)
    BY <1>1
  <2>2. 1..n + 1 \in SUBSET DOMAIN ps /\ 1..n + 1 # {}
    <3>1. n + 1 \in 1..n + 1 /\ \A i \in 1..n + 1 : i \in 1..Len(ps)
      BY <1>1
    <3> QED
      BY <1>1, <3>1
  <2>3. Max(1..n + 1) = n + 1 /\ (1..n + 1) \ {n + 1} = 1..n
    BY <2>1, MaxOfPrefix
  <2>4. c[1..n + 1] = Pack(doc, c[(1..n + 1) \ {Max(1..n + 1)}], ps[Max(1..n + 1)])
    BY <1>6, <2>2
  <2>5. c[1..n + 1] = Pack(doc, c[1..n], ps[n + 1])
    BY <2>3, <2>4
  <2> QED
    BY <2>1, <2>5
<1>10. PacksOf(doc, ps) = Packed(f[Len(ps)])
  BY <1>1, <1>7
<1> QED
  BY <1>8, <1>9, <1>10

-----------------------------------------------------------------------------
(* Sequences of sequences *)

ConcatRegroups(S) == \A r, s, t \in Seq(S) : (r \o s) \o t = r \o (s \o t)

\* Concatenation is associative.
LEMMA ConcatAlwaysRegroups == \A S : ConcatRegroups(S)
BY ConcatAssociative DEF ConcatRegroups

\* The recursive function that FlattenSeq chooses exists.
LEMMA FlattenExists ==
  ASSUME NEW S, NEW ss \in Seq(Seq(S))
  PROVE  \E h : h = [i \in 1..Len(ss) |-> IF i = 1 THEN ss[i] ELSE h[i - 1] \o ss[i]]
<1> DEFINE Runs(h, n) == /\ h \in [1..n -> Seq(S)]
                         /\ \A i \in 1..n : h[i] = IF i = 1 THEN ss[i] ELSE h[i - 1] \o ss[i]
           Good(n) == \E h : Runs(h, n)
           Done == {n \in 0..Len(ss) : Good(n)}
<1>1. Len(ss) \in Nat
  OBVIOUS
<1>2. Good(0)
  <2>1. Runs([i \in 1..0 |-> <<>>], 0)
    OBVIOUS
  <2> HIDE DEF Runs
  <2> QED
    BY <2>1
<1>3. ASSUME NEW n \in 0..Len(ss) - 1, Good(n)
      PROVE  Good(n + 1)
  <2>1. PICK h : Runs(h, n)
    BY <1>3
  <2> DEFINE last == IF n = 0 THEN ss[1] ELSE h[n] \o ss[n + 1]
             k == [i \in 1..n + 1 |-> IF i = n + 1 THEN last ELSE h[i]]
  <2>2. n \in Nat /\ n + 1 \in 1..Len(ss) /\ \A i \in 1..n + 1 : i \in 1..Len(ss)
    BY <1>1
  <2>3. ss[n + 1] \in Seq(S)
    BY <2>2, ElementOfSeq
  <2>4. n # 0 => h[n] \in Seq(S)
    BY <2>1, <2>2
  <2>5. last \in Seq(S) /\ last = IF n = 0 THEN ss[n + 1] ELSE h[n] \o ss[n + 1]
    BY <2>3, <2>4, ConcatProperties
  <2> HIDE DEF last
  <2>6. k[n + 1] = last /\ \A i \in 1..n : k[i] = h[i] /\ h[i] \in Seq(S)
    BY <2>1, <2>2
  <2>7. k \in [1..n + 1 -> Seq(S)]
    BY <2>1, <2>2, <2>5
  <2>8. DOMAIN k = 1..n + 1
    OBVIOUS
  <2> HIDE DEF k
  <2>9. ASSUME NEW i \in 1..n + 1
        PROVE  k[i] = IF i = 1 THEN ss[i] ELSE k[i - 1] \o ss[i]
    <3>1. CASE i = n + 1
      <4>1. n # 0 => n \in 1..n /\ k[n] = h[n] /\ i - 1 = n /\ i # 1
        BY <2>2, <2>6, <3>1
      <4>2. n = 0 => i = 1
        BY <3>1
      <4> QED
        BY <2>5, <2>6, <3>1, <4>1, <4>2
    <3>2. CASE i # n + 1
      <4>1. i \in 1..n /\ (i # 1 => i - 1 \in 1..n)
        BY <2>2, <3>2
      <4>2. k[i] = h[i] /\ (i # 1 => k[i - 1] = h[i - 1])
        BY <2>6, <4>1
      <4>3. h[i] = IF i = 1 THEN ss[i] ELSE h[i - 1] \o ss[i]
        BY <2>1, <4>1
      <4> QED
        BY <4>2, <4>3
    <3> QED
      BY <3>1, <3>2
  <2>10. Runs(k, n + 1)
    BY <2>7, <2>9
  <2> HIDE DEF Runs
  <2> QED
    BY <2>10
<1> HIDE DEF Good
<1>4. 0..Len(ss) \subseteq Done
  <2>1. 0 \in Done
    BY <1>1, <1>2
  <2>2. ASSUME NEW n \in 0..Len(ss) - 1, n \in Done
        PROVE  n + 1 \in Done
    <3>1. n + 1 \in 0..Len(ss)
      BY <1>1
    <3> QED
      BY <2>2, <3>1, <1>3
  <2> HIDE DEF Done
  <2> QED
    BY <1>1, <2>1, <2>2, InductionUpTo
<1>5. Good(Len(ss))
  BY <1>1, <1>4
<1>6. PICK h : Runs(h, Len(ss))
  BY <1>5 DEF Good
<1>7. h = [i \in 1..Len(ss) |-> h[i]]
  BY <1>6
<1> QED
  BY <1>6, <1>7

\* A sequence of sequences is flattened one by one.
LEMMA FlattenRuns ==
  ASSUME NEW S, NEW ss \in Seq(Seq(S))
  PROVE  \E f : /\ f[0] = <<>>
                /\ \A n \in 0..Len(ss) - 1 : f[n + 1] = f[n] \o ss[n + 1]
                /\ \A n \in 0..Len(ss) : f[n] \in Seq(S)
                /\ FlattenSeq(ss) = f[Len(ss)]
<1> DEFINE P(h) == h = [i \in 1..Len(ss) |-> IF i = 1 THEN ss[i] ELSE h[i - 1] \o ss[i]]
           c == CHOOSE h : P(h)
           f == [n \in 0..Len(ss) |-> IF n = 0 THEN <<>> ELSE c[n]]
<1>1. Len(ss) \in Nat
  OBVIOUS
<1>2. P(c)
  BY FlattenExists
<1>3. FlattenSeq(ss) = IF Len(ss) = 0 THEN ss ELSE c[Len(ss)]
  BY DEF FlattenSeq
<1> HIDE DEF c
<1>4. f[0] = <<>>
  BY <1>1
<1>5. ASSUME NEW n \in 0..Len(ss) - 1
      PROVE  f[n + 1] = f[n] \o ss[n + 1]
  <2>1. /\ n \in 0..Len(ss) /\ n + 1 \in 0..Len(ss) /\ n + 1 \in 1..Len(ss)
        /\ n + 1 - 1 = n /\ n + 1 # 0
    BY <1>1
  <2>2. ss[n + 1] \in Seq(S)
    BY <2>1, ElementOfSeq
  <2>3. f[n + 1] = c[n + 1]
    BY <2>1
  <2>4. c[n + 1] = IF n = 0 THEN ss[n + 1] ELSE c[n] \o ss[n + 1]
    <3>1. PICK i \in 1..Len(ss) : i = n + 1 /\ i - 1 = n
      BY <2>1
    <3>2. c[i] = IF i = 1 THEN ss[i] ELSE c[i - 1] \o ss[i]
      BY <1>2
    <3>3. i = 1 <=> n = 0
      BY <3>1
    <3> QED
      BY <3>1, <3>2, <3>3
  <2>5. CASE n = 0
    <3>1. f[n + 1] = ss[n + 1] /\ f[n] = <<>>
      BY <2>1, <2>3, <2>4, <2>5
    <3> HIDE DEF f
    <3> QED
      BY <2>2, <3>1, ConcatEmptySeq
  <2>6. CASE n # 0
    <3>1. f[n] = c[n]
      BY <2>1, <2>6
    <3>2. f[n + 1] = c[n] \o ss[n + 1]
      BY <2>3, <2>4, <2>6
    <3> HIDE DEF f
    <3> QED
      BY <3>1, <3>2
  <2> QED
    BY <2>5, <2>6
<1>6. FlattenSeq(ss) = f[Len(ss)]
  BY <1>1, <1>3
<1> HIDE DEF f
<1> DEFINE Good(n) == f[n] \in Seq(S)
           Done == {n \in 0..Len(ss) : Good(n)}
<1>7. Good(0)
  BY <1>4
<1>8. ASSUME NEW n \in 0..Len(ss) - 1, Good(n)
      PROVE  Good(n + 1)
  <2>1. n + 1 \in 1..Len(ss)
    BY <1>1
  <2>2. ss[n + 1] \in Seq(S)
    BY <2>1, ElementOfSeq
  <2>3. f[n + 1] = f[n] \o ss[n + 1]
    BY <1>5
  <2> QED
    BY <1>8, <2>2, <2>3, ConcatProperties
<1> HIDE DEF Good
<1>9. 0..Len(ss) \subseteq Done
  <2>1. 0 \in Done
    BY <1>1, <1>7
  <2>2. ASSUME NEW n \in 0..Len(ss) - 1, n \in Done
        PROVE  n + 1 \in Done
    <3>1. n + 1 \in 0..Len(ss)
      BY <1>1
    <3> QED
      BY <2>2, <3>1, <1>8
  <2> HIDE DEF Done
  <2> QED
    BY <1>1, <2>1, <2>2, InductionUpTo
<1>10. \A n \in 0..Len(ss) : f[n] \in Seq(S)
  BY <1>9 DEF Good
<1> QED
  BY <1>4, <1>5, <1>6, <1>10

\* Nothing flattens to nothing.
LEMMA FlattenEmpty == FlattenSeq(<<>>) = <<>>
BY DEF FlattenSeq

\* Flattening distributes over concatenation.
LEMMA FlattenConcat ==
  ASSUME NEW S, NEW ss \in Seq(Seq(S)), NEW tt \in Seq(Seq(S))
  PROVE  /\ FlattenSeq(ss) \in Seq(S) /\ FlattenSeq(tt) \in Seq(S)
         /\ FlattenSeq(ss \o tt) = FlattenSeq(ss) \o FlattenSeq(tt)
<1>1. PICK f : /\ f[0] = <<>>
               /\ \A n \in 0..Len(ss) - 1 : f[n + 1] = f[n] \o ss[n + 1]
               /\ \A n \in 0..Len(ss) : f[n] \in Seq(S)
               /\ FlattenSeq(ss) = f[Len(ss)]
  BY FlattenRuns
<1>2. PICK g : /\ g[0] = <<>>
               /\ \A n \in 0..Len(tt) - 1 : g[n + 1] = g[n] \o tt[n + 1]
               /\ \A n \in 0..Len(tt) : g[n] \in Seq(S)
               /\ FlattenSeq(tt) = g[Len(tt)]
  BY FlattenRuns
<1>3. Len(ss) \in Nat /\ Len(tt) \in Nat
  OBVIOUS
<1> DEFINE uu == ss \o tt
<1>4. /\ uu \in Seq(Seq(S)) /\ Len(uu) = Len(ss) + Len(tt)
      /\ \A i \in 1..Len(ss) : uu[i] = ss[i]
      /\ \A i \in 1..Len(tt) : uu[Len(ss) + i] = tt[i]
      /\ Len(ss) \in Nat /\ Len(tt) \in Nat
  OBVIOUS
<1> HIDE DEF uu
<1>5. PICK h : /\ h[0] = <<>>
               /\ \A n \in 0..Len(uu) - 1 : h[n + 1] = h[n] \o uu[n + 1]
               /\ FlattenSeq(uu) = h[Len(uu)]
  BY <1>4, FlattenRuns
<1> DEFINE Left(n) == h[n] = f[n]
           Right(n) == h[Len(ss) + n] = f[Len(ss)] \o g[n]
           DoneLeft == {n \in 0..Len(ss) : Left(n)}
           DoneRight == {n \in 0..Len(tt) : Right(n)}
<1>6. Left(0)
  BY <1>1, <1>5
<1>7. ASSUME NEW n \in 0..Len(ss) - 1, Left(n)
      PROVE  Left(n + 1)
  <2>1. n + 1 \in 1..Len(ss) /\ n \in 0..Len(uu) - 1
    BY <1>4
  <2>2. f[n + 1] = f[n] \o ss[n + 1]
    BY <1>1
  <2>3. h[n + 1] = h[n] \o uu[n + 1] /\ uu[n + 1] = ss[n + 1]
    BY <1>4, <1>5, <2>1
  <2> QED
    BY <1>7, <2>2, <2>3
<1>8. Left(Len(ss))
  <2>1. 0..Len(ss) \subseteq DoneLeft
    <3>1. 0 \in DoneLeft
      BY <1>3, <1>6
    <3>2. ASSUME NEW n \in 0..Len(ss) - 1, n \in DoneLeft
          PROVE  n + 1 \in DoneLeft
      <4>1. n + 1 \in 0..Len(ss)
        BY <1>3
      <4> QED
        BY <3>2, <4>1, <1>7
    <3> HIDE DEF DoneLeft
    <3> QED
      BY <1>3, <3>1, <3>2, InductionUpTo
  <2> QED
    BY <1>3, <2>1
<1>9. h[Len(ss)] = f[Len(ss)] /\ f[Len(ss)] \in Seq(S)
  BY <1>1, <1>4, <1>8
<1>10. Right(0)
  <2>1. f[Len(ss)] \o g[0] = f[Len(ss)]
    BY <1>2, <1>9, ConcatEmptySeq
  <2>2. Len(ss) + 0 = Len(ss)
    BY <1>4
  <2> QED
    BY <1>9, <2>1, <2>2
<1>11. ASSUME NEW n \in 0..Len(tt) - 1, Right(n)
       PROVE  Right(n + 1)
  <2>1. /\ n + 1 \in 1..Len(tt) /\ Len(ss) + n \in 0..Len(uu) - 1
        /\ Len(ss) + (n + 1) = Len(ss) + n + 1
        /\ n \in 0..Len(tt)
    BY <1>4
  <2>2. h[Len(ss) + n + 1] = h[Len(ss) + n] \o uu[Len(ss) + n + 1]
    BY <1>5, <2>1
  <2>3. h[Len(ss) + (n + 1)] = h[Len(ss) + n] \o tt[n + 1]
    BY <1>4, <2>1, <2>2
  <2>4. h[Len(ss) + (n + 1)] = (f[Len(ss)] \o g[n]) \o tt[n + 1]
    BY <1>11, <2>3
  <2>5. g[n + 1] = g[n] \o tt[n + 1]
    BY <1>2, <2>1
  <2>6. g[n] \in Seq(S) /\ tt[n + 1] \in Seq(S)
    BY <1>2, <2>1, ElementOfSeq
  <2>7. (f[Len(ss)] \o g[n]) \o tt[n + 1] = f[Len(ss)] \o (g[n] \o tt[n + 1])
    <3>1. ConcatRegroups(S)
      BY ConcatAlwaysRegroups
    <3> QED
      BY <1>9, <2>6, <3>1 DEF ConcatRegroups
  <2> QED
    BY <2>4, <2>5, <2>7
<1>12. Right(Len(tt))
  <2> HIDE DEF Right
  <2>1. 0..Len(tt) \subseteq DoneRight
    <3>1. 0 \in DoneRight
      BY <1>3, <1>10
    <3>2. ASSUME NEW n \in 0..Len(tt) - 1, n \in DoneRight
          PROVE  n + 1 \in DoneRight
      <4>1. n + 1 \in 0..Len(tt)
        BY <1>3
      <4> QED
        BY <3>2, <4>1, <1>11
    <3> HIDE DEF DoneRight
    <3> QED
      BY <1>3, <3>1, <3>2, InductionUpTo
  <2> QED
    BY <1>3, <2>1
<1>13. FlattenSeq(uu) = f[Len(ss)] \o g[Len(tt)]
  BY <1>4, <1>5, <1>12
<1>14. FlattenSeq(tt) \in Seq(S) /\ FlattenSeq(ss) \in Seq(S)
  BY <1>1, <1>2, <1>4
<1> QED
  BY <1>1, <1>2, <1>13, <1>14 DEF uu

\* One sequence flattens to itself.
LEMMA FlattenOne ==
  ASSUME NEW S, NEW s \in Seq(S)
  PROVE  FlattenSeq(<<s>>) = s
<1>1. PICK f : /\ f[0] = <<>>
               /\ \A n \in 0..Len(<<s>>) - 1 : f[n + 1] = f[n] \o <<s>>[n + 1]
               /\ FlattenSeq(<<s>>) = f[Len(<<s>>)]
  <2>1. <<s>> \in Seq(Seq(S))
    OBVIOUS
  <2> QED
    BY <2>1, FlattenRuns
<1>2. Len(<<s>>) = 1 /\ <<s>>[1] = s
  OBVIOUS
<1>3. f[1] = <<>> \o s
  <2>1. 0 \in 0..Len(<<s>>) - 1 /\ 0 + 1 = 1
    BY <1>2
  <2>2. f[0 + 1] = f[0] \o <<s>>[0 + 1]
    BY <1>1, <2>1
  <2> QED
    BY <1>1, <1>2, <2>1, <2>2
<1> QED
  BY <1>1, <1>2, <1>3, ConcatEmptySeq

\* What is appended last comes last when flattened.
LEMMA FlattenAppend ==
  ASSUME NEW S, NEW ss \in Seq(Seq(S)), NEW s \in Seq(S)
  PROVE  FlattenSeq(Append(ss, s)) = FlattenSeq(ss) \o s
<1>1. Append(ss, s) = ss \o <<s>>
  BY AppendIsConcat
<1>2. <<s>> \in Seq(Seq(S))
  OBVIOUS
<1>3. FlattenSeq(<<s>>) = s
  BY FlattenOne
<1> QED
  BY <1>1, <1>2, <1>3, FlattenConcat

\* A concatenation has the elements of both sequences.
LEMMA ToSetConcat ==
  ASSUME NEW S, NEW s \in Seq(S), NEW t \in Seq(S)
  PROVE  ToSet(s \o t) = ToSet(s) \cup ToSet(t)
<1>1. \A u : ToSet(u) = Range(u)
  BY DEF ToSet, Range
<1> QED
  BY <1>1, RangeConcatenation

\* The elements of a sequence are those at its places.
LEMMA InToSet ==
  ASSUME NEW S, NEW s \in Seq(S)
  PROVE  \A x : x \in ToSet(s) <=> \E i \in 1..Len(s) : x = s[i]
<1>1. DOMAIN s = 1..Len(s)
  OBVIOUS
<1> QED
  BY <1>1 DEF ToSet

\* Every element of every sequence is in the flattened one.
LEMMA FlattenContains ==
  ASSUME NEW S, NEW ss \in Seq(Seq(S)), NEW j \in 1..Len(ss), NEW x \in ToSet(ss[j])
  PROVE  x \in ToSet(FlattenSeq(ss))
<1>1. PICK f : /\ f[0] = <<>>
               /\ \A n \in 0..Len(ss) - 1 : f[n + 1] = f[n] \o ss[n + 1]
               /\ \A n \in 0..Len(ss) : f[n] \in Seq(S)
               /\ FlattenSeq(ss) = f[Len(ss)]
  BY FlattenRuns
<1> DEFINE Done == {n \in 0..Len(ss) : j <= n => x \in ToSet(f[n])}
<1>2. Len(ss) \in Nat /\ j \in 0..Len(ss)
  OBVIOUS
<1>3. 0 \in Done
  BY <1>2
<1>4. ASSUME NEW n \in 0..Len(ss) - 1, n \in Done
      PROVE  n + 1 \in Done
  <2>1. n + 1 \in 0..Len(ss) /\ n \in 0..Len(ss) /\ n + 1 \in 1..Len(ss)
    BY <1>2
  <2>2. f[n] \in Seq(S) /\ ss[n + 1] \in Seq(S)
    BY <1>1, <2>1, ElementOfSeq
  <2>3. ToSet(f[n + 1]) = ToSet(f[n]) \cup ToSet(ss[n + 1])
    <3>1. ToSet(f[n] \o ss[n + 1]) = ToSet(f[n]) \cup ToSet(ss[n + 1])
      BY <2>2, ToSetConcat
    <3> QED
      BY <1>1, <3>1
  <2>4. j <= n + 1 => j <= n \/ j = n + 1
    BY <1>2
  <2> QED
    BY <1>4, <2>1, <2>3, <2>4
<1> HIDE DEF Done
<1>5. 0..Len(ss) \subseteq Done
  BY <1>2, <1>3, <1>4, InductionUpTo
<1>6. Len(ss) \in Done /\ j <= Len(ss)
  <2>1. Len(ss) \in 0..Len(ss) /\ j <= Len(ss)
    BY <1>2
  <2> QED
    BY <1>5, <2>1
<1> QED
  BY <1>1, <1>6 DEF Done

\* It does not matter which level is flattened first: chunks, or paragraphs.
LEMMA FlattenFlatten ==
  ASSUME NEW S, NEW sss \in Seq(Seq(Seq(S)))
  PROVE  /\ [i \in DOMAIN sss |-> FlattenSeq(sss[i])] \in Seq(Seq(S))
         /\ FlattenSeq([i \in DOMAIN sss |-> FlattenSeq(sss[i])]) = FlattenSeq(FlattenSeq(sss))
<1> DEFINE tt == [i \in DOMAIN sss |-> FlattenSeq(sss[i])]
<1>1. Len(sss) \in Nat /\ DOMAIN sss = 1..Len(sss)
  OBVIOUS
<1>2. ASSUME NEW i \in 1..Len(sss)
      PROVE  FlattenSeq(sss[i]) \in Seq(S)
  <2>1. sss[i] \in Seq(Seq(S))
    BY ElementOfSeq
  <2> QED
    BY <2>1, FlattenConcat
<1>3. tt \in Seq(Seq(S)) /\ Len(tt) = Len(sss) /\ \A i \in 1..Len(sss) : tt[i] = FlattenSeq(sss[i])
  BY <1>1, <1>2
<1> HIDE DEF tt
<1>4. PICK f : /\ f[0] = <<>>
               /\ \A n \in 0..Len(sss) - 1 : f[n + 1] = f[n] \o sss[n + 1]
               /\ \A n \in 0..Len(sss) : f[n] \in Seq(Seq(S))
               /\ FlattenSeq(sss) = f[Len(sss)]
  BY FlattenRuns
<1>5. PICK g : /\ g[0] = <<>>
               /\ \A n \in 0..Len(tt) - 1 : g[n + 1] = g[n] \o tt[n + 1]
               /\ FlattenSeq(tt) = g[Len(tt)]
  BY <1>3, FlattenRuns
<1> DEFINE Done == {n \in 0..Len(sss) : FlattenSeq(f[n]) = g[n]}
<1>6. 0 \in Done
  BY <1>1, <1>4, <1>5, FlattenEmpty
<1>7. ASSUME NEW n \in 0..Len(sss) - 1, n \in Done
      PROVE  n + 1 \in Done
  <2>1. n + 1 \in 0..Len(sss) /\ n \in 0..Len(sss) /\ n + 1 \in 1..Len(sss)
    BY <1>1
  <2>2. f[n] \in Seq(Seq(S)) /\ sss[n + 1] \in Seq(Seq(S))
    BY <1>4, <2>1, ElementOfSeq
  <2>3. FlattenSeq(f[n] \o sss[n + 1]) = FlattenSeq(f[n]) \o FlattenSeq(sss[n + 1])
    BY <2>2, FlattenConcat
  <2>4. FlattenSeq(f[n]) = g[n]
    BY <1>7
  <2>5. FlattenSeq(f[n + 1]) = g[n + 1]
    BY <1>3, <1>4, <1>5, <2>1, <2>3, <2>4
  <2> QED
    BY <2>1, <2>5
<1> HIDE DEF Done
<1>8. 0..Len(sss) \subseteq Done
  BY <1>1, <1>6, <1>7, InductionUpTo
<1>9. Len(sss) \in Done
  BY <1>1, <1>8
<1> QED
  BY <1>3, <1>4, <1>5, <1>9 DEF Done, tt

\* The head of a sequence is one of its elements.
LEMMA HeadIsElement ==
  ASSUME NEW S, NEW s \in Seq(S), s # <<>>
  PROVE  Head(s) \in ToSet(s) /\ Head(s) \in S
<1>1. 1 \in 1..Len(s)
  BY EmptySeq
<1>2. s[1] \in ToSet(s) /\ s[1] \in S
  BY <1>1, InToSet, ElementOfSeq
<1>3. Head(s) = s[1]
  OBVIOUS
<1> QED
  BY <1>2, <1>3

\* A sequence with an element keeps its head when it grows.
LEMMA HeadOfAppend ==
  ASSUME NEW S, NEW s \in Seq(S), s # <<>>, NEW x \in S
  PROVE  /\ Append(s, x) \in Seq(S) /\ Append(s, x) # <<>>
         /\ Head(Append(s, x)) = Head(s)
<1>1. 1 \in 1..Len(s)
  BY EmptySeq
<1>2. Append(s, x)[1] = s[1]
  BY <1>1, AppendProperties
<1> QED
  BY <1>2, AppendProperties

-----------------------------------------------------------------------------
(* The path of headings *)

\* The numbers and lengths of lines are natural numbers.
LEMMA LineTypes ==
  ASSUME NEW doc \in Seq(Line)
  PROVE  /\ Len(doc) \in Nat /\ DOMAIN doc = 1..Len(doc)
         /\ \A n \in DOMAIN doc : doc[n].level \in Nat /\ doc[n].len \in Nat
         /\ \A n \in Headings(doc) : n \in DOMAIN doc /\ n \in Nat
<1>1. Len(doc) \in Nat /\ DOMAIN doc = 1..Len(doc)
  OBVIOUS
<1>2. ASSUME NEW n \in DOMAIN doc
      PROVE  doc[n].level \in Nat /\ doc[n].len \in Nat
  <2>1. doc[n] \in Line
    BY <1>1, ElementOfSeq
  <2> QED
    BY <2>1 DEF Line
<1> QED
  BY <1>1, <1>2 DEF Headings

Ascending(s) == \A i, j \in 1..Len(s) : i < j => s[i] < s[j]

\* After line n the path has headings up to n in the order of the document. If
\* no level is skipped, they are those that enclose line n, one for each level,
\* and the last of all headings up to n is the last of them.
PathInv(doc, path, n) ==
  /\ Ascending(path)
  /\ \A i \in 1..Len(path) : path[i] <= n
  /\ Nested(doc) => /\ \A i \in 1..Len(path) : doc[path[i]].level = i
                    /\ ToSet(path) = Enclosing(doc, n)
                    /\ \A k \in Headings(doc) : k <= n => path # <<>> /\ k <= path[Len(path)]

\* Before the first line the path is empty.
LEMMA PathAtStart ==
  ASSUME NEW doc \in Seq(Line)
  PROVE  PathInv(doc, <<>>, 0)
<1>1. Enclosing(doc, 0) = {}
  BY LineTypes DEF Enclosing, Headings
<1>2. ToSet(<<>>) = {}
  BY DEF ToSet
<1>3. \A k \in Headings(doc) : ~(k <= 0)
  BY LineTypes DEF Headings
<1>4. \A i \in 1..Len(<<>>) : FALSE
  OBVIOUS
<1> QED
  BY <1>1, <1>2, <1>3, <1>4 DEF PathInv, Ascending

\* A line of text changes neither the path nor what encloses it.
LEMMA PathAtText ==
  ASSUME NEW doc \in Seq(Line), NEW path \in Seq(DOMAIN doc), NEW n \in 0..Len(doc) - 1,
         PathInv(doc, path, n), doc[n + 1].level = 0
  PROVE  PathInv(doc, path, n + 1)
<1>1. n + 1 \notin Headings(doc)
  BY DEF Headings
<1>2. \A k \in Headings(doc) : k <= n + 1 <=> k <= n
  BY <1>1, LineTypes
<1>3. Enclosing(doc, n + 1) = Enclosing(doc, n)
  BY <1>2 DEF Enclosing
<1>4. \A i \in 1..Len(path) : path[i] <= n + 1
  <2>1. \A i \in 1..Len(path) : path[i] \in Nat /\ path[i] <= n
    BY LineTypes DEF PathInv
  <2> QED
    BY <2>1
<1> QED
  BY <1>2, <1>3, <1>4 DEF PathInv

\* A heading takes the place of those of its level and below on the path, as it
\* ends what they enclose (knowledge.py, _sections).
LEMMA PathAtHeading ==
  ASSUME NEW doc \in Seq(Line), NEW path \in Seq(DOMAIN doc), NEW n \in 0..Len(doc) - 1,
         PathInv(doc, path, n), doc[n + 1].level # 0
  PROVE  /\ Append(Kept(path, doc[n + 1].level), n + 1) \in Seq(DOMAIN doc)
         /\ PathInv(doc, Append(Kept(path, doc[n + 1].level), n + 1), n + 1)
<1> DEFINE level == doc[n + 1].level
           kept == Kept(path, level)
           new == Append(kept, n + 1)
<1>1. n + 1 \in DOMAIN doc /\ n \in Nat /\ level \in Nat /\ level > 0 /\ Len(path) \in Nat
  BY LineTypes
<1>2. n + 1 \in Headings(doc)
  BY <1>1 DEF Headings
<1>3. /\ kept \in Seq(DOMAIN doc)
      /\ Len(kept) = IF level - 1 < Len(path) THEN level - 1 ELSE Len(path)
      /\ \A i \in 1..Len(kept) : kept[i] = path[i]
  BY <1>1, KeptType
<1> HIDE DEF level, kept
<1>4. /\ new \in Seq(DOMAIN doc) /\ Len(new) = Len(kept) + 1
      /\ Len(kept) \in Nat /\ Len(kept) <= Len(path) /\ Len(new) \in 1..Len(new)
      /\ new[Len(new)] = n + 1
  BY <1>1, <1>3, AppendProperties
<1>5. \A i \in 1..Len(path) : path[i] \in DOMAIN doc /\ path[i] \in Nat /\ path[i] <= n
  BY LineTypes, ElementOfSeq DEF PathInv
<1>6. ASSUME NEW i \in 1..Len(new), i # Len(new)
      PROVE  i \in 1..Len(path) /\ new[i] = path[i]
  <2>1. i \in 1..Len(kept) /\ i \in 1..Len(path)
    BY <1>1, <1>4, <1>6
  <2>2. new[i] = kept[i]
    BY <1>1, <1>3, <2>1, AppendProperties
  <2> QED
    BY <1>3, <2>1, <2>2
<1> HIDE DEF new
<1>7. Ascending(new)
  <2> SUFFICES ASSUME NEW i \in 1..Len(new), NEW j \in 1..Len(new), i < j
               PROVE  new[i] < new[j]
    BY DEF Ascending
  <2>1. i # Len(new)
    BY <1>4
  <2>2. i \in 1..Len(path) /\ new[i] = path[i]
    BY <1>6, <2>1
  <2>3. CASE j # Len(new)
    <3>1. j \in 1..Len(path) /\ new[j] = path[j]
      BY <1>6, <2>3
    <3> QED
      BY <2>2, <3>1 DEF PathInv, Ascending
  <2>4. CASE j = Len(new)
    <3>1. new[j] = n + 1 /\ new[i] \in Nat /\ new[i] <= n
      BY <1>4, <1>5, <2>2, <2>4
    <3> QED
      BY <1>1, <3>1
  <2> QED
    BY <2>3, <2>4
<1>8. ASSUME NEW i \in 1..Len(new)
      PROVE  new[i] <= n + 1
  <2>1. CASE i = Len(new)
    BY <1>1, <1>4, <2>1
  <2>2. CASE i # Len(new)
    <3>1. new[i] \in Nat /\ new[i] <= n
      BY <1>5, <1>6, <2>2
    <3> QED
      BY <1>1, <3>1
  <2> QED
    BY <2>1, <2>2
<1>9. ASSUME Nested(doc)
      PROVE  /\ \A i \in 1..Len(new) : doc[new[i]].level = i
             /\ ToSet(new) = Enclosing(doc, n + 1)
             /\ \A k \in Headings(doc) : k <= n + 1 => new # <<>> /\ k <= new[Len(new)]
  <2>1. /\ \A i \in 1..Len(path) : doc[path[i]].level = i
        /\ ToSet(path) = Enclosing(doc, n)
        /\ \A k \in Headings(doc) : k <= n => path # <<>> /\ k <= path[Len(path)]
    BY <1>9 DEF PathInv
  <2>2. level - 1 <= Len(path)
    <3>1. CASE level = 1
      BY <1>1, <3>1
    <3>2. CASE level # 1
      <4>1. PICK m \in Headings(doc) :
              /\ m < n + 1 /\ level <= doc[m].level + 1
              /\ \A k \in Headings(doc) : ~(m < k /\ k < n + 1)
        BY <1>2, <1>9, <3>2 DEF Nested, level
      <4>2. m \in Nat /\ m <= n
        BY <1>1, <4>1, LineTypes
      <4>3. path # <<>> /\ m <= path[Len(path)]
        BY <2>1, <4>2
      <4>4. Len(path) \in 1..Len(path)
        BY <1>1, <4>3
      <4>5. path[Len(path)] \in Headings(doc) /\ path[Len(path)] < n + 1
        BY <1>1, <1>5, <2>1, <4>4 DEF Headings
      <4>6. m = path[Len(path)]
        BY <1>5, <4>1, <4>2, <4>3, <4>4, <4>5
      <4>7. doc[m].level = Len(path)
        BY <2>1, <4>4, <4>6
      <4> QED
        BY <1>1, <4>1, <4>7
    <3> QED
      BY <3>1, <3>2
  <2>3. Len(kept) = level - 1
    BY <1>1, <1>3, <2>2
  <2>4. ASSUME NEW i \in 1..Len(new)
        PROVE  doc[new[i]].level = i
    <3>1. CASE i = Len(new)
      BY <1>1, <1>4, <2>3, <3>1 DEF level
    <3>2. CASE i # Len(new)
      BY <1>6, <2>1, <3>2
    <3> QED
      BY <3>1, <3>2
  <2>5. ASSUME NEW k
        PROVE  k \in ToSet(new) <=> k = n + 1 \/ (k \in ToSet(path) /\ doc[k].level < level)
    <3>1. ASSUME k \in ToSet(new)
          PROVE  k = n + 1 \/ (k \in ToSet(path) /\ doc[k].level < level)
      <4>1. PICK i \in 1..Len(new) : k = new[i]
        BY <1>4, <3>1, InToSet
      <4>2. CASE i = Len(new)
        BY <1>4, <4>1, <4>2
      <4>3. CASE i # Len(new)
        <5>1. i \in 1..Len(path) /\ k = path[i]
          BY <1>6, <4>1, <4>3
        <5>2. k \in ToSet(path)
          BY <5>1, InToSet
        <5>3. doc[k].level = i /\ i < level
          BY <1>1, <1>4, <2>1, <2>3, <4>3, <5>1
        <5> QED
          BY <5>2, <5>3
      <4> QED
        BY <4>2, <4>3
    <3>2. ASSUME k = n + 1
          PROVE  k \in ToSet(new)
      BY <1>4, <3>2, InToSet
    <3>3. ASSUME k \in ToSet(path), doc[k].level < level
          PROVE  k \in ToSet(new)
      <4>1. PICK i \in 1..Len(path) : k = path[i]
        BY <3>3, InToSet
      <4>2. i < level
        BY <2>1, <3>3, <4>1
      <4>3. i \in 1..Len(new) /\ i # Len(new)
        BY <1>1, <1>4, <2>3, <4>2
      <4>4. new[i] = k
        BY <1>6, <4>1, <4>3
      <4> QED
        BY <1>4, <4>3, <4>4, InToSet
    <3> QED
      BY <3>1, <3>2, <3>3
  <2>6. ASSUME NEW k
        PROVE  k \in Enclosing(doc, n + 1)
                 <=> k = n + 1 \/ (k \in Enclosing(doc, n) /\ doc[k].level < level)
    <3>1. \A m \in Headings(doc) : m \in Nat /\ doc[m].level \in Nat
      BY LineTypes
    <3>2. CASE k \notin Headings(doc)
      BY <1>2, <3>2 DEF Enclosing
    <3>3. CASE k \in Headings(doc) /\ k = n + 1
      <4>1. \A m \in Headings(doc) : ~(k < m /\ m <= n + 1)
        BY <1>1, <3>1, <3>3
      <4>2. k <= n + 1
        BY <1>1, <3>3
      <4> QED
        BY <3>3, <4>1, <4>2 DEF Enclosing
    <3>4. CASE k \in Headings(doc) /\ ~(k <= n + 1)
      BY <1>1, <3>1, <3>4 DEF Enclosing
    <3>5. CASE k \in Headings(doc) /\ k <= n
      <4>1. \A m \in Headings(doc) : m <= n + 1 <=> m <= n \/ m = n + 1
        BY <1>1, <3>1
      <4>2. k < n + 1 /\ k <= n + 1 /\ k # n + 1
        BY <1>1, <3>1, <3>5
      <4>3. (level <= doc[k].level) <=> ~(doc[k].level < level)
        BY <1>1, <3>1, <3>5
      <4> QED
        BY <1>2, <3>5, <4>1, <4>2, <4>3 DEF Enclosing, level
    <3> QED
      BY <1>1, <3>1, <3>2, <3>3, <3>4, <3>5
  <2>7. ToSet(new) = Enclosing(doc, n + 1)
    BY <2>1, <2>5, <2>6
  <2>8. new # <<>> /\ new[Len(new)] = n + 1
    BY <1>4
  <2> QED
    BY <2>4, <2>7, <2>8
<1> QED
  BY <1>4, <1>7, <1>8, <1>9 DEF PathInv, new, kept, level

-----------------------------------------------------------------------------
(* Sections divide the document *)

\* The line at which the section of a path starts: its last heading, or line 1.
First(path) == IF path = <<>> THEN 1 ELSE path[Len(path)]

EndOf(section) == section.body[Len(section.body)]

IsConsecutive(body) == body # <<>> /\ \A j \in 1..Len(body) : body[j] = body[1] + (j - 1)

\* In a document that skips no level the path encloses every line of the body.
StandsUnder(doc, path, body) ==
  Nested(doc) => \A j \in 1..Len(body) : ToSet(path) = Enclosing(doc, body[j])

\* A section has consecutive lines, starts at its last heading, or at line 1
\* without one, and stands under its path.
IsSection(doc, section) ==
  /\ section \in SectionType(doc)
  /\ IsConsecutive(section.body)
  /\ section.body[1] = First(section.path)
  /\ Ascending(section.path)
  /\ StandsUnder(doc, section.path, section.body)

\* Sections without gap or overlap, from line 1 to line n.
IsDivision(doc, sections, n) ==
  /\ sections \in Seq(SectionType(doc))
  /\ \A i \in 1..Len(sections) : IsSection(doc, sections[i])
  /\ sections = <<>> => n = 0
  /\ sections # <<>> => sections[1].body[1] = 1 /\ EndOf(sections[Len(sections)]) = n
  /\ \A i \in 1..Len(sections) - 1 : sections[i + 1].body[1] = EndOf(sections[i]) + 1

\* A division grows by a section that starts after its last line.
LEMMA DivisionGrows ==
  ASSUME NEW doc \in Seq(Line), NEW sections, NEW n \in Nat, NEW section,
         IsDivision(doc, sections, n), IsSection(doc, section), section.body[1] = n + 1
  PROVE  IsDivision(doc, Append(sections, section), EndOf(section))
<1> DEFINE new == Append(sections, section)
<1>1. sections \in Seq(SectionType(doc)) /\ section \in SectionType(doc)
  BY DEF IsDivision, IsSection
<1>2. /\ new \in Seq(SectionType(doc)) /\ Len(new) = Len(sections) + 1
      /\ Len(sections) \in Nat
      /\ new[Len(new)] = section
      /\ \A i \in 1..Len(sections) : new[i] = sections[i]
  BY <1>1, AppendProperties
<1> HIDE DEF new
<1>3. new # <<>>
  BY <1>2
<1>4. ASSUME NEW i \in 1..Len(new)
      PROVE  IsSection(doc, new[i])
  <2>1. i = Len(new) \/ i \in 1..Len(sections)
    BY <1>2
  <2> QED
    BY <1>2, <2>1 DEF IsDivision
<1>5. new[1].body[1] = 1
  <2>1. CASE sections = <<>>
    BY <1>2, <2>1 DEF IsDivision
  <2>2. CASE sections # <<>>
    <3>1. 1 \in 1..Len(sections)
      BY <1>1, <1>2, <2>2
    <3> QED
      BY <1>2, <2>2, <3>1 DEF IsDivision
  <2> QED
    BY <2>1, <2>2
<1>6. ASSUME NEW i \in 1..Len(new) - 1
      PROVE  new[i + 1].body[1] = EndOf(new[i]) + 1
  <2>1. CASE i = Len(sections)
    <3>1. sections # <<>> /\ i \in 1..Len(sections) /\ i + 1 = Len(new)
      BY <1>2, <2>1
    <3> QED
      BY <1>2, <2>1, <3>1 DEF IsDivision
  <2>2. CASE i # Len(sections)
    <3>1. i \in 1..Len(sections) - 1 /\ i \in 1..Len(sections) /\ i + 1 \in 1..Len(sections)
      BY <1>2, <2>2
    <3> QED
      BY <1>2, <3>1 DEF IsDivision
  <2> QED
    BY <2>1, <2>2
<1>7. IsDivision(doc, new, EndOf(section))
  BY <1>2, <1>3, <1>4, <1>5, <1>6 DEF IsDivision
<1> QED
  BY <1>7 DEF new

\* After n lines: what is closed is divided up to the line before the body, and
\* the path with the body is a section that ends with line n.
ScanInv(doc, scan, n) ==
  /\ scan \in ScanType(doc)
  /\ PathInv(doc, scan.path, n)
  /\ n = 0 => scan = NoScan
  /\ n # 0 => /\ IsSection(doc, [path |-> scan.path, body |-> scan.body])
              /\ EndOf(scan) = n
  /\ IsDivision(doc, scan.done, IF n = 0 THEN 0 ELSE scan.body[1] - 1)

\* The scan starts with nothing.
LEMMA ScanStarts ==
  ASSUME NEW doc \in Seq(Line)
  PROVE  ScanInv(doc, NoScan, 0)
<1>1. NoScan \in ScanType(doc)
  BY DEF NoScan, ScanType
<1>2. PathInv(doc, NoScan.path, 0)
  BY PathAtStart DEF NoScan
<1>3. IsDivision(doc, <<>>, 0)
  BY DEF IsDivision
<1> QED
  BY <1>1, <1>2, <1>3 DEF ScanInv, NoScan

\* With the open section closed the sections divide the lines up to n.
LEMMA ClosedDivides ==
  ASSUME NEW doc \in Seq(Line), NEW n \in 0..Len(doc), NEW scan, ScanInv(doc, scan, n)
  PROVE  IsDivision(doc, Closed(scan), n)
<1> DEFINE section == [path |-> scan.path, body |-> scan.body]
<1>1. CASE n = 0
  <2>1. Closed(scan) = scan.done
    BY <1>1 DEF ScanInv, NoScan, Closed
  <2> QED
    BY <1>1, <2>1 DEF ScanInv
<1>2. CASE n # 0
  <2>1. /\ IsSection(doc, section) /\ EndOf(section) = n
        /\ IsDivision(doc, scan.done, section.body[1] - 1)
    BY <1>2 DEF ScanInv, EndOf
  <2>2. section.body # <<>> /\ section.body \in Seq(DOMAIN doc)
    BY <2>1 DEF IsSection, IsConsecutive, SectionType
  <2>3. Closed(scan) = Append(scan.done, section)
    BY <2>2 DEF Closed
  <2>4. section.body[1] - 1 \in Nat /\ section.body[1] = (section.body[1] - 1) + 1
    <3>1. section.body[1] \in DOMAIN doc
      BY <2>2, ElementOfSeq
    <3> QED
      BY <3>1, LineTypes
  <2> HIDE DEF section
  <2> QED
    BY <2>1, <2>3, <2>4, DivisionGrows
<1> QED
  BY <1>1, <1>2

\* A line of text belongs to the open section.
LEMMA TextLineKeepsScan ==
  ASSUME NEW doc \in Seq(Line), NEW n \in 0..Len(doc) - 1, NEW scan, ScanInv(doc, scan, n),
         doc[n + 1].level = 0
  PROVE  ScanInv(doc, ScanLine(doc, scan, n + 1), n + 1)
<1> DEFINE next == ScanLine(doc, scan, n + 1)
           body == Append(scan.body, n + 1)
<1>1. n \in Nat /\ n + 1 \in DOMAIN doc /\ n + 1 # 0
  BY LineTypes
<1>2. /\ scan \in ScanType(doc) /\ next \in ScanType(doc)
      /\ scan.path \in Seq(DOMAIN doc) /\ scan.body \in Seq(DOMAIN doc)
  BY <1>1, ScanLineType DEF ScanInv, ScanType
<1>3. next.done = scan.done /\ next.path = scan.path /\ next.body = body
  BY <1>2 DEF ScanLine, ScanType
<1> HIDE DEF next
<1>4. PathInv(doc, scan.path, n + 1)
  BY <1>2, PathAtText DEF ScanInv
<1>5. /\ body \in Seq(DOMAIN doc) /\ Len(body) = Len(scan.body) + 1 /\ Len(scan.body) \in Nat
      /\ body[Len(body)] = n + 1
      /\ \A j \in 1..Len(scan.body) : body[j] = scan.body[j]
  BY <1>1, <1>2, AppendProperties
<1> HIDE DEF body
<1>6. body # <<>>
  BY <1>5
<1>7. Nested(doc) => ToSet(scan.path) = Enclosing(doc, n + 1)
  BY <1>4 DEF PathInv
<1>8. ASSUME n = 0
      PROVE  ScanInv(doc, next, n + 1)
  <2>1. scan.path = <<>> /\ scan.body = <<>> /\ Len(body) = 1
    BY <1>5, <1>8 DEF ScanInv, NoScan
  <2>2. body[1] = 1
    BY <1>5, <1>8, <2>1
  <2>3. IsConsecutive(body)
    BY <1>6, <2>1, <2>2 DEF IsConsecutive
  <2>4. StandsUnder(doc, scan.path, body)
    <3>1. \A j \in 1..Len(body) : body[j] = n + 1
      BY <1>5, <2>1
    <3> QED
      BY <1>7, <3>1 DEF StandsUnder
  <2>5. IsSection(doc, [path |-> next.path, body |-> next.body])
    BY <1>2, <1>3, <1>4, <1>5, <2>1, <2>2, <2>3, <2>4
       DEF IsSection, SectionType, First, PathInv
  <2>6. IsDivision(doc, next.done, next.body[1] - 1)
    BY <1>3, <1>8, <2>2 DEF ScanInv
  <2> QED
    BY <1>1, <1>2, <1>3, <1>4, <1>5, <2>5, <2>6 DEF ScanInv, EndOf
<1>9. ASSUME n # 0
      PROVE  ScanInv(doc, next, n + 1)
  <2>1. /\ IsSection(doc, [path |-> scan.path, body |-> scan.body])
        /\ scan.body[Len(scan.body)] = n
        /\ IsDivision(doc, scan.done, scan.body[1] - 1)
    BY <1>9 DEF ScanInv, EndOf
  <2>2. /\ IsConsecutive(scan.body) /\ scan.body[1] = First(scan.path)
        /\ StandsUnder(doc, scan.path, scan.body)
    BY <2>1 DEF IsSection
  <2>3. 1 \in 1..Len(scan.body) /\ Len(scan.body) \in 1..Len(scan.body)
    BY <1>2, <1>5, <2>2 DEF IsConsecutive
  <2>4. body[1] = scan.body[1] /\ scan.body[1] \in Nat
    <3>1. scan.body[1] \in DOMAIN doc
      BY <1>2, <2>3, ElementOfSeq
    <3> QED
      BY <1>5, <2>3, <3>1, LineTypes
  <2>5. n = scan.body[1] + (Len(scan.body) - 1)
    BY <2>1, <2>2, <2>3 DEF IsConsecutive
  <2>6. ASSUME NEW j \in 1..Len(body)
        PROVE  body[j] = body[1] + (j - 1)
    <3>1. CASE j = Len(body)
      BY <1>5, <2>4, <2>5, <3>1
    <3>2. CASE j # Len(body)
      <4>1. j \in 1..Len(scan.body)
        BY <1>5, <3>2
      <4> QED
        BY <1>5, <2>2, <2>4, <4>1 DEF IsConsecutive
    <3> QED
      BY <3>1, <3>2
  <2>7. IsConsecutive(body)
    BY <1>6, <2>6 DEF IsConsecutive
  <2>8. StandsUnder(doc, scan.path, body)
    <3> SUFFICES ASSUME Nested(doc), NEW j \in 1..Len(body)
                 PROVE  ToSet(scan.path) = Enclosing(doc, body[j])
      BY DEF StandsUnder
    <3>1. CASE j = Len(body)
      BY <1>5, <1>7, <3>1
    <3>2. CASE j # Len(body)
      <4>1. j \in 1..Len(scan.body)
        BY <1>5, <3>2
      <4> QED
        BY <1>5, <2>2, <4>1 DEF StandsUnder
    <3> QED
      BY <3>1, <3>2
  <2>9. IsSection(doc, [path |-> next.path, body |-> next.body])
    BY <1>2, <1>3, <1>4, <1>5, <2>2, <2>4, <2>7, <2>8 DEF IsSection, SectionType, PathInv
  <2> QED
    BY <1>1, <1>2, <1>3, <1>4, <1>5, <2>1, <2>4, <2>9 DEF ScanInv, EndOf
<1> QED
  BY <1>8, <1>9 DEF next

\* A heading closes the open section and opens its own.
LEMMA HeadingKeepsScan ==
  ASSUME NEW doc \in Seq(Line), NEW n \in 0..Len(doc) - 1, NEW scan, ScanInv(doc, scan, n),
         doc[n + 1].level # 0
  PROVE  ScanInv(doc, ScanLine(doc, scan, n + 1), n + 1)
<1> DEFINE next == ScanLine(doc, scan, n + 1)
           path == Append(Kept(scan.path, doc[n + 1].level), n + 1)
<1>1. n \in Nat /\ n \in 0..Len(doc) /\ n + 1 \in DOMAIN doc /\ n + 1 # 0 /\ (n + 1) - 1 = n
  BY LineTypes
<1>2. /\ scan \in ScanType(doc) /\ next \in ScanType(doc)
      /\ scan.path \in Seq(DOMAIN doc)
  BY <1>1, ScanLineType DEF ScanInv, ScanType
<1>3. next.done = Closed(scan) /\ next.path = path /\ next.body = <<n + 1>>
  BY DEF ScanLine
<1>4. IsDivision(doc, Closed(scan), n)
  BY <1>1, ClosedDivides
<1>5. path \in Seq(DOMAIN doc) /\ PathInv(doc, path, n + 1)
  BY <1>2, PathAtHeading DEF ScanInv
<1>6. First(path) = n + 1
  <2>1. Kept(scan.path, doc[n + 1].level) \in Seq(DOMAIN doc)
    <3>1. doc[n + 1].level \in Nat /\ doc[n + 1].level > 0
      BY <1>1, LineTypes
    <3> QED
      BY <1>2, <3>1, KeptType
  <2>2. path # <<>> /\ path[Len(path)] = n + 1
    BY <1>1, <2>1, AppendProperties
  <2> QED
    BY <2>2 DEF First
<1> HIDE DEF next, path
<1>7. IsConsecutive(<<n + 1>>) /\ <<n + 1>>[1] = n + 1 /\ <<n + 1>> \in Seq(DOMAIN doc)
  BY <1>1 DEF IsConsecutive
<1>8. StandsUnder(doc, path, <<n + 1>>)
  <2>1. \A j \in 1..Len(<<n + 1>>) : <<n + 1>>[j] = n + 1
    OBVIOUS
  <2> QED
    BY <1>5, <2>1 DEF StandsUnder, PathInv
<1>9. IsSection(doc, [path |-> next.path, body |-> next.body])
  BY <1>3, <1>5, <1>6, <1>7, <1>8 DEF IsSection, SectionType, PathInv
<1>10. EndOf(next) = n + 1
  BY <1>3 DEF EndOf
<1>11. IsDivision(doc, next.done, next.body[1] - 1)
  BY <1>1, <1>3, <1>4, <1>7
<1> QED
  BY <1>1, <1>2, <1>3, <1>5, <1>9, <1>10, <1>11 DEF ScanInv, next

\* The sections of a document divide it (knowledge.py, _sections): every line is
\* in one section, and in the section of the headings it stands under.
THEOREM SectionsDivide ==
  ASSUME NEW doc \in Seq(Line)
  PROVE  IsDivision(doc, Sections(doc), Len(doc))
<1>1. PICK f : /\ f[0] = NoScan
               /\ \A n \in 0..Len(doc) - 1 : f[n + 1] = ScanLine(doc, f[n], n + 1)
               /\ Sections(doc) = Closed(f[Len(doc)])
  BY ScanRuns
<1> DEFINE Done == {n \in 0..Len(doc) : ScanInv(doc, f[n], n)}
<1>2. Len(doc) \in Nat
  OBVIOUS
<1>3. 0 \in Done
  BY <1>1, <1>2, ScanStarts
<1>4. ASSUME NEW n \in 0..Len(doc) - 1, n \in Done
      PROVE  n + 1 \in Done
  <2>1. n + 1 \in 0..Len(doc)
    BY <1>2
  <2>2. ScanInv(doc, f[n], n)
    BY <1>4
  <2>3. ScanInv(doc, ScanLine(doc, f[n], n + 1), n + 1)
    BY <2>2, TextLineKeepsScan, HeadingKeepsScan
  <2> QED
    BY <1>1, <2>1, <2>3
<1> HIDE DEF Done
<1>5. 0..Len(doc) \subseteq Done
  BY <1>2, <1>3, <1>4, InductionUpTo
<1>6. Len(doc) \in 0..Len(doc)
  BY <1>2
<1>7. ScanInv(doc, f[Len(doc)], Len(doc))
  BY <1>5, <1>6 DEF Done
<1> QED
  BY <1>1, <1>6, <1>7, ClosedDivides

-----------------------------------------------------------------------------
(* Paragraphs keep the text of a section *)

\* The lines with text from a to b.
TextIn(doc, a, b) == {n \in DOMAIN doc : a <= n /\ n <= b /\ doc[n].len > 0}

IsText(doc, t, a, b) ==
  t \in Seq(DOMAIN doc) /\ Ascending(t) /\ ToSet(t) = TextIn(doc, a, b)

\* There is no text in no lines.
LEMMA NoText ==
  ASSUME NEW doc \in Seq(Line), NEW a \in Nat, NEW b \in Int, b < a
  PROVE  IsText(doc, <<>>, a, b)
<1>1. ToSet(<<>>) = {}
  BY DEF ToSet
<1>2. TextIn(doc, a, b) = {}
  BY LineTypes DEF TextIn
<1>3. \A i \in 1..Len(<<>>) : FALSE
  OBVIOUS
<1> QED
  BY <1>1, <1>2, <1>3 DEF IsText, Ascending

\* Text followed by the text of the lines right after it is text again.
LEMMA TextConcat ==
  ASSUME NEW doc \in Seq(Line), NEW a \in Nat, NEW b \in Int, NEW c \in Int, a <= b + 1, b <= c,
         NEW s, IsText(doc, s, a, b), NEW t, IsText(doc, t, b + 1, c)
  PROVE  IsText(doc, s \o t, a, c)
<1> DEFINE u == s \o t
<1>1. s \in Seq(DOMAIN doc) /\ t \in Seq(DOMAIN doc)
  BY DEF IsText
<1>2. /\ u \in Seq(DOMAIN doc) /\ Len(u) = Len(s) + Len(t) /\ Len(s) \in Nat /\ Len(t) \in Nat
      /\ \A i \in 1..Len(s) : u[i] = s[i]
      /\ \A i \in 1..Len(u) : i > Len(s) => u[i] = t[i - Len(s)]
  BY <1>1, ConcatProperties
<1>3. ToSet(u) = ToSet(s) \cup ToSet(t)
  BY <1>1, ToSetConcat
<1> HIDE DEF u
<1>4. \A i \in 1..Len(s) : s[i] \in Nat /\ s[i] <= b
  <2>1. \A i \in 1..Len(s) : s[i] \in ToSet(s)
    BY <1>1, InToSet
  <2> QED
    BY <2>1, LineTypes DEF IsText, TextIn
<1>5. \A i \in 1..Len(t) : t[i] \in Nat /\ t[i] >= b + 1
  <2>1. \A i \in 1..Len(t) : t[i] \in ToSet(t)
    BY <1>1, InToSet
  <2> QED
    BY <2>1, LineTypes DEF IsText, TextIn
<1>6. Ascending(u)
  <2> SUFFICES ASSUME NEW i \in 1..Len(u), NEW j \in 1..Len(u), i < j
               PROVE  u[i] < u[j]
    BY DEF Ascending
  <2>1. CASE j <= Len(s)
    <3>1. i \in 1..Len(s) /\ j \in 1..Len(s)
      BY <1>2, <2>1
    <3> QED
      BY <1>2, <3>1 DEF IsText, Ascending
  <2>2. CASE i <= Len(s) /\ ~(j <= Len(s))
    <3>1. i \in 1..Len(s) /\ j - Len(s) \in 1..Len(t) /\ j > Len(s)
      BY <1>2, <2>2
    <3>2. u[i] = s[i] /\ u[j] = t[j - Len(s)]
      BY <1>2, <3>1
    <3>3. s[i] \in Nat /\ s[i] <= b /\ t[j - Len(s)] \in Nat /\ t[j - Len(s)] >= b + 1
      BY <1>4, <1>5, <3>1
    <3> QED
      BY <3>2, <3>3
  <2>3. CASE ~(i <= Len(s))
    <3>1. /\ i - Len(s) \in 1..Len(t) /\ j - Len(s) \in 1..Len(t)
          /\ i > Len(s) /\ j > Len(s) /\ i - Len(s) < j - Len(s)
      <4>1. Len(s) \in Nat /\ Len(t) \in Nat /\ Len(u) = Len(s) + Len(t)
        BY <1>2
      <4>2. i \in Nat /\ j \in Nat /\ i <= Len(u) /\ j <= Len(u) /\ i < j /\ i > Len(s)
        BY <2>3, <4>1
      <4> QED
        BY <4>1, <4>2
    <3>2. u[i] = t[i - Len(s)] /\ u[j] = t[j - Len(s)]
      BY <1>2, <3>1
    <3> QED
      BY <3>1, <3>2 DEF IsText, Ascending
  <2> QED
    BY <2>1, <2>2, <2>3
<1>7. ToSet(u) = TextIn(doc, a, c)
  <2>1. ASSUME NEW n \in DOMAIN doc
        PROVE  a <= n /\ n <= c <=> (a <= n /\ n <= b) \/ (b + 1 <= n /\ n <= c)
    <3>1. n \in Nat
      BY LineTypes
    <3> QED
      BY <3>1
  <2>2. TextIn(doc, a, c) = TextIn(doc, a, b) \cup TextIn(doc, b + 1, c)
    BY <2>1 DEF TextIn
  <2> QED
    BY <1>3, <2>2 DEF IsText
<1> QED
  BY <1>2, <1>6, <1>7 DEF IsText, u

\* The text of one line is the line, unless it is blank.
LEMMA TextOfLine ==
  ASSUME NEW doc \in Seq(Line), NEW n \in DOMAIN doc
  PROVE  /\ doc[n].len = 0 => IsText(doc, <<>>, n, n)
         /\ doc[n].len # 0 => IsText(doc, <<n>>, n, n)
<1>1. n \in Nat /\ doc[n].len \in Nat /\ \A m \in DOMAIN doc : n <= m /\ m <= n <=> m = n
  BY LineTypes
<1>2. TextIn(doc, n, n) = IF doc[n].len = 0 THEN {} ELSE {n}
  BY <1>1 DEF TextIn
<1>3. ToSet(<<>>) = {} /\ ToSet(<<n>>) = {n}
  BY DEF ToSet
<1>4. Ascending(<<>>) /\ Ascending(<<n>>)
  BY DEF Ascending
<1>5. <<>> \in Seq(DOMAIN doc) /\ <<n>> \in Seq(DOMAIN doc)
  OBVIOUS
<1>6. CASE doc[n].len = 0
  BY <1>2, <1>3, <1>4, <1>5, <1>6 DEF IsText
<1>7. CASE doc[n].len # 0
  BY <1>2, <1>3, <1>4, <1>5, <1>7 DEF IsText
<1> QED
  BY <1>6, <1>7

AreFilled(ss) == \A i \in 1..Len(ss) : ss[i] # <<>>

\* Sequences with elements, and one more of them.
LEMMA FilledAppend ==
  ASSUME NEW S, NEW ss \in Seq(S), AreFilled(ss), NEW s \in S, s # <<>>
  PROVE  AreFilled(Append(ss, s))
<1>1. /\ Len(Append(ss, s)) = Len(ss) + 1 /\ Len(ss) \in Nat
      /\ \A i \in 1..Len(ss) : Append(ss, s)[i] = ss[i]
      /\ Append(ss, s)[Len(ss) + 1] = s
  BY AppendProperties
<1>2. ASSUME NEW i \in 1..Len(Append(ss, s))
      PROVE  i \in 1..Len(ss) \/ i = Len(ss) + 1
  BY <1>1
<1> QED
  BY <1>1, <1>2 DEF AreFilled

\* The paragraphs so far, with the open one, are the text from a to b.
CutInv(doc, cut, a, b) ==
  /\ cut \in CutType(doc) /\ AreFilled(cut.done)
  /\ IsText(doc, FlattenSeq(cut.done) \o cut.open, a, b)

\* To end the open paragraph loses nothing and makes no empty paragraph.
LEMMA EndedKeepsText ==
  ASSUME NEW doc \in Seq(Line), NEW cut, NEW a, NEW b, CutInv(doc, cut, a, b)
  PROVE  /\ Ended(cut) \in Seq(Seq(DOMAIN doc)) /\ AreFilled(Ended(cut))
         /\ IsText(doc, FlattenSeq(Ended(cut)), a, b)
<1>1. cut.done \in Seq(Seq(DOMAIN doc)) /\ cut.open \in Seq(DOMAIN doc)
  BY DEF CutInv, CutType
<1>2. Ended(cut) \in Seq(Seq(DOMAIN doc))
  BY EndedType DEF CutInv
<1>3. AreFilled(Ended(cut))
  BY <1>1, FilledAppend DEF CutInv, Ended
<1>4. FlattenSeq(Ended(cut)) = FlattenSeq(cut.done) \o cut.open
  <2>1. CASE cut.open = <<>>
    <3>1. FlattenSeq(cut.done) \in Seq(DOMAIN doc)
      BY <1>1, FlattenConcat
    <3> QED
      BY <2>1, <3>1, ConcatEmptySeq DEF Ended
  <2>2. CASE cut.open # <<>>
    BY <1>1, <2>2, FlattenAppend DEF Ended
  <2> QED
    BY <2>1, <2>2
<1> QED
  BY <1>2, <1>3, <1>4 DEF CutInv

\* A line of text continues the open paragraph, a blank line ends it.
LEMMA CutLineKeepsText ==
  ASSUME NEW doc \in Seq(Line), NEW cut, NEW a \in Nat, NEW b \in Int, a <= b + 1,
         CutInv(doc, cut, a, b), b + 1 \in DOMAIN doc
  PROVE  CutInv(doc, CutLine(doc, cut, b + 1), a, b + 1)
<1>1. cut \in CutType(doc) /\ cut.done \in Seq(Seq(DOMAIN doc)) /\ cut.open \in Seq(DOMAIN doc)
  BY DEF CutInv, CutType
<1>2. CutLine(doc, cut, b + 1) \in CutType(doc)
  BY <1>1, CutLineType
<1>3. b <= b + 1 /\ b + 1 \in Int
  OBVIOUS
<1>4. CASE doc[b + 1].len = 0
  <2>1. CutLine(doc, cut, b + 1) = [done |-> Ended(cut), open |-> <<>>]
    BY <1>4 DEF CutLine
  <2>2. /\ Ended(cut) \in Seq(Seq(DOMAIN doc)) /\ AreFilled(Ended(cut))
        /\ IsText(doc, FlattenSeq(Ended(cut)), a, b)
    BY EndedKeepsText
  <2>3. IsText(doc, <<>>, b + 1, b + 1)
    BY <1>4, TextOfLine
  <2>4. IsText(doc, FlattenSeq(Ended(cut)) \o <<>>, a, b + 1)
    BY <1>3, <2>2, <2>3, TextConcat
  <2> DEFINE next == CutLine(doc, cut, b + 1)
  <2>5. next.done = Ended(cut) /\ next.open = <<>>
    BY <2>1
  <2> HIDE DEF next
  <2>6. IsText(doc, FlattenSeq(next.done) \o next.open, a, b + 1) /\ AreFilled(next.done)
    BY <2>2, <2>4, <2>5
  <2>7. next \in CutType(doc)
    BY <1>2 DEF next
  <2>8. CutInv(doc, next, a, b + 1)
    BY <2>6, <2>7 DEF CutInv
  <2> QED
    BY <2>8 DEF next
<1>5. CASE doc[b + 1].len # 0
  <2>1. CutLine(doc, cut, b + 1) = [done |-> cut.done, open |-> Append(cut.open, b + 1)]
    BY <1>1, <1>5 DEF CutLine, CutType
  <2>2. IsText(doc, <<b + 1>>, b + 1, b + 1)
    BY <1>5, TextOfLine
  <2>3. IsText(doc, (FlattenSeq(cut.done) \o cut.open) \o <<b + 1>>, a, b + 1)
    BY <1>3, <2>2, TextConcat DEF CutInv
  <2>4. FlattenSeq(cut.done) \o Append(cut.open, b + 1)
          = (FlattenSeq(cut.done) \o cut.open) \o <<b + 1>>
    <3>1. FlattenSeq(cut.done) \in Seq(DOMAIN doc)
      BY <1>1, FlattenConcat
    <3>2. Append(cut.open, b + 1) = cut.open \o <<b + 1>> /\ <<b + 1>> \in Seq(DOMAIN doc)
      BY <1>1, AppendIsConcat
    <3>3. ConcatRegroups(DOMAIN doc)
      BY ConcatAlwaysRegroups
    <3>4. (FlattenSeq(cut.done) \o cut.open) \o <<b + 1>>
            = FlattenSeq(cut.done) \o (cut.open \o <<b + 1>>)
      BY <1>1, <3>1, <3>2, <3>3 DEF ConcatRegroups
    <3> QED
      BY <3>2, <3>4
  <2> DEFINE next == CutLine(doc, cut, b + 1)
  <2>5. next.done = cut.done /\ next.open = Append(cut.open, b + 1)
    BY <2>1
  <2> HIDE DEF next
  <2>6. IsText(doc, FlattenSeq(next.done) \o next.open, a, b + 1)
    BY <2>3, <2>4, <2>5
  <2>7. next \in CutType(doc)
    BY <1>2 DEF next
  <2>8. AreFilled(next.done)
    BY <2>5 DEF CutInv
  <2>9. CutInv(doc, next, a, b + 1)
    BY <2>6, <2>7, <2>8 DEF CutInv
  <2> QED
    BY <2>9 DEF next
<1> QED
  BY <1>4, <1>5

\* The paragraphs of a section are its text, and none is empty
\* (knowledge.py, _chunk_section).
THEOREM ParagraphsKeepText ==
  ASSUME NEW doc \in Seq(Line), NEW body \in Seq(DOMAIN doc), IsConsecutive(body)
  PROVE  /\ Paragraphs(doc, body) \in Seq(Seq(DOMAIN doc))
         /\ AreFilled(Paragraphs(doc, body))
         /\ IsText(doc, FlattenSeq(Paragraphs(doc, body)), body[1], body[Len(body)])
<1> DEFINE a == body[1]
<1>1. PICK f : /\ f[0] = NoCut
               /\ \A n \in 0..Len(body) - 1 : f[n + 1] = CutLine(doc, f[n], body[n + 1])
               /\ Paragraphs(doc, body) = Ended(f[Len(body)])
  BY CutRuns
<1>2. Len(body) \in Nat /\ Len(body) > 0
  BY EmptySeq DEF IsConsecutive
<1>3. a \in Nat
  <2>1. 1 \in 1..Len(body)
    BY <1>2
  <2>2. a \in DOMAIN doc
    BY <2>1, ElementOfSeq
  <2> QED
    BY <2>2, LineTypes
<1>4. \A n \in 1..Len(body) : body[n] = a + (n - 1) /\ body[n] \in DOMAIN doc
  BY ElementOfSeq DEF IsConsecutive
<1> HIDE DEF a
<1> DEFINE Done == {n \in 0..Len(body) : CutInv(doc, f[n], a, a + (n - 1))}
<1>5. 0 \in Done
  <2>1. NoCut \in CutType(doc) /\ NoCut.done = <<>> /\ NoCut.open = <<>>
    BY DEF NoCut, CutType
  <2>2. <<>> \o <<>> = <<>>
    OBVIOUS
  <2>3. AreFilled(<<>>)
    BY DEF AreFilled
  <2>4. a + (0 - 1) \in Int /\ a + (0 - 1) < a
    BY <1>3
  <2>5. IsText(doc, <<>>, a, a + (0 - 1))
    BY <1>3, <2>4, NoText
  <2>6. CutInv(doc, NoCut, a, a + (0 - 1))
    BY <2>1, <2>2, <2>3, <2>5, FlattenEmpty DEF CutInv
  <2>7. 0 \in 0..Len(body)
    BY <1>2
  <2> QED
    BY <1>1, <2>6, <2>7
<1>6. ASSUME NEW n \in 0..Len(body) - 1, n \in Done
      PROVE  n + 1 \in Done
  <2>1. n + 1 \in 0..Len(body) /\ n + 1 \in 1..Len(body)
    BY <1>2
  <2> DEFINE b == a + (n - 1)
  <2>2. /\ b \in Int /\ a <= b + 1 /\ body[n + 1] = b + 1 /\ b + 1 \in DOMAIN doc
        /\ b + 1 = a + ((n + 1) - 1)
    <3>1. body[n + 1] = a + ((n + 1) - 1) /\ body[n + 1] \in DOMAIN doc
      BY <1>4, <2>1
    <3>2. b \in Int /\ a <= b + 1 /\ b + 1 = a + ((n + 1) - 1)
      BY <1>3
    <3> QED
      BY <3>1, <3>2
  <2>3. CutInv(doc, f[n], a, b)
    BY <1>6
  <2> HIDE DEF b
  <2>4. CutInv(doc, CutLine(doc, f[n], b + 1), a, b + 1)
    BY <1>3, <2>2, <2>3, CutLineKeepsText
  <2> QED
    BY <1>1, <2>1, <2>2, <2>4
<1> HIDE DEF Done
<1>7. 0..Len(body) \subseteq Done
  BY <1>2, <1>5, <1>6, InductionUpTo
<1>8. Len(body) \in 0..Len(body) /\ Len(body) \in 1..Len(body)
  BY <1>2
<1>9. CutInv(doc, f[Len(body)], a, body[Len(body)])
  <2>1. body[Len(body)] = a + (Len(body) - 1)
    BY <1>4, <1>8
  <2> QED
    BY <1>7, <1>8, <2>1 DEF Done
<1> QED
  BY <1>1, <1>9, EndedKeepsText DEF a

-----------------------------------------------------------------------------
(* Packs are within the limit, and full *)

\* A pack is within the limit, or one paragraph that is too long itself.
IsWithin(doc, pack) == ChunkLength(doc, pack) <= MaxChars \/ Len(pack) = 1

\* A pack that could not take the paragraph the next one starts with.
IsFull(doc, pack, next) == ChunkLength(doc, Append(pack, Head(next))) > MaxChars

PacksFit(doc, packs) ==
  /\ AreFilled(packs)
  /\ \A i \in 1..Len(packs) : IsWithin(doc, packs[i])
  /\ \A i \in 1..Len(packs) - 1 : IsFull(doc, packs[i], packs[i + 1])

\* A paragraph adds its length and the two newlines before it.
LEMMA ChunkLengthAppend ==
  ASSUME NEW doc \in Seq(Line), NEW open \in Seq(Seq(DOMAIN doc)), NEW p \in Seq(DOMAIN doc)
  PROVE  /\ ChunkLength(doc, open) \in Int
         /\ ChunkLength(doc, Append(open, p)) = ChunkLength(doc, open) + LengthOf(doc, p) + 2
<1> DEFINE new == Append(open, p)
           s == [i \in DOMAIN open |-> LengthOf(doc, open[i])]
           t == [i \in DOMAIN new |-> LengthOf(doc, new[i])]
<1>1. Len(open) \in Nat /\ DOMAIN open = 1..Len(open)
  OBVIOUS
<1>2. new \in Seq(Seq(DOMAIN doc)) /\ Len(new) = Len(open) + 1
  BY AppendProperties
<1>3. /\ \A i \in 1..Len(open) : new[i] = open[i]
      /\ new[Len(new)] = p
      /\ DOMAIN new = 1..Len(new)
  BY AppendProperties
<1> HIDE DEF new
<1>4. \A i \in 1..Len(open) : LengthOf(doc, open[i]) \in Int
  BY ElementOfSeq, LengthOfType
<1>5. \A i \in 1..Len(new) : LengthOf(doc, new[i]) \in Int
  BY <1>2, ElementOfSeq, LengthOfType
<1>6. s \in Seq(Int) /\ Len(s) = Len(open) /\ \A i \in 1..Len(open) : s[i] = LengthOf(doc, open[i])
  BY <1>1, <1>4
<1>7. t \in Seq(Int) /\ Len(t) = Len(new) /\ \A i \in 1..Len(new) : t[i] = LengthOf(doc, new[i])
  BY <1>1, <1>2, <1>3, <1>5
<1>8. ChunkLength(doc, open) = Total(s) + 2 * (Len(open) - 1)
  BY DEF ChunkLength
<1>9. ChunkLength(doc, new) = Total(t) + 2 * (Len(new) - 1)
  BY DEF ChunkLength
<1> HIDE DEF s, t
<1>10. Len(t) = Len(s) + 1 /\ \A i \in 1..Len(s) : t[i] = s[i]
  <2>1. Len(t) = Len(s) + 1
    BY <1>2, <1>6, <1>7
  <2>2. ASSUME NEW i \in 1..Len(s)
        PROVE  t[i] = s[i]
    <3>1. i \in 1..Len(open) /\ i \in 1..Len(new)
      BY <1>1, <1>2, <1>6
    <3> QED
      BY <1>3, <1>6, <1>7, <3>1
  <2> QED
    BY <2>1, <2>2
<1>11. Total(t) = Total(s) + t[Len(t)]
  BY <1>6, <1>7, <1>10, TotalAppend
<1>12. t[Len(t)] = LengthOf(doc, p)
  <2>1. Len(new) \in 1..Len(new)
    BY <1>1, <1>2
  <2> QED
    BY <1>3, <1>7, <2>1
<1>13. Total(s) \in Int /\ LengthOf(doc, p) \in Int
  BY <1>6, TotalType, LengthOfType
<1>14. ChunkLength(doc, open) \in Int
  BY <1>1, <1>8, <1>13
<1>15. ChunkLength(doc, new) = ChunkLength(doc, open) + LengthOf(doc, p) + 2
  BY <1>1, <1>2, <1>8, <1>9, <1>11, <1>12, <1>13
<1> QED
  BY <1>14, <1>15 DEF new

\* A chunk of one paragraph has its length, with no newlines to join.
LEMMA ChunkLengthOne ==
  ASSUME NEW doc \in Seq(Line), NEW p \in Seq(DOMAIN doc)
  PROVE  ChunkLength(doc, <<p>>) = LengthOf(doc, p)
<1>1. <<>> \in Seq(Seq(DOMAIN doc)) /\ Append(<<>>, p) = <<p>>
  OBVIOUS
<1>2. ChunkLength(doc, <<>>) = -2
  <2>1. <<>> \in Seq(Int)
    OBVIOUS
  <2>2. PICK f : f[0] = 0 /\ Total(<<>>) = f[Len(<<>>)]
    BY <2>1, TotalRuns
  <2>3. Total(<<>>) = 0
    BY <2>2
  <2>4. [i \in DOMAIN <<>> |-> LengthOf(doc, <<>>[i])] = <<>>
    OBVIOUS
  <2> QED
    BY <2>3, <2>4 DEF ChunkLength
<1>3. ChunkLength(doc, <<p>>) = ChunkLength(doc, <<>>) + LengthOf(doc, p) + 2
  BY <1>1, ChunkLengthAppend
<1> QED
  BY <1>2, <1>3, LengthOfType

\* Packs fit exactly if those before the last fit, the last is within the limit
\* and the one before it was full when it was closed.
LEMMA PacksFitAppend ==
  ASSUME NEW doc \in Seq(Line), NEW packs \in Seq(Seq(Seq(DOMAIN doc))),
         NEW pack \in Seq(Seq(DOMAIN doc))
  PROVE  PacksFit(doc, Append(packs, pack)) <=>
           /\ PacksFit(doc, packs) /\ pack # <<>> /\ IsWithin(doc, pack)
           /\ packs # <<>> => IsFull(doc, packs[Len(packs)], pack)
<1> DEFINE new == Append(packs, pack)
<1>1. Len(packs) \in Nat /\ Len(new) = Len(packs) + 1 /\ (packs = <<>> <=> Len(packs) = 0)
  BY AppendProperties, EmptySeq
<1>2. new[Len(new)] = pack /\ \A i \in 1..Len(packs) : new[i] = packs[i]
  BY AppendProperties
<1> HIDE DEF new
<1>3. \A i \in 1..Len(new) : i = Len(new) \/ i \in 1..Len(packs)
  BY <1>1
<1>4. Len(new) \in 1..Len(new) /\ \A i \in 1..Len(packs) : i \in 1..Len(new)
  BY <1>1
<1>5. AreFilled(new) <=> AreFilled(packs) /\ pack # <<>>
  BY <1>2, <1>3, <1>4 DEF AreFilled
<1>6. (\A i \in 1..Len(new) : IsWithin(doc, new[i])) <=>
        (\A i \in 1..Len(packs) : IsWithin(doc, packs[i])) /\ IsWithin(doc, pack)
  BY <1>2, <1>3, <1>4
<1>7. ASSUME NEW i \in 1..Len(packs) - 1
      PROVE  i \in 1..Len(new) - 1 /\ new[i] = packs[i] /\ new[i + 1] = packs[i + 1]
  <2>1. i \in 1..Len(new) - 1 /\ i \in 1..Len(packs) /\ i + 1 \in 1..Len(packs)
    BY <1>1
  <2> QED
    BY <1>2, <2>1
<1>8. ASSUME packs # <<>>
      PROVE  /\ Len(packs) \in 1..Len(new) - 1
             /\ new[Len(packs)] = packs[Len(packs)] /\ new[Len(packs) + 1] = pack
  <2>1. Len(packs) \in 1..Len(new) - 1 /\ Len(packs) \in 1..Len(packs)
    BY <1>1, <1>8
  <2> QED
    BY <1>1, <1>2, <2>1
<1>9. \A i \in 1..Len(new) - 1 : i \in 1..Len(packs) - 1 \/ (i = Len(packs) /\ packs # <<>>)
  BY <1>1
<1>10. (\A i \in 1..Len(new) - 1 : IsFull(doc, new[i], new[i + 1])) <=>
         /\ \A i \in 1..Len(packs) - 1 : IsFull(doc, packs[i], packs[i + 1])
         /\ packs # <<>> => IsFull(doc, packs[Len(packs)], pack)
  BY <1>7, <1>8, <1>9
<1>11. PacksFit(doc, new) <=>
         /\ PacksFit(doc, packs) /\ pack # <<>> /\ IsWithin(doc, pack)
         /\ packs # <<>> => IsFull(doc, packs[Len(packs)], pack)
  BY <1>5, <1>6, <1>10 DEF PacksFit
<1> QED
  BY <1>11 DEF new

\* The packs so far, with the open one, are the paragraphs so far and fit, and
\* the length kept with the open pack is the one its chunk will have.
PackInv(doc, pack, q) ==
  /\ pack \in PackType(doc)
  /\ FlattenSeq(Packed(pack)) = q
  /\ PacksFit(doc, Packed(pack))
  /\ pack.open = <<>> => pack.done = <<>> /\ pack.length = 0
  /\ pack.open # <<>> => pack.length = ChunkLength(doc, pack.open)

\* The packing starts with nothing.
LEMMA PackStarts ==
  ASSUME NEW doc \in Seq(Line)
  PROVE  PackInv(doc, NoPack, <<>>)
<1>1. NoPack \in PackType(doc) /\ NoPack.open = <<>> /\ NoPack.done = <<>> /\ NoPack.length = 0
  BY DEF NoPack, PackType
<1>2. Packed(NoPack) = <<>>
  BY <1>1 DEF Packed
<1>3. PacksFit(doc, <<>>)
  BY DEF PacksFit, AreFilled
<1> QED
  BY <1>1, <1>2, <1>3, FlattenEmpty DEF PackInv

\* A paragraph either joins the open pack or closes it and opens its own
\* (knowledge.py, _chunk_section): the projected length is that of the chunk.
LEMMA PackKeepsInv ==
  ASSUME NEW doc \in Seq(Line), NEW pack, NEW q \in Seq(Seq(DOMAIN doc)), PackInv(doc, pack, q),
         NEW p \in Seq(DOMAIN doc)
  PROVE  PackInv(doc, Pack(doc, pack, p), Append(q, p))
<1> DEFINE next == Pack(doc, pack, p)
           projected == pack.length + LengthOf(doc, p) + Joint(pack.open)
<1>1. /\ pack \in PackType(doc)
      /\ pack.done \in Seq(Seq(Seq(DOMAIN doc))) /\ pack.open \in Seq(Seq(DOMAIN doc))
      /\ pack.length \in Int
  BY DEF PackInv, PackType
<1>2. next \in PackType(doc)
  BY <1>1, PackStepType
<1>3. /\ <<p>> \in Seq(Seq(DOMAIN doc)) /\ <<p>> # <<>> /\ Head(<<p>>) = p /\ Len(<<p>>) = 1
      /\ Append(<<>>, p) = <<p>>
      /\ <<>> \in Seq(Seq(DOMAIN doc)) /\ <<>> \in Seq(Seq(Seq(DOMAIN doc)))
  OBVIOUS
<1>4. IsWithin(doc, <<p>>)
  BY <1>3 DEF IsWithin
<1>5. CASE pack.open = <<>>
  <2>1. pack.done = <<>> /\ pack.length = 0 /\ q = <<>>
    BY <1>5, FlattenEmpty DEF PackInv, Packed
  <2>2. next = [pack EXCEPT !.open = Append(@, p), !.length = projected]
    BY <1>5 DEF Pack
  <2>3. next.done = <<>> /\ next.open = <<p>> /\ next.length = projected
    BY <1>1, <1>3, <1>5, <2>1, <2>2 DEF PackType
  <2>4. projected = ChunkLength(doc, <<p>>)
    <3>1. Joint(pack.open) = 0
      BY <1>5 DEF Joint
    <3>2. projected = LengthOf(doc, p)
      BY <2>1, <3>1, LengthOfType
    <3> QED
      BY <3>2, ChunkLengthOne
  <2> HIDE DEF next, projected
  <2>5. Packed(next) = Append(<<>>, <<p>>)
    BY <1>3, <2>3 DEF Packed
  <2>6. FlattenSeq(Packed(next)) = Append(q, p)
    <3>1. FlattenSeq(<<<<p>>>>) = <<p>>
      BY <1>3, FlattenOne
    <3>2. Append(<<>>, <<p>>) = <<<<p>>>>
      OBVIOUS
    <3> QED
      BY <1>3, <2>1, <2>5, <3>1, <3>2
  <2>7. PacksFit(doc, <<>>)
    BY DEF PacksFit, AreFilled
  <2>8. PacksFit(doc, Packed(next))
    <3>1. PacksFit(doc, Append(<<>>, <<p>>)) <=>
            /\ PacksFit(doc, <<>>) /\ <<p>> # <<>> /\ IsWithin(doc, <<p>>)
            /\ <<>> # <<>> => IsFull(doc, <<>>[Len(<<>>)], <<p>>)
      BY <1>3, PacksFitAppend, Zenon
    <3> QED
      BY <1>3, <1>4, <2>5, <2>7, <3>1, Zenon
  <2>9. PackInv(doc, next, Append(q, p))
    BY <1>2, <1>3, <2>3, <2>4, <2>6, <2>8 DEF PackInv
  <2> QED
    BY <2>9 DEF next
<1>6. CASE pack.open # <<>>
  <2>1. Packed(pack) = Append(pack.done, pack.open) /\ pack.length = ChunkLength(doc, pack.open)
    BY <1>6 DEF PackInv, Packed
  <2>2. PacksFit(doc, Append(pack.done, pack.open)) /\ FlattenSeq(Append(pack.done, pack.open)) = q
    BY <2>1 DEF PackInv
  <2>3. projected = ChunkLength(doc, Append(pack.open, p))
    <3>1. Joint(pack.open) = 2
      BY <1>6 DEF Joint
    <3>2. ChunkLength(doc, Append(pack.open, p))
            = ChunkLength(doc, pack.open) + LengthOf(doc, p) + 2
      BY <1>1, ChunkLengthAppend
    <3> QED
      BY <2>1, <3>1, <3>2
  <2>4. Append(pack.done, pack.open) \in Seq(Seq(Seq(DOMAIN doc)))
    BY <1>1, AppendProperties
  <2>5. CASE projected > MaxChars
    <3>1. next = [done |-> Append(pack.done, pack.open), open |-> <<p>>,
                  length |-> LengthOf(doc, p)]
      BY <1>6, <2>5 DEF Pack
    <3>2. /\ next.done = Append(pack.done, pack.open) /\ next.open = <<p>>
          /\ next.length = ChunkLength(doc, <<p>>)
      BY <3>1, ChunkLengthOne
    <3> HIDE DEF next, projected
    <3>3. Packed(next) = Append(Append(pack.done, pack.open), <<p>>)
      BY <1>3, <3>2 DEF Packed
    <3>4. FlattenSeq(Packed(next)) = Append(q, p)
      <4>1. FlattenSeq(Append(Append(pack.done, pack.open), <<p>>)) = q \o <<p>>
        BY <1>3, <2>2, <2>4, FlattenAppend
      <4>2. Append(q, p) = q \o <<p>>
        BY AppendIsConcat
      <4> QED
        BY <3>3, <4>1, <4>2
    <3>5. IsFull(doc, pack.open, <<p>>)
      BY <1>3, <2>3, <2>5 DEF IsFull
    <3>6. /\ Append(pack.done, pack.open) # <<>>
          /\ Append(pack.done, pack.open)[Len(Append(pack.done, pack.open))] = pack.open
      BY <1>1, AppendProperties
    <3>7. PacksFit(doc, Packed(next))
      <4> DEFINE packs == Append(pack.done, pack.open)
      <4>1. PacksFit(doc, Append(packs, <<p>>)) <=>
              /\ PacksFit(doc, packs) /\ <<p>> # <<>> /\ IsWithin(doc, <<p>>)
              /\ packs # <<>> => IsFull(doc, packs[Len(packs)], <<p>>)
        <5> HIDE DEF packs
        <5> QED
          BY <1>3, <2>4, PacksFitAppend DEF packs
      <4> QED
        BY <1>3, <1>4, <2>2, <3>3, <3>5, <3>6, <4>1, Zenon
    <3>8. PackInv(doc, next, Append(q, p))
      BY <1>2, <1>3, <3>2, <3>4, <3>7 DEF PackInv
    <3> QED
      BY <3>8 DEF next
  <2>6. CASE ~(projected > MaxChars)
    <3>1. next = [pack EXCEPT !.open = Append(@, p), !.length = projected]
      BY <2>6 DEF Pack
    <3>2. /\ next.done = pack.done /\ next.open = Append(pack.open, p)
          /\ next.length = ChunkLength(doc, Append(pack.open, p))
      BY <1>1, <2>3, <3>1 DEF PackType
    <3>3. projected \in Int
      BY <1>1, LengthOfType DEF Joint
    <3> HIDE DEF next, projected
    <3>4. /\ Append(pack.open, p) \in Seq(Seq(DOMAIN doc)) /\ Append(pack.open, p) # <<>>
          /\ Head(Append(pack.open, p)) = Head(pack.open)
      BY <1>1, <1>6, HeadOfAppend
    <3>5. Packed(next) = Append(pack.done, Append(pack.open, p))
      BY <3>2, <3>4 DEF Packed
    <3>6. FlattenSeq(Packed(next)) = Append(q, p)
      <4>1. FlattenSeq(Append(pack.done, Append(pack.open, p)))
              = FlattenSeq(pack.done) \o Append(pack.open, p)
        BY <1>1, <3>4, FlattenAppend
      <4>2. q = FlattenSeq(pack.done) \o pack.open
        BY <1>1, <2>2, FlattenAppend
      <4>3. FlattenSeq(pack.done) \in Seq(Seq(DOMAIN doc))
        BY <1>1, FlattenConcat
      <4>4. ASSUME NEW a \in Seq(Seq(DOMAIN doc)), NEW b \in Seq(Seq(DOMAIN doc))
            PROVE  a \o Append(b, p) = Append(a \o b, p)
        OBVIOUS
      <4>5. FlattenSeq(pack.done) \o Append(pack.open, p)
              = Append(FlattenSeq(pack.done) \o pack.open, p)
        BY <1>1, <4>3, <4>4
      <4> QED
        BY <3>5, <4>1, <4>2, <4>5
    <3>7. IsWithin(doc, Append(pack.open, p))
      BY <2>3, <2>6, <3>3, MaxCharsAssumption DEF IsWithin
    <3>8. /\ PacksFit(doc, pack.done)
          /\ pack.done # <<>> => IsFull(doc, pack.done[Len(pack.done)], pack.open)
      BY <1>1, <2>2, PacksFitAppend
    <3>9. pack.done # <<>> => IsFull(doc, pack.done[Len(pack.done)], Append(pack.open, p))
      BY <3>4, <3>8 DEF IsFull
    <3>10. PacksFit(doc, Packed(next))
      BY <1>1, <3>4, <3>5, <3>7, <3>8, <3>9, PacksFitAppend
    <3>11. PackInv(doc, next, Append(q, p))
      BY <1>2, <3>2, <3>4, <3>6, <3>10 DEF PackInv
    <3> QED
      BY <3>11 DEF next
  <2> QED
    BY <2>5, <2>6
<1> QED
  BY <1>5, <1>6

\* Packing keeps the paragraphs and their order, and the packs fit.
THEOREM PacksKeepParagraphs ==
  ASSUME NEW doc \in Seq(Line), NEW ps \in Seq(Seq(DOMAIN doc))
  PROVE  /\ PacksOf(doc, ps) \in Seq(Seq(Seq(DOMAIN doc)))
         /\ FlattenSeq(PacksOf(doc, ps)) = ps
         /\ PacksFit(doc, PacksOf(doc, ps))
<1>1. PICK f : /\ f[0] = NoPack
               /\ \A n \in 0..Len(ps) - 1 : f[n + 1] = Pack(doc, f[n], ps[n + 1])
               /\ PacksOf(doc, ps) = Packed(f[Len(ps)])
  BY PackRuns
<1> DEFINE Done == {n \in 0..Len(ps) : PackInv(doc, f[n], SubSeq(ps, 1, n))}
<1>2. Len(ps) \in Nat
  OBVIOUS
<1>3. 0 \in Done
  <2>1. SubSeq(ps, 1, 0) = <<>>
    OBVIOUS
  <2>2. PackInv(doc, f[0], SubSeq(ps, 1, 0))
    BY <1>1, <2>1, PackStarts
  <2>3. 0 \in 0..Len(ps)
    BY <1>2
  <2> QED
    BY <2>2, <2>3
<1>4. ASSUME NEW n \in 0..Len(ps) - 1, n \in Done
      PROVE  n + 1 \in Done
  <2>1. n + 1 \in 0..Len(ps) /\ n + 1 \in 1..Len(ps)
    BY <1>2
  <2>2. ps[n + 1] \in Seq(DOMAIN doc) /\ SubSeq(ps, 1, n) \in Seq(Seq(DOMAIN doc))
    <3>1. SubSeq(ps, 1, n) \in Seq(Seq(DOMAIN doc))
      OBVIOUS
    <3> QED
      BY <2>1, <3>1, ElementOfSeq
  <2>3. SubSeq(ps, 1, n + 1) = Append(SubSeq(ps, 1, n), ps[n + 1])
    OBVIOUS
  <2>4. PackInv(doc, f[n], SubSeq(ps, 1, n))
    BY <1>4
  <2>5. PackInv(doc, Pack(doc, f[n], ps[n + 1]), Append(SubSeq(ps, 1, n), ps[n + 1]))
    BY <2>2, <2>4, PackKeepsInv
  <2> QED
    BY <1>1, <2>1, <2>3, <2>5
<1> HIDE DEF Done
<1>5. 0..Len(ps) \subseteq Done
  BY <1>2, <1>3, <1>4, InductionUpTo
<1>6. Len(ps) \in 0..Len(ps)
  BY <1>2
<1>7. PackInv(doc, f[Len(ps)], SubSeq(ps, 1, Len(ps)))
  BY <1>5, <1>6 DEF Done
<1>8. SubSeq(ps, 1, Len(ps)) = ps
  OBVIOUS
<1>9. Packed(f[Len(ps)]) \in Seq(Seq(Seq(DOMAIN doc)))
  <2>1. /\ f[Len(ps)].done \in Seq(Seq(Seq(DOMAIN doc)))
        /\ f[Len(ps)].open \in Seq(Seq(DOMAIN doc))
    BY <1>7 DEF PackInv, PackType
  <2>2. Append(f[Len(ps)].done, f[Len(ps)].open) \in Seq(Seq(Seq(DOMAIN doc)))
    BY <2>1, AppendProperties
  <2> QED
    BY <2>1, <2>2 DEF Packed
<1> QED
  BY <1>1, <1>7, <1>8, <1>9 DEF PackInv

-----------------------------------------------------------------------------
(* Chunks of sections, and of the document *)

ChunkType(doc) == [section : Seq(DOMAIN doc), paragraphs : Seq(Seq(DOMAIN doc))]

IsUnder(doc, chunk) ==
  /\ Ascending(chunk.section)
  /\ Nested(doc) => ToSet(chunk.section) = Enclosing(doc, Head(Head(chunk.paragraphs)))

\* Two chunks of one section: the first could not take more of the second.
IsCutLate(doc, chunk, next) ==
  chunk.section = next.section => IsFull(doc, chunk.paragraphs, next.paragraphs)

\* Chunks that are the text from a to b, each within the limit and under its
\* headings, cut late, and of sections that start between a and b.
AreChunks(doc, cs, a, b) ==
  /\ cs \in Seq(ChunkType(doc))
  /\ IsText(doc, LinesOf(cs), a, b)
  /\ \A i \in 1..Len(cs) : /\ IsUnder(doc, cs[i]) /\ IsWithin(doc, cs[i].paragraphs)
                           /\ First(cs[i].section) \in Nat
                           /\ a <= First(cs[i].section) /\ First(cs[i].section) <= b
  /\ \A i \in 1..Len(cs) - 1 : IsCutLate(doc, cs[i], cs[i + 1])

\* The lines of two sequences of chunks are those of the first, then the second.
LEMMA LinesOfConcat ==
  ASSUME NEW doc \in Seq(Line), NEW cs \in Seq(ChunkType(doc)), NEW ds \in Seq(ChunkType(doc))
  PROVE  LinesOf(cs \o ds) = LinesOf(cs) \o LinesOf(ds)
<1> DEFINE L(es) == [i \in DOMAIN es |-> FlattenSeq(es[i].paragraphs)]
<1>1. ASSUME NEW es \in Seq(ChunkType(doc))
      PROVE  /\ L(es) \in Seq(Seq(DOMAIN doc)) /\ Len(L(es)) = Len(es)
             /\ \A i \in 1..Len(es) : L(es)[i] = FlattenSeq(es[i].paragraphs)
  <2>1. Len(es) \in Nat /\ DOMAIN es = 1..Len(es)
    OBVIOUS
  <2>2. ASSUME NEW i \in 1..Len(es)
        PROVE  FlattenSeq(es[i].paragraphs) \in Seq(DOMAIN doc)
    <3>1. es[i] \in ChunkType(doc)
      BY ElementOfSeq
    <3>2. es[i].paragraphs \in Seq(Seq(DOMAIN doc))
      BY <3>1 DEF ChunkType
    <3> QED
      BY <3>2, FlattenConcat
  <2> QED
    BY <2>1, <2>2
<1>2. /\ cs \o ds \in Seq(ChunkType(doc)) /\ Len(cs \o ds) = Len(cs) + Len(ds)
      /\ \A i \in 1..Len(cs) + Len(ds) :
           (cs \o ds)[i] = IF i <= Len(cs) THEN cs[i] ELSE ds[i - Len(cs)]
  BY ConcatProperties
<1>3. L(cs \o ds) = L(cs) \o L(ds)
  <2>1. Len(cs) \in Nat /\ Len(ds) \in Nat
    OBVIOUS
  <2>2. /\ L(cs) \in Seq(Seq(DOMAIN doc)) /\ Len(L(cs)) = Len(cs)
        /\ \A i \in 1..Len(cs) : L(cs)[i] = FlattenSeq(cs[i].paragraphs)
    BY <1>1
  <2>3. /\ L(ds) \in Seq(Seq(DOMAIN doc)) /\ Len(L(ds)) = Len(ds)
        /\ \A i \in 1..Len(ds) : L(ds)[i] = FlattenSeq(ds[i].paragraphs)
    BY <1>1
  <2>4. /\ L(cs \o ds) \in Seq(Seq(DOMAIN doc)) /\ Len(L(cs \o ds)) = Len(cs) + Len(ds)
        /\ \A i \in 1..Len(cs) + Len(ds) : L(cs \o ds)[i] = FlattenSeq((cs \o ds)[i].paragraphs)
    BY <1>1, <1>2
  <2> HIDE DEF L
  <2>5. /\ L(cs) \o L(ds) \in Seq(Seq(DOMAIN doc)) /\ Len(L(cs) \o L(ds)) = Len(cs) + Len(ds)
        /\ \A i \in 1..Len(cs) + Len(ds) :
             (L(cs) \o L(ds))[i] = IF i <= Len(cs) THEN L(cs)[i] ELSE L(ds)[i - Len(cs)]
    <3>1. /\ L(cs) \o L(ds) \in Seq(Seq(DOMAIN doc))
          /\ Len(L(cs) \o L(ds)) = Len(L(cs)) + Len(L(ds))
          /\ \A i \in 1..Len(L(cs)) + Len(L(ds)) :
               (L(cs) \o L(ds))[i] = IF i <= Len(L(cs)) THEN L(cs)[i] ELSE L(ds)[i - Len(L(cs))]
      <4>1. L(cs) \in Seq(Seq(DOMAIN doc)) /\ L(ds) \in Seq(Seq(DOMAIN doc))
        BY <2>2, <2>3
      <4>2. ASSUME NEW s \in Seq(Seq(DOMAIN doc)), NEW t \in Seq(Seq(DOMAIN doc))
            PROVE  /\ s \o t \in Seq(Seq(DOMAIN doc)) /\ Len(s \o t) = Len(s) + Len(t)
                   /\ \A i \in 1..Len(s) + Len(t) :
                        (s \o t)[i] = IF i <= Len(s) THEN s[i] ELSE t[i - Len(s)]
        BY ConcatProperties
      <4> QED
        BY <4>1, <4>2
    <3> QED
      BY <2>2, <2>3, <3>1
  <2>6. ASSUME NEW i \in 1..Len(cs) + Len(ds)
        PROVE  L(cs \o ds)[i] = (L(cs) \o L(ds))[i]
    <3>1. CASE i <= Len(cs)
      <4>1. i \in 1..Len(cs)
        BY <2>1, <3>1
      <4> QED
        BY <1>2, <2>2, <2>4, <2>5, <3>1, <4>1
    <3>2. CASE ~(i <= Len(cs))
      <4>1. i - Len(cs) \in 1..Len(ds)
        BY <2>1, <3>2
      <4> QED
        BY <1>2, <2>3, <2>4, <2>5, <3>2, <4>1
    <3> QED
      BY <3>1, <3>2
  <2> QED
    BY <2>4, <2>5, <2>6, SeqEqual
<1>4. L(cs) \in Seq(Seq(DOMAIN doc)) /\ L(ds) \in Seq(Seq(DOMAIN doc))
  BY <1>1
<1>5. /\ LinesOf(cs \o ds) = FlattenSeq(L(cs \o ds))
      /\ LinesOf(cs) = FlattenSeq(L(cs)) /\ LinesOf(ds) = FlattenSeq(L(ds))
  BY DEF LinesOf
<1> HIDE DEF L
<1>6. FlattenSeq(L(cs) \o L(ds)) = FlattenSeq(L(cs)) \o FlattenSeq(L(ds))
  BY <1>4, FlattenConcat
<1> QED
  BY <1>3, <1>5, <1>6

\* Chunks from a to b and chunks from b + 1 to c are chunks from a to c: the two
\* where they meet are of different sections, as these start on either side.
LEMMA ChunksConcat ==
  ASSUME NEW doc \in Seq(Line), NEW a \in Nat, NEW b \in Int, NEW c \in Int, a <= b + 1, b <= c,
         NEW cs, AreChunks(doc, cs, a, b), NEW ds, AreChunks(doc, ds, b + 1, c)
  PROVE  AreChunks(doc, cs \o ds, a, c)
<1> DEFINE es == cs \o ds
<1>1. cs \in Seq(ChunkType(doc)) /\ ds \in Seq(ChunkType(doc))
  BY DEF AreChunks
<1>2. es \in Seq(ChunkType(doc))
  BY <1>1, ConcatProperties
<1>3. Len(es) = Len(cs) + Len(ds) /\ Len(cs) \in Nat /\ Len(ds) \in Nat
  BY <1>1, ConcatProperties
<1>4. IsText(doc, LinesOf(es), a, c)
  <2>1. IsText(doc, LinesOf(cs), a, b) /\ IsText(doc, LinesOf(ds), b + 1, c)
    BY DEF AreChunks
  <2>2. LinesOf(es) = LinesOf(cs) \o LinesOf(ds)
    BY <1>1, LinesOfConcat
  <2> QED
    BY <2>1, <2>2, TextConcat
<1>5. \A i \in 1..Len(cs) + Len(ds) : es[i] = IF i <= Len(cs) THEN cs[i] ELSE ds[i - Len(cs)]
  BY <1>1, ConcatProperties
<1> HIDE DEF es
<1>6. ASSUME NEW i \in 1..Len(cs)
      PROVE  /\ IsUnder(doc, cs[i]) /\ IsWithin(doc, cs[i].paragraphs)
             /\ First(cs[i].section) \in Nat
             /\ a <= First(cs[i].section) /\ First(cs[i].section) <= b
  BY DEF AreChunks
<1>7. ASSUME NEW i \in 1..Len(ds)
      PROVE  /\ IsUnder(doc, ds[i]) /\ IsWithin(doc, ds[i].paragraphs)
             /\ First(ds[i].section) \in Nat
             /\ b + 1 <= First(ds[i].section) /\ First(ds[i].section) <= c
  BY DEF AreChunks
<1>8. ASSUME NEW i \in 1..Len(es)
      PROVE  /\ IsUnder(doc, es[i]) /\ IsWithin(doc, es[i].paragraphs)
             /\ First(es[i].section) \in Nat
             /\ a <= First(es[i].section) /\ First(es[i].section) <= c
  <2>1. CASE i <= Len(cs)
    <3>1. i \in 1..Len(cs) /\ es[i] = cs[i]
      BY <1>3, <1>5, <2>1
    <3>2. First(cs[i].section) \in Nat /\ First(cs[i].section) <= b
      BY <1>6, <3>1
    <3>3. First(cs[i].section) <= c
      BY <3>2
    <3> QED
      BY <1>6, <3>1, <3>3
  <2>2. CASE ~(i <= Len(cs))
    <3>1. i - Len(cs) \in 1..Len(ds) /\ es[i] = ds[i - Len(cs)]
      BY <1>3, <1>5, <2>2
    <3> DEFINE j == i - Len(cs)
    <3> HIDE DEF j
    <3>2. j \in 1..Len(ds) /\ es[i] = ds[j]
      BY <3>1 DEF j
    <3>3. First(ds[j].section) \in Nat /\ b + 1 <= First(ds[j].section)
      BY <1>7, <3>2
    <3>4. a <= First(ds[j].section)
      BY <3>3
    <3> QED
      BY <1>7, <3>2, <3>4
  <2> QED
    BY <2>1, <2>2
<1>9. ASSUME NEW i \in 1..Len(es) - 1
      PROVE  IsCutLate(doc, es[i], es[i + 1])
  <2>1. i \in Nat /\ i >= 1 /\ i + 1 <= Len(cs) + Len(ds)
    BY <1>3
  <2>2. CASE i + 1 <= Len(cs)
    <3>1. /\ i \in 1..Len(cs) - 1 /\ i \in 1..Len(cs) + Len(ds) /\ i + 1 \in 1..Len(cs) + Len(ds)
          /\ i <= Len(cs)
      BY <1>3, <2>1, <2>2
    <3>2. es[i] = cs[i] /\ es[i + 1] = cs[i + 1]
      BY <1>5, <2>2, <3>1
    <3> QED
      BY <3>1, <3>2 DEF AreChunks
  <2>3. CASE i = Len(cs)
    <3>1. /\ i \in 1..Len(cs) /\ i \in 1..Len(cs) + Len(ds) /\ i + 1 \in 1..Len(cs) + Len(ds)
          /\ 1 \in 1..Len(ds) /\ ~(i + 1 <= Len(cs)) /\ (i + 1) - Len(cs) = 1 /\ i <= Len(cs)
      BY <1>3, <2>1, <2>3
    <3>2. es[i] = cs[i] /\ es[i + 1] = ds[1]
      BY <1>5, <3>1
    <3>3. /\ First(cs[i].section) \in Nat /\ First(cs[i].section) <= b
          /\ First(ds[1].section) \in Nat /\ b + 1 <= First(ds[1].section)
      BY <1>6, <1>7, <3>1
    <3>4. First(cs[i].section) # First(ds[1].section)
      BY <3>3
    <3>5. cs[i].section # ds[1].section
      BY <3>4
    <3> QED
      BY <3>2, <3>5 DEF IsCutLate
  <2>4. CASE i > Len(cs)
    <3> DEFINE j == i - Len(cs)
    <3>1. /\ j \in 1..Len(ds) - 1 /\ i \in 1..Len(cs) + Len(ds) /\ i + 1 \in 1..Len(cs) + Len(ds)
          /\ ~(i <= Len(cs)) /\ ~(i + 1 <= Len(cs)) /\ (i + 1) - Len(cs) = j + 1
      BY <1>3, <2>1, <2>4
    <3>2. es[i] = ds[j] /\ es[i + 1] = ds[j + 1]
      BY <1>5, <3>1
    <3> HIDE DEF j
    <3> QED
      BY <3>1, <3>2 DEF AreChunks
  <2> QED
    BY <1>3, <2>1, <2>2, <2>3, <2>4
<1> QED
  BY <1>2, <1>4, <1>8, <1>9 DEF AreChunks, es

\* Every line between the first and the last of a section is in its body.
LEMMA LineOfBody ==
  ASSUME NEW doc \in Seq(Line), NEW body \in Seq(DOMAIN doc), IsConsecutive(body),
         NEW n \in Nat, body[1] <= n, n <= body[Len(body)]
  PROVE  \E j \in 1..Len(body) : body[j] = n
<1>1. Len(body) \in Nat /\ Len(body) > 0
  BY EmptySeq DEF IsConsecutive
<1>2. 1 \in 1..Len(body) /\ Len(body) \in 1..Len(body)
  BY <1>1
<1>3. body[1] \in Nat
  BY <1>2, ElementOfSeq, LineTypes
<1>4. body[Len(body)] = body[1] + (Len(body) - 1)
  BY <1>2 DEF IsConsecutive
<1> DEFINE j == (n - body[1]) + 1
<1>5. j \in 1..Len(body) /\ body[1] + (j - 1) = n
  <2>1. ASSUME NEW a \in Nat, NEW z \in Nat, a <= n, n <= a + (z - 1)
        PROVE  (n - a) + 1 \in 1..z /\ a + (((n - a) + 1) - 1) = n
    BY <2>1
  <2>2. n <= body[1] + (Len(body) - 1)
    BY <1>4
  <2> QED
    BY <1>1, <1>3, <2>1, <2>2
<1> HIDE DEF j
<1>6. body[j] = n
  BY <1>5 DEF IsConsecutive
<1> QED
  BY <1>5, <1>6

\* A section is cut into chunks of its own lines, under its path
\* (knowledge.py, _chunk_section).
LEMMA SectionChunks ==
  ASSUME NEW doc \in Seq(Line), NEW section, IsSection(doc, section)
  PROVE  AreChunks(doc, ChunkSection(doc, section), section.body[1], EndOf(section))
<1> DEFINE ps == Paragraphs(doc, section.body)
           packs == PacksOf(doc, ps)
           cs == ChunkSection(doc, section)
<1>1. /\ section.path \in Seq(DOMAIN doc) /\ section.body \in Seq(DOMAIN doc)
      /\ IsConsecutive(section.body)
  BY DEF IsSection, SectionType
<1>2. /\ ps \in Seq(Seq(DOMAIN doc)) /\ AreFilled(ps)
      /\ IsText(doc, FlattenSeq(ps), section.body[1], EndOf(section))
  BY <1>1, ParagraphsKeepText DEF EndOf
<1> HIDE DEF ps
<1>3. /\ packs \in Seq(Seq(Seq(DOMAIN doc))) /\ FlattenSeq(packs) = ps /\ PacksFit(doc, packs)
  BY <1>2, PacksKeepParagraphs
<1>4. cs = [i \in DOMAIN packs |-> [section |-> section.path, paragraphs |-> packs[i]]]
  BY DEF ChunkSection, PacksOf, NoPack, ps
<1> HIDE DEF packs, cs
<1>5. Len(packs) \in Nat /\ DOMAIN packs = 1..Len(packs)
  BY <1>3
<1>6. \A i \in 1..Len(packs) : packs[i] \in Seq(Seq(DOMAIN doc))
  BY <1>3, ElementOfSeq
<1>7. ASSUME NEW i \in 1..Len(packs)
      PROVE  cs[i].section = section.path /\ cs[i].paragraphs = packs[i]
  <2>1. cs[i] = [section |-> section.path, paragraphs |-> packs[i]]
    BY <1>4, <1>5
  <2> QED
    BY <2>1
<1>8. ASSUME NEW i \in 1..Len(packs)
      PROVE  cs[i] \in ChunkType(doc)
  <2>1. cs[i] = [section |-> section.path, paragraphs |-> packs[i]]
    BY <1>4, <1>5
  <2> QED
    BY <1>1, <1>6, <2>1 DEF ChunkType
<1>9. cs \in Seq(ChunkType(doc)) /\ Len(cs) = Len(packs) /\ DOMAIN cs = 1..Len(packs)
  <2>1. DOMAIN cs = 1..Len(packs) /\ cs = [i \in 1..Len(packs) |-> cs[i]]
    BY <1>4, <1>5
  <2>2. cs \in [1..Len(packs) -> ChunkType(doc)]
    BY <1>8, <2>1
  <2> QED
    BY <1>5, <2>1, <2>2
<1>10. IsText(doc, LinesOf(cs), section.body[1], EndOf(section))
  <2>1. [i \in DOMAIN cs |-> FlattenSeq(cs[i].paragraphs)]
          = [i \in DOMAIN packs |-> FlattenSeq(packs[i])]
    <3>1. \A i \in 1..Len(packs) : cs[i].paragraphs = packs[i]
      BY <1>7
    <3> QED
      BY <1>5, <1>9, <3>1
  <2>2. LinesOf(cs) = FlattenSeq(FlattenSeq(packs))
    BY <1>3, <2>1, FlattenFlatten DEF LinesOf
  <2> QED
    BY <1>2, <1>3, <2>2
<1>11. ASSUME NEW i \in 1..Len(packs)
       PROVE  IsUnder(doc, cs[i])
  <2> DEFINE x == Head(Head(packs[i]))
  <2>1. cs[i].section = section.path /\ cs[i].paragraphs = packs[i]
    BY <1>7
  <2>2. packs[i] \in Seq(Seq(DOMAIN doc)) /\ packs[i] # <<>>
    BY <1>3, <1>6 DEF PacksFit, AreFilled
  <2>3. Head(packs[i]) \in ToSet(packs[i])
    BY <2>2, HeadIsElement
  <2>4. Head(packs[i]) \in ToSet(ps)
    BY <1>3, <2>3, FlattenContains
  <2>5. PICK j \in 1..Len(ps) : Head(packs[i]) = ps[j]
    BY <1>2, <2>4, InToSet
  <2>6. ps[j] \in Seq(DOMAIN doc) /\ ps[j] # <<>>
    BY <1>2, ElementOfSeq DEF AreFilled
  <2>7. x \in ToSet(ps[j])
    BY <2>5, <2>6, HeadIsElement
  <2>8. x \in ToSet(FlattenSeq(ps))
    BY <1>2, <2>7, FlattenContains
  <2>9. x \in DOMAIN doc /\ section.body[1] <= x /\ x <= EndOf(section)
    BY <1>2, <2>8 DEF IsText, TextIn
  <2> HIDE DEF x
  <2>10. x \in Nat
    BY <2>9, LineTypes
  <2>11. PICK k \in 1..Len(section.body) : section.body[k] = x
    BY <1>1, <2>9, <2>10, LineOfBody DEF EndOf
  <2>12. Nested(doc) => ToSet(section.path) = Enclosing(doc, x)
    BY <2>11 DEF IsSection, StandsUnder
  <2>13. Ascending(section.path)
    BY DEF IsSection
  <2> QED
    BY <2>1, <2>12, <2>13 DEF IsUnder, x
<1>12. /\ section.body[1] \in Nat /\ First(section.path) = section.body[1]
       /\ section.body[1] <= EndOf(section)
  <2>1. Len(section.body) \in Nat /\ Len(section.body) > 0
    BY <1>1, EmptySeq DEF IsConsecutive
  <2>2. 1 \in 1..Len(section.body) /\ Len(section.body) \in 1..Len(section.body)
    BY <2>1
  <2>3. section.body[1] \in Nat
    BY <1>1, <2>2, ElementOfSeq, LineTypes
  <2>4. EndOf(section) = section.body[1] + (Len(section.body) - 1)
    BY <1>1, <2>2 DEF IsConsecutive, EndOf
  <2> QED
    BY <2>1, <2>3, <2>4 DEF IsSection
<1>13. ASSUME NEW i \in 1..Len(packs)
       PROVE  /\ IsWithin(doc, cs[i].paragraphs)
              /\ First(cs[i].section) \in Nat
              /\ section.body[1] <= First(cs[i].section) /\ First(cs[i].section) <= EndOf(section)
  <2>1. cs[i].section = section.path /\ cs[i].paragraphs = packs[i]
    BY <1>7
  <2>2. IsWithin(doc, packs[i])
    BY <1>3 DEF PacksFit
  <2> QED
    BY <1>12, <2>1, <2>2
<1>14. ASSUME NEW i \in 1..Len(packs) - 1
       PROVE  IsCutLate(doc, cs[i], cs[i + 1])
  <2>1. i \in 1..Len(packs) /\ i + 1 \in 1..Len(packs)
    BY <1>5
  <2>2. cs[i].paragraphs = packs[i] /\ cs[i + 1].paragraphs = packs[i + 1]
    BY <1>7, <2>1
  <2>3. IsFull(doc, packs[i], packs[i + 1])
    BY <1>3 DEF PacksFit
  <2> QED
    BY <2>2, <2>3 DEF IsCutLate
<1>15. AreChunks(doc, cs, section.body[1], EndOf(section))
  BY <1>9, <1>10, <1>11, <1>13, <1>14 DEF AreChunks
<1> QED
  BY <1>15 DEF cs

\* The chunks of a document, section after section (knowledge.py, chunk).
THEOREM DocumentChunks ==
  ASSUME NEW doc \in Seq(Line)
  PROVE  AreChunks(doc, Chunk(doc), 1, Len(doc))
<1> DEFINE sections == Sections(doc)
           css == [i \in DOMAIN sections |-> ChunkSection(doc, sections[i])]
           End(n) == IF n = 0 THEN 0 ELSE EndOf(sections[n])
<1>1. IsDivision(doc, sections, Len(doc)) /\ Len(doc) \in Nat
  BY SectionsDivide
<1>2. Chunk(doc) = FlattenSeq(css)
  BY DEF Chunk
<1> HIDE DEF sections
<1>3. /\ sections \in Seq(SectionType(doc)) /\ Len(sections) \in Nat
      /\ DOMAIN sections = 1..Len(sections)
  BY <1>1 DEF IsDivision
<1>4. ASSUME NEW i \in 1..Len(sections)
      PROVE  AreChunks(doc, ChunkSection(doc, sections[i]), sections[i].body[1], EndOf(sections[i]))
  BY <1>1, SectionChunks DEF IsDivision
<1>5. ASSUME NEW i \in 1..Len(sections)
      PROVE  /\ sections[i].body[1] \in Nat /\ EndOf(sections[i]) \in Nat
             /\ sections[i].body[1] <= EndOf(sections[i])
  <2> DEFINE body == sections[i].body
  <2>1. body \in Seq(DOMAIN doc) /\ IsConsecutive(body)
    BY <1>1 DEF IsDivision, IsSection, SectionType
  <2> HIDE DEF body
  <2>2. Len(body) \in Nat /\ Len(body) > 0
    BY <2>1, EmptySeq DEF IsConsecutive
  <2>3. 1 \in 1..Len(body) /\ Len(body) \in 1..Len(body)
    BY <2>2
  <2>4. body[1] \in Nat /\ body[Len(body)] \in Nat
    BY <2>1, <2>3, ElementOfSeq, LineTypes
  <2>5. body[Len(body)] = body[1] + (Len(body) - 1)
    BY <2>1, <2>3 DEF IsConsecutive
  <2>6. body[1] <= body[Len(body)]
    BY <2>2, <2>4, <2>5
  <2> QED
    BY <2>4, <2>6 DEF EndOf, body
<1>6. ASSUME NEW n \in 0..Len(sections) - 1
      PROVE  End(n) \in Nat /\ sections[n + 1].body[1] = End(n) + 1
  <2>1. CASE n = 0
    <3>1. sections # <<>>
      BY <1>3, <2>1
    <3> QED
      BY <1>1, <2>1, <3>1 DEF IsDivision
  <2>2. CASE n # 0
    <3>1. n \in 1..Len(sections) - 1 /\ n \in 1..Len(sections)
      BY <1>3, <2>2
    <3> QED
      BY <1>1, <1>5, <2>2, <3>1 DEF IsDivision
  <2> QED
    BY <2>1, <2>2
<1>7. css \in Seq(Seq(ChunkType(doc))) /\ Len(css) = Len(sections)
      /\ \A i \in 1..Len(sections) : css[i] = ChunkSection(doc, sections[i])
  <2>1. \A i \in 1..Len(sections) : ChunkSection(doc, sections[i]) \in Seq(ChunkType(doc))
    BY <1>4 DEF AreChunks
  <2> QED
    BY <1>3, <2>1
<1> HIDE DEF css
<1>8. PICK f : /\ f[0] = <<>>
               /\ \A n \in 0..Len(css) - 1 : f[n + 1] = f[n] \o css[n + 1]
               /\ FlattenSeq(css) = f[Len(css)]
  BY <1>7, FlattenRuns
<1> DEFINE Good(n) == AreChunks(doc, f[n], 1, End(n))
           Done == {n \in 0..Len(sections) : Good(n)}
<1>9. 0 \in Done
  <2>1. LinesOf(<<>>) = <<>>
    <3>1. [i \in DOMAIN <<>> |-> FlattenSeq(<<>>[i].paragraphs)] = <<>>
      OBVIOUS
    <3> QED
      BY <3>1, FlattenEmpty DEF LinesOf
  <2>2. IsText(doc, <<>>, 1, 0)
    BY NoText
  <2>3. <<>> \in Seq(ChunkType(doc)) /\ Len(<<>>) = 0
    OBVIOUS
  <2>4. AreChunks(doc, <<>>, 1, 0)
    BY <2>1, <2>2, <2>3 DEF AreChunks
  <2>5. 0 \in 0..Len(sections) /\ End(0) = 0
    BY <1>3
  <2> QED
    BY <1>8, <2>4, <2>5
<1>10. ASSUME NEW n \in 0..Len(sections) - 1, n \in Done
       PROVE  n + 1 \in Done
  <2>1. n + 1 \in 0..Len(sections) /\ n + 1 \in 1..Len(sections) /\ n + 1 # 0
    BY <1>3
  <2>2. AreChunks(doc, f[n], 1, End(n))
    BY <1>10
  <2>3. End(n + 1) = EndOf(sections[n + 1])
    BY <2>1
  <2>4. AreChunks(doc, css[n + 1], End(n) + 1, End(n + 1))
    BY <1>4, <1>6, <1>7, <2>1, <2>3
  <2>5. End(n) \in Nat /\ End(n + 1) \in Nat /\ 1 <= End(n) + 1 /\ End(n) <= End(n + 1)
    <3>1. /\ End(n) \in Nat /\ sections[n + 1].body[1] = End(n) + 1 /\ End(n + 1) \in Nat
          /\ sections[n + 1].body[1] <= End(n + 1)
      BY <1>5, <1>6, <2>1, <2>3
    <3> HIDE DEF End
    <3> QED
      BY <3>1
  <2> HIDE DEF End
  <2>6. AreChunks(doc, f[n] \o css[n + 1], 1, End(n + 1))
    <3>1. ASSUME NEW b \in Int, NEW c \in Int, 1 <= b + 1, b <= c, NEW cs, AreChunks(doc, cs, 1, b),
                 NEW ds, AreChunks(doc, ds, b + 1, c)
          PROVE  AreChunks(doc, cs \o ds, 1, c)
      BY <3>1, ChunksConcat
    <3> QED
      BY <2>2, <2>4, <2>5, <3>1
  <2>7. f[n + 1] = f[n] \o css[n + 1]
    BY <1>7, <1>8
  <2> QED
    BY <2>1, <2>6, <2>7
<1> HIDE DEF Done
<1>11. 0..Len(sections) \subseteq Done
  BY <1>3, <1>9, <1>10, InductionUpTo
<1>12. Len(sections) \in 0..Len(sections)
  BY <1>3
<1>13. AreChunks(doc, f[Len(sections)], 1, End(Len(sections)))
  BY <1>11, <1>12 DEF Done
<1>14. End(Len(sections)) = Len(doc)
  <2>1. CASE sections = <<>>
    BY <1>1, <2>1 DEF IsDivision
  <2>2. CASE sections # <<>>
    <3>1. Len(sections) # 0
      BY <1>3, <2>2, EmptySeq
    <3> QED
      BY <1>1, <2>2, <3>1 DEF IsDivision
  <2> QED
    BY <2>1, <2>2
<1> QED
  BY <1>2, <1>7, <1>8, <1>13, <1>14

-----------------------------------------------------------------------------
(* What the chunks of any document are *)

\* Every line with text is in one chunk, in the order of the document, for every
\* document and every limit.
THEOREM TextIsKept ==
  ASSUME NEW doc \in Seq(Line)
  PROVE  KeepsText(doc)
<1>1. IsText(doc, LinesOf(Chunk(doc)), 1, Len(doc))
  BY DocumentChunks DEF AreChunks
<1>2. \A n \in DOMAIN doc : 1 <= n /\ n <= Len(doc)
  BY LineTypes
<1>3. TextIn(doc, 1, Len(doc)) = {n \in DOMAIN doc : doc[n].len > 0}
  BY <1>2 DEF TextIn
<1> QED
  BY <1>1, <1>3 DEF KeepsText, IsText, Ascending, IsSorted

\* Every chunk of every document is within the limit or one paragraph, and could
\* not take the first paragraph of the next chunk of its section.
THEOREM ChunksAreFull ==
  ASSUME NEW doc \in Seq(Line)
  PROVE  Fits(doc)
<1> DEFINE chunks == Chunk(doc)
<1>1. AreChunks(doc, chunks, 1, Len(doc))
  BY DocumentChunks
<1> HIDE DEF chunks
<1>2. Len(chunks) \in Nat /\ DOMAIN chunks = 1..Len(chunks)
  BY <1>1 DEF AreChunks
<1>3. ASSUME NEW i \in DOMAIN chunks
      PROVE  ChunkLength(doc, chunks[i].paragraphs) <= MaxChars \/ Len(chunks[i].paragraphs) = 1
  BY <1>1, <1>2 DEF AreChunks, IsWithin
<1>4. ASSUME NEW i \in DOMAIN chunks, i > 1, chunks[i - 1].section = chunks[i].section
      PROVE  ChunkLength(doc, Append(chunks[i - 1].paragraphs, Head(chunks[i].paragraphs)))
               > MaxChars
  <2>1. i - 1 \in 1..Len(chunks) - 1 /\ (i - 1) + 1 = i
    BY <1>2, <1>4
  <2>2. IsCutLate(doc, chunks[i - 1], chunks[i])
    BY <1>1, <2>1 DEF AreChunks
  <2> QED
    BY <1>4, <2>2 DEF IsCutLate, IsFull
<1> QED
  BY <1>3, <1>4 DEF Fits, chunks

\* In every document whose headings skip no level the section of a chunk is the
\* path of the headings its first line stands under.
THEOREM ChunksStandUnder ==
  ASSUME NEW doc \in Seq(Line), Nested(doc)
  PROVE  IsUnderItsHeadings(doc)
<1> DEFINE chunks == Chunk(doc)
<1>1. AreChunks(doc, chunks, 1, Len(doc))
  BY DocumentChunks
<1> HIDE DEF chunks
<1>2. DOMAIN chunks = 1..Len(chunks)
  BY <1>1 DEF AreChunks
<1>3. ASSUME NEW c \in Range(chunks)
      PROVE  IsSorted(c.section, <) /\ ToSet(c.section) = Enclosing(doc, Head(Head(c.paragraphs)))
  <2>1. PICK i \in 1..Len(chunks) : c = chunks[i]
    BY <1>2 DEF Range
  <2>2. IsUnder(doc, c)
    BY <1>1, <2>1 DEF AreChunks
  <2> QED
    BY <2>2 DEF IsUnder, Ascending, IsSorted
<1> QED
  BY <1>3 DEF IsUnderItsHeadings, chunks

-----------------------------------------------------------------------------
(* The specification *)

TypeInv == document \in Seq(Lines) /\ stored \in Seq(StoredChunks)

\* Documents consist of lines and stores of chunks (MCRetrieval), whatever the
\* bounds on their lengths.
THEOREM RetrievalTypes == Spec => []TypeInv
<1>1. Init => TypeInv
  BY DEF Init, TypeInv
<1>2. TypeInv /\ [Next]_vars => TypeInv'
  <2> SUFFICES ASSUME TypeInv, [Next]_vars PROVE TypeInv'
    OBVIOUS
  <2>1. CASE WriteLine
    BY <2>1, AppendProperties DEF TypeInv, WriteLine
  <2>2. CASE StoreChunk
    BY <2>2, AppendProperties DEF TypeInv, StoreChunk
  <2>3. CASE UNCHANGED vars
    BY <2>3 DEF TypeInv, vars
  <2> QED
    BY <2>1, <2>2, <2>3 DEF Next
<1> QED
  BY <1>1, <1>2, PTL DEF Spec

\* The lines a document is written of are lines.
LEMMA DocumentIsLines == TypeInv => document \in Seq(Line)
<1>1. Lines \subseteq Line
  BY DEF Lines, Line
<1> QED
  BY <1>1, SeqMonotonic DEF TypeInv

\* Chunking never loses text or its order (knowledge.py, _chunk_section).
THEOREM SpecKeepsText == Spec => []ChunksKeepText
<1>1. TypeInv => ChunksKeepText
  BY DocumentIsLines, TextIsKept DEF ChunksKeepText
<1> QED
  BY <1>1, RetrievalTypes, PTL

\* Chunks are always within the limit and never shorter than they had to be.
THEOREM SpecFits == Spec => []ChunksFit
<1>1. TypeInv => ChunksFit
  BY DocumentIsLines, ChunksAreFull DEF ChunksFit
<1> QED
  BY <1>1, RetrievalTypes, PTL

\* Chunks always stand under the headings their section names, in a document
\* whose headings skip no level (knowledge.py, _sections).
THEOREM SpecEncloses == Spec => []SectionsEnclose
<1>1. TypeInv => SectionsEnclose
  BY DocumentIsLines, ChunksStandUnder DEF SectionsEnclose
<1> QED
  BY <1>1, RetrievalTypes, PTL

\* A Context always holds the best chunks there are, each content once
\* (knowledge.py, retrieve and build_for_mission).
THEOREM SpecHoldsTheBest == Spec => []ContextHoldsTheBest
<1>1. TypeInv => ContextHoldsTheBest
  <2>1. StoredChunks \subseteq [matches : Nat, preferred : BOOLEAN, hash : {"h1", "h2"}]
    BY DEF StoredChunks
  <2> SUFFICES ASSUME TypeInv PROVE ContextHoldsTheBest
    OBVIOUS
  <2>2. stored \in Seq([matches : Nat, preferred : BOOLEAN, hash : {"h1", "h2"}])
    BY <2>1, SeqMonotonic DEF TypeInv
  <2> QED
    BY <2>2, BestChunks DEF ContextHoldsTheBest
<1> QED
  BY <1>1, RetrievalTypes, PTL
=============================================================================
