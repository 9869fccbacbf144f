--------------------------- MODULE OrderBookProofs ---------------------------
(***************************************************************************)
(* Theorems about OrderBook, for every set of ids and accounts and every   *)
(* bound on prices and quantities.                                         *)
(***************************************************************************)
EXTENDS OrderBook, SequenceTheorems, FunctionTheorems, FiniteSetTheorems,
        WellFoundedInduction, TLAPS

-----------------------------------------------------------------------------
(* Lemmas about the helpers of the model                                   *)

\* A non-empty set of naturals has a least element; the keys of a std::map do.
LEMMA LeastElement ==
    ASSUME NEW T, T \subseteq Nat, T # {}
    PROVE  \E m \in T : \A k \in T : m <= k
<1>1. \E m \in T : \A k \in T : ~ (<<k, m>> \in OpToRel(<, Nat))
  BY NatLessThanWellFounded, WFMin, Zenon
<1>2. PICK m \in T : \A k \in T : ~ (<<k, m>> \in OpToRel(<, Nat))
  BY <1>1
<1>3. \A k \in T : ~ (k < m)
  BY <1>2, Zenon DEF OpToRel
<1> QED
  BY <1>3, SMT

\* begin() of bids_ and asks_: Best is end() on an empty map, and otherwise the
\* key that comes before all others in the map's order.
LEMMA BestProperties ==
    ASSUME NEW s \in Side, NEW P \in SUBSET Price
    PROVE  /\ P = {} => Best(s, P) = End
           /\ P # {} => /\ Best(s, P) \in P
                        /\ \A q \in P : q = Best(s, P) \/ Better(s, Best(s, P), q)
<1> USE ConstantAssumption DEF Price
<1>1. CASE P = {}
  BY <1>1 DEF Best
<1>2. CASE P # {}
  <2>0. P \subseteq Nat
    OBVIOUS
  <2>1. \E m \in P : \A k \in P : m <= k
    BY <1>2, <2>0, LeastElement
  <2>2. \E m \in P : \A k \in P : m >= k
    <3> DEFINE R == {MaxPrice - p : p \in P}
    <3>1. PICK r \in R : \A k \in R : r <= k
      <4>1. ASSUME NEW p \in P PROVE MaxPrice - p \in Nat
        OBVIOUS
      <4>2. R \subseteq Nat /\ R # {}
        BY <4>1, <1>2
      <4> QED
        BY <4>2, LeastElement, Zenon
    <3>2. PICK m \in P : r = MaxPrice - m
      BY <3>1
    <3>3. \A k \in P : MaxPrice - m <= MaxPrice - k
      BY <3>1, <3>2
    <3>4. \A k \in P : m >= k
      BY <3>3
    <3> QED
      BY <3>4
  <2>3. \E p \in P : \A q \in P : p = q \/ Better(s, p, q)
    <3>1. CASE s = "buy"
      BY <2>0, <2>2, <3>1 DEF Better
    <3>2. CASE s = "sell"
      BY <2>0, <2>1, <3>2 DEF Better
    <3> QED
      BY <3>1, <3>2 DEF Side
  <2> QED
    BY <1>2, <2>3 DEF Best
<1> QED
  BY <1>1, <1>2

\* std::list::erase: what RemoveAt returns, element by element.
LEMMA RemoveAtProperties ==
    ASSUME NEW S, NEW q \in Seq(S), NEW k \in 1..Len(q)
    PROVE  /\ RemoveAt(q, k) \in Seq(S)
           /\ Len(RemoveAt(q, k)) = Len(q) - 1
           /\ \A j \in 1..(Len(q) - 1) :
                RemoveAt(q, k)[j] = IF j < k THEN q[j] ELSE q[j + 1]
<1> DEFINE a == SubSeq(q, 1, k - 1)
           b == SubSeq(q, k + 1, Len(q))
<1>1. /\ a \in Seq(S) /\ Len(a) = k - 1
      /\ \A j \in 1..(k - 1) : a[j] = q[j]
  BY SMT
<1>2. /\ b \in Seq(S) /\ Len(b) = Len(q) - k
      /\ \A j \in 1..(Len(q) - k) : b[j] = q[k + j]
  BY SMT
<1>3. /\ a \o b \in Seq(S) /\ Len(a \o b) = Len(a) + Len(b)
      /\ \A j \in 1..(Len(a) + Len(b)) :
            (a \o b)[j] = IF j <= Len(a) THEN a[j] ELSE b[j - Len(a)]
  BY <1>1, <1>2, ConcatProperties
<1> HIDE DEF a, b
<1>4. \A j \in 1..(Len(q) - 1) : (a \o b)[j] = IF j < k THEN q[j] ELSE q[j + 1]
  BY <1>1, <1>2, <1>3
<1>5. RemoveAt(q, k) = a \o b
  BY DEF RemoveAt, a, b
<1>6. Len(a) + Len(b) = Len(q) - 1
  BY <1>1, <1>2
<1> QED
  BY <1>3, <1>4, <1>5, <1>6

-----------------------------------------------------------------------------
(* Sums over finite sets.  An induction needs no operator parameter here: a *)
(* least counterexample, by cardinality, is refuted.                       *)

\* The element a fold over s takes next.
AnyOf(s) == CHOOSE x \in s : TRUE

\* Two functions agree on a set; a function is integer-valued on a set.
AgreeOn(w, v, S)  == \A x \in S : w[x] = v[x]
IntegersOn(w, S)  == \A x \in S : w[x] \in Int

\* g tabulates the sums of w over the subsets of S with at most n elements.
PartialSums(w, S, n, g) ==
    \A s \in SUBSET S : Cardinality(s) <= n =>
       g[s] = IF s = {} THEN 0 ELSE w[AnyOf(s)] + g[s \ {AnyOf(s)}]

TableOfSums(w, S, g) ==
    g = [s \in SUBSET S |-> IF s = {} THEN 0 ELSE w[AnyOf(s)] + g[s \ {AnyOf(s)}]]

\* The fold that the library defines a sum by has a table of the sums behind it.
LEMMA TableExists ==
    ASSUME NEW w, NEW S, IsFiniteSet(S)
    PROVE  \E g : TableOfSums(w, S, g)
<1> DEFINE Step(g) == [s \in SUBSET S |->
                          IF s = {} THEN 0 ELSE w[AnyOf(s)] + g[s \ {AnyOf(s)}]]
           T == {n \in Nat : ~ \E g : PartialSums(w, S, n, Step(g))}
<1>0. \A s \in SUBSET S : s # {} =>
         /\ AnyOf(s) \in s /\ s \ {AnyOf(s)} \in SUBSET S
         /\ Cardinality(s \ {AnyOf(s)}) = Cardinality(s) - 1
  <2> TAKE s \in SUBSET S
  <2> HAVE s # {}
  <2>1. AnyOf(s) \in s
    BY DEF AnyOf
  <2>2. IsFiniteSet(s)
    BY FS_Subset
  <2> QED
    BY <2>1, <2>2, FS_RemoveElement
<1>1. \A s \in SUBSET S : Cardinality(s) \in Nat /\ (Cardinality(s) = 0 <=> s = {})
  BY FS_Subset, FS_CardinalityType, FS_EmptySet
<1>a. \A g : \A s \in SUBSET S :
         Step(g)[s] = IF s = {} THEN 0 ELSE w[AnyOf(s)] + g[s \ {AnyOf(s)}]
  OBVIOUS
<1>b. \A g : Step(g) = [s \in SUBSET S |-> Step(g)[s]]
  OBVIOUS
<1>c. T \subseteq Nat /\ \A n \in Nat : n \in T <=> ~ \E g : PartialSums(w, S, n, Step(g))
  OBVIOUS
<1> HIDE DEF Step, T
<1>2. T = {}
  <2> SUFFICES ASSUME T # {} PROVE FALSE
    OBVIOUS
  <2>1. PICK m \in T : \A k \in T : m <= k
    BY <1>c, LeastElement
  <2>2. CASE m = 0
    <3>1. \A s \in SUBSET S : Cardinality(s) <= 0 => s = {}
      BY <1>1
    <3>2. \A g : PartialSums(w, S, 0, Step(g))
      BY <1>a, <3>1 DEF PartialSums
    <3> QED
      BY <1>c, <2>2, <3>2
  <2>3. CASE m # 0
    <3>1. m \in Nat /\ m - 1 \in Nat /\ m - 1 \notin T
      BY <1>c, <2>1, <2>3
    <3>2. PICK g : PartialSums(w, S, m - 1, Step(g))
      BY <1>c, <3>1
    <3> DEFINE h == Step(g)
    <3>3. ASSUME NEW s \in SUBSET S, Cardinality(s) <= m
          PROVE  Step(h)[s] = IF s = {} THEN 0
                              ELSE w[AnyOf(s)] + Step(h)[s \ {AnyOf(s)}]
      <4>1. CASE s = {}
        BY <1>a, <4>1
      <4>2. CASE s # {}
        <5> DEFINE r == s \ {AnyOf(s)}
        <5>1. r \in SUBSET S /\ Cardinality(r) <= m - 1
          BY <1>0, <1>1, <3>1, <3>3, <4>2
        <5>2. h[r] = IF r = {} THEN 0 ELSE w[AnyOf(r)] + h[r \ {AnyOf(r)}]
          BY <3>2, <5>1 DEF PartialSums
        <5> HIDE DEF h
        <5>3. Step(h)[r] = h[r]
          BY <1>a, <5>1, <5>2
        <5>4. Step(h)[s] = w[AnyOf(s)] + h[r]
          BY <1>a, <4>2
        <5> QED
          BY <4>2, <5>3, <5>4
      <4> QED
        BY <4>1, <4>2
    <3>4. PartialSums(w, S, m, Step(h))
      BY <3>3 DEF PartialSums
    <3> QED
      BY <1>c, <2>1, <3>4
  <2> QED
    BY <2>2, <2>3
<1>3. Cardinality(S) \in Nat
  BY <1>1
<1>4. PICK g : PartialSums(w, S, Cardinality(S), Step(g))
  BY <1>2, <1>3, <1>c
<1>5. \A s \in SUBSET S : Cardinality(s) <= Cardinality(S)
  BY FS_Subset
<1> DEFINE h == Step(g)
<1>6. \A s \in SUBSET S : h[s] = IF s = {} THEN 0 ELSE w[AnyOf(s)] + h[s \ {AnyOf(s)}]
  BY <1>4, <1>5 DEF PartialSums
<1>7. h = [s \in SUBSET S |-> h[s]]
  BY <1>b
<1> HIDE DEF h
<1>8. h = [s \in SUBSET S |-> IF s = {} THEN 0 ELSE w[AnyOf(s)] + h[s \ {AnyOf(s)}]]
  BY <1>6, <1>7
<1> QED
  BY <1>8 DEF TableOfSums

\* Two tables agree wherever both are defined.
LEMMA TablesAgree ==
    ASSUME NEW w, NEW v, NEW S, NEW R, IsFiniteSet(S), R \subseteq S,
           AgreeOn(w, v, R),
           NEW g, TableOfSums(w, S, g),
           NEW h, TableOfSums(v, R, h)
    PROVE  \A s \in SUBSET R : g[s] = h[s]
<1> DEFINE T == {n \in Nat : \E s \in SUBSET R : Cardinality(s) = n /\ g[s] # h[s]}
<1>1. \A s \in SUBSET R :
         /\ Cardinality(s) \in Nat
         /\ s # {} => /\ AnyOf(s) \in s /\ s \ {AnyOf(s)} \in SUBSET R
                      /\ Cardinality(s \ {AnyOf(s)}) = Cardinality(s) - 1
  <2> TAKE s \in SUBSET R
  <2>1. IsFiniteSet(s)
    BY FS_Subset
  <2>2. s # {} => AnyOf(s) \in s
    BY DEF AnyOf
  <2> QED
    BY <2>1, <2>2, FS_RemoveElement, FS_CardinalityType
<1>d. \A x \in R : w[x] = v[x]
  BY DEF AgreeOn
<1>2. \A s \in SUBSET R :
         /\ g[s] = IF s = {} THEN 0 ELSE w[AnyOf(s)] + g[s \ {AnyOf(s)}]
         /\ h[s] = IF s = {} THEN 0 ELSE v[AnyOf(s)] + h[s \ {AnyOf(s)}]
  BY DEF TableOfSums
<1>c. T \subseteq Nat /\ \A n \in Nat :
         n \in T <=> \E s \in SUBSET R : Cardinality(s) = n /\ g[s] # h[s]
  OBVIOUS
<1> HIDE DEF T
<1>3. T = {}
  <2> SUFFICES ASSUME T # {} PROVE FALSE
    OBVIOUS
  <2>1. PICK m \in T : \A k \in T : m <= k
    BY <1>c, LeastElement
  <2>2. PICK s \in SUBSET R : Cardinality(s) = m /\ g[s] # h[s]
    BY <1>c, <2>1
  <2>3. s # {}
    BY <1>2, <2>2
  <2> DEFINE r == s \ {AnyOf(s)}
  <2>3a. r \in SUBSET R /\ Cardinality(r) = m - 1
    BY <1>1, <2>2, <2>3
  <2>4. m \in Nat /\ m - 1 \in Nat /\ Cardinality(r) = m - 1
    BY <1>c, <1>1, <2>1, <2>3a
  <2>5. g[r] # h[r]
    BY <1>1, <1>2, <1>d, <2>2, <2>3
  <2>6. m - 1 \in T
    BY <1>c, <2>3a, <2>4, <2>5
  <2> QED
    BY <2>1, <2>4, <2>6
<1> QED
  BY <1>c, <1>1, <1>3

\* The library's sum is the last entry of any such table.
LEMMA SumFromTable ==
    ASSUME NEW w, NEW S, IsFiniteSet(S), NEW g, TableOfSums(w, S, g)
    PROVE  SumFunctionOnSet(w, S) = g[S]
<1> DEFINE t == CHOOSE h : h = [s \in SUBSET S |-> IF s = {} THEN 0
                                   ELSE w[CHOOSE x \in s : TRUE] + h[s \ {CHOOSE x \in s : TRUE}]]
<1>1. SumFunctionOnSet(w, S) = t[S]
  BY DEF SumFunctionOnSet, FoldFunctionOnSet, MapThenFoldSet
<1>2. \E h : h = [s \in SUBSET S |-> IF s = {} THEN 0
                     ELSE w[CHOOSE x \in s : TRUE] + h[s \ {CHOOSE x \in s : TRUE}]]
  BY TableExists DEF TableOfSums, AnyOf
<1>3. t = [s \in SUBSET S |-> IF s = {} THEN 0
              ELSE w[CHOOSE x \in s : TRUE] + t[s \ {CHOOSE x \in s : TRUE}]]
  BY <1>2
<1>4. TableOfSums(w, S, t)
  BY <1>3 DEF TableOfSums, AnyOf
<1> HIDE DEF t
<1>5. t[S] = g[S]
  <2>1. AgreeOn(w, w, S)
    BY DEF AgreeOn
  <2> QED
    BY <1>4, <2>1, TablesAgree
<1> QED
  BY <1>1, <1>5

\* What a sum is: nothing for the empty set, and otherwise the value of one
\* element and the sum of the others.
LEMMA SumUnfolds ==
    ASSUME NEW w, NEW S, IsFiniteSet(S)
    PROVE  /\ SumFunctionOnSet(w, {}) = 0
           /\ S # {} => /\ AnyOf(S) \in S
                        /\ SumFunctionOnSet(w, S) =
                              w[AnyOf(S)] + SumFunctionOnSet(w, S \ {AnyOf(S)})
<1>1. PICK g : TableOfSums(w, S, g)
  BY TableExists
<1>2. ASSUME NEW R \in SUBSET S PROVE SumFunctionOnSet(w, R) = g[R]
  <2>1. IsFiniteSet(R)
    BY FS_Subset
  <2>2. PICK h : TableOfSums(w, R, h)
    BY <2>1, TableExists
  <2>3. g[R] = h[R]
    <3>1. AgreeOn(w, w, R)
      BY DEF AgreeOn
    <3> QED
      BY <1>1, <2>2, <3>1, TablesAgree
  <2>4. SumFunctionOnSet(w, R) = h[R]
    BY <2>1, <2>2, SumFromTable
  <2> QED
    BY <2>3, <2>4
<1>3. \A R \in SUBSET S : g[R] = IF R = {} THEN 0 ELSE w[AnyOf(R)] + g[R \ {AnyOf(R)}]
  BY <1>1 DEF TableOfSums
<1>4. S # {} => AnyOf(S) \in S
  BY DEF AnyOf
<1>5. SumFunctionOnSet(w, {}) = 0
  BY <1>2, <1>3
<1>6. ASSUME S # {}
      PROVE SumFunctionOnSet(w, S) = w[AnyOf(S)] + SumFunctionOnSet(w, S \ {AnyOf(S)})
  <2>1. S \in SUBSET S /\ S \ {AnyOf(S)} \in SUBSET S
    OBVIOUS
  <2>2. g[S] = w[AnyOf(S)] + g[S \ {AnyOf(S)}]
    BY <1>3, <1>6, <2>1
  <2> QED
    BY <1>2, <2>1, <2>2
<1> QED
  BY <1>4, <1>5, <1>6

\* Sums of equal values are equal.
LEMMA SumCongruence ==
    ASSUME NEW w, NEW v, NEW S, IsFiniteSet(S), AgreeOn(w, v, S)
    PROVE  SumFunctionOnSet(w, S) = SumFunctionOnSet(v, S)
<1>1. PICK g : TableOfSums(w, S, g)
  BY TableExists
<1>2. PICK h : TableOfSums(v, S, h)
  BY TableExists
<1>3. g[S] = h[S]
  BY <1>1, <1>2, TablesAgree
<1> QED
  BY <1>1, <1>2, <1>3, SumFromTable

\* w's values on S lie in N; N has 0 and the sums of its members.
ValuesIn(w, S, N) == \A x \in S : w[x] \in N
HasSums(N)        == 0 \in N /\ \A a, b \in N : a + b \in N

\* A sum of members of such a set is a member.
LEMMA SumClosed ==
    ASSUME NEW w, NEW S, IsFiniteSet(S), NEW N, HasSums(N), ValuesIn(w, S, N)
    PROVE  SumFunctionOnSet(w, S) \in N
<1> DEFINE T == {n \in Nat : \E s \in SUBSET S : Cardinality(s) = n
                                              /\ SumFunctionOnSet(w, s) \notin N}
<1>1. T \subseteq Nat /\ \A n \in Nat :
         n \in T <=> \E s \in SUBSET S : Cardinality(s) = n /\ SumFunctionOnSet(w, s) \notin N
  OBVIOUS
<1> HIDE DEF T
<1>2. \A s \in SUBSET S :
         /\ Cardinality(s) \in Nat
         /\ s = {} => SumFunctionOnSet(w, s) = 0
         /\ s # {} => /\ AnyOf(s) \in s /\ s \ {AnyOf(s)} \in SUBSET S
                      /\ Cardinality(s \ {AnyOf(s)}) = Cardinality(s) - 1
                      /\ SumFunctionOnSet(w, s) =
                            w[AnyOf(s)] + SumFunctionOnSet(w, s \ {AnyOf(s)})
  <2> TAKE s \in SUBSET S
  <2>1. IsFiniteSet(s)
    BY FS_Subset
  <2>2. /\ s = {} => SumFunctionOnSet(w, s) = 0
        /\ s # {} => /\ AnyOf(s) \in s
                     /\ SumFunctionOnSet(w, s) =
                           w[AnyOf(s)] + SumFunctionOnSet(w, s \ {AnyOf(s)})
    BY <2>1, SumUnfolds
  <2> QED
    BY <2>1, <2>2, FS_RemoveElement, FS_CardinalityType
<1>3. T = {}
  <2> SUFFICES ASSUME T # {} PROVE FALSE
    OBVIOUS
  <2>1. PICK m \in T : \A k \in T : m <= k
    BY <1>1, LeastElement
  <2>2. PICK s \in SUBSET S : Cardinality(s) = m /\ SumFunctionOnSet(w, s) \notin N
    BY <1>1, <2>1
  <2>3. s # {}
    <3>1. 0 \in N
      BY DEF HasSums
    <3> QED
      BY <1>2, <2>2, <3>1, Zenon
  <2> DEFINE r == s \ {AnyOf(s)}
  <2>4. /\ AnyOf(s) \in s /\ r \in SUBSET S /\ Cardinality(r) = m - 1
        /\ SumFunctionOnSet(w, s) = w[AnyOf(s)] + SumFunctionOnSet(w, r)
    BY <1>2, <2>2, <2>3
  <2>5. w[AnyOf(s)] \in N /\ m \in Nat /\ m - 1 \in Nat
    BY <1>1, <1>2, <2>1, <2>4 DEF ValuesIn
  <2>6. SumFunctionOnSet(w, r) \notin N
    BY <2>2, <2>4, <2>5 DEF HasSums
  <2>7. m - 1 \in T
    BY <1>1, <2>4, <2>5, <2>6
  <2> QED
    BY <2>1, <2>5, <2>7
<1> QED
  BY <1>1, <1>2, <1>3

\* A sum of integers is an integer,
LEMMA SumType ==
    ASSUME NEW w, NEW S, IsFiniteSet(S), IntegersOn(w, S)
    PROVE  SumFunctionOnSet(w, S) \in Int
<1>1. HasSums(Int)
  BY DEF HasSums
<1>2. ValuesIn(w, S, Int)
  BY DEF IntegersOn, ValuesIn
<1> QED
  BY <1>1, <1>2, SumClosed

\* a sum of naturals a natural number,
LEMMA SumOfNaturals ==
    ASSUME NEW w, NEW S, IsFiniteSet(S), ValuesIn(w, S, Nat)
    PROVE  SumFunctionOnSet(w, S) \in Nat
<1>1. HasSums(Nat)
  BY DEF HasSums
<1> QED
  BY <1>1, SumClosed

\* and a sum of zeros is zero.
LEMMA SumOfZeros ==
    ASSUME NEW w, NEW S, IsFiniteSet(S), ValuesIn(w, S, {0})
    PROVE  SumFunctionOnSet(w, S) = 0
<1>1. HasSums({0})
  BY DEF HasSums
<1>2. SumFunctionOnSet(w, S) \in {0}
  BY <1>1, SumClosed
<1> QED
  BY <1>2

\* Any element can be taken out of a sum.
LEMMA SumSplit ==
    ASSUME NEW w, NEW S, IsFiniteSet(S), IntegersOn(w, S), NEW e \in S
    PROVE  SumFunctionOnSet(w, S) = w[e] + SumFunctionOnSet(w, S \ {e})
<1> DEFINE Sum(s) == SumFunctionOnSet(w, s)
           Bad(s) == \E x \in s : Sum(s) # w[x] + Sum(s \ {x})
           T == {n \in Nat : \E s \in SUBSET S : Cardinality(s) = n /\ Bad(s)}
<1>1. T \subseteq Nat /\ \A n \in Nat :
         n \in T <=> \E s \in SUBSET S : Cardinality(s) = n /\ Bad(s)
  OBVIOUS
<1> HIDE DEF T
<1>2. \A s \in SUBSET S :
         /\ IsFiniteSet(s) /\ Cardinality(s) \in Nat /\ Sum(s) \in Int
         /\ \A x \in s : s \ {x} \in SUBSET S /\ Cardinality(s \ {x}) = Cardinality(s) - 1
         /\ s # {} => AnyOf(s) \in s /\ Sum(s) = w[AnyOf(s)] + Sum(s \ {AnyOf(s)})
  <2> TAKE s \in SUBSET S
  <2>1. IsFiniteSet(s)
    BY FS_Subset
  <2>2. s # {} => AnyOf(s) \in s /\ Sum(s) = w[AnyOf(s)] + Sum(s \ {AnyOf(s)})
    BY <2>1, SumUnfolds
  <2>3. Sum(s) \in Int
    <3>1. IntegersOn(w, s)
      BY DEF IntegersOn
    <3> QED
      BY <2>1, <3>1, SumType
  <2>4. \A x \in s : s \ {x} \in SUBSET S /\ Cardinality(s \ {x}) = Cardinality(s) - 1
    BY <2>1, FS_RemoveElement
  <2> QED
    BY <2>1, <2>2, <2>3, <2>4, FS_CardinalityType
<1> HIDE DEF Sum
<1>3. T = {}
  <2> SUFFICES ASSUME T # {} PROVE FALSE
    OBVIOUS
  <2>1. PICK m \in T : \A k \in T : m <= k
    BY <1>1, LeastElement
  <2>2. PICK s \in SUBSET S : Cardinality(s) = m /\ Bad(s)
    BY <1>1, <2>1
  <2>3. PICK x \in s : Sum(s) # w[x] + Sum(s \ {x})
    BY <2>2
  <2> DEFINE c == AnyOf(s)
             r == s \ {c}
             u == s \ {x}
  <2>4. c \in s /\ Sum(s) = w[c] + Sum(r)
    BY <1>2, <2>3
  <2>5. c # x
    BY <2>3, <2>4
  <2>6. /\ r \in SUBSET S /\ Cardinality(r) = m - 1
        /\ u \in SUBSET S /\ Cardinality(u) = m - 1
    BY <1>2, <2>2, <2>4
  <2>7. m \in Nat /\ m - 1 \in Nat /\ m - 1 \notin T
    <3>1. m \in Nat /\ m - 1 \in Nat
      BY <1>1, <1>2, <2>1, <2>6
    <3> QED
      BY <2>1, <3>1
  <2>8. ~ Bad(r) /\ ~ Bad(u)
    BY <1>1, <2>6, <2>7
  <2>9. Sum(r) = w[x] + Sum(r \ {x})
    BY <2>5, <2>8
  <2>10. Sum(u) = w[c] + Sum(u \ {c})
    BY <2>4, <2>5, <2>8
  <2>11. r \ {x} = u \ {c}
    OBVIOUS
  <2>12. w[x] \in Int /\ w[c] \in Int /\ Sum(r \ {x}) \in Int
    <3>1. r \ {x} \in SUBSET S
      BY <2>6
    <3> QED
      BY <1>2, <2>4, <3>1 DEF IntegersOn
  <2>13. \A a, b, d \in Int : a + (b + d) = b + (a + d)
    OBVIOUS
  <2> HIDE DEF c, r, u
  <2>14. Sum(s) = w[c] + (w[x] + Sum(r \ {x}))
    BY <2>4, <2>9
  <2>15. Sum(s) = w[x] + (w[c] + Sum(r \ {x}))
    BY <2>12, <2>13, <2>14
  <2>16. Sum(s) = w[x] + Sum(u)
    BY <2>10, <2>11, <2>15
  <2> QED
    BY <2>3, <2>16 DEF u
<1>4. ~ Bad(S)
  BY <1>1, <1>2, <1>3
<1> QED
  BY <1>4 DEF Sum

\* One summand changes: the sum changes by as much.
LEMMA SumChange ==
    ASSUME NEW w, NEW v, NEW S, IsFiniteSet(S), IntegersOn(w, S), IntegersOn(v, S),
           NEW e \in S, AgreeOn(w, v, S \ {e})
    PROVE  SumFunctionOnSet(v, S) = SumFunctionOnSet(w, S) - w[e] + v[e]
<1>1. SumFunctionOnSet(w, S) = w[e] + SumFunctionOnSet(w, S \ {e})
  BY SumSplit
<1>2. SumFunctionOnSet(v, S) = v[e] + SumFunctionOnSet(v, S \ {e})
  BY SumSplit
<1>3. IsFiniteSet(S \ {e})
  BY FS_RemoveElement
<1>4. SumFunctionOnSet(w, S \ {e}) = SumFunctionOnSet(v, S \ {e})
  BY <1>3, SumCongruence
<1>5. IntegersOn(w, S \ {e})
  BY DEF IntegersOn
<1>6. SumFunctionOnSet(w, S \ {e}) \in Int
  BY <1>3, <1>5, SumType
<1>7. w[e] \in Int /\ v[e] \in Int
  BY DEF IntegersOn
<1>8. \A a, b, c \in Int : (b + c) = (a + c) - a + b
  OBVIOUS
<1> QED
  BY <1>1, <1>2, <1>4, <1>6, <1>7, <1>8

-----------------------------------------------------------------------------
(* The inductive invariant, and one lemma per action                       *)

IInv ==
    /\ TypeOK
    /\ IndexMatchesLists
    /\ WalkInv
    /\ UncrossedExceptOwn

\* The empty book satisfies the inductive invariant.
LEMMA InitInv == Init => IInv
<1> SUFFICES ASSUME Init PROVE IInv
  OBVIOUS
<1> USE ConstantAssumption, SentinelAssumption
<1>1. TypeOK
  BY DEF Init, TypeOK, End
<1>2. \A s \in Side, p \in Price : level[s][p] = <<>> /\ Len(level[s][p]) = 0
  BY DEF Init
<1>3. IndexMatchesLists
  BY <1>2 DEF Init, IndexMatchesLists
<1>4. WalkInv
  BY <1>2 DEF Init, WalkInv
<1>5. UncrossedExceptOwn
  BY DEF Init, UncrossedExceptOwn
<1> QED
  BY <1>1, <1>3, <1>4, <1>5 DEF IInv

\* add_order starts its walk at the best level of the opposite side.
LEMMA AddOrderInv ==
    ASSUME IInv, NEW o \in Request, AddOrder(o)
    PROVE  IInv'
<1> USE ConstantAssumption, SentinelAssumption DEF IInv
<1> DEFINE s == Opposite(o.side)
<1>1. o.side \in Side /\ s \in Side /\ o.quantity \in 0..MaxQty /\ o # NoOrder
  BY DEF Request, Side, Opposite
<1>2. keys[s] \in SUBSET Price
  BY <1>1 DEF TypeOK
<1>3. /\ keys[s] = {} => it' = End
      /\ keys[s] # {} => /\ it' \in keys[s]
                         /\ \A q \in keys[s] : q = it' \/ Better(s, it', q)
  BY <1>1, <1>2, BestProperties DEF AddOrder
<1>4. /\ UNCHANGED book
      /\ pc' = "outer" /\ taker' = o /\ pos' = 0 /\ asked' = o.quantity
      /\ index[o.id] = NoLocation /\ (o.type = "limit" => o.price > 0)
  BY DEF AddOrder, Valid
<1>5. TypeOK'
  BY <1>1, <1>2, <1>3, <1>4 DEF TypeOK, book
<1>6. IndexMatchesLists'
  BY <1>4 DEF IndexMatchesLists, book, Listed
<1>7. opp' = s
  BY <1>4 DEF opp
<1>8. ASSUME NEW p \in Price, it' = End \/ Better(s, p, it') PROVE level[s][p] = <<>>
  <2>1. p \notin keys[s]
    BY <1>1, <1>2, <1>3, <1>8 DEF Better, Price, End
  <2> QED
    BY <1>1, <2>1 DEF WalkInv
<1>9. WalkInv'
  <2>1. ASSUME NEW p \in Price, it' = End \/ Better(s, p, it')
        PROVE  \A k \in 1..Len(level[s][p]) : OwnMaker(level[s][p][k])'
    <3>1. 1..Len(level[s][p]) = {}
      BY <2>1, <1>8
    <3> QED
      BY <3>1
  <2> QED
    BY <1>3, <1>4, <1>7, <2>1 DEF WalkInv, book
<1>10. UncrossedExceptOwn'
  BY <1>4 DEF UncrossedExceptOwn, SameAccount, book
<1> QED
  BY <1>5, <1>6, <1>9, <1>10

\* What the invariant says of the maker under the inner iterator.
LEMMA MakerFacts ==
    ASSUME IInv, AtMaker
    PROVE  /\ taker \in Request /\ taker # NoOrder /\ taker.quantity \in 1..MaxQty
           /\ opp \in Side /\ it \in Price /\ pos \in 1..Len(level[opp][it])
           /\ maker \in OrderId
           /\ index[maker] = [side |-> opp, price |-> it] /\ index[maker] # NoLocation
           /\ node[maker] \in RestingOrder
           /\ node[maker].side = opp /\ node[maker].price = it
<1> USE ConstantAssumption, SentinelAssumption DEF IInv
<1>1. pc = "inner" /\ taker.quantity > 0 /\ pos <= Len(level[opp][it])
  BY DEF AtMaker
<1>2. taker \in Request /\ taker # NoOrder
  BY <1>1 DEF TypeOK
<1>3. opp \in Side /\ taker.quantity \in 0..MaxQty
  BY <1>2 DEF Request, opp, Opposite, Side
<1>4. it \in Price /\ pos \in Nat /\ pos >= 1
  BY <1>1 DEF TypeOK, WalkInv
<1>5. level[opp][it] \in Seq(OrderId)
  BY <1>3, <1>4 DEF TypeOK
<1>6. pos \in 1..Len(level[opp][it])
  BY <1>1, <1>4, <1>5
<1>7. maker \in OrderId
  BY <1>5, <1>6, ElementOfSeq DEF maker
<1>8. index[maker] = [side |-> opp, price |-> it]
  BY <1>3, <1>4, <1>6 DEF IndexMatchesLists, maker
<1>9. index[maker] # NoLocation
  BY <1>3, <1>4, <1>8 DEF Location
<1>10. node[maker] \in RestingOrder
  BY <1>7, <1>9 DEF IndexMatchesLists, TypeOK
<1>11. node[maker].side = opp /\ node[maker].price = it
  BY <1>7, <1>8, <1>9 DEF IndexMatchesLists
<1> QED
  BY <1>1, <1>2, <1>3, <1>4, <1>6, <1>7, <1>8, <1>9, <1>10, <1>11

\* Entering a level moves only the inner iterator.
LEMMA EnterLevelInv ==
    ASSUME IInv, EnterLevel
    PROVE  IInv'
<1> USE ConstantAssumption, SentinelAssumption DEF IInv
<1>1. /\ UNCHANGED <<level, total, keys, node, index, taker, it, fills, asked>>
      /\ pc = "outer" /\ pc' = "inner" /\ pos' = 1
      /\ it # End /\ ~ TooFar(it)
  BY DEF EnterLevel, book, MoreToMatch
<1>2. TypeOK'
  BY <1>1 DEF TypeOK
<1>3. IndexMatchesLists'
  BY <1>1 DEF IndexMatchesLists, Listed
<1>4. opp' = opp /\ TooFar(it)' = TooFar(it)
  BY <1>1 DEF opp, TooFar
<1>5. \A i \in OrderId : OwnMaker(i)' = OwnMaker(i)
  BY <1>1 DEF OwnMaker
<1>6. WalkInv'
  <2>1. /\ \A s \in Side, p \in Price : level'[s][p] # <<>> => p \in keys'[s]
        /\ (taker'.type = "limit" => taker'.price > 0)
        /\ index'[taker'.id] = NoLocation
        /\ it' \in keys'[opp']
    BY <1>1, <1>4 DEF WalkInv
  <2>2. taker'.quantity > 0 =>
           \A p \in Price : (it' = End \/ Better(opp', p, it')) =>
              \A k \in 1..Len(level'[opp'][p]) : OwnMaker(level[opp][p][k])'
    BY <1>1, <1>4 DEF WalkInv, OwnMaker
  <2>3. \A k \in 1..Len(level'[opp'][it']) : ~ (k < pos')
    BY <1>1
  <2> QED
    BY <1>1, <1>4, <2>1, <2>2, <2>3 DEF WalkInv
<1>7. UncrossedExceptOwn'
  BY <1>1 DEF UncrossedExceptOwn
<1> QED
  BY <1>2, <1>3, <1>6, <1>7

\* Stepping over an own maker: the position passed holds an own order.
LEMMA SkipOwnInv ==
    ASSUME IInv, SkipOwn
    PROVE  IInv'
<1> USE ConstantAssumption, SentinelAssumption DEF IInv
<1>1. /\ UNCHANGED <<level, total, keys, node, index, pc, taker, it, fills, asked>>
      /\ AtMaker /\ pc = "inner" /\ pos' = pos + 1
      /\ OwnMaker(maker)
  BY DEF SkipOwn, book, AtMaker, OwnMaker
<1>2. opp \in Side /\ it \in Price /\ pos \in 1..Len(level[opp][it])
  BY <1>1, MakerFacts
<1>3. TypeOK'
  BY <1>1, <1>2 DEF TypeOK
<1>4. IndexMatchesLists'
  BY <1>1 DEF IndexMatchesLists, Listed
<1>5. opp' = opp /\ TooFar(it)' = TooFar(it)
  BY <1>1 DEF opp, TooFar
<1>6. WalkInv'
  <2>1. taker.quantity > 0 =>
           \A k \in 1..Len(level[opp][it]) : k < pos + 1 => OwnMaker(level[opp][it][k])
    BY <1>1, <1>2 DEF WalkInv, maker
  <2> QED
    BY <1>1, <1>2, <1>5, <2>1 DEF WalkInv, OwnMaker
<1>7. UncrossedExceptOwn'
  BY <1>1 DEF UncrossedExceptOwn
<1> QED
  BY <1>3, <1>4, <1>6, <1>7

\* Leaving a level: with something left of the taker, the whole level has been
\* passed, and no level with orders lies between it and the next one.
LEMMA LeaveLevelInv ==
    ASSUME IInv, LeaveLevel
    PROVE  IInv'
<1> USE ConstantAssumption, SentinelAssumption DEF IInv
<1> DEFINE P == {p \in keys[opp] : Better(opp, it, p)}
<1>1. /\ UNCHANGED <<level, total, node, index, taker, fills, asked>>
      /\ pc = "inner" /\ pc' = "outer" /\ pos' = 0 /\ ~ AtMaker
      /\ keys' = DropEmptyLevel(opp, it)
      /\ it' = Best(opp, P)
  BY DEF LeaveLevel
<1>2. taker \in Request /\ taker # NoOrder /\ it \in Price
  BY <1>1 DEF TypeOK, WalkInv
<1>3. opp \in Side /\ taker.quantity \in 0..MaxQty
  BY <1>2 DEF Request, opp, Opposite, Side
<1>4. keys[opp] \in SUBSET Price /\ P \in SUBSET Price
  BY <1>3 DEF TypeOK
<1>5. /\ P = {} => it' = End
      /\ P # {} => /\ it' \in P
                   /\ \A q \in P : q = it' \/ Better(opp, it', q)
  BY <1>1, <1>3, <1>4, BestProperties
<1>6. /\ keys' \in [Side -> SUBSET Price]
      /\ \A s \in Side, p \in Price :
            p \in keys'[s] <=> p \in keys[s] /\ ~ (s = opp /\ p = it /\ level[opp][it] = <<>>)
  BY <1>1, <1>2, <1>3 DEF TypeOK, DropEmptyLevel
<1>7. TypeOK'
  BY <1>1, <1>4, <1>5, <1>6 DEF TypeOK
<1>8. IndexMatchesLists'
  BY <1>1 DEF IndexMatchesLists, Listed
<1>9. opp' = opp
  BY <1>1 DEF opp
<1>10. WalkInv'
  <2>1. \A s \in Side, p \in Price : level[s][p] # <<>> => p \in keys'[s]
    BY <1>6 DEF WalkInv
  <2>2. it' # End => it' \in keys'[opp]
    BY <1>2, <1>3, <1>4, <1>5, <1>6 DEF Better, Price
  <2>3. ASSUME taker.quantity > 0, NEW p \in Price, it' = End \/ Better(opp, p, it'),
               NEW k \in 1..Len(level[opp][p])
        PROVE  OwnMaker(level[opp][p][k])
    <3>1. CASE Better(opp, p, it)
      BY <1>1, <2>3, <3>1 DEF WalkInv
    <3>2. CASE p = it
      <4>1. level[opp][it] \in Seq(OrderId) /\ pos \in Nat
        BY <1>2, <1>3 DEF TypeOK
      <4>2. pos > Len(level[opp][it])
        BY <1>1, <2>3, <4>1 DEF AtMaker
      <4> QED
        BY <1>1, <2>3, <3>2, <4>1, <4>2 DEF WalkInv
    <3>3. CASE Better(opp, it, p)
      <4>1. p \notin keys[opp]
        BY <1>3, <1>4, <1>5, <2>3, <3>3 DEF Better, Price, End
      <4>2. level[opp][p] = <<>>
        BY <1>3, <4>1 DEF WalkInv
      <4> QED
        BY <2>3, <4>2
    <3> QED
      BY <1>2, <3>1, <3>2, <3>3 DEF Better, Price
  <2> QED
    BY <1>1, <1>9, <2>1, <2>2, <2>3 DEF WalkInv, OwnMaker
<1>11. UncrossedExceptOwn'
  BY <1>1 DEF UncrossedExceptOwn
<1> QED
  BY <1>7, <1>8, <1>10, <1>11

\* Nothing rests: the book is the one the walk left.
LEMMA ReturnFillsInv ==
    ASSUME IInv, ReturnFills
    PROVE  IInv'
<1> USE ConstantAssumption, SentinelAssumption DEF IInv
<1>1. /\ UNCHANGED <<level, total, keys, node, index>>
      /\ pc' = "idle" /\ taker' = NoOrder /\ it' = End /\ pos' = 0 /\ asked' = 0
  BY DEF ReturnFills, EndCall, book
<1>2. TypeOK'
  BY <1>1 DEF TypeOK
<1>3. IndexMatchesLists'
  BY <1>1 DEF IndexMatchesLists, Listed
<1>4. WalkInv'
  BY <1>1 DEF WalkInv
<1>5. UncrossedExceptOwn'
  BY <1>1 DEF UncrossedExceptOwn, SameAccount
<1> QED
  BY <1>2, <1>3, <1>4, <1>5

\* A partial fill of the maker: the lists and the index stay, the taker is used up.
LEMMA FillPartlyInv ==
    ASSUME IInv, FillMaker, taker.quantity < node[maker].quantity
    PROVE  IInv'
<1> USE ConstantAssumption, SentinelAssumption DEF IInv
<1> DEFINE m == maker
<1>1. /\ AtMaker /\ UNCHANGED <<keys, pc, it, asked>>
      /\ pc = "inner"
  BY DEF FillMaker, AtMaker
<1>2. /\ taker \in Request /\ taker # NoOrder /\ taker.quantity \in 1..MaxQty
      /\ opp \in Side /\ it \in Price /\ pos \in 1..Len(level[opp][it])
      /\ m \in OrderId /\ index[m] # NoLocation
      /\ node[m] \in RestingOrder
  BY <1>1, MakerFacts
<1>3. node[m].quantity \in 1..MaxQty
  BY <1>2 DEF RestingOrder
<1>4. Least(taker.quantity, node[m].quantity) = taker.quantity
  BY <1>2, <1>3 DEF Least
<1>5. /\ node[m].quantity # taker.quantity
      /\ taker' = [taker EXCEPT !.quantity = taker.quantity - taker.quantity]
      /\ total' = [total EXCEPT ![opp][it] = @ - taker.quantity]
      /\ node' = [node EXCEPT ![m] = [node[m] EXCEPT !.quantity = node[m].quantity - taker.quantity]]
      /\ UNCHANGED <<index, level>>
      /\ pos' = pos + 1
  BY <1>2, <1>3, <1>4 DEF FillMaker, NextMaker
<1>6. taker.quantity - taker.quantity = 0
  BY <1>2
<1>7. /\ taker' \in Request /\ taker' # NoOrder /\ taker'.quantity = 0
      /\ taker'.id = taker.id /\ taker'.type = taker.type
      /\ taker'.price = taker.price /\ taker'.side = taker.side
  BY <1>2, <1>5, <1>6 DEF Request
<1>8. node[m].quantity - taker.quantity \in 1..MaxQty
  BY <1>2, <1>3
<1>9. /\ node'[m] \in RestingOrder /\ node'[m] # NoOrder
      /\ node'[m].id = node[m].id /\ node'[m].side = node[m].side
      /\ node'[m].price = node[m].price /\ node'[m].account = node[m].account
  <2>1. node \in [OrderId -> RestingOrder \cup {NoOrder}]
    BY DEF TypeOK
  <2>2. node'[m] = [node[m] EXCEPT !.quantity = node[m].quantity - taker.quantity]
    BY <1>2, <1>5, <2>1
  <2>3. node'[m] \in RestingOrder
    BY <1>2, <1>8, <2>2 DEF RestingOrder
  <2>4. node'[m] # NoOrder
    BY <2>3 DEF RestingOrder, Request, Price
  <2> QED
    BY <1>2, <2>2, <2>3, <2>4 DEF RestingOrder
<1>10. \A i \in OrderId : i # m => node'[i] = node[i]
  BY <1>5 DEF TypeOK
<1>11. TypeOK'
  <2>1. node' \in [OrderId -> RestingOrder \cup {NoOrder}]
    BY <1>5, <1>9 DEF TypeOK
  <2>2. total' \in [Side -> [Price -> Int]]
    BY <1>2, <1>5 DEF TypeOK
  <2> QED
    BY <1>1, <1>2, <1>5, <1>7, <2>1, <2>2 DEF TypeOK
<1>11a. \A i \in OrderId :
          /\ (node'[i] = NoOrder) <=> (node[i] = NoOrder)
          /\ node[i] # NoOrder =>
                /\ node'[i].id = node[i].id /\ node'[i].side = node[i].side
                /\ node'[i].price = node[i].price /\ node'[i].account = node[i].account
  <2>1. node[m] # NoOrder
    BY <1>2 DEF IndexMatchesLists
  <2> QED
    BY <1>9, <1>10, <2>1
<1>12. IndexMatchesLists'
  <2>1. \A i \in OrderId : (index'[i] = NoLocation) <=> (node'[i] = NoOrder)
    BY <1>5, <1>11a DEF IndexMatchesLists
  <2>2. \A i, s, p : Listed(i, s, p)' <=> Listed(i, s, p)
    BY <1>5 DEF Listed
  <2>3. ASSUME NEW i \in OrderId, index[i] # NoLocation
        PROVE  /\ Listed(i, index[i].side, index[i].price)
               /\ node'[i].id = i
               /\ node'[i].side = index[i].side
               /\ node'[i].price = index[i].price
    BY <1>11a, <2>3 DEF IndexMatchesLists
  <2> QED
    BY <1>5, <2>1, <2>2, <2>3 DEF IndexMatchesLists
<1>13. opp' = opp /\ TooFar(it)' = TooFar(it)
  BY <1>1, <1>7 DEF opp, TooFar
<1>14. WalkInv'
  BY <1>1, <1>2, <1>5, <1>7, <1>13 DEF WalkInv
<1>15. UncrossedExceptOwn'
  BY <1>11a DEF UncrossedExceptOwn, SameAccount
<1> QED
  BY <1>11, <1>12, <1>14, <1>15

\* What erasing the k-th order of a list does to the lists: the erased id is
\* listed nowhere, every other id stays where it was, and the FIFO order stays.
Erased(s, p, k) ==
    /\ level' \in [Side -> [Price -> Seq(OrderId)]]
    /\ \A t \in Side, r \in Price : (t # s \/ r # p) => level'[t][r] = level[t][r]
    /\ Len(level'[s][p]) = Len(level[s][p]) - 1
    /\ \A j \in 1..(Len(level[s][p]) - 1) :
          level'[s][p][j] = IF j < k THEN level[s][p][j] ELSE level[s][p][j + 1]
    /\ \A t \in Side, r \in Price : \A j \in 1..Len(level'[t][r]) :
          /\ level'[t][r][j] # level[s][p][k]
          /\ \E l \in 1..Len(level[t][r]) : level'[t][r][j] = level[t][r][l]
    /\ \A t \in Side, r \in Price : \A j, l \in 1..Len(level'[t][r]) :
          level'[t][r][j] = level'[t][r][l] => j = l
    /\ \A i \in OrderId, t \in Side, r \in Price :
          i # level[s][p][k] /\ Listed(i, t, r) =>
             \E j \in 1..Len(level'[t][r]) : level'[t][r][j] = i

\* RemoveAt on one list has that effect on all the lists (list::erase in match
\* and in cancel_order).
LEMMA EraseFacts ==
    ASSUME TypeOK, IndexMatchesLists,
           NEW s \in Side, NEW p \in Price, NEW k \in 1..Len(level[s][p]),
           level' = [level EXCEPT ![s][p] = RemoveAt(@, k)]
    PROVE  Erased(s, p, k)
<1> DEFINE q == level[s][p]
<1>1. level \in [Side -> [Price -> Seq(OrderId)]] /\ q \in Seq(OrderId)
  BY DEF TypeOK
<1>2. level'[s][p] = RemoveAt(q, k)
  BY <1>1
<1>3. /\ RemoveAt(q, k) \in Seq(OrderId)
      /\ Len(RemoveAt(q, k)) = Len(q) - 1
      /\ \A j \in 1..(Len(q) - 1) :
            RemoveAt(q, k)[j] = IF j < k THEN q[j] ELSE q[j + 1]
  BY <1>1, RemoveAtProperties
<1>4. level' \in [Side -> [Price -> Seq(OrderId)]]
  BY <1>1, <1>3
<1>5. \A t \in Side, r \in Price : (t # s \/ r # p) => level'[t][r] = level[t][r]
  BY <1>1
<1>6. Len(q) \in Nat
  BY <1>1
<1>7. \A j \in 1..(Len(q) - 1) :
         /\ j \in 1..Len(q) /\ j + 1 \in 1..Len(q)
         /\ level'[s][p][j] = IF j < k THEN q[j] ELSE q[j + 1]
  BY <1>2, <1>3, <1>6
<1>8. Len(level'[s][p]) = Len(q) - 1
  BY <1>2, <1>3
<1>9. \A j, l \in 1..Len(q) : q[j] = q[l] => j = l
  BY DEF IndexMatchesLists
<1>10. ASSUME NEW t \in Side, NEW r \in Price, NEW j \in 1..Len(level'[t][r])
       PROVE  /\ level'[t][r][j] # q[k]
              /\ \E l \in 1..Len(level[t][r]) : level'[t][r][j] = level[t][r][l]
  <2>1. CASE t = s /\ r = p
    <3>1. j \in 1..(Len(q) - 1)
      BY <1>8, <2>1
    <3>2. CASE j < k
      BY <1>7, <1>9, <2>1, <3>1, <3>2
    <3>3. CASE ~ (j < k)
      <4>1. j + 1 # k
        BY <3>1, <3>3, <1>6
      <4> QED
        BY <1>7, <1>9, <2>1, <3>1, <3>3, <4>1
    <3> QED
      BY <3>2, <3>3
  <2>2. CASE t # s \/ r # p
    <3>1. level'[t][r] = level[t][r]
      BY <1>5, <2>2
    <3>2. index[level[t][r][j]] = [side |-> t, price |-> r]
      BY <3>1 DEF IndexMatchesLists
    <3>3. index[q[k]] = [side |-> s, price |-> p]
      BY DEF IndexMatchesLists
    <3>4. level[t][r][j] # q[k]
      BY <2>2, <3>2, <3>3
    <3> QED
      BY <3>1, <3>4
  <2> QED
    BY <2>1, <2>2
<1>11. ASSUME NEW t \in Side, NEW r \in Price, NEW j \in 1..Len(level'[t][r]),
              NEW l \in 1..Len(level'[t][r]), level'[t][r][j] = level'[t][r][l]
       PROVE  j = l
  <2>1. CASE t = s /\ r = p
    <3>1. j \in 1..(Len(q) - 1) /\ l \in 1..(Len(q) - 1)
      BY <1>8, <2>1
    <3> DEFINE f(x) == IF x < k THEN x ELSE x + 1
    <3>2. /\ f(j) \in 1..Len(q) /\ f(l) \in 1..Len(q)
          /\ level'[s][p][j] = q[f(j)] /\ level'[s][p][l] = q[f(l)]
      BY <1>7, <3>1
    <3>3. f(j) = f(l)
      BY <1>9, <1>11, <2>1, <3>2
    <3> QED
      BY <3>1, <3>3, <1>6
  <2>2. CASE t # s \/ r # p
    BY <1>5, <1>11, <2>2 DEF IndexMatchesLists
  <2> QED
    BY <2>1, <2>2
<1>12. ASSUME NEW i \in OrderId, NEW t \in Side, NEW r \in Price,
              i # q[k], Listed(i, t, r)
       PROVE  \E j \in 1..Len(level'[t][r]) : level'[t][r][j] = i
  <2>1. PICK l \in 1..Len(level[t][r]) : level[t][r][l] = i
    BY <1>12 DEF Listed
  <2>2. CASE t = s /\ r = p
    <3>1. l # k
      BY <1>12, <2>1, <2>2
    <3>2. CASE l < k
      <4>1. l \in 1..(Len(q) - 1)
        BY <1>6, <2>1, <2>2, <3>2
      <4> QED
        BY <1>7, <1>8, <2>1, <2>2, <3>2, <4>1
    <3>3. CASE l > k
      <4>1. l - 1 \in 1..(Len(q) - 1) /\ ~ (l - 1 < k) /\ (l - 1) + 1 = l
        BY <1>6, <2>1, <2>2, <3>3
      <4> QED
        BY <1>7, <1>8, <2>1, <2>2, <4>1
    <3> QED
      BY <3>1, <3>2, <3>3
  <2>3. CASE t # s \/ r # p
    BY <1>5, <2>1, <2>3
  <2> QED
    BY <2>2, <2>3
<1> QED
  BY <1>4, <1>5, <1>7, <1>8, <1>10, <1>11, <1>12 DEF Erased

\* Erasing one order from its list, its node and the index keeps the three in
\* agreement and cannot cross the book.
LEMMA EraseInv ==
    ASSUME TypeOK, IndexMatchesLists, UncrossedExceptOwn,
           NEW s \in Side, NEW p \in Price, NEW k \in 1..Len(level[s][p]),
           level' = [level EXCEPT ![s][p] = RemoveAt(@, k)],
           node' = [node EXCEPT ![level[s][p][k]] = NoOrder],
           index' = [index EXCEPT ![level[s][p][k]] = NoLocation]
    PROVE  /\ level' \in [Side -> [Price -> Seq(OrderId)]]
           /\ node' \in [OrderId -> RestingOrder \cup {NoOrder}]
           /\ index' \in [OrderId -> Location \cup {NoLocation}]
           /\ IndexMatchesLists'
           /\ UncrossedExceptOwn'
<1> USE ConstantAssumption, SentinelAssumption
<1> DEFINE m == level[s][p][k]
<1>0. Erased(s, p, k)
  BY EraseFacts
<1>1. level' \in [Side -> [Price -> Seq(OrderId)]]
  BY <1>0 DEF Erased
<1>2. \A t \in Side, r \in Price : \A j \in 1..Len(level'[t][r]) :
         /\ level'[t][r][j] # m
         /\ \E l \in 1..Len(level[t][r]) : level'[t][r][j] = level[t][r][l]
  BY <1>0 DEF Erased
<1>3. \A t \in Side, r \in Price : \A j, l \in 1..Len(level'[t][r]) :
         level'[t][r][j] = level'[t][r][l] => j = l
  BY <1>0 DEF Erased
<1>4. \A i \in OrderId, t \in Side, r \in Price :
         i # m /\ Listed(i, t, r) => \E j \in 1..Len(level'[t][r]) : level'[t][r][j] = i
  BY <1>0 DEF Erased
<1> HIDE DEF m
<1>5. /\ node' \in [OrderId -> RestingOrder \cup {NoOrder}]
      /\ index' \in [OrderId -> Location \cup {NoLocation}]
  BY DEF TypeOK
<1>6. \A i \in OrderId : /\ node'[i] = IF i = m THEN NoOrder ELSE node[i]
                         /\ index'[i] = IF i = m THEN NoLocation ELSE index[i]
  BY DEF TypeOK, m
<1>7. IndexMatchesLists'
  <2>1. \A i \in OrderId : (index'[i] = NoLocation) <=> (node'[i] = NoOrder)
    BY <1>6 DEF IndexMatchesLists
  <2>2. ASSUME NEW i \in OrderId, index'[i] # NoLocation
        PROVE  /\ Listed(i, index[i].side, index[i].price)'
               /\ node'[i].id = i
               /\ node'[i].side = index'[i].side
               /\ node'[i].price = index'[i].price
    <3>1. i # m /\ index'[i] = index[i] /\ node'[i] = node[i] /\ index[i] # NoLocation
      BY <1>6, <2>2
    <3>2. Listed(i, index[i].side, index[i].price)
      BY <3>1 DEF IndexMatchesLists
    <3>3. index[i].side \in Side /\ index[i].price \in Price
      BY <3>1 DEF TypeOK, Location
    <3>4. \E j \in 1..Len(level'[index[i].side][index[i].price]) :
             level'[index[i].side][index[i].price][j] = i
      BY <1>4, <3>1, <3>2, <3>3
    <3>5. Listed(i, index[i].side, index[i].price)'
      BY <3>1, <3>4 DEF Listed
    <3> QED
      BY <3>1, <3>5 DEF IndexMatchesLists
  <2>3. ASSUME NEW t \in Side, NEW r \in Price, NEW j \in 1..Len(level'[t][r])
        PROVE  index'[level'[t][r][j]] = [side |-> t, price |-> r]
    <3>1. PICK l \in 1..Len(level[t][r]) : level'[t][r][j] = level[t][r][l]
      BY <1>2
    <3>2. level[t][r][l] \in OrderId
      BY ElementOfSeq DEF TypeOK
    <3>3. level'[t][r][j] # m
      BY <1>2
    <3> QED
      BY <1>6, <3>1, <3>2, <3>3, SMTT(30) DEF IndexMatchesLists
  <2> QED
    BY <1>3, <2>1, <2>2, <2>3 DEF IndexMatchesLists
<1>8. UncrossedExceptOwn'
  BY <1>6 DEF UncrossedExceptOwn, SameAccount
<1> QED
  BY <1>1, <1>5, <1>7, <1>8

\* The maker is used up: it is erased, and the iterator stands on its successor.
LEMMA FillWhollyInv ==
    ASSUME IInv, FillMaker, ~ (taker.quantity < node[maker].quantity)
    PROVE  IInv'
<1> USE ConstantAssumption, SentinelAssumption DEF IInv
<1> DEFINE m == maker
           q == node[m].quantity
<1>1. /\ AtMaker /\ UNCHANGED <<keys, pc, it, asked>>
      /\ pc = "inner"
  BY DEF FillMaker, AtMaker
<1>2. /\ taker \in Request /\ taker # NoOrder /\ taker.quantity \in 1..MaxQty
      /\ opp \in Side /\ it \in Price /\ pos \in 1..Len(level[opp][it])
      /\ m \in OrderId /\ index[m] = [side |-> opp, price |-> it] /\ index[m] # NoLocation
      /\ node[m] \in RestingOrder
  BY <1>1, MakerFacts
<1>3. q \in 1..MaxQty
  BY <1>2 DEF RestingOrder
<1>4. Least(taker.quantity, q) = q
  BY <1>2, <1>3 DEF Least
<1>5. /\ taker' = [taker EXCEPT !.quantity = @ - q]
      /\ total' = [total EXCEPT ![opp][it] = @ - q]
      /\ node' = [node EXCEPT ![m] = NoOrder]
      /\ index' = [index EXCEPT ![m] = NoLocation]
      /\ level' = [level EXCEPT ![opp][it] = RemoveAt(@, pos)]
      /\ pos' = pos
  BY <1>4 DEF FillMaker, NextMaker
<1>6. m = level[opp][it][pos]
  BY DEF maker
<1> HIDE DEF m, q
<1>7. /\ level' \in [Side -> [Price -> Seq(OrderId)]]
      /\ node' \in [OrderId -> RestingOrder \cup {NoOrder}]
      /\ index' \in [OrderId -> Location \cup {NoLocation}]
      /\ IndexMatchesLists'
      /\ UncrossedExceptOwn'
  BY <1>2, <1>5, <1>6, EraseInv
<1>8. /\ taker' \in Request /\ taker' # NoOrder /\ taker'.quantity \in 0..MaxQty
      /\ taker'.quantity > 0 => taker.quantity > 0
      /\ taker'.id = taker.id /\ taker'.type = taker.type /\ taker'.account = taker.account
      /\ taker'.price = taker.price /\ taker'.side = taker.side
  <2>1. taker.quantity - q \in 0..MaxQty
    BY <1>2, <1>3 DEF m, q
  <2> QED
    BY <1>2, <1>5, <2>1 DEF Request
<1>9. TypeOK'
  <2>1. total' \in [Side -> [Price -> Int]]
    BY <1>2, <1>3, <1>5 DEF TypeOK
  <2> QED
    BY <1>1, <1>2, <1>5, <1>7, <1>8, <2>1 DEF TypeOK
<1>10. opp' = opp /\ TooFar(it)' = TooFar(it)
  BY <1>1, <1>8 DEF opp, TooFar
<1>11. \A i \in OrderId : i # m => (OwnMaker(i)' <=> OwnMaker(i))
  BY <1>5, <1>8 DEF OwnMaker, SameAccount, TypeOK
<1>12. WalkInv'
  <2>1. ASSUME NEW s \in Side, NEW p \in Price, level'[s][p] # <<>>
        PROVE  p \in keys'[s]
    <3>1. CASE s = opp /\ p = it
      BY <1>1, <1>2, <3>1 DEF WalkInv
    <3>2. CASE s # opp \/ p # it
      <4>1. level'[s][p] = level[s][p]
        BY <1>5, <3>2 DEF TypeOK
      <4> QED
        BY <1>1, <2>1, <4>1 DEF WalkInv
    <3> QED
      BY <3>1, <3>2
  <2>2. index'[taker'.id] = NoLocation
    BY <1>1, <1>2, <1>5, <1>8 DEF WalkInv, TypeOK
  <2>3. it' # End /\ it' \in keys'[opp']
    BY <1>1, <1>10 DEF WalkInv
  <2>4. ASSUME taker'.quantity > 0, NEW p \in Price, it' = End \/ Better(opp', p, it'),
               NEW k \in 1..Len(level'[opp'][p])
        PROVE  OwnMaker(level[opp][p][k])'
    <3>1. p # it
      BY <1>1, <1>2, <1>10, <2>3, <2>4 DEF Better, Price
    <3>2. level'[opp][p] = level[opp][p]
      BY <1>5, <3>1 DEF TypeOK
    <3>3. OwnMaker(level[opp][p][k])
      BY <1>1, <1>8, <1>10, <2>4, <3>2 DEF WalkInv
    <3>4. level[opp][p][k] \in OrderId
      BY <1>2, <1>10, <2>4, <3>2, ElementOfSeq DEF TypeOK
    <3>5. level[opp][p][k] # m
      <4>1. index[level[opp][p][k]] = [side |-> opp, price |-> p]
        BY <1>2, <1>10, <2>4, <3>2 DEF IndexMatchesLists
      <4> QED
        BY <1>2, <3>1, <4>1
    <3> QED
      BY <1>10, <1>11, <3>2, <3>3, <3>4, <3>5
  <2>5. ASSUME taker'.quantity > 0, NEW k \in 1..Len(level'[opp'][it']), k < pos'
        PROVE  OwnMaker(level[opp][it][k])'
    <3>1. /\ Len(level'[opp][it]) = Len(level[opp][it]) - 1
          /\ \A j \in 1..(Len(level[opp][it]) - 1) :
                level'[opp][it][j] = IF j < pos THEN level[opp][it][j] ELSE level[opp][it][j + 1]
      <4>1. Erased(opp, it, pos)
        BY <1>2, <1>5, EraseFacts
      <4> QED
        BY <4>1 DEF Erased
    <3>2. Len(level[opp][it]) \in Nat
      BY <1>2 DEF TypeOK
    <3>3. k \in 1..(Len(level[opp][it]) - 1) /\ k \in 1..Len(level[opp][it]) /\ k < pos
      BY <1>1, <1>5, <1>10, <2>5, <3>1, <3>2
    <3>4. level'[opp][it][k] = level[opp][it][k]
      BY <3>1, <3>3
    <3>5. OwnMaker(level[opp][it][k])
      BY <1>1, <1>8, <2>5, <3>3 DEF WalkInv
    <3>6. level[opp][it][k] \in OrderId
      BY <1>2, <3>3, ElementOfSeq DEF TypeOK
    <3>7. level[opp][it][k] # m
      BY <1>2, <1>6, <3>3 DEF IndexMatchesLists
    <3> QED
      BY <1>1, <1>10, <1>11, <3>4, <3>5, <3>6, <3>7
  <2> QED
    BY <1>1, <1>2, <1>5, <1>8, <1>10, <2>1, <2>2, <2>3, <2>4, <2>5 DEF WalkInv
<1> QED
  BY <1>7, <1>9, <1>12

\* Every order the remainder of a limit order would cross is its own: the walk
\* has passed all levels within the limit.
LEMMA NothingLeftToTrade ==
    ASSUME IInv, pc = "outer", ~ MoreToMatch, Rests(taker),
           NEW i \in OrderId, node[i] # NoOrder, node[i].side = opp,
           ~ TooFar(node[i].price)
    PROVE  OwnMaker(i)
<1> USE ConstantAssumption, SentinelAssumption DEF IInv
<1>1. taker \in Request /\ taker.type = "limit" /\ taker.quantity > 0
  BY DEF TypeOK, Rests
<1>2. taker.side \in Side /\ opp \in Side /\ taker.price \in Nat
  BY <1>1 DEF Request, opp, Opposite, Side
<1>3. index[i] # NoLocation /\ index[i].side = opp /\ index[i].price = node[i].price
  BY DEF IndexMatchesLists
<1>4. node[i].price \in Price
  BY DEF TypeOK, RestingOrder
<1>5. PICK k \in 1..Len(level[opp][node[i].price]) : level[opp][node[i].price][k] = i
  BY <1>3 DEF IndexMatchesLists, Listed
<1>6. it = End \/ TooFar(it)
  BY <1>1 DEF MoreToMatch
<1>7. it = End \/ Better(opp, node[i].price, it)
  <2>1. CASE it = End
    BY <2>1
  <2>2. CASE it # End /\ TooFar(it)
    <3>1. it \in Price
      BY <2>2 DEF TypeOK
    <3>2. Better(taker.side, it, taker.price) /\ ~ Better(taker.side, node[i].price, taker.price)
      BY <1>1, <2>2 DEF TooFar
    <3>3. CASE taker.side = "buy"
      BY <1>2, <1>4, <3>1, <3>2, <3>3 DEF Better, opp, Opposite, Price
    <3>4. CASE taker.side = "sell"
      BY <1>2, <1>4, <3>1, <3>2, <3>4 DEF Better, opp, Opposite, Price
    <3> QED
      BY <1>2, <3>3, <3>4 DEF Side
  <2> QED
    BY <1>6, <2>1, <2>2
<1> QED
  BY <1>1, <1>4, <1>5, <1>7 DEF WalkInv

\* The remainder rests at the back of its level.
LEMMA RestRemainderInv ==
    ASSUME IInv, RestRemainder
    PROVE  IInv'
<1> USE ConstantAssumption, SentinelAssumption DEF IInv
<1> DEFINE s == taker.side
           p == taker.price
           i == taker.id
<1>1. /\ pc = "outer" /\ ~ MoreToMatch /\ Rests(taker)
      /\ level' = [level EXCEPT ![s][p] = Append(@, i)]
      /\ total' = [total EXCEPT ![s][p] = @ + taker.quantity]
      /\ keys'  = [keys EXCEPT ![s] = @ \cup {p}]
      /\ node'  = [node EXCEPT ![i] = taker]
      /\ index' = [index EXCEPT ![i] = [side |-> s, price |-> p]]
      /\ pc' = "idle" /\ taker' = NoOrder /\ it' = End /\ pos' = 0 /\ asked' = 0
  BY DEF RestRemainder, EndCall, PushBack
<1>2. taker \in Request /\ taker # NoOrder /\ taker.type = "limit" /\ taker.quantity > 0
  BY <1>1 DEF TypeOK, Rests
<1>3. s \in Side /\ p \in Price /\ i \in OrderId /\ taker \in RestingOrder
  BY <1>1, <1>2 DEF Request, RestingOrder, WalkInv, Price
<1>4. index[i] = NoLocation /\ node[i] = NoOrder
  BY <1>1, <1>3 DEF WalkInv, IndexMatchesLists
<1> DEFINE q == level[s][p]
<1>5. q \in Seq(OrderId) /\ level \in [Side -> [Price -> Seq(OrderId)]]
  BY <1>3 DEF TypeOK
<1>6. /\ level'[s][p] = Append(q, i)
      /\ \A t \in Side, r \in Price : (t # s \/ r # p) => level'[t][r] = level[t][r]
  BY <1>1, <1>3, <1>5
<1>7. /\ Append(q, i) \in Seq(OrderId) /\ Len(Append(q, i)) = Len(q) + 1
      /\ \A k \in 1..Len(q) : Append(q, i)[k] = q[k]
      /\ Append(q, i)[Len(q) + 1] = i
      /\ Len(q) \in Nat
  BY <1>3, <1>5, AppendProperties
<1>8. \A j \in OrderId : /\ node'[j] = IF j = i THEN taker ELSE node[j]
                         /\ index'[j] = IF j = i THEN [side |-> s, price |-> p] ELSE index[j]
  BY <1>1 DEF TypeOK
<1>9. \A t \in Side, r \in Price : \A k \in 1..Len(level[t][r]) :
         /\ level[t][r][k] # i /\ level[t][r][k] \in OrderId
         /\ k \in 1..Len(level'[t][r]) /\ level'[t][r][k] = level[t][r][k]
  <2> TAKE t \in Side, r \in Price
  <2> TAKE k \in 1..Len(level[t][r])
  <2>1. level[t][r][k] \in OrderId
    BY <1>5, ElementOfSeq
  <2>2. index[level[t][r][k]] = [side |-> t, price |-> r]
    BY DEF IndexMatchesLists
  <2>3. level[t][r][k] # i
    BY <1>4, <2>2 DEF Location
  <2>4. k \in 1..Len(level'[t][r]) /\ level'[t][r][k] = level[t][r][k]
    <3>1. CASE t = s /\ r = p
      <4>1. k \in 1..Len(q)
        BY <3>1
      <4>2. k \in 1..Len(Append(q, i)) /\ Append(q, i)[k] = q[k]
        BY <1>7, <4>1
      <4> QED
        BY <1>6, <3>1, <4>2
    <3>2. CASE t # s \/ r # p
      BY <1>6, <3>2
    <3> QED
      BY <3>1, <3>2
  <2> QED
    BY <2>1, <2>3, <2>4
<1>10. TypeOK'
  <2>1. level' \in [Side -> [Price -> Seq(OrderId)]]
    BY <1>1, <1>5, <1>7
  <2>2. total' \in [Side -> [Price -> Int]]
    BY <1>1, <1>2, <1>3 DEF TypeOK, Request
  <2>3. keys' \in [Side -> SUBSET Price]
    BY <1>1, <1>3 DEF TypeOK
  <2>4. node' \in [OrderId -> RestingOrder \cup {NoOrder}]
    BY <1>1, <1>3 DEF TypeOK
  <2>5. index' \in [OrderId -> Location \cup {NoLocation}]
    BY <1>1, <1>3 DEF TypeOK, Location
  <2> QED
    BY <1>1, <2>1, <2>2, <2>3, <2>4, <2>5 DEF TypeOK
<1>11. \A t \in Side, r \in Price : \A k \in 1..Len(level'[t][r]) :
          \/ k \in 1..Len(level[t][r]) /\ level'[t][r][k] = level[t][r][k]
          \/ t = s /\ r = p /\ k = Len(q) + 1 /\ level'[t][r][k] = i
  <2> TAKE t \in Side, r \in Price
  <2> TAKE k \in 1..Len(level'[t][r])
  <2>1. CASE t = s /\ r = p
    <3>1. k \in 1..(Len(q) + 1)
      BY <1>6, <1>7, <2>1
    <3>2. k \in 1..Len(q) \/ k = Len(q) + 1
      <4>1. ASSUME NEW n \in Nat, NEW j \in 1..(n + 1) PROVE j \in 1..n \/ j = n + 1
        OBVIOUS
      <4> QED
        BY <1>7, <3>1, <4>1, Zenon
    <3>3. level'[t][r][k] = Append(q, i)[k] /\ level[t][r] = q
      BY <1>6, <2>1
    <3>4. CASE k \in 1..Len(q)
      BY <1>7, <3>3, <3>4
    <3>5. CASE k = Len(q) + 1
      BY <1>7, <2>1, <3>3, <3>5
    <3> QED
      BY <3>2, <3>4, <3>5
  <2>2. CASE t # s \/ r # p
    BY <1>6, <2>2
  <2> QED
    BY <2>1, <2>2
<1> HIDE DEF q, s, p, i
<1>12. IndexMatchesLists'
  <2>1. \A j \in OrderId : (index'[j] = NoLocation) <=> (node'[j] = NoOrder)
    BY <1>2, <1>3, <1>8 DEF IndexMatchesLists, Location
  <2>2. ASSUME NEW j \in OrderId, index'[j] # NoLocation
        PROVE  /\ Listed(j, index[j].side, index[j].price)'
               /\ node'[j].id = j
               /\ node'[j].side = index'[j].side
               /\ node'[j].price = index'[j].price
    <3>1. CASE j = i
      <4>1. Len(q) + 1 \in 1..Len(level'[s][p]) /\ level'[s][p][Len(q) + 1] = i
        BY <1>6, <1>7
      <4>2. index'[j].side = s /\ index'[j].price = p
        BY <1>8, <3>1
      <4>3. Listed(j, index[j].side, index[j].price)'
        BY <3>1, <4>1, <4>2 DEF Listed
      <4> QED
        BY <1>8, <3>1, <4>2, <4>3 DEF s, p, i
    <3>2. CASE j # i
      <4>1. index'[j] = index[j] /\ node'[j] = node[j]
        BY <1>8, <3>2
      <4>2. index[j].side \in Side /\ index[j].price \in Price
        BY <2>2, <4>1 DEF TypeOK, Location
      <4>3. Listed(j, index[j].side, index[j].price)
        BY <2>2, <4>1 DEF IndexMatchesLists
      <4>4. Listed(j, index[j].side, index[j].price)'
        BY <1>9, <4>1, <4>2, <4>3 DEF Listed
      <4> QED
        BY <2>2, <4>1, <4>4 DEF IndexMatchesLists
    <3> QED
      BY <3>1, <3>2
  <2>3. ASSUME NEW t \in Side, NEW r \in Price, NEW k \in 1..Len(level'[t][r])
        PROVE  index'[level'[t][r][k]] = [side |-> t, price |-> r]
    <3>1. CASE k \in 1..Len(level[t][r]) /\ level'[t][r][k] = level[t][r][k]
      BY <1>8, <1>9, <3>1 DEF IndexMatchesLists
    <3>2. CASE t = s /\ r = p /\ level'[t][r][k] = i
      BY <1>3, <1>8, <3>2
    <3> QED
      BY <1>11, <3>1, <3>2
  <2>4. ASSUME NEW t \in Side, NEW r \in Price,
               NEW j \in 1..Len(level'[t][r]), NEW k \in 1..Len(level'[t][r]),
               level'[t][r][j] = level'[t][r][k]
        PROVE  j = k
    <3>1. \A l \in 1..Len(level[t][r]) : level[t][r][l] # i
      BY <1>9
    <3>2. /\ \/ j \in 1..Len(level[t][r]) /\ level'[t][r][j] = level[t][r][j]
             \/ j = Len(q) + 1 /\ level'[t][r][j] = i
          /\ \/ k \in 1..Len(level[t][r]) /\ level'[t][r][k] = level[t][r][k]
             \/ k = Len(q) + 1 /\ level'[t][r][k] = i
      BY <1>11
    <3>3. CASE j \in 1..Len(level[t][r]) /\ k \in 1..Len(level[t][r])
               /\ level[t][r][j] = level[t][r][k]
      BY <3>3 DEF IndexMatchesLists
    <3> QED
      BY <2>4, <3>1, <3>2, <3>3
  <2> QED
    BY <2>1, <2>2, <2>3, <2>4 DEF IndexMatchesLists
<1>13. WalkInv'
  <2>1. ASSUME NEW t \in Side, NEW r \in Price, level'[t][r] # <<>> PROVE r \in keys'[t]
    <3>1. CASE t = s /\ r = p
      BY <1>1, <3>1 DEF TypeOK, s, p
    <3>2. CASE t # s \/ r # p
      <4>1. r \in keys[t]
        BY <1>6, <2>1, <3>2 DEF WalkInv
      <4> QED
        BY <1>1, <4>1 DEF TypeOK, s
    <3> QED
      BY <3>1, <3>2
  <2> QED
    BY <1>1, <2>1 DEF WalkInv
<1>14. UncrossedExceptOwn'
  <2> SUFFICES ASSUME NEW b \in OrderId, NEW a \in OrderId,
                      node'[b] # NoOrder, node'[b].side = "buy",
                      node'[a] # NoOrder, node'[a].side = "sell",
                      node'[b].price >= node'[a].price
               PROVE  SameAccount(node'[b], node'[a])
    BY DEF UncrossedExceptOwn, SameAccount
  <2>1. CASE b # i /\ a # i
    BY <1>8, <2>1 DEF UncrossedExceptOwn
  <2>2. CASE b = i /\ a # i
    <3>1. node'[b] = taker /\ node'[a] = node[a] /\ opp = "sell"
      BY <1>8, <2>2 DEF opp, Opposite
    <3>2. ~ TooFar(node[a].price)
      <4>1. node[a].price \in Price /\ taker.price \in Price
        BY <1>3, <3>1 DEF TypeOK, RestingOrder
      <4> QED
        BY <3>1, <4>1 DEF TooFar, Better, Price
    <3>3. OwnMaker(a)
      BY <1>1, <3>1, <3>2, NothingLeftToTrade
    <3> QED
      BY <3>1, <3>3 DEF OwnMaker
  <2>3. CASE a = i /\ b # i
    <3>1. node'[a] = taker /\ node'[b] = node[b] /\ opp = "buy"
      BY <1>8, <2>3 DEF opp, Opposite
    <3>2. ~ TooFar(node[b].price)
      <4>1. node[b].price \in Price /\ taker.price \in Price
        BY <1>3, <3>1 DEF TypeOK, RestingOrder
      <4> QED
        BY <3>1, <4>1 DEF TooFar, Better, Price
    <3>3. OwnMaker(b)
      BY <1>1, <3>1, <3>2, NothingLeftToTrade
    <3> QED
      BY <3>1, <3>3 DEF OwnMaker, SameAccount
  <2>4. CASE a = i /\ b = i
    BY <2>4
  <2> QED
    BY <2>1, <2>2, <2>3, <2>4
<1> QED
  BY <1>10, <1>12, <1>13, <1>14

\* cancel_order takes the order from its level, its node and the index.
LEMMA CancelOrderInv ==
    ASSUME IInv, NEW i \in OrderId, CancelOrder(i)
    PROVE  IInv'
<1> USE ConstantAssumption, SentinelAssumption DEF IInv
<1> DEFINE s == index[i].side
           p == index[i].price
           k == PositionOf(i, level[s][p])
           rest == RemoveAt(level[s][p], k)
<1>1. /\ pc = "idle" /\ index[i] # NoLocation
      /\ index' = [index EXCEPT ![i] = NoLocation]
      /\ UNCHANGED <<pc, taker, it, pos, fills, asked>>
  BY DEF CancelOrder, call
<1>2. s \in Side /\ p \in Price /\ node[i] \in RestingOrder
  BY <1>1 DEF TypeOK, IndexMatchesLists, Location
<1>3. \E j \in 1..Len(level[s][p]) : level[s][p][j] = i
  BY <1>1 DEF IndexMatchesLists, Listed
<1>4. k \in 1..Len(level[s][p]) /\ level[s][p][k] = i
  BY <1>3 DEF PositionOf
<1>5. p \in keys[s]
  <2>1. level[s][p] # <<>>
    BY <1>4
  <2> QED
    BY <1>2, <2>1 DEF WalkInv
<1>6. /\ total' = [total EXCEPT ![s][p] = @ - node[i].quantity]
      /\ level' = [level EXCEPT ![s][p] = rest]
      /\ node'  = [node EXCEPT ![i] = NoOrder]
      /\ keys'  = IF rest = <<>> THEN [keys EXCEPT ![s] = @ \ {p}] ELSE keys
  BY <1>5 DEF CancelOrder
<1>7. level' = [level EXCEPT ![s][p] = RemoveAt(@, k)]
  BY <1>6
<1> HIDE DEF s, p, k, rest
<1>8. /\ level' \in [Side -> [Price -> Seq(OrderId)]]
      /\ node' \in [OrderId -> RestingOrder \cup {NoOrder}]
      /\ index' \in [OrderId -> Location \cup {NoLocation}]
      /\ IndexMatchesLists'
      /\ UncrossedExceptOwn'
  BY <1>1, <1>2, <1>4, <1>6, <1>7, EraseInv
<1>9. TypeOK'
  <2>1. total' \in [Side -> [Price -> Int]]
    BY <1>2, <1>6, SMTT(30) DEF TypeOK, RestingOrder
  <2>2. keys' \in [Side -> SUBSET Price]
    BY <1>2, <1>6 DEF TypeOK
  <2> QED
    BY <1>1, <1>8, <2>1, <2>2 DEF TypeOK
<1>10. WalkInv'
  <2>1. ASSUME NEW t \in Side, NEW r \in Price, level'[t][r] # <<>> PROVE r \in keys'[t]
    <3>1. CASE t = s /\ r = p
      <4>1. level'[s][p] = rest
        BY <1>2, <1>6 DEF TypeOK
      <4> QED
        BY <1>5, <1>6, <2>1, <3>1, <4>1
    <3>2. CASE t # s \/ r # p
      <4>1. level'[t][r] = level[t][r]
        BY <1>6, <3>2 DEF TypeOK
      <4>2. r \in keys[t]
        BY <2>1, <4>1 DEF WalkInv
      <4> QED
        BY <1>2, <1>6, <3>2, <4>2 DEF TypeOK
    <3> QED
      BY <3>1, <3>2
  <2> QED
    BY <1>1, <2>1 DEF WalkInv
<1> QED
  BY <1>8, <1>9, <1>10

\* A step that changes nothing: rejected requests, unknown ids, stuttering.
LEMMA UnchangedInv ==
    ASSUME IInv, UNCHANGED vars
    PROVE  IInv'
<1> USE DEF IInv, vars
<1>1. TypeOK'
  BY DEF TypeOK
<1>2. IndexMatchesLists'
  BY DEF IndexMatchesLists, Listed
<1>3. WalkInv'
  BY DEF WalkInv, OwnMaker, SameAccount, opp, TooFar
<1>4. UncrossedExceptOwn'
  BY DEF UncrossedExceptOwn, SameAccount
<1> QED
  BY <1>1, <1>2, <1>3, <1>4

\* Every step keeps the inductive invariant.
LEMMA NextInv ==
    ASSUME IInv, [Next]_vars
    PROVE  IInv'
<1>1. ASSUME NEW o \in Request, AddOrder(o) PROVE IInv'
  BY <1>1, AddOrderInv
<1>2. ASSUME NEW i \in OrderId, CancelOrder(i) PROVE IInv'
  BY <1>2, CancelOrderInv
<1>3. CASE EnterLevel
  BY <1>3, EnterLevelInv
<1>4. CASE SkipOwn
  BY <1>4, SkipOwnInv
<1>5. CASE FillMaker
  BY <1>5, FillPartlyInv, FillWhollyInv
<1>6. CASE LeaveLevel
  BY <1>6, LeaveLevelInv
<1>7. CASE RestRemainder
  BY <1>7, RestRemainderInv
<1>8. CASE ReturnFills
  BY <1>8, ReturnFillsInv
<1>9. CASE UNCHANGED vars
  BY <1>9, UnchangedInv
<1> QED
  BY <1>1, <1>2, <1>3, <1>4, <1>5, <1>6, <1>7, <1>8, <1>9
     DEF Next, MatchStep, RejectOrder, CancelUnknown

-----------------------------------------------------------------------------
(* Who came first                                                          *)

\* The pairs <<i, j>> of one list with i before j, element by element.
LEMMA OlderPairsMembers ==
    ASSUME TypeOK
    PROVE  \A a, b : <<a, b>> \in OlderPairs <=>
              \E s \in Side, p \in Price : \E k, l \in 1..Len(level[s][p]) :
                 k < l /\ level[s][p][k] = a /\ level[s][p][l] = b
<1> SUFFICES ASSUME NEW a, NEW b,
                    NEW s \in Side, NEW p \in Price,
                    NEW k \in 1..Len(level[s][p]), NEW l \in 1..Len(level[s][p]),
                    k < l, level[s][p][k] = a, level[s][p][l] = b
             PROVE  <<a, b>> \in OlderPairs
  BY DEF OlderPairs
<1>1. a \in OrderId /\ b \in OrderId
  BY ElementOfSeq DEF TypeOK
<1> QED
  BY <1>1 DEF OlderPairs

\* Erasing one order from its list takes exactly its pairs away: everybody
\* else keeps his place in the queue (list::erase in match and cancel_order).
LEMMA OlderPairsErased ==
    ASSUME TypeOK, IndexMatchesLists, TypeOK',
           NEW s \in Side, NEW p \in Price, NEW k \in 1..Len(level[s][p]),
           level' = [level EXCEPT ![s][p] = RemoveAt(@, k)]
    PROVE  OlderPairs' = Promise!Without(level[s][p][k])
<1> DEFINE q == level[s][p]
           m == level[s][p][k]
<1>1. Erased(s, p, k)
  BY EraseFacts
<1>2. /\ \A t \in Side, r \in Price : (t # s \/ r # p) => level'[t][r] = level[t][r]
      /\ Len(level'[s][p]) = Len(q) - 1
      /\ \A j \in 1..(Len(q) - 1) : level'[s][p][j] = IF j < k THEN q[j] ELSE q[j + 1]
      /\ \A t \in Side, r \in Price : \A j \in 1..Len(level'[t][r]) : level'[t][r][j] # m
  BY <1>1 DEF Erased
<1>3. Len(q) \in Nat
  BY DEF TypeOK
<1>4. \A j, l \in 1..Len(q) : q[j] = q[l] => j = l
  BY DEF IndexMatchesLists
<1>0. level' \in [Side -> [Price -> Seq(OrderId)]]
  BY DEF TypeOK
<1>5. \A a, b : <<a, b>> \in OlderPairs' <=>
         \E t \in Side, r \in Price : \E j, l \in 1..Len(level'[t][r]) :
            j < l /\ level'[t][r][j] = a /\ level'[t][r][l] = b
  <2>0. OlderPairs' =
          {pair \in OrderId \X OrderId :
              \E t \in Side, r \in Price : \E j, l \in 1..Len(level'[t][r]) :
                 j < l /\ level'[t][r][j] = pair[1] /\ level'[t][r][l] = pair[2]}
    BY DEF OlderPairs
  <2> SUFFICES ASSUME NEW a, NEW b,
                      NEW t \in Side, NEW r \in Price,
                      NEW j \in 1..Len(level'[t][r]), NEW l \in 1..Len(level'[t][r]),
                      j < l, level'[t][r][j] = a, level'[t][r][l] = b
               PROVE  <<a, b>> \in OlderPairs'
    BY <2>0
  <2>1. a \in OrderId /\ b \in OrderId
    BY <1>0, ElementOfSeq
  <2> QED
    BY <2>0, <2>1
<1>6. ASSUME NEW a, NEW b, <<a, b>> \in OlderPairs'
      PROVE  <<a, b>> \in OlderPairs /\ a # m /\ b # m
  <2>1. PICK t \in Side, r \in Price :
           \E j, l \in 1..Len(level'[t][r]) :
              j < l /\ level'[t][r][j] = a /\ level'[t][r][l] = b
    BY <1>5, <1>6
  <2>2. PICK j \in 1..Len(level'[t][r]), l \in 1..Len(level'[t][r]) :
           j < l /\ level'[t][r][j] = a /\ level'[t][r][l] = b
    BY <2>1
  <2>3. a # m /\ b # m
    BY <1>2, <2>2, SMTT(30)
  <2>4. CASE t # s \/ r # p
    BY <1>2, <2>2, <2>3, <2>4, OlderPairsMembers
  <2>5. CASE t = s /\ r = p
    <3> DEFINE f(x) == IF x < k THEN x ELSE x + 1
    <3>1. j \in 1..(Len(q) - 1) /\ l \in 1..(Len(q) - 1)
      BY <1>2, <2>5
    <3>2. f(j) \in 1..Len(q) /\ f(l) \in 1..Len(q) /\ f(j) < f(l)
      BY <1>3, <2>2, <3>1
    <3>3. q[f(j)] = a /\ q[f(l)] = b
      BY <1>2, <2>2, <2>5, <3>1
    <3> QED
      BY <2>3, <3>2, <3>3, OlderPairsMembers
  <2> QED
    BY <2>4, <2>5
<1>7. ASSUME NEW a, NEW b, <<a, b>> \in OlderPairs, a # m, b # m
      PROVE  <<a, b>> \in OlderPairs'
  <2>1. PICK t \in Side, r \in Price :
           \E j, l \in 1..Len(level[t][r]) :
              j < l /\ level[t][r][j] = a /\ level[t][r][l] = b
    BY <1>7, OlderPairsMembers
  <2>2. PICK j \in 1..Len(level[t][r]), l \in 1..Len(level[t][r]) :
           j < l /\ level[t][r][j] = a /\ level[t][r][l] = b
    BY <2>1
  <2>3. CASE t # s \/ r # p
    BY <1>2, <1>5, <2>2, <2>3
  <2>4. CASE t = s /\ r = p
    <3> DEFINE g(x) == IF x < k THEN x ELSE x - 1
    <3>1. j # k /\ l # k
      BY <1>7, <2>2, <2>4
    <3>2. g(j) \in 1..(Len(q) - 1) /\ g(l) \in 1..(Len(q) - 1) /\ g(j) < g(l)
      BY <1>3, <2>2, <2>4, <3>1
    <3>3. level'[s][p][g(j)] = a /\ level'[s][p][g(l)] = b
      <4>1. ASSUME NEW x \in 1..Len(q), x # k, g(x) \in 1..(Len(q) - 1)
            PROVE  level'[s][p][g(x)] = q[x]
        <5>1. CASE x < k
          BY <1>2, <4>1, <5>1
        <5>2. CASE x > k
          <6>1. ~ (g(x) < k) /\ g(x) + 1 = x
            BY <1>3, <5>2
          <6> QED
            BY <1>2, <4>1, <6>1
        <5> QED
          BY <4>1, <5>1, <5>2
      <4> QED
        BY <2>2, <2>4, <3>1, <3>2, <4>1
    <3> QED
      BY <1>2, <1>5, <3>2, <3>3
  <2> QED
    BY <2>3, <2>4
<1>8. \A pair \in OrderId \X OrderId : pair = <<pair[1], pair[2]>>
  OBVIOUS
<1>9. OlderPairs \subseteq OrderId \X OrderId /\ OlderPairs' \subseteq OrderId \X OrderId
  BY DEF OlderPairs
<1> HIDE DEF m
<1>10. \A pair \in OrderId \X OrderId :
          pair \in OlderPairs' <=> pair \in OlderPairs /\ pair[1] # m /\ pair[2] # m
  BY <1>6, <1>7, <1>8
<1> QED
  BY <1>9, <1>10 DEF Promise!Without, m

\* Appending an order makes it the youngest of its level and changes nobody
\* else's place (list::push_back in add_order).
LEMMA OlderPairsAppended ==
    ASSUME TypeOK, TypeOK',
           NEW s \in Side, NEW p \in Price, NEW i \in OrderId,
           level' = [level EXCEPT ![s][p] = Append(@, i)]
    PROVE  OlderPairs' = OlderPairs \cup
              {<<j, i>> : j \in {level[s][p][k] : k \in 1..Len(level[s][p])}}
<1> DEFINE q == level[s][p]
           New == {<<j, i>> : j \in {q[k] : k \in 1..Len(q)}}
<1>1. q \in Seq(OrderId) /\ level \in [Side -> [Price -> Seq(OrderId)]]
      /\ level' \in [Side -> [Price -> Seq(OrderId)]]
  BY DEF TypeOK
<1>2. /\ level'[s][p] = Append(q, i)
      /\ \A t \in Side, r \in Price : (t # s \/ r # p) => level'[t][r] = level[t][r]
  BY <1>1
<1>3. /\ Len(Append(q, i)) = Len(q) + 1 /\ Len(q) \in Nat
      /\ \A k \in 1..Len(q) : Append(q, i)[k] = q[k]
      /\ Append(q, i)[Len(q) + 1] = i
  BY <1>1, AppendProperties
<1>4. \A k \in 1..Len(q) : q[k] \in OrderId
  BY <1>1, ElementOfSeq
<1>5. OlderPairs' =
         {pair \in OrderId \X OrderId :
             \E t \in Side, r \in Price : \E j, l \in 1..Len(level'[t][r]) :
                j < l /\ level'[t][r][j] = pair[1] /\ level'[t][r][l] = pair[2]}
  BY DEF OlderPairs
<1>6. ASSUME NEW a, NEW b, <<a, b>> \in OlderPairs'
      PROVE  <<a, b>> \in OlderPairs \cup New
  <2>1. PICK t \in Side, r \in Price :
           \E j, l \in 1..Len(level'[t][r]) :
              j < l /\ level'[t][r][j] = a /\ level'[t][r][l] = b
    BY <1>5, <1>6
  <2>2. PICK j \in 1..Len(level'[t][r]), l \in 1..Len(level'[t][r]) :
           j < l /\ level'[t][r][j] = a /\ level'[t][r][l] = b
    BY <2>1
  <2>3. CASE t # s \/ r # p
    BY <1>2, <2>2, <2>3, OlderPairsMembers
  <2>4. CASE t = s /\ r = p
    <3>1. j \in 1..(Len(q) + 1) /\ l \in 1..(Len(q) + 1) /\ j \in 1..Len(q)
      BY <1>2, <1>3, <2>2, <2>4
    <3>2. q[j] = a
      BY <1>2, <1>3, <2>2, <2>4, <3>1
    <3>3. CASE l = Len(q) + 1
      BY <1>2, <1>3, <2>2, <2>4, <3>1, <3>2, <3>3
    <3>4. CASE l # Len(q) + 1
      <4>1. l \in 1..Len(q)
        BY <1>3, <3>1, <3>4
      <4> QED
        BY <1>2, <1>3, <2>2, <2>4, <3>1, <3>2, <4>1, OlderPairsMembers
    <3> QED
      BY <3>3, <3>4
  <2> QED
    BY <2>3, <2>4
<1>7. ASSUME NEW a, NEW b, <<a, b>> \in OlderPairs
      PROVE  <<a, b>> \in OlderPairs'
  <2>1. PICK t \in Side, r \in Price :
           \E j, l \in 1..Len(level[t][r]) :
              j < l /\ level[t][r][j] = a /\ level[t][r][l] = b
    BY <1>7, OlderPairsMembers
  <2>2. PICK j \in 1..Len(level[t][r]), l \in 1..Len(level[t][r]) :
           j < l /\ level[t][r][j] = a /\ level[t][r][l] = b
    BY <2>1
  <2>3. a \in OrderId /\ b \in OrderId
    BY <1>7 DEF OlderPairs
  <2>4. /\ j \in 1..Len(level'[t][r]) /\ l \in 1..Len(level'[t][r])
        /\ level'[t][r][j] = a /\ level'[t][r][l] = b
    BY <1>2, <1>3, <2>2
  <2> QED
    BY <1>5, <2>2, <2>3, <2>4
<1>8. ASSUME NEW k \in 1..Len(q) PROVE <<q[k], i>> \in OlderPairs'
  <2>1. /\ k \in 1..Len(level'[s][p]) /\ Len(q) + 1 \in 1..Len(level'[s][p]) /\ k < Len(q) + 1
        /\ level'[s][p][k] = q[k] /\ level'[s][p][Len(q) + 1] = i
    BY <1>2, <1>3
  <2> QED
    BY <1>4, <1>5, <2>1
<1>9. OlderPairs \subseteq OrderId \X OrderId /\ OlderPairs' \subseteq OrderId \X OrderId
  BY DEF OlderPairs
<1>10. OlderPairs' \subseteq OlderPairs \cup New
  BY <1>6, <1>9
<1>11. OlderPairs \subseteq OlderPairs'
  BY <1>7, <1>9
<1>12. New \subseteq OlderPairs'
  BY <1>8
<1> QED
  BY <1>10, <1>11, <1>12

-----------------------------------------------------------------------------
(* The promise of price-time priority, step by step                        *)

\* Whom the taker may trade with, in the words of either module.
LEMMA EligibleMakers ==
    ASSUME IInv, taker # NoOrder, NEW m
    PROVE  m \in Promise!Eligible <=>
              /\ m \in OrderId /\ node[m] # NoOrder /\ node[m].side = opp
              /\ ~ TooFar(node[m].price) /\ ~ OwnMaker(m)
<1> USE ConstantAssumption, SentinelAssumption
<1>1. taker \in Request /\ taker.side \in Side /\ taker.type \in {"limit", "market"}
      /\ taker.price \in Nat
  BY DEF IInv, TypeOK, Request
<1>2. CASE m \in OrderId /\ node[m] # NoOrder
  <2>1. node[m] \in RestingOrder
    BY <1>2 DEF IInv, TypeOK
  <2>2. node[m].side \in Side /\ node[m].price \in Nat
    BY <2>1 DEF RestingOrder, Price
  <2>3. node[m].side # taker.side <=> node[m].side = opp
    BY <1>1, <2>2 DEF opp, Opposite, Side
  <2>4. Promise!Acceptable(node[m].price) <=> ~ TooFar(node[m].price)
    BY <1>1, <2>2 DEF Promise!Acceptable, TooFar, Better, Side
  <2> QED
    BY <1>2, <2>3, <2>4 DEF Promise!Eligible, OwnMaker, SameAccount
<1>3. CASE ~ (m \in OrderId /\ node[m] # NoOrder)
  BY <1>3 DEF Promise!Eligible
<1> QED
  BY <1>2, <1>3

\* A resting order stands in the list of its side and price.
LEMMA RestingIsListed ==
    ASSUME IInv, NEW i \in OrderId, node[i] # NoOrder
    PROVE  /\ node[i].side \in Side /\ node[i].price \in Price
           /\ \E k \in 1..Len(level[node[i].side][node[i].price]) :
                 level[node[i].side][node[i].price][k] = i
<1>1. index[i] # NoLocation /\ node[i] \in RestingOrder
  BY DEF IInv, TypeOK, IndexMatchesLists
<1>2. node[i].side \in Side /\ node[i].price \in Price
  BY <1>1 DEF RestingOrder
<1>3. Listed(i, node[i].side, node[i].price)
  BY <1>1 DEF IInv, IndexMatchesLists
<1> QED
  BY <1>2, <1>3 DEF Listed

\* The maker under the iterator comes before everyone else the taker may trade
\* with: what the walk has passed is the taker's own, the rest of the level is
\* younger and the levels to come are worse.
LEMMA MakerHasPriority ==
    ASSUME IInv, AtMaker, ~ SameAccount(taker, node[maker])
    PROVE  /\ maker \in Promise!Eligible
           /\ \A n \in Promise!Eligible \ {maker} : Promise!Ahead(maker, n)
<1> USE ConstantAssumption, SentinelAssumption
<1>1. /\ taker \in Request /\ taker # NoOrder /\ taker.quantity \in 1..MaxQty
      /\ opp \in Side /\ it \in Price /\ pos \in 1..Len(level[opp][it])
      /\ maker \in OrderId /\ index[maker] # NoLocation
      /\ node[maker] \in RestingOrder
      /\ node[maker].side = opp /\ node[maker].price = it
  BY MakerFacts
<1>2. pc = "inner" /\ ~ TooFar(it) /\ node[maker] # NoOrder
  BY <1>1 DEF IInv, AtMaker, WalkInv, IndexMatchesLists
<1>3. maker \in Promise!Eligible
  BY <1>1, <1>2, EligibleMakers DEF OwnMaker
<1>4. ASSUME NEW n \in Promise!Eligible, n # maker
      PROVE  Promise!Ahead(maker, n)
  <2>1. n \in OrderId /\ node[n] # NoOrder /\ node[n].side = opp /\ ~ OwnMaker(n)
    BY <1>1, <1>4, EligibleMakers
  <2> DEFINE p == node[n].price
  <2>2. PICK l \in 1..Len(level[opp][p]) : level[opp][p][l] = n
    BY <2>1, RestingIsListed
  <2>3. p \in Price
    BY <2>1, RestingIsListed
  <2>4. ~ Better(opp, p, it)
    BY <1>1, <1>2, <2>1, <2>2, <2>3 DEF IInv, WalkInv
  <2>5. CASE p = it
    <3>1. ~ (l < pos)
      BY <1>1, <1>2, <2>1, <2>2, <2>5 DEF IInv, WalkInv
    <3>2. l # pos
      BY <1>4, <2>2, <2>5 DEF maker
    <3>3. Len(level[opp][it]) \in Nat
      BY <1>1 DEF IInv, TypeOK
    <3>4. pos < l /\ l \in 1..Len(level[opp][it]) /\ level[opp][it][pos] = maker
      BY <1>1, <2>2, <2>5, <3>1, <3>2, <3>3 DEF maker
    <3>5. <<maker, n>> \in OlderPairs
      BY <1>1, <2>2, <2>5, <3>4, OlderPairsMembers DEF IInv
    <3> QED
      BY <3>5 DEF Promise!Ahead
  <2>6. CASE p # it
    <3>1. Better(opp, it, p)
      BY <1>1, <2>3, <2>4, <2>6 DEF Better, Price
    <3>2. taker.side \in Side
      BY <1>1 DEF Request
    <3> QED
      BY <1>1, <3>1, <3>2 DEF Better, opp, Opposite, Promise!Ahead, Side
  <2> QED
    BY <2>5, <2>6
<1> QED
  BY <1>3, <1>4

\* When the walk has ended with something left of the taker, nobody it may
\* trade with is left in the book.
LEMMA NobodyEligible ==
    ASSUME IInv, pc = "outer", ~ MoreToMatch, taker.quantity > 0
    PROVE  Promise!Eligible = {}
<1> SUFFICES ASSUME NEW m \in Promise!Eligible PROVE FALSE
  OBVIOUS
<1>1. taker # NoOrder /\ taker \in Request /\ taker.type \in {"limit", "market"}
  BY DEF IInv, TypeOK, Request
<1>2. m \in OrderId /\ node[m] # NoOrder /\ node[m].side = opp
      /\ ~ TooFar(node[m].price) /\ ~ OwnMaker(m)
  BY <1>1, EligibleMakers
<1>3. CASE taker.type = "limit"
  BY <1>2, <1>3, NothingLeftToTrade DEF Rests
<1>4. CASE taker.type = "market"
  <2>1. it = End
    BY <1>4 DEF MoreToMatch, TooFar
  <2>2. PICK l \in 1..Len(level[opp][node[m].price]) : level[opp][node[m].price][l] = m
    BY <1>2, RestingIsListed
  <2>3. node[m].price \in Price
    BY <1>2, RestingIsListed
  <2> QED
    BY <1>2, <2>1, <2>2, <2>3 DEF IInv, WalkInv
<1> QED
  BY <1>1, <1>3, <1>4

\* An empty book keeps the promise of an empty book.
LEMMA InitKeepsPriority == Init => Promise!Init
<1> SUFFICES ASSUME Init PROVE Promise!Init
  OBVIOUS
<1>1. \A s \in Side, p \in Price : 1..Len(level[s][p]) = {}
  BY DEF Init
<1>2. OlderPairs = {}
  BY <1>1 DEF OlderPairs
<1> QED
  BY <1>2 DEF Init, Promise!Init

\* Steps of the walk that trade nothing are invisible from outside.
LEMMA WalkIsInvisible ==
    ASSUME UNCHANGED <<level, node, taker>>
    PROVE  UNCHANGED Promise!vars
  BY DEF Promise!vars, OlderPairs

\* add_order takes its request.
LEMMA AddOrderKeepsPriority ==
    ASSUME IInv, NEW o \in Request, AddOrder(o)
    PROVE  Promise!Next
<1> USE ConstantAssumption, SentinelAssumption
<1>1. /\ pc = "idle" /\ o.quantity > 0 /\ (o.type = "limit" => o.price > 0)
      /\ index[o.id] = NoLocation /\ taker' = o /\ UNCHANGED <<level, node>>
  BY DEF AddOrder, Valid, book
<1>2. taker = NoOrder
  BY <1>1 DEF IInv, TypeOK
<1>3. o \in Promise!Request
  <2>1. o.quantity \in 1..MaxQty
    BY <1>1 DEF Request
  <2> QED
    BY <1>1, <2>1 DEF Request, Promise!Request, Owner, Side
<1>4. node[o.id] = NoOrder
  BY <1>1 DEF IInv, IndexMatchesLists, Request
<1>5. OlderPairs' = OlderPairs
  BY <1>1 DEF OlderPairs
<1>6. Promise!Submit(o)
  BY <1>1, <1>2, <1>4, <1>5 DEF Promise!Submit
<1> QED
  BY <1>3, <1>6 DEF Promise!Next

\* A fill is a trade with the order that has priority.
LEMMA FillKeepsPriority ==
    ASSUME IInv, IInv', FillMaker
    PROVE  Promise!Next
<1> USE ConstantAssumption, SentinelAssumption
<1> DEFINE m == maker
           q == Least(taker.quantity, node[m].quantity)
<1>1. AtMaker /\ ~ SameAccount(taker, node[m])
  BY DEF FillMaker
<1>2. /\ taker \in Request /\ taker # NoOrder /\ taker.quantity \in 1..MaxQty
      /\ opp \in Side /\ it \in Price /\ pos \in 1..Len(level[opp][it])
      /\ m \in OrderId /\ node[m] \in RestingOrder
  BY <1>1, MakerFacts
<1>3. node[m].quantity \in 1..MaxQty
  BY <1>2 DEF RestingOrder
<1>4. /\ m \in Promise!Eligible
      /\ \A n \in Promise!Eligible \ {m} : Promise!Ahead(m, n)
  BY <1>1, MakerHasPriority
<1>5. CASE node[m].quantity > taker.quantity
  <2>1. q = taker.quantity
    BY <1>2, <1>3, <1>5 DEF Least
  <2>2. /\ taker' = [taker EXCEPT !.quantity = @ - taker.quantity]
        /\ node' = [node EXCEPT ![m].quantity = @ - taker.quantity]
        /\ level' = level
    BY <1>2, <1>3, <1>5, <2>1 DEF FillMaker
  <2>3. taker.quantity - taker.quantity = 0
    BY <1>2
  <2>4. taker' = [taker EXCEPT !.quantity = 0]
    BY <2>2, <2>3
  <2>5. OlderPairs' = OlderPairs
    BY <2>2 DEF OlderPairs
  <2>6. Promise!Trade(m)
    BY <1>2, <1>4, <1>5, <2>2, <2>4, <2>5 DEF Promise!Trade
  <2> QED
    BY <1>2, <2>6 DEF Promise!Next
<1>6. CASE ~ (node[m].quantity > taker.quantity)
  <2>1. q = node[m].quantity
    BY <1>2, <1>3, <1>6 DEF Least
  <2>2. /\ taker' = [taker EXCEPT !.quantity = @ - node[m].quantity]
        /\ node' = [node EXCEPT ![m] = NoOrder]
        /\ level' = [level EXCEPT ![opp][it] = RemoveAt(@, pos)]
    BY <2>1 DEF FillMaker
  <2>3. OlderPairs' = Promise!Without(m)
    BY <1>2, <2>2, OlderPairsErased DEF IInv, maker
  <2>4. Promise!Trade(m)
    BY <1>2, <1>4, <1>6, <2>2, <2>3 DEF Promise!Trade
  <2> QED
    BY <1>2, <2>4 DEF Promise!Next
<1> QED
  BY <1>5, <1>6

\* The remainder rests only when nobody is left to trade with, behind everyone
\* at its price.
LEMMA RestKeepsPriority ==
    ASSUME IInv, IInv', RestRemainder
    PROVE  Promise!Next
<1> USE ConstantAssumption, SentinelAssumption
<1> DEFINE s == taker.side
           p == taker.price
           i == taker.id
<1>1. /\ pc = "outer" /\ ~ MoreToMatch /\ taker.type = "limit" /\ taker.quantity > 0
      /\ level' = [level EXCEPT ![s][p] = Append(@, i)]
      /\ node'  = [node EXCEPT ![i] = taker]
      /\ taker' = NoOrder
  BY DEF RestRemainder, EndCall, PushBack, Rests
<1>2. taker \in Request /\ taker # NoOrder
  BY <1>1 DEF IInv, TypeOK
<1>3. s \in Side /\ p \in Price /\ i \in OrderId
  BY <1>1, <1>2 DEF Request, IInv, WalkInv, Price
<1>4. Promise!Eligible = {}
  BY <1>1, NobodyEligible
<1>5. OlderPairs' = OlderPairs \cup
         {<<j, i>> : j \in {level[s][p][k] : k \in 1..Len(level[s][p])}}
  BY <1>1, <1>3, OlderPairsAppended DEF IInv
<1>6. {level[s][p][k] : k \in 1..Len(level[s][p])} =
         {j \in Promise!Book(s) : node[j].price = p}
  <2>1. ASSUME NEW k \in 1..Len(level[s][p])
        PROVE  /\ level[s][p][k] \in OrderId /\ node[level[s][p][k]] # NoOrder
               /\ node[level[s][p][k]].side = s /\ node[level[s][p][k]].price = p
    <3>1. level[s][p][k] \in OrderId
      BY <1>3, ElementOfSeq DEF IInv, TypeOK
    <3>2. index[level[s][p][k]] = [side |-> s, price |-> p]
      BY <1>3 DEF IInv, IndexMatchesLists
    <3>3. index[level[s][p][k]] # NoLocation
      BY <1>3, <3>2 DEF Location
    <3> QED
      BY <3>1, <3>2, <3>3 DEF IInv, IndexMatchesLists
  <2>2. ASSUME NEW j \in Promise!Book(s), node[j].price = p
        PROVE  \E k \in 1..Len(level[s][p]) : level[s][p][k] = j
    <3>1. j \in OrderId /\ node[j] # NoOrder /\ node[j].side = s
      BY DEF Promise!Book
    <3> QED
      BY <2>2, <3>1, RestingIsListed
  <2> QED
    BY <2>1, <2>2 DEF Promise!Book
<1>7. Promise!Rest
  BY <1>1, <1>2, <1>4, <1>5, <1>6 DEF Promise!Rest
<1> QED
  BY <1>7 DEF Promise!Next

\* A call that rests nothing is done, or is a market order nobody can serve.
LEMMA ReturnKeepsPriority ==
    ASSUME IInv, ReturnFills
    PROVE  Promise!Next
<1>1. /\ pc = "outer" /\ ~ MoreToMatch /\ ~ Rests(taker)
      /\ taker' = NoOrder /\ UNCHANGED <<level, node>>
  BY DEF ReturnFills, EndCall, book
<1>2. taker \in Request /\ taker # NoOrder
  BY <1>1 DEF IInv, TypeOK
<1>3. taker.type \in {"limit", "market"} /\ taker.quantity \in 0..MaxQty
  BY <1>2 DEF Request
<1>4. taker.quantity = 0 \/ (taker.type = "market" /\ Promise!Eligible = {})
  BY ConstantAssumption, <1>1, <1>3, NobodyEligible DEF Rests
<1>5. OlderPairs' = OlderPairs
  BY <1>1 DEF OlderPairs
<1>6. Promise!Finish
  BY <1>1, <1>2, <1>4, <1>5 DEF Promise!Finish
<1> QED
  BY <1>6 DEF Promise!Next

\* A cancel takes one order from its queue.
LEMMA CancelKeepsPriority ==
    ASSUME IInv, IInv', NEW i \in OrderId, CancelOrder(i)
    PROVE  Promise!Next
<1> USE ConstantAssumption, SentinelAssumption
<1> DEFINE s == index[i].side
           p == index[i].price
           k == PositionOf(i, level[s][p])
<1>1. pc = "idle" /\ index[i] # NoLocation /\ taker' = taker
  BY DEF CancelOrder, call
<1>2. s \in Side /\ p \in Price /\ node[i] # NoOrder
  BY <1>1 DEF IInv, TypeOK, IndexMatchesLists, Location
<1>3. \E j \in 1..Len(level[s][p]) : level[s][p][j] = i
  BY <1>1 DEF IInv, IndexMatchesLists, Listed
<1>4. k \in 1..Len(level[s][p]) /\ level[s][p][k] = i
  BY <1>3 DEF PositionOf
<1>5. p \in keys[s]
  <2>1. level[s][p] # <<>>
    BY <1>4
  <2> QED
    BY <1>2, <2>1 DEF IInv, WalkInv
<1>6. /\ level' = [level EXCEPT ![s][p] = RemoveAt(level[s][p], k)]
      /\ node' = [node EXCEPT ![i] = NoOrder]
  BY <1>5 DEF CancelOrder
<1>7. level' = [level EXCEPT ![s][p] = RemoveAt(@, k)]
  BY <1>6
<1> HIDE DEF s, p, k
<1>8. OlderPairs' = Promise!Without(i)
  BY <1>2, <1>4, <1>7, OlderPairsErased DEF IInv
<1>9. taker = NoOrder
  BY <1>1 DEF IInv, TypeOK
<1>10. Promise!Cancel(i)
  BY <1>1, <1>2, <1>6, <1>8, <1>9 DEF Promise!Cancel
<1> QED
  BY <1>10 DEF Promise!Next

\* Every step of the engine is a step of the promise or shows nothing.
LEMMA NextKeepsPriority ==
    ASSUME IInv, IInv', [Next]_vars
    PROVE  [Promise!Next]_(Promise!vars)
<1>1. ASSUME NEW o \in Request, AddOrder(o) PROVE Promise!Next
  BY <1>1, AddOrderKeepsPriority
<1>2. ASSUME NEW i \in OrderId, CancelOrder(i) PROVE Promise!Next
  BY <1>2, CancelKeepsPriority
<1>3. CASE FillMaker
  BY <1>3, FillKeepsPriority
<1>4. CASE RestRemainder
  BY <1>4, RestKeepsPriority
<1>5. CASE ReturnFills
  BY <1>5, ReturnKeepsPriority
<1>6. CASE EnterLevel \/ SkipOwn \/ LeaveLevel \/ UNCHANGED vars
  <2>1. UNCHANGED <<level, node, taker>>
    BY <1>6 DEF EnterLevel, SkipOwn, LeaveLevel, vars, book
  <2> QED
    BY <2>1, WalkIsInvisible
<1> QED
  BY <1>1, <1>2, <1>3, <1>4, <1>5, <1>6
     DEF Next, MatchStep, RejectOrder, CancelUnknown

-----------------------------------------------------------------------------
(* The fills of a call                                                     *)

\* What the fills of the call in progress are: they add up, each is of another
\* maker, and a maker that has been filled is gone as long as the taker goes on.
FillRecord == [maker : OrderId, taker : OrderId, price : Price, quantity : 1..MaxQty]

FillInv ==
    /\ fills \in Seq(FillRecord)
    /\ FillsAddUp
    /\ pc # "idle" /\ taker.quantity > 0 =>
          \A k \in 1..Len(fills) : index[fills[k].maker] = NoLocation

Filled(f) == SumFunction([k \in DOMAIN f |-> f[k].quantity])

\* The fills of a call sum up to an integer.
LEMMA FilledType ==
    ASSUME NEW f \in Seq(FillRecord)
    PROVE  Filled(f) \in Int
<1> DEFINE w == [k \in DOMAIN f |-> f[k].quantity]
<1>1. DOMAIN f = 1..Len(f) /\ Len(f) \in Nat
  OBVIOUS
<1>2. \A k \in 1..Len(f) : f[k].quantity \in Int
  <2> TAKE k \in 1..Len(f)
  <2>1. f[k] \in FillRecord
    BY ElementOfSeq
  <2> QED
    BY <2>1, ConstantAssumption DEF FillRecord
<1>3. DOMAIN w = 1..Len(f) /\ IntegersOn(w, 1..Len(f))
  BY <1>1, <1>2 DEF IntegersOn
<1>4. IsFiniteSet(1..Len(f))
  BY <1>1, FS_Interval
<1> HIDE DEF w
<1>5. SumFunctionOnSet(w, 1..Len(f)) \in Int
  BY <1>3, <1>4, SumType
<1> QED
  BY <1>3, <1>5 DEF Filled, SumFunction, w

\* Appending a fill adds its quantity to the sum.
LEMMA FilledAppend ==
    ASSUME NEW f \in Seq(FillRecord), NEW e \in FillRecord
    PROVE  Filled(Append(f, e)) = Filled(f) + e.quantity /\ Filled(f) \in Int
<1> DEFINE n == Len(f)
           g == Append(f, e)
           w == [k \in DOMAIN f |-> f[k].quantity]
           v == [k \in DOMAIN g |-> g[k].quantity]
<1> USE ConstantAssumption
<1>1. /\ n \in Nat /\ DOMAIN f = 1..n /\ DOMAIN g = 1..(n + 1) /\ g \in Seq(FillRecord)
      /\ \A k \in 1..n : g[k] = f[k]
      /\ g[n + 1] = e
  BY AppendProperties
<1>2. \A k \in 1..n : f[k] \in FillRecord
  BY ElementOfSeq
<1>3. DOMAIN w = 1..n /\ DOMAIN v = 1..(n + 1)
  BY <1>1
<1>4. /\ \A k \in 1..n : w[k] = f[k].quantity /\ v[k] = w[k] /\ w[k] \in Int
      /\ v[n + 1] = e.quantity /\ v[n + 1] \in Int
  BY <1>1, <1>2 DEF FillRecord
<1>5. (1..(n + 1)) \ {n + 1} = 1..n /\ n + 1 \in 1..(n + 1)
      /\ \A k \in 1..(n + 1) : k \in 1..n \/ k = n + 1
  BY <1>1
<1>6. IsFiniteSet(1..n) /\ IsFiniteSet(1..(n + 1))
  BY <1>1, FS_Interval
<1> HIDE DEF w, v, g, n
<1>7. IntegersOn(w, 1..n) /\ IntegersOn(v, 1..(n + 1)) /\ AgreeOn(v, w, 1..n)
  BY <1>4, <1>5 DEF IntegersOn, AgreeOn
<1>8. SumFunctionOnSet(v, 1..(n + 1)) = e.quantity + SumFunctionOnSet(v, 1..n)
  <2>1. SumFunctionOnSet(v, 1..(n + 1)) = v[n + 1] + SumFunctionOnSet(v, (1..(n + 1)) \ {n + 1})
    BY <1>5, <1>6, <1>7, SumSplit
  <2> QED
    BY <1>4, <1>5, <2>1
<1>9. SumFunctionOnSet(v, 1..n) = SumFunctionOnSet(w, 1..n)
  BY <1>6, <1>7, SumCongruence
<1>10. SumFunctionOnSet(w, 1..n) \in Int
  BY <1>6, <1>7, SumType
<1>11. Filled(g) = SumFunctionOnSet(v, 1..(n + 1)) /\ Filled(f) = SumFunctionOnSet(w, 1..n)
  BY <1>3 DEF Filled, SumFunction, w, v
<1>12. e.quantity \in Int
  BY <1>4
<1> QED
  BY <1>8, <1>9, <1>10, <1>11, <1>12 DEF g

\* The sum over no fill.
LEMMA FilledEmpty == Filled(<<>>) = 0
<1>1. DOMAIN [k \in DOMAIN <<>> |-> <<>>[k].quantity] = {}
  OBVIOUS
<1> QED
  BY <1>1, FS_EmptySet, SumUnfolds DEF Filled, SumFunction

\* What a fill of the maker under the iterator adds to the fills.
LEMMA FillMakerFacts ==
    ASSUME IInv, FillMaker
    PROVE  LET q == Least(taker.quantity, node[maker].quantity)
               f == FillOf(maker, q)
           IN  /\ fills' = Append(fills, f) /\ f \in FillRecord
               /\ q \in 1..MaxQty /\ q <= taker.quantity
               /\ taker' = [taker EXCEPT !.quantity = taker.quantity - q]
               /\ taker'.quantity = taker.quantity - q /\ taker'.id = taker.id
               /\ taker.quantity \in 1..MaxQty
               /\ pc = "inner" /\ pc' = "inner" /\ asked' = asked
               /\ maker \in OrderId /\ index[maker] # NoLocation /\ index[maker].side = opp
               /\ \/ q = node[maker].quantity /\ index' = [index EXCEPT ![maker] = NoLocation]
                  \/ q = taker.quantity /\ index' = index
<1> USE ConstantAssumption
<1> DEFINE q == Least(taker.quantity, node[maker].quantity)
<1>1. AtMaker /\ pc = "inner" /\ UNCHANGED <<pc, asked>>
  BY DEF FillMaker, AtMaker
<1>2. /\ taker \in Request /\ taker.quantity \in 1..MaxQty
      /\ it \in Price /\ maker \in OrderId /\ index[maker] # NoLocation
      /\ index[maker] = [side |-> opp, price |-> it]
      /\ node[maker] \in RestingOrder
  BY <1>1, MakerFacts
<1>3. node[maker].quantity \in 1..MaxQty /\ node[maker].price \in Price
  BY <1>2 DEF RestingOrder
<1>4. /\ q \in 1..MaxQty /\ q <= taker.quantity
      /\ q = node[maker].quantity \/ q = taker.quantity
  BY <1>2, <1>3 DEF Least
<1>5. /\ fills' = Append(fills, FillOf(maker, q))
      /\ taker' = [taker EXCEPT !.quantity = taker.quantity - q]
      /\ index' = IF node[maker].quantity = q THEN [index EXCEPT ![maker] = NoLocation] ELSE index
  BY DEF FillMaker
<1> HIDE DEF q
<1>6. FillOf(maker, q) \in FillRecord
  BY <1>2, <1>3, <1>4 DEF FillOf, FillRecord, Request
<1>7. taker'.quantity = taker.quantity - q /\ taker'.id = taker.id
  BY <1>2, <1>5 DEF Request
<1>8. \/ q = node[maker].quantity /\ index' = [index EXCEPT ![maker] = NoLocation]
      \/ q = taker.quantity /\ index' = index
  BY <1>4, <1>5
<1> QED
  BY <1>1, <1>2, <1>4, <1>5, <1>6, <1>7, <1>8 DEF q

\* A fill is added: its maker has not been filled before, for it still rests.
LEMMA FillMakerAddsUp ==
    ASSUME IInv, IInv', FillInv, FillMaker
    PROVE  FillInv'
<1> USE ConstantAssumption, SentinelAssumption
<1> DEFINE q == Least(taker.quantity, node[maker].quantity)
           f == FillOf(maker, q)
           n == Len(fills)
<1>1. /\ fills' = Append(fills, f) /\ f \in FillRecord
      /\ q \in 1..MaxQty /\ q <= taker.quantity
      /\ taker'.quantity = taker.quantity - q /\ taker'.id = taker.id
      /\ taker.quantity \in 1..MaxQty
      /\ pc = "inner" /\ pc' = "inner" /\ asked' = asked
      /\ maker \in OrderId /\ index[maker] # NoLocation
      /\ \/ q = node[maker].quantity /\ index' = [index EXCEPT ![maker] = NoLocation]
         \/ q = taker.quantity /\ index' = index
  BY FillMakerFacts
<1>2. f.maker = maker /\ f.taker = taker.id /\ f.quantity = q
  BY DEF FillOf
<1>3. fills \in Seq(FillRecord) /\ FillsAddUp
      /\ \A k \in 1..n : index[fills[k].maker] = NoLocation
  BY <1>1 DEF FillInv
<1> HIDE DEF q, f
<1>4. /\ fills' \in Seq(FillRecord) /\ n \in Nat
      /\ Len(fills') = n + 1 /\ DOMAIN fills' = 1..(n + 1) /\ DOMAIN fills = 1..n
      /\ \A k \in 1..n : fills'[k] = fills[k]
      /\ fills'[n + 1] = f
  BY <1>1, <1>3, AppendProperties
<1>5. \A k \in 1..(n + 1) : k \in 1..n \/ k = n + 1
  BY <1>4
<1>6. asked' = taker'.quantity + FilledTotal'
  <2>1. Filled(fills') = Filled(fills) + f.quantity /\ Filled(fills) \in Int
    BY <1>1, <1>3, FilledAppend
  <2>2. asked = taker.quantity + Filled(fills)
    BY <1>1, <1>3 DEF FillsAddUp, FilledTotal, Filled
  <2>3. asked' = taker'.quantity + Filled(fills')
    BY <1>1, <1>2, <2>1, <2>2
  <2> QED
    BY <2>3 DEF FilledTotal, Filled
<1>7. \A k \in DOMAIN fills' : fills'[k].quantity > 0 /\ fills'[k].taker = taker'.id
  <2>1. \A k \in 1..n : fills[k].quantity > 0 /\ fills[k].taker = taker.id
    BY <1>1, <1>3, <1>4 DEF FillsAddUp
  <2>2. f.quantity > 0 /\ f.taker = taker.id
    BY <1>1, <1>2
  <2> QED
    BY <1>1, <1>4, <1>5, <2>1, <2>2
<1>8. \A j, k \in DOMAIN fills' : fills'[j].maker = fills'[k].maker => j = k
  <2>1. \A j, k \in 1..n : fills[j].maker = fills[k].maker => j = k
    BY <1>1, <1>3, <1>4 DEF FillsAddUp
  <2>2. \A k \in 1..n : fills[k].maker # maker
    BY <1>1, <1>3
  <2> QED
    BY <1>2, <1>4, <1>5, <2>1, <2>2
<1>9. FillsAddUp'
  BY <1>6, <1>7, <1>8 DEF FillsAddUp
<1>10. ASSUME taker'.quantity > 0, NEW k \in 1..Len(fills')
       PROVE  index'[fills'[k].maker] = NoLocation
  <2>1. index' = [index EXCEPT ![maker] = NoLocation]
    BY <1>1, <1>10
  <2>2. \A i \in OrderId : index[i] = NoLocation \/ i = maker => index'[i] = NoLocation
    BY <2>1 DEF IInv, TypeOK
  <2>3. fills'[k].maker \in OrderId
    <3>1. fills'[k] \in FillRecord
      BY <1>4, ElementOfSeq
    <3> QED
      BY <3>1 DEF FillRecord
  <2> QED
    BY <1>2, <1>3, <1>4, <1>5, <1>10, <2>2, <2>3
<1> QED
  BY <1>4, <1>9, <1>10 DEF FillInv

\* A call starts with no fill.
LEMMA AddOrderAddsUp ==
    ASSUME IInv, FillInv, NEW o \in Request, AddOrder(o)
    PROVE  FillInv'
<1>1. fills' = <<>> /\ taker' = o /\ asked' = o.quantity
  BY DEF AddOrder
<1>2. Filled(fills') = 0 /\ DOMAIN fills' = {} /\ 1..Len(fills') = {}
  BY <1>1, FilledEmpty
<1>3. o.quantity \in Int
  BY ConstantAssumption DEF Request
<1>4. FilledTotal' = Filled(fills')
  BY DEF FilledTotal, Filled
<1>5. asked' = taker'.quantity + FilledTotal'
  BY <1>1, <1>2, <1>3, <1>4
<1> QED
  BY <1>1, <1>2, <1>5 DEF FillInv, FillsAddUp

\* Steps that fill nothing.
LEMMA OthersAddUp ==
    ASSUME FillInv, UNCHANGED <<fills, taker, asked, index>>, pc = "idle" <=> pc' = "idle"
    PROVE  FillInv'
  BY DEF FillInv, FillsAddUp, FilledTotal

\* The end of a call: its caller has the fills.
LEMMA EndCallAddsUp ==
    ASSUME FillInv, fills' = <<>>, pc' = "idle"
    PROVE  FillInv'
  BY DEF FillInv, FillsAddUp

\* Every step keeps the accounts of the call.
LEMMA NextAddsUp ==
    ASSUME IInv, IInv', FillInv, [Next]_vars
    PROVE  FillInv'
<1>1. ASSUME NEW o \in Request, AddOrder(o) PROVE FillInv'
  BY <1>1, AddOrderAddsUp
<1>2. ASSUME NEW i \in OrderId, CancelOrder(i) PROVE FillInv'
  BY <1>2 DEF CancelOrder, call, FillInv, FillsAddUp
<1>3. CASE FillMaker
  BY <1>3, FillMakerAddsUp
<1>4. CASE RestRemainder \/ ReturnFills
  BY <1>4, EndCallAddsUp DEF RestRemainder, ReturnFills, EndCall
<1>5. CASE EnterLevel \/ SkipOwn \/ LeaveLevel \/ UNCHANGED vars
  BY <1>5, OthersAddUp DEF EnterLevel, SkipOwn, LeaveLevel, AtMaker, vars, book
<1> QED
  BY <1>1, <1>2, <1>3, <1>4, <1>5 DEF Next, MatchStep, RejectOrder, CancelUnknown

-----------------------------------------------------------------------------
(* What the readers report                                                 *)

\* The quotes between the calls' ends: a level's total is the sum of what its
\* orders have left, and no key is without orders but the one the walk is at.
QuoteInv ==
    /\ \A s \in Side, p \in Price : total[s][p] = Depth(s, p)
    /\ \A s \in Side : \A p \in keys[s] :
          level[s][p] # <<>> \/ (pc = "inner" /\ s = opp /\ p = it)

\* The orders of a side and price are the members of its list, each once.
LEMMA OrdersOfLevel ==
    ASSUME IInv, NEW s \in Side, NEW p \in Price
    PROVE  /\ OrdersAt(s, p) = {level[s][p][k] : k \in 1..Len(level[s][p])}
           /\ IsFiniteSet(OrdersAt(s, p))
           /\ Cardinality(OrdersAt(s, p)) = Len(level[s][p])
           /\ OrdersAt(s, p) = {} <=> level[s][p] = <<>>
<1> USE SentinelAssumption
<1> DEFINE q == level[s][p]
<1>1. q \in Seq(OrderId) /\ Len(q) \in Nat
  BY DEF IInv, TypeOK
<1>2. ASSUME NEW k \in 1..Len(q) PROVE q[k] \in OrdersAt(s, p)
  <2>1. q[k] \in OrderId
    BY <1>1, ElementOfSeq
  <2>2. index[q[k]] = [side |-> s, price |-> p]
    BY DEF IInv, IndexMatchesLists
  <2>3. index[q[k]] # NoLocation
    BY <2>2 DEF Location
  <2> QED
    BY <2>1, <2>2, <2>3 DEF IInv, IndexMatchesLists, OrdersAt
<1>3. ASSUME NEW i \in OrdersAt(s, p) PROVE \E k \in 1..Len(q) : q[k] = i
  BY RestingIsListed DEF OrdersAt
<1>4. OrdersAt(s, p) = {q[k] : k \in 1..Len(q)}
  BY <1>2, <1>3
<1>5. ExistsBijection(1..Len(q), OrdersAt(s, p))
  <2> DEFINE f == [k \in 1..Len(q) |-> q[k]]
  <2>1. f \in [1..Len(q) -> OrdersAt(s, p)]
    BY <1>2
  <2>2. \A j, k \in 1..Len(q) : f[j] = f[k] => j = k
    BY DEF IInv, IndexMatchesLists
  <2>3. \A i \in OrdersAt(s, p) : \E k \in 1..Len(q) : f[k] = i
    BY <1>3
  <2>4. f \in Bijection(1..Len(q), OrdersAt(s, p))
    BY <2>1, <2>2, <2>3, Fun_IsBij
  <2> QED
    BY <2>4 DEF ExistsBijection
<1>6. IsFiniteSet(OrdersAt(s, p)) /\ Cardinality(OrdersAt(s, p)) = Len(q)
  BY <1>1, <1>5, FS_NatBijection, FS_CountingElements
<1>7. OrdersAt(s, p) = {} <=> Len(q) = 0
  BY <1>6, FS_EmptySet
<1>8. Len(q) = 0 <=> q = <<>>
  BY <1>1
<1> QED
  BY <1>4, <1>6, <1>7, <1>8

\* What order i adds to the depth of side s at price p.
Share(i, s, p) == IF i \in OrdersAt(s, p) THEN node[i].quantity ELSE 0

\* A sum is what one element adds and what the others do.
LEMMA SumWithout ==
    ASSUME NEW v, NEW S, IsFiniteSet(S), IntegersOn(v, S), NEW m
    PROVE  /\ SumFunctionOnSet(v, S) =
                 (IF m \in S THEN v[m] ELSE 0) + SumFunctionOnSet(v, S \ {m})
           /\ SumFunctionOnSet(v, S \ {m}) \in Int
<1>1. IsFiniteSet(S \ {m}) /\ IntegersOn(v, S \ {m})
  BY FS_RemoveElement DEF IntegersOn
<1>2. SumFunctionOnSet(v, S \ {m}) \in Int
  BY <1>1, SumType
<1>3. CASE m \in S
  BY <1>2, <1>3, SumSplit
<1>4. CASE m \notin S
  <2>1. S \ {m} = S
    BY <1>4
  <2>2. SumFunctionOnSet(v, S \ {m}) = SumFunctionOnSet(v, S)
    BY <2>1, Zenon
  <2>3. \A a \in Int : a = 0 + a
    OBVIOUS
  <2> QED
    BY <1>2, <1>4, <2>2, <2>3
<1> QED
  BY <1>3, <1>4

\* A step that touches one order changes the depth by that order's share.
LEMMA DepthUpdate ==
    ASSUME IInv, IInv', NEW s \in Side, NEW p \in Price, NEW m,
           \A i \in OrderId : i # m => node'[i] = node[i]
    PROVE  /\ Depth(s, p)' = Depth(s, p) - Share(m, s, p) + Share(m, s, p)'
           /\ Depth(s, p) \in Int /\ Share(m, s, p) \in Int /\ Share(m, s, p)' \in Int
<1> USE ConstantAssumption
<1> DEFINE S == OrdersAt(s, p)
           R == OrdersAt(s, p)'
           v == [i \in S |-> node[i].quantity]
           w == [i \in R |-> node'[i].quantity]
<1>1. R \ {m} = S \ {m}
  BY DEF OrdersAt
<1>2. IsFiniteSet(S)
  BY OrdersOfLevel
<1>3. IsFiniteSet(R)
  <2>1. IsFiniteSet(S \cup {m})
    BY <1>2, FS_AddElement
  <2>2. R \in SUBSET (S \cup {m})
    BY <1>1
  <2> QED
    BY <2>1, <2>2, FS_Subset
<1>4. (\A i \in S : v[i] = node[i].quantity) /\ (\A i \in R : w[i] = node'[i].quantity)
  OBVIOUS
<1>5. \A i \in S : node[i].quantity \in Int
  BY DEF IInv, TypeOK, OrdersAt, RestingOrder
<1>6. \A i \in R : node'[i].quantity \in Int
  BY DEF IInv, TypeOK, OrdersAt, RestingOrder
<1>7. Depth(s, p) = SumFunctionOnSet(v, S) /\ Depth(s, p)' = SumFunctionOnSet(w, R)
  BY DEF Depth, SumFunction
<1>8. AgreeOn(v, w, S \ {m})
  <2>1. \A i \in S \ {m} : i \in OrderId
    BY DEF OrdersAt
  <2> QED
    BY <1>1, <1>4, <2>1 DEF AgreeOn
<1>9. Share(m, s, p) = (IF m \in S THEN v[m] ELSE 0) /\ Share(m, s, p)' = (IF m \in R THEN w[m] ELSE 0)
  BY <1>4 DEF Share
<1> HIDE DEF S, R, v, w
<1>10. IntegersOn(v, S) /\ IntegersOn(w, R)
  BY <1>4, <1>5, <1>6 DEF IntegersOn
<1>11. SumFunctionOnSet(v, S \ {m}) = SumFunctionOnSet(w, R \ {m})
  <2>1. IsFiniteSet(S \ {m})
    BY <1>2, FS_RemoveElement
  <2> QED
    BY <1>1, <1>8, <2>1, SumCongruence
<1>12. /\ SumFunctionOnSet(v, S) = Share(m, s, p) + SumFunctionOnSet(v, S \ {m})
       /\ SumFunctionOnSet(v, S \ {m}) \in Int
  BY <1>2, <1>9, <1>10, SumWithout
<1>13. SumFunctionOnSet(w, R) = Share(m, s, p)' + SumFunctionOnSet(w, R \ {m})
  BY <1>3, <1>9, <1>10, SumWithout
<1>14. Share(m, s, p) \in Int /\ Share(m, s, p)' \in Int
  BY <1>4, <1>5, <1>6, <1>9
<1>15. \A a, b, c \in Int : b + c = (a + c) - a + b
  OBVIOUS
<1> QED
  BY <1>7, <1>11, <1>12, <1>13, <1>14, <1>15

\* A step that touches no order leaves the depths as they are.
LEMMA DepthUnchanged ==
    ASSUME UNCHANGED node
    PROVE  \A s, p : Depth(s, p)' = Depth(s, p)
  BY DEF Depth, OrdersAt

\* A fill takes from the total of the level what it takes from the maker.
LEMMA FillKeepsQuotes ==
    ASSUME IInv, IInv', QuoteInv, FillMaker
    PROVE  QuoteInv'
<1> USE ConstantAssumption, SentinelAssumption
<1>0. /\ level \in [Side -> [Price -> Seq(OrderId)]] /\ total \in [Side -> [Price -> Int]]
      /\ keys \in [Side -> SUBSET Price] /\ node \in [OrderId -> RestingOrder \cup {NoOrder}]
  BY DEF IInv, TypeOK
<1>m. AtMaker /\ maker \in OrderId
  BY MakerFacts DEF FillMaker
<1> PICK m \in OrderId : m = maker
  BY <1>m
<1> DEFINE q == Least(taker.quantity, node[m].quantity)
<1>1. /\ AtMaker /\ pc = "inner" /\ UNCHANGED <<keys, pc, it>>
      /\ total' = [total EXCEPT ![opp][it] = @ - q]
      /\ IF node[m].quantity = q
         THEN /\ node' = [node EXCEPT ![m] = NoOrder]
              /\ level' = [level EXCEPT ![opp][it] = RemoveAt(@, pos)]
         ELSE /\ node' = [node EXCEPT ![m] = [node[m] EXCEPT !.quantity = node[m].quantity - q]]
              /\ UNCHANGED <<index, level>>
  BY DEF FillMaker, AtMaker
<1>2. /\ taker \in Request /\ taker.quantity \in 1..MaxQty
      /\ opp \in Side /\ it \in Price /\ m \in OrderId
      /\ node[m] \in RestingOrder /\ node[m] # NoOrder
      /\ node[m].side = opp /\ node[m].price = it
  BY <1>1, MakerFacts DEF IInv, IndexMatchesLists
<1>3. node[m].quantity \in 1..MaxQty /\ q \in 1..MaxQty
  BY <1>2 DEF RestingOrder, Least
<1>4. \A i \in OrderId : i # m => node'[i] = node[i]
  BY <1>0, <1>1
<1>5. \A s \in Side, p \in Price :
         Share(m, s, p) = IF s = opp /\ p = it THEN node[m].quantity ELSE 0
  BY <1>2 DEF Share, OrdersAt
<1>6. \A s \in Side, p \in Price :
         Share(m, s, p)' = IF s = opp /\ p = it THEN node[m].quantity - q ELSE 0
  <2>1. CASE node[m].quantity = q
    <3>1. node'[m] = NoOrder
      BY <1>0, <1>1, <2>1
    <3> QED
      BY <1>3, <2>1, <3>1 DEF Share, OrdersAt
  <2>2. CASE node[m].quantity # q
    <3>2. node'[m] = [node[m] EXCEPT !.quantity = node[m].quantity - q]
      BY <1>0, <1>1, <2>2
    <3>3. /\ node'[m].quantity = node[m].quantity - q
          /\ node'[m].side = opp /\ node'[m].price = it
      BY <1>2, <3>2 DEF RestingOrder
    <3>4. node'[m] # NoOrder
      <4>1. index'[m] = index[m] /\ index[m] # NoLocation
        BY <1>1, <2>2, MakerFacts
      <4> QED
        BY <1>2, <4>1 DEF IInv, IndexMatchesLists
    <3> QED
      BY <1>2, <3>3, <3>4 DEF Share, OrdersAt
  <2> QED
    BY <2>1, <2>2
<1> HIDE DEF q
<1>7. ASSUME NEW s \in Side, NEW p \in Price PROVE total'[s][p] = Depth(s, p)'
  <2>1. /\ Depth(s, p)' = Depth(s, p) - Share(m, s, p) + Share(m, s, p)'
        /\ Depth(s, p) \in Int
    BY <1>4, DepthUpdate
  <2>2. total[s][p] = Depth(s, p)
    BY DEF QuoteInv
  <2>3. total'[s][p] = IF s = opp /\ p = it THEN total[s][p] - q ELSE total[s][p]
    BY <1>0, <1>1, <1>2
  <2> QED
    BY <1>3, <1>5, <1>6, <2>1, <2>2, <2>3
<1>8. opp' = opp
  BY <1>2 DEF FillMaker, opp, Request
<1>9. ASSUME NEW s \in Side, NEW p \in keys'[s]
      PROVE  level'[s][p] # <<>> \/ (pc' = "inner" /\ s = opp' /\ p = it')
  <2>1. p \in keys[s] /\ p \in Price
    BY <1>0, <1>1
  <2>2. (s # opp \/ p # it) => level'[s][p] = level[s][p]
    BY <1>0, <1>1, <2>1
  <2> QED
    BY <1>1, <1>8, <2>1, <2>2 DEF QuoteInv
<1> QED
  BY <1>7, <1>9 DEF QuoteInv

\* Leaving a level drops its key if its list is empty.
LEMMA LeaveKeepsQuotes ==
    ASSUME IInv, IInv', QuoteInv, LeaveLevel
    PROVE  QuoteInv'
<1>1. /\ UNCHANGED <<level, total, node, taker>> /\ pc = "inner" /\ pc' = "outer"
      /\ keys' = DropEmptyLevel(opp, it)
  BY DEF LeaveLevel
<1>2. opp \in Side /\ it \in Price
  BY <1>1 DEF IInv, TypeOK, WalkInv, Request, opp, Opposite, Side
<1>3. ASSUME NEW s \in Side, NEW p \in keys'[s] PROVE level'[s][p] # <<>>
  BY <1>1, <1>2 DEF DropEmptyLevel, IInv, TypeOK, QuoteInv
<1>4. \A s \in Side, p \in Price : total'[s][p] = Depth(s, p)'
  BY <1>1, DepthUnchanged DEF QuoteInv
<1> QED
  BY <1>3, <1>4 DEF QuoteInv

\* A resting order adds its quantity and its key.
LEMMA RestKeepsQuotes ==
    ASSUME IInv, IInv', QuoteInv, RestRemainder
    PROVE  QuoteInv'
<1> USE ConstantAssumption, SentinelAssumption
<1>0. /\ level \in [Side -> [Price -> Seq(OrderId)]] /\ total \in [Side -> [Price -> Int]]
      /\ keys \in [Side -> SUBSET Price] /\ node \in [OrderId -> RestingOrder \cup {NoOrder}]
  BY DEF IInv, TypeOK
<1>a. taker \in Request /\ taker.id \in OrderId
  BY DEF RestRemainder, IInv, TypeOK, Request
<1> PICK i \in OrderId : i = taker.id
  BY <1>a
<1> DEFINE s == taker.side
           p == taker.price
<1>1. /\ pc = "outer" /\ taker.type = "limit" /\ taker.quantity > 0
      /\ level' = [level EXCEPT ![s][p] = Append(@, i)]
      /\ total' = [total EXCEPT ![s][p] = @ + taker.quantity]
      /\ keys'  = [keys EXCEPT ![s] = @ \cup {p}]
      /\ node'  = [node EXCEPT ![i] = taker]
  BY DEF RestRemainder, PushBack, Rests
<1>2. taker \in Request /\ taker # NoOrder
  BY <1>1 DEF IInv, TypeOK
<1>3. s \in Side /\ p \in Price /\ i \in OrderId /\ taker.quantity \in Int
  BY <1>1, <1>2 DEF Request, IInv, WalkInv, Price
<1>4. node[i] = NoOrder
  BY <1>1, <1>3 DEF IInv, WalkInv, IndexMatchesLists
<1>5. node'[i] = taker /\ \A j \in OrderId : j # i => node'[j] = node[j]
  BY <1>0, <1>1, <1>3
<1>6. \A t \in Side, r \in Price : Share(i, t, r) = 0
  BY <1>4 DEF Share, OrdersAt
<1>7. \A t \in Side, r \in Price :
         Share(i, t, r)' = IF t = s /\ r = p THEN taker.quantity ELSE 0
  <2>1. \A t, r : i \in OrdersAt(t, r)' <=> t = s /\ r = p
    BY <1>2, <1>5 DEF OrdersAt
  <2> QED
    BY <1>5, <2>1 DEF Share
<1>8. \A t \in Side, r \in Price :
         total'[t][r] = IF t = s /\ r = p THEN total[t][r] + taker.quantity ELSE total[t][r]
  BY <1>0, <1>1, <1>3
<1>9. Append(level[s][p], i) # <<>>
  <2>1. level[s][p] \in Seq(OrderId)
    BY <1>0, <1>3
  <2>2. Len(Append(level[s][p], i)) = Len(level[s][p]) + 1 /\ Len(level[s][p]) \in Nat
    BY <2>1, AppendProperties
  <2>3. ASSUME Append(level[s][p], i) = <<>> PROVE FALSE
    <3>1. Len(Append(level[s][p], i)) = Len(<<>>)
      BY <2>3, Zenon
    <3>2. Len(<<>>) = 0
      OBVIOUS
    <3> QED
      BY <2>2, <3>1, <3>2
  <2> QED
    BY <2>3
<1>10. \A t \in Side, r \in Price :
          level'[t][r] = IF t = s /\ r = p THEN Append(level[s][p], i) ELSE level[t][r]
  BY <1>0, <1>1, <1>3
<1>11. \A t \in Side : keys'[t] = IF t = s THEN keys[s] \cup {p} ELSE keys[t]
  BY <1>0, <1>1, <1>3
<1> HIDE DEF s, p
<1>12. ASSUME NEW t \in Side, NEW r \in Price PROVE total'[t][r] = Depth(t, r)'
  <2>1. /\ Depth(t, r)' = Depth(t, r) - Share(i, t, r) + Share(i, t, r)'
        /\ Depth(t, r) \in Int
    BY <1>5, DepthUpdate
  <2>2. total[t][r] = Depth(t, r)
    BY DEF QuoteInv
  <2> QED
    BY <1>3, <1>6, <1>7, <1>8, <2>1, <2>2
<1>13. ASSUME NEW t \in Side, NEW r \in keys'[t] PROVE level'[t][r] # <<>>
  <2>1. r \in Price
    BY DEF IInv, TypeOK
  <2>2. CASE t = s /\ r = p
    BY <1>9, <1>10, <2>1, <2>2
  <2>3. CASE t # s \/ r # p
    <3>1. r \in keys[t]
      BY <1>11, <2>3
    <3>2. level[t][r] # <<>>
      BY <1>1, <3>1 DEF QuoteInv
    <3> QED
      BY <1>10, <2>1, <2>3, <3>2
  <2> QED
    BY <2>2, <2>3
<1> QED
  BY <1>12, <1>13 DEF QuoteInv

\* A cancel takes what the order has left from the total of its level.
LEMMA CancelKeepsQuotes ==
    ASSUME IInv, IInv', QuoteInv, NEW i \in OrderId, CancelOrder(i)
    PROVE  QuoteInv'
<1> USE ConstantAssumption, SentinelAssumption
<1> DEFINE s == index[i].side
           p == index[i].price
           rest == RemoveAt(level[s][p], PositionOf(i, level[s][p]))
<1>0. /\ level \in [Side -> [Price -> Seq(OrderId)]] /\ total \in [Side -> [Price -> Int]]
      /\ keys \in [Side -> SUBSET Price] /\ node \in [OrderId -> RestingOrder \cup {NoOrder}]
  BY DEF IInv, TypeOK
<1>1. pc = "idle" /\ index[i] # NoLocation /\ pc' = "idle"
  BY DEF CancelOrder, call
<1>2. /\ s \in Side /\ p \in Price /\ node[i] \in RestingOrder /\ node[i] # NoOrder
      /\ node[i].side = s /\ node[i].price = p
  BY <1>1 DEF IInv, TypeOK, IndexMatchesLists, Location
<1>3. p \in keys[s]
  <2>1. Listed(i, s, p)
    BY <1>1 DEF IInv, IndexMatchesLists
  <2>2. level[s][p] # <<>>
    BY <2>1 DEF Listed
  <2> QED
    BY <1>2, <2>2 DEF IInv, WalkInv
<1>4. /\ total' = [total EXCEPT ![s][p] = @ - node[i].quantity]
      /\ level' = [level EXCEPT ![s][p] = rest]
      /\ node'  = [node EXCEPT ![i] = NoOrder]
      /\ keys'  = IF rest = <<>> THEN [keys EXCEPT ![s] = @ \ {p}] ELSE keys
  BY <1>3 DEF CancelOrder
<1> HIDE DEF s, p, rest
<1>5. node'[i] = NoOrder /\ \A j \in OrderId : j # i => node'[j] = node[j]
  BY <1>0, <1>4
<1>6. \A t \in Side, r \in Price :
         Share(i, t, r) = IF t = s /\ r = p THEN node[i].quantity ELSE 0
  BY <1>2 DEF Share, OrdersAt
<1>7. \A t \in Side, r \in Price : Share(i, t, r)' = 0
  BY <1>5 DEF Share, OrdersAt
<1>8. \A t \in Side, r \in Price :
         total'[t][r] = IF t = s /\ r = p THEN total[t][r] - node[i].quantity ELSE total[t][r]
  BY <1>0, <1>2, <1>4
<1>9. node[i].quantity \in Int
  BY <1>2 DEF RestingOrder
<1>10. ASSUME NEW t \in Side, NEW r \in Price PROVE total'[t][r] = Depth(t, r)'
  <2>1. /\ Depth(t, r)' = Depth(t, r) - Share(i, t, r) + Share(i, t, r)'
        /\ Depth(t, r) \in Int
    BY <1>5, DepthUpdate
  <2>2. total[t][r] = Depth(t, r)
    BY DEF QuoteInv
  <2> QED
    BY <1>6, <1>7, <1>8, <1>9, <2>1, <2>2
<1>11. ASSUME NEW t \in Side, NEW r \in keys'[t] PROVE level'[t][r] # <<>>
  <2>1. r \in Price /\ r \in keys[t]
    BY <1>0, <1>2, <1>4
  <2>2. CASE t = s /\ r = p
    BY <1>0, <1>2, <1>4, <2>1, <2>2
  <2>3. CASE t # s \/ r # p
    <3>1. level'[t][r] = level[t][r]
      BY <1>0, <1>4, <2>3, <2>1
    <3> QED
      BY <1>1, <2>1, <3>1 DEF QuoteInv
  <2> QED
    BY <2>2, <2>3
<1> QED
  BY <1>10, <1>11 DEF QuoteInv

\* The empty book has no depth.
LEMMA InitQuotes == Init => QuoteInv
<1> SUFFICES ASSUME Init PROVE QuoteInv
  OBVIOUS
<1>1. ASSUME NEW s \in Side, NEW p \in Price PROVE total[s][p] = Depth(s, p)
  <2>1. OrdersAt(s, p) = {}
    BY DEF Init, OrdersAt
  <2>2. DOMAIN [i \in OrdersAt(s, p) |-> node[i].quantity] = {}
    BY <2>1
  <2>3. Depth(s, p) = 0
    BY <2>2, FS_EmptySet, SumUnfolds DEF Depth, SumFunction
  <2> QED
    BY <2>3 DEF Init
<1> QED
  BY <1>1 DEF Init, QuoteInv

\* Every step keeps totals and keys in agreement with the orders.
LEMMA NextKeepsQuotes ==
    ASSUME IInv, IInv', QuoteInv, [Next]_vars
    PROVE  QuoteInv'
<1>1. ASSUME NEW i \in OrderId, CancelOrder(i) PROVE QuoteInv'
  BY <1>1, CancelKeepsQuotes
<1>2. CASE FillMaker
  BY <1>2, FillKeepsQuotes
<1>3. CASE LeaveLevel
  BY <1>3, LeaveKeepsQuotes
<1>4. CASE RestRemainder
  BY <1>4, RestKeepsQuotes
<1>5. ASSUME UNCHANGED <<level, total, keys, node>>,
             UNCHANGED <<pc, it, taker>> \/ pc # "inner"
      PROVE  QuoteInv'
  <2>1. \A s \in Side, p \in Price : total'[s][p] = Depth(s, p)'
    BY <1>5, DepthUnchanged DEF QuoteInv
  <2> QED
    BY <1>5, <2>1 DEF QuoteInv, opp
<1>6. ASSUME NEW o \in Request, AddOrder(o) PROVE QuoteInv'
  BY <1>5, <1>6 DEF AddOrder, book
<1>7. CASE EnterLevel \/ ReturnFills \/ UNCHANGED vars
  BY <1>5, <1>7 DEF EnterLevel, ReturnFills, book, vars
<1>8. CASE SkipOwn
  BY <1>5, <1>8 DEF SkipOwn, book
<1> QED
  BY <1>1, <1>2, <1>3, <1>4, <1>6, <1>7, <1>8
     DEF Next, MatchStep, RejectOrder, CancelUnknown

\* The counts of some levels of a side add up to the number of their orders.
LEMMA CountsAddUp ==
    ASSUME IInv, NEW s \in Side, NEW L \in SUBSET Snapshot(s)
    PROVE  LET O == UNION {OrdersAt(s, l.price) : l \in L}
           IN  /\ IsFiniteSet(L) /\ IsFiniteSet(O)
               /\ SumFunctionOnSet([l \in Snapshot(s) |-> l.count], L) = Cardinality(O)
<1> USE ConstantAssumption
<1> DEFINE w == [l \in Snapshot(s) |-> l.count]
           Orders(U) == UNION {OrdersAt(s, l.price) : l \in U}
           Good(U) == IsFiniteSet(Orders(U)) /\ SumFunctionOnSet(w, U) = Cardinality(Orders(U))
           T == {n \in Nat : \E U \in SUBSET Snapshot(s) : Cardinality(U) = n /\ ~ Good(U)}
<1>1. \A l \in Snapshot(s) :
         /\ l.price \in keys[s] /\ l.price \in Price
         /\ l = [price |-> l.price, quantity |-> total[s][l.price], count |-> Len(level[s][l.price])]
  BY DEF Snapshot, IInv, TypeOK
<1>2. IsFiniteSet(Snapshot(s))
  <2> DEFINE f == [l \in Snapshot(s) |-> l.price]
  <2>1. f \in [Snapshot(s) -> Price]
    BY <1>1
  <2>2. \A a, b \in Snapshot(s) : f[a] = f[b] => a = b
    BY <1>1
  <2>3. f \in Injection(Snapshot(s), Price)
    BY <2>1, <2>2, Fun_IsInj
  <2>4. IsFiniteSet(Price)
    BY FS_Interval DEF Price
  <2> QED
    BY <2>3, <2>4, FS_Injection
<1>3. \A l \in Snapshot(s) :
         /\ IsFiniteSet(OrdersAt(s, l.price))
         /\ w[l] = Cardinality(OrdersAt(s, l.price)) /\ w[l] \in Int
  <2> TAKE l \in Snapshot(s)
  <2>1. w[l] = Len(level[s][l.price]) /\ l.price \in Price
    BY <1>1
  <2>2. /\ IsFiniteSet(OrdersAt(s, l.price))
        /\ Cardinality(OrdersAt(s, l.price)) = Len(level[s][l.price])
    BY <2>1, OrdersOfLevel
  <2> QED
    BY <2>1, <2>2, FS_CardinalityType
<1>4. \A U \in SUBSET Snapshot(s) :
         /\ IsFiniteSet(U) /\ Cardinality(U) \in Nat
         /\ \A e \in U : Cardinality(U \ {e}) = Cardinality(U) - 1
  BY <1>2, FS_Subset, FS_CardinalityType, FS_RemoveElement
<1>5. T \subseteq Nat /\ \A n \in Nat :
         n \in T <=> \E U \in SUBSET Snapshot(s) : Cardinality(U) = n /\ ~ Good(U)
  OBVIOUS
<1> HIDE DEF T, w
<1>6. Good({})
  <2>1. Orders({}) = {}
    OBVIOUS
  <2>2. SumFunctionOnSet(w, {}) = 0
    BY FS_EmptySet, SumUnfolds
  <2> QED
    BY <2>1, <2>2, FS_EmptySet
<1>7. ASSUME NEW U \in SUBSET Snapshot(s), NEW e \in U, Good(U \ {e}) PROVE Good(U)
  <2> DEFINE A == Orders(U \ {e})
             B == OrdersAt(s, e.price)
  <2>1. Orders(U) = A \cup B
    OBVIOUS
  <2>2. A \cap B = {}
    <3> SUFFICES ASSUME NEW i \in A, i \in B PROVE FALSE
      OBVIOUS
    <3>1. PICK l \in U \ {e} : i \in OrdersAt(s, l.price)
      OBVIOUS
    <3>2. l.price = e.price
      BY <3>1 DEF OrdersAt
    <3> QED
      BY <1>1, <3>1, <3>2
  <2>3. IsFiniteSet(A) /\ SumFunctionOnSet(w, U \ {e}) = Cardinality(A)
    BY <1>7
  <2>4. IsFiniteSet(B) /\ w[e] = Cardinality(B)
    BY <1>3
  <2>5. SumFunctionOnSet(w, U) = w[e] + SumFunctionOnSet(w, U \ {e})
    <3>1. IntegersOn(w, U)
      BY <1>3 DEF IntegersOn
    <3> QED
      BY <1>4, <3>1, SumSplit
  <2> HIDE DEF A, B, Orders
  <2>6. /\ IsFiniteSet(A \cup B)
        /\ Cardinality(A \cup B) = Cardinality(A) + Cardinality(B) - Cardinality(A \cap B)
        /\ Cardinality(A) \in Nat /\ Cardinality(B) \in Nat
    BY <2>3, <2>4, FS_Union, FS_CardinalityType
  <2>7. Cardinality(A \cap B) = 0
    BY <2>2, FS_EmptySet
  <2>8. Cardinality(A \cup B) = Cardinality(B) + Cardinality(A)
    BY <2>6, <2>7
  <2> QED
    BY <2>1, <2>3, <2>4, <2>5, <2>6, <2>8
<1> HIDE DEF Good
<1>8. T = {}
  <2> SUFFICES ASSUME T # {} PROVE FALSE
    OBVIOUS
  <2>1. PICK m \in T : \A k \in T : m <= k
    BY <1>5, LeastElement
  <2>2. PICK U \in SUBSET Snapshot(s) : Cardinality(U) = m /\ ~ Good(U)
    BY <1>5, <2>1
  <2>3. PICK e \in U : TRUE
    BY <1>6, <2>2
  <2>4. ~ Good(U \ {e}) /\ U \ {e} \in SUBSET Snapshot(s)
    BY <1>7, <2>2
  <2>5. m \in Nat /\ Cardinality(U \ {e}) = m - 1 /\ m - 1 \in Nat
    BY <1>4, <2>2, <2>3, <2>4
  <2>6. m - 1 \in T
    BY <1>5, <2>4, <2>5
  <2> QED
    BY <2>1, <2>5, <2>6
<1>9. Good(L)
  BY <1>4, <1>5, <1>8
<1> QED
  BY <1>4, <1>9 DEF Good, w

\* The number of orders on a side is the sum of the counts of its levels.
LEMMA CountOfSide ==
    ASSUME IInv, NEW s \in Side
    PROVE  LET O == {i \in OrderId : node[i] # NoOrder /\ node[i].side = s}
           IN  IsFiniteSet(O) /\ Cardinality(O) = CountInLevels(s)
<1> DEFINE O == {i \in OrderId : node[i] # NoOrder /\ node[i].side = s}
           U == UNION {OrdersAt(s, l.price) : l \in Snapshot(s)}
<1>1. O = U
  <2>1. ASSUME NEW i \in O PROVE i \in U
    <3>1. /\ node[i].side = s /\ node[i].price \in Price
          /\ \E k \in 1..Len(level[s][node[i].price]) : level[s][node[i].price][k] = i
      BY RestingIsListed
    <3> DEFINE p == node[i].price
               l == [price |-> p, quantity |-> total[s][p], count |-> Len(level[s][p])]
    <3>2. level[s][p] # <<>>
      BY <3>1
    <3>3. p \in keys[s]
      BY <3>1, <3>2 DEF IInv, WalkInv
    <3>4. l \in Snapshot(s) /\ l.price = p
      BY <3>2, <3>3 DEF Snapshot
    <3>5. i \in OrdersAt(s, p)
      BY <3>1 DEF OrdersAt
    <3> HIDE DEF l, p
    <3> QED
      BY <3>4, <3>5
  <2>2. U \subseteq O
    BY DEF OrdersAt
  <2> QED
    BY <2>1, <2>2
<1>2. /\ IsFiniteSet(U)
      /\ SumFunctionOnSet([l \in Snapshot(s) |-> l.count], Snapshot(s)) = Cardinality(U)
  BY CountsAddUp
<1>3. CountInLevels(s) = SumFunctionOnSet([l \in Snapshot(s) |-> l.count], Snapshot(s))
  BY DEF CountInLevels, SumFunction
<1> QED
  BY <1>1, <1>2, <1>3

\* While the mutex is free the readers report what the orders say.
LEMMA QuotesAreRight ==
    ASSUME IInv, QuoteInv
    PROVE  QuotesMatchOrders
<1> SUFFICES ASSUME pc = "idle", NEW s \in Side
             PROVE  /\ keys[s] = {p \in Price : OrdersAt(s, p) # {}}
                    /\ Snapshot(s) =
                          {[price |-> p,
                            quantity |-> Depth(s, p),
                            count |-> Cardinality(OrdersAt(s, p))] : p \in keys[s]}
                    /\ Cardinality(Resting) = CountInLevels("buy") + CountInLevels("sell")
  BY DEF QuotesMatchOrders
<1>1. keys[s] \subseteq Price /\ \A p \in Price : p \in keys[s] <=> level[s][p] # <<>>
  BY DEF IInv, TypeOK, WalkInv, QuoteInv
<1>2. \A p \in Price : OrdersAt(s, p) = {} <=> level[s][p] = <<>>
  BY OrdersOfLevel
<1>3. keys[s] = {p \in Price : OrdersAt(s, p) # {}}
  BY <1>1, <1>2
<1>4. \A p \in keys[s] :
         /\ level[s][p] # <<>> /\ total[s][p] = Depth(s, p)
         /\ Len(level[s][p]) = Cardinality(OrdersAt(s, p))
  BY <1>1, OrdersOfLevel DEF QuoteInv
<1>5. Snapshot(s) = {[price |-> p,
                      quantity |-> Depth(s, p),
                      count |-> Cardinality(OrdersAt(s, p))] : p \in keys[s]}
  BY <1>4 DEF Snapshot
<1>6. Cardinality(Resting) = CountInLevels("buy") + CountInLevels("sell")
  <2> DEFINE O(t) == {i \in OrderId : node[i] # NoOrder /\ node[i].side = t}
  <2>1. Resting = O("buy") \cup O("sell")
    <3>1. \A i \in OrderId : index[i] # NoLocation <=> node[i] # NoOrder
      BY DEF IInv, IndexMatchesLists
    <3>2. \A i \in OrderId : node[i] # NoOrder => node[i].side \in Side
      BY DEF IInv, TypeOK, RestingOrder
    <3> QED
      BY <3>1, <3>2 DEF Resting, Side
  <2>2. O("buy") \cap O("sell") = {}
    OBVIOUS
  <2>3. /\ IsFiniteSet(O("buy")) /\ Cardinality(O("buy")) = CountInLevels("buy")
        /\ IsFiniteSet(O("sell")) /\ Cardinality(O("sell")) = CountInLevels("sell")
    BY CountOfSide DEF Side
  <2> HIDE DEF O
  <2>4. /\ Cardinality(O("buy") \cup O("sell")) =
              Cardinality(O("buy")) + Cardinality(O("sell")) - Cardinality(O("buy") \cap O("sell"))
        /\ Cardinality(O("buy")) \in Nat /\ Cardinality(O("sell")) \in Nat
    BY <2>3, FS_Union, FS_CardinalityType
  <2>5. Cardinality(O("buy") \cap O("sell")) = 0
    BY <2>2, FS_EmptySet
  <2> QED
    BY <2>1, <2>3, <2>4, <2>5
<1> QED
  BY <1>3, <1>5, <1>6

-----------------------------------------------------------------------------
(* Theorems                                                                *)

\* The inductive invariant holds in every reachable state.
THEOREM Invariance == Spec => []IInv
<1>1. Init => IInv
  BY InitInv
<1>2. IInv /\ [Next]_vars => IInv'
  BY NextInv
<1> QED
  BY <1>1, <1>2, PTL DEF Spec

\* Quantities of resting orders stay positive and every field keeps its type,
\* whatever the order of calls (orderbook.hpp, the members of OrderBook).
THEOREM TypeCorrect == Spec => []TypeOK
<1>1. IInv => TypeOK
  BY DEF IInv
<1> QED
  BY <1>1, Invariance, PTL

\* orders_ never holds a location whose list node is gone, nor misses an order
\* that rests (add_order, match and cancel_order maintain it together).
THEOREM IndexCorrect == Spec => []IndexMatchesLists
<1>1. IInv => IndexMatchesLists
  BY DEF IInv
<1> QED
  BY <1>1, Invariance, PTL

\* The walk of match() passes no maker the taker may trade with.
THEOREM WalkCorrect == Spec => []WalkInv
<1>1. IInv => WalkInv
  BY DEF IInv
<1> QED
  BY <1>1, Invariance, PTL

\* The book is never crossed but between orders of one account; the clamp in
\* spread() can hide nothing else.
THEOREM NeverCrossedByOthers == Spec => []UncrossedExceptOwn
<1>1. IInv => UncrossedExceptOwn
  BY DEF IInv
<1> QED
  BY <1>1, Invariance, PTL

\* The list walk of match(), add_order and cancel_order implement price-time
\* priority: seen from outside, every trade is with the order that has
\* priority, and a limit order rests only when it can trade with nobody.
THEOREM ImplementsPriceTimePriority == Spec => PriceTimePriorityKept
<1>1. Init => Promise!Init
  BY InitKeepsPriority
<1>2. IInv /\ IInv' /\ [Next]_vars => [Promise!Next]_(Promise!vars)
  BY NextKeepsPriority
<1> QED
  BY <1>1, <1>2, Invariance, PTL DEF Spec, PriceTimePriorityKept, Promise!Spec

\* The fills add_order returns add up to what was asked, less what is left, and
\* no maker is filled twice by one call.
THEOREM FillsAddUpAlways == Spec => []FillsAddUp
<1>1. Init => FillInv
  BY DEF Init, FillInv, FillsAddUp
<1>2. IInv /\ IInv' /\ FillInv /\ [Next]_vars => FillInv'
  BY NextAddsUp
<1>3. FillInv => FillsAddUp
  BY DEF FillInv
<1> QED
  BY <1>1, <1>2, <1>3, Invariance, PTL DEF Spec

\* best_bid, best_ask, get_snapshot and order_count, which never look at an
\* order, report what the resting orders are whenever the mutex is free.
THEOREM QuotesAlwaysMatch == Spec => []QuotesMatchOrders
<1>1. Init => QuoteInv
  BY InitQuotes
<1>2. IInv /\ IInv' /\ QuoteInv /\ [Next]_vars => QuoteInv'
  BY NextKeepsQuotes
<1>3. IInv /\ QuoteInv => QuotesMatchOrders
  BY QuotesAreRight
<1> QED
  BY <1>1, <1>2, <1>3, Invariance, PTL DEF Spec
=============================================================================
