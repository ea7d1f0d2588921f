----------------------- MODULE ShipmentHistoryProofs ------------------------
(***************************************************************************)
(* What the derivation layer guarantees of every snapshot a history        *)
(* reaches, for every fleet, network, set of parcels and bound.            *)
(*                                                                         *)
(* The invariant IInv is that derive() has nothing left to do: a snapshot  *)
(* holds the parcels, hubs, riders and exceptions that derive() would make *)
(* of its own data, whatever stale ones it was given.  It holds because    *)
(* each part is made of the data and of the parts before it, and of        *)
(* nothing else (SameShipments, SameHub, SameRider, SameList).  What a     *)
(* page, a list or an assistant says is then a matter of one snapshot:     *)
(* ParcelsAre, HubsAre, RiderIs, ItemsAre and ListHas say what is in it.   *)
(*                                                                         *)
(* Figures are sums over finite sets, and a sum does not depend on the     *)
(* order in which it is taken (SumTakes).  Rows that split a set add up to *)
(* it (SumOfRows, CountOfRows), and a sorted list has each element once    *)
(* (OrderedIs).  FiguresAre says what each parcel brings to a sum and      *)
(* FinanceIs what the finance page makes of a set of parcels; the rest is  *)
(* that each page splits the parcels without loss.                         *)
(***************************************************************************)
EXTENDS ShipmentHistory, FiniteSetTheorems, SequenceTheorems, WellFoundedInduction, TLAPS

----------------------------------------------------------------------------
\* The greater and the lesser of two numbers.

LEMMA MaxIs ==
    ASSUME NEW a \in Int, NEW b \in Int
    PROVE  Max({ a, b }) = IF a >= b THEN a ELSE b
<1> DEFINE m == IF a >= b THEN a ELSE b
<1>1. m \in { a, b } /\ \A y \in { a, b } : m >= y
  OBVIOUS
<1>2. \A x \in { a, b } : (\A y \in { a, b } : x >= y) => x = m
  OBVIOUS
<1>3. QED
  BY <1>1, <1>2 DEF Max

LEMMA MinIs ==
    ASSUME NEW a \in Int, NEW b \in Int
    PROVE  Min({ a, b }) = IF a <= b THEN a ELSE b
<1> DEFINE m == IF a <= b THEN a ELSE b
<1>1. m \in { a, b } /\ \A y \in { a, b } : m <= y
  OBVIOUS
<1>2. \A x \in { a, b } : (\A y \in { a, b } : x <= y) => x = m
  OBVIOUS
<1>3. QED
  BY <1>1, <1>2 DEF Min

LEMMA LeastIs ==
    ASSUME NEW S \in SUBSET Int, NEW k \in S, \A x \in S : k <= x
    PROVE  Min(S) = k
<1>1. \A x \in S : (\A y \in S : x <= y) => x = k
  OBVIOUS
<1>2. QED
  BY <1>1 DEF Min

\* A set of integers with a lower bound has a least one.
LEMMA LeastExists ==
    ASSUME NEW S \in SUBSET Int, S # {}, NEW b \in Int, \A x \in S : b <= x
    PROVE  \E k \in S : \A x \in S : k <= x
<1> DEFINE R == OpToRel(<, Nat)
           T == { n \in Nat : n + b \in S }
<1>1. \A m, n \in Nat : m < n => <<m, n>> \in R
  BY DEF OpToRel
<1>2. IsWellFoundedOn(R, Nat)
  BY NatLessThanWellFounded
<1> HIDE DEF R
<1>3. T \subseteq Nat /\ T # {}
  <2>1. PICK x \in S : TRUE
    OBVIOUS
  <2>2. x - b \in Nat /\ (x - b) + b = x
    OBVIOUS
  <2>3. x - b \in T
    BY <2>2
  <2>4. QED
    BY <2>3
<1>4. PICK n \in T : \A m \in T : <<m, n>> \notin R
  BY <1>2, <1>3, WFMin
<1>5. \A x \in S : n + b <= x
  <2> SUFFICES ASSUME NEW x \in S, ~(n + b <= x) PROVE FALSE
    OBVIOUS
  <2>1. x - b \in Nat /\ (x - b) + b = x /\ x - b < n /\ n \in Nat
    OBVIOUS
  <2>2. x - b \in T /\ <<x - b, n>> \in R
    BY <1>1, <2>1
  <2>3. QED
    BY <1>4, <2>2
<1>6. n + b \in S
  OBVIOUS
<1>7. QED
  BY <1>5, <1>6

----------------------------------------------------------------------------
\* Sums over a finite set.

\* g sums f over each set of P.
Adds(g, f, S) ==
    g = [s \in SUBSET S |-> IF s = {} THEN 0
                            ELSE LET x == CHOOSE x \in s : TRUE IN f[x] + g[s \ { x }]]

SumOf(f, S) == MapThenSumSet(LAMBDA x : f[x], S)

LEMMA SumUnfolds ==
    ASSUME NEW f, NEW S
    PROVE  SumOf(f, S) = (CHOOSE g : Adds(g, f, S))[S]
  BY DEF SumOf, MapThenSumSet, MapThenFoldSet, Adds

LEMMA SeqSum ==
    ASSUME NEW q
    PROVE  Sum(q) = SumOf(q, DOMAIN q)
  BY DEF Sum, SumOf, FoldSeq, FoldFunction, FoldFunctionOnSet, MapThenSumSet, MapThenFoldSet

LEMMA InductTo ==
    ASSUME NEW L \in Nat, NEW P \in SUBSET (0 .. L), 0 \in P,
           \A n \in P : n < L => n + 1 \in P
    PROVE  P = 0 .. L
<1> SUFFICES ASSUME NEW x \in 0 .. L, x \notin P PROVE FALSE
  OBVIOUS
<1> DEFINE R == OpToRel(<, Nat)
           T == (0 .. L) \ P
<1>1. \A m, n \in Nat : m < n => <<m, n>> \in R
  BY DEF OpToRel
<1>2. IsWellFoundedOn(R, Nat)
  BY NatLessThanWellFounded
<1>3. T \subseteq Nat /\ T # {}
  OBVIOUS
<1> HIDE DEF R
<1>4. PICK n \in T : \A m \in T : <<m, n>> \notin R
  BY <1>2, <1>3, WFMin
<1>5. PICK m \in 0 .. L : n = m + 1
  BY <1>4
<1>6. <<m, n>> \in R
  BY <1>1, <1>4, <1>5
<1>7. m \notin T
  BY <1>4, <1>6
<1>8. m < L
  BY <1>4, <1>5
<1>9. QED
  BY <1>4, <1>5, <1>7, <1>8

LEMMA SomethingAdds ==
    ASSUME NEW S, IsFiniteSet(S), NEW f
    PROVE  \E g : Adds(g, f, S)
<1> DEFINE L == Cardinality(S)
           Small(n) == { s \in SUBSET S : Cardinality(s) <= n }
           One(s) == CHOOSE x \in s : TRUE
           Def(g, s) == IF s = {} THEN 0 ELSE f[One(s)] + g[s \ { One(s) }]
           Up(n) == \E g : g = [s \in Small(n) |-> Def(g, s)]
           P == { n \in 0 .. L : Up(n) }
<1>1. L \in Nat /\ Cardinality({}) = 0
  BY FS_CardinalityType, FS_EmptySet
<1>2. \A s \in SUBSET S : Cardinality(s) \in 0 .. L /\ (Cardinality(s) = 0 <=> s = {})
  BY FS_Subset, FS_CardinalityType, FS_EmptySet
<1>11. \A s \in SUBSET S : s # {} =>
         One(s) \in s /\ Cardinality(s \ { One(s) }) = Cardinality(s) - 1
  <2> SUFFICES ASSUME NEW s \in SUBSET S, s # {}
               PROVE  One(s) \in s /\ Cardinality(s \ { One(s) }) = Cardinality(s) - 1
    OBVIOUS
  <2>1. One(s) \in s
    OBVIOUS
  <2>2. IsFiniteSet(s)
    BY FS_Subset
  <2>3. QED
    BY <2>1, <2>2, FS_RemoveElement
<1> HIDE DEF L, One
<1>3. 0 \in P
  <2>1. Small(0) = { {} }
    <3>1. \A s \in SUBSET S : Cardinality(s) <= 0 <=> s = {}
      BY <1>1, <1>2
    <3>2. QED
      BY <3>1
  <2> DEFINE g == [s \in Small(0) |-> 0]
  <2>2. g = [s \in Small(0) |-> Def(g, s)]
    BY <2>1
  <2>3. Up(0)
    BY <2>2
  <2> HIDE DEF Up
  <2>4. QED
    BY <1>1, <2>3
<1>4. ASSUME NEW n \in P, n < L PROVE n + 1 \in P
  <2>1. n \in 0 .. L
    OBVIOUS
  <2>2. PICK h : h = [s \in Small(n) |-> Def(h, s)]
    BY <1>4
  <2> DEFINE g == [s \in Small(n + 1) |-> Def(h, s)]
  <2>3. ASSUME NEW s \in Small(n) PROVE s \in Small(n + 1) /\ g[s] = h[s]
    <3>1. s \in SUBSET S /\ Cardinality(s) <= n
      OBVIOUS
    <3>3. Cardinality(s) \in Nat
      BY <1>1, <1>2, <3>1
    <3>4. Cardinality(s) <= n + 1
      BY <2>1, <3>1, <3>3
    <3>5. s \in Small(n + 1)
      BY <3>1, <3>4
    <3>6. QED
      BY <2>2, <3>5
  <2>4. ASSUME NEW s \in Small(n + 1) PROVE g[s] = Def(g, s)
    <3>1. CASE s = {}
      BY <3>1
    <3>2. CASE s # {}
      <4>5. s \in SUBSET S /\ Cardinality(s) <= n + 1
        OBVIOUS
      <4>6. Cardinality(s) \in 0 .. L /\ Cardinality(s \ { One(s) }) = Cardinality(s) - 1
        BY <1>2, <1>11, <3>2, <4>5
      <4>1. s \ { One(s) } \in Small(n)
        BY <1>1, <2>1, <4>5, <4>6
      <4>2. g[s \ { One(s) }] = h[s \ { One(s) }]
        BY <2>3, <4>1
      <4>3. g[s] = f[One(s)] + h[s \ { One(s) }]
        BY <3>2
      <4> HIDE DEF g
      <4>4. QED
        BY <3>2, <4>2, <4>3
    <3>3. QED
      BY <3>1, <3>2
  <2>5. g = [s \in Small(n + 1) |-> g[s]]
    OBVIOUS
  <2> HIDE DEF g, Small, Def
  <2>6. g = [s \in Small(n + 1) |-> Def(g, s)]
    BY <2>4, <2>5
  <2>7. Up(n + 1)
    BY <2>6
  <2> HIDE DEF Up
  <2>8. QED
    BY <1>1, <1>4, <2>1, <2>7
<1>5. P = 0 .. L
  <2> HIDE DEF P
  <2>1. P \in SUBSET (0 .. L)
    BY DEF P
  <2>2. QED
    BY <1>1, <1>3, <1>4, <2>1, InductTo
<1>6. Up(L)
  <2> HIDE DEF Up
  <2>1. QED
    BY <1>1, <1>5
<1>7. Small(L) = SUBSET S
  <2>1. \A s \in SUBSET S : Cardinality(s) <= L
    BY <1>1, <1>2
  <2>2. QED
    BY <2>1
<1>8. PICK g : g = [s \in SUBSET S |-> Def(g, s)]
  BY <1>6, <1>7
<1>9. Adds(g, f, S)
  BY <1>8 DEF Adds, One
<1>10. QED
  BY <1>9

\* A sum of numbers is such a number, whether they are naturals or integers.
LEMMA SumIs ==
    ASSUME NEW S, IsFiniteSet(S), NEW f, NEW N, 0 \in N, \A a, b \in N : a + b \in N,
           \A x \in S : f[x] \in N
    PROVE  SumOf(f, S) \in N
<1> DEFINE g == CHOOSE h : Adds(h, f, S)
           L == Cardinality(S)
           One(s) == CHOOSE x \in s : TRUE
           P == { n \in 0 .. L : \A s \in SUBSET S : Cardinality(s) <= n => g[s] \in N }
<1>1. Adds(g, f, S)
  BY SomethingAdds
<1> HIDE DEF g
<1>2. \A s \in SUBSET S : g[s] = IF s = {} THEN 0 ELSE f[One(s)] + g[s \ { One(s) }]
  BY <1>1 DEF Adds
<1>3. L \in Nat
  BY FS_CardinalityType
<1>4. \A s \in SUBSET S : Cardinality(s) \in 0 .. L /\ (Cardinality(s) = 0 <=> s = {})
  BY FS_Subset, FS_CardinalityType, FS_EmptySet
<1>11. \A s \in SUBSET S : s # {} =>
         One(s) \in s /\ Cardinality(s \ { One(s) }) = Cardinality(s) - 1
  <2> SUFFICES ASSUME NEW s \in SUBSET S, s # {}
               PROVE  One(s) \in s /\ Cardinality(s \ { One(s) }) = Cardinality(s) - 1
    OBVIOUS
  <2>1. One(s) \in s
    OBVIOUS
  <2>2. IsFiniteSet(s)
    BY FS_Subset
  <2>3. QED
    BY <2>1, <2>2, FS_RemoveElement
<1> HIDE DEF L, One
<1>5. 0 \in P
  <2>1. ASSUME NEW s \in SUBSET S, Cardinality(s) <= 0 PROVE g[s] \in N
    <3>1. s = {}
      BY <1>3, <1>4, <2>1
    <3>2. QED
      BY <1>2, <3>1
  <2>2. QED
    BY <1>3, <2>1
<1>6. ASSUME NEW n \in P, n < L PROVE n + 1 \in P
  <2>1. n \in 0 .. L /\ \A s \in SUBSET S : Cardinality(s) <= n => g[s] \in N
    OBVIOUS
  <2>2. ASSUME NEW s \in SUBSET S, Cardinality(s) <= n + 1, s # {} PROVE g[s] \in N
    <3>3. /\ Cardinality(s) \in 0 .. L /\ One(s) \in s
          /\ Cardinality(s \ { One(s) }) = Cardinality(s) - 1
      BY <1>4, <1>11, <2>2
    <3>4. Cardinality(s \ { One(s) }) <= n
      BY <1>3, <2>1, <2>2, <3>3
    <3>1. f[One(s)] \in N /\ g[s \ { One(s) }] \in N
      BY <2>1, <3>3, <3>4
    <3>5. g[s] = f[One(s)] + g[s \ { One(s) }]
      BY <1>2, <2>2
    <3>2. QED
      BY <3>1, <3>5
  <2>3. g[{}] \in N
    BY <1>2
  <2>4. \A s \in SUBSET S : Cardinality(s) <= n + 1 => g[s] \in N
    BY <2>2, <2>3
  <2>5. n + 1 \in 0 .. L
    BY <1>3, <1>6, <2>1
  <2>6. QED
    BY <2>4, <2>5
<1>7. P = 0 .. L
  <2> HIDE DEF P
  <2>1. P \in SUBSET (0 .. L)
    BY DEF P
  <2>2. QED
    BY <1>3, <1>5, <1>6, <2>1, InductTo
<1>8. L \in P /\ Cardinality(S) <= L
  BY <1>3, <1>7 DEF L
<1>9. g[S] \in N
  BY <1>8
<1>10. QED
  BY <1>9, SumUnfolds DEF g

LEMMA SumsOf ==
    ASSUME NEW q
    PROVE  /\ q \in Seq(Int) => Sum(q) \in Int
           /\ q \in Seq(Nat) => Sum(q) \in Nat
<1>1. ASSUME NEW N \in { Int, Nat }, q \in Seq(N) PROVE Sum(q) \in N
  <2>1. DOMAIN q = 1 .. Len(q) /\ Len(q) \in Nat /\ \A i \in 1 .. Len(q) : q[i] \in N
    BY <1>1
  <2>2. IsFiniteSet(1 .. Len(q))
    BY <2>1, FS_Interval
  <2>3. 0 \in N /\ \A a, b \in N : a + b \in N
    BY <1>1
  <2>4. SumOf(q, 1 .. Len(q)) \in N
    BY <2>1, <2>2, <2>3, SumIs
  <2>5. QED
    BY <2>1, <2>4, SeqSum
<1>2. QED
  BY <1>1

\* Induction over the subsets of a finite set, an element at a time.
LEMMA SubsetInduction ==
    ASSUME NEW S, IsFiniteSet(S), NEW P \in SUBSET (SUBSET S), {} \in P,
           \A T \in P : \A x \in S \ T : T \cup { x } \in P
    PROVE  S \in P
<1> DEFINE L == Cardinality(S)
           Q == { n \in 0 .. L : \A T \in SUBSET S : Cardinality(T) = n => T \in P }
<1>1. L \in Nat
  BY FS_CardinalityType
<1>2. \A T \in SUBSET S : IsFiniteSet(T) /\ Cardinality(T) \in 0 .. L /\ (Cardinality(T) = 0 <=> T = {})
  BY FS_Subset, FS_CardinalityType, FS_EmptySet
<1> HIDE DEF L
<1>3. 0 \in Q
  BY <1>1, <1>2
<1>4. ASSUME NEW n \in Q, n < L PROVE n + 1 \in Q
  <2>1. n \in 0 .. L /\ \A T \in SUBSET S : Cardinality(T) = n => T \in P
    OBVIOUS
  <2>2. ASSUME NEW T \in SUBSET S, Cardinality(T) = n + 1 PROVE T \in P
    <3>1. PICK x \in T : TRUE
      BY <1>1, <1>2, <2>1, <2>2
    <3>2. Cardinality(T \ { x }) = n
      BY <1>2, <2>1, <2>2, <3>1, FS_RemoveElement
    <3>3. T \ { x } \in P /\ x \in S \ (T \ { x }) /\ (T \ { x }) \cup { x } = T
      BY <2>1, <3>1, <3>2
    <3>4. QED
      BY <3>3
  <2>3. n + 1 \in 0 .. L
    BY <1>1, <1>4, <2>1
  <2>4. QED
    BY <2>2, <2>3
<1>5. Q = 0 .. L
  <2> HIDE DEF Q
  <2>1. Q \in SUBSET (0 .. L)
    BY DEF Q
  <2>2. QED
    BY <1>1, <1>3, <1>4, <2>1, InductTo
<1>6. L \in Q
  BY <1>1, <1>5
<1>7. QED
  BY <1>6 DEF L

\* There is one sum only.
LEMMA AddsOnce ==
    ASSUME NEW S, IsFiniteSet(S), NEW f, NEW g, NEW h, Adds(g, f, S), Adds(h, f, S)
    PROVE  g = h
<1> DEFINE L == Cardinality(S)
           One(s) == CHOOSE x \in s : TRUE
           Q == { n \in 0 .. L : \A T \in SUBSET S : Cardinality(T) <= n => g[T] = h[T] }
<1>1. L \in Nat
  BY FS_CardinalityType
<1>2. \A T \in SUBSET S : IsFiniteSet(T) /\ Cardinality(T) \in 0 .. L /\ (Cardinality(T) = 0 <=> T = {})
  BY FS_Subset, FS_CardinalityType, FS_EmptySet
<1>3. \A T \in SUBSET S : /\ g[T] = IF T = {} THEN 0 ELSE f[One(T)] + g[T \ { One(T) }]
                          /\ h[T] = IF T = {} THEN 0 ELSE f[One(T)] + h[T \ { One(T) }]
  BY DEF Adds
<1>4. \A T \in SUBSET S : T # {} => One(T) \in T
  OBVIOUS
<1> HIDE DEF L, One
<1>5. 0 \in Q
  <2>1. \A T \in SUBSET S : Cardinality(T) <= 0 => T = {}
    BY <1>1, <1>2
  <2>2. QED
    BY <1>1, <1>3, <2>1
<1>6. ASSUME NEW n \in Q, n < L PROVE n + 1 \in Q
  <2>1. n \in 0 .. L /\ \A T \in SUBSET S : Cardinality(T) <= n => g[T] = h[T]
    OBVIOUS
  <2>2. ASSUME NEW T \in SUBSET S, Cardinality(T) <= n + 1, T # {} PROVE g[T] = h[T]
    <3>1. One(T) \in T
      BY <1>4, <2>2
    <3>2. Cardinality(T \ { One(T) }) = Cardinality(T) - 1
      BY <1>2, <3>1, FS_RemoveElement
    <3>3. Cardinality(T) \in 0 .. L
      BY <1>2
    <3>4. Cardinality(T \ { One(T) }) <= n
      BY <1>1, <2>1, <2>2, <3>2, <3>3
    <3>5. g[T \ { One(T) }] = h[T \ { One(T) }]
      BY <2>1, <3>4
    <3>6. QED
      BY <1>3, <2>2, <3>5
  <2>3. g[{}] = h[{}]
    BY <1>3
  <2>4. n + 1 \in 0 .. L
    BY <1>1, <1>6, <2>1
  <2>5. QED
    BY <2>2, <2>3, <2>4
<1>7. Q = 0 .. L
  <2> HIDE DEF Q
  <2>1. Q \in SUBSET (0 .. L)
    BY DEF Q
  <2>2. QED
    BY <1>1, <1>5, <1>6, <2>1, InductTo
<1>8. \A T \in SUBSET S : g[T] = h[T]
  BY <1>1, <1>2, <1>7
<1>9. DOMAIN g = SUBSET S /\ g = [s \in SUBSET S |-> g[s]]
      /\ DOMAIN h = SUBSET S /\ h = [s \in SUBSET S |-> h[s]]
  BY DEF Adds
<1>10. QED
  BY <1>8, <1>9

LEMMA SumSteps ==
    ASSUME NEW S, IsFiniteSet(S), NEW f
    PROVE  LET x == CHOOSE x \in S : TRUE
           IN  SumOf(f, S) = IF S = {} THEN 0 ELSE f[x] + SumOf(f, S \ { x })
<1> DEFINE x == CHOOSE x \in S : TRUE
           T == S \ { x }
           g == CHOOSE h : Adds(h, f, S)
           k == CHOOSE h : Adds(h, f, T)
           r == [ s \in SUBSET T |-> g[s] ]
<1>1. IsFiniteSet(T)
  BY FS_Subset
<1>2. Adds(g, f, S)
  BY SomethingAdds
<1>3. Adds(k, f, T)
  BY <1>1, SomethingAdds
<1>4. Adds(r, f, T)
  <2> HIDE DEF g
  <2>1. \A s \in SUBSET T : g[s] = IF s = {} THEN 0
                                   ELSE LET y == CHOOSE y \in s : TRUE IN f[y] + g[s \ { y }]
    BY <1>2 DEF Adds
  <2>2. \A s \in SUBSET T : r[s] = g[s] /\ \A y : r[s \ { y }] = g[s \ { y }]
    OBVIOUS
  <2>3. \A s \in SUBSET T : r[s] = IF s = {} THEN 0
                                   ELSE LET y == CHOOSE y \in s : TRUE IN f[y] + r[s \ { y }]
    BY <2>1, <2>2
  <2>4. r = [ s \in SUBSET T |-> r[s] ]
    OBVIOUS
  <2> HIDE DEF r
  <2>5. QED
    BY <2>3, <2>4 DEF Adds
<1>5. SumOf(f, T) = k[T]
  BY SumUnfolds
<1>6. k = r
  BY <1>1, <1>3, <1>4, AddsOnce
<1>7. SumOf(f, T) = g[T]
  BY <1>5, <1>6
<1>8. SumOf(f, S) = g[S]
  BY SumUnfolds
<1>9. g[S] = IF S = {} THEN 0 ELSE f[x] + g[T]
  BY <1>2 DEF Adds
<1>10. QED
  BY <1>7, <1>8, <1>9

LEMMA SumEmpty ==
    ASSUME NEW f
    PROVE  SumOf(f, {}) = 0
  BY SumSteps, FS_EmptySet

\* Whichever element is taken first.
LEMMA SumTakes ==
    ASSUME NEW S, IsFiniteSet(S), NEW f, \A y \in S : f[y] \in Int, NEW x \in S
    PROVE  /\ SumOf(f, S) = f[x] + SumOf(f, S \ { x })
           /\ SumOf(f, S \ { x }) \in Int
<1> DEFINE L == Cardinality(S)
           Q == { n \in 0 .. L : \A T \in SUBSET S : Cardinality(T) <= n =>
                    \A y \in T : SumOf(f, T) = f[y] + SumOf(f, T \ { y }) }
<1>1. L \in Nat
  BY FS_CardinalityType
<1>2. \A T \in SUBSET S : IsFiniteSet(T) /\ Cardinality(T) \in 0 .. L /\ (Cardinality(T) = 0 <=> T = {})
  BY FS_Subset, FS_CardinalityType, FS_EmptySet
<1>3. \A T \in SUBSET S : SumOf(f, T) \in Int
  <2>1. 0 \in Int /\ \A a, b \in Int : a + b \in Int
    OBVIOUS
  <2>2. QED
    BY <1>2, <2>1, SumIs
<1> HIDE DEF L
<1>4. 0 \in Q
  <2>1. \A T \in SUBSET S : Cardinality(T) <= 0 => T = {}
    BY <1>1, <1>2
  <2>2. QED
    BY <1>1, <2>1
<1>5. ASSUME NEW n \in Q, n < L PROVE n + 1 \in Q
  <2>1. /\ n \in 0 .. L
        /\ \A T \in SUBSET S : Cardinality(T) <= n =>
             \A y \in T : SumOf(f, T) = f[y] + SumOf(f, T \ { y })
    OBVIOUS
  <2>2. ASSUME NEW T \in SUBSET S, Cardinality(T) <= n + 1, NEW y \in T
        PROVE  SumOf(f, T) = f[y] + SumOf(f, T \ { y })
    <3> DEFINE c == CHOOSE c \in T : TRUE
    <3>1. c \in T /\ SumOf(f, T) = f[c] + SumOf(f, T \ { c })
      BY <1>2, SumSteps
    <3>2. CASE y = c
      BY <3>1, <3>2
    <3>3. CASE y # c
      <4> HIDE DEF c
      <4>1. /\ Cardinality(T) \in 0 .. L
            /\ Cardinality(T \ { c }) = Cardinality(T) - 1
            /\ Cardinality(T \ { y }) = Cardinality(T) - 1
        BY <1>2, <3>1, FS_RemoveElement
      <4>2. Cardinality(T \ { c }) <= n /\ Cardinality(T \ { y }) <= n
        BY <1>1, <2>1, <2>2, <4>1
      <4>3. SumOf(f, T \ { c }) = f[y] + SumOf(f, (T \ { c }) \ { y })
        BY <2>1, <3>3, <4>2
      <4>4. SumOf(f, T \ { y }) = f[c] + SumOf(f, (T \ { y }) \ { c })
        BY <2>1, <3>1, <3>3, <4>2
      <4>5. (T \ { y }) \ { c } = (T \ { c }) \ { y }
        OBVIOUS
      <4> DEFINE rest == SumOf(f, (T \ { c }) \ { y })
      <4>6. rest \in Int /\ f[c] \in Int /\ f[y] \in Int
        BY <1>3, <3>1
      <4> HIDE DEF rest
      <4>7. f[c] + (f[y] + rest) = f[y] + (f[c] + rest)
        BY <4>6
      <4>8. QED
        BY <3>1, <4>3, <4>4, <4>5, <4>7 DEF rest
    <3>4. QED
      BY <3>2, <3>3
  <2>3. n + 1 \in 0 .. L
    BY <1>1, <1>5, <2>1
  <2>4. QED
    BY <2>2, <2>3
<1>6. Q = 0 .. L
  <2> HIDE DEF Q
  <2>1. Q \in SUBSET (0 .. L)
    BY DEF Q
  <2>2. QED
    BY <1>1, <1>4, <1>5, <2>1, InductTo
<1>7. SumOf(f, S) = f[x] + SumOf(f, S \ { x })
  BY <1>1, <1>2, <1>6
<1>8. QED
  BY <1>3, <1>7

LEMMA SumGrows ==
    ASSUME NEW S, IsFiniteSet(S), NEW f, NEW x, x \notin S, \A y \in S \cup { x } : f[y] \in Int
    PROVE  /\ SumOf(f, S \cup { x }) = f[x] + SumOf(f, S)
           /\ SumOf(f, S) \in Int
<1>1. IsFiniteSet(S \cup { x }) /\ (S \cup { x }) \ { x } = S
  BY FS_AddElement
<1>2. x \in S \cup { x }
  OBVIOUS
<1>3. QED
  BY <1>1, <1>2, SumTakes

LEMMA SumInt ==
    ASSUME NEW S, IsFiniteSet(S), NEW f, \A x \in S : f[x] \in Int
    PROVE  SumOf(f, S) \in Int
<1>1. 0 \in Int /\ \A a, b \in Int : a + b \in Int
  OBVIOUS
<1>2. QED
  BY <1>1, SumIs

\* A sum depends on what it adds and on nothing else; it grows with it, term by term.
LEMMA SumSame ==
    ASSUME NEW S, IsFiniteSet(S), NEW f, NEW g, \A x \in S : f[x] = g[x] /\ g[x] \in Int
    PROVE  SumOf(f, S) = SumOf(g, S)
<1> DEFINE P == { T \in SUBSET S : SumOf(f, T) = SumOf(g, T) }
<1>1. {} \in P
  BY SumEmpty
<1>2. ASSUME NEW T \in P, NEW x \in S \ T PROVE T \cup { x } \in P
  <2>1. IsFiniteSet(T) /\ T \in SUBSET S /\ SumOf(f, T) = SumOf(g, T)
    BY FS_Subset
  <2>2. \A y \in T \cup { x } : f[y] \in Int /\ g[y] \in Int
    BY <2>1
  <2>3. SumOf(f, T \cup { x }) = f[x] + SumOf(f, T)
    BY <2>1, <2>2, SumGrows
  <2>4. SumOf(g, T \cup { x }) = g[x] + SumOf(g, T)
    BY <2>1, <2>2, SumGrows
  <2>5. QED
    BY <2>1, <2>3, <2>4
<1> HIDE DEF P
<1>3. P \in SUBSET (SUBSET S)
  BY DEF P
<1>4. S \in P
  BY <1>1, <1>2, <1>3, SubsetInduction
<1>5. QED
  BY <1>4 DEF P

LEMMA SumGrowsWith ==
    ASSUME NEW S, IsFiniteSet(S), NEW f, NEW g,
           \A x \in S : f[x] \in Int /\ g[x] \in Int /\ f[x] <= g[x]
    PROVE  SumOf(f, S) <= SumOf(g, S)
<1> DEFINE P == { T \in SUBSET S : SumOf(f, T) <= SumOf(g, T) }
<1>1. {} \in P
  BY SumEmpty
<1>2. ASSUME NEW T \in P, NEW x \in S \ T PROVE T \cup { x } \in P
  <2>1. IsFiniteSet(T) /\ T \in SUBSET S /\ SumOf(f, T) <= SumOf(g, T)
    BY FS_Subset
  <2>2. \A y \in T \cup { x } : f[y] \in Int /\ g[y] \in Int
    BY <2>1
  <2>3. SumOf(f, T \cup { x }) = f[x] + SumOf(f, T) /\ SumOf(f, T) \in Int
    BY <2>1, <2>2, SumGrows
  <2>4. SumOf(g, T \cup { x }) = g[x] + SumOf(g, T) /\ SumOf(g, T) \in Int
    BY <2>1, <2>2, SumGrows
  <2>5. QED
    BY <2>1, <2>3, <2>4
<1> HIDE DEF P
<1>3. P \in SUBSET (SUBSET S)
  BY DEF P
<1>4. S \in P
  BY <1>1, <1>2, <1>3, SubsetInduction
<1>5. QED
  BY <1>4 DEF P

\* The sum of a sum.
LEMMA SumPlus ==
    ASSUME NEW S, IsFiniteSet(S), NEW f, NEW g, NEW h,
           \A x \in S : f[x] \in Int /\ g[x] \in Int /\ h[x] = f[x] + g[x]
    PROVE  SumOf(h, S) = SumOf(f, S) + SumOf(g, S)
<1> DEFINE P == { T \in SUBSET S : SumOf(h, T) = SumOf(f, T) + SumOf(g, T) }
<1>1. {} \in P
  BY SumEmpty
<1>2. ASSUME NEW T \in P, NEW x \in S \ T PROVE T \cup { x } \in P
  <2>1. IsFiniteSet(T) /\ T \in SUBSET S /\ SumOf(h, T) = SumOf(f, T) + SumOf(g, T)
    BY FS_Subset
  <2>2. \A y \in T \cup { x } : f[y] \in Int /\ g[y] \in Int /\ h[y] \in Int
    BY <2>1
  <2>3. SumOf(f, T \cup { x }) = f[x] + SumOf(f, T) /\ SumOf(f, T) \in Int
    BY <2>1, <2>2, SumGrows
  <2>4. SumOf(g, T \cup { x }) = g[x] + SumOf(g, T) /\ SumOf(g, T) \in Int
    BY <2>1, <2>2, SumGrows
  <2>5. SumOf(h, T \cup { x }) = h[x] + SumOf(h, T)
    BY <2>1, <2>2, SumGrows
  <2>6. f[x] \in Int /\ g[x] \in Int /\ h[x] = f[x] + g[x]
    OBVIOUS
  <2>7. SumOf(h, T \cup { x }) = SumOf(f, T \cup { x }) + SumOf(g, T \cup { x })
    BY <2>1, <2>3, <2>4, <2>5, <2>6
  <2>8. T \cup { x } \in SUBSET S
    BY <2>1
  <2>9. QED
    BY <2>7, <2>8
<1> HIDE DEF P
<1>3. P \in SUBSET (SUBSET S)
  BY DEF P
<1>4. S \in P
  BY <1>1, <1>2, <1>3, SubsetInduction
<1>5. QED
  BY <1>4 DEF P

\* What adds nothing may be left out.
LEMMA SumWithout ==
    ASSUME NEW S, IsFiniteSet(S), NEW T \in SUBSET S, NEW f, \A x \in S : f[x] \in Int,
           \A x \in S \ T : f[x] = 0
    PROVE  SumOf(f, T) = SumOf(f, S)
<1> DEFINE P == { U \in SUBSET S : SumOf(f, U \cap T) = SumOf(f, U) }
<1>1. {} \in P
  BY SumEmpty
<1>2. ASSUME NEW U \in P, NEW x \in S \ U PROVE U \cup { x } \in P
  <2>1. /\ IsFiniteSet(U) /\ IsFiniteSet(U \cap T) /\ U \in SUBSET S
        /\ SumOf(f, U \cap T) = SumOf(f, U)
    BY FS_Subset
  <2>2. \A y \in U \cup { x } : f[y] \in Int
    BY <2>1
  <2>3. SumOf(f, U \cup { x }) = f[x] + SumOf(f, U) /\ SumOf(f, U) \in Int
    BY <2>1, <2>2, SumGrows
  <2>4. CASE x \in T
    <3>1. (U \cup { x }) \cap T = (U \cap T) \cup { x }
      BY <2>4
    <3>2. SumOf(f, (U \cap T) \cup { x }) = f[x] + SumOf(f, U \cap T)
      BY <2>1, <2>2, SumGrows
    <3>3. QED
      BY <2>1, <2>3, <3>1, <3>2
  <2>5. CASE x \notin T
    <3>1. (U \cup { x }) \cap T = U \cap T /\ f[x] = 0
      BY <2>5
    <3>2. SumOf(f, U \cup { x }) = SumOf(f, U)
      BY <2>3, <3>1
    <3>3. QED
      BY <2>1, <3>1, <3>2
  <2>6. QED
    BY <2>4, <2>5
<1> HIDE DEF P
<1>3. P \in SUBSET (SUBSET S)
  BY DEF P
<1>4. S \in P
  BY <1>1, <1>2, <1>3, SubsetInduction
<1>5. S \cap T = T
  OBVIOUS
<1>6. QED
  BY <1>4, <1>5 DEF P

LEMMA SumWithin ==
    ASSUME NEW S, IsFiniteSet(S), NEW T \in SUBSET S, NEW f, \A x \in S : f[x] \in Nat
    PROVE  SumOf(f, T) <= SumOf(f, S)
<1> DEFINE g == [ x \in S |-> IF x \in T THEN f[x] ELSE 0 ]
<1>1. IsFiniteSet(T) /\ \A x \in S : g[x] \in Int /\ f[x] \in Int /\ g[x] <= f[x]
  BY FS_Subset
<1>2. \A x \in T : g[x] = f[x] /\ f[x] \in Int
  OBVIOUS
<1>3. \A x \in S \ T : g[x] = 0
  OBVIOUS
<1> HIDE DEF g
<1>4. SumOf(g, T) = SumOf(f, T)
  BY <1>1, <1>2, SumSame
<1>5. SumOf(g, T) = SumOf(g, S)
  BY <1>1, <1>3, SumWithout
<1>6. SumOf(g, S) <= SumOf(f, S)
  BY <1>1, SumGrowsWith
<1>7. QED
  BY <1>4, <1>5, <1>6

\* To count is to add ones.
LEMMA SumCounts ==
    ASSUME NEW S, IsFiniteSet(S), NEW f, \A x \in S : f[x] = 1
    PROVE  SumOf(f, S) = Cardinality(S)
<1> DEFINE P == { T \in SUBSET S : SumOf(f, T) = Cardinality(T) }
<1>1. {} \in P
  BY SumEmpty, FS_EmptySet
<1>2. ASSUME NEW T \in P, NEW x \in S \ T PROVE T \cup { x } \in P
  <2>1. IsFiniteSet(T) /\ T \in SUBSET S /\ SumOf(f, T) = Cardinality(T) /\ Cardinality(T) \in Nat
    BY FS_Subset, FS_CardinalityType
  <2>2. \A y \in T \cup { x } : f[y] \in Int
    BY <2>1
  <2>3. SumOf(f, T \cup { x }) = f[x] + SumOf(f, T)
    BY <2>1, <2>2, SumGrows
  <2>4. Cardinality(T \cup { x }) = Cardinality(T) + 1
    BY <2>1, FS_AddElement
  <2>5. QED
    BY <2>1, <2>3, <2>4
<1> HIDE DEF P
<1>3. P \in SUBSET (SUBSET S)
  BY DEF P
<1>4. S \in P
  BY <1>1, <1>2, <1>3, SubsetInduction
<1>5. QED
  BY <1>4 DEF P

\* One term more.
LEMMA SumRaised ==
    ASSUME NEW K, IsFiniteSet(K), NEW f, NEW g, NEW k \in K, NEW e \in Int,
           \A x \in K : f[x] \in Int /\ g[x] = IF x = k THEN f[x] + e ELSE f[x]
    PROVE  SumOf(g, K) = SumOf(f, K) + e
<1>1. \A x \in K : g[x] \in Int
  OBVIOUS
<1>2. SumOf(f, K) = f[k] + SumOf(f, K \ { k }) /\ SumOf(f, K \ { k }) \in Int
  BY SumTakes
<1>3. SumOf(g, K) = g[k] + SumOf(g, K \ { k })
  BY <1>1, SumTakes
<1>4. SumOf(g, K \ { k }) = SumOf(f, K \ { k })
  BY FS_RemoveElement, SumSame
<1>5. QED
  BY <1>2, <1>3, <1>4

Fibre(S, key, k) == { x \in S : key[x] = k }

\* Rows that split a set between them add up to it.
LEMMA SumOfRows ==
    ASSUME NEW S, IsFiniteSet(S), NEW K, IsFiniteSet(K), NEW f, \A x \in S : f[x] \in Int,
           NEW key \in [ S -> K ],
           NEW rows, \A k \in K : rows[k] = SumOf(f, Fibre(S, key, k))
    PROVE  SumOf(rows, K) = SumOf(f, S)
<1> DEFINE Part(T, k) == { x \in T : key[x] = k }
           Row(T) == [ k \in K |-> SumOf(f, Part(T, k)) ]
           P == { T \in SUBSET S : SumOf(Row(T), K) = SumOf(f, T) }
<1>1. \A T \in SUBSET S, k \in K : IsFiniteSet(T) /\ IsFiniteSet(Part(T, k)) /\ Part(T, k) \in SUBSET S
  BY FS_Subset
<1>2. \A T \in SUBSET S : \A k \in K : Row(T)[k] = SumOf(f, Part(T, k)) /\ Row(T)[k] \in Int
  BY <1>1, SumInt
<1>3. {} \in P
  <2>1. \A k \in K : Row({})[k] = 0
    BY SumEmpty
  <2>2. SumOf(Row({}), {}) = SumOf(Row({}), K)
    <3>1. \A k \in K : Row({})[k] \in Int
      BY <2>1
    <3> HIDE DEF Row
    <3>2. QED
      BY <2>1, <3>1, SumWithout
  <2>3. QED
    BY <2>2, SumEmpty
<1>4. ASSUME NEW T \in P, NEW x \in S \ T PROVE T \cup { x } \in P
  <2>1. T \in SUBSET S /\ T \cup { x } \in SUBSET S /\ SumOf(Row(T), K) = SumOf(f, T) /\ key[x] \in K
    OBVIOUS
  <2>2. \A y \in T \cup { x } : f[y] \in Int
    BY <2>1
  <2>3. SumOf(f, T \cup { x }) = f[x] + SumOf(f, T) /\ f[x] \in Int /\ SumOf(f, T) \in Int
    BY <1>1, <2>1, <2>2, SumGrows
  <2>4. ASSUME NEW k \in K
        PROVE  Row(T \cup { x })[k] = IF k = key[x] THEN Row(T)[k] + f[x] ELSE Row(T)[k]
    <3> HIDE DEF Row
    <3>1. CASE k = key[x]
      <4>1. Part(T \cup { x }, k) = Part(T, k) \cup { x } /\ x \notin Part(T, k)
        BY <3>1
      <4>2. /\ SumOf(f, Part(T, k) \cup { x }) = f[x] + SumOf(f, Part(T, k))
            /\ SumOf(f, Part(T, k)) \in Int
        <5>1. IsFiniteSet(Part(T, k)) /\ \A y \in Part(T, k) \cup { x } : f[y] \in Int
          BY <1>1, <2>1
        <5> HIDE DEF Part
        <5>2. QED
          BY <4>1, <5>1, SumGrows
      <4>3. /\ Row(T \cup { x })[k] = SumOf(f, Part(T, k) \cup { x })
            /\ Row(T)[k] = SumOf(f, Part(T, k))
        <5> HIDE DEF Part
        <5>1. QED
          BY <1>2, <2>1, <4>1
      <4>4. QED
        BY <2>3, <3>1, <4>2, <4>3
    <3>2. CASE k # key[x]
      <4>1. Part(T \cup { x }, k) = Part(T, k)
        BY <3>2
      <4> HIDE DEF Part
      <4>2. QED
        BY <1>2, <2>1, <3>2, <4>1
    <3>3. QED
      BY <3>1, <3>2
  <2>5. \A k \in K : Row(T)[k] \in Int
    BY <1>2, <2>1
  <2> HIDE DEF Row, P
  <2>6. SumOf(Row(T \cup { x }), K) = SumOf(Row(T), K) + f[x]
    <3> DEFINE now == Row(T \cup { x })
               old == Row(T)
               c == key[x]
               e == f[x]
    <3>1. \A k \in K : old[k] \in Int /\ now[k] = IF k = c THEN old[k] + e ELSE old[k]
      BY <2>4, <2>5
    <3>2. c \in K /\ e \in Int
      BY <2>1, <2>3
    <3> HIDE DEF now, old, c, e
    <3>3. SumOf(now, K) = SumOf(old, K) + e
      BY <3>1, <3>2, SumRaised
    <3>4. QED
      BY <3>3 DEF now, old, e
  <2>7. QED
    BY <2>1, <2>3, <2>6 DEF P
<1>5. S \in P
  <2> HIDE DEF P
  <2>1. P \in SUBSET (SUBSET S)
    BY DEF P
  <2>2. QED
    BY <1>3, <1>4, <2>1, SubsetInduction
<1>6. SumOf(Row(S), K) = SumOf(f, S)
  BY <1>5
<1> DEFINE g == Row(S)
<1>7. \A k \in K : rows[k] = g[k] /\ g[k] \in Int
  <2>1. \A k \in K : rows[k] = SumOf(f, Part(S, k))
    BY DEF Fibre
  <2> HIDE DEF Row, Part
  <2>2. QED
    BY <1>2, <2>1
<1>8. SumOf(g, K) = SumOf(f, S)
  BY <1>6
<1> HIDE DEF g
<1>9. SumOf(rows, K) = SumOf(g, K)
  BY <1>7, SumSame
<1>10. QED
  BY <1>8, <1>9

LEMMA CountOfRows ==
    ASSUME NEW S, IsFiniteSet(S), NEW K, IsFiniteSet(K), NEW key \in [ S -> K ],
           NEW rows, \A k \in K : rows[k] = Cardinality(Fibre(S, key, k))
    PROVE  SumOf(rows, K) = Cardinality(S)
<1> DEFINE f == [ x \in S |-> 1 ]
<1>1. \A k \in K : rows[k] = SumOf(f, Fibre(S, key, k))
  <2> SUFFICES ASSUME NEW k \in K
               PROVE  Cardinality(Fibre(S, key, k)) = SumOf(f, Fibre(S, key, k))
    OBVIOUS
  <2>1. IsFiniteSet(Fibre(S, key, k)) /\ \A y \in Fibre(S, key, k) : f[y] = 1
    BY FS_Subset DEF Fibre
  <2> HIDE DEF f
  <2>2. QED
    BY <2>1, SumCounts
<1>2. \A x \in S : f[x] \in Int /\ f[x] = 1
  OBVIOUS
<1> HIDE DEF f
<1>3. SumOf(rows, K) = SumOf(f, S)
  BY <1>1, <1>2, SumOfRows
<1>4. QED
  BY <1>2, <1>3, SumCounts

\* A sorted list has each of the elements once.
LEMMA OrderedIs ==
    ASSUME NEW seq, NEW I \in SUBSET Nat, IsFiniteSet(I), NEW key \in [ I -> Int ]
    PROVE  /\ DOMAIN Ordered(seq, I, key) = 1 .. Cardinality(I)
           /\ \E b \in Bijection(1 .. Cardinality(I), I) :
                \A k \in 1 .. Cardinality(I) : Ordered(seq, I, key)[k] = seq[b[k]]
<1> DEFINE n == Cardinality(I)
           upTo(i) == { j \in I : key[j] < key[i] \/ (key[j] = key[i] /\ j <= i) }
           rank == [ i \in I |-> Cardinality(upTo(i)) ]
           b == [ k \in 1 .. n |-> CHOOSE i \in I : Cardinality(upTo(i)) = k ]
<1>1. n \in Nat /\ IsFiniteSet(1 .. n) /\ Cardinality(1 .. n) = n
  BY FS_CardinalityType, FS_Interval
<1>2. \A i \in I : IsFiniteSet(upTo(i)) /\ Cardinality(upTo(i)) \in Nat /\ Cardinality(upTo(i)) <= n
  BY FS_Subset, FS_CardinalityType
<1>3. \A i \in I : i \in upTo(i)
  OBVIOUS
<1>4. \A i \in I : rank[i] \in 1 .. n
  <2> SUFFICES ASSUME NEW i \in I PROVE rank[i] \in 1 .. n
    OBVIOUS
  <2>1. Cardinality(upTo(i)) # 0
    BY <1>2, <1>3, FS_EmptySet
  <2>2. rank[i] = Cardinality(upTo(i)) /\ rank[i] \in Nat /\ rank[i] <= n
    BY <1>2
  <2> HIDE DEF rank, upTo, n
  <2>3. QED
    BY <1>1, <2>1, <2>2
<1>5. ASSUME NEW i \in I, NEW j \in I, i # j PROVE rank[i] # rank[j]
  <2>1. ASSUME NEW x \in I, NEW y \in I, upTo(x) \subseteq upTo(y), y \notin upTo(x)
        PROVE  rank[x] # rank[y]
    <3>1. upTo(x) \in SUBSET upTo(y) /\ upTo(x) # upTo(y)
      BY <1>3, <2>1
    <3> HIDE DEF upTo
    <3>2. Cardinality(upTo(x)) # Cardinality(upTo(y))
      BY <1>2, <3>1, FS_Subset
    <3>3. QED
      BY <3>2
  <2>2. \/ upTo(i) \subseteq upTo(j) /\ j \notin upTo(i)
        \/ upTo(j) \subseteq upTo(i) /\ i \notin upTo(j)
    <3>1. key[i] \in Int /\ key[j] \in Int /\ i \in Nat /\ j \in Nat
      OBVIOUS
    <3>2. ASSUME NEW x \in I, NEW y \in I, key[x] < key[y] \/ (key[x] = key[y] /\ x < y)
          PROVE  upTo(x) \subseteq upTo(y) /\ y \notin upTo(x)
      <4>1. ASSUME NEW z \in upTo(x) PROVE z \in upTo(y)
        <5>1. z \in I /\ (key[z] < key[x] \/ (key[z] = key[x] /\ z <= x))
          OBVIOUS
        <5>2. z \in Nat /\ x \in Nat /\ y \in Nat /\ key[x] \in Int /\ key[y] \in Int /\ key[z] \in Int
          BY <5>1
        <5>3. key[z] < key[y] \/ (key[z] = key[y] /\ z <= y)
          BY <3>2, <5>1, <5>2
        <5>4. QED
          BY <5>1, <5>3
      <4>2. y \notin upTo(x)
        <5>1. x \in Nat /\ y \in Nat /\ key[x] \in Int /\ key[y] \in Int
          OBVIOUS
        <5>2. ~(key[y] < key[x] \/ (key[y] = key[x] /\ y <= x))
          BY <3>2, <5>1
        <5>3. QED
          BY <5>2
      <4>3. QED
        BY <4>1, <4>2
    <3>3. \/ key[i] < key[j] \/ (key[i] = key[j] /\ i < j)
          \/ key[j] < key[i] \/ (key[j] = key[i] /\ j < i)
      BY <1>5, <3>1
    <3> HIDE DEF upTo
    <3>4. QED
      BY <3>2, <3>3
  <2> HIDE DEF upTo, rank
  <2>3. QED
    BY <2>1, <2>2
<1>6. rank \in Injection(I, 1 .. n)
  <2>1. rank \in [ I -> 1 .. n ]
    BY <1>4
  <2> HIDE DEF rank
  <2>2. QED
    BY <1>5, <2>1 DEF Injection, IsInjective
<1> DEFINE N == 1 .. n
<1>7. rank \in Surjection(I, N)
  <2>1. Cardinality(I) = Cardinality(N) /\ IsFiniteSet(N) /\ rank \in Injection(I, N)
    BY <1>1, <1>6
  <2> HIDE DEF rank, N, n
  <2>2. QED
    BY <2>1, FS_Injection
<1>8. \A k \in 1 .. n : b[k] \in I /\ rank[b[k]] = k
  <2> SUFFICES ASSUME NEW k \in 1 .. n PROVE b[k] \in I /\ rank[b[k]] = k
    OBVIOUS
  <2>1. \E i \in I : Cardinality(upTo(i)) = k
    BY <1>7 DEF Surjection
  <2> HIDE DEF upTo
  <2>2. QED
    BY <2>1
<1>9. b \in [ 1 .. n -> I ]
  BY <1>8
<1>10. b \in Injection(1 .. n, I)
  <2> HIDE DEF b, rank, n
  <2>1. QED
    BY <1>8, <1>9 DEF Injection, IsInjective
<1>11. b \in Surjection(1 .. n, I)
  <2>1. Cardinality(N) = Cardinality(I) /\ IsFiniteSet(I) /\ b \in Injection(N, I)
    BY <1>1, <1>10
  <2> HIDE DEF b, N, n
  <2>2. QED
    BY <2>1, FS_Injection DEF N
<1>12. b \in Bijection(1 .. n, I)
  BY <1>10, <1>11 DEF Bijection
<1>13. Ordered(seq, I, key) = [ k \in 1 .. n |-> seq[b[k]] ]
  BY DEF Ordered
<1>14. QED
  BY <1>12, <1>13

\* The places of seq among I where an element of Good is.
Hits(seq, I, Good) == { i \in I : seq[i] \in Good }

\* Counting in a sorted list is counting among its elements.
LEMMA OrderedCounts ==
    ASSUME NEW seq, NEW I \in SUBSET Nat, IsFiniteSet(I), NEW key \in [ I -> Int ],
           NEW Good
    PROVE  LET o == Ordered(seq, I, key) IN
           /\ DOMAIN o = 1 .. Cardinality(I) /\ Cardinality(I) \in Nat
           /\ \A k \in DOMAIN o : \E i \in I : o[k] = seq[i]
           /\ \A i \in I : \E k \in DOMAIN o : o[k] = seq[i]
           /\ Cardinality(Hits(o, DOMAIN o, Good)) = Cardinality(Hits(seq, I, Good))
           /\ IsFiniteSet(Hits(o, DOMAIN o, Good))
<1> DEFINE n == Cardinality(I)
           o == Ordered(seq, I, key)
           K == { k \in 1 .. n : o[k] \in Good }
           A == { i \in I : seq[i] \in Good }
<1>1. DOMAIN o = 1 .. n /\ \E b \in Bijection(1 .. n, I) : \A k \in 1 .. n : o[k] = seq[b[k]]
  BY OrderedIs
<1>0. PICK b \in Bijection(1 .. n, I) : \A k \in 1 .. n : o[k] = seq[b[k]]
  BY <1>1
<1>2. /\ b \in [ 1 .. n -> I ] /\ \A i \in I : \E k \in 1 .. n : b[k] = i
      /\ \A j, k \in 1 .. n : b[j] = b[k] => j = k
  BY DEF Bijection, Injection, IsInjective, Surjection
<1>3. n \in Nat
  BY FS_CardinalityType
<1> HIDE DEF n, o
<1>4. DOMAIN o = 1 .. n /\ \A k \in 1 .. n : o[k] = seq[b[k]]
  BY <1>0, <1>1
<1> DEFINE c == [ k \in K |-> b[k] ]
<1>5. c \in [ K -> A ]
  BY <1>2, <1>4
<1>6. c \in Injection(K, A)
  <2>1. \A j, k \in K : c[j] = c[k] => j = k
    BY <1>2
  <2> HIDE DEF c, K, A
  <2>2. QED
    BY <1>5, <2>1 DEF Injection, IsInjective
<1>7. c \in Surjection(K, A)
  <2>1. \A i \in A : \E k \in K : c[k] = i
    <3> SUFFICES ASSUME NEW i \in A PROVE \E k \in K : c[k] = i
      OBVIOUS
    <3>1. PICK k \in 1 .. n : b[k] = i
      BY <1>2
    <3>2. k \in K
      BY <1>4, <3>1
    <3>3. QED
      BY <3>1, <3>2
  <2> HIDE DEF c, K, A
  <2>2. QED
    BY <1>5, <2>1 DEF Surjection
<1>8. IsFiniteSet(K)
  <2>1. IsFiniteSet(1 .. n) /\ K \in SUBSET (1 .. n)
    BY <1>3, FS_Interval
  <2> HIDE DEF K
  <2>2. QED
    BY <2>1, FS_Subset
<1>9. Cardinality(A) = Cardinality(K)
  <2> HIDE DEF c, K, A
  <2>1. c \in Bijection(K, A)
    BY <1>6, <1>7 DEF Bijection
  <2>2. ExistsBijection(K, A)
    BY <2>1 DEF ExistsBijection
  <2>3. QED
    BY <1>8, <2>2, FS_Bijection
<1>10. K = Hits(o, DOMAIN o, Good) /\ A = Hits(seq, I, Good)
  BY <1>4 DEF Hits
<1>11. \A k \in DOMAIN o : \E i \in I : o[k] = seq[i]
  BY <1>2, <1>4
<1>12. \A i \in I : \E k \in DOMAIN o : o[k] = seq[i]
  BY <1>2, <1>4
<1> HIDE DEF K, A
<1>13. QED
  BY <1>3, <1>4, <1>8, <1>9, <1>10, <1>11, <1>12 DEF n, o

----------------------------------------------------------------------------
\* What derive() makes of a snapshot.

Fields == { "packages", "nodes", "routes", "distance", "riders", "vehicles", "merchants",
            "regions", "events", "attempts", "now", "shipments", "hubs", "stats", "exceptions" }

LEMMA DeriveKeeps ==
    ASSUME NEW b, Fields \subseteq DOMAIN b
    PROVE  LET c == WithShipments(b)
               e == WithStats(c)
               d == Derive(b)
           IN  /\ Fields \subseteq DOMAIN d
               /\ \A x \in Fields \ { "shipments", "hubs", "stats", "exceptions" } :
                     d[x] = b[x] /\ e[x] = b[x] /\ c[x] = b[x]
               /\ d.shipments = Shipments(b) /\ e.shipments = d.shipments /\ c.shipments = d.shipments
               /\ d.hubs = [ n \in HubNodes(c) |-> HubStats(c, n) ] /\ e.hubs = d.hubs
               /\ d.stats = [ r \in DOMAIN c.riders |-> RiderStats(c, r) ] /\ e.stats = d.stats
               /\ d.exceptions = Exceptions(e)
<1> DEFINE c == WithShipments(b)
           e == WithStats(c)
<1>1. /\ DOMAIN c = DOMAIN b /\ c.shipments = Shipments(b)
      /\ \A x \in Fields \ { "shipments" } : c[x] = b[x]
  BY DEF WithShipments, Fields
<1>2. /\ DOMAIN e = DOMAIN b /\ e.hubs = [ n \in HubNodes(c) |-> HubStats(c, n) ]
      /\ e.stats = [ r \in DOMAIN c.riders |-> RiderStats(c, r) ]
      /\ \A x \in Fields \ { "hubs", "stats" } : e[x] = c[x]
  BY <1>1 DEF WithStats, Fields
<1>3. /\ DOMAIN Derive(b) = DOMAIN b /\ Derive(b).exceptions = Exceptions(e)
      /\ \A x \in Fields \ { "exceptions" } : Derive(b)[x] = e[x]
  BY <1>2 DEF Derive, WithExceptions, Fields
<1> HIDE DEF c, e
<1>4. /\ Derive(b).shipments = Shipments(b) /\ e.shipments = Shipments(b)
      /\ Derive(b).hubs = e.hubs /\ Derive(b).stats = e.stats
  BY <1>1, <1>2, <1>3 DEF Fields
<1>5. \A x \in Fields \ { "shipments", "hubs", "stats", "exceptions" } :
        Derive(b)[x] = b[x] /\ e[x] = b[x] /\ c[x] = b[x]
  BY <1>1, <1>2, <1>3
<1>6. QED
  BY <1>1, <1>2, <1>3, <1>4, <1>5 DEF c, e

\* Parcels, hubs, riders and the list are made of these and of nothing else.
Same(x, y) ==
    /\ y.packages = x.packages /\ y.nodes = x.nodes /\ y.routes = x.routes
    /\ y.distance = x.distance /\ y.regions = x.regions
    /\ y.events = x.events /\ y.attempts = x.attempts /\ y.now = x.now

LEMMA SameParcel ==
    ASSUME NEW x, NEW y, Same(x, y), NEW p
    PROVE  Described(y, p) = Described(x, p)
<1>1. /\ y.packages = x.packages /\ y.nodes = x.nodes /\ y.distance = x.distance
      /\ y.events = x.events /\ y.attempts = x.attempts /\ y.now = x.now /\ y.regions = x.regions
  BY DEF Same
<1>2. EventsOf(y, p) = EventsOf(x, p) /\ AttemptsOf(y, p) = AttemptsOf(x, p)
  BY <1>1 DEF EventsOf, AttemptsOf
<1>3. EffectiveNode(y, p) = EffectiveNode(x, p)
  BY <1>1, <1>2 DEF EffectiveNode
<1>4. \A n : NodeOrNull(y, n) = NodeOrNull(x, n)
  BY <1>1 DEF NodeOrNull
<1>5. \A n : RegionOfNode(y, n) = RegionOfNode(x, n)
  BY <1>1 DEF RegionOfNode
<1>6. \A pkg : HoursToSla(y, pkg) = HoursToSla(x, pkg)
  BY <1>1 DEF HoursToSla
<1>7. \A pkg : SlaOf(y, pkg) = SlaOf(x, pkg)
  BY <1>6 DEF SlaOf
<1>8. \A n, m : DistanceKm(y, n, m) = DistanceKm(x, n, m)
  BY <1>1 DEF DistanceKm
<1>9. QED
  BY <1>1, <1>2, <1>3, <1>4, <1>5, <1>6, <1>7, <1>8 DEF Described

LEMMA SameRisk ==
    ASSUME NEW x, NEW y, y.routes = x.routes, y.nodes = x.nodes, NEW s
    PROVE  RiskScore(y, s) = RiskScore(x, s)
<1>1. Hardship(y, s) = Hardship(x, s)
  BY DEF Hardship
<1>2. QED
  BY <1>1 DEF RiskScore

LEMMA SameShipments ==
    ASSUME NEW x, NEW y, Same(x, y)
    PROVE  /\ \A p : ShipmentOf(y, p) = ShipmentOf(x, p)
           /\ Shipments(y) = Shipments(x)
<1>1. \A p : ShipmentOf(y, p) = ShipmentOf(x, p)
  BY SameParcel, SameRisk DEF ShipmentOf, Same
<1>2. QED
  BY <1>1 DEF Shipments, Same

LEMMA SameHub ==
    ASSUME NEW x, NEW y, y.shipments = x.shipments, y.nodes = x.nodes, y.routes = x.routes,
           y.riders = x.riders, y.vehicles = x.vehicles, y.regions = x.regions, y.now = x.now,
           NEW n
    PROVE  HubStats(y, n) = HubStats(x, n)
<1>1. RegionOfNode(y, n) = RegionOfNode(x, n)
  BY DEF RegionOfNode
<1>2. QED
  BY <1>1 DEF HubStats

LEMMA SameRider ==
    ASSUME NEW x, NEW y, y.shipments = x.shipments, y.nodes = x.nodes, y.riders = x.riders,
           y.attempts = x.attempts, NEW r
    PROVE  RiderStats(y, r) = RiderStats(x, r)
<1>1. \A n : NodeOrNull(y, n) = NodeOrNull(x, n)
  BY DEF NodeOrNull
<1>2. SelectSeq(y.attempts, LAMBDA a : a.rider = r) = SelectSeq(x.attempts, LAMBDA a : a.rider = r)
  OBVIOUS
<1>3. QED
  BY <1>1, <1>2 DEF RiderStats

LEMMA SameList ==
    ASSUME NEW x, NEW y, y.shipments = x.shipments, y.hubs = x.hubs, y.stats = x.stats,
           y.routes = x.routes, y.vehicles = x.vehicles, y.now = x.now
    PROVE  Exceptions(y) = Exceptions(x)
<1>1. \A s : Breach(y, s) = Breach(x, s) /\ Stuck(y, s) = Stuck(x, s)
  BY DEF Breach, Stuck
<1>2. ShipmentItems(y) = ShipmentItems(x)
  BY <1>1 DEF ShipmentItems
<1>3. HubItems(y) = HubItems(x)
  BY DEF HubItems, Hubs
<1>4. CityItems(y) = CityItems(x)
  BY DEF CityItems
<1>5. RiderItems(y) = RiderItems(x)
  BY DEF RiderItems
<1>6. RouteItems(y) = RouteItems(x) /\ VehicleItems(y) = VehicleItems(x)
  BY DEF RouteItems, VehicleItems
<1>7. QED
  BY <1>2, <1>3, <1>4, <1>5, <1>6 DEF Exceptions

----------------------------------------------------------------------------
\* Parcels.

LEMMA PointsIs ==
    ASSUME NEW c, NEW n \in Nat
    PROVE  Points(c, n) \in 0 .. n
<1>1. QED
  BY DEF Points

LEMMA HardshipIs ==
    ASSUME NEW b, NEW s
    PROVE  Hardship(b, s) \in Nat
<1>1. DeadlineRisk(s.hoursToSla) \in Nat
  BY DEF DeadlineRisk, Points
<1> DEFINE deadline == DeadlineRisk(s.hoursToSla)
<1> HIDE DEF deadline
<1>2. QED
  BY <1>1 DEF Hardship, Points, deadline

LEMMA RiskIs ==
    ASSUME NEW b, NEW s
    PROVE  RiskScore(b, s) \in 0 .. 100
<1> DEFINE score == Hardship(b, s)
<1>1. score \in Nat
  BY HardshipIs
<1> HIDE DEF score
<1>2. Min({ 100, score }) = IF 100 <= score THEN 100 ELSE score
  BY <1>1, MinIs
<1>3. Capped(score) \in 0 .. 100
  BY <1>1, <1>2 DEF Capped
<1>4. QED
  BY <1>3 DEF RiskScore, score

LEMMA ShipmentIs ==
    ASSUME NEW b, NEW p
    PROVE  LET s == ShipmentOf(b, p) IN
           /\ s.id = p /\ s.status = b.packages[p].status
           /\ s.isActive = (s.status \notin TerminalStatuses)
           /\ s.group = StatusGroup(s.status)
           /\ s.sla = SlaOf(b, b.packages[p])
           /\ s.currentNode = NodeOrNull(b, EffectiveNode(b, p))
           /\ s.riskScore = RiskScore(b, Described(b, p))
           /\ s.riskScore \in 0 .. 100
<1> DEFINE d == Described(b, p)
<1>1. /\ d.id = p /\ d.status = b.packages[p].status
      /\ d.isActive = (d.status \notin TerminalStatuses)
      /\ d.group = StatusGroup(d.status)
      /\ d.sla = SlaOf(b, b.packages[p])
      /\ d.currentNode = NodeOrNull(b, EffectiveNode(b, p))
      /\ { "id", "status", "isActive", "group", "sla", "currentNode", "riskScore" } \subseteq DOMAIN d
  BY DEF Described
<1> HIDE DEF d
<1>2. RiskScore(b, d) \in 0 .. 100
  BY RiskIs
<1>3. QED
  BY <1>1, <1>2 DEF ShipmentOf, d

LEMMA ScalesAre ==
    ASSUME NEW b, NEW pkg
    PROVE  /\ SlaOf(b, pkg) \in SlaState
           /\ StatusGroup(pkg.status) \in DOMAIN Stages \cup { "lost" }
<1>1. SlaOf(b, pkg) \in SlaState
  <2> DEFINE hours == HoursToSla(b, pkg)
  <2> HIDE DEF hours
  <2>1. QED
    BY DEF SlaOf, SlaState, hours
<1>2. StatusGroup(pkg.status) \in DOMAIN Stages \cup { "lost" }
  <2>1. QED
    BY DEF StatusGroup
<1>3. QED
  BY <1>1, <1>2

LEMMA PlaceIs ==
    ASSUME NEW b, NEW n
    PROVE  NodeOrNull(b, n) \in DOMAIN b.nodes \cup { None }
  BY DEF NodeOrNull

\* Only the clock has moved on between x and y.
Waited(x, y) ==
    /\ y.packages = x.packages /\ y.nodes = x.nodes /\ y.routes = x.routes
    /\ y.distance = x.distance /\ y.regions = x.regions
    /\ y.events = x.events /\ y.attempts = x.attempts
    /\ x.now \in Nat /\ y.now \in Nat /\ x.now <= y.now

LEMMA HoursShrink ==
    ASSUME NEW x, NEW y, Waited(x, y), NEW pkg, pkg.expected \in Int \cup { None }
    PROVE  \/ HoursToSla(x, pkg) = None /\ HoursToSla(y, pkg) = None
           \/ /\ HoursToSla(x, pkg) \in Int /\ HoursToSla(y, pkg) \in Int
              /\ HoursToSla(y, pkg) <= HoursToSla(x, pkg)
  BY NullAssumption DEF HoursToSla, Waited

LEMMA DeadlineRiskGrows ==
    ASSUME NEW h, NEW k, \/ h = None /\ k = None
                         \/ h \in Int /\ k \in Int /\ k <= h
    PROVE  DeadlineRisk(h) <= DeadlineRisk(k)
  BY NullAssumption DEF DeadlineRisk, Points

\* Waiting changes of a parcel its age and the hours to its deadline.
LEMMA WaitingChanges ==
    ASSUME NEW x, NEW y, Waited(x, y), NEW p, x.packages[p].created \in Int
    PROVE  LET s == Described(x, p)
               t == Described(y, p)
           IN  /\ s.hoursToSla = HoursToSla(x, x.packages[p])
               /\ t.hoursToSla = HoursToSla(y, x.packages[p])
               /\ s.ageHours \in Int /\ t.ageHours \in Int /\ s.ageHours <= t.ageHours
               /\ t.isActive = s.isActive /\ t.status = s.status /\ t.group = s.group
               /\ t.attempts = s.attempts /\ t.currentNode = s.currentNode
               /\ t.destination = s.destination /\ t.priority = s.priority
               /\ t.codAmount = s.codAmount
<1>1. /\ y.packages = x.packages /\ y.nodes = x.nodes /\ y.attempts = x.attempts
      /\ y.events = x.events /\ x.now \in Nat /\ y.now \in Nat /\ x.now <= y.now
  BY DEF Waited
<1>2. AttemptsOf(y, p) = AttemptsOf(x, p)
  BY <1>1 DEF AttemptsOf
<1>3. EffectiveNode(y, p) = EffectiveNode(x, p)
  <2>1. EventsOf(y, p) = EventsOf(x, p)
    BY <1>1 DEF EventsOf
  <2>2. QED
    BY <1>1, <2>1 DEF EffectiveNode
<1>4. \A n : NodeOrNull(y, n) = NodeOrNull(x, n)
  BY <1>1 DEF NodeOrNull
<1>5. \A b : LET d == Described(b, p) pkg == b.packages[p] IN
          /\ d.hoursToSla = HoursToSla(b, pkg) /\ d.ageHours = b.now - pkg.created
          /\ d.status = pkg.status /\ d.isActive = (pkg.status \notin TerminalStatuses)
          /\ d.group = StatusGroup(pkg.status) /\ d.attempts = AttemptsOf(b, p)
          /\ d.currentNode = NodeOrNull(b, EffectiveNode(b, p))
          /\ d.destination = NodeOrNull(b, pkg.destination) /\ d.priority = pkg.priority
          /\ d.codAmount = CodAmount(pkg)
  BY DEF Described
<1> DEFINE d == Described(x, p)
           t == Described(y, p)
           pkg == x.packages[p]
<1>6. /\ d.hoursToSla = HoursToSla(x, pkg) /\ d.ageHours = x.now - pkg.created
      /\ d.status = pkg.status /\ d.isActive = (pkg.status \notin TerminalStatuses)
      /\ d.group = StatusGroup(pkg.status) /\ d.attempts = AttemptsOf(x, p)
      /\ d.currentNode = NodeOrNull(x, EffectiveNode(x, p))
      /\ d.destination = NodeOrNull(x, pkg.destination) /\ d.priority = pkg.priority
      /\ d.codAmount = CodAmount(pkg)
  BY <1>5
<1>7. /\ t.hoursToSla = HoursToSla(y, pkg) /\ t.ageHours = y.now - pkg.created
      /\ t.status = pkg.status /\ t.isActive = (pkg.status \notin TerminalStatuses)
      /\ t.group = StatusGroup(pkg.status) /\ t.attempts = AttemptsOf(x, p)
      /\ t.currentNode = NodeOrNull(x, EffectiveNode(x, p))
      /\ t.destination = NodeOrNull(x, pkg.destination) /\ t.priority = pkg.priority
      /\ t.codAmount = CodAmount(pkg)
  BY <1>1, <1>2, <1>3, <1>4, <1>5
<1> HIDE DEF d, t
<1>8. x.now - pkg.created \in Int /\ y.now - pkg.created \in Int
      /\ x.now - pkg.created <= y.now - pkg.created
  BY <1>1
<1>9. QED
  BY <1>6, <1>7, <1>8 DEF d, t

LEMMA WaitingRaisesRisk ==
    ASSUME NEW x, NEW y, Waited(x, y), NEW p, x.packages[p].created \in Int,
           x.packages[p].expected \in Int \cup { None }
    PROVE  ShipmentOf(x, p).riskScore <= ShipmentOf(y, p).riskScore
<1> DEFINE s == Described(x, p)
           t == Described(y, p)
<1>1. /\ s.ageHours \in Int /\ t.ageHours \in Int /\ s.ageHours <= t.ageHours
      /\ t.isActive = s.isActive /\ t.status = s.status /\ t.group = s.group
      /\ t.attempts = s.attempts /\ t.currentNode = s.currentNode
      /\ t.destination = s.destination /\ t.priority = s.priority
      /\ t.codAmount = s.codAmount
  BY WaitingChanges
<1>2. DeadlineRisk(s.hoursToSla) <= DeadlineRisk(t.hoursToSla)
  BY WaitingChanges, HoursShrink, DeadlineRiskGrows
<1>3. x.routes = y.routes /\ x.nodes = y.nodes
  BY DEF Waited
<1> HIDE DEF s, t
<1>4. Hardship(x, s) <= Hardship(y, t)
  <2> DEFINE near == DeadlineRisk(s.hoursToSla)
             nearer == DeadlineRisk(t.hoursToSla)
  <2>1. near \in Nat /\ nearer \in Nat /\ near <= nearer
    BY <1>2 DEF DeadlineRisk, Points
  <2> HIDE DEF near, nearer
  <2>2. QED
    BY <1>1, <1>3, <2>1 DEF Hardship, Points, near, nearer
<1>5. Capped(Hardship(x, s)) <= Capped(Hardship(y, t))
  <2> DEFINE a == Hardship(x, s)
             c == Hardship(y, t)
  <2>1. a \in Nat /\ c \in Nat /\ a <= c
    BY <1>4, HardshipIs
  <2> HIDE DEF a, c
  <2>2. /\ Min({ 100, a }) = IF 100 <= a THEN 100 ELSE a
        /\ Min({ 100, c }) = IF 100 <= c THEN 100 ELSE c
    BY <2>1, MinIs
  <2>3. QED
    BY <2>1, <2>2 DEF Capped, a, c
<1>6. RiskScore(x, s) <= RiskScore(y, t)
  BY <1>1, <1>5 DEF RiskScore
<1>7. QED
  BY <1>6, ShipmentIs DEF s, t

----------------------------------------------------------------------------
\* Hubs.

LEMMA HubCounts ==
    ASSUME NEW b, NEW n, IsFiniteSet(b.shipments), b.nodes[n].load \in Nat,
           \A r \in b.routes : r.source # r.destination
    PROVE  LET h == HubStats(b, n) IN
           /\ h.atHub = { s \in Active(b.shipments) : s.currentNode = n }
           /\ h.pending \cap h.outbound = {} /\ h.atHub \cap h.inbound = {}
           /\ h.slaRisk <= Cardinality(h.atHub) /\ h.load >= Cardinality(h.atHub)
<1> DEFINE h == HubStats(b, n)
           atHub == { s \in Active(b.shipments) : s.currentNode = n }
           outbound == { s \in atHub : s.status \in { "DISPATCHED", "OUT_FOR_DELIVERY" } }
           pending == { s \in atHub : s.status \in WaitingAtHub }
           sources == { r.source : r \in { x \in b.routes : x.destination = n } }
           inbound == { s \in Active(b.shipments) : /\ s.status \in { "DISPATCHED", "IN_TRANSIT" }
                                                    /\ s.currentNode \in sources }
           risky == { s \in pending \cup outbound : s.sla \in { "breached", "at_risk" } }
<1>1. /\ h.atHub = atHub /\ h.outbound = outbound /\ h.pending = pending /\ h.inbound = inbound
      /\ h.slaRisk = Cardinality(risky) /\ h.load = Max({ b.nodes[n].load, Cardinality(atHub) })
  BY DEF HubStats
<1>2. pending \cap outbound = {}
  BY DEF WaitingAtHub
<1>3. n \notin sources
  OBVIOUS
<1>4. atHub \cap inbound = {}
  BY <1>3
<1>5. IsFiniteSet(atHub)
  BY FS_Subset DEF Active
<1>6. Cardinality(atHub) \in Nat
  BY <1>5, FS_CardinalityType
<1>7. Cardinality(risky) <= Cardinality(atHub)
  <2>1. risky \in SUBSET atHub
    OBVIOUS
  <2>2. QED
    BY <1>5, <2>1, FS_Subset
<1> HIDE DEF atHub, risky
<1>8. Max({ b.nodes[n].load, Cardinality(atHub) }) >= Cardinality(atHub)
  BY <1>6, MaxIs
<1>9. QED
  BY <1>1, <1>2, <1>4, <1>7, <1>8 DEF atHub

----------------------------------------------------------------------------
\* The invariant.

Kept(pkg) ==
    /\ { "status", "node", "updated", "rider", "deliveredAt", "source", "destination", "merchant",
         "declared", "orderValue", "weight", "service", "created", "expected" } \subseteq DOMAIN pkg
    /\ pkg.status \in PackageStatus
    /\ pkg.source \in DOMAIN Nodes /\ pkg.destination \in DOMAIN Nodes
    /\ pkg.rider \in Rider \cup { None } /\ pkg.merchant \in Merchant
    /\ pkg.declared \in Nat \cup { None } /\ pkg.orderValue \in Nat \cup { None }
    /\ pkg.weight \in Nat /\ pkg.service \in DOMAIN BaseFee
    /\ pkg.created \in Int /\ pkg.created <= 0
    /\ pkg.expected \in Int \cup { None } /\ pkg.deliveredAt \in Int \cup { None }
    /\ pkg.status = "DELIVERED" <=> pkg.deliveredAt # None
    /\ pkg.deliveredAt # None => pkg.created <= pkg.deliveredAt

\* An attempt made in a history that has come to now.
Attempt(now) ==
    [ package : Package, rider : Rider \cup { None }, number : Int,
      result : { "SUCCESS", "FAILED_ADDRESS_ISSUE", "FAILED_NO_RECIPIENT" }, timestamp : 0 .. now ]

\* What derive() is given: the data, over whatever it derived from earlier data.
Given(b) ==
    /\ Fields \subseteq DOMAIN b
    /\ b.nodes = Nodes /\ b.routes = Routes /\ b.distance = Distance
    /\ DOMAIN b.riders = Rider /\ b.merchants = Merchant
    /\ b.now \in 0 .. MaxNow
    /\ DOMAIN b.packages = Package /\ \A p \in Package : Kept(b.packages[p])
    /\ (\E E : b.events \in Seq(E)) /\ b.attempts \in Seq(Attempt(b.now))

\* What it makes of them.
Made(d) ==
    /\ d.shipments = Shipments(d)
    /\ d.hubs = [ n \in HubNodes(d) |-> HubStats(d, n) ]
    /\ d.stats = [ r \in Rider |-> RiderStats(d, r) ]
    /\ d.exceptions = Exceptions(d)

IInv == Given(snap) /\ Made(snap)

LEMMA DeriveMakes ==
    ASSUME NEW b, Given(b)
    PROVE  Given(Derive(b)) /\ Made(Derive(b))
<1> DEFINE d == Derive(b)
           c == WithShipments(b)
           e == WithStats(c)
<1>1. /\ Fields \subseteq DOMAIN d
      /\ \A x \in Fields \ { "shipments", "hubs", "stats", "exceptions" } :
           d[x] = b[x] /\ e[x] = b[x] /\ c[x] = b[x]
      /\ d.shipments = Shipments(b) /\ e.shipments = d.shipments /\ c.shipments = d.shipments
      /\ d.hubs = [ n \in HubNodes(c) |-> HubStats(c, n) ] /\ e.hubs = d.hubs
      /\ d.stats = [ r \in DOMAIN c.riders |-> RiderStats(c, r) ] /\ e.stats = d.stats
      /\ d.exceptions = Exceptions(e)
  BY DeriveKeeps DEF Given
<1> HIDE DEF c, d, e
<1>2. /\ d.packages = b.packages /\ d.now = b.now /\ d.nodes = b.nodes /\ d.routes = b.routes
      /\ d.distance = b.distance /\ d.regions = b.regions /\ d.events = b.events
      /\ d.attempts = b.attempts /\ d.riders = b.riders /\ d.vehicles = b.vehicles
      /\ d.merchants = b.merchants
  BY <1>1 DEF Fields
<1>3. /\ c.nodes = d.nodes /\ c.routes = d.routes /\ c.riders = d.riders
      /\ c.vehicles = d.vehicles /\ c.regions = d.regions /\ c.now = d.now
      /\ c.attempts = d.attempts /\ e.routes = d.routes /\ e.vehicles = d.vehicles
      /\ e.now = d.now
  BY <1>1 DEF Fields
<1>4. d.shipments = Shipments(d)
  BY <1>1, <1>2, SameShipments DEF Same
<1>5. \A n : HubStats(d, n) = HubStats(c, n)
  BY <1>1, <1>3, SameHub
<1>6. \A r : RiderStats(d, r) = RiderStats(c, r)
  BY <1>1, <1>3, SameRider
<1>7. HubNodes(c) = HubNodes(d) /\ DOMAIN c.riders = Rider
  BY <1>2, <1>3 DEF HubNodes, Given
<1>8. d.exceptions = Exceptions(d)
  BY <1>1, <1>3, SameList
<1>9. Made(d)
  BY <1>1, <1>4, <1>5, <1>6, <1>7, <1>8 DEF Made
<1>10. Given(d)
  BY <1>1, <1>2 DEF Given
<1>11. QED
  BY <1>9, <1>10 DEF d

LEMMA InitInv == Init => IInv
<1> SUFFICES ASSUME Init PROVE IInv
  OBVIOUS
<1> DEFINE b == [ packages |-> Start, nodes |-> Nodes, routes |-> Routes, distance |-> Distance,
                  riders |-> [ r \in Rider |-> [ status |-> "AVAILABLE", updated |-> 0,
                                                  node |-> RiderBase[r] ] ],
                  vehicles |-> << >>, merchants |-> Merchant, regions |-> TRUE,
                  events |-> << >>, attempts |-> << >>, now |-> 0,
                  shipments |-> {}, hubs |-> << >>, stats |-> << >>, exceptions |-> {} ]
<1>1. /\ Fields \subseteq DOMAIN b /\ b.nodes = Nodes /\ b.routes = Routes
      /\ b.distance = Distance /\ DOMAIN b.riders = Rider /\ b.merchants = Merchant
      /\ b.events = << >> /\ b.attempts = << >>
  BY DEF Fields
<1>2. b.now \in 0 .. MaxNow
  BY TimeAssumption
<1>3. b.packages = Start
  OBVIOUS
<1>4. snap = Derive(b)
  BY DEF Init
<1> HIDE DEF b
<1>5. \A p \in Package : Kept(Start[p])
  <2> SUFFICES ASSUME NEW p \in Package PROVE Kept(Start[p])
    OBVIOUS
  <2> DEFINE pkg == Start[p]
  <2>1. pkg \in Parcel
    BY StartAssumption
  <2>2. /\ pkg.created <= pkg.updated /\ pkg.updated <= 0
        /\ pkg.status = "DELIVERED" <=> pkg.deliveredAt # None
        /\ pkg.deliveredAt # None => pkg.created <= pkg.deliveredAt
    BY StartAssumption
  <2> HIDE DEF pkg
  <2>3. pkg.created \in Int /\ pkg.updated \in Int
    BY <2>1 DEF Parcel
  <2>4. pkg.created <= 0
    BY <2>2, <2>3
  <2>5. QED
    BY <2>1, <2>2, <2>3, <2>4 DEF Kept, Parcel, pkg
<1>6. Given(b)
  <2>1. << >> \in Seq({}) /\ << >> \in Seq(Attempt(b.now))
    OBVIOUS
  <2>2. QED
    BY <1>1, <1>2, <1>3, <1>5, <2>1, StartAssumption DEF Given
<1>7. QED
  BY <1>4, <1>6, DeriveMakes DEF IInv

\* A parcel's attempts are as many as its places in the list.
LEMMA CountedAttempts ==
    ASSUME NEW d, NEW A, d.attempts \in Seq(A), \A a \in A : a.number \in Int, NEW p
    PROVE  LET mine == PlacesOf(d.attempts, p)
           IN  /\ mine \in SUBSET Nat /\ IsFiniteSet(mine)
               /\ [ i \in mine |-> d.attempts[i].number ] \in [ mine -> Int ]
               /\ Len(AttemptsOf(d, p)) = Cardinality(mine) /\ Cardinality(mine) \in Nat
               /\ DOMAIN AttemptsOf(d, p) = 1 .. Cardinality(mine)
<1> DEFINE mine == PlacesOf(d.attempts, p)
           key == [ i \in mine |-> d.attempts[i].number ]
<1>1. Len(d.attempts) \in Nat /\ DOMAIN d.attempts = 1 .. Len(d.attempts)
      /\ \A i \in DOMAIN d.attempts : d.attempts[i] \in A
  OBVIOUS
<1>2. mine \in SUBSET (1 .. Len(d.attempts))
  BY <1>1 DEF PlacesOf
<1>3. IsFiniteSet(1 .. Len(d.attempts))
  BY <1>1, FS_Interval
<1> HIDE DEF mine
<1>4. mine \in SUBSET Nat /\ IsFiniteSet(mine) /\ Cardinality(mine) \in Nat
  <2>1. mine \in SUBSET Nat
    BY <1>2
  <2>2. IsFiniteSet(mine)
    BY <1>2, <1>3, FS_Subset
  <2>3. QED
    BY <2>1, <2>2, FS_CardinalityType
<1>5. key \in [ mine -> Int ]
  BY <1>1, <1>2
<1>6. AttemptsOf(d, p) = [ k \in 1 .. Cardinality(mine) |->
          d.attempts[CHOOSE i \in mine :
              Cardinality({ j \in mine : key[j] < key[i] \/ (key[j] = key[i] /\ j <= i) }) = k] ]
  BY DEF AttemptsOf, Ordered, mine
<1>7. Len(AttemptsOf(d, p)) = Cardinality(mine) /\ DOMAIN AttemptsOf(d, p) = 1 .. Cardinality(mine)
  BY <1>4, <1>6
<1>8. QED
  BY <1>4, <1>5, <1>7 DEF mine

\* What a move writes.
Moved(p, target) ==
    /\ snap'.now = snap.now /\ snap'.packages[p].status = target
    /\ snap'.packages[p].expected = snap.packages[p].expected
    /\ snap'.packages[p].updated = snap.now
    /\ target = "DELIVERED" => snap'.packages[p].deliveredAt = snap.now
    /\ \A q \in Package \ { p } : snap'.packages[q] = snap.packages[q]

LEMMA MoveStep ==
    ASSUME Given(snap), NEW p \in Package, NEW target \in PackageStatus, NEW rider \in Rider,
           NEW result \in Results(target), Move(p, target, rider, result)
    PROVE  IInv' /\ Moved(p, target)
<1> DEFINE pkg == snap.packages[p]
           node == ScanAt(pkg, target)
           number == Len(AttemptsOf(snap, p)) + 1
           moved == [pkg EXCEPT !.status = target, !.node = node, !.updated = snap.now,
                         !.rider = IF target = "OUT_FOR_DELIVERY" THEN rider ELSE @,
                         !.deliveredAt = IF target = "DELIVERED" THEN snap.now ELSE @]
           events == Append(snap.events, [package |-> p, node |-> node, status |-> target,
                                          timestamp |-> snap.now])
           attempts == IF result = None THEN snap.attempts
                       ELSE Append(snap.attempts,
                                   [package |-> p, rider |-> pkg.rider, number |-> number,
                                    result |-> result, timestamp |-> snap.now])
           b == [snap EXCEPT !.packages[p] = moved, !.events = events, !.attempts = attempts]
<1>1. snap' = Derive(b)
  BY DEF Move
<1>2. Kept(pkg) /\ snap.now \in Nat /\ snap.now \in 0 .. snap.now
  BY TimeAssumption DEF Given
<1>9. /\ moved = [ x \in DOMAIN pkg |-> moved[x] ]
      /\ moved.status = target /\ moved.updated = snap.now
      /\ moved.rider = IF target = "OUT_FOR_DELIVERY" THEN rider ELSE pkg.rider
      /\ moved.deliveredAt = IF target = "DELIVERED" THEN snap.now ELSE pkg.deliveredAt
      /\ \A x \in DOMAIN pkg \ { "status", "node", "updated", "rider", "deliveredAt" } :
           moved[x] = pkg[x]
  BY <1>2 DEF Kept
<1>10. { "source", "destination", "merchant", "declared", "orderValue", "weight", "service",
         "created", "expected" } \subseteq DOMAIN pkg
  BY <1>2 DEF Kept
<1> HIDE DEF moved
<1>11. /\ moved.source = pkg.source /\ moved.destination = pkg.destination
       /\ moved.merchant = pkg.merchant /\ moved.declared = pkg.declared
       /\ moved.orderValue = pkg.orderValue /\ moved.weight = pkg.weight
       /\ moved.service = pkg.service /\ moved.created = pkg.created
       /\ moved.expected = pkg.expected
  BY <1>9, <1>10
<1>12. pkg.status # "DELIVERED"
  <2>1. <<pkg.status, target>> \in Transitions
    BY DEF Move, IsValidTransition
  <2>2. QED
    BY <2>1 DEF Transitions
<1>3. /\ Kept(moved) /\ moved.status = target /\ moved.expected = pkg.expected
      /\ moved.updated = snap.now /\ (target = "DELIVERED" => moved.deliveredAt = snap.now)
  <2>1. pkg.deliveredAt = None
    BY <1>2, <1>12 DEF Kept
  <2>2. /\ moved.deliveredAt \in Int \cup { None }
        /\ moved.status = "DELIVERED" <=> moved.deliveredAt # None
        /\ moved.deliveredAt # None => moved.created <= moved.deliveredAt
    BY <1>2, <1>9, <1>11, <2>1, NullAssumption DEF Kept
  <2>3. moved.rider \in Rider \cup { None }
    BY <1>2, <1>9 DEF Kept
  <2>4. QED
    BY <1>2, <1>9, <1>11, <2>2, <2>3 DEF Kept
<1>13. \E E : events \in Seq(E)
  <2>1. PICK E : snap.events \in Seq(E)
    BY DEF Given
  <2> DEFINE new == [package |-> p, node |-> node, status |-> target, timestamp |-> snap.now]
  <2> HIDE DEF new
  <2>2. snap.events \in Seq(E \cup { new }) /\ new \in E \cup { new }
    BY <2>1
  <2>3. Append(snap.events, new) \in Seq(E \cup { new })
    BY <2>2
  <2>4. QED
    BY <2>3 DEF new
<1>14. attempts \in Seq(Attempt(snap.now))
  <2>1. CASE result = None
    BY <2>1 DEF Given
  <2>2. CASE result # None
    <3>1. number \in Int
      BY CountedAttempts DEF Given, Attempt
    <3>2. result \in { "SUCCESS", "FAILED_ADDRESS_ISSUE", "FAILED_NO_RECIPIENT" }
      <4>1. target = "DELIVERED" \/ target = "DELIVERY_FAILED"
        BY <2>2 DEF Results
      <4>2. QED
        BY <2>2, <4>1 DEF Results
    <3> HIDE DEF number
    <3> DEFINE new == [package |-> p, rider |-> pkg.rider, number |-> number,
                       result |-> result, timestamp |-> snap.now]
    <3>3. new \in Attempt(snap.now)
      BY <1>2, <3>1, <3>2 DEF Attempt, Kept
    <3> HIDE DEF new
    <3>4. snap.attempts \in Seq(Attempt(snap.now))
      BY DEF Given
    <3>5. Append(snap.attempts, new) \in Seq(Attempt(snap.now))
      BY <3>3, <3>4
    <3>6. QED
      BY <2>2, <3>5 DEF new, number
  <2>3. QED
    BY <2>1, <2>2
<1> HIDE DEF events, attempts
<1>4. /\ DOMAIN b = DOMAIN snap /\ b.packages = [snap.packages EXCEPT ![p] = moved]
      /\ b.nodes = snap.nodes /\ b.routes = snap.routes /\ b.riders = snap.riders /\ b.now = snap.now
      /\ b.distance = snap.distance /\ b.merchants = snap.merchants
      /\ b.events = events /\ b.attempts = attempts
  BY DEF Given, Fields
<1> HIDE DEF b
<1>5. Given(b)
  BY <1>3, <1>4, <1>13, <1>14 DEF Given
<1>6. snap'.packages = b.packages /\ snap'.now = b.now
  <2>1. \A x \in Fields \ { "shipments", "hubs", "stats", "exceptions" } : snap'[x] = b[x]
    BY <1>1, <1>5, DeriveKeeps DEF Given
  <2>2. QED
    BY <2>1 DEF Fields
<1>7. IInv'
  BY <1>1, <1>5, DeriveMakes DEF IInv
<1>8. Moved(p, target)
  BY <1>3, <1>4, <1>6 DEF Moved, Given
<1>15. QED
  BY <1>7, <1>8

LEMMA PassStep ==
    ASSUME Given(snap), NEW hours \in Hops, Pass(hours)
    PROVE  IInv' /\ Waited(snap, snap')
<1> DEFINE b == [snap EXCEPT !.now = @ + hours]
<1>1. snap' = Derive(b) /\ snap.now + hours <= MaxNow
  BY DEF Pass
<1>2. /\ DOMAIN b = DOMAIN snap /\ b.now = snap.now + hours
      /\ \A x \in Fields \ { "now" } : b[x] = snap[x]
  BY DEF Given, Fields
<1>3. b.now \in 0 .. MaxNow /\ snap.now \in Nat /\ snap.now <= b.now
  BY <1>1, <1>2, TimeAssumption DEF Given
<1> HIDE DEF b
<1>4. Given(b)
  <2>1. Attempt(snap.now) \subseteq Attempt(b.now)
    BY <1>3 DEF Attempt
  <2>2. b.attempts \in Seq(Attempt(b.now))
    BY <1>2, <2>1 DEF Given, Fields
  <2>3. QED
    BY <1>2, <1>3, <2>2 DEF Given, Fields
<1>5. IInv'
  BY <1>1, <1>4, DeriveMakes DEF IInv
<1>6. /\ snap'.packages = b.packages /\ snap'.now = b.now /\ snap'.nodes = b.nodes
      /\ snap'.routes = b.routes /\ snap'.distance = b.distance /\ snap'.regions = b.regions
      /\ snap'.events = b.events /\ snap'.attempts = b.attempts
  <2>1. \A x \in Fields \ { "shipments", "hubs", "stats", "exceptions" } : snap'[x] = b[x]
    BY <1>1, <1>4, DeriveKeeps DEF Given
  <2>2. QED
    BY <2>1 DEF Fields
<1>7. Waited(snap, snap')
  BY <1>2, <1>3, <1>6, TimeAssumption DEF Waited, Fields
<1>8. QED
  BY <1>5, <1>7

LEMMA StepInv == IInv /\ [Next]_snap => IInv'
<1> SUFFICES ASSUME IInv, [Next]_snap PROVE IInv'
  OBVIOUS
<1>1. CASE MoveAny
  BY <1>1, MoveStep DEF MoveAny, IInv
<1>2. CASE PassAny
  BY <1>2, PassStep DEF PassAny, IInv
<1>3. CASE UNCHANGED snap
  BY <1>3 DEF IInv, Given, Made
<1>4. QED
  BY <1>1, <1>2, <1>3 DEF Next

----------------------------------------------------------------------------
\* What is in a snapshot.

LEMMA ParcelsAre ==
    ASSUME NEW d, Given(d), Made(d)
    PROVE  /\ IsFiniteSet(d.shipments)
           /\ \A s \in d.shipments :
               /\ s.id \in Package /\ s = ShipmentOf(d, s.id)
               /\ s.sla \in SlaState /\ s.riskScore \in 0 .. 100
               /\ s.group \in DOMAIN Stages \cup { "lost" }
               /\ s.currentNode \in DOMAIN Nodes \cup { None }
           /\ \A p \in Package : ShipmentOf(d, p) \in d.shipments /\ ShipmentOf(d, p).id = p
<1>1. d.shipments = { ShipmentOf(d, p) : p \in Package }
  BY DEF Given, Made, Shipments
<1>2. IsFiniteSet(d.shipments)
  <2> DEFINE f == [ p \in Package |-> ShipmentOf(d, p) ]
  <2>1. f \in Surjection(Package, d.shipments)
    BY <1>1 DEF Surjection
  <2>2. QED
    BY <2>1, SizeAssumption, FS_Surjection
<1>3. ASSUME NEW s \in d.shipments
      PROVE  /\ s.id \in Package /\ s = ShipmentOf(d, s.id)
             /\ s.sla \in SlaState /\ s.riskScore \in 0 .. 100
             /\ s.group \in DOMAIN Stages \cup { "lost" }
             /\ s.currentNode \in DOMAIN Nodes \cup { None }
  <2>1. PICK p \in Package : s = ShipmentOf(d, p)
    BY <1>1
  <2>2. /\ s.id = p /\ s.sla = SlaOf(d, d.packages[p]) /\ s.riskScore \in 0 .. 100
        /\ s.status = d.packages[p].status /\ s.group = StatusGroup(s.status)
        /\ s.currentNode = NodeOrNull(d, EffectiveNode(d, p))
    BY <2>1, ShipmentIs
  <2>3. s.sla \in SlaState /\ s.group \in DOMAIN Stages \cup { "lost" }
    BY <2>2, ScalesAre
  <2>4. s.currentNode \in DOMAIN Nodes \cup { None }
    BY <2>2, PlaceIs DEF Given
  <2>5. QED
    BY <2>1, <2>2, <2>3, <2>4
<1>4. \A p \in Package : ShipmentOf(d, p) \in d.shipments /\ ShipmentOf(d, p).id = p
  BY <1>1, ShipmentIs
<1>5. QED
  BY <1>2, <1>3, <1>4

LEMMA HubsAre ==
    ASSUME NEW d, Given(d), Made(d), NEW n \in DOMAIN d.hubs
    PROVE  LET h == d.hubs[n] IN
           /\ n \in DOMAIN Nodes /\ h = HubStats(d, n)
           /\ h.atHub = { s \in Active(d.shipments) : s.currentNode = n }
           /\ h.pending \cap h.outbound = {} /\ h.atHub \cap h.inbound = {}
           /\ h.slaRisk <= Cardinality(h.atHub) /\ h.load >= Cardinality(h.atHub)
<1>1. n \in DOMAIN Nodes /\ d.hubs[n] = HubStats(d, n)
  BY DEF Given, Made, HubNodes
<1>2. d.nodes[n].load \in Nat /\ \A r \in d.routes : r.source # r.destination
  BY <1>1, NetworkAssumption DEF Given
<1>3. QED
  BY <1>1, <1>2, ParcelsAre, HubCounts

----------------------------------------------------------------------------
\* What a late parcel can become, and how a parcel's risk moves.

LEMMA LateStaysLate ==
    ASSUME Given(snap), NEW p \in Package, SlaOf(snap, snap.packages[p]) = "breached",
           Given(snap'), [Next]_snap
    PROVE  SlaOf(snap', snap'.packages[p]) \in { "breached", "missed", "n_a" }
<1> DEFINE pkg == snap.packages[p]
           pkg2 == snap'.packages[p]
<1>1. /\ pkg.status \notin TerminalStatuses /\ pkg.expected \in Int /\ snap.now \in Nat
      /\ pkg.expected < snap.now
  <2>1. HoursToSla(snap, pkg) # None /\ HoursToSla(snap, pkg) < 0 /\ pkg.status # "DELIVERED"
    BY DEF SlaOf
  <2>2. pkg.expected \in Int \cup { None } /\ snap.now \in Nat
    BY TimeAssumption DEF Given, Kept
  <2>3. QED
    BY <2>1, <2>2 DEF HoursToSla
<1>2. ASSUME pkg2.expected = pkg.expected, snap'.now \in Nat, snap.now <= snap'.now,
             pkg2.status # "DELIVERED"
      PROVE  SlaOf(snap', pkg2) \in { "breached", "missed", "n_a" }
  <2>1. HoursToSla(snap', pkg2) = None \/ HoursToSla(snap', pkg2) < 0
    BY <1>1, <1>2, NullAssumption DEF HoursToSla
  <2>2. QED
    BY <1>2, <2>1 DEF SlaOf
<1>3. ASSUME NEW q \in Package, NEW target \in PackageStatus, Moved(q, target)
      PROVE  SlaOf(snap', pkg2) \in { "breached", "missed", "n_a" }
  <2>1. CASE p # q
    <3>1. pkg2 = pkg /\ snap'.now = snap.now
      BY <1>3, <2>1 DEF Moved
    <3>2. QED
      BY <1>1, <1>2, <3>1 DEF TerminalStatuses
  <2>2. CASE p = q /\ target # "DELIVERED"
    BY <1>1, <1>2, <1>3, <2>2 DEF Moved
  <2>3. CASE p = q /\ target = "DELIVERED"
    <3>1. pkg2.status = "DELIVERED" /\ pkg2.deliveredAt = snap.now /\ pkg2.expected = pkg.expected
      BY <1>3, <2>3 DEF Moved
    <3>2. ~(pkg2.deliveredAt <= pkg2.expected)
      BY <1>1, <3>1
    <3>3. QED
      BY <3>1, <3>2 DEF SlaOf
  <2>4. QED
    BY <2>1, <2>2, <2>3
<1>4. CASE MoveAny
  BY <1>3, <1>4, MoveStep DEF MoveAny
<1>5. CASE PassAny
  <2>1. Waited(snap, snap')
    BY <1>5, PassStep DEF PassAny
  <2>2. QED
    BY <1>1, <1>2, <2>1 DEF Waited, TerminalStatuses
<1>6. CASE UNCHANGED snap
  BY <1>1, <1>2, <1>6 DEF TerminalStatuses
<1>7. QED
  BY <1>4, <1>5, <1>6 DEF Next

LEMMA RiskOnlyRises ==
    ASSUME Given(snap), [Next]_snap, snap'.packages = snap.packages, NEW p \in Package
    PROVE  ShipmentOf(snap', p).riskScore >= ShipmentOf(snap, p).riskScore
<1>1. snap.now \in Nat /\ snap.packages[p].created \in Int
      /\ snap.packages[p].expected \in Int \cup { None }
  BY TimeAssumption DEF Given, Kept
<1>2. CASE MoveAny
  <2>1. PICK q \in Package, target \in PackageStatus, rider \in Rider :
            \E result \in Results(target) : Move(q, target, rider, result)
    BY <1>2 DEF MoveAny
  <2>2. Moved(q, target) /\ snap.packages[q].updated < snap.now
    BY <2>1, MoveStep DEF Move
  <2>3. QED
    BY <1>1, <2>2 DEF Moved
<1>3. CASE PassAny
  <2>1. Waited(snap, snap')
    BY <1>3, PassStep DEF PassAny
  <2>2. ShipmentOf(snap, p).riskScore <= ShipmentOf(snap', p).riskScore
    BY <1>1, <2>1, WaitingRaisesRisk
  <2>3. ShipmentOf(snap, p).riskScore \in Nat /\ ShipmentOf(snap', p).riskScore \in Nat
    BY ShipmentIs
  <2>4. QED
    BY <2>2, <2>3
<1>4. CASE UNCHANGED snap
  <2>1. ShipmentOf(snap, p).riskScore \in Nat
    BY ShipmentIs
  <2>2. QED
    BY <1>4, <2>1
<1>5. QED
  BY <1>2, <1>3, <1>4 DEF Next

----------------------------------------------------------------------------
\* Simulated riders.

LEMMA RoundIs ==
    ASSUME NEW a \in Nat, NEW b \in Nat \ { 0 }
    PROVE  Round(a, b) \in Nat
  BY DEF Round

LEMMA MovableIs ==
    ASSUME NEW n \in Nat, NEW have \in Nat
    PROVE  Movable(n, have) \in 0 .. have
<1> DEFINE least == Min({ n, have })
<1>1. least = IF n <= have THEN n ELSE have
  BY MinIs
<1> HIDE DEF least
<1>2. Max({ 0, least }) = IF 0 >= least THEN 0 ELSE least
  BY <1>1, MaxIs
<1>3. QED
  BY <1>1, <1>2 DEF Movable, least

\* The arithmetic of SimulateRiderMove: n riders asked for, of those in the city they
\* leave and the city they go to, with their parcels.
Balanced(n, onFrom, onTo, toRisk, fromActive, fromRisk) ==
    LET m == Movable(n, onFrom)
        rescued == Min({ toRisk, Round(m * ParcelsPerRiderDay * 6, 10) })
        spare == Max({ 0, onFrom - m }) * ParcelsPerRiderDay - fromActive
        newly == IF spare >= 0 THEN 0 ELSE Min({ fromActive - fromRisk, Round(-spare, 2) })
    IN  /\ onTo + m + Max({ 0, onFrom - m }) = onTo + onFrom
        /\ Max({ 0, toRisk - rescued }) + rescued = toRisk
        /\ newly >= 0 /\ newly <= fromActive - fromRisk

LEMMA MoveBalances ==
    ASSUME NEW n \in Nat, NEW onFrom \in Nat, NEW onTo \in Nat, NEW toRisk \in Nat,
           NEW fromActive \in Nat, NEW fromRisk \in Nat, fromRisk <= fromActive
    PROVE  Balanced(n, onFrom, onTo, toRisk, fromActive, fromRisk)
<1> DEFINE m == Movable(n, onFrom)
           rescued == Min({ toRisk, Round(m * ParcelsPerRiderDay * 6, 10) })
           left == Max({ 0, onFrom - m })
           spare == left * ParcelsPerRiderDay - fromActive
           newly == IF spare >= 0 THEN 0 ELSE Min({ fromActive - fromRisk, Round(-spare, 2) })
<1>1. m \in 0 .. onFrom
  BY MovableIs
<1> HIDE DEF m
<1>2. left = onFrom - m
  BY <1>1, MaxIs
<1>3. Round(m * ParcelsPerRiderDay * 6, 10) \in Nat
  BY <1>1, RoundIs DEF ParcelsPerRiderDay
<1>4. rescued \in 0 .. toRisk
  BY <1>3, MinIs
<1> HIDE DEF rescued
<1>5. Max({ 0, toRisk - rescued }) + rescued = toRisk
  BY <1>4, MaxIs
<1> HIDE DEF left
<1>6. spare \in Int
  BY <1>1, <1>2 DEF ParcelsPerRiderDay
<1> HIDE DEF spare
<1>7. newly >= 0 /\ newly <= fromActive - fromRisk
  <2>1. CASE spare >= 0
    BY <2>1
  <2>2. CASE ~(spare >= 0)
    <3>1. Round(-spare, 2) \in Nat
      BY <1>6, <2>2, RoundIs
    <3>2. Min({ fromActive - fromRisk, Round(-spare, 2) })
            = IF fromActive - fromRisk <= Round(-spare, 2) THEN fromActive - fromRisk
              ELSE Round(-spare, 2)
      BY <3>1, MinIs
    <3>3. QED
      BY <2>2, <3>1, <3>2
  <2>3. QED
    BY <2>1, <2>2
<1>8. QED
  BY <1>1, <1>2, <1>5, <1>7 DEF Balanced, m, rescued, left, spare

\* What a simulation of n riders moved neither creates nor loses.
Conserved(b, from, to, n) ==
    LET active == Active(b.shipments)
        sim == SimulateRiderMove(b, from, to, n)
        now == SimulateRiderMove(b, from, to, 0)
    IN  /\ sim.toRiders + sim.fromRiders = now.toRiders + now.fromRiders
        /\ sim.toAtRisk + sim.rescued = Cardinality(AtRisk(InCity(active, to)))
        /\ sim.newlyAtRisk >= 0
        /\ sim.newlyAtRisk <= Cardinality(InCity(active, from) \ AtRisk(active))

LEMMA SimulationBalances ==
    ASSUME NEW b, IsFiniteSet(b.shipments), IsFiniteSet(DOMAIN b.riders),
           NEW from, NEW to, NEW n \in Nat
    PROVE  Conserved(b, from, to, n)
<1> DEFINE active == Active(b.shipments)
           on(city) == Cardinality({ r \in DOMAIN b.riders :
                                       RiderCity(b, r) = city /\ b.riders[r].status # "OFF_DUTY" })
           toRisk == Cardinality(AtRisk(InCity(active, to)))
           fromActive == Cardinality(InCity(active, from))
           fromRisk == Cardinality(AtRisk(InCity(active, from)))
           onFrom == on(from)
           onTo == on(to)
           rescued(m) == Min({ toRisk, Round(m * ParcelsPerRiderDay * 6, 10) })
           spare(m) == Max({ 0, onFrom - m }) * ParcelsPerRiderDay - fromActive
           newly(m) == IF spare(m) >= 0 THEN 0
                       ELSE Min({ fromActive - fromRisk, Round(-spare(m), 2) })
<1>1. ASSUME NEW k \in Nat
      PROVE  LET m == Movable(k, onFrom)
                 sim == SimulateRiderMove(b, from, to, k)
             IN  /\ sim.toRiders = onTo + m /\ sim.fromRiders = Max({ 0, onFrom - m })
                 /\ sim.rescued = rescued(m) /\ sim.toAtRisk = Max({ 0, toRisk - rescued(m) })
                 /\ sim.newlyAtRisk = newly(m)
  BY DEF SimulateRiderMove
<1>2. \A city : on(city) \in Nat
  <2> SUFFICES ASSUME NEW city PROVE on(city) \in Nat
    OBVIOUS
  <2>1. { r \in DOMAIN b.riders : RiderCity(b, r) = city /\ b.riders[r].status # "OFF_DUTY" }
            \in SUBSET DOMAIN b.riders
    OBVIOUS
  <2>2. QED
    BY <2>1, FS_Subset, FS_CardinalityType
<1>3. IsFiniteSet(active)
  BY FS_Subset DEF Active
<1>4. IsFiniteSet(InCity(active, from)) /\ IsFiniteSet(InCity(active, to))
  BY <1>3, FS_Subset DEF InCity
<1>5. /\ AtRisk(InCity(active, to)) \in SUBSET InCity(active, to)
      /\ AtRisk(InCity(active, from)) \in SUBSET InCity(active, from)
  BY DEF AtRisk
<1>6. toRisk \in Nat /\ fromActive \in Nat /\ fromRisk \in Nat /\ fromRisk <= fromActive
  BY <1>4, <1>5, FS_Subset, FS_CardinalityType
<1>7. Cardinality(InCity(active, from) \ AtRisk(active)) = fromActive - fromRisk
  <2>1. InCity(active, from) \cap AtRisk(active) = AtRisk(InCity(active, from))
    BY DEF InCity, AtRisk
  <2>2. IsFiniteSet(InCity(active, from))
    BY <1>4
  <2> HIDE DEF active
  <2>3. Cardinality(InCity(active, from) \ AtRisk(active))
          = Cardinality(InCity(active, from)) - Cardinality(InCity(active, from) \cap AtRisk(active))
    BY <2>2, FS_Difference
  <2>4. QED
    BY <2>1, <2>3
<1> HIDE DEF active, on, toRisk, fromActive, fromRisk
<1>8. ASSUME NEW k \in Nat
      PROVE  LET m == Movable(k, onFrom) IN
             /\ onTo + m + Max({ 0, onFrom - m }) = onTo + onFrom
             /\ Max({ 0, toRisk - rescued(m) }) + rescued(m) = toRisk
             /\ newly(m) >= 0 /\ newly(m) <= fromActive - fromRisk
  <2>1. onFrom \in Nat /\ onTo \in Nat
    BY <1>2
  <2> HIDE DEF onFrom, onTo
  <2>2. Balanced(k, onFrom, onTo, toRisk, fromActive, fromRisk)
    BY <1>6, <2>1, MoveBalances
  <2>3. QED
    BY <2>2 DEF Balanced
<1> HIDE DEF onFrom, onTo, rescued, newly
<1>9. QED
  BY <1>1, <1>7, <1>8 DEF Conserved, active, toRisk

----------------------------------------------------------------------------
\* The exceptions list.

LEMMA ItemIs ==
    ASSUME NEW kind, NEW entity, NEW type, NEW priority, NEW at, NEW shipment
    PROVE  LET e == Item(kind, entity, type, priority, at, shipment)
           IN  e.id[1] = kind /\ e.id[2] = entity /\ e.type = type /\ e.shipment = shipment
  BY DEF Item

\* What the list says of a parcel, a hub or a rider.
LEMMA ItemsAre ==
    ASSUME NEW d, NEW e \in Exceptions(d)
    PROVE  /\ e.type = "SLA_BREACH" \/ e.id[1] = "sla" =>
                \E s \in Active(d.shipments) : s.sla = "breached" /\ e.shipment = s.id /\ e.id[2] = s.id
           /\ e.shipment # None => \E s \in Active(d.shipments) : e.shipment = s.id
           /\ e.id[1] = "hub" =>
                \E h \in Hubs(d) : /\ e.id[2] = h.id
                                   /\ \/ h.health = "critical"
                                      \/ h.health = "warning" /\ Cardinality(h.pending) > 10
           /\ e.id[1] = "riderload" =>
                \E r \in Range(d.stats) : e.id[2] = r.id /\ r.workload = "overloaded"
<1>1. CASE e \in ShipmentItems(d)
  <2>1. PICK s \in Active(d.shipments) :
            e \in Breach(d, s) \cup Stuck(d, s) \cup AddressIssue(s) \cup CodDiscrepancy(s)
    BY <1>1 DEF ShipmentItems
  <2>2. CASE e \in Breach(d, s)
    <3>1. s.sla = "breached" /\ e.id[1] = "sla" /\ e.id[2] = s.id /\ e.type = "SLA_BREACH" /\ e.shipment = s.id
      BY <2>2, ItemIs DEF Breach
    <3>2. QED
      BY <2>1, <3>1
  <2>3. CASE e \in Stuck(d, s)
    <3>1. e.id[1] = "stuck" /\ e.type = "SHIPMENT_STUCK" /\ e.shipment = s.id
      BY <2>3, ItemIs DEF Stuck
    <3>2. QED
      BY <2>1, <3>1
  <2>4. CASE e \in AddressIssue(s)
    <3>1. e.id[1] = "addr" /\ e.type = "ADDRESS_ISSUE" /\ e.shipment = s.id
      BY <2>4, ItemIs DEF AddressIssue
    <3>2. QED
      BY <2>1, <3>1
  <2>5. CASE e \in CodDiscrepancy(s)
    <3>1. e.id[1] = "cod" /\ e.type = "COD_DISCREPANCY" /\ e.shipment = s.id
      BY <2>5, ItemIs DEF CodDiscrepancy
    <3>2. QED
      BY <2>1, <3>1
  <2>6. QED
    BY <2>1, <2>2, <2>3, <2>4, <2>5
<1>2. CASE e \in HubItems(d)
  <2>1. PICK h \in Hubs(d) :
            /\ \/ h.health = "critical"
               \/ h.health = "warning" /\ Cardinality(h.pending) > 10
            /\ e = Item("hub", h.id, "HUB_CONGESTION",
                        IF h.health = "critical" THEN "critical" ELSE "high", d.now, None)
    BY <1>2 DEF HubItems
  <2>2. e.id[1] = "hub" /\ e.id[2] = h.id /\ e.type = "HUB_CONGESTION" /\ e.shipment = None
    BY <2>1, ItemIs
  <2>3. QED
    BY <2>1, <2>2
<1>3. CASE e \in CityItems(d)
  <2>1. PICK city, priority :
            e = Item("failspike", city, "FAILED_DELIVERY_SPIKE", priority, d.now, None)
    BY <1>3 DEF CityItems
  <2>2. e.id[1] = "failspike" /\ e.type = "FAILED_DELIVERY_SPIKE" /\ e.shipment = None
    BY <2>1, ItemIs
  <2>3. QED
    BY <2>2
<1>4. CASE e \in RiderItems(d)
  <2>1. \/ \E r \in Range(d.stats) :
              /\ r.workload = "overloaded"
              /\ e = Item("riderload", r.id, "RIDER_INACTIVE", "medium", d.now, None)
        \/ \E r \in Range(d.stats) : e = Item("rider", r.id, "RIDER_INACTIVE", "low", r.lastActiveAt, None)
    BY <1>4 DEF RiderItems
  <2>2. \/ \E r \in Range(d.stats) :
              /\ r.workload = "overloaded"
              /\ e.id[1] = "riderload" /\ e.id[2] = r.id /\ e.type = "RIDER_INACTIVE" /\ e.shipment = None
        \/ e.id[1] = "rider" /\ e.type = "RIDER_INACTIVE" /\ e.shipment = None
    BY <2>1, ItemIs
  <2>3. QED
    BY <2>2
<1>5. CASE e \in RouteItems(d) \cup VehicleItems(d)
  <2>1. /\ e.id[1] \in { "route", "vehicle" } /\ e.type \in { "ROUTE_CONGESTION", "VEHICLE_ISSUE" }
        /\ e.shipment = None
    BY <1>5, ItemIs DEF RouteItems, VehicleItems
  <2>2. QED
    BY <2>1
<1>6. QED
  BY <1>1, <1>2, <1>3, <1>4, <1>5 DEF Exceptions

LEMMA ListHas ==
    ASSUME NEW d
    PROVE  /\ \A s \in Active(d.shipments) : s.sla = "breached" =>
                \E e \in Exceptions(d) : e.type = "SLA_BREACH" /\ e.shipment = s.id
           /\ \A h \in Hubs(d) : h.health = "critical" =>
                \E e \in Exceptions(d) : e.id[1] = "hub" /\ e.id[2] = h.id
<1>1. ASSUME NEW s \in Active(d.shipments), s.sla = "breached"
      PROVE  \E e \in Exceptions(d) : e.type = "SLA_BREACH" /\ e.shipment = s.id
  <2>1. \E e \in Breach(d, s) : e.type = "SLA_BREACH" /\ e.shipment = s.id
    BY <1>1, ItemIs DEF Breach
  <2>2. Breach(d, s) \subseteq Exceptions(d)
    BY DEF ShipmentItems, Exceptions
  <2>3. QED
    BY <2>1, <2>2
<1>2. ASSUME NEW h \in Hubs(d), h.health = "critical"
      PROVE  \E e \in Exceptions(d) : e.id[1] = "hub" /\ e.id[2] = h.id
  <2>1. Item("hub", h.id, "HUB_CONGESTION", IF h.health = "critical" THEN "critical" ELSE "high",
             d.now, None) \in HubItems(d)
    BY <1>2 DEF HubItems
  <2>2. HubItems(d) \subseteq Exceptions(d)
    BY DEF Exceptions
  <2>3. QED
    BY <2>1, <2>2, ItemIs
<1>3. QED
  BY <1>1, <1>2

----------------------------------------------------------------------------
\* The forecast.

\* The first day of a chart: the day of the oldest parcel, or an earlier one.
LEMMA FirstIs ==
    ASSUME NEW ships, IsFiniteSet(ships), \A s \in ships : s.createdAt \in Int, NEW back \in Int
    PROVE  LET start == Min({ s.createdAt : s \in ships } \cup { back })
           IN  /\ start \in Int /\ start <= back
               /\ \A s \in ships : start <= s.createdAt
<1> DEFINE starts == { s.createdAt : s \in ships } \cup { back }
           P == { T \in SUBSET ships : \E b \in Int : b <= back /\ \A s \in T : b <= s.createdAt }
<1>1. {} \in P
  <2>1. back \in Int /\ back <= back /\ \A s \in {} : back <= s.createdAt
    OBVIOUS
  <2>2. QED
    BY <2>1
<1>2. ASSUME NEW T \in P, NEW x \in ships \ T PROVE T \cup { x } \in P
  <2>1. PICK b \in Int : b <= back /\ \A s \in T : b <= s.createdAt
    OBVIOUS
  <2> DEFINE c == IF b <= x.createdAt THEN b ELSE x.createdAt
  <2>2. x.createdAt \in Int /\ \A s \in T : s.createdAt \in Int
    OBVIOUS
  <2>3. c \in Int /\ c <= back /\ \A s \in T \cup { x } : c <= s.createdAt
    BY <2>1, <2>2
  <2> HIDE DEF c
  <2>4. QED
    BY <2>3
<1> HIDE DEF P
<1>3. P \in SUBSET (SUBSET ships)
  BY DEF P
<1>4. ships \in P
  BY <1>1, <1>2, <1>3, SubsetInduction
<1>5. PICK b \in Int : b <= back /\ \A s \in ships : b <= s.createdAt
  BY <1>4 DEF P
<1>6. starts \in SUBSET Int /\ starts # {} /\ \A x \in starts : b <= x
  BY <1>5
<1>7. PICK k \in starts : \A x \in starts : k <= x
  <2> HIDE DEF starts
  <2>1. QED
    BY <1>6, LeastExists
<1>8. Min(starts) = k
  <2> HIDE DEF starts
  <2>1. QED
    BY <1>6, <1>7, LeastIs
<1>9. k \in Int /\ k <= back /\ \A s \in ships : k <= s.createdAt
  BY <1>6, <1>7
<1>10. QED
  BY <1>8, <1>9

LEMMA DaysIs ==
    ASSUME NEW ships, IsFiniteSet(ships), \A s \in ships : s.createdAt \in Int,
           NEW now \in Nat, NEW least \in Nat
    PROVE  LET days == DailySeries(ships, now, least)
           IN  [ i \in DOMAIN days |-> days[i].created ] \in Seq(Nat)
<1> DEFINE days == DailySeries(ships, now, least)
           back == now - (least - 1) * Day
           starts == { s.createdAt : s \in ships } \cup { back }
           start == Min(starts)
           shown == DaysShown(start, now)
           dates(i) == { s \in ships : s.createdAt # None
                                       /\ s.createdAt \div Day = start \div Day + i - 1 }
<1>1. start \in Int
  <2>1. back \in Int
    BY DEF Day
  <2> HIDE DEF back
  <2>2. QED
    BY <2>1, FirstIs
<1>2. shown \in Int
  BY <1>1 DEF DaysShown, Day
<1>3. CASE ships = {}
  <2>1. days = << >>
    BY <1>3 DEF DailySeries
  <2>2. QED
    BY <2>1
<1>4. CASE ships # {}
  <2>1. DOMAIN days = 1 .. shown
    BY <1>4 DEF DailySeries
  <2>2. \A i \in 1 .. shown : days[i].created = Cardinality(dates(i))
    BY <1>4 DEF DailySeries
  <2>3. \A i \in 1 .. shown : Cardinality(dates(i)) \in Nat
    <3>1. \A i : IsFiniteSet(dates(i))
      BY FS_Subset
    <3>2. QED
      BY <3>1, FS_CardinalityType
  <2> DEFINE created == [ i \in DOMAIN days |-> days[i].created ]
  <2> HIDE DEF days, shown, dates
  <2>4. DOMAIN created = 1 .. shown /\ \A i \in 1 .. shown : created[i] \in Nat
    BY <2>1, <2>2, <2>3
  <2>5. created = [ i \in 1 .. shown |-> created[i] ]
    BY <2>1
  <2> HIDE DEF created
  <2>6. CASE shown >= 0
    <3>1. [ i \in 1 .. shown |-> created[i] ] \in Seq(Nat)
      BY <1>2, <2>4, <2>6
    <3>2. QED
      BY <2>5, <3>1 DEF created, days
  <2>7. CASE ~(shown >= 0)
    <3>1. 1 .. shown = {}
      BY <1>2, <2>7
    <3>2. created = << >>
      BY <2>5, <3>1
    <3>3. QED
      BY <3>2 DEF created, days
  <2>8. QED
    BY <2>6, <2>7
<1>5. QED
  BY <1>3, <1>4

LEMMA WindowIs ==
    ASSUME NEW fit \in Seq(Nat), Len(fit) >= 1
    PROVE  Window(fit) \in Seq(Nat) /\ Len(Window(fit)) >= 1
<1> DEFINE first == Max({ 1, Len(fit) - 27 })
<1>1. first \in 1 .. Len(fit)
  BY MaxIs
<1> HIDE DEF first
<1>2. SubSeq(fit, first, Len(fit)) \in Seq(Nat) /\ Len(SubSeq(fit, first, Len(fit))) >= 1
  BY <1>1
<1>3. QED
  BY <1>2 DEF Window, first

LEMMA LineIs ==
    ASSUME NEW ys \in Seq(Nat), Len(ys) >= 1
    PROVE  /\ Line(ys).slope \in Int /\ Line(ys).level \in Int
           /\ Line(ys).den \in Int /\ Line(ys).den > 0
<1> DEFINE w == Len(ys)
           sx == Sum([i \in 1 .. w |-> i - 1])
           sxx == Sum([i \in 1 .. w |-> (i - 1) * (i - 1)])
           sxy == Sum([i \in 1 .. w |-> (i - 1) * ys[i]])
           total == Sum(ys)
           den == w * sxx - sx * sx
<1>1. w \in Nat /\ w >= 1
  OBVIOUS
<1>2. /\ [i \in 1 .. w |-> i - 1] \in Seq(Int)
      /\ [i \in 1 .. w |-> (i - 1) * (i - 1)] \in Seq(Int)
      /\ [i \in 1 .. w |-> (i - 1) * ys[i]] \in Seq(Int)
      /\ ys \in Seq(Int)
  OBVIOUS
<1>3. sx \in Int /\ sxx \in Int /\ sxy \in Int /\ total \in Int
  BY <1>2, SumsOf
<1>4. Line(ys) = IF den > 0
                 THEN [ slope |-> w * sxy - sx * total, level |-> total * sxx - sx * sxy, den |-> den ]
                 ELSE [ slope |-> 0, level |-> total, den |-> w ]
  BY DEF Line
<1> HIDE DEF sx, sxx, sxy, total, w
<1>5. /\ w * sxy - sx * total \in Int /\ total * sxx - sx * sxy \in Int /\ den \in Int
  BY <1>1, <1>3
<1> HIDE DEF den
<1>6. QED
  BY <1>1, <1>3, <1>4, <1>5

LEMMA SeasonIs ==
    ASSUME NEW fit \in Seq(Nat), NEW day \in Nat
    PROVE  Seasonality(fit, day)[1] \in Nat /\ Seasonality(fit, day)[2] \in Nat \ { 0 }
<1> DEFINE n == Len(fit)
           same == { i \in 1 .. n : i % 7 = day % 7 }
           those == MapThenSumSet(LAMBDA i : fit[i], same)
           all == Sum(fit)
           recent == Sum(Window(fit))
           count == Cardinality(same)
           part == those * n
           whole == count * all
<1>1. n \in Nat /\ all \in Nat
  BY SumsOf
<1>2. IsFiniteSet(same)
  <2>1. IsFiniteSet(1 .. n) /\ same \in SUBSET (1 .. n)
    BY <1>1, FS_Interval
  <2>2. QED
    BY <2>1, FS_Subset
<1>3. those \in Nat
  <2>1. those = SumOf(fit, same)
    BY DEF SumOf
  <2>2. \A i \in same : fit[i] \in Nat
    OBVIOUS
  <2> HIDE DEF same
  <2>5. 0 \in Nat /\ \A a, b \in Nat : a + b \in Nat
    OBVIOUS
  <2>3. SumOf(fit, same) \in Nat
    BY <1>2, <2>2, <2>5, SumIs
  <2>4. QED
    BY <2>1, <2>3
<1>4. n >= 14 => count \in Nat \ { 0 }
  <2>1. ASSUME n >= 14 PROVE \E i \in 1 .. n : i % 7 = day % 7
    <3>1. day % 7 \in 0 .. 6
      OBVIOUS
    <3>2. CASE day % 7 = 0
      BY <1>1, <2>1, <3>2
    <3>3. CASE day % 7 # 0
      <4>1. day % 7 \in 1 .. n /\ (day % 7) % 7 = day % 7
        BY <1>1, <2>1, <3>1, <3>3
      <4>2. QED
        BY <4>1
    <3>4. QED
      BY <3>2, <3>3
  <2>2. n >= 14 => same # {}
    BY <2>1
  <2> HIDE DEF same
  <2>3. QED
    BY <1>2, <2>2, FS_CardinalityType, FS_EmptySet
<1>5. Seasonality(fit, day) =
        IF n < 14 \/ recent = 0 \/ all = 0 THEN <<1, 1>>
        ELSE IF 2 * part < whole THEN <<1, 2>>
        ELSE IF 2 * part > 3 * whole THEN <<3, 2>> ELSE << part, whole >>
  BY DEF Seasonality
<1> HIDE DEF n, those, all, count, recent, same
<1>6. part \in Nat /\ (n >= 14 /\ all # 0 => whole \in Nat \ { 0 })
  BY <1>1, <1>3, <1>4
<1> HIDE DEF part, whole
<1>7. QED
  BY <1>1, <1>5, <1>6

LEMMA ForecastIs ==
    ASSUME NEW q \in Seq(Nat), NEW d \in Nat, NEW h \in 1 .. d
    PROVE  ForecastSeries(q, d)[h][1] >= 0 /\ ForecastSeries(q, d)[h][2] > 0
<1> DEFINE fit == IF Len(q) > 1 THEN Front(q) ELSE q
           n == Len(fit)
           window == Window(fit)
           line == Line(window)
           season == Seasonality(fit, n + h)
           base == line.level + line.slope * (Len(window) - 1 + h)
           value == << Max({ 0, base }) * season[1], line.den * season[2] >>
<1>1. fit \in Seq(Nat)
  BY DEF Front
<1>2. ForecastSeries(q, d)[h] = IF n = 0 THEN <<0, 1>> ELSE IF n < 5 THEN << Sum(fit), n >> ELSE value
  BY DEF ForecastSeries
<1> HIDE DEF fit
<1>3. n \in Nat /\ Sum(fit) \in Nat
  BY <1>1, SumsOf
<1>4. season[1] \in Nat /\ season[2] \in Nat \ { 0 }
  BY <1>1, <1>3, SeasonIs
<1>5. ASSUME n >= 5 PROVE value[1] >= 0 /\ value[2] > 0
  <2>1. window \in Seq(Nat) /\ Len(window) >= 1
    BY <1>1, <1>5, WindowIs
  <2> HIDE DEF window, season
  <2>2. line.slope \in Int /\ line.level \in Int /\ line.den \in Int /\ line.den > 0
    BY <2>1, LineIs
  <2> HIDE DEF line
  <2>3. base \in Int
    BY <2>1, <2>2
  <2> HIDE DEF base
  <2>4. Max({ 0, base }) = IF 0 >= base THEN 0 ELSE base
    BY <2>3, MaxIs
  <2>5. Max({ 0, base }) \in Nat
    BY <2>3, <2>4
  <2>6. Max({ 0, base }) * season[1] >= 0 /\ line.den * season[2] > 0
    BY <1>4, <2>2, <2>5
  <2>7. QED
    BY <2>6
<1> HIDE DEF value, n
<1>6. QED
  BY <1>2, <1>3, <1>5

----------------------------------------------------------------------------
\* What is overdue.

\* What overdue is, in the data.
Overdue(d) == { p \in Package : /\ d.packages[p].status \notin TerminalStatuses
                                /\ d.packages[p].expected # None
                                /\ d.packages[p].expected < d.now }

LEMMA BreachedAre ==
    ASSUME NEW d, Given(d), Made(d)
    PROVE  LET late == Breached(Active(d.shipments))
           IN  /\ { s.id : s \in late } = Overdue(d)
               /\ Cardinality(late) = Cardinality(Overdue(d))
               /\ late = {} <=> Overdue(d) = {}
<1> DEFINE late == Breached(Active(d.shipments))
           f == [ p \in Overdue(d) |-> ShipmentOf(d, p) ]
<1>1. ASSUME NEW p \in Package PROVE ShipmentOf(d, p) \in late <=> p \in Overdue(d)
  <2> DEFINE s == ShipmentOf(d, p)
             pkg == d.packages[p]
  <2>1. /\ s \in d.shipments /\ s.isActive = (pkg.status \notin TerminalStatuses)
        /\ s.sla = SlaOf(d, pkg)
    BY ParcelsAre, ShipmentIs
  <2>2. pkg.expected \in Int \cup { None } /\ d.now \in Nat
    BY TimeAssumption DEF Given, Kept
  <2>3. ASSUME pkg.status \notin TerminalStatuses
        PROVE  SlaOf(d, pkg) = "breached" <=> pkg.expected # None /\ pkg.expected < d.now
    <3>1. pkg.status # "DELIVERED"
      BY <2>3 DEF TerminalStatuses
    <3>2. HoursToSla(d, pkg) = IF pkg.expected # None THEN pkg.expected - d.now ELSE None
      BY <2>3 DEF HoursToSla
    <3>3. QED
      BY <2>2, <3>1, <3>2, NullAssumption DEF SlaOf
  <2> HIDE DEF s
  <2>4. QED
    BY <2>1, <2>3 DEF Breached, Active, Overdue, s
<1>2. \A s \in late : s.id \in Overdue(d) /\ s = ShipmentOf(d, s.id)
  <2> SUFFICES ASSUME NEW s \in late PROVE s.id \in Overdue(d) /\ s = ShipmentOf(d, s.id)
    OBVIOUS
  <2>1. s.id \in Package /\ s = ShipmentOf(d, s.id)
    BY ParcelsAre DEF Breached, Active
  <2>2. QED
    BY <1>1, <2>1
<1>3. \A p \in Overdue(d) : ShipmentOf(d, p) \in late /\ ShipmentOf(d, p).id = p
  BY <1>1, ShipmentIs DEF Overdue
<1> HIDE DEF late
<1>4. { s.id : s \in late } = Overdue(d)
  BY <1>2, <1>3
<1>5. f \in Bijection(Overdue(d), late)
  <2>1. f \in [ Overdue(d) -> late ]
    BY <1>3
  <2>2. \A p, q \in Overdue(d) : f[p] = f[q] => p = q
    BY <1>3
  <2>3. \A s \in late : \E p \in Overdue(d) : f[p] = s
    BY <1>2
  <2> HIDE DEF f
  <2>4. f \in Injection(Overdue(d), late)
    BY <2>1, <2>2 DEF Injection, IsInjective
  <2>5. f \in Surjection(Overdue(d), late)
    BY <2>1, <2>3 DEF Surjection
  <2>6. QED
    BY <2>4, <2>5 DEF Bijection
<1>6. IsFiniteSet(Overdue(d))
  BY SizeAssumption, FS_Subset DEF Overdue
<1>7. Cardinality(late) = Cardinality(Overdue(d))
  BY <1>5, <1>6, FS_Bijection DEF ExistsBijection
<1>8. QED
  BY <1>4, <1>7 DEF late

----------------------------------------------------------------------------
\* Questions.

LEMMA PatternsAre ==
    ASSUME NEW q
    PROVE  /\ Matches(q, "track") = (q.tracking # None)
           /\ Matches(q, "simulate") = (q.move # None)
           /\ Matches(q, "sla-explain") = (/\ Says(q, { "sla" })
                                           /\ Says(q, { "fall", "fell", "drop", "down", "worse", "decline", "why" }))
           /\ Matches(q, "delayed") = (/\ Says(q, { "delay", "late", "overdue", "breach" })
                                       /\ Says(q, { "shipment", "parcel", "package", "deliver" }))
           /\ Matches(q, "hub-load") = (/\ Says(q, { "hub" })
                                        /\ Says(q, { "overload", "congest", "busy", "capacity", "full" }))
           /\ Matches(q, "riders-idle") = (/\ Says(q, { "rider" })
                                           /\ Says(q, { "under", "idle", "unused", "free", "available", "utili" }))
           /\ Matches(q, "failures") = Says(q, { "fail" })
           /\ Matches(q, "merchant-returns") = (/\ Says(q, { "merchant" })
                                                /\ Says(q, { "return", "worst", "highest" }))
           /\ Matches(q, "forecast") = Says(q, { "predict", "forecast", "tomorrow", "next week", "next 7", "next 30" })
           /\ Matches(q, "routes") = Says(q, { "route", "corridor" })
  BY DEF Matches

\* The first pattern that fits decides.
LEMMA FirstDecides ==
    ASSUME NEW q, NEW k \in DOMAIN Intents, Matches(q, Intents[k]),
           \A i \in DOMAIN Intents : i < k => ~Matches(q, Intents[i])
    PROVE  IntentOf(q) = Intents[k]
<1> DEFINE S == { i \in DOMAIN Intents : Matches(q, Intents[i]) }
<1>1. DOMAIN Intents = 1 .. 12
  BY DEF Intents
<1>2. S \in SUBSET Int /\ k \in S /\ \A i \in S : k <= i
  BY <1>1
<1> HIDE DEF S
<1>3. Min(S) = k
  BY <1>2, LeastIs
<1>4. QED
  BY <1>3 DEF IntentOf, S

----------------------------------------------------------------------------
\* The tiles.

\* Only an active parcel is late or at risk.
LEMMA LateIsActive ==
    ASSUME NEW d, Given(d), Made(d), NEW s \in d.shipments, s.sla \in { "breached", "at_risk" }
    PROVE  s.isActive
<1>1. PICK p \in Package : s = ShipmentOf(d, p)
  BY DEF Given, Made, Shipments
<1> DEFINE pkg == d.packages[p]
<1>2. s.isActive = (pkg.status \notin TerminalStatuses) /\ s.sla = SlaOf(d, pkg)
  BY <1>1, ShipmentIs
<1>3. pkg.status \in TerminalStatuses => SlaOf(d, pkg) \in { "met", "missed", "n_a" }
  BY DEF SlaOf, HoursToSla
<1>4. QED
  BY <1>2, <1>3

\* A tile counts the parcels that have the value its filter asks for.
LEMMA TileIs ==
    ASSUME NEW tile \in DOMAIN TileFilter, NEW s, s.sla \in { "breached", "at_risk" } => s.isActive
    PROVE  LET key == TileFilter[tile][1]
               value == TileFilter[tile][2]
           IN  /\ key \in { "statusGroups", "sla" }
               /\ TileCounts(tile, s) <=> value \in Values(s, key)
<1>1. Values(s, "statusGroups") = { s.group } /\ Values(s, "sla") = { s.sla }
  BY DEF Values
<1>2. CASE tile = "delayed"
  <2>1. TileFilter[tile][1] = "sla" /\ TileFilter[tile][2] = "breached"
    BY <1>2 DEF TileFilter
  <2>2. TileCounts(tile, s) <=> s.isActive /\ s.sla = "breached"
    BY <1>2 DEF TileCounts
  <2>3. QED
    BY <1>1, <2>1, <2>2
<1>3. CASE tile = "at_risk"
  <2>1. TileFilter[tile][1] = "sla" /\ TileFilter[tile][2] = "at_risk"
    BY <1>3 DEF TileFilter
  <2>2. TileCounts(tile, s) <=> s.isActive /\ s.sla = "at_risk"
    BY <1>3 DEF TileCounts
  <2>3. QED
    BY <1>1, <2>1, <2>2
<1>4. CASE tile \notin { "delayed", "at_risk" }
  <2>1. TileFilter[tile][1] = "statusGroups" /\ tile # "total"
    BY <1>4 DEF TileFilter
  <2>2. TileCounts(tile, s) <=> s.group = TileFilter[tile][2]
    BY <1>4, <2>1 DEF TileCounts
  <2>3. QED
    BY <1>1, <2>1, <2>2
<1>5. QED
  BY <1>2, <1>3, <1>4

\* A click narrows a page by the value it asks for, when the bar asks nothing of that key.
LEMMA ClickNarrows ==
    ASSUME NEW f, NEW key \in ListKeys, f.lists[key] = {}, NEW value, NEW s, NEW word
    PROVE  MatchesLists(s, EffectiveLists(f, ToggleCross({}, key, value, "kpi")), word)
             <=> MatchesLists(s, EffectiveLists(f, {}), word) /\ value \in Values(s, key)
<1> DEFINE cross == ToggleCross({}, key, value, "kpi")
           before == EffectiveLists(f, {})
           after == EffectiveLists(f, cross)
<1>1. cross = { CrossFilter(key, value, "kpi") }
  BY DEF ToggleCross, SetCross, ClearCrossSource
<1>2. CrossFilter(key, value, "kpi").key = key /\ CrossFilter(key, value, "kpi").value = value
  BY DEF CrossFilter
<1> HIDE DEF cross
<1>3. \A k \in ListKeys : before[k] = f.lists[k]
  BY DEF EffectiveLists
<1>4. ASSUME NEW k \in ListKeys
      PROVE  after[k] = IF k = key THEN { value } ELSE f.lists[k]
  <2> DEFINE extra == { c.value : c \in { x \in cross : x.key = k } }
  <2>1. after[k] = IF f.lists[k] # {} /\ extra # {} THEN f.lists[k] \cap extra
                   ELSE f.lists[k] \cup extra
    BY DEF EffectiveLists
  <2>2. extra = IF k = key THEN { value } ELSE {}
    BY <1>1, <1>2
  <2> HIDE DEF extra
  <2>3. QED
    BY <2>1, <2>2
<1> HIDE DEF before, after
<1>5. ListMatch({}, Values(s, key))
  BY DEF ListMatch
<1>6. ListMatch({ value }, Values(s, key)) <=> value \in Values(s, key)
  BY DEF ListMatch
<1>7. (\A k \in ListKeys : ListMatch(after[k], Values(s, k)))
        <=> (\A k \in ListKeys : ListMatch(before[k], Values(s, k))) /\ value \in Values(s, key)
  BY <1>3, <1>4, <1>5, <1>6
<1>8. QED
  BY <1>7 DEF MatchesLists, before, after, cross

----------------------------------------------------------------------------
\* The Command Center of a window and a city.

LEMMA BarIs ==
    ASSUME NEW preset, NEW city
    PROVE  /\ BarOf(preset, city).lists = [ NoLists EXCEPT !["cities"] = { city } ]
           /\ BarOf(preset, city).search = NoSearch
<1> DEFINE g == SetPreset(EmptyFilters, preset)
<1>1. g.lists = NoLists /\ g.search = NoSearch /\ "lists" \in DOMAIN g
  BY DEF SetPreset, EmptyFilters
<1> HIDE DEF g
<1>2. QED
  BY <1>1 DEF BarOf, SetList, g

\* A bar of one city asks for no other list.
LEMMA BarAsks ==
    ASSUME NEW preset, NEW city, NEW key \in ListKeys
    PROVE  /\ BarOf(preset, city).lists[key] = IF key = "cities" THEN { city } ELSE {}
           /\ EffectiveLists(BarOf(preset, city), {})[key] = BarOf(preset, city).lists[key]
<1>1. NoLists = [ k \in ListKeys |-> {} ]
  BY DEF NoLists
<1>2. BarOf(preset, city).lists[key] = IF key = "cities" THEN { city } ELSE {}
  <2>1. BarOf(preset, city).lists = [ k \in ListKeys |-> IF k = "cities" THEN { city } ELSE {} ]
    BY <1>1, BarIs
  <2>2. QED
    BY <2>1
<1>3. EffectiveLists(BarOf(preset, city), {})[key] = BarOf(preset, city).lists[key]
  BY DEF EffectiveLists
<1>4. QED
  BY <1>2, <1>3

LEMMA PageIsOfCity ==
    ASSUME NEW d, NEW preset, NEW city
    PROVE  LET f == BarOf(preset, city)
               range == DateRange(f, d.now)
           IN  PageData(d, d.shipments, f, {}).shipments
                 = { s \in d.shipments : (range = None \/ Within(s, range)) /\ s.city = city }
<1> DEFINE f == BarOf(preset, city)
           lists == EffectiveLists(f, {})
<1>1. \A key \in ListKeys : lists[key] = IF key = "cities" THEN { city } ELSE {}
  <2> SUFFICES ASSUME NEW key \in ListKeys
               PROVE  lists[key] = IF key = "cities" THEN { city } ELSE {}
    OBVIOUS
  <2>1. lists[key] = f.lists[key] /\ f.lists[key] = IF key = "cities" THEN { city } ELSE {}
    BY BarAsks
  <2> HIDE DEF lists, f
  <2>2. QED
    BY <2>1
<1>2. "cities" \in ListKeys
  BY DEF ListKeys
<1>3. ASSUME NEW s PROVE MatchesLists(s, lists, f.search) <=> s.city = city
  <2>1. \A V : ListMatch({}, V)
    BY DEF ListMatch
  <2>2. ListMatch({ city }, Values(s, "cities")) <=> s.city = city
    BY DEF ListMatch, Values
  <2>3. f.search = NoSearch
    BY BarIs
  <2> HIDE DEF lists, f
  <2>4. QED
    BY <1>1, <1>2, <2>1, <2>2, <2>3 DEF MatchesLists
<1>4. PageData(d, d.shipments, f, {}).shipments = ApplyFilters(d.shipments, f, {}, d.now)
  BY DEF PageData
<1> HIDE DEF f
<1>5. QED
  BY <1>3, <1>4 DEF ApplyFilters, f

\* The late parcels of a city and a window, and the items about a city.
InWindow(d, preset, city, s) ==
    LET range == DateRange(BarOf(preset, city), d.now) IN range = None \/ Within(s, range)
LateIn(d, preset, city) ==
    { s \in Breached(Active(d.shipments)) : InWindow(d, preset, city, s) /\ s.city = city }
ItemsOf(d, city) == { e \in d.exceptions : About(d, e)[1] = city }

LEMMA CommandCenterIs ==
    ASSUME NEW d, NEW preset, NEW city
    PROVE  LET shown == CommandCenter(d, BarOf(preset, city), {})
           IN  /\ shown.exceptions = ItemsOf(d, city)
               /\ shown.brief.breached = Cardinality(LateIn(d, preset, city))
               /\ shown.strip["delayed"].value = Cardinality(LateIn(d, preset, city))
<1> DEFINE f == BarOf(preset, city)
           range == DateRange(f, d.now)
           shown == CommandCenter(d, f, {})
           lists == EffectiveLists(f, {})
           items == ItemsShown(d, lists)
           page == PageData(d, d.shipments, f, {})
           ships == page.shipments
           counted == { s \in Breached(Active(d.shipments)) :
                          (range = None \/ Within(s, range)) /\ s.city = city }
<1>1. ships = { s \in d.shipments : (range = None \/ Within(s, range)) /\ s.city = city }
  BY PageIsOfCity
<1>2. lists["cities"] = { city } /\ lists["divisions"] = {}
  BY BarAsks DEF ListKeys
<1>3. /\ shown.strip = ShipmentKpiStrip(ships, page.previous)
      /\ shown.exceptions = items
      /\ shown.brief = OpsBrief(d, ships, page.previous, items)
  BY DEF CommandCenter
<1> HIDE DEF shown, page, lists, f
<1>4. items = { e \in d.exceptions : About(d, e)[1] = city }
  BY <1>2 DEF ItemsShown, ListMatch
<1> HIDE DEF items
<1>5. Breached(Active(ships)) = counted
  BY <1>1 DEF Breached, Active
<1>6. shown.brief.breached = Cardinality(counted)
  <2>1. OpsBrief(d, ships, page.previous, items).breached = Cardinality(Breached(Active(ships)))
    BY DEF OpsBrief
  <2>2. QED
    BY <1>3, <1>5, <2>1
<1>7. shown.strip["delayed"].value = Cardinality(counted)
  <2> DEFINE late == { s \in ships : TileCounts("delayed", s) }
  <2>1. "delayed" \in DOMAIN TileFilter \cup { "total" }
    BY DEF TileFilter
  <2>2. ShipmentKpiStrip(ships, page.previous)["delayed"].value = Cardinality(late)
    BY <2>1 DEF ShipmentKpiStrip, Count
  <2>3. late = Breached(Active(ships))
    BY DEF TileCounts, Breached, Active
  <2>4. QED
    BY <1>3, <1>5, <2>2, <2>3
<1>8. QED
  BY <1>3, <1>4, <1>6, <1>7 DEF shown, f, range, ItemsOf, LateIn, InWindow

\* There are as many shipments as there are parcels they are of.
LEMMA CountedById ==
    ASSUME NEW d, Given(d), Made(d), NEW P \in SUBSET Package
    PROVE  Cardinality({ ShipmentOf(d, p) : p \in P }) = Cardinality(P)
<1> DEFINE T == { ShipmentOf(d, p) : p \in P }
           f == [ p \in P |-> ShipmentOf(d, p) ]
<1>1. \A p \in P : ShipmentOf(d, p).id = p
  BY ParcelsAre
<1>2. f \in [ P -> T ]
  OBVIOUS
<1>3. \A p, q \in P : f[p] = f[q] => p = q
  BY <1>1
<1>4. \A s \in T : \E p \in P : f[p] = s
  OBVIOUS
<1>5. IsFiniteSet(P)
  BY SizeAssumption, FS_Subset
<1> HIDE DEF f, T
<1>6. f \in Injection(P, T)
  BY <1>2, <1>3 DEF Injection, IsInjective
<1>7. f \in Surjection(P, T)
  BY <1>2, <1>4 DEF Surjection
<1>8. f \in Bijection(P, T)
  BY <1>6, <1>7 DEF Bijection
<1>9. QED
  BY <1>5, <1>8, FS_Bijection DEF ExistsBijection, T

LEMMA OverdueIsRaised ==
    ASSUME IInv
    PROVE  OverdueIsRaisedEverywhere
<1> DEFINE ships == snap.shipments
           late == Breached(Active(ships))
           listed == { e \in snap.exceptions : e.type = "SLA_BREACH" }
           ask == [words |-> { "late", "parcel" }, city |-> None, move |-> None, tracking |-> None]
<1>1. snap.exceptions = Exceptions(snap)
  BY DEF IInv, Made
<1>2. { s.id : s \in late } = Overdue(snap) /\ Cardinality(late) = Cardinality(Overdue(snap))
  BY BreachedAre DEF IInv
<1>3. { e.shipment : e \in listed } = Overdue(snap)
  <2>1. \A e \in listed : e.shipment \in Overdue(snap)
    <3> SUFFICES ASSUME NEW e \in Exceptions(snap), e.type = "SLA_BREACH"
                 PROVE  e.shipment \in Overdue(snap)
      BY <1>1
    <3>1. PICK s \in Active(ships) : s.sla = "breached" /\ e.shipment = s.id
      BY ItemsAre
    <3>2. s \in late
      BY <3>1 DEF Breached
    <3>3. QED
      BY <1>2, <3>1, <3>2
  <2>2. \A p \in Overdue(snap) : \E e \in listed : e.shipment = p
    <3> SUFFICES ASSUME NEW s \in late PROVE \E e \in listed : e.shipment = s.id
      BY <1>2
    <3>1. s \in Active(ships) /\ s.sla = "breached"
      BY DEF Breached
    <3>2. QED
      BY <1>1, <3>1, ListHas
  <2>3. QED
    BY <2>1, <2>2
<1>4. Answer(snap, ask) = Overdue(snap)
  <2>1. IntentOf(ask) = "delayed"
    <3>1. /\ Intents[1] = "track" /\ Intents[2] = "simulate" /\ Intents[3] = "sla-explain"
          /\ Intents[4] = "delayed" /\ DOMAIN Intents = 1 .. 12
      BY DEF Intents
    <3>5. ask.tracking = None /\ ask.move = None /\ ask.words = { "late", "parcel" }
      OBVIOUS
    <3> HIDE DEF ask
    <3>6. /\ ~Says(ask, { "sla" }) /\ Says(ask, { "delay", "late", "overdue", "breach" })
          /\ Says(ask, { "shipment", "parcel", "package", "deliver" })
      BY <3>5 DEF Says
    <3>2. Matches(ask, "delayed") /\ ~Matches(ask, "track") /\ ~Matches(ask, "simulate")
          /\ ~Matches(ask, "sla-explain")
      BY <3>5, <3>6, PatternsAre
    <3>3. \A i \in DOMAIN Intents : i < 4 => i = 1 \/ i = 2 \/ i = 3
      BY <3>1
    <3>4. QED
      BY <3>1, <3>2, <3>3, FirstDecides
  <2>2. Answer(snap, ask) = { s.id : s \in { x \in late : In(x.city, ask) } }
    BY <2>1 DEF Answer
  <2>3. { x \in late : In(x.city, ask) } = late
    BY DEF In
  <2> HIDE DEF ask, late
  <2>4. QED
    BY <1>2, <2>2, <2>3
<1>5. ASSUME NEW preset \in Windows, NEW city \in Cities
      PROVE  LET f == BarOf(preset, city)
                 range == DateRange(f, snap.now)
                 shown == CommandCenter(snap, f, {})
                 here == { p \in Overdue(snap) : ShipmentOf(snap, p).city = city }
                 recent == { p \in here : range = None \/ Within(ShipmentOf(snap, p), range) }
             IN  /\ { e.shipment : e \in listed \cap shown.exceptions } = here
                 /\ shown.brief.breached = Cardinality(recent)
                 /\ shown.strip["delayed"].value = Cardinality(recent)
  <2> DEFINE f == BarOf(preset, city)
             range == DateRange(f, snap.now)
             shown == CommandCenter(snap, f, {})
             here == { p \in Overdue(snap) : ShipmentOf(snap, p).city = city }
             recent == { p \in here : range = None \/ Within(ShipmentOf(snap, p), range) }
             counted == LateIn(snap, preset, city)
  <2>1. /\ shown.exceptions = ItemsOf(snap, city)
        /\ shown.brief.breached = Cardinality(counted)
        /\ shown.strip["delayed"].value = Cardinality(counted)
    BY CommandCenterIs
  <2>2. \A s \in late : s.id \in Overdue(snap) /\ s = ShipmentOf(snap, s.id)
    BY <1>2, ParcelsAre DEF IInv, Breached, Active
  <2>3. \A p \in Overdue(snap) : p \in Package /\ ShipmentOf(snap, p) \in late
    <3> SUFFICES ASSUME NEW p \in Overdue(snap) PROVE p \in Package /\ ShipmentOf(snap, p) \in late
      OBVIOUS
    <3>1. PICK s \in late : s.id = p
      BY <1>2
    <3>2. QED
      BY <2>2, <3>1 DEF Overdue
  <2> HIDE DEF late
  <2>4. counted = { s \in late : (range = None \/ Within(s, range)) /\ s.city = city }
    BY DEF LateIn, InWindow, late
  <2> HIDE DEF shown, range, f, counted
  <2>5. counted = { ShipmentOf(snap, p) : p \in recent }
    BY <2>2, <2>3, <2>4
  <2>6. recent \in SUBSET Package
    BY <2>3
  <2>7. Cardinality(counted) = Cardinality(recent)
    BY <2>5, <2>6, CountedById DEF IInv
  <2>8. { e.shipment : e \in listed \cap shown.exceptions } = here
    <3>1. \A e \in listed : /\ e.shipment \in Overdue(snap)
                            /\ About(snap, e)[1] = ShipmentOf(snap, e.shipment).city
      <4> SUFFICES ASSUME NEW e \in listed
                   PROVE  /\ e.shipment \in Overdue(snap)
                          /\ About(snap, e)[1] = ShipmentOf(snap, e.shipment).city
        OBVIOUS
      <4>1. e.shipment \in Overdue(snap)
        BY <1>3
      <4>2. PICK s \in Active(ships) : s.sla = "breached" /\ e.shipment = s.id
        BY <1>1, ItemsAre
      <4>3. e.shipment # None
        BY <4>1, NullAssumption DEF Overdue
      <4>4. QED
        BY <4>1, <4>3 DEF About
    <3>2. \A p \in Overdue(snap) : \E e \in listed : e.shipment = p
      BY <1>3
    <3>3. \A e \in listed : e \in shown.exceptions <=> About(snap, e)[1] = city
      BY <2>1 DEF ItemsOf
    <3> HIDE DEF listed
    <3>4. QED
      BY <3>1, <3>2, <3>3
  <2>9. QED
    BY <2>1, <2>7, <2>8 DEF shown, range, f
<1>6. \A e \in snap.exceptions :
        e.shipment # None => snap.packages[e.shipment].status \notin TerminalStatuses
  <2> SUFFICES ASSUME NEW e \in Exceptions(snap), e.shipment # None
               PROVE  snap.packages[e.shipment].status \notin TerminalStatuses
    BY <1>1
  <2>1. PICK s \in Active(ships) : e.shipment = s.id
    BY ItemsAre
  <2>2. ShipmentOf(snap, s.id) = s /\ s.isActive
    BY ParcelsAre DEF Active, IInv
  <2>3. ShipmentOf(snap, s.id).isActive = (snap.packages[s.id].status \notin TerminalStatuses)
    BY ShipmentIs
  <2>4. QED
    BY <2>1, <2>2, <2>3
<1>7. QED
  BY <1>3, <1>4, <1>5, <1>6 DEF OverdueIsRaisedEverywhere, Overdue

LEMMA TilesFilter ==
    ASSUME IInv
    PROVE  TilesFilterToThemselves
<1> SUFFICES ASSUME NEW preset \in Windows, NEW city \in Cities, NEW tile \in DOMAIN TileFilter
             PROVE  LET f == BarOf(preset, city)
                        page == PageData(snap, snap.shipments, f, {})
                        clicked == PageData(snap, snap.shipments, f, ClickTile({}, tile))
                    IN  /\ clicked.shipments = { s \in page.shipments : TileCounts(tile, s) }
                        /\ ShipmentKpiStrip(clicked.shipments, clicked.previous)[tile]
                             = ShipmentKpiStrip(page.shipments, page.previous)[tile]
  BY DEF TilesFilterToThemselves
<1> DEFINE all == snap.shipments
           f == BarOf(preset, city)
           key == TileFilter[tile][1]
           value == TileFilter[tile][2]
           page == PageData(snap, all, f, {})
           clicked == PageData(snap, all, f, ClickTile({}, tile))
<1>1. f.lists["statusGroups"] = {} /\ f.lists["sla"] = {}
  BY BarAsks DEF ListKeys
<1> HIDE DEF f
<1>2. ASSUME NEW s \in all
      PROVE  MatchesLists(s, EffectiveLists(f, ClickTile({}, tile)), f.search)
               <=> MatchesLists(s, EffectiveLists(f, {}), f.search) /\ TileCounts(tile, s)
  <2>1. /\ key \in { "statusGroups", "sla" }
        /\ TileCounts(tile, s) <=> value \in Values(s, key)
    BY TileIs, LateIsActive DEF IInv
  <2> HIDE DEF key, value
  <2>2. key \in ListKeys /\ f.lists[key] = {}
    BY <1>1, <2>1 DEF ListKeys
  <2>3. MatchesLists(s, EffectiveLists(f, ToggleCross({}, key, value, "kpi")), f.search)
           <=> MatchesLists(s, EffectiveLists(f, {}), f.search) /\ value \in Values(s, key)
    BY <2>2, ClickNarrows
  <2>4. ClickTile({}, tile) = ToggleCross({}, key, value, "kpi")
    BY DEF ClickTile, key, value
  <2>5. QED
    BY <2>1, <2>3, <2>4
<1>3. /\ page.shipments = ApplyFilters(all, f, {}, snap.now)
      /\ page.previous = ApplyFiltersPrevious(all, f, {}, snap.now)
      /\ clicked.shipments = ApplyFilters(all, f, ClickTile({}, tile), snap.now)
      /\ clicked.previous = ApplyFiltersPrevious(all, f, ClickTile({}, tile), snap.now)
  BY DEF PageData
<1> HIDE DEF page, clicked, all
<1>4. clicked.shipments = { s \in page.shipments : TileCounts(tile, s) }
  BY <1>2, <1>3 DEF ApplyFilters
<1>5. clicked.previous = { s \in page.previous : TileCounts(tile, s) }
  BY <1>2, <1>3 DEF ApplyFiltersPrevious
<1>6. ASSUME NEW S, NEW P, NEW T, NEW Q, T = { s \in S : TileCounts(tile, s) },
             Q = { s \in P : TileCounts(tile, s) }
      PROVE  ShipmentKpiStrip(T, Q)[tile] = ShipmentKpiStrip(S, P)[tile]
  <2> DEFINE counted(X) == { s \in X : TileCounts(tile, s) }
             n(X) == Cardinality(counted(X))
  <2>1. counted(T) = counted(S) /\ counted(Q) = counted(P)
    BY <1>6
  <2>2. \A X, Y : ShipmentKpiStrip(X, Y)[tile] = [ value |-> n(X), delta |-> DeltaPct(n(X), n(Y)) ]
    BY DEF ShipmentKpiStrip, Count
  <2> HIDE DEF counted
  <2>3. n(T) = n(S) /\ n(Q) = n(P)
    BY <2>1
  <2> HIDE DEF n
  <2>4. QED
    BY <2>2, <2>3
<1>7. ShipmentKpiStrip(clicked.shipments, clicked.previous)[tile]
        = ShipmentKpiStrip(page.shipments, page.previous)[tile]
  BY <1>4, <1>5, <1>6
<1>8. QED
  BY <1>4, <1>7 DEF page, clicked, f, all

----------------------------------------------------------------------------
\* What the assistants advise.

\* A parcel past its time is always worth a recommendation.
LEMMA LateIsAdvised ==
    ASSUME NEW s, s.isActive, s.sla = "breached", NEW congested
    PROVE  RecommendForShipment(s, congested) # None
<1>1. RecommendForShipment(s, congested) \in Advice
  BY DEF RecommendForShipment, Advice
<1>2. QED
  BY <1>1, NullAssumption

LEMMA HubIs ==
    ASSUME NEW d, Given(d), Made(d), NEW h \in Hubs(d)
    PROVE  /\ h.id \in DOMAIN Nodes /\ h.id \in DOMAIN d.hubs /\ d.hubs[h.id] = h
           /\ h.load \in Nat /\ h.capacity \in Nat
           /\ Cardinality(h.pending) \in Nat /\ Cardinality(h.inbound) \in Nat
           /\ AtLeast(Ratio(h.load, h.capacity), 90) => h.health = "critical"
<1>1. PICK n \in DOMAIN d.hubs : h = d.hubs[n]
  BY DEF Hubs, Range
<1>2. n \in DOMAIN Nodes /\ h = HubStats(d, n) /\ d.nodes = Nodes
  BY <1>1, HubsAre DEF Given
<1> DEFINE active == Active(d.shipments)
           atHub == { s \in active : s.currentNode = n }
           sources == { r.source : r \in { x \in d.routes : x.destination = n } }
           inbound == { s \in active : /\ s.status \in { "DISPATCHED", "IN_TRANSIT" }
                                       /\ s.currentNode \in sources }
           pending == { s \in atHub : s.status \in WaitingAtHub }
           load == Max({ d.nodes[n].load, Cardinality(atHub) })
<1>3. /\ HubStats(d, n).id = n /\ HubStats(d, n).load = load
      /\ HubStats(d, n).capacity = d.nodes[n].capacity
      /\ HubStats(d, n).inbound = inbound /\ HubStats(d, n).pending = pending
  BY DEF HubStats
<1>4. AtLeast(Ratio(load, d.nodes[n].capacity), 90) => HubStats(d, n).health = "critical"
  BY DEF HubStats, HubHealth
<1>5. IsFiniteSet(active)
  BY ParcelsAre, FS_Subset DEF Active
<1>6. IsFiniteSet(atHub)
  BY <1>5, FS_Subset
<1>7. IsFiniteSet(pending) /\ IsFiniteSet(inbound)
  BY <1>5, <1>6, FS_Subset
<1>8. /\ Cardinality(atHub) \in Nat /\ Cardinality(pending) \in Nat
      /\ Cardinality(inbound) \in Nat
  BY <1>6, <1>7, FS_CardinalityType
<1>9. d.nodes[n].load \in Nat /\ d.nodes[n].capacity \in Nat
  BY <1>2, NetworkAssumption
<1> HIDE DEF atHub, pending, inbound
<1>10. load \in Nat
  BY <1>8, <1>9, MaxIs
<1> HIDE DEF load
<1>11. QED
  BY <1>1, <1>2, <1>3, <1>4, <1>8, <1>9, <1>10

\* A hub that is not in order is worth one too.
LEMMA HubIsAdvised ==
    ASSUME NEW d, Given(d), Made(d), NEW h \in Hubs(d),
           h.health = "critical" \/ h.health = "warning"
    PROVE  RecommendForHub(h) # None
<1> DEFINE spare == Round(h.capacity * 3, 4)
           overflow == Max({ 0, h.load - spare })
           inbound == Cardinality(h.inbound)
           pending == Cardinality(h.pending)
           most == Max({ overflow, 5 })
           divert == IF inbound > 0 THEN Min({ inbound, most }) ELSE 0
           hours == Max({ 2, (pending + 7) \div 8 })
<1>1. h.id \in DOMAIN Nodes /\ h.load \in Nat /\ h.capacity \in Nat /\ inbound \in Nat /\ pending \in Nat
  BY HubIs
<1>2. RecommendForHub(h) = [ hub |-> h.id, divert |-> divert, hours |-> hours ]
  BY DEF RecommendForHub
<1>3. spare \in Nat
  BY <1>1, RoundIs
<1> HIDE DEF spare, inbound, pending
<1>4. overflow \in Nat
  BY <1>1, <1>3, MaxIs
<1> HIDE DEF overflow
<1>5. most \in Nat
  BY <1>4, MaxIs
<1> HIDE DEF most
<1>6. divert \in Nat
  BY <1>1, <1>5, MinIs
<1>7. hours \in Nat
  <2>1. (pending + 7) \div 8 \in Nat
    BY <1>1
  <2>2. QED
    BY <2>1, MaxIs
<1> HIDE DEF divert, hours
<1>8. QED
  BY <1>1, <1>2, <1>6, <1>7, NullAssumption

LEMMA RiderIs ==
    ASSUME NEW d, Given(d), Made(d), NEW r \in Range(d.stats)
    PROVE  r.id \in Rider /\ d.stats[r.id] = r /\ Cardinality(r.active) \in Nat
<1>1. d.stats = [ x \in Rider |-> RiderStats(d, x) ]
  BY DEF Made
<1>2. PICK x \in Rider : r = RiderStats(d, x)
  BY <1>1 DEF Range
<1>3. /\ RiderStats(d, x).id = x
      /\ RiderStats(d, x).active = Active({ s \in d.shipments : s.rider = x })
  BY DEF RiderStats
<1>4. IsFiniteSet(Active({ s \in d.shipments : s.rider = x }))
  BY ParcelsAre, FS_Subset DEF Active
<1>5. QED
  BY <1>1, <1>2, <1>3, <1>4, FS_CardinalityType

\* So is a rider with too many parcels, whether or not another is idle.
LEMMA RiderIsAdvised ==
    ASSUME NEW d, Given(d), Made(d), NEW r \in Range(d.stats), r.workload = "overloaded",
           NEW idle \in SUBSET Range(d.stats)
    PROVE  RecommendForRider(r, idle) # None
<1> DEFINE others == { x \in idle : x.id # r.id }
           ids == { y.id : y \in others }
           to == IF others = {} THEN None ELSE CHOOSE x \in ids : TRUE
           move == Cardinality(r.active) - 4
<1>1. RecommendForRider(r, idle) = [ rider |-> r.id, move |-> move, to |-> to ]
  BY DEF RecommendForRider
<1>2. r.id \in Rider /\ move \in Int
  BY RiderIs
<1>3. to \in Rider \cup { None }
  <2>1. ids \subseteq Rider
    BY RiderIs
  <2>2. others # {} => ids # {}
    OBVIOUS
  <2> HIDE DEF ids, others
  <2>3. QED
    BY <2>1, <2>2
<1> HIDE DEF to, move
<1>4. QED
  BY <1>1, <1>2, <1>3, NullAssumption

\* A hub that is a high outlier is on the list.
LEMMA OutlierIsListed ==
    ASSUME NEW d, Given(d), Made(d), NEW daily, NEW x \in DetectAnomalies(d, daily),
           "hub" \in DOMAIN x, x.severity = "high"
    PROVE  \E h \in Hubs(d) : x.hub = h.id /\ h.health = "critical"
<1> DEFINE real == { h \in Hubs(d) : h.capacity > 0 }
           ids == { h.id : h \in real }
           rate == [ id \in ids |->
                       LET h == CHOOSE y \in real : y.id = id IN (1000 * h.load) \div h.capacity ]
           out == Outliers(rate, 20, TRUE, 600)
<1>1. x \in HubOutliers(d)
  <2>1. ASSUME NEW y \in CityOutliers(d) PROVE "hub" \notin DOMAIN y
    <3>1. PICK city, severity : y = [city |-> city, severity |-> severity]
      BY ZenonT(30) DEF CityOutliers
    <3>2. QED
      BY <3>1
  <2>2. ASSUME NEW y \in RiderOutliers(d) PROVE "hub" \notin DOMAIN y
    <3>1. PICK rider, severity : y = [rider |-> rider, severity |-> severity]
      BY ZenonT(30) DEF RiderOutliers
    <3>2. QED
      BY <3>1
  <2>3. x \in CityOutliers(d) \cup RiderOutliers(d) \cup HubOutliers(d)
        \/ \E series, severity : x = [ series |-> series, severity |-> severity ]
    BY DEF DetectAnomalies
  <2>4. QED
    BY <2>1, <2>2, <2>3
<1>2. HubOutliers(d) = { [hub |-> id, severity |-> IF rate[id] >= 900 THEN "high" ELSE "medium"]
                         : id \in out }
  BY DEF HubOutliers
<1>3. out \subseteq ids
  BY DEF Outliers
<1> HIDE DEF out
<1>4. PICK id \in ids : x = [hub |-> id, severity |-> IF rate[id] >= 900 THEN "high" ELSE "medium"]
  <2> HIDE DEF rate, ids
  <2>1. QED
    BY <1>1, <1>2, <1>3
<1>5. x.hub = id /\ rate[id] >= 900
  <2> HIDE DEF rate
  <2>1. QED
    BY <1>4
<1> DEFINE h == CHOOSE y \in real : y.id = id
<1>6. h \in real /\ h.id = id
  OBVIOUS
<1>7. rate[id] = (1000 * h.load) \div h.capacity
  OBVIOUS
<1> HIDE DEF h, rate, real
<1>8. h \in Hubs(d) /\ h.capacity > 0
  BY <1>6 DEF real
<1>9. h.load \in Nat /\ h.capacity \in Nat /\ (AtLeast(Ratio(h.load, h.capacity), 90) => h.health = "critical")
  BY <1>8, HubIs
<1> DEFINE load == h.load
           capacity == h.capacity
<1>10. load * 100 >= 90 * capacity
  <2>1. load \in Nat /\ capacity \in Nat /\ capacity > 0 /\ (1000 * load) \div capacity >= 900
    BY <1>5, <1>7, <1>8, <1>9
  <2> HIDE DEF load, capacity
  <2> DEFINE q == (1000 * load) \div capacity
  <2>2. q \in Int /\ q * capacity <= 1000 * load
    BY <2>1
  <2>3. q >= 900
    BY <2>1
  <2> HIDE DEF q
  <2>4. 900 * capacity <= q * capacity
    BY <2>1, <2>2, <2>3
  <2>5. QED
    BY <2>1, <2>2, <2>4
<1>11. AtLeast(Ratio(load, capacity), 90)
  <2>1. Ratio(load, capacity) = <<load, capacity>>
    BY <1>8 DEF Ratio
  <2>2. <<load, capacity>> # None
    BY <1>9, NullAssumption
  <2>3. QED
    BY <1>10, <2>1, <2>2 DEF AtLeast
<1>12. QED
  BY <1>5, <1>6, <1>8, <1>9, <1>11

----------------------------------------------------------------------------
\* Which pattern each suggested question meets first.

LEMMA WordsAre ==
    ASSUME NEW q
    PROVE  LET w == q.words IN
           /\ Matches(q, "track") <=> q.tracking # None
           /\ Matches(q, "simulate") <=> q.move # None
           /\ Matches(q, "sla-explain") <=>
                "sla" \in w
                /\ ("fall" \in w \/ "fell" \in w \/ "drop" \in w \/ "down" \in w \/ "worse" \in w \/ "decline" \in w \/ "why" \in w)
           /\ Matches(q, "delayed") <=>
                /\ "delay" \in w \/ "late" \in w \/ "overdue" \in w \/ "breach" \in w
                /\ "shipment" \in w \/ "parcel" \in w \/ "package" \in w \/ "deliver" \in w
           /\ Matches(q, "hub-load") <=>
                "hub" \in w
                /\ ("overload" \in w \/ "congest" \in w \/ "busy" \in w \/ "capacity" \in w \/ "full" \in w)
           /\ Matches(q, "riders-idle") <=>
                "rider" \in w
                /\ ("under" \in w \/ "idle" \in w \/ "unused" \in w \/ "free" \in w \/ "available" \in w \/ "utili" \in w)
           /\ Matches(q, "failures") <=> "fail" \in w
           /\ Matches(q, "merchant-returns")
             <=> "merchant" \in w /\ ("return" \in w \/ "worst" \in w \/ "highest" \in w)
           /\ Matches(q, "forecast") <=>
                "predict" \in w \/ "forecast" \in w \/ "tomorrow" \in w \/ "next week" \in w \/ "next 7" \in w \/ "next 30" \in w
           /\ Matches(q, "routes") <=> "route" \in w \/ "corridor" \in w
<1> DEFINE w == q.words
<1>1. \A a : Says(q, { a }) <=> a \in w
  BY DEF Says
<1>2. \A a, b : Says(q, { a, b }) <=> a \in w \/ b \in w
  BY DEF Says
<1>3. \A a, b, c : Says(q, { a, b, c }) <=> a \in w \/ b \in w \/ c \in w
  BY DEF Says
<1>4. \A a, b, c, e : Says(q, { a, b, c, e }) <=> a \in w \/ b \in w \/ c \in w \/ e \in w
  BY DEF Says
<1> HIDE DEF w
<1>5. /\ Matches(q, "track") <=> q.tracking # None
      /\ Matches(q, "simulate") <=> q.move # None
  BY PatternsAre
<1>6. Matches(q, "sla-explain") <=>
        "sla" \in w
        /\ ("fall" \in w \/ "fell" \in w \/ "drop" \in w \/ "down" \in w \/ "worse" \in w \/ "decline" \in w \/ "why" \in w)
  <2>1. Says(q, { "sla" }) <=> "sla" \in w
    BY <1>1
  <2>2. Says(q, { "fall", "fell", "drop", "down", "worse", "decline", "why" })
          <=> "fall" \in w \/ "fell" \in w \/ "drop" \in w \/ "down" \in w \/ "worse" \in w \/ "decline" \in w \/ "why" \in w
    BY DEF Says, w
  <2>3. QED
    BY <2>1, <2>2, PatternsAre
<1>7. Matches(q, "delayed") <=>
        /\ "delay" \in w \/ "late" \in w \/ "overdue" \in w \/ "breach" \in w
        /\ "shipment" \in w \/ "parcel" \in w \/ "package" \in w \/ "deliver" \in w
  <2>1. Says(q, { "delay", "late", "overdue", "breach" })
          <=> "delay" \in w \/ "late" \in w \/ "overdue" \in w \/ "breach" \in w
    BY <1>4
  <2>2. Says(q, { "shipment", "parcel", "package", "deliver" })
          <=> "shipment" \in w \/ "parcel" \in w \/ "package" \in w \/ "deliver" \in w
    BY <1>4
  <2>3. QED
    BY <2>1, <2>2, PatternsAre
<1>8. /\ Matches(q, "hub-load") <=>
           "hub" \in w
           /\ ("overload" \in w \/ "congest" \in w \/ "busy" \in w \/ "capacity" \in w \/ "full" \in w)
      /\ Matches(q, "riders-idle") <=>
           "rider" \in w
           /\ ("under" \in w \/ "idle" \in w \/ "unused" \in w \/ "free" \in w \/ "available" \in w \/ "utili" \in w)
  <2>1. Says(q, { "overload", "congest", "busy", "capacity", "full" })
         <=> "overload" \in w \/ "congest" \in w \/ "busy" \in w \/ "capacity" \in w \/ "full" \in w
    BY DEF Says, w
  <2>2. Says(q, { "under", "idle", "unused", "free", "available", "utili" })
          <=> "under" \in w \/ "idle" \in w \/ "unused" \in w \/ "free" \in w \/ "available" \in w \/ "utili" \in w
    BY DEF Says, w
  <2>3. QED
    BY <1>1, <2>1, <2>2, PatternsAre
<1>9. /\ Matches(q, "failures") <=> "fail" \in w
      /\ Matches(q, "merchant-returns")
        <=> "merchant" \in w /\ ("return" \in w \/ "worst" \in w \/ "highest" \in w)
  <2>1. Says(q, { "return", "worst", "highest" })
         <=> "return" \in w \/ "worst" \in w \/ "highest" \in w
    BY <1>3
  <2>2. QED
    BY <1>1, <2>1, PatternsAre
<1>10. /\ Matches(q, "forecast") <=>
            "predict" \in w \/ "forecast" \in w \/ "tomorrow" \in w \/ "next week" \in w \/ "next 7" \in w \/ "next 30" \in w
       /\ Matches(q, "routes") <=> "route" \in w \/ "corridor" \in w
  <2>1. Says(q, { "predict", "forecast", "tomorrow", "next week", "next 7", "next 30" })
          <=> "predict" \in w \/ "forecast" \in w \/ "tomorrow" \in w \/ "next week" \in w \/ "next 7" \in w \/ "next 30" \in w
    BY DEF Says, w
  <2>2. Says(q, { "route", "corridor" }) <=> "route" \in w \/ "corridor" \in w
    BY <1>2
  <2>3. QED
    BY <2>1, <2>2, PatternsAre
<1>11. QED
  BY <1>5, <1>6, <1>7, <1>8, <1>9, <1>10 DEF w

\* The patterns that come before the k-th do not fit.
NoneBefore(q, k) == \A i \in 1 .. k - 1 : ~Matches(q, Intents[i])

LEMMA PatternsInOrder ==
    ASSUME NEW q
    PROVE  LET no(intent) == ~Matches(q, intent) IN
           /\ NoneBefore(q, 1)
           /\ NoneBefore(q, 1) /\ no("track") => NoneBefore(q, 2)
           /\ NoneBefore(q, 2) /\ no("simulate") => NoneBefore(q, 3)
           /\ NoneBefore(q, 3) /\ no("sla-explain") => NoneBefore(q, 4)
           /\ NoneBefore(q, 4) /\ no("delayed") => NoneBefore(q, 5)
           /\ NoneBefore(q, 5) /\ no("hub-load") => NoneBefore(q, 6)
           /\ NoneBefore(q, 6) /\ no("riders-idle") => NoneBefore(q, 7)
           /\ NoneBefore(q, 7) /\ no("failures") => NoneBefore(q, 8)
           /\ NoneBefore(q, 8) /\ no("merchant-returns") => NoneBefore(q, 9)
           /\ NoneBefore(q, 9) /\ no("forecast") => NoneBefore(q, 10)
<1>1. /\ Intents[1] = "track" /\ Intents[2] = "simulate" /\ Intents[3] = "sla-explain"
      /\ Intents[4] = "delayed" /\ Intents[5] = "hub-load" /\ Intents[6] = "riders-idle"
      /\ Intents[7] = "failures" /\ Intents[8] = "merchant-returns" /\ Intents[9] = "forecast"
      /\ Intents[10] = "routes"
  BY DEF Intents
<1>2. ASSUME NEW k \in 1 .. 9, NoneBefore(q, k), ~Matches(q, Intents[k]) PROVE NoneBefore(q, k + 1)
  BY <1>2 DEF NoneBefore
<1>3. NoneBefore(q, 1)
  BY DEF NoneBefore
<1>4. QED
  BY <1>1, <1>2, <1>3

LEMMA Taken ==
    ASSUME NEW q, NEW k \in 1 .. 10, NoneBefore(q, k), Matches(q, Intents[k])
    PROVE  IntentOf(q) = Intents[k]
<1>1. DOMAIN Intents = 1 .. 12
  BY DEF Intents
<1>2. k \in DOMAIN Intents /\ \A i \in DOMAIN Intents : i < k => i \in 1 .. k - 1
  BY <1>1
<1>3. QED
  BY <1>2, FirstDecides DEF NoneBefore

LEMMA SuggestedIsTaken ==
    ASSUME NEW ask \in SuggestedQueries("Dhaka", "Sylhet")
    PROVE  IntentOf(ask.q) = ask.intent
<1>1. "Dhaka" # None /\ "Sylhet" # None /\ [riders |-> 3, from |-> "Dhaka", to |-> "Sylhet"] # None
  BY NullAssumption DEF Cities
<1>2. ASSUME NEW words, NEW city, NEW move, NEW intent
      PROVE  LET a == Ask(words, city, move, intent) IN
             /\ a.q.words = words /\ a.q.move = move /\ a.q.tracking = None /\ a.intent = intent
  BY DEF Ask
<1>3. /\ Intents[2] = "simulate" /\ Intents[3] = "sla-explain" /\ Intents[4] = "delayed"
      /\ Intents[5] = "hub-load" /\ Intents[6] = "riders-idle" /\ Intents[7] = "failures"
      /\ Intents[8] = "merchant-returns" /\ Intents[9] = "forecast" /\ Intents[10] = "routes"
  BY DEF Intents
<1>4. ASSUME ask = Ask({ "why", "sla", "fall" }, None, None, "sla-explain")
      PROVE  IntentOf(ask.q) = ask.intent
  <2>1. ask.q.words = { "why", "sla", "fall" } /\ ask.q.move = None /\ ask.q.tracking = None /\ ask.intent = "sla-explain"
    BY <1>4, <1>2
  <2>2. Matches(ask.q, "sla-explain") /\ NoneBefore(ask.q, 3)
    BY <1>1, <2>1, WordsAre, PatternsInOrder
  <2>3. QED
    BY <1>3, <2>1, <2>2, Taken
<1>5. ASSUME ask = Ask({ "delay", "shipment" }, "Sylhet", None, "delayed")
      PROVE  IntentOf(ask.q) = ask.intent
  <2>1. ask.q.words = { "delay", "shipment" } /\ ask.q.move = None /\ ask.q.tracking = None /\ ask.intent = "delayed"
    BY <1>5, <1>2
  <2>2. Matches(ask.q, "delayed") /\ NoneBefore(ask.q, 4)
    BY <1>1, <2>1, WordsAre, PatternsInOrder
  <2>3. QED
    BY <1>3, <2>1, <2>2, Taken
<1>6. ASSUME ask = Ask({ "hub", "overload" }, None, None, "hub-load")
      PROVE  IntentOf(ask.q) = ask.intent
  <2>1. ask.q.words = { "hub", "overload" } /\ ask.q.move = None /\ ask.q.tracking = None /\ ask.intent = "hub-load"
    BY <1>6, <1>2
  <2>2. Matches(ask.q, "hub-load") /\ NoneBefore(ask.q, 5)
    BY <1>1, <2>1, WordsAre, PatternsInOrder
  <2>3. QED
    BY <1>3, <2>1, <2>2, Taken
<1>7. ASSUME ask = Ask({ "rider", "under" }, None, None, "riders-idle")
      PROVE  IntentOf(ask.q) = ask.intent
  <2>1. ask.q.words = { "rider", "under" } /\ ask.q.move = None /\ ask.q.tracking = None /\ ask.intent = "riders-idle"
    BY <1>7, <1>2
  <2>2. Matches(ask.q, "riders-idle") /\ NoneBefore(ask.q, 6)
    BY <1>1, <2>1, WordsAre, PatternsInOrder
  <2>3. QED
    BY <1>3, <2>1, <2>2, Taken
<1>8. ASSUME ask = Ask({ "deliver", "fail" }, None, None, "failures")
      PROVE  IntentOf(ask.q) = ask.intent
  <2>1. ask.q.words = { "deliver", "fail" } /\ ask.q.move = None /\ ask.q.tracking = None /\ ask.intent = "failures"
    BY <1>8, <1>2
  <2>2. Matches(ask.q, "failures") /\ NoneBefore(ask.q, 7)
    BY <1>1, <2>1, WordsAre, PatternsInOrder
  <2>3. QED
    BY <1>3, <2>1, <2>2, Taken
<1>9. ASSUME ask = Ask({ "merchant", "highest", "return" }, None, None, "merchant-returns")
      PROVE  IntentOf(ask.q) = ask.intent
  <2>1. ask.q.words = { "merchant", "highest", "return" } /\ ask.q.move = None /\ ask.q.tracking = None /\ ask.intent = "merchant-returns"
    BY <1>9, <1>2
  <2>2. Matches(ask.q, "merchant-returns") /\ NoneBefore(ask.q, 8)
    BY <1>1, <2>1, WordsAre, PatternsInOrder
  <2>3. QED
    BY <1>3, <2>1, <2>2, Taken
<1>10. ASSUME ask = Ask({ "predict", "tomorrow", "shipment" }, None, None, "forecast")
      PROVE  IntentOf(ask.q) = ask.intent
  <2>1. ask.q.words = { "predict", "tomorrow", "shipment" } /\ ask.q.move = None /\ ask.q.tracking = None /\ ask.intent = "forecast"
    BY <1>10, <1>2
  <2>2. Matches(ask.q, "forecast") /\ NoneBefore(ask.q, 9)
    BY <1>1, <2>1, WordsAre, PatternsInOrder
  <2>3. QED
    BY <1>3, <2>1, <2>2, Taken
<1>11. ASSUME ask = Ask({ "rider" }, "Dhaka", [riders |-> 3, from |-> "Dhaka", to |-> "Sylhet"], "simulate")
      PROVE  IntentOf(ask.q) = ask.intent
  <2>1. ask.q.words = { "rider" } /\ ask.q.move = [riders |-> 3, from |-> "Dhaka", to |-> "Sylhet"] /\ ask.q.tracking = None /\ ask.intent = "simulate"
    BY <1>11, <1>2
  <2>2. Matches(ask.q, "simulate") /\ NoneBefore(ask.q, 2)
    BY <1>1, <2>1, WordsAre, PatternsInOrder
  <2>3. QED
    BY <1>3, <2>1, <2>2, Taken
<1>12. ASSUME ask = Ask({ "route" }, None, None, "routes")
      PROVE  IntentOf(ask.q) = ask.intent
  <2>1. ask.q.words = { "route" } /\ ask.q.move = None /\ ask.q.tracking = None /\ ask.intent = "routes"
    BY <1>12, <1>2
  <2>2. Matches(ask.q, "routes") /\ NoneBefore(ask.q, 10)
    BY <1>1, <2>1, WordsAre, PatternsInOrder
  <2>3. QED
    BY <1>3, <2>1, <2>2, Taken
<1>13. QED
  BY <1>4, <1>5, <1>6, <1>7, <1>8, <1>9, <1>10, <1>11, <1>12 DEF SuggestedQueries

LEMMA AssistantsStand ==
    ASSUME IInv
    PROVE  AssistantsStandByTheList
<1> DEFINE list == snap.exceptions
           idle == { r \in Range(snap.stats) : r.workload = "idle" }
           days == DailySeries(snap.shipments, snap.now, 9)
           history == [ i \in DOMAIN days |-> days[i].created ]
           forecast == ForecastSeries(history, 7)
           raised(kind) == { e.id[2] : e \in { x \in list : x.id[1] = kind } }
<1>1. list = Exceptions(snap)
  BY DEF IInv, Made
<1>2. ASSUME NEW p \in raised("sla")
      PROVE  RecommendForShipment(ShipmentOf(snap, p), FALSE) # None
  <2>1. PICK s \in Active(snap.shipments) : s.sla = "breached" /\ p = s.id
    BY <1>1, ItemsAre
  <2>2. ShipmentOf(snap, p) = s /\ s.isActive
    BY <2>1, ParcelsAre DEF Active, IInv
  <2>3. QED
    BY <2>1, <2>2, LateIsAdvised
<1>3. ASSUME NEW n \in raised("hub") PROVE RecommendForHub(snap.hubs[n]) # None
  <2>1. PICK h \in Hubs(snap) : n = h.id /\ (h.health = "critical" \/ h.health = "warning")
    BY <1>1, ItemsAre
  <2>2. snap.hubs[n] = h
    BY <2>1, HubIs DEF IInv
  <2>3. QED
    BY <2>1, <2>2, HubIsAdvised DEF IInv
<1>4. ASSUME NEW r \in raised("riderload") PROVE RecommendForRider(snap.stats[r], idle) # None
  <2>1. PICK x \in Range(snap.stats) : r = x.id /\ x.workload = "overloaded"
    BY <1>1, ItemsAre
  <2>2. snap.stats[r] = x
    BY <2>1, RiderIs DEF IInv
  <2>3. idle \in SUBSET Range(snap.stats)
    OBVIOUS
  <2> HIDE DEF idle
  <2>4. QED
    BY <2>1, <2>2, <2>3, RiderIsAdvised DEF IInv
<1>5. ASSUME NEW x \in DetectAnomalies(snap, days), "hub" \in DOMAIN x, x.severity = "high"
      PROVE  x.hub \in raised("hub")
  <2>1. PICK h \in Hubs(snap) : x.hub = h.id /\ h.health = "critical"
    BY <1>5, OutlierIsListed DEF IInv
  <2>2. QED
    BY <1>1, <2>1, ListHas
<1>6. ASSUME NEW day \in 1 .. 7 PROVE forecast[day][1] >= 0 /\ forecast[day][2] > 0
  <2>1. history \in Seq(Nat)
    <3>1. ASSUME NEW s \in snap.shipments PROVE s.createdAt \in Int
      <4>1. PICK p \in Package : s = ShipmentOf(snap, p)
        BY DEF IInv, Given, Made, Shipments
      <4>2. Described(snap, p).createdAt = snap.packages[p].created
            /\ "createdAt" \in DOMAIN Described(snap, p)
        BY DEF Described
      <4>3. s.createdAt = snap.packages[p].created
        BY <4>1, <4>2 DEF ShipmentOf
      <4>4. QED
        BY <4>3 DEF IInv, Given, Kept
    <3>2. IsFiniteSet(snap.shipments) /\ snap.now \in Nat
      BY ParcelsAre, TimeAssumption DEF IInv, Given
    <3>3. QED
      BY <3>1, <3>2, DaysIs
  <2> HIDE DEF history
  <2>2. QED
    BY <2>1, ForecastIs
<1>7. \A ask \in SuggestedQueries("Dhaka", "Sylhet") : IntentOf(ask.q) = ask.intent
  BY SuggestedIsTaken
<1>8. QED
  BY <1>2, <1>3, <1>4, <1>5, <1>6, <1>7 DEF AssistantsStandByTheList

----------------------------------------------------------------------------
\* What the rows of a table add up to.

LEMMA TallyIs ==
    ASSUME NEW rows
    PROVE  Tally(rows) = SumOf(rows, DOMAIN rows)
  BY DEF Tally, SumOf, FoldFunction, FoldFunctionOnSet, MapThenSumSet, MapThenFoldSet

\* Rows that split a set between them add up to the sum over it, and count it.
LEMMA RowsAdd ==
    ASSUME NEW S, IsFiniteSet(S), NEW K, IsFiniteSet(K), NEW f, \A x \in S : f[x] \in Int,
           NEW key \in [ S -> K ],
           NEW rows, DOMAIN rows = K, \A k \in K : rows[k] = SumOf(f, Fibre(S, key, k))
    PROVE  Tally(rows) = SumOf(f, S)
  BY TallyIs, SumOfRows

LEMMA RowsCount ==
    ASSUME NEW S, IsFiniteSet(S), NEW K, IsFiniteSet(K), NEW key \in [ S -> K ],
           NEW rows, DOMAIN rows = K, \A k \in K : rows[k] = Cardinality(Fibre(S, key, k))
    PROVE  Tally(rows) = Cardinality(S)
  BY TallyIs, CountOfRows

LEMMA ColumnAdds ==
    ASSUME NEW S, IsFiniteSet(S), NEW K, IsFiniteSet(K), NEW f, \A x \in S : f[x] \in Int,
           NEW key \in [ S -> K ], NEW rows, DOMAIN rows = K,
           NEW field, \A k \in K : rows[k][field] = SumOf(f, Fibre(S, key, k))
    PROVE  Column(rows, field) = SumOf(f, S)
<1> DEFINE column == [ k \in DOMAIN rows |-> rows[k][field] ]
<1>1. DOMAIN column = K /\ \A k \in K : column[k] = SumOf(f, Fibre(S, key, k))
  OBVIOUS
<1> HIDE DEF column
<1>2. Tally(column) = SumOf(f, S)
  BY <1>1, RowsAdd
<1>3. QED
  BY <1>2 DEF Column, column

LEMMA ColumnCounts ==
    ASSUME NEW S, IsFiniteSet(S), NEW K, IsFiniteSet(K), NEW key \in [ S -> K ],
           NEW rows, DOMAIN rows = K,
           NEW field, \A k \in K : rows[k][field] = Cardinality(Fibre(S, key, k))
    PROVE  Column(rows, field) = Cardinality(S)
<1> DEFINE column == [ k \in DOMAIN rows |-> rows[k][field] ]
<1>1. DOMAIN column = K /\ \A k \in K : column[k] = Cardinality(Fibre(S, key, k))
  OBVIOUS
<1> HIDE DEF column
<1>2. Tally(column) = Cardinality(S)
  BY <1>1, RowsCount
<1>3. QED
  BY <1>2 DEF Column, column

\* A sum over the part where there is something to add.
LEMMA SumPart ==
    ASSUME NEW S, IsFiniteSet(S), NEW f, \A x \in S : f[x] \in Int,
           NEW T \in SUBSET S, \A x \in S \ T : f[x] = 0, NEW g, \A x \in T : g[x] = f[x]
    PROVE  SumOf(g, T) = SumOf(f, S)
<1>1. IsFiniteSet(T) /\ \A x \in T : g[x] = f[x] /\ f[x] \in Int
  BY FS_Subset
<1>2. SumOf(g, T) = SumOf(f, T)
  BY <1>1, SumSame
<1>3. SumOf(f, T) = SumOf(f, S)
  BY SumWithout
<1>4. QED
  BY <1>2, <1>3

----------------------------------------------------------------------------
\* The figures of a parcel.

\* The parts of a parcel's cost: its line haul, its attempts, the hubs that handled it.
HaulOf(s) == IF s.status # "CANCELLED" /\ s.group # "pending" THEN s.distanceKm * LinehaulPerKm ELSE 0
RidesOf(s) == Len(s.attempts) * RiderCostPerAttempt
TouchesOf(s) == Max({ s.hubTouches, Points(s.group = "delivered", 2) }) * HubHandlingPerTouch

LEMMA ColumnsAre ==
    ASSUME NEW b, NEW p
    PROVE  LET s == ShipmentOf(b, p)
               pkg == b.packages[p]
           IN  /\ s.merchant = pkg.merchant /\ s.rider = pkg.rider /\ s.service = pkg.service
               /\ s.origin = NodeOrNull(b, pkg.source)
               /\ s.destination = NodeOrNull(b, pkg.destination)
               /\ s.city = IF s.destination # None THEN b.nodes[s.destination].city
                           ELSE IF pkg.customerCity # None THEN pkg.customerCity ELSE "Unknown"
               /\ s.isCod = (pkg.payment = "COD") /\ s.codAmount = CodAmount(pkg)
               /\ s.createdAt = pkg.created /\ s.deliveredAt = pkg.deliveredAt
               /\ s.distanceKm = DistanceKm(b, s.origin, s.destination)
               /\ s.attempts = AttemptsOf(b, p) /\ s.events = EventsOf(b, p)
               /\ s.hubTouches = HubTouches(b.nodes, s.events)
               /\ s.fee = FeeOf(pkg)
               /\ s.cost = CostOf(pkg, s.distanceKm, Len(s.attempts), s.hubTouches)
<1> DEFINE d == Described(b, p)
           pkg == b.packages[p]
           N == { "merchant", "rider", "service", "origin", "destination", "city", "isCod", "codAmount",
                  "createdAt", "deliveredAt", "distanceKm", "attempts", "events", "hubTouches",
                  "fee", "cost" }
<1>1. /\ d.merchant = pkg.merchant /\ d.rider = pkg.rider /\ d.service = pkg.service
      /\ d.origin = NodeOrNull(b, pkg.source)
      /\ d.destination = NodeOrNull(b, pkg.destination)
      /\ d.city = IF d.destination # None THEN b.nodes[d.destination].city
                  ELSE IF pkg.customerCity # None THEN pkg.customerCity ELSE "Unknown"
      /\ d.isCod = (pkg.payment = "COD") /\ d.codAmount = CodAmount(pkg)
      /\ d.createdAt = pkg.created /\ d.deliveredAt = pkg.deliveredAt
      /\ d.distanceKm = DistanceKm(b, d.origin, d.destination)
      /\ d.attempts = AttemptsOf(b, p) /\ d.events = EventsOf(b, p)
      /\ d.hubTouches = HubTouches(b.nodes, d.events)
      /\ d.fee = FeeOf(pkg)
      /\ d.cost = CostOf(pkg, d.distanceKm, Len(d.attempts), d.hubTouches)
  BY DEF Described
<1>2. N \subseteq DOMAIN d /\ "riskScore" \in DOMAIN d
  BY DEF Described
<1> HIDE DEF d, pkg
<1>3. \A x \in N : ShipmentOf(b, p)[x] = d[x]
  BY <1>2 DEF ShipmentOf, d
<1> DEFINE s == ShipmentOf(b, p)
<1>4. /\ s.merchant = d.merchant /\ s.rider = d.rider /\ s.service = d.service
      /\ s.origin = d.origin /\ s.destination = d.destination /\ s.city = d.city
      /\ s.isCod = d.isCod /\ s.codAmount = d.codAmount /\ s.createdAt = d.createdAt
      /\ s.deliveredAt = d.deliveredAt /\ s.distanceKm = d.distanceKm /\ s.attempts = d.attempts
      /\ s.events = d.events /\ s.hubTouches = d.hubTouches /\ s.fee = d.fee /\ s.cost = d.cost
  BY <1>3
<1> HIDE DEF s
<1>5. QED
  BY <1>1, <1>4 DEF s, pkg

\* A status belongs to one stage only.
LEMMA GroupIs ==
    ASSUME NEW stage \in DOMAIN Stages, NEW status \in Stages[stage]
    PROVE  StatusGroup(status) = stage
<1>1. \A g \in DOMAIN Stages : status \in Stages[g] => g = stage
  BY DEF Stages
<1>2. QED
  BY <1>1 DEF StatusGroup

LEMMA TouchesAre ==
    ASSUME NEW d, NEW E, d.events \in Seq(E), NEW p, NEW nodes
    PROVE  HubTouches(nodes, EventsOf(d, p)) \in Nat
<1> DEFINE mine == PlacesOf(d.events, p)
           events == EventsOf(d, p)
           touched == { i \in DOMAIN events : /\ events[i].node \in DOMAIN nodes
                                              /\ nodes[events[i].node].type \in HubTypes }
<1>1. Len(d.events) \in Nat /\ DOMAIN d.events = 1 .. Len(d.events)
  OBVIOUS
<1>2. mine \in SUBSET (1 .. Len(d.events)) /\ IsFiniteSet(1 .. Len(d.events))
  BY <1>1, FS_Interval DEF PlacesOf
<1> HIDE DEF mine
<1>3. Cardinality(mine) \in Nat
  BY <1>2, FS_Subset, FS_CardinalityType
<1>4. DOMAIN events = 1 .. Cardinality(mine)
  BY DEF EventsOf, Ordered, mine
<1>5. IsFiniteSet(DOMAIN events)
  BY <1>3, <1>4, FS_Interval
<1> HIDE DEF events
<1>6. Cardinality(touched) \in Nat
  BY <1>5, FS_Subset, FS_CardinalityType
<1>7. QED
  BY <1>6 DEF HubTouches, events

LEMMA FiguresAre ==
    ASSUME NEW d, Given(d), Made(d), NEW s \in d.shipments
    PROVE  /\ s.status \in PackageStatus
           /\ s.isActive = (s.status \notin TerminalStatuses) /\ s.group = StatusGroup(s.status)
           /\ s.merchant \in Merchant /\ s.rider \in Rider \cup { None }
           /\ s.service \in DOMAIN BaseFee
           /\ s.origin \in DOMAIN Nodes /\ s.destination \in DOMAIN Nodes
           /\ s.city = Nodes[s.destination].city
           /\ s.createdAt \in Int /\ s.createdAt <= 0
           /\ s.deliveredAt \in Int \cup { None }
           /\ s.status = "DELIVERED" <=> s.deliveredAt # None
           /\ s.deliveredAt # None => s.createdAt <= s.deliveredAt
           /\ s.sla \in { "met", "missed" } => s.status = "DELIVERED"
           /\ s.codAmount \in Nat /\ (~s.isCod => s.codAmount = 0)
           /\ s.fee \in Nat /\ (s.status = "CANCELLED" => s.fee = 0)
           /\ HaulOf(s) \in Nat /\ RidesOf(s) \in Nat /\ TouchesOf(s) \in Nat
           /\ s.cost = HaulOf(s) + RidesOf(s) + TouchesOf(s)
<1>1. PICK p \in Package : s = ShipmentOf(d, p)
  BY DEF Given, Made, Shipments
<1> DEFINE pkg == d.packages[p]
<1>2. Kept(pkg)
  BY DEF Given
<1>3. /\ s.status = pkg.status /\ s.isActive = (s.status \notin TerminalStatuses)
      /\ s.group = StatusGroup(s.status) /\ s.sla = SlaOf(d, pkg)
  BY <1>1, ShipmentIs
<1>4. /\ s.merchant = pkg.merchant /\ s.rider = pkg.rider /\ s.service = pkg.service
      /\ s.origin = NodeOrNull(d, pkg.source)
      /\ s.destination = NodeOrNull(d, pkg.destination)
      /\ s.city = IF s.destination # None THEN d.nodes[s.destination].city
                  ELSE IF pkg.customerCity # None THEN pkg.customerCity ELSE "Unknown"
      /\ s.isCod = (pkg.payment = "COD") /\ s.codAmount = CodAmount(pkg)
      /\ s.createdAt = pkg.created /\ s.deliveredAt = pkg.deliveredAt
      /\ s.distanceKm = DistanceKm(d, s.origin, s.destination)
      /\ s.attempts = AttemptsOf(d, p) /\ s.hubTouches = HubTouches(d.nodes, EventsOf(d, p))
      /\ s.fee = FeeOf(pkg)
      /\ s.cost = CostOf(pkg, s.distanceKm, Len(s.attempts), s.hubTouches)
  BY <1>1, ColumnsAre
<1> HIDE DEF pkg
<1>5. /\ s.origin \in DOMAIN Nodes /\ s.destination \in DOMAIN Nodes
      /\ s.city = Nodes[s.destination].city
  <2>1. d.nodes = Nodes /\ pkg.source \in DOMAIN Nodes /\ pkg.destination \in DOMAIN Nodes
    BY <1>2 DEF Given, Kept
  <2>2. s.origin = pkg.source /\ s.destination = pkg.destination /\ s.destination # None
    BY <1>4, <2>1, NullAssumption DEF NodeOrNull
  <2>3. QED
    BY <1>4, <2>1, <2>2
<1>6. s.sla \in { "met", "missed" } => s.status = "DELIVERED"
  <2> DEFINE hours == HoursToSla(d, pkg)
  <2> HIDE DEF hours
  <2>1. QED
    BY <1>3 DEF SlaOf, hours
<1>7. s.codAmount \in Nat /\ (~s.isCod => s.codAmount = 0)
  <2>1. CodAmount(pkg) \in Nat
    BY <1>2 DEF Kept, CodAmount
  <2>2. pkg.payment # "COD" => CodAmount(pkg) = 0
    BY DEF CodAmount
  <2>3. s.codAmount = CodAmount(pkg) /\ s.isCod = (pkg.payment = "COD")
    BY <1>4
  <2>4. QED
    BY <2>1, <2>2, <2>3
<1>8. s.fee \in Nat /\ (s.status = "CANCELLED" => s.fee = 0)
  <2>1. Max({ 0, pkg.weight - 1 }) \in Nat
    BY <1>2, MaxIs DEF Kept
  <2>2. BaseFee[pkg.service] \in Nat
    BY <1>2 DEF Kept, BaseFee
  <2>3. CodFee(CodAmount(pkg)) \in Nat
    BY <1>4, <1>7 DEF CodFee
  <2>4. QED
    BY <1>3, <1>4, <2>1, <2>2, <2>3 DEF FeeOf, DeliveryFee, WeightSurchargePerKg
<1>9. s.distanceKm \in Nat
  <2>1. Distance[<<s.origin, s.destination>>] \in Nat
    BY <1>5, NetworkAssumption
  <2>2. s.distanceKm = IF s.origin # None /\ s.destination # None
                       THEN Distance[<<s.origin, s.destination>>] ELSE 0
    BY <1>4 DEF DistanceKm, Given
  <2>3. QED
    BY <2>1, <2>2
<1>10. Len(s.attempts) \in Nat
  BY <1>4, CountedAttempts DEF Given, Attempt
<1>11. s.hubTouches \in Nat
  BY <1>4, TouchesAre DEF Given
<1>12. Max({ s.hubTouches, Points(s.group = "delivered", 2) }) \in Nat
  <2>1. Points(s.group = "delivered", 2) \in Nat
    BY DEF Points
  <2>2. QED
    BY <1>11, <2>1, MaxIs
<1>13. HaulOf(s) \in Nat /\ RidesOf(s) \in Nat /\ TouchesOf(s) \in Nat
  <2>1. HaulOf(s) \in Nat
    BY <1>9 DEF HaulOf, LinehaulPerKm
  <2>2. RidesOf(s) \in Nat
    BY <1>10 DEF RidesOf, RiderCostPerAttempt
  <2>3. TouchesOf(s) \in Nat
    BY <1>12 DEF TouchesOf, HubHandlingPerTouch
  <2>4. QED
    BY <2>1, <2>2, <2>3
<1>14. s.cost = HaulOf(s) + RidesOf(s) + TouchesOf(s)
  BY <1>3, <1>4 DEF CostOf, HaulOf, RidesOf, TouchesOf
<1>15. /\ s.createdAt \in Int /\ s.createdAt <= 0 /\ s.deliveredAt \in Int \cup { None }
       /\ s.status = "DELIVERED" <=> s.deliveredAt # None
       /\ s.deliveredAt # None => s.createdAt <= s.deliveredAt
       /\ s.status \in PackageStatus /\ s.merchant \in Merchant /\ s.rider \in Rider \cup { None }
       /\ s.service \in DOMAIN BaseFee
  BY <1>2, <1>3, <1>4 DEF Kept
<1>16. QED
  BY <1>3, <1>5, <1>6, <1>7, <1>8, <1>13, <1>14, <1>15

----------------------------------------------------------------------------
\* The money of a set of parcels, as sums over the set.

Cods(S) == [ s \in S |-> s.codAmount ]
Collecteds(S) == [ s \in S |-> IF s.status = "DELIVERED" THEN s.codAmount ELSE 0 ]
Pendings(S) == [ s \in S |-> IF s.isActive THEN s.codAmount ELSE 0 ]
Settleds(S, now) ==
    [ s \in S |-> IF s.status = "DELIVERED" /\ s.deliveredAt <= now - SettlementDays * Day
                  THEN s.codAmount ELSE 0 ]
Fees(S) == [ s \in S |-> s.fee ]
Costs(S) == [ s \in S |-> s.cost ]
Hauls(S) == [ s \in S |-> HaulOf(s) ]
Rides(S) == [ s \in S |-> RidesOf(s) ]
Handlings(S) == [ s \in S |-> TouchesOf(s) ]
Margins(S) == [ s \in S |-> s.fee - s.cost ]

LEMMA MoneyIs ==
    ASSUME NEW d, Given(d), Made(d), NEW now \in Int, NEW s \in d.shipments
    PROVE  LET S == d.shipments IN
           /\ Cods(S)[s] = s.codAmount /\ Cods(S)[s] \in Nat
           /\ Collecteds(S)[s] = (IF s.status = "DELIVERED" THEN s.codAmount ELSE 0)
           /\ Collecteds(S)[s] \in Nat
           /\ Pendings(S)[s] = (IF s.isActive THEN s.codAmount ELSE 0) /\ Pendings(S)[s] \in Nat
           /\ Settleds(S, now)[s] = (IF s.status = "DELIVERED" /\ s.deliveredAt <= now - SettlementDays * Day
                                     THEN s.codAmount ELSE 0)
           /\ Settleds(S, now)[s] \in Nat
           /\ Fees(S)[s] = s.fee /\ Fees(S)[s] \in Nat
           /\ Costs(S)[s] = s.cost /\ Costs(S)[s] \in Nat
           /\ Hauls(S)[s] = HaulOf(s) /\ Hauls(S)[s] \in Nat
           /\ Rides(S)[s] = RidesOf(s) /\ Rides(S)[s] \in Nat
           /\ Handlings(S)[s] = TouchesOf(s) /\ Handlings(S)[s] \in Nat
           /\ Margins(S)[s] = s.fee - s.cost /\ Margins(S)[s] \in Int
<1>1. s.codAmount \in Nat /\ s.fee \in Nat
  BY FiguresAre
<1>2. /\ HaulOf(s) \in Nat /\ RidesOf(s) \in Nat /\ TouchesOf(s) \in Nat
      /\ s.cost = HaulOf(s) + RidesOf(s) + TouchesOf(s)
  BY FiguresAre
<1>3. s.cost \in Nat
  BY <1>2
<1>4. QED
  BY <1>1, <1>2, <1>3 DEF Cods, Collecteds, Pendings, Settleds, Fees, Costs, Hauls, Rides, Handlings, Margins

LEMMA TotalsAre ==
    ASSUME NEW U
    PROVE  /\ Total(Cod, U) = SumOf(Cods(U), U)
           /\ Total(Fee, U) = SumOf(Fees(U), U)
  BY DEF Total, Cod, Fee, Cods, Fees, SumOf, MapThenSumSet, MapThenFoldSet

\* Whatever parcels it is about, a row of the finance pages is made of those sums.
LEMMA FinanceIs ==
    ASSUME NEW d, Given(d), Made(d), NEW now \in Int, NEW ships \in SUBSET d.shipments
    PROVE  LET S == d.shipments
               money == FinanceFor(ships, now)
           IN  /\ money.codGenerated = SumOf(Cods(S), ships)
               /\ money.codCollected = SumOf(Collecteds(S), ships)
               /\ money.codPending = SumOf(Pendings(S), ships)
               /\ money.codSettled = SumOf(Settleds(S, now), ships)
               /\ money.codOutstanding = SumOf(Collecteds(S), ships) - SumOf(Settleds(S, now), ships)
               /\ money.revenue = SumOf(Fees(S), ships)
               /\ money.cost = SumOf(Costs(S), ships)
               /\ money.margin = SumOf(Margins(S), ships)
<1> DEFINE S == d.shipments
           money == FinanceFor(ships, now)
           cod == { s \in ships : s.isCod }
           collected == Delivered(cod)
           deliveredAt(s) == IF s.deliveredAt = None THEN 0 ELSE s.deliveredAt
           settled == { s \in collected : deliveredAt(s) <= now - SettlementDays * Day }
           billed == { s \in ships : s.status # "CANCELLED" }
           hauled == { s \in billed : s.group # "pending" }
           haul == [ s \in hauled |-> s.distanceKm * LinehaulPerKm ]
           ride == [ s \in ships |-> Len(s.attempts) * RiderCostPerAttempt ]
           touch == [ s \in ships |->
                        Max({ s.hubTouches, Points(s.group = "delivered", 2) }) * HubHandlingPerTouch ]
<1>1. /\ money.codGenerated = Total(Cod, cod) /\ money.codCollected = Total(Cod, collected)
      /\ money.codPending = Total(Cod, Active(cod)) /\ money.codSettled = Total(Cod, settled)
      /\ money.codOutstanding = money.codCollected - money.codSettled
      /\ money.revenue = Total(Fee, billed)
      /\ money.cost = money.linehaulCost + money.riderCost + money.hubCost
      /\ money.margin = money.revenue - money.cost
  BY DEF FinanceFor
<1>2. /\ money.linehaulCost = SumOf(haul, hauled) /\ money.riderCost = SumOf(ride, ships)
      /\ money.hubCost = SumOf(touch, ships)
  <2>1. money.linehaulCost = SumOf(haul, hauled)
    <3>1. money.linehaulCost = MapThenSumSet(LAMBDA s : s.distanceKm * LinehaulPerKm, hauled)
      BY DEF FinanceFor
    <3>2. MapThenSumSet(LAMBDA s : s.distanceKm * LinehaulPerKm, hauled) = SumOf(haul, hauled)
      <4> HIDE DEF hauled
      <4>1. QED
        BY DEF SumOf, MapThenSumSet, MapThenFoldSet
    <3>3. QED
      BY <3>1, <3>2
  <2>2. money.riderCost = SumOf(ride, ships)
    BY DEF FinanceFor, SumOf, MapThenSumSet, MapThenFoldSet
  <2>3. money.hubCost = SumOf(touch, ships)
    BY DEF FinanceFor, SumOf, MapThenSumSet, MapThenFoldSet
  <2>4. QED
    BY <2>1, <2>2, <2>3
<1>3. IsFiniteSet(ships) /\ ships \in SUBSET S
  BY ParcelsAre, FS_Subset
<1>4. ASSUME NEW s \in ships
      PROVE  /\ s.isActive = (s.status \notin TerminalStatuses)
             /\ s.status = "DELIVERED" <=> s.deliveredAt # None
             /\ s.codAmount \in Nat /\ (~s.isCod => s.codAmount = 0)
             /\ s.fee \in Nat /\ (s.status = "CANCELLED" => s.fee = 0)
             /\ HaulOf(s) \in Nat /\ RidesOf(s) \in Nat /\ TouchesOf(s) \in Nat
             /\ s.cost = HaulOf(s) + RidesOf(s) + TouchesOf(s)
  <2>1. s \in d.shipments
    BY <1>3
  <2>2. QED
    BY <2>1, FiguresAre
<1>5. ASSUME NEW s \in ships
      PROVE  /\ Cods(S)[s] = s.codAmount
             /\ Collecteds(S)[s] = (IF s.status = "DELIVERED" THEN s.codAmount ELSE 0)
             /\ Pendings(S)[s] = (IF s.isActive THEN s.codAmount ELSE 0)
             /\ Settleds(S, now)[s] = (IF s.status = "DELIVERED" /\ s.deliveredAt <= now - SettlementDays * Day
                                       THEN s.codAmount ELSE 0)
             /\ Fees(S)[s] = s.fee /\ Costs(S)[s] = s.cost
             /\ Hauls(S)[s] = HaulOf(s) /\ Rides(S)[s] = RidesOf(s) /\ Handlings(S)[s] = TouchesOf(s)
             /\ Margins(S)[s] = s.fee - s.cost
  <2>1. s \in S
    BY <1>3
  <2>2. QED
    BY <2>1 DEF Cods, Collecteds, Pendings, Settleds, Fees, Costs, Hauls, Rides, Handlings, Margins
<1> HIDE DEF money, S
<1>6. \A s \in ships : /\ Cods(S)[s] \in Nat /\ Collecteds(S)[s] \in Nat /\ Pendings(S)[s] \in Nat
                       /\ Settleds(S, now)[s] \in Nat /\ Fees(S)[s] \in Nat /\ Costs(S)[s] \in Nat
                       /\ Hauls(S)[s] \in Nat /\ Rides(S)[s] \in Nat /\ Handlings(S)[s] \in Nat
                       /\ Margins(S)[s] \in Int
  BY <1>4, <1>5
\* COD.
<1>7. ASSUME NEW U \in SUBSET ships, NEW f, \A s \in ships : f[s] \in Int,
             \A s \in U : s.codAmount = f[s], \A s \in ships \ U : f[s] = 0
      PROVE  Total(Cod, U) = SumOf(f, ships)
  <2>1. \A s \in U : Cods(U)[s] = f[s]
    BY <1>7 DEF Cods
  <2>2. SumOf(Cods(U), U) = SumOf(f, ships)
    BY <1>3, <1>7, <2>1, SumPart
  <2>3. QED
    BY <2>2, TotalsAre
<1>8. Total(Cod, cod) = SumOf(Cods(S), ships)
  BY <1>4, <1>5, <1>6, <1>7
<1>9. Total(Cod, collected) = SumOf(Collecteds(S), ships)
  <2>1. collected \in SUBSET ships
    BY DEF Delivered
  <2>2. \A s \in collected : s.codAmount = Collecteds(S)[s]
    BY <1>5 DEF Delivered
  <2>3. \A s \in ships \ collected : Collecteds(S)[s] = 0
    BY <1>4, <1>5 DEF Delivered
  <2> HIDE DEF collected
  <2>4. QED
    BY <1>6, <1>7, <2>1, <2>2, <2>3
<1>10. Total(Cod, Active(cod)) = SumOf(Pendings(S), ships)
  <2>1. Active(cod) \in SUBSET ships
    BY DEF Active
  <2>2. \A s \in Active(cod) : s.codAmount = Pendings(S)[s]
    BY <1>5 DEF Active
  <2>3. \A s \in ships \ Active(cod) : Pendings(S)[s] = 0
    BY <1>4, <1>5 DEF Active
  <2> HIDE DEF cod
  <2>4. QED
    BY <1>6, <1>7, <2>1, <2>2, <2>3
<1>11. Total(Cod, settled) = SumOf(Settleds(S, now), ships)
  <2>1. settled \in SUBSET ships
    BY DEF Delivered
  <2>2. \A s \in settled : s.codAmount = Settleds(S, now)[s]
    BY <1>4, <1>5 DEF Delivered
  <2>3. \A s \in ships \ settled : Settleds(S, now)[s] = 0
    BY <1>4, <1>5 DEF Delivered
  <2> HIDE DEF settled
  <2>4. QED
    BY <1>6, <1>7, <2>1, <2>2, <2>3
\* Fees.
<1>12. Total(Fee, billed) = SumOf(Fees(S), ships)
  <2>1. billed \in SUBSET ships
    OBVIOUS
  <2>2. \A s \in billed : Fees(billed)[s] = Fees(S)[s]
    BY <1>5 DEF Fees
  <2>3. \A s \in ships \ billed : Fees(S)[s] = 0
    BY <1>4, <1>5
  <2> HIDE DEF billed
  <2>4. SumOf(Fees(billed), billed) = SumOf(Fees(S), ships)
    BY <1>3, <1>6, <2>1, <2>2, <2>3, SumPart
  <2>5. QED
    BY <2>4, TotalsAre
\* Costs.
<1>13. SumOf(haul, hauled) = SumOf(Hauls(S), ships)
  <2>1. hauled \in SUBSET ships
    OBVIOUS
  <2>2. \A s \in hauled : haul[s] = Hauls(S)[s]
    BY <1>5 DEF HaulOf
  <2>3. \A s \in ships \ hauled : Hauls(S)[s] = 0
    BY <1>5 DEF HaulOf
  <2> HIDE DEF hauled, haul
  <2>4. QED
    BY <1>3, <1>6, <2>1, <2>2, <2>3, SumPart
<1>14. SumOf(ride, ships) = SumOf(Rides(S), ships)
  <2>1. \A s \in ships : ride[s] = Rides(S)[s] /\ Rides(S)[s] \in Int
    BY <1>5, <1>6 DEF RidesOf
  <2> HIDE DEF ride
  <2>2. QED
    BY <1>3, <2>1, SumSame
<1>15. SumOf(touch, ships) = SumOf(Handlings(S), ships)
  <2>1. \A s \in ships : touch[s] = Handlings(S)[s] /\ Handlings(S)[s] \in Int
    BY <1>5, <1>6 DEF TouchesOf
  <2> HIDE DEF touch
  <2>2. QED
    BY <1>3, <2>1, SumSame
<1> HIDE DEF haul, ride, touch, hauled, billed, settled, collected, cod
<1> DEFINE both == [ s \in ships |-> Hauls(S)[s] + Rides(S)[s] ]
<1>16. SumOf(both, ships) = SumOf(Hauls(S), ships) + SumOf(Rides(S), ships)
  <2>1. \A s \in ships : Hauls(S)[s] \in Int /\ Rides(S)[s] \in Int /\ both[s] = Hauls(S)[s] + Rides(S)[s]
    BY <1>6
  <2> HIDE DEF both
  <2>2. QED
    BY <1>3, <2>1, SumPlus
<1>17. SumOf(Costs(S), ships) = SumOf(both, ships) + SumOf(Handlings(S), ships)
  <2>1. \A s \in ships : /\ both[s] \in Int /\ Handlings(S)[s] \in Int
                         /\ Costs(S)[s] = both[s] + Handlings(S)[s]
    BY <1>4, <1>5
  <2> HIDE DEF both
  <2>2. QED
    BY <1>3, <2>1, SumPlus
<1>18. money.cost = SumOf(Costs(S), ships)
  <2> HIDE DEF both
  <2>1. money.cost = SumOf(Hauls(S), ships) + SumOf(Rides(S), ships) + SumOf(Handlings(S), ships)
    BY <1>1, <1>2, <1>13, <1>14, <1>15
  <2>2. QED
    BY <1>16, <1>17, <2>1
<1>19. money.margin = SumOf(Margins(S), ships)
  <2>1. \A s \in ships : /\ Margins(S)[s] \in Int /\ Costs(S)[s] \in Int
                         /\ Fees(S)[s] = Margins(S)[s] + Costs(S)[s]
    BY <1>4, <1>5
  <2>2. SumOf(Fees(S), ships) = SumOf(Margins(S), ships) + SumOf(Costs(S), ships)
    BY <1>3, <2>1, SumPlus
  <2>3. SumOf(Margins(S), ships) \in Int /\ SumOf(Costs(S), ships) \in Int
    BY <1>3, <2>1, SumInt
  <2>4. money.margin = SumOf(Fees(S), ships) - SumOf(Costs(S), ships)
    BY <1>1, <1>12, <1>18
  <2>5. QED
    BY <2>2, <2>3, <2>4
<1>20. /\ money.codGenerated = SumOf(Cods(S), ships)
       /\ money.codCollected = SumOf(Collecteds(S), ships)
       /\ money.codPending = SumOf(Pendings(S), ships)
       /\ money.codSettled = SumOf(Settleds(S, now), ships)
       /\ money.codOutstanding = SumOf(Collecteds(S), ships) - SumOf(Settleds(S, now), ships)
       /\ money.revenue = SumOf(Fees(S), ships)
  BY <1>1, <1>8, <1>9, <1>10, <1>11, <1>12
<1>21. QED
  BY <1>18, <1>19, <1>20 DEF S, money

LEMMA MerchantIs ==
    ASSUME NEW d, Given(d), Made(d), NEW ships \in SUBSET d.shipments
    PROVE  LET S == d.shipments
               row == MerchantStats(ships)
           IN  /\ row.codValue = SumOf(Cods(S), ships)
               /\ row.codCollected = SumOf(Collecteds(S), ships)
               /\ row.codPending = SumOf(Pendings(S), ships)
               /\ row.revenue = SumOf(Fees(S), ships)
<1> DEFINE S == d.shipments
           row == MerchantStats(ships)
<1>1. /\ row.codValue = Total(Cod, ships) /\ row.codCollected = Total(Cod, Delivered(ships))
      /\ row.codPending = Total(Cod, Active(ships)) /\ row.revenue = Total(Fee, ships)
  BY DEF MerchantStats
<1>2. IsFiniteSet(ships) /\ ships \in SUBSET S
  BY ParcelsAre, FS_Subset
<1>3. ASSUME NEW s \in ships
      PROVE  /\ s.codAmount \in Nat /\ s.fee \in Nat
             /\ Cods(S)[s] = s.codAmount /\ Fees(S)[s] = s.fee
             /\ Collecteds(S)[s] = (IF s.status = "DELIVERED" THEN s.codAmount ELSE 0)
             /\ Pendings(S)[s] = (IF s.isActive THEN s.codAmount ELSE 0)
  <2>1. s \in d.shipments
    BY <1>2
  <2>2. s.codAmount \in Nat /\ s.fee \in Nat
    BY <2>1, FiguresAre
  <2>3. QED
    BY <2>1, <2>2 DEF Cods, Fees, Collecteds, Pendings
<1> HIDE DEF row, S
<1>4. \A s \in ships : /\ Cods(S)[s] \in Int /\ Fees(S)[s] \in Int
                       /\ Collecteds(S)[s] \in Int /\ Pendings(S)[s] \in Int
  BY <1>3
<1>5. ASSUME NEW U \in SUBSET ships, NEW f, \A s \in ships : f[s] \in Int,
             \A s \in U : s.codAmount = f[s], \A s \in ships \ U : f[s] = 0
      PROVE  Total(Cod, U) = SumOf(f, ships)
  <2>1. \A s \in U : Cods(U)[s] = f[s]
    BY <1>5 DEF Cods
  <2>2. SumOf(Cods(U), U) = SumOf(f, ships)
    BY <1>2, <1>5, <2>1, SumPart
  <2>3. QED
    BY <2>2, TotalsAre
<1>6. row.codValue = SumOf(Cods(S), ships)
  BY <1>1, <1>3, <1>4, <1>5
<1>7. row.codCollected = SumOf(Collecteds(S), ships)
  <2>1. /\ Delivered(ships) \in SUBSET ships
        /\ \A s \in Delivered(ships) : s.codAmount = Collecteds(S)[s]
        /\ \A s \in ships \ Delivered(ships) : Collecteds(S)[s] = 0
    BY <1>3 DEF Delivered
  <2>2. QED
    BY <1>1, <1>4, <1>5, <2>1
<1>8. row.codPending = SumOf(Pendings(S), ships)
  <2>1. /\ Active(ships) \in SUBSET ships
        /\ \A s \in Active(ships) : s.codAmount = Pendings(S)[s]
        /\ \A s \in ships \ Active(ships) : Pendings(S)[s] = 0
    BY <1>3 DEF Active
  <2>2. QED
    BY <1>1, <1>4, <1>5, <2>1
<1>9. row.revenue = SumOf(Fees(S), ships)
  <2>1. \A s \in ships : Fees(ships)[s] = Fees(S)[s] /\ Fees(S)[s] \in Int
    BY <1>3, <1>4 DEF Fees
  <2>2. SumOf(Fees(ships), ships) = SumOf(Fees(S), ships)
    BY <1>2, <2>1, SumSame
  <2>3. QED
    BY <1>1, <2>2, TotalsAre
<1>10. QED
  BY <1>6, <1>7, <1>8, <1>9 DEF S, row

\* The parcels with a key are its fibre.
KeyOf(S, field) == [ s \in S |-> s[field] ]

LEMMA MoneyAgrees ==
    ASSUME IInv
    PROVE  ViewsAgree
<1> DEFINE S == snap.shipments
           all == FinanceFor(S, snap.now)
           rows == [ m \in Merchants(snap) |-> MerchantStats(MerchantShipments(snap, m)) ]
           closed == { s \in S : ~s.isActive /\ s.status # "DELIVERED" }
           byMerchant == KeyOf(S, "merchant")
           byRider == KeyOf(S, "rider")
           seats == Rider \cup { None }
<1>1. Given(snap) /\ Made(snap) /\ snap.now \in Nat /\ IsFiniteSet(S)
  BY ParcelsAre, TimeAssumption DEF IInv, Given
<1>2. \A s \in S : /\ s.merchant \in Merchant /\ s.rider \in seats
                   /\ s.isActive = (s.status \notin TerminalStatuses)
  BY <1>1, FiguresAre
<1>3. /\ all.codGenerated = SumOf(Cods(S), S) /\ all.codCollected = SumOf(Collecteds(S), S)
      /\ all.codPending = SumOf(Pendings(S), S)
      /\ all.codOutstanding = SumOf(Collecteds(S), S) - SumOf(Settleds(S, snap.now), S)
      /\ all.revenue = SumOf(Fees(S), S) /\ all.cost = SumOf(Costs(S), S)
  BY <1>1, FinanceIs
<1>4. \A s \in S : /\ Cods(S)[s] = s.codAmount /\ Cods(S)[s] \in Nat
                   /\ Collecteds(S)[s] = (IF s.status = "DELIVERED" THEN s.codAmount ELSE 0)
                   /\ Collecteds(S)[s] \in Nat
                   /\ Pendings(S)[s] = (IF s.isActive THEN s.codAmount ELSE 0) /\ Pendings(S)[s] \in Nat
                   /\ Settleds(S, snap.now)[s] <= Collecteds(S)[s] /\ Settleds(S, snap.now)[s] \in Nat
                   /\ Fees(S)[s] \in Nat /\ Costs(S)[s] = s.cost /\ Costs(S)[s] \in Nat
  <2> SUFFICES ASSUME NEW s \in S
               PROVE  /\ Cods(S)[s] = s.codAmount /\ Cods(S)[s] \in Nat
                      /\ Collecteds(S)[s] = (IF s.status = "DELIVERED" THEN s.codAmount ELSE 0)
                      /\ Collecteds(S)[s] \in Nat
                      /\ Pendings(S)[s] = (IF s.isActive THEN s.codAmount ELSE 0)
                      /\ Pendings(S)[s] \in Nat
                      /\ Settleds(S, snap.now)[s] <= Collecteds(S)[s]
                      /\ Settleds(S, snap.now)[s] \in Nat
                      /\ Fees(S)[s] \in Nat /\ Costs(S)[s] = s.cost /\ Costs(S)[s] \in Nat
    OBVIOUS
  <2>1. s.codAmount \in Nat
    BY <1>1, FiguresAre
  <2>2. QED
    BY <1>1, <2>1, MoneyIs
<1>5. Merchants(snap) = Merchant /\ IsFiniteSet(Merchant) /\ DOMAIN rows = Merchant
  BY <1>1, <1>2, SizeAssumption DEF Merchants, Given
<1>6. byMerchant \in [ S -> Merchant ] /\ \A m : MerchantShipments(snap, m) = Fibre(S, byMerchant, m)
  BY <1>2 DEF KeyOf, MerchantShipments, Fibre
<1>7. \A m \in Merchant :
        /\ rows[m].codValue = SumOf(Cods(S), Fibre(S, byMerchant, m))
        /\ rows[m].codCollected = SumOf(Collecteds(S), Fibre(S, byMerchant, m))
        /\ rows[m].codPending = SumOf(Pendings(S), Fibre(S, byMerchant, m))
        /\ rows[m].revenue = SumOf(Fees(S), Fibre(S, byMerchant, m))
  <2> SUFFICES ASSUME NEW m \in Merchant
               PROVE  /\ rows[m].codValue = SumOf(Cods(S), Fibre(S, byMerchant, m))
                      /\ rows[m].codCollected = SumOf(Collecteds(S), Fibre(S, byMerchant, m))
                      /\ rows[m].codPending = SumOf(Pendings(S), Fibre(S, byMerchant, m))
                      /\ rows[m].revenue = SumOf(Fees(S), Fibre(S, byMerchant, m))
    OBVIOUS
  <2>1. rows[m] = MerchantStats(Fibre(S, byMerchant, m))
    BY <1>5, <1>6
  <2>2. Fibre(S, byMerchant, m) \in SUBSET S
    BY DEF Fibre
  <2> HIDE DEF rows, byMerchant
  <2>3. QED
    BY <1>1, <2>1, <2>2, MerchantIs
<1> HIDE DEF rows, byMerchant, S
<1>8. /\ Column(rows, "codValue") = SumOf(Cods(S), S)
      /\ Column(rows, "codCollected") = SumOf(Collecteds(S), S)
      /\ Column(rows, "codPending") = SumOf(Pendings(S), S)
      /\ Column(rows, "revenue") = SumOf(Fees(S), S)
  <2>1. \A s \in S : /\ Cods(S)[s] \in Int /\ Collecteds(S)[s] \in Int /\ Pendings(S)[s] \in Int
                     /\ Fees(S)[s] \in Int
    BY <1>4
  <2>2. Column(rows, "codValue") = SumOf(Cods(S), S)
    BY <1>1, <1>5, <1>6, <1>7, <2>1, ColumnAdds
  <2>3. Column(rows, "codCollected") = SumOf(Collecteds(S), S)
    BY <1>1, <1>5, <1>6, <1>7, <2>1, ColumnAdds
  <2>4. Column(rows, "codPending") = SumOf(Pendings(S), S)
    BY <1>1, <1>5, <1>6, <1>7, <2>1, ColumnAdds
  <2>5. Column(rows, "revenue") = SumOf(Fees(S), S)
    BY <1>1, <1>5, <1>6, <1>7, <2>1, ColumnAdds
  <2>6. QED
    BY <2>2, <2>3, <2>4, <2>5
<1>9. Tally([ s \in S |-> s.cost ]) = SumOf(Costs(S), S)
  BY TallyIs DEF Costs
\* Collected, pending and closed make up what was generated.
<1> DEFINE rest == [ s \in S |-> IF ~s.isActive /\ s.status # "DELIVERED" THEN s.codAmount ELSE 0 ]
           open == [ s \in S |-> Pendings(S)[s] + rest[s] ]
<1>10. \A s \in S : /\ rest[s] = (IF ~s.isActive /\ s.status # "DELIVERED" THEN s.codAmount ELSE 0)
                    /\ rest[s] \in Int /\ Pendings(S)[s] \in Int /\ Collecteds(S)[s] \in Int
                    /\ open[s] = Pendings(S)[s] + rest[s] /\ open[s] \in Int
                    /\ Cods(S)[s] = Collecteds(S)[s] + open[s]
  <2> SUFFICES ASSUME NEW s \in S
               PROVE  /\ rest[s] \in Int /\ Pendings(S)[s] \in Int /\ Collecteds(S)[s] \in Int
                      /\ open[s] = Pendings(S)[s] + rest[s] /\ open[s] \in Int
                      /\ Cods(S)[s] = Collecteds(S)[s] + open[s]
    OBVIOUS
  <2>1. s.codAmount \in Nat /\ Pendings(S)[s] \in Int /\ Collecteds(S)[s] \in Int
    BY <1>4
  <2>2. ~(s.isActive /\ s.status = "DELIVERED")
    BY <1>2 DEF TerminalStatuses, S
  <2>3. QED
    BY <1>4, <2>1, <2>2
<1> HIDE DEF rest, open
<1>11. SumOf(open, S) = SumOf(Pendings(S), S) + SumOf(rest, S)
  BY <1>1, <1>10, SumPlus DEF S
<1>12. SumOf(Cods(S), S) = SumOf(Collecteds(S), S) + SumOf(open, S)
  BY <1>1, <1>10, SumPlus DEF S
<1>13. Total(Cod, closed) = SumOf(rest, S)
  <2>1. closed \in SUBSET S /\ \A s \in S \ closed : rest[s] = 0
    BY <1>10 DEF S
  <2>2. \A s \in closed : Cods(closed)[s] = rest[s]
    BY <1>10 DEF Cods, S
  <2>3. \A s \in S : rest[s] \in Int
    BY <1>10
  <2> HIDE DEF closed
  <2>4. SumOf(Cods(closed), closed) = SumOf(rest, S)
    BY <1>1, <2>1, <2>2, <2>3, SumPart DEF S
  <2>5. QED
    BY <2>4, TotalsAre
<1>14. /\ SumOf(Collecteds(S), S) \in Int /\ SumOf(Pendings(S), S) \in Int /\ SumOf(rest, S) \in Int
       /\ SumOf(Settleds(S, snap.now), S) \in Int
       /\ SumOf(Settleds(S, snap.now), S) <= SumOf(Collecteds(S), S)
  <2>1. \A s \in S : /\ Collecteds(S)[s] \in Int /\ Pendings(S)[s] \in Int /\ rest[s] \in Int
                     /\ Settleds(S, snap.now)[s] \in Int
                     /\ Settleds(S, snap.now)[s] <= Collecteds(S)[s]
    BY <1>4, <1>10
  <2>2. IsFiniteSet(S)
    BY <1>1 DEF S
  <2>3. SumOf(Collecteds(S), S) \in Int /\ SumOf(Pendings(S), S) \in Int /\ SumOf(rest, S) \in Int
    BY <2>1, <2>2, SumInt
  <2>4. SumOf(Settleds(S, snap.now), S) \in Int
    BY <2>1, <2>2, SumInt
  <2>5. SumOf(Settleds(S, snap.now), S) <= SumOf(Collecteds(S), S)
    BY <2>1, <2>2, SumGrowsWith
  <2>6. QED
    BY <2>3, <2>4, <2>5
<1>15. SumOf(Cods(S), S) = SumOf(Collecteds(S), S) + SumOf(Pendings(S), S) + SumOf(rest, S)
  BY <1>11, <1>12, <1>14
<1>16. SumOf(Collecteds(S), S) - SumOf(Settleds(S, snap.now), S) >= 0
  BY <1>14
\* What the riders have collected.
<1>17. Column(snap.stats, "codCollected") <= SumOf(Collecteds(S), S)
  <2> DEFINE cash == [ r \in seats |-> SumOf(Collecteds(S), Fibre(S, byRider, r)) ]
             theirs == [ r \in DOMAIN snap.stats |-> snap.stats[r]["codCollected"] ]
  <2>1. IsFiniteSet(seats) /\ IsFiniteSet(S) /\ IsFiniteSet(Rider)
    BY <1>1, SizeAssumption, FS_AddElement DEF S
  <2>2. byRider \in [ S -> seats ]
    BY <1>2 DEF KeyOf, S
  <2>3. \A r \in seats : Fibre(S, byRider, r) \in SUBSET S
    BY DEF Fibre
  <2>4. \A s \in S : Collecteds(S)[s] \in Int /\ Collecteds(S)[s] \in Nat
    BY <1>4
  <2>5. \A r \in seats : cash[r] \in Nat
    <3> SUFFICES ASSUME NEW r \in seats PROVE cash[r] \in Nat
      OBVIOUS
    <3>1. /\ IsFiniteSet(Fibre(S, byRider, r))
          /\ \A s \in Fibre(S, byRider, r) : Collecteds(S)[s] \in Nat
      BY <2>1, <2>3, <2>4, FS_Subset
    <3>2. 0 \in Nat /\ \A a, b \in Nat : a + b \in Nat
      OBVIOUS
    <3>3. QED
      BY <3>1, <3>2, SumIs
  <2>6. SumOf(cash, seats) = SumOf(Collecteds(S), S)
    <3>1. \A r \in seats : cash[r] = SumOf(Collecteds(S), Fibre(S, byRider, r))
      OBVIOUS
    <3> HIDE DEF cash, seats, byRider
    <3>2. QED
      BY <2>1, <2>2, <2>4, <3>1, SumOfRows
  <2>7. DOMAIN theirs = Rider /\ \A r \in Rider : theirs[r] = cash[r]
    <3>1. DOMAIN snap.stats = Rider /\ \A r \in Rider : snap.stats[r] = RiderStats(snap, r)
      BY <1>1 DEF Made
    <3>2. ASSUME NEW r \in Rider PROVE RiderStats(snap, r).codCollected = cash[r]
      <4> DEFINE mine == { s \in S : s.rider = r }
      <4>1. RiderStats(snap, r).codCollected = Total(Cod, Delivered(mine))
        BY DEF RiderStats, S
      <4>2. mine = Fibre(S, byRider, r)
        BY DEF Fibre, KeyOf
      <4>3. IsFiniteSet(mine) /\ mine \in SUBSET S
        BY <2>1, FS_Subset
      <4>4. Delivered(mine) \in SUBSET mine
        BY DEF Delivered
      <4>5. \A s \in Delivered(mine) : Cods(Delivered(mine))[s] = Collecteds(S)[s]
        BY <1>4, <4>3 DEF Delivered, Cods
      <4>6. \A s \in mine \ Delivered(mine) : Collecteds(S)[s] = 0
        BY <1>4, <4>3 DEF Delivered
      <4>7. \A s \in mine : Collecteds(S)[s] \in Int
        BY <2>4, <4>3
      <4> HIDE DEF mine
      <4>8. SumOf(Cods(Delivered(mine)), Delivered(mine)) = SumOf(Collecteds(S), mine)
        BY <4>3, <4>4, <4>5, <4>6, <4>7, SumPart
      <4>9. cash[r] = SumOf(Collecteds(S), Fibre(S, byRider, r))
        OBVIOUS
      <4>10. QED
        BY <4>1, <4>2, <4>8, <4>9, TotalsAre
    <3> HIDE DEF cash
    <3>3. QED
      BY <3>1, <3>2
  <2> HIDE DEF cash, theirs
  <2>8. SumOf(theirs, Rider) = SumOf(cash, Rider)
    <3>1. \A r \in Rider : theirs[r] = cash[r] /\ cash[r] \in Int
      BY <2>5, <2>7
    <3>2. QED
      BY <2>1, <3>1, SumSame
  <2>9. SumOf(cash, Rider) <= SumOf(cash, seats)
    <3>1. Rider \in SUBSET seats
      OBVIOUS
    <3> HIDE DEF seats
    <3>2. QED
      BY <2>1, <2>5, <3>1, SumWithin
  <2>10. Column(snap.stats, "codCollected") = SumOf(theirs, Rider)
    BY <2>7, TallyIs DEF Column, theirs
  <2>11. QED
    BY <2>6, <2>8, <2>9, <2>10
<1>18. QED
  BY <1>3, <1>8, <1>9, <1>13, <1>15, <1>16, <1>17 DEF ViewsAgree, S, rows

LEMMA FewAreFinite ==
    ASSUME NEW a, NEW b, NEW c, NEW d, NEW e, NEW f, NEW g, NEW h
    PROVE  IsFiniteSet({ a, b, c, d, e, f, g, h })
<1>1. IsFiniteSet({ a }) /\ IsFiniteSet({ b }) /\ IsFiniteSet({ c }) /\ IsFiniteSet({ d })
      /\ IsFiniteSet({ e }) /\ IsFiniteSet({ f }) /\ IsFiniteSet({ g }) /\ IsFiniteSet({ h })
  BY FS_Singleton
<1>2. IsFiniteSet({ a } \cup { b }) /\ IsFiniteSet({ c } \cup { d })
      /\ IsFiniteSet({ e } \cup { f }) /\ IsFiniteSet({ g } \cup { h })
  BY <1>1, FS_Union
<1>3. /\ IsFiniteSet(({ a } \cup { b }) \cup ({ c } \cup { d }))
      /\ IsFiniteSet(({ e } \cup { f }) \cup ({ g } \cup { h }))
  BY <1>2, FS_Union
<1>4. IsFiniteSet((({ a } \cup { b }) \cup ({ c } \cup { d })) \cup (({ e } \cup { f }) \cup ({ g } \cup { h })))
  BY <1>3, FS_Union
<1>5. { a, b, c, d, e, f, g, h }
        = (({ a } \cup { b }) \cup ({ c } \cup { d })) \cup (({ e } \cup { f }) \cup ({ g } \cup { h }))
  OBVIOUS
<1>6. QED
  BY <1>4, <1>5

LEMMA KeysAre ==
    ASSUME NEW S, IsFiniteSet(S), NEW field
    PROVE  /\ IsFiniteSet({ s[field] : s \in S })
           /\ KeyOf(S, field) \in [ S -> { s[field] : s \in S } ]
<1> DEFINE K == { s[field] : s \in S }
<1>1. KeyOf(S, field) \in Surjection(S, K)
  BY DEF KeyOf, Surjection
<1>2. QED
  BY <1>1, FS_Surjection DEF Surjection

\* A part and the rest.
LEMMA PartsCount ==
    ASSUME NEW S, IsFiniteSet(S), NEW T \in SUBSET S
    PROVE  /\ Cardinality(T) + Cardinality(S \ T) = Cardinality(S)
           /\ Cardinality(T) \in Nat /\ Cardinality(S \ T) \in Nat /\ Cardinality(S) \in Nat
<1>1. /\ IsFiniteSet(T) /\ IsFiniteSet(S \ T) /\ T \cap (S \ T) = {} /\ T \cup (S \ T) = S
  BY FS_Subset
<1>2. Cardinality(T \cup (S \ T))
        = Cardinality(T) + Cardinality(S \ T) - Cardinality(T \cap (S \ T))
  BY <1>1, FS_Union
<1>3. Cardinality(T \cap (S \ T)) = 0
  BY <1>1, FS_EmptySet
<1>4. Cardinality(T) \in Nat /\ Cardinality(S \ T) \in Nat /\ Cardinality(S) \in Nat
  BY <1>1, FS_CardinalityType
<1>5. QED
  BY <1>1, <1>2, <1>3, <1>4

LEMMA CitiesAre ==
    ASSUME NEW T, IsFiniteSet(T)
    PROVE  LET K == DOMAIN ByCity(T)
               key == KeyOf(T, "city")
           IN  /\ K = { s.city : s \in T } /\ IsFiniteSet(K) /\ key \in [ T -> K ]
               /\ \A c : InCity(T, c) = Fibre(T, key, c) /\ InCity(T, c) \in SUBSET T
<1> DEFINE key == KeyOf(T, "city")
<1>1. DOMAIN ByCity(T) = { s.city : s \in T }
  BY DEF ByCity, By
<1>2. IsFiniteSet({ s["city"] : s \in T }) /\ key \in [ T -> { s["city"] : s \in T } ]
  BY KeysAre
<1>3. { s["city"] : s \in T } = { s.city : s \in T }
  OBVIOUS
<1>4. \A c : InCity(T, c) = Fibre(T, key, c) /\ InCity(T, c) \in SUBSET T
  BY DEF InCity, Fibre, KeyOf
<1>5. QED
  BY <1>1, <1>2, <1>3, <1>4

LEMMA GroupsCount ==
    ASSUME NEW d, Given(d), Made(d), NEW T \in SUBSET d.shipments
    PROVE  Tally(StatusDistribution(T)) = Cardinality(T)
<1> DEFINE rows == StatusDistribution(T)
           key == KeyOf(T, "group")
<1>1. IsFiniteSet(T)
  BY ParcelsAre, FS_Subset
<1>2. IsFiniteSet(StatusGroups)
  <2>1. StatusGroups = { "pending", "in_transit", "out_for_delivery", "delivered", "failed",
                         "returns", "cancelled", "lost" }
    BY DEF StatusGroups, Stages
  <2>2. QED
    BY <2>1, FewAreFinite
<1>3. key \in [ T -> StatusGroups ]
  <2>1. \A s \in T : s.group \in StatusGroups
    BY ParcelsAre DEF StatusGroups
  <2>2. QED
    BY <2>1 DEF KeyOf
<1>4. DOMAIN rows = StatusGroups /\ \A g \in StatusGroups : rows[g] = Cardinality(Fibre(T, key, g))
  <2>1. DOMAIN rows = StatusGroups /\ \A g \in StatusGroups : rows[g] = Cardinality({ s \in T : s.group = g })
    BY DEF StatusDistribution, Count
  <2>2. \A g : { s \in T : s.group = g } = Fibre(T, key, g)
    BY DEF Fibre, KeyOf
  <2>3. QED
    BY <2>1, <2>2
<1> HIDE DEF rows, key
<1>5. QED
  BY <1>1, <1>2, <1>3, <1>4, RowsCount DEF rows

LEMMA MatrixCounts ==
    ASSUME NEW d, Given(d), Made(d)
    PROVE  LET matrix == CityMatrix(d.shipments)
           IN  Tally([ c \in DOMAIN matrix |-> Tally(matrix[c]) ]) = Cardinality(d.shipments)
<1> DEFINE S == d.shipments
           K == DOMAIN ByCity(S)
           key == KeyOf(S, "city")
           matrix == CityMatrix(S)
           rows == [ c \in DOMAIN matrix |-> Tally(matrix[c]) ]
<1>1. IsFiniteSet(S)
  BY ParcelsAre
<1>2. /\ IsFiniteSet(K) /\ key \in [ S -> K ]
      /\ \A c : InCity(S, c) = Fibre(S, key, c) /\ InCity(S, c) \in SUBSET S
  BY <1>1, CitiesAre
<1>3. DOMAIN rows = K /\ \A c \in K : rows[c] = Tally(StatusDistribution(InCity(S, c)))
  BY DEF CityMatrix
<1> HIDE DEF rows, key, K
<1>4. \A c \in K : rows[c] = Cardinality(Fibre(S, key, c))
  BY <1>2, <1>3, GroupsCount
<1> HIDE DEF S
<1>5. Tally(rows) = Cardinality(S)
  BY <1>1, <1>2, <1>3, <1>4, RowsCount DEF S
<1>6. QED
  BY <1>5 DEF rows, S

\* Ten cities or fewer are all on the card.
LEMMA CityRowsCount ==
    ASSUME NEW d, Given(d), Made(d), Cardinality(DOMAIN ByCity(d.shipments)) <= 10
    PROVE  /\ Column(CityPerformance(d.shipments, 10), "total") = Cardinality(d.shipments)
           /\ Column(CityPerformance(d.shipments, 10), "judged") = Cardinality(Judged(d.shipments))
<1> DEFINE S == d.shipments
           K == DOMAIN ByCity(S)
           key == KeyOf(S, "city")
           here(c) == InCity(S, c)
           rows == [ c \in K |->
                       [ total |-> Cardinality(here(c)),
                         delivered |-> Cardinality(Delivered(here(c))),
                         judged |-> Count(here(c), LAMBDA s : s.sla \in { "met", "missed" }),
                         met |-> Count(here(c), LAMBDA s : s.sla = "met"),
                         breached |-> Count(here(c), LAMBDA s : s.isActive /\ s.sla = "breached") ] ]
           page == CityPerformance(S, 10)
           above(k) == { j \in DOMAIN rows : rows[j].total > rows[k].total }
           on == { k \in DOMAIN rows : Cardinality(above(k)) < 10 }
<1>1. IsFiniteSet(S)
  BY ParcelsAre
<1>2. /\ IsFiniteSet(K) /\ key \in [ S -> K ]
      /\ \A c : InCity(S, c) = Fibre(S, key, c) /\ InCity(S, c) \in SUBSET S
  BY <1>1, CitiesAre
<1>3. page = [ c \in on |-> rows[c] ]
  BY DEF CityPerformance, Top
<1>4. \A c \in K : /\ rows[c].total = Cardinality(here(c))
                   /\ rows[c].judged = Cardinality({ s \in here(c) : s.sla \in { "met", "missed" } })
  BY DEF Count
<1>5. DOMAIN rows = K
  OBVIOUS
<1>6. on = K
  <2> SUFFICES ASSUME NEW k \in K PROVE Cardinality(above(k)) < 10
    BY <1>5
  <2>1. k \notin above(k)
    <3>1. rows[k].total \in Nat
      BY <1>1, <1>2, <1>4, FS_Subset, FS_CardinalityType
    <3> HIDE DEF rows
    <3>2. QED
      BY <3>1
  <2>2. above(k) \in SUBSET K /\ k \in K
    BY <1>5
  <2> HIDE DEF above, K
  <2>3. Cardinality(above(k)) < Cardinality(K)
    BY <1>2, <2>1, <2>2, FS_Subset, FS_CardinalityType
  <2>4. Cardinality(K) <= 10 /\ Cardinality(K) \in Nat /\ Cardinality(above(k)) \in Nat
    BY <1>2, <2>2, FS_Subset, FS_CardinalityType DEF K
  <2>5. QED
    BY <2>3, <2>4
<1> HIDE DEF on, rows
<1>7. DOMAIN page = K /\ \A c \in K : page[c] = rows[c]
  BY <1>3, <1>6
<1>8. Column(page, "total") = Cardinality(S)
  <2>1. \A c \in K : page[c]["total"] = Cardinality(Fibre(S, key, c))
    BY <1>2, <1>4, <1>7
  <2> HIDE DEF page, K, key, S
  <2>2. QED
    BY <1>1, <1>2, <1>7, <2>1, ColumnCounts DEF S
<1>9. Column(page, "judged") = Cardinality(Judged(S))
  <2> DEFINE J == Judged(S)
             own == KeyOf(J, "city")
  <2>1. J = { s \in S : s.sla \in { "met", "missed" } }
    <3>1. \A s \in S : s.sla \in { "met", "missed" } => s.status = "DELIVERED"
      BY FiguresAre
    <3>2. QED
      BY <3>1 DEF Judged, Delivered
  <2> HIDE DEF J
  <2>2. IsFiniteSet(J) /\ J \in SUBSET S
    BY <1>1, <2>1, FS_Subset
  <2>3. \A c : { s \in here(c) : s.sla \in { "met", "missed" } } = Fibre(J, own, c)
    BY <2>1 DEF Fibre, KeyOf, InCity
  <2>4. own \in [ J -> K ]
    BY <2>2 DEF KeyOf, ByCity, By
  <2>5. \A c \in K : page[c]["judged"] = Cardinality(Fibre(J, own, c))
    BY <1>4, <1>7, <2>3
  <2> HIDE DEF page, K, own, S
  <2>6. QED
    BY <1>2, <1>7, <2>2, <2>4, <2>5, ColumnCounts DEF J
<1>10. QED
  BY <1>8, <1>9

LEMMA SlaCounts ==
    ASSUME NEW d, Given(d), Made(d)
    PROVE  Tally(SlaBreakdown(d.shipments)) + Count(d.shipments, LAMBDA s : s.sla = "n_a")
             = Cardinality(d.shipments)
<1> DEFINE S == d.shipments
           K == { "on_track", "at_risk", "breached", "met", "missed" }
           T == { s \in S : s.sla # "n_a" }
           key == KeyOf(T, "sla")
           rows == SlaBreakdown(S)
<1>1. IsFiniteSet(S) /\ \A s \in S : s.sla \in SlaState
  BY ParcelsAre
<1>2. IsFiniteSet(K)
  <2>1. K = { "on_track", "at_risk", "breached", "met", "missed", "missed", "missed", "missed" }
    OBVIOUS
  <2>2. QED
    BY <2>1, FewAreFinite
<1>3. key \in [ T -> K ]
  BY <1>1 DEF KeyOf, SlaState
<1>4. DOMAIN rows = K /\ \A k \in K : rows[k] = Cardinality(Fibre(T, key, k))
  <2>1. DOMAIN rows = K /\ \A k \in K : rows[k] = Cardinality({ s \in S : s.sla = k })
    BY DEF SlaBreakdown, Count
  <2>2. \A k \in K : { s \in S : s.sla = k } = Fibre(T, key, k)
    BY DEF Fibre, KeyOf
  <2>3. QED
    BY <2>1, <2>2
<1>5. IsFiniteSet(T) /\ T \in SUBSET S
  BY <1>1, FS_Subset
<1>6. S \ T = { s \in S : s.sla = "n_a" }
  OBVIOUS
<1> HIDE DEF T, K, key, rows, S
<1>7. Tally(rows) = Cardinality(T)
  BY <1>2, <1>3, <1>4, <1>5, RowsCount
<1>8. Cardinality(T) + Cardinality(S \ T) = Cardinality(S)
  BY <1>1, <1>5, PartsCount DEF S
<1>9. QED
  BY <1>6, <1>7, <1>8 DEF Count, rows, S

LEMMA MerchantsAre ==
    ASSUME NEW T, IsFiniteSet(T)
    PROVE  LET rows == ByMerchant(T)
               K == DOMAIN rows
               key == KeyOf(T, "merchant")
           IN  /\ IsFiniteSet(K) /\ key \in [ T -> K ]
               /\ \A m \in K : rows[m] = Fibre(T, key, m) /\ rows[m] \in SUBSET T
<1> DEFINE rows == ByMerchant(T)
           key == KeyOf(T, "merchant")
<1>1. rows = [ m \in { s.merchant : s \in T } |-> { s \in T : s.merchant = m } ]
  BY DEF ByMerchant, By
<1>2. IsFiniteSet({ s["merchant"] : s \in T }) /\ key \in [ T -> { s["merchant"] : s \in T } ]
  BY KeysAre
<1>3. \A m : { s \in T : s.merchant = m } = Fibre(T, key, m)
  BY DEF Fibre, KeyOf
<1> HIDE DEF rows, key
<1>4. DOMAIN rows = { s["merchant"] : s \in T }
  BY <1>1
<1>5. \A m \in DOMAIN rows : rows[m] = Fibre(T, key, m) /\ rows[m] \in SUBSET T
  BY <1>1, <1>3
<1>6. QED
  BY <1>2, <1>4, <1>5 DEF rows, key

LEMMA RevenueAdds ==
    ASSUME NEW d, Given(d), Made(d), NEW now \in Int
    PROVE  Column(MerchantRows(d.shipments), "revenue") = FinanceFor(d.shipments, now).revenue
<1> DEFINE S == d.shipments
           page == MerchantRows(S)
           parts == ByMerchant(S)
           K == DOMAIN parts
           key == KeyOf(S, "merchant")
<1>1. IsFiniteSet(S) /\ \A s \in S : Fees(S)[s] \in Int
  BY ParcelsAre, MoneyIs
<1>2. /\ IsFiniteSet(K) /\ key \in [ S -> K ]
      /\ \A m \in K : parts[m] = Fibre(S, key, m) /\ parts[m] \in SUBSET S
  BY <1>1, MerchantsAre
<1>3. DOMAIN page = K /\ \A m \in K : page[m] = MerchantStats(parts[m])
  BY DEF MerchantRows
<1> HIDE DEF page, parts, key
<1>4. \A m \in K : page[m]["revenue"] = SumOf(Fees(S), Fibre(S, key, m))
  BY <1>2, <1>3, MerchantIs
<1>5. FinanceFor(S, now).revenue = SumOf(Fees(S), S)
  BY FinanceIs
<1> HIDE DEF S, K
<1>6. Column(page, "revenue") = SumOf(Fees(S), S)
  BY <1>1, <1>2, <1>3, <1>4, ColumnAdds DEF K
<1>7. QED
  BY <1>5, <1>6 DEF page, S

LEMMA SettlementAdds ==
    ASSUME NEW d, Given(d), Made(d), NEW now \in Int
    PROVE  LET page == Settlement(d.shipments, now)
               all == FinanceFor(d.shipments, now)
           IN  /\ Column(page, "codCollected") = all.codCollected
               /\ Column(page, "codSettled") = all.codSettled
<1> DEFINE S == d.shipments
           T == { s \in S : s.isCod }
           page == Settlement(S, now)
           parts == ByMerchant(T)
           K == DOMAIN parts
           key == KeyOf(T, "merchant")
           all == FinanceFor(S, now)
<1>1. /\ IsFiniteSet(S) /\ IsFiniteSet(T) /\ T \in SUBSET S
      /\ \A s \in S : Collecteds(S)[s] \in Int /\ Settleds(S, now)[s] \in Int
  BY ParcelsAre, FS_Subset, MoneyIs
<1>2. /\ IsFiniteSet(K) /\ key \in [ T -> K ]
      /\ \A m \in K : parts[m] = Fibre(T, key, m) /\ parts[m] \in SUBSET T
  <2> HIDE DEF T
  <2>1. QED
    BY <1>1, MerchantsAre
<1>3. DOMAIN page = K /\ \A m \in K : page[m] = FinanceFor(parts[m], now)
  BY DEF Settlement
<1>4. \A s \in S \ T : Collecteds(S)[s] = 0 /\ Settleds(S, now)[s] = 0
  <2>1. \A s \in S \ T : s.codAmount = 0
    BY FiguresAre
  <2>2. QED
    BY <2>1 DEF Collecteds, Settleds
<1>5. all.codCollected = SumOf(Collecteds(S), S) /\ all.codSettled = SumOf(Settleds(S, now), S)
  BY FinanceIs
<1> HIDE DEF page, parts, key, T, all
<1>6. \A m \in K : /\ page[m]["codCollected"] = SumOf(Collecteds(S), Fibre(T, key, m))
                   /\ page[m]["codSettled"] = SumOf(Settleds(S, now), Fibre(T, key, m))
  <2> SUFFICES ASSUME NEW m \in K
               PROVE  /\ page[m]["codCollected"] = SumOf(Collecteds(S), Fibre(T, key, m))
                      /\ page[m]["codSettled"] = SumOf(Settleds(S, now), Fibre(T, key, m))
    OBVIOUS
  <2>1. Fibre(T, key, m) \in SUBSET S /\ page[m] = FinanceFor(Fibre(T, key, m), now)
    BY <1>1, <1>2, <1>3
  <2>2. QED
    BY <2>1, FinanceIs
<1> HIDE DEF S, K
<1>7. \A s \in T : Collecteds(S)[s] \in Int /\ Settleds(S, now)[s] \in Int
  BY <1>1
<1>8. Column(page, "codCollected") = SumOf(Collecteds(S), T)
  BY <1>1, <1>2, <1>3, <1>6, <1>7, ColumnAdds DEF K
<1>9. Column(page, "codSettled") = SumOf(Settleds(S, now), T)
  BY <1>1, <1>2, <1>3, <1>6, <1>7, ColumnAdds DEF K
<1>10. SumOf(Collecteds(S), T) = SumOf(Collecteds(S), S)
  BY <1>1, <1>4, SumWithout
<1>11. SumOf(Settleds(S, now), T) = SumOf(Settleds(S, now), S)
  BY <1>1, <1>4, SumWithout
<1>12. QED
  BY <1>5, <1>8, <1>9, <1>10, <1>11 DEF page, all, S

LEMMA CityMoneyAdds ==
    ASSUME NEW d, Given(d), Made(d), NEW now \in Int
    PROVE  LET all == FinanceFor(d.shipments, now)
           IN  /\ Column(FinanceByCity(d.shipments, now), "margin") = all.margin
               /\ Column(CostByCity(d.shipments, now), 1) = all.cost
<1> DEFINE S == d.shipments
           K == DOMAIN ByCity(S)
           key == KeyOf(S, "city")
           page == FinanceByCity(S, now)
           costs == CostByCity(S, now)
           all == FinanceFor(S, now)
<1>1. IsFiniteSet(S) /\ \A s \in S : Margins(S)[s] \in Int /\ Costs(S)[s] \in Int
  BY ParcelsAre, MoneyIs
<1>2. /\ IsFiniteSet(K) /\ key \in [ S -> K ]
      /\ \A c : InCity(S, c) = Fibre(S, key, c) /\ InCity(S, c) \in SUBSET S
  BY <1>1, CitiesAre
<1>3. /\ DOMAIN page = K /\ DOMAIN costs = K
      /\ \A c \in K : /\ page[c] = FinanceFor(InCity(S, c), now)
                      /\ costs[c][1] = FinanceFor(InCity(S, c), now).cost
  BY DEF FinanceByCity, CostByCity
<1>4. all.margin = SumOf(Margins(S), S) /\ all.cost = SumOf(Costs(S), S)
  BY FinanceIs
<1> HIDE DEF page, costs, key, all
<1>5. \A c \in K : /\ page[c]["margin"] = SumOf(Margins(S), Fibre(S, key, c))
                   /\ costs[c][1] = SumOf(Costs(S), Fibre(S, key, c))
  <2> SUFFICES ASSUME NEW c \in K
               PROVE  /\ page[c]["margin"] = SumOf(Margins(S), Fibre(S, key, c))
                      /\ costs[c][1] = SumOf(Costs(S), Fibre(S, key, c))
    OBVIOUS
  <2>1. InCity(S, c) \in SUBSET S /\ InCity(S, c) = Fibre(S, key, c)
    BY <1>2
  <2>2. /\ FinanceFor(InCity(S, c), now).margin = SumOf(Margins(S), InCity(S, c))
        /\ FinanceFor(InCity(S, c), now).cost = SumOf(Costs(S), InCity(S, c))
    BY <2>1, FinanceIs
  <2>3. QED
    BY <1>3, <2>1, <2>2
<1> HIDE DEF S, K
<1>6. Column(page, "margin") = SumOf(Margins(S), S)
  BY <1>1, <1>2, <1>3, <1>5, ColumnAdds DEF K
<1>7. Column(costs, 1) = SumOf(Costs(S), S)
  BY <1>1, <1>2, <1>3, <1>5, ColumnAdds DEF K
<1>8. QED
  BY <1>4, <1>6, <1>7 DEF page, costs, all, S

\* A service with neither a parcel nor a margin has no row and adds nothing.
LEMMA ServiceMoneyAdds ==
    ASSUME NEW d, Given(d), Made(d), NEW now \in Int
    PROVE  Tally(FinanceByService(d.shipments, now)) = FinanceFor(d.shipments, now).margin
<1> DEFINE S == d.shipments
           T == DOMAIN BaseFee
           key == KeyOf(S, "service")
           rows == [ t \in T |-> FinanceFor({ s \in S : s.service = t }, now).margin ]
           shown == { t \in T : rows[t] # 0 \/ \E s \in S : s.service = t }
           page == FinanceByService(S, now)
<1>1. IsFiniteSet(S) /\ \A s \in S : Margins(S)[s] \in Int
  BY ParcelsAre, MoneyIs
<1>2. IsFiniteSet(T)
  <2>1. T = { "STANDARD", "EXPRESS", "SAME_DAY", "SCHEDULED", "SCHEDULED", "SCHEDULED", "SCHEDULED",
              "SCHEDULED" }
    BY DEF BaseFee
  <2> HIDE DEF T
  <2>2. QED
    BY <2>1, FewAreFinite
<1>3. key \in [ S -> T ]
  <2>1. \A s \in S : s.service \in T
    BY FiguresAre
  <2> HIDE DEF T
  <2>2. QED
    BY <2>1 DEF KeyOf
<1>4. page = [ t \in shown |-> rows[t] ]
  BY DEF FinanceByService
<1>5. \A t : { s \in S : s.service = t } = Fibre(S, key, t) /\ Fibre(S, key, t) \in SUBSET S
  BY DEF Fibre, KeyOf
<1>6. DOMAIN rows = T /\ \A t \in T : rows[t] = FinanceFor(Fibre(S, key, t), now).margin
  BY <1>5
<1> HIDE DEF rows, key, T
<1>7. \A t \in T : /\ rows[t] = SumOf(Margins(S), Fibre(S, key, t)) /\ rows[t] \in Int
  <2> SUFFICES ASSUME NEW t \in T
               PROVE  /\ rows[t] = SumOf(Margins(S), Fibre(S, key, t)) /\ rows[t] \in Int
    OBVIOUS
  <2>1. rows[t] = SumOf(Margins(S), Fibre(S, key, t))
    BY <1>5, <1>6, FinanceIs
  <2>2. IsFiniteSet(Fibre(S, key, t)) /\ \A s \in Fibre(S, key, t) : Margins(S)[s] \in Int
    BY <1>1, <1>5, FS_Subset
  <2>3. QED
    BY <2>1, <2>2, SumInt
<1>8. FinanceFor(S, now).margin = SumOf(Margins(S), S)
  BY FinanceIs
<1>9. shown \in SUBSET T /\ \A t \in T \ shown : rows[t] = 0
  OBVIOUS
<1> HIDE DEF S, shown
<1>10. DOMAIN page = shown /\ \A t \in shown : page[t] = rows[t]
  BY <1>4
<1>11. SumOf(rows, T) = SumOf(Margins(S), S)
  BY <1>1, <1>2, <1>3, <1>7, SumOfRows
<1>12. SumOf(page, shown) = SumOf(rows, T)
  BY <1>2, <1>7, <1>9, <1>10, SumPart
<1>13. Tally(page) = SumOf(page, shown)
  BY <1>10, TallyIs
<1>14. QED
  BY <1>8, <1>11, <1>12, <1>13 DEF S, page

\* As many of the one as of the other.
LEMMA Paired ==
    ASSUME NEW A, IsFiniteSet(A), NEW B, NEW f, \A x \in A : f[x] \in B,
           \A x, y \in A : f[x] = f[y] => x = y, \A y \in B : \E x \in A : f[x] = y
    PROVE  IsFiniteSet(B) /\ Cardinality(B) = Cardinality(A)
<1> DEFINE g == [ x \in A |-> f[x] ]
<1>1. g \in [ A -> B ] /\ (\A x, y \in A : g[x] = g[y] => x = y) /\ \A y \in B : \E x \in A : g[x] = y
  OBVIOUS
<1> HIDE DEF g
<1>2. g \in Bijection(A, B)
  BY <1>1 DEF Bijection, Injection, IsInjective, Surjection
<1>3. ExistsBijection(A, B)
  BY <1>2 DEF ExistsBijection
<1>4. QED
  BY <1>3, FS_Bijection

LEMMA ImageIs ==
    ASSUME NEW S, IsFiniteSet(S), NEW f
    PROVE  IsFiniteSet({ f[s] : s \in S })
<1> DEFINE g == [ s \in S |-> f[s] ]
<1>1. g \in Surjection(S, { f[s] : s \in S })
  BY DEF Surjection
<1>2. QED
  BY <1>1, FS_Surjection

\* A sorted list has as many elements of each sort as what it sorts.
LEMMA HitsInOrder ==
    ASSUME NEW seq, NEW I \in SUBSET Nat, IsFiniteSet(I), NEW key \in [ I -> Int ],
           NEW o, o = Ordered(seq, I, key), NEW Good
    PROVE  Cardinality(Hits(o, DOMAIN o, Good)) = Cardinality(Hits(seq, I, Good))
<1>1. LET q == Ordered(seq, I, key)
      IN  Cardinality(Hits(q, DOMAIN q, Good)) = Cardinality(Hits(seq, I, Good))
  BY OrderedCounts
<1>2. QED
  BY <1>1

\* What a parcel's own list of attempts has in it.
LEMMA AttemptsAre ==
    ASSUME NEW d, Given(d), NEW p
    PROVE  LET mine == PlacesOf(d.attempts, p)
               own == AttemptsOf(d, p)
           IN  /\ \A k \in DOMAIN own : \E i \in mine : own[k] = d.attempts[i]
               /\ \A i \in mine : \E k \in DOMAIN own : own[k] = d.attempts[i]
               /\ \A Good : Cardinality(Hits(own, DOMAIN own, Good))
                              = Cardinality(Hits(d.attempts, mine, Good))
               /\ IsFiniteSet(mine)
<1> DEFINE mine == PlacesOf(d.attempts, p)
           key == [ i \in mine |-> d.attempts[i].number ]
           own == AttemptsOf(d, p)
<1>1. mine \in SUBSET Nat /\ IsFiniteSet(mine) /\ key \in [ mine -> Int ]
  <2>1. d.attempts \in Seq(Attempt(d.now))
    BY DEF Given
  <2>2. \A a \in Attempt(d.now) : a.number \in Int
    BY DEF Attempt
  <2>3. QED
    BY <2>1, <2>2, CountedAttempts
<1>2. own = Ordered(d.attempts, mine, key)
  BY DEF AttemptsOf
<1> HIDE DEF mine, key, own
<1>3. /\ \A k \in DOMAIN own : \E i \in mine : own[k] = d.attempts[i]
      /\ \A i \in mine : \E k \in DOMAIN own : own[k] = d.attempts[i]
  <2>1. /\ DOMAIN own = 1 .. Cardinality(mine)
        /\ \E b \in Bijection(1 .. Cardinality(mine), mine) :
             \A k \in 1 .. Cardinality(mine) : own[k] = d.attempts[b[k]]
    BY <1>1, <1>2, OrderedIs
  <2>2. PICK b \in Bijection(1 .. Cardinality(mine), mine) :
             \A k \in 1 .. Cardinality(mine) : own[k] = d.attempts[b[k]]
    BY <2>1
  <2>3. /\ \A k \in 1 .. Cardinality(mine) : b[k] \in mine
        /\ \A i \in mine : \E k \in 1 .. Cardinality(mine) : b[k] = i
    BY DEF Bijection, Injection, Surjection
  <2>4. QED
    BY <2>1, <2>2, <2>3
<1>4. ASSUME NEW Good
      PROVE  Cardinality(Hits(own, DOMAIN own, Good)) = Cardinality(Hits(d.attempts, mine, Good))
  BY <1>1, <1>2, HitsInOrder
<1>5. QED
  BY <1>1, <1>3, <1>4 DEF mine, own

LEMMA CohortsCount ==
    ASSUME NEW d, Given(d), Made(d), NEW now
    PROVE  Column(Cohorts(d.shipments, now), "delivered") = Kpi(d.shipments, now).delivered
<1> DEFINE S == d.shipments
           T == Delivered(S)
           week == [ s \in S |-> s.createdAt \div (7 * Day) ]
           K == { week[s] : s \in S }
           rows == Cohorts(S, now)
           key == [ s \in T |-> week[s] ]
<1>1. IsFiniteSet(S)
  BY ParcelsAre
<1>2. IsFiniteSet(K)
  <2> HIDE DEF week
  <2>1. QED
    BY <1>1, ImageIs
<1>3. T \in SUBSET S /\ IsFiniteSet(T)
  BY <1>1, FS_Subset DEF Delivered
<1>4. key \in [ T -> K ]
  BY <1>3
<1>5. K = { s.createdAt \div (7 * Day) : s \in S }
  OBVIOUS
<1>6. /\ DOMAIN rows = { s.createdAt \div (7 * Day) : s \in S }
      /\ \A w \in { s.createdAt \div (7 * Day) : s \in S } :
           rows[w]["delivered"]
             = Cardinality(Delivered({ s \in S : s.createdAt \div (7 * Day) = w }))
  BY DEF Cohorts, Kpi, By
<1>7. \A w : Delivered({ s \in S : s.createdAt \div (7 * Day) = w }) = Fibre(T, key, w)
  BY DEF Fibre, Delivered
<1>8. \A w \in K : rows[w]["delivered"] = Cardinality(Fibre(T, key, w))
  <2> HIDE DEF rows, K, key
  <2>1. QED
    BY <1>5, <1>6, <1>7
<1>9. Kpi(S, now).delivered = Cardinality(T)
  BY DEF Kpi
<1> HIDE DEF S, K, key, T, rows
<1>10. DOMAIN rows = K
  BY <1>5, <1>6
<1>11. Column(rows, "delivered") = Cardinality(T)
  BY <1>2, <1>3, <1>4, <1>8, <1>10, ColumnCounts
<1>12. QED
  BY <1>9, <1>11 DEF rows, S

LEMMA ReturnsCount ==
    ASSUME NEW d, Given(d), Made(d)
    PROVE  Column(ReturnsPage(d.shipments).byCity, "returns")
             = StatusDistribution(d.shipments)["returns"]
<1> DEFINE S == d.shipments
           T == { s \in S : s.group = "returns" }
           K == DOMAIN ByCity(S)
           key == KeyOf(T, "city")
           rows == ReturnsPage(S).byCity
<1>1. IsFiniteSet(S)
  BY ParcelsAre
<1>2. IsFiniteSet(K) /\ IsFiniteSet(T) /\ T \in SUBSET S
  BY <1>1, CitiesAre, FS_Subset
<1>3. key \in [ T -> K ]
  BY DEF KeyOf, ByCity, By
<1>4. rows = [ c \in K |-> ReturnShare(InCity(S, c)) ]
  BY DEF ReturnsPage
<1>5. \A c \in K : ReturnShare(InCity(S, c)).returns = Cardinality({ s \in InCity(S, c) : s.group = "returns" })
  BY DEF ReturnShare, Count
<1>6. \A c : { s \in InCity(S, c) : s.group = "returns" } = Fibre(T, key, c)
  BY DEF Fibre, KeyOf, InCity
<1> HIDE DEF rows, K, key
<1>7. DOMAIN rows = K /\ \A c \in K : rows[c]["returns"] = Cardinality(Fibre(T, key, c))
  BY <1>4, <1>5, <1>6
<1>8. StatusDistribution(S)["returns"] = Cardinality(T)
  BY DEF StatusDistribution, StatusGroups, Stages, Count
<1> HIDE DEF T
<1>9. Column(rows, "returns") = Cardinality(T)
  BY <1>2, <1>3, <1>7, ColumnCounts
<1>10. QED
  BY <1>8, <1>9 DEF rows

\* A parcel has failed when the table has a failed attempt at it.
LEMMA FailedToReturnCounts ==
    ASSUME NEW d, Given(d), Made(d)
    PROVE  ReturnsPage(d.shipments).failedToReturn
             = Cardinality({ d.attempts[i].package : i \in { j \in DOMAIN d.attempts :
                                                             Failure(d.attempts[j]) } })
<1> DEFINE S == d.shipments
           A == { s \in S : Has(s.attempts, Failure) }
           J == { j \in DOMAIN d.attempts : Failure(d.attempts[j]) }
           B == { d.attempts[i].package : i \in J }
           id == [ s \in A |-> s.id ]
<1>1. ReturnsPage(S).failedToReturn = Cardinality(A)
  BY DEF ReturnsPage, Count
<1>2. IsFiniteSet(A)
  BY ParcelsAre, FS_Subset
<1>3. ASSUME NEW s \in S
      PROVE  s \in A <=> s.id \in B
  <2> DEFINE own == AttemptsOf(d, s.id)
             mine == PlacesOf(d.attempts, s.id)
  <2>1. s.attempts = own
    <3>1. s = ShipmentOf(d, s.id)
      BY ParcelsAre
    <3>2. ShipmentOf(d, s.id).attempts = own
      BY ColumnsAre
    <3>3. QED
      BY <3>1, <3>2
  <2>2. /\ \A k \in DOMAIN own : \E i \in mine : own[k] = d.attempts[i]
        /\ \A i \in mine : \E k \in DOMAIN own : own[k] = d.attempts[i]
    BY AttemptsAre
  <2>3. Has(s.attempts, Failure) <=> \E k \in DOMAIN own : Failure(own[k])
    BY <2>1 DEF Has
  <2>4. s.id \in B <=> \E i \in mine : Failure(d.attempts[i])
    BY DEF PlacesOf
  <2> HIDE DEF own, mine, B
  <2>5. QED
    BY <2>2, <2>3, <2>4
<1>4. \A s \in A : id[s] \in B
  BY <1>3
<1>5. \A x, y \in A : id[x] = id[y] => x = y
  <2>1. \A s \in A : s = ShipmentOf(d, s.id)
    BY ParcelsAre
  <2>2. QED
    BY <2>1
<1>6. \A b \in B : \E s \in A : id[s] = b
  <2> SUFFICES ASSUME NEW b \in B PROVE \E s \in A : id[s] = b
    OBVIOUS
  <2>1. b \in Package
    <3>1. PICK i \in DOMAIN d.attempts : b = d.attempts[i].package
      OBVIOUS
    <3>2. d.attempts[i] \in Attempt(d.now)
      BY DEF Given
    <3>3. QED
      BY <3>1, <3>2 DEF Attempt
  <2>2. ShipmentOf(d, b) \in S /\ ShipmentOf(d, b).id = b
    BY <2>1, ParcelsAre
  <2>3. ShipmentOf(d, b) \in A
    BY <1>3, <2>2
  <2>4. QED
    BY <2>2, <2>3
<1> HIDE DEF A, B, id
<1>7. Cardinality(B) = Cardinality(A)
  BY <1>2, <1>4, <1>5, <1>6, Paired
<1>8. QED
  BY <1>1, <1>7 DEF B

\* A corridor's parcels are among those on their way.
LEMMA FlowsCount ==
    ASSUME NEW d, Given(d), Made(d)
    PROVE  Tally(Flows(d, d.shipments)) <= Cardinality(Active(d.shipments))
<1> DEFINE T == Active(d.shipments)
           key == [ s \in T |-> <<CityOf(d, s.origin), s.city>> ]
           ends == [ r \in d.routes |-> <<CityOf(d, r.source), CityOf(d, r.destination)>> ]
           leaving == { x \in d.routes : ends[x][1] # ends[x][2] }
           E == { ends[r] : r \in leaving }
           K == E \cup { key[s] : s \in T }
           rows == [ k \in K |-> Cardinality(Fibre(T, key, k)) ]
           flows == Flows(d, d.shipments)
<1>1. IsFiniteSet(T)
  BY ParcelsAre, FS_Subset DEF Active
<1>2. IsFiniteSet(leaving)
  BY SizeAssumption, FS_Subset DEF Given
<1>3. IsFiniteSet(K)
  <2> HIDE DEF ends, leaving, key, T
  <2>1. IsFiniteSet(E)
    BY <1>2, ImageIs
  <2>2. IsFiniteSet({ key[s] : s \in T })
    BY <1>1, ImageIs
  <2> HIDE DEF E
  <2>3. QED
    BY <2>1, <2>2, FS_Union
<1>4. key \in [ T -> K ]
  OBVIOUS
<1>5. flows = [ pair \in { <<CityOf(d, r.source), CityOf(d, r.destination)>> :
                           r \in { x \in d.routes : CityOf(d, x.source) # CityOf(d, x.destination) } } |->
                  Cardinality({ s \in T : s.origin # None /\ pair = <<CityOf(d, s.origin), s.city>> }) ]
  BY DEF Flows, Count
<1>6. E = { <<CityOf(d, r.source), CityOf(d, r.destination)>> :
              r \in { x \in d.routes : CityOf(d, x.source) # CityOf(d, x.destination) } }
  OBVIOUS
<1>7. \A pair : { s \in T : s.origin # None /\ pair = <<CityOf(d, s.origin), s.city>> } = Fibre(T, key, pair)
  <2>1. \A s \in T : s.origin # None
    BY FiguresAre, NullAssumption DEF Active
  <2> HIDE DEF T
  <2>2. QED
    BY <2>1 DEF Fibre
<1> HIDE DEF flows, E, key, T
<1>8. DOMAIN flows = E /\ \A pair \in E : flows[pair] = Cardinality(Fibre(T, key, pair))
  BY <1>5, <1>6, <1>7
<1>9. \A k \in K : rows[k] = Cardinality(Fibre(T, key, k)) /\ rows[k] \in Nat
  <2>1. \A k : Cardinality(Fibre(T, key, k)) \in Nat
    BY <1>1, FS_Subset, FS_CardinalityType DEF Fibre
  <2>2. QED
    BY <2>1
<1>10. E \in SUBSET K
  OBVIOUS
<1> HIDE DEF rows, K
<1>11. SumOf(rows, K) = Cardinality(T)
  BY <1>1, <1>3, <1>4, <1>9, CountOfRows
<1>12. SumOf(rows, E) <= SumOf(rows, K)
  BY <1>3, <1>9, <1>10, SumWithin
<1>13. SumOf(flows, E) = SumOf(rows, E)
  <2>1. IsFiniteSet(E) /\ \A k \in E : flows[k] = rows[k] /\ rows[k] \in Int
    BY <1>3, <1>8, <1>9, <1>10, FS_Subset
  <2>2. QED
    BY <2>1, SumSame
<1>14. Tally(flows) = SumOf(flows, E)
  BY <1>8, TallyIs
<1>15. QED
  BY <1>11, <1>12, <1>13, <1>14 DEF flows, T

LEMMA PairsCount ==
    ASSUME NEW d, Given(d), Made(d)
    PROVE  LET pairs == OriginDestination(d, d.shipments)
           IN  Tally([ k \in DOMAIN pairs |-> Cardinality(pairs[k]) ]) = Cardinality(d.shipments)
<1> DEFINE S == d.shipments
           key == [ s \in S |-> <<CityOf(d, s.origin), s.city>> ]
           K == { key[s] : s \in S }
           pairs == OriginDestination(d, S)
           rows == [ k \in DOMAIN pairs |-> Cardinality(pairs[k]) ]
<1>1. IsFiniteSet(S)
  BY ParcelsAre
<1>2. IsFiniteSet(K)
  <2> HIDE DEF key
  <2>1. QED
    BY <1>1, ImageIs
<1>3. key \in [ S -> K ]
  OBVIOUS
<1>4. pairs = [ k \in { <<CityOf(d, s.origin), s.city>> : s \in S } |->
                  { s \in S : <<CityOf(d, s.origin), s.city>> = k } ]
  BY DEF OriginDestination, By
<1>5. /\ K = { <<CityOf(d, s.origin), s.city>> : s \in S }
      /\ \A k : { s \in S : <<CityOf(d, s.origin), s.city>> = k } = Fibre(S, key, k)
  BY DEF Fibre
<1> HIDE DEF pairs, K, key
<1>6. DOMAIN rows = K /\ \A k \in K : rows[k] = Cardinality(Fibre(S, key, k))
  BY <1>4, <1>5
<1> HIDE DEF rows
<1>7. Tally(rows) = Cardinality(S)
  BY <1>1, <1>2, <1>3, <1>6, RowsCount
<1>8. QED
  BY <1>7 DEF rows, pairs

\* The riders' rows are the riders, one each.
LEMMA FleetIs ==
    ASSUME NEW d, Given(d), Made(d)
    PROVE  /\ RiderRows(d, NoLists) = { d.stats[r] : r \in Rider }
           /\ \A r \in Rider : d.stats[r] = RiderStats(d, r) /\ d.stats[r].id = r
<1>1. d.stats = [ r \in Rider |-> RiderStats(d, r) ]
  BY DEF Made
<1>2. \A r \in Rider : RiderStats(d, r).id = r
  BY DEF RiderStats
<1>3. NoLists["cities"] = {} /\ NoLists["riders"] = {}
  BY DEF NoLists, ListKeys
<1>4. RiderRows(d, NoLists) = Range(d.stats)
  BY <1>3 DEF RiderRows, Asked
<1>5. QED
  BY <1>1, <1>2, <1>4 DEF Range

LEMMA SumSingle ==
    ASSUME NEW f, NEW x, f[x] \in Int
    PROVE  SumOf(f, { x }) = f[x]
<1>1. IsFiniteSet({ x }) /\ \A y \in { x } : f[y] \in Int
  BY FS_Singleton
<1>2. { x } \ { x } = {}
  OBVIOUS
<1>3. SumOf(f, { x }) = f[x] + SumOf(f, { x } \ { x })
  BY <1>1, SumTakes
<1>4. QED
  BY <1>2, <1>3, SumEmpty

LEMMA UtilizationCounts ==
    ASSUME NEW d, Given(d), Made(d)
    PROVE  Tally(RiderUtilization(RiderRows(d, NoLists))) = Cardinality(Rider)
<1> DEFINE fleet == RiderRows(d, NoLists)
           loads == { "normal", "overloaded", "idle", "off_duty" }
           key == KeyOf(fleet, "workload")
           rows == RiderUtilization(fleet)
<1>1. /\ fleet = { d.stats[r] : r \in Rider }
      /\ \A r \in Rider : d.stats[r] = RiderStats(d, r) /\ d.stats[r].id = r
  BY FleetIs
<1> HIDE DEF fleet
<1>2. \A r \in Rider : RiderStats(d, r).workload \in loads
  BY DEF RiderStats
<1>3. /\ \A r \in Rider : d.stats[r] \in fleet
      /\ \A x, y \in Rider : d.stats[x] = d.stats[y] => x = y
      /\ \A y \in fleet : \E x \in Rider : d.stats[x] = y
  BY <1>1
<1>4. IsFiniteSet(fleet) /\ Cardinality(fleet) = Cardinality(Rider)
  BY <1>3, Paired, SizeAssumption
<1>5. key \in [ fleet -> loads ]
  BY <1>1, <1>2 DEF KeyOf
<1>6. IsFiniteSet(loads)
  <2>1. loads = { "normal", "overloaded", "idle", "off_duty", "off_duty", "off_duty", "off_duty", "off_duty" }
    OBVIOUS
  <2>2. QED
    BY <2>1, FewAreFinite
<1>7. /\ DOMAIN rows = loads
      /\ \A w \in loads : rows[w] = Cardinality({ r \in fleet : r.workload = w })
  BY DEF RiderUtilization
<1>8. \A w : { r \in fleet : r.workload = w } = Fibre(fleet, key, w)
  BY DEF Fibre, KeyOf
<1> HIDE DEF rows, loads, key
<1>9. Tally(rows) = Cardinality(fleet)
  BY <1>4, <1>5, <1>6, <1>7, <1>8, RowsCount
<1>10. QED
  BY <1>4, <1>9 DEF rows, fleet

\* The city of a rider is the one of the node it is based at.
LEMMA BaseIs ==
    ASSUME NEW d, Given(d), Made(d), NEW r \in Rider
    PROVE  LET x == d.stats[r] IN
           /\ x.base # None <=> RiderCity(d, r) # None
           /\ x.workload # "off_duty" <=> d.riders[r].status # "OFF_DUTY"
<1>1. d.stats[r] = RiderStats(d, r)
  BY FleetIs
<1>2. /\ RiderStats(d, r).base = NodeOrNull(d, d.riders[r].node)
      /\ RiderStats(d, r).workload # "off_duty" <=> d.riders[r].status # "OFF_DUTY"
  BY DEF RiderStats
<1>3. NodeOrNull(d, d.riders[r].node) # None => Nodes[NodeOrNull(d, d.riders[r].node)].city # None
  BY NetworkAssumption DEF NodeOrNull, Given
<1>4. QED
  BY <1>1, <1>2, <1>3 DEF RiderCity, Given

\* Every rider on duty who is based somewhere is in the capacity of one city.
LEMMA CapacityCounts ==
    ASSUME NEW d, Given(d), Made(d)
    PROVE  Column(Capacity(d, d.shipments), "riders")
             = Cardinality({ r \in RiderRows(d, NoLists) : r.base # None /\ r.workload # "off_duty" })
<1> DEFINE S == d.shipments
           W == { s \in Active(S) : \/ s.group = "out_for_delivery"
                                    \/ s.status = "ARRIVED_AT_DESTINATION_HUB" }
           city == [ r \in Rider |-> RiderCity(d, r) ]
           staffed == { c \in { city[r] : r \in Rider } : c # None /\ OnDuty(d, c) > 0 }
           K == DOMAIN ByCity(W) \cup staffed
           T == { r \in Rider : city[r] # None /\ d.riders[r].status # "OFF_DUTY" }
           key == [ r \in T |-> city[r] ]
           rows == Capacity(d, S)
           fleet == RiderRows(d, NoLists)
           B == { r \in fleet : r.base # None /\ r.workload # "off_duty" }
<1>1. DOMAIN d.riders = Rider /\ IsFiniteSet(Rider)
  BY SizeAssumption DEF Given
<1>2. IsFiniteSet(W) /\ W \in SUBSET S
  BY ParcelsAre, FS_Subset DEF Active
<1>3. /\ DOMAIN ByCity(W) = { s.city : s \in W } /\ IsFiniteSet(DOMAIN ByCity(W))
  BY <1>2, CitiesAre
<1>4. IsFiniteSet(K)
  <2> HIDE DEF W, city
  <2>1. IsFiniteSet({ city[r] : r \in Rider })
    BY <1>1, ImageIs
  <2>2. IsFiniteSet(staffed)
    BY <2>1, FS_Subset
  <2>3. QED
    BY <1>3, <2>2, FS_Union
<1>5. /\ DOMAIN rows = DOMAIN ByCity(W) \cup
           { c \in { RiderCity(d, r) : r \in Rider } : c # None /\ OnDuty(d, c) > 0 }
      /\ \A c \in DOMAIN rows : rows[c]["riders"] = OnDuty(d, c)
  BY <1>1 DEF Capacity
<1>6. { RiderCity(d, r) : r \in Rider } = { city[r] : r \in Rider }
  OBVIOUS
<1>7. None \notin K
  <2>1. \A s \in W : s.city # None
    BY <1>2, FiguresAre, NetworkAssumption
  <2> HIDE DEF W
  <2>2. QED
    BY <1>3, <2>1
<1>8. \A c \in K : OnDuty(d, c) = Cardinality(Fibre(T, key, c))
  <2> SUFFICES ASSUME NEW c \in K PROVE OnDuty(d, c) = Cardinality(Fibre(T, key, c))
    OBVIOUS
  <2>1. { r \in Rider : RiderCity(d, r) = c /\ d.riders[r].status # "OFF_DUTY" } = Fibre(T, key, c)
    <3> HIDE DEF K
    <3>1. QED
      BY <1>7 DEF Fibre
  <2>2. QED
    BY <1>1, <2>1 DEF OnDuty
<1>9. key \in [ T -> K ]
  <2> SUFFICES ASSUME NEW r \in T PROVE city[r] \in staffed
    OBVIOUS
  <2> DEFINE on == { x \in Rider : RiderCity(d, x) = city[r] /\ d.riders[x].status # "OFF_DUTY" }
  <2>1. r \in on
    OBVIOUS
  <2>2. IsFiniteSet(on)
    BY <1>1, FS_Subset
  <2>3. OnDuty(d, city[r]) = Cardinality(on)
    BY <1>1 DEF OnDuty
  <2>4. Cardinality(on) \in Nat /\ Cardinality(on) # 0
    <3> HIDE DEF on
    <3>1. QED
      BY <2>1, <2>2, FS_CardinalityType, FS_EmptySet
  <2> HIDE DEF on
  <2>5. OnDuty(d, city[r]) > 0
    BY <2>3, <2>4
  <2>6. QED
    BY <2>5
<1>10. IsFiniteSet(T)
  BY <1>1, FS_Subset
<1>11. DOMAIN rows = K
  <2> HIDE DEF rows, city, W
  <2>1. QED
    BY <1>5, <1>6
<1> HIDE DEF rows, K, key
<1>12. Column(rows, "riders") = Cardinality(T)
  <2> HIDE DEF T
  <2>1. \A c \in K : rows[c]["riders"] = Cardinality(Fibre(T, key, c))
    BY <1>5, <1>8, <1>11
  <2>2. QED
    BY <1>4, <1>9, <1>10, <1>11, <2>1, ColumnCounts
<1>13. Cardinality(B) = Cardinality(T)
  <2>1. /\ fleet = { d.stats[r] : r \in Rider }
        /\ \A r \in Rider : d.stats[r] = RiderStats(d, r) /\ d.stats[r].id = r
    BY FleetIs
  <2>2. \A r \in Rider : r \in T <=> d.stats[r].base # None /\ d.stats[r].workload # "off_duty"
    BY BaseIs
  <2> HIDE DEF fleet, T
  <2>3. T \subseteq Rider
    BY DEF T
  <2>4. /\ \A r \in T : d.stats[r] \in B
        /\ \A x, y \in T : d.stats[x] = d.stats[y] => x = y
        /\ \A y \in B : \E x \in T : d.stats[x] = y
    BY <2>1, <2>2, <2>3
  <2> HIDE DEF B
  <2>5. QED
    BY <1>10, <2>4, Paired
<1>14. QED
  BY <1>12, <1>13 DEF rows

\* The share of the hubs' parcels is of the parcels that all the hubs share out.
LEMMA SharesAdd ==
    ASSUME NEW d, Given(d), Made(d), NEW m \in HubNodes(d)
    PROVE  Column(HubShare(d), 1) \in { 0, HubShare(d)[m][2] }
<1> DEFINE hubs == Hubs(d)
           K == HubNodes(d)
           f == [ h \in hubs |-> Cardinality(h.atHub) + Cardinality(h.inbound) ]
           key == [ h \in hubs |-> h.id ]
           total == SumOf(f, hubs)
           rows == HubShare(d)
<1>1. d.hubs = [ n \in K |-> HubStats(d, n) ] /\ IsFiniteSet(K)
  <2>1. K \in SUBSET DOMAIN Nodes
    BY DEF HubNodes, Given
  <2>2. QED
    BY <2>1, SizeAssumption, FS_Subset DEF Made
<1>2. /\ \A n \in K : d.hubs[n] \in hubs /\ d.hubs[n].id = n
      /\ \A h \in hubs : h.id \in K /\ d.hubs[h.id] = h
  <2>1. \A h \in hubs : h.id \in DOMAIN d.hubs /\ d.hubs[h.id] = h
    BY HubIs
  <2>2. \A n \in K : d.hubs[n].id = n
    BY <1>1 DEF HubStats
  <2>3. QED
    BY <1>1, <2>1, <2>2 DEF Hubs, Range
<1>3. IsFiniteSet(hubs)
  <2>1. /\ \A n \in K : d.hubs[n] \in hubs
        /\ \A x, y \in K : d.hubs[x] = d.hubs[y] => x = y
        /\ \A h \in hubs : \E n \in K : d.hubs[n] = h
    BY <1>2
  <2> HIDE DEF hubs, K
  <2>2. QED
    BY <1>1, <2>1, Paired
<1>4. \A h \in hubs : f[h] \in Nat
  <2> SUFFICES ASSUME NEW h \in hubs PROVE f[h] \in Nat
    OBVIOUS
  <2>1. Cardinality(h.inbound) \in Nat
    BY HubIs
  <2>2. Cardinality(h.atHub) \in Nat
    <3>1. h.id \in DOMAIN d.hubs /\ d.hubs[h.id] = h
      BY HubIs
    <3>2. h.atHub = { s \in Active(d.shipments) : s.currentNode = h.id }
      BY <3>1, HubsAre
    <3>3. IsFiniteSet(h.atHub)
      BY <3>2, ParcelsAre, FS_Subset DEF Active
    <3>4. QED
      BY <3>3, FS_CardinalityType
  <2>3. QED
    BY <2>1, <2>2
<1>5. key \in [ hubs -> K ]
  BY <1>2
<1>6. MapThenSumSet(LAMBDA h : Cardinality(h.atHub) + Cardinality(h.inbound), hubs) = total
  <2> HIDE DEF hubs
  <2>1. QED
    BY DEF SumOf, MapThenSumSet, MapThenFoldSet
<1>7. /\ DOMAIN rows = K
      /\ \A n \in K : /\ rows[n][1] = f[CHOOSE h \in hubs : h.id = n]
                      /\ rows[n][2] = IF total = 0 THEN 1 ELSE total
  <2> DEFINE all == MapThenSumSet(LAMBDA h : Cardinality(h.atHub) + Cardinality(h.inbound), hubs)
             due(h) == Cardinality(h.atHub) + Cardinality(h.inbound)
  <2>1. HubShare(d) =
          [ n \in K |-> <<due(CHOOSE h \in hubs : h.id = n), IF all = 0 THEN 1 ELSE all>> ]
    BY DEF HubShare
  <2>2. \A n \in K : (CHOOSE h \in hubs : h.id = n) \in hubs
    BY <1>2
  <2>3. all = total
    BY <1>6
  <2> HIDE DEF total, all, hubs, K
  <2>4. \A n \in K : due(CHOOSE h \in hubs : h.id = n) = f[CHOOSE h \in hubs : h.id = n]
    BY <2>2
  <2> HIDE DEF due, f
  <2>5. QED
    BY <2>1, <2>3, <2>4
<1>8. \A n \in K : rows[n][1] = SumOf(f, Fibre(hubs, key, n))
  <2> SUFFICES ASSUME NEW n \in K PROVE rows[n][1] = SumOf(f, Fibre(hubs, key, n))
    OBVIOUS
  <2> DEFINE h == CHOOSE h \in hubs : h.id = n
  <2>1. h \in hubs /\ h.id = n
    BY <1>2
  <2> HIDE DEF h
  <2>2. Fibre(hubs, key, n) = { h }
    <3>1. \A x \in hubs : x.id = n => x = h
      BY <1>2, <2>1
    <3>2. QED
      BY <2>1, <3>1 DEF Fibre
  <2>3. SumOf(f, { h }) = f[h]
    BY <1>4, <2>1, SumSingle
  <2>4. rows[n][1] = f[h]
    BY <1>7 DEF h
  <2>5. QED
    BY <2>2, <2>3, <2>4
<1> HIDE DEF rows, K, key, hubs, f
<1>9. Column(rows, 1) = total
  BY <1>1, <1>3, <1>4, <1>5, <1>7, <1>8, ColumnAdds
<1>10. QED
  BY <1>7, <1>9 DEF rows, K

\* A set written out as a sequence.
LEMMA SetToSeqIs ==
    ASSUME NEW S, IsFiniteSet(S)
    PROVE  /\ SetToSeq(S) \in [ 1 .. Cardinality(S) -> S ]
           /\ \A m \in S : \E i \in 1 .. Cardinality(S) : SetToSeq(S)[i] = m
           /\ \A i, j \in 1 .. Cardinality(S) : SetToSeq(S)[i] = SetToSeq(S)[j] => i = j
<1> DEFINE N == 1 .. Cardinality(S)
           q == SetToSeq(S)
<1>1. \E f \in [ N -> S ] : IsInjective(f)
  <2>1. ExistsBijection(N, S)
    BY FS_CardinalityType
  <2>2. QED
    BY <2>1 DEF ExistsBijection, Bijection, Injection
<1>2. q \in [ N -> S ] /\ IsInjective(q)
  BY <1>1 DEF SetToSeq
<1>3. q \in Injection(N, S)
  BY <1>2 DEF Injection
<1>4. Cardinality(N) = Cardinality(S)
  <2>1. Cardinality(S) \in Nat
    BY FS_CardinalityType
  <2>2. QED
    BY <2>1, FS_Interval
<1> HIDE DEF q, N
<1>5. q \in Surjection(N, S)
  BY <1>3, <1>4, FS_Injection
<1>6. DOMAIN q = N
  BY <1>2
<1>7. QED
  BY <1>2, <1>5, <1>6 DEF IsInjective, Surjection, q, N

\* The last of the running shares is the whole.
LEMMA ParetoEnds ==
    ASSUME NEW d, Given(d), Made(d), d.shipments # {}
    PROVE  Last(Pareto(d.shipments).cum) = 100
<1> DEFINE S == d.shipments
           K == DOMAIN ByMerchant(S)
           n == [ m \in K |-> Cardinality(ByMerchant(S)[m]) ]
           names == SetToSeq(K)
           c == Cardinality(K)
           I == DOMAIN names
           less == [ i \in I |-> -n[names[i]] ]
           rows == Ordered(names, I, less)
           all == Cardinality(S)
           upTo(i) == Sum([ j \in 1 .. i |-> n[rows[j]] ])
           cum == [ i \in DOMAIN rows |-> Round(100 * upTo(i), all) ]
<1>1. IsFiniteSet(S) /\ all \in Nat /\ all # 0
  BY ParcelsAre, FS_CardinalityType, FS_EmptySet
<1>2. /\ IsFiniteSet(K) /\ KeyOf(S, "merchant") \in [ S -> K ]
      /\ \A m \in K : /\ ByMerchant(S)[m] = Fibre(S, KeyOf(S, "merchant"), m)
                      /\ ByMerchant(S)[m] \in SUBSET S
  BY <1>1, MerchantsAre
<1>3. Pareto(S).cum = cum
  BY DEF Pareto
<1> HIDE DEF S, K
<1>4. \A m \in K : n[m] = Cardinality(Fibre(S, KeyOf(S, "merchant"), m)) /\ n[m] \in Nat
  <2>1. \A m \in K : Cardinality(ByMerchant(S)[m]) \in Nat
    BY <1>1, <1>2, FS_Subset, FS_CardinalityType
  <2>2. QED
    BY <1>2, <2>1
<1>5. c \in Nat /\ c # 0
  <2>1. S # {}
    BY <1>1, FS_EmptySet
  <2>2. K # {}
    BY <1>2, <2>1
  <2>3. QED
    BY <1>2, <2>2, FS_CardinalityType, FS_EmptySet
<1>6. /\ names \in [ 1 .. c -> K ] /\ \A m \in K : \E i \in 1 .. c : names[i] = m
      /\ \A i, j \in 1 .. c : names[i] = names[j] => i = j
  BY <1>2, SetToSeqIs
<1> HIDE DEF names, n, c
<1>7. I = 1 .. c
  BY <1>6
<1>8. I \in SUBSET Nat /\ IsFiniteSet(I) /\ Cardinality(I) = c
  BY <1>5, <1>7, FS_Interval
<1>9. less \in [ I -> Int ]
  BY <1>4, <1>6
<1> HIDE DEF I, less
<1>10. /\ DOMAIN rows = 1 .. Cardinality(I)
       /\ \E b \in Bijection(1 .. Cardinality(I), I) :
            \A k \in 1 .. Cardinality(I) : rows[k] = names[b[k]]
  BY <1>8, <1>9, OrderedIs
<1>11. PICK b \in Bijection(1 .. c, I) : \A k \in 1 .. c : rows[k] = names[b[k]]
  BY <1>8, <1>10
<1>12. /\ b \in [ 1 .. c -> 1 .. c ] /\ \A i \in 1 .. c : \E k \in 1 .. c : b[k] = i
       /\ \A j, k \in 1 .. c : b[j] = b[k] => j = k
  BY <1>7 DEF Bijection, Injection, IsInjective, Surjection
<1> HIDE DEF rows
<1>13. /\ DOMAIN rows = 1 .. c /\ \A k \in 1 .. c : rows[k] \in K
       /\ \A m \in K : \E k \in 1 .. c : rows[k] = m
       /\ \A j, k \in 1 .. c : rows[j] = rows[k] => j = k
  <2>1. DOMAIN rows = 1 .. c /\ \A k \in 1 .. c : rows[k] = names[b[k]] /\ b[k] \in 1 .. c
    BY <1>8, <1>10, <1>11, <1>12
  <2>2. \A k \in 1 .. c : rows[k] \in K
    BY <1>6, <2>1
  <2>3. ASSUME NEW m \in K PROVE \E k \in 1 .. c : rows[k] = m
    <3>1. PICK i \in 1 .. c : names[i] = m
      BY <1>6
    <3>2. PICK k \in 1 .. c : b[k] = i
      BY <1>12
    <3>3. QED
      BY <2>1, <3>1, <3>2
  <2>4. ASSUME NEW j \in 1 .. c, NEW k \in 1 .. c, rows[j] = rows[k] PROVE j = k
    <3>1. names[b[j]] = names[b[k]] /\ b[j] \in 1 .. c /\ b[k] \in 1 .. c
      BY <2>1, <2>4
    <3>2. b[j] = b[k]
      BY <1>6, <3>1
    <3>3. QED
      BY <1>12, <3>2
  <2>5. QED
    BY <2>1, <2>2, <2>3, <2>4
<1> DEFINE q == [ j \in 1 .. c |-> n[rows[j]] ]
           key == [ s \in S |-> CHOOSE j \in 1 .. c : rows[j] = s.merchant ]
<1>14. \A s \in S : key[s] \in 1 .. c /\ rows[key[s]] = s.merchant
  BY <1>2, <1>13 DEF KeyOf
<1>15. \A j \in 1 .. c : q[j] = Cardinality(Fibre(S, key, j))
  <2> SUFFICES ASSUME NEW j \in 1 .. c PROVE q[j] = Cardinality(Fibre(S, key, j))
    OBVIOUS
  <2>1. Fibre(S, key, j) = Fibre(S, KeyOf(S, "merchant"), rows[j])
    <3>1. \A s \in S : key[s] = j <=> KeyOf(S, "merchant")[s] = rows[j]
      BY <1>13, <1>14 DEF KeyOf
    <3> HIDE DEF key
    <3>2. QED
      BY <3>1 DEF Fibre
  <2>2. QED
    BY <1>4, <1>13, <2>1
<1>16. key \in [ S -> 1 .. c ]
  BY <1>14
<1>17. IsFiniteSet(1 .. c)
  BY <1>5, FS_Interval
<1>18. DOMAIN q = 1 .. c
  OBVIOUS
<1> HIDE DEF q, key
<1>19. SumOf(q, 1 .. c) = all
  BY <1>1, <1>15, <1>16, <1>17, CountOfRows DEF all
<1>20. upTo(c) = all
  <2>1. Sum(q) = SumOf(q, DOMAIN q)
    BY SeqSum
  <2>2. QED
    BY <1>18, <1>19, <2>1 DEF q
<1>21. Round(100 * all, all) = 100
  <2> HIDE DEF all
  <2>1. 2 * (100 * all) + all = 100 * (2 * all) + all
    BY <1>1
  <2>2. (100 * (2 * all) + all) \div (2 * all) = 100
    <3> DEFINE t == 2 * all
    <3>1. t \in Nat /\ t > 0 /\ all < t /\ all >= 0
      BY <1>1
    <3> HIDE DEF t
    <3>2. ((100 * t) + all) \div t = 100
      BY <1>1, <3>1, Z3T(30)
    <3>3. QED
      BY <3>2 DEF t
  <2>3. QED
    BY <2>1, <2>2 DEF Round
<1> HIDE DEF all
<1>22. DOMAIN cum = 1 .. c /\ cum[c] = 100
  <2>1. c \in 1 .. c
    BY <1>5
  <2>2. QED
    BY <1>13, <1>20, <1>21, <2>1
<1> HIDE DEF cum
<1>23. Len(cum) = c
  BY <1>5, <1>22
<1>24. QED
  BY <1>3, <1>22, <1>23 DEF Last, S

\* Whoever reached a stage of the funnel reached the one before.
LEMMA FunnelNarrows ==
    ASSUME NEW d, Given(d), Made(d), NEW s \in d.shipments, NEW i \in 2 .. Len(Funnel),
           Reached(Funnel[i], s)
    PROVE  Reached(Funnel[i - 1], s)
<1>1. Len(Funnel) = 6
  BY DEF Funnel
<1>2. /\ Funnel[1] = "created" /\ Funnel[2] = "picked" /\ Funnel[3] = "hub"
      /\ Funnel[4] = "dispatched" /\ Funnel[5] = "ofd" /\ Funnel[6] = "delivered"
  BY DEF Funnel
<1>3. s.group = StatusGroup(s.status)
  BY FiguresAre
<1>4. s.status \in { "DISPATCHED", "IN_TRANSIT", "ARRIVED_AT_DESTINATION_HUB" } => s.group = "in_transit"
  <2>1. /\ "in_transit" \in DOMAIN Stages
        /\ { "DISPATCHED", "IN_TRANSIT", "ARRIVED_AT_DESTINATION_HUB" } \subseteq Stages["in_transit"]
    BY DEF Stages
  <2>2. QED
    BY <1>3, <2>1, GroupIs
<1>5. i \in 2 .. 6
  BY <1>1
<1>6. CASE i = 2
  <2>1. Reached("created", s)
    BY DEF Reached
  <2>2. QED
    BY <1>2, <1>6, <2>1
<1>7. CASE i = 3
  <2>1. Reached("hub", s) => Reached("picked", s)
    BY DEF Reached, LastMile
  <2>2. QED
    BY <1>2, <1>7, <2>1
<1>8. CASE i = 4
  <2>1. Reached("dispatched", s) => Reached("hub", s)
    BY <1>4 DEF Reached, LastMile
  <2>2. QED
    BY <1>2, <1>8, <2>1
<1>9. CASE i = 5
  <2>1. Reached("ofd", s) => Reached("dispatched", s)
    BY DEF Reached
  <2>2. QED
    BY <1>2, <1>9, <2>1
<1>10. CASE i = 6
  <2>1. Reached("delivered", s) => Reached("ofd", s)
    BY DEF Reached, LastMile
  <2>2. QED
    BY <1>2, <1>10, <2>1
<1>11. QED
  BY <1>5, <1>6, <1>7, <1>8, <1>9, <1>10

LEMMA PagesStand ==
    ASSUME IInv
    PROVE  PagesAgree
<1> DEFINE ships == snap.shipments
           now == snap.now
           n == Cardinality(ships)
           all == FinanceFor(ships, now)
           matrix == CityMatrix(ships)
           pairs == OriginDestination(snap, ships)
           returns == ReturnsPage(ships)
           reached(i) == { s \in ships : Reached(Funnel[i], s) }
           fleet == RiderRows(snap, NoLists)
           share == HubShare(snap)
<1>1. Given(snap) /\ Made(snap) /\ now \in Int
  BY TimeAssumption DEF IInv, Given
<1>2. Tally(StatusDistribution(ships)) = n
  BY <1>1, GroupsCount
<1>3. Cardinality(DOMAIN ByCity(ships)) <= 10 =>
        /\ Column(CityPerformance(ships, 10), "total") = n
        /\ Column(CityPerformance(ships, 10), "judged") = Cardinality(Judged(ships))
  BY <1>1, CityRowsCount
<1>4. Tally([ c \in DOMAIN matrix |-> Tally(matrix[c]) ]) = n
  BY <1>1, MatrixCounts
<1>5. Tally(SlaBreakdown(ships)) + Count(ships, LAMBDA s : s.sla = "n_a") = n
  BY <1>1, SlaCounts
<1>6. /\ Column(MerchantRows(ships), "revenue") = all.revenue
      /\ Column(Settlement(ships, now), "codCollected") = all.codCollected
      /\ Column(Settlement(ships, now), "codSettled") = all.codSettled
      /\ Column(FinanceByCity(ships, now), "margin") = all.margin
      /\ Tally(FinanceByService(ships, now)) = all.margin
      /\ Column(CostByCity(ships, now), 1) = all.cost
  BY <1>1, RevenueAdds, SettlementAdds, CityMoneyAdds, ServiceMoneyAdds
<1>7. /\ Column(Cohorts(ships, now), "delivered") = Kpi(ships, now).delivered
      /\ Column(returns.byCity, "returns") = StatusDistribution(ships)["returns"]
  BY <1>1, CohortsCount, ReturnsCount
<1>8. returns.failedToReturn
        = Cardinality({ snap.attempts[i].package : i \in { j \in DOMAIN snap.attempts :
                                                           Failure(snap.attempts[j]) } })
  BY <1>1, FailedToReturnCounts
<1>9. /\ Tally(Flows(snap, ships)) <= Cardinality(Active(ships))
      /\ Tally([ k \in DOMAIN pairs |-> Cardinality(pairs[k]) ]) = n
  BY <1>1, FlowsCount, PairsCount
<1>10. /\ Tally(RiderUtilization(fleet)) = Cardinality(Rider)
       /\ Column(Capacity(snap, ships), "riders")
            = Cardinality({ r \in fleet : r.base # None /\ r.workload # "off_duty" })
  BY <1>1, UtilizationCounts, CapacityCounts
<1>11. \A m \in HubNodes(snap) : Column(share, 1) \in { 0, share[m][2] }
  BY <1>1, SharesAdd
<1>12. ships # {} => Last(Pareto(ships).cum) = 100
  BY <1>1, ParetoEnds
<1>13. \A i \in 2 .. Len(Funnel) : reached(i) \subseteq reached(i - 1)
  BY <1>1, FunnelNarrows
<1>14. QED
  BY <1>2, <1>3, <1>4, <1>5, <1>6, <1>7, <1>8, <1>9, <1>10, <1>11, <1>12, <1>13 DEF PagesAgree

----------------------------------------------------------------------------
\* The days of the daily chart.

\* The day the chart begins, and the place on it of an hour.
FirstDay(S, now) == Min({ s.createdAt : s \in S } \cup { now - (2 - 1) * Day }) \div Day
DayOf(first, hour) == hour \div Day - first + 1
OnDay(first, k, hour) == hour # None /\ DayOf(first, hour) = k

\* How many of a parcel's attempts failed that day.
FailedOn(first, k, s) ==
    Cardinality({ i \in DOMAIN s.attempts : /\ Failure(s.attempts[i])
                                            /\ OnDay(first, k, s.attempts[i].timestamp) })

\* The days shown, where an hour falls, and what a day's point counts.
LEMMA ChartIs ==
    ASSUME NEW d, Given(d), Made(d)
    PROVE  LET S == d.shipments
               days == DailySeries(S, d.now, 2)
               first == FirstDay(S, d.now)
           IN  /\ first \in Int /\ IsFiniteSet(DOMAIN days)
               /\ \A k \in DOMAIN days : k \in Int /\ first + k - 1 <= d.now \div Day
               /\ \A s \in S, hour \in Int :
                    s.createdAt <= hour /\ hour \div Day <= d.now \div Day => DayOf(first, hour) \in DOMAIN days
<1> DEFINE S == d.shipments
           now == d.now
           days == DailySeries(S, now, 2)
           back == now - (2 - 1) * Day
           start == Min({ s.createdAt : s \in S } \cup { back })
           first == FirstDay(S, now)
           shown == DaysShown(start, now)
<1>1. now \in Nat /\ back \in Int /\ back <= now
  BY TimeAssumption DEF Given, Day
<1>2. IsFiniteSet(S) /\ \A s \in S : s.createdAt \in Int
  BY ParcelsAre, FiguresAre
<1> HIDE DEF back
<1>3. start \in Int /\ start <= back /\ \A s \in S : start <= s.createdAt
  BY <1>1, <1>2, FirstIs
<1>4. first = start \div Day
  BY DEF FirstDay, back
<1> HIDE DEF start, first
<1>5. first \in Int /\ shown = now \div Day - first + 1 /\ shown \in Int
  BY <1>1, <1>3, <1>4 DEF Day, DaysShown
<1>6. S = {} => DOMAIN days = {}
  BY DEF DailySeries
<1>7. S # {} => DOMAIN days = 1 .. shown
  BY DEF DailySeries, start, back
<1> HIDE DEF shown, days
<1>8. IsFiniteSet(DOMAIN days)
  <2>1. IsFiniteSet(1 .. shown)
    BY <1>5, FS_Interval
  <2>2. QED
    BY <1>6, <1>7, <2>1, FS_EmptySet
<1>9. \A k \in DOMAIN days : k \in Int /\ first + k - 1 <= now \div Day
  <2>1. now \div Day \in Int
    BY <1>1 DEF Day
  <2>2. QED
    BY <1>5, <1>6, <1>7, <2>1
<1>10. ASSUME NEW s \in S, NEW hour \in Int, s.createdAt <= hour, hour \div Day <= now \div Day
       PROVE  DayOf(first, hour) \in DOMAIN days
  <2>1. start <= hour
    BY <1>2, <1>3, <1>10
  <2>2. first <= hour \div Day /\ hour \div Day \in Int /\ now \div Day \in Int
    BY <1>1, <1>3, <1>4, <2>1 DEF Day
  <2>3. DayOf(first, hour) \in 1 .. shown
    BY <1>5, <1>10, <2>2 DEF DayOf
  <2>4. QED
    BY <1>7, <2>3
<1>11. QED
  BY <1>5, <1>8, <1>9, <1>10 DEF days, first

LEMMA PointIs ==
    ASSUME NEW d, Given(d), Made(d), NEW k \in DOMAIN DailySeries(d.shipments, d.now, 2)
    PROVE  LET S == d.shipments
               day == DailySeries(S, d.now, 2)[k]
               first == FirstDay(S, d.now)
               arrived == { s \in S : OnDay(first, k, s.deliveredAt) }
           IN  /\ day["created"] = Cardinality({ s \in S : OnDay(first, k, s.createdAt) })
               /\ day["delivered"] = Cardinality(arrived)
               /\ day["late"] = Cardinality({ s \in arrived : s.sla = "missed" })
               /\ day["onTime"] = Cardinality({ s \in arrived : s.sla = "met" })
               /\ day["codCollected"] = Total(Cod, arrived)
               /\ day["failed"] = SumOf([ s \in S |-> FailedOn(first, k, s) ], S)
<1> DEFINE S == d.shipments
           now == d.now
           days == DailySeries(S, now, 2)
           first == FirstDay(S, now)
           on(hour) == hour # None /\ hour \div Day = first + k - 1
           arrived == { s \in S : on(s.deliveredAt) }
           failures(s) == Cardinality({ i \in DOMAIN s.attempts :
                              Failure(s.attempts[i]) /\ on(s.attempts[i].timestamp) })
<1>1. S # {}
  BY DEF DailySeries
<1>2. /\ days[k]["created"] = Cardinality({ s \in S : on(s.createdAt) })
      /\ days[k]["delivered"] = Cardinality(arrived)
      /\ days[k]["late"] = Cardinality({ s \in arrived : s.sla = "missed" })
      /\ days[k]["onTime"] = Cardinality({ s \in arrived : s.sla = "met" })
      /\ days[k]["codCollected"] = Total(Cod, arrived)
      /\ days[k]["failed"] = MapThenSumSet(LAMBDA s : Cardinality({ i \in DOMAIN s.attempts :
                     Failure(s.attempts[i]) /\ on(s.attempts[i].timestamp) }), S)
  BY <1>1 DEF DailySeries, FirstDay
<1>3. first \in Int /\ k \in Int
  BY ChartIs
<1>4. \A hour \in Int \cup { None } : on(hour) <=> OnDay(first, k, hour)
  <2>1. \A hour \in Int : hour \div Day \in Int
    BY DEF Day
  <2> HIDE DEF first
  <2>2. QED
    BY <1>3, <2>1 DEF OnDay, DayOf
<1>5. \A s \in S : s.createdAt \in Int /\ s.deliveredAt \in Int \cup { None }
  BY FiguresAre
<1>6. \A s \in S : \A i \in DOMAIN s.attempts : s.attempts[i].timestamp \in Int
  <2> SUFFICES ASSUME NEW s \in S, NEW i \in DOMAIN s.attempts PROVE s.attempts[i].timestamp \in Int
    OBVIOUS
  <2>1. s = ShipmentOf(d, s.id) /\ ShipmentOf(d, s.id).attempts = AttemptsOf(d, s.id)
    BY ParcelsAre, ColumnsAre
  <2>2. PICK j \in PlacesOf(d.attempts, s.id) : AttemptsOf(d, s.id)[i] = d.attempts[j]
    BY <2>1, AttemptsAre
  <2>3. j \in DOMAIN d.attempts /\ d.attempts \in Seq(Attempt(d.now)) /\ d.now \in Int
    BY <2>2, TimeAssumption DEF PlacesOf, Given
  <2>4. d.attempts[j] \in Attempt(d.now)
    BY <2>3
  <2>5. QED
    BY <2>1, <2>2, <2>3, <2>4 DEF Attempt
<1>7. MapThenSumSet(LAMBDA s : Cardinality({ i \in DOMAIN s.attempts :
                     Failure(s.attempts[i]) /\ on(s.attempts[i].timestamp) }), S) = SumOf([ s \in S |-> failures(s) ], S)
  <2> HIDE DEF S
  <2>1. QED
    BY DEF SumOf, MapThenSumSet, MapThenFoldSet
<1> HIDE DEF S, on, first, days
<1>8. { s \in S : on(s.createdAt) } = { s \in S : OnDay(first, k, s.createdAt) }
  BY <1>4, <1>5
<1>9. arrived = { s \in S : OnDay(first, k, s.deliveredAt) }
  BY <1>4, <1>5
<1>10. \A s \in S : failures(s) = FailedOn(first, k, s)
  <2> SUFFICES ASSUME NEW s \in S PROVE failures(s) = FailedOn(first, k, s)
    OBVIOUS
  <2>1. { i \in DOMAIN s.attempts : Failure(s.attempts[i]) /\ on(s.attempts[i].timestamp) }
          = { i \in DOMAIN s.attempts : Failure(s.attempts[i]) /\ OnDay(first, k, s.attempts[i].timestamp) }
    BY <1>4, <1>6
  <2>2. QED
    BY <2>1 DEF FailedOn
<1>11. [ s \in S |-> failures(s) ] = [ s \in S |-> FailedOn(first, k, s) ]
  <2> HIDE DEF failures
  <2>1. QED
    BY <1>10
<1>12. QED
  <2> HIDE DEF failures, arrived
  <2>1. QED
    BY <1>2, <1>7, <1>8, <1>9, <1>11 DEF S, first, days

\* The parcels delivered by today, and the days their deliveries are on.
DueBy(S, now) == { s \in S : s.deliveredAt # None => s.deliveredAt \div Day <= now \div Day }
DayArrived(T, first) == [ s \in T |-> DayOf(first, s.deliveredAt) ]

LEMMA ArrivalsAre ==
    ASSUME NEW d, Given(d), Made(d)
    PROVE  LET S == d.shipments
               first == FirstDay(S, d.now)
               T == Delivered(DueBy(S, d.now))
               key == DayArrived(T, first)
               K == DOMAIN DailySeries(S, d.now, 2)
           IN  /\ IsFiniteSet(T) /\ T \in SUBSET S /\ key \in [ T -> K ]
               /\ \A k \in K : { s \in S : OnDay(first, k, s.deliveredAt) } = Fibre(T, key, k)
<1> DEFINE S == d.shipments
           now == d.now
           first == FirstDay(S, now)
           due == DueBy(S, now)
           T == Delivered(due)
           key == DayArrived(T, first)
           K == DOMAIN DailySeries(S, now, 2)
<1>1. IsFiniteSet(T) /\ T \in SUBSET S
  BY ParcelsAre, FS_Subset DEF Delivered, DueBy
<1>2. /\ first \in Int /\ \A k \in K : k \in Int /\ first + k - 1 <= now \div Day
      /\ \A s \in S, hour \in Int :
           s.createdAt <= hour /\ hour \div Day <= now \div Day => DayOf(first, hour) \in K
  BY ChartIs
<1>3. \A s \in S : /\ s.deliveredAt \in Int \cup { None } /\ s.status = "DELIVERED" <=> s.deliveredAt # None
                   /\ s.deliveredAt # None => s.createdAt <= s.deliveredAt
  BY FiguresAre
<1>4. T = { s \in S : s.deliveredAt # None /\ s.deliveredAt \div Day <= now \div Day }
  BY <1>3 DEF Delivered, DueBy
<1>5. ASSUME NEW k \in K, NEW s \in S
      PROVE  OnDay(first, k, s.deliveredAt) <=> s \in T /\ DayOf(first, s.deliveredAt) = k
  <2>1. CASE s.deliveredAt = None
    BY <1>4, <2>1 DEF OnDay
  <2>2. CASE s.deliveredAt # None
    <3>1. s.deliveredAt \in Int /\ s.deliveredAt \div Day \in Int /\ now \div Day \in Int
      BY <1>3, <2>2, TimeAssumption DEF Given, Day
    <3>2. DayOf(first, s.deliveredAt) = k => s.deliveredAt \div Day <= now \div Day
      <4> HIDE DEF first, K
      <4>1. QED
        BY <1>2, <3>1 DEF DayOf
    <3> HIDE DEF T, first, K
    <3>3. QED
      BY <1>4, <2>2, <3>2 DEF OnDay
  <2>3. QED
    BY <2>1, <2>2
<1>6. key \in [ T -> K ]
  <2>1. \A s \in T : DayOf(first, s.deliveredAt) \in K
    BY <1>2, <1>3, <1>4
  <2>2. QED
    BY <2>1 DEF DayArrived
<1> HIDE DEF T, first, K, S
<1>7. \A k \in K : { s \in S : OnDay(first, k, s.deliveredAt) } = Fibre(T, key, k)
  <2> SUFFICES ASSUME NEW k \in K
               PROVE  { s \in S : OnDay(first, k, s.deliveredAt) } = Fibre(T, key, k)
    OBVIOUS
  <2>1. \A s \in S : OnDay(first, k, s.deliveredAt) <=> s \in T /\ DayOf(first, s.deliveredAt) = k
    BY <1>5
  <2>2. \A s \in T : key[s] = DayOf(first, s.deliveredAt)
    BY DEF DayArrived
  <2> HIDE DEF key
  <2>3. QED
    BY <1>1, <2>1, <2>2 DEF Fibre
<1>8. QED
  BY <1>1, <1>6, <1>7 DEF T, first, K, S

\* A failed attempt is one of its parcel's, on the day it was made.
LEMMA FailuresAre ==
    ASSUME NEW d, Given(d), Made(d), NEW k \in DOMAIN DailySeries(d.shipments, d.now, 2)
    PROVE  LET S == d.shipments
               first == FirstDay(S, d.now)
           IN  SumOf([ s \in S |-> FailedOn(first, k, s) ], S)
                 = Cardinality({ i \in DOMAIN d.attempts :
                                   /\ Failure(d.attempts[i])
                                   /\ OnDay(first, k, d.attempts[i].timestamp) })
<1> DEFINE S == d.shipments
           first == FirstDay(S, d.now)
           I == DOMAIN d.attempts
           bad(a) == Failure(a) /\ OnDay(first, k, a.timestamp)
           F == { i \in I : bad(d.attempts[i]) }
           Good == { a \in Range(d.attempts) : bad(a) }
           key == [ i \in F |-> ShipmentOf(d, d.attempts[i].package) ]
           rows == [ s \in S |-> FailedOn(first, k, s) ]
<1>1. IsFiniteSet(S) /\ IsFiniteSet(F)
  <2>1. Len(d.attempts) \in Nat /\ I = 1 .. Len(d.attempts)
    BY DEF Given
  <2>2. IsFiniteSet(I)
    BY <2>1, FS_Interval
  <2>3. QED
    BY <2>2, ParcelsAre, FS_Subset
<1>2. \A i \in I : d.attempts[i].package \in Package
  <2>1. d.attempts \in Seq(Attempt(d.now))
    BY DEF Given
  <2>2. \A i \in I : d.attempts[i] \in Attempt(d.now)
    BY <2>1
  <2>3. QED
    BY <2>2 DEF Attempt
<1>3. key \in [ F -> S ] /\ \A i \in F : key[i].id = d.attempts[i].package
  BY <1>2, ParcelsAre
<1>4. ASSUME NEW s \in S PROVE rows[s] = Cardinality(Fibre(F, key, s))
  <2> DEFINE own == AttemptsOf(d, s.id)
             mine == PlacesOf(d.attempts, s.id)
  <2>1. s = ShipmentOf(d, s.id) /\ s.id \in Package
    BY ParcelsAre
  <2>2. s.attempts = own
    BY <2>1, ColumnsAre
  <2>3. /\ \A j \in DOMAIN own : \E i \in mine : own[j] = d.attempts[i]
        /\ Cardinality(Hits(own, DOMAIN own, Good)) = Cardinality(Hits(d.attempts, mine, Good))
    BY AttemptsAre
  <2>4. \A i \in mine : i \in I /\ d.attempts[i] \in Range(d.attempts) /\ d.attempts[i].package = s.id
    BY DEF PlacesOf, Range
  <2>5. Hits(d.attempts, mine, Good) = { i \in I : d.attempts[i].package = s.id /\ bad(d.attempts[i]) }
    <3> HIDE DEF bad
    <3>1. QED
      BY <2>4 DEF Hits, PlacesOf
  <2>6. Fibre(F, key, s) = { i \in I : d.attempts[i].package = s.id /\ bad(d.attempts[i]) }
    <3>1. \A i \in F : key[i] = s <=> d.attempts[i].package = s.id
      BY <1>3, <2>1
    <3> HIDE DEF bad, key, I
    <3>2. QED
      BY <3>1 DEF Fibre
  <2> HIDE DEF own, mine
  <2>7. Hits(own, DOMAIN own, Good) = { j \in DOMAIN own : bad(own[j]) }
    <3>1. \A j \in DOMAIN own : own[j] \in Range(d.attempts)
      BY <2>3, <2>4
    <3> HIDE DEF bad
    <3>2. QED
      BY <3>1 DEF Hits
  <2>8. FailedOn(first, k, s) = Cardinality({ j \in DOMAIN own : bad(own[j]) })
    BY <2>2 DEF FailedOn
  <2>9. rows[s] = FailedOn(first, k, s)
    OBVIOUS
  <2> HIDE DEF bad, rows, key, F, Good
  <2>10. QED
    BY <2>3, <2>5, <2>6, <2>7, <2>8, <2>9
<1> HIDE DEF rows, key, F, S
<1>5. SumOf(rows, S) = Cardinality(F)
  BY <1>1, <1>3, <1>4, CountOfRows
<1>6. QED
  BY <1>5 DEF rows, F, S

LEMMA ChartStands ==
    ASSUME IInv
    PROVE  ChartLosesNothing
<1> DEFINE S == snap.shipments
           now == snap.now
           days == DailySeries(S, now, 2)
           K == DOMAIN days
           first == FirstDay(S, now)
           due == DueBy(S, now)
           T == Delivered(due)
           key == DayArrived(T, first)
           arrived(k) == { s \in S : OnDay(first, k, s.deliveredAt) }
<1>1. Given(snap) /\ Made(snap) /\ now \in Nat
  BY TimeAssumption DEF IInv, Given
<1>2. /\ IsFiniteSet(S) /\ IsFiniteSet(K) /\ due \in SUBSET S /\ IsFiniteSet(due)
      /\ \A s \in S, hour \in Int :
           s.createdAt <= hour /\ hour \div Day <= now \div Day => DayOf(first, hour) \in K
  <2>1. IsFiniteSet(S) /\ due \in SUBSET S /\ IsFiniteSet(due)
    BY <1>1, ParcelsAre, FS_Subset DEF DueBy
  <2>2. QED
    BY <1>1, <2>1, ChartIs
<1>3. /\ IsFiniteSet(T) /\ T \in SUBSET S /\ key \in [ T -> K ]
      /\ \A k \in K : arrived(k) = Fibre(T, key, k)
  BY <1>1, ArrivalsAre
<1>4. ASSUME NEW k \in K
      PROVE  /\ days[k]["created"] = Cardinality({ s \in S : OnDay(first, k, s.createdAt) })
             /\ days[k]["delivered"] = Cardinality(arrived(k))
             /\ days[k]["late"] = Cardinality({ s \in arrived(k) : s.sla = "missed" })
             /\ days[k]["onTime"] = Cardinality({ s \in arrived(k) : s.sla = "met" })
             /\ days[k]["codCollected"] = Total(Cod, arrived(k))
             /\ days[k]["failed"] = SumOf([ s \in S |-> FailedOn(first, k, s) ], S)
  BY <1>1, PointIs
<1>5. \A s \in S : /\ s.createdAt \in Int /\ s.createdAt <= now /\ s.createdAt # None
                   /\ s.codAmount \in Nat
                   /\ s.status = "DELIVERED" <=> s.deliveredAt # None
  BY <1>1, FiguresAre, NullAssumption
<1> HIDE DEF S, K, first, T, days, due
<1>6. Column(days, "created") = Cardinality(S)
  <2> DEFINE born == [ s \in S |-> DayOf(first, s.createdAt) ]
  <2>1. born \in [ S -> K ]
    <3> SUFFICES ASSUME NEW s \in S PROVE DayOf(first, s.createdAt) \in K
      OBVIOUS
    <3>1. s.createdAt \div Day <= now \div Day
      BY <1>1, <1>5 DEF Day
    <3>2. QED
      BY <1>2, <1>5, <3>1
  <2>2. \A k : { s \in S : OnDay(first, k, s.createdAt) } = Fibre(S, born, k)
    BY <1>5 DEF OnDay, Fibre
  <2> HIDE DEF born
  <2>3. \A k \in K : days[k]["created"] = Cardinality(Fibre(S, born, k))
    BY <1>4, <2>2
  <2>4. DOMAIN days = K
    BY DEF K
  <2>5. QED
    BY <1>2, <2>1, <2>3, <2>4, ColumnCounts
<1>7. DOMAIN days = K
  BY DEF K
<1>8. Column(days, "delivered") = Cardinality(T)
  <2> HIDE DEF key
  <2>1. \A k \in K : days[k]["delivered"] = Cardinality(Fibre(T, key, k))
    BY <1>3, <1>4
  <2>2. QED
    BY <1>2, <1>3, <1>7, <2>1, ColumnCounts
<1> DEFINE Counts(field, verdict) ==
             \A k \in K : days[k][field] = Cardinality({ s \in arrived(k) : s.sla = verdict })
           Of(verdict) == { s \in T : s.sla = verdict }
<1>9. ASSUME NEW field, NEW verdict, Counts(field, verdict)
      PROVE  Column(days, field) = Cardinality(Of(verdict))
  <2> DEFINE U == Of(verdict)
             kept == [ s \in U |-> key[s] ]
  <2>1. IsFiniteSet(U) /\ kept \in [ U -> K ]
    BY <1>3, FS_Subset
  <2>2. \A k \in K : { s \in arrived(k) : s.sla = verdict } = Fibre(U, kept, k)
    <3> SUFFICES ASSUME NEW k \in K
                 PROVE  { s \in Fibre(T, key, k) : s.sla = verdict } = Fibre(U, kept, k)
      BY <1>3
    <3> HIDE DEF key
    <3>1. QED
      BY DEF Fibre
  <2>3. \A k \in K : days[k][field] = Cardinality(Fibre(U, kept, k))
    BY <1>9, <2>2
  <2> HIDE DEF U, kept
  <2>4. Column(days, field) = Cardinality(U)
    BY <1>2, <1>7, <2>1, <2>3, ColumnCounts
  <2>5. QED
    BY <2>4 DEF U
<1>10. Column(days, "onTime") + Column(days, "late") = Cardinality(Judged(due))
  <2> DEFINE J == Judged(due)
             met == { s \in T : s.sla = "met" }
             missed == { s \in T : s.sla = "missed" }
  <2>1. Counts("onTime", "met") /\ Counts("late", "missed")
    BY <1>4
  <2>2. Column(days, "onTime") = Cardinality(met) /\ Column(days, "late") = Cardinality(missed)
    <3>1. met = Of("met") /\ missed = Of("missed")
      OBVIOUS
    <3> HIDE DEF Counts, Of, met, missed
    <3>2. QED
      BY <1>9, <2>1, <3>1
  <2>3. J = { s \in T : s.sla \in { "met", "missed" } }
    BY DEF Judged, T
  <2>4. IsFiniteSet(J) /\ met \in SUBSET J /\ J \ met = missed
    BY <1>3, <2>3, FS_Subset
  <2> HIDE DEF J, met, missed
  <2>5. Cardinality(met) + Cardinality(J \ met) = Cardinality(J)
    BY <2>4, PartsCount
  <2>6. QED
    BY <2>4, <2>5, <2>2 DEF J
<1>11. Column(days, "failed")
         = Cardinality({ i \in DOMAIN snap.attempts : Failure(snap.attempts[i]) })
  <2> DEFINE I == DOMAIN snap.attempts
             F == { i \in I : Failure(snap.attempts[i]) }
             made == [ i \in F |-> DayOf(first, snap.attempts[i].timestamp) ]
  <2>1. IsFiniteSet(F)
    <3>1. snap.attempts \in Seq(Attempt(now))
      BY <1>1 DEF Given
    <3>2. IsFiniteSet(I)
      <4>1. Len(snap.attempts) \in Nat /\ I = 1 .. Len(snap.attempts)
        BY <3>1
      <4>2. Len(snap.attempts) \in Int /\ 1 \in Int
        BY <4>1
      <4>3. QED
        BY <4>1, <4>2, FS_Interval
    <3>3. QED
      BY <3>2, FS_Subset
  <2>2. \A i \in I : /\ snap.attempts[i].timestamp \in 0 .. now
                     /\ snap.attempts[i].package \in Package
    <3>1. snap.attempts \in Seq(Attempt(now))
      BY <1>1 DEF Given
    <3>2. \A i \in I : snap.attempts[i] \in Attempt(now)
      BY <3>1
    <3>3. QED
      BY <3>2 DEF Attempt
  <2>3. made \in [ F -> K ]
    <3> SUFFICES ASSUME NEW i \in F PROVE DayOf(first, snap.attempts[i].timestamp) \in K
      OBVIOUS
    <3> DEFINE hour == snap.attempts[i].timestamp
               s == ShipmentOf(snap, snap.attempts[i].package)
    <3>1. s \in S
      BY <1>1, <2>2, ParcelsAre DEF S
    <3>2. hour \in Int /\ 0 <= hour /\ hour <= now
      BY <1>1, <2>2
    <3>3. s.createdAt \in Int /\ s.createdAt <= 0
      BY <1>1, <3>1, FiguresAre DEF S
    <3> HIDE DEF hour, s
    <3>4. hour \div Day <= now \div Day /\ s.createdAt <= hour
      BY <1>1, <3>2, <3>3 DEF Day
    <3>5. QED
      BY <1>2, <3>1, <3>2, <3>4 DEF hour
  <2>4. ASSUME NEW k \in K PROVE days[k]["failed"] = Cardinality(Fibre(F, made, k))
    <3>1. days[k]["failed"]
            = Cardinality({ i \in I : /\ Failure(snap.attempts[i])
                                      /\ OnDay(first, k, snap.attempts[i].timestamp) })
      <4>1. SumOf([ s \in S |-> FailedOn(first, k, s) ], S)
              = Cardinality({ i \in I : /\ Failure(snap.attempts[i])
                                        /\ OnDay(first, k, snap.attempts[i].timestamp) })
        BY <1>1, FailuresAre DEF K, days, first, S
      <4>2. QED
        BY <1>4, <4>1
    <3>2. \A i \in I : snap.attempts[i].timestamp # None
      BY <1>1, <2>2, NullAssumption
    <3>3. { i \in I : Failure(snap.attempts[i]) /\ OnDay(first, k, snap.attempts[i].timestamp) }
            = Fibre(F, made, k)
      BY <3>2 DEF OnDay, Fibre
    <3>4. QED
      BY <3>1, <3>3
  <2> HIDE DEF F, made
  <2>5. Column(days, "failed") = Cardinality(F)
    BY <1>2, <1>7, <2>1, <2>3, <2>4, ColumnCounts
  <2>6. QED
    BY <2>5 DEF F
<1>12. Column(days, "codCollected") = FinanceFor(due, now).codCollected
  <2>1. \A k \in K : days[k]["codCollected"] = SumOf(Cods(S), Fibre(T, key, k))
    <3> SUFFICES ASSUME NEW k \in K PROVE Total(Cod, arrived(k)) = SumOf(Cods(S), Fibre(T, key, k))
      BY <1>4
    <3> DEFINE U == Fibre(T, key, k)
    <3>1. arrived(k) = U /\ U \in SUBSET T
      BY <1>3 DEF Fibre
    <3> HIDE DEF U
    <3>2. IsFiniteSet(U) /\ \A s \in U : Cods(U)[s] = Cods(S)[s] /\ Cods(S)[s] \in Int
      BY <1>3, <1>5, <3>1, FS_Subset DEF Cods
    <3>3. SumOf(Cods(U), U) = SumOf(Cods(S), U)
      BY <3>2, SumSame
    <3>4. QED
      BY <3>1, <3>3, TotalsAre DEF U
  <2>2. \A s \in T : Cods(S)[s] \in Int
    BY <1>3, <1>5 DEF Cods
  <2> HIDE DEF key
  <2>3. Column(days, "codCollected") = SumOf(Cods(S), T)
    BY <1>2, <1>3, <1>7, <2>1, <2>2, ColumnAdds
  <2>4. FinanceFor(due, now).codCollected = SumOf(Collecteds(S), due)
    BY <1>1, <1>2, FinanceIs DEF S
  <2>5. T \in SUBSET due /\ \A s \in due : s \in T <=> s.status = "DELIVERED"
    BY DEF T, Delivered
  <2>6. /\ \A s \in due : Collecteds(S)[s] \in Int
        /\ \A s \in due \ T : Collecteds(S)[s] = 0
        /\ \A s \in T : Cods(S)[s] = Collecteds(S)[s]
    BY <1>2, <1>5, <2>5 DEF Cods, Collecteds
  <2>7. SumOf(Cods(S), T) = SumOf(Collecteds(S), due)
    BY <1>2, <2>5, <2>6, SumPart
  <2>8. QED
    BY <2>3, <2>4, <2>7
<1>13. due = { s \in S : s.deliveredAt # None => s.deliveredAt \div Day <= now \div Day }
  BY DEF due, DueBy
<1>14. QED
  BY <1>6, <1>8, <1>10, <1>11, <1>12, <1>13 DEF ChartLosesNothing, S, days, T

----------------------------------------------------------------------------
\* THEOREMS

\* Whatever has been derived before, a snapshot's parcels, hubs, riders and exceptions
\* are those of its data as it is now (derive.ts, derive): deriving again changes nothing.
THEOREM InvariantHolds == Spec => []IInv
<1>1. Init => IInv
  BY InitInv
<1>2. IInv /\ [Next]_snap => IInv'
  BY StepInv
<1>3. QED
  BY <1>1, <1>2, PTL DEF Spec

\* Whatever the fleet, the network and the parcels: a parcel has a place on every
\* scale, is in at most one hub's list of each kind (derive.ts, deriveHubs), and is
\* counted once by a simulated move of riders (ai/simulate.ts).
THEOREM EachCountedOnce == Spec => []CountedOnce
<1>1. IInv => TypeOK
  BY ParcelsAre DEF IInv, Given, TypeOK
<1>2. IInv => HubsShareNoParcel
  <2> SUFFICES ASSUME IInv PROVE HubsShareNoParcel
    OBVIOUS
  <2>1. ASSUME NEW h \in Hubs(snap)
        PROVE  \E n \in DOMAIN snap.hubs :
                 /\ h = snap.hubs[n]
                 /\ h.atHub = { s \in Active(snap.shipments) : s.currentNode = n }
                 /\ h.pending \cap h.outbound = {} /\ h.atHub \cap h.inbound = {}
                 /\ h.slaRisk <= Cardinality(h.atHub) /\ h.load >= Cardinality(h.atHub)
    BY HubsAre DEF Hubs, Range, IInv
  <2>2. ASSUME NEW h \in Hubs(snap), NEW k \in Hubs(snap), h # k
        PROVE  h.atHub \cap k.atHub = {}
    <3>1. PICK m \in DOMAIN snap.hubs :
              h = snap.hubs[m] /\ h.atHub = { s \in Active(snap.shipments) : s.currentNode = m }
      BY <2>1
    <3>2. PICK n \in DOMAIN snap.hubs :
              k = snap.hubs[n] /\ k.atHub = { s \in Active(snap.shipments) : s.currentNode = n }
      BY <2>1
    <3>3. m # n
      BY <2>2, <3>1, <3>2
    <3>4. QED
      BY <3>1, <3>2, <3>3
  <2>3. QED
    BY <2>1, <2>2 DEF HubsShareNoParcel
<1>3. IInv => SimulationConserves
  <2> SUFFICES ASSUME IInv PROVE SimulationConserves
    OBVIOUS
  <2>1. IsFiniteSet(snap.shipments) /\ IsFiniteSet(DOMAIN snap.riders)
    BY ParcelsAre, SizeAssumption DEF IInv, Given
  <2>2. ASSUME NEW from, NEW to, NEW n \in 0 .. 3
        PROVE  Conserved(snap, from, to, n)
    BY <2>1, SimulationBalances
  <2>3. QED
    BY <2>2 DEF Conserved, SimulationConserves
<1>4. QED
  BY <1>1, <1>2, <1>3, InvariantHolds, PTL DEF CountedOnce

\* However the parcels move and the hours pass: a parcel that was late is never
\* shown as met, at risk or on track again (derive.ts, slaFor), and one that only
\* waits does not sink in the risk queue (derive.ts, riskFor).
THEOREM TimeForgivesNothing == Spec => TimeOnlyHurts
<1> DEFINE Forgives == \A p \in Package :
                SlaOf(snap, snap.packages[p]) = "breached" =>
                    SlaOf(snap, snap.packages[p])' \in { "breached", "missed", "n_a" }
           Rises == snap'.packages = snap.packages =>
                \A p \in Package : ShipmentOf(snap, p)'.riskScore >= ShipmentOf(snap, p).riskScore
<1>1. IInv /\ [Next]_snap => [Forgives]_snap
  BY StepInv, LateStaysLate DEF IInv
<1>2. IInv /\ [Next]_snap => [Rises]_snap
  BY RiskOnlyRises DEF IInv
<1>3. QED
  BY <1>1, <1>2, InvariantHolds, PTL DEF Spec, TimeOnlyHurts, SlaNeverForgives, WaitingNeverLowersRisk

\* Whatever the fleet, the network and the parcels: the exceptions list and the copilot's
\* answer name the overdue parcels; whatever the window and the city the Command Center is
\* asked for, its card names those of the city, and its brief and its tile count those of
\* them that the window leaves; a KPI tile filters the page to what it counted; and the
\* assistants have advice for all that the list raises, a forecast that is a number, and the
\* right reading of each question they suggest (derive.ts:20-24, "so a KPI, a chart and a
\* table always agree").
THEOREM OneListEverywhere == Spec => []ListsAgree
<1>1. IInv => ListsAgree
  BY OverdueIsRaised, TilesFilter, AssistantsStand DEF ListsAgree
<1>2. QED
  BY <1>1, InvariantHolds, PTL

\* One figure, whichever page takes it: across merchants, cities, riders, services,
\* weeks and days nothing is lost and nothing differs (derive.ts:20-24).
THEOREM FiguresAlwaysAgree == Spec => []FiguresAgree
<1>1. IInv => FiguresAgree
  BY MoneyAgrees, PagesStand, ChartStands DEF FiguresAgree
<1>2. QED
  BY <1>1, InvariantHolds, PTL

=============================================================================
