--------------------------- MODULE MapViewProofs ----------------------------
(***************************************************************************)
(* What MapView guarantees for every country, fleet, file of roads, feed,  *)
(* durations and budgets.                                                  *)
(*                                                                         *)
(* First the geometry: lengths along a polyline, the place of a position   *)
(* on a road, the way ahead of it and the stretch between two.  Then, for  *)
(* each helper of the map, a lemma that says what it changes of a view and *)
(* what it leaves alone.                                                   *)
(*                                                                         *)
(* The invariant IInv says of a mounted map that it is what its effects    *)
(* made of the values they last ran with (Caught: rendered), never what it *)
(* ought to show now; when all effects have run, those are the values of   *)
(* now.  The effects of one render run in turn, and between two of them    *)
(* each part of the view is either right for the new values or still for   *)
(* the old ones (Underway); the last effect leaves nothing of the old.     *)
(* Airborne relates a view to the clock: a flight is never overdue, and a  *)
(* map that listens and has not arrived is in the air.                     *)
(*                                                                         *)
(* Of the markers it is shown that only the effects of a report give one   *)
(* another glide, that a glide which has a path follows a stretch of one   *)
(* road of the file (MarkersOnRoads), and that what is drawn along such a  *)
(* stretch is on that road.                                                *)
(***************************************************************************)
EXTENDS MapView, NaturalsInduction, WellFoundedInduction, FiniteSetTheorems, SequenceTheorems, TLAPS

----------------------------------------------------------------------------
\* Induction along a sequence, and the least of some numbers.

LEMMA InductTo ==
    ASSUME NEW L \in Nat, NEW P \in SUBSET (0 .. L), 0 \in P,
           \A n \in P : n < L => n + 1 \in P
    PROVE  P = 0 .. L
<1> SUFFICES ASSUME NEW x \in 0 .. L, x \notin P PROVE FALSE
  OBVIOUS
<1> DEFINE R == OpToRel(<, Nat)
           T == (0 .. L) \ P
<1>1. \A m, n \in Nat : m < n => <<m, n>> \in R
  BY DEF OpToRel
<1>2. IsWellFoundedOn(R, Nat)
  BY NatLessThanWellFounded
<1>3. T \subseteq Nat /\ T # {}
  OBVIOUS
<1> HIDE DEF R
<1>4. PICK n \in T : \A m \in T : <<m, n>> \notin R
  BY <1>2, <1>3, WFMin
<1>5. PICK m \in 0 .. L : n = m + 1
  BY <1>4
<1>6. <<m, n>> \in R
  BY <1>1, <1>4, <1>5
<1>7. m \notin T
  BY <1>4, <1>6
<1>8. m < L
  BY <1>4, <1>5
<1>9. QED
  BY <1>4, <1>5, <1>7, <1>8

LEMMA LeastOf ==
    ASSUME NEW S, S \subseteq Nat, S # {}
    PROVE  \E n \in S : \A m \in S : n <= m
<1> DEFINE R == OpToRel(<, Nat)
<1>1. \A m, n \in Nat : m < n => <<m, n>> \in R
  BY DEF OpToRel
<1>2. IsWellFoundedOn(R, Nat)
  BY NatLessThanWellFounded
<1> HIDE DEF R
<1>3. PICK n \in S : \A m \in S : <<m, n>> \notin R
  BY <1>2, WFMin
<1>4. \A m \in S : n <= m
  <2> SUFFICES ASSUME NEW m \in S, ~(n <= m) PROVE FALSE
    OBVIOUS
  <2>1. m \in Nat /\ n \in Nat
    OBVIOUS
  <2>2. m < n
    BY <2>1
  <2>3. <<m, n>> \in R
    BY <1>1, <2>1, <2>2
  <2>4. QED
    BY <1>3, <2>3
<1>5. QED
  BY <1>4

----------------------------------------------------------------------------
\* Points and polylines.

LEMMA MetresIs ==
    ASSUME NEW p \in Point, NEW q \in Point
    PROVE  /\ Metres(p, q) \in Nat
           /\ Metres(p, q) = Metres(q, p)
           /\ Metres(p, q) = 0 => p = q
<1>1. p[1] \in Int /\ p[2] \in Int /\ q[1] \in Int /\ q[2] \in Int
  BY DEF Point
<1>2. ASSUME Metres(p, q) = 0 PROVE p = q
  <2>1. p[1] = q[1] /\ p[2] = q[2]
    BY <1>1, <1>2 DEF Metres, Gap, Most, Least
  <2>2. QED
    BY <2>1 DEF Point
<1>3. QED
  BY <1>1, <1>2 DEF Metres, Gap, Most, Least

LEMMA MeasureIs ==
    ASSUME NEW g \in Seq(Point)
    PROVE  /\ Measure(g) \in [ 1 .. Len(g) -> Nat ]
           /\ g # << >> => Measure(g)[1] = 0
           /\ \A i \in 2 .. Len(g) : Measure(g)[i] = Measure(g)[i - 1] + Metres(g[i - 1], g[i])
<1> DEFINE L == Len(g)
           Def(c, i) == IF i = 1 THEN 0 ELSE c[i - 1] + Metres(g[i - 1], g[i])
           Up(n) == \E c : c = [i \in 1 .. n |-> Def(c, i)]
           P == { n \in 0 .. L : Up(n) }
           F == CHOOSE c : c = [i \in 1 .. L |-> Def(c, i)]
<1>1. L \in Nat
  OBVIOUS
<1>2. Measure(g) = F
  BY DEF Measure
<1>3. P = 0 .. L
  <2>1. 0 \in P
    <3>1. \A c : [i \in 1 .. 0 |-> Def(c, i)] = << >>
      OBVIOUS
    <3>2. Up(0)
      BY <3>1
    <3> HIDE DEF Up
    <3>3. QED
      BY <1>1, <3>2
  <2>2. ASSUME NEW n \in P, n < L
        PROVE  n + 1 \in P
    <3>1. n \in 0 .. L
      OBVIOUS
    <3>2. PICK h : h = [i \in 1 .. n |-> Def(h, i)]
      BY <2>2
    <3> DEFINE c == [i \in 1 .. (n + 1) |-> IF i = n + 1 THEN Def(h, n + 1) ELSE h[i]]
    <3>3. \A i \in 1 .. n : c[i] = h[i]
      BY <3>1
    <3>4. ASSUME NEW i \in 1 .. (n + 1)
          PROVE  c[i] = Def(c, i)
      <4>1. CASE i = n + 1
        <5>1. c[i] = Def(h, n + 1)
          BY <3>1, <4>1
        <5>2. i = 1 \/ c[n] = h[n]
          BY <3>1, <3>3, <4>1
        <5> HIDE DEF c
        <5>3. QED
          BY <3>1, <4>1, <5>1, <5>2
      <4>2. CASE i \in 1 .. n
        <5>1. c[i] = Def(h, i)
          BY <3>2, <3>3, <4>2
        <5>2. i = 1 \/ c[i - 1] = h[i - 1]
          BY <3>1, <3>3, <4>2
        <5> HIDE DEF c
        <5>3. QED
          BY <4>2, <5>1, <5>2
      <4>3. QED
        BY <3>1, <4>1, <4>2
    <3>5. c = [i \in 1 .. (n + 1) |-> c[i]]
      OBVIOUS
    <3> HIDE DEF c
    <3>6. c = [i \in 1 .. (n + 1) |-> Def(c, i)]
      BY <3>4, <3>5
    <3>7. Up(n + 1)
      BY <3>6
    <3> HIDE DEF Up
    <3>8. QED
      BY <1>1, <2>2, <3>1, <3>7
  <2> HIDE DEF P, L
  <2>3. P \in SUBSET (0 .. L)
    BY DEF P
  <2>4. QED
    BY <1>1, <2>1, <2>2, <2>3, InductTo
<1>4. Up(L)
  BY <1>1, <1>3
<1>5. F = [i \in 1 .. L |-> Def(F, i)]
  BY <1>4
<1> HIDE DEF F
<1>6. \A i \in 1 .. L : F[i] = Def(F, i)
  BY <1>5
<1>7. L >= 1 => F[1] = 0
  BY <1>1, <1>6
<1>8. \A i \in 2 .. L : F[i] = F[i - 1] + Metres(g[i - 1], g[i])
  BY <1>1, <1>6
<1>9. { n \in 0 .. L : n = 0 \/ F[n] \in Nat } = 0 .. L
  <2> DEFINE Q == { n \in 0 .. L : n = 0 \/ F[n] \in Nat }
  <2>1. 0 \in Q
    BY <1>1
  <2>2. ASSUME NEW n \in Q, n < L PROVE n + 1 \in Q
    <3>1. CASE n = 0
      BY <1>1, <1>7, <2>2, <3>1
    <3>2. CASE n # 0
      <4>1. n \in 1 .. L /\ n + 1 \in 2 .. L /\ F[n] \in Nat
        BY <1>1, <2>2, <3>2
      <4>2. g[n] \in Point /\ g[n + 1] \in Point
        BY <4>1
      <4>3. F[n + 1] = F[n] + Metres(g[n], g[n + 1])
        BY <1>8, <4>1
      <4>4. Metres(g[n], g[n + 1]) \in Nat
        BY <4>2, MetresIs
      <4>5. QED
        BY <4>1, <4>3, <4>4
    <3>3. QED
      BY <3>1, <3>2
  <2> HIDE DEF Q
  <2>3. Q \in SUBSET (0 .. L)
    BY DEF Q
  <2>4. Q = 0 .. L
    BY <1>1, <2>1, <2>2, <2>3, InductTo
  <2>5. QED
    BY <2>4 DEF Q
<1>10. F \in [ 1 .. L -> Nat ]
  <2>1. \A i \in 1 .. L : F[i] \in Nat
    BY <1>1, <1>9
  <2>2. QED
    BY <1>5, <2>1
<1>11. g # << >> => L >= 1
  BY <1>1
<1>12. QED
  BY <1>2, <1>7, <1>8, <1>10, <1>11

LEMMA MeasureGrows ==
    ASSUME NEW g \in Seq(Point), NEW i \in 1 .. Len(g), NEW j \in 1 .. Len(g), i <= j
    PROVE  Measure(g)[i] <= Measure(g)[j]
<1> DEFINE L == Len(g)
           M == Measure(g)
           Q == { n \in 0 .. L : n >= i => M[i] <= M[n] }
<1>1. L \in Nat
  OBVIOUS
<1>2. M \in [ 1 .. L -> Nat ] /\ \A n \in 2 .. L : M[n] = M[n - 1] + Metres(g[n - 1], g[n])
  BY MeasureIs
<1> HIDE DEF M
<1>3. 0 \in Q
  BY <1>1
<1>4. ASSUME NEW n \in Q, n < L PROVE n + 1 \in Q
  <2>1. CASE n + 1 <= i
    BY <1>1, <1>2, <1>4, <2>1
  <2>2. CASE n + 1 > i
    <3>1. n \in 1 .. L /\ n + 1 \in 2 .. L /\ n >= i
      BY <1>1, <1>4, <2>2
    <3>5. g[n] \in Point /\ g[n + 1] \in Point
      BY <3>1
    <3>2. Metres(g[n], g[n + 1]) \in Nat
      BY <3>5, MetresIs
    <3>3. M[n + 1] = M[n] + Metres(g[n], g[n + 1]) /\ M[n] \in Nat /\ M[i] \in Nat /\ M[i] <= M[n]
      BY <1>1, <1>2, <1>4, <3>1
    <3>4. QED
      BY <1>1, <1>4, <3>1, <3>2, <3>3
  <2>3. QED
    BY <1>1, <1>4, <2>1, <2>2
<1> HIDE DEF Q
<1>5. Q \in SUBSET (0 .. L)
  BY DEF Q
<1>6. Q = 0 .. L
  BY <1>1, <1>3, <1>4, <1>5, InductTo
<1>7. QED
  BY <1>1, <1>6 DEF Q, M

\* A polyline stands still where its measure does.
LEMMA MeasureFlat ==
    ASSUME NEW g \in Seq(Point), NEW i \in 1 .. Len(g), NEW j \in 1 .. Len(g), i <= j,
           Measure(g)[i] = Measure(g)[j]
    PROVE  g[i] = g[j]
<1> DEFINE L == Len(g)
           M == Measure(g)
           Q == { n \in 0 .. L : i <= n /\ n <= j => g[i] = g[n] }
<1>1. L \in Nat
  OBVIOUS
<1>2. M \in [ 1 .. L -> Nat ] /\ \A n \in 2 .. L : M[n] = M[n - 1] + Metres(g[n - 1], g[n])
  BY MeasureIs
<1>3. \A n \in 1 .. L : (i <= n => M[i] <= M[n]) /\ (n <= j => M[n] <= M[j])
  BY MeasureGrows
<1>4. M[i] = M[j]
  OBVIOUS
<1> HIDE DEF M
<1>5. 0 \in Q
  BY <1>1
<1>6. ASSUME NEW n \in Q, n < L PROVE n + 1 \in Q
  <2>1. CASE n + 1 <= i \/ n + 1 > j
    BY <1>1, <1>6, <2>1
  <2>2. CASE n + 1 > i /\ n + 1 <= j
    <3>1. n \in 1 .. L /\ n + 1 \in 1 .. L /\ n + 1 \in 2 .. L /\ i <= n /\ i <= n + 1 /\ n <= j
      BY <1>1, <1>6, <2>2
    <3>2. g[n] \in Point /\ g[n + 1] \in Point
      BY <3>1
    <3>3. M[i] <= M[n] /\ M[n + 1] <= M[j] /\ M[i] \in Nat /\ M[n] \in Nat
      BY <1>2, <1>3, <2>2, <3>1
    <3>4. M[n + 1] = M[n] + Metres(g[n], g[n + 1])
      BY <1>2, <3>1
    <3>9. Metres(g[n], g[n + 1]) \in Nat
      BY <3>2, MetresIs
    <3>5. Metres(g[n], g[n + 1]) = 0
      BY <1>4, <3>3, <3>4, <3>9
    <3>6. g[n] = g[n + 1]
      BY <3>2, <3>5, MetresIs
    <3>7. g[i] = g[n]
      BY <1>6, <3>1
    <3>8. QED
      BY <1>1, <3>1, <3>6, <3>7
  <2>3. QED
    BY <1>1, <1>6, <2>1, <2>2
<1> HIDE DEF Q
<1>7. Q \in SUBSET (0 .. L)
  BY DEF Q
<1>8. Q = 0 .. L
  BY <1>1, <1>5, <1>6, <1>7, InductTo
<1>9. QED
  BY <1>1, <1>8 DEF Q

LEMMA LengthIs ==
    ASSUME NEW g \in Seq(Point), g # << >>
    PROVE  LengthOf(g) \in Nat
<1>1. Len(g) \in 1 .. Len(g)
  OBVIOUS
<1>2. QED
  BY <1>1, MeasureIs DEF LengthOf

LEMMA SegmentAtIs ==
    ASSUME NEW g \in Seq(Point), Len(g) >= 2, NEW d \in Int
    PROVE  /\ SegmentAt(g, d) \in 2 .. Len(g)
           /\ SegmentAt(g, d) = Len(g) \/ Measure(g)[SegmentAt(g, d)] >= d
           /\ \A j \in 2 .. (SegmentAt(g, d) - 1) : Measure(g)[j] < d
<1> DEFINE L == Len(g)
           M == Measure(g)
           S == { i \in 2 .. L : i = L \/ M[i] >= d }
<1>1. L \in Nat /\ L \in S /\ S \subseteq Nat
  OBVIOUS
<1>2. M \in [ 1 .. L -> Nat ]
  BY MeasureIs
<1> HIDE DEF M
<1>3. PICK i \in S : \A j \in S : i <= j
  BY <1>1, LeastOf
<1>4. \A j \in 2 .. (i - 1) : M[j] < d
  <2> SUFFICES ASSUME NEW j \in 2 .. (i - 1) PROVE M[j] < d
    OBVIOUS
  <2>1. j \in 2 .. L /\ j \notin S /\ M[j] \in Nat
    BY <1>1, <1>2, <1>3
  <2>2. QED
    BY <2>1
<1>5. i \in 2 .. L /\ (i = L \/ M[i] >= d)
  BY <1>3
<1>6. SegmentAt(g, d) = CHOOSE n \in 2 .. L : /\ n = L \/ M[n] >= d
                                              /\ \A j \in 2 .. (n - 1) : M[j] < d
  BY DEF SegmentAt, M
<1> HIDE DEF L
<1>7. /\ SegmentAt(g, d) \in 2 .. L
      /\ SegmentAt(g, d) = L \/ M[SegmentAt(g, d)] >= d
      /\ \A j \in 2 .. (SegmentAt(g, d) - 1) : M[j] < d
  BY <1>4, <1>5, <1>6 DEF L
<1>8. QED
  BY <1>7 DEF M, L

LEMMA PointAtDistanceIs ==
    ASSUME NEW g \in Seq(Point), Len(g) >= 2, NEW d \in Int
    PROVE  PointAtDistance(g, d) \in Point
<1> DEFINE i == SegmentAt(g, d)
           a == g[i - 1]
           b == g[i]
           along == d - Measure(g)[i - 1]
<1>1. i \in 2 .. Len(g) /\ Len(g) \in Nat
  BY SegmentAtIs
<1> HIDE DEF i
<1>2. i - 1 \in 1 .. Len(g) /\ i \in 1 .. Len(g)
  BY <1>1
<1>3. a \in Point /\ b \in Point /\ Measure(g)[i - 1] \in Nat
  BY <1>2, MeasureIs
<1>4. along \in Int
  BY <1>3
<1>8. \A k \in {1, 2} : a[k] \in Int /\ b[k] \in Int
  BY <1>3 DEF Point
<1>5. PointAtDistance(g, d) = [ k \in {1, 2} |-> IF a[k] < b[k] THEN a[k] + along
                                ELSE IF a[k] > b[k] THEN a[k] - along ELSE a[k] ]
  BY DEF PointAtDistance, i
<1> HIDE DEF a, b, along
<1>6. \A k \in {1, 2} : (IF a[k] < b[k] THEN a[k] + along
                          ELSE IF a[k] > b[k] THEN a[k] - along ELSE a[k]) \in Int
  BY <1>4, <1>8
<1>7. QED
  BY <1>5, <1>6 DEF Point

LEMMA PointAlongIs ==
    ASSUME NEW g \in Seq(Point), g # << >>, NEW part \in Int, NEW whole \in Nat \ {0}
    PROVE  PointAlong(g, part, whole) \in Point
<1>1. g[1] \in Point
  OBVIOUS
<1>2. LengthOf(g) \in Nat
  BY LengthIs
<1>3. Clamp(part, 0, whole) \in Int
  BY DEF Clamp, Least, Most
<1>4. LengthOf(g) * Clamp(part, 0, whole) \in Int
  BY <1>2, <1>3
<1>5. (LengthOf(g) * Clamp(part, 0, whole)) \div whole \in Int
  BY <1>4
<1>6. Len(g) \in Nat
  OBVIOUS
<1>7. QED
  BY <1>1, <1>5, <1>6, PointAtDistanceIs DEF PointAlong

LEMMA NearestIs ==
    ASSUME NEW C, C # {}, \A m \in C : m.offset \in Nat /\ m.i \in Nat
    PROVE  Nearest(C) \in C /\ \A n \in C : Nearest(C).offset <= n.offset
<1> DEFINE O == { m.offset : m \in C }
<1>1. O \subseteq Nat /\ O # {}
  OBVIOUS
<1>2. PICK o \in O : \A n \in O : o <= n
  BY <1>1, LeastOf
<1> DEFINE I == { m.i : m \in { n \in C : n.offset = o } }
<1>3. I \subseteq Nat /\ I # {}
  BY <1>2
<1>4. PICK i \in I : \A n \in I : i <= n
  BY <1>3, LeastOf
<1>5. PICK m \in C : m.offset = o /\ m.i = i
  BY <1>4
<1>6. ASSUME NEW n \in C PROVE m.offset < n.offset \/ (m.offset = n.offset /\ m.i <= n.i)
  <2>1. n.offset \in O /\ n.offset \in Nat /\ m.offset \in Nat
    BY <1>5
  <2>2. m.offset <= n.offset
    BY <1>2, <1>5, <2>1
  <2>3. n.offset = o => m.i <= n.i
    BY <1>4, <1>5
  <2>4. QED
    BY <1>5, <2>1, <2>2, <2>3
<1> DEFINE Best(c) == \A n \in C : c.offset < n.offset \/ (c.offset = n.offset /\ c.i <= n.i)
<1>7. Nearest(C) = CHOOSE c \in C : Best(c)
  BY DEF Nearest
<1>8. Best(m)
  BY <1>6
<1> HIDE DEF Best
<1>9. Nearest(C) \in C /\ Best(Nearest(C))
  BY <1>5, <1>7, <1>8
<1>10. QED
  BY <1>9 DEF Best

----------------------------------------------------------------------------
\* A position on a road.

LEMMA SnapIs ==
    ASSUME NEW p \in Point, NEW a \in Point, NEW b \in Point
    PROVE  /\ ProjectOnSegment(p, a, b) \in Point
           /\ Metres(a, ProjectOnSegment(p, a, b)) + Metres(ProjectOnSegment(p, a, b), b)
                = Metres(a, b)
<1> DEFINE q == ProjectOnSegment(p, a, b)
<1>1. /\ p[1] \in Int /\ a[1] \in Int /\ b[1] \in Int
      /\ p[2] \in Int /\ a[2] \in Int /\ b[2] \in Int
  BY DEF Point
<1>2. q = [ k \in {1, 2} |-> Between(p[k], a[k], b[k]) ]
  BY DEF ProjectOnSegment
<1> HIDE DEF q
<1>3. q[1] = Between(p[1], a[1], b[1]) /\ q[2] = Between(p[2], a[2], b[2])
  BY <1>2
<1>4. /\ q[1] \in Int /\ Gap(a[1], q[1]) + Gap(q[1], b[1]) = Gap(a[1], b[1])
      /\ Gap(a[1], q[1]) \in Int /\ Gap(q[1], b[1]) \in Int
  BY <1>1, <1>3 DEF Between, Clamp, Gap, Least, Most
<1>5. /\ q[2] \in Int /\ Gap(a[2], q[2]) + Gap(q[2], b[2]) = Gap(a[2], b[2])
      /\ Gap(a[2], q[2]) \in Int /\ Gap(q[2], b[2]) \in Int
  BY <1>1, <1>3 DEF Between, Clamp, Gap, Least, Most
<1>6. q \in Point
  BY <1>2, <1>3, <1>4, <1>5 DEF Point
<1>7. Metres(a, q) + Metres(q, b) = Metres(a, b)
  BY <1>4, <1>5 DEF Metres
<1>8. QED
  BY <1>6, <1>7 DEF q

\* The match of a position to a road, at one of its segments.
MatchAt(road, p, i) ==
    LET snap == ProjectOnSegment(p, road.geometry[i - 1], road.geometry[i])
    IN  [ road |-> road, offset |-> Metres(p, snap), snapped |-> snap,
          progress |-> Measure(road.geometry)[i - 1] + Metres(road.geometry[i - 1], snap) ]

LEMMA ProjectIs ==
    ASSUME NEW road \in BuiltRoad, NEW p \in Point
    PROVE  /\ \E i \in 2 .. Len(road.geometry) : ProjectOnRoad(road, p) = MatchAt(road, p, i)
           /\ \A i \in 2 .. Len(road.geometry) :
                ProjectOnRoad(road, p).offset <= MatchAt(road, p, i).offset
<1> DEFINE g == road.geometry
           snap(i) == ProjectOnSegment(p, g[i - 1], g[i])
           at(i, q) == [ i |-> i, offset |-> Metres(p, q), snapped |-> q,
                         progress |-> Measure(g)[i - 1] + Metres(g[i - 1], q) ]
           C == { at(i, snap(i)) : i \in 2 .. Len(g) }
           best == Nearest(C)
<1>1. g \in Seq(Point) /\ Len(g) >= 2 /\ Len(g) \in Nat
  BY DEF BuiltRoad
<1>2. \A i \in 2 .. Len(g) : g[i - 1] \in Point /\ g[i] \in Point
  BY <1>1
<1>3. \A m \in C : m.offset \in Nat /\ m.i \in Nat
  <2> SUFFICES ASSUME NEW i \in 2 .. Len(g)
               PROVE  Metres(p, snap(i)) \in Nat /\ i \in Nat
    OBVIOUS
  <2>1. snap(i) \in Point
    BY <1>2, SnapIs
  <2>2. QED
    BY <1>1, <2>1, MetresIs
<1>4. C # {}
  <2>1. 2 \in 2 .. Len(g)
    BY <1>1
  <2>2. at(2, snap(2)) \in C
    BY <2>1
  <2>3. QED
    BY <2>2
<1>5. best \in C /\ \A m \in C : best.offset <= m.offset
  <2> HIDE DEF C
  <2>1. QED
    BY <1>3, <1>4, NearestIs
<1>6. PICK i \in 2 .. Len(g) : best = at(i, snap(i))
  BY <1>5
<1>7. ProjectOnRoad(road, p) = [ road |-> road, offset |-> best.offset, snapped |-> best.snapped,
                                 progress |-> best.progress ]
  BY DEF ProjectOnRoad
<1> HIDE DEF best
<1>8. best.offset = Metres(p, snap(i)) /\ best.snapped = snap(i)
      /\ best.progress = Measure(g)[i - 1] + Metres(g[i - 1], snap(i))
  BY <1>6
<1>9. ASSUME NEW j \in 2 .. Len(g)
      PROVE  best.offset <= Metres(p, snap(j))
  <2>1. at(j, snap(j)) \in C
    OBVIOUS
  <2>2. at(j, snap(j)).offset = Metres(p, snap(j))
    OBVIOUS
  <2>3. QED
    BY <1>5, <2>1, <2>2
<1> HIDE DEF C, at
<1>10. ProjectOnRoad(road, p) = MatchAt(road, p, i)
  BY <1>6, <1>7, <1>8 DEF MatchAt
<1>11. ASSUME NEW j \in 2 .. Len(g)
       PROVE  ProjectOnRoad(road, p).offset <= MatchAt(road, p, j).offset
  BY <1>7, <1>9 DEF MatchAt
<1>12. QED
  BY <1>6, <1>10, <1>11

LEMMA MatchAtIs ==
    ASSUME NEW road \in BuiltRoad, NEW p \in Point, NEW i \in 2 .. Len(road.geometry)
    PROVE  /\ MatchAt(road, p, i) \in Matches
           /\ MatchAt(road, p, i).progress \in Nat
           /\ MatchAt(road, p, i).offset \in Nat
           /\ MatchAt(road, p, i).progress + Metres(MatchAt(road, p, i).snapped, road.geometry[i])
                = Measure(road.geometry)[i]
           /\ Measure(road.geometry)[i - 1] <= MatchAt(road, p, i).progress
<1> DEFINE g == road.geometry
           q == ProjectOnSegment(p, g[i - 1], g[i])
           m == MatchAt(road, p, i)
           M == Measure(g)
<1>1. g \in Seq(Point) /\ Len(g) >= 2 /\ Len(g) \in Nat
  BY DEF BuiltRoad
<1>2. i - 1 \in 1 .. Len(g) /\ i \in 1 .. Len(g) /\ g[i - 1] \in Point /\ g[i] \in Point
  BY <1>1
<1>3. q \in Point /\ Metres(g[i - 1], q) + Metres(q, g[i]) = Metres(g[i - 1], g[i])
  BY <1>2, SnapIs
<1>4. m.road = road /\ m.snapped = q /\ m.offset = Metres(p, q)
      /\ m.progress = M[i - 1] + Metres(g[i - 1], q)
  BY DEF MatchAt
<1>5. M[i - 1] \in Nat /\ M[i] = M[i - 1] + Metres(g[i - 1], g[i])
  BY <1>1, <1>2, MeasureIs
<1>6. Metres(g[i - 1], q) \in Nat /\ Metres(q, g[i]) \in Nat /\ Metres(p, q) \in Nat
  BY <1>2, <1>3, MetresIs
<1>7. m \in Matches
  BY <1>3, <1>4, <1>5, <1>6 DEF MatchAt, Matches
<1> HIDE DEF m, M, g, q
<1>8. QED
  BY <1>3, <1>4, <1>5, <1>6, <1>7 DEF m, M, g, q

LEMMA ProjectOnRoadIs ==
    ASSUME NEW road \in BuiltRoad, NEW p \in Point
    PROVE  ProjectOnRoad(road, p) \in Matches
BY ProjectIs, MatchAtIs

LEMMA MatchRoadIs ==
    ASSUME NEW roadsOf \in Seq(BuiltRoad), roadsOf # << >>, NEW p \in Point
    PROVE  \E i \in DOMAIN roadsOf : MatchRoad(roadsOf, p) = ProjectOnRoad(roadsOf[i], p)
<1> DEFINE at(i, m) == [ i |-> i, offset |-> m.offset, match |-> m ]
           C == { at(i, ProjectOnRoad(roadsOf[i], p)) : i \in 1 .. Len(roadsOf) }
<1>1. Len(roadsOf) \in Nat \ {0} /\ DOMAIN roadsOf = 1 .. Len(roadsOf)
  OBVIOUS
<1>2. \A m \in C : m.offset \in Nat /\ m.i \in Nat
  <2> SUFFICES ASSUME NEW i \in 1 .. Len(roadsOf)
               PROVE  ProjectOnRoad(roadsOf[i], p).offset \in Nat /\ i \in Nat
    OBVIOUS
  <2>1. roadsOf[i] \in BuiltRoad
    OBVIOUS
  <2>2. QED
    BY <1>1, <2>1, ProjectIs, MatchAtIs
<1>3. C # {}
  <2>1. 1 \in 1 .. Len(roadsOf)
    BY <1>1
  <2>2. at(1, ProjectOnRoad(roadsOf[1], p)) \in C
    BY <2>1
  <2>3. QED
    BY <2>2
<1>4. Nearest(C) \in C
  BY <1>2, <1>3, NearestIs
<1>5. PICK i \in 1 .. Len(roadsOf) : Nearest(C) = at(i, ProjectOnRoad(roadsOf[i], p))
  BY <1>4
<1>6. MatchRoad(roadsOf, p) = Nearest(C).match
  BY DEF MatchRoad
<1>7. Nearest(C).match = ProjectOnRoad(roadsOf[i], p)
  BY <1>5
<1> HIDE DEF C
<1>8. QED
  BY <1>1, <1>6, <1>7

----------------------------------------------------------------------------
\* What is behind on a road, and what is ahead.

LEMMA CountIs ==
    ASSUME NEW L \in Nat, NEW S \in SUBSET (1 .. L)
    PROVE  Cardinality(S) \in 0 .. L
<1>1. IsFiniteSet(1 .. L) /\ Cardinality(1 .. L) = L
  BY FS_Interval
<1>2. IsFiniteSet(S) /\ Cardinality(S) <= L
  BY <1>1, FS_Subset
<1>3. Cardinality(S) \in Nat
  BY <1>2, FS_CardinalityType
<1>4. QED
  BY <1>2, <1>3

LEMMA RoadSegmentIs ==
    ASSUME NEW road \in BuiltRoad, NEW from \in Int, NEW to \in Int
    PROVE  RoadSegment(road, from, to) \in Paths
<1> DEFINE g == road.geometry
           M == Measure(g)
           L == Len(g)
           a == Least(from, to)
           b == Most(from, to)
           first == Cardinality({ i \in DOMAIN M : M[i] <= a }) + 1
           last == Cardinality({ i \in DOMAIN M : M[i] < b })
           middle == SubSeq(g, first, last)
<1>1. g \in Seq(Point) /\ L >= 2 /\ L \in Nat
  BY DEF BuiltRoad
<1>2. DOMAIN M = 1 .. L
  BY <1>1, MeasureIs
<1>3. a \in Int /\ b \in Int
  BY DEF Least, Most
<1>4. first \in 1 .. (L + 1) /\ last \in 0 .. L
  <2>1. { i \in DOMAIN M : M[i] <= a } \in SUBSET (1 .. L)
        /\ { i \in DOMAIN M : M[i] < b } \in SUBSET (1 .. L)
    BY <1>2
  <2> HIDE DEF M, L, a, b
  <2>2. QED
    BY <1>1, <2>1, CountIs
<1> HIDE DEF first, last
<1>5. \A i \in first .. last : g[i] \in Point
  BY <1>1, <1>4
<1>6. middle \in Seq(Point)
  BY <1>4, <1>5, SubSeqProperties
<1>7. PointAtDistance(g, a) \in Point /\ PointAtDistance(g, b) \in Point
  BY <1>1, <1>3, PointAtDistanceIs
<1>8. RoadSegment(road, from, to)
        = <<PointAtDistance(g, a)>> \o middle \o <<PointAtDistance(g, b)>>
  BY DEF RoadSegment, first, last
<1> HIDE DEF middle, g, a, b
<1> DEFINE x == PointAtDistance(g, a)
           y == PointAtDistance(g, b)
<1> HIDE DEF x, y
<1>9. x \in Point /\ y \in Point
  BY <1>7 DEF x, y
<1>10. <<x>> \in Seq(Point) /\ <<y>> \in Seq(Point) /\ Len(<<x>>) = 1
  BY <1>9
<1>11. <<x>> \o middle \in Seq(Point) /\ Len(<<x>> \o middle) = 1 + Len(middle)
       /\ Len(middle) \in Nat
  BY <1>6, <1>10, ConcatProperties
<1>12. <<x>> \o middle \o <<y>> \in Seq(Point) /\ Len(<<x>> \o middle \o <<y>>) >= 1
  BY <1>10, <1>11, ConcatProperties
<1>13. <<x>> \o middle \o <<y>> # << >>
  BY <1>12
<1>14. QED
  BY <1>8, <1>12, <1>13 DEF x, y, Paths

\* The vertices a road has passed are the first ones.
LEMMA PassedAre ==
    ASSUME NEW g \in Seq(Point), NEW d \in Int
    PROVE  \E k \in 0 .. Len(g) :
              /\ Cardinality({ i \in DOMAIN Measure(g) : Measure(g)[i] <= d }) = k
              /\ \A i \in 1 .. Len(g) : Measure(g)[i] <= d <=> i <= k
<1> DEFINE L == Len(g)
           M == Measure(g)
           S == { i \in DOMAIN M : M[i] <= d }
           T == { i \in 1 .. L : ~(M[i] <= d) }
<1>1. L \in Nat /\ M \in [ 1 .. L -> Nat ]
  BY MeasureIs
<1>2. \A i, j \in 1 .. L : i <= j => M[i] <= M[j]
  BY MeasureGrows
<1> HIDE DEF M, L
<1>3. \E k \in 0 .. L : \A i \in 1 .. L : M[i] <= d <=> i <= k
  <2>1. CASE T = {}
    BY <1>1, <2>1
  <2>2. CASE T # {}
    <3>1. T \subseteq Nat
      BY <1>1
    <3>2. PICK m \in T : \A n \in T : m <= n
      BY <2>2, <3>1, LeastOf
    <3>3. m \in 1 .. L /\ ~(M[m] <= d) /\ m - 1 \in 0 .. L
      BY <1>1, <3>2
    <3>4. ASSUME NEW i \in 1 .. L PROVE M[i] <= d <=> i <= m - 1
      <4>1. CASE i <= m - 1
        BY <1>1, <3>2, <3>3, <4>1
      <4>2. CASE m <= i
        BY <1>1, <1>2, <3>3, <4>2
      <4>3. QED
        BY <1>1, <3>3, <4>1, <4>2
    <3>5. QED
      BY <3>3, <3>4
  <2>3. QED
    BY <2>1, <2>2
<1>4. PICK k \in 0 .. L : \A i \in 1 .. L : M[i] <= d <=> i <= k
  BY <1>3
<1>5. S = 1 .. k
  BY <1>1, <1>4
<1>6. k \in Nat /\ Cardinality(1 .. k) = IF 1 > k THEN 0 ELSE k - 1 + 1
  BY <1>1, <1>4, FS_Interval
<1>7. Cardinality(S) = k
  <2> HIDE DEF S
  <2>1. QED
    BY <1>5, <1>6
<1>8. QED
  BY <1>4, <1>7 DEF L, M

LEMMA PrependIs ==
    ASSUME NEW p \in Point, NEW r \in Seq(Point)
    PROVE  /\ <<p>> \o r \in Seq(Point) /\ <<p>> \o r # << >>
           /\ Len(<<p>> \o r) = 1 + Len(r)
           /\ (<<p>> \o r)[1] = p
           /\ \A n \in 1 .. Len(r) : (<<p>> \o r)[n + 1] = r[n]
           /\ Tail(<<p>> \o r) = r
           /\ r # << >> => Last(<<p>> \o r) = Last(r)
<1> DEFINE h == <<p>> \o r
           L == Len(r)
<1>1. <<p>> \in Seq(Point) /\ Len(<<p>>) = 1 /\ L \in Nat
  OBVIOUS
<1>2. /\ h \in Seq(Point) /\ Len(h) = 1 + L
      /\ \A n \in 1 .. (1 + L) : h[n] = IF n <= 1 THEN <<p>>[n] ELSE r[n - 1]
  BY <1>1, ConcatProperties
<1> HIDE DEF h
<1>3. h # << >>
  BY <1>1, <1>2
<1>4. h[1] = p
  <2>1. 1 \in 1 .. (1 + L)
    BY <1>1
  <2>2. QED
    BY <1>2, <2>1
<1>5. ASSUME NEW n \in 1 .. L PROVE h[n + 1] = r[n]
  <2>1. n + 1 \in 1 .. (1 + L) /\ ~(n + 1 <= 1) /\ n + 1 - 1 = n
    BY <1>1
  <2>2. QED
    BY <1>2, <2>1
<1>6. Tail(h) = r
  <2>1. /\ Tail(h) \in Seq(Point) /\ Len(Tail(h)) = Len(h) - 1
        /\ \A n \in 1 .. Len(Tail(h)) : Tail(h)[n] = h[n + 1]
    BY <1>2, <1>3, HeadTailProperties
  <2>2. Len(Tail(h)) = L
    BY <1>1, <1>2, <2>1
  <2>3. \A n \in 1 .. L : Tail(h)[n] = r[n]
    BY <1>5, <2>1, <2>2
  <2>4. QED
    BY <2>1, <2>2, <2>3, SeqEqual
<1>7. ASSUME r # << >> PROVE Last(h) = Last(r)
  <2>1. L \in 1 .. L
    BY <1>7
  <2>2. h[L + 1] = r[L]
    BY <1>5, <2>1
  <2>3. L + 1 = 1 + L
    BY <1>1
  <2>4. QED
    BY <1>2, <2>2, <2>3 DEF Last
<1>8. QED
  BY <1>2, <1>3, <1>4, <1>5, <1>6, <1>7 DEF h

\* The way ahead measures what is left of the road, and ends where the road does.
LEMMA WayAhead ==
    ASSUME NEW road \in BuiltRoad, NEW p \in Point, NEW i \in 2 .. Len(road.geometry),
           NEW m, m = MatchAt(road, p, i)
    PROVE  LET line == SplitRoad(road, m.progress, p).ahead
           IN  /\ Remaining(road, m.progress) = LengthOf(<<m.snapped>> \o Tail(line))
               /\ Remaining(road, m.progress) > 0 => Last(line) = Last(road.geometry)
<1> DEFINE g == road.geometry
           M == Measure(g)
           L == Len(g)
           rest == SubSeq(g, Cardinality({ n \in DOMAIN M : M[n] <= m.progress }) + 1, L)
           h == <<m.snapped>> \o rest
           H == Measure(h)
<1>1. g \in Seq(Point) /\ L >= 2 /\ L \in Nat
  BY DEF BuiltRoad
<1>2. /\ m.snapped \in Point /\ m.progress \in Nat
      /\ m.progress + Metres(m.snapped, g[i]) = M[i] /\ M[i - 1] <= m.progress
  BY MatchAtIs DEF Matches
<1>3. M \in [ 1 .. L -> Nat ]
  BY <1>1, MeasureIs
<1>4. \A n \in 2 .. L : M[n] = M[n - 1] + Metres(g[n - 1], g[n])
  BY <1>1, MeasureIs
<1>15. m.progress \in Int
  BY <1>2
<1>5. PICK k \in 0 .. L : /\ Cardinality({ n \in DOMAIN M : M[n] <= m.progress }) = k
                          /\ \A n \in 1 .. L : M[n] <= m.progress <=> n <= k
  <2> HIDE DEF g
  <2>1. QED
    BY <1>1, <1>15, PassedAre
<1>6. rest = SubSeq(g, k + 1, L)
  BY <1>5
<1>7. SplitRoad(road, m.progress, p).ahead = <<p>> \o rest
  BY DEF SplitRoad
<1>8. g[i] \in Point /\ i \in 1 .. L /\ i - 1 \in 1 .. L
  BY <1>1
<1>9. Metres(m.snapped, g[i]) \in Nat /\ (Metres(m.snapped, g[i]) = 0 => m.snapped = g[i])
  BY <1>2, <1>8, MetresIs
<1> HIDE DEF M
<1>10. i - 1 <= k
  BY <1>2, <1>5, <1>8
<1> HIDE DEF rest
<1>11. rest \in Seq(Point) /\ Len(rest) = L - k /\ \A n \in 1 .. (L - k) : rest[n] = g[k + n]
  <2>1. \A n \in (k + 1) .. L : g[n] \in Point
    BY <1>1, <1>5
  <2>2. k + 1 \in Int /\ L \in Int
    BY <1>1, <1>5
  <2>3. /\ SubSeq(g, k + 1, L) \in Seq(Point)
        /\ Len(SubSeq(g, k + 1, L)) = IF k + 1 <= L THEN L - (k + 1) + 1 ELSE 0
        /\ \A n \in 1 .. L - (k + 1) + 1 : SubSeq(g, k + 1, L)[n] = g[k + 1 + n - 1]
    BY <2>1, <2>2, SubSeqProperties
  <2> HIDE DEF L, g
  <2>4. L - (k + 1) + 1 = L - k /\ \A n \in Int : k + 1 + n - 1 = k + n
    BY <1>1, <1>5
  <2>5. rest \in Seq(Point)
    BY <1>6, <2>3
  <2>6. Len(rest) = L - k
    BY <1>1, <1>5, <1>6, <2>3
  <2>7. ASSUME NEW n \in 1 .. (L - k) PROVE rest[n] = g[k + n]
    <3>1. n \in 1 .. L - (k + 1) + 1 /\ k + 1 + n - 1 = k + n
      BY <2>4
    <3>2. rest[n] = g[k + 1 + n - 1]
      BY <1>6, <2>3, <3>1
    <3>3. QED
      BY <3>1, <3>2
  <2>8. QED
    BY <2>5, <2>6, <2>7
\* On the stretch the match is on, or at its end and on to the next that has a length.
<1>12. CASE k = L
  <2>1. M[L] <= m.progress
    BY <1>1, <1>5, <1>12
  <2>2. M[i] <= M[L]
    BY <1>1, <1>8, MeasureGrows DEF M
  <2>3. M[L] \in Nat /\ M[i] \in Nat
    BY <1>1, <1>3, <1>8
  <2>4. M[L] = m.progress
    BY <1>2, <1>9, <2>1, <2>2, <2>3
  <2>5. rest = << >>
    BY <1>1, <1>11, <1>12
  <2>7. h \in Seq(Point) /\ Len(h) = 1 /\ h # << >>
    BY <1>2, <1>11, <1>12, PrependIs
  <2> HIDE DEF h
  <2>8. H[1] = 0
    BY <2>7, MeasureIs
  <2>9. Remaining(road, m.progress) = 0 /\ LengthOf(h) = 0
    BY <2>3, <2>4, <2>7, <2>8 DEF Remaining, LengthOf, M
  <2>10. Tail(<<p>> \o rest) = rest
    BY <1>11, PrependIs
  <2> DEFINE line == SplitRoad(road, m.progress, p).ahead
  <2> HIDE DEF line
  <2>11. Tail(line) = rest
    BY <1>7, <2>10 DEF line
  <2>12. Remaining(road, m.progress) = LengthOf(<<m.snapped>> \o Tail(line))
    BY <2>9, <2>11 DEF h
  <2>13. ~(Remaining(road, m.progress) > 0)
    BY <2>9
  <2>14. QED
    BY <2>12, <2>13 DEF line
<1>13. CASE k < L
  <2>1. k \in 1 .. L /\ k + 1 \in 1 .. L /\ k + 1 \in 2 .. L /\ g[k] \in Point /\ g[k + 1] \in Point
    BY <1>1, <1>5, <1>8, <1>10, <1>13
  <2>2. M[k + 1] = M[k] + Metres(g[k], g[k + 1])
    BY <1>4, <2>1
  <2>3. M[k] \in Nat /\ M[k + 1] \in Nat /\ M[i] \in Nat
    BY <1>3, <1>8, <2>1
  <2>4. m.progress + Metres(m.snapped, g[k + 1]) = M[k + 1]
    <3>1. CASE k = i - 1
      BY <1>2, <1>8, <3>1
    <3>2. CASE i <= k
      <4>1. M[i] <= M[k] /\ M[k] <= m.progress
        BY <1>1, <1>5, <1>8, <2>1, <3>2, MeasureGrows DEF M
      <4>2. M[i] = M[k] /\ M[k] = m.progress /\ Metres(m.snapped, g[i]) = 0
        BY <1>2, <1>9, <2>3, <4>1
      <4>3. g[i] = g[k]
        BY <1>1, <1>8, <2>1, <3>2, <4>2, MeasureFlat DEF M
      <4>4. QED
        BY <1>9, <2>2, <4>2, <4>3
    <3>3. QED
      BY <1>5, <1>8, <1>10, <3>1, <3>2
  <2>6. h \in Seq(Point) /\ Len(h) = 1 + (L - k) /\ h[1] = m.snapped
        /\ \A n \in 2 .. (1 + (L - k)) : h[n] = g[k + n - 1]
    <3>1. /\ h \in Seq(Point) /\ Len(h) = 1 + (L - k) /\ h[1] = m.snapped
          /\ \A n \in 1 .. (L - k) : h[n + 1] = rest[n]
      <4>1. /\ h \in Seq(Point) /\ Len(h) = 1 + Len(rest) /\ h[1] = m.snapped
            /\ \A n \in 1 .. Len(rest) : h[n + 1] = rest[n]
        BY <1>2, <1>11, PrependIs
      <4> HIDE DEF h
      <4>2. QED
        BY <1>11, <4>1
    <3> HIDE DEF h
    <3>2. ASSUME NEW n \in 2 .. (1 + (L - k)) PROVE h[n] = g[k + n - 1]
      <4>1. n - 1 \in 1 .. (L - k) /\ n - 1 + 1 = n /\ k + (n - 1) = k + n - 1
        BY <1>1, <1>5
      <4>2. h[n] = rest[n - 1]
        BY <3>1, <4>1
      <4>3. rest[n - 1] = g[k + (n - 1)]
        BY <1>11, <4>1
      <4>4. QED
        BY <4>1, <4>2, <4>3
    <3>4. QED
      BY <3>1, <3>2
  <2> HIDE DEF h
  <2>7. h # << >>
    BY <1>1, <1>5, <2>6
  <2>8. H[1] = 0 /\ \A n \in 2 .. (1 + (L - k)) : H[n] = H[n - 1] + Metres(h[n - 1], h[n])
    BY <2>6, <2>7, MeasureIs
  <2> HIDE DEF H
  <2> DEFINE N == L - k - 1
             Q == { n \in 0 .. N : H[n + 2] = M[k + 1 + n] - m.progress }
  <2>9. N \in Nat
    BY <1>1, <1>5, <1>13
  <2>10. 0 \in Q
    <3>1. 2 \in 2 .. (1 + (L - k)) /\ 2 - 1 = 1 /\ k + 2 - 1 = k + 1
      BY <1>1, <1>5, <1>13
    <3>2. h[2] = g[k + 1]
      BY <2>6, <3>1
    <3>3. H[2] = 0 + Metres(m.snapped, g[k + 1])
      BY <2>6, <2>8, <3>1, <3>2
    <3>4. Metres(m.snapped, g[k + 1]) \in Nat
      BY <1>2, <2>1, MetresIs
    <3>5. H[0 + 2] = M[k + 1 + 0] - m.progress
      BY <1>2, <1>5, <2>3, <2>4, <3>3, <3>4
    <3>6. QED
      BY <2>9, <3>5
  <2>11. ASSUME NEW n \in Q, n < N PROVE n + 1 \in Q
    <3>1. n \in 0 .. N /\ H[n + 2] = M[k + 1 + n] - m.progress
      BY <2>11
    <3> DEFINE j == n + 3
               e == k + n + 2
    <3>2. /\ j \in 2 .. (1 + (L - k)) /\ j - 1 = n + 2 /\ j - 1 \in 2 .. (1 + (L - k))
          /\ e \in 2 .. L /\ e - 1 = k + 1 + n /\ e - 1 \in 1 .. L
          /\ k + j - 1 = e /\ k + (j - 1) - 1 = e - 1
      BY <1>1, <1>5, <2>9, <2>11, <3>1
    <3>3. h[j] = g[e] /\ h[j - 1] = g[e - 1]
      BY <2>6, <3>2
    <3>4. H[j] = H[j - 1] + Metres(g[e - 1], g[e])
      BY <2>8, <3>2, <3>3
    <3>5. M[e] = M[e - 1] + Metres(g[e - 1], g[e]) /\ M[e - 1] \in Nat
      BY <1>3, <1>4, <3>2
    <3>6. Metres(g[e - 1], g[e]) \in Nat
      <4>1. g[e - 1] \in Point /\ g[e] \in Point
        BY <1>1, <3>2
      <4>2. QED
        BY <4>1, MetresIs
    <3>7. H[j] = M[e] - m.progress
      <4>1. H[j - 1] = M[e - 1] - m.progress
        BY <3>1, <3>2
      <4>2. m.progress \in Int
        BY <1>2
      <4>3. QED
        BY <3>4, <3>5, <3>6, <4>1, <4>2
    <3>8. n + 1 \in 0 .. N /\ j = (n + 1) + 2 /\ e = k + 1 + (n + 1)
      <4> HIDE DEF N
      <4>1. n \in Nat /\ n + 1 \in 0 .. N
        BY <2>9, <2>11, <3>1
      <4>2. QED
        BY <1>5, <4>1
    <3>9. QED
      BY <3>7, <3>8
  <2> HIDE DEF Q
  <2>12. Q \in SUBSET (0 .. N)
    BY DEF Q
  <2>13. Q = 0 .. N
    BY <2>9, <2>10, <2>11, <2>12, InductTo
  <2>14. N \in Q
    BY <2>9, <2>13
  <2>15. H[N + 2] = M[k + 1 + N] - m.progress
    BY <2>14 DEF Q
  <2>16. N + 2 = 1 + (L - k) /\ k + 1 + N = L
    <3> HIDE DEF L, g
    <3>1. k \in Int /\ L \in Int
      BY <1>1, <1>5
    <3>2. QED
      BY <3>1
  <2>17. Remaining(road, m.progress) = LengthOf(h)
    BY <2>6, <2>15, <2>16 DEF Remaining, LengthOf, H, M
  <2>18. rest # << >> /\ Last(rest) = g[L]
    <3>1. L - k \in 1 .. (L - k) /\ k + (L - k) = L
      BY <1>1, <1>5, <1>13
    <3>2. rest[L - k] = g[L]
      BY <1>11, <3>1
    <3>3. QED
      BY <1>11, <3>1, <3>2 DEF Last
  <2>19. Tail(<<p>> \o rest) = rest /\ Last(<<p>> \o rest) = g[L]
    BY <1>11, <2>18, PrependIs
  <2>20. QED
    BY <1>7, <2>17, <2>19 DEF h, Last
<1>14. QED
  BY <1>1, <1>5, <1>12, <1>13

----------------------------------------------------------------------------
\* A stretch of a road, and what is drawn along it.

Axial(g) == \A i \in 2 .. Len(g) : g[i - 1][1] = g[i][1] \/ g[i - 1][2] = g[i][2]

\* p is on the segment from a to b.
Within(p, a, b) == \A k \in {1, 2} : Least(a[k], b[k]) <= p[k] /\ p[k] <= Most(a[k], b[k])

\* A point so many metres along a segment.
Walk(a, b, along) == [ k \in {1, 2} |-> IF a[k] < b[k] THEN a[k] + along
                                        ELSE IF a[k] > b[k] THEN a[k] - along ELSE a[k] ]

LEMMA WithinIs ==
    ASSUME NEW p \in Point, NEW a \in Point, NEW b \in Point
    PROVE  /\ Within(a, a, b) /\ Within(b, a, b)
           /\ Within(ProjectOnSegment(p, a, b), a, b)
           /\ Within(p, a, b) => ProjectOnSegment(p, a, b) = p
<1>1. /\ p[1] \in Int /\ a[1] \in Int /\ b[1] \in Int
      /\ p[2] \in Int /\ a[2] \in Int /\ b[2] \in Int
  BY DEF Point
<1> DEFINE q == ProjectOnSegment(p, a, b)
<1>2. q = [ k \in {1, 2} |-> Between(p[k], a[k], b[k]) ]
  BY DEF ProjectOnSegment
<1> HIDE DEF q
<1>3. q[1] = Between(p[1], a[1], b[1]) /\ q[2] = Between(p[2], a[2], b[2])
  BY <1>2
<1>4. Within(q, a, b)
  BY <1>1, <1>3 DEF Within, Between, Clamp, Least, Most
<1>5. ASSUME Within(p, a, b) PROVE q = p
  <2>1. q[1] = p[1] /\ q[2] = p[2]
    BY <1>1, <1>3, <1>5 DEF Within, Between, Clamp, Least, Most
  <2>2. q = [ k \in {1, 2} |-> p[k] ]
    BY <1>2, <1>3, <2>1
  <2>3. QED
    BY <2>2 DEF Point
<1>6. Within(a, a, b) /\ Within(b, a, b)
  BY <1>1 DEF Within, Least, Most
<1>7. QED
  BY <1>4, <1>5, <1>6 DEF q

LEMMA WithinBoth ==
    ASSUME NEW p \in Point, NEW a \in Point, NEW b \in Point, NEW c \in Point, NEW d \in Point,
           Within(a, c, d), Within(b, c, d), c[1] = d[1] \/ c[2] = d[2]
    PROVE  /\ a[1] = b[1] \/ a[2] = b[2]
           /\ Within(p, a, b) => Within(p, c, d)
<1>1. \A k \in {1, 2} : p[k] \in Int /\ a[k] \in Int /\ b[k] \in Int /\ c[k] \in Int /\ d[k] \in Int
  BY DEF Point
<1>2. a[1] = b[1] \/ a[2] = b[2]
  BY <1>1 DEF Within, Least, Most
<1>3. ASSUME Within(p, a, b) PROVE Within(p, c, d)
  BY <1>1, <1>3 DEF Within, Least, Most
<1>4. QED
  BY <1>2, <1>3

\* On a segment along an axis, the way from its start tells where a point is.
LEMMA SamePlace ==
    ASSUME NEW p \in Point, NEW q \in Point, NEW a \in Point, NEW b \in Point,
           a[1] = b[1] \/ a[2] = b[2], Within(p, a, b), Within(q, a, b),
           Metres(a, p) = Metres(a, q)
    PROVE  p = q
<1>1. /\ p[1] \in Int /\ p[2] \in Int /\ q[1] \in Int /\ q[2] \in Int
      /\ a[1] \in Int /\ a[2] \in Int /\ b[1] \in Int /\ b[2] \in Int
  BY DEF Point
<1>2. p[1] = q[1] /\ p[2] = q[2]
  BY <1>1 DEF Within, Metres, Gap, Least, Most
<1>3. QED
  BY <1>2 DEF Point

LEMMA WalkIs ==
    ASSUME NEW a \in Point, NEW b \in Point, a[1] = b[1] \/ a[2] = b[2],
           NEW along \in 0 .. Metres(a, b)
    PROVE  /\ Walk(a, b, along) \in Point
           /\ Within(Walk(a, b, along), a, b)
           /\ Metres(a, Walk(a, b, along)) = along
           /\ along = Metres(a, b) => Walk(a, b, along) = b
<1>1. a[1] \in Int /\ a[2] \in Int /\ b[1] \in Int /\ b[2] \in Int /\ along \in Int
  BY MetresIs DEF Point
<1> DEFINE q == Walk(a, b, along)
           at(k) == IF a[k] < b[k] THEN a[k] + along
                    ELSE IF a[k] > b[k] THEN a[k] - along ELSE a[k]
<1>2. q = [ k \in {1, 2} |-> at(k) ]
  BY DEF Walk
<1> HIDE DEF q
<1>3. q[1] = at(1) /\ q[2] = at(2)
  BY <1>2
<1>4. at(1) \in Int /\ at(2) \in Int
  BY <1>1
<1>5. q \in Point
  BY <1>2, <1>4 DEF Point
<1>6. 0 <= along /\ along <= Metres(a, b)
  BY MetresIs
<1>7. Within(q, a, b) /\ Metres(a, q) = along
  BY <1>1, <1>3, <1>6 DEF Within, Metres, Gap, Least, Most
<1>8. ASSUME along = Metres(a, b) PROVE q = b
  <2>1. q[1] = b[1] /\ q[2] = b[2]
    <3>1. CASE a[1] = b[1]
      BY <1>1, <1>3, <1>8, <3>1 DEF Metres, Gap, Least, Most
    <3>2. CASE a[2] = b[2]
      BY <1>1, <1>3, <1>8, <3>2 DEF Metres, Gap, Least, Most
    <3>3. QED
      BY <3>1, <3>2
  <2>2. QED
    BY <1>5, <2>1 DEF Point
<1>9. QED
  BY <1>5, <1>7, <1>8 DEF q

\* The point at a distance is on each segment that reaches as far.
LEMMA AtDistance ==
    ASSUME NEW g \in Seq(Point), Len(g) >= 2, Axial(g), NEW i \in 2 .. Len(g), NEW d \in Int,
           Measure(g)[i - 1] <= d, d <= Measure(g)[i]
    PROVE  /\ Within(PointAtDistance(g, d), g[i - 1], g[i])
           /\ Metres(g[i - 1], PointAtDistance(g, d)) = d - Measure(g)[i - 1]
<1> DEFINE n == SegmentAt(g, d)
           M == Measure(g)
           L == Len(g)
<1>1. /\ n \in 2 .. L
      /\ n = L \/ M[n] >= d
      /\ \A j \in 2 .. (n - 1) : M[j] < d
  BY SegmentAtIs
<1>13. L \in Nat
  OBVIOUS
<1>2. /\ M \in [ 1 .. L -> Nat ]
      /\ \A j \in 2 .. L : M[j] = M[j - 1] + Metres(g[j - 1], g[j])
  BY MeasureIs
<1>3. PointAtDistance(g, d) = Walk(g[n - 1], g[n], d - M[n - 1])
  BY DEF PointAtDistance, Walk
<1>4. \A j \in 1 .. L : g[j] \in Point
  OBVIOUS
<1>5. M[i - 1] <= d /\ d <= M[i]
  OBVIOUS
<1>6. \A j \in 2 .. L : g[j - 1][1] = g[j][1] \/ g[j - 1][2] = g[j][2]
  BY DEF Axial
<1>7. \A j, k \in 1 .. L : j <= k => M[j] <= M[k] /\ (M[j] = M[k] => g[j] = g[k])
  BY MeasureGrows, MeasureFlat
<1> HIDE DEF M, n, L
<1>8. CASE n = i
  <2>1. i - 1 \in 1 .. L /\ i \in 1 .. L /\ i \in 2 .. L
    BY <1>1, <1>13, <1>8
  <2>2. g[i - 1] \in Point /\ g[i] \in Point
    BY <1>4, <2>1
  <2>3. M[i - 1] \in Nat /\ M[i] \in Nat /\ M[i] = M[i - 1] + Metres(g[i - 1], g[i])
        /\ Metres(g[i - 1], g[i]) \in Nat
    BY <1>2, <2>1, <2>2, MetresIs
  <2>4. d - M[i - 1] \in 0 .. Metres(g[i - 1], g[i])
    BY <1>5, <2>3
  <2>5. QED
    BY <1>3, <1>6, <1>8, <2>1, <2>2, <2>4, WalkIs DEF M
<1>9. CASE n < i
  <2>1. /\ n - 1 \in 1 .. L /\ n \in 1 .. L /\ n \in 2 .. L /\ i - 1 \in 1 .. L /\ i \in 1 .. L
        /\ n <= i - 1 /\ n # L
    BY <1>1, <1>9, <1>13 DEF L
  <2>2. g[n - 1] \in Point /\ g[n] \in Point /\ g[i - 1] \in Point /\ g[i] \in Point
    BY <1>4, <2>1
  <2>3. M[n] \in Nat /\ M[i - 1] \in Nat /\ M[n - 1] \in Nat
        /\ M[n] = M[n - 1] + Metres(g[n - 1], g[n]) /\ Metres(g[n - 1], g[n]) \in Nat
    BY <1>2, <2>1, <2>2, MetresIs
  <2>4. M[n] >= d /\ M[n] <= M[i - 1]
    BY <1>1, <1>7, <2>1
  <2>5. M[n] = d /\ M[i - 1] = d
    BY <1>5, <2>3, <2>4
  <2>6. g[n] = g[i - 1]
    BY <1>7, <2>1, <2>5
  <2>7. d - M[n - 1] = Metres(g[n - 1], g[n]) /\ d - M[n - 1] \in 0 .. Metres(g[n - 1], g[n])
    BY <2>3, <2>5
  <2>8. PointAtDistance(g, d) = g[i - 1]
    BY <1>3, <1>6, <2>1, <2>2, <2>6, <2>7, WalkIs
  <2>9. Metres(g[i - 1], g[i - 1]) = 0
    BY <2>2 DEF Metres, Gap, Least, Most, Point
  <2>10. Within(g[i - 1], g[i - 1], g[i])
    BY <2>2, WithinIs
  <2>11. d - M[i - 1] = 0
    BY <2>3, <2>5
  <2>12. QED
    BY <2>8, <2>9, <2>10, <2>11 DEF M
<1>10. CASE i < n
  <2>1. i \in 2 .. (n - 1) /\ i \in 1 .. L
    BY <1>1, <1>10, <1>13 DEF L
  <2>2. M[i] < d /\ M[i] \in Nat
    BY <1>1, <1>2, <2>1
  <2>3. QED
    BY <1>5, <2>2
<1>11. i \in Nat /\ n \in Nat
  BY <1>1
<1>12. QED
  BY <1>8, <1>9, <1>10, <1>11

\* Each distance along a road is reached on one of its segments.
LEMMA Reached ==
    ASSUME NEW g \in Seq(Point), Len(g) >= 2, NEW d \in 0 .. LengthOf(g)
    PROVE  \E i \in 2 .. Len(g) : Measure(g)[i - 1] <= d /\ d <= Measure(g)[i]
<1> DEFINE n == SegmentAt(g, d)
           M == Measure(g)
           L == Len(g)
<1>1. g # << >> /\ L \in Nat /\ L >= 2
  OBVIOUS
<1>2. M \in [ 1 .. L -> Nat ] /\ M[1] = 0
  BY <1>1, MeasureIs
<1>3. LengthOf(g) = M[L]
  BY DEF LengthOf
<1>4. d \in Nat /\ d <= M[L]
  BY <1>1, <1>3, LengthIs
<1>5. /\ n \in 2 .. L
      /\ n = L \/ M[n] >= d
      /\ \A j \in 2 .. (n - 1) : M[j] < d
  BY <1>4, SegmentAtIs
<1> HIDE DEF M, n, L
<1>6. d <= M[n]
  BY <1>4, <1>5
<1>7. M[n - 1] <= d
  <2>1. CASE n = 2
    BY <1>2, <1>4, <2>1
  <2>2. CASE n # 2
    <3>1. n - 1 \in 2 .. (n - 1) /\ n - 1 \in 1 .. L
      BY <1>1, <1>5, <2>2
    <3>2. M[n - 1] < d /\ M[n - 1] \in Nat
      BY <1>2, <1>5, <3>1
    <3>3. QED
      BY <1>4, <3>2
  <2>3. QED
    BY <2>1, <2>2
<1>8. QED
  BY <1>5, <1>6, <1>7 DEF M, L


LEMMA SnappedIs ==
    ASSUME NEW road \in BuiltRoad, Axial(road.geometry), NEW p \in Point
    PROVE  /\ ProjectOnRoad(road, p).progress \in 0 .. LengthOf(road.geometry)
           /\ PointAtDistance(road.geometry, ProjectOnRoad(road, p).progress)
                = ProjectOnRoad(road, p).snapped
           /\ ProjectOnRoad(road, p).offset = Metres(p, ProjectOnRoad(road, p).snapped)
           /\ ProjectOnRoad(road, p).road = road
<1> DEFINE g == road.geometry
           M == Measure(g)
           L == Len(g)
<1>1. g \in Seq(Point) /\ L >= 2 /\ L \in Nat
  BY DEF BuiltRoad
<1>2. PICK i \in 2 .. L : ProjectOnRoad(road, p) = MatchAt(road, p, i)
  BY ProjectIs
<1> DEFINE m == MatchAt(road, p, i)
           q == ProjectOnSegment(p, g[i - 1], g[i])
           x == PointAtDistance(g, m.progress)
<1>3. i - 1 \in 1 .. L /\ i \in 1 .. L /\ L \in 1 .. L /\ i <= L
  BY <1>1
<1>4. g[i - 1] \in Point /\ g[i] \in Point
  BY <1>1, <1>3
<1>5. /\ m.progress \in Nat
      /\ m.progress + Metres(m.snapped, g[i]) = M[i]
      /\ M[i - 1] <= m.progress
  BY MatchAtIs
<1>6. /\ m.road = road /\ m.snapped = q /\ m.offset = Metres(p, q)
      /\ m.progress = M[i - 1] + Metres(g[i - 1], q)
  BY DEF MatchAt
<1>7. q \in Point /\ Within(q, g[i - 1], g[i])
  <2>1. q \in Point
    BY <1>4, SnapIs
  <2>2. Within(q, g[i - 1], g[i])
    BY <1>4, WithinIs
  <2>3. QED
    BY <2>1, <2>2
<1>8. Metres(q, g[i]) \in Nat /\ Metres(g[i - 1], q) \in Nat
  BY <1>4, <1>7, MetresIs
<1>9. M[i - 1] \in Nat /\ M[i] \in Nat /\ M[L] \in Nat /\ M[i] <= M[L]
  BY <1>1, <1>3, MeasureIs, MeasureGrows
<1>10. LengthOf(g) = M[L]
  BY DEF LengthOf
<1> HIDE DEF m, M, q, L
<1>11. m.progress \in Int /\ m.progress <= M[i]
  BY <1>5, <1>6, <1>8, <1>9
<1>12. m.progress \in 0 .. LengthOf(g)
  BY <1>5, <1>9, <1>10, <1>11
<1>13. Within(x, g[i - 1], g[i]) /\ Metres(g[i - 1], x) = m.progress - M[i - 1]
  BY <1>1, <1>2, <1>5, <1>11, AtDistance DEF L, M
<1>14. x \in Point
  BY <1>1, <1>11, PointAtDistanceIs DEF L
<1>15. Metres(g[i - 1], x) = Metres(g[i - 1], q)
  BY <1>6, <1>8, <1>9, <1>13
<1>16. g[i - 1][1] = g[i][1] \/ g[i - 1][2] = g[i][2]
  BY <1>2 DEF Axial, L
<1>17. x = q
  BY <1>4, <1>7, <1>13, <1>14, <1>15, <1>16, SamePlace
<1> HIDE DEF x
<1>18. /\ m.progress \in 0 .. LengthOf(g) /\ x = m.snapped
       /\ m.offset = Metres(p, m.snapped) /\ m.road = road
  BY <1>6, <1>12, <1>17
<1>19. ProjectOnRoad(road, p) = m
  BY <1>2 DEF m
<1>20. QED
  BY <1>18, <1>19 DEF x

\* A point, some more, and a point.
LEMMA EnclosedIs ==
    ASSUME NEW x \in Point, NEW y \in Point, NEW r \in Seq(Point)
    PROVE  /\ <<x>> \o r \o <<y>> \in Seq(Point) /\ Len(<<x>> \o r \o <<y>>) = Len(r) + 2
           /\ (<<x>> \o r \o <<y>>)[1] = x
           /\ \A n \in 1 .. Len(r) : (<<x>> \o r \o <<y>>)[n + 1] = r[n]
           /\ (<<x>> \o r \o <<y>>)[Len(r) + 2] = y
<1> DEFINE h == <<x>> \o r
           z == h \o <<y>>
           L == Len(r)
<1>1. L \in Nat /\ <<y>> \in Seq(Point) /\ Len(<<y>>) = 1 /\ <<y>>[1] = y
  OBVIOUS
<1>2. /\ h \in Seq(Point) /\ Len(h) = 1 + L /\ h[1] = x
      /\ \A n \in 1 .. L : h[n + 1] = r[n]
  BY PrependIs
<1> HIDE DEF h
<1>3. /\ z \in Seq(Point) /\ Len(z) = Len(h) + 1
      /\ \A n \in 1 .. (Len(h) + 1) : z[n] = IF n <= Len(h) THEN h[n] ELSE <<y>>[n - Len(h)]
  BY <1>1, <1>2, ConcatProperties
<1> HIDE DEF z, L
<1>4. z[1] = x
  <2>1. 1 \in 1 .. (Len(h) + 1) /\ 1 <= Len(h)
    BY <1>1, <1>2
  <2>2. QED
    BY <1>2, <1>3, <2>1
<1>5. ASSUME NEW n \in 1 .. L PROVE z[n + 1] = r[n]
  <2>1. n + 1 \in 1 .. (Len(h) + 1) /\ n + 1 <= Len(h)
    BY <1>1, <1>2
  <2>2. QED
    BY <1>2, <1>3, <2>1
<1>6. z[L + 2] = y
  <2>1. L + 2 \in 1 .. (Len(h) + 1) /\ ~(L + 2 <= Len(h)) /\ L + 2 - Len(h) = 1
    BY <1>1, <1>2
  <2>2. QED
    BY <1>1, <1>3, <2>1
<1>7. Len(z) = L + 2
  BY <1>1, <1>2, <1>3
<1>8. QED
  BY <1>3, <1>4, <1>5, <1>6, <1>7 DEF z, h, L

\* p and q are on one segment of a road.
Together(g, p, q) == \E i \in 2 .. Len(g) : Within(p, g[i - 1], g[i]) /\ Within(q, g[i - 1], g[i])

\* A stretch follows its road from point to point.
LEMMA StretchIs ==
    ASSUME NEW road \in BuiltRoad, Axial(road.geometry),
           NEW from \in 0 .. LengthOf(road.geometry), NEW to \in 0 .. LengthOf(road.geometry)
    PROVE  LET path == RoadSegment(road, from, to)
           IN  /\ path \in Seq(Point) /\ Len(path) >= 2
               /\ path[1] = PointAtDistance(road.geometry, Least(from, to))
               /\ \A n \in 2 .. Len(path) : Together(road.geometry, path[n - 1], path[n])
<1> DEFINE g == road.geometry
           M == Measure(g)
           L == Len(g)
           a == Least(from, to)
           b == Most(from, to)
           first == Cardinality({ i \in DOMAIN M : M[i] <= a }) + 1
           last == Cardinality({ i \in DOMAIN M : M[i] < b })
           middle == SubSeq(g, first, last)
           x == PointAtDistance(g, a)
           y == PointAtDistance(g, b)
           path == RoadSegment(road, from, to)
<1>1. g \in Seq(Point) /\ L >= 2 /\ L \in Nat /\ g # << >>
  BY DEF BuiltRoad
<1>2. M \in [ 1 .. L -> Nat ] /\ M[1] = 0
  BY <1>1, MeasureIs
<1>3. \A j, k \in 1 .. L : j <= k => M[j] <= M[k]
  BY <1>1, MeasureGrows
<1>4. LengthOf(g) = M[L]
  BY DEF LengthOf
<1>5. path = <<x>> \o middle \o <<y>>
  BY DEF RoadSegment
<1>6. a \in 0 .. M[L] /\ b \in 0 .. M[L] /\ a <= b /\ M[L] \in Nat
  <2>1. M[L] \in Nat
    BY <1>1, <1>2
  <2> HIDE DEF M, L
  <2>2. QED
    BY <1>4, <2>1 DEF Least, Most
<1>7. \A d \in Int : \A i \in 2 .. L : M[i - 1] <= d /\ d <= M[i] =>
                        Within(PointAtDistance(g, d), g[i - 1], g[i])
  BY <1>1, AtDistance
<1>8. \A i \in 2 .. L : Within(g[i - 1], g[i - 1], g[i]) /\ Within(g[i], g[i - 1], g[i])
  <2> SUFFICES ASSUME NEW i \in 2 .. L
               PROVE  Within(g[i - 1], g[i - 1], g[i]) /\ Within(g[i], g[i - 1], g[i])
    OBVIOUS
  <2>1. i - 1 \in 1 .. L /\ i \in 1 .. L
    BY <1>1
  <2>2. g[i - 1] \in Point /\ g[i] \in Point
    BY <1>1, <2>1
  <2>3. QED
    BY <2>2, WithinIs
<1>9. \E i \in 2 .. L : M[i - 1] <= a /\ a <= M[i]
  BY <1>1, <1>4, <1>6, Reached
<1>10. /\ first - 1 \in 0 .. L /\ first \in Int
       /\ \A i \in 1 .. L : M[i] <= a <=> i <= first - 1
  <2> DEFINE C == Cardinality({ i \in DOMAIN M : M[i] <= a })
  <2>1. C \in 0 .. L /\ \A i \in 1 .. L : M[i] <= a <=> i <= C
    BY <1>1, <1>6, PassedAre
  <2>2. C \in Nat /\ first = C + 1
    BY <1>1, <2>1
  <2>3. first - 1 = C /\ first \in Int
    BY <2>2
  <2> HIDE DEF C, first
  <2>4. QED
    BY <2>1, <2>3
<1>11. /\ last \in 0 .. L
       /\ \A i \in 1 .. L : M[i] < b <=> i <= last
  <2> DEFINE S == { i \in DOMAIN M : M[i] < b }
             T == { i \in DOMAIN M : M[i] <= b - 1 }
  <2>1. b - 1 \in Int
    BY <1>6
  <2>2. PICK k \in 0 .. L : Cardinality(T) = k /\ \A i \in 1 .. L : M[i] <= b - 1 <=> i <= k
    BY <1>1, <2>1, PassedAre
  <2> HIDE DEF M, L, b
  <2>3. \A i \in 1 .. L : M[i] < b <=> M[i] <= b - 1
    BY <1>2, <1>6
  <2>4. S = T
    BY <1>2, <2>3
  <2> HIDE DEF S, T
  <2>5. last = k
    BY <2>2, <2>4 DEF S
  <2> HIDE DEF last
  <2>6. QED
    BY <2>2, <2>3, <2>5
<1> HIDE DEF first, last, a, b
<1>12. x \in Point /\ y \in Point
  BY <1>1, <1>6, PointAtDistanceIs
<1> HIDE DEF M, L, g, x, y, middle, path
<1>13. first \in 2 .. (L + 1)
  <2>1. 1 \in 1 .. L /\ M[1] <= a
    BY <1>1, <1>2, <1>6
  <2>2. 1 <= first - 1
    BY <1>10, <2>1
  <2>3. QED
    BY <1>1, <1>10, <2>2
<1>14. last \in 0 .. (L - 1)
  <2>1. L \in 1 .. L /\ ~(M[L] < b)
    BY <1>1, <1>6
  <2>2. ~(L <= last)
    BY <1>11, <2>1
  <2>3. QED
    BY <1>1, <1>11, <2>2
<1>15. /\ middle \in Seq(Point)
       /\ Len(middle) = IF first <= last THEN last - first + 1 ELSE 0
       /\ first <= last => \A n \in 1 .. (last - first + 1) : middle[n] = g[first + n - 1]
  <2>1. first \in Int /\ last \in Int /\ first >= 1
    BY <1>1, <1>13, <1>14
  <2>2. \A i \in first .. last : g[i] \in Point
    BY <1>1, <1>13, <1>14 DEF L
  <2>3. QED
    BY <2>1, <2>2, SubSeqProperties DEF middle
<1>16. /\ path \in Seq(Point) /\ Len(path) = Len(middle) + 2 /\ path[1] = x
       /\ \A n \in 1 .. Len(middle) : path[n + 1] = middle[n]
       /\ path[Len(middle) + 2] = y
  BY <1>5, <1>12, <1>15, EnclosedIs
<1>17. \A n \in 2 .. Len(path) : Together(g, path[n - 1], path[n])
  <2>1. CASE first <= last
    <3> DEFINE k == last - first + 1
    <3>1. k \in Nat /\ k >= 1 /\ Len(middle) = k
      BY <1>1, <1>13, <1>14, <1>15, <2>1
    <3>2. \A n \in 1 .. k : path[n + 1] = g[first + n - 1]
      BY <1>15, <1>16, <2>1, <3>1
    <3>3. Together(g, path[1], path[2])
      <4>1. first \in 2 .. L /\ first - 1 \in 1 .. L /\ first \in 1 .. L
        BY <1>1, <1>13, <1>14, <2>1
      <4>2. M[first - 1] <= a /\ ~(M[first] <= a)
        BY <1>10, <4>1
      <4>3. M[first - 1] <= a /\ a <= M[first]
        BY <1>2, <1>6, <4>1, <4>2
      <4>4. Within(x, g[first - 1], g[first])
        BY <1>6, <1>7, <4>1, <4>3 DEF x
      <4>5. path[2] = g[first]
        BY <3>1, <3>2, <4>1
      <4>6. QED
        BY <1>8, <1>16, <4>1, <4>4, <4>5 DEF Together, L
    <3>4. Together(g, path[k + 1], path[k + 2])
      <4>1. last + 1 \in 2 .. L /\ last + 1 \in 1 .. L /\ last \in 1 .. L /\ last + 1 - 1 = last
        BY <1>1, <1>13, <1>14, <2>1
      <4>2. M[last] < b /\ ~(M[last + 1] < b)
        BY <1>11, <1>14, <4>1
      <4>3. M[last] <= b /\ b <= M[last + 1]
        BY <1>2, <1>6, <4>1, <4>2
      <4>4. Within(y, g[last], g[last + 1])
        BY <1>6, <1>7, <4>1, <4>3 DEF y
      <4>5. path[k + 1] = g[last] /\ path[k + 2] = y
        <5>1. k \in 1 .. k /\ first + k - 1 = last
          BY <1>13, <1>14, <3>1
        <5>2. QED
          BY <1>16, <3>1, <3>2, <5>1
      <4>6. Within(g[last], g[last], g[last + 1])
        BY <1>8, <4>1
      <4>7. QED
        BY <4>1, <4>4, <4>5, <4>6 DEF Together, L
    <3>5. ASSUME NEW n \in 2 .. Len(path), n # 2, n # k + 2
          PROVE  Together(g, path[n - 1], path[n])
      <4> DEFINE i == first + n - 2
      <4>1. /\ n - 1 \in 1 .. k /\ n - 2 \in 1 .. k /\ n - 1 + 1 = n /\ n - 2 + 1 = n - 1
            /\ first + (n - 1) - 1 = i /\ first + (n - 2) - 1 = i - 1 /\ i \in 2 .. L
        BY <1>1, <1>13, <1>14, <1>16, <2>1, <3>1, <3>5
      <4>2. path[n] = g[i] /\ path[n - 1] = g[i - 1]
        BY <3>2, <4>1
      <4> HIDE DEF i
      <4>3. QED
        BY <1>8, <4>1, <4>2 DEF Together, L
    <3>6. QED
      BY <1>16, <3>1, <3>3, <3>4, <3>5
  <2>2. CASE ~(first <= last)
    <3>1. Len(middle) = 0 /\ Len(path) = 2 /\ path[2] = y
      BY <1>15, <1>16, <2>2
    <3>2. \E i \in 2 .. L : M[i - 1] <= a /\ a <= M[i] /\ M[i - 1] <= b /\ b <= M[i]
      <4>1. CASE a = b
        BY <1>9, <4>1
      <4>2. CASE a # b
        <5>1. first - 1 \in 1 .. L /\ last + 1 \in 1 .. L
          BY <1>1, <1>10, <1>13, <1>14
        <5>2. M[first - 1] <= a /\ M[first - 1] \in Nat
          BY <1>2, <1>10, <5>1
        <5>3. M[first - 1] < b
          BY <1>6, <4>2, <5>2
        <5>4. first - 1 <= last
          BY <1>11, <5>1, <5>3
        <5>5. first = last + 1
          BY <1>13, <1>14, <2>2, <5>4
        <5>6. ~(M[last + 1] < b) /\ M[last + 1] \in Nat
          BY <1>2, <1>11, <1>14, <5>1
        <5>7. first \in 2 .. L
          BY <1>1, <1>13, <5>1, <5>5
        <5>8. M[first - 1] <= a /\ a <= M[first] /\ M[first - 1] <= b /\ b <= M[first]
          BY <1>6, <5>2, <5>3, <5>5, <5>6
        <5>9. QED
          BY <5>7, <5>8
      <4>3. QED
        BY <4>1, <4>2
    <3>3. PICK i \in 2 .. L : M[i - 1] <= a /\ a <= M[i] /\ M[i - 1] <= b /\ b <= M[i]
      BY <3>2
    <3>4. Within(x, g[i - 1], g[i]) /\ Within(y, g[i - 1], g[i])
      BY <1>6, <1>7, <3>3 DEF x, y
    <3>5. QED
      BY <1>16, <3>1, <3>4 DEF Together, L
  <2>3. QED
    BY <2>1, <2>2
<1>18. Len(path) >= 2
  BY <1>15, <1>16
<1>19. QED
  BY <1>16, <1>17, <1>18 DEF path, x, g, a


LEMMA ShareIs ==
    ASSUME NEW l \in Nat, NEW w \in Nat \ {0}, NEW c \in 0 .. w
    PROVE  (l * c) \div w \in 0 .. l
<1> DEFINE q == (l * c) \div w
<1>1. l * c \in Nat /\ l * c <= l * w
  OBVIOUS
<1>2. q \in Int /\ w * q <= l * c /\ l * c < w * q + w /\ q >= 0
  BY <1>1
<1> HIDE DEF q
<1>3. q <= l
  <2> SUFFICES ASSUME q >= l + 1 PROVE FALSE
    BY <1>2
  <2>1. w * q >= w * (l + 1)
    BY <1>2
  <2>2. w * (l + 1) = l * w + w
    OBVIOUS
  <2>3. QED
    BY <1>1, <1>2, <2>1, <2>2
<1>4. QED
  BY <1>2, <1>3 DEF q

LEMMA TogetherIs ==
    ASSUME NEW g \in Seq(Point), Len(g) >= 2, Axial(g),
           NEW p \in Point, NEW q \in Point, Together(g, p, q)
    PROVE  /\ p[1] = q[1] \/ p[2] = q[2]
           /\ \A x \in Point : Within(x, p, q) => \E i \in 2 .. Len(g) : Within(x, g[i - 1], g[i])
<1>1. PICK i \in 2 .. Len(g) : Within(p, g[i - 1], g[i]) /\ Within(q, g[i - 1], g[i])
  BY DEF Together
<1>2. i - 1 \in 1 .. Len(g) /\ i \in 1 .. Len(g)
  OBVIOUS
<1>3. g[i - 1] \in Point /\ g[i] \in Point
  BY <1>2
<1>4. g[i - 1][1] = g[i][1] \/ g[i - 1][2] = g[i][2]
  BY DEF Axial
<1>5. p[1] = q[1] \/ p[2] = q[2]
  BY <1>1, <1>3, <1>4, WithinBoth
<1>6. \A x \in Point : Within(x, p, q) => Within(x, g[i - 1], g[i])
  BY <1>1, <1>3, <1>4, WithinBoth
<1>7. QED
  BY <1>5, <1>6

\* A stretch is drawn on its road, from its first point.
LEMMA StretchKeepsToTheRoad ==
    ASSUME NEW road \in BuiltRoad, Axial(road.geometry),
           NEW from \in 0 .. LengthOf(road.geometry), NEW to \in 0 .. LengthOf(road.geometry),
           NEW part \in Int, NEW whole \in Nat \ {0}
    PROVE  LET path == RoadSegment(road, from, to)
           IN  /\ ProjectOnRoad(road, PointAlong(path, part, whole)).offset = 0
               /\ PointAlong(path, 0, whole) = PointAtDistance(road.geometry, Least(from, to))
<1> DEFINE g == road.geometry
           path == RoadSegment(road, from, to)
           L == Len(path)
           M == Measure(path)
           share == (LengthOf(path) * Clamp(part, 0, whole)) \div whole
           x == PointAlong(path, part, whole)
<1>1. g \in Seq(Point) /\ Len(g) >= 2 /\ Axial(g)
  BY DEF BuiltRoad
<1>2. /\ path \in Seq(Point) /\ L >= 2
      /\ path[1] = PointAtDistance(g, Least(from, to))
      /\ \A n \in 2 .. L : Together(g, path[n - 1], path[n])
  BY StretchIs
<1> HIDE DEF path
<1>3. L \in Nat /\ path # << >> /\ \A n \in 1 .. L : path[n] \in Point
  BY <1>2
<1>4. \A n \in 2 .. L : /\ path[n - 1][1] = path[n][1] \/ path[n - 1][2] = path[n][2]
                        /\ \A p \in Point : Within(p, path[n - 1], path[n]) =>
                              \E i \in 2 .. Len(g) : Within(p, g[i - 1], g[i])
  <2> SUFFICES ASSUME NEW n \in 2 .. L
               PROVE  /\ path[n - 1][1] = path[n][1] \/ path[n - 1][2] = path[n][2]
                      /\ \A p \in Point : Within(p, path[n - 1], path[n]) =>
                            \E i \in 2 .. Len(g) : Within(p, g[i - 1], g[i])
    OBVIOUS
  <2>1. n - 1 \in 1 .. L /\ n \in 1 .. L
    BY <1>3
  <2>2. path[n - 1] \in Point /\ path[n] \in Point
    BY <1>3, <2>1
  <2> HIDE DEF g
  <2>3. QED
    BY <1>1, <1>2, <2>2, TogetherIs
<1>5. Axial(path)
  BY <1>4 DEF Axial
<1>6. LengthOf(path) \in Nat
  BY <1>2, <1>3, LengthIs
<1>7. x \in Point
  BY <1>2, <1>3, PointAlongIs
<1>8. \E i \in 2 .. Len(g) : Within(x, g[i - 1], g[i])
  <2>1. CASE LengthOf(path) = 0
    <3>1. x = path[1]
      BY <2>1 DEF PointAlong
    <3>2. 2 \in 2 .. L /\ 1 \in 1 .. L /\ 2 \in 1 .. L
      BY <1>2, <1>3
    <3>3. Within(path[1], path[1], path[2]) /\ path[1] \in Point
      BY <1>3, <3>2, WithinIs
    <3>4. \E i \in 2 .. Len(g) : Within(path[1], g[i - 1], g[i])
      <4>1. 2 - 1 = 1
        OBVIOUS
      <4>2. QED
        BY <1>4, <3>2, <3>3, <4>1
    <3>5. QED
      BY <3>1, <3>4
  <2>2. CASE LengthOf(path) # 0
    <3>1. x = PointAtDistance(path, share)
      BY <1>2, <1>3, <2>2 DEF PointAlong
    <3>2. Clamp(part, 0, whole) \in 0 .. whole
      BY DEF Clamp, Least, Most
    <3>3. share \in 0 .. LengthOf(path)
      BY <1>6, <3>2, ShareIs
    <3> HIDE DEF share
    <3>4. PICK n \in 2 .. L : M[n - 1] <= share /\ share <= M[n]
      BY <1>2, <3>3, Reached
    <3>5. share \in Int
      BY <1>6, <3>3
    <3>6. Within(PointAtDistance(path, share), path[n - 1], path[n])
      BY <1>2, <1>5, <3>4, <3>5, AtDistance
    <3>7. QED
      BY <1>4, <1>7, <3>1, <3>4, <3>6
  <2>3. QED
    BY <2>1, <2>2
<1>9. PICK i \in 2 .. Len(g) : Within(x, g[i - 1], g[i])
  BY <1>8
<1> HIDE DEF x
<1>10. i - 1 \in 1 .. Len(g) /\ i \in 1 .. Len(g) /\ g[i - 1] \in Point /\ g[i] \in Point
  BY <1>1
<1>11. ProjectOnSegment(x, g[i - 1], g[i]) = x
  BY <1>7, <1>9, <1>10, WithinIs
<1>12. Metres(x, x) = 0
  BY <1>7 DEF Metres, Gap, Least, Most, Point
<1>13. MatchAt(road, x, i).offset = 0
  BY <1>11, <1>12 DEF MatchAt
<1>14. ProjectOnRoad(road, x).offset <= 0
  BY <1>7, <1>13, ProjectIs
<1>15. ProjectOnRoad(road, x).offset \in Nat
  BY <1>7, ProjectIs, MatchAtIs
<1>16. ProjectOnRoad(road, x).offset = 0
  BY <1>14, <1>15
<1>17. PointAlong(path, 0, whole) = path[1]
  <2>1. CASE LengthOf(path) = 0
    BY <2>1 DEF PointAlong
  <2>2. CASE LengthOf(path) # 0
    <3>1. Clamp(0, 0, whole) = 0
      BY DEF Clamp, Least, Most
    <3>2. (LengthOf(path) * 0) \div whole = 0
      <4>1. LengthOf(path) * 0 = 0
        BY <1>6
      <4>2. 0 \div whole = 0
        OBVIOUS
      <4>3. QED
        BY <4>1, <4>2
    <3>3. PointAlong(path, 0, whole) = PointAtDistance(path, 0)
      BY <1>2, <1>3, <2>2, <3>1, <3>2 DEF PointAlong
    <3>4. 2 \in 2 .. L /\ 2 - 1 = 1 /\ 1 \in 1 .. L /\ 2 \in 1 .. L
      BY <1>2, <1>3
    <3>5. M[1] = 0 /\ M[2] \in Nat
      BY <1>2, <1>3, <3>4, MeasureIs
    <3>6. M[2 - 1] <= 0 /\ 0 <= M[2]
      BY <3>4, <3>5
    <3>7. Metres(path[2 - 1], PointAtDistance(path, 0)) = 0 - M[2 - 1]
      BY <1>2, <1>5, <3>4, <3>6, AtDistance
    <3>8. Metres(path[1], PointAtDistance(path, 0)) = 0
      BY <3>4, <3>5, <3>7
    <3>9. path[1] \in Point /\ PointAtDistance(path, 0) \in Point
      BY <1>2, <1>3, <3>4, PointAtDistanceIs
    <3>10. QED
      BY <3>3, <3>8, <3>9, MetresIs
  <2>3. QED
    BY <2>1, <2>2
<1>18. QED
  BY <1>2, <1>16, <1>17 DEF x, path

----------------------------------------------------------------------------
\* The camera and the layers: what each helper does to the view, and what it leaves alone.

StateTyped ==
    /\ known \in BOOLEAN /\ outlines \in BOOLEAN
    /\ s \in Selections /\ layers \in SUBSET Layers /\ roads \in Networks
    /\ live \in [ Marker -> Maybe(Update) ] /\ rows \in [ Vehicle -> Row ]
    /\ rendered \in Maybe(Dependencies) /\ now \in Nat

\* What a helper leaves alone, by what it is for.
Stage(w) == <<w.ready, w.data, w.arrived, w.revealed>>
Subject(w) == <<w.vehicle, w.follow>>
Route(w) == <<w.roads, w.leg, w.match, w.info>>
Aim(w) == <<w.had, w.shows>>
Flying(w) == <<w.flight, w.flightUntil>>
Others(w) == <<w.camera, w.userUntil, w.focus, w.asks, w.trails>>

LEMMA FlyIs ==
    ASSUME NEW w \in View, NEW at \in Nat, NEW camera \in Cameras, NEW ms \in Positive,
           NEW x \in Shown
    PROVE  LET t == Fly(w, at, camera, ms, x)
           IN  /\ t \in View
               /\ Stage(t) = Stage(w) /\ Subject(t) = Subject(w) /\ Route(t) = Route(w)
               /\ Others(t) = Others(w) /\ t.hidden = w.hidden /\ t.pulled = w.pulled
               /\ t.had = w.had /\ t.shows = x
               /\ t.flight # None /\ t.flight.ends = at + ms /\ t.flightUntil = at + ms + 100
<1> DEFINE fl == [ to |-> camera, ends |-> at + ms ]
           n == at + ms + 100
           t == [ w EXCEPT !.flight = fl, !.flightUntil = n, !.shows = x ]
<1>1. fl \in Flights /\ n \in Nat /\ x \in Maybe(Shown)
  BY DEF Flights, Maybe, Positive
<1>2. fl \in Maybe(Flights) /\ fl # None /\ fl.ends = at + ms
  BY <1>1, SentinelAssumption DEF Maybe
<1>3. Fly(w, at, camera, ms, x) = t
  BY DEF Fly
<1> HIDE DEF fl, n
<1>4. t \in View
  BY <1>1, <1>2 DEF View
<1>5. /\ Stage(t) = Stage(w) /\ Subject(t) = Subject(w) /\ Route(t) = Route(w)
      /\ Others(t) = Others(w) /\ t.hidden = w.hidden /\ t.pulled = w.pulled
      /\ t.had = w.had /\ t.shows = x /\ t.flight = fl /\ t.flightUntil = n
  BY DEF View, Stage, Subject, Route, Others
<1>6. QED
  BY <1>2, <1>3, <1>4, <1>5 DEF n

LEMMA PositionIs ==
    ASSUME StateTyped, NEW row \in Row
    PROVE  PositionOf(row) \in Point
<1>1. row.id \in Marker /\ row.pos \in Point
  BY DEF Row, Marker
<1>2. live[row.id] \in Maybe(Update)
  BY <1>1 DEF StateTyped
<1>3. live[row.id] # None => live[row.id].pos \in Point
  BY <1>2 DEF Maybe, Update
<1>4. QED
  BY <1>1, <1>3 DEF PositionOf

LEMMA CenterIs ==
    ASSUME NEW bbox \in [ {1, 2} -> Point ]
    PROVE  CenterOf(bbox) \in Point
<1>1. bbox[1] \in Point /\ bbox[2] \in Point
  OBVIOUS
<1>2. \A k \in {1, 2} : bbox[1][k] \in Int /\ bbox[2][k] \in Int
  BY <1>1 DEF Point
<1>3. \A k \in {1, 2} : (bbox[1][k] + bbox[2][k]) \div 2 \in Int
  BY <1>2
<1>4. QED
  BY <1>3 DEF CenterOf, Point

\* Where the camera shows what is selected; a parcel's road is never known.
Good(sel, shows) ==
    \/ shows \in { None, "user" }
    \/ sel.node = None /\ sel.vehicle = None /\ sel.tracking # None
    \/ shows = IF sel.node # None THEN sel.node
               ELSE IF sel.vehicle # None THEN sel.vehicle.id
               ELSE IF sel.region # None THEN sel.region ELSE "home"

\* What a helper does that may fly the camera to what is selected.
Aimed(w, t, at) ==
    /\ t \in View
    /\ Stage(t) = Stage(w) /\ Subject(t) = Subject(w) /\ Route(t) = Route(w)
    /\ Others(t) = Others(w) /\ t.hidden = w.hidden /\ t.pulled = w.pulled
    /\ Selected(s) => Good(s, t.shows)
    /\ ~Selected(s) => t.shows = IF w.had THEN "home" ELSE w.shows
    /\ \/ Flying(t) = Flying(w)
       \/ t.flight # None /\ at < t.flight.ends /\ t.flight.ends < t.flightUntil

LEMMA FlyAims ==
    ASSUME NEW w \in View, NEW at \in Nat, NEW camera \in Cameras, NEW ms \in Positive,
           NEW x \in Shown,
           Selected(s) => Good(s, x), ~Selected(s) => w.had /\ x = "home"
    PROVE  Aimed(w, Fly(w, at, camera, ms, x), at)
<1> DEFINE t == Fly(w, at, camera, ms, x)
<1>1. /\ t \in View
      /\ Stage(t) = Stage(w) /\ Subject(t) = Subject(w) /\ Route(t) = Route(w)
      /\ Others(t) = Others(w) /\ t.hidden = w.hidden /\ t.pulled = w.pulled /\ t.shows = x
      /\ t.flight # None /\ t.flight.ends = at + ms /\ t.flightUntil = at + ms + 100
  BY FlyIs
<1>2. at < at + ms /\ at + ms < at + ms + 100
  BY DEF Positive
<1> HIDE DEF t
<1>3. Aimed(w, t, at)
  BY <1>1, <1>2 DEF Aimed
<1>4. QED
  BY <1>3 DEF t

LEMMA CameraIs ==
    ASSUME StateTyped, NEW w \in View, NEW at \in Nat
    PROVE  Aimed(w, ApplyCamera(w, at), at) /\ ApplyCamera(w, at).had = Selected(s)
<1> DEFINE moved ==
            IF s.node # None THEN Fly(w, at, Camera(At[s.node], TRUE), FocusMs, s.node)
            ELSE IF s.vehicle # None
            THEN Fly(w, at, Camera(PositionOf(s.vehicle), TRUE), FocusMs, s.vehicle.id)
            ELSE IF s.tracking # None THEN w
            ELSE IF s.region # None
            THEN Fly(w, at, Camera(CenterOf(Areas[s.region].bbox), TRUE), RegionMs, s.region)
            ELSE IF w.had THEN Fly(w, at, Camera(Home, FALSE), HomeMs, "home")
            ELSE w
<1>1. FocusMs \in Positive /\ RegionMs \in Positive /\ HomeMs \in Positive
  BY TimeAssumption
<1>2. s \in Selections
  BY DEF StateTyped
<1>3. Aimed(w, moved, at)
  <2>1. CASE s.node # None
    <3>1. s.node \in DOMAIN At
      BY <1>2, <2>1 DEF Selections, Known, Maybe
    <3>2. Camera(At[s.node], TRUE) \in Cameras
      BY <3>1, PlaceAssumption DEF Camera, Cameras
    <3>3. s.node \in Shown /\ Selected(s) /\ Good(s, s.node)
      BY <2>1, <3>1 DEF Shown, Selected, Good
    <3>4. Aimed(w, Fly(w, at, Camera(At[s.node], TRUE), FocusMs, s.node), at)
      BY <1>1, <3>2, <3>3, FlyAims
    <3>5. QED
      BY <2>1, <3>4
  <2>2. CASE s.node = None /\ s.vehicle # None
    <3>1. s.vehicle \in Row
      BY <1>2, <2>2 DEF Selections, Maybe
    <3>2. Camera(PositionOf(s.vehicle), TRUE) \in Cameras
      BY <3>1, PositionIs DEF Camera, Cameras
    <3>3. s.vehicle.id \in Shown /\ Selected(s) /\ Good(s, s.vehicle.id)
      BY <2>2, <3>1 DEF Shown, Selected, Good, Row
    <3>4. Aimed(w, Fly(w, at, Camera(PositionOf(s.vehicle), TRUE), FocusMs, s.vehicle.id), at)
      BY <1>1, <3>2, <3>3, FlyAims
    <3>5. QED
      BY <2>2, <3>4
  <2>3. CASE s.node = None /\ s.vehicle = None /\ s.tracking # None
    <3>1. Selected(s) /\ Good(s, w.shows)
      BY <2>3 DEF Selected, Good
    <3>2. Aimed(w, w, at)
      BY <3>1 DEF Aimed
    <3>3. QED
      BY <2>3, <3>2
  <2>4. CASE s.node = None /\ s.vehicle = None /\ s.tracking = None /\ s.region # None
    <3>1. s.region \in DOMAIN Areas
      BY <1>2, <2>4 DEF Selections, Maybe
    <3>2. Camera(CenterOf(Areas[s.region].bbox), TRUE) \in Cameras
      BY <3>1, CenterIs, PlaceAssumption DEF Camera, Cameras
    <3>3. s.region \in Shown /\ Selected(s) /\ Good(s, s.region)
      BY <2>4, <3>1 DEF Shown, Selected, Good
    <3>4. Aimed(w, Fly(w, at, Camera(CenterOf(Areas[s.region].bbox), TRUE), RegionMs, s.region), at)
      BY <1>1, <3>2, <3>3, FlyAims
    <3>5. QED
      BY <2>4, <3>4
  <2>5. CASE s.node = None /\ s.vehicle = None /\ s.tracking = None /\ s.region = None
    <3>1. ~Selected(s)
      BY <2>5 DEF Selected
    <3>2. CASE w.had
      <4>1. Camera(Home, FALSE) \in Cameras
        BY GroundAssumption DEF Camera, Cameras
      <4>2. "home" \in Shown
        BY DEF Shown
      <4>3. Aimed(w, Fly(w, at, Camera(Home, FALSE), HomeMs, "home"), at)
        BY <1>1, <3>1, <3>2, <4>1, <4>2, FlyAims
      <4>4. QED
        BY <2>5, <3>2, <4>3
    <3>3. CASE ~w.had
      <4>1. Aimed(w, w, at)
        BY <3>1, <3>3 DEF Aimed
      <4>2. QED
        BY <2>5, <3>3, <4>1
    <3>4. QED
      BY <3>2, <3>3
  <2>6. QED
    BY <2>1, <2>2, <2>3, <2>4, <2>5
<1>4. Selected(s) \in BOOLEAN
  BY DEF Selected
<1> DEFINE sel == Selected(s)
           t == [ moved EXCEPT !.had = sel ]
<1>5. ApplyCamera(w, at) = t
  BY DEF ApplyCamera
<1> HIDE DEF moved, sel
<1>6. moved \in View
  BY <1>3 DEF Aimed
<1>7. t \in View
  BY <1>4, <1>6 DEF View, sel
<1>8. /\ Stage(t) = Stage(moved) /\ Subject(t) = Subject(moved) /\ Route(t) = Route(moved)
      /\ Others(t) = Others(moved) /\ t.hidden = moved.hidden /\ t.pulled = moved.pulled
      /\ t.had = sel /\ t.shows = moved.shows /\ Flying(t) = Flying(moved)
      /\ t.flight = moved.flight /\ t.flightUntil = moved.flightUntil
  BY <1>6 DEF View, Stage, Subject, Route, Others, Flying
<1> HIDE DEF t
<1>9. Aimed(w, t, at)
  BY <1>3, <1>7, <1>8 DEF Aimed
<1>10. QED
  BY <1>5, <1>8, <1>9 DEF sel

\* All but what is hidden.
Alike(w, t) ==
    /\ Stage(t) = Stage(w) /\ Subject(t) = Subject(w) /\ Route(t) = Route(w)
    /\ Aim(t) = Aim(w) /\ Flying(t) = Flying(w) /\ Others(t) = Others(w) /\ t.pulled = w.pulled

\* The outline of a district in passing is hidden as it should be, or left as it was.
Outline == { "region-focus" }
OutlineRight(hidden) == "region-focus" \in hidden <=> ~(s.region = None /\ Areal \in layers)
Dressed(w, t) ==
    /\ t.hidden \ Outline = w.hidden \ Outline
    /\ t.hidden = w.hidden \/ OutlineRight(t.hidden)

LEMMA VisualsAre ==
    ASSUME NEW w \in View
    PROVE  LET t == ApplyRegionVisuals(w)
           IN  t \in View /\ Alike(w, t) /\ Dressed(w, t) /\ OutlineRight(t.hidden)
<1> DEFINE h == IF s.region = None /\ Areal \in layers THEN w.hidden \ Outline
                ELSE w.hidden \cup Outline
           t == [ w EXCEPT !.hidden = h ]
<1>1. ApplyRegionVisuals(w) = t
  BY DEF ApplyRegionVisuals, Outline
<1>2. w.hidden \in SUBSET Hidden
  BY DEF View, SetOf
<1>3. h \in SetOf(Hidden) /\ h \ Outline = w.hidden \ Outline /\ OutlineRight(h)
  BY <1>2 DEF SetOf, Hidden, Outline, OutlineRight
<1> HIDE DEF h
<1>4. t \in View
  BY <1>3 DEF View
<1>5. Alike(w, t) /\ t.hidden = h
  BY DEF View, Alike, Stage, Subject, Route, Others, Aim, Flying
<1> HIDE DEF t
<1>6. QED
  BY <1>1, <1>3, <1>4, <1>5 DEF Dressed

LEMMA FindRegionIs ==
    ASSUME NEW regions \in Seq(Chips), NEW p
    PROVE  LET r == FindRegionAt(regions, p)
           IN  r \in Maybe(Chips) /\ (r # None => RegionContains(r, p))
<1> DEFINE inside == { i \in DOMAIN regions : RegionContains(regions[i], p) }
<1>1. CASE inside = {}
  BY <1>1 DEF FindRegionAt, Maybe
<1>2. CASE inside # {}
  <2>1. inside \subseteq Nat
    OBVIOUS
  <2>2. PICK i \in inside : \A j \in inside : i <= j
    BY <1>2, <2>1, LeastOf
  <2> DEFINE n == CHOOSE m \in inside : \A j \in inside : m <= j
  <2>3. n \in inside
    BY <2>2
  <2>4. FindRegionAt(regions, p) = regions[n]
    BY <1>2 DEF FindRegionAt
  <2> HIDE DEF n
  <2>5. regions[n] \in Chips /\ RegionContains(regions[n], p)
    BY <2>3
  <2>6. QED
    BY <2>4, <2>5 DEF Maybe
<1>3. QED
  BY <1>1, <1>2

LEMMA SettleIs ==
    ASSUME NEW w \in View
    PROVE  LET t == SettleFocus(w)
           IN  /\ t \in View /\ Stage(t) = Stage(w) /\ Subject(t) = Subject(w)
               /\ Route(t) = Route(w) /\ Aim(t) = Aim(w) /\ Flying(t) = Flying(w)
               /\ t.hidden = w.hidden /\ t.pulled = w.pulled /\ t.camera = w.camera
               /\ t.userUntil = w.userUntil /\ t.asks = w.asks /\ t.trails = w.trails
               /\ t.focus # None => w.camera.near /\ RegionContains(t.focus, w.camera.center)
<1> DEFINE f == IF s.region # None \/ ~outlines \/ ~w.camera.near THEN None
                ELSE FindRegionAt(Districts, w.camera.center)
           t == [ w EXCEPT !.focus = f ]
<1>1. SettleFocus(w) = t
  BY DEF SettleFocus
<1>2. f \in Maybe(Chips)
      /\ (f # None => w.camera.near /\ RegionContains(f, w.camera.center))
  BY FindRegionIs, GroundAssumption DEF Maybe
<1> HIDE DEF f
<1>3. t \in View
  BY <1>2 DEF View
<1>4. /\ Stage(t) = Stage(w) /\ Subject(t) = Subject(w)
      /\ Route(t) = Route(w) /\ Aim(t) = Aim(w) /\ Flying(t) = Flying(w)
      /\ t.hidden = w.hidden /\ t.pulled = w.pulled /\ t.camera = w.camera
      /\ t.userUntil = w.userUntil /\ t.asks = w.asks /\ t.trails = w.trails /\ t.focus = f
  BY DEF View, Stage, Subject, Route, Aim, Flying
<1> HIDE DEF t
<1>5. QED
  BY <1>1, <1>2, <1>3, <1>4

LEMMA RevealIs ==
    ASSUME StateTyped, NEW w \in View, NEW at \in Nat
    PROVE  LET t == RevealIfReady(w, at)
               revealing == ~w.revealed /\ w.arrived /\ w.data
           IN  /\ t \in View
               /\ t.ready = w.ready /\ t.data = w.data /\ t.arrived = w.arrived
               /\ t.revealed = (w.revealed \/ revealing)
               /\ ~revealing => t = w
               /\ revealing => t.had = Selected(s) /\ OutlineRight(t.hidden)
               /\ Subject(t) = Subject(w) /\ Route(t) = Route(w) /\ Others(t) = Others(w)
               /\ t.pulled = w.pulled
               /\ Dressed(w, t)
               /\ revealing /\ Selected(s) => Good(s, t.shows)
               /\ revealing /\ ~Selected(s) => t.shows = IF w.had THEN "home" ELSE w.shows
               /\ \/ Flying(t) = Flying(w)
                  \/ t.flight # None /\ at < t.flight.ends /\ t.flight.ends < t.flightUntil
<1>1. w.revealed \in BOOLEAN /\ w.arrived \in BOOLEAN /\ w.data \in BOOLEAN
  BY DEF View
<1>2. CASE w.revealed \/ ~w.arrived \/ ~w.data
  BY <1>1, <1>2 DEF RevealIfReady, Dressed
<1>3. CASE ~(w.revealed \/ ~w.arrived \/ ~w.data)
  <2> DEFINE r == [ w EXCEPT !.revealed = TRUE ]
             v == ApplyRegionVisuals(r)
             t == ApplyCamera(v, at)
  <2>1. r \in View
    BY DEF View
  <2>2. /\ r.ready = w.ready /\ r.data = w.data /\ r.arrived = w.arrived /\ r.revealed = TRUE
        /\ Subject(r) = Subject(w) /\ Route(r) = Route(w) /\ Others(r) = Others(w)
        /\ Aim(r) = Aim(w) /\ Flying(r) = Flying(w) /\ r.hidden = w.hidden
        /\ r.pulled = w.pulled
    BY DEF View, Subject, Route, Aim, Flying, Others
  <2> HIDE DEF r
  <2>3. v \in View /\ Alike(r, v) /\ Dressed(r, v) /\ OutlineRight(v.hidden)
    BY <2>1, VisualsAre
  <2> HIDE DEF v
  <2>4. Aimed(v, t, at) /\ t.had = Selected(s)
    BY <2>3, CameraIs
  <2>5. RevealIfReady(w, at) = t
    BY <1>3 DEF RevealIfReady, t, v, r
  <2> HIDE DEF t
  <2>6. /\ t.ready = w.ready /\ t.data = w.data /\ t.arrived = w.arrived /\ t.revealed = TRUE
    BY <2>2, <2>3, <2>4 DEF Aimed, Alike, Stage
  <2>7. /\ Subject(t) = Subject(w) /\ Route(t) = Route(w) /\ Others(t) = Others(w)
        /\ t.pulled = w.pulled
    BY <2>2, <2>3, <2>4 DEF Aimed, Alike
  <2>8. Dressed(w, t) /\ OutlineRight(t.hidden)
    BY <2>2, <2>3, <2>4 DEF Aimed, Dressed
  <2>9. /\ Selected(s) => Good(s, t.shows)
        /\ ~Selected(s) => t.shows = IF w.had THEN "home" ELSE w.shows
    <3>1. v.had = w.had /\ v.shows = w.shows
      BY <2>2, <2>3 DEF Alike, Aim
    <3>2. QED
      BY <2>4, <3>1 DEF Aimed
  <2>10. \/ Flying(t) = Flying(w)
         \/ t.flight # None /\ at < t.flight.ends /\ t.flight.ends < t.flightUntil
    BY <2>2, <2>3, <2>4 DEF Aimed, Alike
  <2>11. t \in View
    BY <2>4 DEF Aimed
  <2>12. QED
    BY <1>1, <1>3, <2>4, <2>5, <2>6, <2>7, <2>8, <2>9, <2>10, <2>11
<1>4. QED
  BY <1>2, <1>3

----------------------------------------------------------------------------
\* The road of the selected vehicle.

LEMMA VariantsAre ==
    ASSUME NEW net \in Networks, net # None, NEW a, NEW b
    PROVE  Variants(net, a, b) \in Seq(BuiltRoad)
<1>1. CASE net = Corridors
  BY <1>1, GroundAssumption DEF Variants
<1>2. CASE net = << >>
  <2>1. DOMAIN net = {}
    BY <1>2
  <2>2. QED
    BY <2>1 DEF Variants
<1>3. QED
  BY <1>1, <1>2 DEF Networks, Maybe

LEMMA RoadOfIs ==
    ASSUME NEW V \in Seq(BuiltRoad), NEW u \in Update
    PROVE  LET m == RoadOf(V, u)
           IN  /\ m \in Maybe(Matches)
               /\ m # None => \E i \in DOMAIN V : m = ProjectOnRoad(V[i], u.pos)
<1>1. u.pos \in Point
  BY DEF Update
<1>2. \A i \in DOMAIN V : ProjectOnRoad(V[i], u.pos) \in Matches
  BY <1>1, ProjectOnRoadIs
<1> DEFINE named == { i \in DOMAIN V : V[i].name = u.variant
                                       /\ ProjectOnRoad(V[i], u.pos).offset <= OffRoute }
           n == CHOOSE i \in named : TRUE
<1>3. CASE named # {}
  <2>1. n \in DOMAIN V
    BY <1>3
  <2>2. RoadOf(V, u) = ProjectOnRoad(V[n], u.pos)
    BY <1>3 DEF RoadOf
  <2> HIDE DEF n
  <2>3. QED
    BY <1>2, <2>1, <2>2 DEF Maybe
<1>4. CASE named = {}
  <2>1. RoadOf(V, u) = MatchRoad(V, u.pos)
    BY <1>4 DEF RoadOf
  <2>2. CASE V = << >>
    <3>1. MatchRoad(V, u.pos) = None
      BY <2>2 DEF MatchRoad
    <3>2. QED
      BY <2>1, <3>1 DEF Maybe
  <2>3. CASE V # << >>
    <3>1. PICK i \in DOMAIN V : MatchRoad(V, u.pos) = ProjectOnRoad(V[i], u.pos)
      BY <1>1, <2>3, MatchRoadIs
    <3>2. QED
      BY <1>2, <2>1, <3>1 DEF Maybe
  <2>4. QED
    BY <2>2, <2>3
<1>5. QED
  BY <1>3, <1>4

LEMMA RouteInfoIs ==
    ASSUME NEW V \in Seq(BuiltRoad), NEW i \in DOMAIN V, NEW m \in Matches, m.road \in BuiltRoad,
           NEW dest \in DOMAIN At
    PROVE  /\ RouteInfo(V, m, dest) \in Infos
           /\ RouteInfo(V, m, dest).remaining = Remaining(m.road, m.progress)
<1>1. V[1] \in BuiltRoad
  OBVIOUS
<1>2. /\ V[1].km \in Int /\ V[1].minutes \in Int /\ m.road.km \in Int /\ m.road.minutes \in Int
      /\ m.road.geometry \in Seq(Point) /\ Len(m.road.geometry) >= 2 /\ m.progress \in Int
  BY <1>1 DEF BuiltRoad, Matches
<1>3. m.road.geometry # << >>
  BY <1>2
<1>4. Remaining(m.road, m.progress) \in Int
  BY <1>2, <1>3, LengthIs DEF Remaining
<1>5. m.road.km - V[1].km \in Int /\ m.road.minutes - V[1].minutes \in Int
  BY <1>2
<1>6. QED
  BY <1>4, <1>5 DEF RouteInfo, Infos

\* The leg of a vehicle, from the reports the map was last drawn with.
LegIn(vehicle, reports) ==
    IF vehicle = None \/ reports[vehicle.id] = None THEN None
    ELSE LET u == reports[vehicle.id]
         IN  InferVehicleLeg(u, IF u.node # None THEN u.node ELSE vehicle.node, Routes, At)

Reports == [ v \in Vehicle |-> live[v] ]

RoadRight(w, vehicle, reports) ==
    /\ w.leg = IF w.data THEN LegIn(vehicle, reports) ELSE None
    /\ w.match # None =>
         /\ w.leg # None /\ w.roads # None
         /\ \E i \in DOMAIN Variants(w.roads, At[w.leg.source], At[w.leg.dest]) :
               w.match = ProjectOnRoad(Variants(w.roads, At[w.leg.source], At[w.leg.dest])[i],
                                       reports[vehicle.id].pos)
         /\ w.match.offset <= OffRoute
         /\ w.info.remaining = Remaining(w.match.road, w.match.progress)

LEMMA SelectedReport ==
    ASSUME StateTyped, s.vehicle # None
    PROVE  /\ s.vehicle.id \in Vehicle /\ s.vehicle.id \in Marker /\ s.vehicle \in Row
           /\ Reports[s.vehicle.id] = live[s.vehicle.id]
           /\ live[s.vehicle.id] # None => live[s.vehicle.id] \in Update
<1>1. s.vehicle \in Row
  BY DEF StateTyped, Selections, Maybe
<1>2. s.vehicle.id \in Vehicle /\ s.vehicle.id \in Marker
  BY <1>1 DEF Row, Marker
<1>3. live[s.vehicle.id] \in Maybe(Update)
  BY <1>2 DEF StateTyped
<1>4. QED
  BY <1>1, <1>2, <1>3 DEF Reports, Maybe

LEMMA LegIs ==
    ASSUME StateTyped
    PROVE  /\ LegOfSelected \in Maybe(Legs)
           /\ LegOfSelected = LegIn(s.vehicle, Reports)
           /\ LegOfSelected # None => s.vehicle # None /\ live[s.vehicle.id] # None
<1>1. CASE s.vehicle = None
  BY <1>1 DEF LegOfSelected, LegIn, Maybe
<1>2. CASE s.vehicle # None /\ live[s.vehicle.id] = None
  BY <1>2, SelectedReport DEF LegOfSelected, LegIn, Maybe
<1>3. CASE s.vehicle # None /\ live[s.vehicle.id] # None
  <2> DEFINE u == live[s.vehicle.id]
             from == IF u.node # None THEN u.node ELSE s.vehicle.node
             ways == { n \in DOMAIN At : <<from, n>> \in Routes
                                         /\ Heading(At[from], At[n]) = u.heading }
  <2>1. LegOfSelected = InferVehicleLeg(u, from, Routes, At)
    BY <1>3 DEF LegOfSelected
  <2>2. LegIn(s.vehicle, Reports) = InferVehicleLeg(u, from, Routes, At)
    BY <1>3, SelectedReport DEF LegIn
  <2>3. ways # {} => (CHOOSE n \in ways : TRUE) \in DOMAIN At
    OBVIOUS
  <2> HIDE DEF from, u
  <2>4. InferVehicleLeg(u, from, Routes, At) \in Maybe(Legs)
    BY <2>3 DEF InferVehicleLeg, Leg, Legs, Maybe
  <2>5. QED
    BY <1>3, <2>1, <2>2, <2>4
<1>4. QED
  BY <1>1, <1>2, <1>3

\* What keeps still while the road is looked up.
Calm(w, t) ==
    /\ t \in View
    /\ Stage(t) = Stage(w) /\ Subject(t) = Subject(w) /\ Aim(t) = Aim(w)
    /\ Flying(t) = Flying(w) /\ t.hidden = w.hidden /\ t.pulled = w.pulled
    /\ t.camera = w.camera /\ t.userUntil = w.userUntil /\ t.focus = w.focus
    /\ t.trails = w.trails /\ t.roads = w.roads

\* What becomes of the view, with and without a road for the leg.
WithRoad(w, match, info) == [ w EXCEPT !.match = match, !.liveRoute = None, !.info = info ]
Asking(w, ask, info) == [ w EXCEPT !.match = None, !.asks = @ \cup { ask }, !.info = info ]

LEMMA RouteKept ==
    ASSUME NEW w \in View, NEW match \in Maybe(Matches), NEW info \in Maybe(Infos)
    PROVE  LET t == WithRoad(w, match, info)
           IN  Calm(w, t) /\ t.leg = w.leg /\ t.match = match /\ t.info = info
<1> DEFINE t == [ w EXCEPT !.match = match, !.liveRoute = None, !.info = info ]
<1>1. None \in Maybe(Asks)
  BY DEF Maybe
<1>2. t \in View
  BY <1>1 DEF View
<1>3. /\ Stage(t) = Stage(w) /\ Subject(t) = Subject(w) /\ Aim(t) = Aim(w)
      /\ Flying(t) = Flying(w) /\ t.hidden = w.hidden /\ t.pulled = w.pulled
      /\ t.camera = w.camera /\ t.userUntil = w.userUntil /\ t.focus = w.focus
      /\ t.trails = w.trails /\ t.roads = w.roads
      /\ t.leg = w.leg /\ t.match = match /\ t.info = info
  BY DEF View, Stage, Subject, Aim, Flying
<1>4. QED
  BY <1>2, <1>3 DEF Calm, WithRoad

LEMMA RouteAsked ==
    ASSUME NEW w \in View, NEW info \in Maybe(Infos), NEW ask \in Asks
    PROVE  LET t == Asking(w, ask, info)
           IN  Calm(w, t) /\ t.leg = w.leg /\ t.match = None /\ t.info = info
<1> DEFINE a == w.asks \cup { ask }
           t == [ w EXCEPT !.match = None, !.asks = a, !.info = info ]
<1>1. a \in SetOf(Asks) /\ None \in Maybe(Matches)
  BY DEF View, SetOf, Maybe
<1> HIDE DEF a
<1>2. t \in View
  BY <1>1 DEF View
<1>3. /\ Stage(t) = Stage(w) /\ Subject(t) = Subject(w) /\ Aim(t) = Aim(w)
      /\ Flying(t) = Flying(w) /\ t.hidden = w.hidden /\ t.pulled = w.pulled
      /\ t.camera = w.camera /\ t.userUntil = w.userUntil /\ t.focus = w.focus
      /\ t.trails = w.trails /\ t.roads = w.roads
      /\ t.leg = w.leg /\ t.match = None /\ t.info = info
  BY DEF View, Stage, Subject, Aim, Flying
<1>4. QED
  BY <1>2, <1>3 DEF Calm, a, Asking

LEMMA MatchIs ==
    ASSUME NEW w \in View, w.roads # None, NEW leg \in Legs, NEW u \in Update
    PROVE  LET t == MatchRoadForLeg(w, leg, u)
               V == Variants(w.roads, At[leg.source], At[leg.dest])
           IN  /\ Calm(w, t) /\ t.leg = w.leg
               /\ t.match # None =>
                    /\ \E i \in DOMAIN V : t.match = ProjectOnRoad(V[i], u.pos)
                    /\ t.match.offset <= OffRoute
                    /\ t.info.remaining = Remaining(t.match.road, t.match.progress)
<1> DEFINE V == Variants(w.roads, At[leg.source], At[leg.dest])
           m == RoadOf(V, u)
           t == MatchRoadForLeg(w, leg, u)
<1>1. w.roads \in Networks /\ leg.source \in DOMAIN At /\ leg.dest \in DOMAIN At
  BY DEF View, Legs
<1>2. V \in Seq(BuiltRoad)
  BY <1>1, VariantsAre
<1>3. m \in Maybe(Matches) /\ (m # None => \E i \in DOMAIN V : m = ProjectOnRoad(V[i], u.pos))
  BY <1>2, RoadOfIs
<1>4. u.pos \in Point /\ At[leg.dest] \in Point /\ At[leg.source] \in Point
  BY <1>1, PlaceAssumption DEF Update
<1>5. CASE m # None /\ m.offset <= OffRoute
  <2>1. PICK i \in DOMAIN V : m = ProjectOnRoad(V[i], u.pos)
    BY <1>3, <1>5
  <2>2. m \in Matches /\ m.road \in BuiltRoad
    BY <1>3, <1>5 DEF Maybe, Matches
  <2> DEFINE info == RouteInfo(V, m, leg.dest)
  <2>3. info \in Maybe(Infos) /\ info.remaining = Remaining(m.road, m.progress)
    BY <1>1, <1>2, <2>2, RouteInfoIs DEF Maybe
  <2>4. t = WithRoad(w, m, info)
    BY <1>5 DEF MatchRoadForLeg, WithRoad
  <2> HIDE DEF t, info, m, V
  <2>5. Calm(w, t) /\ t.leg = w.leg /\ t.match = m /\ t.info = info
    BY <1>3, <2>3, <2>4, RouteKept
  <2>6. QED
    BY <1>5, <2>1, <2>3, <2>5 DEF t, V
<1>6. CASE ~(m # None /\ m.offset <= OffRoute)
  <2> DEFINE info == [ kind |-> "off-route", destination |-> leg.dest,
                       remaining |-> Metres(u.pos, At[leg.dest]), extraKm |-> 0, extraMin |-> 0 ]
             ask == <<u.pos, At[leg.dest]>>
  <2>1. info \in Maybe(Infos)
    <3>1. Metres(u.pos, At[leg.dest]) \in Nat
      BY <1>4, MetresIs
    <3>2. QED
      BY <1>1, <3>1 DEF Infos, Maybe
  <2>2. ask \in Asks
    BY <1>4 DEF Asks
  <2>3. t = Asking(w, ask, info)
    BY <1>6 DEF MatchRoadForLeg, Asking
  <2> HIDE DEF t, info, ask
  <2>4. Calm(w, t) /\ t.leg = w.leg /\ t.match = None
    BY <2>1, <2>2, <2>3, RouteAsked
  <2>5. QED
    BY <2>4 DEF t
<1>7. QED
  BY <1>5, <1>6

LEMMA RecomputeIs ==
    ASSUME StateTyped, NEW w \in View
    PROVE  LET t == RecomputeLeg(w)
           IN  /\ Calm(w, t) /\ RoadRight(t, s.vehicle, Reports)
               /\ ~w.data => t.match = None /\ t.leg = None /\ t.info = None
<1> DEFINE leg == IF w.data THEN LegOfSelected ELSE None
           to == [ w EXCEPT !.leg = leg ]
           t == RecomputeLeg(w)
<1>1. leg \in Maybe(Legs) /\ w.data \in BOOLEAN
  BY LegIs DEF Maybe, View
<1>2. leg = IF w.data THEN LegIn(s.vehicle, Reports) ELSE None
  BY LegIs
<1>3. leg # None => s.vehicle # None /\ live[s.vehicle.id] # None
  BY LegIs
<1>4. t = IF leg = None \/ w.roads = None
          THEN WithRoad(to, None, None)
          ELSE MatchRoadForLeg(to, leg, live[s.vehicle.id])
  BY DEF RecomputeLeg, WithRoad
<1>5. ~w.data => leg = None
  OBVIOUS
<1> HIDE DEF leg, t
<1>6. to \in View
  BY <1>1 DEF View
<1>7. /\ Calm(w, to) /\ to.leg = leg /\ to.roads = w.roads /\ to.data = w.data
  BY <1>6 DEF View, Calm, Stage, Subject, Aim, Flying
<1> HIDE DEF to
<1>8. \A x \in View : Calm(to, x) => Calm(w, x) /\ x.roads = w.roads /\ x.data = w.data
  BY <1>7 DEF Calm, Stage
<1>9. CASE leg = None \/ w.roads = None
  <2>1. None \in Maybe(Matches) /\ None \in Maybe(Infos)
    BY DEF Maybe
  <2>2. t = WithRoad(to, None, None)
    BY <1>4, <1>9
  <2>3. Calm(to, t) /\ t.leg = to.leg /\ t.match = None /\ t.info = None
    BY <1>6, <2>1, <2>2, RouteKept
  <2>4. Calm(w, t) /\ t.data = w.data
    BY <1>8, <2>3 DEF Calm
  <2>5. RoadRight(t, s.vehicle, Reports)
    BY <1>2, <1>7, <2>3, <2>4 DEF RoadRight
  <2>6. QED
    BY <1>5, <1>7, <2>3, <2>4, <2>5 DEF t
<1>10. CASE leg # None /\ w.roads # None
  <2> DEFINE u == live[s.vehicle.id]
             V == Variants(t.roads, At[t.leg.source], At[t.leg.dest])
  <2>1. t = MatchRoadForLeg(to, leg, u) /\ leg \in Legs
    BY <1>1, <1>4, <1>10 DEF Maybe
  <2>2. u \in Update /\ Reports[s.vehicle.id] = u
    BY <1>3, <1>10, SelectedReport
  <2>3. /\ Calm(to, t) /\ t.leg = to.leg
        /\ t.match # None =>
             /\ \E i \in DOMAIN Variants(to.roads, At[leg.source], At[leg.dest]) :
                   t.match = ProjectOnRoad(Variants(to.roads, At[leg.source], At[leg.dest])[i], u.pos)
             /\ t.match.offset <= OffRoute
             /\ t.info.remaining = Remaining(t.match.road, t.match.progress)
    BY <1>6, <1>7, <1>10, <2>1, <2>2, MatchIs
  <2>4. Calm(w, t) /\ t.data = w.data /\ t.roads = w.roads
    BY <1>8, <2>3 DEF Calm
  <2>5. RoadRight(t, s.vehicle, Reports)
    BY <1>2, <1>7, <1>10, <2>2, <2>3, <2>4 DEF RoadRight
  <2>6. QED
    BY <1>5, <1>10, <2>4, <2>5 DEF t
<1>11. QED
  BY <1>9, <1>10

----------------------------------------------------------------------------
\* The markers.

\* A glide leaves alone all but the markers and the clocks of the feeds.
Quiet(w, t) ==
    /\ t \in View
    /\ Stage(t) = Stage(w) /\ Subject(t) = Subject(w) /\ Route(t) = Route(w) /\ Aim(t) = Aim(w)
    /\ Flying(t) = Flying(w) /\ Others(t) = Others(w) /\ t.hidden = w.hidden
    /\ t.pulled = w.pulled

Stamped(w, feed) == [ w EXCEPT !.lastAt[feed] = now ]

LEMMA SmoothGap ==
    ASSUME NEW old \in Positive, NEW gap \in Positive
    PROVE  old + ((gap - old) * 3) \div 10 \in Positive
<1> DEFINE x == (gap - old) * 3
           q == x \div 10
<1>1. x \in Int /\ x = 3 * gap - 3 * old /\ old >= 1 /\ gap >= 1 /\ old \in Int /\ gap \in Int
  BY DEF Positive
<1> HIDE DEF x
<1>2. q \in Int /\ 10 * q <= x /\ x < 10 * q + 10
  BY <1>1
<1> HIDE DEF q
<1>3. old + q >= 1 /\ old + q \in Int
  BY <1>1, <1>2
<1>4. QED
  BY <1>3 DEF Positive, q, x

LEMMA IntervalIs ==
    ASSUME now \in Nat, NEW w \in View, NEW feed \in Feeds
    PROVE  Quiet(w, Interval(w, feed))
<1> DEFINE gap == now - w.lastAt[feed]
           old == w.interval[feed]
           ms == IF w.seen[feed] THEN old + ((gap - old) * 3) \div 10 ELSE gap
           i == [ w.interval EXCEPT ![feed] = ms ]
           n == [ w.seen EXCEPT ![feed] = TRUE ]
           t == [ w EXCEPT !.interval = i, !.seen = n ]
<1>1. CASE w.lastAt[feed] = 0 \/ gap <= LeastGap \/ gap >= MostGap
  BY <1>1 DEF Interval, Quiet
<1>2. CASE ~(w.lastAt[feed] = 0 \/ gap <= LeastGap \/ gap >= MostGap)
  <2>1. w.interval \in [ Feeds -> Positive ] /\ w.lastAt \in [ Feeds -> Nat ]
        /\ w.seen \in [ Feeds -> BOOLEAN ]
    BY DEF View, OfFeeds
  <2>2. gap \in Int /\ old \in Positive /\ LeastGap \in Nat
    BY <2>1, TimeAssumption
  <2>3. gap \in Positive
    BY <1>2, <2>2 DEF Positive
  <2>4. ms \in Positive
    BY <2>2, <2>3, SmoothGap
  <2>5. Interval(w, feed) = t
    BY <1>2 DEF Interval
  <2> HIDE DEF ms, gap, old
  <2>6. i \in OfFeeds(Positive) /\ n \in OfFeeds(BOOLEAN)
    BY <2>1, <2>4 DEF OfFeeds
  <2> HIDE DEF i, n
  <2>7. t \in View
    BY <2>6 DEF View
  <2>8. Quiet(w, t)
    BY <2>7 DEF View, Quiet, Stage, Subject, Route, Aim, Flying, Others
  <2> HIDE DEF t
  <2>9. QED
    BY <2>5, <2>8
<1>3. QED
  BY <1>1, <1>2

LEMMA StampedIs ==
    ASSUME now \in Nat, NEW w \in View, NEW feed \in Feeds
    PROVE  Quiet(w, Stamped(w, feed)) /\ Stamped(w, feed).anims = w.anims
<1> DEFINE l == [ w.lastAt EXCEPT ![feed] = now ]
           t == [ w EXCEPT !.lastAt = l ]
<1>1. l \in OfFeeds(Nat)
  BY DEF View, OfFeeds
<1>2. Stamped(w, feed) = t
  BY DEF Stamped
<1> HIDE DEF l
<1>3. t \in View
  BY <1>1 DEF View
<1>4. Quiet(w, t) /\ t.anims = w.anims
  BY <1>3 DEF View, Quiet, Stage, Subject, Route, Aim, Flying, Others
<1> HIDE DEF t
<1>5. QED
  BY <1>2, <1>4

LEMMA GlideMsIs ==
    ASSUME NEW w \in View, NEW feed \in Feeds
    PROVE  GlideMsFor(w, feed) \in Positive
<1>1. w.interval[feed] \in Positive
  BY DEF View, OfFeeds
<1>2. (w.interval[feed] * 6) \div 5 \in Int
  BY <1>1 DEF Positive
<1>3. MinGlide \in Positive /\ MaxGlide \in Positive
  BY TimeAssumption
<1>4. QED
  BY <1>2, <1>3 DEF GlideMsFor, Clamp, Least, Most, Positive

LEMMA MarkerAtIs ==
    ASSUME NEW a \in Glides, NEW time \in Nat
    PROVE  MarkerAt(a, time) \in Point
<1> DEFINE part == Least(time - a.started, a.ms)
<1>1. a.from \in Point /\ a.to \in Point /\ a.ms \in Nat \ {0} /\ a.started \in Nat
  BY DEF Glides, Positive
<1>2. part \in Int
  BY <1>1 DEF Least
<1>3. CASE a.path # None
  <2>1. a.path \in Seq(Point) /\ a.path # << >>
    BY <1>3 DEF Glides, Maybe, Paths
  <2>2. PointAlong(a.path, part, a.ms) \in Point
    BY <1>1, <1>2, <2>1, PointAlongIs
  <2>3. QED
    BY <1>3, <2>2 DEF MarkerAt
<1>4. CASE a.path = None
  <2> HIDE DEF part
  <2>1. \A k \in {1, 2} : a.from[k] \in Int /\ a.to[k] \in Int
    BY <1>1 DEF Point
  <2>2. \A k \in {1, 2} : (a.to[k] - a.from[k]) * part \in Int
    BY <1>2, <2>1
  <2>3. \A k \in {1, 2} : a.from[k] + ((a.to[k] - a.from[k]) * part) \div a.ms \in Int
    BY <1>1, <2>1, <2>2
  <2>4. QED
    BY <1>4, <2>3 DEF MarkerAt, Point, part
<1>5. QED
  BY <1>3, <1>4

LEMMA PathIs ==
    ASSUME NEW w \in View, NEW from \in Point, NEW to \in Point, NEW u \in Update
    PROVE  PathBetween(w, from, to, u) \in Maybe(Paths)
<1> DEFINE V == Variants(w.roads, At[u.node], At[u.dest])
           a == MatchRoad(V, from)
           b == MatchRoad(V, to)
<1>1. CASE w.roads = None \/ ~w.data \/ { u.node, u.dest } \ DOMAIN At # {}
  BY <1>1 DEF PathBetween, Maybe
<1>2. CASE ~(w.roads = None \/ ~w.data \/ { u.node, u.dest } \ DOMAIN At # {})
  <2>1. V \in Seq(BuiltRoad)
    BY <1>2, VariantsAre DEF View
  <2>2. CASE a = None \/ b = None
    BY <1>2, <2>2 DEF PathBetween, Maybe
  <2>3. CASE a # None /\ b # None
    <3>1. V # << >>
      BY <2>3 DEF MatchRoad
    <3>2. a \in Matches /\ b \in Matches
      BY <2>1, <3>1, MatchRoadIs, ProjectOnRoadIs
    <3>3. a.road \in BuiltRoad /\ a.progress \in Int /\ b.progress \in Int
      BY <3>2 DEF Matches
    <3>4. RoadSegment(a.road, a.progress, b.progress) \in Paths
      BY <3>3, RoadSegmentIs
    <3>5. PathBetween(w, from, to, u)
            = IF a.road # b.road \/ a.offset > OffRoute \/ b.offset > OffRoute THEN None
              ELSE RoadSegment(a.road, a.progress, b.progress)
      BY <1>2, <2>3 DEF PathBetween
    <3>6. QED
      BY <3>4, <3>5 DEF Maybe
  <2>4. QED
    BY <2>2, <2>3
<1>3. QED
  BY <1>1, <1>2

LEMMA GlideIs ==
    ASSUME now \in Nat, NEW from \in Point, NEW to \in Point, NEW path \in Maybe(Paths),
           NEW ms \in Positive, NEW stamp \in Nat
    PROVE  Glide(from, to, path, ms, stamp) \in Maybe(Glides)
BY DEF Glide, Glides, Maybe

LEMMA AnimsChange ==
    ASSUME NEW w \in View, NEW a \in Anims
    PROVE  Quiet(w, [ w EXCEPT !.anims = a ])
<1> DEFINE t == [ w EXCEPT !.anims = a ]
<1>1. t \in View
  BY DEF View
<1>2. QED
  BY <1>1 DEF View, Quiet, Stage, Subject, Route, Aim, Flying, Others

LEMMA MoveIs ==
    ASSUME StateTyped, NEW w \in View, NEW ids \in SUBSET Marker, NEW ms \in Positive
    PROVE  Quiet(w, MoveMarkers(w, ids, ms))
<1> DEFINE news == { id \in ids : /\ live[id] # None
                                  /\ w.anims[id] = None \/ w.anims[id].stamp # live[id].stamp }
           from(id) == IF w.anims[id] = None THEN live[id].pos ELSE MarkerAt(w.anims[id], now)
           move(id) == Glide(from(id), live[id].pos,
                             PathBetween(w, from(id), live[id].pos, live[id]), ms, live[id].stamp)
           a == [ id \in Marker |-> IF id \in news THEN move(id) ELSE w.anims[id] ]
<1>1. now \in Nat /\ w.anims \in [ Marker -> Maybe(Glides) ]
  BY DEF StateTyped, View, Anims
<1>2. \A id \in news : move(id) \in Maybe(Glides)
  <2> SUFFICES ASSUME NEW id \in news PROVE move(id) \in Maybe(Glides)
    OBVIOUS
  <2>1. live[id] \in Update /\ id \in Marker
    BY DEF StateTyped, Maybe
  <2>2. live[id].pos \in Point /\ live[id].stamp \in Nat
    BY <2>1 DEF Update
  <2>3. w.anims[id] # None => w.anims[id] \in Glides
    BY <1>1, <2>1 DEF Maybe
  <2>4. from(id) \in Point
    BY <1>1, <2>2, <2>3, MarkerAtIs
  <2> HIDE DEF from
  <2>5. PathBetween(w, from(id), live[id].pos, live[id]) \in Maybe(Paths)
    BY <2>1, <2>2, <2>4, PathIs
  <2>6. QED
    BY <1>1, <2>2, <2>4, <2>5, GlideIs
<1>3. MoveMarkers(w, ids, ms) = [ w EXCEPT !.anims = a ]
  BY DEF MoveMarkers
<1> HIDE DEF news, move
<1>4. a \in Anims
  BY <1>1, <1>2 DEF Anims
<1>5. QED
  BY <1>3, <1>4, AnimsChange

LEMMA LastOfIs ==
    ASSUME NEW S, NEW seq \in Seq(S), NEW n \in Nat
    PROVE  LastOf(seq, n) \in Seq(S) /\ Len(LastOf(seq, n)) <= n
<1> DEFINE L == Len(seq)
           a == Most(1, L - n + 1)
<1>1. L \in Nat /\ a \in Int /\ 1 <= a /\ L - n + 1 <= a /\ a <= L + 1
  BY DEF Most
<1> HIDE DEF a
<1>2. \A i \in a .. L : seq[i] \in S
  BY <1>1
<1>3. SubSeq(seq, a, L) \in Seq(S)
  BY <1>1, <1>2
<1>4. Len(SubSeq(seq, a, L)) = IF a <= L THEN L - a + 1 ELSE 0
  BY <1>1
<1>5. QED
  BY <1>1, <1>3, <1>4 DEF LastOf, a

LEMMA ExtendIs ==
    ASSUME NEW trail \in Seq(Point), Len(trail) <= TrailLength, NEW p \in Point
    PROVE  Extend(trail, p) \in Seq(Point) /\ Len(Extend(trail, p)) <= TrailLength
<1>1. TrailLength \in Nat
  BY TimeAssumption
<1>2. Append(trail, p) \in Seq(Point)
  OBVIOUS
<1>3. LastOf(Append(trail, p), TrailLength) \in Seq(Point)
      /\ Len(LastOf(Append(trail, p), TrailLength)) <= TrailLength
  BY <1>1, <1>2, LastOfIs
<1>4. QED
  BY <1>3 DEF Extend

ShortTrails(w) == \A v \in Vehicle : Len(w.trails[v]) <= TrailLength

Trailed(w, news) ==
    [ w EXCEPT !.trails =
        [ v \in Vehicle |-> IF v \in news THEN Extend(@[v], live[v].pos) ELSE @[v] ] ]
Eased(w, ms) ==
    [ w EXCEPT !.flight = [ to |-> Camera(live[w.vehicle].pos, w.camera.near), ends |-> now + ms ],
               !.shows = w.vehicle, !.pulled = <<w.vehicle, now>> ]

\* What keeps still while the trails grow.
Steady(w, t) ==
    /\ t \in View /\ ShortTrails(t)
    /\ Stage(t) = Stage(w) /\ Subject(t) = Subject(w) /\ t.roads = w.roads
    /\ t.had = w.had /\ t.hidden = w.hidden /\ t.camera = w.camera
    /\ t.userUntil = w.userUntil /\ t.focus = w.focus /\ t.flightUntil = w.flightUntil

LEMMA TrailedIs ==
    ASSUME StateTyped, NEW w \in View, ShortTrails(w), NEW news \in SUBSET Vehicle,
           \A v \in news : live[v] # None
    PROVE  LET t == Trailed(w, news)
           IN  Steady(w, t) /\ t.flight = w.flight /\ t.shows = w.shows /\ t.pulled = w.pulled
<1> DEFINE trails == [ v \in Vehicle |-> IF v \in news THEN Extend(w.trails[v], live[v].pos)
                                         ELSE w.trails[v] ]
           t == [ w EXCEPT !.trails = trails ]
<1>1. w.trails \in [ Vehicle -> Seq(Point) ]
  BY DEF View, Trails
<1>2. \A v \in Vehicle : trails[v] \in Seq(Point) /\ Len(trails[v]) <= TrailLength
  <2> SUFFICES ASSUME NEW v \in Vehicle
               PROVE  trails[v] \in Seq(Point) /\ Len(trails[v]) <= TrailLength
    OBVIOUS
  <2>1. w.trails[v] \in Seq(Point) /\ Len(w.trails[v]) <= TrailLength
    BY <1>1 DEF ShortTrails
  <2>2. CASE v \in news
    <3>1. live[v] \in Update
      BY <2>2 DEF StateTyped, Marker, Maybe
    <3>2. live[v].pos \in Point
      BY <3>1 DEF Update
    <3>3. QED
      BY <2>1, <2>2, <3>2, ExtendIs
  <2>3. CASE v \notin news
    BY <2>1, <2>3
  <2>4. QED
    BY <2>2, <2>3
<1>3. Trailed(w, news) = t
  BY DEF Trailed
<1>4. trails \in Trails
  <2>1. DOMAIN trails = Vehicle /\ trails = [ v \in Vehicle |-> trails[v] ]
    OBVIOUS
  <2> HIDE DEF trails
  <2>2. QED
    BY <1>2, <2>1 DEF Trails
<1> HIDE DEF trails
<1>5. t \in View
  BY <1>4 DEF View
<1>6. /\ t.trails = trails
      /\ Stage(t) = Stage(w) /\ Subject(t) = Subject(w) /\ t.roads = w.roads
      /\ t.had = w.had /\ t.hidden = w.hidden /\ t.camera = w.camera
      /\ t.userUntil = w.userUntil /\ t.focus = w.focus /\ t.flightUntil = w.flightUntil
      /\ t.flight = w.flight /\ t.shows = w.shows /\ t.pulled = w.pulled
  BY DEF View, Stage, Subject
<1> HIDE DEF t
<1>7. QED
  BY <1>2, <1>3, <1>5, <1>6 DEF Steady, ShortTrails

LEMMA EasedIs ==
    ASSUME StateTyped, NEW w \in View, ShortTrails(w), w.vehicle \in Vehicle,
           live[w.vehicle] # None, NEW ms \in Positive
    PROVE  LET t == Eased(w, ms)
           IN  /\ Steady(w, t) /\ t.shows = w.vehicle
               /\ t.flight # None /\ now < t.flight.ends
               /\ t.pulled = <<w.vehicle, now>>
<1> DEFINE c == Camera(live[w.vehicle].pos, w.camera.near)
           f == [ to |-> c, ends |-> now + ms ]
           p == <<w.vehicle, now>>
           x == w.vehicle
           t == [ w EXCEPT !.flight = f, !.shows = x, !.pulled = p ]
<1>1. live[w.vehicle] \in Update /\ now \in Nat
  BY DEF StateTyped, Maybe, Marker
<1>2. c \in Cameras
  BY <1>1 DEF Update, Camera, Cameras, View
<1>3. f \in Flights /\ f.ends = now + ms /\ now < now + ms
  BY <1>1, <1>2 DEF Flights, Positive
<1>4. f \in Maybe(Flights) /\ f # None /\ x \in Maybe(Shown) /\ p \in Maybe(Pulls)
  BY <1>1, <1>3, SentinelAssumption DEF Maybe, Shown, Pulls
<1>5. Eased(w, ms) = t
  BY DEF Eased
<1>6. x = w.vehicle
  OBVIOUS
<1> HIDE DEF f, p, c, x
<1>7. t \in View
  BY <1>4 DEF View
<1>8. /\ t.trails = w.trails
      /\ Stage(t) = Stage(w) /\ Subject(t) = Subject(w) /\ t.roads = w.roads
      /\ t.had = w.had /\ t.hidden = w.hidden /\ t.camera = w.camera
      /\ t.userUntil = w.userUntil /\ t.focus = w.focus /\ t.flightUntil = w.flightUntil
      /\ t.flight = f /\ t.shows = x /\ t.pulled = p
  BY DEF View, Stage, Subject
<1> HIDE DEF t
<1>9. Steady(w, t)
  BY <1>7, <1>8 DEF Steady, ShortTrails
<1>10. QED
  BY <1>3, <1>4, <1>5, <1>6, <1>8, <1>9 DEF p

\* What a report of the vehicles makes of the view; it may ease the camera after one.
VehicleGlidesAre(w, t) ==
    /\ Steady(w, t) /\ RoadRight(t, s.vehicle, Reports)
    /\ ~w.data => t.match = None /\ t.leg = None /\ t.info = None
    /\ \/ t.flight = w.flight /\ t.shows = w.shows /\ t.pulled = w.pulled
       \/ /\ Follows(w, w.vehicle) /\ w.vehicle \in Vehicle
          /\ t.shows = w.vehicle /\ t.flight # None /\ now < t.flight.ends
          /\ t.pulled = <<w.vehicle, now>>

LEMMA MovedOnly ==
    ASSUME StateTyped, NEW w \in View, NEW ids \in SUBSET Marker, NEW ms, NEW v \in Marker,
           MoveMarkers(w, ids, ms).anims[v] # w.anims[v]
    PROVE  live[v] # None
<1> DEFINE news == { id \in ids : /\ live[id] # None
                                  /\ w.anims[id] = None \/ w.anims[id].stamp # live[id].stamp }
           from(id) == IF w.anims[id] = None THEN live[id].pos ELSE MarkerAt(w.anims[id], now)
           move(id) == Glide(from(id), live[id].pos,
                             PathBetween(w, from(id), live[id].pos, live[id]), ms, live[id].stamp)
           a == [ id \in Marker |-> IF id \in news THEN move(id) ELSE w.anims[id] ]
<1>1. MoveMarkers(w, ids, ms) = [ w EXCEPT !.anims = a ]
  BY DEF MoveMarkers
<1> HIDE DEF move
<1>2. a[v] = IF v \in news THEN move(v) ELSE w.anims[v]
  OBVIOUS
<1> HIDE DEF a
<1>3. [ w EXCEPT !.anims = a ].anims = a
  BY DEF View
<1>4. QED
  BY <1>1, <1>2, <1>3

LEMMA VehiclesGlide ==
    ASSUME StateTyped, NEW w \in View, ShortTrails(w)
    PROVE  VehicleGlidesAre(w, VehicleGlides(w))
<1> DEFINE timed == Stamped(Interval(w, "vehicles"), "vehicles")
           ms == GlideMsFor(timed, "vehicles")
           moved == MoveMarkers(timed, Vehicle, ms)
           news == { v \in Vehicle : moved.anims[v] # w.anims[v] }
           trailed == Trailed(moved, news)
           eased == IF w.vehicle \in news /\ Follows(w, w.vehicle)
                    THEN [ trailed EXCEPT
                             !.flight = [ to |-> Camera(live[w.vehicle].pos, w.camera.near),
                                          ends |-> now + ms ],
                             !.shows = w.vehicle, !.pulled = <<w.vehicle, now>> ]
                    ELSE trailed
<1>1. "vehicles" \in Feeds /\ now \in Nat
  BY DEF Feeds, StateTyped
<1>2. Quiet(w, Interval(w, "vehicles"))
  BY <1>1, IntervalIs
<1>3. Quiet(Interval(w, "vehicles"), timed)
  <2>1. Interval(w, "vehicles") \in View
    BY <1>2 DEF Quiet
  <2>2. QED
    BY <1>1, <2>1, StampedIs
<1>4. Quiet(w, timed)
  BY <1>2, <1>3 DEF Quiet
<1>5. timed \in View
  BY <1>4 DEF Quiet
<1>6. ms \in Positive
  BY <1>1, <1>5, GlideMsIs
<1>7. VehicleGlides(w) = RecomputeLeg(eased)
  BY DEF VehicleGlides, Stamped, Trailed
<1> HIDE DEF timed, ms
<1>8. Quiet(timed, moved)
  BY <1>5, <1>6, MoveIs DEF Marker
<1>9. Quiet(w, moved)
  BY <1>4, <1>8 DEF Quiet
<1>10. timed.anims = w.anims
  <2>1. Interval(w, "vehicles").anims = w.anims
    BY DEF Interval, View
  <2>2. Interval(w, "vehicles") \in View
    BY <1>2 DEF Quiet
  <2>3. QED
    BY <1>1, <2>1, <2>2, StampedIs DEF timed
<1>11. \A v \in news : live[v] # None
  BY <1>5, <1>10, MovedOnly DEF Marker
<1>12. news \in SUBSET Vehicle
  OBVIOUS
<1> HIDE DEF moved, news
<1>13. moved \in View /\ ShortTrails(moved)
  BY <1>9 DEF Quiet, Others, ShortTrails
<1>14. /\ Steady(moved, trailed) /\ trailed.flight = moved.flight
       /\ trailed.shows = moved.shows /\ trailed.pulled = moved.pulled
  BY <1>11, <1>12, <1>13, TrailedIs
<1> HIDE DEF trailed
<1>15. /\ Steady(w, trailed) /\ trailed.flight = w.flight /\ trailed.shows = w.shows
       /\ trailed.pulled = w.pulled
  BY <1>9, <1>14 DEF Steady, Quiet, Stage, Subject, Route, Aim, Flying, Others
<1>16. trailed \in View /\ ShortTrails(trailed) /\ trailed.vehicle = w.vehicle
       /\ trailed.camera = w.camera
  BY <1>15 DEF Steady, Subject
<1>17. /\ Steady(w, eased)
       /\ \/ eased.flight = w.flight /\ eased.shows = w.shows /\ eased.pulled = w.pulled
          \/ /\ Follows(w, w.vehicle) /\ w.vehicle \in Vehicle
             /\ eased.shows = w.vehicle /\ eased.flight # None /\ now < eased.flight.ends
             /\ eased.pulled = <<w.vehicle, now>>
  <2>1. CASE w.vehicle \in news /\ Follows(w, w.vehicle)
    <3>1. eased = Eased(trailed, ms)
      BY <1>16, <2>1 DEF Eased
    <3> HIDE DEF eased
    <3>2. trailed.vehicle \in Vehicle /\ live[trailed.vehicle] # None
      BY <1>11, <1>12, <1>16, <2>1
    <3>3. /\ Steady(trailed, eased) /\ eased.shows = w.vehicle /\ eased.flight # None
          /\ now < eased.flight.ends /\ eased.pulled = <<w.vehicle, now>>
      BY <1>6, <1>16, <3>1, <3>2, EasedIs
    <3>4. Steady(w, eased)
      BY <1>15, <3>3 DEF Steady
    <3>5. QED
      BY <1>12, <2>1, <3>3, <3>4
  <2>2. CASE ~(w.vehicle \in news /\ Follows(w, w.vehicle))
    BY <1>15, <2>2
  <2>3. QED
    BY <2>1, <2>2
<1> HIDE DEF eased
<1> DEFINE t == RecomputeLeg(eased)
<1>18. eased \in View /\ eased.data = w.data
  BY <1>17 DEF Steady, Stage
<1>19. Calm(eased, t) /\ RoadRight(t, s.vehicle, Reports)
       /\ (~w.data => t.match = None /\ t.leg = None /\ t.info = None)
  BY <1>18, RecomputeIs
<1> HIDE DEF t
<1>20. Steady(w, t)
  BY <1>17, <1>19 DEF Steady, Calm, ShortTrails, Stage, Subject, Aim, Flying
<1>21. t.flight = eased.flight /\ t.shows = eased.shows /\ t.pulled = eased.pulled
  BY <1>19 DEF Calm, Flying, Aim
<1>22. VehicleGlidesAre(w, t)
  BY <1>17, <1>19, <1>20, <1>21 DEF VehicleGlidesAre
<1>23. QED
  BY <1>7, <1>22 DEF t

LEMMA RidersGlide ==
    ASSUME StateTyped, NEW w \in View
    PROVE  Quiet(w, RiderGlides(w))
<1> DEFINE timed == Stamped(Interval(w, "riders"), "riders")
           ms == GlideMsFor(timed, "riders")
           moved == MoveMarkers(timed, Rider, ms)
<1>1. "riders" \in Feeds /\ now \in Nat
  BY DEF Feeds, StateTyped
<1>2. Quiet(w, Interval(w, "riders"))
  BY <1>1, IntervalIs
<1>3. Quiet(Interval(w, "riders"), timed)
  <2>1. Interval(w, "riders") \in View
    BY <1>2 DEF Quiet
  <2>2. QED
    BY <1>1, <2>1, StampedIs
<1>4. Quiet(w, timed)
  BY <1>2, <1>3 DEF Quiet
<1>5. timed \in View
  BY <1>4 DEF Quiet
<1>6. ms \in Positive
  BY <1>1, <1>5, GlideMsIs
<1>7. RiderGlides(w) = moved
  BY DEF RiderGlides, Stamped
<1> HIDE DEF timed, ms
<1>8. Quiet(timed, moved)
  BY <1>5, <1>6, MoveIs DEF Marker
<1> HIDE DEF moved
<1>9. Quiet(w, moved)
  BY <1>4, <1>8 DEF Quiet
<1>10. QED
  BY <1>7, <1>9

----------------------------------------------------------------------------
\* The effects.

\* What the data, once loaded, make of a view.
Supplied(w, t) ==
    /\ t \in View /\ t.ready = w.ready /\ t.arrived = w.arrived
    /\ t.data = TRUE /\ t.roads = roads /\ t.revealed = (w.revealed \/ w.arrived)
    /\ Subject(t) = Subject(w) /\ RoadRight(t, s.vehicle, Reports)
    /\ t.camera = w.camera /\ t.userUntil = w.userUntil /\ t.focus = w.focus
    /\ t.trails = w.trails /\ t.pulled = w.pulled /\ Dressed(w, t)
    /\ IF w.revealed \/ ~w.arrived THEN Aim(t) = Aim(w) /\ t.hidden = w.hidden
       ELSE /\ t.had = Selected(s) /\ OutlineRight(t.hidden)
            /\ Selected(s) => Good(s, t.shows)
            /\ ~Selected(s) => t.shows = IF w.had THEN "home" ELSE w.shows
    /\ \/ Flying(t) = Flying(w)
       \/ t.flight # None /\ now < t.flight.ends /\ t.flight.ends < t.flightUntil

LEMMA DataIs ==
    ASSUME StateTyped, NEW w \in View, w.ready, known
    PROVE  Supplied(w, DataEffect(w))
<1> DEFINE x == [ w EXCEPT !.roads = roads, !.data = TRUE ]
           y == RecomputeLeg(x)
           t == RevealIfReady(y, now)
<1>1. DataEffect(w) = t
  BY DEF DataEffect
<1>2. roads \in Networks /\ now \in Nat
  BY DEF StateTyped
<1>3. x \in View
  BY <1>2 DEF View
<1>4. /\ x.ready = w.ready /\ x.data = TRUE /\ x.arrived = w.arrived /\ x.revealed = w.revealed
      /\ Subject(x) = Subject(w) /\ x.roads = roads /\ Aim(x) = Aim(w) /\ Flying(x) = Flying(w)
      /\ x.camera = w.camera /\ x.userUntil = w.userUntil /\ x.focus = w.focus
      /\ x.trails = w.trails /\ x.pulled = w.pulled /\ x.hidden = w.hidden
  BY DEF View, Subject, Aim, Flying
<1> HIDE DEF x
<1>5. Calm(x, y) /\ RoadRight(y, s.vehicle, Reports)
  BY <1>3, RecomputeIs
<1> HIDE DEF y
<1>6. y \in View
  BY <1>5 DEF Calm
<1>7. /\ y.ready = w.ready /\ y.data = TRUE /\ y.arrived = w.arrived /\ y.revealed = w.revealed
      /\ Subject(y) = Subject(w) /\ y.roads = roads /\ Aim(y) = Aim(w) /\ Flying(y) = Flying(w)
      /\ y.camera = w.camera /\ y.userUntil = w.userUntil /\ y.focus = w.focus
      /\ y.trails = w.trails /\ y.pulled = w.pulled /\ y.hidden = w.hidden
  BY <1>4, <1>5 DEF Calm, Stage
<1> DEFINE revealing == ~y.revealed /\ y.arrived /\ y.data
<1>8. /\ t \in View
      /\ t.ready = y.ready /\ t.data = y.data /\ t.arrived = y.arrived
      /\ t.revealed = (y.revealed \/ revealing)
      /\ ~revealing => t = y
      /\ revealing => t.had = Selected(s) /\ OutlineRight(t.hidden)
      /\ Subject(t) = Subject(y) /\ Route(t) = Route(y) /\ Others(t) = Others(y)
      /\ t.pulled = y.pulled
      /\ Dressed(y, t)
      /\ revealing /\ Selected(s) => Good(s, t.shows)
      /\ revealing /\ ~Selected(s) => t.shows = IF y.had THEN "home" ELSE y.shows
      /\ \/ Flying(t) = Flying(y)
         \/ t.flight # None /\ now < t.flight.ends /\ t.flight.ends < t.flightUntil
  BY <1>2, <1>6, RevealIs
<1> HIDE DEF t
<1>9. RoadRight(t, s.vehicle, Reports)
  BY <1>5, <1>7, <1>8 DEF RoadRight, Route
<1>10. w.revealed \in BOOLEAN /\ w.arrived \in BOOLEAN
  BY DEF View
<1>11. /\ t.ready = w.ready /\ t.arrived = w.arrived /\ t.data = TRUE /\ t.roads = roads
       /\ t.revealed = (w.revealed \/ w.arrived)
       /\ Subject(t) = Subject(w) /\ t.camera = w.camera /\ t.userUntil = w.userUntil
       /\ t.focus = w.focus /\ t.trails = w.trails /\ t.pulled = w.pulled
  BY <1>7, <1>8, <1>10 DEF Route, Others
<1>12. Dressed(w, t)
  BY <1>7, <1>8 DEF Dressed
<1>13. IF w.revealed \/ ~w.arrived THEN Aim(t) = Aim(w) /\ t.hidden = w.hidden
       ELSE /\ t.had = Selected(s) /\ OutlineRight(t.hidden)
            /\ Selected(s) => Good(s, t.shows)
            /\ ~Selected(s) => t.shows = IF w.had THEN "home" ELSE w.shows
  BY <1>7, <1>8, <1>10 DEF Aim
<1>14. \/ Flying(t) = Flying(w)
       \/ t.flight # None /\ now < t.flight.ends /\ t.flight.ends < t.flightUntil
  BY <1>7, <1>8
<1>15. QED
  BY <1>1, <1>8, <1>9, <1>11, <1>12, <1>13, <1>14 DEF Supplied

\* Where the camera is on its way, and the chip of a view that has come to rest.
Airborne(w, time) ==
    /\ w.flight # None => time <= w.flight.ends
    /\ w.ready /\ ~w.arrived => w.flight # None /\ w.flight.ends < w.flightUntil
    /\ ~w.ready => w.focus = None /\ ~w.arrived
    /\ w.flight = None /\ w.focus # None =>
          w.camera.near /\ RegionContains(w.focus, w.camera.center)

AimRight(w, sel) ==
    /\ w.revealed = (w.data /\ w.arrived)
    /\ w.revealed => w.had = Selected(sel) /\ Good(sel, w.shows)
    /\ ~w.revealed => ~w.had /\ w.shows \in { None, "home", "user" }

HiddenRight(w, on, region) ==
    w.ready => w.hidden = (Layers \ on) \cup IF region = None /\ Areal \in on THEN {} ELSE Outline

\* A map whose effects have not run yet.
Fresh(w) ==
    /\ ~w.ready /\ ~w.data /\ ~w.revealed /\ w.vehicle = None /\ ~w.follow
    /\ w.leg = None /\ w.match = None /\ ~w.had /\ w.shows \in { None, "home", "user" }

\* The map is what its effects, last run with r, make of it.
Caught(w, r) ==
    /\ w.follow = r.s.follow /\ w.vehicle = IdOf(r.s.vehicle)
    /\ w.data = (w.ready /\ r.known) /\ (w.data => w.roads = r.roads)
    /\ RoadRight(w, r.s.vehicle, r.vehicles)
    /\ AimRight(w, r.s)
    /\ HiddenRight(w, r.layers, r.s.region)

Mounted ==
    view # None =>
        /\ view \in View /\ ShortTrails(view) /\ view.asks = {}
        /\ Airborne(view, now)
        /\ rendered = None => Fresh(view)
        /\ rendered # None => Caught(view, rendered) /\ (rendered.known => known)

\* Between two effects: each part is as it should be now, or still as it was drawn.
OutlineWas(hidden) ==
    "region-focus" \in hidden <=> ~(rendered.s.region = None /\ Areal \in rendered.layers)

RoadUnderway(w) ==
    \/ RoadRight(w, s.vehicle, Reports)
    \/ rendered # None /\ RoadRight(w, rendered.s.vehicle, rendered.vehicles)

AimUnderway(w) ==
    /\ w.revealed = (w.data /\ w.arrived)
    /\ ~w.revealed => ~w.had /\ w.shows \in { None, "home", "user" }
    /\ w.revealed =>
         /\ rendered # None /\ w.had \in { Selected(s), Selected(rendered.s) }
         /\ \/ Good(s, w.shows)
            \/ w.had = Selected(rendered.s) /\ Good(rendered.s, w.shows)

HiddenUnderway(w, on) ==
    w.ready =>
        /\ rendered # None /\ w.hidden \ Outline = Layers \ on
        /\ OutlineRight(w.hidden) \/ (on = rendered.layers /\ OutlineWas(w.hidden))

PullUnderway(w) ==
    /\ w.userUntil = view.userUntil
    /\ w.flightUntil = view.flightUntil \/ now < w.flightUntil
    /\ \/ w.pulled = view.pulled
       \/ /\ s.follow /\ now > view.userUntil /\ now > view.flightUntil
          /\ s.vehicle # None /\ w.pulled[1] = s.vehicle.id

Underway(w, on) ==
    /\ w \in View /\ ShortTrails(w) /\ Airborne(w, now) /\ w.ready = view.ready
    /\ w.data = (w.ready /\ known) /\ (w.data => w.roads = roads)
    /\ RoadUnderway(w) /\ AimUnderway(w) /\ HiddenUnderway(w, on) /\ PullUnderway(w)

Drawn == IF rendered = None THEN layers ELSE rendered.layers

\* What the selection is when the effects run.
SelectionRight ==
    /\ s.vehicle # None => s.node = None /\ s.tracking = None
    /\ ~known => s = NoSelection

LEMMA RenderedIs ==
    ASSUME StateTyped, rendered # None
    PROVE  /\ rendered \in Dependencies /\ rendered.s \in Selections
           /\ rendered.known \in BOOLEAN /\ rendered.layers \in SUBSET Layers
           /\ rendered.roads \in Networks
           /\ rendered.vehicles \in [ Vehicle -> Maybe(Update) ]
<1>1. rendered \in Dependencies
  BY DEF StateTyped, Maybe
<1>2. QED
  BY <1>1 DEF Dependencies, SetOf

LEMMA AirborneKept ==
    ASSUME NEW w, NEW t, Airborne(w, now), now \in Nat, t \in View,
           t.ready = w.ready, t.arrived = w.arrived, t.focus = w.focus, t.camera = w.camera,
           \/ Flying(t) = Flying(w)
           \/ t.flight # None /\ now < t.flight.ends /\ t.flight.ends < t.flightUntil
    PROVE  Airborne(t, now)
<1>1. CASE Flying(t) = Flying(w)
  BY <1>1 DEF Airborne, Flying
<1>2. CASE t.flight # None /\ now < t.flight.ends /\ t.flight.ends < t.flightUntil
  <2>1. t.flight.ends \in Nat
    BY <1>2 DEF View, Maybe, Flights
  <2>2. QED
    BY <1>2, <2>1 DEF Airborne
<1>3. QED
  BY <1>1, <1>2

LEMMA StartIsUnderway ==
    ASSUME StateTyped, view # None, Mounted, view.data = (view.ready /\ known),
           rendered # None => (view.data => view.roads = roads)
    PROVE  Underway(view, Drawn)
<1>1. view \in View /\ ShortTrails(view) /\ Airborne(view, now)
  BY DEF Mounted
<1>2. RoadUnderway(view) /\ AimUnderway(view) /\ HiddenUnderway(view, Drawn)
  <2>1. CASE rendered = None
    <3>1. Fresh(view)
      BY <2>1 DEF Mounted
    <3>2. view.revealed \in BOOLEAN /\ view.data \in BOOLEAN
      BY <1>1 DEF View
    <3>3. RoadUnderway(view)
      BY <3>1 DEF Fresh, RoadUnderway, RoadRight
    <3>4. AimUnderway(view)
      BY <3>1, <3>2 DEF Fresh, AimUnderway
    <3>5. HiddenUnderway(view, Drawn)
      BY <3>1 DEF Fresh, HiddenUnderway
    <3>6. QED
      BY <3>3, <3>4, <3>5
  <2>2. CASE rendered # None
    <3>1. Caught(view, rendered)
      BY <2>2 DEF Mounted
    <3>2. RoadUnderway(view) /\ AimUnderway(view)
      BY <2>2, <3>1 DEF Caught, RoadUnderway, AimUnderway, AimRight
    <3>3. HiddenUnderway(view, Drawn)
      BY <2>2, <3>1, UserAssumption
         DEF Caught, HiddenRight, HiddenUnderway, Drawn, Outline, OutlineWas
    <3>4. QED
      BY <3>2, <3>3
  <2>3. QED
    BY <2>1, <2>2
<1>3. view.data => view.roads = roads
  <2>1. rendered = None => ~view.data
    BY DEF Mounted, Fresh
  <2>2. QED
    BY <2>1
<1>4. PullUnderway(view)
  BY DEF PullUnderway
<1>5. QED
  BY <1>1, <1>2, <1>3, <1>4 DEF Underway

LEMMA WhenDataIs ==
    ASSUME StateTyped, view # None, Mounted
    PROVE  Underway(WhenData(view), Drawn) /\ Subject(WhenData(view)) = Subject(view)
<1>1. view \in View /\ view.ready \in BOOLEAN /\ view.data \in BOOLEAN /\ known \in BOOLEAN
  BY DEF Mounted, View, StateTyped
<1>2. Deps.known = known /\ Deps.roads = roads
  BY DEF Deps
<1>3. rendered # None => rendered.known \in BOOLEAN
  BY RenderedIs
<1>4. CASE ~(Changed("known") \/ Changed("roads"))
  <2>1. rendered # None /\ rendered.known = known /\ rendered.roads = roads
    BY <1>2, <1>4 DEF Changed
  <2>2. view.data = (view.ready /\ known) /\ (view.data => view.roads = roads)
    BY <2>1 DEF Mounted, Caught
  <2>3. Underway(view, Drawn)
    BY <2>2, StartIsUnderway
  <2>4. QED
    BY <1>4, <2>3 DEF WhenData
<1>5. CASE (Changed("known") \/ Changed("roads")) /\ ~(view.ready /\ known)
  <2>1. ~view.data
    BY <1>1, <1>3, <1>5 DEF Mounted, Caught, Fresh
  <2>2. Underway(view, Drawn)
    BY <1>1, <1>5, <2>1, StartIsUnderway
  <2>3. WhenData(view) = view
    BY <1>5 DEF WhenData, DataEffect
  <2>4. QED
    BY <2>2, <2>3
<1>6. CASE (Changed("known") \/ Changed("roads")) /\ view.ready /\ known
  <2> DEFINE t == DataEffect(view)
  <2>1. WhenData(view) = t
    BY <1>6 DEF WhenData
  <2>2. Supplied(view, t)
    BY <1>1, <1>6, DataIs
  <2> HIDE DEF t
  <2>3. rendered # None /\ Caught(view, rendered)
    BY <1>6 DEF Mounted, Fresh
  <2>4. now \in Nat /\ t \in View
    BY <2>2 DEF StateTyped, Supplied
  <2>5. Airborne(t, now)
    BY <2>2, <2>4, AirborneKept DEF Mounted, Supplied
  <2>6. ShortTrails(t) /\ t.ready = view.ready /\ t.data = (t.ready /\ known)
        /\ t.roads = roads /\ RoadUnderway(t)
    BY <1>6, <2>2 DEF Supplied, Mounted, ShortTrails, RoadUnderway
  <2>7. AimUnderway(t)
    <3>0. view.revealed \in BOOLEAN /\ view.arrived \in BOOLEAN /\ view.had \in BOOLEAN
      BY <1>1 DEF View
    <3>1. AimRight(view, rendered.s)
      BY <2>3 DEF Caught
    <3>2. t.revealed = (t.data /\ t.arrived)
      BY <2>2, <3>0, <3>1 DEF Supplied, AimRight
    <3>3. CASE view.revealed
      BY <2>2, <2>3, <3>1, <3>2, <3>3 DEF Supplied, AimUnderway, AimRight, Aim
    <3>4. CASE ~view.revealed /\ ~view.arrived
      BY <2>2, <2>3, <3>1, <3>2, <3>4 DEF Supplied, AimUnderway, AimRight, Aim
    <3>5. CASE ~view.revealed /\ view.arrived
      <4>1. t.had = Selected(s) /\ Good(s, t.shows)
        <5>1. CASE Selected(s)
          BY <2>2, <3>5, <5>1 DEF Supplied
        <5>2. CASE ~Selected(s)
          <6>1. t.had = Selected(s) /\ t.shows \in { None, "home", "user" }
            BY <2>2, <3>1, <3>5, <5>2 DEF Supplied, AimRight
          <6>2. QED
            BY <5>2, <6>1 DEF Good, Selected
        <5>3. QED
          BY <5>1, <5>2
      <4>2. t.revealed
        BY <2>2, <3>5 DEF Supplied
      <4>3. QED
        BY <2>3, <3>2, <4>1, <4>2 DEF AimUnderway
    <3>6. QED
      BY <3>0, <3>3, <3>4, <3>5
  <2>8. HiddenUnderway(t, Drawn)
    <3>1. view.hidden \ Outline = Layers \ Drawn /\ OutlineWas(view.hidden)
      BY <1>6, <2>3, UserAssumption
         DEF Caught, HiddenRight, Drawn, Outline, OutlineWas
    <3>2. Dressed(view, t)
      BY <2>2 DEF Supplied
    <3>3. QED
      BY <2>3, <3>1, <3>2 DEF HiddenUnderway, Dressed, Drawn
  <2>9. PullUnderway(t)
    <3>1. \/ Flying(t) = Flying(view)
          \/ t.flight # None /\ now < t.flight.ends /\ t.flight.ends < t.flightUntil
      BY <2>2 DEF Supplied
    <3>2. t.flightUntil \in Nat /\ (t.flight # None => t.flight.ends \in Nat)
      BY <2>4 DEF View, Maybe, Flights
    <3>3. t.flightUntil = view.flightUntil \/ now < t.flightUntil
      BY <2>4, <3>1, <3>2 DEF Flying
    <3>4. QED
      BY <2>2, <3>3 DEF Supplied, PullUnderway
  <2>10. QED
    BY <2>1, <2>2, <2>4, <2>5, <2>6, <2>7, <2>8, <2>9 DEF Underway, Supplied
<1>7. QED
  BY <1>1, <1>4, <1>5, <1>6
\* A step of the effects that dresses the map leaves the rest as it is.
LEMMA DressedUnderway ==
    ASSUME NEW on, NEW w, Underway(w, on), NEW t, t \in View, Alike(w, t), Dressed(w, t)
    PROVE  Underway(t, on)
<1>1. /\ t.ready = w.ready /\ t.data = w.data /\ t.arrived = w.arrived /\ t.revealed = w.revealed
      /\ t.roads = w.roads /\ t.leg = w.leg /\ t.match = w.match /\ t.info = w.info
      /\ t.had = w.had /\ t.shows = w.shows /\ t.flight = w.flight
      /\ t.flightUntil = w.flightUntil /\ t.camera = w.camera /\ t.userUntil = w.userUntil
      /\ t.focus = w.focus /\ t.trails = w.trails /\ t.pulled = w.pulled
  BY DEF Alike, Stage, Route, Aim, Flying, Others
<1>2. ShortTrails(t) /\ Airborne(t, now) /\ t.data = (t.ready /\ known)
      /\ (t.data => t.roads = roads) /\ t.ready = view.ready
  BY <1>1 DEF Underway, ShortTrails, Airborne
<1>3. RoadUnderway(t)
  BY <1>1 DEF Underway, RoadUnderway, RoadRight
<1>4. AimUnderway(t)
  BY <1>1 DEF Underway, AimUnderway
<1>5. HiddenUnderway(t, on)
  BY <1>1 DEF Underway, HiddenUnderway, Dressed
<1>6. PullUnderway(t)
  BY <1>1 DEF Underway, PullUnderway
<1>7. QED
  BY <1>2, <1>3, <1>4, <1>5, <1>6 DEF Underway

LEMMA WhenOutlinesIs ==
    ASSUME NEW on, NEW w, Underway(w, on)
    PROVE  Underway(WhenOutlines(w), on) /\ Subject(WhenOutlines(w)) = Subject(w)
<1>1. w \in View
  BY DEF Underway
<1> DEFINE t == ApplyRegionVisuals(w)
<1>2. t \in View /\ Alike(w, t) /\ Dressed(w, t)
  BY <1>1, VisualsAre
<1>3. Underway(t, on) /\ Subject(t) = Subject(w)
  BY <1>2, DressedUnderway DEF Alike
<1>4. QED
  BY <1>3 DEF WhenOutlines

LEMMA WhenRegionIs ==
    ASSUME NEW on, NEW w, Underway(w, on)
    PROVE  /\ Underway(WhenRegion(w), on) /\ Subject(WhenRegion(w)) = Subject(w)
           /\ Route(WhenRegion(w)) = Route(w)
           /\ w.ready /\ Picked("region") => OutlineRight(WhenRegion(w).hidden)
<1>1. w \in View
  BY DEF Underway
<1> DEFINE t == ApplyRegionVisuals(w)
<1>2. t \in View /\ Alike(w, t) /\ Dressed(w, t) /\ OutlineRight(t.hidden)
  BY <1>1, VisualsAre
<1>3. Underway(t, on) /\ Subject(t) = Subject(w) /\ Route(t) = Route(w)
  BY <1>2, DressedUnderway DEF Alike
<1>4. QED
  BY <1>2, <1>3 DEF WhenRegion

LEMMA LayersAre ==
    ASSUME StateTyped, NEW w \in View, w.ready
    PROVE  LET t == LayersEffect(w)
           IN  /\ t \in View /\ Alike(w, t)
               /\ t.hidden \ Outline = Layers \ layers /\ OutlineRight(t.hidden)
<1> DEFINE h == (Layers \ layers) \cup (IF Areal \in layers THEN {} ELSE { "region-focus" })
           switched == [ w EXCEPT !.hidden = h ]
           t == LayersEffect(w)
<1>1. h \in SetOf(Hidden) /\ h \ Outline = Layers \ layers
      /\ (Areal \notin layers => OutlineRight(h))
  BY UserAssumption DEF SetOf, Hidden, Outline, OutlineRight
<1>2. t = IF Areal \in layers THEN ApplyRegionVisuals(switched) ELSE switched
  BY DEF LayersEffect
<1> HIDE DEF h, t
<1>3. switched \in View
  BY <1>1 DEF View
<1>4. Alike(w, switched) /\ switched.hidden = h
  BY DEF View, Alike, Stage, Subject, Route, Others, Aim, Flying
<1> HIDE DEF switched
<1>5. CASE Areal \in layers
  <2>1. t \in View /\ Alike(switched, t) /\ Dressed(switched, t) /\ OutlineRight(t.hidden)
    BY <1>2, <1>3, <1>5, VisualsAre
  <2>2. Alike(w, t)
    BY <1>4, <2>1 DEF Alike
  <2>3. QED
    BY <1>1, <1>4, <2>1, <2>2 DEF Dressed, t
<1>6. CASE Areal \notin layers
  BY <1>1, <1>2, <1>3, <1>4, <1>6 DEF t
<1>7. QED
  BY <1>5, <1>6

LEMMA WhenLayersIs ==
    ASSUME StateTyped, NEW w, Underway(w, Drawn)
    PROVE  Underway(WhenLayers(w), layers) /\ Subject(WhenLayers(w)) = Subject(w)
<1> DEFINE t == LayersEffect(w)
<1>1. w \in View /\ w.ready \in BOOLEAN
  BY DEF Underway, View
<1>2. Deps.layers = layers
  BY DEF Deps
<1>3. CASE ~w.ready
  <2>1. Underway(w, layers)
    BY <1>3 DEF Underway, HiddenUnderway
  <2>2. QED
    BY <1>3, <2>1 DEF WhenLayers, LayersEffect
<1>4. CASE w.ready /\ Changed("layers")
  <2>1. t \in View /\ Alike(w, t) /\ t.hidden \ Outline = Layers \ layers /\ OutlineRight(t.hidden)
    BY <1>1, <1>4, LayersAre
  <2>2. rendered # None
    BY <1>4 DEF Underway, HiddenUnderway
  <2>3. /\ t.ready = w.ready /\ t.data = w.data /\ t.arrived = w.arrived
        /\ t.revealed = w.revealed /\ t.roads = w.roads /\ t.leg = w.leg /\ t.match = w.match
        /\ t.info = w.info /\ t.had = w.had /\ t.shows = w.shows /\ t.flight = w.flight
        /\ t.flightUntil = w.flightUntil /\ t.camera = w.camera /\ t.userUntil = w.userUntil
        /\ t.focus = w.focus /\ t.trails = w.trails /\ t.pulled = w.pulled
        /\ Subject(t) = Subject(w)
    BY <2>1 DEF Alike, Stage, Route, Aim, Flying, Others
  <2>4. WhenLayers(w) = t
    BY <1>4 DEF WhenLayers
  <2> HIDE DEF t
  <2>5. ShortTrails(t) /\ Airborne(t, now) /\ t.data = (t.ready /\ known)
        /\ (t.data => t.roads = roads) /\ t.ready = view.ready
    BY <2>3 DEF Underway, ShortTrails, Airborne
  <2>6. RoadUnderway(t)
    BY <2>3 DEF Underway, RoadUnderway, RoadRight
  <2>7. AimUnderway(t) /\ PullUnderway(t)
    BY <2>3 DEF Underway, AimUnderway, PullUnderway
  <2>8. HiddenUnderway(t, layers)
    BY <2>1, <2>2 DEF HiddenUnderway
  <2>9. QED
    BY <2>1, <2>3, <2>4, <2>5, <2>6, <2>7, <2>8 DEF Underway
<1>5. CASE w.ready /\ ~Changed("layers")
  <2>1. rendered # None /\ rendered.layers = layers
    BY <1>2, <1>5 DEF Changed
  <2>2. Drawn = layers
    BY <2>1 DEF Drawn
  <2>3. QED
    BY <1>5, <2>2 DEF WhenLayers
<1>6. QED
  BY <1>1, <1>3, <1>4, <1>5

\* A step of the effects that leaves the camera and the layers alone.
LEMMA UnderwayKept ==
    ASSUME NEW on, NEW w, Underway(w, on), NEW t, t \in View,
           Stage(t) = Stage(w), t.roads = w.roads, Aim(t) = Aim(w), Flying(t) = Flying(w),
           t.hidden = w.hidden, t.pulled = w.pulled, t.camera = w.camera,
           t.userUntil = w.userUntil, t.focus = w.focus, ShortTrails(t), RoadUnderway(t)
    PROVE  Underway(t, on)
<1>1. /\ t.ready = w.ready /\ t.data = w.data /\ t.arrived = w.arrived /\ t.revealed = w.revealed
      /\ t.had = w.had /\ t.shows = w.shows /\ t.flight = w.flight
      /\ t.flightUntil = w.flightUntil
  BY DEF Stage, Aim, Flying
<1>2. Airborne(t, now) /\ t.data = (t.ready /\ known)
      /\ (t.data => t.roads = roads) /\ t.ready = view.ready
  BY <1>1 DEF Underway, Airborne
<1>3. AimUnderway(t) /\ HiddenUnderway(t, on) /\ PullUnderway(t)
  BY <1>1 DEF Underway, AimUnderway, HiddenUnderway, PullUnderway
<1>4. QED
  BY <1>2, <1>3 DEF Underway

RoadNow(w) == RoadRight(w, s.vehicle, Reports)

LEMMA CalmUnderway ==
    ASSUME NEW on, NEW w, Underway(w, on), NEW t, Calm(w, t), RoadNow(t)
    PROVE  Underway(t, on) /\ Subject(t) = Subject(w)
<1>1. ShortTrails(t)
  BY DEF Underway, ShortTrails, Calm
<1>2. QED
  BY <1>1, UnderwayKept DEF Calm, RoadUnderway, RoadNow

LEMMA IdOfIs ==
    ASSUME StateTyped
    PROVE  IdOf(s.vehicle) \in Maybe(Vehicle)
BY SelectedReport DEF IdOf, Maybe

Showing(w, id) == [ w EXCEPT !.vehicle = id ]
Trailing(w, on) == [ w EXCEPT !.follow = on ]

LEMMA WhenVehicleIs ==
    ASSUME StateTyped, view # None, Mounted, NEW on, NEW w, Underway(w, on),
           w.vehicle = view.vehicle
    PROVE  LET t == WhenVehicle(w)
           IN  /\ Underway(t, on) /\ t.vehicle = IdOf(s.vehicle)
               /\ Picked("vehicle") => RoadNow(t)
<1> DEFINE id == IdOf(s.vehicle)
           x == Showing(w, id)
           y == RecomputeLeg(x)
<1>1. w \in View /\ id \in Maybe(Vehicle)
  BY IdOfIs DEF Underway
<1>2. CASE ~Picked("vehicle")
  <2>1. rendered # None /\ s.vehicle = rendered.s.vehicle
    BY <1>2 DEF Picked
  <2>2. w.vehicle = IdOf(s.vehicle)
    BY <2>1 DEF Mounted, Caught
  <2>3. QED
    BY <1>2, <2>2 DEF WhenVehicle
<1>3. CASE Picked("vehicle")
  <2>1. WhenVehicle(w) = y
    BY <1>3 DEF WhenVehicle, Showing
  <2> HIDE DEF id
  <2>2. x \in View
    BY <1>1 DEF View, Showing
  <2>3. /\ Stage(x) = Stage(w) /\ Route(x) = Route(w) /\ x.roads = w.roads /\ Aim(x) = Aim(w)
        /\ Flying(x) = Flying(w) /\ x.hidden = w.hidden /\ x.pulled = w.pulled
        /\ x.camera = w.camera /\ x.userUntil = w.userUntil /\ x.focus = w.focus
        /\ x.trails = w.trails /\ x.data = w.data /\ x.vehicle = id
    BY <1>1 DEF View, Showing, Stage, Route, Aim, Flying
  <2> HIDE DEF x
  <2>4. ShortTrails(x) /\ RoadUnderway(x)
    BY <2>3 DEF Underway, ShortTrails, RoadUnderway, RoadRight, Route
  <2>5. Underway(x, on)
    BY <2>2, <2>3, <2>4, UnderwayKept
  <2>6. Calm(x, y) /\ RoadNow(y)
    BY <2>2, RecomputeIs DEF RoadNow
  <2> HIDE DEF y
  <2>7. Underway(y, on) /\ Subject(y) = Subject(x)
    BY <2>5, <2>6, CalmUnderway
  <2>8. y.vehicle = id
    BY <2>3, <2>7 DEF Subject
  <2>9. QED
    BY <2>1, <2>6, <2>7, <2>8 DEF id
<1>4. QED
  BY <1>2, <1>3

LEMMA WhenFollowIs ==
    ASSUME StateTyped, NEW on, NEW w, Underway(w, on)
    PROVE  LET t == WhenFollow(w)
           IN  /\ Underway(t, on) /\ t.vehicle = w.vehicle /\ t.follow = s.follow
               /\ RoadNow(w) => RoadNow(t)
<1> DEFINE f == s.follow
           t == Trailing(w, f)
<1>1. WhenFollow(w) = t
  BY DEF WhenFollow, Trailing
<1>2. f \in BOOLEAN /\ w \in View
  BY DEF StateTyped, Selections, Underway
<1> HIDE DEF f
<1>3. t \in View
  BY <1>2 DEF View, Trailing
<1>4. /\ Stage(t) = Stage(w) /\ Route(t) = Route(w) /\ t.roads = w.roads /\ Aim(t) = Aim(w)
      /\ Flying(t) = Flying(w) /\ t.hidden = w.hidden /\ t.pulled = w.pulled
      /\ t.camera = w.camera /\ t.userUntil = w.userUntil /\ t.focus = w.focus
      /\ t.trails = w.trails /\ t.vehicle = w.vehicle /\ t.follow = f /\ t.data = w.data
  BY <1>2 DEF View, Trailing, Stage, Route, Aim, Flying
<1> HIDE DEF t
<1>5. ShortTrails(t) /\ RoadUnderway(t) /\ (RoadNow(w) => RoadNow(t))
  BY <1>4 DEF Underway, ShortTrails, RoadUnderway, RoadNow, RoadRight, Route
<1>6. Underway(t, on)
  BY <1>3, <1>4, <1>5, UnderwayKept
<1>7. QED
  BY <1>1, <1>4, <1>5, <1>6 DEF f

LEMMA WhenVehiclesIs ==
    ASSUME StateTyped, SelectionRight, NEW on, NEW w, Underway(w, on),
           w.vehicle = IdOf(s.vehicle), w.follow = s.follow
    PROVE  LET t == WhenVehicles(w)
           IN  /\ Underway(t, on) /\ Subject(t) = Subject(w)
               /\ RoadNow(w) \/ Changed("vehicles") => RoadNow(t)
<1> DEFINE t == VehicleGlides(w)
<1>1. CASE ~Changed("vehicles")
  BY <1>1 DEF WhenVehicles
<1>2. CASE Changed("vehicles")
  <2>1. w \in View /\ ShortTrails(w) /\ now \in Nat
    BY DEF Underway, StateTyped
  <2>2. VehicleGlidesAre(w, t)
    BY <2>1, VehiclesGlide
  <2>3. WhenVehicles(w) = t
    BY <1>2 DEF WhenVehicles
  <2> HIDE DEF t
  <2>4. Steady(w, t) /\ RoadNow(t) /\ RoadUnderway(t)
    BY <2>2 DEF VehicleGlidesAre, RoadNow, RoadUnderway
  <2>5. /\ t.ready = w.ready /\ t.data = w.data /\ t.arrived = w.arrived
        /\ t.revealed = w.revealed /\ Subject(t) = Subject(w)
        /\ t.roads = w.roads /\ t.had = w.had /\ t.hidden = w.hidden /\ t.camera = w.camera
        /\ t.userUntil = w.userUntil /\ t.focus = w.focus /\ t.flightUntil = w.flightUntil
        /\ t \in View /\ ShortTrails(t)
    BY <2>4 DEF Steady, Stage
  <2>6. Underway(t, on)
    <3>1. CASE t.flight = w.flight /\ t.shows = w.shows /\ t.pulled = w.pulled
      <4>1. Aim(t) = Aim(w) /\ Flying(t) = Flying(w) /\ Stage(t) = Stage(w)
        BY <2>5, <3>1 DEF Aim, Flying, Stage
      <4>2. QED
        BY <2>4, <2>5, <3>1, <4>1, UnderwayKept
    <3>2. CASE /\ Follows(w, w.vehicle) /\ w.vehicle \in Vehicle
               /\ t.shows = w.vehicle /\ t.flight # None /\ now < t.flight.ends
               /\ t.pulled = <<w.vehicle, now>>
      <4>1. s.vehicle # None /\ w.vehicle = s.vehicle.id
        BY <3>2, SentinelAssumption DEF IdOf
      <4>2. s.node = None /\ s.tracking = None /\ known
        BY <4>1 DEF SelectionRight, NoSelection
      <4>3. w.ready /\ s.follow /\ now > w.flightUntil /\ now > w.userUntil
        BY <3>2 DEF Follows
      <4>4. /\ w.flightUntil \in Nat /\ (w.flight # None => w.flight.ends \in Nat)
            /\ w.arrived \in BOOLEAN /\ (t.flight # None => t.flight.ends \in Nat)
        BY <2>1, <2>5 DEF View, Maybe, Flights
      <4>5. w.arrived
        BY <2>1, <4>3, <4>4 DEF Underway, Airborne
      <4>6. w.revealed
        BY <4>2, <4>3, <4>5 DEF Underway, AimUnderway
      <4>7. Airborne(t, now)
        BY <2>1, <2>5, <3>2, <4>3, <4>4, <4>5 DEF Airborne
      <4>8. Good(s, t.shows)
        BY <3>2, <4>1, <4>2 DEF Good
      <4>9. AimUnderway(t)
        BY <2>5, <4>6, <4>8 DEF Underway, AimUnderway
      <4>10. HiddenUnderway(t, on)
        BY <2>5 DEF Underway, HiddenUnderway
      <4>11. PullUnderway(t)
        <5>1. w.flightUntil = view.flightUntil /\ w.userUntil = view.userUntil
          BY <2>1, <4>3, <4>4 DEF Underway, PullUnderway
        <5>2. t.pulled[1] = s.vehicle.id
          BY <3>2, <4>1
        <5>3. QED
          BY <2>5, <4>1, <4>3, <5>1, <5>2 DEF PullUnderway
      <4>12. QED
        BY <2>4, <2>5, <4>7, <4>9, <4>10, <4>11 DEF Underway
    <3>3. QED
      BY <2>2, <3>1, <3>2 DEF VehicleGlidesAre
  <2>7. QED
    BY <2>3, <2>4, <2>5, <2>6
<1>3. QED
  BY <1>1, <1>2

LEMMA WhenRidersIs ==
    ASSUME StateTyped, NEW on, NEW w, Underway(w, on)
    PROVE  LET t == WhenRiders(w)
           IN  Underway(t, on) /\ Subject(t) = Subject(w) /\ (RoadNow(w) => RoadNow(t))
<1> DEFINE t == RiderGlides(w)
<1>1. CASE ~Changed("riders")
  BY <1>1 DEF WhenRiders
<1>2. CASE Changed("riders")
  <2>1. w \in View
    BY DEF Underway
  <2>2. Quiet(w, t)
    BY <2>1, RidersGlide
  <2>3. WhenRiders(w) = t
    BY <1>2 DEF WhenRiders
  <2> HIDE DEF t
  <2>4. /\ t.roads = w.roads /\ t.leg = w.leg /\ t.match = w.match /\ t.info = w.info
        /\ t.data = w.data /\ t.camera = w.camera /\ t.userUntil = w.userUntil
        /\ t.focus = w.focus /\ t.trails = w.trails
    BY <2>2 DEF Quiet, Route, Stage, Others
  <2>5. ShortTrails(t) /\ RoadUnderway(t) /\ (RoadNow(w) => RoadNow(t))
    BY <2>4 DEF Underway, ShortTrails, RoadUnderway, RoadNow, RoadRight
  <2>6. Underway(t, on)
    BY <2>2, <2>4, <2>5, UnderwayKept DEF Quiet
  <2>7. QED
    BY <2>2, <2>3, <2>5, <2>6 DEF Quiet
<1>3. QED
  BY <1>1, <1>2

\* Once the last of the layers' effects has run.
LEMMA HiddenInTheEnd ==
    ASSUME StateTyped, NEW w, Underway(w, layers)
    PROVE  LET t == WhenRegion(w)
           IN  /\ Underway(t, layers) /\ Subject(t) = Subject(w) /\ (RoadNow(w) => RoadNow(t))
               /\ HiddenRight(t, layers, s.region)
<1> DEFINE t == WhenRegion(w)
<1>1. /\ Underway(t, layers) /\ Subject(t) = Subject(w) /\ Route(t) = Route(w)
      /\ w.ready /\ Picked("region") => OutlineRight(t.hidden)
  BY WhenRegionIs
<1> HIDE DEF t
<1>2. t.data = w.data /\ t.ready = w.ready /\ t \in View
  BY <1>1 DEF Underway
<1>3. RoadNow(w) => RoadNow(t)
  BY <1>1, <1>2 DEF RoadNow, RoadRight, Route
<1>4. HiddenRight(t, layers, s.region)
  <2> SUFFICES ASSUME t.ready
               PROVE  t.hidden = (Layers \ layers)
                                 \cup IF s.region = None /\ Areal \in layers THEN {} ELSE Outline
    BY DEF HiddenRight
  <2>1. rendered # None /\ t.hidden \ Outline = Layers \ layers
        /\ (OutlineRight(t.hidden) \/ (layers = rendered.layers /\ OutlineWas(t.hidden)))
    BY <1>1 DEF Underway, HiddenUnderway
  <2>2. OutlineRight(t.hidden)
    BY <1>1, <1>2, <2>1 DEF Picked, OutlineRight, OutlineWas
  <2>3. t.hidden \subseteq Hidden
    BY <1>2 DEF View, SetOf
  <2>4. QED
    BY <2>1, <2>2, <2>3, UserAssumption DEF OutlineRight, Outline, Hidden
<1>5. QED
  BY <1>1, <1>3, <1>4 DEF t

LEMMA AimInTheEnd ==
    ASSUME StateTyped, NEW w, Underway(w, layers)
    PROVE  LET t == WhenAim(w)
           IN  /\ t \in View /\ ShortTrails(t) /\ Airborne(t, now) /\ PullUnderway(t)
               /\ t.data = (t.ready /\ known) /\ (t.data => t.roads = roads)
               /\ Subject(t) = Subject(w) /\ (RoadNow(w) => RoadNow(t))
               /\ t.hidden = w.hidden /\ t.ready = w.ready
               /\ AimRight(t, s)
<1> DEFINE aim == \/ rendered = None
                  \/ IdOf(s.vehicle) # IdOf(rendered.s.vehicle)
                  \/ \E f \in { "node", "tracking", "region" } : Picked(f)
           t == ApplyCamera(w, now)
<1>1. w \in View /\ now \in Nat
  BY DEF Underway, StateTyped
<1>2. CASE ~(w.ready /\ w.revealed /\ aim)
  <2>1. WhenAim(w) = w
    BY <1>2 DEF WhenAim
  <2>2. w.data \in BOOLEAN /\ w.ready \in BOOLEAN /\ w.revealed \in BOOLEAN /\ w.had \in BOOLEAN
    BY <1>1 DEF View
  <2>3. CASE ~w.revealed
    BY <2>1, <2>3 DEF Underway, AimUnderway, AimRight
  <2>4. CASE w.revealed
    <3>1. w.ready /\ ~aim
      BY <1>2, <2>2, <2>4 DEF Underway, AimUnderway
    <3>2. /\ IdOf(s.vehicle) = IdOf(rendered.s.vehicle)
          /\ s.node = rendered.s.node /\ s.tracking = rendered.s.tracking
          /\ s.region = rendered.s.region
      BY <3>1 DEF Picked
    <3>3. rendered # None
      BY <3>1
    <3>4. rendered.s \in Selections /\ s \in Selections
      BY <3>3, RenderedIs DEF StateTyped
    <3>5. (s.vehicle # None => s.vehicle.id \in Vehicle)
          /\ (rendered.s.vehicle # None => rendered.s.vehicle.id \in Vehicle)
      BY <3>4 DEF Selections, Maybe, Row
    <3>6. (s.vehicle = None) = (rendered.s.vehicle = None)
          /\ (s.vehicle # None => s.vehicle.id = rendered.s.vehicle.id)
      BY <3>2, <3>5, SentinelAssumption DEF IdOf
    <3>7. Selected(s) = Selected(rendered.s)
      BY <3>2, <3>6 DEF Selected
    <3>8. Good(rendered.s, w.shows) => Good(s, w.shows)
      BY <3>2, <3>6 DEF Good
    <3>9. AimRight(w, s)
      BY <2>4, <3>7, <3>8 DEF Underway, AimUnderway, AimRight
    <3>10. QED
      BY <2>1, <3>9 DEF Underway
  <2>5. QED
    BY <2>2, <2>3, <2>4
<1>3. CASE w.ready /\ w.revealed /\ aim
  <2>1. WhenAim(w) = t
    BY <1>3 DEF WhenAim
  <2>2. Aimed(w, t, now) /\ t.had = Selected(s)
    BY <1>1, CameraIs
  <2> HIDE DEF t
  <2>3. /\ t \in View /\ t.ready = w.ready /\ t.data = w.data /\ t.arrived = w.arrived
        /\ t.revealed = w.revealed /\ Subject(t) = Subject(w) /\ Route(t) = Route(w)
        /\ t.roads = w.roads /\ t.camera = w.camera /\ t.userUntil = w.userUntil
        /\ t.focus = w.focus /\ t.trails = w.trails /\ t.hidden = w.hidden
        /\ t.pulled = w.pulled
    BY <2>2 DEF Aimed, Stage, Route, Others
  <2>4. \/ Flying(t) = Flying(w)
        \/ t.flight # None /\ now < t.flight.ends /\ t.flight.ends < t.flightUntil
    BY <2>2 DEF Aimed
  <2>5. Airborne(t, now)
    BY <1>1, <2>3, <2>4, AirborneKept DEF Underway
  <2>6. ShortTrails(t) /\ t.data = (t.ready /\ known) /\ (t.data => t.roads = roads)
    BY <2>3 DEF Underway, ShortTrails
  <2>7. RoadNow(w) => RoadNow(t)
    BY <2>3 DEF RoadNow, RoadRight, Route
  <2>8. PullUnderway(t)
    <3>1. t.flightUntil \in Nat /\ (t.flight # None => t.flight.ends \in Nat)
      BY <2>3 DEF View, Maybe, Flights
    <3>2. t.flightUntil = w.flightUntil \/ now < t.flightUntil
      BY <1>1, <2>4, <3>1 DEF Flying
    <3>3. QED
      BY <2>3, <3>2 DEF Underway, PullUnderway
  <2>9. AimRight(t, s)
    <3>1. t.revealed = (t.data /\ t.arrived) /\ t.revealed
      BY <1>3, <2>3 DEF Underway, AimUnderway
    <3>2. Good(s, t.shows)
      <4>1. CASE Selected(s)
        BY <2>2, <4>1 DEF Aimed
      <4>2. CASE ~Selected(s)
        <5>1. t.shows = IF w.had THEN "home" ELSE w.shows
          BY <2>2, <4>2 DEF Aimed
        <5>2. CASE w.had
          BY <4>2, <5>1, <5>2 DEF Good, Selected
        <5>3. CASE ~w.had
          <6>1. \/ Good(s, w.shows)
                \/ ~Selected(rendered.s) /\ Good(rendered.s, w.shows)
            BY <1>3, <5>3 DEF Underway, AimUnderway
          <6>2. w.shows \in { None, "user", "home" }
            BY <4>2, <6>1 DEF Good, Selected
          <6>3. QED
            BY <4>2, <5>1, <5>3, <6>2 DEF Good, Selected
        <5>4. QED
          BY <5>2, <5>3
      <4>3. QED
        BY <4>1, <4>2
    <3>3. QED
      BY <2>2, <3>1, <3>2 DEF AimRight
  <2>10. QED
    BY <2>1, <2>3, <2>5, <2>6, <2>7, <2>8, <2>9
<1>4. QED
  BY <1>2, <1>3

Effects ==
    WhenAim(WhenRegion(WhenRiders(WhenVehicles(WhenFollow(WhenVehicle(
        WhenLayers(WhenOutlines(WhenData(view)))))))))

\* A view that has been shown owes the router nothing.
Cleared(w) == [ w EXCEPT !.asks = {} ]

LEMMA ClearedIs ==
    ASSUME NEW w \in View
    PROVE  LET t == Cleared(w)
           IN  /\ t \in View /\ t.asks = {} /\ Stage(t) = Stage(w) /\ Subject(t) = Subject(w)
               /\ Route(t) = Route(w) /\ Aim(t) = Aim(w) /\ Flying(t) = Flying(w)
               /\ t.hidden = w.hidden /\ t.pulled = w.pulled /\ t.camera = w.camera
               /\ t.userUntil = w.userUntil /\ t.focus = w.focus /\ t.trails = w.trails
<1> DEFINE t == [ w EXCEPT !.asks = {} ]
<1>1. {} \in SetOf(Asks)
  BY DEF SetOf
<1>2. t \in View
  BY <1>1 DEF View
<1>3. /\ t.asks = {} /\ Stage(t) = Stage(w) /\ Subject(t) = Subject(w)
      /\ Route(t) = Route(w) /\ Aim(t) = Aim(w) /\ Flying(t) = Flying(w)
      /\ t.hidden = w.hidden /\ t.pulled = w.pulled /\ t.camera = w.camera
      /\ t.userUntil = w.userUntil /\ t.focus = w.focus /\ t.trails = w.trails
  BY DEF View, Stage, Subject, Route, Aim, Flying
<1>4. QED
  BY <1>2, <1>3 DEF Cleared

LEMMA DepsAre ==
    ASSUME StateTyped
    PROVE  /\ Deps \in Dependencies /\ Deps # None
           /\ Deps.known = known /\ Deps.outlines = outlines /\ Deps.roads = roads
           /\ Deps.layers = layers /\ Deps.s = s /\ Deps.vehicles = Reports
<1>1. [ v \in Vehicle |-> live[v] ] \in [ Vehicle -> Maybe(Update) ]
      /\ [ r \in Rider |-> live[r] ] \in [ Rider -> Maybe(Update) ]
  BY DEF StateTyped, Marker
<1>2. Deps \in Dependencies
  BY <1>1 DEF StateTyped, Deps, Dependencies, SetOf
<1>3. QED
  BY <1>2, SentinelAssumption DEF Deps, Reports

\* The map catches up with all it depends on.
LEMMA EffectsAre ==
    ASSUME StateTyped, SelectionRight, view # None, Mounted
    PROVE  /\ Effects \in View /\ ShortTrails(Effects) /\ Airborne(Effects, now)
           /\ PullUnderway(Effects) /\ Caught(Effects, Deps)
<1> DEFINE a == WhenData(view)
           b == WhenOutlines(a)
           c == WhenLayers(b)
           d == WhenVehicle(c)
           e == WhenFollow(d)
           f == WhenVehicles(e)
           g == WhenRiders(f)
           h == WhenRegion(g)
           t == WhenAim(h)
<1>1. Underway(a, Drawn) /\ Subject(a) = Subject(view)
  BY WhenDataIs
<1>2. Effects = t
  BY DEF Effects
<1> HIDE DEF a
<1>3. Underway(b, Drawn) /\ Subject(b) = Subject(view)
  BY <1>1, WhenOutlinesIs
<1> HIDE DEF b
<1>4. Underway(c, layers) /\ c.vehicle = view.vehicle
  <2>1. Underway(c, layers) /\ Subject(c) = Subject(b)
    BY <1>3, WhenLayersIs
  <2>2. QED
    BY <1>3, <2>1 DEF Subject
<1> HIDE DEF c
<1>5. Underway(d, layers) /\ d.vehicle = IdOf(s.vehicle) /\ (Picked("vehicle") => RoadNow(d))
  BY <1>4, WhenVehicleIs
<1> HIDE DEF d
<1>6. Underway(e, layers) /\ e.vehicle = IdOf(s.vehicle) /\ e.follow = s.follow
      /\ (Picked("vehicle") => RoadNow(e))
  BY <1>5, WhenFollowIs
<1> HIDE DEF e
<1>7. Underway(f, layers) /\ Subject(f) = Subject(e)
      /\ (Picked("vehicle") \/ Changed("vehicles") => RoadNow(f))
  BY <1>6, WhenVehiclesIs
<1> HIDE DEF f
<1>8. RoadNow(f)
  <2>1. CASE Picked("vehicle") \/ Changed("vehicles")
    BY <1>7, <2>1
  <2>2. CASE ~(Picked("vehicle") \/ Changed("vehicles"))
    <3>1. rendered # None /\ s.vehicle = rendered.s.vehicle /\ Reports = rendered.vehicles
      BY <2>2, DepsAre DEF Picked, Changed
    <3>2. QED
      BY <1>7, <3>1 DEF Underway, RoadUnderway, RoadNow
  <2>3. QED
    BY <2>1, <2>2
<1>9. Underway(g, layers) /\ Subject(g) = Subject(e) /\ RoadNow(g)
  BY <1>7, <1>8, WhenRidersIs
<1> HIDE DEF g
<1>10. Underway(h, layers) /\ Subject(h) = Subject(e) /\ RoadNow(h)
       /\ HiddenRight(h, layers, s.region)
  BY <1>9, HiddenInTheEnd
<1> HIDE DEF h
<1>11. /\ t \in View /\ ShortTrails(t) /\ Airborne(t, now) /\ PullUnderway(t)
       /\ t.data = (t.ready /\ known) /\ (t.data => t.roads = roads)
       /\ Subject(t) = Subject(h) /\ RoadNow(t)
       /\ t.hidden = h.hidden /\ t.ready = h.ready
       /\ AimRight(t, s)
  BY <1>10, AimInTheEnd
<1> HIDE DEF t
<1>12. t.vehicle = IdOf(s.vehicle) /\ t.follow = s.follow
  BY <1>6, <1>10, <1>11 DEF Subject
<1>13. HiddenRight(t, layers, s.region)
  BY <1>10, <1>11 DEF HiddenRight
<1>14. Caught(t, Deps)
  BY <1>11, <1>12, <1>13, DepsAre DEF Caught, RoadNow
<1>15. QED
  BY <1>2, <1>11, <1>14

\* What is caught up stays so when only the camera's way changes.
LEMMA CaughtKept ==
    ASSUME NEW r, NEW w, Caught(w, r), NEW t,
           t.ready = w.ready, t.data = w.data, Subject(t) = Subject(w), Route(t) = Route(w),
           t.hidden = w.hidden, AimRight(t, r.s)
    PROVE  Caught(t, r)
<1>1. RoadRight(t, r.s.vehicle, r.vehicles)
  BY DEF Caught, RoadRight, Route
<1>2. QED
  BY <1>1 DEF Caught, HiddenRight, Subject, Route

LEMMA ClearedCaught ==
    ASSUME NEW w \in View, NEW r, Caught(w, r)
    PROVE  Caught(Cleared(w), r)
<1> DEFINE t == Cleared(w)
<1>1. /\ t \in View /\ Stage(t) = Stage(w) /\ Subject(t) = Subject(w)
      /\ Route(t) = Route(w) /\ Aim(t) = Aim(w) /\ t.hidden = w.hidden
  BY ClearedIs
<1> HIDE DEF t
<1>2. AimRight(t, r.s) /\ t.ready = w.ready /\ t.data = w.data
  BY <1>1 DEF Caught, AimRight, Stage, Aim
<1>3. Caught(t, r)
  BY <1>1, <1>2, CaughtKept
<1>4. QED
  BY <1>3 DEF t

Landed(w) == [ w EXCEPT !.flight = None, !.arrived = TRUE ]

\* A movement that ends leaves the map caught up, and reveals it if it was the intro.
LEMMA EndedIs ==
    ASSUME StateTyped, NEW w \in View, ShortTrails(w), w.ready, Caught(w, Deps), NEW at \in Nat
    PROVE  LET t == Ended(w, at)
           IN  /\ t \in View /\ ShortTrails(t) /\ Airborne(t, at) /\ t.asks = w.asks
               /\ t.pulled = w.pulled /\ t.arrived /\ t.ready /\ Caught(t, Deps)
               /\ t.userUntil = w.userUntil
<1> DEFINE x == Landed(w)
           y == SettleFocus(x)
           t == RevealIfReady(y, at)
<1>1. Ended(w, at) = t
  BY DEF Ended, Landed
<1>2. None \in Maybe(Flights)
  BY DEF Maybe
<1>3. x \in View
  BY <1>2 DEF View, Landed
<1>4. /\ x.ready = w.ready /\ x.data = w.data /\ x.arrived = TRUE /\ x.revealed = w.revealed
      /\ Subject(x) = Subject(w) /\ Route(x) = Route(w) /\ Aim(x) = Aim(w)
      /\ x.hidden = w.hidden /\ x.pulled = w.pulled /\ x.camera = w.camera
      /\ x.userUntil = w.userUntil /\ x.asks = w.asks /\ x.trails = w.trails
      /\ x.flight = None
  BY DEF View, Landed, Subject, Route, Aim
<1> HIDE DEF x
<1>5. /\ y \in View /\ Stage(y) = Stage(x) /\ Subject(y) = Subject(x)
      /\ Route(y) = Route(x) /\ Aim(y) = Aim(x) /\ Flying(y) = Flying(x)
      /\ y.hidden = x.hidden /\ y.pulled = x.pulled /\ y.camera = x.camera
      /\ y.userUntil = x.userUntil /\ y.asks = x.asks /\ y.trails = x.trails
      /\ y.focus # None => x.camera.near /\ RegionContains(y.focus, x.camera.center)
  BY <1>3, SettleIs
<1> HIDE DEF y
<1>6. /\ y.ready = w.ready /\ y.data = w.data /\ y.arrived = TRUE /\ y.revealed = w.revealed
      /\ y.had = w.had /\ y.shows = w.shows /\ y.flight = None
  BY <1>4, <1>5 DEF Stage, Aim, Flying
<1> DEFINE revealing == ~y.revealed /\ y.arrived /\ y.data
<1>7. /\ t \in View
      /\ t.ready = y.ready /\ t.data = y.data /\ t.arrived = y.arrived
      /\ t.revealed = (y.revealed \/ revealing)
      /\ ~revealing => t = y
      /\ revealing => t.had = Selected(s) /\ OutlineRight(t.hidden)
      /\ Subject(t) = Subject(y) /\ Route(t) = Route(y) /\ Others(t) = Others(y)
      /\ t.pulled = y.pulled
      /\ Dressed(y, t)
      /\ revealing /\ Selected(s) => Good(s, t.shows)
      /\ revealing /\ ~Selected(s) => t.shows = IF y.had THEN "home" ELSE y.shows
      /\ \/ Flying(t) = Flying(y)
         \/ t.flight # None /\ at < t.flight.ends /\ t.flight.ends < t.flightUntil
  BY <1>5, RevealIs
<1> HIDE DEF t
<1>8. w.revealed \in BOOLEAN /\ w.data \in BOOLEAN /\ w.arrived \in BOOLEAN /\ w.had \in BOOLEAN
  BY DEF View
<1>9. AimRight(w, s) /\ HiddenRight(w, layers, s.region)
  BY DepsAre DEF Caught
<1>10. t.revealed = (t.data /\ t.arrived) /\ t.arrived = TRUE
  BY <1>6, <1>7, <1>8, <1>9 DEF AimRight
<1>11. AimRight(t, s)
  <2>1. CASE ~revealing
    BY <1>6, <1>7, <1>8, <1>9, <1>10, <2>1 DEF AimRight
  <2>2. CASE revealing
    <3>1. Good(s, t.shows)
      <4>1. CASE Selected(s)
        BY <1>7, <2>2, <4>1
      <4>2. CASE ~Selected(s)
        <5>1. t.shows \in { None, "home", "user" }
          BY <1>6, <1>7, <1>9, <2>2, <4>2 DEF AimRight
        <5>2. QED
          BY <4>2, <5>1 DEF Good, Selected
      <4>3. QED
        BY <4>1, <4>2
    <3>2. QED
      BY <1>7, <1>10, <2>2, <3>1 DEF AimRight
  <2>3. QED
    BY <2>1, <2>2
<1>12. t.hidden = w.hidden
  <2>1. CASE ~revealing
    BY <1>4, <1>5, <1>7, <2>1
  <2>2. CASE revealing
    <3>1. OutlineRight(t.hidden) /\ t.hidden \ Outline = w.hidden \ Outline
      BY <1>4, <1>5, <1>7, <2>2 DEF Dressed
    <3>2. OutlineRight(w.hidden)
      BY <1>9, UserAssumption DEF HiddenRight, OutlineRight, Outline
    <3>3. \A p : p \in t.hidden <=> p \in w.hidden
      <4> SUFFICES ASSUME NEW p PROVE p \in t.hidden <=> p \in w.hidden
        OBVIOUS
      <4>1. CASE p = "region-focus"
        BY <3>1, <3>2, <4>1 DEF OutlineRight
      <4>2. CASE p # "region-focus"
        BY <3>1, <4>2 DEF Outline
      <4>3. QED
        BY <4>1, <4>2
    <3>4. QED
      BY <3>3
  <2>3. QED
    BY <2>1, <2>2
<1>13. Subject(t) = Subject(w) /\ Route(t) = Route(w) /\ t.ready = w.ready /\ t.data = w.data
  BY <1>4, <1>5, <1>6, <1>7
<1>14. Caught(t, Deps)
  <2>1. AimRight(t, Deps.s)
    BY <1>11, DepsAre
  <2>2. QED
    BY <1>12, <1>13, <2>1, CaughtKept
<1>15. /\ t.camera = w.camera /\ t.focus = y.focus /\ t.trails = w.trails /\ t.asks = w.asks
       /\ t.userUntil = w.userUntil
  BY <1>4, <1>5, <1>7 DEF Others
<1>16. Airborne(t, at)
  <2>1. t.flight # None => t.flight.ends \in Nat
    BY <1>7 DEF View, Maybe, Flights
  <2>2. t.flight # None => at < t.flight.ends
    BY <1>6, <1>7 DEF Flying
  <2>3. QED
    BY <1>4, <1>5, <1>6, <1>7, <1>10, <1>13, <1>15, <2>1, <2>2 DEF Airborne
<1>17. QED
  BY <1>1, <1>4, <1>5, <1>6, <1>7, <1>10, <1>14, <1>15, <1>16 DEF ShortTrails

Stand(v) == IF live[v] = None THEN view.anims[v]
            ELSE Glide(live[v].pos, live[v].pos, None, DefaultGlide, live[v].stamp)
Seeded == [ view EXCEPT !.ready = TRUE,
              !.anims = [ id \in Marker |-> IF id \in Vehicle THEN Stand(id) ELSE @[id] ] ]
Moved == IF lastCamera # None THEN [ Seeded EXCEPT !.arrived = TRUE ]
         ELSE Fly(Seeded, now, Camera(Home, FALSE), IntroMs, "home")
Loaded == LayersEffect(ApplyRegionVisuals(DataEffect(Moved)))

LEMMA SeededIs ==
    ASSUME StateTyped, view \in View
    PROVE  /\ Seeded \in View /\ Seeded.ready = TRUE /\ Seeded.data = view.data
           /\ Seeded.arrived = view.arrived /\ Seeded.revealed = view.revealed
           /\ Subject(Seeded) = Subject(view) /\ Route(Seeded) = Route(view)
           /\ Aim(Seeded) = Aim(view) /\ Flying(Seeded) = Flying(view)
           /\ Others(Seeded) = Others(view) /\ Seeded.pulled = view.pulled
<1> DEFINE a == [ id \in Marker |-> IF id \in Vehicle THEN Stand(id) ELSE view.anims[id] ]
           t == [ view EXCEPT !.ready = TRUE, !.anims = a ]
<1>1. view.anims \in [ Marker -> Maybe(Glides) ] /\ now \in Nat
  BY DEF View, Anims, StateTyped
<1>2. \A v \in Vehicle : Stand(v) \in Maybe(Glides)
  <2> SUFFICES ASSUME NEW v \in Vehicle PROVE Stand(v) \in Maybe(Glides)
    OBVIOUS
  <2>1. v \in Marker /\ live[v] \in Maybe(Update)
    BY DEF StateTyped, Marker
  <2>2. CASE live[v] = None
    BY <1>1, <2>1, <2>2 DEF Stand
  <2>3. CASE live[v] # None
    <3>1. live[v].pos \in Point /\ live[v].stamp \in Nat
      BY <2>1, <2>3 DEF Maybe, Update
    <3>2. None \in Maybe(Paths) /\ DefaultGlide \in Positive
      BY TimeAssumption DEF Maybe
    <3>3. Glide(live[v].pos, live[v].pos, None, DefaultGlide, live[v].stamp) \in Maybe(Glides)
      BY <1>1, <3>1, <3>2, GlideIs
    <3>4. QED
      BY <2>3, <3>3 DEF Stand
  <2>4. QED
    BY <2>2, <2>3
<1>3. Seeded = t
  BY DEF Seeded
<1>4. a \in Anims
  BY <1>1, <1>2 DEF Anims
<1> HIDE DEF a
<1>5. t \in View
  BY <1>4 DEF View
<1>6. /\ t.ready = TRUE /\ t.data = view.data
      /\ t.arrived = view.arrived /\ t.revealed = view.revealed
      /\ Subject(t) = Subject(view) /\ Route(t) = Route(view)
      /\ Aim(t) = Aim(view) /\ Flying(t) = Flying(view)
      /\ Others(t) = Others(view) /\ t.pulled = view.pulled
  BY DEF View, Subject, Route, Aim, Flying, Others
<1> HIDE DEF t
<1>7. QED
  BY <1>3, <1>5, <1>6

Arrived(w) == [ w EXCEPT !.arrived = TRUE ]

LEMMA MovedIs ==
    ASSUME StateTyped, view # None, Mounted, rendered = Deps, ~view.ready
    PROVE  /\ Moved \in View /\ ShortTrails(Moved) /\ Moved.ready /\ ~Moved.data
           /\ ~Moved.revealed /\ ~Moved.had /\ Moved.shows \in { None, "home", "user" }
           /\ Subject(Moved) = Subject(view) /\ Airborne(Moved, now)
           /\ Route(Moved) = Route(view) /\ Moved.pulled = view.pulled
<1>1. Caught(view, Deps) /\ view \in View /\ ShortTrails(view) /\ Airborne(view, now)
  BY DepsAre DEF Mounted
<1>2. ~view.data /\ ~view.revealed /\ ~view.had /\ view.shows \in { None, "home", "user" }
      /\ ~view.arrived /\ view.focus = None
  <2>1. view.data \in BOOLEAN /\ view.revealed \in BOOLEAN
    BY <1>1 DEF View
  <2>2. QED
    BY <1>1, <2>1 DEF Caught, AimRight, Airborne
<1> DEFINE z == Seeded
<1>3. /\ z \in View /\ z.ready = TRUE /\ z.data = view.data
      /\ z.arrived = view.arrived /\ z.revealed = view.revealed
      /\ Subject(z) = Subject(view) /\ Route(z) = Route(view)
      /\ Aim(z) = Aim(view) /\ Flying(z) = Flying(view)
      /\ Others(z) = Others(view) /\ z.pulled = view.pulled
  BY <1>1, SeededIs
<1> HIDE DEF z
<1>4. CASE lastCamera # None
  <2> DEFINE t == Arrived(z)
  <2>1. Moved = t
    BY <1>4 DEF Moved, Arrived, z
  <2>2. t \in View
    BY <1>3 DEF View, Arrived
  <2>3. /\ t.ready = z.ready /\ t.data = z.data /\ t.arrived = TRUE /\ t.revealed = z.revealed
        /\ Subject(t) = Subject(z) /\ Route(t) = Route(z) /\ Aim(t) = Aim(z)
        /\ Flying(t) = Flying(z) /\ Others(t) = Others(z) /\ t.pulled = z.pulled
    BY <1>3 DEF View, Arrived, Subject, Route, Aim, Flying, Others
  <2> HIDE DEF t
  <2>4. t.flight = view.flight /\ t.focus = None /\ t.trails = view.trails
        /\ t.had = view.had /\ t.shows = view.shows
    BY <1>2, <1>3, <2>3 DEF Flying, Others, Aim
  <2>5. Airborne(t, now) /\ ShortTrails(t)
    BY <1>1, <1>3, <2>3, <2>4 DEF Airborne, ShortTrails
  <2>6. QED
    BY <1>2, <1>3, <2>1, <2>2, <2>3, <2>4, <2>5
<1>5. CASE lastCamera = None
  <2> DEFINE c == Camera(Home, FALSE)
             t == Fly(z, now, c, IntroMs, "home")
  <2>1. Moved = t
    BY <1>5 DEF Moved, z
  <2>2. c \in Cameras /\ IntroMs \in Positive /\ "home" \in Shown /\ now \in Nat
    BY GroundAssumption, TimeAssumption DEF Camera, Cameras, Shown, StateTyped
  <2> HIDE DEF c
  <2>3. /\ t \in View
        /\ Stage(t) = Stage(z) /\ Subject(t) = Subject(z) /\ Route(t) = Route(z)
        /\ Others(t) = Others(z) /\ t.hidden = z.hidden /\ t.pulled = z.pulled
        /\ t.had = z.had /\ t.shows = "home"
        /\ t.flight # None /\ t.flight.ends = now + IntroMs
        /\ t.flightUntil = now + IntroMs + 100
    BY <1>3, <2>2, FlyIs
  <2> HIDE DEF t
  <2>4. t.ready = TRUE /\ t.focus = None /\ t.trails = view.trails /\ t.had = view.had
        /\ t.data = view.data /\ t.revealed = view.revealed
    BY <1>2, <1>3, <2>3 DEF Stage, Others, Aim
  <2>5. now <= now + IntroMs /\ now + IntroMs < now + IntroMs + 100
    BY <2>2 DEF Positive
  <2>6. Airborne(t, now) /\ ShortTrails(t)
    BY <1>1, <2>3, <2>4, <2>5 DEF Airborne, ShortTrails
  <2>7. QED
    BY <1>2, <1>3, <2>1, <2>3, <2>4, <2>6
<1>6. QED
  BY <1>4, <1>5

LEMMA LoadedIs ==
    ASSUME StateTyped, view # None, Mounted, rendered = Deps, ~view.ready
    PROVE  /\ Loaded \in View /\ ShortTrails(Loaded) /\ Airborne(Loaded, now)
           /\ Caught(Loaded, Deps) /\ Loaded.pulled = view.pulled
<1> DEFINE m == Moved
           a == DataEffect(m)
           b == ApplyRegionVisuals(a)
           t == LayersEffect(b)
<1>1. /\ m \in View /\ ShortTrails(m) /\ m.ready /\ ~m.data
      /\ ~m.revealed /\ ~m.had /\ m.shows \in { None, "home", "user" }
      /\ Subject(m) = Subject(view) /\ Airborne(m, now)
      /\ Route(m) = Route(view) /\ m.pulled = view.pulled
  BY MovedIs
<1>2. Loaded = t
  BY DEF Loaded
<1>3. Caught(view, Deps) /\ now \in Nat /\ known \in BOOLEAN
  BY DepsAre DEF Mounted, StateTyped
<1>4. m.arrived \in BOOLEAN /\ m.data \in BOOLEAN
  BY <1>1 DEF View
<1> HIDE DEF m
<1>5. /\ a \in View /\ ShortTrails(a) /\ a.ready /\ a.data = known /\ (known => a.roads = roads)
      /\ Subject(a) = Subject(view) /\ RoadNow(a) /\ AimRight(a, s) /\ Airborne(a, now)
      /\ a.pulled = view.pulled
  <2>1. CASE ~known
    <3>1. a = m
      BY <2>1 DEF DataEffect
    <3>2. RoadNow(view) /\ ~view.data
      BY <1>3, <2>1, DepsAre DEF Caught, RoadNow
    <3>3. RoadNow(m)
      BY <1>1, <1>4, <3>2 DEF RoadNow, RoadRight, Route
    <3>4. AimRight(m, s)
      BY <1>1, <1>4 DEF AimRight, View
    <3>5. QED
      BY <1>1, <1>3, <1>4, <2>1, <3>1, <3>3, <3>4
  <2>2. CASE known
    <3>1. Supplied(m, a)
      BY <1>1, <2>2, DataIs
    <3> HIDE DEF a
    <3>2. AimRight(a, s)
      <4>1. CASE ~m.arrived
        BY <1>1, <1>4, <3>1, <4>1 DEF Supplied, AimRight, Aim
      <4>2. CASE m.arrived
        <5>1. a.revealed /\ a.had = Selected(s) /\ a.data = TRUE /\ a.arrived
          BY <1>1, <3>1, <4>2 DEF Supplied
        <5>2. Good(s, a.shows)
          <6>1. CASE Selected(s)
            BY <1>1, <3>1, <4>2, <6>1 DEF Supplied
          <6>2. CASE ~Selected(s)
            <7>1. a.shows \in { None, "home", "user" }
              BY <1>1, <3>1, <4>2, <6>2 DEF Supplied
            <7>2. QED
              BY <6>2, <7>1 DEF Good, Selected
          <6>3. QED
            BY <6>1, <6>2
        <5>3. QED
          BY <1>4, <3>1, <4>2, <5>1, <5>2 DEF AimRight, Supplied
      <4>3. QED
        BY <4>1, <4>2
    <3>3. Airborne(a, now)
      BY <1>1, <1>3, <3>1, AirborneKept DEF Supplied
    <3>4. QED
      BY <1>1, <2>2, <3>1, <3>2, <3>3 DEF Supplied, ShortTrails, RoadNow
  <2>3. QED
    BY <2>1, <2>2
<1> HIDE DEF a
<1>6. b \in View /\ Alike(a, b)
  BY <1>5, VisualsAre
<1>7. b.ready
  BY <1>5, <1>6 DEF Alike, Stage
<1> HIDE DEF b
<1>8. t \in View /\ Alike(b, t) /\ t.hidden \ Outline = Layers \ layers /\ OutlineRight(t.hidden)
  BY <1>6, <1>7, LayersAre
<1> HIDE DEF t
<1>9. /\ t.ready = a.ready /\ t.data = a.data /\ t.arrived = a.arrived /\ t.revealed = a.revealed
      /\ Subject(t) = Subject(a) /\ t.roads = a.roads /\ t.leg = a.leg /\ t.match = a.match
      /\ t.info = a.info /\ t.had = a.had /\ t.shows = a.shows /\ t.flight = a.flight
      /\ t.flightUntil = a.flightUntil /\ t.camera = a.camera /\ t.focus = a.focus
      /\ t.trails = a.trails /\ t.pulled = a.pulled
  BY <1>6, <1>8 DEF Alike, Stage, Route, Aim, Flying, Others
<1>10. RoadNow(t) /\ AimRight(t, s) /\ Airborne(t, now) /\ ShortTrails(t)
  BY <1>5, <1>9 DEF RoadNow, RoadRight, AimRight, Airborne, ShortTrails
<1>11. HiddenRight(t, layers, s.region)
  <2>1. t.hidden \subseteq Hidden
    BY <1>8 DEF View, SetOf
  <2>2. QED
    BY <1>8, <2>1, UserAssumption DEF HiddenRight, OutlineRight, Outline, Hidden
<1>12. t.vehicle = IdOf(s.vehicle) /\ t.follow = s.follow
  BY <1>3, <1>5, <1>9, DepsAre DEF Caught, Subject
<1>13. Caught(t, Deps)
  <2>1. t.data = (t.ready /\ Deps.known) /\ (t.data => t.roads = Deps.roads)
    BY <1>3, <1>5, <1>9, DepsAre
  <2>2. RoadRight(t, Deps.s.vehicle, Deps.vehicles) /\ AimRight(t, Deps.s)
    BY <1>10, DepsAre DEF RoadNow
  <2>3. HiddenRight(t, Deps.layers, Deps.s.region)
    BY <1>11, DepsAre
  <2>4. QED
    BY <1>12, <2>1, <2>2, <2>3, DepsAre DEF Caught
<1>14. QED
  BY <1>2, <1>5, <1>8, <1>9, <1>10, <1>13

----------------------------------------------------------------------------
\* The drawer and the selection.

Remembers(d) == d \in Drawers /\ Len(d.history) <= MaxHistory

LEMMA OpenItemIs ==
    ASSUME NEW d, Remembers(d), NEW item \in Items
    PROVE  Remembers(OpenItem(d, item)) /\ OpenItem(d, item).item # None
<1>1. MaxHistory \in Nat /\ item # None /\ item \in Maybe(Items)
  BY PlaceAssumption, SentinelAssumption DEF Maybe
<1>2. d.item \in Maybe(Items) /\ d.history \in Seq(Items) /\ Len(d.history) <= MaxHistory
  BY DEF Remembers, Drawers
<1>3. CASE d.item = item
  BY <1>1, <1>3 DEF OpenItem
<1>4. CASE d.item # item /\ d.item = None
  <2>1. OpenItem(d, item) = [ item |-> item, history |-> d.history ]
    BY <1>4 DEF OpenItem
  <2>2. QED
    BY <1>1, <1>2, <2>1 DEF Remembers, Drawers
<1>5. CASE d.item # item /\ d.item # None
  <2> DEFINE h == LastOf(Append(d.history, d.item), MaxHistory)
  <2>1. OpenItem(d, item) = [ item |-> item, history |-> h ]
    BY <1>5 DEF OpenItem
  <2>2. Append(d.history, d.item) \in Seq(Items)
    BY <1>2, <1>5 DEF Maybe
  <2>3. h \in Seq(Items) /\ Len(h) <= MaxHistory
    BY <1>1, <2>2, LastOfIs
  <2> HIDE DEF h
  <2>4. QED
    BY <1>1, <2>1, <2>3 DEF Remembers, Drawers
<1>6. QED
  BY <1>3, <1>4, <1>5

LEMMA BackIs ==
    ASSUME NEW d, Remembers(d)
    PROVE  Remembers(BackInDrawer(d))
<1>1. d.item \in Maybe(Items) /\ d.history \in Seq(Items) /\ Len(d.history) <= MaxHistory
      /\ d \in Drawers
  BY DEF Remembers, Drawers
<1>2. CASE d.history = << >>
  <2>1. BackInDrawer(d) = [ d EXCEPT !.item = None ]
    BY <1>2 DEF BackInDrawer
  <2>2. QED
    BY <1>1, <2>1 DEF Remembers, Drawers, Maybe
<1>3. CASE d.history # << >>
  <2> DEFINE L == Len(d.history)
             h == SubSeq(d.history, 1, L - 1)
             last == d.history[L]
  <2>1. L \in Nat \ {0}
    BY <1>1, <1>3
  <2>2. h \in Seq(Items) /\ Len(h) = L - 1 /\ last \in Items
    BY <1>1, <2>1
  <2>3. BackInDrawer(d) = [ item |-> last, history |-> h ]
    BY <1>3 DEF BackInDrawer
  <2>4. MaxHistory \in Nat /\ Len(h) <= MaxHistory
    BY <1>1, <2>1, <2>2, PlaceAssumption
  <2> HIDE DEF h, last
  <2>5. QED
    BY <2>2, <2>3, <2>4 DEF Remembers, Drawers, Maybe
<1>4. QED
  BY <1>2, <1>3

LEMMA NothingIs ==
    /\ NoSelection \in Selections /\ ~Selected(NoSelection) /\ ~NoSelection.follow
    /\ Remembers(NoDrawer)
<1>1. MaxHistory \in Nat
  BY PlaceAssumption
<1>2. NoSelection \in Selections /\ ~Selected(NoSelection) /\ ~NoSelection.follow
  BY DEF NoSelection, Selections, Selected, Known, Maybe
<1>3. << >> \in Seq(Items) /\ Len(<< >>) = 0
  OBVIOUS
<1>4. NoDrawer \in Drawers /\ NoDrawer.history = << >>
  BY <1>3 DEF NoDrawer, Drawers, Maybe
<1>5. Len(NoDrawer.history) <= MaxHistory
  BY <1>1, <1>3, <1>4
<1>6. QED
  BY <1>2, <1>4, <1>5 DEF Remembers

\* A vehicle is selected alone, and what is picked lies in the selected area.
Coherent(sel) ==
    /\ sel.vehicle # None => sel.node = None /\ sel.tracking = None
    /\ sel.node # None /\ sel.region # None => RegionContains(Areas[sel.region], At[sel.node])

LEMMA RegionIs ==
    ASSUME NEW sel \in Selections, NEW drawn \in BOOLEAN, NEW p
    PROVE  LET r == RegionAfterPick(sel, drawn, p)
           IN  /\ r \in Maybe(DOMAIN Areas)
               /\ (drawn \/ sel.region = None) /\ r # None => RegionContains(Areas[r], p)
BY DEF RegionAfterPick, Selections, Maybe

LEMMA SelectNodeIs ==
    ASSUME NEW sel \in Selections, NEW drawn \in BOOLEAN, drawn \/ sel.region = None,
           NEW n \in DOMAIN At
    PROVE  LET t == SelectNode(sel, drawn, n)
           IN  t \in Selections /\ Coherent(t) /\ t.follow = sel.follow
<1> DEFINE r == RegionAfterPick(sel, drawn, At[n])
           t == [ sel EXCEPT !.node = n, !.vehicle = None, !.tracking = None, !.region = r ]
<1>1. r \in Maybe(DOMAIN Areas) /\ (r # None => RegionContains(Areas[r], At[n]))
  BY RegionIs
<1>2. SelectNode(sel, drawn, n) = t
  BY DEF SelectNode
<1> HIDE DEF r
<1>3. t \in Selections
  BY <1>1 DEF Selections, Known, Maybe
<1>4. t.node = n /\ t.vehicle = None /\ t.region = r /\ t.follow = sel.follow
  BY DEF Selections
<1> HIDE DEF t
<1>5. QED
  BY <1>1, <1>2, <1>3, <1>4 DEF Coherent

LEMMA SelectVehicleIs ==
    ASSUME NEW sel \in Selections, NEW drawn \in BOOLEAN, NEW row \in Row, NEW p
    PROVE  LET t == SelectVehicle(sel, drawn, row, p)
           IN  t \in Selections /\ Coherent(t) /\ t.vehicle = row /\ t.vehicle # None
<1> DEFINE r == RegionAfterPick(sel, drawn, p)
           t == SelectVehicle(sel, drawn, row, p)
<1>1. r \in Maybe(DOMAIN Areas)
  BY RegionIs
<1>2. t = [ node |-> None, vehicle |-> row, tracking |-> None, follow |-> TRUE, region |-> r ]
  BY DEF SelectVehicle
<1> HIDE DEF r, t
<1>3. t \in Selections
  BY <1>1, <1>2 DEF Selections, Known, Maybe
<1>4. t.node = None /\ t.tracking = None /\ t.vehicle = row /\ row # None
  BY <1>2, SentinelAssumption
<1>5. QED
  BY <1>3, <1>4 DEF Coherent, t

LEMMA SelectTrackingIs ==
    ASSUME NEW sel \in Selections, NEW number \in Tracked
    PROVE  LET t == SelectTracking(sel, number)
           IN  t \in Selections /\ Coherent(t) /\ t.follow = sel.follow
<1> DEFINE t == [ sel EXCEPT !.tracking = number, !.node = None, !.vehicle = None, !.region = None ]
<1>1. t \in Selections
  BY DEF Selections, Known, Maybe
<1>2. t.node = None /\ t.vehicle = None /\ t.follow = sel.follow
  BY DEF Selections
<1>3. QED
  BY <1>1, <1>2 DEF Coherent, SelectTracking

LEMMA SelectRegionIs ==
    ASSUME NEW sel \in Selections, NEW region \in DOMAIN Areas
    PROVE  LET t == SelectRegion(sel, region)
           IN  t \in Selections /\ Coherent(t) /\ t.follow = sel.follow
<1> DEFINE t == [ sel EXCEPT !.region = region, !.node = None, !.vehicle = None, !.tracking = None ]
<1>1. t \in Selections
  BY DEF Selections, Known, Maybe
<1>2. t.node = None /\ t.vehicle = None /\ t.follow = sel.follow
  BY DEF Selections
<1>3. QED
  BY <1>1, <1>2 DEF Coherent, SelectRegion

LEMMA SetFollowIs ==
    ASSUME NEW sel \in Selections, NEW on \in BOOLEAN
    PROVE  LET t == SetFollow(sel, on)
           IN  /\ t \in Selections /\ t.follow = on /\ (Coherent(sel) => Coherent(t))
               /\ Selected(t) = Selected(sel) /\ t.vehicle = sel.vehicle
<1> DEFINE t == [ sel EXCEPT !.follow = on ]
<1>1. t \in Selections
  BY DEF Selections
<1>2. t.node = sel.node /\ t.vehicle = sel.vehicle /\ t.tracking = sel.tracking
      /\ t.region = sel.region /\ t.follow = on
  BY DEF Selections
<1>3. QED
  BY <1>1, <1>2 DEF Coherent, Selected, SetFollow

LEMMA RefreshIs ==
    ASSUME NEW sel \in Selections, NEW row \in Row
    PROVE  LET t == RefreshVehicle(sel, row)
           IN  /\ t \in Selections /\ t.follow = sel.follow /\ (Coherent(sel) => Coherent(t))
               /\ sel.vehicle # None => Selected(t)
<1> DEFINE t == [ sel EXCEPT !.vehicle = row ]
<1>1. CASE sel.vehicle # None /\ sel.vehicle.id = row.id
  <2>1. RefreshVehicle(sel, row) = t
    BY <1>1 DEF RefreshVehicle
  <2>2. t \in Selections
    BY DEF Selections, Maybe
  <2>3. t.node = sel.node /\ t.vehicle = row /\ t.tracking = sel.tracking
        /\ t.region = sel.region /\ t.follow = sel.follow /\ row # None
    BY SentinelAssumption DEF Selections
  <2> HIDE DEF t
  <2>4. QED
    BY <1>1, <2>1, <2>2, <2>3 DEF Coherent, Selected
<1>2. CASE ~(sel.vehicle # None /\ sel.vehicle.id = row.id)
  BY <1>2 DEF RefreshVehicle, Selected
<1>3. QED
  BY <1>1, <1>2

\* The kinds of what can be open.
LEMMA ItemIs ==
    ASSUME NEW item \in Items
    PROVE  /\ item # None
           /\ item.kind \in { "hub", "node", "customer" } => item.id \in DOMAIN At
           /\ item.kind = "rider" => BaseOf[item.id] \in DOMAIN At
           /\ item.kind = "vehicle" => item.id \in Vehicle
           /\ item.kind = "shipment" => item.id \in Tracked
           /\ item.kind = "region" => item.id \in DOMAIN Areas
<1>1. item # None
  BY SentinelAssumption
<1>2. CASE item \in Openable
  <2>1. item.kind = "shipment" => item.id \in Tracked
    BY <1>2 DEF Tracked
  <2>2. item.kind = "rider" => BaseOf[item.id] \in DOMAIN At
    BY <1>2, UserAssumption, PlaceAssumption
  <2>3. QED
    BY <1>1, <1>2, <2>1, <2>2, UserAssumption
<1>3. CASE item \notin Openable
  <2>1. PICK a \in DOMAIN Areas : item = Item("region", a)
    BY <1>3 DEF Items
  <2>2. item.kind = "region" /\ item.id = a
    BY <2>1 DEF Item
  <2>3. QED
    BY <1>1, <2>2
<1>4. QED
  BY <1>2, <1>3

LEMMA InStepIs ==
    ASSUME NEW sel \in Selections, Coherent(sel), NEW drawn \in BOOLEAN,
           drawn \/ sel.region = None, NEW item \in Maybe(Items),
           NEW row \in [ Vehicle -> Row ], \A v \in Vehicle : row[v].id = v, NEW at
    PROVE  LET t == InStep(sel, drawn, item, row, at)
           IN  /\ t \in Selections /\ Coherent(t)
               /\ item = None => ~Selected(t) /\ (sel = NoSelection => t = NoSelection)
               /\ t.follow => sel.follow \/ (t.vehicle # None /\ t.vehicle # sel.vehicle)
<1> DEFINE t == InStep(sel, drawn, item, row, at)
           toNode(n) == IF sel.node = n THEN sel ELSE SelectNode(sel, drawn, n)
<1>1. CASE item = None
  <2>1. t = IF Selected(sel) THEN NoSelection ELSE sel
    BY <1>1 DEF InStep
  <2>2. Coherent(NoSelection)
    BY DEF Coherent, NoSelection
  <2>3. QED
    BY <2>1, <2>2, NothingIs
<1>2. CASE item # None
  <2>1. item \in Items
    BY <1>2 DEF Maybe
  <2>2. \A n \in DOMAIN At : toNode(n) \in Selections /\ Coherent(toNode(n))
                             /\ toNode(n).follow = sel.follow
    BY SelectNodeIs
  <2>3. CASE item.kind \in { "hub", "node", "customer" }
    <3>1. t = toNode(item.id)
      BY <1>2, <2>3 DEF InStep
    <3> HIDE DEF toNode, t
    <3>2. QED
      BY <1>2, <2>1, <2>2, <2>3, <3>1, ItemIs DEF t
  <2>4. CASE item.kind = "rider"
    <3>1. t = toNode(BaseOf[item.id])
      BY <1>2, <2>4 DEF InStep
    <3> HIDE DEF toNode, t
    <3>2. QED
      BY <1>2, <2>1, <2>2, <2>4, <3>1, ItemIs DEF t
  <2>5. CASE item.kind = "vehicle"
    <3>1. t = IF sel.vehicle # None /\ sel.vehicle.id = item.id THEN sel
              ELSE SelectVehicle(sel, drawn, row[item.id], at[item.id])
      BY <1>2, <2>5 DEF InStep
    <3>2. row[item.id] \in Row /\ row[item.id].id = item.id
      BY <2>1, <2>5, ItemIs
    <3>3. CASE sel.vehicle # None /\ sel.vehicle.id = item.id
      BY <1>2, <3>1, <3>3
    <3>4. CASE ~(sel.vehicle # None /\ sel.vehicle.id = item.id)
      <4>1. t \in Selections /\ Coherent(t) /\ t.vehicle = row[item.id] /\ t.vehicle # None
        BY <3>1, <3>2, <3>4, SelectVehicleIs
      <4>2. t.vehicle # sel.vehicle
        BY <3>2, <3>4, <4>1
      <4>3. QED
        BY <1>2, <4>1, <4>2
    <3>5. QED
      BY <3>3, <3>4
  <2>6. CASE item.kind = "shipment"
    <3>1. t = IF sel.tracking = item.id THEN sel ELSE SelectTracking(sel, item.id)
      BY <1>2, <2>6 DEF InStep
    <3>2. item.id \in Tracked
      BY <2>1, <2>6, ItemIs
    <3>3. QED
      BY <1>2, <3>1, <3>2, SelectTrackingIs
  <2>7. CASE item.kind = "region"
    <3>1. t = IF sel.region = item.id \/ ~drawn THEN sel ELSE SelectRegion(sel, item.id)
      BY <1>2, <2>7 DEF InStep
    <3>2. item.id \in DOMAIN Areas
      BY <2>1, <2>7, ItemIs
    <3>3. QED
      BY <1>2, <3>1, <3>2, SelectRegionIs
  <2>8. CASE item.kind \notin { "hub", "node", "customer", "rider", "vehicle", "shipment", "region" }
    <3>1. t = sel
      BY <1>2, <2>8 DEF InStep
    <3>2. QED
      BY <1>2, <3>1
  <2>9. QED
    BY <2>3, <2>4, <2>5, <2>6, <2>7, <2>8
<1>3. QED
  BY <1>1, <1>2

----------------------------------------------------------------------------
\* The inductive invariant.

Budget == [ user : Nat, feed : Nat, clock : Nat, load : Nat ]

StoresTyped ==
    /\ page \in Pages /\ known \in BOOLEAN /\ outlines \in BOOLEAN /\ letGo \in BOOLEAN
    /\ Remembers(drawer) /\ s \in Selections /\ layers \in SUBSET Layers /\ roads \in Networks
    /\ live \in [ Marker -> Maybe(Update) ] /\ rows \in [ Vehicle -> Row ]
    /\ now \in Nat /\ left \in Budget

NetworkTyped ==
    /\ lookups \in SUBSET Asks
    /\ DOMAIN answers \subseteq Asks /\ \A ask \in DOMAIN answers : answers[ask] \in BOOLEAN

ViewTyped ==
    /\ view \in Maybe(View) /\ (view = None) = (page \notin MapPages)
    /\ view # None => ShortTrails(view)
    /\ rendered \in Maybe(Dependencies) /\ lastCamera \in Maybe(Cameras)

LEMMA TypeParts == TypeOK <=> StoresTyped /\ NetworkTyped /\ ViewTyped
BY DEF TypeOK, StoresTyped, NetworkTyped, ViewTyped, Remembers, ShortTrails, Budget

\* The stores: the drawer and the selection go together, whatever has been loaded.
Selecting ==
    /\ Coherent(s)
    /\ known = outlines
    /\ ~known => drawer = NoDrawer /\ s = NoSelection
    /\ inStep[1] = None /\ inStep[2] \in InStepPages => ~Selected(s)
    /\ letGo => ~s.follow
    /\ \A v \in Vehicle : rows[v].id = v

IInv == StoresTyped /\ NetworkTyped /\ ViewTyped /\ Selecting /\ Mounted

\* The follow camera is left alone: only the effects may set it in motion.
Still == view # None /\ view' # None => view'.pulled \in { None, view.pulled }

\* What is shown of every step but that of the effects.
KeepsInv == IInv' /\ Still

LEMMA InvGives ==
    ASSUME IInv
    PROVE  /\ StateTyped /\ SelectionRight /\ outlines \in BOOLEAN
           /\ outlines \/ s.region = None
           /\ view # None => view \in View
<1>1. StateTyped
  BY DEF IInv, StoresTyped, ViewTyped, StateTyped
<1>2. ~known => s = NoSelection
  BY DEF IInv, Selecting
<1>3. SelectionRight
  BY <1>2 DEF IInv, Selecting, Coherent, SelectionRight
<1>4. known \/ s.region = None
  BY <1>2 DEF NoSelection
<1>5. known = outlines /\ outlines \in BOOLEAN
  BY DEF IInv, Selecting, StoresTyped
<1>6. view # None => view \in View
  BY DEF IInv, ViewTyped, Maybe
<1>7. QED
  BY <1>1, <1>3, <1>4, <1>5, <1>6

LEMMA SettledGives ==
    ASSUME IInv, Settled, view # None
    PROVE  rendered = Deps /\ Caught(view, Deps) /\ view \in View /\ ShortTrails(view)
           /\ view.asks = {} /\ Airborne(view, now)
<1>1. rendered = Deps
  BY DEF Settled
<1>2. Deps # None
  BY InvGives, DepsAre
<1>3. QED
  BY <1>1, <1>2 DEF IInv, Mounted

LEMMA MountedKept ==
    ASSUME Mounted, UNCHANGED <<view, rendered, now>>, known => known'
    PROVE  Mounted'
BY DEF Mounted, ShortTrails, Airborne

\* A view that has caught up with all there is.
LEMMA MountedAnew ==
    ASSUME NEW w \in View, ShortTrails(w), w.asks = {}, NEW time, Airborne(w, time),
           Caught(w, Deps), StateTyped,
           view' = w, rendered' = Deps, now' = time, known' = known
    PROVE  Mounted' /\ view' # None
<1>1. Deps # None /\ Deps.known = known /\ Deps \in Dependencies
  BY DepsAre
<1>2. view' # None
  BY SentinelAssumption
<1>3. ShortTrails(view)'
  BY DEF ShortTrails
<1>4. QED
  BY <1>1, <1>2, <1>3 DEF Mounted, Airborne, Maybe

LEMMA EffectsStep ==
    ASSUME IInv, MapEffects
    PROVE  IInv' /\ view # None
           /\ (view'.pulled = view.pulled
               \/ /\ s.follow /\ now > view.userUntil /\ now > view.flightUntil
                  /\ s.vehicle # None /\ view'.pulled[1] = s.vehicle.id)
<1> DEFINE e == Effects
           w == Cleared(e)
<1>1. StateTyped /\ SelectionRight
  BY InvGives
<1>2. view # None /\ rendered' = Deps
      /\ UNCHANGED <<stores, answers, inStep, lastCamera, letGo, now, left>>
  BY DEF MapEffects
<1>3. view' = w /\ lookups' = lookups \cup e.asks
  BY DEF MapEffects, Show, Effects, Cleared
<1>4. /\ e \in View /\ ShortTrails(e) /\ Airborne(e, now) /\ PullUnderway(e) /\ Caught(e, Deps)
  BY <1>1, <1>2, EffectsAre DEF IInv
<1> HIDE DEF e
<1>5. /\ w \in View /\ w.asks = {} /\ Stage(w) = Stage(e) /\ Flying(w) = Flying(e)
      /\ w.pulled = e.pulled /\ w.camera = e.camera /\ w.focus = e.focus /\ w.trails = e.trails
  BY <1>4, ClearedIs
<1>6. Caught(w, Deps)
  BY <1>4, ClearedCaught
<1> HIDE DEF w
<1>7. ShortTrails(w) /\ Airborne(w, now)
  BY <1>4, <1>5 DEF ShortTrails, Airborne, Stage, Flying
<1>8. Mounted' /\ view' # None
  BY <1>1, <1>2, <1>3, <1>5, <1>6, <1>7, MountedAnew DEF stores
<1>9. Selecting'
  BY <1>2 DEF IInv, Selecting, stores
<1>10. StoresTyped'
  BY <1>2 DEF IInv, StoresTyped, stores
<1>11. NetworkTyped'
  <2>1. e.asks \subseteq Asks
    BY <1>4 DEF View, SetOf
  <2>2. QED
    BY <1>2, <1>3, <2>1 DEF IInv, NetworkTyped
<1>12. ViewTyped'
  <2>1. Deps \in Dependencies
    BY <1>1, DepsAre
  <2>2. ShortTrails(view)'
    BY <1>3, <1>7 DEF ShortTrails
  <2>3. QED
    BY <1>2, <1>3, <1>5, <1>8, <2>1, <2>2 DEF IInv, ViewTyped, Maybe, stores
<1>13. QED
  BY <1>2, <1>3, <1>4, <1>5, <1>8, <1>9, <1>10, <1>11, <1>12 DEF IInv, PullUnderway

LEMMA DrawerStep ==
    ASSUME IInv, DrawerEffect
    PROVE  KeepsInv
<1> DEFINE at == [ v \in Vehicle |-> PositionOf(rows[v]) ]
           t == InStep(s, outlines, drawer.item, rows, at)
<1>1. /\ inStep' = <<drawer.item, page>>
      /\ s' = IF page \in InStepPages THEN t ELSE s
      /\ letGo' = (letGo /\ (s'.vehicle = None \/ s'.vehicle = s.vehicle))
      /\ UNCHANGED <<page, drawer, live, rows, known, outlines, roads, layers, network, view,
                     rendered, lastCamera, now, left>>
  BY DEF DrawerEffect
<1> HIDE DEF at
<1>2. outlines \in BOOLEAN /\ (outlines \/ s.region = None) /\ s \in Selections
      /\ drawer.item \in Maybe(Items) /\ rows \in [ Vehicle -> Row ]
      /\ (\A v \in Vehicle : rows[v].id = v) /\ Coherent(s) /\ letGo \in BOOLEAN
  BY InvGives DEF IInv, StoresTyped, Selecting, Remembers, Drawers
<1>3. /\ t \in Selections /\ Coherent(t)
      /\ drawer.item = None => ~Selected(t) /\ (s = NoSelection => t = NoSelection)
      /\ t.follow => s.follow \/ (t.vehicle # None /\ t.vehicle # s.vehicle)
  BY <1>2, InStepIs
<1> HIDE DEF t
<1>4. s' \in Selections /\ Coherent(s') /\ letGo' \in BOOLEAN
  BY <1>1, <1>2, <1>3
<1>5. Mounted'
  BY <1>1, MountedKept DEF IInv
<1>6. Selecting'
  <2>1. ~known => s' = NoSelection /\ drawer' = NoDrawer
    BY <1>1, <1>3 DEF IInv, Selecting, NoDrawer
  <2>2. inStep'[1] = None /\ inStep'[2] \in InStepPages => ~Selected(s')
    BY <1>1, <1>3
  <2>3. letGo' => ~s'.follow
    BY <1>1, <1>2, <1>3 DEF IInv, Selecting
  <2>4. QED
    BY <1>1, <1>4, <2>1, <2>2, <2>3 DEF IInv, Selecting, Coherent, Selected
<1>7. StoresTyped' /\ NetworkTyped' /\ ViewTyped'
  BY <1>1, <1>4 DEF IInv, StoresTyped, NetworkTyped, ViewTyped, network, ShortTrails, Remembers
<1>8. Still
  BY <1>1 DEF Still
<1>9. QED
  BY <1>5, <1>6, <1>7, <1>8 DEF IInv, KeepsInv

LEMMA LoadStep ==
    ASSUME IInv, Load
    PROVE  KeepsInv
<1> DEFINE e == Loaded
           w == Cleared(e)
<1>1. StateTyped
  BY InvGives
<1>2. view # None /\ ~view.ready /\ Settled
      /\ UNCHANGED <<stores, answers, rendered, inStep, lastCamera, letGo, now, left>>
  BY DEF Load
<1>3. view' = w /\ lookups' = lookups \cup e.asks
  BY DEF Load, Show, Loaded, Moved, Seeded, Stand, Cleared
<1>4. rendered = Deps
  BY <1>2, SettledGives
<1>5. /\ e \in View /\ ShortTrails(e) /\ Airborne(e, now) /\ Caught(e, Deps)
      /\ e.pulled = view.pulled
  BY <1>1, <1>2, <1>4, LoadedIs DEF IInv
<1> HIDE DEF e
<1>6. /\ w \in View /\ w.asks = {} /\ Stage(w) = Stage(e) /\ Flying(w) = Flying(e)
      /\ w.pulled = e.pulled /\ w.camera = e.camera /\ w.focus = e.focus /\ w.trails = e.trails
  BY <1>5, ClearedIs
<1>7. Caught(w, Deps)
  BY <1>5, ClearedCaught
<1> HIDE DEF w
<1>8. ShortTrails(w) /\ Airborne(w, now)
  BY <1>5, <1>6 DEF ShortTrails, Airborne, Stage, Flying
<1>9. Mounted' /\ view' # None
  BY <1>1, <1>2, <1>3, <1>4, <1>6, <1>7, <1>8, MountedAnew DEF stores
<1>10. Selecting'
  BY <1>2 DEF IInv, Selecting, stores
<1>11. StoresTyped'
  BY <1>2 DEF IInv, StoresTyped, stores
<1>12. NetworkTyped'
  <2>1. e.asks \subseteq Asks
    BY <1>5 DEF View, SetOf
  <2>2. QED
    BY <1>2, <1>3, <2>1 DEF IInv, NetworkTyped
<1>13. ViewTyped'
  <2>1. ShortTrails(view)'
    BY <1>3, <1>8 DEF ShortTrails
  <2>2. QED
    BY <1>2, <1>3, <1>6, <1>9, <2>1 DEF IInv, ViewTyped, Maybe, stores
<1>14. Still
  BY <1>3, <1>5, <1>6 DEF Still
<1>15. QED
  BY <1>9, <1>10, <1>11, <1>12, <1>13, <1>14 DEF IInv, KeepsInv

LEMMA SpendIs ==
    ASSUME IInv, NEW what \in { "user", "feed", "clock", "load" }, Spend(what)
    PROVE  left' \in Budget
BY DEF IInv, StoresTyped, Spend, Budget

LEMMA ReportStep ==
    ASSUME IInv, NEW id \in Marker, Report(id)
    PROVE  KeepsInv
<1>1. left' \in Budget
  BY SpendIs DEF Report
<1>2. UNCHANGED <<page, drawer, s, known, outlines, roads, layers, network, view, rendered,
                  inStep, lastCamera, letGo, now>>
  BY DEF Report
<1>3. PICK next \in DOMAIN Script[id] : \E u \in Script[id][next] :
        /\ live' = [ live EXCEPT ![id] = u ]
        /\ rows' = IF id \in Vehicle
                   THEN [ rows EXCEPT ![id] = [ id |-> id, pos |-> u.pos,
                              node |-> IF u.node # None THEN u.node ELSE @.node ] ]
                   ELSE rows
  BY DEF Report
<1>4. PICK u \in Script[id][next] :
        /\ live' = [ live EXCEPT ![id] = u ]
        /\ rows' = IF id \in Vehicle
                   THEN [ rows EXCEPT ![id] = [ id |-> id, pos |-> u.pos,
                              node |-> IF u.node # None THEN u.node ELSE @.node ] ]
                   ELSE rows
  BY <1>3
<1>5. u \in Update
  BY FeedAssumption
<1>6. live \in [ Marker -> Maybe(Update) ] /\ rows \in [ Vehicle -> Row ]
      /\ \A v \in Vehicle : rows[v].id = v
  BY DEF IInv, StoresTyped, Selecting
<1>7. live' \in [ Marker -> Maybe(Update) ]
  BY <1>4, <1>5, <1>6 DEF Maybe
<1>8. rows' \in [ Vehicle -> Row ] /\ \A v \in Vehicle : rows'[v].id = v
  <2>1. CASE id \notin Vehicle
    BY <1>4, <1>6, <2>1
  <2>2. CASE id \in Vehicle
    <3> DEFINE row == [ id |-> id, pos |-> u.pos,
                        node |-> IF u.node # None THEN u.node ELSE rows[id].node ]
    <3>1. rows[id].node \in Known
      BY <1>6, <2>2 DEF Row
    <3>2. row \in Row /\ row.id = id
      BY <1>5, <2>2, <3>1 DEF Row, Update
    <3>3. rows' = [ rows EXCEPT ![id] = row ]
      BY <1>4, <2>2
    <3> HIDE DEF row
    <3>4. QED
      BY <1>6, <3>2, <3>3
  <2>3. QED
    BY <2>1, <2>2
<1>9. Mounted'
  BY <1>2, MountedKept DEF IInv
<1>10. Selecting'
  BY <1>2, <1>8 DEF IInv, Selecting
<1>11. StoresTyped'
  BY <1>1, <1>2, <1>7, <1>8 DEF IInv, StoresTyped
<1>12. NetworkTyped' /\ ViewTyped'
  BY <1>2 DEF IInv, NetworkTyped, ViewTyped, network, ShortTrails
<1>13. Still
  BY <1>2 DEF Still
<1>14. QED
  BY <1>9, <1>10, <1>11, <1>12, <1>13 DEF IInv, KeepsInv

LEMMA PollStep ==
    ASSUME IInv, PollAnswers
    PROVE  KeepsInv
<1> DEFINE t == RefreshVehicle(s, rows[s.vehicle.id])
<1>1. /\ s.vehicle # None /\ s' = t
      /\ UNCHANGED <<page, drawer, live, rows, known, outlines, roads, layers, network, view,
                     rendered, inStep, lastCamera, letGo, now, left>>
  BY DEF PollAnswers
<1>2. s.vehicle.id \in Vehicle /\ s \in Selections /\ rows \in [ Vehicle -> Row ]
  BY <1>1, InvGives, SelectedReport DEF IInv, StoresTyped
<1>3. /\ t \in Selections /\ t.follow = s.follow /\ (Coherent(s) => Coherent(t))
      /\ s.vehicle # None => Selected(t)
  BY <1>2, RefreshIs
<1> HIDE DEF t
<1>4. Mounted'
  BY <1>1, MountedKept DEF IInv
<1>5. known /\ ~(inStep[1] = None /\ inStep[2] \in InStepPages)
  <2>1. Selected(s) /\ s # NoSelection
    BY <1>1 DEF Selected, NoSelection
  <2>2. known \in BOOLEAN
    BY DEF IInv, StoresTyped
  <2>3. QED
    BY <2>1, <2>2 DEF IInv, Selecting
<1>6. Selecting'
  BY <1>1, <1>3, <1>5 DEF IInv, Selecting
<1>7. StoresTyped' /\ NetworkTyped' /\ ViewTyped'
  BY <1>1, <1>3 DEF IInv, StoresTyped, NetworkTyped, ViewTyped, network, ShortTrails
<1>8. Still
  BY <1>1 DEF Still
<1>9. QED
  BY <1>4, <1>6, <1>7, <1>8 DEF IInv, KeepsInv

LEMMA DataStep ==
    ASSUME IInv, DataArrives
    PROVE  KeepsInv
<1>1. left' \in Budget
  BY SpendIs DEF DataArrives
<1>2. /\ known' = TRUE /\ outlines' = TRUE
      /\ UNCHANGED <<page, drawer, s, live, rows, roads, layers, network, view, rendered, inStep,
                     lastCamera, letGo, now>>
  BY DEF DataArrives
<1>3. Mounted'
  BY <1>2, MountedKept DEF IInv
<1>4. Selecting'
  BY <1>2 DEF IInv, Selecting
<1>5. StoresTyped' /\ NetworkTyped' /\ ViewTyped'
  BY <1>1, <1>2 DEF IInv, StoresTyped, NetworkTyped, ViewTyped, network, ShortTrails
<1>6. Still
  BY <1>2 DEF Still
<1>7. QED
  BY <1>3, <1>4, <1>5, <1>6 DEF IInv, KeepsInv

LEMMA RoadsStep ==
    ASSUME IInv, RoadsArrive
    PROVE  KeepsInv
<1>1. left' \in Budget
  BY SpendIs DEF RoadsArrive
<1>2. /\ roads' \in { Corridors, << >> }
      /\ UNCHANGED <<page, drawer, s, live, rows, known, outlines, layers, network, view,
                     rendered, inStep, lastCamera, letGo, now>>
  BY DEF RoadsArrive
<1>3. Mounted'
  BY <1>2, MountedKept DEF IInv
<1>4. Selecting'
  BY <1>2 DEF IInv, Selecting
<1>5. StoresTyped' /\ NetworkTyped' /\ ViewTyped'
  BY <1>1, <1>2
     DEF IInv, StoresTyped, NetworkTyped, ViewTyped, network, ShortTrails, Networks, Maybe
<1>6. Still
  BY <1>2 DEF Still
<1>7. QED
  BY <1>3, <1>4, <1>5, <1>6 DEF IInv, KeepsInv

Drawing(w, road) == [ w EXCEPT !.liveRoute = road ]

LEMMA DrawingIs ==
    ASSUME NEW w \in View, NEW road \in Maybe(Asks)
    PROVE  LET t == Drawing(w, road)
           IN  /\ t \in View /\ Stage(t) = Stage(w) /\ Subject(t) = Subject(w)
               /\ Route(t) = Route(w) /\ Aim(t) = Aim(w) /\ Flying(t) = Flying(w)
               /\ Others(t) = Others(w) /\ t.hidden = w.hidden /\ t.pulled = w.pulled
BY DEF View, Drawing, Stage, Subject, Route, Aim, Flying, Others

LEMMA RouteStep ==
    ASSUME IInv, NEW ask \in lookups, RouteAnswers(ask)
    PROVE  KeepsInv
<1>1. PICK found \in BOOLEAN :
          /\ answers' = [ a \in DOMAIN answers \cup { ask } |->
                            IF a = ask THEN found ELSE answers[a] ]
          /\ view' = IF view = None THEN view
                     ELSE [ view EXCEPT !.liveRoute = IF found THEN ask ELSE None ]
  BY DEF RouteAnswers
<1>2. /\ lookups' = lookups \ { ask } /\ Settled
      /\ UNCHANGED <<stores, rendered, inStep, lastCamera, letGo, now, left>>
  BY DEF RouteAnswers
<1>3. ask \in Asks
  BY DEF IInv, NetworkTyped
<1>4. NetworkTyped'
  BY <1>1, <1>2, <1>3 DEF IInv, NetworkTyped
<1>5. StoresTyped' /\ Selecting'
  BY <1>2 DEF IInv, StoresTyped, Selecting, stores
<1>6. CASE view = None
  <2>1. view' = view
    BY <1>1, <1>6
  <2>2. Mounted'
    BY <1>2, <2>1, MountedKept DEF IInv, stores
  <2>3. ViewTyped' /\ Still
    BY <1>2, <2>1 DEF IInv, ViewTyped, ShortTrails, Still, stores
  <2>4. QED
    BY <1>4, <1>5, <2>2, <2>3 DEF IInv, KeepsInv
<1>7. CASE view # None
  <2> DEFINE road == IF found THEN ask ELSE None
             w == Drawing(view, road)
  <2>1. road \in Maybe(Asks)
    BY <1>3 DEF Maybe
  <2>2. view' = w
    BY <1>1, <1>7 DEF Drawing
  <2>3. /\ rendered = Deps /\ Caught(view, Deps) /\ view \in View /\ ShortTrails(view)
        /\ view.asks = {} /\ Airborne(view, now)
    BY <1>2, <1>7, SettledGives
  <2> HIDE DEF road
  <2>4. /\ w \in View /\ Stage(w) = Stage(view) /\ Subject(w) = Subject(view)
        /\ Route(w) = Route(view) /\ Aim(w) = Aim(view) /\ Flying(w) = Flying(view)
        /\ Others(w) = Others(view) /\ w.hidden = view.hidden /\ w.pulled = view.pulled
    BY <2>1, <2>3, DrawingIs
  <2> HIDE DEF w
  <2>5. /\ w.ready = view.ready /\ w.data = view.data /\ w.arrived = view.arrived
        /\ w.revealed = view.revealed /\ w.had = view.had /\ w.shows = view.shows
        /\ w.flight = view.flight /\ w.flightUntil = view.flightUntil
        /\ w.camera = view.camera /\ w.focus = view.focus /\ w.asks = view.asks
        /\ w.trails = view.trails
    BY <2>4 DEF Stage, Aim, Flying, Others
  <2>6. ShortTrails(w) /\ Airborne(w, now) /\ AimRight(w, Deps.s)
    BY <2>3, <2>5 DEF ShortTrails, Airborne, AimRight, Caught
  <2>7. Caught(w, Deps)
    BY <2>3, <2>4, <2>5, <2>6, CaughtKept
  <2>8. rendered' = Deps /\ now' = now /\ known' = known
    BY <1>2, <2>3 DEF stores
  <2>9. Mounted' /\ view' # None
    BY <2>2, <2>3, <2>4, <2>5, <2>6, <2>7, <2>8, InvGives, MountedAnew
  <2>10. ViewTyped'
    <3>1. ShortTrails(view)'
      BY <2>2, <2>6 DEF ShortTrails
    <3>2. QED
      BY <1>2, <1>7, <2>2, <2>4, <2>9, <3>1 DEF IInv, ViewTyped, Maybe, stores
  <2>11. Still
    BY <2>2, <2>4 DEF Still
  <2>12. QED
    BY <1>4, <1>5, <2>9, <2>10, <2>11 DEF IInv, KeepsInv
<1>8. QED
  BY <1>6, <1>7

\* A view that comes to rest, of a map whose effects have run.
LEMMA RestStep ==
    ASSUME IInv, Settled, view # None, NEW w \in View, ShortTrails(w), w.ready, w.asks = {},
           Caught(w, Deps), w.pulled = view.pulled, NEW at \in Nat,
           view' = Ended(w, at), lastCamera' = w.camera, now' = at,
           UNCHANGED <<page, known, rendered>>
    PROVE  Mounted' /\ ViewTyped' /\ Still
<1> DEFINE t == Ended(w, at)
<1>1. rendered = Deps /\ StateTyped
  BY SettledGives, InvGives
<1>2. /\ t \in View /\ ShortTrails(t) /\ Airborne(t, at) /\ t.asks = w.asks
      /\ t.pulled = w.pulled /\ Caught(t, Deps)
  BY <1>1, EndedIs
<1> HIDE DEF t
<1>3. view' = t
  BY DEF t
<1>4. Mounted' /\ view' # None
  BY <1>1, <1>2, <1>3, MountedAnew
<1>5. ViewTyped'
  <2>1. ShortTrails(view)'
    BY <1>2, <1>3 DEF ShortTrails
  <2>2. w.camera \in Cameras
    BY DEF View
  <2>3. QED
    BY <1>2, <1>3, <1>4, <2>1, <2>2 DEF IInv, ViewTyped, Maybe
<1>6. Still
  BY <1>2, <1>3 DEF Still
<1>7. QED
  BY <1>4, <1>5, <1>6

\* The camera set down, by hand or where its flight was to end.
SetDown(w, camera) == [ w EXCEPT !.camera = camera ]
ByHand(w, camera, until) == [ w EXCEPT !.camera = camera, !.userUntil = until, !.shows = "user" ]
Grounded(w) == [ w EXCEPT !.flight = None ]

LEMMA SetDownIs ==
    ASSUME NEW w \in View, NEW camera \in Cameras
    PROVE  LET t == SetDown(w, camera)
           IN  /\ t \in View /\ Stage(t) = Stage(w) /\ Subject(t) = Subject(w)
               /\ Route(t) = Route(w) /\ Aim(t) = Aim(w) /\ Flying(t) = Flying(w)
               /\ t.hidden = w.hidden /\ t.pulled = w.pulled /\ t.trails = w.trails
               /\ t.asks = w.asks /\ t.focus = w.focus /\ t.camera = camera
BY DEF View, SetDown, Stage, Subject, Route, Aim, Flying

LEMMA GroundedIs ==
    ASSUME NEW w \in View
    PROVE  LET t == Grounded(w)
           IN  /\ t \in View /\ Stage(t) = Stage(w) /\ Subject(t) = Subject(w)
               /\ Route(t) = Route(w) /\ Aim(t) = Aim(w) /\ t.flight = None
               /\ t.hidden = w.hidden /\ t.pulled = w.pulled /\ t.trails = w.trails
               /\ t.asks = w.asks /\ t.focus = w.focus
<1>1. None \in Maybe(Flights)
  BY DEF Maybe
<1>2. QED
  BY <1>1 DEF View, Grounded, Stage, Subject, Route, Aim

LEMMA ByHandIs ==
    ASSUME NEW w \in View, NEW camera \in Cameras, NEW until \in Nat
    PROVE  LET t == ByHand(w, camera, until)
           IN  /\ t \in View /\ Stage(t) = Stage(w) /\ Subject(t) = Subject(w)
               /\ Route(t) = Route(w) /\ t.had = w.had /\ t.shows = "user"
               /\ t.hidden = w.hidden /\ t.pulled = w.pulled /\ t.trails = w.trails
               /\ t.asks = w.asks
<1>1. "user" \in Maybe(Shown)
  BY DEF Maybe, Shown
<1>2. QED
  BY <1>1 DEF View, ByHand, Stage, Subject, Route

LEMMA AdvanceStep ==
    ASSUME IInv, Advance
    PROVE  KeepsInv
<1>1. left' \in Budget
  BY SpendIs DEF Advance
<1>2. Settled /\ UNCHANGED <<stores, network, rendered, inStep, letGo>>
  BY DEF Advance
<1>3. now \in Nat /\ Steps \subseteq Nat
  BY TimeAssumption DEF IInv, StoresTyped
<1>4. Selecting' /\ NetworkTyped'
  BY <1>2 DEF IInv, Selecting, NetworkTyped, stores, network
<1>5. now' \in Nat => StoresTyped'
  BY <1>1, <1>2 DEF IInv, StoresTyped, stores
<1>6. CASE view = None \/ view.flight = None
  <2>1. (\E step \in Steps : now' = now + step) /\ UNCHANGED onMap
    BY <1>6 DEF Advance
  <2>2. now' \in Nat
    BY <1>3, <2>1
  <2>3. Mounted'
    BY <1>2, <1>6, <2>1 DEF IInv, Mounted, onMap, stores, ShortTrails, Airborne
  <2>4. ViewTyped' /\ Still
    BY <1>2, <2>1 DEF IInv, ViewTyped, onMap, stores, ShortTrails, Still
  <2>5. QED
    BY <1>4, <1>5, <2>2, <2>3, <2>4 DEF IInv, KeepsInv
<1>7. CASE view # None /\ view.flight # None
  <2>1. view \in View /\ rendered = Deps /\ Caught(view, Deps) /\ ShortTrails(view)
        /\ view.asks = {} /\ Airborne(view, now) /\ StateTyped
    BY <1>2, <1>7, SettledGives, InvGives
  <2> DEFINE at == view.flight.ends
             to == view.flight.to
             w == SetDown(view, to)
  <2>2. at \in Nat /\ to \in Cameras
    BY <1>7, <2>1 DEF View, Maybe, Flights
  <2>3. \/ now' = at /\ Rest(w, at)
        \/ (\E step \in Steps : now' = now + step) /\ now' < at /\ UNCHANGED onMap
    BY <1>7 DEF Advance, SetDown, Rest
  <2>4. CASE (\E step \in Steps : now' = now + step) /\ now' < at /\ UNCHANGED onMap
    <3>1. now' \in Nat
      BY <1>3, <2>4
    <3>2. Mounted'
      BY <1>2, <1>3, <2>2, <2>4, <3>1 DEF IInv, Mounted, onMap, stores, ShortTrails, Airborne
    <3>3. ViewTyped' /\ Still
      BY <1>2, <2>4 DEF IInv, ViewTyped, onMap, stores, ShortTrails, Still
    <3>4. QED
      BY <1>4, <1>5, <3>1, <3>2, <3>3 DEF IInv, KeepsInv
  <2>5. CASE now' = at /\ Rest(w, at)
    <3> HIDE DEF at, to
    <3>1. /\ w \in View /\ Stage(w) = Stage(view) /\ Subject(w) = Subject(view)
          /\ Route(w) = Route(view) /\ Aim(w) = Aim(view)
          /\ w.hidden = view.hidden /\ w.pulled = view.pulled /\ w.trails = view.trails
          /\ w.asks = view.asks /\ w.focus = view.focus
      BY <2>1, <2>2, SetDownIs
    <3> HIDE DEF w
    <3>2. /\ w.ready = view.ready /\ w.data = view.data /\ w.arrived = view.arrived
          /\ w.revealed = view.revealed /\ w.had = view.had /\ w.shows = view.shows
      BY <3>1 DEF Stage, Aim
    <3>3. AimRight(w, Deps.s) /\ ShortTrails(w)
      BY <2>1, <3>1, <3>2 DEF Caught, AimRight, ShortTrails
    <3>4. Caught(w, Deps)
      BY <2>1, <3>1, <3>2, <3>3, CaughtKept
    <3>5. CASE w.ready
      <4>1. view' = Ended(w, at) /\ lastCamera' = w.camera
        BY <2>5, <3>5 DEF Rest
      <4>2. UNCHANGED <<page, known, rendered>>
        BY <1>2 DEF stores
      <4>3. Mounted' /\ ViewTyped' /\ Still
        BY <1>2, <1>7, <2>1, <2>2, <2>5, <3>1, <3>3, <3>4, <3>5, <4>1, <4>2, RestStep
      <4>4. QED
        BY <1>4, <1>5, <2>2, <2>5, <4>3 DEF IInv, KeepsInv
    <3>6. CASE ~w.ready
      <4> DEFINE t == Grounded(w)
      <4>1. view' = t /\ UNCHANGED lastCamera
        BY <2>5, <3>6 DEF Rest, Grounded
      <4>2. /\ t \in View /\ Stage(t) = Stage(w) /\ Subject(t) = Subject(w)
            /\ Route(t) = Route(w) /\ Aim(t) = Aim(w) /\ t.flight = None
            /\ t.hidden = w.hidden /\ t.pulled = w.pulled /\ t.trails = w.trails
            /\ t.asks = w.asks /\ t.focus = w.focus
        BY <3>1, GroundedIs
      <4> HIDE DEF t
      <4>3. /\ t.ready = w.ready /\ t.data = w.data /\ t.arrived = w.arrived
            /\ t.revealed = w.revealed /\ t.had = w.had /\ t.shows = w.shows
        BY <4>2 DEF Stage, Aim
      <4>4. AimRight(t, Deps.s) /\ ShortTrails(t)
        BY <3>3, <4>2, <4>3 DEF AimRight, ShortTrails
      <4>5. Caught(t, Deps)
        BY <3>4, <4>2, <4>3, <4>4, CaughtKept
      <4>6. Airborne(t, at)
        BY <2>1, <3>1, <3>2, <3>6, <4>2, <4>3 DEF Airborne
      <4>7. rendered' = Deps /\ known' = known /\ page' = page
        BY <1>2, <2>1 DEF stores
      <4>8. Mounted' /\ view' # None
        BY <2>1, <2>5, <3>1, <4>1, <4>2, <4>4, <4>5, <4>6, <4>7, MountedAnew
      <4>9. ShortTrails(view)'
        BY <4>1, <4>4 DEF ShortTrails
      <4>10. ViewTyped'
        BY <1>2, <1>7, <4>1, <4>2, <4>7, <4>8, <4>9 DEF IInv, ViewTyped, Maybe
      <4>11. Still
        BY <3>1, <4>1, <4>2 DEF Still
      <4>12. QED
        BY <1>4, <1>5, <2>2, <2>5, <4>8, <4>10, <4>11 DEF IInv, KeepsInv
    <3>7. QED
      BY <3>5, <3>6
  <2>6. QED
    BY <2>3, <2>4, <2>5
<1>8. QED
  BY <1>6, <1>7

LEMMA LookStep ==
    ASSUME IInv, Act, NEW camera \in Cameras, NEW drag \in BOOLEAN, Look(camera, drag)
    PROVE  KeepsInv
<1> DEFINE until == now + GraceMs
           w == ByHand(view, camera, until)
<1>1. left' \in Budget /\ Settled
  BY SpendIs DEF Act
<1>2. /\ view # None /\ view.ready /\ Rest(w, now)
      /\ s' = IF drag /\ view.follow THEN SetFollow(s, FALSE) ELSE s
      /\ letGo' = (letGo \/ drag)
      /\ UNCHANGED <<page, drawer, live, rows, known, outlines, roads, layers, network, rendered,
                     inStep, now>>
  BY DEF Look, ByHand
<1>3. view \in View /\ rendered = Deps /\ Caught(view, Deps) /\ ShortTrails(view)
      /\ view.asks = {} /\ Airborne(view, now) /\ StateTyped
  BY <1>1, <1>2, SettledGives, InvGives
<1>4. now \in Nat /\ until \in Nat
  BY TimeAssumption DEF IInv, StoresTyped
<1> HIDE DEF until
<1>5. /\ w \in View /\ Stage(w) = Stage(view) /\ Subject(w) = Subject(view)
      /\ Route(w) = Route(view) /\ w.had = view.had /\ w.shows = "user"
      /\ w.hidden = view.hidden /\ w.pulled = view.pulled /\ w.trails = view.trails
      /\ w.asks = view.asks
  BY <1>3, <1>4, ByHandIs
<1> HIDE DEF w
<1>6. /\ w.ready = view.ready /\ w.data = view.data /\ w.arrived = view.arrived
      /\ w.revealed = view.revealed
  BY <1>5 DEF Stage
<1>7. AimRight(w, Deps.s) /\ ShortTrails(w)
  BY <1>3, <1>5, <1>6 DEF Caught, AimRight, Good, ShortTrails
<1>8. Caught(w, Deps)
  BY <1>3, <1>5, <1>6, <1>7, CaughtKept
<1>9. view' = Ended(w, now) /\ lastCamera' = w.camera
  BY <1>2, <1>6 DEF Rest
<1>10. Mounted' /\ ViewTyped' /\ Still
  BY <1>1, <1>2, <1>3, <1>4, <1>5, <1>6, <1>7, <1>8, <1>9, RestStep
<1>11. view.follow = s.follow /\ s \in Selections /\ letGo \in BOOLEAN
  BY <1>3, DepsAre DEF Caught, IInv, StoresTyped
<1> DEFINE off == SetFollow(s, FALSE)
<1>12. /\ off \in Selections /\ off.follow = FALSE /\ (Coherent(s) => Coherent(off))
       /\ Selected(off) = Selected(s)
  BY <1>11, SetFollowIs
<1> HIDE DEF off
<1>13. s' = IF drag /\ s.follow THEN off ELSE s
  BY <1>2, <1>11 DEF off
<1>14. Selecting'
  <2>1. ~known => s' = NoSelection /\ drawer' = NoDrawer
    BY <1>2, <1>13, NothingIs DEF IInv, Selecting
  <2>2. letGo' => ~s'.follow
    BY <1>2, <1>11, <1>12, <1>13 DEF IInv, Selecting
  <2>3. Coherent(s') /\ (Selected(s') = Selected(s))
    BY <1>12, <1>13 DEF IInv, Selecting
  <2>4. QED
    BY <1>2, <2>1, <2>2, <2>3 DEF IInv, Selecting
<1>15. StoresTyped' /\ NetworkTyped'
  <2>1. s' \in Selections
    BY <1>11, <1>12, <1>13
  <2>2. QED
    BY <1>1, <1>2, <1>11, <2>1 DEF IInv, StoresTyped, NetworkTyped, network
<1>16. QED
  BY <1>10, <1>14, <1>15 DEF IInv, KeepsInv

LEMMA DragStep ==
    ASSUME IInv, NEW p \in Places, Drag(p)
    PROVE  KeepsInv
<1>1. view # None /\ view \in View
  BY InvGives DEF Drag, Look
<1>2. Camera(p, view.camera.near) \in Cameras
  BY <1>1, GroundAssumption DEF Camera, Cameras, View
<1>3. QED
  BY <1>2, LookStep DEF Drag

LEMMA WheelStep ==
    ASSUME IInv, Wheel
    PROVE  KeepsInv
<1>1. view # None /\ view \in View
  BY InvGives DEF Wheel, Look
<1>2. Camera(view.camera.center, ~view.camera.near) \in Cameras
  BY <1>1 DEF Camera, Cameras, View
<1>3. QED
  BY <1>2, LookStep DEF Wheel

----------------------------------------------------------------------------
\* The user.

\* A step that changes the drawer and the selection.
LEMMA StoresChange ==
    ASSUME IInv, Act, NEW d, Remembers(d), NEW sel \in Selections, Coherent(sel),
           Selected(sel) => Selected(s) \/ drawer.item # None,
           known \/ (d = NoDrawer /\ sel = NoSelection),
           ChangeStores(d, sel)
    PROVE  /\ StoresTyped' /\ NetworkTyped' /\ Selecting'
           /\ UNCHANGED <<page, known, rendered, now>>
<1>1. left' \in Budget /\ Settled
  BY SpendIs DEF Act
<1>2. /\ drawer' = d /\ s' = sel
      /\ letGo' = (letGo /\ ~(sel.follow /\ sel # s))
      /\ UNCHANGED <<page, live, rows, known, outlines, roads, layers, network, rendered,
                     inStep, now>>
  BY DEF ChangeStores
<1>3. letGo \in BOOLEAN /\ sel.follow \in BOOLEAN
  BY DEF IInv, StoresTyped, Selections
<1>4. StoresTyped' /\ NetworkTyped'
  BY <1>1, <1>2, <1>3 DEF IInv, StoresTyped, NetworkTyped, network
<1>5. letGo' => ~s'.follow
  BY <1>2, <1>3 DEF IInv, Selecting
<1>6. inStep'[1] = None /\ inStep'[2] \in InStepPages => ~Selected(s')
  BY <1>1, <1>2 DEF IInv, Selecting, Settled
<1>7. Coherent(s') /\ (~known => drawer' = NoDrawer /\ s' = NoSelection)
  BY <1>2
<1>8. Selecting'
  BY <1>2, <1>5, <1>6, <1>7 DEF IInv, Selecting
<1>9. QED
  BY <1>2, <1>4, <1>8

LEMMA StoresOnly ==
    ASSUME IInv, Act, NEW d, Remembers(d), NEW sel \in Selections, Coherent(sel),
           Selected(sel) => Selected(s) \/ drawer.item # None,
           known \/ (d = NoDrawer /\ sel = NoSelection),
           ChangeStores(d, sel), UNCHANGED onMap
    PROVE  KeepsInv
<1>1. /\ StoresTyped' /\ NetworkTyped' /\ Selecting'
      /\ UNCHANGED <<page, known, rendered, now>>
  BY StoresChange
<1>2. UNCHANGED <<view, lastCamera>>
  BY DEF onMap
<1>3. Mounted'
  BY <1>1, <1>2, MountedKept DEF IInv
<1>4. ViewTyped' /\ Still
  BY <1>1, <1>2 DEF IInv, ViewTyped, ShortTrails, Still
<1>5. QED
  BY <1>1, <1>3, <1>4 DEF IInv, KeepsInv

LEMMA StoresGive ==
    ASSUME IInv
    PROVE  /\ s \in Selections /\ Coherent(s) /\ Remembers(drawer)
           /\ known \in BOOLEAN /\ outlines \in BOOLEAN /\ known = outlines
           /\ rows \in [ Vehicle -> Row ] /\ (\A v \in Vehicle : rows[v].id = v)
           /\ drawer # NoDrawer \/ s # NoSelection => known
           /\ Selected(s) => known
<1>1. Selected(s) => s # NoSelection
  BY DEF Selected, NoSelection
<1>2. QED
  BY <1>1 DEF IInv, StoresTyped, Selecting

LEMMA OpenStep ==
    ASSUME IInv, NEW item \in Items, Open(item)
    PROVE  KeepsInv
<1>1. Act /\ known /\ ChangeStores(OpenItem(drawer, item), s) /\ UNCHANGED onMap
  BY DEF Open
<1>2. Remembers(OpenItem(drawer, item))
  BY StoresGive, OpenItemIs
<1>3. QED
  BY <1>1, <1>2, StoresGive, StoresOnly

LEMMA OpenFocusStep ==
    ASSUME IInv, OpenFocus
    PROVE  KeepsInv
<1>1. view # None /\ view.focus # None /\ Open(Item("region", view.focus.id))
  BY DEF OpenFocus
<1>2. view.focus \in Chips
  BY <1>1, InvGives DEF View, Maybe
<1>3. PICK a \in DOMAIN Areas : view.focus = Areas[a]
  BY <1>2 DEF Chips
<1>4. view.focus.id = a
  BY <1>3, PlaceAssumption
<1>5. Item("region", view.focus.id) \in Items
  BY <1>4 DEF Items
<1>6. QED
  BY <1>1, <1>5, OpenStep

LEMMA CloseStep ==
    ASSUME IInv, Close
    PROVE  KeepsInv
<1>1. Act /\ drawer # NoDrawer /\ ChangeStores(NoDrawer, s) /\ UNCHANGED onMap
  BY DEF Close
<1>2. QED
  BY <1>1, StoresGive, NothingIs, StoresOnly

LEMMA BackStep ==
    ASSUME IInv, Back
    PROVE  KeepsInv
<1>1. Act /\ drawer.item # None /\ ChangeStores(BackInDrawer(drawer), s) /\ UNCHANGED onMap
  BY DEF Back
<1>2. drawer # NoDrawer
  BY <1>1 DEF NoDrawer
<1>3. Remembers(BackInDrawer(drawer))
  BY StoresGive, BackIs
<1>4. QED
  BY <1>1, <1>2, <1>3, StoresGive, StoresOnly

LEMMA ToggleFollowStep ==
    ASSUME IInv, ToggleFollow
    PROVE  KeepsInv
<1> DEFINE sel == SetFollow(s, ~s.follow)
<1>1. Act /\ s.vehicle # None /\ ChangeStores(drawer, sel) /\ UNCHANGED onMap
  BY DEF ToggleFollow
<1>2. (~s.follow) \in BOOLEAN
  OBVIOUS
<1>3. sel \in Selections /\ Coherent(sel) /\ Selected(sel) = Selected(s)
  BY <1>2, StoresGive, SetFollowIs
<1> HIDE DEF sel
<1>4. Selected(s)
  BY <1>1 DEF Selected
<1>5. QED
  BY <1>1, <1>3, <1>4, StoresGive, StoresOnly

LEMMA SetLayerStep ==
    ASSUME IInv, NEW layer \in Layers, SetLayer(layer)
    PROVE  KeepsInv
<1>1. left' \in Budget
  BY SpendIs DEF SetLayer, Act
<1>2. UNCHANGED <<page, drawer, s, live, rows, known, outlines, roads, network, view, rendered,
                  inStep, lastCamera, letGo, now>>
  BY DEF SetLayer
<1>3. layers' \in SUBSET Layers
  BY DEF SetLayer, IInv, StoresTyped
<1>4. Mounted'
  BY <1>2, MountedKept DEF IInv
<1>5. Selecting'
  BY <1>2 DEF IInv, Selecting
<1>6. StoresTyped'
  BY <1>1, <1>2, <1>3 DEF IInv, StoresTyped
<1>7. NetworkTyped' /\ ViewTyped' /\ Still
  BY <1>2 DEF IInv, NetworkTyped, ViewTyped, network, ShortTrails, Still
<1>8. QED
  BY <1>4, <1>5, <1>6, <1>7 DEF IInv, KeepsInv

\* The Home button's own flight, begun where nothing is selected.
Homing(w) ==
    [ w EXCEPT !.flight = [ to |-> Camera(Home, FALSE), ends |-> now + HomeMs ], !.shows = "home" ]

LEMMA HomingIs ==
    ASSUME IInv, NEW w \in View
    PROVE  LET t == Homing(w)
           IN  /\ t \in View /\ Stage(t) = Stage(w) /\ Subject(t) = Subject(w)
               /\ Route(t) = Route(w) /\ t.had = w.had /\ t.shows = "home"
               /\ t.hidden = w.hidden /\ t.pulled = w.pulled /\ t.trails = w.trails
               /\ t.asks = w.asks /\ t.focus = w.focus /\ t.flight # None
               /\ t.flight.ends = now + HomeMs /\ now + HomeMs \in Nat
<1> DEFINE f == [ to |-> Camera(Home, FALSE), ends |-> now + HomeMs ]
           t == [ w EXCEPT !.flight = f, !.shows = "home" ]
<1>1. now \in Nat /\ HomeMs \in Nat /\ Home \in Point
  BY TimeAssumption, GroundAssumption DEF IInv, StoresTyped, Positive
<1>2. f \in Flights /\ f.ends = now + HomeMs
  BY <1>1 DEF Flights, Camera, Cameras
<1>3. f # None /\ f \in Maybe(Flights) /\ "home" \in Maybe(Shown)
  BY <1>2, SentinelAssumption DEF Maybe, Shown
<1>4. Homing(w) = t
  BY DEF Homing
<1> HIDE DEF f
<1>5. t \in View
  BY <1>3 DEF View
<1>6. /\ Stage(t) = Stage(w) /\ Subject(t) = Subject(w) /\ Route(t) = Route(w)
      /\ t.had = w.had /\ t.shows = "home" /\ t.hidden = w.hidden /\ t.pulled = w.pulled
      /\ t.trails = w.trails /\ t.asks = w.asks /\ t.focus = w.focus /\ t.flight = f
  BY DEF View, Stage, Subject, Route
<1> HIDE DEF t
<1>7. QED
  BY <1>1, <1>2, <1>3, <1>4, <1>5, <1>6

LEMMA HomingStep ==
    ASSUME IInv, Settled, view # None, ~Selected(s), NEW w \in View, ShortTrails(w), w.asks = {},
           Caught(w, Deps), Airborne(w, now), w.ready => w.arrived, w.pulled = view.pulled,
           view' = Homing(w), lastCamera' \in Maybe(Cameras), UNCHANGED <<page, known, rendered, now>>
    PROVE  Mounted' /\ ViewTyped' /\ Still
<1> DEFINE t == Homing(w)
<1>1. /\ t \in View /\ Stage(t) = Stage(w) /\ Subject(t) = Subject(w)
      /\ Route(t) = Route(w) /\ t.had = w.had /\ t.shows = "home"
      /\ t.hidden = w.hidden /\ t.pulled = w.pulled /\ t.trails = w.trails
      /\ t.asks = w.asks /\ t.focus = w.focus /\ t.flight # None
      /\ t.flight.ends = now + HomeMs /\ now + HomeMs \in Nat
  BY HomingIs
<1>2. view' = t
  OBVIOUS
<1> HIDE DEF t
<1>3. /\ t.ready = w.ready /\ t.data = w.data /\ t.arrived = w.arrived
      /\ t.revealed = w.revealed
  BY <1>1 DEF Stage
<1>4. Deps.s = s
  BY DEF Deps
<1>5. Good(s, "home")
  BY DEF Good, Selected
<1>6. AimRight(t, Deps.s) /\ ShortTrails(t)
  BY <1>1, <1>3, <1>4, <1>5 DEF Caught, AimRight, ShortTrails
<1>7. Caught(t, Deps)
  BY <1>1, <1>3, <1>6, CaughtKept
<1>8. Airborne(t, now)
  <2>1. now \in Nat /\ HomeMs \in Nat
    BY TimeAssumption DEF IInv, StoresTyped, Positive
  <2>2. now <= t.flight.ends
    BY <1>1, <2>1
  <2>3. QED
    BY <1>1, <1>3, <2>2 DEF Airborne
<1>9. rendered' = Deps /\ StateTyped
  BY SettledGives, InvGives
<1>10. Mounted' /\ view' # None
  BY <1>1, <1>2, <1>6, <1>7, <1>8, <1>9, MountedAnew
<1>11. ViewTyped'
  <2>1. ShortTrails(view)'
    BY <1>2, <1>6 DEF ShortTrails
  <2>2. QED
    BY <1>1, <1>2, <1>10, <2>1 DEF IInv, ViewTyped, Maybe
<1>12. Still
  BY <1>1, <1>2 DEF Still
<1>13. QED
  BY <1>10, <1>11, <1>12

LEMMA LeaveStep ==
    ASSUME IInv, NEW chip \in BOOLEAN, Leave(chip)
    PROVE  KeepsInv
<1> DEFINE interrupted == view.ready /\ view.flight # None
<1>1. /\ Act /\ Settled /\ view # None /\ ChangeStores(NoDrawer, NoSelection)
  BY DEF Leave, Act
<1>2. \/ UNCHANGED onMap
      \/ /\ ~Selected(s)
         /\ view' = Homing(IF interrupted THEN Ended(view, now) ELSE view)
         /\ lastCamera' = IF interrupted THEN view.camera ELSE lastCamera
  BY DEF Leave, Homing
<1>3. Coherent(NoSelection)
  BY DEF Coherent, NoSelection
<1>4. CASE UNCHANGED onMap
  BY <1>1, <1>3, <1>4, NothingIs, StoresOnly
<1>5. CASE /\ ~Selected(s)
           /\ view' = Homing(IF interrupted THEN Ended(view, now) ELSE view)
           /\ lastCamera' = IF interrupted THEN view.camera ELSE lastCamera
  <2>1. /\ StoresTyped' /\ NetworkTyped' /\ Selecting'
        /\ UNCHANGED <<page, known, rendered, now>>
    BY <1>1, <1>3, NothingIs, StoresChange
  <2>2. view \in View /\ rendered = Deps /\ Caught(view, Deps) /\ ShortTrails(view)
        /\ view.asks = {} /\ Airborne(view, now) /\ StateTyped
    BY <1>1, SettledGives, InvGives
  <2>3. lastCamera' \in Maybe(Cameras)
    <3>1. view.camera \in Cameras
      BY <2>2 DEF View
    <3>2. lastCamera \in Maybe(Cameras)
      BY DEF IInv, ViewTyped
    <3>3. QED
      BY <1>5, <3>1, <3>2 DEF Maybe
  <2>4. CASE interrupted
    <3> DEFINE w == Ended(view, now)
    <3>1. now \in Nat
      BY DEF IInv, StoresTyped
    <3>2. /\ w \in View /\ ShortTrails(w) /\ Airborne(w, now) /\ w.asks = view.asks
          /\ w.pulled = view.pulled /\ w.arrived /\ w.ready /\ Caught(w, Deps)
      BY <2>2, <2>4, <3>1, EndedIs
    <3>3. view' = Homing(w)
      BY <1>5, <2>4
    <3> HIDE DEF w
    <3>4. Mounted' /\ ViewTyped' /\ Still
      BY <1>1, <1>5, <2>1, <2>2, <2>3, <3>2, <3>3, HomingStep
    <3>5. QED
      BY <2>1, <3>4 DEF IInv, KeepsInv
  <2>5. CASE ~interrupted
    <3>1. view' = Homing(view)
      BY <1>5, <2>5
    <3>2. view.ready => view.arrived
      BY <2>2, <2>5 DEF Airborne
    <3>3. Mounted' /\ ViewTyped' /\ Still
      BY <1>1, <1>5, <2>1, <2>2, <2>3, <3>1, <3>2, HomingStep
    <3>4. QED
      BY <2>1, <3>3 DEF IInv, KeepsInv
  <2>6. QED
    BY <2>4, <2>5
<1>6. QED
  BY <1>2, <1>4, <1>5

\* A map that is mounted anew.
LEMMA FreshIs ==
    ASSUME NEW camera \in Cameras, NEW time \in Nat
    PROVE  LET w == FreshView(camera)
           IN  /\ w \in View /\ Fresh(w) /\ ShortTrails(w) /\ w.asks = {} /\ Airborne(w, time)
               /\ w.pulled = None
<1> DEFINE w == FreshView(camera)
<1>1. /\ None \in Networks /\ None \in Maybe(Glides) /\ None \in Maybe(Vehicle)
      /\ None \in Maybe(Legs) /\ None \in Maybe(Matches) /\ None \in Maybe(Asks)
      /\ None \in Maybe(Infos) /\ None \in Maybe(Flights) /\ None \in Maybe(Shown)
      /\ None \in Maybe(Pulls) /\ None \in Maybe(Chips)
  BY DEF Maybe, Networks
<1>2. /\ [ id \in Marker |-> None ] \in Anims
      /\ [ f \in Feeds |-> 0 ] \in OfFeeds(Nat)
      /\ [ f \in Feeds |-> FALSE ] \in OfFeeds(BOOLEAN)
      /\ {} \in SetOf(Asks) /\ {} \in SetOf(Hidden)
  BY <1>1 DEF Anims, OfFeeds, SetOf
<1>3. [ f \in Feeds |-> DefaultGlide ] \in OfFeeds(Positive)
  BY TimeAssumption DEF OfFeeds
<1>4. << >> \in Seq(Point)
  OBVIOUS
<1>5. [ v \in Vehicle |-> << >> ] \in Trails
  BY <1>4 DEF Trails
<1>6. w \in View
  BY <1>1, <1>2, <1>3, <1>5 DEF FreshView, View
<1>7. /\ ~w.ready /\ ~w.data /\ ~w.arrived /\ ~w.revealed /\ w.vehicle = None /\ ~w.follow
      /\ w.leg = None /\ w.match = None /\ ~w.had /\ w.shows = None /\ w.flight = None
      /\ w.focus = None /\ w.asks = {} /\ w.pulled = None
      /\ w.trails = [ v \in Vehicle |-> << >> ]
  BY DEF FreshView
<1> HIDE DEF w
<1>8. Fresh(w) /\ Airborne(w, time)
  BY <1>7 DEF Fresh, Airborne
<1>9. \A v \in Vehicle : Len(w.trails[v]) = 0
  BY <1>7
<1>10. ShortTrails(w)
  BY <1>9, TimeAssumption DEF ShortTrails
<1>11. QED
  BY <1>6, <1>7, <1>8, <1>10 DEF w

LEMMA GoToStep ==
    ASSUME IInv, Act, NEW to \in Pages, NEW sel \in Selections, Coherent(sel),
           Selected(sel) => Selected(s) \/ drawer.item # None,
           known \/ sel = NoSelection, GoTo(to, sel)
    PROVE  KeepsInv
<1> DEFINE camera == IF lastCamera # None THEN lastCamera ELSE Camera(Home, FALSE)
           w == FreshView(camera)
<1>1. left' \in Budget /\ Settled
  BY SpendIs DEF Act
<1>2. /\ page' = to /\ s' = sel /\ letGo' = (letGo /\ sel = s) /\ rendered' = None
      /\ view' = IF to \in MapPages THEN w ELSE None
      /\ UNCHANGED <<drawer, live, rows, known, outlines, roads, layers, network, inStep,
                     lastCamera, now>>
  BY DEF GoTo, Mount
<1>3. camera \in Cameras
  BY GroundAssumption DEF IInv, ViewTyped, Maybe, Camera, Cameras
<1> HIDE DEF camera
<1>4. letGo \in BOOLEAN /\ now \in Nat
  BY DEF IInv, StoresTyped
<1>5. /\ w \in View /\ Fresh(w) /\ ShortTrails(w) /\ w.asks = {} /\ Airborne(w, now)
      /\ w.pulled = None /\ w # None
  BY <1>3, <1>4, FreshIs, SentinelAssumption
<1> HIDE DEF w
<1>6. StoresTyped' /\ NetworkTyped'
  BY <1>1, <1>2, <1>4 DEF IInv, StoresTyped, NetworkTyped, network
<1>7. Selecting'
  <2>1. letGo' => ~s'.follow
    BY <1>2, <1>4 DEF IInv, Selecting
  <2>2. inStep'[1] = None /\ inStep'[2] \in InStepPages => ~Selected(s')
    BY <1>1, <1>2 DEF IInv, Selecting, Settled
  <2>3. Coherent(s') /\ (~known => drawer' = NoDrawer /\ s' = NoSelection)
    BY <1>2 DEF IInv, Selecting
  <2>4. QED
    BY <1>2, <2>1, <2>2, <2>3 DEF IInv, Selecting
<1>8. CASE to \in MapPages
  <2>1. view' = w
    BY <1>2, <1>8
  <2>2. ShortTrails(view)' /\ Airborne(view', now')
    BY <1>2, <1>5, <2>1 DEF ShortTrails, Airborne
  <2>3. Mounted'
    BY <1>2, <1>5, <2>1, <2>2 DEF Mounted, Airborne
  <2>4. ViewTyped' /\ Still
    BY <1>2, <1>5, <1>8, <2>1, <2>2 DEF IInv, ViewTyped, Maybe, Still
  <2>5. QED
    BY <1>6, <1>7, <2>3, <2>4 DEF IInv, KeepsInv
<1>9. CASE to \notin MapPages
  <2>1. view' = None
    BY <1>2, <1>9
  <2>2. Mounted' /\ ViewTyped' /\ Still
    BY <1>2, <1>9, <2>1 DEF IInv, Mounted, ViewTyped, Maybe, Still
  <2>3. QED
    BY <1>6, <1>7, <2>2 DEF IInv, KeepsInv
<1>10. QED
  BY <1>8, <1>9

LEMMA NavigateStep ==
    ASSUME IInv, NEW to \in Pages, Navigate(to)
    PROVE  KeepsInv
<1>1. Act /\ GoTo(to, s)
  BY DEF Navigate
<1>2. QED
  BY <1>1, StoresGive, GoToStep

LEMMA ChangeThemeStep ==
    ASSUME IInv, ChangeTheme
    PROVE  KeepsInv
<1>1. Act /\ GoTo(page, s) /\ page \in Pages
  BY DEF ChangeTheme, IInv, StoresTyped
<1>2. QED
  BY <1>1, StoresGive, GoToStep

LEMMA FollowVehicleStep ==
    ASSUME IInv, FollowVehicle
    PROVE  KeepsInv
<1> DEFINE row == rows[drawer.item.id]
           sel == SelectVehicle(s, outlines, row, PositionOf(row))
<1>1. /\ Act /\ drawer.item # None /\ drawer.item.kind = "vehicle"
      /\ \/ ChangeStores(drawer, sel) /\ UNCHANGED onMap
         \/ GoTo("control-tower", sel)
  BY DEF FollowVehicle
<1>2. drawer.item \in Items /\ drawer # NoDrawer
  BY <1>1, StoresGive DEF Remembers, Drawers, Maybe, NoDrawer
<1>3. row \in Row
  BY <1>1, <1>2, ItemIs, StoresGive
<1> HIDE DEF row
<1>4. sel \in Selections /\ Coherent(sel)
  BY <1>3, StoresGive, SelectVehicleIs
<1> HIDE DEF sel
<1>5. known /\ "control-tower" \in Pages
  BY <1>2, StoresGive, UserAssumption
<1>6. CASE ChangeStores(drawer, sel) /\ UNCHANGED onMap
  BY <1>1, <1>4, <1>5, <1>6, StoresGive, StoresOnly
<1>7. CASE GoTo("control-tower", sel)
  BY <1>1, <1>4, <1>5, <1>7, GoToStep
<1>8. QED
  BY <1>1, <1>6, <1>7

----------------------------------------------------------------------------
\* The invariant holds at the start, and every step keeps it.

LEMMA InitStep ==
    ASSUME Init
    PROVE  IInv
<1> DEFINE home == Camera(Home, FALSE)
           w == FreshView(home)
<1>1. left \in Budget /\ left.load \in Nat
  BY TimeAssumption DEF Init, Budget
<1>2. drawer = NoDrawer /\ s = NoSelection
  BY DEF Init
<1>3. known = outlines /\ known \in BOOLEAN
  BY <1>1 DEF Init
<1>4. roads \in Networks
  BY DEF Init, Networks, Maybe
<1>5. now = 1000 /\ now \in Nat
  BY DEF Init
<1>6. home \in Cameras
  BY GroundAssumption DEF Camera, Cameras
<1>7. view = IF page \in MapPages THEN w ELSE None
  BY DEF Init
<1> HIDE DEF home
<1>8. /\ w \in View /\ Fresh(w) /\ ShortTrails(w) /\ w.asks = {} /\ Airborne(w, now) /\ w # None
  BY <1>5, <1>6, FreshIs, SentinelAssumption
<1> HIDE DEF w
<1>9. /\ live = [ id \in Marker |-> None ] /\ rows = Rows /\ layers = Layers
      /\ letGo = FALSE /\ page \in Pages /\ rendered = None /\ lastCamera = None
      /\ lookups = {} /\ answers = << >> /\ inStep = <<None, page>>
  BY DEF Init
<1>10. live \in [ Marker -> Maybe(Update) ] /\ rows \in [ Vehicle -> Row ]
       /\ \A v \in Vehicle : rows[v].id = v
  BY <1>9, FeedAssumption DEF Maybe
<1>11. StoresTyped
  BY <1>1, <1>2, <1>3, <1>4, <1>5, <1>9, <1>10, NothingIs DEF StoresTyped
<1>12. NetworkTyped
  <2>1. DOMAIN answers = {}
    BY <1>9
  <2>2. QED
    BY <1>9, <2>1 DEF NetworkTyped
<1>13. ViewTyped
  BY <1>7, <1>8, <1>9 DEF ViewTyped, Maybe
<1>14. Selecting
  <2>1. Coherent(s)
    BY <1>2 DEF Coherent, NoSelection
  <2>2. ~Selected(s) /\ ~s.follow
    BY <1>2, NothingIs
  <2>3. QED
    BY <1>2, <1>3, <1>10, <2>1, <2>2 DEF Selecting
<1>15. Mounted
  BY <1>7, <1>8, <1>9 DEF Mounted
<1>16. QED
  BY <1>11, <1>12, <1>13, <1>14, <1>15 DEF IInv

LEMMA Stutter ==
    ASSUME IInv, UNCHANGED vars
    PROVE  KeepsInv
<1>1. UNCHANGED <<page, drawer, s, live, rows, known, outlines, roads, layers, lookups, answers,
                  view, lastCamera, rendered, inStep, letGo, now, left>>
  BY DEF vars, stores, network, onMap
<1>2. Mounted'
  BY <1>1, MountedKept DEF IInv
<1>3. StoresTyped' /\ NetworkTyped' /\ ViewTyped' /\ Selecting' /\ Still
  BY <1>1 DEF IInv, StoresTyped, NetworkTyped, ViewTyped, Selecting, ShortTrails, Still
<1>4. QED
  BY <1>2, <1>3 DEF IInv, KeepsInv

\* Only the effects of the map may set the follow camera in motion.
LEMMA EveryStep ==
    ASSUME IInv, [Next]_vars
    PROVE  IInv' /\ (MapEffects \/ Still)
<1>1. CASE MapEffects
  BY <1>1, EffectsStep
<1>2. CASE DrawerEffect
  BY <1>2, DrawerStep DEF KeepsInv
<1>3. CASE Load
  BY <1>3, LoadStep DEF KeepsInv
<1>4. CASE \E id \in Marker : Report(id)
  BY <1>4, ReportStep DEF KeepsInv
<1>5. CASE PollAnswers
  BY <1>5, PollStep DEF KeepsInv
<1>6. CASE DataArrives
  BY <1>6, DataStep DEF KeepsInv
<1>7. CASE RoadsArrive
  BY <1>7, RoadsStep DEF KeepsInv
<1>8. CASE \E ask \in lookups : RouteAnswers(ask)
  BY <1>8, RouteStep DEF KeepsInv
<1>9. CASE Advance
  BY <1>9, AdvanceStep DEF KeepsInv
<1>10. CASE \E p \in Places : Drag(p)
  BY <1>10, DragStep DEF KeepsInv
<1>11. CASE Wheel
  BY <1>11, WheelStep DEF KeepsInv
<1>12. CASE \E item \in Openable : Click(item) \/ Open(item)
  <2>1. PICK item \in Openable : Open(item)
    BY <1>12 DEF Click
  <2>2. item \in Items
    BY DEF Items
  <2>3. QED
    BY <2>1, <2>2, OpenStep DEF KeepsInv
<1>13. CASE OpenFocus
  BY <1>13, OpenFocusStep DEF KeepsInv
<1>14. CASE Close
  BY <1>14, CloseStep DEF KeepsInv
<1>15. CASE Back
  BY <1>15, BackStep DEF KeepsInv
<1>16. CASE \E chip \in BOOLEAN : Leave(chip)
  BY <1>16, LeaveStep DEF KeepsInv
<1>17. CASE ToggleFollow
  BY <1>17, ToggleFollowStep DEF KeepsInv
<1>18. CASE \E layer \in Layers : SetLayer(layer)
  BY <1>18, SetLayerStep DEF KeepsInv
<1>19. CASE \E to \in Pages : Navigate(to)
  BY <1>19, NavigateStep DEF KeepsInv
<1>20. CASE ChangeTheme
  BY <1>20, ChangeThemeStep DEF KeepsInv
<1>21. CASE FollowVehicle
  BY <1>21, FollowVehicleStep DEF KeepsInv
<1>22. CASE UNCHANGED vars
  BY <1>22, Stutter DEF KeepsInv
<1>23. QED
  BY <1>1, <1>2, <1>3, <1>4, <1>5, <1>6, <1>7, <1>8, <1>9, <1>10, <1>11, <1>12, <1>13, <1>14,
     <1>15, <1>16, <1>17, <1>18, <1>19, <1>20, <1>21, <1>22 DEF Next, Environment, User

\* The invariant: whatever the feed, the files, the router, the clock and the user do
\* in whatever order, a mounted map is what its effects last made of it.
THEOREM InvariantHolds == Spec => []IInv
<1>1. Init => IInv
  BY InitStep
<1>2. IInv /\ [Next]_vars => IInv'
  BY EveryStep
<1>. QED
  BY <1>1, <1>2, PTL DEF Spec

----------------------------------------------------------------------------
\* What follows from it.

LEMMA DrawerGives ==
    ASSUME IInv
    PROVE  NothingOpenNothingSelected
<1>1. Settled /\ page \in InStepPages /\ drawer.item = None => ~Selected(s)
  BY DEF IInv, Selecting, Settled
<1>2. s.node # None /\ s.region # None /\ outlines
        => RegionContains(Areas[s.region], At[s.node])
  BY DEF IInv, Selecting, Coherent
<1>3. QED
  BY <1>1, <1>2 DEF NothingOpenNothingSelected

LEMMA RoadGives ==
    ASSUME IInv
    PROVE  DrawnRoadIsCurrent
<1> SUFFICES ASSUME AtRest, view.data
             PROVE  /\ view.leg = LegOfSelected
                    /\ view.match # None =>
                         LET u == live[s.vehicle.id]
                             road == view.match.road
                             line == SplitRoad(road, view.match.progress, u.pos).ahead
                         IN  /\ road \in Range(Variants(roads, At[view.leg.source],
                                                        At[view.leg.dest]))
                             /\ Metres(view.match.snapped, u.pos) <= OffRoute
                             /\ view.info.remaining
                                  = LengthOf(<<view.match.snapped>> \o Tail(line))
                             /\ view.info.remaining > 0 => Last(line) = Last(road.geometry)
  BY DEF DrawnRoadIsCurrent
<1>1. StateTyped /\ Caught(view, Deps) /\ view \in View
  BY SettledGives, InvGives DEF AtRest
<1>2. Deps.s = s /\ Deps.vehicles = Reports /\ Deps.roads = roads
  BY <1>1, DepsAre
<1>3. RoadRight(view, s.vehicle, Reports) /\ view.roads = roads
  BY <1>1, <1>2 DEF Caught
<1>4. view.leg = LegOfSelected
  BY <1>1, <1>3, LegIs DEF RoadRight
<1>5. ASSUME view.match # None
      PROVE  LET u == live[s.vehicle.id]
                 road == view.match.road
                 line == SplitRoad(road, view.match.progress, u.pos).ahead
             IN  /\ road \in Range(Variants(roads, At[view.leg.source], At[view.leg.dest]))
                 /\ Metres(view.match.snapped, u.pos) <= OffRoute
                 /\ view.info.remaining = LengthOf(<<view.match.snapped>> \o Tail(line))
                 /\ view.info.remaining > 0 => Last(line) = Last(road.geometry)
  <2> DEFINE V == Variants(roads, At[view.leg.source], At[view.leg.dest])
             m == view.match
             p == live[s.vehicle.id].pos
  <2>1. s.vehicle # None /\ live[s.vehicle.id] # None
    BY <1>3, <1>4, <1>5 DEF RoadRight, LegOfSelected
  <2>2. Reports[s.vehicle.id] = live[s.vehicle.id] /\ p \in Point
    BY <1>1, <2>1, SelectedReport DEF Update
  <2>3. roads # None /\ (\E i \in DOMAIN V : m = ProjectOnRoad(V[i], p))
        /\ m.offset <= OffRoute /\ view.info.remaining = Remaining(m.road, m.progress)
    BY <1>3, <1>5, <2>2 DEF RoadRight
  <2>4. roads \in Networks
    BY <1>1 DEF StateTyped
  <2>5. V \in Seq(BuiltRoad)
    BY <2>3, <2>4, VariantsAre
  <2> HIDE DEF V, m, p
  <2>6. PICK i \in DOMAIN V : m = ProjectOnRoad(V[i], p)
    BY <2>3
  <2> DEFINE road == V[i]
  <2>7. road \in BuiltRoad /\ road \in Range(V)
    BY <2>5 DEF Range
  <2> HIDE DEF road
  <2>8. PICK k \in 2 .. Len(road.geometry) : m = MatchAt(road, p, k)
    BY <2>2, <2>6, <2>7, ProjectIs DEF road
  <2>9. m.road = road /\ m.offset = Metres(p, m.snapped) /\ m \in Matches
    BY <2>2, <2>7, <2>8, MatchAtIs DEF MatchAt
  <2>10. Metres(m.snapped, p) <= OffRoute
    BY <2>2, <2>3, <2>9, MetresIs DEF Matches
  <2>11. LET line == SplitRoad(road, m.progress, p).ahead
         IN  /\ Remaining(road, m.progress) = LengthOf(<<m.snapped>> \o Tail(line))
             /\ Remaining(road, m.progress) > 0 => Last(line) = Last(road.geometry)
    BY <2>2, <2>7, <2>8, WayAhead
  <2>12. QED
    BY <2>3, <2>7, <2>9, <2>10, <2>11 DEF V, m, p
<1>6. QED
  BY <1>4, <1>5

LEMMA CameraGives ==
    ASSUME IInv
    PROVE  CameraShowsSelection
<1> SUFFICES ASSUME AtRest, view.revealed, view.shows \notin { "user", None },
                    ~(s.node = None /\ s.vehicle = None /\ s.tracking # None)
             PROVE  view.shows = IF Focused = None THEN "home" ELSE Focused
  BY DEF CameraShowsSelection
<1>1. StateTyped /\ Caught(view, Deps) /\ Deps.s = s
  BY SettledGives, InvGives, DepsAre DEF AtRest
<1>2. Good(s, view.shows)
  BY <1>1 DEF Caught, AimRight
<1>3. s.vehicle # None => s.vehicle.id # None
  BY <1>1, SelectedReport, SentinelAssumption
<1>4. QED
  BY <1>2, <1>3 DEF Good, Focused

LEMMA ChipGives ==
    ASSUME IInv
    PROVE  ChipNamesTheDistrict
<1>1. view # None => Airborne(view, now)
  BY DEF IInv, Mounted
<1>2. QED
  BY <1>1 DEF ChipNamesTheDistrict, AtRest, Airborne

LEMMA LayersGive ==
    ASSUME IInv
    PROVE  LayersFollowTheSwitches
<1> SUFFICES ASSUME AtRest, view.ready
             PROVE  view.hidden = (Layers \ layers)
                      \cup IF s.region = None /\ Areal \in layers THEN {} ELSE { "region-focus" }
  BY DEF LayersFollowTheSwitches
<1>1. Caught(view, Deps) /\ Deps.s = s /\ Deps.layers = layers
  BY SettledGives, InvGives, DepsAre DEF AtRest
<1>2. QED
  BY <1>1 DEF Caught, HiddenRight, Outline

\* Every variable of the map, the drawer, the selection and their stores holds only
\* values of its type, whatever the sizes of the country, the fleet and the budgets.
THEOREM TypeCorrect == Spec => []TypeOK
<1>1. IInv => TypeOK
  BY TypeParts DEF IInv
<1>. QED
  BY <1>1, InvariantHolds, PTL

\* Nothing stays selected behind a closed drawer on a page that keeps in step
\* (DetailDrawer.tsx:39), and a picked node lies in the selected area.
THEOREM NothingOpenMeansNothingSelected == Spec => []NothingOpenNothingSelected
<1>. QED
  BY DrawerGives, InvariantHolds, PTL

\* The road drawn, the camera, the chip and the layers are those of what is selected
\* now, once the effects have run, in whatever order data, roads, reports, flights and
\* selections came (MapView.tsx:460, 733, 843).
THEOREM MapStaysCurrent == Spec => []MapIsCurrent
<1>1. IInv => MapIsCurrent
  BY RoadGives, CameraGives, ChipGives, LayersGive DEF MapIsCurrent
<1>. QED
  BY <1>1, InvariantHolds, PTL

\* The camera never follows a vehicle the user has dragged the map away from, nor
\* within the four seconds after his hand or before a flight has ended (MapView.tsx:916).
THEOREM CameraFollowsOnlyWhenAsked == Spec => FollowsOnlyWhenAsked
<1> DEFINE Pull ==
        view # None /\ view' # None /\ view'.pulled \notin { None, view.pulled } =>
            /\ ~letGo /\ now > view.userUntil /\ now > view.flightUntil
            /\ s.vehicle # None /\ s.vehicle.id = view'.pulled[1]
<1>1. IInv /\ [Next]_vars => [Pull]_vars
  <2> SUFFICES ASSUME IInv, [Next]_vars, view # None, view' # None,
                      view'.pulled \notin { None, view.pulled }
               PROVE  /\ ~letGo /\ now > view.userUntil /\ now > view.flightUntil
                      /\ s.vehicle # None /\ s.vehicle.id = view'.pulled[1]
    OBVIOUS
  <2>1. MapEffects
    BY EveryStep DEF Still
  <2>2. /\ s.follow /\ now > view.userUntil /\ now > view.flightUntil
        /\ s.vehicle # None /\ view'.pulled[1] = s.vehicle.id
    BY <2>1, EffectsStep
  <2>3. ~letGo
    BY <2>2 DEF IInv, Selecting
  <2>4. QED
    BY <2>2, <2>3
<1>. QED
  BY <1>1, InvariantHolds, PTL DEF Spec, FollowsOnlyWhenAsked

----------------------------------------------------------------------------
\* The markers.  One that has a path follows a stretch of some road of the file.

OnRoad(a) ==
    a # None /\ a.path # None =>
        \E ends \in DOMAIN Corridors : \E n \in DOMAIN Corridors[ends] :
            LET road == Corridors[ends][n]
            IN  \E from, to \in 0 .. LengthOf(road.geometry) : a.path = RoadSegment(road, from, to)

OnRoads(w) == \A id \in Marker : OnRoad(w.anims[id])

\* Where a marker is drawn after its glide a has become b.
JumpsToReportOnly(a, b, id) ==
    a # None /\ b # None =>
        \/ Metres(MarkerAt(a, now), MarkerAt(b, now)) <= OffRoute
        \/ b.path # None /\ Metres(live[id].pos, MarkerAt(b, now)) <= OffRoute

LEMMA CorridorIs ==
    ASSUME NEW ends \in DOMAIN Corridors, NEW n \in DOMAIN Corridors[ends]
    PROVE  Corridors[ends][n] \in BuiltRoad /\ Axial(Corridors[ends][n].geometry)
<1>1. Corridors[ends] \in Seq(BuiltRoad)
  BY GroundAssumption
<1>2. Axial(Corridors[ends][n].geometry)
  BY AxisAssumption DEF Axial
<1>3. QED
  BY <1>1, <1>2

LEMMA OnRoadIs ==
    ASSUME NEW a \in Glides, a # None, a.path # None, OnRoad(a), NEW time \in Int
    PROVE  \E corridor \in DOMAIN Corridors : \E i \in DOMAIN Corridors[corridor] :
              ProjectOnRoad(Corridors[corridor][i], MarkerAt(a, time)).offset = 0
<1>2. PICK ends \in DOMAIN Corridors : \E n \in DOMAIN Corridors[ends] :
        LET road == Corridors[ends][n]
        IN  \E from, to \in 0 .. LengthOf(road.geometry) : a.path = RoadSegment(road, from, to)
  BY DEF OnRoad
<1>3. PICK n \in DOMAIN Corridors[ends] :
        LET road == Corridors[ends][n]
        IN  \E from, to \in 0 .. LengthOf(road.geometry) : a.path = RoadSegment(road, from, to)
  BY <1>2
<1> DEFINE road == Corridors[ends][n]
<1>4. PICK from, to \in 0 .. LengthOf(road.geometry) : a.path = RoadSegment(road, from, to)
  BY <1>3
<1>5. road \in BuiltRoad /\ Axial(road.geometry)
  BY CorridorIs
<1> HIDE DEF road
<1>6. a.ms \in Nat \ {0} /\ a.started \in Nat
  BY DEF Glides, Positive
<1> DEFINE part == Least(time - a.started, a.ms)
<1>7. part \in Int
  BY <1>6 DEF Least
<1>8. MarkerAt(a, time) = PointAlong(a.path, part, a.ms)
  BY DEF MarkerAt
<1> HIDE DEF part
<1>9. ProjectOnRoad(road, PointAlong(RoadSegment(road, from, to), part, a.ms)).offset = 0
  BY <1>5, <1>6, <1>7, StretchKeepsToTheRoad
<1>10. QED
  BY <1>4, <1>8, <1>9 DEF road


\* The road between two reports starts where one of them is, or the marker is, on it.
LEMMA PathStarts ==
    ASSUME NEW w \in View, NEW from \in Point, NEW to \in Point, NEW u \in Update,
           NEW ms \in Nat \ {0}
    PROVE  LET path == PathBetween(w, from, to, u)
           IN  path # None =>
                  /\ \E ends \in DOMAIN Corridors : \E n \in DOMAIN Corridors[ends] :
                        LET road == Corridors[ends][n]
                        IN  \E i, j \in 0 .. LengthOf(road.geometry) : path = RoadSegment(road, i, j)
                  /\ \/ Metres(from, PointAlong(path, 0, ms)) <= OffRoute
                     \/ Metres(to, PointAlong(path, 0, ms)) <= OffRoute
<1> DEFINE V == Variants(w.roads, At[u.node], At[u.dest])
           a == MatchRoad(V, from)
           b == MatchRoad(V, to)
           path == PathBetween(w, from, to, u)
           ends == <<At[u.node], At[u.dest]>>
<1> SUFFICES ASSUME path # None
             PROVE  /\ \E e \in DOMAIN Corridors : \E n \in DOMAIN Corridors[e] :
                          LET road == Corridors[e][n]
                          IN  \E i, j \in 0 .. LengthOf(road.geometry) : path = RoadSegment(road, i, j)
                    /\ \/ Metres(from, PointAlong(path, 0, ms)) <= OffRoute
                       \/ Metres(to, PointAlong(path, 0, ms)) <= OffRoute
  OBVIOUS
<1>1. ~(w.roads = None \/ ~w.data \/ { u.node, u.dest } \ DOMAIN At # {})
  BY DEF PathBetween
<1>2. a # None /\ b # None
  BY <1>1 DEF PathBetween
<1>3. ~(a.road # b.road \/ a.offset > OffRoute \/ b.offset > OffRoute)
      /\ path = RoadSegment(a.road, a.progress, b.progress)
  BY <1>1, <1>2 DEF PathBetween
<1>4. V # << >> /\ V \in Seq(BuiltRoad)
  <2>1. V # << >>
    BY <1>2 DEF MatchRoad
  <2>2. w.roads \in Networks
    BY DEF View
  <2>3. QED
    BY <1>1, <2>1, <2>2, VariantsAre
<1>5. ends \in DOMAIN Corridors /\ V = Corridors[ends]
  <2>1. w.roads \in { Corridors, << >> }
    BY <1>1 DEF View, Networks, Maybe
  <2>2. ends \in DOMAIN w.roads /\ V = w.roads[ends]
    BY <1>4 DEF Variants
  <2>3. w.roads # << >>
    BY <2>2
  <2>4. QED
    BY <2>1, <2>2, <2>3
<1> HIDE DEF V, path, ends
<1>6. PICK n \in DOMAIN V : a = ProjectOnRoad(V[n], from)
  BY <1>4, MatchRoadIs
<1>7. PICK m \in DOMAIN V : b = ProjectOnRoad(V[m], to)
  BY <1>4, MatchRoadIs
<1> HIDE DEF a, b
<1>8. /\ V[n] \in BuiltRoad /\ Axial(V[n].geometry)
      /\ V[m] \in BuiltRoad /\ Axial(V[m].geometry)
  BY <1>5, CorridorIs
<1> DEFINE g == V[n].geometry
<1>9. /\ a.progress \in 0 .. LengthOf(g) /\ PointAtDistance(g, a.progress) = a.snapped
      /\ a.offset = Metres(from, a.snapped) /\ a.road = V[n]
  BY <1>6, <1>8, SnappedIs
<1>10. /\ b.progress \in 0 .. LengthOf(V[m].geometry)
       /\ PointAtDistance(V[m].geometry, b.progress) = b.snapped
       /\ b.offset = Metres(to, b.snapped) /\ b.road = V[m]
  BY <1>7, <1>8, SnappedIs
<1>11. /\ b.progress \in 0 .. LengthOf(g) /\ PointAtDistance(g, b.progress) = b.snapped
       /\ path = RoadSegment(V[n], a.progress, b.progress)
  BY <1>3, <1>9, <1>10
<1>12. PointAlong(path, 0, ms) = PointAtDistance(g, Least(a.progress, b.progress))
  <2> DEFINE x == a.progress
             y == b.progress
             road == V[n]
  <2>1. /\ road \in BuiltRoad /\ Axial(road.geometry) /\ path = RoadSegment(road, x, y)
        /\ x \in 0 .. LengthOf(road.geometry) /\ y \in 0 .. LengthOf(road.geometry)
    BY <1>8, <1>9, <1>11
  <2> HIDE DEF x, y, road
  <2>2. PointAlong(RoadSegment(road, x, y), 0, ms) = PointAtDistance(road.geometry, Least(x, y))
    BY <2>1, StretchKeepsToTheRoad
  <2>3. QED
    BY <2>1, <2>2 DEF x, y, road
<1>13. PointAlong(path, 0, ms) = a.snapped \/ PointAlong(path, 0, ms) = b.snapped
  BY <1>9, <1>11, <1>12 DEF Least
<1>14. a.offset \in Nat /\ b.offset \in Nat /\ OffRoute \in Nat
  BY <1>6, <1>7, <1>8, ProjectIs, MatchAtIs, RoadAssumption
<1>15. \/ Metres(from, PointAlong(path, 0, ms)) <= OffRoute
       \/ Metres(to, PointAlong(path, 0, ms)) <= OffRoute
  BY <1>3, <1>9, <1>10, <1>13, <1>14
<1>16. \E i, j \in 0 .. LengthOf(Corridors[ends][n].geometry) :
           path = RoadSegment(Corridors[ends][n], i, j)
  BY <1>5, <1>9, <1>11
<1>17. QED
  BY <1>5, <1>15, <1>16

LEMMA GlideStarts ==
    ASSUME StateTyped, NEW w \in View, NEW id \in Marker, live[id] # None,
           NEW from \in Point, NEW ms \in Positive
    PROVE  LET b == Glide(from, live[id].pos, PathBetween(w, from, live[id].pos, live[id]),
                          ms, live[id].stamp)
           IN  /\ OnRoad(b)
               /\ \/ Metres(from, MarkerAt(b, now)) <= OffRoute
                  \/ b.path # None /\ Metres(live[id].pos, MarkerAt(b, now)) <= OffRoute
<1> DEFINE to == live[id].pos
           path == PathBetween(w, from, to, live[id])
           b == Glide(from, to, path, ms, live[id].stamp)
<1>1. live[id] \in Update /\ to \in Point /\ now \in Nat /\ ms \in Nat \ {0} /\ OffRoute \in Nat
  BY RoadAssumption DEF StateTyped, Maybe, Update, Positive
<1>2. b.from = from /\ b.to = to /\ b.path = path /\ b.started = now /\ b.ms = ms
  BY DEF Glide
<1>3. path # None =>
        /\ \E ends \in DOMAIN Corridors : \E n \in DOMAIN Corridors[ends] :
              LET road == Corridors[ends][n]
              IN  \E i, j \in 0 .. LengthOf(road.geometry) : path = RoadSegment(road, i, j)
        /\ \/ Metres(from, PointAlong(path, 0, ms)) <= OffRoute
           \/ Metres(to, PointAlong(path, 0, ms)) <= OffRoute
  BY <1>1, PathStarts
<1> HIDE DEF b, path, to
<1>4. Least(now - b.started, b.ms) = 0
  BY <1>1, <1>2 DEF Least
<1>5. OnRoad(b)
  BY <1>2, <1>3 DEF OnRoad
<1>6. CASE path # None
  <2>1. MarkerAt(b, now) = PointAlong(path, 0, ms)
    BY <1>2, <1>4, <1>6 DEF MarkerAt
  <2>2. QED
    BY <1>2, <1>3, <1>5, <1>6, <2>1 DEF b, path, to
<1>7. CASE path = None
  <2>1. MarkerAt(b, now) = [ k \in {1, 2} |-> from[k] + ((to[k] - from[k]) * 0) \div ms ]
    BY <1>2, <1>4, <1>7 DEF MarkerAt
  <2>2. \A k \in {1, 2} : from[k] + ((to[k] - from[k]) * 0) \div ms = from[k]
    <3> SUFFICES ASSUME NEW k \in {1, 2}
                 PROVE  from[k] + ((to[k] - from[k]) * 0) \div ms = from[k]
      OBVIOUS
    <3>1. from[k] \in Int /\ to[k] \in Int
      BY <1>1 DEF Point
    <3>2. (to[k] - from[k]) * 0 = 0
      BY <3>1
    <3>3. 0 \div ms = 0
      BY <1>1
    <3>4. QED
      BY <3>1, <3>2, <3>3
  <2>3. MarkerAt(b, now) = [ k \in {1, 2} |-> from[k] ]
    BY <2>1, <2>2
  <2>4. MarkerAt(b, now) = from
    BY <2>3 DEF Point
  <2>5. Metres(from, from) = 0
    BY DEF Metres, Gap, Least, Most, Point
  <2>6. QED
    BY <1>1, <1>5, <2>4, <2>5 DEF b, path, to
<1>8. QED
  BY <1>6, <1>7

\* What a report does to the markers it is about, and to the others.
MarkersMove(w, t, ids) ==
    /\ DOMAIN t = DOMAIN w
    /\ OnRoads(w) => OnRoads(t)
    /\ \A id \in Marker : IF id \in ids THEN JumpsToReportOnly(w.anims[id], t.anims[id], id)
                          ELSE t.anims[id] = w.anims[id]

LEMMA StaysPut ==
    ASSUME StateTyped, NEW a \in Maybe(Glides), NEW id \in Marker
    PROVE  JumpsToReportOnly(a, a, id)
<1> SUFFICES ASSUME a # None PROVE Metres(MarkerAt(a, now), MarkerAt(a, now)) <= OffRoute
  BY DEF JumpsToReportOnly
<1>1. a \in Glides /\ now \in Nat
  BY DEF Maybe, StateTyped
<1>2. MarkerAt(a, now) \in Point
  BY <1>1, MarkerAtIs
<1>3. Metres(MarkerAt(a, now), MarkerAt(a, now)) = 0
  BY <1>2 DEF Metres, Gap, Least, Most, Point
<1>4. QED
  BY <1>3, RoadAssumption

LEMMA MoveSteadily ==
    ASSUME StateTyped, NEW w \in View, NEW ids \in SUBSET Marker, NEW ms \in Positive
    PROVE  MarkersMove(w, MoveMarkers(w, ids, ms), ids)
<1> DEFINE news == { id \in ids : /\ live[id] # None
                                  /\ w.anims[id] = None \/ w.anims[id].stamp # live[id].stamp }
           from(id) == IF w.anims[id] = None THEN live[id].pos ELSE MarkerAt(w.anims[id], now)
           move(id) == Glide(from(id), live[id].pos,
                             PathBetween(w, from(id), live[id].pos, live[id]), ms, live[id].stamp)
           a == [ id \in Marker |-> IF id \in news THEN move(id) ELSE w.anims[id] ]
           t == [ w EXCEPT !.anims = a ]
<1>1. now \in Nat /\ w.anims \in [ Marker -> Maybe(Glides) ]
  BY DEF StateTyped, View, Anims
<1>2. \A id \in news : /\ OnRoad(move(id))
                       /\ JumpsToReportOnly(w.anims[id], move(id), id)
  <2> SUFFICES ASSUME NEW id \in news
               PROVE  OnRoad(move(id)) /\ JumpsToReportOnly(w.anims[id], move(id), id)
    OBVIOUS
  <2>1. live[id] \in Update /\ id \in Marker /\ live[id] # None
    BY DEF StateTyped, Maybe
  <2>2. live[id].pos \in Point
    BY <2>1 DEF Update
  <2>3. w.anims[id] # None => w.anims[id] \in Glides
    BY <1>1, <2>1 DEF Maybe
  <2>4. from(id) \in Point
    BY <1>1, <2>2, <2>3, MarkerAtIs
  <2>5. w.anims[id] # None => from(id) = MarkerAt(w.anims[id], now)
    OBVIOUS
  <2> HIDE DEF from
  <2>6. /\ OnRoad(move(id))
        /\ \/ Metres(from(id), MarkerAt(move(id), now)) <= OffRoute
           \/ move(id).path # None /\ Metres(live[id].pos, MarkerAt(move(id), now)) <= OffRoute
    BY <2>1, <2>4, GlideStarts
  <2> HIDE DEF move
  <2>7. QED
    BY <2>5, <2>6 DEF JumpsToReportOnly
<1>3. MoveMarkers(w, ids, ms) = t
  BY DEF MoveMarkers
<1> HIDE DEF move
<1>4. \A id \in Marker : a[id] = IF id \in news THEN move(id) ELSE w.anims[id]
  OBVIOUS
<1>5. news \in SUBSET ids
  OBVIOUS
<1> HIDE DEF a, news
<1>6. t.anims = a /\ DOMAIN t = DOMAIN w
  BY DEF View
<1> HIDE DEF t
<1>7. \A id \in Marker : IF id \in ids THEN JumpsToReportOnly(w.anims[id], t.anims[id], id)
                         ELSE t.anims[id] = w.anims[id]
  <2> SUFFICES ASSUME NEW id \in Marker
               PROVE  IF id \in ids THEN JumpsToReportOnly(w.anims[id], t.anims[id], id)
                      ELSE t.anims[id] = w.anims[id]
    OBVIOUS
  <2>1. CASE id \in news
    BY <1>2, <1>4, <1>5, <1>6, <2>1
  <2>2. CASE id \notin news
    <3>1. t.anims[id] = w.anims[id] /\ w.anims[id] \in Maybe(Glides)
      BY <1>1, <1>4, <1>6, <2>2
    <3>2. QED
      BY <3>1, StaysPut
  <2>3. QED
    BY <2>1, <2>2
<1>8. ASSUME OnRoads(w) PROVE OnRoads(t)
  BY <1>2, <1>4, <1>6, <1>8 DEF OnRoads
<1>9. QED
  BY <1>3, <1>6, <1>7, <1>8 DEF MarkersMove


----------------------------------------------------------------------------
\* The rest of the map leaves the markers where they are.

MarkersRest(w, t) == DOMAIN t = DOMAIN w /\ t.anims = w.anims

LEMMA FlyRests ==
    ASSUME NEW w, "anims" \in DOMAIN w, NEW at, NEW camera, NEW ms, NEW x
    PROVE  MarkersRest(w, Fly(w, at, camera, ms, x))
BY DEF Fly, MarkersRest

LEMMA CameraRests ==
    ASSUME NEW w, "anims" \in DOMAIN w, NEW at
    PROVE  MarkersRest(w, ApplyCamera(w, at))
<1> DEFINE moved ==
             IF s.node # None THEN Fly(w, at, Camera(At[s.node], TRUE), FocusMs, s.node)
             ELSE IF s.vehicle # None
             THEN Fly(w, at, Camera(PositionOf(s.vehicle), TRUE), FocusMs, s.vehicle.id)
             ELSE IF s.tracking # None THEN w
             ELSE IF s.region # None
             THEN Fly(w, at, Camera(CenterOf(Areas[s.region].bbox), TRUE), RegionMs, s.region)
             ELSE IF w.had THEN Fly(w, at, Camera(Home, FALSE), HomeMs, "home")
             ELSE w
<1>1. MarkersRest(w, w)
  BY DEF MarkersRest
<1>2. MarkersRest(w, moved)
  BY <1>1, FlyRests
<1>3. ApplyCamera(w, at) = [ moved EXCEPT !.had = Selected(s) ]
  BY DEF ApplyCamera
<1> HIDE DEF moved
<1>4. QED
  BY <1>2, <1>3 DEF MarkersRest

LEMMA SettleRests ==
    ASSUME NEW w, "anims" \in DOMAIN w
    PROVE  MarkersRest(w, SettleFocus(w))
BY DEF SettleFocus, MarkersRest

LEMMA VisualsRest ==
    ASSUME NEW w, "anims" \in DOMAIN w
    PROVE  MarkersRest(w, ApplyRegionVisuals(w))
BY DEF ApplyRegionVisuals, MarkersRest

LEMMA RevealRests ==
    ASSUME NEW w, "anims" \in DOMAIN w, NEW at
    PROVE  MarkersRest(w, RevealIfReady(w, at))
<1> DEFINE x == [ w EXCEPT !.revealed = TRUE ]
<1>1. CASE w.revealed \/ ~w.arrived \/ ~w.data
  BY <1>1 DEF RevealIfReady, MarkersRest
<1>2. CASE ~(w.revealed \/ ~w.arrived \/ ~w.data)
  <2>1. RevealIfReady(w, at) = ApplyCamera(ApplyRegionVisuals(x), at)
    BY <1>2 DEF RevealIfReady
  <2>2. MarkersRest(w, x)
    BY DEF MarkersRest
  <2> HIDE DEF x
  <2>3. MarkersRest(w, ApplyRegionVisuals(x))
    BY <2>2, VisualsRest DEF MarkersRest
  <2>4. QED
    BY <2>1, <2>3, CameraRests DEF MarkersRest
<1>3. QED
  BY <1>1, <1>2

LEMMA MatchRests ==
    ASSUME NEW w, "anims" \in DOMAIN w, NEW leg, NEW u
    PROVE  MarkersRest(w, MatchRoadForLeg(w, leg, u))
BY DEF MatchRoadForLeg, MarkersRest

LEMMA RecomputeRests ==
    ASSUME NEW w, "anims" \in DOMAIN w
    PROVE  MarkersRest(w, RecomputeLeg(w))
<1> DEFINE leg == IF w.data THEN LegOfSelected ELSE None
           to == [ w EXCEPT !.leg = leg ]
<1>1. RecomputeLeg(w) = IF leg = None \/ w.roads = None
                        THEN [ to EXCEPT !.match = None, !.liveRoute = None, !.info = None ]
                        ELSE MatchRoadForLeg(to, leg, live[s.vehicle.id])
  BY DEF RecomputeLeg
<1> HIDE DEF leg
<1>2. MarkersRest(w, to)
  BY DEF MarkersRest
<1> HIDE DEF to
<1>3. CASE leg = None \/ w.roads = None
  BY <1>1, <1>2, <1>3 DEF MarkersRest
<1>4. CASE ~(leg = None \/ w.roads = None)
  BY <1>1, <1>2, <1>4, MatchRests DEF MarkersRest
<1>5. QED
  BY <1>3, <1>4

LEMMA DataRests ==
    ASSUME NEW w, "anims" \in DOMAIN w
    PROVE  MarkersRest(w, DataEffect(w))
<1> DEFINE x == [ w EXCEPT !.roads = roads, !.data = TRUE ]
<1>1. CASE ~w.ready \/ ~known
  BY <1>1 DEF DataEffect, MarkersRest
<1>2. CASE ~(~w.ready \/ ~known)
  <2>1. DataEffect(w) = RevealIfReady(RecomputeLeg(x), now)
    BY <1>2 DEF DataEffect
  <2>2. MarkersRest(w, x)
    BY DEF MarkersRest
  <2> HIDE DEF x
  <2>3. MarkersRest(w, RecomputeLeg(x))
    BY <2>2, RecomputeRests DEF MarkersRest
  <2>4. QED
    BY <2>1, <2>3, RevealRests DEF MarkersRest
<1>3. QED
  BY <1>1, <1>2

LEMMA LayersRest ==
    ASSUME NEW w, "anims" \in DOMAIN w
    PROVE  MarkersRest(w, LayersEffect(w))
<1> DEFINE x == [ w EXCEPT !.hidden = (Layers \ layers)
                             \cup (IF Areal \in layers THEN {} ELSE { "region-focus" }) ]
<1>1. MarkersRest(w, x)
  BY DEF MarkersRest
<1>2. LayersEffect(w) = IF ~w.ready THEN w
                        ELSE IF Areal \in layers THEN ApplyRegionVisuals(x) ELSE x
  BY DEF LayersEffect
<1> HIDE DEF x
<1>3. MarkersRest(w, ApplyRegionVisuals(x))
  BY <1>1, VisualsRest DEF MarkersRest
<1>4. MarkersRest(w, w)
  BY DEF MarkersRest
<1>5. QED
  BY <1>1, <1>2, <1>3, <1>4

LEMMA EndedRests ==
    ASSUME NEW w, "anims" \in DOMAIN w, NEW at
    PROVE  MarkersRest(w, Ended(w, at))
<1> DEFINE x == [ w EXCEPT !.flight = None, !.arrived = TRUE ]
<1>1. MarkersRest(w, x)
  BY DEF MarkersRest
<1>2. Ended(w, at) = RevealIfReady(SettleFocus(x), at)
  BY DEF Ended
<1> HIDE DEF x
<1>3. MarkersRest(w, SettleFocus(x))
  BY <1>1, SettleRests DEF MarkersRest
<1>4. QED
  BY <1>2, <1>3, RevealRests DEF MarkersRest

LEMMA IntervalRests ==
    ASSUME NEW w, "anims" \in DOMAIN w, NEW feed
    PROVE  /\ MarkersRest(w, Interval(w, feed))
           /\ MarkersRest(w, Stamped(w, feed))
BY DEF Interval, Stamped, MarkersRest

LEMMA TrailsRest ==
    ASSUME NEW w, "anims" \in DOMAIN w, NEW news, NEW ms
    PROVE  MarkersRest(w, Trailed(w, news)) /\ MarkersRest(w, Eased(w, ms))
BY DEF Trailed, Eased, MarkersRest


LEMMA ViewHolds ==
    ASSUME NEW w \in View
    PROVE  "anims" \in DOMAIN w /\ w.anims \in [ Marker -> Maybe(Glides) ]
BY DEF View, Anims

LEMMA VehiclesMove ==
    ASSUME StateTyped, NEW w \in View
    PROVE  MarkersMove(w, VehicleGlides(w), Vehicle)
<1> DEFINE x == Interval(w, "vehicles")
           timed == Stamped(x, "vehicles")
           ms == GlideMsFor(timed, "vehicles")
           moved == MoveMarkers(timed, Vehicle, ms)
           news == { v \in Vehicle : moved.anims[v] # w.anims[v] }
           trailed == Trailed(moved, news)
           eased == IF w.vehicle \in news /\ Follows(w, w.vehicle)
                    THEN [ trailed EXCEPT
                             !.flight = [ to |-> Camera(live[w.vehicle].pos, w.camera.near),
                                          ends |-> now + ms ],
                             !.shows = w.vehicle, !.pulled = <<w.vehicle, now>> ]
                    ELSE trailed
<1>1. "vehicles" \in Feeds /\ now \in Nat
  BY DEF Feeds, StateTyped
<1>2. x \in View
  BY <1>1, IntervalIs DEF Quiet
<1>3. VehicleGlides(w) = RecomputeLeg(eased)
  BY DEF VehicleGlides, Stamped, Trailed
<1>4. MarkersRest(w, x)
  BY ViewHolds, IntervalRests
<1> HIDE DEF x
<1>5. timed \in View /\ MarkersRest(x, timed)
  BY <1>1, <1>2, StampedIs, ViewHolds, IntervalRests DEF Quiet
<1> HIDE DEF timed
<1>6. ms \in Positive
  BY <1>1, <1>5, GlideMsIs
<1> HIDE DEF ms
<1>7. MarkersMove(timed, moved, Vehicle)
  BY <1>5, <1>6, MoveSteadily DEF Marker
<1> HIDE DEF moved
<1>8. "anims" \in DOMAIN moved
  BY <1>5, <1>7, ViewHolds DEF MarkersMove
<1> HIDE DEF news
<1>9. MarkersRest(moved, trailed)
  BY <1>8, TrailsRest
<1> HIDE DEF trailed
<1>10. MarkersRest(trailed, eased)
  <2>1. "anims" \in DOMAIN trailed
    BY <1>8, <1>9 DEF MarkersRest
  <2>2. QED
    BY <2>1 DEF MarkersRest
<1> HIDE DEF eased
<1>11. "anims" \in DOMAIN eased
  BY <1>8, <1>9, <1>10 DEF MarkersRest
<1>12. MarkersRest(eased, RecomputeLeg(eased))
  BY <1>11, RecomputeRests
<1>13. QED
  BY <1>3, <1>4, <1>5, <1>7, <1>9, <1>10, <1>12 DEF MarkersRest, MarkersMove, OnRoads

LEMMA RidersMove ==
    ASSUME StateTyped, NEW w \in View
    PROVE  MarkersMove(w, RiderGlides(w), Rider)
<1> DEFINE x == Interval(w, "riders")
           timed == Stamped(x, "riders")
           ms == GlideMsFor(timed, "riders")
<1>1. "riders" \in Feeds /\ now \in Nat
  BY DEF Feeds, StateTyped
<1>2. x \in View
  BY <1>1, IntervalIs DEF Quiet
<1>3. RiderGlides(w) = MoveMarkers(timed, Rider, ms)
  BY DEF RiderGlides, Stamped
<1>4. MarkersRest(w, x)
  BY ViewHolds, IntervalRests
<1> HIDE DEF x
<1>5. timed \in View /\ MarkersRest(x, timed)
  BY <1>1, <1>2, StampedIs, ViewHolds, IntervalRests DEF Quiet
<1> HIDE DEF timed
<1>6. ms \in Positive
  BY <1>1, <1>5, GlideMsIs
<1> HIDE DEF ms
<1>7. MarkersMove(timed, MoveMarkers(timed, Rider, ms), Rider)
  BY <1>5, <1>6, MoveSteadily DEF Marker
<1>8. QED
  BY <1>3, <1>4, <1>5, <1>7 DEF MarkersRest, MarkersMove, OnRoads

\* What the effects of one render make of the markers.
LEMMA EffectsMove ==
    ASSUME StateTyped, SelectionRight, view # None, Mounted
    PROVE  MarkersMove(view, Effects, Marker)
<1> DEFINE a == WhenData(view)
           b == WhenOutlines(a)
           c == WhenLayers(b)
           d == WhenVehicle(c)
           e == WhenFollow(d)
           f == WhenVehicles(e)
           g == WhenRiders(f)
           h == WhenRegion(g)
           t == WhenAim(h)
<1>1. view \in View /\ "anims" \in DOMAIN view
  BY ViewHolds DEF Mounted
<1>2. Underway(a, Drawn) /\ Subject(a) = Subject(view)
  BY WhenDataIs
<1>3. Effects = t
  BY DEF Effects
<1>4. MarkersRest(view, a)
  BY <1>1, DataRests DEF WhenData, MarkersRest
<1> HIDE DEF a
<1>5. Underway(b, Drawn) /\ Subject(b) = Subject(view) /\ MarkersRest(a, b)
  <2>1. "anims" \in DOMAIN a
    BY <1>1, <1>4 DEF MarkersRest
  <2>2. MarkersRest(a, b)
    BY <2>1, VisualsRest DEF WhenOutlines, MarkersRest
  <2>3. QED
    BY <1>2, <2>2, WhenOutlinesIs
<1> HIDE DEF b
<1>6. Underway(c, layers) /\ c.vehicle = view.vehicle /\ MarkersRest(b, c)
  <2>1. Underway(c, layers) /\ Subject(c) = Subject(b)
    BY <1>5, WhenLayersIs
  <2>2. "anims" \in DOMAIN b
    BY <1>1, <1>4, <1>5 DEF MarkersRest
  <2>3. MarkersRest(b, c)
    BY <2>2, LayersRest DEF WhenLayers, MarkersRest
  <2>4. QED
    BY <1>5, <2>1, <2>3 DEF Subject
<1> HIDE DEF c
<1>7. Underway(d, layers) /\ d.vehicle = IdOf(s.vehicle) /\ MarkersRest(c, d)
  <2>1. Underway(d, layers) /\ d.vehicle = IdOf(s.vehicle)
    BY <1>6, WhenVehicleIs
  <2> DEFINE x == [ c EXCEPT !.vehicle = IdOf(s.vehicle) ]
  <2>2. "anims" \in DOMAIN c
    BY <1>6, ViewHolds DEF Underway
  <2>3. MarkersRest(c, x) /\ "anims" \in DOMAIN x
    BY <2>2 DEF MarkersRest
  <2>4. d = IF Picked("vehicle") THEN RecomputeLeg(x) ELSE c
    BY DEF WhenVehicle
  <2> HIDE DEF x, d
  <2>5. MarkersRest(c, d)
    BY <2>3, <2>4, RecomputeRests DEF MarkersRest
  <2>6. QED
    BY <2>1, <2>5
<1> HIDE DEF d
<1>8. /\ Underway(e, layers) /\ e.vehicle = IdOf(s.vehicle) /\ e.follow = s.follow
      /\ MarkersRest(d, e)
  <2>1. Underway(e, layers) /\ e.vehicle = d.vehicle /\ e.follow = s.follow
    BY <1>7, WhenFollowIs
  <2>2. "anims" \in DOMAIN d
    BY <1>7, ViewHolds DEF Underway
  <2>3. MarkersRest(d, e)
    BY <2>2 DEF WhenFollow, MarkersRest
  <2>4. QED
    BY <1>7, <2>1, <2>3
<1> HIDE DEF e
<1>9. MarkersRest(view, e) /\ e \in View
  BY <1>4, <1>5, <1>6, <1>7, <1>8 DEF MarkersRest, Underway
<1>10. Underway(f, layers) /\ Subject(f) = Subject(e)
       /\ (f = e \/ MarkersMove(e, f, Vehicle))
  <2>1. Underway(f, layers) /\ Subject(f) = Subject(e)
    BY <1>8, WhenVehiclesIs
  <2>2. f = e \/ MarkersMove(e, f, Vehicle)
    BY <1>9, VehiclesMove DEF WhenVehicles
  <2>3. QED
    BY <2>1, <2>2
<1> HIDE DEF f
<1>11. f \in View
  BY <1>10 DEF Underway
<1>12. g \in View /\ (g = f \/ MarkersMove(f, g, Rider))
  <2>1. Underway(g, layers)
    BY <1>10, WhenRidersIs
  <2>2. g = f \/ MarkersMove(f, g, Rider)
    BY <1>11, RidersMove DEF WhenRiders
  <2>3. QED
    BY <2>1, <2>2 DEF Underway
<1> HIDE DEF g
<1>13. MarkersRest(g, h) /\ "anims" \in DOMAIN h
  <2>1. "anims" \in DOMAIN g
    BY <1>12, ViewHolds
  <2>2. MarkersRest(g, h)
    BY <2>1, VisualsRest DEF WhenRegion, MarkersRest
  <2>3. QED
    BY <2>1, <2>2 DEF MarkersRest
<1> HIDE DEF h
<1>14. MarkersRest(h, t)
  BY <1>13, CameraRests DEF WhenAim, MarkersRest
<1> HIDE DEF t
<1>15. DOMAIN t = DOMAIN view
  BY <1>9, <1>10, <1>12, <1>13, <1>14 DEF MarkersRest, MarkersMove
<1>16. t.anims = g.anims /\ e.anims = view.anims
  BY <1>9, <1>13, <1>14 DEF MarkersRest
<1>17. OnRoads(view) => OnRoads(t)
  <2>1. OnRoads(view) => OnRoads(e)
    BY <1>16 DEF OnRoads
  <2>2. OnRoads(e) => OnRoads(g)
    BY <1>10, <1>12 DEF MarkersMove
  <2>3. OnRoads(g) => OnRoads(t)
    BY <1>16 DEF OnRoads
  <2>4. QED
    BY <2>1, <2>2, <2>3
<1>18. ASSUME NEW id \in Marker
       PROVE  JumpsToReportOnly(view.anims[id], t.anims[id], id)
  <2>1. JumpsToReportOnly(view.anims[id], view.anims[id], id)
    <3>1. view.anims[id] \in Maybe(Glides)
      BY <1>1, ViewHolds
    <3>2. QED
      BY <3>1, StaysPut
  <2>2. CASE id \in Vehicle
    <3>1. id \notin Rider
      BY <2>2, FeedAssumption
    <3>2. g.anims[id] = f.anims[id]
      BY <1>12, <3>1 DEF MarkersMove
    <3>3. f.anims[id] = e.anims[id] \/ JumpsToReportOnly(e.anims[id], f.anims[id], id)
      BY <1>10, <2>2 DEF MarkersMove
    <3>4. QED
      BY <1>16, <2>1, <3>2, <3>3
  <2>3. CASE id \notin Vehicle
    <3>1. id \in Rider
      BY <2>3 DEF Marker
    <3>2. f.anims[id] = e.anims[id]
      BY <1>10, <2>3 DEF MarkersMove
    <3>3. g.anims[id] = f.anims[id] \/ JumpsToReportOnly(f.anims[id], g.anims[id], id)
      BY <1>12, <3>1 DEF MarkersMove
    <3>4. QED
      BY <1>16, <2>1, <3>2, <3>3
  <2>4. QED
    BY <2>2, <2>3
<1>19. QED
  BY <1>3, <1>15, <1>17, <1>18 DEF MarkersMove


----------------------------------------------------------------------------
\* The steps.  All but those of the effects and of "load" leave the markers where
\* they are, or mount a map that has none.

Undisturbed ==
    view' # None => \/ view # None /\ view'.anims = view.anims
                    \/ \A id \in Marker : view'.anims[id] = None

LEMMA MountMoves ==
    ASSUME NEW camera, Mount(camera)
    PROVE  Undisturbed
<1>1. \A id \in Marker : FreshView(camera).anims[id] = None
  BY DEF FreshView
<1>2. QED
  BY <1>1 DEF Mount, Undisturbed

LEMMA GoToMoves ==
    ASSUME NEW to, NEW sel, GoTo(to, sel)
    PROVE  Undisturbed
<1>1. CASE to \in MapPages
  BY <1>1, MountMoves DEF GoTo
<1>2. CASE to \notin MapPages
  BY <1>2 DEF GoTo, Undisturbed
<1>3. QED
  BY <1>1, <1>2

LEMMA RestMoves ==
    ASSUME view # None, NEW w, MarkersRest(view, w), "anims" \in DOMAIN view, NEW at, Rest(w, at)
    PROVE  Undisturbed
<1>1. "anims" \in DOMAIN w
  BY DEF MarkersRest
<1>2. MarkersRest(w, Ended(w, at)) /\ MarkersRest(w, [ w EXCEPT !.flight = None ])
  BY <1>1, EndedRests DEF MarkersRest
<1>3. QED
  BY <1>2 DEF Rest, MarkersRest, Undisturbed

LEMMA LookMoves ==
    ASSUME IInv, NEW camera, NEW drag, Look(camera, drag)
    PROVE  Undisturbed
<1> DEFINE w == [ view EXCEPT !.camera = camera, !.userUntil = now + GraceMs, !.shows = "user" ]
<1>1. view # None /\ Rest(w, now)
  BY DEF Look
<1>2. "anims" \in DOMAIN view
  BY <1>1, InvGives, ViewHolds
<1>3. MarkersRest(view, w)
  BY <1>2 DEF MarkersRest
<1> HIDE DEF w
<1>4. QED
  BY <1>1, <1>2, <1>3, RestMoves

LEMMA AdvanceMoves ==
    ASSUME IInv, Advance
    PROVE  Undisturbed
<1>1. CASE UNCHANGED onMap
  BY <1>1 DEF onMap, Undisturbed
<1>2. CASE ~UNCHANGED onMap
  <2> DEFINE w == [ view EXCEPT !.camera = view.flight.to ]
  <2>1. view # None /\ Rest(w, now')
    BY <1>2 DEF Advance
  <2>2. "anims" \in DOMAIN view
    BY <2>1, InvGives, ViewHolds
  <2>3. MarkersRest(view, w)
    BY <2>2 DEF MarkersRest
  <2> HIDE DEF w
  <2>4. QED
    BY <2>1, <2>2, <2>3, RestMoves
<1>3. QED
  BY <1>1, <1>2

LEMMA RouteMoves ==
    ASSUME IInv, NEW ask, RouteAnswers(ask)
    PROVE  Undisturbed
<1>1. CASE view = None
  BY <1>1 DEF RouteAnswers, Undisturbed
<1>2. CASE view # None
  <2>1. "anims" \in DOMAIN view
    BY <1>2, InvGives, ViewHolds
  <2>2. PICK x : view' = [ view EXCEPT !.liveRoute = x ]
    BY <1>2 DEF RouteAnswers
  <2>3. view'.anims = view.anims
    BY <2>1, <2>2
  <2>4. QED
    BY <1>2, <2>3 DEF Undisturbed
<1>3. QED
  BY <1>1, <1>2

LEMMA LeaveMoves ==
    ASSUME IInv, NEW chip, Leave(chip)
    PROVE  Undisturbed
<1> DEFINE interrupted == view.ready /\ view.flight # None
           home(w) == [ w EXCEPT !.flight = [ to |-> Camera(Home, FALSE), ends |-> now + HomeMs ],
                                 !.shows = "home" ]
           w0 == IF interrupted THEN Ended(view, now) ELSE view
<1>1. CASE UNCHANGED onMap
  BY <1>1 DEF onMap, Undisturbed
<1>2. CASE ~UNCHANGED onMap
  <2>1. view # None /\ view' = home(w0)
    BY <1>2 DEF Leave
  <2>2. "anims" \in DOMAIN view
    BY <2>1, InvGives, ViewHolds
  <2>3. MarkersRest(view, w0)
    BY <2>2, EndedRests DEF MarkersRest
  <2> HIDE DEF w0
  <2>4. home(w0).anims = w0.anims
    BY <2>2, <2>3 DEF MarkersRest
  <2>5. QED
    BY <2>1, <2>3, <2>4 DEF MarkersRest, Undisturbed
<1>3. QED
  BY <1>1, <1>2

LEMMA LoadMoves ==
    ASSUME IInv, Load
    PROVE  view # None /\ ~view.ready /\ (OnRoads(view) => OnRoads(view'))
<1> DEFINE a == [ id \in Marker |-> IF id \in Vehicle THEN Stand(id) ELSE view.anims[id] ]
           w == Cleared(Loaded)
<1>1. view # None /\ ~view.ready
  BY DEF Load
<1>2. view' = w
  BY DEF Load, Show, Loaded, Moved, Seeded, Stand, Cleared
<1>3. "anims" \in DOMAIN view
  BY <1>1, InvGives, ViewHolds
<1>4. Seeded = [ view EXCEPT !.ready = TRUE, !.anims = a ]
  BY DEF Seeded
<1>5. DOMAIN Seeded = DOMAIN view /\ Seeded.anims = a
  <2> HIDE DEF a
  <2>1. QED
    BY <1>3, <1>4
<1>6. MarkersRest(Seeded, Moved)
  <2>1. "anims" \in DOMAIN Seeded
    BY <1>3, <1>5
  <2>2. MarkersRest(Seeded, Fly(Seeded, now, Camera(Home, FALSE), IntroMs, "home"))
    BY <2>1, FlyRests
  <2>3. MarkersRest(Seeded, [ Seeded EXCEPT !.arrived = TRUE ])
    BY <2>1 DEF MarkersRest
  <2>4. QED
    BY <2>2, <2>3 DEF Moved
<1>7. MarkersRest(Moved, DataEffect(Moved))
  BY <1>3, <1>5, <1>6, DataRests DEF MarkersRest
<1>8. MarkersRest(DataEffect(Moved), ApplyRegionVisuals(DataEffect(Moved)))
  BY <1>3, <1>5, <1>6, <1>7, VisualsRest DEF MarkersRest
<1>9. MarkersRest(ApplyRegionVisuals(DataEffect(Moved)), Loaded)
  BY <1>3, <1>5, <1>6, <1>7, <1>8, LayersRest DEF Loaded, MarkersRest
<1>10. "anims" \in DOMAIN Loaded /\ Loaded.anims = a
  BY <1>3, <1>5, <1>6, <1>7, <1>8, <1>9 DEF MarkersRest
<1>11. w.anims = a
  <2> HIDE DEF a
  <2>1. QED
    BY <1>10 DEF Cleared
<1> HIDE DEF w
<1>12. ASSUME OnRoads(view) PROVE OnRoads(view')
  <2> SUFFICES ASSUME NEW id \in Marker PROVE OnRoad(a[id])
    BY <1>2, <1>11 DEF OnRoads
  <2>1. OnRoad(view.anims[id])
    BY <1>12 DEF OnRoads
  <2>2. CASE id \in Vehicle /\ live[id] # None
    <3>1. a[id] = Glide(live[id].pos, live[id].pos, None, DefaultGlide, live[id].stamp)
      BY <2>2 DEF Stand
    <3>2. a[id].path = None
      BY <3>1 DEF Glide
    <3>3. QED
      BY <3>2 DEF OnRoad
  <2>3. CASE ~(id \in Vehicle /\ live[id] # None)
    <3>1. a[id] = view.anims[id]
      BY <2>3 DEF Stand
    <3>2. QED
      BY <2>1, <3>1
  <2>4. QED
    BY <2>2, <2>3
<1>13. QED
  BY <1>1, <1>12


LEMMA OtherMoves ==
    ASSUME IInv, [Next]_vars
    PROVE  MapEffects \/ Load \/ Undisturbed
<1>1. CASE UNCHANGED view
  BY <1>1 DEF Undisturbed
<1>2. DrawerEffect \/ PollAnswers \/ DataArrives \/ RoadsArrive \/ (\E id \in Marker : Report(id))
      \/ (\E layer \in Layers : SetLayer(layer)) \/ UNCHANGED vars => UNCHANGED view
  BY DEF DrawerEffect, PollAnswers, DataArrives, RoadsArrive, Report, SetLayer, vars, onMap
<1>3. OpenFocus \/ Close \/ Back \/ ToggleFollow
      \/ (\E item \in Openable : Click(item) \/ Open(item)) => UNCHANGED view
  BY DEF OpenFocus, Close, Back, ToggleFollow, Click, Open, onMap
<1>4. (\E ask \in lookups : RouteAnswers(ask)) \/ Advance => Undisturbed
  BY RouteMoves, AdvanceMoves
<1>5. (\E p \in Places : Drag(p)) \/ Wheel => Undisturbed
  BY LookMoves DEF Drag, Wheel
<1>6. (\E chip \in BOOLEAN : Leave(chip)) => Undisturbed
  BY LeaveMoves
<1>7. (\E to \in Pages : Navigate(to)) \/ ChangeTheme => Undisturbed
  BY GoToMoves DEF Navigate, ChangeTheme
<1>8. FollowVehicle => UNCHANGED view \/ Undisturbed
  <2> SUFFICES ASSUME FollowVehicle PROVE UNCHANGED view \/ Undisturbed
    OBVIOUS
  <2> DEFINE chosen == SelectVehicle(s, outlines, rows[drawer.item.id],
                                     PositionOf(rows[drawer.item.id]))
  <2>1. (ChangeStores(drawer, chosen) /\ UNCHANGED onMap) \/ GoTo("control-tower", chosen)
    BY DEF FollowVehicle
  <2>2. QED
    BY <2>1, GoToMoves DEF onMap
<1>9. QED
  BY <1>1, <1>2, <1>3, <1>4, <1>5, <1>6, <1>7, <1>8 DEF Next, Environment, User

MarkersOnRoads == view # None => OnRoads(view)

MarkersJump ==
    view # None /\ view' # None =>
        \A id \in Marker :
            view.ready => JumpsToReportOnly(view.anims[id], view'.anims[id], id)

LEMMA MarkersStep ==
    ASSUME IInv, MarkersOnRoads, [Next]_vars
    PROVE  MarkersOnRoads' /\ MarkersJump
<1>1. StateTyped /\ SelectionRight /\ (view # None => view \in View)
  BY InvGives
<1>2. CASE MapEffects
  <2>1. view # None /\ view' = Cleared(Effects)
    BY <1>2 DEF MapEffects, Show, Effects, Cleared
  <2>2. MarkersMove(view, Effects, Marker)
    BY <1>1, <2>1, EffectsMove DEF IInv
  <2>3. "anims" \in DOMAIN Effects
    BY <1>1, <2>1, <2>2, ViewHolds DEF MarkersMove
  <2>4. Cleared(Effects).anims = Effects.anims
    BY <2>3 DEF Cleared
  <2>5. OnRoads(view)'
    BY <2>1, <2>2, <2>4 DEF MarkersOnRoads, MarkersMove, OnRoads
  <2>6. MarkersJump
    BY <2>1, <2>2, <2>4 DEF MarkersJump, MarkersMove
  <2>7. QED
    BY <2>5, <2>6 DEF MarkersOnRoads
<1>3. CASE Load
  <2>1. view # None /\ ~view.ready /\ OnRoads(view')
    BY <1>3, LoadMoves DEF MarkersOnRoads
  <2>2. QED
    BY <2>1 DEF MarkersOnRoads, MarkersJump, OnRoads
<1>4. CASE Undisturbed
  <2> SUFFICES ASSUME view' # None
               PROVE  OnRoads(view)' /\ MarkersJump
    BY DEF MarkersOnRoads, MarkersJump
  <2>1. CASE view # None /\ view'.anims = view.anims
    <3>1. OnRoads(view)'
      BY <2>1 DEF MarkersOnRoads, OnRoads
    <3>2. ASSUME NEW id \in Marker
          PROVE  JumpsToReportOnly(view.anims[id], view'.anims[id], id)
      <4>1. view.anims[id] \in Maybe(Glides)
        BY <1>1, <2>1, ViewHolds
      <4>2. JumpsToReportOnly(view.anims[id], view.anims[id], id)
        BY <1>1, <4>1, StaysPut
      <4>3. QED
        BY <2>1, <4>2
    <3>3. QED
      BY <3>1, <3>2 DEF MarkersJump
  <2>2. CASE \A id \in Marker : view'.anims[id] = None
    BY <2>2 DEF OnRoads, OnRoad, MarkersJump, JumpsToReportOnly
  <2>3. QED
    BY <1>4, <2>1, <2>2 DEF Undisturbed
<1>5. QED
  BY <1>2, <1>3, <1>4, OtherMoves

LEMMA MarkersGive ==
    ASSUME IInv, MarkersOnRoads
    PROVE  MarkersKeepToTheRoad
<1> SUFFICES ASSUME view # None, NEW id \in Marker,
                    view.anims[id] # None, view.anims[id].path # None
             PROVE  \E corridor \in DOMAIN Corridors : \E i \in DOMAIN Corridors[corridor] :
                       ProjectOnRoad(Corridors[corridor][i], MarkerAt(view.anims[id], now)).offset = 0
  BY DEF MarkersKeepToTheRoad
<1>1. view.anims[id] \in Glides /\ now \in Nat
  BY InvGives, ViewHolds DEF Maybe, StateTyped
<1>2. OnRoad(view.anims[id])
  BY DEF MarkersOnRoads, OnRoads
<1>3. QED
  BY <1>1, <1>2, OnRoadIs

\* Between two reports on one road a marker is drawn on that road (MapView.tsx:212), and
\* a report puts none elsewhere than where it was drawn or where it is reported.
THEOREM MarkersStaySteady == Spec => MarkersAreSteady
<1>1. Init => MarkersOnRoads
  <2>1. \A id \in Marker : FreshView(Camera(Home, FALSE)).anims[id] = None
    BY DEF FreshView
  <2>2. Init /\ view # None => view = FreshView(Camera(Home, FALSE))
    BY DEF Init
  <2>3. QED
    BY <2>1, <2>2 DEF MarkersOnRoads, OnRoads, OnRoad
<1>2. IInv /\ MarkersOnRoads /\ [Next]_vars => MarkersOnRoads'
  BY MarkersStep
<1> DEFINE Jump ==
        view # None /\ view' # None =>
            \A id \in Marker :
               view.anims[id] # None /\ view.ready /\ view'.anims[id] # None =>
                  LET drawn == MarkerAt(view'.anims[id], now)
                  IN  \/ Metres(MarkerAt(view.anims[id], now), drawn) <= OffRoute
                      \/ /\ view'.anims[id].path # None
                         /\ Metres(live[id].pos, drawn) <= OffRoute
<1>3. IInv /\ MarkersOnRoads /\ [Next]_vars => [Jump]_vars
  BY MarkersStep DEF MarkersJump, JumpsToReportOnly
<1>4. IInv /\ MarkersOnRoads => MarkersKeepToTheRoad
  BY MarkersGive
<1>. QED
  BY <1>1, <1>2, <1>3, <1>4, InvariantHolds, PTL
     DEF Spec, MarkersAreSteady, MarkersJumpOnlyToReports

=============
