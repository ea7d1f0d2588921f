------------------------------- MODULE Roads --------------------------------
(***************************************************************************)
(* The geometry the map draws with (frontend/src/components/map/roads.ts   *)
(* and geo.ts): roads as polylines, a position matched to a road, the      *)
(* stretch between two positions, the leg a vehicle is on, and the area a  *)
(* point lies in.                                                          *)
(*                                                                         *)
(* The earth is a flat grid in metres and every segment of a road runs     *)
(* along one axis, so that the nearest point of a segment is a clamp and   *)
(* every length an integer; distance is measured along the grid.  A place  *)
(* along a road is in metres from its start, where the code has a          *)
(* fraction of its length.  A polyline is a sequence of points.            *)
(***************************************************************************)
EXTENDS Integers, FiniteSets, Sequences, SequencesExt

CONSTANTS
    None,      \* null
    OffRoute   \* OFF_ROUTE_M

ASSUME RoadAssumption == OffRoute \in Nat

Point == [ {1, 2} -> Int ]

Least(a, b) == IF a < b THEN a ELSE b
Most(a, b) == IF a < b THEN b ELSE a
Clamp(x, low, high) == Least(Most(x, low), high)
Between(x, a, b) == Clamp(x, Least(a, b), Most(a, b))
Gap(x, y) == Most(x, y) - Least(x, y)

Metres(a, b) == Gap(a[1], b[1]) + Gap(a[2], b[2])

----------------------------------------------------------------------------
\* One polyline.

Measure(points) ==
    LET cum[i \in 1..Len(points)] ==
            IF i = 1 THEN 0 ELSE cum[i - 1] + Metres(points[i - 1], points[i])
    IN  cum

LengthOf(points) == Measure(points)[Len(points)]

\* The segment that ends at a vertex, the first one to reach the target.
SegmentAt(points, target) ==
    LET cum == Measure(points)
    IN  CHOOSE i \in 2..Len(points) :
            /\ i = Len(points) \/ cum[i] >= target
            /\ \A j \in 2..(i - 1) : cum[j] < target

PointAtDistance(points, target) ==
    LET i == SegmentAt(points, target)
        a == points[i - 1]
        b == points[i]
        along == target - Measure(points)[i - 1]
    IN  [ k \in {1, 2} |-> IF a[k] < b[k] THEN a[k] + along
                           ELSE IF a[k] > b[k] THEN a[k] - along ELSE a[k] ]

\* A point part/whole of the way along.
PointAlong(points, part, whole) ==
    IF Len(points) < 2 \/ LengthOf(points) = 0 THEN points[1]
    ELSE PointAtDistance(points, (LengthOf(points) * Clamp(part, 0, whole)) \div whole)

Heading(a, b) == << Between(b[1] - a[1], -1, 1), Between(b[2] - a[2], -1, 1) >>

----------------------------------------------------------------------------
\* A road: one of the variants generated for a corridor.

Road(name, km, minutes, geometry) ==
    [ name |-> name, km |-> km, minutes |-> minutes, geometry |-> geometry ]

\* Only a road of two points or more can be driven.
BuiltRoad == [ name : STRING, km : Int, minutes : Int,
               geometry : { g \in Seq(Point) : Len(g) >= 2 } ]
Build(raw) == SelectSeq(raw, LAMBDA v : Len(v.geometry) >= 2)

\* The network maps the two ends of a corridor to its roads, the fastest first.
Variants(network, from, to) ==
    IF <<from, to>> \in DOMAIN network THEN network[<<from, to>>] ELSE <<>>

Primary(network, from, to) ==
    LET roads == Variants(network, from, to)
    IN  IF roads = <<>> THEN None ELSE roads[1]

Line(network, from, to) ==
    LET road == Primary(network, from, to)
    IN  IF road = None THEN <<from, to>> ELSE road.geometry

\* The stops joined along the roads between them, without repeated points.
Chain(network, stops) ==
    LET points == FlattenSeq([ i \in 1..(Len(stops) - 1) |-> Line(network, stops[i], stops[i + 1]) ])
    IN  FoldLeft(LAMBDA out, p : IF out # <<>> /\ Last(out) = p THEN out ELSE Append(out, p),
                 <<>>, points)

ProjectOnSegment(p, a, b) == [ k \in {1, 2} |-> Between(p[k], a[k], b[k]) ]

\* The first of the nearest, among candidates [ i, offset, ... ].
Nearest(candidates) ==
    CHOOSE m \in candidates :
        \A n \in candidates : m.offset < n.offset \/ (m.offset = n.offset /\ m.i <= n.i)

\* Where along a road a position sits: at the first of its nearest segments.
ProjectOnRoad(road, p) ==
    LET points == road.geometry
        cum == Measure(points)
        at(i, snap) == [ i |-> i, offset |-> Metres(p, snap), snapped |-> snap,
                         progress |-> cum[i - 1] + Metres(points[i - 1], snap) ]
        best == Nearest({ at(i, ProjectOnSegment(p, points[i - 1], points[i])) :
                            i \in 2..Len(points) })
    IN  [ road |-> road, offset |-> best.offset, snapped |-> best.snapped,
          progress |-> best.progress ]

\* The road, of those given, that the position best fits.
MatchRoad(roads, p) ==
    LET at(i, m) == [ i |-> i, offset |-> m.offset, match |-> m ]
    IN  IF roads = <<>> THEN None
        ELSE Nearest({ at(i, ProjectOnRoad(roads[i], p)) : i \in 1..Len(roads) }).match

\* What is behind a position and what is ahead, joined at the point "at".
SplitRoad(road, progress, at) ==
    LET cum == Measure(road.geometry)
        passed == Cardinality({ i \in DOMAIN cum : cum[i] <= progress })
    IN  [ behind |-> Append(SubSeq(road.geometry, 1, passed), at),
          ahead |-> <<at>> \o SubSeq(road.geometry, passed + 1, Len(road.geometry)) ]

\* The stretch between two places, from the nearer to the start to the farther.
RoadSegment(road, from, to) ==
    LET points == road.geometry
        cum == Measure(points)
        a == Least(from, to)
        b == Most(from, to)
        first == Cardinality({ i \in DOMAIN cum : cum[i] <= a }) + 1
        last == Cardinality({ i \in DOMAIN cum : cum[i] < b })
    IN  <<PointAtDistance(points, a)>> \o SubSeq(points, first, last)
            \o <<PointAtDistance(points, b)>>

Remaining(road, progress) == LengthOf(road.geometry) - progress

HeadingAt(road, progress) ==
    LET i == SegmentAt(road.geometry, progress)
    IN  Heading(road.geometry[i - 1], road.geometry[i])

\* How far is left along the road, for a vehicle that is on one.
RoadRemainingFrom(network, source, at, destination) ==
    LET match == MatchRoad(Variants(network, source, destination), at)
    IN  IF match = None \/ match.offset > OffRoute THEN None
        ELSE Remaining(match.road, match.progress)

----------------------------------------------------------------------------
\* The leg a live vehicle is on.  A heading is a direction of the grid.

Leg(source, dest) == [ source |-> source, dest |-> dest ]

\* at: where each node is; routes: the pairs of nodes joined by a corridor.
InferVehicleLeg(live, current, routes, at) ==
    LET ways == { n \in DOMAIN at :
                      <<current, n>> \in routes /\ Heading(at[current], at[n]) = live.heading }
    IN  IF live.status # "EN_ROUTE" \/ current \notin DOMAIN at THEN None
        ELSE IF live.dest \in DOMAIN at THEN Leg(current, live.dest)
        ELSE IF ways = {} THEN None
        ELSE Leg(current, CHOOSE n \in ways : TRUE)

----------------------------------------------------------------------------
\* Areas.  A ring is a closed polygon, given by its corners.

\* The even-odd rule, with the crossing of each edge multiplied out.
RingContains(ring, p) ==
    LET crosses(i) ==
            LET a == ring[i]
                b == ring[IF i = 1 THEN Len(ring) ELSE i - 1]
                rise == b[2] - a[2]
                run == (b[1] - a[1]) * (p[2] - a[2])
            IN  /\ (a[2] > p[2]) # (b[2] > p[2])
                /\ IF rise > 0 THEN (p[1] - a[1]) * rise < run
                               ELSE (p[1] - a[1]) * rise > run
    IN  Cardinality({ i \in 1..Len(ring) : crosses(i) }) % 2 = 1

\* A polygon is its outer ring and then its holes; an area is a set of polygons.
PolygonContains(rings, p) ==
    RingContains(rings[1], p) /\ \A i \in 2..Len(rings) : ~RingContains(rings[i], p)

RegionContains(region, p) ==
    /\ \A k \in {1, 2} : region.bbox[1][k] <= p[k] /\ p[k] <= region.bbox[2][k]
    /\ \E polygon \in region.polygons : PolygonContains(polygon, p)

\* The first area of the list that a point lies in.
FindRegionAt(regions, p) ==
    LET inside == { i \in DOMAIN regions : RegionContains(regions[i], p) }
    IN  IF inside = {} THEN None
        ELSE regions[CHOOSE i \in inside : \A j \in inside : i <= j]

BBoxOf(points) ==
    LET bound(k, Beats(_, _)) ==
            LET values == { p[k] : p \in points }
            IN  CHOOSE v \in values : \A w \in values : Beats(v, w)
    IN  IF points = {} THEN None
        ELSE << << bound(1, LAMBDA v, w : v <= w), bound(2, LAMBDA v, w : v <= w) >>,
                << bound(1, LAMBDA v, w : v >= w), bound(2, LAMBDA v, w : v >= w) >> >>
=============================================================================
