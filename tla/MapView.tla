------------------------------ MODULE MapView -------------------------------
(***************************************************************************)
(* The live map (frontend/src/components/map/MapView.tsx) with the stores  *)
(* it shows: what is selected and open, the glide of the markers between   *)
(* two reports, the road of the selected vehicle, and the camera, which    *)
(* the selection, a followed vehicle and the user's hand all move.         *)
(*                                                                         *)
(* Of React this module keeps: the effects of a render run together, in    *)
(* the order they are written, each only if what it depends on has         *)
(* changed; everything but the feed waits for them.  All that lives in the *)
(* refs of the mounted map is one record, "view", lost when the map leaves *)
(* the page.  A frame draws a function of the view and the clock.  Time is *)
(* in ms.  Zoom is near (districts can be seen) or not; colours, labels,   *)
(* tooltips and hover are left out, and the notice of a map that fails.    *)
(* The camera is where its last movement ended; that a new flight cuts an  *)
(* old one short, with a moveend on the way, is kept where the user does   *)
(* it (Home, drag, wheel) and left out where an effect does.               *)
(***************************************************************************)
EXTENDS Selection

CONSTANTS
    Vehicle, Rider, Routes, Corridors,  \* Corridors: the file of roads
    Rows,       \* the vehicles as REST first has them
    Script,     \* the reports of each vehicle and rider in turn, each one of a set
    Layers, Areal, \* the layers that can be switched, and those of the areas' outlines
    Districts,  \* the sequence of the districts
    Home,       \* COUNTRY.center
    Pages, MapPages, InStepPages, \* all, those with a map, and MAP_PAGES of the drawer
    Openable,   \* what the user opens from a table, a search or a link
    Places,     \* where the user drags the map to
    Steps,      \* what the clock advances by
    IntroMs, FocusMs, RegionMs, HomeMs, \* how long the camera flies
    GraceMs,    \* it keeps its hands off for so long after the user's
    MinGlide, MaxGlide, DefaultGlide, LeastGap, MostGap,
    TrailLength,
    Budgets     \* bounds: how often the user, the feed, the clock and the files may act;
                \* with no file to come, all of them are there at the start

VARIABLES
    page,
    drawer, s,          \* the drawer and the selection
    live,               \* the latest report of each vehicle and rider
    rows,               \* the vehicles as REST last had them
    known, outlines, roads, \* loaded: the snapshot; the areas; the roads, or None
    layers,             \* those switched on
    lookups, answers,   \* roads being asked for, and the cache of those answered
    view, rendered,     \* the mounted map, and what its effects last ran with
    inStep,             \* what the drawer's effect last ran with
    lastCamera,         \* survives the map
    letGo,              \* history: the user has dragged the map since it last began to follow
    now, left       \* left: of the budget chosen

stores == <<page, drawer, s, live, rows, known, outlines, roads, layers>>
network == <<lookups, answers>>
onMap == <<view, lastCamera>>
vars == <<stores, network, onMap, rendered, inStep, letGo, now, left>>

Marker == Vehicle \cup Rider

Camera(center, near) == [ center |-> center, near |-> near ]

Feed(id) == IF id \in Vehicle THEN "vehicles" ELSE "riders"
Feeds == { "vehicles", "riders" }

----------------------------------------------------------------------------
\* What there is of each kind.

Maybe(S) == S \cup { None }

Known == Maybe(DOMAIN At)
Row == [ id : Vehicle, pos : Point, node : Known ]
Update == [ stamp : Nat, pos : Point, node : Known, dest : Known, heading : Point,
            variant : Maybe(STRING), status : STRING ]
Networks == Maybe({ Corridors, << >> })

Tracked == { item.id : item \in { i \in Openable : i.kind = "shipment" } }
Items == Openable \cup { Item("region", a) : a \in DOMAIN Areas }
Drawers == [ item : Maybe(Items), history : Seq(Items) ]
Selections == [ node : Known, vehicle : Maybe(Row), tracking : Maybe(Tracked),
                region : Maybe(DOMAIN Areas), follow : BOOLEAN ]

Cameras == [ center : Point, near : BOOLEAN ]
Flights == [ to : Cameras, ends : Nat ]
Paths == Seq(Point) \ { << >> }
Positive == Nat \ { 0 }
Glides == [ from : Point, to : Point, path : Maybe(Paths), started : Nat, ms : Positive,
            stamp : Nat ]
Legs == [ source : DOMAIN At, dest : DOMAIN At ]
Matches == [ road : BuiltRoad, offset : Int, snapped : Point, progress : Int ]
Infos == [ kind : { "fastest", "alternative", "off-route" }, remaining : Int,
           destination : DOMAIN At, extraKm : Int, extraMin : Int ]
Asks == Point \X Point
Shown == { "user", "home" } \cup DOMAIN At \cup Vehicle \cup Tracked \cup DOMAIN Areas
Pulls == Vehicle \X Nat
Chips == { Areas[a] : a \in DOMAIN Areas }
Hidden == Layers \cup { "region-focus" }

Anims == [ Marker -> Maybe(Glides) ]
Trails == [ Vehicle -> Seq(Point) ]
OfFeeds(S) == [ Feeds -> S ]
SetOf(S) == SUBSET S

View ==
    [ ready : BOOLEAN, data : BOOLEAN, arrived : BOOLEAN, revealed : BOOLEAN,
      roads : Networks, anims : Anims, trails : Trails,
      interval : OfFeeds(Positive), lastAt : OfFeeds(Nat), seen : OfFeeds(BOOLEAN),
      vehicle : Maybe(Vehicle), follow : BOOLEAN, leg : Maybe(Legs), match : Maybe(Matches),
      liveRoute : Maybe(Asks), info : Maybe(Infos), asks : SetOf(Asks),
      camera : Cameras, flight : Maybe(Flights), flightUntil : Nat, userUntil : Nat,
      had : BOOLEAN, shows : Maybe(Shown), pulled : Maybe(Pulls), focus : Maybe(Chips),
      hidden : SetOf(Hidden) ]

\* What the effects of the map depend on.
Dependencies ==
    [ known : BOOLEAN, outlines : BOOLEAN, roads : Networks, layers : SetOf(Layers),
      s : Selections, vehicles : [ Vehicle -> Maybe(Update) ],
      riders : [ Rider -> Maybe(Update) ] ]

ASSUME FeedAssumption ==
    /\ Rows \in [ Vehicle -> Row ] /\ \A v \in Vehicle : Rows[v].id = v
    /\ \A id \in Marker : Script[id] \in Seq(SUBSET Update)
    /\ Vehicle \cap Rider = {}

ASSUME GroundAssumption ==
    /\ DOMAIN Corridors \subseteq Point \X Point
    /\ \A ends \in DOMAIN Corridors : Corridors[ends] \in Seq(BuiltRoad)
    /\ Corridors = [ ends \in DOMAIN Corridors |-> Corridors[ends] ]
    /\ Districts \in Seq(Chips)
    /\ Home \in Point /\ Places \subseteq Point

\* As Roads has them: each segment of a road runs along one axis.
ASSUME AxisAssumption ==
    \A ends \in DOMAIN Corridors : \A n \in DOMAIN Corridors[ends] :
        LET g == Corridors[ends][n].geometry
        IN  \A i \in 2 .. Len(g) : g[i - 1][1] = g[i][1] \/ g[i - 1][2] = g[i][2]

ASSUME UserAssumption ==
    /\ "control-tower" \in Pages /\ "region-focus" \notin Layers
    /\ \A item \in Openable :
        /\ item.kind \in { "hub", "node", "customer" } => item.id \in DOMAIN At
        /\ item.kind = "rider" => item.id \in DOMAIN BaseOf
        /\ item.kind = "vehicle" => item.id \in Vehicle
        /\ item.kind = "region" => item.id \in DOMAIN Areas

ASSUME SentinelAssumption ==
    /\ None \notin Vehicle /\ None \notin Rider /\ None \notin Tracked /\ None \notin Items
    /\ None \notin Row /\ None \notin Update /\ None \notin Flights
    /\ None \notin View /\ None \notin Dependencies

ASSUME TimeAssumption ==
    /\ Steps \subseteq Nat
    /\ { MinGlide, MaxGlide, DefaultGlide, IntroMs, FocusMs, RegionMs, HomeMs } \subseteq Positive
    /\ { GraceMs, LeastGap, MostGap, TrailLength } \subseteq Nat
    /\ Budgets \subseteq [ user : Nat, feed : Nat, clock : Nat, load : Nat ]

FreshView(camera) ==
    [ ready |-> FALSE, data |-> FALSE, arrived |-> FALSE, revealed |-> FALSE,
      roads |-> None, anims |-> [ id \in Marker |-> None ], trails |-> [ v \in Vehicle |-> <<>> ],
      interval |-> [ f \in Feeds |-> DefaultGlide ], lastAt |-> [ f \in Feeds |-> 0 ],
      seen |-> [ f \in Feeds |-> FALSE ],
      vehicle |-> None, follow |-> FALSE, leg |-> None, match |-> None, liveRoute |-> None,
      info |-> None, asks |-> {},
      camera |-> camera, flight |-> None, flightUntil |-> 0, userUntil |-> 0,
      had |-> FALSE, shows |-> None, pulled |-> None, focus |-> None, hidden |-> {} ]

----------------------------------------------------------------------------
\* The camera.

\* At a time, which is "now" but where a flight ends within a step.
Fly(w, at, camera, duration, shows) ==
    [ w EXCEPT !.flight = [ to |-> camera, ends |-> at + duration ],
               !.flightUntil = at + duration + 100, !.shows = shows ]

CenterOf(bbox) == [ k \in {1, 2} |-> (bbox[1][k] + bbox[2][k]) \div 2 ]

PositionOf(row) == IF live[row.id] # None THEN live[row.id].pos ELSE row.pos

\* What is selected, as the camera sees it: the first of these.
Focused ==
    IF s.node # None THEN s.node
    ELSE IF s.vehicle # None THEN s.vehicle.id
    ELSE IF s.tracking # None THEN s.tracking
    ELSE s.region

ApplyCamera(w, at) ==
    LET moved ==
            IF s.node # None THEN Fly(w, at, Camera(At[s.node], TRUE), FocusMs, s.node)
            ELSE IF s.vehicle # None
            THEN Fly(w, at, Camera(PositionOf(s.vehicle), TRUE), FocusMs, s.vehicle.id)
            ELSE IF s.tracking # None THEN w   \* the path's bounds are never known
            ELSE IF s.region # None
            THEN Fly(w, at, Camera(CenterOf(Areas[s.region].bbox), TRUE), RegionMs, s.region)
            ELSE IF w.had THEN Fly(w, at, Camera(Home, FALSE), HomeMs, "home")
            ELSE w
    IN  [ moved EXCEPT !.had = Selected(s) ]

\* The chip that names the district in view, once the camera has come to rest.
SettleFocus(w) ==
    [ w EXCEPT !.focus = IF s.region # None \/ ~outlines \/ ~w.camera.near THEN None
                         ELSE FindRegionAt(Districts, w.camera.center) ]

\* The outline drawn while districts are passed over gives way to a selected area.
ApplyRegionVisuals(w) ==
    LET focus == { "region-focus" }
    IN  [ w EXCEPT !.hidden = IF s.region = None /\ Areal \in layers THEN @ \ focus
                              ELSE @ \cup focus ]

RevealIfReady(w, at) ==
    IF w.revealed \/ ~w.arrived \/ ~w.data THEN w
    ELSE ApplyCamera(ApplyRegionVisuals([ w EXCEPT !.revealed = TRUE ]), at)

----------------------------------------------------------------------------
\* The road of the selected vehicle.

LegOfSelected ==
    IF s.vehicle = None \/ live[s.vehicle.id] = None THEN None
    ELSE LET u == live[s.vehicle.id]
         IN  InferVehicleLeg(u, IF u.node # None THEN u.node ELSE s.vehicle.node, Routes, At)

\* The road the feed names, if the position agrees with it; else the best fit.
RoadOf(variants, u) ==
    LET named == { i \in DOMAIN variants :
                        variants[i].name = u.variant
                        /\ ProjectOnRoad(variants[i], u.pos).offset <= OffRoute }
    IN  IF named # {} THEN ProjectOnRoad(variants[CHOOSE i \in named : TRUE], u.pos)
        ELSE MatchRoad(variants, u.pos)

RouteInfo(variants, match, dest) ==
    [ kind |-> IF match.road.name = "primary" THEN "fastest" ELSE "alternative",
      remaining |-> Remaining(match.road, match.progress), destination |-> dest,
      extraKm |-> match.road.km - variants[1].km,
      extraMin |-> match.road.minutes - variants[1].minutes ]

\* Off every road known for the leg, the road is asked for; the last one stays drawn.
MatchRoadForLeg_KeepsMatch(w, leg, u) ==   \* mutant
    LET variants == Variants(w.roads, At[leg.source], At[leg.dest])
        match == RoadOf(variants, u)
    IN  IF match = None \/ match.offset > OffRoute THEN w
        ELSE [ w EXCEPT !.match = match, !.info = RouteInfo(variants, match, leg.dest) ]
MatchRoadForLeg(w, leg, u) ==
    LET variants == Variants(w.roads, At[leg.source], At[leg.dest])
        match == RoadOf(variants, u)
    IN  IF match # None /\ match.offset <= OffRoute
        THEN [ w EXCEPT !.match = match, !.liveRoute = None,
                        !.info = RouteInfo(variants, match, leg.dest) ]
        ELSE [ w EXCEPT !.match = None, !.asks = @ \cup { <<u.pos, At[leg.dest]>> },
                        !.info = [ kind |-> "off-route", destination |-> leg.dest,
                                   remaining |-> Metres(u.pos, At[leg.dest]),
                                   extraKm |-> 0, extraMin |-> 0 ] ]

\* Before the data has been shown, the map knows no node and no road.
RecomputeLeg(w) ==
    LET leg == IF w.data THEN LegOfSelected ELSE None
        to == [ w EXCEPT !.leg = leg ]
    IN  IF leg = None \/ w.roads = None
        THEN [ to EXCEPT !.match = None, !.liveRoute = None, !.info = None ]
        ELSE MatchRoadForLeg(to, leg, live[s.vehicle.id])

----------------------------------------------------------------------------
\* The markers.

Glide(from, to, path, ms, stamp) ==
    [ from |-> from, to |-> to, path |-> path, started |-> now, ms |-> ms, stamp |-> stamp ]

MarkerAt(a, time) ==
    LET part == Least(time - a.started, a.ms)
    IN  IF a.path # None THEN PointAlong(a.path, part, a.ms)
        ELSE [ k \in {1, 2} |-> a.from[k] + ((a.to[k] - a.from[k]) * part) \div a.ms ]

\* How long the next glides of a feed last: its gap, smoothed, and a fifth more.
Interval(w, f) ==
    LET gap == now - w.lastAt[f]
    IN  IF w.lastAt[f] = 0 \/ gap <= LeastGap \/ gap >= MostGap THEN w
        ELSE [ w EXCEPT !.interval[f] = IF w.seen[f] THEN @ + ((gap - @) * 3) \div 10 ELSE gap,
                        !.seen[f] = TRUE ]

GlideMsFor(w, f) == Clamp((w.interval[f] * 6) \div 5, MinGlide, MaxGlide)

\* The road between two reports, when both ends of the leg are known and both
\* are on the same road.
PathBetween(w, from, to, u) ==
    IF w.roads = None \/ ~w.data \/ { u.node, u.dest } \ DOMAIN At # {} THEN None
    ELSE LET variants == Variants(w.roads, At[u.node], At[u.dest])
             a == MatchRoad(variants, from)
             b == MatchRoad(variants, to)
         IN  IF a = None \/ b = None THEN None
             ELSE IF a.road # b.road \/ a.offset > OffRoute \/ b.offset > OffRoute THEN None
             ELSE RoadSegment(a.road, a.progress, b.progress)

\* Each marker with a new report glides on from where it is.
MoveMarkers_FromLastReport(w, ids, ms) ==   \* mutant
    LET news == { id \in ids : live[id] # None /\ w.anims[id] # None }
        move(id) == Glide(w.anims[id].to, live[id].pos, None, ms, live[id].stamp)
    IN  [ w EXCEPT !.anims =
            [ id \in Marker |-> IF id \in ids /\ live[id] # None /\ w.anims[id] = None
                                THEN Glide(live[id].pos, live[id].pos, None, ms, live[id].stamp)
                                ELSE IF id \in news THEN move(id) ELSE @[id] ] ]
MoveMarkers(w, ids, ms) ==
    LET news == { id \in ids : /\ live[id] # None
                               /\ w.anims[id] = None \/ w.anims[id].stamp # live[id].stamp }
        from(id) == IF w.anims[id] = None THEN live[id].pos ELSE MarkerAt(w.anims[id], now)
        move(id) == Glide(from(id), live[id].pos, PathBetween(w, from(id), live[id].pos, live[id]),
                          ms, live[id].stamp)
    IN  [ w EXCEPT !.anims = [ id \in Marker |-> IF id \in news THEN move(id) ELSE @[id] ] ]

Extend(trail, p) ==
    IF trail # <<>> /\ trail[Len(trail)] = p THEN trail ELSE LastOf(Append(trail, p), TrailLength)

\* The follow camera keeps its hands off a flight, and off while the user works the map.
Follows(w, id) ==
    /\ id = w.vehicle /\ w.follow /\ w.ready
    /\ now > w.flightUntil /\ now > w.userUntil

VehicleGlides(w) ==
    LET timed == [ Interval(w, "vehicles") EXCEPT !.lastAt["vehicles"] = now ]
        ms == GlideMsFor(timed, "vehicles")
        moved == MoveMarkers(timed, Vehicle, ms)
        news == { v \in Vehicle : moved.anims[v] # w.anims[v] }
        trailed == [ moved EXCEPT !.trails =
                       [ v \in Vehicle |-> IF v \in news THEN Extend(@[v], live[v].pos) ELSE @[v] ] ]
        eased == IF w.vehicle \in news /\ Follows(w, w.vehicle)
                 THEN [ trailed EXCEPT
                          !.flight = [ to |-> Camera(live[w.vehicle].pos, w.camera.near),
                                       ends |-> now + ms ],
                          !.shows = w.vehicle, !.pulled = <<w.vehicle, now>> ]
                 ELSE trailed
    IN  RecomputeLeg(eased)

RiderGlides(w) ==
    LET timed == [ Interval(w, "riders") EXCEPT !.lastAt["riders"] = now ]
    IN  MoveMarkers(timed, Rider, GlideMsFor(timed, "riders"))

----------------------------------------------------------------------------
\* The effects.

\* What the effects of the map depend on.
Deps == [ known |-> known, outlines |-> outlines, roads |-> roads, layers |-> layers, s |-> s,
          vehicles |-> [ v \in Vehicle |-> live[v] ], riders |-> [ r \in Rider |-> live[r] ] ]

DataEffect(w) ==
    IF ~w.ready \/ ~known THEN w
    ELSE RevealIfReady(RecomputeLeg([ w EXCEPT !.roads = roads, !.data = TRUE ]), now)

\* Every layer follows its switch; then the outline of a district in passing.
LayersEffect(w) ==
    LET switched == [ w EXCEPT !.hidden = (Layers \ layers)
                          \cup (IF Areal \in layers THEN {} ELSE { "region-focus" }) ]
    IN  IF ~w.ready THEN w
        ELSE IF Areal \in layers THEN ApplyRegionVisuals(switched) ELSE switched

\* What changed since the effects last ran, at their first run everything.
Changed(f) == rendered = None \/ Deps[f] # rendered[f]
Picked(f) == rendered = None \/ s[f] # rendered.s[f]
IdOf(vehicle) == IF vehicle = None THEN None ELSE vehicle.id

WhenData(w) == IF Changed("known") \/ Changed("roads") THEN DataEffect(w) ELSE w
WhenOutlines(w) == IF w.ready /\ Changed("outlines") THEN ApplyRegionVisuals(w) ELSE w
WhenLayers(w) == IF Changed("layers") THEN LayersEffect(w) ELSE w
WhenVehicle(w) ==
    IF Picked("vehicle") THEN RecomputeLeg([ w EXCEPT !.vehicle = IdOf(s.vehicle) ]) ELSE w
WhenFollow(w) == [ w EXCEPT !.follow = s.follow ]
WhenVehicles(w) == IF Changed("vehicles") THEN VehicleGlides(w) ELSE w
WhenRiders(w) == IF Changed("riders") THEN RiderGlides(w) ELSE w
WhenRegion(w) == IF w.ready /\ Picked("region") THEN ApplyRegionVisuals(w) ELSE w
WhenAim(w) ==
    LET aim == \/ rendered = None
               \/ IdOf(s.vehicle) # IdOf(rendered.s.vehicle)
               \/ \E f \in { "node", "tracking", "region" } : Picked(f)
    IN  IF w.ready /\ w.revealed /\ aim THEN ApplyCamera(w, now) ELSE w

\* What the effects ask of the router leaves the view.
Show(w) ==
    /\ view' = [ w EXCEPT !.asks = {} ]
    /\ lookups' = lookups \cup w.asks

MapEffects ==
    /\ view # None /\ rendered # Deps
    /\ Show(WhenAim(WhenRegion(WhenRiders(WhenVehicles(WhenFollow(WhenVehicle(
            WhenLayers(WhenOutlines(WhenData(view))))))))))
    /\ rendered' = Deps
    /\ UNCHANGED <<stores, answers, inStep, lastCamera, letGo, now, left>>

\* The drawer is mounted on every page; its effect looks at some of them.
DrawerEffect ==
    /\ inStep # <<drawer.item, page>>
    /\ inStep' = <<drawer.item, page>>
    /\ s' = IF page \in InStepPages
            THEN InStep(s, outlines, drawer.item, rows,
                        [ v \in Vehicle |-> PositionOf(rows[v]) ])
            ELSE s
    /\ letGo' = (letGo /\ (s'.vehicle = None \/ s'.vehicle = s.vehicle))
    /\ UNCHANGED <<page, drawer, live, rows, known, outlines, roads, layers, network, view,
                   rendered, lastCamera, now, left>>

Settled == inStep = <<drawer.item, page>> /\ (view = None \/ rendered = Deps)

----------------------------------------------------------------------------
\* The map comes and goes.

Mount(camera) ==
    /\ view' = FreshView(camera)
    /\ rendered' = None

\* On "load": the markers stand where the feed has them, and the intro flight
\* begins, unless a camera is remembered; the effects that need the map run now.
Load ==
    /\ view # None /\ ~view.ready /\ Settled
    /\ LET stand(v) == IF live[v] = None THEN view.anims[v]
                       ELSE Glide(live[v].pos, live[v].pos, None, DefaultGlide, live[v].stamp)
           seeded == [ view EXCEPT !.ready = TRUE,
                         !.anims = [ id \in Marker |-> IF id \in Vehicle THEN stand(id) ELSE @[id] ] ]
           moved == IF lastCamera # None THEN [ seeded EXCEPT !.arrived = TRUE ]
                    ELSE Fly(seeded, now, Camera(Home, FALSE), IntroMs, "home")
       IN  Show(LayersEffect(ApplyRegionVisuals(DataEffect(moved))))
    /\ UNCHANGED <<stores, answers, rendered, inStep, lastCamera, letGo, now, left>>

\* A movement ends, the first of them the intro: the map listens once loaded.
Ended(w, at) == RevealIfReady(SettleFocus([ w EXCEPT !.flight = None, !.arrived = TRUE ]), at)
Rest(w, at) ==
    IF w.ready THEN view' = Ended(w, at) /\ lastCamera' = w.camera
    ELSE view' = [ w EXCEPT !.flight = None ] /\ UNCHANGED lastCamera

----------------------------------------------------------------------------
\* The feed, the network and the clock.

Spend(what) == left[what] > 0 /\ left' = [ left EXCEPT ![what] = @ - 1 ]

Report(id) ==
    /\ Spend("feed")
    /\ LET next == IF live[id] = None THEN 1 ELSE live[id].stamp + 1
       IN  /\ next \in DOMAIN Script[id]
           /\ \E u \in Script[id][next] :
                 /\ live' = [ live EXCEPT ![id] = u ]
                 /\ rows' = IF id \in Vehicle
                            THEN [ rows EXCEPT ![id] = [ id |-> id, pos |-> u.pos,
                                       node |-> IF u.node # None THEN u.node ELSE @.node ] ]
                            ELSE rows
    /\ UNCHANGED <<page, drawer, s, known, outlines, roads, layers, network, view, rendered,
                   inStep, lastCamera, letGo, now>>

\* The poll of the selected vehicle's row; the answer to a cancelled one is dropped.
PollAnswers ==
    /\ Settled /\ s.vehicle # None /\ s.vehicle # rows[s.vehicle.id]
    /\ s' = RefreshVehicle(s, rows[s.vehicle.id])
    /\ UNCHANGED <<page, drawer, live, rows, known, outlines, roads, layers, network, view,
                   rendered, inStep, lastCamera, letGo, now, left>>

\* The snapshot and the areas, or the file of roads; without it there is no road.
DataArrives ==
    /\ Settled /\ ~known /\ Spend("load")
    /\ known' = TRUE /\ outlines' = TRUE
    /\ UNCHANGED <<page, drawer, s, live, rows, roads, layers, network, view, rendered, inStep,
                   lastCamera, letGo, now>>

RoadsArrive ==
    /\ Settled /\ roads = None /\ Spend("load")
    /\ roads' \in { Corridors, << >> }
    /\ UNCHANGED <<page, drawer, s, live, rows, known, outlines, layers, network, view, rendered,
                   inStep, lastCamera, letGo, now>>

\* A road asked for: from the cache, from the router, or nothing.  The answer is
\* taken whatever the map shows by now.
RouteAnswers(ask) ==
    /\ Settled
    /\ \E found \in BOOLEAN :
          /\ ask \in DOMAIN answers => found = answers[ask]
          /\ answers' = [ a \in DOMAIN answers \cup { ask } |->
                            IF a = ask THEN found ELSE answers[a] ]
          /\ view' = IF view = None THEN view
                     ELSE [ view EXCEPT !.liveRoute = IF found THEN ask ELSE None ]
    /\ lookups' = lookups \ { ask }
    /\ UNCHANGED <<stores, rendered, inStep, lastCamera, letGo, now, left>>

\* The clock stops where a flight ends: what begins there begins then.
Advance ==
    /\ Settled /\ Spend("clock")
    /\ IF view # None /\ view.flight # None
       THEN \/ /\ now' = view.flight.ends
               /\ Rest([ view EXCEPT !.camera = view.flight.to ], now')
            \/ /\ \E step \in Steps : now' = now + step
               /\ now' < view.flight.ends
               /\ UNCHANGED onMap
       ELSE /\ \E step \in Steps : now' = now + step
            /\ UNCHANGED onMap
    /\ UNCHANGED <<stores, network, rendered, inStep, letGo>>

----------------------------------------------------------------------------
\* The user.

Act == Settled /\ Spend("user")

Look_KeepsFollowing(camera, drag) ==   \* mutant
    /\ view # None /\ view.ready
    /\ Rest([ view EXCEPT !.camera = camera, !.userUntil = now + GraceMs, !.shows = "user" ], now)
    /\ letGo' = (letGo \/ drag)
    /\ UNCHANGED <<page, drawer, s, live, rows, known, outlines, roads, layers, network, rendered,
                   inStep, now>>
Look(camera, drag) ==
    /\ view # None /\ view.ready
    /\ Rest([ view EXCEPT !.camera = camera, !.userUntil = now + GraceMs, !.shows = "user" ], now)
    /\ s' = IF drag /\ view.follow THEN SetFollow(s, FALSE) ELSE s
    /\ letGo' = (letGo \/ drag)
    /\ UNCHANGED <<page, drawer, live, rows, known, outlines, roads, layers, network, rendered,
                   inStep, now>>

Drag(p) == Act /\ Look(Camera(p, view.camera.near), TRUE)
Wheel == Act /\ Look(Camera(view.camera.center, ~view.camera.near), FALSE)

ChangeStores(newDrawer, newSelection) ==
    /\ drawer' = newDrawer /\ s' = newSelection
    /\ letGo' = (letGo /\ ~(newSelection.follow /\ newSelection # s))
    /\ UNCHANGED <<page, live, rows, known, outlines, roads, layers, network, rendered, inStep,
                   now>>

\* What a click on the map finds: the topmost of what is drawn there and not hidden.
Pick(item) ==
    /\ view # None /\ view.ready
    /\ CASE item.kind = "vehicle" -> "vehicles" \notin view.hidden /\ view.anims[item.id] # None
         [] item.kind = "region" -> Areal \notin view.hidden /\ view.camera.near
         [] OTHER -> view.data

Open(item) == Act /\ known /\ ChangeStores(OpenItem(drawer, item), s) /\ UNCHANGED onMap
Click(item) == Pick(item) /\ Open(item)
OpenFocus == view # None /\ view.focus # None /\ s.region = None
             /\ Open(Item("region", view.focus.id))
Close == Act /\ drawer # NoDrawer /\ ChangeStores(NoDrawer, s) /\ UNCHANGED onMap
Back == Act /\ drawer.item # None /\ ChangeStores(BackInDrawer(drawer), s) /\ UNCHANGED onMap

\* The x of the area's chip, and the Home button, which flies itself if nothing is
\* selected; a flight that is under way ends for it.
Leave(chip) ==
    /\ Act /\ view # None
    /\ chip => s.region # None
    /\ ChangeStores(NoDrawer, NoSelection)
    /\ LET interrupted == view.ready /\ view.flight # None
           home(w) == [ w EXCEPT !.flight = [ to |-> Camera(Home, FALSE), ends |-> now + HomeMs ],
                                 !.shows = "home" ]
       IN  IF chip \/ Selected(s) THEN UNCHANGED onMap
           ELSE /\ view' = home(IF interrupted THEN Ended(view, now) ELSE view)
                /\ lastCamera' = IF interrupted THEN view.camera ELSE lastCamera

ToggleFollow ==
    /\ Act /\ view # None /\ s.vehicle # None
    /\ ChangeStores(drawer, SetFollow(s, ~s.follow)) /\ UNCHANGED onMap

SetLayer(layer) ==
    /\ Act /\ view # None
    /\ layers' = IF layer \in layers THEN layers \ { layer } ELSE layers \cup { layer }
    /\ UNCHANGED <<page, drawer, s, live, rows, known, outlines, roads, network, view, rendered,
                   inStep, lastCamera, letGo, now>>

\* Another page unmounts the map; so does a change of theme, which mounts it again.
GoTo(to, newSelection) ==
    /\ page' = to /\ s' = newSelection
    /\ letGo' = (letGo /\ newSelection = s)
    /\ IF to \in MapPages
       THEN Mount(IF lastCamera # None THEN lastCamera ELSE Camera(Home, FALSE))
       ELSE view' = None /\ rendered' = None
    /\ UNCHANGED <<drawer, live, rows, known, outlines, roads, layers, network, inStep,
                   lastCamera, now>>

Navigate(to) == Act /\ to # page /\ GoTo(to, s)
ChangeTheme == Act /\ view # None /\ GoTo(page, s)

\* "Follow" in the drawer of a vehicle selects it and goes to the control tower.
FollowVehicle ==
    /\ Act /\ drawer.item # None /\ drawer.item.kind = "vehicle"
    /\ LET row == rows[drawer.item.id]
           chosen == SelectVehicle(s, outlines, row, PositionOf(row))
       IN  IF page = "control-tower"
           THEN ChangeStores(drawer, chosen) /\ UNCHANGED onMap
           ELSE GoTo("control-tower", chosen)

----------------------------------------------------------------------------
Init ==
    /\ page \in Pages
    /\ drawer = NoDrawer /\ s = NoSelection /\ inStep = <<None, page>>
    /\ live = [ id \in Marker |-> None ]
    /\ rows = Rows
    /\ left \in Budgets
    /\ known = (left.load = 0) /\ outlines = known
    /\ roads = IF left.load = 0 THEN Corridors ELSE None
    /\ layers = Layers
    /\ lookups = {} /\ answers = << >>
    /\ view = IF page \in MapPages THEN FreshView(Camera(Home, FALSE)) ELSE None
    /\ rendered = None
    /\ lastCamera = None /\ letGo = FALSE /\ now = 1000

Environment ==
    \/ MapEffects \/ DrawerEffect \/ Load
    \/ \E id \in Marker : Report(id)
    \/ PollAnswers
    \/ DataArrives \/ RoadsArrive
    \/ \E ask \in lookups : RouteAnswers(ask)
    \/ Advance

User ==
    \/ \E p \in Places : Drag(p)
    \/ Wheel
    \/ \E item \in Openable : Click(item) \/ Open(item)
    \/ OpenFocus \/ Close \/ Back
    \/ \E chip \in BOOLEAN : Leave(chip)
    \/ ToggleFollow
    \/ \E layer \in Layers : SetLayer(layer)
    \/ \E to \in Pages : Navigate(to)
    \/ ChangeTheme
    \/ FollowVehicle

Next == Environment \/ User

Spec == Init /\ [][Next]_vars

----------------------------------------------------------------------------
\* PROPERTIES

AtRest == Settled /\ view # None

TypeOK ==
    /\ page \in Pages /\ known \in BOOLEAN /\ outlines \in BOOLEAN /\ letGo \in BOOLEAN
    /\ drawer \in Drawers /\ Len(drawer.history) <= MaxHistory
    /\ s \in Selections /\ layers \in SUBSET Layers /\ roads \in Networks
    /\ live \in [ Marker -> Maybe(Update) ] /\ rows \in [ Vehicle -> Row ]
    /\ lookups \in SUBSET Asks
    /\ DOMAIN answers \subseteq Asks /\ \A ask \in DOMAIN answers : answers[ask] \in BOOLEAN
    /\ view \in Maybe(View) /\ (view = None) = (page \notin MapPages)
    /\ view # None => \A v \in Vehicle : Len(view.trails[v]) <= TrailLength
    /\ rendered \in Maybe(Dependencies) /\ lastCamera \in Maybe(Cameras)
    /\ now \in Nat /\ left \in [ user : Nat, feed : Nat, clock : Nat, load : Nat ]

(* Closing the panel zooms back out (DetailDrawer.tsx:39): on a page that  *)
(* keeps in step, once the effects have run, nothing is selected when      *)
(* nothing is open, however the drawer, the buttons of the map and the     *)
(* pages were used; and a picked node is never outside the selected area.  *)
NothingOpenNothingSelected ==
    /\ Settled /\ page \in InStepPages /\ drawer.item = None => ~Selected(s)
    /\ s.node # None /\ s.region # None /\ outlines => RegionContains(Areas[s.region], At[s.node])

(* The road, the way ahead and the distance drawn are those of the vehicle *)
(* selected now, from its last report (MapView.tsx:460): a road of its leg,*)
(* driven to its end.  Selection, feed, poll, snapshot and roads may each  *)
(* come last.                                                              *)
DrawnRoadIsCurrent ==
    AtRest /\ view.data =>
        /\ view.leg = LegOfSelected
        /\ view.match # None =>
              LET u == live[s.vehicle.id]
                  road == view.match.road
                  line == SplitRoad(road, view.match.progress, u.pos).ahead
              IN  /\ road \in Range(Variants(roads, At[view.leg.source], At[view.leg.dest]))
                  /\ Metres(view.match.snapped, u.pos) <= OffRoute
                  /\ view.info.remaining = LengthOf(<<view.match.snapped>> \o Tail(line))
                  /\ view.info.remaining > 0 => Last(line) = Last(road.geometry)

(* "An early update does not snap it backwards" (MapView.tsx:887): a report*)
(* makes a marker jump no farther than the way to the nearest road.  Not   *)
(* so where the report lies behind the marker on its road, as at the door, *)
(* where the rider's road is already the one back.                         *)
MarkersDoNotJump ==
    [][ view # None /\ view' # None =>
          \A id \in Marker :
             view.anims[id] # None /\ view.ready /\ view'.anims[id] # None =>
                Metres(MarkerAt(view.anims[id], now), MarkerAt(view'.anims[id], now)) <= OffRoute ]_vars

(* A report throws no marker elsewhere: it goes on from where it is drawn, *)
(* or begins its road where it is reported, as near as that road is.       *)
MarkersJumpOnlyToReports ==
    [][ view # None /\ view' # None =>
          \A id \in Marker :
             view.anims[id] # None /\ view.ready /\ view'.anims[id] # None =>
                LET drawn == MarkerAt(view'.anims[id], now)
                IN  \/ Metres(MarkerAt(view.anims[id], now), drawn) <= OffRoute
                    \/ /\ view'.anims[id].path # None
                       /\ Metres(live[id].pos, drawn) <= OffRoute ]_vars

(* A marker is on a road of its leg between two reports that are           *)
(* (MapView.tsx:212).                                                      *)
MarkersKeepToTheRoad ==
    view # None =>
        \A id \in Marker :
            LET a == view.anims[id]
            IN  a # None /\ a.path # None =>
                    \E corridor \in DOMAIN Corridors : \E i \in DOMAIN Corridors[corridor] :
                        ProjectOnRoad(Corridors[corridor][i], MarkerAt(a, now)).offset = 0

(* Interrupting a pan or zoom mid-gesture is what made the view snap back  *)
(* (MapView.tsx:916): the camera does not follow a vehicle again before the*)
(* user has asked for it, nor within four seconds of his hand.             *)
FollowsOnlyWhenAsked ==
    [][ view # None /\ view' # None /\ view'.pulled \notin { None, view.pulled } =>
            /\ ~letGo /\ now > view.userUntil /\ now > view.flightUntil
            /\ s.vehicle # None /\ s.vehicle.id = view'.pulled[1] ]_vars

(* Once the map is revealed the camera goes to what is selected, or home   *)
(* when nothing is any more, even if it was selected during the intro; only*)
(* the user's own hand takes it elsewhere.                                 *)
CameraShowsSelection ==
    AtRest /\ view.revealed /\ view.shows \notin { "user", None } =>
        IF s.node = None /\ s.vehicle = None /\ s.tracking # None THEN TRUE
        ELSE view.shows = IF Focused = None THEN "home" ELSE Focused

(* The chip names the district under the camera, when it is near enough,   *)
(* and none while an area is selected (MapView.tsx:733).                   *)
ChipNamesTheDistrict ==
    AtRest /\ view.ready /\ view.flight = None /\ view.focus # None /\ s.region = None =>
        view.camera.near /\ RegionContains(view.focus, view.camera.center)

(* What is hidden follows the switches and the selection, whichever came   *)
(* last (MapView.tsx:843).                                                 *)
LayersFollowTheSwitches ==
    AtRest /\ view.ready =>
        view.hidden = (Layers \ layers)
                      \cup IF s.region = None /\ Areal \in layers THEN {} ELSE { "region-focus" }

(* "Keep the map in step with whatever is open, on pages that show a map"  *)
(* (DetailDrawer.tsx:38).                                                  *)
MapInStep ==
    AtRest /\ known /\ outlines /\ drawer.item # None =>
        /\ drawer.item.kind = "hub" => s.node = drawer.item.id
        /\ drawer.item.kind = "region" => s.region = drawer.item.id /\ s.node = None /\ s.vehicle = None
        /\ drawer.item.kind = "vehicle" => s.vehicle # None /\ s.vehicle.id = drawer.item.id

(* The map has caught up when its effects have run, in whatever order data,*)
(* roads, reports, flights and selections came: the road, the camera, the  *)
(* chip and the layers are those of what is selected now.                  *)
MapIsCurrent ==
    DrawnRoadIsCurrent /\ CameraShowsSelection /\ ChipNamesTheDistrict /\ LayersFollowTheSwitches

(* Markers glide along the roads, and jump to no place nobody reported.    *)
MarkersAreSteady == []MarkersKeepToTheRoad /\ MarkersJumpOnlyToReports

=============================================================================
