-------------------------- MODULE ShipmentHistory --------------------------
(***************************************************************************)
(* The snapshots the console can be given: parcels that move along the     *)
(* transition table while time passes, with the columns, events and        *)
(* attempts the backend writes at each move.  The analytics layer is a     *)
(* pure function of the snapshot, so its properties are stated of every    *)
(* snapshot a history reaches, and of every step of one.                   *)
(***************************************************************************)
EXTENDS Copilot

CONSTANTS
    Package, Rider, Merchant,
    Nodes,      \* node -> record
    Routes,     \* set of corridors
    Distance,   \* pair of nodes -> km
    Start,      \* package -> the record it starts as
    RiderBase,  \* rider -> node or None
    Windows,    \* the windows the bar is asked for
    Hops,       \* the hours that may pass at once
    MaxNow,     \* bound: the last hour
    MaxMoves    \* bound: how many moves a history has

\* The columns of a parcel that the console reads.
Parcel ==
    [ status : PackageStatus, node : DOMAIN Nodes \cup { None },
      source : DOMAIN Nodes, destination : DOMAIN Nodes,
      rider : Rider \cup { None }, vehicle : { None }, merchant : Merchant,
      payment : { "COD", "PREPAID" }, declared : Nat \cup { None }, orderValue : Nat \cup { None },
      weight : Nat, service : DOMAIN BaseFee, priority : { "LOW", "NORMAL", "HIGH", "URGENT" },
      customerCity : STRING \cup { None }, created : Int, updated : Int,
      expected : Int \cup { None }, deliveredAt : Int \cup { None } ]

ASSUME SizeAssumption ==
    /\ IsFiniteSet(Package) /\ IsFiniteSet(Rider) /\ IsFiniteSet(Merchant)
    /\ IsFiniteSet(DOMAIN Nodes) /\ IsFiniteSet(Routes)

\* A history starts at hour 0 with parcels of the past.  A delivered one, and no
\* other, has the hour of its delivery (package_service.py:99, engine.py:262,
\* generate_dummy_packages.py:165), which the generator may date after now.
ASSUME StartAssumption ==
    /\ Start \in [ Package -> Parcel ]
    /\ \A p \in Package :
        /\ Start[p].created <= Start[p].updated /\ Start[p].updated <= 0
        /\ Start[p].status = "DELIVERED" <=> Start[p].deliveredAt # None
        /\ Start[p].deliveredAt # None => Start[p].created <= Start[p].deliveredAt
\* The cities the questions and the bar name.
Cities == { "Dhaka", "Sylhet" }

\* Null is no number, share, word, node, parcel, advice or order to move riders.
ASSUME NullAssumption ==
    /\ None \notin Int \cup (Nat \X Nat) \cup Advice \cup Cities \cup DOMAIN Nodes \cup Package
    /\ None \notin [ hub : DOMAIN Nodes, divert : Nat, hours : Nat ]
    /\ None \notin [ rider : Rider, move : Int, to : Rider \cup { None } ]
    /\ None \notin [ riders : Nat, from : Cities, to : Cities ]

\* No code changes the network, and the scripts that build it
\* (scripts/seed_database.py, scripts/add_missing_divisions.py) join each node to others.
ASSUME NetworkAssumption ==
    /\ \A n \in DOMAIN Nodes :
        Nodes[n].load \in Nat /\ Nodes[n].capacity \in Nat /\ Nodes[n].city # None
    /\ \A r \in Routes : r.source # r.destination
    /\ Distance \in [ (DOMAIN Nodes) \X (DOMAIN Nodes) -> Nat ]

ASSUME TimeAssumption == MaxNow \in Nat /\ Hops \subseteq Nat /\ Windows \subseteq Presets

VARIABLE snap   \* with all that is derived from it

TypeOK ==
    /\ snap.now \in 0 .. MaxNow
    /\ \A s \in snap.shipments :
        /\ s.sla \in SlaState /\ s.riskScore \in 0 .. 100
        /\ s.group \in DOMAIN Stages \cup { "lost" }
        /\ s.currentNode \in DOMAIN Nodes \cup { None }

Init ==
    snap = Derive([ packages |-> Start, nodes |-> Nodes, routes |-> Routes, distance |-> Distance,
                    riders |-> [ r \in Rider |-> [ status |-> "AVAILABLE", updated |-> 0,
                                                    node |-> RiderBase[r] ] ],
                    vehicles |-> <<>>, merchants |-> Merchant, regions |-> TRUE,
                    events |-> <<>>, attempts |-> <<>>, now |-> 0,
                    shipments |-> {}, hubs |-> <<>>, stats |-> <<>>, exceptions |-> {} ])

\* The node a move leaves the parcel at: a scan sets it, a departure keeps it.
ScanAt(pkg, target) ==
    CASE target = "PICKED_UP" -> pkg.source
      [] target = "ARRIVED_AT_HUB" -> CHOOSE n \in DOMAIN Nodes : Nodes[n].type = "HUB"
      [] target = "ARRIVED_AT_DESTINATION_HUB" ->
            CHOOSE n \in DOMAIN Nodes : /\ Nodes[n].type = "DELIVERY_HUB"
                                         /\ Nodes[n].city = Nodes[pkg.destination].city
      [] target = "DELIVERED" -> pkg.destination
      [] OTHER -> pkg.node

\* The engine records an attempt at the door, the API none.  A refusal is
\* treated nowhere otherwise than an absence.
Results(target) ==
    CASE target = "DELIVERED" -> { None, "SUCCESS" }
      [] target = "DELIVERY_FAILED" -> { None, "FAILED_ADDRESS_ISSUE", "FAILED_NO_RECIPIENT" }
      [] OTHER -> { None }

\* One legal move, as the API and the engine record it.
Move(p, target, rider, result) ==
    LET pkg == snap.packages[p]
        node == ScanAt(pkg, target)
        number == Len(AttemptsOf(snap, p)) + 1
    IN  /\ Len(snap.events) < MaxMoves
        /\ pkg.updated < snap.now
        /\ IsValidTransition(pkg.status, target)
        /\ snap' = Derive([ snap EXCEPT
             !.packages[p] = [pkg EXCEPT !.status = target, !.node = node, !.updated = snap.now,
                 !.rider = IF target = "OUT_FOR_DELIVERY" THEN rider ELSE @,
                 !.deliveredAt = IF target = "DELIVERED" THEN snap.now ELSE @],
             !.events = Append(@, [package |-> p, node |-> node, status |-> target,
                                   timestamp |-> snap.now]),
             !.attempts = IF result = None THEN @
                          ELSE Append(@, [package |-> p, rider |-> pkg.rider, number |-> number,
                                          result |-> result, timestamp |-> snap.now]) ])

Pass(hours) ==
    /\ snap.now + hours <= MaxNow
    /\ snap' = Derive([snap EXCEPT !.now = @ + hours])

MoveAny ==
    \E p \in Package, target \in PackageStatus, rider \in Rider :
        \E result \in Results(target) : Move(p, target, rider, result)
PassAny == \E hours \in Hops : Pass(hours)

Next == MoveAny \/ PassAny

Spec == Init /\ [][Next]_snap

----------------------------------------------------------------------------
\* The bar that asks for a window and a city.
BarOf(preset, city) == SetList(SetPreset(EmptyFilters, preset), "cities", { city })

\* What the rows of a table add up to.
Tally(rows) == FoldFunction(+, 0, rows)
Column(rows, field) == Tally([ k \in DOMAIN rows |-> rows[k][field] ])

(* Every page reads the same figures (derive.ts:20-24, "so a KPI, a chart   *)
(* and a table always agree"): the money over the merchants' rows is the    *)
(* money on the finance page, whose three costs are what the parcels cost,  *)
(* and collected, pending and written-off COD make up what was generated.   *)
ViewsAgree ==
    LET ships == snap.shipments
        all == FinanceFor(ships, snap.now)
        rows == [ m \in Merchants(snap) |-> MerchantStats(MerchantShipments(snap, m)) ]
        closed == { s \in ships : ~s.isActive /\ s.status # "DELIVERED" }
    IN  /\ all.codGenerated = Column(rows, "codValue")
        /\ all.codCollected = Column(rows, "codCollected")
        /\ all.codPending = Column(rows, "codPending")
        /\ all.revenue = Column(rows, "revenue")
        /\ all.cost = Tally([ s \in ships |-> s.cost ])
        /\ all.codGenerated = all.codCollected + all.codPending + Total(Cod, closed)
        /\ all.codOutstanding >= 0
        /\ Column(snap.stats, "codCollected") <= all.codCollected

(* The daily chart loses nothing: over all its days it counts every parcel  *)
(* created, every delivery on the side the SLA put it, every failed         *)
(* attempt, and the same COD as the finance page.  Only a delivery dated    *)
(* after today waits for its day.                                           *)
ChartLosesNothing ==
    LET ships == snap.shipments
        days == DailySeries(ships, snap.now, 2)
        due == { s \in ships : s.deliveredAt # None => s.deliveredAt \div Day <= snap.now \div Day }
        money == FinanceFor(due, snap.now)
    IN  /\ Column(days, "created") = Cardinality(ships)
        /\ Column(days, "delivered") = Cardinality(Delivered(due))
        /\ Column(days, "onTime") + Column(days, "late") = Cardinality(Judged(due))
        /\ Column(days, "failed")
             = Cardinality({ i \in DOMAIN snap.attempts : Failure(snap.attempts[i]) })
        /\ Column(days, "codCollected") = money.codCollected

(* What is overdue is raised wherever it is looked for.  The exceptions     *)
(* list and the copilot's answer have no window: they name the overdue      *)
(* parcels, and no item is about a closed parcel.  The Command Center asks  *)
(* for a window and a city: its exceptions card names every overdue parcel  *)
(* of the city, however old, while its brief and its tile of delayed ones   *)
(* count those of them that were created in the window (brief.ts:7, "every  *)
(* sentence is traceable to a number on screen").                           *)
OverdueIsRaisedEverywhere ==
    LET listed == { e \in snap.exceptions : e.type = "SLA_BREACH" }
        ask == [words |-> { "late", "parcel" }, city |-> None, move |-> None, tracking |-> None]
        overdue == { p \in Package : /\ snap.packages[p].status \notin TerminalStatuses
                                     /\ snap.packages[p].expected # None
                                     /\ snap.packages[p].expected < snap.now }
    IN  /\ { e.shipment : e \in listed } = overdue
        /\ Answer(snap, ask) = overdue
        /\ \A e \in snap.exceptions :
             e.shipment # None => snap.packages[e.shipment].status \notin TerminalStatuses
        /\ \A preset \in Windows, city \in Cities :
             LET f == BarOf(preset, city)
                 range == DateRange(f, snap.now)
                 shown == CommandCenter(snap, f, {})
                 here == { p \in overdue : ShipmentOf(snap, p).city = city }
                 recent == { p \in here : range = None \/ Within(ShipmentOf(snap, p), range) }
             IN  /\ { e.shipment : e \in listed \cap shown.exceptions } = here
                 /\ shown.brief.breached = Cardinality(recent)
                 /\ shown.strip["delayed"].value = Cardinality(recent)

(* A parcel is at one hub at most, waits there or leaves it but not both,   *)
(* and is never counted as inbound to the hub that holds it.                *)
HubsShareNoParcel ==
    /\ \A h \in Hubs(snap) :
        /\ h.pending \cap h.outbound = {} /\ h.atHub \cap h.inbound = {}
        /\ h.slaRisk <= Cardinality(h.atHub) /\ h.load >= Cardinality(h.atHub)
    /\ \A h, k \in Hubs(snap) : h # k => h.atHub \cap k.atHub = {}

(* The SLA never forgives: a parcel that was late while active is never     *)
(* later shown as met, at risk or on track.                                 *)
SlaNeverForgives ==
    [][ \A p \in Package :
          SlaOf(snap, snap.packages[p]) = "breached" =>
            SlaOf(snap, snap.packages[p])' \in { "breached", "missed", "n_a" } ]_snap

(* Waiting never lowers a parcel's risk: with nothing but time passing, no  *)
(* parcel moves down the risk queue.                                        *)
WaitingNeverLowersRisk ==
    [][ snap'.packages = snap.packages =>
          \A p \in Package : ShipmentOf(snap, p)'.riskScore >= ShipmentOf(snap, p).riskScore ]_snap

(* The pages that split the same parcels - by status, city, merchant, SLA,  *)
(* week, service, origin and destination - each account for all of them,    *)
(* and their money adds up to the finance page's; the delivery funnel only  *)
(* narrows.                                                                 *)
PagesAgree ==
    LET ships == snap.shipments
        now == snap.now
        n == Cardinality(ships)
        all == FinanceFor(ships, now)
        matrix == CityMatrix(ships)
        pairs == OriginDestination(snap, ships)
        returns == ReturnsPage(ships)
        reached(i) == { s \in ships : Reached(Funnel[i], s) }
        fleet == RiderRows(snap, NoLists)
        used == RiderUtilization(fleet)
        share == HubShare(snap)
    IN  /\ Tally(StatusDistribution(ships)) = n
        /\ Cardinality(DOMAIN ByCity(ships)) <= 10 =>
              /\ Column(CityPerformance(ships, 10), "total") = n
              /\ Column(CityPerformance(ships, 10), "judged") = Cardinality(Judged(ships))
        /\ Tally([ c \in DOMAIN matrix |-> Tally(matrix[c]) ]) = n
        /\ Tally(SlaBreakdown(ships)) + Count(ships, LAMBDA s : s.sla = "n_a") = n
        /\ Column(MerchantRows(ships), "revenue") = all.revenue
        /\ Column(Settlement(ships, now), "codCollected") = all.codCollected
        /\ Column(Settlement(ships, now), "codSettled") = all.codSettled
        /\ Column(FinanceByCity(ships, now), "margin") = all.margin
        /\ Tally(FinanceByService(ships, now)) = all.margin
        /\ Column(CostByCity(ships, now), 1) = all.cost
        /\ Column(Cohorts(ships, now), "delivered") = Kpi(ships, now).delivered
        /\ Column(returns.byCity, "returns") = StatusDistribution(ships)["returns"]
        /\ returns.failedToReturn
             = Cardinality({ snap.attempts[i].package : i \in { j \in DOMAIN snap.attempts :
                                                                Failure(snap.attempts[j]) } })
        /\ Tally(Flows(snap, ships)) <= Cardinality(Active(ships))
        /\ Tally([ k \in DOMAIN pairs |-> Cardinality(pairs[k]) ]) = n
        /\ Tally(used) = Cardinality(Rider)
        /\ Column(Capacity(snap, ships), "riders")
             = Cardinality({ r \in fleet : r.base # None /\ r.workload # "off_duty" })
        /\ \A m \in HubNodes(snap) : Column(share, 1) \in { 0, share[m][2] }
        /\ ships # {} => Last(Pareto(ships).cum) = 100
        /\ \A i \in 2 .. Len(Funnel) : reached(i) \subseteq reached(i - 1)

(* A KPI tile filters the page to exactly the parcels it counted: the tile, *)
(* the SLA of a parcel and the filter on it cannot drift apart, whatever    *)
(* window and city the bar asks for.                                        *)
TilesFilterToThemselves ==
    LET all == snap.shipments IN
    \A preset \in Windows, city \in Cities :
        LET f == BarOf(preset, city)
            page == PageData(snap, all, f, {})
        IN  \A tile \in DOMAIN TileFilter :
              LET clicked == PageData(snap, all, f, ClickTile({}, tile))
              IN  /\ clicked.shipments = { s \in page.shipments : TileCounts(tile, s) }
                  /\ ShipmentKpiStrip(clicked.shipments, clicked.previous)[tile]
                       = ShipmentKpiStrip(page.shipments, page.previous)[tile]

(* The assistants stand by the exceptions list: whatever it raises of a     *)
(* parcel's deadline, a hub or an overloaded rider has a recommendation, a  *)
(* hub that is a high outlier is on the list, a forecast is a number that   *)
(* is not negative, and each question the copilot suggests is taken for     *)
(* what it is about, whichever pattern is tried first.                      *)
AssistantsStandByTheList ==
    LET list == snap.exceptions
        idle == { r \in Range(snap.stats) : r.workload = "idle" }
        days == DailySeries(snap.shipments, snap.now, 9)
        forecast == ForecastSeries([ i \in DOMAIN days |-> days[i].created ], 7)
        raised(kind) == { e.id[2] : e \in { x \in list : x.id[1] = kind } }
    IN  /\ \A p \in raised("sla") : RecommendForShipment(ShipmentOf(snap, p), FALSE) # None
        /\ \A n \in raised("hub") : RecommendForHub(snap.hubs[n]) # None
        /\ \A r \in raised("riderload") : RecommendForRider(snap.stats[r], idle) # None
        /\ \A x \in DetectAnomalies(snap, days) :
              "hub" \in DOMAIN x /\ x.severity = "high" => x.hub \in raised("hub")
        /\ \A day \in 1 .. 7 : forecast[day][1] >= 0 /\ forecast[day][2] > 0
        /\ \A ask \in SuggestedQueries("Dhaka", "Sylhet") : IntentOf(ask.q) = ask.intent

(* Moving riders between two cities in the simulator creates no rider and   *)
(* no parcel: what it rescues was at risk, and what it endangers was not.   *)
SimulationConserves ==
    LET cities == { Nodes[n].city : n \in DOMAIN Nodes }
        active == Active(snap.shipments)
    IN  \A from, to \in cities, n \in 0 .. 3 :
          LET sim == SimulateRiderMove(snap, from, to, n)
              now == SimulateRiderMove(snap, from, to, 0)
          IN  from # to =>
                /\ sim.toRiders + sim.fromRiders = now.toRiders + now.fromRiders
                /\ sim.toAtRisk + sim.rescued = Cardinality(AtRisk(InCity(active, to)))
                /\ sim.newlyAtRisk >= 0
                /\ sim.newlyAtRisk <= Cardinality(InCity(active, from) \ AtRisk(active))

(* One figure, whichever page takes it: across merchants, cities, riders,   *)
(* services, weeks and days, nothing is lost and nothing differs.           *)
FiguresAgree == ViewsAgree /\ PagesAgree /\ ChartLosesNothing

(* What is overdue, what a tile counts and what needs attention are the     *)
(* same parcels in every list, filter, answer and recommendation, each      *)
(* within the window and the city that its page shows.                      *)
ListsAgree == OverdueIsRaisedEverywhere /\ TilesFilterToThemselves /\ AssistantsStandByTheList

(* Every parcel has one place on each scale and in the network, and a       *)
(* simulated one no more than that.                                         *)
CountedOnce == TypeOK /\ HubsShareNoParcel /\ SimulationConserves

(* Time only makes things worse: lateness is not forgiven, and a parcel     *)
(* that waits does not sink in the risk queue.                              *)
TimeOnlyHurts == SlaNeverForgives /\ WaitingNeverLowersRisk

=============================================================================
