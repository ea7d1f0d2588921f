------------------------------- MODULE Pages --------------------------------
(***************************************************************************)
(* What the pages make of the filtered parcels: the KPI strip and the      *)
(* cards of frontend/src/components/pages/common.tsx, and the tables and   *)
(* charts of the pages under frontend/src/app.  Each is a pure function of *)
(* the parcels on the page.  Rows are functions from what they are about   *)
(* to their figures; the order of rows, colours and wording are left out.  *)
(***************************************************************************)
EXTENDS Assist, Filters

By(ships, Key(_)) == [ k \in { Key(s) : s \in ships } |-> { s \in ships : Key(s) = k } ]
ByCity(ships) == By(ships, LAMBDA s : s.city)
ByMerchant(ships) == By(ships, LAMBDA s : s.merchant)

Count(ships, Test(_)) == Cardinality({ s \in ships : Test(s) })

\* The first n rows, the largest first; rows tied for the last place all stay.
Top(rows, Value(_), n) ==
    { k \in DOMAIN rows :
        Cardinality({ j \in DOMAIN rows : Value(rows[j]) > Value(rows[k]) }) < n }

\* Everything a page reads: what the bar and the charts leave of all the
\* parcels, and the series of the charts.
PageData(snap, all, f, cross) ==
    LET ships == ApplyFilters(all, f, cross, snap.now)
    IN  [ shipments |-> ships,
          previous |-> ApplyFiltersPrevious(all, f, cross, snap.now),
          daily |-> DailySeries(ships, snap.now, 14),
          hourly |-> HourlySeries(snap.events, snap.now, Day) ]

----------------------------------------------------------------------------
\* The KPI strip.  A tile counts parcels, and clicking it filters the page.

TileFilter ==
    [ delivered |-> <<"statusGroups", "delivered">>,
      in_transit |-> <<"statusGroups", "in_transit">>,
      ofd |-> <<"statusGroups", "out_for_delivery">>,
      delayed |-> <<"sla", "breached">>,
      at_risk |-> <<"sla", "at_risk">>,
      failed |-> <<"statusGroups", "failed">>,
      returned |-> <<"statusGroups", "returns">> ]

TileCounts(tile, s) ==
    CASE tile = "total" -> TRUE
      [] tile = "delayed" -> s.isActive /\ s.sla = "breached"
      [] tile = "at_risk" -> s.isActive /\ s.sla = "at_risk"
      [] OTHER -> s.group = TileFilter[tile][2]

DeltaPct(now, before) ==
    IF before = 0 THEN IF now = 0 THEN <<0, 1>> ELSE None ELSE <<100 * (now - before), before>>

ShipmentKpiStrip(ships, previous) ==
    LET n(tile, S) == Count(S, LAMBDA s : TileCounts(tile, s))
    IN  [ tile \in DOMAIN TileFilter \cup { "total" } |->
            [ value |-> n(tile, ships), delta |-> DeltaPct(n(tile, ships), n(tile, previous)) ] ]

\* Clicking a tile of the strip on a page that filters itself.
ClickTile(cross, tile) == ToggleCross(cross, TileFilter[tile][1], TileFilter[tile][2], "kpi")

----------------------------------------------------------------------------
\* The cards shared by the pages.

StatusGroups == DOMAIN Stages \cup { "lost" }

StatusDistribution(ships) == [ g \in StatusGroups |-> Count(ships, LAMBDA s : s.group = g) ]

CityPerformance(ships, max) ==
    LET rows == [ c \in DOMAIN ByCity(ships) |->
                    LET here == InCity(ships, c)
                    IN  [ total |-> Cardinality(here),
                          delivered |-> Cardinality(Delivered(here)),
                          judged |-> Count(here, LAMBDA s : s.sla \in { "met", "missed" }),
                          met |-> Count(here, LAMBDA s : s.sla = "met"),
                          breached |-> Count(here, LAMBDA s : s.isActive /\ s.sla = "breached") ] ]
    IN  [ c \in Top(rows, LAMBDA r : r.total, max) |-> rows[c] ]

SlaTrend(daily) ==
    [ i \in DOMAIN daily |-> LET judged == daily[i].onTime + daily[i].late
                             IN  IF judged > 0 THEN Round(100 * daily[i].onTime, judged) ELSE None ]

RiderUtilization(riders) ==
    [ w \in { "normal", "overloaded", "idle", "off_duty" } |->
        Cardinality({ r \in riders : r.workload = w }) ]

RiskTone(score) ==
    IF score >= 70 THEN "danger" ELSE IF score >= 40 THEN "warning"
    ELSE IF score > 0 THEN "good" ELSE "neutral"

----------------------------------------------------------------------------
\* Shipments, returns, merchants.

\* mutant: delivered parcels are left out of the breakdown
SlaBreakdown_ActiveOnly(ships) ==
    [ k \in { "on_track", "at_risk", "breached" } |-> Count(ships, LAMBDA s : s.sla = k) ]

SlaBreakdown(ships) ==
    [ k \in { "on_track", "at_risk", "breached", "met", "missed" } |->
        Count(ships, LAMBDA s : s.sla = k) ]

ReturnShare(S) == [ total |-> Cardinality(S), returns |-> Count(S, LAMBDA s : s.group = "returns") ]

ReturnsPage(ships) ==
    LET returns == { s \in ships : s.group = "returns" }
        first(s, status) == SelectSeq(s.events, LAMBDA e : e.status = status)[1].timestamp
        closed == { s \in returns : \A status \in { "RETURN_REQUESTED", "RETURNED" } :
                      Has(s.events, LAMBDA e : e.status = status) }
        regular == { m \in DOMAIN ByMerchant(ships) : Cardinality(ByMerchant(ships)[m]) >= 3 }
        failures(s) == { a.result : a \in { x \in Range(s.attempts) : Failure(x) } }
    IN  [ rate |-> Ratio(Cardinality(returns), Cardinality(ships)),
          processing |-> Ratio(
              MapThenSumSet(LAMBDA s : first(s, "RETURNED") - first(s, "RETURN_REQUESTED"), closed),
              Cardinality(closed)),
          failedToReturn |-> Count(ships, LAMBDA s : Has(s.attempts, Failure)),
          failedShare |-> Ratio(Count(returns, LAMBDA s : Has(s.attempts, Failure)),
                                Count(ships, LAMBDA s : Has(s.attempts, Failure))),
          reasons |-> IF \E s \in returns : failures(s) # {} THEN UNION { failures(s) : s \in returns }
                      ELSE { s.status : s \in returns },
          byMerchant |-> [ m \in regular |-> ReturnShare(ByMerchant(ships)[m]) ],
          byCity |-> [ c \in DOMAIN ByCity(ships) |-> ReturnShare(InCity(ships, c)) ] ]

MerchantRows(ships) ==
    [ m \in DOMAIN ByMerchant(ships) |-> MerchantStats(ByMerchant(ships)[m]) ]

----------------------------------------------------------------------------
\* Finance.

Settlement(ships, now) ==
    LET cod == ByMerchant({ s \in ships : s.isCod })
    IN  [ m \in DOMAIN cod |-> FinanceFor(cod[m], now) ]

FinanceByService(ships, now) ==
    LET rows == [ t \in DOMAIN BaseFee |-> FinanceFor({ s \in ships : s.service = t }, now).margin ]
    IN  [ t \in { t \in DOMAIN BaseFee : rows[t] # 0 \/ \E s \in ships : s.service = t } |-> rows[t] ]

FinanceByCity(ships, now) ==
    [ c \in DOMAIN ByCity(ships) |-> FinanceFor(InCity(ships, c), now) ]

----------------------------------------------------------------------------
\* Analytics.

LastMile == { "out_for_delivery", "delivered", "failed", "returns" }

\* FUNNEL: which parcels reached each stage.
Funnel ==
    << "created", "picked", "hub", "dispatched", "ofd", "delivered" >>
Reached(stage, s) ==
    CASE stage = "created" -> TRUE
      [] stage = "picked" -> s.group # "pending" \/ s.status = "PICKED_UP"
      [] stage = "hub" -> s.group \in LastMile \cup { "in_transit" }
      [] stage = "dispatched" ->
            s.group \in LastMile \/ s.status \in { "DISPATCHED", "IN_TRANSIT", "ARRIVED_AT_DESTINATION_HUB" }
      [] stage = "ofd" -> s.group \in LastMile
      [] stage = "delivered" -> s.group = "delivered"

\* kpi(): the delivery rate of a page with no closed parcel is 0 / 0.
Kpi(ships, now) ==
    LET delivered == Delivered(ships)
        arrival(s) == IF s.deliveredAt = None THEN s.createdAt ELSE s.deliveredAt
    IN  [ total |-> Cardinality(ships), delivered |-> Cardinality(delivered),
          deliveryRate |-> IF ships = {} THEN None
                           ELSE <<Cardinality(delivered),
                                  Count(ships, LAMBDA s : ~s.isActive /\ s.status # "CANCELLED")>>,
          sla |-> Ratio(Cardinality(OnTime(ships)), Cardinality(Judged(ships))),
          failed |-> Count(ships, LAMBDA s : s.group = "failed"),
          returns |-> Count(ships, LAMBDA s : s.group = "returns"),
          avgHours |-> Ratio(MapThenSumSet(LAMBDA s : arrival(s) - s.createdAt, delivered),
                             Cardinality(delivered)),
          cost |-> <<FinanceFor(ships, now).cost, Max({ 1, Cardinality(ships) })>> ]

\* By the week of creation; hour 0 is a Monday.
Cohorts(ships, now) ==
    LET weeks == By(ships, LAMBDA s : s.createdAt \div (7 * Day))
    IN  [ w \in DOMAIN weeks |-> Kpi(weeks[w], now) ]

\* The merchants, the busiest first, with the running share of the parcels.
Pareto(ships) ==
    LET n == [ m \in DOMAIN ByMerchant(ships) |-> Cardinality(ByMerchant(ships)[m]) ]
        names == SetToSeq(DOMAIN n)
        rows == Ordered(names, DOMAIN names, [ i \in DOMAIN names |-> -n[names[i]] ])
        cum == [ i \in DOMAIN rows |-> Round(100 * Sum([ j \in 1 .. i |-> n[rows[j]] ]), Cardinality(ships)) ]
        past == { i \in DOMAIN cum : cum[i] >= 80 }
    IN  [ cum |-> cum, eighty |-> IF past = {} THEN 0 ELSE Min(past) ]

CityMatrix(ships) == [ c \in DOMAIN ByCity(ships) |-> StatusDistribution(InCity(ships, c)) ]

CostByCity(ships, now) ==
    [ c \in DOMAIN ByCity(ships) |->
        <<FinanceFor(InCity(ships, c), now).cost, Cardinality(InCity(ships, c))>> ]

----------------------------------------------------------------------------
\* Network, hubs, riders, dispatch, forecasting.

CityOf(snap, n) == IF n \in DOMAIN snap.nodes THEN snap.nodes[n].city ELSE "?"

\* The active parcels between the ends of each corridor that leaves its city.
Flows(snap, ships) ==
    LET ends(r) == <<CityOf(snap, r.source), CityOf(snap, r.destination)>>
        between(pair) == Count(Active(ships), LAMBDA s :
            s.origin # None /\ pair = <<CityOf(snap, s.origin), s.city>>)
    IN  [ pair \in { ends(r) : r \in { x \in snap.routes : ends(x)[1] # ends(x)[2] } } |-> between(pair) ]

OriginDestination(snap, ships) == By(ships, LAMBDA s : <<CityOf(snap, s.origin), s.city>>)

Bottlenecks(snap) == { r \in snap.routes : r.congestion >= 50 \/ r.status # "ACTIVE" }

\* The values of a key that the bar and the charts ask the other pages' rows for.
Asked(list, value) == list = {} \/ value \in list

HubRows(snap, lists, health) ==
    { h \in Hubs(snap) : /\ Asked(lists["cities"], h.city) /\ Asked(lists["divisions"], h.division)
                         /\ Asked(lists["hubs"], h.id) /\ health \in { "all", h.health } }

RiderRows(snap, lists) ==
    { r \in Range(snap.stats) :
        Asked(lists["cities"], RiderCity(snap, r.id)) /\ Asked(lists["riders"], r.id) }

OnDuty(snap, city) ==
    Cardinality({ r \in DOMAIN snap.riders :
                    RiderCity(snap, r) = city /\ snap.riders[r].status # "OFF_DUTY" })

\* Demand against riders at eight parcels a day; a city without riders is full.
Capacity(snap, ships) ==
    LET waiting == { s \in Active(ships) : \/ s.group = "out_for_delivery"
                                           \/ s.status = "ARRIVED_AT_DESTINATION_HUB" }
        staffed == { c \in { RiderCity(snap, r) : r \in DOMAIN snap.riders } :
                       c # None /\ OnDuty(snap, c) > 0 }
    IN  [ c \in DOMAIN ByCity(waiting) \cup staffed |->
            [ demand |-> Cardinality(InCity(waiting, c)), riders |-> OnDuty(snap, c),
              ratio |-> IF OnDuty(snap, c) > 0
                        THEN <<Cardinality(InCity(waiting, c)), OnDuty(snap, c) * ParcelsPerRiderDay>>
                        ELSE <<1, 1>> ] ]

\* A city's riders, against its share of the parcels expected in a day.
Staffing(snap, ships, perDay) ==
    [ c \in DOMAIN ByCity(ships) |->
        LET parts == perDay * Cardinality(InCity(ships, c))
            whole == Cardinality(ships) * ParcelsPerRiderDay
            need == (parts + whole - 1) \div whole
        IN  [ need |-> need, have |-> OnDuty(snap, c), gap |-> need - OnDuty(snap, c) ] ]

\* What a hub holds and expects, of what all of them do.
HubShare(snap) ==
    LET hubs == Hubs(snap)
        due(h) == Cardinality(h.atHub) + Cardinality(h.inbound)
        total == MapThenSumSet(due, hubs)
    IN  [ n \in HubNodes(snap) |->
            <<due(CHOOSE h \in hubs : h.id = n), IF total = 0 THEN 1 ELSE total>> ]

=============================================================================
