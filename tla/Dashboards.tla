----------------------------- MODULE Dashboards -----------------------------
(***************************************************************************)
(* The aggregates of the analytics layer: hubs, riders, merchants, money,  *)
(* the daily and hourly series and the exceptions list, each a pure        *)
(* function of a snapshot (frontend/src/data/derive.ts).  derive() fills   *)
(* the snapshot in steps, and each step reads what those before it left:   *)
(* shipments, a set; hubs and stats (those of the riders), id -> record.   *)
(***************************************************************************)
EXTENDS Analytics

Total(Amount(_), ships) == MapThenSumSet(Amount, ships)
Cod(s) == s.codAmount
Fee(s) == s.fee

Failure(a) == a.result # "SUCCESS"
Has(seq, Test(_)) == \E i \in DOMAIN seq : Test(seq[i])

----------------------------------------------------------------------------
\* Hubs.

HubNodes(snap) == { n \in DOMAIN snap.nodes : snap.nodes[n].type \in HubTypes }

\* The minutes between a parcel's first arrival at the hub and its departure
\* after it; none when it has not done both.
Processing(n, s) ==
    LET at(e) == e.node = n
        arrivals == SelectSeq(s.events, LAMBDA e :
            at(e) /\ e.status \in { "ARRIVED_AT_HUB", "ARRIVED_AT_DESTINATION_HUB" })
        departures == SelectSeq(s.events, LAMBDA e :
            /\ at(e) /\ e.status \in { "DISPATCHED", "OUT_FOR_DELIVERY" }
            /\ e.timestamp > arrivals[1].timestamp)
    IN  IF arrivals = <<>> THEN <<>>
        ELSE IF departures = <<>> THEN <<>>
        ELSE <<departures[1].timestamp - arrivals[1].timestamp>>

ProcessingTime(n, ships) ==
    LET processed == { s \in ships : Processing(n, s) # <<>> }
    IN  Ratio(MapThenSumSet(LAMBDA s : Processing(n, s)[1], processed), Cardinality(processed))

\* How long the parcels that wait have waited.
Backlog(pending, now) ==
    Ratio(MapThenSumSet(LAMBDA s : now - s.updatedAt, pending), Cardinality(pending))

HubHealth(operating, load, capacity, backlog, pending, slaRisk) ==
    LET utilization == Ratio(load, capacity)
        waited(hours) == backlog # None /\ backlog[1] > hours * backlog[2]
        critical == \/ operating \in { "CONGESTED", "CLOSED" }
                    \/ AtLeast(utilization, 90)
                    \/ waited(48)
                    \/ pending >= 8 /\ 2 * slaRisk >= pending
        warning == \/ operating \in { "DEGRADED", "MAINTENANCE" }
                   \/ AtLeast(utilization, 70)
                   \/ waited(24)
                   \/ slaRisk >= 5
    IN  IF critical THEN "critical" ELSE IF warning THEN "warning" ELSE "ok"

\* mutant: a parcel out with a rider still waits at the hub
WaitingAtHub_WithLastMile ==
    { "ARRIVED_AT_HUB", "SORTING", "ARRIVED_AT_DESTINATION_HUB", "PICKED_UP", "OUT_FOR_DELIVERY" }
WaitingAtHub == { "ARRIVED_AT_HUB", "SORTING", "ARRIVED_AT_DESTINATION_HUB", "PICKED_UP" }

HubStats(snap, n) ==
    LET ships == snap.shipments
        node == snap.nodes[n]
        atHub == { s \in Active(ships) : s.currentNode = n }
        sources == { r.source : r \in { x \in snap.routes : x.destination = n } }
        onTheRoad == { "DISPATCHED", "IN_TRANSIT" }
        inbound == { s \in Active(ships) : s.status \in onTheRoad /\ s.currentNode \in sources }
        outbound == { s \in atHub : s.status \in { "DISPATCHED", "OUT_FOR_DELIVERY" } }
        pending == { s \in atHub : s.status \in WaitingAtHub }
        backlog == Backlog(pending, snap.now)
        load == Max({ node.load, Cardinality(atHub) })
        risky == { s \in pending \cup outbound : s.sla \in { "breached", "at_risk" } }
    IN  [ id |-> n, city |-> node.city, load |-> load, capacity |-> node.capacity,
          division |-> RegionOfNode(snap, n).division,
          district |-> RegionOfNode(snap, n).district,
          inbound |-> inbound, outbound |-> outbound, pending |-> pending, atHub |-> atHub,
          backlogHours |-> backlog, processing |-> ProcessingTime(n, ships),
          slaRisk |-> Cardinality(risky),
          health |-> HubHealth(node.operating, load, node.capacity, backlog,
                               Cardinality(pending), Cardinality(risky)),
          ridersBased |-> Cardinality({ r \in DOMAIN snap.riders : snap.riders[r].node = n }),
          vehiclesAt |-> Cardinality({ v \in DOMAIN snap.vehicles : snap.vehicles[v].node = n }) ]

Hubs(snap) == Range(snap.hubs)

----------------------------------------------------------------------------
\* Riders.

\* Math.round(100 * (0.5 a + 0.3 b + 0.2 c)), a missing share counting 0.85.
RiderScore(success, first, onTime) ==
    LET share(x) == IF x = None THEN <<85, 100>> ELSE x
        a == share(success)  b == share(first)  c == share(onTime)
        den == a[2] * b[2] * c[2]
        num == 50 * a[1] * b[2] * c[2] + 30 * b[1] * a[2] * c[2] + 20 * c[1] * a[2] * b[2]
    IN  IF success = None /\ first = None /\ onTime = None THEN None
        ELSE (2 * num + den) \div (2 * den)

RiderStats(snap, r) ==
    LET rider == snap.riders[r]
        attempts == SelectSeq(snap.attempts, LAMBDA a : a.rider = r)
        mine == { s \in snap.shipments : s.rider = r }
        delivered == Delivered(mine)
        deliveries == Len(SelectSeq(attempts, LAMBDA a : ~Failure(a)))
        succeeded(s) == Has(s.attempts, LAMBDA a : ~Failure(a))
        atFirst(s) == Has(s.attempts, LAMBDA a : ~Failure(a) /\ a.number = 1)
        success == Ratio(deliveries, Len(attempts))
        first == Ratio(Cardinality({ s \in delivered : atFirst(s) }),
                       Cardinality({ s \in delivered : succeeded(s) }))
        onTime == Ratio(Cardinality(OnTime(mine)), Cardinality(Judged(mine)))
        active == Active(mine)
    IN  [ id |-> r, status |-> rider.status, base |-> NodeOrNull(snap, rider.node),
          active |-> active, delivered |-> delivered, deliveries |-> deliveries,
          failedAttempts |-> Len(attempts) - deliveries,
          successRate |-> success, firstAttemptRate |-> first, onTimeRate |-> onTime,
          codCollected |-> Total(Cod, delivered),
          codInHand |-> Total(Cod, { s \in active : s.status = "OUT_FOR_DELIVERY" }),
          earnings |-> Len(attempts) * RiderCostPerAttempt,
          score |-> RiderScore(success, first, onTime),
          workload |-> IF rider.status = "OFF_DUTY" THEN "off_duty"
                       ELSE IF Cardinality(active) >= 6 THEN "overloaded"
                       ELSE IF active = {} /\ rider.status = "AVAILABLE" THEN "idle" ELSE "normal",
          lastActiveAt |-> Max({ rider.updated } \cup { a.timestamp : a \in Range(attempts) }) ]

----------------------------------------------------------------------------
\* Merchants and money.

MerchantStats(ships) ==
    LET delivered == Delivered(ships)
        failed == { s \in ships : s.group = "failed" \/ Has(s.attempts, Failure) }
        returns == { s \in ships : s.group = "returns" }
        closed == { s \in ships : ~s.isActive /\ s.status # "CANCELLED" }
        count(S) == Cardinality(S)
        arrived == { s \in delivered : s.deliveredAt # None }
    IN  [ total |-> count(ships), active |-> count(Active(ships)),
          delivered |-> count(delivered), failed |-> count(failed), returns |-> count(returns),
          deliveryRate |-> Ratio(count(delivered), count(closed)),
          returnRate |-> Ratio(count(returns), count(ships)),
          failureRate |-> Ratio(count(failed), count(ships)),
          slaRate |-> Ratio(count(OnTime(ships)), count(Judged(ships))),
          avgDeliveryHours |-> Ratio(MapThenSumSet(LAMBDA s : s.deliveredAt - s.createdAt, arrived),
                                     count(arrived)),
          codValue |-> Total(Cod, ships), codCollected |-> Total(Cod, delivered),
          codPending |-> Total(Cod, Active(ships)), revenue |-> Total(Fee, ships) ]

Merchants(snap) == { s.merchant : s \in snap.shipments } \cup snap.merchants

MerchantShipments(snap, m) == { s \in snap.shipments : s.merchant = m }

FinanceFor(ships, now) ==
    LET cod == { s \in ships : s.isCod }
        collected == Delivered(cod)
        deliveredAt(s) == IF s.deliveredAt = None THEN 0 ELSE s.deliveredAt
        settled == { s \in collected : deliveredAt(s) <= now - SettlementDays * Day }
        billed == { s \in ships : s.status # "CANCELLED" }
        revenue == Total(Fee, billed)
        linehaul == MapThenSumSet(LAMBDA s : s.distanceKm * LinehaulPerKm,
                                  { s \in billed : s.group # "pending" })
        riderCost == MapThenSumSet(LAMBDA s : Len(s.attempts) * RiderCostPerAttempt, ships)
        hubCost == MapThenSumSet(
            LAMBDA s : Max({ s.hubTouches, Points(s.group = "delivered", 2) }) * HubHandlingPerTouch,
            ships)
        cost == linehaul + riderCost + hubCost
    IN  [ codGenerated |-> Total(Cod, cod), codCollected |-> Total(Cod, collected),
          codPending |-> Total(Cod, Active(cod)), codSettled |-> Total(Cod, settled),
          codOutstanding |-> Total(Cod, collected) - Total(Cod, settled),
          codFees |-> CodFee(Total(Cod, collected)),
          revenue |-> revenue, cost |-> cost, linehaulCost |-> linehaul,
          riderCost |-> riderCost, hubCost |-> hubCost, margin |-> revenue - cost,
          marginPct |-> Ratio((revenue - cost) * 100, revenue),
          shipmentsBilled |-> Cardinality(billed), codShipments |-> Cardinality(cod) ]

----------------------------------------------------------------------------
\* The daily series: one point per UTC day from the first creation, or minDays
\* days back, through now.

DaysShown(start, now) == now \div Day - start \div Day + 1

DailySeries(ships, now, minDays) ==
    LET start == Min({ s.createdAt : s \in ships } \cup { now - (minDays - 1) * Day })
        on(day, hour) == hour # None /\ hour \div Day = day
        point(day) ==
            LET created == { s \in ships : on(day, s.createdAt) }
                delivered == { s \in ships : on(day, s.deliveredAt) }
                failures(s) == Cardinality({ i \in DOMAIN s.attempts :
                                   Failure(s.attempts[i]) /\ on(day, s.attempts[i].timestamp) })
            IN  [ created |-> Cardinality(created), delivered |-> Cardinality(delivered),
                  failed |-> MapThenSumSet(failures, ships),
                  returns |-> Cardinality({ s \in ships : s.group = "returns" /\ on(day, s.updatedAt) }),
                  late |-> Cardinality({ s \in delivered : s.sla = "missed" }),
                  onTime |-> Cardinality({ s \in delivered : s.sla = "met" }),
                  codGenerated |-> Total(Cod, created), codCollected |-> Total(Cod, delivered),
                  revenue |-> Total(Fee, created),
                  cost |-> MapThenSumSet(LAMBDA s : s.cost, delivered) ]
    IN  IF ships = {} THEN <<>>
        ELSE [ i \in 1 .. DaysShown(start, now) |-> point(start \div Day + i - 1) ]

\* The hourly series: the last hours buckets, each a whole hour.
HourlySeries(events, now, hours) ==
    LET first == now - (hours - 1)
        count(i, Wanted(_)) == Len(SelectSeq(events, LAMBDA e : e.timestamp - first = i - 1 /\ Wanted(e)))
    IN  [ i \in 1 .. hours |->
            [ events |-> count(i, LAMBDA e : TRUE),
              delivered |-> count(i, LAMBDA e : e.status = "DELIVERED"),
              failed |-> count(i, LAMBDA e : e.status = "DELIVERY_FAILED") ] ]

=============================================================================
