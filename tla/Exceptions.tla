----------------------------- MODULE Exceptions -----------------------------
(***************************************************************************)
(* deriveExceptions (frontend/src/data/derive.ts): what the console tells  *)
(* an operator to look at, as the set of the items it lists.  An item's    *)
(* identity is its kind and its entity, as the code's `sla:<id>` strings   *)
(* are; the operator's decisions (data/ops.ts) are kept under it.          *)
(***************************************************************************)
EXTENDS Dashboards

Item(kind, entity, type, priority, detectedAt, shipment) ==
    [ id |-> <<kind, entity>>, type |-> type, priority |-> priority,
      detectedAt |-> detectedAt, shipment |-> shipment ]

\* mutant: a parcel on its last mile is left to its rider
Breach_ButLastMile(snap, s) ==
    IF s.sla = "breached" /\ s.status # "OUT_FOR_DELIVERY"
    THEN { Item("sla", s.id, "SLA_BREACH", "high", s.expectedAt, s.id) } ELSE {}

Breach(snap, s) ==
    LET overdue == -s.hoursToSla
        critical == s.priority = "URGENT" \/ s.codAmount > 5000 \/ overdue > 24
    IN  IF s.sla = "breached"
        THEN { Item("sla", s.id, "SLA_BREACH", IF critical THEN "critical" ELSE "high",
                    s.expectedAt, s.id) }
        ELSE {}

Stuck(snap, s) ==
    LET idle == snap.now - s.updatedAt
    IN  IF idle > 24 /\ s.status # "OUT_FOR_DELIVERY" /\ s.group # "returns"
        THEN { Item("stuck", s.id, "SHIPMENT_STUCK", IF idle > 72 THEN "high" ELSE "medium",
                    s.updatedAt, s.id) }
        ELSE {}

AddressIssue(s) ==
    IF Has(s.attempts, LAMBDA a : a.result = "FAILED_ADDRESS_ISSUE")
    THEN { Item("addr", s.id, "ADDRESS_ISSUE", "medium", Last(s.attempts).timestamp, s.id) }
    ELSE {}

\* The declared value is more than a quarter of the order's away from it.
CodDiscrepancy(s) ==
    LET gap == s.orderValue - s.declared
    IN  IF s.isCod /\ s.orderValue # None /\ s.declared # None
           /\ Max({ gap, -gap }) * 4 > Max({ s.orderValue, 1 })
        THEN { Item("cod", s.id, "COD_DISCREPANCY", "low", s.createdAt, s.id) }
        ELSE {}

ShipmentItems(snap) ==
    UNION { Breach(snap, s) \cup Stuck(snap, s) \cup AddressIssue(s) \cup CodDiscrepancy(s)
            : s \in Active(snap.shipments) }

HubItems(snap) ==
    { Item("hub", h.id, "HUB_CONGESTION", IF h.health = "critical" THEN "critical" ELSE "high",
           snap.now, None)
      : h \in { x \in Hubs(snap) :
                  \/ x.health = "critical"
                  \/ x.health = "warning" /\ Cardinality(x.pending) > 10 } }

\* The attempts of the last day, and those of them that failed.
Recent(s, now) == SelectSeq(s.attempts, LAMBDA a : now - a.timestamp <= Day)
Outcomes(ships, now) == MapThenSumSet(LAMBDA s : Len(Recent(s, now)), ships)
Failures(ships, now) == MapThenSumSet(LAMBDA s : Len(SelectSeq(Recent(s, now), Failure)), ships)

\* Three failures, and three of ten attempts, are a spike.
CityItems(snap) ==
    LET of(city) == { s \in snap.shipments : s.city = city }
        outcomes(city) == Outcomes(of(city), snap.now)
        failures(city) == Failures(of(city), snap.now)
        spike(city) == failures(city) >= 3 /\ 10 * failures(city) >= 3 * outcomes(city)
    IN  { Item("failspike", city, "FAILED_DELIVERY_SPIKE",
               IF 2 * failures(city) >= outcomes(city) THEN "high" ELSE "medium", snap.now, None)
          : city \in { c \in { s.city : s \in snap.shipments } : spike(c) } }

RiderItems(snap) ==
    LET stats == Range(snap.stats)
        idle(r) == r.status = "ON_DELIVERY" /\ r.active = {}
    IN  { Item("rider", r.id, "RIDER_INACTIVE", "low", r.lastActiveAt, None)
          : r \in { x \in stats : idle(x) } }
        \cup
        { Item("riderload", r.id, "RIDER_INACTIVE", "medium", snap.now, None)
          : r \in { x \in stats : ~idle(x) /\ x.workload = "overloaded" } }

RouteItems(snap) ==
    { Item("route", r.id, "ROUTE_CONGESTION", IF r.status = "BLOCKED" THEN "high" ELSE "medium",
           snap.now, None)
      : r \in { x \in snap.routes : x.congestion >= 80 \/ x.status \in { "BLOCKED", "SUSPENDED" } } }

VehicleItems(snap) ==
    { Item("vehicle", v, "VEHICLE_ISSUE", "medium", snap.vehicles[v].updated, None)
      : v \in { x \in DOMAIN snap.vehicles : snap.vehicles[x].status \in { "MAINTENANCE", "OFFLINE" } } }

Exceptions(snap) ==
    ShipmentItems(snap) \cup HubItems(snap) \cup CityItems(snap)
    \cup RiderItems(snap) \cup RouteItems(snap) \cup VehicleItems(snap)

\* derive: the parcels first, then what counts them, then what is wrong.
WithShipments(snap) == [snap EXCEPT !.shipments = Shipments(snap)]
WithStats(snap) ==
    [snap EXCEPT !.hubs = [ n \in HubNodes(snap) |-> HubStats(snap, n) ],
                 !.stats = [ r \in DOMAIN snap.riders |-> RiderStats(snap, r) ]]
WithExceptions(snap) == [snap EXCEPT !.exceptions = Exceptions(snap)]
Derive(snap) == WithExceptions(WithStats(WithShipments(snap)))

\* The order of the list: by priority, the latest first.
Rank == [critical |-> 0, high |-> 1, medium |-> 2, low |-> 3]
Before(a, b) ==
    \/ Rank[a.priority] < Rank[b.priority]
    \/ /\ Rank[a.priority] = Rank[b.priority]
       /\ a.detectedAt > b.detectedAt

=============================================================================
