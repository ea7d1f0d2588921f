----------------------------- MODULE Analytics -----------------------------
(***************************************************************************)
(* The console's analytics layer (frontend/src/data/derive.ts and          *)
(* frontend/src/config/finance.ts): every figure a page shows is a pure    *)
(* function of one snapshot of the data.  A snapshot is a record           *)
(*                                                                         *)
(*   packages, riders, vehicles, nodes   id -> record                      *)
(*   routes                              a set of records                  *)
(*   events, attempts                    sequences, in the API's order     *)
(*   now                                 an hour                           *)
(*                                                                         *)
(* Time is in whole hours, money in hundredths of a taka, shares are pairs *)
(* <<part, total>>, congestion is a percentage.  Wording is left out.      *)
(***************************************************************************)
EXTENDS Integers, Sequences, SequencesExt, FiniteSetsExt, PackageLifecycle

CONSTANT None  \* null

Day == 24

HubTypes == { "HUB", "SORTING_CENTER", "REGIONAL_HUB", "DISTRIBUTION_CENTER", "DELIVERY_HUB" }

TerminalStatuses == { "DELIVERED", "CANCELLED", "RETURNED", "LOST", "DAMAGED" }

SlaState == { "on_track", "at_risk", "breached", "met", "missed", "n_a" }

\* statusGroup: the stage of the pipeline a status belongs to.
Stages ==
    [ pending          |-> { "PACKAGE_CREATED", "PICKUP_ASSIGNED", "PICKED_UP" },
      in_transit       |-> { "ARRIVED_AT_HUB", "SORTING", "DISPATCHED", "IN_TRANSIT",
                             "ARRIVED_AT_DESTINATION_HUB" },
      out_for_delivery |-> { "OUT_FOR_DELIVERY", "RESCHEDULED" },
      delivered        |-> { "DELIVERED" },
      failed           |-> { "DELIVERY_FAILED" },
      returns          |-> { "RETURN_REQUESTED", "RETURN_IN_TRANSIT", "RETURNED" },
      cancelled        |-> { "CANCELLED" } ]

StatusGroup(status) ==
    IF \E stage \in DOMAIN Stages : status \in Stages[stage]
    THEN CHOOSE stage \in DOMAIN Stages : status \in Stages[stage]
    ELSE "lost"

Ratio(part, total) == IF total > 0 THEN <<part, total>> ELSE None

\* mean(values), as the pair of the sum and the count.
Mean(values) == Ratio(FoldSeq(+, 0, values), Len(values))

AtLeast(share, percent) == share # None /\ share[1] * 100 >= percent * share[2]

----------------------------------------------------------------------------
\* FINANCE, in hundredths of a taka.

BaseFee == [STANDARD |-> 6000, EXPRESS |-> 11000, SAME_DAY |-> 16000, SCHEDULED |-> 8500]
WeightSurchargePerKg == 1200
LinehaulPerKm == 90
RiderCostPerAttempt == 3500
HubHandlingPerTouch == 1200
SettlementDays == 3

DeliveryFee(deliveryType, weight) ==
    BaseFee[deliveryType] + Max({ 0, weight - 1 }) * WeightSurchargePerKg

\* codFeeRate of an amount in taka, 0.01 of it, is as many hundredths.
CodFee(amount) == amount

----------------------------------------------------------------------------
\* Shipments.

\* The elements of seq at the places I by their keys, equal ones in their order:
\* Array.sort is stable.
Ordered(seq, I, key) ==
    LET upTo(i) == { j \in I : key[j] < key[i] \/ (key[j] = key[i] /\ j <= i) }
    IN  [ k \in 1 .. Cardinality(I) |-> seq[CHOOSE i \in I : Cardinality(upTo(i)) = k] ]

PlacesOf(seq, p) == { i \in DOMAIN seq : seq[i].package = p }

EventsOf(snap, p) ==
    LET mine == PlacesOf(snap.events, p)
    IN  Ordered(snap.events, mine, [ i \in mine |-> snap.events[i].timestamp ])

AttemptsOf(snap, p) ==
    LET mine == PlacesOf(snap.attempts, p)
    IN  Ordered(snap.attempts, mine, [ i \in mine |-> snap.attempts[i].number ])

\* The parcel's own node or, between scans, that of its last event with one.
EffectiveNode(snap, p) ==
    LET located == SelectSeq(EventsOf(snap, p), LAMBDA e : e.node # None)
    IN  IF snap.packages[p].node # None THEN snap.packages[p].node
        ELSE IF located # <<>> THEN Last(located).node ELSE None

NodeOrNull(snap, n) == IF n \in DOMAIN snap.nodes THEN n ELSE None

\* regionOfNode: the district's polygon gives both names, the division's
\* polygon the division where the district's has none.
RegionOfNode(snap, n) ==
    LET node == snap.nodes[n]
    IN  IF n \notin DOMAIN snap.nodes \/ ~snap.regions
        THEN [district |-> None, division |-> None]
        ELSE [district |-> node.district,
              division |-> IF node.district # None /\ node.districtDivision # None
                           THEN node.districtDivision ELSE node.division]

\* mutant: a rescheduled parcel gets a day of grace
HoursToSla_Grace(snap, pkg) ==
    IF pkg.expected # None /\ pkg.status \notin TerminalStatuses
    THEN pkg.expected + (IF pkg.status = "RESCHEDULED" THEN Day ELSE 0) - snap.now ELSE None

HoursToSla(snap, pkg) ==
    IF pkg.expected # None /\ pkg.status \notin TerminalStatuses
    THEN pkg.expected - snap.now ELSE None

SlaOf(snap, pkg) ==
    LET hours == HoursToSla(snap, pkg)
        soon == \/ hours < 6
                \/ StatusGroup(pkg.status) \in { "failed", "returns" }
                \/ pkg.status = "RESCHEDULED"
    IN  IF pkg.status = "DELIVERED"
        THEN IF pkg.deliveredAt = None \/ pkg.expected = None THEN "n_a"
             ELSE IF pkg.deliveredAt <= pkg.expected THEN "met" ELSE "missed"
        ELSE IF hours = None THEN "n_a"
        ELSE IF hours < 0 THEN "breached"
        ELSE IF soon THEN "at_risk" ELSE "on_track"

HubTouches(nodes, events) ==
    Cardinality({ i \in DOMAIN events : /\ events[i].node \in DOMAIN nodes
                                        /\ nodes[events[i].node].type \in HubTypes })

Points(condition, n) == IF condition THEN n ELSE 0

DeadlineRisk(hours) ==
    IF hours = None THEN 0
    ELSE IF hours < 0 THEN 70 ELSE IF hours < 3 THEN 50
    ELSE IF hours < 6 THEN 35 ELSE Points(hours < 12, 18)

Capped(score) == Min({ 100, score })

\* What an active parcel's deadline, history, position and value add up to.
Hardship(snap, s) ==
    LET congestion == { r.congestion : r \in { x \in snap.routes : x.source = s.currentNode } }
        hub == IF s.currentNode # None THEN s.currentNode ELSE s.destination
    IN  8 + DeadlineRisk(s.hoursToSla)
          + Points(s.status \in { "DELIVERY_FAILED", "RESCHEDULED" }, 20)
          + Points(s.group = "returns", 10)
          + Points(\E a \in Range(s.attempts) : a.result = "FAILED_ADDRESS_ISSUE", 10)
          + Points(s.status \in { "DISPATCHED", "IN_TRANSIT" } /\ \E c \in congestion : c > 60, 10)
          + Points(hub # None /\ snap.nodes[hub].operating \in { "CONGESTED", "DEGRADED" }, 10)
          + Points(s.priority = "URGENT", 6)
          + Points(s.codAmount > 5000, 5)
          + Points(s.ageHours > 72, 8)

RiskScore(snap, s) == IF s.isActive THEN Capped(Hardship(snap, s)) ELSE 0

\* What the parcel is worth to the one who pays on delivery.
CodAmount(pkg) ==
    IF pkg.payment # "COD" THEN 0
    ELSE IF pkg.declared # None THEN pkg.declared
    ELSE IF pkg.orderValue # None THEN pkg.orderValue ELSE 0

DistanceKm(snap, origin, destination) ==
    IF origin # None /\ destination # None THEN snap.distance[<<origin, destination>>] ELSE 0

FeeOf(pkg) ==
    IF pkg.status = "CANCELLED" THEN 0
    ELSE DeliveryFee(pkg.service, pkg.weight) + CodFee(CodAmount(pkg))

\* The line haul of a parcel that has left, every attempt, every hub it was scanned at.
CostOf(pkg, distance, attempts, touches) ==
    LET group == StatusGroup(pkg.status)
        moved == group # "pending" /\ pkg.status # "CANCELLED"
    IN  (IF moved THEN distance * LinehaulPerKm ELSE 0)
        + attempts * RiderCostPerAttempt
        + Max({ touches, Points(group = "delivered", 2) }) * HubHandlingPerTouch

\* All of a shipment but its risk.
Described(snap, p) ==
    LET pkg == snap.packages[p]
        origin == NodeOrNull(snap, pkg.source)
        destination == NodeOrNull(snap, pkg.destination)
        group == StatusGroup(pkg.status)
        distance == DistanceKm(snap, origin, destination)
        events == EventsOf(snap, p)
        touches == HubTouches(snap.nodes, events)
        attempts == AttemptsOf(snap, p)
    IN  [ id |-> p, status |-> pkg.status, group |-> group,
          isActive |-> pkg.status \notin TerminalStatuses,
          merchant |-> pkg.merchant, rider |-> pkg.rider, vehicle |-> pkg.vehicle,
          priority |-> pkg.priority, service |-> pkg.service, payment |-> pkg.payment,
          origin |-> origin, destination |-> destination,
          currentNode |-> NodeOrNull(snap, EffectiveNode(snap, p)),
          source |-> pkg.source, target |-> pkg.destination,
          city |-> IF destination # None THEN snap.nodes[destination].city
                   ELSE IF pkg.customerCity # None THEN pkg.customerCity ELSE "Unknown",
          district |-> RegionOfNode(snap, pkg.destination).district,
          division |-> RegionOfNode(snap, pkg.destination).division,
          isCod |-> pkg.payment = "COD", codAmount |-> CodAmount(pkg), declared |-> pkg.declared,
          orderValue |-> pkg.orderValue,
          createdAt |-> pkg.created, updatedAt |-> pkg.updated,
          expectedAt |-> pkg.expected, deliveredAt |-> pkg.deliveredAt,
          ageHours |-> snap.now - pkg.created,
          hoursToSla |-> HoursToSla(snap, pkg), sla |-> SlaOf(snap, pkg),
          distanceKm |-> distance, attempts |-> attempts,
          events |-> events, hubTouches |-> touches,
          fee |-> FeeOf(pkg), cost |-> CostOf(pkg, distance, Len(attempts), touches),
          riskScore |-> 0 ]

ShipmentOf(snap, p) ==
    LET s == Described(snap, p) IN [s EXCEPT !.riskScore = RiskScore(snap, s)]

Shipments(snap) == { ShipmentOf(snap, p) : p \in DOMAIN snap.packages }

Active(ships) == { s \in ships : s.isActive }
Delivered(ships) == { s \in ships : s.status = "DELIVERED" }
Judged(ships) == { s \in Delivered(ships) : s.sla \in { "met", "missed" } }
OnTime(ships) == { s \in Delivered(ships) : s.sla = "met" }

=============================================================================
