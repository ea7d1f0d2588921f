------------------------------- MODULE Assist -------------------------------
(***************************************************************************)
(* The console's assistants: question routing (frontend/src/ai/nlq.ts),    *)
(* what-if simulation (simulate.ts), anomaly detection (anomaly.ts),       *)
(* recommendations (recommend.ts), the operations brief (brief.ts) and the *)
(* forecast they quote (frontend/src/data/forecast.ts).                    *)
(*                                                                         *)
(* Pure functions of a snapshot.  Sentences are left out: an answer is the *)
(* numbers and the entities it names.  A standard deviation is compared    *)
(* through its square, so no root is taken.                                *)
(***************************************************************************)
EXTENDS Exceptions

AtRisk(ships) == { s \in ships : s.sla \in { "at_risk", "breached" } }
Breached(ships) == { s \in ships : s.sla = "breached" }
InCity(ships, city) == { s \in ships : s.city = city }

Sum(seq) == FoldSeq(+, 0, seq)
Abs(n) == Max({ n, -n })

\* Math.round(a / b), for b > 0: halves are rounded up.
Round(a, b) == (2 * a + b) \div (2 * b)

RiderCity(snap, r) ==
    LET n == NodeOrNull(snap, snap.riders[r].node) IN IF n = None THEN None ELSE snap.nodes[n].city

----------------------------------------------------------------------------
\* What-if simulation.

ParcelsPerRiderDay == 8
RiderRelocationPerDay == 800
TempCapacityPer100 == 4500

Movable(riders, available) == Max({ 0, Min({ riders, available }) })

SimulateRiderMove(snap, from, to, riders) ==
    LET active == Active(snap.shipments)
        on(city) == Cardinality({ r \in DOMAIN snap.riders :
                                    RiderCity(snap, r) = city /\ snap.riders[r].status # "OFF_DUTY" })
        n == Movable(riders, on(from))
        toRisk == Cardinality(AtRisk(InCity(active, to)))
        fromActive == Cardinality(InCity(active, from))
        fromRisk == Cardinality(AtRisk(InCity(active, from)))
        rescued == Min({ toRisk, Round(n * ParcelsPerRiderDay * 6, 10) })
        spare == Max({ 0, on(from) - n }) * ParcelsPerRiderDay - fromActive
        newlyAtRisk == IF spare >= 0 THEN 0 ELSE Min({ fromActive - fromRisk, Round(-spare, 2) })
    IN  [ moved |-> n, toRiders |-> on(to) + n, fromRiders |-> Max({ 0, on(from) - n }),
          rescued |-> rescued, newlyAtRisk |-> newlyAtRisk,
          toAtRisk |-> Max({ 0, toRisk - rescued }),
          slaImpact |-> <<(rescued - newlyAtRisk) * 100, Max({ 1, Cardinality(active) })>>,
          cost |-> n * RiderRelocationPerDay, worthDoing |-> rescued > newlyAtRisk ]

SimulateHubCapacity(snap, hub, extraPct) ==
    LET extra == Round(hub.capacity * extraPct, 100)
        capacity == hub.capacity + extra
        pending == Cardinality(hub.pending)
        \* What falls off load / capacity, down to the 75% line, in parts of 4 den.
        den == hub.capacity * capacity
        before == 4 * hub.load * capacity
        after == Min({ 4 * hub.load * hub.capacity, 3 * den })
        rescued == IF den = 0 THEN 0
                   ELSE Min({ hub.slaRisk, Round(pending * Max({ 0, before - after }), 4 * den) })
    IN  [ capacity |-> capacity, rescued |-> rescued,
          pending |-> Max({ 0, pending - rescued }), atRisk |-> Max({ 0, hub.slaRisk - rescued }),
          cost |-> Round(extra * TempCapacityPer100, 100) ]

\* Who keeps moving while the corridor is held, and who pays for it.
SimulateCorridorHold(snap, route, hours) ==
    LET on == { s \in Active(snap.shipments) :
                  s.currentNode = route.source /\ s.status \in { "DISPATCHED", "SORTING" } }
        due(s, slack) == s.hoursToSla # None /\ s.hoursToSla < hours + slack
        urgent == { s \in on : s.priority \in { "URGENT", "HIGH" } \/ due(s, 4) }
    IN  [ queued |-> Cardinality(on), dispatched |-> Cardinality(urgent),
          held |-> Cardinality(on) - Cardinality(urgent),
          newlyAtRisk |-> Cardinality({ s \in on \ urgent : due(s, 6) }) ]

----------------------------------------------------------------------------
\* Anomalies.  The deviation of value from the baseline is at least k tenths of
\* a standard deviation; n values with sum S and squares' sum Q have
\* n^2 var = nQ - S^2.

Variance(baseline) ==
    Len(baseline) * Sum([i \in DOMAIN baseline |-> baseline[i] * baseline[i]])
    - Sum(baseline) * Sum(baseline)

Gap(value, baseline) == Len(baseline) * value - Sum(baseline)

Deviates(value, baseline, tenths) ==
    LET gap == Gap(value, baseline)
    IN  IF Variance(baseline) > 0 THEN 100 * gap * gap >= tenths * tenths * Variance(baseline)
        ELSE gap > 0 /\ tenths <= 20

SeriesAnomaly(daily, badIsUp) ==
    LET value == Last(daily)
        baseline == SubSeq(daily, Len(daily) - 7, Len(daily) - 1)
        bad == badIsUp <=> Gap(value, baseline) > 0
    IN  IF Len(daily) < 8 THEN None
        ELSE IF ~Deviates(value, baseline, 20) \/ (Sum(baseline) = 0 /\ value = 0) THEN None
        ELSE IF ~bad THEN "low" ELSE IF Deviates(value, baseline, 30) THEN "high" ELSE "medium"

\* Entities that stand out among their peers; rates are in per mille.
Outliers(rates, tenths, up, floor) ==
    LET peers == SetToSeq(DOMAIN rates)
        all == [i \in DOMAIN peers |-> rates[peers[i]]]
        out(x) == /\ Variance(all) > 0
                  /\ (Gap(rates[x], all) > 0) = up
                  /\ Deviates(rates[x], all, tenths)
    IN  { x \in DOMAIN rates : out(x) /\ rates[x] >= floor }

HubOutliers(snap) ==
    LET real == { h \in Hubs(snap) : h.capacity > 0 }
        rate == [ id \in { h.id : h \in real } |->
                    LET h == CHOOSE x \in real : x.id = id IN (1000 * h.load) \div h.capacity ]
    IN  { [hub |-> id, severity |-> IF rate[id] >= 900 THEN "high" ELSE "medium"]
          : id \in Outliers(rate, 20, TRUE, 600) }

CityOutliers(snap) ==
    LET week(s) == SelectSeq(s.attempts, LAMBDA a : a.timestamp >= snap.now - 7 * Day)
        total(c) == MapThenSumSet(LAMBDA s : Len(week(s)), InCity(snap.shipments, c))
        failed(c) == MapThenSumSet(LAMBDA s : Len(SelectSeq(week(s), Failure)),
                                   InCity(snap.shipments, c))
        cities == { c \in { s.city : s \in snap.shipments } : total(c) >= 5 }
        rate == [ c \in cities |-> (1000 * failed(c)) \div total(c) ]
    IN  { [city |-> c, severity |-> IF rate[c] >= 400 THEN "high" ELSE "medium"]
          : c \in Outliers(rate, 15, TRUE, 250) }

RiderOutliers(snap) ==
    LET stats == snap.stats
        judged == { r \in DOMAIN stats : stats[r].deliveries + stats[r].failedAttempts >= 5 }
        rate == [ r \in judged |-> (1000 * stats[r].successRate[1]) \div stats[r].successRate[2] ]
    IN  { [rider |-> r, severity |-> IF rate[r] < 600 THEN "medium" ELSE "low"]
          : r \in Outliers(rate, 15, FALSE, 0) }

DetectAnomalies(snap, daily) ==
    LET on(field) == [i \in DOMAIN daily |-> daily[i][field]]
        series == [ created |-> SeriesAnomaly(on("created"), FALSE),
                    failed |-> SeriesAnomaly(on("failed"), TRUE),
                    delivered |-> SeriesAnomaly(on("delivered"), FALSE),
                    late |-> SeriesAnomaly(on("late"), TRUE) ]
    IN  { [series |-> k, severity |-> series[k]] : k \in { x \in DOMAIN series : series[x] # None } }
        \cup HubOutliers(snap) \cup CityOutliers(snap) \cup RiderOutliers(snap)

=============================================================================
