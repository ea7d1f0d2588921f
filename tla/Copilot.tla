------------------------------ MODULE Copilot ------------------------------
(***************************************************************************)
(* What the assistants say, on top of Assist: the forecast they quote      *)
(* (frontend/src/data/forecast.ts), the router of questions (ai/nlq.ts),   *)
(* the recommendations (ai/recommend.ts), the operations brief             *)
(* (ai/brief.ts), and the Command Center that shows it (app/page.tsx).     *)
(*                                                                         *)
(* A question is what the router's patterns see of it: the word stems it   *)
(* contains, the city it names, the move it spells out, the parcel whose   *)
(* tracking number it holds.                                               *)
(***************************************************************************)
EXTENDS Pages

----------------------------------------------------------------------------
\* Forecast: values are pairs <<numerator, denominator>>.

\* The least-squares line through ys at 0, 1, ...: its slope is
\* slope / den, its value at x is (level + slope * x) / den.
Line(ys) ==
    LET w == Len(ys)
        sx == Sum([i \in 1 .. w |-> i - 1])
        sxx == Sum([i \in 1 .. w |-> (i - 1) * (i - 1)])
        sxy == Sum([i \in 1 .. w |-> (i - 1) * ys[i]])
        den == w * sxx - sx * sx
    IN  IF den > 0
        THEN [ slope |-> w * sxy - sx * Sum(ys), level |-> Sum(ys) * sxx - sx * sxy, den |-> den ]
        ELSE [ slope |-> 0, level |-> Sum(ys), den |-> w ]

\* The four weeks the line is drawn through.
Window(fit) == SubSeq(fit, Max({ 1, Len(fit) - 27 }), Len(fit))

\* The share of a week day's mean in the overall mean, from two weeks of
\* history on, kept between a half and three halves.
Seasonality(fit, day) ==
    LET n == Len(fit)
        same == { i \in 1 .. n : i % 7 = day % 7 }
        share == << MapThenSumSet(LAMBDA i : fit[i], same) * n, Cardinality(same) * Sum(fit) >>
    IN  IF n < 14 \/ Sum(Window(fit)) = 0 \/ Sum(fit) = 0 THEN <<1, 1>>
        ELSE IF 2 * share[1] < share[2] THEN <<1, 2>>
        ELSE IF 2 * share[1] > 3 * share[2] THEN <<3, 2>> ELSE share

\* forecastSeries: today's partial bucket is left out of the fit; under five
\* days the mean is repeated, else the line is continued, never below zero.
ForecastSeries(history, horizonDays) ==
    LET fit == IF Len(history) > 1 THEN Front(history) ELSE history
        n == Len(fit)
        window == Window(fit)
        line == Line(window)
        season(h) == Seasonality(fit, n + h)
        value(h) == << Max({ 0, line.level + line.slope * (Len(window) - 1 + h) }) * season(h)[1],
                       line.den * season(h)[2] >>
    IN  [ h \in 1 .. horizonDays |->
            IF n = 0 THEN <<0, 1>> ELSE IF n < 5 THEN <<Sum(fit), n>> ELSE value(h) ]

----------------------------------------------------------------------------
\* Recommendations: the rule that fires.

Advice == { "call_rider", "reschedule", "escalate_to_hub", "next_wave", "pull_forward", "track",
            "reroute", "recheck" }

RecommendForShipment(s, congested) ==
    IF ~s.isActive THEN None
    ELSE CASE s.sla = "breached" ->
                IF s.status = "OUT_FOR_DELIVERY" THEN "call_rider"
                ELSE IF s.group = "failed" THEN "reschedule" ELSE "escalate_to_hub"
           [] s.sla = "at_risk" ->
                IF s.status = "ARRIVED_AT_DESTINATION_HUB" THEN "next_wave"
                ELSE IF s.status = "SORTING" THEN "pull_forward" ELSE "track"
           [] s.sla \notin { "breached", "at_risk" } /\ s.riskScore >= 40 ->
                IF congested THEN "reroute" ELSE "recheck"
           [] OTHER -> None

\* How many inbound parcels to divert, and whether to add a shift.
RecommendForHub(h) ==
    LET overflow == Max({ 0, h.load - Round(h.capacity * 3, 4) })
        inbound == Cardinality(h.inbound)
    IN  IF h.health = "ok" /\ Cardinality(h.pending) < 10 THEN None
        ELSE [ hub |-> h.id, divert |-> IF inbound > 0 THEN Min({ inbound, Max({ overflow, 5 }) }) ELSE 0,
               hours |-> Max({ 2, (Cardinality(h.pending) + 7) \div 8 }) ]

\* Who takes an overloaded rider's parcels over, and how many.
RecommendForRider(r, idle) ==
    LET others == { x \in idle : x.id # r.id }
        attempts == r.deliveries + r.failedAttempts
    IN  IF r.workload = "overloaded"
        THEN [ rider |-> r.id, move |-> Cardinality(r.active) - 4,
               to |-> IF others = {} THEN None ELSE CHOOSE x \in { y.id : y \in others } : TRUE ]
        ELSE IF attempts >= 5 /\ 10 * r.successRate[1] < 7 * r.successRate[2]
        THEN [ rider |-> r.id, move |-> 0, to |-> None ]
        ELSE None

----------------------------------------------------------------------------
\* Questions.

Says(q, stems) == q.words \cap stems # {}

\* runQuery's intents, in the order their patterns are tried.
Intents == << "track", "simulate", "sla-explain", "delayed", "hub-load", "riders-idle",
              "failures", "merchant-returns", "forecast", "routes", "city", "help" >>

Matches(q, intent) ==
    CASE intent = "track" -> q.tracking # None
      [] intent = "simulate" -> q.move # None
      [] intent = "sla-explain" -> Says(q, { "sla" })
                                   /\ Says(q, { "fall", "fell", "drop", "down", "worse", "decline", "why" })
      [] intent = "delayed" -> Says(q, { "delay", "late", "overdue", "breach" })
                               /\ Says(q, { "shipment", "parcel", "package", "deliver" })
      [] intent = "hub-load" -> Says(q, { "hub" })
                                /\ Says(q, { "overload", "congest", "busy", "capacity", "full" })
      [] intent = "riders-idle" -> Says(q, { "rider" })
            /\ Says(q, { "under", "idle", "unused", "free", "available", "utili" })
      [] intent = "failures" -> Says(q, { "fail" })
      [] intent = "merchant-returns" -> Says(q, { "merchant" })
                                        /\ Says(q, { "return", "worst", "highest" })
      [] intent = "forecast" ->
            Says(q, { "predict", "forecast", "tomorrow", "next week", "next 7", "next 30" })
      [] intent = "routes" -> Says(q, { "route", "corridor" })
      [] intent = "city" -> q.city # None
      [] intent = "help" -> TRUE

IntentOf(q) == Intents[Min({ i \in DOMAIN Intents : Matches(q, Intents[i]) })]

\* SUGGESTED_QUERIES, as the router sees them, with the intent each is about.
Ask(words, city, move, intent) ==
    [ q |-> [words |-> words, city |-> city, move |-> move, tracking |-> None], intent |-> intent ]

SuggestedQueries(from, to) ==
    { Ask({ "why", "sla", "fall" }, None, None, "sla-explain"),
      Ask({ "delay", "shipment" }, to, None, "delayed"),
      Ask({ "hub", "overload" }, None, None, "hub-load"),
      Ask({ "rider", "under" }, None, None, "riders-idle"),
      Ask({ "deliver", "fail" }, None, None, "failures"),
      Ask({ "merchant", "highest", "return" }, None, None, "merchant-returns"),
      Ask({ "predict", "tomorrow", "shipment" }, None, None, "forecast"),
      Ask({ "rider" }, from, [riders |-> 3, from |-> from, to |-> to], "simulate"),
      Ask({ "route" }, None, None, "routes") }

In(city, q) == q.city = None \/ city = q.city

\* The parcels, riders or hubs an answer counts or names.
Answer(snap, q) ==
    LET ships == snap.shipments
        active == Active(ships)
        intent == IntentOf(q)
        riders == Range(snap.stats)
        recentFailures(s) == SelectSeq(s.attempts, LAMBDA a : Failure(a) /\ snap.now - a.timestamp <= Day)
    IN  CASE intent = "track" -> { s.id : s \in { x \in ships : x.id = q.tracking } }
          [] intent = "sla-explain" -> { s.id : s \in Breached(active) }
          [] intent = "delayed" -> { s.id : s \in { x \in Breached(active) : In(x.city, q) } }
          [] intent = "hub-load" ->
                { h.id : h \in { x \in Hubs(snap) :
                    Cardinality({ y \in Hubs(snap) : y.load * x.capacity > x.load * y.capacity }) < 3 } }
          [] intent = "riders-idle" ->
                { r.id : r \in { x \in riders : x.workload = "idle" /\ In(RiderCity(snap, x.id), q) } }
          [] intent = "failures" -> { s.id : s \in { x \in ships : recentFailures(x) # <<>> } }
          [] intent = "merchant-returns" ->
                { m \in Merchants(snap) : Cardinality(MerchantShipments(snap, m)) >= 5 }
          [] intent = "routes" -> { r.id : r \in snap.routes }
          [] intent = "city" -> { s.id : s \in InCity(active, q.city) }
          [] OTHER -> {}

----------------------------------------------------------------------------
\* The brief over the current window: what it counts, the hubs and riders it
\* names, and the actions it proposes, four at most.

TopHubs(snap) == { h \in Hubs(snap) : h.health = "critical" }
Overloaded(snap) ==
    { x \in Range(snap.stats) : x.workload = "overloaded" }

OpsBrief(snap, current, previous, exceptions) ==
    LET active == Active(current)
        count(S) == Cardinality(S)
        warning == { h \in Hubs(snap) : h.health = "warning" }
        priority(p) == count({ e \in exceptions : e.priority = p })
        queue == Points(Breached(active) # {}, 1)
        steps == Min({ 2, count(TopHubs(snap)) }) + Min({ 2, count(Overloaded(snap)) }) + queue
    IN  [ shipments |-> count(current), delivered |-> count(Delivered(current)),
          active |-> count(active), breached |-> count(Breached(active)),
          atRisk |-> count({ s \in active : s.sla = "at_risk" }),
          slaRate |-> Ratio(count(OnTime(current)), count(Judged(current))),
          prevSlaRate |-> Ratio(count({ s \in previous : s.sla = "met" }),
                                count({ s \in previous : s.sla \in { "met", "missed" } })),
          failed |-> count({ s \in current : s.group = "failed" }),
          returns |-> count({ s \in current : s.group = "returns" }),
          volumeDelta |-> Ratio((count(current) - count(previous)) * 100, count(previous)),
          cities |-> { s.city : s \in AtRisk(active) },
          criticalHubs |-> count(TopHubs(snap)), warningHubs |-> count(warning),
          critical |-> priority("critical"), high |-> priority("high"),
          actions |-> Min({ 4, Max({ 1, steps }) }) ]

TopShipmentsByRisk(ships, n) ==
    { s \in Active(ships) : Cardinality({ x \in Active(ships) : x.riskScore > s.riskScore }) < n }

----------------------------------------------------------------------------
\* The Command Center: what it shows of the parcels, hubs, riders and items that
\* the bar and the charts leave.  Only the parcels are those of the window.

\* The city and the division an item is about.
About(snap, e) ==
    LET at(node) == IF node = None THEN << None, None >>
                    ELSE << snap.nodes[node].city, RegionOfNode(snap, node).division >>
        base(r) == at(NodeOrNull(snap, snap.riders[r].node))
        on(id) == CHOOSE x \in snap.routes : x.id = id
    IN  CASE e.shipment # None ->
                LET s == ShipmentOf(snap, e.shipment) IN << s.city, s.division >>
          [] e.type = "HUB_CONGESTION" -> at(e.id[2])
          [] e.type = "FAILED_DELIVERY_SPIKE" -> << e.id[2], None >>
          [] e.type = "RIDER_INACTIVE" -> base(e.id[2])
          [] e.type = "ROUTE_CONGESTION" -> at(NodeOrNull(snap, on(e.id[2]).destination))
          [] e.type = "VEHICLE_ISSUE" -> at(NodeOrNull(snap, snap.vehicles[e.id[2]].node))

ItemsShown(snap, lists) ==
    { e \in snap.exceptions : /\ ListMatch(lists["cities"], { About(snap, e)[1] })
                              /\ ListMatch(lists["divisions"], { About(snap, e)[2] }) }

CommandCenter(snap, f, cross) ==
    LET page == PageData(snap, snap.shipments, f, cross)
        items == ItemsShown(snap, EffectiveLists(f, cross))
    IN  [ strip |-> ShipmentKpiStrip(page.shipments, page.previous), exceptions |-> items,
          brief |-> OpsBrief(snap, page.shipments, page.previous, items) ]

=============================================================================
