----------------------------- MODULE MCDispatch -----------------------------
(***************************************************************************)
(* Small instances of Dispatch for TLC: two hubs of two cities with a      *)
(* corridor each way, one customer door per parcel.                        *)
(***************************************************************************)
EXTENDS Dispatch, TLC

CONSTANTS p1, p2, r1, r2, v1, v2, h1, h2, h3, d1, d2

MCEdge == { <<h1, h2>>, <<h2, h1>> }
MCDest == [p \in Package |-> IF p = p1 THEN d1 ELSE d2]
MCCityOf == [n \in Node |-> IF n \in { h1, d1 } THEN "Dhaka" ELSE "Sylhet"]
MCRiderBase == [r \in Rider |-> IF r = r1 THEN h1 ELSE h2]
RidersTogether == [r \in Rider |-> h1]
MCVehicleBase == [v \in Vehicle |-> IF v = v1 THEN h1 ELSE h2]
DepotVehicleBase == [v \in Vehicle |-> IF v = v1 THEN h1 ELSE h3]

\* Where the parcels start: at the last hub before the door, there or (as the
\* seed scripts leave them) out for delivery with no rider, or just created.
AtLastHub == { [status |-> "ARRIVED_AT_DESTINATION_HUB", node |-> h2] }
SeededLastMile == AtLastHub \cup { [status |-> "OUT_FOR_DELIVERY", node |-> h2] }
FromAnywhere == SeededLastMile \cup { [status |-> "PACKAGE_CREATED", node |-> None] }
Created == { [status |-> "PACKAGE_CREATED", node |-> None] }

\* What forward[0] may be: anything, on to the destination hub, and on to the
\* destination hub with every failed delivery retried.
AnyOrder == ForwardChoice
ToDestination == { o \in ForwardChoice : o.IN_TRANSIT = "ARRIVED_AT_DESTINATION_HUB" }
Retry == { o \in ToDestination : o.DELIVERY_FAILED = "RESCHEDULED" }
=============================================================================
