------------------------------- MODULE MCDesk -------------------------------
(***************************************************************************)
(* Three exceptions, two of them about one hub; two parcels and two riders *)
(* in one city, a rider in another and in a third a parcel without riders, *)
(* which for the run on stale nodes is still on its way.                   *)
(***************************************************************************)
EXTENDS Desk

CONSTANTS e1, e2, e3, p1, p2, p3, r1, r2, r3, hubA, hubB

MCException == <<e1, e2, e3>>
MCPriorityOf == (e1 :> "critical") @@ (e2 :> "high") @@ (e3 :> "high")
MCLabelOf == (e1 :> "hub") @@ (e2 :> "hub") @@ (e3 :> "rider")
MCTypeOf == (e1 :> "SLA_BREACH") @@ (e2 :> "HUB_CONGESTION") @@ (e3 :> "SLA_BREACH")
MCCityOf == (e1 :> "dhaka") @@ (e2 :> "sylhet") @@ (e3 :> None)
MCDivisionOf == (e1 :> "north") @@ (e2 :> None) @@ (e3 :> "north")
MCAreas == { Everywhere, [ Everywhere EXCEPT !.cities = {"dhaka", "sylhet"} ],
             [ Everywhere EXCEPT !.divisions = {"north"} ] }
MCPriorities == <<"critical", "high">>

MCParcel == <<p1, p2, p3>>
MCRider == <<r1, r2, r3>>
MCCityOfParcel == (p1 :> "dhaka") @@ (p2 :> "dhaka") @@ (p3 :> "sylhet")
MCCityOfRider == (r1 :> "dhaka") @@ (r2 :> "dhaka") @@ (r3 :> "khulna")
MCScore == (r1 :> 80) @@ (r2 :> 90) @@ (r3 :> 95)
MCStart ==
    (p1 :> Row("ARRIVED_AT_DESTINATION_HUB", hubA, None))
    @@ (p2 :> Row("RESCHEDULED", hubA, None))
    @@ (p3 :> Row("ARRIVED_AT_DESTINATION_HUB", hubB, None))
MCStartMoving == [ MCStart EXCEPT ![p3].status = "IN_TRANSIT" ]

MCRoutes ==
    ("super_admin" :> {"exceptions", "shipments", "dispatch"})
    @@ ("warehouse_manager" :> {"exceptions", "shipments"})
    @@ ("merchant" :> {"shipments"})

Budget(user, look, rest) == [ user |-> user, look |-> look, rest |-> rest ]
MCBudgets ==
    { Budget(2, 1, 0), Budget(1, 3, 0), Budget(1, 1, 1), Budget(1, 0, 2) }
=============================================================================
