----------------------------- MODULE MCMapView ------------------------------
(***************************************************************************)
(* Three nodes and two corridors, the first with two roads; a truck that   *)
(* drives it, may stray and turns into the second; a rider who drives the  *)
(* second to a door, where he is already on his way back; one division     *)
(* with a district in it.                                                  *)
(***************************************************************************)
EXTENDS MapView, TLC

CONSTANTS hubA, hubB, hubC, truck, rider, division, district

MCAt == (hubA :> <<0, 0>>) @@ (hubB :> <<6000, 0>>) @@ (hubC :> <<6000, 4000>>)
MCBaseOf == rider :> hubB

Box(x1, y1, x2, y2) == << <<x1, y1>>, <<x2, y1>>, <<x2, y2>>, <<x1, y2>> >>
Area(id, x1, y1, x2, y2) ==
    [ id |-> id, bbox |-> << <<x1, y1>>, <<x2, y2>> >>, polygons |-> { <<Box(x1, y1, x2, y2)>> } ]
MCAreas == (division :> Area(division, 3000, -1000, 9000, 5000))
           @@ (district :> Area(district, 5000, -1000, 9000, 1000))
MCDistricts == << MCAreas[district] >>

MCRoutes == { <<hubA, hubB>>, <<hubB, hubC>> }
MCCorridors ==
    (<< <<0, 0>>, <<6000, 0>> >> :>
        << Road("primary", 6, 6, << <<0, 0>>, <<6000, 0>> >>),
           Road("alternative", 10, 9, << <<0, 0>>, <<0, 2000>>, <<6000, 2000>>, <<6000, 0>> >>) >>)
    @@ (<< <<6000, 0>>, <<6000, 4000>> >> :>
        << Road("primary", 4, 4, << <<6000, 0>>, <<6000, 4000>> >>) >>)
    @@ (<< <<6000, 4000>>, <<6000, 0>> >> :>
        << Road("primary", 4, 4, << <<6000, 4000>>, <<6000, 0>> >>) >>)

MCRows == truck :> [ id |-> truck, pos |-> <<0, 0>>, node |-> hubA ]

East == <<1, 0>>
North == <<0, 1>>
Rolling(stamp, pos, node, dest, heading, variant) ==
    [ stamp |-> stamp, pos |-> pos, node |-> node, dest |-> dest, heading |-> heading,
      variant |-> variant, status |-> "EN_ROUTE" ]
MCScript ==
    (truck :> << { Rolling(1, <<0, 1000>>, None, hubB, North, "alternative") },
                 { Rolling(2, <<2000, 0>>, hubA, hubB, East, None),
                   Rolling(2, <<2000, 2000>>, hubA, hubB, East, "primary"),
                   Rolling(2, <<3000, 1000>>, hubA, None, East, None) },
                 { Rolling(3, <<6000, 2000>>, hubB, hubC, North, "primary") } >>)
    @@ (rider :> << { Rolling(1, <<6000, 1000>>, None, hubC, North, None) },
                    { Rolling(2, <<6000, 4000>>, hubC, hubB, North, None) } >>)

MCHome == <<3000, 0>>
MCPlaces == { <<6000, 0>> }

Budget(user, feed, clock, load) ==
    [ user |-> user, feed |-> feed, clock |-> clock, load |-> load ]
MCBudgets ==
    { Budget(4, 0, 1, 0), Budget(3, 0, 1, 2), Budget(2, 2, 1, 0), Budget(2, 1, 2, 0),
      Budget(1, 3, 1, 0), Budget(1, 2, 1, 2), Budget(0, 5, 2, 0) }

MCOpenable == { Item("hub", hubA), Item("hub", hubB), Item("region", division),
                Item("vehicle", truck), Item("shipment", "p1") }
=============================================================================
