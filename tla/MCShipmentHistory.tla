------------------------- MODULE MCShipmentHistory -------------------------
(***************************************************************************)
(* Two merchants' parcels paid on delivery: one on its way from Dhaka to   *)
(* Sylhet, one already at its destination hub in Dhaka, one that the       *)
(* generator has delivered, at an hour yet to come, and five on their way  *)
(* back; a rider in each city, one of whom one more parcel overloads.  Of  *)
(* the six hubs one is nearly full.                                        *)
(***************************************************************************)
EXTENDS ShipmentHistory

CONSTANTS p1, p2, p3, q1, q2, q3, q4, q5, r1, r2, ma, mb, shop, h1, h2, h3, h4, h5, h6, door, home

Place(type, city, load, operating) ==
    [ type |-> type, city |-> city, load |-> load, capacity |-> 10, operating |-> operating,
      district |-> city, districtDivision |-> None, division |-> city ]

MCNodes ==
    [ n \in { shop, h1, h2, h3, h4, h5, h6, door, home } |->
        CASE n = shop -> Place("MERCHANT", "Dhaka", 0, "OPERATIONAL")
          [] n = h1 -> Place("HUB", "Dhaka", 3, "DEGRADED")
          [] n = h2 -> Place("DELIVERY_HUB", "Sylhet", 9, "OPERATIONAL")
          [] n = h3 -> Place("DELIVERY_HUB", "Dhaka", 0, "OPERATIONAL")
          [] n \in { h4, h5, h6 } -> Place("SORTING_CENTER", "Dhaka", 0, "OPERATIONAL")
          [] n = home -> Place("CUSTOMER", "Dhaka", 0, "OPERATIONAL")
          [] n = door -> Place("CUSTOMER", "Sylhet", 0, "OPERATIONAL") ]

Corridor(id, source, destination, congestion) ==
    [ id |-> id, source |-> source, destination |-> destination, congestion |-> congestion,
      status |-> "ACTIVE" ]
MCRoutes == { Corridor(1, shop, h1, 10), Corridor(2, h1, h2, 70), Corridor(3, h2, door, 20) }

MCDistance == [ pair \in (DOMAIN MCNodes) \X (DOMAIN MCNodes) |->
                  IF MCNodes[pair[1]].city = MCNodes[pair[2]].city THEN 8 ELSE 240 ]

Returning == { q1, q2, q3, q4, q5 }

\* How soon each service promises the parcel.
Promise(hours) == CASE hours = 8 -> "SAME_DAY" [] hours = 24 -> "EXPRESS" [] hours = 48 -> "SCHEDULED"

Booked(status, node, destination, rider, merchant, value, order, created, expected, deliveredAt) ==
    [ status |-> status, node |-> node, source |-> shop, destination |-> destination, rider |-> rider,
      vehicle |-> None, merchant |-> merchant, payment |-> "COD", declared |-> value,
      orderValue |-> order, weight |-> 2, service |-> Promise(expected - created), priority |-> "NORMAL",
      customerCity |-> None, created |-> created, updated |-> 0, expected |-> expected,
      deliveredAt |-> deliveredAt ]

MCStart == [ p \in { p1, p2, p3 } \cup Returning |->
    CASE p = p1 -> Booked("IN_TRANSIT", None, door, None, ma, 6000, 9000, -18, 30, None)
      [] p = p2 -> Booked("ARRIVED_AT_DESTINATION_HUB", h3, home, None, mb, 800, None, 0, 48, None)
      [] p = p3 -> Booked("DELIVERED", home, home, None, ma, None, 500, -22, 2, 40)
      [] OTHER -> Booked("RETURN_IN_TRANSIT", None, home, r2, mb, 300, None, -4, 4, None) ]
MCRiderBase == [ r \in Rider |-> IF r = r1 THEN h2 ELSE h3 ]
Symmetry == Permutations(Returning)

=============================================================================
