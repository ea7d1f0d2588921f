--------------------------- MODULE MCPackageStore ---------------------------
(***************************************************************************)
(* Small instances of PackageStore for TLC.                                *)
(***************************************************************************)
EXTENDS PackageStore, SeedHistory, TLC

\* Journeys the parcels start from: not created, and as the seed scripts left
\* them waiting for pickup or at the destination hub (the two stretches where
\* the table branches), or in any status at all.
FreshAndDoorstep == { <<>>, BuildPath("ARRIVED_AT_DESTINATION_HUB") }
BothStretches == FreshAndDoorstep \cup { BuildPath("PICKUP_ASSIGNED") }
AnySeed == { <<>> } \cup { BuildPath(status) : status \in PackageStatus }

\* What the clients ask for: both stretches' moves, and one never allowed.
MCTarget ==
    { "PICKUP_ASSIGNED", "PICKED_UP", "CANCELLED", "OUT_FOR_DELIVERY",
      "DELIVERED", "DELIVERY_FAILED", "RESCHEDULED", "RETURN_REQUESTED" }

\* Every parcel goes from a merchant to a customer of the same city, whose only
\* hub serves all three stretches.
MCPlace ==
    [p \in Package |->
        [source |-> "merchant", destination |-> "customer",
         sourceHub |-> "hub", destHub |-> "hub",
         originHub |-> "hub", transitHub |-> "hub", deliveryHub |-> "hub"]]

RequestSymmetry == Permutations(Request)
=============================================================================
