----------------------------- MODULE SeedHistory -----------------------------
(***************************************************************************)
(* The event history generate_dummy_events.py backfills for a parcel that  *)
(* generate_dummy_packages.py created directly in some status.             *)
(*                                                                         *)
(* Source: scripts/generate_dummy_events.py.                               *)
(***************************************************************************)
EXTENDS PackageLifecycle, Integers, Sequences

HappyPath ==
    << "PACKAGE_CREATED", "PICKUP_ASSIGNED", "PICKED_UP", "ARRIVED_AT_HUB",
       "SORTING", "DISPATCHED", "IN_TRANSIT", "ARRIVED_AT_DESTINATION_HUB",
       "OUT_FOR_DELIVERY", "DELIVERED" >>

Returning == << "DELIVERY_FAILED", "RETURN_REQUESTED", "RETURN_IN_TRANSIT", "RETURNED" >>

\* BRANCH_PREFIX_LEN: how far along HappyPath a status off it branches.
BranchPrefixLen(status) ==
    CASE status = "CANCELLED" -> 2
      [] status \in { "LOST", "DAMAGED" } -> 7
      [] OTHER -> 9

\* The steps after the prefix.
Branch(status) ==
    CASE status \in { "CANCELLED", "LOST", "DAMAGED" } -> <<status>>
      [] status = "RESCHEDULED" -> << "DELIVERY_FAILED", "RESCHEDULED" >>
      [] OTHER -> SubSeq(Returning, 1, CHOOSE i \in 1 .. 4 : Returning[i] = status)

BuildPath(status) ==
    IF \E i \in 1 .. 10 : HappyPath[i] = status
    THEN SubSeq(HappyPath, 1, CHOOSE i \in 1 .. 10 : HappyPath[i] = status)
    ELSE SubSeq(HappyPath, 1, BranchPrefixLen(status)) \o Branch(status)

=============================================================================
