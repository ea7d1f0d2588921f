-------------------------- MODULE PackageLifecycle --------------------------
(***************************************************************************)
(* The package state machine: the statuses, the table of legal moves, and  *)
(* the four questions the services ask of it.  Pure definitions, shared by *)
(* every module in which a parcel changes status.                          *)
(*                                                                         *)
(* Source: backend/app/models/enums.py and                                 *)
(* backend/app/state_machine/package_state_machine.py.                     *)
(***************************************************************************)

PackageStatus ==
    { "PACKAGE_CREATED", "PICKUP_ASSIGNED", "PICKED_UP", "ARRIVED_AT_HUB",
      "SORTING", "DISPATCHED", "IN_TRANSIT", "ARRIVED_AT_DESTINATION_HUB",
      "OUT_FOR_DELIVERY", "DELIVERED", "CANCELLED", "RETURN_REQUESTED",
      "RETURN_IN_TRANSIT", "RETURNED", "DELIVERY_FAILED", "RESCHEDULED",
      "LOST", "DAMAGED" }

\* PACKAGE_STATUS_TRANSITIONS, as the set of its edges.
Transitions ==
    { <<"PACKAGE_CREATED", "PICKUP_ASSIGNED">>,
      <<"PACKAGE_CREATED", "CANCELLED">>,
      <<"PICKUP_ASSIGNED", "PICKED_UP">>,
      <<"PICKUP_ASSIGNED", "CANCELLED">>,
      <<"PICKED_UP", "ARRIVED_AT_HUB">>,
      <<"ARRIVED_AT_HUB", "SORTING">>,
      <<"SORTING", "DISPATCHED">>,
      <<"DISPATCHED", "IN_TRANSIT">>,
      <<"IN_TRANSIT", "ARRIVED_AT_HUB">>,
      <<"IN_TRANSIT", "ARRIVED_AT_DESTINATION_HUB">>,
      <<"IN_TRANSIT", "LOST">>,
      <<"IN_TRANSIT", "DAMAGED">>,
      <<"ARRIVED_AT_DESTINATION_HUB", "OUT_FOR_DELIVERY">>,
      <<"OUT_FOR_DELIVERY", "DELIVERED">>,
      <<"OUT_FOR_DELIVERY", "DELIVERY_FAILED">>,
      <<"DELIVERY_FAILED", "RESCHEDULED">>,
      <<"DELIVERY_FAILED", "RETURN_REQUESTED">>,
      <<"RESCHEDULED", "OUT_FOR_DELIVERY">>,
      <<"RETURN_REQUESTED", "RETURN_IN_TRANSIT">>,
      <<"RETURN_IN_TRANSIT", "RETURNED">> }

IsValidTransition(current, target) == <<current, target>> \in Transitions

NextPossibleStatuses(current) ==
    { target \in PackageStatus : IsValidTransition(current, target) }

IsTerminal(status) == NextPossibleStatuses(status) = {}

\* The statuses of a parcel nobody has collected from the merchant yet.
BeforePickup == { "PACKAGE_CREATED", "PICKUP_ASSIGNED", "CANCELLED" }

=============================================================================
