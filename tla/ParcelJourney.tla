--------------------------- MODULE ParcelJourney ---------------------------
(***************************************************************************)
(* What the package service promises, with no word on how it keeps it:     *)
(* a parcel is created once, its status moves only along the table, and    *)
(* its recorded journey is the statuses it has had, in the order it had    *)
(* them.                                                                   *)
(*                                                                         *)
(* The promise is the one package_state_machine.py ("the single source of  *)
(* truth for what state changes are legal") and models/event.py ("the      *)
(* immutable source of truth for history") state of the code.              *)
(***************************************************************************)
EXTENDS PackageLifecycle, Sequences

CONSTANTS Package,      \* the parcels
          Absent,       \* "no such parcel yet"
          SeedPath      \* journeys a parcel may already have behind it

VARIABLES status,       \* the status a parcel has, or Absent
          journey       \* the statuses it has had, oldest first

vars == <<status, journey>>

Init ==
    /\ journey \in [Package -> SeedPath]
    /\ status = [p \in Package |->
                    IF journey[p] = <<>> THEN Absent
                    ELSE journey[p][Len(journey[p])]]

Create(p) ==
    /\ status[p] = Absent
    /\ status' = [status EXCEPT ![p] = "PACKAGE_CREATED"]
    /\ journey' = [journey EXCEPT ![p] = Append(@, "PACKAGE_CREATED")]

Move(p, target) ==
    /\ IsValidTransition(status[p], target)
    /\ status' = [status EXCEPT ![p] = target]
    /\ journey' = [journey EXCEPT ![p] = Append(@, target)]

Next == \E p \in Package : Create(p) \/ \E target \in PackageStatus : Move(p, target)

Spec == Init /\ [][Next]_vars

=============================================================================
