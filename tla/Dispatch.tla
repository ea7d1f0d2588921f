------------------------------ MODULE Dispatch ------------------------------
(***************************************************************************)
(* The simulation engine's tick: vehicles carry parcels between hubs, and  *)
(* riders carry them the last mile to the customer's door.                 *)
(*                                                                         *)
(* A tick runs in one database session that commits at its end.  Its       *)
(* queries filter on committed rows (autoflush is off) and return the      *)
(* session's own, possibly changed, objects.  The riders' legs and the     *)
(* vehicles' trips live in the engine's memory: they survive a tick that   *)
(* raised and was rolled back, and are lost when the process restarts,     *)
(* while for the database it is the other way round.                       *)
(*                                                                         *)
(* Every iteration of the engine's loops is a step, for each contains an   *)
(* await at which the tick may raise or the process may be stopped.        *)
(*                                                                         *)
(* Source: simulator/engine.py, backend/app/core/database.py.              *)
(***************************************************************************)
EXTENDS PackageLifecycle, Integers, Sequences, FiniteSets

CONSTANTS Package, Rider, Vehicle,
          Hub,          \* nodes the network's edges connect
          Door,         \* customer nodes
          Edge,         \* logistics_edges, as <<source, destination>> pairs
          Dest,         \* destination_node_id of each parcel
          CityOf,       \* the city of each node
          RiderBase,    \* where each rider starts
          VehicleBase,  \* where each vehicle starts
          Order,        \* the orders a process may find its sets in
          Start,        \* statuses and nodes the parcels may start with
          None,
          AdoptEvery,   \* adopt_orphaned_deliveries runs every so many ticks
          MaxLeg,       \* bound: ticks a rider's leg takes
          MaxTrip,      \* bound: ticks a vehicle's trip takes
          MaxAttempts,  \* bound: a parcel's last attempt succeeds
          MaxFail,      \* bound: ticks that raise and are rolled back
          MaxCrash      \* bound: restarts of the process

Node == Hub \cup Door
VehicleStatus ==
    { "IDLE", "EN_ROUTE", "LOADING", "UNLOADING", "MAINTENANCE", "OFFLINE" }
RiderStatus == { "AVAILABLE", "ON_DELIVERY", "ON_PICKUP", "OFF_DUTY" }

PackageRow == [status : PackageStatus, node : Node \cup {None},
               vehicle : Vehicle \cup {None}, rider : Rider \cup {None}]
RiderRow == [status : RiderStatus, node : Node \cup {None}]
VehicleRow == [status : VehicleStatus, node : Node]
Attempt == [number : Nat, rider : Rider \cup {None}, success : BOOLEAN]
Database == [package : [Package -> PackageRow], rider : [Rider -> RiderRow],
             vehicle : [Vehicle -> VehicleRow], attempts : [Package -> Seq(Attempt)]]

\* RiderRuntime and VehicleRuntime; left = ticks to go, in place of progress.
Leg == [package : Package, origin : Node, dest : Node,
        phase : {"outbound", "return"}, left : Nat]
Trip == [to : Hub, left : Nat]

ASSUME NodeAssumption ==
    /\ Hub \cap Door = {} /\ None \notin Node
    /\ Edge \subseteq Hub \X Hub
    /\ Dest \in [Package -> Door]
    /\ RiderBase \in [Rider -> Hub] /\ VehicleBase \in [Vehicle -> Hub]
    /\ Start \subseteq [status : PackageStatus \ { "DELIVERED" }, node : Hub \cup {None}]

ASSUME ActorAssumption ==
    /\ None \notin Package /\ None \notin Rider /\ None \notin Vehicle
    /\ None \notin Leg /\ None \notin Trip
    /\ Vehicle \cap Rider = {}

ASSUME BoundAssumption ==
    /\ AdoptEvery \in Nat \ {0} /\ MaxLeg \in Nat \ {0} /\ MaxTrip \in Nat \ {0}
    /\ MaxAttempts \in Nat /\ MaxFail \in Nat /\ MaxCrash \in Nat

\* The outcomes of an attempt at the door.
Resolved == { "DELIVERED", "DELIVERY_FAILED" }

BadEnd == { "CANCELLED", "LOST", "DAMAGED" }
ForwardOf(status) == NextPossibleStatuses(status) \ BadEnd

\* forward[0] where there is more than one to choose from.
ForwardChoice == [IN_TRANSIT : ForwardOf("IN_TRANSIT"),
                  DELIVERY_FAILED : ForwardOf("DELIVERY_FAILED")]
First(choice, status) ==
    IF status \in DOMAIN choice THEN choice[status]
    ELSE CHOOSE next \in ForwardOf(status) : TRUE

ASSUME OrderAssumption == Order # {} /\ Order \subseteq ForwardChoice

VARIABLES db,           \* the committed rows
          ses,          \* the rows as this tick's session has them
          leg,          \* rider_runtime
          trip,         \* vehicle_runtime: None when current_edge is
          forward,      \* forward[0] for this process, decided by its hash seed
          tick,         \* tick_count modulo AdoptEvery
          phase,        \* the call of tick() in progress
          todo,         \* what its loop has still to visit
          truck,        \* the vehicle whose parcels are being advanced
          queue,        \* those parcels; or the orphans being adopted
          atDoor,       \* the rider whose arrival is being resolved
          fails,        \* ticks that raised so far
          crashes       \* restarts so far

memory == <<leg, trip, forward, tick>>
loop == <<phase, todo, truck, queue, atDoor>>
vars == <<db, ses, memory, loop, fails, crashes>>

(***************************************************************************)
(* advance_packages_at_node takes the first of the possible next statuses  *)
(* that is not a bad end.  They come from a Python set of strings, whose   *)
(* order is fixed for a process and differs from one process to the next.  *)
(***************************************************************************)
Forward(status) == First(forward, status)

\* A parcel out for delivery is its rider's; one with nowhere to go stays.
LeavesAlone_OnlyFinal(status) == ForwardOf(status) = {}                 \* mutant
LeavesAlone_AtForks(status) ==                                          \* mutant
    status = "OUT_FOR_DELIVERY" \/ Cardinality(ForwardOf(status)) # 1
LeavesAlone(status) == status = "OUT_FOR_DELIVERY" \/ ForwardOf(status) = {}

Init ==
    /\ \E at \in [Package -> Start] :
        db = [package |-> [p \in Package |->
                    [status |-> at[p].status, node |-> at[p].node,
                     vehicle |-> None, rider |-> None]],
              rider |-> [r \in Rider |-> [status |-> "AVAILABLE", node |-> RiderBase[r]]],
              vehicle |-> [v \in Vehicle |-> [status |-> "IDLE", node |-> VehicleBase[v]]],
              attempts |-> [p \in Package |-> <<>>]]
    /\ ses = db
    /\ leg = [r \in Rider |-> None]
    /\ trip = [v \in Vehicle |-> None]
    /\ forward \in Order
    /\ tick = 0
    /\ phase = "idle" /\ todo = {} /\ truck = None /\ queue = {} /\ atDoor = None
    /\ fails = 0 /\ crashes = 0

-----------------------------------------------------------------------------
(***************************************************************************)
(* transition_package and what it calls.  Each constrains ses' and leg'.   *)
(***************************************************************************)
\* The three ways a rider's row is written.
RiderPut(s, r, status, node) == [s EXCEPT !.rider[r] = [status |-> status, node |-> node]]
RiderOnDelivery(s, r) == [s EXCEPT !.rider[r].status = "ON_DELIVERY"]
RiderAt(s, r, node) == [s EXCEPT !.rider[r].node = node]

\* start_rider_leg: no leg to where the rider already is.
StartRiderLeg(r, p, origin) ==
    IF Dest[p] = origin THEN UNCHANGED leg
    ELSE \E ticks \in 1 .. MaxLeg :
            leg' = [leg EXCEPT ![r] = [package |-> p, origin |-> origin, dest |-> Dest[p],
                                       phase |-> "outbound", left |-> ticks]]

\* The riders assign_rider chooses from: AVAILABLE in the database, those of
\* the node's city if there are any.
RiderPool(s, node) ==
    LET riders == { r \in Rider : db.rider[r].status = "AVAILABLE" }
        local == { r \in riders : /\ node # None /\ s.rider[r].node # None
                                  /\ CityOf[s.rider[r].node] = CityOf[node] }
    IN IF local # {} THEN local ELSE riders

\* The parcel's new rider starts from the node the parcel leaves, if any.
Assigned(s, p, r, node) ==
    RiderPut([s EXCEPT !.package[p] = [@ EXCEPT !.rider = r]], r, "ON_DELIVERY",
             IF node = None THEN s.rider[r].node ELSE node)

AssignRider(s, p, node) ==
    LET kept == s.package[p].rider IN
    \/ /\ kept # None
       /\ ses' = RiderOnDelivery(s, kept)
       /\ UNCHANGED leg
    \/ /\ kept = None /\ RiderPool(s, node) = {}
       /\ ses' = s
       /\ UNCHANGED leg
    \/ /\ kept = None
       /\ \E r \in RiderPool(s, node) :
            /\ ses' = Assigned(s, p, r, node)
            /\ IF node = None THEN UNCHANGED leg ELSE StartRiderLeg(r, p, node)

\* The outcome of the attempt, numbered after the committed ones.
AttemptOf_FromZero(s, p, new) ==                                        \* mutant
    [number |-> Len(db.attempts[p]), rider |-> s.package[p].rider,
     success |-> new = "DELIVERED"]
AttemptOf(s, p, new) ==
    [number |-> Len(db.attempts[p]) + 1, rider |-> s.package[p].rider,
     success |-> new = "DELIVERED"]
Logged(s, p, new) == [s EXCEPT !.attempts[p] = Append(@, AttemptOf(s, p, new))]

\* record_delivery_attempt: the parcel's rider is free again and stands at the
\* door.
RecordDeliveryAttempt_RiderKept(s, p, new, node) ==                     \* mutant
    ses' = Logged(s, p, new) /\ UNCHANGED leg
RecordDeliveryAttempt(s, p, new, node) ==
    LET r == s.package[p].rider
        logged == Logged(s, p, new)
    IN /\ ses' = IF r = None THEN logged ELSE RiderPut(logged, r, "AVAILABLE", node)
       /\ UNCHANGED leg

\* The new status, and the place where it was reached if there is one.
Moved(s, p, new, node) ==
    LET at == IF node = None THEN s.package[p].node ELSE node
    IN [s EXCEPT !.package[p] = [@ EXCEPT !.status = new, !.node = at]]

TransitionPackage(s, p, new, node) ==
    IF ~ IsValidTransition(s.package[p].status, new)
    THEN ses' = s /\ UNCHANGED leg
    ELSE LET moved == Moved(s, p, new, node) IN
         \/ new = "OUT_FOR_DELIVERY" /\ AssignRider(moved, p, node)
         \/ new \in Resolved /\ RecordDeliveryAttempt(moved, p, new, node)
         \/ /\ new \notin Resolved \cup { "OUT_FOR_DELIVERY" }
            /\ ses' = moved /\ UNCHANGED leg

-----------------------------------------------------------------------------
(***************************************************************************)
(* tick(): a new session, then assign_idle_vehicles_to_packages.           *)
(***************************************************************************)
Waiting == { "PACKAGE_CREATED", "ARRIVED_AT_HUB", "ARRIVED_AT_DESTINATION_HUB" }
Pending == { p \in Package : /\ ses.package[p].vehicle = None
                             /\ ses.package[p].status \in Waiting }

BeginTick ==
    /\ phase = "idle"
    /\ phase' = "assign"
    /\ todo' = { v \in Vehicle : ses.vehicle[v].status \in { "IDLE", "UNLOADING" } }
    /\ UNCHANGED <<db, ses, memory, truck, queue, atDoor, fails, crashes>>

AssignVehicle(v, p) ==
    /\ phase = "assign" /\ v \in todo /\ p \in Pending
    /\ todo' = todo \ {v}
    /\ LET loaded == [ses EXCEPT !.package[p].vehicle = v,
                                 !.vehicle[v].status = "LOADING"]
       IN IF ses.package[p].status = "PACKAGE_CREATED"
          THEN TransitionPackage(loaded, p, "PICKUP_ASSIGNED", None)
          ELSE ses' = loaded /\ UNCHANGED leg
    /\ UNCHANGED <<db, trip, forward, tick, phase, truck, queue, atDoor, fails, crashes>>

AssignmentDone ==
    /\ phase = "assign" /\ (todo = {} \/ Pending = {})
    /\ phase' = "vehicles"
    /\ todo' = Vehicle
    /\ UNCHANGED <<db, ses, memory, truck, queue, atDoor, fails, crashes>>

(***************************************************************************)
(* move_vehicles and advance_packages_at_node.                             *)
(***************************************************************************)
\* No corridor leaves the vehicle's node: it stays.
VehicleStays(v) ==
    /\ phase = "vehicles" /\ v \in todo /\ trip[v] = None
    /\ \A e \in Edge : e[1] # ses.vehicle[v].node
    /\ todo' = todo \ {v}
    /\ UNCHANGED <<db, ses, memory, phase, truck, queue, atDoor, fails, crashes>>

\* The trip in progress, or a new one along a corridor that leaves the node.
TripsOf(v) ==
    IF trip[v] # None THEN { trip[v] }
    ELSE { [to |-> e[2], left |-> n] :
            e \in { x \in Edge : x[1] = ses.vehicle[v].node }, n \in 1 .. MaxTrip }

VehicleDrives(v) ==
    /\ phase = "vehicles" /\ v \in todo
    /\ \E t \in TripsOf(v) :
        /\ t.left > 1
        /\ trip' = [trip EXCEPT ![v] = [t EXCEPT !.left = @ - 1]]
    /\ ses' = IF trip[v] = None THEN [ses EXCEPT !.vehicle[v].status = "EN_ROUTE"] ELSE ses
    /\ todo' = todo \ {v}
    /\ UNCHANGED <<db, leg, forward, tick, phase, truck, queue, atDoor, fails, crashes>>

\* The vehicle is at the hub; its parcels, by the committed assignment, are
\* advanced one after the other.
VehicleArrives(v) ==
    /\ phase = "vehicles" /\ v \in todo
    /\ \E t \in TripsOf(v) :
        /\ t.left <= 1
        /\ trip' = [trip EXCEPT ![v] = t]
        /\ ses' = [ses EXCEPT !.vehicle[v] = [status |-> "UNLOADING", node |-> t.to]]
    /\ phase' = "unload" /\ truck' = v
    /\ queue' = { p \in Package : db.package[p].vehicle = v }
    /\ UNCHANGED <<db, leg, forward, tick, todo, atDoor, fails, crashes>>

AdvancePackage(p) ==
    /\ phase = "unload" /\ p \in queue
    /\ queue' = queue \ {p}
    /\ LET status == ses.package[p].status
       IN IF LeavesAlone(status) THEN UNCHANGED <<ses, leg>>
          ELSE TransitionPackage(ses, p, Forward(status), ses.vehicle[truck].node)
    /\ UNCHANGED <<db, trip, forward, tick, phase, todo, truck, atDoor, fails, crashes>>

UnloadDone ==
    /\ phase = "unload" /\ queue = {}
    /\ phase' = "vehicles" /\ todo' = todo \ {truck} /\ truck' = None
    /\ trip' = [trip EXCEPT ![truck] = None]
    /\ UNCHANGED <<db, ses, leg, forward, tick, queue, atDoor, fails, crashes>>

\* The legs move_riders visits are those there are when it starts.
WithLeg == { r \in Rider : leg[r] # None }

\* A parcel out for delivery (in the database) whose rider is on no leg.
Orphan_WithoutRider(p) ==                                               \* mutant
    db.package[p].status = "OUT_FOR_DELIVERY" /\ ses.package[p].rider = None
Orphan(p) ==
    /\ db.package[p].status = "OUT_FOR_DELIVERY"
    /\ ses.package[p].rider = None \/ leg[ses.package[p].rider] = None

\* adopt_orphaned_deliveries, every AdoptEvery ticks, looks for orphans.
VehiclesDone ==
    /\ phase = "vehicles" /\ todo = {}
    /\ IF tick = 0
       THEN /\ phase' = "adopt"
            /\ queue' = { p \in Package : Orphan(p) }
            /\ UNCHANGED todo
       ELSE /\ phase' = "riders"
            /\ todo' = WithLeg
            /\ UNCHANGED queue
    /\ UNCHANGED <<db, ses, memory, truck, atDoor, fails, crashes>>

\* A parcel without a rider goes to whoever is free; one with a rider gets a
\* new leg from where the rider is, or else from where the parcel is.
AdoptParcel(p) ==
    /\ phase = "adopt" /\ p \in queue
    /\ queue' = queue \ {p}
    /\ LET r == ses.package[p].rider
           origin == IF r # None /\ ses.rider[r].node # None THEN ses.rider[r].node
                     ELSE ses.package[p].node
       IN IF r = None THEN AssignRider(ses, p, origin)
          ELSE /\ ses' = RiderOnDelivery(ses, r)
               /\ IF origin = None THEN UNCHANGED leg ELSE StartRiderLeg(r, p, origin)
    /\ UNCHANGED <<db, trip, forward, tick, phase, todo, truck, atDoor, fails, crashes>>

AdoptionDone ==
    /\ phase = "adopt" /\ queue = {}
    /\ phase' = "riders" /\ todo' = WithLeg
    /\ UNCHANGED <<db, ses, memory, truck, queue, atDoor, fails, crashes>>

(***************************************************************************)
(* move_riders and resolve_doorstep.                                       *)
(***************************************************************************)
Riding(r) == phase = "riders" /\ atDoor = None /\ r \in todo

RiderRides_PastTheDoor(r) ==                                            \* mutant
    /\ Riding(r)
    /\ leg' = [leg EXCEPT ![r].left = @ - 1]
    /\ ses' = RiderAt(ses, r, None)
    /\ todo' = todo \ {r}
    /\ UNCHANGED <<db, trip, forward, tick, phase, truck, queue, atDoor, fails, crashes>>

RiderRides(r) ==
    /\ Riding(r) /\ leg[r].left > 1
    /\ leg' = [leg EXCEPT ![r].left = @ - 1]
    /\ ses' = RiderAt(ses, r, None)
    /\ todo' = todo \ {r}
    /\ UNCHANGED <<db, trip, forward, tick, phase, truck, queue, atDoor, fails, crashes>>

\* The attempt is made where and when the rider arrives, if the parcel of the
\* leg is still out for delivery.
RiderAtDoor(r) ==
    /\ Riding(r) /\ leg[r].left <= 1 /\ leg[r].phase = "outbound"
    /\ atDoor' = r
    /\ LET p == leg[r].package
           there == RiderAt(ses, r, leg[r].dest)
       IN IF ses.package[p].status = "OUT_FOR_DELIVERY"
          THEN \/ TransitionPackage(there, p, "DELIVERED", leg[r].dest)
               \/ /\ Len(db.attempts[p]) + 1 < MaxAttempts
                  /\ TransitionPackage(there, p, "DELIVERY_FAILED", leg[r].dest)
          ELSE ses' = there /\ UNCHANGED leg
    /\ UNCHANGED <<db, trip, forward, tick, phase, todo, truck, queue, fails, crashes>>

RiderTurnsBack ==
    /\ phase = "riders" /\ atDoor # None
    /\ \E ticks \in 1 .. MaxLeg :
        leg' = [leg EXCEPT ![atDoor] = [package |-> @.package, origin |-> @.dest,
                    dest |-> @.origin, phase |-> "return", left |-> ticks]]
    /\ todo' = todo \ {atDoor} /\ atDoor' = None
    /\ UNCHANGED <<db, ses, trip, forward, tick, phase, truck, queue, fails, crashes>>

RiderIsBack(r) ==
    /\ Riding(r) /\ leg[r].left <= 1 /\ leg[r].phase = "return"
    /\ ses' = RiderPut(ses, r, "AVAILABLE", leg[r].dest)
    /\ leg' = [leg EXCEPT ![r] = None]
    /\ todo' = todo \ {r}
    /\ UNCHANGED <<db, trip, forward, tick, phase, truck, queue, atDoor, fails, crashes>>

RidersDone ==
    /\ phase = "riders" /\ todo = {} /\ atDoor = None
    /\ phase' = "commit"
    /\ UNCHANGED <<db, ses, memory, todo, truck, queue, atDoor, fails, crashes>>

(***************************************************************************)
(* The end of a tick: committed, rolled back, or cut short by a restart.   *)
(***************************************************************************)
Commit ==
    /\ phase = "commit"
    /\ db' = ses
    /\ tick' = (tick + 1) % AdoptEvery
    /\ phase' = "idle"
    /\ UNCHANGED <<ses, leg, trip, forward, todo, truck, queue, atDoor, fails, crashes>>

SessionLost ==
    /\ ses' = db
    /\ phase' = "idle" /\ todo' = {} /\ truck' = None /\ queue' = {} /\ atDoor' = None

\* run() logs the exception and ticks again: the session is gone, the legs and
\* trips stay as the tick had left them.
TickFails ==
    /\ phase # "idle" /\ fails < MaxFail
    /\ SessionLost
    /\ fails' = fails + 1
    /\ UNCHANGED <<db, memory, crashes>>

Restart ==
    /\ crashes < MaxCrash
    /\ SessionLost
    /\ leg' = [r \in Rider |-> None] /\ trip' = [v \in Vehicle |-> None]
    /\ forward' \in Order /\ tick' = 0
    /\ crashes' = crashes + 1
    /\ UNCHANGED <<db, fails>>

TickStep ==
    \/ BeginTick \/ AssignmentDone \/ UnloadDone \/ VehiclesDone \/ AdoptionDone
    \/ RiderTurnsBack \/ RidersDone \/ Commit
    \/ \E v \in Vehicle : VehicleStays(v) \/ VehicleDrives(v) \/ VehicleArrives(v)
    \/ \E v \in Vehicle, p \in Package : AssignVehicle(v, p)
    \/ \E p \in Package : AdvancePackage(p) \/ AdoptParcel(p)
    \/ \E r \in Rider : RiderRides(r) \/ RiderAtDoor(r) \/ RiderIsBack(r)

Next == TickStep \/ TickFails \/ Restart

Spec == Init /\ [][Next]_vars

\* The engine's loop never ends: some step of the tick always comes.  Nothing
\* is assumed of failures and restarts.
FairSpec == Spec /\ WF_vars(TickStep)

-----------------------------------------------------------------------------
(***************************************************************************)
(* Properties.                                                             *)
(***************************************************************************)
\* The rows, the session and the engine's memory hold values of their types.
TypeOK ==
    /\ db \in Database /\ ses \in Database
    /\ leg \in [Rider -> Leg \cup {None}] /\ trip \in [Vehicle -> Trip \cup {None}]
    /\ forward \in ForwardChoice /\ tick \in 0 .. (AdoptEvery - 1)
    /\ phase \in { "idle", "assign", "vehicles", "unload", "adopt", "riders", "commit" }
    /\ todo \subseteq Vehicle \cup Rider /\ truck \in Vehicle \cup {None}
    /\ queue \subseteq Package /\ atDoor \in Rider \cup {None}
    /\ fails \in 0 .. MaxFail /\ crashes \in 0 .. MaxCrash

\* A parcel out for delivery belongs to its rider, who resolves it on arrival
\* at its door: no other rider and no vehicle delivers it or fails it
\* (advance_packages_at_node skips it, resolve_doorstep runs for a leg).
ResolvedByItsRider ==
    [][\A p \in Package :
        /\ ses.package[p].status = "OUT_FOR_DELIVERY"
        /\ ses'.package[p].status \in Resolved
        => /\ atDoor' # None /\ atDoor' = ses.package[p].rider
           /\ ses'.rider[atDoor'].node = Dest[p]]_vars

\* A rider on the way to a door is not offered to another parcel: its row says
\* ON_DELIVERY until the attempt is made.
OutboundRiderIsBusy ==
    \A r \in Rider :
        leg[r] # None /\ leg[r].phase = "outbound" /\ atDoor # r =>
            ses.rider[r].status = "ON_DELIVERY"

\* The committed attempts of a parcel are numbered 1, 2, 3..., all but the last
\* failed, and the last one succeeded exactly if the parcel is DELIVERED,
\* whatever ticks were rolled back or cut short on the way.
AttemptsTellTheStory ==
    \A p \in Package :
        LET tries == db.attempts[p] IN
        /\ \A i \in 1 .. Len(tries) :
            /\ tries[i].number = i
            /\ tries[i].success => i = Len(tries)
        /\ db.package[p].status = "DELIVERED" <=>
                tries # <<>> /\ tries[Len(tries)].success

\* No rider is kept from work for ever: between ticks a rider that is
\* ON_DELIVERY is on a leg or has a parcel out for delivery.
BusyRiderHasWork ==
    phase = "idle" => \A r \in Rider :
        db.rider[r].status = "ON_DELIVERY" =>
            \/ leg[r] # None
            \/ \E p \in Package : /\ db.package[p].rider = r
                                  /\ db.package[p].status = "OUT_FOR_DELIVERY"

\* assign_rider hands a parcel to an available rider: one that this very tick
\* has not already put ON_DELIVERY.
PickedRiderIsAvailable ==
    [][\A p \in Package :
        ses.package[p].rider = None /\ ses'.package[p].rider # None =>
            ses.rider[ses'.package[p].rider].status = "AVAILABLE"]_vars

\* A parcel out for delivery is resolved: adopt_orphaned_deliveries picks up
\* those that no rider is on the road for, so none stays so for ever.
OutForDeliveryIsResolved ==
    \A p \in Package :
        db.package[p].status = "OUT_FOR_DELIVERY" ~> db.package[p].status \in Resolved

\* A parcel a vehicle has started on reaches the last mile: the vehicles keep
\* arriving somewhere, and every arrival moves it one status forward.
LineHaulEnds ==
    \A p \in Package :
        db.package[p].status = "PICKED_UP" ~>
            db.package[p].status \in Resolved \cup { "OUT_FOR_DELIVERY" }

\* A parcel is recorded at its destination hub only in the city it is going to
\* (advance_packages_at_node writes the hub its vehicle has reached).
DestinationHubIsInItsCity ==
    \A p \in Package :
        db.package[p].status = "ARRIVED_AT_DESTINATION_HUB" =>
            CityOf[db.package[p].node] = CityOf[Dest[p]]

=============================================================================
