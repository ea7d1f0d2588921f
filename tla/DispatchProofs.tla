--------------------------- MODULE DispatchProofs ---------------------------
(***************************************************************************)
(* What Dispatch guarantees for every set of parcels, riders, vehicles and *)
(* hubs.                                                                   *)
(*                                                                         *)
(* First, for each call of the engine, a lemma that says what it changes   *)
(* and what it leaves alone.  Then four invariants, each inductive: Typed; *)
(* StoryInv, whatever fails or restarts; RideInv, which restarts keep and  *)
(* which a tick that fails may break, since its legs outlive its session;  *)
(* and WorkInv, again whatever fails or restarts, which says nothing of    *)
(* legs: what keeps a rider busy is a parcel out for delivery, in the      *)
(* database and in the session alike.                                      *)
(***************************************************************************)
EXTENDS Dispatch, TLAPS

\* Where the loops stand: a truck is being unloaded only while its turn lasts,
\* and the riders still to be visited are on a leg.
ControlOK ==
    /\ phase = "unload" => /\ truck \in Vehicle /\ truck \in todo
                           /\ \A p \in queue : db.package[p].vehicle = truck
    /\ phase = "riders" => \A r \in todo : r \in Rider /\ leg[r] # None
    /\ atDoor # None => phase = "riders" /\ atDoor \in todo
    /\ phase \in { "assign", "vehicles", "unload" } => todo \subseteq Vehicle

Typed == TypeOK /\ ControlOK

\* The attempts in d tell the story of the parcels' statuses in d.
StoryOf(d) ==
    \A p \in Package :
        LET tries == d.attempts[p] IN
        /\ \A i \in 1 .. Len(tries) :
            /\ tries[i].number = i
            /\ tries[i].success => i = Len(tries)
        /\ d.package[p].status = "DELIVERED" <=>
                tries # <<>> /\ tries[Len(tries)].success

\* A tick makes its attempts at the very end, one for each parcel, so that the
\* count of the committed ones is up to date when an attempt is numbered.
Uncounted ==
    \A p \in Package :
        phase \notin { "riders", "commit" } \/ ses.package[p].status = "OUT_FOR_DELIVERY" =>
            ses.attempts[p] = db.attempts[p]

StoryInv == Typed /\ StoryOf(db) /\ StoryOf(ses) /\ Uncounted

\* A leg is its parcel's rider's, and an outbound one leads to its door.
LegsKept ==
    \A r \in Rider : leg[r] # None =>
        /\ ses.package[leg[r].package].rider = r
        /\ leg[r].phase = "outbound" => leg[r].dest = Dest[leg[r].package]

\* The tick in progress has still to visit p's vehicle, or p in its load.
ToVisit(p) ==
    LET v == db.package[p].vehicle IN
    \/ phase \in { "idle", "assign" }
    \/ /\ phase \in { "vehicles", "unload" } /\ v \in todo
       /\ phase = "unload" /\ truck = v => p \in queue

\* A tick moves a failed parcel on once at most, and a delivered one never.
OnceATick ==
    \A p \in Package :
        /\ db.package[p].status = "DELIVERED" => ses.package[p].status = "DELIVERED"
        /\ db.package[p].status = "DELIVERY_FAILED" =>
            /\ ses.package[p].status \in { "DELIVERY_FAILED", "RESCHEDULED", "RETURN_REQUESTED" }
            /\ ToVisit(p) => ses.package[p].status = "DELIVERY_FAILED"

RideInv == Typed /\ OutboundRiderIsBusy /\ LegsKept /\ OnceATick

-----------------------------------------------------------------------------
(***************************************************************************)
(* What the calls of the engine change.                                    *)
(***************************************************************************)
\* A leg to p's door has been started for its rider r.
NewLeg(r, p) ==
    /\ leg'[r] \in Leg
    /\ leg'[r].package = p /\ leg'[r].dest = Dest[p] /\ leg'[r].phase = "outbound"
    /\ ses'.package[p].rider = r /\ ses'.rider[r].status = "ON_DELIVERY"

\* A call that moves p on in session s, without an attempt at the door: p keeps
\* its rider if it has one, no busy rider is freed, and no rider but p's changes.
MovesOn(s, p) ==
    /\ ses' \in Database /\ leg' \in [Rider -> Leg \cup {None}]
    /\ ses'.attempts = s.attempts /\ ses'.vehicle = s.vehicle
    /\ \A q \in Package \ {p} : ses'.package[q] = s.package[q]
    /\ ses'.package[p].vehicle = s.package[p].vehicle
    /\ s.package[p].rider # None => ses'.package[p].rider = s.package[p].rider
    /\ \A r \in Rider : s.rider[r].status = "ON_DELIVERY" =>
                            ses'.rider[r].status = "ON_DELIVERY"
    /\ \A r \in Rider : ses'.rider[r] = s.rider[r] \/ ses'.package[p].rider = r
    /\ \A r \in Rider : leg'[r] = leg[r] \/ NewLeg(r, p)

LEMMA SetPackage ==
    ASSUME NEW s \in Database, NEW f \in [Package -> PackageRow]
    PROVE  LET t == [s EXCEPT !.package = f] IN
           /\ t \in Database /\ t.package = f /\ t.rider = s.rider
           /\ t.vehicle = s.vehicle /\ t.attempts = s.attempts
  BY DEF Database

LEMMA SetRider ==
    ASSUME NEW s \in Database, NEW f \in [Rider -> RiderRow]
    PROVE  LET t == [s EXCEPT !.rider = f] IN
           /\ t \in Database /\ t.rider = f /\ t.package = s.package
           /\ t.vehicle = s.vehicle /\ t.attempts = s.attempts
  BY DEF Database

\* Two sessions that differ in the row of one parcel, or of one rider.
LEMMA MovedEffect ==
    ASSUME NEW s \in Database, NEW p \in Package, NEW new \in PackageStatus,
           NEW node \in Node \cup {None}
    PROVE  LET moved == Moved(s, p, new, node) IN
           /\ moved \in Database
           /\ moved.package[p].status = new
           /\ moved.package[p].vehicle = s.package[p].vehicle
           /\ moved.package[p].rider = s.package[p].rider
           /\ \A q \in Package \ {p} : moved.package[q] = s.package[q]
           /\ moved.rider = s.rider /\ moved.vehicle = s.vehicle
           /\ moved.attempts = s.attempts
  <1>. DEFINE old == s.package[p]
              at == IF node = None THEN old.node ELSE node
              f == [s.package EXCEPT ![p] = [@ EXCEPT !.status = new, !.node = at]]
  <1>1. s.package \in [Package -> PackageRow] /\ old \in PackageRow
    BY DEF Database
  <1>2. /\ f \in [Package -> PackageRow]
        /\ f[p].status = new /\ f[p].vehicle = old.vehicle /\ f[p].rider = old.rider
        /\ \A q \in Package \ {p} : f[q] = s.package[q]
    BY <1>1 DEF PackageRow
  <1>3. Moved(s, p, new, node) = [s EXCEPT !.package = f]
    BY DEF Moved
  <1>. HIDE DEF f
  <1>. QED
    BY <1>2, <1>3, SetPackage

LEMMA RiderPutEffect ==
    ASSUME NEW s \in Database, NEW r \in Rider, NEW status \in RiderStatus,
           NEW node \in Node \cup {None}
    PROVE  LET put == RiderPut(s, r, status, node) IN
           /\ put \in Database /\ put.package = s.package
           /\ put.vehicle = s.vehicle /\ put.attempts = s.attempts
           /\ put.rider[r].status = status /\ put.rider[r].node = node
           /\ \A q \in Rider \ {r} : put.rider[q] = s.rider[q]
  <1>. DEFINE f == [s.rider EXCEPT ![r] = [status |-> status, node |-> node]]
  <1>1. /\ f \in [Rider -> RiderRow]
        /\ f[r].status = status /\ f[r].node = node
        /\ \A q \in Rider \ {r} : f[q] = s.rider[q]
    BY DEF Database, RiderRow
  <1>2. RiderPut(s, r, status, node) = [s EXCEPT !.rider = f]
    BY DEF RiderPut
  <1>. HIDE DEF f
  <1>. QED
    BY <1>1, <1>2, SetRider

LEMMA RiderOnDeliveryEffect ==
    ASSUME NEW s \in Database, NEW r \in Rider
    PROVE  LET busy == RiderOnDelivery(s, r) IN
           /\ busy \in Database /\ busy.package = s.package
           /\ busy.vehicle = s.vehicle /\ busy.attempts = s.attempts
           /\ busy.rider[r].status = "ON_DELIVERY"
           /\ \A q \in Rider \ {r} : busy.rider[q] = s.rider[q]
  <1>. DEFINE f == [s.rider EXCEPT ![r] = [@ EXCEPT !.status = "ON_DELIVERY"]]
  <1>0. s.rider \in [Rider -> RiderRow] /\ s.rider[r] \in RiderRow
    BY DEF Database
  <1>3. /\ [s.rider[r] EXCEPT !.status = "ON_DELIVERY"] \in RiderRow
        /\ [s.rider[r] EXCEPT !.status = "ON_DELIVERY"].status = "ON_DELIVERY"
    BY <1>0 DEF RiderRow, RiderStatus
  <1>1. /\ f \in [Rider -> RiderRow]
        /\ f[r].status = "ON_DELIVERY"
        /\ \A q \in Rider \ {r} : f[q] = s.rider[q]
    BY <1>0, <1>3
  <1>2. RiderOnDelivery(s, r) = [s EXCEPT !.rider = f]
    BY DEF RiderOnDelivery
  <1>. HIDE DEF f
  <1>. QED
    BY <1>1, <1>2, SetRider

LEMMA RiderAtEffect ==
    ASSUME NEW s \in Database, NEW r \in Rider, NEW node \in Node \cup {None}
    PROVE  LET at == RiderAt(s, r, node) IN
           /\ at \in Database /\ at.package = s.package
           /\ at.vehicle = s.vehicle /\ at.attempts = s.attempts
           /\ at.rider[r].status = s.rider[r].status
           /\ \A q \in Rider \ {r} : at.rider[q] = s.rider[q]
  <1>. DEFINE f == [s.rider EXCEPT ![r] = [@ EXCEPT !.node = node]]
  <1>1. /\ f \in [Rider -> RiderRow]
        /\ f[r].status = s.rider[r].status
        /\ \A q \in Rider \ {r} : f[q] = s.rider[q]
    BY DEF Database, RiderRow
  <1>2. RiderAt(s, r, node) = [s EXCEPT !.rider = f]
    BY DEF RiderAt
  <1>. HIDE DEF f
  <1>. QED
    BY <1>1, <1>2, SetRider

LEMMA AssignedEffect ==
    ASSUME NEW s \in Database, NEW p \in Package, NEW r \in Rider,
           NEW node \in Node \cup {None}
    PROVE  LET given == Assigned(s, p, r, node) IN
           /\ given \in Database
           /\ given.vehicle = s.vehicle /\ given.attempts = s.attempts
           /\ given.package[p].status = s.package[p].status
           /\ given.package[p].vehicle = s.package[p].vehicle
           /\ given.package[p].rider = r
           /\ \A q \in Package \ {p} : given.package[q] = s.package[q]
           /\ given.rider[r].status = "ON_DELIVERY"
           /\ \A q \in Rider \ {r} : given.rider[q] = s.rider[q]
  <1>. DEFINE f == [s.package EXCEPT ![p] = [@ EXCEPT !.rider = r]]
              t == [s EXCEPT !.package = f]
              from == IF node = None THEN s.rider[r].node ELSE node
  <1>1. /\ f \in [Package -> PackageRow]
        /\ f[p].status = s.package[p].status
        /\ f[p].vehicle = s.package[p].vehicle /\ f[p].rider = r
        /\ \A q \in Package \ {p} : f[q] = s.package[q]
    BY DEF Database, PackageRow
  <1>2. from \in Node \cup {None} /\ "ON_DELIVERY" \in RiderStatus
    BY DEF Database, RiderRow, RiderStatus
  <1>3. Assigned(s, p, r, node) = RiderPut(t, r, "ON_DELIVERY", from)
    BY DEF Assigned
  <1>. HIDE DEF f, from
  <1>4. /\ t \in Database /\ t.package = f /\ t.rider = s.rider
        /\ t.vehicle = s.vehicle /\ t.attempts = s.attempts
    BY <1>1, SetPackage
  <1>. HIDE DEF t
  <1>. QED
    BY <1>1, <1>2, <1>3, <1>4, RiderPutEffect

LEMMA LoggedEffect ==
    ASSUME TypeOK, NEW s \in Database, NEW p \in Package, NEW new
    PROVE  LET logged == Logged(s, p, new) IN
           /\ logged \in Database /\ AttemptOf(s, p, new) \in Attempt
           /\ logged.package = s.package /\ logged.rider = s.rider
           /\ logged.vehicle = s.vehicle
           /\ logged.attempts[p] = Append(s.attempts[p], AttemptOf(s, p, new))
           /\ \A q \in Package \ {p} : logged.attempts[q] = s.attempts[q]
  <1>1. AttemptOf(s, p, new) \in Attempt
    BY DEF AttemptOf, Attempt, Database, PackageRow, TypeOK
  <1>. DEFINE f == [s.attempts EXCEPT ![p] = Append(@, AttemptOf(s, p, new))]
  <1>2. s.attempts \in [Package -> Seq(Attempt)]
    BY DEF Database
  <1>3. Append(s.attempts[p], AttemptOf(s, p, new)) \in Seq(Attempt)
    BY <1>1, <1>2
  <1>4. /\ f \in [Package -> Seq(Attempt)]
        /\ f[p] = Append(s.attempts[p], AttemptOf(s, p, new))
        /\ \A q \in Package \ {p} : f[q] = s.attempts[q]
    BY <1>2, <1>3
  <1>5. Logged(s, p, new) = [s EXCEPT !.attempts = f]
    BY DEF Logged
  <1>. HIDE DEF f
  <1>. QED
    BY <1>1, <1>4, <1>5 DEF Database

LEMMA StartRiderLegEffect ==
    ASSUME TypeOK, NEW r \in Rider, NEW p \in Package, NEW origin \in Node,
           StartRiderLeg(r, p, origin)
    PROVE  /\ leg' \in [Rider -> Leg \cup {None}]
           /\ \A q \in Rider : \/ leg'[q] = leg[q]
                               \/ /\ q = r /\ leg'[q] \in Leg
                                  /\ leg'[q].package = p /\ leg'[q].dest = Dest[p]
                                  /\ leg'[q].phase = "outbound"
  <1>1. Dest[p] \in Node
    BY NodeAssumption DEF Node
  <1>2. CASE Dest[p] = origin
    BY <1>2 DEF StartRiderLeg, TypeOK
  <1>3. CASE Dest[p] # origin
    <2>1. PICK ticks \in 1 .. MaxLeg :
            leg' = [leg EXCEPT ![r] = [package |-> p, origin |-> origin, dest |-> Dest[p],
                                       phase |-> "outbound", left |-> ticks]]
      BY <1>3 DEF StartRiderLeg
    <2>2. [package |-> p, origin |-> origin, dest |-> Dest[p],
           phase |-> "outbound", left |-> ticks] \in Leg
      BY <1>1, BoundAssumption DEF Leg
    <2>. QED
      BY <2>1, <2>2 DEF TypeOK
  <1>. QED
    BY <1>2, <1>3

LEMMA AssignRiderEffect ==
    ASSUME TypeOK, NEW s \in Database, NEW p \in Package,
           NEW node \in Node \cup {None}, AssignRider(s, p, node)
    PROVE  /\ MovesOn(s, p)
           /\ ses'.package[p].status = s.package[p].status
  <1>. DEFINE kept == s.package[p].rider
  <1>0. kept \in Rider \cup {None} /\ leg \in [Rider -> Leg \cup {None}]
    BY DEF Database, PackageRow, TypeOK
  <1>1. CASE kept # None /\ ses' = RiderOnDelivery(s, kept) /\ UNCHANGED leg
    <2>1. kept \in Rider
      BY <1>0, <1>1
    <2>2. /\ ses' \in Database /\ ses'.package = s.package
          /\ ses'.vehicle = s.vehicle /\ ses'.attempts = s.attempts
          /\ ses'.rider[kept].status = "ON_DELIVERY"
          /\ \A q \in Rider \ {kept} : ses'.rider[q] = s.rider[q]
      BY <1>1, <2>1, RiderOnDeliveryEffect
    <2>. QED
      BY <1>0, <1>1, <2>2 DEF MovesOn
  <1>2. CASE ses' = s /\ UNCHANGED leg
    BY <1>0, <1>2 DEF MovesOn
  <1>3. ASSUME kept = None, NEW r \in RiderPool(s, node),
               ses' = Assigned(s, p, r, node),
               IF node = None THEN UNCHANGED leg ELSE StartRiderLeg(r, p, node)
        PROVE  MovesOn(s, p) /\ ses'.package[p].status = s.package[p].status
    <2>1. r \in Rider
      BY <1>3 DEF RiderPool
    <2>2. /\ ses' \in Database
          /\ ses'.vehicle = s.vehicle /\ ses'.attempts = s.attempts
          /\ ses'.package[p].status = s.package[p].status
          /\ ses'.package[p].vehicle = s.package[p].vehicle
          /\ ses'.package[p].rider = r
          /\ \A q \in Package \ {p} : ses'.package[q] = s.package[q]
          /\ ses'.rider[r].status = "ON_DELIVERY"
          /\ \A q \in Rider \ {r} : ses'.rider[q] = s.rider[q]
      BY <1>3, <2>1, AssignedEffect
    <2>3. /\ leg' \in [Rider -> Leg \cup {None}]
          /\ \A q \in Rider : leg'[q] = leg[q] \/ NewLeg(q, p)
      <3>1. CASE node = None
        BY <1>0, <1>3, <3>1
      <3>2. CASE node # None
        <4>1. node \in Node /\ StartRiderLeg(r, p, node)
          BY <1>3, <3>2
        <4>. QED
          BY <2>1, <2>2, <4>1, StartRiderLegEffect DEF NewLeg
      <3>. QED
        BY <3>1, <3>2
    <2>. QED
      BY <1>3, <2>2, <2>3 DEF MovesOn
  <1>. QED
    BY <1>1, <1>2, <1>3 DEF AssignRider

\* transition_package, to anything but an attempt's outcome.
LEMMA TransitionEffect ==
    ASSUME TypeOK, NEW s \in Database, NEW p \in Package,
           NEW new \in PackageStatus \ Resolved, NEW node \in Node \cup {None},
           TransitionPackage(s, p, new, node)
    PROVE  /\ MovesOn(s, p)
           /\ \/ ses'.package[p].status = s.package[p].status
              \/ /\ IsValidTransition(s.package[p].status, new)
                 /\ ses'.package[p].status = new
           /\ ses'.rider = s.rider \/ ses'.package[p].status = "OUT_FOR_DELIVERY"
  <1>. DEFINE moved == Moved(s, p, new, node)
  <1>1. CASE ~ IsValidTransition(s.package[p].status, new)
    BY <1>1 DEF TransitionPackage, MovesOn, TypeOK
  <1>2. CASE IsValidTransition(s.package[p].status, new)
    <2>1. /\ moved \in Database
          /\ moved.package[p].status = new
          /\ moved.package[p].vehicle = s.package[p].vehicle
          /\ moved.package[p].rider = s.package[p].rider
          /\ \A q \in Package \ {p} : moved.package[q] = s.package[q]
          /\ moved.rider = s.rider /\ moved.vehicle = s.vehicle
          /\ moved.attempts = s.attempts
      BY MovedEffect
    <2>2. \/ new = "OUT_FOR_DELIVERY" /\ AssignRider(moved, p, node)
          \/ ses' = moved /\ UNCHANGED leg
      BY <1>2 DEF TransitionPackage
    <2>. HIDE DEF moved
    <2>3. CASE new = "OUT_FOR_DELIVERY" /\ AssignRider(moved, p, node)
      <3>1. MovesOn(moved, p) /\ ses'.package[p].status = moved.package[p].status
        BY <2>1, <2>3, AssignRiderEffect
      <3>. QED
        BY <1>2, <2>1, <2>3, <3>1 DEF MovesOn
    <2>4. CASE ses' = moved /\ UNCHANGED leg
      BY <1>2, <2>1, <2>4 DEF MovesOn, TypeOK
    <2>. QED
      BY <2>2, <2>3, <2>4
  <1>. QED
    BY <1>1, <1>2

\* transition_package to an attempt's outcome, for a parcel out for delivery.
LEMMA ResolveEffect ==
    ASSUME TypeOK, NEW s \in Database, NEW p \in Package, NEW new \in Resolved,
           NEW node \in Node, s.package[p].status = "OUT_FOR_DELIVERY",
           TransitionPackage(s, p, new, node)
    PROVE  LET r == s.package[p].rider IN
           /\ ses' \in Database /\ UNCHANGED leg /\ ses'.vehicle = s.vehicle
           /\ \A q \in Package \ {p} : /\ ses'.package[q] = s.package[q]
                                       /\ ses'.attempts[q] = s.attempts[q]
           /\ ses'.package[p].status = new
           /\ ses'.package[p].vehicle = s.package[p].vehicle
           /\ ses'.package[p].rider = r
           /\ AttemptOf(s, p, new) \in Attempt
           /\ ses'.attempts[p] = Append(s.attempts[p], AttemptOf(s, p, new))
           /\ \A q \in Rider \ {r} : ses'.rider[q] = s.rider[q]
           /\ r # None => ses'.rider[r].node = node /\ ses'.rider[r].status = "AVAILABLE"
  <1>. DEFINE moved == Moved(s, p, new, node)
              r == s.package[p].rider
              logged == Logged(moved, p, new)
  <1>1. IsValidTransition("OUT_FOR_DELIVERY", new) /\ new \in PackageStatus
    BY DEF Resolved, IsValidTransition, Transitions, PackageStatus
  <1>2. /\ moved \in Database
        /\ moved.package[p].status = new
        /\ moved.package[p].vehicle = s.package[p].vehicle
        /\ moved.package[p].rider = r
        /\ \A q \in Package \ {p} : moved.package[q] = s.package[q]
        /\ moved.rider = s.rider /\ moved.vehicle = s.vehicle
        /\ moved.attempts = s.attempts
    BY <1>1, MovedEffect
  <1>3. RecordDeliveryAttempt(moved, p, new, node)
    BY <1>1 DEF TransitionPackage, Resolved
  <1>4. AttemptOf(moved, p, new) = AttemptOf(s, p, new)
    BY <1>2 DEF AttemptOf
  <1>. HIDE DEF moved
  <1>5. /\ logged \in Database /\ AttemptOf(moved, p, new) \in Attempt
        /\ logged.package = moved.package /\ logged.rider = moved.rider
        /\ logged.vehicle = moved.vehicle
        /\ logged.attempts[p] = Append(moved.attempts[p], AttemptOf(moved, p, new))
        /\ \A q \in Package \ {p} : logged.attempts[q] = moved.attempts[q]
    BY <1>2, LoggedEffect
  <1>6. /\ ses' = IF r = None THEN logged ELSE RiderPut(logged, r, "AVAILABLE", node)
        /\ UNCHANGED leg
    BY <1>2, <1>3 DEF RecordDeliveryAttempt
  <1>7. r \in Rider \cup {None}
    BY DEF Database, PackageRow
  <1>. HIDE DEF logged
  <1>8. CASE r = None
    BY <1>2, <1>4, <1>5, <1>6, <1>8
  <1>9. CASE r # None
    <2>1. r \in Rider /\ "AVAILABLE" \in RiderStatus /\ node \in Node \cup {None}
      BY <1>7, <1>9 DEF RiderStatus
    <2>2. /\ ses' \in Database /\ ses'.package = logged.package
          /\ ses'.vehicle = logged.vehicle /\ ses'.attempts = logged.attempts
          /\ ses'.rider[r].node = node /\ ses'.rider[r].status = "AVAILABLE"
          /\ \A q \in Rider \ {r} : ses'.rider[q] = logged.rider[q]
      BY <1>5, <1>6, <1>9, <2>1, RiderPutEffect
    <2>3. /\ ses'.vehicle = s.vehicle
          /\ \A q \in Rider \ {r} : ses'.rider[q] = s.rider[q]
      BY <1>2, <1>5, <2>2
    <2>4. /\ \A q \in Package \ {p} : ses'.package[q] = s.package[q]
          /\ ses'.package[p].status = new /\ ses'.package[p].rider = r
          /\ ses'.package[p].vehicle = s.package[p].vehicle
      BY <1>2, <1>5, <2>2
    <2>5. /\ AttemptOf(s, p, new) \in Attempt
          /\ ses'.attempts[p] = Append(s.attempts[p], AttemptOf(s, p, new))
          /\ \A q \in Package \ {p} : ses'.attempts[q] = s.attempts[q]
      BY <1>2, <1>4, <1>5, <2>2
    <2>. HIDE DEF r
    <2>. QED
      BY <1>6, <2>2, <2>3, <2>4, <2>5 DEF r
  <1>. QED
    BY <1>8, <1>9

-----------------------------------------------------------------------------
(***************************************************************************)
(* The type invariant.                                                     *)
(***************************************************************************)
LEMMA InitTyped == Init => Typed
  <1>. SUFFICES ASSUME Init PROVE Typed
    OBVIOUS
  <1>1. PICK at \in [Package -> Start] :
        db = [package |-> [p \in Package |->
                    [status |-> at[p].status, node |-> at[p].node,
                     vehicle |-> None, rider |-> None]],
              rider |-> [r \in Rider |-> [status |-> "AVAILABLE", node |-> RiderBase[r]]],
              vehicle |-> [v \in Vehicle |-> [status |-> "IDLE", node |-> VehicleBase[v]]],
              attempts |-> [p \in Package |-> <<>>]]
    BY DEF Init
  <1>2. \A p \in Package : [status |-> at[p].status, node |-> at[p].node,
                            vehicle |-> None, rider |-> None] \in PackageRow
    BY NodeAssumption DEF PackageRow, Node
  <1>3. \A r \in Rider : [status |-> "AVAILABLE", node |-> RiderBase[r]] \in RiderRow
    BY NodeAssumption DEF RiderRow, RiderStatus, Node
  <1>4. \A v \in Vehicle : [status |-> "IDLE", node |-> VehicleBase[v]] \in VehicleRow
    BY NodeAssumption DEF VehicleRow, VehicleStatus, Node
  <1>5. <<>> \in Seq(Attempt)
    OBVIOUS
  <1>6. db \in Database
    BY <1>1, <1>2, <1>3, <1>4, <1>5 DEF Database
  <1>. QED
    BY <1>6, OrderAssumption, BoundAssumption DEF Init, Typed, TypeOK, ControlOK

LEMMA AssignVehicleEffect ==
    ASSUME Typed, NEW v \in Vehicle, NEW p \in Package, AssignVehicle(v, p)
    PROVE  /\ ses' \in Database /\ leg' \in [Rider -> Leg \cup {None}]
           /\ ses'.attempts = ses.attempts
           /\ \A q \in Package \ {p} : ses'.package[q] = ses.package[q]
           /\ \/ ses'.package[p].status = ses.package[p].status
              \/ ses'.package[p].status = "PICKUP_ASSIGNED"
           /\ ses.package[p].rider # None => ses'.package[p].rider = ses.package[p].rider
           /\ ses'.rider = ses.rider
           /\ \A r \in Rider : leg'[r] = leg[r] \/ NewLeg(r, p)
  <1>. DEFINE f == [ses.package EXCEPT ![p] = [@ EXCEPT !.vehicle = v]]
              g == [ses.vehicle EXCEPT ![v] = [@ EXCEPT !.status = "LOADING"]]
              loaded == [ses EXCEPT !.package[p].vehicle = v, !.vehicle[v].status = "LOADING"]
  <1>1. ses \in Database /\ leg \in [Rider -> Leg \cup {None}] /\ TypeOK
    BY DEF Typed, TypeOK
  <1>2. /\ f \in [Package -> PackageRow]
        /\ f[p].status = ses.package[p].status /\ f[p].rider = ses.package[p].rider
        /\ \A q \in Package \ {p} : f[q] = ses.package[q]
    BY <1>1 DEF Database, PackageRow
  <1>3. g \in [Vehicle -> VehicleRow]
    BY <1>1 DEF Database, VehicleRow, VehicleStatus
  <1>4. loaded = [ses EXCEPT !.package = f, !.vehicle = g]
    BY DEF Database
  <1>. HIDE DEF f, g
  <1>5. /\ loaded \in Database /\ loaded.package = f /\ loaded.rider = ses.rider
        /\ loaded.attempts = ses.attempts
    BY <1>1, <1>2, <1>3, <1>4 DEF Database
  <1>6. \/ TransitionPackage(loaded, p, "PICKUP_ASSIGNED", None)
        \/ ses' = loaded /\ UNCHANGED leg
    BY DEF AssignVehicle
  <1>. HIDE DEF loaded
  <1>7. CASE TransitionPackage(loaded, p, "PICKUP_ASSIGNED", None)
    <2>1. "PICKUP_ASSIGNED" \in PackageStatus \ Resolved
      BY DEF PackageStatus, Resolved
    <2>2. /\ MovesOn(loaded, p)
          /\ \/ ses'.package[p].status = loaded.package[p].status
             \/ ses'.package[p].status = "PICKUP_ASSIGNED"
          /\ ses'.rider = loaded.rider \/ ses'.package[p].status = "OUT_FOR_DELIVERY"
      BY <1>1, <1>5, <1>7, <2>1, TransitionEffect
    <2>3. loaded.package[p].status # "OUT_FOR_DELIVERY"
      BY <1>2, <1>5 DEF AssignVehicle, Pending, Waiting
    <2>. QED
      BY <1>2, <1>5, <2>2, <2>3 DEF MovesOn
  <1>8. CASE ses' = loaded /\ UNCHANGED leg
    BY <1>1, <1>2, <1>5, <1>8
  <1>. QED
    BY <1>6, <1>7, <1>8

\* The next status is one of the table's, and never the outcome of an attempt.
LEMMA ForwardIsNext ==
    ASSUME Typed, NEW status \in PackageStatus, ~ LeavesAlone(status)
    PROVE  /\ Forward(status) \in PackageStatus \ Resolved
           /\ IsValidTransition(status, Forward(status))
  <1>1. forward \in ForwardChoice
    BY DEF Typed, TypeOK
  <1>2. Forward(status) \in ForwardOf(status)
    <2>1. CASE status = "IN_TRANSIT"
      BY <1>1, <2>1 DEF Forward, First, ForwardChoice
    <2>2. CASE status = "DELIVERY_FAILED"
      BY <1>1, <2>2 DEF Forward, First, ForwardChoice
    <2>3. CASE status \notin { "IN_TRANSIT", "DELIVERY_FAILED" }
      <3>1. ForwardOf(status) # {}
        BY DEF LeavesAlone
      <3>2. DOMAIN forward = { "IN_TRANSIT", "DELIVERY_FAILED" }
        BY <1>1 DEF ForwardChoice
      <3>. QED
        BY <2>3, <3>1, <3>2 DEF Forward, First
    <2>. QED
      BY <2>1, <2>2, <2>3
  <1>3. Forward(status) \in PackageStatus /\ IsValidTransition(status, Forward(status))
    BY <1>2 DEF ForwardOf, NextPossibleStatuses
  <1>4. status # "OUT_FOR_DELIVERY"
    BY DEF LeavesAlone
  <1>. QED
    BY <1>3, <1>4 DEF IsValidTransition, Transitions, Resolved

LEMMA AdvancePackageEffect ==
    ASSUME Typed, NEW p \in Package, AdvancePackage(p)
    PROVE  \/ ses' = ses /\ UNCHANGED leg
           \/ /\ ~ LeavesAlone(ses.package[p].status)
              /\ MovesOn(ses, p)
              /\ \/ ses'.package[p].status = ses.package[p].status
                 \/ /\ ses'.package[p].status = Forward(ses.package[p].status)
                    /\ IsValidTransition(ses.package[p].status, ses'.package[p].status)
                    /\ ses'.package[p].status \notin Resolved
              /\ ses'.rider = ses.rider \/ ses'.package[p].status = "OUT_FOR_DELIVERY"
  <1>. DEFINE status == ses.package[p].status
              node == ses.vehicle[truck].node
  <1>1. ses \in Database /\ status \in PackageStatus /\ TypeOK
    BY DEF Typed, TypeOK, Database, PackageRow
  <1>2. truck \in Vehicle
    BY DEF AdvancePackage, Typed, ControlOK
  <1>3. node \in Node \cup {None}
    BY <1>1, <1>2 DEF Database, VehicleRow
  <1>4. CASE LeavesAlone(status)
    BY <1>4 DEF AdvancePackage
  <1>5. CASE ~ LeavesAlone(status)
    <2>1. TransitionPackage(ses, p, Forward(status), node)
      BY <1>5 DEF AdvancePackage
    <2>2. Forward(status) \in PackageStatus \ Resolved
      BY <1>1, <1>5, ForwardIsNext
    <2>. HIDE DEF node, status
    <2>3. /\ MovesOn(ses, p)
          /\ \/ ses'.package[p].status = ses.package[p].status
             \/ /\ IsValidTransition(ses.package[p].status, Forward(status))
                /\ ses'.package[p].status = Forward(status)
          /\ ses'.rider = ses.rider \/ ses'.package[p].status = "OUT_FOR_DELIVERY"
      BY <1>1, <1>3, <2>1, <2>2, TransitionEffect
    <2>. QED
      BY <1>5, <2>2, <2>3 DEF status
  <1>. QED
    BY <1>4, <1>5

LEMMA AdoptParcelEffect ==
    ASSUME Typed, NEW p \in Package, AdoptParcel(p)
    PROVE  /\ MovesOn(ses, p)
           /\ ses'.package[p].status = ses.package[p].status
  <1>. DEFINE r == ses.package[p].rider
              origin == IF r # None /\ ses.rider[r].node # None THEN ses.rider[r].node
                        ELSE ses.package[p].node
  <1>1. /\ ses \in Database /\ leg \in [Rider -> Leg \cup {None}] /\ TypeOK
        /\ r \in Rider \cup {None}
    BY DEF Typed, TypeOK, Database, PackageRow
  <1>2. origin \in Node \cup {None}
    BY <1>1 DEF Database, PackageRow, RiderRow
  <1>3. CASE r = None
    <2>1. AssignRider(ses, p, origin)
      BY <1>3 DEF AdoptParcel
    <2>. HIDE DEF origin
    <2>. QED
      BY <1>1, <1>2, <2>1, AssignRiderEffect
  <1>4. CASE r # None
    <2>1. /\ ses' = RiderOnDelivery(ses, r)
          /\ IF origin = None THEN UNCHANGED leg ELSE StartRiderLeg(r, p, origin)
      BY <1>4 DEF AdoptParcel
    <2>. HIDE DEF origin
    <2>2. r \in Rider
      BY <1>1, <1>4
    <2>3. /\ ses' \in Database /\ ses'.package = ses.package
          /\ ses'.vehicle = ses.vehicle /\ ses'.attempts = ses.attempts
          /\ ses'.rider[r].status = "ON_DELIVERY"
          /\ \A q \in Rider \ {r} : ses'.rider[q] = ses.rider[q]
      BY <1>1, <2>1, <2>2, RiderOnDeliveryEffect
    <2>4. /\ leg' \in [Rider -> Leg \cup {None}]
          /\ \A q \in Rider : leg'[q] = leg[q] \/ NewLeg(q, p)
      <3>1. CASE origin = None
        BY <1>1, <2>1, <3>1
      <3>2. CASE origin # None
        <4>1. origin \in Node /\ StartRiderLeg(r, p, origin)
          BY <1>2, <2>1, <3>2
        <4>. HIDE DEF r
        <4>2. /\ leg' \in [Rider -> Leg \cup {None}]
              /\ \A q \in Rider : \/ leg'[q] = leg[q]
                                  \/ /\ q = r /\ leg'[q] \in Leg
                                     /\ leg'[q].package = p /\ leg'[q].dest = Dest[p]
                                     /\ leg'[q].phase = "outbound"
          BY <1>1, <2>2, <4>1, StartRiderLegEffect
        <4>3. ses'.package[p].rider = r
          BY <2>3 DEF r
        <4>. QED
          BY <2>2, <2>3, <4>2, <4>3 DEF NewLeg
      <3>. QED
        BY <3>1, <3>2
    <2>. QED
      BY <2>3, <2>4 DEF MovesOn
  <1>. QED
    BY <1>3, <1>4

\* What a rider's arrival does to the parcel of its leg.
LEMMA RiderAtDoorEffect ==
    ASSUME Typed, NEW r \in Rider, RiderAtDoor(r)
    PROVE  LET p == leg[r].package
               carrier == ses.package[p].rider
           IN /\ p \in Package /\ ses' \in Database /\ UNCHANGED leg
              /\ ses'.vehicle = ses.vehicle
              /\ \A q \in Package \ {p} : /\ ses'.package[q] = ses.package[q]
                                          /\ ses'.attempts[q] = ses.attempts[q]
              /\ ses'.package[p].rider = carrier
              /\ ses'.package[p].vehicle = ses.package[p].vehicle
              /\ \A q \in Rider \ {carrier} :
                    ses'.rider[q].status = ses.rider[q].status
              /\ \/ /\ ses'.package[p].status = ses.package[p].status
                    /\ ses'.attempts[p] = ses.attempts[p]
                    /\ \A q \in Rider : ses'.rider[q].status = ses.rider[q].status
                 \/ \E new \in Resolved :
                    /\ ses.package[p].status = "OUT_FOR_DELIVERY"
                    /\ carrier # None => ses'.rider[carrier].status = "AVAILABLE"
                    /\ ses'.package[p].status = new
                    /\ AttemptOf(ses, p, new) \in Attempt
                    /\ ses'.attempts[p] = Append(ses.attempts[p], AttemptOf(ses, p, new))
                    /\ carrier = r => ses'.rider[r].node = leg[r].dest
  <1>. DEFINE p == leg[r].package
              there == RiderAt(ses, r, leg[r].dest)
  <1>1. /\ ses \in Database /\ TypeOK
        /\ leg \in [Rider -> Leg \cup {None}] /\ leg[r] # None
    BY DEF Typed, TypeOK, ControlOK, RiderAtDoor, Riding
  <1>2. leg[r] \in Leg /\ p \in Package /\ leg[r].dest \in Node
    BY <1>1 DEF Leg
  <1>3. /\ there \in Database /\ there.package = ses.package
        /\ there.vehicle = ses.vehicle /\ there.attempts = ses.attempts
        /\ there.rider[r].status = ses.rider[r].status
        /\ \A q \in Rider \ {r} : there.rider[q] = ses.rider[q]
    BY <1>1, <1>2, RiderAtEffect
  <1>4. CASE ses.package[p].status = "OUT_FOR_DELIVERY"
    <2>1. PICK new \in Resolved : TransitionPackage(there, p, new, leg[r].dest)
      BY <1>4 DEF RiderAtDoor, Resolved
    <2>2. AttemptOf(there, p, new) = AttemptOf(ses, p, new)
      BY <1>3 DEF AttemptOf
    <2>6. there.package[p].status = "OUT_FOR_DELIVERY"
      BY <1>3, <1>4
    <2>. HIDE DEF there, p
    <2>3. LET carrier == there.package[p].rider IN
          /\ ses' \in Database /\ UNCHANGED leg /\ ses'.vehicle = there.vehicle
          /\ \A q \in Package \ {p} : /\ ses'.package[q] = there.package[q]
                                      /\ ses'.attempts[q] = there.attempts[q]
          /\ ses'.package[p].status = new
          /\ ses'.package[p].vehicle = there.package[p].vehicle
          /\ ses'.package[p].rider = carrier
          /\ AttemptOf(there, p, new) \in Attempt
          /\ ses'.attempts[p] = Append(there.attempts[p], AttemptOf(there, p, new))
          /\ \A q \in Rider \ {carrier} : ses'.rider[q] = there.rider[q]
          /\ carrier # None => /\ ses'.rider[carrier].node = leg[r].dest
                               /\ ses'.rider[carrier].status = "AVAILABLE"
      BY <1>1, <1>2, <1>3, <2>1, <2>6, ResolveEffect
    <2>4. \A q \in Rider : there.rider[q].status = ses.rider[q].status
      BY <1>3
    <2>5. r # None
      BY ActorAssumption
    <2>7. /\ ses' \in Database /\ UNCHANGED leg /\ ses'.vehicle = ses.vehicle
          /\ \A q \in Package \ {p} : /\ ses'.package[q] = ses.package[q]
                                      /\ ses'.attempts[q] = ses.attempts[q]
          /\ ses'.package[p].rider = ses.package[p].rider
          /\ ses'.package[p].vehicle = ses.package[p].vehicle
          /\ \A q \in Rider \ {ses.package[p].rider} :
                ses'.rider[q].status = ses.rider[q].status
      BY <1>3, <2>3, <2>4
    <2>8. /\ ses.package[p].rider # None => ses'.rider[ses.package[p].rider].status = "AVAILABLE"
          /\ ses'.package[p].status = new
          /\ AttemptOf(ses, p, new) \in Attempt
          /\ ses'.attempts[p] = Append(ses.attempts[p], AttemptOf(ses, p, new))
          /\ ses.package[p].rider = r => ses'.rider[r].node = leg[r].dest
      BY <1>3, <2>2, <2>3, <2>5
    <2>. QED
      BY <1>2, <1>4, <2>7, <2>8 DEF p
  <1>5. CASE ses.package[p].status # "OUT_FOR_DELIVERY"
    <2>1. ses' = there /\ UNCHANGED leg
      BY <1>5 DEF RiderAtDoor
    <2>. HIDE DEF there
    <2>. QED
      BY <1>2, <1>3, <2>1
  <1>. QED
    BY <1>4, <1>5

LEMMA TripsOfType ==
    ASSUME Typed, NEW v \in Vehicle, NEW t \in TripsOf(v)
    PROVE  t \in Trip
  <1>1. trip[v] \in Trip \cup {None}
    BY DEF Typed, TypeOK
  <1>2. CASE trip[v] # None
    BY <1>1, <1>2 DEF TripsOf
  <1>3. CASE trip[v] = None
    <2>1. PICK e \in Edge, n \in 1 .. MaxTrip : t = [to |-> e[2], left |-> n]
      BY <1>3 DEF TripsOf
    <2>2. e[2] \in Hub /\ n \in Nat
      BY NodeAssumption, BoundAssumption
    <2>. QED
      BY <2>1, <2>2 DEF Trip
  <1>. QED
    BY <1>2, <1>3

LEMMA VehicleStepEffect ==
    ASSUME Typed, NEW v \in Vehicle, VehicleDrives(v) \/ VehicleArrives(v)
    PROVE  /\ ses' \in Database /\ trip' \in [Vehicle -> Trip \cup {None}]
           /\ ses'.package = ses.package /\ ses'.rider = ses.rider
           /\ ses'.attempts = ses.attempts
  <1>1. ses \in Database /\ trip \in [Vehicle -> Trip \cup {None}]
    BY DEF Typed, TypeOK
  <1>2. CASE VehicleDrives(v)
    <2>1. PICK t \in TripsOf(v) :
            t.left > 1 /\ trip' = [trip EXCEPT ![v] = [t EXCEPT !.left = @ - 1]]
      BY <1>2 DEF VehicleDrives
    <2>2. t \in Trip
      BY TripsOfType
    <2>3. [t EXCEPT !.left = @ - 1] \in Trip
      BY <2>1, <2>2 DEF Trip
    <2>4. trip' \in [Vehicle -> Trip \cup {None}]
      BY <1>1, <2>1, <2>3
    <2>5. ses' = ses \/ ses' = [ses EXCEPT !.vehicle[v].status = "EN_ROUTE"]
      BY <1>2 DEF VehicleDrives
    <2>6. [ses.vehicle EXCEPT ![v] = [@ EXCEPT !.status = "EN_ROUTE"]] \in [Vehicle -> VehicleRow]
      BY <1>1 DEF Database, VehicleRow, VehicleStatus
    <2>. QED
      BY <1>1, <2>4, <2>5, <2>6 DEF Database
  <1>3. CASE VehicleArrives(v)
    <2>1. PICK t \in TripsOf(v) :
            /\ trip' = [trip EXCEPT ![v] = t]
            /\ ses' = [ses EXCEPT !.vehicle[v] = [status |-> "UNLOADING", node |-> t.to]]
      BY <1>3 DEF VehicleArrives
    <2>2. t \in Trip
      BY TripsOfType
    <2>3. trip' \in [Vehicle -> Trip \cup {None}]
      BY <1>1, <2>1, <2>2
    <2>4. [status |-> "UNLOADING", node |-> t.to] \in VehicleRow
      BY <2>2 DEF Trip, VehicleRow, VehicleStatus, Node
    <2>. QED
      BY <1>1, <2>1, <2>3, <2>4 DEF Database
  <1>. QED
    BY <1>2, <1>3

\* The steps of a ride that do not touch the parcels.
LEMMA RideEffect ==
    ASSUME Typed, NEW r \in Rider, RiderRides(r) \/ RiderIsBack(r)
    PROVE  /\ ses' \in Database /\ leg' \in [Rider -> Leg \cup {None}]
           /\ ses'.package = ses.package /\ ses'.vehicle = ses.vehicle
           /\ ses'.attempts = ses.attempts
           /\ \A q \in Rider \ {r} : leg'[q] = leg[q] /\ ses'.rider[q] = ses.rider[q]
           /\ leg[r] # None
           /\ leg'[r] # None => /\ leg'[r].package = leg[r].package
                                /\ leg'[r].dest = leg[r].dest
                                /\ leg'[r].phase = leg[r].phase
                                /\ ses'.rider[r].status = ses.rider[r].status
  <1>1. /\ ses \in Database /\ leg \in [Rider -> Leg \cup {None}] /\ leg[r] # None
    BY DEF Typed, TypeOK, ControlOK, RiderRides, RiderIsBack, Riding
  <1>2. leg[r] \in Leg
    BY <1>1
  <1>3. CASE RiderRides(r)
    <2>1. /\ leg[r].left > 1 /\ ses' = RiderAt(ses, r, None)
          /\ leg' = [leg EXCEPT ![r].left = @ - 1]
      BY <1>3 DEF RiderRides
    <2>2. [leg[r] EXCEPT !.left = @ - 1] \in Leg
      BY <1>2, <2>1 DEF Leg
    <2>3. leg' = [leg EXCEPT ![r] = [leg[r] EXCEPT !.left = @ - 1]]
      BY <2>1
    <2>4. /\ leg' \in [Rider -> Leg \cup {None}]
          /\ \A q \in Rider \ {r} : leg'[q] = leg[q]
          /\ leg'[r] = [leg[r] EXCEPT !.left = @ - 1]
      BY <1>1, <2>2, <2>3
    <2>5. /\ leg'[r].package = leg[r].package /\ leg'[r].dest = leg[r].dest
          /\ leg'[r].phase = leg[r].phase
      BY <1>2, <2>4 DEF Leg
    <2>6. /\ ses' \in Database /\ ses'.package = ses.package
          /\ ses'.vehicle = ses.vehicle /\ ses'.attempts = ses.attempts
          /\ ses'.rider[r].status = ses.rider[r].status
          /\ \A q \in Rider \ {r} : ses'.rider[q] = ses.rider[q]
      BY <1>1, <2>1, RiderAtEffect
    <2>. QED
      BY <1>1, <2>4, <2>5, <2>6
  <1>4. CASE RiderIsBack(r)
    <2>1. /\ ses' = RiderPut(ses, r, "AVAILABLE", leg[r].dest)
          /\ leg' = [leg EXCEPT ![r] = None]
      BY <1>4 DEF RiderIsBack
    <2>2. leg[r].dest \in Node \cup {None} /\ "AVAILABLE" \in RiderStatus
      BY <1>2 DEF Leg, RiderStatus
    <2>3. /\ ses' \in Database /\ ses'.package = ses.package
          /\ ses'.vehicle = ses.vehicle /\ ses'.attempts = ses.attempts
          /\ \A q \in Rider \ {r} : ses'.rider[q] = ses.rider[q]
      BY <1>1, <2>1, <2>2, RiderPutEffect
    <2>. QED
      BY <1>1, <2>1, <2>3
  <1>. QED
    BY <1>3, <1>4

LEMMA RiderTurnsBackEffect ==
    ASSUME Typed, RiderTurnsBack
    PROVE  /\ atDoor \in Rider /\ leg' \in [Rider -> Leg \cup {None}]
           /\ \A q \in Rider \ {atDoor} : leg'[q] = leg[q]
           /\ leg[atDoor] # None /\ leg'[atDoor] # None
           /\ leg'[atDoor].package = leg[atDoor].package
           /\ leg'[atDoor].phase = "return"
  <1>1. /\ atDoor \in Rider /\ leg[atDoor] # None
        /\ leg \in [Rider -> Leg \cup {None}]
    BY DEF RiderTurnsBack, Typed, TypeOK, ControlOK
  <1>2. PICK ticks \in 1 .. MaxLeg :
        leg' = [leg EXCEPT ![atDoor] = [package |-> @.package, origin |-> @.dest,
                    dest |-> @.origin, phase |-> "return", left |-> ticks]]
    BY DEF RiderTurnsBack
  <1>3. leg[atDoor] \in Leg
    BY <1>1
  <1>4. [package |-> leg[atDoor].package, origin |-> leg[atDoor].dest,
         dest |-> leg[atDoor].origin, phase |-> "return", left |-> ticks] \in Leg
    BY <1>3, BoundAssumption DEF Leg
  <1>. QED
    BY <1>1, <1>2, <1>4, ActorAssumption

LEMMA TypedStep == Typed /\ [Next]_vars => Typed'
  <1>. SUFFICES ASSUME Typed, [Next]_vars PROVE Typed'
    OBVIOUS
  <1>. USE DEF Typed
  <1>1. CASE UNCHANGED vars
    BY <1>1 DEF TypeOK, ControlOK, vars, memory, loop
  <1>2. CASE BeginTick
    BY <1>2 DEF BeginTick, TypeOK, ControlOK, memory
  <1>3. CASE AssignmentDone
    BY <1>3 DEF AssignmentDone, TypeOK, ControlOK, memory
  <1>4. CASE UnloadDone
    <2>1. truck \in Vehicle /\ trip' = [trip EXCEPT ![truck] = None]
      BY <1>4 DEF UnloadDone, ControlOK
    <2>2. trip' \in [Vehicle -> Trip \cup {None}]
      BY <2>1 DEF TypeOK
    <2>3. todo' \subseteq Vehicle
      BY <1>4 DEF UnloadDone, ControlOK
    <2>. QED
      BY <1>4, <2>2, <2>3 DEF UnloadDone, TypeOK, ControlOK
  <1>5. CASE VehiclesDone
    BY <1>5 DEF VehiclesDone, TypeOK, ControlOK, WithLeg, memory
  <1>6. CASE AdoptionDone
    BY <1>6 DEF AdoptionDone, TypeOK, ControlOK, WithLeg, memory
  <1>7. CASE RiderTurnsBack
    <2>1. /\ atDoor \in Rider /\ leg' \in [Rider -> Leg \cup {None}]
          /\ \A q \in Rider \ {atDoor} : leg'[q] = leg[q]
      BY <1>7, RiderTurnsBackEffect
    <2>. QED
      BY <1>7, <2>1 DEF RiderTurnsBack, TypeOK, ControlOK
  <1>8. CASE RidersDone
    BY <1>8 DEF RidersDone, TypeOK, ControlOK, memory
  <1>9. CASE Commit
    <2>1. (tick + 1) % AdoptEvery \in 0 .. (AdoptEvery - 1)
      BY BoundAssumption DEF TypeOK
    <2>. QED
      BY <1>9, <2>1 DEF Commit, TypeOK, ControlOK
  <1>10. ASSUME NEW v \in Vehicle, VehicleStays(v) PROVE Typed'
    BY <1>10 DEF VehicleStays, TypeOK, ControlOK, memory
  <1>11. ASSUME NEW v \in Vehicle, VehicleDrives(v) PROVE Typed'
    <2>1. ses' \in Database /\ trip' \in [Vehicle -> Trip \cup {None}]
      BY <1>11, VehicleStepEffect
    <2>. QED
      BY <1>11, <2>1 DEF VehicleDrives, TypeOK, ControlOK
  <1>12. ASSUME NEW v \in Vehicle, VehicleArrives(v) PROVE Typed'
    <2>1. ses' \in Database /\ trip' \in [Vehicle -> Trip \cup {None}]
      BY <1>12, VehicleStepEffect
    <2>. QED
      BY <1>12, <2>1 DEF VehicleArrives, TypeOK, ControlOK
  <1>13. ASSUME NEW v \in Vehicle, NEW p \in Package, AssignVehicle(v, p) PROVE Typed'
    <2>1. ses' \in Database /\ leg' \in [Rider -> Leg \cup {None}]
      BY <1>13, AssignVehicleEffect
    <2>. QED
      BY <1>13, <2>1 DEF AssignVehicle, TypeOK, ControlOK
  <1>14. ASSUME NEW p \in Package, AdvancePackage(p) PROVE Typed'
    <2>1. ses' \in Database /\ leg' \in [Rider -> Leg \cup {None}]
      BY <1>14, AdvancePackageEffect DEF MovesOn, TypeOK
    <2>. QED
      BY <1>14, <2>1 DEF AdvancePackage, TypeOK, ControlOK
  <1>15. ASSUME NEW p \in Package, AdoptParcel(p) PROVE Typed'
    <2>1. ses' \in Database /\ leg' \in [Rider -> Leg \cup {None}]
      BY <1>15, AdoptParcelEffect DEF MovesOn
    <2>. QED
      BY <1>15, <2>1 DEF AdoptParcel, TypeOK, ControlOK
  <1>16. ASSUME NEW r \in Rider, RiderRides(r) \/ RiderIsBack(r) PROVE Typed'
    <2>1. /\ ses' \in Database /\ leg' \in [Rider -> Leg \cup {None}]
          /\ \A q \in Rider \ {r} : leg'[q] = leg[q]
      BY <1>16, RideEffect
    <2>2. /\ phase = "riders" /\ phase' = phase /\ todo' = todo \ {r} /\ atDoor = None
          /\ UNCHANGED <<db, trip, forward, tick, truck, queue, atDoor, fails, crashes>>
      BY <1>16 DEF RiderRides, RiderIsBack, Riding
    <2>. QED
      BY <2>1, <2>2 DEF TypeOK, ControlOK
  <1>17. ASSUME NEW r \in Rider, RiderAtDoor(r) PROVE Typed'
    <2>1. ses' \in Database /\ UNCHANGED leg
      BY <1>17, RiderAtDoorEffect
    <2>. QED
      BY <1>17, <2>1 DEF RiderAtDoor, Riding, TypeOK, ControlOK
  <1>18. CASE TickFails
    BY <1>18, BoundAssumption DEF TickFails, SessionLost, TypeOK, ControlOK, memory
  <1>19. CASE Restart
    BY <1>19, OrderAssumption, BoundAssumption DEF Restart, SessionLost, TypeOK, ControlOK
  <1>. QED
    BY <1>1, <1>2, <1>3, <1>4, <1>5, <1>6, <1>7, <1>8, <1>9, <1>10, <1>11, <1>12,
       <1>13, <1>14, <1>15, <1>16, <1>17, <1>18, <1>19 DEF Next, TickStep

\* The rows, the session and the engine's memory hold values of their types.
THEOREM TypeCorrect == Spec => []TypeOK
  <1>1. Init => Typed
    BY InitTyped
  <1>2. Typed /\ [Next]_vars => Typed'
    BY TypedStep
  <1>3. Typed => TypeOK
    BY DEF Typed
  <1>. QED
    BY <1>1, <1>2, <1>3, PTL DEF Spec

-----------------------------------------------------------------------------
(***************************************************************************)
(* The attempts tell the story, through any number of failed ticks and     *)
(* restarts.                                                               *)
(***************************************************************************)
\* A session with the same attempts and the same deliveries tells it too.
LEMMA StorySame ==
    ASSUME NEW d, NEW e, StoryOf(d), e.attempts = d.attempts,
           \A p \in Package : e.package[p].status = "DELIVERED"
                                <=> d.package[p].status = "DELIVERED"
    PROVE  StoryOf(e)
  BY DEF StoryOf

\* So does one with an attempt more, numbered after the others, of a parcel
\* that was out for delivery.
LEMMA StoryGoesOn ==
    ASSUME Typed, StoryOf(ses), Uncounted, NEW p \in Package, NEW new \in Resolved,
           ses' \in Database,
           ses.package[p].status = "OUT_FOR_DELIVERY", ses'.package[p].status = new,
           AttemptOf(ses, p, new) \in Attempt,
           ses'.attempts[p] = Append(ses.attempts[p], AttemptOf(ses, p, new)),
           \A q \in Package \ {p} : /\ ses'.package[q] = ses.package[q]
                                   /\ ses'.attempts[q] = ses.attempts[q]
    PROVE  StoryOf(ses')
  <1>. DEFINE tries == ses.attempts[p]
              try == AttemptOf(ses, p, new)
  <1>1. tries \in Seq(Attempt) /\ tries = db.attempts[p]
    BY DEF Typed, TypeOK, Database, Uncounted
  <1>2. try.number = Len(tries) + 1 /\ (try.success <=> new = "DELIVERED")
    BY <1>1 DEF AttemptOf
  <1>3. \A i \in 1 .. Len(tries) : tries[i].number = i /\ ~ tries[i].success
    <2>1. \A i \in 1 .. Len(tries) : tries[i].number = i
                                   /\ (tries[i].success => i = Len(tries))
      BY DEF StoryOf
    <2>2. ~ (tries # <<>> /\ tries[Len(tries)].success)
      BY DEF StoryOf
    <2>. QED
      BY <1>1, <2>1, <2>2
  <1>. HIDE DEF try, tries
  <1>4. ses'.attempts[p] = Append(tries, try) /\ try \in Attempt
    BY DEF try, tries
  <1>5. LET after == Append(tries, try) IN
        /\ Len(after) = Len(tries) + 1 /\ Len(tries) \in Nat /\ after # <<>>
        /\ \A i \in 1 .. Len(tries) : after[i] = tries[i]
        /\ after[Len(after)] = try
    BY <1>1, <1>4
  <1>6. ASSUME NEW q \in Package
        PROVE  LET after == ses'.attempts[q] IN
               /\ \A i \in 1 .. Len(after) :
                    /\ after[i].number = i
                    /\ after[i].success => i = Len(after)
               /\ ses'.package[q].status = "DELIVERED" <=>
                    after # <<>> /\ after[Len(after)].success
    <2>1. CASE q = p
      <3>1. \A i \in 1 .. Len(Append(tries, try)) :
                i \in 1 .. Len(tries) \/ i = Len(tries) + 1
        BY <1>5
      <3>. QED
        BY <1>2, <1>3, <1>4, <1>5, <2>1, <3>1
    <2>2. CASE q # p
      BY <2>2 DEF StoryOf
    <2>. QED
      BY <2>1, <2>2
  <1>. QED
    BY <1>6 DEF StoryOf

LEMMA StoryStep == StoryInv /\ [Next]_vars => StoryInv'
  <1>. SUFFICES ASSUME StoryInv, [Next]_vars PROVE StoryInv'
    OBVIOUS
  <1>0. Typed /\ Typed' /\ StoryOf(db) /\ StoryOf(ses) /\ Uncounted
    BY TypedStep DEF StoryInv
  <1>1. ASSUME db' = db, ses'.attempts = ses.attempts,
               \A p \in Package : ses'.package[p] = ses.package[p],
               phase' \in { "riders", "commit" } \/ phase \notin { "riders", "commit" }
        PROVE  StoryInv'
    <2>1. StoryOf(ses')
      BY <1>0, <1>1, StorySame
    <2>2. Uncounted'
      BY <1>0, <1>1 DEF Uncounted
    <2>. QED
      BY <1>0, <1>1, <2>1, <2>2 DEF StoryInv, StoryOf
  <1>2. ASSUME NEW p \in Package, db' = db, ses'.attempts = ses.attempts,
               \A q \in Package \ {p} : ses'.package[q] = ses.package[q],
               ses'.package[p].status = "DELIVERED" <=> ses.package[p].status = "DELIVERED",
               phase \notin { "riders", "commit" }
        PROVE  StoryInv'
    <2>1. StoryOf(ses')
      BY <1>0, <1>2, StorySame
    <2>2. Uncounted'
      BY <1>0, <1>2 DEF Uncounted
    <2>. QED
      BY <1>0, <1>2, <2>1, <2>2 DEF StoryInv, StoryOf
  <1>3. CASE UNCHANGED vars
    BY <1>0, <1>1, <1>3 DEF vars, loop
  <1>4. CASE \/ BeginTick \/ AssignmentDone \/ UnloadDone \/ VehiclesDone
             \/ AdoptionDone \/ RiderTurnsBack \/ RidersDone
    BY <1>0, <1>1, <1>4 DEF BeginTick, AssignmentDone, UnloadDone, VehiclesDone,
       AdoptionDone, RiderTurnsBack, RidersDone
  <1>5. CASE Commit
    <2>1. db' = ses /\ ses' = ses
      BY <1>5 DEF Commit
    <2>. QED
      BY <1>0, <2>1 DEF StoryInv, StoryOf, Uncounted
  <1>6. ASSUME NEW v \in Vehicle, VehicleStays(v) \/ VehicleDrives(v) \/ VehicleArrives(v)
        PROVE  StoryInv'
    <2>1. /\ db' = db /\ phase \notin { "riders", "commit" }
          /\ ses' = ses \/ VehicleDrives(v) \/ VehicleArrives(v)
      BY <1>6 DEF VehicleStays, VehicleDrives, VehicleArrives
    <2>2. ses'.package = ses.package /\ ses'.attempts = ses.attempts
      BY <1>0, <2>1, VehicleStepEffect
    <2>. QED
      BY <1>1, <2>1, <2>2
  <1>7. ASSUME NEW v \in Vehicle, NEW p \in Package, AssignVehicle(v, p)
        PROVE  StoryInv'
    <2>1. db' = db /\ phase = "assign" /\ p \in Pending
      BY <1>7 DEF AssignVehicle
    <2>2. ses.package[p].status # "DELIVERED"
      BY <2>1 DEF Pending, Waiting
    <2>3. /\ ses'.attempts = ses.attempts
          /\ \A q \in Package \ {p} : ses'.package[q] = ses.package[q]
          /\ ses'.package[p].status # "DELIVERED"
      BY <1>0, <1>7, <2>2, AssignVehicleEffect
    <2>. QED
      BY <1>2, <2>1, <2>2, <2>3
  <1>8. ASSUME NEW p \in Package, AdvancePackage(p) PROVE StoryInv'
    <2>1. db' = db /\ phase = "unload"
      BY <1>8 DEF AdvancePackage
    <2>2. CASE ses' = ses
      BY <1>1, <2>1, <2>2
    <2>3. CASE ses' # ses
      <3>1. /\ MovesOn(ses, p)
            /\ \/ ses'.package[p].status = ses.package[p].status
               \/ /\ IsValidTransition(ses.package[p].status, ses'.package[p].status)
                  /\ ses'.package[p].status \notin Resolved
        BY <1>0, <1>8, <2>3, AdvancePackageEffect
      <3>2. ses'.package[p].status = "DELIVERED" <=> ses.package[p].status = "DELIVERED"
        BY <3>1 DEF IsValidTransition, Transitions, Resolved
      <3>. QED
        BY <1>2, <2>1, <3>1, <3>2 DEF MovesOn
    <2>. QED
      BY <2>2, <2>3
  <1>9. ASSUME NEW p \in Package, AdoptParcel(p) PROVE StoryInv'
    <2>1. db' = db /\ phase = "adopt"
      BY <1>9 DEF AdoptParcel
    <2>2. MovesOn(ses, p) /\ ses'.package[p].status = ses.package[p].status
      BY <1>0, <1>9, AdoptParcelEffect
    <2>. QED
      BY <1>2, <2>1, <2>2 DEF MovesOn
  <1>10. ASSUME NEW r \in Rider, RiderRides(r) \/ RiderIsBack(r) PROVE StoryInv'
    <2>1. db' = db /\ phase' = "riders"
      BY <1>10 DEF RiderRides, RiderIsBack, Riding
    <2>2. ses'.package = ses.package /\ ses'.attempts = ses.attempts
      BY <1>0, <1>10, RideEffect
    <2>. QED
      BY <1>1, <2>1, <2>2
  <1>11. ASSUME NEW r \in Rider, RiderAtDoor(r) PROVE StoryInv'
    <2>. DEFINE p == leg[r].package
    <2>1. db' = db /\ phase' = "riders"
      BY <1>11 DEF RiderAtDoor, Riding
    <2>2. /\ p \in Package /\ ses' \in Database
          /\ \A q \in Package \ {p} : /\ ses'.package[q] = ses.package[q]
                                      /\ ses'.attempts[q] = ses.attempts[q]
          /\ \/ /\ ses'.package[p].status = ses.package[p].status
                /\ ses'.attempts[p] = ses.attempts[p]
             \/ \E new \in Resolved :
                /\ ses.package[p].status = "OUT_FOR_DELIVERY"
                /\ ses'.package[p].status = new
                /\ AttemptOf(ses, p, new) \in Attempt
                /\ ses'.attempts[p] = Append(ses.attempts[p], AttemptOf(ses, p, new))
      BY <1>0, <1>11, RiderAtDoorEffect
    <2>. HIDE DEF p
    <2>3. Uncounted'
      BY <1>0, <2>1, <2>2 DEF Uncounted, Resolved
    <2>4. StoryOf(ses')
      <3>1. CASE /\ ses'.package[p].status = ses.package[p].status
                 /\ ses'.attempts[p] = ses.attempts[p]
        <4>1. \A q \in Package : /\ ses'.attempts[q] = ses.attempts[q]
                                 /\ ses'.package[q].status = ses.package[q].status
          BY <2>2, <3>1
        <4>2. ses'.attempts = ses.attempts
          BY <1>0, <2>2, <4>1 DEF Typed, TypeOK, Database
        <4>. QED
          BY <1>0, <4>1, <4>2, StorySame
      <3>2. CASE \E new \in Resolved :
                /\ ses.package[p].status = "OUT_FOR_DELIVERY"
                /\ ses'.package[p].status = new
                /\ AttemptOf(ses, p, new) \in Attempt
                /\ ses'.attempts[p] = Append(ses.attempts[p], AttemptOf(ses, p, new))
        BY <1>0, <2>2, <3>2, StoryGoesOn
      <3>. QED
        BY <2>2, <3>1, <3>2
    <2>. QED
      BY <1>0, <2>1, <2>3, <2>4 DEF StoryInv, StoryOf
  <1>12. CASE TickFails \/ Restart
    <2>1. db' = db /\ ses' = db /\ phase' = "idle"
      BY <1>12 DEF TickFails, Restart, SessionLost
    <2>. QED
      BY <1>0, <2>1 DEF StoryInv, StoryOf, Uncounted
  <1>. QED
    BY <1>3, <1>4, <1>5, <1>6, <1>7, <1>8, <1>9, <1>10, <1>11, <1>12 DEF Next, TickStep

LEMMA InitStory == Init => StoryInv
  <1>. SUFFICES ASSUME Init PROVE StoryInv
    OBVIOUS
  <1>1. PICK at \in [Package -> Start] :
        db = [package |-> [p \in Package |->
                    [status |-> at[p].status, node |-> at[p].node,
                     vehicle |-> None, rider |-> None]],
              rider |-> [r \in Rider |-> [status |-> "AVAILABLE", node |-> RiderBase[r]]],
              vehicle |-> [v \in Vehicle |-> [status |-> "IDLE", node |-> VehicleBase[v]]],
              attempts |-> [p \in Package |-> <<>>]]
    BY DEF Init
  <1>2. \A p \in Package : /\ db.package[p].status # "DELIVERED"
                           /\ db.attempts[p] = <<>>
    BY <1>1, NodeAssumption
  <1>3. StoryOf(db)
    BY <1>2 DEF StoryOf
  <1>4. ses = db
    BY DEF Init
  <1>. QED
    BY <1>3, <1>4, InitTyped DEF StoryInv, Uncounted

\* The committed attempts of a parcel are numbered 1, 2, 3..., all but the last
\* failed, and the last succeeded exactly if the parcel is DELIVERED, whatever
\* ticks were rolled back or cut short.
THEOREM AttemptsAreAccurate == Spec => []AttemptsTellTheStory
  <1>1. StoryInv => AttemptsTellTheStory
    BY DEF StoryInv, StoryOf, AttemptsTellTheStory
  <1>. QED
    BY <1>1, InitStory, StoryStep, PTL DEF Spec

-----------------------------------------------------------------------------
(***************************************************************************)
(* When no tick fails, riders stay busy until they are at the door, and    *)
(* resolve their own parcels only; restarts do not matter.                 *)
(***************************************************************************)
\* A step that keeps the parcels' riders, frees nobody and at most starts legs
\* for one parcel keeps the riders in order.
LEMMA RidersInOrder ==
    ASSUME RideInv, Typed', NEW p \in Package, atDoor' = atDoor,
           \A q \in Package \ {p} : ses'.package[q] = ses.package[q],
           ses.package[p].rider # None => ses'.package[p].rider = ses.package[p].rider,
           \A r \in Rider : ses.rider[r].status = "ON_DELIVERY" =>
                                ses'.rider[r].status = "ON_DELIVERY",
           \A r \in Rider : leg'[r] = leg[r] \/ NewLeg(r, p)
    PROVE  OutboundRiderIsBusy' /\ LegsKept'
  <1>1. OutboundRiderIsBusy'
    BY DEF RideInv, OutboundRiderIsBusy, NewLeg
  <1>2. ASSUME NEW r \in Rider, leg'[r] # None
        PROVE  /\ ses'.package[leg'[r].package].rider = r
               /\ leg'[r].phase = "outbound" => leg'[r].dest = Dest[leg'[r].package]
    <2>1. CASE leg'[r] = leg[r]
      <3>1. leg[r] \in Leg
        BY <1>2, <2>1 DEF RideInv, Typed, TypeOK
      <3>2. leg[r].package \in Package
        BY <3>1 DEF Leg
      <3>3. r # None /\ ses.package[leg[r].package].rider = r
        BY <1>2, <2>1, ActorAssumption DEF RideInv, LegsKept
      <3>4. ses'.package[leg[r].package].rider = r
        BY <3>2, <3>3
      <3>. QED
        BY <1>2, <2>1, <3>4 DEF RideInv, LegsKept
    <2>2. CASE NewLeg(r, p)
      BY <2>2 DEF NewLeg
    <2>. QED
      BY <2>1, <2>2
  <1>. QED
    BY <1>1, <1>2 DEF LegsKept

LEMMA RideStep ==
    ASSUME MaxFail = 0
    PROVE  RideInv /\ [Next]_vars => RideInv'
  <1>. SUFFICES ASSUME RideInv, [Next]_vars PROVE RideInv'
    OBVIOUS
  <1>0. /\ Typed /\ Typed' /\ OutboundRiderIsBusy /\ LegsKept /\ OnceATick
    BY TypedStep DEF RideInv
  <1>1. ASSUME db' = db, ses'.package = ses.package, ses'.rider = ses.rider,
               leg' = leg, atDoor' = atDoor,
               \A p \in Package : ToVisit(p)' => ToVisit(p)
        PROVE  RideInv'
    <2>1. OutboundRiderIsBusy' /\ LegsKept'
      BY <1>0, <1>1 DEF OutboundRiderIsBusy, LegsKept
    <2>2. OnceATick'
      BY <1>0, <1>1 DEF OnceATick
    <2>. QED
      BY <1>0, <2>1, <2>2 DEF RideInv
  <1>2. CASE UNCHANGED vars
    BY <1>1, <1>2 DEF vars, memory, loop, ToVisit
  <1>3. CASE \/ BeginTick \/ AssignmentDone \/ UnloadDone \/ VehiclesDone
             \/ AdoptionDone \/ RidersDone
    <2>1. \A p \in Package : ToVisit(p)' => ToVisit(p)
      BY <1>3 DEF BeginTick, AssignmentDone, UnloadDone, VehiclesDone, AdoptionDone,
         RidersDone, ToVisit
    <2>. QED
      BY <1>1, <1>3, <2>1 DEF BeginTick, AssignmentDone, UnloadDone, VehiclesDone,
         AdoptionDone, RidersDone, memory
  <1>4. CASE RiderTurnsBack
    <2>1. db' = db /\ ses' = ses /\ atDoor' = None /\ phase' = "riders"
      BY <1>4 DEF RiderTurnsBack
    <2>2. /\ atDoor \in Rider
          /\ \A q \in Rider \ {atDoor} : leg'[q] = leg[q]
          /\ leg[atDoor] # None /\ leg'[atDoor] # None
          /\ leg'[atDoor].package = leg[atDoor].package
          /\ leg'[atDoor].phase = "return"
      BY <1>0, <1>4, RiderTurnsBackEffect
    <2>3. OutboundRiderIsBusy'
      BY <1>0, <2>1, <2>2 DEF OutboundRiderIsBusy
    <2>4. LegsKept'
      BY <1>0, <2>1, <2>2 DEF LegsKept
    <2>5. OnceATick'
      BY <1>0, <2>1 DEF OnceATick, ToVisit
    <2>. QED
      BY <1>0, <2>3, <2>4, <2>5 DEF RideInv
  <1>5. CASE Commit
    <2>1. /\ db' = ses /\ ses' = ses /\ leg' = leg /\ atDoor' = atDoor
      BY <1>5 DEF Commit
    <2>2. OnceATick'
      BY <2>1 DEF OnceATick
    <2>3. OutboundRiderIsBusy' /\ LegsKept'
      BY <1>0, <2>1 DEF OutboundRiderIsBusy, LegsKept
    <2>. QED
      BY <1>0, <2>2, <2>3 DEF RideInv
  <1>6. ASSUME NEW v \in Vehicle, VehicleStays(v) \/ VehicleDrives(v) \/ VehicleArrives(v)
        PROVE  RideInv'
    <2>1. db' = db /\ leg' = leg /\ atDoor' = atDoor
      BY <1>6 DEF VehicleStays, VehicleDrives, VehicleArrives, memory
    <2>2. ses'.package = ses.package /\ ses'.rider = ses.rider
      <3>1. CASE VehicleStays(v)
        BY <3>1 DEF VehicleStays
      <3>2. CASE VehicleDrives(v) \/ VehicleArrives(v)
        BY <1>0, <3>2, VehicleStepEffect
      <3>. QED
        BY <1>6, <3>1, <3>2
    <2>3. \A p \in Package : ToVisit(p)' => ToVisit(p)
      BY <1>6 DEF VehicleStays, VehicleDrives, VehicleArrives, ToVisit
    <2>. QED
      BY <1>1, <2>1, <2>2, <2>3
  <1>7. ASSUME NEW v \in Vehicle, NEW p \in Package, AssignVehicle(v, p)
        PROVE  RideInv'
    <2>1. db' = db /\ phase = "assign" /\ phase' = phase /\ atDoor' = atDoor /\ p \in Pending
      BY <1>7 DEF AssignVehicle
    <2>2. db.package[p].status \notin { "DELIVERED", "DELIVERY_FAILED" }
      BY <1>0, <2>1 DEF OnceATick, ToVisit, Pending, Waiting
    <2>3. /\ \A q \in Package \ {p} : ses'.package[q] = ses.package[q]
          /\ ses.package[p].rider # None => ses'.package[p].rider = ses.package[p].rider
          /\ \A r \in Rider : ses.rider[r].status = "ON_DELIVERY" =>
                               ses'.rider[r].status = "ON_DELIVERY"
          /\ \A r \in Rider : leg'[r] = leg[r] \/ NewLeg(r, p)
      BY <1>0, <1>7, AssignVehicleEffect
    <2>4. OutboundRiderIsBusy' /\ LegsKept'
      BY <1>0, <2>1, <2>3, RidersInOrder
    <2>5. OnceATick'
      BY <1>0, <2>1, <2>2, <2>3 DEF OnceATick, ToVisit
    <2>. QED
      BY <1>0, <2>4, <2>5 DEF RideInv
  <1>8. ASSUME NEW p \in Package, AdvancePackage(p) PROVE RideInv'
    <2>1. /\ db' = db /\ phase = "unload" /\ phase' = phase /\ atDoor' = atDoor
          /\ p \in queue /\ queue' = queue \ {p} /\ todo' = todo /\ truck' = truck
      BY <1>8 DEF AdvancePackage
    <2>2. \A q \in Package : ToVisit(q)' => ToVisit(q) /\ q # p
      BY <1>0, <2>1 DEF ToVisit, Typed, ControlOK
    <2>3. ToVisit(p)
      BY <1>0, <2>1 DEF ToVisit, Typed, ControlOK
    <2>4. CASE ses' = ses /\ UNCHANGED leg
      BY <1>1, <2>1, <2>2, <2>4
    <2>5. CASE ~ (ses' = ses /\ UNCHANGED leg)
      <3>1. /\ MovesOn(ses, p)
            /\ \/ ses'.package[p].status = ses.package[p].status
               \/ IsValidTransition(ses.package[p].status, ses'.package[p].status)
        BY <1>0, <1>8, <2>5, AdvancePackageEffect
      <3>2. OutboundRiderIsBusy' /\ LegsKept'
        BY <1>0, <2>1, <3>1, RidersInOrder DEF MovesOn
      <3>3. db.package[p].status = "DELIVERED" => ses'.package[p].status = "DELIVERED"
        BY <1>0, <3>1 DEF OnceATick, IsValidTransition, Transitions
      <3>4. db.package[p].status = "DELIVERY_FAILED" =>
                ses'.package[p].status \in
                    { "DELIVERY_FAILED", "RESCHEDULED", "RETURN_REQUESTED" }
        BY <1>0, <2>3, <3>1 DEF OnceATick, IsValidTransition, Transitions
      <3>5. OnceATick'
        BY <1>0, <2>1, <2>2, <3>1, <3>3, <3>4 DEF OnceATick, MovesOn
      <3>. QED
        BY <1>0, <3>2, <3>5 DEF RideInv
    <2>. QED
      BY <2>4, <2>5
  <1>9. ASSUME NEW p \in Package, AdoptParcel(p) PROVE RideInv'
    <2>1. db' = db /\ phase' = "adopt" /\ atDoor' = atDoor
      BY <1>9 DEF AdoptParcel
    <2>2. MovesOn(ses, p) /\ ses'.package[p].status = ses.package[p].status
      BY <1>0, <1>9, AdoptParcelEffect
    <2>3. OutboundRiderIsBusy' /\ LegsKept'
      BY <1>0, <2>1, <2>2, RidersInOrder DEF MovesOn
    <2>4. OnceATick'
      BY <1>0, <2>1, <2>2 DEF OnceATick, ToVisit, MovesOn
    <2>. QED
      BY <1>0, <2>3, <2>4 DEF RideInv
  <1>10. ASSUME NEW r \in Rider, RiderRides(r) \/ RiderIsBack(r) PROVE RideInv'
    <2>1. db' = db /\ phase' = "riders" /\ atDoor' = atDoor
      BY <1>10 DEF RiderRides, RiderIsBack, Riding
    <2>2. /\ ses'.package = ses.package
          /\ \A q \in Rider \ {r} : leg'[q] = leg[q] /\ ses'.rider[q] = ses.rider[q]
          /\ leg[r] # None
          /\ leg'[r] # None => /\ leg'[r].package = leg[r].package
                               /\ leg'[r].dest = leg[r].dest
                               /\ leg'[r].phase = leg[r].phase
                               /\ ses'.rider[r].status = ses.rider[r].status
      BY <1>0, <1>10, RideEffect
    <2>3. OutboundRiderIsBusy'
      BY <1>0, <2>1, <2>2 DEF OutboundRiderIsBusy
    <2>4. LegsKept'
      BY <1>0, <2>2 DEF LegsKept
    <2>5. OnceATick'
      BY <1>0, <2>1, <2>2 DEF OnceATick, ToVisit
    <2>. QED
      BY <1>0, <2>3, <2>4, <2>5 DEF RideInv
  <1>11. ASSUME NEW r \in Rider, RiderAtDoor(r) PROVE RideInv'
    <2>. DEFINE p == leg[r].package
    <2>1. db' = db /\ phase' = "riders" /\ atDoor' = r /\ atDoor = None /\ leg[r] # None
      BY <1>0, <1>11 DEF RiderAtDoor, Riding, Typed, ControlOK
    <2>2. ses.package[p].rider = r
      BY <1>0, <2>1 DEF LegsKept
    <2>3. /\ p \in Package /\ UNCHANGED leg
          /\ \A q \in Package \ {p} : ses'.package[q] = ses.package[q]
          /\ ses'.package[p].rider = r
          /\ \A q \in Rider \ {r} : ses'.rider[q].status = ses.rider[q].status
          /\ \/ ses'.package[p].status = ses.package[p].status
             \/ ses.package[p].status = "OUT_FOR_DELIVERY"
      BY <1>0, <1>11, <2>2, RiderAtDoorEffect
    <2>4. OutboundRiderIsBusy'
      BY <1>0, <2>1, <2>3, ActorAssumption DEF OutboundRiderIsBusy
    <2>5. \A q \in Package : ses'.package[q].rider = ses.package[q].rider
      BY <2>2, <2>3
    <2>6. \A q \in Rider : leg[q] # None => leg[q].package \in Package
      BY <1>0 DEF Typed, TypeOK, Leg
    <2>7. LegsKept'
      BY <1>0, <2>3, <2>5, <2>6 DEF LegsKept
    <2>. HIDE DEF p
    <2>8. OnceATick'
      BY <1>0, <2>1, <2>3 DEF OnceATick, ToVisit
    <2>. QED
      BY <1>0, <2>4, <2>7, <2>8 DEF RideInv
  <1>12. CASE TickFails
    BY <1>0, <1>12 DEF TickFails, Typed, TypeOK
  <1>13. CASE Restart
    <2>1. db' = db /\ ses' = db /\ leg' = [r \in Rider |-> None]
      BY <1>13 DEF Restart, SessionLost
    <2>. QED
      BY <1>0, <2>1 DEF RideInv, OutboundRiderIsBusy, LegsKept, OnceATick
  <1>. QED
    BY <1>2, <1>3, <1>4, <1>5, <1>6, <1>7, <1>8, <1>9, <1>10, <1>11, <1>12, <1>13
       DEF Next, TickStep

LEMMA InitRide == Init => RideInv
  BY InitTyped DEF Init, RideInv, OutboundRiderIsBusy, LegsKept, OnceATick

\* A rider on the way to a door is ON_DELIVERY until the attempt is made, if
\* no tick raises; restarts may happen at any await.
THEOREM OutboundRidersStayBusy ==
    ASSUME MaxFail = 0
    PROVE  Spec => []OutboundRiderIsBusy
  <1>1. RideInv /\ [Next]_vars => RideInv'
    BY RideStep
  <1>2. RideInv => OutboundRiderIsBusy
    BY DEF RideInv
  <1>. QED
    BY <1>1, <1>2, InitRide, PTL DEF Spec

\* A parcel out for delivery is resolved by its rider, at its door, if no tick
\* raises (a leg left by a failed tick lets another rider do it).
THEOREM RidersResolveTheirOwn ==
    ASSUME MaxFail = 0
    PROVE  Spec => ResolvedByItsRider
  <1>. DEFINE ByRider ==
        \A p \in Package :
            /\ ses.package[p].status = "OUT_FOR_DELIVERY"
            /\ ses'.package[p].status \in Resolved
            => /\ atDoor' # None /\ atDoor' = ses.package[p].rider
               /\ ses'.rider[atDoor'].node = Dest[p]
  <1>1. RideInv /\ [Next]_vars => RideInv'
    BY RideStep
  <1>2. RideInv /\ [Next]_vars => [ByRider]_vars
    <2>. SUFFICES ASSUME RideInv, Next, NEW p \in Package,
                         ses.package[p].status = "OUT_FOR_DELIVERY",
                         ses'.package[p].status \in Resolved
                  PROVE  /\ atDoor' # None /\ atDoor' = ses.package[p].rider
                         /\ ses'.rider[atDoor'].node = Dest[p]
      OBVIOUS
    <2>0. Typed /\ LegsKept /\ OnceATick
      BY DEF RideInv
    <2>1. ses'.package[p] # ses.package[p] /\ ses'.package[p].status # ses.package[p].status
      BY DEF Resolved
    <2>2. CASE \/ BeginTick \/ AssignmentDone \/ UnloadDone \/ VehiclesDone
               \/ AdoptionDone \/ RiderTurnsBack \/ RidersDone \/ Commit
      BY <2>1, <2>2 DEF BeginTick, AssignmentDone, UnloadDone, VehiclesDone,
         AdoptionDone, RiderTurnsBack, RidersDone, Commit
    <2>3. ASSUME NEW v \in Vehicle,
                 VehicleStays(v) \/ VehicleDrives(v) \/ VehicleArrives(v)
          PROVE  FALSE
      BY <2>0, <2>1, <2>3, VehicleStepEffect DEF VehicleStays
    <2>4. ASSUME NEW v \in Vehicle, NEW q \in Package, AssignVehicle(v, q)
          PROVE  FALSE
      BY <2>0, <2>1, <2>4, AssignVehicleEffect DEF Resolved
    <2>5. ASSUME NEW q \in Package, AdvancePackage(q) PROVE FALSE
      BY <2>0, <2>1, <2>5, AdvancePackageEffect DEF MovesOn
    <2>6. ASSUME NEW q \in Package, AdoptParcel(q) PROVE FALSE
      BY <2>0, <2>1, <2>6, AdoptParcelEffect DEF MovesOn
    <2>7. ASSUME NEW r \in Rider, RiderRides(r) \/ RiderIsBack(r) PROVE FALSE
      BY <2>0, <2>1, <2>7, RideEffect
    <2>8. ASSUME NEW r \in Rider, RiderAtDoor(r)
          PROVE  /\ atDoor' # None /\ atDoor' = ses.package[p].rider
                 /\ ses'.rider[atDoor'].node = Dest[p]
      <3>1. atDoor' = r /\ leg[r] # None /\ leg[r].phase = "outbound" /\ r # None
        BY <2>0, <2>8, ActorAssumption DEF RiderAtDoor, Riding, Typed, ControlOK
      <3>2. p = leg[r].package
        BY <2>0, <2>1, <2>8, RiderAtDoorEffect
      <3>3. ses.package[p].rider = r /\ leg[r].dest = Dest[p]
        BY <2>0, <3>1, <3>2 DEF LegsKept
      <3>4. ses'.rider[r].node = leg[r].dest
        BY <2>0, <2>1, <2>8, <3>2, <3>3, RiderAtDoorEffect
      <3>. QED
        BY <3>1, <3>3, <3>4
    <2>9. ~ TickFails
      BY <2>0 DEF TickFails, Typed, TypeOK
    <2>10. ~ Restart
      BY <2>0 DEF Restart, SessionLost, OnceATick, Resolved
    <2>. QED
      BY <2>2, <2>3, <2>4, <2>5, <2>6, <2>7, <2>8, <2>9, <2>10 DEF Next, TickStep
  <1>. QED
    BY <1>1, <1>2, InitRide, PTL DEF Spec, ResolvedByItsRider

-----------------------------------------------------------------------------
(***************************************************************************)
(* No rider is kept from work for ever, whatever fails or restarts.        *)
(***************************************************************************)
\* In d, a rider that is ON_DELIVERY has a parcel to deliver.  A leg is no
\* excuse: it is lost at the next restart.
WorkIn(d) ==
    \A r \in Rider :
        d.rider[r].status = "ON_DELIVERY" =>
            \E p \in Package : /\ d.package[p].rider = r
                               /\ d.package[p].status = "OUT_FOR_DELIVERY"

\* Only the attempts, at the end of a tick, take a parcel off its last mile.
StillOut ==
    phase \notin { "riders", "commit" } =>
        \A p \in Package : db.package[p].status = "OUT_FOR_DELIVERY" =>
                               ses.package[p].status = "OUT_FOR_DELIVERY"

\* The orphans being adopted are out for delivery in the database.
OrphansAreOut ==
    phase = "adopt" => \A p \in queue : db.package[p].status = "OUT_FOR_DELIVERY"

WorkInv == Typed /\ WorkIn(db) /\ WorkIn(ses) /\ StillOut /\ OrphansAreOut

LEMMA InitWork == Init => WorkInv
  <1>. SUFFICES ASSUME Init PROVE WorkInv
    OBVIOUS
  <1>1. \A r \in Rider : db.rider[r].status = "AVAILABLE"
    BY DEF Init
  <1>2. ses = db /\ phase = "idle"
    BY DEF Init
  <1>. QED
    BY <1>1, <1>2, InitTyped DEF WorkInv, WorkIn, StillOut, OrphansAreOut

\* A call that moves one parcel on gives its rider work, if it makes one busy.
LEMMA WorkMovesOn ==
    ASSUME WorkIn(ses), Typed, NEW p \in Package, MovesOn(ses, p),
           ses.package[p].status = "OUT_FOR_DELIVERY" =>
               ses'.package[p].status = "OUT_FOR_DELIVERY",
           ses'.rider = ses.rider \/ ses'.package[p].status = "OUT_FOR_DELIVERY"
    PROVE  WorkIn(ses)'
  <1>. SUFFICES ASSUME NEW r \in Rider, ses'.rider[r].status = "ON_DELIVERY"
                PROVE  \E q \in Package : /\ ses'.package[q].rider = r
                                          /\ ses'.package[q].status = "OUT_FOR_DELIVERY"
    BY DEF WorkIn
  <1>1. CASE ses'.rider[r] = ses.rider[r]
    <2>1. PICK q \in Package : /\ ses.package[q].rider = r
                               /\ ses.package[q].status = "OUT_FOR_DELIVERY"
      BY <1>1 DEF WorkIn
    <2>2. r # None
      BY ActorAssumption
    <2>. QED
      BY <2>1, <2>2 DEF MovesOn
  <1>2. CASE ses'.rider[r] # ses.rider[r]
    BY <1>2 DEF MovesOn
  <1>. QED
    BY <1>1, <1>2

LEMMA WorkStep == WorkInv /\ [Next]_vars => WorkInv'
  <1>. SUFFICES ASSUME WorkInv, [Next]_vars PROVE WorkInv'
    OBVIOUS
  <1>0. Typed /\ Typed' /\ WorkIn(db) /\ WorkIn(ses) /\ StillOut /\ OrphansAreOut
    BY TypedStep DEF WorkInv
  <1>1. ASSUME db' = db, ses'.package = ses.package, ses'.rider = ses.rider,
               StillOut', OrphansAreOut'
        PROVE  WorkInv'
    BY <1>0, <1>1 DEF WorkInv, WorkIn
  <1>2. CASE UNCHANGED vars
    BY <1>0, <1>1, <1>2 DEF vars, memory, loop, StillOut, OrphansAreOut
  <1>3. CASE \/ BeginTick \/ AssignmentDone \/ UnloadDone \/ VehiclesDone
             \/ AdoptionDone \/ RidersDone \/ RiderTurnsBack
    <2>1. db' = db /\ ses' = ses
      BY <1>3 DEF BeginTick, AssignmentDone, UnloadDone, VehiclesDone, AdoptionDone,
         RidersDone, RiderTurnsBack
    <2>2. phase' \notin { "riders", "commit" } => phase \notin { "riders", "commit" }
      BY <1>3 DEF BeginTick, AssignmentDone, UnloadDone, VehiclesDone, AdoptionDone,
         RidersDone, RiderTurnsBack
    <2>3. StillOut'
      BY <1>0, <2>1, <2>2 DEF StillOut
    <2>4. OrphansAreOut'
      BY <1>3 DEF BeginTick, AssignmentDone, UnloadDone, VehiclesDone, AdoptionDone,
         RidersDone, RiderTurnsBack, OrphansAreOut, Orphan
    <2>. QED
      BY <1>1, <2>1, <2>3, <2>4
  <1>4. CASE Commit
    <2>1. db' = ses /\ ses' = ses /\ phase' = "idle"
      BY <1>4 DEF Commit
    <2>. QED
      BY <1>0, <2>1 DEF WorkInv, WorkIn, StillOut, OrphansAreOut
  <1>5. ASSUME NEW v \in Vehicle, VehicleStays(v) \/ VehicleDrives(v) \/ VehicleArrives(v)
        PROVE  WorkInv'
    <2>1. db' = db /\ phase = "vehicles" /\ phase' \in { "vehicles", "unload" }
      BY <1>5 DEF VehicleStays, VehicleDrives, VehicleArrives
    <2>2. ses'.package = ses.package /\ ses'.rider = ses.rider
      <3>1. CASE VehicleStays(v)
        BY <3>1 DEF VehicleStays
      <3>2. CASE VehicleDrives(v) \/ VehicleArrives(v)
        BY <1>0, <3>2, VehicleStepEffect
      <3>. QED
        BY <1>5, <3>1, <3>2
    <2>3. StillOut' /\ OrphansAreOut'
      BY <1>0, <2>1, <2>2 DEF StillOut, OrphansAreOut
    <2>. QED
      BY <1>1, <2>1, <2>2, <2>3
  <1>6. ASSUME NEW v \in Vehicle, NEW p \in Package, AssignVehicle(v, p)
        PROVE  WorkInv'
    <2>1. /\ db' = db /\ phase = "assign" /\ phase' = phase
          /\ ses.package[p].status # "OUT_FOR_DELIVERY"
      BY <1>6 DEF AssignVehicle, Pending, Waiting
    <2>2. /\ \A q \in Package \ {p} : ses'.package[q] = ses.package[q]
          /\ ses'.rider = ses.rider
      BY <1>0, <1>6, AssignVehicleEffect
    <2>3. WorkIn(ses)'
      BY <1>0, <2>1, <2>2 DEF WorkIn
    <2>4. StillOut' /\ OrphansAreOut'
      BY <1>0, <2>1, <2>2 DEF StillOut, OrphansAreOut
    <2>. QED
      BY <1>0, <2>1, <2>3, <2>4 DEF WorkInv, WorkIn
  <1>7. ASSUME NEW p \in Package, AdvancePackage(p) PROVE WorkInv'
    <2>1. db' = db /\ phase = "unload" /\ phase' = phase
      BY <1>7 DEF AdvancePackage
    <2>2. CASE ses' = ses /\ UNCHANGED leg
      BY <1>0, <1>1, <2>1, <2>2 DEF StillOut, OrphansAreOut
    <2>3. CASE ~ (ses' = ses /\ UNCHANGED leg)
      <3>1. /\ ses.package[p].status # "OUT_FOR_DELIVERY"
            /\ MovesOn(ses, p)
            /\ ses'.rider = ses.rider \/ ses'.package[p].status = "OUT_FOR_DELIVERY"
        BY <1>0, <1>7, <2>3, AdvancePackageEffect DEF LeavesAlone
      <3>2. WorkIn(ses)'
        BY <1>0, <3>1, WorkMovesOn
      <3>3. StillOut' /\ OrphansAreOut'
        BY <1>0, <2>1, <3>1 DEF StillOut, OrphansAreOut, MovesOn
      <3>. QED
        BY <1>0, <2>1, <3>2, <3>3 DEF WorkInv, WorkIn
    <2>. QED
      BY <2>2, <2>3
  <1>8. ASSUME NEW p \in Package, AdoptParcel(p) PROVE WorkInv'
    <2>1. /\ db' = db /\ phase = "adopt" /\ phase' = phase
          /\ p \in queue /\ queue' = queue \ {p}
      BY <1>8 DEF AdoptParcel
    <2>2. MovesOn(ses, p) /\ ses'.package[p].status = ses.package[p].status
      BY <1>0, <1>8, AdoptParcelEffect
    <2>3. ses.package[p].status = "OUT_FOR_DELIVERY"
      BY <1>0, <2>1 DEF StillOut, OrphansAreOut
    <2>4. WorkIn(ses)'
      BY <1>0, <2>2, <2>3, WorkMovesOn
    <2>5. StillOut' /\ OrphansAreOut'
      BY <1>0, <2>1, <2>2 DEF StillOut, OrphansAreOut, MovesOn
    <2>. QED
      BY <1>0, <2>1, <2>4, <2>5 DEF WorkInv, WorkIn
  <1>9. ASSUME NEW r \in Rider, RiderRides(r) \/ RiderIsBack(r) PROVE WorkInv'
    <2>1. db' = db /\ phase' = "riders"
      BY <1>9 DEF RiderRides, RiderIsBack, Riding
    <2>2. /\ ses'.package = ses.package
          /\ \A q \in Rider \ {r} : ses'.rider[q] = ses.rider[q]
      BY <1>0, <1>9, RideEffect
    <2>3. ses'.rider[r].status \in { ses.rider[r].status, "AVAILABLE" }
      <3>1. ses \in Database /\ r \in Rider
        BY <1>0 DEF Typed, TypeOK
      <3>2. CASE RiderRides(r)
        BY <3>1, <3>2, RiderAtEffect DEF RiderRides
      <3>3. CASE RiderIsBack(r)
        <4>1. leg[r] \in Leg
          BY <1>0, <3>3 DEF RiderIsBack, Riding, Typed, TypeOK, ControlOK
        <4>2. leg[r].dest \in Node \cup {None} /\ "AVAILABLE" \in RiderStatus
          BY <4>1 DEF Leg, RiderStatus
        <4>3. ses' = RiderPut(ses, r, "AVAILABLE", leg[r].dest)
          BY <3>3 DEF RiderIsBack
        <4>. QED
          BY <3>1, <4>2, <4>3, RiderPutEffect
      <3>. QED
        BY <1>9, <3>2, <3>3
    <2>4. WorkIn(ses)'
      BY <1>0, <2>2, <2>3 DEF WorkIn
    <2>. QED
      BY <1>0, <2>1, <2>4 DEF WorkInv, WorkIn, StillOut, OrphansAreOut
  <1>10. ASSUME NEW r \in Rider, RiderAtDoor(r) PROVE WorkInv'
    <2>. DEFINE p == leg[r].package
                carrier == ses.package[p].rider
    <2>1. db' = db /\ phase' = "riders"
      BY <1>10 DEF RiderAtDoor, Riding
    <2>2. /\ p \in Package
          /\ \A q \in Package \ {p} : ses'.package[q] = ses.package[q]
          /\ ses'.package[p].rider = carrier
          /\ \A q \in Rider \ {carrier} : ses'.rider[q].status = ses.rider[q].status
          /\ \/ /\ ses'.package[p].status = ses.package[p].status
                /\ \A q \in Rider : ses'.rider[q].status = ses.rider[q].status
             \/ carrier # None => ses'.rider[carrier].status = "AVAILABLE"
      BY <1>0, <1>10, RiderAtDoorEffect
    <2>. HIDE DEF p
    <2>3. ASSUME NEW q \in Rider, ses'.rider[q].status = "ON_DELIVERY"
          PROVE  \E o \in Package : /\ ses'.package[o].rider = q
                                    /\ ses'.package[o].status = "OUT_FOR_DELIVERY"
      <3>1. q # None
        BY ActorAssumption
      <3>2. ses.rider[q].status = "ON_DELIVERY"
        BY <2>2, <2>3, <3>1
      <3>3. PICK o \in Package : /\ ses.package[o].rider = q
                                 /\ ses.package[o].status = "OUT_FOR_DELIVERY"
        BY <1>0, <3>2 DEF WorkIn
      <3>. QED
        BY <2>2, <2>3, <3>1, <3>3
    <2>4. WorkIn(ses)'
      BY <2>3 DEF WorkIn
    <2>. QED
      BY <1>0, <2>1, <2>4 DEF WorkInv, WorkIn, StillOut, OrphansAreOut
  <1>11. CASE TickFails \/ Restart
    <2>1. db' = db /\ ses' = db /\ phase' = "idle"
      BY <1>11 DEF TickFails, Restart, SessionLost
    <2>. QED
      BY <1>0, <2>1 DEF WorkInv, WorkIn, StillOut, OrphansAreOut
  <1>. QED
    BY <1>2, <1>3, <1>4, <1>5, <1>6, <1>7, <1>8, <1>9, <1>10, <1>11 DEF Next, TickStep

\* Between ticks a rider that is ON_DELIVERY is on a leg or has a parcel out for
\* delivery, whatever ticks raise and however often the process restarts.
THEOREM BusyRidersHaveWork == Spec => []BusyRiderHasWork
  <1>1. WorkInv => BusyRiderHasWork
    BY DEF WorkInv, WorkIn, BusyRiderHasWork
  <1>. QED
    BY <1>1, InitWork, WorkStep, PTL DEF Spec

=============================================================================
