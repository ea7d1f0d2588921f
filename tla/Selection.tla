----------------------------- MODULE Selection ------------------------------
(***************************************************************************)
(* What the operations of two small stores make of their state: the        *)
(* selection of the map (frontend/src/store/useControlTowerStore.ts) and   *)
(* the contextual drawer with its history (data/drawer.ts), and what the   *)
(* drawer asks of the selection (components/drawer/DetailDrawer.tsx).      *)
(*                                                                         *)
(* A vehicle is selected with the row it had, [ id, pos, node ]; nodes,    *)
(* areas and parcels by their names.  setTrackedPackage is never called,   *)
(* so trackedPackage stays null and is left out, with the package path the *)
(* map would draw of it.                                                   *)
(***************************************************************************)
EXTENDS Roads

CONSTANTS
    At,        \* where each node is
    BaseOf,    \* the node each rider is based at
    Areas,     \* the administrative areas by name
    MaxHistory \* the drawer remembers so many entries (10)

ASSUME PlaceAssumption ==
    /\ At \in [ DOMAIN At -> Point ] /\ BaseOf \in [ DOMAIN BaseOf -> DOMAIN At ]
    /\ None \notin DOMAIN At \cup DOMAIN Areas
    /\ \A a \in DOMAIN Areas : Areas[a].id = a /\ Areas[a].bbox \in [ {1, 2} -> Point ]
    /\ MaxHistory \in Nat

NoSelection ==
    [ node |-> None, vehicle |-> None, tracking |-> None, region |-> None, follow |-> FALSE ]

Selected(s) ==
    s.node # None \/ s.vehicle # None \/ s.tracking # None \/ s.region # None

\* The selected area stays while what is picked lies in it; before the outlines
\* of the areas are there, it stays whatever is picked.
RegionAfterPick_Kept(s, outlines, p) == s.region   \* mutant
RegionAfterPick(s, outlines, p) ==
    IF s.region = None \/ ~outlines \/ RegionContains(Areas[s.region], p) THEN s.region ELSE None

SelectNode(s, outlines, n) ==
    [ s EXCEPT !.node = n, !.vehicle = None, !.tracking = None,
               !.region = RegionAfterPick(s, outlines, At[n]) ]

SelectTracking(s, number) ==
    [ s EXCEPT !.tracking = number, !.node = None, !.vehicle = None, !.region = None ]

\* at: its live position, or the one of its row.
SelectVehicle(s, outlines, row, at) ==
    [ node |-> None, vehicle |-> row, tracking |-> None, follow |-> TRUE,
      region |-> RegionAfterPick(s, outlines, at) ]

RefreshVehicle(s, row) ==
    IF s.vehicle # None /\ s.vehicle.id = row.id THEN [ s EXCEPT !.vehicle = row ] ELSE s

SelectRegion(s, region) ==
    [ s EXCEPT !.region = region, !.node = None, !.vehicle = None, !.tracking = None ]

SetFollow(s, on) == [ s EXCEPT !.follow = on ]

----------------------------------------------------------------------------
\* The drawer.

Item(kind, id) == [ kind |-> kind, id |-> id ]

NoDrawer == [ item |-> None, history |-> <<>> ]

LastOf(seq, n) == SubSeq(seq, Most(1, Len(seq) - n + 1), Len(seq))

OpenItem_Unbounded(d, item) ==   \* mutant
    [ item |-> item, history |-> IF d.item = None THEN d.history ELSE Append(d.history, d.item) ]
OpenItem(d, item) ==
    IF d.item = item THEN d
    ELSE [ item |-> item,
           history |-> IF d.item = None THEN d.history
                       ELSE LastOf(Append(d.history, d.item), MaxHistory) ]

BackInDrawer(d) ==
    IF d.history = <<>> THEN [ d EXCEPT !.item = None ]
    ELSE [ item |-> d.history[Len(d.history)],
           history |-> SubSeq(d.history, 1, Len(d.history) - 1) ]

----------------------------------------------------------------------------
\* The map kept in step with what is open: rows and live positions are given.

InStep(s, outlines, item, row, at) ==
    LET toNode(n) == IF s.node = n THEN s ELSE SelectNode(s, outlines, n)
    IN  CASE item = None -> IF Selected(s) THEN NoSelection ELSE s
          [] item # None /\ item.kind \in { "hub", "node", "customer" } -> toNode(item.id)
          [] item # None /\ item.kind = "rider" -> toNode(BaseOf[item.id])
          [] item # None /\ item.kind = "vehicle" ->
                IF s.vehicle # None /\ s.vehicle.id = item.id THEN s
                ELSE SelectVehicle(s, outlines, row[item.id], at[item.id])
          [] item # None /\ item.kind = "shipment" ->
                IF s.tracking = item.id THEN s ELSE SelectTracking(s, item.id)
          [] item # None /\ item.kind = "region" ->
                IF s.region = item.id \/ ~outlines THEN s ELSE SelectRegion(s, item.id)
          [] OTHER -> s
=============================================================================
