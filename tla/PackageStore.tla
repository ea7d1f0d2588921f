---------------------------- MODULE PackageStore ----------------------------
(***************************************************************************)
(* The packages and package_events tables behind the REST API, and the     *)
(* request handlers that read and write them concurrently.                 *)
(*                                                                         *)
(* Every request has a database session of its own.  PATCH                 *)
(* /packages/{id}/status loads the row with a plain SELECT (no lock, no    *)
(* version column), validates the move against the copy it loaded, and     *)
(* commits an UPDATE of the columns it changed together with one INSERT    *)
(* into the event log; it then re-reads the row for its reply.  Between    *)
(* those three awaits other requests run.  GET /tracking reads the row and *)
(* the events in two statements, each with its own snapshot (PostgreSQL's  *)
(* default READ COMMITTED).                                                *)
(*                                                                         *)
(* Source: backend/app/services/package_service.py,                        *)
(* backend/app/api/v1/endpoints/packages.py and tracking.py,               *)
(* backend/app/core/database.py, backend/app/models/package.py, event.py.  *)
(***************************************************************************)
EXTENDS PackageLifecycle, Integers, Sequences

CONSTANTS Package,      \* parcel ids
          Request,      \* handlers that may be running at once
          Column,       \* the optional columns of a PATCH: node, rider, vehicle
          Value,        \* what a PATCH may put there
          Target,       \* the statuses clients ask for
          None,         \* SQL NULL, "not given", "nothing loaded"
          SeedPath,     \* status paths of parcels the seed scripts left behind
          Place,        \* the nodes of each parcel's route, as the scripts see it
          SeedTime,     \* the time the API starts serving
          MaxClock      \* bound: no request stamps an event after this time

Given == [Column -> Value \cup {None}]
Row == [status : PackageStatus, col : Given, delivered : BOOLEAN]
Event == [prev : PackageStatus \cup {None}, new : PackageStatus,
          col : Given, stamp : Nat]
\* What the seed scripts know of a parcel's route: its two ends, the HUB of either
\* city, and the hubs NodeGraph picks for the three stretches; some may be missing.
Route == [source : Value, destination : Value,
          sourceHub : Value \cup {None}, destHub : Value \cup {None},
          originHub : Value \cup {None}, transitHub : Value \cup {None},
          deliveryHub : Value \cup {None}]
Job == [pkg : Package, target : Target, given : Given]
Track == [pkg : Package \cup {None}, status : PackageStatus \cup {None},
          timeline : SUBSET Event, done : BOOLEAN]

(* A seeded parcel has the event log generate_dummy_events.py backfills:   *)
(* it starts at PACKAGE_CREATED, moves along the table, and is past the    *)
(* merchant only if it was picked up on the way.                           *)
ASSUME SeedPathAssumption ==
    /\ SeedPath \subseteq Seq(PackageStatus)
    /\ \A path \in SeedPath :
        /\ path # <<>> => path[1] = "PACKAGE_CREATED"
        /\ \A i \in 2 .. Len(path) : IsValidTransition(path[i - 1], path[i])
        /\ \A i \in 1 .. Len(path) : path[i] \notin BeforePickup =>
                \E j \in 1 .. i : path[j] = "PICKED_UP"

ASSUME SentinelAssumption ==
    /\ None \notin PackageStatus
    /\ None \notin Value
    /\ None \notin Row
    /\ None \notin Package

ASSUME TargetAssumption == Target \subseteq PackageStatus

ASSUME PlaceAssumption == Place \in [Package -> Route]

ASSUME ClockAssumption ==
    /\ SeedTime \in Nat /\ MaxClock \in Nat
    /\ \A path \in SeedPath : Len(path) <= SeedTime

VARIABLES row,          \* packages: the committed row of each parcel, or None
          log,          \* package_events: committed events, in commit order
          clock,        \* datetime.now(): the last time stamp handed out
          pc,           \* where each request handler is
          job,          \* what its client asked for
          seen,         \* the row its session loaded
          event,        \* the event it is about to insert
          mine,         \* position of the event it committed
          reply,        \* what it answered
          track         \* GET /tracking: the reader's two results

vars == <<row, log, clock, pc, job, seen, event, mine, reply, track>>

NothingGiven == [c \in Column |-> None]
NoTrack == [pkg |-> None, status |-> None, timeline |-> {}, done |-> FALSE]

(***************************************************************************)
(* The database the API starts on: empty, or as the seed scripts left it.  *)
(***************************************************************************)
Or(node, other) == IF node # None THEN node ELSE other

\* locate_package: where generate_dummy_packages.py puts a parcel of that status.
LocatePackage(status, route) ==
    CASE IsTerminal(status) -> None
      [] status \in { "PACKAGE_CREATED", "PICKUP_ASSIGNED" } -> route.source
      [] status \in { "PICKED_UP", "ARRIVED_AT_HUB", "SORTING" } ->
            Or(route.originHub, route.source)
      [] status \in { "DISPATCHED", "IN_TRANSIT" } -> Or(route.transitHub, route.source)
      [] OTHER -> Or(route.deliveryHub, route.destination)

\* node_for_step: the node generate_dummy_events.py writes into such an event.
NodeForStep(status, route) ==
    CASE status \in { "PACKAGE_CREATED", "PICKUP_ASSIGNED", "PICKED_UP" } -> route.source
      [] status \in { "ARRIVED_AT_HUB", "SORTING", "DISPATCHED" } ->
            Or(route.sourceHub, route.source)
      [] status \in { "ARRIVED_AT_DESTINATION_HUB", "OUT_FOR_DELIVERY" } ->
            Or(route.destHub, route.destination)
      [] status = "DELIVERED" -> route.destination
      [] status = "IN_TRANSIT" -> None
      [] OTHER -> Or(route.destHub, route.sourceHub)

\* Every backfilled event names the node of its step, and the rider and vehicle
\* the row has at the time.
SeedLog(p, path, assigned) ==
    [i \in 1 .. Len(path) |->
        [prev |-> IF i = 1 THEN None ELSE path[i - 1],
         new |-> path[i], stamp |-> i,
         col |-> [c \in Column |-> IF c = "node" THEN NodeForStep(path[i], Place[p])
                                  ELSE assigned[c]]]]

SeedRow(p, path, assigned) ==
    IF path = <<>> THEN None
    ELSE LET last == path[Len(path)] IN
         [status |-> last, delivered |-> last = "DELIVERED",
          col |-> [c \in Column |-> IF c = "node" THEN LocatePackage(last, Place[p])
                                   ELSE assigned[c]]]

Init ==
    /\ \E path \in [Package -> SeedPath], assigned \in [Package -> Given] :
        /\ row = [p \in Package |-> SeedRow(p, path[p], assigned[p])]
        /\ log = [p \in Package |-> SeedLog(p, path[p], assigned[p])]
    /\ clock = SeedTime
    /\ pc = [r \in Request |-> "idle"]
    /\ job = [r \in Request |-> None]
    /\ seen = [r \in Request |-> None]
    /\ event = [r \in Request |-> None]
    /\ mine = [r \in Request |-> 0]
    /\ reply = [r \in Request |-> None]
    /\ track = NoTrack

(***************************************************************************)
(* POST /packages: create_package.  The row and its first event are one    *)
(* transaction, and nobody can name the parcel before it commits.  The     *)
(* source node goes into the event, not into the row.                      *)
(***************************************************************************)
CreatePackage(p, source) ==
    /\ row[p] = None
    /\ clock < MaxClock
    /\ clock' = clock + 1
    /\ row' = [row EXCEPT ![p] = [status |-> "PACKAGE_CREATED",
                                 col |-> NothingGiven, delivered |-> FALSE]]
    /\ log' = [log EXCEPT ![p] = Append(@,
            [prev |-> None, new |-> "PACKAGE_CREATED", stamp |-> clock',
             col |-> [c \in Column |-> IF c = "node" THEN source ELSE None]])]
    /\ UNCHANGED <<pc, job, seen, event, mine, reply, track>>

(***************************************************************************)
(* PATCH /packages/{id}/status, one action per database round trip.        *)
(***************************************************************************)
\* A handler with nothing in flight: its previous request, if any, is over.
Free(r) == pc[r] \in {"idle", "replied"}

Finish(r, answer) ==
    /\ pc' = [pc EXCEPT ![r] = "replied"]
    /\ job' = [job EXCEPT ![r] = None]
    /\ seen' = [seen EXCEPT ![r] = None]
    /\ event' = [event EXCEPT ![r] = None]
    /\ reply' = [reply EXCEPT ![r] = answer]

\* db.get: a parcel that is not there is a 404.
Load(r, p, target, given) ==
    /\ Free(r)
    /\ IF row[p] = None
       THEN Finish(r, "404") /\ mine' = [mine EXCEPT ![r] = 0]
       ELSE /\ pc' = [pc EXCEPT ![r] = "loaded"]
            /\ job' = [job EXCEPT ![r] = [pkg |-> p, target |-> target, given |-> given]]
            /\ seen' = [seen EXCEPT ![r] = row[p]]
            /\ mine' = [mine EXCEPT ![r] = 0]
            /\ reply' = [reply EXCEPT ![r] = None]
            /\ event' = [event EXCEPT ![r] = None]
    /\ UNCHANGED <<row, log, clock, track>>

\* Mutants: the move is not validated; previous is read after the new status
\* is set.
Apply_Unchecked(r) ==
    /\ pc[r] = "loaded"
    /\ clock < MaxClock
    /\ clock' = clock + 1
    /\ pc' = [pc EXCEPT ![r] = "pending"]
    /\ event' = [event EXCEPT ![r] =
            [prev |-> seen[r].status, new |-> job[r].target,
             col |-> job[r].given, stamp |-> clock']]
    /\ UNCHANGED <<row, log, job, seen, mine, reply, track>>
Apply_PreviousAfter(r) ==
    /\ pc[r] = "loaded"
    /\ IsValidTransition(seen[r].status, job[r].target)
    /\ clock < MaxClock
    /\ clock' = clock + 1
    /\ pc' = [pc EXCEPT ![r] = "pending"]
    /\ event' = [event EXCEPT ![r] =
            [prev |-> job[r].target, new |-> job[r].target,
             col |-> job[r].given, stamp |-> clock']]
    /\ UNCHANGED <<row, log, job, seen, mine, reply, track>>

\* assert_valid_transition on the loaded copy, and the event it leads to.
Apply(r) ==
    /\ pc[r] = "loaded"
    /\ IsValidTransition(seen[r].status, job[r].target)
    /\ clock < MaxClock
    /\ clock' = clock + 1
    /\ pc' = [pc EXCEPT ![r] = "pending"]
    /\ event' = [event EXCEPT ![r] =
            [prev |-> seen[r].status, new |-> job[r].target,
             col |-> job[r].given, stamp |-> clock']]
    /\ UNCHANGED <<row, log, job, seen, mine, reply, track>>

\* Mutant: the 400 the frontend's comments expect.
Reject_As400(r) ==
    /\ pc[r] = "loaded"
    /\ ~ IsValidTransition(seen[r].status, job[r].target)
    /\ Finish(r, "400")
    /\ UNCHANGED <<row, log, clock, mine, track>>

\* InvalidTransitionError becomes a 409.
Reject(r) ==
    /\ pc[r] = "loaded"
    /\ ~ IsValidTransition(seen[r].status, job[r].target)
    /\ Finish(r, "409")
    /\ UNCHANGED <<row, log, clock, mine, track>>

\* Mutant: what is not given is set to NULL.
Written_Blanks(old, loaded, e) ==
    [status |-> e.new, col |-> e.col, delivered |-> old.delivered \/ e.new = "DELIVERED"]

\* The UPDATE names only the columns whose value differs from the loaded one.
Written(old, loaded, e) ==
    [status |-> e.new,
     col |-> [c \in Column |->
                IF e.col[c] # None /\ e.col[c] # loaded.col[c] THEN e.col[c]
                ELSE old.col[c]],
     delivered |-> old.delivered \/ e.new = "DELIVERED"]

Commit(r) ==
    /\ pc[r] = "pending"
    /\ LET p == job[r].pkg IN
        /\ row' = [row EXCEPT ![p] = Written(@, seen[r], event[r])]
        /\ log' = [log EXCEPT ![p] = Append(@, event[r])]
        /\ mine' = [mine EXCEPT ![r] = Len(log[p]) + 1]
    /\ pc' = [pc EXCEPT ![r] = "committed"]
    /\ UNCHANGED <<clock, job, seen, event, reply, track>>

\* Mutant: the reply is built from the copy loaded before the commit.
Refresh_Stale(r) ==
    /\ pc[r] = "committed"
    /\ pc' = [pc EXCEPT ![r] = "replied"]
    /\ reply' = [reply EXCEPT ![r] = seen[r].status]
    /\ UNCHANGED <<row, log, clock, job, seen, event, mine, track>>

\* db.refresh re-reads the row, and that is what the client is sent.
Refresh(r) ==
    /\ pc[r] = "committed"
    /\ pc' = [pc EXCEPT ![r] = "replied"]
    /\ reply' = [reply EXCEPT ![r] = row[job[r].pkg].status]
    /\ UNCHANGED <<row, log, clock, job, seen, event, mine, track>>

\* Any of the three awaits raises: get_db rolls back what is uncommitted.
Fail(r) ==
    /\ pc[r] \in {"loaded", "pending", "committed"}
    /\ Finish(r, "500")
    /\ UNCHANGED <<row, log, clock, mine, track>>

(***************************************************************************)
(* GET /tracking/{tracking_number}.                                        *)
(***************************************************************************)
TrackRow(p) ==
    /\ track.pkg = None \/ track.done
    /\ row[p] # None
    /\ track' = [pkg |-> p, status |-> row[p].status, timeline |-> {}, done |-> FALSE]
    /\ UNCHANGED <<row, log, clock, pc, job, seen, event, mine, reply>>

\* Mutant: the last event is cut off.
TrackEvents_ButLast ==
    /\ track.pkg # None /\ ~ track.done
    /\ track' = [track EXCEPT !.done = TRUE,
            !.timeline = { log[track.pkg][i] : i \in 1 .. (Len(log[track.pkg]) - 1) }]
    /\ UNCHANGED <<row, log, clock, pc, job, seen, event, mine, reply>>

TrackEvents ==
    /\ track.pkg # None /\ ~ track.done
    /\ track' = [track EXCEPT !.done = TRUE,
            !.timeline = { log[track.pkg][i] : i \in 1 .. Len(log[track.pkg]) }]
    /\ UNCHANGED <<row, log, clock, pc, job, seen, event, mine, reply>>

Next ==
    \/ \E p \in Package, source \in Value : CreatePackage(p, source)
    \/ \E r \in Request :
        \/ \E p \in Package, target \in Target, given \in Given :
                Load(r, p, target, given)
        \/ Apply(r) \/ Reject(r) \/ Commit(r) \/ Refresh(r) \/ Fail(r)
    \/ \E p \in Package : TrackRow(p)
    \/ TrackEvents

Spec == Init /\ [][Next]_vars

-----------------------------------------------------------------------------
(***************************************************************************)
(* Properties.                                                             *)
(***************************************************************************)
Code == {"404", "409", "500"}

\* Every variable holds what the code can put there (one type invariant for
\* the rows, the log, the handlers of packages.py and the tracking reader).
TypeOK ==
    /\ row \in [Package -> Row \cup {None}]
    /\ log \in [Package -> Seq(Event)]
    /\ clock \in Nat
    /\ pc \in [Request -> {"idle", "loaded", "pending", "committed", "replied"}]
    /\ job \in [Request -> Job \cup {None}]
    /\ seen \in [Request -> Row \cup {None}]
    /\ event \in [Request -> Event \cup {None}]
    /\ mine \in [Request -> Nat]
    /\ reply \in [Request -> PackageStatus \cup Code \cup {None}]
    /\ track \in Track

\* However requests interleave, every event but a parcel's first names as its
\* previous status one the parcel really had: the new status of an event
\* committed before it and stamped before it, from which the table allows the
\* move.  So neither the commit order nor the timeline of GET /tracking, which
\* sorts by time stamp, ever shows an effect before its cause
\* (transition_status reads the clock after it loaded the row).
Grounded ==
    \A p \in Package : \A i \in 1 .. Len(log[p]) :
        LET e == log[p][i] IN
        IF i = 1 THEN e.prev = None /\ e.new = "PACKAGE_CREATED"
        ELSE /\ IsValidTransition(e.prev, e.new)
             /\ \E j \in 1 .. (i - 1) :
                    log[p][j].new = e.prev /\ log[p][j].stamp < e.stamp

\* Whatever the clients send and however their requests race, no parcel is
\* recorded past the merchant (at a hub, out for delivery, delivered, lost)
\* unless PICKED_UP was committed before.
PickedUpBeforeMoved ==
    \A p \in Package : \A i \in 1 .. Len(log[p]) :
        log[p][i].new \notin BeforePickup =>
            \E j \in 1 .. i : log[p][j].new = "PICKED_UP"

\* The status in a tracking reply appears in the timeline of the same reply,
\* although the two are read by two statements between which any request may
\* commit (track_package reads the row first).
TrackedStatusInTimeline ==
    track.done => \E e \in track.timeline : e.new = track.status

\* A PATCH that succeeds answers with the status it set or one committed after
\* it, never with an older one, although the row is re-read after the commit
\* and other requests may have committed in between.
ReadYourWrites ==
    \A r \in Request :
        pc[r] = "replied" /\ reply[r] \in PackageStatus =>
            /\ log[job[r].pkg][mine[r]] = event[r]
            /\ \E i \in mine[r] .. Len(log[job[r].pkg]) :
                    log[job[r].pkg][i].new = reply[r]

\* A parcel carries a delivery time exactly when it is DELIVERED.
DeliveredAtMeansDelivered ==
    \A p \in Package :
        row[p] # None => (row[p].delivered <=> row[p].status = "DELIVERED")

\* The places of p's log that were there before the API began.
Seeded(p) == { i \in 1 .. Len(log[p]) : log[p][i].stamp <= SeedTime }

LastSeeded(p) == CHOOSE i \in Seeded(p) : i + 1 \notin Seeded(p)

\* What the columns of a parcel were before any PATCH: NULL if the API created
\* it; else where locate_package puts its seeded status, and the rider and vehicle
\* its backfilled events name.
InitialColumn(p, c) ==
    IF Seeded(p) = {} THEN None
    ELSE IF c # "node" THEN log[p][1].col[c]
    ELSE LocatePackage(log[p][LastSeeded(p)].new, Place[p])

\* The node, rider and vehicle of a row are those of the last PATCH event that
\* gave one, and what they were initially when none did: a PATCH that does not
\* name a column leaves it alone, and the log, with the placement rule for what
\* was seeded, is enough to rebuild the assignment.
ColumnsFollowLog ==
    \A p \in Package, c \in Column : row[p] # None =>
        LET Giving == { i \in 1 .. Len(log[p]) :
                /\ log[p][i].stamp > SeedTime
                /\ log[p][i].prev # None /\ log[p][i].col[c] # None }
        IN IF Giving = {} THEN row[p].col[c] = InitialColumn(p, c)
           ELSE \E i \in Giving : /\ \A j \in Giving : j <= i
                                  /\ row[p].col[c] = log[p][i].col[c]

\* With no request in flight, the last step of a parcel's timeline (greatest
\* time stamp) is the status of its row.
TimelineEndsAtStatus ==
    (\A r \in Request : Free(r)) =>
        \A p \in Package : row[p] # None =>
            \E i \in 1 .. Len(log[p]) :
                /\ log[p][i].new = row[p].status
                /\ \A j \in 1 .. Len(log[p]) : log[p][j].stamp <= log[p][i].stamp

\* The row of a parcel changes status only along the table.
RowMovesLegally ==
    [][\A p \in Package :
        row[p] # None /\ row'[p].status # row[p].status =>
            IsValidTransition(row[p].status, row'[p].status)]_row

(***************************************************************************)
(* The promise of ParcelJourney: the status is the row's, the journey is   *)
(* the log's in commit order.                                              *)
(***************************************************************************)
StatusOf(r) == IF r = None THEN None ELSE r.status

Journey == INSTANCE ParcelJourney WITH
    Absent <- None,
    status <- [p \in Package |-> StatusOf(row[p])],
    journey <- [p \in Package |-> [i \in 1 .. Len(log[p]) |-> log[p][i].new]]

\* The store keeps the promise of ParcelJourney (checked for requests that do
\* not overlap; the code takes no lock to make them so).
ImplementsJourney == Journey!Spec

\* One request at a time, the row says what the log ends with: its columns,
\* its delivery time and its status (package_service.py:86-116).
RowFollowsLog == ColumnsFollowLog /\ DeliveredAtMeansDelivered /\ TimelineEndsAtStatus

=============================================================================
