# Neervibe in TLA+

Neervibe is a logistics control tower: a FastAPI service over Postgres keeps
parcels and their events, a simulation engine moves vehicles, riders and parcels
through a hub network, Redis and WebSockets carry what changes to a browser, and
a Next.js application shows it and lets operators act on it.

This directory holds TLA+ models of the parts that decide what happens to a
parcel and of those that decide what an operator sees of it, the TLC
configurations that check them on small instances, and TLAPS proofs of the
results that should hold for every instance.

    tlc -workers 2 -config store_races.cfg MCPackageStore.tla
    tlc -workers 2 -config dispatch_live.cfg MCDispatch.tla
    tlc -workers 2 -config snapshot.cfg MCDataStore.tla
    tlapm DataStoreProofs.tla

Paths below are relative to the repository root.

## 1. Inventory

| Component | State it keeps | Operations | Talks to |
|---|---|---|---|
| Package state machine (`backend/app/models/enums.py`, `state_machine/`) | none: a table | is a move legal, is a status final, what may follow | used by the service, the engine and the browser |
| Package service and handlers (`services/package_service.py`, `api/v1/endpoints/packages.py`) | `packages`, `package_events` | create, PATCH status, list, timeline | Postgres, one session per request |
| Public tracking (`api/v1/endpoints/tracking.py`) | none | two reads | Postgres |
| Seed history (`scripts/generate_dummy_*.py`) | the first rows and events | backfill a history for a status | Postgres, before the service runs |
| Engine: dispatch, line haul, last mile (`simulator/engine.py`) | rows of packages, riders, vehicles, attempts; in memory the riders' legs and vehicles' trips | one tick: assign vehicles, move vehicles and advance their parcels, adopt orphans, move riders and resolve doorsteps | Postgres (one session per tick), Redis |
| Engine: node loads, congestion (`simulator/engine.py`) | `logistics_nodes.current_load`, `congestion_level`, and a copy in memory | recount, publish | Postgres, Redis |
| Live relay (`websockets/manager.py`, `redis_relay.py`, `hooks/useLiveChannel.ts`) | the set of connections per channel, the subscription, the client's retry timer | connect, disconnect, broadcast, resubscribe, reconnect | Redis, browsers |
| Frontend data store (`frontend/src/data/store.ts`, `actions.ts`, `provider.tsx`) | a snapshot, its flags and indexes, the cache in sessionStorage | load, refresh, apply a live event, patch a package, derive | the API, the live hook |
| Filters and URL (`data/filters.ts`, `FilterUrlSync.tsx`) | bar and cross filters, the query string | combine, parse, write, save a view | the data store, the router |
| Selection and drawer (`store/useControlTowerStore.ts`, `data/drawer.ts`, `DetailDrawer.tsx`) | what is selected on the map, what is open, the way back | select, open, back, close, keep in step | the map, every page |
| Live map (`components/map/MapView.tsx`, `roads.ts`, `geo.ts`) | refs of the mounted map: markers in flight, matched road, camera, flights under way | its effects, the feed, the user's hand | selection, live feed, routing |
| Operations store (`data/ops.ts`, `config/roles.ts`) | role, name, workflow of exceptions, audit log, in localStorage | patch a workflow, note, log, switch role | the pages that act |
| Pages that act (`app/exceptions`, `app/shipments`, `app/dispatch`, `drawer/`, `ui/DataTable.tsx`) | table, selection, handlers awaiting | bulk actions, assign, auto-assign | operations store, data store, API |
| Derivations and analytics (`data/derive.ts`, `config/finance.ts`, the pages) | none | SLA state, risk, hubs, riders, money, series, exceptions | the snapshot |
| Assistants (`ai/*.ts`, `data/forecast.ts`) | none | route a question, simulate, detect, recommend, forecast, brief | the derivations |
| Placement, road geometry in the backend (`services/placement.py`, `road_geometry.py`) | a cache of roads | where a parcel is drawn | the API |
| Route proxy (`app/api/route/route.ts`) | a bounded cache | a road between two points, with a fallback | an external router |
| Order, node, vehicle, rider endpoints | their tables | single-statement reads and writes | Postgres |
| ETA model, schema, seeding | | | |

What makes it hard:

* **Concurrency.** Requests run as coroutines that interleave at every database
  call, each in a session of its own at Postgres' default isolation, with no row
  lock and no version column. The engine is another process that writes the same
  rows. In the browser, fetches, live messages, PATCH answers, timers and the
  user race for one snapshot, and handlers that await go on with what they read.
* **Two kinds of memory.** The engine's rows are rolled back when a tick raises,
  its legs and trips are not; a restart loses the legs and trips and keeps the
  rows. A tab keeps its snapshot in sessionStorage and its operations in
  localStorage, which other tabs overwrite.
* **Delivery.** Redis publications are fire-and-forget, and are sent before the
  transaction they speak of commits. The relay and the browser reconnect after
  a pause and nothing is sent again.
* **Order.** Events are stamped by one clock and committed in another order;
  "the first of the next statuses" is the first element of a hash set; React runs
  effects in the order they are written, on the values of a render, while the
  router replaces one navigation by the next.
* **Thresholds.** Late, at risk and on track are told apart in a dozen places.

What would make each part correct, whether or not it is modelled:

* *Store:* a status changes only along the table; every event has a cause before
  it; a row and its event are written together; an answer is not older than the
  request's own write; a tracking reply agrees with itself.
* *Engine:* a parcel in the last mile is its rider's and is resolved; attempts
  are counted exactly once; riders are neither lent twice nor lost; parcels reach
  the last mile, in the right city.
* *Node loads:* the published load is the committed one.
* *Live relay:* a connected client hears its channel in order unless something is
  lost on the way; it comes back after every loss.
* *Data store:* nothing is shown that was never so; figures follow the snapshot;
  "stale" and "still arriving" mean it; the tab converges to the server.
* *Filters:* bar and cross filters are both respected; store and URL agree.
* *Map:* what is drawn is what is selected and where it is; markers do not jump;
  the camera obeys the user first.
* *Operations:* what is done is logged and what is logged was done; a bulk action
  touches what it counts; the four lists of exceptions agree.
* *Analytics:* the same figure is the same on every page; totals are split without
  loss; lateness is never forgiven.

## 2. The modules

| Module | Models | Built from |
|---|---|---|
| `PackageLifecycle` | the statuses and the transition table | `enums.py`, `package_state_machine.py` |
| `ParcelJourney` | the abstract promise of the store: a status that follows the table, and a journey that records it | |
| `PackageStore` | create, PATCH step by step between awaits, tracking; the rows and logs it starts on | `package_service.py`, `packages.py`, `tracking.py`, `database.py`, `generate_dummy_*.py`, `placement.py` |
| `SeedHistory` | the histories a database may start with | `generate_dummy_events.py` |
| `Dispatch` | the engine's tick, rollback and restart | `engine.py` |
| `LossyFeed` | the abstract promise of a live channel | |
| `LiveRelay` | a channel from Redis to its clients' hooks | `redis_relay.py`, `manager.py`, `routes.py`, `useLiveChannel.ts` |
| `DataStore` | one tab's snapshot, with the server as far as it can tell | `store.ts`, `actions.ts`, `provider.tsx`, `LiveDataProvider.tsx` |
| `Filters`, `FilterSync` | the filters' operations; their binding to the URL | `filters.ts`, `hooks.ts`, `FilterUrlSync.tsx` |
| `Roads`, `Selection`, `MapView` | geometry; the selection and the drawer; the mounted map | `roads.ts`, `geo.ts`, `useControlTowerStore.ts`, `drawer.ts`, `DetailDrawer.tsx`, `MapView.tsx` |
| `OpsStore`, `DataTable`, `Desk` | the operator's store; the table; the pages that act, in two tabs | `ops.ts`, `roles.ts`, `DataTable.tsx`, `exceptions/page.tsx`, `shipments/page.tsx`, `dispatch/page.tsx`, the drawers |
| `Analytics`, `Dashboards`, `Exceptions` | the derivation layer | `derive.ts`, `finance.ts` |
| `Assist`, `Copilot` | the assistants | `ai/*.ts`, `forecast.ts` |
| `Pages` | the figures of the pages | `pages/common.tsx`, `app/*/page.tsx` |
| `ShipmentHistory` | the snapshots the three rows above are evaluated on | `package_service.py`, `engine.py` |
| `MC...` | instances | |
| `PackageStoreProofs`, `DispatchProofs`, `DataStoreProofs`, `LiveRelayProofs`, `FilterSyncProofs`, `DeskProofs`, `MapViewProofs`, `ShipmentHistoryProofs` | theorems about the module of that name | |

`PROJECT.json` maps each definition to the lines it stands for. The modules
compose by EXTENDS: every one that moves a parcel shares `PackageLifecycle`,
`FilterSync` and `Pages` share `Filters`, which reads the shipments of
`Analytics`; `MapView` is `Selection` over `Roads`; `Desk` is `OpsStore` and
`DataTable` with the pages. `DataStore` takes of the relay what `LossyFeed`
promises: messages in order, any of them missing.

### PackageStore

A handler of `PATCH /packages/{id}/status` goes through `idle`, `loaded`,
`pending`, `committed`, `replied`; each of its actions is what happens between
two awaits, so that any other handler may run in between:

| Action | Code |
|---|---|
| `Load` | `db.get` in the handler, with its 404 |
| `Apply`, `Reject` | `assert_valid_transition` on the loaded object; the event is built and stamped, or the 409 raised |
| `Commit` | flush and commit: the UPDATE names the columns that differ from those loaded (`Written`), the event is inserted |
| `Refresh` | `db.refresh` and the answer |
| `Fail` | an await raises, `get_db` rolls back; after the commit there is nothing left to roll back |
| `CreatePackage` | `create_package`, atomic since the parcel has no name before it commits |
| `TrackRow`, `TrackEvents` | the two statements of `GET /tracking` |

`row` and `log` are the committed tables; `log` is in commit order and each event
carries its time stamp, which is another order. The three optional columns of a
PATCH (node, rider, vehicle) are treated alike, as a function over `Column`.
Seeded rows and events have them too, and they do not agree: a row stands where
`locate_package` puts its status (`LocatePackage`, a delivery hub for what is out
for delivery), each event names the node of its step (`NodeForStep`, the HUB of the
city), and events repeat the rider and vehicle that the row has when they are
backfilled. `Place` gives the nodes both choose from, any of which a city may lack.
So what a row's columns follow is the PATCHes, from the value the row began with
(`ColumnsFollowLog`). Time stamps come from a logical clock
that moves on with each reading. The seed scripts' random jitter never reorders
a history (at most 13 steps, each moved by 0.03 of the span at most, and half
the spacing of two steps is more), so a seeded event is stamped by its position.

### Dispatch

`db` is what is committed, `ses` what the tick's session holds. The split is
essential: the session does not autoflush, so queries *filter* on `db` and
*return* objects of `ses`. `leg` and `trip` are `rider_runtime` and
`vehicle_runtime`. `phase`, `todo`, `truck`, `queue` and `atDoor` say where in
`tick()` the engine is; every iteration of its loops is a step, because every
iteration awaits a publication or a query, where the tick may raise
(`TickFails`: session gone, memory kept) or the process be stopped (`Restart`:
memory gone, rows kept, and a new hash seed).

| Actions | Code |
|---|---|
| `BeginTick`, `AssignVehicle`, `AssignmentDone` | `assign_idle_vehicles_to_packages` |
| `VehicleStays`, `VehicleDrives`, `VehicleArrives`, `AdvancePackage`, `UnloadDone` | `move_vehicles`, `advance_packages_at_node` |
| `VehiclesDone`, `AdoptParcel`, `AdoptionDone` | `adopt_orphaned_deliveries`, every few ticks |
| `RiderRides`, `RiderAtDoor`, `RiderTurnsBack`, `RiderIsBack`, `RidersDone` | `move_riders`, `resolve_doorstep` |
| `TransitionPackage`, `AssignRider`, `RecordDeliveryAttempt`, `StartRiderLeg` | the methods of those names, as operators that constrain `ses'` and `leg'` |
| `Commit`, `TickFails`, `Restart` | the end of `tick`, the handler in `run`, the constructor |

Abstractions: progress along a road, a float that grows by a share of the road
each tick, is the number of ticks left, chosen when the ride starts. Coordinates,
congestion, node loads, time stamps, event rows and publications are left out.
The number of queried parcels (`limit(len(idle) * 2)`) does not matter, as one
vehicle takes one parcel. No code deletes a rider or a node, so the branches for
a rider or node that is gone are not there. Vehicles exist from the start
(`ensure_vehicles` creates missing ones before the first tick). Seeded attempts
are empty.

### LiveRelay

| Actions | Code |
|---|---|
| `Publish` | the engine's `publish`: Redis keeps a message for subscribers only |
| `Subscribe`, `BroadcastRaises` | `_relay_forever`: subscribe, and after an exception sleep and do so again |
| `StartBroadcast`, `Send`, `EndBroadcast` | `broadcast`: one await for each member of the live set, then the dead are dropped |
| `Admit`, `Discard` | `manager.connect` after the handshake, `disconnect` |
| `Connect`, `OnOpen`, `OnMessage`, `OnClose`, `Unmount` | the hook |

Python's set iterator raises when the *size* differs from the one it started
with, so the size is in the state: one client leaving and another joining between
two sends goes unnoticed. The iterator then goes on over the slots of a hash table
that the newcomer was put into, before it or behind it, and that may have been
resized for him: `Admit` leaves any of the members ahead of it, so that one may be
passed over and another sent the message twice. A client that leaves is only no
longer ahead. A socket is a client and a number; the broadcast's
order over the set is any order.

### DataStore

`row`, `log`, `tick` and `published` are the server: committed rows and events,
the engine's transaction in flight, and what it announced before committing.
`packages`, `events`, `derived` and `tab` (status, stale, partial, refreshing,
timer) are the tab; `cache` outlives a `Reload`; `loading`, `refresh` and `patch`
are answers on their way.

| Actions | Code |
|---|---|
| `LoadFromCache`, `LoadAfresh`, `LoadReadsPage`, `CoreLoaded`, `LoadReadsEvents`, `HistoryLoaded`, `LoadFails` | `load()`: paint the cache, fetch the core, open, fetch the history, cache it, arm the timer |
| `Refresh`, `RefreshReadsPage`, `RefreshReadsEvents`, `Refreshed`, `RefreshFails` | `refresh()` |
| `Receive` | `applyPackageEvent` on a live message |
| `PatchShipment`, `PatchAccepted`, `PatchFails`, `PatchAnswered` | `transitionShipment` and `patchPackage` |
| `EnginePublish`, `EngineCommit`, `EngineRollback`, `PatchElsewhere` | the engine's and other tabs' writes |

Parcels and events stand for all the lists: the others are replaced at the same
places. An answer is read parcel by parcel, as a list of several pages is, and
writes may come in between.

### Filters and FilterSync

`filters` and `cross` are the store; `shown` is the location of the rendered
page, `pending` the navigation under way, `entries` and `index` the browser's
history. `due` says which of the two effects (`SyncFromUrl`, `SyncToUrl`) have
yet to run after a render, `lastApplied` is the ref they share. A user's action
waits until the effects have run, which is React's rule, and not until a
navigation has arrived, which is the hazard. `overtaken`, `asked` and
`crossPages` record history for the properties.

### MapView

All refs of the mounted map are one record, `view`, lost with the map. Effects of
a render (`MapEffects`: the operators `WhenData` to `WhenAim`, one per effect, in
the order of the code; then `DrawerEffect`) run together when what they depend on
has changed; feed, poll, snapshot and route answers come in between; `Advance`
moves the clock and lets glides run. A flight ends at its own time, where the
clock stops for its landing, or when a drag, the wheel or the Home button takes
the camera; that a flight begun by an *effect* cuts an old one short, with a
moveend on the way, is left out. The map's handlers run once it has loaded.
Durations (`IntroMs`, `FocusMs`, `RegionMs`, `HomeMs`, `GraceMs`) are constants.
`Roads` is exact: the earth is a grid, roads run along its axes, so projecting a
point on a segment is a clamp.

### Desk

`ops[t]` is the whole store of tab `t`, saved whole to `stored` on each change.
`rows` is the snapshot's copy of the parcels, `server` the truth; `EngineMoves`,
`LiveEvent` and `RefreshRows` are the ways they drift apart and meet. `jobs` are
the handlers that await: each has the parcels it still has to do and what it read
when it began. A PATCH is two steps, `TakesPatch` where the server accepts it and
`TransitionShipment` where its answer has come: the snapshot is patched and the
entry logged. In between the tab may be reloaded, which forgets the handler, or the
answer lost (`CallFails`); a refusal is one step (`PassesOver`), since nothing is
left of it. `raised` is the list of exceptions in force, which conditions enter and
leave; `shows` (type, priority, workflow) and `area` (cities and divisions, of the
portal's filter bar) are what the queue is filtered by. Three variables record
history: `accepted`, what the server accepted of this tab; `held`, whether the other
tab has loaded what this one saved or saved its own over it; and `excused`, the
changes whose answer was lost or abandoned or, once this tab is reloaded, those
another has saved over.

### Analytics, Dashboards, Exceptions, Assist, Copilot, Pages

Pure operators of a snapshot, named as in the code. Time is in whole hours,
money in hundredths, a share is a pair of part and total, a standard deviation
is compared by its square; ids and wording are left out. A snapshot carries what
`Derive` makes of it, as `derive()` does: the parcels first, then the hubs and
riders that count them, then the exceptions. `PageData` is what the filters leave of
the parcels, `CommandCenter` what that page makes of them: its tiles and brief are of
the parcels created in its window, its list of exceptions is not (`app/page.tsx:39`,
`:44`, `:47`). `ShipmentHistory` produces the
snapshots: parcels move along the table while hours pass, with the columns,
events and attempts that the backend writes. Its properties are evaluated in
every state, the action properties over every step.

A definition with a suffix and the comment *mutant* (`Written_Blanks`) is not
used by the specification. It is what the definition would be with a plausible
bug in it, kept to show that a property notices: `PROJECT.json` pairs every
property of a passing run with one.

## 3. What TLC shows

### Runs that pass

| Run | Question | Instance | Size |
|---|---|---|---|
| `store_races` | what holds without a lock | 1 parcel, 2 requests, tracking, seeded at each stretch where the table branches, 4 clock readings after the seed | 1.26 M states, 90 s |
| `store_serial` | what holds one request at a time | 1 parcel, 1 request, every status as target, every seeded history with its nodes, one column (the node) with three values | 382 k, 50 s |
| `dispatch_restart` | whose the last mile is | 2 parcels, 2 riders, 1 truck, rides of 1 or 2 ticks, a restart at any await | 1.95 M, 35 s |
| `dispatch_crashes` | do attempts and riders recover | 2 parcels, 1 rider, 1 truck, one tick that raises and one restart, in either order | 360 k, 10 s |
| `dispatch_live` | do parcels get delivered | 2 parcels, 1 rider, 2 trucks (one at a dead end), nothing fails, the hash order leads on to the destination hub | 14 k, 5 s |
| `relay` | what a channel promises | 2 clients, 2 messages, 2 sockets each | 244 k, 160 s |
| `snapshot` | what a tab shows, and whether it converges | 1 parcel, 3 writes, one failed request or lost message, one reload | 755 k, 2 min |
| `filters` | do filters, page and address agree | 2 pages, 2 picks, 4 links, 2 presets, 1 date and 1 search, 4 acts of the user, 3 entries of history, 1 saved view | 2.17 M, 1 min |
| `map` | does the map show what is selected | 1 truck that strays and turns, 1 rider who drives to a door and turns back, 3 nodes, 2 corridors, 2 areas, budgets below | 438 k, 75 s |
| `desk` | are the pages' writes right and accounted for | 2 tabs, 3 exceptions, 3 parcels, one of them in a city without riders, 3 riders, 3 roles, filters and budgets below | 675 k, 2 min |
| `analytics` | do figures agree | 3 parcels, one delivered at an hour yet to come, and 5 that a rider brings back, 2 merchants, 2 riders, 9 nodes, 6 of them hubs, windows of 24 hours and 30 days, 3 moves, hops of 16 and 56 hours up to 72 | 7.7 k, 160 s |

Properties of `store_races`:

* `Grounded`: each event's previous status was really had before it, in commit
  order and in time, and the table allows the move. This is what survives of
  "the table is enforced" when requests overlap.
* `PickedUpBeforeMoved`: nothing gets past the merchant without a pickup. It
  holds under any race because every path from creation goes through PICKED_UP
  and `Grounded` makes each event follow a path.
* `TrackedStatusInTimeline`: the status and timeline of a tracking reply agree,
  because the row is read first.
* `ReadYourWrites`: the answer to a PATCH is its own status or a later one.

Properties of `store_serial`: `RowFollowsLog` (a column of the row is what the last
PATCH that gave one says, or what the row began with; delivery time and status are
those the log last gave) and `ImplementsJourney`, the refinement of
`ParcelJourney` (status from the row, journey from the log).

Properties of the engine's runs: `OutboundRiderIsBusy`, `ResolvedByItsRider`,
`AttemptsTellTheStory` (attempts numbered 1, 2, 3..., at most the last a success,
exactly if DELIVERED), `BusyRiderHasWork` (between ticks no rider is ON_DELIVERY
for nothing), and the liveness properties `OutForDeliveryIsResolved` and
`LineHaulEnds`.

Some properties are conjunctions of named parts, each
with its own comment in the module:

| Run | Property | Parts |
|---|---|---|
| `store_serial` | `RowFollowsLog` | `ColumnsFollowLog`, `DeliveredAtMeansDelivered`, `TimelineEndsAtStatus` |
| `snapshot` | `ShownIsSound` | `ShownWasReal`, `DeliveredHasDate` |
| | `FlagsAreHonest` | `FreshMeansFetched`, `FlagsMeanWork` |
| `filters` | `AddressIsObeyed` | `UrlIsAuthoritative`, `RequestHonoured` |
| | `NothingNarrowsUnseen` | `CrossFiltersOfThisPage`, `NothingHiddenUncounted` |
| `map` | `MapIsCurrent` | `DrawnRoadIsCurrent`, `CameraShowsSelection`, `ChipNamesTheDistrict`, `LayersFollowTheSwitches` |
| | `MarkersAreSteady` | `MarkersKeepToTheRoad`, `MarkersJumpOnlyToReports` |
| `desk` | `LogIsTrue` | `WorkflowIsAudited`, `AuditTellsOfWrites` |
| `analytics` | `FiguresAgree` | `ViewsAgree`, `PagesAgree`, `ChartLosesNothing` |
| | `ListsAgree` | `OverdueIsRaisedEverywhere`, `TilesFilterToThemselves`, `AssistantsStandByTheList` |
| | `CountedOnce` | `TypeOK`, `HubsShareNoParcel`, `SimulationConserves` |
| | `TimeOnlyHurts` | `SlaNeverForgives`, `WaitingNeverLowersRisk` |

What they say, and the properties that stand alone:

Properties of `relay`: `ImplementsLossyFeed`, the refinement of `LossyFeed`
(published messages, in the order of publication, the last one perhaps again,
any of them missing); `HeardWhileConnected` (what the relay holds for a connected
client reaches it, unless the subscription or that connection is lost or somebody
joins during that very broadcast: a client that leaves costs the others a message
in no other way than by ending the subscription); `HookRecovers`.

Properties of `snapshot`: nothing is shown that the server did not give or
announce, and a delivery has its date (`ShownIsSound`); stale, partial and
refreshing mean it (`FlagsAreHonest`); figures are those of the data on screen
(`DerivedIsCurrent`); and `Converges`: once its timer runs, the tab comes to show
what the server has, for good, in spite of lost messages, rolled-back
announcements, answers that overwrote newer messages and other tabs' writes. That
the snapshot goes *back* meanwhile is so, and no property denies it: a refresh
replaces what came after its requests were sent.

Properties of `filters`: an address that carries filters is obeyed, at rest and
when it was asked for in the middle of something else (`AddressIsObeyed`); no
cross-filter of another page stays in force, and what the bar does not offer to
clear does not filter (`NothingNarrowsUnseen`).

Properties of `map`: whatever came last, the road, camera, chip and layers are
those of the selection (`MapIsCurrent`), which is empty when nothing is open
(`NothingOpenNothingSelected`); markers keep to the road, and a report puts one
nowhere but where it was drawn or where it is reported (`MarkersAreSteady`); the
camera does not follow a vehicle again before it may (`FollowsOnlyWhenAsked`).

Properties of `desk`: `LogIsTrue` (state and log tell the same story, whatever
tab saved last and whatever handler was left behind: an exception's workflow goes
with its entry, no entry tells of a change the server has not accepted, and each it
has accepted has an entry but for those whose answer is awaited or was lost, whose
handler a reload ended, or whose entry another tab has saved over),
`PagesShowTheRows` (however the rows shrink under the page that was turned to,
the page shown has some, and all pages together show each once),
`AutoAssignLevels` (a batch keeps two riders of
a city within one parcel of each other), and of its steps `BulkTakesWhatItCounts`.
That the queue has what other lists have is not among them: the bell
(`TopBar.tsx:154`) looks neither at the filter bar nor at the type a link has asked
for, and shows what the queue hides.

Properties of `analytics`: sums agree across pages (`FiguresAgree`), with two
limits that the code has: the table of cities keeps ten rows, so it adds up to all
parcels while there are no more cities, and the chart counts a delivery on its day,
so one that the generator has dated ahead (`generate_dummy_packages.py:166`) is in
the KPIs before it is in the chart. Lists,
tiles and assistants name the same parcels (`ListsAgree`), each within what its page
looks at: the exceptions list and the copilot's answer name every overdue parcel, the
Command Center's card those of the cities chosen, its brief and its "delayed" tile
only those of them created in the window. The brief says "Work the SLA-breach
queue" (`brief.ts:141`) with the smaller number and leads to the longer list. No parcel is in two
places (`CountedOnce`), and lateness is never forgiven nor risk lowered by waiting
(`TimeOnlyHurts`).

Bounds. Two requests are enough for every race between a read and a write of
the other; a third would only repeat it. The clock bounds the number of moves:
four readings let both requests move the parcel twice. It stops the store, so
those runs do not look for deadlocks; the engine's do, and there is none. One
column stands for three because the columns do not interact. Two parcels and a
rider let a leg be overwritten and a parcel wait for a rider; two riders let the
wrong one arrive. One truck serves two parcels since it takes one a tick.
`MaxAttempts` makes a parcel's last attempt succeed; the code draws each
outcome at random and an endless row of failures has probability zero.
`MaxLeg` and `MaxTrip` of 2 tell a ride that arrives in the tick it begins from
one that does not. `AdoptEvery` is 2 where the code has its own period: what matters is
that some ticks adopt and some do not.

For the browser: two messages and two sockets let a client leave and come back
during a broadcast; a third message would queue behind the second. In `snapshot`
one parcel is enough for every race of answers over one row; that an answer mixes
rows of different moments needs two, and the invariants, whose proofs do not bound
the parcels, hold of it. Three writes let one be announced and rolled back and
another overtake an answer. In `filters` four acts are a link, an edit, a step
back and a repetition of one. `map` and `desk` have budgets in place of one bound,
since each actor alone is dull and all together too many: a behaviour starts with
one of a set of budgets. Those of `map` are, for (user, feed, clock, requests),
(4,0,1,0), (3,0,1,2), (2,2,1,0), (2,1,2,0), (1,3,1,0), (1,2,1,2) and (0,5,2,0), with steps of
the clock of 1.5 and 4.5 s, one shorter and one longer than the four seconds after
which the camera may follow again; with two of them a flight is broken off
and the next one lands. Those of `desk` are, for (user, look, rest), (2,1,0), (1,3,0), (1,1,1) and
(1,0,2), where to look is to browse, filter, change the page or reload: a handler
started, then two things that happen while it awaits; or a selection, and a filter or
a link between it and the action.
`MaxAudit` of 3 lets the log lose its oldest entry. The hops of `analytics` step
over each threshold of the SLA and the risk score in one go or in two. Its five
parcels on their way back, alike and so symmetric, make with one more a rider
overloaded (six parcels), and its six hubs, one of them nearly full, a high outlier
(among fewer none can lie so many deviations from the mean, `anomaly.ts:60`); its windows of 24 hours
and 30 days leave overdue parcels out and take them in. These
runs stop at their bounds, so they do not look for deadlocks.

Fairness. `FairSpec` assumes weak fairness of `TickStep`, the disjunction of all
steps of a tick, and nothing else: `run()` is an endless loop that ticks, catches
what a tick raises and ticks again. It does not assume that any particular
choice is ever made: not the vehicle's road, nor the rider, nor the order of a
loop. Failures and restarts are never assumed to happen or to stop happening;
`dispatch_live` bounds them at zero, since with a restart the property is false
(`dispatch_stuck`).

`DataStore`'s `Fairness` is that of a page that stays open: each request already
made is answered or fails, messages on a live connection arrive, the idle page
loads, a timer once armed fires, the engine ends its transactions. Nobody has to
press Retry or Refresh. `LiveRelay`'s is that of running programs: the relay
subscribes again after its pause and goes on sending, the endpoint sees its
sockets open and close, a closed hook reconnects, since `setTimeout` fires unless
the hook is unmounted. Neither assumes that faults end; both bound them.
`FilterSync`, `MapView`, `Desk` and `ShipmentHistory` make no promise of
progress and assume no fairness.

## 4. Where the code and what is said of it disagree

One disagreement is a listed run:

* `desk_stale_node` (`AssigningMovesNoParcel`). The pages send the node of their
  snapshot with every change of status (`dispatch/page.tsx:67`), and the server
  takes it. A live event has patched the status of that snapshot and not the node
  (`store.ts:227`), so an assignment or bulk action soon after an arrival puts the
  parcel back at the hub it left. `store.ts:218` says that a live change moves
  everything together "without waiting for the next full refresh".

The following have a configuration that a reader can run; TLC finds each violated.

| Configuration | Module | Says | Does |
|---|---|---|---|
| `store_illegal_move` | `MCPackageStore` | the table is "Enforced in app.state_machine.package_state_machine" (`enums.py:61`) | two overlapping PATCHes pass on the same loaded copy; the row goes from PICKED_UP to CANCELLED |
| `store_timeline` | `MCPackageStore` | events are "the immutable source of truth for history" (`event.py:1`) | overlapping PATCHes commit against the order of their stamps; the timeline, sorted by stamp, ends at a status the row has not |
| `dispatch_stuck` | `MCDispatch` | adoption "re-creates a leg" for parcels that "would sit at OUT_FOR_DELIVERY forever" (`engine.py:399`) | `start_rider_leg` makes no leg for a rider whose row says it is at the door already, as after a restart during the ride back; the parcel stays for ever |
| `dispatch_hash_order` | `MCDispatch` | the engine "advances packages through the state machine" (`README.md:33`) | `forward[0]` of a set of strings: in a process whose hash order puts ARRIVED_AT_HUB first, IN_TRANSIT parcels circle for ever |
| `dispatch_double_booking` | `MCDispatch` | "Pick an available rider" (`engine.py:291`) | the query filters on committed rows; a rider sent out in the same tick is offered again |
| `dispatch_phantom_leg` | `MCDispatch` | a parcel out for delivery "belongs to a rider" (`engine.py:239`) | a leg survives the rollback of the tick that made it, and its rider resolves another rider's parcel |
| `dispatch_wrong_city` | `MCDispatch` | parcels advance "based on where their carrying vehicle is" (`engine.py:6`) | any hub counts: a parcel is at its destination hub in a city it is not going to |
| `filters_disjoint` | `MCFilterSync` | "Both layers apply as AND constraints" (`filters.ts:19`) | two filters with nothing in common leave an empty list (`filters.ts:211`), which means no filter: `CrossFiltersNarrow` |

Seven more are stated as definitions next to the properties that hold; putting
one among the INVARIANTS (for those marked *, among the PROPERTIES) of the module's
cfg shows a counterexample.

* `AddressCarriesFilters` (`FilterSync`): navigating to a bare URL is said to keep
  the filters and write them into it (`FilterUrlSync.tsx:13`); the effect that
  writes runs when the filters change (`:51`), which a navigation does not do, so
  they stay in force under an address that does not show them.
* `MapInStep` (`MapView`): the drawer is said to keep the map in step with what is
  open (`DetailDrawer.tsx:38`), but its effect runs when the open item or the page
  changes (`:64`) and not when the selection or the data does, so the map may be
  left without what the drawer shows.
* `SnoozeEndsEverywhere` (`Desk`): a snooze has an end, which the exceptions page
  compares with the clock and the other three lists do not (`TopBar.tsx:157`,
  `control-tower/page.tsx:45`, `pages/common.tsx:246`; `ExceptionDetail.tsx:36`
  goes on saying "snoozed until").
* `MarkersDoNotJump`* (`MapView`): a marker is said to glide on from where it is, "so
  an early update does not snap it backwards" (`MapView.tsx:887`). The road drawn
  between two reports runs from the place nearer its start to the farther one
  (`roads.ts:185`). A rider at the door is published with the way back as its road
  (`engine.py:505`), on which the report lies behind the marker: the marker jumps to
  the door and drives backwards.
* `HeardByAllConnected`* (`LiveRelay`): the relay is said to rebroadcast each message
  "to that channel's connected WebSocket clients" (`redis_relay.py:1`); it iterates
  over the live set while it awaits (`manager.py:24`), so when one client leaves and
  another joins during a broadcast a third may be passed over.
* `EveryWriteIsAudited` (`Desk`): every action of the portal is said to hit the
  backend and leave "an audit entry" (`actions.ts:9`); the entry is made after the
  answer (`:94`), so one that is lost, or a reload before it has come, leaves a change
  the server has accepted without one.
* `ActionsSurviveReloads`* (`Desk`): the "audit log of every action" is said to be
  kept "so it survives reloads" (`ops.ts:10`); each tab saves its whole store (`:75`), without what another
  has saved since it was loaded.

Read in the code while modelling, and kept out of the models' properties:

* A role switched while a bulk action awaits does not stop it
  (`shipments/page.tsx:90`).
* The answer of a live route is shown without a look at what is selected by then
  (`MapView.tsx:526`); a vehicle off its route costs one lookup a report, where
  `roads.ts:309` says that it is asked for once; a change of theme
  mounts the map anew and flies home, where `MapView.tsx:548` says it "lands
  exactly where the operator left off".
* A revalidation that fails behind a cached snapshot arms no timer (`store.ts:187`).
* The synthetic event of a PATCH is compared with the row that was just patched,
  so it is ignored (`store.ts:226`), although `store.ts:218` counts on it.
* `actions.ts:13` speaks of a 400 for an illegal move; `packages.py` answers 409.

## 5. What TLAPS proves

Every invariant and action property of the runs is a theorem for every value of
the constants, and so are both refinements.
Assumptions are those of the modules, and TLC evaluates each of them:

* *Sentinels.* `None` and `Null` are no value of the type they stand beside. In
  the analytics they stand beside numbers, shares, advice and cities.
* *Bounds* are naturals; periods, page sizes, the history's length and the
  durations of flights are at least 1.
* *Data.* Seeded histories follow the table and the clock starts after the seed; each
  parcel has a route, of whatever nodes.
  `Dest`, `RiderBase` and `VehicleBase` are functions into the nodes and no parcel
  starts DELIVERED. Rosters and queues are sequences and a score is a percentage.
  Corridors are roads between points, as `build()` made them, whose stretches run
  along one axis each (what `Roads` computes is exact of such roads only). Loads,
  capacities and distances are naturals, a node has a city and a route joins two different nodes.
  Parcels, riders, merchants, nodes and routes are finitely many, and a parcel of the
  past has the hour of its delivery exactly if it was delivered.
* *Choices.* What a user can pick is something the page offers: presets, links and
  layers that exist, items that are on the map.

The proofs do not bound parcels, requests, messages, sockets, clients, riders,
vehicles, hubs, columns, rides, attempts, failures, restarts, links, exceptions,
handlers, log entries, points of a road or hours, except where a theorem says so.

Functions defined by recursion (`Kept`, `Measure`, sums by `MapThenSumSet`) are
`CHOOSE` expressions to the prover, and the library's induction takes an operator.
The proof modules use the set form instead: `InductTo`, which says that a subset
of `0 .. L` with 0 in it and closed under successor is all of `0 .. L`, and
`LeastOf`, both from the well-foundedness of `<` on the naturals. With them a
lemma shows for each such function that it exists (`KeptIs`, `MeasureIs`,
`SomethingAdds`), and the rest uses its defining equation only.

**PackageStoreProofs.** `TypeCorrect`, `AlwaysGrounded`, `NeverMovedBeforePickup`,
`RepliesAreFresh` and `TrackingIsCoherent` are for any number of interleaved
requests. None is inductive alone: `Grounded` needs to know of an event that is
*about to be* committed that its cause is already in the log. So `IInv` says of
each handler what it knows: the status it loaded is that of a committed event,
the event it holds is stamped after that one, the event it committed is in the
log at its place. Commits only append, so what one handler knows survives what
the others do (lemma `StepGrows`). `SerialStoreImplementsJourney` is the
refinement: with at most one request, initial states map to initial states and
every step to a step of `ParcelJourney` or to a stutter. `SerialRowFollowsLog`
has the same condition; its `SerialInv` adds that the one handler's copy of the
row *is* the row until it commits, so that what it leaves out of its UPDATE is
what the log says already, or what the seed scripts put there, whatever nodes they
chose for rows and events. That every PATCH is stamped after the seed (`PastSeeds`)
tells its events from theirs.

**DispatchProofs.** For each call of the engine a lemma says what it changes
and, more usefully, what not (`MovesOn`: other parcels alone, no rider taken off
its parcel, no busy rider freed, a leg changed only for a parcel given to that
rider). Then four invariants:

* `Typed` adds to `TypeOK` where the loops stand (a rider still to be visited has
  a leg, the truck being unloaded is the one whose parcels are queued): without
  it `leg[r].package` need not be defined. Gives `TypeCorrect`.
* `StoryInv` has the story in the committed rows *and* in the session, and
  `Uncounted`: an attempt is numbered by counting committed attempts, which is
  right only because a tick makes no attempt before its last loop and at most one
  for each parcel. Gives `AttemptsAreAccurate`, for any number of failures and
  restarts.
* `RideInv` has `LegsKept` (a leg is its parcel's rider's) and `OnceATick` (a tick
  moves a failed parcel on at most once, so that a restart never takes it from
  OUT_FOR_DELIVERY back to a resolved status). Gives `OutboundRidersStayBusy` and
  `RidersResolveTheirOwn`, for any number of restarts and **no tick that raises**:
  `dispatch_phantom_leg` shows the second false otherwise.
* `WorkInv` has a parcel out for delivery for each busy rider, in the committed
  rows and in the session (`WorkIn`), and says nothing of legs, which rollbacks
  and restarts tear from the rows. That the session agrees needs `StillOut`: what
  is committed as out for delivery stays so in the session until the riders' loop.
  Gives `BusyRidersHaveWork`, for any number of failures and restarts.

**DataStoreProofs.** For any number of parcels, writes, faults and reloads.
`FreshMeansFetched` and `DerivedIsCurrent` are inductive with `TypeOK`: each step
that changes what is shown sets the flag or derives anew in the same `set()`.
`FlagsMeanWork` needs `Loads`, which says where a load stands: before its core is
in nothing is called partial, after it the tab is ready. `ShownWasReal` and
`DeliveredHasDate` say too little of the answers on their way, so `Sound` says the
same of every row that may yet be shown (server, page, cache, load, refresh,
PATCH) and of every message on the wire that it was published. It is one conjunct
to a source and one lemma to a conjunct (`StepPage`, `StepCache`, ...), which rest
on the fact that what is known only grows (`StepKnown`). The one assumption beyond
those of the constants' types is that null is neither a row nor an answer.

**LiveRelayProofs.** A message is at one of four places: in the subscription's
inbox, in the broadcast, on a socket, or handed to the hook. `OrderInv` says that
each place is in order and none holds a message older than the next place on the
way has had (`RelayAt`, `NoneBefore`). It does not need to know whom the iterator
passes over or visits twice, only that it sends no other message. It needs `LiveWires`: a socket its client
has left carries nothing, or an old socket could hand over an old message after a
new one. `OrderIsKept` is that invariant; `RelayImplementsLossyFeed` the
refinement, where a delivery, and nothing else, is a step of the feed.

**FilterSyncProofs.** Two facts carry it. A filter survives the way to the address
and back (`RoundTrip`), which needs that dates belong to the custom window
(`Dated`), as every operation of the store sees to. And `EffectsInTurn`: between
two renders `lastApplied` names nothing or the filters themselves, so when the
first effect skips an address because it is `lastApplied`, the store is what that
address says. `StaysInStep` is the inductive invariant, `Honoured` the longest of
its parts: what was asked for last is on its way, or shown and due to be applied,
or in force. It gives `AddressObeyed`, `NarrowsInSight` and `TypeCorrect`.

**DeskProofs.** The log is looked at as a set of entries: `LogActions` adds to it,
and while it is not full it has lost none (`Logged`). `LogTellsTheTruth` then
follows both tabs and `localStorage`, since each tab saves the whole store, and
the answers that handlers still await: `LogOK` has what is due (`Due`: accepted, and
neither awaited nor excused) in the log of this tab, and in `localStorage` too unless
another tab has saved over it, which is the one case where a reload may excuse it.
`QueueShowsAll` is about the table: its
pages, one after the other, are the rows (`PagesFlatten`), for every size of page and
every filter, and a page that rows have left gives way to the last. `BatchesLevel` is an
invariant of the loop of auto-assign, over every prefix of the batch.
`BulkTakesOnlyWhatIsListed` is the action property.

**MapViewProofs.** The largest. Its geometry says what a projection and the way
ahead of a position are worth: measures rise along a road (`MeasureIs`), the way
ahead begins at the position, ends at the road's end and is as long as the chip
says. Its invariant `IInv` does not say what the map ought to show *now*, which is
false while effects are due; `Caught` says that it is what its effects made of the
values they last ran with (`rendered`). The effects of one render run in turn, and
between two of them each part is right for the new values or still for the old
(`Underway`); the last leaves nothing of the old. `Airborne` ties the view to the
clock: a flight is never overdue, and a map that listens and has not arrived is in
the air. It gives `MapStaysCurrent`, `NothingOpenMeansNothingSelected`,
`CameraFollowsOnlyWhenAsked` and `TypeCorrect`. It was not inductive at first: the
model let Home start a flight without ending the one under way, and a flight
begun at a landing begin at the end of the clock's step instead of at the landing;
both were wrong of the code too, and were mended.

`MarkersStaySteady` is about what is drawn along a road between two reports. A
stretch begins and ends within its road and follows it from point to point
(`StretchIs`); a place part of the way along it lies between two of its points, hence
on a segment of the road (`TogetherIs`, `StretchKeepsToTheRoad`), whatever the
quotient was rounded to. `MarkersOnRoads`, the inductive invariant, says that the
path of every glide is such a stretch of a road of the file; one short lemma to an
effect says that nothing but a report changes a glide. `PathStarts` says where a
report puts the marker: where the old place or the new one snaps to the road,
whichever comes first on it. That "whichever" is where the proof of the earlier
property, that the marker stays near its *old* place, failed; TLC then found the
rider at the door (`MarkersDoNotJump`, section 4).

**ShipmentHistoryProofs.** `IInv` is that deriving again changes nothing: the
parcels, hubs, riders and exceptions of a snapshot are those `derive()` would make
of its own data. It holds because each part is made of the data and the parts
before it and of nothing else (`SameShipments`, `SameHub`, `SameRider`,
`SameList`), so what an earlier snapshot left in those fields does not matter. The
other theorems are then about one snapshot. `EachCountedOnce`: risk is between 0
and 100 whatever the factors; no parcel is at two hubs, nor waiting and leaving at
once; a simulated move of riders creates and loses none (`SimulationBalances`).
`TimeForgivesNothing`: `SlaOf` and `RiskScore` as functions of the clock, monotone
where the parcel stands still. `OneListEverywhere`: what is overdue, in the list, the
copilot's answer and, for each window and city, on the Command Center
(`CommandCenterIs`, `PageIsOfCity`), tiles and their filters, and that every forecast is a number that is
not negative, which rests on sums (`SumIs`, by induction on the size of a finite
set).

`FiguresAlwaysAgree` is about those sums. The library takes the elements of a set
in an order that `CHOOSE` picks, so first a sum must be shown not to depend on it:
`SumTakes` takes any element out first, by `SubsetInduction`, the set form of
induction over finite sets. Then `SumWithout`, `SumWithin`, `SumCounts` and
`SumGrowsWith` are the arithmetic of sums, `SumOfRows` and `CountOfRows` say that
rows which split a set add up to it, and `OrderedIs` that a stable sort has each
element of its list once. What a parcel brings to a sum (`FiguresAre`) needs more of
a snapshot than its parcels' types: that a delivered one, and no other, has the hour
of its delivery, and that its attempts are numbered and dated before now. `Given`
adds these to `IInv`. The attempt to prove the chart's part showed that it is false
while a delivery is dated ahead, which the generator allows and the instance now
has; the property counts what is due. The rest goes page by page: money over
merchants, cities, services and weeks (`MoneyAgrees`), cohorts, stages, matrices, flows, shares
and the Pareto curve (`PagesStand`), and the days of the chart (`ChartStands`).

Only model-checked:

* *Liveness* (`OutForDeliveryIsResolved`, `LineHaulEnds`, `HookRecovers`,
  `HeardWhileConnected`, `Converges`): fairness is out of the prover's reach.
* What `SeedHistory` computes is finite: TLC verifies the assumption on `SeedPath`
  for every status.

## 6. Not modelled

* Event rows and `actual_delivery_at` written by the engine, and the API and the
  engine writing the same parcel at once: `PackageStore` and `Dispatch` are not
  composed. `Grounded` covers two requests on one row; the engine's session holds
  its copy for a whole tick.
* Node loads and congestion: the first is a count, whose only hazard is the memory
  that a rolled-back tick leaves behind; the second a random walk on floats.
* Mid-journey parcels the seed scripts leave without a vehicle: the engine never
  picks them up (it looks for three statuses only), so they take no part.
* The route proxy, the choice of nodes for placement, road geometry of the backend, `analytics_service.py`:
  single computations, on floats or in SQL, with nothing to interleave.
* In the browser: statistics of routes and vehicles that are only shown, the
  remembered scenario, the sidebar, notifications seen, hover, tooltips, export,
  layout and wording. Lists other than parcels and events in `DataStore`; pages of
  the second tab in `Desk`; maps that fail to load in `MapView`.
* The ETA model, schema and seeding: a trained network, declarations, one-off data.

## 7. Plan

What would come next, the most consequential first.

1. `ControlTower`: `PackageStore` and `Dispatch` on the same rows, with the event
   rows of both: what a PATCH during a tick does.
2. `NodeLoads`: the committed load is the count of parcels at the node whenever a
   tick ends, after any rollback.
3. `RouteCache` as a bounded map, and the backend's choice of nodes as operators.
