----------------------------- MODULE DataStore ------------------------------
(***************************************************************************)
(* One browser tab's data snapshot (frontend/src/data/store.ts): the first *)
(* load and its session cache, the refresh timer, the live feed and the    *)
(* answers to the tab's own PATCHes, all racing for one copy of the        *)
(* parcels and their events.                                               *)
(*                                                                         *)
(* The server is what the tab can tell of it: a row per parcel, the        *)
(* committed events, the engine's transaction in flight.  The engine       *)
(* publishes before it commits (simulator/engine.py:288); the API's PATCH  *)
(* publishes nothing.  A list is fetched page by page, so that the parcels *)
(* of one answer are read at different moments; here a page holds one      *)
(* parcel and pages come in any order.                                     *)
(*                                                                         *)
(* Abstracted: vehicles, riders and the other lists, which are replaced    *)
(* where the parcels and the events are; the 1500 events a live update     *)
(* keeps; the wording of warnings.  A time stamp is a count of writes.     *)
(***************************************************************************)
EXTENDS Naturals, Sequences, FiniteSets, PackageLifecycle

CONSTANTS Package,      \* the parcels
          Start,        \* Package -> the status each has at first
          Target,       \* the statuses the engine and the users move parcels to
          Nothing,      \* null
          MaxNow,       \* bound on the writes of the server
          MaxFaults,    \* bound on failed requests and lost live messages
          MaxReloads    \* bound on reloads of the page

ASSUME StartAssumption == Start \in [Package -> PackageStatus]
ASSUME NothingAssumption == Nothing \notin [status : PackageStatus, at : Nat, dated : BOOLEAN]
ASSUME TargetAssumption == Target \subseteq PackageStatus
ASSUME BoundAssumption == MaxNow \in Nat /\ MaxFaults \in Nat /\ MaxReloads \in Nat

VARIABLES
    row,        \* the server's row of each parcel
    log,        \* the committed events
    now,        \* how many writes the server has stamped
    tick,       \* the engine's open transaction
    published,  \* every live message ever published
    wire,       \* the live messages on their way to this tab
    tab,        \* status, stale, partial, refreshing, timer
    packages,   \* the tab's parcels
    events,     \* the tab's events
    derived,    \* what derive() last computed from
    cache,      \* the snapshot in sessionStorage
    fetched,    \* a snapshot came from the server since the page was opened
    loading,    \* the load() in flight
    refresh,    \* the refresh() in flight
    patch,      \* the PATCH in flight
    faults, reloads

server == <<row, log, now, tick, published>>
view == <<packages, events, derived>>
budget == <<faults, reloads>>
vars == <<server, wire, tab, view, cache, fetched, loading, refresh, patch, budget>>

Row == [status : PackageStatus, at : Nat, dated : BOOLEAN]
Message == [package : Package, status : PackageStatus, at : Nat]
Event == [package : Package, status : PackageStatus, at : Nat, live : BOOLEAN]

Unread == [p \in Package |-> Nothing]
Rows == [Package -> Row \cup {Nothing}]
\* What a load or a refresh has received so far.
Answer == [core : BOOLEAN, rows : Rows, events : (SUBSET Event) \cup {Nothing}]
Asked == [core |-> TRUE, rows |-> Unread, events |-> Nothing]

ASSUME AnswerAssumption == Nothing \notin Answer

\* derive() is a function of the parcels and the events; EMPTY_DERIVED until ready.
Derive(status, parcels, story) == IF status = "ready" THEN <<parcels, story>> ELSE Nothing

Opened == [status |-> "idle", stale |-> FALSE, partial |-> FALSE, refreshing |-> FALSE, timer |-> FALSE]

Init ==
    /\ row = [p \in Package |-> [status |-> Start[p], at |-> 0, dated |-> Start[p] = "DELIVERED"]]
    /\ log = { [package |-> p, status |-> Start[p], at |-> 0, live |-> FALSE] : p \in Package }
    /\ now = 0
    /\ tick = Nothing
    /\ published = {}
    /\ wire = <<>>
    /\ tab = Opened
    /\ packages = Unread /\ events = {} /\ derived = Nothing
    /\ cache = Nothing
    /\ fetched = FALSE
    /\ loading = Nothing /\ refresh = Nothing /\ patch = Nothing
    /\ faults = 0 /\ reloads = 0

----------------------------------------------------------------------------
\* The server.

Moved(r, status, at) ==
    [status |-> status, at |-> at, dated |-> r.dated \/ status = "DELIVERED"]

\* One parcel of a tick: stamped, added to the session and published.  The
\* message goes to the tab, in order, unless the relay or the connection is
\* down (LiveRelay says when that is).
EnginePublish(p, status, lost) ==
    /\ tick = Nothing
    /\ now + 2 <= MaxNow
    /\ IsValidTransition(row[p].status, status)
    /\ lost => faults < MaxFaults
    /\ faults' = IF lost THEN faults + 1 ELSE faults
    /\ now' = now + 2
    /\ tick' = [package |-> p, status |-> status, at |-> now + 1]
    /\ LET message == [package |-> p, status |-> status, at |-> now + 2]
       IN  /\ published' = published \cup {message}
           /\ wire' = IF lost THEN wire ELSE Append(wire, message)
    /\ UNCHANGED <<row, log, tab, view, cache, fetched, loading, refresh, patch, reloads>>

\* updated_at is when the transaction began, the event is stamped later.
EngineCommit ==
    /\ tick # Nothing
    /\ row' = [row EXCEPT ![tick.package] = Moved(@, tick.status, tick.at)]
    /\ log' = log \cup {[package |-> tick.package, status |-> tick.status, at |-> tick.at + 1,
                         live |-> FALSE]}
    /\ tick' = Nothing
    /\ UNCHANGED <<now, published, wire, tab, view, cache, fetched, loading, refresh, patch, budget>>

EngineRollback ==
    /\ tick # Nothing
    /\ tick' = Nothing
    /\ UNCHANGED <<row, log, now, published, wire, tab, view, cache, fetched, loading, refresh,
                   patch, budget>>

----------------------------------------------------------------------------
\* The live feed: LiveDataProvider's handler of the packages channel.

\* applyPackageEvent: what it makes of the parcels and the events, and
\* whether it changes anything.
Ignored(parcels, update) ==
    \/ parcels[update.package] = Nothing
    \/ /\ parcels[update.package].status = update.status
       /\ parcels[update.package].at >= update.at

\* mutant: a delivery heard of live is not dated
Patched_Undated(parcels, update) ==
    IF Ignored(parcels, update) THEN parcels
    ELSE [parcels EXCEPT ![update.package] = [@ EXCEPT !.status = update.status, !.at = update.at]]

Patched(parcels, update) ==
    IF Ignored(parcels, update) THEN parcels
    ELSE [parcels EXCEPT ![update.package] = Moved(@, update.status, update.at)]

Storied(parcels, story, update) ==
    IF Ignored(parcels, update) THEN story
    ELSE story \cup {[package |-> update.package, status |-> update.status, at |-> update.at,
                      live |-> TRUE]}

\* mutant: the derivation does not depend on the events
Rederive_WithoutEvents == derived' = Derive(tab'.status, packages', events)

\* Every set() that bumps version makes DataProvider derive again.
Rederive == derived' = Derive(tab'.status, packages', events')

Receive ==
    /\ wire # <<>>
    /\ wire' = Tail(wire)
    /\ packages' = Patched(packages, Head(wire))
    /\ events' = Storied(packages, events, Head(wire))
    /\ tab' = tab
    /\ IF Ignored(packages, Head(wire)) THEN derived' = derived ELSE Rederive
    /\ UNCHANGED <<server, cache, fetched, loading, refresh, patch, budget>>

----------------------------------------------------------------------------
\* load(): from the provider's effect on an idle page, or from Retry.

CanLoad == tab.status \in {"idle", "error"} /\ loading = Nothing

\* A cached snapshot is called stale until the server has answered.
Painted == [tab EXCEPT !.status = "ready", !.stale = TRUE]

\* readCache() found a snapshot: paint it and revalidate behind it.
LoadFromCache ==
    /\ CanLoad
    /\ cache # Nothing
    /\ loading' = Asked
    /\ tab' = Painted
    /\ packages' = cache.rows /\ events' = cache.events
    /\ Rederive
    /\ UNCHANGED <<server, wire, cache, fetched, refresh, patch, budget>>

\* There is none, or it is older than CACHE_MAX_AGE_MS.
LoadAfresh ==
    /\ CanLoad
    /\ loading' = Asked
    /\ tab' = [tab EXCEPT !.status = "loading"]
    /\ UNCHANGED <<server, wire, view, cache, fetched, refresh, patch, budget>>

\* fetchCore reads one page of the parcels.
LoadReadsPage(p) ==
    /\ loading # Nothing
    /\ loading.core /\ loading.rows[p] = Nothing
    /\ loading' = [loading EXCEPT !.rows[p] = row[p]]
    /\ UNCHANGED <<server, wire, tab, view, cache, fetched, refresh, patch, budget>>

Complete(rows) == \A p \in Package : rows[p] # Nothing

\* The core is in: the pages open, and the history is asked for.
CoreLoaded ==
    /\ loading # Nothing
    /\ loading.core /\ Complete(loading.rows)
    /\ loading' = [core |-> FALSE, rows |-> Unread, events |-> Nothing]
    /\ packages' = loading.rows
    /\ events' = events
    /\ tab' = [tab EXCEPT !.status = "ready", !.partial = TRUE, !.stale = FALSE]
    /\ fetched' = TRUE
    /\ Rederive
    /\ UNCHANGED <<server, wire, cache, refresh, patch, budget>>

\* The events as the server has them, or none when that one request fails:
\* an optional list that cannot be read is taken for an empty one.
Story(failed) == IF failed THEN {} ELSE log

LoadReadsEvents(failed) ==
    /\ loading # Nothing
    /\ ~loading.core /\ loading.events = Nothing
    /\ failed => faults < MaxFaults
    /\ faults' = IF failed THEN faults + 1 ELSE faults
    /\ loading' = [loading EXCEPT !.events = Story(failed)]
    /\ UNCHANGED <<server, wire, tab, view, cache, fetched, refresh, patch, reloads>>

\* writeCache; the tab is not one whose sessionStorage is full or forbidden.
WriteCache(rows, story) == cache' = [rows |-> rows, events |-> story]

HistoryLoaded ==
    /\ loading # Nothing
    /\ ~loading.core /\ loading.events # Nothing
    /\ loading' = Nothing
    /\ packages' = packages
    /\ events' = loading.events
    /\ tab' = [tab EXCEPT !.partial = FALSE, !.timer = TRUE]
    /\ WriteCache(packages, loading.events)
    /\ Rederive
    /\ UNCHANGED <<server, wire, fetched, refresh, patch, budget>>

\* mutant: the failure leaves a status no page knows
AfterFailure_Offline == [tab EXCEPT !.status = "offline"]
AfterFailure ==
    IF tab.status = "ready" THEN [tab EXCEPT !.stale = TRUE] ELSE [tab EXCEPT !.status = "error"]

\* A core request fails: what is on screen is called stale, or there is
\* nothing on screen and the page offers Retry.  No timer is started.
LoadFails ==
    /\ loading # Nothing
    /\ loading.core
    /\ faults < MaxFaults
    /\ faults' = faults + 1
    /\ loading' = Nothing
    /\ tab' = AfterFailure
    /\ UNCHANGED <<server, wire, view, cache, fetched, refresh, patch, reloads>>

----------------------------------------------------------------------------
\* refresh(): from the timer while the page is visible, or from the button.

Refresh ==
    /\ ~tab.refreshing /\ tab.status = "ready"
    /\ tab' = [tab EXCEPT !.refreshing = TRUE]
    /\ refresh' = Asked
    /\ UNCHANGED <<server, wire, view, cache, fetched, loading, patch, budget>>

RefreshReadsPage(p) ==
    /\ refresh # Nothing
    /\ refresh.rows[p] = Nothing
    /\ refresh' = [refresh EXCEPT !.rows[p] = row[p]]
    /\ UNCHANGED <<server, wire, tab, view, cache, fetched, loading, patch, budget>>

RefreshReadsEvents(failed) ==
    /\ refresh # Nothing
    /\ refresh.events = Nothing
    /\ failed => faults < MaxFaults
    /\ faults' = IF failed THEN faults + 1 ELSE faults
    /\ refresh' = [refresh EXCEPT !.events = Story(failed)]
    /\ UNCHANGED <<server, wire, tab, view, cache, fetched, loading, patch, reloads>>

\* mutant: a parcel the tab has newer news of is kept
Merged_Newer(rows) ==
    [p \in Package |-> IF packages[p].at > rows[p].at THEN packages[p] ELSE rows[p]]
\* The answer replaces what is shown.
Merged(rows) == rows

Refreshed ==
    /\ refresh # Nothing
    /\ Complete(refresh.rows) /\ refresh.events # Nothing
    /\ refresh' = Nothing
    /\ packages' = Merged(refresh.rows) /\ events' = refresh.events
    /\ tab' = [tab EXCEPT !.refreshing = FALSE, !.stale = FALSE, !.partial = FALSE]
    /\ fetched' = TRUE
    /\ WriteCache(packages', refresh.events)
    /\ Rederive
    /\ UNCHANGED <<server, wire, loading, patch, budget>>

\* mutant: the spinner goes on
RefreshFails_StillSpinning ==
    /\ refresh # Nothing
    /\ faults < MaxFaults
    /\ faults' = faults + 1
    /\ refresh' = Nothing
    /\ UNCHANGED <<server, wire, tab, view, cache, fetched, loading, patch, reloads>>

RefreshFails ==
    /\ refresh # Nothing
    /\ faults < MaxFaults
    /\ faults' = faults + 1
    /\ refresh' = Nothing
    /\ tab' = [tab EXCEPT !.refreshing = FALSE]
    /\ UNCHANGED <<server, wire, view, cache, fetched, loading, patch, reloads>>

----------------------------------------------------------------------------
\* transitionShipment: a PATCH from this tab, and its answer.

\* The server moves a parcel for a PATCH, and publishes nothing.
Accept(p, status) ==
    /\ row' = [row EXCEPT ![p] = Moved(@, status, now + 1)]
    /\ log' = log \cup {[package |-> p, status |-> status, at |-> now + 1, live |-> FALSE]}
    /\ now' = now + 1
    /\ UNCHANGED <<tick, published>>

\* The tab offers the moves that are legal from what it shows.
PatchShipment(p, status) ==
    /\ tab.status = "ready" /\ patch = Nothing
    /\ now < MaxNow
    /\ packages[p] # Nothing
    /\ IsValidTransition(packages[p].status, status)
    /\ patch' = [package |-> p, status |-> status, answer |-> Nothing]
    /\ UNCHANGED <<server, wire, tab, view, cache, fetched, loading, refresh, budget>>

PatchAccepted ==
    /\ patch # Nothing
    /\ patch.answer = Nothing
    /\ IsValidTransition(row[patch.package].status, patch.status)
    /\ Accept(patch.package, patch.status)
    /\ patch' = [patch EXCEPT !.answer = row'[patch.package]]
    /\ UNCHANGED <<wire, tab, view, cache, fetched, loading, refresh, budget>>

\* The API refuses the move, or the request or its answer is lost.
PatchFails ==
    /\ patch # Nothing
    /\ IF patch.answer = Nothing /\ ~IsValidTransition(row[patch.package].status, patch.status)
       THEN faults' = faults
       ELSE faults < MaxFaults /\ faults' = faults + 1
    /\ patch' = Nothing
    /\ UNCHANGED <<server, wire, tab, view, cache, fetched, loading, refresh, reloads>>

\* patchPackage with the answer, then applyPackageEvent with the answer's own
\* status and time, which the patched parcel already has.
PatchAnswered ==
    /\ patch # Nothing
    /\ patch.answer # Nothing
    /\ LET patched == [packages EXCEPT ![patch.package] = patch.answer]
           update == [package |-> patch.package, status |-> patch.answer.status,
                      at |-> patch.answer.at]
       IN  /\ packages' = Patched(patched, update)
           /\ events' = Storied(patched, events, update)
    /\ tab' = tab
    /\ patch' = Nothing
    /\ Rederive
    /\ UNCHANGED <<server, wire, cache, fetched, loading, refresh, budget>>

\* Another tab's PATCH: this one is not told.
PatchElsewhere(p, status) ==
    /\ now < MaxNow
    /\ IsValidTransition(row[p].status, status)
    /\ Accept(p, status)
    /\ UNCHANGED <<wire, tab, view, cache, fetched, loading, refresh, patch, budget>>

----------------------------------------------------------------------------
\* The page is reloaded: sessionStorage survives, answers on their way do not.

Reload ==
    /\ reloads < MaxReloads
    /\ reloads' = reloads + 1
    /\ tab' = Opened
    /\ packages' = Unread /\ events' = {} /\ derived' = Nothing
    /\ fetched' = FALSE
    /\ wire' = <<>>
    /\ loading' = Nothing /\ refresh' = Nothing /\ patch' = Nothing
    /\ UNCHANGED <<server, cache, faults>>

Next ==
    \/ \E p \in Package, status \in Target :
          \/ \E lost \in BOOLEAN : EnginePublish(p, status, lost)
          \/ PatchShipment(p, status) \/ PatchElsewhere(p, status)
    \/ EngineCommit \/ EngineRollback
    \/ Receive
    \/ LoadFromCache \/ LoadAfresh \/ CoreLoaded \/ HistoryLoaded \/ LoadFails
    \/ \E p \in Package : LoadReadsPage(p) \/ RefreshReadsPage(p)
    \/ \E failed \in BOOLEAN : LoadReadsEvents(failed) \/ RefreshReadsEvents(failed)
    \/ Refresh \/ Refreshed \/ RefreshFails
    \/ PatchAccepted \/ PatchFails \/ PatchAnswered
    \/ Reload

Spec == Init /\ [][Next]_vars

\* The interval of load(), once started, fires for as long as the page lives.
TimerFires == tab.timer /\ Refresh

\* The page loads itself and its requests are answered; the engine ends its
\* transactions.  Nothing obliges a user to press Retry
\* or Refresh, the engine to move a parcel or a request to fail.
Fairness ==
    /\ WF_vars(EngineCommit \/ EngineRollback)
    /\ WF_vars(Receive)
    /\ WF_vars(tab.status = "idle" /\ (LoadFromCache \/ LoadAfresh))
    /\ WF_vars(\E p \in Package : LoadReadsPage(p))
    /\ WF_vars(LoadReadsEvents(FALSE))
    /\ WF_vars(CoreLoaded) /\ WF_vars(HistoryLoaded)
    /\ WF_vars(TimerFires)
    /\ WF_vars(\E p \in Package : RefreshReadsPage(p))
    /\ WF_vars(RefreshReadsEvents(FALSE))
    /\ WF_vars(Refreshed)
    /\ WF_vars(PatchAccepted \/ PatchFails) /\ WF_vars(PatchAnswered)

FairSpec == Spec /\ Fairness

----------------------------------------------------------------------------
\* PROPERTIES

TypeOK ==
    /\ row \in [Package -> Row] /\ log \in SUBSET Event /\ now \in Nat
    /\ tick \in Message \cup {Nothing} /\ published \in SUBSET Message
    /\ wire \in Seq(Message)
    /\ tab \in [status : {"idle", "loading", "ready", "error"}, stale : BOOLEAN,
                partial : BOOLEAN, refreshing : BOOLEAN, timer : BOOLEAN]
    /\ packages \in Rows /\ events \in SUBSET Event
    /\ cache \in [rows : Rows, events : SUBSET Event] \cup {Nothing}
    /\ fetched \in BOOLEAN
    /\ loading \in Answer \cup {Nothing} /\ refresh \in Answer \cup {Nothing}
    /\ patch \in [package : Package, status : PackageStatus, answer : Row \cup {Nothing}]
                 \cup {Nothing}
    /\ faults \in Nat /\ reloads \in Nat

\* A parcel had this status in the database, or the engine said that it did.
Real(p, status) == \E e \in log \cup published : e.package = p /\ e.status = status

\* Whatever order answers, live messages, caches and reloads come in, a parcel
\* is never shown in a status that the server did not give it or announce: the
\* tab merges rows and messages, it does not make states of its own.
ShownWasReal ==
    \A p \in Package : packages[p] # Nothing => Real(p, packages[p].status)

\* A parcel shown as delivered has its delivery date, whether a row or a live
\* message said so: the SLA of derive.ts:528 is judged on that date.
DeliveredHasDate ==
    \A p \in Package :
        packages[p] # Nothing /\ packages[p].status = "DELIVERED" => packages[p].dated

\* What is not called stale came from the server since the page was opened.
FreshMeansFetched == tab.status = "ready" /\ ~tab.stale => fetched

\* The figures on screen are those of the parcels and events in the store:
\* no change of theirs escapes the version the derivation depends on.
DerivedIsCurrent == derived = Derive(tab.status, packages, events)

\* "Still arriving" is said only while a load is bringing the history, and the
\* timer never runs on a page whose refresh() would return at once.
FlagsMeanWork ==
    /\ tab.partial => loading # Nothing
    /\ tab.refreshing <=> refresh # Nothing
    /\ tab.timer => tab.status = "ready"

\* With the timer running, the tab comes to show what the server has and
\* stays so: lost messages, rolled-back announcements, answers that overwrote
\* newer messages and other tabs' PATCHes are all made good by a refresh.
Converges == <>[](tab.timer => packages = row)

\* What is shown can be believed: its status and its delivery date.
ShownIsSound == ShownWasReal /\ DeliveredHasDate

\* What is said of the snapshot is so: stale, still arriving, refreshing.
FlagsAreHonest == FreshMeansFetched /\ FlagsMeanWork

=============================================================================
