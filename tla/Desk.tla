-------------------------------- MODULE Desk --------------------------------
(***************************************************************************)
(* The operator's desk: the exception queue (app/exceptions/page.tsx,      *)
(* drawer/ExceptionDetail.tsx), bulk actions on shipments                  *)
(* (app/shipments/page.tsx), one shipment's action                         *)
(* (drawer/ShipmentDetail.tsx) and rider assignment                        *)
(* (app/dispatch/page.tsx), over the stores they write: ops.ts, which each *)
(* tab keeps whole and saves whole to localStorage, the snapshot's rows,   *)
(* and the server behind PATCH (data/actions.ts).                          *)
(*                                                                         *)
(* A handler that awaits goes on with the rows it was started with,        *)
(* whatever page is open by then.  The server takes a PATCH in one step,   *)
(* and its answer is handled in a later one, unless it is lost or the tab  *)
(* is reloaded meanwhile; that a PATCH is refused is one step.  The race   *)
(* of two PATCHes is PackageStore's, that of the snapshot DataStore's.     *)
(***************************************************************************)
EXTENDS OpsStore, DataTable, PackageLifecycle, FiniteSets

CONSTANTS
    Exception,      \* the sequence of those that may be raised, in the order of the list
    PriorityOf, LabelOf, TypeOf, CityOf, DivisionOf, Priorities, \* the last is a sequence
    Areas,          \* what the filters for cities and divisions are set to: { } lets everything pass
    Linked,         \* the types of exceptions that links lead to (ai/brief.ts:146)
    Parcel,         \* the sequence of parcels, highest risk first
    Rider,          \* the sequence of riders
    CityOfParcel, CityOfRider, OffDuty, Score,
    Overloaded,     \* a rider with so many parcels is (6)
    Batch,          \* auto-assign takes so many (10)
    Nodes, Start,   \* Start: the rows of the server at first
    Here, There,    \* the two tabs; the pages of There are left out, not its drawer
    Roles, Users, Pages, PageSizes,
    Long, Short,    \* the two snoozes, 24 h and 4 h
    Budgets         \* bounds: how often the user may act, look about or reload, and the rest act

ASSUME RosterAssumption ==
    /\ Exception \in Seq(ToSet(Exception)) /\ DOMAIN LabelOf = ToSet(Exception)
    /\ Priorities \in Seq(ToSet(Priorities))
    /\ Parcel \in Seq(ToSet(Parcel)) /\ Rider \in Seq(ToSet(Rider)) /\ None \notin ToSet(Rider)
    /\ Score \in [ ToSet(Rider) -> 0 .. 100 ]   \* a percentage
    /\ Start \in [ ToSet(Parcel) -> [ status : PackageStatus, node : Nodes \cup { None },
                                     rider : ToSet(Rider) \cup { None } ] ]

ASSUME PortalAssumption ==
    /\ "super_admin" \in Roles /\ "Operator" \in Users /\ Here # There
    /\ Long \in Nat /\ Short \in Nat /\ Overloaded \in Nat /\ Batch \in Nat \ { 0 }
    /\ PageSizes \in SUBSET (Nat \ { 0 }) /\ PageSizes # {}

VARIABLES
    ops, stored,    \* the store of each tab; localStorage
    held,           \* history: of what Here saved last, There has loaded it ("known"), has not
                    \* ("unknown"), or has saved its own over it ("overwritten")
    page, table, shows,      \* of Here: its page, and table and filters of the exception queue
    area,           \* and the portal's filters for cities and divisions
    raised,         \* the exceptions the snapshot shows
    clock, minute,  \* the time; derived.now, which follows it by the minute
    server, rows,   \* the packages, and what the snapshot of Here has of them
    jobs,           \* the handlers of Here under way
    accepted,       \* history: the PATCHes of Here that the server has accepted
    excused,        \* history: of these, whose answer was lost, and whose entry was overwritten
    left

saved == <<ops, stored, held>>
queue == <<page, table, shows, area>>
ledger == <<accepted, excused>>
parcels == <<server, rows, jobs, ledger>>
vars == <<saved, queue, raised, clock, minute, parcels, left>>

Tab == { Here, There }

Spend(what) == left[what] > 0 /\ left' = [ left EXCEPT ![what] = @ - 1 ]

\* Every change of the store is saved, the whole of it.
Stored(t, new) ==
    /\ ops' = [ ops EXCEPT ![t] = new ] /\ stored' = new
    /\ held' = IF t = Here THEN "unknown" ELSE IF held = "known" THEN held ELSE "overwritten"

----------------------------------------------------------------------------
\* The exception queue.

AllFilters == [ status |-> "active", priority |-> "all", type |-> "all" ]

\* A link may name a type.
OnArrival == { [ AllFilters EXCEPT !.type = type ] : type \in { "all" } \cup Linked }

Everywhere == [ cities |-> { }, divisions |-> { } ]

\* Where a filter is set, what has no city, or no division, is hidden too.
InArea(e) ==
    /\ area.cities = { } \/ CityOf[e] \in area.cities
    /\ area.divisions = { } \/ DivisionOf[e] \in area.divisions

Scoped == Kept(Exception, { e \in raised : InArea(e) })

Listed(e) ==
    LET status == StatusOf(ops[Here], e, minute)
    IN  /\ shows.type \in { "all", TypeOf[e] } /\ shows.priority \in { "all", PriorityOf[e] }
        /\ CASE shows.status = "active" -> status \notin { "resolved", "snoozed" }
             [] shows.status = "all" -> TRUE
             [] OTHER -> status = shows.status

Rows == Kept(Scoped, { e \in raised : Listed(e) })

\* The queue is not sorted at first; the table sorts what passes the filters.
QueueRows == Sorted(Rows, table.sort, Priorities, PriorityOf)

OnQueue == page = "exceptions" /\ RoleAllows(ops[Here].role, page)

Browse(newTable, newShows) ==
    /\ Spend("look") /\ OnQueue
    /\ table' = newTable /\ shows' = newShows /\ <<table, shows>>' # <<table, shows>>
    /\ UNCHANGED <<saved, page, area, raised, clock, minute, parcels>>

BrowseTable ==
    \/ Browse(ToggleSort(table), shows)
    \/ \E size \in PageSizes : Browse(SetPageSize(table, size), shows)
    \/ SafePage(table, QueueRows) > 0 /\ Browse(TurnPage(table, QueueRows, FALSE), shows)
    \/ /\ SafePage(table, QueueRows) < PageCount(table, QueueRows) - 1
       /\ Browse(TurnPage(table, QueueRows, TRUE), shows)

Select ==
    /\ CanAct(ops[Here])
    /\ \/ \E r \in ToSet(PageRows(table, QueueRows)) : Browse(ToggleOne(table, r), shows)
       \/ Browse(ToggleAll(table, QueueRows), shows)

\* A figure clicked again shows what there was before; a tab stays.  The bars
\* of the types do both, for fewer types than have a tab.
FilterQueue ==
    \/ \E p \in ToSet(Priorities) :
          Browse(table, [ shows EXCEPT !.priority = IF @ = p THEN "all" ELSE p ])
    \/ \E status \in WorkflowStatus \ { "snoozed" } :
          Browse(table, [ shows EXCEPT !.status = IF @ = status THEN "active" ELSE status ])
    \/ \E tab \in { "active", "snoozed", "all" } : Browse(table, [ shows EXCEPT !.status = tab ])
    \/ \E type \in { "all" } \cup { TypeOf[e] : e \in ToSet(Scoped) } :
          Browse(table, [ shows EXCEPT !.type = type ])

\* The filter bar and the charts, whatever page is open.
Focus(new) ==
    /\ Spend("look") /\ new # area /\ area' = new
    /\ UNCHANGED <<saved, page, table, shows, raised, clock, minute, parcels>>

\* An empty list offers to clear every filter.
ClearFilters ==
    /\ Spend("look") /\ OnQueue /\ Rows = << >>
    /\ shows' = AllFilters /\ area' = Everywhere
    /\ UNCHANGED <<saved, page, table, raised, clock, minute, parcels>>

Own(user) == Patch("assigned", user, None)
Snooze(long) == Patch("snoozed", None, clock + (IF long THEN Long ELSE Short))
Mark(status) == Patch(status, None, None)

Bulk_Everything(patch) ==   \* mutant: what the filters hide is still selected
    /\ Spend("user") /\ OnQueue /\ CanAct(ops[Here]) /\ SelectedRows(table, Rows) # << >>
    /\ Stored(Here, UpdateExceptions(ops[Here], SelectedRows(table, Scoped), patch, LabelOf))
    /\ table' = [ table EXCEPT !.selected = {} ]
    /\ UNCHANGED <<page, shows, area, raised, clock, minute, parcels>>
Bulk(patch) ==
    LET chosen == SelectedRows(table, Rows)
    IN  /\ Spend("user") /\ OnQueue /\ CanAct(ops[Here]) /\ chosen # << >>
        /\ Stored(Here, UpdateExceptions(ops[Here], chosen, patch, LabelOf))
        /\ table' = [ table EXCEPT !.selected = {} ]
        /\ UNCHANGED <<page, shows, area, raised, clock, minute, parcels>>

BulkAction ==
    \/ Bulk(Own(ops[Here].user)) \/ Bulk(Snooze(TRUE))
    \/ Bulk(Mark("escalated")) \/ Bulk(Mark("resolved"))

\* The drawer of an exception opens on any page, and knows no time.
Work(t, new) ==
    /\ Spend("user") /\ CanAct(ops[t])
    /\ Stored(t, new)
    /\ UNCHANGED <<queue, raised, clock, minute, parcels>>

WorkInDrawer(t, e) ==
    LET status == WorkflowOf(ops[t], e).status
        do(patch) == Work(t, UpdateException(ops[t], e, patch, LabelOf))
    IN  /\ e \in raised
        /\ \/ /\ status # "resolved"
              /\ \/ \E u \in Users : do(Own(u))   \* to me, or to somebody by name
                 \/ do(Snooze(FALSE))
                 \/ do(Mark("resolved"))
                 \/ status # "escalated" /\ do(Mark("escalated"))
           \/ status = "resolved" /\ do(Mark("open"))
           \/ Work(t, AddExceptionNote(ops[t], e))

----------------------------------------------------------------------------
\* Assigning riders and moving parcels.

Row(status, node, rider) == [ status |-> status, node |-> node, rider |-> rider ]

Load(r) == Cardinality({ p \in DOMAIN rows : rows[p].rider = r /\ ~IsTerminal(rows[p].status) })

NextStatusFor(row) ==
    CASE row.status \in { "ARRIVED_AT_DESTINATION_HUB", "RESCHEDULED" } -> "OUT_FOR_DELIVERY"
      [] row.status = "PACKAGE_CREATED" -> "PICKUP_ASSIGNED"
      [] OTHER -> None

Queue ==
    Kept(Parcel, { p \in ToSet(Parcel) : NextStatusFor(rows[p]) # None /\ rows[p].rider = None })

\* In the city, on duty, not overloaded when the snapshot was last looked at;
\* the lightest, then the best, then the first.
Pool(p, base) ==
    { i \in DOMAIN Rider : /\ CityOfRider[Rider[i]] = CityOfParcel[p]
                           /\ Rider[i] \notin OffDuty /\ base[Rider[i]] < Overloaded }

RecommendRider_Forgetful(p, base, given) ==   \* mutant: forgets what it has just given
    IF Pool(p, base) = {} THEN None
    ELSE Rider[CHOOSE i \in Pool(p, base) :
                  \A j \in Pool(p, base) : base[Rider[i]] <= base[Rider[j]]]
RecommendRider(p, base, given) ==
    LET load(i) == base[Rider[i]] + given[Rider[i]]
        before(i, j) == \/ load(i) < load(j)
                        \/ /\ load(i) = load(j)
                           /\ \/ Score[Rider[i]] > Score[Rider[j]]
                              \/ Score[Rider[i]] = Score[Rider[j]] /\ i <= j
    IN  IF Pool(p, base) = {} THEN None
        ELSE Rider[CHOOSE i \in Pool(p, base) : \A j \in Pool(p, base) : before(i, j)]

\* A job keeps the rows and the loads it was started with; its page, while it
\* is shown, keeps its button disabled.  Its answer is << >>, or once the server
\* has accepted a request and until that is known, the row and the entry for the log.
Job(kind, todo, status, rider) ==
    [ kind |-> kind, todo |-> [ i \in DOMAIN todo |-> <<todo[i], rows[todo[i]]>> ],
      status |-> status, rider |-> rider, shown |-> TRUE, answer |-> << >>,
      base |-> [ r \in ToSet(Rider) |-> Load(r) ], given |-> [ r \in ToSet(Rider) |-> 0 ] ]

Begin(job) ==
    /\ Spend("user") /\ CanAct(ops[Here])
    /\ jobs' = Append(jobs, job)
    /\ UNCHANGED <<saved, queue, raised, clock, minute, server, rows, ledger>>

On(p) == page = p /\ RoleAllows(ops[Here].role, p)

\* The actions every selected shipment allows.
CommonTransitions(selected) ==
    { status \in PackageStatus : \A p \in selected : IsValidTransition(rows[p].status, status) }

ApplyBulk ==
    /\ On("shipments") /\ \A i \in DOMAIN jobs : ~(jobs[i].kind = "bulk" /\ jobs[i].shown)
    /\ \E selected \in (SUBSET ToSet(Parcel)) \ { {} } :
          \E status \in CommonTransitions(selected) :
             Begin(Job("bulk", Kept(Parcel, selected), status, None))

\* The drawer's own action; a rider goes with the two hand-overs only.
Act(p) ==
    \E status \in NextPossibleStatuses(rows[p].status) :
       \E rider \in { None } \cup { r \in ToSet(Rider) : CityOfRider[r] = CityOfParcel[p]
                                        /\ status \in { "PICKUP_ASSIGNED", "OUT_FOR_DELIVERY" } } :
          Begin(Job("act", << p >>, status, rider))

Assign(p) ==
    /\ On("dispatch") /\ p \in ToSet(Queue)
    /\ \A i \in DOMAIN jobs : jobs[i].kind = "assign" /\ jobs[i].shown => jobs[i].todo[1][1] # p
    /\ \E rider \in { None } \cup { r \in ToSet(Rider) : CityOfRider[r] = CityOfParcel[p]
                                                          /\ r \notin OffDuty } :
          Begin(Job("assign", << p >>, NextStatusFor(rows[p]), rider))

AutoAssign ==
    /\ On("dispatch") /\ Queue # << >>
    /\ Begin(Job("auto", SubSeq(Queue, 1, IF Len(Queue) < Batch THEN Len(Queue) ELSE Batch), None, None))

\* PATCH: the node and the rider stay as they are if the request leaves them out.
Patched(p, status, node, rider) ==
    Row(status, IF node = None THEN server[p].node ELSE node,
        IF rider = None THEN server[p].rider ELSE rider)

\* What a job asks for next.
Asked(job) ==
    LET p == job.todo[1][1]
        row == job.todo[1][2]
    IN  IF job.kind = "auto"
        THEN [ parcel |-> p, node |-> row.node, status |-> NextStatusFor(row),
               rider |-> RecommendRider(p, job.base, job.given) ]
        ELSE [ parcel |-> p, node |-> row.node, status |-> job.status, rider |-> job.rider ]

\* Auto-assign passes over a parcel for which it has nobody.
Asks(job) == ~(job.kind = "auto" /\ Asked(job).rider = None)

\* A change of status in the log, and what a log says the server has accepted.
Written(status, p) == [ action |-> status, target |-> p, scope |-> "api" ]

EntryOf(job) == Written(Asked(job).status, Asked(job).parcel)

Told(log) == { Written(a.action, a.target) : a \in { b \in ToSet(log.audit) : b.scope = "api" } }

InFlight == { jobs[k].answer[2] : k \in { i \in DOMAIN jobs : jobs[i].answer # << >> } }

Without(seq, k) == SubSeq(seq, 1, k - 1) \o SubSeq(seq, k + 1, Len(seq))

\* The handler's loop goes on, whatever became of the request, and ends with
\* its last parcel.  A rider who was asked for counts one more.
GoesOn(k) ==
    LET job == jobs[k]
        given == IF job.kind = "auto" /\ Asks(job)
                 THEN [ job.given EXCEPT ![Asked(job).rider] = @ + 1 ] ELSE job.given
        on == [ job EXCEPT !.todo = Tail(@), !.answer = << >>, !.given = given ]
    IN  jobs' = IF on.todo = << >> THEN Without(jobs, k) ELSE [ jobs EXCEPT ![k] = on ]

\* The server accepts a request.
TakesPatch(k) ==
    LET ask == Asked(jobs[k])
        row == Patched(ask.parcel, ask.status, ask.node, ask.rider)
    IN  /\ jobs[k].answer = << >> /\ Asks(jobs[k])
        /\ IsValidTransition(server[ask.parcel].status, ask.status)
        /\ server' = [ server EXCEPT ![ask.parcel] = row ]
        /\ jobs' = [ jobs EXCEPT ![k].answer = <<row, EntryOf(jobs[k])>> ]
        /\ accepted' = accepted \cup { EntryOf(jobs[k]) }
        /\ UNCHANGED <<saved, queue, raised, clock, minute, rows, excused, left>>

\* There is no request, or the server refuses it; the handler catches that.
Refused(k) ==
    LET ask == Asked(jobs[k])
    IN  /\ jobs[k].answer = << >>
        /\ Asks(jobs[k]) => ~IsValidTransition(server[ask.parcel].status, ask.status)
PassesOver_Logs(k) ==   \* mutant: the entry is written whatever the server says
    /\ Refused(k) /\ GoesOn(k)
    /\ Stored(Here, LogAction(ops[Here], EntryOf(jobs[k])))
    /\ UNCHANGED <<queue, raised, clock, minute, server, rows, ledger, left>>
PassesOver(k) ==
    /\ Refused(k) /\ GoesOn(k)
    /\ UNCHANGED <<saved, queue, raised, clock, minute, server, rows, ledger, left>>

\* The answer becomes the row, and the log says so.
TransitionShipment(k) ==
    /\ jobs[k].answer # << >> /\ GoesOn(k)
    /\ rows' = [ rows EXCEPT ![jobs[k].answer[2].target] = jobs[k].answer[1] ]
    /\ Stored(Here, LogAction(ops[Here], jobs[k].answer[2]))
    /\ UNCHANGED <<queue, raised, clock, minute, server, ledger, left>>

\* The call fails on its way there, or on its way back; the handler cannot tell.
CallFails(k) ==
    /\ Spend("rest") /\ Asks(jobs[k]) /\ GoesOn(k)
    /\ excused' = IF jobs[k].answer = << >> THEN excused ELSE excused \cup { jobs[k].answer[2] }
    /\ UNCHANGED <<saved, queue, raised, clock, minute, server, rows, accepted>>

JobStep(k) == TakesPatch(k) \/ PassesOver(k) \/ TransitionShipment(k) \/ CallFails(k)

----------------------------------------------------------------------------
\* Pages, roles, tabs.

GoTo(to) ==
    /\ Spend("look") /\ to # page
    /\ page' = to
    /\ table' = NewTable(CHOOSE size \in PageSizes : \A other \in PageSizes : size <= other)
    /\ shows' \in OnArrival
    /\ jobs' = [ k \in DOMAIN jobs |-> [ jobs[k] EXCEPT !.shown = FALSE ] ]
    /\ UNCHANGED <<saved, area, raised, clock, minute, server, rows, ledger>>

\* On the Administration page.
SwitchRole(role) ==
    /\ Spend("user") /\ page = "admin"
    /\ Stored(Here, SetRole(ops[Here], role))
    /\ UNCHANGED <<queue, raised, clock, minute, parcels>>

Rename(user) ==
    /\ Spend("user") /\ page = "admin" /\ user # ops[Here].user
    /\ Stored(Here, SetUserName(ops[Here], user))
    /\ UNCHANGED <<queue, raised, clock, minute, parcels>>

\* A reload reads what was saved last, by either tab, and forgets every handler,
\* those whose request has been accepted too.
Reload(t) ==
    /\ Spend("look")
    /\ ops' = [ ops EXCEPT ![t] = stored ] /\ UNCHANGED <<stored, server, accepted>>
    /\ IF t = There
       THEN /\ held' = IF held = "unknown" THEN "known" ELSE held
            /\ UNCHANGED <<table, shows, rows, jobs, excused>>
       ELSE /\ held' = IF held = "overwritten" THEN "known" ELSE held
            /\ table' = NewTable(table.size) /\ shows' \in OnArrival
            /\ rows' = server /\ jobs' = << >>
            /\ excused' = IF held = "overwritten" THEN accepted ELSE excused \cup InFlight
    /\ UNCHANGED <<page, area, raised, clock, minute>>

----------------------------------------------------------------------------
\* What the rest of the system does.

\* A condition shows in the data, or no longer does.
Detect(e) ==
    /\ Spend("rest")
    /\ raised' = IF e \in raised THEN raised \ { e } ELSE raised \cup { e }
    /\ UNCHANGED <<saved, queue, clock, minute, parcels>>

TimePasses ==
    /\ Spend("rest") /\ clock' = clock + 1
    /\ UNCHANGED <<saved, queue, raised, minute, parcels>>

MinutePasses ==
    /\ minute # clock /\ minute' = clock
    /\ UNCHANGED <<saved, queue, raised, clock, parcels, left>>

\* The engine moves a parcel on, at a hub it has reached.
EngineMoves(p) ==
    /\ Spend("rest")
    /\ \E status \in NextPossibleStatuses(server[p].status) \ { "CANCELLED" }, node \in Nodes :
          /\ status \notin { "ARRIVED_AT_HUB", "ARRIVED_AT_DESTINATION_HUB" } => node = server[p].node
          /\ server' = [ server EXCEPT ![p] = Row(status, node, server[p].rider) ]
    /\ UNCHANGED <<saved, queue, raised, clock, minute, rows, jobs, ledger>>

\* The live event carries the status and nothing else; a refresh carries the row.
LiveEvent(p) ==
    /\ rows[p].status # server[p].status
    /\ rows' = [ rows EXCEPT ![p].status = server[p].status ]
    /\ UNCHANGED <<saved, queue, raised, clock, minute, server, jobs, ledger, left>>

RefreshRows ==
    /\ Spend("rest") /\ rows # server /\ rows' = server
    /\ UNCHANGED <<saved, queue, raised, clock, minute, server, jobs, ledger>>

----------------------------------------------------------------------------
Init ==
    /\ stored = FreshOps /\ ops = [ t \in Tab |-> FreshOps ] /\ held = "known"
    /\ left \in Budgets
    /\ page \in Pages   \* a link may lead to any
    /\ table = NewTable(CHOOSE size \in PageSizes : \A other \in PageSizes : size <= other)
    /\ shows \in OnArrival /\ area = Everywhere
    /\ raised = ToSet(Exception)
    /\ clock = 1 /\ minute = 1
    /\ server = Start /\ rows = Start /\ jobs = << >> /\ accepted = {} /\ excused = {}

User ==
    \/ BrowseTable \/ Select \/ FilterQueue \/ ClearFilters \/ BulkAction
    \/ \E new \in Areas : Focus(new)
    \/ \E t \in Tab, e \in ToSet(Exception) : WorkInDrawer(t, e)
    \/ ApplyBulk \/ AutoAssign
    \/ \E p \in ToSet(Parcel) : Act(p) \/ Assign(p)
    \/ \E to \in Pages : GoTo(to)
    \/ \E role \in Roles : SwitchRole(role)
    \/ \E user \in Users : Rename(user)
    \/ \E t \in Tab : Reload(t)

Rest ==
    \/ \E k \in DOMAIN jobs : JobStep(k)
    \/ \E e \in ToSet(Exception) : Detect(e)
    \/ TimePasses \/ MinutePasses
    \/ \E p \in ToSet(Parcel) : EngineMoves(p) \/ LiveEvent(p)
    \/ RefreshRows

Next == User \/ Rest

Spec == Init /\ [][Next]_vars

----------------------------------------------------------------------------
\* PROPERTIES

TypeOK ==
    /\ \A t \in Tab : /\ ops[t].role \in Roles /\ ops[t].user \in Users
                      /\ Len(ops[t].audit) <= MaxAudit
                      /\ DOMAIN ops[t].exceptions \subseteq ToSet(Exception)
                      /\ \A e \in DOMAIN ops[t].exceptions :
                            ops[t].exceptions[e].status \in WorkflowStatus
    /\ page \in Pages /\ minute <= clock
    /\ table.selected \subseteq ToSet(Exception)
    /\ \A p \in ToSet(Parcel) : server[p].status \in PackageStatus /\ rows[p].status \in PackageStatus
    /\ \A k \in DOMAIN jobs : jobs[k].todo # << >>

(* "Workflow state is kept in this portal and audited"                      *)
(* (ExceptionDetail.tsx:112): in every tab, whichever tab saved last and    *)
(* whichever was reloaded, an exception that is not open was put so by an   *)
(* entry of the log, the last about its workflow or another's of the same   *)
(* name, unless the log is full.                                            *)
WorkflowIsAudited ==
    \A t \in Tab : Len(ops[t].audit) < MaxAudit =>
        \A e \in DOMAIN ops[t].exceptions :
            LET w == ops[t].exceptions[e]
                about == { i \in DOMAIN ops[t].audit : ops[t].audit[i].target = LabelOf[e] }
            IN  w.status # "open" => \E i \in about : ops[t].audit[i].action = w.status

(* "Every one of these hits the backend, patches the local snapshot with    *)
(* the response, and leaves an audit entry" (actions.ts:9): no entry tells  *)
(* of a change the server has not accepted, and of those it has, however    *)
(* many handlers run, fail and are left behind and whichever tab saves and  *)
(* is reloaded, each has an entry, but for those still awaited, those whose *)
(* answer was lost or whose handler a reload ended, and those another tab   *)
(* has saved over; unless the log is full.                                  *)
AuditTellsOfWrites ==
    /\ Told(ops[Here]) \subseteq accepted
    /\ Len(ops[Here].audit) < MaxAudit =>
          accepted \subseteq Told(ops[Here]) \cup InFlight \cup excused

(* False of the code: an answer that is lost, or a reload between the       *)
(* server's acceptance and the answer, leaves a change without its entry.   *)
EveryWriteIsAudited ==
    Len(ops[Here].audit) < MaxAudit => accepted \subseteq Told(ops[Here]) \cup InFlight

(* False of the code, of which ops.ts:10 says that the log "of every        *)
(* action" survives reloads: each tab saves the whole of its store, and so  *)
(* takes the entries out of localStorage that another has made since it was *)
(* loaded.                                                                  *)
ActionsSurviveReloads ==
    [][ Len(ops[Here].audit) < MaxAudit => Told(ops[Here]) \subseteq Told(ops'[Here]) ]_vars

(* A bulk action changes what its button counts: exceptions that are        *)
(* selected and still in the list, on any page of it, and none of those     *)
(* that a filter, another tab's work or the end of the condition has        *)
(* hidden; and nothing stays selected (exceptions/page.tsx:104).            *)
BulkTakesWhatItCounts ==
    [][ LET changed == { e \in ToSet(Exception) :
                            WorkflowOf(ops'[Here], e) # WorkflowOf(ops[Here], e) }
        IN  table' # table /\ ops'[Here] # ops[Here] /\ ops'[Here] # stored =>
                /\ changed \subseteq ToSet(SelectedRows(table, Rows))
                /\ table'.selected = {} ]_vars

(* While there are rows the table shows some of them, however they shrink   *)
(* under the page that was turned to (DataTable.tsx:110), and the pages     *)
(* together show each row once.                                             *)
PagesShowTheRows ==
    LET rowsOfQueue == QueueRows
        shown(n) == PageRows([ table EXCEPT !.page = n ], rowsOfQueue)
        pages == [ n \in 1 .. PageCount(table, rowsOfQueue) |-> shown(n - 1) ]
    IN  /\ rowsOfQueue # << >> => PageRows(table, rowsOfQueue) # << >>
        /\ FlattenSeq(pages) = rowsOfQueue

(* "Same city, idle first, then lightest load" (dispatch/page.tsx:33) holds *)
(* of a whole batch: of two riders it may choose, neither is given a parcel *)
(* beyond one more than the other has.                                      *)
AutoAssignLevels ==
    \A k \in DOMAIN jobs : jobs[k].kind = "auto" =>
        LET job == jobs[k]
            free(r) == r \notin OffDuty /\ job.base[r] < Overloaded
        IN  \A a, b \in ToSet(Rider) :
                /\ job.given[a] > 0 => free(a)
                /\ CityOfRider[a] = CityOfRider[b] /\ free(b) /\ job.given[a] > 0 =>
                      job.base[a] + job.given[a] <= job.base[b] + job.given[b] + 1

(* A change of status from the portal leaves the parcel where it is: the    *)
(* node sent with it is meant to be the one it has (dispatch/page.tsx:67).  *)
AssigningMovesNoParcel ==
    [][ server' # server /\ jobs' # jobs => \A p \in ToSet(Parcel) : server'[p].node = server[p].node ]_vars

(* A snooze ends on every list once its time has passed.                    *)
SnoozeEndsEverywhere ==
    \A e \in raised :
        LET w == WorkflowOf(ops[Here], e)
        IN  w.status = "snoozed" /\ w.until < minute => ListedElsewhere(ops[Here], e)

(* The log is the truth about the operator's work: of exceptions and of     *)
(* parcels, in both tabs, through failures, reloads and handlers left.      *)
LogIsTrue == WorkflowIsAudited /\ AuditTellsOfWrites

=============================================================================
