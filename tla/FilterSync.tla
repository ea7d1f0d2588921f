----------------------------- MODULE FilterSync -----------------------------
(***************************************************************************)
(* The binding of the filter store to the address bar                      *)
(* (frontend/src/components/shell/FilterUrlSync.tsx) under everything a    *)
(* user does meanwhile: edits of the bar, cross-filters, links, drills,    *)
(* saved views, Back and Forward, reloads, in any order and before the     *)
(* previous navigation has arrived.                                        *)
(*                                                                         *)
(* Of React this module keeps: the effects due after a render run in the   *)
(* order they are written, with the filters of that render, and a change   *)
(* they make to the store is rendered before anything else happens.  Of    *)
(* the router: it has one navigation under way, which a later one          *)
(* replaces; the browser moves in its history at once on Back and Forward, *)
(* the page follows when the navigation arrives.                           *)
(***************************************************************************)
EXTENDS Filters

CONSTANTS
    Paths,      \* the pages, as strings
    Picks,    \* the <<key, value>> pairs a user picks from
    Sources,    \* the charts that make cross-filters
    Links,      \* the query parameters a page can be opened with
    PresetPicks, \* the windows of time a user picks from
    Dates,      \* the days a user picks from
    Searches,   \* the words a user searches for
    Null,       \* no navigation, nothing applied, nothing asked for
    MaxMoves,   \* bound: what the user does
    MaxEntries, \* bound: length of the browser's history
    MaxViews    \* bound: saved views

VARIABLES
    filters, cross,        \* the filter store
    entries, index,        \* the browser's history and its place in it
    shown,                 \* the page and parameters React has rendered
    pending,               \* the router's navigation
    lastApplied, lastPath, \* the refs of FilterUrlSync
    rendered,              \* the filters of the last render
    due,                   \* the effects that render left to run
    changed,               \* the store has changed since
    views,                 \* saved views
    asked,                 \* history: where the last thing the user did should lead
    crossPages,            \* history: the pages the cross-filters were made on
    overtaken,             \* history: a write to the URL gave way to a navigation of the user
    moves

store == <<filters, cross, crossPages>>
browser == <<entries, index, shown, pending>>
refs == <<lastApplied, lastPath>>
react == <<rendered, due, changed>>
user == <<views, asked, overtaken, moves>>
vars == <<store, browser, refs, react, user>>

Location == [ path : Paths, params : Links ]

\* What the user's choices can make of the filters, and of an address.
Lists == [ ListKeys -> SUBSET { choice[2] : choice \in Picks } ]
FilterValues ==
    [ preset : Presets, from : Dates \cup { None }, to : Dates \cup { None },
      search : Searches \cup { NoSearch }, lists : Lists ]
Params ==
    [ range : { None } \cup Presets \cup { link.range : link \in Links },
      from : Dates \cup { None }, to : Dates \cup { None }, q : Searches \cup { None },
      lists : Lists ]
Address == [ path : Paths, params : Params ]
Navigation == [ kind : { "push", "replace", "restore" }, to : Address ]

ASSUME ChoiceAssumption ==
    /\ PresetPicks \subseteq Presets
    /\ IsFiniteSet(Picks)
    /\ \A choice \in Picks : choice = <<choice[1], choice[2]>> /\ choice[1] \in ListKeys
    /\ Links \subseteq Params

ASSUME SentinelAssumption ==
    /\ None \notin Presets /\ None \notin Dates /\ None \notin Searches
    /\ Null \notin Paths /\ Null \notin Params /\ Null \notin Navigation

ASSUME EntriesAssumption == MaxEntries \in Nat \ { 0 }

\* A fresh page: the store is empty, both effects of the mount are due.
Init ==
    /\ filters = EmptyFilters /\ cross = {} /\ crossPages = {}
    /\ pending = Null
    /\ lastApplied = Null /\ lastPath = Null
    /\ rendered = EmptyFilters /\ due = { 1, 2 } /\ changed = FALSE
    /\ shown \in Location
    /\ entries = <<shown>> /\ index = 1
    /\ views = {} /\ asked = shown.params /\ overtaken = FALSE /\ moves = 0

----------------------------------------------------------------------------
\* The two effects, and the render a change of the store causes.

\* The parameters are applied, but not the empty ones of a page just opened,
\* nor those the store was written to.
Applies_SamePageOnly(moved, bare) == ~moved /\ shown.params # lastApplied   \* mutant
Applies(moved, bare) == ~(moved /\ bare) /\ shown.params # lastApplied

CrossAfter_Kept(moved) == cross   \* mutant
CrossAfter(moved) == IF moved THEN {} ELSE cross

\* The URL is applied to the store.
SyncFromUrl ==
    /\ 1 \in due
    /\ due' = due \ { 1 }
    /\ LET moved == lastPath # shown.path
           bare == shown.params = NoParams
           apply == Applies(moved, bare)
       IN  /\ lastPath' = shown.path
           /\ cross' = CrossAfter(moved)
           /\ crossPages' = IF cross' = {} THEN {} ELSE crossPages
           /\ lastApplied' = IF moved /\ bare THEN Null
                             ELSE IF apply THEN shown.params ELSE lastApplied
           /\ filters' = IF apply THEN ParamsToFilters(shown.params) ELSE filters
           /\ changed' = (changed \/ apply)
    /\ overtaken' = FALSE
    /\ UNCHANGED <<browser, rendered, views, asked, moves>>

\* The store is written to the URL.
SyncToUrl ==
    /\ due = { 2 }
    /\ due' = {}
    /\ LET desired == FiltersToParams(rendered)
       IN  IF desired = lastApplied THEN UNCHANGED <<lastApplied, pending>>
           ELSE /\ lastApplied' = desired
                /\ pending' = [kind |-> "replace", to |-> [path |-> shown.path, params |-> desired]]
    /\ UNCHANGED <<store, entries, index, shown, lastPath, rendered, changed, user>>

Render ==
    /\ changed /\ due = {}
    /\ rendered' = filters /\ due' = { 2 } /\ changed' = FALSE
    /\ UNCHANGED <<store, browser, refs, user>>

Idle == due = {} /\ ~changed

\* The router's navigation arrives.
Arrive ==
    /\ Idle /\ pending # Null
    /\ pending' = Null
    /\ shown' = pending.to
    /\ CASE pending.kind = "push" ->
              /\ entries' = Append(SubSeq(entries, 1, index), pending.to)
              /\ index' = index + 1
         [] pending.kind = "replace" ->
              /\ entries' = [entries EXCEPT ![index] = pending.to]
              /\ index' = index
         [] pending.kind = "restore" -> UNCHANGED <<entries, index>>
    /\ due' = IF shown' = shown THEN {} ELSE { 1 }
    /\ UNCHANGED <<store, refs, rendered, changed, user>>

----------------------------------------------------------------------------
\* The user.

Act == Idle /\ moves < MaxMoves /\ moves' = moves + 1

\* Any control of the filter bar: a window, one of the two dates or both, a
\* search, a value of a list, a list cleared.
Edits(f) ==
    { SetPreset(f, preset) : preset \in PresetPicks }
    \cup { SetRange(f, from, f.to) : from \in Dates \cup { None } }
    \cup { SetRange(f, f.from, to) : to \in Dates \cup { None } }
    \cup { SetRange(f, day, day) : day \in Dates }
    \cup { SetSearch(f, word) : word \in Searches \cup { NoSearch } }
    \cup { ToggleValue(f, choice[1], choice[2]) : choice \in Picks }
    \cup { SetList(f, choice[1], {}) : choice \in Picks }

Edit ==
    /\ Act
    /\ filters' \in Edits(filters)
    /\ changed' = TRUE /\ asked' = Null
    /\ UNCHANGED <<cross, crossPages, browser, refs, rendered, due, views, overtaken>>

ClearAll ==
    /\ Act
    /\ CountActive(filters, cross) > 0
    /\ filters' = EmptyFilters /\ cross' = {} /\ crossPages' = {}
    /\ changed' = TRUE /\ asked' = Null
    /\ UNCHANGED <<browser, refs, rendered, due, views, overtaken>>

CrossTo(set) ==
    /\ cross' = set
    /\ crossPages' = IF set = {} THEN {} ELSE crossPages \cup { shown.path }
    /\ UNCHANGED <<filters, browser, refs, react, views, asked, overtaken>>

\* A click in a chart, or on the x of a chip: the filters are the same object.
PickInChart(choice, source) == Act /\ CrossTo(ToggleCross(cross, choice[1], choice[2], source))
DropChip(c) == Act /\ CrossTo(RemoveCross(cross, c.key, c.value))

\* The user asks for an address; a write to the URL under way is dropped.
Ask(kind, to) ==
    /\ pending' = [kind |-> kind, to |-> to]
    /\ asked' = to.params
    /\ overtaken' = (overtaken \/ (pending # Null /\ pending.kind = "replace"))

Push(path, params) ==
    /\ index < MaxEntries
    /\ Ask("push", [path |-> path, params |-> params])
    /\ UNCHANGED <<store, entries, index, shown, refs, react, views>>

FollowLink(path) == Act /\ Push(path, NoParams)

\* useDrill: the current filters, with one of them overridden.
Drill(path, choice) ==
    Act /\ Push(path, FiltersToParams(SetList(filters, choice[1], { choice[2] })))

SaveView ==
    /\ Act
    /\ Cardinality(views) < MaxViews
    /\ views' = views \cup { [path |-> shown.path, params |-> FiltersToParams(filters)] }
    /\ UNCHANGED <<store, browser, refs, react, asked, overtaken>>

OpenView(view) == Act /\ Push(view.path, view.params)

\* Back and Forward.
Traverse(to) ==
    /\ Act
    /\ to # index
    /\ index' = to
    /\ Ask("restore", entries[to])
    /\ UNCHANGED <<store, entries, shown, refs, react, views>>

Reload ==
    /\ Act
    /\ filters' = EmptyFilters /\ cross' = {} /\ crossPages' = {}
    /\ pending' = Null
    /\ lastApplied' = Null /\ lastPath' = Null
    /\ rendered' = EmptyFilters /\ due' = { 1, 2 } /\ changed' = FALSE
    /\ shown' = entries[index] /\ asked' = entries[index].params
    /\ overtaken' = FALSE
    /\ UNCHANGED <<entries, index, views>>

Navigate ==
    \/ \E path \in Paths : FollowLink(path) \/ \E choice \in Picks : Drill(path, choice)
    \/ SaveView
    \/ \E view \in views : OpenView(view)
    \/ \E to \in { index - 1, index + 1 } \cap DOMAIN entries : Traverse(to)
    \/ Reload

Next ==
    \/ SyncFromUrl \/ SyncToUrl \/ Render \/ Arrive
    \/ Edit \/ ClearAll
    \/ \E choice \in Picks, source \in Sources : PickInChart(choice, source)
    \/ \E c \in cross : DropChip(c)
    \/ Navigate

Spec == Init /\ [][Next]_vars

----------------------------------------------------------------------------
\* PROPERTIES

Settled == Idle /\ pending = Null

TypeOK ==
    /\ filters.preset \in Presets /\ filters.lists \in [ListKeys -> SUBSET { c[2] : c \in Picks }]
    /\ \A c \in cross : <<c.key, c.value>> \in Picks /\ c.source \in Sources
    /\ index \in DOMAIN entries /\ Len(entries) <= MaxEntries
    /\ \A i \in DOMAIN entries : entries[i].path \in Paths
    /\ due \subseteq { 1, 2 } /\ changed \in BOOLEAN
    /\ lastPath \in Paths \cup { Null } /\ crossPages \subseteq Paths

(* A URL that carries filters is authoritative (FilterUrlSync.tsx:11): when *)
(* everything has come to rest the page shows what its address says, so     *)
(* the address can be shared; and the address is the page's.  The one way   *)
(* out is to overtake a write to the URL with a navigation to the address   *)
(* still shown: nothing changes then, and the effect does not run.          *)
UrlIsAuthoritative ==
    Settled =>
        /\ entries[index] = shown
        /\ shown.params # NoParams /\ ~overtaken => filters = ParamsToFilters(shown.params)

(* A drill, a deep link, a saved view or a step back whose address carries  *)
(* filters ends with those filters in force, whatever the effects did on    *)
(* the way (on a deep link they first ask for the bare address), unless the *)
(* user did something else before it arrived.                               *)
RequestHonoured ==
    Settled /\ ~overtaken /\ asked # Null /\ asked # NoParams =>
        filters = ParamsToFilters(asked)

(* Cross-filters are page-scoped (FilterUrlSync.tsx:14): none made on one   *)
(* page narrows the view of another, and none is dropped while its page is  *)
(* on screen unless the user drops it.                                      *)
CrossFiltersOfThisPage == Settled => crossPages \subseteq { shown.path }

(* Whatever narrows the view, the bar offers to clear (FilterBar.tsx:163):  *)
(* only the filters of a fresh page count as none.                          *)
NothingHiddenUncounted ==
    CountActive(filters, cross) = 0 => filters = EmptyFilters /\ cross = {}

(* "Navigating to a page whose URL carries none keeps the current filters   *)
(* and writes them into the new URL" (FilterUrlSync.tsx:13).                *)
AddressCarriesFilters == Settled => shown.params = FiltersToParams(filters)

(* "Both layers apply as AND constraints" (filters.ts:19): a value that the *)
(* bar rules out is not let in again by a cross-filter.                     *)
CrossFiltersNarrow ==
    \A choice \in Picks :
        ListMatch(EffectiveLists(filters, cross)[choice[1]], { choice[2] })
        => ListMatch(filters.lists[choice[1]], { choice[2] })

(* The address is obeyed: at rest, and when something else was asked for    *)
(* on the way.                                                              *)
AddressIsObeyed == UrlIsAuthoritative /\ RequestHonoured

(* Nothing narrows the view unseen: no cross-filter of another page, and    *)
(* none that the bar does not count.                                        *)
NothingNarrowsUnseen == CrossFiltersOfThisPage /\ NothingHiddenUncounted

=============================================================================
