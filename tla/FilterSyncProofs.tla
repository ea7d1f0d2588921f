-------------------------- MODULE FilterSyncProofs --------------------------
(***************************************************************************)
(* Proofs about FilterSync: whatever the user does and whenever the router *)
(* arrives, the address is obeyed, the last request is honoured and the    *)
(* cross-filters are those of the page, for every set of pages, links,     *)
(* values and dates and every length of the history.                       *)
(*                                                                         *)
(* Two facts carry the proof.  A filter survives the way to the address    *)
(* and back (RoundTrip), so an address the store was written to says what  *)
(* the store holds.  And between two renders lastApplied names either      *)
(* nothing or the filters themselves (EffectsInTurn), so when the first    *)
(* effect skips an address because it is lastApplied, the store is what    *)
(* that address says.                                                      *)
(***************************************************************************)
EXTENDS FilterSync, FiniteSetTheorems, SequenceTheorems, TLAPS

----------------------------------------------------------------------------
\* The inductive invariant.

\* The dates belong to the custom window.
Dated(f) == f.preset # "custom" => f.from = None /\ f.to = None

FilterOK(f) == f \in FilterValues /\ Dated(f)

StoreTyped ==
    /\ FilterOK(filters) /\ FilterOK(rendered)
    /\ IsFiniteSet(cross)
    /\ \A c \in cross : <<c.key, c.value>> \in Picks /\ c.source \in Sources
    /\ crossPages \subseteq Paths

BrowserTyped ==
    /\ shown \in Address
    /\ entries \in Seq(Address) /\ index \in 1 .. Len(entries) /\ Len(entries) <= MaxEntries
    /\ pending \in Navigation \cup { Null }
    /\ pending # Null /\ pending.kind = "push" => index < MaxEntries

HookTyped ==
    /\ lastApplied \in Params \cup { Null } /\ lastPath \in Paths \cup { Null }
    /\ due \in SUBSET { 1, 2 } /\ changed \in BOOLEAN
    /\ views \subseteq Address
    /\ asked \in Params \cup { Null } /\ overtaken \in BOOLEAN

Typed == StoreTyped /\ BrowserTyped /\ HookTyped

\* The store is being written to the URL.
Writing == pending # Null /\ pending.kind = "replace"

\* The page is where the browser's history is, or on its way there.
Placed ==
    /\ pending = Null => entries[index] = shown
    /\ pending # Null /\ pending.kind = "restore" => pending.to = entries[index]

\* The first effect runs on a rendered store with no navigation under way.
\* When both are through, lastApplied names the filters, or nothing; a write
\* under way is of lastApplied, for the page shown.
EffectsInTurn ==
    /\ 1 \in due => pending = Null /\ ~changed /\ (2 \in due => lastApplied = Null)
    /\ 1 \notin due => lastPath = shown.path
    /\ ~changed => rendered = filters
    /\ 2 \notin due /\ ~changed => lastApplied \in { Null, FiltersToParams(filters) }
    /\ Writing => pending.to = [path |-> shown.path, params |-> lastApplied]

\* Once the second effect has nothing left to write, the filters are those of
\* the address shown, unless a write of the store is on its way.
Obeyed ==
    1 \notin due /\ ~overtaken
    /\ (lastApplied = FiltersToParams(filters) \/ (2 \notin due /\ ~changed)) =>
        Writing \/ shown.params = NoParams \/ filters = ParamsToFilters(shown.params)

CrossOfLastPath == crossPages \subseteq { lastPath }

\* What was asked for last is on its way, or shown and due to be applied, or
\* in force; or it was the address shown already and overtook a write.
Honoured ==
    asked # Null /\ asked # NoParams =>
        \/ Idle /\ pending # Null /\ ~Writing /\ pending.to.params = asked
        \/ 1 \in due /\ shown.params = asked
        \/ Settled /\ overtaken
        \/ /\ filters = ParamsToFilters(asked)
           /\ pending # Null => Writing
           /\ 1 \in due => 2 \notin due /\ shown.params = lastApplied /\ lastPath = shown.path

Inv == Typed /\ Placed /\ EffectsInTurn /\ Obeyed /\ CrossOfLastPath /\ Honoured

----------------------------------------------------------------------------
\* Filters and their addresses.

\* What is written to an address is read back.
LEMMA RoundTrip ==
    ASSUME NEW f \in FilterValues, Dated(f)
    PROVE  /\ FiltersToParams(f) \in Params
           /\ ParamsToFilters(FiltersToParams(f)) = f
<1>1. /\ f = [preset |-> f.preset, from |-> f.from, to |-> f.to, search |-> f.search,
              lists |-> f.lists]
      /\ f.preset \in Presets /\ f.from \in Dates \cup { None } /\ f.to \in Dates \cup { None }
      /\ f.search \in Searches \cup { NoSearch } /\ f.lists \in Lists
  BY DEF FilterValues
<1>3. FiltersToParams(f) \in Params
  BY <1>1 DEF FiltersToParams, Params
<1> DEFINE p == FiltersToParams(f)
           g == ParamsToFilters(p)
<1>4. /\ p.range = IF f.preset = "30d" THEN None ELSE f.preset
      /\ p.from = IF f.preset = "custom" THEN f.from ELSE None
      /\ p.to = IF f.preset = "custom" THEN f.to ELSE None
      /\ p.q = IF f.search = NoSearch THEN None ELSE f.search
      /\ p.lists = f.lists
  BY DEF FiltersToParams
<1>5. p.from = f.from /\ p.to = f.to
  BY <1>4 DEF Dated
<1> HIDE DEF p
<1>6. (IF p.q = None THEN NoSearch ELSE p.q) = f.search
  BY <1>1, <1>4, SentinelAssumption
<1>7. (IF p.from # None \/ p.to # None THEN "custom"
       ELSE IF p.range \in Presets THEN p.range ELSE "30d") = f.preset
  BY <1>1, <1>4, <1>5, SentinelAssumption DEF Dated
<1>8. g = [preset |-> f.preset, from |-> f.from, to |-> f.to, search |-> f.search,
           lists |-> f.lists]
  BY <1>4, <1>5, <1>6, <1>7 DEF ParamsToFilters
<1>9. QED
  BY <1>1, <1>3, <1>8 DEF p

\* Two filters with one address are one.
LEMMA SameAddress ==
    ASSUME NEW f, NEW g, FilterOK(f), FilterOK(g), FiltersToParams(f) = FiltersToParams(g)
    PROVE  f = g
  BY RoundTrip DEF FilterOK

LEMMA ParamsAreFilters ==
    ASSUME NEW params \in Params
    PROVE  FilterOK(ParamsToFilters(params))
<1>1. /\ params.from \in Dates \cup { None } /\ params.to \in Dates \cup { None }
      /\ params.q \in Searches \cup { None } /\ params.lists \in Lists
  BY DEF Params
<1>2. (IF params.from # None \/ params.to # None THEN "custom"
       ELSE IF params.range \in Presets THEN params.range ELSE "30d") \in Presets
  BY DEF Presets
<1>3. ParamsToFilters(params) \in FilterValues
  BY <1>1, <1>2 DEF ParamsToFilters, FilterValues
<1>4. Dated(ParamsToFilters(params))
  BY DEF Dated, ParamsToFilters
<1>5. QED
  BY <1>3, <1>4 DEF FilterOK

LEMMA EmptyIsFresh ==
    /\ FilterOK(EmptyFilters) /\ FiltersToParams(EmptyFilters) = NoParams
    /\ NoParams \in Params
<1>1. NoLists \in Lists
  BY DEF NoLists, Lists
<1>2. EmptyFilters \in FilterValues
  BY <1>1 DEF EmptyFilters, FilterValues, Presets
<1>3. Dated(EmptyFilters)
  BY DEF Dated, EmptyFilters
<1>4. FiltersToParams(EmptyFilters) = NoParams
  BY DEF FiltersToParams, EmptyFilters, NoParams
<1>5. QED
  BY <1>2, <1>3, <1>4, RoundTrip DEF FilterOK

LEMMA SetListOK ==
    ASSUME NEW f, FilterOK(f), NEW choice \in Picks,
           NEW values \in SUBSET { c[2] : c \in Picks }
    PROVE  FilterOK(SetList(f, choice[1], values))
<1>1. f \in FilterValues /\ Dated(f) /\ choice[1] \in ListKeys
  BY ChoiceAssumption DEF FilterOK
<1>2. [f.lists EXCEPT ![choice[1]] = values] \in Lists
  BY <1>1 DEF FilterValues, Lists
<1>3. SetList(f, choice[1], values) =
        [f EXCEPT !.lists = [f.lists EXCEPT ![choice[1]] = values]]
  BY <1>1 DEF SetList, FilterValues
<1>4. QED
  BY <1>1, <1>2, <1>3 DEF FilterOK, FilterValues, Dated

LEMMA EditsOK ==
    ASSUME NEW f, FilterOK(f), NEW g \in Edits(f)
    PROVE  FilterOK(g)
<1>1. f \in FilterValues /\ Dated(f)
  BY DEF FilterOK
<1>2. ASSUME NEW preset \in PresetPicks, g = SetPreset(f, preset)
      PROVE  FilterOK(g)
  <2>1. preset \in Presets
    BY ChoiceAssumption
  <2>2. CASE preset = "custom"
    BY <1>1, <1>2, <2>1, <2>2 DEF SetPreset, FilterOK, FilterValues, Dated
  <2>3. CASE preset # "custom"
    BY <1>1, <1>2, <2>1, <2>3 DEF SetPreset, FilterOK, FilterValues, Dated
  <2>4. QED
    BY <2>2, <2>3
<1>3. ASSUME NEW from \in Dates \cup { None }, NEW to \in Dates \cup { None },
             g = SetRange(f, from, to)
      PROVE  FilterOK(g)
  BY <1>1, <1>3 DEF SetRange, FilterOK, FilterValues, Dated, Presets
<1>4. ASSUME NEW word \in Searches \cup { NoSearch }, g = SetSearch(f, word)
      PROVE  FilterOK(g)
  BY <1>1, <1>4 DEF SetSearch, FilterOK, FilterValues, Dated
<1>5. ASSUME NEW choice \in Picks, g = SetList(f, choice[1], {})
      PROVE  FilterOK(g)
  BY <1>5, SetListOK
<1>6. ASSUME NEW choice \in Picks, g = ToggleValue(f, choice[1], choice[2])
      PROVE  FilterOK(g)
  <2> DEFINE old == f.lists[choice[1]]
             V == { c[2] : c \in Picks }
  <2>1. old \in SUBSET V
    BY <1>1, ChoiceAssumption DEF FilterValues, Lists
  <2>2. choice[2] \in V
    OBVIOUS
  <2>3. CASE choice[2] \in old
    <3>1. g = SetList(f, choice[1], old \ { choice[2] })
      BY <1>6, <2>3 DEF ToggleValue
    <3>2. old \ { choice[2] } \in SUBSET V
      BY <2>1
    <3>3. QED
      BY <3>1, <3>2, SetListOK
  <2>4. CASE choice[2] \notin old
    <3>1. g = SetList(f, choice[1], old \cup { choice[2] })
      BY <1>6, <2>4 DEF ToggleValue
    <3>2. old \cup { choice[2] } \in SUBSET V
      BY <2>1, <2>2
    <3>3. QED
      BY <3>1, <3>2, SetListOK
  <2>5. QED
    BY <2>3, <2>4
<1>7. f.from \in Dates \cup { None } /\ f.to \in Dates \cup { None }
  BY <1>1 DEF FilterValues
<1>8. QED
  BY <1>2, <1>3, <1>4, <1>5, <1>6, <1>7 DEF Edits

----------------------------------------------------------------------------
\* The invariant is inductive: one lemma for each kind of step.

LEMMA InitInv == Init => Inv
<1> SUFFICES ASSUME Init PROVE Inv
  OBVIOUS
<1>1. shown \in Address
  BY ChoiceAssumption DEF Init, Location, Address
<1>2. StoreTyped
  BY EmptyIsFresh, FS_EmptySet DEF Init, StoreTyped
<1>3. BrowserTyped
  BY <1>1, EntriesAssumption DEF Init, BrowserTyped
<1>4. HookTyped
  BY <1>1 DEF Init, HookTyped, Address
<1>5. Placed
  BY DEF Init, Placed
<1>6. EffectsInTurn /\ Obeyed /\ CrossOfLastPath
  BY DEF Init, EffectsInTurn, Obeyed, CrossOfLastPath, Writing
<1>7. Honoured
  BY DEF Init, Honoured
<1>8. QED
  BY <1>2, <1>3, <1>4, <1>5, <1>6, <1>7 DEF Inv, Typed

\* An address skipped because it is lastApplied is what the filters say.
LEMMA SkippedIsInForce ==
    ASSUME Inv, 2 \notin due, ~changed, shown.params = lastApplied
    PROVE  filters = ParamsToFilters(shown.params)
<1>1. shown.params \in Params
  BY DEF Inv, Typed, BrowserTyped, Address
<1>2. lastApplied = FiltersToParams(filters)
  BY <1>1, SentinelAssumption DEF Inv, EffectsInTurn
<1>3. QED
  BY <1>2, RoundTrip DEF Inv, Typed, StoreTyped, FilterOK

LEMMA SyncFromUrlInv ==
    ASSUME Inv, SyncFromUrl
    PROVE  Inv'
<1> DEFINE moved == lastPath # shown.path
           bare == shown.params = NoParams
           apply == Applies(moved, bare)
<1>1. /\ 1 \in due /\ due' = due \ { 1 }
      /\ lastPath' = shown.path /\ overtaken' = FALSE
      /\ cross' = (IF moved THEN {} ELSE cross)
      /\ crossPages' = (IF cross' = {} THEN {} ELSE crossPages)
      /\ lastApplied' = (IF moved /\ bare THEN Null
                         ELSE IF apply THEN shown.params ELSE lastApplied)
      /\ filters' = (IF apply THEN ParamsToFilters(shown.params) ELSE filters)
      /\ changed' = (changed \/ apply)
  BY DEF SyncFromUrl, CrossAfter
<1>2. UNCHANGED <<entries, index, shown, pending, rendered, views, asked>>
  BY DEF SyncFromUrl, browser
<1>3. apply <=> ~(moved /\ bare) /\ shown.params # lastApplied
  BY DEF Applies
<1> HIDE DEF apply
<1>4. shown \in Address /\ shown.params \in Params /\ shown.path \in Paths
  BY DEF Inv, Typed, BrowserTyped, Address
<1>5. pending = Null /\ ~changed /\ (2 \in due => lastApplied = Null)
  BY <1>1 DEF Inv, EffectsInTurn
<1>6. ASSUME ~apply, ~bare
      PROVE  /\ shown.params = lastApplied /\ 2 \notin due
             /\ filters' = filters /\ filters = ParamsToFilters(shown.params)
  <2>1. shown.params = lastApplied
    BY <1>3, <1>6
  <2>2. 2 \notin due
    BY <2>1, <1>4, <1>5, SentinelAssumption
  <2>3. QED
    BY <1>1, <1>5, <1>6, <2>1, <2>2, SkippedIsInForce
<1>7. StoreTyped'
  <2>1. FilterOK(filters')
    BY <1>1, <1>4, ParamsAreFilters DEF Inv, Typed, StoreTyped
  <2>2. IsFiniteSet(cross')
    BY <1>1, FS_EmptySet DEF Inv, Typed, StoreTyped
  <2>3. QED
    BY <1>1, <1>2, <2>1, <2>2 DEF Inv, Typed, StoreTyped
<1>8. BrowserTyped'
  BY <1>2 DEF Inv, Typed, BrowserTyped
<1>9. HookTyped'
  <2>1. lastApplied' \in Params \cup { Null }
    BY <1>1, <1>4 DEF Inv, Typed, HookTyped
  <2>2. changed' \in BOOLEAN
    BY <1>1, <1>3, <1>5
  <2>3. QED
    BY <1>1, <1>2, <1>4, <2>1, <2>2 DEF Inv, Typed, HookTyped
<1>10. Placed'
  BY <1>2 DEF Inv, Placed
<1>11. EffectsInTurn'
  <2>1. 1 \notin due' /\ lastPath' = shown'.path
    BY <1>1, <1>2
  <2>2. ~changed' => rendered' = filters'
    BY <1>1, <1>2, <1>5 DEF Inv, EffectsInTurn
  <2>3. 2 \notin due' /\ ~changed' => lastApplied' \in { Null, FiltersToParams(filters') }
    BY <1>1, <1>5 DEF Inv, EffectsInTurn
  <2>4. ~Writing'
    BY <1>2, <1>5 DEF Writing
  <2>5. QED
    BY <2>1, <2>2, <2>3, <2>4 DEF EffectsInTurn
<1>12. Obeyed'
  <2>1. bare \/ filters' = ParamsToFilters(shown.params)
    BY <1>1, <1>6
  <2>2. QED
    BY <1>2, <2>1 DEF Obeyed
<1>13. CrossOfLastPath'
  BY <1>1 DEF Inv, CrossOfLastPath
<1>14. Honoured'
  <2> SUFFICES ASSUME asked # Null, asked # NoParams
               PROVE  filters' = ParamsToFilters(asked)
    BY <1>1, <1>2, <1>5 DEF Honoured
  <2>1. CASE shown.params = asked
    BY <1>1, <1>6, <2>1
  <2>2. CASE /\ filters = ParamsToFilters(asked)
             /\ shown.params = lastApplied
    BY <1>1, <1>3, <2>2
  <2>3. QED
    BY <1>1, <2>1, <2>2 DEF Inv, Honoured, Settled, Idle
<1>15. QED
  BY <1>7, <1>8, <1>9, <1>10, <1>11, <1>12, <1>13, <1>14 DEF Inv, Typed

LEMMA SyncToUrlInv ==
    ASSUME Inv, SyncToUrl
    PROVE  Inv'
<1> DEFINE desired == FiltersToParams(rendered)
<1>1. /\ due = { 2 } /\ due' = {}
      /\ UNCHANGED <<filters, cross, crossPages, entries, index, shown, lastPath, rendered,
                     changed, views, asked, overtaken>>
  BY DEF SyncToUrl, store, user
<1>2. 1 \notin due /\ 2 \in due /\ 1 \notin due' /\ 2 \notin due'
  BY <1>1
<1>3. desired \in Params
  BY RoundTrip DEF Inv, Typed, StoreTyped, FilterOK
<1>4. lastPath = shown.path /\ (~changed => desired = FiltersToParams(filters))
  BY <1>2 DEF Inv, EffectsInTurn
<1>5. CASE desired = lastApplied
  <2>1. UNCHANGED <<lastApplied, pending>>
    BY <1>5 DEF SyncToUrl
  <2>2. Typed'
    BY <1>1, <2>1 DEF Inv, Typed, StoreTyped, BrowserTyped, HookTyped
  <2>3. Placed' /\ CrossOfLastPath'
    BY <1>1, <2>1 DEF Inv, Placed, CrossOfLastPath
  <2>4. Writing' = Writing
    BY <2>1 DEF Writing
  <2>5. EffectsInTurn'
    BY <1>1, <1>2, <1>4, <1>5, <2>1, <2>4 DEF Inv, EffectsInTurn
  <2>6. Obeyed'
    BY <1>1, <1>2, <1>4, <1>5, <2>1, <2>4 DEF Inv, Obeyed
  <2>7. Honoured'
    BY <1>1, <1>2, <2>1, <2>4 DEF Inv, Honoured, Settled, Idle
  <2>8. QED
    BY <2>2, <2>3, <2>5, <2>6, <2>7 DEF Inv
<1>6. CASE desired # lastApplied
  <2> DEFINE to == [path |-> shown.path, params |-> desired]
  <2>1. lastApplied' = desired /\ pending' = [kind |-> "replace", to |-> to]
    BY <1>6 DEF SyncToUrl
  <2>2. to \in Address
    BY <1>3 DEF Inv, Typed, BrowserTyped, Address
  <2> HIDE DEF desired
  <2>3. pending' \in Navigation /\ pending'.kind = "replace" /\ pending'.to = to
    BY <2>1, <2>2 DEF Navigation
  <2>4. pending' # Null /\ Writing'
    BY <2>3, SentinelAssumption DEF Writing
  <2>5. Typed'
    <3>1. StoreTyped' /\ BrowserTyped'
      BY <1>1, <2>3 DEF Inv, Typed, StoreTyped, BrowserTyped
    <3>2. HookTyped'
      BY <1>1, <1>3, <2>1 DEF Inv, Typed, HookTyped
    <3>3. QED
      BY <3>1, <3>2 DEF Typed
  <2>6. Placed' /\ CrossOfLastPath'
    BY <1>1, <2>3, <2>4 DEF Inv, Placed, CrossOfLastPath
  <2>7. EffectsInTurn'
    <3>1. pending'.to = [path |-> shown'.path, params |-> lastApplied']
      BY <1>1, <2>1, <2>3
    <3>2. ~changed' => rendered' = filters'
      BY <1>1 DEF Inv, EffectsInTurn
    <3>3. ~changed' => lastApplied' \in { Null, FiltersToParams(filters') }
      BY <1>1, <1>4, <2>1
    <3>4. QED
      BY <1>1, <1>2, <1>4, <3>1, <3>2, <3>3 DEF EffectsInTurn
  <2>8. Obeyed'
    BY <2>4 DEF Obeyed
  <2>9. Honoured'
    BY <1>1, <1>2, <2>4 DEF Inv, Honoured, Settled, Idle
  <2>10. QED
    BY <2>5, <2>6, <2>7, <2>8, <2>9 DEF Inv
<1>7. QED
  BY <1>5, <1>6

LEMMA RenderInv ==
    ASSUME Inv, Render
    PROVE  Inv'
<1>1. /\ changed /\ due = {} /\ rendered' = filters /\ due' = { 2 } /\ changed' = FALSE
      /\ UNCHANGED <<filters, cross, crossPages, entries, index, shown, pending,
                     lastApplied, lastPath, views, asked, overtaken>>
  BY DEF Render, store, browser, refs, user
<1>2. Typed'
  BY <1>1 DEF Inv, Typed, StoreTyped, BrowserTyped, HookTyped
<1>3. Placed' /\ CrossOfLastPath'
  BY <1>1 DEF Inv, Placed, CrossOfLastPath
<1>4. Writing' = Writing
  BY <1>1 DEF Writing
<1>5. EffectsInTurn'
  BY <1>1, <1>4 DEF Inv, EffectsInTurn
<1>6. Obeyed'
  BY <1>1, <1>4 DEF Inv, Obeyed
<1>7. Honoured'
  BY <1>1, <1>4 DEF Inv, Honoured, Settled, Idle
<1>8. QED
  BY <1>2, <1>3, <1>5, <1>6, <1>7 DEF Inv

LEMMA ArriveInv ==
    ASSUME Inv, Arrive
    PROVE  Inv'
<1>1. /\ due = {} /\ ~changed /\ pending # Null /\ pending' = Null /\ shown' = pending.to
      /\ due' = (IF shown' = shown THEN {} ELSE { 1 })
      /\ UNCHANGED <<filters, cross, crossPages, lastApplied, lastPath, rendered, changed,
                     views, asked, overtaken>>
  BY DEF Arrive, Idle, store, refs, user
<1>2. pending \in Navigation /\ pending.to \in Address
      /\ pending.kind \in { "push", "replace", "restore" }
  BY <1>1 DEF Inv, Typed, BrowserTyped, Navigation
<1>3. entries \in Seq(Address) /\ index \in 1 .. Len(entries) /\ Len(entries) <= MaxEntries
  BY DEF Inv, Typed, BrowserTyped
<1>4. /\ entries' \in Seq(Address) /\ index' \in 1 .. Len(entries')
      /\ Len(entries') <= MaxEntries /\ entries'[index'] = pending.to
  <2>1. CASE pending.kind = "push"
    <3> DEFINE kept == SubSeq(entries, 1, index)
    <3>1. entries' = Append(kept, pending.to) /\ index' = index + 1
      BY <2>1 DEF Arrive
    <3>2. kept \in Seq(Address) /\ Len(kept) = index
      BY <1>3
    <3>3. index < MaxEntries
      BY <1>1, <2>1 DEF Inv, Typed, BrowserTyped
    <3> HIDE DEF kept
    <3>4. /\ Append(kept, pending.to) \in Seq(Address)
          /\ Len(Append(kept, pending.to)) = index + 1
          /\ Append(kept, pending.to)[index + 1] = pending.to
      BY <1>2, <3>2
    <3>5. QED
      BY <1>3, <3>1, <3>3, <3>4, EntriesAssumption
  <2>2. CASE pending.kind = "replace"
    <3>1. entries' = [entries EXCEPT ![index] = pending.to] /\ index' = index
      BY <2>2 DEF Arrive
    <3>2. QED
      BY <1>2, <1>3, <3>1
  <2>3. CASE pending.kind = "restore"
    <3>1. UNCHANGED <<entries, index>>
      BY <2>3 DEF Arrive
    <3>2. QED
      BY <1>1, <1>3, <2>3, <3>1 DEF Inv, Placed
  <2>4. QED
    BY <1>2, <2>1, <2>2, <2>3
<1>5. Typed'
  <2>1. StoreTyped' /\ BrowserTyped'
    BY <1>1, <1>2, <1>4 DEF Inv, Typed, StoreTyped, BrowserTyped
  <2>2. HookTyped'
    BY <1>1 DEF Inv, Typed, HookTyped
  <2>3. QED
    BY <2>1, <2>2 DEF Typed
<1>6. Placed' /\ CrossOfLastPath' /\ ~Writing'
  BY <1>1, <1>4 DEF Inv, Placed, CrossOfLastPath, Writing
<1>7. /\ lastPath = shown.path /\ rendered = filters
      /\ lastApplied \in { Null, FiltersToParams(filters) }
      /\ Writing => pending.to = [path |-> shown.path, params |-> lastApplied]
  BY <1>1 DEF Inv, EffectsInTurn
<1>8. ASSUME Writing
      PROVE  filters = ParamsToFilters(pending.to.params)
  <2>1. pending.to.params = lastApplied /\ pending.to.params \in Params
    BY <1>2, <1>7, <1>8 DEF Address
  <2>2. lastApplied = FiltersToParams(filters)
    BY <1>7, <2>1, SentinelAssumption
  <2>3. QED
    BY <2>1, <2>2, RoundTrip DEF Inv, Typed, StoreTyped, FilterOK
<1>9. ~overtaken /\ ~Writing => shown.params = NoParams \/ filters = ParamsToFilters(shown.params)
  BY <1>1 DEF Inv, Obeyed
<1>10. EffectsInTurn'
  BY <1>1, <1>6, <1>7 DEF EffectsInTurn
<1>11. Obeyed'
  <2> SUFFICES ASSUME shown' = shown, ~overtaken
               PROVE  shown.params = NoParams \/ filters = ParamsToFilters(shown.params)
    BY <1>1 DEF Obeyed
  <2>1. QED
    BY <1>1, <1>8, <1>9
<1>12. Honoured'
  <2> SUFFICES ASSUME asked # Null, asked # NoParams
               PROVE  Honoured'
    BY <1>1 DEF Honoured
  <2>1. CASE ~Writing /\ pending.to.params = asked
    <3>1. CASE shown' = shown
      <4>1. overtaken \/ filters = ParamsToFilters(asked)
        BY <1>1, <1>9, <2>1, <3>1
      <4>2. Settled' /\ 1 \notin due'
        BY <1>1, <3>1 DEF Settled, Idle
      <4>3. QED
        BY <1>1, <4>1, <4>2 DEF Honoured
    <3>2. CASE shown' # shown
      BY <1>1, <2>1, <3>2 DEF Honoured
    <3>3. QED
      BY <3>1, <3>2
  <2>2. CASE filters = ParamsToFilters(asked) /\ Writing
    <3>1. shown'.params = lastApplied /\ lastPath = shown'.path
      BY <1>1, <1>7, <2>2
    <3>2. QED
      BY <1>1, <2>2, <3>1 DEF Honoured
  <2>3. QED
    BY <1>1, <2>1, <2>2 DEF Inv, Honoured, Settled
<1>13. QED
  BY <1>5, <1>6, <1>10, <1>11, <1>12 DEF Inv

\* The bar changed the store: what was applied last is what the filters were,
\* or nothing.
LEMMA StoreChangedInv ==
    ASSUME Inv, Idle, FilterOK(filters'), changed' = TRUE, asked' = Null,
           IsFiniteSet(cross'),
           \A c \in cross' : <<c.key, c.value>> \in Picks /\ c.source \in Sources,
           crossPages' \subseteq crossPages,
           UNCHANGED <<browser, refs, rendered, due, views, overtaken>>
    PROVE  Inv'
<1>1. UNCHANGED <<entries, index, shown, pending, lastApplied, lastPath, rendered, due, views,
                  overtaken>>
  BY DEF browser, refs
<1>2. due = {} /\ ~changed
  BY DEF Idle
<1>3. Typed'
  BY <1>1 DEF Inv, Typed, StoreTyped, BrowserTyped, HookTyped
<1>4. Placed' /\ CrossOfLastPath'
  BY <1>1 DEF Inv, Placed, CrossOfLastPath
<1>5. Writing' = Writing
  BY <1>1 DEF Writing
<1>6. EffectsInTurn'
  BY <1>1, <1>2, <1>5 DEF Inv, EffectsInTurn
<1>7. Obeyed'
  <2> SUFFICES ASSUME ~overtaken, lastApplied = FiltersToParams(filters')
               PROVE  Writing \/ shown.params = NoParams
                      \/ filters' = ParamsToFilters(shown.params)
    BY <1>1, <1>5 DEF Obeyed
  <2>1. FiltersToParams(filters') \in Params
    BY RoundTrip DEF FilterOK
  <2>2. lastApplied = FiltersToParams(filters)
    BY <1>2, <2>1, SentinelAssumption DEF Inv, EffectsInTurn
  <2>3. FilterOK(filters)
    BY DEF Inv, Typed, StoreTyped
  <2>4. filters' = filters
    BY <2>2, <2>3, SameAddress
  <2>5. QED
    BY <1>2, <2>2, <2>4 DEF Inv, Obeyed
<1>8. Honoured'
  BY DEF Honoured
<1>9. QED
  BY <1>3, <1>4, <1>6, <1>7, <1>8 DEF Inv

LEMMA EditInv ==
    ASSUME Inv, Edit \/ ClearAll
    PROVE  Inv'
<1>1. CASE Edit
  <2>1. FilterOK(filters')
    BY <1>1, EditsOK DEF Edit, Inv, Typed, StoreTyped
  <2>2. Idle /\ UNCHANGED <<cross, crossPages>>
    BY <1>1 DEF Edit, Act
  <2>3. /\ changed' = TRUE /\ asked' = Null
        /\ UNCHANGED <<browser, refs, rendered, due, views, overtaken>>
    BY <1>1 DEF Edit
  <2>4. /\ IsFiniteSet(cross')
        /\ \A c \in cross' : <<c.key, c.value>> \in Picks /\ c.source \in Sources
    BY <2>2 DEF Inv, Typed, StoreTyped
  <2>5. QED
    BY <2>1, <2>2, <2>3, <2>4, StoreChangedInv
<1>2. CASE ClearAll
  <2>1. /\ Idle /\ filters' = EmptyFilters /\ cross' = {} /\ crossPages' = {}
        /\ changed' = TRUE /\ asked' = Null
        /\ UNCHANGED <<browser, refs, rendered, due, views, overtaken>>
    BY <1>2 DEF ClearAll, Act
  <2>2. QED
    BY <2>1, EmptyIsFresh, FS_EmptySet, StoreChangedInv
<1>3. QED
  BY <1>1, <1>2

\* A click in a chart touches the cross-filters alone, on the page shown.
LEMMA CrossToInv ==
    ASSUME Inv, Idle, NEW set, CrossTo(set), IsFiniteSet(set),
           \A c \in set : <<c.key, c.value>> \in Picks /\ c.source \in Sources
    PROVE  Inv'
<1>1. /\ cross' = set /\ crossPages' = (IF set = {} THEN {} ELSE crossPages \cup { shown.path })
      /\ UNCHANGED <<filters, entries, index, shown, pending, lastApplied, lastPath, rendered,
                     due, changed, views, asked, overtaken>>
  BY DEF CrossTo, browser, refs, react
<1>2. lastPath = shown.path /\ shown.path \in Paths
  BY DEF Inv, EffectsInTurn, Idle, Typed, BrowserTyped, Address
<1>3. Typed'
  BY <1>1, <1>2 DEF Inv, Typed, StoreTyped, BrowserTyped, HookTyped
<1>4. Placed' /\ CrossOfLastPath'
  BY <1>1, <1>2 DEF Inv, Placed, CrossOfLastPath
<1>5. Writing' = Writing /\ Settled' = Settled /\ Idle' = Idle
  BY <1>1 DEF Writing, Settled, Idle
<1>6. EffectsInTurn' /\ Obeyed'
  BY <1>1, <1>5 DEF Inv, EffectsInTurn, Obeyed
<1>7. Honoured'
  BY <1>1, <1>5 DEF Inv, Honoured
<1>8. QED
  BY <1>3, <1>4, <1>6, <1>7 DEF Inv

LEMMA ChartInv ==
    ASSUME Inv,
           \/ \E choice \in Picks, source \in Sources : PickInChart(choice, source)
           \/ \E c \in cross : DropChip(c)
    PROVE  Inv'
<1>1. /\ IsFiniteSet(cross)
      /\ \A c \in cross : <<c.key, c.value>> \in Picks /\ c.source \in Sources
  BY DEF Inv, Typed, StoreTyped
<1>2. ASSUME NEW choice \in Picks, NEW source \in Sources, PickInChart(choice, source)
      PROVE  Inv'
  <2> DEFINE set == ToggleCross(cross, choice[1], choice[2], source)
             new == CrossFilter(choice[1], choice[2], source)
             kept == ClearCrossSource(cross, source)
  <2>1. set = kept \/ set = kept \cup { new }
    BY DEF ToggleCross, SetCross, CrossFilter
  <2>2. choice[1] = new.key /\ choice[2] = new.value /\ new.source = source
    BY DEF CrossFilter
  <2>3. <<new.key, new.value>> \in Picks
    BY <2>2, ChoiceAssumption
  <2>4. kept \subseteq cross
    BY DEF ClearCrossSource
  <2>5. Idle /\ CrossTo(set)
    BY <1>2 DEF PickInChart, Act
  <2> HIDE DEF set, new, kept
  <2>6. \A c \in set : <<c.key, c.value>> \in Picks /\ c.source \in Sources
    BY <1>1, <2>1, <2>2, <2>3, <2>4
  <2>7. IsFiniteSet(kept)
    BY <1>1, <2>4, FS_Subset
  <2>8. IsFiniteSet(set)
    BY <2>1, <2>7, FS_AddElement
  <2>9. QED
    BY <2>5, <2>6, <2>8, CrossToInv
<1>3. ASSUME NEW c \in cross, DropChip(c)
      PROVE  Inv'
  <2>1. Idle /\ CrossTo(RemoveCross(cross, c.key, c.value))
    BY <1>3 DEF DropChip, Act
  <2>2. RemoveCross(cross, c.key, c.value) \subseteq cross
    BY DEF RemoveCross
  <2>3. IsFiniteSet(RemoveCross(cross, c.key, c.value))
    BY <1>1, <2>2, FS_Subset
  <2>4. QED
    BY <1>1, <2>1, <2>2, <2>3, CrossToInv
<1>4. QED
  BY <1>2, <1>3

\* The user asks for an address: the page stays until the navigation arrives.
LEMMA AskInv ==
    ASSUME Inv, Idle, NEW kind \in { "push", "restore" }, NEW to \in Address,
           kind = "push" => index < MaxEntries /\ index' = index,
           kind = "restore" => index' \in 1 .. Len(entries) /\ to = entries[index'],
           Ask(kind, to),
           UNCHANGED <<store, entries, shown, refs, react, views>>
    PROVE  Inv'
<1>1. /\ pending' = [kind |-> kind, to |-> to] /\ asked' = to.params
      /\ overtaken' = (overtaken \/ Writing)
      /\ UNCHANGED <<filters, cross, crossPages, entries, shown, lastApplied, lastPath,
                     rendered, due, changed, views>>
  BY DEF Ask, Writing, store, refs, react
<1>2. /\ pending' \in Navigation /\ pending'.kind = kind /\ pending'.to = to
      /\ to.params \in Params
  BY <1>1 DEF Navigation, Address
<1>3. pending' # Null /\ ~Writing'
  BY <1>2, SentinelAssumption DEF Writing
<1>4. index' \in 1 .. Len(entries)
  BY DEF Inv, Typed, BrowserTyped
<1>5. Typed'
  <2>1. StoreTyped'
    BY <1>1 DEF Inv, Typed, StoreTyped
  <2>2. BrowserTyped'
    BY <1>1, <1>2, <1>4 DEF Inv, Typed, BrowserTyped
  <2>3. overtaken' \in BOOLEAN
    BY <1>1 DEF Inv, Typed, HookTyped, Writing
  <2>4. HookTyped'
    BY <1>1, <1>2, <2>3 DEF Inv, Typed, HookTyped
  <2>5. QED
    BY <2>1, <2>2, <2>4 DEF Typed
<1>6. Placed' /\ CrossOfLastPath'
  BY <1>1, <1>2, <1>3 DEF Inv, Placed, CrossOfLastPath
<1>7. EffectsInTurn'
  BY <1>1, <1>3 DEF Inv, EffectsInTurn, Idle
<1>8. Obeyed'
  BY <1>1 DEF Inv, Obeyed
<1>9. Honoured'
  BY <1>1, <1>2, <1>3 DEF Honoured, Idle
<1>10. QED
  BY <1>5, <1>6, <1>7, <1>8, <1>9 DEF Inv

LEMMA PushInv ==
    ASSUME Inv, Idle, NEW path \in Paths, NEW params \in Params, Push(path, params)
    PROVE  Inv'
<1>1. [path |-> path, params |-> params] \in Address
  BY DEF Address
<1>2. /\ index < MaxEntries /\ index' = index
      /\ Ask("push", [path |-> path, params |-> params])
      /\ UNCHANGED <<store, entries, shown, refs, react, views>>
  BY DEF Push
<1>3. QED
  BY <1>1, <1>2, AskInv

LEMMA SaveViewInv ==
    ASSUME Inv, SaveView
    PROVE  Inv'
<1> DEFINE view == [path |-> shown.path, params |-> FiltersToParams(filters)]
<1>1. /\ views' = views \cup { view }
      /\ UNCHANGED <<filters, cross, crossPages, entries, index, shown, pending, lastApplied,
                     lastPath, rendered, due, changed, asked, overtaken>>
  BY DEF SaveView, store, browser, refs, react
<1>2. view \in Address
  BY RoundTrip DEF Inv, Typed, StoreTyped, BrowserTyped, FilterOK, Address
<1> HIDE DEF view
<1>3. Typed'
  BY <1>1, <1>2 DEF Inv, Typed, StoreTyped, BrowserTyped, HookTyped
<1>4. Placed' /\ CrossOfLastPath'
  BY <1>1 DEF Inv, Placed, CrossOfLastPath
<1>5. Writing' = Writing /\ Settled' = Settled /\ Idle' = Idle
  BY <1>1 DEF Writing, Settled, Idle
<1>6. EffectsInTurn' /\ Obeyed'
  BY <1>1, <1>5 DEF Inv, EffectsInTurn, Obeyed
<1>7. Honoured'
  BY <1>1, <1>5 DEF Inv, Honoured
<1>8. QED
  BY <1>3, <1>4, <1>6, <1>7 DEF Inv

LEMMA ReloadInv ==
    ASSUME Inv, Reload
    PROVE  Inv'
<1>1. /\ filters' = EmptyFilters /\ rendered' = EmptyFilters /\ cross' = {} /\ crossPages' = {}
      /\ pending' = Null /\ lastApplied' = Null /\ lastPath' = Null
      /\ due' = { 1, 2 } /\ changed' = FALSE /\ overtaken' = FALSE
      /\ shown' = entries[index] /\ asked' = entries[index].params
      /\ UNCHANGED <<entries, index, views>>
  BY DEF Reload
<1>2. entries[index] \in Address
  BY DEF Inv, Typed, BrowserTyped
<1>3. StoreTyped'
  BY <1>1, EmptyIsFresh, FS_EmptySet DEF StoreTyped
<1>4. BrowserTyped'
  BY <1>1, <1>2 DEF Inv, Typed, BrowserTyped
<1>5. HookTyped'
  <2>1. entries[index].params \in Params
    BY <1>2 DEF Address
  <2>2. QED
    BY <1>1, <2>1 DEF Inv, Typed, HookTyped
<1>6. Placed' /\ EffectsInTurn' /\ Obeyed' /\ CrossOfLastPath'
  BY <1>1 DEF Placed, EffectsInTurn, Obeyed, CrossOfLastPath, Writing
<1>7. Honoured'
  BY <1>1 DEF Honoured
<1>8. QED
  BY <1>3, <1>4, <1>5, <1>6, <1>7 DEF Inv, Typed

LEMMA NavigateInv ==
    ASSUME Inv, Navigate
    PROVE  Inv'
<1>1. ASSUME NEW path \in Paths, FollowLink(path)
      PROVE  Inv'
  BY <1>1, EmptyIsFresh, PushInv DEF FollowLink, Act
<1>2. ASSUME NEW path \in Paths, NEW choice \in Picks, Drill(path, choice)
      PROVE  Inv'
  <2> DEFINE f == SetList(filters, choice[1], { choice[2] })
  <2>1. FilterOK(f)
    BY SetListOK DEF Inv, Typed, StoreTyped
  <2>2. FiltersToParams(f) \in Params
    BY <2>1, RoundTrip DEF FilterOK
  <2>3. QED
    BY <1>2, <2>2, PushInv DEF Drill, Act
<1>3. ASSUME NEW view \in views, OpenView(view)
      PROVE  Inv'
  <2>1. view.path \in Paths /\ view.params \in Params
    BY DEF Inv, Typed, HookTyped, Address
  <2>2. QED
    BY <1>3, <2>1, PushInv DEF OpenView, Act
<1>4. ASSUME NEW to \in { index - 1, index + 1 } \cap DOMAIN entries, Traverse(to)
      PROVE  Inv'
  <2>1. to \in 1 .. Len(entries) /\ entries[to] \in Address
    BY DEF Inv, Typed, BrowserTyped
  <2>2. /\ Idle /\ index' = to /\ Ask("restore", entries[to])
        /\ UNCHANGED <<store, entries, shown, refs, react, views>>
    BY <1>4 DEF Traverse, Act
  <2>3. QED
    BY <2>1, <2>2, AskInv
<1>5. QED
  BY <1>1, <1>2, <1>3, <1>4, SaveViewInv, ReloadInv DEF Navigate

LEMMA NextInv ==
    ASSUME Inv, [Next]_vars
    PROVE  Inv'
<1>1. CASE Next
  BY <1>1, SyncFromUrlInv, SyncToUrlInv, RenderInv, ArriveInv, EditInv, ChartInv, NavigateInv
     DEF Next
<1>2. CASE UNCHANGED vars
  <2>1. UNCHANGED <<filters, cross, crossPages, entries, index, shown, pending, lastApplied,
                    lastPath, rendered, due, changed, views, asked, overtaken>>
    BY <1>2 DEF vars, store, browser, refs, react, user
  <2>2. Typed'
    BY <2>1 DEF Inv, Typed, StoreTyped, BrowserTyped, HookTyped
  <2>3. Placed' /\ CrossOfLastPath'
    BY <2>1 DEF Inv, Placed, CrossOfLastPath
  <2>4. Writing' = Writing /\ Settled' = Settled /\ Idle' = Idle
    BY <2>1 DEF Writing, Settled, Idle
  <2>5. EffectsInTurn' /\ Obeyed' /\ Honoured'
    BY <2>1, <2>4 DEF Inv, EffectsInTurn, Obeyed, Honoured
  <2>6. QED
    BY <2>2, <2>3, <2>5 DEF Inv
<1>3. QED
  BY <1>1, <1>2

\* The store, the two refs, the address bar and the browser's history stay in
\* step through every order of effects, renders, arrivals and choices of the
\* user (FilterUrlSync.tsx).
THEOREM StaysInStep == Spec => []Inv
<1>1. QED
  BY InitInv, NextInv, PTL DEF Spec

----------------------------------------------------------------------------
\* What follows.

\* The filters, the cross-filters, the refs and the history have the values the
\* code gives them (FilterUrlSync.tsx, filters.ts).
THEOREM TypeCorrect == Spec => []TypeOK
<1>1. Inv => TypeOK
  <2> SUFFICES ASSUME Inv PROVE TypeOK
    OBVIOUS
  <2>1. filters.preset \in Presets /\ filters.lists \in [ListKeys -> SUBSET { c[2] : c \in Picks }]
    BY DEF Inv, Typed, StoreTyped, FilterOK, FilterValues, Lists
  <2>2. /\ index \in DOMAIN entries /\ Len(entries) <= MaxEntries
        /\ \A i \in DOMAIN entries : entries[i] \in Address
    BY DEF Inv, Typed, BrowserTyped
  <2>3. \A i \in DOMAIN entries : entries[i].path \in Paths
    BY <2>2 DEF Address
  <2>4. QED
    BY <2>1, <2>2, <2>3 DEF Inv, Typed, StoreTyped, HookTyped, TypeOK
<1>2. QED
  BY <1>1, StaysInStep, PTL

\* At rest the page shows what its address says, and what the user asked for
\* last is in force (FilterUrlSync.tsx:11), however the effects, the arrivals
\* and the user's choices followed each other.
THEOREM AddressObeyed == Spec => []AddressIsObeyed
<1>1. Inv => UrlIsAuthoritative
  <2>1. ASSUME Inv, Settled
        PROVE  ~Writing /\ 1 \notin due /\ 2 \notin due /\ ~changed /\ pending = Null
    BY <2>1 DEF Settled, Idle, Writing
  <2>2. QED
    BY <2>1 DEF UrlIsAuthoritative, Inv, Placed, Obeyed
<1>2. Inv => RequestHonoured
  BY DEF RequestHonoured, Inv, Honoured, Settled, Idle
<1>3. QED
  BY <1>1, <1>2, StaysInStep, PTL DEF AddressIsObeyed

LEMMA ListKeysAreFinite == IsFiniteSet(ListKeys)
<1> DEFINE A == { "divisions", "cities", "districts", "hubs" }
           B == { "merchants", "statuses", "statusGroups", "serviceTypes" }
           C == { "riders", "vehicles", "sla", "priorities", "paymentTypes" }
<1>1. IsFiniteSet(A) /\ IsFiniteSet(B) /\ IsFiniteSet(C)
  <2>1. \A x : IsFiniteSet({ x })
    BY FS_Singleton
  <2>2. \A x, y : IsFiniteSet({ x, y })
    <3> SUFFICES ASSUME NEW x, NEW y PROVE IsFiniteSet({ x, y })
      OBVIOUS
    <3>1. IsFiniteSet({ x } \cup { y })
      BY <2>1, FS_Union
    <3>2. { x, y } = { x } \cup { y }
      OBVIOUS
    <3>3. QED
      BY <3>1, <3>2
  <2>3. \A x, y, z, w : IsFiniteSet({ x, y, z, w })
    <3> SUFFICES ASSUME NEW x, NEW y, NEW z, NEW w PROVE IsFiniteSet({ x, y, z, w })
      OBVIOUS
    <3>1. IsFiniteSet({ x, y } \cup { z, w })
      BY <2>2, FS_Union
    <3>2. { x, y, z, w } = { x, y } \cup { z, w }
      OBVIOUS
    <3>3. QED
      BY <3>1, <3>2
  <2>4. IsFiniteSet({ "riders", "vehicles", "sla", "priorities" } \cup { "paymentTypes" })
    BY <2>1, <2>3, FS_Union
  <2>5. C = { "riders", "vehicles", "sla", "priorities" } \cup { "paymentTypes" }
    OBVIOUS
  <2>6. QED
    BY <2>3, <2>4, <2>5
<1>2. ListKeys = (A \cup B) \cup C
  BY DEF ListKeys
<1> HIDE DEF A, B, C
<1>3. QED
  BY <1>1, <1>2, FS_Union

LEMMA ChosenAreFinite ==
    ASSUME NEW f \in FilterValues
    PROVE  IsFiniteSet(Chosen(f))
<1> DEFINE V == { c[2] : c \in Picks }
           value == [ c \in Picks |-> c[2] ]
<1>1. IsFiniteSet(V)
  <2>1. value \in Surjection(Picks, V)
    BY DEF Surjection
  <2> HIDE DEF value, V
  <2>2. QED
    BY <2>1, ChoiceAssumption, FS_Surjection
<1>2. f.lists \in [ListKeys -> SUBSET V]
  BY DEF FilterValues, Lists
<1>3. Chosen(f) \subseteq ListKeys \X V
  BY <1>2 DEF Chosen
<1> HIDE DEF V
<1>4. IsFiniteSet(ListKeys \X V)
  BY <1>1, ListKeysAreFinite, FS_Product
<1>5. QED
  BY <1>3, <1>4, FS_Subset

\* A count of none counts everything that narrows the view.
LEMMA NoneCounted ==
    ASSUME FilterOK(filters), IsFiniteSet(cross), CountActive(filters, cross) = 0
    PROVE  filters = EmptyFilters /\ cross = {}
<1> DEFINE n == Cardinality(cross)
           m == Cardinality(Chosen(filters))
<1>1. filters \in FilterValues /\ Dated(filters)
  BY DEF FilterOK
<1>2. IsFiniteSet(Chosen(filters))
  BY <1>1, ChosenAreFinite
<1>3. n \in Nat /\ m \in Nat
  BY <1>2, FS_CardinalityType
<1>4. n + m + Points(filters.search # NoSearch, 1) + Points(filters.preset # "30d", 1) = 0
  BY DEF CountActive
<1> HIDE DEF n, m
<1>5. n = 0 /\ m = 0 /\ filters.search = NoSearch /\ filters.preset = "30d"
  BY <1>3, <1>4 DEF Points
<1>6. cross = {} /\ Chosen(filters) = {}
  BY <1>2, <1>5, FS_EmptySet DEF n, m
<1>7. ASSUME NEW key \in ListKeys
      PROVE  filters.lists[key] = {}
  <2>1. \A value \in filters.lists[key] : <<key, value>> \in Chosen(filters)
    BY DEF Chosen
  <2>2. QED
    BY <1>6, <2>1
<1>8. filters.lists = NoLists
  BY <1>1, <1>7 DEF FilterValues, Lists, NoLists
<1>9. filters.from = None /\ filters.to = None
  BY <1>1, <1>5 DEF Dated
<1>10. filters = [ preset |-> "30d", from |-> None, to |-> None, search |-> NoSearch,
                   lists |-> NoLists ]
  BY <1>1, <1>5, <1>8, <1>9 DEF FilterValues
<1>11. QED
  BY <1>6, <1>10 DEF EmptyFilters

\* At rest every cross-filter was made on the page shown
\* (FilterUrlSync.tsx:14), and whatever narrows the view is among what the bar
\* offers to clear (FilterBar.tsx:163), in every state.
THEOREM NarrowsInSight == Spec => []NothingNarrowsUnseen
<1>1. Inv => CrossFiltersOfThisPage
  BY DEF CrossFiltersOfThisPage, Inv, EffectsInTurn, CrossOfLastPath, Settled, Idle
<1>2. Inv => NothingHiddenUncounted
  BY NoneCounted DEF NothingHiddenUncounted, Inv, Typed, StoreTyped
<1>3. QED
  BY <1>1, <1>2, StaysInStep, PTL DEF NothingNarrowsUnseen
=============================================================================
