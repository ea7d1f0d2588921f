------------------------------ MODULE Filters -------------------------------
(***************************************************************************)
(* The global filter bar and the cross-filters made in a chart             *)
(* (frontend/src/data/filters.ts, data/hooks.ts): their values, what each  *)
(* operation of the filter store makes of them, which parcels they leave,  *)
(* and the query parameters they are saved as.                             *)
(*                                                                         *)
(* A list of values is a set: no view depends on the order.  Dates are     *)
(* hours, as in Analytics, and a search is one of the words of a parcel.   *)
(* The query parameters are one record with a field for each key of the    *)
(* URL, null or empty where the key is absent; splitting on commas and     *)
(* sorting the keys are then the identity, as no value contains a comma.   *)
(***************************************************************************)
EXTENDS Analytics

Presets == { "today", "24h", "7d", "30d", "all", "custom" }

ListKeys == { "divisions", "cities", "districts", "hubs", "merchants", "statuses",
              "statusGroups", "serviceTypes", "riders", "vehicles", "sla", "priorities",
              "paymentTypes" }

NoLists == [ key \in ListKeys |-> {} ]
NoSearch == ""

EmptyFilters ==
    [ preset |-> "30d", from |-> None, to |-> None, search |-> NoSearch, lists |-> NoLists ]

----------------------------------------------------------------------------
\* The operations of the store on the bar's filters.

SetPreset(f, preset) ==
    IF preset = "custom" THEN [f EXCEPT !.preset = preset]
    ELSE [f EXCEPT !.preset = preset, !.from = None, !.to = None]

SetRange(f, from, to) == [f EXCEPT !.preset = "custom", !.from = from, !.to = to]

SetSearch(f, word) == [f EXCEPT !.search = word]

SetList(f, key, values) == [f EXCEPT !.lists[key] = values]

ToggleValue(f, key, value) ==
    SetList(f, key, IF value \in f.lists[key] THEN f.lists[key] \ { value }
                    ELSE f.lists[key] \cup { value })

\* A cross-filter is what one chart, its source, asks of one key.
CrossFilter(key, value, source) == [ key |-> key, value |-> value, source |-> source ]

RemoveCross(cross, key, value) == { c \in cross : c.key # key \/ c.value # value }
ClearCrossSource(cross, source) == { c \in cross : c.source # source }
SetCross(cross, c) == ClearCrossSource(cross, c.source) \cup { c }

\* useCross(source).toggle: one value at a time, and none when it is clicked again.
ToggleCross(cross, key, value, source) ==
    IF \E c \in cross : c.source = source /\ c.key = key /\ c.value = value
    THEN ClearCrossSource(cross, source)
    ELSE SetCross(cross, CrossFilter(key, value, source))

----------------------------------------------------------------------------
\* The window in time, and the one of the same length before it.

DateRange(f, now) ==
    CASE f.preset = "today" -> <<now - (now % Day), now>>
      [] f.preset = "24h" -> <<now - Day, now>>
      [] f.preset = "7d" -> <<now - 7 * Day, now>>
      [] f.preset = "30d" -> <<now - 30 * Day, now>>
      [] f.preset = "custom" -> <<IF f.from = None THEN 0 ELSE f.from,
                                  IF f.to = None THEN now ELSE f.to + Day - 1>>
      [] f.preset = "all" -> None

PreviousRange(f, now) ==
    LET range == DateRange(f, now)
    IN  IF range = None THEN None
        ELSE <<range[1] - (range[2] - range[1]), range[1] - 1>>

----------------------------------------------------------------------------
\* Which parcels are left.

\* The values of a parcel that a filter on the key looks at.
Values(s, key) ==
    CASE key = "divisions" -> { s.division }
      [] key = "cities" -> { s.city }
      [] key = "districts" -> { s.district }
      [] key = "hubs" -> { s.currentNode, s.source, s.target }
      [] key = "merchants" -> { s.merchant }
      [] key = "statuses" -> { s.status }
      [] key = "statusGroups" -> { s.group }
      [] key = "serviceTypes" -> { s.service }
      [] key = "riders" -> { s.rider }
      [] key = "vehicles" -> { s.vehicle }
      [] key = "sla" -> { s.sla }
      [] key = "priorities" -> { s.priority }
      [] key = "paymentTypes" -> { s.payment }

\* An empty list does not constrain; null is in no list.
ListMatch(list, values) == list = {} \/ values \cap list # {}

\* The bar's values of a key that a chart also asks for, or whichever there are.
EffectiveLists(f, cross) ==
    [ key \in ListKeys |->
        LET base == f.lists[key]
            extra == { c.value : c \in { x \in cross : x.key = key } }
        IN  IF base # {} /\ extra # {} THEN base \cap extra ELSE base \cup extra ]

Words(s) == { s.id, s.merchant, s.city, s.origin, s.destination, s.rider, s.vehicle, s.status }

MatchesLists(s, lists, word) ==
    /\ \A key \in ListKeys : ListMatch(lists[key], Values(s, key))
    /\ word = NoSearch \/ word \in Words(s)

Within(s, range) == range[1] <= s.createdAt /\ s.createdAt <= range[2]

ApplyFilters(ships, f, cross, now) ==
    LET range == DateRange(f, now)
        lists == EffectiveLists(f, cross)
    IN  { s \in ships : (range = None \/ Within(s, range)) /\ MatchesLists(s, lists, f.search) }

ApplyFiltersPrevious(ships, f, cross, now) ==
    LET range == PreviousRange(f, now)
        lists == EffectiveLists(f, cross)
    IN  { s \in ships : range # None /\ Within(s, range) /\ MatchesLists(s, lists, f.search) }

\* What the bar's lists ask for.
Chosen(f) == UNION { { <<key, value>> : value \in f.lists[key] } : key \in ListKeys }

CountActive(f, cross) ==
    Cardinality(cross) + Cardinality(Chosen(f))
    + Points(f.search # NoSearch, 1) + Points(f.preset # "30d", 1)

----------------------------------------------------------------------------
\* The query parameters.

NoParams == [ range |-> None, from |-> None, to |-> None, q |-> None, lists |-> NoLists ]

FiltersToParams(f) ==
    [ range |-> IF f.preset = "30d" THEN None ELSE f.preset,
      from |-> IF f.preset = "custom" THEN f.from ELSE None,
      to |-> IF f.preset = "custom" THEN f.to ELSE None,
      q |-> IF f.search = NoSearch THEN None ELSE f.search,
      lists |-> f.lists ]

ParamsToFilters_AnyRange(params) ==   \* mutant: the range is taken as it comes
    [ preset |-> params.range, from |-> params.from, to |-> params.to,
      search |-> IF params.q = None THEN NoSearch ELSE params.q,
      lists |-> params.lists ]

ParamsToFilters(params) ==
    [ preset |-> IF params.from # None \/ params.to # None THEN "custom"
                 ELSE IF params.range \in Presets THEN params.range ELSE "30d",
      from |-> params.from, to |-> params.to,
      search |-> IF params.q = None THEN NoSearch ELSE params.q,
      lists |-> params.lists ]

=============================================================================
