------------------------------ MODULE DataTable -----------------------------
(***************************************************************************)
(* The table every list of the portal uses                                 *)
(* (frontend/src/components/ui/DataTable.tsx): sorting, paging and the     *)
(* selection, which the page that shows the table keeps by key.  Hidden    *)
(* columns and the export are left out.                                    *)
(***************************************************************************)
EXTENDS Naturals, Sequences, SequencesExt

\* The elements of seq that are in S, in their order: SelectSeq, by a set.
Kept(seq, S) ==
    LET kept[n \in 0 .. Len(seq)] ==
            IF n = 0 THEN << >>
            ELSE IF seq[n] \in S THEN Append(kept[n - 1], seq[n]) ELSE kept[n - 1]
    IN  kept[Len(seq)]

\* sort is "none", "asc" or "desc", by the one column that can be sorted.
NewTable(size) == [ sort |-> "none", page |-> 0, size |-> size, selected |-> { } ]

\* Array.prototype.sort is stable: rows of one value keep their order.
Sorted(rows, sort, values, value) ==
    LET of(v) == Kept(rows, { r \in ToSet(rows) : value[r] = v })
        up == FlattenSeq([ i \in DOMAIN values |-> of(values[i]) ])
        down == FlattenSeq([ i \in DOMAIN values |-> of(Reverse(values)[i]) ])
    IN  CASE sort = "none" -> rows [] sort = "asc" -> up [] sort = "desc" -> down

PageCount(table, rows) ==
    IF rows = << >> THEN 1 ELSE (Len(rows) + table.size - 1) \div table.size

\* Rows may have gone since the page was turned.
SafePage_AsTurned(table, rows) == table.page   \* mutant
SafePage(table, rows) ==
    LET last == PageCount(table, rows) - 1 IN IF table.page > last THEN last ELSE table.page

PageRows(table, rows) ==
    LET from == SafePage(table, rows) * table.size
        to == IF from + table.size > Len(rows) THEN Len(rows) ELSE from + table.size
    IN  SubSeq(rows, from + 1, to)

\* The rows a bulk action is offered for.
SelectedRows(table, rows) == Kept(rows, table.selected)

ToggleSort(table) ==
    [ table EXCEPT !.sort = CASE @ = "none" -> "asc" [] @ = "asc" -> "desc" [] OTHER -> "none" ]

ToggleOne(table, r) ==
    [ table EXCEPT !.selected = IF r \in @ THEN @ \ { r } ELSE @ \cup { r } ]

\* The box in the header speaks of the page that is shown.
ToggleAll(table, rows) ==
    LET here == ToSet(PageRows(table, rows))
    IN  [ table EXCEPT !.selected = IF here # { } /\ here \subseteq @ THEN @ \ here ELSE @ \cup here ]

TurnPage(table, rows, forward) ==
    [ table EXCEPT !.page = IF forward THEN SafePage(table, rows) + 1 ELSE SafePage(table, rows) - 1 ]

SetPageSize(table, size) == [ table EXCEPT !.size = size, !.page = 0 ]
=============================================================================
