---------------------------- MODULE MCFilterSync ----------------------------
(***************************************************************************)
(* Two pages and two SLA states; a page opened bare, filtered, or with the *)
(* default range spelt out, as no page of the console does.                *)
(***************************************************************************)
EXTENDS FilterSync

MCPicks == { <<"sla", "breached">>, <<"sla", "at_risk">> }

MCLinks ==
    { NoParams, [NoParams EXCEPT !.range = "30d"], [NoParams EXCEPT !.from = 24],
      FiltersToParams(ToggleValue(EmptyFilters, "sla", "breached")) }
=============================================================================
