----------------------------- MODULE MCDataStore -----------------------------
(***************************************************************************)
(* Parcels that wait for a second attempt: from here the engine, this tab  *)
(* and another one can each send them out and have them delivered.         *)
(***************************************************************************)
EXTENDS DataStore

MCStart == [p \in Package |-> "RESCHEDULED"]
=============================================================================
