----------------------------- MODULE LossyFeed ------------------------------
(***************************************************************************)
(* What a live channel promises a mounted hook, and all it promises: the   *)
(* messages it hands over are published ones, in the order of publication. *)
(* The last one may come again, on a new socket; any may be missing        *)
(* ("the backend relay has no memory of missed messages",                  *)
(* frontend/src/hooks/useLiveChannel.ts:10).                               *)
(* Messages are numbered in the order of their publication.                *)
(***************************************************************************)
EXTENDS Naturals

CONSTANT Client

VARIABLES sent,  \* how many messages have been published
          last   \* the last message each client was handed, 0 for none

Init == sent = 0 /\ last = [c \in Client |-> 0]

Publish == sent' = sent + 1 /\ UNCHANGED last

HandOver(c, m) ==
    /\ last[c] <= m /\ m <= sent
    /\ last' = [last EXCEPT ![c] = m]
    /\ UNCHANGED sent

Next == Publish \/ \E c \in Client, m \in 1 .. sent : HandOver(c, m)

Spec == Init /\ [][Next]_<<sent, last>>
=============================================================================
