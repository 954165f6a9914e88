--------------------------- MODULE MCLiveUpdates ---------------------------
(* Two sockets, two polling loops and a few snapshots of two seconds.      *)
EXTENDS LiveUpdates

Seconds == [v \in 0 .. MaxVersion |-> v \div 2]
=============================================================================
