--------------------------- MODULE MCHeatmapStore ---------------------------
(* Two contracts, three snapshot times around 09:25 in two buckets, and    *)
(* two concurrent requests.                                                *)
EXTENDS HeatmapStore, TLC

MCBucketOf == [t \in Time |-> IF t = 1 THEN "09:20" ELSE "09:25"]
MCBucket == {"09:20", "09:25"}
Symmetric == Permutations(Contract) \cup Permutations(Request)
=============================================================================
