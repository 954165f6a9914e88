---------------------------- MODULE MCLiveState ----------------------------
(* Two keys, two readers and a process that restarts once.                 *)
EXTENDS LiveState, TLC

Symmetric == Permutations(Key) \cup Permutations(Reader)
=============================================================================
