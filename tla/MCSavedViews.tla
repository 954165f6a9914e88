---------------------------- MODULE MCSavedViews -----------------------------
(* A small instance of SavedViews: a view, the same one with the scope of   *)
(* the admin, and the same one created before the cutoff.                   *)
EXTENDS SavedViews, TLC

CONSTANTS t1, t2, a
Symmetric == Permutations({t1, t2})

MCView == {[id |-> a, admin |-> FALSE, created |-> 2], [id |-> a, admin |-> TRUE, created |-> 2],
           [id |-> a, admin |-> FALSE, created |-> 1]}
=============================================================================
