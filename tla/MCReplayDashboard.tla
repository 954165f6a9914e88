------------------------- MODULE MCReplayDashboard -------------------------
(* An imported session with two frames of one time and a later one that    *)
(* ends it, and a captured session of one frame.                           *)
EXTENDS ReplayDashboard

CONSTANTS imported, captured

FrameTimes ==
  [s \in Session |-> IF s = imported THEN <<0, 0, 5>> ELSE <<0>>]
=============================================================================
