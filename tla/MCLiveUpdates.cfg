\* Two sockets and two loops in use, snapshots of two seconds; fair timers,
\* messages and polls.
SPECIFICATION FairSpec
CONSTANTS
  Socket = {s1, s2}
  Loop = {l1, l2}
  None = None
  Second <- Seconds
  MaxVersion = 3
  MaxInFlight = 1
INVARIANTS
  StopLeavesNothing
  SourceAtAllTimes
PROPERTIES
  BackOnlyAtTakeover
  CatchesUp
CHECK_DEADLOCK FALSE
