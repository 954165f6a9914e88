\* Every command, three options, two losses of the connection.
SPECIFICATION FairProbeSpec
CONSTANTS
  Option = {4, 5, 6}
  MaxLosses = 2
CHECK_DEADLOCK FALSE
INVARIANTS
  ProbeTypeOK
  ReadyIsEarned
  WholeSnapshot
  Released
PROPERTIES
  Ends
