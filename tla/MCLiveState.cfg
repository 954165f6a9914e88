\* Growing event times, an unreliable Redis, a restart.
SPECIFICATION Spec
CONSTANTS
  Key = {a, b}
  Time = {1, 2}
  Reader = {r1}
  Live = Live
  None = None
  InOrder = TRUE
  RedisFails = TRUE
  MaxEvents = 3
  MaxRestarts = 1
SYMMETRY Symmetric
INVARIANTS
  ReadsWhatIsIngested
CHECK_DEADLOCK FALSE
