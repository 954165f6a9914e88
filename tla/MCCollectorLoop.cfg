\* Two expiries, five codes in requests of four, one without a strike, all over the rate limit, one restart.
SPECIFICATION FairLoopSpec
CONSTANTS
  Universe <- Order
  Compatible = {"SPX", "QQQ"}
  SPX = "SPX"
  Proxied = {"SPX"}
  Inferred = {"SPX"}
  OptionCodes = {"x1", "x2", "x3", "q1", "r1"}
  SymbolOf <- SymbolOfCode
  Struck = {"x1", "x2", "q1", "r1"}
  Chunk = 4
  Allowed = 2
  MaxDay = 2
  MaxStarts = 2
CHECK_DEADLOCK FALSE
INVARIANTS
  LoopTypeOK
  ConnectedIsWhole
PROPERTIES
  ShownAdvances
  RollsOver
