\* Three days of seven slots, captures of up to three, one fault.
SPECIFICATION Spec
CONSTANTS
  Tickers = {1, 2}
  Codes = {"a", "b", "c"}
  TickerOf <- TickerOfCode
  Chunks <- CodeChunks
  DayLen = 7
  Open = 1
  Close = 5
  Weekend = {1}
  Horizon = 16
  Interval = 2
  Poll = 3
  Longest = 3
  Backoff = 2
  Loops = {0, 2}
  MaxFaults = 1
INVARIANTS
  WindowIsAhead
  FilesAgree
  LossIsBounded
  NoGap
