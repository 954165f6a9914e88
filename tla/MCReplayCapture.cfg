\* Two sessions, times around one cutoff, fair calls and a fair Postgres.
SPECIFICATION FairSpec
CONSTANTS
  Session = {s1, s2}
  None = None
  Interval = 2
  Cutoffs = {2}
  MaxTime = 2
  MaxId = 3
INVARIANTS
  Spacing
  SummaryExact
  CapturedIsKept
PROPERTIES
  CleanupSparesNew
  CaptureEnds
