\* One session, one cutoff.
SPECIFICATION Spec
CONSTANTS
  Session = {s1}
  None = None
  Interval = 2
  Cutoffs = {3}
  MaxTime = 3
  MaxId = 3
PROPERTY CleanupDeletesOldOnly
