\* A pair of files is published while two snapshots are captured, and a client
\* asks for anything; every read may fail.
SPECIFICATION Spec
CONSTANTS
  a = a  b = b  c = c  e1 = e1  e2 = e2  c1 = c1  c2 = c2
  Bad = Bad  None = None  Unknown = Unknown
  Id = {a, b, c}
  Expiry = {e1, e2}
  Contract = {c1, c2}
  Time <- MCTime
  Files <- MCFiles
  SeedTimes <- MCSeedTimes
  At = {2, 3, 4}
  MaxCaptures = 2
INVARIANTS
  EveryQuoteHasItsPlace
  ExactWhenNamed
  NearestIsNearest
  NothingCapturedIsMissed
  AnsweredFromItsOwn
