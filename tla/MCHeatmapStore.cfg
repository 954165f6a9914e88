\* Morning, lock and after; every database failure; late and repeated snapshots.
SPECIFICATION Spec
CONSTANTS
  Contract = {c1, c2}
  Interest = {10, 20}
  Time = {1, 2, 3}
  LockTime = 3
  BucketOf <- MCBucketOf
  Bucket <- MCBucket
  Request = {r1, r2}
  None = None
  MaxFetch = 3
SYMMETRY Symmetric
INVARIANTS
  BaselineIsDaily
  LockedServesBaseline
  BucketShowsSnapshot
CHECK_DEADLOCK FALSE
