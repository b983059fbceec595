\* Three threads that may destroy the mutex in use, fair scheduling.
SPECIFICATION FairSpec
CONSTANTS
  t1 = t1
  t2 = t2
  t3 = t3
  Thread = {t1, t2, t3}
  NoOwner = NoOwner
  DestroyInUse = TRUE
INVARIANTS
  MutualExclusion
PROPERTIES
  OnlyOwnerReleases
  LockReturns
