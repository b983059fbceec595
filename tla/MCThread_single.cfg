\* One thread uses the object, spurious wakeups included.
SPECIFICATION FairSpec
CONSTANTS
  t1 = t1
  t2 = t2
  t3 = t3
  Thread = {t1}
  NoOwner = NoOwner
  Uses <- SingleUser
  SpuriousWakeups = TRUE
INVARIANTS
  JoinedOnce
PROPERTIES
  ClosedMeansCollected
