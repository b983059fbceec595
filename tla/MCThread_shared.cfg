\* Three threads share the object; one creates and closes it.
SPECIFICATION FairSpec
CONSTANTS
  t1 = t1
  t2 = t2
  t3 = t3
  Thread = {t1, t2, t3}
  NoOwner = NoOwner
  Uses <- Sharers
  SpuriousWakeups = FALSE
INVARIANTS
  AccessExclusive
  NoSleeperOnDestroyedEvent
PROPERTIES
  ImplementsAbstractThread
  CallsReturnUnlessClosed
