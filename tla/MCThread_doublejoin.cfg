\* A second waiter between the test and the count.
SPECIFICATION Spec
CONSTANTS
  t1 = t1
  t2 = t2
  t3 = t3
  Thread = {t1, t2}
  NoOwner = NoOwner
  Uses <- Waiters
  SpuriousWakeups = FALSE
INVARIANTS
  JoinedOnce
