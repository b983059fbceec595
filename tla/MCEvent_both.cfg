\* Events of both kinds, spurious wakeups, fair scheduling.
SPECIFICATION FairSpec
CONSTANTS
  w1 = w1
  w2 = w2
  s1 = s1
  Thread = {w1, w2, s1}
  Waiter = {w1, w2, s1}
  WaitCall = {"wait", "timed_wait"}
  Kind = {TRUE, FALSE}
  SpuriousWakeups = TRUE
INVARIANTS
  ManualHighNoSleeper
  AutoHighHasWakeup
PROPERTIES
  OKOnlyIfHigh
  ImplementsAbstract
  ManualHighReleasesAll
  AutoHighIsConsumed
