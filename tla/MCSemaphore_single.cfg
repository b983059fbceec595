\* One thread takes, two post; its condition wait may return unsignalled.
SPECIFICATION FairSpec
CONSTANTS
  w1 = w1
  w2 = w2
  p1 = p1
  p2 = p2
  Thread = {w1, p1, p2}
  Taker = {w1}
  TakeCall = {"wait", "timedwait", "try_wait"}
  InitCount <- MCInitCount
  SpuriousWakeups = TRUE
  MaxCount = 3
INVARIANTS
  CallsOnValidSemaphore
  NoLostWakeup
PROPERTIES
  ImplementsAbstract
  TakeReturns
