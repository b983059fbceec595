\* Two threads take: one overtakes a woken waiter.
SPECIFICATION Spec
CONSTANTS
  w1 = w1
  w2 = w2
  p1 = p1
  p2 = p2
  Thread = {w1, w2, p1}
  Taker = {w1, w2}
  TakeCall = {"wait", "try_wait"}
  InitCount <- MCInitCount
  SpuriousWakeups = FALSE
  MaxCount = 2
INVARIANTS
  CallsOnValidSemaphore
