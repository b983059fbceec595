\* Two sleepers, two posts, one signal.
SPECIFICATION FairSpec
CONSTANTS
  w1 = w1
  w2 = w2
  p1 = p1
  p2 = p2
  Thread = {w1, w2, p1}
  Taker = {w1, w2}
  TakeCall = {"wait"}
  InitCount <- MCInitCount
  SpuriousWakeups = FALSE
  MaxCount = 2
PROPERTIES
  TakeReturns
