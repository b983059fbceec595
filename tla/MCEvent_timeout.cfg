\* An auto event signalled between a deadline and the return of the wait.
SPECIFICATION Spec
CONSTANTS
  w1 = w1
  w2 = w2
  s1 = s1
  Thread = {w1, w2, s1}
  Waiter = {w1, w2, s1}
  WaitCall = {"wait", "timed_wait"}
  Kind = {FALSE}
  SpuriousWakeups = FALSE
PROPERTIES
  TimeoutKeepsSignal
