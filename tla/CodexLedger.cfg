SPECIFICATION FairSpec
CONSTANTS
  a1 = a1
  a2 = a2
  t1 = t1
  t2 = t2
  c1 = c1
  c2 = c2
  c3 = c3
  Attempts = {a1, a2}
  Threads = {t1}
  Calls = {c1, c2}
  Invalid = {}
  Foreign = {}
  MaxToolCalls = 2
  IdempotentReplay = FALSE
  MaxFence = 2
  MaxReport = 2
  MaxCrashes = 1
  None = None
INVARIANTS
  SpendIsAccounted
  CompleteStepIsTotal
PROPERTIES
  SettledIsBound
CHECK_DEADLOCK FALSE
