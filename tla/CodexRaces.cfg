SPECIFICATION Spec
CONSTANTS
  a1 = a1
  a2 = a2
  t1 = t1
  t2 = t2
  c1 = c1
  c2 = c2
  c3 = c3
  Attempts = {a1, a2}
  Threads = {t1, t2}
  Calls = {c1, c2, c3}
  Invalid = {c3}
  Foreign = {c2}
  MaxToolCalls = 1
  IdempotentReplay = TRUE
  MaxFence = 2
  MaxReport = 2
  MaxCrashes = 1
  None = None
SYMMETRY Symmetry
INVARIANTS
  CapacityIsDense
  OneAnswerPerCall
  ReconciliationBuysNothing
  NoStrandedLease
CHECK_DEADLOCK FALSE
