SPECIFICATION FairSpec
CONSTANTS
  Owners = {o1, o2}
  Evidence = {e1}
  o1 = o1
  o2 = o2
  e1 = e1
  e2 = e2
  RowTuples <- MixedRows
  Modes = {"inline", "platform", "fanin"}
  MaxCalls = 1
  MaxRenewals = 1
  None = None
PROPERTIES
  RowFailureNotMasked
  DeferredIntentSurvives
  EveryCallEnds
  AttestedGetsBound
