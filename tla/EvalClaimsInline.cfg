SPECIFICATION Spec
CONSTANTS
  Owners = {o1, o2}
  Evidence = {e1, e2}
  o1 = o1
  o2 = o2
  e1 = e1
  e2 = e2
  RowTuples <- NoRows
  Modes = {"inline"}
  MaxCalls = 2
  MaxRenewals = 2
  None = None
SYMMETRY Symmetry
INVARIANTS
  TypeOK
  StreamWellFormed
  GenerationHasOneOwner
  ResolvedIsAttested
  CallersAgree
  NoInternalError
PROPERTIES
  TakeoverOnlyAfterExpiry
  NoEvaluationAfterAttestation
  ImplementsEvalResolution
