SPECIFICATION Spec
SYMMETRY RequestSymmetry
CONSTANTS
  Requests = {r1, r2}
  Policies <- SomePolicies
  Values <- SomeValues
  DefaultCost = 2
  Limit = 2
  NumChunks = 2
  MaxWork = 2
  MaxErrors = 1
  MaxResets = 1
INVARIANTS
  TypeOK
  NeverOvercharged
  ChargedExactly
  EveryQuotaReported
  ExhaustedBlocks
  FailureModeHonoured
