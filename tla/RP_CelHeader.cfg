SPECIFICATION Spec
CONSTANTS
  Requests = {r1, r2}
  Policies <- CelHeaderPolicies
  Values <- SomeValues
  DefaultCost = 2
  Limit = 2
  NumChunks = 2
  MaxWork = 2
  MaxErrors = 1
  MaxResets = 1
INVARIANT
  DeferredIsCharged
