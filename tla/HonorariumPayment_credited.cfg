SPECIFICATION Spec
CONSTANTS
  Request = {r1}
  Invalidation = {}
  Slot = {s1}
  Amount = {a1}
  NoRequest = NoRequest
  LambdaConfigured = TRUE
  Faults = {"functionError"}
INVARIANT CompletedIsCredited
