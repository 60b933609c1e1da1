SPECIFICATION FairSpec
CONSTANTS
  Request = {r1, r2}
  Invalidation = {i1}
  Slot = {s1, s2}
  Amount = {a1}
  NoRequest = NoRequest
  LambdaConfigured = TRUE
  Faults <- ServedFaults
PROPERTY PendingIsResolved
