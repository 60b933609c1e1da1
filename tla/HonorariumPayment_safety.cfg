SPECIFICATION Spec
CONSTANTS
  Request = {r1, r2}
  Invalidation = {}
  Slot = {s1, s2}
  Amount = {a1, a2}
  NoRequest = NoRequest
  LambdaConfigured = TRUE
  Faults <- AllFaults
SYMMETRY Symmetry
INVARIANT AtMostOneCompleted
INVARIANT CreditedOnceUnlessLost
PROPERTY FinalStatusIsKept
PROPERTY ImplementsLedger
