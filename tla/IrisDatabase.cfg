SPECIFICATION DatabaseSpec
CONSTANTS
  s1 = s1 s2 = s2
  q1 = q1 q2 = q2
  Run = {r1, r2}
  Slot = {s1, s2}
  Ineligible = {s2}
  Copies <- OneRowEach
  NoCredit = NoCredit
  Overlap = TRUE
  Lag = TRUE
  Faults <- AllFaults
  Query = {q1, q2}
  Conn = {1, 2, 3, 4, 5}
  Rows = 1
INVARIANTS PaidNamesItsCredit CreditedTwiceHasCause StuckHasCause
PROPERTIES PaidByNextRun EveryoneIsAnswered
