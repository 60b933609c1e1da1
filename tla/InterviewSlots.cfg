CONSTANTS
  s1 = s1
  s2 = s2
  Call = {c1, c2}
  Slot = {s1, s2}
  Target = {s1}
  Moderator = {m1}
  NoModerator = NoModerator
  Sizes = {1, 2}
  Edits <- FinishOrSpoil
  HandEdits <- Start
  Actions = {"cancel"}
  InitialSlots <- OneMade
  Faults = {"statement"}
SPECIFICATION Spec
SYMMETRY CallSymmetry
INVARIANTS CompletedIsFull PaidInvalidationHasCause FinishedKeepsModerators
PROPERTIES SizeCoversInterviews ActionedIsKept
CHECK_DEADLOCK FALSE
