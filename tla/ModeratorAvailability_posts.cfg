CONSTANTS
  Call = {c1, c2}
  Kinds = {"post", "remove", "delete"}
  Horizon = 8
  Hour = 4
  Buffers = {2}
  DefaultBuffer = 1
  Interview <- LateInterview
  Sheet = {}
  Initial <- ApartOrImported
  ParseTime = FALSE
  Overlap = FALSE
  Faults = {}
SPECIFICATION Spec
INVARIANTS RowsApart RowsAvoidInterviews
  
CHECK_DEADLOCK FALSE
