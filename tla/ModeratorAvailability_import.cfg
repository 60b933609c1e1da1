CONSTANTS
  Call = {c1, c2}
  Kinds = {"post", "import", "forced", "update", "create", "delete", "unlink", "buffer", "remove"}
  Horizon = 2
  Hour = 4
  Buffers = {1}
  DefaultBuffer = 1
  Interview <- SoonInterview
  Sheet <- TwoBlocks
  Initial <- BothTables
  ParseTime = TRUE
  Overlap = TRUE
  Faults = {"sheet", "read", "statement", "timeout", "crash"}
SPECIFICATION FairSpec
PROPERTY ImportEnds
CHECK_DEADLOCK FALSE
