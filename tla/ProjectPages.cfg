SPECIFICATION PagesSpec
CONSTANTS
  one = one
  two = two
  three = three
  StaffCall = {c1, c2, c3}
  Member = {m1, m2}
  StaffFaults = {"commit"}
  LinkCall = {c1, c2, c3}
  Listing <- MCListing
  Known = {one, two}
  LinkFaults = {"commit"}
  SlotCall = {c1, c2, c3}
  SlotFaults = {"call"}
  Call = {a1, a2}
  Kinds = {"buffer"}
  Horizon = 9
  Hour = 4
  Buffers = {0, 1, 2, 4}
  DefaultBuffer = 1
  Interview <- TwoInterviews
  Sheet = {}
  Initial <- BetweenInterviews
  ParseTime = TRUE
  Overlap = FALSE
  Faults = {}
INVARIANTS StaffHolds SecondTextHasCause SlotAtOddsHasCause RowsAvoidInterviews
SYMMETRY Alike
CHECK_DEADLOCK FALSE
