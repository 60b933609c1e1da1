SPECIFICATION CalendarSpec
CONSTANTS
  m1 = m1 m2 = m2
  Grid = 5
  Calendars <- MCCalendars
  End = 6
  Offerable <- MCOfferable
  Respondent = {r1, r2}
  TimeSlot = {s1, s2, s3}
  Step = 1 Length = 2 Buffer = 1 Day = 6 Horizon = 4 SampleSize = 1
  ParseTime = FALSE
  Item = {a, b, c}
  Default = 1 Cap = 2 Latest = 4 Changes = 1 MaxPage = 3
INVARIANTS   PagesHaveCause
SYMMETRY Alike
CHECK_DEADLOCK FALSE
