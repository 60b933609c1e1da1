SPECIFICATION ScheduledSpec
CONSTANTS
  Check = {v1, v2, v3}
  Crowd = {w1, w2}
  Quotas = {3, 10}
  Percent = 15
  LastEdit = 1
  LaunchFaults = {"statement"}
  Process = {p1, p2}
  LastStatusEdit = 2
  ClosingFaults = {"statement"}
  Renewer = {p1, p2}
  WatchId = {1, 2, 3, 4, 5, 6}
  MonthLengths = {28, 31}
  WatchFaults = {"call", "store"}
  Server = {p1, p2}
  Ahead = {20, 29, 30, 31, 32, 33, 34, 35}
  LastMove = 2
  ReminderFaults = {"run"}
  MeetingCall = {c1, c2, c3, c4}
  Meeting = {k1}
  Body = {b1, b2}
  Empty = Empty
  MeetingFaults = {"statement"}
INVARIANTS TotalIsSumOfShares UnwatchedHasCause RemindersMatchRuns RecordingLostHasCause
PROPERTIES OverIsClosed
CHECK_DEADLOCK FALSE
