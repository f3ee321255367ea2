\* Two schedule tasks and two posts in the same minute, so that two saves and
\* the flush can overlap.
CONSTANTS
  ScheduleNames = {n1, n2}
  Tasks = {t1, t2}
  NoRuntime = NoRuntime
  Empty = Empty
  Mixed = Mixed
  MaxFires = 2
  MaxDay = 0
  MaxRestarts = 0
  SavesMayFail = FALSE
SPECIFICATION TelemetrySpec
INVARIANT NeverTorn
CHECK_DEADLOCK FALSE
