\* Memory: three calls, one write a turn.  Transcript: three days of three
\* slots, three lines, one edit and one clock set back.  Telemetry: two posts
\* over a midnight, a restart and failing saves.  The counters end every
\* behaviour: the deadlock check is off.
CONSTANTS
  Soul = Soul
  Lore = Lore
  u1 = u1
  s1 = s1
  s2 = s2
  browser = browser
  Turn = Turn
  Dreamer = Dreamer
  None = None
  Users = {u1}
  Slugs <- TwoOfEach
  Web = {browser}
  CapChoices = {1, 2}
  MaxWritesPerTurn = 1
  MaxCalls = 3
  MaxNow = 2
  SlotsPerDay = 3
  RunAts = {1, 2}
  LastSlot = 7
  MaxLines = 3
  MaxEdits = 1
  MaxSetBacks = 1
  NoRuntime = NoRuntime
  Empty = Empty
  Mixed = Mixed
  ScheduleNames <- TwoOfEach
  Tasks <- TwoOfEach
  MaxFires = 2
  MaxDay = 1
  MaxRestarts = 1
  SavesMayFail = TRUE
SPECIFICATION MCSpec
SYMMETRY Symmetric
INVARIANTS
  StateFilesCapped
  NobodyIsStuck
  LinesKept
  FileFollowsMap
PROPERTIES
  NoSilentLoss
CHECK_DEADLOCK FALSE
