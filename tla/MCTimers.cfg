\* The runner: one schedule, edited three times, with a shutdown.  The triggers: three
\* days and three hours, a week ahead.  The process: two starts.  The game: two days with
\* two messages and one place each, a crash and failing saves.  The latency monitor: five
\* rounds.
CONSTANTS
  Names = {n1}
  a = a
  b = b
  None = None
  Contents <- MCContents
  Slots <- MCSlots
  MaxEdits = 3
  MaxNow = 3
  MayStop = TRUE
  Hour = 2
  Schedules <- MCSchedules
  Zones <- MCZones
  Nil = Nil
  MaxScan = 400
  LastTick = 150
  Handlers = {"router", "sched", "pings"}
  HasWeb = TRUE
  MaxBoots = 2
  alice = alice
  bob = bob
  Nobody = Nobody
  Players <- TwoPlayers
  MAX_USERS = 1
  Latencies = {0, 1}
  MaxDay = 1
  MaxMessages = 2
  MaxGameCrashes = 1
  SavesMayFail = TRUE
  Expected = {100}
  RoundTrips = {0, 31, 9999}
  MaxPings = 5
SPECIFICATION MCSpec
INVARIANTS
  NoOrphans
  HealthTellsTheLine
PROPERTIES
  FiresOncePerSlot
  NoSlotSkipped
  ShutdownEnds
  AnnouncementTrue
  ResultEveryDay
CHECK_DEADLOCK FALSE
