\* The durations of the polls are scaled down and keep the order of the real ones.
CONSTANTS
  c1 = c1
  c2 = c2
  h1 = h1
  h2 = h2
  l1 = l1
  l2 = l2
  u1 = u1
  None = None
  Callsigns <- MCCallsigns
  Hexes <- MCHexes
  Users <- MCUsers
  Fleet <- MCFleet
  Metadata <- MCMetadata
  Idents <- MCIdents
  Instants = {0, 4, 8, 12, 16}
  SkipBefore = 16
  Flights <- AnyFlight
  PollFleet <- AnyPlane
  Outages = TRUE
  MaxLag = 1
  MaxClock = 42
  MaxLive = 13
  LostThreshold = 2
  RemovalAfter = 8
  InferBefore = 10
  InferAfter = 18
  POLL_FAST = 1
  POLL_NORMAL = 1
  POLL_SLOW = 2
  POLL_60_SEC = 1
  POLL_2_MIN = 2
  POLL_5_MIN = 3
  POLL_10_MIN = 4
  POLL_15_MIN = 5
  POLL_30_MIN = 7
  WAKE_BEFORE = 16
  LOCK_IN_BEFORE = 10
  HUNT_BEFORE = 5
  NEAR_AFTER = 4
  MID_AFTER = 9
  SCHEDULED_EXPIRE_AFTER = 18
  FAST_AFTER_TRACK = 3
  NORMAL_AFTER_TRACK = 12
  UNKNOWN_EXPIRE_AFTER = 26
  N = 2
  Missing = Missing
  Lookups <- TwoLookups
  Stalest = 9
  Lists <- ManyLists
  ERROR_STREAK_PARK = 2
  Cooldown = 2
  MaxInstant = 3
SPECIFICATION MCSpec
SYMMETRY Symmetric
INVARIANTS
  RestartIsIdentity
  PromisesKept
  LookupsSound
PROPERTIES
  TakeoffOncePerLeg
  RemovedOnlyAfterGrace
CHECK_DEADLOCK FALSE
