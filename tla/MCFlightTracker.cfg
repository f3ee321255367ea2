\* Several flights, commands racing a poll round, and a crash.
CONSTANTS
  c1 = c1
  c2 = c2
  h1 = h1
  u1 = u1
  u2 = u2
  None = None
  Callsigns <- MCCallsigns
  Hexes <- MCHexes
  Users <- MCUsers
  Icao <- MCIcao
  Fleet <- MCFleet
  Metadata <- MCMetadata
  Requests <- MCRequests
  AviationstackEnabled = TRUE
  SavesMayFail = TRUE
  MAX_TRACKED_FLIGHTS = 2
  MAX_FLIGHTS_PER_USER = 1
  ChannelCap = 2
  MaxSent = 3
  MaxCrashes = 1
SPECIFICATION FairSpec
INVARIANTS
  UniqueIdentifiers
  AnswersMeetTheirFlight
  ChatInOrder
  NothingUnsavedForgotten
  RemovalAnnouncedOrRedone
PROPERTY EveryCommandHandled
CHECK_DEADLOCK FALSE
