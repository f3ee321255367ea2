SPECIFICATION AssistantSpec
CONSTANTS
  Users <- MCUsers
  Streamer = "streamer"
  Admins <- MCAdmins
  Bot = "bot"
  None = None
  Nobody = Nobody
  Kinds <- MCAdminKinds
  Memories <- MCMemories
  Replies <- MCReplies
  Knobs <- MCKnobs
  Prefills <- MCPrefills
  Queue = 2
  RecentBytes <- MCRecentBytes
  Budget = 6
  NewsContext = 1
  HaikuContext = 1
  MaxRounds = 2
  Suspensions <- MCSuspensions
  WebTools = TRUE
  MaxMessages = 3
  MaxMoment = 1
  MaxRetunes = 1
CHECK_DEADLOCK FALSE
INVARIANT
  TranscriptIsPrimary
