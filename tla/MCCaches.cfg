\* Settings: two writers, three requests, a crash and one dropped handler; the
\* counters end every behaviour of theirs, so the deadlock check is off.
CONSTANTS
  main = main
  side = side
  row = row
  Unset = Unset
  Clear = Clear
  Blank = Blank
  Nothing = Nothing
  Channels = {main, side}
  MAX_HISTORY_LENGTH = 5000
  DEFAULT_HISTORY_LENGTH = 200
  MaxCooldown = 86400
  DefaultCooldown = 300
  MaxLatency = 1000
  DefaultLatency = 100
  Writers <- TwoAtATime
  RowNames = {row}
  Forms <- MixedForms
  Legacy <- LegacyFiles
  Empty = Empty
  MaxBoots = 1
  MaxRequests = 3
  MaxFaults = 1
  u1 = u1
  r1 = r1
  r2 = r2
  e1 = e1
  e2 = e2
  e3 = e3
  router = router
  local = local
  Users <- MCUsers
  Browsers <- TwoAtATime
  WebSettings <- MCWebSettings
  Broadcaster = streamer
  None = None
  MaxLogins = 1
  MaxTime = 2
  MaxCall = 1
  MaxChanges = 1
  MaxStarts = 1
  Emotes <- MCEmotes
  Glossary <- MCGlossary
  Meaningless = {}
  EmoteSettings <- MCEmoteSettings
  Chats <- MCChats
  Turns <- TwoAtATime
  NoEmotes = NoEmotes
  SearchLimit = 1
  Timeout = 1
  MaxClock = 2
  MaxPublished = 2
  Connections <- MCConnections
  OpenRouter <- MCOpenRouter
  Callers <- TwoAtATime
  NoModels = NoModels
  CacheTtl = 1
  Backoff = 1
  MaxModelClock = 3
  MaxEdits = 1
  Queries <- TwoAtATime
  NoQuery = NoQuery
  Urls <- MCUrls
  Omitted = Omitted
  Pieces = {e1, e2, Omitted}
  Instructions <- MCInstructions
  Asked = {0, 20, Omitted}
  Found = {12}
  Pages <- MCPages
  Buckets = {"image", "text"}
  Limits <- MCLimits
  ToolTtl = 1
  Capacity = 2
  SEARX_RESPONSE_LIMIT = 10
  MaxToolCall = 1
  MaxToolTime = 2
  MaxToolCalls = 4
  MaxLimitEdits = 1
SPECIFICATION MCSpec
SYMMETRY Symmetric
INVARIANTS
  Loadable
  AuditTellsLive
  RolesAreFresh
  LoggedOutStaysOut
  OffersAreCurrent
  ModelsMatchKey
  
PROPERTIES
  IsAtomic
  RefreshedOncePerInterval
CHECK_DEADLOCK FALSE
