\* One ping that pings.ron may hold already, four commands, a channel of one, two
\* cooldowns and a crash.
CONSTANTS
  x = x
  mod = mod
  viewer = viewer
  web = web
  named = named
  bad = bad
  None = None
  Names = {x}
  Users = {mod, viewer}
  Admins = {mod}
  Templates = {named, bad}
  WithSender = {named}
  Invalid = {bad}
  WebClients = {web}
  Cooldowns = {1, 2}
  FilePings <- FromTheFile
  PING_ACTOR_CHANNEL = 1
  MaxCalls = 4
  MaxNow = 2
  MaxCrashes = 1
SPECIFICATION FairSpec
INVARIANTS
  GoneNotMentioned
PROPERTIES
  CooldownKept
  EveryCallAnswered
CHECK_DEADLOCK FALSE
