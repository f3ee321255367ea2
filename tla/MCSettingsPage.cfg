\* A rejected value is corrected and sent again.
CONSTANTS
  main = main
  side = side
  Unset = Unset
  Clear = Clear
  Blank = Blank
  Empty = Empty
  Nothing = Nothing
  NoPage = NoPage
  Channels = {main, side}
  MAX_HISTORY_LENGTH = 5000
  DEFAULT_HISTORY_LENGTH = 200
  MaxCooldown = 86400
  DefaultCooldown = 300
  MaxLatency = 1000
  DefaultLatency = 100
  Writers = {}
  RowNames = {}
  Forms <- TypedForms
  Legacy <- NoLegacy
  MaxBoots = 0
  MaxRequests = 0
  MaxFaults = 0
SPECIFICATION PageSpec
PROPERTY KeepsWhatWasNotTyped
CHECK_DEADLOCK FALSE
