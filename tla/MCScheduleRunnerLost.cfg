\* Two edits, no shutdown: the last edit may be missed.
CONSTANTS
  Names = {n1}
  a = a
  b = b
  None = None
  Contents <- MCContents
  Slots <- MCSlots
  MaxEdits = 2
  MaxNow = 3
  MayStop = FALSE
SPECIFICATION FairSpec
PROPERTY EditsTakeEffect
CHECK_DEADLOCK FALSE
