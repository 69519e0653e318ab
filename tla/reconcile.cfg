SPECIFICATION FairSpec
CONSTANTS
  Records = {r1, r2}
  Slots = {s1, s2}
  NoSlot = NoSlot
  PageSize = 1
  Attempts = 2
  MaxStalls = 1
  MaxUpdates = 2
  Budget <- TwoFailures
INVARIANTS
  TypeOK
  CursorCovers
  SingleWriter
PROPERTIES
  CursorNeverRegresses
  RawNeverRegresses
  RunsEnd
  EventuallyDelivered
