SPECIFICATION Spec
CONSTANTS
  Records = {r1, r2}
  Slots = {s1, s2}
  NoSlot = NoSlot
  PageSize = 1
  Attempts = 2
  MaxStalls = 1
  MaxUpdates = 2
  MaxJobs = 2
  Budget <- TwoFailures
SYMMETRY Symmetry
CHECK_DEADLOCK FALSE
INVARIANTS
  CompletedCovers
  EnqueuedIsLanded
  SerialOneRaw
