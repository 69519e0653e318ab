SPECIFICATION Spec
CONSTANTS
  Slots = {s1}
  NoSlot = NoSlot
  Payloads <- Poisoned
  Attempts = 2
  MaxStalls = 1
  MaxJobs = 2
  Budget <- Graceful
CHECK_DEADLOCK FALSE
INVARIANTS
  NoSilentDrop
