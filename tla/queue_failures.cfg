SPECIFICATION FairSpec
CONSTANTS
  Slots = {s1, s2}
  NoSlot = NoSlot
  Payloads <- Mixed
  Attempts = 2
  MaxStalls = 1
  MaxJobs = 2
  Budget <- TwoFailures
CHECK_DEADLOCK FALSE
INVARIANTS
  TypeOK
  CompletedRepresented
  DeadLettersSound
  StampedWasReplayed
  DropNeedsFault
  LogicalFailsAtOnce
PROPERTIES
  SettledOnce
  ImplementsSpine
  EverySettles
  HealsOnceDeadLettered
