SPECIFICATION Spec
CONSTANTS
  Attempts = 4
  BaseMs = 4
  CapMs = 18
  Errors <- Shapes
CHECK_DEADLOCK FALSE
INVARIANTS
  OnlyTransientRetried
  RateLimitHonoured
  ScheduleGrows
  OneDeadLetter
