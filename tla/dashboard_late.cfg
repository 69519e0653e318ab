SPECIFICATION FairSpec
CONSTANTS
  Slots = {s1}
  NoSlot = NoSlot
  Payloads <- TwoTenants
  Attempts = 1
  MaxStalls = 0
  MaxJobs = 3
  Budget <- NoFailures
  First = "acme"
  Connections <- MCConnections
  Retries = 1
  UserBudget <- Watching
  NoData = NoData
CHECK_DEADLOCK FALSE
PROPERTIES
  ReflowedShows
