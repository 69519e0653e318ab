SPECIFICATION Spec
CONSTANTS
  Slots = {s1}
  NoSlot = NoSlot
  Payloads <- TwoTenants
  Attempts = 1
  MaxStalls = 0
  MaxJobs = 2
  Budget <- NoFailures
  First = "acme"
  Connections <- MCConnections
  Retries = 1
  UserBudget <- Browsing
  NoData = NoData
CHECK_DEADLOCK FALSE
INVARIANTS
  ShownIsOwn
  ReplayedShows
  StoredInTimeShows
