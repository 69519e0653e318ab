SPECIFICATION FairSpec
CONSTANTS
  Tenants = {t1, t2}
  NangoIds = {n1}
  ConnectionIds = {c1, c2}
  Handlers = {h1, h2}
  MaxChanges = 1
  MaxNotices = 1
  MaxFailures = 1
INVARIANTS
  TypeOK
  OwnRecordsOnly
PROPERTIES
  EveryTenantFed
