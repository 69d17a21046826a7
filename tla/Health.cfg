\* A probe and a query, stop and restart.
SPECIFICATION HealthLive
CONSTANTS
  t1 = t1
  p1 = p1
  c1 = c1
  c2 = c2
  e1 = e1
  e2 = e2
  NoThread = NoThread
  NoCN = NoCN
  NoEntry = NoEntry
  Threads = {t1}
  Probes = {p1}
  CNs = {c1, c2}
  Entries = {e1, e2}
  RoleOf <- MCRoleOf
  PlanDocs <- MCPlanDocs
  Faults = {"bad"}
  Configs <- MCConfigs
  StampsReused = FALSE
  MaxVersions = 2
  MaxClock = 0
  MaxRestarts = 1
INVARIANTS
  HealthTypeOK
  ReportExact
  NoUseAfterClose
  ClosesItsOwn
PROPERTIES
  ProbeAnswered
  StopCompletes
CHECK_DEADLOCK FALSE
