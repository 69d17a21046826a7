\* PlanCache implements PlanService; long clock, short file history.
SPECIFICATION Spec
CONSTANTS
  t1 = t1
  t2 = t2
  c1 = c1
  c2 = c2
  e1 = e1
  e2 = e2
  NoThread = NoThread
  NoCN = NoCN
  NoEntry = NoEntry
  Threads = {t1, t2}
  CNs = {c1, c2}
  Entries = {e1, e2}
  PlanDocs <- MCPlanDocs
  Faults = {"not_file", "undecodable", "unreadable"}
  Configs <- MCIntervals
  StampsReused = TRUE
  MaxVersions = 2
  MaxClock = 3
  MaxRestarts = 1
INVARIANTS
  MonotonicReads
  FloodBounded
PROPERTIES
  ImplementsPlanService
