\* The first unknown lookup triggers a reload, as the test says: refuted.
SPECIFICATION Spec
CONSTANTS
  t1 = t1
  t2 = t2
  c1 = c1
  c2 = c2
  e1 = e1
  e2 = e2
  NoThread = NoThread
  NoCN = NoCN
  NoEntry = NoEntry
  Threads = {t1, t2}
  CNs = {c1, c2}
  Entries = {e1, e2}
  PlanDocs <- MCPlanDocs
  Faults = {}
  Configs <- MCDefault
  StampsReused = TRUE
  MaxVersions = 2
  MaxClock = 1
  MaxRestarts = 0
INVARIANTS
  FirstMissReloads
