\* Two concurrent requests, the plan replaced or broken under them, crashes.
SPECIFICATION Spec
CONSTANTS
  r1 = r1
  r2 = r2
  c1 = c1
  c2 = c2
  e1 = e1
  e2 = e2
  e3 = e3
  g1 = g1
  g2 = g2
  k1 = k1
  k2 = k2
  k3 = k3
  k4 = k4
  k5 = k5
  Requests = {r1, r2}
  CNs = {c1, c2}
  Entries = {e1, e2, e3}
  PlanDocs <- MCPlanDocs
  Faults = {"bad", "undecodable"}
  MaxVersions = 3
  StampsReused = FALSE
  NotText = NotText
  NoCert = NoCert
  Groups = {g1, g2}
  GroupsOf <- MCGroupsOf
  Chunks = {k1, k2, k3, k4, k5}
  PayloadOf <- MCPayloadOf
  Calls <- MCCalls
  NoLimit = NoLimit
  DefaultLimit = 1
  MaxLimit = 2
  LogConfigs <- MCLogAll
  NoCall = NoCall
  NoCN = NoCN
  NoEntry = NoEntry
INVARIANTS
  TypeOK
  Confined
  RefusedForCause
  AuditTrail
SYMMETRY Symmetry
