\* Liveness with weakly fair threads and steady traffic.
SPECIFICATION LiveSpec
CONSTANTS
  t1 = t1
  t2 = t2
  c1 = c1
  c2 = c2
  e1 = e1
  e2 = e2
  NoThread = NoThread
  NoCN = NoCN
  NoEntry = NoEntry
  Threads = {t1, t2}
  CNs = {c1, c2}
  Entries = {e1, e2}
  PlanDocs <- MCOnePlan
  Faults = {"gone", "undecodable"}
  Configs <- MCLooking
  StampsReused = TRUE
  MaxVersions = 3
  MaxClock = 0
  MaxRestarts = 1
PROPERTIES
  LockReleased
  ConvergesUnlessMisled
