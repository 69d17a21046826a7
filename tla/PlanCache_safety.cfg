\* One process, two callers, three contents of the file, every caching option.
SPECIFICATION Spec
CONSTANTS
  t1 = t1
  t2 = t2
  c1 = c1
  c2 = c2
  e1 = e1
  e2 = e2
  NoThread = NoThread
  NoCN = NoCN
  NoEntry = NoEntry
  Threads = {t1, t2}
  CNs = {c1, c2}
  Entries = {e1, e2}
  PlanDocs <- MCPlanDocs
  Faults = {"gone", "bad"}
  Configs <- MCConfigs
  StampsReused = TRUE
  MaxVersions = 3
  MaxClock = 1
  MaxRestarts = 0
INVARIANTS
  TypeOK
  AnswerExact
  StaleOnlyByRace
  ErrorsAreCurrent
SYMMETRY Symmetry
