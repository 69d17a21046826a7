\* Both commands, over files that change between any two looks at them.
SPECIFICATION Spec
CONSTANTS
  a = a
  aBlank = aBlank
  b = b
  empty = empty
  malformed = malformed
  Texts <- MCTexts
  Strip <- MCStrip
  Empty = empty
  Malformed = malformed
  PlanTexts <- MCPlanTexts
  RawConfigs <- MCRawConfigs
  NoConfig = NoConfig
  NoTls = NoTls
INVARIANTS
  TypeOK
  ServesAsConfigured
  ExitMeans
  ParseExact
PROPERTIES
  CommandEnds
CHECK_DEADLOCK FALSE
