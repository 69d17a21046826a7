\* Every exit code of serve and health is one of the documented: refuted.
SPECIFICATION Spec
CONSTANTS
  a = a
  aBlank = aBlank
  b = b
  empty = empty
  malformed = malformed
  Texts <- MCTexts
  Strip <- MCStrip
  Empty = empty
  Malformed = malformed
  PlanTexts <- MCFewPlans
  RawConfigs <- MCRawConfigs
  NoConfig = NoConfig
  NoTls = NoTls
INVARIANT ExitCodesDocumented
CHECK_DEADLOCK FALSE
