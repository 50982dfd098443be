CONSTANTS
  r1 = r1
  r2 = r2
  r3 = r3
  p1 = p1
  p2 = p2
  p3 = p3
  Request <- MCRequest
  Prompt <- MCPrompt
  Model <- MCModel
  Info <- MCInfo
  Likeness <- MCLikeness
  Percents <- MCPercents
  MaxQueueSize = 1
  RequestCountWindow = 2
  RequestCountThreshold = 2
  MaxTime = 2
  MaxCacheSize = 2
  CacheTTL = 1
SPECIFICATION Spec
INVARIANTS
  RouterIsSound
  OptimizerIsSound
PROPERTIES
  RouterLedgerSpec
CHECK_DEADLOCK FALSE
