CONSTANTS
  s1 = s1
  s2 = s2
  t1 = t1
  h1 = h1
  h2 = h2
  Saver <- MCSaver
  Tool <- MCTool
  Handle <- MCOneHandle
  MaxStamp = 4
  MaxErrors = 1
  MaxAudit = 1
  MaxCrashes = 1
  Beside = {"reload"}
SPECIFICATION Spec
PROPERTIES
  NoChangeMissed
  ChangeArrives
CHECK_DEADLOCK FALSE
