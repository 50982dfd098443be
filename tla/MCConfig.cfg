CONSTANTS
  s1 = s1
  s2 = s2
  t1 = t1
  h1 = h1
  h2 = h2
  Saver <- MCSaver
  Tool <- MCTool
  Handle <- MCHandle
  MaxStamp = 6
  MaxErrors = 1
  MaxAudit = 2
  MaxCrashes = 1
  Beside = {"monitor", "user"}
SPECIFICATION Spec
SYMMETRY Symmetry
INVARIANTS
  RegistryAgrees
  
CHECK_DEADLOCK FALSE
