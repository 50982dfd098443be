CONSTANTS
  Caller = {c1, c2, c3}
  Loop = {l1, l2, l3}
SPECIFICATION FairSpec
INVARIANTS
  LoopsAreHeld
PROPERTIES
  StopWaitsForLoops
  StopReturns
CHECK_DEADLOCK FALSE
