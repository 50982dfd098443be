CONSTANTS
  Hook = {h1, h2}
  TaskType = {}
  Prompts <- MCPrompts
  Outside <- MCOutside
  Free = Free
  Other = Other
SPECIFICATION FairSpec
INVARIANTS
  SessionKept
PROPERTIES
  ModelMovesRight
  SuccessBringsDown
