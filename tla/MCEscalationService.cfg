CONSTANTS
  w1 = w1
  w2 = w2
  Writer <- MCWriter
  Model <- MCModel
  LengthOf <- MCLengthOf
  FirstModel = "claude-sonnet-4-6"
  MaxEdits = 1
  Prompt <- MCPrompt
  Target <- MCTarget
  BudgetRefuses = TRUE
  MaxRequests = 2
SPECIFICATION Spec
INVARIANTS
  WholeUnlessOverlapped
PROPERTIES
  HandlerSteps
  Answered
CHECK_DEADLOCK FALSE
