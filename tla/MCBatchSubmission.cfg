CONSTANTS
  r1 = r1
  r2 = r2
  r3 = r3
  r4 = r4
  s1 = s1
  s2 = s2
  s3 = s3
  Request <- MCRequest
  PriorityOf <- MCPriorityOf
  Sizes <- MCSizes
  Submission <- MCSubmission
  BodyOf <- MCBodyOf
  RetryMax = 1
SPECIFICATION Spec
INVARIANTS
  QueuedOnce
  FifoOrder
  AnswerIsTracked
  DuplicatesAreFaults
PROPERTIES
  LedgerSpec
  AttemptsRunOut
  SubmissionAnswered
CHECK_DEADLOCK FALSE
