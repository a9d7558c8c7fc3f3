CONSTANTS
  MaxCalls = 2
CHECK_DEADLOCK FALSE
SPECIFICATION FairSpec
INVARIANTS
  TypeOK
  OwnAnswerUnlessAbandoned
  DeadlineHasReason
PROPERTY CancelledCallReturns
