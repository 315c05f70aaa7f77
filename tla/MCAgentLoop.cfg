SPECIFICATION FairSpec
CONSTANTS
  Tools <- MCTools
  Suspendable <- MCSuspendable
  AnswerCalls <- MCAnswerCalls
  Histories <- MCHistories
  MaxIterations = 2
  MaxRequests = 2
  MaxToolCalls = 2
  MaxValidationRetries = 1
  MaxRetries = 1
  EarlyEnd = FALSE
  MaxResumes = 1
CHECK_DEADLOCK FALSE
INVARIANTS TranscriptIsWhole OutcomeIsTold
PROPERTIES AnswerIsFinal CancelledReturns
