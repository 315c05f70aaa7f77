\* The lost input turns up in a later run.
SPECIFICATION Spec
CONSTANTS
  Calls <- NoCalls
  Inputs = {i1}
  Budget = 9
  DrainAll = FALSE
  DurableInterrupts = TRUE
  ResumesFail = FALSE
  Mismatch = FALSE
  MaxRuns = 2
  MaxTurns = 2
  MaxSuspensions = 1
  MaxOpens = 3
CHECK_DEADLOCK FALSE
INVARIANTS
  TargetedInputStaysInRun
