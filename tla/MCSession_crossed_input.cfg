\* A steer of a run that a crash leaves indeterminate turns up in the run that
\* the operator's resolution opens.
SPECIFICATION Spec
CONSTANTS
  Calls <- OneCall
  Inputs = {i1}
  Budget = 9
  DrainAll = FALSE
  DurableInterrupts = FALSE
  ResumesFail = FALSE
  Mismatch = FALSE
  MaxRuns = 2
  MaxTurns = 2
  MaxSuspensions = 1
  MaxOpens = 2
CHECK_DEADLOCK FALSE
INVARIANTS
  TargetedInputStaysInRun
