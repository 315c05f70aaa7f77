\* Runs and interrupts settle and the session reopens, over a crash or a fault.
SPECIFICATION FairSpec
CONSTANTS
  Calls <- OneCall
  Inputs = {}
  Budget = 9
  DrainAll = FALSE
  DurableInterrupts = TRUE
  ResumesFail = FALSE
  Mismatch = TRUE
  MaxRuns = 2
  MaxTurns = 2
  MaxSuspensions = 1
  MaxOpens = 2
CHECK_DEADLOCK FALSE
PROPERTIES
  RunsEnd
  Reopens
INVARIANTS
  SettledIsWhole
