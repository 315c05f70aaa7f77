\* Queued inputs against boundaries, interrupts, failed appends and reopenings;
\* no tools.
SPECIFICATION Spec
CONSTANTS
  Calls <- NoCalls
  Inputs = {i1, i2}
  Budget = 9
  DrainAll = FALSE
  DurableInterrupts = FALSE
  ResumesFail = FALSE
  Mismatch = FALSE
  MaxRuns = 2
  MaxTurns = 2
  MaxSuspensions = 1
  MaxOpens = 2
SYMMETRY Symmetry
CHECK_DEADLOCK FALSE
INVARIANTS
  LiveMatchesJournal
  InputsConserved
  InputsArrive
  TargetedInputStaysInRun
