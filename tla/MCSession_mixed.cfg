\* An input and two tool calls together over suspensions, rejected and failing
\* resumes, durable interrupts and crashes, the whole queue drained at a boundary.
SPECIFICATION Spec
CONSTANTS
  Calls <- TwoCalls
  Inputs = {i1}
  Budget = 2
  DrainAll = TRUE
  DurableInterrupts = TRUE
  ResumesFail = TRUE
  Mismatch = TRUE
  MaxRuns = 2
  MaxTurns = 2
  MaxSuspensions = 2
  MaxOpens = 2
CHECK_DEADLOCK FALSE
INVARIANTS
  TypeOK
  AcceptedInterruptWins
  RunsSettleOnce
  StartedNeverAbandoned
PROPERTIES
  FaultedWritesNothing
  ImplementsLedger
