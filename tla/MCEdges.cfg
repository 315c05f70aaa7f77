SPECIFICATION Spec
CONSTANTS
  NestedCalls = {x, y}
  MaxSteps = 2
  MaxStdout = 1
  MaxCallsPerStep = 2
  MaxAttempts = 2
  Executors = {"subprocess", "monty"}
  ToolCalls = {a, b}
  MaxTurns = 2
  MaxEntries = 1
  MaxRetries = 2
  Second = 2
  Bits = 6
SYMMETRY Symmetry
CHECK_DEADLOCK FALSE
INVARIANTS
  StreamsFold
  RequestsAreValid
  RetriesAreBounded
  VectorsAreWhole
  VoiceIsCoherent
  ScreenIsCoherent
  ProgramsAreAccountable
