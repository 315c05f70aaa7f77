SPECIFICATION FairSpec
CONSTANTS
  c1 = c1
  c2 = c2
  Callers = {c1, c2}
  Commands <- MCCommands
  MaxEntries = 3
  MaxReopens = 1
CHECK_DEADLOCK FALSE
INVARIANTS AcceptedForItsRun ReceiptsAreKept RootIsQuiet
PROPERTIES CallersReturn
