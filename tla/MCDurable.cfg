SPECIFICATION DurableSpec
CONSTANTS
  Writers = {driver, client}
  Subs = {s}
  Buffer = 2
  MaxBatch = 2
  MaxEntries = 3
  MaxPreviews = 2
  StartIds = {a, b}
  Capacity = 2
  MaxFacts = 5
  MaxOwners = 2
  MaxRecords = 7
  MaxTurns = 1
  MaxDeltas = 1
  Children = {c, d}
  Budget = 2
  MaxConcurrent = 2
  MaxEvents = 1
  Calls = {c, d}
  Operators = {o, p}
  MaxBatches = 2
  MaxAttempts = 2
  MaxRules = 2
  Processes = {q, r}
  BatchSize = 2
  MaxAppends = 4
  MaxFailures = 2
SYMMETRY Symmetry
CHECK_DEADLOCK FALSE
INVARIANTS
  HubServesSubscribers
  StreamIsFaithful
  HostIsFaithful
  CommittedIsKept
  ChildrenAreAccounted
  PastIsKept
  OperatorsDecide
PROPERTIES
  ImplementsFeed
