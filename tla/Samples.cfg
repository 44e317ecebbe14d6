SPECIFICATION Spec
CONSTANTS
  Tasks = {p1, p2}
  Ids = {1, 2}
  CountsSize = 1
  ErrorsSize = 1
  StartSize = 1
  LatencySize = 1
  MaxCalls = 3
  Pids = {10, 20}
  StackSize = 3
  MaxRuns = 3
  Producers = {c1, c2}
  Places = 2
  Lengths = {0, 3}
  MaxWrite = 2
  MaxWrites = 2
  MaxRecords = 3
  BufLen = 4
  MaxPiece = 2
  MaxPieces = 2
  MaxNesting = 2
  MaxMessages = 3
INVARIANTS
  CountsExplained
  StartIsOwn
  RunAloneExact
  DeliveredInOrder
  TextIntact
  PrintedAsWritten
PROPERTIES
  SubmittedDelivered
CHECK_DEADLOCK FALSE
