SPECIFICATION ReplicaSpec
CONSTANTS
  MaxView = 1
  MaxOp = 2
  Sizes = {76}
  Capacity = 1
  MaxPassed = 1
INVARIANT
  ReplyNamesLastOp
