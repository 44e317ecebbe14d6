SPECIFICATION Spec
CONSTANTS
  MaxView = 1
  MaxOp = 3
  Sizes = {11, 20, 40, 76}
  Capacity = 2
  MaxPassed = 1
  CLUSTER_SIZE = 5
  QUORUM_BITSET_ENTRY = 1
  Views = {0}
  Ops = {0, 1}
  Voters = {1, 34, 3}
INVARIANTS
  AnsweredKeptUnlessAborted
  BufferInOrder
  ViewsInOrder
  AtMostOneCopy
  EveryFollowerServed
  ReportedHasQuorum
  VotesOfOwner
  CountedIsReported
PROPERTY
  BroadcastEnds
