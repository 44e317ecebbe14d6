SPECIFICATION Spec
CONSTANTS
  threads = 2
  nums = 7
  pipeline = 1
  TcpPeriod = 3
  PoolSize = 1
  ConcurrencyLimit = 1
  k1 = k1
  k2 = k2
  Keys = {k1, k2}
  KeyOf <- MCKeyOf
  CountOf <- MCCountOf
INVARIANTS
  AccountedAtReport
  SetsBeforeGets
PROPERTIES
  BenchmarkEnds
CHECK_DEADLOCK FALSE
