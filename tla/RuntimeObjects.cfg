SPECIFICATION Spec
CONSTANTS
  CPUs = {c1}
  Locks = {l1, l2}
  Tasks = {t1, t2}
  Records = {r1}
  NoCPU = NoCPU
  NoObj = NoObj
  ENTRIES_SIZE = 2
  MaxGuards = 2
  DisplayRunsExtension = TRUE
SYMMETRY Symmetry
INVARIANTS
  TypeOK
  IInv
  WatchdogDefers
  LiveHandlesBacked
  LocksReleasedAtExit
  TasksReleasedUnlessExceeded
PROPERTIES
  CleanupNotRestarted
CHECK_DEADLOCK FALSE
