SPECIFICATION Spec
CONSTANTS
  CPUs = {c1}
  Locks = {l1}
  Tasks = {}
  Records = {r1}
  NoCPU = NoCPU
  NoObj = NoObj
  ENTRIES_SIZE = 1
  MaxGuards = 1
  DisplayRunsExtension = FALSE
INVARIANTS
  RecordsReleasedAtExit
