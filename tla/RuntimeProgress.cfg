SPECIFICATION FairSpec
CONSTANTS
  CPUs = {c1, c2}
  Locks = {l1}
  Tasks = {}
  Records = {}
  NoCPU = NoCPU
  NoObj = NoObj
  ENTRIES_SIZE = 2
  MaxGuards = 1
  DisplayRunsExtension = FALSE
INVARIANTS
  ReleasesOnlyHeld
PROPERTIES
  ImplementsContract
  OverdueProgramsEnd
