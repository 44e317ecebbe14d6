SPECIFICATION Spec
CONSTANTS
  Threads = {t1, t2}
  Loads = {o1, o2}
  Images <- MCImages
  Fds = {0, 1, 2, 3, 4, 5, 6}
  MaxAppFds = 1
  NoFd = NoFd
  NoLoad = NoLoad
SYMMETRY Symmetry
INVARIANTS
  NoStrayClose
  FailedLoadGivesBack
  KeptObjectComplete
  OwnImageLoaded
  HandlesStayValid
CHECK_DEADLOCK FALSE
