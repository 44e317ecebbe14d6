SPECIFICATION Spec
CONSTANTS
  Base = 3
  EthLen = 1
  IpLen = 4
  UdpLen = 1
  TcpLen = 2
  CheckAt = 1
  AlignOf <- MCAlignOf
  Cap = 7
  Frames <- MCFrames
  Lengths = {4, 7}
  Pages = {0, 1}
  MaxMoves = 1
  MaxEdits = 3
INVARIANTS
  SliceInPacket
  ChecksumAccepted
PROPERTIES
  ImplementsPlainPacket
CHECK_DEADLOCK FALSE
