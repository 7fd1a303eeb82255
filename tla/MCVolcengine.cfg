SPECIFICATION FairSpec
CONSTANTS
  MaxPackets = 3
  MaxFrames = 2
  Capacity = 1
INVARIANTS
  TypeOK
  StreamsWellFormed
  PacketsAccountedFor
  IssuedInOrder
  CallPanicsOnlyInARace
PROPERTY
  PumpsEnd
CHECK_DEADLOCK FALSE
