SPECIFICATION FairSpec
CONSTANTS
  Total = 3
  Cap = 1
  ReadCap = 2
  WireCap = 2
  Frame = Frame
  Junk = Junk
  End = End
  Pipelined = Pipelined
INVARIANTS
  TypeOK
  ParkedIsResumed
  RefsCounted
  BytesInOrder
  KeptIsClean
PROPERTIES
  JoinEnds
  ReadReturns
