CONSTANTS
  Slot = {s1}
  RequestMs = 3
  KeepaliveMs = 1
  HandlerMs = 0
  LingerMs = 2
  WaitMs = 2
  Batch = 1
  MaxNow = 4
  MaxGen = 2
SPECIFICATION FairSpec

PROPERTIES ImplementsDeadlines LateIsEvicted
