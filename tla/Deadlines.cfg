CONSTANTS
  Slot = {s1, s2}
  RequestMs = 2
  KeepaliveMs = 1
  HandlerMs = 1
  LingerMs = 1
  WaitMs = 2
  Batch = 2
  MaxNow = 3
  MaxGen = 1
SYMMETRY SlotSymmetry
SPECIFICATION Spec
INVARIANTS TypeOK EveryDeadlineHinted NeverOversleeps
PROPERTY SweepsAreExact
