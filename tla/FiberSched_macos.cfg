CONSTANTS
  Fiber = {f1, f2, f3}
  Fd = {a, b}
  Null = Null
  Os = "macos"
  Ms = {0, 1, 2}
  MaxClock = 2
  MaxEv = 2
SYMMETRY FiberSymmetry
INVARIANTS
  TypeOK
  WakeSourcesParked
PROPERTIES
  RunVerdict
SPECIFICATION Spec
