SPECIFICATION FairSpec
CONSTANTS
  Fiber = {f1, f2, f3}
  Fd = {a, b}
  Null = Null
  Os = "linux"
  Ms = {0, 1}
  MaxClock = 1
  MaxEv = 1
PROPERTIES
  CoopSpec
  ReadersWake
