CONSTANTS
  Fiber = {f1, f2, f3}
  Fd = {}
  Null = null
  Os = "linux"
  Ms = {0}
  MaxClock = 0
  MaxEv = 1
  Future = {x1, x2}
  IoMs = {0}
  Nested = {"race"}
SPECIFICATION IoFairSpec
INVARIANTS NothingFreedInUse CancelledNeverParked
PROPERTIES AwaitSettled AwaitersReturn
