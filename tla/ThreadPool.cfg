CONSTANTS
  Workers = 3
  Cap = 2
  Task = {a, b}
  Owner = owner
  Null = null
SPECIFICATION FairSpec
INVARIANTS TypeOK NoLostWakeup
PROPERTIES PromiseKept DeinitReturns
