CONSTANTS
  Origin = {a, b}
  MaxRedirects = 1
  MaxRequests = 3
  MaxUnread = 4
SPECIFICATION Spec
INVARIANT NeverRepeated
CHECK_DEADLOCK FALSE
