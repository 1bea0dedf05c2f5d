CONSTANTS
  Origin = {a, b}
  MaxRedirects = 1
  MaxRequests = 3
  MaxUnread = 4
SPECIFICATION FairSpec
INVARIANTS TypeOK PoolHoldsOpen RestingOwesNothing RepeatedOnlyIfLost
PROPERTY FetchEnds
CHECK_DEADLOCK FALSE
