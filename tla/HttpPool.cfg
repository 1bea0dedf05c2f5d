CONSTANTS
  MaxConn = 2
  Backlog = 1
  Worker = {w1}
  None = None
  MaxAccepts = 2
SPECIFICATION FairSpec
INVARIANTS TypeOK OneAnswerOwed FreeListSound
PROPERTIES AnswersCome StopReturns
