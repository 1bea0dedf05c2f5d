CONSTANTS
  Total = 5
  Cap = 3
  Piece = 2
SPECIFICATION FairSpec
INVARIANTS TypeOK RefsCounted CutShortShows
PROPERTIES WorkerReturns
