SPECIFICATION ViewFairSpec
CONSTANTS
  Images = {x, y}
  MaxRequests = 2
  MaxZooms = 2
INVARIANTS
  NewestSurvives
PROPERTIES
  CatchesUp
\* The user stops.
CHECK_DEADLOCK FALSE
