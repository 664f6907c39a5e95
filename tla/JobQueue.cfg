SPECIFICATION FairSpec
CONSTANTS
  Callers = {a, b}
  MaxJobs = 3
  MaxGenerations = 3
  MaxCalls = 2
INVARIANTS
  JobsInTurn
  AtMostOneLateCall
PROPERTIES
  CallsReturn
\* The queue is closed, a second Close has panicked, or the bounds are reached.
CHECK_DEADLOCK FALSE
