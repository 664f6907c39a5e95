SPECIFICATION FairSpec
CONSTANTS
  Callers = {a, b}
  Commands = {"DSLZ"}
  ForeignUnlock = {"ignored"}
  PipeCap = 2
  MaxCommands = 2
  MaxCrashes = 1
  MaxFailures = 0
  MaxRequests = 1
PROPERTIES
  CallsReturn
  ExitEnds
\* ipc_exit has freed the struct.
CHECK_DEADLOCK FALSE
