SPECIFICATION Spec
CONSTANTS
  Callers = {main}
  Commands <- MCCommands
  ForeignUnlock = {"ignored", "released"}
  PipeCap = 2
  MaxCommands = 3
  MaxCrashes = 1
  MaxFailures = 1
  MaxRequests = 1
INVARIANTS
  TypeOK
  OneReader
  FramingKept
  RepliesMatch
PROPERTIES
  IsRemoteCall
\* Nothing happens any more once ipc_exit has freed the struct.
CHECK_DEADLOCK FALSE
