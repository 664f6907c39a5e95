SPECIFICATION FairSpec
CONSTANTS
  Commands = {"SGUI", "DRAW", "PROP+tag"}
  MaxCommands = 3
  MaxRequests = 2
  MaxTicks = 1
INVARIANTS
  OneReplyPerCommand
  AnswersReachTheAsker
PROPERTIES
  EveryoneIsAnswered
  EndsAfterClose
\* The process ends, or Main and the GUI thread wait for each other.
CHECK_DEADLOCK FALSE
