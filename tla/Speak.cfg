SPECIFICATION FairSpec
CONSTANTS
  Interval = 1
  Lifetime = 2
  MaxLag = 2
  NSlots = 2
  Files = {f, g, h}
  Handles = {p, q, r}
  Callers = {a}
INVARIANTS
  HandlesAreOwned
  IdleIsClosed
  KnownFileIsRead
PROPERTIES
  ExitEnds
\* speak_exit has freed all.
CHECK_DEADLOCK FALSE
