SPECIFICATION Spec
CONSTANTS
  Interval = 1
  Lifetime = 2
  MaxLag = 1
  NSlots = 2
  Files = {f, g}
  Handles = {p, q, r}
  Callers = {a}
INVARIANTS
  LevelOfItsFile
CHECK_DEADLOCK FALSE
