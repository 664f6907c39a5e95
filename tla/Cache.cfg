SPECIFICATION Spec
CONSTANTS
  Interval = 1
  Lifetime = 2
  MaxLag = 1
  MaxHold = 1
  Keys = {k, l}
  Buffers = {p, q, r}
  Callers = {a, b}
SYMMETRY Symmetric
INVARIANTS
  BorrowedIsKept
  OneOwner
\* cache_exit has freed all.
CHECK_DEADLOCK FALSE
