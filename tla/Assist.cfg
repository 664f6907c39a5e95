SPECIFICATION Spec
CONSTANTS
  Files = {f, g}
  MaxSends = 2
  MaxCrashes = 1
  MaxFailures = 1
INVARIANTS
  PathIsCurrent
PROPERTIES
  SavedIsMade
  AskedInOrder
