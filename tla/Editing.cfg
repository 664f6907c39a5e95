SPECIFICATION Spec
CONSTANTS
  Imgs = {x,y,z}
  Tags = {t}
  Limit = 2
  MaxSends = 2
  MaxPending = 2
SYMMETRY Symmetric
INVARIANTS
  TypeOK
  EditedIsSelected
  TagsUnique
  ThumbnailsAreOwn
  SelectedHasThumbnail
  LatestIsLast
\* The user stops.
CHECK_DEADLOCK FALSE
