SPECIFICATION Spec
CONSTANTS
  Slots <- MCSlots
  Effects = 2
  MaxPuts = 2
INVARIANTS
  PictureIsAsked
PROPERTIES
  ReadsThisFrame
