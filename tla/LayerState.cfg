SPECIFICATION LayerSpec
CONSTANTS
  Psds <- Files
  LayerNames <- Used
INVARIANTS
  RadioShowsOne
  FlipShown
  SendsWhatIsShown
  ClickShows
  FlipKeeps
