CONSTANTS
  Pixels = {1, 2, 3}
  Pages = {"menu", "live", "alert"}
  Data = {0, 1}
  Frames <- MCFrames
  FullEvery = 2
  MaxInputs = 5
CHECK_DEADLOCK FALSE
SPECIFICATION PanelSpec
PROPERTIES
  NoPixelReversed
  SleepsUndisturbed
  PanelCatchesUp
