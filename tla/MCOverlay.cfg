SPECIFICATION FairOverlaySpec
CONSTANTS
  Shapes <- MCShapes
  Caption = 1
  Screen = 4
  MaxChanges = 2
  MaxPresses = 2
INVARIANTS
  OverlayTypeOK
  GuiSolid
  TogglesOnce
  BufferFits
PROPERTIES
  WindowFollows
  HidesOverOthers
