SPECIFICATION WorldSpec
CONSTANTS
  None = None
  Others = {a, b}
  Me = me
  Things = {t}
  MaxMoves = 1
  Choices <- MCChoices
  MaxQueue = 2
SYMMETRY Symmetry
INVARIANTS
  WorldTypeOK
  Mirrors
  PositionsCurrent
  LocalCurrent
  CrashExplained
