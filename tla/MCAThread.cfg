SPECIFICATION AThreadSpec
CONSTANTS
  Objects = {o1, o2, o3}
  Threads = {t1, t2}
  NoThread = NoThread
  Wild = Wild
SYMMETRY Symmetry
INVARIANTS
  AThreadTypeOK
  NoneLeftBehind
