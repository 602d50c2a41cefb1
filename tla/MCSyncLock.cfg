SPECIFICATION Spec
CONSTANTS
  Procs = {p1, p2, p3}
  NoProc = NoProc
  Attempts = 2
SYMMETRY MCSymmetry
INVARIANTS
  LockTypeOK
  ExclusiveUnlessMistaken
  RefusedOnlyByRival
  NothingLeftBehind
CHECK_DEADLOCK FALSE
