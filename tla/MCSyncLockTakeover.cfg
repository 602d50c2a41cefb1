SPECIFICATION Spec
CONSTANTS
  Procs = {p1, p2, p3}
  NoProc = NoProc
  Attempts = 3
SYMMETRY MCSymmetry
INVARIANT ExclusiveIfJudgedRightly
CHECK_DEADLOCK FALSE
