SPECIFICATION Spec

CONSTANTS
  Sessions = {s1, s2}
  OwnerlessGrace = 1
  UnverifiedGrace = 2

SYMMETRY Symmetric

INVARIANTS
  SweepTypeOK
  RunningSpared

PROPERTIES
  NextSweepClears
