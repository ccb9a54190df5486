CONSTANTS
  r1 = r1
  r2 = r2
  r3 = r3
  Responses = {r1, r2, r3}
  Size = 3
  LeaseTicks = 1
  TtlTicks = 2
  MaxActive = 2
  MaxFragments = 1
  MaxTime = 3
SPECIFICATION Spec
SYMMETRY MCSymmetry
INVARIANT FinalizeStaysWithinBound
CHECK_DEADLOCK FALSE
