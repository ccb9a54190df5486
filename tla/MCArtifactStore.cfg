CONSTANTS
  j1 = j1
  w1 = w1
  w2 = w2
  Jobs = {j1}
  Workers = {w1, w2}
  Grace = 2
  MaxPass = 1
  MaxCopy = 1
  SweepLimit = 1
  MaxClaims = 2
  MaxTime = 3
  MaxFaults = 1
SPECIFICATION Spec
SYMMETRY MCSymmetry
INVARIANTS
  ReferencedIsOnDisk
  LiveAttemptKeepsFiles
