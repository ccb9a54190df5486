CONSTANTS
  j1 = j1
  w1 = w1
  w2 = w2
  Jobs = {j1}
  Workers = {w1, w2}
  NoWorker = NoWorker
  MaxAttempts = 2
  LeaseTicks = 1
  TtlTicks = 2
  Backoff = 0
  MaxPercent = 1
  Compatibility = FALSE
  MaxTime = 2
  MaxFaults = 1
SPECIFICATION Spec
SYMMETRY MCSymmetry
INVARIANTS
  WellFormed
  SlotFollowsJob
  ArtifactFromLastClaim
PROPERTIES
  CancelSticks
  ShownMovesForward
  DeliveryKeepsArtifact
  ImplementsLifecycle
