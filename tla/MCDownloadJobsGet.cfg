CONSTANTS
  j1 = j1
  w1 = w1
  Jobs = {j1}
  Workers = {w1}
  NoWorker = NoWorker
  MaxAttempts = 2
  LeaseTicks = 1
  TtlTicks = 2
  Backoff = 1
  MaxPercent = 1
  Compatibility = FALSE
  MaxTime = 3
  MaxFaults = 1
SPECIFICATION Spec
INVARIANT GetAlwaysAnswers
