CONSTANTS
  Jobs = {j1}
  Workers = {w1}
  NoWorker = NoWorker
  MaxAttempts = 2
  LeaseTicks = 1
  TtlTicks = 2
  Backoff = 1
  MaxPercent = 1
  Compatibility = TRUE
  MaxTime = 3
  MaxFaults = 1
  Grace = 2
  MaxPass = 1
  MaxCopy = 1
  SweepLimit = 1
  MaxClaims = 2
  StoreTime = 5
  Responses = {r1, r2}
  Size = 2
  MaxActive = 2
  MaxFragments = 2
  LedgerTime = 4
SPECIFICATION MCSpec
CHECK_DEADLOCK FALSE
PROPERTIES
  EverythingSettles
