CONSTANTS
  Responses = {r1, r2}
  Size = 3
  LeaseTicks = 1
  TtlTicks = 2
  MaxActive = 2
  MaxFragments = 2
  MaxTime = 3
  Grants = {g1, g2}
  Requests = {q1, q2}
  Bearer = Bearer
  Concurrency = 1
  MaxGrants = 1
  GrantTTL = 1
  JobTTL = 2
  FileSize = 2
  MaxClock = 2
  LastByte = 3
  Clients = {c1, c2}
  Downloads = {d1, d2}
  Orders = {o1}
  NoOne = NoOne
  Limit = 1
  Window = 2
  Retention = 3
  ClientTTL = 3
  ArtifactTTL = 2
  OrderTTL = 1
  Duration = 1
  MaxLag = 1
  LastTick = 3
SPECIFICATION MCSpec
SYMMETRY Interchangeable
CHECK_DEADLOCK FALSE
INVARIANTS
  LimitsAreKept
  LedgerIsHonest
  SlotFollowsTheLedger
  UnionIsCanonical
  ResponsesAreSound
  PremiumIsPaidFor
  SlotFollowsTheDownload
PROPERTIES
  DeliveryIsAllowed
  BooksAreKept
