CONSTANTS
  Clients = {c1, c2}
  Downloads = {d1, d2}
  Orders = {o1}
  NoOne = NoOne
  Limit = 1
  Window = 1
  Retention = 2
  ClientTTL = 2
  ArtifactTTL = 2
  OrderTTL = 1
  Duration = 1
  MaxLag = 1
  LastTick = 3
SPECIFICATION CommerceSpec
CHECK_DEADLOCK FALSE
INVARIANT SuccessesWithinLimit
