CONSTANTS
  Media = {1}
  None = None
  MaxGen = 1
  MaxFlows = 1
  MaxRequests = 2
  GrantLife = 4
  Buffer = 2
  MinDelay = 2
  Safety = 1
  MaxAttempts = 2
SPECIFICATION MCSpec
CHECK_DEADLOCK FALSE
INVARIANTS
  OfferedLinkIsLive
