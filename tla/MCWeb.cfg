CONSTANTS
  Media = {1, 2}
  None = None
  MaxGen = 4
  MaxFlows = 2
  MaxRequests = 2
  GrantLife = 4
  Buffer = 2
  MinDelay = 2
  Safety = 1
  MaxAttempts = 2
SPECIFICATION MCSpec
CHECK_DEADLOCK FALSE
INVARIANTS
  ScreenIsCoherent
  RecordFollowsTheFlow
  AlwaysAWayOn
PROPERTIES
  
  WorkEnds
