CONSTANTS
  Jobs = {j1}
  Workers = {w1, w2}
  NoWorker = NoWorker
  MaxAttempts = 2
  LeaseTicks = 1
  TtlTicks = 3
  RetryBase = 1
  RetryMax = 1
  Concurrency = 2
  MaxLag = 1
  MaxTime = 3
  MaxFaults = 1
  Requests = {r1, r2}
  Tokens = {t1, t2}
  Links = {u1, u2}
  NoJob = NoJob
  Urls <- MCUrls
  ProviderOf <- MCProviderOf
  ResolverOf <- MCResolverOf
  ApexOf <- MCApexOf
  NoOwner = "none"
  Extractable = {"video"}
  Barred = {"local"}
  PublicAddrs = {"p1", "p2"}
  OtherAddrs = {"b1"}
  MaxRedirects = 2
  MaxDepth = 2
  MaxOutput = 1
  TopOutput = 2
  ExpectedSize = 2
  Scale = 3
  WriteInterval = 2
  BackoffMin = 1
  BackoffMax = 2
  MaxErrors = 1
SPECIFICATION MCSpec
CHECK_DEADLOCK FALSE
INVARIANTS
  WellFormed
  ResultFromLastClaim
  OneJobPerToken
  LookupsAreConfined
  ToolGetsTheResolvedUrl
  RunIsAccountedFor
PROPERTIES
  LiveClaimIsExclusive
  OutcomeIsFinal
  ImplementsLifecycle
  EverythingEnds
