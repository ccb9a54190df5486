SPECIFICATION MCSpec
CONSTANTS
    Procs = {p1, p2}
    r1 = r1
    r2 = r2
    r3 = r3
    h1 = h1
    h2 = h2
    Releases = {r1, r2, r3}
    Deployed = {None, r1}
    SourceHeads <- MCSourceHeads
    Transitions <- MCTransitions
    Settings = {s1, s2}
    StorageInit = {r1}
    NoSchema = NoSchema
    Partial = Partial
    Mixed = Mixed
    None = None
    MaxOps = 3
    MaxFaults = 2
    KeepBackups = 1
    Schemas = {h1, h2}
    Unread = Unread
    Slots = 2
    Keep = 1
    MaxSessions = 3
    MaxTroubles = 1
INVARIANTS
  JournalsAreSound
  SavedStateIsTruthful
  WayBackIsKept
  AnswersAreHonest
PROPERTIES
  NothingIsUndone
  EverythingReturns
