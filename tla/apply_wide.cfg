CONSTANTS
  k1 = k1
  k2 = k2
  s1 = s1
  s2 = s2
  c1 = c1
  c2 = c2
  Clusters = {k1, k2}
  Streams = {s1}
  Consumers = {c1, c2}
  Runs = {r1}
  Metas <- WideMetas
  Initial <- WideInitial
  StartTime = 1
  MaxTime = 1
  MaxPending = 0
  MaxChanges = 0
  Guards <- Protectors
  Calls <- WideCalls
  NoInfo = NoInfo
  NoProtector = NoProtector
  DefaultMetadataKey = "managed"
  Falsey <- FalseyWords
  AnyName = AnyName
  GlobMatches <- WideMatches
  BadGlobs <- BrokenGlobs
SPECIFICATION FairSpec
INVARIANTS
  TypeOK
  EventsFollowManifest
  TallyComplete
PROPERTIES
  DeletionJustified
  EveryApplyReturns
