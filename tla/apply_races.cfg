CONSTANTS
  k1 = k1
  k2 = k2
  s1 = s1
  s2 = s2
  c1 = c1
  c2 = c2
  Clusters = {k1}
  Streams = {s1}
  Consumers = {c1}
  Runs = {r1, r2}
  Metas <- RaceMetas
  Initial <- RaceInitial
  StartTime = 1
  MaxTime = 2
  MaxPending = 0
  MaxChanges = 2
  Guards <- Protectors
  Calls <- RaceCalls
  NoInfo = NoInfo
  NoProtector = NoProtector
  DefaultMetadataKey = "managed"
  Falsey <- FalseyWords
  AnyName = AnyName
  GlobMatches = {}
  BadGlobs <- BrokenGlobs
SPECIFICATION Spec
INVARIANTS
  ReportsMatchDeletions
  NoDeletionClaimedTwice
PROPERTIES
  DeletionJustified
  ImplementsSafeDelete
