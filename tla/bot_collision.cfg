CONSTANTS
  k1 = k1
  s1 = s1
  c1 = c1
  c2 = c2
  j1 = j1
  j2 = j2
  j3 = j3
  hourly = hourly
  nightly = nightly
  Clusters = {k1}
  Streams = {s1}
  Consumers = {c1, c2}
  Metas <- OneMeta
  Initial <- OneConsumer
  StartTime = 1
  MaxTime = 1
  MaxPending = 0
  MaxChanges = 0
  Runs = {r1}
  Guards <- AllGuards
  Calls = {}
  NoInfo = NoInfo
  NoProtector = NoProtector
  DefaultMetadataKey = "managed"
  Falsey <- FalseyWords
  AnyName = AnyName
  GlobMatches = {}
  BadGlobs = {}
  Jobs = {j1, j2, j3}
  Name <- Names
  AutoDelete = {j3}
  Findings <- EitherOne
  BotGuard <- DefaultGuard
  Absent = Absent
  Truncated = Truncated
  NoManifest = NoManifest
  NoId = NoId
  NoOrigin = NoOrigin
SPECIFICATION BotSpec
INVARIANTS
  LinkApprovesItsManifest
