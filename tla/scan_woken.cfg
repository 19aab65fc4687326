CONSTANTS
  k1 = k1
  s1 = s1
  c1 = c1
  c2 = c2
  Clusters = {k1}
  Streams = {s1}
  Consumers = {c1}
  Metas <- AllMetas
  Initial <- Candidates
  StartTime = 3
  MaxTime = 5
  MaxPending = 1
  MaxChanges = 2
  Runs = {r1}
  Guards <- AllGuards
  Calls = {}
  NoInfo = NoInfo
  NoProtector = NoProtector
  DefaultMetadataKey = "managed"
  Falsey <- FalseyWords
  AnyName = AnyName
  GlobMatches = {}
  BadGlobs = {}
  Home = k1
  NoPeer = NoPeer
  ScanGuard <- DefaultGuard
  FilterOf <- NoFilters
  NoFilter = NoFilter
  Requests <- DeletingScans
  Unset = Unset
  DayIdle = 2
  ChatMinPending = 1
  ContextPeer = NoPeer
  NoName = NoName
SPECIFICATION PipelineSpec
PROPERTIES
  WokenUpPreserved
