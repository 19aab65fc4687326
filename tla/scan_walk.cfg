CONSTANTS
  k1 = k1
  k2 = k2
  s1 = s1
  s2 = s2
  c1 = c1
  c2 = c2
  c3 = c3
  Clusters = {k1, k2}
  Streams = {s1, s2}
  Consumers = {c1, c2, c3}
  Metas <- AllMetas
  Initial <- Walks
  StartTime = 3
  MaxTime = 4
  MaxPending = 1
  MaxChanges = 1
  NoProtector = NoProtector
  DefaultMetadataKey = "managed"
  Falsey <- FalseyWords
  AnyName = AnyName
  GlobMatches = {}
  BadGlobs = {}
  Home = k1
  NoPeer = NoPeer
  Requests <- WalkRequests
  Unset = Unset
  DayIdle = 2
  ChatMinPending = 1
  ContextPeer = NoPeer
  ScanGuard <- DefaultGuard
  FilterOf <- Filters
  NoFilter = NoFilter
  NoName = NoName
  x1 = x1
  x2 = x2
  x3 = x3
  Contexts = {x1, x2, x3}
  Reaches <- Routes
  Subject = "orders"
  Rank <- Letters
SPECIFICATION WalkSpec
INVARIANTS
  ScanTypeOK
  NothingOverlooked
  OnlyIdleProposed
  DefaultIdleHonoured
  ManagedKeptOut
  RenamesNameSuccessors
  PeerStatusHonest
  OwnerIsTheLatest
PROPERTIES
  ScanEnds
