CONSTANTS
  s1 = s1
  s2 = s2
  c1 = c1
  c2 = c2
  p1 = p1
  p2 = p2
  p3 = p3
  ops = "ops"
  log = "log"
  rides = "rides"
  late = "late"
  Streams = {s1, s2}
  Consumers = {c1, c2}
  Servers = {p1, p2, p3}
  NoServer = NoServer
  Itself = Itself
  AnyStream = AnyStream
  Groups <- SomeGroups
  Placed <- SomePlaces
  Limits <- SomeLimits
  Rank <- Names
  AtStart <- Removed
  MaxFaults = 3
  Configs <- SomeConfigs
  Findings <- SomeFindings
  Prefixed <- NamesBeginning
  ListLimit = 2
SPECIFICATION FairSpec
INVARIANTS
  NoticesTypeOK
  PeersJudged
  StreamsAccountedFor
  EveryoneTold
  OwnersOnlyWatch
PROPERTIES
  ReportEnds
