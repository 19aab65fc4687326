CONSTANTS
  Configs <- SomeConfigs
  Events <- SomeEvents
  Replies <- Echo
  MaxPosts = 2
SPECIFICATION FairSpec
INVARIANTS
  ListenerTypeOK
  OneSocket
  CommandsOnceInOrder
  NothingOverheard
PROPERTIES
  StopsWhenTold
  AlwaysReconnects
  HeardIsAnswered
