CONSTANTS
  n1 = n1  n2 = n2
  s1 = s1  s2 = s2
  u1 = u1  u2 = u2
  Nodes <- SomeNodes
  UserIds <- SomeUsers
  Sessions <- SomeSessions
  NoUser = NoUser
  NoSession = NoSession
  NoNode = NoNode
  MaxPartings = 1
SPECIFICATION FairSpec
CHECK_DEADLOCK FALSE
INVARIANTS
  TypeOK
  NoOrphanInfo
  NothingLeftBehind
  ReplicasConverge
  Registered
PROPERTY KnownEverywhere
