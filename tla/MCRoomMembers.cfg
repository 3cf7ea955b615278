CONSTANTS
  n1 = n1  n2 = n2  n3 = n3
  s1 = s1  s2 = s2  s3 = s3
  u1 = u1  u2 = u2
  r1 = r1
  NoRoom = NoRoom
  UserIds <- TwoUsers
  UserOf <- UserOfSession
  OwnerOf <- Owners
  Rooms <- OneRoom
  Nodes <- ThreeNodes
  NodeOf <- AwayFromOwner
  Sessions <- OneSession
  Level <- AllBronze
  MaxRequests = 1
  MaxPartings = 1
SPECIFICATION FairSpec
CHECK_DEADLOCK FALSE
INVARIANTS
  TypeOK
  GhostsJoinedLate
  NodesAgree
PROPERTY GoneEverywhere
