CONSTANTS
  n1 = n1  n2 = n2  n3 = n3
  s1 = s1  s2 = s2  s3 = s3
  u1 = u1  u2 = u2
  r1 = r1
  NoRoom = NoRoom
  UserIds <- TwoUsers
  UserOf <- UserOfSession
  OwnerOf <- Owners
  Rooms <- OneRoom
  Nodes <- OneNode
  NodeOf <- AllOnOneNode
  Sessions <- ThreeSessions
  Level <- SomeGold
  MaxRequests = 4
  MaxPartings = 0
SPECIFICATION Spec
CHECK_DEADLOCK FALSE
INVARIANTS
  JoinedIsMember
  RosterMissesNobody
