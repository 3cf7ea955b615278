CONSTANTS
  n1 = n1  n2 = n2
  s1 = s1  s2 = s2  s3 = s3
  r1 = r1  r2 = r2
  NoRoom = NoRoom
  Nodes <- TwoNodes
  Sessions <- TwoSessions
  Rooms <- TwoRooms
  NodeOf <- Apart
  OwnerOf <- Owners
  MaxEntries = 1
  MaxChats = 3
  MaxJoins = 2
  MaxPartings = 1
SPECIFICATION Spec
CHECK_DEADLOCK FALSE
INVARIANTS
  TypeOK
  ArchivedOnce
  SenderOrder
  ShowsLatest
