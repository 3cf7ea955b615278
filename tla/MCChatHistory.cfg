CONSTANTS
  a1 = a1  a2 = a2  a3 = a3  a4 = a4  a5 = a5
  q1 = q1  q2 = q2
  r1 = r1  r2 = r2
  NoHistory = NoHistory
  NoAnswer = NoAnswer
  Rooms <- TwoRooms
  Archives <- FiveArchives
  Requests <- TwoRequests
  RoomOf <- RoomOfCall
  MaxEntries = 2
SPECIFICATION Spec
CHECK_DEADLOCK FALSE
INVARIANTS
  TypeOK
  KeepsLatest
PROPERTY IsChatLog
