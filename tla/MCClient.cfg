CONSTANTS
  r1 = r1  r2 = r2
  me = me  other = other
  NoRoom = NoRoom
  Me = me
  Rooms <- TwoRooms
  Users <- TwoUsers
  MaxEvents = 5
SPECIFICATION Spec
CHECK_DEADLOCK FALSE
SYMMETRY Symmetric
INVARIANTS
  TypeOK
  NowhereElse
  HearsItsRoom
  ChatsFromMembers
  InputHasRoom
  ShowsMembers
