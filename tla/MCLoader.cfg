CONSTANTS
  a = a  b = b  c = c  d = d
  p = p  q = q  r = r
  Anonymous = Anonymous
  NoFactory = NoFactory
  Modules <- FourModules
  Calls <- ThreeCalls
  Programs <- FivePages
  MaxThrows = 1
SPECIFICATION FairSpec
CHECK_DEADLOCK FALSE
INVARIANTS
  TypeOK
  InOrder
  OwnFactory
  TimeoutsAreReal
  NothingForgotten
PROPERTY Settles
