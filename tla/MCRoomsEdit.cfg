CONSTANTS
  n1 = n1  n2 = n2
  s1 = s1  s2 = s2
  r1 = r1  r2 = r2
  old = old  new = new
  NoName = NoName
  NoNode = NoNode
  FirstName = old
  Names <- TwoNames
  Nodes <- TwoNodes
  Sessions <- TwoSessions
  Rooms <- OneRoom
  NodeOf <- Apart
  LoadedBy <- Loads
  MaxEdits = 1
  MaxPartings = 0
SPECIFICATION Spec
CHECK_DEADLOCK FALSE
INVARIANT NamesShown
