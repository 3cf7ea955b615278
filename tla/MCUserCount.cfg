CONSTANTS
  n1 = n1  n2 = n2
  s1 = s1  s2 = s2  s3 = s3
  NoCount = NoCount
  Nodes <- TwoNodes
  Sessions <- ThreeSessions
  NodeOf <- Apart
  MaxBusy = 1
  MaxPartings = 1
SPECIFICATION Spec
SYMMETRY Symmetry
CHECK_DEADLOCK FALSE
INVARIANTS
  NodesAgree
  ShowsTotal
