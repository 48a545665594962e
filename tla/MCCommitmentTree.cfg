SPECIFICATION Spec
CONSTANTS
  TREE_DEPTH = 3
  ROOT_HISTORY = 3
  Leaves = {l1, l2, l3}
  ZERO_LEAF = zero
INVARIANTS
  FrontierComputesMerkleRoot
  PathsReachKnownRoots
  MembershipIsSound
PROPERTY ImplementsRootLog
\* the tree really stops when it is full
CHECK_DEADLOCK FALSE
