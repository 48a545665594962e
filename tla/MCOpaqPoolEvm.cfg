SPECIFICATION Spec
SYMMETRY TwinNotes
CONSTANTS
  A = A
  B = B
  a1 = a1
  a1x = a1x
  b1 = b1
  Commitments = {a1, a1x, b1}
  Tokens = {A, B}
  Callers = {operator, user}
  operator = operator
  Chains = {101, 1}
  chainid = 1
  NotPending = NotPending
  MaxAmount = 1
  ROOT_HISTORY = 2
  Capacity = 2
  MaxLog = 5
  TokenOf <- MCTokenOf
  AmountOf <- MCAmountOf
  NullifierOf <- MCNullifierOf
  Nullifiers <- MCNullifiers
INVARIANTS
  TypeOK
  PoolIsBacked
  MintsFollowAttestations
  BurnsFollowMints
PROPERTIES
  ImplementsRootLog
CHECK_DEADLOCK FALSE
