SPECIFICATION Spec
CONSTANTS
  n1 = n1
  d1 = d1
  d2 = d2
  c1 = c1
  c2 = c2
  NotPending = NotPending
  ArgOf <- MCArgOf
  Nullifiers = {n1}
  Dests = {d1, d2}
  Calls = {c1, c2}
  Operators = {c1}
  Finalized = {TRUE, FALSE}
  Burned = {n1}
  Claimed = {n1}
  MaxDepth = 2
  MaxFaults = 2
INVARIANTS
  TypeOK
  FinalizedAnswersStand
  MintedStaysMinted
PROPERTIES
  AttestationsLand
CHECK_DEADLOCK FALSE
