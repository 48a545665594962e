SPECIFICATION Spec
CONSTANTS
  n1 = n1
  n2 = n2
  d1 = d1
  d2 = d2
  o1 = o1
  o2 = o2
  o3 = o3
  ArgOf <- MCArgOf
  Nullifiers = {n1, n2}
  Dests = {d1, d2}
  Calls = {o1, o2, o3}
  Claimed = {n1}
  MaxDepth = 2
  MaxFaults = 2
INVARIANTS
  OneEntryPerNote
PROPERTIES
  SubmissionsLand
CHECK_DEADLOCK FALSE
