SPECIFICATION Spec
CONSTANTS
  A = A
  a1 = a1
  a2 = a2
  alice = alice
  bob = bob
  alice_padded = alice_padded
  Commitments = {a1, a2}
  Tokens = {A}
  Callers = {operator, alice}
  operator = operator
  Chains = {101, 1}
  chainid = 1
  Destinations = {alice, alice_padded, bob}
  Addresses = {alice, bob}
  NotPending = NotPending
  MaxAmount = 2
  MaxLog = 4
  TokenOf <- MCTokenOf
  AmountOf <- MCAmountOf
  NullifierOf <- MCNullifierOf
  Nullifiers <- MCNullifiers
  AddressOf <- MCAddressOf
INVARIANTS
  LedgerIsBacked
  CreditsFollowAttestations
CHECK_DEADLOCK FALSE
