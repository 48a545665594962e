SPECIFICATION Spec
SYMMETRY TwinNotes
CONSTANTS
  A = A
  B = B
  user = user
  a1 = a1
  a1x = a1x
  a2 = a2
  a0 = a0
  b1 = b1
  Commitments = {a1, a1x, a2, a0}
  Tokens = {A}
  Signers = {user}
  Chains = {101}
  SOLANA_CHAIN_ID = 101
  NoOperator = NoOperator
  MaxAmount = 2
  ROOT_HISTORY = 2
  Capacity = 4
  MaxNullifiers = 4
  MaxPending = 0
  TokenOf <- MCTokenOf
  AmountOf <- MCAmountOf
  NullifierOf <- MCNullifierOf
  Nullifiers <- MCNullifiers
  TokenAccounts <- MCTokenAccounts
  MintOf <- MCMintOf
  OwnerOf <- MCOwnerOf
  VaultAuthority <- MCVaultAuthority
  VaultAta <- MCVaultAta
  InitialBalance <- MCInitialBalance
INVARIANTS
  TypeOK
  RecentRootsAccepted
  NullifiersRecordedOnce
  SpendsAreBacked
  Solvency
  ClaimsArePayable
PROPERTIES
  ImplementsRootLog
CHECK_DEADLOCK FALSE
