SPECIFICATION Spec
SYMMETRY TwinNotes
CONSTANTS
  A = A
  B = B
  user = user
  a1 = a1
  a1x = a1x
  a2 = a2
  a0 = a0
  b1 = b1
  Commitments = {a1, a1x, b1}
  Tokens = {A, B}
  Signers = {user}
  Chains = {101, 1}
  SOLANA_CHAIN_ID = 101
  NoOperator = NoOperator
  MaxAmount = 1
  ROOT_HISTORY = 2
  Capacity = 2
  MaxNullifiers = 2
  MaxPending = 2
  TokenOf <- MCTokenOf
  AmountOf <- MCAmountOf
  NullifierOf <- MCNullifierOf
  Nullifiers <- MCNullifiers
  TokenAccounts <- MCTokenAccounts2
  MintOf <- MCMintOf
  OwnerOf <- MCOwnerOf
  VaultAuthority <- MCVaultAuthority
  VaultAta <- MCVaultAta
  InitialBalance <- MCInitialBalance2
INVARIANTS
  InflowIsAttested
  MintedAsAttested
PROPERTIES
  HistoryIsKept
CHECK_DEADLOCK FALSE
