SPECIFICATION Spec
SYMMETRY TwinNotes
CONSTANTS
  A = A
  user = user
  attest_key = attest_key
  Commitments = {c1, c2}
  Tokens = {A}
  Signers = {user, attest_key}
  Callers = {user, attest_key}
  attestor = attest_key
  operator = attest_key
  Chains = {101, 1}
  SOLANA_CHAIN_ID = 101
  chainid = 1
  NoOperator = NoOperator
  NotPending = NotPending
  MaxAmount = 1
  ROOT_HISTORY = 1
  Capacity = 4
  MaxNullifiers = 2
  MaxPending = 1
  MaxLog = 3
  MaxUnfounded = 1
  TokenOf <- MCTokenOf
  AmountOf <- MCAmountOf
  NullifierOf <- MCNullifierOf
  Nullifiers <- MCNullifiers
  TokenAccounts <- MCTokenAccounts
  MintOf <- MCMintOf
  OwnerOf <- MCOwnerOf
  VaultAuthority <- MCVaultAuthority
  VaultAta <- MCVaultAta
  InitialBalance <- MCInitialBalance
INVARIANTS
  BridgeIsBacked
  
CHECK_DEADLOCK FALSE
