SPECIFICATION SolanaSpec
CONSTANTS
  here = here
  there = there
  nf = nf
  r1 = r1
  r2 = r2
  program_id = "opaq"
  Faulty = {"b"}
  agree_threshold = 2
  Requests = {r1, r2}
  Signatures = {"withdraw", "xburn_here", "xburn_there"}
  TxOf <- MCTxOf
  Forgeries <- MCForgeries
  rpc_urls <- MCUrls
  Nullifiers <- MCNullifiers
  Dests <- MCDests
INVARIANTS
  SolanaTypeOK
  AttestedBurnsAreFinal
  OneDestinationPerNote
  TrueClaimsAreAttested
PROPERTIES
  CallsReturn
CHECK_DEADLOCK FALSE
