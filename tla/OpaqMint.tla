------------------------------- MODULE OpaqMint -------------------------------
(***************************************************************************)
(* The mint of plain balances on an EVM chain for notes burned on Solana,    *)
(* evm/src/OpaqMint.sol: an operator mirrors burns, anyone submits the burn   *)
(* proof, the contract credits balanceOf.  A call that reverts is a           *)
(* stuttering step.                                                           *)
(***************************************************************************)
EXTENDS Notes, Sequences

CONSTANTS
  Callers, operator,   \* as in OpaqPool
  Chains, chainid,
  Destinations,        \* dest_address as a 32-byte signal
  Addresses,           \* 20-byte EVM addresses
  AddressOf,           \* address(uint160(word)): truncation, not injective
  NotPending,
  MaxLog               \* bound on the calls of a behaviour

\* What an attestation says: so much of a token to an address of a chain.
Credits == [token : Tokens, amount : Amounts, chain : Chains, to : Addresses]

ASSUME MintAssumption ==
  /\ chainid \in Chains
  /\ NotPending \notin Credits                 \* expected != bytes32(0)
  /\ AddressOf \in [Destinations -> Addresses]
  /\ MaxLog \in Nat

VARIABLES
  pendingMint,    \* nullifier -> hash of the attested credit
  minted,         \* nullifiers already credited
  balanceOf,      \* token -> holder -> amount
  log             \* the events

vars == <<pendingMint, minted, balanceOf, log>>

\* keccak256(abi.encode(tokenId, amount, destChain, destAddress))
keccak(tokenId, amount, destChain, to) ==
  [token |-> tokenId, amount |-> amount, chain |-> destChain, to |-> to]

emit(name, nullifier, credit) ==
  /\ Len(log) < MaxLog
  /\ log' = Append(log, [event |-> name, nullifier |-> nullifier, credit |-> credit])

constructor ==
  /\ pendingMint = [nf \in Nullifiers |-> NotPending]
  /\ minted = {}
  /\ balanceOf = [t \in Tokens |-> [a \in Addresses |-> 0]]
  /\ log = <<>>

\* Mutant: a consumed nullifier can be attested again.
addPending_resurrects(sender, nullifier, tokenId, amount, destChain, to) ==
  /\ sender = operator
  /\ pendingMint' = [pendingMint EXCEPT ![nullifier] =
                       keccak(tokenId, amount, destChain, to)]
  /\ emit("PendingAdded", nullifier, keccak(tokenId, amount, destChain, to))
  /\ UNCHANGED <<minted, balanceOf>>

addPending(sender, nullifier, tokenId, amount, destChain, to) ==
  /\ sender = operator                                        \* "not operator"
  /\ nullifier \notin minted                                  \* "already minted"
  /\ pendingMint' = [pendingMint EXCEPT ![nullifier] =
                       keccak(tokenId, amount, destChain, to)]
  /\ emit("PendingAdded", nullifier, keccak(tokenId, amount, destChain, to))
  /\ UNCHANGED <<minted, balanceOf>>

\* Mutant: a used attestation stays pending and `minted` is not looked at.
mint_no_guard(note, nullifier, tokenId, amount, destChain, destAddress) ==
  LET to == AddressOf[destAddress]
  IN /\ pendingMint[nullifier] = keccak(tokenId, amount, destChain, to)
     /\ destChain = chainid
     /\ burn_circuit(note, Commitments, nullifier, tokenId, amount)
     /\ minted' = minted \cup {nullifier}
     /\ pendingMint' = pendingMint
     /\ balanceOf' = [balanceOf EXCEPT ![tokenId][to] = @ + amount]
     /\ emit("Minted", nullifier, keccak(tokenId, amount, destChain, to))

\* The burn proof's Merkle root is Solana's and is not checked here.
mint(note, nullifier, tokenId, amount, destChain, destAddress) ==
  LET to == AddressOf[destAddress]
  IN /\ nullifier \notin minted                               \* "already minted"
     /\ pendingMint[nullifier] = keccak(tokenId, amount, destChain, to)
                                                              \* "not pending / ..."
     /\ destChain = chainid                                   \* "wrong dest chain"
     /\ burn_circuit(note, Commitments, nullifier, tokenId, amount) \* "bad proof"
     /\ minted' = minted \cup {nullifier}
     /\ pendingMint' = [pendingMint EXCEPT ![nullifier] = NotPending]
     /\ balanceOf' = [balanceOf EXCEPT ![tokenId][to] = @ + amount]
     /\ emit("Minted", nullifier, keccak(tokenId, amount, destChain, to))

AddPending == \E s \in Callers, nf \in Nullifiers, t \in Tokens, m \in Amounts,
                 d \in Chains, a \in Addresses : addPending(s, nf, t, m, d, a)

Mint == \E c \in Commitments, t \in Tokens, m \in Amounts, d \in Chains,
           w \in Destinations : mint(c, NullifierOf[c], t, m, d, w)

Next == AddPending \/ Mint

Spec == constructor /\ [][Next]_vars

-----------------------------------------------------------------------------
EventsOf(name, nf) == {i \in DOMAIN log : log[i].event = name /\ log[i].nullifier = nf}

\* The balances of a token as a pile of unit coins, each under its holder.
Ledger(t) == UNION {{a} \X (1..balanceOf[t][a]) : a \in Addresses}

\* The balances of a token add up to what the burned notes behind the consumed
\* nullifiers are worth: no burn is credited twice, in parts, or in another token.
LedgerIsBacked ==
  \A t \in Tokens : Cardinality(Ledger(t)) = Worth(NotesOf(minted, t))

\* A credit goes to the address of the operator's latest attestation of that
\* nullifier, whatever destinations the note's owner has proofs for; afterwards
\* the nullifier is never attested or credited again.
CreditsFollowAttestations ==
  \A nf \in Nullifiers : \A k \in EventsOf("Minted", nf) :
    /\ \E j \in EventsOf("PendingAdded", nf) :
         /\ j < k
         /\ log[j].credit = log[k].credit /\ log[k].credit.chain = chainid
         /\ \A i \in EventsOf("PendingAdded", nf) : i <= j
    /\ EventsOf("Minted", nf) = {k}
=============================================================================
