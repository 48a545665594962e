------------------------------- MODULE OpaqPool -------------------------------
(***************************************************************************)
(* The shielded pool on an EVM chain, evm/src/OpaqPool.sol: the same notes,  *)
(* tree and xburn proofs as programs/opaq, but no deposit, transfer or        *)
(* withdrawal.  Notes enter by mintFromXburn and leave by xburn.              *)
(* A require that fails reverts the call, so a rejected call is a stuttering  *)
(* step and an action is a successful call.                                   *)
(***************************************************************************)
EXTENDS Notes, RootRing, Sequences, Functions

CONSTANTS
  Callers,      \* addresses that call the contract
  operator,     \* the one that may attest; set by the constructor for good
  Chains,       \* words a destChain argument may have
  chainid,      \* block.chainid
  NotPending,   \* the zero word of an unset or deleted mapping entry
  MaxLog        \* bound on the calls of a behaviour: each emits one event

ASSUME EvmAssumption ==
  /\ chainid \in Chains
  /\ NotPending \notin Chains \X Commitments
  /\ MaxLog \in Nat

VARIABLES
  tree,            \* nextIndex, roots, currentRootIndex
  nullifierSpent,  \* notes of this pool burned for another chain
  pendingMint,     \* nullifier -> hash of the attested destination
  minted,          \* nullifiers of other chains that have been minted here
  log,             \* the events, which every EVM chain keeps
  leaves           \* history: the leaves, in insertion order

vars == <<tree, nullifierSpent, pendingMint, minted, log, leaves>>

-----------------------------------------------------------------------------
\* keccak256(abi.encode(destChain, outCommitment)); it is never the zero word.
keccak(destChain, outCommitment) == <<destChain, outCommitment>>

isKnownRoot(root) == is_known_root(tree, root)

\* The leaves of the tree with that root.
Members(root) == {leaves[i] : i \in 1..root}

insert(leaf) ==
  /\ has_room(tree)                                           \* "tree full"
  /\ tree' = tree_insert(tree)
  /\ leaves' = Append(leaves, leaf)

emit(name, nullifier, destChain, outCommitment) ==
  /\ Len(log) < MaxLog
  /\ log' = Append(log, [event |-> name, nullifier |-> nullifier,
                         dest |-> <<destChain, outCommitment>>])

constructor ==
  /\ tree = EmptyTree
  /\ nullifierSpent = {}
  /\ pendingMint = [nf \in Nullifiers |-> NotPending]
  /\ minted = {}
  /\ log = <<>>
  /\ leaves = <<>>

\* Mutant: a nullifier may be burned again.
xburn_again(root, src, nullifier, destChain, outCommitment) ==
  /\ isKnownRoot(root)
  /\ xburn_circuit(src, Members(root), nullifier, outCommitment)
  /\ nullifierSpent' = nullifierSpent \cup {nullifier}
  /\ emit("XBurned", nullifier, destChain, outCommitment)
  /\ UNCHANGED <<tree, pendingMint, minted, leaves>>

xburn(root, src, nullifier, destChain, outCommitment) ==
  /\ isKnownRoot(root)                                        \* "unknown root"
  /\ nullifier \notin nullifierSpent                          \* "already spent"
  /\ xburn_circuit(src, Members(root), nullifier, outCommitment) \* "bad proof"
  /\ nullifierSpent' = nullifierSpent \cup {nullifier}
  /\ emit("XBurned", nullifier, destChain, outCommitment)
  /\ UNCHANGED <<tree, pendingMint, minted, leaves>>

\* Mutant: a consumed nullifier can be attested again.
addPending_resurrects(sender, nullifier, destChain, outCommitment) ==
  /\ sender = operator
  /\ pendingMint' = [pendingMint EXCEPT ![nullifier] = keccak(destChain, outCommitment)]
  /\ emit("PendingAdded", nullifier, destChain, outCommitment)
  /\ UNCHANGED <<tree, nullifierSpent, minted, leaves>>

\* A later attestation of a nullifier replaces the earlier one until it is minted.
addPending(sender, nullifier, destChain, outCommitment) ==
  /\ sender = operator                                        \* "not operator"
  /\ nullifier \notin minted                                  \* "already minted"
  /\ pendingMint' = [pendingMint EXCEPT ![nullifier] = keccak(destChain, outCommitment)]
  /\ emit("PendingAdded", nullifier, destChain, outCommitment)
  /\ UNCHANGED <<tree, nullifierSpent, minted, leaves>>

\* Mutant: the permanent guard is not set.
mintFromXburn_no_guard(src, nullifier, destChain, outCommitment) ==
  /\ nullifier \notin minted
  /\ pendingMint[nullifier] = keccak(destChain, outCommitment)
  /\ destChain = chainid
  /\ xburn_circuit(src, Commitments, nullifier, outCommitment)
  /\ minted' = minted
  /\ pendingMint' = [pendingMint EXCEPT ![nullifier] = NotPending]
  /\ insert(outCommitment)
  /\ emit("Minted", nullifier, destChain, outCommitment)
  /\ UNCHANGED nullifierSpent

\* The source root is not this chain's to check: its tree may have any leaves.
mintFromXburn(src, nullifier, destChain, outCommitment) ==
  /\ nullifier \notin minted                                  \* "already minted"
  /\ pendingMint[nullifier] = keccak(destChain, outCommitment) \* "not pending / ..."
  /\ destChain = chainid                                      \* "wrong dest chain"
  /\ xburn_circuit(src, Commitments, nullifier, outCommitment)   \* "bad proof"
  /\ minted' = minted \cup {nullifier}
  /\ pendingMint' = [pendingMint EXCEPT ![nullifier] = NotPending]
  /\ insert(outCommitment)
  /\ emit("Minted", nullifier, destChain, outCommitment)
  /\ UNCHANGED nullifierSpent

-----------------------------------------------------------------------------
Roots == 0..tree.next_index      \* a caller may hold any root there ever was

Xburn == \E src, c \in Commitments, r \in Roots, d \in Chains :
           xburn(r, src, NullifierOf[src], d, c)

AddPending == \E s \in Callers, nf \in Nullifiers, d \in Chains, c \in Commitments :
                addPending(s, nf, d, c)

MintFromXburn == \E src, c \in Commitments, d \in Chains :
                   mintFromXburn(src, NullifierOf[src], d, c)

Next == Xburn \/ AddPending \/ MintFromXburn

Spec == constructor /\ [][Next]_vars

-----------------------------------------------------------------------------
InTree == Range(leaves)

Events == [event : {"XBurned", "PendingAdded", "Minted"}, nullifier : Nullifiers,
           dest : Chains \X Commitments]

\* Positions of the events of that name about a nullifier.
EventsOf(name, nf) == {i \in DOMAIN log : log[i].event = name /\ log[i].nullifier = nf}

\* Type correctness of the contract's storage and of its log.
TypeOK ==
  /\ tree \in TreeAccount
  /\ nullifierSpent \in SUBSET Nullifiers
  /\ pendingMint \in [Nullifiers -> (Chains \X Commitments) \cup {NotPending}]
  /\ minted \in SUBSET Nullifiers
  /\ log \in Seq(Events) /\ Len(log) <= MaxLog
  /\ leaves \in Seq(Commitments) /\ Len(leaves) = tree.next_index

\* The pool never holds or sends on more than came to it: for every token, the
\* spendable notes plus the ones burned for other chains are worth at most the
\* source notes whose burns were attested and minted here, each counted once.
PoolIsBacked ==
  \A t \in Tokens :
    Worth(Unspent(InTree, nullifierSpent, t)) + Worth(NotesOf(nullifierSpent, t))
      <= Worth(NotesOf(minted, t))

\* Every mint follows the operator's latest attestation of that nullifier, for
\* this chain and this very note; after it the nullifier is never attested or
\* minted again. No mint is lost: a nullifier marked minted has its event, and
\* the note of the event is in the tree, a full tree (insert's "tree full")
\* included.
MintsFollowAttestations ==
  \A nf \in Nullifiers :
    /\ nf \in minted => EventsOf("Minted", nf) # {}
    /\ \A k \in EventsOf("Minted", nf) :
         /\ \E j \in EventsOf("PendingAdded", nf) :
              /\ j < k
              /\ log[j].dest = log[k].dest /\ log[k].dest[1] = chainid
              /\ \A i \in EventsOf("PendingAdded", nf) : i <= j
         /\ EventsOf("Minted", nf) = {k}
         /\ log[k].dest[2] \in InTree

\* What a bridge reads from the log is the contract's state: a burn is of a note
\* minted here before, is logged once, and is what nullifierSpent records.
BurnsFollowMints ==
  /\ nullifierSpent = {nf \in Nullifiers : EventsOf("XBurned", nf) # {}}
  /\ \A nf \in nullifierSpent : \E k \in DOMAIN log : \E m \in Nullifiers :
       /\ EventsOf("XBurned", nf) = {k}
       /\ \E j \in EventsOf("Minted", m) : j < k /\ NullifierOf[log[j].dest[2]] = nf

\* The contract's tree implements the log of recent roots.
Log == INSTANCE RootLog WITH
         RootHistory <- ROOT_HISTORY,
         size        <- tree.next_index,
         known       <- AcceptedRoots(tree)

ImplementsRootLog == Log!LogSpec
=============================================================================
