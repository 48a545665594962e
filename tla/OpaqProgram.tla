----------------------------- MODULE OpaqProgram -----------------------------
(***************************************************************************)
(* The on-chain program programs/opaq/src/lib.rs: one shielded pool on       *)
(* Solana, with its accounts as variables and one action per instruction.    *)
(* An instruction that returns an error reverts its whole transaction, so a  *)
(* rejected instruction is a stuttering step: an action is the successful    *)
(* execution of its handler, its guards the checks in the handler's order.   *)
(*                                                                           *)
(* The proofs the handlers verify are the relations of module Notes.         *)
(* A Merkle root is named by the length of the prefix of leaves it stands    *)
(* for; CommitmentTree shows why that is all a root can tell.                *)
(***************************************************************************)
EXTENDS Notes, RootRing, Sequences, Functions

CONSTANTS
  Signers,          \* keys that can sign a transaction
  TokenAccounts,    \* SPL token accounts
  MintOf, OwnerOf,  \* their mint and authority
  VaultAuthority,   \* mint -> the vault PDA, for which only the program signs
  VaultAta,         \* mint -> canonical_vault_ata(VaultAuthority, mint)
  InitialBalance,   \* token balances before the pool exists
  Chains,           \* destination chain ids, as 32-byte words
  SOLANA_CHAIN_ID,
  MaxNullifiers,    \* entries that fit the runtime's 10 MiB account limit
  MaxPending,       \* likewise for XburnPending
  NoOperator        \* XburnPending does not exist yet

ASSUME AccountAssumption ==
  /\ MintOf \in [TokenAccounts -> Tokens]
  /\ InitialBalance \in [TokenAccounts -> Nat]
  /\ VaultAta \in [Tokens -> TokenAccounts]
  /\ \A t \in Tokens : /\ MintOf[VaultAta[t]] = t
                       /\ OwnerOf[VaultAta[t]] = VaultAuthority[t]
                       /\ VaultAuthority[t] \notin Signers
  /\ NoOperator \notin Signers

ASSUME LimitAssumption ==
  /\ MaxNullifiers \in Nat
  /\ MaxPending \in Nat
  /\ SOLANA_CHAIN_ID \in Chains

VARIABLES
  pool,             \* do the commitment_tree and nullifier_set PDAs exist?
  tree,             \* CommitmentTree: next_index, roots, current_root_index
  nullifiers,       \* NullifierSet: the append-only array
  xburn_operator,   \* XburnPending: operator
  xpending,         \* XburnPending: entries (nullifier, expected_hash, minted)
  balance,          \* amounts of the SPL token accounts
  leaves,           \* history: the leaves, in insertion order
  outflow,          \* history: value burned for other chains, per token
  inflow            \* history: value minted from other chains, per token

vars == <<pool, tree, nullifiers, xburn_operator, xpending, balance,
          leaves, outflow, inflow>>

-----------------------------------------------------------------------------
(* CommitmentTree                                                           *)

tree_is_known_root(root) == is_known_root(tree, root)               \* E_UNKNOWN_ROOT

\* The leaves of the tree with that root.
Members(root) == {leaves[i] : i \in 1..root}

-----------------------------------------------------------------------------
(* NullifierSet                                                             *)

\* Mutant: the scan misses the first entry.
nullifier_contains_from_second(nf) == \E i \in 2..Len(nullifiers) : nullifiers[i] = nf

nullifier_contains(nf) == \E i \in DOMAIN nullifiers : nullifiers[i] = nf

\* The account's growth by one entry fails at the runtime's size limit.
fits(entries) == Len(nullifiers) + entries <= MaxNullifiers

-----------------------------------------------------------------------------
(* XburnPending                                                             *)

hash2(a, b) == <<a, b>>

\* The first entry of that nullifier: the empty set or a singleton.
xpending_find(nf) ==
  {i \in DOMAIN xpending :
     /\ xpending[i].nullifier = nf
     /\ \A j \in 1..(i - 1) : xpending[j].nullifier # nf}

-----------------------------------------------------------------------------
(* SPL Token, as the program calls it (external)                            *)

spl_transfer_ok(source, dest, authority, amount) ==
  /\ MintOf[source] = MintOf[dest]
  /\ OwnerOf[source] = authority
  /\ balance[source] >= amount

\* A transfer of an account to itself succeeds and moves nothing.
spl_transfer(source, dest, amount) ==
  IF source = dest THEN balance
  ELSE [balance EXCEPT ![source] = @ - amount, ![dest] = @ + amount]

\* Mutant: any token account of the vault authority passes.
check_vault_any_ata(vault_token, token_id) ==
  /\ MintOf[vault_token] = token_id
  /\ OwnerOf[vault_token] = VaultAuthority[token_id]

check_vault(vault_token, token_id) ==                       \* E_WRONG_VAULT
  /\ MintOf[vault_token] = token_id
  /\ OwnerOf[vault_token] = VaultAuthority[token_id]
  /\ vault_token = VaultAta[token_id]

-----------------------------------------------------------------------------
(* The instructions                                                         *)

Init ==
  /\ pool = FALSE
  /\ tree = NoTree
  /\ nullifiers = <<>>
  /\ xburn_operator = NoOperator
  /\ xpending = <<>>
  /\ balance = InitialBalance
  /\ leaves = <<>>
  /\ outflow = [t \in Tokens |-> 0]
  /\ inflow = [t \in Tokens |-> 0]

initialize_pool ==
  /\ ~pool                              \* create_pda fails on an existing PDA
  /\ pool' = TRUE
  /\ tree' = EmptyTree
  /\ nullifiers' = <<>>
  /\ UNCHANGED <<xburn_operator, xpending, balance, leaves, outflow, inflow>>

deposit(depositor, depositor_token, vault_token, token_id, amount, commitment) ==
  /\ pool
  /\ deposit_circuit(token_id, amount, commitment)       \* E_PROOF_INVALID
  /\ check_vault(vault_token, token_id)
  /\ MintOf[depositor_token] = token_id                  \* E_WRONG_MINT
  /\ spl_transfer_ok(depositor_token, vault_token, depositor, amount)
  /\ has_room(tree)
  /\ balance' = spl_transfer(depositor_token, vault_token, amount)
  /\ tree' = tree_insert(tree)
  /\ leaves' = Append(leaves, commitment)
  /\ UNCHANGED <<pool, nullifiers, xburn_operator, xpending, outflow, inflow>>

\* Mutant: a withdrawal, too, is refused when the tree is full.
withdraw_checks_room(vault, to, note, root, nullifier, token_id, amount, recipient) ==
  /\ pool
  /\ withdraw_circuit(note, Members(root), nullifier, token_id, amount)
  /\ check_vault(vault, token_id)
  /\ OwnerOf[to] = recipient
  /\ MintOf[to] = token_id
  /\ tree_is_known_root(root)
  /\ ~nullifier_contains(nullifier)
  /\ fits(1)
  /\ has_room(tree)
  /\ spl_transfer_ok(vault, to, VaultAuthority[token_id], amount)

withdraw_checks(vault, to, note, root, nullifier, token_id, amount, recipient) ==
  /\ pool
  /\ withdraw_circuit(note, Members(root), nullifier, token_id, amount)
                                                         \* E_PROOF_INVALID
  /\ check_vault(vault, token_id)
  /\ OwnerOf[to] = recipient                \* E_WRONG_RECIPIENT
  /\ MintOf[to] = token_id                  \* E_WRONG_MINT
  /\ tree_is_known_root(root)                            \* E_UNKNOWN_ROOT
  /\ ~nullifier_contains(nullifier)                      \* E_ALREADY_SPENT
  /\ fits(1)
  /\ spl_transfer_ok(vault, to, VaultAuthority[token_id], amount)

withdraw(vault, to, note, root, nullifier, token_id, amount, recipient) ==
  /\ withdraw_checks(vault, to, note, root, nullifier, token_id, amount, recipient)
  /\ nullifiers' = Append(nullifiers, nullifier)
  /\ balance' = spl_transfer(vault, to, amount)
  /\ UNCHANGED <<pool, tree, xburn_operator, xpending, leaves, outflow, inflow>>

transfer(in0, in1, root, nullifier0, nullifier1, commitment0, commitment1) ==
  /\ pool
  /\ transfer_circuit(in0, in1, Members(root), nullifier0, nullifier1, commitment0,
                      commitment1)
  /\ tree_is_known_root(root)
  /\ ~nullifier_contains(nullifier0) /\ ~nullifier_contains(nullifier1)
  /\ nullifier0 # nullifier1                             \* E_ALREADY_SPENT
  /\ fits(2)
  /\ has_room(tree) /\ has_room(tree_insert(tree))
  /\ nullifiers' = nullifiers \o <<nullifier0, nullifier1>>
  /\ tree' = tree_insert(tree_insert(tree))
  /\ leaves' = leaves \o <<commitment0, commitment1>>
  /\ UNCHANGED <<pool, xburn_operator, xpending, balance, outflow, inflow>>

\* The value stays locked in the vault; dest_chain and dest_address are bound
\* by the proof and only logged.
burn(note, root, nullifier, token_id, amount) ==
  /\ pool
  /\ burn_circuit(note, Members(root), nullifier, token_id, amount)
  /\ tree_is_known_root(root)
  /\ ~nullifier_contains(nullifier)
  /\ fits(1)
  /\ nullifiers' = Append(nullifiers, nullifier)
  /\ outflow' = [outflow EXCEPT ![token_id] = @ + amount]
  /\ UNCHANGED <<pool, tree, xburn_operator, xpending, balance, leaves, inflow>>

\* Mutant: the account may be initialised again.
initialize_xburn_pending_again(operator) ==
  /\ xburn_operator' = operator
  /\ xpending' = <<>>
  /\ UNCHANGED <<pool, tree, nullifiers, balance, leaves, outflow, inflow>>

initialize_xburn_pending(operator) ==
  /\ xburn_operator = NoOperator        \* create_pda fails on an existing PDA
  /\ xburn_operator' = operator
  /\ xpending' = <<>>
  /\ UNCHANGED <<pool, tree, nullifiers, balance, leaves, outflow, inflow>>

add_pending_xburn(operator, src_nullifier, dest_chain, out_commitment) ==
  /\ xburn_operator = operator                           \* E_WRONG_OPERATOR
  /\ xpending_find(src_nullifier) = {}                   \* E_ALREADY_SPENT
  /\ Len(xpending) < MaxPending
  /\ xpending' = Append(xpending,
                        [nullifier |-> src_nullifier,
                         expected_hash |-> hash2(dest_chain, out_commitment),
                         minted |-> FALSE])
  /\ UNCHANGED <<pool, tree, nullifiers, xburn_operator, balance, leaves,
                 outflow, inflow>>

\* Mutant: an attestation is a bare flag per nullifier, whatever note it was for.
mint_from_xburn_bare_flag(src, src_nullifier, dest_chain, out_commitment) ==
  /\ pool
  /\ dest_chain = SOLANA_CHAIN_ID
  /\ xburn_circuit(src, Commitments, src_nullifier, out_commitment)
  /\ \E i \in xpending_find(src_nullifier) :
       /\ ~xpending[i].minted
       /\ xpending' = [xpending EXCEPT ![i].minted = TRUE]
  /\ has_room(tree)
  /\ tree' = tree_insert(tree)
  /\ leaves' = Append(leaves, out_commitment)
  /\ inflow' = [inflow EXCEPT ![TokenOf[out_commitment]] = @ + AmountOf[out_commitment]]
  /\ UNCHANGED <<pool, nullifiers, xburn_operator, balance, outflow>>

\* The source root is a public input that Solana does not check: the tree behind
\* it may have any leaves.
mint_from_xburn(src, src_nullifier, dest_chain, out_commitment) ==
  /\ pool
  /\ dest_chain = SOLANA_CHAIN_ID                        \* E_WRONG_CHAIN
  /\ xburn_circuit(src, Commitments, src_nullifier, out_commitment)
                                                         \* E_PROOF_INVALID
  /\ \E i \in xpending_find(src_nullifier) :             \* E_NOT_PENDING
       /\ ~xpending[i].minted                            \* E_ALREADY_SPENT
       /\ xpending[i].expected_hash = hash2(dest_chain, out_commitment)
                                                         \* E_WRONG_DESTINATION
       /\ xpending' = [xpending EXCEPT ![i].minted = TRUE]
  /\ has_room(tree)
  /\ tree' = tree_insert(tree)
  /\ leaves' = Append(leaves, out_commitment)
  /\ inflow' = [inflow EXCEPT ![TokenOf[out_commitment]] = @ + AmountOf[out_commitment]]
  /\ UNCHANGED <<pool, nullifiers, xburn_operator, balance, outflow>>

xburn(root, src, src_nullifier, out_commitment) ==
  /\ pool
  /\ xburn_circuit(src, Members(root), src_nullifier, out_commitment)
  /\ tree_is_known_root(root)
  /\ ~nullifier_contains(src_nullifier)
  /\ fits(1)
  /\ nullifiers' = Append(nullifiers, src_nullifier)
  /\ outflow' = [outflow EXCEPT ![TokenOf[src]] = @ + AmountOf[src]]
  /\ UNCHANGED <<pool, tree, xburn_operator, xpending, balance, leaves, inflow>>

\* Environment: a holder moves SPL tokens without the program, for instance
\* straight into a vault.
spl_send(authority, source, dest, amount) ==
  /\ spl_transfer_ok(source, dest, authority, amount)
  /\ balance' = spl_transfer(source, dest, amount)
  /\ UNCHANGED <<pool, tree, nullifiers, xburn_operator, xpending, leaves,
                 outflow, inflow>>

-----------------------------------------------------------------------------
Roots == 0..tree.next_index      \* a client may hold any root there ever was

Deposit == \E s \in Signers, a, v \in TokenAccounts, t \in Tokens, m \in Amounts,
              c \in Commitments : deposit(s, a, v, t, m, c)

Withdraw == \E v, a \in TokenAccounts, c \in Commitments, r \in Roots, t \in Tokens,
               m \in Amounts :
              withdraw(v, a, c, r, NullifierOf[c], t, m, OwnerOf[a])

Transfer == \E i0, i1, c0, c1 \in Commitments, r \in Roots :
              transfer(i0, i1, r, NullifierOf[i0], NullifierOf[i1], c0, c1)

Burn == \E c \in Commitments, r \in Roots, t \in Tokens, m \in Amounts :
          burn(c, r, NullifierOf[c], t, m)

InitializeXburnPending == \E s \in Signers : initialize_xburn_pending(s)

AddPendingXburn == \E s \in Signers, nf \in Nullifiers, d \in Chains,
                      c \in Commitments : add_pending_xburn(s, nf, d, c)

MintFromXburn == \E src, c \in Commitments, d \in Chains :
                   mint_from_xburn(src, NullifierOf[src], d, c)

Xburn == \E src, c \in Commitments, r \in Roots :
           xburn(r, src, NullifierOf[src], c)

SplSend == \E s \in Signers, a, b \in TokenAccounts, m \in Amounts :
             spl_send(s, a, b, m)

Next ==
  \/ initialize_pool
  \/ Deposit
  \/ Withdraw
  \/ Transfer
  \/ Burn
  \/ InitializeXburnPending
  \/ AddPendingXburn
  \/ MintFromXburn
  \/ Xburn
  \/ SplSend

Spec == Init /\ [][Next]_vars

-----------------------------------------------------------------------------
Recorded == Range(nullifiers)
InTree   == Range(leaves)

\* The notes of a token that somebody can still spend on this chain.
Claimable(t) == Unspent(InTree, Recorded, t)

PendingEntry == [nullifier : Nullifiers, expected_hash : Chains \X Commitments,
                 minted : BOOLEAN]

\* Type correctness of the four accounts and of the history.
TypeOK ==
  /\ pool \in BOOLEAN
  /\ tree \in TreeAccount
  /\ nullifiers \in Seq(Nullifiers) /\ Len(nullifiers) <= MaxNullifiers
  /\ xburn_operator \in Signers \cup {NoOperator}
  /\ xpending \in Seq(PendingEntry) /\ Len(xpending) <= MaxPending
  /\ balance \in [TokenAccounts -> Nat]
  /\ leaves \in Seq(Commitments) /\ Len(leaves) = tree.next_index
  /\ outflow \in [Tokens -> Nat]
  /\ inflow \in [Tokens -> Nat]

\* Nothing is in an account before it is created: every handler that writes the
\* tree, the nullifier set or the pending set needs the PDA to exist.
EmptyUntilCreated ==
  /\ ~pool => tree.next_index = 0 /\ Len(nullifiers) = 0
  /\ xburn_operator = NoOperator => Len(xpending) = 0

\* tree_is_known_root accepts the current root and its ROOT_HISTORY - 1
\* predecessors, through every wrap of the ring and although a transfer takes
\* two slots at once; before initialize_pool it accepts none.
RecentRootsAccepted ==
  AcceptedRoots(tree) = IF pool THEN Recent(tree.next_index) ELSE {}

\* The inductive form of RecentRootsAccepted.
RingInvariant ==
  /\ pool => RingHolds(tree)
  /\ ~pool => tree = NoTree

\* The one NullifierSet that withdraw, transfer, burn and xburn all record in
\* holds no nullifier twice: no note is spent by two of them, nor twice in one
\* transfer.
NullifiersRecordedOnce ==
  \A i, j \in DOMAIN nullifiers : nullifiers[i] = nullifiers[j] => i = j

\* A recorded nullifier belongs to a note that was in the tree, or to a dummy
\* transfer input, which is worth nothing: no spend without a deposit or a mint.
SpendsAreBacked ==
  \A nf \in Recorded : \E c \in Commitments :
    NullifierOf[c] = nf /\ (c \in InTree \/ AmountOf[c] = 0)

\* For every token, what the notes in the pool can still claim, plus what left
\* for other chains, is covered by the canonical vault plus what other chains
\* sent: no sequence of instructions creates value or moves it between tokens.
Solvency ==
  \A t \in Tokens :
    Worth(Claimable(t)) + outflow[t] <= balance[VaultAta[t]] + inflow[t]

\* The notes of token t whose attested burn elsewhere has been minted here.
MintedFrom(t) ==
  {c \in Commitments : TokenOf[c] = t /\ \E i \in DOMAIN xpending :
     xpending[i].minted /\ xpending[i].nullifier = NullifierOf[c]}

\* Bridge inflow: the value minted equals the value of the distinct source
\* notes whose nullifiers the operator attested, so an attestation is used at
\* most once and for exactly the value of the note it is about.
InflowIsAttested == \A t \in Tokens : inflow[t] = Worth(MintedFrom(t))

\* What was minted is what was attested: the note of a minted entry is in the
\* tree, was attested for this chain, and has the token and amount of the note
\* behind the attested nullifier.
MintedAsAttested ==
  \A i \in DOMAIN xpending : xpending[i].minted =>
    LET chain == xpending[i].expected_hash[1]
        note  == xpending[i].expected_hash[2]
    IN /\ chain = SOLANA_CHAIN_ID
       /\ note \in InTree
       /\ \E src \in Commitments : 
              xburn_circuit(src, Commitments, xpending[i].nullifier, note)

\* Every note that can be claimed can be withdrawn at once: the current root is
\* accepted and the vault holds enough, as long as the nullifier account can
\* grow and no more came over the bridge than left through it.
ClaimsArePayable ==
  \A t \in Tokens : \A c \in Claimable(t) :
    (fits(1) /\ inflow[t] <= outflow[t]) =>
      \A a \in TokenAccounts : MintOf[a] = t =>
        withdraw_checks(VaultAta[t], a, c, tree.next_index, NullifierOf[c], t,
                        AmountOf[c], OwnerOf[a])

\* A leaf never changes its index and a nullifier or an attestation is never
\* taken back or rewritten: a transfer uses up two inputs exactly when both of
\* its outputs get into the tree, and a minted flag only goes up, and only in a
\* step that appends that very note to the tree.
HistoryIsKept ==
  [][/\ \E k \in 0..2 : Len(leaves') = Len(leaves) + k
     /\ SubSeq(leaves', 1, Len(leaves)) = leaves
     /\ SubSeq(nullifiers', 1, Len(nullifiers)) = nullifiers
     /\ (Len(leaves') = Len(leaves) + 2) <=> (Len(nullifiers') = Len(nullifiers) + 2)
     /\ Len(xpending') >= Len(xpending)
     /\ \A i \in DOMAIN xpending :
          \/ xpending'[i] = xpending[i]
          \/ /\ xpending'[i] = [xpending[i] EXCEPT !.minted = TRUE]
             /\ leaves' = Append(leaves, xpending[i].expected_hash[2])]_vars

\* The program's tree implements the log of recent roots.
Log == INSTANCE RootLog WITH
         RootHistory <- ROOT_HISTORY,
         size        <- tree.next_index,
         known       <- AcceptedRoots(tree)

ImplementsRootLog == Log!LogSpec
=============================================================================
