# opaq: TLA+ specification

opaq is a shielded pool on Solana with a bridge to EVM chains. This directory
holds a TLA+ model of it, the TLC configurations that check the model on small
instances, and TLAPS proofs of its safety properties for every instance.

## 1. The system

| Part | Source | State | Operations |
|---|---|---|---|
| Solana program | `programs/opaq/src/lib.rs` | `CommitmentTree` account (leaf count, frontier, ring of 32 roots), `NullifierSet` (append-only array), `XburnPending` (operator, attested burns), SPL vaults per mint | `initialize_pool`, `deposit`, `withdraw`, `transfer`, `burn`, `initialize_xburn_pending`, `add_pending_xburn`, `mint_from_xburn`, `xburn` |
| Commitment tree | `crates/common/src/tree.rs` | frontier, ring of roots | `insert`, `is_known_root`, `reconstruct_path` |
| Circuits | `circuits/*/src/main.nr` | none | relations for deposit, withdraw, transfer, burn, xburn |
| EVM pool | `evm/src/OpaqPool.sol` | tree and ring, `nullifierSpent`, `pendingMint`, `minted`, event log | `constructor`, `xburn`, `addPending`, `mintFromXburn` |
| EVM mint | `evm/src/OpaqMint.sol` | `pendingMint`, `minted`, `balanceOf`, event log | `constructor`, `addPending`, `mint` |
| Attestor, Solana leg | `canister/opaq-attestor/src/solana.rs` | answers of a call in progress | `verify_xburn_transaction` |
| Attestor, EVM leg | `canister/opaq-attestor/src/evm.rs` | none between calls | `check_nullifier_spent`, `read_pending_mint` |
| Attestor, submission | `evm_tx.rs`, `solana_tx.rs` | nonce or blockhash held across awaits | `submit_add_pending`, `submit_add_pending_xburn` |
| Wallet | `crates/prover/src/main.rs`, `crates/common/src/viewkey.rs` | note files | `address`, `list-unspent`, `deposit`, `withdraw`, `transfer`, `burn` |
| Read path | `tests/read_path.mjs`, `read_leaves.mjs`, `list_unspent.mjs` | none | harvest of leaves, memos and nullifiers |
| Companions | `programs/tamagotchi`, `programs/rplace` | one account each | small demonstrations |

How they interact. The wallet makes a note, proves a circuit's relation about it
against a root it rebuilt from harvested leaves, and submits an instruction. The
program checks the proof, the root against its ring, and the nullifier against
its set. To move value to another chain, `xburn` (or `burn`) records the
nullifier on the source chain; the attestor (the *operator*) can check that this is
final, and writes (nullifier, destination) into the destination's pending set;
anyone who has the proof then mints there. The chains share no state: only the
attestations connect them. Checks and submissions are separate update methods of the
canister, open to every caller: that a check comes before a submission is the duty of
a driver that is not in the repository.

What is hard here:

* four instructions spend from one nullifier set, and a transfer spends two notes at once;
* proofs are made against roots that go stale as others insert leaves; the ring wraps;
* limits: the tree fills up, the nullifier and pending accounts hit the runtime's
  size limit; all of it in the middle of a handler, which must then leave no trace;
* one note has many valid burn proofs, one per destination, so order of arrival must not decide;
* attestations are repeated, overwritten, late or wrong: submissions consult no check,
  take any caller's claim, and two callers may name two destinations for one note;
* the attestor's answers come one await at a time from providers that may lie, while the chain forks;
* its submissions hold a nonce or a blockhash across awaits, share one account, may be
  forgotten, and return before anything has landed;
* a wallet command may be killed between writing a note file and submitting, its
  transaction may land after that, and several commands run at once;
* what a wallet knows of the tree is what it harvested, at another moment, from a list of
  instructions that must be complete and in the order of the tree, while transactions are
  missed, programs call the pool from within, and log lines are any program's.

`PROJECT.json` lists these at their lines under `hazards`, with the property that
would catch each.

## 2. Modules

```
RootLog            abstract: a growing list and the window of its recent prefixes
  ^   ^   ^
  |   |   CommitmentTree     frontier tree with real (free) hashes, ring, paths
  |   OpaqPool  --+          EVM pool
  OpaqProgram  ---+-- RootRing   the account as handlers see it
      |           +-- Notes      notes and the circuits' relations
      |               OpaqMint   EVM mint of plain balances (Notes only)
Bridge             OpaqProgram + OpaqPool + the attestor's checks and submissions
Attestation        what the attestor attests: a nullifier and a destination
SolanaLeg          attestor's check of a Solana burn
EvmLeg          -+ attestor's reads of and submissions to the EVM chain
SolanaSubmit    -+ attestor's submissions to Solana
ForkingChain     ^ the chain both of them see: blocks, finality, forks
PendingAccount     the XburnPending account on such a chain (SolanaSubmit)
Wallet             note files, commands, read path
PoolLemmas         lemmas on the worth of notes and on the ring
CommitmentTreeProofs, OpaqProgramProofs, OpaqPoolProofs, OpaqMintProofs,
BridgeProofs, WalletProofs      one per component
AttestorProofs                  SolanaLeg, EvmLeg and SolanaSubmit
```

**RootLog** is the abstract promise of a commitment tree: leaves are appended, one
or two at a time, and exactly the last `RootHistory` roots are accepted. Three
modules implement it, each through `INSTANCE RootLog WITH` a mapping
(`ImplementsRootLog`): the tree of the crate, the Solana program and the EVM pool.

**CommitmentTree** translates `tree.rs`: `insert` climbs from the leaf, saving the
frontier for left children and reading it for right ones; `reconstruct_path`
builds the levels over the filled prefix. The hash is a free constructor, that
is, collision free; roots are the terms themselves. What the code computes level by
level is a recursive function on `0..TREE_DEPTH`. `MerkleNodes` is the reference: the
complete tree over all positions, empty ones included.

**RootRing** is the same account after abstraction: a root is named by the
length of the prefix of leaves it stands for. CommitmentTree is what justifies
that name: `FrontierComputesMerkleRoot` says a root is determined by the leaves,
`MembershipIsSound` that a root admits its own leaves and no others, and
`PathsReachKnownRoots` that each of them can be opened.

**Notes** gives a commitment its opening (token, amount) and its nullifier, both
functions of it because the hashes are taken as injective, and states each
circuit as a relation between public inputs and witness notes. A dummy transfer
input is a note worth 0 that need not be in the tree.

**OpaqProgram** has one action per instruction. A failing instruction reverts its
transaction, so rejected instructions are stuttering steps and an action is the
conjunction of the handler's checks and its writes. `leaves`, `outflow` and
`inflow` are history variables: leaf order, and value that left and came over the
bridge. `spl_send` is the environment: tokens paid into vaults behind the
program's back, from user accounts. `NoTree` and `pool` model the time before
the accounts exist. The memo of a transfer is not read by the program. The
program logs the destination of a `burn` or `xburn` and keeps no other trace of
it, so the destination chain is not a parameter of these actions.

**OpaqPool** and **OpaqMint** model the contracts in the same style, with the event
log, which bridges read, as state. `AddressOf` in OpaqMint is the cut of a
256-bit word to an address.

**SolanaLeg** models one call of the attestor as a sequence of outcalls: the call
starts, each `Outcall` brings one provider's answer, the last one also decides.
Between them other calls run and the chain (external: `ConfirmTx`,
`FinalizeTx`, `ForgetTx`) moves. An honest provider answers with the transaction if it is final,
or with nothing, or fails; a faulty one answers anything, including transactions
nobody signed. JSON that carries an RPC error counts as "no result": like it, it
can be agreed upon and leads to a rejection. The providers, the threshold and the
program id are arguments of the update call in the code; the model fixes them to
the deployed choice, so its results say nothing of a caller who passes others.

**ForkingChain** (external) is a chain as seen from outside: a final state, blocks
after it that may be abandoned, and a bound on the faults of a behaviour.

**EvmLeg** models `evm.rs` and `evm_tx.rs`. A submission passes through the five
awaits of `submit_add_pending` in order; its nonce is read at the third-last and
used at the last. The node (external) holds one transaction for a nonce: a second
one replaces it or is refused, one with a used nonce is answered `NonceTooLow`,
which the code returns as `Ok`. A failed await ends the call, and a transaction may
have reached the node all the same. Reads answer from the latest or the final
block, as the caller asked. `Persist` (external) is an operator who submits, reads
the entry back and starts again while it is not there and the note is not minted; the repository has no
such driver yet. The other callers call what they like, once; nothing relates the
destinations that different callers name for a note.

**SolanaSubmit** models `solana_tx.rs` in the same way: the blockhash of a call may
expire while the call waits for its signature, the node simulates the transaction on
some block it has, and the call returns without waiting for it to land. Executed, it
is `add_pending_xburn` of **PendingAccount**: the same handler as in OpaqProgram, with
the account's entries as the state after a block.

**Wallet** models the commands `deposit`, `withdraw`, `burn`, `transfer` and
`list-unspent` with the scripts they spawn. A command is `Prepare` (files written,
leaves harvested, path rebuilt), `submit` and `confirm`, and may `stop` in between. A
note is its secrets and the key that owns it. A leaf of the tree carries what the read
path goes by: the kind of instruction that inserted it, the transaction it was in, and
the index that `depositsFromTx` finds for it in the log, if any. `fetchLeaves` keeps the
leaves of top-level deposits and transfers, without those of the transactions that
`getTransaction` answered with null, sorts them by index if all have one, and leaves them
in the order of the signatures otherwise. Other people's leaves (`Other`, one for a
transaction) come by a transfer whose log gives the right index, none, or one that another
program in the transaction wrote (`StrayIndexes`), by a call from another program
(`"cpi"`), or by `mint_from_xburn`. The root of a path is the length of the harvested list
if that is a prefix of the tree's leaves, else `NoRoot` (other leaves have another root:
`SameRootSameLeaves`). `Legible` says that the tree has only leaves that the read path sees
and that no log puts in another's place; `whole` in a command is history: whether its
harvest missed nothing, which no command knows. Assumed of the user: every new note gets
a file name of its own (a `write_note` to an old name replaces the secrets in it) and
transfers pass `--change-note`.

**Bridge** composes the pools. A step is a step of one of them (through `INSTANCE`) or a
submission of the canister: `submit_add_pending` and `submit_add_pending_xburn` take any
claim of any caller at any time, as in the code. The two checks, `verify_xburn_transaction`
on the xburns of Solana (`AttestationSound` is why one state predicate can stand for it)
and `check_nullifier_spent` on the EVM pool, guard nothing; they only decide what the
history variables keep: `unfoundedOnEvm` and `unfoundedOnSolana` are the claims submitted
while the check of that moment said no. `burns` is history too: the destinations in the
data of the xburn instructions, which the program itself does not keep. So the properties
say what the pools guarantee of any use of the attestor, and, where nothing unfounded is
submitted, what a driver that checks first obtains.

Variables and actions keep the source's names. `PROJECT.json` maps every
definition to its lines.

## 3. Model checking

Each run takes three minutes or less with two workers.

| Run | Configuration | States | Question |
|---|---|---|---|
| `tree` | depth 3, ring of 3, three leaf values | 9,841 | every sequence of leaves until the tree is full: is the frontier's root the Merkle root, do paths reach accepted roots, does a root admit only its leaves, does the ring refine RootLog? |
| `pool` | one token; notes of 1, 1, 2 and 0; capacity 4; 4 nullifiers; ring of 2; a stray account of the vault authority | 8,440 | deposits, withdrawals, transfers, burns and xburns in all orders: double spends, solvency, recent roots, payable claims |
| `bridge_in` | two tokens, two chains, an operator that attests anything; capacity 2 | 5,634 | does a mint need an attestation of exactly its note, once, in its own token? |
| `evm_pool` | two tokens, two chains, five calls | 1,092,722 | backing, mints after the latest attestation, truthful log, RootLog |
| `evm_mint` | notes of 1 and 2, two addresses, one reached by two words, four calls | 352,757 | balances equal the burned notes; credits go where attested |
| `attest` | three providers, one faulty, two must agree; a withdrawal and two xburns of one note; two interleaved calls | 507,343 | is what is attested final and for one destination, is the faulty provider out-voted, does every call return? |
| `attest_bundle` | one transaction with a deposit and then an xburn | violation | see Findings |
| `evm` | one note, for which a persistent operator and another caller of the same account name two destinations; burns and mints by users, two unfinal blocks, two faults | 271,512 | does the attestation land, for good unless the other is submitted; is a late or repeated one harmless; do answers from the final block stand? |
| `solana_submit` | two persistent operators, a user who mints, faults | 399,000 | one entry per note, and attested in the end? |
| `wallet` | a pool that accepts only its newest root, three notes, one fault (a kill, a lost transaction, or a harvest or scan that misses some), other people's leaves by transfers with the right, no or a false index, and by calls from another program | 72,276 | are the secrets behind every note that is or may get into the pool in a file; is what `list-unspent` writes real, does it find what was sent; while the tree is legible, do rebuilt paths lead to roots it had and can every note be spent by trying again? |
| `wallet_gap` | two notes, one of which comes by a bridge mint | violation | see Findings |
| `bridge` | one token, two equal notes, tree of 4, two nullifiers, three EVM calls, one unfounded claim | 114,302 | does the vault on Solana cover both pools and what is between them, but for the notes of unfounded claims; are EVM mints what Solana burns, or such claims, named? |

Bounds. A ring of 2 wraps after two insertions and a transfer then replaces it
whole; capacities of 2 and 4 let a transfer meet a tree with no, one and two free
leaves; `MaxNullifiers` lets the nullifier account fill up. Depth 3 has carries
over one, two and three levels. Two notes with equal openings are the least with
which one can be taken for the other, and a second token the least for confusion
of tokens. Two chains tell "here" from "elsewhere". `MaxLog` bounds the calls of
an EVM behaviour: five suffice to attest, re-attest, mint, re-attest and burn.
Three providers with a threshold of two is the deployment the code describes
("2-of-3"). `MaxDepth` is the number of blocks that are not final, and at least two,
so that a fork can be left in part. `MaxFaults` bounds reorganisations, lost
transactions and failed awaits together: one fault can hit any point of a
submission, and a second one its retry; in `wallet`, where it also bounds kills and
harvests that miss a transaction, one is enough for every command to fail at every point
and be run again. `MaxNotes` bounds the secrets the wallet and others draw: three are a
deposit and the two outputs of a transfer of it, or a deposit between two leaves of
others, the least for a false index to change the order. In `bridge` three EVM calls are
attest, mint and burn, or attest twice and mint; `MaxUnfounded` of 1 lets one claim be
submitted against its check, before or after a founded one about the same note, in either
direction; four leaves are two deposits, a transfer or a re-deposit, and a mint back.

Symmetry exchanges the notes with equal openings; no property names one of them, and
no run with symmetry checks liveness. `CHECK_DEADLOCK FALSE` everywhere:
a full pool with nothing left to spend, a contract at `MaxLog`, and a chain whose
calls have all returned really stop.

Fairness.

* SolanaLeg: weak fairness of each call's `Outcall`. The subnet answers every HTTPS
  outcall with a reply or with an error, and the code continues in both cases; no
  provider is assumed to be right, no transaction to become final.
* EvmLeg and SolanaSubmit: every await ends, with an answer or a failure; the network
  mines what its nodes hold and finalizes blocks; and operators persist. The faults of
  a behaviour are finitely many, which is what makes weak fairness enough. Nothing in
  the canister retries, so without `Persist` no attestation is guaranteed.
* Wallet: commands go on or stop, the network processes what it is sent, harvests that
  miss a transaction are finitely many, and the user
  withdraws each unspent note and scans again and again (strong fairness: a command can
  start only while no other one is running, and a note is withdrawable only between
  other people's leaves).

Everything else is safety: nothing obliges a user of the pools to submit anything.

Every property of a passing run has a mutant in `PROJECT.json`: a small change of
the translated code, kept next to the original, under which TLC finds the
property violated.

## 4. Proofs

The theorems hold for all values of the constants that satisfy the named
assumptions: notes, tokens and accounts of any number, any ring size and capacity,
any number of calls, providers, commands, blocks and faults. Where a row has a
property in parentheses, a run of section 3 checks the same definition.

| Theorem | Says | Argument |
|---|---|---|
| **OpaqProgramProofs** | | |
| `TypeCorrect` (`TypeOK`) | the accounts keep their layout and limits | with `EmptyUntilCreated`: `initialize_pool` resets the leaf count, harmless only since nothing was inserted before |
| `RecentRoots` (`RecentRootsAccepted`) | exactly the last `ROOT_HISTORY` roots are accepted | `RingInvariant`: slot by slot, what the ring holds as a function of its age; lemmas on one insertion in PoolLemmas |
| `RefinesRootLog` (`ImplementsRootLog`) | the program refines RootLog | the same invariant; a transfer is one abstract step that appends two |
| `NoDoubleSpend` (`NullifiersRecordedOnce`) | no nullifier is recorded twice | inductive with `TypeOK` |
| `SpendsBacked` (`SpendsAreBacked`) | a recorded nullifier belongs to a leaf or to a dummy | leaves are never lost, and a proof is about a prefix of them |
| `Solvent` (`Solvency`) | unspent notes plus outflow never exceed vault plus inflow, per token | what an insertion and a spend do to the worth of the unspent notes (PoolLemmas) and what a payment does to the vault (`PaymentIn`, `PaymentOut`) |
| `ClaimsPayable` (`ClaimsArePayable`) | whoever can spend a note can withdraw it now | no induction of its own: `RingInvariant` for the root, `Solvency` for the vault |
| `InflowAttested` (`InflowIsAttested`) | inflow is the worth of the distinct notes behind minted entries | `AttestedOnce`: a nullifier has one entry, since `add_pending_xburn` looks through the list first; without it a second entry would count a note twice |
| `MintsAsAttested` (`MintedAsAttested`) | a minted entry has its note in the tree | the flag goes up only in the step that appends the note |
| `HistoryKept` (`HistoryIsKept`) | no step removes or rewrites a leaf, nullifier or attestation; two inputs are used up exactly when two outputs get in | an action property, from `TypeOK`: what each instruction appends (`HistoryAppends`) |
| **OpaqPoolProofs** | | |
| `PoolTypeCorrect`, `PoolRefinesRootLog`, `PoolBacked` | the same three kinds of fact for the EVM pool | `RingHolds`; `NotesOfMore`: a minted nullifier counts once |
| `MintsFollow` (`MintsFollowAttestations`) | a mint follows the latest attestation of its nullifier, once, and none is lost: what is marked minted is in the tree | `StorageFollowsLog`: a pending word is the destination of the latest `PendingAdded`, `minted` is the set of nullifiers with a `Minted` event, a leaf is the destination of one |
| `BurnsFollow` (`BurnsFollowMints`) | one `XBurned` per spent nullifier, after a mint of the note | the same |
| **OpaqMintProofs** | | |
| `LedgerBacked` (`LedgerIsBacked`) | balances add up to the credited notes | a balance as a pile of coins (`Ledger`), so that a sum over holders is one cardinality: `LedgerCredit` |
| `CreditsFollow` (`CreditsFollowAttestations`) | a credit follows the latest attestation, once | `StorageFollowsLog` for this contract |
| **BridgeProofs** | | |
| `PoolsInComposition` | a behaviour of the bridge is one of the Solana program and one of the EVM pool | step by step: each action of the composition is an operation of a pool or leaves it alone. Through `INSTANCE`, every theorem above then holds in the composition (`PoolFacts`) |
| `ForwardMints` (`ForwardMintsMatchBurns`) | what is minted on the EVM chain an xburn on Solana named, or a submission that the check would have refused | `LinkInvariant`: pending words and minted nullifiers are of burns or of unfounded claims, burned ones are recorded and in the outflow, entries on Solana are of nullifiers spent on the EVM chain or unfounded. No bound on unfounded claims is used |
| `BridgeBacked` (`BridgeIsBacked`) | the vault covers both pools and what is between them, but for the notes of unfounded claims, each counted once | arithmetic from `Solvency`, `InflowIsAttested`, `PoolIsBacked` and `LinkInvariant`: the notes on their way are what was burned less what was minted, and all but the vault cancels |
| **CommitmentTreeProofs** | | |
| `TreeInvariant` | the account always holds what it should | `FrontierHolds`: wherever the next leaf will need a left sibling, the frontier has the reference tree's node there; `RingHolds`: a slot of age *k* has the root of all leaves but the last *k*, or was never written. `ClimbReaches`: on the way up an insertion computes the reference tree's nodes, level by level |
| `FrontierIsCorrect` (`FrontierComputesMerkleRoot`) | the frontier's root is the Merkle root of all leaves | the newest slot of `RingHolds` |
| `MembersWereInserted` (`MembershipIsSound`) | a path to an accepted root, with whatever siblings and directions, starts from an empty position or from a leaf under that root | down the tree: two equal pairs have equal halves |
| `RebuiltPathsAreKnown` (`PathsReachKnownRoots`) | the path that `reconstruct_path` builds folds up to an accepted root, if its list is recent | its levels are the reference tree's, over the filled part; beyond it are the roots of empty subtrees |
| `TreeImplementsRootLog` (`ImplementsRootLog`) | the tree refines RootLog | different leaves have different roots (`SameRootSameLeaves`), so the ring accepts those of recent prefixes only |
| **AttestorProofs**, the check of Solana burns | | |
| `LegTypeCorrect` (`SolanaTypeOK`) | a call asks each provider at most once | inductive |
| `AttestationSound` (`AttestedBurnsAreFinal`) | what is attested is a final burn for that destination | `HonestView`: what an honest provider showed is still so, because finality is not taken back; `VerdictStands`; with fewer faulty positions than the threshold, one of the agreeing answers is honest |
| `AttestationUnique` (`OneDestinationPerNote`) | no note is attested for two destinations | `OneSpender`: transactions on the chain spend disjoint notes, from the shared nullifier set; then `AttestationSound` |
| `TrueClaimsHeard` (`TrueClaimsAreAttested`) | a true claim that enough providers confirmed is not rejected | `RejectionStands`; **if the threshold is a majority** of the providers, two answers cannot both reach it |
| **AttestorProofs**, the EVM leg and submissions | | |
| `EvmLegTypeCorrect` (`TypeOK`) | types, and one of the attestor's transactions for a nonce in the mempool | that part is not inductive: a reorganisation puts transactions of several blocks back at once. `TxsInOrder`: a block has at most one, and nonces rise from block to block |
| `MintedStays` (`MintedStaysMinted`) | no block has an entry for a minted note | `ChainGrows`: each state extends the ones before it (`Extends`), and each is sound by itself (`Sound`) |
| `AnswersStand` (`FinalizedAnswersStand`) | what was read from the final block stays: a spent nullifier is spent on every fork, an entry is there, replaced by a destination that a call names, or used by its mint | the final state is extended by all others; an answer that is true of a state is true of what extends it. Nothing is assumed of the destinations callers name |
| `SubmitTypeCorrect`, `OneEntry` (`OneEntryPerNote`) | on no fork has a note two entries in Solana's pending account | inductive together: a new block's state is the latest one with an entry added only where there is none. Theorems of `SolanaSubmit` through `INSTANCE`, so its `SubmitAssumption` is their stated hypothesis |
| **WalletProofs** | | |
| `SecretsKept` (`SecretsAreKept`) | the secrets of the wallet's notes that are or may get into the pool are in a file | `SecretsSafe`: already so of a command that has not submitted, since `deposit` and `transfer` write first; it needs `WellFormed` (what a command and a transaction consist of) |
| `FoundAreReal` (`DiscoveredNotesAreReal`) | what `list-unspent` writes is a note of the identity in the pool | `MemosOfPool`: a memo is beside a leaf of the tree, and a scan holds an older set of memos |
| `PathsMatch` (`PathsMatchLegibleTree`) | a harvest that missed nothing gives a path to a root the tree had, where all leaves came by top-level deposits and transfers and no log gives a false index | `HarvestIsComplete`: the recursion of `depositsFromTxs` then returns all leaves in order, and sorting by index changes nothing (`SortedAlready`), as does the fallback; `PathOutlives`: the root stays one the tree had as leaves are added. `wallet_gap` shows that the docs' claim fails without that hypothesis |
| `WalletTypeCorrect` (`TypeOK`) | types; a rebuilt root is in range | not inductive by itself: `DrawnOnce`, a secret is in one leaf, one transaction in flight or one unsent command, and in that once; so the tree has no more leaves than secrets were drawn (`FewLeaves`). However leaves get in |

Induction. The library's induction theorems cannot be instantiated, so an induction
over a level of the tree or an index of a list names the set of numbers that have the
property and applies `Interval`, which follows from the well-foundedness of the naturals:
a set with 0 and with each successor has the whole interval. Each recursive function is
first shown to satisfy the equations that define it (`Pow2Def`, `AboveDef`, `ClimbDef` and
others): a function that does is built up in the same way, hence exists.

Assumptions (`ASSUME`, evaluated by TLC on every run): `NoteAssumption`
(finitely many notes, openings in range, distinct nullifiers), `BoundAssumption`,
`DepthAssumption`, `HistoryAssumption` and `ZeroLeafAssumption` (a tree has a level and
its ring a slot; a commitment is not the all-zero word), `NoZeroRootAssumption` (no tree
hashes to the all-zero word, by which `is_known_root` tells a ring slot that was never
written), `AccountAssumption` (the canonical vault belongs to the vault authority of its
mint, and nobody can sign for that authority), `LimitAssumption`,
`EvmAssumption` and `MintAssumption` (among others: the empty word is not the hash of
a destination, as the contracts' `expected != bytes32(0)` supposes),
`ProviderAssumption` (fewer faulty providers than must agree), `BridgeAssumption`
(what the two pools assume, for the deployment with the attestor as their operator,
and two different chains), `ChainAssumption`, and `WalletAssumption` (the key drawn for a
deposit is neither the identity's nor a stranger's). `EvmLegAssumption` and
`SubmitAssumption` only type the calls' arguments and the bounds: different calls may name
different destinations for a note. The soundness of the proof system and the injectivity of the hashes are built into
Notes and CommitmentTree.

`TrueClaimsHeard` has a hypothesis that is no assumption of the model: the deployed
two of three is a majority, but `verify_xburn_transaction` takes any threshold, and with
a smaller one another answer, such as "no result", may reach it first.

Only model-checked: liveness (`CallsReturn`, `AttestationsLand`, `SubmissionsLand`,
`SentNotesAreFound`, `OwnNotesAreSpent`), which depends on fairness and `ENABLED`. Every
safety property of a passing run is also proved.

Proved but in no run: `SubmitTypeCorrect`, of the `TypeOK` of SolanaSubmit.

## 5. Findings

`attest_bundle`: the comment on `verify_xburn_transaction` accepts "a genuine
finalized `xburn` tx with matching claims". The code takes the *first* instruction
of the transaction that targets the program. A transaction that deposits and
then burns is final and did burn the note, but a truthful claim about it is
rejected for its tag, always; the note is spent on Solana and cannot be attested
by this check.

`wallet_gap`: `main.rs` and `read_leaves.mjs` say of the harvested list "index `i` ==
on-chain `leaf_index` `i`". `depositsFromTx` knows deposits and transfers, not
`mint_from_xburn`, which inserts a leaf too. After the first bridge mint the paths of
later leaves lead to roots that the tree never had. The run has the bridge as the cause;
the same happens after an instruction that another program calls, which `depositsFromTx`
does not look for, after a false line in the log, and in a harvest that misses a
transaction: `PathsMatchLegibleTree` is what remains true.

Observations that are no findings of a run:

* `submit_add_pending` and `submit_add_pending_xburn` attest what their caller says: they
  are open update methods that call neither `verify_xburn_transaction` nor
  `check_nullifier_spent`. OPAQ.md (B.14.4, B.14.5) plans one request that checks, then
  submits, and remembers what was attested; in the code the order is up to whoever calls
  the methods. `BridgeIsBacked` and `ForwardMintsMatchBurns` say what depends on it:
  exactly the notes that are submitted against a check.
* For the same reason a later caller can replace an entry by another destination for
  the note; the operator of `evm` lands its own for good only if nobody does.

* `submit_add_pending` reads its nonce at "latest" three awaits before it uses it. Two
  submissions in flight use one nonce; the second replaces the first or is answered
  `NonceTooLow`, and both calls return `Ok`. Its comment promises that "the tx lands",
  which only the caller can see to: `evm` shows that reading the entry back and
  submitting again is enough.
* OPAQ.md (B.14.5) says the reverse direction's check "is already precise". It is one
  bit per nullifier; the destination that is then attested on Solana comes from the
  caller of `submit_add_pending_xburn`. `BridgeIsBacked` holds whatever destination
  that is, but no property says it is the one the burn named.
* Once a note is minted its entry is deleted on the EVM chain, so an operator who polls
  `read_pending_mint` alone would submit for ever; the model's operator also looks at
  what was minted.

## 6. Not modelled

* Groth16, Poseidon, view-key encryption, RLP and message encodings: arithmetic
  and layout, taken as ideal or left out.
* Generated and third-party code (`Poseidon*.sol`, verifying keys,
  `tree_consts.rs`), probes, the witness generator, scripts, the ceremony, the tool
  patch.
* `canister/opaq-attestor/src/lib.rs`: derives addresses from public keys, and
  signs a message of the caller's and verifies the signature, which it does not return; no
  state, and nothing depends on it.
* Of the wallet: `address` and its rotation, the copy that `--out-note` writes,
  offline `--leaves` and witness files, the warnings of `warn.rs`, amounts.
* `programs/rplace` and `programs/tamagotchi`: demonstrations beside the pool, one
  account and one handler each.
* The EVM RPC canister's agreement between its providers, and the driver that
  connects checks and submissions, are external.

## 7. Plan

Done, in this order: RootLog and CommitmentTree; Notes, RootRing and OpaqProgram
with its proofs; OpaqPool with proofs; OpaqMint; SolanaLeg with proofs; ForkingChain,
EvmLeg and SolanaSubmit; Wallet; Bridge.

Proved: the safety properties of every component, the commitment tree's included.

Next: **ShieldedLedger**, an abstract ledger of notes that both pools refine, and a
driver of the bridge once the repository has one.
