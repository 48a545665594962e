-------------------------------- MODULE Bridge --------------------------------
(***************************************************************************)
(* The two pools and the attestor between them: OpaqProgram on Solana,       *)
(* OpaqPool on an EVM chain, and the canister that operates both.  Its checks  *)
(* and its submissions are update methods of their own, open to any caller:     *)
(* nothing in the code makes a submission wait for a check, so here any claim    *)
(* is submitted at any time.  The history variables keep the claims that the      *)
(* check of that moment would have refused; no guard reads them.  The chains       *)
(* share no state and interleave freely.  What a check costs in awaits, providers   *)
(* and finality is in SolanaLeg, EvmLeg and SolanaSubmit; here it is the state       *)
(* that it certifies.                                                                *)
(***************************************************************************)
EXTENDS Notes, RootRing, Sequences, Functions

CONSTANTS
  Signers, TokenAccounts, MintOf, OwnerOf, VaultAuthority, VaultAta,
  InitialBalance, SOLANA_CHAIN_ID, MaxNullifiers, MaxPending, NoOperator,
  Callers, operator, chainid, NotPending, MaxLog,
  Chains,
  MaxUnfounded,     \* bound of the model: claims that are submitted against a check
  attestor          \* the canister's key on Solana

VARIABLES
  pool, stree, nullifiers, xburn_operator, xpending, balance, sleaves,
  outflow, inflow,                                           \* OpaqProgram
  etree, nullifierSpent, pendingMint, minted, log, eleaves,  \* OpaqPool
  burns,              \* what xburn instructions on Solana said: <<nullifier, dest>>
  unfoundedOnEvm,     \* <<nullifier, dest>> submitted to the EVM chain against the check
  unfoundedOnSolana   \* nullifiers submitted to Solana against the check

solana == <<pool, stree, nullifiers, xburn_operator, xpending, balance, sleaves,
            outflow, inflow>>
evm == <<etree, nullifierSpent, pendingMint, minted, log, eleaves>>
unfounded == <<unfoundedOnEvm, unfoundedOnSolana>>
vars == <<solana, evm, burns, unfounded>>

Sol == INSTANCE OpaqProgram WITH tree <- stree, leaves <- sleaves
Evm == INSTANCE OpaqPool WITH tree <- etree, leaves <- eleaves

\* What the two pools assume of their constants, and who attests.
ASSUME BridgeAssumption ==
  /\ MintOf \in [TokenAccounts -> Tokens]
  /\ InitialBalance \in [TokenAccounts -> Nat]
  /\ VaultAta \in [Tokens -> TokenAccounts]
  /\ \A t \in Tokens : /\ MintOf[VaultAta[t]] = t
                       /\ OwnerOf[VaultAta[t]] = VaultAuthority[t]
                       /\ VaultAuthority[t] \notin Signers
  /\ attestor \in Signers /\ NoOperator \notin Signers
  /\ operator \in Callers
  /\ MaxNullifiers \in Nat /\ MaxPending \in Nat /\ MaxLog \in Nat
  /\ SOLANA_CHAIN_ID \in Chains /\ chainid \in Chains \ {SOLANA_CHAIN_ID}
  /\ NotPending \notin Chains \X Commitments

-----------------------------------------------------------------------------
\* Deployment: both pools, with the attestor as the operator.
Init ==
  /\ Sol!Init /\ Evm!constructor
  /\ burns = {} /\ unfoundedOnEvm = {} /\ unfoundedOnSolana = {}

Deploy ==
  /\ Sol!initialize_pool \/ Sol!initialize_xburn_pending(attestor)
  /\ UNCHANGED <<evm, burns, unfounded>>

\* Users of the two pools.
OnSolana ==
  /\ Sol!Deposit \/ Sol!Withdraw \/ Sol!Transfer \/ Sol!Burn \/ Sol!MintFromXburn
  /\ UNCHANGED <<evm, burns, unfounded>>

\* xburn on Solana: the destination is in the instruction's data only.
XburnOnSolana ==
  /\ \E src, c \in Commitments, r \in Sol!Roots, d \in Chains :
       /\ Sol!xburn(r, src, NullifierOf[src], c)
       /\ burns' = burns \cup {<<NullifierOf[src], <<d, c>>>>}
  /\ UNCHANGED <<evm, unfounded>>

OnEvm ==
  /\ Evm!Xburn \/ Evm!MintFromXburn
  /\ UNCHANGED <<solana, burns, unfounded>>

\* Mutant: the check finds the nullifier, whatever instruction recorded it.
verify_xburn_transaction_any_spend(nf, dest) == nf \in Sol!Recorded

\* The transaction that the requester names is a final xburn of exactly this.
verify_xburn_transaction(nf, dest) == <<nf, dest>> \in burns

\* nullifierSpent[nf] in a block that is final: the answer is one bit.
check_nullifier_spent(nf) == nf \in nullifierSpent

\* The canister's submissions to the EVM chain: the caller names the nullifier and the
\* destination, and the method consults no check.
submit_add_pending ==
  /\ \E nf \in Nullifiers, d \in Chains, c \in Commitments :
       /\ Evm!addPending(operator, nf, d, c)
       /\ unfoundedOnEvm' = IF verify_xburn_transaction(nf, <<d, c>>) THEN unfoundedOnEvm
                            ELSE unfoundedOnEvm \cup {<<nf, <<d, c>>>>}
       /\ Cardinality(unfoundedOnEvm') + Cardinality(unfoundedOnSolana) <= MaxUnfounded
  /\ UNCHANGED <<solana, burns, unfoundedOnSolana>>

\* And to Solana.  The destination comes with the request here too; no check sees it.
submit_add_pending_xburn ==
  /\ \E nf \in Nullifiers, d \in Chains, c \in Commitments :
       /\ Sol!add_pending_xburn(attestor, nf, d, c)
       /\ unfoundedOnSolana' = IF check_nullifier_spent(nf) THEN unfoundedOnSolana
                               ELSE unfoundedOnSolana \cup {nf}
       /\ Cardinality(unfoundedOnEvm) + Cardinality(unfoundedOnSolana') <= MaxUnfounded
  /\ UNCHANGED <<evm, burns, unfoundedOnEvm>>

Next ==
  \/ Deploy
  \/ OnSolana
  \/ XburnOnSolana
  \/ OnEvm
  \/ submit_add_pending
  \/ submit_add_pending_xburn

Spec == Init /\ [][Next]_vars

-----------------------------------------------------------------------------
\* Nullifiers burned on Solana for another chain and not minted on the EVM chain,
\* and the other way round.
Outbound == {b[1] : b \in burns} \ minted
Inbound  == nullifierSpent \ {xpending[i].nullifier : i \in {j \in DOMAIN xpending : xpending[j].minted}}

\* The nullifiers of the first component of a set of pairs.
NullifiersOf(S) == {x[1] : x \in S}

\* All there is of a token is covered by its vault on Solana, but for the notes that were
\* attested against a check: the notes that can be spent on either chain, and the ones on
\* their way between them.  A note that goes back and forth, is attested again, is minted
\* late or had its nullifier attested for several destinations is never there twice, and
\* an unfounded submission, however often repeated, uncovers the one note that it names;
\* where every submission was checked before, nothing is uncovered.
BridgeIsBacked ==
  \A t \in Tokens :
    Worth(Sol!Claimable(t)) + Worth(Unspent(Evm!InTree, nullifierSpent, t))
      + Worth(NotesOf(Outbound, t)) + Worth(NotesOf(Inbound, t))
        <= balance[VaultAta[t]] + Worth(NotesOf(NullifiersOf(unfoundedOnEvm), t))
             + Worth(NotesOf(unfoundedOnSolana, t))

\* Every note minted on the EVM chain is the one that the burn on Solana named, for that
\* chain, unless this very claim was submitted against the check: a check that said yes
\* is not undone by what happens before the submission, nor by a later attestation.
ForwardMintsMatchBurns ==
  \A k \in DOMAIN log : log[k].event = "Minted" =>
    /\ <<log[k].nullifier, log[k].dest>> \in burns \cup unfoundedOnEvm
    /\ log[k].dest[1] = chainid
=============================================================================
