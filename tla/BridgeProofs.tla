----------------------------- MODULE BridgeProofs -----------------------------
(***************************************************************************)
(* Theorems about the two pools and the attestor between them, for every set *)
(* of notes and tokens and every capacity.  A step of the bridge is a step or *)
(* a stutter of each pool, so what OpaqProgramProofs and OpaqPoolProofs prove  *)
(* of one pool holds in the composition; what is left is what ties them: an    *)
(* attestation on one chain is of a burn on the other, or was submitted        *)
(* against the check.                                                          *)
(***************************************************************************)
EXTENDS Bridge, PoolLemmas

SolP == INSTANCE OpaqProgramProofs WITH tree <- stree, leaves <- sleaves
EvmP == INSTANCE OpaqPoolProofs WITH tree <- etree, leaves <- eleaves

(* The constants of the bridge are constants each pool may have.              *)
LEMMA PoolsAssumptions ==
  /\ SolP!NoteAssumption /\ SolP!BoundAssumption /\ SolP!AccountAssumption
  /\ SolP!LimitAssumption
  /\ EvmP!NoteAssumption /\ EvmP!BoundAssumption /\ EvmP!EvmAssumption
<1>1. SolP!IsFiniteSet(Commitments) /\ EvmP!IsFiniteSet(Commitments)
  BY NoteAssumption DEF SolP!IsFiniteSet, EvmP!IsFiniteSet, IsFiniteSet
<1>2. /\ SolP!NoteAssumption /\ EvmP!NoteAssumption
      /\ SolP!BoundAssumption /\ EvmP!BoundAssumption
  BY <1>1, NoteAssumption, BoundAssumption
  DEF SolP!NoteAssumption, EvmP!NoteAssumption, SolP!BoundAssumption, EvmP!BoundAssumption
<1>3. SolP!AccountAssumption /\ SolP!LimitAssumption /\ EvmP!EvmAssumption
  BY BridgeAssumption
  DEF SolP!AccountAssumption, SolP!LimitAssumption, EvmP!EvmAssumption
<1> QED
  BY <1>2, <1>3

-----------------------------------------------------------------------------
(* An instruction of the composition is that instruction of the program.      *)
LEMMA SolanaSteps ==
  /\ Sol!Init => SolP!Init
  /\ (\/ Sol!initialize_pool \/ Sol!Deposit \/ Sol!Withdraw \/ Sol!Transfer
      \/ Sol!Burn \/ Sol!MintFromXburn
      \/ \E src, c \in Commitments, r \in Sol!Roots : Sol!xburn(r, src, NullifierOf[src], c)
      \/ \E s \in Signers : Sol!initialize_xburn_pending(s)
      \/ \E s \in Signers, nf \in Nullifiers, d \in Chains, c \in Commitments :
           Sol!add_pending_xburn(s, nf, d, c))
     => SolP!Next
<1> USE DEF SolP!check_vault, Sol!check_vault, SolP!spl_transfer_ok, Sol!spl_transfer_ok,
      SolP!spl_transfer, Sol!spl_transfer, SolP!Amounts, Sol!Amounts, SolP!Roots, Sol!Roots,
      SolP!has_room, Sol!has_room, SolP!tree_insert, Sol!tree_insert,
      SolP!tree_is_known_root, Sol!tree_is_known_root, SolP!is_known_root,
      Sol!is_known_root, SolP!Members, Sol!Members, SolP!nullifier_contains,
      Sol!nullifier_contains, SolP!fits, Sol!fits, SolP!xpending_find, Sol!xpending_find,
      SolP!hash2, Sol!hash2, SolP!xburn_circuit, Sol!xburn_circuit,
      SolP!Slots, Sol!Slots, SolP!NoRoot, Sol!NoRoot
<1>0. Sol!Init => SolP!Init
  BY DEF Sol!Init, SolP!Init, Sol!NoTree, SolP!NoTree
<1>1. Sol!initialize_pool => SolP!initialize_pool
  BY DEF Sol!initialize_pool, SolP!initialize_pool, Sol!EmptyTree, SolP!EmptyTree
<1>2. Sol!Deposit => SolP!Deposit
  BY DEF Sol!Deposit, SolP!Deposit, Sol!deposit, SolP!deposit, Sol!deposit_circuit,
     SolP!deposit_circuit
<1>3. Sol!Withdraw => SolP!Withdraw
  BY DEF Sol!Withdraw, SolP!Withdraw, Sol!withdraw, SolP!withdraw, Sol!withdraw_checks,
     SolP!withdraw_checks, Sol!withdraw_circuit, SolP!withdraw_circuit
<1>4. Sol!Transfer => SolP!Transfer
  BY DEF Sol!Transfer, SolP!Transfer, Sol!transfer, SolP!transfer, Sol!transfer_circuit,
     SolP!transfer_circuit
<1>5. Sol!Burn => SolP!Burn
  BY DEF Sol!Burn, SolP!Burn, Sol!burn, SolP!burn, Sol!burn_circuit, SolP!burn_circuit
<1>6. Sol!MintFromXburn => SolP!MintFromXburn
  BY DEF Sol!MintFromXburn, SolP!MintFromXburn, Sol!mint_from_xburn, SolP!mint_from_xburn
<1>7. ASSUME NEW src \in Commitments, NEW c \in Commitments, NEW r \in Sol!Roots,
             Sol!xburn(r, src, NullifierOf[src], c)
      PROVE  SolP!Xburn
  BY <1>7 DEF SolP!Xburn, Sol!xburn, SolP!xburn
<1>8. ASSUME NEW s \in Signers, Sol!initialize_xburn_pending(s)
      PROVE  SolP!InitializeXburnPending
  BY <1>8 DEF SolP!InitializeXburnPending, Sol!initialize_xburn_pending,
     SolP!initialize_xburn_pending
<1>9. ASSUME NEW s \in Signers, NEW nf \in Nullifiers, NEW d \in Chains,
             NEW c \in Commitments, Sol!add_pending_xburn(s, nf, d, c)
      PROVE  SolP!AddPendingXburn
  BY <1>9 DEF SolP!AddPendingXburn, Sol!add_pending_xburn, SolP!add_pending_xburn
<1> QED
  BY <1>0, <1>1, <1>2, <1>3, <1>4, <1>5, <1>6, <1>7, <1>8, <1>9 DEF SolP!Next

(* A call of the composition is that call of the contract.                    *)
LEMMA EvmSteps ==
  /\ Evm!constructor => EvmP!constructor
  /\ (\/ Evm!Xburn \/ Evm!MintFromXburn
      \/ \E s \in Callers, nf \in Nullifiers, d \in Chains, c \in Commitments :
           Evm!addPending(s, nf, d, c))
     => EvmP!Next
<1> USE DEF EvmP!emit, Evm!emit, EvmP!keccak, Evm!keccak, EvmP!xburn_circuit,
      Evm!xburn_circuit
<1>0. Evm!constructor => EvmP!constructor
  BY DEF Evm!constructor, EvmP!constructor, Evm!EmptyTree, EvmP!EmptyTree, Evm!Slots,
     EvmP!Slots, Evm!NoRoot, EvmP!NoRoot
<1>1. Evm!Xburn => EvmP!Xburn
  BY DEF Evm!Xburn, EvmP!Xburn, Evm!xburn, EvmP!xburn, Evm!isKnownRoot, EvmP!isKnownRoot,
     Evm!is_known_root, EvmP!is_known_root, Evm!Members, EvmP!Members, Evm!Roots,
     EvmP!Roots, Evm!Slots, EvmP!Slots, Evm!NoRoot, EvmP!NoRoot
<1>2. Evm!MintFromXburn => EvmP!MintFromXburn
  BY DEF Evm!MintFromXburn, EvmP!MintFromXburn, Evm!mintFromXburn, EvmP!mintFromXburn,
     Evm!insert, EvmP!insert, Evm!has_room, EvmP!has_room, Evm!tree_insert,
     EvmP!tree_insert
<1>3. ASSUME NEW s \in Callers, NEW nf \in Nullifiers, NEW d \in Chains,
             NEW c \in Commitments, Evm!addPending(s, nf, d, c)
      PROVE  EvmP!AddPending
  BY <1>3 DEF EvmP!AddPending, Evm!addPending, EvmP!addPending
<1> QED
  BY <1>0, <1>1, <1>2, <1>3 DEF EvmP!Next


(* Each pool is intact in the composition: what the other pool, the attestor   *)
(* and the deployment do is an operation of it or leaves it alone.             *)
THEOREM PoolsInComposition == Spec => SolP!Spec /\ EvmP!Spec
<1>1. Init => SolP!Init /\ EvmP!constructor
  BY SolanaSteps, EvmSteps DEF Init
<1>2. [Next]_vars => [SolP!Next]_(SolP!vars)
  <2> SUFFICES ASSUME [Next]_vars PROVE SolP!Next \/ UNCHANGED solana
    BY DEF SolP!vars, solana
  <2>1. CASE Deploy
    BY <2>1, SolanaSteps, BridgeAssumption DEF Deploy
  <2>2. CASE OnSolana
    BY <2>2, SolanaSteps DEF OnSolana
  <2>3. CASE XburnOnSolana
    BY <2>3, SolanaSteps DEF XburnOnSolana
  <2>4. CASE submit_add_pending_xburn
    BY <2>4, SolanaSteps, BridgeAssumption DEF submit_add_pending_xburn
  <2>5. CASE OnEvm \/ submit_add_pending \/ UNCHANGED vars
    BY <2>5 DEF OnEvm, submit_add_pending, vars
  <2> QED
    BY <2>1, <2>2, <2>3, <2>4, <2>5 DEF Next
<1>3. [Next]_vars => [EvmP!Next]_(EvmP!vars)
  <2> SUFFICES ASSUME [Next]_vars PROVE EvmP!Next \/ UNCHANGED evm
    BY DEF EvmP!vars, evm
  <2>1. CASE OnEvm
    BY <2>1, EvmSteps DEF OnEvm
  <2>2. CASE submit_add_pending
    BY <2>2, EvmSteps, BridgeAssumption DEF submit_add_pending
  <2>3. CASE Deploy \/ OnSolana \/ XburnOnSolana \/ submit_add_pending_xburn \/ UNCHANGED vars
    BY <2>3 DEF Deploy, OnSolana, XburnOnSolana, submit_add_pending_xburn, vars
  <2> QED
    BY <2>1, <2>2, <2>3 DEF Next
<1> QED
  BY <1>1, <1>2, <1>3, PTL DEF Spec, SolP!Spec, EvmP!Spec

(* What is proved of each pool alone, and the composition needs.               *)
PoolFacts ==
  /\ SolP!TypeOK /\ SolP!EmptyUntilCreated /\ SolP!Solvency /\ SolP!InflowIsAttested
  /\ EvmP!TypeOK /\ EvmP!PoolIsBacked

(* The pools' own theorems, in every state of the composition.                 *)
LEMMA PoolFactsHold == Spec => []PoolFacts
<1>1. SolP!Spec => [](SolP!TypeOK /\ SolP!EmptyUntilCreated)
  BY PoolsAssumptions, SolP!TypeCorrect
<1>2. SolP!Spec => []SolP!Solvency
  BY PoolsAssumptions, SolP!Solvent
<1>3. SolP!Spec => []SolP!InflowIsAttested
  BY PoolsAssumptions, SolP!InflowAttested
<1>4. EvmP!Spec => []EvmP!TypeOK
  BY PoolsAssumptions, EvmP!PoolTypeCorrect
<1>5. EvmP!Spec => []EvmP!PoolIsBacked
  BY PoolsAssumptions, EvmP!PoolBacked
<1> QED
  BY <1>1, <1>2, <1>3, <1>4, <1>5, PoolsInComposition, PTL DEF PoolFacts

-----------------------------------------------------------------------------
(* The nullifiers that Solana logged an xburn of, and the ones it holds an      *)
(* attestation for.                                                            *)
Burned == {b[1] : b \in burns}
Attested == {xpending[i].nullifier : i \in DOMAIN xpending}

(* The types and the emptiness that the steps below need.                      *)
LEMMA FactTypes ==
  ASSUME PoolFacts
  PROVE  /\ nullifiers \in Seq(Nullifiers)
         /\ DOMAIN xpending = 1..Len(xpending) /\ Len(xpending) \in Nat
         /\ \A i \in DOMAIN xpending : /\ xpending[i].nullifier \in Nullifiers
                                       /\ DOMAIN xpending[i] = {"nullifier", "expected_hash", "minted"}
         /\ outflow \in [Tokens -> Nat] /\ inflow \in [Tokens -> Nat]
         /\ ~pool => nullifiers = <<>>
         /\ \A t \in Tokens : balance[VaultAta[t]] \in Nat
         /\ nullifierSpent \in SUBSET Nullifiers /\ minted \in SUBSET Nullifiers
         /\ pendingMint \in [Nullifiers -> (Chains \X Commitments) \cup {NotPending}]
         /\ DOMAIN log = 1..Len(log) /\ Len(log) \in Nat
<1>1. SolP!TypeOK /\ SolP!EmptyUntilCreated /\ EvmP!TypeOK
  BY DEF PoolFacts
<1>2. /\ nullifiers \in Seq(Nullifiers) /\ xpending \in Seq(SolP!PendingEntry)
      /\ outflow \in [Tokens -> Nat] /\ inflow \in [Tokens -> Nat]
      /\ balance \in [TokenAccounts -> Nat]
      /\ ~pool => Len(nullifiers) = 0
  BY <1>1 DEF SolP!TypeOK, SolP!EmptyUntilCreated
<1>3. \A e \in SolP!PendingEntry :
        e.nullifier \in Nullifiers /\ DOMAIN e = {"nullifier", "expected_hash", "minted"}
  BY DEF SolP!PendingEntry
<1>4. ~pool => nullifiers = <<>>
  BY <1>2
<1>5. \A t \in Tokens : balance[VaultAta[t]] \in Nat
  BY <1>2, BridgeAssumption
<1>6. /\ nullifierSpent \in SUBSET Nullifiers /\ minted \in SUBSET Nullifiers
      /\ pendingMint \in [Nullifiers -> (Chains \X Commitments) \cup {NotPending}]
      /\ log \in Seq(EvmP!Events)
  BY <1>1 DEF EvmP!TypeOK
<1>7. /\ DOMAIN xpending = 1..Len(xpending) /\ Len(xpending) \in Nat
      /\ \A i \in DOMAIN xpending : xpending[i] \in SolP!PendingEntry
      /\ DOMAIN log = 1..Len(log) /\ Len(log) \in Nat
  BY <1>2, <1>6
<1> QED
  BY <1>2, <1>3, <1>4, <1>5, <1>6, <1>7

(* The nullifiers that Solana records, after one or two more.                  *)
LEMMA RecordedMore ==
  ASSUME PoolFacts
  PROVE  /\ \A x \in Nullifiers : nullifiers' = Append(nullifiers, x) =>
              Sol!Recorded' = Sol!Recorded \cup {x}
         /\ \A x, y \in Nullifiers : nullifiers' = nullifiers \o <<x, y>> =>
              Sol!Recorded' = (Sol!Recorded \cup {x}) \cup {y}
<1>1. nullifiers \in Seq(Nullifiers)
  BY FactTypes
<1>2. Sol!Recorded = Range(nullifiers) /\ Sol!Recorded' = Range(nullifiers')
  BY DEF Sol!Recorded, Sol!Range, Range
<1>3. ASSUME NEW x \in Nullifiers, nullifiers' = Append(nullifiers, x)
      PROVE  Sol!Recorded' = Sol!Recorded \cup {x}
  <2>1. Range(Append(nullifiers, x)) = Range(nullifiers) \cup {x}
    BY <1>1, AppendElements
  <2> QED
    BY <1>2, <1>3, <2>1
<1>4. ASSUME NEW x \in Nullifiers, NEW y \in Nullifiers,
             nullifiers' = nullifiers \o <<x, y>>
      PROVE  Sol!Recorded' = (Sol!Recorded \cup {x}) \cup {y}
  <2>1. Range(nullifiers \o <<x, y>>) = (Range(nullifiers) \cup {x}) \cup {y}
    BY <1>1, AppendTwoElements
  <2> QED
    BY <1>2, <1>4, <2>1
<1> QED
  BY <1>3, <1>4

-----------------------------------------------------------------------------
(* What a step does to Solana's side of the link: nullifiers are only added, an *)
(* entry is only added for a nullifier that the EVM pool has recorded or that    *)
(* is noted as unfounded, and a burn adds to the outflow, once per nullifier if   *)
(* it was an xburn.                                                               *)
LEMMA SolanaSide ==
  ASSUME PoolFacts, [Next]_vars
  PROVE  /\ Sol!Recorded \subseteq Sol!Recorded'
         /\ Attested' \subseteq (Attested \cup nullifierSpent) \cup unfoundedOnSolana'
         /\ unfoundedOnSolana \subseteq unfoundedOnSolana'
         /\ \/ burns' = burns /\ \A t \in Tokens : outflow'[t] >= outflow[t]
            \/ \E src, c \in Commitments, d \in Chains :
                 /\ burns' = burns \cup {<<NullifierOf[src], <<d, c>>>>}
                 /\ NullifierOf[src] \notin Sol!Recorded
                 /\ NullifierOf[src] \in Sol!Recorded'
                 /\ outflow' = [outflow EXCEPT ![TokenOf[src]] = @ + AmountOf[src]]
<1>11. unfoundedOnSolana \subseteq unfoundedOnSolana'
  BY DEF Next, Deploy, OnSolana, XburnOnSolana, OnEvm, submit_add_pending,
     submit_add_pending_xburn, vars, unfounded
<1> DEFINE Same == burns' = burns /\ \A t \in Tokens : outflow'[t] >= outflow[t]
<1>0. \A t \in Tokens : outflow[t] \in Nat
  BY FactTypes
<1>1. CASE UNCHANGED <<solana, burns>>
  <2>1. UNCHANGED <<nullifiers, xpending, outflow, burns>>
    BY <1>1 DEF solana
  <2> QED
    BY <1>11, <1>0, <2>1 DEF Sol!Recorded, Attested
<1>2. CASE Sol!initialize_pool /\ burns' = burns
  <2>1. nullifiers' = nullifiers /\ UNCHANGED <<xpending, outflow>>
    BY <1>2, FactTypes DEF Sol!initialize_pool
  <2> QED
    BY <1>11, <1>0, <1>2, <2>1 DEF Sol!Recorded, Attested
<1>3. CASE Sol!initialize_xburn_pending(attestor) /\ burns' = burns
  <2>1. xpending' = <<>> /\ UNCHANGED <<nullifiers, outflow>>
    BY <1>3 DEF Sol!initialize_xburn_pending
  <2> QED
    BY <1>11, <1>0, <1>3, <2>1 DEF Sol!Recorded, Attested
<1>4. CASE Sol!Deposit /\ burns' = burns
  <2>1. UNCHANGED <<nullifiers, xpending, outflow>>
    BY <1>4 DEF Sol!Deposit, Sol!deposit
  <2> QED
    BY <1>11, <1>0, <1>4, <2>1 DEF Sol!Recorded, Attested
<1>5. CASE Sol!Withdraw /\ burns' = burns
  <2>1. /\ \E c \in Commitments : nullifiers' = Append(nullifiers, NullifierOf[c])
        /\ UNCHANGED <<xpending, outflow>>
    BY <1>5 DEF Sol!Withdraw, Sol!withdraw
  <2>2. Sol!Recorded \subseteq Sol!Recorded'
    BY <2>1, NoteTypes, RecordedMore
  <2> QED
    BY <1>11, <1>0, <1>5, <2>1, <2>2 DEF Attested
<1>6. CASE Sol!Transfer /\ burns' = burns
  <2>1. /\ \E c, d \in Commitments :
             nullifiers' = nullifiers \o <<NullifierOf[c], NullifierOf[d]>>
        /\ UNCHANGED <<xpending, outflow>>
    BY <1>6 DEF Sol!Transfer, Sol!transfer
  <2>2. Sol!Recorded \subseteq Sol!Recorded'
    BY <2>1, NoteTypes, RecordedMore
  <2> QED
    BY <1>11, <1>0, <1>6, <2>1, <2>2 DEF Attested
<1>7. CASE Sol!Burn /\ burns' = burns
  <2> PICK c \in Commitments, r \in Sol!Roots, t \in Tokens, m \in Sol!Amounts :
             Sol!burn(c, r, NullifierOf[c], t, m)
    BY <1>7 DEF Sol!Burn
  <2>1. /\ nullifiers' = Append(nullifiers, NullifierOf[c]) /\ UNCHANGED xpending
        /\ outflow' = [outflow EXCEPT ![t] = @ + m]
    BY DEF Sol!burn
  <2>2. Sol!Recorded \subseteq Sol!Recorded'
    BY <2>1, NoteTypes, RecordedMore
  <2>3. m \in Nat
    BY NoteAssumption DEF Sol!Amounts
  <2>4. \A u \in Tokens : outflow'[u] >= outflow[u]
    BY <1>0, <2>1, <2>3, FactTypes
  <2> QED
    BY <1>11, <1>7, <2>1, <2>2, <2>4 DEF Attested
<1>8. CASE Sol!MintFromXburn /\ burns' = burns
  <2> PICK src, c \in Commitments, d \in Chains :
             Sol!mint_from_xburn(src, NullifierOf[src], d, c)
    BY <1>8 DEF Sol!MintFromXburn
  <2>1. PICK k \in DOMAIN xpending : xpending' = [xpending EXCEPT ![k].minted = TRUE]
    BY DEF Sol!mint_from_xburn, Sol!xpending_find
  <2>2. UNCHANGED <<nullifiers, outflow>>
    BY DEF Sol!mint_from_xburn
  <2>3. DOMAIN xpending' = DOMAIN xpending
    BY <2>1, FactTypes
  <2>4. \A i \in DOMAIN xpending : xpending'[i].nullifier = xpending[i].nullifier
    BY <2>1, FactTypes
  <2>5. Attested' = Attested
    BY <2>3, <2>4 DEF Attested
  <2> QED
    BY <1>11, <1>0, <1>8, <2>2, <2>5 DEF Sol!Recorded
<1>9. CASE XburnOnSolana
  <2> PICK src, c \in Commitments, r \in Sol!Roots, d \in Chains :
             /\ Sol!xburn(r, src, NullifierOf[src], c)
             /\ burns' = burns \cup {<<NullifierOf[src], <<d, c>>>>}
    BY <1>9 DEF XburnOnSolana
  <2>1. /\ nullifiers' = Append(nullifiers, NullifierOf[src]) /\ UNCHANGED xpending
        /\ outflow' = [outflow EXCEPT ![TokenOf[src]] = @ + AmountOf[src]]
        /\ ~Sol!nullifier_contains(NullifierOf[src])
    BY DEF Sol!xburn
  <2>2. Sol!Recorded' = Sol!Recorded \cup {NullifierOf[src]}
    BY <2>1, NoteTypes, RecordedMore
  <2>3. NullifierOf[src] \notin Sol!Recorded
    BY <2>1 DEF Sol!nullifier_contains, Sol!Recorded, Sol!Range
  <2> QED
    BY <1>11, <2>1, <2>2, <2>3 DEF Attested
<1>10. CASE submit_add_pending_xburn
  <2> PICK nf \in Nullifiers, d \in Chains, c \in Commitments :
             /\ Sol!add_pending_xburn(attestor, nf, d, c)
             /\ nf \in nullifierSpent \cup unfoundedOnSolana'
    BY <1>10 DEF submit_add_pending_xburn, check_nullifier_spent
  <2>1. /\ UNCHANGED <<nullifiers, outflow, burns>>
        /\ xpending' = Append(xpending, [nullifier |-> nf, expected_hash |-> <<d, c>>,
                                         minted |-> FALSE])
    BY <1>10 DEF submit_add_pending_xburn, Sol!add_pending_xburn, Sol!hash2
  <2>2. /\ DOMAIN xpending' = DOMAIN xpending \cup {Len(xpending) + 1}
        /\ \A i \in DOMAIN xpending : xpending'[i] = xpending[i]
        /\ xpending'[Len(xpending) + 1].nullifier = nf
    <3>1. xpending \in Seq(SolP!PendingEntry)
      BY DEF PoolFacts, SolP!TypeOK
    <3> QED
      BY <2>1, <3>1
  <2>3. Attested' \subseteq (Attested \cup nullifierSpent) \cup unfoundedOnSolana'
    BY <2>2 DEF Attested
  <2> QED
    BY <1>11, <1>0, <2>1, <2>3 DEF Sol!Recorded
<1> QED
  <2>1. Deploy => (Sol!initialize_pool \/ Sol!initialize_xburn_pending(attestor))
                  /\ burns' = burns
    BY DEF Deploy
  <2>2. OnSolana => (\/ Sol!Deposit \/ Sol!Withdraw \/ Sol!Transfer \/ Sol!Burn
                     \/ Sol!MintFromXburn) /\ burns' = burns
    BY DEF OnSolana
  <2>3. OnEvm \/ submit_add_pending \/ UNCHANGED vars => UNCHANGED <<solana, burns>>
    BY DEF OnEvm, submit_add_pending, vars
  <2> QED
    BY <1>1, <1>2, <1>3, <1>4, <1>5, <1>6, <1>7, <1>8, <1>9, <1>10, <1>11, <2>1, <2>2, <2>3
    DEF Next

(* What a step does to the EVM side of the link: spent nullifiers are only     *)
(* added, a word becomes pending only for a burn that Solana logged, and a mint *)
(* consumes one such word and logs it.                                         *)
LEMMA EvmSide ==
  ASSUME PoolFacts, [Next]_vars
  PROVE  /\ nullifierSpent \subseteq nullifierSpent'
         /\ unfoundedOnEvm \subseteq unfoundedOnEvm'
         /\ \/ UNCHANGED <<pendingMint, minted>>
               /\ \/ log' = log
                  \/ \E e : log' = Append(log, e) /\ e.event # "Minted"
            \/ \E nf \in Nullifiers, d \in Chains, c \in Commitments :
                 /\ <<nf, <<d, c>>>> \in burns \cup unfoundedOnEvm' /\ minted' = minted
                 /\ pendingMint' = [pendingMint EXCEPT ![nf] = <<d, c>>]
                 /\ \E e : log' = Append(log, e) /\ e.event # "Minted"
            \/ \E nf \in Nullifiers, c \in Commitments :
                 /\ pendingMint[nf] = <<chainid, c>>
                 /\ pendingMint' = [pendingMint EXCEPT ![nf] = NotPending]
                 /\ minted' = minted \cup {nf}
                 /\ log' = Append(log, [event |-> "Minted", nullifier |-> nf,
                                        dest |-> <<chainid, c>>])
<1>0. unfoundedOnEvm \subseteq unfoundedOnEvm'
  BY DEF Next, Deploy, OnSolana, XburnOnSolana, OnEvm, submit_add_pending,
     submit_add_pending_xburn, vars, unfounded
<1>1. CASE UNCHANGED evm
  BY <1>0, <1>1 DEF evm
<1>2. CASE Evm!Xburn
  <2> PICK src, c \in Commitments, r \in Evm!Roots, d \in Chains :
             Evm!xburn(r, src, NullifierOf[src], d, c)
    BY <1>2 DEF Evm!Xburn
  <2> DEFINE e == [event |-> "XBurned", nullifier |-> NullifierOf[src], dest |-> <<d, c>>]
  <2>1. /\ nullifierSpent \subseteq nullifierSpent' /\ UNCHANGED <<pendingMint, minted>>
        /\ log' = Append(log, e)
    BY DEF Evm!xburn, Evm!emit
  <2>2. e.event # "Minted"
    OBVIOUS
  <2> QED
    BY <1>0, <2>1, <2>2
<1>3. CASE submit_add_pending
  <2> PICK nf \in Nullifiers, d \in Chains, c \in Commitments :
             /\ Evm!addPending(operator, nf, d, c)
             /\ <<nf, <<d, c>>>> \in burns \cup unfoundedOnEvm'
    BY <1>3 DEF submit_add_pending, verify_xburn_transaction
  <2> DEFINE e == [event |-> "PendingAdded", nullifier |-> nf, dest |-> <<d, c>>]
  <2>1. /\ UNCHANGED <<nullifierSpent, minted>>
        /\ pendingMint' = [pendingMint EXCEPT ![nf] = <<d, c>>]
        /\ log' = Append(log, e)
    BY DEF Evm!addPending, Evm!keccak, Evm!emit
  <2>2. e.event # "Minted"
    OBVIOUS
  <2> HIDE DEF e
  <2> QED
    BY <1>0, <2>1, <2>2
<1>4. CASE Evm!MintFromXburn
  <2> PICK src, c \in Commitments, d \in Chains :
             Evm!mintFromXburn(src, NullifierOf[src], d, c)
    BY <1>4 DEF Evm!MintFromXburn
  <2>1. /\ d = chainid /\ UNCHANGED nullifierSpent
        /\ pendingMint[NullifierOf[src]] = <<d, c>>
        /\ pendingMint' = [pendingMint EXCEPT ![NullifierOf[src]] = NotPending]
        /\ minted' = minted \cup {NullifierOf[src]}
        /\ log' = Append(log, [event |-> "Minted", nullifier |-> NullifierOf[src],
                               dest |-> <<d, c>>])
    BY DEF Evm!mintFromXburn, Evm!keccak, Evm!emit
  <2> QED
    BY <1>0, <2>1, NoteTypes
<1> QED
  BY <1>1, <1>2, <1>3, <1>4
  DEF Next, Deploy, OnSolana, XburnOnSolana, OnEvm, submit_add_pending_xburn, vars

-----------------------------------------------------------------------------
(* The invariant that ties the chains: a burn that Solana logged recorded its   *)
(* nullifier and left, in value, through outflow; what is pending or minted on   *)
(* the EVM chain was logged, what is attested on Solana was spent there, or it    *)
(* was submitted against the check.                                             *)
LinkInvariant ==
  /\ Burned \subseteq Sol!Recorded
  /\ \A t \in Tokens : Worth(NotesOf(Burned, t)) <= outflow[t]
  /\ \A nf \in Nullifiers :
       pendingMint[nf] # NotPending => <<nf, pendingMint[nf]>> \in burns \cup unfoundedOnEvm
  /\ minted \subseteq Burned \cup NullifiersOf(unfoundedOnEvm)
  /\ Attested \subseteq nullifierSpent \cup unfoundedOnSolana
  /\ ForwardMintsMatchBurns

(* One more burn, one more burned nullifier.                                   *)
LEMMA BurnedMore ==
  ASSUME NEW x, NEW y, burns' = burns \cup {<<x, y>>}
  PROVE  Burned' = Burned \cup {x}
<1>1. <<x, y>>[1] = x
  OBVIOUS
<1> DEFINE b == <<x, y>>
<1>2. b[1] = x /\ burns' = burns \cup {b}
  BY <1>1
<1> HIDE DEF b
<1> QED
  BY <1>2 DEF Burned

(* LinkInvariant is one: each conjunct rests on the ones above it.             *)
LEMMA LinkHolds == Spec => []LinkInvariant
<1>1. Init => LinkInvariant
  <2> SUFFICES ASSUME Init PROVE LinkInvariant
    OBVIOUS
  <2>1. /\ burns = {} /\ xpending = <<>> /\ minted = {} /\ log = <<>>
        /\ pendingMint = [nf \in Nullifiers |-> NotPending]
        /\ outflow = [t \in Tokens |-> 0]
    BY DEF Init, Sol!Init, Evm!constructor
  <2>2. Burned = {} /\ Attested = {}
    BY <2>1 DEF Burned, Attested
  <2>3. \A t \in Tokens : Worth(NotesOf(Burned, t)) = 0
    <3>1. \A t : NotesOf({}, t) = {}
      BY DEF NotesOf
    <3>2. Coins({}) = {}
      BY DEF Coins
    <3>3. Worth({}) = 0
      BY <3>2, FS_EmptySet DEF Worth
    <3> QED
      BY <2>2, <3>1, <3>3
  <2> QED
    BY <2>1, <2>2, <2>3 DEF LinkInvariant, ForwardMintsMatchBurns
<1>2. PoolFacts /\ PoolFacts' /\ LinkInvariant /\ [Next]_vars => LinkInvariant'
  <2> SUFFICES ASSUME PoolFacts, PoolFacts', LinkInvariant, [Next]_vars
               PROVE  LinkInvariant'
    OBVIOUS
  <2>1. burns \subseteq burns' /\ Burned \subseteq Burned'
    BY SolanaSide DEF Burned
  <2>2. Burned' \subseteq Sol!Recorded'
    <3>1. CASE burns' = burns
      BY <3>1, SolanaSide DEF Burned, LinkInvariant
    <3>2. ASSUME NEW src \in Commitments, NEW d, NEW c,
                 burns' = burns \cup {<<NullifierOf[src], <<d, c>>>>},
                 NullifierOf[src] \in Sol!Recorded'
          PROVE  Burned' \subseteq Sol!Recorded'
      <4>1. Burned' = Burned \cup {NullifierOf[src]}
        BY <3>2, BurnedMore
      <4> QED
        BY <3>2, <4>1, SolanaSide DEF LinkInvariant
    <3> QED
      BY <3>1, <3>2, SolanaSide
  <2>3. ASSUME NEW t \in Tokens
        PROVE  Worth(NotesOf(Burned', t)) <= outflow'[t]
    <3>0. /\ Worth(NotesOf(Burned, t)) <= outflow[t] /\ outflow[t] \in Nat
          /\ Worth(NotesOf(Burned, t)) \in Nat
      <4>1. NotesOf(Burned, t) \in SUBSET Commitments
        BY DEF NotesOf
      <4> QED
        BY <4>1, WorthType, FactTypes DEF LinkInvariant
    <3>1. CASE burns' = burns /\ outflow'[t] >= outflow[t]
      <4>1. Burned' = Burned
        BY <3>1 DEF Burned
      <4>2. outflow'[t] \in Nat
        BY DEF PoolFacts, SolP!TypeOK
      <4> QED
        BY <3>0, <3>1, <4>1, <4>2
    <3>2. ASSUME NEW src \in Commitments, NEW d, NEW c,
                 burns' = burns \cup {<<NullifierOf[src], <<d, c>>>>},
                 NullifierOf[src] \notin Sol!Recorded,
                 outflow' = [outflow EXCEPT ![TokenOf[src]] = @ + AmountOf[src]]
          PROVE  Worth(NotesOf(Burned', t)) <= outflow'[t]
      <4>1. Burned' = Burned \cup {NullifierOf[src]}
        BY <3>2, BurnedMore
      <4>2. NullifierOf[src] \notin Burned
        BY <3>2 DEF LinkInvariant
      <4>3. Worth(NotesOf(Burned', t)) = Worth(NotesOf(Burned, t)) + ValueIn(src, t)
        BY <4>1, <4>2, NotesOfMore
      <4>4. outflow'[t] = outflow[t] + ValueIn(src, t) /\ ValueIn(src, t) \in Nat
        BY <3>0, <3>2, FactTypes, NoteTypes DEF ValueIn
      <4> QED
        BY <3>0, <4>3, <4>4
    <3> QED
      BY <3>1, <3>2, SolanaSide
  <2>4. Attested' \subseteq nullifierSpent' \cup unfoundedOnSolana'
    BY SolanaSide, EvmSide DEF LinkInvariant
  <2>5. ASSUME NEW nf \in Nullifiers, pendingMint'[nf] # NotPending
        PROVE  <<nf, pendingMint'[nf]>> \in burns' \cup unfoundedOnEvm'
    <3>1. \/ pendingMint'[nf] = pendingMint[nf]
          \/ <<nf, pendingMint'[nf]>> \in burns \cup unfoundedOnEvm'
      BY <2>5, EvmSide, FactTypes
    <3> QED
      BY <2>1, <2>5, <3>1, EvmSide DEF LinkInvariant
  <2>6. ASSUME NEW nf \in Nullifiers, NEW c \in Commitments,
               pendingMint[nf] = <<chainid, c>>
        PROVE  <<nf, <<chainid, c>>>> \in burns \cup unfoundedOnEvm
    BY <2>6, BridgeAssumption DEF LinkInvariant
  <2>7. minted' \subseteq Burned' \cup NullifiersOf(unfoundedOnEvm')
    <3>1. ASSUME NEW nf \in Nullifiers, NEW c \in Commitments,
                 pendingMint[nf] = <<chainid, c>>
          PROVE  nf \in Burned \cup NullifiersOf(unfoundedOnEvm)
      <4>1. <<nf, <<chainid, c>>>>[1] = nf
        OBVIOUS
      <4> QED
        BY <2>6, <3>1, <4>1 DEF Burned, NullifiersOf
    <3>0. NullifiersOf(unfoundedOnEvm) \subseteq NullifiersOf(unfoundedOnEvm')
      BY EvmSide DEF NullifiersOf
    <3>2. \/ minted' = minted
          \/ \E nf \in Nullifiers, c \in Commitments :
               pendingMint[nf] = <<chainid, c>> /\ minted' = minted \cup {nf}
      BY EvmSide
    <3> QED
      BY <2>1, <3>0, <3>1, <3>2 DEF LinkInvariant
  <2>8. ForwardMintsMatchBurns'
    <3> SUFFICES ASSUME NEW k \in DOMAIN log', log'[k].event = "Minted"
                 PROVE  <<log'[k].nullifier, log'[k].dest>> \in burns' \cup unfoundedOnEvm'
                        /\ log'[k].dest[1] = chainid
      BY DEF ForwardMintsMatchBurns
    <3>1. CASE k \in DOMAIN log /\ log'[k] = log[k]
      BY <2>1, <3>1, EvmSide DEF LinkInvariant, ForwardMintsMatchBurns
    <3>2. ASSUME NEW e, log' = Append(log, e)
          PROVE  \/ k \in DOMAIN log /\ log'[k] = log[k]
                 \/ log'[k] = e
      <4>1. log \in Seq(EvmP!Events)
        BY DEF PoolFacts, EvmP!TypeOK
      <4> QED
        BY <3>2, <4>1
    <3>3. ASSUME NEW nf \in Nullifiers, NEW c \in Commitments,
                 pendingMint[nf] = <<chainid, c>>,
                 log'[k] = [event |-> "Minted", nullifier |-> nf, dest |-> <<chainid, c>>]
          PROVE  <<log'[k].nullifier, log'[k].dest>> \in burns' \cup unfoundedOnEvm'
                 /\ log'[k].dest[1] = chainid
      <4>1. log'[k].nullifier = nf /\ log'[k].dest = <<chainid, c>>
        BY <3>3
      <4>2. <<nf, <<chainid, c>>>> \in burns' \cup unfoundedOnEvm'
        BY <2>1, <2>6, <3>3, EvmSide
      <4> QED
        BY <4>1, <4>2
    <3>4. \/ log' = log
          \/ \E e : log' = Append(log, e) /\ e.event # "Minted"
          \/ \E nf \in Nullifiers, c \in Commitments :
               /\ pendingMint[nf] = <<chainid, c>>
               /\ log' = Append(log, [event |-> "Minted", nullifier |-> nf,
                                      dest |-> <<chainid, c>>])
      BY EvmSide
    <3> QED
      BY <3>1, <3>2, <3>3, <3>4
  <2>9. /\ (Burned \subseteq Sol!Recorded)'
        /\ (\A t \in Tokens : Worth(NotesOf(Burned, t)) <= outflow[t])'
        /\ (minted \subseteq Burned \cup NullifiersOf(unfoundedOnEvm))'
        /\ (Attested \subseteq nullifierSpent \cup unfoundedOnSolana)'
    <3>1. \A t : Worth(NotesOf(Burned', t)) = Worth(NotesOf(Burned, t))'
      BY DEF Worth, NotesOf, Coins
    <3>2. NullifiersOf(unfoundedOnEvm)' = NullifiersOf(unfoundedOnEvm')
      BY DEF NullifiersOf
    <3> QED
      BY <2>2, <2>3, <2>4, <2>7, <3>1, <3>2
  <2> QED
    BY <2>5, <2>8, <2>9 DEF LinkInvariant
<1> QED
  BY <1>1, <1>2, PoolFactsHold, PTL DEF Spec

-----------------------------------------------------------------------------
(* Every note minted on the EVM chain is the one that an xburn on Solana named, *)
(* or one whose claim was submitted against the check, for any number of notes,  *)
(* chains, calls and attestations: a logged burn stays logged, and a mint is of   *)
(* what is pending.                                                               *)
THEOREM ForwardMints == Spec => []ForwardMintsMatchBurns
<1>1. LinkInvariant => ForwardMintsMatchBurns
  BY DEF LinkInvariant
<1> QED
  BY <1>1, LinkHolds, PTL

(* The value of the notes that each pool speaks of is the value of the bridge's *)
(* own.                                                                         *)
LEMMA WorthInPools ==
  /\ \A S : SolP!Worth(S) = Worth(S) /\ EvmP!Worth(S) = Worth(S)
  /\ \A t : SolP!Claimable(t) = Sol!Claimable(t)
  /\ \A t : SolP!MintedFrom(t) =
              NotesOf({xpending[i].nullifier :
                         i \in {j \in DOMAIN xpending : xpending[j].minted}}, t)
  /\ \A R, t : EvmP!NotesOf(R, t) = NotesOf(R, t)
  /\ \A R, t : EvmP!Unspent(EvmP!InTree, R, t) = Unspent(Evm!InTree, R, t)
<1>1. \A S : SolP!Worth(S) = Worth(S) /\ EvmP!Worth(S) = Worth(S)
  BY DEF SolP!Worth, EvmP!Worth, Worth, SolP!Coins, EvmP!Coins, Coins,
     SolP!Cardinality, EvmP!Cardinality, Cardinality, SolP!IsFiniteSet,
     EvmP!IsFiniteSet, IsFiniteSet
<1>2. \A t : SolP!Claimable(t) = Sol!Claimable(t)
  BY DEF SolP!Claimable, Sol!Claimable, SolP!Unspent, Sol!Unspent, SolP!InTree,
     Sol!InTree, SolP!Recorded, Sol!Recorded, SolP!Range, Sol!Range
<1>3. \A t : SolP!MintedFrom(t) =
               NotesOf({xpending[i].nullifier :
                          i \in {j \in DOMAIN xpending : xpending[j].minted}}, t)
  BY DEF SolP!MintedFrom, NotesOf
<1>4. \A R, t : EvmP!NotesOf(R, t) = NotesOf(R, t)
  BY DEF EvmP!NotesOf, NotesOf
<1>5. \A R, t : EvmP!Unspent(EvmP!InTree, R, t) = Unspent(Evm!InTree, R, t)
  BY DEF EvmP!Unspent, Unspent, EvmP!InTree, Evm!InTree, EvmP!Range, Evm!Range
<1> QED
  BY <1>1, <1>2, <1>3, <1>4, <1>5

(* The worth of two sets of nullifiers that overlap: P and what of Q is not in   *)
(* it are worth no more than Q and what else P may hold.                          *)
LEMMA NotesOfCovered ==
  ASSUME NEW Q, NEW E, NEW P, P \subseteq Q \cup E, NEW t
  PROVE  /\ Worth(NotesOf(P, t)) + Worth(NotesOf(Q \ P, t))
              <= Worth(NotesOf(Q, t)) + Worth(NotesOf(E, t))
         /\ Worth(NotesOf(P, t)) \in Nat /\ Worth(NotesOf(Q \ P, t)) \in Nat
<1> DEFINE both == P \cap Q
           only == P \ Q
           rest == Q \ P
           W(R) == Worth(NotesOf(R, t))
<1>1. \A X : \A R \in SUBSET X :
        W(X) = W(R) + W(X \ R) /\ W(R) \in Nat /\ W(X \ R) \in Nat
  BY NotesOfSplit
<1>2. /\ Q \ both = rest /\ P \ both = only
      /\ both \in SUBSET Q /\ both \in SUBSET P /\ only \in SUBSET E
  OBVIOUS
<1> HIDE DEF both, only, rest, W
<1>3. W(Q) = W(both) + W(rest) /\ W(both) \in Nat /\ W(rest) \in Nat
  BY <1>1, <1>2, Zenon
<1>4. W(P) = W(both) + W(only) /\ W(only) \in Nat
  BY <1>1, <1>2, Zenon
<1>5. W(E) = W(only) + W(E \ only) /\ W(E \ only) \in Nat
  BY <1>1, <1>2, Zenon
<1>6. W(P) + W(rest) <= W(Q) + W(E) /\ W(P) \in Nat
  BY <1>3, <1>4, <1>5
<1> QED
  BY <1>3, <1>6 DEF W, rest

(* Backing across the chains, for any number of notes, tokens, steps and claims  *)
(* submitted by anyone: with the vault's solvency, inflow = the notes minted on   *)
(* Solana, the EVM pool's backing and the links between burns, attestations and    *)
(* mints, the notes on both chains and on their way cancel down to the vault and    *)
(* what was minted without a burn, which is among the unfounded claims.              *)
THEOREM BridgeBacked == Spec => []BridgeIsBacked
<1>1. PoolFacts /\ LinkInvariant => BridgeIsBacked
  <2> SUFFICES ASSUME PoolFacts, LinkInvariant, NEW t \in Tokens
               PROVE  Worth(Sol!Claimable(t)) + Worth(Unspent(Evm!InTree, nullifierSpent, t))
                        + Worth(NotesOf(Outbound, t)) + Worth(NotesOf(Inbound, t))
                          <= balance[VaultAta[t]]
                               + Worth(NotesOf(NullifiersOf(unfoundedOnEvm), t))
                               + Worth(NotesOf(unfoundedOnSolana, t))
    BY DEF BridgeIsBacked
  <2> DEFINE M == {xpending[i].nullifier : i \in {j \in DOMAIN xpending : xpending[j].minted}}
             claims == Worth(Sol!Claimable(t))
             evmClaims == Worth(Unspent(Evm!InTree, nullifierSpent, t))
             vault == balance[VaultAta[t]]
  <2>1. claims + outflow[t] <= vault + inflow[t]
    BY WorthInPools DEF PoolFacts, SolP!Solvency
  <2>2. inflow[t] = Worth(NotesOf(M, t))
    BY WorthInPools DEF PoolFacts, SolP!InflowIsAttested
  <2>3. evmClaims + Worth(NotesOf(nullifierSpent, t)) <= Worth(NotesOf(minted, t))
    BY WorthInPools DEF PoolFacts, EvmP!PoolIsBacked
  <2>4. /\ Worth(NotesOf(M, t)) + Worth(NotesOf(Inbound, t)) <=
             Worth(NotesOf(nullifierSpent, t)) + Worth(NotesOf(unfoundedOnSolana, t))
        /\ Worth(NotesOf(M, t)) \in Nat /\ Worth(NotesOf(Inbound, t)) \in Nat
    <3>1. M \subseteq nullifierSpent \cup unfoundedOnSolana /\ Inbound = nullifierSpent \ M
      BY DEF LinkInvariant, Attested, Inbound
    <3> HIDE DEF M
    <3> QED
      BY <3>1, NotesOfCovered
  <2>5. /\ Worth(NotesOf(minted, t)) + Worth(NotesOf(Outbound, t)) <=
             Worth(NotesOf(Burned, t)) + Worth(NotesOf(NullifiersOf(unfoundedOnEvm), t))
        /\ Worth(NotesOf(minted, t)) \in Nat /\ Worth(NotesOf(Outbound, t)) \in Nat
    <3>1. minted \subseteq Burned \cup NullifiersOf(unfoundedOnEvm) /\ Outbound = Burned \ minted
      BY DEF LinkInvariant, Burned, Outbound
    <3> QED
      BY <3>1, NotesOfCovered
  <2>6. Worth(NotesOf(Burned, t)) <= outflow[t]
    BY DEF LinkInvariant
  <2>7. claims \in Nat /\ evmClaims \in Nat
    <3>1. sleaves \in Seq(Commitments) /\ eleaves \in Seq(Commitments)
      BY DEF PoolFacts, SolP!TypeOK, EvmP!TypeOK
    <3>2. /\ Sol!Claimable(t) \in SUBSET Commitments
          /\ Unspent(Evm!InTree, nullifierSpent, t) \in SUBSET Commitments
      BY <3>1 DEF Sol!Claimable, Sol!Unspent, Unspent, Sol!InTree, Evm!InTree, Sol!Range,
         Evm!Range
    <3> QED
      BY <3>2, WorthType
  <2>10. /\ Worth(NotesOf(nullifierSpent, t)) \in Nat /\ Worth(NotesOf(Burned, t)) \in Nat
         /\ Worth(NotesOf(NullifiersOf(unfoundedOnEvm), t)) \in Nat
         /\ Worth(NotesOf(unfoundedOnSolana, t)) \in Nat
    BY NotesOfSplit
  <2>8. vault \in Nat /\ outflow[t] \in Nat /\ inflow[t] \in Nat
    BY FactTypes
  <2> HIDE DEF M, claims, evmClaims, vault
  <2>9. claims + evmClaims + Worth(NotesOf(Outbound, t)) + Worth(NotesOf(Inbound, t))
          <= vault + Worth(NotesOf(NullifiersOf(unfoundedOnEvm), t))
               + Worth(NotesOf(unfoundedOnSolana, t))
    BY <2>1, <2>2, <2>3, <2>4, <2>5, <2>6, <2>7, <2>8, <2>10
  <2> QED
    BY <2>9 DEF claims, evmClaims, vault
<1> QED
  BY <1>1, PoolFactsHold, LinkHolds, PTL
=============================================================================
