-------------------------- MODULE OpaqProgramProofs --------------------------
(***************************************************************************)
(* Theorems about OpaqProgram, for every set of notes, every token, every   *)
(* ring size and every capacity.                                            *)
(***************************************************************************)
EXTENDS OpaqProgram, PoolLemmas, SequenceTheorems

(* A payment between two accounts keeps every balance a natural number.      *)
LEMMA SplTransferType ==
  ASSUME NEW source \in TokenAccounts, NEW dest \in TokenAccounts,
         NEW amount \in Nat, NEW authority,
         balance \in [TokenAccounts -> Nat],
         spl_transfer_ok(source, dest, authority, amount)
  PROVE  spl_transfer(source, dest, amount) \in [TokenAccounts -> Nat]
BY DEF spl_transfer, spl_transfer_ok

-----------------------------------------------------------------------------
(* Type correctness: whatever transactions are submitted, the accounts keep  *)
(* their layout, the counters stay within the tree's capacity and the        *)
(* accounts' size limits, and no token balance goes below zero.              *)
(* TypeOK alone is not inductive: initialize_pool resets next_index, which is  *)
(* harmless only because nothing was inserted before (EmptyUntilCreated).      *)
THEOREM TypeCorrect == Spec => [](TypeOK /\ EmptyUntilCreated)
<1>1. Init => TypeOK /\ EmptyUntilCreated
  <2> SUFFICES ASSUME Init PROVE TypeOK /\ EmptyUntilCreated
    OBVIOUS
  <2>1. pool \in BOOLEAN /\ xburn_operator \in Signers \cup {NoOperator}
    BY Zenon DEF Init
  <2>2. tree \in TreeAccount /\ Len(leaves) = tree.next_index
    BY NoTreeRing DEF Init
  <2>3. /\ nullifiers \in Seq(Nullifiers) /\ Len(nullifiers) <= MaxNullifiers
        /\ xpending \in Seq(PendingEntry) /\ Len(xpending) <= MaxPending
        /\ leaves \in Seq(Commitments)
    BY LimitAssumption DEF Init
  <2>4. /\ balance \in [TokenAccounts -> Nat]
        /\ outflow \in [Tokens -> Nat] /\ inflow \in [Tokens -> Nat]
    BY AccountAssumption DEF Init
  <2>5. EmptyUntilCreated
    BY NoTreeRing DEF Init, EmptyUntilCreated
  <2> QED
    BY <2>1, <2>2, <2>3, <2>4, <2>5 DEF TypeOK
<1>2. TypeOK /\ EmptyUntilCreated /\ [Next]_vars => TypeOK'
  <2> SUFFICES ASSUME TypeOK, EmptyUntilCreated, [Next]_vars PROVE TypeOK'
    OBVIOUS
  <2> USE DEF TypeOK
  <2>1. CASE initialize_pool
    <3>1. pool' \in BOOLEAN
      BY <2>1, Zenon DEF initialize_pool
    <3>2. tree' \in TreeAccount /\ Len(leaves') = tree'.next_index
      BY <2>1, EmptyTreeRing DEF initialize_pool, EmptyUntilCreated
    <3>3. nullifiers' \in Seq(Nullifiers) /\ Len(nullifiers') <= MaxNullifiers
      BY <2>1, LimitAssumption DEF initialize_pool
    <3> QED
      BY <2>1, <3>1, <3>2, <3>3 DEF initialize_pool
  <2>2. CASE Deposit
    <3> PICK s \in Signers, a, v \in TokenAccounts, t \in Tokens, m \in Amounts,
             c \in Commitments : deposit(s, a, v, t, m, c)
      BY <2>2 DEF Deposit
    <3>1. balance' \in [TokenAccounts -> Nat]
      <4>1. m \in Nat
        BY NoteAssumption DEF Amounts
      <4>2. spl_transfer_ok(a, v, s, m) /\ balance' = spl_transfer(a, v, m)
        BY DEF deposit
      <4> QED
        BY <4>1, <4>2, SplTransferType
    <3>2. tree' \in TreeAccount /\ tree'.next_index = tree.next_index + 1
      BY InsertType DEF deposit
    <3>3. leaves' \in Seq(Commitments) /\ Len(leaves') = Len(leaves) + 1
      BY DEF deposit
    <3> QED
      BY <3>1, <3>2, <3>3 DEF deposit
  <2>3. CASE Withdraw
    <3> PICK v, a \in TokenAccounts, c \in Commitments, r \in Roots, t \in Tokens,
             m \in Amounts :
               withdraw(v, a, c, r, NullifierOf[c], t, m, OwnerOf[a])
      BY <2>3 DEF Withdraw
    <3>1. balance' \in [TokenAccounts -> Nat]
      <4>1. m \in Nat
        BY NoteAssumption DEF Amounts
      <4>2. spl_transfer_ok(v, a, VaultAuthority[t], m)
        BY DEF withdraw, withdraw_checks
      <4>3. balance' = spl_transfer(v, a, m)
        BY DEF withdraw
      <4> QED
        BY <4>1, <4>2, <4>3, SplTransferType
    <3>2. nullifiers' \in Seq(Nullifiers) /\ Len(nullifiers') <= MaxNullifiers
      BY NoteTypes, LimitAssumption DEF withdraw, withdraw_checks, fits
    <3> QED
      BY <3>1, <3>2 DEF withdraw
  <2>4. CASE Transfer
    <3> PICK i0, i1, c0, c1 \in Commitments, r \in Roots :
               transfer(i0, i1, r, NullifierOf[i0], NullifierOf[i1], c0, c1)
      BY <2>4 DEF Transfer
    <3>1. tree' \in TreeAccount /\ tree'.next_index = tree.next_index + 2
      <4>1. /\ tree_insert(tree) \in TreeAccount
            /\ tree_insert(tree).next_index = tree.next_index + 1
        BY InsertType DEF transfer
      <4>2. /\ tree_insert(tree_insert(tree)) \in TreeAccount
            /\ tree_insert(tree_insert(tree)).next_index
                 = tree_insert(tree).next_index + 1
        BY <4>1, InsertType DEF transfer
      <4> QED
        BY <4>1, <4>2 DEF transfer, TreeAccount
    <3>2. leaves' \in Seq(Commitments) /\ Len(leaves') = Len(leaves) + 2
      BY DEF transfer
    <3>3. nullifiers' \in Seq(Nullifiers) /\ Len(nullifiers') <= MaxNullifiers
      BY NoteTypes, LimitAssumption DEF transfer, fits
    <3> QED
      BY <3>1, <3>2, <3>3 DEF transfer
  <2>5. CASE Burn
    <3> PICK c \in Commitments, r \in Roots, t \in Tokens, m \in Amounts :
               burn(c, r, NullifierOf[c], t, m)
      BY <2>5 DEF Burn
    <3>1. nullifiers' \in Seq(Nullifiers) /\ Len(nullifiers') <= MaxNullifiers
      BY NoteTypes, LimitAssumption DEF burn, fits
    <3>2. outflow' \in [Tokens -> Nat]
      BY NoteAssumption DEF burn, Amounts
    <3> QED
      BY <3>1, <3>2 DEF burn
  <2>6. CASE InitializeXburnPending
    BY <2>6, LimitAssumption DEF InitializeXburnPending, initialize_xburn_pending
  <2>7. CASE AddPendingXburn
    <3> PICK s \in Signers, nf \in Nullifiers, d \in Chains, c \in Commitments :
               add_pending_xburn(s, nf, d, c)
      BY <2>7 DEF AddPendingXburn
    <3>1. [nullifier |-> nf, expected_hash |-> hash2(d, c), minted |-> FALSE]
            \in PendingEntry
      BY DEF PendingEntry, hash2
    <3>2. xpending' \in Seq(PendingEntry) /\ Len(xpending') <= MaxPending
      BY <3>1, LimitAssumption DEF add_pending_xburn
    <3> QED
      BY <3>2 DEF add_pending_xburn
  <2>8. CASE MintFromXburn
    <3> PICK src, c \in Commitments, d \in Chains :
               mint_from_xburn(src, NullifierOf[src], d, c)
      BY <2>8 DEF MintFromXburn
    <3>1. xpending' \in Seq(PendingEntry) /\ Len(xpending') = Len(xpending)
      <4> PICK i \in DOMAIN xpending :
                 xpending' = [xpending EXCEPT ![i].minted = TRUE]
        BY DEF mint_from_xburn, xpending_find
      <4>1. xpending[i] \in PendingEntry
        OBVIOUS
      <4>2. [xpending[i] EXCEPT !.minted = TRUE] \in PendingEntry
        BY <4>1, Zenon DEF PendingEntry
      <4> QED
        BY <4>2
    <3>2. tree' \in TreeAccount /\ tree'.next_index = tree.next_index + 1
      BY InsertType DEF mint_from_xburn
    <3>3. leaves' \in Seq(Commitments) /\ Len(leaves') = Len(leaves) + 1
      BY DEF mint_from_xburn
    <3>4. inflow' \in [Tokens -> Nat]
      BY NoteTypes DEF mint_from_xburn
    <3> QED
      BY <3>1, <3>2, <3>3, <3>4 DEF mint_from_xburn
  <2>9. CASE Xburn
    <3> PICK src, c \in Commitments, r \in Roots : xburn(r, src, NullifierOf[src], c)
      BY <2>9 DEF Xburn
    <3>1. nullifiers' \in Seq(Nullifiers) /\ Len(nullifiers') <= MaxNullifiers
      BY NoteTypes, LimitAssumption DEF xburn, fits
    <3>2. outflow' \in [Tokens -> Nat]
      BY NoteTypes DEF xburn
    <3> QED
      BY <3>1, <3>2 DEF xburn
  <2>10. CASE SplSend
    <3> PICK s \in Signers, a, b \in TokenAccounts, m \in Amounts :
               spl_send(s, a, b, m)
      BY <2>10 DEF SplSend
    <3>1. m \in Nat
      BY NoteAssumption DEF Amounts
    <3>2. balance' \in [TokenAccounts -> Nat]
      BY <3>1, SplTransferType DEF spl_send
    <3> QED
      BY <3>2 DEF spl_send
  <2>11. CASE UNCHANGED vars
    BY <2>11 DEF vars
  <2> QED
    BY <2>1, <2>2, <2>3, <2>4, <2>5, <2>6, <2>7, <2>8, <2>9, <2>10, <2>11 DEF Next
<1>3. TypeOK /\ EmptyUntilCreated /\ [Next]_vars => EmptyUntilCreated'
  <2> SUFFICES ASSUME TypeOK, EmptyUntilCreated, [Next]_vars
               PROVE  EmptyUntilCreated'
    OBVIOUS
  <2> USE DEF EmptyUntilCreated
  <2>1. CASE initialize_pool
    BY <2>1 DEF initialize_pool
  <2>2. CASE Deposit
    BY <2>2 DEF Deposit, deposit
  <2>3. CASE Withdraw
    BY <2>3 DEF Withdraw, withdraw, withdraw_checks
  <2>4. CASE Transfer
    BY <2>4 DEF Transfer, transfer
  <2>5. CASE Burn
    BY <2>5 DEF Burn, burn
  <2>6. CASE InitializeXburnPending
    BY <2>6, AccountAssumption DEF InitializeXburnPending, initialize_xburn_pending
  <2>7. CASE AddPendingXburn
    BY <2>7, AccountAssumption DEF AddPendingXburn, add_pending_xburn
  <2>8. CASE MintFromXburn
    BY <2>8 DEF MintFromXburn, mint_from_xburn, xpending_find, TypeOK
  <2>9. CASE Xburn
    BY <2>9 DEF Xburn, xburn
  <2>10. CASE SplSend
    BY <2>10 DEF SplSend, spl_send
  <2>11. CASE UNCHANGED vars
    BY <2>11 DEF vars
  <2> QED
    BY <2>1, <2>2, <2>3, <2>4, <2>5, <2>6, <2>7, <2>8, <2>9, <2>10, <2>11 DEF Next
<1> QED
  BY <1>1, <1>2, <1>3, PTL DEF Spec

-----------------------------------------------------------------------------
(* Slot by slot, the ring is what its counters say: the slot that was written *)
(* k insertions ago holds the root of the prefix k leaves shorter.            *)
LEMMA RingInvariantHolds == Spec => []RingInvariant
<1>1. Init => RingInvariant
  BY DEF Init, RingInvariant
<1>2. TypeOK /\ EmptyUntilCreated /\ RingInvariant /\ [Next]_vars => RingInvariant'
  <2> SUFFICES ASSUME TypeOK, EmptyUntilCreated, RingInvariant, [Next]_vars
               PROVE  RingInvariant'
    OBVIOUS
  <2> USE DEF RingInvariant
  <2>0. tree \in TreeAccount
    BY DEF TypeOK
  <2>1. CASE initialize_pool
    <3>1. RingHolds(tree')
      BY <2>1, EmptyTreeRing DEF initialize_pool
    <3> QED
      BY <2>1, <3>1 DEF initialize_pool, RingHolds
  <2>2. CASE Deposit
    <3> PICK s \in Signers, a, v \in TokenAccounts, t \in Tokens, m \in Amounts,
             c \in Commitments : deposit(s, a, v, t, m, c)
      BY <2>2 DEF Deposit
    <3>1. RingHolds(tree_insert(tree))
      BY <2>0, InsertRing DEF deposit
    <3> QED
      BY <3>1 DEF deposit, RingHolds
  <2>3. CASE Withdraw
    BY <2>3 DEF Withdraw, withdraw, RingHolds
  <2>4. CASE Transfer
    <3> PICK i0, i1, c0, c1 \in Commitments, r \in Roots :
               transfer(i0, i1, r, NullifierOf[i0], NullifierOf[i1], c0, c1)
      BY <2>4 DEF Transfer
    <3>1. RingHolds(tree_insert(tree)) /\ tree_insert(tree) \in TreeAccount
      BY <2>0, InsertRing, InsertType DEF transfer
    <3>2. RingHolds(tree_insert(tree_insert(tree)))
      BY <3>1, InsertRing DEF transfer
    <3> QED
      BY <3>2 DEF transfer, RingHolds
  <2>5. CASE Burn
    BY <2>5 DEF Burn, burn, RingHolds
  <2>6. CASE InitializeXburnPending
    BY <2>6 DEF InitializeXburnPending, initialize_xburn_pending, RingHolds
  <2>7. CASE AddPendingXburn
    BY <2>7 DEF AddPendingXburn, add_pending_xburn, RingHolds
  <2>8. CASE MintFromXburn
    <3> PICK src, c \in Commitments, d \in Chains :
               mint_from_xburn(src, NullifierOf[src], d, c)
      BY <2>8 DEF MintFromXburn
    <3>1. RingHolds(tree_insert(tree))
      BY <2>0, InsertRing DEF mint_from_xburn
    <3> QED
      BY <3>1 DEF mint_from_xburn, RingHolds
  <2>9. CASE Xburn
    BY <2>9 DEF Xburn, xburn, RingHolds
  <2>10. CASE SplSend
    BY <2>10 DEF SplSend, spl_send, RingHolds
  <2>11. CASE UNCHANGED vars
    BY <2>11 DEF vars, RingHolds
  <2> QED
    BY <2>1, <2>2, <2>3, <2>4, <2>5, <2>6, <2>7, <2>8, <2>9, <2>10, <2>11 DEF Next
<1> QED
  BY <1>1, <1>2, TypeCorrect, PTL DEF Spec

(* A client may prove against the current root or any of its ROOT_HISTORY - 1 *)
(* predecessors, and against nothing else: for every ring size, through every *)
(* wrap, and with two slots taken by each transfer.                           *)
THEOREM RecentRoots == Spec => []RecentRootsAccepted
<1>1. TypeOK /\ RingInvariant => RecentRootsAccepted
  <2> SUFFICES ASSUME TypeOK, RingInvariant PROVE RecentRootsAccepted
    OBVIOUS
  <2>1. CASE pool
    BY <2>1, RingAccepts DEF TypeOK, RingInvariant, RecentRootsAccepted
  <2>2. CASE ~pool
    BY <2>2, NoTreeRing DEF RingInvariant, RecentRootsAccepted
  <2> QED
    BY <2>1, <2>2
<1> QED
  BY <1>1, RingInvariantHolds, TypeCorrect, PTL

(* An instruction that leaves the tree account alone leaves the log alone.    *)
LEMMA TreeAlone ==
  ASSUME UNCHANGED tree
  PROVE  UNCHANGED Log!logVars
BY DEF Log!logVars, AcceptedRoots, is_known_root

(* The program implements the log of recent roots: initialize_pool creates    *)
(* it, deposit and mint_from_xburn publish one leaf, transfer publishes two   *)
(* in one step, and no other instruction touches it.                          *)
THEOREM RefinesRootLog == Spec => ImplementsRootLog
<1>1. Init => Log!LogInit
  BY NoTreeRing DEF Init, Log!LogInit
<1>2. /\ TypeOK /\ EmptyUntilCreated /\ RecentRootsAccepted /\ RecentRootsAccepted'
      /\ [Next]_vars
      => [Log!LogNext]_(Log!logVars)
  <2> SUFFICES ASSUME TypeOK, EmptyUntilCreated, RecentRootsAccepted,
                      RecentRootsAccepted', [Next]_vars
               PROVE  Log!LogNext \/ UNCHANGED Log!logVars
    OBVIOUS
  <2>0. tree \in TreeAccount /\ tree.next_index \in Nat
    BY BoundAssumption DEF TypeOK, TreeAccount
  <2>a. /\ AcceptedRoots(tree) = IF pool THEN Recent(tree.next_index) ELSE {}
        /\ AcceptedRoots(tree)' = IF pool' THEN Recent(tree'.next_index) ELSE {}
    BY DEF RecentRootsAccepted, Recent
  <2>b. tree.next_index \in Recent(tree.next_index)
    BY <2>0, BoundAssumption DEF Recent
  <2>c. ASSUME NEW k \in 1..2, pool, pool', tree'.next_index = tree.next_index + k,
               tree'.next_index <= Capacity
        PROVE  Log!LogNext
    <3>1. AcceptedRoots(tree) # {} /\ AcceptedRoots(tree)' = Recent(tree.next_index + k)
      BY <2>a, <2>b, <2>c
    <3>2. Log!Publish(k)
      BY <2>c, <3>1 DEF Log!Publish, Log!Recent, Recent
    <3> QED
      BY <3>2 DEF Log!LogNext
  <2>1. CASE initialize_pool
    <3>1. tree.next_index = 0 /\ tree'.next_index = 0 /\ ~pool /\ pool'
      BY <2>1, EmptyTreeRing DEF initialize_pool, EmptyUntilCreated
    <3>2. Recent(0) = {0}
      BY BoundAssumption DEF Recent
    <3>3. AcceptedRoots(tree) = {} /\ AcceptedRoots(tree)' = {0}
      BY <2>a, <3>1, <3>2
    <3> QED
      BY <3>1, <3>3 DEF Log!LogNext, Log!Create
  <2>2. CASE Deposit
    <3> PICK s \in Signers, a, v \in TokenAccounts, t \in Tokens, m \in Amounts,
             c \in Commitments : deposit(s, a, v, t, m, c)
      BY <2>2 DEF Deposit
    <3>1. tree' = tree_insert(tree) /\ has_room(tree) /\ pool /\ pool'
      BY DEF deposit
    <3>2. tree'.next_index = tree.next_index + 1
      BY <3>1, <2>0, InsertType
    <3>3. tree'.next_index <= Capacity
      BY <3>1, <3>2, <2>0, BoundAssumption DEF has_room
    <3> QED
      BY <3>1, <3>2, <3>3, <2>c
  <2>3. CASE Withdraw
    BY <2>3, TreeAlone DEF Withdraw, withdraw
  <2>4. CASE Transfer
    <3> PICK i0, i1, c0, c1 \in Commitments, r \in Roots :
               transfer(i0, i1, r, NullifierOf[i0], NullifierOf[i1], c0, c1)
      BY <2>4 DEF Transfer
    <3>1. /\ tree' = tree_insert(tree_insert(tree))
          /\ has_room(tree) /\ has_room(tree_insert(tree)) /\ pool /\ pool'
      BY DEF transfer
    <3>2. /\ tree_insert(tree) \in TreeAccount
          /\ tree_insert(tree).next_index = tree.next_index + 1
      BY <3>1, <2>0, InsertType
    <3>3. tree'.next_index = tree.next_index + 2
      BY <3>1, <3>2, <2>0, InsertType
    <3>4. tree'.next_index <= Capacity
      BY <3>1, <3>2, <3>3, <2>0, BoundAssumption DEF has_room
    <3> QED
      BY <3>1, <3>3, <3>4, <2>c
  <2>5. CASE Burn
    BY <2>5, TreeAlone DEF Burn, burn
  <2>6. CASE InitializeXburnPending
    BY <2>6, TreeAlone DEF InitializeXburnPending, initialize_xburn_pending
  <2>7. CASE AddPendingXburn
    BY <2>7, TreeAlone DEF AddPendingXburn, add_pending_xburn
  <2>8. CASE MintFromXburn
    <3> PICK src, c \in Commitments, d \in Chains :
               mint_from_xburn(src, NullifierOf[src], d, c)
      BY <2>8 DEF MintFromXburn
    <3>1. tree' = tree_insert(tree) /\ has_room(tree) /\ pool /\ pool'
      BY DEF mint_from_xburn
    <3>2. tree'.next_index = tree.next_index + 1
      BY <3>1, <2>0, InsertType
    <3>3. tree'.next_index <= Capacity
      BY <3>1, <3>2, <2>0, BoundAssumption DEF has_room
    <3> QED
      BY <3>1, <3>2, <3>3, <2>c
  <2>9. CASE Xburn
    BY <2>9, TreeAlone DEF Xburn, xburn
  <2>10. CASE SplSend
    BY <2>10, TreeAlone DEF SplSend, spl_send
  <2>11. CASE UNCHANGED vars
    BY <2>11, TreeAlone DEF vars
  <2> QED
    BY <2>1, <2>2, <2>3, <2>4, <2>5, <2>6, <2>7, <2>8, <2>9, <2>10, <2>11 DEF Next
<1> QED
  BY <1>1, <1>2, TypeCorrect, RecentRoots, PTL DEF Spec, ImplementsRootLog, Log!LogSpec

-----------------------------------------------------------------------------
(* No double spend: withdraw, transfer, burn and xburn share one nullifier    *)
(* set, in which no nullifier is ever recorded a second time.                 *)
THEOREM NoDoubleSpend == Spec => []NullifiersRecordedOnce
<1>1. Init => NullifiersRecordedOnce
  BY DEF Init, NullifiersRecordedOnce
<1>2. TypeOK /\ NullifiersRecordedOnce /\ [Next]_vars => NullifiersRecordedOnce'
  <2> SUFFICES ASSUME TypeOK, NullifiersRecordedOnce, [Next]_vars
               PROVE  NullifiersRecordedOnce'
    OBVIOUS
  <2> USE DEF NullifiersRecordedOnce
  <2>0. nullifiers \in Seq(Nullifiers)
    BY DEF TypeOK
  <2>1. CASE initialize_pool
    BY <2>1 DEF initialize_pool
  <2>2. CASE Deposit
    BY <2>2 DEF Deposit, deposit
  <2>3. CASE Withdraw
    BY <2>0, <2>3, NoteTypes
    DEF Withdraw, withdraw, withdraw_checks, nullifier_contains
  <2>4. CASE Transfer
    BY <2>0, <2>4, NoteTypes DEF Transfer, transfer, nullifier_contains
  <2>5. CASE Burn
    BY <2>0, <2>5, NoteTypes DEF Burn, burn, nullifier_contains
  <2>6. CASE InitializeXburnPending
    BY <2>6 DEF InitializeXburnPending, initialize_xburn_pending
  <2>7. CASE AddPendingXburn
    BY <2>7 DEF AddPendingXburn, add_pending_xburn
  <2>8. CASE MintFromXburn
    BY <2>8 DEF MintFromXburn, mint_from_xburn
  <2>9. CASE Xburn
    BY <2>0, <2>9, NoteTypes DEF Xburn, xburn, nullifier_contains
  <2>10. CASE SplSend
    BY <2>10 DEF SplSend, spl_send
  <2>11. CASE UNCHANGED vars
    BY <2>11 DEF vars
  <2> QED
    BY <2>1, <2>2, <2>3, <2>4, <2>5, <2>6, <2>7, <2>8, <2>9, <2>10, <2>11 DEF Next
<1> QED
  BY <1>1, <1>2, TypeCorrect, PTL DEF Spec

-----------------------------------------------------------------------------
(* AppendElements, for the leaves and the recorded nullifiers.               *)
LEMMA Grow ==
  ASSUME TypeOK
  PROVE  /\ \A c \in Commitments :
              leaves' = Append(leaves, c) => InTree' = InTree \cup {c}
         /\ \A c, d \in Commitments :
              leaves' = leaves \o <<c, d>> => InTree' = (InTree \cup {c}) \cup {d}
         /\ \A x \in Nullifiers :
              nullifiers' = Append(nullifiers, x) => Recorded' = Recorded \cup {x}
         /\ \A x, y \in Nullifiers :
              nullifiers' = nullifiers \o <<x, y>> =>
                Recorded' = (Recorded \cup {x}) \cup {y}
<1>1. leaves \in Seq(Commitments) /\ nullifiers \in Seq(Nullifiers)
  BY DEF TypeOK
<1>2. ASSUME NEW c \in Commitments, leaves' = Append(leaves, c)
      PROVE  InTree' = InTree \cup {c}
  <2>1. InTree' = Range(Append(leaves, c)) /\ InTree = Range(leaves)
    BY <1>2 DEF InTree
  <2> QED
    BY <1>1, <2>1, AppendElements
<1>3. ASSUME NEW c \in Commitments, NEW d \in Commitments, leaves' = leaves \o <<c, d>>
      PROVE  InTree' = (InTree \cup {c}) \cup {d}
  <2>1. InTree' = Range(leaves \o <<c, d>>) /\ InTree = Range(leaves)
    BY <1>3 DEF InTree
  <2> QED
    BY <1>1, <2>1, AppendTwoElements
<1>4. ASSUME NEW x \in Nullifiers, nullifiers' = Append(nullifiers, x)
      PROVE  Recorded' = Recorded \cup {x}
  <2>1. Recorded' = Range(Append(nullifiers, x)) /\ Recorded = Range(nullifiers)
    BY <1>4 DEF Recorded
  <2> QED
    BY <1>1, <2>1, AppendElements
<1>5. ASSUME NEW x \in Nullifiers, NEW y \in Nullifiers,
             nullifiers' = nullifiers \o <<x, y>>
      PROVE  Recorded' = (Recorded \cup {x}) \cup {y}
  <2>1. Recorded' = Range(nullifiers \o <<x, y>>) /\ Recorded = Range(nullifiers)
    BY <1>5 DEF Recorded
  <2> QED
    BY <1>1, <2>1, AppendTwoElements
<1> QED
  BY <1>2, <1>3, <1>4, <1>5

(* The leaves under a root are leaves of the tree.                            *)
LEMMA MembersInTree ==
  ASSUME TypeOK, NEW r \in Roots
  PROVE  Members(r) \subseteq InTree
<1>1. /\ DOMAIN leaves = 1..Len(leaves) /\ Len(leaves) \in Nat
      /\ r \in 0..Len(leaves)
  BY DEF TypeOK, Roots
<1>2. 1..r \subseteq DOMAIN leaves
  BY <1>1
<1> QED
  BY <1>2 DEF Members, InTree, Range

(* Every leaf is a commitment.                                                 *)
LEMMA InTreeType ==
  ASSUME TypeOK
  PROVE  InTree \in SUBSET Commitments
BY DEF TypeOK, InTree, Range

(* A payment out of an account that a signer owns never lowers a vault, and   *)
(* a vault that it goes to gains all of it.                                   *)
LEMMA PaymentIn ==
  ASSUME TypeOK, NEW s \in Signers, NEW a \in TokenAccounts, NEW b \in TokenAccounts,
         NEW m \in Nat, spl_transfer_ok(a, b, s, m), NEW t \in Tokens
  PROVE  /\ spl_transfer(a, b, m)[VaultAta[t]] >= balance[VaultAta[t]]
         /\ b = VaultAta[t] =>
              spl_transfer(a, b, m)[VaultAta[t]] = balance[VaultAta[t]] + m
<1>1. a # VaultAta[t]
  BY AccountAssumption DEF spl_transfer_ok
<1>2. VaultAta[t] \in TokenAccounts /\ balance \in [TokenAccounts -> Nat]
  BY AccountAssumption DEF TypeOK
<1> QED
  BY <1>1, <1>2 DEF spl_transfer

(* A payment out of the vault of token u lowers that vault by at most the     *)
(* amount paid, and no other vault at all.                                    *)
LEMMA PaymentOut ==
  ASSUME TypeOK, NEW u \in Tokens, NEW b \in TokenAccounts, NEW m \in Nat,
         spl_transfer_ok(VaultAta[u], b, VaultAuthority[u], m), NEW t \in Tokens
  PROVE  /\ t = u => spl_transfer(VaultAta[u], b, m)[VaultAta[t]] + m
                       >= balance[VaultAta[t]]
         /\ t # u => spl_transfer(VaultAta[u], b, m)[VaultAta[t]]
                       = balance[VaultAta[t]]
<1>1. /\ VaultAta[t] \in TokenAccounts /\ VaultAta[u] \in TokenAccounts
      /\ MintOf[VaultAta[t]] = t /\ MintOf[VaultAta[u]] = u
      /\ balance \in [TokenAccounts -> Nat]
      /\ MintOf[b] = u
  BY AccountAssumption DEF TypeOK, spl_transfer_ok
<1>2. t # u => VaultAta[t] # VaultAta[u] /\ VaultAta[t] # b
  BY <1>1
<1> QED
  BY <1>1, <1>2 DEF spl_transfer

-----------------------------------------------------------------------------
(* Solvency, for any number of notes, tokens and transactions: what the notes *)
(* in the tree can still claim, plus what was burned for other chains, never  *)
(* exceeds the canonical vault plus what was minted from other chains.  Each  *)
(* spend must hit an unspent leaf of its own token (ClaimSpend); the dummy    *)
(* inputs of a transfer are worth nothing; vaults lose tokens by withdraw     *)
(* alone (PaymentIn, PaymentOut).                                             *)
THEOREM Solvent == Spec => []Solvency
<1> DEFINE Claims(t) == Worth(Claimable(t))
           Vault(t) == balance[VaultAta[t]]
<1>1. Init => Solvency
  <2> SUFFICES ASSUME Init, NEW t \in Tokens
               PROVE  Claims(t) + outflow[t] <= Vault(t) + inflow[t]
    BY DEF Solvency
  <2>1. Claimable(t) = {}
    BY DEF Init, Claimable, Unspent, InTree, Range
  <2>2. Claims(t) = 0
    <3>1. Coins({}) = {}
      BY DEF Coins
    <3> QED
      BY <2>1, <3>1, FS_EmptySet DEF Worth
  <2>3. Vault(t) \in Nat /\ outflow[t] = 0 /\ inflow[t] = 0
    BY AccountAssumption DEF Init
  <2> QED
    BY <2>2, <2>3
<1>2. TypeOK /\ EmptyUntilCreated /\ TypeOK' /\ Solvency /\ [Next]_vars => Solvency'
  <2> SUFFICES ASSUME TypeOK, EmptyUntilCreated, TypeOK', Solvency, [Next]_vars,
                      NEW t \in Tokens
               PROVE  (Claims(t) + outflow[t] <= Vault(t) + inflow[t])'
    BY DEF Solvency
  <2> DEFINE T == InTree
             R == Recorded
  <2>a. T \in SUBSET Commitments /\ T' \in SUBSET Commitments
    <3>1. T' \in SUBSET Commitments
      BY DEF TypeOK, InTree, Range
    <3> QED
      BY <3>1, InTreeType
  <2>b. /\ Claims(t) = Worth(Unspent(T, R, t))
        /\ Claims(t)' = Worth(Unspent(T', R', t))
    BY DEF Claimable
  <2>c. /\ Claims(t) \in Nat /\ Claims(t)' \in Nat
        /\ \A X \in SUBSET Commitments : \A Y : Worth(Unspent(X, Y, t)) \in Nat
    <3>1. \A X \in SUBSET Commitments : \A Y : Unspent(X, Y, t) \in SUBSET Commitments
      BY DEF Unspent
    <3>2. \A X \in SUBSET Commitments : \A Y : Worth(Unspent(X, Y, t)) \in Nat
      BY <3>1, WorthType
    <3> QED
      BY <2>a, <2>b, <3>2
  <2>d. /\ outflow[t] \in Nat /\ inflow[t] \in Nat /\ Vault(t) \in Nat
        /\ outflow'[t] \in Nat /\ inflow'[t] \in Nat /\ Vault(t)' \in Nat
    BY AccountAssumption DEF TypeOK
  <2>e. Claims(t) + outflow[t] <= Vault(t) + inflow[t]
    BY DEF Solvency
  <2>f. \A c \in Commitments : ValueIn(c, t) \in Nat
    BY NoteTypes DEF ValueIn
  <2> HIDE DEF Claims, Vault, T, R
  <2>1. CASE initialize_pool
    <3>1. T' = T /\ R' = R
      <4>1. nullifiers' = nullifiers /\ leaves' = leaves
        BY <2>1, EmptyTreeRing DEF initialize_pool, EmptyUntilCreated, TypeOK
      <4> QED
        BY <4>1 DEF T, R, InTree, Recorded
    <3>2. Vault(t)' = Vault(t) /\ outflow' = outflow /\ inflow' = inflow
      BY <2>1 DEF initialize_pool, Vault
    <3> QED
      BY <2>b, <2>e, <3>1, <3>2
  <2>2. CASE Deposit
    <3> PICK s \in Signers, a, v \in TokenAccounts, u \in Tokens, m \in Amounts,
             c \in Commitments : deposit(s, a, v, u, m, c)
      BY <2>2 DEF Deposit
    <3>1. T' = T \cup {c} /\ R' = R
      <4>1. leaves' = Append(leaves, c) /\ nullifiers' = nullifiers
        BY DEF deposit
      <4> QED
        BY <4>1, Grow DEF T, R, Recorded
    <3>2. Claims(t)' <= Claims(t) + ValueIn(c, t)
      BY <2>a, <2>b, <3>1, ClaimInsert
    <3>3. m \in Nat /\ TokenOf[c] = u /\ AmountOf[c] = m
      BY NoteAssumption DEF deposit, deposit_circuit, Amounts
    <3>4. Vault(t)' >= Vault(t) + ValueIn(c, t)
      <4>1. spl_transfer_ok(a, v, s, m) /\ balance' = spl_transfer(a, v, m)
        BY DEF deposit
      <4>2. v = VaultAta[u]
        BY DEF deposit, check_vault
      <4>3. /\ Vault(t)' >= Vault(t)
            /\ t = u => Vault(t)' = Vault(t) + m
        BY <3>3, <4>1, <4>2, PaymentIn DEF Vault
      <4> QED
        BY <2>d, <3>3, <4>3 DEF ValueIn
    <3>5. outflow' = outflow /\ inflow' = inflow
      BY DEF deposit
    <3> QED
      BY <2>c, <2>d, <2>e, <2>f, <3>2, <3>4, <3>5
  <2>3. CASE Withdraw
    <3> PICK v, a \in TokenAccounts, c \in Commitments, r \in Roots, u \in Tokens,
             m \in Amounts :
               withdraw(v, a, c, r, NullifierOf[c], u, m, OwnerOf[a])
      BY <2>3 DEF Withdraw
    <3>1. T' = T /\ R' = R \cup {NullifierOf[c]}
      <4>1. leaves' = leaves /\ nullifiers' = Append(nullifiers, NullifierOf[c])
        BY DEF withdraw
      <4> QED
        BY <4>1, Grow, NoteTypes DEF T, R, InTree
    <3>2. c \in T /\ NullifierOf[c] \notin R /\ TokenOf[c] = u /\ AmountOf[c] = m
      BY MembersInTree
      DEF withdraw, withdraw_checks, withdraw_circuit, nullifier_contains, T, R, Recorded, Range
    <3>3. Claims(t)' + ValueIn(c, t) <= Claims(t)
      BY <2>a, <2>b, <3>1, <3>2, ClaimSpend
    <3>4. Vault(t)' + ValueIn(c, t) >= Vault(t)
      <4>1. /\ spl_transfer_ok(v, a, VaultAuthority[u], m)
            /\ balance' = spl_transfer(v, a, m)
            /\ v = VaultAta[u]
        BY DEF withdraw, withdraw_checks, check_vault
      <4>2. m \in Nat
        BY NoteAssumption DEF Amounts
      <4>3. /\ t = u => Vault(t)' + m >= Vault(t)
            /\ t # u => Vault(t)' = Vault(t)
        BY <4>1, <4>2, PaymentOut DEF Vault
      <4> QED
        BY <2>d, <3>2, <4>2, <4>3 DEF ValueIn
    <3>5. outflow' = outflow /\ inflow' = inflow
      BY DEF withdraw
    <3> QED
      BY <2>c, <2>d, <2>e, <2>f, <3>3, <3>4, <3>5
  <2>4. CASE Transfer
    <3> PICK i0, i1, c0, c1 \in Commitments, r \in Roots :
               transfer(i0, i1, r, NullifierOf[i0], NullifierOf[i1], c0, c1)
      BY <2>4 DEF Transfer
    <3> DEFINE n0 == NullifierOf[i0]
               n1 == NullifierOf[i1]
               R1 == R \cup {n0}
    <3>1. R' = R1 \cup {n1}
      <4>1. nullifiers' = nullifiers \o <<n0, n1>>
        BY DEF transfer
      <4> QED
        BY <4>1, Grow, NoteTypes DEF R
    <3>2. T' = (T \cup {c0}) \cup {c1}
      <4>1. leaves' = leaves \o <<c0, c1>>
        BY DEF transfer
      <4> QED
        BY <4>1, Grow DEF T
    <3>3. /\ i0 \in T \/ AmountOf[i0] = 0
          /\ i1 \in T \/ AmountOf[i1] = 0
      BY MembersInTree DEF transfer, transfer_circuit, T
    <3>4. n0 \notin R /\ n1 \notin R1
      BY DEF transfer, nullifier_contains, R, Recorded, Range
    <3>5. Worth(Unspent(T, R1, t)) + ValueIn(i0, t) <= Worth(Unspent(T, R, t))
      BY <2>a, <3>3, <3>4, ClaimSpend
    <3>6. Worth(Unspent(T, R1 \cup {n1}, t)) + ValueIn(i1, t)
            <= Worth(Unspent(T, R1, t))
      BY <2>a, <3>3, <3>4, ClaimSpend
    <3>7. Worth(Unspent(T \cup {c0}, R', t))
            <= Worth(Unspent(T, R', t)) + ValueIn(c0, t)
      BY <2>a, ClaimInsert
    <3>8. Worth(Unspent(T', R', t))
            <= Worth(Unspent(T \cup {c0}, R', t)) + ValueIn(c1, t)
      <4>1. T \cup {c0} \in SUBSET Commitments
        BY <2>a
      <4> QED
        BY <3>2, <4>1, ClaimInsert
    <3>9. ValueIn(i0, t) + ValueIn(i1, t) = ValueIn(c0, t) + ValueIn(c1, t)
      <4>1. /\ TokenOf[i1] = TokenOf[i0] /\ TokenOf[c0] = TokenOf[i0]
            /\ TokenOf[c1] = TokenOf[i0]
            /\ AmountOf[i0] + AmountOf[i1] = AmountOf[c0] + AmountOf[c1]
        BY DEF transfer, transfer_circuit
      <4> QED
        BY <4>1 DEF ValueIn
    <3>10. /\ Worth(Unspent(T, R1, t)) \in Nat
           /\ Worth(Unspent(T, R1 \cup {n1}, t)) \in Nat
           /\ Worth(Unspent(T \cup {c0}, R', t)) \in Nat
      BY <2>a, <2>c
    <3>11. Claims(t)' <= Claims(t)
      BY <2>b, <2>c, <2>f, <3>1, <3>5, <3>6, <3>7, <3>8, <3>9, <3>10
    <3>12. Vault(t)' = Vault(t) /\ outflow' = outflow /\ inflow' = inflow
      BY DEF transfer, Vault
    <3> QED
      BY <2>c, <2>d, <2>e, <3>11, <3>12
  <2>5. CASE Burn
    <3> PICK c \in Commitments, r \in Roots, u \in Tokens, m \in Amounts :
               burn(c, r, NullifierOf[c], u, m)
      BY <2>5 DEF Burn
    <3>1. T' = T /\ R' = R \cup {NullifierOf[c]}
      <4>1. leaves' = leaves /\ nullifiers' = Append(nullifiers, NullifierOf[c])
        BY DEF burn
      <4> QED
        BY <4>1, Grow, NoteTypes DEF T, R, InTree
    <3>2. c \in T /\ NullifierOf[c] \notin R /\ TokenOf[c] = u /\ AmountOf[c] = m
      BY MembersInTree DEF burn, burn_circuit, nullifier_contains, T, R, Recorded, Range
    <3>3. Claims(t)' + ValueIn(c, t) <= Claims(t)
      BY <2>a, <2>b, <3>1, <3>2, ClaimSpend
    <3>4. outflow'[t] = outflow[t] + ValueIn(c, t)
      BY <3>2 DEF burn, ValueIn, TypeOK
    <3>5. Vault(t)' = Vault(t) /\ inflow' = inflow
      BY DEF burn, Vault
    <3> QED
      BY <2>c, <2>d, <2>e, <2>f, <3>3, <3>4, <3>5
  <2>6. CASE InitializeXburnPending \/ AddPendingXburn
    <3>1. UNCHANGED <<nullifiers, leaves, balance, outflow, inflow>>
      BY <2>6 DEF InitializeXburnPending, initialize_xburn_pending,
                  AddPendingXburn, add_pending_xburn
    <3>2. T' = T /\ R' = R /\ Vault(t)' = Vault(t)
      BY <3>1 DEF T, R, InTree, Recorded, Vault
    <3> QED
      BY <2>b, <2>e, <3>1, <3>2
  <2>8. CASE MintFromXburn
    <3> PICK src, c \in Commitments, d \in Chains :
               mint_from_xburn(src, NullifierOf[src], d, c)
      BY <2>8 DEF MintFromXburn
    <3>1. T' = T \cup {c} /\ R' = R
      <4>1. leaves' = Append(leaves, c) /\ nullifiers' = nullifiers
        BY DEF mint_from_xburn
      <4> QED
        BY <4>1, Grow DEF T, R, Recorded
    <3>2. Claims(t)' <= Claims(t) + ValueIn(c, t)
      BY <2>a, <2>b, <3>1, ClaimInsert
    <3>3. inflow'[t] = inflow[t] + ValueIn(c, t)
      BY <2>d DEF mint_from_xburn, ValueIn, TypeOK
    <3>4. Vault(t)' = Vault(t) /\ outflow' = outflow
      BY DEF mint_from_xburn, Vault
    <3> QED
      BY <2>c, <2>d, <2>e, <2>f, <3>2, <3>3, <3>4
  <2>9. CASE Xburn
    <3> PICK src, c \in Commitments, r \in Roots : xburn(r, src, NullifierOf[src], c)
      BY <2>9 DEF Xburn
    <3>1. T' = T /\ R' = R \cup {NullifierOf[src]}
      <4>1. leaves' = leaves /\ nullifiers' = Append(nullifiers, NullifierOf[src])
        BY DEF xburn
      <4> QED
        BY <4>1, Grow, NoteTypes DEF T, R, InTree
    <3>2. src \in T /\ NullifierOf[src] \notin R
      BY MembersInTree DEF xburn, xburn_circuit, nullifier_contains, T, R, Recorded, Range
    <3>3. Claims(t)' + ValueIn(src, t) <= Claims(t)
      BY <2>a, <2>b, <3>1, <3>2, ClaimSpend
    <3>4. outflow'[t] = outflow[t] + ValueIn(src, t)
      BY <2>d DEF xburn, ValueIn, TypeOK
    <3>5. Vault(t)' = Vault(t) /\ inflow' = inflow
      BY DEF xburn, Vault
    <3> QED
      BY <2>c, <2>d, <2>e, <2>f, <3>3, <3>4, <3>5
  <2>10. CASE SplSend
    <3> PICK s \in Signers, a, b \in TokenAccounts, m \in Amounts : spl_send(s, a, b, m)
      BY <2>10 DEF SplSend
    <3>1. T' = T /\ R' = R /\ outflow' = outflow /\ inflow' = inflow
      BY DEF spl_send, T, R, InTree, Recorded
    <3>2. m \in Nat
      BY NoteAssumption DEF Amounts
    <3>3. Vault(t)' >= Vault(t)
      BY <3>2, PaymentIn DEF spl_send, Vault
    <3> QED
      BY <2>b, <2>c, <2>d, <2>e, <3>1, <3>3
  <2>11. CASE UNCHANGED vars
    <3>1. T' = T /\ R' = R /\ Vault(t)' = Vault(t) /\ outflow' = outflow
          /\ inflow' = inflow
      BY <2>11 DEF vars, T, R, InTree, Recorded, Vault
    <3> QED
      BY <2>b, <2>e, <3>1
  <2> QED
    BY <2>1, <2>2, <2>3, <2>4, <2>5, <2>6, <2>8, <2>9, <2>10, <2>11 DEF Next
<1> QED
  BY <1>1, <1>2, TypeCorrect, PTL DEF Spec

-----------------------------------------------------------------------------
(* A nullifier of a leaf, or of a dummy transfer input.                        *)
Backed(nf) ==
  \E c \in Commitments : NullifierOf[c] = nf /\ (c \in InTree \/ AmountOf[c] = 0)

(* What a step does to the history: the tree gains leaves and loses none, and  *)
(* each nullifier that it records belongs to a leaf or to a dummy.             *)
LEMMA HistoryGrows ==
  ASSUME TypeOK, EmptyUntilCreated, [Next]_vars
  PROVE  /\ InTree \subseteq InTree'
         /\ \A nf \in Recorded' : nf \in Recorded \/ Backed(nf)
<1>1. CASE UNCHANGED <<leaves, nullifiers>>
  BY <1>1 DEF InTree, Recorded
<1>2. CASE initialize_pool
  <2>1. leaves' = leaves /\ nullifiers' = nullifiers
    BY <1>2, EmptyTreeRing DEF initialize_pool, EmptyUntilCreated, TypeOK
  <2> QED
    BY <1>1, <2>1
<1>3. CASE Deposit
  <2>1. nullifiers' = nullifiers /\ \E c \in Commitments : leaves' = Append(leaves, c)
    BY <1>3 DEF Deposit, deposit
  <2> QED
    BY <2>1, Grow DEF Recorded
<1>4. CASE Withdraw
  <2> PICK v, a \in TokenAccounts, c \in Commitments, r \in Roots, u \in Tokens,
           m \in Amounts :
             withdraw(v, a, c, r, NullifierOf[c], u, m, OwnerOf[a])
    BY <1>4 DEF Withdraw
  <2>1. c \in InTree /\ leaves' = leaves /\ nullifiers' = Append(nullifiers, NullifierOf[c])
    BY MembersInTree DEF withdraw, withdraw_checks, withdraw_circuit
  <2> QED
    BY <2>1, Grow, NoteTypes DEF InTree, Backed
<1>5. CASE Transfer
  <2> PICK i0, i1, c0, c1 \in Commitments, r \in Roots :
             transfer(i0, i1, r, NullifierOf[i0], NullifierOf[i1], c0, c1)
    BY <1>5 DEF Transfer
  <2>1. /\ leaves' = leaves \o <<c0, c1>>
        /\ nullifiers' = nullifiers \o <<NullifierOf[i0], NullifierOf[i1]>>
    BY DEF transfer
  <2>2. Backed(NullifierOf[i0]) /\ Backed(NullifierOf[i1])
    BY MembersInTree DEF transfer, transfer_circuit, Backed
  <2>3. InTree' = (InTree \cup {c0}) \cup {c1}
    BY <2>1, Grow
  <2>4. Recorded' = (Recorded \cup {NullifierOf[i0]}) \cup {NullifierOf[i1]}
    BY <2>1, Grow, NoteTypes
  <2> QED
    BY <2>2, <2>3, <2>4
<1>6. CASE Burn
  <2> PICK c \in Commitments, r \in Roots, u \in Tokens, m \in Amounts :
             burn(c, r, NullifierOf[c], u, m)
    BY <1>6 DEF Burn
  <2>1. c \in InTree /\ leaves' = leaves /\ nullifiers' = Append(nullifiers, NullifierOf[c])
    BY MembersInTree DEF burn, burn_circuit
  <2> QED
    BY <2>1, Grow, NoteTypes DEF InTree, Backed
<1>7. CASE MintFromXburn
  <2>1. nullifiers' = nullifiers /\ \E c \in Commitments : leaves' = Append(leaves, c)
    BY <1>7 DEF MintFromXburn, mint_from_xburn
  <2> QED
    BY <2>1, Grow DEF Recorded
<1>8. CASE Xburn
  <2> PICK src, c \in Commitments, r \in Roots : xburn(r, src, NullifierOf[src], c)
    BY <1>8 DEF Xburn
  <2>1. src \in InTree /\ leaves' = leaves
        /\ nullifiers' = Append(nullifiers, NullifierOf[src])
    BY MembersInTree DEF xburn, xburn_circuit
  <2> QED
    BY <2>1, Grow, NoteTypes DEF InTree, Backed
<1>9. CASE InitializeXburnPending \/ AddPendingXburn \/ SplSend \/ UNCHANGED vars
  BY <1>1, <1>9 DEF InitializeXburnPending, initialize_xburn_pending, AddPendingXburn,
     add_pending_xburn, SplSend, spl_send, vars
<1> QED
  BY <1>2, <1>3, <1>4, <1>5, <1>6, <1>7, <1>8, <1>9 DEF Next

(* No spend without a deposit, a transfer or a mint before it: every recorded  *)
(* nullifier belongs to a leaf of the tree, or to a transfer's dummy input.     *)
THEOREM SpendsBacked == Spec => []SpendsAreBacked
<1>1. Init => SpendsAreBacked
  BY DEF Init, SpendsAreBacked, Recorded, Range
<1>2. TypeOK /\ EmptyUntilCreated /\ SpendsAreBacked /\ [Next]_vars => SpendsAreBacked'
  <2> SUFFICES ASSUME TypeOK, EmptyUntilCreated, SpendsAreBacked, [Next]_vars,
                      NEW nf \in Recorded'
               PROVE  \E c \in Commitments :
                        NullifierOf[c] = nf /\ (c \in InTree' \/ AmountOf[c] = 0)
    BY DEF SpendsAreBacked
  <2>1. Backed(nf)
    BY HistoryGrows DEF SpendsAreBacked, Backed
  <2> QED
    BY <2>1, HistoryGrows DEF Backed
<1> QED
  BY <1>1, <1>2, TypeCorrect, PTL DEF Spec

-----------------------------------------------------------------------------
(* Only two instructions touch the entries of XburnPending; creating the       *)
(* account finds it empty.                                                     *)
LEMMA EntriesStep ==
  ASSUME TypeOK, EmptyUntilCreated, [Next]_vars
  PROVE  UNCHANGED <<xpending, inflow>> \/ AddPendingXburn \/ MintFromXburn
<1>1. CASE InitializeXburnPending
  BY <1>1 DEF InitializeXburnPending, initialize_xburn_pending, EmptyUntilCreated, TypeOK
<1>2. CASE initialize_pool \/ Deposit \/ Withdraw \/ Transfer
  BY <1>2 DEF initialize_pool, Deposit, deposit, Withdraw, withdraw, Transfer, transfer
<1>3. CASE Burn \/ Xburn \/ SplSend \/ UNCHANGED vars
  BY <1>3 DEF Burn, burn, Xburn, xburn, SplSend, spl_send, vars
<1> QED
  BY <1>1, <1>2, <1>3 DEF Next

(* What the two write: one new entry, not minted, for a nullifier that has      *)
(* none; or the flag of an entry that was not set, and the note it names into  *)
(* the tree.                                                                   *)
LEMMA EntryAdded ==
  ASSUME TypeOK, AddPendingXburn
  PROVE  /\ \E e \in PendingEntry :
              /\ xpending' = Append(xpending, e) /\ ~e.minted
              /\ \A i \in DOMAIN xpending : xpending[i].nullifier # e.nullifier
         /\ UNCHANGED <<leaves, inflow>>
<1> PICK s \in Signers, nf \in Nullifiers, d \in Chains, c \in Commitments :
           add_pending_xburn(s, nf, d, c)
  BY DEF AddPendingXburn
<1> DEFINE e == [nullifier |-> nf, expected_hash |-> hash2(d, c), minted |-> FALSE]
<1>1. e \in PendingEntry
  BY DEF PendingEntry, hash2
<1>2. xpending' = Append(xpending, e) /\ UNCHANGED <<leaves, inflow>>
  BY DEF add_pending_xburn
<1>3. ASSUME \E i \in DOMAIN xpending : xpending[i].nullifier = nf
      PROVE  FALSE
  <2> DEFINE S == {i \in DOMAIN xpending : xpending[i].nullifier = nf}
  <2>1. S # {} /\ S \in SUBSET Nat
    BY <1>3 DEF TypeOK
  <2>2. PICK i \in S : \A j \in S : i <= j
    BY <2>1, LeastElement
  <2>3. i \in xpending_find(nf)
    BY <2>2 DEF xpending_find, TypeOK
  <2> QED
    BY <2>3 DEF add_pending_xburn
<1> QED
  BY <1>1, <1>2, <1>3

(* A mint raises the flag of one entry that was not minted, appends the very   *)
(* note the entry names and adds its amount to the inflow of its token.        *)
LEMMA EntryMinted ==
  ASSUME TypeOK, MintFromXburn
  PROVE  \E i \in DOMAIN xpending, src, c \in Commitments :
           /\ ~xpending[i].minted /\ xpending[i].nullifier = NullifierOf[src]
           /\ xpending[i].expected_hash = <<SOLANA_CHAIN_ID, c>>
           /\ xburn_circuit(src, Commitments, NullifierOf[src], c)
           /\ xpending' = [xpending EXCEPT ![i].minted = TRUE]
           /\ leaves' = Append(leaves, c)
           /\ inflow' = [inflow EXCEPT ![TokenOf[c]] = @ + AmountOf[c]]
<1> PICK src, c \in Commitments, d \in Chains :
           mint_from_xburn(src, NullifierOf[src], d, c)
  BY DEF MintFromXburn
<1> PICK i \in xpending_find(NullifierOf[src]) :
           /\ ~xpending[i].minted
           /\ xpending[i].expected_hash = hash2(d, c)
           /\ xpending' = [xpending EXCEPT ![i].minted = TRUE]
  BY DEF mint_from_xburn
<1>1. i \in DOMAIN xpending /\ xpending[i].nullifier = NullifierOf[src]
  BY DEF xpending_find
<1>2. /\ d = SOLANA_CHAIN_ID /\ xburn_circuit(src, Commitments, NullifierOf[src], c)
      /\ leaves' = Append(leaves, c)
      /\ inflow' = [inflow EXCEPT ![TokenOf[c]] = @ + AmountOf[c]]
  BY DEF mint_from_xburn
<1>3. xpending[i].expected_hash = <<SOLANA_CHAIN_ID, c>>
  BY <1>2 DEF hash2
<1> QED
  BY <1>1, <1>2, <1>3

(* Entry by entry, what becomes of the flags when the i-th is set.              *)
LEMMA FlagSet ==
  ASSUME TypeOK, NEW i \in DOMAIN xpending,
         xpending' = [xpending EXCEPT ![i].minted = TRUE]
  PROVE  /\ DOMAIN xpending' = DOMAIN xpending /\ Len(xpending') = Len(xpending)
         /\ xpending'[i] = [xpending[i] EXCEPT !.minted = TRUE]
         /\ xpending'[i].minted
         /\ xpending'[i].nullifier = xpending[i].nullifier
         /\ xpending'[i].expected_hash = xpending[i].expected_hash
         /\ \A j \in DOMAIN xpending : j # i => xpending'[j] = xpending[j]
<1>1. xpending[i] \in PendingEntry /\ xpending \in Seq(PendingEntry)
  BY DEF TypeOK
<1>2. xpending'[i] = [xpending[i] EXCEPT !.minted = TRUE]
  BY <1>1
<1> QED
  BY <1>1, <1>2 DEF PendingEntry

(* The attested nullifiers are distinct.                                       *)
AttestedOnce ==
  \A i, j \in DOMAIN xpending : xpending[i].nullifier = xpending[j].nullifier => i = j

(* add_pending_xburn refuses a nullifier that has an entry, so there is at      *)
(* most one attestation of each.                                               *)
LEMMA AttestedOnceHolds == Spec => []AttestedOnce
<1>1. Init => AttestedOnce
  BY DEF Init, AttestedOnce
<1>2. TypeOK /\ EmptyUntilCreated /\ AttestedOnce /\ [Next]_vars => AttestedOnce'
  <2> SUFFICES ASSUME TypeOK, EmptyUntilCreated, AttestedOnce, [Next]_vars
               PROVE  AttestedOnce'
    OBVIOUS
  <2>1. CASE UNCHANGED <<xpending, inflow>>
    BY <2>1 DEF AttestedOnce
  <2>2. CASE AddPendingXburn
    <3> PICK e \in PendingEntry :
               /\ xpending' = Append(xpending, e)
               /\ \A i \in DOMAIN xpending : xpending[i].nullifier # e.nullifier
      BY <2>2, EntryAdded
    <3> QED
      BY DEF AttestedOnce, TypeOK
  <2>3. CASE MintFromXburn
    <3> PICK i \in DOMAIN xpending : xpending' = [xpending EXCEPT ![i].minted = TRUE]
      BY <2>3, EntryMinted
    <3>1. /\ DOMAIN xpending' = DOMAIN xpending
          /\ \A j \in DOMAIN xpending : xpending'[j].nullifier = xpending[j].nullifier
      BY FlagSet
    <3> QED
      BY <3>1 DEF AttestedOnce
  <2> QED
    BY <2>1, <2>2, <2>3, EntriesStep
<1> QED
  BY <1>1, <1>2, TypeCorrect, PTL DEF Spec

(* The nullifiers of the entries that have been minted.                        *)
MintedNullifiers ==
  {xpending[i].nullifier : i \in {j \in DOMAIN xpending : xpending[j].minted}}

(* The notes that InflowIsAttested sums over are the notes behind those.       *)
LEMMA MintedFromNotes == \A t \in Tokens : MintedFrom(t) = NotesOf(MintedNullifiers, t)
BY DEF MintedFrom, NotesOf, MintedNullifiers

(* A mint adds the one nullifier of its entry to them, and nothing else adds.  *)
LEMMA MintedGrow ==
  ASSUME TypeOK, AttestedOnce, MintFromXburn
  PROVE  \E src, c \in Commitments :
           /\ NullifierOf[src] \notin MintedNullifiers
           /\ MintedNullifiers' = MintedNullifiers \cup {NullifierOf[src]}
           /\ \A t \in Tokens : ValueIn(c, t) = ValueIn(src, t)
           /\ inflow' = [inflow EXCEPT ![TokenOf[c]] = @ + AmountOf[c]]
<1> PICK i \in DOMAIN xpending, src, c \in Commitments :
           /\ ~xpending[i].minted /\ xpending[i].nullifier = NullifierOf[src]
           /\ xburn_circuit(src, Commitments, NullifierOf[src], c)
           /\ xpending' = [xpending EXCEPT ![i].minted = TRUE]
           /\ inflow' = [inflow EXCEPT ![TokenOf[c]] = @ + AmountOf[c]]
  BY EntryMinted
<1>1. NullifierOf[src] \notin MintedNullifiers
  BY DEF MintedNullifiers, AttestedOnce
<1>2. {j \in DOMAIN xpending' : xpending'[j].minted}
        = {j \in DOMAIN xpending : xpending[j].minted} \cup {i}
  BY FlagSet
<1>3. \A j \in DOMAIN xpending : xpending'[j].nullifier = xpending[j].nullifier
  BY FlagSet
<1>4. MintedNullifiers' = MintedNullifiers \cup {NullifierOf[src]}
  BY <1>2, <1>3, FlagSet DEF MintedNullifiers
<1>5. \A t \in Tokens : ValueIn(c, t) = ValueIn(src, t)
  BY DEF xburn_circuit, ValueIn
<1> QED
  BY <1>1, <1>4, <1>5

(* No other step changes them, nor the inflow.                                 *)
LEMMA MintedKept ==
  ASSUME TypeOK, UNCHANGED <<xpending, inflow>> \/ AddPendingXburn
  PROVE  MintedNullifiers' = MintedNullifiers /\ inflow' = inflow
<1>1. CASE UNCHANGED <<xpending, inflow>>
  BY <1>1 DEF MintedNullifiers
<1>2. CASE AddPendingXburn
  <2> PICK e \in PendingEntry : xpending' = Append(xpending, e) /\ ~e.minted
    BY <1>2, EntryAdded
  <2>1. /\ DOMAIN xpending' = DOMAIN xpending \cup {Len(xpending) + 1}
        /\ \A j \in DOMAIN xpending : xpending'[j] = xpending[j]
        /\ xpending'[Len(xpending) + 1] = e
    BY DEF TypeOK
  <2>2. MintedNullifiers' = MintedNullifiers
    BY <2>1 DEF MintedNullifiers
  <2> QED
    BY <1>2, <2>2, EntryAdded
<1> QED
  BY <1>1, <1>2

(* Bridge inflow, for any number of attestations: what came over the bridge is *)
(* the worth of the distinct notes whose attested burns were minted.  A second *)
(* mint of an entry, or of a second entry for a note, would count it twice:    *)
(* AttestedOnce rules that out.                                                *)
THEOREM InflowAttested == Spec => []InflowIsAttested
<1>1. Init => InflowIsAttested
  <2> SUFFICES ASSUME Init, NEW t \in Tokens PROVE inflow[t] = Worth(MintedFrom(t))
    BY DEF InflowIsAttested
  <2>1. MintedFrom(t) = {} /\ inflow[t] = 0
    BY DEF Init, MintedFrom
  <2>2. Worth({}) = 0
    <3>1. Coins({}) = {}
      BY DEF Coins
    <3> QED
      BY <3>1, FS_EmptySet DEF Worth
  <2> QED
    BY <2>1, <2>2
<1>2. /\ TypeOK /\ EmptyUntilCreated /\ AttestedOnce /\ InflowIsAttested /\ [Next]_vars
      => InflowIsAttested'
  <2> SUFFICES ASSUME TypeOK, EmptyUntilCreated, AttestedOnce, InflowIsAttested,
                      [Next]_vars, NEW t \in Tokens
               PROVE  (inflow[t] = Worth(MintedFrom(t)))'
    BY DEF InflowIsAttested
  <2>0. MintedFrom(t)' = NotesOf(MintedNullifiers', t)
    BY DEF MintedFrom, NotesOf, MintedNullifiers
  <2>1. inflow[t] = Worth(NotesOf(MintedNullifiers, t))
    BY MintedFromNotes DEF InflowIsAttested
  <2>2. CASE MintFromXburn
    <3> PICK src, c \in Commitments :
           /\ NullifierOf[src] \notin MintedNullifiers
           /\ MintedNullifiers' = MintedNullifiers \cup {NullifierOf[src]}
           /\ \A u \in Tokens : ValueIn(c, u) = ValueIn(src, u)
           /\ inflow' = [inflow EXCEPT ![TokenOf[c]] = @ + AmountOf[c]]
      BY <2>2, MintedGrow
    <3>1. Worth(NotesOf(MintedNullifiers', t))
            = Worth(NotesOf(MintedNullifiers, t)) + ValueIn(src, t)
      BY NotesOfMore
    <3>2. inflow'[t] = inflow[t] + ValueIn(c, t)
      BY DEF ValueIn, TypeOK
    <3> QED
      BY <2>0, <2>1, <3>1, <3>2
  <2>3. CASE UNCHANGED <<xpending, inflow>> \/ AddPendingXburn
    BY <2>0, <2>1, <2>3, MintedKept
  <2> QED
    BY <2>2, <2>3, EntriesStep
<1> QED
  BY <1>1, <1>2, TypeCorrect, AttestedOnceHolds, PTL DEF Spec

(* What was minted is what was attested, for any number of entries: the flag   *)
(* goes up only in the step that appends the note the entry names (EntryMinted) *)
(* and neither the entry nor the leaf ever changes after that.                  *)
THEOREM MintsAsAttested == Spec => []MintedAsAttested
<1>1. Init => MintedAsAttested
  BY DEF Init, MintedAsAttested
<1>2. TypeOK /\ EmptyUntilCreated /\ MintedAsAttested /\ [Next]_vars => MintedAsAttested'
  <2> SUFFICES ASSUME TypeOK, EmptyUntilCreated, MintedAsAttested, [Next]_vars,
                      NEW i \in DOMAIN xpending', xpending'[i].minted
               PROVE  /\ xpending'[i].expected_hash[1] = SOLANA_CHAIN_ID
                      /\ xpending'[i].expected_hash[2] \in InTree'
                      /\ \E src \in Commitments :
                           xburn_circuit(src, Commitments, xpending'[i].nullifier,
                                         xpending'[i].expected_hash[2])
    BY DEF MintedAsAttested, xburn_circuit
  <2>0. InTree \subseteq InTree'
    BY HistoryGrows
  <2>1. CASE i \in DOMAIN xpending /\ xpending[i].minted /\ xpending'[i] = xpending[i]
    BY <2>0, <2>1 DEF MintedAsAttested
  <2>2. CASE UNCHANGED <<xpending, inflow>>
    BY <2>1, <2>2
  <2>3. CASE AddPendingXburn
    <3> PICK e \in PendingEntry : xpending' = Append(xpending, e) /\ ~e.minted
      BY <2>3, EntryAdded
    <3>1. i \in DOMAIN xpending /\ xpending'[i] = xpending[i]
      BY DEF TypeOK
    <3> QED
      BY <2>1, <3>1
  <2>4. CASE MintFromXburn
    <3> PICK k \in DOMAIN xpending, src, c \in Commitments :
           /\ xpending[k].nullifier = NullifierOf[src]
           /\ xpending[k].expected_hash = <<SOLANA_CHAIN_ID, c>>
           /\ xburn_circuit(src, Commitments, NullifierOf[src], c)
           /\ xpending' = [xpending EXCEPT ![k].minted = TRUE]
           /\ leaves' = Append(leaves, c)
      BY <2>4, EntryMinted
    <3>1. c \in InTree'
      BY Grow
    <3>2. CASE i = k
      <4>1. /\ xpending'[i].nullifier = NullifierOf[src]
            /\ xpending'[i].expected_hash = <<SOLANA_CHAIN_ID, c>>
        BY <3>2, FlagSet
      <4> QED
        BY <3>1, <4>1
    <3>3. CASE i # k
      <4>1. i \in DOMAIN xpending /\ xpending'[i] = xpending[i]
        BY <3>3, FlagSet
      <4> QED
        BY <2>1, <4>1
    <3> QED
      BY <3>2, <3>3
  <2> QED
    BY <2>2, <2>3, <2>4, EntriesStep
<1> QED
  BY <1>1, <1>2, TypeCorrect, PTL DEF Spec

-----------------------------------------------------------------------------
(* A sequence is a prefix of itself with more at the end.                      *)
LEMMA PrefixKept ==
  ASSUME NEW S, NEW q \in Seq(S)
  PROVE  /\ SubSeq(q, 1, Len(q)) = q
         /\ \A x \in S : SubSeq(Append(q, x), 1, Len(q)) = q
         /\ \A x, y \in S : SubSeq(q \o <<x, y>>, 1, Len(q)) = q
<1>1. ASSUME NEW r \in Seq(S), Len(r) >= Len(q), \A i \in 1..Len(q) : r[i] = q[i]
      PROVE  SubSeq(r, 1, Len(q)) = q
  <2>1. \A i \in 1..Len(q) : r[i] \in S
    BY <1>1
  <2>2. /\ SubSeq(r, 1, Len(q)) \in Seq(S)
        /\ Len(SubSeq(r, 1, Len(q))) = Len(q)
        /\ \A i \in 1..Len(q) : SubSeq(r, 1, Len(q))[i] = q[i]
    BY <1>1, <2>1, SubSeqProperties
  <2> QED
    BY <2>2, SeqEqual
<1>2. \A x \in S : /\ Append(q, x) \in Seq(S) /\ Len(Append(q, x)) >= Len(q)
                   /\ \A i \in 1..Len(q) : Append(q, x)[i] = q[i]
  OBVIOUS
<1>3. \A x, y \in S : /\ q \o <<x, y>> \in Seq(S) /\ Len(q \o <<x, y>>) >= Len(q)
                      /\ \A i \in 1..Len(q) : (q \o <<x, y>>)[i] = q[i]
  OBVIOUS
<1> QED
  BY <1>1, <1>2, <1>3

(* What a step appends to the leaves and to the nullifiers.                    *)
LEMMA HistoryAppends ==
  ASSUME TypeOK, EmptyUntilCreated, [Next]_vars
  PROVE  \/ /\ \E c, d \in Commitments : leaves' = leaves \o <<c, d>>
            /\ \E x, y \in Nullifiers : nullifiers' = nullifiers \o <<x, y>>
         \/ /\ \/ leaves' = leaves
               \/ \E c \in Commitments : leaves' = Append(leaves, c)
            /\ \/ nullifiers' = nullifiers
               \/ \E x \in Nullifiers : nullifiers' = Append(nullifiers, x)
<1>1. CASE initialize_pool
  BY <1>1, EmptyTreeRing DEF initialize_pool, EmptyUntilCreated, TypeOK
<1>2. CASE Deposit \/ MintFromXburn
  BY <1>2 DEF Deposit, deposit, MintFromXburn, mint_from_xburn
<1>3. CASE Withdraw \/ Burn \/ Xburn
  BY <1>3, NoteTypes DEF Withdraw, withdraw, Burn, burn, Xburn, xburn
<1>4. CASE Transfer
  BY <1>4, NoteTypes DEF Transfer, transfer
<1>5. CASE InitializeXburnPending \/ AddPendingXburn \/ SplSend \/ UNCHANGED vars
  BY <1>5 DEF InitializeXburnPending, initialize_xburn_pending, AddPendingXburn,
     add_pending_xburn, SplSend, spl_send, vars
<1> QED
  BY <1>1, <1>2, <1>3, <1>4, <1>5 DEF Next

(* History is kept, in every step of every behaviour: paths and attestations   *)
(* that a client or the attestor holds never become wrong.                     *)
THEOREM HistoryKept == Spec => HistoryIsKept
<1> DEFINE Kept == /\ \E k \in 0..2 : Len(leaves') = Len(leaves) + k
                   /\ SubSeq(leaves', 1, Len(leaves)) = leaves
                   /\ SubSeq(nullifiers', 1, Len(nullifiers)) = nullifiers
                   /\ (Len(leaves') = Len(leaves) + 2)
                        <=> (Len(nullifiers') = Len(nullifiers) + 2)
                   /\ Len(xpending') >= Len(xpending)
                   /\ \A i \in DOMAIN xpending :
                        \/ xpending'[i] = xpending[i]
                        \/ /\ xpending'[i] = [xpending[i] EXCEPT !.minted = TRUE]
                           /\ leaves' = Append(leaves, xpending[i].expected_hash[2])
<1>1. TypeOK /\ EmptyUntilCreated /\ [Next]_vars => Kept
  <2> SUFFICES ASSUME TypeOK, EmptyUntilCreated, [Next]_vars PROVE Kept
    OBVIOUS
  <2>0. leaves \in Seq(Commitments) /\ nullifiers \in Seq(Nullifiers)
    BY DEF TypeOK
  <2>1. /\ \E k \in 0..2 : Len(leaves') = Len(leaves) + k
        /\ SubSeq(leaves', 1, Len(leaves)) = leaves
    <3>1. ASSUME leaves' = leaves
          PROVE  /\ Len(leaves') = Len(leaves) + 0
                 /\ SubSeq(leaves', 1, Len(leaves)) = leaves
      BY <2>0, <3>1, PrefixKept
    <3>2. ASSUME NEW c \in Commitments, leaves' = Append(leaves, c)
          PROVE  /\ Len(leaves') = Len(leaves) + 1
                 /\ SubSeq(leaves', 1, Len(leaves)) = leaves
      <4>1. SubSeq(Append(leaves, c), 1, Len(leaves)) = leaves
        BY <2>0, PrefixKept
      <4> QED
        BY <2>0, <3>2, <4>1
    <3>3. ASSUME NEW c \in Commitments, NEW d \in Commitments,
                 leaves' = leaves \o <<c, d>>
          PROVE  /\ Len(leaves') = Len(leaves) + 2
                 /\ SubSeq(leaves', 1, Len(leaves)) = leaves
      <4>1. SubSeq(leaves \o <<c, d>>, 1, Len(leaves)) = leaves
        BY <2>0, PrefixKept
      <4> QED
        BY <2>0, <3>3, <4>1
    <3>4. 0 \in 0..2 /\ 1 \in 0..2 /\ 2 \in 0..2
      OBVIOUS
    <3>5. \/ leaves' = leaves
          \/ \E c \in Commitments : leaves' = Append(leaves, c)
          \/ \E c, d \in Commitments : leaves' = leaves \o <<c, d>>
      BY HistoryAppends
    <3> QED
      BY <3>1, <3>2, <3>3, <3>4, <3>5, Zenon
  <2>2. SubSeq(nullifiers', 1, Len(nullifiers)) = nullifiers
    <3>1. /\ SubSeq(nullifiers, 1, Len(nullifiers)) = nullifiers
          /\ \A x \in Nullifiers :
               SubSeq(Append(nullifiers, x), 1, Len(nullifiers)) = nullifiers
          /\ \A x, y \in Nullifiers :
               SubSeq(nullifiers \o <<x, y>>, 1, Len(nullifiers)) = nullifiers
      BY <2>0, PrefixKept
    <3> QED
      BY <3>1, HistoryAppends
  <2>w. (Len(leaves') = Len(leaves) + 2) <=> (Len(nullifiers') = Len(nullifiers) + 2)
    <3>1. CASE /\ \E c, d \in Commitments : leaves' = leaves \o <<c, d>>
               /\ \E x, y \in Nullifiers : nullifiers' = nullifiers \o <<x, y>>
      BY <2>0, <3>1
    <3>2. CASE /\ \/ leaves' = leaves
                  \/ \E c \in Commitments : leaves' = Append(leaves, c)
               /\ \/ nullifiers' = nullifiers
                  \/ \E x \in Nullifiers : nullifiers' = Append(nullifiers, x)
      BY <2>0, <3>2
    <3> QED
      BY <3>1, <3>2, HistoryAppends
  <2>3. /\ Len(xpending') >= Len(xpending)
        /\ \A i \in DOMAIN xpending :
             \/ xpending'[i] = xpending[i]
             \/ /\ xpending'[i] = [xpending[i] EXCEPT !.minted = TRUE]
                /\ leaves' = Append(leaves, xpending[i].expected_hash[2])
    <3>1. CASE UNCHANGED <<xpending, inflow>>
      BY <3>1 DEF TypeOK
    <3>2. CASE AddPendingXburn
      <4> PICK e \in PendingEntry : xpending' = Append(xpending, e)
        BY <3>2, EntryAdded
      <4> QED
        BY DEF TypeOK
    <3>3. CASE MintFromXburn
      <4> PICK k \in DOMAIN xpending, c \in Commitments :
             /\ xpending[k].expected_hash = <<SOLANA_CHAIN_ID, c>>
             /\ xpending' = [xpending EXCEPT ![k].minted = TRUE]
             /\ leaves' = Append(leaves, c)
        BY <3>3, EntryMinted
      <4>1. xpending[k].expected_hash[2] = c
        OBVIOUS
      <4>2. Len(xpending') = Len(xpending) /\ Len(xpending) \in Nat
        BY FlagSet DEF TypeOK
      <4>3. \A i \in DOMAIN xpending :
              \/ xpending'[i] = xpending[i]
              \/ i = k /\ xpending'[i] = [xpending[i] EXCEPT !.minted = TRUE]
        BY FlagSet
      <4> QED
        BY <4>1, <4>2, <4>3
    <3> QED
      BY <3>1, <3>2, <3>3, EntriesStep
  <2> QED
    BY <2>1, <2>2, <2>w, <2>3
<1> QED
  BY <1>1, TypeCorrect, PTL DEF Spec, HistoryIsKept

-----------------------------------------------------------------------------
(* Whoever can spend a note can withdraw it: the current root is accepted, its *)
(* nullifier is new, and by Solvency the vault holds its amount.               *)
THEOREM ClaimsPayable == Spec => []ClaimsArePayable
<1>1. TypeOK /\ EmptyUntilCreated /\ RingInvariant /\ Solvency => ClaimsArePayable
  <2> SUFFICES ASSUME TypeOK, EmptyUntilCreated, RingInvariant, Solvency,
                      NEW t \in Tokens, NEW c \in Claimable(t),
                      fits(1), inflow[t] <= outflow[t],
                      NEW a \in TokenAccounts, MintOf[a] = t
               PROVE  withdraw_checks(VaultAta[t], a, c, tree.next_index,
                                      NullifierOf[c], t, AmountOf[c], OwnerOf[a])
    BY DEF ClaimsArePayable
  <2>1. c \in InTree /\ TokenOf[c] = t /\ NullifierOf[c] \notin Recorded
    BY DEF Claimable, Unspent
  <2>2. c \in Commitments /\ Claimable(t) \in SUBSET Commitments
    BY InTreeType DEF Claimable, Unspent
  <2>3. pool /\ c \in Members(tree.next_index)
    BY <2>1 DEF EmptyUntilCreated, TypeOK, InTree, Members, Range
  <2>4. tree_is_known_root(tree.next_index)
    <3>1. AcceptedRoots(tree) = Recent(tree.next_index)
      BY <2>3, RingAccepts DEF TypeOK, RingInvariant
    <3>2. tree.next_index \in Recent(tree.next_index)
      BY BoundAssumption DEF Recent, TypeOK, TreeAccount
    <3> QED
      BY <3>1, <3>2 DEF AcceptedRoots, tree_is_known_root
  <2>5. balance[VaultAta[t]] >= AmountOf[c]
    <3>1. Worth(Claimable(t)) + outflow[t] <= balance[VaultAta[t]] + inflow[t]
      BY DEF Solvency
    <3>2. Worth({c}) <= Worth(Claimable(t)) /\ Worth({c}) = AmountOf[c]
      BY <2>2, WorthMonotone, WorthOfOne
    <3>3. Worth(Claimable(t)) \in Nat /\ AmountOf[c] \in Nat
      BY <2>2, WorthType, NoteTypes
    <3>4. /\ balance[VaultAta[t]] \in Nat /\ inflow[t] \in Nat /\ outflow[t] \in Nat
      BY AccountAssumption DEF TypeOK
    <3> QED
      BY <3>1, <3>2, <3>3, <3>4
  <2>6. ~nullifier_contains(NullifierOf[c])
    BY <2>1 DEF nullifier_contains, Recorded, Range
  <2>7. check_vault(VaultAta[t], t)
    BY AccountAssumption DEF check_vault
  <2>8. spl_transfer_ok(VaultAta[t], a, VaultAuthority[t], AmountOf[c])
    BY <2>5, AccountAssumption DEF spl_transfer_ok
  <2>9. withdraw_circuit(c, Members(tree.next_index), NullifierOf[c], t, AmountOf[c])
    BY <2>1, <2>3 DEF withdraw_circuit
  <2> QED
    BY <2>3, <2>4, <2>6, <2>7, <2>8, <2>9 DEF withdraw_checks
<1> QED
  BY <1>1, TypeCorrect, RingInvariantHolds, Solvent, PTL
=============================================================================
