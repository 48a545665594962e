---------------------------- MODULE OpaqPoolProofs ----------------------------
(***************************************************************************)
(* Theorems about the EVM pool, for every set of notes and chains, every     *)
(* ring size, every capacity and every number of calls.                      *)
(***************************************************************************)
EXTENDS OpaqPool, PoolLemmas

(* An event that is appended keeps the log a sequence of events.             *)
LEMMA EmitType ==
  ASSUME log \in Seq(Events), Len(log) <= MaxLog,
         NEW name \in {"XBurned", "PendingAdded", "Minted"}, NEW nf \in Nullifiers,
         NEW d \in Chains, NEW c \in Commitments, emit(name, nf, d, c)
  PROVE  log' \in Seq(Events) /\ Len(log') <= MaxLog
<1>1. [event |-> name, nullifier |-> nf, dest |-> <<d, c>>] \in Events
  BY DEF Events
<1> QED
  BY <1>1, EvmAssumption DEF emit

(* Type correctness: whatever calls are made, the storage keeps its shape and *)
(* the leaf counter stays within the tree.                                    *)
THEOREM PoolTypeCorrect == Spec => []TypeOK
<1>1. constructor => TypeOK
  <2> SUFFICES ASSUME constructor PROVE TypeOK
    OBVIOUS
  <2>1. tree \in TreeAccount /\ tree.next_index = 0
    BY EmptyTreeRing DEF constructor
  <2>2. /\ nullifierSpent \in SUBSET Nullifiers /\ minted \in SUBSET Nullifiers
        /\ pendingMint \in [Nullifiers -> (Chains \X Commitments) \cup {NotPending}]
    BY DEF constructor
  <2>3. /\ log \in Seq(Events) /\ Len(log) <= MaxLog
        /\ leaves \in Seq(Commitments) /\ Len(leaves) = 0
    BY EvmAssumption DEF constructor
  <2> QED
    BY <2>1, <2>2, <2>3 DEF TypeOK
<1>2. TypeOK /\ [Next]_vars => TypeOK'
  <2> SUFFICES ASSUME TypeOK, [Next]_vars PROVE TypeOK'
    OBVIOUS
  <2> USE DEF TypeOK
  <2>1. CASE Xburn
    <3> PICK src, c \in Commitments, r \in Roots, d \in Chains :
               xburn(r, src, NullifierOf[src], d, c)
      BY <2>1 DEF Xburn
    <3>1. log' \in Seq(Events) /\ Len(log') <= MaxLog
      BY NoteTypes, EmitType DEF xburn
    <3>2. nullifierSpent' \in SUBSET Nullifiers
      BY NoteTypes DEF xburn
    <3> QED
      BY <3>1, <3>2 DEF xburn
  <2>2. CASE AddPending
    <3> PICK s \in Callers, nf \in Nullifiers, d \in Chains, c \in Commitments :
               addPending(s, nf, d, c)
      BY <2>2 DEF AddPending
    <3>1. log' \in Seq(Events) /\ Len(log') <= MaxLog
      BY EmitType DEF addPending
    <3>2. pendingMint' \in [Nullifiers -> (Chains \X Commitments) \cup {NotPending}]
      BY DEF addPending, keccak
    <3> QED
      BY <3>1, <3>2 DEF addPending
  <2>3. CASE MintFromXburn
    <3> PICK src, c \in Commitments, d \in Chains :
               mintFromXburn(src, NullifierOf[src], d, c)
      BY <2>3 DEF MintFromXburn
    <3>1. log' \in Seq(Events) /\ Len(log') <= MaxLog
      BY NoteTypes, EmitType DEF mintFromXburn
    <3>2. /\ minted' \in SUBSET Nullifiers
          /\ pendingMint' \in [Nullifiers -> (Chains \X Commitments) \cup {NotPending}]
      BY NoteTypes DEF mintFromXburn
    <3>3. tree' \in TreeAccount /\ tree'.next_index = tree.next_index + 1
      BY InsertType DEF mintFromXburn, insert
    <3>4. leaves' \in Seq(Commitments) /\ Len(leaves') = Len(leaves) + 1
      BY DEF mintFromXburn, insert
    <3> QED
      BY <3>1, <3>2, <3>3, <3>4 DEF mintFromXburn
  <2>4. CASE UNCHANGED vars
    BY <2>4 DEF vars
  <2> QED
    BY <2>1, <2>2, <2>3, <2>4 DEF Next
<1> QED
  BY <1>1, <1>2, PTL DEF Spec

(* Slot by slot, the storage ring is what its counters say.                   *)
LEMMA PoolRing == Spec => []RingHolds(tree)
<1>1. constructor => RingHolds(tree)
  BY EmptyTreeRing DEF constructor
<1>2. TypeOK /\ RingHolds(tree) /\ [Next]_vars => RingHolds(tree)'
  <2> SUFFICES ASSUME TypeOK, RingHolds(tree), [Next]_vars PROVE RingHolds(tree')
    BY DEF RingHolds, Age
  <2>1. CASE Xburn \/ AddPending \/ UNCHANGED vars
    <3>1. tree' = tree
      BY <2>1 DEF Xburn, xburn, AddPending, addPending, vars
    <3> QED
      BY <3>1
  <2>2. CASE MintFromXburn
    <3>1. has_room(tree) /\ tree' = tree_insert(tree)
      BY <2>2 DEF MintFromXburn, mintFromXburn, insert
    <3> QED
      BY <3>1, InsertRing DEF TypeOK
  <2> QED
    BY <2>1, <2>2 DEF Next
<1> QED
  BY <1>1, <1>2, PoolTypeCorrect, PTL DEF Spec

(* The contract implements the log of recent roots: its constructor creates   *)
(* it, mintFromXburn publishes one leaf, no other call touches it.            *)
THEOREM PoolRefinesRootLog == Spec => ImplementsRootLog
<1>1. constructor => Log!LogInit
  <2> SUFFICES ASSUME constructor PROVE Log!LogInit
    OBVIOUS
  <2>1. AcceptedRoots(tree) = Recent(0) /\ tree.next_index = 0
    BY EmptyTreeRing, RingAccepts DEF constructor
  <2>2. Recent(0) = {0}
    BY BoundAssumption DEF Recent
  <2> QED
    BY <2>1, <2>2 DEF Log!LogInit
<1>2. /\ TypeOK /\ TypeOK' /\ RingHolds(tree) /\ RingHolds(tree)' /\ [Next]_vars
      => [Log!LogNext]_(Log!logVars)
  <2> SUFFICES ASSUME TypeOK, TypeOK', RingHolds(tree), RingHolds(tree)', [Next]_vars
               PROVE  Log!LogNext \/ UNCHANGED Log!logVars
    OBVIOUS
  <2>0. /\ tree \in TreeAccount /\ tree' \in TreeAccount /\ RingHolds(tree')
        /\ tree.next_index \in Nat
    BY BoundAssumption DEF TypeOK, TreeAccount, RingHolds, Age
  <2>1. CASE Xburn \/ AddPending \/ UNCHANGED vars
    <3>1. tree' = tree
      BY <2>1 DEF Xburn, xburn, AddPending, addPending, vars
    <3> QED
      BY <3>1 DEF Log!logVars, AcceptedRoots, is_known_root
  <2>2. CASE MintFromXburn
    <3>1. has_room(tree) /\ tree' = tree_insert(tree)
      BY <2>2 DEF MintFromXburn, mintFromXburn, insert
    <3>2. tree'.next_index = tree.next_index + 1
      BY <2>0, <3>1, InsertType
    <3>3. AcceptedRoots(tree) = Recent(tree.next_index)
      BY <2>0, RingAccepts
    <3>4. AcceptedRoots(tree') = Recent(tree'.next_index)
      BY <2>0, RingAccepts
    <3>5. AcceptedRoots(tree)' = AcceptedRoots(tree')
      BY DEF AcceptedRoots, is_known_root
    <3>6. AcceptedRoots(tree) # {}
      BY <2>0, <3>3, BoundAssumption DEF Recent
    <3>7. Log!Publish(1)
      BY <2>0, <3>1, <3>2, <3>4, <3>5, <3>6, BoundAssumption
      DEF Log!Publish, Log!Recent, Recent, has_room
    <3> QED
      BY <3>7 DEF Log!LogNext
  <2> QED
    BY <2>1, <2>2 DEF Next
<1> QED
  BY <1>1, <1>2, PoolTypeCorrect, PoolRing, PTL DEF Spec, ImplementsRootLog, Log!LogSpec

-----------------------------------------------------------------------------
(* The leaves under a root are leaves of the tree.                            *)
LEMMA PoolMembersInTree ==
  ASSUME TypeOK, NEW r \in Roots
  PROVE  Members(r) \subseteq InTree
<1>1. /\ DOMAIN leaves = 1..Len(leaves) /\ Len(leaves) \in Nat
      /\ r \in 0..Len(leaves)
  BY DEF TypeOK, Roots
<1>2. 1..r \subseteq DOMAIN leaves
  BY <1>1
<1> QED
  BY <1>2 DEF Members, InTree, Range

(* Backing, for any number of notes, tokens and calls: what the notes of the  *)
(* pool can still claim plus what was burned for other chains never exceeds   *)
(* the source notes minted here, each counted once.  xburn moves a note from  *)
(* the first sum to the second (ClaimSpend, NotesOfMore); a mint adds as much *)
(* to the tree as its nullifier, new among the minted ones, stands for.       *)
THEOREM PoolBacked == Spec => []PoolIsBacked
<1>1. constructor => PoolIsBacked
  <2> SUFFICES ASSUME constructor, NEW t \in Tokens
               PROVE  Worth(Unspent(InTree, nullifierSpent, t))
                        + Worth(NotesOf(nullifierSpent, t)) <= Worth(NotesOf(minted, t))
    BY DEF PoolIsBacked
  <2>1. /\ Unspent(InTree, nullifierSpent, t) = {} /\ NotesOf(nullifierSpent, t) = {}
        /\ NotesOf(minted, t) = {}
    BY DEF constructor, Unspent, InTree, Range, NotesOf
  <2>2. Worth({}) = 0
    <3>1. Coins({}) = {}
      BY DEF Coins
    <3> QED
      BY <3>1, FS_EmptySet DEF Worth
  <2> QED
    BY <2>1, <2>2
<1>2. TypeOK /\ PoolIsBacked /\ [Next]_vars => PoolIsBacked'
  <2> SUFFICES ASSUME TypeOK, PoolIsBacked, [Next]_vars, NEW t \in Tokens
               PROVE  Worth(Unspent(InTree', nullifierSpent', t))
                        + Worth(NotesOf(nullifierSpent', t)) <= Worth(NotesOf(minted', t))
    BY DEF PoolIsBacked
  <2> DEFINE Claims(T, R) == Worth(Unspent(T, R, t))
             Behind(R) == Worth(NotesOf(R, t))
  <2>a. InTree \in SUBSET Commitments
    BY DEF TypeOK, InTree, Range
  <2>b. \A X \in SUBSET Commitments : \A Y : Claims(X, Y) \in Nat
    BY WorthType DEF Unspent
  <2>c. \A Y : Behind(Y) \in Nat
    BY WorthType DEF NotesOf
  <2>d. Claims(InTree, nullifierSpent) + Behind(nullifierSpent) <= Behind(minted)
    BY DEF PoolIsBacked
  <2>e. \A c \in Commitments : ValueIn(c, t) \in Nat
    BY NoteTypes DEF ValueIn
  <2> HIDE DEF Claims, Behind
  <2>1. CASE Xburn
    <3> PICK src, c \in Commitments, r \in Roots, d \in Chains :
               xburn(r, src, NullifierOf[src], d, c)
      BY <2>1 DEF Xburn
    <3>1. /\ InTree' = InTree /\ minted' = minted
          /\ nullifierSpent' = nullifierSpent \cup {NullifierOf[src]}
      BY DEF xburn, InTree
    <3>2. src \in InTree /\ NullifierOf[src] \notin nullifierSpent
      BY PoolMembersInTree DEF xburn, xburn_circuit
    <3>3. Claims(InTree, nullifierSpent') + ValueIn(src, t)
            <= Claims(InTree, nullifierSpent)
      BY <2>a, <3>1, <3>2, ClaimSpend DEF Claims
    <3>4. Behind(nullifierSpent') = Behind(nullifierSpent) + ValueIn(src, t)
      BY <3>1, <3>2, NotesOfMore DEF Behind
    <3>5. Claims(InTree', nullifierSpent') + Behind(nullifierSpent') <= Behind(minted')
      BY <2>a, <2>b, <2>c, <2>d, <2>e, <3>1, <3>3, <3>4
    <3> QED
      BY <3>5 DEF Claims, Behind
  <2>2. CASE MintFromXburn
    <3> PICK src, c \in Commitments, d \in Chains :
               mintFromXburn(src, NullifierOf[src], d, c)
      BY <2>2 DEF MintFromXburn
    <3>1. /\ nullifierSpent' = nullifierSpent
          /\ minted' = minted \cup {NullifierOf[src]} /\ NullifierOf[src] \notin minted
      BY DEF mintFromXburn
    <3>2. InTree' = InTree \cup {c}
      <4>1. InTree' = Range(Append(leaves, c)) /\ InTree = Range(leaves)
        BY DEF mintFromXburn, insert, InTree
      <4> QED
        BY <4>1, AppendElements DEF TypeOK
    <3>3. ValueIn(c, t) = ValueIn(src, t)
      BY DEF mintFromXburn, xburn_circuit, ValueIn
    <3>4. Claims(InTree', nullifierSpent) <= Claims(InTree, nullifierSpent) + ValueIn(c, t)
      BY <2>a, <3>2, ClaimInsert DEF Claims
    <3>5. Behind(minted') = Behind(minted) + ValueIn(src, t)
      BY <3>1, NotesOfMore DEF Behind
    <3>6. InTree' \in SUBSET Commitments
      BY <2>a, <3>2
    <3>7. Claims(InTree', nullifierSpent') + Behind(nullifierSpent') <= Behind(minted')
      BY <2>a, <2>b, <2>c, <2>d, <2>e, <3>1, <3>3, <3>4, <3>5, <3>6
    <3> QED
      BY <3>7 DEF Claims, Behind
  <2>3. CASE AddPending \/ UNCHANGED vars
    <3>1. InTree' = InTree /\ nullifierSpent' = nullifierSpent /\ minted' = minted
      BY <2>3 DEF AddPending, addPending, vars, InTree
    <3> QED
      BY <2>d, <3>1 DEF Claims, Behind
  <2> QED
    BY <2>1, <2>2, <2>3 DEF Next
<1> QED
  BY <1>1, <1>2, PoolTypeCorrect, PTL DEF Spec

-----------------------------------------------------------------------------
(* A successful call appends its event: it is the last of its name about its  *)
(* nullifier, and what the log said before is still there.                    *)
LEMMA EventAdded ==
  ASSUME TypeOK, NEW name \in {"XBurned", "PendingAdded", "Minted"},
         NEW nf \in Nullifiers, NEW d \in Chains, NEW c \in Commitments,
         emit(name, nf, d, c)
  PROVE  /\ \A i \in DOMAIN log : i \in DOMAIN log' /\ log'[i] = log[i]
                                  /\ i < Len(log) + 1
         /\ Len(log) + 1 \in DOMAIN log'
         /\ log'[Len(log) + 1] = [event |-> name, nullifier |-> nf, dest |-> <<d, c>>]
         /\ EventsOf(name, nf)' = EventsOf(name, nf) \cup {Len(log) + 1}
         /\ \A n, x : n # name \/ x # nf => EventsOf(n, x)' = EventsOf(n, x)
<1> DEFINE e == [event |-> name, nullifier |-> nf, dest |-> <<d, c>>]
           last == Len(log) + 1
<1>1. /\ DOMAIN log' = DOMAIN log \cup {last}
      /\ \A i \in DOMAIN log : log'[i] = log[i] /\ i < last
      /\ log'[last] = e
  BY DEF TypeOK, emit
<1>2. last \notin DOMAIN log
  BY DEF TypeOK
<1> HIDE DEF last
<1>3. e.event = name /\ e.nullifier = nf
  OBVIOUS
<1>4. EventsOf(name, nf)' = EventsOf(name, nf) \cup {last}
  BY <1>1, <1>2, <1>3 DEF EventsOf
<1>5. ASSUME NEW n, NEW x, n # name \/ x # nf
      PROVE  EventsOf(n, x)' = EventsOf(n, x)
  BY <1>1, <1>2, <1>3, <1>5 DEF EventsOf
<1> QED
  BY <1>1, <1>4, <1>5 DEF last

(* What the storage says about the log: a pending word is the destination of   *)
(* the latest attestation, minted are the nullifiers with a Minted event, and  *)
(* every leaf is the destination of one.                                       *)
StorageFollowsLog ==
  /\ \A nf \in Nullifiers : pendingMint[nf] # NotPending =>
       \E j \in EventsOf("PendingAdded", nf) :
         /\ log[j].dest = pendingMint[nf]
         /\ \A i \in EventsOf("PendingAdded", nf) : i <= j
  /\ minted = {nf \in Nullifiers : EventsOf("Minted", nf) # {}}
  /\ \A c \in InTree : \E m \in Nullifiers : \E j \in EventsOf("Minted", m) :
       log[j].dest[2] = c

(* Events have positions in the log.                                           *)
LEMMA EventPositions ==
  ASSUME TypeOK
  PROVE  \A n, x : EventsOf(n, x) \subseteq DOMAIN log
BY DEF EventsOf

(* Every step keeps StorageFollowsLog: addPending writes the word and the event *)
(* of an attestation together, mintFromXburn the guard, the leaf and its event. *)
LEMMA StorageFollowsStep ==
  ASSUME TypeOK, StorageFollowsLog, [Next]_vars
  PROVE  StorageFollowsLog'
<1> DEFINE last == Len(log) + 1
<1>0. \A n, x : EventsOf(n, x) \subseteq DOMAIN log
  BY EventPositions
<1>1. CASE Xburn
  <2> PICK src, c \in Commitments, r \in Roots, d \in Chains :
             xburn(r, src, NullifierOf[src], d, c)
    BY <1>1 DEF Xburn
  <2>1. emit("XBurned", NullifierOf[src], d, c)
    BY DEF xburn
  <2>2. \A i \in DOMAIN log : log'[i] = log[i]
    BY <2>1, EventAdded, NoteTypes
  <2>a. \A n, x : n # "XBurned" \/ x # NullifierOf[src] =>
          EventsOf(n, x)' = EventsOf(n, x)
    BY <2>1, EventAdded, NoteTypes
  <2>b. \A x : /\ EventsOf("Minted", x)' = EventsOf("Minted", x)
               /\ EventsOf("PendingAdded", x)' = EventsOf("PendingAdded", x)
    BY <2>a
  <2>3. UNCHANGED <<pendingMint, minted>> /\ InTree' = InTree
    BY DEF xburn, InTree
  <2> QED
    BY <1>0, <2>2, <2>b, <2>3 DEF StorageFollowsLog
<1>2. CASE AddPending
  <2> PICK s \in Callers, a \in Nullifiers, d \in Chains, c \in Commitments :
             addPending(s, a, d, c)
    BY <1>2 DEF AddPending
  <2>1. emit("PendingAdded", a, d, c)
    BY DEF addPending
  <2>a. log'[last] = [event |-> "PendingAdded", nullifier |-> a, dest |-> <<d, c>>]
    BY <2>1, EventAdded
  <2>2. /\ \A i \in DOMAIN log : log'[i] = log[i] /\ i < last
        /\ log'[last].dest = <<d, c>>
        /\ EventsOf("PendingAdded", a)' = EventsOf("PendingAdded", a) \cup {last}
        /\ \A x : x # a =>
             EventsOf("PendingAdded", x)' = EventsOf("PendingAdded", x)
        /\ \A x : EventsOf("Minted", x)' = EventsOf("Minted", x)
    BY <2>1, <2>a, EventAdded
  <2>3. /\ pendingMint' = [pendingMint EXCEPT ![a] = <<d, c>>]
        /\ minted' = minted /\ InTree' = InTree
    BY DEF addPending, InTree, keccak
  <2>4. ASSUME NEW nf \in Nullifiers, pendingMint'[nf] # NotPending
        PROVE  \E j \in EventsOf("PendingAdded", nf)' :
                 /\ log'[j].dest = pendingMint'[nf]
                 /\ \A i \in EventsOf("PendingAdded", nf)' : i <= j
    <3>1. CASE nf = a
      <4>1. pendingMint'[nf] = <<d, c>>
        BY <2>3, <3>1 DEF TypeOK
      <4>2. last \in EventsOf("PendingAdded", nf)'
        BY <2>2, <3>1
      <4>3. \A i \in EventsOf("PendingAdded", nf)' : i <= last
        <5>1. DOMAIN log = 1..Len(log) /\ Len(log) \in Nat
          BY DEF TypeOK
        <5> QED
          BY <1>0, <2>2, <3>1, <5>1
      <4> QED
        BY <2>2, <4>1, <4>2, <4>3
    <3>2. CASE nf # a
      <4>1. pendingMint'[nf] = pendingMint[nf]
        BY <2>3, <3>2 DEF TypeOK
      <4> QED
        BY <1>0, <2>2, <2>4, <3>2, <4>1 DEF StorageFollowsLog
    <3> QED
      BY <3>1, <3>2
  <2>5. minted' = {nf \in Nullifiers : EventsOf("Minted", nf)' # {}}
    BY <2>2, <2>3 DEF StorageFollowsLog
  <2>6. \A x \in InTree' : \E m \in Nullifiers : \E j \in EventsOf("Minted", m)' :
          log'[j].dest[2] = x
    BY <1>0, <2>2, <2>3 DEF StorageFollowsLog
  <2> QED
    BY <2>4, <2>5, <2>6 DEF StorageFollowsLog
<1>3. CASE MintFromXburn
  <2> PICK src, c \in Commitments, d \in Chains :
             mintFromXburn(src, NullifierOf[src], d, c)
    BY <1>3 DEF MintFromXburn
  <2> DEFINE a == NullifierOf[src]
  <2>0. a \in Nullifiers
    BY NoteTypes
  <2>1. emit("Minted", a, d, c)
    BY DEF mintFromXburn
  <2>a. log'[last] = [event |-> "Minted", nullifier |-> a, dest |-> <<d, c>>]
    BY <2>0, <2>1, EventAdded
  <2>2. /\ \A i \in DOMAIN log : log'[i] = log[i]
        /\ log'[last].dest = <<d, c>>
        /\ EventsOf("Minted", a)' = EventsOf("Minted", a) \cup {last}
        /\ \A x : x # a => EventsOf("Minted", x)' = EventsOf("Minted", x)
        /\ \A x : EventsOf("PendingAdded", x)' = EventsOf("PendingAdded", x)
    BY <2>0, <2>1, <2>a, EventAdded
  <2>3. /\ pendingMint' = [pendingMint EXCEPT ![a] = NotPending]
        /\ minted' = minted \cup {a}
    BY DEF mintFromXburn
  <2>4. InTree' = InTree \cup {c}
    <3>1. InTree' = Range(Append(leaves, c)) /\ InTree = Range(leaves)
      BY DEF mintFromXburn, insert, InTree
    <3> QED
      BY <3>1, AppendElements DEF TypeOK
  <2> HIDE DEF a, last
  <2>5. ASSUME NEW nf \in Nullifiers, pendingMint'[nf] # NotPending
        PROVE  \E j \in EventsOf("PendingAdded", nf)' :
                 /\ log'[j].dest = pendingMint'[nf]
                 /\ \A i \in EventsOf("PendingAdded", nf)' : i <= j
    <3>1. pendingMint'[nf] = pendingMint[nf]
      BY <2>3, <2>5 DEF TypeOK
    <3>2. PICK j \in EventsOf("PendingAdded", nf) :
             /\ log[j].dest = pendingMint[nf]
             /\ \A i \in EventsOf("PendingAdded", nf) : i <= j
      BY <2>5, <3>1 DEF StorageFollowsLog
    <3>3. log'[j] = log[j]
      BY <1>0, <2>2
    <3> QED
      BY <2>2, <3>1, <3>2, <3>3
  <2>6. minted' = {nf \in Nullifiers : EventsOf("Minted", nf)' # {}}
    BY <2>0, <2>2, <2>3 DEF StorageFollowsLog
  <2>7. ASSUME NEW x \in InTree'
        PROVE  \E m \in Nullifiers : \E j \in EventsOf("Minted", m)' :
                 log'[j].dest[2] = x
    <3>1. CASE x = c
      BY <2>0, <2>2, <3>1
    <3>2. CASE x \in InTree
      <4> PICK m \in Nullifiers : \E j \in EventsOf("Minted", m) : log[j].dest[2] = x
        BY <3>2 DEF StorageFollowsLog
      <4> PICK j \in EventsOf("Minted", m) : log[j].dest[2] = x
        OBVIOUS
      <4>1. j \in EventsOf("Minted", m)' /\ log'[j] = log[j]
        BY <1>0, <2>2
      <4> QED
        BY <4>1
    <3> QED
      BY <2>4, <2>7, <3>1, <3>2
  <2> QED
    BY <2>5, <2>6, <2>7 DEF StorageFollowsLog
<1>4. CASE UNCHANGED vars
  BY <1>4 DEF vars, StorageFollowsLog, EventsOf, InTree
<1> QED
  BY <1>1, <1>2, <1>3, <1>4 DEF Next

(* ... and so of every behaviour.                                              *)
LEMMA StorageInvariant == Spec => []StorageFollowsLog
<1>1. constructor => StorageFollowsLog
  BY DEF constructor, StorageFollowsLog, EventsOf, InTree, Range
<1>2. TypeOK /\ StorageFollowsLog /\ [Next]_vars => StorageFollowsLog'
  BY StorageFollowsStep
<1> QED
  BY <1>1, <1>2, PoolTypeCorrect, PTL DEF Spec

-----------------------------------------------------------------------------
(* Every mint follows the operator's latest attestation, for any number of     *)
(* calls: the word that mintFromXburn compares is the destination of that       *)
(* attestation, minted keeps it the last one, and a nullifier is minted once,   *)
(* in the step that appends its note.                                          *)
THEOREM MintsFollow == Spec => []MintsFollowAttestations
<1> DEFINE Attested(nf, k) ==
             \E j \in EventsOf("PendingAdded", nf) :
               /\ j < k
               /\ log[j].dest = log[k].dest /\ log[k].dest[1] = chainid
               /\ \A i \in EventsOf("PendingAdded", nf) : i <= j
<1>1. constructor => MintsFollowAttestations
  BY DEF constructor, MintsFollowAttestations, EventsOf
<1>2. TypeOK /\ StorageFollowsLog /\ MintsFollowAttestations /\ [Next]_vars
      => MintsFollowAttestations'
  <2> SUFFICES ASSUME TypeOK, StorageFollowsLog, MintsFollowAttestations, [Next]_vars
               PROVE  MintsFollowAttestations'
    OBVIOUS
  <2>m. \A nf \in Nullifiers : nf \in minted' => EventsOf("Minted", nf)' # {}
    BY StorageFollowsStep DEF StorageFollowsLog
  <2> SUFFICES ASSUME NEW nf \in Nullifiers, NEW k \in EventsOf("Minted", nf)'
               PROVE  /\ Attested(nf, k)' /\ EventsOf("Minted", nf)' = {k}
                      /\ log'[k].dest[2] \in InTree'
    BY <2>m DEF MintsFollowAttestations
  <2> DEFINE last == Len(log) + 1
  <2>0. \A n, x : EventsOf(n, x) \subseteq DOMAIN log
    BY EventPositions
  <2>a. ASSUME EventsOf("Minted", nf)' = EventsOf("Minted", nf),
               EventsOf("PendingAdded", nf)' = EventsOf("PendingAdded", nf),
               \A i \in DOMAIN log : log'[i] = log[i],
               InTree \subseteq InTree'
        PROVE  /\ Attested(nf, k)' /\ EventsOf("Minted", nf)' = {k}
               /\ log'[k].dest[2] \in InTree'
    <3>1. k \in EventsOf("Minted", nf)
      BY <2>a
    <3>2. PICK j \in EventsOf("PendingAdded", nf) :
             /\ j < k
             /\ log[j].dest = log[k].dest /\ log[k].dest[1] = chainid
             /\ \A i \in EventsOf("PendingAdded", nf) : i <= j
      BY <3>1 DEF MintsFollowAttestations
    <3>3. log'[j] = log[j] /\ log'[k] = log[k]
      BY <2>0, <2>a, <3>1
    <3>4. EventsOf("Minted", nf) = {k} /\ log[k].dest[2] \in InTree
      BY <3>1 DEF MintsFollowAttestations
    <3> QED
      BY <2>a, <3>2, <3>3, <3>4
  <2>1. CASE Xburn
    <3> PICK src, c \in Commitments, r \in Roots, d \in Chains :
               xburn(r, src, NullifierOf[src], d, c)
      BY <2>1 DEF Xburn
    <3>1. emit("XBurned", NullifierOf[src], d, c)
      BY DEF xburn
    <3>2. \A i \in DOMAIN log : log'[i] = log[i]
      BY <3>1, EventAdded, NoteTypes
    <3>3. \A n, x : n # "XBurned" \/ x # NullifierOf[src] =>
            EventsOf(n, x)' = EventsOf(n, x)
      BY <3>1, EventAdded, NoteTypes
    <3>4. /\ EventsOf("Minted", nf)' = EventsOf("Minted", nf)
          /\ EventsOf("PendingAdded", nf)' = EventsOf("PendingAdded", nf)
      BY <3>3
    <3>5. InTree' = InTree
      BY DEF xburn, InTree
    <3> QED
      BY <2>a, <3>2, <3>4, <3>5
  <2>2. CASE AddPending
    <3> PICK s \in Callers, a \in Nullifiers, d \in Chains, c \in Commitments :
               addPending(s, a, d, c)
      BY <2>2 DEF AddPending
    <3>1. emit("PendingAdded", a, d, c) /\ a \notin minted
      BY DEF addPending
    <3>2. \A i \in DOMAIN log : log'[i] = log[i]
      BY <3>1, EventAdded
    <3>3. \A n, x : n # "PendingAdded" \/ x # a => EventsOf(n, x)' = EventsOf(n, x)
      BY <3>1, EventAdded
    <3>4. EventsOf("Minted", nf)' = EventsOf("Minted", nf)
      BY <3>3
    <3>5. nf # a
      BY <3>1, <3>4 DEF StorageFollowsLog
    <3>6. InTree' = InTree
      BY DEF addPending, InTree
    <3> QED
      BY <2>a, <3>2, <3>3, <3>4, <3>5, <3>6
  <2>3. CASE MintFromXburn
    <3> PICK src, c \in Commitments, d \in Chains :
               mintFromXburn(src, NullifierOf[src], d, c)
      BY <2>3 DEF MintFromXburn
    <3>0. NullifierOf[src] \in Nullifiers
      BY NoteTypes
    <3>1. /\ emit("Minted", NullifierOf[src], d, c)
          /\ NullifierOf[src] \notin minted
          /\ pendingMint[NullifierOf[src]] = <<d, c>> /\ d = chainid
      BY DEF mintFromXburn, keccak
    <3>a. log'[last] = [event |-> "Minted", nullifier |-> NullifierOf[src], dest |-> <<d, c>>]
      BY <3>0, <3>1, EventAdded
    <3>2. /\ \A i \in DOMAIN log : log'[i] = log[i] /\ i < last
          /\ log'[last].dest = <<d, c>>
          /\ EventsOf("Minted", NullifierOf[src])'
               = EventsOf("Minted", NullifierOf[src]) \cup {last}
          /\ \A x : x # NullifierOf[src] =>
               EventsOf("Minted", x)' = EventsOf("Minted", x)
          /\ \A x : EventsOf("PendingAdded", x)' = EventsOf("PendingAdded", x)
      BY <3>0, <3>1, <3>a, EventAdded
    <3>b. InTree' = InTree \cup {c}
      <4>1. InTree' = Range(Append(leaves, c)) /\ InTree = Range(leaves)
        BY DEF mintFromXburn, insert, InTree
      <4> QED
        BY <4>1, AppendElements DEF TypeOK
    <3>3. CASE nf # NullifierOf[src]
      BY <2>a, <3>2, <3>3, <3>b
    <3>4. CASE nf = NullifierOf[src]
      <4>1. EventsOf("Minted", nf)' = {last} /\ k = last
        BY <3>0, <3>1, <3>2, <3>4 DEF StorageFollowsLog
      <4>2. pendingMint[nf] # NotPending
        BY <3>1, <3>4, EvmAssumption
      <4>3. PICK j \in EventsOf("PendingAdded", nf) :
               /\ log[j].dest = <<d, c>>
               /\ \A i \in EventsOf("PendingAdded", nf) : i <= j
        BY <3>1, <3>4, <4>2 DEF StorageFollowsLog
      <4>4. log'[j].dest = <<d, c>> /\ j < last
        BY <2>0, <3>2, <4>3
      <4>5. log'[k].dest = <<d, c>> /\ log'[k].dest[1] = chainid
        BY <3>1, <3>2, <4>1
      <4>6. log'[k].dest[2] \in InTree'
        BY <3>b, <4>5
      <4> QED
        BY <3>2, <4>1, <4>3, <4>4, <4>5, <4>6
    <3> QED
      BY <3>3, <3>4
  <2>4. CASE UNCHANGED vars
    BY <2>4, <2>a DEF vars, EventsOf, InTree
  <2> QED
    BY <2>1, <2>2, <2>3, <2>4 DEF Next
<1> QED
  BY <1>1, <1>2, PoolTypeCorrect, StorageInvariant, PTL DEF Spec

(* The log tells the truth about burns, for any number of calls: it has exactly *)
(* one XBurned event for each spent nullifier, after a mint of the note burned. *)
THEOREM BurnsFollow == Spec => []BurnsFollowMints
<1> DEFINE Burned(nf) ==
             \E k \in DOMAIN log : \E m \in Nullifiers :
               /\ EventsOf("XBurned", nf) = {k}
               /\ \E j \in EventsOf("Minted", m) :
                    j < k /\ NullifierOf[log[j].dest[2]] = nf
<1>1. constructor => BurnsFollowMints
  BY DEF constructor, BurnsFollowMints, EventsOf
<1>2. TypeOK /\ StorageFollowsLog /\ BurnsFollowMints /\ [Next]_vars => BurnsFollowMints'
  <2> SUFFICES ASSUME TypeOK, StorageFollowsLog, BurnsFollowMints, [Next]_vars
               PROVE  /\ nullifierSpent' =
                           {nf \in Nullifiers : EventsOf("XBurned", nf)' # {}}
                      /\ \A nf \in nullifierSpent' : Burned(nf)'
    BY DEF BurnsFollowMints
  <2> DEFINE last == Len(log) + 1
  <2>0. \A n, x : EventsOf(n, x) \subseteq DOMAIN log
    BY EventPositions
  <2>a. ASSUME NEW nf \in nullifierSpent,
               EventsOf("XBurned", nf)' = EventsOf("XBurned", nf),
               \A m \in Nullifiers : EventsOf("Minted", m) \subseteq EventsOf("Minted", m)',
               \A i \in DOMAIN log : i \in DOMAIN log' /\ log'[i] = log[i]
        PROVE  Burned(nf)'
    <3>1. PICK k \in DOMAIN log, m \in Nullifiers :
             /\ EventsOf("XBurned", nf) = {k}
             /\ \E j \in EventsOf("Minted", m) :
                  j < k /\ NullifierOf[log[j].dest[2]] = nf
      BY DEF BurnsFollowMints
    <3>2. PICK j \in EventsOf("Minted", m) : j < k /\ NullifierOf[log[j].dest[2]] = nf
      BY <3>1
    <3>3. k \in DOMAIN log' /\ log'[j] = log[j] /\ j \in EventsOf("Minted", m)'
      BY <2>0, <2>a
    <3> QED
      BY <2>a, <3>1, <3>2, <3>3
  <2>1. CASE Xburn
    <3> PICK src, c \in Commitments, r \in Roots, d \in Chains :
               xburn(r, src, NullifierOf[src], d, c)
      BY <2>1 DEF Xburn
    <3> DEFINE b == NullifierOf[src]
    <3>0. b \in Nullifiers
      BY NoteTypes
    <3>1. /\ emit("XBurned", b, d, c)
          /\ nullifierSpent' = nullifierSpent \cup {b} /\ b \notin nullifierSpent
          /\ src \in InTree
      BY PoolMembersInTree DEF xburn, xburn_circuit
    <3>a. /\ \A i \in DOMAIN log : i \in DOMAIN log' /\ log'[i] = log[i] /\ i < last
          /\ last \in DOMAIN log'
          /\ EventsOf("XBurned", b)' = EventsOf("XBurned", b) \cup {last}
      BY <3>0, <3>1, EventAdded
    <3>b. \A n, x : n # "XBurned" \/ x # b => EventsOf(n, x)' = EventsOf(n, x)
      BY <3>0, <3>1, EventAdded
    <3>c. \A x : EventsOf("Minted", x)' = EventsOf("Minted", x)
      BY <3>b
    <3> HIDE DEF b, last
    <3>3. nullifierSpent' = {nf \in Nullifiers : EventsOf("XBurned", nf)' # {}}
      BY <3>0, <3>1, <3>a, <3>b DEF BurnsFollowMints
    <3>4. EventsOf("XBurned", b)' = {last}
      BY <3>0, <3>1, <3>a, <3>b DEF BurnsFollowMints
    <3>5. PICK m \in Nullifiers : \E j \in EventsOf("Minted", m) : log[j].dest[2] = src
      BY <3>1 DEF StorageFollowsLog
    <3>6. PICK j \in EventsOf("Minted", m) : log[j].dest[2] = src
      BY <3>5
    <3>7. /\ j \in EventsOf("Minted", m)' /\ j < last
          /\ NullifierOf[log'[j].dest[2]] = b
      BY <2>0, <3>a, <3>c, <3>6 DEF b
    <3>8. Burned(b)'
      BY <3>a, <3>4, <3>7
    <3>9. ASSUME NEW nf \in nullifierSpent' PROVE Burned(nf)'
      <4>1. CASE nf = b
        BY <3>8, <4>1
      <4>2. CASE nf # b
        BY <2>a, <3>1, <3>a, <3>b, <3>c, <4>2
      <4> QED
        BY <4>1, <4>2
    <3> QED
      BY <3>3, <3>9
  <2>2. CASE AddPending
    <3> PICK s \in Callers, a \in Nullifiers, d \in Chains, c \in Commitments :
               addPending(s, a, d, c)
      BY <2>2 DEF AddPending
    <3>1. emit("PendingAdded", a, d, c) /\ nullifierSpent' = nullifierSpent
      BY DEF addPending
    <3>2. \A i \in DOMAIN log : i \in DOMAIN log' /\ log'[i] = log[i]
      BY <3>1, EventAdded
    <3>3. \A n, x : n # "PendingAdded" => EventsOf(n, x)' = EventsOf(n, x)
      BY <3>1, EventAdded
    <3> QED
      BY <2>a, <3>1, <3>2, <3>3 DEF BurnsFollowMints
  <2>3. CASE MintFromXburn
    <3> PICK src, c \in Commitments, d \in Chains :
               mintFromXburn(src, NullifierOf[src], d, c)
      BY <2>3 DEF MintFromXburn
    <3>1. /\ emit("Minted", NullifierOf[src], d, c)
          /\ nullifierSpent' = nullifierSpent
      BY DEF mintFromXburn
    <3>2. \A i \in DOMAIN log : i \in DOMAIN log' /\ log'[i] = log[i]
      BY <3>1, EventAdded, NoteTypes
    <3>a. NullifierOf[src] \in Nullifiers
      BY NoteTypes
    <3>b. EventsOf("Minted", NullifierOf[src])'
            = EventsOf("Minted", NullifierOf[src]) \cup {last}
      BY <3>1, <3>a, EventAdded
    <3>3. \A n, x : n # "Minted" \/ x # NullifierOf[src] =>
            EventsOf(n, x)' = EventsOf(n, x)
      BY <3>1, <3>a, EventAdded
    <3>4. \A x : EventsOf("XBurned", x)' = EventsOf("XBurned", x)
      BY <3>3
    <3>5. \A x : EventsOf("Minted", x) \subseteq EventsOf("Minted", x)'
      <4>1. \A x : x # NullifierOf[src] =>
              EventsOf("Minted", x)' = EventsOf("Minted", x)
        BY <3>3
      <4> HIDE DEF last
      <4> QED
        BY <3>b, <4>1
    <3> QED
      BY <2>a, <3>1, <3>2, <3>4, <3>5 DEF BurnsFollowMints
  <2>4. CASE UNCHANGED vars
    BY <2>4 DEF vars, EventsOf, BurnsFollowMints
  <2> QED
    BY <2>1, <2>2, <2>3, <2>4 DEF Next
<1> QED
  BY <1>1, <1>2, PoolTypeCorrect, StorageInvariant, PTL DEF Spec
=============================================================================
