------------------------------ MODULE PoolLemmas ------------------------------
(***************************************************************************)
(* Lemmas that the proofs about the pools share.  The value of notes, counted *)
(* in coins: additive over disjoint sets of notes, monotone, and the amount of *)
(* its opening for a single note.  The ring of recent roots: what an insertion *)
(* does to it, for every ring size and every capacity.                         *)
(***************************************************************************)
EXTENDS Notes, RootRing, Sequences, Functions, FiniteSetTheorems,
        WellFoundedInduction, TLAPS

(* The opening of a note and its nullifier are of the types the assumption    *)
(* gives them, so that a proof need not expand it.                            *)
LEMMA NoteTypes ==
  ASSUME NEW c \in Commitments
  PROVE  /\ NullifierOf[c] \in Nullifiers
         /\ TokenOf[c] \in Tokens
         /\ AmountOf[c] \in Nat
         /\ AmountOf[c] <= MaxAmount
BY NoteAssumption

(* A set of naturals has a least element.                                    *)
LEMMA LeastElement ==
  ASSUME NEW S \in SUBSET Nat, S # {}
  PROVE  \E x \in S : \A y \in S : x <= y
<1> DEFINE R == OpToRel(<, Nat)
<1>1. PICK x \in S : \A y \in S : ~(<<y, x>> \in R)
  <2>1. IsWellFoundedOn(R, Nat)
    BY NatLessThanWellFounded
  <2> HIDE DEF R
  <2> QED
    BY <2>1, WFMin
<1>2. \A y \in S : ~(y < x)
  BY <1>1 DEF OpToRel
<1> QED
  BY <1>2

(* The elements of a sequence after one or two more are appended.            *)
LEMMA AppendElements ==
  ASSUME NEW S, NEW q \in Seq(S), NEW x \in S
  PROVE  Range(Append(q, x)) = Range(q) \cup {x}
<1>1. /\ DOMAIN Append(q, x) = 1..(Len(q) + 1)
      /\ DOMAIN q = 1..Len(q)
      /\ Append(q, x)[Len(q) + 1] = x
      /\ \A i \in 1..Len(q) : Append(q, x)[i] = q[i]
      /\ Len(q) \in Nat
  OBVIOUS
<1> QED
  BY <1>1 DEF Range

(* Two leaves of one transfer.                                                *)
LEMMA AppendTwoElements ==
  ASSUME NEW S, NEW q \in Seq(S), NEW x \in S, NEW y \in S
  PROVE  Range(q \o <<x, y>>) = (Range(q) \cup {x}) \cup {y}
<1> DEFINE u == q \o <<x, y>>
<1>1. /\ DOMAIN u = 1..(Len(q) + 2)
      /\ DOMAIN q = 1..Len(q)
      /\ u[Len(q) + 1] = x
      /\ u[Len(q) + 2] = y
      /\ \A i \in 1..Len(q) : u[i] = q[i]
      /\ Len(q) \in Nat
  OBVIOUS
<1> HIDE DEF u
<1>2. Range(u) = (Range(q) \cup {x}) \cup {y}
  BY <1>1 DEF Range
<1> QED
  BY <1>2 DEF u

-----------------------------------------------------------------------------
(* The value of a set of notes is a natural number.                          *)
LEMMA WorthType ==
  ASSUME NEW S \in SUBSET Commitments
  PROVE  IsFiniteSet(Coins(S)) /\ Worth(S) \in Nat
<1>1. IsFiniteSet(S)
  BY NoteAssumption, FS_Subset
<1>2. IsFiniteSet(1..MaxAmount)
  BY NoteAssumption, FS_Interval
<1>3. IsFiniteSet(S \X (1..MaxAmount))
  BY <1>1, <1>2, FS_Product
<1>4. Coins(S) \in SUBSET (S \X (1..MaxAmount))
  BY DEF Coins
<1>5. IsFiniteSet(Coins(S))
  BY <1>3, <1>4, FS_Subset
<1> QED
  BY <1>5, FS_CardinalityType DEF Worth

(* More notes are worth no less.                                             *)
LEMMA WorthMonotone ==
  ASSUME NEW T \in SUBSET Commitments, NEW S \in SUBSET T
  PROVE  Worth(S) <= Worth(T)
<1>1. Coins(S) \in SUBSET Coins(T)
  BY DEF Coins
<1> QED
  BY <1>1, WorthType, FS_Subset DEF Worth

(* Disjoint sets of notes add up.                                            *)
LEMMA WorthAdds ==
  ASSUME NEW S \in SUBSET Commitments, NEW T \in SUBSET Commitments, S \cap T = {}
  PROVE  Worth(S \cup T) = Worth(S) + Worth(T)
<1>1. Coins(S \cup T) = Coins(S) \cup Coins(T)
  BY DEF Coins
<1>2. Coins(S) \cap Coins(T) = {}
  BY DEF Coins
<1>3. Cardinality(Coins(S) \cap Coins(T)) = 0
  BY <1>2, FS_EmptySet
<1>4. /\ IsFiniteSet(Coins(S)) /\ Cardinality(Coins(S)) \in Nat
      /\ IsFiniteSet(Coins(T)) /\ Cardinality(Coins(T)) \in Nat
  BY WorthType DEF Worth
<1>5. Cardinality(Coins(S) \cup Coins(T)) =
        Cardinality(Coins(S)) + Cardinality(Coins(T))
          - Cardinality(Coins(S) \cap Coins(T))
  BY <1>4, FS_Union
<1>6. Cardinality(Coins(S \cup T)) = Cardinality(Coins(S)) + Cardinality(Coins(T))
  <2>1. Cardinality(Coins(S \cup T)) = Cardinality(Coins(S) \cup Coins(T))
    BY <1>1
  <2> QED
    BY <2>1, <1>3, <1>4, <1>5
<1> QED
  BY <1>6 DEF Worth

(* A single note is worth its amount.                                        *)
LEMMA WorthOfOne ==
  ASSUME NEW c \in Commitments
  PROVE  Worth({c}) = AmountOf[c]
<1> DEFINE n == AmountOf[c]
           f == [k \in 1..n |-> <<c, k>>]
<1>1. n \in Nat /\ n <= MaxAmount /\ MaxAmount \in Nat
  BY NoteAssumption
<1>2. Coins({c}) = {<<c, k>> : k \in 1..n}
  BY <1>1 DEF Coins
<1>3. f \in Bijection(1..n, Coins({c}))
  BY <1>2 DEF Bijection, Injection, Surjection, IsInjective
<1>4. ExistsBijection(1..n, Coins({c}))
  BY <1>3 DEF ExistsBijection
<1> QED
  BY <1>1, <1>4, FS_CountingElements DEF Worth

(* Taking a note out of a set takes away its amount.                         *)
LEMMA WorthWithout ==
  ASSUME NEW S \in SUBSET Commitments, NEW c \in S
  PROVE  Worth(S) = Worth(S \ {c}) + AmountOf[c]
<1>1. S = (S \ {c}) \cup {c} /\ (S \ {c}) \cap {c} = {}
  OBVIOUS
<1>2. Worth((S \ {c}) \cup {c}) = Worth(S \ {c}) + Worth({c})
  BY <1>1, WorthAdds
<1> QED
  BY <1>1, <1>2, WorthOfOne

(* Putting a note into a set adds its amount, or nothing if it was there.    *)
LEMMA WorthWith ==
  ASSUME NEW S \in SUBSET Commitments, NEW c \in Commitments
  PROVE  /\ Worth(S \cup {c}) <= Worth(S) + AmountOf[c]
         /\ c \notin S => Worth(S \cup {c}) = Worth(S) + AmountOf[c]
<1>1. AmountOf[c] \in Nat /\ Worth(S) \in Nat
  BY NoteAssumption, WorthType
<1>2. CASE c \in S
  <2>1. S \cup {c} = S
    BY <1>2
  <2>2. Worth(S \cup {c}) = Worth(S)
    BY <2>1
  <2> QED
    BY <1>1, <1>2, <2>2
<1>3. CASE c \notin S
  <2>1. Worth(S \cup {c}) = Worth(S) + Worth({c})
    BY <1>3, WorthAdds
  <2> QED
    BY <1>1, <2>1, WorthOfOne
<1> QED
  BY <1>2, <1>3

-----------------------------------------------------------------------------
(* A new leaf raises what can be claimed by at most its value.               *)
LEMMA ClaimInsert ==
  ASSUME NEW T \in SUBSET Commitments, NEW R, NEW t, NEW c \in Commitments
  PROVE  Worth(Unspent(T \cup {c}, R, t)) <= Worth(Unspent(T, R, t)) + ValueIn(c, t)
<1> DEFINE U == Unspent(T, R, t)
           V == Unspent(T \cup {c}, R, t)
<1> SUFFICES Worth(V) <= Worth(U) + ValueIn(c, t)
  OBVIOUS
<1>1. U \in SUBSET Commitments /\ V \in SUBSET Commitments
  BY DEF Unspent
<1>2. TokenOf[c] = t => V \in SUBSET (U \cup {c})
  BY DEF Unspent
<1>3. TokenOf[c] # t => V = U
  BY DEF Unspent
<1> HIDE DEF U, V
<1>4. Worth(U) \in Nat /\ Worth(V) \in Nat
  BY <1>1, WorthType
<1>5. AmountOf[c] \in Nat
  BY NoteAssumption
<1>6. CASE TokenOf[c] = t
  <2>1. U \cup {c} \in SUBSET Commitments
    BY <1>1
  <2>2. Worth(V) <= Worth(U \cup {c})
    BY <1>2, <1>6, <2>1, WorthMonotone
  <2>3. Worth(U \cup {c}) <= Worth(U) + AmountOf[c]
    BY <1>1, WorthWith
  <2>4. Worth(U \cup {c}) \in Nat
    BY <2>1, WorthType
  <2> QED
    BY <1>4, <1>5, <1>6, <2>2, <2>3, <2>4 DEF ValueIn
<1>7. CASE TokenOf[c] # t
  BY <1>3, <1>4, <1>7 DEF ValueIn
<1> QED
  BY <1>6, <1>7

(* Recording the nullifier of an unspent leaf, or of a dummy worth nothing,   *)
(* lowers what can be claimed by its value.                                   *)
LEMMA ClaimSpend ==
  ASSUME NEW T \in SUBSET Commitments, NEW R, NEW t, NEW c \in Commitments,
         NullifierOf[c] \notin R, c \in T \/ AmountOf[c] = 0
  PROVE  Worth(Unspent(T, R \cup {NullifierOf[c]}, t)) + ValueIn(c, t)
           <= Worth(Unspent(T, R, t))
<1> DEFINE U == Unspent(T, R, t)
           V == Unspent(T, R \cup {NullifierOf[c]}, t)
<1> SUFFICES Worth(V) + ValueIn(c, t) <= Worth(U)
  OBVIOUS
<1>1. U \in SUBSET Commitments /\ V \in SUBSET U
  BY DEF Unspent
<1>2. TokenOf[c] = t /\ c \in T => c \in U /\ V \in SUBSET (U \ {c})
  BY DEF Unspent
<1> HIDE DEF U, V
<1>3. Worth(U) \in Nat /\ Worth(V) \in Nat
  BY <1>1, WorthType
<1>4. Worth(V) <= Worth(U)
  BY <1>1, WorthMonotone
<1>5. AmountOf[c] \in Nat
  BY NoteAssumption
<1>6. CASE TokenOf[c] = t /\ c \in T
  <2>1. U \ {c} \in SUBSET Commitments
    BY <1>1
  <2>2. Worth(V) <= Worth(U \ {c})
    BY <1>2, <1>6, <2>1, WorthMonotone
  <2>3. Worth(U \ {c}) \in Nat
    BY <2>1, WorthType
  <2>4. Worth(U) = Worth(U \ {c}) + AmountOf[c]
    BY <1>1, <1>2, <1>6, WorthWithout
  <2> QED
    BY <1>3, <1>5, <1>6, <2>2, <2>3, <2>4 DEF ValueIn
<1>7. CASE ~(TokenOf[c] = t /\ c \in T)
  <2>1. ValueIn(c, t) = 0
    BY <1>7 DEF ValueIn
  <2> QED
    BY <1>3, <1>4, <2>1
<1> QED
  BY <1>6, <1>7

(* One more nullifier stands for one more note.                               *)
LEMMA NotesOfMore ==
  ASSUME NEW R, NEW t, NEW c \in Commitments, NullifierOf[c] \notin R
  PROVE  Worth(NotesOf(R \cup {NullifierOf[c]}, t))
           = Worth(NotesOf(R, t)) + ValueIn(c, t)
<1> DEFINE U == NotesOf(R, t)
           V == NotesOf(R \cup {NullifierOf[c]}, t)
<1> SUFFICES Worth(V) = Worth(U) + ValueIn(c, t)
  OBVIOUS
<1>1. U \in SUBSET Commitments /\ c \notin U
  BY DEF NotesOf
<1>2. TokenOf[c] = t => V = U \cup {c}
  BY NoteAssumption DEF NotesOf
<1>3. TokenOf[c] # t => V = U
  BY NoteAssumption DEF NotesOf
<1> HIDE DEF U, V
<1>4. Worth(U) \in Nat
  BY <1>1, WorthType
<1>5. CASE TokenOf[c] = t
  BY <1>1, <1>2, <1>5, WorthWith DEF ValueIn
<1>6. CASE TokenOf[c] # t
  BY <1>3, <1>4, <1>6 DEF ValueIn
<1> QED
  BY <1>5, <1>6

(* The notes behind some of the nullifiers and behind the others add up.      *)
LEMMA NotesOfSplit ==
  ASSUME NEW Q, NEW R \in SUBSET Q, NEW t
  PROVE  /\ Worth(NotesOf(Q, t)) = Worth(NotesOf(R, t)) + Worth(NotesOf(Q \ R, t))
         /\ Worth(NotesOf(R, t)) \in Nat /\ Worth(NotesOf(Q \ R, t)) \in Nat
<1>1. NotesOf(R, t) \in SUBSET Commitments /\ NotesOf(Q \ R, t) \in SUBSET Commitments
  BY DEF NotesOf
<1>2. /\ NotesOf(Q, t) = NotesOf(R, t) \cup NotesOf(Q \ R, t)
      /\ NotesOf(R, t) \cap NotesOf(Q \ R, t) = {}
  BY DEF NotesOf
<1> QED
  BY <1>1, <1>2, WorthAdds, WorthType

-----------------------------------------------------------------------------
(* The ring's next slot, without the modulus.                               *)
LEMMA NextSlot ==
  ASSUME NEW j \in Slots
  PROVE  (j + 1) % ROOT_HISTORY = IF j + 1 = ROOT_HISTORY THEN 0 ELSE j + 1
BY BoundAssumption, SMTT(30) DEF Slots

(* One insertion keeps the shape of the account and counts one leaf.         *)
LEMMA InsertType ==
  ASSUME NEW t \in TreeAccount, has_room(t)
  PROVE  /\ tree_insert(t) \in TreeAccount
         /\ tree_insert(t).next_index = t.next_index + 1
<1> DEFINE cri == (t.current_root_index + 1) % ROOT_HISTORY
<1>1. cri \in Slots
  BY NextSlot, BoundAssumption DEF TreeAccount, Slots
<1>2. t.next_index + 1 \in 0..Capacity
  BY BoundAssumption DEF TreeAccount, has_room
<1>3. [t.roots EXCEPT ![cri] = t.next_index + 1] \in [Slots -> Nat \cup {NoRoot}]
  BY <1>1, <1>2, BoundAssumption DEF TreeAccount
<1> QED
  BY <1>1, <1>2, <1>3 DEF TreeAccount, tree_insert

(* The ring after an insertion: every recorded root is one insertion older,   *)
(* and the oldest one is overwritten by the new root.                         *)
LEMMA InsertRing ==
  ASSUME NEW t \in TreeAccount, has_room(t), RingHolds(t)
  PROVE  RingHolds(tree_insert(t))
<1> DEFINE u == tree_insert(t)
           cri == (t.current_root_index + 1) % ROOT_HISTORY
<1>1. t.current_root_index \in Slots /\ t.next_index \in Nat
  BY BoundAssumption DEF TreeAccount
<1>2. cri = IF t.current_root_index + 1 = ROOT_HISTORY THEN 0
            ELSE t.current_root_index + 1
  BY <1>1, NextSlot
<1>3. /\ u.next_index = t.next_index + 1
      /\ u.current_root_index = cri
      /\ u.roots = [t.roots EXCEPT ![cri] = t.next_index + 1]
  BY DEF tree_insert
<1>4. t.roots \in [Slots -> Nat \cup {NoRoot}]
  BY DEF TreeAccount
<1> SUFFICES ASSUME NEW j \in Slots
             PROVE  u.roots[j] = IF Age(u, j) <= u.next_index
                                 THEN u.next_index - Age(u, j) ELSE NoRoot
  BY DEF RingHolds
<1>5. CASE j = cri
  <2>1. u.roots[j] = t.next_index + 1
    BY <1>3, <1>4, <1>5
  <2>2. Age(u, j) = 0
    BY <1>3, <1>5, BoundAssumption DEF Age, Slots
  <2> HIDE DEF u
  <2> QED
    BY <2>1, <2>2, <1>1, <1>3
<1>6. CASE j # cri
  <2>1. u.roots[j] = t.roots[j]
    BY <1>3, <1>4, <1>6
  <2>2. Age(u, j) = Age(t, j) + 1 /\ Age(t, j) \in Nat
    BY <1>1, <1>2, <1>3, <1>6, BoundAssumption DEF Age, Slots
  <2>3. t.roots[j] = IF Age(t, j) <= t.next_index
                     THEN t.next_index - Age(t, j) ELSE NoRoot
    BY DEF RingHolds
  <2> HIDE DEF u
  <2> QED
    BY <2>1, <2>2, <2>3, <1>1, <1>3
<1> QED
  BY <1>5, <1>6

(* A ring that holds what RingHolds says accepts exactly the recent prefixes. *)
LEMMA RingAccepts ==
  ASSUME NEW t \in TreeAccount, RingHolds(t)
  PROVE  AcceptedRoots(t) = Recent(t.next_index)
<1> DEFINE n == t.next_index
           cri == t.current_root_index
<1>1. n \in 0..Capacity /\ cri \in Slots
  BY DEF TreeAccount
<1>2. ASSUME NEW r \in 0..Capacity, is_known_root(t, r) PROVE r \in Recent(n)
  <2>1. PICK j \in Slots : t.roots[j] = r
    BY <1>2 DEF is_known_root
  <2>2. r = n - Age(t, j) /\ Age(t, j) <= n
    BY <1>2, <2>1 DEF RingHolds, NoRoot
  <2>3. Age(t, j) \in 0..(ROOT_HISTORY - 1)
    BY <1>1, BoundAssumption DEF Age, Slots
  <2> QED
    BY <1>1, <2>2, <2>3, BoundAssumption DEF Recent
<1>3. ASSUME NEW r \in Recent(n) PROVE r \in 0..Capacity /\ is_known_root(t, r)
  <2> DEFINE k == n - r
             j == IF k <= cri THEN cri - k ELSE cri - k + ROOT_HISTORY
  <2>1. r \in 0..n /\ k \in 0..(ROOT_HISTORY - 1)
    BY <1>1, BoundAssumption DEF Recent
  <2>2. j \in Slots
    BY <1>1, <2>1, BoundAssumption DEF Slots
  <2>3. Age(t, j) = k
    BY <1>1, <2>1, <2>2, BoundAssumption DEF Age, Slots
  <2>4. t.roots[j] = r
    BY <1>1, <2>1, <2>2, <2>3 DEF RingHolds
  <2>5. r \in 0..Capacity /\ r # NoRoot
    BY <1>1, <2>1, BoundAssumption DEF NoRoot
  <2> HIDE DEF j
  <2> QED
    BY <2>2, <2>4, <2>5 DEF is_known_root
<1> QED
  BY <1>2, <1>3 DEF AcceptedRoots

(* The tree that initialisation writes is well formed, and so is its ring.    *)
LEMMA EmptyTreeRing ==
  EmptyTree \in TreeAccount /\ RingHolds(EmptyTree) /\ EmptyTree.next_index = 0
<1>1. EmptyTree \in TreeAccount /\ EmptyTree.next_index = 0
  BY BoundAssumption DEF EmptyTree, TreeAccount, Slots, NoRoot
<1>2. RingHolds(EmptyTree)
  BY BoundAssumption DEF EmptyTree, RingHolds, Age, Slots
<1> QED
  BY <1>1, <1>2

(* An account full of zeroes is well formed and accepts no root.              *)
LEMMA NoTreeRing ==
  NoTree \in TreeAccount /\ AcceptedRoots(NoTree) = {} /\ NoTree.next_index = 0
<1>1. NoTree \in TreeAccount /\ NoTree.next_index = 0
  BY BoundAssumption DEF NoTree, TreeAccount, Slots, NoRoot
<1>2. AcceptedRoots(NoTree) = {}
  BY DEF NoTree, AcceptedRoots, is_known_root
<1> QED
  BY <1>1, <1>2
=============================================================================
