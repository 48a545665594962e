------------------------- MODULE CommitmentTreeProofs -------------------------
(***************************************************************************)
(* Theorems about the commitment tree, for every depth, every ring size and   *)
(* every set of commitments: the frontier computes the root of the complete    *)
(* tree, paths that clients rebuild reach a known root, what a path reaches was *)
(* inserted, and the tree implements a log of recent roots.                     *)
(*                                                                            *)
(* The model's operators are recursive functions on levels.  A first part       *)
(* turns each into the two equations that define it, and a second gives the      *)
(* arithmetic of positions; every induction is over the levels 0..TREE_DEPTH.    *)
(***************************************************************************)
EXTENDS CommitmentTree, SequenceTheorems, WellFoundedInduction, TLAPS

-----------------------------------------------------------------------------
(* Induction, and the defining equations.                                      *)

(* Induction over an interval of naturals, with the property as a set.       *)
LEMMA Interval ==
  ASSUME NEW N \in Nat, NEW S, 0 \in S,
         \A n \in 0..(N - 1) : n \in S => n + 1 \in S
  PROVE  \A n \in 0..N : n \in S
<1> DEFINE R == OpToRel(<, Nat)
           T == {n \in 0..N : n \notin S}
<1>1. SUFFICES ASSUME T # {} PROVE FALSE
  OBVIOUS
<1>2. PICK x \in T : \A y \in T : ~(<<y, x>> \in R)
  <2>1. IsWellFoundedOn(R, Nat)
    BY NatLessThanWellFounded
  <2>2. T \in SUBSET Nat
    OBVIOUS
  <2> HIDE DEF R, T
  <2> QED
    BY <1>1, <2>1, <2>2, WFMin
<1>3. \A y \in T : ~(y < x)
  <2>1. T \in SUBSET Nat
    OBVIOUS
  <2> HIDE DEF T
  <2> QED
    BY <1>2, <2>1 DEF OpToRel
<1>4. x # 0 /\ x - 1 \in 0..(N - 1) /\ x - 1 \notin T
  BY <1>3
<1>5. x - 1 \in S /\ (x - 1) + 1 = x
  BY <1>4
<1> QED
  BY <1>4, <1>5

(* Pow2 satisfies the equations that define it.                              *)
LEMMA Pow2Def ==
  /\ Pow2[0] = 1
  /\ \A i \in 0..(TREE_DEPTH - 1) : Pow2[i + 1] = 2 * Pow2[i]
<1> DEFINE Step(g, i) == IF i = 0 THEN 1 ELSE 2 * g[i - 1]
           S == {n \in 0..TREE_DEPTH : \E g : g = [i \in 0..n |-> Step(g, i)]}
<1>1. 0 \in S
  <2> DEFINE g == [i \in 0..0 |-> 1]
  <2>1. g = [i \in 0..0 |-> Step(g, i)]
    OBVIOUS
  <2> HIDE DEF g, Step
  <2>2. \E f : f = [i \in 0..0 |-> Step(f, i)]
    BY <2>1
  <2> QED
    BY <2>2, DepthAssumption
<1>2. ASSUME NEW n \in 0..(TREE_DEPTH - 1), n \in S
      PROVE  n + 1 \in S
  <2>1. PICK g : g = [i \in 0..n |-> Step(g, i)]
    <3> HIDE DEF Step
    <3> QED BY <1>2
  <2> DEFINE h == [i \in 0..(n + 1) |-> Step(g, i)]
  <2>2. \A i \in 0..n : h[i] = g[i]
    <3> HIDE DEF Step
    <3> QED BY <2>1
  <2>3. h = [i \in 0..(n + 1) |-> Step(h, i)]
    <3>1. \A i \in 0..(n + 1) : i # 0 => h[i - 1] = g[i - 1]
      <4> HIDE DEF h
      <4> QED BY <2>2
    <3>2. \A i \in 0..(n + 1) : Step(g, i) = Step(h, i)
      <4> HIDE DEF h
      <4> QED BY <3>1, Zenon
    <3> HIDE DEF Step
    <3> QED BY <3>2, Zenon
  <2> HIDE DEF Step, h
  <2>4. \E f : f = [i \in 0..(n + 1) |-> Step(f, i)]
    BY <2>3
  <2> QED
    BY <2>4, DepthAssumption
<1>3. \A n \in 0..TREE_DEPTH : n \in S
  <2> HIDE DEF S
  <2> QED BY <1>1, <1>2, Interval, DepthAssumption
<1>4. \E g : g = [i \in 0..TREE_DEPTH |-> Step(g, i)]
  <2> HIDE DEF Step
  <2> QED BY <1>3, DepthAssumption
<1>5. Pow2 = [i \in 0..TREE_DEPTH |-> Step(Pow2, i)]
  BY <1>4 DEF Pow2
<1>6. /\ 0 \in 0..TREE_DEPTH
      /\ \A i \in 0..(TREE_DEPTH - 1) :
           i + 1 \in 0..TREE_DEPTH /\ i + 1 # 0 /\ (i + 1) - 1 = i
  BY DepthAssumption
<1>7. \A i \in 0..TREE_DEPTH : Pow2[i] = Step(Pow2, i)
  <2> HIDE DEF Step
  <2> QED BY <1>5, Zenon
<1> QED
  BY <1>6, <1>7, Zenon

(* The position above a leaf halves at each level.                            *)
LEMMA AboveDef ==
  ASSUME NEW index
  PROVE  /\ Above(index)[0] = index
         /\ \A i \in 0..(TREE_DEPTH - 1) : Above(index)[i + 1] = Above(index)[i] \div 2
<1> DEFINE Step(g, i) == IF i = 0 THEN index ELSE g[i - 1] \div 2
           S == {n \in 0..TREE_DEPTH : \E g : g = [i \in 0..n |-> Step(g, i)]}
<1>1. 0 \in S
  <2> DEFINE g == [i \in 0..0 |-> index]
  <2>1. g = [i \in 0..0 |-> Step(g, i)]
    OBVIOUS
  <2> HIDE DEF g, Step
  <2>2. \E f : f = [i \in 0..0 |-> Step(f, i)]
    BY <2>1
  <2> QED
    BY <2>2, DepthAssumption
<1>2. ASSUME NEW n \in 0..(TREE_DEPTH - 1), n \in S
      PROVE  n + 1 \in S
  <2>1. PICK g : g = [i \in 0..n |-> Step(g, i)]
    <3> HIDE DEF Step
    <3> QED BY <1>2
  <2> DEFINE h == [i \in 0..(n + 1) |-> Step(g, i)]
  <2>2. \A i \in 0..n : h[i] = g[i]
    <3> HIDE DEF Step
    <3> QED BY <2>1
  <2>3. h = [i \in 0..(n + 1) |-> Step(h, i)]
    <3>1. \A i \in 0..(n + 1) : i # 0 => h[i - 1] = g[i - 1]
      <4> HIDE DEF h
      <4> QED BY <2>2
    <3>2. \A i \in 0..(n + 1) : Step(g, i) = Step(h, i)
      <4> HIDE DEF h
      <4> QED BY <3>1, Zenon
    <3> HIDE DEF Step
    <3> QED BY <3>2, Zenon
  <2> HIDE DEF Step, h
  <2>4. \E f : f = [i \in 0..(n + 1) |-> Step(f, i)]
    BY <2>3
  <2> QED
    BY <2>4, DepthAssumption
<1>3. \A n \in 0..TREE_DEPTH : n \in S
  <2> HIDE DEF S
  <2> QED BY <1>1, <1>2, Interval, DepthAssumption
<1>4. \E g : g = [i \in 0..TREE_DEPTH |-> Step(g, i)]
  <2> HIDE DEF Step
  <2> QED BY <1>3, DepthAssumption
<1>5. Above(index) = [i \in 0..TREE_DEPTH |-> Step(Above(index), i)]
  BY <1>4 DEF Above
<1>6. /\ 0 \in 0..TREE_DEPTH
      /\ \A i \in 0..(TREE_DEPTH - 1) :
           i + 1 \in 0..TREE_DEPTH /\ i + 1 # 0 /\ (i + 1) - 1 = i
  BY DepthAssumption
<1>7. \A i \in 0..TREE_DEPTH : Above(index)[i] = Step(Above(index), i)
  <2> HIDE DEF Step
  <2> QED BY <1>5, Zenon
<1> QED
  BY <1>6, <1>7, Zenon

(* The words of a height are the pairs of words of the height below.          *)
LEMMA WordsDef ==
  /\ Words[0] = Leaves \cup {ZERO_LEAF}
  /\ \A i \in 0..(TREE_DEPTH - 1) : Words[i + 1] = Words[i] \X Words[i]
<1> DEFINE Step(g, i) == IF i = 0 THEN Leaves \cup {ZERO_LEAF} ELSE g[i - 1] \X g[i - 1]
           S == {n \in 0..TREE_DEPTH : \E g : g = [i \in 0..n |-> Step(g, i)]}
<1>1. 0 \in S
  <2> DEFINE g == [i \in 0..0 |-> Leaves \cup {ZERO_LEAF}]
  <2>1. g = [i \in 0..0 |-> Step(g, i)]
    OBVIOUS
  <2> HIDE DEF g, Step
  <2>2. \E f : f = [i \in 0..0 |-> Step(f, i)]
    BY <2>1
  <2> QED
    BY <2>2, DepthAssumption
<1>2. ASSUME NEW n \in 0..(TREE_DEPTH - 1), n \in S
      PROVE  n + 1 \in S
  <2>1. PICK g : g = [i \in 0..n |-> Step(g, i)]
    <3> HIDE DEF Step
    <3> QED BY <1>2
  <2> DEFINE h == [i \in 0..(n + 1) |-> Step(g, i)]
  <2>2. \A i \in 0..n : h[i] = g[i]
    <3> HIDE DEF Step
    <3> QED BY <2>1
  <2>3. h = [i \in 0..(n + 1) |-> Step(h, i)]
    <3>1. \A i \in 0..(n + 1) : i # 0 => h[i - 1] = g[i - 1]
      <4> HIDE DEF h
      <4> QED BY <2>2
    <3>2. \A i \in 0..(n + 1) : Step(g, i) = Step(h, i)
      <4> HIDE DEF h
      <4> QED BY <3>1, Zenon
    <3> HIDE DEF Step
    <3> QED BY <3>2, Zenon
  <2> HIDE DEF Step, h
  <2>4. \E f : f = [i \in 0..(n + 1) |-> Step(f, i)]
    BY <2>3
  <2> QED
    BY <2>4, DepthAssumption
<1>3. \A n \in 0..TREE_DEPTH : n \in S
  <2> HIDE DEF S
  <2> QED BY <1>1, <1>2, Interval, DepthAssumption
<1>4. \E g : g = [i \in 0..TREE_DEPTH |-> Step(g, i)]
  <2> HIDE DEF Step
  <2> QED BY <1>3, DepthAssumption
<1>5. Words = [i \in 0..TREE_DEPTH |-> Step(Words, i)]
  BY <1>4 DEF Words
<1>6. /\ 0 \in 0..TREE_DEPTH
      /\ \A i \in 0..(TREE_DEPTH - 1) :
           i + 1 \in 0..TREE_DEPTH /\ i + 1 # 0 /\ (i + 1) - 1 = i
  BY DepthAssumption
<1>7. \A i \in 0..TREE_DEPTH : Words[i] = Step(Words, i)
  <2> HIDE DEF Step
  <2> QED BY <1>5, Zenon
<1> QED
  BY <1>6, <1>7, Zenon

(* Empty subtrees: one that is twice as large hashes two of half the size.    *)
LEMMA ZeroHashesDef ==
  /\ zero_hashes[0] = ZERO_LEAF
  /\ \A i \in 0..(TREE_DEPTH - 1) : zero_hashes[i + 1] = hash2(zero_hashes[i], zero_hashes[i])
<1> DEFINE Step(g, i) == IF i = 0 THEN ZERO_LEAF ELSE hash2(g[i - 1], g[i - 1])
           S == {n \in 0..TREE_DEPTH : \E g : g = [i \in 0..n |-> Step(g, i)]}
<1>1. 0 \in S
  <2> DEFINE g == [i \in 0..0 |-> ZERO_LEAF]
  <2>1. g = [i \in 0..0 |-> Step(g, i)]
    OBVIOUS
  <2> HIDE DEF g, Step
  <2>2. \E f : f = [i \in 0..0 |-> Step(f, i)]
    BY <2>1
  <2> QED
    BY <2>2, DepthAssumption
<1>2. ASSUME NEW n \in 0..(TREE_DEPTH - 1), n \in S
      PROVE  n + 1 \in S
  <2>1. PICK g : g = [i \in 0..n |-> Step(g, i)]
    <3> HIDE DEF Step
    <3> QED BY <1>2
  <2> DEFINE h == [i \in 0..(n + 1) |-> Step(g, i)]
  <2>2. \A i \in 0..n : h[i] = g[i]
    <3> HIDE DEF Step
    <3> QED BY <2>1
  <2>3. h = [i \in 0..(n + 1) |-> Step(h, i)]
    <3>1. \A i \in 0..(n + 1) : i # 0 => h[i - 1] = g[i - 1]
      <4> HIDE DEF h
      <4> QED BY <2>2
    <3>2. \A i \in 0..(n + 1) : Step(g, i) = Step(h, i)
      <4> HIDE DEF h
      <4> QED BY <3>1, Zenon
    <3> HIDE DEF Step
    <3> QED BY <3>2, Zenon
  <2> HIDE DEF Step, h
  <2>4. \E f : f = [i \in 0..(n + 1) |-> Step(f, i)]
    BY <2>3
  <2> QED
    BY <2>4, DepthAssumption
<1>3. \A n \in 0..TREE_DEPTH : n \in S
  <2> HIDE DEF S
  <2> QED BY <1>1, <1>2, Interval, DepthAssumption
<1>4. \E g : g = [i \in 0..TREE_DEPTH |-> Step(g, i)]
  <2> HIDE DEF Step
  <2> QED BY <1>3, DepthAssumption
<1>5. zero_hashes = [i \in 0..TREE_DEPTH |-> Step(zero_hashes, i)]
  BY <1>4 DEF zero_hashes
<1>6. /\ 0 \in 0..TREE_DEPTH
      /\ \A i \in 0..(TREE_DEPTH - 1) :
           i + 1 \in 0..TREE_DEPTH /\ i + 1 # 0 /\ (i + 1) - 1 = i
  BY DepthAssumption
<1>7. \A i \in 0..TREE_DEPTH : zero_hashes[i] = Step(zero_hashes, i)
  <2> HIDE DEF Step
  <2> QED BY <1>5, Zenon
<1> QED
  BY <1>6, <1>7, Zenon

(* The nodes that an insertion computes, each from the one below.            *)
LEMMA ClimbDef ==
  ASSUME NEW leaf
  PROVE  /\ Climb(leaf)[0] = leaf
         /\ \A i \in 0..(TREE_DEPTH - 1) : 
             Climb(leaf)[i + 1] =
               IF IsRight(next_index, i)
               THEN hash2(filled_subtrees[i], Climb(leaf)[i])
               ELSE hash2(Climb(leaf)[i], zero_hashes[i])
<1> DEFINE Step(g, i) == IF i = 0 THEN leaf
                          ELSE IF IsRight(next_index, i - 1)
                               THEN hash2(filled_subtrees[i - 1], g[i - 1])
                               ELSE hash2(g[i - 1], zero_hashes[i - 1])
           S == {n \in 0..TREE_DEPTH : \E g : g = [i \in 0..n |-> Step(g, i)]}
<1>1. 0 \in S
  <2> DEFINE g == [i \in 0..0 |-> leaf]
  <2>1. g = [i \in 0..0 |-> Step(g, i)]
    OBVIOUS
  <2> HIDE DEF g, Step
  <2>2. \E f : f = [i \in 0..0 |-> Step(f, i)]
    BY <2>1
  <2> QED
    BY <2>2, DepthAssumption
<1>2. ASSUME NEW n \in 0..(TREE_DEPTH - 1), n \in S
      PROVE  n + 1 \in S
  <2>1. PICK g : g = [i \in 0..n |-> Step(g, i)]
    <3> HIDE DEF Step
    <3> QED BY <1>2
  <2> DEFINE h == [i \in 0..(n + 1) |-> Step(g, i)]
  <2>2. \A i \in 0..n : h[i] = g[i]
    <3> HIDE DEF Step
    <3> QED BY <2>1
  <2>3. h = [i \in 0..(n + 1) |-> Step(h, i)]
    <3>1. \A i \in 0..(n + 1) : i # 0 => h[i - 1] = g[i - 1]
      <4> HIDE DEF h
      <4> QED BY <2>2
    <3>2. \A i \in 0..(n + 1) : Step(g, i) = Step(h, i)
      <4> HIDE DEF h
      <4> QED BY <3>1, Zenon
    <3> HIDE DEF Step
    <3> QED BY <3>2, Zenon
  <2> HIDE DEF Step, h
  <2>4. \E f : f = [i \in 0..(n + 1) |-> Step(f, i)]
    BY <2>3
  <2> QED
    BY <2>4, DepthAssumption
<1>3. \A n \in 0..TREE_DEPTH : n \in S
  <2> HIDE DEF S
  <2> QED BY <1>1, <1>2, Interval, DepthAssumption
<1>4. \E g : g = [i \in 0..TREE_DEPTH |-> Step(g, i)]
  <2> HIDE DEF Step
  <2> QED BY <1>3, DepthAssumption
<1>5. Climb(leaf) = [i \in 0..TREE_DEPTH |-> Step(Climb(leaf), i)]
  BY <1>4 DEF Climb
<1>6. /\ 0 \in 0..TREE_DEPTH
      /\ \A i \in 0..(TREE_DEPTH - 1) :
           i + 1 \in 0..TREE_DEPTH /\ i + 1 # 0 /\ (i + 1) - 1 = i
  BY DepthAssumption
<1>7. \A i \in 0..TREE_DEPTH : Climb(leaf)[i] = Step(Climb(leaf), i)
  <2> HIDE DEF Step
  <2> QED BY <1>5, Zenon
<1> QED
  BY <1>6, <1>7, Zenon

(* The levels that reconstruct_path computes, each from the one below.       *)
LEMMA LevelsDef ==
  ASSUME NEW seq
  PROVE  /\ LevelsOf(seq)[0] = seq
         /\ \A i \in 0..(TREE_DEPTH - 1) : LevelsOf(seq)[i + 1] = ParentLevel(LevelsOf(seq)[i], i)
<1> DEFINE Step(g, i) == IF i = 0 THEN seq ELSE ParentLevel(g[i - 1], i - 1)
           S == {n \in 0..TREE_DEPTH : \E g : g = [i \in 0..n |-> Step(g, i)]}
<1>1. 0 \in S
  <2> DEFINE g == [i \in 0..0 |-> seq]
  <2>1. g = [i \in 0..0 |-> Step(g, i)]
    OBVIOUS
  <2> HIDE DEF g, Step
  <2>2. \E f : f = [i \in 0..0 |-> Step(f, i)]
    BY <2>1
  <2> QED
    BY <2>2, DepthAssumption
<1>2. ASSUME NEW n \in 0..(TREE_DEPTH - 1), n \in S
      PROVE  n + 1 \in S
  <2>1. PICK g : g = [i \in 0..n |-> Step(g, i)]
    <3> HIDE DEF Step
    <3> QED BY <1>2
  <2> DEFINE h == [i \in 0..(n + 1) |-> Step(g, i)]
  <2>2. \A i \in 0..n : h[i] = g[i]
    <3> HIDE DEF Step
    <3> QED BY <2>1
  <2>3. h = [i \in 0..(n + 1) |-> Step(h, i)]
    <3>1. \A i \in 0..(n + 1) : i # 0 => h[i - 1] = g[i - 1]
      <4> HIDE DEF h
      <4> QED BY <2>2
    <3>2. \A i \in 0..(n + 1) : Step(g, i) = Step(h, i)
      <4> HIDE DEF h
      <4> QED BY <3>1, Zenon
    <3> HIDE DEF Step
    <3> QED BY <3>2, Zenon
  <2> HIDE DEF Step, h
  <2>4. \E f : f = [i \in 0..(n + 1) |-> Step(f, i)]
    BY <2>3
  <2> QED
    BY <2>4, DepthAssumption
<1>3. \A n \in 0..TREE_DEPTH : n \in S
  <2> HIDE DEF S
  <2> QED BY <1>1, <1>2, Interval, DepthAssumption
<1>4. \E g : g = [i \in 0..TREE_DEPTH |-> Step(g, i)]
  <2> HIDE DEF Step
  <2> QED BY <1>3, DepthAssumption
<1>5. LevelsOf(seq) = [i \in 0..TREE_DEPTH |-> Step(LevelsOf(seq), i)]
  BY <1>4 DEF LevelsOf
<1>6. /\ 0 \in 0..TREE_DEPTH
      /\ \A i \in 0..(TREE_DEPTH - 1) :
           i + 1 \in 0..TREE_DEPTH /\ i + 1 # 0 /\ (i + 1) - 1 = i
  BY DepthAssumption
<1>7. \A i \in 0..TREE_DEPTH : LevelsOf(seq)[i] = Step(LevelsOf(seq), i)
  <2> HIDE DEF Step
  <2> QED BY <1>5, Zenon
<1> QED
  BY <1>6, <1>7, Zenon

(* The nodes that a circuit folds a path into, each from the one below.      *)
LEMMA PathDef ==
  ASSUME NEW leaf, NEW siblings, NEW right
  PROVE  /\ PathNodes(leaf, siblings, right)[0] = leaf
         /\ \A i \in 0..(TREE_DEPTH - 1) : 
             PathNodes(leaf, siblings, right)[i + 1] =
               Parent(PathNodes(leaf, siblings, right)[i], siblings[i], right[i])
<1> DEFINE Step(g, i) == IF i = 0 THEN leaf
                          ELSE Parent(g[i - 1], siblings[i - 1], right[i - 1])
           S == {n \in 0..TREE_DEPTH : \E g : g = [i \in 0..n |-> Step(g, i)]}
<1>1. 0 \in S
  <2> DEFINE g == [i \in 0..0 |-> leaf]
  <2>1. g = [i \in 0..0 |-> Step(g, i)]
    OBVIOUS
  <2> HIDE DEF g, Step
  <2>2. \E f : f = [i \in 0..0 |-> Step(f, i)]
    BY <2>1
  <2> QED
    BY <2>2, DepthAssumption
<1>2. ASSUME NEW n \in 0..(TREE_DEPTH - 1), n \in S
      PROVE  n + 1 \in S
  <2>1. PICK g : g = [i \in 0..n |-> Step(g, i)]
    <3> HIDE DEF Step
    <3> QED BY <1>2
  <2> DEFINE h == [i \in 0..(n + 1) |-> Step(g, i)]
  <2>2. \A i \in 0..n : h[i] = g[i]
    <3> HIDE DEF Step
    <3> QED BY <2>1
  <2>3. h = [i \in 0..(n + 1) |-> Step(h, i)]
    <3>1. \A i \in 0..(n + 1) : i # 0 => h[i - 1] = g[i - 1]
      <4> HIDE DEF h
      <4> QED BY <2>2
    <3>2. \A i \in 0..(n + 1) : Step(g, i) = Step(h, i)
      <4> HIDE DEF h
      <4> QED BY <3>1, Zenon
    <3> HIDE DEF Step
    <3> QED BY <3>2, Zenon
  <2> HIDE DEF Step, h
  <2>4. \E f : f = [i \in 0..(n + 1) |-> Step(f, i)]
    BY <2>3
  <2> QED
    BY <2>4, DepthAssumption
<1>3. \A n \in 0..TREE_DEPTH : n \in S
  <2> HIDE DEF S
  <2> QED BY <1>1, <1>2, Interval, DepthAssumption
<1>4. \E g : g = [i \in 0..TREE_DEPTH |-> Step(g, i)]
  <2> HIDE DEF Step
  <2> QED BY <1>3, DepthAssumption
<1>5. PathNodes(leaf, siblings, right) = [i \in 0..TREE_DEPTH |-> Step(PathNodes(leaf, siblings, right), i)]
  BY <1>4 DEF PathNodes
<1>6. /\ 0 \in 0..TREE_DEPTH
      /\ \A i \in 0..(TREE_DEPTH - 1) :
           i + 1 \in 0..TREE_DEPTH /\ i + 1 # 0 /\ (i + 1) - 1 = i
  BY DepthAssumption
<1>7. \A i \in 0..TREE_DEPTH : PathNodes(leaf, siblings, right)[i] = Step(PathNodes(leaf, siblings, right), i)
  <2> HIDE DEF Step
  <2> QED BY <1>5, Zenon
<1> QED
  BY <1>6, <1>7, Zenon

(* What paths connect to a root, one sibling at a time.                      *)
LEMMA BelowDef ==
  ASSUME NEW root
  PROVE  /\ Below(root)[0] = {root}
         /\ \A i \in 0..(TREE_DEPTH - 1) : Below(root)[i + 1] = Children(Below(root)[i])
<1> DEFINE Step(g, i) == IF i = 0 THEN {root} ELSE Children(g[i - 1])
           S == {n \in 0..TREE_DEPTH : \E g : g = [i \in 0..n |-> Step(g, i)]}
<1>1. 0 \in S
  <2> DEFINE g == [i \in 0..0 |-> {root}]
  <2>1. g = [i \in 0..0 |-> Step(g, i)]
    OBVIOUS
  <2> HIDE DEF g, Step
  <2>2. \E f : f = [i \in 0..0 |-> Step(f, i)]
    BY <2>1
  <2> QED
    BY <2>2, DepthAssumption
<1>2. ASSUME NEW n \in 0..(TREE_DEPTH - 1), n \in S
      PROVE  n + 1 \in S
  <2>1. PICK g : g = [i \in 0..n |-> Step(g, i)]
    <3> HIDE DEF Step
    <3> QED BY <1>2
  <2> DEFINE h == [i \in 0..(n + 1) |-> Step(g, i)]
  <2>2. \A i \in 0..n : h[i] = g[i]
    <3> HIDE DEF Step
    <3> QED BY <2>1
  <2>3. h = [i \in 0..(n + 1) |-> Step(h, i)]
    <3>1. \A i \in 0..(n + 1) : i # 0 => h[i - 1] = g[i - 1]
      <4> HIDE DEF h
      <4> QED BY <2>2
    <3>2. \A i \in 0..(n + 1) : Step(g, i) = Step(h, i)
      <4> HIDE DEF h
      <4> QED BY <3>1, Zenon
    <3> HIDE DEF Step
    <3> QED BY <3>2, Zenon
  <2> HIDE DEF Step, h
  <2>4. \E f : f = [i \in 0..(n + 1) |-> Step(f, i)]
    BY <2>3
  <2> QED
    BY <2>4, DepthAssumption
<1>3. \A n \in 0..TREE_DEPTH : n \in S
  <2> HIDE DEF S
  <2> QED BY <1>1, <1>2, Interval, DepthAssumption
<1>4. \E g : g = [i \in 0..TREE_DEPTH |-> Step(g, i)]
  <2> HIDE DEF Step
  <2> QED BY <1>3, DepthAssumption
<1>5. Below(root) = [i \in 0..TREE_DEPTH |-> Step(Below(root), i)]
  BY <1>4 DEF Below
<1>6. /\ 0 \in 0..TREE_DEPTH
      /\ \A i \in 0..(TREE_DEPTH - 1) :
           i + 1 \in 0..TREE_DEPTH /\ i + 1 # 0 /\ (i + 1) - 1 = i
  BY DepthAssumption
<1>7. \A i \in 0..TREE_DEPTH : Below(root)[i] = Step(Below(root), i)
  <2> HIDE DEF Step
  <2> QED BY <1>5, Zenon
<1> QED
  BY <1>6, <1>7, Zenon

(* A node of the complete tree hashes its two children; a leaf is there or empty. *)
LEMMA MerkleDef ==
  ASSUME NEW seq
  PROVE  /\ \A k \in Positions(0) :
              MerkleNodes(seq)[0][k] = IF k < Len(seq) THEN seq[k + 1] ELSE ZERO_LEAF
         /\ \A i \in 0..(TREE_DEPTH - 1) : \A k \in Positions(i + 1) :
              MerkleNodes(seq)[i + 1][k] =
                hash2(MerkleNodes(seq)[i][2 * k], MerkleNodes(seq)[i][2 * k + 1])
<1> DEFINE Leaf == [k \in Positions(0) |-> IF k < Len(seq) THEN seq[k + 1] ELSE ZERO_LEAF]
           Over(nodes, i) == [k \in Positions(i) |-> hash2(nodes[2 * k], nodes[2 * k + 1])]
           Node(g, i) == [k \in Positions(i) |->
             IF i = 0 THEN IF k < Len(seq) THEN seq[k + 1] ELSE ZERO_LEAF
             ELSE hash2(g[i - 1][2 * k], g[i - 1][2 * k + 1])]
           Step(g, i) == IF i = 0 THEN Leaf ELSE Over(g[i - 1], i)
           S == {n \in 0..TREE_DEPTH : \E g : g = [i \in 0..n |-> Step(g, i)]}
<1>0. \A g : \A i \in 0..TREE_DEPTH : Step(g, i) = Node(g, i)
  OBVIOUS
<1> HIDE DEF Leaf, Over, Node
<1>1. 0 \in S
  <2> DEFINE g == [i \in 0..0 |-> Leaf]
  <2>1. g = [i \in 0..0 |-> Step(g, i)]
    OBVIOUS
  <2> HIDE DEF g, Step
  <2>2. \E f : f = [i \in 0..0 |-> Step(f, i)]
    BY <2>1
  <2> QED
    BY <2>2, DepthAssumption
<1>2. ASSUME NEW n \in 0..(TREE_DEPTH - 1), n \in S
      PROVE  n + 1 \in S
  <2>1. PICK g : g = [i \in 0..n |-> Step(g, i)]
    <3> HIDE DEF Step
    <3> QED BY <1>2
  <2> DEFINE h == [i \in 0..(n + 1) |-> Step(g, i)]
  <2>2. \A i \in 0..n : h[i] = g[i]
    <3> HIDE DEF Step
    <3> QED BY <2>1
  <2>3. h = [i \in 0..(n + 1) |-> Step(h, i)]
    <3>1. \A i \in 0..(n + 1) : i # 0 => h[i - 1] = g[i - 1]
      <4> HIDE DEF h
      <4> QED BY <2>2
    <3>2. \A i \in 0..(n + 1) : Step(g, i) = Step(h, i)
      <4> HIDE DEF h
      <4> QED BY <3>1, Zenon
    <3> HIDE DEF Step
    <3> QED BY <3>2, Zenon
  <2> HIDE DEF Step, h
  <2>4. \E f : f = [i \in 0..(n + 1) |-> Step(f, i)]
    BY <2>3
  <2> QED
    BY <2>4, DepthAssumption
<1>3. \A n \in 0..TREE_DEPTH : n \in S
  <2> HIDE DEF S
  <2> QED BY <1>1, <1>2, Interval, DepthAssumption
<1>4. \E g : g = [i \in 0..TREE_DEPTH |-> Step(g, i)]
  <2> HIDE DEF Step
  <2> QED BY <1>3, DepthAssumption
<1>5. MerkleNodes(seq) = [i \in 0..TREE_DEPTH |-> Step(MerkleNodes(seq), i)]
  <2>1. PICK g : g = [i \in 0..TREE_DEPTH |-> Step(g, i)]
    BY <1>4, Zenon
  <2>2. g = [i \in 0..TREE_DEPTH |-> Node(g, i)]
    <3> HIDE DEF Step
    <3> QED BY <2>1, <1>0, Zenon
  <2>3. MerkleNodes(seq) = [i \in 0..TREE_DEPTH |-> Node(MerkleNodes(seq), i)]
    BY <2>2 DEF Node, MerkleNodes
  <2> HIDE DEF Step
  <2> QED
    BY <2>3, <1>0, Zenon
<1>6. /\ 0 \in 0..TREE_DEPTH
      /\ \A i \in 0..(TREE_DEPTH - 1) :
           i + 1 \in 0..TREE_DEPTH /\ i + 1 # 0 /\ (i + 1) - 1 = i
  BY DepthAssumption
<1>7. \A i \in 0..TREE_DEPTH : MerkleNodes(seq)[i] = Step(MerkleNodes(seq), i)
  <2> HIDE DEF Step
  <2> QED BY <1>5, Zenon
<1>8. /\ MerkleNodes(seq)[0] = Leaf
      /\ \A i \in 0..(TREE_DEPTH - 1) :
           MerkleNodes(seq)[i + 1] = Over(MerkleNodes(seq)[i], i + 1)
  BY <1>6, <1>7, Zenon
<1>9. \A k \in Positions(0) :
        MerkleNodes(seq)[0][k] = IF k < Len(seq) THEN seq[k + 1] ELSE ZERO_LEAF
  BY <1>8 DEF Leaf
<1>10. \A i \in 0..(TREE_DEPTH - 1) : \A k \in Positions(i + 1) :
         MerkleNodes(seq)[i + 1][k] =
           hash2(MerkleNodes(seq)[i][2 * k], MerkleNodes(seq)[i][2 * k + 1])
  BY <1>8 DEF Over
<1> QED
  BY <1>9, <1>10

-----------------------------------------------------------------------------
(* Positions, and subtrees that no leaf has reached.                            *)

(* Every subtree has at least one position.                                  *)
LEMMA Pow2Type == \A h \in 0..TREE_DEPTH : Pow2[h] \in Nat \ {0}
<1> DEFINE S == {h \in 0..TREE_DEPTH : Pow2[h] \in Nat \ {0}}
<1>1. 0 \in S
  BY Pow2Def, DepthAssumption
<1>2. ASSUME NEW n \in 0..(TREE_DEPTH - 1), n \in S
      PROVE  n + 1 \in S
  BY <1>2, Pow2Def, DepthAssumption
<1>3. \A n \in 0..TREE_DEPTH : n \in S
  <2> HIDE DEF S
  <2> QED BY <1>1, <1>2, Interval, DepthAssumption
<1> QED
  BY <1>3

(* There are half as many nodes one level up; the last level is the root.    *)
LEMMA PositionsHalve ==
  /\ \A i \in 0..TREE_DEPTH : Pow2[TREE_DEPTH - i] \in Nat \ {0}
  /\ \A i \in 0..(TREE_DEPTH - 1) :
       Pow2[TREE_DEPTH - i] = 2 * Pow2[TREE_DEPTH - (i + 1)]
  /\ Positions(TREE_DEPTH) = {0}
  /\ Positions(0) = 0..(Capacity - 1)
  /\ Capacity \in Nat \ {0}
<1>1. \A i \in 0..TREE_DEPTH : Pow2[TREE_DEPTH - i] \in Nat \ {0}
  BY Pow2Type, DepthAssumption
<1>2. ASSUME NEW i \in 0..(TREE_DEPTH - 1)
      PROVE  Pow2[TREE_DEPTH - i] = 2 * Pow2[TREE_DEPTH - (i + 1)]
  <2>1. TREE_DEPTH - (i + 1) \in 0..(TREE_DEPTH - 1)
    BY DepthAssumption
  <2>2. (TREE_DEPTH - (i + 1)) + 1 = TREE_DEPTH - i
    BY DepthAssumption
  <2> QED
    BY <2>1, <2>2, Pow2Def
<1>3. Positions(TREE_DEPTH) = {0}
  BY Pow2Def, DepthAssumption DEF Positions
<1>4. Positions(0) = 0..(Capacity - 1) /\ Capacity \in Nat \ {0}
  BY Pow2Type, DepthAssumption DEF Positions, Capacity
<1> QED
  BY <1>1, <1>2, <1>3, <1>4

(* The children of a node of the tree are nodes of the tree.                 *)
LEMMA ChildPositions ==
  ASSUME NEW i \in 0..(TREE_DEPTH - 1)
  PROVE  /\ Positions(i) \in SUBSET Nat /\ Positions(i + 1) \in SUBSET Nat
         /\ \A k \in Positions(i + 1) : 2 * k \in Positions(i) /\ 2 * k + 1 \in Positions(i)
         /\ \A k \in Positions(i) : k \div 2 \in Positions(i + 1)
<1>1. /\ Pow2[TREE_DEPTH - i] = 2 * Pow2[TREE_DEPTH - (i + 1)]
      /\ Pow2[TREE_DEPTH - (i + 1)] \in Nat \ {0}
  <2>1. i + 1 \in 0..TREE_DEPTH
    BY DepthAssumption
  <2> QED
    BY <2>1, PositionsHalve, Zenon
<1>2. PICK p \in Nat \ {0} : Positions(i + 1) = 0..(p - 1) /\ Positions(i) = 0..(2 * p - 1)
  BY <1>1 DEF Positions
<1> QED
  BY <1>2

(* The path of a position stays in the tree.                                 *)
LEMMA AboveType ==
  ASSUME NEW m \in 0..(Capacity - 1)
  PROVE  /\ \A i \in 0..TREE_DEPTH : Above(m)[i] \in Positions(i) /\ Above(m)[i] \in Nat
         /\ Above(m)[TREE_DEPTH] = 0
<1> DEFINE S == {i \in 0..TREE_DEPTH : Above(m)[i] \in Positions(i)}
<1>1. 0 \in S
  BY AboveDef, PositionsHalve, DepthAssumption
<1>2. ASSUME NEW n \in 0..(TREE_DEPTH - 1), n \in S
      PROVE  n + 1 \in S
  BY <1>2, AboveDef, ChildPositions, DepthAssumption
<1>3. \A n \in 0..TREE_DEPTH : n \in S
  <2> HIDE DEF S
  <2> QED BY <1>1, <1>2, Interval, DepthAssumption
<1>4. Above(m)[TREE_DEPTH] \in Positions(TREE_DEPTH)
  BY <1>3, DepthAssumption
<1> QED
  BY <1>3, <1>4, PositionsHalve DEF Positions

(* The next leaf stands on the same node of a level, or on the one to its     *)
(* right.                                                                     *)
LEMMA Carry ==
  ASSUME NEW m \in Nat
  PROVE  \A i \in 0..TREE_DEPTH :
           /\ Above(m)[i] \in Nat
           /\ Above(m + 1)[i] = Above(m)[i] \/ Above(m + 1)[i] = Above(m)[i] + 1
<1> DEFINE S == {i \in 0..TREE_DEPTH :
                   /\ Above(m)[i] \in Nat
                   /\ Above(m + 1)[i] = Above(m)[i] \/ Above(m + 1)[i] = Above(m)[i] + 1}
<1>1. 0 \in S
  BY AboveDef, DepthAssumption
<1>2. ASSUME NEW n \in 0..(TREE_DEPTH - 1), n \in S
      PROVE  n + 1 \in S
  BY <1>2, AboveDef, DepthAssumption
<1>3. \A n \in 0..TREE_DEPTH : n \in S
  <2> HIDE DEF S
  <2> QED BY <1>1, <1>2, Interval, DepthAssumption
<1> QED
  BY <1>3

-----------------------------------------------------------------------------
(* A subtree that no leaf has reached hashes to the empty one.               *)
LEMMA EmptyNodes ==
  ASSUME NEW seq, Len(seq) \in Nat, NEW m \in Nat, Len(seq) <= m + 1
  PROVE  \A i \in 0..TREE_DEPTH : \A k \in Positions(i) :
           k > Above(m)[i] => MerkleNodes(seq)[i][k] = zero_hashes[i]
<1> DEFINE S == {i \in 0..TREE_DEPTH : \A k \in Positions(i) :
                   k > Above(m)[i] => MerkleNodes(seq)[i][k] = zero_hashes[i]}
<1>1. 0 \in S
  BY AboveDef, MerkleDef, ZeroHashesDef, DepthAssumption DEF Positions
<1>2. ASSUME NEW n \in 0..(TREE_DEPTH - 1), n \in S
      PROVE  n + 1 \in S
  <2>1. ASSUME NEW k \in Positions(n + 1), k > Above(m)[n + 1]
        PROVE  MerkleNodes(seq)[n + 1][k] = zero_hashes[n + 1]
    <3>1. 2 * k \in Positions(n) /\ 2 * k + 1 \in Positions(n) /\ k \in Nat
      BY ChildPositions
    <3>2. Above(m)[n] \in Nat /\ Above(m)[n + 1] = Above(m)[n] \div 2
      BY AboveDef, Carry, DepthAssumption
    <3>3. 2 * k > Above(m)[n] /\ 2 * k + 1 > Above(m)[n]
      BY <2>1, <3>1, <3>2
    <3>4. /\ MerkleNodes(seq)[n][2 * k] = zero_hashes[n]
          /\ MerkleNodes(seq)[n][2 * k + 1] = zero_hashes[n]
      BY <1>2, <3>1, <3>3
    <3>5. MerkleNodes(seq)[n + 1][k] =
            hash2(MerkleNodes(seq)[n][2 * k], MerkleNodes(seq)[n][2 * k + 1])
      BY MerkleDef, Zenon
    <3> QED
      BY <3>4, <3>5, ZeroHashesDef
  <2> QED
    BY <2>1, DepthAssumption
<1>3. \A n \in 0..TREE_DEPTH : n \in S
  <2> HIDE DEF S
  <2> QED BY <1>1, <1>2, Interval, DepthAssumption
<1> QED
  BY <1>3

(* The tree of no leaves.                                                    *)
LEMMA EmptyTree ==
  /\ \A i \in 0..TREE_DEPTH : \A k \in Positions(i) :
       MerkleNodes(<<>>)[i][k] = zero_hashes[i]
  /\ MerkleRoot(<<>>) = empty_root
<1> DEFINE S == {i \in 0..TREE_DEPTH : \A k \in Positions(i) :
                   MerkleNodes(<<>>)[i][k] = zero_hashes[i]}
<1>1. 0 \in S
  <2>1. Len(<<>>) = 0
    OBVIOUS
  <2> QED
    BY <2>1, MerkleDef, ZeroHashesDef, DepthAssumption DEF Positions
<1>2. ASSUME NEW n \in 0..(TREE_DEPTH - 1), n \in S
      PROVE  n + 1 \in S
  <2>1. ASSUME NEW k \in Positions(n + 1)
        PROVE  MerkleNodes(<<>>)[n + 1][k] = zero_hashes[n + 1]
    <3>1. /\ MerkleNodes(<<>>)[n][2 * k] = zero_hashes[n]
          /\ MerkleNodes(<<>>)[n][2 * k + 1] = zero_hashes[n]
      BY <1>2, ChildPositions
    <3>2. MerkleNodes(<<>>)[n + 1][k] =
            hash2(MerkleNodes(<<>>)[n][2 * k], MerkleNodes(<<>>)[n][2 * k + 1])
      BY MerkleDef, Zenon
    <3> QED
      BY <3>1, <3>2, ZeroHashesDef
  <2> QED
    BY <2>1, DepthAssumption
<1>3. \A n \in 0..TREE_DEPTH : n \in S
  <2> HIDE DEF S
  <2> QED BY <1>1, <1>2, Interval, DepthAssumption
<1>4. MerkleRoot(<<>>) = zero_hashes[TREE_DEPTH]
  BY <1>3, PositionsHalve, DepthAssumption DEF MerkleRoot
<1>5. zero_hashes[TREE_DEPTH] = empty_root
  <2>1. TREE_DEPTH - 1 \in 0..(TREE_DEPTH - 1) /\ (TREE_DEPTH - 1) + 1 = TREE_DEPTH
    BY DepthAssumption
  <2> QED
    BY <2>1, ZeroHashesDef DEF empty_root
<1> QED
  BY <1>3, <1>4, <1>5

(* A new leaf changes only the nodes above it.                               *)
LEMMA OtherNodes ==
  ASSUME NEW seq \in Seq(Leaves), NEW leaf \in Leaves
  PROVE  \A i \in 0..TREE_DEPTH : \A k \in Positions(i) :
           k # Above(Len(seq))[i] =>
             MerkleNodes(Append(seq, leaf))[i][k] = MerkleNodes(seq)[i][k]
<1> DEFINE next == Append(seq, leaf)
           m == Len(seq)
           S == {i \in 0..TREE_DEPTH : \A k \in Positions(i) :
                   k # Above(m)[i] => MerkleNodes(next)[i][k] = MerkleNodes(seq)[i][k]}
<1>0. /\ m \in Nat /\ Len(next) = m + 1
      /\ \A k \in 1..m : next[k] = seq[k]
  OBVIOUS
<1> HIDE DEF next, m
<1>1. 0 \in S
  <2>1. ASSUME NEW k \in Positions(0), k # Above(m)[0]
        PROVE  MerkleNodes(next)[0][k] = MerkleNodes(seq)[0][k]
    <3>1. k \in Nat /\ k # m
      BY <2>1, AboveDef DEF Positions
    <3>2. (k < Len(next)) <=> (k < Len(seq))
      BY <3>1, <1>0 DEF m
    <3>3. k < Len(seq) => next[k + 1] = seq[k + 1]
      BY <3>1, <1>0 DEF m
    <3> QED
      BY <3>2, <3>3, MerkleDef
  <2> QED
    BY <2>1, DepthAssumption
<1>2. ASSUME NEW n \in 0..(TREE_DEPTH - 1), n \in S
      PROVE  n + 1 \in S
  <2>1. ASSUME NEW k \in Positions(n + 1), k # Above(m)[n + 1]
        PROVE  MerkleNodes(next)[n + 1][k] = MerkleNodes(seq)[n + 1][k]
    <3>1. 2 * k \in Positions(n) /\ 2 * k + 1 \in Positions(n) /\ k \in Nat
      BY ChildPositions
    <3>2. Above(m)[n] \in Nat /\ Above(m)[n + 1] = Above(m)[n] \div 2
      <4>1. n \in 0..TREE_DEPTH
        BY DepthAssumption
      <4>2. Above(m)[n] \in Nat
        BY <1>0, <4>1, Carry, Zenon
      <4> QED
        BY <4>2, AboveDef
    <3>3. 2 * k # Above(m)[n] /\ 2 * k + 1 # Above(m)[n]
      BY <2>1, <3>1, <3>2
    <3>4. /\ MerkleNodes(next)[n][2 * k] = MerkleNodes(seq)[n][2 * k]
          /\ MerkleNodes(next)[n][2 * k + 1] = MerkleNodes(seq)[n][2 * k + 1]
      BY <1>2, <3>1, <3>3
    <3>5. /\ MerkleNodes(next)[n + 1][k] =
               hash2(MerkleNodes(next)[n][2 * k], MerkleNodes(next)[n][2 * k + 1])
          /\ MerkleNodes(seq)[n + 1][k] =
               hash2(MerkleNodes(seq)[n][2 * k], MerkleNodes(seq)[n][2 * k + 1])
      BY MerkleDef, Zenon
    <3> QED
      BY <3>4, <3>5
  <2> QED
    BY <2>1, DepthAssumption
<1>3. \A n \in 0..TREE_DEPTH : n \in S
  <2> HIDE DEF S
  <2> QED BY <1>1, <1>2, Interval, DepthAssumption
<1> QED
  BY <1>3 DEF next, m

-----------------------------------------------------------------------------
(* The frontier and the ring.                                                  *)

(* A prefix of a log: its length, its leaves; later leaves leave it alone.    *)
LEMMA Prefixes ==
  ASSUME NEW seq \in Seq(Leaves), NEW n \in 0..Len(seq)
  PROVE  /\ SubSeq(seq, 1, n) \in Seq(Leaves)
         /\ Len(SubSeq(seq, 1, n)) = n
         /\ \A k \in 1..n : SubSeq(seq, 1, n)[k] = seq[k]
         /\ n = Len(seq) => SubSeq(seq, 1, n) = seq
         /\ \A leaf \in Leaves : SubSeq(Append(seq, leaf), 1, n) = SubSeq(seq, 1, n)
<1> DEFINE sub == SubSeq(seq, 1, n)
<1>1. /\ Len(seq) \in Nat /\ n \in Int
      /\ \A k \in 1..n : seq[k] \in Leaves
  BY LenProperties, ElementOfSeq
<1>2. /\ sub \in Seq(Leaves) /\ Len(sub) = n /\ \A k \in 1..n : sub[k] = seq[k]
  BY <1>1, SubSeqProperties
<1>3. ASSUME n = Len(seq) PROVE sub = seq
  <2> HIDE DEF sub
  <2> QED BY <1>2, <1>3, SeqEqual
<1>4. ASSUME NEW leaf \in Leaves
      PROVE  SubSeq(Append(seq, leaf), 1, n) = sub
  <2> DEFINE longer == Append(seq, leaf)
             t == SubSeq(longer, 1, n)
  <2>1. \A k \in 1..n : longer[k] = seq[k]
    BY <1>1, AppendProperties
  <2>2. \A k \in 1..n : longer[k] \in Leaves
    BY <1>1, <2>1
  <2> HIDE DEF longer
  <2>3. t \in Seq(Leaves) /\ Len(t) = n /\ \A k \in 1..n : t[k] = longer[k]
    BY <1>1, <2>2, SubSeqProperties
  <2> HIDE DEF t, sub
  <2>4. t = sub
    BY <1>2, <2>1, <2>3, SeqEqual
  <2> QED
    BY <2>4 DEF t, longer, sub
<1> QED
  BY <1>2, <1>3, <1>4

-----------------------------------------------------------------------------
(* What the account keeps instead of the leaves: wherever the next leaf has a *)
(* left sibling to be hashed with, that sibling.                             *)
FrontierHolds ==
  \A i \in Levels : IsRight(next_index, i) =>
    filled_subtrees[i] = MerkleNodes(leaves)[i][Above(next_index)[i] - 1]

(* How many insertions ago a slot of the ring was written, if it was.        *)
Age(j) == IF j <= current_root_index THEN current_root_index - j
          ELSE current_root_index + ROOT_HISTORY - j

(* Slot by slot, what the ring holds.                                        *)
RingHolds ==
  \A j \in Slots : roots[j] = IF Age(j) <= Len(leaves)
                              THEN MerkleRoot(Prefix(Len(leaves) - Age(j)))
                              ELSE ZERO_LEAF

TreeInv ==
  /\ leaves \in Seq(Leaves) /\ next_index = Len(leaves) /\ next_index <= Capacity
  /\ current_root_index \in Slots
  /\ DOMAIN roots = Slots
  /\ FrontierHolds
  /\ RingHolds

(* The nodes that an insertion computes from the frontier are those of the    *)
(* complete tree over all leaves, the new one included.                      *)
LEMMA ClimbReaches ==
  ASSUME leaves \in Seq(Leaves), next_index = Len(leaves), next_index < Capacity,
         FrontierHolds, NEW leaf \in Leaves
  PROVE  \A i \in 0..TREE_DEPTH :
           Climb(leaf)[i] = MerkleNodes(Append(leaves, leaf))[i][Above(next_index)[i]]
<1> DEFINE next == Append(leaves, leaf)
           m == next_index
           S == {i \in 0..TREE_DEPTH : Climb(leaf)[i] = MerkleNodes(next)[i][Above(m)[i]]}
<1>0. /\ m \in Nat /\ m \in 0..(Capacity - 1) /\ Len(next) = m + 1 /\ next[m + 1] = leaf
      /\ Len(leaves) = m
  BY LenProperties, AppendProperties, PositionsHalve
<1>1. 0 \in S
  <2>1. Above(m)[0] = m /\ m \in Positions(0) /\ Climb(leaf)[0] = leaf
    BY <1>0, AboveDef, ClimbDef, PositionsHalve
  <2>2. MerkleNodes(next)[0][m] = leaf
    <3>1. MerkleNodes(next)[0][m] = IF m < Len(next) THEN next[m + 1] ELSE ZERO_LEAF
      BY <2>1, MerkleDef, Zenon
    <3> QED
      BY <1>0, <3>1
  <2> QED
    BY <2>1, <2>2, DepthAssumption
<1>2. ASSUME NEW n \in 0..(TREE_DEPTH - 1), n \in S
      PROVE  n + 1 \in S
  <2> DEFINE a == Above(m)[n]
             b == Above(m)[n + 1]
  <2>0. n \in 0..TREE_DEPTH /\ n + 1 \in 0..TREE_DEPTH /\ n \in Levels
    BY DepthAssumption DEF Levels
  <2>1. /\ a \in Positions(n) /\ a \in Nat /\ b \in Positions(n + 1) /\ b \in Nat
        /\ b = a \div 2
    BY <1>0, <2>0, AboveType, AboveDef
  <2>2. 2 * b \in Positions(n) /\ 2 * b + 1 \in Positions(n)
    BY <2>1, ChildPositions
  <2>3. MerkleNodes(next)[n + 1][b] =
          hash2(MerkleNodes(next)[n][2 * b], MerkleNodes(next)[n][2 * b + 1])
    BY <2>1, MerkleDef, Zenon
  <2>4. Climb(leaf)[n] = MerkleNodes(next)[n][a]
    BY <1>2
  <2>5. CASE IsRight(m, n)
    <3>1. a % 2 = 1
      BY <2>5 DEF IsRight
    <3>2. a = 2 * b + 1 /\ a - 1 = 2 * b /\ 2 * b # a
      BY <2>1, <3>1
    <3>3. filled_subtrees[n] = MerkleNodes(leaves)[n][2 * b]
      BY <2>0, <2>5, <3>2 DEF FrontierHolds
    <3>4. MerkleNodes(next)[n][2 * b] = MerkleNodes(leaves)[n][2 * b]
      BY <1>0, <2>0, <2>2, <3>2, OtherNodes, Zenon
    <3>5. Climb(leaf)[n + 1] = hash2(filled_subtrees[n], Climb(leaf)[n])
      BY <2>5, ClimbDef
    <3>6. Climb(leaf)[n + 1] = MerkleNodes(next)[n + 1][b]
      BY <2>3, <2>4, <3>2, <3>3, <3>4, <3>5
    <3> QED
      BY <2>0, <3>6
  <2>6. CASE ~IsRight(m, n)
    <3>1. a % 2 # 1
      BY <2>6 DEF IsRight
    <3>2. a = 2 * b /\ 2 * b + 1 > a
      BY <2>1, <3>1
    <3>3. MerkleNodes(next)[n][2 * b + 1] = zero_hashes[n]
      <4>1. m \in Nat /\ Len(next) \in Nat /\ Len(next) <= m + 1
        BY <1>0
      <4> HIDE DEF next, m, b
      <4> QED
        BY <4>1, <2>0, <2>2, <3>2, EmptyNodes
    <3>5. Climb(leaf)[n + 1] = hash2(Climb(leaf)[n], zero_hashes[n])
      BY <2>6, ClimbDef
    <3>6. Climb(leaf)[n + 1] = MerkleNodes(next)[n + 1][b]
      BY <2>3, <2>4, <3>2, <3>3, <3>5
    <3> QED
      BY <2>0, <3>6
  <2> QED
    BY <2>5, <2>6
<1>3. \A n \in 0..TREE_DEPTH : n \in S
  <2> HIDE DEF S
  <2> QED BY <1>1, <1>2, Interval, DepthAssumption
<1> QED
  BY <1>3

(* An insertion leaves the frontier ready for the next one.                  *)
LEMMA FrontierStep ==
  ASSUME TreeInv, NEW leaf \in Leaves, insert(leaf)
  PROVE  FrontierHolds'
<1> DEFINE m == next_index
<1>0. /\ m = Len(leaves) /\ m \in Nat /\ m \in 0..(Capacity - 1)
      /\ m' = m + 1 /\ leaves' = Append(leaves, leaf) /\ leaves \in Seq(Leaves)
  BY LenProperties, PositionsHalve DEF TreeInv, insert
<1> SUFFICES ASSUME NEW i \in Levels, IsRight(m + 1, i)
             PROVE  filled_subtrees'[i] = MerkleNodes(Append(leaves, leaf))[i][Above(m + 1)[i] - 1]
  BY <1>0 DEF FrontierHolds, IsRight
<1> DEFINE a == Above(m)[i]
           c == Above(m + 1)[i]
<1>1. i \in 0..TREE_DEPTH
  BY DepthAssumption DEF Levels
<1>2. /\ a \in Nat /\ (c = a \/ c = a + 1) /\ c % 2 = 1
      /\ a \in Positions(i)
  BY <1>0, <1>1, Carry, AboveType DEF IsRight
<1>3. filled_subtrees'[i] = IF IsRight(m, i) THEN filled_subtrees[i] ELSE Climb(leaf)[i]
  BY DEF insert, NewFrontier
<1>4. CASE c = a
  <2>1. IsRight(m, i)
    BY <1>2, <1>4 DEF IsRight
  <2>2. filled_subtrees[i] = MerkleNodes(leaves)[i][a - 1]
    BY <2>1 DEF TreeInv, FrontierHolds
  <2>3. a - 1 # a /\ a - 1 \in Positions(i)
    <3> HIDE DEF a, c
    <3>1. a \in 0..(Pow2[TREE_DEPTH - i] - 1) /\ Pow2[TREE_DEPTH - i] \in Nat
      BY <1>1, <1>2, PositionsHalve DEF Positions
    <3>2. a >= 1
      BY <1>2, <1>4
    <3> QED
      BY <3>1, <3>2 DEF Positions
  <2>4. MerkleNodes(Append(leaves, leaf))[i][a - 1] = MerkleNodes(leaves)[i][a - 1]
    BY <1>0, <1>1, <2>3, OtherNodes, Zenon
  <2> QED
    BY <1>3, <1>4, <2>1, <2>2, <2>4
<1>5. CASE c = a + 1
  <2>1. ~IsRight(m, i)
    BY <1>2, <1>5 DEF IsRight
  <2>2. Climb(leaf)[i] = MerkleNodes(Append(leaves, leaf))[i][a]
    <3>1. /\ leaves \in Seq(Leaves) /\ next_index = Len(leaves)
          /\ next_index < Capacity /\ FrontierHolds
      BY DEF TreeInv, insert
    <3> QED
      BY <1>1, <3>1, ClimbReaches, Zenon
  <2>3. c - 1 = a
    BY <1>2, <1>5
  <2> QED
    BY <1>3, <2>1, <2>2, <2>3
<1> QED
  BY <1>2, <1>4, <1>5

(* The ring after an insertion: the new root is in the next slot, and every    *)
(* other root is one insertion older.                                         *)
LEMMA RingStep ==
  ASSUME TreeInv, NEW leaf \in Leaves, insert(leaf)
  PROVE  current_root_index' \in Slots /\ DOMAIN roots' = Slots /\ RingHolds'
<1> DEFINE m == Len(leaves)
           next == Append(leaves, leaf)
           c == current_root_index
           d == NextSlot
<1>0. /\ leaves \in Seq(Leaves) /\ m \in Nat /\ m < Capacity /\ next_index = m
      /\ leaves' = next /\ Len(next) = m + 1 /\ next \in Seq(Leaves)
      /\ c \in Slots /\ current_root_index' = d /\ DOMAIN roots = Slots
      /\ roots' = [roots EXCEPT ![d] = Climb(leaf)[TREE_DEPTH]]
      /\ FrontierHolds /\ RingHolds
  BY LenProperties, AppendProperties DEF TreeInv, insert
<1>1. /\ d \in Slots
      /\ d = IF c + 1 = ROOT_HISTORY THEN 0 ELSE c + 1
  <2>1. c \in Nat /\ c + 1 <= ROOT_HISTORY /\ ROOT_HISTORY \in Nat \ {0}
    BY <1>0, HistoryAssumption DEF Slots
  <2>2. CASE c + 1 = ROOT_HISTORY
    <3>1. (c + 1) % ROOT_HISTORY = 0
      BY <2>1, <2>2
    <3> QED
      BY <2>1, <2>2, <3>1 DEF NextSlot, Slots
  <2>3. CASE c + 1 # ROOT_HISTORY
    <3>1. (c + 1) % ROOT_HISTORY = c + 1
      BY <2>1, <2>3
    <3> QED
      BY <2>1, <2>3, <3>1 DEF NextSlot, Slots
  <2> QED
    BY <2>2, <2>3
<1>2. ASSUME NEW j \in Slots, j = d PROVE Age(j)' = 0
  BY <1>0, <1>1, <1>2, HistoryAssumption DEF Age, Slots
<1>3. \A j \in Slots : j # d => Age(j) \in Nat /\ Age(j)' = Age(j) + 1
  <2> SUFFICES ASSUME NEW j \in Slots, j # d
               PROVE  Age(j) \in Nat /\ Age(j)' = Age(j) + 1
    OBVIOUS
  <2>1. /\ Age(j) = IF j <= c THEN c - j ELSE c + ROOT_HISTORY - j
        /\ Age(j)' = IF j <= d THEN d - j ELSE d + ROOT_HISTORY - j
    BY <1>0 DEF Age
  <2>2. /\ ROOT_HISTORY \in Nat /\ j \in Nat /\ c \in Nat
        /\ j <= ROOT_HISTORY - 1 /\ c <= ROOT_HISTORY - 1
    BY <1>0, HistoryAssumption DEF Slots
  <2> HIDE DEF c, d
  <2> QED
    BY <1>1, <2>1, <2>2
<1>4. Climb(leaf)[TREE_DEPTH] = MerkleRoot(next)
  <2>1. Above(m)[TREE_DEPTH] = 0 /\ TREE_DEPTH \in 0..TREE_DEPTH
    BY <1>0, AboveType, PositionsHalve, DepthAssumption
  <2>2. Climb(leaf)[TREE_DEPTH] = MerkleNodes(next)[TREE_DEPTH][Above(m)[TREE_DEPTH]]
    BY <1>0, <2>1, ClimbReaches
  <2> QED
    BY <2>1, <2>2 DEF MerkleRoot
<1>5. SUFFICES ASSUME NEW j \in Slots
               PROVE  roots'[j] = IF Age(j)' <= m + 1
                                  THEN MerkleRoot(SubSeq(next, 1, (m + 1) - Age(j)'))
                                  ELSE ZERO_LEAF
  BY <1>0, <1>1 DEF RingHolds, Prefix
<1>6. CASE j = d
  <2>1. roots'[j] = MerkleRoot(next)
    BY <1>0, <1>1, <1>4, <1>6
  <2>2. SubSeq(next, 1, (m + 1) - 0) = next
    BY <1>0, Prefixes
  <2>3. Age(j)' = 0
    BY <1>2, <1>6
  <2>4. (m + 1) - 0 \in 0..Len(next) /\ 0 <= m + 1
    BY <1>0
  <2> HIDE DEF next, m
  <2> QED
    BY <2>1, <2>2, <2>3, <2>4
<1>7. CASE j # d
  <2>1. roots'[j] = roots[j]
    BY <1>0, <1>7
  <2>2. Age(j) \in Nat /\ Age(j)' = Age(j) + 1
    BY <1>3, <1>7
  <2>3. roots[j] = IF Age(j) <= m THEN MerkleRoot(SubSeq(leaves, 1, m - Age(j))) ELSE ZERO_LEAF
    BY <1>0 DEF RingHolds, Prefix
  <2>4. CASE Age(j) <= m
    <3>1. m - Age(j) \in 0..m /\ (m + 1) - Age(j)' = m - Age(j) /\ Age(j)' <= m + 1
      BY <1>0, <2>2, <2>4
    <3>2. SubSeq(next, 1, m - Age(j)) = SubSeq(leaves, 1, m - Age(j))
      BY <1>0, <3>1, Prefixes
    <3> QED
      BY <2>1, <2>3, <2>4, <3>1, <3>2
  <2>5. CASE ~(Age(j) <= m)
    <3>1. ~(Age(j)' <= m + 1)
      BY <1>0, <2>2, <2>5
    <3> QED
      BY <2>1, <2>3, <2>5, <3>1
  <2> QED
    BY <2>4, <2>5
<1> QED
  BY <1>6, <1>7

(* The frontier and the ring always hold what they should, for every depth and *)
(* every ring size.                                                           *)
THEOREM TreeInvariant == Spec => []TreeInv
<1>1. new => TreeInv
  <2> SUFFICES ASSUME new PROVE TreeInv
    OBVIOUS
  <2>1. /\ leaves = <<>> /\ leaves \in Seq(Leaves) /\ Len(leaves) = 0
        /\ next_index = 0 /\ current_root_index = 0
        /\ roots = [j \in Slots |-> IF j = 0 THEN empty_root ELSE ZERO_LEAF]
    BY EmptySeq DEF new
  <2>2. FrontierHolds
    <3> DEFINE S == {i \in 0..TREE_DEPTH : Above(0)[i] = 0}
    <3>1. 0 \in S
      BY AboveDef, DepthAssumption
    <3>2. ASSUME NEW n \in 0..(TREE_DEPTH - 1), n \in S
          PROVE  n + 1 \in S
      BY <3>2, AboveDef, DepthAssumption
    <3>3. \A n \in 0..TREE_DEPTH : n \in S
      <4> HIDE DEF S
      <4> QED BY <3>1, <3>2, Interval, DepthAssumption
    <3>4. \A i \in Levels : ~IsRight(0, i)
      BY <3>3, DepthAssumption DEF Levels, IsRight
    <3> QED
      BY <2>1, <3>4 DEF FrontierHolds
  <2>3. RingHolds
    <3> SUFFICES ASSUME NEW j \in Slots
                 PROVE  roots[j] = IF Age(j) <= 0 THEN MerkleRoot(Prefix(0 - Age(j)))
                                   ELSE ZERO_LEAF
      BY <2>1 DEF RingHolds
    <3>1. CASE j = 0
      <4>1. Age(j) = 0
        BY <2>1, <3>1 DEF Age
      <4>2. Prefix(0) = <<>>
        BY <2>1, Prefixes DEF Prefix
      <4> QED
        BY <2>1, <3>1, <4>1, <4>2, EmptyTree
    <3>2. CASE j # 0
      <4>1. Age(j) > 0 /\ Age(j) \in Nat
        BY <2>1, <3>2, HistoryAssumption DEF Age, Slots
      <4> QED
        BY <2>1, <3>2, <4>1
    <3> QED
      BY <3>1, <3>2
  <2>4. 0 \in Slots /\ 0 <= Capacity
    BY HistoryAssumption, PositionsHalve DEF Slots
  <2> QED
    BY <2>1, <2>2, <2>3, <2>4 DEF TreeInv
<1>2. TreeInv /\ [Next]_treeVars => TreeInv'
  <2> SUFFICES ASSUME TreeInv, [Next]_treeVars PROVE TreeInv'
    OBVIOUS
  <2>1. ASSUME NEW leaf \in Leaves, insert(leaf)
        PROVE  TreeInv'
    <3>1. /\ leaves' \in Seq(Leaves) /\ next_index' = Len(leaves')
          /\ next_index' <= Capacity
      BY <2>1, LenProperties, AppendProperties, PositionsHalve DEF TreeInv, insert
    <3>2. FrontierHolds'
      BY <2>1, FrontierStep
    <3>3. current_root_index' \in Slots /\ DOMAIN roots' = Slots /\ RingHolds'
      BY <2>1, RingStep
    <3> QED
      BY <3>1, <3>2, <3>3 DEF TreeInv
  <2>2. CASE UNCHANGED treeVars
    BY <2>2 DEF TreeInv, treeVars, FrontierHolds, RingHolds, Age, Prefix
  <2> QED
    BY <2>1, <2>2 DEF Next
<1> QED
  BY <1>1, <1>2, PTL DEF Spec

(* The frontier that an insertion keeps, one word for each level, stands for all   *)
(* the leaves: from it `insert` computes the root that the complete tree over      *)
(* the leaves has, after any number of insertions up to the capacity.              *)
THEOREM FrontierIsCorrect == Spec => []FrontierComputesMerkleRoot
<1>1. TreeInv => FrontierComputesMerkleRoot
  <2> SUFFICES ASSUME TreeInv PROVE FrontierComputesMerkleRoot
    OBVIOUS
  <2>1. Age(current_root_index) = 0 /\ Len(leaves) \in Nat /\ leaves \in Seq(Leaves)
    BY LenProperties DEF TreeInv, Age, Slots
  <2>2. Prefix(Len(leaves) - 0) = leaves
    BY <2>1, Prefixes DEF Prefix
  <2>3. roots[current_root_index] = MerkleRoot(Prefix(Len(leaves) - 0))
    BY <2>1 DEF TreeInv, RingHolds
  <2> QED
    BY <2>2, <2>3 DEF FrontierComputesMerkleRoot, current_root
<1> QED
  BY <1>1, TreeInvariant, PTL

-----------------------------------------------------------------------------
(* Membership.                                                                 *)

(* The children of the nodes of a level are the nodes of the level below.      *)
LEMMA ChildrenOfLevel ==
  ASSUME NEW seq, NEW i \in 0..(TREE_DEPTH - 1)
  PROVE  Children({MerkleNodes(seq)[i + 1][k] : k \in Positions(i + 1)}) =
           {MerkleNodes(seq)[i][k] : k \in Positions(i)}
<1> DEFINE lower == MerkleNodes(seq)[i]
           upper == MerkleNodes(seq)[i + 1]
<1>1. \A k \in Positions(i + 1) : upper[k] = <<lower[2 * k], lower[2 * k + 1]>>
  BY MerkleDef, Zenon DEF hash2
<1> HIDE DEF lower, upper
<1>2. ASSUME NEW x, x \in Children({upper[k] : k \in Positions(i + 1)})
      PROVE  x \in {lower[k] : k \in Positions(i)}
  <2>1. PICK k \in Positions(i + 1) : x \in {upper[k][1], upper[k][2]}
    BY <1>2 DEF Children
  <2>2. x = lower[2 * k] \/ x = lower[2 * k + 1]
    BY <1>1, <2>1
  <2> QED
    BY <2>2, ChildPositions
<1>3. ASSUME NEW k \in Positions(i)
      PROVE  lower[k] \in Children({upper[j] : j \in Positions(i + 1)})
  <2> DEFINE h == k \div 2
  <2>1. h \in Positions(i + 1) /\ (k = 2 * h \/ k = 2 * h + 1)
    <3>1. k \in Nat
      BY ChildPositions
    <3>2. k = 2 * h \/ k = 2 * h + 1
      BY <3>1
    <3> QED
      BY <3>2, ChildPositions
  <2>2. lower[k] = upper[h][1] \/ lower[k] = upper[h][2]
    BY <1>1, <2>1
  <2> HIDE DEF h
  <2>3. lower[k] \in {upper[h][1], upper[h][2]} /\ upper[h] \in {upper[j] : j \in Positions(i + 1)}
    BY <2>1, <2>2
  <2> QED
    BY <2>3 DEF Children
<1>4. Children({upper[k] : k \in Positions(i + 1)}) = {lower[k] : k \in Positions(i)}
  BY <1>2, <1>3
<1> QED
  BY <1>4 DEF lower, upper

(* A path of TREE_DEPTH siblings connects exactly the leaves to the root.      *)
LEMMA ReachableLeaves ==
  ASSUME NEW seq
  PROVE  Reachable(MerkleRoot(seq)) = {MerkleNodes(seq)[0][k] : k \in Positions(0)}
<1> DEFINE nodes(i) == {MerkleNodes(seq)[i][k] : k \in Positions(i)}
           S == {d \in 0..TREE_DEPTH : Below(MerkleRoot(seq))[d] = nodes(TREE_DEPTH - d)}
<1>1. 0 \in S
  <2>1. nodes(TREE_DEPTH) = {MerkleRoot(seq)}
    BY PositionsHalve DEF MerkleRoot
  <2>2. TREE_DEPTH - 0 = TREE_DEPTH /\ 0 \in 0..TREE_DEPTH
    BY DepthAssumption
  <2> HIDE DEF nodes
  <2> QED
    BY <2>1, <2>2, BelowDef
<1>2. ASSUME NEW n \in 0..(TREE_DEPTH - 1), n \in S
      PROVE  n + 1 \in S
  <2> DEFINE i == TREE_DEPTH - (n + 1)
  <2>1. i \in 0..(TREE_DEPTH - 1) /\ i + 1 = TREE_DEPTH - n /\ n + 1 \in 0..TREE_DEPTH
    BY DepthAssumption
  <2> HIDE DEF i
  <2>2. Children(nodes(i + 1)) = nodes(i)
    BY <2>1, ChildrenOfLevel
  <2> HIDE DEF nodes
  <2>3. Below(MerkleRoot(seq))[n + 1] = Children(nodes(TREE_DEPTH - n))
    BY <1>2, BelowDef
  <2> QED
    BY <2>1, <2>2, <2>3 DEF i
<1>3. \A n \in 0..TREE_DEPTH : n \in S
  <2> HIDE DEF S
  <2> QED BY <1>1, <1>2, Interval, DepthAssumption
<1>4. Below(MerkleRoot(seq))[TREE_DEPTH] = nodes(TREE_DEPTH - TREE_DEPTH)
  BY <1>3, DepthAssumption
<1> QED
  BY <1>4, DepthAssumption DEF Reachable

(* The leaves of the tree over a prefix.                                       *)
LEMMA LeavesOfPrefix ==
  ASSUME NEW seq \in Seq(Leaves), Len(seq) <= Capacity, NEW n \in 0..Len(seq)
  PROVE  /\ \A k \in Positions(0) : MerkleNodes(SubSeq(seq, 1, n))[0][k] =
              IF k < n THEN seq[k + 1] ELSE ZERO_LEAF
         /\ Reachable(MerkleRoot(SubSeq(seq, 1, n))) \ {ZERO_LEAF} = {seq[i] : i \in 1..n}
<1> DEFINE sub == SubSeq(seq, 1, n)
<1>1. /\ Len(sub) = n /\ n \in Nat /\ n <= Capacity
      /\ \A k \in 1..n : sub[k] = seq[k] /\ seq[k] \in Leaves
  BY Prefixes, LenProperties, ElementOfSeq, PositionsHalve
<1> HIDE DEF sub
<1>2. ASSUME NEW k \in Positions(0)
      PROVE  MerkleNodes(sub)[0][k] = IF k < n THEN seq[k + 1] ELSE ZERO_LEAF
  <2>1. MerkleNodes(sub)[0][k] = IF k < Len(sub) THEN sub[k + 1] ELSE ZERO_LEAF
    BY MerkleDef, Zenon
  <2>2. k \in Nat /\ (k < n => k + 1 \in 1..n)
    BY <1>1, PositionsHalve
  <2> QED
    BY <1>1, <2>1, <2>2
<1>3. {MerkleNodes(sub)[0][k] : k \in Positions(0)} \ {ZERO_LEAF} = {seq[i] : i \in 1..n}
  <2>1. ASSUME NEW k \in Positions(0), MerkleNodes(sub)[0][k] # ZERO_LEAF
        PROVE  MerkleNodes(sub)[0][k] \in {seq[i] : i \in 1..n}
    BY <1>1, <1>2, <2>1, PositionsHalve
  <2>2. ASSUME NEW i \in 1..n
        PROVE  seq[i] \in {MerkleNodes(sub)[0][k] : k \in Positions(0)} \ {ZERO_LEAF}
    <3>1. i - 1 \in Positions(0) /\ i - 1 < n /\ (i - 1) + 1 = i
      BY <1>1, PositionsHalve
    <3>2. MerkleNodes(sub)[0][i - 1] = seq[i]
      BY <1>2, <3>1
    <3>3. seq[i] # ZERO_LEAF
      BY <1>1, ZeroLeafAssumption
    <3> QED
      BY <3>1, <3>2, <3>3
  <2> QED
    BY <2>1, <2>2
<1> QED
  BY <1>2, <1>3, ReachableLeaves DEF sub

(* What a circuit accepts was inserted: whatever siblings and direction bits a     *)
(* prover chooses, a path to a root that the program knows starts from the empty   *)
(* leaf or from a commitment inserted by the time of that root.                    *)
THEOREM MembersWereInserted == Spec => []MembershipIsSound
<1>1. TreeInv => MembershipIsSound
  <2> SUFFICES ASSUME TreeInv, NEW root \in known_roots
               PROVE  \E n \in 0..Len(leaves) :
                        /\ root = MerkleRoot(Prefix(n))
                        /\ Reachable(root) \ {ZERO_LEAF} = {leaves[i] : i \in 1..n}
    BY DEF MembershipIsSound
  <2>1. PICK j \in Slots : root = roots[j] /\ root # ZERO_LEAF
    BY DEF known_roots
  <2>2. Age(j) \in Nat /\ Len(leaves) \in Nat /\ leaves \in Seq(Leaves) /\ Len(leaves) <= Capacity
    BY LenProperties, HistoryAssumption DEF TreeInv, Age, Slots
  <2>3. Age(j) <= Len(leaves) /\ root = MerkleRoot(Prefix(Len(leaves) - Age(j)))
    BY <2>1 DEF TreeInv, RingHolds
  <2> DEFINE n == Len(leaves) - Age(j)
  <2>4. n \in 0..Len(leaves)
    BY <2>2, <2>3
  <2> HIDE DEF n
  <2>5. Reachable(MerkleRoot(Prefix(n))) \ {ZERO_LEAF} = {leaves[i] : i \in 1..n}
    BY <2>2, <2>4, LeavesOfPrefix DEF Prefix
  <2> QED
    BY <2>3, <2>4, <2>5 DEF n
<1> QED
  BY <1>1, TreeInvariant, PTL

-----------------------------------------------------------------------------
(* Rebuilt paths.                                                              *)

(* The root of a tree is never the all-zero word.                             *)
LEMMA RootIsNotZero ==
  ASSUME NEW seq \in Seq(Leaves)
  PROVE  MerkleRoot(seq) # ZERO_LEAF
<1> DEFINE S == {i \in 0..TREE_DEPTH : \A k \in Positions(i) :
                   MerkleNodes(seq)[i][k] \in Words[i]}
<1>1. 0 \in S
  <2>1. ASSUME NEW k \in Positions(0)
        PROVE  MerkleNodes(seq)[0][k] \in Leaves \cup {ZERO_LEAF}
    <3>1. MerkleNodes(seq)[0][k] = IF k < Len(seq) THEN seq[k + 1] ELSE ZERO_LEAF
      BY MerkleDef, Zenon
    <3>2. k \in Nat /\ Len(seq) \in Nat
      BY PositionsHalve, LenProperties
    <3>3. k < Len(seq) => seq[k + 1] \in Leaves
      BY <3>2, ElementOfSeq
    <3> QED
      BY <3>1, <3>3
  <2> QED
    BY <2>1, WordsDef, DepthAssumption
<1>2. ASSUME NEW n \in 0..(TREE_DEPTH - 1), n \in S
      PROVE  n + 1 \in S
  <2>1. ASSUME NEW k \in Positions(n + 1)
        PROVE  MerkleNodes(seq)[n + 1][k] \in Words[n + 1]
    <3>1. /\ MerkleNodes(seq)[n][2 * k] \in Words[n]
          /\ MerkleNodes(seq)[n][2 * k + 1] \in Words[n]
      BY <1>2, ChildPositions
    <3>2. MerkleNodes(seq)[n + 1][k] =
            <<MerkleNodes(seq)[n][2 * k], MerkleNodes(seq)[n][2 * k + 1]>>
      BY MerkleDef, Zenon DEF hash2
    <3> QED
      BY <3>1, <3>2, WordsDef
  <2> QED
    BY <2>1, DepthAssumption
<1>3. \A n \in 0..TREE_DEPTH : n \in S
  <2> HIDE DEF S
  <2> QED BY <1>1, <1>2, Interval, DepthAssumption
<1>4. MerkleRoot(seq) \in Words[TREE_DEPTH]
  BY <1>3, PositionsHalve, DepthAssumption DEF MerkleRoot
<1> QED
  BY <1>4, NoZeroRootAssumption

(* The levels that reconstruct_path computes from the leaves are those of the   *)
(* complete tree, up to the node above the last leaf.                          *)
LEMMA LevelsHold ==
  ASSUME NEW seq \in Seq(Leaves), NEW m \in Nat, Len(seq) = m + 1
  PROVE  \A i \in 0..TREE_DEPTH :
           /\ Len(LevelsOf(seq)[i]) = Above(m)[i] + 1
           /\ \A k \in Positions(i) : k <= Above(m)[i] =>
                LevelsOf(seq)[i][k + 1] = MerkleNodes(seq)[i][k]
<1> DEFINE Good(i) == /\ Len(LevelsOf(seq)[i]) = Above(m)[i] + 1
                      /\ \A k \in Positions(i) : k <= Above(m)[i] =>
                           LevelsOf(seq)[i][k + 1] = MerkleNodes(seq)[i][k]
           S == {i \in 0..TREE_DEPTH : Good(i)}
<1>1. 0 \in S
  <2>1. LevelsOf(seq)[0] = seq /\ Above(m)[0] = m
    BY LevelsDef, AboveDef
  <2>2. ASSUME NEW k \in Positions(0), k <= m
        PROVE  seq[k + 1] = MerkleNodes(seq)[0][k]
    <3>1. MerkleNodes(seq)[0][k] = IF k < Len(seq) THEN seq[k + 1] ELSE ZERO_LEAF
      BY MerkleDef, Zenon
    <3> QED
      BY <2>2, <3>1, PositionsHalve
  <2> QED
    BY <2>1, <2>2, DepthAssumption
<1>2. ASSUME NEW n \in 0..(TREE_DEPTH - 1), n \in S
      PROVE  n + 1 \in S
  <2> DEFINE level == LevelsOf(seq)[n]
             a == Above(m)[n]
             b == Above(m)[n + 1]
             node(k) == IF k <= Len(level) THEN level[k] ELSE zero_hashes[n]
             parents == [k \in 1..(b + 1) |-> hash2(node(2 * k - 1), node(2 * k))]
  <2>1. /\ n \in 0..TREE_DEPTH /\ n + 1 \in 0..TREE_DEPTH
        /\ a \in Nat /\ b \in Nat /\ b = a \div 2 /\ Len(level) = a + 1
    <3>1. n \in 0..TREE_DEPTH /\ n + 1 \in 0..TREE_DEPTH
      BY DepthAssumption
    <3>2. a \in Nat /\ b \in Nat
      BY <3>1, Carry, Zenon
    <3> QED
      BY <1>2, <3>1, <3>2, AboveDef
  <2>2. LevelsOf(seq)[n + 1] = parents
    <3>1. LevelsOf(seq)[n + 1] = ParentLevel(level, n)
      BY LevelsDef, Zenon
    <3>2. level # <<>>
      BY <2>1
    <3>3. (Len(level) + 1) \div 2 = b + 1
      BY <2>1
    <3> HIDE DEF level, b
    <3> QED
      BY <3>1, <3>2, <3>3 DEF ParentLevel
  <2>3. Len(parents) = b + 1
    <3> HIDE DEF node, b
    <3> QED
      BY <2>1
  <2>4. ASSUME NEW k \in Positions(n + 1), k <= b
        PROVE  parents[k + 1] = MerkleNodes(seq)[n + 1][k]
    <3>1. /\ k \in Nat /\ 2 * k \in Positions(n) /\ 2 * k + 1 \in Positions(n)
      BY ChildPositions
    <3>2. parents[k + 1] = hash2(node(2 * k + 1), node(2 * k + 2))
      <4>1. k + 1 \in 1..(b + 1) /\ 2 * (k + 1) - 1 = 2 * k + 1 /\ 2 * (k + 1) = 2 * k + 2
        BY <2>1, <2>4, <3>1
      <4> HIDE DEF node, b
      <4> QED
        BY <4>1
    <3>3. node(2 * k + 1) = MerkleNodes(seq)[n][2 * k]
      <4>1. 2 * k <= a /\ 2 * k + 1 <= Len(level)
        BY <2>1, <2>4, <3>1
      <4> QED
        BY <1>2, <3>1, <4>1
    <3>4. node(2 * k + 2) = MerkleNodes(seq)[n][2 * k + 1]
      <4>1. CASE 2 * k + 1 <= a
        <5>1. 2 * k + 2 <= Len(level) /\ (2 * k + 1) + 1 = 2 * k + 2
          BY <2>1, <3>1, <4>1
        <5> QED
          BY <1>2, <3>1, <4>1, <5>1
      <4>2. CASE ~(2 * k + 1 <= a)
        <5>1. ~(2 * k + 2 <= Len(level)) /\ 2 * k + 1 > a
          BY <2>1, <3>1, <4>2
        <5>2. MerkleNodes(seq)[n][2 * k + 1] = zero_hashes[n]
          <6>1. Len(seq) \in Nat /\ Len(seq) <= m + 1
            OBVIOUS
          <6> HIDE DEF level
          <6> QED
            BY <2>1, <3>1, <5>1, <6>1, EmptyNodes
        <5> QED
          BY <5>1, <5>2
      <4> QED
        BY <4>1, <4>2
    <3>5. MerkleNodes(seq)[n + 1][k] =
            hash2(MerkleNodes(seq)[n][2 * k], MerkleNodes(seq)[n][2 * k + 1])
      BY MerkleDef, Zenon
    <3> HIDE DEF node
    <3> QED
      BY <3>2, <3>3, <3>4, <3>5
  <2>5. Good(n + 1)
    BY <2>2, <2>3, <2>4
  <2> HIDE DEF Good
  <2> QED
    BY <2>1, <2>5
<1>3. \A n \in 0..TREE_DEPTH : n \in S
  <2> HIDE DEF S
  <2> QED BY <1>1, <1>2, Interval, DepthAssumption
<1> QED
  BY <1>3

(* A rebuilt path leads from its leaf to the root of the tree over the leaves  *)
(* it was rebuilt from.                                                        *)
LEMMA RebuiltPath ==
  ASSUME NEW seq \in Seq(Leaves), Len(seq) <= Capacity,
         NEW index \in 0..(Len(seq) - 1)
  PROVE  LET path == reconstruct_path(seq, index)
         IN /\ path.root = MerkleRoot(seq)
            /\ FoldPath(seq[index + 1], path.siblings, path.right) = MerkleRoot(seq)
<1> DEFINE m == Len(seq) - 1
           level == LevelsOf(seq)
           sib(i) == IF IsRight(index, i) THEN Above(index)[i] - 1 ELSE Above(index)[i] + 1
           siblings == [i \in Levels |-> IF sib(i) < Len(level[i])
                                         THEN level[i][sib(i) + 1] ELSE zero_hashes[i]]
           right == [i \in Levels |-> IsRight(index, i)]
           fold == PathNodes(seq[index + 1], siblings, right)
<1>0. /\ m \in 0..(Capacity - 1) /\ m \in Nat /\ Len(seq) = m + 1 /\ Len(seq) \in Nat
      /\ index \in 0..(Capacity - 1) /\ index <= m
  BY LenProperties, PositionsHalve
<1>1. reconstruct_path(seq, index) =
        [siblings |-> siblings, right |-> right, root |-> level[TREE_DEPTH][1]]
  BY DEF reconstruct_path
<1>2. level[TREE_DEPTH][1] = MerkleRoot(seq)
  <2>1. /\ TREE_DEPTH \in 0..TREE_DEPTH /\ 0 \in Positions(TREE_DEPTH)
        /\ Above(m)[TREE_DEPTH] = 0
    BY <1>0, AboveType, PositionsHalve, DepthAssumption
  <2>2. level[TREE_DEPTH][0 + 1] = MerkleNodes(seq)[TREE_DEPTH][0]
    <3> HIDE DEF m
    <3> QED BY <1>0, <2>1, LevelsHold
  <2> QED
    BY <2>2 DEF MerkleRoot
<1>3. ASSUME NEW i \in Levels
      PROVE  /\ sib(i) \in Positions(i)
             /\ siblings[i] = MerkleNodes(seq)[i][sib(i)]
  <2> DEFINE a == Above(index)[i]
  <2>0. i \in 0..TREE_DEPTH /\ i \in 0..(TREE_DEPTH - 1)
    BY DepthAssumption DEF Levels
  <2>1. a \in Positions(i) /\ a \in Nat
    BY <1>0, <2>0, AboveType
  <2>2. PICK p \in Nat \ {0} : Positions(i) = 0..(2 * p - 1)
    <3>1. i + 1 \in 0..TREE_DEPTH
      BY <2>0, DepthAssumption
    <3>2. /\ Pow2[TREE_DEPTH - i] = 2 * Pow2[TREE_DEPTH - (i + 1)]
          /\ Pow2[TREE_DEPTH - (i + 1)] \in Nat \ {0}
      BY <2>0, <3>1, PositionsHalve, Zenon
    <3> QED
      BY <3>2 DEF Positions
  <2>3. sib(i) \in Positions(i)
    <3>1. CASE a % 2 = 1
      <4>1. a - 1 \in Positions(i)
        <5> HIDE DEF a
        <5> QED BY <2>1, <2>2, <3>1
      <4> QED
        BY <3>1, <4>1 DEF IsRight
    <3>2. CASE a % 2 # 1
      <4>1. a + 1 \in Positions(i)
        <5> HIDE DEF a
        <5> QED BY <2>1, <2>2, <3>2
      <4> QED
        BY <3>2, <4>1 DEF IsRight
    <3> QED
      BY <3>1, <3>2
  <2>4. siblings[i] = MerkleNodes(seq)[i][sib(i)]
    <3>1. siblings[i] = IF sib(i) < Len(level[i]) THEN level[i][sib(i) + 1] ELSE zero_hashes[i]
      OBVIOUS
    <3> HIDE DEF siblings, sib, m
    <3>2. sib(i) \in Nat
      BY <2>2, <2>3
    <3>3. Above(m)[i] \in Nat /\ Len(level[i]) = Above(m)[i] + 1
      BY <1>0, <2>0, AboveType, LevelsHold
    <3>4. CASE sib(i) < Len(level[i])
      <4>1. sib(i) <= Above(m)[i]
        BY <3>2, <3>3, <3>4
      <4>2. level[i][sib(i) + 1] = MerkleNodes(seq)[i][sib(i)]
        BY <1>0, <2>0, <2>3, <4>1, LevelsHold
      <4> QED
        BY <3>1, <3>4, <4>2
    <3>5. CASE ~(sib(i) < Len(level[i]))
      <4>1. sib(i) > Above(m)[i] /\ Len(seq) <= m + 1
        BY <1>0, <3>2, <3>3, <3>5
      <4>2. MerkleNodes(seq)[i][sib(i)] = zero_hashes[i]
        BY <1>0, <2>0, <2>3, <4>1, EmptyNodes
      <4> QED
        BY <3>1, <3>5, <4>2
    <3> QED
      BY <3>4, <3>5
  <2> QED
    BY <2>3, <2>4
<1> HIDE DEF siblings, m, level
<1> DEFINE S == {i \in 0..TREE_DEPTH : fold[i] = MerkleNodes(seq)[i][Above(index)[i]]}
<1>4. 0 \in S
  <2>1. fold[0] = seq[index + 1] /\ Above(index)[0] = index
    BY PathDef, AboveDef
  <2>2. index \in Positions(0) /\ index < Len(seq)
    BY <1>0, PositionsHalve
  <2>3. MerkleNodes(seq)[0][index] = IF index < Len(seq) THEN seq[index + 1] ELSE ZERO_LEAF
    BY <2>2, MerkleDef, Zenon
  <2> HIDE DEF fold
  <2> QED
    BY <2>1, <2>2, <2>3, DepthAssumption
<1>5. ASSUME NEW n \in 0..(TREE_DEPTH - 1), n \in S
      PROVE  n + 1 \in S
  <2> DEFINE a == Above(index)[n]
             b == Above(index)[n + 1]
  <2>1. /\ n \in 0..TREE_DEPTH /\ n + 1 \in 0..TREE_DEPTH /\ n \in Levels
        /\ a \in Nat /\ b \in Positions(n + 1) /\ b \in Nat /\ b = a \div 2
    <3>1. n \in 0..TREE_DEPTH /\ n + 1 \in 0..TREE_DEPTH /\ n \in Levels
      BY DepthAssumption DEF Levels
    <3> QED
      BY <1>0, <3>1, AboveType, AboveDef
  <2>2. fold[n + 1] = Parent(fold[n], siblings[n], right[n])
    <3>1. \A i \in 0..(TREE_DEPTH - 1) : fold[i + 1] = Parent(fold[i], siblings[i], right[i])
      <4> HIDE DEF right
      <4> QED BY PathDef
    <3> HIDE DEF fold, right
    <3> QED BY <3>1
  <2>3. right[n] = IsRight(index, n)
    BY <2>1
  <2>4. siblings[n] = MerkleNodes(seq)[n][sib(n)]
    BY <1>3, <2>1
  <2>5. fold[n] = MerkleNodes(seq)[n][a]
    BY <1>5
  <2>6. MerkleNodes(seq)[n + 1][b] =
          hash2(MerkleNodes(seq)[n][2 * b], MerkleNodes(seq)[n][2 * b + 1])
    BY <2>1, MerkleDef, Zenon
  <2>7. CASE IsRight(index, n)
    <3>1. a = 2 * b + 1 /\ sib(n) = 2 * b
      <4>1. a % 2 = 1
        BY <2>7 DEF IsRight
      <4>2. a = 2 * b + 1
        BY <2>1, <4>1
      <4>3. sib(n) = a - 1
        BY <2>7
      <4> HIDE DEF a, b, sib
      <4> QED
        BY <2>1, <4>2, <4>3
    <3>2. fold[n + 1] = hash2(siblings[n], fold[n])
      <4> HIDE DEF fold, right
      <4> QED
        BY <2>2, <2>3, <2>7, Zenon DEF Parent
    <3> HIDE DEF fold, sib
    <3> QED
      BY <2>1, <2>4, <2>5, <2>6, <3>1, <3>2
  <2>8. CASE ~IsRight(index, n)
    <3>1. a = 2 * b /\ sib(n) = 2 * b + 1
      <4>1. a % 2 # 1
        BY <2>8 DEF IsRight
      <4> QED
        BY <2>1, <2>8, <4>1
    <3>2. fold[n + 1] = hash2(fold[n], siblings[n])
      <4> HIDE DEF fold, right
      <4> QED
        BY <2>2, <2>3, <2>8, Zenon DEF Parent
    <3> HIDE DEF fold, sib
    <3> QED
      BY <2>1, <2>4, <2>5, <2>6, <3>1, <3>2
  <2> QED
    BY <2>7, <2>8
<1>6. \A n \in 0..TREE_DEPTH : n \in S
  <2> HIDE DEF S
  <2> QED BY <1>4, <1>5, Interval, DepthAssumption
<1>7. fold[TREE_DEPTH] = MerkleRoot(seq)
  <2>1. TREE_DEPTH \in 0..TREE_DEPTH /\ Above(index)[TREE_DEPTH] = 0
    BY <1>0, AboveType, DepthAssumption
  <2> HIDE DEF fold
  <2> QED
    BY <1>6, <2>1 DEF MerkleRoot
<1>8. FoldPath(seq[index + 1], siblings, right) = MerkleRoot(seq)
  BY <1>7 DEF FoldPath
<1> HIDE DEF right, fold
<1> QED
  BY <1>1, <1>2, <1>8

(* The slot of the ring that a recent root is in.                              *)
LEMMA RecentRootIsKnown ==
  ASSUME TreeInv, NEW n \in 0..Len(leaves), n + ROOT_HISTORY > Len(leaves)
  PROVE  is_known_root(MerkleRoot(Prefix(n)))
<1> DEFINE m == Len(leaves)
           a == m - n
           c == current_root_index
           j == IF a <= c THEN c - a ELSE c + ROOT_HISTORY - a
<1>1. /\ leaves \in Seq(Leaves) /\ m \in Nat /\ c \in Nat /\ c <= ROOT_HISTORY - 1
      /\ a \in Nat /\ a <= m /\ a <= ROOT_HISTORY - 1 /\ m - a = n /\ ROOT_HISTORY \in Nat
  BY LenProperties, HistoryAssumption DEF TreeInv, Slots
<1>2. j \in Slots /\ Age(j) = a
  BY <1>1 DEF Slots, Age
<1> HIDE DEF j
<1>3. roots[j] = MerkleRoot(Prefix(n))
  BY <1>1, <1>2 DEF TreeInv, RingHolds
<1>4. Prefix(n) \in Seq(Leaves)
  BY <1>1, Prefixes DEF Prefix
<1> QED
  BY <1>2, <1>3, <1>4, RootIsNotZero DEF is_known_root

(* A wallet can spend: the path that reconstruct_path rebuilds from any prefix of  *)
(* the log folds, from its leaf, to the root it reports, and while the prefix is    *)
(* recent the program knows that root.                                              *)
THEOREM RebuiltPathsAreKnown == Spec => []PathsReachKnownRoots
<1>1. TreeInv => PathsReachKnownRoots
  <2> SUFFICES ASSUME TreeInv, NEW n \in 1..Len(leaves), NEW index \in 0..(n - 1)
               PROVE  LET path == reconstruct_path(Prefix(n), index)
                      IN /\ FoldPath(leaves[index + 1], path.siblings, path.right) = path.root
                         /\ n + ROOT_HISTORY > Len(leaves) => is_known_root(path.root)
    BY DEF PathsReachKnownRoots
  <2> DEFINE path == reconstruct_path(Prefix(n), index)
  <2>1. /\ leaves \in Seq(Leaves) /\ Len(leaves) \in Nat /\ Len(leaves) <= Capacity
        /\ n \in 0..Len(leaves) /\ index + 1 \in 1..n
    BY LenProperties DEF TreeInv
  <2>2. /\ Prefix(n) \in Seq(Leaves) /\ Len(Prefix(n)) = n
        /\ Prefix(n)[index + 1] = leaves[index + 1] /\ n <= Capacity
    BY <2>1, Prefixes, PositionsHalve DEF Prefix
  <2>3. /\ path.root = MerkleRoot(Prefix(n))
        /\ FoldPath(leaves[index + 1], path.siblings, path.right) = MerkleRoot(Prefix(n))
    <3>1. index \in 0..(Len(Prefix(n)) - 1) /\ Len(Prefix(n)) <= Capacity
      BY <2>2
    <3> QED
      BY <2>2, <3>1, RebuiltPath
  <2>4. n + ROOT_HISTORY > Len(leaves) => is_known_root(MerkleRoot(Prefix(n)))
    BY <2>1, RecentRootIsKnown
  <2> HIDE DEF path
  <2>5. /\ FoldPath(leaves[index + 1], path.siblings, path.right) = path.root
        /\ n + ROOT_HISTORY > Len(leaves) => is_known_root(path.root)
    BY <2>3, <2>4
  <2> QED
    BY <2>5 DEF path
<1> QED
  BY <1>1, TreeInvariant, PTL

-----------------------------------------------------------------------------
(* Refinement.                                                                 *)

(* Two trees with the same root have the same leaves.                          *)
LEMMA SameRootSameLeaves ==
  ASSUME NEW s, NEW t, MerkleRoot(s) = MerkleRoot(t)
  PROVE  \A k \in Positions(0) : MerkleNodes(s)[0][k] = MerkleNodes(t)[0][k]
<1> DEFINE Same(i) == \A k \in Positions(i) : MerkleNodes(s)[i][k] = MerkleNodes(t)[i][k]
           S == {d \in 0..TREE_DEPTH : Same(TREE_DEPTH - d)}
<1>1. 0 \in S
  <2>1. Same(TREE_DEPTH)
    BY PositionsHalve DEF MerkleRoot
  <2> HIDE DEF Same
  <2> QED
    BY <2>1, DepthAssumption
<1>2. ASSUME NEW n \in 0..(TREE_DEPTH - 1), n \in S
      PROVE  n + 1 \in S
  <2> DEFINE i == TREE_DEPTH - (n + 1)
  <2>1. i \in 0..(TREE_DEPTH - 1) /\ i + 1 = TREE_DEPTH - n /\ n + 1 \in 0..TREE_DEPTH
    BY DepthAssumption
  <2>2. Same(i + 1)
    <3> HIDE DEF Same
    <3> QED
      BY <1>2, <2>1
  <2> HIDE DEF i
  <2>3. ASSUME NEW k \in Positions(i)
        PROVE  MerkleNodes(s)[i][k] = MerkleNodes(t)[i][k]
    <3> DEFINE h == k \div 2
    <3>1. k \in Nat /\ h \in Positions(i + 1)
      BY <2>1, ChildPositions
    <3>2. k = 2 * h \/ k = 2 * h + 1
      BY <3>1
    <3> HIDE DEF h
    <3>3. /\ MerkleNodes(s)[i + 1][h] = <<MerkleNodes(s)[i][2 * h], MerkleNodes(s)[i][2 * h + 1]>>
          /\ MerkleNodes(t)[i + 1][h] = <<MerkleNodes(t)[i][2 * h], MerkleNodes(t)[i][2 * h + 1]>>
      BY <2>1, <3>1, MerkleDef, Zenon DEF hash2
    <3>4. MerkleNodes(s)[i + 1][h] = MerkleNodes(t)[i + 1][h]
      BY <2>2, <3>1
    <3>5. /\ MerkleNodes(s)[i][2 * h] = MerkleNodes(t)[i][2 * h]
          /\ MerkleNodes(s)[i][2 * h + 1] = MerkleNodes(t)[i][2 * h + 1]
      BY <3>3, <3>4
    <3> QED
      BY <3>2, <3>5
  <2>4. Same(i)
    BY <2>3
  <2> HIDE DEF Same
  <2> QED
    BY <2>1, <2>4 DEF i
<1>3. \A n \in 0..TREE_DEPTH : n \in S
  <2> HIDE DEF S
  <2> QED BY <1>1, <1>2, Interval, DepthAssumption
<1>4. Same(TREE_DEPTH - TREE_DEPTH)
  BY <1>3, DepthAssumption
<1> QED
  BY <1>4, DepthAssumption

(* A root names one prefix of the log.                                         *)
LEMMA RootNamesPrefix ==
  ASSUME NEW seq \in Seq(Leaves), Len(seq) <= Capacity,
         NEW n \in 0..Len(seq), NEW p \in 0..Len(seq),
         MerkleRoot(SubSeq(seq, 1, n)) = MerkleRoot(SubSeq(seq, 1, p))
  PROVE  n = p
<1>1. ASSUME NEW a \in 0..Len(seq), NEW b \in 0..Len(seq), a < b,
             MerkleRoot(SubSeq(seq, 1, a)) = MerkleRoot(SubSeq(seq, 1, b))
      PROVE  FALSE
  <2>1. a \in Positions(0) /\ a + 1 \in 1..Len(seq)
    BY <1>1, LenProperties, PositionsHalve
  <2>2. MerkleNodes(SubSeq(seq, 1, a))[0][a] = MerkleNodes(SubSeq(seq, 1, b))[0][a]
    BY <1>1, <2>1, SameRootSameLeaves, Zenon
  <2>3. /\ MerkleNodes(SubSeq(seq, 1, a))[0][a] = IF a < a THEN seq[a + 1] ELSE ZERO_LEAF
        /\ MerkleNodes(SubSeq(seq, 1, b))[0][a] = IF a < b THEN seq[a + 1] ELSE ZERO_LEAF
    BY <2>1, LeavesOfPrefix, Zenon
  <2>4. seq[a + 1] \in Leaves
    BY <2>1, ElementOfSeq
  <2> QED
    BY <1>1, <2>2, <2>3, <2>4, ZeroLeafAssumption
<1>2. n \in Int /\ p \in Int
  BY LenProperties
<1>3. CASE n < p
  BY <1>1, <1>3
<1>4. CASE p < n
  BY <1>1, <1>4
<1> QED
  BY <1>2, <1>3, <1>4

(* The prefixes whose root the ring accepts.                                   *)
KnownPrefixes == {n \in 0..Len(leaves) : is_known_root(MerkleRoot(Prefix(n)))}

RecentPrefixes == {n \in 0..Len(leaves) : n + ROOT_HISTORY > Len(leaves)}

(* They are the most recent ones.                                              *)
LEMMA KnownAreRecent == TreeInv => KnownPrefixes = RecentPrefixes
<1> SUFFICES ASSUME TreeInv PROVE KnownPrefixes = RecentPrefixes
  OBVIOUS
<1>1. ASSUME NEW n \in 0..Len(leaves), is_known_root(MerkleRoot(Prefix(n)))
      PROVE  n + ROOT_HISTORY > Len(leaves)
  <2>1. PICK j \in Slots : roots[j] = MerkleRoot(Prefix(n)) /\ roots[j] # ZERO_LEAF
    BY <1>1 DEF is_known_root
  <2>2. /\ leaves \in Seq(Leaves) /\ Len(leaves) \in Nat /\ Len(leaves) <= Capacity
        /\ Age(j) \in 0..(ROOT_HISTORY - 1) /\ ROOT_HISTORY \in Nat
    BY LenProperties, HistoryAssumption DEF TreeInv, Age, Slots
  <2> DEFINE p == Len(leaves) - Age(j)
  <2>3. p \in 0..Len(leaves) /\ roots[j] = MerkleRoot(Prefix(p))
    BY <2>1, <2>2 DEF TreeInv, RingHolds
  <2>4. n = p
    <3> HIDE DEF p
    <3> QED
      BY <2>1, <2>2, <2>3, RootNamesPrefix DEF Prefix
  <2> QED
    BY <2>2, <2>4
<1> QED
  BY <1>1, RecentRootIsKnown DEF KnownPrefixes, RecentPrefixes

(* The tree implements the log of recent roots.                                *)
THEOREM TreeImplementsRootLog == Spec => ImplementsRootLog
<1>1. new => Log!LogInit
  <2> SUFFICES ASSUME new PROVE Log!LogInit
    OBVIOUS
  <2>1. leaves = <<>> /\ Len(leaves) = 0 /\ leaves \in Seq(Leaves) /\ current_root_index = 0
    BY EmptySeq DEF new
  <2>2. roots[0] = empty_root /\ 0 \in Slots
    BY HistoryAssumption DEF new, Slots
  <2>3. Prefix(0) = <<>>
    BY <2>1, Prefixes DEF Prefix
  <2>4. MerkleRoot(Prefix(0)) = empty_root /\ MerkleRoot(Prefix(0)) # ZERO_LEAF
    BY <2>1, <2>3, EmptyTree, RootIsNotZero
  <2>5. KnownPrefixes = {0}
    BY <2>1, <2>2, <2>4 DEF KnownPrefixes, is_known_root
  <2> QED
    BY <2>1, <2>5 DEF Log!LogInit, KnownPrefixes
<1>2. TreeInv' => (KnownPrefixes = RecentPrefixes)'
  BY KnownAreRecent, PTL
<1>3. TreeInv /\ TreeInv' /\ [Next]_treeVars => [Log!LogNext]_(Log!logVars)
  <2> SUFFICES ASSUME TreeInv, TreeInv', [Next]_treeVars
               PROVE  Log!LogNext \/ UNCHANGED Log!logVars
    OBVIOUS
  <2>1. ASSUME NEW leaf \in Leaves, insert(leaf)
        PROVE  Log!Publish(1)
    <3>1. /\ Len(leaves) \in Nat /\ Len(leaves') = Len(leaves) + 1
          /\ Len(leaves) < Capacity /\ Capacity \in Nat
      BY <2>1, LenProperties, AppendProperties, PositionsHalve DEF TreeInv, insert
    <3>2. KnownPrefixes' = {n \in 0..(Len(leaves) + 1) : n + ROOT_HISTORY > Len(leaves) + 1}
      <4>1. KnownPrefixes' = RecentPrefixes'
        BY <1>2
      <4> QED
        BY <3>1, <4>1 DEF RecentPrefixes
    <3>3. KnownPrefixes # {}
      <4>1. Len(leaves) \in KnownPrefixes
        BY <3>1, KnownAreRecent, HistoryAssumption DEF RecentPrefixes
      <4> QED
        BY <4>1
    <3> QED
      BY <3>1, <3>2, <3>3 DEF Log!Publish, Log!Recent, KnownPrefixes
  <2>2. CASE UNCHANGED treeVars
    BY <2>2 DEF treeVars, Log!logVars, Prefix, is_known_root
  <2> QED
    BY <2>1, <2>2 DEF Next, Log!LogNext
<1> QED
  BY <1>1, <1>3, TreeInvariant, PTL DEF Spec, ImplementsRootLog, Log!LogSpec
=============================================================================
