---------------------------- MODULE CommitmentTree ----------------------------
(***************************************************************************)
(* The incremental Poseidon Merkle tree of crates/common/src/tree.rs, which *)
(* programs/opaq (tree_insert) and evm/src/OpaqPool.sol (_insert) repeat     *)
(* over raw account bytes and over storage slots: O(depth) insertion over a  *)
(* frontier of left siblings, a ring buffer of recent roots, and             *)
(* reconstruct_path, with which a client rebuilds an authentication path     *)
(* from the leaves alone.                                                    *)
(*                                                                           *)
(* The 2-input hash is symbolic: hash2(a, b) is the pair itself, which is     *)
(* what collision resistance lets the code rely on.                          *)
(***************************************************************************)
EXTENDS Naturals, Sequences

CONSTANTS
  TREE_DEPTH,    \* levels above the leaves (24 in the code)
  ROOT_HISTORY,  \* slots of the ring of recent roots (32 in the code)
  Leaves,        \* values a leaf may have
  ZERO_LEAF      \* the all-zero word: empty leaf, and unused ring slot

ASSUME DepthAssumption == TREE_DEPTH \in Nat \ {0}
ASSUME HistoryAssumption == ROOT_HISTORY \in Nat \ {0}
ASSUME ZeroLeafAssumption == ZERO_LEAF \notin Leaves

\* The values that nodes of each height may have.
Words[h \in 0..TREE_DEPTH] ==
  IF h = 0 THEN Leaves \cup {ZERO_LEAF} ELSE Words[h - 1] \X Words[h - 1]

\* No tree hashes to the all-zero word, by which is_known_root tells a slot of the
\* ring that was never written.
ASSUME NoZeroRootAssumption == ZERO_LEAF \notin Words[TREE_DEPTH]

VARIABLES
  next_index,
  filled_subtrees,
  roots,
  current_root_index,
  leaves            \* history: what was inserted, which no account retains

treeVars == <<next_index, filled_subtrees, roots, current_root_index, leaves>>

Levels == 0..(TREE_DEPTH - 1)
Slots  == 0..(ROOT_HISTORY - 1)

\* The positions below a node of each height: 1 << i.
Pow2[i \in 0..TREE_DEPTH] == IF i = 0 THEN 1 ELSE 2 * Pow2[i - 1]

Capacity == Pow2[TREE_DEPTH]

-----------------------------------------------------------------------------
hash2(a, b) == <<a, b>>

\* Root of the all-empty subtree of each height; the last one is empty_root.
zero_hashes[i \in 0..TREE_DEPTH] ==
  IF i = 0 THEN ZERO_LEAF ELSE hash2(zero_hashes[i - 1], zero_hashes[i - 1])

empty_root == hash2(zero_hashes[TREE_DEPTH - 1], zero_hashes[TREE_DEPTH - 1])

is_known_root(root) == root # ZERO_LEAF /\ \E j \in Slots : roots[j] = root

\* Mutant: unused ring slots are not filtered out.
known_roots_with_unused == {roots[j] : j \in Slots}

known_roots == {roots[j] : j \in Slots} \ {ZERO_LEAF}

current_root == roots[current_root_index]

\* The positions of the nodes above the leaf at `index`, level by level.
Above(index) ==
  LET idx[i \in 0..TREE_DEPTH] == IF i = 0 THEN index ELSE idx[i - 1] \div 2
  IN idx

\* Is the node above `index` at level i a right child?
IsRight(index, i) == Above(index)[i] % 2 = 1

\* The nodes on the way from a new leaf at next_index up to the new root.
Climb(leaf) ==
  LET node[i \in 0..TREE_DEPTH] ==
        IF i = 0 THEN leaf
        ELSE IF IsRight(next_index, i - 1)
             THEN hash2(filled_subtrees[i - 1], node[i - 1])
             ELSE hash2(node[i - 1], zero_hashes[i - 1])
  IN node

\* Mutant: right children are remembered too.
NewFrontierAlways(leaf) == [i \in Levels |-> Climb(leaf)[i]]

\* The frontier afterwards: a left child is remembered for its right sibling.
NewFrontier(leaf) ==
  [i \in Levels |-> IF IsRight(next_index, i) THEN filled_subtrees[i]
                                               ELSE Climb(leaf)[i]]

\* Mutant: the ring wraps one slot early.
NextSlotEarlyWrap == (current_root_index + 1) % (ROOT_HISTORY - 1)

NextSlot == (current_root_index + 1) % ROOT_HISTORY

insert(leaf) ==
  /\ next_index < Capacity                           \* TreeError::Full
  /\ filled_subtrees' = NewFrontier(leaf)
  /\ current_root_index' = NextSlot
  /\ roots' = [roots EXCEPT ![NextSlot] = Climb(leaf)[TREE_DEPTH]]
  /\ next_index' = next_index + 1
  /\ leaves' = Append(leaves, leaf)

new ==
  /\ next_index = 0
  /\ filled_subtrees = [i \in Levels |-> zero_hashes[i]]
  /\ roots = [j \in Slots |-> IF j = 0 THEN empty_root ELSE ZERO_LEAF]
  /\ current_root_index = 0
  /\ leaves = <<>>

Next == \E leaf \in Leaves : insert(leaf)

Spec == new /\ [][Next]_treeVars

-----------------------------------------------------------------------------
(* The client's side of the tree.                                          *)

\* One level of reconstruct_path: pair up the nodes, padding with the empty
\* subtree of that height; an empty level still has one (empty) parent.
ParentLevel(level, i) ==
  LET node(k) == IF k <= Len(level) THEN level[k] ELSE zero_hashes[i]
      size == IF level = <<>> THEN 1 ELSE (Len(level) + 1) \div 2
  IN [k \in 1..size |-> hash2(node(2 * k - 1), node(2 * k))]

LevelsOf(seq) ==
  LET level[i \in 0..TREE_DEPTH] ==
        IF i = 0 THEN seq ELSE ParentLevel(level[i - 1], i - 1)
  IN level

\* Mutant: missing siblings are padded with the empty leaf at every height.
reconstruct_path_zero_leaf(seq, index) ==
  LET level == LevelsOf(seq)
      sib(i) == IF IsRight(index, i) THEN Above(index)[i] - 1 ELSE Above(index)[i] + 1
  IN [siblings |-> [i \in Levels |-> IF sib(i) < Len(level[i])
                                     THEN level[i][sib(i) + 1]
                                     ELSE ZERO_LEAF],
      right    |-> [i \in Levels |-> IsRight(index, i)],
      root     |-> level[TREE_DEPTH][1]]

\* The path of the leaf at `index` (from 0) in the tree over seq, and its root.
reconstruct_path(seq, index) ==
  LET level == LevelsOf(seq)
      sib(i) == IF IsRight(index, i) THEN Above(index)[i] - 1 ELSE Above(index)[i] + 1
  IN [siblings |-> [i \in Levels |-> IF sib(i) < Len(level[i])
                                     THEN level[i][sib(i) + 1]
                                     ELSE zero_hashes[i]],
      right    |-> [i \in Levels |-> IsRight(index, i)],
      root     |-> level[TREE_DEPTH][1]]

\* One level of a path: right is the direction bit.
Parent(node, sibling, right) ==
  IF right THEN hash2(sibling, node) ELSE hash2(node, sibling)

\* merkle_root_be, and the membership fold of the withdraw, transfer, burn and
\* xburn circuits.
PathNodes(leaf, siblings, right) ==
  LET node[i \in 0..TREE_DEPTH] ==
        IF i = 0 THEN leaf ELSE Parent(node[i - 1], siblings[i - 1], right[i - 1])
  IN node

FoldPath(leaf, siblings, right) == PathNodes(leaf, siblings, right)[TREE_DEPTH]

-----------------------------------------------------------------------------
(* Reference: the complete binary tree over all 2^TREE_DEPTH positions.     *)

Positions(h) == 0..(Pow2[TREE_DEPTH - h] - 1)

MerkleNodes(seq) ==
  LET node[h \in 0..TREE_DEPTH] ==
        [k \in Positions(h) |->
           IF h = 0 THEN IF k < Len(seq) THEN seq[k + 1] ELSE ZERO_LEAF
           ELSE hash2(node[h - 1][2 * k], node[h - 1][2 * k + 1])]
  IN node

MerkleRoot(seq) == MerkleNodes(seq)[TREE_DEPTH][0]

Prefix(n) == SubSeq(leaves, 1, n)

Children(nodes) == UNION {{t[1], t[2]} : t \in nodes}

\* Everything a path of so many siblings can connect to the root.
Below(root) ==
  LET nodes[d \in 0..TREE_DEPTH] ==
        IF d = 0 THEN {root} ELSE Children(nodes[d - 1])
  IN nodes

Reachable(root) == Below(root)[TREE_DEPTH]

-----------------------------------------------------------------------------
\* The root that the O(depth) frontier insertion writes is the Merkle root of
\* all leaves inserted so far, although the account keeps none of them.
FrontierComputesMerkleRoot == current_root = MerkleRoot(leaves)

\* A path rebuilt by reconstruct_path from any prefix of the history folds, in
\* the circuits, to the root it reports; and that root is accepted on chain as
\* long as the prefix is among the recent ones.
PathsReachKnownRoots ==
  \A n \in 1..Len(leaves) : \A index \in 0..(n - 1) :
    LET path == reconstruct_path(Prefix(n), index)
    IN /\ FoldPath(leaves[index + 1], path.siblings, path.right) = path.root
       /\ n + ROOT_HISTORY > Len(leaves) => is_known_root(path.root)

\* What a membership proof against an accepted root can be about: every value
\* in the ring is the root of a prefix of the history, and what a path of
\* TREE_DEPTH siblings connects to it is a leaf of that very prefix or an empty
\* position (no inner node passes for a leaf, no later leaf for an older root).
MembershipIsSound ==
  \A root \in known_roots : \E n \in 0..Len(leaves) :
    /\ root = MerkleRoot(Prefix(n))
    /\ Reachable(root) \ {ZERO_LEAF} = {leaves[i] : i \in 1..n}

\* The tree implements the log of recent roots: the ring accepts the root
\* of a prefix exactly while it is one of the ROOT_HISTORY last ones.
Log == INSTANCE RootLog WITH
         RootHistory <- ROOT_HISTORY,
         Capacity    <- Capacity,
         size        <- Len(leaves),
         known       <- {n \in 0..Len(leaves) :
                           is_known_root(MerkleRoot(Prefix(n)))}

ImplementsRootLog == Log!LogSpec
=============================================================================
