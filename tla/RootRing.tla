------------------------------- MODULE RootRing -------------------------------
(***************************************************************************)
(* The tree account of a pool as its handlers see it: a count of leaves and  *)
(* a ring of recent roots.  programs/opaq/src/lib.rs keeps it in account      *)
(* bytes, evm/src/OpaqPool.sol in storage slots, with the same layout and the *)
(* same insertion.  A root is named by the length of the prefix of leaves it  *)
(* stands for; CommitmentTree shows why that is all a root can tell.          *)
(***************************************************************************)
EXTENDS Integers

CONSTANTS
  ROOT_HISTORY,     \* slots of the ring of recent roots (32)
  Capacity          \* 1 << TREE_DEPTH

ASSUME BoundAssumption ==
  /\ ROOT_HISTORY \in Nat \ {0}
  /\ Capacity \in Nat

Slots == 0..(ROOT_HISTORY - 1)
NoRoot == -1                          \* the all-zero, never written ring slot

TreeAccount == [next_index : 0..Capacity, roots : [Slots -> Nat \cup {NoRoot}],
                current_root_index : Slots]

\* An account full of zeroes, and the tree that initialisation writes.
NoTree == [next_index |-> 0, roots |-> [j \in Slots |-> NoRoot],
           current_root_index |-> 0]
EmptyTree == [next_index |-> 0, roots |-> [j \in Slots |-> IF j = 0 THEN 0 ELSE NoRoot],
              current_root_index |-> 0]

\* Mutant: one leaf too many.
has_room_off_by_one(t) == t.next_index <= Capacity

has_room(t) == t.next_index < Capacity                        \* E_TREE_FULL

\* Mutants: the root is written before the slot advances; the slot never does;
\* it does not wrap.
tree_insert_old_slot(t) ==
  [next_index |-> t.next_index + 1,
   roots |-> [t.roots EXCEPT ![t.current_root_index] = t.next_index + 1],
   current_root_index |-> (t.current_root_index + 1) % ROOT_HISTORY]
tree_insert_one_slot(t) ==
  [next_index |-> t.next_index + 1,
   roots |-> [t.roots EXCEPT ![0] = t.next_index + 1],
   current_root_index |-> 0]
tree_insert_no_wrap(t) ==
  LET cri == t.current_root_index + 1
  IN [next_index |-> t.next_index + 1,
      roots |-> [t.roots EXCEPT ![cri] = t.next_index + 1],
      current_root_index |-> cri]

\* The account after the insertion of one leaf (guarded by has_room).
tree_insert(t) ==
  LET cri == (t.current_root_index + 1) % ROOT_HISTORY
  IN [next_index |-> t.next_index + 1,
      roots |-> [t.roots EXCEPT ![cri] = t.next_index + 1],
      current_root_index |-> cri]

is_known_root(t, root) == root # NoRoot /\ \E j \in Slots : t.roots[j] = root

AcceptedRoots(t) == {r \in 0..Capacity : is_known_root(t, r)}

-----------------------------------------------------------------------------
\* The ROOT_HISTORY most recent prefixes of n leaves.
Recent(n) == {r \in 0..n : r + ROOT_HISTORY > n}

\* How many insertions ago slot j of the ring was written, if it was.
Age(t, j) ==
  IF j <= t.current_root_index THEN t.current_root_index - j
  ELSE t.current_root_index + ROOT_HISTORY - j

\* Slot by slot, what the ring of a created tree holds.
RingHolds(t) ==
  \A j \in Slots : t.roots[j] = IF Age(t, j) <= t.next_index
                                THEN t.next_index - Age(t, j) ELSE NoRoot
=============================================================================
