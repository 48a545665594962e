--------------------------- MODULE MCCommitmentTree ---------------------------
(* CommitmentTree over a tree of 8 positions and a ring of 3 roots, filled   *)
(* with every sequence of three leaf values.                                 *)
EXTENDS CommitmentTree
=============================================================================
