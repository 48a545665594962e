---------------------------- MODULE MCSolanaSubmit ----------------------------
(* Three operators: two about one note, with different destinations, and one   *)
(* about another note.                                                         *)
EXTENDS SolanaSubmit

CONSTANTS n1, n2, d1, d2, o1, o2, o3

MCArgOf == [r \in Calls |-> CASE r = o1 -> [nullifier |-> n1, dest |-> d1]
                              [] r = o2 -> [nullifier |-> n1, dest |-> d2]
                              [] r = o3 -> [nullifier |-> n2, dest |-> d2]]
=============================================================================
