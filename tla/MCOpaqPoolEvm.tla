---------------------------- MODULE MCOpaqPoolEvm ----------------------------
(* A small OpaqPool: two notes of 1 A with equal openings and one of 1 B.     *)
EXTENDS OpaqPool, TLC

CONSTANTS A, B, a1, a1x, b1

MCTokenOf == [c \in Commitments |-> IF c = b1 THEN B ELSE A]
MCAmountOf == [c \in Commitments |-> 1]
MCNullifierOf == [c \in Commitments |-> <<c, "nf">>]
MCNullifiers == {<<c, "nf">> : c \in Commitments}

\* a1 and a1x have equal openings: exchanging them maps behaviours to behaviours.
TwinNotes == Permutations({a1, a1x})
=============================================================================
