------------------------------ MODULE MCOpaqMint ------------------------------
(* A small OpaqMint: notes of 1 and 2 A, two addresses, one of them reached   *)
(* by two words.                                                              *)
EXTENDS OpaqMint

CONSTANTS A, a1, a2, alice, bob, alice_padded

MCTokenOf == [c \in Commitments |-> A]
MCAmountOf == [c \in Commitments |-> IF c = a2 THEN 2 ELSE 1]
MCNullifierOf == [c \in Commitments |-> <<c, "nf">>]
MCNullifiers == {<<c, "nf">> : c \in Commitments}
MCAddressOf == [w \in Destinations |-> IF w = bob THEN bob ELSE alice]
=============================================================================
