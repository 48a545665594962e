------------------------------- MODULE MCEvmLeg -------------------------------
(* One note, for which an operator and another caller name two destinations.  *)
EXTENDS EvmLeg, TLC

CONSTANTS n1, d1, d2, c1, c2

MCArgOf == [r \in Calls |-> [nullifier |-> n1, dest |-> IF r = c1 THEN d1 ELSE d2]]
=============================================================================
