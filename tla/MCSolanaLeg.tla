----------------------------- MODULE MCSolanaLeg -----------------------------
(* Three providers, two must agree, the second one is faulty.  One note, and  *)
(* transactions that spend it or try to: a withdrawal, xburns for two         *)
(* destinations, one of which carries another opaq instruction behind it, and *)
(* an xburn that fails.  A "bundle" deposits first and burns in the same      *)
(* transaction.                                                               *)
EXTENDS SolanaLeg

CONSTANTS here, there, nf, r1, r2

Ix(tag, dest) == [program |-> "opaq", tag |-> tag, sized |-> TRUE,
                  nullifier |-> nf, dest |-> dest]
Pay == [program |-> "other", tag |-> 1, sized |-> FALSE, nullifier |-> nf, dest |-> here]

MCTxOf == [s \in Signatures |->
  CASE s = "withdraw"     -> [err |-> FALSE, instructions |-> <<Ix(2, here)>>]
    [] s = "xburn_here"   -> [err |-> FALSE, instructions |-> <<Pay, Ix(8, here)>>]
    [] s = "xburn_there"  -> [err |-> FALSE, instructions |-> <<Ix(8, there), Ix(1, here)>>]
    [] s = "xburn_failed" -> [err |-> TRUE,  instructions |-> <<Ix(8, here)>>]
    [] s = "bundle"       -> [err |-> FALSE, instructions |-> <<Ix(1, here), Ix(8, here)>>]]
MCForgeries == {[err |-> FALSE, instructions |-> <<Ix(8, there)>>]}
MCUrls == <<"a", "b", "c">>
MCNullifiers == {nf}
MCDests == {here, there}
=============================================================================
