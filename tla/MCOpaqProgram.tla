---------------------------- MODULE MCOpaqProgram ----------------------------
(* Small pools for OpaqProgram.  Token accounts: a user's account, the       *)
(* canonical vault and a stray account of the same vault authority, per      *)
(* token as far as the configuration lists them.                             *)
EXTENDS OpaqProgram, TLC

CONSTANTS A, B, user, a1, a1x, a2, a0, b1

\* Openings: two notes of 1 A, one of 2 A, one of 0 A, one of 1 B.
MCTokenOf == [c \in Commitments |-> IF c = b1 THEN B ELSE A]
MCAmountOf == [c \in Commitments |-> CASE c = a2 -> 2 [] c = a0 -> 0 [] OTHER -> 1]
MCNullifierOf == [c \in Commitments |-> <<c, "nf">>]
MCNullifiers == {<<c, "nf">> : c \in Commitments}

\* Accounts are <<mint, name>>.
MCTokenAccounts == {A} \X {"user", "ata", "stray"}
MCTokenAccounts2 == Tokens \X {"user", "ata"}
MCMintOf == [x \in TokenAccounts |-> x[1]]
MCVaultAuthority == [t \in Tokens |-> <<"vault", t>>]
MCOwnerOf == [x \in TokenAccounts |-> IF x[2] = "user" THEN user ELSE <<"vault", x[1]>>]
MCVaultAta == [t \in Tokens |-> <<t, "ata">>]
MCInitialBalance == [x \in TokenAccounts |-> IF x[2] = "user" THEN 2 ELSE 0]
\* a1 and a1x have equal openings: exchanging them maps behaviours to behaviours.
TwinNotes == Permutations({a1, a1x})

MCInitialBalance2 == [x \in TokenAccounts |-> IF x = <<A, "user">> THEN 1 ELSE 0]
=============================================================================
