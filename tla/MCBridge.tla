------------------------------- MODULE MCBridge -------------------------------
(* One token, two notes of one unit, a user who owns two units, and the vault. *)
EXTENDS Bridge, TLC

CONSTANTS A, user, attest_key

MCTokenOf == [c \in Commitments |-> A]
MCAmountOf == [c \in Commitments |-> 1]
MCNullifierOf == [c \in Commitments |-> <<c, "nf">>]
MCNullifiers == {<<c, "nf">> : c \in Commitments}

MCTokenAccounts == {"user", "ata"}
MCMintOf == [x \in TokenAccounts |-> A]
MCVaultAuthority == [t \in Tokens |-> "vault"]
MCOwnerOf == [x \in TokenAccounts |-> IF x = "user" THEN user ELSE "vault"]
MCVaultAta == [t \in Tokens |-> "ata"]
MCInitialBalance == [x \in TokenAccounts |-> IF x = "user" THEN 2 ELSE 0]

\* The notes have equal openings: exchanging them maps behaviours to behaviours.
TwinNotes == Permutations(Commitments)
=============================================================================
