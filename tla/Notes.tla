-------------------------------- MODULE Notes --------------------------------
(***************************************************************************)
(* Notes, and the statements the circuits of circuits/ prove about them.     *)
(*                                                                           *)
(* A commitment is hash_4(token_id, amount, owner_pubkey, blinding): it       *)
(* determines its opening (TokenOf, AmountOf) and, through the one spend key  *)
(* behind its owner, its nullifier hash_2(commitment, spend_key).  A Groth16  *)
(* proof verifies iff the circuit's relation holds between the public inputs  *)
(* and some witness; the relations below have the public inputs and the       *)
(* witness notes as parameters.  `members` are the leaves under the Merkle    *)
(* root of the public inputs.                                                 *)
(***************************************************************************)
EXTENDS Integers, FiniteSets

CONSTANTS
  Commitments,      \* the notes that can exist
  Tokens,           \* token ids
  TokenOf,          \* commitment -> token_id of its opening
  AmountOf,         \* commitment -> amount of its opening
  Nullifiers,       \* the words a nullifier argument may have
  NullifierOf,      \* commitment -> its nullifier
  MaxAmount         \* 2^64 - 1: the range every circuit asserts

ASSUME NoteAssumption ==
  /\ IsFiniteSet(Commitments)
  /\ TokenOf \in [Commitments -> Tokens]
  /\ MaxAmount \in Nat
  /\ AmountOf \in [Commitments -> 0..MaxAmount]
  /\ NullifierOf \in [Commitments -> Nullifiers]
  /\ \A c, d \in Commitments : NullifierOf[c] = NullifierOf[d] => c = d

Amounts == 0..MaxAmount

deposit_circuit(token_id, amount, commitment) ==
  TokenOf[commitment] = token_id /\ AmountOf[commitment] = amount

\* Mutants: membership is not proved; the token is not bound to the note.
withdraw_circuit_no_membership(note, members, nullifier, token_id, amount) ==
  /\ TokenOf[note] = token_id /\ AmountOf[note] = amount
  /\ NullifierOf[note] = nullifier
withdraw_circuit_any_token(note, members, nullifier, token_id, amount) ==
  /\ AmountOf[note] = amount
  /\ note \in members
  /\ NullifierOf[note] = nullifier

\* withdraw.nr; burn.nr proves the same about the note, and binds a destination.
withdraw_circuit(note, members, nullifier, token_id, amount) ==
  /\ TokenOf[note] = token_id /\ AmountOf[note] = amount
  /\ note \in members
  /\ NullifierOf[note] = nullifier

burn_circuit(note, members, nullifier, token_id, amount) ==
  /\ TokenOf[note] = token_id /\ AmountOf[note] = amount
  /\ note \in members
  /\ NullifierOf[note] = nullifier

\* An input of a transfer is a leaf of the tree, or a dummy: then it is worth 0.
transfer_circuit(in0, in1, members, nullifier0, nullifier1, out0, out1) ==
  /\ AmountOf[in0] + AmountOf[in1] = AmountOf[out0] + AmountOf[out1]
  /\ NullifierOf[in0] = nullifier0 /\ NullifierOf[in1] = nullifier1
  /\ \A c \in {in1, out0, out1} : TokenOf[c] = TokenOf[in0]
  /\ \A c \in {in0, in1} : AmountOf[c] = 0 \/ c \in members

\* Mutant: the destination note may be of another token.
xburn_circuit_any_token(src, members, src_nullifier, out_commitment) ==
  /\ src \in members
  /\ NullifierOf[src] = src_nullifier
  /\ AmountOf[out_commitment] = AmountOf[src]

\* The destination note has the token and the amount of the source note.
xburn_circuit(src, members, src_nullifier, out_commitment) ==
  /\ src \in members
  /\ NullifierOf[src] = src_nullifier
  /\ TokenOf[out_commitment] = TokenOf[src]
  /\ AmountOf[out_commitment] = AmountOf[src]

-----------------------------------------------------------------------------
\* Notes as piles of unit coins, so that the value of a set of notes is the
\* number of its coins.
Coins(S) == {p \in S \X (1..MaxAmount) : p[2] <= AmountOf[p[1]]}
Worth(S) == Cardinality(Coins(S))

\* Of the notes `inserted` in a tree, the ones of token t whose nullifier is not
\* among the `recorded` ones: what somebody may still spend.
Unspent(inserted, recorded, t) ==
  {c \in inserted : TokenOf[c] = t /\ NullifierOf[c] \notin recorded}

\* The notes of token t behind a set of nullifiers.
NotesOf(nfs, t) == {c \in Commitments : TokenOf[c] = t /\ NullifierOf[c] \in nfs}

\* What the note c is worth in token t.
ValueIn(c, t) == IF TokenOf[c] = t THEN AmountOf[c] ELSE 0
=============================================================================
