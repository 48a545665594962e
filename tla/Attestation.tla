----------------------------- MODULE Attestation -----------------------------
(***************************************************************************)
(* What the attestor attests: that the note of a nullifier was burned for a   *)
(* destination.  Its modules share these constants.                            *)
(***************************************************************************)
CONSTANTS
  Nullifiers,
  Dests      \* a destination: a (dest_chain, out_commitment) pair

Attestations == [nullifier : Nullifiers, dest : Dests]
=============================================================================
