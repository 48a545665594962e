---------------------------- MODULE PendingAccount ----------------------------
(***************************************************************************)
(* The opaq program's XburnPending account on a chain that forks: the state   *)
(* after a block is the list of its entries.  A transaction that submits an    *)
(* attestation executes add_pending_xburn, as OpaqProgram says of it.          *)
(***************************************************************************)
EXTENDS ForkingChain

xpending_find(entries, nf) == {i \in DOMAIN entries : entries[i].nullifier = nf}

\* Mutant: an entry is added whether or not there is one.
add_pending_xburn_again(entries, arg) ==
  Append(entries, [nullifier |-> arg.nullifier, dest |-> arg.dest, minted |-> FALSE])

\* The instruction as the program executes it: a duplicate is refused for good.
add_pending_xburn(entries, arg) ==
  IF xpending_find(entries, arg.nullifier) # {} THEN entries
  ELSE Append(entries, [nullifier |-> arg.nullifier, dest |-> arg.dest, minted |-> FALSE])

-----------------------------------------------------------------------------
\* Submitting again is harmless: in no block has a nullifier two entries, however
\* often it is submitted and whenever the transactions land.
OneEntryPerNote ==
  \A entries \in States : \A i, j \in DOMAIN entries :
    entries[i].nullifier = entries[j].nullifier => i = j
=============================================================================
