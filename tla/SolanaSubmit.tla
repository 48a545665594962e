----------------------------- MODULE SolanaSubmit -----------------------------
(***************************************************************************)
(* The attestor's submissions to Solana, canister/opaq-attestor/src/          *)
(* solana_tx.rs: submit_add_pending_xburn fetches a blockhash, has a           *)
(* transaction with it signed and sends it, and returns without waiting for     *)
(* the transaction to land.  The blockhash grows old while the canister waits   *)
(* for the signature, and while the cluster holds the transaction.  The cluster *)
(* is external; what the program makes of a submission is in PendingAccount.     *)
(***************************************************************************)
EXTENDS PendingAccount, Attestation

CONSTANTS
  Calls,               \* operators, each with calls about one attestation
  ArgOf,               \* call -> the attestation it submits
  Claimed              \* nullifiers whose notes users mint once they can

ASSUME SubmitAssumption ==
  /\ ArgOf \in [Calls -> Attestations]
  /\ Claimed \subseteq Nullifiers

VARIABLES
  sent,      \* transactions the cluster holds and may still process
  calls      \* the canister's calls

\* final, head: the entries of the XburnPending account.
vars == <<final, head, faults, sent, calls>>

-----------------------------------------------------------------------------
\* A transaction is processed, and changes the account or fails.
Process ==
  /\ \E arg \in sent :
       /\ sent' = sent \ {arg}
       /\ MineBlock(add_pending_xburn(latest, arg), {arg})
  /\ UNCHANGED calls

\* A user mints an attested note: mint_from_xburn.
Mint ==
  /\ \E i \in DOMAIN latest :
       /\ latest[i].nullifier \in Claimed /\ ~latest[i].minted
       /\ MineBlock([latest EXCEPT ![i].minted = TRUE], {})
  /\ UNCHANGED <<sent, calls>>

Finalize == FinalizeBlock /\ UNCHANGED <<sent, calls>>

\* The cluster may process again what was on the fork it leaves.
Reorg ==
  /\ Fault
  /\ \E n \in 0..Len(head) - 1 :
       /\ Abandon(n)
       /\ \E kept \in SUBSET TxsAfter(n) : sent' = sent \cup kept
  /\ UNCHANGED calls

\* A transaction is dropped, or its blockhash is too old by now.
Drop ==
  /\ Fault
  /\ \E arg \in sent : sent' = sent \ {arg}
  /\ UNCHANGED <<chain, calls>>

-----------------------------------------------------------------------------
Idle == [step |-> "idle", recent |-> FALSE]

Awaits == <<"schnorr_public_key", "getLatestBlockhash", "sign_with_schnorr",
            "sendTransaction">>

After(step) == Awaits[CHOOSE i \in 2..Len(Awaits) : Awaits[i - 1] = step]

Pending(r) == calls[r].step \notin {"idle", "Ok", "Err"}

submit_add_pending_xburn(r) ==
  /\ ~Pending(r)
  /\ calls' = [calls EXCEPT ![r] = [step |-> "schnorr_public_key", recent |-> FALSE]]
  /\ UNCHANGED <<chain, sent, faults>>

\* Mutant: the blockhash is not fetched for this transaction.
rpc_blockhash_kept(r) ==
  /\ calls[r].step = "getLatestBlockhash"
  /\ calls' = [calls EXCEPT ![r].step = After(@)]
  /\ UNCHANGED <<chain, sent, faults>>

rpc_blockhash(r) ==
  /\ calls[r].step = "getLatestBlockhash"
  /\ calls' = [calls EXCEPT ![r] = [step |-> After(@.step), recent |-> TRUE]]
  /\ UNCHANGED <<chain, sent, faults>>

\* The canister's public key or the signature of the message arrives.
Arrives(r, await) ==
  /\ calls[r].step = await
  /\ calls' = [calls EXCEPT ![r].step = After(@)]
  /\ UNCHANGED <<chain, sent, faults>>

schnorr_public_key(r) == Arrives(r, "schnorr_public_key")
sign_with_schnorr(r) == Arrives(r, "sign_with_schnorr")

\* What a message says; calls[r].recent stands for its blockhash.
build_message(r) == ArgOf[r]

\* The node simulates the transaction on a block it has, and refuses one that would
\* fail: its blockhash is too old, or there is an entry for the nullifier already.
rpc_send(r) ==
  /\ calls[r].step = "sendTransaction"
  /\ \E bank \in States :
       LET ok == calls[r].recent /\ xpending_find(bank, ArgOf[r].nullifier) = {}
       IN /\ sent' = IF ok THEN sent \cup {build_message(r)} ELSE sent
          /\ calls' = [calls EXCEPT ![r].step = IF ok THEN "Ok" ELSE "Err"]
  /\ UNCHANGED <<chain, faults>>

\* The blockhash that a call holds grows too old.
Expire(r) ==
  /\ Fault
  /\ Pending(r) /\ calls[r].recent
  /\ calls' = [calls EXCEPT ![r].recent = FALSE]
  /\ UNCHANGED <<chain, sent>>

\* An await fails and the call returns.  A transaction may have reached the cluster.
fail(r) ==
  /\ Pending(r) /\ Fault
  /\ calls' = [calls EXCEPT ![r].step = "Err"]
  /\ \/ UNCHANGED sent
     \/ calls[r].step = "sendTransaction" /\ calls[r].recent /\ sent' = sent \cup {build_message(r)}
  /\ UNCHANGED chain

Reply(r) ==
  schnorr_public_key(r) \/ rpc_blockhash(r) \/ sign_with_schnorr(r) \/ rpc_send(r)

-----------------------------------------------------------------------------
Attested(entries, r) == xpending_find(entries, ArgOf[r].nullifier) # {}

\* External: the operator reads the account back, and submits again while the latest
\* block has no entry for the nullifier.
Persist(r) == ~Attested(latest, r) /\ submit_add_pending_xburn(r)

Init ==
  /\ final = <<>> /\ head = <<>> /\ faults = 0
  /\ sent = {}
  /\ calls = [r \in Calls |-> Idle]

Cluster == Process \/ Mint \/ Finalize \/ Reorg \/ Drop

Next ==
  \/ Cluster
  \/ \E r \in Calls : Persist(r) \/ Reply(r) \/ fail(r) \/ Expire(r)

\* Every await ends; operators read the account from time to time; the cluster
\* processes what it holds, and finalizes its blocks.
Fairness ==
  /\ \A r \in Calls : WF_vars(Persist(r)) /\ WF_vars(Reply(r) \/ fail(r))
  /\ WF_vars(Process) /\ WF_vars(Finalize)

Spec == Init /\ [][Next]_vars /\ Fairness

-----------------------------------------------------------------------------
Entries == Seq([nullifier : Nullifiers, dest : Dests, minted : BOOLEAN])

\* Type correctness.
TypeOK ==
  /\ final \in Entries
  /\ head \in Seq([state : Entries, txs : SUBSET {ArgOf[r] : r \in Calls}])
  /\ Len(head) <= MaxDepth /\ faults \in 0..MaxFaults
  /\ sent \in SUBSET {ArgOf[r] : r \in Calls}
  /\ calls \in [Calls -> [step : {Awaits[i] : i \in DOMAIN Awaits} \cup {"idle", "Ok", "Err"},
                          recent : BOOLEAN]]

\* An operator who submits until the account has the entry gets a note attested for
\* good, although blockhashes expire during the awaits, transactions are dropped
\* and forks abandoned.
SubmissionsLand == \A r \in Calls : <>[]Attested(final, r)
=============================================================================
