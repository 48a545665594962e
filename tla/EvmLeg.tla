-------------------------------- MODULE EvmLeg --------------------------------
(***************************************************************************)
(* The attestor's side of an EVM chain, canister/opaq-attestor/src/evm.rs     *)
(* and evm_tx.rs: eth_call reads of the pool's storage, and submit_add_pending,*)
(* which reads the account's nonce, signs an addPending transaction and sends  *)
(* it.  Both are open to any caller, and a submission takes any destination:    *)
(* two callers may name two for one note.  Every outcall and every signature is an await: the chain, the node's   *)
(* mempool and the canister's other calls move on in between, and any of them   *)
(* may fail.  The chain is external: blocks are mined one transaction at a      *)
(* time, may be abandoned until they are final, and the node may forget a       *)
(* transaction it took.                                                         *)
(***************************************************************************)
EXTENDS ForkingChain, Attestation

CONSTANTS
  NotPending,          \* the zero word
  Calls,               \* update calls to the canister, by one caller each
  ArgOf,               \* call -> the attestation that it is about
  Operators,           \* the callers who see to it that their attestation lands
  Finalized,           \* values the callers give the argument `finalized`
  Burned, Claimed      \* nullifiers that users burn here, or claim here by a mint

ASSUME EvmLegAssumption ==
  /\ ArgOf \in [Calls -> Attestations]
  /\ NotPending \notin Dests
  /\ Finalized \subseteq BOOLEAN /\ Operators \subseteq Calls
  /\ Burned \subseteq Nullifiers /\ Claimed \subseteq Nullifiers

VARIABLES
  mempool,   \* the attestor's transactions that the node holds, one for a nonce
  calls      \* the canister's calls

\* final, head: the pool's storage, and the nonce of the canister's account.
vars == <<final, head, faults, mempool, calls>>

-----------------------------------------------------------------------------
\* A signed transaction: what it attests, and its nonce.
legacy_tx(arg, nonce) == [arg |-> arg, nonce |-> nonce]

\* Mutant: an attestation that comes late revives a minted entry.
addPending_late(pool, arg) ==
  [pool EXCEPT !.nonce = @ + 1, !.pendingMint[arg.nullifier] = arg.dest]

\* addPending as the pool executes it; a revert uses up the nonce as well.
addPending(pool, arg) ==
  IF arg.nullifier \in pool.minted THEN [pool EXCEPT !.nonce = @ + 1]
  ELSE [pool EXCEPT !.nonce = @ + 1, !.pendingMint[arg.nullifier] = arg.dest]

mintFromXburn(pool, nf) ==
  [pool EXCEPT !.pendingMint[nf] = NotPending, !.minted = @ \cup {nf}]

\* A user burns a note of this pool.
Burn(nf) ==
  /\ nf \in Burned \ latest.nullifierSpent
  /\ MineBlock([latest EXCEPT !.nullifierSpent = @ \cup {nf}], {})
  /\ UNCHANGED <<mempool, calls>>

\* A user mints an attested note.
Mint(nf) ==
  /\ nf \in Claimed \ latest.minted
  /\ latest.pendingMint[nf] # NotPending
  /\ MineBlock(mintFromXburn(latest, nf), {})
  /\ UNCHANGED <<mempool, calls>>

\* The attestor's transaction with the account's next nonce is mined.
Attest ==
  \E tx \in mempool :
    /\ tx.nonce = latest.nonce
    /\ MineBlock(addPending(latest, tx.arg), {tx})
    /\ mempool' = mempool \ {tx}
    /\ UNCHANGED calls

Finalize == FinalizeBlock /\ UNCHANGED <<mempool, calls>>

\* The node keeps some of the transactions of the blocks that are abandoned, where
\* it holds none with that nonce.
Reorg ==
  /\ Fault
  /\ \E n \in 0..Len(head) - 1 :
       /\ Abandon(n)
       /\ \E kept \in SUBSET {tx \in TxsAfter(n) : \A m \in mempool : m.nonce # tx.nonce} :
            mempool' = mempool \cup kept
  /\ UNCHANGED calls

Evict ==
  /\ Fault
  /\ \E tx \in mempool : mempool' = mempool \ {tx}
  /\ UNCHANGED <<chain, calls>>

-----------------------------------------------------------------------------
(* The canister's calls.                                                      *)

Idle == [op |-> "none", step |-> "idle"]

\* The awaits of submit_add_pending, in order; a read has one.
Awaits == <<"ecdsa_public_key", "eth_getTransactionCount", "eth_gasPrice",
            "sign_with_ecdsa", "eth_sendRawTransaction">>

After(step) == Awaits[CHOOSE i \in 2..Len(Awaits) : Awaits[i - 1] = step]

Pending(r) == calls[r].step \notin {"idle", "Ok", "Err"}

Start(r, c) ==
  /\ ~Pending(r)
  /\ calls' = [calls EXCEPT ![r] = c]
  /\ UNCHANGED <<chain, mempool, faults>>

submit_add_pending(r) ==
  Start(r, [op |-> "submit", step |-> "ecdsa_public_key", nonce |-> 0])

check_nullifier_spent(r, finalized) ==
  Start(r, [op |-> "check", step |-> "eth_call", finalized |-> finalized, word |-> FALSE])

read_pending_mint(r, finalized) ==
  Start(r, [op |-> "read", step |-> "eth_call", finalized |-> finalized,
            word |-> NotPending])

\* Mutant: the block tag is ignored.
block_latest(finalized) == latest

\* The storage that an eth_call with that block tag reads.
block(finalized) == IF finalized THEN final ELSE latest

eth_call_bytes32(r) ==
  /\ calls[r].step = "eth_call"
  /\ LET pool == block(calls[r].finalized)
         nf == ArgOf[r].nullifier
         word == IF calls[r].op = "check" THEN nf \in pool.nullifierSpent
                                          ELSE pool.pendingMint[nf]
     IN calls' = [calls EXCEPT ![r].step = "Ok", ![r].word = word]
  /\ UNCHANGED <<chain, mempool, faults>>

\* Mutants: the nonce of the last transaction; one after the account's.
get_nonce_last(r) ==
  /\ calls[r].step = "eth_getTransactionCount"
  /\ calls' = [calls EXCEPT ![r].step = After(@), ![r].nonce = latest.nonce - 1]
  /\ UNCHANGED <<chain, mempool, faults>>
get_nonce_next(r) ==
  /\ calls[r].step = "eth_getTransactionCount"
  /\ calls' = [calls EXCEPT ![r].step = After(@), ![r].nonce = latest.nonce + 1]
  /\ UNCHANGED <<chain, mempool, faults>>

\* eth_getTransactionCount(from, "latest")
get_nonce(r) ==
  /\ calls[r].step = "eth_getTransactionCount"
  /\ calls' = [calls EXCEPT ![r].step = After(@), ![r].nonce = latest.nonce]
  /\ UNCHANGED <<chain, mempool, faults>>

\* The canister's public key, the gas price or the signature arrives.
Arrives(r, await) ==
  /\ calls[r].step = await
  /\ calls' = [calls EXCEPT ![r].step = After(@)]
  /\ UNCHANGED <<chain, mempool, faults>>

evm_pubkey_sec1(r) == Arrives(r, "ecdsa_public_key")
gas_price(r) == Arrives(r, "eth_gasPrice")
sign_with_ecdsa(r) == Arrives(r, "sign_with_ecdsa")

\* The node takes a transaction; one with the same nonce that pays less makes way.
Holding(tx) == {m \in mempool : m.nonce # tx.nonce} \cup {tx}

\* The node answers.  A transaction with a used nonce gets the status NonceTooLow,
\* which the call returns as Ok; one that does not pay more than the one with its
\* nonce that the node holds gets an error.
send_raw_transaction(r) ==
  /\ calls[r].step = "eth_sendRawTransaction"
  /\ LET tx == legacy_tx(ArgOf[r], calls[r].nonce)
         result(x) == calls' = [calls EXCEPT ![r].step = x]
     IN \/ tx.nonce < latest.nonce /\ result("Ok") /\ UNCHANGED mempool
        \/ tx.nonce >= latest.nonce /\ result("Ok") /\ mempool' = Holding(tx)
        \/ /\ \E m \in mempool : m.nonce = tx.nonce
           /\ result("Err") /\ UNCHANGED mempool
  /\ UNCHANGED <<chain, faults>>

\* An await fails and the call returns.  A transaction may have reached the node.
fail(r) ==
  /\ Pending(r) /\ Fault
  /\ calls' = [calls EXCEPT ![r].step = "Err"]
  /\ \/ UNCHANGED mempool
     \/ /\ calls[r].step = "eth_sendRawTransaction" /\ calls[r].nonce >= latest.nonce
        /\ mempool' = Holding(legacy_tx(ArgOf[r], calls[r].nonce))
  /\ UNCHANGED chain

Reply(r) ==
  \/ eth_call_bytes32(r)
  \/ evm_pubkey_sec1(r) \/ get_nonce(r) \/ gas_price(r) \/ sign_with_ecdsa(r)
  \/ send_raw_transaction(r)

-----------------------------------------------------------------------------
Genesis == [nonce |-> 0, nullifierSpent |-> {}, minted |-> {},
            pendingMint |-> [nf \in Nullifiers |-> NotPending]]

Init ==
  /\ final = Genesis
  /\ head = <<>>
  /\ mempool = {}
  /\ calls = [r \in Calls |-> Idle]
  /\ faults = 0

Chain ==
  \/ \E nf \in Burned : Burn(nf)
  \/ \E nf \in Claimed : Mint(nf)
  \/ Attest \/ Finalize \/ Reorg \/ Evict

Returns == \E r \in Calls : Reply(r) \/ fail(r)

Request(r) ==
  \/ submit_add_pending(r)
  \/ \E f \in Finalized : check_nullifier_spent(r, f) \/ read_pending_mint(r, f)

\* External: the operator, who submits, reads the entry back at the latest block,
\* submits again if it is not there, and is done when the finalized block has it or
\* the note has been minted.
Shows(r) == calls[r].step = "Ok" /\ calls[r].word = ArgOf[r].dest

Persist(r) ==
  /\ ArgOf[r].nullifier \notin latest.minted
  /\ \/ calls[r].op = "none" /\ submit_add_pending(r)
     \/ calls[r].op = "submit" /\ read_pending_mint(r, FALSE)
     \/ /\ calls[r].op = "read" /\ calls[r].step = "Err"
        /\ read_pending_mint(r, calls[r].finalized)
     \/ /\ calls[r].op = "read" /\ calls[r].step = "Ok" /\ ~Shows(r)
        /\ \/ calls[r].finalized /\ read_pending_mint(r, FALSE)
           \/ ~calls[r].finalized /\ submit_add_pending(r)
     \/ /\ calls[r].op = "read" /\ Shows(r) /\ ~calls[r].finalized
        /\ read_pending_mint(r, TRUE)

\* The other callers call what they like, once.
Next ==
  \/ Chain
  \/ Returns
  \/ \E r \in Operators : Persist(r)
  \/ \E r \in Calls \ Operators : calls[r] = Idle /\ Request(r)

\* Every await ends; the network mines what its nodes hold, and finalizes it; the
\* operators go on.
Fairness ==
  /\ \A r \in Calls : WF_vars(Reply(r) \/ fail(r))
  /\ WF_vars(Attest) /\ WF_vars(Finalize)
  /\ \A r \in Operators : WF_vars(Persist(r))

Spec == Init /\ [][Next]_vars /\ Fairness

-----------------------------------------------------------------------------
Words == Dests \cup {NotPending}

Storage == [nonce : Nat, nullifierSpent : SUBSET Nullifiers, minted : SUBSET Nullifiers,
            pendingMint : [Nullifiers -> Words]]

Tx == [arg : {ArgOf[r] : r \in Calls}, nonce : Nat]

Steps == {Awaits[i] : i \in DOMAIN Awaits}
Results == {"Ok", "Err"}

SubmitCall == [op : {"submit"}, step : Steps \cup Results, nonce : Nat]
CheckCall == [op : {"check"}, step : {"eth_call"} \cup Results, finalized : BOOLEAN,
              word : BOOLEAN]
ReadCall == [op : {"read"}, step : {"eth_call"} \cup Results, finalized : BOOLEAN,
             word : Words]

CallRecord == SubmitCall \cup CheckCall \cup ReadCall

\* Type correctness; the node holds one transaction for a nonce.
TypeOK ==
  /\ final \in Storage
  /\ head \in Seq([state : Storage, txs : SUBSET Tx]) /\ Len(head) <= MaxDepth
  /\ mempool \in SUBSET Tx
  /\ \A s, t \in mempool : s.nonce = t.nonce => s = t
  /\ calls \in [Calls -> {Idle} \cup CallRecord]
  /\ faults \in 0..MaxFaults

\* The destinations that the callers name for a note.
Named(nf) == {ArgOf[r].dest : r \in {c \in Calls : ArgOf[c].nullifier = nf}}

\* What the canister answers from the finalized block stands: a burn that it reports is
\* part of every later state of the chain, and an entry that it reports is never gone
\* but by its mint, whatever blocks are abandoned while the answer is on its way and
\* after it.  The destination of the entry may still change, to another that some call
\* named: it is the reported one for as long as the callers name one destination.
FinalizedAnswersStand ==
  \A r \in Calls : \A nf \in {ArgOf[r].nullifier} :
    calls[r].step = "Ok" /\ calls[r].op # "submit" /\ calls[r].finalized =>
      \A pool \in States :
        /\ calls[r].op = "check" /\ calls[r].word => nf \in pool.nullifierSpent
        /\ calls[r].op = "read" /\ calls[r].word # NotPending =>
             pool.pendingMint[nf] \in Named(nf) \/ nf \in pool.minted

\* Submitting again is harmless: in no block is there an entry for a note that has
\* been minted, however late a transaction is mined or mined again.
MintedStaysMinted ==
  \A pool \in States :
    \A nf \in pool.minted : pool.pendingMint[nf] = NotPending

\* The attestation of a call is in the finalized block, or has been used there.
Landed(r) ==
  \/ final.pendingMint[ArgOf[r].nullifier] = ArgOf[r].dest
  \/ ArgOf[r].nullifier \in final.minted

\* The calls that name another destination for the same note; whether one submitted it
\* (callers that are no operators call once).
Rivals(r) == {s \in Calls : /\ ArgOf[s].nullifier = ArgOf[r].nullifier
                            /\ ArgOf[s].dest # ArgOf[r].dest}
Contested(r) == \E s \in Rivals(r) : calls[s].op = "submit"

\* An operator who submits until the entry shows up gets every attestation into the
\* finalized block, although submissions share one account and its nonces, another
\* caller overwrites the entry, the node forgets transactions and blocks are abandoned.
\* It is there for good, or somebody submitted another destination for the note.
AttestationsLand ==
  \A r \in Operators : Rivals(r) \cap Operators = {} =>
    /\ <>Landed(r)
    /\ <>[]Landed(r) \/ <>Contested(r)
=============================================================================
