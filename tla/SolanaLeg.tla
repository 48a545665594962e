------------------------------ MODULE SolanaLeg ------------------------------
(***************************************************************************)
(* The attestor's check of a burn on Solana,                                 *)
(* canister/opaq-attestor/src/solana.rs: a requester names a transaction and  *)
(* claims what it burned; the canister asks every RPC provider in turn, at    *)
(* commitment "finalized", and believes an answer that agree_threshold of     *)
(* them give.  Each outcall is an await: other calls and the chain move on    *)
(* while it is out.  The last answer and the verdict are one step.            *)
(* The providers, the threshold and the program are arguments of the call in  *)
(* the code: the requests modelled are those that pass the deployed ones, and  *)
(* ProviderAssumption is what is asked of that choice.                         *)
(***************************************************************************)
EXTENDS Attestation, Integers, Sequences, FiniteSetsExt

CONSTANTS
  Signatures,       \* names of the transactions that may be submitted
  TxOf,             \* signature -> what its signer signed, and how it executes
  program_id,       \* the opaq program
  rpc_urls,         \* the providers, in the order they are asked
  Faulty,           \* the ones that may answer anything
  Forgeries,        \* transactions nobody signed, for them to answer with
  agree_threshold,
  Requests          \* update calls to the canister

TAG_XBURN == 8
Spenders == {2, 3, 4, TAG_XBURN}     \* withdraw, transfer, burn, xburn

Instruction == [program : {program_id, "other"}, tag : 1..8, sized : BOOLEAN,
                nullifier : Nullifiers, dest : Dests]

Transaction == [err : BOOLEAN, instructions : Seq(Instruction)]

NoResult == [result |-> "null"]      \* {"result": null}: never seen, or not final
Failed   == [result |-> "failed"]    \* no answer, or one that is not JSON

Answers == {TxOf[s] : s \in Signatures} \cup Forgeries \cup {NoResult, Failed}

Urls == DOMAIN rpc_urls

ASSUME ProviderAssumption ==
  /\ TxOf \in [Signatures -> Transaction]
  /\ Forgeries \subseteq Transaction
  /\ rpc_urls \in Seq(STRING)
  /\ agree_threshold \in Nat
  /\ Cardinality({i \in Urls : rpc_urls[i] \in Faulty}) < agree_threshold
  /\ NoResult \notin Transaction /\ Failed \notin Transaction

VARIABLES
  stage,            \* signature -> how far the network has got with it
  requests          \* request -> the state of that call of the canister

solanaVars == <<stage, requests>>

NotMade == [status |-> "idle"]

-----------------------------------------------------------------------------
(* The chain.  External: the cluster's confirmation and finality, and the     *)
(* opaq program, whose withdraw, transfer, burn and xburn share one nullifier *)
(* set.                                                                        *)

\* Nullifiers that a transaction records if it succeeds.
Spends(tx) ==
  IF tx.err THEN {}
  ELSE {tx.instructions[i].nullifier : i \in
          {j \in DOMAIN tx.instructions : /\ tx.instructions[j].program = program_id
                                          /\ tx.instructions[j].tag \in Spenders}}

OnChain == {s \in Signatures : stage[s] \in {"confirmed", "finalized"}}

ConfirmTx(s) ==
  /\ stage[s] = "unseen"
  /\ \A o \in OnChain : Spends(TxOf[o]) \cap Spends(TxOf[s]) = {}
  /\ stage' = [stage EXCEPT ![s] = "confirmed"]
  /\ UNCHANGED requests

FinalizeTx(s) ==
  /\ stage[s] = "confirmed"
  /\ stage' = [stage EXCEPT ![s] = "finalized"]
  /\ UNCHANGED requests

\* The fork it was on is abandoned.
ForgetTx(s) ==
  /\ stage[s] = "confirmed"
  /\ stage' = [stage EXCEPT ![s] = "unseen"]
  /\ UNCHANGED requests

-----------------------------------------------------------------------------
\* Mutant: commitment "confirmed".
HonestAnswers_confirmed(s) ==
  {NoResult, Failed} \cup (IF s \in OnChain THEN {TxOf[s]} ELSE {})

\* What an honest provider, perhaps behind the others, says of a signature.
HonestAnswers(s) ==
  {NoResult, Failed} \cup (IF stage[s] = "finalized" THEN {TxOf[s]} ELSE {})

get_transaction_json(url, s) ==
  IF url \in Faulty THEN Answers ELSE HonestAnswers(s)

\* The answers that enough providers gave.
Agreed(responses) ==
  {a \in Answers \ {Failed} :
     Cardinality({i \in DOMAIN responses : responses[i] = a}) >= agree_threshold}

\* Mutant: only the first provider's answer is compared with the others.
get_transaction_with_agreement_first(responses) ==
  IF responses[1] \in Agreed(responses) THEN responses[1] ELSE Failed

\* The first of the responses that enough providers gave, if there is one.
get_transaction_with_agreement(responses) ==
  LET agreeing == {i \in DOMAIN responses : responses[i] \in Agreed(responses)}
  IN IF agreeing = {} THEN Failed ELSE responses[Min(agreeing)]

OpaqIxs(tx) == {i \in DOMAIN tx.instructions : tx.instructions[i].program = program_id}

\* Mutant: the tag is not looked at.
RecordsXburn_any_tag(tx, nullifier, dest) ==
  /\ ~tx.err
  /\ OpaqIxs(tx) # {}
  /\ LET opaq_ix == tx.instructions[Min(OpaqIxs(tx))]
     IN opaq_ix.sized /\ opaq_ix.nullifier = nullifier /\ opaq_ix.dest = dest

\* The first instruction for the opaq program is an xburn of just that.
RecordsXburn(tx, nullifier, dest) ==
  /\ ~tx.err                            \* "named transaction did not succeed"
  /\ OpaqIxs(tx) # {}                   \* "no instruction ... targets the opaq program"
  /\ LET opaq_ix == tx.instructions[Min(OpaqIxs(tx))]
     IN /\ opaq_ix.tag = TAG_XBURN      \* "... not xburn"
        /\ opaq_ix.sized                \* "xburn instruction data wrong length"
        /\ opaq_ix.nullifier = nullifier \* "claimed ... does not match ..."
        /\ opaq_ix.dest = dest

\* What the call returns once every provider has been asked.
verdict(responses, nullifier, dest) ==
  LET tx == get_transaction_with_agreement(responses)
  IN IF tx \in {Failed, NoResult} THEN "rejected"
     ELSE IF RecordsXburn(tx, nullifier, dest) THEN "attested" ELSE "rejected"

verify_xburn_transaction(r, signature, nullifier, dest) ==
  /\ requests[r].status = "idle"
  /\ requests' = [requests EXCEPT ![r] =
       [status |-> IF rpc_urls = <<>> THEN "rejected" ELSE "asking",
        signature |-> signature, nullifier |-> nullifier, dest |-> dest,
        responses |-> <<>>]]
  /\ UNCHANGED stage

\* An answer is recorded; the one of the provider numbered "last" decides.
Answer(r, a, last) ==
  LET responses == Append(requests[r].responses, a)
      status == IF Len(responses) < last THEN "asking"
                ELSE verdict(responses, requests[r].nullifier, requests[r].dest)
  IN requests' = [requests EXCEPT ![r].responses = responses, ![r].status = status]

\* Mutants: one provider too many is asked; a failed outcall makes the call start over.
Outcall_one_more(r) ==
  /\ requests[r].status = "asking"
  /\ \E a \in get_transaction_json(rpc_urls[Len(requests[r].responses) + 1],
                                   requests[r].signature) : Answer(r, a, Len(rpc_urls) + 1)
  /\ UNCHANGED stage
Outcall_starts_over(r) ==
  /\ requests[r].status = "asking"
  /\ \E a \in get_transaction_json(rpc_urls[Len(requests[r].responses) + 1],
                                   requests[r].signature) :
       IF a = Failed THEN requests' = [requests EXCEPT ![r].responses = <<>>]
       ELSE Answer(r, a, Len(rpc_urls))
  /\ UNCHANGED stage

\* One outcall returns; after the last one the call decides.
Outcall(r) ==
  /\ requests[r].status = "asking"
  /\ \E a \in get_transaction_json(rpc_urls[Len(requests[r].responses) + 1],
                                   requests[r].signature) : Answer(r, a, Len(rpc_urls))
  /\ UNCHANGED stage

SolanaInit ==
  /\ stage = [s \in Signatures |-> "unseen"]
  /\ requests = [r \in Requests |-> NotMade]

Call == \E r \in Requests, s \in Signatures, nf \in Nullifiers, d \in Dests :
          verify_xburn_transaction(r, s, nf, d)

SolanaNext ==
  \/ \E s \in Signatures : ConfirmTx(s) \/ FinalizeTx(s) \/ ForgetTx(s)
  \/ Call
  \/ \E r \in Requests : Outcall(r)

\* The subnet delivers an answer or an error to every outcall.
SolanaSpec ==
  /\ SolanaInit /\ [][SolanaNext]_solanaVars
  /\ \A r \in Requests : WF_solanaVars(Outcall(r))

-----------------------------------------------------------------------------
RequestRecord == [status : {"asking", "attested", "rejected"}, signature : Signatures,
                  nullifier : Nullifiers, dest : Dests, responses : Seq(Answers)]

\* Type correctness; a call asks each provider at most once.
SolanaTypeOK ==
  /\ stage \in [Signatures -> {"unseen", "confirmed", "finalized"}]
  /\ requests \in [Requests -> {NotMade} \cup RequestRecord]
  /\ \A r \in Requests : requests[r] # NotMade =>
       /\ Len(requests[r].responses) <= Len(rpc_urls)
       /\ requests[r].status = "asking" => Len(requests[r].responses) < Len(rpc_urls)

\* The final transactions that burned this note for that destination.
FinalBurns(nullifier, dest) ==
  {s \in Signatures :
     /\ stage[s] = "finalized" /\ ~TxOf[s].err
     /\ \E i \in DOMAIN TxOf[s].instructions :
          LET ix == TxOf[s].instructions[i]
          IN /\ ix.program = program_id /\ ix.tag = TAG_XBURN
             /\ ix.nullifier = nullifier /\ ix.dest = dest}

Attested == {r \in Requests : requests[r].status = "attested"}

\* What the honest providers have told a call is still so: if one of them has
\* shown the named transaction, then that one, and it is final.
HonestView ==
  \A r \in Requests : requests[r] # NotMade =>
    \A i \in DOMAIN requests[r].responses :
      rpc_urls[i] \notin Faulty /\ requests[r].responses[i] \notin {NoResult, Failed} =>
        /\ requests[r].responses[i] = TxOf[requests[r].signature]
        /\ stage[requests[r].signature] = "finalized"

\* No two transactions of the chain spend the same note.
OneSpender ==
  \A s, o \in OnChain : s # o => Spends(TxOf[s]) \cap Spends(TxOf[o]) = {}

\* An attestation rests on the answers of all the providers.
VerdictStands ==
  \A r \in Requests : requests[r].status = "attested" =>
    /\ Len(requests[r].responses) = Len(rpc_urls)
    /\ verdict(requests[r].responses, requests[r].nullifier, requests[r].dest) = "attested"

\* What is attested was burned, for that destination, for good: whatever the
\* faulty providers say, and whatever forks the chain abandons while the answers
\* come in.
AttestedBurnsAreFinal ==
  \A r \in Attested : requests[r].signature \in FinalBurns(requests[r].nullifier, requests[r].dest)

\* One note is never attested for two destinations, however many transactions
\* and requests name it.
OneDestinationPerNote ==
  \A q, r \in Attested : requests[q].nullifier = requests[r].nullifier =>
                           requests[q].dest = requests[r].dest

\* Faulty providers are out-voted: a true claim about a burn that enough providers
\* confirmed is not rejected because the others disagree.
TrueClaimsAreAttested ==
  \A r \in Requests : requests[r].status = "rejected" =>
    \/ ~RecordsXburn(TxOf[requests[r].signature], requests[r].nullifier, requests[r].dest)
    \/ Cardinality({i \in Urls : requests[r].responses[i] = TxOf[requests[r].signature]})
         < agree_threshold

\* The same of every transaction that burned the note, wherever in it the xburn is:
\* solana.rs says that "a genuine finalized xburn tx with matching claims attests".
GenuineBurnsAreAttested ==
  \A r \in Requests : requests[r].status = "rejected" =>
    \/ requests[r].signature \notin FinalBurns(requests[r].nullifier, requests[r].dest)
    \/ Cardinality({i \in Urls : requests[r].responses[i] = TxOf[requests[r].signature]})
         < agree_threshold

\* Every call returns, even if no provider answers: in the end none is waiting.
CallsReturn == <>[](\A r \in Requests : requests[r].status # "asking")
=============================================================================
