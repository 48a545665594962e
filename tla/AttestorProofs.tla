---------------------------- MODULE AttestorProofs ----------------------------
(***************************************************************************)
(* Theorems about the attestor, in three parts: its check of a burn on Solana *)
(* (SolanaLeg), its reads of and submissions to an EVM chain (EvmLeg), and its *)
(* submissions to Solana (SolanaSubmit).  For any number of providers, any      *)
(* threshold above the number of faulty ones, every set of calls and notes,      *)
(* every depth of finality and every number of faults.                           *)
(***************************************************************************)
EXTENDS SolanaLeg, EvmLeg, PendingAccount, FiniteSetTheorems, WellFoundedInduction, TLAPS

-----------------------------------------------------------------------------
(* The check of a burn on Solana.                                              *)

(* The least element of a set of naturals is one of its elements.            *)
LEMMA MinElement ==
  ASSUME NEW S \in SUBSET Nat, S # {}
  PROVE  Min(S) \in S
<1> DEFINE R == OpToRel(<, Nat)
<1>1. PICK x \in S : \A y \in S : ~(<<y, x>> \in R)
  <2>1. IsWellFoundedOn(R, Nat)
    BY NatLessThanWellFounded
  <2> HIDE DEF R
  <2> QED
    BY <2>1, WFMin
<1>2. \A y \in S : ~(y < x)
  BY <1>1 DEF OpToRel
<1>3. \A y \in S : x =< y
  BY <1>2
<1> QED
  BY <1>3 DEF Min

(* The providers are numbered, from one.                                      *)
LEMMA UrlsType == Len(rpc_urls) \in Nat /\ Urls = 1..Len(rpc_urls)
BY ProviderAssumption DEF Urls

(* What a call is before and after an outcall that returns the answer a.       *)
NextResponses(r, a) == Append(requests[r].responses, a)

NextStatus(r, a) ==
  IF Len(NextResponses(r, a)) < Len(rpc_urls) THEN "asking"
  ELSE verdict(NextResponses(r, a), requests[r].nullifier, requests[r].dest)

Answered(r, a) ==
  /\ requests[r] \in RequestRecord /\ requests[r].status = "asking"
  /\ Len(requests[r].responses) < Len(rpc_urls)
  /\ requests'[r] \in RequestRecord
  /\ requests'[r].responses = NextResponses(r, a)
  /\ requests'[r].status = NextStatus(r, a)
  /\ requests'[r].signature = requests[r].signature
  /\ requests'[r].nullifier = requests[r].nullifier
  /\ requests'[r].dest = requests[r].dest
  /\ \A o \in Requests : o # r => requests'[o] = requests[o]
  /\ requests' \in [Requests -> {NotMade} \cup RequestRecord]
  /\ UNCHANGED stage

(* An outcall appends one answer of that provider and touches nothing else.   *)
LEMMA AfterOutcall ==
  ASSUME SolanaTypeOK, NEW r \in Requests, Outcall(r)
  PROVE  \E a \in Answers :
           /\ a \in get_transaction_json(rpc_urls[Len(requests[r].responses) + 1],
                                         requests[r].signature)
           /\ Answered(r, a)
<1>1. requests[r] \in RequestRecord /\ requests[r].status = "asking"
  BY DEF SolanaTypeOK, Outcall, NotMade
<1>2. Len(requests[r].responses) < Len(rpc_urls)
  BY <1>1 DEF SolanaTypeOK, NotMade
<1>3. PICK a \in get_transaction_json(rpc_urls[Len(requests[r].responses) + 1],
                                      requests[r].signature) : Answer(r, a, Len(rpc_urls))
  BY DEF Outcall
<1> DEFINE q == NextResponses(r, a)
           v == NextStatus(r, a)
           c == [requests[r] EXCEPT !.responses = q, !.status = v]
<1>4. a \in Answers
  BY <1>1, <1>3 DEF get_transaction_json, HonestAnswers, Answers, RequestRecord
<1>5. v \in {"asking", "attested", "rejected"}
  BY Zenon DEF NextStatus, verdict
<1>6. q \in Seq(Answers)
  BY <1>1, <1>4 DEF RequestRecord, NextResponses
<1>7. requests' = [requests EXCEPT ![r].responses = q, ![r].status = v]
  BY <1>3 DEF Answer, NextResponses, NextStatus
<1> HIDE DEF q, v
<1>8. /\ c \in RequestRecord /\ c.responses = q /\ c.status = v
      /\ c.signature = requests[r].signature /\ c.nullifier = requests[r].nullifier
      /\ c.dest = requests[r].dest
  BY <1>1, <1>5, <1>6 DEF RequestRecord
<1>9. requests' = [requests EXCEPT ![r] = c]
  BY <1>1, <1>7 DEF RequestRecord, SolanaTypeOK
<1> HIDE DEF c
<1>10. /\ requests'[r] = c
       /\ \A o \in Requests : o # r => requests'[o] = requests[o]
       /\ requests' \in [Requests -> {NotMade} \cup RequestRecord]
  BY <1>8, <1>9 DEF SolanaTypeOK
<1>11. Answered(r, a)
  BY <1>1, <1>2, <1>8, <1>10 DEF Outcall, Answered, q, v
<1> QED
  BY <1>3, <1>4, <1>11

(* Type correctness: every call asks each provider once, then has a verdict. *)
THEOREM LegTypeCorrect == SolanaSpec => []SolanaTypeOK
<1>1. SolanaInit => SolanaTypeOK
  BY DEF SolanaInit, SolanaTypeOK
<1>2. SolanaTypeOK /\ [SolanaNext]_solanaVars => SolanaTypeOK'
  <2> SUFFICES ASSUME SolanaTypeOK, [SolanaNext]_solanaVars PROVE SolanaTypeOK'
    OBVIOUS
  <2>1. ASSUME NEW s \in Signatures, ConfirmTx(s) \/ FinalizeTx(s) \/ ForgetTx(s)
        PROVE  SolanaTypeOK'
    BY <2>1 DEF ConfirmTx, FinalizeTx, ForgetTx, SolanaTypeOK
  <2>2. CASE Call
    <3> PICK r \in Requests, s \in Signatures, nf \in Nullifiers, d \in Dests :
               verify_xburn_transaction(r, s, nf, d)
      BY <2>2 DEF Call
    <3> DEFINE c == [status |-> IF rpc_urls = <<>> THEN "rejected" ELSE "asking",
                     signature |-> s, nullifier |-> nf, dest |-> d,
                     responses |-> <<>>]
    <3>1. /\ c \in RequestRecord /\ Len(c.responses) = 0
          /\ c.status = "asking" => Len(rpc_urls) > 0
      BY ProviderAssumption DEF RequestRecord
    <3>2. requests' = [requests EXCEPT ![r] = c] /\ stage' = stage
      BY DEF verify_xburn_transaction
    <3> HIDE DEF c
    <3> QED
      BY <3>1, <3>2, UrlsType DEF SolanaTypeOK
  <2>3. ASSUME NEW r \in Requests, Outcall(r) PROVE SolanaTypeOK'
    <3> PICK a \in Answers : Answered(r, a)
      BY <2>3, AfterOutcall
    <3>1. Len(NextResponses(r, a)) = Len(requests[r].responses) + 1
      BY DEF Answered, RequestRecord, NextResponses
    <3>2. Len(requests[r].responses) \in Nat /\ Len(requests[r].responses) < Len(rpc_urls)
      BY DEF Answered, RequestRecord
    <3>3. NextStatus(r, a) = "asking" => Len(NextResponses(r, a)) < Len(rpc_urls)
      <4>1. verdict(NextResponses(r, a), requests[r].nullifier, requests[r].dest) # "asking"
        BY Zenon DEF verdict
      <4> QED
        BY <4>1 DEF NextStatus
    <3> QED
      BY <3>1, <3>2, <3>3, UrlsType DEF SolanaTypeOK, Answered
  <2>4. CASE UNCHANGED solanaVars
    BY <2>4 DEF solanaVars, SolanaTypeOK
  <2> QED
    BY <2>1, <2>2, <2>3, <2>4 DEF SolanaNext
<1> QED
  BY <1>1, <1>2, PTL DEF SolanaSpec

-----------------------------------------------------------------------------
(* The two parts of the inductive invariant.  An honest answer stays true      *)
(* because a final transaction is never forgotten; a verdict stands because   *)
(* a call that returned is not touched again.                                 *)
LEMMA HonestViewHolds == SolanaSpec => []HonestView
<1>1. SolanaInit => HonestView
  BY DEF SolanaInit, HonestView
<1>2. SolanaTypeOK /\ HonestView /\ [SolanaNext]_solanaVars => HonestView'
  <2> SUFFICES ASSUME SolanaTypeOK, HonestView, [SolanaNext]_solanaVars,
                      NEW o \in Requests, requests'[o] # NotMade,
                      NEW i \in DOMAIN requests'[o].responses,
                      rpc_urls[i] \notin Faulty,
                      requests'[o].responses[i] \notin {NoResult, Failed}
               PROVE  /\ requests'[o].responses[i] = TxOf[requests'[o].signature]
                      /\ stage'[requests'[o].signature] = "finalized"
    BY DEF HonestView
  <2>1. ASSUME NEW s \in Signatures, ConfirmTx(s) \/ FinalizeTx(s) \/ ForgetTx(s)
        PROVE  /\ requests'[o].responses[i] = TxOf[requests'[o].signature]
               /\ stage'[requests'[o].signature] = "finalized"
    <3>1. requests' = requests
      BY <2>1 DEF ConfirmTx, FinalizeTx, ForgetTx
    <3>2. /\ requests[o].responses[i] = TxOf[requests[o].signature]
          /\ stage[requests[o].signature] = "finalized"
      BY <3>1 DEF HonestView
    <3>3. requests[o].signature \in Signatures
      BY <3>1 DEF SolanaTypeOK, RequestRecord
    <3> QED
      BY <2>1, <3>1, <3>2, <3>3 DEF ConfirmTx, FinalizeTx, ForgetTx, SolanaTypeOK
  <2>2. CASE Call
    <3> PICK r \in Requests, s \in Signatures, nf \in Nullifiers, d \in Dests :
               verify_xburn_transaction(r, s, nf, d)
      BY <2>2 DEF Call
    <3>1. stage' = stage
      BY DEF verify_xburn_transaction
    <3>2. o # r
      <4>1. ASSUME o = r PROVE requests'[o].responses = <<>>
        BY <4>1 DEF verify_xburn_transaction, SolanaTypeOK
      <4> QED
        BY <4>1
    <3>3. requests'[o] = requests[o]
      BY <3>2 DEF verify_xburn_transaction, SolanaTypeOK
    <3> QED
      BY <3>1, <3>3 DEF HonestView
  <2>3. ASSUME NEW r \in Requests, Outcall(r)
        PROVE  /\ requests'[o].responses[i] = TxOf[requests'[o].signature]
               /\ stage'[requests'[o].signature] = "finalized"
    <3> PICK a \in Answers :
               /\ a \in get_transaction_json(rpc_urls[Len(requests[r].responses) + 1],
                                             requests[r].signature)
               /\ Answered(r, a)
      BY <2>3, AfterOutcall
    <3>1. CASE o # r
      BY <3>1 DEF Answered, HonestView
    <3>2. CASE o = r /\ i \in DOMAIN requests[r].responses
      <4>1. requests'[r].responses[i] = requests[r].responses[i] /\ requests[r] # NotMade
        BY <3>2 DEF Answered, NextResponses, RequestRecord, NotMade
      <4> QED
        BY <3>2, <4>1 DEF Answered, HonestView
    <3>3. CASE o = r /\ i \notin DOMAIN requests[r].responses
      <4>1. i = Len(requests[r].responses) + 1 /\ requests'[r].responses[i] = a
        BY <3>3 DEF Answered, NextResponses, RequestRecord
      <4>2. a \in HonestAnswers(requests[r].signature) /\ a \notin {NoResult, Failed}
        BY <3>3, <4>1 DEF get_transaction_json
      <4>3. a = TxOf[requests[r].signature] /\ stage[requests[r].signature] = "finalized"
        BY <4>2 DEF HonestAnswers
      <4> QED
        BY <3>3, <4>1, <4>3 DEF Answered
    <3> QED
      BY <3>1, <3>2, <3>3
  <2>4. CASE UNCHANGED solanaVars
    BY <2>4 DEF solanaVars, HonestView
  <2> QED
    BY <2>1, <2>2, <2>3, <2>4 DEF SolanaNext
<1> QED
  BY <1>1, <1>2, LegTypeCorrect, PTL DEF SolanaSpec

(* VerdictStands is an invariant: the answers of a call are not touched after   *)
(* its verdict.                                                                *)
LEMMA VerdictHolds == SolanaSpec => []VerdictStands
<1>1. SolanaInit => VerdictStands
  BY DEF SolanaInit, VerdictStands, NotMade
<1>2. SolanaTypeOK /\ VerdictStands /\ [SolanaNext]_solanaVars => VerdictStands'
  <2> SUFFICES ASSUME SolanaTypeOK, VerdictStands, [SolanaNext]_solanaVars,
                      NEW o \in Requests, requests'[o].status = "attested"
               PROVE  /\ Len(requests'[o].responses) = Len(rpc_urls)
                      /\ verdict(requests'[o].responses, requests'[o].nullifier, requests'[o].dest)
                           = "attested"
    BY DEF VerdictStands, verdict, get_transaction_with_agreement, Agreed
  <2>0. CASE requests'[o] = requests[o]
    BY <2>0 DEF VerdictStands
  <2>1. ASSUME NEW s \in Signatures, ConfirmTx(s) \/ FinalizeTx(s) \/ ForgetTx(s)
        PROVE  requests'[o] = requests[o]
    BY <2>1 DEF ConfirmTx, FinalizeTx, ForgetTx
  <2>2. ASSUME Call PROVE requests'[o] = requests[o]
    <3> PICK r \in Requests, s \in Signatures, nf \in Nullifiers, d \in Dests :
               verify_xburn_transaction(r, s, nf, d)
      BY <2>2 DEF Call
    <3>1. o # r
      <4>1. ASSUME o = r PROVE requests'[o].status \in {"rejected", "asking"}
        BY <4>1 DEF verify_xburn_transaction, SolanaTypeOK
      <4> QED
        BY <4>1
    <3> QED
      BY <3>1 DEF verify_xburn_transaction, SolanaTypeOK
  <2>3. ASSUME NEW r \in Requests, Outcall(r)
        PROVE  /\ Len(requests'[o].responses) = Len(rpc_urls)
               /\ verdict(requests'[o].responses, requests'[o].nullifier, requests'[o].dest)
                    = "attested"
    <3> PICK a \in Answers : Answered(r, a)
      BY <2>3, AfterOutcall
    <3>1. CASE o # r
      BY <2>0, <3>1 DEF Answered
    <3>2. CASE o = r
      <4>1. NextStatus(r, a) = "attested"
        BY <3>2 DEF Answered
      <4>2. /\ ~(Len(NextResponses(r, a)) < Len(rpc_urls))
            /\ verdict(NextResponses(r, a), requests[r].nullifier, requests[r].dest) = "attested"
        BY <4>1 DEF NextStatus
      <4>3. Len(NextResponses(r, a)) = Len(requests[r].responses) + 1
            /\ Len(requests[r].responses) \in Nat /\ Len(requests[r].responses) < Len(rpc_urls)
        BY DEF Answered, RequestRecord, NextResponses
      <4> QED
        BY <3>2, <4>2, <4>3, UrlsType DEF Answered
    <3> QED
      BY <3>1, <3>2
  <2>4. ASSUME UNCHANGED solanaVars PROVE requests'[o] = requests[o]
    BY <2>4 DEF solanaVars
  <2> QED
    BY <2>0, <2>1, <2>2, <2>3, <2>4 DEF SolanaNext
<1> QED
  BY <1>1, <1>2, LegTypeCorrect, PTL DEF SolanaSpec

(* The faulty providers are too few to make up an agreement among themselves. *)
LEMMA SomeHonest ==
  ASSUME NEW q \in Seq(Answers), Len(q) = Len(rpc_urls), NEW a \in Agreed(q)
  PROVE  \E i \in Urls : q[i] = a /\ rpc_urls[i] \notin Faulty
<1> DEFINE Said == {i \in DOMAIN q : q[i] = a}
           Lied == {i \in Urls : rpc_urls[i] \in Faulty}
<1>1. DOMAIN q = Urls /\ IsFiniteSet(Urls)
  BY UrlsType, FS_Interval
<1>2. IsFiniteSet(Lied) /\ IsFiniteSet(Said)
  BY <1>1, FS_Subset
<1>3. Cardinality(Said) >= agree_threshold
  BY DEF Agreed
<1>4. Cardinality(Lied) < agree_threshold /\ agree_threshold \in Nat
  BY ProviderAssumption
<1>5. ~(Said \subseteq Lied)
  <2>1. Cardinality(Said) \in Nat /\ Cardinality(Lied) \in Nat
    BY <1>2, FS_CardinalityType
  <2>2. Said \in SUBSET Lied => Cardinality(Said) <= Cardinality(Lied)
    BY <1>2, FS_Subset
  <2> HIDE DEF Said, Lied
  <2> QED
    BY <1>3, <1>4, <2>1, <2>2
<1> QED
  BY <1>1, <1>5

(* What an attestation means: the named transaction is final, and its first   *)
(* opaq instruction is the xburn that was claimed.                            *)
LEMMA AttestedFact ==
  ASSUME SolanaTypeOK, HonestView, VerdictStands, NEW r \in Attested
  PROVE  /\ requests[r].signature \in Signatures
         /\ stage[requests[r].signature] = "finalized"
         /\ RecordsXburn(TxOf[requests[r].signature], requests[r].nullifier, requests[r].dest)
<1> DEFINE q == requests[r].responses
           tx == get_transaction_with_agreement(q)
           agreeing == {i \in DOMAIN q : q[i] \in Agreed(q)}
<1>1. r \in Requests /\ requests[r] \in RequestRecord /\ requests[r] # NotMade
  BY DEF Attested, SolanaTypeOK, NotMade
<1>2. Len(q) = Len(rpc_urls) /\ verdict(q, requests[r].nullifier, requests[r].dest) = "attested"
  BY DEF Attested, VerdictStands
<1>3. /\ tx \notin {Failed, NoResult}
      /\ RecordsXburn(tx, requests[r].nullifier, requests[r].dest)
  BY <1>2, Zenon DEF verdict
<1>4. tx \in Agreed(q)
  <2>1. agreeing # {} /\ tx = q[Min(agreeing)]
    BY <1>3 DEF get_transaction_with_agreement
  <2>2. agreeing \in SUBSET Nat
    BY <1>1 DEF RequestRecord
  <2> QED
    BY <2>1, <2>2, MinElement
<1> HIDE DEF tx
<1>5. q \in Seq(Answers) /\ requests[r].signature \in Signatures
  BY <1>1 DEF RequestRecord
<1>6. PICK i \in Urls : q[i] = tx /\ rpc_urls[i] \notin Faulty
  BY <1>2, <1>4, <1>5, SomeHonest
<1>7. i \in DOMAIN q
  BY <1>2, <1>5, <1>6, UrlsType
<1>8. tx = TxOf[requests[r].signature] /\ stage[requests[r].signature] = "finalized"
  BY <1>1, <1>3, <1>6, <1>7 DEF HonestView
<1> QED
  BY <1>3, <1>5, <1>8

(* The instruction an attestation is about, and that it spends the note.      *)
LEMMA XburnInstruction ==
  ASSUME NEW tx \in Transaction, NEW nf, NEW d, RecordsXburn(tx, nf, d)
  PROVE  /\ nf \in Spends(tx)
         /\ \E k \in DOMAIN tx.instructions :
              /\ tx.instructions[k].program = program_id
              /\ tx.instructions[k].tag = TAG_XBURN
              /\ tx.instructions[k].nullifier = nf
              /\ tx.instructions[k].dest = d
<1>1. OpaqIxs(tx) # {} /\ OpaqIxs(tx) \in SUBSET Nat
  BY DEF RecordsXburn, OpaqIxs, Transaction
<1>2. Min(OpaqIxs(tx)) \in OpaqIxs(tx)
  BY <1>1, MinElement
<1>3. PICK k \in DOMAIN tx.instructions :
        /\ tx.instructions[k].program = program_id
        /\ tx.instructions[k].tag = TAG_XBURN
        /\ tx.instructions[k].nullifier = nf
        /\ tx.instructions[k].dest = d
  BY <1>2 DEF RecordsXburn, OpaqIxs
<1>4. ~tx.err /\ TAG_XBURN \in Spenders
  BY DEF RecordsXburn, Spenders
<1>5. nf \in Spends(tx)
  BY <1>3, <1>4 DEF Spends
<1> QED
  BY <1>3, <1>5

(* Soundness of the attestation: an attested burn is on Solana, final, with   *)
(* that nullifier and destination, as long as fewer providers are faulty than *)
(* must agree.                                                                *)
THEOREM AttestationSound == SolanaSpec => []AttestedBurnsAreFinal
<1>1. SolanaTypeOK /\ HonestView /\ VerdictStands => AttestedBurnsAreFinal
  <2> SUFFICES ASSUME SolanaTypeOK, HonestView, VerdictStands, NEW r \in Attested
               PROVE  requests[r].signature \in FinalBurns(requests[r].nullifier, requests[r].dest)
    BY DEF AttestedBurnsAreFinal
  <2>1. /\ requests[r].signature \in Signatures
        /\ stage[requests[r].signature] = "finalized"
        /\ RecordsXburn(TxOf[requests[r].signature], requests[r].nullifier, requests[r].dest)
    BY AttestedFact
  <2>2. TxOf[requests[r].signature] \in Transaction
    BY <2>1, ProviderAssumption
  <2>3. ~TxOf[requests[r].signature].err
    BY <2>1 DEF RecordsXburn
  <2> QED
    BY <2>1, <2>2, <2>3, XburnInstruction DEF FinalBurns
<1> QED
  BY <1>1, LegTypeCorrect, HonestViewHolds, VerdictHolds, PTL

(* The chain keeps one spender per note through every fork.                   *)
LEMMA OneSpenderHolds == SolanaSpec => []OneSpender
<1>1. SolanaInit => OneSpender
  BY DEF SolanaInit, OneSpender, OnChain
<1>2. SolanaTypeOK /\ OneSpender /\ [SolanaNext]_solanaVars => OneSpender'
  <2> SUFFICES ASSUME SolanaTypeOK, OneSpender, [SolanaNext]_solanaVars PROVE OneSpender'
    OBVIOUS
  <2>1. ASSUME NEW s \in Signatures, ConfirmTx(s) PROVE OneSpender'
    <3>1. OnChain' = OnChain \cup {s}
      BY <2>1 DEF ConfirmTx, OnChain, SolanaTypeOK
    <3>2. \A o \in OnChain : Spends(TxOf[o]) \cap Spends(TxOf[s]) = {}
      BY <2>1 DEF ConfirmTx
    <3> QED
      BY <3>1, <3>2 DEF OneSpender
  <2>2. ASSUME NEW s \in Signatures, FinalizeTx(s) \/ ForgetTx(s) PROVE OneSpender'
    <3>1. OnChain' \subseteq OnChain
      BY <2>2 DEF FinalizeTx, ForgetTx, OnChain, SolanaTypeOK
    <3> QED
      BY <3>1 DEF OneSpender
  <2>3. CASE UNCHANGED stage
    BY <2>3 DEF OneSpender, OnChain
  <2>4. Call => UNCHANGED stage
    BY DEF Call, verify_xburn_transaction
  <2>5. \A r \in Requests : Outcall(r) => UNCHANGED stage
    BY DEF Outcall
  <2>6. UNCHANGED solanaVars => UNCHANGED stage
    BY DEF solanaVars
  <2> QED
    BY <2>1, <2>2, <2>3, <2>4, <2>5, <2>6 DEF SolanaNext
<1> QED
  BY <1>1, <1>2, LegTypeCorrect, PTL DEF SolanaSpec

(* One note, one destination: two calls that attest the same nullifier name   *)
(* the same transaction, for no other final one can spend it, and its first   *)
(* opaq instruction has one destination.                                      *)
THEOREM AttestationUnique == SolanaSpec => []OneDestinationPerNote
<1>1. SolanaTypeOK /\ HonestView /\ VerdictStands /\ OneSpender => OneDestinationPerNote
  <2> SUFFICES ASSUME SolanaTypeOK, HonestView, VerdictStands, OneSpender,
                      NEW q \in Attested, NEW r \in Attested,
                      requests[q].nullifier = requests[r].nullifier
               PROVE  requests[q].dest = requests[r].dest
    BY DEF OneDestinationPerNote
  <2> DEFINE s == requests[q].signature
             o == requests[r].signature
             nf == requests[r].nullifier
  <2>1. s \in Signatures /\ stage[s] = "finalized" /\ RecordsXburn(TxOf[s], nf, requests[q].dest)
    BY AttestedFact
  <2>2. o \in Signatures /\ stage[o] = "finalized" /\ RecordsXburn(TxOf[o], nf, requests[r].dest)
    BY AttestedFact
  <2> HIDE DEF s, o, nf
  <2>3. TxOf[s] \in Transaction /\ TxOf[o] \in Transaction
    BY <2>1, <2>2, ProviderAssumption
  <2>4. nf \in Spends(TxOf[s]) /\ nf \in Spends(TxOf[o])
    BY <2>1, <2>2, <2>3, XburnInstruction
  <2>5. s = o
    BY <2>1, <2>2, <2>4 DEF OneSpender, OnChain
  <2> QED
    BY <2>1, <2>2, <2>5 DEF RecordsXburn
<1> QED
  BY <1>1, LegTypeCorrect, HonestViewHolds, VerdictHolds, OneSpenderHolds, PTL

-----------------------------------------------------------------------------
(* A rejection, too, rests on the answers of all the providers, of which there *)
(* may be none.                                                               *)
RejectionStands ==
  \A r \in Requests : requests[r].status = "rejected" =>
    /\ Len(requests[r].responses) = Len(rpc_urls)
    /\ \/ rpc_urls = <<>>
       \/ verdict(requests[r].responses, requests[r].nullifier, requests[r].dest) = "rejected"

(* RejectionStands is an invariant: a call that returned is not touched again. *)
LEMMA RejectionHolds == SolanaSpec => []RejectionStands
<1>1. SolanaInit => RejectionStands
  BY DEF SolanaInit, RejectionStands, NotMade
<1>2. SolanaTypeOK /\ RejectionStands /\ [SolanaNext]_solanaVars => RejectionStands'
  <2> DEFINE Stands(c) == /\ Len(c.responses) = Len(rpc_urls)
                          /\ \/ rpc_urls = <<>>
                             \/ verdict(c.responses, c.nullifier, c.dest) = "rejected"
  <2> SUFFICES ASSUME SolanaTypeOK, RejectionStands, [SolanaNext]_solanaVars,
                      NEW o \in Requests, requests'[o].status = "rejected"
               PROVE  Stands(requests'[o])
    BY DEF RejectionStands, verdict, get_transaction_with_agreement, Agreed
  <2>0. CASE requests'[o] = requests[o]
    BY <2>0 DEF RejectionStands
  <2>1. ASSUME NEW s \in Signatures, ConfirmTx(s) \/ FinalizeTx(s) \/ ForgetTx(s)
        PROVE  requests'[o] = requests[o]
    BY <2>1 DEF ConfirmTx, FinalizeTx, ForgetTx
  <2>2. ASSUME Call PROVE Stands(requests'[o])
    <3> PICK r \in Requests, s \in Signatures, nf \in Nullifiers, d \in Dests :
               verify_xburn_transaction(r, s, nf, d)
      BY <2>2 DEF Call
    <3>1. CASE o = r
      <4>1. /\ requests'[o].responses = <<>>
            /\ requests'[o].status = IF rpc_urls = <<>> THEN "rejected" ELSE "asking"
        BY <3>1 DEF verify_xburn_transaction, SolanaTypeOK
      <4>2. rpc_urls = <<>>
        BY <4>1
      <4> QED
        BY <4>1, <4>2
    <3>2. CASE o # r
      <4>1. requests'[o] = requests[o]
        BY <3>2 DEF verify_xburn_transaction, SolanaTypeOK
      <4> QED
        BY <2>0, <4>1
    <3> QED
      BY <3>1, <3>2
  <2>3. ASSUME NEW r \in Requests, Outcall(r) PROVE Stands(requests'[o])
    <3> PICK a \in Answers : Answered(r, a)
      BY <2>3, AfterOutcall
    <3>1. CASE o # r
      BY <2>0, <3>1 DEF Answered
    <3>2. CASE o = r
      <4>1. NextStatus(r, a) = "rejected"
        BY <3>2 DEF Answered
      <4>2. /\ ~(Len(NextResponses(r, a)) < Len(rpc_urls))
            /\ verdict(NextResponses(r, a), requests[r].nullifier, requests[r].dest) = "rejected"
        BY <4>1 DEF NextStatus
      <4>3. Len(NextResponses(r, a)) = Len(requests[r].responses) + 1
            /\ Len(requests[r].responses) \in Nat /\ Len(requests[r].responses) < Len(rpc_urls)
        BY DEF Answered, RequestRecord, NextResponses
      <4>4. Len(NextResponses(r, a)) = Len(rpc_urls)
        BY <4>2, <4>3, UrlsType
      <4> QED
        BY <3>2, <4>2, <4>4 DEF Answered
    <3> QED
      BY <3>1, <3>2
  <2>4. ASSUME UNCHANGED solanaVars PROVE requests'[o] = requests[o]
    BY <2>4 DEF solanaVars
  <2> QED
    BY <2>0, <2>1, <2>2, <2>3, <2>4 DEF SolanaNext
<1> QED
  BY <1>1, <1>2, LegTypeCorrect, PTL DEF SolanaSpec

(* Where the threshold is a majority, two answers cannot both reach it.        *)
LEMMA OneAgreed ==
  ASSUME 2 * agree_threshold > Len(rpc_urls),
         NEW q \in Seq(Answers), Len(q) = Len(rpc_urls),
         NEW a \in Agreed(q), NEW b \in Agreed(q)
  PROVE  a = b
<1> SUFFICES ASSUME a # b PROVE FALSE
  OBVIOUS
<1> DEFINE A == {i \in DOMAIN q : q[i] = a}
           B == {i \in DOMAIN q : q[i] = b}
<1>1. DOMAIN q = 1..Len(rpc_urls) /\ Len(rpc_urls) \in Nat
  BY UrlsType
<1>2. IsFiniteSet(1..Len(rpc_urls)) /\ Cardinality(1..Len(rpc_urls)) = Len(rpc_urls)
  <2> DEFINE n == Len(rpc_urls)
  <2>1. n \in Nat /\ 1 \in Int /\ n \in Int
    BY <1>1
  <2> HIDE DEF n
  <2>2. IsFiniteSet(1..n) /\ Cardinality(1..n) = IF 1 > n THEN 0 ELSE n - 1 + 1
    BY <2>1, FS_Interval
  <2>3. Cardinality(1..n) = n
    BY <2>1, <2>2
  <2> QED
    BY <2>2, <2>3 DEF n
<1>3. A \cup B \in SUBSET (1..Len(rpc_urls)) /\ A \cap B = {}
  BY <1>1
<1>4. Cardinality(A) >= agree_threshold /\ Cardinality(B) >= agree_threshold
  BY DEF Agreed
<1> HIDE DEF A, B
<1>5. IsFiniteSet(A) /\ IsFiniteSet(B)
  BY <1>2, <1>3, FS_Subset
<1>6. Cardinality(A \cup B) <= Len(rpc_urls)
  BY <1>2, <1>3, FS_Subset
<1>7. Cardinality(A \cup B) = Cardinality(A) + Cardinality(B) - Cardinality(A \cap B)
  BY <1>5, FS_Union
<1>8. Cardinality(A \cap B) = 0
  BY <1>3, FS_EmptySet
<1>9. Cardinality(A) \in Nat /\ Cardinality(B) \in Nat /\ agree_threshold \in Nat
  BY <1>5, FS_CardinalityType, ProviderAssumption
<1> QED
  BY <1>1, <1>4, <1>6, <1>7, <1>8, <1>9

(* Completeness of the attestation, where the threshold is a majority of the    *)
(* providers, as it is in the deployment (two of three): a true claim that      *)
(* enough providers confirmed is attested, whatever the others answer.  With a  *)
(* smaller threshold "null" may reach it first, and the call is rejected.       *)
THEOREM TrueClaimsHeard ==
  ASSUME 2 * agree_threshold > Len(rpc_urls)
  PROVE  SolanaSpec => []TrueClaimsAreAttested
<1>1. SolanaTypeOK /\ RejectionStands => TrueClaimsAreAttested
  <2> SUFFICES ASSUME SolanaTypeOK, RejectionStands,
                      NEW r \in Requests, requests[r].status = "rejected",
                      RecordsXburn(TxOf[requests[r].signature], requests[r].nullifier,
                                   requests[r].dest)
               PROVE  Cardinality({i \in Urls : requests[r].responses[i]
                                                  = TxOf[requests[r].signature]})
                        < agree_threshold
    BY DEF TrueClaimsAreAttested
  <2> DEFINE q == requests[r].responses
             tx == TxOf[requests[r].signature]
             Said == {i \in Urls : q[i] = tx}
             agreeing == {i \in DOMAIN q : q[i] \in Agreed(q)}
  <2>1. requests[r] \in RequestRecord
    BY DEF SolanaTypeOK, NotMade
  <2>2. q \in Seq(Answers) /\ requests[r].signature \in Signatures
    BY <2>1 DEF RequestRecord
  <2>3. tx \in Answers /\ tx \notin {Failed, NoResult}
    BY <2>2, ProviderAssumption DEF Answers
  <2>4. Len(q) = Len(rpc_urls) /\ DOMAIN q = Urls /\ IsFiniteSet(Urls)
    <3>1. Len(q) = Len(rpc_urls)
      BY DEF RejectionStands
    <3>2. DOMAIN q = 1..Len(q)
      BY <2>2
    <3> HIDE DEF q
    <3>3. DOMAIN q = Urls
      BY <3>1, <3>2, UrlsType
    <3>4. IsFiniteSet(Urls)
      BY UrlsType, FS_Interval
    <3> QED
      BY <3>1, <3>3, <3>4
  <2>5. Cardinality(Said) \in Nat /\ agree_threshold \in Nat
    <3>1. IsFiniteSet(Said)
      BY <2>4, FS_Subset
    <3> QED
      BY <3>1, FS_CardinalityType, ProviderAssumption
  <2>6. CASE rpc_urls = <<>>
    <3>1. Urls = {}
      BY <2>6 DEF Urls
    <3>2. Said = {} /\ {i \in Urls : rpc_urls[i] \in Faulty} = {}
      BY <3>1
    <3>3. Cardinality(Said) = Cardinality({i \in Urls : rpc_urls[i] \in Faulty})
      BY <3>2
    <3> QED
      BY <3>3, ProviderAssumption
  <2>7. CASE rpc_urls # <<>>
    <3>1. verdict(q, requests[r].nullifier, requests[r].dest) = "rejected"
      BY <2>7 DEF RejectionStands
    <3>2. SUFFICES ASSUME Cardinality(Said) >= agree_threshold PROVE FALSE
      BY <2>5
    <3>3. tx \in Agreed(q)
      BY <2>3, <2>4, <3>2 DEF Agreed
    <3>4. agreeing # {}
      <4>1. Said # {}
        <5>1. agree_threshold > 0
          <6>1. IsFiniteSet({i \in Urls : rpc_urls[i] \in Faulty})
            BY <2>4, FS_Subset
          <6>2. Cardinality({i \in Urls : rpc_urls[i] \in Faulty}) \in Nat
            BY <6>1, FS_CardinalityType
          <6> QED
            BY <6>2, ProviderAssumption
        <5>2. Cardinality(Said) # 0
          BY <2>5, <3>2, <5>1
        <5> QED
          BY <5>2, FS_EmptySet
      <4> QED
        BY <2>4, <3>3, <4>1
    <3>5. agreeing \in SUBSET Nat
      BY <2>2
    <3>6. Min(agreeing) \in agreeing
      BY <3>4, <3>5, MinElement
    <3>7. get_transaction_with_agreement(q) = q[Min(agreeing)]
      BY <3>4 DEF get_transaction_with_agreement
    <3>8. get_transaction_with_agreement(q) \in Agreed(q)
      BY <3>6, <3>7
    <3>9. get_transaction_with_agreement(q) = tx
      BY <2>2, <2>4, <3>3, <3>8, OneAgreed
    <3> HIDE DEF q, tx
    <3>10. verdict(q, requests[r].nullifier, requests[r].dest) = "attested"
      BY <2>3, <3>9, Zenon DEF verdict, tx
    <3> QED
      BY <3>1, <3>10
  <2> QED
    BY <2>6, <2>7
<1> QED
  BY <1>1, LegTypeCorrect, RejectionHolds, PTL

-----------------------------------------------------------------------------
(* The EVM chain, and the calls that read it and submit to it.                 *)

Block == [state : Storage, txs : SUBSET Tx]

\* The state after the i-th block that is not final; block 0 is the final one.
At(i) == IF i = 0 THEN final ELSE head[i].state

\* What a later state keeps of an earlier one: recorded nullifiers stay, and an
\* entry is not removed but by its mint.
Extends(p, q) ==
  /\ p.nonce <= q.nonce
  /\ p.nullifierSpent \subseteq q.nullifierSpent
  /\ p.minted \subseteq q.minted
  /\ \A nf \in Nullifiers : p.pendingMint[nf] # NotPending =>
       q.pendingMint[nf] # NotPending \/ nf \in q.minted

\* A state's entries are of notes that are not minted, and are what some call submits.
Sound(p) ==
  \A nf \in Nullifiers :
    /\ nf \in p.minted => p.pendingMint[nf] = NotPending
    /\ p.pendingMint[nf] # NotPending =>
         \E r \in Calls : ArgOf[r] = [nullifier |-> nf, dest |-> p.pendingMint[nf]]

\* Every block builds on the ones before it.
ChainGrows ==
  /\ \A i, j \in 0..Len(head) : i <= j => Extends(At(i), At(j))
  /\ \A i \in 0..Len(head) : Sound(At(i))

\* A block has at most one of the attestor's transactions, the one whose nonce is
\* the account's before it.
TxsInOrder ==
  \A j \in DOMAIN head :
    /\ \A t \in head[j].txs : At(j - 1).nonce = t.nonce /\ t.nonce < At(j).nonce
    /\ \A s, t \in head[j].txs : s = t
-----------------------------------------------------------------------------
\* How a step may change the chain: a prefix of the blocks stays, or all but the
\* first, which becomes final; or one block is added.
Keeps(o) ==
  /\ Len(head') + o <= Len(head)
  /\ \A i \in 0..Len(head') : At(i)' = At(i + o)
  /\ \A i \in DOMAIN head' : i + o \in DOMAIN head /\ head'[i] = head[i + o]

Adds(state, txs) ==
  /\ Len(head') = Len(head) + 1
  /\ \A i \in 0..Len(head') : At(i)' = IF i = Len(head') THEN state ELSE At(i)
  /\ \A i \in DOMAIN head' :
       head'[i] = IF i = Len(head') THEN [state |-> state, txs |-> txs] ELSE head[i]

(* The latest state is the one after the last block.                           *)
LEMMA LatestAt ==
  ASSUME TypeOK
  PROVE  /\ latest = At(Len(head)) /\ latest \in Storage
         /\ \A i \in 0..Len(head) : At(i) \in Storage
         /\ States = {At(i) : i \in 0..Len(head)}
<1>1. /\ head \in Seq(Block) /\ DOMAIN head = 1..Len(head) /\ Len(head) \in Nat
      /\ final \in Storage
  BY DEF TypeOK, Block
<1>2. \A i \in 1..Len(head) : head[i].state \in Storage
  <2>1. \A i \in 1..Len(head) : head[i] \in Block
    BY <1>1
  <2> QED
    BY <2>1 DEF Block
<1>3. latest = At(Len(head))
  <2>1. CASE head = <<>>
    BY <2>1 DEF latest, At
  <2>2. CASE head # <<>>
    BY <1>1, <2>2 DEF latest, At, Last
  <2> QED
    BY <2>1, <2>2
<1>4. \A i \in 0..Len(head) : At(i) \in Storage
  BY <1>1, <1>2 DEF At
<1>5. States = {At(i) : i \in 0..Len(head)}
  <2>1. At(0) = final /\ \A i \in 1..Len(head) : At(i) = head[i].state
    BY DEF At
  <2>2. 0..Len(head) = {0} \cup 1..Len(head)
    BY <1>1
  <2> QED
    BY <1>1, <2>1, <2>2 DEF States
<1> QED
  BY <1>1, <1>3, <1>4, <1>5

(* A mined block.                                                               *)
LEMMA MineAdds ==
  ASSUME TypeOK, NEW s \in Storage, NEW txs \in SUBSET Tx, MineBlock(s, txs)
  PROVE  /\ Adds(s, txs) /\ final' = final
         /\ head' \in Seq(Block) /\ Len(head') <= MaxDepth
<1> DEFINE b == [state |-> s, txs |-> txs]
<1>1. /\ head \in Seq(Block) /\ DOMAIN head = 1..Len(head) /\ Len(head) \in Nat
      /\ Len(head) < MaxDepth /\ head' = Append(head, b) /\ final' = final
  BY DEF TypeOK, Block, MineBlock
<1>2. b \in Block /\ b.state = s
  BY DEF Block
<1> HIDE DEF b
<1>3. /\ head' \in Seq(Block) /\ Len(head') = Len(head) + 1
      /\ DOMAIN head' = 1..Len(head) + 1
      /\ \A i \in 1..Len(head) : head'[i] = head[i]
      /\ head'[Len(head) + 1] = b
  BY <1>1, <1>2
<1>4. Len(head') <= MaxDepth
  BY <1>1, <1>3, ChainAssumption
<1>5. \A i \in 0..Len(head') : At(i)' = IF i = Len(head') THEN s ELSE At(i)
  BY <1>1, <1>2, <1>3 DEF At
<1> QED
  BY <1>1, <1>3, <1>4, <1>5 DEF Adds, b

(* A block becomes final.                                                       *)
LEMMA FinalizeKeeps ==
  ASSUME TypeOK, FinalizeBlock
  PROVE  Keeps(1) /\ final' \in Storage /\ head' \in Seq(Block) /\ Len(head') <= MaxDepth
<1>1. /\ head \in Seq(Block) /\ DOMAIN head = 1..Len(head) /\ Len(head) \in Nat
      /\ Len(head) <= MaxDepth /\ head # <<>>
      /\ final' = head[1].state /\ head' = Tail(head)
  BY DEF TypeOK, Block, FinalizeBlock
<1>2. /\ Len(head) >= 1
      /\ head' \in Seq(Block) /\ Len(head') = Len(head) - 1
      /\ DOMAIN head' = 1..Len(head) - 1
      /\ \A i \in 1..Len(head) - 1 : head'[i] = head[i + 1]
  BY <1>1
<1>3. final' \in Storage
  <2>1. head[1] \in Block
    BY <1>1, <1>2
  <2> QED
    BY <1>1, <2>1 DEF Block
<1>4. \A i \in 0..Len(head') : At(i)' = At(i + 1)
  BY <1>1, <1>2 DEF At
<1> QED
  BY <1>1, <1>2, <1>3, <1>4, ChainAssumption DEF Keeps

(* The last blocks are abandoned.                                               *)
LEMMA AbandonKeeps ==
  ASSUME TypeOK, NEW n \in 0..Len(head) - 1, Abandon(n)
  PROVE  Keeps(0) /\ final' = final /\ head' \in Seq(Block) /\ Len(head') <= MaxDepth
<1>1. /\ head \in Seq(Block) /\ DOMAIN head = 1..Len(head) /\ Len(head) \in Nat
      /\ Len(head) <= MaxDepth /\ final' = final /\ head' = SubSeq(head, 1, n)
  BY DEF TypeOK, Block, Abandon
<1>2. /\ head' \in Seq(Block) /\ Len(head') = n
      /\ DOMAIN head' = 1..n
      /\ \A i \in 1..n : head'[i] = head[i]
  BY <1>1
<1>3. \A i \in 0..Len(head') : At(i)' = At(i)
  BY <1>1, <1>2 DEF At
<1> QED
  BY <1>1, <1>2, <1>3, ChainAssumption DEF Keeps

(* The chain does not change.                                                   *)
LEMMA UnchangedKeeps ==
  ASSUME TypeOK, UNCHANGED chain
  PROVE  Keeps(0) /\ final' = final /\ head' \in Seq(Block) /\ Len(head') <= MaxDepth
BY DEF TypeOK, Block, chain, Keeps, At
-----------------------------------------------------------------------------
(* What a call submits has the types of an attestation.                         *)
LEMMA ArgTypes ==
  ASSUME NEW r \in Calls
  PROVE  /\ ArgOf[r].nullifier \in Nullifiers /\ ArgOf[r].dest \in Dests
         /\ ArgOf[r].dest # NotPending
         /\ ArgOf[r] = [nullifier |-> ArgOf[r].nullifier, dest |-> ArgOf[r].dest]
BY EvmLegAssumption DEF Attestations

(* A state extends itself.                                                      *)
LEMMA ExtendsRefl ==
  ASSUME NEW p \in Storage PROVE Extends(p, p)
BY DEF Extends, Storage

(* What extends an extension extends the state.                                 *)
LEMMA ExtendsTrans ==
  ASSUME NEW p \in Storage, NEW q \in Storage, NEW s \in Storage,
         Extends(p, q), Extends(q, s)
  PROVE  Extends(p, s)
<1>1. p.nonce \in Nat /\ q.nonce \in Nat /\ s.nonce \in Nat
  BY DEF Storage
<1>2. /\ p.nonce <= q.nonce /\ q.nonce <= s.nonce
      /\ p.nullifierSpent \subseteq q.nullifierSpent
      /\ q.nullifierSpent \subseteq s.nullifierSpent
      /\ p.minted \subseteq q.minted /\ q.minted \subseteq s.minted
  BY DEF Extends
<1>3. ASSUME NEW nf \in Nullifiers, p.pendingMint[nf] # NotPending
      PROVE  s.pendingMint[nf] # NotPending \/ nf \in s.minted
  <2>1. q.pendingMint[nf] # NotPending \/ nf \in q.minted
    BY <1>3 DEF Extends
  <2>2. q.pendingMint[nf] # NotPending =>
          s.pendingMint[nf] # NotPending \/ nf \in s.minted
    BY DEF Extends
  <2> QED
    BY <1>2, <1>3, <2>1, <2>2
<1> QED
  BY <1>1, <1>2, <1>3 DEF Extends

(* A burn of a note on this chain.                                              *)
LEMMA SpentState ==
  ASSUME NEW p \in Storage, Sound(p), NEW nf \in Nullifiers,
         NEW q, q = [p EXCEPT !.nullifierSpent = @ \cup {nf}]
  PROVE  q \in Storage /\ Sound(q) /\ Extends(p, q)
<1>1. /\ q \in Storage /\ q.nonce = p.nonce /\ q.minted = p.minted
      /\ q.pendingMint = p.pendingMint /\ q.nullifierSpent = p.nullifierSpent \cup {nf}
      /\ p.nonce \in Nat
  BY DEF Storage
<1> QED
  BY <1>1 DEF Sound, Extends

(* A mint of an attested note.                                                  *)
LEMMA MintedState ==
  ASSUME NEW p \in Storage, Sound(p), NEW nf \in Nullifiers,
         NEW q, q = mintFromXburn(p, nf)
  PROVE  q \in Storage /\ Sound(q) /\ Extends(p, q)
<1>1. /\ q.nonce = p.nonce /\ q.minted = p.minted \cup {nf}
      /\ q.pendingMint = [p.pendingMint EXCEPT ![nf] = NotPending]
      /\ q.nullifierSpent = p.nullifierSpent
      /\ p.nonce \in Nat /\ p.pendingMint \in [Nullifiers -> Words]
      /\ p.minted \subseteq Nullifiers /\ p.nullifierSpent \subseteq Nullifiers
  BY DEF Storage, mintFromXburn
<1>2. q = [nonce |-> p.nonce, nullifierSpent |-> p.nullifierSpent,
           minted |-> p.minted \cup {nf},
           pendingMint |-> [p.pendingMint EXCEPT ![nf] = NotPending]]
  BY DEF Storage, mintFromXburn
<1>3. [p.pendingMint EXCEPT ![nf] = NotPending] \in [Nullifiers -> Words]
  BY <1>1 DEF Words
<1>4. q \in Storage
  BY <1>1, <1>2, <1>3 DEF Storage
<1>5. /\ q.pendingMint[nf] = NotPending
      /\ \A x \in Nullifiers : x # nf => q.pendingMint[x] = p.pendingMint[x]
  BY <1>1
<1>6. Sound(q)
  BY <1>1, <1>5 DEF Sound
<1>7. Extends(p, q)
  BY <1>1, <1>5 DEF Extends
<1> QED
  BY <1>4, <1>6, <1>7

(* An attestation that is mined, which reverts for a minted note.  It may write *)
(* another destination over an entry, and never removes one.                    *)
LEMMA AttestedState ==
  ASSUME NEW p \in Storage, Sound(p), NEW r \in Calls,
         NEW q, q = addPending(p, ArgOf[r])
  PROVE  q \in Storage /\ Sound(q) /\ Extends(p, q) /\ q.nonce = p.nonce + 1
<1> DEFINE nf == ArgOf[r].nullifier
           d == ArgOf[r].dest
<1>0. /\ p.nonce \in Nat /\ p.pendingMint \in [Nullifiers -> Words]
      /\ p.minted \subseteq Nullifiers /\ p.nullifierSpent \subseteq Nullifiers
      /\ p = [nonce |-> p.nonce, nullifierSpent |-> p.nullifierSpent,
              minted |-> p.minted, pendingMint |-> p.pendingMint]
  BY DEF Storage
<1>a. nf \in Nullifiers /\ d \in Words /\ d # NotPending
  BY ArgTypes DEF Words
<1>1. CASE nf \in p.minted
  <2>1. q = [nonce |-> p.nonce + 1, nullifierSpent |-> p.nullifierSpent,
             minted |-> p.minted, pendingMint |-> p.pendingMint]
    BY <1>0, <1>1 DEF addPending
  <2>2. q \in Storage
    BY <1>0, <2>1 DEF Storage
  <2>3. /\ q.nonce = p.nonce + 1 /\ q.minted = p.minted
        /\ q.pendingMint = p.pendingMint /\ q.nullifierSpent = p.nullifierSpent
    BY <2>1
  <2> QED
    BY <1>0, <2>2, <2>3 DEF Sound, Extends
<1>2. CASE nf \notin p.minted
  <2>1. q = [nonce |-> p.nonce + 1, nullifierSpent |-> p.nullifierSpent,
             minted |-> p.minted, pendingMint |-> [p.pendingMint EXCEPT ![nf] = d]]
    BY <1>0, <1>2 DEF addPending
  <2>2. [p.pendingMint EXCEPT ![nf] = d] \in [Nullifiers -> Words]
    BY <1>0, <1>a
  <2>3. q \in Storage
    BY <1>0, <2>1, <2>2 DEF Storage
  <2>4. /\ q.nonce = p.nonce + 1 /\ q.minted = p.minted
        /\ q.pendingMint = [p.pendingMint EXCEPT ![nf] = d]
        /\ q.nullifierSpent = p.nullifierSpent
    BY <2>1
  <2>5. /\ q.pendingMint[nf] = d
        /\ \A x \in Nullifiers : x # nf => q.pendingMint[x] = p.pendingMint[x]
    BY <1>0, <1>a, <2>4
  <2>6. ArgOf[r] = [nullifier |-> nf, dest |-> d]
    BY ArgTypes
  <2> HIDE DEF nf, d
  <2>7. Sound(q)
    BY <1>2, <2>4, <2>5, <2>6 DEF Sound
  <2>8. d # NotPending
    BY <1>a DEF d
  <2>9. Extends(p, q)
    BY <1>0, <2>4, <2>5, <2>8 DEF Extends
  <2> QED
    BY <2>3, <2>4, <2>7, <2>9
<1> QED
  BY <1>1, <1>2

-----------------------------------------------------------------------------
(* The awaits of a submission follow one another.                               *)
LEMMA AfterAwait ==
  /\ Steps = {"ecdsa_public_key", "eth_getTransactionCount", "eth_gasPrice",
              "sign_with_ecdsa", "eth_sendRawTransaction"}
  /\ After("ecdsa_public_key") = "eth_getTransactionCount"
  /\ After("eth_getTransactionCount") = "eth_gasPrice"
  /\ After("eth_gasPrice") = "sign_with_ecdsa"
  /\ After("sign_with_ecdsa") = "eth_sendRawTransaction"
<1> DEFINE N(step) == CHOOSE i \in 2..5 : Awaits[i - 1] = step
<1>1. /\ Len(Awaits) = 5 /\ DOMAIN Awaits = 1..5
      /\ Awaits[1] = "ecdsa_public_key" /\ Awaits[2] = "eth_getTransactionCount"
      /\ Awaits[3] = "eth_gasPrice" /\ Awaits[4] = "sign_with_ecdsa"
      /\ Awaits[5] = "eth_sendRawTransaction"
  BY DEF Awaits
<1>2. 2..5 = {2, 3, 4, 5} /\ 1..5 = {1, 2, 3, 4, 5}
  OBVIOUS
<1>3. Steps = {"ecdsa_public_key", "eth_getTransactionCount", "eth_gasPrice",
               "sign_with_ecdsa", "eth_sendRawTransaction"}
  BY <1>1, <1>2 DEF Steps
<1>4. \A step : After(step) = Awaits[N(step)]
  BY <1>1 DEF After
<1>5. \A i \in 2..5 : i - 1 \in {1, 2, 3, 4} /\ (i - 1 = 1 => i = 2) /\ (i - 1 = 2 => i = 3)
                      /\ (i - 1 = 3 => i = 4) /\ (i - 1 = 4 => i = 5)
  BY <1>2
<1>6. /\ \A i \in 2..5 : Awaits[i - 1] = "ecdsa_public_key" <=> i = 2
      /\ \A i \in 2..5 : Awaits[i - 1] = "eth_getTransactionCount" <=> i = 3
      /\ \A i \in 2..5 : Awaits[i - 1] = "eth_gasPrice" <=> i = 4
      /\ \A i \in 2..5 : Awaits[i - 1] = "sign_with_ecdsa" <=> i = 5
  BY <1>1, <1>2
<1>7. N("ecdsa_public_key") = 2 /\ N("eth_getTransactionCount") = 3
      /\ N("eth_gasPrice") = 4 /\ N("sign_with_ecdsa") = 5
  BY <1>2, <1>6
<1> QED
  BY <1>1, <1>3, <1>4, <1>7

(* What the step of a call tells about it.                                      *)
LEMMA CallShape ==
  ASSUME TypeOK, NEW r \in Calls
  PROVE  /\ calls[r] = Idle \/ calls[r] \in SubmitCall \/ calls[r] \in CheckCall
              \/ calls[r] \in ReadCall
         /\ calls[r].step \in Steps => calls[r] \in SubmitCall
         /\ calls[r].step = "eth_call" => calls[r] \in CheckCall \/ calls[r] \in ReadCall
         /\ Pending(r) => calls[r] # Idle
<1>1. calls[r] \in {Idle} \cup CallRecord
  BY DEF TypeOK
<1>2. calls[r] = Idle \/ calls[r] \in SubmitCall \/ calls[r] \in CheckCall
        \/ calls[r] \in ReadCall
  BY <1>1 DEF CallRecord
<1>3. calls[r] = Idle => calls[r].step = "idle"
  BY DEF Idle
<1>4. calls[r] \in CheckCall \/ calls[r] \in ReadCall =>
        calls[r].step \in {"eth_call", "Ok", "Err"}
  BY DEF CheckCall, ReadCall, Results
<1>5. calls[r] \in SubmitCall => calls[r].step \in Steps \cup {"Ok", "Err"}
  BY DEF SubmitCall, Results
<1> QED
  BY <1>2, <1>3, <1>4, <1>5, AfterAwait DEF Pending

(* A call that is replaced by one of the three shapes.                          *)
LEMMA CallPut ==
  ASSUME TypeOK, NEW r \in Calls, NEW c \in SubmitCall \cup CheckCall \cup ReadCall,
         calls' = [calls EXCEPT ![r] = c]
  PROVE  calls' \in [Calls -> {Idle} \cup CallRecord]
<1>1. c \in CallRecord
  BY DEF CallRecord
<1> QED
  BY <1>1 DEF TypeOK

(* A call of which only the step changes, to one of its own or to a result.     *)
LEMMA StepPut ==
  ASSUME TypeOK, NEW r \in Calls, NEW x, calls' = [calls EXCEPT ![r].step = x],
         \/ calls[r].step \in Steps /\ x \in Steps
         \/ Pending(r) /\ x \in Results
  PROVE  calls' \in [Calls -> {Idle} \cup CallRecord]
<1> DEFINE c == [calls[r] EXCEPT !.step = x]
<1>1. calls' = [calls EXCEPT ![r] = c]
  OBVIOUS
<1>2. CASE calls[r] \in SubmitCall
  <2>1. x \in Steps \cup Results
    OBVIOUS
  <2> QED
    BY <1>1, <1>2, <2>1, CallPut DEF SubmitCall
<1>3. CASE calls[r] \notin SubmitCall
  <2>1. x \in Results /\ (calls[r] \in CheckCall \/ calls[r] \in ReadCall)
    BY <1>3, CallShape
  <2>2. calls[r] \in CheckCall => c \in CheckCall
    BY <2>1 DEF CheckCall
  <2>3. calls[r] \in ReadCall => c \in ReadCall
    BY <2>1 DEF ReadCall
  <2> QED
    BY <1>1, <2>1, <2>2, <2>3, CallPut
<1> QED
  BY <1>2, <1>3

-----------------------------------------------------------------------------
(* A new call.                                                                  *)
LEMMA CallStarts ==
  ASSUME TypeOK, NEW r \in Calls, NEW f \in BOOLEAN,
         submit_add_pending(r) \/ check_nullifier_spent(r, f) \/ read_pending_mint(r, f)
  PROVE  /\ calls' \in [Calls -> {Idle} \cup CallRecord]
         /\ UNCHANGED <<chain, mempool, faults>>
<1>1. [op |-> "submit", step |-> "ecdsa_public_key", nonce |-> 0] \in SubmitCall
  BY AfterAwait DEF SubmitCall
<1>2. [op |-> "check", step |-> "eth_call", finalized |-> f, word |-> FALSE] \in CheckCall
  BY DEF CheckCall
<1>3. [op |-> "read", step |-> "eth_call", finalized |-> f, word |-> NotPending]
        \in ReadCall
  BY DEF ReadCall, Words
<1>4. PICK c \in SubmitCall \cup CheckCall \cup ReadCall :
         calls' = [calls EXCEPT ![r] = c] /\ UNCHANGED <<chain, mempool, faults>>
  BY <1>1, <1>2, <1>3 DEF submit_add_pending, check_nullifier_spent, read_pending_mint, Start
<1> QED
  BY <1>4, CallPut

(* A request of an operator or of another caller is one of the three calls.     *)
LEMMA RequestSteps ==
  ASSUME TypeOK, NEW r \in Calls, Persist(r) \/ Request(r)
  PROVE  \E f \in BOOLEAN :
           submit_add_pending(r) \/ check_nullifier_spent(r, f) \/ read_pending_mint(r, f)
<1>1. CASE Request(r)
  BY <1>1, EvmLegAssumption DEF Request
<1>2. CASE Persist(r)
  <2>1. calls[r].op = "read" => calls[r].finalized \in BOOLEAN
    BY CallShape DEF Idle, SubmitCall, CheckCall, ReadCall
  <2> QED
    BY <1>2, <2>1 DEF Persist
<1> QED
  BY <1>1, <1>2

(* The node takes a transaction of a call: the mempool keeps one for a nonce.   *)
LEMMA HoldingType ==
  ASSUME TypeOK, NEW r \in Calls, NEW n \in Nat,
         mempool' = Holding(legacy_tx(ArgOf[r], n))
  PROVE  /\ mempool' \in SUBSET Tx
         /\ \A s, t \in mempool' : s.nonce = t.nonce => s = t
<1> DEFINE tx == legacy_tx(ArgOf[r], n)
<1>1. tx \in Tx
  BY DEF Tx, legacy_tx
<1> HIDE DEF tx
<1>2. mempool' = {m \in mempool : m.nonce # tx.nonce} \cup {tx}
  BY DEF Holding, tx
<1> QED
  BY <1>1, <1>2 DEF TypeOK

(* A word that a read brings.                                                   *)
LEMMA ReadStep ==
  ASSUME TypeOK, NEW r \in Calls, eth_call_bytes32(r)
  PROVE  calls' \in [Calls -> {Idle} \cup CallRecord]
<1> DEFINE pool == block(calls[r].finalized)
           nf == ArgOf[r].nullifier
           word == IF calls[r].op = "check" THEN nf \in pool.nullifierSpent
                                            ELSE pool.pendingMint[nf]
<1>1. calls' = [calls EXCEPT ![r] = [calls[r] EXCEPT !.step = "Ok", !.word = word]]
  BY DEF eth_call_bytes32
<1>2. pool \in Storage
  BY LatestAt DEF block, TypeOK
<1>3. nf \in Nullifiers
  BY ArgTypes
<1>4. CASE calls[r] \in CheckCall
  <2>0. calls[r].op = "check"
    BY <1>4 DEF CheckCall
  <2>1. word \in BOOLEAN
    BY <2>0, SMT
  <2> HIDE DEF word
  <2>2. [calls[r] EXCEPT !.step = "Ok", !.word = word] \in CheckCall
    BY <1>4, <2>1 DEF CheckCall, Results
  <2> QED
    BY <1>1, <2>2, CallPut
<1>5. CASE calls[r] \in ReadCall
  <2>1. word = pool.pendingMint[nf]
    BY <1>5 DEF ReadCall
  <2>2. word \in Words
    BY <1>2, <1>3, <2>1 DEF Storage
  <2> HIDE DEF word
  <2>3. [calls[r] EXCEPT !.step = "Ok", !.word = word] \in ReadCall
    BY <1>5, <2>2 DEF ReadCall, Results
  <2> QED
    BY <1>1, <2>3, CallPut
<1> QED
  BY <1>4, <1>5, CallShape DEF eth_call_bytes32

(* A step of a call leaves the chain alone.                                     *)
LEMMA CallSteps ==
  ASSUME TypeOK, NEW r \in Calls, Reply(r) \/ fail(r) \/ Persist(r) \/ Request(r)
  PROVE  /\ calls' \in [Calls -> {Idle} \cup CallRecord]
         /\ UNCHANGED chain /\ faults' \in 0..MaxFaults
         /\ mempool' \in SUBSET Tx
         /\ \A s, t \in mempool' : s.nonce = t.nonce => s = t
<1>0. /\ mempool \in SUBSET Tx /\ \A s, t \in mempool : s.nonce = t.nonce => s = t
      /\ faults \in 0..MaxFaults /\ MaxFaults \in Nat
  BY ChainAssumption DEF TypeOK
<1>1. CASE Persist(r) \/ Request(r)
  BY <1>0, <1>1, RequestSteps, CallStarts
<1>2. CASE eth_call_bytes32(r)
  BY <1>0, <1>2, ReadStep DEF eth_call_bytes32
<1>3. CASE evm_pubkey_sec1(r) \/ gas_price(r) \/ sign_with_ecdsa(r)
  <2>1. PICK await \in {"ecdsa_public_key", "eth_gasPrice", "sign_with_ecdsa"} :
           Arrives(r, await)
    BY <1>3 DEF evm_pubkey_sec1, gas_price, sign_with_ecdsa
  <2>2. /\ calls' = [calls EXCEPT ![r].step = After(await)]
        /\ UNCHANGED <<chain, mempool, faults>> /\ calls[r].step = await
    BY <2>1 DEF Arrives
  <2>3. await \in Steps /\ After(await) \in Steps
    BY AfterAwait
  <2> QED
    BY <1>0, <2>2, <2>3, StepPut
<1>4. CASE get_nonce(r)
  <2> DEFINE c == [calls[r] EXCEPT !.step = After("eth_getTransactionCount"),
                                   !.nonce = latest.nonce]
  <2>1. /\ calls' = [calls EXCEPT ![r] = c]
        /\ UNCHANGED <<chain, mempool, faults>>
    BY <1>4 DEF get_nonce
  <2>2. calls[r] \in SubmitCall /\ After("eth_getTransactionCount") \in Steps
    BY <1>4, CallShape, AfterAwait DEF get_nonce
  <2>3. latest.nonce \in Nat
    BY LatestAt DEF Storage
  <2>4. c \in SubmitCall
    BY <2>2, <2>3 DEF SubmitCall
  <2> QED
    BY <1>0, <2>1, <2>4, CallPut
<1>5. CASE send_raw_transaction(r) \/ fail(r)
  <2>1. PICK x \in Results : calls' = [calls EXCEPT ![r].step = x]
    BY <1>5 DEF send_raw_transaction, fail, Results
  <2>2. Pending(r) /\ UNCHANGED chain
    BY <1>5 DEF send_raw_transaction, fail, Pending
  <2>3. calls' \in [Calls -> {Idle} \cup CallRecord]
    BY <2>1, <2>2, StepPut
  <2>4. faults' \in 0..MaxFaults
    BY <1>0, <1>5 DEF send_raw_transaction, fail, Fault
  <2>5. \/ mempool' = mempool
        \/ /\ calls[r].step = "eth_sendRawTransaction"
           /\ mempool' = Holding(legacy_tx(ArgOf[r], calls[r].nonce))
    BY <1>5 DEF send_raw_transaction, fail
  <2>6. calls[r].step = "eth_sendRawTransaction" => calls[r].nonce \in Nat
    BY CallShape, AfterAwait DEF SubmitCall
  <2> QED
    BY <1>0, <2>2, <2>3, <2>4, <2>5, <2>6, HoldingType
<1> QED
  BY <1>1, <1>2, <1>3, <1>4, <1>5 DEF Reply

-----------------------------------------------------------------------------
(* What a step does to the chain, once for every action.                        *)
LEMMA ChainStep ==
  ASSUME TypeOK, ChainGrows, [Next]_vars
  PROVE  /\ final' \in Storage /\ head' \in Seq(Block) /\ Len(head') <= MaxDepth
         /\ \/ \E o \in {0, 1} : Keeps(o)
            \/ \E s \in Storage : \E txs \in SUBSET Tx :
                 /\ Adds(s, txs) /\ Sound(s) /\ Extends(latest, s)
                 /\ \A t \in txs : latest.nonce = t.nonce /\ t.nonce < s.nonce
                 /\ \A t, u \in txs : t = u
<1>0. latest \in Storage /\ Sound(latest) /\ final \in Storage
  <2>1. Len(head) \in 0..Len(head)
    BY DEF TypeOK
  <2> QED
    BY <2>1, LatestAt DEF ChainGrows, TypeOK
<1>a. ASSUME UNCHANGED chain
      PROVE  /\ final' \in Storage /\ head' \in Seq(Block) /\ Len(head') <= MaxDepth
             /\ Keeps(0)
  BY <1>0, <1>a, UnchangedKeeps
<1>b. ASSUME NEW s \in Storage, Sound(s), Extends(latest, s), MineBlock(s, {})
      PROVE  /\ final' \in Storage /\ head' \in Seq(Block) /\ Len(head') <= MaxDepth
             /\ Adds(s, {})
  BY <1>0, <1>b, MineAdds
<1>1. CASE \E nf \in Burned : Burn(nf)
  <2> PICK nf \in Burned : Burn(nf)
    BY <1>1
  <2> DEFINE q == [latest EXCEPT !.nullifierSpent = @ \cup {nf}]
  <2>1. q \in Storage /\ Sound(q) /\ Extends(latest, q)
    BY <1>0, SpentState, EvmLegAssumption
  <2>2. MineBlock(q, {})
    BY DEF Burn
  <2> HIDE DEF q
  <2> QED
    BY <1>b, <2>1, <2>2
<1>2. CASE \E nf \in Claimed : Mint(nf)
  <2> PICK nf \in Claimed : Mint(nf)
    BY <1>2
  <2> DEFINE q == mintFromXburn(latest, nf)
  <2>1. q \in Storage /\ Sound(q) /\ Extends(latest, q)
    BY <1>0, MintedState, EvmLegAssumption
  <2>2. MineBlock(q, {})
    BY DEF Mint
  <2> HIDE DEF q
  <2> QED
    BY <1>b, <2>1, <2>2
<1>3. CASE Attest
  <2> PICK tx \in mempool : /\ tx.nonce = latest.nonce
                            /\ MineBlock(addPending(latest, tx.arg), {tx})
    BY <1>3 DEF Attest
  <2>1. tx \in Tx
    BY DEF TypeOK
  <2>2. PICK r \in Calls : tx.arg = ArgOf[r]
    BY <2>1 DEF Tx
  <2> DEFINE q == addPending(latest, tx.arg)
  <2>3. /\ q \in Storage /\ Sound(q) /\ Extends(latest, q)
        /\ q.nonce = latest.nonce + 1
    BY <1>0, <2>2, AttestedState
  <2>4. latest.nonce \in Nat
    BY <1>0 DEF Storage
  <2> HIDE DEF q
  <2>5. /\ Adds(q, {tx}) /\ final' = final
        /\ head' \in Seq(Block) /\ Len(head') <= MaxDepth
    BY <2>1, <2>3, MineAdds DEF q
  <2>6. \A t \in {tx} : latest.nonce = t.nonce /\ t.nonce < q.nonce
    BY <2>3, <2>4
  <2> QED
    BY <1>0, <2>1, <2>3, <2>5, <2>6
<1>4. CASE Finalize
  BY <1>4, FinalizeKeeps DEF Finalize
<1>5. CASE Reorg
  BY <1>0, <1>5, AbandonKeeps DEF Reorg
<1>6. CASE Evict
  BY <1>6, <1>a DEF Evict
<1>7. CASE Returns \/ (\E r \in Operators : Persist(r))
             \/ (\E r \in Calls \ Operators : calls[r] = Idle /\ Request(r))
  BY <1>7, <1>a, CallSteps, EvmLegAssumption DEF Returns
<1>8. CASE UNCHANGED vars
  BY <1>8, <1>a DEF vars, chain
<1> QED
  BY <1>1, <1>2, <1>3, <1>4, <1>5, <1>6, <1>7, <1>8 DEF Next, Chain

(* The chain keeps growing: what is abandoned or finalized leaves a stretch of   *)
(* it, and a new block extends the latest.                                       *)
LEMMA ChainGrowsStep ==
  ASSUME TypeOK, ChainGrows, [Next]_vars
  PROVE  ChainGrows'
<1>0. /\ Len(head) \in Nat /\ Len(head') \in Nat
      /\ latest = At(Len(head)) /\ latest \in Storage
      /\ \A i \in 0..Len(head) : At(i) \in Storage
  BY LatestAt, ChainStep DEF TypeOK
<1>1. ASSUME NEW o \in {0, 1}, Keeps(o) PROVE ChainGrows'
  <2>1. \A i \in 0..Len(head') : i + o \in 0..Len(head) /\ At(i)' = At(i + o)
    BY <1>0, <1>1 DEF Keeps
  <2>2. \A i, j \in 0..Len(head') : i <= j => Extends(At(i)', At(j)')
    <3> TAKE i, j \in 0..Len(head')
    <3>1. i <= j => i + o <= j + o
      BY <1>0
    <3> QED
      BY <2>1, <3>1 DEF ChainGrows
  <2>3. \A i \in 0..Len(head') : Sound(At(i)')
    BY <2>1 DEF ChainGrows
  <2> QED
    BY <2>2, <2>3 DEF ChainGrows, Extends, Sound
<1>2. ASSUME NEW s \in Storage, NEW txs, Adds(s, txs), Sound(s), Extends(latest, s)
      PROVE  ChainGrows'
  <2>1. /\ Len(head') = Len(head) + 1
        /\ \A i \in 0..Len(head') : At(i)' = IF i = Len(head') THEN s ELSE At(i)
    BY <1>2 DEF Adds
  <2>2. \A i \in 0..Len(head') : i = Len(head') \/ i \in 0..Len(head)
    BY <1>0, <2>1
  <2>3. \A i \in 0..Len(head') : At(i)' \in Storage
    BY <1>0, <2>1, <2>2
  <2>4. \A i \in 0..Len(head) : Extends(At(i), latest)
    BY <1>0 DEF ChainGrows
  <2>5. ASSUME NEW i \in 0..Len(head'), NEW j \in 0..Len(head'), i <= j
        PROVE  Extends(At(i)', At(j)')
    <3>1. CASE j = Len(head') /\ i = Len(head')
      BY <2>1, <3>1, ExtendsRefl
    <3>2. CASE j = Len(head') /\ i # Len(head')
      <4>1. i \in 0..Len(head) /\ At(i)' = At(i) /\ At(j)' = s
        BY <2>1, <2>2, <3>2
      <4> QED
        BY <1>0, <1>2, <2>4, <4>1, ExtendsTrans
    <3>3. CASE j # Len(head')
      <4>1. i \in 0..Len(head) /\ j \in 0..Len(head) /\ At(i)' = At(i) /\ At(j)' = At(j)
        BY <1>0, <2>1, <2>2, <2>5, <3>3
      <4> QED
        BY <2>5, <4>1 DEF ChainGrows
    <3> QED
      BY <3>1, <3>2, <3>3
  <2>6. \A i \in 0..Len(head') : Sound(At(i)')
    BY <1>2, <2>1, <2>2 DEF ChainGrows
  <2> QED
    BY <2>5, <2>6 DEF ChainGrows, Extends, Sound
<1> QED
  BY <1>1, <1>2, ChainStep

(* The attestor's transactions stay in the order of their nonces.               *)
LEMMA TxsInOrderStep ==
  ASSUME TypeOK, ChainGrows, TxsInOrder, [Next]_vars
  PROVE  TxsInOrder'
<1>0. /\ Len(head) \in Nat /\ Len(head') \in Nat
      /\ DOMAIN head = 1..Len(head) /\ DOMAIN head' = 1..Len(head')
      /\ latest = At(Len(head))
  BY LatestAt, ChainStep DEF TypeOK
<1>a. SUFFICES ASSUME NEW j \in DOMAIN head'
               PROVE  /\ \A t \in head'[j].txs :
                           At(j - 1)'.nonce = t.nonce /\ t.nonce < At(j)'.nonce
                      /\ \A t, u \in head'[j].txs : t = u
  BY DEF TxsInOrder
<1>b. j \in 0..Len(head') /\ j - 1 \in 0..Len(head')
  BY <1>0
<1>1. ASSUME NEW o \in {0, 1}, Keeps(o)
      PROVE  /\ \A t \in head'[j].txs :
                  At(j - 1)'.nonce = t.nonce /\ t.nonce < At(j)'.nonce
             /\ \A t, u \in head'[j].txs : t = u
  <2>1. /\ j + o \in DOMAIN head /\ head'[j] = head[j + o]
        /\ At(j)' = At(j + o) /\ At(j - 1)' = At((j - 1) + o)
    BY <1>1, <1>b DEF Keeps
  <2>2. (j - 1) + o = (j + o) - 1
    BY <1>b
  <2> QED
    BY <2>1, <2>2 DEF TxsInOrder
<1>2. ASSUME NEW s, NEW txs, Adds(s, txs),
             \A t \in txs : latest.nonce = t.nonce /\ t.nonce < s.nonce,
             \A t, u \in txs : t = u
      PROVE  /\ \A t \in head'[j].txs :
                  At(j - 1)'.nonce = t.nonce /\ t.nonce < At(j)'.nonce
             /\ \A t, u \in head'[j].txs : t = u
  <2>1. /\ Len(head') = Len(head) + 1
        /\ \A i \in 0..Len(head') : At(i)' = IF i = Len(head') THEN s ELSE At(i)
        /\ head'[j] = IF j = Len(head') THEN [state |-> s, txs |-> txs] ELSE head[j]
    BY <1>2 DEF Adds
  <2>2. j - 1 # Len(head') /\ At(j - 1)' = At(j - 1)
    BY <1>0, <1>b, <2>1
  <2>3. CASE j = Len(head')
    <3>1. j - 1 = Len(head) /\ At(j)' = s /\ head'[j].txs = txs
      BY <1>0, <1>b, <2>1, <2>3
    <3> QED
      BY <1>0, <1>2, <2>2, <3>1
  <2>4. CASE j # Len(head')
    <3>1. j \in DOMAIN head /\ At(j)' = At(j) /\ head'[j] = head[j]
      BY <1>0, <1>b, <2>1, <2>4
    <3> QED
      BY <2>2, <3>1 DEF TxsInOrder
  <2> QED
    BY <2>3, <2>4
<1> QED
  BY <1>1, <1>2, ChainStep

(* No two transactions of the blocks have one nonce.                            *)
LEMMA TxsDistinct ==
  ASSUME TypeOK, ChainGrows, TxsInOrder,
         NEW i \in DOMAIN head, NEW j \in DOMAIN head,
         NEW s \in head[i].txs, NEW t \in head[j].txs, s.nonce = t.nonce
  PROVE  s = t
<1>0. /\ Len(head) \in Nat /\ DOMAIN head = 1..Len(head)
      /\ \A k \in 0..Len(head) : At(k).nonce \in Nat
  BY LatestAt DEF TypeOK, Storage
<1>1. ASSUME NEW k \in DOMAIN head, NEW m \in DOMAIN head, k < m,
             NEW x \in head[k].txs, NEW y \in head[m].txs, x.nonce = y.nonce
      PROVE  FALSE
  <2>1. /\ k \in 0..Len(head) /\ m - 1 \in 0..Len(head) /\ k <= m - 1
        /\ k - 1 \in 0..Len(head)
    BY <1>0, <1>1
  <2>2. At(k).nonce <= At(m - 1).nonce
    BY <2>1 DEF ChainGrows, Extends
  <2>3. At(m - 1).nonce = y.nonce /\ x.nonce < At(k).nonce /\ x.nonce = At(k - 1).nonce
    BY <1>1 DEF TxsInOrder
  <2> QED
    BY <1>0, <1>1, <2>1, <2>2, <2>3
<1>2. CASE i = j
  BY <1>2 DEF TxsInOrder
<1>3. CASE i # j
  <2>1. i < j \/ j < i
    BY <1>0, <1>3
  <2> QED
    BY <1>1, <2>1
<1> QED
  BY <1>2, <1>3

(* The node never holds two transactions with one nonce.                        *)
LEMMA MempoolStep ==
  ASSUME TypeOK, ChainGrows, TxsInOrder, [Next]_vars
  PROVE  /\ mempool' \in SUBSET Tx
         /\ \A s, t \in mempool' : s.nonce = t.nonce => s = t
         /\ calls' \in [Calls -> {Idle} \cup CallRecord]
         /\ faults' \in 0..MaxFaults
<1>0. /\ mempool \in SUBSET Tx /\ \A s, t \in mempool : s.nonce = t.nonce => s = t
      /\ calls \in [Calls -> {Idle} \cup CallRecord]
      /\ faults \in 0..MaxFaults /\ MaxFaults \in Nat
      /\ head \in Seq(Block) /\ DOMAIN head = 1..Len(head) /\ Len(head) \in Nat
  BY ChainAssumption DEF TypeOK, Block
<1>1. CASE (\E nf \in Burned : Burn(nf)) \/ (\E nf \in Claimed : Mint(nf))
             \/ Attest \/ Finalize
  <2>1. mempool' \subseteq mempool /\ UNCHANGED <<calls, faults>>
    BY <1>1 DEF Burn, Mint, Attest, Finalize, MineBlock, FinalizeBlock
  <2> QED
    BY <1>0, <2>1
<1>2. CASE Evict
  <2>1. mempool' \subseteq mempool /\ calls' = calls
    BY <1>2 DEF Evict
  <2>2. faults' \in 0..MaxFaults
    BY <1>0, <1>2 DEF Evict, Fault
  <2> QED
    BY <1>0, <2>1, <2>2
<1>3. CASE Reorg
  <2>1. PICK n \in 0..Len(head) - 1 : \E kept \in SUBSET
             {tx \in TxsAfter(n) : \A m \in mempool : m.nonce # tx.nonce} :
               mempool' = mempool \cup kept
    BY <1>3 DEF Reorg
  <2>2. PICK kept : /\ mempool' = mempool \cup kept
                    /\ kept \subseteq TxsAfter(n)
                    /\ \A x \in kept : \A m \in mempool : m.nonce # x.nonce
    BY <2>1
  <2>3. \A x \in kept : \E i \in DOMAIN head : x \in head[i].txs
    <3>1. n + 1..Len(head) \subseteq DOMAIN head
      BY <1>0
    <3> QED
      BY <2>2, <3>1 DEF TxsAfter
  <2>4. kept \subseteq Tx
    <3>1. \A i \in DOMAIN head : head[i] \in Block
      BY <1>0
    <3>2. \A i \in DOMAIN head : head[i].txs \subseteq Tx
      BY <3>1 DEF Block
    <3> QED
      BY <2>3, <3>2
  <2>5. \A x, y \in kept : x.nonce = y.nonce => x = y
    BY <2>3, TxsDistinct
  <2>6. faults' \in 0..MaxFaults /\ calls' = calls
    BY <1>0, <1>3 DEF Reorg, Fault
  <2> QED
    BY <1>0, <2>2, <2>4, <2>5, <2>6
<1>4. CASE Returns \/ (\E r \in Operators : Persist(r))
             \/ (\E r \in Calls \ Operators : calls[r] = Idle /\ Request(r))
  BY <1>4, CallSteps, EvmLegAssumption DEF Returns
<1>5. CASE UNCHANGED vars
  BY <1>0, <1>5 DEF vars
<1> QED
  BY <1>1, <1>2, <1>3, <1>4, <1>5 DEF Next, Chain

(* TypeOK with what it needs is an invariant.                                    *)
LEMMA ChainInvariant == Spec => [](TypeOK /\ ChainGrows /\ TxsInOrder)
<1>1. Init => TypeOK /\ ChainGrows /\ TxsInOrder
  <2> SUFFICES ASSUME Init PROVE TypeOK /\ ChainGrows /\ TxsInOrder
    OBVIOUS
  <2>1. /\ final = Genesis /\ Genesis \in Storage /\ head = <<>> /\ Len(head) = 0
        /\ DOMAIN head = {}
    BY DEF Init, Genesis, Storage, Words
  <2>2. TypeOK
    BY <2>1, ChainAssumption DEF Init, TypeOK
  <2>3. \A i \in 0..Len(head) : At(i) = Genesis
    BY <2>1 DEF At
  <2>4. Sound(Genesis)
    BY DEF Sound, Genesis
  <2>5. ChainGrows
    BY <2>1, <2>3, <2>4, ExtendsRefl DEF ChainGrows
  <2>6. TxsInOrder
    BY <2>1 DEF TxsInOrder
  <2> QED
    BY <2>2, <2>5, <2>6
<1>2. TypeOK /\ ChainGrows /\ TxsInOrder /\ [Next]_vars
      => TypeOK' /\ ChainGrows' /\ TxsInOrder'
  <2> SUFFICES ASSUME TypeOK, ChainGrows, TxsInOrder, [Next]_vars PROVE TypeOK'
    BY ChainGrowsStep, TxsInOrderStep
  <2>1. final' \in Storage /\ head' \in Seq(Block) /\ Len(head') <= MaxDepth
    BY ChainStep
  <2> QED
    BY <2>1, MempoolStep DEF TypeOK, Block
<1> QED
  BY <1>1, <1>2, PTL DEF Spec

(* Type correctness, for any number of calls and faults; with it, that the node  *)
(* never holds two of the attestor's transactions with one nonce, also after a    *)
(* reorganisation: the ones it takes back are of different blocks, and their      *)
(* nonces are in the order of the blocks (TxsInOrder).                            *)
THEOREM EvmLegTypeCorrect == Spec => []TypeOK
BY ChainInvariant, PTL

(* However late an attestation is mined, or mined again on another fork, no block *)
(* has an entry for a minted note.                                                *)
THEOREM MintedStays == Spec => []MintedStaysMinted
<1>1. TypeOK /\ ChainGrows /\ TxsInOrder => MintedStaysMinted
  <2> SUFFICES ASSUME TypeOK, ChainGrows, NEW pool \in States, NEW nf \in pool.minted
               PROVE  pool.pendingMint[nf] = NotPending
    BY DEF MintedStaysMinted
  <2>1. pool \in Storage /\ Sound(pool)
    BY LatestAt DEF ChainGrows
  <2> QED
    BY <2>1 DEF Sound, Storage
<1> QED
  BY <1>1, ChainInvariant, PTL

-----------------------------------------------------------------------------
(* A call gets its answer from eth_call only; a submission has no answer.        *)
LEMMA AnswersFromReads ==
  ASSUME TypeOK, [Next]_vars, NEW r \in Calls
  PROVE  \/ calls'[r] = calls[r]
         \/ eth_call_bytes32(r)
         \/ calls'[r].step # "Ok"
         \/ calls'[r].op = "submit"
<1>0. calls \in [Calls -> {Idle} \cup CallRecord]
  BY DEF TypeOK
<1>1. CASE Chain \/ UNCHANGED vars
  BY <1>1 DEF Chain, Burn, Mint, Attest, Finalize, Reorg, Evict, vars
<1>2. ASSUME NEW q \in Calls, q # r, Reply(q) \/ fail(q) \/ Persist(q) \/ Request(q)
      PROVE  calls'[r] = calls[r]
  <2>1. CASE Reply(q) \/ fail(q)
    BY <1>0, <1>2, <2>1
    DEF Reply, eth_call_bytes32, evm_pubkey_sec1, get_nonce, gas_price, sign_with_ecdsa,
        Arrives, send_raw_transaction, fail
  <2>2. CASE Persist(q) \/ Request(q)
    <3>1. PICK f \in BOOLEAN :
            submit_add_pending(q) \/ check_nullifier_spent(q, f) \/ read_pending_mint(q, f)
      BY <2>2, RequestSteps
    <3> QED
      BY <1>0, <1>2, <3>1
      DEF submit_add_pending, check_nullifier_spent, read_pending_mint, Start
  <2> QED
    BY <1>2, <2>1, <2>2
<1>3. CASE Persist(r) \/ Request(r)
  <2>1. PICK f \in BOOLEAN :
          submit_add_pending(r) \/ check_nullifier_spent(r, f) \/ read_pending_mint(r, f)
    BY <1>3, RequestSteps
  <2>2. calls'[r].step \in {"ecdsa_public_key", "eth_call"}
    BY <1>0, <2>1 DEF submit_add_pending, check_nullifier_spent, read_pending_mint, Start
  <2> QED
    BY <2>2
<1>4. CASE evm_pubkey_sec1(r) \/ gas_price(r) \/ sign_with_ecdsa(r) \/ get_nonce(r)
             \/ send_raw_transaction(r)
  <2>1. calls[r].step \in Steps
    BY <1>4, AfterAwait DEF evm_pubkey_sec1, gas_price, sign_with_ecdsa, Arrives,
       get_nonce, send_raw_transaction
  <2>2. calls[r] \in SubmitCall
    BY <2>1, CallShape
  <2>3. \E x, n : \/ calls' = [calls EXCEPT ![r].step = x]
                  \/ calls' = [calls EXCEPT ![r].step = x, ![r].nonce = n]
    BY <1>4 DEF evm_pubkey_sec1, gas_price, sign_with_ecdsa, Arrives,
       get_nonce, send_raw_transaction
  <2>4. calls'[r].op = "submit"
    BY <1>0, <2>2, <2>3 DEF SubmitCall
  <2> QED
    BY <2>4
<1>5. CASE fail(r)
  <2>1. calls[r] \in SubmitCall \/ calls[r] \in CheckCall \/ calls[r] \in ReadCall
    BY <1>5, CallShape DEF fail
  <2>2. calls'[r] = [calls[r] EXCEPT !.step = "Err"]
    BY <1>0, <1>5 DEF fail
  <2>3. calls'[r].step = "Err"
    BY <2>1, <2>2 DEF SubmitCall, CheckCall, ReadCall
  <2> QED
    BY <2>3
<1> QED
  BY <1>1, <1>2, <1>3, <1>4, <1>5, EvmLegAssumption DEF Next, Returns, Reply

\* The answer of a call is true of a state of the chain.
Stands(r, pool) ==
  /\ calls[r].op = "check" /\ calls[r].word => ArgOf[r].nullifier \in pool.nullifierSpent
  /\ calls[r].op = "read" /\ calls[r].word # NotPending =>
       \/ pool.pendingMint[ArgOf[r].nullifier] # NotPending
       \/ ArgOf[r].nullifier \in pool.minted

(* An entry is one that a call named.                                             *)
LEMMA SoundEntries ==
  ASSUME NEW pool, Sound(pool), NEW nf \in Nullifiers, pool.pendingMint[nf] # NotPending
  PROVE  pool.pendingMint[nf] \in Named(nf)
<1>1. PICK c \in Calls : ArgOf[c] = [nullifier |-> nf, dest |-> pool.pendingMint[nf]]
  BY DEF Sound
<1>2. ArgOf[c].nullifier = nf /\ ArgOf[c].dest = pool.pendingMint[nf]
  BY <1>1
<1> QED
  BY <1>2 DEF Named

(* An answer that is true of a state is true of the ones that extend it.          *)
LEMMA StandsFurther ==
  ASSUME NEW r \in Calls, NEW p, NEW q, Stands(r, p), Extends(p, q)
  PROVE  Stands(r, q)
<1>1. ArgOf[r].nullifier \in Nullifiers
  BY ArgTypes
<1> QED
  BY <1>1 DEF Stands, Extends

(* An answer from the finalized block is true of every state of the chain, which  *)
(* all extend it.                                                                 *)
LEMMA ReadStands ==
  ASSUME TypeOK, ChainGrows, NEW r \in Calls, eth_call_bytes32(r), calls[r].finalized,
         NEW pool \in States
  PROVE  Stands(r, pool)'
<1> DEFINE nf == ArgOf[r].nullifier
<1>0. calls \in [Calls -> {Idle} \cup CallRecord] /\ nf \in Nullifiers
  BY ArgTypes DEF TypeOK
<1>1. block(calls[r].finalized) = final
  BY DEF block
<1>2. Extends(final, pool)
  <2>1. PICK i \in 0..Len(head) : pool = At(i)
    BY LatestAt
  <2>2. 0 \in 0..Len(head) /\ 0 <= i /\ At(0) = final
    BY DEF TypeOK, At
  <2> QED
    BY <2>1, <2>2 DEF ChainGrows
<1>3. CASE calls[r] \in CheckCall
  <2>1. calls[r].op = "check"
    BY <1>3 DEF CheckCall
  <2>2. calls'[r] = [calls[r] EXCEPT !.step = "Ok", !.word = (nf \in final.nullifierSpent)]
    BY <1>0, <1>1, <2>1 DEF eth_call_bytes32
  <2>3. calls'[r].op = "check" /\ (calls'[r].word => nf \in final.nullifierSpent)
    BY <1>3, <2>2 DEF CheckCall
  <2> QED
    BY <1>2, <2>3 DEF Stands, Extends
<1>4. CASE calls[r] \in ReadCall
  <2>1. calls[r].op = "read"
    BY <1>4 DEF ReadCall
  <2>2. calls'[r] = [calls[r] EXCEPT !.step = "Ok", !.word = final.pendingMint[nf]]
    BY <1>0, <1>1, <2>1 DEF eth_call_bytes32
  <2>3. calls'[r].op = "read" /\ calls'[r].word = final.pendingMint[nf]
    BY <1>4, <2>2 DEF ReadCall
  <2> QED
    BY <1>0, <1>2, <2>3 DEF Stands, Extends
<1> QED
  BY <1>3, <1>4, CallShape DEF eth_call_bytes32

\* The states of a chain are the ones after its blocks.
ChainStates == States = {At(i) : i \in 0..Len(head)}

(* LatestAt, as a fact about every state of a behaviour.                          *)
LEMMA StatesAt == TypeOK => ChainStates
BY LatestAt DEF ChainStates

\* A call has answered from the finalized block; such answers are true of the chain.
Reported(r) == calls[r].step = "Ok" /\ calls[r].op # "submit" /\ calls[r].finalized
AnswersHold == \A r \in Calls : Reported(r) => \A pool \in States : Stands(r, pool)

(* What the canister answers from the finalized block stands, for any depth of    *)
(* the chain, any number of reorganisations and any callers: the states that are   *)
(* not final extend the final one (ChainGrows), an answer that is true of a state   *)
(* is true of what extends it, blocks are only added to the latest or taken away,    *)
(* and an entry holds what some call named (Sound).                                  *)
THEOREM AnswersStand == Spec => []FinalizedAnswersStand
<1>1. Init => AnswersHold
  <2> SUFFICES ASSUME Init, NEW r \in Calls PROVE calls[r].step # "Ok"
    BY DEF AnswersHold, Reported
  <2> QED
    BY DEF Init, Idle
<1>2. TypeOK /\ ChainGrows /\ TxsInOrder /\ TypeOK' /\ ChainStates'
      /\ AnswersHold /\ [Next]_vars
      => AnswersHold'
  <2> SUFFICES ASSUME TypeOK, ChainGrows, TypeOK', ChainStates', AnswersHold,
                      [Next]_vars,
                      NEW r \in Calls, Reported(r)', NEW pool \in States'
               PROVE  Stands(r, pool)'
    BY DEF AnswersHold
  <2> USE DEF Reported
  <2>0. ASSUME Reported(r), NEW p \in States PROVE Stands(r, p)
    BY <2>0 DEF AnswersHold
  <2>1. CASE eth_call_bytes32(r)
    <3>1. States' = States
      BY <2>1 DEF eth_call_bytes32, chain, States
    <3>2. calls[r].finalized
      <4>1. calls[r] \in CheckCall \/ calls[r] \in ReadCall
        BY <2>1, CallShape DEF eth_call_bytes32
      <4>2. \E w : calls'[r] = [calls[r] EXCEPT !.step = "Ok", !.word = w]
        BY <2>1 DEF eth_call_bytes32, TypeOK
      <4>3. calls'[r].finalized = calls[r].finalized
        BY <4>1, <4>2 DEF CheckCall, ReadCall
      <4> QED
        BY <4>3
    <3> QED
      BY <2>1, <3>1, <3>2, ReadStands
  <2>2. CASE calls'[r] = calls[r]
    <3>1. \A p : Stands(r, p)' <=> Stands(r, p)
      BY <2>2 DEF Stands
    <3>2. \A p \in States : Stands(r, p)
      BY <2>0, <2>2
    <3>3. /\ States = {At(i) : i \in 0..Len(head)} /\ latest \in States
          /\ Len(head) \in Nat /\ Len(head') \in Nat
      BY LatestAt DEF TypeOK
    <3>4. PICK i \in 0..Len(head') : pool = At(i)'
      BY DEF ChainStates
    <3>5. ASSUME NEW o \in {0, 1}, Keeps(o) PROVE Stands(r, pool)
      <4>1. i + o \in 0..Len(head) /\ pool = At(i + o)
        BY <3>3, <3>4, <3>5 DEF Keeps
      <4> QED
        BY <3>2, <3>3, <4>1
    <3>6. ASSUME NEW s, NEW txs, Adds(s, txs), Extends(latest, s) PROVE Stands(r, pool)
      <4>1. CASE i = Len(head')
        <5>1. pool = s
          BY <3>4, <3>6, <4>1 DEF Adds
        <5> QED
          BY <3>2, <3>3, <3>6, <5>1, StandsFurther
      <4>2. CASE i # Len(head')
        <5>1. i \in 0..Len(head) /\ pool = At(i)
          BY <3>3, <3>4, <3>6, <4>2 DEF Adds
        <5> QED
          BY <3>2, <3>3, <5>1
      <4> QED
        BY <4>1, <4>2
    <3> QED
      BY <3>1, <3>5, <3>6, ChainStep
  <2> QED
    BY <2>1, <2>2, AnswersFromReads
<1>3. TypeOK /\ ChainGrows /\ ChainStates /\ AnswersHold => FinalizedAnswersStand
  <2> SUFFICES ASSUME TypeOK, ChainGrows, ChainStates, AnswersHold, NEW r \in Calls,
                      Reported(r), NEW pool \in States
               PROVE  LET nf == ArgOf[r].nullifier IN
                      /\ calls[r].op = "check" /\ calls[r].word => nf \in pool.nullifierSpent
                      /\ calls[r].op = "read" /\ calls[r].word # NotPending =>
                           pool.pendingMint[nf] \in Named(nf) \/ nf \in pool.minted
    BY DEF FinalizedAnswersStand, Reported
  <2>1. Stands(r, pool) /\ ArgOf[r].nullifier \in Nullifiers
    BY ArgTypes DEF AnswersHold
  <2>2. Sound(pool)
    BY DEF ChainGrows, ChainStates
  <2>3. pool.pendingMint[ArgOf[r].nullifier] # NotPending =>
          pool.pendingMint[ArgOf[r].nullifier] \in Named(ArgOf[r].nullifier)
    BY <2>1, <2>2, SoundEntries
  <2> QED
    BY <2>1, <2>3 DEF Stands
<1> QED
  BY <1>1, <1>2, <1>3, StatesAt, ChainInvariant, PTL DEF Spec

-----------------------------------------------------------------------------
(* Submissions to Solana see a chain of the same kind: SolanaSubmit, over the same *)
(* variables, with the transactions that the cluster holds in place of a mempool.  *)
VARIABLE sent

Sol == INSTANCE SolanaSubmit

Args == {ArgOf[r] : r \in Calls}
SolBlock == [state : Sol!Entries, txs : SUBSET Args]
SolSteps == {Sol!Awaits[i] : i \in DOMAIN Sol!Awaits} \cup {"idle", "Ok", "Err"}

\* The account has one entry for a nullifier.
Distinct(entries) ==
  \A i, j \in DOMAIN entries : entries[i].nullifier = entries[j].nullifier => i = j

(* The states of the chain are lists of entries, the latest is one of them.       *)
LEMMA SolStates ==
  ASSUME Sol!TypeOK
  PROVE  /\ head \in Seq(SolBlock) /\ Len(head) \in Nat /\ DOMAIN head = 1..Len(head)
         /\ Sol!latest \in Sol!States /\ Sol!States \subseteq Sol!Entries
<1>1. /\ head \in Seq(SolBlock) /\ Len(head) \in Nat /\ DOMAIN head = 1..Len(head)
      /\ final \in Sol!Entries
  BY DEF Sol!TypeOK, SolBlock, Args
<1>2. \A i \in DOMAIN head : head[i].state \in Sol!Entries
  <2>1. \A i \in DOMAIN head : head[i] \in SolBlock
    BY <1>1
  <2> QED
    BY <2>1 DEF SolBlock
<1>3. Sol!latest \in Sol!States
  <2>1. CASE head = <<>>
    BY <2>1 DEF Sol!latest, Sol!States
  <2>2. CASE head # <<>>
    <3>1. Len(head) \in DOMAIN head
      BY <1>1, <2>2
    <3> QED
      BY <2>2, <3>1 DEF Sol!latest, Sol!States, Sol!Last
  <2> QED
    BY <2>1, <2>2
<1> QED
  BY <1>1, <1>2, <1>3 DEF Sol!States

(* What the chain may become: well typed, and with the states it had and one more. *)
SolGrows(new) ==
  /\ final' \in Sol!Entries /\ head' \in Seq(SolBlock) /\ Len(head') <= MaxDepth
  /\ \A s \in Sol!States' : s \in Sol!States \cup new

(* A block with one more state.                                                    *)
LEMMA SolMined ==
  ASSUME Sol!TypeOK, NEW s \in Sol!Entries, NEW txs \in SUBSET Args, Sol!MineBlock(s, txs)
  PROVE  SolGrows({s}) /\ faults' = faults
<1> DEFINE b == [state |-> s, txs |-> txs]
<1>1. /\ head \in Seq(SolBlock) /\ Len(head) \in Nat /\ DOMAIN head = 1..Len(head)
      /\ Len(head) < MaxDepth /\ head' = Append(head, b) /\ final' = final
      /\ final \in Sol!Entries /\ faults' = faults
  BY SolStates DEF Sol!MineBlock, Sol!TypeOK
<1>2. b \in SolBlock /\ b.state = s
  BY DEF SolBlock
<1> HIDE DEF b
<1>3. /\ head' \in Seq(SolBlock) /\ Len(head') = Len(head) + 1
      /\ DOMAIN head' = 1..Len(head) + 1
      /\ \A i \in 1..Len(head) : head'[i] = head[i]
      /\ head'[Len(head) + 1] = b
  BY <1>1, <1>2
<1>4. ASSUME NEW i \in DOMAIN head' PROVE head'[i].state \in Sol!States \cup {s}
  <2>1. CASE i \in DOMAIN head
    BY <1>1, <1>3, <2>1 DEF Sol!States
  <2>2. CASE i \notin DOMAIN head
    <3>1. i = Len(head) + 1
      BY <1>1, <1>3, <2>2
    <3> QED
      BY <1>2, <1>3, <3>1
  <2> QED
    BY <2>1, <2>2
<1>5. Len(head') <= MaxDepth
  BY <1>1, <1>3, ChainAssumption
<1>6. \A x \in Sol!States' : x = final' \/ \E i \in DOMAIN head' : x = head'[i].state
  BY DEF Sol!States
<1> QED
  BY <1>1, <1>3, <1>4, <1>5, <1>6 DEF SolGrows, Sol!States

(* A block becomes final.                                                          *)
LEMMA SolFinalized ==
  ASSUME Sol!TypeOK, Sol!FinalizeBlock
  PROVE  SolGrows({}) /\ faults' = faults
<1>1. /\ head \in Seq(SolBlock) /\ Len(head) \in Nat /\ DOMAIN head = 1..Len(head)
      /\ Len(head) <= MaxDepth /\ head # <<>> /\ Sol!States \subseteq Sol!Entries
      /\ final' = head[1].state /\ head' = Tail(head) /\ faults' = faults
  BY SolStates DEF Sol!FinalizeBlock, Sol!TypeOK
<1>2. /\ Len(head) >= 1
      /\ head' \in Seq(SolBlock) /\ Len(head') = Len(head) - 1
      /\ DOMAIN head' = 1..Len(head) - 1
      /\ \A i \in 1..Len(head) - 1 : head'[i] = head[i + 1]
  BY <1>1
<1>3. final' \in Sol!States
  BY <1>1, <1>2 DEF Sol!States
<1>4. \A i \in DOMAIN head' : head'[i].state \in Sol!States
  <2>1. \A i \in DOMAIN head' : i + 1 \in DOMAIN head /\ head'[i] = head[i + 1]
    BY <1>1, <1>2
  <2> QED
    BY <2>1 DEF Sol!States
<1>5. Len(head') <= MaxDepth
  BY <1>1, <1>2, ChainAssumption
<1>6. \A x \in Sol!States' : x = final' \/ \E i \in DOMAIN head' : x = head'[i].state
  BY DEF Sol!States
<1> QED
  BY <1>1, <1>2, <1>3, <1>4, <1>5, <1>6 DEF SolGrows

(* The last blocks are abandoned; their transactions are of calls.                 *)
LEMMA SolAbandoned ==
  ASSUME Sol!TypeOK, NEW n \in 0..Len(head) - 1, Sol!Abandon(n)
  PROVE  SolGrows({}) /\ Sol!TxsAfter(n) \subseteq Args
<1>1. /\ head \in Seq(SolBlock) /\ Len(head) \in Nat /\ DOMAIN head = 1..Len(head)
      /\ Len(head) <= MaxDepth /\ final' = final /\ head' = SubSeq(head, 1, n)
      /\ final \in Sol!Entries
  BY SolStates DEF Sol!Abandon, Sol!TypeOK
<1>2. /\ head' \in Seq(SolBlock) /\ Len(head') = n /\ DOMAIN head' = 1..n
      /\ \A i \in 1..n : head'[i] = head[i]
  BY <1>1
<1>3. \A i \in DOMAIN head' : i \in DOMAIN head /\ head'[i] = head[i]
  BY <1>1, <1>2
<1>4. \A i \in n + 1..Len(head) : head[i].txs \subseteq Args
  <2>1. \A i \in n + 1..Len(head) : head[i] \in SolBlock
    BY <1>1
  <2> QED
    BY <2>1 DEF SolBlock
<1>5. Len(head') <= MaxDepth
  BY <1>1, <1>2, ChainAssumption
<1>6. \A x \in Sol!States' : x = final' \/ \E i \in DOMAIN head' : x = head'[i].state
  BY DEF Sol!States
<1>7. SolGrows({})
  BY <1>1, <1>2, <1>3, <1>5, <1>6 DEF SolGrows, Sol!States
<1> QED
  BY <1>4, <1>7 DEF Sol!TxsAfter

(* A call of the canister or a dropped transaction leaves the chain alone.         *)
LEMMA SolUnchanged ==
  ASSUME Sol!TypeOK, UNCHANGED Sol!chain
  PROVE  SolGrows({})
<1>1. final' = final /\ head' = head
  BY DEF Sol!chain
<1>2. Sol!States' = Sol!States
  BY <1>1 DEF Sol!States
<1> QED
  BY <1>1, <1>2 DEF Sol!TypeOK, SolGrows, SolBlock, Args

(* add_pending_xburn appends an entry only where the nullifier has none.           *)
LEMMA SolEntryAdded ==
  ASSUME Sol!SubmitAssumption, NEW entries \in Sol!Entries, Distinct(entries),
         NEW arg \in Args
  PROVE  /\ Sol!add_pending_xburn(entries, arg) \in Sol!Entries
         /\ Distinct(Sol!add_pending_xburn(entries, arg))
<1> DEFINE e == [nullifier |-> arg.nullifier, dest |-> arg.dest, minted |-> FALSE]
           Entry == [nullifier : Nullifiers, dest : Dests, minted : BOOLEAN]
<1>1. CASE Sol!xpending_find(entries, arg.nullifier) # {}
  BY <1>1 DEF Sol!add_pending_xburn
<1>2. CASE Sol!xpending_find(entries, arg.nullifier) = {}
  <2>1. /\ Sol!add_pending_xburn(entries, arg) = Append(entries, e)
        /\ \A i \in DOMAIN entries : entries[i].nullifier # arg.nullifier
    BY <1>2 DEF Sol!add_pending_xburn, Sol!xpending_find
  <2>2. arg \in [nullifier : Nullifiers, dest : Dests]
    BY DEF Sol!SubmitAssumption, Sol!Attestations, Args
  <2>3. e \in Entry /\ e.nullifier = arg.nullifier
    BY <2>2
  <2>4. entries \in Seq(Entry) /\ Sol!Entries = Seq(Entry)
    BY DEF Sol!Entries
  <2> HIDE DEF e, Entry
  <2>5. /\ Append(entries, e) \in Seq(Entry)
        /\ DOMAIN Append(entries, e) = DOMAIN entries \cup {Len(entries) + 1}
        /\ Len(entries) + 1 \notin DOMAIN entries
        /\ \A i \in DOMAIN entries : Append(entries, e)[i] = entries[i]
        /\ Append(entries, e)[Len(entries) + 1] = e
    BY <2>3, <2>4
  <2>6. Distinct(Append(entries, e))
    BY <2>1, <2>3, <2>5 DEF Distinct
  <2> QED
    BY <2>1, <2>4, <2>5, <2>6
<1> QED
  BY <1>1, <1>2

(* mint_from_xburn flags an entry.                                                 *)
LEMMA SolEntryMinted ==
  ASSUME NEW entries \in Sol!Entries, Distinct(entries), NEW k \in DOMAIN entries
  PROVE  /\ [entries EXCEPT ![k].minted = TRUE] \in Sol!Entries
         /\ Distinct([entries EXCEPT ![k].minted = TRUE])
<1> DEFINE Entry == [nullifier : Nullifiers, dest : Dests, minted : BOOLEAN]
           new == [entries EXCEPT ![k].minted = TRUE]
<1>0. entries \in Seq(Entry) /\ Sol!Entries = Seq(Entry)
  BY DEF Sol!Entries
<1> HIDE DEF Entry
<1>1. /\ DOMAIN entries = 1..Len(entries) /\ Len(entries) \in Nat
      /\ \A i \in 1..Len(entries) : entries[i] \in Entry
  BY <1>0
<1>2. entries[k] \in Entry
  BY <1>1
<1>3. /\ [entries[k] EXCEPT !.minted = TRUE] \in Entry
      /\ [entries[k] EXCEPT !.minted = TRUE].nullifier = entries[k].nullifier
  BY <1>2 DEF Entry
<1>4. DOMAIN new = DOMAIN entries
      /\ \A i \in DOMAIN entries :
           new[i] = IF i = k THEN [entries[k] EXCEPT !.minted = TRUE] ELSE entries[i]
  BY <1>1
<1>5. \A i \in DOMAIN entries : new[i] \in Entry /\ new[i].nullifier = entries[i].nullifier
  BY <1>1, <1>3, <1>4
<1>6. new \in Seq(Entry)
  <2>1. new \in [1..Len(entries) -> Entry]
    BY <1>1, <1>4, <1>5
  <2> HIDE DEF new
  <2> QED
    BY <1>1, <2>1
<1> HIDE DEF new
<1>7. Distinct(new)
  BY <1>4, <1>5 DEF Distinct
<1> QED
  BY <1>0, <1>6, <1>7 DEF new

(* The awaits of a submission follow one another.                                  *)
LEMMA SolAfterAwait ==
  ASSUME NEW step, step \in {"schnorr_public_key", "getLatestBlockhash", "sign_with_schnorr"}
  PROVE  Sol!After(step) \in SolSteps
<1> DEFINE i == CHOOSE k \in 2..Len(Sol!Awaits) : Sol!Awaits[k - 1] = step
<1>1. Len(Sol!Awaits) = 4 /\ DOMAIN Sol!Awaits = 1..4
  BY DEF Sol!Awaits
<1>2. \E k \in 2..4 : Sol!Awaits[k - 1] = step
  <2>1. /\ Sol!Awaits[2 - 1] = "schnorr_public_key" /\ Sol!Awaits[3 - 1] = "getLatestBlockhash"
        /\ Sol!Awaits[4 - 1] = "sign_with_schnorr"
    BY DEF Sol!Awaits
  <2>2. 2 \in 2..4 /\ 3 \in 2..4 /\ 4 \in 2..4
    OBVIOUS
  <2> HIDE DEF i
  <2> QED
    BY <2>1, <2>2
<1>3. i \in 2..4
  BY <1>1, <1>2
<1> HIDE DEF i
<1>4. i \in DOMAIN Sol!Awaits
  BY <1>1, <1>3
<1> QED
  BY <1>4 DEF Sol!After, SolSteps, i

-----------------------------------------------------------------------------
SolTyped == /\ faults \in 0..MaxFaults /\ sent \in SUBSET Args
            /\ calls \in [Calls -> [step : SolSteps, recent : BOOLEAN]]

(* A chain with one more state, in which nothing is entered twice.                 *)
LEMMA SolInvFromGrows ==
  ASSUME Sol!OneEntryPerNote, NEW new, SolGrows(new), \A s \in new : Distinct(s), SolTyped'
  PROVE  Sol!TypeOK' /\ Sol!OneEntryPerNote'
<1>1. \A s \in Sol!States' : Distinct(s)
  BY DEF Sol!OneEntryPerNote, SolGrows, Distinct
<1>2. Sol!OneEntryPerNote'
  BY <1>1 DEF Sol!OneEntryPerNote, Distinct
<1>3. Sol!TypeOK'
  BY DEF Sol!TypeOK, SolGrows, SolTyped, SolBlock, SolSteps, Args
<1> QED
  BY <1>2, <1>3

(* A step of the cluster.                                                          *)
LEMMA SolClusterStep ==
  ASSUME Sol!SubmitAssumption, Sol!TypeOK, Sol!OneEntryPerNote, Sol!Cluster
  PROVE  Sol!TypeOK' /\ Sol!OneEntryPerNote'
<1>0. /\ SolTyped /\ Sol!latest \in Sol!Entries /\ Distinct(Sol!latest)
      /\ Sol!latest \in Sol!States
  BY SolStates DEF Sol!TypeOK, Sol!OneEntryPerNote, SolTyped, SolSteps, Args, Distinct
<1>1. CASE Sol!Process
  <2>1. PICK arg \in sent : /\ sent' = sent \ {arg} /\ calls' = calls
                            /\ Sol!MineBlock(Sol!add_pending_xburn(Sol!latest, arg), {arg})
    BY <1>1 DEF Sol!Process
  <2> DEFINE s == Sol!add_pending_xburn(Sol!latest, arg)
             txs == {arg}
  <2>2. arg \in Args /\ txs \in SUBSET Args
    BY <1>0, <2>1 DEF SolTyped
  <2>3. s \in Sol!Entries /\ Distinct(s)
    BY <1>0, <2>2, SolEntryAdded
  <2>5. Sol!MineBlock(s, txs)
    BY <2>1
  <2> HIDE DEF s, txs
  <2>4. SolGrows({s}) /\ faults' = faults
    BY <2>2, <2>3, <2>5, SolMined
  <2>6. SolTyped'
    BY <1>0, <2>1, <2>4 DEF SolTyped
  <2> QED
    BY <2>3, <2>4, <2>6, SolInvFromGrows
<1>2. CASE Sol!Mint
  <2>1. PICK k \in DOMAIN Sol!latest :
          /\ Sol!MineBlock([Sol!latest EXCEPT ![k].minted = TRUE], {})
          /\ sent' = sent /\ calls' = calls
    BY <1>2 DEF Sol!Mint
  <2> DEFINE s == [Sol!latest EXCEPT ![k].minted = TRUE]
             txs == {}
  <2>3. s \in Sol!Entries /\ Distinct(s)
    BY <1>0, SolEntryMinted
  <2>5. Sol!MineBlock(s, txs) /\ txs \in SUBSET Args
    BY <2>1
  <2> HIDE DEF s, txs
  <2>4. SolGrows({s}) /\ faults' = faults
    BY <2>3, <2>5, SolMined
  <2>6. SolTyped'
    BY <1>0, <2>1, <2>4 DEF SolTyped
  <2> QED
    BY <2>3, <2>4, <2>6, SolInvFromGrows
<1>3. CASE Sol!Finalize
  <2>1. SolGrows({}) /\ faults' = faults /\ sent' = sent /\ calls' = calls
    BY <1>3, SolFinalized DEF Sol!Finalize
  <2>2. SolTyped'
    BY <1>0, <2>1 DEF SolTyped
  <2> QED
    BY <2>1, <2>2, SolInvFromGrows
<1>4. CASE Sol!Reorg
  <2>1. PICK n \in 0..Len(head) - 1 :
          /\ Sol!Abandon(n) /\ \E kept \in SUBSET Sol!TxsAfter(n) : sent' = sent \cup kept
    BY <1>4 DEF Sol!Reorg
  <2>2. faults < MaxFaults /\ faults' = faults + 1 /\ calls' = calls
    BY <1>4 DEF Sol!Reorg, Sol!Fault
  <2>3. SolGrows({}) /\ Sol!TxsAfter(n) \subseteq Args
    BY <2>1, SolAbandoned
  <2>4. sent' \in SUBSET Args
    BY <1>0, <2>1, <2>3 DEF SolTyped
  <2>5. faults' \in 0..MaxFaults
    BY <1>0, <2>2, ChainAssumption DEF SolTyped
  <2>6. SolTyped'
    BY <1>0, <2>2, <2>4, <2>5 DEF SolTyped
  <2> QED
    BY <2>3, <2>6, SolInvFromGrows
<1>5. CASE Sol!Drop
  <2>1. /\ faults < MaxFaults /\ faults' = faults + 1 /\ calls' = calls
        /\ sent' \subseteq sent /\ UNCHANGED Sol!chain
    BY <1>5 DEF Sol!Drop, Sol!Fault
  <2>2. SolGrows({})
    BY <2>1, SolUnchanged
  <2>5. faults' \in 0..MaxFaults
    BY <1>0, <2>1, ChainAssumption DEF SolTyped
  <2>6. SolTyped'
    BY <1>0, <2>1, <2>5 DEF SolTyped
  <2> QED
    BY <2>2, <2>6, SolInvFromGrows
<1> QED
  BY <1>1, <1>2, <1>3, <1>4, <1>5 DEF Sol!Cluster

(* A step of a call: the chain stays, and what may be sent is the call's argument.  *)
LEMMA SolCallStep ==
  ASSUME Sol!TypeOK, Sol!OneEntryPerNote, NEW r \in Calls,
         Sol!Persist(r) \/ Sol!Reply(r) \/ Sol!fail(r) \/ Sol!Expire(r)
  PROVE  Sol!TypeOK' /\ Sol!OneEntryPerNote'
<1> DEFINE Rec == [step : SolSteps, recent : BOOLEAN]
<1>0. /\ faults \in 0..MaxFaults /\ sent \in SUBSET Args /\ calls \in [Calls -> Rec]
  BY DEF Sol!TypeOK, SolSteps, Args
<1>a. calls[r] \in Rec /\ calls[r].step \in SolSteps /\ calls[r].recent \in BOOLEAN
  BY <1>0
<1>b. {"idle", "Ok", "Err", "schnorr_public_key"} \subseteq SolSteps
  <2>1. 1 \in DOMAIN Sol!Awaits /\ Sol!Awaits[1] = "schnorr_public_key"
    BY DEF Sol!Awaits
  <2> QED
    BY <2>1 DEF SolSteps
<1>c. \A x \in SolSteps : [calls[r] EXCEPT !.step = x] \in Rec
  BY <1>a
<1>d. [calls[r] EXCEPT !.recent = FALSE] \in Rec
  BY <1>a
<1>1. UNCHANGED Sol!chain
  BY DEF Sol!Persist, Sol!submit_add_pending_xburn, Sol!Reply, Sol!schnorr_public_key,
         Sol!sign_with_schnorr, Sol!Arrives, Sol!rpc_blockhash, Sol!rpc_send, Sol!fail,
         Sol!Expire
<1>2. faults' \in 0..MaxFaults
  <2>1. faults' = faults \/ (faults < MaxFaults /\ faults' = faults + 1)
    BY DEF Sol!Persist, Sol!submit_add_pending_xburn, Sol!Reply, Sol!schnorr_public_key,
           Sol!sign_with_schnorr, Sol!Arrives, Sol!rpc_blockhash, Sol!rpc_send, Sol!fail,
           Sol!Expire, Sol!Fault
  <2> QED
    BY <1>0, <2>1, ChainAssumption
<1>3. sent' \in SUBSET Args
  <2>1. ArgOf[r] \in Args
    BY DEF Args
  <2>2. sent' = sent \/ sent' = sent \cup {ArgOf[r]}
    BY DEF Sol!Persist, Sol!submit_add_pending_xburn, Sol!Reply, Sol!schnorr_public_key,
           Sol!sign_with_schnorr, Sol!Arrives, Sol!rpc_blockhash, Sol!rpc_send, Sol!fail,
           Sol!Expire, Sol!build_message
  <2> QED
    BY <1>0, <2>1, <2>2
<1>4. ASSUME NEW c \in Rec, calls' = [calls EXCEPT ![r] = c] PROVE calls' \in [Calls -> Rec]
  BY <1>0, <1>4
<1>5. calls' \in [Calls -> Rec]
  <2>1. CASE Sol!Persist(r)
    <3>1. /\ calls' = [calls EXCEPT ![r] = [step |-> "schnorr_public_key", recent |-> FALSE]]
          /\ [step |-> "schnorr_public_key", recent |-> FALSE] \in Rec
      BY <1>b, <2>1 DEF Sol!Persist, Sol!submit_add_pending_xburn
    <3> HIDE DEF Rec
    <3> QED
      BY <1>4, <3>1
  <2>2. CASE Sol!rpc_blockhash(r)
    <3> DEFINE c == [step |-> Sol!After(calls[r].step), recent |-> TRUE]
    <3>1. calls' = [calls EXCEPT ![r] = c] /\ calls[r].step = "getLatestBlockhash"
      BY <1>0, <2>2 DEF Sol!rpc_blockhash
    <3>2. c \in Rec
      BY <3>1, SolAfterAwait
    <3> HIDE DEF Rec, c
    <3> QED
      BY <1>4, <3>1, <3>2
  <2>3. CASE Sol!schnorr_public_key(r) \/ Sol!sign_with_schnorr(r)
    <3> DEFINE c == [calls[r] EXCEPT !.step = Sol!After(calls[r].step)]
    <3>1. /\ calls' = [calls EXCEPT ![r] = c]
          /\ calls[r].step \in {"schnorr_public_key", "sign_with_schnorr"}
      BY <1>0, <2>3 DEF Sol!schnorr_public_key, Sol!sign_with_schnorr, Sol!Arrives
    <3>2. c \in Rec
      BY <1>c, <3>1, SolAfterAwait
    <3> HIDE DEF Rec, c
    <3> QED
      BY <1>4, <3>1, <3>2
  <2>4. CASE Sol!rpc_send(r) \/ Sol!fail(r)
    <3>1. PICK x \in {"Ok", "Err"} : calls' = [calls EXCEPT ![r] = [calls[r] EXCEPT !.step = x]]
      BY <1>0, <2>4 DEF Sol!rpc_send, Sol!fail
    <3>2. [calls[r] EXCEPT !.step = x] \in Rec
      BY <1>b, <1>c
    <3> HIDE DEF Rec
    <3> QED
      BY <1>4, <3>1, <3>2
  <2>5. CASE Sol!Expire(r)
    <3>1. calls' = [calls EXCEPT ![r] = [calls[r] EXCEPT !.recent = FALSE]]
      BY <1>0, <2>5 DEF Sol!Expire
    <3> HIDE DEF Rec
    <3> QED
      BY <1>4, <1>d, <3>1
  <2> QED
    BY <2>1, <2>2, <2>3, <2>4, <2>5 DEF Sol!Reply
<1>6. SolGrows({}) /\ SolTyped'
  BY <1>1, <1>2, <1>3, <1>5, SolUnchanged DEF SolTyped
<1> QED
  BY <1>6, SolInvFromGrows

-----------------------------------------------------------------------------
(* The account's types and the uniqueness of its entries are inductive together.    *)
LEMMA SolInvariant ==
  ASSUME Sol!SubmitAssumption
  PROVE  Sol!Spec => [](Sol!TypeOK /\ Sol!OneEntryPerNote)
<1>1. Sol!Init => Sol!TypeOK /\ Sol!OneEntryPerNote
  <2> SUFFICES ASSUME Sol!Init PROVE Sol!TypeOK /\ Sol!OneEntryPerNote
    OBVIOUS
  <2>1. /\ final = <<>> /\ head = <<>> /\ faults = 0 /\ sent = {}
        /\ calls = [r \in Calls |-> [step |-> "idle", recent |-> FALSE]]
    BY DEF Sol!Init, Sol!Idle
  <2>2. final \in Sol!Entries
    BY <2>1 DEF Sol!Entries
  <2>3. Len(head) = 0 /\ DOMAIN head = {}
        /\ head \in Seq([state : Sol!Entries, txs : SUBSET {ArgOf[r] : r \in Calls}])
    BY <2>1
  <2>4. Sol!TypeOK
    BY <2>1, <2>2, <2>3, ChainAssumption DEF Sol!TypeOK
  <2>5. Sol!States = {<<>>}
    BY <2>1, <2>3 DEF Sol!States
  <2> QED
    BY <2>4, <2>5 DEF Sol!OneEntryPerNote
<1>2. Sol!TypeOK /\ Sol!OneEntryPerNote /\ [Sol!Next]_(Sol!vars)
        => Sol!TypeOK' /\ Sol!OneEntryPerNote'
  <2> SUFFICES ASSUME Sol!TypeOK, Sol!OneEntryPerNote, [Sol!Next]_(Sol!vars)
               PROVE  Sol!TypeOK' /\ Sol!OneEntryPerNote'
    OBVIOUS
  <2>1. CASE Sol!Cluster
    BY <2>1, SolClusterStep
  <2>2. ASSUME NEW r \in Calls,
               Sol!Persist(r) \/ Sol!Reply(r) \/ Sol!fail(r) \/ Sol!Expire(r)
        PROVE  Sol!TypeOK' /\ Sol!OneEntryPerNote'
    BY <2>2, SolCallStep
  <2>3. CASE UNCHANGED Sol!vars
    <3>1. SolTyped' /\ UNCHANGED Sol!chain
      BY <2>3 DEF Sol!vars, Sol!chain, Sol!TypeOK, SolTyped, SolSteps, Args
    <3> QED
      BY <3>1, SolUnchanged, SolInvFromGrows
  <2> QED
    BY <2>1, <2>2, <2>3 DEF Sol!Next
<1> QED
  BY <1>1, <1>2, PTL DEF Sol!Spec

(* Type correctness of the submissions to Solana, for any number of operators,       *)
(* unfinal blocks and faults.                                                        *)
THEOREM SubmitTypeCorrect ==
  ASSUME Sol!SubmitAssumption
  PROVE  Sol!Spec => []Sol!TypeOK
BY SolInvariant, PTL

(* Submitting again is harmless: however often submit_add_pending_xburn is called     *)
(* about a note, whenever its transactions land and on whatever fork they land again,  *)
(* no block has two entries for it.  That all calls about a note name one destination  *)
(* is not used: of two, the program keeps the first that it processes.                 *)
THEOREM OneEntry ==
  ASSUME Sol!SubmitAssumption
  PROVE  Sol!Spec => []OneEntryPerNote
<1>1. Sol!OneEntryPerNote <=> OneEntryPerNote
  <2>1. Sol!States = States
    BY DEF Sol!States, States
  <2> QED
    BY <2>1 DEF Sol!OneEntryPerNote, OneEntryPerNote
<1> QED
  BY <1>1, SolInvariant, PTL
=============================================================================
