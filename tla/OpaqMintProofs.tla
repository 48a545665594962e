---------------------------- MODULE OpaqMintProofs ----------------------------
(***************************************************************************)
(* Theorems about the EVM mint, for every set of notes, tokens, chains and   *)
(* addresses and every number of calls.  The lemmas on the worth of notes are *)
(* PoolLemmas', which comes with a ring of roots that plays no part here.      *)
(***************************************************************************)
EXTENDS OpaqMint, PoolLemmas

CreditEvents == [event : {"PendingAdded", "Minted"}, nullifier : Nullifiers,
                 credit : Credits]

\* The shape of the contract's storage.
TypeOK ==
  /\ pendingMint \in [Nullifiers -> Credits \cup {NotPending}]
  /\ minted \in SUBSET Nullifiers
  /\ balanceOf \in [Tokens -> [Addresses -> Nat]]
  /\ log \in Seq(CreditEvents)

(* The operator attests a credit for a nullifier that is not consumed.         *)
LEMMA AddPendingStep ==
  ASSUME AddPending
  PROVE  \E nf \in Nullifiers : \E x \in Credits :
           /\ nf \notin minted
           /\ pendingMint' = [pendingMint EXCEPT ![nf] = x]
           /\ emit("PendingAdded", nf, x)
           /\ UNCHANGED <<minted, balanceOf>>
<1> PICK s \in Callers, nf \in Nullifiers, t \in Tokens, m \in Amounts,
         d \in Chains, a \in Addresses : addPending(s, nf, t, m, d, a)
  BY DEF AddPending
<1>1. keccak(t, m, d, a) \in Credits
  BY DEF keccak, Credits
<1> QED
  BY <1>1 DEF addPending

(* A mint consumes the attested credit, of this chain, and credits what the     *)
(* burned note is worth in its token.                                           *)
LEMMA MintStep ==
  ASSUME Mint
  PROVE  \E note \in Commitments : \E x \in Credits :
           /\ NullifierOf[note] \in Nullifiers \ minted
           /\ pendingMint[NullifierOf[note]] = x /\ x.chain = chainid
           /\ x.token = TokenOf[note] /\ x.amount = AmountOf[note]
           /\ minted' = minted \cup {NullifierOf[note]}
           /\ pendingMint' = [pendingMint EXCEPT ![NullifierOf[note]] = NotPending]
           /\ balanceOf' = [balanceOf EXCEPT ![x.token][x.to] = @ + x.amount]
           /\ emit("Minted", NullifierOf[note], x)
<1> PICK note \in Commitments, t \in Tokens, m \in Amounts, d \in Chains,
         w \in Destinations : mint(note, NullifierOf[note], t, m, d, w)
  BY DEF Mint
<1> DEFINE x == keccak(t, m, d, AddressOf[w])
<1>1. AddressOf[w] \in Addresses
  BY MintAssumption
<1>2. /\ x \in Credits /\ x.token = t /\ x.amount = m /\ x.chain = d
      /\ x.to = AddressOf[w]
  BY <1>1 DEF keccak, Credits
<1>3. NullifierOf[note] \in Nullifiers
  BY NoteTypes
<1>4. /\ NullifierOf[note] \notin minted
      /\ pendingMint[NullifierOf[note]] = x /\ d = chainid
      /\ TokenOf[note] = t /\ AmountOf[note] = m
      /\ minted' = minted \cup {NullifierOf[note]}
      /\ pendingMint' = [pendingMint EXCEPT ![NullifierOf[note]] = NotPending]
      /\ balanceOf' = [balanceOf EXCEPT ![t][AddressOf[w]] = @ + m]
      /\ emit("Minted", NullifierOf[note], x)
  BY DEF mint, burn_circuit
<1> HIDE DEF x
<1> QED
  BY <1>2, <1>3, <1>4

(* An event that is appended keeps the log a sequence of events.             *)
LEMMA CreditLogged ==
  ASSUME log \in Seq(CreditEvents), NEW name \in {"PendingAdded", "Minted"},
         NEW nf \in Nullifiers, NEW x \in Credits, emit(name, nf, x)
  PROVE  log' \in Seq(CreditEvents)
<1>1. [event |-> name, nullifier |-> nf, credit |-> x] \in CreditEvents
  BY DEF CreditEvents
<1> QED
  BY <1>1 DEF emit

(* Type correctness of the mint, on which its other invariants rest.          *)
LEMMA MintTypeCorrect == Spec => []TypeOK
<1>1. constructor => TypeOK
  BY DEF constructor, TypeOK
<1>2. TypeOK /\ [Next]_vars => TypeOK'
  <2> SUFFICES ASSUME TypeOK, [Next]_vars PROVE TypeOK'
    OBVIOUS
  <2> USE DEF TypeOK
  <2>1. CASE AddPending
    <3> PICK nf \in Nullifiers, x \in Credits :
               /\ pendingMint' = [pendingMint EXCEPT ![nf] = x]
               /\ emit("PendingAdded", nf, x)
               /\ UNCHANGED <<minted, balanceOf>>
      BY <2>1, AddPendingStep
    <3>1. log' \in Seq(CreditEvents)
      BY CreditLogged
    <3> QED
      BY <3>1
  <2>2. CASE Mint
    <3> PICK note \in Commitments, x \in Credits :
               /\ NullifierOf[note] \in Nullifiers
               /\ minted' = minted \cup {NullifierOf[note]}
               /\ pendingMint' = [pendingMint EXCEPT ![NullifierOf[note]] = NotPending]
               /\ balanceOf' = [balanceOf EXCEPT ![x.token][x.to] = @ + x.amount]
               /\ emit("Minted", NullifierOf[note], x)
      BY <2>2, MintStep
    <3>1. log' \in Seq(CreditEvents)
      BY CreditLogged
    <3>2. x.token \in Tokens /\ x.to \in Addresses /\ x.amount \in Nat
      BY NoteAssumption DEF Credits, Amounts
    <3>3. balanceOf' \in [Tokens -> [Addresses -> Nat]]
      BY <3>2
    <3> QED
      BY <3>1, <3>3
  <2>3. CASE UNCHANGED vars
    BY <2>3 DEF vars
  <2> QED
    BY <2>1, <2>2, <2>3 DEF Next
<1> QED
  BY <1>1, <1>2, PTL DEF Spec

-----------------------------------------------------------------------------
(* Crediting m to one holder puts m coins into the pile of that token.         *)
LEMMA LedgerCredit ==
  ASSUME TypeOK, NEW t \in Tokens, NEW a \in Addresses, NEW m \in Nat, NEW u \in Tokens,
         balanceOf' = [balanceOf EXCEPT ![u][a] = @ + m]
  PROVE  /\ IsFiniteSet(Ledger(t)) => IsFiniteSet(Ledger(t)')
         /\ t # u => Ledger(t)' = Ledger(t)
         /\ IsFiniteSet(Ledger(t)) /\ t = u =>
              Cardinality(Ledger(t)') = Cardinality(Ledger(t)) + m
<1> DEFINE n == balanceOf[u][a]
           New == {<<a, k>> : k \in n + 1..n + m}
           f == [k \in 1..m |-> <<a, n + k>>]
<1>1. n \in Nat
  BY DEF TypeOK
<1>2. CASE t # u
  <2>1. balanceOf'[t] = balanceOf[t]
    BY <1>2 DEF TypeOK
  <2> QED
    BY <1>2, <2>1 DEF Ledger
<1>3. CASE t = u
  <2>1. /\ \A b \in Addresses : b # a => balanceOf'[t][b] = balanceOf[t][b]
        /\ balanceOf'[t][a] = n + m
    BY <1>3 DEF TypeOK
  <2>2. 1..n + m = (1..n) \cup (n + 1..n + m)
    BY <1>1
  <2>3. {a} \X (1..n + m) = ({a} \X (1..n)) \cup New
    BY <2>2
  <2>4. Ledger(t)' = Ledger(t) \cup New
    <3>1. ASSUME NEW p \in Ledger(t)' PROVE p \in Ledger(t) \cup New
      <4>1. PICK b \in Addresses : p \in {b} \X (1..balanceOf'[t][b])
        BY DEF Ledger
      <4>2. CASE b = a
        <5>1. p \in ({a} \X (1..n)) \cup New
          BY <2>1, <2>3, <4>1, <4>2
        <5> QED
          BY <1>3, <5>1 DEF Ledger
      <4>3. CASE b # a
        BY <2>1, <4>1, <4>3 DEF Ledger
      <4> QED
        BY <4>2, <4>3
    <3>2. ASSUME NEW p \in Ledger(t) PROVE p \in Ledger(t)'
      <4>1. PICK b \in Addresses : p \in {b} \X (1..balanceOf[t][b])
        BY DEF Ledger
      <4>2. CASE b = a
        <5>1. p \in {a} \X (1..balanceOf'[t][a])
          BY <1>3, <2>1, <2>3, <4>1, <4>2
        <5> QED
          BY <5>1 DEF Ledger
      <4>3. CASE b # a
        BY <2>1, <4>1, <4>3 DEF Ledger
      <4> QED
        BY <4>2, <4>3
    <3>3. ASSUME NEW p \in New PROVE p \in Ledger(t)'
      <4>1. p \in {a} \X (1..balanceOf'[t][a])
        BY <2>1, <2>3, <3>3
      <4> QED
        BY <4>1 DEF Ledger
    <3> HIDE DEF New
    <3> QED
      BY <3>1, <3>2, <3>3
  <2>5. Ledger(t) \cap New = {}
    <3> SUFFICES ASSUME NEW p \in Ledger(t), p \in New PROVE FALSE
      OBVIOUS
    <3>1. PICK b \in Addresses : p \in {b} \X (1..balanceOf[t][b])
      BY DEF Ledger
    <3>2. PICK k \in n + 1..n + m : p = <<a, k>>
      OBVIOUS
    <3>3. b = a /\ k \in 1..n
      BY <1>3, <3>1, <3>2
    <3> QED
      BY <1>1, <3>2, <3>3
  <2>6. IsFiniteSet(New) /\ Cardinality(New) = m
    <3>1. f \in Bijection(1..m, New)
      <4>1. f \in [1..m -> New]
        <5>1. \A k \in 1..m : n + k \in n + 1..n + m
          BY <1>1
        <5> QED
          BY <5>1
      <4>2. \A i, j \in 1..m : f[i] = f[j] => i = j
        BY <1>1
      <4>3. \A p \in New : \E k \in 1..m : f[k] = p
        <5> SUFFICES ASSUME NEW k \in n + 1..n + m PROVE \E i \in 1..m : f[i] = <<a, k>>
          OBVIOUS
        <5>1. k - n \in 1..m /\ n + (k - n) = k
          BY <1>1
        <5> QED
          BY <5>1
      <4> HIDE DEF f, New
      <4> QED
        BY <4>1, <4>2, <4>3 DEF Bijection, Injection, Surjection, IsInjective
    <3>2. ExistsBijection(1..m, New)
      BY <3>1 DEF ExistsBijection
    <3> HIDE DEF New
    <3> QED
      BY <3>2, FS_CountingElements, FS_NatBijection
  <2>7. ASSUME IsFiniteSet(Ledger(t))
        PROVE  /\ IsFiniteSet(Ledger(t)')
               /\ Cardinality(Ledger(t)') = Cardinality(Ledger(t)) + m
    <3> HIDE DEF New
    <3>1. Cardinality(Ledger(t) \cap New) = 0
      BY <2>5, FS_EmptySet
    <3>2. /\ IsFiniteSet(Ledger(t) \cup New)
          /\ Cardinality(Ledger(t) \cup New) = Cardinality(Ledger(t)) + Cardinality(New)
               - Cardinality(Ledger(t) \cap New)
      BY <2>6, <2>7, FS_Union
    <3>3. Cardinality(Ledger(t)) \in Nat
      BY <2>7, FS_CardinalityType
    <3> QED
      BY <2>4, <2>6, <3>1, <3>2, <3>3
  <2> QED
    BY <1>3, <2>7
<1> QED
  BY <1>2, <1>3

(* The ledger is backed, for any number of notes, holders and calls: a mint    *)
(* puts as many coins into the pile of one token as its nullifier, new among    *)
(* the consumed ones, stands for (LedgerCredit, NotesOfMore).  The piles stay   *)
(* finite, or their sizes would mean nothing.                                   *)
THEOREM LedgerBacked == Spec => []LedgerIsBacked
<1> DEFINE Finite == \A t \in Tokens : IsFiniteSet(Ledger(t))
           IInv == Finite /\ LedgerIsBacked
<1>1. constructor => IInv
  <2> SUFFICES ASSUME constructor, NEW t \in Tokens
               PROVE  /\ IsFiniteSet(Ledger(t))
                      /\ Cardinality(Ledger(t)) = Worth(NotesOf(minted, t))
    BY DEF LedgerIsBacked
  <2>1. Ledger(t) = {}
    <3>1. \A a \in Addresses : balanceOf[t][a] = 0
      BY DEF constructor
    <3> QED
      BY <3>1 DEF Ledger
  <2>2. Coins(NotesOf(minted, t)) = {}
    BY DEF constructor, NotesOf, Coins
  <2> QED
    BY <2>1, <2>2, FS_EmptySet DEF Worth
<1>2. TypeOK /\ IInv /\ [Next]_vars => IInv'
  <2> SUFFICES ASSUME TypeOK, IInv, [Next]_vars, NEW t \in Tokens
               PROVE  /\ IsFiniteSet(Ledger(t)')
                      /\ Cardinality(Ledger(t)') = Worth(NotesOf(minted', t))
    BY DEF LedgerIsBacked
  <2>0. /\ IsFiniteSet(Ledger(t)) /\ Cardinality(Ledger(t)) = Worth(NotesOf(minted, t))
        /\ Worth(NotesOf(minted, t)) \in Nat
    BY WorthType DEF LedgerIsBacked, NotesOf
  <2>1. CASE Mint
    <3> PICK note \in Commitments, x \in Credits :
               /\ NullifierOf[note] \notin minted
               /\ x.token = TokenOf[note] /\ x.amount = AmountOf[note]
               /\ minted' = minted \cup {NullifierOf[note]}
               /\ balanceOf' = [balanceOf EXCEPT ![x.token][x.to] = @ + x.amount]
      BY <2>1, MintStep
    <3>1. x.token \in Tokens /\ x.to \in Addresses /\ x.amount \in Nat
      BY NoteAssumption DEF Credits, Amounts
    <3>2. Worth(NotesOf(minted', t)) = Worth(NotesOf(minted, t)) + ValueIn(note, t)
      BY NotesOfMore
    <3>3. /\ IsFiniteSet(Ledger(t)')
          /\ t # x.token => Ledger(t)' = Ledger(t)
          /\ t = x.token => Cardinality(Ledger(t)') = Cardinality(Ledger(t)) + x.amount
      BY <2>0, <3>1, LedgerCredit
    <3>4. ValueIn(note, t) = IF t = x.token THEN x.amount ELSE 0
      BY DEF ValueIn
    <3> QED
      BY <2>0, <3>1, <3>2, <3>3, <3>4
  <2>2. CASE AddPending \/ UNCHANGED vars
    <3>1. balanceOf' = balanceOf /\ minted' = minted
      BY <2>2, AddPendingStep DEF vars
    <3> QED
      BY <2>0, <3>1 DEF Ledger
  <2> QED
    BY <2>1, <2>2 DEF Next
<1> QED
  BY <1>1, <1>2, MintTypeCorrect, PTL DEF Spec

-----------------------------------------------------------------------------
(* A successful call appends its event: it is the last of its name about its  *)
(* nullifier, and what the log said before is still there.                    *)
LEMMA EventAdded ==
  ASSUME TypeOK, NEW name \in {"PendingAdded", "Minted"},
         NEW nf \in Nullifiers, NEW x \in Credits, emit(name, nf, x)
  PROVE  /\ \A i \in DOMAIN log : log'[i] = log[i] /\ i < Len(log) + 1
         /\ log'[Len(log) + 1].credit = x
         /\ EventsOf(name, nf)' = EventsOf(name, nf) \cup {Len(log) + 1}
         /\ \A n, y : n # name \/ y # nf => EventsOf(n, y)' = EventsOf(n, y)
<1> DEFINE e == [event |-> name, nullifier |-> nf, credit |-> x]
           last == Len(log) + 1
<1>1. /\ DOMAIN log' = DOMAIN log \cup {last}
      /\ \A i \in DOMAIN log : log'[i] = log[i] /\ i < last
      /\ log'[last] = e
  BY DEF TypeOK, emit
<1>2. last \notin DOMAIN log
  BY DEF TypeOK
<1> HIDE DEF last
<1>3. e.event = name /\ e.nullifier = nf /\ e.credit = x
  OBVIOUS
<1>4. EventsOf(name, nf)' = EventsOf(name, nf) \cup {last}
  BY <1>1, <1>2, <1>3 DEF EventsOf
<1>5. ASSUME NEW n, NEW y, n # name \/ y # nf
      PROVE  EventsOf(n, y)' = EventsOf(n, y)
  BY <1>1, <1>2, <1>3, <1>5 DEF EventsOf
<1> QED
  BY <1>1, <1>3, <1>4, <1>5 DEF last

(* What the storage says about the log: a pending word is the credit of the    *)
(* latest attestation, and minted are the nullifiers with a Minted event.      *)
StorageFollowsLog ==
  /\ \A nf \in Nullifiers : pendingMint[nf] # NotPending =>
       \E j \in EventsOf("PendingAdded", nf) :
         /\ log[j].credit = pendingMint[nf]
         /\ \A i \in EventsOf("PendingAdded", nf) : i <= j
  /\ minted = {nf \in Nullifiers : EventsOf("Minted", nf) # {}}

(* Every credit follows the operator's latest attestation, for any number of   *)
(* calls: the word that mint compares is the credit of that attestation         *)
(* (StorageFollowsLog), minted keeps it the last one, and a nullifier is        *)
(* credited once.                                                               *)
THEOREM CreditsFollow == Spec => []CreditsFollowAttestations
<1> DEFINE Latest(nf, j) == /\ j \in EventsOf("PendingAdded", nf)
                            /\ \A i \in EventsOf("PendingAdded", nf) : i <= j
           Follows(nf, k) == \E j : /\ Latest(nf, j) /\ j < k
                                    /\ log[j].credit = log[k].credit
                                    /\ log[k].credit.chain = chainid
           Word(nf) == \E j : Latest(nf, j) /\ log[j].credit = pendingMint[nf]
           IInv == StorageFollowsLog /\ CreditsFollowAttestations
<1>1. constructor => IInv
  BY DEF constructor, StorageFollowsLog, CreditsFollowAttestations, EventsOf
<1>2. TypeOK /\ IInv /\ [Next]_vars => IInv'
  <2> SUFFICES ASSUME TypeOK, IInv, [Next]_vars PROVE IInv'
    OBVIOUS
  <2> DEFINE last == Len(log) + 1
  <2>0. \A n, y : EventsOf(n, y) \subseteq DOMAIN log
    BY DEF EventsOf
  <2>a. \A nf \in Nullifiers : pendingMint[nf] # NotPending => Word(nf)
    BY DEF StorageFollowsLog
  <2>b. \A nf \in Nullifiers : nf \in minted <=> EventsOf("Minted", nf) # {}
    BY DEF StorageFollowsLog
  <2>c. \A nf \in Nullifiers : \A k \in EventsOf("Minted", nf) :
          Follows(nf, k) /\ EventsOf("Minted", nf) = {k}
    BY DEF CreditsFollowAttestations
  <2>d. ASSUME \A nf \in Nullifiers : pendingMint'[nf] # NotPending => Word(nf)',
               \A nf \in Nullifiers : nf \in minted' <=> EventsOf("Minted", nf)' # {},
               \A nf \in Nullifiers : \A k \in EventsOf("Minted", nf)' :
                 Follows(nf, k)' /\ EventsOf("Minted", nf)' = {k},
               minted' \subseteq Nullifiers
        PROVE  IInv'
    BY <2>d DEF StorageFollowsLog, CreditsFollowAttestations
  \* An attestation of a nullifier that the call is not about stays the latest.
  <2>e. ASSUME NEW nf \in Nullifiers, \A i \in DOMAIN log : log'[i] = log[i],
               EventsOf("PendingAdded", nf)' = EventsOf("PendingAdded", nf)
        PROVE  /\ Word(nf) /\ pendingMint'[nf] = pendingMint[nf] => Word(nf)'
               /\ \A k \in DOMAIN log : Follows(nf, k) => Follows(nf, k)'
    BY <2>0, <2>e
  <2>1. CASE AddPending
    <3> PICK a \in Nullifiers, x \in Credits :
               /\ a \notin minted
               /\ pendingMint' = [pendingMint EXCEPT ![a] = x]
               /\ emit("PendingAdded", a, x)
               /\ UNCHANGED <<minted, balanceOf>>
      BY <2>1, AddPendingStep
    <3>1. /\ \A i \in DOMAIN log : log'[i] = log[i] /\ i < last
          /\ log'[last].credit = x
          /\ EventsOf("PendingAdded", a)' = EventsOf("PendingAdded", a) \cup {last}
      BY EventAdded
    <3>a. \A n, y : n # "PendingAdded" \/ y # a => EventsOf(n, y)' = EventsOf(n, y)
      BY EventAdded
    <3>b. /\ \A y : y # a => EventsOf("PendingAdded", y)' = EventsOf("PendingAdded", y)
          /\ \A y : EventsOf("Minted", y)' = EventsOf("Minted", y)
      BY <3>a
    <3>2. ASSUME NEW nf \in Nullifiers, pendingMint'[nf] # NotPending PROVE Word(nf)'
      <4>1. CASE nf = a
        <5>1. pendingMint'[nf] = x
          BY <4>1 DEF TypeOK
        <5>2. last \in Int /\ \A i \in DOMAIN log : i \in Int
          BY DEF TypeOK
        <5>3. /\ last \in EventsOf("PendingAdded", nf)'
              /\ \A i \in EventsOf("PendingAdded", nf)' : i <= last
          BY <2>0, <3>1, <4>1, <5>2
        <5> QED
          BY <3>1, <5>1, <5>3
      <4>2. CASE nf # a
        <5>1. pendingMint'[nf] = pendingMint[nf]
          BY <4>2 DEF TypeOK
        <5> QED
          BY <2>a, <2>e, <3>1, <3>b, <3>2, <4>2, <5>1
      <4> QED
        BY <4>1, <4>2
    <3>3. ASSUME NEW nf \in Nullifiers, NEW k \in EventsOf("Minted", nf)'
          PROVE  Follows(nf, k)' /\ EventsOf("Minted", nf)' = {k}
      <4>1. k \in EventsOf("Minted", nf) /\ k \in DOMAIN log
        BY <2>0, <3>b
      <4>2. nf # a
        BY <2>b, <4>1
      <4> QED
        BY <2>c, <2>e, <3>1, <3>b, <4>1, <4>2
    <3>4. \A nf \in Nullifiers : nf \in minted' <=> EventsOf("Minted", nf)' # {}
      BY <2>b, <3>b
    <3> QED
      BY <2>d, <3>2, <3>3, <3>4 DEF TypeOK
  <2>2. CASE Mint
    <3> PICK note \in Commitments, x \in Credits :
               /\ NullifierOf[note] \in Nullifiers \ minted
               /\ pendingMint[NullifierOf[note]] = x /\ x.chain = chainid
               /\ minted' = minted \cup {NullifierOf[note]}
               /\ pendingMint' = [pendingMint EXCEPT ![NullifierOf[note]] = NotPending]
               /\ emit("Minted", NullifierOf[note], x)
      BY <2>2, MintStep
    <3> DEFINE a == NullifierOf[note]
    <3>1. /\ \A i \in DOMAIN log : log'[i] = log[i] /\ i < last
          /\ log'[last].credit = x
          /\ EventsOf("Minted", a)' = EventsOf("Minted", a) \cup {last}
      BY EventAdded
    <3>a. \A n, y : n # "Minted" \/ y # a => EventsOf(n, y)' = EventsOf(n, y)
      BY EventAdded
    <3>b. /\ \A y : y # a => EventsOf("Minted", y)' = EventsOf("Minted", y)
          /\ \A y : EventsOf("PendingAdded", y)' = EventsOf("PendingAdded", y)
      BY <3>a
    <3>2. ASSUME NEW nf \in Nullifiers, pendingMint'[nf] # NotPending PROVE Word(nf)'
      <4>1. pendingMint'[nf] = pendingMint[nf]
        BY <3>2 DEF TypeOK
      <4> QED
        BY <2>a, <2>e, <3>1, <3>b, <3>2, <4>1
    <3>3. ASSUME NEW nf \in Nullifiers, NEW k \in EventsOf("Minted", nf)'
          PROVE  Follows(nf, k)' /\ EventsOf("Minted", nf)' = {k}
      <4>1. CASE nf # a
        <5>1. k \in EventsOf("Minted", nf) /\ k \in DOMAIN log
          BY <2>0, <3>b, <4>1
        <5> QED
          BY <2>c, <2>e, <3>1, <3>b, <4>1, <5>1
      <4>2. CASE nf = a
        <5>1. EventsOf("Minted", nf)' = {last} /\ k = last
          BY <2>b, <3>1, <4>2
        <5>2. PICK j : Latest(nf, j) /\ log[j].credit = x
          BY <2>a, <4>2, MintAssumption
        <5>3. log'[j].credit = x /\ j < last /\ Latest(nf, j)'
          BY <2>0, <3>1, <3>b, <5>2
        <5>4. log'[k].credit = x
          BY <3>1, <5>1
        <5> QED
          BY <5>1, <5>3, <5>4
      <4> QED
        BY <4>1, <4>2
    <3>4. \A nf \in Nullifiers : nf \in minted' <=> EventsOf("Minted", nf)' # {}
      BY <2>b, <3>1, <3>b
    <3> QED
      BY <2>d, <3>2, <3>3, <3>4 DEF TypeOK
  <2>3. CASE UNCHANGED vars
    BY <2>3 DEF vars, StorageFollowsLog, CreditsFollowAttestations, EventsOf
  <2> QED
    BY <2>1, <2>2, <2>3 DEF Next
<1> QED
  BY <1>1, <1>2, MintTypeCorrect, PTL DEF Spec
=============================================================================
