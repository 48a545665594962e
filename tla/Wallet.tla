-------------------------------- MODULE Wallet --------------------------------
(***************************************************************************)
(* The wallet, crates/prover/src/main.rs, with the read path it spawns,        *)
(* tests/read_path.mjs and list_unspent.mjs.  A command writes the notes it     *)
(* creates to files, rebuilds a Merkle path from the leaves it harvests,        *)
(* proves, and submits a transaction; it may be killed at any point, its         *)
(* transaction may land late or never, and the node may not hand out a            *)
(* transaction that it lists.  Several commands run at a time.                    *)
(* The pool is OpaqProgram's, as the wallet sees it: the tree's leaves, the      *)
(* roots it accepts, the nullifiers.  A note stands for its commitment and its   *)
(* nullifier; amounts are left out, the circuits see to them.                    *)
(* The secrets behind a deposit or a change note are in its file and nowhere     *)
(* else.  The user names a file of its own for each, and passes --change-note.   *)
(* The plaintext copy that --out-note writes for a recipient is read by nobody.  *)
(***************************************************************************)
EXTENDS Integers, SequencesExt

CONSTANTS
  Procs,          \* commands that run at a time
  Paths,          \* files that the user names
  Identity,       \* the receiving identity of the wallet, from `opaq address`
  Stranger,       \* somebody else's
  Recipients,     \* to whom the wallet sends notes: either of these
  NoFile,
  ROOT_HISTORY,   \* the roots a pool accepts
  OtherKinds,     \* how other people's leaves get in: by a transfer, by an instruction
                  \* of the pool that another program calls, by mint_from_xburn
  StrayIndexes,   \* what the log lines of other programs in it may give for a leaf index
  MaxNotes,       \* bound on the notes that are ever created
  MaxFaults       \* bound on the commands that stop short, transactions lost and
                  \* harvests that miss some

Owners == {"self", Identity, Stranger}

\* A log without the line that gives the index of a leaf.
NoIndex == -1

\* A note: the secrets drawn for it, and the key behind its owner_pubkey.
Note(blinding, owner) == [blinding |-> blinding, owner |-> owner]
Notes == [blinding : 1..MaxNotes, owner : Owners]

ASSUME WalletAssumption ==
  /\ ROOT_HISTORY \in Nat \ {0} /\ MaxNotes \in Nat /\ MaxFaults \in Nat
  /\ Recipients \subseteq {Identity, Stranger}
  /\ "self" \notin {Identity, Stranger} /\ NoFile \notin Notes
  /\ OtherKinds \subseteq {"transfer", "cpi", "mint_from_xburn"}
  /\ StrayIndexes \subseteq Nat

VARIABLES
  fresh,       \* secrets drawn so far
  files,       \* path -> the note in it
  found,       \* note files that list-unspent has written
  cmd,         \* the commands
  inflight,    \* transactions that may still land
  leaves,      \* the pool's leaves, the instruction that inserted each, the
               \* transaction it was in, and the index that the log gives for it
  nullifiers,  \* the notes spent
  memos,       \* the memos of the transfers
  faults

vars == <<fresh, files, found, cmd, inflight, leaves, nullifiers, memos, faults>>
pool == <<leaves, nullifiers, memos>>

Idle == [op |-> "none"]
NoRoot == -1

Fault == faults < MaxFaults /\ faults' = faults + 1

-----------------------------------------------------------------------------
(* The read path.                                                             *)

\* A transaction is named by the leaves there were before it.
Txs == {leaves[i].tx : i \in DOMAIN leaves}

\* The commitments that depositsFromTx finds, in the order of the signatures: those of
\* the pool's instructions at the top level of a transaction that getTransaction gives.
depositsFromTxs(missed) ==
  LET list[i \in 0..Len(leaves)] ==
        IF i = 0 THEN <<>>
        ELSE IF leaves[i].via \in {"deposit", "transfer"} /\ leaves[i].tx \notin missed
             THEN Append(list[i - 1], leaves[i])
             ELSE list[i - 1]
  IN list[Len(leaves)]

\* The place of list[i] when the list is sorted by index; equal ones keep their order.
Rank(list, i) ==
  LET Before(j) == \/ list[j].index < list[i].index
                   \/ list[j].index = list[i].index /\ j < i
  IN 1 + Cardinality({j \in DOMAIN list : Before(j)})

SortByIndex(list) ==
  [k \in DOMAIN list |-> list[CHOOSE i \in DOMAIN list : Rank(list, i) = k]]

\* Mutant: the leaves are sorted although some log gives no index.
fetchLeaves_no_fallback(missed) == SortByIndex(depositsFromTxs(missed))

\* By the indices of the logs where there are all, else in the order of the signatures.
fetchLeaves(missed) ==
  LET pairs == depositsFromTxs(missed)
      haveIdx == \A i \in DOMAIN pairs : pairs[i].index # NoIndex
  IN IF haveIdx THEN SortByIndex(pairs) ELSE pairs

\* What a harvest may give; getTransaction gives null for what is missed.
harvest_leaves ==
  {[list |-> fetchLeaves(missed), whole |-> missed = {}] : missed \in SUBSET Txs}

\* Mutant: the last leaf is missed.
reconstruct_path_short(list) == Len(list) - 1

\* The root of the path that is rebuilt: the number of leaves under it, where the
\* list is a prefix of the tree's; else a root the tree never had.
reconstruct_path(list) ==
  LET sizes == {n \in 0..Len(leaves) : list = SubSeq(leaves, 1, n)}
  IN IF sizes = {} THEN NoRoot ELSE CHOOSE n \in sizes : TRUE

is_known_root(root) == root # NoRoot /\ root > Len(leaves) - ROOT_HISTORY

-----------------------------------------------------------------------------
(* Commands, up to the proof.                                                 *)

Readable == {files[p] : p \in Paths} \cup found

\* A command starts.
Start(p) == cmd[p] = Idle /\ UNCHANGED <<found, inflight, pool>>

\* `whole` says whether the harvest missed nothing; no command knows it.
Prepare(p, op, note, root, whole, outs, view) ==
  cmd' = [cmd EXCEPT ![p] = [op |-> op, note |-> note, root |-> root, whole |-> whole,
                             outs |-> outs, view |-> view]]

Draw(n) == fresh + n <= MaxNotes /\ fresh' = fresh + n

\* Mutant: the file has no spend_key.
write_note_opening(path, note) ==
  files[path] = NoFile /\ files' = [files EXCEPT ![path] = [note EXCEPT !.owner = NoFile]]

\* write_note to a path that the user has not used before.
write_note(path, note) ==
  files[path] = NoFile /\ files' = [files EXCEPT ![path] = note]

deposit(p, path) ==
  /\ Start(p) /\ UNCHANGED faults
  /\ Draw(1)
  /\ write_note(path, Note(fresh + 1, "self"))
  /\ Prepare(p, "deposit", Note(fresh + 1, "self"), NoRoot, TRUE,
             <<Note(fresh + 1, "self")>>, NoFile)

\* The note's leaf is located among the harvested ones, and its path rebuilt.
Locate(note, list) == \E i \in DOMAIN list : list[i].note = note

Harvest(p, op, note, outs, view) ==
  /\ Start(p) /\ note \in Readable
  /\ \E read \in harvest_leaves :
       /\ IF read.whole THEN UNCHANGED faults ELSE Fault
       /\ Locate(note, read.list)
       /\ Prepare(p, op, note, reconstruct_path(read.list), read.whole, outs, view)

withdraw(p, note) ==
  /\ UNCHANGED <<fresh, files>>
  /\ Harvest(p, "spend", note, <<>>, NoFile)

burn(p, note) ==
  /\ UNCHANGED <<fresh, files>>
  /\ Harvest(p, "spend", note, <<>>, NoFile)

\* Mutant: the change note's file is left to the end.
transfer_late(p, note, to, path, to_view) ==
  /\ Draw(2)
  /\ files' = files
  /\ Harvest(p, "transfer", note, <<Note(fresh + 1, to), Note(fresh + 2, "self")>>, to_view)

\* out0 is the recipient's, out1 the change; the change note is written before the
\* proof is made.
transfer(p, note, to, path, to_view) ==
  /\ Draw(2)
  /\ write_note(path, Note(fresh + 2, "self"))
  /\ Harvest(p, "transfer", note, <<Note(fresh + 1, to), Note(fresh + 2, "self")>>, to_view)

submit(p) ==
  /\ cmd[p].op \in {"deposit", "spend", "transfer"}
  /\ inflight' = inflight \cup {cmd[p]}
  /\ cmd' = [cmd EXCEPT ![p] = [op |-> "confirm", tx |-> cmd[p]]]
  /\ UNCHANGED <<fresh, files, found, pool, faults>>

\* The transaction has been processed, and the command returns.
confirm(p) ==
  /\ cmd[p].op = "confirm" /\ cmd[p].tx \notin inflight
  /\ cmd' = [cmd EXCEPT ![p] = Idle]
  /\ UNCHANGED <<fresh, files, found, inflight, pool, faults>>

\* The command is killed, or the proof or the submission fails, or the wait for the
\* confirmation times out.
stop(p) ==
  /\ cmd[p] # Idle /\ Fault
  /\ cmd' = [cmd EXCEPT ![p] = Idle]
  /\ UNCHANGED <<fresh, files, found, inflight, pool>>

-----------------------------------------------------------------------------
(* list-unspent: what it reads, it reads at different moments.                *)

list_unspent(p) ==
  /\ cmd[p] = Idle
  /\ cmd' = [cmd EXCEPT ![p] = [op |-> "scan", memos |-> NoFile, spent |-> NoFile]]
  /\ UNCHANGED <<fresh, files, found, inflight, pool, faults>>

fetchTransferMemos(p) ==
  /\ cmd[p].op = "scan" /\ cmd[p].memos = NoFile
  /\ \E missed \in SUBSET memos :
       /\ IF missed = {} THEN UNCHANGED faults ELSE Fault
       /\ cmd' = [cmd EXCEPT ![p].memos = <<memos \ missed>>]
  /\ UNCHANGED <<fresh, files, found, inflight, pool>>

fetchNullifierSet(p) ==
  /\ cmd[p].op = "scan" /\ cmd[p].spent = NoFile
  /\ cmd' = [cmd EXCEPT ![p].spent = <<nullifiers>>]
  /\ UNCHANGED <<fresh, files, found, inflight, pool, faults>>

\* A memo: the opening of a note, encrypted for a view key, beside a commitment.
Memo(view, opening, commitment) ==
  [view |-> view, opening |-> opening, commitment |-> commitment]

\* Whether the identity's view key opens the memo.
try_decrypt(memo) == memo.view = Identity

\* Mutant: the opening is not checked against the commitment.
Discovers_unchecked(memo, spent) ==
  LET commitment == Note(memo.opening, Identity)
  IN try_decrypt(memo) /\ commitment \notin spent

\* The opening, with the identity's key, gives the commitment of the transfer, and
\* the note is not spent.
Discovers(memo, spent) ==
  LET commitment == Note(memo.opening, Identity)
  IN try_decrypt(memo) /\ commitment = memo.commitment /\ commitment \notin spent

write_found(p) ==
  /\ cmd[p].op = "scan" /\ cmd[p].memos # NoFile /\ cmd[p].spent # NoFile
  /\ found' = found \cup {Note(m.opening, Identity) :
                m \in {x \in cmd[p].memos[1] : Discovers(x, cmd[p].spent[1])}}
  /\ cmd' = [cmd EXCEPT ![p] = Idle]
  /\ UNCHANGED <<fresh, files, inflight, pool, faults>>

-----------------------------------------------------------------------------
(* External: the pool processes transactions, of this wallet and of others.   *)

Leaf(note, via, tx, index) == [note |-> note, via |-> via, tx |-> tx, index |-> index]

\* A transaction of this wallet is one instruction, whose log gives the indices.
Insert(notes, via) ==
  leaves' = leaves \o [i \in DOMAIN notes |->
                        Leaf(notes[i], via, Len(leaves), Len(leaves) + i - 1)]

Accepted(tx) ==
  tx.op # "deposit" => is_known_root(tx.root) /\ tx.note \notin nullifiers

\* Mutant: the memo opens the change note.
attach_recipient_memo_out1(tx) ==
  IF tx.op # "transfer" THEN {}
  ELSE {Memo(tx.view, tx.outs[2].blinding, tx.outs[1])}

\* The opening of out0, for the view key the sender was given.
attach_recipient_memo(tx) ==
  IF tx.op # "transfer" THEN {}
  ELSE {Memo(tx.view, tx.outs[1].blinding, tx.outs[1])}

land(tx) ==
  /\ tx \in inflight
  /\ inflight' = inflight \ {tx}
  /\ IF Accepted(tx)
     THEN /\ Insert(tx.outs, tx.op)
          /\ nullifiers' = IF tx.op = "deposit" THEN nullifiers ELSE nullifiers \cup {tx.note}
          /\ memos' = memos \cup attach_recipient_memo(tx)
     ELSE UNCHANGED pool
  /\ UNCHANGED <<fresh, files, found, cmd, faults>>

lose(tx) ==
  /\ tx \in inflight /\ Fault
  /\ inflight' = inflight \ {tx}
  /\ UNCHANGED <<fresh, files, found, cmd, pool>>

\* Somebody else's transaction.  A log line is any program's, and it may be missing; a
\* memo may be of another note.
Other ==
  /\ Draw(1)
  /\ \E via \in OtherKinds :
       /\ \E index \in IF via = "transfer" THEN {Len(leaves), NoIndex} \cup StrayIndexes
                                           ELSE {NoIndex} :
            leaves' = Append(leaves, Leaf(Note(fresh + 1, Stranger), via, Len(leaves), index))
       /\ \/ UNCHANGED memos
          \/ /\ via = "transfer"
             /\ memos' = memos \cup {Memo(Identity, fresh + 1, Note(fresh + 1, Stranger))}
  /\ UNCHANGED <<files, found, cmd, inflight, nullifiers, faults>>

-----------------------------------------------------------------------------
Init ==
  /\ fresh = 0
  /\ files = [p \in Paths |-> NoFile]
  /\ found = {}
  /\ cmd = [p \in Procs |-> Idle]
  /\ inflight = {}
  /\ leaves = <<>> /\ nullifiers = {} /\ memos = {}
  /\ faults = 0

Spend(p, note) == withdraw(p, note) \/ burn(p, note)

Scan(p) == fetchTransferMemos(p) \/ fetchNullifierSet(p) \/ write_found(p)

Next ==
  \/ \E p \in Procs :
       \/ \E path \in Paths : deposit(p, path)
       \/ \E note \in Notes : Spend(p, note)
       \/ \E note \in Notes, path \in Paths, to \in Recipients :
            transfer(p, note, to, path, to)
       \/ list_unspent(p)
       \/ Scan(p) \/ submit(p) \/ confirm(p) \/ stop(p)
  \/ \E tx \in inflight : land(tx) \/ lose(tx)
  \/ Other

\* The user withdraws the notes that are not spent yet, and scans from time to time;
\* commands go on, and the network processes what it is sent.
Fairness ==
  /\ \A i \in 1..MaxNotes :
       SF_vars(\E p \in Procs, o \in Owners : Note(i, o) \notin nullifiers /\ withdraw(p, Note(i, o)))
  /\ SF_vars(\E p \in Procs : list_unspent(p))
  /\ \A p \in Procs : WF_vars(submit(p) \/ confirm(p) \/ Scan(p) \/ stop(p))
  /\ WF_vars(\E tx \in inflight : land(tx))

Spec == Init /\ [][Next]_vars /\ Fairness

-----------------------------------------------------------------------------
InTree == {leaves[i].note : i \in DOMAIN leaves}
OwnFiles == {files[p] : p \in Paths} \ {NoFile}

Tx == [op : {"deposit", "spend", "transfer"}, note : Notes,
       root : NoRoot..MaxNotes, whole : BOOLEAN, outs : Seq(Notes), view : Owners \cup {NoFile}]

\* Type correctness.
TypeOK ==
  /\ fresh \in 0..MaxNotes /\ faults \in 0..MaxFaults
  /\ files \in [Paths -> Notes \cup {NoFile}]
  /\ found \in SUBSET Notes
  /\ \A p \in Procs : cmd[p].op \in {"none", "scan", "confirm"} \/ cmd[p] \in Tx
  /\ inflight \in SUBSET Tx
  /\ leaves \in Seq([note : Notes, via : {"deposit", "transfer", "cpi", "mint_from_xburn"},
                     tx : Nat, index : Nat \cup {NoIndex}])
  /\ nullifiers \in SUBSET Notes
  /\ \A m \in memos : m.view \in Owners /\ m.commitment \in Notes

\* Whatever command is killed when, and however late a transaction lands, the secrets
\* behind every note of the wallet that is in the pool, or may still get there, are
\* in a file.
SecretsAreKept ==
  \A n \in InTree \cup UNION {ToSet(tx.outs) : tx \in inflight} :
    n.owner = "self" => n \in OwnFiles

\* A file that list-unspent writes is a note in the pool that the identity can
\* spend, whatever memos others attach.
DiscoveredNotesAreReal == \A n \in found : n.owner = Identity /\ n \in InTree

\* What the docs say of every harvest, "index i == on-chain leaf_index i" (main.rs,
\* read_leaves.mjs): every path leads to a root the tree had.
PathsMatchTheTree ==
  \A p \in Procs : cmd[p].op \in {"spend", "transfer"} => cmd[p].root # NoRoot

\* The read path sees every leaf, and no log puts one in another's place.
Legible ==
  \A i \in DOMAIN leaves :
    leaves[i].via \in {"deposit", "transfer"} /\ leaves[i].index \in {i - 1, NoIndex}

\* What holds of them: a harvest that missed no transaction gives a path to a root the
\* tree had, as long as every leaf got in by a top-level deposit or transfer and the logs
\* say nothing false, whether some, all or none of them have the line with the index.
PathsMatchLegibleTree ==
  \A p \in Procs : cmd[p].op \in {"spend", "transfer"} =>
    cmd[p].root # NoRoot \/ ~cmd[p].whole \/ ~Legible

\* A note sent to the identity with a memo is found in the end, although scans read
\* memos and nullifiers at different moments and may be killed.
SentNotesAreFound ==
  \A n \in [blinding : 1..MaxNotes, owner : {Identity}] :
    n \in InTree ~> n \in found

\* Notes in the wallet's files that are in the pool can all be spent, if need be by
\* trying again: other people's leaves make a root too old only so often, and a
\* transaction is not missed for ever.  A leaf that the read path cannot see or put in its
\* place takes this away, and trying again does not bring it back.
OwnNotesAreSpent ==
  \A n \in [blinding : 1..MaxNotes, owner : {"self", Identity}] :
    n \in InTree ~> n \in nullifiers \/ ~Legible
=============================================================================
