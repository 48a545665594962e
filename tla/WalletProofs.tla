----------------------------- MODULE WalletProofs -----------------------------
(***************************************************************************)
(* Theorems about the wallet, for every number of commands, files, notes and  *)
(* faults, in a pool with the bridge or without.                              *)
(***************************************************************************)
EXTENDS Wallet, SequenceTheorems, FiniteSetTheorems, WellFoundedInduction, TLAPS

\* What the pool may be told: a transaction with its notes.
IsTx(x) ==
  /\ x.op \in {"deposit", "spend", "transfer"}
  /\ x.outs \in Seq(Notes)
  /\ Len(x.outs) = [deposit |-> 1, spend |-> 0, transfer |-> 2][x.op]

IsScan(x) == x.op = "scan" /\ x = [op |-> "scan", memos |-> x.memos, spent |-> x.spent]

LeafRecords == [note : Notes, via : {"deposit", "transfer", "cpi", "mint_from_xburn"},
                tx : Nat, index : Nat \cup {NoIndex}]

\* Commands and transactions are what the wallet makes; the rest has its type.
WellFormed ==
  /\ fresh \in Nat
  /\ files \in [Paths -> Notes \cup {NoFile}]
  /\ DOMAIN cmd = Procs
  /\ \A p \in Procs : cmd[p].op \in {"none", "confirm"} \/ IsScan(cmd[p]) \/ IsTx(cmd[p])
  /\ \A tx \in inflight : IsTx(tx)
  /\ leaves \in Seq(LeafRecords)

\* The secrets of the wallet's notes are in files from the moment they are drawn.
SecretsSafe ==
  /\ \A n \in InTree : n.owner = "self" => n \in OwnFiles
  /\ \A tx \in inflight : \A n \in ToSet(tx.outs) : n.owner = "self" => n \in OwnFiles
  /\ \A p \in Procs : IsTx(cmd[p]) =>
       \A n \in ToSet(cmd[p].outs) : n.owner = "self" => n \in OwnFiles

\* A memo is beside a commitment of the pool; a scan has memos of the pool.
MemosOfPool ==
  /\ \A m \in memos : m.commitment \in InTree
  /\ \A p \in Procs : IsScan(cmd[p]) /\ cmd[p].memos # NoFile => cmd[p].memos[1] \subseteq memos

IInv == WellFormed /\ SecretsSafe /\ MemosOfPool /\ DiscoveredNotesAreReal

-----------------------------------------------------------------------------
(* One command changes.                                                         *)
LEMMA CmdPut ==
  ASSUME WellFormed, NEW p \in Procs, NEW c, cmd' = [cmd EXCEPT ![p] = c]
  PROVE  /\ DOMAIN cmd' = Procs /\ cmd'[p] = c
         /\ \A q \in Procs : q # p => cmd'[q] = cmd[q]
BY DEF WellFormed

(* A note that is written to a new file is there, and no file is lost.          *)
LEMMA NoteWritten ==
  ASSUME WellFormed, NEW path \in Paths, NEW n \in Notes, write_note(path, n)
  PROVE  /\ files' \in [Paths -> Notes \cup {NoFile}]
         /\ n \in OwnFiles' /\ OwnFiles \subseteq OwnFiles'
<1>1. /\ files' \in [Paths -> Notes \cup {NoFile}]
      /\ files'[path] = n /\ \A q \in Paths : q # path => files'[q] = files[q]
      /\ files[path] = NoFile
  BY DEF WellFormed, write_note
<1>2. n # NoFile
  BY WalletAssumption
<1> QED
  BY <1>1, <1>2 DEF OwnFiles

\* Leaves are added for these notes.
Added(new, notes) ==
  /\ leaves' = leaves \o new /\ new \in Seq(LeafRecords)
  /\ Len(new) = Len(notes) /\ \A i \in 1..Len(notes) : new[i].note = notes[i]

(* They are the last ones.                                                       *)
LEMMA LeavesAfter ==
  ASSUME WellFormed, NEW notes \in Seq(Notes), NEW new, Added(new, notes)
  PROVE  /\ leaves' \in Seq(LeafRecords)
         /\ Len(leaves) \in Nat /\ DOMAIN leaves = 1..Len(leaves)
         /\ Len(notes) \in Nat /\ DOMAIN notes = 1..Len(notes)
         /\ DOMAIN leaves' = 1..Len(leaves) + Len(notes)
         /\ \A i \in 1..Len(leaves) : leaves'[i] = leaves[i]
         /\ \A i \in 1..Len(notes) : leaves'[Len(leaves) + i].note = notes[i]
<1>1. /\ leaves \in Seq(LeafRecords) /\ Len(leaves) \in Nat /\ DOMAIN leaves = 1..Len(leaves)
      /\ Len(notes) \in Nat /\ DOMAIN notes = 1..Len(notes)
      /\ new \in Seq(LeafRecords) /\ Len(new) = Len(notes) /\ leaves' = leaves \o new
      /\ \A i \in 1..Len(notes) : new[i].note = notes[i]
  BY DEF WellFormed, Added
<1>2. /\ leaves' \in Seq(LeafRecords) /\ Len(leaves') = Len(leaves) + Len(notes)
      /\ \A i \in 1..Len(leaves) + Len(notes) :
           leaves'[i] = IF i <= Len(leaves) THEN leaves[i] ELSE new[i - Len(leaves)]
  BY <1>1, ConcatProperties
<1>3. ASSUME NEW i \in 1..Len(notes) PROVE leaves'[Len(leaves) + i] = new[i]
  <2>1. /\ Len(leaves) + i \in 1..Len(leaves) + Len(notes) /\ ~(Len(leaves) + i <= Len(leaves))
        /\ (Len(leaves) + i) - Len(leaves) = i
    BY <1>1
  <2> QED
    BY <1>2, <2>1
<1>4. \A i \in 1..Len(leaves) : leaves'[i] = leaves[i]
  BY <1>1, <1>2
<1>5. DOMAIN leaves' = 1..Len(leaves) + Len(notes)
  BY <1>2
<1> QED
  BY <1>1, <1>2, <1>3, <1>4, <1>5

(* So they are in the tree besides the others.                                   *)
LEMMA InsertLeaves ==
  ASSUME WellFormed, NEW notes \in Seq(Notes), NEW new, Added(new, notes)
  PROVE  leaves' \in Seq(LeafRecords) /\ InTree' = InTree \cup ToSet(notes)
<1>1. /\ leaves' \in Seq(LeafRecords)
      /\ Len(leaves) \in Nat /\ DOMAIN leaves = 1..Len(leaves)
      /\ Len(notes) \in Nat /\ DOMAIN notes = 1..Len(notes)
      /\ DOMAIN leaves' = 1..Len(leaves) + Len(notes)
      /\ \A i \in 1..Len(leaves) : leaves'[i] = leaves[i]
      /\ \A i \in 1..Len(notes) : leaves'[Len(leaves) + i].note = notes[i]
  BY LeavesAfter
<1>2. ASSUME NEW n \in InTree' PROVE n \in InTree \cup ToSet(notes)
  <2>1. PICK i \in 1..Len(leaves) + Len(notes) : n = leaves'[i].note
    BY <1>1 DEF InTree
  <2>2. CASE i \in 1..Len(leaves)
    BY <1>1, <2>1, <2>2 DEF InTree
  <2>3. CASE i \notin 1..Len(leaves)
    <3>1. i - Len(leaves) \in 1..Len(notes) /\ i = Len(leaves) + (i - Len(leaves))
      BY <1>1, <2>3
    <3> QED
      BY <1>1, <2>1, <3>1 DEF ToSet
  <2> QED
    BY <2>2, <2>3
<1>3. ASSUME NEW n \in InTree PROVE n \in InTree'
  <2>1. PICK i \in 1..Len(leaves) : n = leaves[i].note
    BY <1>1 DEF InTree
  <2>2. i \in DOMAIN leaves' /\ leaves'[i] = leaves[i]
    BY <1>1
  <2> QED
    BY <2>1, <2>2 DEF InTree
<1>4. ASSUME NEW n \in ToSet(notes) PROVE n \in InTree'
  <2>1. PICK i \in 1..Len(notes) : n = notes[i]
    BY <1>1 DEF ToSet
  <2>2. Len(leaves) + i \in DOMAIN leaves' /\ leaves'[Len(leaves) + i].note = n
    BY <1>1, <2>1
  <2> QED
    BY <2>2 DEF InTree
<1> QED
  BY <1>1, <1>2, <1>3, <1>4

(* A transaction of the wallet adds the leaves of its notes.                      *)
LEMMA InsertAdds ==
  ASSUME WellFormed, NEW notes \in Seq(Notes), NEW via, Insert(notes, via),
         via \in {"deposit", "transfer"} \/ Len(notes) = 0
  PROVE  \E new : Added(new, notes)
<1> DEFINE new == [i \in DOMAIN notes |->
                     Leaf(notes[i], via, Len(leaves), Len(leaves) + i - 1)]
<1>1. /\ Len(leaves) \in Nat /\ Len(notes) \in Nat /\ DOMAIN notes = 1..Len(notes)
      /\ leaves' = leaves \o new /\ \A i \in 1..Len(notes) : notes[i] \in Notes
  BY DEF WellFormed, Insert
<1>2. ASSUME NEW i \in 1..Len(notes) PROVE new[i] \in LeafRecords /\ new[i].note = notes[i]
  <2>1. /\ notes[i] \in Notes /\ Len(leaves) + i - 1 \in Nat
        /\ via \in {"deposit", "transfer", "cpi", "mint_from_xburn"}
    BY <1>1
  <2> QED
    BY <1>1, <2>1 DEF Leaf, LeafRecords
<1>3. DOMAIN new = 1..Len(notes)
  BY <1>1
<1> HIDE DEF new
<1>4. new \in Seq(LeafRecords) /\ Len(new) = Len(notes)
  <2>1. new = [i \in 1..Len(notes) |-> new[i]]
    BY <1>1, <1>3 DEF new
  <2> QED
    BY <1>1, <1>2, <2>1
<1> QED
  BY <1>1, <1>2, <1>4 DEF Added

(* So does somebody else's.                                                       *)
LEMMA OtherAdds ==
  ASSUME WellFormed, Other
  PROVE  /\ Note(fresh + 1, Stranger) \in Notes
         /\ \E new : Added(new, <<Note(fresh + 1, Stranger)>>)
<1> DEFINE n == Note(fresh + 1, Stranger)
<1>1. fresh \in Nat /\ fresh + 1 \in 1..MaxNotes /\ Len(leaves) \in Nat
  BY WalletAssumption DEF Other, Draw, WellFormed
<1>2. n \in Notes
  BY <1>1 DEF Note, Notes, Owners
<1>3. PICK via, index :
        /\ via \in OtherKinds /\ index \in {Len(leaves), NoIndex} \cup StrayIndexes
        /\ leaves' = Append(leaves, Leaf(n, via, Len(leaves), index))
  BY DEF Other
<1> HIDE DEF n
<1> DEFINE row == Leaf(n, via, Len(leaves), index)
<1>4. row \in LeafRecords /\ row.note = n
  <2>1. index \in Nat \cup {NoIndex} /\ via \in {"deposit", "transfer", "cpi", "mint_from_xburn"}
    BY <1>1, <1>3, WalletAssumption
  <2> QED
    BY <1>1, <1>2, <2>1 DEF Leaf, LeafRecords
<1>5. leaves' = Append(leaves, row) /\ leaves \in Seq(LeafRecords)
  BY <1>3 DEF WellFormed
<1> HIDE DEF row
<1>6. leaves' = leaves \o <<row>> /\ <<row>> \in Seq(LeafRecords)
  BY <1>4, <1>5, AppendIsConcat
<1>7. Len(<<row>>) = Len(<<n>>) /\ \A i \in 1..Len(<<n>>) : <<row>>[i].note = <<n>>[i]
  BY <1>4
<1>8. Added(<<row>>, <<n>>)
  BY <1>6, <1>7 DEF Added
<1> QED
  BY <1>2, <1>8 DEF n

(* A command up to the proof: what it will send is well formed, and its secrets  *)
(* are in a file already.                                                        *)
LEMMA Prepared ==
  ASSUME IInv, NEW p \in Procs, NEW op \in {"deposit", "spend", "transfer"},
         NEW note, NEW root, NEW whole, NEW outs \in Seq(Notes), NEW view,
         Start(p), Prepare(p, op, note, root, whole, outs, view),
         Len(outs) = [deposit |-> 1, spend |-> 0, transfer |-> 2][op],
         fresh' \in Nat, files' \in [Paths -> Notes \cup {NoFile}],
         OwnFiles \subseteq OwnFiles',
         \A n \in ToSet(outs) : n.owner = "self" => n \in OwnFiles'
  PROVE  IInv'
<1> DEFINE c == [op |-> op, note |-> note, root |-> root, whole |-> whole,
                 outs |-> outs, view |-> view]
<1>1. /\ cmd' = [cmd EXCEPT ![p] = c]
      /\ UNCHANGED <<found, inflight, leaves, nullifiers, memos>>
  BY DEF Start, Prepare, pool
<1>2. IsTx(c) /\ c.outs = outs /\ c.op = op
  BY DEF IsTx
<1>3. ~IsScan(c)
  BY <1>2 DEF IsScan
<1> HIDE DEF c
<1>4. DOMAIN cmd' = Procs /\ cmd'[p] = c /\ \A q \in Procs : q # p => cmd'[q] = cmd[q]
  BY <1>1, CmdPut DEF IInv
<1>5. InTree' = InTree
  BY <1>1 DEF InTree
<1>6. WellFormed'
  BY <1>1, <1>2, <1>4 DEF IInv, WellFormed
<1>7. SecretsSafe'
  BY <1>1, <1>2, <1>4, <1>5 DEF IInv, SecretsSafe
<1>8. MemosOfPool'
  BY <1>1, <1>3, <1>4, <1>5 DEF IInv, MemosOfPool
<1>9. DiscoveredNotesAreReal'
  BY <1>1, <1>5 DEF IInv, DiscoveredNotesAreReal
<1> QED
  BY <1>6, <1>7, <1>8, <1>9 DEF IInv

(* The notes that a command draws are notes.                                     *)
LEMMA Drawn ==
  ASSUME WellFormed, NEW k \in {1, 2}, Draw(k), NEW i \in 1..k, NEW o \in Owners
  PROVE  Note(fresh + i, o) \in Notes /\ fresh' \in Nat
<1>1. fresh \in Nat /\ fresh + k <= MaxNotes /\ fresh' = fresh + k /\ MaxNotes \in Nat
  BY WalletAssumption DEF WellFormed, Draw
<1>2. fresh + i \in 1..MaxNotes
  BY <1>1
<1> QED
  BY <1>1, <1>2 DEF Note, Notes

(* What a harvest lets a command prepare.                                        *)
LEMMA Harvested ==
  ASSUME NEW p, NEW op, NEW note, NEW outs, NEW view, Harvest(p, op, note, outs, view)
  PROVE  /\ Start(p) /\ (faults' = faults \/ Fault)
         /\ \E missed \in SUBSET Txs :
              Prepare(p, op, note, reconstruct_path(fetchLeaves(missed)), missed = {}, outs, view)
<1>1. PICK read \in harvest_leaves :
        /\ IF read.whole THEN UNCHANGED faults ELSE Fault
        /\ Prepare(p, op, note, reconstruct_path(read.list), read.whole, outs, view)
  BY DEF Harvest
<1>2. PICK missed \in SUBSET Txs : read = [list |-> fetchLeaves(missed), whole |-> missed = {}]
  BY DEF harvest_leaves
<1>3. read.list = fetchLeaves(missed) /\ read.whole = (missed = {})
  BY <1>2
<1> QED
  BY <1>1, <1>3 DEF Harvest

(* deposit: the note's file is written first.                                    *)
LEMMA DepositStep ==
  ASSUME IInv, NEW p \in Procs, NEW path \in Paths, deposit(p, path)
  PROVE  IInv'
<1> DEFINE n == Note(fresh + 1, "self")
<1>1. n \in Notes /\ fresh' \in Nat
  BY Drawn DEF deposit, Owners, IInv
<1>2. /\ files' \in [Paths -> Notes \cup {NoFile}] /\ n \in OwnFiles'
      /\ OwnFiles \subseteq OwnFiles'
  BY <1>1, NoteWritten DEF deposit, IInv
<1>3. Start(p) /\ Prepare(p, "deposit", n, NoRoot, TRUE, <<n>>, NoFile)
  BY DEF deposit
<1> HIDE DEF n
<1>4. <<n>> \in Seq(Notes) /\ Len(<<n>>) = 1 /\ ToSet(<<n>>) = {n}
  BY <1>1 DEF ToSet
<1>5. [deposit |-> 1, spend |-> 0, transfer |-> 2]["deposit"] = 1
  OBVIOUS
<1> QED
  BY <1>1, <1>2, <1>3, <1>4, <1>5, Prepared

(* withdraw and burn insert nothing.                                             *)
LEMMA SpendStep ==
  ASSUME IInv, NEW p \in Procs, NEW note \in Notes, Spend(p, note)
  PROVE  IInv'
<1> DEFINE outs == <<>>
<1>0. Harvest(p, "spend", note, outs, NoFile) /\ UNCHANGED <<fresh, files>>
  BY DEF Spend, withdraw, burn
<1>1. PICK root, whole : /\ Start(p) /\ Prepare(p, "spend", note, root, whole, outs, NoFile)
                         /\ UNCHANGED <<fresh, files>>
  BY <1>0, Harvested
<1>2. outs \in Seq(Notes) /\ Len(outs) = 0 /\ ToSet(outs) = {}
  BY DEF ToSet
<1>3. [deposit |-> 1, spend |-> 0, transfer |-> 2]["spend"] = 0
  OBVIOUS
<1>4. OwnFiles' = OwnFiles /\ fresh' \in Nat /\ files' \in [Paths -> Notes \cup {NoFile}]
  BY <1>1 DEF OwnFiles, IInv, WellFormed
<1> HIDE DEF outs
<1> QED
  BY <1>1, <1>2, <1>3, <1>4, Prepared

(* transfer: the change note's file is written first; the recipient's note is     *)
(* not the wallet's to keep.                                                      *)
LEMMA TransferStep ==
  ASSUME IInv, NEW p \in Procs, NEW note \in Notes, NEW path \in Paths,
         NEW to \in Recipients, transfer(p, note, to, path, to)
  PROVE  IInv'
<1> DEFINE out0 == Note(fresh + 1, to)
           out1 == Note(fresh + 2, "self")
           outs == <<out0, out1>>
<1>0. to \in Owners /\ to # "self" /\ "self" \in Owners
  BY WalletAssumption DEF Owners
<1>1. out0 \in Notes /\ out1 \in Notes /\ fresh' \in Nat
  <2>1. WellFormed /\ Draw(2)
    BY DEF transfer, IInv
  <2>2. 1 \in 1..2 /\ 2 \in 1..2
    OBVIOUS
  <2> QED
    BY <1>0, <2>1, <2>2, Drawn
<1>2. /\ files' \in [Paths -> Notes \cup {NoFile}] /\ out1 \in OwnFiles'
      /\ OwnFiles \subseteq OwnFiles'
  BY <1>1, NoteWritten DEF transfer, IInv
<1>3. PICK root, whole : Start(p) /\ Prepare(p, "transfer", note, root, whole, outs, to)
  <2>1. Harvest(p, "transfer", note, outs, to)
    BY DEF transfer
  <2> QED
    BY <2>1, Harvested
<1>4. out0.owner # "self"
  BY <1>0 DEF Note
<1> HIDE DEF out0, out1
<1>5. outs \in Seq(Notes) /\ Len(outs) = 2 /\ ToSet(outs) = {out0, out1}
  <2>1. DOMAIN outs = {1, 2} /\ outs[1] = out0 /\ outs[2] = out1
    OBVIOUS
  <2> QED
    BY <1>1, <2>1 DEF ToSet
<1>6. [deposit |-> 1, spend |-> 0, transfer |-> 2]["transfer"] = 2
  OBVIOUS
<1> HIDE DEF outs
<1> QED
  BY <1>1, <1>2, <1>3, <1>4, <1>5, <1>6, Prepared

(* A command that prepares no transaction: it waits, is done, or scans.            *)
Quiet(c) ==
  \/ c.op \in {"none", "confirm"}
  \/ IsScan(c) /\ (c.memos # NoFile => c.memos[1] \subseteq memos)

(* The files and the pool stay; at most the command's own transaction is sent, and *)
(* what has been found is in the pool.                                             *)
Still(p) ==
  /\ UNCHANGED <<fresh, files, leaves, nullifiers, memos>>
  /\ \A tx \in inflight' : tx \in inflight \/ (tx = cmd[p] /\ IsTx(cmd[p]))
  /\ \A n \in found' : n.owner = Identity /\ n \in InTree

(* A command that draws no note keeps the invariant.                               *)
LEMMA OtherCommand ==
  ASSUME IInv, NEW p \in Procs, NEW c, cmd' = [cmd EXCEPT ![p] = c], Quiet(c), Still(p)
  PROVE  IInv'
<1>0. DOMAIN cmd' = Procs /\ cmd'[p] = c /\ \A q \in Procs : q # p => cmd'[q] = cmd[q]
  BY CmdPut DEF IInv
<1>1. InTree' = InTree /\ OwnFiles' = OwnFiles
  BY DEF InTree, OwnFiles, Still
<1>2. ~IsTx(c) /\ (c.op \in {"none", "confirm"} => ~IsScan(c))
  BY DEF IsTx, IsScan, Quiet
<1>3. WellFormed'
  BY <1>0 DEF IInv, WellFormed, Quiet, Still
<1>4. SecretsSafe'
  BY <1>0, <1>1, <1>2 DEF IInv, SecretsSafe, Still
<1>5. MemosOfPool'
  BY <1>0, <1>1, <1>2 DEF IInv, MemosOfPool, Quiet, Still
<1>6. DiscoveredNotesAreReal'
  BY <1>1 DEF DiscoveredNotesAreReal, Still
<1> QED
  BY <1>3, <1>4, <1>5, <1>6 DEF IInv

(* Submission, confirmation and the end of a command.                             *)
LEMMA SubmitStep ==
  ASSUME IInv, NEW p \in Procs, submit(p) \/ confirm(p) \/ stop(p)
  PROVE  IInv'
<1>0. \A n \in found : n.owner = Identity /\ n \in InTree
  BY DEF IInv, DiscoveredNotesAreReal
<1>1. CASE submit(p)
  <2> DEFINE c == [op |-> "confirm", tx |-> cmd[p]]
  <2>1. /\ cmd' = [cmd EXCEPT ![p] = c] /\ c.op = "confirm"
        /\ UNCHANGED <<fresh, files, found, leaves, nullifiers, memos>>
        /\ inflight' = inflight \cup {cmd[p]}
        /\ cmd[p].op \in {"deposit", "spend", "transfer"}
    BY <1>1 DEF submit, pool
  <2>2. IsTx(cmd[p])
    BY <2>1 DEF IInv, WellFormed, IsScan
  <2> HIDE DEF c
  <2>3. Quiet(c) /\ Still(p)
    BY <1>0, <2>1, <2>2 DEF Quiet, Still
  <2> QED
    BY <2>1, <2>3, OtherCommand
<1>2. CASE confirm(p) \/ stop(p)
  <2>1. /\ cmd' = [cmd EXCEPT ![p] = Idle]
        /\ UNCHANGED <<fresh, files, found, inflight, leaves, nullifiers, memos>>
    BY <1>2 DEF confirm, stop, pool
  <2>2. Idle.op \in {"none", "confirm"}
    BY DEF Idle
  <2>3. Quiet(Idle) /\ Still(p)
    BY <1>0, <2>1, <2>2 DEF Quiet, Still
  <2> QED
    BY <2>1, <2>3, OtherCommand
<1> QED
  BY <1>1, <1>2

(* A scan, from its start to the files it writes.                                  *)
LEMMA ScanStep ==
  ASSUME IInv, NEW p \in Procs, list_unspent(p) \/ Scan(p)
  PROVE  IInv'
<1>0. /\ \A n \in found : n.owner = Identity /\ n \in InTree
      /\ \A m \in memos : m.commitment \in InTree
      /\ IsScan(cmd[p]) /\ cmd[p].memos # NoFile => cmd[p].memos[1] \subseteq memos
  BY DEF IInv, DiscoveredNotesAreReal, MemosOfPool
<1>a. cmd[p].op = "scan" => IsScan(cmd[p])
  BY DEF IInv, WellFormed, IsTx
<1>1. CASE list_unspent(p)
  <2> DEFINE c == [op |-> "scan", memos |-> NoFile, spent |-> NoFile]
  <2>1. /\ cmd' = [cmd EXCEPT ![p] = c]
        /\ UNCHANGED <<fresh, files, found, inflight, leaves, nullifiers, memos>>
    BY <1>1 DEF list_unspent, pool
  <2>2. IsScan(c) /\ c.memos = NoFile
    BY DEF IsScan
  <2> HIDE DEF c
  <2>4. Quiet(c) /\ Still(p)
    BY <1>0, <2>1, <2>2 DEF Quiet, Still
  <2> QED
    BY <2>1, <2>2, <2>4, OtherCommand
<1>2. CASE fetchTransferMemos(p)
  <2>0. PICK missed \in SUBSET memos : cmd' = [cmd EXCEPT ![p].memos = <<memos \ missed>>]
    BY <1>2 DEF fetchTransferMemos
  <2> DEFINE seen == memos \ missed
             c == [op |-> "scan", memos |-> <<seen>>, spent |-> cmd[p].spent]
  <2>1. /\ cmd' = [cmd EXCEPT ![p].memos = <<seen>>] /\ cmd[p].op = "scan"
        /\ UNCHANGED <<fresh, files, found, inflight, leaves, nullifiers, memos>>
        /\ seen \subseteq memos
    BY <1>2, <2>0 DEF fetchTransferMemos, pool
  <2> HIDE DEF seen
  <2>2. cmd' = [cmd EXCEPT ![p] = c]
    <3>1. PICK a, b : cmd[p] = [op |-> "scan", memos |-> a, spent |-> b]
      BY <1>a, <2>1 DEF IsScan
    <3>2. cmd' = [cmd EXCEPT ![p] = [cmd[p] EXCEPT !.memos = <<seen>>]]
      BY <2>1
    <3>3. [cmd[p] EXCEPT !.memos = <<seen>>] = c
      BY <3>1
    <3> QED
      BY <3>2, <3>3
  <2>3. IsScan(c) /\ c.memos[1] = seen
    BY DEF IsScan
  <2> HIDE DEF c
  <2>4. Quiet(c) /\ Still(p)
    BY <1>0, <2>1, <2>2, <2>3 DEF Quiet, Still
  <2> QED
    BY <2>1, <2>2, <2>4, OtherCommand
<1>3. CASE fetchNullifierSet(p)
  <2> DEFINE c == [op |-> "scan", memos |-> cmd[p].memos, spent |-> <<nullifiers>>]
  <2>1. /\ cmd' = [cmd EXCEPT ![p].spent = <<nullifiers>>] /\ cmd[p].op = "scan"
        /\ UNCHANGED <<fresh, files, found, inflight, leaves, nullifiers, memos>>
    BY <1>3 DEF fetchNullifierSet, pool
  <2>2. cmd' = [cmd EXCEPT ![p] = c]
    <3>1. PICK a, b : cmd[p] = [op |-> "scan", memos |-> a, spent |-> b]
      BY <1>a, <2>1 DEF IsScan
    <3>2. cmd' = [cmd EXCEPT ![p] = [cmd[p] EXCEPT !.spent = <<nullifiers>>]]
      BY <2>1
    <3>3. [cmd[p] EXCEPT !.spent = <<nullifiers>>] = c
      BY <3>1
    <3> QED
      BY <3>2, <3>3
  <2>3. IsScan(c) /\ c.memos = cmd[p].memos
    BY DEF IsScan
  <2> HIDE DEF c
  <2>4. Quiet(c) /\ Still(p)
    BY <1>0, <1>a, <2>1, <2>2, <2>3 DEF Quiet, Still
  <2> QED
    BY <2>1, <2>2, <2>4, OtherCommand
<1>4. CASE write_found(p)
  <2>1. /\ cmd' = [cmd EXCEPT ![p] = Idle]
        /\ UNCHANGED <<fresh, files, inflight, leaves, nullifiers, memos>>
        /\ cmd[p].op = "scan" /\ cmd[p].memos # NoFile
    BY <1>4 DEF write_found, pool
  <2>2. cmd[p].memos[1] \subseteq memos
    BY <1>0, <1>a, <2>1
  <2>3. ASSUME NEW n \in found' PROVE n.owner = Identity /\ n \in InTree
    <3>1. CASE n \in found
      BY <1>0, <3>1
    <3>2. CASE n \notin found
      <4>1. PICK m \in cmd[p].memos[1] : /\ n = Note(m.opening, Identity)
                                         /\ Discovers(m, cmd[p].spent[1])
        BY <1>4, <2>3, <3>2 DEF write_found
      <4>2. n = m.commitment
        BY <4>1 DEF Discovers
      <4> QED
        BY <1>0, <2>2, <4>1, <4>2 DEF Note
    <3> QED
      BY <3>1, <3>2
  <2>4. Idle.op \in {"none", "confirm"}
    BY DEF Idle
  <2>5. Quiet(Idle) /\ Still(p)
    BY <2>1, <2>3, <2>4 DEF Quiet, Still
  <2> QED
    BY <2>1, <2>5, OtherCommand
<1> QED
  BY <1>1, <1>2, <1>3, <1>4 DEF Scan

-----------------------------------------------------------------------------
(* The pool's steps.                                                           *)

(* Leaves come in: none of them is a note of the wallet without a file, and a     *)
(* new memo is beside one of them.                                               *)
LEMMA PoolGrows ==
  ASSUME IInv, NEW notes \in Seq(Notes), NEW new, Added(new, notes),
         fresh' \in Nat, UNCHANGED <<files, found, cmd>>, inflight' \subseteq inflight,
         \A n \in ToSet(notes) : n.owner = "self" => n \in OwnFiles,
         memos \subseteq memos',
         \A m \in memos' : m \in memos \/ m.commitment \in ToSet(notes)
  PROVE  IInv'
<1>1. /\ leaves' \in Seq(LeafRecords)
      /\ InTree' = InTree \cup ToSet(notes) /\ OwnFiles' = OwnFiles
  BY InsertLeaves DEF IInv, OwnFiles
<1>2. WellFormed'
  BY <1>1 DEF IInv, WellFormed
<1>3. SecretsSafe'
  BY <1>1 DEF IInv, SecretsSafe
<1>4. MemosOfPool'
  BY <1>1 DEF IInv, MemosOfPool
<1>5. DiscoveredNotesAreReal'
  BY <1>1 DEF IInv, DiscoveredNotesAreReal
<1> QED
  BY <1>2, <1>3, <1>4, <1>5 DEF IInv

(* The pool's leaves and memos stay.                                             *)
LEMMA PoolStays ==
  ASSUME IInv, UNCHANGED <<fresh, files, found, cmd, leaves, nullifiers, memos>>,
         inflight' \subseteq inflight
  PROVE  IInv'
<1>1. InTree' = InTree /\ OwnFiles' = OwnFiles
  BY DEF InTree, OwnFiles
<1>2. WellFormed'
  BY DEF IInv, WellFormed
<1>3. SecretsSafe'
  BY <1>1 DEF IInv, SecretsSafe
<1>4. MemosOfPool'
  BY <1>1 DEF IInv, MemosOfPool
<1>5. DiscoveredNotesAreReal'
  BY <1>1 DEF IInv, DiscoveredNotesAreReal
<1> QED
  BY <1>2, <1>3, <1>4, <1>5 DEF IInv

(* A transaction lands: its notes are in files, or are not the wallet's, and its  *)
(* memo is beside the first of them.                                              *)
LEMMA LandStep ==
  ASSUME IInv, NEW tx \in inflight, land(tx)
  PROVE  IInv'
<1>1. /\ inflight' \subseteq inflight /\ UNCHANGED <<fresh, files, found, cmd>>
      /\ fresh \in Nat /\ fresh' \in Nat
  BY DEF land, IInv, WellFormed
<1>2. CASE ~Accepted(tx)
  BY <1>1, <1>2, PoolStays DEF land, pool
<1>3. CASE Accepted(tx)
  <2>1. /\ Insert(tx.outs, tx.op) /\ memos' = memos \cup attach_recipient_memo(tx)
    BY <1>3 DEF land
  <2>2. IsTx(tx)
    BY DEF IInv, WellFormed
  <2>3. /\ tx.outs \in Seq(Notes) /\ tx.op \in {"deposit", "spend", "transfer"}
        /\ tx.op = "spend" => Len(tx.outs) = 0
        /\ tx.op = "transfer" => Len(tx.outs) = 2
    BY <2>2 DEF IsTx
  <2>4. \A n \in ToSet(tx.outs) : n.owner = "self" => n \in OwnFiles
    BY DEF IInv, SecretsSafe
  <2>5. tx.op = "transfer" => tx.outs[1] \in ToSet(tx.outs)
    BY <2>3 DEF ToSet
  <2>6. \A m \in memos' : m \in memos \/ m.commitment \in ToSet(tx.outs)
    BY <2>1, <2>5 DEF attach_recipient_memo, Memo
  <2>7. PICK new : Added(new, tx.outs)
    <3>1. tx.op \in {"deposit", "transfer"} \/ Len(tx.outs) = 0
      BY <2>3
    <3> QED
      BY <2>1, <2>3, <3>1, InsertAdds DEF IInv
  <2> QED
    BY <1>1, <2>1, <2>3, <2>4, <2>6, <2>7, PoolGrows
<1> QED
  BY <1>2, <1>3

(* Somebody else's note, however it gets in, is not the wallet's to keep, and a    *)
(* memo beside it is beside a leaf.                                                *)
LEMMA OthersStep ==
  ASSUME IInv, Other
  PROVE  IInv'
<1> DEFINE n == Note(fresh + 1, Stranger)
           notes == <<n>>
<1>1. n \in Notes /\ \E new : Added(new, notes)
  BY OtherAdds DEF IInv
<1>2. n.owner # "self"
  BY WalletAssumption DEF Note
<1>3. /\ UNCHANGED <<files, found, cmd>> /\ inflight' = inflight
      /\ memos' = memos \/ memos' = memos \cup {Memo(Identity, fresh + 1, n)}
      /\ fresh' \in Nat
  BY DEF Other, Draw, IInv, WellFormed
<1>4. \A m \in memos' : m \in memos \/ m.commitment = n
  BY <1>3 DEF Memo
<1> HIDE DEF n
<1>5. notes \in Seq(Notes) /\ ToSet(notes) = {n}
  BY <1>1 DEF ToSet
<1> HIDE DEF notes
<1>6. \A x \in ToSet(notes) : x.owner = "self" => x \in OwnFiles
  BY <1>2, <1>5
<1>7. \A m \in memos' : m \in memos \/ m.commitment \in ToSet(notes)
  BY <1>4, <1>5
<1>8. memos \subseteq memos' /\ inflight' \subseteq inflight
  BY <1>3
<1> QED
  BY <1>1, <1>3, <1>5, <1>6, <1>7, <1>8, PoolGrows

-----------------------------------------------------------------------------
(* The invariant holds at the start.                                              *)
LEMMA InitInv ==
  ASSUME Init
  PROVE  IInv
<1>1. InTree = {} /\ ~IsScan(Idle) /\ ~IsTx(Idle) /\ Idle.op = "none"
  BY DEF Init, InTree, IsScan, IsTx, Idle
<1>2. \A p \in Procs : cmd[p] = Idle
  BY DEF Init
<1>3. leaves \in Seq(LeafRecords)
  BY DEF Init
<1>4. WellFormed
  BY <1>1, <1>2, <1>3 DEF Init, WellFormed
<1>5. SecretsSafe
  BY <1>1, <1>2 DEF Init, SecretsSafe
<1>6. MemosOfPool
  BY <1>1, <1>2 DEF Init, MemosOfPool
<1> QED
  BY <1>4, <1>5, <1>6 DEF Init, IInv, DiscoveredNotesAreReal

(* Every step keeps the invariant.                                                 *)
LEMMA NextInv ==
  ASSUME IInv, [Next]_vars
  PROVE  IInv'
<1>1. ASSUME NEW p \in Procs, NEW path \in Paths, deposit(p, path) PROVE IInv'
  BY <1>1, DepositStep
<1>2. ASSUME NEW p \in Procs, NEW note \in Notes, Spend(p, note) PROVE IInv'
  BY <1>2, SpendStep
<1>3. ASSUME NEW p \in Procs, NEW note \in Notes, NEW path \in Paths,
             NEW to \in Recipients, transfer(p, note, to, path, to)
      PROVE  IInv'
  BY <1>3, TransferStep
<1>4. ASSUME NEW p \in Procs, list_unspent(p) \/ Scan(p) PROVE IInv'
  BY <1>4, ScanStep
<1>5. ASSUME NEW p \in Procs, submit(p) \/ confirm(p) \/ stop(p) PROVE IInv'
  BY <1>5, SubmitStep
<1>6. ASSUME NEW tx \in inflight, land(tx) PROVE IInv'
  BY <1>6, LandStep
<1>7. ASSUME NEW tx \in inflight, lose(tx) PROVE IInv'
  <2>1. UNCHANGED <<fresh, files, found, cmd, leaves, nullifiers, memos>>
    BY <1>7 DEF lose, pool
  <2>2. inflight' \subseteq inflight
    BY <1>7 DEF lose
  <2> QED
    BY <2>1, <2>2, PoolStays
<1>8. CASE Other
  BY <1>8, OthersStep
<1>9. CASE UNCHANGED vars
  BY <1>9, PoolStays DEF vars
<1> QED
  BY <1>1, <1>2, <1>3, <1>4, <1>5, <1>6, <1>7, <1>8, <1>9 DEF Next

(* SecretsAreKept, from the secrets of the commands as well.                        *)
LEMMA KeptFromSafe ==
  ASSUME IInv
  PROVE  SecretsAreKept
<1>1. SUFFICES ASSUME NEW n \in InTree \cup UNION {ToSet(tx.outs) : tx \in inflight},
                      n.owner = "self"
               PROVE  n \in OwnFiles
  BY DEF SecretsAreKept
<1>2. CASE n \in InTree
  BY <1>1, <1>2 DEF IInv, SecretsSafe
<1>3. CASE n \notin InTree
  <2>1. PICK tx \in inflight : n \in ToSet(tx.outs)
    BY <1>1, <1>3
  <2> QED
    BY <1>1, <2>1 DEF IInv, SecretsSafe
<1> QED
  BY <1>2, <1>3

(* Whatever command is killed when, and however late a transaction lands, the       *)
(* secrets of each of the wallet's notes that is in the pool, or may get there, are *)
(* in a file: cmd_deposit and cmd_transfer write it before they prove.               *)
THEOREM SecretsKept == Spec => []SecretsAreKept
<1>1. IInv /\ [Next]_vars => IInv'
  BY NextInv
<1>2. Init => IInv
  BY InitInv
<1>3. IInv => SecretsAreKept
  BY KeptFromSafe
<1> QED
  BY <1>1, <1>2, <1>3, PTL DEF Spec

(* What list-unspent writes to a file is a note of the identity that is in the pool, *)
(* whatever memos others attach and however old the lists it has fetched are.        *)
THEOREM FoundAreReal == Spec => []DiscoveredNotesAreReal
<1>1. IInv /\ [Next]_vars => IInv'
  BY NextInv
<1>2. Init => IInv
  BY InitInv
<1>3. IInv => DiscoveredNotesAreReal
  BY DEF IInv
<1> QED
  BY <1>1, <1>2, <1>3, PTL DEF Spec

-----------------------------------------------------------------------------
(* Type correctness.                                                             *)

\* What a transaction would add to the tree: secrets that no leaf has.
IsNew(x) ==
  /\ \A k \in DOMAIN x.outs : x.outs[k].blinding <= fresh
  /\ \A k \in DOMAIN x.outs, i \in DOMAIN leaves :
       x.outs[k].blinding # leaves[i].note.blinding
  /\ \A k, l \in DOMAIN x.outs : x.outs[k].blinding = x.outs[l].blinding => k = l

Apart(x, y) ==
  \A k \in DOMAIN x.outs, l \in DOMAIN y.outs : x.outs[k].blinding # y.outs[l].blinding

\* Secrets are drawn once: each is in one leaf, in one transaction that may still land
\* or in one command that may still submit.
DrawnOnce ==
  /\ \A i \in DOMAIN leaves : leaves[i].note.blinding <= fresh
  /\ \A i, j \in DOMAIN leaves : leaves[i].note.blinding = leaves[j].note.blinding => i = j
  /\ \A tx \in inflight : IsNew(tx)
  /\ \A s, t \in inflight : s # t => Apart(s, t)
  /\ \A p \in Procs : IsTx(cmd[p]) => /\ IsNew(cmd[p])
                                      /\ \A tx \in inflight : Apart(cmd[p], tx)
  /\ \A p, q \in Procs : IsTx(cmd[p]) /\ IsTx(cmd[q]) /\ p # q => Apart(cmd[p], cmd[q])

\* A transfer has a view key to encrypt its memo for.
Sendable(x) == x \in Tx /\ (x.op = "transfer" => x.view \in Owners)

Typed ==
  /\ fresh <= MaxNotes /\ faults \in 0..MaxFaults
  /\ found \subseteq Notes /\ nullifiers \subseteq Notes
  /\ \A p \in Procs : IsTx(cmd[p]) => Sendable(cmd[p])
  /\ \A tx \in inflight : Sendable(tx)
  /\ \A m \in memos : m.view \in Owners /\ m.commitment \in Notes

TInv == DrawnOnce /\ Typed

(* The leaves, one by one.                                                         *)
LEMMA LeavesType ==
  ASSUME WellFormed
  PROVE  /\ Len(leaves) \in Nat /\ DOMAIN leaves = 1..Len(leaves)
         /\ \A i \in DOMAIN leaves : leaves[i].note \in Notes
<1>1. leaves \in Seq(LeafRecords)
  BY DEF WellFormed
<1>2. \A l \in LeafRecords : l.note \in Notes
  BY DEF LeafRecords
<1> QED
  BY <1>1, <1>2

(* Leaves have different secrets, so there are no more of them than were drawn.    *)
LEMMA FewLeaves ==
  ASSUME WellFormed, DrawnOnce
  PROVE  Len(leaves) \in Nat /\ Len(leaves) <= fresh
<1>1. /\ fresh \in Nat /\ Len(leaves) \in Nat /\ DOMAIN leaves = 1..Len(leaves)
      /\ \A i \in 1..Len(leaves) : leaves[i].note \in Notes
  BY LeavesType DEF WellFormed
<1> DEFINE secret == [i \in 1..Len(leaves) |-> leaves[i].note.blinding]
<1>2. secret \in [1..Len(leaves) -> 1..fresh]
  <2>1. ASSUME NEW i \in 1..Len(leaves) PROVE leaves[i].note.blinding \in 1..fresh
    <3>1. leaves[i].note.blinding \in 1..MaxNotes /\ leaves[i].note.blinding <= fresh
      BY <1>1 DEF DrawnOnce, Notes
    <3> QED
      BY <1>1, <3>1, WalletAssumption
  <2> QED
    BY <2>1
<1>3. \A i, j \in 1..Len(leaves) : secret[i] = secret[j] => i = j
  BY <1>1 DEF DrawnOnce
<1> HIDE DEF secret
<1>4. /\ IsFiniteSet(1..Len(leaves)) /\ Cardinality(1..Len(leaves)) = Len(leaves)
      /\ IsFiniteSet(1..fresh) /\ Cardinality(1..fresh) = fresh
  <2>1. ASSUME NEW n \in Nat PROVE IsFiniteSet(1..n) /\ Cardinality(1..n) = n
    <3>1. IsFiniteSet(1..n) /\ Cardinality(1..n) = IF 1 > n THEN 0 ELSE n - 1 + 1
      BY FS_Interval
    <3> QED
      BY <3>1
  <2> QED
    BY <1>1, <2>1
<1>5. SUFFICES ASSUME fresh < Len(leaves) PROVE FALSE
  BY <1>1
<1>6. Cardinality(1..fresh) < Cardinality(1..Len(leaves))
  BY <1>4, <1>5
<1>7. \E i, j \in 1..Len(leaves) : i # j /\ secret[i] = secret[j]
  BY <1>2, <1>4, <1>6, FS_PigeonHole, Zenon
<1> QED
  BY <1>3, <1>7

(* A rebuilt path leads to one of the tree's roots, or to none.                    *)
LEMMA RootType ==
  ASSUME WellFormed, DrawnOnce, Typed, NEW list
  PROVE  reconstruct_path(list) \in NoRoot..MaxNotes
<1> DEFINE sizes == {n \in 0..Len(leaves) : list = SubSeq(leaves, 1, n)}
<1>1. Len(leaves) \in Nat /\ Len(leaves) <= MaxNotes /\ MaxNotes \in Nat /\ fresh \in Nat
  BY FewLeaves, WalletAssumption DEF Typed, WellFormed
<1>2. CASE sizes = {}
  BY <1>1, <1>2 DEF reconstruct_path, NoRoot
<1>3. CASE sizes # {}
  <2>1. reconstruct_path(list) \in sizes
    BY <1>3 DEF reconstruct_path
  <2> QED
    BY <1>1, <2>1 DEF NoRoot
<1> QED
  BY <1>2, <1>3

(* A command up to the proof has drawn new secrets for what it will insert.        *)
LEMMA PreparedTyped ==
  ASSUME IInv, TInv, NEW p \in Procs, NEW op \in {"deposit", "spend", "transfer"},
         NEW note \in Notes, NEW root \in NoRoot..MaxNotes, NEW whole \in BOOLEAN, NEW outs \in Seq(Notes),
         NEW view \in Owners \cup {NoFile}, op = "transfer" => view \in Owners,
         Start(p), Prepare(p, op, note, root, whole, outs, view), faults' \in 0..MaxFaults,
         fresh' \in Nat, fresh <= fresh', fresh' <= MaxNotes,
         \A k \in DOMAIN outs : outs[k].blinding > fresh /\ outs[k].blinding <= fresh',
         \A k, l \in DOMAIN outs : outs[k].blinding = outs[l].blinding => k = l
  PROVE  TInv'
<1> DEFINE c == [op |-> op, note |-> note, root |-> root, whole |-> whole,
                 outs |-> outs, view |-> view]
<1>1. /\ cmd' = [cmd EXCEPT ![p] = c]
      /\ UNCHANGED <<found, inflight, leaves, nullifiers, memos>>
  BY DEF Start, Prepare, pool
<1>2. Sendable(c) /\ c.outs = outs
  BY DEF Sendable, Tx
<1> HIDE DEF c
<1>3. cmd'[p] = c /\ \A q \in Procs : q # p => cmd'[q] = cmd[q]
  BY <1>1, CmdPut DEF IInv
<1>4. Typed'
  BY <1>1, <1>2, <1>3 DEF TInv, Typed, Sendable
<1>5. fresh \in Nat /\ \A n \in Notes : n.blinding \in Nat
  BY WalletAssumption DEF IInv, WellFormed, Notes
<1>6. /\ \A k \in DOMAIN outs : outs[k] \in Notes
      /\ \A i \in DOMAIN leaves : leaves[i].note \in Notes
      /\ \A tx \in inflight : \A k \in DOMAIN tx.outs : tx.outs[k] \in Notes
      /\ \A q \in Procs : IsTx(cmd[q]) => \A k \in DOMAIN cmd[q].outs : cmd[q].outs[k] \in Notes
  <2>1. \A i \in DOMAIN leaves : leaves[i].note \in Notes
    BY LeavesType DEF IInv
  <2>2. ASSUME NEW x, IsTx(x) PROVE \A k \in DOMAIN x.outs : x.outs[k] \in Notes
    BY <2>2 DEF IsTx
  <2>3. \A tx \in inflight : IsTx(tx)
    BY DEF IInv, WellFormed
  <2> QED
    BY <2>1, <2>2, <2>3
<1>7. ASSUME NEW x, IsNew(x), \A k \in DOMAIN x.outs : x.outs[k] \in Notes
      PROVE  IsNew(x)' /\ Apart(c, x) /\ Apart(x, c)
  BY <1>1, <1>2, <1>5, <1>6, <1>7 DEF IsNew, Apart
<1>8. IsNew(c)'
  <2>1. \A k \in DOMAIN outs, i \in DOMAIN leaves : outs[k].blinding # leaves[i].note.blinding
    BY <1>5, <1>6 DEF TInv, DrawnOnce
  <2> QED
    BY <1>1, <1>2, <2>1 DEF IsNew
<1>9. \A i \in DOMAIN leaves : leaves[i].note.blinding <= fresh'
  BY <1>5, <1>6 DEF TInv, DrawnOnce
<1>10. \A tx \in inflight : IsNew(tx)' /\ Apart(c, tx)
  BY <1>6, <1>7 DEF TInv, DrawnOnce
<1>11. ASSUME NEW q \in Procs, q # p, IsTx(cmd[q])
       PROVE  IsNew(cmd[q])' /\ Apart(c, cmd[q]) /\ Apart(cmd[q], c)
  <2>1. IsNew(cmd[q]) /\ \A k \in DOMAIN cmd[q].outs : cmd[q].outs[k] \in Notes
    BY <1>6, <1>11 DEF TInv, DrawnOnce
  <2>2. cmd'[q] = cmd[q]
    BY <1>3, <1>11
  <2> QED
    BY <1>7, <2>1, <2>2
<1> QED
  BY <1>1, <1>3, <1>4, <1>8, <1>9, <1>10, <1>11 DEF TInv, DrawnOnce

(* A command that draws nothing keeps the types: at most it submits.               *)
LEMMA OtherTyped ==
  ASSUME IInv, TInv, NEW p \in Procs, NEW c, cmd' = [cmd EXCEPT ![p] = c], ~IsTx(c),
         UNCHANGED <<fresh, leaves, nullifiers, memos>>,
         \A tx \in inflight' : tx \in inflight \/ (tx = cmd[p] /\ IsTx(cmd[p])),
         found' \subseteq Notes, faults' \in 0..MaxFaults
  PROVE  TInv'
<1>1. cmd'[p] = c /\ \A q \in Procs : q # p => cmd'[q] = cmd[q]
  BY CmdPut DEF IInv
<1>2. Typed'
  BY <1>1 DEF TInv, Typed, Sendable
<1>3. \A x : IsNew(x)' <=> IsNew(x)
  BY DEF IsNew
<1>4. ASSUME NEW q \in Procs, IsTx(cmd'[q])
      PROVE  q # p /\ cmd'[q] = cmd[q] /\ IsTx(cmd[q])
  BY <1>1, <1>4
<1>5. ASSUME NEW s \in inflight', NEW t \in inflight', s # t PROVE Apart(s, t)
  <2>1. Apart(t, s) => Apart(s, t)
    BY DEF Apart
  <2>2. (s \in inflight /\ t \in inflight) \/ (s = cmd[p] /\ t \in inflight)
        \/ (t = cmd[p] /\ s \in inflight)
    BY <1>5
  <2> QED
    BY <1>5, <2>1, <2>2 DEF TInv, DrawnOnce
<1>6. \A tx \in inflight' : IsNew(tx)
  BY DEF TInv, DrawnOnce
<1>7. ASSUME NEW q \in Procs, IsTx(cmd'[q])
      PROVE  IsNew(cmd[q]) /\ \A tx \in inflight' : Apart(cmd[q], tx)
  BY <1>4, <1>7 DEF TInv, DrawnOnce
<1>8. ASSUME NEW q \in Procs, NEW r \in Procs, IsTx(cmd'[q]), IsTx(cmd'[r]), q # r
      PROVE  Apart(cmd[q], cmd[r])
  BY <1>4, <1>8 DEF TInv, DrawnOnce
<1>9. /\ \A i \in DOMAIN leaves : leaves[i].note.blinding <= fresh
      /\ \A i, j \in DOMAIN leaves : leaves[i].note.blinding = leaves[j].note.blinding => i = j
  BY DEF TInv, DrawnOnce
<1>10. DrawnOnce'
  <2>1. \A q \in Procs : IsTx(cmd'[q]) => /\ IsNew(cmd[q])'
                                         /\ \A tx \in inflight' : Apart(cmd'[q], tx)
    BY <1>3, <1>4, <1>7
  <2>2. \A q, r \in Procs : IsTx(cmd'[q]) /\ IsTx(cmd'[r]) /\ q # r => Apart(cmd'[q], cmd'[r])
    BY <1>4, <1>8
  <2> QED
    BY <1>3, <1>5, <1>6, <1>9, <2>1, <2>2 DEF DrawnOnce
<1> QED
  BY <1>2, <1>10 DEF TInv

(* Notes come into the tree whose secrets nobody else has.                         *)
LEMMA PoolTyped ==
  ASSUME IInv, TInv, NEW notes \in Seq(Notes), NEW rows, Added(rows, notes),
         fresh' \in Nat, fresh <= fresh', fresh' <= MaxNotes,
         UNCHANGED <<found, cmd, faults>>, inflight' \subseteq inflight,
         nullifiers' \subseteq Notes,
         \A m \in memos' : m \in memos \/ (m.view \in Owners /\ m.commitment \in Notes),
         NEW new, new.outs = notes,
         \A k \in DOMAIN notes : notes[k].blinding <= fresh',
         \A k \in DOMAIN notes, i \in DOMAIN leaves :
           notes[k].blinding # leaves[i].note.blinding,
         \A k, l \in DOMAIN notes : notes[k].blinding = notes[l].blinding => k = l,
         \A tx \in inflight' : Apart(tx, new),
         \A p \in Procs : IsTx(cmd[p]) => Apart(cmd[p], new)
  PROVE  TInv'
<1>1. /\ Len(leaves) \in Nat /\ DOMAIN leaves = 1..Len(leaves)
      /\ Len(notes) \in Nat /\ DOMAIN notes = 1..Len(notes)
      /\ DOMAIN leaves' = 1..Len(leaves) + Len(notes)
      /\ \A i \in 1..Len(leaves) : leaves'[i] = leaves[i]
      /\ \A i \in 1..Len(notes) : leaves'[Len(leaves) + i].note = notes[i]
  BY LeavesAfter DEF IInv
<1>2. Typed'
  BY DEF TInv, Typed, Sendable
<1>3. ASSUME NEW i \in DOMAIN leaves'
      PROVE  \/ i \in DOMAIN leaves /\ leaves'[i] = leaves[i]
             \/ \E k \in DOMAIN notes : i = Len(leaves) + k /\ leaves'[i].note = notes[k]
  <2>1. CASE i <= Len(leaves)
    BY <1>1, <1>3, <2>1
  <2>2. CASE ~(i <= Len(leaves))
    <3>1. PICK k \in 1..Len(notes) : i = Len(leaves) + k
      <4>1. i - Len(leaves) \in 1..Len(notes) /\ i = Len(leaves) + (i - Len(leaves))
        BY <1>1, <1>3, <2>2
      <4> QED
        BY <4>1
    <3>2. leaves'[Len(leaves) + k].note = notes[k]
      BY <1>1
    <3> QED
      BY <1>1, <3>1, <3>2
  <2> QED
    BY <2>1, <2>2
<1>4. fresh \in Nat /\ \A n \in Notes : n.blinding \in Nat
  BY WalletAssumption DEF IInv, WellFormed, Notes
<1>5. \A i \in DOMAIN leaves : leaves[i].note \in Notes
  BY LeavesType DEF IInv
<1>6. \A i \in DOMAIN leaves' : leaves'[i].note.blinding <= fresh'
  <2>1. \A i \in DOMAIN leaves : leaves[i].note.blinding <= fresh'
    BY <1>4, <1>5 DEF TInv, DrawnOnce
  <2> QED
    BY <1>3, <2>1
<1>7. \A i, j \in DOMAIN leaves' :
        leaves'[i].note.blinding = leaves'[j].note.blinding => i = j
  <2> SUFFICES ASSUME NEW i \in DOMAIN leaves', NEW j \in DOMAIN leaves',
                      leaves'[i].note.blinding = leaves'[j].note.blinding
               PROVE  i = j
    OBVIOUS
  <2>1. CASE i \in DOMAIN leaves /\ leaves'[i] = leaves[i]
    <3>1. CASE j \in DOMAIN leaves /\ leaves'[j] = leaves[j]
      BY <2>1, <3>1 DEF TInv, DrawnOnce
    <3>2. ASSUME NEW k \in DOMAIN notes, leaves'[j].note = notes[k] PROVE FALSE
      BY <2>1, <3>2
    <3> QED
      BY <1>3, <3>1, <3>2
  <2>2. ASSUME NEW k \in DOMAIN notes, i = Len(leaves) + k, leaves'[i].note = notes[k]
        PROVE  i = j
    <3>1. CASE j \in DOMAIN leaves /\ leaves'[j] = leaves[j]
      BY <2>2, <3>1
    <3>2. ASSUME NEW l \in DOMAIN notes, j = Len(leaves) + l, leaves'[j].note = notes[l]
          PROVE  i = j
      BY <2>2, <3>2
    <3> QED
      BY <1>3, <3>1, <3>2
  <2> QED
    BY <1>3, <2>1, <2>2
<1>8. ASSUME NEW x, IsNew(x), IsTx(x), Apart(x, new) PROVE IsNew(x)'
  <2>1. \A k \in DOMAIN x.outs : x.outs[k] \in Notes
    BY <1>8 DEF IsTx
  <2>2. \A k \in DOMAIN x.outs : x.outs[k].blinding <= fresh'
    BY <1>4, <1>8, <2>1 DEF IsNew
  <2>3. \A k \in DOMAIN x.outs, i \in DOMAIN leaves' :
          x.outs[k].blinding # leaves'[i].note.blinding
    BY <1>3, <1>8 DEF IsNew, Apart
  <2> QED
    BY <1>8, <2>2, <2>3 DEF IsNew
<1>9. \A tx \in inflight' : IsNew(tx)'
  <2>1. \A tx \in inflight' : IsNew(tx) /\ IsTx(tx)
    BY DEF TInv, DrawnOnce, IInv, WellFormed
  <2> QED
    BY <1>8, <2>1
<1>10. \A p \in Procs : IsTx(cmd[p]) => IsNew(cmd[p])'
  <2>1. ASSUME NEW p \in Procs, IsTx(cmd[p]) PROVE IsNew(cmd[p])'
    <3>1. IsNew(cmd[p]) /\ cmd'[p] = cmd[p]
      BY <2>1 DEF TInv, DrawnOnce
    <3> QED
      BY <1>8, <2>1, <3>1
  <2> QED
    BY <2>1
<1>11. /\ \A s, t \in inflight' : s # t => Apart(s, t)
       /\ \A p \in Procs : IsTx(cmd[p]) => \A tx \in inflight' : Apart(cmd[p], tx)
       /\ \A p, q \in Procs : IsTx(cmd[p]) /\ IsTx(cmd[q]) /\ p # q => Apart(cmd[p], cmd[q])
  BY DEF TInv, DrawnOnce
<1> QED
  BY <1>2, <1>6, <1>7, <1>9, <1>10, <1>11 DEF TInv, DrawnOnce

(* Transactions are lost.                                                          *)
LEMMA LossTyped ==
  ASSUME TInv, UNCHANGED <<fresh, found, cmd, leaves, nullifiers, memos>>,
         inflight' \subseteq inflight, faults' \in 0..MaxFaults
  PROVE  TInv'
<1>1. Typed'
  BY DEF TInv, Typed, Sendable
<1>2. \A x : IsNew(x)' <=> IsNew(x)
  BY DEF IsNew
<1> QED
  BY <1>1, <1>2 DEF TInv, DrawnOnce

(* What Draw says of the secrets drawn.                                            *)
LEMMA DrawTyped ==
  ASSUME IInv, NEW k \in {1, 2}, Draw(k)
  PROVE  fresh \in Nat /\ fresh' = fresh + k /\ fresh' \in Nat /\ fresh' <= MaxNotes
BY WalletAssumption DEF IInv, WellFormed, Draw

(* What is in the ranges of a transaction's fields.                                *)
LEMMA RangesType ==
  "self" \in Owners /\ Recipients \subseteq Owners /\ NoRoot \in NoRoot..MaxNotes
BY WalletAssumption DEF Owners, NoRoot

(* One more fault is still within the bound.                                       *)
LEMMA FaultTyped ==
  ASSUME TInv, Fault
  PROVE  faults' \in 0..MaxFaults
BY WalletAssumption DEF TInv, Typed, Fault

(* deposit draws one note and inserts it.                                          *)
LEMMA DepositTyped ==
  ASSUME IInv, TInv, NEW p \in Procs, NEW path \in Paths, deposit(p, path)
  PROVE  TInv'
<1> DEFINE n == Note(fresh + 1, "self")
<1>1. Draw(1) /\ Start(p) /\ Prepare(p, "deposit", n, NoRoot, TRUE, <<n>>, NoFile)
  BY DEF deposit
<1>a. faults' \in 0..MaxFaults
  BY DEF deposit, TInv, Typed
<1>2. n \in Notes
  BY RangesType, <1>1, Drawn DEF IInv
<1>3. fresh \in Nat /\ fresh' = fresh + 1 /\ fresh' \in Nat /\ fresh' <= MaxNotes
  BY <1>1, DrawTyped
<1>4. n.blinding = fresh + 1
  BY DEF Note
<1> HIDE DEF n
<1> DEFINE outs == <<n>>
<1>5. outs \in Seq(Notes) /\ DOMAIN outs = {1} /\ outs[1] = n
  BY <1>2
<1>6. Start(p) /\ Prepare(p, "deposit", n, NoRoot, TRUE, outs, NoFile)
  BY <1>1
<1> HIDE DEF outs
<1>7. \A k \in DOMAIN outs : outs[k].blinding > fresh /\ outs[k].blinding <= fresh'
  BY <1>3, <1>4, <1>5
<1>8. \A k, l \in DOMAIN outs : outs[k].blinding = outs[l].blinding => k = l
  BY <1>5
<1>9. fresh <= fresh'
  BY <1>3
<1> QED
  BY RangesType, <1>2, <1>3, <1>5, <1>6, <1>7, <1>8, <1>9, <1>a, PreparedTyped

(* Whatever a harvest missed, its root and the faults are in range.                 *)
LEMMA HarvestedTyped ==
  ASSUME IInv, TInv, NEW p, NEW op, NEW note, NEW outs, NEW view,
         Harvest(p, op, note, outs, view)
  PROVE  /\ faults' \in 0..MaxFaults
         /\ \E root \in NoRoot..MaxNotes, whole \in BOOLEAN :
              Start(p) /\ Prepare(p, op, note, root, whole, outs, view)
<1>1. PICK missed \in SUBSET Txs :
        Prepare(p, op, note, reconstruct_path(fetchLeaves(missed)), missed = {}, outs, view)
  BY Harvested
<1>2. reconstruct_path(fetchLeaves(missed)) \in NoRoot..MaxNotes /\ (missed = {}) \in BOOLEAN
  BY RootType DEF IInv, TInv
<1>3. Start(p) /\ faults' \in 0..MaxFaults
  BY Harvested, FaultTyped DEF TInv, Typed
<1> QED
  BY <1>1, <1>2, <1>3

(* withdraw and burn draw nothing.                                                 *)
LEMMA SpendTyped ==
  ASSUME IInv, TInv, NEW p \in Procs, NEW note \in Notes, Spend(p, note)
  PROVE  TInv'
<1> DEFINE outs == <<>>
<1>0. Harvest(p, "spend", note, outs, NoFile) /\ UNCHANGED <<fresh, files>>
  BY DEF Spend, withdraw, burn
<1>1. PICK root \in NoRoot..MaxNotes, whole \in BOOLEAN :
        Start(p) /\ Prepare(p, "spend", note, root, whole, outs, NoFile)
  BY <1>0, HarvestedTyped
<1>2. faults' \in 0..MaxFaults
  BY <1>0, HarvestedTyped
<1>3. outs \in Seq(Notes) /\ DOMAIN outs = {}
  OBVIOUS
<1> HIDE DEF outs
<1>4. fresh' \in Nat /\ fresh <= fresh' /\ fresh' <= MaxNotes
  BY <1>0 DEF IInv, WellFormed, TInv, Typed
<1> QED
  BY <1>1, <1>2, <1>3, <1>4, PreparedTyped

(* transfer draws the recipient's note and the change.                             *)
LEMMA TransferTyped ==
  ASSUME IInv, TInv, NEW p \in Procs, NEW note \in Notes, NEW path \in Paths,
         NEW to \in Recipients, transfer(p, note, to, path, to)
  PROVE  TInv'
<1> DEFINE out0 == Note(fresh + 1, to)
           out1 == Note(fresh + 2, "self")
           outs == <<out0, out1>>
<1>1. Draw(2) /\ Harvest(p, "transfer", note, outs, to)
  BY DEF transfer
<1>2. out0 \in Notes /\ out1 \in Notes
  <2>1. 1 \in 1..2 /\ 2 \in 1..2 /\ WellFormed
    BY DEF IInv
  <2> QED
    BY RangesType, <1>1, <2>1, Drawn
<1>3. fresh \in Nat /\ fresh' = fresh + 2 /\ fresh' \in Nat /\ fresh' <= MaxNotes
  BY <1>1, DrawTyped
<1>4. out0.blinding = fresh + 1 /\ out1.blinding = fresh + 2
  BY DEF Note
<1>5. PICK root \in NoRoot..MaxNotes, whole \in BOOLEAN :
        Start(p) /\ Prepare(p, "transfer", note, root, whole, outs, to)
  BY <1>1, HarvestedTyped
<1>a. faults' \in 0..MaxFaults
  BY <1>1, HarvestedTyped
<1> HIDE DEF out0, out1
<1>6. outs \in Seq(Notes) /\ DOMAIN outs = {1, 2} /\ outs[1] = out0 /\ outs[2] = out1
  BY <1>2
<1> HIDE DEF outs
<1>7. \A k \in DOMAIN outs : outs[k].blinding > fresh /\ outs[k].blinding <= fresh'
  BY <1>3, <1>4, <1>6
<1>8. \A k, l \in DOMAIN outs : outs[k].blinding = outs[l].blinding => k = l
  BY <1>3, <1>4, <1>6
<1>9. fresh <= fresh'
  BY <1>3
<1> QED
  BY RangesType, <1>3, <1>5, <1>6, <1>7, <1>8, <1>9, <1>a, PreparedTyped

(* Submission, confirmation and the end of a command, and scans.                   *)
LEMMA QuietTyped ==
  ASSUME IInv, TInv, NEW p \in Procs,
         submit(p) \/ confirm(p) \/ stop(p) \/ list_unspent(p) \/ Scan(p)
  PROVE  TInv'
<1>0. found \subseteq Notes /\ faults \in 0..MaxFaults /\ ~IsTx(Idle)
  BY DEF TInv, Typed, IsTx, Idle
<1>1. CASE submit(p)
  <2>1. /\ cmd' = [cmd EXCEPT ![p] = [op |-> "confirm", tx |-> cmd[p]]]
        /\ UNCHANGED <<fresh, found, leaves, nullifiers, memos, faults>>
        /\ inflight' = inflight \cup {cmd[p]}
        /\ cmd[p].op \in {"deposit", "spend", "transfer"}
    BY <1>1 DEF submit, pool
  <2>2. IsTx(cmd[p]) /\ ~IsTx([op |-> "confirm", tx |-> cmd[p]])
    BY <2>1 DEF IInv, WellFormed, IsScan, IsTx
  <2> QED
    BY <1>0, <2>1, <2>2, OtherTyped
<1>2. CASE confirm(p) \/ stop(p)
  <2>1. /\ cmd' = [cmd EXCEPT ![p] = Idle]
        /\ UNCHANGED <<fresh, found, inflight, leaves, nullifiers, memos>>
    BY <1>2 DEF confirm, stop, pool
  <2>2. faults' \in 0..MaxFaults
    BY <1>0, <1>2, FaultTyped DEF confirm, stop
  <2> QED
    BY <1>0, <2>1, <2>2, OtherTyped
<1>3. CASE list_unspent(p) \/ fetchTransferMemos(p) \/ fetchNullifierSet(p)
  <2>1. /\ UNCHANGED <<fresh, found, inflight, leaves, nullifiers, memos>>
        /\ faults' \in 0..MaxFaults
        /\ \E c : cmd' = [cmd EXCEPT ![p] = c] /\ c.op = "scan"
    <3>1. CASE list_unspent(p)
      <4>1. [op |-> "scan", memos |-> NoFile, spent |-> NoFile].op = "scan"
        OBVIOUS
      <4> QED
        BY <1>0, <3>1, <4>1 DEF list_unspent, pool
    <3>2. CASE fetchTransferMemos(p)
      <4>1. PICK seen : cmd' = [cmd EXCEPT ![p] = [cmd[p] EXCEPT !.memos = <<seen>>]]
        BY <3>2 DEF fetchTransferMemos
      <4>2. IsScan(cmd[p]) /\ [cmd[p] EXCEPT !.memos = <<seen>>].op = "scan"
        BY <3>2 DEF fetchTransferMemos, IInv, WellFormed, IsTx, IsScan
      <4>3. faults' \in 0..MaxFaults
        BY <1>0, <3>2, FaultTyped DEF fetchTransferMemos
      <4> QED
        BY <3>2, <4>1, <4>2, <4>3 DEF fetchTransferMemos, pool
    <3>3. CASE fetchNullifierSet(p)
      <4>1. IsScan(cmd[p]) /\ cmd' = [cmd EXCEPT ![p] = [cmd[p] EXCEPT !.spent = <<nullifiers>>]]
        BY <3>3 DEF fetchNullifierSet, IInv, WellFormed, IsTx
      <4>2. [cmd[p] EXCEPT !.spent = <<nullifiers>>].op = "scan"
        BY <4>1 DEF IsScan
      <4> QED
        BY <1>0, <3>3, <4>1, <4>2 DEF fetchNullifierSet, pool
    <3> QED
      BY <1>3, <3>1, <3>2, <3>3
  <2>2. PICK c : cmd' = [cmd EXCEPT ![p] = c] /\ c.op = "scan"
    BY <2>1
  <2>3. ~IsTx(c)
    BY <2>2 DEF IsTx
  <2> QED
    BY <1>0, <2>1, <2>2, <2>3, OtherTyped
<1>4. CASE write_found(p)
  <2>1. /\ cmd' = [cmd EXCEPT ![p] = Idle]
        /\ UNCHANGED <<fresh, inflight, leaves, nullifiers, memos, faults>>
        /\ cmd[p].op = "scan" /\ cmd[p].memos # NoFile
    BY <1>4 DEF write_found, pool
  <2>2. cmd[p].memos[1] \subseteq memos
    BY <2>1 DEF IInv, WellFormed, MemosOfPool, IsTx
  <2>3. found' \subseteq Notes
    <3>1. ASSUME NEW m \in cmd[p].memos[1], Discovers(m, cmd[p].spent[1])
          PROVE  Note(m.opening, Identity) \in Notes
      BY <2>2, <3>1 DEF Discovers, TInv, Typed
    <3> QED
      BY <1>0, <1>4, <3>1 DEF write_found
  <2> QED
    BY <1>0, <2>1, <2>3, OtherTyped
<1> QED
  BY <1>1, <1>2, <1>3, <1>4 DEF Scan

(* A transaction lands: its secrets leave it for the tree.                         *)
LEMMA LandTyped ==
  ASSUME IInv, TInv, NEW tx \in inflight, land(tx)
  PROVE  TInv'
<1>1. /\ inflight' = inflight \ {tx} /\ UNCHANGED <<fresh, found, cmd, faults>>
      /\ fresh \in Nat /\ fresh' \in Nat /\ fresh <= fresh' /\ fresh' <= MaxNotes
      /\ faults' \in 0..MaxFaults
  BY DEF land, IInv, WellFormed, TInv, Typed
<1>2. CASE ~Accepted(tx)
  <2>1. UNCHANGED <<leaves, nullifiers, memos>> /\ inflight' \subseteq inflight
    BY <1>1, <1>2 DEF land, pool
  <2> QED
    BY <1>1, <2>1, LossTyped
<1>3. CASE Accepted(tx)
  <2>1. /\ Insert(tx.outs, tx.op) /\ memos' = memos \cup attach_recipient_memo(tx)
        /\ nullifiers' = IF tx.op = "deposit" THEN nullifiers ELSE nullifiers \cup {tx.note}
    BY <1>3 DEF land
  <2>2. IsTx(tx) /\ Sendable(tx) /\ IsNew(tx)
    BY DEF IInv, WellFormed, TInv, Typed, DrawnOnce
  <2>3. /\ tx.outs \in Seq(Notes) /\ tx.note \in Notes
        /\ tx.op \in {"deposit", "transfer"} \/ Len(tx.outs) = 0
    BY <2>2 DEF IsTx, Sendable, Tx
  <2>4. nullifiers' \subseteq Notes
    BY <2>1, <2>3 DEF TInv, Typed
  <2>5. \A m \in memos' : m \in memos \/ (m.view \in Owners /\ m.commitment \in Notes)
    <3>1. tx.op = "transfer" => tx.outs[1] \in Notes /\ tx.view \in Owners
      BY <2>2 DEF IsTx, Sendable
    <3> QED
      BY <2>1, <3>1 DEF attach_recipient_memo, Memo
  <2>6. /\ \A k \in DOMAIN tx.outs : tx.outs[k].blinding <= fresh'
        /\ \A k \in DOMAIN tx.outs, i \in DOMAIN leaves :
             tx.outs[k].blinding # leaves[i].note.blinding
        /\ \A k, l \in DOMAIN tx.outs : tx.outs[k].blinding = tx.outs[l].blinding => k = l
    BY <1>1, <2>2 DEF IsNew
  <2>7. \A t \in inflight' : Apart(t, tx)
    BY <1>1 DEF TInv, DrawnOnce
  <2>8. \A p \in Procs : IsTx(cmd[p]) => Apart(cmd[p], tx)
    BY DEF TInv, DrawnOnce
  <2>9. inflight' \subseteq inflight
    BY <1>1
  <2>10. PICK rows : Added(rows, tx.outs)
    BY <2>1, <2>3, InsertAdds DEF IInv
  <2> QED
    BY <1>1, <2>3, <2>4, <2>5, <2>6, <2>7, <2>8, <2>9, <2>10, PoolTyped
<1> QED
  BY <1>2, <1>3

(* Somebody else's note has secrets that were not drawn before.                    *)
LEMMA OthersTyped ==
  ASSUME IInv, TInv, Other
  PROVE  TInv'
<1> DEFINE n == Note(fresh + 1, Stranger)
           notes == <<n>>
           new == [outs |-> notes]
<1>0. Stranger \in Owners /\ Identity \in Owners
  BY DEF Owners
<1>1. Draw(1) /\ n \in Notes /\ \E rows : Added(rows, notes)
  BY OtherAdds DEF Other, IInv
<1>2. fresh \in Nat /\ fresh' = fresh + 1 /\ fresh' \in Nat /\ fresh' <= MaxNotes
  BY <1>1, DrawTyped
<1>3. /\ UNCHANGED <<found, cmd, inflight, nullifiers, faults>>
      /\ memos' = memos \/ memos' = memos \cup {Memo(Identity, fresh + 1, n)}
  BY DEF Other
<1>4. n.blinding = fresh + 1
  BY DEF Note
<1>5. \A m \in memos' : m \in memos \/ (m.view \in Owners /\ m.commitment \in Notes)
  BY <1>0, <1>1, <1>3 DEF Memo
<1> HIDE DEF n
<1>6. notes \in Seq(Notes) /\ DOMAIN notes = {1} /\ notes[1] = n /\ new.outs = notes
  BY <1>1
<1> HIDE DEF notes, new
<1>7. \A m \in Notes : m.blinding \in Nat
  BY WalletAssumption DEF Notes
<1>8. /\ \A k \in DOMAIN notes : notes[k].blinding <= fresh'
      /\ \A k, l \in DOMAIN notes : notes[k].blinding = notes[l].blinding => k = l
  BY <1>2, <1>4, <1>6
<1>9. \A k \in DOMAIN notes, i \in DOMAIN leaves : notes[k].blinding # leaves[i].note.blinding
  <2>1. \A i \in DOMAIN leaves : leaves[i].note \in Notes
    BY LeavesType DEF IInv
  <2> QED
    BY <1>2, <1>4, <1>6, <1>7, <2>1 DEF TInv, DrawnOnce
<1>10. ASSUME NEW x, IsTx(x), IsNew(x) PROVE Apart(x, new)
  <2>1. \A k \in DOMAIN x.outs : x.outs[k] \in Notes
    BY <1>10 DEF IsTx
  <2> QED
    BY <1>2, <1>4, <1>6, <1>7, <1>10, <2>1 DEF Apart, IsNew
<1>11. \A tx \in inflight' : Apart(tx, new)
  BY <1>3, <1>10 DEF TInv, DrawnOnce, IInv, WellFormed
<1>12. \A p \in Procs : IsTx(cmd[p]) => Apart(cmd[p], new)
  BY <1>10 DEF TInv, DrawnOnce
<1>13. fresh <= fresh' /\ inflight' \subseteq inflight /\ nullifiers' \subseteq Notes
  BY <1>2, <1>3 DEF TInv, Typed
<1> QED
  BY <1>1, <1>2, <1>3, <1>5, <1>6, <1>8, <1>9, <1>11, <1>12, <1>13, PoolTyped

(* Every step keeps the types.                                                     *)
LEMMA NextTyped ==
  ASSUME IInv, TInv, [Next]_vars
  PROVE  TInv'
<1>1. ASSUME NEW p \in Procs, NEW path \in Paths, deposit(p, path) PROVE TInv'
  BY <1>1, DepositTyped
<1>2. ASSUME NEW p \in Procs, NEW note \in Notes, Spend(p, note) PROVE TInv'
  BY <1>2, SpendTyped
<1>3. ASSUME NEW p \in Procs, NEW note \in Notes, NEW path \in Paths,
             NEW to \in Recipients, transfer(p, note, to, path, to)
      PROVE  TInv'
  BY <1>3, TransferTyped
<1>4. ASSUME NEW p \in Procs,
             list_unspent(p) \/ Scan(p) \/ submit(p) \/ confirm(p) \/ stop(p)
      PROVE  TInv'
  BY <1>4, QuietTyped
<1>5. ASSUME NEW tx \in inflight, land(tx) PROVE TInv'
  BY <1>5, LandTyped
<1>6. ASSUME NEW tx \in inflight, lose(tx) PROVE TInv'
  <2>1. /\ UNCHANGED <<fresh, found, cmd, leaves, nullifiers, memos>>
        /\ inflight' \subseteq inflight /\ faults' \in 0..MaxFaults
    BY <1>6, FaultTyped DEF lose, pool
  <2> QED
    BY <2>1, LossTyped
<1>7. CASE Other
  BY <1>7, OthersTyped
<1>8. CASE UNCHANGED vars
  <2>1. /\ UNCHANGED <<fresh, found, cmd, leaves, nullifiers, memos>>
        /\ inflight' \subseteq inflight /\ faults' \in 0..MaxFaults
    BY <1>8 DEF vars, TInv, Typed
  <2> QED
    BY <2>1, LossTyped
<1> QED
  BY <1>1, <1>2, <1>3, <1>4, <1>5, <1>6, <1>7, <1>8 DEF Next

(* Type correctness.  That the root of a rebuilt path is in range rests on the      *)
(* tree having no more leaves than secrets were drawn (FewLeaves), which holds       *)
(* because a secret that cmd_deposit or cmd_transfer draws reaches one leaf at most:  *)
(* a transaction is sent by one command, and lands once.                              *)
THEOREM WalletTypeCorrect == Spec => []TypeOK
<1>1. Init => IInv /\ TInv
  <2>1. ASSUME Init PROVE DrawnOnce
    <3>1. DOMAIN leaves = {} /\ inflight = {} /\ \A p \in Procs : ~IsTx(cmd[p])
      BY <2>1 DEF Init, IsTx, Idle
    <3> QED
      BY <3>1 DEF DrawnOnce
  <2>2. ASSUME Init PROVE Typed
    <3>1. \A p \in Procs : ~IsTx(cmd[p])
      BY <2>2 DEF Init, IsTx, Idle
    <3> QED
      BY <2>2, <3>1, WalletAssumption DEF Init, Typed
  <2> QED
    BY <2>1, <2>2, InitInv DEF TInv
<1>2. IInv /\ TInv /\ [Next]_vars => IInv' /\ TInv'
  BY NextInv, NextTyped
<1>3. IInv /\ TInv => TypeOK
  <2> SUFFICES ASSUME IInv, TInv PROVE TypeOK
    OBVIOUS
  <2>1. /\ fresh \in 0..MaxNotes /\ faults \in 0..MaxFaults /\ found \in SUBSET Notes
        /\ nullifiers \in SUBSET Notes /\ inflight \in SUBSET Tx
        /\ \A m \in memos : m.view \in Owners /\ m.commitment \in Notes
    BY WalletAssumption DEF IInv, WellFormed, TInv, Typed, Sendable
  <2>2. \A p \in Procs : cmd[p].op \in {"none", "scan", "confirm"} \/ cmd[p] \in Tx
    BY DEF IInv, WellFormed, IsScan, TInv, Typed, Sendable
  <2> QED
    BY <2>1, <2>2 DEF TypeOK, IInv, WellFormed, LeafRecords
<1> QED
  BY <1>1, <1>2, <1>3, PTL DEF Spec

-----------------------------------------------------------------------------
(* The list of the read path.                                                      *)

(* Induction over an interval of naturals, with the property as a set.             *)
LEMMA Interval ==
  ASSUME NEW N \in Nat, NEW S, 0 \in S,
         \A n \in 0..(N - 1) : n \in S => n + 1 \in S
  PROVE  \A n \in 0..N : n \in S
<1> DEFINE R == OpToRel(<, Nat)
           T == {n \in 0..N : n \notin S}
<1>1. SUFFICES ASSUME T # {} PROVE FALSE
  OBVIOUS
<1>2. PICK x \in T : \A y \in T : ~(<<y, x>> \in R)
  <2>1. IsWellFoundedOn(R, Nat)
    BY NatLessThanWellFounded
  <2>2. T \in SUBSET Nat
    OBVIOUS
  <2> HIDE DEF R, T
  <2> QED
    BY <1>1, <2>1, <2>2, WFMin
<1>3. \A y \in T : ~(y < x)
  <2>1. T \in SUBSET Nat
    OBVIOUS
  <2> HIDE DEF T
  <2> QED
    BY <1>2, <2>1 DEF OpToRel
<1>4. x # 0 /\ x - 1 \in 0..(N - 1) /\ x - 1 \notin T
  BY <1>3
<1>5. x - 1 \in S /\ (x - 1) + 1 = x
  BY <1>4
<1> QED
  BY <1>4, <1>5

(* The prefixes of the tree's leaves.                                               *)
LEMMA LeafPrefixes ==
  ASSUME WellFormed
  PROVE  /\ Len(leaves) \in Nat /\ DOMAIN leaves = 1..Len(leaves)
         /\ SubSeq(leaves, 1, 0) = <<>>
         /\ \A i \in 1..Len(leaves) :
              SubSeq(leaves, 1, i) = Append(SubSeq(leaves, 1, i - 1), leaves[i])
         /\ SubSeq(leaves, 1, Len(leaves)) = leaves
<1>1. leaves \in Seq(LeafRecords)
  BY DEF WellFormed
<1>2. Len(leaves) \in Nat /\ DOMAIN leaves = 1..Len(leaves) /\ \A i \in 1..Len(leaves) : leaves[i] \in LeafRecords
  BY <1>1, LenProperties, ElementOfSeq
<1>3. ASSUME NEW n \in 0..Len(leaves)
      PROVE  /\ SubSeq(leaves, 1, n) \in Seq(LeafRecords) /\ Len(SubSeq(leaves, 1, n)) = n
             /\ \A k \in 1..n : SubSeq(leaves, 1, n)[k] = leaves[k]
  BY <1>2, SubSeqProperties
<1>4. SubSeq(leaves, 1, 0) = <<>>
  BY <1>2, <1>3, EmptySeq
<1>5. ASSUME NEW i \in 1..Len(leaves)
      PROVE  SubSeq(leaves, 1, i) = Append(SubSeq(leaves, 1, i - 1), leaves[i])
  <2> DEFINE s == SubSeq(leaves, 1, i)
             t == SubSeq(leaves, 1, i - 1)
             u == Append(t, leaves[i])
  <2>1. /\ s \in Seq(LeafRecords) /\ Len(s) = i /\ \A k \in 1..i : s[k] = leaves[k]
    BY <1>2, <1>3
  <2>2. i - 1 \in 0..Len(leaves)
    BY <1>2
  <2>3. t \in Seq(LeafRecords) /\ Len(t) = i - 1 /\ \A k \in 1..(i - 1) : t[k] = leaves[k]
    BY <1>3, <2>2
  <2> HIDE DEF s, t
  <2>4. u \in Seq(LeafRecords) /\ Len(u) = i /\ \A k \in 1..i : u[k] = leaves[k]
    BY <1>2, <2>3, AppendProperties
  <2> HIDE DEF u
  <2>5. s = u
    BY <2>1, <2>4, SeqEqual
  <2> QED
    BY <2>5 DEF s, t, u
<1>6. SubSeq(leaves, 1, Len(leaves)) = leaves
  <2> DEFINE s == SubSeq(leaves, 1, Len(leaves))
  <2>1. s \in Seq(LeafRecords) /\ Len(s) = Len(leaves) /\ \A k \in 1..Len(leaves) : s[k] = leaves[k]
    BY <1>2, <1>3
  <2> HIDE DEF s
  <2>2. s = leaves
    BY <1>1, <2>1, SeqEqual
  <2> QED
    BY <2>2 DEF s
<1> QED
  BY <1>2, <1>4, <1>5, <1>6

(* Where the read path misses no transaction and no leaf, it collects the tree's.   *)
LEMMA HarvestIsComplete ==
  ASSUME WellFormed, Legible
  PROVE  depositsFromTxs({}) = leaves
<1> DEFINE m == Len(leaves)
           Step(g, i) == IF i = 0 THEN <<>>
                         ELSE IF leaves[i].via \in {"deposit", "transfer"} /\ leaves[i].tx \notin {}
                              THEN Append(g[i - 1], leaves[i])
                              ELSE g[i - 1]
           list == CHOOSE g : g = [i \in 0..m |-> Step(g, i)]
           S == {i \in 0..m : list[i] = SubSeq(leaves, 1, i)}
           whole == [i \in 0..m |-> SubSeq(leaves, 1, i)]
<1>1. /\ m \in Nat /\ DOMAIN leaves = 1..m /\ SubSeq(leaves, 1, 0) = <<>>
      /\ \A i \in 1..m : SubSeq(leaves, 1, i) = Append(SubSeq(leaves, 1, i - 1), leaves[i])
      /\ SubSeq(leaves, 1, m) = leaves
  BY LeafPrefixes
<1>2. \A i \in 1..m : leaves[i].via \in {"deposit", "transfer"} /\ leaves[i].tx \notin {}
  BY <1>1 DEF Legible
<1>3. whole = [i \in 0..m |-> Step(whole, i)]
  <2> HIDE DEF m
  <2>1. \A i \in 0..m : whole[i] = Step(whole, i)
    <3>1. ASSUME NEW i \in 0..m, i # 0 PROVE whole[i] = Step(whole, i)
      <4>1. i \in 1..m /\ i - 1 \in 0..m
        BY <1>1, <3>1
      <4>2. whole[i] = SubSeq(leaves, 1, i) /\ whole[i - 1] = SubSeq(leaves, 1, i - 1)
        BY <4>1
      <4> HIDE DEF whole
      <4> QED
        BY <1>1, <1>2, <3>1, <4>1, <4>2
    <3>2. whole[0] = <<>> /\ 0 \in 0..m
      BY <1>1
    <3> QED
      BY <3>1, <3>2
  <2> QED
    BY <2>1
<1>4. list = [i \in 0..m |-> Step(list, i)]
  <2>1. \E g : g = [i \in 0..m |-> Step(g, i)]
    BY <1>3
  <2> QED
    BY <2>1
<1>5. \A i \in 0..m : list[i] = Step(list, i)
  <2> HIDE DEF list
  <2> QED
    BY <1>4
<1>6. depositsFromTxs({}) = list[m]
  BY DEF depositsFromTxs
<1> HIDE DEF m, list
<1>7. 0 \in S
  <2>1. 0 \in 0..m /\ list[0] = Step(list, 0)
    BY <1>1, <1>5
  <2>2. list[0] = <<>>
    BY <2>1
  <2> QED
    BY <1>1, <2>1, <2>2
<1>8. \A i \in 0..(m - 1) : i \in S => i + 1 \in S
  <2> SUFFICES ASSUME NEW i \in 0..(m - 1), i \in S PROVE i + 1 \in S
    OBVIOUS
  <2>1. i + 1 \in 1..m /\ i + 1 \in 0..m /\ (i + 1) - 1 = i /\ i + 1 # 0
    BY <1>1
  <2>2. list[i + 1] = Append(list[i], leaves[i + 1])
    BY <1>2, <1>5, <2>1
  <2>3. SubSeq(leaves, 1, i + 1) = Append(SubSeq(leaves, 1, i), leaves[i + 1])
    BY <1>1, <2>1
  <2> QED
    BY <2>1, <2>2, <2>3
<1>9. m \in S
  <2> HIDE DEF S
  <2>1. \A i \in 0..m : i \in S
    BY <1>1, <1>7, <1>8, Interval
  <2> QED
    BY <1>1, <2>1
<1> QED
  BY <1>1, <1>6, <1>9

(* Leaves whose indices are their places are sorted.                                *)
LEMMA SortedAlready ==
  ASSUME WellFormed, \A i \in DOMAIN leaves : leaves[i].index = i - 1
  PROVE  SortByIndex(leaves) = leaves
<1>1. Len(leaves) \in Nat /\ DOMAIN leaves = 1..Len(leaves)
  BY LeafPrefixes
<1>2. ASSUME NEW i \in 1..Len(leaves) PROVE Rank(leaves, i) = i
  <2>1. {j \in DOMAIN leaves : \/ leaves[j].index < leaves[i].index
                               \/ leaves[j].index = leaves[i].index /\ j < i} = 1..(i - 1)
    BY <1>1
  <2>2. Cardinality(1..(i - 1)) = i - 1
    <3>1. Cardinality(1..(i - 1)) = IF 1 > i - 1 THEN 0 ELSE (i - 1) - 1 + 1
      BY FS_Interval
    <3> QED
      BY <1>1, <3>1
  <2>3. Rank(leaves, i) = 1 + Cardinality(1..(i - 1))
    BY <2>1, Zenon DEF Rank
  <2> QED
    BY <1>1, <2>2, <2>3
<1>3. ASSUME NEW k \in 1..Len(leaves)
      PROVE  (CHOOSE i \in DOMAIN leaves : Rank(leaves, i) = k) = k
  <2> DEFINE c == CHOOSE i \in DOMAIN leaves : Rank(leaves, i) = k
  <2>1. k \in DOMAIN leaves /\ Rank(leaves, k) = k
    BY <1>1, <1>2
  <2>2. c \in DOMAIN leaves /\ Rank(leaves, c) = k
    BY <2>1
  <2> HIDE DEF c
  <2>3. c = k
    BY <1>1, <1>2, <2>2
  <2> QED
    BY <2>3 DEF c
<1>4. SortByIndex(leaves) = [k \in 1..Len(leaves) |-> leaves[k]]
  <2> DEFINE place(k) == CHOOSE i \in DOMAIN leaves : Rank(leaves, i) = k
  <2>1. \A k \in 1..Len(leaves) : place(k) = k
    BY <1>3
  <2>2. SortByIndex(leaves) = [k \in 1..Len(leaves) |-> leaves[place(k)]]
    BY <1>1, Zenon DEF SortByIndex
  <2> HIDE DEF place
  <2> QED
    BY <2>1, <2>2
<1>5. leaves = [k \in 1..Len(leaves) |-> leaves[k]]
  BY <1>1 DEF WellFormed
<1> QED
  BY <1>4, <1>5

(* So a path that is rebuilt leads to a root of the tree.                           *)
LEMMA RebuiltReaches ==
  ASSUME WellFormed, Legible
  PROVE  reconstruct_path(fetchLeaves({})) # NoRoot
<1> DEFINE sizes == {n \in 0..Len(leaves) : leaves = SubSeq(leaves, 1, n)}
<1>1. depositsFromTxs({}) = leaves /\ Len(leaves) \in Nat /\ SubSeq(leaves, 1, Len(leaves)) = leaves
  BY HarvestIsComplete, LeafPrefixes
<1>2. fetchLeaves({}) = leaves
  <2>1. CASE \A i \in DOMAIN leaves : leaves[i].index # NoIndex
    <3>1. \A i \in DOMAIN leaves : leaves[i].index = i - 1
      BY <2>1 DEF Legible
    <3> QED
      BY <1>1, <2>1, <3>1, SortedAlready DEF fetchLeaves
  <2>2. CASE ~\A i \in DOMAIN leaves : leaves[i].index # NoIndex
    BY <1>1, <2>2 DEF fetchLeaves
  <2> QED
    BY <2>1, <2>2
<1>3. Len(leaves) \in sizes
  BY <1>1
<1>4. reconstruct_path(fetchLeaves({})) \in sizes
  BY <1>2, <1>3 DEF reconstruct_path
<1> QED
  BY <1>1, <1>4 DEF NoRoot

(* A command that is prepared has a path just rebuilt, if it needs one.             *)
LEMMA PathPrepared ==
  ASSUME WellFormed, PathsMatchLegibleTree, NEW p \in Procs, NEW op, NEW note, NEW root,
         NEW whole, NEW outs, NEW view, Start(p), Prepare(p, op, note, root, whole, outs, view),
         op = "deposit" \/ (whole = TRUE => root = reconstruct_path(fetchLeaves({})))
  PROVE  PathsMatchLegibleTree'
<1> DEFINE c == [op |-> op, note |-> note, root |-> root, whole |-> whole,
                 outs |-> outs, view |-> view]
<1>1. cmd' = [cmd EXCEPT ![p] = c] /\ leaves' = leaves
  BY DEF Start, Prepare, pool
<1>2. c.op = op /\ c.root = root /\ c.whole = whole
  OBVIOUS
<1> HIDE DEF c
<1>3. cmd'[p] = c /\ \A q \in Procs : q # p => cmd'[q] = cmd[q]
  BY <1>1, CmdPut
<1>4. op = "deposit" \/ root # NoRoot \/ whole # TRUE \/ ~Legible
  BY RebuiltReaches
<1>5. Legible' <=> Legible
  BY <1>1 DEF Legible
<1> QED
  BY <1>2, <1>3, <1>4, <1>5 DEF PathsMatchLegibleTree

(* After a harvest, in particular.                                                  *)
LEMMA PathHarvested ==
  ASSUME WellFormed, PathsMatchLegibleTree, NEW p \in Procs, NEW op, NEW note, NEW outs,
         NEW view, Harvest(p, op, note, outs, view)
  PROVE  PathsMatchLegibleTree'
<1>1. PICK missed \in SUBSET Txs :
        Prepare(p, op, note, reconstruct_path(fetchLeaves(missed)), missed = {}, outs, view)
  BY Harvested
<1>2. Start(p) /\ ((missed = {}) = TRUE =>
                     reconstruct_path(fetchLeaves(missed)) = reconstruct_path(fetchLeaves({})))
  BY Harvested
<1> QED
  BY <1>1, <1>2, PathPrepared

(* A command that goes on has no path any more, or the one it had.                  *)
LEMMA PathStays ==
  ASSUME WellFormed, PathsMatchLegibleTree, leaves' = leaves,
         NEW p \in Procs, NEW c, cmd' = [cmd EXCEPT ![p] = c],
         c.op \in {"none", "confirm", "scan"}
  PROVE  PathsMatchLegibleTree'
<1>1. cmd'[p] = c /\ \A q \in Procs : q # p => cmd'[q] = cmd[q]
  BY CmdPut
<1>2. Legible' <=> Legible
  BY DEF Legible
<1> QED
  BY <1>1, <1>2 DEF PathsMatchLegibleTree

(* A tree that is legible after more leaves came in was so before.                  *)
LEMMA PathOutlives ==
  ASSUME WellFormed, PathsMatchLegibleTree, cmd' = cmd,
         NEW notes \in Seq(Notes), \E new : Added(new, notes)
  PROVE  PathsMatchLegibleTree'
<1>1. PICK new : Added(new, notes)
  OBVIOUS
<1>2. /\ Len(leaves) \in Nat /\ Len(notes) \in Nat /\ DOMAIN leaves = 1..Len(leaves)
      /\ DOMAIN leaves' = 1..Len(leaves) + Len(notes)
      /\ \A i \in 1..Len(leaves) : leaves'[i] = leaves[i]
  BY <1>1, LeavesAfter
<1>3. \A i \in DOMAIN leaves : i \in DOMAIN leaves' /\ leaves'[i] = leaves[i]
  BY <1>2
<1>4. Legible' => Legible
  BY <1>3 DEF Legible
<1> QED
  BY <1>4 DEF PathsMatchLegibleTree

(* Every step keeps it.                                                             *)
LEMMA PathNext ==
  ASSUME IInv, PathsMatchLegibleTree, [Next]_vars
  PROVE  PathsMatchLegibleTree'
<1>0. WellFormed
  BY DEF IInv
<1>1. ASSUME NEW p \in Procs, NEW path \in Paths, deposit(p, path)
      PROVE  PathsMatchLegibleTree'
  BY <1>0, <1>1, PathPrepared DEF deposit
<1>2. ASSUME NEW p \in Procs, NEW note \in Notes, Spend(p, note)
      PROVE  PathsMatchLegibleTree'
  BY <1>0, <1>2, PathHarvested DEF Spend, withdraw, burn
<1>3. ASSUME NEW p \in Procs, NEW note \in Notes, NEW path \in Paths,
             NEW to \in Recipients, transfer(p, note, to, path, to)
      PROVE  PathsMatchLegibleTree'
  BY <1>0, <1>3, PathHarvested DEF transfer
<1>4. ASSUME NEW p \in Procs, list_unspent(p) \/ Scan(p)
      PROVE  PathsMatchLegibleTree'
  <2>1. CASE list_unspent(p)
    BY <1>0, <2>1, PathStays DEF list_unspent, pool
  <2>2. CASE fetchTransferMemos(p) \/ fetchNullifierSet(p)
    <3>1. PICK read : /\ leaves' = leaves /\ cmd[p].op = "scan"
                      /\ \/ cmd' = [cmd EXCEPT ![p].memos = <<read>>]
                         \/ cmd' = [cmd EXCEPT ![p].spent = <<read>>]
      BY <2>2 DEF fetchTransferMemos, fetchNullifierSet, pool
    <3>2. \/ cmd' = [cmd EXCEPT ![p] = [cmd[p] EXCEPT !.memos = <<read>>]]
          \/ cmd' = [cmd EXCEPT ![p] = [cmd[p] EXCEPT !.spent = <<read>>]]
      BY <3>1
    <3>3. /\ [cmd[p] EXCEPT !.memos = <<read>>].op = "scan"
          /\ [cmd[p] EXCEPT !.spent = <<read>>].op = "scan"
      <4>1. IsScan(cmd[p])
        BY <1>0, <3>1 DEF WellFormed, IsTx
      <4> QED
        BY <4>1 DEF IsScan
    <3> QED
      BY <1>0, <3>1, <3>2, <3>3, PathStays
  <2>3. CASE write_found(p)
    BY <1>0, <2>3, PathStays DEF write_found, pool, Idle
  <2> QED
    BY <1>4, <2>1, <2>2, <2>3 DEF Scan
<1>5. ASSUME NEW p \in Procs, submit(p) \/ confirm(p) \/ stop(p)
      PROVE  PathsMatchLegibleTree'
  <2>1. CASE submit(p)
    BY <1>0, <2>1, PathStays DEF submit, pool
  <2>2. CASE confirm(p) \/ stop(p)
    BY <1>0, <2>2, PathStays DEF confirm, stop, pool, Idle
  <2> QED
    BY <1>5, <2>1, <2>2
<1>6. ASSUME NEW tx \in inflight, land(tx) \/ lose(tx)
      PROVE  PathsMatchLegibleTree'
  <2>1. cmd' = cmd
    BY <1>6 DEF land, lose
  <2>2. CASE Insert(tx.outs, tx.op)
    <3>1. tx.outs \in Seq(Notes) /\ (tx.op \in {"deposit", "transfer"} \/ Len(tx.outs) = 0)
      BY <1>0 DEF WellFormed, IsTx
    <3>2. \E new : Added(new, tx.outs)
      BY <1>0, <2>2, <3>1, InsertAdds
    <3> QED
      BY <1>0, <2>1, <3>1, <3>2, PathOutlives
  <2>3. CASE leaves' = leaves
    BY <2>1, <2>3 DEF Legible, PathsMatchLegibleTree
  <2> QED
    BY <1>6, <2>2, <2>3 DEF land, lose, pool
<1>7. CASE Other
  <2>1. cmd' = cmd
    BY <1>7 DEF Other
  <2>2. /\ Note(fresh + 1, Stranger) \in Notes
        /\ \E new : Added(new, <<Note(fresh + 1, Stranger)>>)
    BY <1>0, <1>7, OtherAdds
  <2>3. <<Note(fresh + 1, Stranger)>> \in Seq(Notes)
    BY <2>2
  <2> QED
    BY <1>0, <2>1, <2>2, <2>3, PathOutlives
<1>8. CASE UNCHANGED vars
  BY <1>8 DEF vars, Legible, PathsMatchLegibleTree
<1> QED
  BY <1>1, <1>2, <1>3, <1>4, <1>5, <1>6, <1>7, <1>8 DEF Next

(* A list that fetchLeaves harvests without missing a transaction is the tree's, leaf   *)
(* by leaf, and the path rebuilt from it leads to a root the tree had, as long as every  *)
(* leaf was inserted by a deposit or a transfer at the top level of a transaction whose   *)
(* logs say nothing false: also where some of them, or all, lack the line with the index, *)
(* since the list is sorted only where none does.                                         *)
THEOREM PathsMatch == Spec => []PathsMatchLegibleTree
<1>1. Init => IInv /\ PathsMatchLegibleTree
  <2> SUFFICES ASSUME Init PROVE IInv /\ PathsMatchLegibleTree
    OBVIOUS
  <2>1. \A p \in Procs : cmd[p] = Idle
    BY DEF Init
  <2> QED
    BY <2>1, InitInv DEF PathsMatchLegibleTree, Idle
<1>2. IInv /\ PathsMatchLegibleTree /\ [Next]_vars => IInv' /\ PathsMatchLegibleTree'
  BY NextInv, PathNext
<1> QED
  BY <1>1, <1>2, PTL DEF Spec
=============================================================================
