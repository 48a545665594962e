----------------------------- MODULE ForkingChain -----------------------------
(***************************************************************************)
(* External: a chain as the attestor sees it.  Blocks change the state of     *)
(* what is deployed there; those that are not final yet may be abandoned.      *)
(* Things go wrong at most MaxFaults times in a behaviour.                     *)
(***************************************************************************)
EXTENDS Integers, SequencesExt

CONSTANTS
  MaxDepth,  \* bound on the blocks that are not final
  MaxFaults  \* bound on the faults: reorganisations, transactions that are
             \* forgotten or expire, awaits that fail

ASSUME ChainAssumption == MaxDepth \in Nat \ {0} /\ MaxFaults \in Nat

VARIABLES
  final,     \* the state at the finalized block
  head,      \* the blocks after it: the state after each, and the attestor's
             \* transaction that it holds, if any
  faults     \* the faults so far

chain == <<final, head>>

latest == IF head = <<>> THEN final ELSE Last(head).state

States == {final} \cup {head[i].state : i \in DOMAIN head}

MineBlock(state, txs) ==
  /\ Len(head) < MaxDepth
  /\ head' = Append(head, [state |-> state, txs |-> txs])
  /\ UNCHANGED <<final, faults>>

FinalizeBlock ==
  /\ head # <<>>
  /\ final' = Head(head).state /\ head' = Tail(head)
  /\ UNCHANGED faults

Fault == faults < MaxFaults /\ faults' = faults + 1

\* All but n of the blocks are abandoned.
Abandon(n) == head' = SubSeq(head, 1, n) /\ UNCHANGED final

\* The transactions of the blocks after the n-th.
TxsAfter(n) == UNION {head[i].txs : i \in n + 1..Len(head)}
=============================================================================
