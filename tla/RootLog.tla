------------------------------- MODULE RootLog -------------------------------
(***************************************************************************)
(* What every commitment tree of the system promises its clients (OPAQ.md  *)
(* B.2, Tests 4 and 5): the leaves form an append-only log, and a proof is  *)
(* accepted against the root of a prefix of that log exactly while the      *)
(* prefix is one of the RootHistory most recent ones.  A root is named by   *)
(* the length of its prefix.  One transaction appends one leaf (deposit,    *)
(* mint_from_xburn) or two (transfer).                                      *)
(***************************************************************************)
EXTENDS Naturals

CONSTANTS
  RootHistory,  \* how many recent roots stay acceptable
  Capacity      \* how many leaves the tree can hold

VARIABLES
  size,         \* leaves appended so far
  known         \* the roots a proof may be checked against

logVars == <<size, known>>

\* The most recent RootHistory prefixes of a log of n leaves.
Recent(n) == {r \in 0..n : r + RootHistory > n}

\* Either not created yet (no root is acceptable) or created and empty.
LogInit == size = 0 /\ known \in {{}, {0}}

Create == size = 0 /\ known = {} /\ size' = 0 /\ known' = {0}

Publish(k) ==
  /\ known # {}
  /\ size + k <= Capacity
  /\ size' = size + k
  /\ known' = Recent(size + k)

LogNext == Create \/ \E k \in 1..2 : Publish(k)

LogSpec == LogInit /\ [][LogNext]_logVars
=============================================================================
