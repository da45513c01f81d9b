------------------------------ MODULE PoolLedger ------------------------------
(***************************************************************************)
(* What the allocation pool promises, whatever its tiers, locks and        *)
(* threads: a block of memory is either lent to the program or retained    *)
(* for reuse; a block keeps its length from allocation to free; it is      *)
(* freed once; and what is retained never exceeds a fixed budget.          *)
(***************************************************************************)
EXTENDS ByteCount

CONSTANTS
  Handles,   \* names for blocks
  MaxSize,   \* the largest length of a block
  Budget     \* the bytes the pool may retain

VARIABLES
  size,      \* size[h]: the length of block h, 0 when it does not exist
  lent,      \* the blocks the program owns
  retained   \* the blocks kept for reuse

ledger == <<size, lent, retained>>

Live == lent \cup retained

Init ==
  /\ size = [h \in Handles |-> 0]
  /\ lent = {}
  /\ retained = {}

\* A new block is lent.
Allocate(h, n) ==
  /\ h \notin Live
  /\ size' = [size EXCEPT ![h] = n]
  /\ lent' = lent \cup {h}
  /\ UNCHANGED retained

\* Retained blocks are lent again, as they are.
Lend(S) ==
  /\ S \subseteq retained
  /\ lent' = lent \cup S
  /\ retained' = retained \ S
  /\ UNCHANGED size

\* A block that was lent is retained, if the budget allows.
Retain(h) ==
  /\ h \in lent
  /\ BytesOf(size, retained \cup {h}, MaxSize) <= Budget
  /\ lent' = lent \ {h}
  /\ retained' = retained \cup {h}
  /\ UNCHANGED size

\* Blocks are freed.
Discard(S) ==
  /\ S \subseteq Live
  /\ size' = [h \in Handles |-> IF h \in S THEN 0 ELSE size[h]]
  /\ lent' = lent \ S
  /\ retained' = retained \ S

Next ==
  \/ \E h \in Handles : \/ \E n \in 1..MaxSize : Allocate(h, n)
                        \/ Retain(h)
  \/ \E S \in SUBSET Handles : Lend(S) \/ Discard(S)

Spec == Init /\ [][Next]_ledger

===============================================================================
