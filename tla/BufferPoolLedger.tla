--------------------------- MODULE BufferPoolLedger ---------------------------
(***************************************************************************)
(* BufferPool seen as the ledger PoolLedger: the blocks that a caller or a *)
(* call owns are lent, those in a cache are retained, and the budget is    *)
(* what the limits of all the caches allow together.                       *)
(***************************************************************************)
EXTENDS BufferPool

\* A process runs finitely many threads and makes finitely many pools.
ASSUME FinitelyMany == IsFiniteSet(Threads) /\ IsFiniteSet(Pools)

Caches == {InTl(t) : t \in Threads} \cup {InPool(p) : p \in Pools}
Owners == {Held(t) : t \in Threads} \cup {InCall(t) : t \in Threads}

Lent     == {h \in Handles : place[h] \in Owners}
Retained == {h \in Handles : place[h] \in Caches}

\* The bytes each cache may hold, as numbered cells, and how many they are.
BudgetCells ==
  (UNION {{InTl(t)} \X (1..TlMaxBytes) : t \in Threads})
  \cup (UNION {{InPool(p)} \X (1..MaxCachedBytes[p]) : p \in Pools})

TotalBudget == Cardinality(BudgetCells)

Ledger == INSTANCE PoolLedger WITH lent <- Lent, retained <- Retained,
                                   Budget <- TotalBudget

\* The pool is a ledger: blocks keep their length while they live, are freed
\* once, and caches of all threads and pools stay within their limits together.
ImplementsLedger == Ledger!Spec

===============================================================================
