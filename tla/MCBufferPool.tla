----------------------------- MODULE MCBufferPool -----------------------------
(* Instances of BufferPool and of the ledger it implements, for TLC.        *)
EXTENDS BufferPoolLedger, TLC

CONSTANT Cap  \* max_cached_bytes of every pool

MCMaxCachedBytes == [p \in Pools |-> Cap]

\* The classes are powers of two, as next_power_of_two makes them.
ASSUME Classes \subseteq {2^k : k \in 0..MaxSize}

Symmetry == Permutations(Handles) \cup Permutations(Threads) \cup Permutations(Pools)

===============================================================================
