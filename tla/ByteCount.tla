------------------------------ MODULE ByteCount ------------------------------
(***************************************************************************)
(* How many bytes a set of allocations occupies.  A block of f[h] bytes is *)
(* the set of cells <<h, 1>> .. <<h, f[h]>>, so the bytes of a set of      *)
(* blocks are a cardinality: the sum the code computes with                *)
(* iter().map(len).sum(), in a form the finite-set theorems speak about.   *)
(***************************************************************************)
EXTENDS Integers, FiniteSets

\* The cells of the blocks S, whose lengths f gives, none longer than max.
CellsOf(f, S, max) == {cell \in S \X (1..max) : cell[2] <= f[cell[1]]}

\* The bytes the blocks S occupy together.
BytesOf(f, S, max) == Cardinality(CellsOf(f, S, max))

==============================================================================
