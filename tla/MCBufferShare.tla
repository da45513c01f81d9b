----------------------------- MODULE MCBufferShare -----------------------------
(* Instances of BufferShare and of the array values it implements, for TLC. *)
EXTENDS BufferValues, TLC

Symmetry == Permutations(Buffers) \cup Permutations(Raws) \cup Permutations(Tensors)

===============================================================================
