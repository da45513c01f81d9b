------------------------------ MODULE BufferValues ------------------------------
(* Buffers seen as what they promise to be: array values (ArrayValues).        *)
EXTENDS BufferShare

CONSTANT NoArray   \* "there is no such array"

ASSUME NoArrayAssumption == \A n \in 0..MaxLen : NoArray \notin [1..n -> Values]

ArrayOf(b) == IF Exists(b) THEN Contents(b) ELSE NoArray
Val == [b \in Buffers |-> ArrayOf(b)]
Open == {b \in Buffers : stage[b] = "write"}

Arrays == INSTANCE ArrayValues WITH val <- Val, open <- Open

\* Every Buffer behaves as an array value of its own, whatever it shares.
ImplementsValues == Arrays!Spec

===============================================================================
