------------------------------ MODULE ArrayValues ------------------------------
(***************************************************************************)
(* What sharing and copy-on-write promise: every array is a value of its   *)
(* own.  It changes only while it is open for writing, one array at a      *)
(* time, and its length never; which arrays share memory cannot be seen.   *)
(***************************************************************************)
EXTENDS Naturals, Sequences

CONSTANTS
  Buffers,   \* names for arrays
  Values,    \* the values of an element
  MaxLen,    \* the largest number of elements
  NoArray    \* "there is no such array"

VARIABLES
  val,       \* val[b]: the elements of array b
  open       \* the arrays open for writing

vars == <<val, open>>

Arrays == UNION {[1..n -> Values] : n \in 0..MaxLen}

Init == val = [b \in Buffers |-> NoArray] /\ open = {}

Exists(b) == val[b] # NoArray

\* An array comes into being, from data or from another array.
New(b) ==
  /\ ~Exists(b)
  /\ \E v \in Arrays : val' = [val EXCEPT ![b] = v]
  /\ UNCHANGED open

Open(b) ==
  /\ Exists(b)
  /\ open' = open \cup {b}
  /\ UNCHANGED val

\* An open array changes.
Write(b) ==
  /\ b \in open
  /\ \E v \in [DOMAIN val[b] -> Values] : val' = [val EXCEPT ![b] = v]
  /\ UNCHANGED open

Close(b) ==
  /\ open' = open \ {b}
  /\ UNCHANGED val

Drop(b) ==
  /\ b \notin open
  /\ val' = [val EXCEPT ![b] = NoArray]
  /\ UNCHANGED open

Next == \E b \in Buffers : New(b) \/ Open(b) \/ Write(b) \/ Close(b) \/ Drop(b)

Spec == Init /\ [][Next]_vars

===============================================================================
