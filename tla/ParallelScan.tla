----------------------------- MODULE ParallelScan -----------------------------
(***************************************************************************)
(* parallel_scan of crates/mohu-buffer/src/ops.rs: the inclusive prefix    *)
(* combination of a contiguous buffer, computed chunk by chunk.            *)
(*                                                                         *)
(* First every chunk is scanned by itself, then the totals of the chunks   *)
(* are scanned, then each chunk but the first adds the total of all before *)
(* it.  The chunks of the first and of the last pass are tasks of a thread *)
(* pool, which runs any of them at any time, one element after the other   *)
(* within a chunk; a pass ends when all its tasks have.                    *)
(*                                                                         *)
(* Nothing is known of the elements and of f but that f is associative and *)
(* the identity neutral.  A value is therefore the run lo..hi of elements  *)
(* it combines, in order, and f joins two runs of which one follows the    *)
(* other; what it makes of others is no run.                               *)
(***************************************************************************)
EXTENDS Integers

CONSTANTS
  Lengths,    \* the lengths of buffers that are scanned
  Threads,    \* rayon::current_num_threads()
  MinChunk,   \* 256, the least size of a chunk
  Powers      \* the powers of two up to the largest chunk

ASSUME ScanAssumption ==
  /\ Lengths \subseteq Nat
  /\ Threads \in Nat \ {0}
  /\ MinChunk \in Nat \ {0}
  /\ Powers \subseteq Nat
  /\ \A n \in Lengths :   \* every size has a least power of two that is as large
       \E c \in Powers :
         /\ MinChunk <= c /\ n \div Threads <= c
         /\ \A d \in Powers : MinChunk <= d /\ n \div Threads <= d => c <= d

VARIABLES
  len,      \* src.len() of the call
  phase,    \* which pass it is in, or "returned"
  pos,      \* pos[c]: the elements of chunk c its task is done with
  acc,      \* acc[c]: the accumulator of its first task
  totals,   \* chunk_totals
  next,     \* the chunk whose total is scanned next
  scanned   \* dst: the elements of the result

scanVars == <<len, phase, pos, acc, totals, next, scanned>>

-------------------------------------------------------------------------------
(* Chunks, counted from 1 as the elements are                               *)

ChunkSize ==
  CHOOSE c \in Powers :
    /\ MinChunk <= c /\ len \div Threads <= c
    /\ \A d \in Powers : MinChunk <= d /\ len \div Threads <= d => c <= d

Chunks == 1..((len + ChunkSize - 1) \div ChunkSize)

FirstOf(c) == (c - 1) * ChunkSize + 1

\* A seeded fault: the last chunk is taken to be whole.
LastOfWhole(c) == c * ChunkSize

LastOf(c) == IF c * ChunkSize <= len THEN c * ChunkSize ELSE len

ChunkLen(c) == LastOf(c) - FirstOf(c) + 1

-------------------------------------------------------------------------------
(* Values                                                                   *)

Run(lo, hi) == [lo |-> lo, hi |-> hi]
Identity == Run(1, 0)
NoRun    == Run(0, -1)

f(x, y) ==
  IF x = Identity THEN y
  ELSE IF y = Identity THEN x
  ELSE IF x.hi + 1 = y.lo THEN Run(x.lo, y.hi)
  ELSE NoRun

Runs == [lo : 0..len, hi : -1..len]

-------------------------------------------------------------------------------
\* A call begins on a buffer of n elements; what dst held does not matter.
Begin(n) ==
  /\ len' = n
  /\ phase' = "local"
  /\ pos' = [c \in Chunks' |-> 0]
  /\ acc' = [c \in Chunks' |-> Identity]
  /\ totals' = [c \in Chunks' |-> Identity]
  /\ next' = 2
  /\ scanned' = [i \in 1..n |-> NoRun]

\* The task of chunk c takes the next element.
LocalStep(c) ==
  LET i == FirstOf(c) + pos[c] IN
  /\ phase = "local"
  /\ pos[c] < ChunkLen(c)
  /\ pos' = [pos EXCEPT ![c] = @ + 1]
  /\ acc' = [acc EXCEPT ![c] = f(@, Run(i, i))]
  /\ scanned' = [scanned EXCEPT ![i] = acc'[c]]
  /\ UNCHANGED <<len, phase, totals, next>>

\* It stores the total and ends.
LocalTotal(c) ==
  /\ phase = "local"
  /\ pos[c] = ChunkLen(c)
  /\ pos' = [pos EXCEPT ![c] = @ + 1]
  /\ totals' = [totals EXCEPT ![c] = acc[c]]
  /\ UNCHANGED <<len, phase, acc, next, scanned>>

\* A seeded fault: the totals are scanned before the last of them is there.
LocalJoinEarly ==
  /\ phase = "local"
  /\ \A c \in Chunks : pos[c] >= ChunkLen(c)
  /\ phase' = "carry"
  /\ UNCHANGED <<len, pos, acc, totals, next, scanned>>

LocalJoin ==
  /\ phase = "local"
  /\ \A c \in Chunks : pos[c] = ChunkLen(c) + 1
  /\ phase' = "carry"
  /\ UNCHANGED <<len, pos, acc, totals, next, scanned>>

\* The sequential pass over the totals.
CarryStep ==
  /\ phase = "carry"
  /\ next \in Chunks
  /\ totals' = [totals EXCEPT ![next] = f(totals[next - 1], @)]
  /\ next' = next + 1
  /\ UNCHANGED <<len, phase, pos, acc, scanned>>

CarryDone ==
  /\ phase = "carry"
  /\ next \notin Chunks
  /\ phase' = "add"
  /\ pos' = [c \in Chunks |-> 0]
  /\ UNCHANGED <<len, acc, totals, next, scanned>>

\* A seeded fault: the carry is the total up to the chunk's own end.
AddStepOwn(c) ==
  LET i == FirstOf(c) + pos[c] IN
  /\ phase = "add"
  /\ c > 1
  /\ pos[c] < ChunkLen(c)
  /\ pos' = [pos EXCEPT ![c] = @ + 1]
  /\ scanned' = [scanned EXCEPT ![i] = f(totals[c], @)]
  /\ UNCHANGED <<len, phase, acc, totals, next>>

\* The task of a chunk after the first adds the carry to its next element.
AddStep(c) ==
  LET i == FirstOf(c) + pos[c] IN
  /\ phase = "add"
  /\ c > 1
  /\ pos[c] < ChunkLen(c)
  /\ pos' = [pos EXCEPT ![c] = @ + 1]
  /\ scanned' = [scanned EXCEPT ![i] = f(totals[c - 1], @)]
  /\ UNCHANGED <<len, phase, acc, totals, next>>

\* A seeded fault: the end of a task for the first chunk is waited for, too.
AddJoinAll ==
  /\ phase = "add"
  /\ \A c \in Chunks : pos[c] = ChunkLen(c)
  /\ phase' = "returned"
  /\ UNCHANGED <<len, pos, acc, totals, next, scanned>>

\* All tasks have ended, and parallel_scan returns.
AddJoin ==
  /\ phase = "add"
  /\ \A c \in Chunks : c > 1 => pos[c] = ChunkLen(c)
  /\ phase' = "returned"
  /\ UNCHANGED <<len, pos, acc, totals, next, scanned>>

-------------------------------------------------------------------------------
ScanInit ==
  /\ len \in Lengths
  /\ phase = "local"
  /\ pos = [c \in Chunks |-> 0]
  /\ acc = [c \in Chunks |-> Identity]
  /\ totals = [c \in Chunks |-> Identity]
  /\ next = 2
  /\ scanned = [i \in 1..len |-> NoRun]

\* What the pool and the caller's thread do within a call.
Step ==
  \/ \E c \in Chunks : LocalStep(c) \/ LocalTotal(c) \/ AddStep(c)
  \/ LocalJoin
  \/ CarryStep
  \/ CarryDone
  \/ AddJoin

\* The next call.
Again ==
  /\ phase = "returned"
  /\ \E n \in Lengths : Begin(n)

ScanNext == Step \/ Again

ScanSpec == ScanInit /\ [][ScanNext]_scanVars

\* The pool runs its tasks; nobody has to call again.
FairScan == ScanSpec /\ WF_scanVars(Step)

-------------------------------------------------------------------------------
ScanTypeOK ==
  /\ len \in Lengths
  /\ phase \in {"local", "carry", "add", "returned"}
  /\ pos \in [Chunks -> 0..(len + 1)]
  /\ acc \in [Chunks -> Runs]
  /\ totals \in [Chunks -> Runs]
  /\ next \in Nat
  /\ scanned \in [1..len -> Runs]

\* However the tasks of the two parallel passes interleave, element i of the result
\* combines the elements 1 to i of the source, each once and in their order, as a
\* sequential scan does ("an inclusive parallel prefix scan", ops.rs:424).
ScanIsExact ==
  phase = "returned" => \A i \in 1..len : scanned[i] = Run(1, i)

\* When the second parallel pass reads it, each carry combines everything up to the
\* end of its chunk.
CarryIsPrefix ==
  phase = "add" => \A c \in Chunks : totals[c] = Run(1, LastOf(c))

\* A scan returns, for every length, zero and one chunk included.
ScanReturns == phase # "returned" ~> phase = "returned"

===============================================================================
