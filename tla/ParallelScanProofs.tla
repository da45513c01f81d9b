-------------------------- MODULE ParallelScanProofs --------------------------
(***************************************************************************)
(* Proofs about ParallelScan, for every length, number of threads and      *)
(* least size of a chunk: its types, and that what it returns is the       *)
(* sequential scan.                                                        *)
(***************************************************************************)
EXTENDS ParallelScan, TLAPS

-------------------------------------------------------------------------------
(* Arithmetic                                                               *)

\* What "\div" returns: the largest whole multiple that fits.
LEMMA DivBounds ==
  ASSUME NEW a \in Nat, NEW b \in Nat, b > 0
  PROVE  /\ a \div b \in Nat
         /\ (a \div b) * b <= a
         /\ a < (a \div b) * b + b
BY Z3

\* A product with a natural number keeps the order.
LEMMA TimesMono ==
  ASSUME NEW a \in Int, NEW b \in Int, NEW s \in Nat, a <= b
  PROVE  a * s <= b * s
BY Z3

-------------------------------------------------------------------------------
(* How n elements are cut into chunks.  The operators of ParallelScan read  *)
(* the variable len; these take it as an argument.                          *)

SizeFor(n) ==
  CHOOSE c \in Powers :
    /\ MinChunk <= c /\ n \div Threads <= c
    /\ \A d \in Powers : MinChunk <= d /\ n \div Threads <= d => c <= d

ChunksFor(n) == 1..((n + SizeFor(n) - 1) \div SizeFor(n))

FirstIn(n, c) == (c - 1) * SizeFor(n) + 1

LastIn(n, c) == IF c * SizeFor(n) <= n THEN c * SizeFor(n) ELSE n

Part(n, c) == FirstIn(n, c)..LastIn(n, c)

\* A chunk size is a positive number.
LEMMA SizeForType ==
  ASSUME NEW n \in Lengths
  PROVE  SizeFor(n) \in Nat /\ SizeFor(n) > 0
<1> DEFINE Q(c) == /\ MinChunk <= c /\ n \div Threads <= c
                   /\ \A d \in Powers : MinChunk <= d /\ n \div Threads <= d => c <= d
<1>1. \E c \in Powers : Q(c)
  BY ScanAssumption
<1>2. SizeFor(n) \in Powers /\ Q(SizeFor(n))
  BY <1>1 DEF SizeFor
<1>3. SizeFor(n) \in Nat /\ MinChunk <= SizeFor(n)
  BY <1>2, ScanAssumption
<1>4. QED
  BY <1>3, ScanAssumption

\* Chunks are numbered from 1 without a gap, and c is one of them when an element
\* is left for it.
LEMMA ChunksForRange ==
  ASSUME NEW n \in Lengths, NEW c \in Int
  PROVE  /\ c \in ChunksFor(n) <=> 1 <= c /\ (c - 1) * SizeFor(n) < n
         /\ ChunksFor(n) \subseteq Nat \ {0}
<1> DEFINE s == SizeFor(n)
           k == (n + s - 1) \div s
<1>1. n \in Nat /\ s \in Nat /\ s > 0 /\ n + s - 1 \in Nat
  BY SizeForType, ScanAssumption
<1> HIDE DEF s
<1>2. k \in Nat /\ k * s <= n + s - 1 /\ n + s - 1 < k * s + s
  BY <1>1, DivBounds
<1>3. ChunksFor(n) = 1..k
  BY DEF ChunksFor, s
<1> HIDE DEF k
<1>4. ASSUME c <= k PROVE (c - 1) * s < n
  <2>1. c * s <= k * s
    BY <1>1, <1>2, <1>4, TimesMono
  <2>2. (c - 1) * s = c * s - s
    BY <1>1, Z3
  <2>3. c * s \in Int /\ k * s \in Int
    BY <1>1, <1>2
  <2>4. QED
    BY <1>1, <1>2, <2>1, <2>2, <2>3
<1>5. ASSUME (c - 1) * s < n PROVE c <= k
  <2>1. k * s \in Int /\ (c - 1) * s \in Int /\ n <= k * s
    BY <1>1, <1>2
  <2>2. ASSUME k <= c - 1 PROVE k * s <= (c - 1) * s
    BY <1>1, <1>2, <2>2, TimesMono
  <2>3. QED
    BY <1>1, <1>2, <1>5, <2>1, <2>2
<1>6. QED
  BY <1>2, <1>3, <1>4, <1>5 DEF s

\* A chunk is not empty and lies among the elements.
LEMMA PartInside ==
  ASSUME NEW n \in Lengths, NEW c \in ChunksFor(n)
  PROVE  /\ FirstIn(n, c) \in Nat /\ LastIn(n, c) \in Nat
         /\ 1 <= FirstIn(n, c) /\ FirstIn(n, c) <= LastIn(n, c) /\ LastIn(n, c) <= n
<1> DEFINE s == SizeFor(n)
<1>1. n \in Nat /\ s \in Nat /\ s > 0 /\ c \in Nat /\ c > 0
  BY SizeForType, ChunksForRange, ScanAssumption
<1>2. (c - 1) * s < n
  BY <1>1, ChunksForRange
<1> HIDE DEF s
<1>3. c * s = (c - 1) * s + s /\ (c - 1) * s \in Nat
  BY <1>1, Z3
<1>4. FirstIn(n, c) = (c - 1) * s + 1
  BY DEF FirstIn, s
<1>5. LastIn(n, c) = IF c * s <= n THEN c * s ELSE n
  BY DEF LastIn, s
<1> DEFINE p == (c - 1) * s
           q == c * s
<1> HIDE DEF p, q
<1>6. p \in Nat /\ q = p + s /\ p < n
  BY <1>2, <1>3 DEF p, q
<1>7. FirstIn(n, c) = p + 1 /\ LastIn(n, c) = IF q <= n THEN q ELSE n
  BY <1>4, <1>5 DEF p, q
<1>8. QED
  BY <1>1, <1>6, <1>7

\* Chunks do not overlap: a later one begins behind an earlier one.
LEMMA PartsApart ==
  ASSUME NEW n \in Lengths, NEW c \in ChunksFor(n), NEW d \in ChunksFor(n), c < d
  PROVE  LastIn(n, c) < FirstIn(n, d)
<1> DEFINE s == SizeFor(n)
<1>1. n \in Nat /\ s \in Nat /\ c \in Nat /\ d \in Nat
  BY SizeForType, ChunksForRange, ScanAssumption
<1>2. FirstIn(n, d) = (d - 1) * s + 1
  BY DEF FirstIn, s
<1>3. LastIn(n, c) = IF c * s <= n THEN c * s ELSE n
  BY DEF LastIn, s
<1> HIDE DEF s
<1>4. c * s <= (d - 1) * s
  BY <1>1, TimesMono
<1> DEFINE p == (d - 1) * s
           q == c * s
<1>5. p \in Int /\ q \in Int
  BY <1>1
<1> HIDE DEF p, q
<1>6. q <= p /\ FirstIn(n, d) = p + 1 /\ LastIn(n, c) = IF q <= n THEN q ELSE n
  BY <1>2, <1>3, <1>4 DEF p, q
<1>7. QED
  BY <1>1, <1>5, <1>6

\* A chunk after the first begins behind the end of the one before it.
LEMMA PartsMeet ==
  ASSUME NEW n \in Lengths, NEW c \in ChunksFor(n), c > 1
  PROVE  /\ c - 1 \in ChunksFor(n)
         /\ FirstIn(n, c) = LastIn(n, c - 1) + 1
<1> DEFINE s == SizeFor(n)
<1>1. n \in Nat /\ s \in Nat /\ s > 0 /\ c \in Nat /\ c - 1 \in Nat
  BY SizeForType, ChunksForRange, ScanAssumption
<1>2. (c - 1) * s < n
  BY <1>1, ChunksForRange
<1>3. FirstIn(n, c) = (c - 1) * s + 1
  BY DEF FirstIn, s
<1>4. LastIn(n, c - 1) = IF (c - 1) * s <= n THEN (c - 1) * s ELSE n
  BY DEF LastIn, s
<1>5. c \in 1..((n + s - 1) \div s)
  BY DEF ChunksFor
<1>6. c - 1 \in ChunksFor(n)
  <2>1. c - 1 \in 1..((n + s - 1) \div s)
    <3> DEFINE k == (n + s - 1) \div s
    <3>1. k \in Nat
      BY <1>1, DivBounds
    <3> HIDE DEF k
    <3>2. c \in 1..k
      BY <1>5 DEF k
    <3>3. c - 1 \in 1..k
      BY <1>1, <3>1, <3>2
    <3>4. QED
      BY <3>3 DEF k
  <2>2. QED
    BY <2>1 DEF ChunksFor
<1> HIDE DEF s
<1>7. (c - 1) * s \in Int
  BY <1>1
<1>8. QED
  BY <1>1, <1>2, <1>3, <1>4, <1>6, <1>7

\* The first chunk begins at the first element.
LEMMA FirstPart ==
  ASSUME NEW n \in Lengths
  PROVE  FirstIn(n, 1) = 1
<1>1. SizeFor(n) \in Nat
  BY SizeForType
<1>2. QED
  BY <1>1 DEF FirstIn

\* Every element is in a chunk.
LEMMA PartOfElement ==
  ASSUME NEW n \in Lengths, NEW i \in 1..n
  PROVE  \E c \in ChunksFor(n) : i \in Part(n, c)
<1> DEFINE s == SizeFor(n)
           e == i - 1
           b == e \div s
<1>1. n \in Nat /\ s \in Nat /\ s > 0 /\ i \in Nat /\ e \in Nat /\ e < n
  BY SizeForType, ScanAssumption
<1> HIDE DEF s
<1>2. b \in Nat /\ b * s <= e /\ e < b * s + s
  BY <1>1, DivBounds
<1> HIDE DEF b
<1> DEFINE c == b + 1
           p == b * s
<1>3. c \in Int /\ c - 1 = b /\ p \in Int /\ p <= e /\ e < p + s
  BY <1>1, <1>2
<1>4. (c - 1) * s = p /\ c * s = p + s
  BY <1>1, <1>2, Z3
<1> HIDE DEF c, p
<1>5. c \in ChunksFor(n)
  <2>1. (c - 1) * SizeFor(n) < n
    BY <1>1, <1>3, <1>4 DEF s
  <2>2. 1 <= c
    BY <1>2 DEF c
  <2>3. QED
    BY <1>3, <2>1, <2>2, ChunksForRange
<1>6. FirstIn(n, c) = p + 1 /\ LastIn(n, c) = IF p + s <= n THEN p + s ELSE n
  BY <1>4 DEF FirstIn, LastIn, s
<1>7. i \in Part(n, c)
  <2>1. FirstIn(n, c) <= i /\ i <= LastIn(n, c)
    BY <1>1, <1>3, <1>6
  <2>2. FirstIn(n, c) \in Int /\ LastIn(n, c) \in Int
    BY <1>1, <1>3, <1>6
  <2>3. QED
    BY <1>1, <2>1, <2>2 DEF Part
<1>8. QED
  BY <1>5, <1>7


\* The chunks are all numbers up to some one.
LEMMA ChunksBelow ==
  ASSUME NEW n \in Lengths, NEW c \in ChunksFor(n), NEW d \in Nat, 1 <= d, d <= c
  PROVE  d \in ChunksFor(n)
<1> DEFINE s == SizeFor(n)
           k == (n + s - 1) \div s
<1>1. n + s - 1 \in Nat /\ s \in Nat /\ s > 0
  BY SizeForType, ScanAssumption
<1>2. k \in Nat
  BY <1>1, DivBounds
<1>3. ChunksFor(n) = 1..k
  BY DEF ChunksFor
<1> HIDE DEF k
<1>4. QED
  BY <1>2, <1>3

-------------------------------------------------------------------------------
(* Values                                                                   *)

\* A run and the one that follows it make one run, also when one of them is empty.
LEMMA JoinRuns ==
  ASSUME NEW a \in Int, NEW b \in Int, NEW c \in Int
  PROVE  f(Run(a, b), Run(b + 1, c)) = Run(a, c)
BY DEF f, Run, Identity, NoRun

\* The identity is neutral.
LEMMA JoinIdentity == ASSUME NEW x PROVE f(Identity, x) = x
BY DEF f

\* A run of elements is a value.
LEMMA RunsType ==
  ASSUME len \in Nat, NEW a \in 0..len, NEW b \in -1..len
  PROVE  Run(a, b) \in Runs
BY DEF Run, Runs

-------------------------------------------------------------------------------
(* The inductive invariant                                                  *)

LengthIn(n, c) == LastIn(n, c) - FirstIn(n, c) + 1

\* In the first pass a chunk knows the runs from its own first element.
LocalOK(c) ==
  /\ pos[c] <= LengthIn(len, c) + 1
  /\ pos[c] = 0 => acc[c] = Identity
  /\ pos[c] \in 1..LengthIn(len, c) =>
       acc[c] = Run(FirstIn(len, c), FirstIn(len, c) + pos[c] - 1)
  /\ \A i \in Part(len, c) :
       i < FirstIn(len, c) + pos[c] => scanned[i] = Run(FirstIn(len, c), i)
  /\ pos[c] = LengthIn(len, c) + 1 => totals[c] = Run(FirstIn(len, c), LastIn(len, c))

\* Between the passes all of them are there, and the totals before "next" are
\* prefixes.
CarryOK ==
  /\ next >= 2
  /\ \A c \in ChunksFor(len) :
       totals[c] = IF c < next THEN Run(1, LastIn(len, c))
                               ELSE Run(FirstIn(len, c), LastIn(len, c))
  /\ \A c \in ChunksFor(len) : \A i \in Part(len, c) : scanned[i] = Run(FirstIn(len, c), i)

\* In the second pass the elements that are done are prefixes, and so are those of
\* the first chunk, which nobody touches.
AddOK(c) ==
  /\ pos[c] <= LengthIn(len, c)
  /\ totals[c] = Run(1, LastIn(len, c))
  /\ \A i \in Part(len, c) :
       scanned[i] = IF c = 1 \/ i < FirstIn(len, c) + pos[c] THEN Run(1, i)
                                                         ELSE Run(FirstIn(len, c), i)

\* The operators of ParallelScan are those of this module at the present length.
LEMMA Here ==
  /\ Chunks = ChunksFor(len)
  /\ \A c : FirstOf(c) = FirstIn(len, c)
  /\ \A c : LastOf(c) = LastIn(len, c)
  /\ \A c : ChunkLen(c) = LengthIn(len, c)
<1>1. ChunkSize = SizeFor(len)
  BY DEF ChunkSize, SizeFor
<1>2. QED
  BY <1>1 DEF Chunks, ChunksFor, FirstOf, FirstIn, LastOf, LastIn, ChunkLen, LengthIn

\* The type invariant in those words.
Typed ==
  /\ len \in Lengths
  /\ phase \in {"local", "carry", "add", "returned"}
  /\ pos \in [ChunksFor(len) -> 0..(len + 1)]
  /\ acc \in [ChunksFor(len) -> Runs]
  /\ totals \in [ChunksFor(len) -> Runs]
  /\ next \in Nat
  /\ scanned \in [1..len -> Runs]

\* Typed is the type invariant.
LEMMA TypedIsTypeOK == ScanTypeOK <=> Typed
BY Here DEF ScanTypeOK, Typed

IInv ==
  /\ Typed
  /\ phase = "local" => next = 2 /\ \A c \in ChunksFor(len) : LocalOK(c)
  /\ phase = "carry" => CarryOK
  /\ phase = "add" => \A c \in ChunksFor(len) : AddOK(c)
  /\ ScanIsExact


\* What a new call sets up, whatever its length.
Fresh ==
  /\ len \in Lengths
  /\ phase = "local"
  /\ pos = [c \in ChunksFor(len) |-> 0]
  /\ acc = [c \in ChunksFor(len) |-> Identity]
  /\ totals = [c \in ChunksFor(len) |-> Identity]
  /\ next = 2
  /\ scanned = [i \in 1..len |-> NoRun]

\* The invariant holds at the beginning of every call.
LEMMA FreshIInv == Fresh => IInv
<1> SUFFICES ASSUME Fresh PROVE IInv
  OBVIOUS
<1>1. len \in Lengths /\ len \in Nat
  BY ScanAssumption DEF Fresh
<1>2. NoRun \in Runs
  BY <1>1 DEF NoRun, Run, Runs
<1>3. ASSUME NEW c \in ChunksFor(len) PROVE Identity \in Runs
  <2>1. len >= 1
    BY <1>1, PartInside
  <2>2. QED
    BY <1>1, <2>1 DEF Identity, Run, Runs
<1>4. Typed
  BY <1>1, <1>2, <1>3 DEF Fresh, Typed
<1>5. ASSUME NEW c \in ChunksFor(len) PROVE LocalOK(c)
  <2>1. /\ FirstIn(len, c) \in Nat /\ LastIn(len, c) \in Nat
        /\ FirstIn(len, c) <= LastIn(len, c)
    BY <1>1, PartInside
  <2>2. pos[c] = 0 /\ acc[c] = Identity
    BY DEF Fresh
  <2>3. QED
    BY <2>1, <2>2 DEF LocalOK, LengthIn, Part
<1>6. QED
  BY <1>4, <1>5 DEF Fresh, IInv, ScanIsExact

\* The initial states are beginnings.
LEMMA InitIInv == ScanInit => IInv
BY FreshIInv, Here DEF ScanInit, Fresh

\* A call begins afresh whatever the last one left.
LEMMA BeginFresh == ASSUME NEW n \in Lengths, Begin(n) PROVE Fresh'
<1>1. Chunks' = ChunksFor(len')
  BY DEF Chunks, ChunksFor, ChunkSize, SizeFor
<1>2. QED
  BY <1>1 DEF Begin, Fresh

\* The next call keeps the invariant.
LEMMA AgainIInv == Again => IInv'
<1>1. ASSUME NEW n \in Lengths, Begin(n) PROVE IInv'
  BY <1>1, BeginFresh, FreshIInv, PTL
<1>2. QED
  BY <1>1 DEF Again


-------------------------------------------------------------------------------
(* The steps                                                                *)

\* What every step of a call may use: where chunk c lies.
LEMMA ChunkFacts ==
  ASSUME IInv, NEW c \in ChunksFor(len)
  PROVE  /\ len \in Lengths /\ len \in Nat /\ c \in Nat /\ c > 0
         /\ FirstIn(len, c) \in Nat /\ LastIn(len, c) \in Nat
         /\ 1 <= FirstIn(len, c)
         /\ FirstIn(len, c) <= LastIn(len, c)
         /\ LastIn(len, c) <= len
         /\ LengthIn(len, c) \in 1..len
         /\ Part(len, c) \subseteq 1..len
         /\ pos[c] \in 0..(len + 1)
<1>1. len \in Lengths /\ len \in Nat /\ pos[c] \in 0..(len + 1)
  BY ScanAssumption DEF IInv, Typed
<1>2. c \in Nat /\ c > 0
  BY <1>1, ChunksForRange
<1>3. /\ FirstIn(len, c) \in Nat /\ LastIn(len, c) \in Nat
      /\ 1 <= FirstIn(len, c) /\ FirstIn(len, c) <= LastIn(len, c)
      /\ LastIn(len, c) <= len
  BY <1>1, PartInside
<1>4. LengthIn(len, c) \in 1..len /\ Part(len, c) \subseteq 1..len
  BY <1>1, <1>3 DEF LengthIn, Part
<1>5. QED
  BY <1>1, <1>2, <1>3, <1>4

\* An element of one chunk is not an element of another.
LEMMA OtherPart ==
  ASSUME IInv, NEW c \in ChunksFor(len), NEW d \in ChunksFor(len), c # d,
         NEW i \in Part(len, c)
  PROVE  i \notin Part(len, d)
<1>1. /\ len \in Lengths /\ c \in Nat /\ d \in Nat
      /\ FirstIn(len, c) \in Nat /\ LastIn(len, c) \in Nat
      /\ FirstIn(len, d) \in Nat /\ LastIn(len, d) \in Nat
  BY ChunkFacts
<1>2. c < d \/ d < c
  BY <1>1
<1>3. LastIn(len, c) < FirstIn(len, d) \/ LastIn(len, d) < FirstIn(len, c)
  BY <1>1, <1>2, PartsApart
<1>4. QED
  BY <1>1, <1>3 DEF Part

\* An element of the first pass: one chunk is one element further.
LEMMA LocalStepIInv ==
  ASSUME IInv, NEW c \in ChunksFor(len), LocalStep(c)
  PROVE  IInv'
<1> DEFINE lo == FirstIn(len, c)
           i == lo + pos[c]
<1>1. /\ phase = "local" /\ phase' = "local" /\ len' = len
      /\ pos[c] < LengthIn(len, c)
      /\ pos' = [pos EXCEPT ![c] = @ + 1]
      /\ acc' = [acc EXCEPT ![c] = f(@, Run(i, i))]
      /\ scanned' = [scanned EXCEPT ![i] = acc'[c]]
      /\ totals' = totals /\ next' = next
  BY Here DEF LocalStep
<1>2. /\ len \in Nat /\ c \in Nat /\ LastIn(len, c) <= len
      /\ lo \in Nat /\ 1 <= lo /\ lo <= LastIn(len, c) /\ LastIn(len, c) \in Nat
      /\ LengthIn(len, c) \in 1..len /\ pos[c] \in 0..(len + 1)
  BY ChunkFacts
<1>3. Typed /\ next = 2 /\ LocalOK(c)
  BY <1>1 DEF IInv
<1> HIDE DEF lo
<1>4. i \in Part(len, c) /\ i \in 1..len /\ i \in Nat
  BY <1>1, <1>2 DEF Part, LengthIn, lo
<1>5. f(acc[c], Run(i, i)) = Run(lo, i)
  <2>1. CASE pos[c] = 0
    <3>1. acc[c] = Identity
      BY <1>3, <2>1 DEF LocalOK
    <3>2. i = lo
      BY <1>2, <2>1
    <3>3. QED
      BY <3>1, <3>2, JoinIdentity
  <2>2. CASE pos[c] # 0
    <3>1. acc[c] = Run(lo, i - 1)
      <4>1. pos[c] \in 1..LengthIn(len, c)
        BY <1>1, <1>2, <2>2
      <4>2. acc[c] = Run(FirstIn(len, c), FirstIn(len, c) + pos[c] - 1)
        BY <1>3, <4>1 DEF LocalOK
      <4>3. FirstIn(len, c) = lo /\ FirstIn(len, c) + pos[c] - 1 = i - 1
        BY <1>2 DEF lo
      <4> HIDE DEF i
      <4>4. QED
        BY <4>2, <4>3
    <3>2. i - 1 \in Int /\ i - 1 + 1 = i /\ lo \in Int /\ i \in Int
      BY <1>2, <1>4
    <3>3. QED
      BY <3>1, <3>2, JoinRuns
  <2>3. QED
    BY <2>1, <2>2
<1>6. Run(lo, i) \in Runs
  BY <1>2, <1>4, RunsType
<1>7. acc' = [acc EXCEPT ![c] = Run(lo, i)] /\ acc'[c] = Run(lo, i)
  BY <1>1, <1>3, <1>5 DEF Typed
<1>8. scanned' = [scanned EXCEPT ![i] = Run(lo, i)]
  BY <1>1, <1>7
<1> HIDE DEF i
<1>9. Typed'
  <2>1. Runs' = Runs
    BY <1>1 DEF Runs
  <2>2. pos[c] + 1 \in 0..(len + 1)
    BY <1>1, <1>2
  <2>3. QED
    BY <1>1, <1>3, <1>6, <1>7, <1>8, <2>1, <2>2 DEF Typed
<1>10. ASSUME NEW d \in ChunksFor(len) PROVE LocalOK(d)'
  <2>1. CASE d = c
    <3>1. pos'[c] = pos[c] + 1 /\ pos'[c] # 0
      BY <1>1, <1>2, <1>3 DEF Typed
    <3>2. pos'[c] <= LengthIn(len, c) + 1
      BY <1>1, <1>2, <3>1
    <3>3. pos'[c] \in 1..LengthIn(len, c) =>
            acc'[c] = Run(FirstIn(len, c), FirstIn(len, c) + pos'[c] - 1)
      <4>1. FirstIn(len, c) + pos'[c] - 1 = i /\ FirstIn(len, c) = lo
        BY <1>2, <3>1 DEF i, lo
      <4>2. QED
        BY <1>7, <4>1
    <3>4. ASSUME NEW j \in Part(len, c), j < FirstIn(len, c) + pos'[c]
          PROVE  scanned'[j] = Run(FirstIn(len, c), j)
      <4>1. j \in 1..len /\ FirstIn(len, c) = lo
        BY ChunkFacts DEF lo
      <4>2. CASE j = i
        BY <1>3, <1>8, <4>1, <4>2 DEF Typed
      <4>3. CASE j # i
        <5>1. j < FirstIn(len, c) + pos[c]
          BY <1>2, <3>1, <3>4, <4>1, <4>3 DEF i, lo
        <5>2. scanned[j] = Run(FirstIn(len, c), j)
          BY <1>3, <5>1 DEF LocalOK
        <5>3. QED
          BY <1>3, <1>8, <4>1, <4>3, <5>2 DEF Typed
      <4>4. QED
        BY <4>2, <4>3
    <3>5. pos'[c] # LengthIn(len, c) + 1
      BY <1>1, <1>2, <3>1
    <3>6. QED
      BY <1>1, <2>1, <3>1, <3>2, <3>3, <3>4, <3>5 DEF LocalOK
  <2>2. CASE d # c
    <3>1. LocalOK(d)
      BY <1>1 DEF IInv
    <3>2. pos'[d] = pos[d] /\ acc'[d] = acc[d]
      BY <1>1, <1>3, <2>2 DEF Typed
    <3>3. ASSUME NEW j \in Part(len, d) PROVE scanned'[j] = scanned[j]
      <4>1. j # i /\ j \in 1..len
        BY <1>4, <2>2, OtherPart, ChunkFacts
      <4>2. QED
        BY <1>3, <1>8, <4>1 DEF Typed
    <3>4. QED
      BY <1>1, <3>1, <3>2, <3>3 DEF LocalOK
  <2>3. QED
    BY <2>1, <2>2
<1>11. QED
  BY <1>1, <1>3, <1>9, <1>10 DEF IInv, ScanIsExact


\* The end of a task of the first pass: the total is the whole chunk.
LEMMA LocalTotalIInv ==
  ASSUME IInv, NEW c \in ChunksFor(len), LocalTotal(c)
  PROVE  IInv'
<1>1. /\ phase = "local" /\ phase' = "local" /\ len' = len
      /\ pos[c] = LengthIn(len, c)
      /\ pos' = [pos EXCEPT ![c] = @ + 1]
      /\ totals' = [totals EXCEPT ![c] = acc[c]]
      /\ acc' = acc /\ scanned' = scanned /\ next' = next
  BY Here DEF LocalTotal
<1>2. /\ FirstIn(len, c) \in Nat /\ LastIn(len, c) \in Nat /\ len \in Nat
      /\ LengthIn(len, c) \in 1..len
  BY ChunkFacts
<1>3. Typed /\ next = 2 /\ LocalOK(c)
  BY <1>1 DEF IInv
<1>4. acc[c] = Run(FirstIn(len, c), LastIn(len, c))
  <2>1. acc[c] = Run(FirstIn(len, c), FirstIn(len, c) + pos[c] - 1)
    BY <1>1, <1>2, <1>3 DEF LocalOK
  <2>2. FirstIn(len, c) + pos[c] - 1 = LastIn(len, c)
    BY <1>1, <1>2 DEF LengthIn
  <2>3. QED
    BY <2>1, <2>2
<1>5. Typed'
  <2>1. Runs' = Runs
    BY <1>1 DEF Runs
  <2>2. pos[c] + 1 \in 0..(len + 1) /\ acc[c] \in Runs
    BY <1>1, <1>2, <1>3 DEF Typed
  <2>3. QED
    BY <1>1, <1>3, <2>1, <2>2 DEF Typed
<1>6. ASSUME NEW d \in ChunksFor(len) PROVE LocalOK(d)'
  <2>1. CASE d = c
    <3>1. pos'[c] = LengthIn(len, c) + 1 /\ totals'[c] = acc[c]
      BY <1>1, <1>3 DEF Typed
    <3>2. ASSUME NEW j \in Part(len, c) PROVE scanned'[j] = Run(FirstIn(len, c), j)
      <4>1. j < FirstIn(len, c) + pos[c]
        BY <1>1, <1>2 DEF Part, LengthIn
      <4>2. QED
        BY <1>1, <1>3, <4>1 DEF LocalOK
    <3>3. ~(pos'[c] = 0) /\ ~(pos'[c] \in 1..LengthIn(len, c))
          /\ pos'[c] <= LengthIn(len, c) + 1
      BY <1>2, <3>1
    <3>4. QED
      BY <1>1, <1>4, <2>1, <3>1, <3>2, <3>3 DEF LocalOK
  <2>2. CASE d # c
    <3>1. LocalOK(d)
      BY <1>1 DEF IInv
    <3>2. pos'[d] = pos[d] /\ totals'[d] = totals[d]
      BY <1>1, <1>3, <2>2 DEF Typed
    <3>3. QED
      BY <1>1, <3>1, <3>2 DEF LocalOK
  <2>3. QED
    BY <2>1, <2>2
<1>7. QED
  BY <1>1, <1>3, <1>5, <1>6 DEF IInv, ScanIsExact

\* The end of the first pass: every chunk is done and has its total.
LEMMA LocalJoinIInv == IInv /\ LocalJoin => IInv'
<1> SUFFICES ASSUME IInv, LocalJoin PROVE IInv'
  OBVIOUS
<1>1. /\ phase = "local" /\ phase' = "carry"
      /\ \A c \in ChunksFor(len) : pos[c] = LengthIn(len, c) + 1
      /\ len' = len /\ pos' = pos /\ acc' = acc /\ totals' = totals
      /\ next' = next /\ scanned' = scanned
  BY Here DEF LocalJoin
<1>2. Typed /\ next = 2
  BY <1>1 DEF IInv
<1>3. Typed'
  <2>1. Runs' = Runs
    BY <1>1 DEF Runs
  <2>2. QED
    BY <1>1, <1>2, <2>1 DEF Typed
<1>4. ASSUME NEW c \in ChunksFor(len)
      PROVE  /\ totals[c] = IF c < next THEN Run(1, LastIn(len, c))
                                        ELSE Run(FirstIn(len, c), LastIn(len, c))
             /\ \A i \in Part(len, c) : scanned[i] = Run(FirstIn(len, c), i)
  <2>1. LocalOK(c) /\ pos[c] = LengthIn(len, c) + 1
    BY <1>1 DEF IInv
  <2>2. totals[c] = Run(FirstIn(len, c), LastIn(len, c))
    BY <2>1 DEF LocalOK
  <2>3. c < next => FirstIn(len, c) = 1
    <3>1. c < next => c = 1
      BY <1>2, ChunkFacts
    <3>2. len \in Lengths
      BY ChunkFacts
    <3>3. QED
      BY <3>1, <3>2, FirstPart
  <2>4. ASSUME NEW i \in Part(len, c) PROVE scanned[i] = Run(FirstIn(len, c), i)
    <3>1. i < FirstIn(len, c) + pos[c]
      BY <2>1, ChunkFacts DEF Part, LengthIn
    <3>2. QED
      BY <2>1, <3>1 DEF LocalOK
  <2>5. QED
    BY <2>2, <2>3, <2>4
<1>5. QED
  BY <1>1, <1>2, <1>3, <1>4 DEF IInv, CarryOK, ScanIsExact

\* A step of the sequential pass: one more total is a prefix.
LEMMA CarryStepIInv == IInv /\ CarryStep => IInv'
<1> SUFFICES ASSUME IInv, CarryStep PROVE IInv'
  OBVIOUS
<1>1. /\ phase = "carry" /\ phase' = "carry" /\ len' = len
      /\ next \in ChunksFor(len)
      /\ totals' = [totals EXCEPT ![next] = f(totals[next - 1], @)]
      /\ next' = next + 1
      /\ pos' = pos /\ acc' = acc /\ scanned' = scanned
  BY Here DEF CarryStep
<1>2. Typed /\ CarryOK /\ next \in Nat /\ next >= 2
  BY <1>1 DEF IInv, Typed, CarryOK
<1>3. /\ len \in Lengths /\ len \in Nat
      /\ LastIn(len, next) \in Nat /\ LastIn(len, next) <= len
      /\ 1 <= LastIn(len, next)
  BY <1>1, ChunkFacts
<1>4. next - 1 \in ChunksFor(len) /\ FirstIn(len, next) = LastIn(len, next - 1) + 1
  BY <1>1, <1>2, <1>3, PartsMeet
<1>5. f(totals[next - 1], totals[next]) = Run(1, LastIn(len, next))
  <2>1. totals[next - 1] = Run(1, LastIn(len, next - 1))
    BY <1>2, <1>4 DEF CarryOK
  <2>2. totals[next] = Run(LastIn(len, next - 1) + 1, LastIn(len, next))
    BY <1>1, <1>2, <1>4 DEF CarryOK
  <2>3. LastIn(len, next - 1) \in Int /\ LastIn(len, next) \in Int
    BY <1>3, <1>4, ChunkFacts
  <2>4. QED
    BY <2>1, <2>2, <2>3, JoinRuns
<1>6. Run(1, LastIn(len, next)) \in Runs
  BY <1>3, RunsType
<1>7. totals' = [totals EXCEPT ![next] = Run(1, LastIn(len, next))]
  BY <1>1, <1>5
<1>8. Typed'
  <2>1. Runs' = Runs
    BY <1>1 DEF Runs
  <2>2. QED
    BY <1>1, <1>2, <1>6, <1>7, <2>1 DEF Typed
<1>9. ASSUME NEW c \in ChunksFor(len)
      PROVE  totals'[c] = IF c < next + 1 THEN Run(1, LastIn(len, c))
                                          ELSE Run(FirstIn(len, c), LastIn(len, c))
  <2>1. c \in Nat
    BY ChunkFacts
  <2>2. CASE c = next
    BY <1>2, <1>7, <2>2 DEF Typed
  <2>3. CASE c # next
    <3>1. totals'[c] = totals[c]
      BY <1>2, <1>7, <2>3 DEF Typed
    <3>2. c < next + 1 <=> c < next
      BY <1>2, <2>1, <2>3
    <3>3. QED
      BY <1>2, <3>1, <3>2 DEF CarryOK
  <2>4. QED
    BY <2>2, <2>3
<1>10. CarryOK'
  BY <1>1, <1>2, <1>9 DEF CarryOK
<1>11. QED
  BY <1>1, <1>8, <1>10 DEF IInv, ScanIsExact

\* The end of the sequential pass: all totals are prefixes.
LEMMA CarryDoneIInv == IInv /\ CarryDone => IInv'
<1> SUFFICES ASSUME IInv, CarryDone PROVE IInv'
  OBVIOUS
<1>1. /\ phase = "carry" /\ phase' = "add" /\ len' = len
      /\ next \notin ChunksFor(len)
      /\ pos' = [c \in ChunksFor(len) |-> 0]
      /\ acc' = acc /\ totals' = totals /\ next' = next /\ scanned' = scanned
  BY Here DEF CarryDone
<1>2. Typed /\ CarryOK /\ next \in Nat /\ next >= 2 /\ len \in Lengths /\ len \in Nat
  BY <1>1, ScanAssumption DEF IInv, Typed, CarryOK
<1>3. Typed'
  <2>1. Runs' = Runs
    BY <1>1 DEF Runs
  <2>2. QED
    BY <1>1, <1>2, <2>1 DEF Typed
<1>4. ASSUME NEW c \in ChunksFor(len) PROVE AddOK(c)'
  <2>1. c < next
    <3>1. c \in Nat
      BY ChunkFacts
    <3>2. ASSUME next <= c PROVE FALSE
      BY <1>1, <1>2, <3>2, ChunksBelow
    <3>3. QED
      BY <1>2, <3>1, <3>2
  <2>2. totals[c] = Run(1, LastIn(len, c))
    BY <1>2, <2>1 DEF CarryOK
  <2>3. pos'[c] = 0 /\ 0 <= LengthIn(len, c)
    BY <1>1, ChunkFacts
  <2>4. ASSUME NEW i \in Part(len, c)
        PROVE  scanned[i] = IF c = 1 \/ i < FirstIn(len, c) + 0 THEN Run(1, i)
                                                            ELSE Run(FirstIn(len, c), i)
    <3>1. scanned[i] = Run(FirstIn(len, c), i)
      BY <1>2 DEF CarryOK
    <3>2. ~(i < FirstIn(len, c) + 0)
      BY ChunkFacts DEF Part
    <3>3. c = 1 => FirstIn(len, c) = 1
      BY <1>2, FirstPart
    <3>4. QED
      BY <3>1, <3>2, <3>3
  <2>5. QED
    BY <1>1, <2>2, <2>3, <2>4 DEF AddOK
<1>5. QED
  BY <1>1, <1>3, <1>4 DEF IInv, ScanIsExact

\* An element of the second pass: the prefix before the chunk and the run
\* within it make the prefix up to the element.
LEMMA AddStepIInv ==
  ASSUME IInv, NEW c \in ChunksFor(len), AddStep(c)
  PROVE  IInv'
<1> DEFINE lo == FirstIn(len, c)
           i == lo + pos[c]
<1>1. /\ phase = "add" /\ phase' = "add" /\ len' = len /\ c > 1
      /\ pos[c] < LengthIn(len, c)
      /\ pos' = [pos EXCEPT ![c] = @ + 1]
      /\ scanned' = [scanned EXCEPT ![i] = f(totals[c - 1], @)]
      /\ acc' = acc /\ totals' = totals /\ next' = next
  BY Here DEF AddStep
<1>2. /\ len \in Lengths /\ len \in Nat /\ c \in Nat
      /\ LastIn(len, c) <= len /\ LastIn(len, c) \in Nat
      /\ lo \in Nat /\ 1 <= lo /\ lo <= LastIn(len, c)
      /\ LengthIn(len, c) \in 1..len /\ pos[c] \in 0..(len + 1)
  BY ChunkFacts
<1>3. Typed /\ AddOK(c)
  BY <1>1 DEF IInv
<1>4. c - 1 \in ChunksFor(len) /\ lo = LastIn(len, c - 1) + 1
  BY <1>1, <1>2, PartsMeet
<1> HIDE DEF lo
<1>5. i \in Part(len, c) /\ i \in 1..len /\ i \in Nat
  BY <1>1, <1>2 DEF Part, LengthIn, lo
<1> HIDE DEF i
<1>6. f(totals[c - 1], scanned[i]) = Run(1, i)
  <2>1. totals[c - 1] = Run(1, LastIn(len, c - 1))
    BY <1>1, <1>4 DEF IInv, AddOK
  <2>2. scanned[i] = Run(lo, i)
    <3>1. ~(i < lo + pos[c]) /\ c # 1
      BY <1>1, <1>2 DEF i
    <3>2. scanned[i] = IF c = 1 \/ i < FirstIn(len, c) + pos[c] THEN Run(1, i)
                                                            ELSE Run(FirstIn(len, c), i)
      BY <1>3, <1>5 DEF AddOK
    <3>3. QED
      BY <3>1, <3>2 DEF lo
  <2>3. LastIn(len, c - 1) \in Int /\ i \in Int
    BY <1>4, <1>5, ChunkFacts
  <2>4. f(Run(1, LastIn(len, c - 1)), Run(LastIn(len, c - 1) + 1, i)) = Run(1, i)
    BY <2>3, JoinRuns
  <2>5. QED
    BY <1>4, <2>1, <2>2, <2>4
<1>7. Run(1, i) \in Runs
  BY <1>2, <1>5, RunsType
<1>8. scanned' = [scanned EXCEPT ![i] = Run(1, i)]
  BY <1>1, <1>6 DEF i
<1>9. Typed'
  <2>1. Runs' = Runs
    BY <1>1 DEF Runs
  <2>2. pos[c] + 1 \in 0..(len + 1)
    BY <1>1, <1>2
  <2>3. QED
    BY <1>1, <1>3, <1>7, <1>8, <2>1, <2>2 DEF Typed
<1>10. ASSUME NEW d \in ChunksFor(len) PROVE AddOK(d)'
  <2>1. AddOK(d)
    BY <1>1 DEF IInv
  <2>2. CASE d = c
    <3>1. pos'[c] = pos[c] + 1 /\ pos'[c] <= LengthIn(len, c)
      BY <1>1, <1>2, <1>3 DEF Typed
    <3>2. ASSUME NEW j \in Part(len, c)
          PROVE  scanned'[j] = IF c = 1 \/ j < FirstIn(len, c) + pos'[c]
                             THEN Run(1, j) ELSE Run(FirstIn(len, c), j)
      <4>1. j \in 1..len /\ FirstIn(len, c) = lo
        BY ChunkFacts DEF lo
      <4>2. CASE j = i
        <5>1. j < FirstIn(len, c) + pos'[c]
          BY <1>2, <3>1, <4>1, <4>2 DEF i
        <5>2. QED
          BY <1>3, <1>8, <4>1, <4>2, <5>1 DEF Typed
      <4>3. CASE j # i
        <5>1. j < lo + pos'[c] <=> j < lo + pos[c]
          BY <1>2, <3>1, <4>1, <4>3 DEF i
        <5>2. scanned[j] = IF c = 1 \/ j < FirstIn(len, c) + pos[c]
                         THEN Run(1, j) ELSE Run(FirstIn(len, c), j)
          BY <1>3 DEF AddOK
        <5>3. scanned'[j] = scanned[j]
          BY <1>3, <1>8, <4>1, <4>3 DEF Typed
        <5>4. QED
          BY <4>1, <5>1, <5>2, <5>3
      <4>4. QED
        BY <4>2, <4>3
    <3>3. QED
      BY <1>1, <2>1, <2>2, <3>1, <3>2 DEF AddOK
  <2>3. CASE d # c
    <3>1. pos'[d] = pos[d]
      BY <1>1, <1>3, <2>3 DEF Typed
    <3>2. ASSUME NEW j \in Part(len, d) PROVE scanned'[j] = scanned[j]
      <4>1. j # i /\ j \in 1..len
        BY <1>5, <2>3, OtherPart, ChunkFacts
      <4>2. QED
        BY <1>3, <1>8, <4>1 DEF Typed
    <3>3. QED
      BY <1>1, <2>1, <3>1, <3>2 DEF AddOK
  <2>4. QED
    BY <2>2, <2>3
<1>11. QED
  BY <1>1, <1>9, <1>10 DEF IInv, ScanIsExact

\* The end of the second pass: every element is in a chunk that is done.
LEMMA AddJoinIInv == IInv /\ AddJoin => IInv'
<1> SUFFICES ASSUME IInv, AddJoin PROVE IInv'
  OBVIOUS
<1>1. /\ phase = "add" /\ phase' = "returned" /\ len' = len
      /\ \A c \in ChunksFor(len) : c > 1 => pos[c] = LengthIn(len, c)
      /\ pos' = pos /\ acc' = acc /\ totals' = totals /\ next' = next /\ scanned' = scanned
  BY Here DEF AddJoin
<1>2. Typed /\ len \in Lengths
  BY DEF IInv, Typed
<1>3. Typed'
  <2>1. Runs' = Runs
    BY <1>1 DEF Runs
  <2>2. QED
    BY <1>1, <1>2, <2>1 DEF Typed
<1>4. ASSUME NEW i \in 1..len PROVE scanned[i] = Run(1, i)
  <2>1. PICK c \in ChunksFor(len) : i \in Part(len, c)
    BY <1>2, PartOfElement
  <2>2. AddOK(c)
    BY <1>1 DEF IInv
  <2>3. c = 1 \/ i < FirstIn(len, c) + pos[c]
    <3>1. c = 1 \/ pos[c] = LengthIn(len, c)
      BY <1>1, ChunkFacts
    <3>2. QED
      BY <2>1, <3>1, ChunkFacts DEF Part, LengthIn
  <2>4. QED
    BY <2>1, <2>2, <2>3 DEF AddOK
<1>5. QED
  BY <1>1, <1>3, <1>4 DEF IInv, ScanIsExact

\* Nothing happens.
LEMMA StutterIInv == IInv /\ UNCHANGED scanVars => IInv'
<1> SUFFICES ASSUME IInv, UNCHANGED scanVars PROVE IInv'
  OBVIOUS
<1>1. /\ len' = len /\ phase' = phase /\ pos' = pos /\ acc' = acc
      /\ totals' = totals /\ next' = next /\ scanned' = scanned
  BY DEF scanVars
<1>2. Typed' /\ CarryOK' = CarryOK /\ ScanIsExact'
  BY <1>1 DEF IInv, Typed, Runs, CarryOK, ScanIsExact
<1>3. \A c : LocalOK(c)' = LocalOK(c) /\ AddOK(c)' = AddOK(c)
  BY <1>1 DEF LocalOK, AddOK
<1>4. QED
  BY <1>1, <1>2, <1>3 DEF IInv

-------------------------------------------------------------------------------
(* The theorems                                                             *)

\* The invariant holds always.
LEMMA Invariance == ScanSpec => []IInv
<1>1. ScanInit => IInv
  BY InitIInv
<1>2. IInv /\ [ScanNext]_scanVars => IInv'
  <2> SUFFICES ASSUME IInv, [ScanNext]_scanVars PROVE IInv'
    OBVIOUS
  <2>1. ASSUME NEW c \in Chunks, LocalStep(c) \/ LocalTotal(c) \/ AddStep(c)
        PROVE  IInv'
    <3>1. c \in ChunksFor(len)
      BY Here
    <3>2. QED
      BY <2>1, <3>1, LocalStepIInv, LocalTotalIInv, AddStepIInv
  <2>2. QED
    BY <2>1, LocalJoinIInv, CarryStepIInv, CarryDoneIInv, AddJoinIInv, AgainIInv,
       StutterIInv DEF ScanNext, Step
<1>3. QED
  BY <1>1, <1>2, PTL DEF ScanSpec

\* Every variable keeps its type, for every length, number of threads and least
\* size of a chunk: no task of parallel_scan leaves its chunk.
THEOREM TypeCorrect == ScanSpec => []ScanTypeOK
<1>1. IInv => ScanTypeOK
  BY TypedIsTypeOK DEF IInv
<1>2. QED
  BY <1>1, Invariance, PTL

\* However the tasks interleave, parallel_scan returns the sequential scan.
THEOREM Exact == ScanSpec => []ScanIsExact
<1>1. IInv => ScanIsExact
  BY DEF IInv
<1>2. QED
  BY <1>1, Invariance, PTL

\* The carries are complete when the second parallel pass reads them.
THEOREM Carries == ScanSpec => []CarryIsPrefix
<1>1. IInv => CarryIsPrefix
  BY Here DEF IInv, AddOK, CarryIsPrefix
<1>2. QED
  BY <1>1, Invariance, PTL

===============================================================================
