------------------------------- MODULE BulkOps -------------------------------
(***************************************************************************)
(* The operations of ops.rs that write a buffer, element by element: fills,*)
(* copies, casts, maps, selections, gather and scatter, and the methods of *)
(* Buffer made of them.                                                    *)
(*                                                                         *)
(* A call checks its arguments in an order of its own and returns the      *)
(* first error.  Then it makes its target unique, which replaces it by a   *)
(* copy if its memory is shared, with a source of the same call perhaps,   *)
(* or with a Buffer that is no argument.  Then it writes the elements,     *)
(* most of them as tasks of a thread pool, in any order.                   *)
(*                                                                         *)
(* Nothing is known of the elements: a cell holds its own name until it is *)
(* written, and then what was computed from such names.  Masks and indices *)
(* are numbers.  Views begin at the front of their memory: where others    *)
(* go wrong is what BufferShare shows.                                     *)
(***************************************************************************)
EXTENDS Integers, SequencesExt, FiniteSetsExt

DT == INSTANCE DType

CONSTANTS
  Layouts,        \* shapes and strides, in elements, of the arguments
  Lists,          \* contents of masks and lists of indices
  Lanes,          \* 8, the elements of an AVX register
  StridedTargets  \* copies, casts and selections write targets with gaps, too

ASSUME BulkAssumption ==
  /\ \A l \in Layouts : /\ l.shape \in Seq(Nat) /\ l.strides \in Seq(Nat)
                         /\ Len(l.strides) = Len(l.shape)
  /\ Lists \subseteq Seq(Int)
  /\ Lanes \in Nat \ {0}
  /\ StridedTargets \in BOOLEAN

VARIABLES
  stage,   \* "idle", "called", "working" or "returned"
  call,    \* the operation and its arguments
  dst,     \* the target, which make_unique may replace
  mem,     \* the memory the arguments lie in
  todo,    \* the elements that are still to be written
  result   \* "Ok" or the error

bulkVars == <<stage, call, dst, mem, todo, result>>

---------------------------------------------------------------------------
\* Arrays, their elements counted from 0 in C order.
\* How many elements there are to an index of the first k axes.
Below(shape) ==
  LET n[k \in 0..Len(shape)] == IF k = Len(shape) THEN 1 ELSE shape[k + 1] * n[k + 1] IN n

SizeOf(x) == Below(x.shape)[0]

ElementStrides(shape) == LET n == Below(shape) IN [k \in DOMAIN shape |-> n[k]]

IsRowMajor(x) == SizeOf(x) = 0 \/ x.strides = ElementStrides(x.shape)

IndexOf(shape, i) ==
  LET n == Below(shape) IN [k \in DOMAIN shape |-> (i \div n[k]) % shape[k]]

IndexPos(strides, index) ==
  LET sum[k \in 0..Len(strides)] == IF k = 0 THEN 0 ELSE sum[k - 1] + strides[k] * index[k]
  IN sum[Len(strides)]

Pos(x, i) == IndexPos(x.strides, IndexOf(x.shape, i))

At(m, x, i) == m[x.blk][Pos(x, i)]

Elements(x) == 0..(SizeOf(x) - 1)

Array(blk, layout, dtype, writeable) ==
  [blk |-> blk, shape |-> layout.shape, strides |-> layout.strides,
   dtype |-> dtype, writeable |-> writeable]

\* An array that is only read.
Input(blk, layout, dtype) == Array(blk, layout, dtype, FALSE)

NoArray == [blk |-> "none"]

\* to_contiguous of an array, in memory of its own.
CopyOf(x) == Array("new", [shape |-> x.shape, strides |-> ElementStrides(x.shape)], x.dtype, TRUE)

Cells == UNION {UNION {0..Pos(l, i) : i \in Elements(l)} : l \in Layouts}

\* The memory when a call begins.
Initially(c) ==
  [blk \in {"d", "a", "b", "m", "new"} |->
     IF blk = "m" THEN [p \in 0..(Len(c.list) - 1) |-> c.list[p + 1]]
     ELSE [p \in Cells |-> <<"cell", blk, p>>]]

\* strong_count > 1: a source is a view of the same memory, or another Buffer is.
Shared(c) == c.held \/ "d" \in {c.a.blk, c.b.blk}

---------------------------------------------------------------------------
\* The checks of each operation, in the order of the code.
Check(bad, error) == [bad |-> bad, error |-> error]

SameType(x, dtype) == Check(x.dtype # dtype, "DTypeMismatch")
SameLen(x, y) == Check(SizeOf(x) # SizeOf(y), "ShapeMismatch")
SameShape(x, y) == Check(x.shape # y.shape, "ShapeMismatch")
Contiguous(x) == Check(~IsRowMajor(x), "NonContiguous")
Writeable(x) == Check(~x.writeable, "ReadOnly")
MustHold(p) == Check(~p, "Internal")

\* T::DTYPE of a generic operation.
T == "F32"

FillRawChecks(c) == <<MustHold(c.arg = 1), Writeable(c.dst)>>   \* fill_bytes is one element

FillChecks(c) == <<SameType(c.dst, T), Writeable(c.dst)>>

FillZeroChecks(c) == <<Writeable(c.dst)>>

FillOneChecks(c) == <<Writeable(c.dst)>>   \* fill with the T of its dtype

CopyChecks(c) == <<SameType(c.dst, c.a.dtype), SameLen(c.a, c.dst), Writeable(c.dst)>>

CastMode(c) == IF c.arg = 0 THEN "Safe" ELSE "Unsafe"

CastChecks(c) ==
  <<SameLen(c.a, c.dst)>> \o
  IF c.a.dtype = c.dst.dtype THEN CopyChecks(c)
  ELSE <<Check(~DT!CanCast(c.a.dtype, c.dst.dtype, CastMode(c)), "InvalidCast"), Writeable(c.dst)>>

MapChecks(c) ==
  <<Contiguous(c.a), Contiguous(c.dst), SameLen(c.a, c.dst), Writeable(c.dst)>>

\* abs of a type without negative numbers is a copy, and so is neg of Bool;
\* sqrt, ln and exp are for floats.
AbsChecks(c) == IF c.a.dtype \in {"Bool", "U8"} THEN CopyChecks(c) ELSE MapChecks(c)

NegChecks(c) == IF c.a.dtype = "Bool" THEN CopyChecks(c) ELSE MapChecks(c)

SqrtChecks(c) == <<Check(c.a.dtype \notin {"F32", "F64"}, "DTypeMismatch")>> \o MapChecks(c)

InplaceChecks(c) == <<Contiguous(c.dst), Writeable(c.dst)>>

WhereChecks(c) ==
  <<SameType(c.m, "U8")>>
    \o <<SameType(c.a, T), SameShape(c.a, c.m), Contiguous(c.a)>>
    \o <<SameType(c.b, T), SameShape(c.b, c.m), Contiguous(c.b)>>
    \o <<Writeable(c.dst), SameShape(c.dst, c.m)>>

\* parallel_scan checks the same.
ClipChecks(c) ==
  <<SameType(c.a, T), SameType(c.dst, T), SameLen(c.a, c.dst),
    Contiguous(c.a), Contiguous(c.dst), Writeable(c.dst)>>

ZipChecks(c) ==
  <<SameType(c.a, T), SameType(c.b, T), SameLen(c.a, c.b), SameLen(c.a, c.dst),
    Contiguous(c.a), Contiguous(c.b), Contiguous(c.dst), Writeable(c.dst)>>

\* gather reads as many elements as it has indices, scatter writes them.
IndexChecks(c, paired) ==
  <<SameType(c.m, "I64"), SameType(c.dst, c.a.dtype), Contiguous(c.a), Contiguous(c.m),
    Contiguous(c.dst), SameLen(c.m, paired), Writeable(c.dst)>>

GatherChecks(c) == IndexChecks(c, c.dst)
ScatterChecks(c) == IndexChecks(c, c.a)

FlipChecks(c) ==
  <<SameType(c.dst, c.a.dtype), SameShape(c.a, c.dst), MustHold(c.arg < Len(c.a.shape)),
    Contiguous(c.dst), Writeable(c.dst)>>

NontemporalChecks(c) == <<SameType(c.dst, "F32"), Contiguous(c.dst), Writeable(c.dst)>>

TriChecks(c) == <<MustHold(Len(c.dst.shape) = 2)>>

DiagonalChecks(c) ==
  <<MustHold(Len(c.dst.shape) = 2), SameType(c.dst, T), Writeable(c.dst)>>

Checks(c) ==
  CASE c.op = "fill_raw" -> FillRawChecks(c)
    [] c.op \in {"fill", "fill_sequential"} -> FillChecks(c)
    [] c.op = "fill_zero" -> FillZeroChecks(c)
    [] c.op = "fill_one" -> FillOneChecks(c)
    [] c.op = "copy" -> CopyChecks(c)
    [] c.op = "cast" -> CastChecks(c)
    [] c.op = "map" -> MapChecks(c)
    [] c.op = "abs" -> AbsChecks(c)
    [] c.op = "neg" -> NegChecks(c)
    [] c.op = "sqrt" -> SqrtChecks(c)
    [] c.op = "inplace" -> InplaceChecks(c)
    [] c.op = "where" -> WhereChecks(c)
    [] c.op \in {"clip", "scan"} -> ClipChecks(c)
    [] c.op = "zip" -> ZipChecks(c)
    [] c.op = "gather" -> GatherChecks(c)
    [] c.op = "scatter" -> ScatterChecks(c)
    [] c.op = "flip" -> FlipChecks(c)
    [] c.op = "nontemporal" -> NontemporalChecks(c)
    [] c.op \in {"tril", "triu"} -> TriChecks(c)
    [] c.op = "fill_diagonal" -> DiagonalChecks(c)
    [] OTHER -> <<>>   \* add_scalar, mul_scalar: the copy passes those of inplace

Failing(c) == {k \in DOMAIN Checks(c) : Checks(c)[k].bad}

---------------------------------------------------------------------------
\* The elements a call writes, and what it writes, reading the memory m.
IsCopy(c) ==
  \/ c.op = "copy"
  \/ c.op = "cast" /\ c.a.dtype = c.dst.dtype
  \/ c.op = "abs" /\ c.a.dtype \in {"Bool", "U8"}
  \/ c.op = "neg" /\ c.a.dtype = "Bool"

\* A seeded fault: whole registers are counted from the front, not from the prefix.
NontemporalUnshifted(n, align) ==
  LET prefix == Min({align, n})
      whole == (n \div Lanes) * Lanes
  IN (0..(prefix - 1)) \cup (prefix..(whole - 1)) \cup ((prefix + whole)..(n - 1))

\* The three loops of fill_nontemporal_f32_buf: up to the first aligned element,
\* whole registers, and what is left.
Nontemporal(n, align) ==
  LET prefix == Min({align, n})
      whole == ((n - prefix) \div Lanes) * Lanes
  IN (0..(prefix - 1)) \cup (prefix..(prefix + whole - 1)) \cup ((prefix + whole)..(n - 1))

\* The elements tril clears are right of diagonal k, those of triu left of it.
Tri(x, k) == {i \in Elements(x) : IndexOf(x.shape, i)[2] > IndexOf(x.shape, i)[1] + k}
Triu(x, k) == {i \in Elements(x) : IndexOf(x.shape, i)[2] < IndexOf(x.shape, i)[1] + k}

OnDiagonal(x) == {i \in Elements(x) : IndexOf(x.shape, i)[1] = IndexOf(x.shape, i)[2]}

Tasks(c) ==
  CASE c.op = "scatter" -> Elements(c.a)
    [] c.op = "nontemporal" -> Nontemporal(SizeOf(c.dst), c.arg)
    [] c.op = "tril" -> Tri(c.dst, c.arg)
    [] c.op = "triu" -> Triu(c.dst, c.arg)
    [] c.op = "fill_diagonal" -> OnDiagonal(c.dst)
    [] OTHER -> Elements(c.dst)

\* An index counts from the end if it is negative.
FromFront(i, n) == IF i < 0 THEN n + i ELSE i

\* gather takes the last element for any index beyond either end, as a usize one
\* below 0 is far behind the end: so a release build; one with debug assertions
\* panics.
Gathered(i, n) == LET j == FromFront(i, n) IN IF j \in 0..(n - 1) THEN j ELSE n - 1

FlippedPos(c, i) ==
  LET index == IndexOf(c.dst.shape, i)
      axis == c.arg + 1
  IN IndexPos(c.a.strides, [index EXCEPT ![axis] = c.a.shape[axis] - 1 - @])

Kernel(c, x, m, i) ==
  CASE IsCopy(c) -> At(m, c.a, i)
    [] c.op \in {"fill_raw", "fill", "fill_one", "nontemporal", "fill_diagonal"} -> <<"value">>
    [] c.op \in {"fill_zero", "tril", "triu"} -> <<"zero">>
    [] c.op = "fill_sequential" -> <<"start + step *", i>>
    [] c.op = "cast" /\ ~IsCopy(c) -> <<"cast", At(m, c.a, i)>>
    [] c.op \in {"map", "abs", "neg", "sqrt", "clip"} /\ ~IsCopy(c) -> <<"f", At(m, c.a, i)>>
    [] c.op \in {"inplace", "add_scalar", "mul_scalar"} -> <<"f", At(m, x, i)>>
    [] c.op = "where" -> IF At(m, c.m, i) # 0 THEN At(m, c.a, i) ELSE At(m, c.b, i)
    [] c.op = "zip" -> <<"f", At(m, c.a, i), At(m, c.b, i)>>
    [] c.op = "scan" -> <<"f", [j \in 0..i |-> At(m, c.a, j)]>>   \* as ParallelScan shows
    [] c.op = "gather" -> At(m, c.a, Gathered(At(m, c.m, i), SizeOf(c.a)))
    [] c.op = "scatter" -> At(m, c.a, i)
    [] c.op = "flip" -> m[c.a.blk][FlippedPos(c, i)]

\* Where task i writes: nowhere, if an index of scatter is out of range.  Copies,
\* casts and selections count the elements of the target from its front,
\* whatever its strides are.
FromBase(c) == IsCopy(c) \/ c.op \in {"cast", "where"}

Target(c, x, m, i) ==
  CASE FromBase(c) -> {i}
    [] c.op = "scatter" ->
         LET j == FromFront(At(m, c.m, i), SizeOf(x)) IN {j} \cap Elements(x)
    [] OTHER -> {Pos(x, i)}

\* Loops, where the others are parallel iterators; nontemporal has one, if there is
\* no AVX2.
IsLoop(c, x) ==
  \/ c.op \in {"scatter", "flip", "tril", "triu", "fill_diagonal"}
  \/ ~IsRowMajor(x)
  \/ FromBase(c) /\ ~IsRowMajor(c.a)

\* The methods that return a new array start from a copy of the old one.
OnCopy(c) == c.op \in {"tril", "triu", "add_scalar", "mul_scalar"}

\* A seeded fault: a view of the target's memory among the sources is overlooked.
CopiesIfHeld(c) == OnCopy(c) \/ c.held

Copies(c) == OnCopy(c) \/ Shared(c)

---------------------------------------------------------------------------
\* Copies, casts and selections write a target that is row-major, or that make_unique
\* replaces by a copy that is.
Gapless(c) == FromBase(c) => IsRowMajor(c.dst) \/ Shared(c)

\* What the code does not check and takes on trust: that the target of a map or
\* selection has the type it writes, that a mask is contiguous, that gather has
\* something to read (it would panic), that no two elements of a target it
\* writes in place share a cell, as those of a broadcast view do.  Without
\* StridedTargets, calls are gapless, too.
Trusted(c) ==
  /\ c.op \in {"map", "abs", "neg", "sqrt"} /\ ~IsCopy(c) => c.dst.dtype = c.a.dtype
  /\ c.op = "where" => c.dst.dtype = c.a.dtype /\ IsRowMajor(c.m)
  /\ c.op = "gather" => SizeOf(c.a) > 0 \/ SizeOf(c.m) = 0
  /\ ~Copies(c) => \A i, j \in Elements(c.dst) : Pos(c.dst, i) = Pos(c.dst, j) => i = j
  /\ StridedTargets \/ Gapless(c)

BulkInit ==
  /\ stage = "idle"
  /\ call = NoArray
  /\ dst = NoArray
  /\ mem = <<>>
  /\ todo = {}
  /\ result = "none"

Call(c) ==
  /\ Trusted(c)
  /\ stage' = "called"
  /\ call' = c
  /\ dst' = c.dst
  /\ mem' = Initially(c)
  /\ UNCHANGED <<todo, result>>

Refuse ==
  /\ stage = "called"
  /\ Failing(call) # {}
  /\ stage' = "returned"
  /\ result' = Checks(call)[Min(Failing(call))].error
  /\ UNCHANGED <<call, dst, mem, todo>>

Start ==
  /\ stage = "called"
  /\ Failing(call) = {}
  /\ stage' = "working"
  /\ todo' = Tasks(call)
  /\ UNCHANGED <<call, result>>

\* make_unique: the target is sole on its memory and becomes writeable,
StartInPlace ==
  /\ Start
  /\ ~Copies(call)
  /\ dst' = [dst EXCEPT !.writeable = TRUE]
  /\ UNCHANGED mem

\* or it is copied,
StartOnCopy ==
  /\ Start
  /\ Copies(call)
  /\ dst' = CopyOf(dst)
  /\ mem' = [mem EXCEPT !["new"] = [i \in Elements(dst) |-> At(mem, dst, i)]]

\* or there is no memory for the copy.
StartFails ==
  /\ stage = "called"
  /\ Failing(call) = {}
  /\ Copies(call)
  /\ stage' = "returned"
  /\ result' = "AllocationFailed"
  /\ UNCHANGED <<call, dst, mem, todo>>

\* Task i reads, computes and writes.
Write(i) ==
  /\ stage = "working"
  /\ i \in todo
  /\ IsLoop(call, dst) => \A j \in todo : i <= j
  /\ todo' = todo \ {i}
  /\ mem' = [mem EXCEPT ![dst.blk] =
               [p \in DOMAIN @ |-> IF p \in Target(call, dst, mem, i)
                                    THEN Kernel(call, dst, mem, i) ELSE @[p]]]
  /\ UNCHANGED <<stage, call, dst, result>>

Finish ==
  /\ stage = "working"
  /\ todo = {}
  /\ stage' = "returned"
  /\ result' = "Ok"
  /\ UNCHANGED <<call, dst, mem, todo>>

Return ==
  /\ stage = "returned"
  /\ stage' = "idle"
  /\ call' = NoArray
  /\ dst' = NoArray
  /\ mem' = <<>>
  /\ result' = "none"
  /\ UNCHANGED todo

---------------------------------------------------------------------------
\* The calls, by the arguments they take: elements of types that differ in what
\* the checks tell apart, masks and indices with and without gaps.
Ops1 == {"fill_raw", "fill", "fill_sequential", "fill_zero", "fill_one", "inplace",
         "nontemporal", "tril", "triu", "fill_diagonal", "add_scalar", "mul_scalar"}
Ops2 == {"copy", "cast", "map", "abs", "neg", "sqrt", "clip", "scan", "flip"}
OpsIndexed == {"gather", "scatter"}

ElementTypes(op) == {"F32", "I64"} \cup IF op \in {"abs", "neg", "cast"} THEN {"Bool"} ELSE {}

TargetArrays(op) ==
  {Array("d", l, t, w) : l \in Layouts, t \in ElementTypes(op), w \in BOOLEAN}

SourceArrays(op) ==
  {Input(blk, l, t) : blk \in {"a", "d"}, l \in Layouts, t \in ElementTypes(op)}

\* A second source like the first, or one that differs from it.
Seconds(a) ==
  {[a EXCEPT !.blk = blk] : blk \in {"b", "d"}} \cup {[a EXCEPT !.blk = "b", !.dtype = "I64"]}
    \cup {Input("b", l, a.dtype) : l \in {x \in Layouts : x.strides = <<1>>}}

Numbers(list) ==
  {Input("m", [shape |-> <<Len(list)>>, strides |-> <<step>>], t) :
     step \in {1, 2}, t \in {"U8", "I64"}}

Args(op) ==
  CASE op \in {"fill_raw", "cast", "flip"} -> {0, 1}
    [] op = "nontemporal" -> 0..(Lanes - 1)
    [] op \in {"tril", "triu"} -> {-1, 0, 1}
    [] OTHER -> {0}

Arguments(op, d, a, b, m, list, arg, held) ==
  [op |-> op, dst |-> d, a |-> a, b |-> b, m |-> m, list |-> list, arg |-> arg, held |-> held]

Invoke ==
  /\ stage = "idle"
  /\ \/ \E op \in Ops1 : \E d \in TargetArrays(op), x \in Args(op), held \in BOOLEAN :
          Call(Arguments(op, d, NoArray, NoArray, NoArray, <<>>, x, held))
     \/ \E op \in Ops2 : \E d \in TargetArrays(op), a \in SourceArrays(op), x \in Args(op), held \in BOOLEAN :
          Call(Arguments(op, d, a, NoArray, NoArray, <<>>, x, held))
     \/ \E d \in TargetArrays("zip"), a \in SourceArrays("zip"), held \in BOOLEAN : \E b \in Seconds(a) :
          Call(Arguments("zip", d, a, b, NoArray, <<>>, 0, held))
     \/ \E d \in TargetArrays("where"), a \in SourceArrays("where"), list \in Lists :
          \E b \in Seconds(a), m \in Numbers(list) :
            Call(Arguments("where", d, a, b, m, list, 0, FALSE))
     \/ \E op \in OpsIndexed, list \in Lists :
          \E d \in TargetArrays(op), a \in SourceArrays(op), m \in Numbers(list), held \in BOOLEAN :
            Call(Arguments(op, d, a, NoArray, m, list, 0, held))

BulkNext ==
  \/ Invoke
  \/ Refuse \/ StartInPlace \/ StartOnCopy \/ StartFails
  \/ \E i \in todo : Write(i)
  \/ Finish \/ Return

BulkSpec == BulkInit /\ [][BulkNext]_bulkVars

---------------------------------------------------------------------------
\* What an element of the target is in the end, from the memory before the call.
Mirrored(c, i) ==
  LET same == {j \in Elements(c.a) :
                 \A k \in DOMAIN c.a.shape :
                   LET x == IndexOf(c.a.shape, j)[k]
                       y == IndexOf(c.dst.shape, i)[k]
                   IN IF k = c.arg + 1 THEN x + y = c.a.shape[k] - 1 ELSE x = y}
  IN At(Initially(c), c.a, CHOOSE j \in same : TRUE)

Scattered(c, i) ==
  LET hits == {j \in Elements(c.a) : c.list[j + 1] \in {i, i - SizeOf(c.dst)}}
  IN IF hits = {} THEN At(Initially(c), c.dst, i) ELSE At(Initially(c), c.a, Max(hits))

Expected(c, i) ==
  CASE c.op = "flip" -> Mirrored(c, i)
    [] c.op = "scatter" -> Scattered(c, i)
    [] OTHER -> IF c.op = "nontemporal" \/ i \in Tasks(c) THEN Kernel(c, c.dst, Initially(c), i)
                ELSE At(Initially(c), c.dst, i)

\* A call that succeeds leaves in every element of its target what its
\* arguments determine as they were when it began, whatever memory they share
\* with the target and in whatever order its tasks ran, and changes nothing
\* else: no element another Buffer shows and no cell between its own.  A call
\* that fails changes nothing.
CallIsExact ==
  stage = "returned" =>
    /\ result # "Ok" => mem = Initially(call) /\ dst = call.dst
    /\ result = "Ok" =>
         /\ \A i \in Elements(dst) : At(mem, dst, i) = Expected(call, i)
         /\ \A blk \in {"a", "b", "m"} : mem[blk] = Initially(call)[blk]
         /\ \A p \in Cells :
              \/ mem["d"][p] = Initially(call)["d"][p]
              \/ /\ ~Shared(call)
                 /\ ~OnCopy(call)
                 /\ p \in {Pos(call.dst, i) : i \in Elements(dst)}

\* A copy "works with any combination of contiguous and non-contiguous source/dst"
\* (ops.rs:144).
CopyTakesAnyTarget == stage = "returned" /\ IsCopy(call) => CallIsExact
============================================================================
