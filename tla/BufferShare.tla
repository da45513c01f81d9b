------------------------------ MODULE BufferShare ------------------------------
(***************************************************************************)
(* Sharing and copy-on-write of crates/mohu-buffer/src/buffer.rs.          *)
(*                                                                         *)
(* A Buffer is a layout over a RawBuffer that it holds through an Arc with *)
(* other Buffers and with the DLPack tensors exported from it.  A writer   *)
(* first calls make_unique: alone on the RawBuffer it writes in place,     *)
(* otherwise it copies the elements to a RawBuffer of its own.             *)
(*                                                                         *)
(* A method on &mut Buffer (stage[b] # "idle") has b to itself, as the     *)
(* borrow checker sees to, and other threads work on the other Buffers     *)
(* between its steps: reading the Arc count, copying an element, replacing *)
(* the Buffer, writing an element.  A method on &Buffer is one step.       *)
(*                                                                         *)
(* Buffers are one-dimensional: element i is off + i * stride elements     *)
(* into the RawBuffer.  Shapes and dtypes are left out, and of the flags   *)
(* all but WRITEABLE, which only flags() reads.  Memory is a sequence of   *)
(* values for each block, empty when the block is not allocated.           *)
(***************************************************************************)
EXTENDS Integers, Sequences, FiniteSets

CONSTANTS
  Buffers,          \* names for Buffers; one that is dropped may be reused
  Raws,             \* names for RawBuffers, likewise
  Tensors,          \* names for DLManagedTensors, likewise
  NoRaw, NoTensor,  \* "no RawBuffer", "no tensor"
  MaxLen,           \* the largest number of elements
  Values,           \* the values of an element
  Starts, Steps,    \* the start and step callers pass to slice_axis
  SelfImport,       \* whether callers import a tensor this library exported
  MaxStride         \* a bound on strides, which slicing one element multiplies

ASSUME ShareAssumption ==
  /\ NoRaw \notin Raws
  /\ NoTensor \notin Tensors
  /\ Raws \cap Tensors = {}
  /\ IsFiniteSet(Buffers) /\ IsFiniteSet(Tensors)
  /\ MaxLen \in Nat
  /\ Starts \subseteq Nat
  /\ Steps \subseteq Nat \ {0}
  /\ SelfImport \in BOOLEAN
  /\ MaxStride \in Nat

VARIABLES
  raw,        \* raw[b]: the RawBuffer of Buffer b, NoRaw when b does not exist
  layout,     \* layout[b]: its offset, length and stride, in elements
  writeable,  \* writeable[b]: its WRITEABLE flag
  stage,      \* stage[b]: where a method on &mut b is
  copied,     \* copied[b]: the elements its make_unique has copied
  strong,     \* strong[r]: the Arc count of RawBuffer r, 0 when it is gone
  source,     \* source[r]: the tensor r was imported from, NoTensor if owned
  ptr,        \* ptr[r]: the block of memory and the place in it r starts at
  mem,        \* mem[k]: the values in block k
  tensor,     \* tensor[m]: who has DLManagedTensor m
  of,         \* of[m]: the RawBuffer m keeps alive, NoRaw if a stranger's
  shown       \* shown[m]: what its consumer sees: block, place, length, stride

bufferVars == <<raw, layout, writeable, stage, copied>>
rawVars    == <<strong, source, ptr>>
tensorVars == <<tensor, of, shown>>
vars == <<bufferVars, rawVars, mem, tensorVars>>

Blocks == Raws \cup Tensors

-------------------------------------------------------------------------------
(* Layouts and elements                                                     *)

Contiguous(n) == [off |-> 0, len |-> n, stride |-> 1]

\* Layout::is_c_contiguous
IsContiguous(l) == l.len = 0 \/ l.stride = 1

\* Where in the memory of r the element i of layout l is.
Address(r, l, i) == ptr[r].at + l.off + (i - 1) * l.stride

\* Where ops.rs looks for it: as_ptr() has the offset in it already, and the
\* iterator it walks strided elements with adds it once more.
OpsAddress(r, l, i) ==
  IF IsContiguous(l) THEN Address(r, l, i) ELSE Address(r, l, i) + l.off

\* The accessors of view.rs add it once more to every offset.
Addresses(r, l, i) ==
  {Address(r, l, i), OpsAddress(r, l, i), Address(r, l, i) + l.off}

\* What a read at place c of block k may give; outside the block, anything.
Reads(k, c) == IF c \in DOMAIN mem[k] THEN {mem[k][c]} ELSE Values

\* What a program sees in Buffer b.
Contents(b) ==
  [i \in 1..layout[b].len |->
     mem[ptr[raw[b]].block][Address(raw[b], layout[b], i)]]

Exists(b) == raw[b] # NoRaw
Idle(b) == Exists(b) /\ stage[b] = "idle"

-------------------------------------------------------------------------------
(* The effects the operations are made of.                                  *)

\* b becomes a Buffer on r.
Becomes(b, r, l, w) ==
  /\ raw' = [raw EXCEPT ![b] = r]
  /\ layout' = [layout EXCEPT ![b] = l]
  /\ writeable' = [writeable EXCEPT ![b] = w]

\* Arc::clone
Clone(r) == strong' = [strong EXCEPT ![r] = @ + 1]

\* RawBuffer::alloc: r owns a new block that holds v, and has one Arc.  (A
\* RawBuffer that is gone has no source and starts at its own block already.)
Alloc(r, v) ==
  /\ strong[r] = 0
  /\ strong' = [strong EXCEPT ![r] = 1]
  /\ mem' = [mem EXCEPT ![r] = v]

\* Dropping an Arc of r; with the last one goes r, with r the memory it owns or
\* the tensor it was imported from (Drop for BufferSource).
Last(r) == strong[r] = 1
Dropped(r) == [strong EXCEPT ![r] = @ - 1]
Freed(r) ==
  IF Last(r) /\ source[r] = NoTensor THEN [mem EXCEPT ![r] = <<>>] ELSE mem
Dying(r, T) ==
  [m \in Tensors |-> IF Last(r) /\ m = source[r] THEN "dying" ELSE T[m]]
Forget(r) ==
  /\ source' = [source EXCEPT ![r] = IF Last(r) THEN NoTensor ELSE @]
  /\ ptr' = [ptr EXCEPT ![r] = IF Last(r) THEN [block |-> r, at |-> 1] ELSE @]

\* A seeded fault: two holders still count as one.
SoleOfTwo(r) == strong[r] <= 2

\* Arc::strong_count(&self.raw) == 1
Sole(r) == strong[r] = 1

-------------------------------------------------------------------------------
(* Buffers come and go                                                      *)

\* Buffer::from_slice, alloc, zeros, full: a Buffer on memory of its own.
Create(b) ==
  /\ ~Exists(b)
  /\ \E r \in Raws, v \in [1..MaxLen -> Values] :
       /\ Alloc(r, v)
       /\ Becomes(b, r, Contiguous(MaxLen), TRUE)
  /\ UNCHANGED <<stage, copied, source, ptr, tensorVars>>

\* to_contiguous and cast: a copy of a on memory of its own.
CopyOut(a, b) ==
  /\ Idle(a)
  /\ ~Exists(b)
  /\ \E r \in Raws, v \in [1..layout[a].len -> Values] :
       /\ \A i \in 1..layout[a].len :
            v[i] \in Reads(ptr[raw[a]].block, OpsAddress(raw[a], layout[a], i))
       /\ Alloc(r, v)
       /\ Becomes(b, r, Contiguous(layout[a].len), TRUE)
  /\ UNCHANGED <<stage, copied, source, ptr, tensorVars>>

\* Drop for Buffer.
DropBuffer(b) ==
  /\ Idle(b)
  /\ Becomes(b, NoRaw, Contiguous(0), FALSE)
  /\ strong' = Dropped(raw[b])
  /\ mem' = Freed(raw[b])
  /\ tensor' = Dying(raw[b], tensor)
  /\ Forget(raw[b])
  /\ UNCHANGED <<stage, copied, of, shown>>

-------------------------------------------------------------------------------
(* Views: a new Buffer b on the RawBuffer of a                              *)

View(a, b, l, w) ==
  /\ Idle(a)
  /\ ~Exists(b)
  /\ Becomes(b, raw[a], l, w)
  /\ Clone(raw[a])
  /\ UNCHANGED <<stage, copied, source, ptr, mem, tensorVars>>

\* share and clone; transpose and permute, which keep the layout of one axis.
Share(a, b) == View(a, b, layout[a], FALSE)

\* reshape works out all the flags anew.
Reshape(a, b) ==
  /\ Exists(a)
  /\ IsContiguous(layout[a])
  /\ View(a, b, [layout[a] EXCEPT !.stride = 1], TRUE)

\* expand_dims (behind the last axis) and squeeze keep the flags.
ExpandDims(a, b) == View(a, b, layout[a], writeable[a])

\* A seeded fault: the length of a slice is rounded up once too often.
CountPlusOne(n, start, step) == ((n - start) \div step) + 1

\* SliceArg::resolve with a positive step: how many elements are left.
Count(n, start, step) == (n - start + step - 1) \div step

\* A seeded fault: a start beyond the end is kept.
Unclamped(n, start) == start

\* SliceArg::resolve with a start that is not negative: it is clamped.
Clamped(n, start) == IF start < n THEN start ELSE n

SliceAxis(a, b) ==
  \E start \in Starts, step \in Steps :
    /\ Exists(a)
    /\ layout[a].stride * step <= MaxStride
    /\ LET l == layout[a]
           s == Clamped(l.len, start)
       IN  View(a, b, [off |-> l.off + s * l.stride,
                       len |-> Count(l.len, s, step),
                       stride |-> l.stride * step], FALSE)

\* broadcast_to: an axis of one element gets the stride 0.
BroadcastTo(a, b) ==
  /\ Exists(a)
  /\ layout[a].len = 1
  /\ \E n \in 0..MaxLen :
       View(a, b, [layout[a] EXCEPT !.len = n,
                                    !.stride = IF n = 1 THEN @ ELSE 0], FALSE)

\* set_writeable
SetWriteable(b, w) ==
  /\ Idle(b)
  /\ w => Sole(raw[b])
  /\ writeable' = [writeable EXCEPT ![b] = w]
  /\ UNCHANGED <<raw, layout, stage, copied, rawVars, mem, tensorVars>>

-------------------------------------------------------------------------------
(* make_unique and the writers                                              *)

\* make_unique is called and reads the Arc count.
MakeUnique(b) ==
  /\ Idle(b)
  /\ IF Sole(raw[b])
       THEN writeable' = [writeable EXCEPT ![b] = TRUE] /\ UNCHANGED stage
       ELSE stage' = [stage EXCEPT ![b] = "copy"] /\ UNCHANGED writeable
  /\ UNCHANGED <<raw, layout, copied, rawVars, mem, tensorVars>>

\* A seeded fault: a writer that forgets make_unique.
BeginWriteInPlace(b) ==
  /\ Idle(b)
  /\ writeable[b]
  /\ stage' = [stage EXCEPT ![b] = "write"]
  /\ UNCHANGED <<raw, layout, writeable, copied, rawVars, mem, tensorVars>>

\* A writer (set, as_mut_slice, BufferViewMut, the writers of ops.rs) is called,
\* tests the flag and calls make_unique, which reads the Arc count.
BeginWrite(b) ==
  /\ Idle(b)
  /\ writeable[b]
  /\ stage' = [stage EXCEPT ![b] = IF Sole(raw[b]) THEN "write" ELSE "copy_write"]
  /\ UNCHANGED <<raw, layout, writeable, copied, rawVars, mem, tensorVars>>

Copying(b) == stage[b] \in {"copy", "copy_write"}

\* to_contiguous cannot allocate; the method returns the error.
CopyFails(b) ==
  /\ Copying(b)
  /\ copied[b] = <<>>
  /\ stage' = [stage EXCEPT ![b] = "idle"]
  /\ UNCHANGED <<raw, layout, writeable, copied, rawVars, mem, tensorVars>>

\* copy_to_contiguous copies the next element (its chunks run in any order;
\* nothing tells the orders apart).
CopyElement(b) ==
  LET i == Len(copied[b]) + 1 IN
  /\ Copying(b)
  /\ i <= layout[b].len
  /\ \E x \in Reads(ptr[raw[b]].block, OpsAddress(raw[b], layout[b], i)) :
       copied' = [copied EXCEPT ![b] = Append(@, x)]
  /\ UNCHANGED <<raw, layout, writeable, stage, rawVars, mem, tensorVars>>

\* *self = new_buf: the copy takes the place of b, whose old Arc is dropped.
Replace(b) ==
  /\ Copying(b)
  /\ Len(copied[b]) = layout[b].len
  /\ \E r \in Raws :
       /\ strong[r] = 0
       /\ strong' = [Dropped(raw[b]) EXCEPT ![r] = 1]
       /\ mem' = [Freed(raw[b]) EXCEPT ![r] = copied[b]]
       /\ Becomes(b, r, Contiguous(layout[b].len), TRUE)
  /\ copied' = [copied EXCEPT ![b] = <<>>]
  /\ stage' = [stage EXCEPT ![b] = IF @ = "copy" THEN "idle" ELSE "write"]
  /\ tensor' = Dying(raw[b], tensor)
  /\ Forget(raw[b])
  /\ UNCHANGED <<of, shown>>

\* The writer writes an element: set at its address, others where they look for
\* it.  A write outside the block may hit any memory.
WriteElement(b) ==
  LET k == ptr[raw[b]].block IN
  /\ stage[b] = "write"
  /\ \E i \in 1..layout[b].len, x \in Values :
     \E c \in Addresses(raw[b], layout[b], i) :
       IF c \in DOMAIN mem[k]
         THEN mem' = [mem EXCEPT ![k][c] = x]
         ELSE \E j \in Blocks : \E d \in DOMAIN mem[j] : mem' = [mem EXCEPT ![j][d] = x]
  /\ UNCHANGED <<bufferVars, rawVars, tensorVars>>

\* The writer returns, or the slice it lent goes out of scope.
EndWrite(b) ==
  /\ stage[b] = "write"
  /\ stage' = [stage EXCEPT ![b] = "idle"]
  /\ UNCHANGED <<raw, layout, writeable, copied, rawVars, mem, tensorVars>>

-------------------------------------------------------------------------------
(* DLPack                                                                   *)

\* What a tensor shows that no consumer has.
Nothing(m) == [block |-> m, at |-> 1, len |-> 0, stride |-> 1]

\* A seeded fault: the exported tensor does not hold an Arc.
ToDlpackUncounted(b, m) ==
  /\ Idle(b)
  /\ tensor[m] = "none"
  /\ tensor' = [tensor EXCEPT ![m] = "out"]
  /\ of' = [of EXCEPT ![m] = raw[b]]
  /\ shown' = [shown EXCEPT ![m] = [block |-> ptr[raw[b]].block,
                                    at |-> ptr[raw[b]].at + layout[b].off,
                                    len |-> layout[b].len,
                                    stride |-> layout[b].stride]]
  /\ UNCHANGED <<bufferVars, strong, source, ptr, mem>>

\* to_dlpack: a consumer gets a tensor that holds an Arc of the RawBuffer.
ToDlpack(b, m) ==
  /\ Idle(b)
  /\ tensor[m] = "none"
  /\ tensor' = [tensor EXCEPT ![m] = "out"]
  /\ of' = [of EXCEPT ![m] = raw[b]]
  /\ shown' = [shown EXCEPT ![m] = [block |-> ptr[raw[b]].block,
                                    at |-> ptr[raw[b]].at + layout[b].off,
                                    len |-> layout[b].len,
                                    stride |-> layout[b].stride]]
  /\ Clone(raw[b])
  /\ UNCHANGED <<bufferVars, source, ptr, mem>>

\* Another library makes a tensor and hands it to the program.
Offer(m) ==
  /\ tensor[m] = "none"
  /\ tensor' = [tensor EXCEPT ![m] = "out"]
  /\ \E v \in [1..MaxLen -> Values] : mem' = [mem EXCEPT ![m] = v]
  /\ shown' = [shown EXCEPT ![m] = [block |-> m, at |-> 1,
                                    len |-> MaxLen, stride |-> 1]]
  /\ UNCHANGED <<bufferVars, rawVars, of>>

\* from_dlpack succeeds; an error leaves the tensor where it was.
FromDlpack(b, m) ==
  /\ ~Exists(b)
  /\ tensor[m] = "out"
  /\ of[m] # NoRaw => SelfImport
  /\ tensor' = [tensor EXCEPT ![m] = "taken"]
  /\ shown' = [shown EXCEPT ![m] = Nothing(m)]
  /\ \E r \in Raws :
       /\ strong[r] = 0
       /\ strong' = [strong EXCEPT ![r] = 1]
       /\ source' = [source EXCEPT ![r] = m]
       /\ ptr' = [ptr EXCEPT ![r] = [block |-> shown[m].block, at |-> shown[m].at]]
       /\ Becomes(b, r, [off |-> 0, len |-> shown[m].len,
                         stride |-> shown[m].stride], FALSE)
  /\ UNCHANGED <<stage, copied, mem, of>>

\* The deleter of a tensor runs, called by its consumer or because the RawBuffer
\* that took it is gone: an export drops its Arc, a stranger frees its memory.
Deleter(m) ==
  /\ tensor[m] \in {"out", "dying"}
  /\ of' = [of EXCEPT ![m] = NoRaw]
  /\ shown' = [shown EXCEPT ![m] = Nothing(m)]
  /\ IF of[m] = NoRaw
       THEN /\ mem' = [mem EXCEPT ![m] = <<>>]
            /\ tensor' = [tensor EXCEPT ![m] = "none"]
            /\ UNCHANGED rawVars
       ELSE /\ mem' = Freed(of[m])
            /\ tensor' = Dying(of[m], [tensor EXCEPT ![m] = "none"])
            /\ strong' = Dropped(of[m])
            /\ Forget(of[m])
  /\ UNCHANGED bufferVars

-------------------------------------------------------------------------------
Init ==
  /\ raw = [b \in Buffers |-> NoRaw]
  /\ layout = [b \in Buffers |-> Contiguous(0)]
  /\ writeable = [b \in Buffers |-> FALSE]
  /\ stage = [b \in Buffers |-> "idle"]
  /\ copied = [b \in Buffers |-> <<>>]
  /\ strong = [r \in Raws |-> 0]
  /\ source = [r \in Raws |-> NoTensor]
  /\ ptr = [r \in Raws |-> [block |-> r, at |-> 1]]
  /\ mem = [k \in Blocks |-> <<>>]
  /\ tensor = [m \in Tensors |-> "none"]
  /\ of = [m \in Tensors |-> NoRaw]
  /\ shown = [m \in Tensors |-> Nothing(m)]

\* Methods on &Buffer and what makes or ends a Buffer.
Use(b) ==
  \/ Create(b)
  \/ DropBuffer(b)
  \/ \E w \in BOOLEAN : SetWriteable(b, w)
  \/ \E a \in Buffers :
       \/ CopyOut(a, b)
       \/ Share(a, b)
       \/ Reshape(a, b)
       \/ ExpandDims(a, b)
       \/ SliceAxis(a, b)
       \/ BroadcastTo(a, b)

\* Methods on &mut Buffer, step by step.
Mutate(b) ==
  \/ MakeUnique(b)
  \/ BeginWrite(b)
  \/ CopyFails(b)
  \/ CopyElement(b)
  \/ Replace(b)
  \/ WriteElement(b)
  \/ EndWrite(b)

Exchange(m) ==
  \/ Offer(m)
  \/ Deleter(m)
  \/ \E b \in Buffers : ToDlpack(b, m) \/ FromDlpack(b, m)

Next == (\E b \in Buffers : Use(b) \/ Mutate(b)) \/ (\E m \in Tensors : Exchange(m))

Spec == Init /\ [][Next]_vars

-------------------------------------------------------------------------------
Layouts == [off : Nat, len : 0..MaxLen, stride : Nat]

TypeOK ==
  /\ raw \in [Buffers -> Raws \cup {NoRaw}]
  /\ layout \in [Buffers -> Layouts]
  /\ writeable \in [Buffers -> BOOLEAN]
  /\ stage \in [Buffers -> {"idle", "copy", "copy_write", "write"}]
  /\ copied \in [Buffers -> Seq(Values)]
  /\ strong \in [Raws -> Nat]
  /\ source \in [Raws -> Tensors \cup {NoTensor}]
  /\ ptr \in [Raws -> [block : Blocks, at : Nat]]
  /\ mem \in [Blocks -> Seq(Values)]
  /\ tensor \in [Tensors -> {"none", "out", "taken", "dying"}]
  /\ of \in [Tensors -> Raws \cup {NoRaw}]
  /\ shown \in [Tensors -> [block : Blocks, at : Nat, len : 0..MaxLen, stride : Nat]]

\* Buffers and tensors that hold an Arc of r.
BuffersOf(r) == {b \in Buffers : raw[b] = r}
TensorsOf(r) == {m \in Tensors : of[m] = r}

\* Through every copy-on-write, import, export and drop the Arc count make_unique
\* relies on is the number of Buffers and of exported tensors on the RawBuffer.
CountsHolders ==
  \A r \in Raws : strong[r] = Cardinality(BuffersOf(r)) + Cardinality(TensorsOf(r))

\* Every element of every Buffer lies in allocated memory: nothing is freed, by us
\* or by the deleter of a tensor, while a Buffer or a consumer can still reach it.
ViewsInMemory ==
  /\ \A b \in Buffers : \A i \in 1..layout[b].len :
       Address(raw[b], layout[b], i) \in DOMAIN mem[ptr[raw[b]].block]
  /\ \A m \in Tensors : \A i \in 1..shown[m].len :
       shown[m].at + (i - 1) * shown[m].stride \in DOMAIN mem[shown[m].block]

\* While a writer writes, the answer it got from the Arc count stays true, and no
\* other Buffer and no consumer of a tensor can see the memory it writes to.
WritersAlone ==
  \A b \in Buffers : stage[b] = "write" =>
    LET k == ptr[raw[b]].block IN
    /\ strong[raw[b]] = 1
    /\ \A a \in Buffers \ {b} : Exists(a) => ptr[raw[a]].block # k
    /\ \A m \in Tensors : tensor[m] = "out" => shown[m].block # k

\* What make_unique copies is what the Buffer shows, from the first element copied
\* to the moment the copy replaces it ("Copies this buffer (including
\* non-contiguous data) into a new C-contiguous owned buffer", buffer.rs:783).
CopyIsExact ==
  \A b \in Buffers : \A i \in 1..Len(copied[b]) : copied[b][i] = Contents(b)[i]

===============================================================================
