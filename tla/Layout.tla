-------------------------------- MODULE Layout --------------------------------
(***************************************************************************)
(* Layouts of crates/mohu-buffer/src/layout.rs and strides.rs: shape, byte *)
(* strides and byte offset of a view, and the index iterators over it.     *)
(*                                                                         *)
(* A program allocates an array and makes views of views of it; "view" is  *)
(* the layout the code computes, and "array" the array that ArrayView says *)
(* it should be.  A call that returns an error changes nothing and is not  *)
(* an action.                                                              *)
(*                                                                         *)
(* Axes are counted from 1 and the elements of an index from 0.  Strides   *)
(* and offsets are isize to the code that makes views, and whole numbers   *)
(* here: arrays whose bytes overflow cannot be allocated.  An offset may   *)
(* lie below the buffer; Layout keeps it as usize, which reads back as the *)
(* same isize.  byte_range and overlaps_with work on the usize.            *)
(***************************************************************************)
EXTENDS ArrayView

CONSTANTS
  ItemSize,     \* the bytes of an element
  BaseShapes,   \* the shapes of arrays that are allocated
  Slices,       \* the SliceArgs callers pass: records of start, stop and step
  Targets,      \* the shapes they broadcast and reshape to
  MaxRank,      \* a bound on the axes of a view expand_dims makes
  MaxStride,    \* and on strides, which slicing one element multiplies
  None,         \* a start, stop or step that is not given
  USizeMax      \* usize::MAX

ASSUME LayoutAssumption ==
  /\ ItemSize \in Nat \ {0}
  /\ BaseShapes \cup Targets \subseteq Seq(Nat)
  /\ Slices \subseteq [start : Int \cup {None}, stop : Int \cup {None},
                       step : (Int \ {0}) \cup {None}]
  /\ MaxRank \in Nat
  /\ MaxStride \in Nat
  /\ None \notin Int
  /\ USizeMax \in Nat
  /\ \A s \in BaseShapes \cup Targets : \A i \in DOMAIN s : s[i] < USizeMax

VARIABLES
  view,      \* the Layout: shape, strides, offset
  array,     \* the array it stands for
  capacity   \* the bytes of the buffer

vars == <<view, array, capacity>>

-------------------------------------------------------------------------------
(* Shapes and strides                                                       *)

ProductOn(s, S) == FoldFunctionOnSet(LAMBDA a, d : a * d, 1, s, S)
Product(s) == ProductOn(s, DOMAIN s)

\* c_strides and f_strides
CStrides(shape) == [i \in DOMAIN shape |-> ItemSize * ProductOn(shape, (i + 1)..Len(shape))]
FStrides(shape) == [i \in DOMAIN shape |-> ItemSize * ProductOn(shape, 1..(i - 1))]

NewC(shape) == [shape |-> shape, strides |-> CStrides(shape), offset |-> 0]
NewF(shape) == [shape |-> shape, strides |-> FStrides(shape), offset |-> 0]

Size(l) == Product(l.shape)
IsEmpty(l) == 0 \in ToSet(l.shape)

\* A seeded fault: only the last axis is looked at.
IsCContiguousRows(l) == IsEmpty(l) \/ l.shape = <<>> \/ Last(l.strides) = ItemSize

IsCContiguous(l) == IsEmpty(l) \/ l.strides = CStrides(l.shape)
IsFContiguous(l) == IsEmpty(l) \/ l.strides = FStrides(l.shape)

\* byte_offset
Offset(l, x) == l.offset + SumFunction([i \in DOMAIN x |-> x[i] * l.strides[i]])

\* ravel_multi_index and unravel_index
Ravel(x, shape) == FoldLeftDomain(LAMBDA flat, i : flat * shape[i] + x[i], 0, shape)
Unravel(flat, shape) ==
  [i \in DOMAIN shape |-> (flat \div ProductOn(shape, (i + 1)..Len(shape))) % shape[i]]

\* "as usize", which wraps what is negative or too large.
AsUsize(n) == n % (USizeMax + 1)

\* A seeded fault: the last element is taken for the end of an axis whose
\* stride is negative, too.
ByteRangeUpwards(l) ==
  LET span == [i \in DOMAIN l.shape |-> l.strides[i] * (l.shape[i] - 1)] IN
  IF Size(l) = 0 THEN <<AsUsize(l.offset), AsUsize(l.offset)>>
  ELSE <<AsUsize(l.offset), AsUsize(l.offset + SumFunction(span))>>

\* byte_range: the offsets of the lowest and of the highest element.
ByteRange(l) ==
  LET span == [i \in DOMAIN l.shape |-> l.strides[i] * (l.shape[i] - 1)] IN
  IF Size(l) = 0 THEN <<AsUsize(l.offset), AsUsize(l.offset)>>
  ELSE <<AsUsize(l.offset + SumFunctionOnSet(span, {i \in DOMAIN span : span[i] <= 0})),
         AsUsize(l.offset + SumFunctionOnSet(span, {i \in DOMAIN span : span[i] > 0}))>>

\* A seeded fault: the last element is taken to have no bytes.
OverlapsWithOpen(l, m) ==
  /\ Size(l) # 0 /\ Size(m) # 0
  /\ ByteRange(l)[1] < ByteRange(m)[2]
  /\ ByteRange(m)[1] < ByteRange(l)[2]

\* overlaps_with, comparing usizes: a view below its buffer is far behind its end.
\* The sum wraps, as in a release build; one with debug assertions panics.
OverlapsWith(l, m) ==
  /\ Size(l) # 0 /\ Size(m) # 0
  /\ ByteRange(l)[1] < AsUsize(ByteRange(m)[2] + ItemSize)
  /\ ByteRange(m)[1] < AsUsize(ByteRange(l)[2] + ItemSize)

-------------------------------------------------------------------------------
(* SliceArg::resolve                                                        *)

Clamp(v, dim) == Min({dim, IF v < 0 THEN Max({v + dim, 0}) ELSE v})

\* A seeded fault: a stop before the start is not noticed.
Minus(a, b) == a - b

Monus(a, b) == IF a > b THEN a - b ELSE 0   \* saturating_sub

\* A seeded fault: a last step that is not whole counts as two.
CeilDivUp(a, b) == (a + b) \div b

CeilDiv(a, b) == (a + b - 1) \div b        \* div_ceil

StepOf(arg) == IF arg.step = None THEN 1 ELSE arg.step

ResolveForwards(arg, dim) ==
  LET start == IF arg.start = None THEN 0 ELSE Clamp(arg.start, dim)
      stop == IF arg.stop = None THEN dim ELSE Clamp(arg.stop, dim)
  IN  [start |-> start, count |-> CeilDiv(Monus(stop, start), StepOf(arg))]

\* "as usize" makes USizeMax of -1.
ResolveBackwards(arg, dim) ==
  LET start == IF arg.start = None THEN Monus(dim, 1) ELSE Clamp(arg.start, dim)
      stop == IF arg.stop = None \/ FromEnd(arg.stop, dim) < 0 THEN USizeMax
              ELSE Min({FromEnd(arg.stop, dim), dim})
  IN  [start |-> start, count |-> CeilDiv(Monus(start, stop), -StepOf(arg))]

Resolve(arg, dim) ==
  IF StepOf(arg) > 0 THEN ResolveForwards(arg, dim) ELSE ResolveBackwards(arg, dim)

\* slice_axis
SliceAxis(l, k, arg) ==
  LET r == Resolve(arg, l.shape[k])
  IN  [shape |-> [l.shape EXCEPT ![k] = r.count],
       strides |-> [l.strides EXCEPT ![k] = @ * StepOf(arg)],
       offset |-> l.offset + r.start * l.strides[k]]

\* The positions that ought to be selected.
Positions(arg, dim) ==
  IF StepOf(arg) > 0
    THEN Forwards(dim, IF arg.start = None THEN 0 ELSE FromEnd(arg.start, dim),
                       IF arg.stop = None THEN dim ELSE FromEnd(arg.stop, dim), StepOf(arg))
    ELSE Backwards(dim, IF arg.start = None THEN dim - 1 ELSE FromEnd(arg.start, dim),
                        IF arg.stop = None THEN -1 ELSE FromEnd(arg.stop, dim), StepOf(arg))

-------------------------------------------------------------------------------
(* The other views                                                          *)

Permute(l, axes) ==
  [l EXCEPT !.shape = [i \in DOMAIN axes |-> l.shape[axes[i]]],
            !.strides = [i \in DOMAIN axes |-> l.strides[axes[i]]]]

ExpandDims(l, k) ==
  [l EXCEPT !.shape = InsertAt(@, k, 1), !.strides = InsertAt(@, k, ItemSize)]

SqueezeAxis(l, k) ==
  [l EXCEPT !.shape = RemoveAt(@, k), !.strides = RemoveAt(@, k)]

\* squeeze: every axis of one element goes.
Squeeze(l) ==
  Permute(l, InOrder({i \in DOMAIN l.shape : l.shape[i] # 1}))

\* Buffer::flip: the axis starts at its last element and runs back.
Flip(l, k) ==
  [l EXCEPT !.offset = @ + IF l.shape[k] > 0 THEN (l.shape[k] - 1) * l.strides[k] ELSE 0,
            !.strides[k] = -@]

\* Buffer::diagonal: one step is a row down and a column on.
Diagonal(l, k) ==
  LET r == Len(l.shape) - 1
      row == IF k >= 0 THEN 0 ELSE -k
      col == IF k >= 0 THEN k ELSE 0
      start == [i \in DOMAIN l.shape |-> IF i < r THEN 0 ELSE IF i = r THEN row ELSE col]
  IN  [shape |-> Append(SubSeq(l.shape, 1, r - 1),
                        Min({Monus(l.shape[r], row), Monus(l.shape[r + 1], col)})),
       strides |-> Append(SubSeq(l.strides, 1, r - 1), l.strides[r] + l.strides[r + 1]),
       offset |-> Offset(l, start)]

Reshape(l, shape) == [l EXCEPT !.shape = shape, !.strides = CStrides(shape)]

\* A seeded fault: an axis of one element keeps its stride.
BroadcastStridesKept(l, shape) ==
  LET lead == Len(shape) - Len(l.shape) IN
  [i \in DOMAIN shape |-> IF i <= lead THEN 0 ELSE l.strides[i - lead]]

\* broadcast_strides
BroadcastStrides(l, shape) ==
  LET lead == Len(shape) - Len(l.shape) IN
  [i \in DOMAIN shape |->
     IF i <= lead \/ l.shape[i - lead] # shape[i] THEN 0 ELSE l.strides[i - lead]]

BroadcastTo(l, shape) ==
  [l EXCEPT !.shape = shape, !.strides = BroadcastStrides(l, shape)]

-------------------------------------------------------------------------------
(* NdIndexIter and StridedByteIter                                          *)

\* A seeded fault: the first axis runs fastest.
SuccessorOfF(x, shape) ==
  LET k == CHOOSE i \in DOMAIN x : x[i] + 1 < shape[i]
                    /\ \A j \in 1..(i - 1) : x[j] + 1 >= shape[j]
  IN  [i \in DOMAIN x |-> IF i < k THEN 0 ELSE IF i = k THEN x[i] + 1 ELSE x[i]]

\* NdIndexIter::advance: the last axis that is not at its end goes on, and those
\* behind it start anew.
Successor(x, shape) ==
  LET k == CHOOSE i \in DOMAIN x : x[i] + 1 < shape[i]
                    /\ \A j \in (i + 1)..Len(shape) : x[j] + 1 >= shape[j]
  IN  [i \in DOMAIN x |-> IF i < k THEN x[i] ELSE IF i = k THEN x[i] + 1 ELSE 0]

\* The indices an NdIndexIter yields, one for each element, and the offsets a
\* StridedByteIter makes of them.
IndexWalk(shape) ==
  LET index[n \in 1..Product(shape)] ==
        IF n = 1 THEN [i \in DOMAIN shape |-> 0] ELSE Successor(index[n - 1], shape)
  IN  [n \in 1..Product(shape) |-> index[n]]

ByteWalk(l) == [n \in 1..Size(l) |-> Offset(l, IndexWalk(l.shape)[n])]

-------------------------------------------------------------------------------
(* A program makes views                                                    *)

Axes == DOMAIN view.shape

\* The view becomes l, and should be a.
Becomes(l, a) ==
  /\ view' = l
  /\ array' = a
  /\ UNCHANGED capacity

TakePermute ==
  \E axes \in [Axes -> Axes] :
    /\ IsInjective(axes)
    /\ Becomes(Permute(view, axes), Permuted(array, axes))

TakeExpandDims ==
  /\ Len(view.shape) < MaxRank
  /\ \E k \in 1..(Len(view.shape) + 1) : Becomes(ExpandDims(view, k), WithAxis(array, k))

TakeSqueezeAxis ==
  \E k \in Axes :
    /\ view.shape[k] = 1
    /\ Becomes(SqueezeAxis(view, k), WithoutAxis(array, k))

TakeSqueeze == Becomes(Squeeze(view), WithoutUnitAxes(array))

TakeSliceOf(k, arg) ==
  /\ view.strides[k] * StepOf(arg) \in -MaxStride..MaxStride
  /\ Becomes(SliceAxis(view, k, arg), Selected(array, k, Positions(arg, view.shape[k])))

TakeSlice == \E k \in Axes, arg \in Slices : TakeSliceOf(k, arg)

TakeBroadcast ==
  \E shape \in Targets :
    /\ Broadcastable(view, shape)
    /\ Becomes(BroadcastTo(view, shape), Broadcasted(array, shape))

\* reshape refuses what is not C-contiguous or has another size.
TakeReshape ==
  \E shape \in Targets :
    /\ IsCContiguous(view)
    /\ Size(view) = Product(shape)
    /\ Becomes(Reshape(view, shape), Reshaped(array, shape))

\* flip refuses a layout whose offset would be negative, that of an empty view.
TakeFlip ==
  \E k \in Axes :
    /\ Flip(view, k).offset >= 0
    /\ Becomes(Flip(view, k), Flipped(array, k))

\* diagonal refuses one that has no first element.
TakeDiagonal ==
  /\ Len(view.shape) >= 2
  /\ ~IsEmpty(view)
  /\ LET r == Len(view.shape) - 1 IN
     \E k \in (1 - view.shape[r])..(view.shape[r + 1] - 1) :
       /\ view.strides[r] + view.strides[r + 1] \in -MaxStride..MaxStride
       /\ Becomes(Diagonal(view, k), DiagonalOf(array, k))

-------------------------------------------------------------------------------
\* contiguous_nbytes refuses an array whose bytes are no usize.
Init ==
  \E shape \in BaseShapes :
    /\ ItemSize * Product(shape) <= USizeMax
    /\ \/ view = NewC(shape) /\ array = RowMajor(shape)
       \/ view = NewF(shape) /\ array = ColumnMajor(shape)
    /\ capacity = ItemSize * Product(shape)

Next ==
  \/ TakePermute
  \/ TakeExpandDims
  \/ TakeSqueezeAxis
  \/ TakeSqueeze
  \/ TakeSlice
  \/ TakeBroadcast
  \/ TakeReshape
  \/ TakeFlip
  \/ TakeDiagonal

Spec == Init /\ [][Next]_vars

-------------------------------------------------------------------------------
TypeOK ==
  /\ view \in [shape : Seq(Nat), strides : Seq(Int), offset : Int]
  /\ Len(view.shape) = Len(view.strides)
  /\ array.shape \in Seq(Nat)
  /\ capacity \in Nat

\* Through every chain of views the layout shows the elements the array has at
\* the same indices: Layout::byte_offset is right for every view of a view.
ViewIsExact ==
  /\ view.shape = array.shape
  /\ \A x \in Indices(view.shape) : Offset(view, x) = ItemSize * array.elem[x]

\* Every element of a view is inside its buffer ("offsets are within the buffer's
\* valid range", view.rs:262).
ViewInBuffer ==
  \A x \in Indices(view.shape) :
    Offset(view, x) >= 0 /\ Offset(view, x) + ItemSize <= capacity

\* byte_range is the lowest and the highest offset of any element, also when some
\* strides are negative or zero; overlap tests and spans rely on it.  So it is for
\* views in their buffer: below it, the lowest offset is not a usize.
RangeIsTight ==
  LET offsets == {Offset(view, x) : x \in Indices(view.shape)} IN
  offsets # {} => ByteRange(view) = <<Min(offsets), Max(offsets)>>

\* What as_slice and the copy loops rely on: a layout that says it is C-contiguous
\* has its elements side by side in row-major order, and one that says it is
\* F-contiguous in column-major order.
ContiguousIsDense ==
  \A x \in Indices(view.shape) :
    /\ IsCContiguous(view) =>
         Offset(view, x) = view.offset + ItemSize * Position(x, view.shape)
    /\ IsFContiguous(view) =>
         Offset(view, x) = view.offset
                           + ItemSize * Position(Reverse(x), Reverse(view.shape))

\* Two slices of a view that share an element are seen to overlap ("conservative
\* check", layout.rs:567).  So they are as long as views stay in their buffer: one that
\* reaches below its front is denied to overlap itself.
OverlapIsSeen ==
  \A k \in Axes :
    LET slices == {SliceAxis(view, k, arg) : arg \in Slices}
        Offsets(l) == {Offset(l, x) : x \in Indices(l.shape)}
    IN  \A l, m \in slices : Offsets(l) \cap Offsets(m) # {} => OverlapsWith(l, m)

\* An iterator yields the offset of every index once, in row-major order, and
\* ravel_multi_index and unravel_index count in the same order.
WalkInOrder ==
  /\ Size(view) = Cardinality(Indices(view.shape))
  /\ \A x \in Indices(view.shape) :
       LET n == Position(x, view.shape) IN
       /\ ByteWalk(view)[n + 1] = Offset(view, x)
       /\ Ravel(x, view.shape) = n
       /\ Unravel(n, view.shape) = x

===============================================================================
