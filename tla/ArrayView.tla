------------------------------- MODULE ArrayView -------------------------------
(***************************************************************************)
(* What views of an array mean, whatever strides and offsets they are made *)
(* of: an array is a function from indices to the elements of the buffer   *)
(* it was made from, and a view is another function over the same ones.    *)
(* An index is a tuple of numbers from 0, one for each axis.               *)
(***************************************************************************)
EXTENDS Integers, FiniteSets, SequencesExt

Indices(shape) ==
  LET bound == Max({0} \cup ToSet(shape))
  IN  {x \in [1..Len(shape) -> 0..(bound - 1)] :
         \A i \in 1..Len(shape) : x[i] < shape[i]}

\* Indices in the order of a book: the last axis runs fastest.
Before(x, y) ==
  \E i \in DOMAIN x : x[i] < y[i] /\ \A j \in 1..(i - 1) : x[j] = y[j]

Position(x, shape) == Cardinality({y \in Indices(shape) : Before(y, x)})

\* The elements of a new buffer are numbered as they lie in memory.
RowMajor(shape) ==
  [shape |-> shape, elem |-> [x \in Indices(shape) |-> Position(x, shape)]]

ColumnMajor(shape) ==
  [shape |-> shape,
   elem |-> [x \in Indices(shape) |-> Position(Reverse(x), Reverse(shape))]]

\* A set of numbers as a sequence, each at its rank.
InOrder(S) ==
  [i \in 1..Cardinality(S) |-> CHOOSE p \in S : Cardinality({q \in S : q <= p}) = i]

\* The array of that shape whose element x is element Origin(x) of a.
Through(a, shape, Origin(_)) ==
  [shape |-> shape, elem |-> [x \in Indices(shape) |-> a.elem[Origin(x)]]]

Permuted(a, axes) ==
  Through(a, [i \in DOMAIN axes |-> a.shape[axes[i]]],
          LAMBDA x : [k \in DOMAIN axes |-> x[CHOOSE i \in DOMAIN axes : axes[i] = k]])

WithAxis(a, k) ==
  Through(a, InsertAt(a.shape, k, 1), LAMBDA x : RemoveAt(x, k))

WithoutAxis(a, k) ==
  Through(a, RemoveAt(a.shape, k), LAMBDA x : InsertAt(x, k, 0))

WithoutUnitAxes(a) ==
  LET long == InOrder({k \in DOMAIN a.shape : a.shape[k] # 1}) IN
  Through(a, [i \in DOMAIN long |-> a.shape[long[i]]],
          LAMBDA x : CHOOSE y \in Indices(a.shape) :
                       \A i \in DOMAIN long : y[long[i]] = x[i])

\* The positions of one axis that are selected, in the order given.
Selected(a, k, positions) ==
  Through(a, [a.shape EXCEPT ![k] = Len(positions)],
          LAMBDA x : [x EXCEPT ![k] = positions[@ + 1]])

Flipped(a, k) ==
  Through(a, a.shape, LAMBDA x : [x EXCEPT ![k] = a.shape[k] - 1 - @])

\* The k-th diagonal of the last two axes, as the last axis: k is how far it lies
\* right of the main one.
DiagonalOf(a, k) ==
  LET r == Len(a.shape) - 1
      row == Max({-k, 0})
      col == Max({k, 0})
  IN  Through(a, Append(SubSeq(a.shape, 1, r - 1), Min({a.shape[r] - row, a.shape[r + 1] - col})),
              LAMBDA x : [i \in 1..(r + 1) |-> IF i < r THEN x[i]
                                               ELSE x[r] + IF i = r THEN row ELSE col])

\* Shapes are aligned at their last axes.
Broadcastable(a, shape) ==
  LET lead == Len(shape) - Len(a.shape) IN
  /\ lead >= 0
  /\ \A i \in DOMAIN a.shape : a.shape[i] \in {1, shape[lead + i]}

Broadcasted(a, shape) ==
  LET lead == Len(shape) - Len(a.shape) IN
  Through(a, shape,
          LAMBDA x : [i \in DOMAIN a.shape |-> IF a.shape[i] = 1 THEN 0 ELSE x[lead + i]])

Reshaped(a, shape) ==
  Through(a, shape,
          LAMBDA x : CHOOSE y \in Indices(a.shape) :
                       Position(y, a.shape) = Position(x, shape))

-------------------------------------------------------------------------------
(* The positions a slice start:stop:step selects of an axis.  A number that *)
(* is negative counts from the end; a step backwards goes from the start    *)
(* down to, and not including, the stop.                                    *)

FromEnd(v, dim) == IF v < 0 THEN v + dim ELSE v

Forwards(dim, from, upto, step) ==
  LET first == Max({0, from}) IN
  InOrder({p \in 0..(dim - 1) : first <= p /\ p < upto /\ (p - first) % step = 0})

Backwards(dim, from, downto, step) ==
  LET first == Min({dim - 1, from}) IN
  Reverse(InOrder({p \in 0..(dim - 1) :
                     downto < p /\ p <= first /\ (first - p) % (-step) = 0}))

===============================================================================
