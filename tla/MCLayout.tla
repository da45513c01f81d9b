------------------------------- MODULE MCLayout -------------------------------
(* Instances of Layout for TLC.                                             *)
EXTENDS Layout

MCBaseShapes == {<<2, 1, 3>>}
MCTargets    == {<<6>>, <<3, 2>>, <<2, 3>>}

Slice(start, stop, step) == [start |-> start, stop |-> stop, step |-> step]

\* Slices forwards with starts and stops on either side of both ends, and
\* slices backwards that start at the last element and stop inside the axis.
SlicesInside ==
  {Slice(-2, 9, None), Slice(-9, -1, None), Slice(9, 1, 1), Slice(None, None, 2),
   Slice(-1, 0, -1)}

\* A slice backwards that starts behind the end of the axis.
SlicesBeyond == {Slice(9, 0, -1)}

===============================================================================
