----------------------------- MODULE MCCasting ------------------------------
(***************************************************************************)
(* Numbers for Casting: both sides of the bounds of every integer type and *)
(* of the precision of every float type, a fraction, the infinities, NaN.  *)
(***************************************************************************)
EXTENDS Casting

MCNumbers ==
  {Zero, One, Power(TRUE, 0), Above(FALSE, 0, -1), Power(TRUE, -1), NaN, Inf(TRUE), Inf(FALSE)}
    \cup {MaxValue(d) : d \in Integer} \cup {MinValue(d) : d \in Integer}
    \cup {Above(FALSE, Precision[d], 0) : d \in Float}
    \cup {Below(FALSE, MaxExponent[d] + 1, MaxExponent[d] + 1 - Precision[d]) : d \in Float}
    \cup {Power(FALSE, 63), Power(FALSE, 64)}

\* Numbers every type but Bool and the unsigned ones can hold.
MCUnits == {Zero, One, Power(TRUE, 0)}
============================================================================
