------------------------------- MODULE Scalar -------------------------------
(***************************************************************************)
(* The numbers that elements hold, and the conversion of an element from   *)
(* one type to another: scalar.rs (to_f64_lossy and from_f64_lossy of each *)
(* type) and cast.rs (cast_scalar_unchecked and what it calls).            *)
(*                                                                         *)
(* A conversion differs from the identity by rounding, truncation and      *)
(* saturation, so a number is kept exactly, as a sign and two bits:        *)
(* 2^hi, 2^hi + 2^lo or 2^hi - 2^lo, or zero, an infinity or NaN.  The     *)
(* bounds of every type and the numbers on both sides of each precision    *)
(* have this form, and every conversion leads from such a number to one.   *)
(* Subnormal floats and the sign of zero are not represented.              *)
(***************************************************************************)
EXTENDS DType, Integers

Number(kind, neg, hi, tail, lo) ==
  [kind |-> kind, neg |-> neg, hi |-> hi, tail |-> tail, lo |-> lo]

Zero     == Number("zero", FALSE, 0, "none", 0)
NaN      == Number("nan", FALSE, 0, "none", 0)
Inf(neg) == Number("inf", neg, 0, "none", 0)

\* 2^hi, 2^hi + 2^lo (lo < hi) and 2^hi - 2^lo (lo < hi), with their sign.
\* The last is written as one of the others where it is one.
Power(neg, hi)    == Number("fin", neg, hi, "none", 0)
Above(neg, hi, lo) == Number("fin", neg, hi, "plus", lo)
Below(neg, hi, lo) ==
  CASE hi - lo = 1 -> Power(neg, lo)
    [] hi - lo = 2 -> Above(neg, lo + 1, lo)
    [] OTHER       -> Number("fin", neg, hi, "minus", lo)

One == Power(FALSE, 0)

\* The bits before the binary point of a finite number.
BitLength(x) == IF x.tail = "minus" THEN x.hi ELSE x.hi + 1

IsWhole(x) ==
  \/ x.kind = "zero"
  \/ x.kind = "fin" /\ IF x.tail = "none" THEN x.hi >= 0 ELSE x.lo >= 0

---------------------------------------------------------------------------
\* Floats: the significant bits and the greatest exponent of each type, and
\* the conversion to it, to the nearest and on a tie to the even one: a
\* number with more bits than the type has becomes the power of two next to
\* it, and one above the greatest float an infinity.

Precision == [F16 |-> 11, BF16 |-> 8, F32 |-> 24, F64 |-> 53]
MaxExponent == [F16 |-> 15, BF16 |-> 127, F32 |-> 127, F64 |-> 1023]

Round(x, d) ==
  IF x.kind # "fin" THEN x
  ELSE LET bits == CASE x.tail = "none"  -> 1
                     [] x.tail = "plus"  -> x.hi - x.lo + 1
                     [] x.tail = "minus" -> x.hi - x.lo
           near == IF bits <= Precision[d] THEN x ELSE Power(x.neg, x.hi)
       IN IF BitLength(near) - 1 > MaxExponent[d] THEN Inf(x.neg) ELSE near

---------------------------------------------------------------------------
\* Integers: the bits of a magnitude, the bounds, and the conversion of the
\* language, which truncates towards zero, saturates, and makes NaN zero.

ValueBits(d) == IF d \in Signed THEN BitWidth(d) - 1 ELSE BitWidth(d)

MaxValue(d) == Below(FALSE, ValueBits(d), 0)
MinValue(d) == IF d \in Signed THEN Power(TRUE, ValueBits(d)) ELSE Zero

InRange(x, d) ==
  \/ x.kind = "zero"
  \/ /\ x.kind = "fin"
     /\ x.neg => d \in Signed
     /\ \/ BitLength(x) <= ValueBits(d)
        \/ x = MinValue(d)

Truncate(x) ==
  IF IsWhole(x) THEN x
  ELSE CASE x.tail = "minus" /\ x.hi > 0 -> Below(x.neg, x.hi, 0)
         [] x.tail = "plus" /\ x.hi >= 0 -> Power(x.neg, x.hi)
         [] OTHER                        -> Zero

\* Variant: only the infinities saturate.
ToIntegerUnclamped(x, d) ==
  CASE x.kind = "nan" -> Zero
    [] x.kind = "inf" -> IF x.neg THEN MinValue(d) ELSE MaxValue(d)
    [] OTHER          -> Truncate(x)

ToInteger(x, d) ==
  CASE x.kind = "nan" -> Zero
    [] x.kind # "nan" /\ (x.kind = "inf" \/ ~InRange(Truncate(x), d)) ->
         IF x.neg THEN MinValue(d) ELSE MaxValue(d)
    [] OTHER -> Truncate(x)

---------------------------------------------------------------------------
\* An element: a number, and for a complex type an imaginary part.

Element(re, im) == [re |-> re, im |-> im]

Abs(x) == [x EXCEPT !.neg = FALSE]

\* norm() of a complex number one of whose parts is zero, the only ones here.
Norm(v) == Abs(IF v.im = Zero THEN v.re ELSE v.im)

ToF64Lossy(d, v) == IF d \in Complex THEN Norm(v) ELSE Round(v.re, "F64")

FromF64Lossy(d, x) ==
  CASE d = "Bool"     -> Element(IF x = Zero THEN Zero ELSE One, Zero)
    [] d \in Integer  -> Element(ToInteger(x, d), Zero)
    [] d \in Float    -> Element(Round(x, d), Zero)
    [] d = "C64"      -> Element(Round(x, "F32"), Zero)
    [] d = "C128"     -> Element(x, Zero)

\* cast_scalar_unchecked: the bytes are copied where the type stays, and a
\* cast between two types goes through an f64, whatever the types are.
\* Variant: by way of an f32.
CastScalarSingle(v, from, to) ==
  IF from = to THEN v ELSE FromF64Lossy(to, Round(ToF64Lossy(from, v), "F32"))

CastScalar(v, from, to) ==
  IF from = to THEN v ELSE FromF64Lossy(to, ToF64Lossy(from, v))

---------------------------------------------------------------------------
\* What the elements of a type can hold.

HoldsNumber(d, x) ==
  CASE d = "Bool"    -> x \in {Zero, One}
    [] d \in Integer -> IsWhole(x) /\ InRange(x, d)
    [] d \in Float   -> Round(x, d) = x

Holds(d, v) ==
  LET part == CASE d = "C64" -> "F32" [] d = "C128" -> "F64" [] OTHER -> d
  IN /\ HoldsNumber(part, v.re)
     /\ IF d \in Complex THEN HoldsNumber(part, v.im) ELSE v.im = Zero

---------------------------------------------------------------------------
\* promote.rs, minimum_scalar_type.  The bound of the first case is
\* u64::MAX as f64, which is 2^64, one more than u64::MAX.

\* Variant: without the bound, a great number saturates and seems to fit.
MinimumScalarTypeSaturating(x) ==
  LET smallest(widths, y) ==
        CHOOSE d \in widths :
          InRange(y, d) /\ \A e \in widths : InRange(y, e) => BitWidth(d) <= BitWidth(e)
  IN CASE IsWhole(x) /\ ~x.neg -> smallest(Unsigned, ToInteger(x, "U64"))
       [] IsWhole(x) /\ x.neg  -> smallest(Signed, ToInteger(x, "I64"))
       [] OTHER -> IF x # NaN /\ Round(x, "F32") = x THEN "F32" ELSE "F64"

MinimumScalarType(x) ==
  LET smallest(widths, y) ==
        CHOOSE d \in widths :
          InRange(y, d) /\ \A e \in widths : InRange(y, e) => BitWidth(d) <= BitWidth(e)
  IN CASE IsWhole(x) /\ ~x.neg /\ (InRange(x, "U64") \/ x = Power(FALSE, 64)) ->
            smallest(Unsigned, ToInteger(x, "U64"))
       [] IsWhole(x) /\ x.neg /\ InRange(x, "I64") -> smallest(Signed, x)
       [] OTHER -> IF x # NaN /\ Round(x, "F32") = x THEN "F32" ELSE "F64"
============================================================================
