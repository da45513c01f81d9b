------------------------------ MODULE Casting -------------------------------
(***************************************************************************)
(* A caller brings arrays of several element types to their common type    *)
(* and goes on converting the result: common_type (promote.rs) folds the   *)
(* types, Buffer::cast / cast_slice (buffer.rs, ops.rs, cast.rs) convert   *)
(* the elements, one of which is followed here, and an export that is      *)
(* imported again (dlpack.rs, compat.rs, dtype.rs) reads the same bytes    *)
(* under the type its name is read as.  A conversion the mode does not     *)
(* allow returns an error and changes nothing.                             *)
(***************************************************************************)
EXTENDS Scalar

CONSTANTS
  Operands,  \* how many arrays the caller combines
  Numbers    \* the numbers their elements may be

ASSUME OperandsAssumption == Operands \in Nat \ {0}

\* The numbers, each written in one way only.
IsNumber(x) ==
  \/ x \in {Zero, NaN, Inf(TRUE), Inf(FALSE)}
  \/ /\ x \in [kind : {"fin"}, neg : BOOLEAN, hi : Int,
               tail : {"none", "plus", "minus"}, lo : Int]
     /\ x.tail = "none"  => x.lo = 0
     /\ x.tail = "plus"  => x.lo < x.hi
     /\ x.tail = "minus" => x.lo + 2 < x.hi

ASSUME NumbersAssumption == \A x \in Numbers : IsNumber(x)

\* The elements an array of a type may hold: a number the type holds, and for
\* a complex type one on either axis.
Samples(d) ==
  {v \in {Element(x, Zero) : x \in Numbers} \cup {Element(Zero, x) : x \in Numbers} :
     Holds(d, v)}

VARIABLES
  dtypes,  \* the types of the operands, while they are folded
  folded,  \* how many are folded
  acc,     \* the accumulator of common_type
  start,   \* the element that is followed, as it was ...
  item,    \* ... and as it is now
  safe     \* no conversion of it but safe ones

vars == <<dtypes, folded, acc, start, item, safe>>

None == [dtype |-> "none"]
Typed(d, v) == [dtype |-> d, val |-> v]

Init ==
  /\ dtypes \in [1..Operands -> DTypes]
  /\ folded = 1
  /\ acc = dtypes[1]
  /\ start = None
  /\ item = None
  /\ safe = TRUE

\* A turn of the loop of common_type.
Fold ==
  /\ item = None
  /\ folded < Operands
  /\ acc' = Promote(acc, dtypes[folded + 1])
  /\ folded' = folded + 1
  /\ UNCHANGED <<dtypes, start, item, safe>>

\* An element of operand i is converted to the common type.
Align(i) ==
  /\ item = None
  /\ folded = Operands
  /\ CanCast(dtypes[i], acc, "Safe")
  /\ \E v \in Samples(dtypes[i]) :
       /\ start' = Typed(dtypes[i], v)
       /\ item' = Typed(acc, CastScalar(v, dtypes[i], acc))
  /\ dtypes' = <<>>
  /\ folded' = 0
  /\ acc' = "none"
  /\ UNCHANGED safe

\* cast_slice, or cast_copy: a further conversion, the mode checked first.
Cast(d, mode) ==
  /\ item # None
  /\ CanCast(item.dtype, d, mode)
  /\ item' = Typed(d, CastScalar(item.val, item.dtype, d))
  /\ safe' = (safe /\ mode = "Safe")
  /\ UNCHANGED <<dtypes, folded, acc, start>>

\* The bytes of an element of type d read as one of type e: integers both hold
\* (and the bits of a Bool) keep their value, anything else is another number.
Reread(v, d, e) ==
  IF \/ d = e
     \/ {d, e} \subseteq Integer \cup {"Bool"} /\ Holds(e, v)
  THEN {v} ELSE Samples(e)

\* The names that do not tell the type they are given for: a BF16 is called an
\* F16, and the capitals of the unsigned types are read as the small letters.
Misnamed == {<<"buffer", "BF16">>} \cup {<<"char", d>> : d \in Unsigned}

\* An array is sent elsewhere and back with the name of its type: to_dlpack and
\* from_dlpack, buffer_format and from_buffer_format, numpy_char and parse,
\* to_arrow and from_arrow.  A name that is not understood is an error.
Exchange(kind) ==
  /\ item # None
  /\ Renamed(kind, item.dtype) \in DTypes
  /\ \E v \in Reread(item.val, item.dtype, Renamed(kind, item.dtype)) :
       item' = Typed(Renamed(kind, item.dtype), v)
  /\ safe' = (safe /\ <<kind, item.dtype>> \notin Misnamed)
  /\ UNCHANGED <<dtypes, folded, acc, start>>

Next ==
  \/ Fold
  \/ \E i \in 1..Operands : Align(i)
  \/ \E d \in DTypes, mode \in CastModes : Cast(d, mode)
  \/ \E kind \in NameKinds : Exchange(kind)

Spec == Init /\ [][Next]_vars

---------------------------------------------------------------------------
Done == item # None

\* Types: whatever conversions an element went through, its type can hold it:
\* every saturation and rounding ends inside the bounds of its type.
TypeOK ==
  /\ folded \in 0..Operands
  /\ acc \in DTypes \cup {"none"}
  /\ safe \in BOOLEAN
  /\ Done => /\ item.dtype \in DTypes /\ Holds(item.dtype, item.val)
             /\ start.dtype \in DTypes /\ Holds(start.dtype, start.val)

\* Every operand folded so far may be converted safely to the accumulator:
\* the promotion table, folded in any order, never leaves the types the safe
\* table reaches from all of them.
CommonHoldsAll ==
  ~Done => \A i \in 1..folded : CanCast(dtypes[i], acc, "Safe")

\* The kind of the common type is that of the operands, however common_type
\* associates them, and only U64 with a signed type leads from integers to
\* floats.  (The width does depend on the order: I8, U8, BF16 gives F32 and
\* U8, BF16, I8 gives BF16.)
KindFollows ==
  LET seen == {dtypes[i] : i \in 1..folded}
  IN ~Done =>
       KindOf(acc) = CASE seen \cap Complex # {} -> Complex
                       [] /\ seen \cap Complex = {}
                          /\ \/ seen \cap Float # {}
                             \/ "U64" \in seen /\ seen \cap Signed # {} -> Float
                       [] seen = {"Bool"} -> {"Bool"}
                       [] OTHER -> Integer

\* A chain of safe conversions is a safe conversion and loses nothing of a
\* number an f64 holds, exports and imports between them included, but for
\* one thing: a step from C64 to C128 goes through the norm, and what arrives
\* in C128 may be the magnitude of what was sent.
SafeChainKeeps ==
  (Done /\ safe /\ Holds("C128", start.val)) =>
    /\ CanCast(start.dtype, item.dtype, "Safe")
    /\ \/ item.val = start.val
       \/ item.dtype = "C128" /\ item.val = Element(Norm(start.val), Zero)

\* What promote.rs says of the mode Safe: "Only casts that provably cannot
\* lose information."  A complex element loses its phase (run cast_complex).
SafeLosesNothing ==
  (Done /\ safe /\ Holds("C128", start.val)) => item.val = start.val

\* minimum_scalar_type of the number an element becomes on the way through
\* f64 holds that number, and no smaller type of the same class does, but for
\* NaN, which is given F64, and 2^64, one too large for the U64 it is given.
MinimumIsLeast ==
  Done =>
    LET x == ToF64Lossy(item.dtype, item.val)
        d == MinimumScalarType(x)
        class == CASE d \in Signed -> Signed [] d \in Unsigned -> Unsigned
                   [] OTHER -> {"F32", "F64"}
    IN x \notin {Power(FALSE, 64), NaN} =>
         /\ HoldsNumber(d, x)
         /\ \A e \in class : HoldsNumber(e, x) => BitWidth(d) <= BitWidth(e)
============================================================================
