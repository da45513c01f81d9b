--------------------------- MODULE ElementProofs ---------------------------
(***************************************************************************)
(* The types of elements and what is computed of elements.                 *)
(*                                                                         *)
(* First the common type of any number of arrays, in any order: it holds   *)
(* every operand, and its kind is that of the operands.  TLC checks both   *)
(* for three arrays; here they are proved for every value of Operands,     *)
(* from facts about the entries of the two tables.                         *)
(*                                                                         *)
(* Then the elements, for all numbers of the model, of which there is no   *)
(* end: what rounding and truncation end at, that every conversion ends    *)
(* inside its type, that safe ones lose nothing of a number an f64 holds,  *)
(* and that minimum_scalar_type finds the smallest type.                   *)
(*                                                                         *)
(* Then reductions of any number of elements, however rayon halves them    *)
(* and whichever pieces are folded, stopped or joined first: they return   *)
(* what the elements determine.  TLC checks it for four elements.  The     *)
(* pieces lie side by side and make up all the elements.  What each has    *)
(* combined is Right: what a single pass over the elements it has seen     *)
(* determines.  An element by itself is Right, and so is what two runs     *)
(* side by side combine to, by every operation: the rest follows.  Of any  *)
(* and all a piece may say it has seen elements it has not looked at; but  *)
(* then some piece holds the answer, and it stays.                         *)
(*                                                                         *)
(* Last the errors, of any nesting up to any bound.  They are finite       *)
(* trees, and the functions of them are recursive: that such a function    *)
(* has the equation that defines it, and that what holds of the errors by  *)
(* themselves and goes from the parts of an error to the error holds of    *)
(* all, is shown by induction on the nesting, for sets of errors.  From    *)
(* there the invariant of errors on their way up: the leaves of what the   *)
(* functions have gathered, outermost first, and of what is returned are   *)
(* what was raised.  The kinds and verdicts are facts of single errors,    *)
(* from the numbers of the codes.                                          *)
(***************************************************************************)
EXTENDS MCElements, FiniteSetTheorems, SequenceTheorems, WellFoundedInduction, TLAPS

---------------------------------------------------------------------------
\* The tables.

\* All the types, as a set.
LEMMA DTypesAre ==
  DTypes = {"Bool", "I8", "I16", "I32", "I64", "U8", "U16", "U32", "U64",
            "F16", "BF16", "F32", "F64", "C64", "C128"}
<1>1. DOMAIN ALL_DTYPES = 1..15
  BY DEF ALL_DTYPES
<1> QED BY <1>1 DEF DTypes, ALL_DTYPES

\* as_u8 inverts the list of all types.
LEMMA Position ==
  ASSUME NEW i \in 1..15
  PROVE  AsU8(ALL_DTYPES[i]) = i
<1>1. DOMAIN ALL_DTYPES = 1..15
  BY DEF ALL_DTYPES
<1>2. \A j \in 1..15 : ALL_DTYPES[j] = ALL_DTYPES[i] => j = i
  BY DEF ALL_DTYPES
<1> QED BY <1>1, <1>2 DEF AsU8

\* The column of each type.
LEMMA Columns ==
  /\ AsU8("Bool") = 1 /\ AsU8("I8") = 2 /\ AsU8("I16") = 3 /\ AsU8("I32") = 4
  /\ AsU8("I64") = 5 /\ AsU8("U8") = 6 /\ AsU8("U16") = 7 /\ AsU8("U32") = 8
  /\ AsU8("U64") = 9 /\ AsU8("F16") = 10 /\ AsU8("BF16") = 11 /\ AsU8("F32") = 12
  /\ AsU8("F64") = 13 /\ AsU8("C64") = 14 /\ AsU8("C128") = 15
<1>1. \A i \in 1..15 : AsU8(ALL_DTYPES[i]) = i
  BY Position
<1>2. /\ ALL_DTYPES[1] = "Bool" /\ ALL_DTYPES[2] = "I8" /\ ALL_DTYPES[3] = "I16"
      /\ ALL_DTYPES[4] = "I32" /\ ALL_DTYPES[5] = "I64" /\ ALL_DTYPES[6] = "U8"
      /\ ALL_DTYPES[7] = "U16" /\ ALL_DTYPES[8] = "U32" /\ ALL_DTYPES[9] = "U64"
      /\ ALL_DTYPES[10] = "F16" /\ ALL_DTYPES[11] = "BF16" /\ ALL_DTYPES[12] = "F32"
      /\ ALL_DTYPES[13] = "F64" /\ ALL_DTYPES[14] = "C64" /\ ALL_DTYPES[15] = "C128"
  BY DEF ALL_DTYPES
<1> QED BY <1>1, <1>2

\* The safe casts are transitive: who may be cast to b may be cast to
\* whatever b may be cast to.
LEMMA SafeTransitive ==
  ASSUME NEW a \in DTypes, NEW b \in SAFE_CAST_TABLE[a]
  PROVE  /\ b \in DTypes
         /\ SAFE_CAST_TABLE[b] \subseteq SAFE_CAST_TABLE[a]
<1> QED BY DTypesAre DEF SAFE_CAST_TABLE, Signed, Unsigned, Float, Complex

\* Both operands of a promotion may be cast to its result.
LEMMA PromotionHolds ==
  ASSUME NEW a \in DTypes, NEW b \in DTypes
  PROVE  Promote(a, b) \in SAFE_CAST_TABLE[a] \cap SAFE_CAST_TABLE[b]
<1> QED BY DTypesAre, Columns
        DEF Promote, PROMOTION_TABLE, ALL_DTYPES, SAFE_CAST_TABLE, Signed, Unsigned, Float, Complex

\* The kind of a promotion.  Within the integers it needs to be known when the
\* result is signed and when it is U64, since those two together leave them.
LEMMA PromotionKind ==
  ASSUME NEW a \in DTypes, NEW b \in DTypes, NEW c, c = Promote(a, b)
  PROVE  /\ c \in Complex <=> a \in Complex \/ b \in Complex
         /\ c \in Integer \cup {"Bool"} =>
              a \in Integer \cup {"Bool"} /\ b \in Integer \cup {"Bool"}
         /\ a \in Integer \cup {"Bool"} /\ b \in Integer \cup {"Bool"} =>
              (c \in Float <=> (a = "U64" /\ b \in Signed) \/ (b = "U64" /\ a \in Signed))
         /\ c \in Integer => (c \in Signed <=> a \in Signed \/ b \in Signed)
         /\ c \in Integer => (c = "U64" <=> a = "U64" \/ b = "U64")
         /\ c = "Bool" <=> a = "Bool" /\ b = "Bool"
<1> USE DTypesAre, Columns
    DEF Promote, PROMOTION_TABLE, ALL_DTYPES, Signed, Unsigned, Integer, Float, Complex
<1>1. c \in Complex <=> a \in Complex \/ b \in Complex
  OBVIOUS
<1>2. c \in Integer \cup {"Bool"} =>
        a \in Integer \cup {"Bool"} /\ b \in Integer \cup {"Bool"}
  OBVIOUS
<1>3. a \in Integer \cup {"Bool"} /\ b \in Integer \cup {"Bool"} =>
        (c \in Float <=> (a = "U64" /\ b \in Signed) \/ (b = "U64" /\ a \in Signed))
  OBVIOUS
<1>4. c \in Integer => (c \in Signed <=> a \in Signed \/ b \in Signed)
  OBVIOUS
<1>5. c \in Integer => (c = "U64" <=> a = "U64" \/ b = "U64")
  OBVIOUS
<1>6. c = "Bool" <=> a = "Bool" /\ b = "Bool"
  OBVIOUS
<1> QED BY ONLY <1>1, <1>2, <1>3, <1>4, <1>5, <1>6

\* The classes have no type in common.
LEMMA ClassesApart ==
  \A d : /\ d \in Complex => d \notin Float \cup Integer \cup {"Bool"}
         /\ d \in Float => d \notin Integer \cup {"Bool"}
         /\ d \in Signed => d \in Integer /\ d # "U64"
         /\ "U64" \in Integer /\ "Bool" \notin Integer
         /\ d \in DTypes => d \in Complex \cup Float \cup Integer \cup {"Bool"}
<1> QED BY DTypesAre DEF Signed, Unsigned, Integer, Float, Complex

\* A float stays one when integers are folded in.
LEMMA PromotionOfFloat ==
  ASSUME NEW a \in Float, NEW b \in Integer \cup {"Bool"}
  PROVE  Promote(a, b) \in Float
<1> QED BY Columns
        DEF Promote, PROMOTION_TABLE, ALL_DTYPES, Signed, Unsigned, Integer, Float

\* What the type c of a fold over the types S is known to be.
ClassOf(c, S) ==
  /\ c \in Complex <=> \E d \in S : d \in Complex
  /\ c \in Integer \cup {"Bool"} => \A d \in S : d \in Integer \cup {"Bool"}
  /\ (\A d \in S : d \in Integer \cup {"Bool"}) =>
       (c \in Float <=> "U64" \in S /\ \E d \in S : d \in Signed)
  /\ c \in Integer => (c \in Signed <=> \E d \in S : d \in Signed)
  /\ c \in Integer => (c = "U64" <=> "U64" \in S)
  /\ c = "Bool" <=> \A d \in S : d = "Bool"

\* The class of an accumulator that has taken in one more operand.
LEMMA ClassGrows ==
  ASSUME NEW S, S # {}, NEW a \in DTypes, NEW b \in DTypes, ClassOf(a, S)
  PROVE  ClassOf(Promote(a, b), S \cup {b})
<1> DEFINE c == Promote(a, b)
           T == S \cup {b}
<1>0. c = Promote(a, b)
  OBVIOUS
<1>2. a \in Float /\ b \in Integer \cup {"Bool"} => c \in Float
  BY PromotionOfFloat
<1> HIDE DEF c
<1>1. /\ c \in Complex <=> a \in Complex \/ b \in Complex
      /\ c \in Integer \cup {"Bool"} =>
           a \in Integer \cup {"Bool"} /\ b \in Integer \cup {"Bool"}
      /\ a \in Integer \cup {"Bool"} /\ b \in Integer \cup {"Bool"} =>
           (c \in Float <=> (a = "U64" /\ b \in Signed) \/ (b = "U64" /\ a \in Signed))
      /\ c \in Integer => (c \in Signed <=> a \in Signed \/ b \in Signed)
      /\ c \in Integer => (c = "U64" <=> a = "U64" \/ b = "U64")
      /\ c = "Bool" <=> a = "Bool" /\ b = "Bool"
  BY <1>0, PromotionKind
<1>a. /\ a \in Complex <=> \E d \in S : d \in Complex
      /\ a \in Integer \cup {"Bool"} => \A d \in S : d \in Integer \cup {"Bool"}
      /\ (\A d \in S : d \in Integer \cup {"Bool"}) =>
           (a \in Float <=> "U64" \in S /\ \E d \in S : d \in Signed)
      /\ a \in Integer => (a \in Signed <=> \E d \in S : d \in Signed)
      /\ a \in Integer => (a = "U64" <=> "U64" \in S)
      /\ a = "Bool" <=> \A d \in S : d = "Bool"
  BY DEF ClassOf
<1>3. c \in Complex <=> \E d \in T : d \in Complex
  BY <1>1, <1>a
<1>4. c \in Integer \cup {"Bool"} => \A d \in T : d \in Integer \cup {"Bool"}
  BY <1>1, <1>a
<1>5. ASSUME \A d \in T : d \in Integer \cup {"Bool"}
      PROVE  c \in Float <=> "U64" \in T /\ \E d \in T : d \in Signed
  <2>1. (\A d \in S : d \in Integer \cup {"Bool"}) /\ b \in Integer \cup {"Bool"}
    BY <1>5
  <2>2. a \notin Complex
    BY <2>1, <1>a, ClassesApart
  <2>3. CASE a \in Float
    BY <2>1, <2>3, <1>2, <1>a
  <2>4. CASE a \in Integer
    BY <2>1, <2>4, <1>1, <1>a, ClassesApart
  <2>5. CASE a = "Bool"
    BY <2>1, <2>5, <1>1, <1>a, ClassesApart
  <2> QED BY <2>2, <2>3, <2>4, <2>5, ClassesApart
<1>6. c \in Integer => (c \in Signed <=> \E d \in T : d \in Signed)
  <2>1. CASE a = "Bool"
    BY <2>1, <1>1, <1>a, ClassesApart
  <2>2. CASE a # "Bool"
    BY <2>2, <1>1, <1>a
  <2> QED BY <2>1, <2>2
<1>7. c \in Integer => (c = "U64" <=> "U64" \in T)
  <2>1. CASE a = "Bool"
    BY <2>1, <1>1, <1>a, ClassesApart
  <2>2. CASE a # "Bool"
    BY <2>2, <1>1, <1>a
  <2> QED BY <2>1, <2>2
<1>8. c = "Bool" <=> \A d \in T : d = "Bool"
  BY <1>1, <1>a
<1> QED BY <1>3, <1>4, <1>5, <1>6, <1>7, <1>8 DEF ClassOf, c

---------------------------------------------------------------------------
\* The loop of common_type.

\* What is known between two turns: the accumulator is safe for the operands
\* folded, and is of their class.
FoldOK ==
  /\ dtypes \in [1..Operands -> DTypes]
  /\ folded \in 1..Operands
  /\ acc \in DTypes
  /\ \A i \in 1..folded : acc \in SAFE_CAST_TABLE[dtypes[i]]

Seen == {dtypes[i] : i \in 1..folded}

\* Once an element is followed it stays so: it has a type.
IInv == IF Done THEN item.dtype \in DTypes ELSE FoldOK /\ ClassOf(acc, Seen)

\* A record with a type is an element.
LEMMA TypedIsDone ==
  ASSUME NEW d \in DTypes, NEW v
  PROVE  Typed(d, v) # None /\ Typed(d, v).dtype = d
<1>1. d # "none"
  BY DTypesAre
<1>2. Typed(d, v).dtype = d /\ None.dtype = "none"
  BY DEF Typed, None
<1> QED BY <1>1, <1>2

\* One operand is its own common type.
LEMMA InitHolds == Init => IInv
<1> SUFFICES ASSUME Init PROVE IInv
  OBVIOUS
<1> USE OperandsAssumption
<1>1. ~Done
  BY DEF Init, Done
<1>2. /\ dtypes \in [1..Operands -> DTypes] /\ folded = 1 /\ 1 \in 1..Operands
      /\ acc = dtypes[1] /\ acc \in DTypes
  BY DEF Init
<1>3. Seen = {acc}
  BY <1>2 DEF Seen
<1>4. acc \in SAFE_CAST_TABLE[acc]
  BY <1>2, DTypesAre DEF SAFE_CAST_TABLE, Signed, Unsigned, Float, Complex
<1>5. ClassOf(acc, Seen)
  BY <1>2, <1>3, DTypesAre DEF ClassOf, Signed, Unsigned, Integer, Float, Complex
<1> QED BY <1>1, <1>2, <1>4, <1>5 DEF IInv, FoldOK

\* A turn of the loop keeps the accumulator safe and of the class it should be.
LEMMA FoldHolds == IInv /\ Fold => IInv'
<1> SUFFICES ASSUME IInv, Fold PROVE IInv'
  OBVIOUS
<1> USE OperandsAssumption
<1>1. ~Done /\ ~Done' /\ FoldOK /\ ClassOf(acc, Seen)
  BY DEF IInv, Fold, Done
<1> DEFINE b == dtypes[folded + 1]
<1>2. /\ folded + 1 \in 1..Operands /\ b \in DTypes /\ acc \in DTypes
      /\ acc' = Promote(acc, b) /\ folded' = folded + 1 /\ dtypes' = dtypes
  BY <1>1 DEF Fold, FoldOK
<1> HIDE DEF b
<1>3. /\ acc' \in SAFE_CAST_TABLE[acc] /\ acc' \in SAFE_CAST_TABLE[b]
  BY <1>2, PromotionHolds
<1>4. acc' \in DTypes
  BY <1>2, <1>3, SafeTransitive
<1>5. \A i \in 1..folded' : acc' \in SAFE_CAST_TABLE[dtypes'[i]]
  <2> SUFFICES ASSUME NEW i \in 1..folded' PROVE acc' \in SAFE_CAST_TABLE[dtypes[i]]
    BY <1>2
  <2>1. CASE i = folded + 1
    BY <2>1, <1>3 DEF b
  <2>2. CASE i # folded + 1
    <3>1. i \in 1..folded /\ dtypes[i] \in DTypes
      BY <2>2, <1>1, <1>2 DEF FoldOK
    <3>2. acc \in SAFE_CAST_TABLE[dtypes[i]]
      BY <3>1, <1>1 DEF FoldOK
    <3> QED BY <3>1, <3>2, <1>3, SafeTransitive
  <2> QED BY <2>1, <2>2
<1>6. Seen' = Seen \cup {b}
  <2>1. 1..folded' = (1..folded) \cup {folded + 1}
    BY <1>1, <1>2 DEF FoldOK
  <2> QED BY <2>1, <1>2 DEF Seen, b
<1>7. ClassOf(acc, Seen)'
  <2>1. Seen # {}
    <3>1. 1 \in 1..folded
      BY <1>1 DEF FoldOK
    <3> QED BY <3>1 DEF Seen
  <2>2. ClassOf(Promote(acc, b), Seen \cup {b})
    BY <2>1, <1>1, <1>2, ClassGrows
  <2> QED BY <2>2, <1>2, <1>6
<1> QED BY <1>1, <1>2, <1>4, <1>5, <1>7 DEF IInv, FoldOK

\* Once an element is followed, nothing is said of the loop any more.
LEMMA NextHolds == IInv /\ [Next]_vars => IInv'
<1> SUFFICES ASSUME IInv, [Next]_vars PROVE IInv'
  OBVIOUS
<1>1. CASE Fold
  BY <1>1, FoldHolds
<1>2. ASSUME NEW i \in 1..Operands, Align(i) PROVE IInv'
  <2>1. acc \in DTypes
    BY <1>2 DEF Align, IInv, Done, FoldOK
  <2>2. PICK v : item' = Typed(acc, v)
    BY <1>2 DEF Align
  <2> QED BY <2>1, <2>2, TypedIsDone DEF IInv, Done
<1>3. ASSUME NEW d \in DTypes, NEW mode \in CastModes, Cast(d, mode) PROVE IInv'
  <2>1. PICK v : item' = Typed(d, v)
    BY <1>3 DEF Cast
  <2> QED BY <2>1, TypedIsDone DEF IInv, Done
<1>4. ASSUME NEW form \in NameKinds, Exchange(form) PROVE IInv'
  <2>1. Renamed(form, item.dtype) \in DTypes
    BY <1>4 DEF Exchange
  <2>2. PICK v : item' = Typed(Renamed(form, item.dtype), v)
    BY <1>4 DEF Exchange
  <2> QED BY <2>1, <2>2, TypedIsDone DEF IInv, Done
<1>5. CASE UNCHANGED vars
  BY <1>5 DEF vars, IInv, Done, FoldOK, Seen
<1> QED BY <1>1, <1>2, <1>3, <1>4, <1>5 DEF Next

\* The accumulator is right after every turn.
LEMMA Invariant == Spec => []IInv
<1> QED BY InitHolds, NextHolds, PTL DEF Spec

---------------------------------------------------------------------------

\* However many arrays there are, and in whatever order, each may be safely
\* converted to the common type: common_type never returns a type that does
\* not hold one of its arguments, and Align is never refused.
THEOREM CommonHolds == Spec => []CommonHoldsAll
<1>1. IInv => CommonHoldsAll
  BY DEF IInv, FoldOK, CommonHoldsAll, CanCast
<1> QED BY <1>1, Invariant, PTL

\* The kind of the common type does not depend on how the operands are
\* ordered: it is given by which of them there are.
THEOREM CommonKind == Spec => []KindFollows
<1>1. IInv => KindFollows
  <2> SUFFICES ASSUME IInv, ~Done PROVE KindFollows
    BY DEF KindFollows
  <2>1. ClassOf(acc, Seen) /\ acc \in DTypes /\ Seen \subseteq DTypes
    BY OperandsAssumption DEF IInv, FoldOK, Seen
  <2>2. /\ \A d \in Complex : KindOf(d) = Complex
        /\ \A d \in Float : KindOf(d) = Float
        /\ \A d \in Integer : KindOf(d) = Integer
        /\ KindOf("Bool") = {"Bool"}
    <3>1. \A K, L \in Kinds : \A d : d \in K /\ d \in L => K = L
      BY DEF Kinds, Signed, Unsigned, Integer, Float, Complex
    <3>2. \A K \in Kinds : \A d \in K : KindOf(d) = K
      BY <3>1 DEF KindOf
    <3> QED BY <3>2 DEF Kinds
  <2>3. Seen # {}
    <3>1. 1 \in 1..folded
      BY OperandsAssumption DEF IInv, FoldOK
    <3> QED BY <3>1 DEF Seen
  <2>4. CASE Seen \cap Complex # {}
    BY <2>1, <2>2, <2>4 DEF KindFollows, ClassOf, Seen
  <2>5. CASE /\ Seen \cap Complex = {}
             /\ Seen \cap Float # {} \/ ("U64" \in Seen /\ Seen \cap Signed # {})
    BY <2>1, <2>2, <2>5, ClassesApart DEF KindFollows, ClassOf, Seen
  <2>6. CASE /\ Seen \cap Complex = {}
             /\ Seen \cap Float = {} /\ ("U64" \notin Seen \/ Seen \cap Signed = {})
    BY <2>1, <2>2, <2>3, <2>6, ClassesApart DEF KindFollows, ClassOf, Seen
  <2> QED BY <2>4, <2>5, <2>6, Zenon
<1> QED BY <1>1, Invariant, PTL

---------------------------------------------------------------------------
\* Numbers.

\* The parts of a number.
LEMMA Parts ==
  \A form, neg, hi, tail, lo :
    LET x == Number(form, neg, hi, tail, lo)
    IN x.kind = form /\ x.neg = neg /\ x.hi = hi /\ x.tail = tail /\ x.lo = lo
BY DEF Number

\* A number is what its parts say, and parts of the right form make one.
LEMMA NumberParts ==
  ASSUME NEW x, IsNumber(x)
  PROVE  /\ x = Number(x.kind, x.neg, x.hi, x.tail, x.lo)
         /\ x.kind \in {"zero", "nan", "inf", "fin"} /\ x.neg \in BOOLEAN
         /\ x.hi \in Int /\ x.tail \in {"none", "plus", "minus"} /\ x.lo \in Int
         /\ x.kind # "fin" => x.hi = 0 /\ x.tail = "none" /\ x.lo = 0
         /\ x.kind = "zero" => x = Zero
         /\ x.kind = "nan" => x = NaN
         /\ x.tail = "none" => x.lo = 0
         /\ x.tail = "plus" => x.lo < x.hi
         /\ x.tail = "minus" => x.lo + 2 < x.hi
<1>1. ASSUME NEW form \in {"zero", "nan", "inf"}, NEW neg \in BOOLEAN,
             x = Number(form, neg, 0, "none", 0)
      PROVE  /\ x = Number(x.kind, x.neg, x.hi, x.tail, x.lo)
             /\ x.kind = form /\ x.neg \in BOOLEAN /\ x.hi = 0 /\ x.tail = "none" /\ x.lo = 0
  BY <1>1 DEF Number
<1>2. CASE x = Zero
  <2>1. x.kind = "zero" /\ x = Number(x.kind, x.neg, x.hi, x.tail, x.lo)
        /\ x.neg \in BOOLEAN /\ x.hi = 0 /\ x.tail = "none" /\ x.lo = 0
    BY <1>1, <1>2, Zenon DEF Zero
  <2> QED BY <1>2, <2>1
<1>3. CASE x = NaN
  <2>1. x.kind = "nan" /\ x = Number(x.kind, x.neg, x.hi, x.tail, x.lo)
        /\ x.neg \in BOOLEAN /\ x.hi = 0 /\ x.tail = "none" /\ x.lo = 0
    BY <1>1, <1>3, Zenon DEF NaN
  <2> QED BY <1>3, <2>1
<1>4. CASE x = Inf(TRUE) \/ x = Inf(FALSE)
  <2>1. x.kind = "inf" /\ x = Number(x.kind, x.neg, x.hi, x.tail, x.lo)
        /\ x.neg \in BOOLEAN /\ x.hi = 0 /\ x.tail = "none" /\ x.lo = 0
    BY <1>1, <1>4, Zenon DEF Inf
  <2> QED BY <2>1
<1>5. CASE x \notin {Zero, NaN, Inf(TRUE), Inf(FALSE)}
  <2>1. /\ x \in [kind : {"fin"}, neg : BOOLEAN, hi : Int,
                  tail : {"none", "plus", "minus"}, lo : Int]
        /\ x.tail = "none"  => x.lo = 0
        /\ x.tail = "plus"  => x.lo < x.hi
        /\ x.tail = "minus" => x.lo + 2 < x.hi
    BY <1>5, Zenon DEF IsNumber
  <2> QED BY <2>1 DEF Number
<1> QED BY <1>2, <1>3, <1>4, <1>5

\* Parts that keep the rules of the form make a number.
LEMMA FiniteNumbers ==
  ASSUME NEW neg \in BOOLEAN, NEW hi \in Int, NEW lo \in Int,
         NEW tail \in {"none", "plus", "minus"},
         tail = "none" => lo = 0, tail = "plus" => lo < hi, tail = "minus" => lo + 2 < hi
  PROVE  IsNumber(Number("fin", neg, hi, tail, lo))
<1> DEFINE x == Number("fin", neg, hi, tail, lo)
<1>1. x \in [kind : {"fin"}, neg : BOOLEAN, hi : Int,
             tail : {"none", "plus", "minus"}, lo : Int]
  BY DEF Number
<1>2. x.tail = tail /\ x.hi = hi /\ x.lo = lo
  BY Parts
<1> HIDE DEF x
<1>3. IsNumber(x)
  BY <1>1, <1>2 DEF IsNumber
<1> QED BY <1>3 DEF x

\* The constructors make numbers.
LEMMA PartsNumber ==
  ASSUME NEW neg \in BOOLEAN, NEW hi \in Int
  PROVE  /\ IsNumber(Zero) /\ IsNumber(NaN) /\ IsNumber(Inf(neg))
         /\ IsNumber(Power(neg, hi)) /\ IsNumber(One)
         /\ \A lo \in Int : lo < hi => IsNumber(Above(neg, hi, lo)) /\ IsNumber(Below(neg, hi, lo))
<1>1. IsNumber(Zero) /\ IsNumber(NaN) /\ IsNumber(Inf(neg))
  <2>1. neg = TRUE \/ neg = FALSE
    OBVIOUS
  <2> QED BY <2>1, Zenon DEF IsNumber
<1>2. \A n \in BOOLEAN, h \in Int : IsNumber(Power(n, h))
  BY FiniteNumbers DEF Power
<1>3. \A h, lo \in Int : lo < h => IsNumber(Above(neg, h, lo))
  BY FiniteNumbers DEF Above
<1>4. ASSUME NEW lo \in Int, lo < hi
      PROVE  IsNumber(Below(neg, hi, lo))
  <2>1. CASE hi - lo = 1
    BY <1>2, <2>1 DEF Below
  <2>2. CASE hi - lo = 2
    <3>1. Below(neg, hi, lo) = Above(neg, lo + 1, lo)
      BY <2>2 DEF Below
    <3> QED BY <1>3, <3>1
  <2>3. CASE hi - lo # 1 /\ hi - lo # 2
    <3>1. Below(neg, hi, lo) = Number("fin", neg, hi, "minus", lo)
      BY <2>3 DEF Below
    <3>2. lo + 2 < hi
      BY <1>4, <2>3
    <3> QED BY <3>1, <3>2, FiniteNumbers
  <2> QED BY <2>1, <2>2, <2>3
<1>5. IsNumber(One)
  <2>1. 0 \in Int /\ FALSE \in BOOLEAN
    OBVIOUS
  <2> QED BY <1>2, <2>1, Zenon DEF One
<1> QED BY <1>1, <1>2, <1>3, <1>4, <1>5

---------------------------------------------------------------------------
\* Floats.

\* The significant bits of a finite number.
Bits(x) == CASE x.tail = "none"  -> 1
             [] x.tail = "plus"  -> x.hi - x.lo + 1
             [] x.tail = "minus" -> x.hi - x.lo

\* The widths a float type needs for a number to be one of its own.
FitsFloat(x, d) ==
  x.kind = "fin" => Bits(x) <= Precision[d] /\ BitLength(x) - 1 <= MaxExponent[d]

\* The bounds of Precision and MaxExponent.
LEMMA FloatWidths ==
  ASSUME NEW d \in Float
  PROVE  /\ Precision[d] \in Nat /\ Precision[d] >= 8
         /\ MaxExponent[d] \in Nat /\ MaxExponent[d] >= 15
         /\ Precision[d] <= 53 /\ MaxExponent[d] <= 1023
BY DEF Float, Precision, MaxExponent

\* Rounding leaves the numbers a type has, and ends at one of them.
LEMMA RoundKeeps ==
  ASSUME NEW x, IsNumber(x), NEW d \in Float
  PROVE  Round(x, d) = x <=> FitsFloat(x, d)
<1>1. /\ Precision[d] \in Nat /\ Precision[d] >= 8 /\ MaxExponent[d] \in Nat
  BY FloatWidths
<1>2. /\ x = Number(x.kind, x.neg, x.hi, x.tail, x.lo)
      /\ x.hi \in Int /\ x.lo \in Int /\ x.tail \in {"none", "plus", "minus"}
      /\ x.tail = "plus" => x.lo < x.hi
      /\ x.tail = "minus" => x.lo + 2 < x.hi
  BY NumberParts
<1>3. CASE x.kind # "fin"
  BY <1>3 DEF Round, FitsFloat
<1>4. CASE x.kind = "fin"
  <2> DEFINE near == IF Bits(x) <= Precision[d] THEN x ELSE Power(x.neg, x.hi)
  <2>1. Round(x, d) = IF BitLength(near) - 1 > MaxExponent[d] THEN Inf(x.neg) ELSE near
    BY <1>4, <1>2 DEF Round, Bits
  <2>2. x # Inf(x.neg)
    BY <1>4 DEF Inf, Number
  <2>3. CASE Bits(x) <= Precision[d]
    BY <2>1, <2>2, <2>3, <1>4, <1>1, <1>2 DEF FitsFloat, BitLength
  <2>4. CASE ~(Bits(x) <= Precision[d])
    <3>1. x.tail # "none"
      BY <2>4, <1>1 DEF Bits
    <3>2. x # Power(x.neg, x.hi)
      BY <3>1 DEF Power, Number
    <3> QED BY <3>2, <2>1, <2>2, <2>4, <1>4 DEF FitsFloat
  <2> QED BY <2>3, <2>4
<1> QED BY <1>3, <1>4

\* Rounding ends at a number of the type: rounding it again changes nothing.
LEMMA RoundEnds ==
  ASSUME NEW x, IsNumber(x), NEW d \in Float
  PROVE  IsNumber(Round(x, d)) /\ Round(Round(x, d), d) = Round(x, d)
<1>1. /\ Precision[d] \in Nat /\ Precision[d] >= 8 /\ MaxExponent[d] \in Nat
  BY FloatWidths
<1>2. /\ x.hi \in Int /\ x.neg \in BOOLEAN
      /\ x.lo \in Int /\ x.tail \in {"none", "plus", "minus"}
  BY NumberParts
<1>3. CASE x.kind # "fin"
  BY <1>3 DEF Round
<1>4. CASE x.kind = "fin"
  <2> DEFINE near == IF Bits(x) <= Precision[d] THEN x ELSE Power(x.neg, x.hi)
  <2>1. Round(x, d) = IF BitLength(near) - 1 > MaxExponent[d] THEN Inf(x.neg) ELSE near
    BY <1>4, <1>2 DEF Round, Bits
  <2>2. IsNumber(Inf(x.neg)) /\ Round(Inf(x.neg), d) = Inf(x.neg)
    BY <1>2, PartsNumber DEF Round, Inf, Number
  <2>3. IsNumber(near)
    BY <1>2, PartsNumber
  <2>4. near.kind = "fin" /\ Bits(near) <= Precision[d]
    <3>1. CASE Bits(x) <= Precision[d]
      BY <3>1, <1>4
    <3>2. CASE ~(Bits(x) <= Precision[d])
      <4>1. near.kind = "fin" /\ near.tail = "none"
        BY <3>2 DEF Power, Number
      <4> HIDE DEF near
      <4> QED BY <4>1, <1>1 DEF Bits
    <3> QED BY <3>1, <3>2
  <2>5. CASE BitLength(near) - 1 > MaxExponent[d]
    BY <2>1, <2>2, <2>5
  <2>6. CASE ~(BitLength(near) - 1 > MaxExponent[d])
    <3>1. BitLength(near) \in Int
      <4>1. near.hi \in Int
        BY <2>3, NumberParts
      <4> QED BY <4>1 DEF BitLength
    <3>2. FitsFloat(near, d)
      BY <2>4, <2>6, <3>1, <1>1 DEF FitsFloat
    <3>3. Round(near, d) = near
      BY <2>3, <3>2, RoundKeeps
    <3> QED BY <2>1, <2>3, <2>6, <3>3
  <2> QED BY <2>5, <2>6
<1> QED BY <1>3, <1>4

---------------------------------------------------------------------------
\* Integers.

\* An integer type has 7 to 64 bits of value.
LEMMA IntegerWidths ==
  ASSUME NEW d \in Integer
  PROVE  /\ ValueBits(d) \in Nat /\ ValueBits(d) >= 7 /\ ValueBits(d) <= 64
         /\ d \notin Signed <=> d \in Unsigned
BY DEF Integer, Signed, Unsigned, ValueBits, BitWidth

\* The bounds are numbers of the type.
LEMMA BoundsHeld ==
  ASSUME NEW d \in Integer
  PROVE  /\ IsNumber(MaxValue(d)) /\ IsWhole(MaxValue(d)) /\ InRange(MaxValue(d), d)
         /\ IsNumber(MinValue(d)) /\ IsWhole(MinValue(d)) /\ InRange(MinValue(d), d)
<1> DEFINE w == ValueBits(d)
<1>1. w \in Nat /\ w >= 7
  BY IntegerWidths
<1> HIDE DEF w
<1>2. MaxValue(d) = Number("fin", FALSE, w, "minus", 0)
  <2>1. w - 0 # 1 /\ w - 0 # 2
    BY <1>1
  <2> QED BY <2>1, Zenon DEF MaxValue, Below, w
<1>a. \A neg \in BOOLEAN, hi \in Int, lo \in Int, tail \in {"none", "minus"} :
        /\ tail = "none" => lo = 0
        /\ tail = "minus" => lo + 2 < hi
        => IsNumber(Number("fin", neg, hi, tail, lo))
  BY FiniteNumbers
<1>3. IsNumber(MaxValue(d)) /\ IsWhole(MaxValue(d)) /\ InRange(MaxValue(d), d)
  <2>1. IsNumber(MaxValue(d))
    <3>1. FALSE \in BOOLEAN /\ w \in Int /\ 0 \in Int /\ 0 + 2 < w
      BY <1>1
    <3> QED BY <1>2, <1>a, <3>1, Zenon
  <2>2. /\ MaxValue(d).kind = "fin" /\ ~MaxValue(d).neg /\ MaxValue(d).hi = w
        /\ MaxValue(d).tail = "minus" /\ MaxValue(d).lo = 0
    BY <1>2 DEF Number
  <2> QED BY <1>1, <2>1, <2>2 DEF IsWhole, InRange, BitLength, w
<1>4. CASE d \in Signed
  <2>1. MinValue(d) = Number("fin", TRUE, w, "none", 0)
    BY <1>4, Zenon DEF MinValue, Power, w
  <2>2. IsNumber(MinValue(d))
    <3>1. TRUE \in BOOLEAN /\ w \in Int /\ 0 \in Int
      BY <1>1
    <3> QED BY <2>1, <1>a, <3>1, Zenon
  <2>3. /\ MinValue(d).kind = "fin" /\ MinValue(d).hi = w /\ MinValue(d).tail = "none"
    BY <2>1 DEF Number
  <2> QED BY <1>1, <1>3, <1>4, <2>2, <2>3 DEF IsWhole, InRange
<1>5. CASE d \notin Signed
  <2>1. MinValue(d) = Zero
    BY <1>5 DEF MinValue
  <2>2. IsNumber(Zero) /\ Zero.kind = "zero"
    BY DEF IsNumber, Zero, Number
  <2> QED BY <1>3, <2>1, <2>2 DEF IsWhole, InRange
<1> QED BY <1>4, <1>5, <1>3

\* Truncation ends at a whole number.
LEMMA TruncateWhole ==
  ASSUME NEW x, IsNumber(x), x.kind \in {"zero", "fin"}
  PROVE  /\ IsNumber(Truncate(x)) /\ IsWhole(Truncate(x))
         /\ IsWhole(x) => Truncate(x) = x
         /\ Truncate(x).kind = "fin" => Truncate(x).neg = x.neg
<1>1. /\ x.neg \in BOOLEAN /\ x.hi \in Int /\ x.lo \in Int
      /\ x.tail \in {"none", "plus", "minus"}
      /\ x.tail = "plus" => x.lo < x.hi
      /\ x.tail = "minus" => x.lo + 2 < x.hi
  BY NumberParts
<1>2. CASE IsWhole(x)
  <2>1. Truncate(x) = x
    BY <1>2 DEF Truncate
  <2> QED BY <1>2, <2>1
<1>3. CASE ~IsWhole(x) /\ x.tail = "minus" /\ x.hi > 0
  <2>1. Truncate(x) = Below(x.neg, x.hi, 0)
    BY <1>3 DEF Truncate
  <2>2. IsNumber(Below(x.neg, x.hi, 0))
    BY <1>1, <1>3, PartsNumber
  <2>3. CASE x.hi = 1
    BY <2>1, <2>2, <2>3, <1>3 DEF Below, Power, Number, IsWhole
  <2>4. CASE x.hi = 2
    BY <2>1, <2>2, <2>4, <1>3 DEF Below, Above, Number, IsWhole
  <2>5. CASE x.hi > 2
    BY <2>1, <2>2, <2>5, <1>1, <1>3 DEF Below, Number, IsWhole
  <2> QED BY <2>3, <2>4, <2>5, <1>1, <1>3
<1>4. CASE ~IsWhole(x) /\ x.tail = "plus" /\ x.hi >= 0
  <2>1. Truncate(x) = Power(x.neg, x.hi)
    BY <1>4 DEF Truncate
  <2>2. IsNumber(Power(x.neg, x.hi))
    BY <1>1, PartsNumber
  <2> QED BY <2>1, <2>2, <1>1, <1>4 DEF Power, Number, IsWhole
<1>5. CASE /\ ~IsWhole(x) /\ ~(x.tail = "minus" /\ x.hi > 0)
           /\ ~(x.tail = "plus" /\ x.hi >= 0)
  <2>1. Truncate(x) = Zero
    BY <1>5 DEF Truncate
  <2>2. IsNumber(Zero) /\ Zero.kind = "zero"
    BY DEF IsNumber, Zero, Number
  <2> QED BY <2>1, <2>2, <1>5 DEF IsWhole
<1> QED BY <1>2, <1>3, <1>4, <1>5

\* A conversion to an integer type ends at a number of the type, and leaves those.
LEMMA IntegerEnds ==
  ASSUME NEW x, IsNumber(x), NEW d \in Integer
  PROVE  /\ IsNumber(ToInteger(x, d)) /\ IsWhole(ToInteger(x, d)) /\ InRange(ToInteger(x, d), d)
         /\ IsWhole(x) /\ InRange(x, d) => ToInteger(x, d) = x
<1>1. x.kind \in {"zero", "nan", "inf", "fin"} /\ x.neg \in BOOLEAN
  BY NumberParts
<1>2. CASE x.kind = "nan"
  <2>1. IsNumber(Zero) /\ Zero.kind = "zero"
    BY DEF IsNumber, Zero, Number
  <2> QED BY <1>2, <2>1 DEF ToInteger, IsWhole, InRange
<1>3. CASE x.kind = "inf"
  BY <1>3, <1>1, BoundsHeld DEF ToInteger, IsWhole
<1>4. CASE x.kind \in {"zero", "fin"}
  BY <1>4, <1>1, BoundsHeld, TruncateWhole DEF ToInteger
<1> QED BY <1>1, <1>2, <1>3, <1>4

\* What the types hold, class by class.
LEMMA HoldsByClass ==
  /\ \A x : HoldsNumber("Bool", x) <=> x \in {Zero, One}
  /\ \A d \in Integer : \A x : HoldsNumber(d, x) <=> IsWhole(x) /\ InRange(x, d)
  /\ \A d \in Float : \A x : HoldsNumber(d, x) <=> Round(x, d) = x
<1>1. \A x : HoldsNumber("Bool", x) <=> x \in {Zero, One}
  <2>1. "Bool" \notin Integer
    BY DEF Integer, Signed, Unsigned
  <2>2. "Bool" \notin Float
    BY DEF Float
  <2> QED BY <2>1, <2>2 DEF HoldsNumber
<1>2. ASSUME NEW d \in Integer, NEW x
      PROVE  HoldsNumber(d, x) <=> IsWhole(x) /\ InRange(x, d)
  <2>1. d # "Bool"
    BY DEF Integer, Signed, Unsigned
  <2>2. d \notin Float
    BY DEF Integer, Signed, Unsigned, Float
  <2> QED BY <2>1, <2>2 DEF HoldsNumber
<1>3. ASSUME NEW d \in Float, NEW x
      PROVE  HoldsNumber(d, x) <=> Round(x, d) = x
  <2>1. d # "Bool"
    BY DEF Float
  <2>2. d \notin Integer
    BY DEF Integer, Signed, Unsigned, Float
  <2> QED BY <2>1, <2>2 DEF HoldsNumber
<1> QED BY <1>1, <1>2, <1>3

---------------------------------------------------------------------------
\* Elements.

IsElement(v) ==
  /\ v = Element(v.re, v.im)
  /\ IsNumber(v.re)
  /\ IsNumber(v.im)

\* Two numbers make an element.
LEMMA Elements ==
  ASSUME NEW x, IsNumber(x), NEW y, IsNumber(y)
  PROVE  /\ IsElement(Element(x, y))
         /\ Element(x, y).re = x /\ Element(x, y).im = y
         /\ IsNumber(Zero) /\ IsNumber(One)
<1>1. Element(x, y).re = x /\ Element(x, y).im = y
  BY DEF Element
<1>2. IsNumber(Zero) /\ IsNumber(One)
  <2>1. FALSE \in BOOLEAN /\ 0 \in Int
    OBVIOUS
  <2> QED BY <2>1, PartsNumber, Zenon
<1> QED BY <1>1, <1>2 DEF IsElement

\* The magnitude of a number is as wide as the number.
LEMMA AbsFits ==
  ASSUME NEW x, IsNumber(x), NEW d \in Float
  PROVE  /\ IsNumber(Abs(x))
         /\ Round(x, d) = x => Round(Abs(x), d) = Abs(x)
<1> DEFINE y == Abs(x)
<1>1. y = Number(x.kind, FALSE, x.hi, x.tail, x.lo)
  <2>1. x = Number(x.kind, x.neg, x.hi, x.tail, x.lo)
    BY NumberParts
  <2>2. \A y0, form, neg, hi, tail, lo, new :
          y0 = Number(form, neg, hi, tail, lo) =>
            [y0 EXCEPT !.neg = new] = Number(form, new, hi, tail, lo)
    BY DEF Number
  <2>3. \A new : [x EXCEPT !.neg = new] = Number(x.kind, new, x.hi, x.tail, x.lo)
    BY <2>1, <2>2
  <2> QED BY <2>3, Zenon DEF Abs
<1>2. /\ y.kind = x.kind /\ y.hi = x.hi /\ y.tail = x.tail /\ y.lo = x.lo
  BY <1>1 DEF Number
<1>3. IsNumber(y)
  <2>1. /\ x.kind \in {"zero", "nan", "inf", "fin"} /\ x.hi \in Int /\ x.lo \in Int
        /\ x.tail \in {"none", "plus", "minus"}
        /\ x.kind # "fin" => x.hi = 0 /\ x.tail = "none" /\ x.lo = 0
        /\ x.tail = "none" => x.lo = 0
        /\ x.tail = "plus" => x.lo < x.hi
        /\ x.tail = "minus" => x.lo + 2 < x.hi
    BY NumberParts
  <2>2. CASE x.kind = "fin"
    <3>1. FALSE \in BOOLEAN
      OBVIOUS
    <3>2. \A neg \in BOOLEAN : IsNumber(Number("fin", neg, x.hi, x.tail, x.lo))
      BY <2>1, <2>2, FiniteNumbers
    <3> QED BY <1>1, <2>2, <3>1, <3>2, Zenon
  <2>3. CASE x.kind # "fin"
    BY <1>1, <2>1, <2>3, Zenon DEF IsNumber, Zero, NaN, Inf
  <2> QED BY <2>2, <2>3
<1>4. FitsFloat(x, d) => FitsFloat(y, d)
  BY <1>2 DEF FitsFloat, Bits, BitLength
<1> HIDE DEF y
<1>5. Round(x, d) = x => Round(y, d) = y
  BY <1>3, <1>4, RoundKeeps
<1> QED BY <1>3, <1>5 DEF y

\* A wider float type has the numbers of a narrower one.
LEMMA FloatsNest ==
  ASSUME NEW x, IsNumber(x), NEW d \in Float, NEW e \in Float, Round(x, d) = x,
         Precision[d] <= Precision[e] /\ MaxExponent[d] <= MaxExponent[e]
  PROVE  Round(x, e) = x
<1>1. /\ Precision[d] \in Nat /\ MaxExponent[d] \in Nat
      /\ Precision[e] \in Nat /\ MaxExponent[e] \in Nat
  BY FloatWidths
<1>2. FitsFloat(x, d)
  BY RoundKeeps
<1>3. x.hi \in Int /\ x.lo \in Int /\ x.tail \in {"none", "plus", "minus"}
  BY NumberParts
<1>4. Bits(x) \in Int /\ BitLength(x) \in Int
  BY <1>3 DEF Bits, BitLength
<1>5. FitsFloat(x, e)
  BY <1>1, <1>2, <1>4 DEF FitsFloat
<1> QED BY <1>5, RoundKeeps

\* F16 and BF16 are inside F32, and F32 is inside F64.
LEMMA FloatOrder ==
  /\ Precision["F32"] <= Precision["F64"] /\ MaxExponent["F32"] <= MaxExponent["F64"]
  /\ Precision["F16"] <= Precision["F32"] /\ MaxExponent["F16"] <= MaxExponent["F32"]
  /\ Precision["BF16"] <= Precision["F32"] /\ MaxExponent["BF16"] <= MaxExponent["F32"]
  /\ {"F16", "BF16", "F32", "F64"} = Float
BY DEF Precision, MaxExponent, Float

\* What an element becomes on the way is a number an f64 holds.
LEMMA ToF64Ends ==
  ASSUME NEW d \in DTypes, NEW v, IsElement(v), Holds(d, v)
  PROVE  /\ IsNumber(ToF64Lossy(d, v))
         /\ Round(ToF64Lossy(d, v), "F64") = ToF64Lossy(d, v)
<1>1. IsNumber(v.re) /\ IsNumber(v.im)
  BY DEF IsElement
<1>2. CASE d \in Complex
  <2> DEFINE p == IF d = "C64" THEN "F32" ELSE "F64"
  <2>1. p \in Float /\ Precision[p] <= Precision["F64"] /\ MaxExponent[p] <= MaxExponent["F64"]
    BY FloatOrder DEF Precision, MaxExponent
  <2>2. Round(v.re, p) = v.re /\ Round(v.im, p) = v.im
    BY <1>2 DEF Holds, HoldsNumber, Complex, Float, Integer, Signed, Unsigned
  <2>3. "F64" \in Float
    BY DEF Float
  <2> HIDE DEF p
  <2>4. Round(v.re, "F64") = v.re /\ Round(v.im, "F64") = v.im
    BY <1>1, <2>1, <2>2, <2>3, FloatsNest
  <2>5. /\ IsNumber(Abs(v.re)) /\ Round(Abs(v.re), "F64") = Abs(v.re)
        /\ IsNumber(Abs(v.im)) /\ Round(Abs(v.im), "F64") = Abs(v.im)
    BY <1>1, <2>3, <2>4, AbsFits
  <2> QED BY <1>2, <2>5 DEF ToF64Lossy, Norm
<1>3. CASE d \notin Complex
  <2>1. "F64" \in Float
    BY DEF Float
  <2> QED BY <1>1, <1>3, <2>1, RoundEnds DEF ToF64Lossy
<1> QED BY <1>2, <1>3

\* ... and what is made of one is an element of the type.
LEMMA FromF64Ends ==
  ASSUME NEW d \in DTypes, NEW x, IsNumber(x), Round(x, "F64") = x
  PROVE  IsElement(FromF64Lossy(d, x)) /\ Holds(d, FromF64Lossy(d, x))
<1> USE DEF Complex, Float, Integer, Signed, Unsigned
<1>1. \A y : IsNumber(y) => /\ IsElement(Element(y, Zero))
                            /\ Element(y, Zero).re = y /\ Element(y, Zero).im = Zero
  BY Elements, PartsNumber
<1>2. IsNumber(Zero) /\ IsNumber(One)
  BY Elements
<1>3. CASE d = "Bool"
  BY <1>1, <1>2, <1>3 DEF FromF64Lossy, Holds, HoldsNumber
<1>4. CASE d \in Integer
  <2>1. /\ IsNumber(ToInteger(x, d)) /\ IsWhole(ToInteger(x, d)) /\ InRange(ToInteger(x, d), d)
    BY <1>4, IntegerEnds
  <2>2. FromF64Lossy(d, x) = Element(ToInteger(x, d), Zero)
    BY <1>4 DEF FromF64Lossy
  <2> QED BY <1>1, <1>4, <2>1, <2>2 DEF Holds, HoldsNumber
<1>5. CASE d \in Float
  <2>1. IsNumber(Round(x, d)) /\ Round(Round(x, d), d) = Round(x, d)
    BY <1>5, RoundEnds
  <2>2. FromF64Lossy(d, x) = Element(Round(x, d), Zero)
    BY <1>5 DEF FromF64Lossy
  <2> QED BY <1>1, <1>5, <2>1, <2>2 DEF Holds, HoldsNumber
<1>6. \A e \in Float : Round(Zero, e) = Zero
  BY DEF Round, Zero, Number
<1>7. CASE d = "C64"
  <2>1. IsNumber(Round(x, "F32")) /\ Round(Round(x, "F32"), "F32") = Round(x, "F32")
    BY RoundEnds
  <2>2. FromF64Lossy(d, x) = Element(Round(x, "F32"), Zero)
    BY <1>7 DEF FromF64Lossy
  <2> QED BY <1>1, <1>6, <1>7, <2>1, <2>2 DEF Holds, HoldsNumber
<1>8. CASE d = "C128"
  <2>1. FromF64Lossy(d, x) = Element(x, Zero)
    BY <1>8 DEF FromF64Lossy
  <2> QED BY <1>1, <1>6, <1>8, <2>1 DEF Holds, HoldsNumber
<1> QED BY <1>3, <1>4, <1>5, <1>7, <1>8, DTypesAre

\* So a conversion of an element ends at an element of its new type.
LEMMA CastEnds ==
  ASSUME NEW a \in DTypes, NEW b \in DTypes, NEW v, IsElement(v), Holds(a, v)
  PROVE  IsElement(CastScalar(v, a, b)) /\ Holds(b, CastScalar(v, a, b))
<1>1. CASE a = b
  BY <1>1 DEF CastScalar
<1>2. CASE a # b
  BY <1>2, ToF64Ends, FromF64Ends DEF CastScalar
<1> QED BY <1>1, <1>2

---------------------------------------------------------------------------
\* Safe conversions.

\* The number type of a type, as in Holds.
PartOf(d) == CASE d = "C64" -> "F32" [] d = "C128" -> "F64" [] OTHER -> d

\* What the safe table asks of the widths of two types.
LEMMA SafeWidths ==
  ASSUME NEW a \in DTypes \ Complex, NEW b \in SAFE_CAST_TABLE[a], b # a
  PROVE  /\ b # "Bool"
         /\ a = "Bool" => b \in Integer \/ PartOf(b) \in Float
         /\ a \in Integer =>
              \/ b \in Integer /\ ValueBits(a) < ValueBits(b) /\ (a \in Signed => b \in Signed)
              \/ PartOf(b) = "F64"
              \/ /\ PartOf(b) \in Float
                 /\ ValueBits(a) <= Precision[PartOf(b)] /\ ValueBits(a) <= MaxExponent[PartOf(b)]
         /\ a \in Float =>
              /\ PartOf(b) \in Float
              /\ Precision[a] <= Precision[PartOf(b)] /\ MaxExponent[a] <= MaxExponent[PartOf(b)]
<1> USE DTypesAre DEF SAFE_CAST_TABLE, Signed, Unsigned, Integer, Float, Complex, PartOf
<1>1. b # "Bool" /\ b \in DTypes
  OBVIOUS
<1>2. a = "Bool" => b \in Integer \/ PartOf(b) \in Float
  OBVIOUS
<1>3. ASSUME a \in Signed
      PROVE  \/ b \in Signed /\ ValueBits(a) < ValueBits(b)
             \/ PartOf(b) = "F64"
             \/ /\ PartOf(b) \in Float
                /\ ValueBits(a) <= Precision[PartOf(b)] /\ ValueBits(a) <= MaxExponent[PartOf(b)]
  BY <1>3 DEF ValueBits, BitWidth, Precision, MaxExponent
<1>4. ASSUME a \in Unsigned
      PROVE  \/ b \in Integer /\ ValueBits(a) < ValueBits(b)
             \/ PartOf(b) = "F64"
             \/ /\ PartOf(b) \in Float
                /\ ValueBits(a) <= Precision[PartOf(b)] /\ ValueBits(a) <= MaxExponent[PartOf(b)]
  BY <1>4 DEF ValueBits, BitWidth, Precision, MaxExponent
<1>5. ASSUME a \in Float
      PROVE  /\ PartOf(b) \in Float
             /\ Precision[a] <= Precision[PartOf(b)] /\ MaxExponent[a] <= MaxExponent[PartOf(b)]
  BY <1>5 DEF Precision, MaxExponent
<1>6. a \in Integer => a \in Signed \/ a \in Unsigned
  OBVIOUS
<1>7. a \in Unsigned => a \notin Signed
  OBVIOUS
<1>8. b \in Signed => b \in Integer
  OBVIOUS
<1> QED BY ONLY <1>1, <1>2, <1>3, <1>4, <1>5, <1>6, <1>7, <1>8

\* A number of a type that an f64 holds is one of every type it may be safely
\* cast to.
LEMMA SafeHolds ==
  ASSUME NEW a \in DTypes \ Complex, NEW b \in SAFE_CAST_TABLE[a], b # a,
         NEW x, IsNumber(x), HoldsNumber(a, x), Round(x, "F64") = x
  PROVE  HoldsNumber(PartOf(b), x)
<1>1. /\ x.hi \in Int /\ x.lo \in Int /\ x.tail \in {"none", "plus", "minus"}
      /\ x.tail = "plus" => x.lo < x.hi
      /\ x.tail = "minus" => x.lo + 2 < x.hi
  BY NumberParts
<1>2. \A d \in Float : HoldsNumber(d, x) <=> FitsFloat(x, d)
  BY RoundKeeps, HoldsByClass
<1>3. \A d \in Integer : HoldsNumber(d, x) <=> IsWhole(x) /\ InRange(x, d)
  BY HoldsByClass
<1>4. b \in Integer => PartOf(b) = b
  BY DEF PartOf, Integer, Signed, Unsigned
<1>5. PartOf(b) = "F64" => HoldsNumber(PartOf(b), x)
  BY DEF HoldsNumber, Integer, Signed, Unsigned, Float
<1>6. \A d \in Float : /\ Precision[d] \in Nat /\ Precision[d] >= 8
                       /\ MaxExponent[d] \in Nat /\ MaxExponent[d] >= 15
  BY FloatWidths
<1>7. \A d \in Integer : ValueBits(d) \in Nat /\ ValueBits(d) >= 7
  BY IntegerWidths
<1>8. CASE a = "Bool"
  <2>1. x = Zero \/ x = One
    BY <1>8, HoldsByClass
  <2>2. x.kind = "zero" \/ (x.kind = "fin" /\ ~x.neg /\ x.hi = 0 /\ x.tail = "none")
    BY <2>1 DEF Zero, One, Power, Number
  <2>3. CASE b \in Integer
    <3>1. IsWhole(x)
      BY <2>2 DEF IsWhole
    <3>2. InRange(x, b)
      BY <2>2, <2>3, <1>7 DEF InRange, BitLength
    <3> QED BY <1>3, <1>4, <2>3, <3>1, <3>2
  <2>4. CASE PartOf(b) \in Float
    <3>1. FitsFloat(x, PartOf(b))
      BY <1>6, <2>2, <2>4 DEF FitsFloat, Bits, BitLength
    <3> QED BY <1>2, <2>4, <3>1
  <2> QED BY <1>8, <2>3, <2>4, SafeWidths
<1>9. CASE a \in Integer
  <2>1. IsWhole(x) /\ InRange(x, a)
    BY <1>3, <1>9
  <2>2. x.kind = "fin" => /\ x.neg => a \in Signed
                          /\ \/ BitLength(x) <= ValueBits(a)
                             \/ x.hi = ValueBits(a) /\ x.tail = "none"
    <3>1. a \in Signed => MinValue(a).hi = ValueBits(a) /\ MinValue(a).tail = "none"
      BY DEF MinValue, Power, Number
    <3>2. a \notin Signed => MinValue(a).kind = "zero"
      BY DEF MinValue, Zero, Number
    <3> QED BY <2>1, <3>1, <3>2 DEF InRange
  <2>3. CASE b \in Integer /\ ValueBits(a) < ValueBits(b) /\ (a \in Signed => b \in Signed)
    <3>1. InRange(x, b)
      BY <1>1, <1>7, <1>9, <2>1, <2>2, <2>3 DEF InRange, BitLength, IsWhole
    <3> QED BY <1>3, <1>4, <2>1, <2>3, <3>1
  <2>4. CASE /\ PartOf(b) \in Float
             /\ ValueBits(a) <= Precision[PartOf(b)] /\ ValueBits(a) <= MaxExponent[PartOf(b)]
    <3> DEFINE p == PartOf(b)
    <3>1. /\ p \in Float /\ ValueBits(a) <= Precision[p] /\ ValueBits(a) <= MaxExponent[p]
          /\ Precision[p] \in Nat /\ MaxExponent[p] \in Nat /\ Precision[p] >= 8
          /\ ValueBits(a) \in Nat
      BY <1>6, <1>7, <1>9, <2>4
    <3> HIDE DEF p
    <3>2. x.kind = "fin" => Bits(x) <= Precision[p] /\ BitLength(x) - 1 <= MaxExponent[p]
      BY <1>1, <2>1, <2>2, <3>1 DEF IsWhole, Bits, BitLength
    <3> QED BY <1>2, <3>1, <3>2 DEF FitsFloat, p
  <2> QED BY <1>5, <1>9, <2>3, <2>4, SafeWidths
<1>10. CASE a \in Float
  <2>1. Round(x, a) = x
    BY <1>10 DEF HoldsNumber, Integer, Signed, Unsigned, Float
  <2>2. PartOf(b) \in Float /\ Round(x, PartOf(b)) = x
    BY <1>10, <2>1, SafeWidths, FloatsNest
  <2> QED BY <1>2, <2>2, RoundKeeps
<1> QED BY <1>8, <1>9, <1>10, DTypesAre DEF Integer, Signed, Unsigned, Float, Complex

\* So a safe conversion of an element that an f64 holds keeps it, or takes it
\* to C128 by its norm.
LEMMA SafeKeeps ==
  ASSUME NEW a \in DTypes, NEW b \in SAFE_CAST_TABLE[a],
         NEW v, IsElement(v), Holds(a, v), Holds("C128", v)
  PROVE  \/ CastScalar(v, a, b) = v
         \/ b = "C128" /\ a = "C64" /\ CastScalar(v, a, b) = Element(Norm(v), Zero)
<1>1. CASE a = b
  BY <1>1 DEF CastScalar
<1>2. CASE a # b /\ a \in Complex
  <2>1. a = "C64" /\ b = "C128"
    BY <1>2 DEF SAFE_CAST_TABLE, Complex
  <2>2. CastScalar(v, a, b) = FromF64Lossy(b, ToF64Lossy(a, v))
    BY <1>2 DEF CastScalar
  <2>3. ToF64Lossy(a, v) = Norm(v)
    BY <1>2 DEF ToF64Lossy
  <2>4. \A x : FromF64Lossy(b, x) = Element(x, Zero)
    BY <2>1 DEF FromF64Lossy, Integer, Signed, Unsigned, Float
  <2> QED BY <2>1, <2>2, <2>3, <2>4
<1>3. CASE a # b /\ a \notin Complex
  <2> DEFINE x == v.re
  <2>1. v = Element(x, Zero) /\ IsNumber(x) /\ HoldsNumber(a, x)
    <3>1. v.im = Zero
      BY <1>3 DEF Holds
    <3>2. HoldsNumber(a, v.re)
      BY <1>3 DEF Holds, Complex
    <3> QED BY <3>1, <3>2 DEF IsElement
  <2>2. Round(x, "F64") = x
    BY DEF Holds, HoldsNumber, Float, Integer, Signed, Unsigned
  <2> HIDE DEF x
  <2>3. HoldsNumber(PartOf(b), x)
    BY <1>3, <2>1, <2>2, SafeHolds
  <2>4. ToF64Lossy(a, v) = x
    BY <1>3, <2>2 DEF ToF64Lossy, x
  <2>5. CastScalar(v, a, b) = FromF64Lossy(b, x)
    BY <1>3, <2>4 DEF CastScalar
  <2>6. FromF64Lossy(b, x) = Element(x, Zero)
    <3>1. b \in DTypes /\ b # "Bool"
      BY <1>3, SafeTransitive, SafeWidths
    <3>2. CASE b \in Integer
      <4>1. ToInteger(x, b) = x
        <5>1. PartOf(b) = b
          BY <3>2 DEF PartOf, Integer, Signed, Unsigned
        <5>2. IsWhole(x) /\ InRange(x, b)
          BY <2>3, <3>2, <5>1, HoldsByClass
        <5> QED BY <2>1, <3>2, <5>2, IntegerEnds
      <4>2. b # "Bool" /\ b \notin Float /\ b # "C64" /\ b # "C128"
        BY <3>2 DEF Integer, Signed, Unsigned, Float
      <4> QED BY <3>2, <4>1, <4>2 DEF FromF64Lossy
    <3>3. CASE b \in Float
      BY <2>3, <3>3 DEF PartOf, HoldsNumber, FromF64Lossy, Integer, Signed, Unsigned, Float
    <3>4. CASE b = "C64"
      BY <2>3, <3>4 DEF PartOf, HoldsNumber, FromF64Lossy, Integer, Signed, Unsigned, Float
    <3>5. CASE b = "C128"
      BY <3>5 DEF FromF64Lossy, Integer, Signed, Unsigned, Float
    <3> QED BY <3>1, <3>2, <3>3, <3>4, <3>5, DTypesAre DEF Integer, Signed, Unsigned, Float
  <2> QED BY <2>1, <2>5, <2>6
<1> QED BY <1>1, <1>2, <1>3

---------------------------------------------------------------------------
\* The names of types.

\* A dlpack code is read as the type it was made for, but for Bool.
LEMMA CodesReturn ==
  ASSUME NEW d \in DTypes
  PROVE  FromDLPack(ToDLPack(d)) = IF d = "Bool" THEN "U8" ELSE d
<1> USE DTypesAre
<1>1. ASSUME NEW e \in DTypes \ {"Bool"}, NEW f \in DTypes \ {"Bool"},
             ToDLPack(e) = ToDLPack(f)
      PROVE  e = f
  <2>1. ToDLPack(e).code = ToDLPack(f).code /\ ToDLPack(e).bits = ToDLPack(f).bits
    BY <1>1
  <2> QED BY <2>1 DEF ToDLPack, BitWidth, Signed, Unsigned, Float, Complex
<1>2. ToDLPack("Bool") = ToDLPack("U8")
  BY DEF ToDLPack, BitWidth, Signed, Unsigned, Float, Complex
<1> DEFINE e == IF d = "Bool" THEN "U8" ELSE d
<1>3. e \in DTypes \ {"Bool"} /\ ToDLPack(e) = ToDLPack(d)
  BY <1>2
<1> HIDE DEF e
<1>4. FromDLPack(ToDLPack(d)) = e
  BY <1>1, <1>3 DEF FromDLPack
<1> QED BY <1>4 DEF e

\* A name that is not known to be wrong is read as the type it was made for.
LEMMA NamesReturn ==
  ASSUME NEW form \in NameKinds, NEW d \in DTypes, Renamed(form, d) \in DTypes,
         <<form, d>> \notin Misnamed
  PROVE  Renamed(form, d) = d \/ (d = "Bool" /\ Renamed(form, d) = "U8")
<1> USE DTypesAre
<1>1. CASE form = "dlpack"
  BY <1>1, CodesReturn DEF Renamed
<1>2. CASE form = "buffer"
  <2>1. d # "BF16"
    BY <1>2 DEF Misnamed
  <2>2. FromBufferFormat(BufferFormat(d)) = d
    BY <2>1 DEF FromBufferFormat, BufferFormat
  <2> QED BY <1>2, <2>2 DEF Renamed
<1>3. CASE form = "char"
  <2>1. d \notin Unsigned
    BY <1>3 DEF Misnamed
  <2>2. ParseChar(NumpyChar(d)) \in DTypes
    BY <1>3 DEF Renamed
  <2>3. ParseChar(NumpyChar(d)) = d
    <3>1. CASE d \in {"Bool", "I8", "I16", "I32"}
      BY <3>1 DEF ParseChar, NumpyChar, BufferFormat
    <3>2. CASE d \in {"I64", "C64", "C128"}
      BY <3>2 DEF ParseChar, NumpyChar
    <3>3. CASE d \in {"F16", "BF16", "F32", "F64"}
      <4>1. NumpyChar(d) \in {"e", "none", "f", "d"}
        BY <3>3 DEF NumpyChar, BufferFormat
      <4>2. ParseChar(NumpyChar(d)) = "none"
        BY <4>1 DEF ParseChar
      <4> QED BY <2>2, <4>2
    <3> QED BY <2>1, <3>1, <3>2, <3>3 DEF Unsigned
  <2> QED BY <1>3, <2>3 DEF Renamed
<1>4. CASE form = "arrow"
  BY <1>4 DEF Renamed, ToArrow
<1> QED BY <1>1, <1>2, <1>3, <1>4 DEF NameKinds

---------------------------------------------------------------------------
\* The element that is followed.

\* It is one of its type, before and now ...
Fits(x) == x.dtype \in DTypes /\ IsElement(x.val) /\ Holds(x.dtype, x.val)

\* ... and after safe conversions what SafeChainKeeps says.
ValueInv ==
  Done => /\ Fits(start)
          /\ Fits(item)
          /\ safe => /\ item.dtype \in SAFE_CAST_TABLE[start.dtype]
                     /\ Holds("C128", start.val) =>
                          \/ item.val = start.val
                          \/ /\ item.dtype = "C128"
                             /\ item.val = Element(Norm(start.val), Zero)

\* What else TypeOK says.
LoopTypes ==
  /\ folded \in 0..Operands
  /\ acc \in DTypes \cup {"none"}
  /\ safe \in BOOLEAN

\* The elements arrays hold at the start are of their type.
LEMMA SamplesFit ==
  ASSUME NEW d \in DTypes, NEW v \in Samples(d)
  PROVE  IsElement(v) /\ Holds(d, v)
<1>1. PICK x \in Numbers : v = Element(x, Zero) \/ v = Element(Zero, x)
  BY DEF Samples
<1>2. IsNumber(x)
  BY NumbersAssumption
<1>3. IsNumber(Zero)
  BY <1>2, Elements
<1>4. IsElement(v)
  BY <1>1, <1>2, <1>3, Elements
<1> QED BY <1>4 DEF Samples

\* A type and an element together.
LEMMA TypedParts ==
  ASSUME NEW d, NEW v
  PROVE  Typed(d, v).dtype = d /\ Typed(d, v).val = v
BY DEF Typed

\* Each type is one it may be safely cast to.
LEMMA SafeReflexive ==
  ASSUME NEW a \in DTypes
  PROVE  a \in SAFE_CAST_TABLE[a]
BY DTypesAre DEF SAFE_CAST_TABLE, Signed, Unsigned, Float, Complex

\* A step from d to e with the value w, from an element that fits, keeps what
\* is said of safe conversions.
LEMMA SafeStep ==
  ASSUME NEW s, NEW d \in DTypes, NEW v, NEW e \in SAFE_CAST_TABLE[d], NEW w,
         Fits(s), IsElement(v), Holds(d, v), d \in SAFE_CAST_TABLE[s.dtype],
         Holds("C128", s.val) =>
           v = s.val \/ (d = "C128" /\ v = Element(Norm(s.val), Zero)),
         \/ w = CastScalar(v, d, e)
         \/ w = v /\ (d = "C128" => e = "C128")
  PROVE  /\ e \in SAFE_CAST_TABLE[s.dtype]
         /\ Holds("C128", s.val) =>
              w = s.val \/ (e = "C128" /\ w = Element(Norm(s.val), Zero))
<1>1. e \in SAFE_CAST_TABLE[s.dtype]
  BY SafeTransitive DEF Fits
<1>2. ASSUME Holds("C128", s.val)
      PROVE  w = s.val \/ (e = "C128" /\ w = Element(Norm(s.val), Zero))
  <2>1. CASE v = s.val
    BY <1>2, <2>1, SafeKeeps
  <2>2. CASE d = "C128" /\ v = Element(Norm(s.val), Zero)
    <3>1. e = "C128"
      BY <2>2 DEF SAFE_CAST_TABLE
    <3>2. w = v
      BY <2>2, <3>1 DEF CastScalar
    <3> QED BY <2>2, <3>1, <3>2
  <2> QED BY <1>2, <2>1, <2>2
<1> QED BY <1>1, <1>2

\* What is said of elements holds before there is one,
LEMMA InitFits == Init => LoopTypes /\ ValueInv
<1> SUFFICES ASSUME Init PROVE LoopTypes /\ ValueInv
  OBVIOUS
<1>1. ~Done
  BY DEF Init, Done
<1>2. folded = 1 /\ dtypes \in [1..Operands -> DTypes] /\ 1 \in 1..Operands /\ safe = TRUE
      /\ acc = dtypes[1]
  BY OperandsAssumption DEF Init
<1>3. acc \in DTypes /\ folded \in 0..Operands
  BY <1>2
<1> QED BY <1>1, <1>2, <1>3 DEF LoopTypes, ValueInv

\* and every step keeps it: a turn of the loop, Align, Cast, and Exchange.
LEMMA NextFits == IInv /\ LoopTypes /\ ValueInv /\ [Next]_vars => LoopTypes' /\ ValueInv'
<1> SUFFICES ASSUME IInv, LoopTypes, ValueInv, [Next]_vars PROVE LoopTypes' /\ ValueInv'
  OBVIOUS
<1>1. CASE Fold
  <2>1. ~Done' /\ safe' = safe
    BY <1>1 DEF Fold, Done
  <2>2. IInv'
    BY <1>1, FoldHolds
  <2>3. acc' \in DTypes /\ folded' \in 0..Operands
    BY <2>1, <2>2, OperandsAssumption DEF IInv, FoldOK
  <2> QED BY <2>1, <2>3 DEF LoopTypes, ValueInv
<1>2. ASSUME NEW i \in 1..Operands, Align(i) PROVE LoopTypes' /\ ValueInv'
  <2> DEFINE d == dtypes[i]
  <2>1. d \in DTypes /\ acc \in DTypes /\ acc \in SAFE_CAST_TABLE[d]
    BY <1>2 DEF Align, IInv, Done, FoldOK, CanCast
  <2> HIDE DEF d
  <2>2. PICK v \in Samples(d) : start' = Typed(d, v) /\ item' = Typed(acc, CastScalar(v, d, acc))
    BY <1>2 DEF Align, d
  <2>3. IsElement(v) /\ Holds(d, v)
    BY <2>1, SamplesFit
  <2>4. start'.dtype = d /\ start'.val = v /\ item'.dtype = acc
        /\ item'.val = CastScalar(v, d, acc)
    BY <2>2, TypedParts
  <2>5. Fits(start') /\ Fits(item')
    BY <2>1, <2>3, <2>4, CastEnds DEF Fits
  <2>6. /\ item'.dtype \in SAFE_CAST_TABLE[start'.dtype]
        /\ Holds("C128", start'.val) =>
             \/ item'.val = start'.val
             \/ item'.dtype = "C128" /\ item'.val = Element(Norm(start'.val), Zero)
    BY <2>1, <2>3, <2>4, SafeKeeps
  <2>7. ValueInv'
    BY <2>5, <2>6 DEF ValueInv, Fits
  <2>8. LoopTypes'
    BY <1>2, OperandsAssumption DEF LoopTypes, Align
  <2> QED BY <2>7, <2>8
<1>3. ASSUME NEW d \in DTypes, NEW mode \in CastModes, Cast(d, mode)
      PROVE  LoopTypes' /\ ValueInv'
  <2>1. Done /\ Fits(start) /\ Fits(item)
    BY <1>3 DEF Cast, Done, ValueInv
  <2>2. start' = start /\ item'.dtype = d /\ item'.val = CastScalar(item.val, item.dtype, d)
    BY <1>3, TypedParts DEF Cast
  <2>3. Fits(item')
    BY <2>1, <2>2, CastEnds DEF Fits
  <2>4. ASSUME safe'
        PROVE  /\ item'.dtype \in SAFE_CAST_TABLE[start'.dtype]
               /\ Holds("C128", start'.val) =>
                    \/ item'.val = start'.val
                    \/ item'.dtype = "C128" /\ item'.val = Element(Norm(start'.val), Zero)
    <3>1. safe /\ d \in SAFE_CAST_TABLE[item.dtype]
      BY <1>3, <2>4 DEF Cast, CanCast
    <3>2. /\ item.dtype \in SAFE_CAST_TABLE[start.dtype]
          /\ Holds("C128", start.val) =>
               item.val = start.val \/ (item.dtype = "C128" /\ item.val = Element(Norm(start.val), Zero))
      BY <2>1, <3>1 DEF ValueInv
    <3> QED BY <2>1, <2>2, <3>1, <3>2, SafeStep DEF Fits
  <2>5. ValueInv'
    BY <2>1, <2>2, <2>3, <2>4 DEF ValueInv, Fits
  <2>6. LoopTypes'
    BY <1>3 DEF LoopTypes, Cast
  <2> QED BY <2>5, <2>6
<1>4. ASSUME NEW form \in NameKinds, Exchange(form) PROVE LoopTypes' /\ ValueInv'
  <2> DEFINE d == item.dtype
             e == Renamed(form, d)
  <2>1. Done /\ Fits(start) /\ Fits(item) /\ d \in DTypes /\ e \in DTypes
    BY <1>4 DEF Exchange, Done, ValueInv, Fits
  <2>2. PICK w \in Reread(item.val, d, e) : item' = Typed(e, w)
    BY <1>4 DEF Exchange
  <2>a. start' = start /\ safe' = (safe /\ <<form, d>> \notin Misnamed)
    BY <1>4 DEF Exchange
  <2> HIDE DEF e
  <2>3. item'.dtype = e /\ item'.val = w
    BY <2>2, TypedParts
  <2>4. Fits(item')
    <3>1. CASE w = item.val /\ (d = e \/ Holds(e, item.val))
      BY <2>1, <2>3, <3>1 DEF Fits
    <3>2. CASE w \in Samples(e)
      BY <2>1, <2>3, <3>2, SamplesFit DEF Fits
    <3> QED BY <2>2, <3>1, <3>2 DEF Reread
  <2>5. ASSUME safe'
        PROVE  /\ item'.dtype \in SAFE_CAST_TABLE[start'.dtype]
               /\ Holds("C128", start'.val) =>
                    \/ item'.val = start'.val
                    \/ item'.dtype = "C128" /\ item'.val = Element(Norm(start'.val), Zero)
    <3>1. safe /\ (e = d \/ (d = "Bool" /\ e = "U8"))
      BY <2>1, <2>5, <2>a, NamesReturn DEF e
    <3>2. /\ d \in SAFE_CAST_TABLE[start.dtype]
          /\ Holds("C128", start.val) =>
               item.val = start.val \/ (d = "C128" /\ item.val = Element(Norm(start.val), Zero))
      BY <2>1, <3>1 DEF ValueInv
    <3>3. e \in SAFE_CAST_TABLE[d]
      <4>1. "U8" \in SAFE_CAST_TABLE["Bool"]
        BY DTypesAre DEF SAFE_CAST_TABLE
      <4> QED BY <2>1, <3>1, <4>1, SafeReflexive
    <3>4. w = item.val
      <4>1. CASE e = d
        BY <2>2, <4>1 DEF Reread
      <4>2. CASE d = "Bool" /\ e = "U8"
        <5>1. Holds("Bool", item.val)
          BY <2>1, <4>2 DEF Fits
        <5>2. item.val.im = Zero /\ item.val.re \in {Zero, One}
          BY <5>1, HoldsByClass DEF Holds, Complex
        <5>3. HoldsNumber("U8", Zero) /\ HoldsNumber("U8", One)
          BY HoldsByClass DEF Integer, Unsigned, Signed, IsWhole, InRange, BitLength, ValueBits,
                              BitWidth, Zero, One, Power, Number
        <5>4. Holds("U8", item.val)
          BY <5>2, <5>3 DEF Holds, Complex
        <5> QED BY <2>2, <4>2, <5>4 DEF Reread, Integer, Unsigned
      <4> QED BY <3>1, <4>1, <4>2
    <3>5. d = "C128" => e = "C128"
      BY <3>1
    <3> QED BY <2>1, <2>3, <2>a, <3>2, <3>3, <3>4, <3>5, SafeStep DEF Fits
  <2>6. ValueInv'
    BY <2>1, <2>3, <2>4, <2>5, <2>a DEF ValueInv, Fits
  <2>7. LoopTypes'
    BY <1>4 DEF LoopTypes, Exchange
  <2> QED BY <2>6, <2>7
<1>5. CASE UNCHANGED vars
  BY <1>5 DEF vars, LoopTypes, ValueInv, Done, Fits
<1> QED BY <1>1, <1>2, <1>3, <1>4, <1>5 DEF Next

\* Both parts of the invariant, on common types and on elements, always hold.
LEMMA ValuesInvariant == Spec => [](IInv /\ LoopTypes /\ ValueInv)
BY InitHolds, NextHolds, InitFits, NextFits, PTL DEF Spec

\* Whatever conversions an element goes through, by whatever mode, and whatever
\* it is exported as and imported again: its type can hold it.
THEOREM TypeCorrect == Spec => []TypeOK
<1>1. LoopTypes /\ ValueInv => TypeOK
  BY DEF LoopTypes, ValueInv, Fits, TypeOK
<1> QED BY <1>1, ValuesInvariant, PTL

\* Chains of safe conversions of any length, for all numbers an f64 holds, keep
\* the number, but for C64 to C128, which takes its norm.
THEOREM SafeChains == Spec => []SafeChainKeeps
<1>1. ValueInv => SafeChainKeeps
  BY DEF ValueInv, SafeChainKeeps, CanCast
<1> QED BY <1>1, ValuesInvariant, PTL

---------------------------------------------------------------------------
\* minimum_scalar_type.

\* One of the types of a class that hold a number is the smallest.
LEMMA SmallestOf ==
  ASSUME NEW C \in {Signed, Unsigned}, NEW P \in SUBSET C, P # {}
  PROVE  \E d \in P : \A e \in P : BitWidth(d) <= BitWidth(e)
<1> USE DEF Signed, Unsigned, BitWidth
<1>1. CASE C = Signed
  <2>1. CASE "I8" \in P
    BY <1>1, <2>1
  <2>2. CASE "I8" \notin P /\ "I16" \in P
    BY <1>1, <2>2
  <2>3. CASE "I8" \notin P /\ "I16" \notin P /\ "I32" \in P
    BY <1>1, <2>3
  <2>4. CASE "I8" \notin P /\ "I16" \notin P /\ "I32" \notin P
    BY <1>1, <2>4
  <2> QED BY <2>1, <2>2, <2>3, <2>4
<1>2. CASE C = Unsigned
  <2>1. CASE "U8" \in P
    BY <1>2, <2>1
  <2>2. CASE "U8" \notin P /\ "U16" \in P
    BY <1>2, <2>2
  <2>3. CASE "U8" \notin P /\ "U16" \notin P /\ "U32" \in P
    BY <1>2, <2>3
  <2>4. CASE "U8" \notin P /\ "U16" \notin P /\ "U32" \notin P
    BY <1>2, <2>4
  <2> QED BY <2>1, <2>2, <2>3, <2>4
<1> QED BY <1>1, <1>2

\* What minimum_scalar_type chooses in a class holds the number and is least.
LEMMA SmallestHolds ==
  ASSUME NEW C \in {Signed, Unsigned}, NEW b \in C, NEW x, IsWhole(x), InRange(x, b),
         NEW d, d = CHOOSE f \in C : /\ InRange(x, f)
                                     /\ \A e \in C : InRange(x, e) => BitWidth(f) <= BitWidth(e)
  PROVE  /\ d \in C /\ HoldsNumber(d, x)
         /\ \A e \in C : HoldsNumber(e, x) => BitWidth(d) <= BitWidth(e)
<1> DEFINE P == {f \in C : InRange(x, f)}
<1>1. P \in SUBSET C /\ P # {}
  OBVIOUS
<1>2. \E f \in P : \A e \in P : BitWidth(f) <= BitWidth(e)
  BY <1>1, SmallestOf
<1>3. d \in C /\ InRange(x, d) /\ \A e \in C : InRange(x, e) => BitWidth(d) <= BitWidth(e)
  BY <1>2
<1>4. C \subseteq Integer
  BY DEF Integer
<1> QED BY <1>3, <1>4, HoldsByClass

\* For every number an f64 holds, but 2^64 and NaN.
LEMMA MinimumOf ==
  ASSUME NEW x, IsNumber(x), Round(x, "F64") = x, x # Power(FALSE, 64), x # NaN,
         NEW d, d = MinimumScalarType(x),
         NEW class, class = CASE d \in Signed -> Signed [] d \in Unsigned -> Unsigned
                              [] OTHER -> {"F32", "F64"}
  PROVE  /\ HoldsNumber(d, x)
         /\ \A e \in class : HoldsNumber(e, x) => BitWidth(d) <= BitWidth(e)
<1>1. x.neg \in BOOLEAN
  BY NumberParts
<1>2. CASE IsWhole(x) /\ ~x.neg /\ InRange(x, "U64")
  <2>1. ToInteger(x, "U64") = x
    BY <1>2, IntegerEnds DEF Integer, Unsigned
  <2>2. d = CHOOSE f \in Unsigned :
              InRange(x, f) /\ \A e \in Unsigned : InRange(x, e) => BitWidth(f) <= BitWidth(e)
    BY <1>2, <2>1 DEF MinimumScalarType
  <2>3. "U64" \in Unsigned
    BY DEF Unsigned
  <2>4. /\ d \in Unsigned /\ HoldsNumber(d, x)
        /\ \A e \in Unsigned : HoldsNumber(e, x) => BitWidth(d) <= BitWidth(e)
    BY <1>2, <2>2, <2>3, SmallestHolds
  <2>5. class = Unsigned
    BY <2>4 DEF Signed, Unsigned
  <2> QED BY <2>4, <2>5
<1>3. CASE IsWhole(x) /\ x.neg /\ InRange(x, "I64")
  <2>2. d = CHOOSE f \in Signed :
              InRange(x, f) /\ \A e \in Signed : InRange(x, e) => BitWidth(f) <= BitWidth(e)
    BY <1>3 DEF MinimumScalarType
  <2>3. "I64" \in Signed
    BY DEF Signed
  <2>4. /\ d \in Signed /\ HoldsNumber(d, x)
        /\ \A e \in Signed : HoldsNumber(e, x) => BitWidth(d) <= BitWidth(e)
    BY <1>3, <2>2, <2>3, SmallestHolds
  <2>5. class = Signed
    BY <2>4 DEF Signed, Unsigned
  <2> QED BY <2>4, <2>5
<1>4. CASE /\ ~(IsWhole(x) /\ ~x.neg /\ InRange(x, "U64"))
           /\ ~(IsWhole(x) /\ x.neg /\ InRange(x, "I64"))
  <2>1. d = IF Round(x, "F32") = x THEN "F32" ELSE "F64"
    BY <1>4 DEF MinimumScalarType
  <2>2. class = {"F32", "F64"}
    BY <2>1 DEF Signed, Unsigned
  <2>3. /\ HoldsNumber("F32", x) <=> Round(x, "F32") = x
        /\ HoldsNumber("F64", x)
    BY HoldsByClass DEF Float
  <2>4. BitWidth("F32") = 32 /\ BitWidth("F64") = 64
    BY DEF BitWidth
  <2> QED BY <2>1, <2>2, <2>3, <2>4
<1> QED BY <1>1, <1>2, <1>3, <1>4

\* minimum_scalar_type of whatever an element becomes on its way through f64
\* holds it, and no smaller type of its class does, but for the two exceptions.
THEOREM MinimumLeast == Spec => []MinimumIsLeast
<1>1. ValueInv => MinimumIsLeast
  <2> SUFFICES ASSUME ValueInv, Done PROVE MinimumIsLeast
    BY DEF MinimumIsLeast
  <2> DEFINE x == ToF64Lossy(item.dtype, item.val)
  <2>1. IsNumber(x) /\ Round(x, "F64") = x
    BY ToF64Ends DEF ValueInv, Fits
  <2> HIDE DEF x
  <2>2. x \notin {Power(FALSE, 64), NaN} =>
          LET d == MinimumScalarType(x)
              class == CASE d \in Signed -> Signed [] d \in Unsigned -> Unsigned
                         [] OTHER -> {"F32", "F64"}
          IN /\ HoldsNumber(d, x)
             /\ \A e \in class : HoldsNumber(e, x) => BitWidth(d) <= BitWidth(e)
    BY <2>1, MinimumOf, Zenon
  <2> QED BY <2>2 DEF MinimumIsLeast, x
<1> QED BY <1>1, ValuesInvariant, PTL

---------------------------------------------------------------------------
\* Pieces in a row.

IsPiece(p) ==
  /\ DOMAIN p = {"lo", "hi", "at", "acc", "path"}
  /\ p.lo \in Nat /\ p.hi \in Nat /\ p.at \in Nat
  /\ p.lo <= p.at /\ p.at <= p.hi

\* The pieces are those of 0..n, side by side.
Tiled(ps, n) ==
  /\ \E S : ps \in Seq(S)
  /\ Len(ps) >= 1
  /\ ps[1].lo = 0 /\ ps[Len(ps)].hi = n
  /\ \A k \in 1..Len(ps) : IsPiece(ps[k]) /\ ps[k].hi <= n
  /\ \A k \in 1..(Len(ps) - 1) : ps[k].hi = ps[k + 1].lo

\* The elements of a concatenation.
LEMMA ConcatParts ==
  ASSUME NEW T, NEW v \in Seq(T), NEW w \in Seq(T)
  PROVE  /\ v \o w \in Seq(T) /\ Len(v \o w) = Len(v) + Len(w)
         /\ \A j \in 1..(Len(v) + Len(w)) :
              (v \o w)[j] = IF j <= Len(v) THEN v[j] ELSE w[j - Len(v)]
OBVIOUS

\* One element of a sequence replaced by two, and two neighbours by one.
TwoFor(s, k, a, b) == SubSeq(s, 1, k - 1) \o <<a, b>> \o SubSeq(s, k + 1, Len(s))
OneFor(s, k, a) == SubSeq(s, 1, k - 1) \o <<a>> \o SubSeq(s, k + 2, Len(s))

\* What is where after that.
LEMMA SpliceTwo ==
  ASSUME NEW S, NEW s \in Seq(S), NEW k \in 1..Len(s), NEW a, NEW b,
         NEW t, t = TwoFor(s, k, a, b)
  PROVE  /\ \E T : t \in Seq(T)
         /\ Len(t) = Len(s) + 1
         /\ \A j \in 1..(Len(s) + 1) :
              t[j] = IF j < k THEN s[j] ELSE IF j = k THEN a ELSE IF j = k + 1 THEN b
                     ELSE s[j - 1]
<1> DEFINE T == S \cup {a, b}
           u == SubSeq(s, 1, k - 1)
           w == SubSeq(s, k + 1, Len(s))
<1>1. s \in Seq(T) /\ Len(s) \in Nat
  OBVIOUS
<1>2. u \in Seq(T) /\ Len(u) = k - 1 /\ \A j \in 1..(k - 1) : u[j] = s[j]
  BY <1>1
<1>3. w \in Seq(T) /\ Len(w) = Len(s) - k /\ \A j \in 1..(Len(s) - k) : w[j] = s[k + j]
  BY <1>1
<1>4. <<a, b>> \in Seq(T) /\ Len(<<a, b>>) = 2 /\ <<a, b>>[1] = a /\ <<a, b>>[2] = b
  OBVIOUS
<1> HIDE DEF T, u, w
<1> DEFINE m == <<a, b>>
<1> HIDE DEF m
<1>5. t = (u \o m) \o w
  BY DEF u, w, m, TwoFor
<1>6. /\ u \o m \in Seq(T) /\ Len(u \o m) = k + 1
      /\ \A j \in 1..(k + 1) : (u \o m)[j] = IF j < k THEN s[j] ELSE IF j = k THEN a ELSE b
  BY <1>1, <1>2, <1>4 DEF m
<1> DEFINE v == u \o m
<1>a. v \in Seq(T) /\ Len(v) = k + 1 /\ t = v \o w
  BY <1>5, <1>6
<1> HIDE DEF v
<1>7. t \in Seq(T) /\ Len(t) = Len(v) + Len(w)
  BY ONLY <1>a, <1>3, ConcatParts
<1>8. \A j \in 1..(Len(v) + Len(w)) : t[j] = IF j <= Len(v) THEN v[j] ELSE w[j - Len(v)]
  BY ONLY <1>a, <1>3, ConcatParts
<1>9. \A j \in 1..(Len(s) + 1) : t[j] = IF j <= k + 1 THEN v[j] ELSE w[j - (k + 1)]
  BY ONLY <1>1, <1>3, <1>a, <1>8, k \in 1..Len(s)
<1>10. \A j \in 1..(k + 1) : v[j] = IF j < k THEN s[j] ELSE IF j = k THEN a ELSE b
  BY <1>6 DEF v
<1>11. ASSUME NEW j \in 1..(Len(s) + 1), j > k + 1
       PROVE  t[j] = s[j - 1]
  <2>1. j - (k + 1) \in 1..(Len(s) - k) /\ k + (j - (k + 1)) = j - 1
    BY ONLY <1>1, <1>11, k \in 1..Len(s)
  <2>2. t[j] = w[j - (k + 1)]
    BY ONLY <1>9, <1>1, <1>11, k \in 1..Len(s)
  <2> QED BY ONLY <2>1, <2>2, <1>3
<1>12. ASSUME NEW j \in 1..(Len(s) + 1), j <= k + 1
       PROVE  t[j] = IF j < k THEN s[j] ELSE IF j = k THEN a ELSE b
  BY ONLY <1>1, <1>9, <1>10, <1>12, k \in 1..Len(s)
<1>13. Len(t) = Len(s) + 1
  BY ONLY <1>1, <1>3, <1>7, <1>a, k \in 1..Len(s)
<1>14. \A j \in 1..(Len(s) + 1) :
         t[j] = IF j < k THEN s[j] ELSE IF j = k THEN a ELSE IF j = k + 1 THEN b
                ELSE s[j - 1]
  BY ONLY <1>1, <1>11, <1>12, k \in 1..Len(s)
<1> QED BY ONLY <1>7, <1>13, <1>14

\* And after this.
LEMMA SpliceOne ==
  ASSUME NEW S, NEW s \in Seq(S), NEW k \in 1..(Len(s) - 1), NEW a,
         NEW t, t = OneFor(s, k, a)
  PROVE  /\ \E T : t \in Seq(T)
         /\ Len(t) = Len(s) - 1
         /\ \A j \in 1..(Len(s) - 1) :
              t[j] = IF j < k THEN s[j] ELSE IF j = k THEN a ELSE s[j + 1]
<1> DEFINE T == S \cup {a}
           u == SubSeq(s, 1, k - 1)
           w == SubSeq(s, k + 2, Len(s))
<1>1. s \in Seq(T) /\ Len(s) \in Nat
  OBVIOUS
<1>2. u \in Seq(T) /\ Len(u) = k - 1 /\ \A j \in 1..(k - 1) : u[j] = s[j]
  BY <1>1
<1>3. w \in Seq(T) /\ Len(w) = Len(s) - k - 1 /\ \A j \in 1..(Len(s) - k - 1) : w[j] = s[k + 1 + j]
  BY <1>1
<1>4. <<a>> \in Seq(T) /\ Len(<<a>>) = 1 /\ <<a>>[1] = a
  OBVIOUS
<1> HIDE DEF T, u, w
<1> DEFINE m == <<a>>
<1> HIDE DEF m
<1>5. t = (u \o m) \o w
  BY DEF u, w, m, OneFor
<1>6. /\ u \o m \in Seq(T) /\ Len(u \o m) = k
      /\ \A j \in 1..k : (u \o m)[j] = IF j < k THEN s[j] ELSE a
  BY <1>1, <1>2, <1>4 DEF m
<1> DEFINE v == u \o m
<1>a. v \in Seq(T) /\ Len(v) = k /\ t = v \o w
  BY <1>5, <1>6
<1> HIDE DEF v
<1>7. t \in Seq(T) /\ Len(t) = Len(v) + Len(w)
  BY ONLY <1>a, <1>3, ConcatParts
<1>8. \A j \in 1..(Len(v) + Len(w)) : t[j] = IF j <= Len(v) THEN v[j] ELSE w[j - Len(v)]
  BY ONLY <1>a, <1>3, ConcatParts
<1>9. \A j \in 1..(Len(s) - 1) : t[j] = IF j <= k THEN v[j] ELSE w[j - k]
  BY ONLY <1>1, <1>3, <1>a, <1>8, k \in 1..(Len(s) - 1)
<1>10. \A j \in 1..k : v[j] = IF j < k THEN s[j] ELSE a
  BY <1>6 DEF v
<1> QED BY ONLY <1>1, <1>3, <1>7, <1>9, <1>10, <1>a, k \in 1..(Len(s) - 1)

---------------------------------------------------------------------------
\* What a piece has combined.

Ops == Folds \cup Selections \cup Tests

\* What the types of the variables are while an operation runs.
Types ==
  /\ op \in Ops
  /\ elems \in Seq(Int \cup {Unordered})
  /\ mean = Nothing \/ (op = "var" /\ mean = Some(InOrder))

\* A fold of the second kind joins these.
Item(i) == IF mean = Nothing THEN i ELSE [elem |-> i, mean |-> mean[1]]

\* Element j is the one to take if it and i are all there are.
Better(x, y) == IF op \in {"min", "argmin"} THEN x < y ELSE y < x
Late == op = "argmax" /\ kind = "bool"
Beats(j, i) ==
  \/ i = j
  \/ Better(At(j), At(i))
  \/ At(j) = At(i) /\ IF Late THEN i < j ELSE j < i

\* One of the elements from lo to at - 1 decides a test.
Found(lo, at) == \E j \in lo..(at - 1) : (At(j) # 0) = (op = "any")

\* The result of reduce, apart from what init adds: each element once, in order.
ReducedTo(got, lo, at) ==
  /\ got \in Seq(Nat)
  /\ \A j \in 1..Len(got) : got[j] = 0 \/ got[j] \in (lo + 1)..at
  /\ \A i \in (lo + 1)..at : \E j \in 1..Len(got) : got[j] = i
  /\ \A i, j \in 1..Len(got) : i < j /\ got[i] # 0 /\ got[j] # 0 => got[i] < got[j]

SelectedOf(got, lo, at) ==
  \/ lo = at /\ got = Nothing
  \/ \E j \in lo..(at - 1) :
       /\ got = Some([at |-> j, val |-> At(j)])
       /\ Comparable => \A i \in lo..(at - 1) : Beats(j, i)

\* got is what the elements from lo to at - 1 combine to.
Right(got, lo, at) ==
  /\ op \in Folds \ {"reduce"} => got = [i \in 1..(at - lo) |-> Item(lo + i)]
  /\ op = "reduce" => ReducedTo(got, lo, at)
  /\ op \in {"any", "all"} => got \in BOOLEAN /\ (got = (op = "any") => Found(lo, at))
  /\ op = "count" => got = Cardinality({j \in lo..(at - 1) : At(j) # 0})
  /\ op \in Selections => SelectedOf(got, lo, at)

OpSets == /\ Ops = {"reduce", "sum", "mean", "var", "min", "max", "argmin", "argmax",
                    "any", "all", "count"}
          /\ Folds = {"reduce", "sum", "mean", "var"}
          /\ Selections = {"min", "max", "argmin", "argmax"}

\* A piece of which nothing is done.
LEMMA RightIdentity ==
  ASSUME Types, NEW lo \in Nat
  PROVE  Right(Identity(op), lo, lo)
<1>1. OpSets
  BY DEF OpSets, Ops, Folds, Selections, Tests
<1>2. CASE op \in {"sum", "mean", "var"}
  <2>1. Identity(op) = <<>>
    BY <1>2 DEF Identity, Nothing
  <2>2. 1..(lo - lo) = {}
    OBVIOUS
  <2>3. [i \in 1..(lo - lo) |-> Item(lo + i)] = <<>>
    BY <2>2
  <2> QED BY <1>2, <2>1, <2>3 DEF Right, Selections
<1>3. CASE op = "reduce"
  <2>1. Identity(op) = <<0>>
    BY <1>3 DEF Identity
  <2>2. ReducedTo(<<0>>, lo, lo)
    BY DEF ReducedTo
  <2> QED BY <1>3, <2>1, <2>2 DEF Right, Selections
<1>4. CASE op \in {"any", "all"}
  <2>1. Identity(op) = (op = "all")
    BY <1>4 DEF Identity
  <2> QED BY <1>4, <2>1 DEF Right, Selections, Folds
<1>5. CASE op = "count"
  <2>1. Identity(op) = 0
    BY <1>5 DEF Identity
  <2>2. {j \in lo..(lo - 1) : At(j) # 0} = {}
    OBVIOUS
  <2> QED BY <1>5, <2>1, <2>2, FS_EmptySet DEF Right, Selections, Folds
<1>6. CASE op \in Selections
  <2>1. Identity(op) = Nothing
    BY <1>6 DEF Identity, Selections
  <2>2. op \notin Folds \cup Tests
    BY <1>6 DEF Selections, Folds, Tests
  <2> QED BY <2>1, <2>2 DEF Right, SelectedOf, Tests, Folds
<1> QED BY <1>1, <1>2, <1>3, <1>4, <1>5, <1>6 DEF OpSets, Types

\* One element.
LEMMA RightOne ==
  ASSUME Types, NEW i \in 1..Len(elems)
  PROVE  Right(Contribution(i), i - 1, i)
<1>1. OpSets
  BY DEF OpSets, Ops, Folds, Selections, Tests
<1>2. (i - 1)..(i - 1) = {i - 1} /\ At(i - 1) = elems[i] /\ i - (i - 1) = 1
  BY DEF At
<1>3. CASE op \in {"sum", "mean", "var"}
  <2>0. op \in Folds /\ op \notin {"any", "all"} /\ op # "count" /\ op \notin Selections
    BY <1>3 DEF Folds, Selections
  <2>1. Contribution(i) = <<Item(i)>>
    <3>1. CASE mean = Nothing
      BY <2>0, <3>1 DEF Contribution, Item
    <3>2. CASE mean # Nothing
      <4>1. op = "var"
        BY <3>2 DEF Types
      <4> QED BY <2>0, <3>2, <4>1 DEF Contribution, Item
    <3> QED BY <3>1, <3>2
  <2>2. [k \in 1..(i - (i - 1)) |-> Item((i - 1) + k)] = <<Item(i)>>
    <3>1. \A k \in 1..1 : Item((i - 1) + k) = Item(i)
      <4>1. (i - 1) + 1 = i
        OBVIOUS
      <4> QED BY <4>1
    <3>2. [k \in 1..1 |-> Item((i - 1) + k)] = [k \in 1..1 |-> Item(i)]
      BY <3>1
    <3>3. [k \in 1..1 |-> Item(i)] = <<Item(i)>>
      OBVIOUS
    <3> QED BY <1>2, <3>2, <3>3
  <2> QED BY <1>3, <2>1, <2>2 DEF Right, Selections
<1>4. CASE op = "reduce"
  <2>1. Contribution(i) = <<i>>
    <3>1. mean = Nothing /\ op \in Folds /\ op \notin {"any", "all"} /\ op # "count"
          /\ op \notin Selections
      BY <1>4 DEF Types, Folds, Selections
    <3> QED BY <1>4, <3>1 DEF Contribution
  <2>2. ReducedTo(<<i>>, i - 1, i)
    BY DEF ReducedTo
  <2> QED BY <1>4, <2>1, <2>2 DEF Right, Selections
<1>5. CASE op \in {"any", "all"}
  <2>1. Contribution(i) = (elems[i] # 0)
    <3>1. op \notin Folds /\ op # "var" /\ op # "count" /\ op \notin Selections
      BY <1>5 DEF Folds, Selections
    <3> QED BY <1>5, <3>1 DEF Contribution
  <2>2. Found(i - 1, i) <=> (elems[i] # 0) = (op = "any")
    BY <1>2 DEF Found
  <2> QED BY <1>5, <2>1, <2>2 DEF Right, Selections, Folds
<1>6. CASE op = "count"
  <2>1. Contribution(i) = IF elems[i] # 0 THEN 1 ELSE 0
    <3>1. op \notin Folds /\ op # "var" /\ op \notin {"any", "all"} /\ op \notin Selections
      BY <1>6 DEF Folds, Selections
    <3> QED BY <1>6, <3>1 DEF Contribution
  <2>2. {j \in (i - 1)..(i - 1) : At(j) # 0} = IF elems[i] # 0 THEN {i - 1} ELSE {}
    BY <1>2
  <2> QED BY <1>6, <2>1, <2>2, FS_EmptySet, FS_Singleton DEF Right, Selections, Folds
<1>7. CASE op \in Selections
  <2>1. op \notin Folds \cup Tests
    BY <1>7 DEF Selections, Folds, Tests
  <2>2. Contribution(i) = Some([at |-> i - 1, val |-> elems[i]])
    BY <1>7, <2>1 DEF Contribution, Tests, Folds
  <2>3. SelectedOf(Contribution(i), i - 1, i)
    BY <1>2, <2>2 DEF SelectedOf, Beats
  <2> QED BY <2>1, <2>3 DEF Right, Tests, Folds
<1> QED BY <1>1, <1>3, <1>4, <1>5, <1>6, <1>7 DEF OpSets, Types

\* A function on 1..n is a sequence of length n.
LEMMA RowIs ==
  ASSUME NEW n \in Nat, NEW S, NEW f \in [1..n -> S]
  PROVE  f \in Seq(S) /\ Len(f) = n
OBVIOUS

\* Two runs of elements side by side.
LEMMA JoinFolds ==
  ASSUME NEW lo \in Nat, NEW mid \in Nat, NEW hi \in Nat, lo <= mid, mid <= hi,
         NEW x, x = [i \in 1..(mid - lo) |-> Item(lo + i)],
         NEW y, y = [i \in 1..(hi - mid) |-> Item(mid + i)]
  PROVE  x \o y = [i \in 1..(hi - lo) |-> Item(lo + i)]
<1> DEFINE T == {Item(i) : i \in Nat}
           z == [i \in 1..(hi - lo) |-> Item(lo + i)]
<1>0. mid - lo \in Nat /\ hi - mid \in Nat
  OBVIOUS
<1>1. x \in Seq(T) /\ Len(x) = mid - lo
  <2>1. \A i \in 1..(mid - lo) : lo + i \in Nat
    OBVIOUS
  <2>2. \A i \in 1..(mid - lo) : Item(lo + i) \in T
    BY <2>1
  <2>3. x \in [1..(mid - lo) -> T]
    BY <2>2
  <2> QED BY <1>0, <2>3, RowIs
<1>2. y \in Seq(T) /\ Len(y) = hi - mid
  <2>1. \A i \in 1..(hi - mid) : mid + i \in Nat
    OBVIOUS
  <2>2. \A i \in 1..(hi - mid) : Item(mid + i) \in T
    BY <2>1
  <2>3. y \in [1..(hi - mid) -> T]
    BY <2>2
  <2> QED BY <1>0, <2>3, RowIs
<1> HIDE DEF T
<1>3. /\ x \o y \in Seq(T) /\ Len(x \o y) = Len(x) + Len(y)
      /\ \A j \in 1..(Len(x) + Len(y)) :
           (x \o y)[j] = IF j <= Len(x) THEN x[j] ELSE y[j - Len(x)]
  BY <1>1, <1>2, ConcatParts
<1>4. Len(x) + Len(y) = hi - lo
  BY <1>1, <1>2
<1>5. ASSUME NEW j \in 1..(hi - lo)
      PROVE  (x \o y)[j] = Item(lo + j)
  <2>1. CASE j <= mid - lo
    BY <1>1, <1>3, <1>4, <2>1
  <2>2. CASE ~(j <= mid - lo)
    <3>1. j - (mid - lo) \in 1..(hi - mid) /\ mid + (j - (mid - lo)) = lo + j
      BY <2>2
    <3>2. y[j - (mid - lo)] = Item(mid + (j - (mid - lo)))
      BY <3>1
    <3> QED BY <1>1, <1>3, <1>4, <2>2, <3>1, <3>2
  <2> QED BY <2>1, <2>2
<1> DEFINE w == x \o y
<1>6. w \in Seq(T) /\ Len(w) = hi - lo /\ \A j \in 1..(hi - lo) : w[j] = Item(lo + j)
  BY <1>3, <1>4, <1>5
<1> HIDE DEF w
<1>7. DOMAIN w = 1..(hi - lo) /\ w = [j \in DOMAIN w |-> w[j]]
  BY <1>6
<1>8. w = z
  BY ONLY <1>6, <1>7 DEF z
<1> QED BY <1>8 DEF w

\* Of reduce: the elements of the left run and then those of the right.
LEMMA JoinReduced ==
  ASSUME NEW lo \in Nat, NEW mid \in Nat, NEW hi \in Nat, lo <= mid, mid <= hi,
         NEW x, ReducedTo(x, lo, mid), NEW y, ReducedTo(y, mid, hi)
  PROVE  ReducedTo(x \o y, lo, hi)
<1>1. x \in Seq(Nat) /\ y \in Seq(Nat) /\ Len(x) \in Nat /\ Len(y) \in Nat
  BY DEF ReducedTo
<1> DEFINE w == x \o y
<1>2. /\ w \in Seq(Nat) /\ Len(w) = Len(x) + Len(y)
      /\ \A j \in 1..(Len(x) + Len(y)) :
           w[j] = IF j <= Len(x) THEN x[j] ELSE y[j - Len(x)]
  BY <1>1, ConcatParts
<1> DEFINE m == Len(x)
           n == Len(y)
<1>a. m \in Nat /\ n \in Nat /\ Len(w) = m + n
      /\ \A j \in 1..(m + n) : w[j] = IF j <= m THEN x[j] ELSE y[j - m]
  BY <1>1, <1>2
<1>b. /\ \A j \in 1..m : x[j] = 0 \/ x[j] \in (lo + 1)..mid
      /\ \A j \in 1..n : y[j] = 0 \/ y[j] \in (mid + 1)..hi
      /\ \A i \in (lo + 1)..mid : \E j \in 1..m : x[j] = i
      /\ \A i \in (mid + 1)..hi : \E j \in 1..n : y[j] = i
      /\ \A i, j \in 1..m : i < j /\ x[i] # 0 /\ x[j] # 0 => x[i] < x[j]
      /\ \A i, j \in 1..n : i < j /\ y[i] # 0 /\ y[j] # 0 => y[i] < y[j]
  BY DEF ReducedTo
<1> HIDE DEF w, m, n
<1>c. /\ \A j \in 1..m : j \in 1..(m + n) /\ w[j] = x[j]
      /\ \A j \in 1..n : m + j \in 1..(m + n) /\ w[m + j] = y[j]
  <2>1. ASSUME NEW j \in 1..n
        PROVE  m + j \in 1..(m + n) /\ w[m + j] = y[j]
    <3>1. m + j \in 1..(m + n) /\ ~(m + j <= m) /\ (m + j) - m = j
      BY ONLY <1>a, j \in 1..n
    <3> QED BY ONLY <1>a, <3>1
  <2> QED BY ONLY <1>a, <2>1
<1>3. ASSUME NEW j \in 1..(m + n)
      PROVE  \/ j \in 1..m /\ w[j] = x[j]
             \/ j > m /\ j - m \in 1..n /\ w[j] = y[j - m]
  BY ONLY <1>a, j \in 1..(m + n)
<1>4. ASSUME NEW j \in 1..(m + n)
      PROVE  w[j] = 0 \/ w[j] \in (lo + 1)..hi
  <2>1. CASE j \in 1..m /\ w[j] = x[j]
    <3>1. x[j] = 0 \/ x[j] \in (lo + 1)..mid
      BY <1>b, <2>1
    <3> QED BY <2>1, <3>1
  <2>2. CASE j > m /\ j - m \in 1..n /\ w[j] = y[j - m]
    <3>1. y[j - m] = 0 \/ y[j - m] \in (mid + 1)..hi
      BY <1>b, <2>2
    <3> QED BY <2>2, <3>1
  <2> QED BY <1>3, <2>1, <2>2
<1>5. ASSUME NEW i \in (lo + 1)..hi
      PROVE  \E j \in 1..(m + n) : w[j] = i
  <2>1. CASE i <= mid
    <3>1. PICK j \in 1..m : x[j] = i
      BY <1>b, <2>1
    <3> QED BY <1>c, <3>1
  <2>2. CASE i > mid
    <3>1. PICK j \in 1..n : y[j] = i
      BY <1>b, <2>2
    <3> QED BY <1>c, <3>1
  <2> QED BY <2>1, <2>2
<1>6. ASSUME NEW i \in 1..(m + n), NEW j \in 1..(m + n), i < j, w[i] # 0, w[j] # 0
      PROVE  w[i] < w[j]
  <2>1. CASE j <= m
    <3>1. i \in 1..m /\ j \in 1..m /\ w[i] = x[i] /\ w[j] = x[j]
      BY ONLY <1>a, <1>6, <2>1
    <3> QED BY ONLY <1>b, <1>6, <3>1
  <2>2. CASE i <= m /\ j > m
    <3>1. /\ i \in 1..m /\ w[i] = x[i]
          /\ j - m \in 1..n /\ w[j] = y[j - m]
      BY ONLY <1>a, <1>6, <2>2
    <3>2. w[i] \in (lo + 1)..mid
      BY <1>b, <1>6, <3>1
    <3>3. w[j] \in (mid + 1)..hi
      BY <1>b, <1>6, <3>1
    <3> QED BY <3>2, <3>3
  <2>3. CASE i > m
    <3>1. /\ i - m \in 1..n /\ w[i] = y[i - m]
          /\ j - m \in 1..n /\ w[j] = y[j - m]
          /\ i - m < j - m
      BY ONLY <1>a, <1>6, <2>3
    <3> QED BY ONLY <1>b, <1>6, <3>1
  <2> QED BY <1>a, <2>1, <2>2, <2>3
<1>7. ReducedTo(w, lo, hi)
  BY ONLY <1>2, <1>a, <1>4, <1>5, <1>6 DEF ReducedTo
<1> QED BY <1>7 DEF w

\* Of count: the elements counted in two runs are counted once.
LEMMA JoinCounts ==
  ASSUME NEW lo \in Nat, NEW mid \in Nat, NEW hi \in Nat, lo <= mid, mid <= hi
  PROVE  Cardinality({j \in lo..(hi - 1) : At(j) # 0})
           = Cardinality({j \in lo..(mid - 1) : At(j) # 0})
             + Cardinality({j \in mid..(hi - 1) : At(j) # 0})
<1> DEFINE A == {j \in lo..(mid - 1) : At(j) # 0}
           B == {j \in mid..(hi - 1) : At(j) # 0}
<1>1. IsFiniteSet(A) /\ IsFiniteSet(B)
  <2>1. IsFiniteSet(lo..(mid - 1)) /\ IsFiniteSet(mid..(hi - 1))
    BY FS_Interval
  <2>2. A \subseteq lo..(mid - 1) /\ B \subseteq mid..(hi - 1)
    OBVIOUS
  <2> QED BY <2>1, <2>2, FS_Subset
<1>2. A \cap B = {} /\ {j \in lo..(hi - 1) : At(j) # 0} = A \cup B
  OBVIOUS
<1>3. Cardinality(A) \in Nat /\ Cardinality(B) \in Nat /\ Cardinality({}) = 0
  BY <1>1, FS_CardinalityType, FS_EmptySet
<1>4. Cardinality(A \cup B) = Cardinality(A) + Cardinality(B) - Cardinality(A \cap B)
  BY <1>1, FS_Union
<1> QED BY <1>2, <1>3, <1>4

\* Of a minimum or maximum: the better of two, if all can be compared; of two
\* that are alike the left one, or for Bool the right one.
LEMMA JoinSelected ==
  ASSUME Types, op \in Selections, NEW lo \in Nat, NEW mid \in Nat, NEW hi \in Nat,
         lo <= mid, mid <= hi, hi <= Len(elems),
         NEW x, SelectedOf(x, lo, mid), NEW y, SelectedOf(y, mid, hi)
  PROVE  SelectedOf(Combine(x, y), lo, hi)
<1>1. op \notin Folds /\ op \notin {"any", "all", "count"}
  BY DEF Selections, Folds
<1>2. Combine(x, y) = IF x = Nothing THEN y
                      ELSE IF y = Nothing \/ KeepsLeft(x[1], y[1]) THEN x ELSE y
  BY <1>1 DEF Combine
<1>3. \A j, v : Some([at |-> j, val |-> v]) # Nothing
                /\ Some([at |-> j, val |-> v])[1].val = v
  BY DEF Some, Nothing
<1>4. CASE lo = mid
  <2>0. lo..(mid - 1) = {}
    BY <1>4
  <2>1. x = Nothing
    BY <2>0 DEF SelectedOf
  <2> QED BY <1>2, <1>4, <2>1
<1>5. CASE mid = hi
  <2>0. mid..(hi - 1) = {}
    BY <1>5
  <2>1. y = Nothing
    BY <2>0 DEF SelectedOf
  <2>2. Combine(x, y) = x
    BY <1>2, <2>1
  <2> QED BY <1>5, <2>2
<1>6. CASE lo # mid /\ mid # hi
  <2>1. PICK j \in lo..(mid - 1) :
          /\ x = Some([at |-> j, val |-> At(j)])
          /\ Comparable => \A i \in lo..(mid - 1) : Beats(j, i)
    BY <1>6 DEF SelectedOf
  <2>2. PICK k \in mid..(hi - 1) :
          /\ y = Some([at |-> k, val |-> At(k)])
          /\ Comparable => \A i \in mid..(hi - 1) : Beats(k, i)
    BY <1>6 DEF SelectedOf
  <2>3. Combine(x, y) = IF KeepsLeft(x[1], y[1]) THEN x ELSE y
    BY <1>2, <1>3, <2>1, <2>2
  <2>4. x[1].val = At(j) /\ y[1].val = At(k)
    BY <1>3, <2>1, <2>2
  <2>5. ASSUME Comparable, NEW i \in lo..(hi - 1)
        PROVE  /\ At(i) \in Int /\ At(i) # Unordered
               /\ i < mid => Beats(j, i)
               /\ i >= mid => Beats(k, i)
    <3>1. At(i) \in Int /\ At(i) # Unordered
      <4>1. i + 1 \in 1..Len(elems)
        OBVIOUS
      <4>2. elems[i + 1] \in Int \cup {Unordered} /\ elems[i + 1] # Unordered
        BY <4>1, <2>5 DEF Types, Comparable, ToSet
      <4> QED BY <4>2 DEF At
    <3> QED BY <2>1, <2>2, <2>5, <3>1
  <2>6. CASE KeepsLeft(x[1], y[1])
    <3>1. ASSUME Comparable, NEW i \in lo..(hi - 1)
          PROVE  Beats(j, i)
      <4>1. /\ At(i) \in Int /\ At(j) \in Int /\ At(k) \in Int
            /\ At(j) # Unordered /\ At(k) # Unordered
        BY <2>5, <3>1
      <4>2. CASE i < mid
        BY <2>5, <3>1, <4>2
      <4>3. CASE i >= mid
        <5>1. Beats(k, i) /\ j < i /\ j < k
          BY <2>5, <3>1, <4>3
        <5>2. Better(At(j), At(k)) \/ (At(j) = At(k) /\ ~Late)
          BY <2>4, <2>6, <4>1 DEF KeepsLeft, Better, Late, Less, Same, Selections
        <5> QED BY <4>1, <5>1, <5>2 DEF Beats, Better
      <4> QED BY <4>2, <4>3
    <3> QED BY <2>1, <2>3, <2>6, <3>1 DEF SelectedOf
  <2>7. CASE ~KeepsLeft(x[1], y[1])
    <3>1. ASSUME Comparable, NEW i \in lo..(hi - 1)
          PROVE  Beats(k, i)
      <4>1. /\ At(i) \in Int /\ At(j) \in Int /\ At(k) \in Int
            /\ At(j) # Unordered /\ At(k) # Unordered
        BY <2>5, <3>1
      <4>2. CASE i >= mid
        BY <2>5, <3>1, <4>2
      <4>3. CASE i < mid
        <5>1. Beats(j, i) /\ i < k /\ j < k
          BY <2>5, <3>1, <4>3
        <5>2. Better(At(k), At(j)) \/ (At(j) = At(k) /\ Late)
          BY <2>4, <2>7, <4>1 DEF KeepsLeft, Better, Late, Less, Same, Selections
        <5> QED BY <4>1, <5>1, <5>2 DEF Beats, Better
      <4> QED BY <4>2, <4>3
    <3> QED BY <2>2, <2>3, <2>7, <3>1 DEF SelectedOf
  <2> QED BY <2>6, <2>7
<1> QED BY <1>4, <1>5, <1>6

\* Of every operation: what two runs side by side combine to is right of both.
LEMMA RightJoin ==
  ASSUME Types, NEW lo \in Nat, NEW mid \in Nat, NEW hi \in Nat,
         lo <= mid, mid <= hi, hi <= Len(elems),
         NEW x, Right(x, lo, mid), NEW y, Right(y, mid, hi)
  PROVE  Right(Combine(x, y), lo, hi)
<1>1. OpSets
  BY DEF OpSets, Ops, Folds, Selections, Tests
<1>2. CASE op \in {"sum", "mean", "var"}
  <2>1. op \in Folds \ {"reduce"} /\ op \notin {"any", "all", "count"} /\ op \notin Selections
    BY <1>2 DEF Folds, Selections
  <2>2. Combine(x, y) = x \o y
    BY <2>1 DEF Combine
  <2>3. /\ x = [i \in 1..(mid - lo) |-> Item(lo + i)]
        /\ y = [i \in 1..(hi - mid) |-> Item(mid + i)]
    BY <2>1 DEF Right
  <2>4. x \o y = [i \in 1..(hi - lo) |-> Item(lo + i)]
    BY <2>3, JoinFolds
  <2> QED BY <2>1, <2>2, <2>4 DEF Right
<1>3. CASE op = "reduce"
  <2>1. op \in Folds /\ op \notin {"any", "all", "count"} /\ op \notin Selections
    BY <1>3 DEF Folds, Selections
  <2>2. Combine(x, y) = x \o y
    BY <2>1 DEF Combine
  <2>3. ReducedTo(x \o y, lo, hi)
    BY <1>3, JoinReduced DEF Right
  <2> QED BY <1>3, <2>1, <2>2, <2>3 DEF Right
<1>4. CASE op \in {"any", "all"}
  <2>1. op \notin Folds /\ op # "count" /\ op \notin Selections
    BY <1>4 DEF Folds, Selections
  <2>2. Combine(x, y) = IF op = "any" THEN x \/ y ELSE x /\ y
    BY <1>4, <2>1 DEF Combine
  <2>3. /\ x \in BOOLEAN /\ (x = (op = "any") => Found(lo, mid))
        /\ y \in BOOLEAN /\ (y = (op = "any") => Found(mid, hi))
    BY <1>4 DEF Right
  <2>4. (Found(lo, mid) => Found(lo, hi)) /\ (Found(mid, hi) => Found(lo, hi))
    BY DEF Found
  <2>5. /\ Combine(x, y) \in BOOLEAN
        /\ Combine(x, y) = (op = "any") => x = (op = "any") \/ y = (op = "any")
    BY ONLY <1>4, <2>2, <2>3
  <2>6. Combine(x, y) = (op = "any") => Found(lo, hi)
    BY <2>3, <2>4, <2>5
  <2> QED BY <1>4, <2>1, <2>5, <2>6 DEF Right
<1>5. CASE op = "count"
  <2>1. op \notin Folds /\ op \notin {"any", "all"} /\ op \notin Selections
    BY <1>5 DEF Folds, Selections
  <2>2. Combine(x, y) = x + y
    BY <1>5, <2>1 DEF Combine
  <2>3. /\ x = Cardinality({j \in lo..(mid - 1) : At(j) # 0})
        /\ y = Cardinality({j \in mid..(hi - 1) : At(j) # 0})
    BY <1>5 DEF Right
  <2>4. Combine(x, y) = Cardinality({j \in lo..(hi - 1) : At(j) # 0})
    BY <2>2, <2>3, JoinCounts
  <2> QED BY <1>5, <2>1, <2>4 DEF Right
<1>6. CASE op \in Selections
  <2>1. op \notin Folds /\ op \notin {"any", "all", "count"}
    BY <1>6 DEF Folds, Selections
  <2>2. SelectedOf(Combine(x, y), lo, hi)
    <3>1. SelectedOf(x, lo, mid) /\ SelectedOf(y, mid, hi)
      BY <1>6, <2>1 DEF Right
    <3> QED BY <1>6, <3>1, JoinSelected
  <2> QED BY <2>1, <2>2 DEF Right, Folds
<1> QED BY <1>1, <1>2, <1>3, <1>4, <1>5, <1>6 DEF OpSets, Types

\* The next element combined in.
LEMMA RightNext ==
  ASSUME Types, NEW lo \in Nat, NEW at \in Nat, lo <= at, at < Len(elems),
         NEW x, Right(x, lo, at)
  PROVE  Right(Combine(x, Contribution(at + 1)), lo, at + 1)
<1>1. at + 1 \in 1..Len(elems) /\ at + 1 \in Nat /\ (at + 1) - 1 = at
      /\ at <= at + 1 /\ at + 1 <= Len(elems)
  BY DEF Types
<1>2. Right(Contribution(at + 1), at, at + 1)
  BY <1>1, RightOne
<1> QED BY <1>1, <1>2, RightJoin


\* The elements of two runs which decide a test are those of either.
LEMMA FoundSplit ==
  ASSUME NEW lo \in Nat, NEW mid \in Nat, NEW hi \in Nat, lo <= mid, mid <= hi
  PROVE  Found(lo, hi) <=> Found(lo, mid) \/ Found(mid, hi)
<1>1. lo..(hi - 1) = (lo..(mid - 1)) \cup (mid..(hi - 1))
  OBVIOUS
<1> QED BY <1>1 DEF Found

\* Of any and all: what is combined decides if one of the two does.
LEMMA CombineDecides ==
  ASSUME op \in {"any", "all"}, NEW x \in BOOLEAN, NEW y \in BOOLEAN
  PROVE  (Combine(x, y) = (op = "any")) <=> (x = (op = "any") \/ y = (op = "any"))
<1>0. op \notin Folds /\ op # "count" /\ op \notin Selections
  BY DEF Folds, Selections
<1>1. Combine(x, y) = IF op = "any" THEN x \/ y ELSE x /\ y
  BY <1>0 DEF Combine
<1> QED BY <1>1

\* Of any and all: what an element contributes decides if the element does.
LEMMA ContributionDecides ==
  ASSUME op \in {"any", "all"}, NEW at \in Nat
  PROVE  /\ Contribution(at + 1) \in BOOLEAN
         /\ Contribution(at + 1) = (op = "any") <=> Found(at, at + 1)
<1>1. Contribution(at + 1) = (elems[at + 1] # 0)
  BY DEF Contribution, Folds, Selections
<1>2. at..((at + 1) - 1) = {at} /\ At(at) = elems[at + 1]
  BY DEF At
<1> QED BY <1>1, <1>2 DEF Found

---------------------------------------------------------------------------
\* The invariant.

\* What holds of the pieces, however many there are.
Pieces(ps) ==
  /\ Tiled(ps, Len(elems))
  /\ \A k \in 1..Len(ps) : Right(ps[k].acc, ps[k].lo, ps[k].at)
  /\ op \in {"any", "all"} =>
       \/ \E k \in 1..Len(ps) : ps[k].acc = (op = "any")
       \/ \A k \in 1..Len(ps) : ~Found(ps[k].lo, ps[k].at)

\* What holds while the elements are gone over.
Going ==
  /\ Types
  /\ op \in Selections \cup {"mean"} => Len(elems) > 0
  /\ op = "var" => ddof \in Int /\ Len(elems) > ddof
  /\ Pieces(parts)

\* The inductive invariant.
ReductionInv ==
  /\ Idle => mean = Nothing /\ result = Nothing
  /\ Running => Going
  /\ ReductionIsExact

\* A state predicate of the elements and the operation stays what it is.
LEMMA PiecesSame ==
  ASSUME op' = op, kind' = kind, elems' = elems, mean' = mean
  PROVE  /\ Types => Types'
         /\ \A ps : Pieces(ps)' <=> Pieces(ps)
<1>1. Types => Types'
  BY DEF Types, InOrder
<1>2. \A j : At(j)' = At(j)
  BY DEF At
<1>3. \A lo, at : Found(lo, at)' <=> Found(lo, at)
  BY DEF Found, At
<1>4. \A x, lo, at : Right(x, lo, at)' <=> Right(x, lo, at)
  BY DEF Right, ReducedTo, SelectedOf, Found, Beats, Better, Late, Item, At, Comparable
<1>5. \A ps : Pieces(ps)' <=> Pieces(ps)
  BY <1>3, <1>4 DEF Pieces
<1> QED BY <1>1, <1>5

\* There is nothing to be wrong before there is a result.
LEMMA NoResultYet == result = Nothing => ReductionIsExact
BY DEF ReductionIsExact

\* The same after a step.
LEMMA NoResultNext == (result = Nothing => ReductionIsExact)'
BY NoResultYet, PTL

\* A step of the pieces only.
LEMMA PiecesStep ==
  ASSUME ReductionInv, Running, UNCHANGED <<op, kind, elems, ddof, mean, result, error>>,
         Pieces(parts')
  PROVE  ReductionInv'
<1>1. Going
  BY DEF ReductionInv
<1>2. Types' /\ Pieces(parts)'
  BY <1>1, PiecesSame DEF Going
<1>3. Going'
  BY <1>1, <1>2 DEF Going
<1>4. result' = Nothing /\ ~Idle'
  BY DEF Running, Idle
<1> QED BY <1>3, <1>4, NoResultNext DEF ReductionInv

\* The one piece there is to begin with.
LEMMA FirstTiled ==
  ASSUME NEW o, NEW n \in Nat, NEW ps, ps = <<Piece(o, 0, n, <<>>)>>
  PROVE  Tiled(ps, n)
<1>1. ps \in Seq({Piece(o, 0, n, <<>>)}) /\ Len(ps) = 1 /\ ps[1] = Piece(o, 0, n, <<>>)
  OBVIOUS
<1>2. IsPiece(ps[1]) /\ ps[1].lo = 0 /\ ps[1].hi = n
  BY <1>1 DEF IsPiece, Piece
<1>3. \E S : ps \in Seq(S)
  BY <1>1
<1> QED BY <1>1, <1>2, <1>3 DEF Tiled

\* All the elements in one piece, and none looked at.
LEMMA FirstPieces ==
  Types => Pieces(<<Piece(op, 0, Len(elems), <<>>)>>)
<1> SUFFICES ASSUME Types PROVE Pieces(<<Piece(op, 0, Len(elems), <<>>)>>)
  OBVIOUS
<1> DEFINE ps == <<Piece(op, 0, Len(elems), <<>>)>>
<1>1. Len(elems) \in Nat
  BY DEF Types
<1>2. Tiled(ps, Len(elems))
  BY <1>1, FirstTiled
<1>3. Len(ps) = 1 /\ ps[1].acc = Identity(op) /\ ps[1].lo = 0 /\ ps[1].at = 0
  BY DEF Piece
<1>4. Right(Identity(op), 0, 0)
  BY RightIdentity
<1>5. ~Found(0, 0)
  <2>1. 0..(0 - 1) = {}
    OBVIOUS
  <2> QED BY <2>1 DEF Found
<1> HIDE DEF ps
<1>6. Pieces(ps)
  BY <1>2, <1>3, <1>4, <1>5 DEF Pieces
<1> QED BY <1>6 DEF ps

\* The same after a step.
LEMMA FirstPiecesNext == (Types => Pieces(<<Piece(op, 0, Len(elems), <<>>)>>))'
BY FirstPieces, PTL

---------------------------------------------------------------------------
\* The pieces after each step.

\* What Pieces says of one piece, and what of the row.
LEMMA OnePiece ==
  ASSUME Going, NEW k \in 1..Len(parts)
  PROVE  /\ parts[k].lo \in Nat /\ parts[k].hi \in Nat /\ parts[k].at \in Nat
         /\ parts[k].lo <= parts[k].at /\ parts[k].at <= parts[k].hi
         /\ parts[k].hi <= Len(elems)
         /\ IsPiece(parts[k])
         /\ Right(parts[k].acc, parts[k].lo, parts[k].at)
<1>1. IsPiece(parts[k]) /\ Right(parts[k].acc, parts[k].lo, parts[k].at)
      /\ parts[k].hi <= Len(elems)
  BY DEF Going, Pieces, Tiled
<1> QED BY <1>1 DEF IsPiece

\* A piece of which nothing is done is replaced by two of which nothing is.
LEMMA HalvePieces ==
  ASSUME Going, NEW k \in 1..Len(parts), NEW mid \in Nat,
         parts[k].at = parts[k].lo, parts[k].lo <= mid, mid <= parts[k].hi,
         NEW a, NEW b, IsPiece(a), IsPiece(b),
         a.lo = parts[k].lo, a.at = a.lo, a.hi = mid, a.acc = Identity(op),
         b.lo = mid, b.at = mid, b.hi = parts[k].hi, b.acc = Identity(op),
         NEW t, t = TwoFor(parts, k, a, b)
  PROVE  Pieces(t)
<1> DEFINE n == Len(elems)
           m == Len(parts)
<1>1. Types /\ Tiled(parts, n) /\ m \in Nat /\ m >= 1
  BY DEF Going, Pieces, Tiled
<1>2. PICK S : parts \in Seq(S)
  BY <1>1 DEF Tiled
<1>3. /\ \E T : t \in Seq(T)
      /\ Len(t) = m + 1
      /\ \A j \in 1..(m + 1) :
           t[j] = IF j < k THEN parts[j] ELSE IF j = k THEN a ELSE IF j = k + 1 THEN b
                  ELSE parts[j - 1]
  BY <1>2, SpliceTwo
<1>4. /\ \A j \in 1..m : IsPiece(parts[j]) /\ parts[j].hi <= n
      /\ \A j \in 1..m : Right(parts[j].acc, parts[j].lo, parts[j].at)
      /\ \A j \in 1..(m - 1) : parts[j].hi = parts[j + 1].lo
      /\ parts[1].lo = 0 /\ parts[m].hi = n
  BY DEF Going, Pieces, Tiled
<1>5. parts[k].lo \in Nat /\ parts[k].hi \in Nat /\ parts[k].hi <= n /\ n \in Nat
  <2>1. n \in Nat
    BY <1>1 DEF Types
  <2> QED BY <1>4, <2>1 DEF IsPiece
<1>k. k \in 1..m
  OBVIOUS
<1>l. /\ a.lo = parts[k].lo /\ a.hi = mid /\ b.lo = mid /\ b.hi = parts[k].hi
      /\ mid \in Nat /\ mid <= parts[k].hi
  OBVIOUS
<1> HIDE DEF n, m
<1>6. ASSUME NEW j \in 1..(m + 1)
      PROVE  \/ j < k /\ j \in 1..m /\ t[j] = parts[j]
             \/ j = k /\ t[j] = a
             \/ j = k + 1 /\ t[j] = b
             \/ j > k + 1 /\ j - 1 \in 1..m /\ t[j] = parts[j - 1]
  BY ONLY <1>1, <1>3, <1>k, j \in 1..(m + 1)
<1>7. Tiled(t, n)
  <2>0. a.hi <= n /\ b.hi <= n
    BY ONLY <1>5, <1>l
  <2>1. ASSUME NEW j \in 1..(m + 1)
        PROVE  IsPiece(t[j]) /\ t[j].hi <= n
    BY ONLY <1>4, <1>6, <2>0, IsPiece(a), IsPiece(b), j \in 1..(m + 1)
  <2>2. t[1].lo = 0
    <3>1. CASE k = 1
      BY ONLY <1>1, <1>3, <1>4, <1>l, <3>1
    <3>2. CASE k > 1
      BY ONLY <1>1, <1>3, <1>4, <1>k, <3>2
    <3> QED BY ONLY <1>1, <1>k, <3>1, <3>2
  <2>3. t[m + 1].hi = n
    <3>1. CASE k = m
      BY ONLY <1>1, <1>3, <1>4, <1>l, <3>1
    <3>2. CASE k < m
      BY ONLY <1>1, <1>3, <1>4, <1>k, <3>2
    <3> QED BY ONLY <1>1, <1>k, <3>1, <3>2
  <2>4. ASSUME NEW j \in 1..m
        PROVE  t[j].hi = t[j + 1].lo
    <3>1. CASE j + 1 < k
      <4>1. t[j] = parts[j] /\ t[j + 1] = parts[j + 1] /\ j \in 1..(m - 1)
        BY ONLY <1>1, <1>3, <1>k, <3>1, j \in 1..m
      <4> QED BY <1>4, <4>1
    <3>2. CASE j + 1 = k
      <4>1. t[j] = parts[j] /\ t[j + 1] = a /\ j \in 1..(m - 1)
        BY ONLY <1>1, <1>3, <1>k, <3>2, j \in 1..m
      <4> QED BY <1>4, <3>2, <4>1
    <3>3. CASE j = k
      <4>1. t[j] = a /\ t[j + 1] = b
        BY ONLY <1>1, <1>3, <1>k, <3>3, j \in 1..m
      <4> QED BY <4>1
    <3>4. CASE j = k + 1
      <4>1. t[j] = b /\ t[j + 1] = parts[j] /\ j - 1 \in 1..(m - 1) /\ (j - 1) + 1 = j
            /\ k = j - 1
        BY ONLY <1>1, <1>3, <1>k, <3>4, j \in 1..m
      <4>2. parts[k].hi = parts[j].lo
        BY ONLY <1>4, <4>1
      <4> QED BY <4>1, <4>2
    <3>5. CASE j > k + 1
      <4>a. j - 1 \in 1..(m - 1) /\ (j - 1) + 1 = j
        BY ONLY <1>1, <1>k, <3>5, j \in 1..m
      <4>b. t[j] = parts[j - 1]
        BY ONLY <1>1, <1>3, <1>k, <3>5, j \in 1..m
      <4>c. t[j + 1] = parts[j]
        BY ONLY <1>1, <1>3, <1>k, <3>5, j \in 1..m
      <4>1. t[j] = parts[j - 1] /\ t[j + 1] = parts[j] /\ j - 1 \in 1..(m - 1) /\ (j - 1) + 1 = j
        BY ONLY <4>a, <4>b, <4>c
      <4>2. parts[j - 1].hi = parts[j].lo
        BY ONLY <1>4, <4>1
      <4> QED BY <4>1, <4>2
    <3> QED BY ONLY <1>1, <1>k, <3>1, <3>2, <3>3, <3>4, <3>5, j \in 1..m
  <2>5. Len(t) - 1 = m /\ Len(t) >= 1
    <3>1. Len(t) = m + 1 /\ m \in Nat
      BY ONLY <1>1, <1>3, Zenon
    <3> QED BY ONLY <3>1
  <2> QED BY <1>3, <2>1, <2>2, <2>3, <2>4, <2>5 DEF Tiled
<1>8. Right(Identity(op), a.lo, a.at) /\ Right(Identity(op), b.lo, b.at)
  <2>1. a.lo \in Nat /\ b.lo \in Nat
    BY DEF IsPiece
  <2> QED BY <1>1, <2>1, RightIdentity
<1>9. ASSUME NEW j \in 1..(m + 1)
      PROVE  Right(t[j].acc, t[j].lo, t[j].at)
  BY <1>4, <1>6, <1>8
<1>10. ASSUME op \in {"any", "all"}
       PROVE  \/ \E j \in 1..(m + 1) : t[j].acc = (op = "any")
              \/ \A j \in 1..(m + 1) : ~Found(t[j].lo, t[j].at)
  <2>1. ASSUME NEW lo \in Nat
        PROVE  ~Found(lo, lo)
    <3>1. lo..(lo - 1) = {}
      OBVIOUS
    <3> QED BY <3>1 DEF Found
  <2>2. parts[k].acc # (op = "any")
    <3>1. Right(parts[k].acc, parts[k].lo, parts[k].lo)
      BY <1>4, <1>k
    <3> QED BY <1>5, <1>10, <2>1, <3>1 DEF Right
  <2>3. CASE \E j \in 1..m : parts[j].acc = (op = "any")
    <3>1. PICK j \in 1..m : parts[j].acc = (op = "any")
      BY <2>3
    <3>2. j # k
      BY <2>2, <3>1
    <3>3. CASE j < k
      <4>1. j \in 1..(m + 1) /\ t[j] = parts[j]
        BY ONLY <1>1, <1>3, <1>k, <3>3, j \in 1..m
      <4> QED BY <3>1, <4>1
    <3>4. CASE j > k
      <4>1. j + 1 \in 1..(m + 1) /\ t[j + 1] = parts[j]
        BY ONLY <1>1, <1>3, <1>k, <3>4, j \in 1..m
      <4> QED BY <3>1, <4>1
    <3> QED BY ONLY <1>1, <1>k, <3>2, <3>3, <3>4, j \in 1..m
  <2>4. CASE \A j \in 1..m : ~Found(parts[j].lo, parts[j].at)
    <3>1. ~Found(a.lo, a.at) /\ ~Found(b.lo, b.at)
      BY <1>5, <2>1
    <3> QED BY <1>6, <2>4, <3>1
  <2> QED BY <1>10, <2>3, <2>4 DEF Going, Pieces, m
<1> QED BY <1>3, <1>7, <1>9, <1>10 DEF Pieces, n

\* Two neighbours that are done are replaced by what they combine to.
LEMMA JoinPieces ==
  ASSUME Going, NEW k \in 1..(Len(parts) - 1), IsDone(parts[k]), IsDone(parts[k + 1]),
         NEW a, IsPiece(a), a.lo = parts[k].lo, a.at = parts[k + 1].hi, a.hi = parts[k + 1].hi,
         a.acc = Combine(parts[k].acc, parts[k + 1].acc),
         NEW t, t = OneFor(parts, k, a)
  PROVE  Pieces(t)
<1> DEFINE n == Len(elems)
           m == Len(parts)
<1>1. Types /\ Tiled(parts, n) /\ m \in Nat /\ m >= 1
  BY DEF Going, Pieces, Tiled
<1>2. PICK S : parts \in Seq(S)
  BY <1>1 DEF Tiled
<1>3. /\ \E T : t \in Seq(T)
      /\ Len(t) = m - 1
      /\ \A j \in 1..(m - 1) :
           t[j] = IF j < k THEN parts[j] ELSE IF j = k THEN a ELSE parts[j + 1]
  BY <1>2, SpliceOne
<1>4. /\ \A j \in 1..m : IsPiece(parts[j]) /\ parts[j].hi <= n
      /\ \A j \in 1..m : Right(parts[j].acc, parts[j].lo, parts[j].at)
      /\ \A j \in 1..(m - 1) : parts[j].hi = parts[j + 1].lo
      /\ parts[1].lo = 0 /\ parts[m].hi = n
  BY DEF Going, Pieces, Tiled
<1>k. k \in 1..(m - 1)
  OBVIOUS
<1>l. /\ a.lo = parts[k].lo /\ a.hi = parts[k + 1].hi /\ a.at = a.hi
      /\ parts[k].at = parts[k].hi /\ parts[k + 1].at = parts[k + 1].hi
  BY DEF IsDone
<1>n. n \in Nat
  BY <1>1 DEF Types
<1> HIDE DEF n, m
<1>5. k \in 1..m /\ k + 1 \in 1..m
  BY ONLY <1>1, <1>k
<1>6. ASSUME NEW j \in 1..(m - 1)
      PROVE  \/ j < k /\ j \in 1..m /\ t[j] = parts[j]
             \/ j = k /\ t[j] = a
             \/ j > k /\ j + 1 \in 1..m /\ t[j] = parts[j + 1]
  BY ONLY <1>1, <1>3, <1>k, j \in 1..(m - 1)
<1>7. Tiled(t, n)
  <2>0. a.hi <= n
    BY ONLY <1>4, <1>5, <1>l
  <2>1. ASSUME NEW j \in 1..(m - 1)
        PROVE  IsPiece(t[j]) /\ t[j].hi <= n
    BY ONLY <1>4, <1>6, <2>0, IsPiece(a), j \in 1..(m - 1)
  <2>2. t[1].lo = 0
    <3>1. CASE k = 1
      BY ONLY <1>1, <1>3, <1>4, <1>k, <1>l, <3>1
    <3>2. CASE k > 1
      BY ONLY <1>1, <1>3, <1>4, <1>k, <3>2
    <3> QED BY ONLY <1>1, <1>k, <3>1, <3>2
  <2>3. t[m - 1].hi = n
    <3>1. CASE k = m - 1
      <4>1. t[m - 1] = a /\ k + 1 = m
        BY ONLY <1>1, <1>3, <1>k, <3>1
      <4> QED BY ONLY <1>4, <1>l, <4>1
    <3>2. CASE k < m - 1
      <4>1. t[m - 1] = parts[(m - 1) + 1] /\ (m - 1) + 1 = m
        BY ONLY <1>1, <1>3, <1>k, <3>2
      <4> QED BY ONLY <1>4, <4>1
    <3> QED BY ONLY <1>1, <1>k, <3>1, <3>2
  <2>4. ASSUME NEW j \in 1..(m - 2)
        PROVE  t[j].hi = t[j + 1].lo
    <3>1. CASE j + 1 < k
      <4>1. t[j] = parts[j] /\ t[j + 1] = parts[j + 1] /\ j \in 1..(m - 1)
        BY ONLY <1>1, <1>3, <1>k, <3>1, j \in 1..(m - 2)
      <4> QED BY <1>4, <4>1
    <3>2. CASE j + 1 = k
      <4>1. t[j] = parts[j] /\ t[j + 1] = a /\ j \in 1..(m - 1)
        BY ONLY <1>1, <1>3, <1>k, <3>2, j \in 1..(m - 2)
      <4> QED BY ONLY <1>4, <1>l, <3>2, <4>1
    <3>3. CASE j = k
      <4>1. t[j] = a /\ t[j + 1] = parts[(j + 1) + 1] /\ j + 1 \in 1..(m - 1)
        BY ONLY <1>1, <1>3, <1>k, <3>3, j \in 1..(m - 2)
      <4> QED BY ONLY <1>4, <1>l, <3>3, <4>1
    <3>4. CASE j > k
      <4>0. /\ j \in 1..(m - 1) /\ ~(j < k) /\ j # k
            /\ j + 1 \in 1..(m - 1) /\ ~(j + 1 < k) /\ j + 1 # k
        BY ONLY <1>1, <1>k, <3>4, j \in 1..(m - 2)
      <4>1. t[j] = parts[j + 1] /\ t[j + 1] = parts[(j + 1) + 1] /\ j + 1 \in 1..(m - 1)
        BY ONLY <1>3, <4>0
      <4> QED BY ONLY <1>4, <4>1
    <3> QED BY ONLY <1>1, <1>k, <3>1, <3>2, <3>3, <3>4, j \in 1..(m - 2)
  <2>5. Len(t) = m - 1 /\ Len(t) >= 1 /\ Len(t) - 1 = m - 2
    BY ONLY <1>1, <1>3, <1>k
  <2> QED BY ONLY <1>3, <2>1, <2>2, <2>3, <2>4, <2>5 DEF Tiled
<1>8. /\ parts[k].lo \in Nat /\ parts[k].hi \in Nat /\ parts[k + 1].hi \in Nat
      /\ parts[k].lo <= parts[k].hi /\ parts[k].hi <= parts[k + 1].hi
      /\ parts[k].hi = parts[k + 1].lo /\ parts[k + 1].hi <= n
  BY ONLY <1>4, <1>5, <1>k, <1>l DEF IsPiece
<1>9. /\ Right(parts[k].acc, parts[k].lo, parts[k].hi)
      /\ Right(parts[k + 1].acc, parts[k].hi, parts[k + 1].hi)
  <2>1. /\ Right(parts[k].acc, parts[k].lo, parts[k].at)
        /\ Right(parts[k + 1].acc, parts[k + 1].lo, parts[k + 1].at)
    BY ONLY <1>4, <1>5
  <2> QED BY ONLY <1>8, <1>l, <2>1
<1>10. Right(a.acc, a.lo, a.at)
  <2>1. Right(Combine(parts[k].acc, parts[k + 1].acc), parts[k].lo, parts[k + 1].hi)
    BY <1>1, <1>8, <1>9, RightJoin DEF n
  <2> QED BY <1>l, <2>1
<1>11. ASSUME NEW j \in 1..(m - 1)
       PROVE  Right(t[j].acc, t[j].lo, t[j].at)
  BY ONLY <1>4, <1>6, <1>10, j \in 1..(m - 1)
<1>12. ASSUME op \in {"any", "all"}
       PROVE  \/ \E j \in 1..(m - 1) : t[j].acc = (op = "any")
              \/ \A j \in 1..(m - 1) : ~Found(t[j].lo, t[j].at)
  <2>1. parts[k].acc \in BOOLEAN /\ parts[k + 1].acc \in BOOLEAN
    BY <1>9, <1>12 DEF Right
  <2>2. a.acc = (op = "any")
          <=> (parts[k].acc = (op = "any") \/ parts[k + 1].acc = (op = "any"))
    BY <1>12, <2>1, CombineDecides
  <2>3. CASE \E j \in 1..m : parts[j].acc = (op = "any")
    <3>1. PICK j \in 1..m : parts[j].acc = (op = "any")
      BY <2>3
    <3>2. CASE j < k
      <4>1. j \in 1..(m - 1) /\ t[j] = parts[j]
        BY ONLY <1>1, <1>3, <1>k, <3>2, j \in 1..m
      <4> QED BY <3>1, <4>1
    <3>3. CASE j = k \/ j = k + 1
      <4>1. t[k] = a
        BY ONLY <1>3, <1>k
      <4> QED BY <1>k, <2>2, <3>1, <3>3, <4>1
    <3>4. CASE j > k + 1
      <4>1. j - 1 \in 1..(m - 1) /\ t[j - 1] = parts[(j - 1) + 1] /\ (j - 1) + 1 = j
        BY ONLY <1>1, <1>3, <1>k, <3>4, j \in 1..m
      <4> QED BY <3>1, <4>1
    <3> QED BY ONLY <1>1, <1>k, <3>2, <3>3, <3>4, j \in 1..m
  <2>4. CASE \A j \in 1..m : ~Found(parts[j].lo, parts[j].at)
    <3>1. ~Found(a.lo, a.at)
      <4>1. ~Found(parts[k].lo, parts[k].at) /\ ~Found(parts[k + 1].lo, parts[k + 1].at)
        BY ONLY <1>5, <2>4
      <4>2. ~Found(parts[k].lo, parts[k].hi) /\ ~Found(parts[k].hi, parts[k + 1].hi)
        BY ONLY <1>8, <1>l, <4>1
      <4>3. ~Found(parts[k].lo, parts[k + 1].hi)
        BY <1>8, <4>2, FoundSplit
      <4> QED BY <1>l, <4>3
    <3> QED BY ONLY <1>6, <2>4, <3>1
  <2> QED BY <1>12, <2>3, <2>4 DEF Going, Pieces, m
<1> QED BY <1>3, <1>7, <1>11, <1>12 DEF Pieces, n

\* What a step changes of one piece.
LookFor(s, k, i, c) == [s EXCEPT ![k].at = i, ![k].acc = c]

\* What is where after that.
LEMMA LookFields ==
  ASSUME NEW S, NEW s \in Seq(S), NEW k \in 1..Len(s), NEW i, NEW c,
         DOMAIN s[k] = {"lo", "hi", "at", "acc", "path"},
         NEW t, t = LookFor(s, k, i, c)
  PROVE  /\ \E T : t \in Seq(T)
         /\ Len(t) = Len(s)
         /\ \A j \in 1..Len(s) : j # k => t[j] = s[j]
         /\ DOMAIN t[k] = {"lo", "hi", "at", "acc", "path"}
         /\ t[k].lo = s[k].lo /\ t[k].hi = s[k].hi /\ t[k].at = i /\ t[k].acc = c
<1>1. /\ DOMAIN t = 1..Len(s)
      /\ \A j \in 1..Len(s) : j # k => t[j] = s[j]
      /\ DOMAIN t[k] = {"lo", "hi", "at", "acc", "path"}
      /\ t[k].lo = s[k].lo /\ t[k].hi = s[k].hi /\ t[k].at = i /\ t[k].acc = c
  BY DEF LookFor
<1>a. t = [j \in DOMAIN t |-> t[j]] /\ Len(s) \in Nat
  <2>1. \A f : LookFor(f, k, i, c) = [j \in DOMAIN LookFor(f, k, i, c) |-> LookFor(f, k, i, c)[j]]
    BY ONLY TRUE DEF LookFor
  <2>2. Len(s) \in Nat
    OBVIOUS
  <2> QED BY ONLY <2>1, <2>2, t = LookFor(s, k, i, c)
<1>2. t \in Seq({t[j] : j \in 1..Len(s)}) /\ Len(t) = Len(s)
  BY ONLY <1>1, <1>a
<1> QED BY <1>1, <1>2

\* One piece gets another acc, and looks further.
LEMMA LookPieces ==
  ASSUME Going, NEW k \in 1..Len(parts), NEW at \in Nat, NEW got,
         parts[k].at <= at, at <= parts[k].hi, Right(got, parts[k].lo, at),
         op \in {"any", "all"} => \/ got = (op = "any")
                                  \/ /\ got # (op = "any")
                                     /\ \E j \in 1..Len(parts) :
                                          j # k /\ parts[j].acc = (op = "any")
                                  \/ /\ parts[k].acc # (op = "any")
                                     /\ ~Found(parts[k].at, at),
         NEW t, t = LookFor(parts, k, at, got)
  PROVE  Pieces(t)
<1> DEFINE n == Len(elems)
           m == Len(parts)
           p == parts[k]
           q == t[k]
<1>1. Types /\ Tiled(parts, n) /\ m \in Nat /\ m >= 1
  BY DEF Going, Pieces, Tiled
<1>2. PICK S : parts \in Seq(S)
  BY <1>1 DEF Tiled
<1>3. /\ \A j \in 1..m : IsPiece(parts[j]) /\ parts[j].hi <= n
      /\ \A j \in 1..m : Right(parts[j].acc, parts[j].lo, parts[j].at)
      /\ \A j \in 1..(m - 1) : parts[j].hi = parts[j + 1].lo
      /\ parts[1].lo = 0 /\ parts[m].hi = n
  BY DEF Going, Pieces, Tiled
<1>4. /\ DOMAIN p = {"lo", "hi", "at", "acc", "path"}
      /\ p.lo \in Nat /\ p.hi \in Nat /\ p.at \in Nat /\ p.lo <= p.at /\ p.at <= p.hi
  BY <1>3 DEF IsPiece
<1>k. k \in 1..m
  OBVIOUS
<1>5. /\ \E T : t \in Seq(T)
      /\ Len(t) = m
      /\ \A j \in 1..m : j # k => t[j] = parts[j]
      /\ DOMAIN q = {"lo", "hi", "at", "acc", "path"}
      /\ q.lo = p.lo /\ q.hi = p.hi /\ q.at = at /\ q.acc = got
  BY <1>2, <1>4, LookFields
<1>6. IsPiece(q)
  BY <1>4, <1>5 DEF IsPiece
<1>a. t[k] = q
  OBVIOUS
<1> HIDE DEF q
<1>7. /\ \E T : t \in Seq(T)
      /\ Len(t) = m
      /\ \A j \in 1..m : t[j] = IF j = k THEN q ELSE parts[j]
  BY <1>5, <1>a
<1> HIDE DEF n, m, p
<1>8. Tiled(t, n)
  <2>1. \A j \in 1..m : t[j].lo = parts[j].lo /\ t[j].hi = parts[j].hi /\ IsPiece(t[j])
    BY ONLY <1>3, <1>5, <1>6, <1>7 DEF p
  <2>2. 1 \in 1..m /\ m \in 1..m
        /\ \A j \in 1..(m - 1) : j \in 1..m /\ j + 1 \in 1..m
    BY ONLY <1>1
  <2>3. \E T : t \in Seq(T)
    BY <1>7
  <2> QED BY ONLY <1>1, <1>3, <1>7, <2>1, <2>2, <2>3 DEF Tiled
<1>9. ASSUME NEW j \in 1..m
      PROVE  Right(t[j].acc, t[j].lo, t[j].at)
  <2>1. Right(q.acc, q.lo, q.at)
    BY <1>5 DEF p
  <2> QED BY ONLY <1>3, <1>7, <2>1, j \in 1..m
<1>10. ASSUME op \in {"any", "all"}
       PROVE  \/ \E j \in 1..m : t[j].acc = (op = "any")
              \/ \A j \in 1..m : ~Found(t[j].lo, t[j].at)
  <2>1. CASE got = (op = "any")
    <3>1. t[k] = q /\ q.acc = got
      BY ONLY <1>5, <1>7, <1>k
    <3> QED BY <1>k, <2>1, <3>1
  <2>2. CASE \E j \in 1..m : j # k /\ parts[j].acc = (op = "any")
    BY <1>7, <2>2
  <2>3. CASE /\ \A j \in 1..m : j # k => parts[j].acc # (op = "any")
             /\ p.acc # (op = "any") /\ ~Found(p.at, at)
    <3>1. \A j \in 1..m : ~Found(parts[j].lo, parts[j].at)
      BY <1>10, <2>3 DEF Going, Pieces, m, p
    <3>2. ~Found(p.lo, at)
      BY <1>4, <1>k, <2>3, <3>1, FoundSplit DEF p
    <3> QED BY ONLY <1>5, <1>7, <3>1, <3>2
  <2> QED BY <1>10, <2>1, <2>2, <2>3 DEF m, p
<1> QED BY <1>1, <1>7, <1>8, <1>9, <1>10 DEF Pieces, n

---------------------------------------------------------------------------
\* The steps.

\* Halving leaves two pieces of which nothing is done.
LEMMA HalveStep ==
  ASSUME ReductionInv, NEW k \in DOMAIN parts, Halve(k)
  PROVE  ReductionInv'
<1> DEFINE p == parts[k]
           mid == p.lo + (p.hi - p.lo) \div 2
           a == Piece(op, p.lo, mid, p.path \o <<"left">>)
           b == Piece(op, mid, p.hi, p.path \o <<"right">>)
<1>1. Running /\ Going /\ p.at = p.lo /\ p.hi - p.lo >= 2 /\ parts' = TwoFor(parts, k, a, b)
  BY DEF ReductionInv, Halve, TwoFor
<1>2. k \in 1..Len(parts)
  BY <1>1 DEF Going, Pieces, Tiled
<1>3. p.lo \in Nat /\ p.hi \in Nat
  BY <1>1, <1>2, OnePiece
<1>4. mid \in Nat /\ p.lo <= mid /\ mid <= p.hi
  <2> HIDE DEF p
  <2> QED BY <1>1, <1>3
<1> HIDE DEF mid
<1>5. /\ IsPiece(a) /\ IsPiece(b)
      /\ a.lo = p.lo /\ a.at = a.lo /\ a.hi = mid /\ a.acc = Identity(op)
      /\ b.lo = mid /\ b.at = mid /\ b.hi = p.hi /\ b.acc = Identity(op)
  BY <1>3, <1>4 DEF Piece, IsPiece
<1> HIDE DEF a, b
<1>6. Pieces(parts')
  BY <1>1, <1>2, <1>4, <1>5, HalvePieces
<1>7. UNCHANGED <<op, kind, elems, ddof, mean, result, error>>
  BY DEF Halve
<1> QED BY <1>1, <1>6, <1>7, PiecesStep

\* An element more of a piece.  If it decides a test the piece holds the answer.
LEMMA AdvanceStep ==
  ASSUME ReductionInv, NEW k \in DOMAIN parts, Advance(k)
  PROVE  ReductionInv'
<1> DEFINE p == parts[k]
           got == Combine(p.acc, Contribution(p.at + 1))
<1>1. Running /\ Going /\ p.at # p.hi /\ parts' = LookFor(parts, k, p.at + 1, got)
  BY DEF ReductionInv, Advance, LookFor, IsDone
<1>2. k \in 1..Len(parts)
  BY <1>1 DEF Going, Pieces, Tiled
<1>3. /\ p.lo \in Nat /\ p.hi \in Nat /\ p.at \in Nat /\ p.lo <= p.at /\ p.at <= p.hi
      /\ p.hi <= Len(elems) /\ Right(p.acc, p.lo, p.at)
  BY <1>1, <1>2, OnePiece
<1>4. Types /\ Len(elems) \in Nat
  BY <1>1 DEF Going, Types
<1>5. Right(got, p.lo, p.at + 1)
  BY <1>1, <1>3, <1>4, RightNext
<1>6. p.at + 1 \in Nat /\ p.at <= p.at + 1 /\ p.at + 1 <= p.hi
  BY <1>1, <1>3
<1>7. ASSUME op \in {"any", "all"}
      PROVE  got = (op = "any") \/ (p.acc # (op = "any") /\ ~Found(p.at, p.at + 1))
  <2>1. p.acc \in BOOLEAN
    BY <1>3, <1>7 DEF Right
  <2>2. /\ Contribution(p.at + 1) \in BOOLEAN
        /\ Contribution(p.at + 1) = (op = "any") <=> Found(p.at, p.at + 1)
    BY <1>3, <1>7, ContributionDecides
  <2> QED BY <1>7, <2>1, <2>2, CombineDecides
<1> HIDE DEF got
<1>8. Pieces(parts')
  BY <1>1, <1>2, <1>3, <1>5, <1>6, <1>7, LookPieces
<1>9. UNCHANGED <<op, kind, elems, ddof, mean, result, error>>
  BY DEF Advance
<1> QED BY <1>1, <1>8, <1>9, PiecesStep

\* Some piece has the answer: nothing is lost by not looking on.
LEMMA StopStep ==
  ASSUME ReductionInv, NEW k \in DOMAIN parts, Stop(k)
  PROVE  ReductionInv'
<1> DEFINE p == parts[k]
<1>1. Running /\ Going /\ op \in {"any", "all"} /\ Decided
  BY DEF ReductionInv, Stop
<1>2. k \in 1..Len(parts) /\ DOMAIN parts = 1..Len(parts)
  BY <1>1 DEF Going, Pieces, Tiled
<1>3. /\ p.lo \in Nat /\ p.hi \in Nat /\ p.at \in Nat /\ p.lo <= p.at /\ p.at <= p.hi
      /\ Right(p.acc, p.lo, p.at)
  BY <1>1, <1>2, OnePiece
<1>4. parts' = LookFor(parts, k, p.hi, p.acc)
  BY DEF Stop, LookFor
<1>5. Right(p.acc, p.lo, p.hi)
  <2>1. Found(p.lo, p.at) => Found(p.lo, p.hi)
    BY <1>3, FoundSplit
  <2>2. op \notin Folds /\ op # "count" /\ op # "reduce" /\ op \notin Selections
    BY <1>1 DEF Folds, Selections
  <2> QED BY <1>1, <1>3, <2>1, <2>2 DEF Right
<1>6. p.acc = (op = "any")
      \/ (p.acc # (op = "any") /\ \E j \in 1..Len(parts) : j # k /\ parts[j].acc = (op = "any"))
  BY <1>1, <1>2 DEF Decided
<1>7. Pieces(parts')
  BY <1>1, <1>2, <1>3, <1>4, <1>5, <1>6, LookPieces
<1>8. UNCHANGED <<op, kind, elems, ddof, mean, result, error>>
  BY DEF Stop
<1> QED BY <1>1, <1>7, <1>8, PiecesStep

\* Two halves that are done, one for both.
LEMMA JoinStep ==
  ASSUME ReductionInv, NEW k \in 1..(Len(parts) - 1), Join(k)
  PROVE  ReductionInv'
<1> DEFINE p == parts[k]
           q == parts[k + 1]
           a == [lo |-> p.lo, hi |-> q.hi, at |-> q.hi,
                 acc |-> Combine(p.acc, q.acc), path |-> Front(p.path)]
<1>1. Running /\ Going /\ IsDone(p) /\ IsDone(q) /\ parts' = OneFor(parts, k, a)
  BY DEF ReductionInv, Join, OneFor
<1>2. k \in 1..Len(parts) /\ k + 1 \in 1..Len(parts) /\ p.hi = q.lo
  BY <1>1 DEF Going, Pieces, Tiled
<1>3. /\ p.lo \in Nat /\ p.hi \in Nat /\ p.lo <= p.hi
      /\ q.lo \in Nat /\ q.hi \in Nat /\ q.lo <= q.hi
  BY <1>1, <1>2, OnePiece DEF IsDone
<1>4. /\ a.lo = p.lo /\ a.at = q.hi /\ a.hi = q.hi /\ a.acc = Combine(p.acc, q.acc)
      /\ IsPiece(a)
  BY <1>2, <1>3 DEF IsPiece
<1> HIDE DEF a
<1>5. Pieces(parts')
  BY <1>1, <1>4, JoinPieces
<1>6. UNCHANGED <<op, kind, elems, ddof, mean, result, error>>
  BY DEF Join
<1> QED BY <1>1, <1>5, <1>6, PiecesStep

\* An error and no result.
LEMMA RefuseStep ==
  ASSUME ReductionInv, Refuse
  PROVE  ReductionInv'
<1>1. error' # "none" /\ op' = op /\ result' = result /\ result = Nothing /\ ~Idle
  BY DEF Refuse, Running
<1>2. ~Running' /\ ~Idle'
  BY <1>1 DEF Running, Idle
<1> QED BY <1>1, <1>2, NoResultNext DEF ReductionInv

\* Back to where it began.
LEMMA ReturnStep ==
  ASSUME Return
  PROVE  ReductionInv'
<1>1. Idle' /\ ~Running' /\ mean' = Nothing /\ result' = Nothing
  BY DEF Return, Idle, Running
<1> QED BY <1>1, NoResultNext DEF ReductionInv

\* The one piece left when all are done.
LEMMA LastPiece ==
  ASSUME ReductionInv, AllDone
  PROVE  /\ Going /\ Running
         /\ Right(parts[1].acc, 0, Len(elems))
         /\ op \in {"any", "all"} =>
              parts[1].acc = (op = "any") \/ ~Found(0, Len(elems))
<1>1. Going /\ Running /\ Len(parts) = 1 /\ parts[1].at = parts[1].hi
  BY DEF ReductionInv, AllDone, IsDone
<1>2. 1 \in 1..Len(parts) /\ parts[1].lo = 0 /\ parts[1].hi = Len(elems)
  BY <1>1 DEF Going, Pieces, Tiled
<1>3. Right(parts[1].acc, parts[1].lo, parts[1].at)
  BY <1>1, <1>2, OnePiece
<1>4. op \in {"any", "all"} =>
        parts[1].acc = (op = "any") \/ ~Found(parts[1].lo, parts[1].at)
  BY <1>1, <1>2 DEF Going, Pieces
<1> QED BY <1>1, <1>2, <1>3, <1>4

\* What a fold of all the elements makes.
LEMMA WholeFold ==
  ASSUME Types, op \in Folds \ {"reduce"}, NEW got, Right(got, 0, Len(elems))
  PROVE  got = [i \in 1..Len(elems) |-> Item(i)]
<1>1. got = [i \in 1..(Len(elems) - 0) |-> Item(0 + i)]
  BY DEF Right
<1>2. Len(elems) \in Nat /\ Len(elems) - 0 = Len(elems)
      /\ \A i \in 1..Len(elems) : 0 + i = i
  BY DEF Types
<1>3. \A i \in 1..Len(elems) : Item(0 + i) = Item(i)
  BY <1>2
<1>4. [i \in 1..Len(elems) |-> Item(0 + i)] = [i \in 1..Len(elems) |-> Item(i)]
  BY <1>3
<1> QED BY <1>1, <1>2, <1>4

\* The first pass of the variance has summed every element, once and in order:
\* that is the mean the second pass takes from each.
LEMMA SecondPassStep ==
  ASSUME ReductionInv, SecondPass
  PROVE  ReductionInv'
<1>1. /\ Going /\ Running /\ op = "var" /\ mean = Nothing /\ Types
      /\ Right(parts[1].acc, 0, Len(elems))
  BY LastPiece DEF SecondPass, Going
<1>2. parts[1].acc = InOrder
  <2>1. parts[1].acc = [i \in 1..Len(elems) |-> Item(i)]
    BY <1>1, WholeFold DEF Folds
  <2>2. DOMAIN elems = 1..Len(elems) /\ \A i : Item(i) = i
    BY <1>1 DEF Types, Item
  <2> QED BY <2>1, <2>2 DEF InOrder
<1>3. /\ mean' = Some(parts[1].acc) /\ parts' = <<Piece(op, 0, Len(elems), <<>>)>>
      /\ UNCHANGED <<op, kind, elems, ddof, result, error>>
  BY DEF SecondPass
<1>4. Types'
  BY <1>1, <1>2, <1>3 DEF Types, InOrder
<1>5. Pieces(parts)'
  BY <1>3, <1>4, FirstPiecesNext
<1>6. Going'
  BY <1>1, <1>3, <1>4, <1>5 DEF Going
<1>7. result' = Nothing /\ ~Idle'
  BY <1>1, <1>3 DEF Running, Idle
<1> QED BY <1>6, <1>7, NoResultNext DEF ReductionInv

---------------------------------------------------------------------------
\* What is returned.

\* The places of the elements.
LEMMA PlacesAre ==
  ASSUME Types
  PROVE  Places = 0..(Len(elems) - 1) /\ Len(elems) \in Nat /\ DOMAIN elems = 1..Len(elems)
<1>1. Len(elems) \in Nat /\ DOMAIN elems = 1..Len(elems)
  BY DEF Types
<1>2. ASSUME NEW j \in 0..(Len(elems) - 1)
      PROVE  j \in Places
  <2>1. j + 1 \in 1..Len(elems) /\ (j + 1) - 1 = j
    BY <1>1
  <2> QED BY <1>1, <2>1 DEF Places
<1>3. ASSUME NEW j \in Places
      PROVE  j \in 0..(Len(elems) - 1)
  <2>1. PICK i \in 1..Len(elems) : j = i - 1
    BY <1>1 DEF Places
  <2> QED BY <1>1, <2>1
<1> QED BY <1>1, <1>2, <1>3

\* Sums: every element once and in order.
LEMMA ExactFolds ==
  ASSUME Going, op \in {"sum", "mean", "var"}, op = "var" => mean # Nothing,
         NEW got, Right(got, 0, Len(elems))
  PROVE  Exact(Outcome(got))
<1>1. Types /\ Len(elems) \in Nat /\ DOMAIN elems = 1..Len(elems)
  BY DEF Going, Types
<1>2. got = [i \in 1..Len(elems) |-> Item(i)]
  BY <1>1, WholeFold DEF Folds
<1>3. Outcome(got) = got
  BY DEF Outcome
<1>4. CASE op \in {"sum", "mean"}
  <2>1. mean = Nothing
    BY <1>1, <1>4 DEF Types
  <2>2. \A i : Item(i) = i
    BY <2>1 DEF Item
  <2>3. got = InOrder
    BY <1>1, <1>2, <2>2 DEF InOrder
  <2>4. op = "mean" => Len(elems) # 0
    BY <1>1 DEF Going
  <2> QED BY <1>3, <1>4, <2>3, <2>4 DEF Exact
<1>5. CASE op = "var"
  <2>1. mean = Some(InOrder)
    BY <1>1, <1>5 DEF Types
  <2>2. \A i : Item(i) = [elem |-> i, mean |-> InOrder]
    BY <2>1 DEF Item, Some, Nothing
  <2>3. got = [i \in 1..Len(elems) |-> [elem |-> i, mean |-> InOrder]]
    BY <1>2, <2>2
  <2>4. ~(Len(elems) <= ddof)
    <3>1. ddof \in Int /\ Len(elems) > ddof
      BY <1>5 DEF Going
    <3> QED BY <1>1, <3>1
  <2> QED BY <1>3, <1>5, <2>3, <2>4 DEF Exact
<1> QED BY <1>4, <1>5

\* reduce: the same but for the init it was given.
LEMMA ExactReduce ==
  ASSUME Going, op = "reduce", NEW got, Right(got, 0, Len(elems))
  PROVE  Exact(Outcome(got))
<1>1. Outcome(got) = got
  BY DEF Outcome
<1>2. ReducedTo(got, 0, Len(elems)) /\ Len(elems) \in Nat
  BY DEF Right, Going, Types
<1>3. /\ DOMAIN got = 1..Len(got)
      /\ \A j \in 1..Len(got) : got[j] = 0 \/ got[j] \in 1..Len(elems)
      /\ \A i \in 1..Len(elems) : \E j \in 1..Len(got) : got[j] = i
      /\ \A i, j \in 1..Len(got) : i < j /\ got[i] # 0 /\ got[j] # 0 => got[i] < got[j]
  BY <1>2 DEF ReducedTo
<1>4. ToSet(got) \ {0} = 1..Len(elems)
  <2>1. ToSet(got) = {got[j] : j \in 1..Len(got)}
    BY <1>3 DEF ToSet
  <2>2. ASSUME NEW i \in ToSet(got), i # 0
        PROVE  i \in 1..Len(elems)
    BY <1>3, <2>1, <2>2
  <2>3. ASSUME NEW i \in 1..Len(elems)
        PROVE  i \in ToSet(got) /\ i # 0
    BY <1>3, <2>1, <1>2
  <2> QED BY <2>2, <2>3
<1> QED BY <1>1, <1>3, <1>4 DEF Exact

\* any, all and count.
LEMMA ExactTests ==
  ASSUME Going, op \in Tests, NEW got, Right(got, 0, Len(elems)),
         op \in {"any", "all"} => got = (op = "any") \/ ~Found(0, Len(elems))
  PROVE  Exact(Outcome(got))
<1>1. Outcome(got) = got
  BY DEF Outcome, Tests
<1>2. Types /\ Places = 0..(Len(elems) - 1)
  BY PlacesAre DEF Going
<1>3. CASE op = "any"
  <2>1. got \in BOOLEAN /\ (got <=> Found(0, Len(elems)))
    BY <1>3 DEF Right
  <2>2. Found(0, Len(elems)) <=> \E j \in Places : At(j) # 0
    BY <1>2, <1>3 DEF Found
  <2> QED BY <1>1, <1>3, <2>1, <2>2 DEF Exact
<1>4. CASE op = "all"
  <2>1. got \in BOOLEAN /\ (got <=> ~Found(0, Len(elems)))
    BY <1>4 DEF Right
  <2>2. Found(0, Len(elems)) <=> ~\A j \in Places : At(j) # 0
    BY <1>2, <1>4 DEF Found
  <2> QED BY <1>1, <1>4, <2>1, <2>2 DEF Exact
<1>5. CASE op = "count"
  <2>1. got = Cardinality({j \in 0..(Len(elems) - 1) : At(j) # 0})
    BY <1>5 DEF Right
  <2> QED BY <1>1, <1>2, <1>5, <2>1 DEF Exact
<1> QED BY <1>3, <1>4, <1>5 DEF Tests

\* The greatest of a set.
LEMMA MaxIs ==
  ASSUME NEW S, S \subseteq Int, NEW j \in S, \A i \in S : i <= j
  PROVE  Max(S) = j
<1>1. \E x \in S : \A y \in S : x >= y
  OBVIOUS
<1> DEFINE m == Max(S)
<1>2. m \in S /\ \A y \in S : m >= y
  BY <1>1 DEF Max
<1> HIDE DEF m
<1>3. m = j
  BY <1>2
<1> QED BY <1>3 DEF m

\* The least of a set.
LEMMA MinIs ==
  ASSUME NEW S, S \subseteq Int, NEW j \in S, \A i \in S : j <= i
  PROVE  Min(S) = j
<1>1. \E x \in S : \A y \in S : x <= y
  OBVIOUS
<1> DEFINE m == Min(S)
<1>2. m \in S /\ \A y \in S : m <= y
  BY <1>1 DEF Min
<1> HIDE DEF m
<1>3. m = j
  BY <1>2
<1> QED BY <1>3 DEF m

\* Minimum, maximum and where they are.
LEMMA ExactSelections ==
  ASSUME Going, op \in Selections, NEW got, Right(got, 0, Len(elems))
  PROVE  Exact(Outcome(got))
<1> DEFINE n == Len(elems)
<1>1. Types /\ Places = 0..(n - 1) /\ n \in Nat /\ n > 0 /\ DOMAIN elems = 1..n
  BY PlacesAre DEF Going
<1>2. SelectedOf(got, 0, n)
  BY DEF Right
<1>3. PICK j \in Places :
        /\ got = Some([at |-> j, val |-> At(j)])
        /\ Comparable => \A i \in Places : Beats(j, i)
  BY <1>1, <1>2 DEF SelectedOf
<1>4. got[1].at = j /\ got[1].val = At(j)
  BY <1>3 DEF Some
<1>5. Comparable => \A i \in Places : At(i) \in Int
  <2>1. ASSUME Comparable, NEW i \in Places
        PROVE  At(i) \in Int
    <3>1. i + 1 \in 1..Len(elems)
      BY <1>1
    <3>2. elems[i + 1] \in Int \cup {Unordered} /\ elems[i + 1] # Unordered
      BY <1>1, <2>1, <3>1 DEF Types, Comparable, ToSet
    <3> QED BY <3>2 DEF At
  <2> QED BY <2>1
<1>6. Comparable => j \in Best
  BY <1>3, <1>5 DEF Beats, Better, Best
<1>7. CASE op \in {"min", "max"}
  <2>1. Outcome(got) = At(j)
    BY <1>4, <1>7 DEF Outcome
  <2>2. \E i \in IF Comparable THEN Best ELSE Places : Outcome(got) = At(i)
    BY <1>3, <1>6, <2>1
  <2> QED BY <1>1, <1>7, <2>2 DEF Exact
<1>8. CASE op \in {"argmin", "argmax"}
  <2>1. Outcome(got) = j
    BY <1>4, <1>8 DEF Outcome
  <2>2. ASSUME Comparable
        PROVE  j = IF Late THEN Max(Best) ELSE Min(Best)
    <3>1. \A i \in Best : i \in Int /\ At(i) = At(j)
      BY <1>1, <1>5, <1>6, <2>2 DEF Best
    <3>2. \A i \in Best : IF Late THEN i <= j ELSE j <= i
      <4>1. ASSUME NEW i \in Best
            PROVE  IF Late THEN i <= j ELSE j <= i
        <5>1. Beats(j, i) /\ At(i) = At(j) /\ At(j) \in Int /\ i \in Int /\ j \in Int
          BY <1>1, <1>3, <1>5, <2>2, <3>1 DEF Best
        <5> QED BY <5>1 DEF Beats, Better
      <4> QED BY <4>1
    <3>3. j \in Best /\ Best \subseteq Int
      BY <1>6, <2>2, <3>1
    <3>4. Late => j = Max(Best)
      BY <3>2, <3>3, MaxIs
    <3>5. ~Late => j = Min(Best)
      BY <3>2, <3>3, MinIs
    <3> QED BY <3>4, <3>5
  <2>3. Exact(j) <=> IF ~Comparable THEN j \in Places
                     ELSE j = IF Late THEN Max(Best) ELSE Min(Best)
    BY <1>1, <1>8 DEF Exact, Late
  <2> QED BY <2>1, <2>2, <2>3
<1> QED BY <1>7, <1>8 DEF Selections

\* What the last piece holds is what is returned.
LEMMA FinishStep ==
  ASSUME ReductionInv, Finish
  PROVE  ReductionInv'
<1> DEFINE got == parts[1].acc
<1>1. /\ AllDone
      /\ op = "var" => mean # Nothing
      /\ result' = Some(Outcome(got)) /\ UNCHANGED <<op, kind, elems, ddof, mean, error>>
  BY DEF Finish
<1>2. /\ Going /\ Running /\ Right(got, 0, Len(elems))
      /\ op \in {"any", "all"} => got = (op = "any") \/ ~Found(0, Len(elems))
  BY <1>1, LastPiece
<1> HIDE DEF got
<1>3. Exact(Outcome(got))
  <2>1. CASE op \in {"sum", "mean", "var"}
    BY <1>1, <1>2, <2>1, ExactFolds
  <2>2. CASE op = "reduce"
    BY <1>2, <2>2, ExactReduce
  <2>3. CASE op \in Tests
    BY <1>2, <2>3, ExactTests
  <2>4. CASE op \in Selections
    BY <1>2, <2>4, ExactSelections
  <2>5. op \in Folds \cup Selections \cup Tests
    BY <1>2 DEF Going, Types, Ops
  <2> QED BY <2>1, <2>2, <2>3, <2>4, <2>5 DEF Folds
<1>4. \A out : Exact(out)' <=> Exact(out)
  BY <1>1 DEF Exact, Best, InOrder, Places, At, Comparable
<1>5. Exact(result[1])'
  BY <1>1, <1>3, <1>4 DEF Some
<1>6. ReductionIsExact'
  BY <1>5 DEF ReductionIsExact
<1>7. ~Idle' /\ ~Running'
  BY <1>1, <1>2 DEF Idle, Running, Some, Nothing
<1> QED BY <1>6, <1>7 DEF ReductionInv

\* What is returned early is what the elements determine.
LEMMA EarlyIsExact ==
  ASSUME NEW n, Early(op, n, ddof) # Nothing, n = Len(elems), op \in Ops
  PROVE  Exact(Early(op, n, ddof)[1])
<1>1. CASE op = "mean" /\ n = 0
  BY <1>1 DEF Early, Some, Exact
<1>2. CASE op = "var" /\ n <= ddof
  BY <1>2 DEF Early, Some, Exact
<1>3. CASE op \in {"min", "max"} /\ n = 0
  BY <1>3 DEF Early, Some, Exact
<1>4. CASE op \in {"argmin", "argmax"} /\ n = 0
  BY <1>4 DEF Early, Some, Exact
<1>5. CASE /\ ~(op = "mean" /\ n = 0) /\ ~(op = "var" /\ n <= ddof)
           /\ ~(op \in {"min", "max"} /\ n = 0) /\ ~(op \in {"argmin", "argmax"} /\ n = 0)
  BY <1>5 DEF Early
<1> QED BY <1>1, <1>2, <1>3, <1>4, <1>5

\* The same after a step.
LEMMA EarlyIsExactNext ==
  (Early(op, Len(elems), ddof) # Nothing /\ op \in Ops
     => Exact(Early(op, Len(elems), ddof)[1]))'
<1>1. Early(op, Len(elems), ddof) # Nothing /\ op \in Ops
        => Exact(Early(op, Len(elems), ddof)[1])
  BY EarlyIsExact
<1> QED BY <1>1, PTL

\* A call returns early, is refused or starts on one piece.
LEMMA BeginStep ==
  ASSUME ReductionInv, NEW o \in Ops, NEW k, NEW e \in Seq(Int \cup {Unordered}), NEW d \in {0, 1},
         Begin(o, k, e, d)
  PROVE  ReductionInv'
<1> DEFINE n == Len(e)
<1>1. /\ op' = o /\ kind' = k /\ elems' = e /\ ddof' = d /\ mean' = Nothing
      /\ error' = IF Supported(o, k, n) THEN "none" ELSE "UnsupportedDType"
      /\ result' = IF Supported(o, k, n) THEN Early(o, n, d) ELSE Nothing
      /\ parts' = IF Supported(o, k, n) /\ Early(o, n, d) = Nothing
                    THEN <<Piece(o, 0, n, <<>>)>> ELSE <<>>
  BY DEF Begin, ReductionInv
<1>2. n \in Nat /\ ~Idle'
  <2>1. o # "idle"
    BY DEF Ops, Folds, Selections, Tests
  <2> QED BY <1>1, <2>1 DEF Idle
<1>3. ASSUME Running'
      PROVE  Going'
  <2>1. Early(o, n, d) = Nothing /\ parts' = <<Piece(o, 0, n, <<>>)>>
    BY <1>1, <1>3 DEF Running
  <2>2. Types'
    BY <1>1 DEF Types
  <2>3. Pieces(parts)'
    BY <1>1, <2>1, <2>2, FirstPiecesNext
  <2>4. o \in Selections \cup {"mean"} => n > 0
    <3>1. ASSUME o \in Selections \cup {"mean"}, n = 0
          PROVE  Early(o, n, d) # Nothing
      <4>1. CASE o = "mean"
        BY <3>1, <4>1 DEF Early, Some, Nothing
      <4>2. CASE o \in {"min", "max"}
        BY <3>1, <4>2 DEF Early, Some, Nothing
      <4>3. CASE o \in {"argmin", "argmax"}
        BY <3>1, <4>3 DEF Early, Some, Nothing
      <4> QED BY <3>1, <4>1, <4>2, <4>3 DEF Selections
    <3> QED BY <1>2, <2>1, <3>1
  <2>5. o = "var" => n > d
    <3>1. ASSUME o = "var", n <= d
          PROVE  Early(o, n, d) # Nothing
      BY <3>1 DEF Early, Some, Nothing
    <3> QED BY <1>2, <2>1, <3>1
  <2> QED BY <1>1, <2>2, <2>3, <2>4, <2>5 DEF Going
<1>4. ReductionIsExact'
  <2>1. CASE result' = Nothing
    BY <2>1, NoResultNext
  <2>2. CASE result' # Nothing
    <3>1. result' = Early(op, Len(elems), ddof)' /\ (op \in Ops)'
      BY <1>1, <2>2
    <3>2. Exact(result[1])'
      BY <2>2, <3>1, EarlyIsExactNext
    <3> QED BY <3>2 DEF ReductionIsExact
  <2> QED BY <2>1, <2>2
<1> QED BY <1>2, <1>3, <1>4 DEF ReductionInv

\* Every step keeps the invariant.
LEMMA NextStep ==
  ASSUME ReductionInv, ReductionNext
  PROVE  ReductionInv'
<1>1. ASSUME NEW S, S \subseteq Int \cup {Unordered}, NEW e \in Seqs(S)
      PROVE  e \in Seq(Int \cup {Unordered})
  <2>1. PICK m \in 0..MaxLen : e \in [1..m -> S]
    BY <1>1 DEF Seqs
  <2>2. m \in Nat /\ e \in [1..m -> Int \cup {Unordered}]
    <3>1. ASSUME NEW T, S \subseteq T
          PROVE  e \in [1..m -> T]
      BY <2>1, <3>1
    <3> QED BY <1>1, <3>1, ReductionAssumption
  <2> QED BY <2>2, RowIs
<1>2. ASSUME NEW o \in Folds, NEW k \in {"bool", "real", "complex"}, NEW d \in {0, 1},
             NEW e \in Seqs({1}), Begin(o, k, e, d)
      PROVE  ReductionInv'
  <2>1. e \in Seq(Int \cup {Unordered}) /\ o \in Ops
    BY <1>1 DEF Ops
  <2> QED BY <1>2, <2>1, BeginStep
<1>3. ASSUME NEW o \in Selections \cup Tests, NEW k \in {"bool", "real", "complex"},
             NEW e \in Seqs(ElementsOf(k)), Begin(o, k, e, 0)
      PROVE  ReductionInv'
  <2>1. ElementsOf(k) \subseteq Int \cup {Unordered}
    <3>0. {0, 1} \subseteq Int
      OBVIOUS
    <3>1. Values \cup {Unordered} \subseteq Int \cup {Unordered} /\ {0, 1} \subseteq Int \cup {Unordered}
      BY <3>0, ReductionAssumption, Zenon
    <3>2. ElementsOf(k) = Values \cup {Unordered} \/ ElementsOf(k) = {0, 1}
      BY Zenon DEF ElementsOf
    <3> QED BY <3>1, <3>2
  <2>2. e \in Seq(Int \cup {Unordered}) /\ o \in Ops /\ 0 \in {0, 1}
    BY <1>1, <2>1 DEF Ops
  <2> QED BY <1>3, <2>2, BeginStep
<1>4. CASE Refuse
  BY <1>4, RefuseStep
<1>5. ASSUME NEW k \in DOMAIN parts, Halve(k) \/ Advance(k) \/ Stop(k)
      PROVE  ReductionInv'
  BY <1>5, HalveStep, AdvanceStep, StopStep
<1>6. ASSUME NEW k \in 1..(Len(parts) - 1), Join(k)
      PROVE  ReductionInv'
  BY <1>6, JoinStep
<1>7. CASE SecondPass
  BY <1>7, SecondPassStep
<1>8. CASE Finish
  BY <1>8, FinishStep
<1>9. CASE Return
  BY <1>9, ReturnStep
<1> QED BY <1>2, <1>3, <1>4, <1>5, <1>6, <1>7, <1>8, <1>9 DEF ReductionNext

\* However the elements are halved, and whichever pieces are folded, stopped or
\* joined first, a reduction that returns has combined every element once and in
\* its place; a minimum or maximum is an element, the least or greatest if all can
\* be compared, and its place the first such, or for the maximum of Bool the last.
THEOREM ReductionExact == ReductionSpec => []ReductionIsExact
<1>1. ReductionInit => ReductionInv
  BY NoResultYet DEF ReductionInit, ReductionInv, Idle, Running
<1>2. ReductionInv /\ [ReductionNext]_reductionVars => ReductionInv'
  <2>1. ASSUME ReductionInv, UNCHANGED reductionVars
        PROVE  ReductionInv'
    <3>1. result' = result /\ Running' = Running /\ Idle' = Idle
      BY <2>1 DEF reductionVars, Running, Idle
    <3>2. Running => Going'
      <4>1. ASSUME Running PROVE Going'
        BY <2>1, <4>1, PiecesSame DEF reductionVars, ReductionInv, Going
      <4> QED BY <4>1
    <3>3. \A out : Exact(out)' <=> Exact(out)
      BY <2>1 DEF reductionVars, Exact, Best, InOrder, Places, At, Comparable
    <3>4. ReductionIsExact'
      BY <2>1, <3>1, <3>3 DEF ReductionInv, ReductionIsExact
    <3> QED BY <2>1, <3>1, <3>2, <3>4 DEF ReductionInv, reductionVars, Idle, Running
  <2> QED BY <2>1, NextStep
<1>3. ReductionInv => ReductionIsExact
  BY DEF ReductionInv
<1> QED BY <1>1, <1>2, <1>3, PTL DEF ReductionSpec

---------------------------------------------------------------------------
\* Errors.

Smaller == {ss \in Nat \X Nat : ss[1] < ss[2]}

\* Every set of numbers has a least one.
LEMMA LessWellFounded ==
  IsWellFoundedOn(Smaller, Nat)
BY NatLessThanWellFounded DEF OpToRel, Smaller

\* ... and so one that none is less than.
LEMMA Least ==
  ASSUME NEW N \in SUBSET Nat, N # {}
  PROVE  \E n \in N : \A k \in N : n <= k
<1>1. PICK n \in N : \A k \in N : ~(<<k, n>> \in Smaller)
  BY LessWellFounded, WFMin
<1>2. \A k \in N : ~(k < n)
  BY <1>1 DEF Smaller
<1> QED BY <1>2

\* Induction on numbers, for a property that is given as the set of those that have it.
LEMMA Induction ==
  ASSUME NEW G \in SUBSET Nat, 0 \in G, \A n \in G : n + 1 \in G
  PROVE  Nat \subseteq G
<1> SUFFICES ASSUME ~(Nat \subseteq G) PROVE FALSE
  OBVIOUS
<1> DEFINE Bad == Nat \ G
<1>1. PICK n \in Bad : \A k \in Bad : n <= k
  BY Least
<1>2. n # 0 /\ n \in Nat
  BY <1>1
<1>3. n - 1 \in Nat /\ n - 1 \notin Bad
  BY <1>1, <1>2
<1>4. (n - 1) + 1 \in G
  BY <1>3
<1> QED BY <1>1, <1>2, <1>4

---------------------------------------------------------------------------
\* The levels of errors: the errors by themselves, and around each level those
\* that hold errors of it.
LEMMA LevelsAre ==
  /\ ErrorsUpTo[0] = Plain
  /\ \A n \in 0..(MaxNesting - 1) :
       ErrorsUpTo[n + 1] = Plain \cup Around(ErrorsUpTo[n])
<1> USE NestingAssumption
<1> DEFINE Equation(h, m) ==
             h = [n \in 0..m |-> IF n = 0 THEN Plain ELSE Plain \cup Around(h[n - 1])]
           G == {m \in Nat : \E h : Equation(h, m)}
<1>1. 0 \in G
  <2> DEFINE h == [n \in 0..0 |-> Plain]
  <2>1. Equation(h, 0)
    OBVIOUS
  <2> QED BY <2>1
<1>2. ASSUME NEW m \in G PROVE m + 1 \in G
  <2>1. m \in Nat /\ \E h : Equation(h, m)
    OBVIOUS
  <2>2. PICK f : Equation(f, m)
    BY <2>1
  <2> DEFINE h == [n \in 0..(m + 1) |-> IF n <= m THEN f[n] ELSE Plain \cup Around(f[m])]
  <2> HIDE DEF Equation
  <2>3. \A n \in 0..m : h[n] = f[n]
    BY <2>1
  <2>4. \A n \in 0..m : f[n] = IF n = 0 THEN Plain ELSE Plain \cup Around(f[n - 1])
    BY <2>1, <2>2 DEF Equation
  <2>5. ASSUME NEW n \in 0..(m + 1)
        PROVE  h[n] = IF n = 0 THEN Plain ELSE Plain \cup Around(h[n - 1])
    <3>1. CASE n <= m
      <4>1. n \in 0..m
        BY <2>1, <3>1
      <4>2. h[n] = IF n = 0 THEN Plain ELSE Plain \cup Around(f[n - 1])
        BY <2>3, <2>4, <4>1
      <4>3. n # 0 => h[n - 1] = f[n - 1]
        <5>1. n # 0 => n - 1 \in 0..m
          BY <2>1, <4>1
        <5> HIDE DEF h
        <5> QED BY <2>3, <5>1
      <4> HIDE DEF h
      <4> QED BY <4>2, <4>3
    <3>2. CASE n = m + 1
      <4>1. n # 0 /\ n - 1 = m /\ ~(n <= m) /\ m \in 0..m
        BY <2>1, <3>2
      <4>2. h[n] = Plain \cup Around(f[m])
        BY <4>1
      <4>3. h[n - 1] = f[m]
        BY <2>3, <4>1
      <4> QED BY <4>1, <4>2, <4>3
    <3> QED BY <2>1, <3>1, <3>2
  <2>6. Equation(h, m + 1)
    BY <2>5 DEF Equation
  <2> QED BY <2>1, <2>6
<1>3. MaxNesting \in G
  <2> HIDE DEF G
  <2>1. G \in SUBSET Nat
    BY DEF G
  <2> QED BY <1>1, <1>2, <2>1, Induction
<1>4. ErrorsUpTo = CHOOSE h : Equation(h, MaxNesting)
  BY DEF ErrorsUpTo
<1>5. Equation(ErrorsUpTo, MaxNesting)
  <2>1. \E h : Equation(h, MaxNesting)
    BY <1>3
  <2> HIDE DEF Equation
  <2> QED BY <1>4, <2>1
<1>6. \A n \in 0..MaxNesting :
        ErrorsUpTo[n] = IF n = 0 THEN Plain ELSE Plain \cup Around(ErrorsUpTo[n - 1])
  BY <1>5
<1> HIDE DEF Equation, G
<1>7. ASSUME NEW n \in 0..(MaxNesting - 1)
      PROVE  ErrorsUpTo[n + 1] = Plain \cup Around(ErrorsUpTo[n])
  <2>1. n + 1 \in 0..MaxNesting /\ n + 1 # 0 /\ (n + 1) - 1 = n
    OBVIOUS
  <2> QED BY <1>6, <2>1
<1>8. 0 \in 0..MaxNesting
  OBVIOUS
<1>9. ErrorsUpTo[0] = Plain
  BY <1>6, <1>8
<1> QED BY <1>7, <1>9

\* Each level holds the one below.
LEMMA LevelsGrow ==
  ASSUME NEW n \in 0..(MaxNesting - 1)
  PROVE  ErrorsUpTo[n] \subseteq ErrorsUpTo[n + 1]
<1> USE NestingAssumption
<1> DEFINE G == {m \in Nat : m < MaxNesting => ErrorsUpTo[m] \subseteq ErrorsUpTo[m + 1]}
<1>1. 0 \in G
  BY LevelsAre
<1>2. ASSUME NEW m \in G PROVE m + 1 \in G
  <2> SUFFICES ASSUME m + 1 < MaxNesting
               PROVE  ErrorsUpTo[m + 1] \subseteq ErrorsUpTo[(m + 1) + 1]
    OBVIOUS
  <2>1. m \in 0..(MaxNesting - 1) /\ m + 1 \in 0..(MaxNesting - 1) /\ m < MaxNesting
    OBVIOUS
  <2>2. /\ ErrorsUpTo[m + 1] = Plain \cup Around(ErrorsUpTo[m])
        /\ ErrorsUpTo[(m + 1) + 1] = Plain \cup Around(ErrorsUpTo[m + 1])
    BY <2>1, LevelsAre
  <2>3. ErrorsUpTo[m] \subseteq ErrorsUpTo[m + 1]
    BY <2>1
  <2> HIDE DEF G
  <2> DEFINE A == ErrorsUpTo[m]
             B == ErrorsUpTo[m + 1]
  <2>4. Around(A) \subseteq Around(B)
    <3>1. A \subseteq B
      BY <2>3
    <3> HIDE DEF A, B
    <3>2. Seq(A) \subseteq Seq(B)
      BY <3>1
    <3> QED BY <3>1, <3>2 DEF Around
  <2> QED BY <2>2, <2>4
<1>3. n \in G
  <2> HIDE DEF G
  <2>1. G \in SUBSET Nat
    BY DEF G
  <2> QED BY <1>1, <1>2, <2>1, Induction
<1> QED BY <1>3
\* Every level is among the errors.
LEMMA LevelIn ==
  ASSUME NEW n \in 0..MaxNesting
  PROVE  ErrorsUpTo[n] \subseteq Errors
<1> USE NestingAssumption
<1> DEFINE G == {k \in Nat : k <= MaxNesting => ErrorsUpTo[MaxNesting - k] \subseteq Errors}
<1>1. 0 \in G
  BY DEF Errors
<1>2. ASSUME NEW k \in G PROVE k + 1 \in G
  <2> SUFFICES ASSUME k + 1 <= MaxNesting
               PROVE  ErrorsUpTo[MaxNesting - (k + 1)] \subseteq Errors
    OBVIOUS
  <2> DEFINE m == MaxNesting - (k + 1)
  <2>1. m \in 0..(MaxNesting - 1) /\ m + 1 = MaxNesting - k /\ k <= MaxNesting
    OBVIOUS
  <2>2. ErrorsUpTo[m + 1] \subseteq Errors
    BY <2>1
  <2> QED BY <2>1, <2>2, LevelsGrow
<1>3. MaxNesting - n \in G
  <2> HIDE DEF G
  <2>1. G \in SUBSET Nat
    BY DEF G
  <2> QED BY <1>1, <1>2, <2>1, Induction
<1>4. MaxNesting - (MaxNesting - n) = n /\ MaxNesting - n <= MaxNesting
  OBVIOUS
<1> QED BY <1>3, <1>4

\* What holds another error is no variant by itself.
LEMMA VariantsApart ==
  "Context" \notin Variants /\ "Multiple" \notin Variants
<1>1. ASSUME NEW i \in DOMAIN Domains PROVE "Multiple" \notin ToSet(Domains[i])
  <2>1. i \in 1..10
    BY DEF Domains
  <2>2. Domains[i] \in {Shape, Typing, Index, Memory, Compute, Files, DLPack, Arrow, Python, General}
    BY <2>1 DEF Domains
  <2> QED BY <2>2 DEF ToSet, Shape, Typing, Index, Memory, Compute, Files, DLPack, Arrow,
                      Python, General
<1> QED BY <1>1 DEF Variants

\* An error of a level is one by itself or holds errors of the level below.
LEMMA PartsOf ==
  ASSUME NEW n \in 0..MaxNesting, NEW e \in ErrorsUpTo[n]
  PROVE  \/ e \in Plain /\ e.variant \in Variants
         \/ /\ n > 0
            /\ e.variant = "Context"
            /\ e.context \in Labels
            /\ e.source \in ErrorsUpTo[n - 1]
            /\ e = Context(e.context, e.source)
         \/ /\ n > 0
            /\ e.variant = "Multiple"
            /\ e.errors \in Seq(ErrorsUpTo[n - 1]) \ {<<>>}
            /\ e = Multiple(e.errors)
<1> USE NestingAssumption
<1>1. CASE e \in Plain
  BY <1>1 DEF Plain
<1>2. CASE e \notin Plain
  <2>1. n # 0
    BY <1>2, LevelsAre
  <2>2. n - 1 \in 0..(MaxNesting - 1) /\ (n - 1) + 1 = n
    BY <2>1
  <2>3. ErrorsUpTo[n] = Plain \cup Around(ErrorsUpTo[n - 1])
    <3>1. ErrorsUpTo[(n - 1) + 1] = Plain \cup Around(ErrorsUpTo[n - 1])
      BY <2>2, LevelsAre
    <3> QED BY <2>2, <3>1
  <2> DEFINE A == ErrorsUpTo[n - 1]
  <2>4. e \in Around(A)
    BY <1>2, <2>3
  <2> HIDE DEF A
  <2>5. CASE e \in [variant : {"Context"}, context : Labels, source : A]
    <3>1. e.variant = "Context" /\ e.context \in Labels /\ e.source \in A
      BY <2>5
    <3>2. e = Context(e.context, e.source)
      BY <2>5 DEF Context
    <3> QED BY <2>1, <3>1, <3>2 DEF A
  <2>6. CASE e \in [variant : {"Multiple"}, errors : Seq(A) \ {<<>>}]
    <3>1. e.variant = "Multiple" /\ e.errors \in Seq(A) \ {<<>>}
      BY <2>6
    <3>2. e = Multiple(e.errors)
      BY <2>6 DEF Multiple
    <3> QED BY <2>1, <3>1, <3>2 DEF A
  <2> QED BY <2>4, <2>5, <2>6 DEF Around
<1> QED BY <1>1, <1>2

\* ... and of the errors: one by itself, or one that holds errors.
LEMMA PartsOfErrors ==
  ASSUME NEW e \in Errors
  PROVE  \/ e \in Plain /\ e.variant \in Variants
         \/ /\ e.variant = "Context"
            /\ e.context \in Labels
            /\ e.source \in Errors
            /\ e = Context(e.context, e.source)
         \/ /\ e.variant = "Multiple"
            /\ e.errors \in Seq(Errors) \ {<<>>}
            /\ e = Multiple(e.errors)
<1> USE NestingAssumption
<1>1. MaxNesting \in 0..MaxNesting /\ e \in ErrorsUpTo[MaxNesting]
  BY DEF Errors
<1>2. MaxNesting > 0 => ErrorsUpTo[MaxNesting - 1] \subseteq Errors
  <2>1. MaxNesting > 0 => MaxNesting - 1 \in 0..MaxNesting
    OBVIOUS
  <2> QED BY <2>1, LevelIn
<1>3. MaxNesting > 0 => Seq(ErrorsUpTo[MaxNesting - 1]) \subseteq Seq(Errors)
  BY <1>2
<1> QED BY <1>1, <1>2, <1>3, PartsOf

\* The variants by themselves are errors.
LEMMA PlainIsError ==
  Plain \subseteq Errors
<1>1. 0 \in 0..MaxNesting
  BY NestingAssumption
<1> QED BY <1>1, LevelsAre, LevelIn

\* A set has every error that has each one by itself, and each one all of whose
\* parts it has.
LEMMA ErrorInduction ==
  ASSUME NEW S, Plain \subseteq S,
         \A e \in Errors : e.variant = "Context" /\ e.source \in S => e \in S,
         \A e \in Errors : e.variant = "Multiple" /\ ToSet(e.errors) \subseteq S => e \in S
  PROVE  Errors \subseteq S
<1> USE NestingAssumption
<1> DEFINE G == {n \in Nat : n <= MaxNesting => ErrorsUpTo[n] \subseteq S}
<1>1. 0 \in G
  BY LevelsAre
<1>2. ASSUME NEW n \in G PROVE n + 1 \in G
  <2> SUFFICES ASSUME n + 1 <= MaxNesting, NEW e \in ErrorsUpTo[n + 1]
               PROVE  e \in S
    OBVIOUS
  <2>1. n + 1 \in 0..MaxNesting /\ (n + 1) - 1 = n /\ n <= MaxNesting /\ n \in 0..MaxNesting
    OBVIOUS
  <2>2. ErrorsUpTo[n] \subseteq S
    BY <2>1
  <2>3. e \in Errors
    BY <2>1, LevelIn
  <2> HIDE DEF G
  <2>4. \/ e \in Plain
        \/ e.variant = "Context" /\ e.source \in ErrorsUpTo[n]
        \/ e.variant = "Multiple" /\ e.errors \in Seq(ErrorsUpTo[n])
    BY <2>1, PartsOf
  <2>5. CASE e.variant = "Multiple" /\ e.errors \in Seq(ErrorsUpTo[n])
    <3>1. ToSet(e.errors) \subseteq ErrorsUpTo[n]
      BY <2>5 DEF ToSet
    <3> QED BY <2>2, <2>3, <2>5, <3>1
  <2> QED BY <2>2, <2>3, <2>4, <2>5
<1>3. MaxNesting \in G
  <2> HIDE DEF G
  <2>1. G \in SUBSET Nat
    BY DEF G
  <2> QED BY <1>1, <1>2, <2>1, Induction
<1> QED BY <1>3 DEF Errors

---------------------------------------------------------------------------
\* Recursion over errors.  A function of the errors is given by its values a
\* for each by itself, b for one in a context, from the value of its source,
\* and c for a Multiple, from the values of its errors: there is such a
\* function.
ByParts(f, e, a, b, c) ==
  CASE e.variant = "Context" -> b[<<e, f[e.source]>>]
    [] e.variant = "Multiple" -> c[<<e, [i \in DOMAIN e.errors |-> f[e.errors[i]]]>>]
    [] OTHER -> a[e]

Solutions(T, a, b, c) ==
  {f \in [Errors -> T] : \A e \in Errors : f[e] = ByParts(f, e, a, b, c)}

\* A function applied to the elements of a sequence.
LEMMA MappedSeq ==
  ASSUME NEW S, NEW T, NEW s \in Seq(S), NEW f, \A x \in S : f[x] \in T
  PROVE  /\ [i \in DOMAIN s |-> f[s[i]]] \in Seq(T)
         /\ Len([i \in DOMAIN s |-> f[s[i]]]) = Len(s)
<1> DEFINE values == [i \in DOMAIN s |-> f[s[i]]]
<1>1. /\ Len(s) \in Nat
      /\ DOMAIN s = 1..Len(s)
      /\ \A i \in 1..Len(s) : s[i] \in S
  OBVIOUS
<1>2. values \in [1..Len(s) -> T]
  BY <1>1
<1> HIDE DEF values
<1>3. values \in Seq(T)
  BY <1>1, <1>2, SeqDef
<1>4. Len(values) = Len(s)
  BY <1>1, <1>2, <1>3, LenProperties
<1> QED BY <1>3, <1>4 DEF values

\* By induction on the levels: a solution for one is extended to the next.
LEMMA RecursionExists ==
  ASSUME NEW T, NEW a \in [Errors -> T], NEW b \in [Errors \X T -> T],
         NEW c \in [Errors \X Seq(T) -> T]
  PROVE  Solutions(T, a, b, c) # {}
<1> USE NestingAssumption
<1> DEFINE Solves(f, n) == /\ f \in [ErrorsUpTo[n] -> T]
                           /\ \A e \in ErrorsUpTo[n] : f[e] = ByParts(f, e, a, b, c)
           G == {n \in Nat : n <= MaxNesting => \E f : Solves(f, n)}
<1>1. 0 \in G
  <2> DEFINE f == [e \in Plain |-> a[e]]
  <2>1. f \in [Plain -> T]
    BY PlainIsError
  <2>2. ASSUME NEW e \in Plain PROVE f[e] = ByParts(f, e, a, b, c)
    <3>1. e.variant # "Context" /\ e.variant # "Multiple"
      BY VariantsApart DEF Plain
    <3> QED BY <3>1 DEF ByParts
  <2>3. Solves(f, 0)
    BY <2>1, <2>2, LevelsAre
  <2> QED BY <2>3
<1>2. ASSUME NEW n \in G PROVE n + 1 \in G
  <2> SUFFICES ASSUME n + 1 <= MaxNesting
               PROVE  \E g : Solves(g, n + 1)
    OBVIOUS
  <2>1. n \in 0..MaxNesting /\ n + 1 \in 0..MaxNesting /\ (n + 1) - 1 = n
        /\ n \in 0..(MaxNesting - 1)
    OBVIOUS
  <2>2. PICK f : Solves(f, n)
    BY <2>1
  <2> DEFINE L == ErrorsUpTo[n]
             M == ErrorsUpTo[n + 1]
             g == [e \in M |-> ByParts(f, e, a, b, c)]
  <2>3. L \subseteq M
    BY <2>1, LevelsGrow
  <2>4. M \subseteq Errors
    BY <2>1, LevelIn
  <2>5. \A e \in M : \/ e \in Plain /\ e.variant \notin {"Context", "Multiple"}
                     \/ e.variant = "Context" /\ e.source \in L
                     \/ e.variant = "Multiple" /\ e.errors \in Seq(L)
    BY <2>1, PartsOf, VariantsApart
  <2>6. f \in [L -> T] /\ \A e \in L : f[e] = ByParts(f, e, a, b, c)
    BY <2>2
  <2> HIDE DEF L, M, G, Solves
  <2>7. ASSUME NEW e \in M PROVE ByParts(f, e, a, b, c) \in T
    <3>1. CASE e \in Plain /\ e.variant \notin {"Context", "Multiple"}
      BY <2>4, <3>1 DEF ByParts
    <3>2. CASE e.variant = "Context" /\ e.source \in L
      <4>1. <<e, f[e.source]>> \in Errors \X T
        BY <2>4, <2>6, <3>2
      <4> QED BY <3>2, <4>1 DEF ByParts
    <3>3. CASE e.variant = "Multiple" /\ e.errors \in Seq(L)
      <4> DEFINE values == [i \in DOMAIN e.errors |-> f[e.errors[i]]]
      <4>1. values \in Seq(T)
        <5>1. \A x \in L : f[x] \in T
          BY <2>6
        <5> QED BY <3>3, <5>1, MappedSeq
      <4>2. <<e, values>> \in Errors \X Seq(T)
        BY <2>4, <4>1
      <4> HIDE DEF values
      <4>3. c[<<e, values>>] \in T
        BY <4>2
      <4> QED BY <3>3, <4>3 DEF ByParts, values
    <3> QED BY <2>5, <3>1, <3>2, <3>3
  <2>8. g \in [M -> T]
    BY <2>7
  <2>9. \A e \in L : g[e] = f[e]
    BY <2>3, <2>6
  <2>10. ASSUME NEW e \in M PROVE g[e] = ByParts(g, e, a, b, c)
    <3>1. g[e] = ByParts(f, e, a, b, c)
      OBVIOUS
    <3> HIDE DEF g
    <3>2. CASE e \in Plain /\ e.variant \notin {"Context", "Multiple"}
      BY <3>1, <3>2 DEF ByParts
    <3>3. CASE e.variant = "Context" /\ e.source \in L
      BY <2>9, <3>1, <3>3 DEF ByParts
    <3>4. CASE e.variant = "Multiple" /\ e.errors \in Seq(L)
      <4>1. \A i \in DOMAIN e.errors : e.errors[i] \in L
        BY <3>4
      <4>2. [i \in DOMAIN e.errors |-> f[e.errors[i]]] = [i \in DOMAIN e.errors |-> g[e.errors[i]]]
        BY <2>9, <4>1
      <4> QED BY <3>1, <3>4, <4>2 DEF ByParts
    <3> QED BY <2>5, <3>2, <3>3, <3>4
  <2>11. Solves(g, n + 1)
    <3>1. g \in [ErrorsUpTo[n + 1] -> T]
      BY <2>8 DEF M
    <3>2. \A e \in ErrorsUpTo[n + 1] : g[e] = ByParts(g, e, a, b, c)
      BY <2>10 DEF M
    <3> HIDE DEF g
    <3> QED BY <3>1, <3>2 DEF Solves
  <2> QED BY <2>11
<1>3. MaxNesting \in G
  <2> HIDE DEF G
  <2>1. G \in SUBSET Nat
    BY DEF G
  <2> QED BY <1>1, <1>2, <2>1, Induction
<1>4. PICK f : Solves(f, MaxNesting)
  BY <1>3
<1> QED BY <1>4 DEF Errors, Solutions


---------------------------------------------------------------------------

\* What is computed along a chain of contexts, from the value a of the error
\* under them and, by b, in each context from the value under it.
ChainSolutions(T, a, b) ==
  {f \in [Errors -> T] :
     \A e \in Errors : f[e] = IF e.variant = "Context" THEN b[<<e, f[e.source]>>] ELSE a[e]}

\* Root, Chain, ContextMessages and Depth do not look inside a Multiple.
LEMMA ChainRecursion ==
  ASSUME NEW T, NEW a \in [Errors -> T], NEW b \in [Errors \X T -> T]
  PROVE  ChainSolutions(T, a, b) # {}
<1> DEFINE c == [p \in Errors \X Seq(T) |-> a[p[1]]]
<1>1. c \in [Errors \X Seq(T) -> T]
  OBVIOUS
<1> HIDE DEF c
<1>2. Solutions(T, a, b, c) # {}
  BY <1>1, RecursionExists
<1>3. PICK f \in Solutions(T, a, b, c) : TRUE
  BY <1>2
<1>4. f \in [Errors -> T] /\ \A e \in Errors : f[e] = ByParts(f, e, a, b, c)
  BY DEF Solutions
<1>5. ASSUME NEW e \in Errors
      PROVE  f[e] = IF e.variant = "Context" THEN b[<<e, f[e.source]>>] ELSE a[e]
  <2>1. CASE e.variant = "Context"
    BY <1>4, <2>1 DEF ByParts
  <2>2. CASE e.variant = "Multiple"
    <3> DEFINE values == [i \in DOMAIN e.errors |-> f[e.errors[i]]]
    <3>1. e.errors \in Seq(Errors)
      BY <2>2, PartsOfErrors, VariantsApart
    <3>2. values \in Seq(T)
      <4>1. \A x \in Errors : f[x] \in T
        BY <1>4
      <4> QED BY <3>1, <4>1, MappedSeq
    <3>3. f[e] = c[<<e, values>>]
      BY <1>4, <2>2 DEF ByParts
    <3> HIDE DEF values
    <3>4. <<e, values>> \in Errors \X Seq(T) /\ <<e, values>>[1] = e
      BY <3>2
    <3>5. c[<<e, values>>] = a[e]
      BY <3>4 DEF c
    <3> QED BY <2>2, <3>3, <3>5
  <2>3. CASE e.variant # "Context" /\ e.variant # "Multiple"
    BY <1>4, <2>3 DEF ByParts
  <2> QED BY <2>1, <2>2, <2>3
<1> QED BY <1>4, <1>5 DEF ChainSolutions

\* A set has every error that has those without a context, and each in a
\* context whose source it has.
LEMMA ChainInduction ==
  ASSUME NEW S,
         \A e \in Errors : e.variant # "Context" => e \in S,
         \A e \in Errors : e.variant = "Context" /\ e.source \in S => e \in S
  PROVE  Errors \subseteq S
<1>1. Plain \subseteq S
  <2>1. \A e \in Plain : e \in Errors /\ e.variant # "Context"
    BY PlainIsError, VariantsApart DEF Plain
  <2> QED BY <2>1
<1>2. \A e \in Errors : e.variant = "Multiple" => e \in S
  OBVIOUS
<1> QED BY <1>1, <1>2, ErrorInduction

\* The source of a context, and the errors of a Multiple.
LEMMA Inside ==
  ASSUME NEW e \in Errors
  PROVE  /\ e.variant = "Context" => e.source \in Errors /\ e.context \in Labels
         /\ e.variant = "Multiple" => e.errors \in Seq(Errors) \ {<<>>}
         /\ e.variant \notin {"Context", "Multiple"} => e.variant \in Variants
<1> QED BY PartsOfErrors, VariantsApart

\* The functions of MohuError along a chain, each by its equation and its type.
LEMMA RootIs ==
  /\ Root \in [Errors -> Errors]
  /\ \A e \in Errors :
       Root[e] = IF e.variant = "Context" THEN Root[e.source] ELSE e
<1> DEFINE Equation(h) ==
             h = [e \in Errors |->
                    IF e.variant = "Context" THEN h[e.source] ELSE e]
           a == [e \in Errors |-> e]
           b == [p \in Errors \X Errors |->
                   IF p[1].variant = "Context" THEN p[2] ELSE p[1]]
<1>1. \E h : Equation(h)
  <2>1. a \in [Errors -> Errors] /\ b \in [Errors \X Errors -> Errors]
    BY Inside
  <2>2. PICK f \in ChainSolutions(Errors, a, b) : TRUE
    <3> HIDE DEF a, b
    <3>1. ChainSolutions(Errors, a, b) # {}
      BY <2>1, ChainRecursion
    <3> QED BY <3>1
  <2>3. /\ f \in [Errors -> Errors]
        /\ \A e \in Errors :
             f[e] = IF e.variant = "Context" THEN b[<<e, f[e.source]>>] ELSE a[e]
    BY DEF ChainSolutions
  <2>4. ASSUME NEW e \in Errors
        PROVE  f[e] = IF e.variant = "Context" THEN f[e.source] ELSE e
    <3>1. e.variant = "Context" => e.source \in Errors
      BY Inside
    <3> QED BY <2>3, <3>1
  <2>5. Equation(f)
    BY <2>3, <2>4
  <2> HIDE DEF Equation
  <2> QED BY <2>5
<1>2. Root = CHOOSE h : Equation(h)
  BY DEF Root
<1>3. Equation(Root)
  <2> HIDE DEF Equation
  <2> QED BY <1>1, <1>2
<1>4. \A e \in Errors :
        Root[e] = IF e.variant = "Context" THEN Root[e.source] ELSE e
  BY <1>3
<1> DEFINE S == {e \in Errors : Root[e] \in Errors}
<1>5. Errors \subseteq S
  <2>1. ASSUME NEW e \in Errors, e.variant # "Context" PROVE e \in S
    <3>1. Root[e] = e
      BY <1>4, <2>1
    <3>2. e \in Errors
      OBVIOUS
    <3> QED BY <3>1, <3>2
  <2>2. ASSUME NEW e \in Errors, e.variant = "Context", e.source \in S PROVE e \in S
    <3> DEFINE below == Root[e.source]
    <3>1. below \in Errors
      BY <2>2
    <3>2. Root[e] = below
      BY <1>4, <2>2
    <3> HIDE DEF below
    <3>3. below \in Errors
      BY <2>2, <3>1, Inside
    <3> QED BY <3>2, <3>3
  <2> HIDE DEF S, Equation
  <2> QED BY <2>1, <2>2, ChainInduction
<1>6. Root \in [Errors -> Errors]
  <2>1. \A e \in Errors : Root[e] \in Errors
    BY <1>5
  <2> QED BY <1>3, <2>1
<1> QED BY <1>4, <1>6

\* What the iterator yields: the error and then what it yields of the source.
LEMMA ChainIs ==
  /\ Chain \in [Errors -> Seq(Errors)]
  /\ \A e \in Errors :
       Chain[e] = IF e.variant = "Context" THEN <<e>> \o Chain[e.source] ELSE <<e>>
<1> DEFINE Equation(h) ==
             h = [e \in Errors |->
                    IF e.variant = "Context" THEN <<e>> \o h[e.source] ELSE <<e>>]
           a == [e \in Errors |-> <<e>>]
           b == [p \in Errors \X Seq(Errors) |->
                   IF p[1].variant = "Context" THEN <<p[1]>> \o p[2] ELSE <<p[1]>>]
<1>1. \E h : Equation(h)
  <2>1. a \in [Errors -> Seq(Errors)] /\ b \in [Errors \X Seq(Errors) -> Seq(Errors)]
    BY Inside
  <2>2. PICK f \in ChainSolutions(Seq(Errors), a, b) : TRUE
    <3> HIDE DEF a, b
    <3>1. ChainSolutions(Seq(Errors), a, b) # {}
      BY <2>1, ChainRecursion
    <3> QED BY <3>1
  <2>3. /\ f \in [Errors -> Seq(Errors)]
        /\ \A e \in Errors :
             f[e] = IF e.variant = "Context" THEN b[<<e, f[e.source]>>] ELSE a[e]
    BY DEF ChainSolutions
  <2>4. ASSUME NEW e \in Errors
        PROVE  f[e] = IF e.variant = "Context" THEN <<e>> \o f[e.source] ELSE <<e>>
    <3>1. e.variant = "Context" => e.source \in Errors
      BY Inside
    <3> QED BY <2>3, <3>1
  <2>5. Equation(f)
    BY <2>3, <2>4
  <2> HIDE DEF Equation
  <2> QED BY <2>5
<1>2. Chain = CHOOSE h : Equation(h)
  BY DEF Chain
<1>3. Equation(Chain)
  <2> HIDE DEF Equation
  <2> QED BY <1>1, <1>2
<1>4. \A e \in Errors :
        Chain[e] = IF e.variant = "Context" THEN <<e>> \o Chain[e.source] ELSE <<e>>
  BY <1>3
<1> DEFINE S == {e \in Errors : Chain[e] \in Seq(Errors)}
<1>5. Errors \subseteq S
  <2>1. ASSUME NEW e \in Errors, e.variant # "Context" PROVE e \in S
    <3>1. Chain[e] = <<e>>
      BY <1>4, <2>1
    <3>2. <<e>> \in Seq(Errors)
      OBVIOUS
    <3> QED BY <3>1, <3>2
  <2>2. ASSUME NEW e \in Errors, e.variant = "Context", e.source \in S PROVE e \in S
    <3> DEFINE below == Chain[e.source]
    <3>1. below \in Seq(Errors)
      BY <2>2
    <3>2. Chain[e] = <<e>> \o below
      BY <1>4, <2>2
    <3> HIDE DEF below
    <3>3. <<e>> \o below \in Seq(Errors)
      BY <2>2, <3>1, Inside
    <3> QED BY <3>2, <3>3
  <2> HIDE DEF S, Equation
  <2> QED BY <2>1, <2>2, ChainInduction
<1>6. Chain \in [Errors -> Seq(Errors)]
  <2>1. \A e \in Errors : Chain[e] \in Seq(Errors)
    BY <1>5
  <2> QED BY <1>3, <2>1
<1> QED BY <1>4, <1>6

\* The texts of the contexts, outermost first.
LEMMA ContextMessagesIs ==
  /\ ContextMessages \in [Errors -> Seq(Labels)]
  /\ \A e \in Errors :
       ContextMessages[e] = IF e.variant = "Context" THEN <<e.context>> \o ContextMessages[e.source] ELSE <<>>
<1> DEFINE Equation(h) ==
             h = [e \in Errors |->
                    IF e.variant = "Context" THEN <<e.context>> \o h[e.source] ELSE <<>>]
           a == [e \in Errors |-> <<>>]
           b == [p \in Errors \X Seq(Labels) |->
                   IF p[1].variant = "Context" THEN <<p[1].context>> \o p[2] ELSE <<>>]
<1>1. \E h : Equation(h)
  <2>1. a \in [Errors -> Seq(Labels)] /\ b \in [Errors \X Seq(Labels) -> Seq(Labels)]
    BY Inside
  <2>2. PICK f \in ChainSolutions(Seq(Labels), a, b) : TRUE
    <3> HIDE DEF a, b
    <3>1. ChainSolutions(Seq(Labels), a, b) # {}
      BY <2>1, ChainRecursion
    <3> QED BY <3>1
  <2>3. /\ f \in [Errors -> Seq(Labels)]
        /\ \A e \in Errors :
             f[e] = IF e.variant = "Context" THEN b[<<e, f[e.source]>>] ELSE a[e]
    BY DEF ChainSolutions
  <2>4. ASSUME NEW e \in Errors
        PROVE  f[e] = IF e.variant = "Context" THEN <<e.context>> \o f[e.source] ELSE <<>>
    <3>1. e.variant = "Context" => e.source \in Errors
      BY Inside
    <3> QED BY <2>3, <3>1
  <2>5. Equation(f)
    BY <2>3, <2>4
  <2> HIDE DEF Equation
  <2> QED BY <2>5
<1>2. ContextMessages = CHOOSE h : Equation(h)
  BY DEF ContextMessages
<1>3. Equation(ContextMessages)
  <2> HIDE DEF Equation
  <2> QED BY <1>1, <1>2
<1>4. \A e \in Errors :
        ContextMessages[e] = IF e.variant = "Context" THEN <<e.context>> \o ContextMessages[e.source] ELSE <<>>
  BY <1>3
<1> DEFINE S == {e \in Errors : ContextMessages[e] \in Seq(Labels)}
<1>5. Errors \subseteq S
  <2>1. ASSUME NEW e \in Errors, e.variant # "Context" PROVE e \in S
    <3>1. ContextMessages[e] = <<>>
      BY <1>4, <2>1
    <3>2. <<>> \in Seq(Labels)
      OBVIOUS
    <3> QED BY <3>1, <3>2
  <2>2. ASSUME NEW e \in Errors, e.variant = "Context", e.source \in S PROVE e \in S
    <3> DEFINE below == ContextMessages[e.source]
    <3>1. below \in Seq(Labels)
      BY <2>2
    <3>2. ContextMessages[e] = <<e.context>> \o below
      BY <1>4, <2>2
    <3> HIDE DEF below
    <3>3. <<e.context>> \o below \in Seq(Labels)
      BY <2>2, <3>1, Inside
    <3> QED BY <3>2, <3>3
  <2> HIDE DEF S, Equation
  <2> QED BY <2>1, <2>2, ChainInduction
<1>6. ContextMessages \in [Errors -> Seq(Labels)]
  <2>1. \A e \in Errors : ContextMessages[e] \in Seq(Labels)
    BY <1>5
  <2> QED BY <1>3, <2>1
<1> QED BY <1>4, <1>6

\* The number of contexts.
LEMMA DepthIs ==
  /\ Depth \in [Errors -> Nat]
  /\ \A e \in Errors :
       Depth[e] = IF e.variant = "Context" THEN 1 + Depth[e.source] ELSE 0
<1> DEFINE Equation(h) ==
             h = [e \in Errors |->
                    IF e.variant = "Context" THEN 1 + h[e.source] ELSE 0]
           a == [e \in Errors |-> 0]
           b == [p \in Errors \X Nat |->
                   IF p[1].variant = "Context" THEN 1 + p[2] ELSE 0]
<1>1. \E h : Equation(h)
  <2>1. a \in [Errors -> Nat] /\ b \in [Errors \X Nat -> Nat]
    BY Inside
  <2>2. PICK f \in ChainSolutions(Nat, a, b) : TRUE
    <3> HIDE DEF a, b
    <3>1. ChainSolutions(Nat, a, b) # {}
      BY <2>1, ChainRecursion
    <3> QED BY <3>1
  <2>3. /\ f \in [Errors -> Nat]
        /\ \A e \in Errors :
             f[e] = IF e.variant = "Context" THEN b[<<e, f[e.source]>>] ELSE a[e]
    BY DEF ChainSolutions
  <2>4. ASSUME NEW e \in Errors
        PROVE  f[e] = IF e.variant = "Context" THEN 1 + f[e.source] ELSE 0
    <3>1. e.variant = "Context" => e.source \in Errors
      BY Inside
    <3> QED BY <2>3, <3>1
  <2>5. Equation(f)
    BY <2>3, <2>4
  <2> HIDE DEF Equation
  <2> QED BY <2>5
<1>2. Depth = CHOOSE h : Equation(h)
  BY DEF Depth
<1>3. Equation(Depth)
  <2> HIDE DEF Equation
  <2> QED BY <1>1, <1>2
<1>4. \A e \in Errors :
        Depth[e] = IF e.variant = "Context" THEN 1 + Depth[e.source] ELSE 0
  BY <1>3
<1> DEFINE S == {e \in Errors : Depth[e] \in Nat}
<1>5. Errors \subseteq S
  <2>1. ASSUME NEW e \in Errors, e.variant # "Context" PROVE e \in S
    <3>1. Depth[e] = 0
      BY <1>4, <2>1
    <3>2. 0 \in Nat
      OBVIOUS
    <3> QED BY <3>1, <3>2
  <2>2. ASSUME NEW e \in Errors, e.variant = "Context", e.source \in S PROVE e \in S
    <3> DEFINE below == Depth[e.source]
    <3>1. below \in Nat
      BY <2>2
    <3>2. Depth[e] = 1 + below
      BY <1>4, <2>2
    <3> HIDE DEF below
    <3>3. 1 + below \in Nat
      BY <2>2, <3>1, Inside
    <3> QED BY <3>2, <3>3
  <2> HIDE DEF S, Equation
  <2> QED BY <2>1, <2>2, ChainInduction
<1>6. Depth \in [Errors -> Nat]
  <2>1. \A e \in Errors : Depth[e] \in Nat
    BY <1>5
  <2> QED BY <1>3, <2>1
<1> QED BY <1>4, <1>6

\* The root of an error is in no context, and its own root.
LEMMA RootOfRoot ==
  ASSUME NEW e \in Errors
  PROVE  Root[e] \in Errors /\ Root[e].variant # "Context" /\ Root[Root[e]] = Root[e]
<1> DEFINE S == {x \in Errors : Root[x].variant # "Context"}
<1>1. Errors \subseteq S
  <2>1. \A x \in Errors : x.variant # "Context" => x \in S
    BY RootIs
  <2>2. \A x \in Errors : x.variant = "Context" /\ x.source \in S => x \in S
    BY RootIs
  <2> HIDE DEF S
  <2> QED BY <2>1, <2>2, ChainInduction
<1> QED BY <1>1, RootIs

\* The worst of some kinds is one of them, and none is worse.
LEMMA WorstIs ==
  ASSUME NEW K \in SUBSET ErrorKinds
  PROVE  /\ Worst(K) \in ErrorKinds
         /\ K # {} => Worst(K) \in K /\ \A k \in K : k <= Worst(K)
<1> USE DEF ErrorKinds, Usage, Runtime, System, InternalKind
<1>1. CASE K = {}
  BY <1>1 DEF Worst
<1>2. CASE K # {}
  <2>1. \E k \in K : \A j \in K : k >= j
    <3>1. CASE 3 \in K
      BY <3>1
    <3>2. CASE 3 \notin K /\ 2 \in K
      BY <3>2
    <3>3. CASE 3 \notin K /\ 2 \notin K /\ 1 \in K
      BY <3>3
    <3>4. CASE K = {0}
      BY <3>4
    <3> QED BY <1>2, <3>1, <3>2, <3>3, <3>4
  <2>2. Max(K) \in K /\ \A j \in K : Max(K) >= j
    BY <2>1 DEF Max
  <2>3. Worst(K) = Max(K)
    BY <1>2 DEF Worst
  <2> QED BY <2>2, <2>3
<1> QED BY <1>1, <1>2

\* A code has one of the four kinds.
LEMMA KindFromType ==
  ASSUME NEW code
  PROVE  KindFrom(code) \in ErrorKinds
BY DEF KindFrom, ErrorKinds, Usage, Runtime, System, InternalKind

\* The kind of an error by itself.
KindAlone(e) == IF e.variant = "Internal" THEN InternalKind ELSE KindFrom(e.variant)

\* The kind of an error, from the kinds of its parts.
LEMMA KindIs ==
  /\ Kind \in [Errors -> ErrorKinds]
  /\ \A e \in Errors :
       Kind[e] = CASE e.variant = "Context" -> Kind[e.source]
                   [] e.variant = "Multiple" -> Worst({Kind[x] : x \in ToSet(e.errors)})
                   [] OTHER -> KindAlone(e)
<1> DEFINE Body(h, r) ==
             CASE r.variant = "Internal" -> InternalKind
               [] r.variant = "Multiple" -> Worst({h[x] : x \in ToSet(r.errors)})
               [] OTHER -> KindFrom(Code(r))
           Equation(h) ==
             h = [e \in Errors |->
                    LET root == Root[e]
                    IN IF root.variant = "Internal" THEN InternalKind
                       ELSE IF root.variant = "Multiple"
                              THEN Worst({h[x] : x \in ToSet(root.errors)})
                              ELSE KindFrom(Code(root))]
           a == [e \in Errors |-> KindAlone(e)]
           b == [p \in Errors \X ErrorKinds |-> p[2]]
           c == [p \in Errors \X Seq(ErrorKinds) |-> Worst(ToSet(p[2]))]
           ByPartsOf(h, e) ==
             CASE e.variant = "Context" -> h[e.source]
               [] e.variant = "Multiple" -> Worst({h[x] : x \in ToSet(e.errors)})
               [] OTHER -> KindAlone(e)
<1>0. ASSUME NEW h, NEW r \in Errors, r.variant # "Context"
      PROVE  ByPartsOf(h, r) = Body(h, r)
  <2>1. CASE r.variant = "Multiple"
    BY <2>1
  <2>2. CASE r.variant # "Multiple"
    BY <1>0, <2>2 DEF KindAlone, Code
  <2> QED BY <2>1, <2>2
<1>1. \E h : Equation(h)
  <2>1. a \in [Errors -> ErrorKinds]
    BY KindFromType DEF KindAlone, ErrorKinds
  <2>2. b \in [Errors \X ErrorKinds -> ErrorKinds]
    OBVIOUS
  <2>3. c \in [Errors \X Seq(ErrorKinds) -> ErrorKinds]
    <3>1. ASSUME NEW s \in Seq(ErrorKinds) PROVE Worst(ToSet(s)) \in ErrorKinds
      <4>1. ToSet(s) \in SUBSET ErrorKinds
        BY DEF ToSet
      <4> QED BY <4>1, WorstIs
    <3> QED BY <3>1
  <2>4. PICK f \in Solutions(ErrorKinds, a, b, c) : TRUE
    <3> HIDE DEF a, b, c
    <3>1. Solutions(ErrorKinds, a, b, c) # {}
      BY <2>1, <2>2, <2>3, RecursionExists
    <3> QED BY <3>1
  <2>5. f \in [Errors -> ErrorKinds] /\ \A e \in Errors : f[e] = ByParts(f, e, a, b, c)
    BY DEF Solutions
  <2>6. ASSUME NEW e \in Errors PROVE f[e] = ByPartsOf(f, e)
    <3>1. CASE e.variant = "Context"
      BY <2>5, <3>1, Inside DEF ByParts
    <3>2. CASE e.variant = "Multiple"
      <4> DEFINE kinds == [i \in DOMAIN e.errors |-> f[e.errors[i]]]
      <4>1. e.errors \in Seq(Errors)
        BY <3>2, Inside
      <4>2. \A x \in Errors : f[x] \in ErrorKinds
        BY <2>5
      <4>3. kinds \in Seq(ErrorKinds)
        BY <4>1, <4>2, MappedSeq
      <4>4. ToSet(kinds) = {f[x] : x \in ToSet(e.errors)}
        BY DEF ToSet
      <4>5. f[e] = c[<<e, kinds>>]
        BY <2>5, <3>2 DEF ByParts
      <4> HIDE DEF kinds
      <4>6. f[e] = Worst(ToSet(kinds))
        BY <4>3, <4>5
      <4> QED BY <3>2, <4>4, <4>6
    <3>3. CASE e.variant # "Context" /\ e.variant # "Multiple"
      BY <2>5, <3>3 DEF ByParts
    <3> QED BY <3>1, <3>2, <3>3
  <2> HIDE DEF Body, ByPartsOf
  <2>7. ASSUME NEW e \in Errors PROVE f[e] = f[Root[e]]
    <3> DEFINE S == {x \in Errors : f[x] = f[Root[x]]}
    <3>1. \A x \in Errors : x.variant # "Context" => x \in S
      BY RootIs
    <3>2. \A x \in Errors : x.variant = "Context" /\ x.source \in S => x \in S
      BY <2>6, RootIs DEF ByPartsOf
    <3> HIDE DEF S
    <3>3. Errors \subseteq S
      BY <3>1, <3>2, ChainInduction
    <3> QED BY <3>3 DEF S
  <2>8. ASSUME NEW e \in Errors PROVE f[e] = Body(f, Root[e])
    <3>1. Root[e] \in Errors /\ Root[e].variant # "Context"
      BY RootOfRoot
    <3> QED BY <1>0, <2>6, <2>7, <3>1
  <2>9. Equation(f)
    BY <2>5, <2>8 DEF Body
  <2> HIDE DEF Equation
  <2> QED BY <2>9
<1>2. Kind = CHOOSE h : Equation(h)
  BY DEF Kind
<1>3. Equation(Kind)
  <2> HIDE DEF Equation
  <2> QED BY <1>1, <1>2
<1> HIDE DEF Body, ByPartsOf
<1>4. \A e \in Errors : Kind[e] = Body(Kind, Root[e])
  BY <1>3 DEF Body
<1>5. ASSUME NEW e \in Errors PROVE Kind[e] = ByPartsOf(Kind, e)
  <2>1. CASE e.variant = "Context"
    <3>1. e.source \in Errors /\ Root[e] = Root[e.source]
      BY <2>1, Inside, RootIs
    <3>2. Kind[e] = Kind[e.source]
      BY <1>4, <3>1
    <3> QED BY <2>1, <3>2 DEF ByPartsOf
  <2>2. CASE e.variant # "Context"
    <3>1. Root[e] = e
      BY <2>2, RootIs
    <3> QED BY <1>0, <1>4, <2>2, <3>1
  <2> QED BY <2>1, <2>2
<1> DEFINE S == {e \in Errors : Kind[e] \in ErrorKinds}
<1>6. Errors \subseteq S
  <2>1. Plain \subseteq S
    <3> SUFFICES ASSUME NEW e \in Plain PROVE e \in S
      OBVIOUS
    <3>1. e \in Errors /\ e.variant # "Context" /\ e.variant # "Multiple"
      BY PlainIsError, VariantsApart DEF Plain
    <3>2. Kind[e] = KindAlone(e)
      BY <1>5, <3>1 DEF ByPartsOf
    <3>3. KindAlone(e) \in ErrorKinds
      BY KindFromType DEF KindAlone, ErrorKinds
    <3> QED BY <3>1, <3>2, <3>3
  <2>2. ASSUME NEW e \in Errors, e.variant = "Context", e.source \in S PROVE e \in S
    <3>1. Kind[e] = Kind[e.source]
      BY <1>5, <2>2 DEF ByPartsOf
    <3> QED BY <2>2, <3>1
  <2>3. ASSUME NEW e \in Errors, e.variant = "Multiple", ToSet(e.errors) \subseteq S
        PROVE  e \in S
    <3> DEFINE K == {Kind[x] : x \in ToSet(e.errors)}
    <3>1. Kind[e] = Worst(K)
      BY <1>5, <2>3 DEF ByPartsOf
    <3>2. K \in SUBSET ErrorKinds
      BY <2>3 DEF ToSet
    <3> HIDE DEF K
    <3> QED BY <2>3, <3>1, <3>2, WorstIs
  <2> HIDE DEF S, Equation
  <2> QED BY <2>1, <2>2, <2>3, ErrorInduction
<1>7. Kind \in [Errors -> ErrorKinds]
  <2>1. \A e \in Errors : Kind[e] \in ErrorKinds
    BY <1>6
  <2> QED BY <1>3, <2>1
<1> QED BY <1>5, <1>7 DEF ByPartsOf

---------------------------------------------------------------------------
\* FlattenSeq joins sequences one after another.
LEMMA FlattenSteps ==
  ASSUME NEW S, NEW q \in Seq(Seq(S)), q # <<>>
  PROVE  \E h \in [1..Len(q) -> Seq(S)] :
           /\ \A i \in 1..Len(q) : h[i] = IF i = 1 THEN q[i] ELSE h[i - 1] \o q[i]
           /\ FlattenSeq(q) = h[Len(q)]
<1> DEFINE N == Len(q)
           Equation(h, m) == h = [i \in 1..m |-> IF i = 1 THEN q[i] ELSE h[i - 1] \o q[i]]
           G == {m \in Nat : m <= N => \E h : Equation(h, m) /\ h \in [1..m -> Seq(S)]}
<1>0. N \in Nat /\ N > 0 /\ \A i \in 1..N : q[i] \in Seq(S)
  BY EmptySeq
<1> HIDE DEF N
<1>1. 0 \in G
  <2> DEFINE h == [i \in 1..0 |-> <<>>]
  <2>1. h = [i \in 1..0 |-> IF i = 1 THEN q[i] ELSE h[i - 1] \o q[i]]
    OBVIOUS
  <2>2. h \in [1..0 -> Seq(S)]
    OBVIOUS
  <2> HIDE DEF h
  <2> QED BY <2>1, <2>2
<1>2. ASSUME NEW m \in G PROVE m + 1 \in G
  <2> HIDE DEF Equation
  <2>0. m \in Nat /\ m + 1 \in Nat
    OBVIOUS
  <2> SUFFICES ASSUME m + 1 <= N
               PROVE  \E h : Equation(h, m + 1) /\ h \in [1..(m + 1) -> Seq(S)]
    BY <2>0
  <2>1. m \in Nat /\ m <= N
    BY <1>0, <2>0
  <2>2. PICK f : Equation(f, m) /\ f \in [1..m -> Seq(S)]
    BY <2>1
  <2>3. \A i \in 1..m : f[i] = IF i = 1 THEN q[i] ELSE f[i - 1] \o q[i]
    BY <2>2 DEF Equation
  <2> DEFINE new == IF m = 0 THEN q[1] ELSE f[m] \o q[m + 1]
             h == [i \in 1..(m + 1) |-> IF i <= m THEN f[i] ELSE new]
  <2> HIDE DEF G
  <2>4. new \in Seq(S)
    <3>1. CASE m = 0
      BY <1>0, <3>1
    <3>2. CASE m # 0
      <4>1. f[m] \in Seq(S) /\ q[m + 1] \in Seq(S)
        BY <1>0, <2>1, <2>2, <3>2
      <4>2. f[m] \o q[m + 1] \in Seq(S)
        BY <4>1, ConcatProperties
      <4> QED BY <3>2, <4>2
    <3> QED BY <3>1, <3>2
  <2>5. h \in [1..(m + 1) -> Seq(S)]
    BY <2>1, <2>2, <2>4
  <2> HIDE DEF new
  <2>6. /\ \A i \in 1..m : h[i] = f[i]
        /\ h[m + 1] = new
    <3>1. m + 1 \in 1..(m + 1) /\ ~(m + 1 <= m)
      BY <2>1
    <3>2. \A i \in 1..m : i \in 1..(m + 1) /\ i <= m
      BY <2>1
    <3> QED BY <3>1, <3>2
  <2> HIDE DEF h
  <2>7. ASSUME NEW i \in 1..(m + 1)
        PROVE  h[i] = IF i = 1 THEN q[i] ELSE h[i - 1] \o q[i]
    <3>1. CASE i \in 1..m
      <4>1. i # 1 => i - 1 \in 1..m
        BY <2>1, <3>1
      <4>2. i # 1 => h[i - 1] = f[i - 1]
        BY <2>6, <4>1
      <4> QED BY <2>3, <2>6, <3>1, <4>2
    <3>2. CASE i = m + 1
      <4>1. CASE m = 0
        BY <2>6, <3>2, <4>1 DEF new
      <4>2. CASE m # 0
        <5>1. m \in 1..m /\ i # 1 /\ i - 1 = m
          BY <2>1, <3>2, <4>2
        <5>2. h[i - 1] = f[m]
          BY <2>6, <5>1
        <5> QED BY <2>6, <3>2, <4>2, <5>1, <5>2 DEF new
      <4> QED BY <4>1, <4>2
    <3> QED BY <2>1, <3>1, <3>2
  <2>8. Equation(h, m + 1)
    BY <2>5, <2>7 DEF Equation
  <2> QED BY <2>5, <2>8
<1>3. N \in G
  <2> HIDE DEF G
  <2>1. G \in SUBSET Nat
    BY DEF G
  <2> QED BY <1>0, <1>1, <1>2, <2>1, Induction
<1> DEFINE h == CHOOSE g : Equation(g, N)
<1>4. FlattenSeq(q) = h[N]
  BY <1>0 DEF FlattenSeq, N
<1>5. Equation(h, N)
  <2> HIDE DEF Equation
  <2>1. \E g : Equation(g, N)
    BY <1>0, <1>3
  <2> QED BY <2>1
<1> HIDE DEF h
<1>6. \A i \in 1..N : h[i] = IF i = 1 THEN q[i] ELSE h[i - 1] \o q[i]
  BY <1>5
<1>7. h \in [1..N -> Seq(S)]
  <2> DEFINE K == {n \in Nat : n + 1 <= N => h[n + 1] \in Seq(S)}
  <2>1. 0 \in K
    BY <1>0, <1>6
  <2>2. ASSUME NEW n \in K PROVE n + 1 \in K
    <3> SUFFICES ASSUME (n + 1) + 1 <= N PROVE h[(n + 1) + 1] \in Seq(S)
      OBVIOUS
    <3>1. h[n + 1] \in Seq(S)
      BY <1>0
    <3>2. (n + 1) + 1 \in 1..N /\ (n + 1) + 1 # 1 /\ ((n + 1) + 1) - 1 = n + 1
      BY <1>0
    <3>3. h[(n + 1) + 1] = h[n + 1] \o q[(n + 1) + 1]
      BY <1>6, <3>2
    <3>4. q[(n + 1) + 1] \in Seq(S)
      BY <1>0, <3>2
    <3> QED BY <3>1, <3>3, <3>4, ConcatProperties
  <2>3. Nat \subseteq K
    <3> HIDE DEF K
    <3>1. K \in SUBSET Nat
      BY DEF K
    <3> QED BY <2>1, <2>2, <3>1, Induction
  <2>4. ASSUME NEW i \in 1..N PROVE h[i] \in Seq(S)
    <3>1. i - 1 \in Nat /\ (i - 1) + 1 = i /\ i <= N
      BY <1>0
    <3> QED BY <2>3, <3>1
  <2>5. DOMAIN h = 1..N
    BY <1>5
  <2>6. h = [i \in 1..N |-> h[i]]
    BY <1>5
  <2> QED BY <2>4, <2>6
<1> QED BY <1>4, <1>6, <1>7 DEF N

\* flatten of nothing, of sequences of one type, of one more, of one alone and of
\* two lists of sequences.
LEMMA FlattenEmpty == FlattenSeq(<<>>) = <<>>
BY DEF FlattenSeq

\* Flattening sequences over a set gives a sequence over it.
LEMMA FlattenType ==
  ASSUME NEW S, NEW q \in Seq(Seq(S))
  PROVE  FlattenSeq(q) \in Seq(S)
<1>1. CASE q = <<>>
  BY <1>1, FlattenEmpty, EmptySeq
<1>2. CASE q # <<>>
  <2>1. PICK h \in [1..Len(q) -> Seq(S)] : FlattenSeq(q) = h[Len(q)]
    BY <1>2, FlattenSteps
  <2>2. Len(q) \in 1..Len(q)
    BY <1>2, EmptySeq
  <2> QED BY <2>1, <2>2
<1> QED BY <1>1, <1>2

\* Flattening with one more sequence at the end joins that sequence at the end.
LEMMA FlattenAppend ==
  ASSUME NEW S, NEW q \in Seq(Seq(S)), NEW x \in Seq(S)
  PROVE  FlattenSeq(Append(q, x)) = FlattenSeq(q) \o x
<1> DEFINE w == Append(q, x)
           N == Len(q)
<1>1. /\ w \in Seq(Seq(S)) /\ w # <<>> /\ Len(w) = N + 1 /\ N \in Nat
      /\ \A i \in 1..N : w[i] = q[i]
      /\ w[N + 1] = x
  BY AppendProperties
<1> HIDE DEF w
<1>2. PICK k \in [1..Len(w) -> Seq(S)] :
           /\ \A i \in 1..Len(w) : k[i] = IF i = 1 THEN w[i] ELSE k[i - 1] \o w[i]
           /\ FlattenSeq(w) = k[Len(w)]
  BY <1>1, FlattenSteps
<1>3. CASE q = <<>>
  <2>1. N = 0 /\ k[1] = x
    BY <1>1, <1>2, <1>3
  <2>2. FlattenSeq(w) = x /\ FlattenSeq(q) = <<>>
    BY <1>1, <1>2, <1>3, <2>1, FlattenEmpty
  <2>3. <<>> \o x = x
    BY ConcatEmptySeq
  <2> QED BY <2>2, <2>3 DEF w
<1>4. CASE q # <<>>
  <2>1. PICK h \in [1..N -> Seq(S)] :
             /\ \A i \in 1..N : h[i] = IF i = 1 THEN q[i] ELSE h[i - 1] \o q[i]
             /\ FlattenSeq(q) = h[N]
    BY <1>4, FlattenSteps
  <2>2. N > 0
    BY <1>4, EmptySeq
  <2> DEFINE K == {n \in Nat : n + 1 <= N => k[n + 1] = h[n + 1]}
  <2>3. 0 \in K
    <3>1. 1 \in 1..N /\ 1 \in 1..Len(w)
      BY <1>1, <2>2
    <3>2. k[1] = w[1] /\ h[1] = q[1] /\ w[1] = q[1]
      BY <1>1, <1>2, <2>1, <3>1
    <3> QED BY <3>2
  <2>4. ASSUME NEW n \in K PROVE n + 1 \in K
    <3> SUFFICES ASSUME (n + 1) + 1 <= N PROVE k[(n + 1) + 1] = h[(n + 1) + 1]
      OBVIOUS
    <3> DEFINE i == (n + 1) + 1
    <3>1. k[n + 1] = h[n + 1]
      BY <1>1
    <3>2. i \in 1..N /\ i \in 1..Len(w) /\ i # 1 /\ i - 1 = n + 1
      BY <1>1
    <3> HIDE DEF i
    <3>3. k[i] = k[i - 1] \o w[i] /\ h[i] = h[i - 1] \o q[i] /\ w[i] = q[i]
      BY <1>1, <1>2, <2>1, <3>2
    <3>4. k[i] = h[i]
      BY <3>1, <3>2, <3>3
    <3> QED BY <3>4 DEF i
  <2>5. Nat \subseteq K
    <3> HIDE DEF K
    <3>1. K \in SUBSET Nat
      BY DEF K
    <3> QED BY <2>3, <2>4, <3>1, Induction
  <2>6. k[N] = h[N]
    <3>1. N - 1 \in Nat /\ (N - 1) + 1 = N
      BY <1>1, <2>2
    <3>2. N - 1 \in K
      BY <2>5, <3>1
    <3> QED BY <1>1, <3>1, <3>2
  <2>7. N + 1 \in 1..Len(w) /\ N + 1 # 1 /\ (N + 1) - 1 = N
    BY <1>1, <2>2
  <2>8. k[N + 1] = k[N] \o x
    BY <1>1, <1>2, <2>7
  <2> QED BY <1>1, <1>2, <2>1, <2>6, <2>8 DEF w
<1> QED BY <1>3, <1>4

\* Flattening a single sequence gives that sequence.
LEMMA FlattenOne ==
  ASSUME NEW S, NEW x \in Seq(S)
  PROVE  FlattenSeq(<<x>>) = x
<1>1. <<>> \in Seq(Seq(S)) /\ Append(<<>>, x) = <<x>>
  OBVIOUS
<1>2. FlattenSeq(<<x>>) = FlattenSeq(<<>>) \o x
  BY <1>1, FlattenAppend
<1> QED BY <1>2, FlattenEmpty, ConcatEmptySeq

\* Joining three sequences, the first two first or the last two first.
LEMMA JoinsAssociate ==
  ASSUME NEW S
  PROVE  \A a, b, c \in Seq(S) : (a \o b) \o c = a \o (b \o c)
BY ConcatAssociative

\* Flattening joined sequences joins what each flattens to.
LEMMA FlattenConcat ==
  ASSUME NEW S, NEW p \in Seq(Seq(S)), NEW q \in Seq(Seq(S))
  PROVE  FlattenSeq(p \o q) = FlattenSeq(p) \o FlattenSeq(q)
<1>0. \A a, b, c \in Seq(S) : (a \o b) \o c = a \o (b \o c)
  <2> DEFINE T == S
  <2>1. T = S
    OBVIOUS
  <2> HIDE DEF T
  <2>2. \A a, b, c \in Seq(T) : (a \o b) \o c = a \o (b \o c)
    BY ONLY JoinsAssociate, SMTT(40)
  <2> QED BY ONLY <2>1, <2>2
<1> DEFINE G == {n \in Nat : \A w \in Seq(Seq(S)) :
                   Len(w) = n => FlattenSeq(p \o w) = FlattenSeq(p) \o FlattenSeq(w)}
<1>1. 0 \in G
  <2> SUFFICES ASSUME NEW w \in Seq(Seq(S)), Len(w) = 0
               PROVE  FlattenSeq(p \o w) = FlattenSeq(p) \o FlattenSeq(w)
    OBVIOUS
  <2>1. w = <<>>
    BY EmptySeq
  <2>2. p \o w = p /\ FlattenSeq(w) = <<>>
    BY <2>1, ConcatEmptySeq, FlattenEmpty
  <2> QED BY <2>2, FlattenType, ConcatEmptySeq
<1>2. ASSUME NEW n \in G PROVE n + 1 \in G
  <2> SUFFICES ASSUME NEW w \in Seq(Seq(S)), Len(w) = n + 1
               PROVE  FlattenSeq(p \o w) = FlattenSeq(p) \o FlattenSeq(w)
    OBVIOUS
  <2>1. w # <<>>
    BY EmptySeq
  <2>2. PICK v \in Seq(Seq(S)), x \in Seq(S) : w = Append(v, x)
    BY <2>1, SequenceEmptyOrAppend
  <2>3. Len(v) = n
    BY <2>2, AppendProperties, LenProperties
  <2>4. FlattenSeq(p \o v) = FlattenSeq(p) \o FlattenSeq(v)
    BY <2>3
  <2>5. p \o w = Append(p \o v, x) /\ p \o v \in Seq(Seq(S))
    BY <2>2
  <2>6. FlattenSeq(p \o w) = FlattenSeq(p \o v) \o x /\ FlattenSeq(w) = FlattenSeq(v) \o x
    BY <2>2, <2>5, FlattenAppend
  <2>7. FlattenSeq(p) \in Seq(S) /\ FlattenSeq(v) \in Seq(S)
    BY FlattenType
  <2>8. (FlattenSeq(p) \o FlattenSeq(v)) \o x = FlattenSeq(p) \o (FlattenSeq(v) \o x)
    BY ONLY <1>0, <2>2, <2>7
  <2> QED BY <2>4, <2>6, <2>8
<1>3. Len(q) \in G
  <2> HIDE DEF G
  <2>1. G \in SUBSET Nat /\ Len(q) \in Nat
    BY DEF G
  <2> QED BY <1>1, <1>2, <2>1, Induction
<1> QED BY <1>3

---------------------------------------------------------------------------
\* The leaves of errors.
LeafRecords == [variant : Variants, contexts : Seq(Labels)]

\* One more context on each of some leaves.
LEMMA UnderType ==
  ASSUME NEW l \in Labels, NEW leafs \in Seq(LeafRecords)
  PROVE  /\ Under(l, leafs) \in Seq(LeafRecords)
         /\ Len(Under(l, leafs)) = Len(leafs)
         /\ \A i \in 1..Len(leafs) :
              Under(l, leafs)[i] = [leafs[i] EXCEPT !.contexts = <<l>> \o @]
<1> DEFINE U == Under(l, leafs)
<1>1. /\ Len(leafs) \in Nat
      /\ DOMAIN leafs = 1..Len(leafs)
      /\ \A i \in 1..Len(leafs) : leafs[i] \in LeafRecords
  OBVIOUS
<1>2. U = [i \in 1..Len(leafs) |-> [leafs[i] EXCEPT !.contexts = <<l>> \o @]]
  BY <1>1 DEF Under
<1>3. ASSUME NEW i \in 1..Len(leafs)
      PROVE  [leafs[i] EXCEPT !.contexts = <<l>> \o @] \in LeafRecords
  <2>1. leafs[i].contexts \in Seq(Labels) /\ leafs[i] \in LeafRecords
    BY <1>1 DEF LeafRecords
  <2>2. <<l>> \o leafs[i].contexts \in Seq(Labels)
    BY <2>1
  <2> QED BY <2>1, <2>2 DEF LeafRecords
<1> HIDE DEF U
<1>4. U \in [1..Len(leafs) -> LeafRecords]
  BY <1>2, <1>3
<1>5. U \in Seq(LeafRecords)
  BY <1>1, <1>4, SeqDef
<1>6. Len(U) = Len(leafs)
  BY <1>1, <1>4, <1>5, LenProperties
<1> QED BY <1>2, <1>5, <1>6 DEF U

\* The leaves of an error, from the leaves of its parts.
LEMMA LeafsIs ==
  /\ Leafs \in [Errors -> Seq(LeafRecords)]
  /\ \A e \in Errors :
       Leafs[e] = IF e.variant = "Context" THEN Under(e.context, Leafs[e.source])
                  ELSE IF e.variant = "Multiple"
                         THEN FlattenSeq([i \in DOMAIN e.errors |-> Leafs[e.errors[i]]])
                         ELSE <<[variant |-> e.variant, contexts |-> <<>>]>>
<1> DEFINE T == Seq(LeafRecords)
           Body(h, e) ==
             IF e.variant = "Context" THEN Under(e.context, h[e.source])
             ELSE IF e.variant = "Multiple"
                    THEN FlattenSeq([i \in DOMAIN e.errors |-> h[e.errors[i]]])
                    ELSE <<[variant |-> e.variant, contexts |-> <<>>]>>
           Equation(h) ==
             h = [e \in Errors |->
                    IF e.variant = "Context" THEN Under(e.context, h[e.source])
                    ELSE IF e.variant = "Multiple"
                           THEN FlattenSeq([i \in DOMAIN e.errors |-> h[e.errors[i]]])
                           ELSE <<[variant |-> e.variant, contexts |-> <<>>]>>]
           a == [e \in Errors |->
                   IF e.variant \in Variants
                     THEN <<[variant |-> e.variant, contexts |-> <<>>]>> ELSE <<>>]
           b == [p \in Errors \X T |->
                   IF p[1].variant = "Context" THEN Under(p[1].context, p[2]) ELSE <<>>]
           c == [p \in Errors \X Seq(T) |-> FlattenSeq(p[2])]
<1>0. \A v \in Variants : <<[variant |-> v, contexts |-> <<>>]>> \in T
  BY DEF LeafRecords
<1>1. \E h : Equation(h)
  <2>1. a \in [Errors -> T]
    BY <1>0
  <2>2. b \in [Errors \X T -> T]
    <3>1. ASSUME NEW e \in Errors, NEW leafs \in T, e.variant = "Context"
          PROVE  Under(e.context, leafs) \in T
      BY <3>1, Inside, UnderType
    <3>2. <<>> \in T
      OBVIOUS
    <3> HIDE DEF T
    <3> QED BY <3>1, <3>2
  <2>3. c \in [Errors \X Seq(T) -> T]
    BY FlattenType
  <2>4. PICK f \in Solutions(T, a, b, c) : TRUE
    <3> HIDE DEF a, b, c, T
    <3>1. Solutions(T, a, b, c) # {}
      BY <2>1, <2>2, <2>3, RecursionExists
    <3> QED BY <3>1
  <2>5. f \in [Errors -> T] /\ \A e \in Errors : f[e] = ByParts(f, e, a, b, c)
    BY DEF Solutions
  <2> HIDE DEF T
  <2>6. ASSUME NEW e \in Errors PROVE f[e] = Body(f, e)
    <3>1. CASE e.variant = "Context"
      <4>1. e.source \in Errors /\ f[e.source] \in T
        BY <2>5, <3>1, Inside
      <4> QED BY <2>5, <3>1, <4>1 DEF ByParts
    <3>2. CASE e.variant = "Multiple"
      <4> DEFINE values == [i \in DOMAIN e.errors |-> f[e.errors[i]]]
      <4>1. e.errors \in Seq(Errors) /\ \A x \in Errors : f[x] \in T
        BY <2>5, <3>2, Inside
      <4>2. values \in Seq(T)
        BY <4>1, MappedSeq
      <4>3. f[e] = c[<<e, values>>]
        BY <2>5, <3>2 DEF ByParts
      <4> HIDE DEF values
      <4>4. f[e] = FlattenSeq(values)
        BY <4>2, <4>3
      <4> QED BY <3>2, <4>4 DEF values
    <3>3. CASE e.variant # "Context" /\ e.variant # "Multiple"
      <4>1. e.variant \in Variants
        BY <3>3, Inside
      <4> QED BY <2>5, <3>3, <4>1 DEF ByParts
    <3> QED BY <3>1, <3>2, <3>3
  <2>7. Equation(f)
    BY <2>5, <2>6
  <2> HIDE DEF Equation
  <2> QED BY <2>7
<1>2. Leafs = CHOOSE h : Equation(h)
  BY DEF Leafs
<1>3. Equation(Leafs)
  <2> HIDE DEF Equation
  <2> QED BY <1>1, <1>2
<1>4. \A e \in Errors : Leafs[e] = Body(Leafs, e)
  BY <1>3
<1>5. Leafs = [e \in Errors |-> Leafs[e]]
  BY <1>3
<1> HIDE DEF Equation, T
<1> DEFINE S == {e \in Errors : Leafs[e] \in T}
<1>6. Errors \subseteq S
  <2>1. Plain \subseteq S
    <3> SUFFICES ASSUME NEW e \in Plain PROVE e \in S
      OBVIOUS
    <3>1. e \in Errors /\ e.variant # "Context" /\ e.variant # "Multiple" /\ e.variant \in Variants
      BY PlainIsError, VariantsApart DEF Plain
    <3>2. Leafs[e] = <<[variant |-> e.variant, contexts |-> <<>>]>>
      BY <1>4, <3>1
    <3> QED BY <1>0, <3>1, <3>2
  <2>2. ASSUME NEW e \in Errors, e.variant = "Context", e.source \in S PROVE e \in S
    <3>1. Leafs[e] = Under(e.context, Leafs[e.source])
      BY <1>4, <2>2
    <3>2. Under(e.context, Leafs[e.source]) \in T
      BY <2>2, Inside, UnderType DEF T
    <3> QED BY <3>1, <3>2
  <2>3. ASSUME NEW e \in Errors, e.variant = "Multiple", ToSet(e.errors) \subseteq S
        PROVE  e \in S
    <3> DEFINE values == [i \in DOMAIN e.errors |-> Leafs[e.errors[i]]]
    <3>1. e.errors \in Seq(ToSet(e.errors)) /\ \A x \in ToSet(e.errors) : Leafs[x] \in T
      <4>1. e.errors \in Seq(Errors)
        BY <2>3, Inside
      <4>2. e.errors \in [1..Len(e.errors) -> ToSet(e.errors)] /\ Len(e.errors) \in Nat
        BY <4>1 DEF ToSet
      <4>3. e.errors \in Seq(ToSet(e.errors))
        BY <4>2, SeqDef
      <4> QED BY <2>3, <4>3
    <3>2. values \in Seq(T)
      BY <3>1, MappedSeq
    <3>3. Leafs[e] = FlattenSeq(values)
      BY <1>4, <2>3
    <3> HIDE DEF values
    <3>4. FlattenSeq(values) \in T
      BY <3>2, FlattenType DEF T
    <3> QED BY <2>3, <3>3, <3>4
  <2> HIDE DEF S
  <2> QED BY <2>1, <2>2, <2>3, ErrorInduction
<1>7. Leafs \in [Errors -> T]
  <2>1. \A e \in Errors : Leafs[e] \in T
    BY <1>6
  <2> QED BY <1>5, <2>1
<1> QED BY <1>4, <1>7 DEF T

\* The leaves of a sequence of errors, and of two such one after the other.
LEMMA LeafsOfType ==
  ASSUME NEW s \in Seq(Errors)
  PROVE  /\ [i \in DOMAIN s |-> Leafs[s[i]]] \in Seq(Seq(LeafRecords))
         /\ LeafsOf(s) \in Seq(LeafRecords)
<1>1. \A x \in Errors : Leafs[x] \in Seq(LeafRecords)
  BY LeafsIs
<1>2. [i \in DOMAIN s |-> Leafs[s[i]]] \in Seq(Seq(LeafRecords))
  BY <1>1, MappedSeq
<1> QED BY <1>2, FlattenType DEF LeafsOf

\* The leaves of several errors: those of the first, then those of the others.
LEMMA LeafsOfEmpty == LeafsOf(<<>>) = <<>>
BY FlattenEmpty DEF LeafsOf

\* The leaves of a single error.
LEMMA LeafsOfOne ==
  ASSUME NEW e \in Errors
  PROVE  LeafsOf(<<e>>) = Leafs[e]
<1>1. [i \in DOMAIN <<e>> |-> Leafs[<<e>>[i]]] = <<Leafs[e]>>
  OBVIOUS
<1>2. Leafs[e] \in Seq(LeafRecords)
  BY LeafsIs
<1> QED BY <1>1, <1>2, FlattenOne DEF LeafsOf

\* The leaves of joined sequences of errors.
LEMMA LeafsOfConcat ==
  ASSUME NEW s \in Seq(Errors), NEW t \in Seq(Errors)
  PROVE  LeafsOf(s \o t) = LeafsOf(s) \o LeafsOf(t)
<1> DEFINE M(w) == [i \in DOMAIN w |-> Leafs[w[i]]]
<1>1. M(s) \in Seq(Seq(LeafRecords)) /\ M(t) \in Seq(Seq(LeafRecords))
  BY LeafsOfType
<1>2. s \o t \in Seq(Errors) /\ M(s \o t) \in Seq(Seq(LeafRecords))
  <2>1. s \o t \in Seq(Errors)
    OBVIOUS
  <2> QED BY <2>1, LeafsOfType
<1>3. M(s \o t) = M(s) \o M(t)
  <2>1. /\ Len(M(s)) = Len(s) /\ Len(M(t)) = Len(t) /\ Len(M(s \o t)) = Len(s) + Len(t)
        /\ Len(s) \in Nat /\ Len(t) \in Nat
    <3>1. \A x \in Errors : Leafs[x] \in Seq(LeafRecords)
      BY LeafsIs
    <3>2. Len(M(s)) = Len(s) /\ Len(M(t)) = Len(t) /\ Len(M(s \o t)) = Len(s \o t)
      BY <1>2, <3>1, MappedSeq
    <3> QED BY <3>2
  <2>2. ASSUME NEW i \in 1..Len(s) + Len(t)
        PROVE  M(s \o t)[i] = (M(s) \o M(t))[i]
    <3>1. M(s \o t)[i] = Leafs[(s \o t)[i]]
      OBVIOUS
    <3>2. CASE i <= Len(s)
      <4>1. (s \o t)[i] = s[i] /\ M(s)[i] = Leafs[s[i]]
        BY <3>2
      <4> HIDE DEF M
      <4>2. (M(s) \o M(t))[i] = M(s)[i]
        BY <1>1, <2>1, <3>2, ConcatProperties
      <4> QED BY <3>1, <4>1, <4>2
    <3>3. CASE i > Len(s)
      <4>1. i - Len(s) \in 1..Len(t)
        BY <2>1, <3>3
      <4>2. (s \o t)[i] = t[i - Len(s)] /\ M(t)[i - Len(s)] = Leafs[t[i - Len(s)]]
        BY <3>3, <4>1
      <4> HIDE DEF M
      <4>3. (M(s) \o M(t))[i] = M(t)[i - Len(s)]
        BY <1>1, <2>1, <3>3, ConcatProperties
      <4> QED BY <3>1, <4>2, <4>3
    <3> QED BY <2>1, <3>2, <3>3
  <2> HIDE DEF M
  <2>3. M(s) \o M(t) \in Seq(Seq(LeafRecords)) /\ Len(M(s) \o M(t)) = Len(s) + Len(t)
    <3> DEFINE A == M(s)
               B == M(t)
               R == Seq(LeafRecords)
    <3>1. A \in Seq(R) /\ B \in Seq(R) /\ Len(A) = Len(s) /\ Len(B) = Len(t)
      BY <1>1, <2>1
    <3> HIDE DEF A, B, R
    <3>2. A \o B \in Seq(R) /\ Len(A \o B) = Len(A) + Len(B)
      BY <3>1, ConcatProperties
    <3> QED BY <3>1, <3>2 DEF A, B, R
  <2> QED BY <1>2, <2>1, <2>2, <2>3, SeqEqual
<1> HIDE DEF M
<1>4. FlattenSeq(M(s \o t)) = FlattenSeq(M(s)) \o FlattenSeq(M(t))
  BY <1>1, <1>3, FlattenConcat
<1> QED BY <1>4 DEF M, LeafsOf

---------------------------------------------------------------------------
\* What checks find, in the machine of ErrorFlow: nothing, or an error by itself.
LEMMA DomainsAre ==
  /\ DOMAIN Domains = 1..10
  /\ Domains[1] = Shape /\ Domains[2] = Typing /\ Domains[3] = Index /\ Domains[4] = Memory
  /\ Domains[5] = Compute /\ Domains[6] = Files /\ Domains[7] = DLPack /\ Domains[8] = Arrow
  /\ Domains[9] = Python /\ Domains[10] = General
BY DEF Domains

\* The variants that checks and constructors name are variants.
LEMMA NamedVariants ==
  {"ShapeMismatch", "AxisOutOfRange", "IndexOutOfBounds", "AllocationFailed", "Internal",
   "DomainError", "MatrixDimensionMismatch"} \subseteq Variants
<1>1. \A i \in 1..10 : ToSet(Domains[i]) \ {"Context"} \subseteq Variants
  BY DomainsAre DEF Variants
<1>2. /\ ToSet(Shape) \ {"Context"} \subseteq Variants
      /\ ToSet(Index) \ {"Context"} \subseteq Variants
      /\ ToSet(Memory) \ {"Context"} \subseteq Variants
      /\ ToSet(Compute) \ {"Context"} \subseteq Variants
      /\ ToSet(General) \ {"Context"} \subseteq Variants
  BY <1>1, DomainsAre
<1>3. "ShapeMismatch" \in ToSet(Shape) /\ "AxisOutOfRange" \in ToSet(Shape)
  BY DEF ToSet, Shape
<1>4. "IndexOutOfBounds" \in ToSet(Index)
  BY DEF ToSet, Index
<1>5. "AllocationFailed" \in ToSet(Memory)
  BY DEF ToSet, Memory
<1>6. "Internal" \in ToSet(General)
  BY DEF ToSet, General
<1>7. "DomainError" \in ToSet(Compute) /\ "MatrixDimensionMismatch" \in ToSet(Compute)
  BY DEF ToSet, Compute
<1> QED BY <1>2, <1>3, <1>4, <1>5, <1>6, <1>7

\* A variant by itself, returned.
LEMMA LeafIsError ==
  ASSUME NEW v \in Variants
  PROVE  Err(Leaf(v)) \in Seq(Errors) /\ Len(Err(Leaf(v))) = 1
<1>1. Leaf(v) \in Errors
  BY PlainIsError DEF Leaf, Plain
<1> QED BY <1>1 DEF Err

---------------------------------------------------------------------------
\* Errors on their way up.
FlowInv ==
  /\ frames \in Seq(Seq(Errors))
  /\ returning \in BOOLEAN
  /\ returned \in Seq(Errors)
  /\ Len(returned) <= 1
  /\ raised \in Seq(LeafRecords)
  /\ frames = <<>> => returning
  /\ Working => returned = Ok
  /\ Len(frames) <= MaxCalls
  /\ EveryErrorArrives

\* The leaves of all that is in flight, function by function.
LEMMA LeafsInFlight ==
  ASSUME NEW f \in Seq(Seq(Errors)), NEW x \in Seq(Errors), NEW r \in Seq(Errors)
  PROVE  /\ LeafsOf(FlattenSeq(f) \o r) = LeafsOf(FlattenSeq(f)) \o LeafsOf(r)
         /\ LeafsOf(FlattenSeq(Append(f, x)) \o r)
              = LeafsOf(FlattenSeq(f)) \o LeafsOf(x) \o LeafsOf(r)
         /\ LeafsOf(FlattenSeq(f)) \in Seq(LeafRecords)
<1>1. /\ FlattenSeq(f) \in Seq(Errors)
      /\ FlattenSeq(Append(f, x)) = FlattenSeq(f) \o x
  BY FlattenType, FlattenAppend
<1>2. FlattenSeq(f) \o x \in Seq(Errors)
  BY <1>1
<1> QED BY <1>1, <1>2, LeafsOfConcat, LeafsOfType

\* Whatever a check finds is nothing or an error.
LEMMA FindingsAre ==
  ASSUME NEW r \in Findings \cup {NoneWithContext} \cup {NoneOr(Leaf(v)) : v \in Leaves}
  PROVE  r \in Seq(Errors) /\ Len(r) <= 1
<1>1. r = Ok \/ \E v \in Variants : r = Err(Leaf(v))
  <2>1. \A bad, v \in Variants : Checked(bad, v) = Ok \/ Checked(bad, v) = Err(Leaf(v))
    BY DEF Checked
  <2> DEFINE shapes == {AssertShapeEq(s, <<2>>) : s \in {<<2>>, <<3>>}}
             axes == {AssertAxisValid(x, 2) : x \in -3..2}
             indices == {AssertInBounds(i, 2) : i \in -3..2}
             named == {Err(e) : e \in {Alloc, Bug, Domain, MatmulShape}}
             checked == {Checked(TRUE, v) : v \in Variants}
             given == {NoneOr(Leaf(v)) : v \in Leaves}
             Shown == r = Ok \/ \E v \in Variants : r = Err(Leaf(v))
  <2>2. r \in shapes => Shown
    BY NamedVariants DEF AssertShapeEq, Checked
  <2>3. r \in axes => Shown
    BY NamedVariants DEF AssertAxisValid, Checked
  <2>4. r \in indices => Shown
    BY NamedVariants DEF AssertInBounds, Checked
  <2>5. r \in named => Shown
    BY NamedVariants DEF Alloc, Bug, Domain, MatmulShape
  <2>6. r \in checked => Shown
    BY DEF Checked
  <2>7. r = NoneWithContext => Shown
    BY NamedVariants DEF NoneWithContext, Bug
  <2>8. r \in given => Shown
    BY FlowAssumption DEF NoneOr, Err
  <2>9. Findings = shapes \cup axes \cup indices \cup named \cup checked
    BY DEF Findings
  <2>10. r \in Findings \cup {NoneWithContext} \cup given
    OBVIOUS
  <2> HIDE DEF shapes, axes, indices, named, checked, given, Shown
  <2>11. Shown
    BY <2>2, <2>3, <2>4, <2>5, <2>6, <2>7, <2>8, <2>9, <2>10
  <2> QED BY <2>11 DEF Shown
<1>2. Ok \in Seq(Errors) /\ Len(Ok) <= 1
  BY EmptySeq DEF Ok
<1>3. \A v \in Variants : Err(Leaf(v)) \in Seq(Errors) /\ Len(Err(Leaf(v))) <= 1
  BY LeafIsError
<1>4. \A q : (q = Ok \/ \E v \in Variants : q = Err(Leaf(v))) => q \in Seq(Errors) /\ Len(q) <= 1
  BY <1>2, <1>3, Zenon
<1> QED BY <1>1, <1>4, Zenon

\* The innermost of the functions being run.
LEMMA Innermost ==
  ASSUME NEW f \in Seq(Seq(Errors)), f # <<>>
  PROVE  /\ Front(f) \in Seq(Seq(Errors)) /\ Last(f) \in Seq(Errors)
         /\ Len(f) = Len(Front(f)) + 1
         /\ f = Append(Front(f), Last(f))
         /\ \A y \in Seq(Errors) : [f EXCEPT ![Len(f)] = y] = Append(Front(f), y)
<1>1. PICK g \in Seq(Seq(Errors)), x \in Seq(Errors) : f = Append(g, x)
  BY SequenceEmptyOrAppend
<1>2. Len(f) = Len(g) + 1 /\ Len(g) \in Nat /\ f[Len(g) + 1] = x
  BY <1>1, AppendProperties
<1>3. Last(f) = x
  BY <1>2 DEF Last
<1>4. Front(f) = g
  <2>1. Front(f) = SubSeq(f, 1, Len(g))
    BY <1>2 DEF Front
  <2>2. SubSeq(Append(g, x), 1, Len(g)) = g
    BY <1>1
  <2> QED BY <1>1, <2>1, <2>2
<1>5. ASSUME NEW y \in Seq(Errors) PROVE [f EXCEPT ![Len(f)] = y] = Append(g, y)
  <2> DEFINE R == Seq(Errors)
             n == Len(f)
             u == [f EXCEPT ![n] = y]
             w == Append(g, y)
  <2>1. /\ f \in Seq(R) /\ g \in Seq(R) /\ y \in R /\ x \in R /\ f = Append(g, x)
        /\ n \in Nat /\ n = Len(g) + 1 /\ n \in 1..n /\ Len(f) = n /\ DOMAIN f = 1..n
    BY <1>1, <1>2
  <2> HIDE DEF R, n
  <2>2. /\ u \in Seq(R) /\ Len(u) = n
        /\ \A j \in 1..n : u[j] = IF j = n THEN y ELSE f[j]
    <3>1. u \in [1..n -> R]
      <4>1. \A i \in 1..n : f[i] \in R
        BY <2>1, ElementOfSeq
      <4>2. DOMAIN u = 1..n /\ u = [i \in 1..n |-> IF i = n THEN y ELSE f[i]]
        BY <2>1
      <4> QED BY <2>1, <4>1, <4>2
    <3>4. \A j \in 1..n : u[j] = IF j = n THEN y ELSE f[j]
      BY <2>1
    <3> HIDE DEF u
    <3>2. u \in Seq(R)
      BY <2>1, <3>1, SeqDef
    <3>3. Len(u) = n
      BY <2>1, <3>1, <3>2, LenProperties
    <3> QED BY <3>2, <3>3, <3>4
  <2>3. /\ w \in Seq(R) /\ Len(w) = n
        /\ \A j \in 1..Len(g) : w[j] = g[j] /\ f[j] = g[j]
        /\ w[n] = y
    BY <1>2, <2>1, AppendProperties
  <2> HIDE DEF u, w
  <2>4. \A j \in 1..n : u[j] = w[j]
    <3>1. 1..n = 1..Len(g) \cup {n}
      BY <1>2, <2>1
    <3> QED BY <1>2, <2>1, <2>2, <2>3, <3>1
  <2>5. u = w
    BY <2>1, <2>2, <2>3, <2>4, SeqEqual
  <2> QED BY <2>5 DEF u, w, n
<1> QED BY <1>1, <1>2, <1>3, <1>4, <1>5

\* Joining sequences.
LEMMA Joins ==
  ASSUME NEW S, NEW a \in Seq(S), NEW b \in Seq(S), NEW c \in Seq(S)
  PROVE  /\ (a \o b) \o c = a \o (b \o c)
         /\ a \o b \in Seq(S)
         /\ a \o <<>> = a
         /\ <<>> \o a = a
         /\ SubSeq(a \o b, 1, Len(a)) = a
         /\ SubSeq(a \o b, Len(a) + 1, Len(a \o b)) = b
         /\ Len(a \o b) - Len(b) = Len(a)
<1>1. (a \o b) \o c = a \o (b \o c)
  BY ConcatAssociative
<1>2. a \o b \in Seq(S) /\ Len(a \o b) = Len(a) + Len(b) /\ Len(a) \in Nat /\ Len(b) \in Nat
  BY ConcatProperties, LenProperties
<1>3. a \o <<>> = a /\ <<>> \o a = a
  BY ConcatEmptySeq
<1> DEFINE w == a \o b
<1>4. /\ w \in Seq(S) /\ Len(w) = Len(a) + Len(b)
      /\ \A i \in 1..Len(w) : w[i] = (IF i <= Len(a) THEN a[i] ELSE b[i - Len(a)]) /\ w[i] \in S
  BY <1>2, ConcatProperties, ElementOfSeq
<1> HIDE DEF w
<1>5. SubSeq(w, 1, Len(a)) = a
  <2> DEFINE u == SubSeq(w, 1, Len(a))
  <2>1. \A i \in 1..Len(a) : w[i] \in S
    BY <1>2, <1>4
  <2>2. /\ u \in Seq(S) /\ Len(u) = Len(a)
        /\ \A i \in 1..Len(a) : u[i] = w[i]
    <3>1. /\ u \in Seq(S) /\ Len(u) = IF 1 <= Len(a) THEN Len(a) - 1 + 1 ELSE 0
          /\ \A i \in 1..(Len(a) - 1 + 1) : u[i] = w[1 + i - 1]
      BY <1>2, <2>1, SubSeqProperties
    <3> HIDE DEF u
    <3> QED BY <1>2, <3>1
  <2> HIDE DEF u
  <2>3. \A i \in 1..Len(u) : u[i] = a[i]
    BY <1>2, <1>4, <2>2
  <2>4. u = a
    BY <2>2, <2>3, SeqEqual
  <2> QED BY <2>4 DEF u
<1>6. SubSeq(w, Len(a) + 1, Len(w)) = b
  <2> DEFINE u == SubSeq(w, Len(a) + 1, Len(w))
  <2>1. \A i \in (Len(a) + 1)..Len(w) : w[i] \in S
    BY <1>2, <1>4
  <2>2. /\ u \in Seq(S) /\ Len(u) = Len(b)
        /\ \A i \in 1..Len(b) : u[i] = w[Len(a) + i]
    <3> DEFINE m == Len(a) + 1
               n == Len(w)
    <3>1. m \in Int /\ n \in Int /\ n - m + 1 = Len(b) /\ (m <= n => Len(b) >= 1) /\ (m > n => Len(b) = 0)
      BY <1>2, <1>4
    <3>2. /\ u \in Seq(S) /\ Len(u) = IF m <= n THEN n - m + 1 ELSE 0
          /\ \A i \in 1..(n - m + 1) : u[i] = w[m + i - 1]
      <4> HIDE DEF m, n
      <4>1. \A i \in m..n : w[i] \in S
        BY <2>1 DEF m, n
      <4>2. u = SubSeq(w, m, n)
        BY DEF m, n
      <4> HIDE DEF u
      <4> QED BY <3>1, <4>1, <4>2, SubSeqProperties
    <3>3. n - m + 1 = Len(b) /\ \A i \in 1..Len(b) : m + i - 1 = Len(a) + i
      BY <1>2, <3>1
    <3>4. Len(u) = Len(b)
      BY <3>1, <3>2
    <3> HIDE DEF u, n
    <3>5. \A i \in 1..Len(b) : u[i] = w[m + i - 1]
      BY <3>2, <3>3
    <3> QED BY <3>2, <3>3, <3>4, <3>5
  <2> HIDE DEF u
  <2>3. \A i \in 1..Len(u) : u[i] = b[i]
    <3>1. \A i \in 1..Len(b) : Len(a) + i \in 1..Len(w) /\ ~(Len(a) + i <= Len(a)) /\ (Len(a) + i) - Len(a) = i
      BY <1>2, <1>4
    <3> QED BY <1>4, <2>2, <3>1
  <2>4. u = b
    BY <2>2, <2>3, SeqEqual
  <2> QED BY <2>4 DEF u
<1> QED BY <1>1, <1>2, <1>3, <1>5, <1>6 DEF w

\* What a collector gathers, from a check or from a function called, is after
\* what it has.
LEMMA Gathered ==
  ASSUME NEW g \in Seq(Seq(Errors)), NEW x \in Seq(Errors), NEW r \in Seq(Errors)
  PROVE  /\ LeafsOf(FlattenSeq(Append(g, x \o r)) \o Ok)
              = LeafsOf(FlattenSeq(Append(g, x)) \o r)
         /\ LeafsOf(FlattenSeq(Append(g, x \o r)) \o Ok)
              = LeafsOf(FlattenSeq(Append(g, x)) \o Ok) \o LeafsOf(r)
<1> DEFINE A == LeafsOf(FlattenSeq(g))
           X == LeafsOf(x)
           R == LeafsOf(r)
<1>1. Ok \in Seq(Errors) /\ x \o r \in Seq(Errors)
  BY EmptySeq, ConcatProperties DEF Ok
<1>2. A \in Seq(LeafRecords) /\ X \in Seq(LeafRecords) /\ R \in Seq(LeafRecords)
  BY LeafsInFlight, LeafsOfType
<1>3. LeafsOf(x \o r) = X \o R
  BY LeafsOfConcat
<1>4. LeafsOf(Ok) = <<>>
  BY LeafsOfEmpty DEF Ok
<1>5. LeafsOf(FlattenSeq(Append(g, x \o r)) \o Ok) = (A \o (X \o R)) \o <<>>
  <2>1. LeafsOf(FlattenSeq(Append(g, x \o r)) \o Ok) = A \o LeafsOf(x \o r) \o LeafsOf(Ok)
    BY <1>1, LeafsInFlight
  <2> QED BY <1>3, <1>4, <2>1
<1>6. LeafsOf(FlattenSeq(Append(g, x)) \o r) = (A \o X) \o R
  BY LeafsInFlight
<1>7. LeafsOf(FlattenSeq(Append(g, x)) \o Ok) = (A \o X) \o <<>>
  <2>1. LeafsOf(FlattenSeq(Append(g, x)) \o Ok) = A \o LeafsOf(x) \o LeafsOf(Ok)
    BY <1>1, LeafsInFlight
  <2> QED BY <1>4, <2>1
<1> HIDE DEF A, X, R
<1>8. /\ A \o X \in Seq(LeafRecords)
      /\ A \o (X \o R) \in Seq(LeafRecords)
      /\ A \o (X \o R) = (A \o X) \o R
  <2>1. A \o X \in Seq(LeafRecords) /\ X \o R \in Seq(LeafRecords)
    BY <1>2, Joins
  <2>2. A \o (X \o R) \in Seq(LeafRecords)
    BY <1>2, <2>1, Joins
  <2> DEFINE T == LeafRecords
  <2>3. A \in Seq(T) /\ X \in Seq(T) /\ R \in Seq(T)
    BY <1>2
  <2> HIDE DEF T
  <2>4. (A \o X) \o R = A \o (X \o R)
    BY <2>3, ConcatAssociative
  <2> QED BY <2>1, <2>2, <2>4
<1>9. (A \o (X \o R)) \o <<>> = A \o (X \o R) /\ (A \o X) \o <<>> = A \o X
  BY <1>8, Joins
<1> QED BY <1>5, <1>6, <1>7, <1>8, <1>9 DEF A, X, R

\* What a function returns is after what the others have gathered.
LEMMA Returned ==
  ASSUME NEW g \in Seq(Seq(Errors)), NEW x \in Seq(Errors), NEW r \in Seq(Errors)
  PROVE  /\ LeafsOf(FlattenSeq(Append(g, <<>>)) \o r) = LeafsOf(FlattenSeq(g) \o r)
         /\ LeafsOf(FlattenSeq(g) \o r)
              = LeafsOf(FlattenSeq(Append(g, <<>>)) \o Ok) \o LeafsOf(r)
         /\ LeafsOf(r) = LeafsOf(x) =>
              LeafsOf(FlattenSeq(g) \o r) = LeafsOf(FlattenSeq(Append(g, x)) \o Ok)
<1> DEFINE A == LeafsOf(FlattenSeq(g))
           X == LeafsOf(x)
           R == LeafsOf(r)
<1>1. Ok \in Seq(Errors) /\ <<>> \in Seq(Errors)
  BY EmptySeq DEF Ok
<1>2. A \in Seq(LeafRecords) /\ X \in Seq(LeafRecords) /\ R \in Seq(LeafRecords)
  BY LeafsInFlight, LeafsOfType
<1>3. LeafsOf(Ok) = <<>> /\ LeafsOf(<<>>) = <<>>
  BY LeafsOfEmpty DEF Ok
<1>4. LeafsOf(FlattenSeq(g) \o r) = A \o R
  BY LeafsInFlight
<1>5. LeafsOf(FlattenSeq(Append(g, <<>>)) \o r) = (A \o <<>>) \o R
  <2>1. LeafsOf(FlattenSeq(Append(g, <<>>)) \o r) = A \o LeafsOf(<<>>) \o LeafsOf(r)
    BY <1>1, LeafsInFlight
  <2> QED BY <1>3, <2>1
<1>6. LeafsOf(FlattenSeq(Append(g, <<>>)) \o Ok) = (A \o <<>>) \o <<>>
  <2>1. LeafsOf(FlattenSeq(Append(g, <<>>)) \o Ok) = A \o LeafsOf(<<>>) \o LeafsOf(Ok)
    BY <1>1, LeafsInFlight
  <2> QED BY <1>3, <2>1
<1>7. LeafsOf(FlattenSeq(Append(g, x)) \o Ok) = (A \o X) \o <<>>
  <2>1. LeafsOf(FlattenSeq(Append(g, x)) \o Ok) = A \o LeafsOf(x) \o LeafsOf(Ok)
    BY <1>1, LeafsInFlight
  <2> QED BY <1>3, <2>1
<1> HIDE DEF A, X, R
<1>8. A \o <<>> = A /\ A \o X \in Seq(LeafRecords)
  BY <1>2, Joins
<1>9. (A \o X) \o <<>> = A \o X
  BY <1>8, Joins
<1>10. LeafsOf(r) = R /\ LeafsOf(x) = X
  BY DEF R, X
<1> QED BY <1>4, <1>5, <1>6, <1>7, <1>8, <1>9, <1>10

\* A collector handed over is after that of the caller.
LEMMA Merged ==
  ASSUME NEW g \in Seq(Seq(Errors)), NEW y \in Seq(Errors), NEW x \in Seq(Errors)
  PROVE  LeafsOf(FlattenSeq(Append(g, y \o x)) \o Ok)
           = LeafsOf(FlattenSeq(Append(Append(g, y), x)) \o Ok)
<1>1. Append(g, y) \in Seq(Seq(Errors)) /\ <<>> \in Seq(Errors) /\ Ok = <<>>
  BY AppendProperties, EmptySeq DEF Ok
<1>2. FlattenSeq(Append(g, y \o x)) = FlattenSeq(g) \o (y \o x)
  <2>1. y \o x \in Seq(Errors)
    BY ConcatProperties
  <2> QED BY <2>1, FlattenAppend
<1>3. /\ FlattenSeq(Append(Append(g, y), x)) = FlattenSeq(Append(g, y)) \o x
      /\ FlattenSeq(Append(g, y)) = FlattenSeq(g) \o y
  BY <1>1, FlattenAppend
<1> DEFINE G == FlattenSeq(g)
           E == Errors
<1>4. G \in Seq(E)
  BY FlattenType
<1> HIDE DEF G, E
<1>5. (G \o y) \o x = G \o (y \o x)
  BY <1>4, Joins DEF E
<1> QED BY <1>2, <1>3, <1>5 DEF G

\* The errors of a Multiple are its leaves, and IntoResult loses none.
LEMMA LeafsOfMultiple ==
  ASSUME NEW e \in Errors, e.variant = "Multiple"
  PROVE  e.errors \in Seq(Errors) /\ Leafs[e] = LeafsOf(e.errors)
<1>1. e.errors \in Seq(Errors)
  BY PartsOfErrors, VariantsApart
<1>2. Leafs[e] = FlattenSeq([i \in DOMAIN e.errors |-> Leafs[e.errors[i]]])
  BY LeafsIs
<1> QED BY <1>1, <1>2 DEF LeafsOf

\* What a collector becomes has the leaves of what it collected.
LEMMA IntoResultIs ==
  ASSUME NEW s \in Seq(Errors), Nests(IntoResult(s))
  PROVE  /\ IntoResult(s) \in Seq(Errors)
         /\ Len(IntoResult(s)) <= 1
         /\ LeafsOf(IntoResult(s)) = LeafsOf(s)
<1>1. CASE s = <<>>
  <2>1. IntoResult(s) = <<>>
    BY <1>1 DEF IntoResult, Ok
  <2>2. Len(<<>>) <= 1
    OBVIOUS
  <2> QED BY <1>1, <2>1, <2>2, Zenon
<1>2. CASE s # <<>> /\ Len(s) = 1
  <2>1. IntoResult(s) = <<Head(s)>>
    BY <1>2 DEF IntoResult, Err
  <2>2. s = <<Head(s)>>
    BY <1>2
  <2> QED BY <1>2, <2>1, <2>2
<1>3. CASE s # <<>> /\ Len(s) # 1
  <2> DEFINE m == Multiple(s)
  <2>1. IntoResult(s) = <<m>>
    BY <1>3 DEF IntoResult, Err
  <2>2. m.variant = "Multiple" /\ m.errors = s
    BY DEF Multiple
  <2> HIDE DEF m
  <2>3. m \in ToSet(<<m>>)
    BY DEF ToSet
  <2>4. m \in Errors
    BY <2>1, <2>3 DEF Nests
  <2>5. Leafs[m] = LeafsOf(s)
    BY <2>2, <2>4, LeafsOfMultiple
  <2>6. <<m>> \in Seq(Errors) /\ Len(<<m>>) <= 1
    BY <2>4
  <2>7. LeafsOf(<<m>>) = LeafsOf(s)
    BY <2>4, <2>5, LeafsOfOne
  <2> QED BY <2>1, <2>6, <2>7
<1> QED BY <1>1, <1>2, <1>3

\* A result is nothing or one error.
LEMMA ResultIs ==
  ASSUME NEW r \in Seq(Errors), Len(r) <= 1
  PROVE  r = <<>> \/ \E e \in Errors : r = <<e>>
<1>1. CASE Len(r) = 0
  BY <1>1, EmptySeq
<1>2. CASE Len(r) = 1
  <2>1. r[1] \in Errors /\ r = <<r[1]>>
    BY <1>2
  <2> QED BY <2>1
<1>3. Len(r) = 0 \/ Len(r) = 1
  <2> DEFINE n == Len(r)
  <2>1. n \in Nat /\ n <= 1
    BY LenProperties
  <2> HIDE DEF n
  <2>2. n = 0 \/ n = 1
    BY <2>1
  <2> QED BY <2>2 DEF n
<1> QED BY <1>1, <1>2, <1>3, Zenon

\* A context on a result is on each of its leaves.
LEMMA WithContextIs ==
  ASSUME NEW r \in Seq(Errors), Len(r) <= 1, NEW l \in Labels, Nests(WithContext(r, l))
  PROVE  /\ WithContext(r, l) \in Seq(Errors)
         /\ Len(WithContext(r, l)) <= 1
         /\ WithContext(r, l) = <<>> <=> r = <<>>
         /\ LeafsOf(WithContext(r, l)) = Under(l, LeafsOf(r))
<1>1. CASE r = <<>>
  <2>1. WithContext(r, l) = <<>>
    BY <1>1 DEF WithContext
  <2>2. Under(l, <<>>) = <<>>
    BY DEF Under
  <2> QED BY <1>1, <2>1, <2>2, LeafsOfEmpty
<1>2. ASSUME NEW e \in Errors, r = <<e>>
      PROVE  /\ WithContext(r, l) \in Seq(Errors)
             /\ Len(WithContext(r, l)) <= 1
             /\ WithContext(r, l) = <<>> <=> r = <<>>
             /\ LeafsOf(WithContext(r, l)) = Under(l, LeafsOf(r))
  <2> DEFINE c == Context(l, e)
  <2>1. WithContext(r, l) = <<c>>
    BY <1>2 DEF WithContext
  <2>2. c.variant = "Context" /\ c.source = e /\ c.context = l
    BY DEF Context
  <2> HIDE DEF c
  <2>3. c \in ToSet(<<c>>)
    BY DEF ToSet
  <2>4. c \in Errors
    BY <2>1, <2>3 DEF Nests
  <2>5. Leafs[c] = Under(l, Leafs[e])
    BY <2>2, <2>4, LeafsIs
  <2>6. <<c>> \in Seq(Errors) /\ Len(<<c>>) <= 1 /\ <<c>> # <<>> /\ <<e>> # <<>>
    BY <2>4
  <2>7. LeafsOf(<<c>>) = Leafs[c] /\ LeafsOf(<<e>>) = Leafs[e]
    BY <2>4, LeafsOfOne
  <2> QED BY <1>2, <2>1, <2>5, <2>6, <2>7
<1> QED BY <1>1, <1>2, ResultIs

\* A context on what is returned is on the last of the leaves raised, which are those
\* of what is returned.
LEMMA Wrapped ==
  ASSUME NEW f \in Seq(Seq(Errors)), NEW r \in Seq(Errors), Len(r) <= 1,
         NEW l \in Labels, Nests(WithContext(r, l)),
         NEW all, all = LeafsOf(FlattenSeq(f) \o r)
  PROVE  LET old == Len(all) - Len(LeafsOf(r))
             new == SubSeq(all, 1, old) \o Under(l, SubSeq(all, old + 1, Len(all)))
         IN  /\ LeafsOf(FlattenSeq(f) \o WithContext(r, l)) = new
             /\ new \in Seq(LeafRecords)
<1> DEFINE A == LeafsOf(FlattenSeq(f))
           R == LeafsOf(r)
           U == LeafsOf(WithContext(r, l))
<1>1. A \in Seq(LeafRecords) /\ R \in Seq(LeafRecords) /\ all = A \o R
  BY LeafsInFlight, LeafsOfType
<1>2. WithContext(r, l) \in Seq(Errors) /\ U = Under(l, R)
  BY WithContextIs
<1>3. LeafsOf(FlattenSeq(f) \o WithContext(r, l)) = A \o U /\ U \in Seq(LeafRecords)
  BY <1>2, LeafsInFlight, LeafsOfType
<1>4. R = LeafsOf(r)
  OBVIOUS
<1> HIDE DEF A, R, U
<1>5. /\ Len(all) - Len(R) = Len(A)
      /\ SubSeq(all, 1, Len(A)) = A
      /\ SubSeq(all, Len(A) + 1, Len(all)) = R
  BY <1>1, Joins
<1>6. A \o U \in Seq(LeafRecords)
  BY <1>1, <1>3, Joins
<1> QED BY <1>2, <1>3, <1>4, <1>5, <1>6

\* The state after each action, in terms of the state before.
LEMMA FlowInit == ErrorInit => FlowInv
<1> SUFFICES ASSUME ErrorInit PROVE FlowInv
  OBVIOUS
<1>1. frames = Append(<<>>, <<>>) /\ frames \in Seq(Seq(Errors)) /\ Len(frames) = 1 /\ frames # <<>>
  BY DEF ErrorInit
<1>2. returned = Ok /\ raised = <<>> /\ returning = FALSE
  BY DEF ErrorInit
<1>3. Ok \in Seq(Errors) /\ Len(Ok) <= 1 /\ Ok = <<>> /\ <<>> \in Seq(Seq(Errors))
  BY EmptySeq DEF Ok
<1>4. LeafsOf(FlattenSeq(Append(<<>>, <<>>)) \o Ok) = LeafsOf(FlattenSeq(<<>>) \o Ok)
  BY <1>3, Returned
<1>5. FlattenSeq(<<>>) \o Ok = <<>>
  BY <1>3, FlattenEmpty, ConcatEmptySeq
<1>6. EveryErrorArrives
  BY <1>1, <1>2, <1>4, <1>5, LeafsOfEmpty DEF EveryErrorArrives
<1>7. Len(frames) <= MaxCalls
  BY <1>1, FlowAssumption
<1>8. raised \in Seq(LeafRecords)
  BY <1>2, EmptySeq
<1> QED BY <1>1, <1>2, <1>3, <1>6, <1>7, <1>8 DEF FlowInv, Working

\* The functions being run are the innermost and the others.
LEMMA Split ==
  ASSUME FlowInv, frames # <<>>,
         NEW g, g = Front(frames), NEW x, x = Top
  PROVE  /\ g \in Seq(Seq(Errors)) /\ x \in Seq(Errors)
         /\ frames = Append(g, x)
         /\ Len(frames) = Len(g) + 1 /\ Len(g) \in Nat
         /\ \A y \in Seq(Errors) : /\ [frames EXCEPT ![Len(frames)] = y] = Append(g, y)
                                   /\ Append(g, y) \in Seq(Seq(Errors))
                                   /\ Append(g, y) # <<>>
                                   /\ Len(Append(g, y)) = Len(frames)
         /\ frames[Len(frames)] = x
<1>1. frames \in Seq(Seq(Errors))
  BY DEF FlowInv
<1>2. /\ g \in Seq(Seq(Errors)) /\ x \in Seq(Errors)
      /\ Len(frames) = Len(g) + 1 /\ frames = Append(g, x)
      /\ \A y \in Seq(Errors) : [frames EXCEPT ![Len(frames)] = y] = Append(g, y)
  BY <1>1, Innermost DEF Top
<1>3. Len(g) \in Nat
  BY <1>2, LenProperties
<1>4. frames[Len(frames)] = x
  BY DEF Top, Last
<1>5. ASSUME NEW y \in Seq(Errors)
      PROVE  /\ Append(g, y) \in Seq(Seq(Errors))
             /\ Append(g, y) # <<>>
             /\ Len(Append(g, y)) = Len(frames)
  BY <1>2, <1>5, AppendProperties
<1> QED BY <1>2, <1>3, <1>4, <1>5

\* A function entered has an empty collector.
LEMMA FlowEnter == FlowInv /\ Enter => FlowInv'
<1> SUFFICES ASSUME FlowInv, Enter PROVE FlowInv'
  OBVIOUS
<1>1. /\ frames \in Seq(Seq(Errors)) /\ returned \in Seq(Errors) /\ Len(returned) <= 1
      /\ raised \in Seq(LeafRecords) /\ returning = FALSE /\ returned = Ok
      /\ LeafsOf(FlattenSeq(frames) \o returned) = raised
  BY DEF FlowInv, Enter, Working, EveryErrorArrives
<1>2. /\ frames' = Append(frames, <<>>) /\ Len(frames) < MaxCalls
      /\ returning' = returning /\ returned' = returned /\ raised' = raised
  BY DEF Enter
<1>3. <<>> \in Seq(Errors)
  BY EmptySeq
<1>4. frames' \in Seq(Seq(Errors)) /\ frames' # <<>> /\ Len(frames') <= MaxCalls
  BY <1>1, <1>2, <1>3, FlowAssumption, AppendProperties
<1>5. LeafsOf(FlattenSeq(Append(frames, <<>>)) \o returned) = LeafsOf(FlattenSeq(frames) \o returned)
  BY <1>1, <1>3, Returned
<1>6. EveryErrorArrives'
  BY <1>1, <1>2, <1>5 DEF EveryErrorArrives
<1> QED BY <1>1, <1>2, <1>4, <1>6 DEF FlowInv, Working

\* What a check finds is the last of what is collected and of what was raised.
LEMMA FlowCheck ==
  ASSUME FlowInv, NEW r \in Seq(Errors), Check(r)
  PROVE  FlowInv'
<1>1. /\ frames \in Seq(Seq(Errors)) /\ returned = Ok
      /\ raised \in Seq(LeafRecords) /\ returning = FALSE
      /\ frames # <<>> /\ Len(frames) <= MaxCalls
      /\ LeafsOf(FlattenSeq(frames) \o returned) = raised
  BY DEF FlowInv, Check, Working, EveryErrorArrives
<1> DEFINE g == Front(frames)
           x == Top
<1>2. /\ g \in Seq(Seq(Errors)) /\ x \in Seq(Errors)
      /\ frames = Append(g, x)
      /\ frames[Len(frames)] = x
      /\ \A y \in Seq(Errors) : /\ [frames EXCEPT ![Len(frames)] = y] = Append(g, y)
                                /\ Append(g, y) \in Seq(Seq(Errors))
                                /\ Append(g, y) # <<>>
                                /\ Len(Append(g, y)) = Len(frames)
  BY <1>1, Split
<1> HIDE DEF g, x
<1>3. x \o r \in Seq(Errors)
  BY <1>2, ConcatProperties
<1>4. /\ frames' = [frames EXCEPT ![Len(frames)] = x \o r]
      /\ raised' = raised \o LeafsOf(r)
      /\ returning' = returning /\ returned' = returned
  BY <1>2 DEF Check, Collect
<1>5. frames' = Append(g, x \o r) /\ frames' \in Seq(Seq(Errors)) /\ frames' # <<>>
      /\ Len(frames') = Len(frames)
  BY <1>2, <1>3, <1>4
<1>6. LeafsOf(FlattenSeq(Append(g, x \o r)) \o Ok) = LeafsOf(FlattenSeq(Append(g, x)) \o Ok) \o LeafsOf(r)
  BY <1>2, Gathered
<1>7. EveryErrorArrives'
  BY <1>1, <1>2, <1>4, <1>5, <1>6 DEF EveryErrorArrives
<1>8. raised' \in Seq(LeafRecords)
  BY <1>1, <1>4, LeafsOfType, ConcatProperties
<1>9. Ok \in Seq(Errors) /\ Len(Ok) <= 1
  BY EmptySeq DEF Ok
<1> QED BY <1>1, <1>4, <1>5, <1>7, <1>8, <1>9 DEF FlowInv, Working

\* A function that fails at once has collected nothing that is dropped.
LEMMA FlowFail ==
  ASSUME FlowInv, NEW r \in Seq(Errors), Len(r) <= 1, Fail(r)
  PROVE  FlowInv'
<1>1. /\ frames \in Seq(Seq(Errors)) /\ returned = Ok
      /\ raised \in Seq(LeafRecords) /\ returning = FALSE
      /\ frames # <<>> /\ Len(frames) <= MaxCalls
      /\ LeafsOf(FlattenSeq(frames) \o returned) = raised
  BY DEF FlowInv, Fail, Working, EveryErrorArrives
<1> DEFINE g == Front(frames)
           x == Top
<1>2. /\ g \in Seq(Seq(Errors))
      /\ frames = Append(g, x)
      /\ Len(frames) = Len(g) + 1 /\ Len(g) \in Nat
  BY <1>1, Split
<1>3. /\ frames' = g /\ returning' = TRUE /\ returned' = r
      /\ raised' = raised \o LeafsOf(r) /\ x = <<>>
  BY DEF Fail
<1> HIDE DEF g, x
<1>4. LeafsOf(FlattenSeq(g) \o r) = LeafsOf(FlattenSeq(Append(g, <<>>)) \o Ok) \o LeafsOf(r)
  BY <1>2, EmptySeq, Returned
<1>5. EveryErrorArrives'
  BY <1>1, <1>2, <1>3, <1>4 DEF EveryErrorArrives
<1>6. raised' \in Seq(LeafRecords)
  BY <1>1, <1>3, LeafsOfType, ConcatProperties
<1>7. Len(frames') <= MaxCalls
  BY <1>1, <1>2, <1>3, FlowAssumption
<1> QED BY <1>2, <1>3, <1>5, <1>6, <1>7 DEF FlowInv, Working

\* A function that ends returns all it has collected.
LEMMA FlowLeave == FlowInv /\ Leave => FlowInv'
<1> SUFFICES ASSUME FlowInv, Leave PROVE FlowInv'
  OBVIOUS
<1>1. /\ frames \in Seq(Seq(Errors)) /\ returned = Ok
      /\ raised \in Seq(LeafRecords) /\ returning = FALSE
      /\ frames # <<>> /\ Len(frames) <= MaxCalls
      /\ LeafsOf(FlattenSeq(frames) \o returned) = raised
  BY DEF FlowInv, Leave, Working, EveryErrorArrives
<1> DEFINE g == Front(frames)
           x == Top
           r == IntoResult(x)
<1>2. /\ g \in Seq(Seq(Errors)) /\ x \in Seq(Errors)
      /\ frames = Append(g, x)
      /\ Len(frames) = Len(g) + 1 /\ Len(g) \in Nat
  BY <1>1, Split
<1>3. /\ frames' = g /\ returning' = TRUE /\ returned' = r
      /\ raised' = raised /\ Nests(r)
  BY DEF Leave
<1> HIDE DEF g, x
<1>4. r \in Seq(Errors) /\ Len(r) <= 1 /\ LeafsOf(r) = LeafsOf(x)
  BY <1>2, <1>3, IntoResultIs
<1> HIDE DEF r
<1>5. LeafsOf(FlattenSeq(g) \o r) = LeafsOf(FlattenSeq(Append(g, x)) \o Ok)
  BY <1>2, <1>4, Returned
<1>6. EveryErrorArrives'
  BY <1>1, <1>2, <1>3, <1>5 DEF EveryErrorArrives
<1>7. Len(frames') <= MaxCalls
  BY <1>1, <1>2, <1>3, FlowAssumption
<1> QED BY <1>1, <1>2, <1>3, <1>4, <1>6, <1>7 DEF FlowInv, Working

\* The collector of the caller ends where that of the function begins.
LEMMA FlowHandOver == FlowInv /\ HandOver => FlowInv'
<1> SUFFICES ASSUME FlowInv, HandOver PROVE FlowInv'
  OBVIOUS
<1>1. /\ frames \in Seq(Seq(Errors)) /\ returned = Ok
      /\ raised \in Seq(LeafRecords) /\ returning = FALSE
      /\ Len(frames) > 1 /\ frames # <<>> /\ Len(frames) <= MaxCalls
      /\ LeafsOf(FlattenSeq(frames) \o returned) = raised
  BY DEF FlowInv, HandOver, Working, EveryErrorArrives
<1> DEFINE g == Front(frames)
           x == Top
           h == Front(g)
           y == Last(g)
<1>2. /\ g \in Seq(Seq(Errors)) /\ x \in Seq(Errors)
      /\ frames = Append(g, x)
      /\ Len(frames) = Len(g) + 1 /\ Len(g) \in Nat
  BY <1>1, Split
<1>3. g # <<>> /\ Len(g) = Len(frames) - 1
  BY <1>1, <1>2
<1>4. /\ h \in Seq(Seq(Errors)) /\ y \in Seq(Errors)
      /\ g = Append(h, y)
      /\ \A z \in Seq(Errors) : [g EXCEPT ![Len(g)] = z] = Append(h, z)
  BY <1>2, <1>3, Innermost
<1>5. frames' = [g EXCEPT ![Len(g)] = g[Len(g)] \o x]
  BY <1>3 DEF HandOver, ExtendFrom
<1>6. g[Len(g)] = y
  BY DEF Last
<1>7. returning' = returning /\ returned' = returned /\ raised' = raised
  BY DEF HandOver
<1> HIDE DEF g, x, h, y
<1>8. y \o x \in Seq(Errors)
  BY <1>2, <1>4, ConcatProperties
<1>9. frames' = Append(h, y \o x)
  BY <1>4, <1>5, <1>6, <1>8
<1>10. /\ frames' \in Seq(Seq(Errors)) /\ frames' # <<>>
       /\ Len(frames') = Len(g)
  <2> DEFINE z == y \o x
             R == Seq(Errors)
  <2>1. /\ h \in Seq(R) /\ y \in R /\ z \in R /\ g = Append(h, y) /\ frames' = Append(h, z)
    BY <1>4, <1>8, <1>9
  <2> HIDE DEF z, R
  <2>2. frames' \in Seq(R) /\ frames' # <<>> /\ Len(frames') = Len(h) + 1 /\ Len(g) = Len(h) + 1
    BY <2>1, AppendProperties
  <2> QED BY <2>2 DEF R
<1>11. LeafsOf(FlattenSeq(Append(h, y \o x)) \o Ok) = LeafsOf(FlattenSeq(Append(Append(h, y), x)) \o Ok)
  BY <1>2, <1>4, Merged
<1>12. EveryErrorArrives'
  BY <1>1, <1>2, <1>4, <1>7, <1>9, <1>11 DEF EveryErrorArrives
<1>13. Len(frames') <= MaxCalls
  BY <1>1, <1>2, <1>10, FlowAssumption
<1>14. Ok \in Seq(Errors) /\ Len(Ok) <= 1
  BY EmptySeq DEF Ok
<1> QED BY <1>1, <1>7, <1>10, <1>12, <1>13, <1>14 DEF FlowInv, Working

\* A context is put on what is returned and on nothing else.
LEMMA FlowWrap ==
  ASSUME FlowInv, NEW l \in Labels, Wrap(l)
  PROVE  FlowInv'
<1>1. /\ frames \in Seq(Seq(Errors)) /\ returned \in Seq(Errors) /\ Len(returned) <= 1
      /\ returning = TRUE /\ Len(frames) <= MaxCalls
      /\ raised = LeafsOf(FlattenSeq(frames) \o returned)
  BY DEF FlowInv, Wrap, EveryErrorArrives
<1>2. /\ returned' = WithContext(returned, l)
      /\ Nests(WithContext(returned, l))
      /\ frames' = frames /\ returning' = returning
  BY DEF Wrap
<1>3. LET old == Len(raised) - Len(LeafsOf(returned))
      IN  raised' = SubSeq(raised, 1, old) \o Under(l, SubSeq(raised, old + 1, Len(raised)))
  BY DEF Wrap
<1>4. /\ LeafsOf(FlattenSeq(frames) \o WithContext(returned, l)) = raised'
      /\ raised' \in Seq(LeafRecords)
  BY <1>1, <1>2, <1>3, Wrapped
<1>5. WithContext(returned, l) \in Seq(Errors) /\ Len(WithContext(returned, l)) <= 1
  BY <1>1, <1>2, WithContextIs
<1>6. EveryErrorArrives'
  BY <1>2, <1>4 DEF EveryErrorArrives
<1> QED BY <1>1, <1>2, <1>4, <1>5, <1>6 DEF FlowInv, Working

\* What the caller collects, when it goes on.
LEMMA FlowOn ==
  ASSUME FlowInv, frames # <<>>, NEW r \in Seq(Errors), LeafsOf(r) = LeafsOf(returned),
         frames' = [frames EXCEPT ![Len(frames)] = Top \o r],
         returning' = FALSE, returned' = Ok, raised' = raised
  PROVE  FlowInv'
<1>1. /\ frames \in Seq(Seq(Errors)) /\ returned \in Seq(Errors)
      /\ raised \in Seq(LeafRecords) /\ Len(frames) <= MaxCalls
      /\ LeafsOf(FlattenSeq(frames) \o returned) = raised
  BY DEF FlowInv, EveryErrorArrives
<1> DEFINE g == Front(frames)
           x == Top
<1>2. /\ g \in Seq(Seq(Errors)) /\ x \in Seq(Errors)
      /\ frames = Append(g, x)
      /\ frames[Len(frames)] = x
      /\ \A y \in Seq(Errors) : /\ [frames EXCEPT ![Len(frames)] = y] = Append(g, y)
                                /\ Append(g, y) \in Seq(Seq(Errors))
                                /\ Append(g, y) # <<>>
                                /\ Len(Append(g, y)) = Len(frames)
  BY Split
<1> HIDE DEF g, x
<1>3. x \o r \in Seq(Errors)
  BY <1>2, ConcatProperties
<1>4. frames' = [frames EXCEPT ![Len(frames)] = x \o r]
  BY DEF x
<1>5. frames' = Append(g, x \o r) /\ frames' \in Seq(Seq(Errors)) /\ frames' # <<>>
      /\ Len(frames') = Len(frames)
  <2> DEFINE z == x \o r
  <2>1. z \in Seq(Errors) /\ frames' = [frames EXCEPT ![Len(frames)] = z]
    BY <1>3, <1>4
  <2> HIDE DEF z
  <2>2. /\ [frames EXCEPT ![Len(frames)] = z] = Append(g, z)
        /\ Append(g, z) \in Seq(Seq(Errors)) /\ Append(g, z) # <<>>
        /\ Len(Append(g, z)) = Len(frames)
    BY <1>2, <2>1
  <2>3. frames' = Append(g, z)
    BY <2>1, <2>2, Zenon
  <2> QED BY <2>2, <2>3 DEF z
<1>6. LeafsOf(FlattenSeq(Append(g, x \o r)) \o Ok) = LeafsOf(FlattenSeq(Append(g, x)) \o returned)
  <2>1. g \in Seq(Seq(Errors)) /\ x \in Seq(Errors) /\ returned \in Seq(Errors)
    BY <1>1, <1>2
  <2>2. LeafsOf(FlattenSeq(Append(g, x \o r)) \o Ok)
          = LeafsOf(FlattenSeq(Append(g, x)) \o Ok) \o LeafsOf(r)
    BY <2>1, Gathered
  <2>3. LeafsOf(FlattenSeq(Append(g, x \o returned)) \o Ok)
          = LeafsOf(FlattenSeq(Append(g, x)) \o returned)
    BY <2>1, Gathered
  <2>4. LeafsOf(FlattenSeq(Append(g, x \o returned)) \o Ok)
          = LeafsOf(FlattenSeq(Append(g, x)) \o Ok) \o LeafsOf(returned)
    BY <2>1, Gathered
  <2> QED BY <2>2, <2>3, <2>4
<1>7. EveryErrorArrives'
  BY <1>1, <1>2, <1>5, <1>6 DEF EveryErrorArrives
<1>8. Ok \in Seq(Errors) /\ Len(Ok) <= 1
  BY EmptySeq DEF Ok
<1> QED BY <1>1, <1>5, <1>7, <1>8 DEF FlowInv, Working

\* The caller collects the result as it is, or the errors in it.
LEMMA FlowGather == FlowInv /\ Gather => FlowInv'
<1> SUFFICES ASSUME FlowInv, Gather PROVE FlowInv'
  OBVIOUS
<1>1. returned \in Seq(Errors)
  BY DEF FlowInv
<1>2. /\ frames # <<>> /\ frames' = [frames EXCEPT ![Len(frames)] = Top \o returned]
      /\ returning' = FALSE /\ returned' = Ok /\ raised' = raised
  BY DEF Gather, Collect, Top, Last
<1> QED BY <1>1, <1>2, FlowOn

\* Unpacking keeps the invariant.
LEMMA FlowUnpack == FlowInv /\ Unpack => FlowInv'
<1> SUFFICES ASSUME FlowInv, Unpack PROVE FlowInv'
  OBVIOUS
<1>1. /\ frames # <<>> /\ frames' = [frames EXCEPT ![Len(frames)] = Top \o returned[1].errors]
      /\ returning' = FALSE /\ returned' = Ok /\ raised' = raised
      /\ returned # <<>> /\ returned[1].variant = "Multiple"
  BY DEF Unpack, ExtendFrom, Ok, Top, Last
<1>2. PICK e \in Errors : returned = <<e>>
  BY <1>1, ResultIs DEF FlowInv
<1>3. e = returned[1]
  BY <1>2
<1>4. e.errors \in Seq(Errors) /\ Leafs[e] = LeafsOf(e.errors)
  BY <1>1, <1>3, LeafsOfMultiple
<1>5. LeafsOf(e.errors) = LeafsOf(returned)
  BY <1>2, <1>4, LeafsOfOne
<1>6. frames' = [frames EXCEPT ![Len(frames)] = Top \o e.errors]
  BY <1>1, <1>3
<1> QED BY <1>1, <1>4, <1>5, <1>6, FlowOn

\* `?` drops a collector that is empty.
LEMMA FlowPropagate == FlowInv /\ Propagate => FlowInv'
<1> SUFFICES ASSUME FlowInv, Propagate PROVE FlowInv'
  OBVIOUS
<1>1. /\ frames \in Seq(Seq(Errors)) /\ returned \in Seq(Errors) /\ Len(returned) <= 1
      /\ raised \in Seq(LeafRecords) /\ returning = TRUE
      /\ frames # <<>> /\ Len(frames) <= MaxCalls
      /\ LeafsOf(FlattenSeq(frames) \o returned) = raised
  BY DEF FlowInv, Propagate, EveryErrorArrives
<1> DEFINE g == Front(frames)
           x == Top
<1>2. /\ g \in Seq(Seq(Errors))
      /\ frames = Append(g, x)
      /\ Len(frames) = Len(g) + 1 /\ Len(g) \in Nat
  BY <1>1, Split
<1>3. /\ frames' = g /\ returning' = returning /\ returned' = returned
      /\ raised' = raised /\ x = <<>>
  BY DEF Propagate
<1> HIDE DEF g, x
<1>4. LeafsOf(FlattenSeq(Append(g, <<>>)) \o returned) = LeafsOf(FlattenSeq(g) \o returned)
  BY <1>1, <1>2, EmptySeq, Returned
<1>5. EveryErrorArrives'
  BY <1>1, <1>2, <1>3, <1>4 DEF EveryErrorArrives
<1>6. Len(frames') <= MaxCalls
  BY <1>1, <1>2, <1>3, FlowAssumption
<1> QED BY <1>1, <1>2, <1>3, <1>5, <1>6 DEF FlowInv, Working

\* After a report nothing is in flight.
LEMMA FlowReport == Report => FlowInv'
<1> SUFFICES ASSUME Report PROVE FlowInv'
  OBVIOUS
<1>1. /\ frames' = Append(<<>>, <<>>) /\ frames' \in Seq(Seq(Errors))
      /\ Len(frames') = 1 /\ frames' # <<>>
      /\ returned' = Ok /\ raised' = <<>> /\ returning' = FALSE
  BY DEF Report
<1>2. Ok \in Seq(Errors) /\ Len(Ok) <= 1 /\ Ok = <<>> /\ <<>> \in Seq(Seq(Errors))
  BY EmptySeq DEF Ok
<1>3. LeafsOf(FlattenSeq(Append(<<>>, <<>>)) \o Ok) = LeafsOf(FlattenSeq(<<>>) \o Ok)
  BY <1>2, Returned
<1>4. FlattenSeq(<<>>) \o Ok = <<>>
  BY <1>2, FlattenEmpty, ConcatEmptySeq
<1>5. EveryErrorArrives'
  BY <1>1, <1>3, <1>4, LeafsOfEmpty DEF EveryErrorArrives
<1>6. Len(frames') <= MaxCalls
  BY <1>1, FlowAssumption
<1>7. raised' \in Seq(LeafRecords)
  BY <1>1, EmptySeq
<1> QED BY <1>1, <1>2, <1>5, <1>6, <1>7 DEF FlowInv, Working

\* Every action keeps the invariant.
LEMMA FlowStep == FlowInv /\ [ErrorNext]_errorVars => FlowInv'
<1> SUFFICES ASSUME FlowInv, [ErrorNext]_errorVars PROVE FlowInv'
  OBVIOUS
<1>1. CASE Enter
  BY <1>1, FlowEnter
<1>2. ASSUME NEW r \in Findings, Check(r) PROVE FlowInv'
  BY <1>2, FindingsAre, FlowCheck
<1>3. ASSUME NEW r \in Findings \cup {NoneWithContext} \cup {NoneOr(Leaf(v)) : v \in Leaves},
             Fail(r)
      PROVE  FlowInv'
  BY <1>3, FindingsAre, FlowFail
<1>4. CASE Leave
  BY <1>4, FlowLeave
<1>5. CASE HandOver
  BY <1>5, FlowHandOver
<1>6. ASSUME NEW l \in Labels, Wrap(l) PROVE FlowInv'
  BY <1>6, FlowWrap
<1>7. CASE Gather
  BY <1>7, FlowGather
<1>8. CASE Unpack
  BY <1>8, FlowUnpack
<1>9. CASE Propagate
  BY <1>9, FlowPropagate
<1>10. CASE Report
  BY <1>10, FlowReport
<1>11. CASE UNCHANGED errorVars
  BY <1>11 DEF FlowInv, EveryErrorArrives, Working, errorVars
<1> QED BY <1>1, <1>2, <1>3, <1>4, <1>5, <1>6, <1>7, <1>8, <1>9, <1>10, <1>11 DEF ErrorNext

---------------------------------------------------------------------------
\* The names of the variants of each domain, and that no two have the same.
LEMMA NamesOf ==
  /\ ToSet(Shape) = {"ShapeMismatch", "BroadcastError", "DimensionMismatch",
                     "AxisOutOfRange", "ScalarArray", "ZeroSizedDimension",
                     "ShapeOverflow", "ReshapeIncompatible", "EmptyStackSequence",
                     "ConcatShapeMismatch"}
  /\ ToSet(Typing) = {"DTypeMismatch", "InvalidCast", "Overflow", "Underflow",
                      "UnknownDType", "UnsupportedDType", "AmbiguousPromotion"}
  /\ ToSet(Index) = {"IndexOutOfBounds", "TooManyIndices", "ZeroSliceStep",
                     "SliceOutOfBounds", "BoolIndexShapeMismatch",
                     "FancyIndexOutOfBounds"}
  /\ ToSet(Memory) = {"AllocationFailed", "AlignmentError", "BufferTooSmall",
                      "InvalidStride", "OverlappingStrides", "NonContiguous", "ReadOnly",
                      "CannotResizeShared", "OffsetOverflow"}
  /\ ToSet(Compute) = {"SingularMatrix", "NonConvergence", "DomainError",
                       "DivisionByZero", "MatrixDimensionMismatch",
                       "EigenDecompositionFailed", "NotPositiveDefinite",
                       "QRRankDeficient", "SVDNonConvergence", "UnsupportedNormOrder"}
  /\ ToSet(Files) = {"Io", "InvalidMagic", "UnsupportedVersion", "CorruptData",
                     "UnexpectedEof", "UnsupportedCodec", "NpyHeaderError",
                     "NpzEntryNotFound", "CsvParseError"}
  /\ ToSet(DLPack) = {"DLPackUnsupportedDevice", "DLPackVersionMismatch",
                      "DLPackNullPointer", "DLPackUnsupportedDType", "DLPackInvalid"}
  /\ ToSet(Arrow) = {"ArrowSchema", "ArrowIpc", "ArrowUnsupportedType",
                     "ArrowValidityError"}
  /\ ToSet(Python) = {"PythonType", "PythonValue", "PythonBuffer", "PythonNoBuffer",
                      "PythonUnsupportedBufferFormat"}
  /\ ToSet(General) = {"Context", "NotImplemented", "Internal"}
BY DEF ToSet, Shape, Typing, Index, Memory, Compute, Files, DLPack, Arrow, Python, General

\* No name is in two domains, nor twice in one.
LEMMA DomainsApart ==
  \A i, d \in 1..10 : i # d => ToSet(Domains[i]) \cap ToSet(Domains[d]) = {}
<1>1. ToSet(Shape) \cap (ToSet(Typing) \cup ToSet(Index) \cup ToSet(Memory) \cup ToSet(Compute) \cup ToSet(Files)
          \cup ToSet(DLPack) \cup ToSet(Arrow) \cup ToSet(Python) \cup ToSet(General)) = {}
  BY NamesOf
<1>2. ToSet(Typing) \cap (ToSet(Index) \cup ToSet(Memory) \cup ToSet(Compute) \cup ToSet(Files) \cup ToSet(DLPack)
          \cup ToSet(Arrow) \cup ToSet(Python) \cup ToSet(General)) = {}
  BY NamesOf
<1>3. ToSet(Index) \cap (ToSet(Memory) \cup ToSet(Compute) \cup ToSet(Files) \cup ToSet(DLPack) \cup ToSet(Arrow)
          \cup ToSet(Python) \cup ToSet(General)) = {}
  BY NamesOf
<1>4. ToSet(Memory) \cap (ToSet(Compute) \cup ToSet(Files) \cup ToSet(DLPack) \cup ToSet(Arrow) \cup ToSet(Python)
          \cup ToSet(General)) = {}
  BY NamesOf
<1>5. ToSet(Compute) \cap (ToSet(Files) \cup ToSet(DLPack) \cup ToSet(Arrow) \cup ToSet(Python) \cup ToSet(General)) = {}
  BY NamesOf
<1>6. ToSet(Files) \cap (ToSet(DLPack) \cup ToSet(Arrow) \cup ToSet(Python) \cup ToSet(General)) = {}
  BY NamesOf
<1>7. ToSet(DLPack) \cap (ToSet(Arrow) \cup ToSet(Python) \cup ToSet(General)) = {}
  BY NamesOf
<1>8. ToSet(Arrow) \cap (ToSet(Python) \cup ToSet(General)) = {}
  BY NamesOf
<1>9. ToSet(Python) \cap ToSet(General) = {}
  BY NamesOf
<1> QED BY <1>1, <1>2, <1>3, <1>4, <1>5, <1>6, <1>7, <1>8, <1>9, DomainsAre

\* No domain names a code twice.
LEMMA NamesApart ==
  \A d \in 1..10 : \A j, k \in DOMAIN Domains[d] : Domains[d][j] = Domains[d][k] => j = k
<1>1. \A j, k \in DOMAIN Shape : Shape[j] = Shape[k] => j = k
  BY DEF Shape
<1>2. \A j, k \in DOMAIN Typing : Typing[j] = Typing[k] => j = k
  BY DEF Typing
<1>3. \A j, k \in DOMAIN Index : Index[j] = Index[k] => j = k
  BY DEF Index
<1>4. \A j, k \in DOMAIN Memory : Memory[j] = Memory[k] => j = k
  BY DEF Memory
<1>5. \A j, k \in DOMAIN Compute : Compute[j] = Compute[k] => j = k
  BY DEF Compute
<1>6. \A j, k \in DOMAIN Files : Files[j] = Files[k] => j = k
  BY DEF Files
<1>7. \A j, k \in DOMAIN DLPack : DLPack[j] = DLPack[k] => j = k
  BY DEF DLPack
<1>8. \A j, k \in DOMAIN Arrow : Arrow[j] = Arrow[k] => j = k
  BY DEF Arrow
<1>9. \A j, k \in DOMAIN Python : Python[j] = Python[k] => j = k
  BY DEF Python
<1>10. \A j, k \in DOMAIN General : General[j] = General[k] => j = k
  BY DEF General
<1> QED BY <1>1, <1>2, <1>3, <1>4, <1>5, <1>6, <1>7, <1>8, <1>9, <1>10, DomainsAre

\* So the number of a code is given by its place.
LEMMA NumberIs ==
  ASSUME NEW d \in 1..10, NEW j \in DOMAIN Domains[d]
  PROVE  NumberOf(Domains[d][j]) = 1000 * d + j - 1
<1> DEFINE c == Domains[d][j]
<1>1. c \in ToSet(Domains[d])
  BY DEF ToSet
<1>2. \A i \in 1..10 : c \in ToSet(Domains[i]) => i = d
  BY <1>1, DomainsApart
<1>3. (CHOOSE i \in DOMAIN Domains : c \in ToSet(Domains[i])) = d
  <2>1. d \in DOMAIN Domains /\ \A i \in DOMAIN Domains : c \in ToSet(Domains[i]) => i = d
    BY <1>2, DomainsAre
  <2> HIDE DEF c
  <2> QED BY <1>1, <2>1
<1>4. (CHOOSE k \in DOMAIN Domains[d] : Domains[d][k] = c) = j
  <2>1. \A k \in DOMAIN Domains[d] : Domains[d][k] = c => k = j
    BY NamesApart
  <2>2. Domains[d][j] = c
    OBVIOUS
  <2> HIDE DEF c
  <2> QED BY <2>1, <2>2
<1>5. NumberOf(c) = 1000 * d + j - 1
  <2> DEFINE D == CHOOSE i \in DOMAIN Domains : c \in ToSet(Domains[i])
             K(x) == CHOOSE k \in DOMAIN Domains[x] : Domains[x][k] = c
  <2>1. NumberOf(c) = 1000 * D + K(D) - 1
    <3> HIDE DEF c
    <3> QED BY DEF NumberOf
  <2>2. D = d /\ K(d) = j
    BY <1>3, <1>4
  <2> HIDE DEF D, K
  <2> QED BY <2>1, <2>2
<1> QED BY <1>5

\* The kinds of the variants, by their domains.
LEMMA NumbersIn ==
  ASSUME NEW d \in 1..10, NEW v \in ToSet(Domains[d])
  PROVE  NumberOf(v) \in (1000 * d)..(1000 * d + 9)
<1>1. PICK j \in DOMAIN Domains[d] : Domains[d][j] = v
  BY DEF ToSet
<1>2. DOMAIN Domains[d] \subseteq 1..10
  <2>1. /\ DOMAIN Shape = 1..10 /\ DOMAIN Typing = 1..7 /\ DOMAIN Index = 1..6
        /\ DOMAIN Memory = 1..9 /\ DOMAIN Compute = 1..10 /\ DOMAIN Files = 1..9
        /\ DOMAIN DLPack = 1..5 /\ DOMAIN Arrow = 1..4 /\ DOMAIN Python = 1..5
        /\ DOMAIN General = 1..3
    BY DEF Shape, Typing, Index, Memory, Compute, Files, DLPack, Arrow, Python, General
  <2> QED BY <2>1, DomainsAre
<1>3. NumberOf(v) = 1000 * d + j - 1
  BY <1>1, NumberIs
<1>4. j \in 1..10
  BY <1>2
<1> QED BY <1>3, <1>4

\* The numbers at which the kinds change within a domain.
LEMMA NumbersAre ==
  /\ NumberOf("AllocationFailed") = 4000
  /\ NumberOf("AlignmentError") = 4001
  /\ NumberOf("BufferTooSmall") = 4002
  /\ \A v \in ToSet(Memory) \ {"AllocationFailed", "AlignmentError", "BufferTooSmall"} :
       NumberOf(v) \in 4003..4009
  /\ NumberOf("DLPackNullPointer") = 7002
  /\ \A v \in ToSet(DLPack) \ {"DLPackNullPointer"} : NumberOf(v) \in 7000..7009 \ {7002}
  /\ NumberOf("Context") = 10000
  /\ NumberOf("NotImplemented") = 10001
  /\ NumberOf("Internal") = 10002
<1>1. /\ DOMAIN Memory = 1..9 /\ DOMAIN DLPack = 1..5 /\ DOMAIN General = 1..3
      /\ Memory[1] = "AllocationFailed" /\ Memory[2] = "AlignmentError"
      /\ Memory[3] = "BufferTooSmall" /\ DLPack[3] = "DLPackNullPointer"
      /\ General[1] = "Context" /\ General[2] = "NotImplemented" /\ General[3] = "Internal"
  BY DEF Memory, DLPack, General
<1>2. /\ \A j \in 1..9 : NumberOf(Memory[j]) = 4000 + j - 1
      /\ \A j \in 1..5 : NumberOf(DLPack[j]) = 7000 + j - 1
      /\ \A j \in 1..3 : NumberOf(General[j]) = 10000 + j - 1
  <2>1. /\ \A j \in DOMAIN Domains[4] : NumberOf(Domains[4][j]) = 1000 * 4 + j - 1
        /\ \A j \in DOMAIN Domains[7] : NumberOf(Domains[7][j]) = 1000 * 7 + j - 1
        /\ \A j \in DOMAIN Domains[10] : NumberOf(Domains[10][j]) = 1000 * 10 + j - 1
    BY NumberIs
  <2> QED BY <1>1, <2>1, DomainsAre
<1>3. ASSUME NEW v \in ToSet(Memory) \ {"AllocationFailed", "AlignmentError", "BufferTooSmall"}
      PROVE  NumberOf(v) \in 4003..4009
  <2>1. PICK j \in 1..9 : Memory[j] = v
    BY <1>1 DEF ToSet
  <2>2. j \notin {1, 2, 3}
    BY <1>1, <2>1
  <2>3. NumberOf(v) = 4000 + j - 1
    BY <1>2, <2>1
  <2> QED BY <2>1, <2>2, <2>3
<1>4. ASSUME NEW v \in ToSet(DLPack) \ {"DLPackNullPointer"}
      PROVE  NumberOf(v) \in 7000..7009 \ {7002}
  <2>1. PICK j \in 1..5 : DLPack[j] = v
    BY <1>1 DEF ToSet
  <2>2. j # 3
    BY <1>1, <2>1
  <2>3. NumberOf(v) = 7000 + j - 1
    BY <1>2, <2>1
  <2> QED BY <2>1, <2>2, <2>3
<1> QED BY <1>1, <1>2, <1>3, <1>4

\* The kinds, by the numbers.
LEMMA KindFromNumber ==
  ASSUME NEW v, NEW n \in Int, NumberOf(v) = n
  PROVE  /\ 1000 <= n /\ n <= 3999 => KindFrom(v) = Usage
         /\ 4000 <= n /\ n <= 4002 => KindFrom(v) = System
         /\ 4003 <= n /\ n <= 4999 => KindFrom(v) = Usage
         /\ 5000 <= n /\ n <= 5999 => KindFrom(v) = Runtime
         /\ 6000 <= n /\ n <= 6999 => KindFrom(v) = System
         /\ 7000 <= n /\ n <= 7001 => KindFrom(v) = Usage
         /\ 7002 <= n /\ n <= 7002 => KindFrom(v) = InternalKind
         /\ 7003 <= n /\ n <= 7999 => KindFrom(v) = Usage
         /\ 8000 <= n /\ n <= 8999 => KindFrom(v) = System
         /\ 9000 <= n /\ n <= 9999 => KindFrom(v) = Usage
         /\ 10000 <= n /\ n <= 10001 => KindFrom(v) = Runtime
         /\ 10002 <= n /\ n <= 10002 => KindFrom(v) = InternalKind
<1>1. 1000 <= n /\ n <= 3999 => KindFrom(v) = Usage
  BY DEF KindFrom
<1>2. 4000 <= n /\ n <= 4002 => KindFrom(v) = System
  BY DEF KindFrom
<1>3. 4003 <= n /\ n <= 4999 => KindFrom(v) = Usage
  BY DEF KindFrom
<1>4. 5000 <= n /\ n <= 5999 => KindFrom(v) = Runtime
  BY DEF KindFrom
<1>5. 6000 <= n /\ n <= 6999 => KindFrom(v) = System
  BY DEF KindFrom
<1>6. 7000 <= n /\ n <= 7001 => KindFrom(v) = Usage
  BY DEF KindFrom
<1>7. 7002 <= n /\ n <= 7002 => KindFrom(v) = InternalKind
  BY DEF KindFrom
<1>8. 7003 <= n /\ n <= 7999 => KindFrom(v) = Usage
  BY DEF KindFrom
<1>9. 8000 <= n /\ n <= 8999 => KindFrom(v) = System
  BY DEF KindFrom
<1>10. 9000 <= n /\ n <= 9999 => KindFrom(v) = Usage
  BY DEF KindFrom
<1>11. 10000 <= n /\ n <= 10001 => KindFrom(v) = Runtime
  BY DEF KindFrom
<1>12. 10002 <= n /\ n <= 10002 => KindFrom(v) = InternalKind
  BY DEF KindFrom
<1> QED BY <1>1, <1>2, <1>3, <1>4, <1>5, <1>6, <1>7, <1>8, <1>9, <1>10, <1>11, <1>12

\* The kind of each domain, with its exceptions.
LEMMA KindsOf ==
  /\ \A v \in ToSet(Shape) \cup ToSet(Typing) \cup ToSet(Index) \cup ToSet(Python) :
       KindFrom(v) = Usage
  /\ \A v \in {"AllocationFailed", "AlignmentError", "BufferTooSmall"} : KindFrom(v) = System
  /\ \A v \in ToSet(Memory) \ {"AllocationFailed", "AlignmentError", "BufferTooSmall"} :
       KindFrom(v) = Usage
  /\ \A v \in ToSet(Compute) : KindFrom(v) = Runtime
  /\ \A v \in ToSet(Files) \cup ToSet(Arrow) : KindFrom(v) = System
  /\ KindFrom("DLPackNullPointer") = InternalKind
  /\ \A v \in ToSet(DLPack) \ {"DLPackNullPointer"} : KindFrom(v) = Usage
  /\ KindFrom("NotImplemented") = Runtime
  /\ KindFrom("Internal") = InternalKind
<1>1. /\ \A v \in ToSet(Shape) : NumberOf(v) \in 1000..1009
      /\ \A v \in ToSet(Typing) : NumberOf(v) \in 2000..2009
      /\ \A v \in ToSet(Index) : NumberOf(v) \in 3000..3009
      /\ \A v \in ToSet(Compute) : NumberOf(v) \in 5000..5009
      /\ \A v \in ToSet(Files) : NumberOf(v) \in 6000..6009
      /\ \A v \in ToSet(Arrow) : NumberOf(v) \in 8000..8009
      /\ \A v \in ToSet(Python) : NumberOf(v) \in 9000..9009
  <2>1. \A d \in 1..10 : \A v \in ToSet(Domains[d]) : NumberOf(v) \in (1000 * d)..(1000 * d + 9)
    BY NumbersIn
  <2>2. /\ \A v \in ToSet(Domains[1]) : NumberOf(v) \in (1000 * 1)..(1000 * 1 + 9)
        /\ \A v \in ToSet(Domains[2]) : NumberOf(v) \in (1000 * 2)..(1000 * 2 + 9)
        /\ \A v \in ToSet(Domains[3]) : NumberOf(v) \in (1000 * 3)..(1000 * 3 + 9)
        /\ \A v \in ToSet(Domains[5]) : NumberOf(v) \in (1000 * 5)..(1000 * 5 + 9)
        /\ \A v \in ToSet(Domains[6]) : NumberOf(v) \in (1000 * 6)..(1000 * 6 + 9)
        /\ \A v \in ToSet(Domains[8]) : NumberOf(v) \in (1000 * 8)..(1000 * 8 + 9)
        /\ \A v \in ToSet(Domains[9]) : NumberOf(v) \in (1000 * 9)..(1000 * 9 + 9)
    BY <2>1
  <2> QED BY <2>2, DomainsAre
<1>2. ASSUME NEW v \in ToSet(Shape) PROVE KindFrom(v) = Usage
  <2>1. PICK n \in 1000..1009 : NumberOf(v) = n
    BY <1>1
  <2> QED BY <2>1, KindFromNumber
<1>3. ASSUME NEW v \in ToSet(Typing) PROVE KindFrom(v) = Usage
  <2>1. PICK n \in 2000..2009 : NumberOf(v) = n
    BY <1>1
  <2> QED BY <2>1, KindFromNumber
<1>4. ASSUME NEW v \in ToSet(Index) PROVE KindFrom(v) = Usage
  <2>1. PICK n \in 3000..3009 : NumberOf(v) = n
    BY <1>1
  <2> QED BY <2>1, KindFromNumber
<1>5. ASSUME NEW v \in {"AllocationFailed", "AlignmentError", "BufferTooSmall"} PROVE KindFrom(v) = System
  <2>1. PICK n \in 4000..4002 : NumberOf(v) = n
    BY NumbersAre
  <2> QED BY <2>1, KindFromNumber
<1>6. ASSUME NEW v \in ToSet(Memory) \ {"AllocationFailed", "AlignmentError", "BufferTooSmall"} PROVE KindFrom(v) = Usage
  <2>1. PICK n \in 4003..4009 : NumberOf(v) = n
    BY NumbersAre
  <2> QED BY <2>1, KindFromNumber
<1>7. ASSUME NEW v \in ToSet(Compute) PROVE KindFrom(v) = Runtime
  <2>1. PICK n \in 5000..5009 : NumberOf(v) = n
    BY <1>1
  <2> QED BY <2>1, KindFromNumber
<1>8. ASSUME NEW v \in ToSet(Files) PROVE KindFrom(v) = System
  <2>1. PICK n \in 6000..6009 : NumberOf(v) = n
    BY <1>1
  <2> QED BY <2>1, KindFromNumber
<1>9. ASSUME NEW v \in ToSet(Arrow) PROVE KindFrom(v) = System
  <2>1. PICK n \in 8000..8009 : NumberOf(v) = n
    BY <1>1
  <2> QED BY <2>1, KindFromNumber
<1>10. ASSUME NEW v \in ToSet(Python) PROVE KindFrom(v) = Usage
  <2>1. PICK n \in 9000..9009 : NumberOf(v) = n
    BY <1>1
  <2> QED BY <2>1, KindFromNumber
<1>11. ASSUME NEW v \in ToSet(DLPack) \ {"DLPackNullPointer"} PROVE KindFrom(v) = Usage
  <2>1. NumberOf(v) \in 7000..7009 \ {7002}
    BY NumbersAre
  <2>2. PICK n \in 7000..7009 : NumberOf(v) = n /\ n # 7002
    BY <2>1
  <2>3. (7000 <= n /\ n <= 7001) \/ (7003 <= n /\ n <= 7999)
    BY <2>2
  <2>4. CASE 7000 <= n /\ n <= 7001
    BY <2>2, <2>4, KindFromNumber
  <2>5. CASE 7003 <= n /\ n <= 7999
    BY <2>2, <2>5, KindFromNumber
  <2> QED BY <2>3, <2>4, <2>5
<1>12. KindFrom("DLPackNullPointer") = InternalKind /\ KindFrom("Internal") = InternalKind
  BY NumbersAre, KindFromNumber
<1>13. KindFrom("NotImplemented") = Runtime
  BY NumbersAre, KindFromNumber
<1> QED BY <1>2, <1>3, <1>4, <1>5, <1>6, <1>7, <1>8, <1>9, <1>10, <1>11, <1>12, <1>13

---------------------------------------------------------------------------
\* The kinds of what is inside an error.
KindsIn(e) == {KindFrom(x.variant) : x \in ToSet(Leafs[e])}

\* The elements of some sequences joined are those of each.
LEMMA FlattenElements ==
  ASSUME NEW S, NEW q \in Seq(Seq(S))
  PROVE  ToSet(FlattenSeq(q)) = UNION {ToSet(q[i]) : i \in DOMAIN q}
<1> DEFINE G == {n \in Nat : \A w \in Seq(Seq(S)) : Len(w) = n =>
                   ToSet(FlattenSeq(w)) = UNION {ToSet(w[i]) : i \in DOMAIN w}}
<1>1. 0 \in G
  <2> SUFFICES ASSUME NEW w \in Seq(Seq(S)), Len(w) = 0
               PROVE  ToSet(FlattenSeq(w)) = UNION {ToSet(w[i]) : i \in DOMAIN w}
    OBVIOUS
  <2>1. w = <<>> /\ DOMAIN w = {}
    BY EmptySeq
  <2>2. ToSet(<<>>) = {}
    BY DEF ToSet
  <2> QED BY <2>1, <2>2, FlattenEmpty
<1>2. ASSUME NEW n \in G PROVE n + 1 \in G
  <2> SUFFICES ASSUME NEW w \in Seq(Seq(S)), Len(w) = n + 1
               PROVE  ToSet(FlattenSeq(w)) = UNION {ToSet(w[i]) : i \in DOMAIN w}
    OBVIOUS
  <2>1. w # <<>>
    BY EmptySeq
  <2>2. PICK v \in Seq(Seq(S)), x \in Seq(S) : w = Append(v, x)
    BY <2>1, SequenceEmptyOrAppend
  <2>3. /\ Len(v) = n /\ DOMAIN v = 1..n /\ DOMAIN w = 1..(n + 1) /\ n \in Nat
        /\ \A i \in 1..n : w[i] = v[i]
        /\ w[n + 1] = x
    BY <2>2, AppendProperties, LenProperties
  <2>4. ToSet(FlattenSeq(v)) = UNION {ToSet(v[i]) : i \in DOMAIN v}
    BY <2>3
  <2> HIDE DEF G
  <2>5. FlattenSeq(w) = FlattenSeq(v) \o x /\ FlattenSeq(v) \in Seq(S)
    BY <2>2, FlattenAppend, FlattenType
  <2>6. ToSet(FlattenSeq(v) \o x) = ToSet(FlattenSeq(v)) \cup ToSet(x)
    <3> DEFINE F == FlattenSeq(v)
    <3>1. F \in Seq(S)
      BY <2>5
    <3> HIDE DEF F
    <3>2. ToSet(F \o x) = ToSet(F) \cup ToSet(x)
      <4>1. /\ DOMAIN F = 1..Len(F) /\ DOMAIN x = 1..Len(x) /\ DOMAIN (F \o x) = 1..(Len(F) + Len(x))
            /\ Len(F) \in Nat /\ Len(x) \in Nat
            /\ \A i \in 1..(Len(F) + Len(x)) :
                 (F \o x)[i] = IF i <= Len(F) THEN F[i] ELSE x[i - Len(F)]
        BY <2>2, <3>1, ConcatProperties, LenProperties
      <4>2. ASSUME NEW i \in DOMAIN (F \o x) PROVE (F \o x)[i] \in ToSet(F) \cup ToSet(x)
        BY <4>1 DEF ToSet
      <4>3. ASSUME NEW i \in DOMAIN F PROVE F[i] \in ToSet(F \o x)
        <5>1. i \in DOMAIN (F \o x) /\ (F \o x)[i] = F[i]
          BY <4>1
        <5> QED BY <5>1 DEF ToSet
      <4>4. ASSUME NEW i \in DOMAIN x PROVE x[i] \in ToSet(F \o x)
        <5>1. Len(F) + i \in DOMAIN (F \o x) /\ (F \o x)[Len(F) + i] = x[i]
          BY <4>1
        <5> QED BY <5>1 DEF ToSet
      <4> QED BY <4>2, <4>3, <4>4 DEF ToSet
    <3> QED BY <3>2 DEF F
  <2>7. UNION {ToSet(w[i]) : i \in DOMAIN w} = (UNION {ToSet(v[i]) : i \in DOMAIN v}) \cup ToSet(x)
    <3>1. DOMAIN w = DOMAIN v \cup {n + 1}
      BY <2>3
    <3> QED BY <2>3, <3>1
  <2> QED BY <2>4, <2>5, <2>6, <2>7
<1>3. Len(q) \in G
  <2> HIDE DEF G
  <2>1. G \in SUBSET Nat /\ Len(q) \in Nat
    BY DEF G
  <2> QED BY <1>1, <1>2, <2>1, Induction
<1> QED BY <1>3

\* The kinds inside an error are those inside its parts.
LEMMA KindsInParts ==
  ASSUME NEW e \in Errors
  PROVE  /\ e \in Plain => KindsIn(e) = {KindFrom(e.variant)}
         /\ e.variant = "Context" => KindsIn(e) = KindsIn(e.source)
         /\ e.variant = "Multiple" => KindsIn(e) = UNION {KindsIn(x) : x \in ToSet(e.errors)}
<1>1. CASE e \in Plain
  <2>1. e.variant \in Variants
    BY <1>1 DEF Plain
  <2>2. e.variant # "Context" /\ e.variant # "Multiple"
    BY <2>1, VariantsApart
  <2>3. Leafs[e] = <<[variant |-> e.variant, contexts |-> <<>>]>>
    BY <2>2, LeafsIs
  <2>4. ToSet(Leafs[e]) = {[variant |-> e.variant, contexts |-> <<>>]}
    BY <2>3 DEF ToSet
  <2> QED BY <2>2, <2>4 DEF KindsIn
<1>2. CASE e.variant = "Context"
  <2>1. e.source \in Errors /\ e.context \in Labels
    BY <1>2, PartsOfErrors, VariantsApart
  <2> DEFINE L == Leafs[e.source]
             U == Under(e.context, L)
  <2>2. Leafs[e] = U /\ L \in Seq(LeafRecords)
    BY <1>2, <2>1, LeafsIs
  <2> HIDE DEF L
  <2>3. U \in Seq(LeafRecords) /\ Len(U) = Len(L)
        /\ \A i \in 1..Len(L) : U[i] = [L[i] EXCEPT !.contexts = <<e.context>> \o @]
    BY <2>1, <2>2, UnderType
  <2>4. \A i \in 1..Len(L) : L[i] \in LeafRecords /\ U[i].variant = L[i].variant
    <3>1. \A x \in LeafRecords : \A c : [x EXCEPT !.contexts = c].variant = x.variant
      BY DEF LeafRecords
    <3>2. \A i \in 1..Len(L) : L[i] \in LeafRecords
      BY <2>2, ElementOfSeq
    <3> HIDE DEF U
    <3> SUFFICES ASSUME NEW i \in 1..Len(L)
                 PROVE  L[i] \in LeafRecords /\ U[i].variant = L[i].variant
      OBVIOUS
    <3> DEFINE c == <<e.context>> \o L[i].contexts
    <3>3. U[i] = [L[i] EXCEPT !.contexts = c]
      BY <2>3
    <3> HIDE DEF c
    <3> QED BY <3>1, <3>2, <3>3
  <2> HIDE DEF U
  <2>5. DOMAIN U = 1..Len(L) /\ DOMAIN L = 1..Len(L)
    BY <2>2, <2>3
  <2>6. {KindFrom(x.variant) : x \in ToSet(U)} = {KindFrom(x.variant) : x \in ToSet(L)}
    BY <2>4, <2>5 DEF ToSet
  <2>7. e.variant # "Multiple" /\ e \notin Plain
    BY <1>2, VariantsApart DEF Plain
  <2> QED BY <2>2, <2>6, <2>7 DEF KindsIn, L
<1>3. CASE e.variant = "Multiple"
  <2>1. e.errors \in Seq(Errors) /\ e \notin Plain
    BY <1>3, PartsOfErrors, VariantsApart DEF Plain
  <2> DEFINE q == [i \in DOMAIN e.errors |-> Leafs[e.errors[i]]]
  <2>2. Leafs[e] = FlattenSeq(q)
    BY <1>3, LeafsIs
  <2>3. q \in Seq(Seq(LeafRecords))
    BY <2>1, LeafsOfType
  <2>4. DOMAIN q = DOMAIN e.errors /\ \A i \in DOMAIN e.errors : q[i] = Leafs[e.errors[i]]
    OBVIOUS
  <2> HIDE DEF q
  <2>5. ToSet(Leafs[e]) = UNION {ToSet(q[i]) : i \in DOMAIN q}
    BY <2>2, <2>3, FlattenElements
  <2>6. ToSet(Leafs[e]) = UNION {ToSet(Leafs[x]) : x \in ToSet(e.errors)}
    <3>1. ASSUME NEW y \in ToSet(Leafs[e])
          PROVE  \E x \in ToSet(e.errors) : y \in ToSet(Leafs[x])
      <4>1. PICK i \in DOMAIN q : y \in ToSet(q[i])
        BY <2>5
      <4>2. e.errors[i] \in ToSet(e.errors) /\ q[i] = Leafs[e.errors[i]]
        BY <2>4 DEF ToSet
      <4> QED BY <4>1, <4>2
    <3>2. ASSUME NEW x \in ToSet(e.errors), NEW y \in ToSet(Leafs[x])
          PROVE  y \in ToSet(Leafs[e])
      <4>1. PICK i \in DOMAIN e.errors : x = e.errors[i]
        BY DEF ToSet
      <4>2. i \in DOMAIN q /\ y \in ToSet(q[i])
        BY <2>4, <4>1
      <4> QED BY <2>5, <4>2
    <3> QED BY <3>1, <3>2
  <2> QED BY <1>3, <2>1, <2>6 DEF KindsIn
<1> QED BY <1>1, <1>2, <1>3, PartsOfErrors

\* The kind of an error is one inside it, and none inside it is worse.
LEMMA KindInKinds ==
  ASSUME NEW e \in Errors
  PROVE  Kind[e] \in KindsIn(e) /\ \A k \in KindsIn(e) : k \in ErrorKinds /\ k <= Kind[e]
<1> DEFINE S == {x \in Errors : /\ Kind[x] \in KindsIn(x)
                                /\ \A k \in KindsIn(x) : k \in ErrorKinds /\ k <= Kind[x]}
<1>1. ASSUME NEW x \in Plain PROVE x \in S
  <2>1. x \in Errors /\ x.variant \in Variants
    BY PlainIsError DEF Plain
  <2>2. x.variant # "Context" /\ x.variant # "Multiple"
    BY <2>1, VariantsApart
  <2>3. Kind[x] = KindAlone(x)
    BY <2>1, <2>2, KindIs
  <2>4. KindAlone(x) = KindFrom(x.variant)
    BY KindsOf DEF KindAlone
  <2>5. KindsIn(x) = {KindFrom(x.variant)} /\ KindFrom(x.variant) \in ErrorKinds
    BY <2>1, KindsInParts, KindFromType
  <2>6. KindFrom(x.variant) <= KindFrom(x.variant)
    BY <2>5 DEF ErrorKinds, Usage, Runtime, System, InternalKind
  <2> QED BY <2>1, <2>3, <2>4, <2>5, <2>6
<1>2. ASSUME NEW x \in Errors, x.variant = "Context", x.source \in S PROVE x \in S
  <2>1. Kind[x] = Kind[x.source] /\ KindsIn(x) = KindsIn(x.source)
    BY <1>2, KindIs, KindsInParts
  <2> QED BY <1>2, <2>1
<1>3. ASSUME NEW x \in Errors, x.variant = "Multiple", ToSet(x.errors) \subseteq S PROVE x \in S
  <2> DEFINE kinds == {Kind[y] : y \in ToSet(x.errors)}
  <2>1. Kind[x] = Worst(kinds) /\ KindsIn(x) = UNION {KindsIn(y) : y \in ToSet(x.errors)}
    BY <1>3, KindIs, KindsInParts
  <2>2. x.errors \in Seq(Errors) \ {<<>>}
    BY <1>3, PartsOfErrors, VariantsApart
  <2>3. ToSet(x.errors) # {} /\ ToSet(x.errors) \subseteq Errors
    <3>1. Len(x.errors) \in Nat /\ Len(x.errors) # 0
      BY <2>2, EmptySeq
    <3>2. x.errors[1] \in ToSet(x.errors)
      BY <2>2, <3>1 DEF ToSet
    <3>3. ToSet(x.errors) \subseteq Errors
      BY <2>2 DEF ToSet
    <3> QED BY <3>2, <3>3
  <2>4. kinds # {} /\ kinds \in SUBSET ErrorKinds
    BY <2>3, KindIs
  <2>5. Worst(kinds) \in kinds /\ \A k \in kinds : k <= Worst(kinds) /\ Worst(kinds) \in ErrorKinds
    BY <2>4, WorstIs
  <2>6. \A y \in ToSet(x.errors) : /\ Kind[y] \in kinds /\ Kind[y] \in KindsIn(y)
                                   /\ \A k \in KindsIn(y) : k \in ErrorKinds /\ k <= Kind[y]
    BY <1>3
  <2>7. PICK y \in ToSet(x.errors) : Kind[y] = Worst(kinds)
    BY <2>5
  <2>8. Kind[x] \in KindsIn(x)
    BY <2>1, <2>6, <2>7
  <2> HIDE DEF kinds, S
  <2>9. ASSUME NEW k \in KindsIn(x) PROVE k \in ErrorKinds /\ k <= Kind[x]
    <3>1. PICK z \in ToSet(x.errors) : k \in KindsIn(z)
      BY <2>1
    <3>2. k \in ErrorKinds /\ k <= Kind[z] /\ Kind[z] <= Worst(kinds) /\ Kind[z] \in ErrorKinds
      BY <2>3, <2>5, <2>6, <3>1, KindIs
    <3>3. k <= Worst(kinds)
      BY <2>5, <2>6, <3>1, <3>2 DEF ErrorKinds, Usage, Runtime, System, InternalKind
    <3> QED BY <2>1, <3>2, <3>3
  <2> QED BY <2>8, <2>9 DEF S
<1>4. Errors \subseteq S
  <2> HIDE DEF S
  <2> QED BY <1>1, <1>2, <1>3, ErrorInduction
<1> QED BY <1>4

\* Which is what the largest is.
LEMMA KindIsMax ==
  ASSUME NEW e \in Errors
  PROVE  Kind[e] = Max({KindFrom(x.variant) : x \in ToSet(Leafs[e])})
<1> DEFINE K == KindsIn(e)
           n == Kind[e]
<1>1. n \in K /\ \A k \in K : k \in ErrorKinds /\ k <= n
  BY KindInKinds
<1> HIDE DEF K, n
<1>2. n \in Int /\ \A k \in K : k \in Int
  BY <1>1 DEF ErrorKinds, Usage, Runtime, System, InternalKind
<1>3. \A m \in K : (\A k \in K : m >= k) => m = n
  BY <1>1, <1>2
<1>4. Max(K) = n
  BY <1>1, <1>2, <1>3 DEF Max
<1> QED BY <1>4 DEF K, n, KindsIn

\* What is in flight are errors.
LEMMA InFlightAre ==
  ASSUME FlowInv
  PROVE  InFlight \subseteq Errors
<1>1. FlattenSeq(frames) \in Seq(Errors)
  BY FlattenType DEF FlowInv
<1>2. FlattenSeq(frames) \o returned \in Seq(Errors)
  BY <1>1, ConcatProperties DEF FlowInv
<1> QED BY <1>2 DEF InFlight, ToSet

---------------------------------------------------------------------------
\* The verdicts on an error.
LEMMA KindOfRoot ==
  ASSUME NEW e \in Errors
  PROVE  Kind[e] = Kind[Root[e]]
<1> DEFINE S == {x \in Errors : Kind[x] = Kind[Root[x]]}
<1>1. \A x \in Errors : x.variant # "Context" => x \in S
  BY RootIs
<1>2. \A x \in Errors : x.variant = "Context" /\ x.source \in S => x \in S
  BY RootIs, KindIs
<1>3. Errors \subseteq S
  <2> HIDE DEF S
  <2> QED BY <1>1, <1>2, ChainInduction
<1> QED BY <1>3

\* Under its contexts an error is one by itself or a Multiple.
LEMMA RootBare ==
  ASSUME NEW e \in Errors
  PROVE  LET root == Root[e]
         IN  \/ /\ root \in Plain /\ root.variant \in Variants
                /\ root.variant # "Context" /\ root.variant # "Multiple"
                /\ Code(root) = root.variant
                /\ Kind[e] = KindFrom(root.variant)
             \/ root.variant = "Multiple" /\ root \in Errors
<1>1. Root[e] \in Errors /\ Root[e].variant # "Context"
  BY RootOfRoot
<1> DEFINE root == Root[e]
<1>2. (root \in Plain /\ root.variant \in Variants) \/ root.variant = "Multiple"
  BY <1>1, PartsOfErrors
<1>3. ASSUME root \in Plain, root.variant \in Variants
      PROVE  /\ root.variant # "Context" /\ root.variant # "Multiple"
             /\ Code(root) = root.variant
             /\ Kind[e] = KindFrom(root.variant)
  <2>1. root.variant # "Context" /\ root.variant # "Multiple"
    BY <1>3, VariantsApart
  <2>2. Kind[root] = KindAlone(root)
    BY <1>1, <2>1, KindIs
  <2>3. KindAlone(root) = KindFrom(root.variant)
    BY KindsOf DEF KindAlone
  <2> QED BY <2>1, <2>2, <2>3, KindOfRoot DEF Code
<1> QED BY <1>1, <1>2, <1>3

\* ... and it is the error itself if that has no context.
LEMMA RootOfBare ==
  ASSUME NEW e \in Errors, e.variant # "Context"
  PROVE  Root[e] = e
BY RootIs

\* The chain has an error for each context, and then the root.
LEMMA ChainEnds ==
  ASSUME NEW e \in Errors
  PROVE  Depth[e] + 1 = Len(Chain[e]) /\ Last(Chain[e]) = Root[e]
<1> DEFINE S == {x \in Errors : Depth[x] + 1 = Len(Chain[x]) /\ Last(Chain[x]) = Root[x]}
<1>1. ASSUME NEW x \in Errors, x.variant # "Context" PROVE x \in S
  <2>1. Depth[x] = 0 /\ Chain[x] = <<x>> /\ Root[x] = x
    BY <1>1, DepthIs, ChainIs, RootIs
  <2>2. Len(<<x>>) = 1 /\ Last(<<x>>) = x
    BY DEF Last
  <2>3. Depth[x] + 1 = 1
    BY <2>1
  <2>4. Len(Chain[x]) = 1 /\ Last(Chain[x]) = x
    BY <2>1, <2>2, Zenon
  <2> QED BY <2>1, <2>3, <2>4, Zenon
<1>2. ASSUME NEW x \in Errors, x.variant = "Context", x.source \in S PROVE x \in S
  <2> DEFINE c == Chain[x.source]
             n == Depth[x.source]
  <2>1. Depth[x] = 1 + n /\ Chain[x] = <<x>> \o c /\ Root[x] = Root[x.source]
    BY <1>2, DepthIs, ChainIs, RootIs
  <2>2. c \in Seq(Errors) /\ n \in Nat /\ n + 1 = Len(c) /\ Last(c) = Root[x.source]
    BY <1>2, ChainIs, DepthIs
  <2> HIDE DEF c, n
  <2>3. <<x>> \in Seq(Errors) /\ Len(<<x>>) = 1
    OBVIOUS
  <2>4. /\ Len(<<x>> \o c) = 1 + Len(c)
        /\ (<<x>> \o c)[1 + Len(c)] = c[Len(c)]
    BY <2>2, <2>3
  <2>5. Last(<<x>> \o c) = Last(c)
    BY <2>4 DEF Last
  <2>6. Depth[x] + 1 = Len(<<x>> \o c)
    BY <2>1, <2>2, <2>4
  <2> QED BY <2>1, <2>2, <2>5, <2>6
<1>3. Errors \subseteq S
  <2> HIDE DEF S
  <2> QED BY <1>1, <1>2, ChainInduction
<1> QED BY <1>3

\* A prefix, element by element.
LEMMA PrefixIs ==
  ASSUME NEW c \in Seq(Labels), NEW d \in Seq(Labels)
  PROVE  IsPrefix(c, d) <=> Len(c) <= Len(d) /\ \A i \in 1..Len(c) : c[i] = d[i]
<1>1. /\ Len(c) \in Nat /\ Len(d) \in Nat
  OBVIOUS
<1>2. CASE Len(c) <= Len(d)
  <2>1. /\ SubSeq(c, 1, Len(c)) = [i \in 1..Len(c) |-> c[i]]
        /\ SubSeq(d, 1, Len(c)) = [i \in 1..Len(c) |-> d[i]]
    BY <1>1, <1>2
  <2> DEFINE f == [i \in 1..Len(c) |-> c[i]]
             g == [i \in 1..Len(c) |-> d[i]]
  <2>2. f = g <=> \A i \in 1..Len(c) : c[i] = d[i]
    <3>1. f = g => \A i \in 1..Len(c) : f[i] = g[i]
      OBVIOUS
    <3>2. \A i \in 1..Len(c) : f[i] = c[i] /\ g[i] = d[i]
      OBVIOUS
    <3> QED BY <3>1, <3>2
  <2> HIDE DEF f, g
  <2>3. SubSeq(c, 1, Len(c)) = f /\ SubSeq(d, 1, Len(c)) = g
    BY <2>1 DEF f, g
  <2> QED BY <1>2, <2>2, <2>3 DEF IsPrefix
<1>3. CASE ~(Len(c) <= Len(d))
  BY <1>3 DEF IsPrefix
<1> QED BY <1>2, <1>3

\* One more context in front of both.
LEMMA PrefixUnder ==
  ASSUME NEW l \in Labels, NEW c \in Seq(Labels), NEW d \in Seq(Labels), IsPrefix(c, d)
  PROVE  IsPrefix(<<l>> \o c, <<l>> \o d)
<1>1. Len(c) <= Len(d) /\ \A i \in 1..Len(c) : c[i] = d[i]
  BY PrefixIs
<1>2. /\ <<l>> \o c \in Seq(Labels) /\ Len(<<l>> \o c) = 1 + Len(c)
      /\ <<l>> \o d \in Seq(Labels) /\ Len(<<l>> \o d) = 1 + Len(d)
      /\ Len(c) \in Nat /\ Len(d) \in Nat
  OBVIOUS
<1>3. /\ \A i \in 1..(1 + Len(c)) : (<<l>> \o c)[i] = IF i = 1 THEN l ELSE c[i - 1]
      /\ \A i \in 1..(1 + Len(d)) : (<<l>> \o d)[i] = IF i = 1 THEN l ELSE d[i - 1]
  OBVIOUS
<1> DEFINE p == <<l>> \o c
           q == <<l>> \o d
<1>4. \A i \in 1..(1 + Len(c)) : p[i] = q[i]
  <2> TAKE i \in 1..(1 + Len(c))
  <2>1. i \in 1..(1 + Len(d)) /\ (i # 1 => i - 1 \in 1..Len(c))
    BY <1>1, <1>2
  <2>2. /\ p[i] = IF i = 1 THEN l ELSE c[i - 1]
        /\ q[i] = IF i = 1 THEN l ELSE d[i - 1]
    BY <1>3, <2>1
  <2> HIDE DEF p, q
  <2> QED BY <1>1, <2>1, <2>2
<1> HIDE DEF p, q
<1>5. p \in Seq(Labels) /\ q \in Seq(Labels) /\ Len(p) = 1 + Len(c) /\ Len(q) = 1 + Len(d)
  BY <1>2 DEF p, q
<1>6. Len(p) <= Len(q) /\ \A i \in 1..Len(p) : p[i] = q[i]
  BY <1>1, <1>2, <1>4, <1>5
<1>7. IsPrefix(p, q)
  BY <1>5, <1>6, PrefixIs
<1> QED BY <1>7 DEF p, q

\* The contexts of an error are those of all its leaves, and all of them if it is
\* no Multiple under its contexts.
ContextsOf(e) ==
  /\ \A x \in ToSet(Leafs[e]) : IsPrefix(ContextMessages[e], x.contexts)
  /\ Root[e].variant # "Multiple" =>
       Leafs[e] = <<[variant |-> Root[e].variant, contexts |-> ContextMessages[e]]>>

LEMMA ContextsReported ==
  ASSUME NEW e \in Errors
  PROVE  ContextsOf(e)
<1> DEFINE S == {x \in Errors : ContextsOf(x)}
<1>1. ASSUME NEW x \in Errors, x.variant # "Context" PROVE x \in S
  <2>1. ContextMessages[x] = <<>> /\ Root[x] = x
    BY <1>1, ContextMessagesIs, RootIs
  <2>2. Leafs[x] \in Seq(LeafRecords)
    BY LeafsIs
  <2>3. \A y \in ToSet(Leafs[x]) : y.contexts \in Seq(Labels)
    <3>1. \A y \in ToSet(Leafs[x]) : y \in LeafRecords
      BY <2>2 DEF ToSet
    <3> QED BY <3>1 DEF LeafRecords
  <2>4. \A y \in ToSet(Leafs[x]) : IsPrefix(<<>>, y.contexts)
    <3> TAKE y \in ToSet(Leafs[x])
    <3> DEFINE d == y.contexts
               z == <<>>
    <3>1. d \in Seq(Labels)
      BY <2>3
    <3>2. z \in Seq(Labels) /\ Len(z) = 0
      OBVIOUS
    <3> HIDE DEF d, z
    <3>3. Len(d) \in Nat /\ Len(z) <= Len(d) /\ \A i \in 1..Len(z) : z[i] = d[i]
      BY <3>1, <3>2
    <3>4. IsPrefix(z, d)
      BY <3>1, <3>2, <3>3, PrefixIs
    <3> QED BY <3>4 DEF d, z
  <2>5. x.variant # "Multiple" => Leafs[x] = <<[variant |-> x.variant, contexts |-> <<>>]>>
    BY <1>1, LeafsIs
  <2> QED BY <2>1, <2>4, <2>5 DEF ContextsOf
<1>2. ASSUME NEW x \in Errors, x.variant = "Context", x.source \in S PROVE x \in S
  <2> DEFINE L == Leafs[x.source]
             U == Under(x.context, L)
             c == ContextMessages[x.source]
             l == x.context
  <2>1. x.source \in Errors /\ l \in Labels
    BY <1>2, Inside
  <2>2. /\ Leafs[x] = U /\ L \in Seq(LeafRecords)
        /\ ContextMessages[x] = <<l>> \o c /\ c \in Seq(Labels)
        /\ Root[x] = Root[x.source]
    BY <1>2, <2>1, LeafsIs, ContextMessagesIs, RootIs
  <2>3. U \in Seq(LeafRecords) /\ Len(U) = Len(L)
        /\ \A i \in 1..Len(L) : U[i] = [L[i] EXCEPT !.contexts = <<l>> \o @]
    <3> HIDE DEF L
    <3> QED BY <2>1, <2>2, UnderType
  <2>4. /\ \A y \in ToSet(L) : IsPrefix(c, y.contexts)
        /\ Root[x.source].variant # "Multiple" =>
             L = <<[variant |-> Root[x.source].variant, contexts |-> c]>>
    BY <1>2 DEF ContextsOf
  <2> HIDE DEF L, U, c, l
  <2>5. \A y \in LeafRecords :
          /\ y.contexts \in Seq(Labels)
          /\ \A d : [y EXCEPT !.contexts = d].contexts = d
          /\ \A d : [y EXCEPT !.contexts = d]
                     = [variant |-> y.variant, contexts |-> d]
    BY DEF LeafRecords
  <2>6. ASSUME NEW y \in ToSet(U) PROVE IsPrefix(<<l>> \o c, y.contexts)
    <3>1. PICK i \in 1..Len(L) : y = U[i]
      BY <2>2, <2>3 DEF ToSet
    <3>2. L[i] \in LeafRecords
      BY <2>2, ElementOfSeq
    <3>3. L[i] \in ToSet(L)
      BY <2>2 DEF ToSet
    <3> DEFINE d == L[i].contexts
               t == <<l>> \o d
    <3>4. y = [L[i] EXCEPT !.contexts = t]
      BY <2>3, <3>1
    <3>5. d \in Seq(Labels) /\ IsPrefix(c, d)
      BY <2>4, <2>5, <3>2, <3>3
    <3>6. y.contexts = t
      <4> HIDE DEF t, d
      <4> QED BY <2>5, <3>2, <3>4
    <3> HIDE DEF d
    <3>7. IsPrefix(<<l>> \o c, <<l>> \o d)
      BY <2>1, <2>2, <3>5, PrefixUnder
    <3> QED BY <3>6, <3>7
  <2>7. ASSUME Root[x].variant # "Multiple"
        PROVE  U = <<[variant |-> Root[x].variant, contexts |-> <<l>> \o c]>>
    <3> DEFINE v == Root[x].variant
               r == [variant |-> v, contexts |-> c]
               t == <<l>> \o c
               w == [variant |-> v, contexts |-> t]
               G(i) == [L[i] EXCEPT !.contexts = <<l>> \o @]
    <3>1. L = <<r>> /\ r.contexts = c
      BY <2>2, <2>4, <2>7
    <3>2. L[1] = r /\ Len(L) = 1 /\ 1 \in 1..Len(L)
      <4> HIDE DEF r
      <4> QED BY <3>1
    <3>3. L[1] \in LeafRecords /\ L[1].variant = v /\ L[1].contexts = c
      <4>1. L[1] \in LeafRecords
        BY <2>2, <3>2, ElementOfSeq
      <4> QED BY <3>2, <4>1
    <3>4. G(1) = w
      <4>1. G(1) = [L[1] EXCEPT !.contexts = t]
        BY <3>3
      <4> HIDE DEF G, t, v
      <4>2. [L[1] EXCEPT !.contexts = t] = [variant |-> L[1].variant, contexts |-> t]
        BY <2>5, <3>3
      <4> QED BY <3>3, <4>1, <4>2
    <3>5. \A i \in 1..Len(L) : U[i] = G(i)
      BY <2>3
    <3> HIDE DEF w, G, r
    <3>6. U[1] = w /\ Len(U) = 1
      BY <2>3, <3>2, <3>4, <3>5
    <3>7. U = <<w>>
      BY <2>3, <3>6
    <3> QED BY <3>7 DEF w
  <2> QED BY <2>2, <2>6, <2>7 DEF ContextsOf
<1>3. Errors \subseteq S
  <2> HIDE DEF S
  <2> QED BY <1>1, <1>2, ChainInduction
<1> QED BY <1>3

\* What may be retried is recoverable.
LEMMA TransientRecovers ==
  ASSUME NEW e \in Errors, IsTransient(e)
  PROVE  IsRecoverable(Kind[e])
<1>1. e.variant \in {"Io", "AllocationFailed"}
  BY DEF IsTransient
<1>2. Root[e] = e
  BY <1>1, RootOfBare
<1>3. Kind[e] = KindFrom(e.variant)
  BY <1>1, <1>2, RootBare
<1>4. KindFrom("Io") = System /\ KindFrom("AllocationFailed") = System
  BY NamesOf, KindsOf
<1> QED BY <1>1, <1>3, <1>4 DEF IsRecoverable

\* What is a usage error by its name is one by its kind.
LEMMA UsageByKind ==
  ASSUME NEW e \in Errors, IsUsageError(e)
  PROVE  Kind[e] = Usage
<1>1. Code(e) \in {"ShapeMismatch", "BroadcastError", "DimensionMismatch", "AxisOutOfRange",
                   "DTypeMismatch", "InvalidCast", "ReshapeIncompatible"} \cup ToSet(Index)
  BY DEF IsUsageError
<1>2. Code(e) \in ToSet(Shape) \cup ToSet(Typing) \cup ToSet(Index)
  BY <1>1, NamesOf
<1>3. e.variant # "Context" /\ e.variant # "Multiple" /\ Code(e) = e.variant
  BY <1>2, NamesOf DEF Code
<1>4. Root[e] = e
  BY <1>3, RootOfBare
<1>5. Kind[e] = KindFrom(e.variant)
  BY <1>3, <1>4, RootBare
<1> QED BY <1>2, <1>3, <1>5, KindsOf

\* What is fatal is internal.
LEMMA FatalIsInternal ==
  ASSUME NEW e \in Errors, Severity(e) = "fatal"
  PROVE  Kind[e] = InternalKind
<1>1. Root[e].variant = "Internal"
  BY DEF Severity
<1>2. Kind[e] = KindFrom("Internal")
  BY <1>1, RootBare
<1> QED BY <1>2, KindsOf

\* The domain of a code, from its number.
LEMMA DomainOfIndex ==
  ASSUME NEW d \in 1..10, NEW v \in ToSet(Domains[d])
  PROVE  DomainOf(v) = d
<1>1. NumberOf(v) \in (1000 * d)..(1000 * d + 9)
  BY NumbersIn
<1> DEFINE n == NumberOf(v)
<1>2. n \in Int /\ 1000 * d <= n /\ n <= 1000 * d + 9
  BY <1>1
<1> HIDE DEF n
<1>3. n \div 1000 = d
  BY <1>2
<1> QED BY <1>3 DEF DomainOf, n

\* The Python exceptions, from the variants.
LEMMA PyErrIs ==
  ASSUME NEW e
  PROVE  LET v == e.variant
             py == PyErr(e)
         IN /\ py = "IndexError" => v \in ToSet(Index)
            /\ py = "MemoryError" => v \in ToSet(Memory)
            /\ py = "OSError" => v \in ToSet(Files) \cup ToSet(Arrow)
            /\ v \in ToSet(Shape) \cup ToSet(Typing) \cup ToSet(Index) \cup ToSet(Memory)
                       \cup (ToSet(DLPack) \ {"DLPackNullPointer"}) \cup ToSet(Python) =>
                 py \notin {"OSError", "RuntimeError", "NotImplementedError"}
            /\ v = "Context" => py = "RuntimeError"
<1> DEFINE v == e.variant
           py == PyErr(e)
<1>1. py = "IndexError" => v \in ToSet(Index)
  BY DEF PyErr
<1>2. py = "MemoryError" => v \in ToSet(Memory)
  BY NamesOf DEF PyErr
<1>3. py = "OSError" => v \in ToSet(Files) \cup ToSet(Arrow)
  BY NamesOf DEF PyErr
<1>4. v \in ToSet(Index) => py = "IndexError"
  BY NamesOf DEF PyErr
<1>5. v \in ToSet(Shape) \cup ToSet(Typing) \cup (ToSet(DLPack) \ {"DLPackNullPointer"})
        => py = "ValueError"
  <2>1. v \in ToSet(Shape) => py = "ValueError"
    BY NamesOf DEF PyErr
  <2>2. v \in ToSet(Typing) => py = "ValueError"
    BY NamesOf DEF PyErr
  <2>3. v \in ToSet(DLPack) \ {"DLPackNullPointer"} => py = "ValueError"
    BY NamesOf DEF PyErr
  <2> QED BY <2>1, <2>2, <2>3
<1>6. v \in ToSet(Memory) => py \notin {"OSError", "RuntimeError", "NotImplementedError"}
  BY NamesOf DEF PyErr
<1>7. v \in ToSet(Python) => py \notin {"OSError", "RuntimeError", "NotImplementedError"}
  BY NamesOf DEF PyErr
<1>8. v = "Context" => py = "RuntimeError"
  BY NamesOf DEF PyErr
<1> QED BY <1>1, <1>2, <1>3, <1>4, <1>5, <1>6, <1>7, <1>8

\* A usage error is of one of the domains in which some are.
LEMMA UsageIn ==
  ASSUME NEW v \in Variants, KindFrom(v) = Usage
  PROVE  v \in ToSet(Shape) \cup ToSet(Typing) \cup ToSet(Index) \cup ToSet(Memory)
                 \cup (ToSet(DLPack) \ {"DLPackNullPointer"}) \cup ToSet(Python)
<1>1. PICK i \in DOMAIN Domains : v \in ToSet(Domains[i]) \ {"Context"}
  BY DEF Variants
<1>2. v \in ToSet(Shape) \cup ToSet(Typing) \cup ToSet(Index) \cup ToSet(Memory)
              \cup ToSet(Compute) \cup ToSet(Files) \cup ToSet(DLPack) \cup ToSet(Arrow)
              \cup ToSet(Python) \cup ToSet(General)
  BY <1>1, DomainsAre
<1>3. v # "Context"
  BY VariantsApart
<1>4. v \in ToSet(General) => v \in {"NotImplemented", "Internal"}
  BY <1>3, NamesOf
<1>5. /\ v \notin ToSet(Compute) /\ v \notin ToSet(Files) /\ v \notin ToSet(Arrow)
      /\ v \notin {"NotImplemented", "Internal", "DLPackNullPointer"}
  BY KindsOf DEF Usage, Runtime, System, InternalKind
<1> QED BY <1>2, <1>4, <1>5

\* A context makes a RuntimeError of any error; one that has none is its own root.
LEMMA PyErrOf ==
  ASSUME NEW e \in Errors
  PROVE  /\ ContextMessages[e] = <<>> => Root[e] = e
         /\ ContextMessages[e] # <<>> => PyErr(e) = "RuntimeError"
<1>1. CASE e.variant = "Context"
  <2> DEFINE c == ContextMessages[e.source]
  <2>1. e.source \in Errors /\ e.context \in Labels
    BY <1>1, Inside
  <2>2. ContextMessages[e] = <<e.context>> \o c /\ c \in Seq(Labels)
    BY <1>1, <2>1, ContextMessagesIs
  <2> HIDE DEF c
  <2>3. <<e.context>> \o c # <<>>
    BY <2>1, <2>2
  <2> QED BY <1>1, <2>2, <2>3, PyErrIs
<1>2. CASE e.variant # "Context"
  BY <1>2, ContextMessagesIs, RootIs
<1> QED BY <1>1, <1>2

\* All the verdicts on one error agree.
LEMMA VerdictsOf ==
  ASSUME NEW e \in Errors
  PROVE  LET root == Root[e]
             py == PyErr(e)
             contexts == Json(e).chain
         IN /\ IsTransient(e) => IsRecoverable(Kind[e])
            /\ IsUsageError(e) => Kind[e] = Usage
            /\ Severity(e) = "fatal" => Kind[e] = InternalKind
            /\ Json(e).code = NumberOf(Compact(e).code)
            /\ Json(e).depth + 1 = Len(Chain[e]) /\ Last(Chain[e]) = root
            /\ \A x \in ToSet(Leafs[e]) : IsPrefix(contexts, x.contexts)
            /\ root.variant # "Multiple" =>
                 /\ Leafs[e] = <<[variant |-> root.variant, contexts |-> contexts]>>
                 /\ Json(e).kind = Kind[e]
                 /\ py = "IndexError" => Full(e).domain = 3
                 /\ py = "MemoryError" => Full(e).domain = 4
                 /\ py = "OSError" => IsRecoverable(Kind[e])
                 /\ Kind[e] = Usage => /\ py \notin {"OSError", "NotImplementedError"}
                                      /\ (py = "RuntimeError") = (contexts # <<>>)
<1> DEFINE root == Root[e]
           py == PyErr(e)
           v == root.variant
           contexts == Json(e).chain
<1>1. /\ IsTransient(e) => IsRecoverable(Kind[e])
      /\ IsUsageError(e) => Kind[e] = Usage
      /\ Severity(e) = "fatal" => Kind[e] = InternalKind
  BY TransientRecovers, UsageByKind, FatalIsInternal
<1>2. Json(e).code = NumberOf(Compact(e).code)
  BY DEF Json, Compact
<1>3. Json(e).depth + 1 = Len(Chain[e]) /\ Last(Chain[e]) = root
  BY ChainEnds DEF Json
<1>4. contexts = ContextMessages[e]
  BY DEF Json
<1>5. /\ \A x \in ToSet(Leafs[e]) : IsPrefix(contexts, x.contexts)
      /\ v # "Multiple" => Leafs[e] = <<[variant |-> v, contexts |-> contexts]>>
  BY <1>4, ContextsReported DEF ContextsOf
<1>6. ASSUME v # "Multiple"
      PROVE  /\ Json(e).kind = Kind[e]
             /\ py = "IndexError" => Full(e).domain = 3
             /\ py = "MemoryError" => Full(e).domain = 4
             /\ py = "OSError" => IsRecoverable(Kind[e])
             /\ Kind[e] = Usage => /\ py \notin {"OSError", "NotImplementedError"}
                                  /\ (py = "RuntimeError") = (contexts # <<>>)
  <2>1. v \in Variants /\ Code(root) = v /\ Kind[e] = KindFrom(v)
    BY <1>6, RootBare
  <2>2. Json(e).kind = KindFrom(v) /\ Full(e).domain = DomainOf(v)
    BY <2>1 DEF Json, Full
  <2>3. CASE contexts # <<>>
    <3>1. py = "RuntimeError"
      BY <1>4, <2>3, PyErrOf
    <3> QED BY <2>1, <2>2, <2>3, <3>1
  <2>4. CASE contexts = <<>>
    <3>1. py = PyErr(root)
      BY <1>4, <2>4, PyErrOf
    <3>2. /\ v \in ToSet(Index) => DomainOf(v) = 3
          /\ v \in ToSet(Memory) => DomainOf(v) = 4
      <4>1. /\ v \in ToSet(Domains[3]) => DomainOf(v) = 3
            /\ v \in ToSet(Domains[4]) => DomainOf(v) = 4
        BY DomainOfIndex
      <4> QED BY <4>1, DomainsAre
    <3>3. v \in ToSet(Files) \cup ToSet(Arrow) => IsRecoverable(KindFrom(v))
      BY KindsOf DEF IsRecoverable
    <3>4. KindFrom(v) = Usage => py \notin {"OSError", "RuntimeError", "NotImplementedError"}
      BY <2>1, <3>1, UsageIn, PyErrIs
    <3>5. /\ py = "IndexError" => v \in ToSet(Index)
          /\ py = "MemoryError" => v \in ToSet(Memory)
          /\ py = "OSError" => v \in ToSet(Files) \cup ToSet(Arrow)
      BY <3>1, PyErrIs
    <3>6. (py = "RuntimeError") \in BOOLEAN /\ (contexts # <<>>) = FALSE
      BY <2>4
    <3> QED BY <2>1, <2>2, <3>2, <3>3, <3>4, <3>5, <3>6
  <2> QED BY <2>3, <2>4
<1> QED BY <1>1, <1>2, <1>3, <1>5, <1>6

\* The types of the errors on their way.
LEMMA FlowTypes == FlowInv => ErrorTypeOK
<1> SUFFICES ASSUME FlowInv PROVE ErrorTypeOK
  OBVIOUS
<1>1. \A i \in DOMAIN raised : raised[i] \in LeafRecords
  BY DEF FlowInv
<1>2. \A x \in LeafRecords : x.variant \in Variants
  BY DEF LeafRecords
<1> QED BY <1>1, <1>2 DEF FlowInv, ErrorTypeOK

---------------------------------------------------------------------------
\* What is in flight are errors, nested no deeper than the bound, at most one is
\* returned at a time, and the leaves of all that is in flight are what was raised.
THEOREM Flow == ErrorSpec => []FlowInv
BY FlowInit, FlowStep, PTL DEF ErrorSpec

\* Whatever functions collect, merge, put contexts on and return, in any order and
\* nested as they may be: no error is lost, doubled or moved before another, and each
\* arrives at the report with the contexts it was given.
THEOREM Arrivals == ErrorSpec => []EveryErrorArrives
<1>1. FlowInv => EveryErrorArrives
  BY DEF FlowInv
<1> QED BY <1>1, Flow, PTL

\* The kind of an error is the worst of the kinds inside it, however its contexts and
\* Multiples are nested: MohuError::kind follows every path through them.
THEOREM Worsts == ErrorSpec => []KindIsWorst
<1>1. FlowInv => KindIsWorst
  BY InFlightAre, KindIsMax DEF KindIsWorst
<1> QED BY <1>1, Flow, PTL

\* is_transient, is_usage_error, the severity and the JSON report fit the kind of the
\* error and the contexts of what it holds, for every variant and under any contexts;
\* so does the Python exception of an error without contexts, and one with contexts
\* is always a RuntimeError; but for what the reports and Python say of a Multiple.
THEOREM Verdicts == ErrorSpec => []VerdictsAgree
<1>1. FlowInv => VerdictsAgree
  BY InFlightAre, VerdictsOf DEF VerdictsAgree
<1> QED BY <1>1, Flow, PTL

---------------------------------------------------------------------------
\* While the errors or the reductions run, the conversions are at rest.
Resting == folded = Operands /\ acc = "Bool" /\ item = None /\ safe = TRUE

ElementsInv ==
  /\ FlowInv
  /\ job = "cast" => IInv /\ LoopTypes /\ ValueInv
  /\ job # "cast" => Resting

\* The types of the machines side by side: no conversion leaves the range of its
\* type, and an error is passed on only while a function returns.
THEOREM ElementTypes == MCSpec => []TypesOK
<1>1. MCInit => ElementsInv
  BY FlowInit, InitHolds, InitFits DEF MCInit, ElementsInv, Resting
<1>2. ElementsInv /\ [MCNext]_<<vars, job, errorVars, reductionVars>> => ElementsInv'
  <2> SUFFICES ASSUME ElementsInv, [MCNext]_<<vars, job, errorVars, reductionVars>>
               PROVE  ElementsInv'
    OBVIOUS
  <2>1. CASE job = "cast" /\ Next /\ UNCHANGED <<job, errorVars, reductionVars>>
    <3>1. IInv' /\ LoopTypes' /\ ValueInv'
      BY <2>1, NextHolds, NextFits DEF ElementsInv
    <3>2. FlowInv'
      BY <2>1, FlowStep DEF ElementsInv
    <3> QED BY <2>1, <3>1, <3>2 DEF ElementsInv
  <2>2. CASE job = "errors" /\ ErrorNext /\ UNCHANGED <<job, vars, reductionVars>>
    <3>1. FlowInv'
      BY <2>2, FlowStep DEF ElementsInv
    <3>2. Resting'
      BY <2>2 DEF ElementsInv, Resting, vars
    <3> QED BY <2>2, <3>1, <3>2 DEF ElementsInv
  <2>3. CASE \/ job = "reduce" /\ ReductionNext /\ UNCHANGED <<job, vars, errorVars>>
             \/ UNCHANGED <<vars, job, errorVars, reductionVars>>
    <3>1. UNCHANGED <<vars, job, errorVars>>
      BY <2>3
    <3>2. FlowInv'
      BY <3>1, FlowStep DEF ElementsInv
    <3>3. job = "cast" => IInv' /\ LoopTypes' /\ ValueInv'
      BY <3>1, NextHolds, NextFits DEF ElementsInv
    <3>4. job # "cast" => Resting'
      BY <3>1 DEF ElementsInv, Resting, vars
    <3> QED BY <3>1, <3>2, <3>3, <3>4 DEF ElementsInv
  <2> QED BY <2>1, <2>2, <2>3 DEF MCNext
<1>3. ElementsInv => TypesOK
  <2> SUFFICES ASSUME ElementsInv PROVE TypesOK
    OBVIOUS
  <2>1. TypeOK
    <3>1. CASE job = "cast"
      BY <3>1 DEF ElementsInv, LoopTypes, ValueInv, Fits, TypeOK
    <3>2. CASE job # "cast"
      <4>1. Operands \in 0..Operands /\ "Bool" \in DTypes
        BY OperandsAssumption, DTypesAre
      <4> QED BY <3>2, <4>1 DEF ElementsInv, Resting, TypeOK, Done
    <3> QED BY <3>1, <3>2
  <2>2. ErrorTypeOK
    BY FlowTypes DEF ElementsInv
  <2> QED BY <2>1, <2>2 DEF TypesOK
<1> QED BY <1>1, <1>2, <1>3, PTL DEF MCSpec
=============================================================================
