------------------------------- MODULE DType --------------------------------
(***************************************************************************)
(* The element types of mohu and the rules between them: dtype.rs (the     *)
(* enumeration and its classes), promote.rs (the promotion table, the cast *)
(* tables, common_type) and dlpack.rs (the type codes of an exported       *)
(* tensor).  The two tables with an entry per pair are written as the      *)
(* source writes them, a row per type: they were made by hand, and what    *)
(* holds between their entries is what the module Casting checks.          *)
(***************************************************************************)
EXTENDS Naturals, Sequences

ALL_DTYPES ==
  << "Bool", "I8", "I16", "I32", "I64", "U8", "U16", "U32", "U64",
     "F16", "BF16", "F32", "F64", "C64", "C128" >>

DTypes == {ALL_DTYPES[i] : i \in DOMAIN ALL_DTYPES}

AsU8(d) == CHOOSE i \in DOMAIN ALL_DTYPES : ALL_DTYPES[i] = d

Signed   == {"I8", "I16", "I32", "I64"}
Unsigned == {"U8", "U16", "U32", "U64"}
Integer  == Signed \cup Unsigned
Float    == {"F16", "BF16", "F32", "F64"}
Complex  == {"C64", "C128"}

\* The bits of an element.
BitWidth(d) ==
  CASE d \in {"Bool", "I8", "U8"} -> 8
    [] d \in {"I16", "U16", "F16", "BF16"} -> 16
    [] d \in {"I32", "U32", "F32"} -> 32
    [] d \in {"I64", "U64", "F64", "C64"} -> 64
    [] d = "C128" -> 128

---------------------------------------------------------------------------
\* promote.rs

PROMOTION_TABLE == [
  Bool |-> ALL_DTYPES,
  I8   |-> << "I8", "I8", "I16", "I32", "I64", "I16", "I32", "I64", "F64",
              "F32", "BF16", "F32", "F64", "C64", "C128" >>,
  I16  |-> << "I16", "I16", "I16", "I32", "I64", "I16", "I32", "I64", "F64",
              "F32", "F32", "F32", "F64", "C64", "C128" >>,
  I32  |-> << "I32", "I32", "I32", "I32", "I64", "I32", "I32", "I64", "F64",
              "F64", "F64", "F64", "F64", "C128", "C128" >>,
  I64  |-> << "I64", "I64", "I64", "I64", "I64", "I64", "I64", "I64", "F64",
              "F64", "F64", "F64", "F64", "C128", "C128" >>,
  U8   |-> << "U8", "I16", "I16", "I32", "I64", "U8", "U16", "U32", "U64",
              "F16", "BF16", "F32", "F64", "C64", "C128" >>,
  U16  |-> << "U16", "I32", "I32", "I32", "I64", "U16", "U16", "U32", "U64",
              "F32", "F32", "F32", "F64", "C64", "C128" >>,
  U32  |-> << "U32", "I64", "I64", "I64", "I64", "U32", "U32", "U32", "U64",
              "F64", "F64", "F64", "F64", "C128", "C128" >>,
  U64  |-> << "U64", "F64", "F64", "F64", "F64", "U64", "U64", "U64", "U64",
              "F64", "F64", "F64", "F64", "C128", "C128" >>,
  F16  |-> << "F16", "F32", "F32", "F64", "F64", "F16", "F32", "F64", "F64",
              "F16", "F32", "F32", "F64", "C64", "C128" >>,
  BF16 |-> << "BF16", "BF16", "F32", "F64", "F64", "BF16", "F32", "F64", "F64",
              "F32", "BF16", "F32", "F64", "C64", "C128" >>,
  F32  |-> << "F32", "F32", "F32", "F64", "F64", "F32", "F32", "F64", "F64",
              "F32", "F32", "F32", "F64", "C64", "C128" >>,
  F64  |-> << "F64", "F64", "F64", "F64", "F64", "F64", "F64", "F64", "F64",
              "F64", "F64", "F64", "F64", "C128", "C128" >>,
  C64  |-> << "C64", "C64", "C64", "C128", "C128", "C64", "C64", "C128", "C128",
              "C64", "C64", "C64", "C128", "C64", "C128" >>,
  C128 |-> [i \in 1..15 |-> "C128"] ]

\* Variants: mixed signs of one width keep the width; U64 with a signed type
\* is the widest signed type, the last step of "one step wider".
PromoteSameWidth(a, b) ==
  IF <<a, b>> \in {<<"U32", "I32">>, <<"I32", "U32">>} THEN "I32"
  ELSE PROMOTION_TABLE[a][AsU8(b)]
PromoteWidestSigned(a, b) ==
  IF {a, b} \cap Signed # {} /\ "U64" \in {a, b} /\ {a, b} \subseteq Integer THEN "I64"
  ELSE PROMOTION_TABLE[a][AsU8(b)]

Promote(a, b) == PROMOTION_TABLE[a][AsU8(b)]

\* SAFE_CAST_TABLE: the types a value of each type may be cast to safely,
\* the T of its row.
SAFE_CAST_TABLE == [
  Bool |-> DTypes,
  I8   |-> Signed \cup Float \cup Complex,
  I16  |-> {"I16", "I32", "I64", "F32", "F64"} \cup Complex,
  I32  |-> {"I32", "I64", "F64", "C128"},
  I64  |-> {"I64", "F64", "C128"},
  U8   |-> {"I16", "I32", "I64"} \cup Unsigned \cup Float \cup Complex,
  U16  |-> {"I32", "I64", "U16", "U32", "U64", "F32", "F64"} \cup Complex,
  U32  |-> {"I64", "U32", "U64", "F64", "C128"},
  U64  |-> {"U64", "F64", "C128"},
  F16  |-> {"F16", "F32", "F64"} \cup Complex,
  BF16 |-> {"BF16", "F32", "F64"} \cup Complex,
  F32  |-> {"F32", "F64"} \cup Complex,
  F64  |-> {"F64", "C128"},
  C64  |-> Complex,
  C128 |-> {"C128"} ]

\* SAMEKIND_CAST_TABLE: its rows are the blocks of one kind.
Kinds == {{"Bool"}, Integer, Float, Complex}

KindOf(d) == CHOOSE K \in Kinds : d \in K

CastModes == {"Safe", "SameKind", "Unsafe"}

CanCast(from, to, mode) ==
  CASE mode = "Safe"     -> to \in SAFE_CAST_TABLE[from]
    [] mode = "SameKind" -> to \in KindOf(from)
    [] mode = "Unsafe"   -> TRUE

---------------------------------------------------------------------------
\* dlpack.rs: the type of an exported element, and the type an imported one
\* is given.  No code stands for Bool: it is exported as the U8 it is stored
\* as, and U8 is what comes back.

ToDLPack(d) ==
  [ code |-> CASE d \in Signed                -> "Int"
               [] d \in Unsigned \cup {"Bool"} -> "UInt"
               [] d = "BF16"                   -> "BFloat"
               [] d \in Float \ {"BF16"}       -> "Float"
               [] d \in Complex                -> "Complex",
    bits |-> BitWidth(d) ]

FromDLPack(t) == CHOOSE d \in DTypes \ {"Bool"} : ToDLPack(d) = t

---------------------------------------------------------------------------
\* compat.rs: the format of the buffer protocol, without the mark of the byte
\* order, which from_buffer_format drops.  BF16 has the format of F16.

BufferFormat(d) ==
  CASE d = "Bool" -> "?"
    [] d = "I8"   -> "b" [] d = "I16" -> "h" [] d = "I32" -> "i" [] d = "I64" -> "q"
    [] d = "U8"   -> "B" [] d = "U16" -> "H" [] d = "U32" -> "I" [] d = "U64" -> "Q"
    [] d \in {"F16", "BF16"} -> "e"
    [] d = "F32"  -> "f" [] d = "F64" -> "d"
    [] d = "C64"  -> "Zf" [] d = "C128" -> "Zd"

FromBufferFormat(f) ==
  CASE f = "?" -> "Bool"
    [] f = "b" -> "I8" [] f = "h" -> "I16" [] f \in {"i", "l"} -> "I32" [] f \in {"q", "n"} -> "I64"
    [] f = "B" -> "U8" [] f = "H" -> "U16" [] f \in {"I", "L"} -> "U32" [] f \in {"Q", "N"} -> "U64"
    [] f = "e" -> "F16" [] f = "f" -> "F32" [] f = "d" -> "F64"
    [] f = "Zf" -> "C64" [] f = "Zd" -> "C128"
    [] OTHER -> "none"

\* dtype.rs: the one-letter codes of NumPy (BF16 has none).
NumpyChar(d) ==
  CASE d = "I64" -> "l" [] d = "U64" -> "L"
    [] d = "C64" -> "F" [] d = "C128" -> "D"
    [] d = "BF16" -> "none"
    [] OTHER -> BufferFormat(d)

\* DType::parse of a one-letter code: the letter is made small and looked up
\* among the small ones first, so that B, H, I and L never reach the list of
\* capitals; of f and d that list has the capitals alone, and e is in neither.
ParseChar(c) ==
  CASE c = "?" -> "Bool"
    [] c \in {"b", "B"} -> "I8"  [] c \in {"h", "H"} -> "I16"
    [] c \in {"i", "I"} -> "I32" [] c \in {"l", "L"} -> "I64"
    [] c = "F" -> "C64" [] c = "D" -> "C128"
    [] OTHER -> "none"

\* compat.rs: the types Arrow has, each of which comes back as it was.
ToArrow(d) == IF d \in Complex \cup {"BF16"} THEN "none" ELSE d

\* The type given back for one that is sent as a name of some kind; "none" if
\* the name cannot be made or is not understood.
NameKinds == {"dlpack", "buffer", "char", "arrow"}

Renamed(kind, d) ==
  CASE kind = "dlpack" -> FromDLPack(ToDLPack(d))
    [] kind = "buffer" -> FromBufferFormat(BufferFormat(d))
    [] kind = "char"   -> ParseChar(NumpyChar(d))
    [] kind = "arrow"  -> ToArrow(d)
============================================================================
