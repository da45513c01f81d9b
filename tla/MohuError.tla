----------------------------- MODULE MohuError ------------------------------
(***************************************************************************)
(* The error values of mohu-error: a variant of MohuError, by its name; a  *)
(* Context, which wraps an error; a Multiple, which holds several.  What   *)
(* the crate computes of them: codes and kinds, what may be retried, the   *)
(* chain of contexts, the reports, the Python exception.  The texts and    *)
(* the fields of the variants are left out.                                *)
(***************************************************************************)
EXTENDS SequencesExt

CONSTANTS
  Labels,      \* the texts of contexts
  MaxNesting   \* bound: contexts and Multiples around one error

ASSUME NestingAssumption == MaxNesting \in Nat

\* The variants, as error.rs declares them and codes.rs numbers them.
Shape == <<"ShapeMismatch", "BroadcastError", "DimensionMismatch", "AxisOutOfRange",
           "ScalarArray", "ZeroSizedDimension", "ShapeOverflow", "ReshapeIncompatible",
           "EmptyStackSequence", "ConcatShapeMismatch">>
Typing == <<"DTypeMismatch", "InvalidCast", "Overflow", "Underflow", "UnknownDType",
            "UnsupportedDType", "AmbiguousPromotion">>
Index == <<"IndexOutOfBounds", "TooManyIndices", "ZeroSliceStep", "SliceOutOfBounds",
           "BoolIndexShapeMismatch", "FancyIndexOutOfBounds">>
Memory == <<"AllocationFailed", "AlignmentError", "BufferTooSmall", "InvalidStride",
            "OverlappingStrides", "NonContiguous", "ReadOnly", "CannotResizeShared",
            "OffsetOverflow">>
Compute == <<"SingularMatrix", "NonConvergence", "DomainError", "DivisionByZero",
             "MatrixDimensionMismatch", "EigenDecompositionFailed", "NotPositiveDefinite",
             "QRRankDeficient", "SVDNonConvergence", "UnsupportedNormOrder">>
Files == <<"Io", "InvalidMagic", "UnsupportedVersion", "CorruptData", "UnexpectedEof",
           "UnsupportedCodec", "NpyHeaderError", "NpzEntryNotFound", "CsvParseError">>
DLPack == <<"DLPackUnsupportedDevice", "DLPackVersionMismatch", "DLPackNullPointer",
            "DLPackUnsupportedDType", "DLPackInvalid">>
Arrow == <<"ArrowSchema", "ArrowIpc", "ArrowUnsupportedType", "ArrowValidityError">>
Python == <<"PythonType", "PythonValue", "PythonBuffer", "PythonNoBuffer",
            "PythonUnsupportedBufferFormat">>
General == <<"Context", "NotImplemented", "Internal">>

Domains == <<Shape, Typing, Index, Memory, Compute, Files, DLPack, Arrow, Python, General>>

Variants == (UNION {ToSet(Domains[i]) : i \in DOMAIN Domains}) \ {"Context"}

Leaf(v) == [variant |-> v]
Context(l, e) == [variant |-> "Context", context |-> l, source |-> e]
Multiple(errors) == [variant |-> "Multiple", errors |-> errors]

\* The errors by themselves, and those that hold errors of S.  No collector
\* makes a Multiple of nothing.
Plain == [variant : Variants]
Around(S) == [variant : {"Context"}, context : Labels, source : S]
               \cup [variant : {"Multiple"}, errors : Seq(S) \ {<<>>}]

\* The errors with at most n contexts and Multiples around one another.
ErrorsUpTo[n \in 0..MaxNesting] ==
  IF n = 0 THEN Plain ELSE Plain \cup Around(ErrorsUpTo[n - 1])

Errors == ErrorsUpTo[MaxNesting]

\* The constructors with a name of their own.
Alloc == Leaf("AllocationFailed")
Bug == Leaf("Internal")
Domain == Leaf("DomainError")
MatmulShape == Leaf("MatrixDimensionMismatch")

---------------------------------------------------------------------------
\* The number of a code: a thousand for each domain.
NumberOf(c) ==
  LET d == CHOOSE i \in DOMAIN Domains : c \in ToSet(Domains[i])
  IN 1000 * d + (CHOOSE j \in DOMAIN Domains[d] : Domains[d][j] = c) - 1

DomainOf(c) == NumberOf(c) \div 1000

Code(e) == IF e.variant = "Multiple" THEN "Internal" ELSE e.variant

Usage == 0
Runtime == 1
System == 2
InternalKind == 3
ErrorKinds == {Usage, Runtime, System, InternalKind}

IsRecoverable(k) == k = System

\* A seeded fault: the memory errors the system causes are taken to start at 4001.
KindFromLate(c) ==
  LET n == NumberOf(c)
      Within(a, b) == a <= n /\ n <= b
  IN CASE Within(4001, 4002) \/ Within(6000, 6999) \/ Within(8000, 8999) -> System
       [] Within(5000, 5999) \/ n \in {10000, 10001} -> Runtime
       [] n \in {7002, 10002} -> InternalKind
       [] OTHER -> Usage

KindFrom(c) ==
  LET n == NumberOf(c)
      Within(a, b) == a <= n /\ n <= b
  IN CASE Within(1000, 3999) \/ Within(4003, 4999) -> Usage
       [] Within(4000, 4002) \/ Within(6000, 6999) \/ Within(8000, 8999) -> System
       [] Within(5000, 5999) \/ n \in {10000, 10001} -> Runtime
       [] (Within(7000, 7999) /\ n # 7002) \/ Within(9000, 9999) -> Usage
       [] OTHER -> InternalKind

Root[e \in Errors] == IF e.variant = "Context" THEN Root[e.source] ELSE e

\* What the iterator ErrorChain yields.
Chain[e \in Errors] ==
  IF e.variant = "Context" THEN <<e>> \o Chain[e.source] ELSE <<e>>

ContextMessages[e \in Errors] ==
  IF e.variant = "Context" THEN <<e.context>> \o ContextMessages[e.source] ELSE <<>>

Depth[e \in Errors] == IF e.variant = "Context" THEN 1 + Depth[e.source] ELSE 0

\* A seeded fault: the order of the kinds is taken to be the other way round.
WorstIsLeast(kinds) == IF kinds = {} THEN InternalKind ELSE Min(kinds)

\* The worst of the kinds inside a Multiple.
Worst(kinds) == IF kinds = {} THEN InternalKind ELSE Max(kinds)

Kind[e \in Errors] ==
  LET root == Root[e]
  IN IF root.variant = "Internal" THEN InternalKind
     ELSE IF root.variant = "Multiple" THEN Worst({Kind[x] : x \in ToSet(root.errors)})
     ELSE KindFrom(Code(root))

IsTransient(e) == e.variant \in {"Io", "AllocationFailed"}

IsUsageError(e) ==
  Code(e) \in {"ShapeMismatch", "BroadcastError", "DimensionMismatch", "AxisOutOfRange",
               "DTypeMismatch", "InvalidCast", "ReshapeIncompatible"} \cup ToSet(Index)

---------------------------------------------------------------------------
\* A MohuResult: what went wrong, or nothing.
Ok == <<>>
Err(e) == <<e>>

\* context, with_context, op and axis of a result, which differ in the text.
WithContext(r, l) == [i \in DOMAIN r |-> Context(l, r[i])]

\* ... of an Option that is None.  ok_or_mohu takes the error it is given.
NoneWithContext == Err(Bug)
NoneOr(e) == Err(e)

\* A collector: the sequence of its errors.
Collect(errors, r) == errors \o r

\* A seeded fault: only the first of the errors is returned.
IntoFirst(errors) == IF errors = <<>> THEN Ok ELSE Err(Head(errors))

IntoResult(errors) ==
  CASE errors = <<>> -> Ok
    [] Len(errors) = 1 -> Err(Head(errors))
    [] OTHER -> Err(Multiple(errors))

ExtendFrom(errors, other) == errors \o other

\* The checks that are macros.
Checked(bad, v) == IF bad THEN Err(Leaf(v)) ELSE Ok
AssertShapeEq(lhs, rhs) == Checked(lhs # rhs, "ShapeMismatch")
AssertAxisValid(axis, ndim) == Checked(axis < -ndim \/ axis >= ndim, "AxisOutOfRange")
AssertInBounds(i, size) == Checked(i < -size \/ i >= size, "IndexOutOfBounds")

---------------------------------------------------------------------------
\* What the reports say of an error, in the order they say it.
Compact(e) == [code |-> Code(Root[e]), chain |-> ContextMessages[e]]

Full(e) == [code |-> Code(Root[e]), domain |-> DomainOf(Code(Root[e])),
            chain |-> Reverse(ContextMessages[e])]

Json(e) == [code |-> NumberOf(Code(Root[e])), kind |-> KindFrom(Code(Root[e])),
            chain |-> ContextMessages[e], depth |-> Depth[e]]

Severity(e) == IF Root[e].variant = "Internal" THEN "fatal" ELSE "error"

PyErr(e) ==
  LET v == e.variant
  IN CASE v \in ToSet(Index) -> "IndexError"
       [] \/ v \in ToSet(Shape) \cup ToSet(Typing) \cup ToSet(Compute)
          \/ v = "PythonValue"
          \/ v \in ToSet(DLPack) \ {"DLPackNullPointer"}
          \/ v \in ToSet(Arrow) \ {"ArrowIpc"} -> "ValueError"
       [] v \in {"PythonType", "PythonUnsupportedBufferFormat"} -> "TypeError"
       [] v \in {"AllocationFailed", "AlignmentError", "BufferTooSmall",
                 "OffsetOverflow", "OverlappingStrides"} -> "MemoryError"
       [] v \in {"NonContiguous", "ReadOnly", "CannotResizeShared", "InvalidStride",
                 "PythonBuffer", "PythonNoBuffer"} -> "BufferError"
       [] v \in ToSet(Files) \cup {"ArrowIpc"} -> "OSError"
       [] v = "NotImplemented" -> "NotImplementedError"
       [] OTHER -> "RuntimeError"
=============================================================================
