------------------------------ MODULE Reductions ------------------------------
(***************************************************************************)
(* The reductions of ops.rs and buffer.rs: reduce, sum, mean, variance,    *)
(* count, minimum and maximum and where they are, any and all.             *)
(*                                                                         *)
(* rayon halves the elements as often as it likes, folds the pieces, one   *)
(* element after the other, on any threads, and combines the halves of a   *)
(* piece when both are done.  A sequential reduction is that of a piece    *)
(* which is not halved.                                                    *)
(*                                                                         *)
(* What is summed or reduced is kept as the sequence of the elements that  *)
(* went into it, so that one which is lost, counted twice or out of its    *)
(* place shows; the rounding of float sums is left out.                    *)
(***************************************************************************)
EXTENDS Integers, SequencesExt, FiniteSetsExt

CONSTANTS
  Values,    \* the numbers elements may be; 0 is false
  Unordered, \* NaN: one more, less than, greater than and equal to none
  Infinity,  \* and one above them all
  MaxLen     \* bound: elements of an array

ASSUME ReductionAssumption == Values \subseteq Int /\ MaxLen \in Nat

VARIABLES
  op,      \* the reduction that is run, or "idle"
  kind,    \* the type of the elements: "bool", "real" or "complex"
  elems,   \* the elements, in C order
  ddof,    \* an argument of the variance
  mean,    \* what the first pass of the variance found, once it has
  parts,   \* the pieces: elements lo + 1 to hi, those up to `at` combined to acc;
           \* path says of which half of which half it is
  result,  \* what the call returns, once it does
  error    \* or the error, or "none"

reductionVars == <<op, kind, elems, ddof, mean, parts, result, error>>

Nothing == <<>>
Some(x) == <<x>>

Folds == {"reduce", "sum", "mean", "var"}
Selections == {"min", "max", "argmin", "argmax"}
Tests == {"any", "all", "count"}

---------------------------------------------------------------------------
Less(x, y) == x # Unordered /\ y # Unordered /\ x < y
Same(x, y) == x # Unordered /\ x = y

\* What element i contributes.
Contribution(i) ==
  CASE op = "var" /\ mean # Nothing -> <<[elem |-> i, mean |-> mean[1]]>>
    [] op \in Folds /\ mean = Nothing -> <<i>>
    [] op \in {"any", "all"} -> elems[i] # 0
    [] op = "count" -> IF elems[i] # 0 THEN 1 ELSE 0
    [] op \in Selections -> Some([at |-> i - 1, val |-> elems[i]])

\* What a piece starts from.  The init the caller of reduce gives is written 0:
\* it is combined in like an element.
Identity(o) ==
  CASE o = "reduce" -> <<0>>
    [] o = "any" -> FALSE
    [] o = "all" -> TRUE
    [] o = "count" -> 0
    [] OTHER -> Nothing

\* A seeded fault: of two elements that are alike the right one is taken.
KeepsLeftIfStrict(x, y) ==
  IF op \in {"min", "argmin"} THEN Less(x.val, y.val) ELSE Less(y.val, x.val)

\* Of two elements that are alike the left one is taken, but by max_by_key, which
\* finds the place of the maximum of Bool elements.
KeepsLeft(x, y) ==
  CASE op \in {"min", "argmin"} -> Less(x.val, y.val) \/ Same(x.val, y.val)
    [] op = "argmax" /\ kind = "bool" -> Less(y.val, x.val)
    [] OTHER -> Less(y.val, x.val) \/ Same(x.val, y.val)

Combine(x, y) ==
  CASE op \in Folds -> x \o y
    [] op = "any" -> x \/ y
    [] op = "all" -> x /\ y
    [] op = "count" -> x + y
    [] op \in Selections -> IF x = Nothing THEN y
                            ELSE IF y = Nothing \/ KeepsLeft(x[1], y[1]) THEN x ELSE y

Piece(o, lo, hi, path) ==
  [lo |-> lo, hi |-> hi, at |-> lo, acc |-> Identity(o), path |-> path]

IsDone(p) == p.at = p.hi

\* What is returned without looking at the elements.
Early(o, n, d) ==
  CASE o = "mean" /\ n = 0 -> Some(Unordered)
    [] o = "var" /\ n <= d -> Some(Unordered)
    [] o = "min" /\ n = 0 -> Some(Infinity)
    [] o = "max" /\ n = 0 -> Some(-Infinity)
    [] o \in {"argmin", "argmax"} /\ n = 0 -> Some(0)
    [] OTHER -> Nothing

\* What is returned of the elements combined.
Outcome(x) ==
  CASE op \in {"min", "max"} -> x[1].val
    [] op \in {"argmin", "argmax"} -> x[1].at
    [] OTHER -> x

---------------------------------------------------------------------------
Idle == op = "idle"
Running == ~Idle /\ result = Nothing /\ error = "none"

ReductionInit ==
  /\ op = "idle"
  /\ kind = "real"
  /\ elems = <<>>
  /\ ddof = 0
  /\ mean = Nothing
  /\ parts = <<>>
  /\ result = Nothing
  /\ error = "none"

\* There is no order and no sum of complex numbers; the mean of none is asked for
\* none.
Supported(o, k, n) ==
  k = "complex" => (o \in Tests \cup {"reduce"}) \/ (o = "mean" /\ n = 0)

Begin(o, k, e, d) ==
  /\ Idle
  /\ op' = o
  /\ kind' = k
  /\ elems' = e
  /\ ddof' = d
  /\ error' = IF Supported(o, k, Len(e)) THEN "none" ELSE "UnsupportedDType"
  /\ result' = IF Supported(o, k, Len(e)) THEN Early(o, Len(e), d) ELSE Nothing
  /\ parts' = IF Supported(o, k, Len(e)) /\ Early(o, Len(e), d) = Nothing
                THEN <<Piece(o, 0, Len(e), <<>>)>> ELSE <<>>
  /\ UNCHANGED mean

\* reduce takes no array of another type and none with gaps; the others copy one
\* with gaps before each pass, for which there may be no memory.
Refuse ==
  /\ Running
  /\ parts = <<Piece(op, 0, Len(elems), <<>>)>>
  /\ error' \in IF op = "reduce" THEN {"DTypeMismatch", "NonContiguous"}
                                  ELSE {"AllocationFailed"}
  /\ UNCHANGED <<op, kind, elems, ddof, mean, parts, result>>

Sequential == op \in {"argmin", "argmax"} /\ kind = "bool"

\* A piece of which nothing is done is halved.
Halve(k) ==
  LET p == parts[k]
      mid == p.lo + (p.hi - p.lo) \div 2
  IN /\ Running
     /\ ~Sequential
     /\ p.at = p.lo
     /\ p.hi - p.lo >= 2
     /\ parts' = SubSeq(parts, 1, k - 1)
                 \o <<Piece(op, p.lo, mid, p.path \o <<"left">>),
                      Piece(op, mid, p.hi, p.path \o <<"right">>)>>
                 \o SubSeq(parts, k + 1, Len(parts))
     /\ UNCHANGED <<op, kind, elems, ddof, mean, result, error>>

\* The next element of a piece is combined in.
Advance(k) ==
  /\ Running
  /\ ~IsDone(parts[k])
  /\ parts' = [parts EXCEPT ![k].at = @ + 1,
                            ![k].acc = Combine(@, Contribution(parts[k].at + 1))]
  /\ UNCHANGED <<op, kind, elems, ddof, mean, result, error>>

\* any and all look at no more elements once one, in whatever piece, decides.
Decided == \E j \in DOMAIN parts : parts[j].acc = (op = "any")

Stop(k) ==
  /\ Running
  /\ op \in {"any", "all"}
  /\ Decided
  /\ ~IsDone(parts[k])
  /\ parts' = [parts EXCEPT ![k].at = parts[k].hi]
  /\ UNCHANGED <<op, kind, elems, ddof, mean, result, error>>

\* Two halves that are done are combined.
Join(k) ==
  LET p == parts[k]
      q == parts[k + 1]
  IN /\ Running
     /\ IsDone(p) /\ IsDone(q)
     /\ p.path # <<>> /\ Len(p.path) = Len(q.path) /\ Front(p.path) = Front(q.path)
     /\ parts' = SubSeq(parts, 1, k - 1)
                 \o <<[lo |-> p.lo, hi |-> q.hi, at |-> q.hi,
                       acc |-> Combine(p.acc, q.acc), path |-> Front(p.path)]>>
                 \o SubSeq(parts, k + 2, Len(parts))
     /\ UNCHANGED <<op, kind, elems, ddof, mean, result, error>>

AllDone == Running /\ Len(parts) = 1 /\ parts[1].path = <<>> /\ IsDone(parts[1])

\* The variance has the sum and goes over the elements again.
SecondPass ==
  /\ AllDone
  /\ op = "var" /\ mean = Nothing
  /\ mean' = Some(parts[1].acc)
  /\ parts' = <<Piece(op, 0, Len(elems), <<>>)>>
  /\ UNCHANGED <<op, kind, elems, ddof, result, error>>

Finish ==
  /\ AllDone
  /\ op = "var" => mean # Nothing
  /\ result' = Some(Outcome(parts[1].acc))
  /\ parts' = <<>>
  /\ UNCHANGED <<op, kind, elems, ddof, mean, error>>

Return ==
  /\ ~Idle /\ ~Running
  /\ op' = "idle"
  /\ kind' = "real"
  /\ elems' = <<>>
  /\ ddof' = 0
  /\ mean' = Nothing
  /\ parts' = <<>>
  /\ result' = Nothing
  /\ error' = "none"

\* Arrays: where the elements do not matter, of any length.
Seqs(S) == UNION {[1..n -> S] : n \in 0..MaxLen}

ElementsOf(k) == IF k = "real" THEN Values \cup {Unordered} ELSE {0, 1}

ReductionNext ==
  \/ \E o \in Folds, k \in {"bool", "real", "complex"}, d \in {0, 1} : \E e \in Seqs({1}) :
       Begin(o, k, e, d)
  \/ \E o \in Selections \cup Tests, k \in {"bool", "real", "complex"} :
       \E e \in Seqs(ElementsOf(k)) : Begin(o, k, e, 0)
  \/ Refuse
  \/ \E k \in DOMAIN parts : Halve(k) \/ Advance(k) \/ Stop(k)
  \/ \E k \in 1..(Len(parts) - 1) : Join(k)
  \/ SecondPass \/ Finish \/ Return

ReductionSpec == ReductionInit /\ [][ReductionNext]_reductionVars

---------------------------------------------------------------------------
InOrder == [i \in DOMAIN elems |-> i]
Places == {i - 1 : i \in DOMAIN elems}
At(j) == elems[j + 1]
Comparable == Unordered \notin ToSet(elems)

\* Where the least elements are, or the greatest.
Best ==
  {j \in Places : \A i \in Places :
     IF op \in {"min", "argmin"} THEN At(j) <= At(i) ELSE At(i) <= At(j)}

\* What the elements determine of the value that is returned of them.
Exact(out) ==
  LET n == Len(elems)
  IN /\ op = "reduce" => /\ ToSet(out) \ {0} = 1..n
                         /\ \A i, j \in DOMAIN out :
                              i < j /\ out[i] # 0 /\ out[j] # 0 => out[i] < out[j]
     /\ op = "sum" => out = InOrder
     /\ op = "mean" => IF n = 0 THEN out = Unordered ELSE out = InOrder
     /\ op = "var" => IF n <= ddof THEN out = Unordered
                      ELSE out = [i \in 1..n |-> [elem |-> i, mean |-> InOrder]]
     /\ op = "any" => (out <=> \E j \in Places : At(j) # 0)
     /\ op = "all" => (out <=> \A j \in Places : At(j) # 0)
     /\ op = "count" => out = Cardinality({j \in Places : At(j) # 0})
     /\ op \in {"min", "max"} =>
          IF n = 0 THEN out = IF op = "min" THEN Infinity ELSE -Infinity
          ELSE \E j \in IF Comparable THEN Best ELSE Places : out = At(j)
     /\ op \in {"argmin", "argmax"} =>
          IF n = 0 THEN out = 0
          ELSE IF ~Comparable THEN out \in Places
          ELSE out = IF op = "argmax" /\ kind = "bool" THEN Max(Best) ELSE Min(Best)

\* However the elements are halved and whichever pieces are done first, a
\* reduction returns what the elements determine, in their order: every element
\* is combined in once, in its place; a minimum or maximum is one of the elements
\* and, if all can be compared, the least or greatest; the place of it is the
\* first such, or for the maximum of Bool elements the last.  What does depend
\* on the pieces is how often the init of reduce is combined in, and which of
\* the elements a minimum, a maximum or their place is, if one is not comparable.
ReductionIsExact == result # Nothing => Exact(result[1])
=============================================================================
