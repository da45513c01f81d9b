----------------------------- MODULE LayoutProofs -----------------------------
(***************************************************************************)
(* Proofs about Layout: arrays of any shape, rank and size of element, and *)
(* chains of views of any length.                                          *)
(*                                                                         *)
(* First what the operators of the model compute: sums and products over   *)
(* finite sets, numbers in mixed radix (the position of an index is what   *)
(* its strides weigh), offsets, each kind of view, slices, iterators.      *)
(*                                                                         *)
(* Then two invariants.  Laid holds of every program: the view is a        *)
(* layout, whatever its slices are given.  From it follow the properties   *)
(* of ranges, overlaps, contiguity and iterators.  IInv is about the       *)
(* elements: the view shows the array, whose elements are those of the     *)
(* buffer.  It is kept by every step but a slice backwards from behind its *)
(* axis, or without a stop on it: such a slice leaves the buffer or is     *)
(* empty (the run layout_reversed shows the first), and the theorems on    *)
(* elements say so in their hypothesis.                                    *)
(*                                                                         *)
(* A fold, and the recursive function of an iterator, is the solution of   *)
(* an equation chosen by CHOOSE: that there is one is proved by induction  *)
(* over the numbers or the subsets with the property, as a set.            *)
(***************************************************************************)
EXTENDS Layout, FiniteSetTheorems, SequenceTheorems, TLAPS

-------------------------------------------------------------------------------
(* Sums and products over finite sets                                       *)

Less == {ss \in Nat \X Nat : ss[1] < ss[2]}

\* Every set of numbers has a least one.
LEMMA LessWellFounded ==
  IsWellFoundedOn(Less, Nat)
BY NatLessThanWellFounded DEF OpToRel, Less

LEMMA Least ==
  ASSUME NEW N \in SUBSET Nat, N # {}
  PROVE  \E n \in N : \A k \in N : n <= k
<1>1. PICK n \in N : \A k \in N : ~(<<k, n>> \in Less)
  BY LessWellFounded, WFMin
<1>2. \A k \in N : ~(k < n)
  BY <1>1 DEF Less
<1> QED BY <1>2

\* Induction on numbers and on the subsets of a finite set, for a property that
\* is given as the set of those that have it.
LEMMA Induction ==
  ASSUME NEW G \in SUBSET Nat, 0 \in G, \A n \in G : n + 1 \in G
  PROVE  Nat \subseteq G
<1> SUFFICES ASSUME ~(Nat \subseteq G) PROVE FALSE
  OBVIOUS
<1> DEFINE Bad == Nat \ G
<1>1. PICK n \in Bad : \A k \in Bad : n <= k
  BY Least
<1>2. n # 0 /\ n \in Nat
  BY <1>1
<1>3. n - 1 \in Nat /\ n - 1 \notin Bad
  BY <1>1, <1>2
<1>4. (n - 1) + 1 \in G
  BY <1>3
<1> QED BY <1>1, <1>2, <1>4

\* A family with {} that has a subset of S whenever it has all that lack one
\* element of it has every subset of S.
LEMMA SubsetInduction ==
  ASSUME NEW S, IsFiniteSet(S), NEW G \in SUBSET (SUBSET S), {} \in G,
         \A T \in SUBSET S : T # {} /\ (\A x \in T : T \ {x} \in G) => T \in G
  PROVE  SUBSET S \subseteq G
<1> DEFINE H == {n \in Nat : \A T \in SUBSET S : Cardinality(T) = n => T \in G}
<1>0. \A T \in SUBSET S : IsFiniteSet(T) /\ Cardinality(T) \in Nat
  BY FS_Subset, FS_CardinalityType
<1>1. 0 \in H
  <2> SUFFICES ASSUME NEW T \in SUBSET S, Cardinality(T) = 0 PROVE T \in G
    OBVIOUS
  <2> QED BY <1>0, FS_EmptySet
<1>2. ASSUME NEW n \in H PROVE n + 1 \in H
  <2> SUFFICES ASSUME NEW T \in SUBSET S, Cardinality(T) = n + 1 PROVE T \in G
    BY <1>2
  <2>1. T # {}
    BY FS_EmptySet, <1>2
  <2>2. ASSUME NEW x \in T PROVE T \ {x} \in G
    <3>1. Cardinality(T \ {x}) = n
      BY <1>0, FS_RemoveElement, <1>2
    <3> QED BY <3>1, <1>2
  <2> QED BY <2>1, <2>2
<1> HIDE DEF H
<1>3. Nat \subseteq H
  <2>1. H \in SUBSET Nat
    BY DEF H
  <2> QED BY <2>1, <1>1, <1>2, Induction
<1> QED BY <1>0, <1>3 DEF H

\* The sum of f over each subset of S, whatever element is taken first.
IsSum(f, S, h) ==
  /\ h \in [SUBSET S -> Int]
  /\ h[{}] = 0
  /\ \A T \in SUBSET S : \A x \in T : h[T] = f[x] + h[T \ {x}]

\* There is a function that adds f over every subset of a finite set.
LEMMA SumExists ==
  ASSUME NEW S, IsFiniteSet(S), NEW f, \A x \in S : f[x] \in Int
  PROVE  \E h : IsSum(f, S, h)
<1> DEFINE G == {T \in SUBSET S : \E h : IsSum(f, T, h)}
<1>1. {} \in G
  <2>1. IsSum(f, {}, [T \in SUBSET {} |-> 0])
    BY DEF IsSum
  <2> QED BY <2>1
<1>2. ASSUME NEW T \in SUBSET S, T # {}, \A x \in T : T \ {x} \in G PROVE T \in G
  <2>0. PICK a \in T : TRUE
    BY <1>2
  <2>1. PICK h : IsSum(f, T \ {a}, h)
    BY <1>2
  <2> DEFINE g == [U \in SUBSET T |-> IF a \in U THEN f[a] + h[U \ {a}] ELSE h[U]]
  <2>2. \A U \in SUBSET T : /\ U \ {a} \in SUBSET (T \ {a})
                            /\ a \notin U => U \in SUBSET (T \ {a})
    OBVIOUS
  <2>3. g \in [SUBSET T -> Int]
    BY <2>1, <2>2 DEF IsSum
  <2>4. g[{}] = 0
    BY <2>1 DEF IsSum
  <2>5. ASSUME NEW U \in SUBSET T, NEW x \in U PROVE g[U] = f[x] + g[U \ {x}]
    <3>1. CASE x = a
      <4>1. g[U \ {a}] = h[U \ {a}]
        OBVIOUS
      <4> QED BY <4>1, <3>1
    <3>2. CASE x # a /\ a \in U
      <4>1. h[U \ {a}] = f[x] + h[(U \ {a}) \ {x}]
        BY <2>1, <2>2, <3>2 DEF IsSum
      <4>2. g[U \ {x}] = f[a] + h[(U \ {x}) \ {a}]
        BY <3>2
      <4>3. (U \ {x}) \ {a} = (U \ {a}) \ {x}
        OBVIOUS
      <4>4. h[(U \ {a}) \ {x}] \in Int /\ f[a] \in Int /\ f[x] \in Int
        BY <2>1, <2>2 DEF IsSum
      <4>5. g[U] = f[a] + h[U \ {a}]
        BY <3>2
      <4> HIDE DEF g
      <4>6. g[U \ {x}] = f[a] + h[(U \ {a}) \ {x}]
        BY <4>2, <4>3
      <4> QED BY <4>1, <4>6, <4>4, <4>5
    <3>3. CASE x # a /\ a \notin U
      <4>1. h[U] = f[x] + h[U \ {x}]
        <5>1. U \in SUBSET (T \ {a}) /\ U \in SUBSET T
          BY <3>3
        <5> QED BY <5>1, <2>1 DEF IsSum
      <4>2. g[U] = h[U] /\ g[U \ {x}] = h[U \ {x}]
        BY <3>3
      <4> HIDE DEF g
      <4> QED BY <4>1, <4>2
    <3> QED BY <3>1, <3>2, <3>3
  <2>6. IsSum(f, T, g)
    <3> HIDE DEF g
    <3> QED BY <2>3, <2>4, <2>5 DEF IsSum
  <2> QED BY <2>6
<1> HIDE DEF G
<1>3. SUBSET S \subseteq G
  <2>1. G \in SUBSET (SUBSET S)
    BY DEF G
  <2> QED BY <2>1, <1>1, <1>2, SubsetInduction
<1> QED BY <1>3 DEF G

\* SumFunctionOnSet is that sum.
LEMMA SumIs ==
  ASSUME NEW S, IsFiniteSet(S), NEW f, NEW h, IsSum(f, S, h)
  PROVE  SumFunctionOnSet(f, S) = h[S]
<1> DEFINE Next1(iter) ==
      [s \in SUBSET S |-> IF s = {} THEN 0
                          ELSE LET x == CHOOSE y \in s : TRUE IN f[x] + iter[s \ {x}]]
           iter == CHOOSE iter : iter = Next1(iter)
           G == {T \in SUBSET S : iter[T] = h[T]}
<1>1. h = Next1(h)
  <2>1. h \in [SUBSET S -> Int]
    BY DEF IsSum
  <2>2. ASSUME NEW s \in SUBSET S
        PROVE  h[s] = IF s = {} THEN 0
                          ELSE LET x == CHOOSE y \in s : TRUE IN f[x] + h[s \ {x}]
    <3>1. CASE s = {}
      BY <3>1 DEF IsSum
    <3>2. CASE s # {}
      <4>1. (CHOOSE y \in s : TRUE) \in s
        BY <3>2
      <4> QED BY <3>2, <4>1 DEF IsSum
    <3> QED BY <3>1, <3>2
  <2> QED BY <2>1, <2>2
<1>2. iter = Next1(iter)
  BY <1>1
<1>3. SumFunctionOnSet(f, S) = iter[S]
  BY DEF SumFunctionOnSet, FoldFunctionOnSet, MapThenFoldSet
<1>4. \A T \in SUBSET S : iter[T] = IF T = {} THEN 0
                          ELSE LET x == CHOOSE y \in T : TRUE IN f[x] + iter[T \ {x}]
  <2> HIDE DEF iter
  <2> QED BY <1>2
<1> HIDE DEF iter
<1>5. {} \in G
  BY <1>4 DEF IsSum
<1>6. ASSUME NEW T \in SUBSET S, \A x \in T : T \ {x} \in G PROVE T \in G
  <2>1. CASE T = {}
    BY <2>1, <1>5
  <2>2. CASE T # {}
    <3> DEFINE x == CHOOSE y \in T : TRUE
    <3>1. x \in T
      BY <2>2
    <3>2. iter[T] = f[x] + iter[T \ {x}]
      BY <1>4, <2>2
    <3> HIDE DEF x
    <3>3. iter[T \ {x}] = h[T \ {x}]
      BY <1>6, <3>1
    <3>4. h[T] = f[x] + h[T \ {x}]
      BY <3>1 DEF IsSum
    <3> QED BY <3>2, <3>3, <3>4
  <2> QED BY <2>1, <2>2
<1>7. SUBSET S \subseteq G
  <2> HIDE DEF G
  <2>1. G \in SUBSET (SUBSET S)
    BY DEF G
  <2> QED BY <2>1, <1>5, <1>6, SubsetInduction
<1> QED BY <1>3, <1>7

\* Nothing adds up to 0.
LEMMA SumEmpty ==
  ASSUME NEW f
  PROVE  SumFunctionOnSet(f, {}) = 0
<1>1. IsFiniteSet({})
  BY FS_EmptySet
<1>2. PICK h : IsSum(f, {}, h)
  BY SumExists, <1>1
<1>3. SumFunctionOnSet(f, {}) = h[{}]
  BY <1>1, <1>2, SumIs
<1> QED BY <1>2, <1>3 DEF IsSum

\* A sum of integers is any one of them and the sum of the others.
LEMMA SumRemove ==
  ASSUME NEW S, IsFiniteSet(S), NEW f, \A x \in S : f[x] \in Int
  PROVE  /\ SumFunctionOnSet(f, S) \in Int
         /\ \A x \in S : SumFunctionOnSet(f, S) = f[x] + SumFunctionOnSet(f, S \ {x})
<1>1. PICK h : IsSum(f, S, h)
  BY SumExists
<1>2. SumFunctionOnSet(f, S) = h[S] /\ h[S] \in Int
  <2>1. SumFunctionOnSet(f, S) = h[S]
    BY <1>1, SumIs
  <2> QED BY <2>1, <1>1 DEF IsSum
<1>3. ASSUME NEW x \in S
      PROVE  SumFunctionOnSet(f, S \ {x}) = h[S \ {x}]
  <2> DEFINE T == S \ {x}
             g == [U \in SUBSET T |-> h[U]]
  <2>1. \A U \in SUBSET T : U \in SUBSET S /\ \A y \in U : U \ {y} \in SUBSET T
    OBVIOUS
  <2>2. IsSum(f, T, g)
    <3>1. g \in [SUBSET T -> Int]
      BY <1>1, <2>1 DEF IsSum
    <3>2. g[{}] = 0
      BY <1>1 DEF IsSum
    <3>3. ASSUME NEW U \in SUBSET T, NEW y \in U PROVE g[U] = f[y] + g[U \ {y}]
      <4>1. g[U] = h[U] /\ g[U \ {y}] = h[U \ {y}]
        BY <2>1
      <4>2. h[U] = f[y] + h[U \ {y}]
        BY <2>1, <1>1 DEF IsSum
      <4> HIDE DEF g
      <4> QED BY <4>1, <4>2
    <3> HIDE DEF g
    <3> QED BY <3>1, <3>2, <3>3 DEF IsSum
  <2>3. IsFiniteSet(T)
    BY FS_RemoveElement
  <2>4. g[T] = h[T]
    OBVIOUS
  <2> HIDE DEF g
  <2> QED BY <2>2, <2>3, <2>4, SumIs
<1> QED BY <1>1, <1>2, <1>3 DEF IsSum

\* Sums of equal numbers are equal, also when they are numbered differently.
LEMMA SumReindex ==
  ASSUME NEW S, IsFiniteSet(S), NEW T, NEW g \in Bijection(S, T),
         NEW f, NEW h, \A x \in S : f[x] \in Int /\ f[x] = h[g[x]]
  PROVE  SumFunctionOnSet(f, S) = SumFunctionOnSet(h, T)
<1> DEFINE Im(U) == {y \in T : \E x \in U : g[x] = y}
           G == {U \in SUBSET S : SumFunctionOnSet(f, U) = SumFunctionOnSet(h, Im(U))}
<1>0. /\ g \in [S -> T] 
      /\ \A x, y \in S : g[x] = g[y] => x = y
      /\ \A t \in T : \E x \in S : g[x] = t
  BY DEF Bijection, Injection, Surjection, IsInjective
<1>1. {} \in G
  <2>1. Im({}) = {}
    OBVIOUS
  <2> QED BY <2>1, SumEmpty
<1>2. ASSUME NEW U \in SUBSET S, U # {}, \A x \in U : U \ {x} \in G PROVE U \in G
  <2>1. PICK x \in U : TRUE
    BY <1>2
  <2>2. IsFiniteSet(U)
    BY FS_Subset
  <2>3. SumFunctionOnSet(f, U) = f[x] + SumFunctionOnSet(f, U \ {x})
    BY <2>2, SumRemove
  <2>4. IsFiniteSet(Im(U)) 
    <3>1. IsFiniteSet(T)
      BY FS_Bijection DEF ExistsBijection
    <3> QED BY <3>1, FS_Subset
  <2>5. \A y \in Im(U) : h[y] \in Int
    BY <1>0
  <2>6. g[x] \in Im(U)
    BY <1>0
  <2>7. SumFunctionOnSet(h, Im(U)) = h[g[x]] + SumFunctionOnSet(h, Im(U) \ {g[x]})
    <3> HIDE DEF Im
    <3> QED BY <2>4, <2>5, <2>6, SumRemove
  <2>8. Im(U) \ {g[x]} = Im(U \ {x})
    BY <1>0
  <2> HIDE DEF Im
  <2> QED BY <1>2, <2>3, <2>7, <2>8
<1>3. SUBSET S \subseteq G
  <2> HIDE DEF G
  <2>1. G \in SUBSET (SUBSET S)
    BY DEF G
  <2> QED BY <2>1, <1>1, <1>2, SubsetInduction
<1>4. Im(S) = T
  BY <1>0
<1> HIDE DEF Im
<1> QED BY <1>3, <1>4

\* What is zero may be left out.
LEMMA SumSupport ==
  ASSUME NEW S, IsFiniteSet(S), NEW T \in SUBSET S,
         NEW f, \A x \in S : f[x] \in Int, \A x \in S \ T : f[x] = 0
  PROVE  SumFunctionOnSet(f, S) = SumFunctionOnSet(f, T)
<1> DEFINE G == {U \in SUBSET S : SumFunctionOnSet(f, U) = SumFunctionOnSet(f, U \cap T)}
<1>1. {} \in G
  <2>1. {} \cap T = {}
    OBVIOUS
  <2> QED BY <2>1
<1>2. ASSUME NEW U \in SUBSET S, U # {}, \A x \in U : U \ {x} \in G PROVE U \in G
  <2>1. PICK x \in U : TRUE
    BY <1>2
  <2>2. IsFiniteSet(U) /\ IsFiniteSet(U \cap T)
    BY FS_Subset
  <2>3. SumFunctionOnSet(f, U) = f[x] + SumFunctionOnSet(f, U \ {x})
    BY <2>2, SumRemove
  <2>4. SumFunctionOnSet(f, U \ {x}) \in Int
    BY <2>2, SumRemove, FS_RemoveElement
  <2>5. CASE x \in T
    <3>1. SumFunctionOnSet(f, U \cap T) = f[x] + SumFunctionOnSet(f, (U \cap T) \ {x})
      BY <2>2, <2>5, SumRemove
    <3>2. (U \cap T) \ {x} = (U \ {x}) \cap T
      OBVIOUS
    <3> QED BY <1>2, <2>3, <3>1, <3>2
  <2>6. CASE x \notin T
    <3>1. (U \ {x}) \cap T = U \cap T
      BY <2>6
    <3> QED BY <1>2, <2>1, <2>3, <2>4, <2>6, <3>1
  <2> QED BY <2>5, <2>6
<1>3. SUBSET S \subseteq G
  <2> HIDE DEF G
  <2>1. G \in SUBSET (SUBSET S)
    BY DEF G
  <2> QED BY <2>1, <1>1, <1>2, SubsetInduction
<1>4. S \cap T = T
  OBVIOUS
<1> QED BY <1>3, <1>4

\* A sum of larger numbers is larger.
LEMMA SumMonotone ==
  ASSUME NEW S, IsFiniteSet(S), NEW f, NEW h,
         \A x \in S : f[x] \in Int /\ h[x] \in Int /\ f[x] <= h[x]
  PROVE  SumFunctionOnSet(f, S) <= SumFunctionOnSet(h, S)
<1> DEFINE G == {U \in SUBSET S : SumFunctionOnSet(f, U) <= SumFunctionOnSet(h, U)}
<1>1. {} \in G
  BY SumEmpty
<1>2. ASSUME NEW U \in SUBSET S, U # {}, \A x \in U : U \ {x} \in G PROVE U \in G
  <2>1. PICK x \in U : TRUE
    BY <1>2
  <2>2. IsFiniteSet(U) /\ IsFiniteSet(U \ {x})
    BY FS_Subset
  <2>3. SumFunctionOnSet(f, U) = f[x] + SumFunctionOnSet(f, U \ {x})
    BY <2>2, SumRemove
  <2>4. SumFunctionOnSet(h, U) = h[x] + SumFunctionOnSet(h, U \ {x})
    BY <2>2, SumRemove
  <2>5. SumFunctionOnSet(f, U \ {x}) \in Int /\ SumFunctionOnSet(h, U \ {x}) \in Int
    BY <2>2, SumRemove
  <2> QED BY <1>2, <2>1, <2>3, <2>4, <2>5
<1>3. SUBSET S \subseteq G
  <2> HIDE DEF G
  <2>1. G \in SUBSET (SUBSET S)
    BY DEF G
  <2> QED BY <2>1, <1>1, <1>2, SubsetInduction
<1> QED BY <1>3

\* A common factor.
LEMMA SumScale ==
  ASSUME NEW S, IsFiniteSet(S), NEW c \in Int, NEW f, NEW h,
         \A x \in S : f[x] \in Int /\ h[x] = c * f[x]
  PROVE  SumFunctionOnSet(h, S) = c * SumFunctionOnSet(f, S)
<1> DEFINE G == {U \in SUBSET S : SumFunctionOnSet(h, U) = c * SumFunctionOnSet(f, U)}
<1>0. \A a, b \in Int : a * b \in Int /\ c * (a + b) = c * a + c * b
  OBVIOUS
<1>1. {} \in G
  BY SumEmpty
<1>2. ASSUME NEW U \in SUBSET S, U # {}, \A x \in U : U \ {x} \in G PROVE U \in G
  <2>1. PICK x \in U : TRUE
    BY <1>2
  <2>2. IsFiniteSet(U) /\ IsFiniteSet(U \ {x})
    BY FS_Subset
  <2>3. SumFunctionOnSet(f, U) = f[x] + SumFunctionOnSet(f, U \ {x})
    BY <2>2, SumRemove
  <2>4. SumFunctionOnSet(h, U) = h[x] + SumFunctionOnSet(h, U \ {x})
    BY <2>2, SumRemove, <1>0
  <2>5. SumFunctionOnSet(f, U \ {x}) \in Int
    BY <2>2, SumRemove
  <2>6. SumFunctionOnSet(h, U \ {x}) = c * SumFunctionOnSet(f, U \ {x})
    BY <1>2, <2>1
  <2>7. h[x] = c * f[x] /\ f[x] \in Int
    OBVIOUS
  <2> QED BY <2>3, <2>4, <2>5, <2>6, <2>7, <1>0
<1>3. SUBSET S \subseteq G
  <2> HIDE DEF G
  <2>1. G \in SUBSET (SUBSET S)
    BY DEF G
  <2> QED BY <2>1, <1>1, <1>2, SubsetInduction
<1> QED BY <1>3

\* The product of f over each subset of S, whatever element is taken first.
IsProduct(f, S, h) ==
  /\ h \in [SUBSET S -> Int]
  /\ h[{}] = 1
  /\ \A T \in SUBSET S : \A x \in T : h[T] = f[x] * h[T \ {x}]

\* There is a function that multiplies f over every subset of a finite set.
LEMMA ProductExists ==
  ASSUME NEW S, IsFiniteSet(S), NEW f, \A x \in S : f[x] \in Int
  PROVE  \E h : IsProduct(f, S, h)
<1> DEFINE G == {T \in SUBSET S : \E h : IsProduct(f, T, h)}
<1>1. {} \in G
  <2>1. IsProduct(f, {}, [T \in SUBSET {} |-> 1])
    BY DEF IsProduct
  <2> QED BY <2>1
<1>2. ASSUME NEW T \in SUBSET S, T # {}, \A x \in T : T \ {x} \in G PROVE T \in G
  <2>0. PICK a \in T : TRUE
    BY <1>2
  <2>1. PICK h : IsProduct(f, T \ {a}, h)
    BY <1>2
  <2> DEFINE g == [U \in SUBSET T |-> IF a \in U THEN f[a] * h[U \ {a}] ELSE h[U]]
  <2>2. \A U \in SUBSET T : /\ U \ {a} \in SUBSET (T \ {a})
                            /\ a \notin U => U \in SUBSET (T \ {a})
    OBVIOUS
  <2>3. g \in [SUBSET T -> Int]
    BY <2>1, <2>2 DEF IsProduct
  <2>4. g[{}] = 1
    BY <2>1 DEF IsProduct
  <2>5. ASSUME NEW U \in SUBSET T, NEW x \in U PROVE g[U] = f[x] * g[U \ {x}]
    <3>1. CASE x = a
      <4>1. g[U \ {a}] = h[U \ {a}]
        OBVIOUS
      <4> QED BY <4>1, <3>1
    <3>2. CASE x # a /\ a \in U
      <4>1. h[U \ {a}] = f[x] * h[(U \ {a}) \ {x}]
        BY <2>1, <2>2, <3>2 DEF IsProduct
      <4>2. g[U \ {x}] = f[a] * h[(U \ {x}) \ {a}]
        BY <3>2
      <4>3. (U \ {x}) \ {a} = (U \ {a}) \ {x}
        OBVIOUS
      <4>4. h[(U \ {a}) \ {x}] \in Int /\ f[a] \in Int /\ f[x] \in Int
        BY <2>1, <2>2 DEF IsProduct
      <4>5. g[U] = f[a] * h[U \ {a}]
        BY <3>2
      <4> HIDE DEF g
      <4>6. g[U \ {x}] = f[a] * h[(U \ {a}) \ {x}]
        BY <4>2, <4>3
      <4> QED BY <4>1, <4>6, <4>4, <4>5
    <3>3. CASE x # a /\ a \notin U
      <4>1. h[U] = f[x] * h[U \ {x}]
        <5>1. U \in SUBSET (T \ {a}) /\ U \in SUBSET T
          BY <3>3
        <5> QED BY <5>1, <2>1 DEF IsProduct
      <4>2. g[U] = h[U] /\ g[U \ {x}] = h[U \ {x}]
        BY <3>3
      <4> HIDE DEF g
      <4> QED BY <4>1, <4>2
    <3> QED BY <3>1, <3>2, <3>3
  <2>6. IsProduct(f, T, g)
    <3> HIDE DEF g
    <3> QED BY <2>3, <2>4, <2>5 DEF IsProduct
  <2> QED BY <2>6
<1> HIDE DEF G
<1>3. SUBSET S \subseteq G
  <2>1. G \in SUBSET (SUBSET S)
    BY DEF G
  <2> QED BY <2>1, <1>1, <1>2, SubsetInduction
<1> QED BY <1>3 DEF G

\* ProductOn is that product.
LEMMA ProductIs ==
  ASSUME NEW S, IsFiniteSet(S), NEW f, NEW h, IsProduct(f, S, h)
  PROVE  ProductOn(f, S) = h[S]
<1> DEFINE Next1(iter) ==
      [s \in SUBSET S |-> IF s = {} THEN 1
                          ELSE LET x == CHOOSE y \in s : TRUE IN f[x] * iter[s \ {x}]]
           iter == CHOOSE iter : iter = Next1(iter)
           G == {T \in SUBSET S : iter[T] = h[T]}
<1>1. h = Next1(h)
  <2>1. h \in [SUBSET S -> Int]
    BY DEF IsProduct
  <2>2. ASSUME NEW s \in SUBSET S
        PROVE  h[s] = IF s = {} THEN 1
                          ELSE LET x == CHOOSE y \in s : TRUE IN f[x] * h[s \ {x}]
    <3>1. CASE s = {}
      BY <3>1 DEF IsProduct
    <3>2. CASE s # {}
      <4>1. (CHOOSE y \in s : TRUE) \in s
        BY <3>2
      <4> QED BY <3>2, <4>1 DEF IsProduct
    <3> QED BY <3>1, <3>2
  <2> QED BY <2>1, <2>2
<1>2. iter = Next1(iter)
  BY <1>1
<1>3. ProductOn(f, S) = iter[S]
  BY DEF ProductOn, FoldFunctionOnSet, MapThenFoldSet
<1>4. \A T \in SUBSET S : iter[T] = IF T = {} THEN 1
                          ELSE LET x == CHOOSE y \in T : TRUE IN f[x] * iter[T \ {x}]
  <2> HIDE DEF iter
  <2> QED BY <1>2
<1> HIDE DEF iter
<1>5. {} \in G
  BY <1>4 DEF IsProduct
<1>6. ASSUME NEW T \in SUBSET S, \A x \in T : T \ {x} \in G PROVE T \in G
  <2>1. CASE T = {}
    BY <2>1, <1>5
  <2>2. CASE T # {}
    <3> DEFINE x == CHOOSE y \in T : TRUE
    <3>1. x \in T
      BY <2>2
    <3>2. iter[T] = f[x] * iter[T \ {x}]
      BY <1>4, <2>2
    <3> HIDE DEF x
    <3>3. iter[T \ {x}] = h[T \ {x}]
      BY <1>6, <3>1
    <3>4. h[T] = f[x] * h[T \ {x}]
      BY <3>1 DEF IsProduct
    <3> QED BY <3>2, <3>3, <3>4
  <2> QED BY <2>1, <2>2
<1>7. SUBSET S \subseteq G
  <2> HIDE DEF G
  <2>1. G \in SUBSET (SUBSET S)
    BY DEF G
  <2> QED BY <2>1, <1>5, <1>6, SubsetInduction
<1> QED BY <1>3, <1>7

\* The product of nothing is 1.
LEMMA ProductEmpty ==
  ASSUME NEW f
  PROVE  ProductOn(f, {}) = 1
<1>1. IsFiniteSet({})
  BY FS_EmptySet
<1>2. PICK h : IsProduct(f, {}, h)
  BY ProductExists, <1>1
<1>3. ProductOn(f, {}) = h[{}]
  BY <1>1, <1>2, ProductIs
<1> QED BY <1>2, <1>3 DEF IsProduct

\* A product of numbers is any one of them times the product of the others.
LEMMA ProductRemove ==
  ASSUME NEW S, IsFiniteSet(S), NEW f, \A x \in S : f[x] \in Int
  PROVE  /\ ProductOn(f, S) \in Int
         /\ \A x \in S : ProductOn(f, S) = f[x] * ProductOn(f, S \ {x})
<1>1. PICK h : IsProduct(f, S, h)
  BY ProductExists
<1>2. ProductOn(f, S) = h[S] /\ h[S] \in Int
  <2>1. ProductOn(f, S) = h[S]
    BY <1>1, ProductIs
  <2> QED BY <2>1, <1>1 DEF IsProduct
<1>3. ASSUME NEW x \in S
      PROVE  ProductOn(f, S \ {x}) = h[S \ {x}]
  <2> DEFINE T == S \ {x}
             g == [U \in SUBSET T |-> h[U]]
  <2>1. \A U \in SUBSET T : U \in SUBSET S /\ \A y \in U : U \ {y} \in SUBSET T
    OBVIOUS
  <2>2. IsProduct(f, T, g)
    <3>1. g \in [SUBSET T -> Int]
      BY <1>1, <2>1 DEF IsProduct
    <3>2. g[{}] = 1
      BY <1>1 DEF IsProduct
    <3>3. ASSUME NEW U \in SUBSET T, NEW y \in U PROVE g[U] = f[y] * g[U \ {y}]
      <4>1. g[U] = h[U] /\ g[U \ {y}] = h[U \ {y}]
        BY <2>1
      <4>2. h[U] = f[y] * h[U \ {y}]
        BY <2>1, <1>1 DEF IsProduct
      <4> HIDE DEF g
      <4> QED BY <4>1, <4>2
    <3> HIDE DEF g
    <3> QED BY <3>1, <3>2, <3>3 DEF IsProduct
  <2>3. IsFiniteSet(T)
    BY FS_RemoveElement
  <2>4. g[T] = h[T]
    OBVIOUS
  <2> HIDE DEF g
  <2> QED BY <2>2, <2>3, <2>4, ProductIs
<1> QED BY <1>1, <1>2, <1>3 DEF IsProduct

\* Products of equal numbers are equal, also when they are numbered differently.
LEMMA ProductReindex ==
  ASSUME NEW S, IsFiniteSet(S), NEW T, NEW g \in Bijection(S, T),
         NEW f, NEW h, \A x \in S : f[x] \in Int /\ f[x] = h[g[x]]
  PROVE  ProductOn(f, S) = ProductOn(h, T)
<1> DEFINE Im(U) == {y \in T : \E x \in U : g[x] = y}
           G == {U \in SUBSET S : ProductOn(f, U) = ProductOn(h, Im(U))}
<1>0. /\ g \in [S -> T] 
      /\ \A x, y \in S : g[x] = g[y] => x = y
      /\ \A t \in T : \E x \in S : g[x] = t
  BY DEF Bijection, Injection, Surjection, IsInjective
<1>1. {} \in G
  <2>1. Im({}) = {}
    OBVIOUS
  <2> QED BY <2>1, ProductEmpty
<1>2. ASSUME NEW U \in SUBSET S, U # {}, \A x \in U : U \ {x} \in G PROVE U \in G
  <2>1. PICK x \in U : TRUE
    BY <1>2
  <2>2. IsFiniteSet(U)
    BY FS_Subset
  <2>3. ProductOn(f, U) = f[x] * ProductOn(f, U \ {x})
    BY <2>2, ProductRemove
  <2>4. IsFiniteSet(Im(U)) 
    <3>1. IsFiniteSet(T)
      BY FS_Bijection DEF ExistsBijection
    <3> QED BY <3>1, FS_Subset
  <2>5. \A y \in Im(U) : h[y] \in Int
    BY <1>0
  <2>6. g[x] \in Im(U)
    BY <1>0
  <2>7. ProductOn(h, Im(U)) = h[g[x]] * ProductOn(h, Im(U) \ {g[x]})
    <3> HIDE DEF Im
    <3> QED BY <2>4, <2>5, <2>6, ProductRemove
  <2>8. Im(U) \ {g[x]} = Im(U \ {x})
    BY <1>0
  <2> HIDE DEF Im
  <2> QED BY <1>2, <2>3, <2>7, <2>8
<1>3. SUBSET S \subseteq G
  <2> HIDE DEF G
  <2>1. G \in SUBSET (SUBSET S)
    BY DEF G
  <2> QED BY <2>1, <1>1, <1>2, SubsetInduction
<1>4. Im(S) = T
  BY <1>0
<1> HIDE DEF Im
<1> QED BY <1>3, <1>4

\* A product of numbers is a number, 0 exactly if one of them is.
LEMMA ProductNat ==
  ASSUME NEW S, IsFiniteSet(S), NEW f, \A x \in S : f[x] \in Nat
  PROVE  /\ ProductOn(f, S) \in Nat
         /\ ProductOn(f, S) = 0 <=> \E x \in S : f[x] = 0
<1> DEFINE G == {U \in SUBSET S : /\ ProductOn(f, U) \in Nat
                                  /\ ProductOn(f, U) = 0 <=> \E x \in U : f[x] = 0}
<1>1. {} \in G
  BY ProductEmpty
<1>2. ASSUME NEW U \in SUBSET S, U # {}, \A x \in U : U \ {x} \in G PROVE U \in G
  <2>1. PICK x \in U : TRUE
    BY <1>2
  <2>2. IsFiniteSet(U)
    BY FS_Subset
  <2>3. ProductOn(f, U) = f[x] * ProductOn(f, U \ {x})
    BY <2>2, ProductRemove
  <2>4. /\ ProductOn(f, U \ {x}) \in Nat
        /\ ProductOn(f, U \ {x}) = 0 <=> \E y \in U \ {x} : f[y] = 0
    BY <1>2, <2>1
  <2>5. \A a, b \in Nat : a * b \in Nat /\ (a * b = 0 <=> a = 0 \/ b = 0)
    OBVIOUS
  <2>6. f[x] \in Nat
    OBVIOUS
  <2> QED BY <2>3, <2>4, <2>5, <2>6
<1>3. SUBSET S \subseteq G
  <2> HIDE DEF G
  <2>1. G \in SUBSET (SUBSET S)
    BY DEF G
  <2> QED BY <2>1, <1>1, <1>2, SubsetInduction
<1> QED BY <1>3

-------------------------------------------------------------------------------
(* Indices and their positions                                              *)

\* A finite set of integers has its Max.
LEMMA MaxIs ==
  ASSUME NEW S \in SUBSET Int, IsFiniteSet(S), S # {}
  PROVE  Max(S) \in S /\ \A y \in S : Max(S) >= y
<1> DEFINE G == {U \in SUBSET S : U # {} => \E m \in U : \A y \in U : m >= y}
<1>1. {} \in G
  OBVIOUS
<1>2. ASSUME NEW U \in SUBSET S, U # {}, \A x \in U : U \ {x} \in G PROVE U \in G
  <2>1. PICK x \in U : TRUE
    BY <1>2
  <2>2. CASE U \ {x} = {}
    <3>1. \A y \in U : x >= y
      BY <2>2
    <3> QED BY <3>1
  <2>3. CASE U \ {x} # {}
    <3>1. PICK m \in U \ {x} : \A y \in U \ {x} : m >= y
      BY <1>2, <2>3
    <3>2. CASE m >= x
      BY <3>1, <3>2
    <3>3. CASE x >= m
      <4>1. \A y \in U : x >= y
        BY <3>1, <3>3
      <4> QED BY <4>1
    <3> QED BY <3>2, <3>3
  <2> QED BY <2>2, <2>3
<1>3. SUBSET S \subseteq G
  <2> HIDE DEF G
  <2>1. G \in SUBSET (SUBSET S)
    BY DEF G
  <2> QED BY <2>1, <1>1, <1>2, SubsetInduction
<1> QED BY <1>3 DEF Max

\* An index of a shape has a number for each axis, less than its length.
LEMMA IndicesAre ==
  ASSUME NEW shape \in Seq(Nat)
  PROVE  \A x : x \in Indices(shape) <=>
                  /\ x \in [1..Len(shape) -> Nat]
                  /\ \A i \in 1..Len(shape) : x[i] < shape[i]
<1> DEFINE R == {0} \cup ToSet(shape)
           bound == Max(R)
<1>1. R \in SUBSET Int /\ R # {}
  BY DEF ToSet
<1>2. IsFiniteSet(R)
  <2>1. IsFiniteSet(ToSet(shape))
    <3>1. IsFiniteSet(DOMAIN shape)
      BY FS_Interval
    <3>2. shape \in Surjection(DOMAIN shape, ToSet(shape))
      BY DEF Surjection, ToSet
    <3> QED BY <3>1, <3>2, FS_Surjection
  <2> QED BY <2>1, FS_Union, FS_Singleton
<1>3. bound \in Nat /\ \A i \in 1..Len(shape) : shape[i] <= bound
  <2>1. bound \in R /\ \A y \in R : bound >= y
    <3> HIDE DEF R
    <3> QED BY <1>1, <1>2, MaxIs
  <2>2. \A i \in 1..Len(shape) : shape[i] \in R /\ shape[i] \in Nat
    BY DEF ToSet
  <2>3. bound \in Nat
    BY <2>1 DEF ToSet
  <2> HIDE DEF bound, R
  <2> QED BY <2>1, <2>2, <2>3
<1> HIDE DEF bound
<1>4. Indices(shape) = {x \in [1..Len(shape) -> 0..(bound - 1)] :
                          \A i \in 1..Len(shape) : x[i] < shape[i]}
  BY DEF Indices, bound
<1>5. ASSUME NEW x \in [1..Len(shape) -> Nat], \A i \in 1..Len(shape) : x[i] < shape[i]
      PROVE  x \in [1..Len(shape) -> 0..(bound - 1)]
  <2>1. \A i \in 1..Len(shape) : x[i] \in 0..(bound - 1)
    <3> TAKE i \in 1..Len(shape)
    <3>1. shape[i] \in Nat /\ shape[i] <= bound /\ x[i] \in Nat /\ x[i] < shape[i]
      BY <1>3, <1>5
    <3> QED BY <3>1, <1>3
  <2> QED BY <2>1
<1>6. \A x : x \in [1..Len(shape) -> 0..(bound - 1)] => x \in [1..Len(shape) -> Nat]
  OBVIOUS
<1> QED BY <1>4, <1>5, <1>6

\* Induction from the last axis to the first.
LEMMA DownInduction ==
  ASSUME NEW n \in Nat, NEW G, n \in G, \A k \in 1..n : k \in G => k - 1 \in G
  PROVE  \A k \in 0..n : k \in G
<1> DEFINE H == {m \in Nat : m <= n => n - m \in G}
<1>1. 0 \in H
  OBVIOUS
<1>2. ASSUME NEW m \in H PROVE m + 1 \in H
  <2> SUFFICES ASSUME m + 1 <= n PROVE n - (m + 1) \in G
    OBVIOUS
  <2>1. n - m \in G /\ n - m \in 1..n
    OBVIOUS
  <2>2. (n - m) - 1 \in G
    BY <2>1
  <2>3. (n - m) - 1 = n - (m + 1)
    OBVIOUS
  <2> QED BY <2>2, <2>3
<1> HIDE DEF H
<1>3. Nat \subseteq H
  <2>1. H \in SUBSET Nat
    BY DEF H
  <2> QED BY <2>1, <1>1, <1>2, Induction
<1> SUFFICES ASSUME NEW k \in 0..n PROVE k \in G
  OBVIOUS
<1>4. n - k \in Nat /\ n - k <= n /\ n - (n - k) = k
  OBVIOUS
<1>5. n - k \in H
  BY <1>3, <1>4
<1> QED BY <1>4, <1>5 DEF H

\* Mixed-radix numbers: what one step along an axis weighs, and what the axes
\* behind axis k make of an index.
Weight(shape, k) == ProductOn(shape, (k + 1)..Len(shape))
Rest(x, shape, k) ==
  SumFunctionOnSet([i \in 1..Len(shape) |-> x[i] * Weight(shape, i)], (k + 1)..Len(shape))
Flat(x, shape) == Rest(x, shape, 0)

\* A step along an axis weighs what all of the next axis does.
LEMMA WeightStep ==
  ASSUME NEW shape \in Seq(Nat)
  PROVE  /\ Weight(shape, Len(shape)) = 1
         /\ \A k \in 0..Len(shape) : Weight(shape, k) \in Nat
         /\ \A k \in 1..Len(shape) :
              Weight(shape, k - 1) = shape[k] * Weight(shape, k)
         /\ Weight(shape, 0) = Product(shape)
<1> DEFINE n == Len(shape)
<1>0. n \in Nat /\ DOMAIN shape = 1..n /\ \A i \in 1..n : shape[i] \in Nat
  OBVIOUS
<1> HIDE DEF n
<1>1. ProductOn(shape, (n + 1)..n) = 1
  <2>1. (n + 1)..n = {}
    BY <1>0
  <2> QED BY <2>1, ProductEmpty
<1>2. \A k \in 0..n : ProductOn(shape, (k + 1)..n) \in Nat
  <2> TAKE k \in 0..n
  <2>1. IsFiniteSet((k + 1)..n)
    BY <1>0, FS_Interval
  <2>2. \A i \in (k + 1)..n : shape[i] \in Nat
    BY <1>0
  <2> QED BY <2>1, <2>2, ProductNat
<1>3. ASSUME NEW k \in 1..n
      PROVE  ProductOn(shape, ((k - 1) + 1)..n) = shape[k] * ProductOn(shape, (k + 1)..n)
  <2>1. IsFiniteSet(k..n)
    BY <1>0, FS_Interval
  <2>2. \A i \in k..n : shape[i] \in Int
    BY <1>0
  <2>3. k \in k..n /\ (k..n) \ {k} = (k + 1)..n /\ (k - 1) + 1 = k
    BY <1>0
  <2>4. ProductOn(shape, k..n) = shape[k] * ProductOn(shape, (k..n) \ {k})
    BY <2>1, <2>2, <2>3, ProductRemove
  <2> QED BY <2>3, <2>4
<1>4. ProductOn(shape, (0 + 1)..n) = Product(shape)
  BY <1>0 DEF Product
<1> QED BY <1>1, <1>2, <1>3, <1>4 DEF Weight, n

\* What an index makes behind axis k - 1 is its part of axis k and what is behind.
LEMMA RestStep ==
  ASSUME NEW shape \in Seq(Nat), NEW x \in [1..Len(shape) -> Nat]
  PROVE  /\ Rest(x, shape, Len(shape)) = 0
         /\ \A k \in 0..Len(shape) : Rest(x, shape, k) \in Int
         /\ \A k \in 1..Len(shape) :
              Rest(x, shape, k - 1) = x[k] * Weight(shape, k) + Rest(x, shape, k)
<1> DEFINE n == Len(shape)
           f == [i \in 1..n |-> x[i] * Weight(shape, i)]
<1>0. n \in Nat /\ \A i \in 1..n : f[i] = x[i] * Weight(shape, i) /\ f[i] \in Int
  <2>1. n \in Nat
    OBVIOUS
  <2>2. \A i \in 1..n : x[i] \in Nat /\ Weight(shape, i) \in Nat
    BY <2>1, WeightStep
  <2>3. \A a, b \in Nat : a * b \in Int
    OBVIOUS
  <2> QED BY <2>1, <2>2, <2>3
<1>1. \A k : Rest(x, shape, k) = SumFunctionOnSet(f, (k + 1)..n)
  BY DEF Rest
<1> HIDE DEF f, n
<1>2. SumFunctionOnSet(f, (n + 1)..n) = 0
  <2>1. (n + 1)..n = {}
    BY <1>0
  <2> QED BY <2>1, SumEmpty
<1>3. \A k \in 0..n : SumFunctionOnSet(f, (k + 1)..n) \in Int
  <2> TAKE k \in 0..n
  <2>1. IsFiniteSet((k + 1)..n)
    BY <1>0, FS_Interval
  <2>2. \A i \in (k + 1)..n : f[i] \in Int
    BY <1>0
  <2> QED BY <2>1, <2>2, SumRemove
<1>4. ASSUME NEW k \in 1..n
      PROVE  SumFunctionOnSet(f, ((k - 1) + 1)..n) = f[k] + SumFunctionOnSet(f, (k + 1)..n)
  <2>1. IsFiniteSet(k..n)
    BY <1>0, FS_Interval
  <2>2. \A i \in k..n : f[i] \in Int
    BY <1>0
  <2>3. k \in k..n /\ (k..n) \ {k} = (k + 1)..n /\ (k - 1) + 1 = k
    BY <1>0
  <2>4. SumFunctionOnSet(f, k..n) = f[k] + SumFunctionOnSet(f, (k..n) \ {k})
    BY <2>1, <2>2, <2>3, SumRemove
  <2> QED BY <2>3, <2>4
<1> QED BY <1>0, <1>1, <1>2, <1>3, <1>4 DEF n

\* Multiples of w in order.
LEMMA Multiples ==
  \A a, s, w \in Nat : a < s => a * w + w <= s * w /\ a * w >= 0 /\ a * w \in Nat /\ s * w \in Nat
<1> SUFFICES ASSUME NEW a \in Nat, NEW s \in Nat, NEW w \in Nat, a < s
             PROVE  a * w + w <= s * w /\ a * w >= 0 /\ a * w \in Nat /\ s * w \in Nat
  OBVIOUS
<1>1. PICK d \in Nat : s = a + 1 + d
  <2>1. s - a - 1 \in Nat /\ s = a + 1 + (s - a - 1)
    OBVIOUS
  <2> QED BY <2>1
<1>2. a * w \in Nat /\ d * w \in Nat
  OBVIOUS
<1>3. w * (a + 1 + d) = w * a + w + w * d
  OBVIOUS
<1>4. a * w = w * a /\ s * w = w * s /\ d * w = w * d
  OBVIOUS
<1>5. s * w = a * w + w + d * w
  BY <1>1, <1>3, <1>4
<1> QED BY <1>2, <1>5

\* What lies behind an axis is less than one step along it.
LEMMA RestBelow ==
  ASSUME NEW shape \in Seq(Nat), NEW x \in Indices(shape)
  PROVE  \A k \in 0..Len(shape) : Rest(x, shape, k) \in Nat /\ Rest(x, shape, k) < Weight(shape, k)
<1> DEFINE n == Len(shape)
           R(k) == Rest(x, shape, k)
           W(k) == Weight(shape, k)
           G == {k \in 0..n : 0 <= R(k) /\ R(k) < W(k)}
<1>0. n \in Nat /\ \A k \in 1..n : x[k] \in Nat /\ shape[k] \in Nat /\ x[k] < shape[k]
  BY IndicesAre
<1>x. x \in [1..Len(shape) -> Nat]
  BY IndicesAre
<1>1. /\ W(n) = 1
      /\ \A k \in 0..n : W(k) \in Nat
      /\ \A k \in 1..n : W(k - 1) = shape[k] * W(k)
  BY WeightStep
<1>2. /\ R(n) = 0
      /\ \A k \in 0..n : R(k) \in Int
      /\ \A k \in 1..n : R(k - 1) = x[k] * W(k) + R(k)
  BY RestStep, <1>x
<1> HIDE DEF R, W, n
<1>3. n \in G
  BY <1>0, <1>1, <1>2
<1>4. ASSUME NEW k \in 1..n, k \in G PROVE k - 1 \in G
  <2>1. /\ R(k) \in Int /\ W(k) \in Nat /\ x[k] \in Nat /\ shape[k] \in Nat /\ x[k] < shape[k]
        /\ 0 <= R(k) /\ R(k) < W(k) /\ k - 1 \in 0..n
    BY <1>0, <1>1, <1>2, <1>4
  <2>2. \A a, s, w \in Nat : a < s => a * w + w <= s * w /\ a * w >= 0 /\ a * w \in Nat /\ s * w \in Nat
    BY Multiples
  <2>3. x[k] * W(k) + W(k) <= shape[k] * W(k) /\ x[k] * W(k) >= 0 /\ x[k] * W(k) \in Nat
        /\ shape[k] * W(k) \in Nat
    BY <2>1, <2>2
  <2>4. R(k - 1) = x[k] * W(k) + R(k) /\ W(k - 1) = shape[k] * W(k)
    BY <1>1, <1>2
  <2>5. \A p, q \in Nat, r, w \in Int :
          p + w <= q /\ 0 <= r /\ r < w => 0 <= p + r /\ p + r < q
    OBVIOUS
  <2> DEFINE p == x[k] * W(k)
             q == shape[k] * W(k)
  <2>6. 0 <= p + R(k) /\ p + R(k) < q
    <3>1. p \in Nat /\ q \in Nat /\ p + W(k) <= q /\ R(k) \in Int /\ W(k) \in Int
      BY <2>1, <2>3
    <3> HIDE DEF p, q
    <3> QED BY <2>1, <3>1, <2>5
  <2>7. 0 <= R(k - 1) /\ R(k - 1) < W(k - 1)
    BY <2>4, <2>6
  <2> QED BY <2>1, <2>7
<1> HIDE DEF G
<1>5. \A k \in 0..n : k \in G
  BY <1>0, <1>3, <1>4, DownInduction
<1> QED BY <1>2, <1>5 DEF G, R, W, n

\* The number an index stands for is less than the size.
LEMMA FlatRange ==
  ASSUME NEW shape \in Seq(Nat), NEW x \in Indices(shape)
  PROVE  Flat(x, shape) \in Nat /\ Flat(x, shape) < Product(shape)
<1>1. 0 \in 0..Len(shape)
  OBVIOUS
<1> QED BY <1>1, RestBelow, WeightStep DEF Flat

\* It grows with the order of indices.
LEMMA FlatMonotone ==
  ASSUME NEW shape \in Seq(Nat), NEW x \in Indices(shape), NEW y \in Indices(shape), Before(x, y)
  PROVE  Flat(x, shape) < Flat(y, shape)
<1> DEFINE n == Len(shape)
           R(k) == Rest(x, shape, k)
           Q(k) == Rest(y, shape, k)
           W(k) == Weight(shape, k)
<1>0. /\ n \in Nat
      /\ x \in [1..n -> Nat] /\ y \in [1..n -> Nat]
  BY IndicesAre
<1>1. PICK i \in 1..n : x[i] < y[i] /\ \A j \in 1..(i - 1) : x[j] = y[j]
  BY <1>0 DEF Before
<1>2. /\ \A k \in 0..n : W(k) \in Nat
      /\ \A k \in 0..n : R(k) \in Nat /\ R(k) < W(k)
      /\ \A k \in 0..n : Q(k) \in Nat /\ Q(k) < W(k)
  BY WeightStep, RestBelow
<1>3. \A k \in 1..n : R(k - 1) = x[k] * W(k) + R(k) /\ Q(k - 1) = y[k] * W(k) + Q(k)
  BY RestStep, <1>0
<1> DEFINE G == {k \in 0..(i - 1) : R(k) < Q(k)}
<1> HIDE DEF R, Q, W, n
<1>4. i - 1 \in G
  <2>1. /\ x[i] \in Nat /\ y[i] \in Nat /\ x[i] < y[i] /\ W(i) \in Nat
        /\ R(i) \in Nat /\ R(i) < W(i) /\ Q(i) \in Nat
    BY <1>0, <1>1, <1>2
  <2>2. /\ x[i] * W(i) + W(i) <= y[i] * W(i)
        /\ x[i] * W(i) \in Nat /\ y[i] * W(i) \in Nat
    BY <2>1, Multiples
  <2>3. x[i] * W(i) + R(i) < y[i] * W(i) + Q(i)
    <3> DEFINE p == x[i] * W(i)
               q == y[i] * W(i)
    <3>1. p \in Nat /\ q \in Nat /\ p + W(i) <= q
      BY <2>2
    <3> HIDE DEF p, q
    <3>2. p + R(i) < q + Q(i)
      BY <2>1, <3>1
    <3> QED BY <3>2 DEF p, q
  <2>4. R(i - 1) < Q(i - 1)
    BY <2>3, <1>1, <1>3
  <2> QED BY <2>4, <1>0, <1>1
<1>5. ASSUME NEW k \in 1..(i - 1), k \in G PROVE k - 1 \in G
  <2>1. k \in 1..n /\ x[k] = y[k] /\ R(k) < Q(k) /\ R(k) \in Nat /\ Q(k) \in Nat
    BY <1>0, <1>1, <1>2, <1>5
  <2>2. x[k] * W(k) \in Nat
    BY <1>0, <1>2, <2>1
  <2>3. R(k - 1) = x[k] * W(k) + R(k) /\ Q(k - 1) = x[k] * W(k) + Q(k)
    BY <1>3, <2>1
  <2>4. R(k - 1) < Q(k - 1)
    <3> DEFINE p == x[k] * W(k)
    <3>1. R(k - 1) = p + R(k) /\ Q(k - 1) = p + Q(k) /\ p \in Nat
      BY <2>2, <2>3
    <3> HIDE DEF p
    <3> QED BY <2>1, <3>1
  <2> QED BY <2>4, <1>0, <1>1
<1> HIDE DEF G
<1>6. \A k \in 0..(i - 1) : k \in G
  <2>1. i - 1 \in Nat
    BY <1>0, <1>1
  <2> QED BY <2>1, <1>4, <1>5, DownInduction
<1>7. 0 \in G
  BY <1>0, <1>1, <1>6
<1> QED BY <1>7 DEF G, R, Q, Flat

\* Of two indices one is before the other.
LEMMA BeforeTotal ==
  ASSUME NEW shape \in Seq(Nat), NEW x \in Indices(shape), NEW y \in Indices(shape), x # y
  PROVE  Before(x, y) \/ Before(y, x)
<1> DEFINE n == Len(shape)
           D == {i \in 1..n : x[i] # y[i]}
<1>0. /\ n \in Nat
      /\ x \in [1..n -> Nat] /\ y \in [1..n -> Nat]
  BY IndicesAre
<1> HIDE DEF n
<1>1. D \in SUBSET Nat /\ D # {}
  <2>1. D \in SUBSET Nat
    BY <1>0
  <2>2. ASSUME D = {} PROVE FALSE
    <3>1. \A i \in 1..n : x[i] = y[i]
      BY <2>2
    <3>2. x = y
      BY <3>1, <1>0
    <3> QED BY <3>2
  <2> QED BY <2>1, <2>2
<1>2. PICK i \in D : \A k \in D : i <= k
  BY <1>1, Least
<1>3. i \in 1..n /\ x[i] # y[i] /\ \A j \in 1..(i - 1) : x[j] = y[j]
  BY <1>0, <1>2
<1>4. x[i] < y[i] \/ y[i] < x[i]
  BY <1>0, <1>3
<1> QED BY <1>0, <1>3, <1>4 DEF Before

\* What \div and % return.
LEMMA DivMod ==
  ASSUME NEW a \in Nat, NEW b \in Nat, b > 0,
         NEW q, q = a \div b, NEW r, r = a % b
  PROVE  q \in Nat /\ r \in Nat /\ r < b /\ b * q + r = a
<1>1. b * q + r = a
  OBVIOUS
<1>2. q \in Nat
  OBVIOUS
<1>3. r \in Nat /\ r < b
  OBVIOUS
<1> QED BY <1>1, <1>2, <1>3

\* Quotient and remainder are determined.
LEMMA DivUnique ==
  ASSUME NEW b \in Nat, NEW q \in Nat, NEW r \in Nat, r < b
  PROVE  /\ (b * q + r) \div b = q
         /\ (b * q + r) % b = r
<1>1. (b * q + r) \div b = q
  OBVIOUS
<1>2. (b * q + r) % b = r
  OBVIOUS
<1> QED BY <1>1, <1>2

\* A number's digit: its remainder by s * w in terms of that by w.
LEMMA Radix ==
  \A v, s, w \in Nat : s > 0 /\ w > 0 =>
    LET digit == (v \div w) % s
    IN  digit \in Nat /\ digit < s /\ v % (s * w) = digit * w + (v % w)
<1> SUFFICES ASSUME NEW v \in Nat, NEW s \in Nat, NEW w \in Nat, s > 0, w > 0
             PROVE  LET digit == (v \div w) % s
                    IN  digit \in Nat /\ digit < s /\ v % (s * w) = digit * w + (v % w)
  OBVIOUS
<1> DEFINE q == v \div w
           q2 == q \div s
           r == v % w
           r2 == q % s
<1>1. q \in Nat /\ r \in Nat /\ r < w /\ w * q + r = v
  BY DivMod
<1> HIDE DEF q, r
<1>2. q2 \in Nat /\ r2 \in Nat /\ r2 < s /\ s * q2 + r2 = q
  BY <1>1, DivMod
<1> HIDE DEF q2, r2
<1>3. s * w \in Nat /\ r2 * w \in Nat /\ r2 * w + w <= s * w
  BY <1>2, Multiples
<1>4. v = (s * w) * q2 + (r2 * w + r)
  <2>1. v = w * (s * q2 + r2) + r
    BY <1>1, <1>2
  <2>2. s * q2 \in Nat
    BY <1>2
  <2>3. \A p \in Nat : w * (p + r2) = w * p + w * r2
    BY <1>2
  <2>4. w * (s * q2) = (s * w) * q2 /\ w * r2 = r2 * w
    BY <1>2
  <2>5. (s * w) * q2 \in Nat
    BY <1>2, <1>3
  <2> QED BY <2>1, <2>2, <2>3, <2>4, <2>5, <1>1, <1>2, <1>3
<1>5. v % (s * w) = r2 * w + r
  <2> DEFINE b == s * w
             c == r2 * w + r
  <2>1. b \in Nat /\ c \in Nat /\ c < b /\ v = b * q2 + c
    BY <1>1, <1>3, <1>4
  <2> HIDE DEF b, c
  <2>2. v % b = c
    <3>1. (b * q2 + c) % b = c
      BY <1>2, <2>1, DivUnique
    <3> QED BY <2>1, <3>1
  <2> QED BY <2>2 DEF b, c
<1>6. v % (s * w) = r2 * w + (v % w)
  BY <1>5 DEF r
<1>7. r2 = (v \div w) % s
  BY DEF q, r2
<1> QED BY <1>2, <1>6, <1>7

\* Every number below the size is that of an index, the one unravel_index makes.
LEMMA UnravelIs ==
  ASSUME NEW shape \in Seq(Nat), NEW v \in Nat, v < Product(shape)
  PROVE  Unravel(v, shape) \in Indices(shape) /\ Flat(Unravel(v, shape), shape) = v
<1> DEFINE n == Len(shape)
           W(k) == Weight(shape, k)
           d == [k \in 1..n |-> (v \div W(k)) % shape[k]]
           M(k) == v % W(k)
           G == {k \in 0..n : Rest(d, shape, k) = M(k)}
<1>0. n \in Nat /\ DOMAIN shape = 1..n /\ \A k \in 1..n : shape[k] \in Nat
  OBVIOUS
<1>d. Unravel(v, shape) = d
  BY <1>0 DEF Unravel, Weight
<1>1. /\ W(n) = 1
      /\ \A k \in 0..n : W(k) \in Nat
      /\ \A k \in 1..n : W(k - 1) = shape[k] * W(k)
      /\ W(0) = Product(shape)
  BY WeightStep
<1>2. /\ \A k \in 0..n : W(k) > 0
      /\ \A k \in 1..n : shape[k] > 0
  <2>1. Product(shape) # 0
    <3> Product(shape) \in Nat
      BY <1>0, <1>1
    <3> QED OBVIOUS
  <2>2. IsFiniteSet(1..n)
    BY <1>0, FS_Interval
  <2>3. ~ \E k \in 1..n : shape[k] = 0
    <3> HIDE DEF n
    <3> QED BY <1>0, <2>1, <2>2, ProductNat DEF Product
  <2>4. ASSUME NEW k \in 0..n PROVE W(k) # 0
    <3>1. IsFiniteSet((k + 1)..n)
      BY <1>0, FS_Interval
    <3>2. \A i \in (k + 1)..n : shape[i] \in Nat /\ shape[i] # 0
      BY <1>0, <2>3
    <3> HIDE DEF n
    <3> QED BY <3>1, <3>2, ProductNat DEF Weight, n
  <2> HIDE DEF n, W
  <2>5. \A k \in 0..n : W(k) \in Nat /\ W(k) # 0
    BY <1>1, <2>4
  <2>6. \A k \in 1..n : shape[k] \in Nat /\ shape[k] # 0
    BY <1>0, <2>3
  <2>7. \A k \in 0..n : W(k) > 0
    BY ONLY <2>5
  <2>8. \A k \in 1..n : shape[k] > 0
    BY ONLY <2>6
  <2> QED BY <2>7, <2>8
<1> HIDE DEF W, n
<1>3. \A k \in 1..n : /\ d[k] \in Nat /\ d[k] < shape[k]
                       /\ M(k - 1) = d[k] * W(k) + M(k)
  <2> TAKE k \in 1..n
  <2>1. W(k) \in Nat /\ W(k) > 0 /\ shape[k] \in Nat /\ shape[k] > 0
    BY <1>0, <1>1, <1>2
  <2>2. W(k - 1) = shape[k] * W(k)
    BY <1>1
  <2>3. d[k] = (v \div W(k)) % shape[k]
    OBVIOUS
  <2>4. v % (shape[k] * W(k)) = M(k - 1)
    BY <2>2
  <2>5. d[k] \in Nat /\ d[k] < shape[k] /\ v % (shape[k] * W(k)) = d[k] * W(k) + M(k)
    <3> DEFINE r2 == d[k]
               w == W(k)
               c == shape[k]
    <3>1. /\ w \in Nat /\ w > 0 /\ c \in Nat /\ c > 0
          /\ r2 = (v \div w) % c
      BY <2>1, <2>3
    <3> HIDE DEF r2, w, c
    <3>2. r2 \in Nat /\ r2 < c /\ v % (c * w) = r2 * w + (v % w)
      BY <3>1, Radix
    <3>3. r2 = d[k] /\ w = W(k) /\ c = shape[k] /\ M(k) = v % w
      BY DEF r2, w, c
    <3> HIDE DEF d, M
    <3> QED BY <3>2, <3>3
  <2> HIDE DEF M, d
  <2> QED BY <2>4, <2>5
<1>4. d \in [1..n -> Nat]
  BY <1>3
<1>5. d \in Indices(shape)
  <2> HIDE DEF d
  <2> QED BY <1>3, <1>4, IndicesAre DEF n
<1>6. /\ Rest(d, shape, n) = 0
      /\ \A k \in 1..n : Rest(d, shape, k - 1) = d[k] * W(k) + Rest(d, shape, k)
  <2> HIDE DEF d
  <2> QED BY <1>4, RestStep DEF n, W
<1> HIDE DEF d
<1>7. n \in G
  <2>1. v % 1 = 0
    OBVIOUS
  <2>2. M(n) = 0
    BY <2>1, <1>1
  <2> HIDE DEF M
  <2> QED BY <1>0, <1>6, <2>2
<1>x. M(0) = v
  <2> DEFINE w == W(0)
  <2>1. w \in Nat /\ v < w
    BY <1>0, <1>1
  <2> HIDE DEF w
  <2>2. v % w = v
    BY <2>1
  <2> QED BY <2>2 DEF w
<1> HIDE DEF M
<1>8. ASSUME NEW k \in 1..n, k \in G PROVE k - 1 \in G
  <2>1. Rest(d, shape, k - 1) = d[k] * W(k) + M(k)
    BY <1>6, <1>8
  <2>2. k - 1 \in 0..n
    BY <1>0
  <2> QED BY <1>3, <2>1, <2>2
<1> HIDE DEF G
<1>9. 0 \in G
  BY <1>0, <1>7, <1>8, DownInduction
<1>11. Flat(d, shape) = v
  BY <1>9, <1>x DEF G, Flat
<1> QED BY <1>5, <1>11, <1>d

\* So every number below the size is that of an index.
LEMMA FlatOnto ==
  ASSUME NEW shape \in Seq(Nat), NEW v \in Nat, v < Product(shape)
  PROVE  \E x \in Indices(shape) : Flat(x, shape) = v
BY UnravelIs

\* The position of an index in row-major order is that number: ravel_multi_index.
LEMMA PositionIs ==
  ASSUME NEW shape \in Seq(Nat), NEW x \in Indices(shape)
  PROVE  Position(x, shape) = Flat(x, shape)
<1> DEFINE S == {y \in Indices(shape) : Before(y, x)}
           m == Flat(x, shape)
           f == [y \in S |-> Flat(y, shape)]
<1>1. m \in Nat /\ m < Product(shape)
  BY FlatRange
<1>2. \A y \in S : Flat(y, shape) \in Nat /\ Flat(y, shape) < m
  BY FlatRange, FlatMonotone
<1>3. f \in [S -> 0..(m - 1)]
  BY <1>1, <1>2
<1>4. ASSUME NEW y \in S, NEW z \in S, f[y] = f[z] PROVE y = z
  <2>1. Flat(y, shape) = Flat(z, shape) /\ Flat(y, shape) \in Nat
    BY <1>2, <1>4
  <2> QED BY <2>1, BeforeTotal, FlatMonotone
<1>5. ASSUME NEW v \in 0..(m - 1) PROVE \E y \in S : f[y] = v
  <2>1. v \in Nat /\ v < m
    BY <1>1
  <2>0. Product(shape) \in Nat
    <3>1. 0 \in 0..Len(shape)
      OBVIOUS
    <3> QED BY <3>1, WeightStep
  <2>2. PICK y \in Indices(shape) : Flat(y, shape) = v
    BY <2>0, <2>1, <1>1, FlatOnto
  <2>3. Before(y, x)
    <3>1. y # x
      BY <2>1, <2>2
    <3>2. ~Before(x, y)
      BY <2>1, <2>2, <1>1, FlatMonotone
    <3> QED BY <3>1, <3>2, BeforeTotal
  <2> QED BY <2>2, <2>3
<1> HIDE DEF S, f, m
<1>6. f \in Injection(S, 0..(m - 1))
  BY <1>3, <1>4 DEF Injection, IsInjective
<1>7. f \in Surjection(S, 0..(m - 1))
  BY <1>3, <1>5 DEF Surjection
<1>8. IsFiniteSet(0..(m - 1)) /\ Cardinality(0..(m - 1)) = m
  <2>1. m \in Nat /\ m - 1 \in Int /\ 0 \in Int
    BY <1>1
  <2>2. /\ IsFiniteSet(0..(m - 1))
        /\ Cardinality(0..(m - 1)) = IF 0 > m - 1 THEN 0 ELSE (m - 1) - 0 + 1
    BY <2>1, FS_Interval
  <2> QED BY <2>1, <2>2
<1>9. Cardinality(S) = m
  BY <1>6, <1>7, <1>8, FS_Injection
<1> QED BY <1>9 DEF S, m, Position

\* There are as many indices as the shape has elements, each at its own place.
LEMMA PositionRange ==
  ASSUME NEW shape \in Seq(Nat)
  PROVE  /\ Product(shape) \in Nat
         /\ \A x \in Indices(shape) : Position(x, shape) \in 0..(Product(shape) - 1)
         /\ \A x, y \in Indices(shape) : Position(x, shape) = Position(y, shape) => x = y
         /\ \A v \in 0..(Product(shape) - 1) : \E x \in Indices(shape) : Position(x, shape) = v
         /\ IsFiniteSet(Indices(shape))
         /\ Cardinality(Indices(shape)) = Product(shape)
<1> DEFINE N == Product(shape)
           f == [x \in Indices(shape) |-> Position(x, shape)]
<1>1. N \in Nat
  <2>1. 0 \in 0..Len(shape)
    OBVIOUS
  <2> QED BY <2>1, WeightStep
<1> HIDE DEF N
<1>2. \A x \in Indices(shape) : Position(x, shape) \in 0..(N - 1)
  BY <1>1, PositionIs, FlatRange DEF N
<1>3. ASSUME NEW x \in Indices(shape), NEW y \in Indices(shape),
             Position(x, shape) = Position(y, shape)
      PROVE  x = y
  <2>1. Flat(x, shape) = Flat(y, shape) /\ Flat(x, shape) \in Nat
    BY <1>3, PositionIs, FlatRange
  <2> QED BY <2>1, BeforeTotal, FlatMonotone
<1>4. ASSUME NEW v \in 0..(N - 1)
      PROVE  \E x \in Indices(shape) : Position(x, shape) = v
  <2>1. v \in Nat /\ v < N
    BY <1>1
  <2> QED BY <2>1, FlatOnto, PositionIs DEF N
<1>5. f \in Injection(Indices(shape), 0..(N - 1))
  BY <1>2, <1>3 DEF Injection, IsInjective
<1>6. f \in Surjection(Indices(shape), 0..(N - 1))
  BY <1>2, <1>4 DEF Surjection
<1>7. IsFiniteSet(0..(N - 1)) /\ Cardinality(0..(N - 1)) = N
  BY <1>1, FS_Interval
<1> HIDE DEF f
<1>8. IsFiniteSet(Indices(shape)) /\ Cardinality(Indices(shape)) = N
  BY <1>5, <1>6, <1>7, FS_Injection
<1> QED BY <1>1, <1>2, <1>3, <1>4, <1>8 DEF N

-------------------------------------------------------------------------------
(* Offsets                                                                  *)

IsLayout(l) ==
  /\ l.shape \in Seq(Nat)
  /\ l.strides \in Seq(Int)
  /\ Len(l.shape) = Len(l.strides)
  /\ l.offset \in Int

\* The parts of a layout and their types.
LEMMA LayoutParts ==
  ASSUME NEW l, IsLayout(l)
  PROVE  /\ l.shape \in Seq(Nat) /\ l.strides \in Seq(Int) /\ l.offset \in Int
         /\ Len(l.shape) \in Nat /\ Len(l.strides) = Len(l.shape)
         /\ DOMAIN l.shape = 1..Len(l.shape) /\ DOMAIN l.strides = 1..Len(l.shape)
         /\ \A i \in 1..Len(l.shape) : l.shape[i] \in Nat /\ l.strides[i] \in Int
<1>1. l.shape \in Seq(Nat) /\ l.strides \in Seq(Int) /\ l.offset \in Int /\ Len(l.strides) = Len(l.shape)
  BY DEF IsLayout
<1> QED BY <1>1

\* What each axis adds to the offset of an index.
Moves(l, x) == [i \in 1..Len(l.shape) |-> x[i] * l.strides[i]]

\* byte_offset is the offset and what each axis adds.
LEMMA OffsetIs ==
  ASSUME NEW l, IsLayout(l), NEW x \in [1..Len(l.shape) -> Int]
  PROVE  /\ Offset(l, x) = l.offset + SumFunctionOnSet(Moves(l, x), 1..Len(l.shape))
         /\ SumFunctionOnSet(Moves(l, x), 1..Len(l.shape)) \in Int
         /\ \A i \in 1..Len(l.shape) : /\ Moves(l, x)[i] \in Int
                                       /\ Moves(l, x)[i] = x[i] * l.strides[i]
         /\ IsFiniteSet(1..Len(l.shape))
<1> DEFINE n == Len(l.shape)
<1>1. /\ n \in Nat /\ DOMAIN x = 1..n
      /\ \A i \in 1..n : l.strides[i] \in Int
  BY DEF IsLayout
<1>2. Moves(l, x) = [i \in DOMAIN x |-> x[i] * l.strides[i]] /\ DOMAIN Moves(l, x) = 1..n
  BY <1>1 DEF Moves
<1>3. IsFiniteSet(1..n)
  BY <1>1, FS_Interval
<1>4. ASSUME NEW i \in 1..n PROVE Moves(l, x)[i] \in Int /\ Moves(l, x)[i] = x[i] * l.strides[i]
  <2>1. x[i] \in Int /\ l.strides[i] \in Int
    BY <1>1
  <2>2. \A a, b \in Int : a * b \in Int
    OBVIOUS
  <2> QED BY <2>1, <2>2 DEF Moves
<1>5. SumFunctionOnSet(Moves(l, x), 1..n) \in Int
  BY <1>3, <1>4, SumRemove
<1>6. Offset(l, x) = l.offset + SumFunctionOnSet(Moves(l, x), 1..n)
  BY <1>2 DEF Offset, SumFunction
<1> QED BY <1>3, <1>4, <1>5, <1>6

\* The offset of an index of a layout is an integer.
LEMMA OffsetOfIndex ==
  ASSUME NEW l, IsLayout(l), NEW x \in Indices(l.shape)
  PROVE  /\ x \in [1..Len(l.shape) -> Int]
         /\ \A i \in 1..Len(l.shape) : x[i] \in Nat /\ l.shape[i] \in Nat /\ x[i] < l.shape[i]
         /\ Offset(l, x) \in Int
<1>1. l.shape \in Seq(Nat)
  BY DEF IsLayout
<1>2. x \in [1..Len(l.shape) -> Nat] /\ \A i \in 1..Len(l.shape) : x[i] < l.shape[i]
  BY <1>1, IndicesAre
<1>3. x \in [1..Len(l.shape) -> Int]
  BY <1>2
<1>4. Offset(l, x) \in Int
  <2>1. /\ Offset(l, x) = l.offset + SumFunctionOnSet(Moves(l, x), 1..Len(l.shape))
        /\ SumFunctionOnSet(Moves(l, x), 1..Len(l.shape)) \in Int
    BY <1>3, OffsetIs
  <2> QED BY <2>1, LayoutParts
<1> QED BY <1>1, <1>2, <1>3, <1>4

\* Row-major order.
LEMMA OffsetOfC ==
  ASSUME NEW l, IsLayout(l), l.strides = CStrides(l.shape), NEW x \in Indices(l.shape)
  PROVE  Offset(l, x) = l.offset + ItemSize * Position(x, l.shape)
<1> DEFINE n == Len(l.shape)
           f == [i \in 1..n |-> x[i] * Weight(l.shape, i)]
<1>1. /\ x \in [1..n -> Int] /\ n \in Nat
      /\ \A i \in 1..n : x[i] \in Nat
      /\ l.shape \in Seq(Nat)
  BY OffsetOfIndex, LayoutParts
<1>2. \A i \in 1..n : Weight(l.shape, i) \in Nat
  BY <1>1, WeightStep
<1>3. \A i \in 1..n : l.strides[i] = ItemSize * Weight(l.shape, i)
  BY <1>1 DEF CStrides, Weight
<1>4. ItemSize \in Int /\ IsFiniteSet(1..n)
  BY <1>1, LayoutAssumption, FS_Interval
<1>5. ASSUME NEW i \in 1..n PROVE f[i] \in Int /\ Moves(l, x)[i] = ItemSize * f[i]
  <2>1. \A a, b, c \in Int : a * b \in Int /\ a * (c * b) = c * (a * b)
    OBVIOUS
  <2>2. x[i] \in Int /\ Weight(l.shape, i) \in Int
    BY <1>1, <1>2
  <2>3. Moves(l, x)[i] = x[i] * (ItemSize * Weight(l.shape, i))
    BY <1>3 DEF Moves
  <2>4. f[i] = x[i] * Weight(l.shape, i)
    OBVIOUS
  <2> HIDE DEF f
  <2> QED BY <1>4, <2>1, <2>2, <2>3, <2>4
<1>6. SumFunctionOnSet(Moves(l, x), 1..n) = ItemSize * SumFunctionOnSet(f, 1..n)
  <2> HIDE DEF f
  <2> QED BY <1>4, <1>5, SumScale
<1>7. SumFunctionOnSet(f, 1..n) = Flat(x, l.shape)
  BY DEF Flat, Rest
<1> HIDE DEF f
<1>8. Flat(x, l.shape) = Position(x, l.shape)
  BY <1>1, PositionIs
<1> QED BY <1>1, <1>6, <1>7, <1>8, OffsetIs

\* A function on 1..n is a sequence of length n.
LEMMA FunctionIsSeq ==
  ASSUME NEW n \in Nat, NEW S, NEW x \in [1..n -> S]
  PROVE  x \in Seq(S) /\ Len(x) = n /\ DOMAIN x = 1..n
OBVIOUS

\* The parts of a function in reverse.
LEMMA ReversedParts ==
  ASSUME NEW n \in Nat, NEW x \in [1..n -> Nat]
  PROVE  /\ Reverse(x) \in [1..n -> Nat]
         /\ \A i \in 1..n : Reverse(x)[i] = x[n + 1 - i]
<1>1. Len(x) = n
  BY FunctionIsSeq
<1>2. \A i \in 1..n : n - i + 1 \in 1..n /\ n - i + 1 = n + 1 - i
  OBVIOUS
<1> QED BY <1>1, <1>2 DEF Reverse

\* In reverse a shape has the indices in reverse, and f_strides are c_strides.
LEMMA ReversedShape ==
  ASSUME NEW shape \in Seq(Nat)
  PROVE  /\ Reverse(shape) \in Seq(Nat)
         /\ Len(Reverse(shape)) = Len(shape)
         /\ \A i \in 1..Len(shape) : Reverse(shape)[i] = shape[Len(shape) + 1 - i]
         /\ \A x \in Indices(shape) :
              /\ Reverse(x) \in Indices(Reverse(shape))
              /\ \A i \in 1..Len(shape) : Reverse(x)[i] = x[Len(shape) + 1 - i]
         /\ \A k \in 1..(Len(shape) + 1) :
              Weight(Reverse(shape), Len(shape) + 1 - k) = ProductOn(shape, 1..(k - 1))
<1> DEFINE n == Len(shape)
           back == Reverse(shape)
<1>1. n \in Nat /\ shape \in [1..n -> Nat]
  OBVIOUS
<1>2. /\ back \in [1..n -> Nat]
      /\ \A i \in 1..n : back[i] = shape[n + 1 - i]
  <2> HIDE DEF n
  <2> QED BY <1>1, ReversedParts
<1>3. back \in Seq(Nat) /\ Len(back) = n
  BY <1>1, <1>2, FunctionIsSeq
<1>4. ASSUME NEW x \in Indices(shape)
      PROVE  /\ Reverse(x) \in Indices(back)
             /\ \A i \in 1..n : Reverse(x)[i] = x[n + 1 - i]
  <2>1. x \in [1..n -> Nat] /\ \A i \in 1..n : x[i] < shape[i]
    BY IndicesAre
  <2>2. Reverse(x) \in [1..n -> Nat] /\ \A i \in 1..n : Reverse(x)[i] = x[n + 1 - i]
    <3> HIDE DEF n
    <3> QED BY <1>1, <2>1, ReversedParts
  <2>3. \A i \in 1..n : Reverse(x)[i] < back[i]
    <3> TAKE i \in 1..n
    <3>1. n + 1 - i \in 1..n
      BY <1>1
    <3> QED BY <1>2, <2>1, <2>2, <3>1
  <2> HIDE DEF back, n
  <2>4. Reverse(x) \in Indices(back)
    BY <1>3, <2>2, <2>3, IndicesAre
  <2> QED BY <2>2, <2>4
<1>5. ASSUME NEW k \in 1..(n + 1)
      PROVE  ProductOn(back, (n + 1 - k + 1)..n) = ProductOn(shape, 1..(k - 1))
  <2> DEFINE S == 1..(k - 1)
             T == (n + 1 - k + 1)..n
             g == [i \in S |-> n + 1 - i]
  <2>1. \A i \in S : n + 1 - i \in T /\ i \in 1..n /\ back[n + 1 - i] = shape[i]
    <3> TAKE i \in S
    <3>1. n + 1 - i \in T /\ i \in 1..n /\ n + 1 - i \in 1..n /\ n + 1 - (n + 1 - i) = i
      BY <1>1
    <3> QED BY <1>2, <3>1
  <2>2. g \in [S -> T]
    BY <2>1
  <2>3. \A i, j \in S : g[i] = g[j] => i = j
    BY <1>1
  <2>4. ASSUME NEW t \in T PROVE \E i \in S : g[i] = t
    <3>1. n + 1 - t \in S /\ g[n + 1 - t] = t
      BY <1>1
    <3> QED BY <3>1
  <2>5. IsFiniteSet(S)
    BY <1>1, FS_Interval
  <2>6. \A i \in S : shape[i] \in Int /\ shape[i] = back[g[i]]
    BY <1>1, <2>1
  <2> HIDE DEF S, T, g, back, n
  <2>7. g \in Bijection(S, T)
    BY <2>2, <2>3, <2>4 DEF Bijection, Injection, Surjection, IsInjective
  <2>8. ProductOn(shape, S) = ProductOn(back, T)
    BY <2>5, <2>6, <2>7, ProductReindex
  <2> QED BY <2>8 DEF S, T
<1> QED BY <1>2, <1>3, <1>4, <1>5 DEF Weight

\* Column-major order.
LEMMA OffsetOfF ==
  ASSUME NEW l, IsLayout(l), l.strides = FStrides(l.shape), NEW x \in Indices(l.shape)
  PROVE  Offset(l, x) = l.offset + ItemSize * Position(Reverse(x), Reverse(l.shape))
<1> DEFINE n == Len(l.shape)
           back == Reverse(l.shape)
           y == Reverse(x)
           f == [i \in 1..n |-> y[i] * Weight(back, i)]
           g == [i \in 1..n |-> n + 1 - i]
           h == [i \in 1..n |-> ItemSize * f[i]]
<1>1. /\ x \in [1..n -> Int] /\ n \in Nat
      /\ \A i \in 1..n : x[i] \in Nat
      /\ l.shape \in Seq(Nat) /\ DOMAIN l.shape = 1..n
  BY OffsetOfIndex, LayoutParts
<1>2. /\ back \in Seq(Nat) /\ Len(back) = n
      /\ y \in Indices(back)
      /\ \A i \in 1..n : y[i] = x[n + 1 - i]
      /\ \A k \in 1..n : Weight(back, n + 1 - k) = ProductOn(l.shape, 1..(k - 1))
  <2>1. l.shape \in Seq(Nat)
    BY <1>1
  <2>2. /\ Reverse(l.shape) \in Seq(Nat) /\ Len(Reverse(l.shape)) = Len(l.shape)
        /\ Reverse(x) \in Indices(Reverse(l.shape))
        /\ \A i \in 1..Len(l.shape) : Reverse(x)[i] = x[Len(l.shape) + 1 - i]
        /\ \A k \in 1..Len(l.shape) :
             Weight(Reverse(l.shape), Len(l.shape) + 1 - k) = ProductOn(l.shape, 1..(k - 1))
    <3> HIDE DEF n, back, y, f, g, h
    <3> DEFINE s == l.shape
               m == Len(s)
    <3>1. s \in Seq(Nat) /\ x \in Indices(s) /\ m \in Nat
      BY <2>1
    <3> HIDE DEF s
    <3>2. /\ Reverse(s) \in Seq(Nat) /\ Len(Reverse(s)) = m
          /\ Reverse(x) \in Indices(Reverse(s))
          /\ \A i \in 1..m : Reverse(x)[i] = x[m + 1 - i]
      BY ONLY <3>1, ReversedShape
    <3>3. \A k \in 1..(m + 1) : Weight(Reverse(s), m + 1 - k) = ProductOn(s, 1..(k - 1))
      BY ONLY <3>1, ReversedShape
    <3>4. \A k \in 1..m : k \in 1..(m + 1)
      BY <3>1
    <3> QED BY <3>2, <3>3, <3>4 DEF s
  <2> QED BY ONLY <2>2
<1> HIDE DEF back, y
<1>3. \A i \in 1..n : Weight(back, i) \in Nat /\ y[i] \in Nat
  <2>1. \A i \in 1..n : i \in 0..n
    BY <1>1
  <2>2. \A i \in 1..n : n + 1 - i \in 1..n
    BY <1>1
  <2> QED BY <1>1, <1>2, <2>1, <2>2, WeightStep
<1>4. ItemSize \in Int /\ IsFiniteSet(1..n)
  BY <1>1, LayoutAssumption, FS_Interval
<1>5. ASSUME NEW i \in 1..n
      PROVE  /\ f[i] \in Int /\ h[i] = ItemSize * f[i] 
             /\ Moves(l, x)[i] \in Int /\ Moves(l, x)[i] = h[g[i]]
  <2>1. \A a, b, c \in Int : a * b \in Int /\ a * (c * b) = c * (a * b)
    OBVIOUS
  <2>2. \A j \in 1..n : y[j] \in Int /\ Weight(back, j) \in Int
    BY <1>3
  <2>3. n + 1 - i \in 1..n /\ n + 1 - (n + 1 - i) = i
    BY <1>1
  <2>4. Weight(back, n + 1 - i) = ProductOn(l.shape, 1..(i - 1)) /\ y[n + 1 - i] = x[i]
    BY <1>2, <2>3
  <2>5. Moves(l, x)[i] = x[i] * (ItemSize * Weight(back, n + 1 - i))
    BY <1>1, <2>4 DEF Moves, FStrides
  <2>6. h[g[i]] = ItemSize * (y[n + 1 - i] * Weight(back, n + 1 - i))
    BY <2>3
  <2>7. f[i] = y[i] * Weight(back, i) /\ h[i] = ItemSize * f[i]
    OBVIOUS
  <2> HIDE DEF f, g, h
  <2>8. x[i] * (ItemSize * Weight(back, n + 1 - i)) = ItemSize * (x[i] * Weight(back, n + 1 - i))
    BY <1>1, <1>4, <2>1, <2>2, <2>3
  <2>9. x[i] * (ItemSize * Weight(back, n + 1 - i)) \in Int
    BY <1>1, <1>4, <2>1, <2>2, <2>3
  <2>10. f[i] \in Int
    BY <2>1, <2>2, <2>7
  <2> QED BY <2>4, <2>5, <2>6, <2>7, <2>8, <2>9, <2>10
<1>6. g \in Bijection(1..n, 1..n)
  <2>1. g \in [1..n -> 1..n]
    BY <1>1
  <2>2. \A i, j \in 1..n : g[i] = g[j] => i = j
    BY <1>1
  <2>3. ASSUME NEW t \in 1..n PROVE \E i \in 1..n : g[i] = t
    <3>1. n + 1 - t \in 1..n /\ g[n + 1 - t] = t
      BY <1>1
    <3> QED BY <3>1
  <2> HIDE DEF g
  <2> QED BY <2>1, <2>2, <2>3 DEF Bijection, Injection, Surjection, IsInjective
<1>7. SumFunctionOnSet(f, 1..n) = Flat(y, back)
  BY <1>2 DEF Flat, Rest
<1> HIDE DEF f, g, h
<1>8. SumFunctionOnSet(Moves(l, x), 1..n) = SumFunctionOnSet(h, 1..n)
  <2>1. \A i \in 1..n : Moves(l, x)[i] \in Int /\ Moves(l, x)[i] = h[g[i]]
    BY <1>5
  <2> DEFINE m == Moves(l, x)
             S == 1..n
  <2>2. /\ IsFiniteSet(S) /\ g \in Bijection(S, S)
        /\ \A i \in S : m[i] \in Int /\ m[i] = h[g[i]]
    BY <1>4, <1>6, <2>1
  <2> HIDE DEF m, S
  <2>3. SumFunctionOnSet(m, S) = SumFunctionOnSet(h, S)
    BY <2>2, SumReindex
  <2> QED BY <2>3 DEF m, S
<1>9. SumFunctionOnSet(h, 1..n) = ItemSize * SumFunctionOnSet(f, 1..n)
  BY <1>4, <1>5, SumScale
<1>10. Flat(y, back) = Position(y, back)
  BY <1>2, PositionIs
<1>11. Offset(l, x) = l.offset + ItemSize * Position(y, back)
  BY <1>1, <1>7, <1>8, <1>9, <1>10, OffsetIs
<1> QED BY <1>11 DEF y, back

-------------------------------------------------------------------------------
(* What each view does                                                      *)

\* The layout l shows the array a, whose elements are among the first N of the buffer.
Shows(l, a, N) ==
  /\ IsLayout(l)
  /\ l.shape = a.shape
  /\ \A x \in Indices(l.shape) : /\ a.elem[x] \in 0..(N - 1)
                                 /\ Offset(l, x) = ItemSize * a.elem[x]

\* A view shows what it should if each of its indices is at the offset of the
\* index of the array that it stands for.
LEMMA ViewShows ==
  ASSUME NEW l, NEW a, NEW N, Shows(l, a, N), NEW m, IsLayout(m), NEW b, b.shape = m.shape,
         \A x \in Indices(m.shape) :
           \E y \in Indices(l.shape) : Offset(m, x) = Offset(l, y) /\ b.elem[x] = a.elem[y]
  PROVE  Shows(m, b, N)
BY DEF Shows

\* c_strides and f_strides are a stride for each axis.
LEMMA StridesType ==
  ASSUME NEW shape \in Seq(Nat)
  PROVE  /\ CStrides(shape) \in Seq(Int) /\ Len(CStrides(shape)) = Len(shape)
         /\ FStrides(shape) \in Seq(Int) /\ Len(FStrides(shape)) = Len(shape)
<1> DEFINE n == Len(shape)
<1>1. n \in Nat /\ DOMAIN shape = 1..n /\ (\A i \in 1..n : shape[i] \in Nat)
      /\ ItemSize \in Nat
  BY LayoutAssumption
<1> HIDE DEF n
<1>2. \A i \in 1..n : ProductOn(shape, (i + 1)..n) \in Nat /\ ProductOn(shape, 1..(i - 1)) \in Nat
  <2> TAKE i \in 1..n
  <2>1. IsFiniteSet((i + 1)..n) /\ IsFiniteSet(1..(i - 1))
    BY <1>1, FS_Interval
  <2>2. (\A j \in (i + 1)..n : shape[j] \in Nat) /\ (\A j \in 1..(i - 1) : shape[j] \in Nat)
    BY <1>1
  <2> QED BY <2>1, <2>2, ProductNat
<1>3. \A a, b \in Nat : a * b \in Int
  OBVIOUS
<1>4. CStrides(shape) \in [1..n -> Int] /\ FStrides(shape) \in [1..n -> Int]
  BY <1>1, <1>2, <1>3 DEF CStrides, FStrides, n
<1> QED BY <1>1, <1>4, FunctionIsSeq DEF n

\* A new buffer shows its elements as they lie in memory.
LEMMA NewShows ==
  ASSUME NEW shape \in Seq(Nat)
  PROVE  /\ Shows(NewC(shape), RowMajor(shape), Product(shape))
         /\ Shows(NewF(shape), ColumnMajor(shape), Product(shape))
<1> DEFINE c == NewC(shape)
           f == NewF(shape)
           back == Reverse(shape)
<1>1. /\ c.shape = shape /\ c.strides = CStrides(shape) /\ c.offset = 0 
      /\ f.shape = shape /\ f.strides = FStrides(shape) /\ f.offset = 0
  BY DEF NewC, NewF
<1>2. IsLayout(c) /\ IsLayout(f)
  BY <1>1, StridesType DEF IsLayout
<1>3. /\ RowMajor(shape).shape = shape /\ ColumnMajor(shape).shape = shape
      /\ \A x \in Indices(shape) :
           /\ RowMajor(shape).elem[x] = Position(x, shape)
           /\ ColumnMajor(shape).elem[x] = Position(Reverse(x), back)
  BY DEF RowMajor, ColumnMajor
<1>4. Product(back) = Product(shape) /\ back \in Seq(Nat)
  <2> DEFINE n == Len(shape)
  <2>1. /\ back \in Seq(Nat) /\ n \in Nat /\ DOMAIN shape = 1..n
        /\ \A k \in 1..(n + 1) : Weight(back, n + 1 - k) = ProductOn(shape, 1..(k - 1))
    BY ReversedShape
  <2>2. n + 1 \in 1..(n + 1) /\ n + 1 - (n + 1) = 0 /\ (n + 1) - 1 = n
    BY <2>1
  <2>3. Weight(back, 0) = ProductOn(shape, 1..n)
    BY <2>1, <2>2
  <2>4. Weight(back, 0) = Product(back)
    BY <2>1, WeightStep
  <2> QED BY <2>1, <2>3, <2>4 DEF Product
<1> HIDE DEF c, f, back
<1>5. ASSUME NEW x \in Indices(shape)
      PROVE  /\ Position(x, shape) \in 0..(Product(shape) - 1)
             /\ Position(Reverse(x), back) \in 0..(Product(shape) - 1)
             /\ Offset(c, x) = ItemSize * Position(x, shape)
             /\ Offset(f, x) = ItemSize * Position(Reverse(x), back)
  <2>1. Reverse(x) \in Indices(back)
    BY ReversedShape DEF back
  <2>2. /\ Position(x, shape) \in 0..(Product(shape) - 1)
        /\ Position(Reverse(x), back) \in 0..(Product(back) - 1)
    BY <1>4, <2>1, PositionRange
  <2>3. Offset(c, x) = 0 + ItemSize * Position(x, shape)
    BY <1>1, <1>2, OffsetOfC
  <2>4. Offset(f, x) = 0 + ItemSize * Position(Reverse(x), back)
    BY <1>1, <1>2, OffsetOfF DEF back
  <2>5. \A a, b \in Int : 0 + a * b = a * b
    OBVIOUS
  <2>6. ItemSize \in Int
    BY LayoutAssumption
  <2>7. /\ Position(x, shape) \in 0..(Product(shape) - 1)
        /\ Position(Reverse(x), back) \in 0..(Product(shape) - 1)
    BY <1>4, <2>2
  <2>8. Position(x, shape) \in Int /\ Position(Reverse(x), back) \in Int
    BY <2>7
  <2> QED BY <2>3, <2>4, <2>5, <2>6, <2>7, <2>8
<1>6. Shows(c, RowMajor(shape), Product(shape))
  BY <1>1, <1>2, <1>3, <1>5 DEF Shows
<1>7. Shows(f, ColumnMajor(shape), Product(shape))
  BY <1>1, <1>2, <1>3, <1>5 DEF Shows
<1> QED BY <1>6, <1>7 DEF c, f

\* Axes in another order, some perhaps left out: the offset of an index is that of
\* the one with the same numbers, and none on the other axes.
PicksAxes(l, k, axes) ==
  /\ IsLayout(Permute(l, axes))
  /\ Permute(l, axes).shape = [i \in DOMAIN axes |-> l.shape[axes[i]]]
  /\ \A x \in Indices(Permute(l, axes).shape) :
       /\ x \in [1..k -> Nat] /\ \A i \in 1..k : x[i] < l.shape[axes[i]]
       /\ \A y \in Indices(l.shape) :
            /\ \A i \in 1..k : y[axes[i]] = x[i]
            /\ \A j \in 1..Len(l.shape) : (\A i \in 1..k : axes[i] # j) => y[j] = 0
            => Offset(Permute(l, axes), x) = Offset(l, y)

\* A permutation of some axes picks them.
LEMMA PickedAxes ==
  ASSUME NEW l, IsLayout(l), NEW k \in Nat, NEW axes \in [1..k -> 1..Len(l.shape)],
         \A i, j \in 1..k : axes[i] = axes[j] => i = j
  PROVE  PicksAxes(l, k, axes)
<1> DEFINE n == Len(l.shape)
           m == Permute(l, axes)
<1>1. /\ n \in Nat /\ l.offset \in Int
      /\ DOMAIN l.shape = 1..n /\ DOMAIN l.strides = 1..n
      /\ \A i \in 1..n : l.shape[i] \in Nat /\ l.strides[i] \in Int
  BY LayoutParts
<1>2. /\ m.shape = [i \in 1..k |-> l.shape[axes[i]]]
      /\ m.strides = [i \in 1..k |-> l.strides[axes[i]]]
      /\ m.offset = l.offset
      /\ DOMAIN axes = 1..k
  BY DEF Permute
<1> HIDE DEF m, n
<1>3. IsLayout(m) /\ Len(m.shape) = k
  <2>1. m.shape \in [1..k -> Nat] /\ m.strides \in [1..k -> Int]
    BY <1>1, <1>2 DEF n
  <2> QED BY <1>1, <1>2, <2>1, FunctionIsSeq DEF IsLayout
<1>4. ASSUME NEW x \in Indices(m.shape)
      PROVE  /\ x \in [1..k -> Nat] /\ \A i \in 1..k : x[i] < l.shape[axes[i]]
  <2>1. m.shape \in Seq(Nat)
    BY <1>3, LayoutParts
  <2>2. x \in [1..Len(m.shape) -> Nat] /\ \A i \in 1..Len(m.shape) : x[i] < m.shape[i]
    BY <2>1, IndicesAre
  <2> QED BY <1>2, <1>3, <2>2
<1>5. ASSUME NEW x \in Indices(m.shape), NEW y \in Indices(l.shape),
             \A i \in 1..k : y[axes[i]] = x[i],
             \A j \in 1..n : (\A i \in 1..k : axes[i] # j) => y[j] = 0
      PROVE  Offset(m, x) = Offset(l, y)
  <2> DEFINE S == {axes[i] : i \in 1..k}
             f == Moves(m, x)
             g == Moves(l, y)
  <2>1. /\ x \in [1..k -> Int]
        /\ Offset(m, x) = m.offset + SumFunctionOnSet(f, 1..k)
        /\ \A i \in 1..k : f[i] \in Int /\ f[i] = x[i] * m.strides[i]
        /\ IsFiniteSet(1..k)
    <3>1. x \in [1..Len(m.shape) -> Int]
      BY <1>3, OffsetOfIndex
    <3> QED BY <1>3, <3>1, OffsetIs
  <2>2. /\ y \in [1..n -> Int]
        /\ Offset(l, y) = l.offset + SumFunctionOnSet(g, 1..n)
        /\ \A i \in 1..n : g[i] \in Int /\ g[i] = y[i] * l.strides[i]
        /\ IsFiniteSet(1..n)
    <3>1. y \in [1..Len(l.shape) -> Int]
      BY OffsetOfIndex
    <3> QED BY <3>1, OffsetIs DEF n
  <2> HIDE DEF f, g
  <2>3. \A i \in 1..k : axes[i] \in 1..n /\ f[i] \in Int /\ f[i] = g[axes[i]]
    <3> TAKE i \in 1..k
    <3>1. axes[i] \in 1..n
      BY DEF n
    <3>2. f[i] = x[i] * l.strides[axes[i]]
      BY <1>2, <2>1
    <3>3. g[axes[i]] = y[axes[i]] * l.strides[axes[i]]
      BY <2>2, <3>1
    <3>4. y[axes[i]] = x[i]
      BY <1>5
    <3> QED BY <2>1, <3>1, <3>2, <3>3, <3>4
  <2>4. axes \in Bijection(1..k, S)
    BY DEF Bijection, Injection, Surjection, IsInjective
  <2>5. SumFunctionOnSet(f, 1..k) = SumFunctionOnSet(g, S)
    <3> DEFINE D == 1..k
    <3>1. IsFiniteSet(D) /\ axes \in Bijection(D, S) /\ \A i \in D : f[i] \in Int /\ f[i] = g[axes[i]]
      BY <2>1, <2>3, <2>4
    <3> HIDE DEF D, S
    <3>2. SumFunctionOnSet(f, D) = SumFunctionOnSet(g, S)
      BY ONLY <3>1, SumReindex
    <3> QED BY <3>2 DEF D
  <2>6. S \in SUBSET (1..n)
    BY <2>3
  <2>7. \A j \in (1..n) \ S : g[j] = 0
    <3> TAKE j \in (1..n) \ S
    <3>1. y[j] = 0
      BY <1>5
    <3>2. g[j] = 0 * l.strides[j] /\ l.strides[j] \in Int
      BY <1>1, <2>2, <3>1
    <3> QED BY <3>2
  <2>8. SumFunctionOnSet(g, 1..n) = SumFunctionOnSet(g, S)
    <3> DEFINE D == 1..n
    <3>1. IsFiniteSet(D) /\ S \in SUBSET D /\ (\A i \in D : g[i] \in Int) /\ \A i \in D \ S : g[i] = 0
      BY <2>2, <2>6, <2>7
    <3> HIDE DEF D, S
    <3>2. SumFunctionOnSet(g, D) = SumFunctionOnSet(g, S)
      BY <3>1, SumSupport
    <3> QED BY <3>2 DEF D
  <2> QED BY <1>2, <2>1, <2>2, <2>5, <2>8
<1> QED BY <1>2, <1>3, <1>4, <1>5 DEF m, n, PicksAxes

\* permute and transpose.
LEMMA PermuteShows ==
  ASSUME NEW l, NEW a, NEW N, Shows(l, a, N),
         NEW axes \in [DOMAIN l.shape -> DOMAIN l.shape], IsInjective(axes)
  PROVE  Shows(Permute(l, axes), Permuted(a, axes), N)
<1> DEFINE n == Len(l.shape)
           m == Permute(l, axes)
           b == Permuted(a, axes)
           Y(x) == [k \in DOMAIN axes |-> x[CHOOSE i \in DOMAIN axes : axes[i] = k]]
<1>1. IsLayout(l) /\ l.shape = a.shape
  BY DEF Shows
<1>2. /\ n \in Nat /\ DOMAIN l.shape = 1..n /\ l.shape \in Seq(Nat)
      /\ DOMAIN axes = 1..n /\ axes \in [1..n -> 1..n]
      /\ \A i, j \in 1..n : axes[i] = axes[j] => i = j
  <2>1. n \in Nat /\ DOMAIN l.shape = 1..n /\ l.shape \in Seq(Nat)
    BY <1>1, LayoutParts
  <2>2. axes \in [1..n -> 1..n]
    BY <2>1
  <2> HIDE DEF n
  <2> QED BY <2>1, <2>2 DEF IsInjective
<1>3. /\ b.shape = [i \in DOMAIN axes |-> l.shape[axes[i]]]
      /\ \A x \in Indices(b.shape) : b.elem[x] = a.elem[Y(x)]
  BY <1>1 DEF Permuted, Through
<1>4. /\ IsLayout(m) /\ m.shape = b.shape
      /\ \A x \in Indices(m.shape) :
              /\ x \in [1..n -> Nat] /\ \A i \in 1..n : x[i] < l.shape[axes[i]]
              /\ \A y \in Indices(l.shape) :
                   /\ \A i \in 1..n : y[axes[i]] = x[i]
                   /\ \A j \in 1..n : (\A i \in 1..n : axes[i] # j) => y[j] = 0
                   => Offset(m, x) = Offset(l, y)
  <2> HIDE DEF b
  <2>1. /\ IsLayout(m)
        /\ m.shape = [i \in DOMAIN axes |-> l.shape[axes[i]]]
        /\ \A x \in Indices(m.shape) :
              /\ x \in [1..n -> Nat] /\ \A i \in 1..n : x[i] < l.shape[axes[i]]
              /\ \A y \in Indices(l.shape) :
                   /\ \A i \in 1..n : y[axes[i]] = x[i]
                   /\ \A j \in 1..n : (\A i \in 1..n : axes[i] # j) => y[j] = 0
                   => Offset(m, x) = Offset(l, y)
    <3>1. PicksAxes(l, n, axes)
      BY <1>1, <1>2, PickedAxes
    <3> QED BY <3>1 DEF PicksAxes
  <2> QED BY <1>3, <2>1
<1>5. \A j \in 1..n : \E i \in 1..n : axes[i] = j
  <2>1. axes \in Injection(1..n, 1..n)
    BY <1>2 DEF Injection, IsInjective
  <2>2. IsFiniteSet(1..n)
    BY <1>2, FS_Interval
  <2>3. axes \in Surjection(1..n, 1..n)
    BY <2>1, <2>2, FS_Injection
  <2> QED BY <2>3 DEF Surjection
<1> HIDE DEF m, b, n
<1>6. ASSUME NEW x \in Indices(m.shape)
      PROVE  \E y \in Indices(l.shape) : Offset(m, x) = Offset(l, y) /\ b.elem[x] = a.elem[y]
  <2> DEFINE y == Y(x)
  <2>1. b.elem[x] = a.elem[y]
    BY <1>3, <1>4
  <2>2. x \in [1..n -> Nat] /\ \A i \in 1..n : x[i] < l.shape[axes[i]]
    BY <1>4
  <2>3. \A i \in 1..n : y[axes[i]] = x[i]
    <3> TAKE i \in 1..n
    <3>1. (CHOOSE p \in 1..n : axes[p] = axes[i]) = i
      BY <1>2
    <3> QED BY <1>2, <3>1
  <2>4. \A j \in 1..n : y[j] \in Nat /\ y[j] < l.shape[j]
    <3> HIDE DEF y
    <3> TAKE j \in 1..n
    <3>1. PICK i \in 1..n : axes[i] = j
      BY <1>5
    <3> QED BY <2>2, <2>3, <3>1
  <2>5. y \in [1..n -> Nat]
    BY <1>2, <2>4
  <2> HIDE DEF y
  <2>6. y \in Indices(l.shape)
    BY <1>2, <2>4, <2>5, IndicesAre DEF n
  <2>7. Offset(m, x) = Offset(l, y)
    BY <1>4, <1>5, <2>3, <2>6
  <2> QED BY <2>1, <2>6, <2>7
<1> QED BY <1>4, <1>6, ViewShows DEF m, b

\* The axes of an array but axis k of them.
Skip(n, k) == [i \in 1..n |-> IF i < k THEN i ELSE i + 1]

AllBut(axes, n, k) ==
  /\ axes \in [1..n -> 1..(n + 1)]
  /\ \A i, j \in 1..n : axes[i] = axes[j] => i = j
  /\ \A i \in 1..n : axes[i] = IF i < k THEN i ELSE i + 1
  /\ \A i \in 1..n : axes[i] # k
  /\ \A j \in 1..(n + 1) : j # k => \E i \in 1..n : axes[i] = j

\* Skip picks every axis but the k-th.
LEMMA SkipParts ==
  ASSUME NEW n \in Nat, NEW k \in 1..(n + 1)
  PROVE  AllBut(Skip(n, k), n, k)
<1>1. \A i \in 1..n : /\ Skip(n, k)[i] = IF i < k THEN i ELSE i + 1
                      /\ Skip(n, k)[i] \in 1..(n + 1)
                      /\ Skip(n, k)[i] # k
  BY DEF Skip
<1>2. \A i, j \in 1..n : Skip(n, k)[i] = Skip(n, k)[j] => i = j
  BY DEF Skip
<1>3. ASSUME NEW j \in 1..(n + 1), j # k PROVE \E i \in 1..n : Skip(n, k)[i] = j
  <2>1. CASE j < k
    <3>1. j \in 1..n
      BY <2>1
    <3> QED BY <1>1, <2>1, <3>1
  <2>2. CASE j > k
    <3>1. j - 1 \in 1..n /\ ~(j - 1 < k) /\ (j - 1) + 1 = j
      BY <2>2
    <3> QED BY <1>1, <3>1
  <2> QED BY <1>3, <2>1, <2>2
<1>4. Skip(n, k) \in [1..n -> 1..(n + 1)]
  <2>1. \A i \in 1..n : (IF i < k THEN i ELSE i + 1) \in 1..(n + 1)
    OBVIOUS
  <2> QED BY <2>1 DEF Skip
<1> HIDE DEF Skip
<1> QED BY <1>1, <1>2, <1>3, <1>4 DEF AllBut

IsInserted(t, s, k, e, S) ==
  /\ t \in Seq(S)
  /\ Len(t) = Len(s) + 1
  /\ t[k] = e
  /\ \A i \in 1..Len(s) : t[Skip(Len(s), k)[i]] = s[i]

\* What InsertAt puts where.
LEMMA InsertedParts ==
  ASSUME NEW S, NEW s \in Seq(S), NEW k \in 1..(Len(s) + 1), NEW e \in S
  PROVE  IsInserted(InsertAt(s, k, e), s, k, e, S)
<1> DEFINE n == Len(s)
           a == SubSeq(s, 1, k - 1)
           b == SubSeq(s, k, n)
<1>1. n \in Nat /\ k \in 1..(n + 1) /\ \A i \in 1..n : s[i] \in S
  OBVIOUS
<1>2. a \in Seq(S) /\ Len(a) = k - 1 /\ \A i \in 1..(k - 1) : a[i] = s[i]
  OBVIOUS
<1>3. b \in Seq(S) /\ Len(b) = n - k + 1 /\ \A i \in 1..(n - k + 1) : b[i] = s[k + i - 1]
  OBVIOUS
<1> HIDE DEF a, b, n
<1>4. InsertAt(s, k, e) = a \o <<e>> \o b
  BY DEF InsertAt, a, b, n
<1>5. /\ a \o <<e>> \in Seq(S) /\ Len(a \o <<e>>) = k
      /\ \A i \in 1..k : (a \o <<e>>)[i] = IF i < k THEN s[i] ELSE e
  BY <1>2
<1> DEFINE c == a \o <<e>>
<1> HIDE DEF c
<1>6. /\ c \o b \in Seq(S) /\ Len(c \o b) = n + 1
      /\ \A i \in 1..(n + 1) : (c \o b)[i] = IF i <= k THEN c[i] ELSE b[i - k]
  <2>1. c \in Seq(S) /\ Len(c) = k
    BY <1>5 DEF c
  <2>2. Len(c \o b) = n + 1
    BY <1>1, <1>3, <2>1
  <2>3. \A i \in 1..(n + 1) : (c \o b)[i] = IF i <= k THEN c[i] ELSE b[i - k]
    BY <1>1, <1>3, <2>1
  <2> QED BY <1>3, <2>1, <2>2, <2>3
<1>7. \A i \in 1..n : (c \o b)[Skip(n, k)[i]] = s[i]
  <2> TAKE i \in 1..n
  <2>1. CASE i < k
    <3>1. Skip(n, k)[i] = i
      BY <2>1 DEF Skip
    <3>2. i \in 1..(n + 1) /\ i \in 1..k /\ i <= k
      BY <1>1, <2>1
    <3> QED BY <1>5, <1>6, <2>1, <3>1, <3>2 DEF c
  <2>2. CASE ~(i < k)
    <3>1. Skip(n, k)[i] = i + 1
      BY <2>2 DEF Skip
    <3>2. i + 1 \in 1..(n + 1) /\ ~(i + 1 <= k)
      BY <1>1, <2>2
    <3>3. i + 1 - k \in 1..(n - k + 1) /\ k + (i + 1 - k) - 1 = i
      BY <1>1, <2>2
    <3>4. (c \o b)[i + 1] = b[i + 1 - k]
      BY <1>6, <3>2
    <3>5. b[i + 1 - k] = s[i]
      BY <1>3, <3>3
    <3> QED BY <3>1, <3>4, <3>5
  <2> QED BY <2>1, <2>2
<1>8. (c \o b)[k] = e
  <2>1. k \in 1..(n + 1) /\ k \in 1..k
    BY <1>1
  <2> QED BY <1>5, <1>6, <2>1 DEF c
<1> QED BY <1>4, <1>6, <1>7, <1>8 DEF c, n, IsInserted

IsRemoved(t, s, k, S) ==
  /\ t \in Seq(S)
  /\ Len(t) = Len(s) - 1
  /\ \A i \in 1..(Len(s) - 1) : t[i] = s[Skip(Len(s) - 1, k)[i]]

\* What RemoveAt leaves where.
LEMMA RemovedParts ==
  ASSUME NEW S, NEW s \in Seq(S), NEW k \in 1..Len(s)
  PROVE  IsRemoved(RemoveAt(s, k), s, k, S)
<1> DEFINE n == Len(s)
           a == SubSeq(s, 1, k - 1)
           b == SubSeq(s, k + 1, n)
<1>1. n \in Nat /\ k \in 1..n /\ \A i \in 1..n : s[i] \in S
  OBVIOUS
<1>2. a \in Seq(S) /\ Len(a) = k - 1 /\ \A i \in 1..(k - 1) : a[i] = s[i]
  OBVIOUS
<1>3. b \in Seq(S) /\ Len(b) = n - k /\ \A i \in 1..(n - k) : b[i] = s[k + i]
  OBVIOUS
<1> HIDE DEF a, b, n
<1>4. RemoveAt(s, k) = a \o b
  BY DEF RemoveAt, a, b, n
<1>5. /\ a \o b \in Seq(S) /\ Len(a \o b) = n - 1
      /\ \A i \in 1..(n - 1) : (a \o b)[i] = IF i < k THEN a[i] ELSE b[i - (k - 1)]
  <2>1. Len(a \o b) = n - 1
    <3>1. Len(a \o b) = Len(a) + Len(b)
      BY <1>2, <1>3, ConcatProperties
    <3> QED BY <1>1, <1>2, <1>3, <3>1
  <2>2. \A i \in 1..(n - 1) : (a \o b)[i] = IF i < k THEN a[i] ELSE b[i - (k - 1)]
    BY <1>1, <1>2, <1>3
  <2> QED BY <1>2, <1>3, <2>1, <2>2
<1>6. \A i \in 1..(n - 1) : (a \o b)[i] = s[Skip(n - 1, k)[i]]
  <2> TAKE i \in 1..(n - 1)
  <2>1. CASE i < k
    <3>1. Skip(n - 1, k)[i] = i
      BY <2>1 DEF Skip
    <3> QED BY <1>2, <1>5, <2>1, <3>1
  <2>2. CASE ~(i < k)
    <3>1. Skip(n - 1, k)[i] = i + 1
      BY <2>2 DEF Skip
    <3>2. i - (k - 1) \in 1..(n - k) /\ k + (i - (k - 1)) = i + 1
      BY <1>1, <2>2
    <3> QED BY <1>3, <1>5, <2>2, <3>1, <3>2
  <2> QED BY <2>1, <2>2
<1> QED BY <1>4, <1>5, <1>6 DEF n, IsRemoved

\* The layout small is big without its axis k, which has one element.
LacksAxis(small, big, k) ==
  LET n == Len(small.shape) IN
  /\ IsLayout(small) /\ IsLayout(big)
  /\ Len(big.shape) = n + 1
  /\ k \in 1..(n + 1)
  /\ big.shape[k] = 1
  /\ small.offset = big.offset
  /\ \A i \in 1..n : /\ small.shape[i] = big.shape[Skip(n, k)[i]]
                     /\ small.strides[i] = big.strides[Skip(n, k)[i]]

SameElement(small, y, big, x) ==
  /\ x \in Indices(big.shape) <=> y \in Indices(small.shape)
  /\ x \in Indices(big.shape) => Offset(big, x) = Offset(small, y)

\* An axis of one element adds nothing to any offset.
LEMMA UnitAxis ==
  ASSUME NEW small, NEW big, NEW k, LacksAxis(small, big, k),
         NEW x \in [1..(Len(small.shape) + 1) -> Nat],
         NEW y \in [1..Len(small.shape) -> Nat],
         \A i \in 1..Len(small.shape) : y[i] = x[Skip(Len(small.shape), k)[i]],
         x[k] = 0
  PROVE  SameElement(small, y, big, x)
<1> DEFINE n == Len(small.shape)
           axes == Skip(n, k)
           m == Permute(big, axes)
<1>1. /\ IsLayout(small) /\ IsLayout(big)
      /\ Len(big.shape) = n + 1
      /\ k \in 1..(n + 1)
      /\ big.shape[k] = 1
      /\ small.offset = big.offset
      /\ \A i \in 1..n : small.shape[i] = big.shape[axes[i]] /\ small.strides[i] = big.strides[axes[i]]
  BY DEF LacksAxis
<1>2. /\ n \in Nat
      /\ small.shape \in Seq(Nat) /\ big.shape \in Seq(Nat)
      /\ DOMAIN small.shape = 1..n /\ DOMAIN small.strides = 1..n
      /\ small.shape \in [1..n -> Nat] /\ small.strides \in [1..n -> Int]
  <2>1. small.shape \in Seq(Nat) /\ small.strides \in Seq(Int) /\ n \in Nat /\ Len(small.strides) = n
        /\ DOMAIN small.shape = 1..n /\ DOMAIN small.strides = 1..n
        /\ \A i \in 1..n : small.shape[i] \in Nat /\ small.strides[i] \in Int
    BY <1>1, LayoutParts
  <2>2. big.shape \in Seq(Nat)
    BY <1>1, LayoutParts
  <2> QED BY <2>1, <2>2
<1> HIDE DEF n
<1>3. /\ axes \in [1..n -> 1..(n + 1)]
      /\ \A i, j \in 1..n : axes[i] = axes[j] => i = j
      /\ \A i \in 1..n : axes[i] # k
      /\ \A j \in 1..(n + 1) : j # k => \E i \in 1..n : axes[i] = j
      /\ DOMAIN axes = 1..n
  <2>1. AllBut(axes, n, k)
    BY <1>1, <1>2, SkipParts
  <2> HIDE DEF axes
  <2> QED BY <2>1 DEF AllBut
<1> HIDE DEF axes, m
<1>4. PicksAxes(big, n, axes)
  <2>1. axes \in [1..n -> 1..Len(big.shape)]
    BY <1>1, <1>3
  <2> QED BY <1>1, <1>2, <1>3, <2>1, PickedAxes
<1>5. m.shape = small.shape /\ m.strides = small.strides /\ m.offset = small.offset
  <2>1. m.shape = [i \in 1..n |-> big.shape[axes[i]]] /\ m.strides = [i \in 1..n |-> big.strides[axes[i]]]
        /\ m.offset = big.offset
    BY <1>3 DEF m, Permute
  <2>2. small.shape = [i \in 1..n |-> small.shape[i]] /\ small.strides = [i \in 1..n |-> small.strides[i]]
    BY <1>2
  <2>3. small.shape = m.shape
    BY <1>1, <2>1, <2>2
  <2>4. small.strides = m.strides
    BY <1>1, <2>1, <2>2
  <2> QED BY <1>1, <2>1, <2>3, <2>4
<1>6. x \in [1..(n + 1) -> Nat] /\ y \in [1..n -> Nat] /\ \A i \in 1..n : y[i] = x[axes[i]]
  BY DEF n, axes
<1>7. x \in Indices(big.shape) <=> y \in Indices(small.shape)
  <2>1. x \in Indices(big.shape) <=> \A j \in 1..(n + 1) : x[j] < big.shape[j]
    BY <1>1, <1>2, <1>6, IndicesAre
  <2>2. y \in Indices(small.shape) <=> \A i \in 1..n : y[i] < small.shape[i]
    <3>1. Len(small.shape) = n
      BY DEF n
    <3> QED BY <1>2, <1>6, <3>1, IndicesAre
  <2>3. ASSUME \A j \in 1..(n + 1) : x[j] < big.shape[j] PROVE \A i \in 1..n : y[i] < small.shape[i]
    <3> TAKE i \in 1..n
    <3>1. axes[i] \in 1..(n + 1)
      BY <1>3
    <3>2. x[axes[i]] < big.shape[axes[i]]
      BY <2>3, <3>1
    <3> QED BY <1>1, <1>6, <3>2
  <2>4. ASSUME \A i \in 1..n : y[i] < small.shape[i], NEW j \in 1..(n + 1) PROVE x[j] < big.shape[j]
    <3>1. CASE j = k
      BY <1>1, <3>1
    <3>2. CASE j # k
      <4>1. PICK i \in 1..n : axes[i] = j
        BY <1>3, <3>2
      <4> QED BY <1>1, <1>6, <2>4, <4>1
    <3> QED BY <3>1, <3>2
  <2> QED BY <2>1, <2>2, <2>3, <2>4
<1>8. ASSUME x \in Indices(big.shape) PROVE Offset(big, x) = Offset(small, y)
  <2>1. y \in Indices(m.shape)
    BY <1>5, <1>7, <1>8
  <2>2. \A i \in 1..n : x[axes[i]] = y[i]
    BY <1>6
  <2>3. \A j \in 1..Len(big.shape) : (\A i \in 1..n : axes[i] # j) => x[j] = 0
    <3> TAKE j \in 1..Len(big.shape)
    <3>1. CASE j = k
      BY <3>1
    <3>2. CASE j # k
      BY <1>1, <1>3, <3>2
    <3> QED BY <3>1, <3>2
  <2>4. Offset(m, y) = Offset(big, x)
    BY <1>4, <1>8, <2>1, <2>2, <2>3 DEF PicksAxes, m
  <2>5. Offset(m, y) = Offset(small, y)
    BY <1>5 DEF Offset
  <2> QED BY <2>4, <2>5
<1> QED BY <1>7, <1>8 DEF SameElement

\* expand_dims adds an axis of one element.
LEMMA ExpandLacks ==
  ASSUME NEW l, IsLayout(l), NEW k \in 1..(Len(l.shape) + 1)
  PROVE  LacksAxis(l, ExpandDims(l, k), k)
<1> DEFINE n == Len(l.shape)
           m == ExpandDims(l, k)
<1>1. /\ n \in Nat /\ l.shape \in Seq(Nat) /\ l.strides \in Seq(Int) /\ l.offset \in Int
      /\ Len(l.strides) = n /\ k \in 1..(n + 1)
  BY LayoutParts
<1>2. /\ m.shape = InsertAt(l.shape, k, 1) /\ m.strides = InsertAt(l.strides, k, ItemSize)
      /\ m.offset = l.offset
  BY DEF ExpandDims
<1> HIDE DEF m, n
<1>3. LacksAxis(l, m, k)
  <2>0. 1 \in Nat /\ ItemSize \in Int /\ k \in 1..(Len(l.strides) + 1) /\ k \in 1..(Len(l.shape) + 1)
    BY <1>1, LayoutAssumption DEF n
  <2>1. /\ m.shape \in Seq(Nat) /\ Len(m.shape) = n + 1 /\ m.shape[k] = 1
        /\ \A i \in 1..n : m.shape[Skip(n, k)[i]] = l.shape[i]
    <3>1. IsInserted(m.shape, l.shape, k, 1, Nat)
      BY <1>1, <1>2, <2>0, InsertedParts
    <3> QED BY <3>1 DEF IsInserted, n
  <2>2. /\ m.strides \in Seq(Int) /\ Len(m.strides) = n + 1
        /\ \A i \in 1..n : m.strides[Skip(n, k)[i]] = l.strides[i]
    <3>1. IsInserted(m.strides, l.strides, k, ItemSize, Int)
      BY <1>1, <1>2, <2>0, InsertedParts
    <3> QED BY <1>1, <3>1 DEF IsInserted
  <2>3. IsLayout(m)
    BY <1>1, <1>2, <2>1, <2>2 DEF IsLayout
  <2> QED BY <1>1, <1>2, <2>1, <2>2, <2>3 DEF LacksAxis, n
<1> QED BY <1>3 DEF m

\* expand_dims
LEMMA ExpandShows ==
  ASSUME NEW l, NEW a, NEW N, Shows(l, a, N), NEW k \in 1..(Len(l.shape) + 1)
  PROVE  Shows(ExpandDims(l, k), WithAxis(a, k), N)
<1> DEFINE n == Len(l.shape)
           m == ExpandDims(l, k)
           b == WithAxis(a, k)
<1>1. IsLayout(l) /\ l.shape = a.shape
  BY DEF Shows
<1>2. /\ n \in Nat /\ l.shape \in Seq(Nat) /\ l.strides \in Seq(Int) /\ l.offset \in Int
      /\ Len(l.strides) = n /\ k \in 1..(n + 1)
  BY <1>1, LayoutParts
<1>3. /\ m.shape = InsertAt(l.shape, k, 1) /\ m.strides = InsertAt(l.strides, k, ItemSize)
      /\ m.offset = l.offset
  BY DEF ExpandDims
<1>4. /\ b.shape = m.shape
      /\ \A x \in Indices(m.shape) : b.elem[x] = a.elem[RemoveAt(x, k)]
  BY <1>1, <1>3 DEF WithAxis, Through
<1> HIDE DEF m, b, n
<1>5. LacksAxis(l, m, k) /\ Len(m.shape) = n + 1 /\ m.shape[k] = 1
  BY <1>1, ExpandLacks DEF LacksAxis, m, n
<1>6. IsLayout(m)
  BY <1>5 DEF LacksAxis
<1>7. ASSUME NEW x \in Indices(m.shape)
      PROVE  \E y \in Indices(l.shape) : Offset(m, x) = Offset(l, y) /\ b.elem[x] = a.elem[y]
  <2> DEFINE y == RemoveAt(x, k)
  <2>1. x \in [1..(n + 1) -> Nat] /\ x[k] = 0
    <3>1. m.shape \in Seq(Nat)
      BY <1>6, LayoutParts
    <3>2. x \in [1..Len(m.shape) -> Nat] /\ \A i \in 1..Len(m.shape) : x[i] < m.shape[i]
      BY <3>1, IndicesAre
    <3>3. x[k] \in Nat /\ x[k] < 1
      BY <1>2, <1>5, <3>2
    <3> QED BY <1>5, <3>2, <3>3
  <2>2. x \in Seq(Nat) /\ Len(x) = n + 1
    BY <1>2, <2>1, FunctionIsSeq
  <2>3. /\ y \in Seq(Nat) /\ Len(y) = n
        /\ \A i \in 1..n : y[i] = x[Skip(n, k)[i]]
    <3>1. k \in 1..Len(x) /\ (n + 1) - 1 = n
      BY <1>2, <2>2
    <3>2. IsRemoved(y, x, k, Nat)
      BY <1>2, <2>2, <3>1, RemovedParts
    <3> HIDE DEF y
    <3> QED BY <2>2, <3>1, <3>2 DEF IsRemoved
  <2> HIDE DEF y
  <2>4. y \in [1..n -> Nat]
    BY <2>3
  <2>5. y \in Indices(l.shape) /\ Offset(m, x) = Offset(l, y)
    <3>1. SameElement(l, y, m, x)
      BY <1>5, <2>1, <2>3, <2>4, UnitAxis DEF n
    <3> QED BY <3>1 DEF SameElement
  <2> QED BY <1>4, <2>5 DEF y
<1> QED BY <1>4, <1>6, <1>7, ViewShows DEF m, b

\* squeeze_axis drops one.
LEMMA SqueezeAxisLacks ==
  ASSUME NEW l, IsLayout(l), NEW k \in 1..Len(l.shape), l.shape[k] = 1
  PROVE  LacksAxis(SqueezeAxis(l, k), l, k)
<1> DEFINE n == Len(l.shape) - 1
           m == SqueezeAxis(l, k)
<1>1. /\ n \in Nat /\ l.shape \in Seq(Nat) /\ l.strides \in Seq(Int) /\ l.offset \in Int
      /\ Len(l.strides) = n + 1 /\ Len(l.shape) = n + 1 /\ k \in 1..(n + 1)
  BY LayoutParts
<1>2. /\ m.shape = RemoveAt(l.shape, k) /\ m.strides = RemoveAt(l.strides, k)
      /\ m.offset = l.offset
  BY DEF SqueezeAxis
<1> HIDE DEF m, n
<1>3. LacksAxis(m, l, k)
  <2>0. k \in 1..Len(l.strides) /\ k \in 1..Len(l.shape) /\ Len(l.strides) - 1 = n /\ Len(l.shape) - 1 = n
    BY <1>1
  <2>1. /\ m.shape \in Seq(Nat) /\ Len(m.shape) = n
        /\ \A i \in 1..n : m.shape[i] = l.shape[Skip(n, k)[i]]
    <3>1. IsRemoved(m.shape, l.shape, k, Nat)
      BY <1>1, <1>2, <2>0, RemovedParts
    <3> QED BY <2>0, <3>1 DEF IsRemoved
  <2>2. /\ m.strides \in Seq(Int) /\ Len(m.strides) = n
        /\ \A i \in 1..n : m.strides[i] = l.strides[Skip(n, k)[i]]
    <3>1. IsRemoved(m.strides, l.strides, k, Int)
      BY <1>1, <1>2, <2>0, RemovedParts
    <3> QED BY <2>0, <3>1 DEF IsRemoved
  <2>3. IsLayout(m)
    BY <1>1, <1>2, <2>1, <2>2 DEF IsLayout
  <2> QED BY <1>1, <1>2, <2>1, <2>2, <2>3 DEF LacksAxis
<1> QED BY <1>3 DEF m

\* squeeze_axis
LEMMA SqueezeAxisShows ==
  ASSUME NEW l, NEW a, NEW N, Shows(l, a, N), NEW k \in 1..Len(l.shape), l.shape[k] = 1
  PROVE  Shows(SqueezeAxis(l, k), WithoutAxis(a, k), N)
<1> DEFINE n == Len(l.shape) - 1
           m == SqueezeAxis(l, k)
           b == WithoutAxis(a, k)
<1>1. IsLayout(l) /\ l.shape = a.shape
  BY DEF Shows
<1>2. /\ n \in Nat /\ l.shape \in Seq(Nat) /\ l.strides \in Seq(Int) /\ l.offset \in Int
      /\ Len(l.strides) = n + 1 /\ Len(l.shape) = n + 1 /\ k \in 1..(n + 1)
  BY <1>1, LayoutParts
<1>3. /\ m.shape = RemoveAt(l.shape, k) /\ m.strides = RemoveAt(l.strides, k)
      /\ m.offset = l.offset
  BY DEF SqueezeAxis
<1>4. /\ b.shape = m.shape
      /\ \A x \in Indices(m.shape) : b.elem[x] = a.elem[InsertAt(x, k, 0)]
  BY <1>1, <1>3 DEF WithoutAxis, Through
<1> HIDE DEF m, b, n
<1>5. LacksAxis(m, l, k) /\ Len(m.shape) = n
  <2>1. LacksAxis(m, l, k)
    BY <1>1, SqueezeAxisLacks DEF m
  <2>2. Len(l.shape) = Len(m.shape) + 1 /\ IsLayout(m)
    BY <2>1 DEF LacksAxis
  <2>3. Len(m.shape) \in Nat
    BY <2>2, LayoutParts
  <2> QED BY <1>2, <2>1, <2>2, <2>3
<1>6. IsLayout(m)
  BY <1>5 DEF LacksAxis
<1>7. ASSUME NEW y \in Indices(m.shape)
      PROVE  \E x \in Indices(l.shape) : Offset(m, y) = Offset(l, x) /\ b.elem[y] = a.elem[x]
  <2> DEFINE x == InsertAt(y, k, 0)
  <2>1. y \in [1..n -> Nat]
    <3>1. m.shape \in Seq(Nat)
      BY <1>6, LayoutParts
    <3> QED BY <1>5, <3>1, IndicesAre
  <2>2. y \in Seq(Nat) /\ Len(y) = n
    BY <1>2, <2>1, FunctionIsSeq
  <2>3. /\ x \in Seq(Nat) /\ Len(x) = n + 1 /\ x[k] = 0
        /\ \A i \in 1..n : x[Skip(n, k)[i]] = y[i]
    <3>1. k \in 1..(Len(y) + 1) /\ 0 \in Nat
      BY <1>2, <2>2
    <3>2. IsInserted(x, y, k, 0, Nat)
      BY <1>2, <2>2, <3>1, InsertedParts
    <3> HIDE DEF x
    <3> QED BY <2>2, <3>1, <3>2 DEF IsInserted
  <2> HIDE DEF x
  <2>4. x \in [1..(n + 1) -> Nat]
    BY <2>3
  <2>5. x \in Indices(l.shape) /\ Offset(l, x) = Offset(m, y)
    <3>1. LacksAxis(m, l, k) /\ x \in [1..(Len(m.shape) + 1) -> Nat]
          /\ y \in [1..Len(m.shape) -> Nat] /\ x[k] = 0
          /\ \A i \in 1..Len(m.shape) : y[i] = x[Skip(Len(m.shape), k)[i]]
      BY <1>5, <2>1, <2>3, <2>4
    <3>2. SameElement(m, y, l, x)
      BY <3>1, UnitAxis
    <3> QED BY <3>2 DEF SameElement
  <2> QED BY <1>4, <2>5 DEF x
<1> QED BY <1>4, <1>6, <1>7, ViewShows DEF m, b

-------------------------------------------------------------------------------
(* Numbers in order                                                         *)

\* s lists the numbers of S, each once.
Enumerates(s, S) ==
  LET k == Cardinality(S) IN
  /\ k \in Nat
  /\ s \in [1..k -> S]
  /\ \A i, j \in 1..k : s[i] = s[j] => i = j
  /\ \A p \in S : \E i \in 1..k : s[i] = p

\* InOrder lists a finite set of integers.
LEMMA InOrderLists ==
  ASSUME NEW S \in SUBSET Int, IsFiniteSet(S)
  PROVE  Enumerates(InOrder(S), S)
<1> DEFINE k == Cardinality(S)
           Upto(p) == {q \in S : q <= p}
           rank == [p \in S |-> Cardinality(Upto(p))]
<1>1. k \in Nat /\ IsFiniteSet(1..k) /\ Cardinality(1..k) = k
  <2>1. k \in Nat
    BY FS_CardinalityType
  <2> QED BY <2>1, FS_Interval
<1>2. \A p \in S : /\ p \in Upto(p) /\ Upto(p) \in SUBSET S /\ p \in Int
                   /\ IsFiniteSet(Upto(p))
                   /\ Cardinality(Upto(p)) \in 1..k
  <2> TAKE p \in S
  <2>1. p \in Upto(p) /\ Upto(p) \in SUBSET S /\ p \in Int
    OBVIOUS
  <2> HIDE DEF Upto
  <2>2. IsFiniteSet(Upto(p)) /\ Cardinality(Upto(p)) <= k
    BY <2>1, FS_Subset
  <2>3. Cardinality(Upto(p)) \in Nat /\ Cardinality(Upto(p)) # 0
    BY <2>1, <2>2, FS_CardinalityType, FS_EmptySet
  <2> QED BY <1>1, <2>1, <2>2, <2>3
<1>3. ASSUME NEW p \in S, NEW q \in S, p < q PROVE Cardinality(Upto(p)) # Cardinality(Upto(q))
  <2>0. p \in Int /\ q \in Int /\ ~(q <= p) /\ \A e \in S : e \in Int /\ (e <= p => e <= q)
    BY <1>3
  <2>1. Upto(p) \in SUBSET Upto(q) /\ q \in Upto(q) /\ q \notin Upto(p)
    <3>1. q \in Upto(q) /\ q \notin Upto(p)
      BY <2>0
    <3>2. \A e \in Upto(p) : e \in Upto(q)
      BY <2>0
    <3> QED BY <3>1, <3>2
  <2> HIDE DEF Upto
  <2> QED BY <1>2, <2>1, FS_Subset
<1>4. rank \in Injection(S, 1..k)
  <2>1. rank \in [S -> 1..k]
    BY <1>2
  <2>2. \A p, q \in S : rank[p] = rank[q] => p = q
    <3> TAKE p, q \in S
    <3>1. p < q \/ q < p \/ p = q
      BY <1>2
    <3> QED BY <1>3, <3>1
  <2> HIDE DEF rank
  <2> QED BY <2>1, <2>2 DEF Injection, IsInjective
<1>5. rank \in Surjection(S, 1..k)
  <2> HIDE DEF rank
  <2> QED BY <1>1, <1>4, FS_Injection
<1>6. \A i \in 1..k : InOrder(S)[i] \in S /\ Cardinality(Upto(InOrder(S)[i])) = i
  <2> TAKE i \in 1..k
  <2>1. InOrder(S)[i] = CHOOSE p \in S : Cardinality(Upto(p)) = i
    BY DEF InOrder
  <2>2. \E p \in S : Cardinality(Upto(p)) = i
    BY <1>5 DEF Surjection
  <2> HIDE DEF Upto
  <2> QED BY <2>1, <2>2
<1>7. InOrder(S) \in [1..k -> S]
  <2> DEFINE s == InOrder(S)
  <2>1. DOMAIN s = 1..k /\ s = [i \in DOMAIN s |-> s[i]]
    <3> DEFINE E(i) == CHOOSE p \in S : Cardinality({q \in S : q <= p}) = i
    <3>1. s = [i \in 1..k |-> E(i)]
      BY DEF InOrder
    <3> HIDE DEF s, k, E
    <3> QED BY ONLY <3>1
  <2>2. \A i \in 1..k : s[i] \in S
    BY <1>6
  <2> HIDE DEF s, k
  <2>3. s \in [1..k -> S]
    BY <2>1, <2>2
  <2> QED BY <2>3 DEF s
<1> DEFINE s == InOrder(S)
<1>8. \A i, j \in 1..k : s[i] = s[j] => i = j
  <2> HIDE DEF Upto
  <2> QED BY <1>6
<1>9. ASSUME NEW p \in S PROVE \E i \in 1..k : s[i] = p
  <2>1. PICK i \in 1..k : i = Cardinality(Upto(p))
    BY <1>2
  <2>2. s[i] \in S /\ Cardinality(Upto(s[i])) = Cardinality(Upto(p))
    BY <1>6, <2>1
  <2> HIDE DEF Upto, s
  <2>3. s[i] = p
    <3>0. s[i] \in Int /\ p \in Int
      BY <2>2
    <3>1. s[i] < p \/ p < s[i] \/ s[i] = p
      BY <3>0
    <3> QED BY <1>3, <2>2, <3>1
  <2> QED BY <2>3
<1> QED BY <1>1, <1>7, <1>8, <1>9 DEF Enumerates

\* The numbers s lists, when s goes upwards, are in the order of s.
LEMMA InOrderOf ==
  ASSUME NEW k \in Nat, NEW s \in [1..k -> Int],
         \A i, j \in 1..k : i < j => s[i] < s[j],
         NEW S, S = {s[i] : i \in 1..k}
  PROVE  InOrder(S) = s
<1> DEFINE Upto(p) == {q \in S : q <= p}
<1>1. ASSUME NEW i \in 1..k PROVE s[i] \in S /\ Cardinality(Upto(s[i])) = i
  <2> DEFINE f == [j \in 1..i |-> s[j]]
  <2>1. \A j \in 1..k : s[j] <= s[i] <=> j <= i
    <3> TAKE j \in 1..k
    <3>1. s[j] \in Int /\ s[i] \in Int
      OBVIOUS
    <3>2. j < i \/ i < j \/ i = j
      OBVIOUS
    <3> QED BY <3>1, <3>2
  <2>2. f \in Bijection(1..i, Upto(s[i]))
    <3>1. \A j \in 1..i : f[j] = s[j] /\ j \in 1..k /\ f[j] \in Upto(s[i])
      BY <2>1
    <3>2. f \in [1..i -> Upto(s[i])]
      BY <3>1
    <3>3. \A p, q \in 1..i : f[p] = f[q] => p = q
      <4> TAKE p, q \in 1..i
      <4>1. s[p] \in Int /\ s[q] \in Int /\ p \in 1..k /\ q \in 1..k
        OBVIOUS
      <4>2. p < q \/ q < p \/ p = q
        OBVIOUS
      <4> QED BY <3>1, <4>1, <4>2
    <3>4. \A p \in Upto(s[i]) : \E j \in 1..i : f[j] = p
      BY <2>1, <3>1
    <3> HIDE DEF f, Upto
    <3> QED BY <3>2, <3>3, <3>4 DEF Bijection, Injection, Surjection, IsInjective
  <2> HIDE DEF f, Upto
  <2>3. ExistsBijection(1..i, Upto(s[i])) /\ i \in Nat
    BY <2>2 DEF ExistsBijection
  <2> QED BY <2>3, FS_CountingElements
<1>2. Cardinality(S) = k
  <2>1. s \in Bijection(1..k, S)
    <3>1. \A p, q \in 1..k : s[p] = s[q] => p = q
      <4> TAKE p, q \in 1..k
      <4>1. s[p] \in Int /\ s[q] \in Int
        OBVIOUS
      <4>2. p < q \/ q < p \/ p = q
        OBVIOUS
      <4> QED BY <4>1, <4>2
    <3> QED BY <3>1 DEF Bijection, Injection, Surjection, IsInjective
  <2>2. ExistsBijection(1..k, S)
    BY <2>1 DEF ExistsBijection
  <2> QED BY <2>2, FS_CountingElements
<1>3. ASSUME NEW i \in 1..k PROVE (CHOOSE p \in S : Cardinality(Upto(p)) = i) = s[i]
  <2>1. ASSUME NEW p \in S, Cardinality(Upto(p)) = i PROVE p = s[i]
    <3>1. PICK j \in 1..k : p = s[j]
      OBVIOUS
    <3>2. j = i
      BY <1>1, <2>1, <3>1
    <3> QED BY <3>1, <3>2
  <2>2. s[i] \in S /\ Cardinality(Upto(s[i])) = i
    BY <1>1
  <2> HIDE DEF Upto
  <2> QED BY <2>1, <2>2
<1>4. InOrder(S) = [i \in 1..k |-> CHOOSE p \in S : Cardinality(Upto(p)) = i]
  BY <1>2 DEF InOrder
<1>5. s = [i \in 1..k |-> s[i]]
  OBVIOUS
<1> HIDE DEF Upto
<1> QED BY <1>3, <1>4, <1>5

-------------------------------------------------------------------------------
(* What each view does, continued                                           *)

LongAxes(l) == {i \in DOMAIN l.shape : l.shape[i] # 1}

\* squeeze picks the axes that have not one element.
LEMMA LongAxesPicked ==
  ASSUME NEW l, IsLayout(l)
  PROVE  /\ Enumerates(InOrder(LongAxes(l)), LongAxes(l))
         /\ PicksAxes(l, Cardinality(LongAxes(l)), InOrder(LongAxes(l)))
         /\ Squeeze(l) = Permute(l, InOrder(LongAxes(l)))
<1> DEFINE n == Len(l.shape)
           S == LongAxes(l)
           k == Cardinality(S)
           long == InOrder(S)
<1>1. n \in Nat /\ DOMAIN l.shape = 1..n
  BY LayoutParts
<1>2. S \in SUBSET (1..n)
  BY <1>1 DEF LongAxes
<1> HIDE DEF S
<1>3. Enumerates(long, S)
  <2>1. IsFiniteSet(1..n)
    BY <1>1, FS_Interval
  <2>2. S \in SUBSET Int
    BY <1>2
  <2>3. IsFiniteSet(S)
    BY <1>2, <2>1, FS_Subset
  <2> QED BY <2>2, <2>3, InOrderLists
<1> HIDE DEF long
<1>4. PicksAxes(l, k, long)
  <2>1. k \in Nat /\ long \in [1..k -> S] /\ \A i, j \in 1..k : long[i] = long[j] => i = j
    BY <1>3 DEF Enumerates
  <2>2. long \in [1..k -> 1..Len(l.shape)]
    BY <1>2, <2>1
  <2> QED BY <2>1, <2>2, PickedAxes
<1>5. Squeeze(l) = Permute(l, long)
  BY DEF Squeeze, long, S, LongAxes
<1> QED BY <1>3, <1>4, <1>5 DEF long, S, k

\* squeeze
LEMMA SqueezeShows ==
  ASSUME NEW l, NEW a, NEW N, Shows(l, a, N)
  PROVE  Shows(Squeeze(l), WithoutUnitAxes(a), N)
<1> DEFINE n == Len(l.shape)
           S == {i \in DOMAIN l.shape : l.shape[i] # 1}
           k == Cardinality(S)
           long == InOrder(S)
           m == Squeeze(l)
           b == WithoutUnitAxes(a)
           Y(x) == CHOOSE y \in Indices(l.shape) : \A i \in DOMAIN long : y[long[i]] = x[i]
<1>1. IsLayout(l) /\ l.shape = a.shape
  BY DEF Shows
<1>2. /\ n \in Nat /\ DOMAIN l.shape = 1..n /\ l.shape \in Seq(Nat)
      /\ \A i \in 1..n : l.shape[i] \in Nat
  BY <1>1, LayoutParts
<1>3. m = Permute(l, long)
  BY DEF Squeeze
<1>4. /\ b.shape = [i \in DOMAIN long |-> l.shape[long[i]]]
      /\ \A x \in Indices(b.shape) : b.elem[x] = a.elem[Y(x)]
  BY <1>1 DEF WithoutUnitAxes, Through
<1> HIDE DEF m, b, n
<1>5. S \in SUBSET (1..n) /\ \A j \in 1..n : j \notin S <=> l.shape[j] = 1
  BY <1>2
<1> HIDE DEF S
<1>6. Enumerates(long, S)
  BY <1>1, LongAxesPicked DEF LongAxes, S, long
<1> HIDE DEF long
<1>7. /\ k \in Nat
      /\ long \in [1..k -> S] /\ DOMAIN long = 1..k
      /\ \A i, j \in 1..k : long[i] = long[j] => i = j
      /\ \A p \in S : \E i \in 1..k : long[i] = p
  BY <1>6 DEF Enumerates
<1> HIDE DEF k
<1>8. PicksAxes(l, k, long)
  BY <1>1, LongAxesPicked DEF LongAxes, S, k, long
<1>9. /\ IsLayout(m) /\ m.shape = b.shape
      /\ \A x \in Indices(m.shape) : x \in [1..k -> Nat] /\ \A i \in 1..k : x[i] < l.shape[long[i]]
  BY <1>3, <1>4, <1>8 DEF PicksAxes
<1>10. ASSUME NEW x \in Indices(m.shape)
       PROVE  \E y \in Indices(l.shape) : Offset(m, x) = Offset(l, y) /\ b.elem[x] = a.elem[y]
  <2> DEFINE z == [j \in 1..n |-> IF l.shape[j] = 1 THEN 0 ELSE x[CHOOSE i \in 1..k : long[i] = j]]
  <2>1. \A j \in 1..n : z[j] \in Nat /\ z[j] < l.shape[j]
    <3> TAKE j \in 1..n
    <3>1. CASE l.shape[j] = 1
      BY <3>1
    <3>2. CASE l.shape[j] # 1
      <4> DEFINE i == CHOOSE i \in 1..k : long[i] = j
      <4>1. j \in S
        BY <1>5, <3>2
      <4>2. i \in 1..k /\ long[i] = j
        BY <1>7, <4>1
      <4>3. z[j] = x[i]
        BY <3>2
      <4> HIDE DEF i, z
      <4> QED BY <1>9, <4>2, <4>3
    <3> QED BY <3>1, <3>2
  <2>2. \A i \in 1..k : z[long[i]] = x[i]
    <3> TAKE i \in 1..k
    <3>0. long[i] \in S
      BY <1>7
    <3>1. long[i] \in 1..n /\ l.shape[long[i]] # 1
      BY <1>5, <3>0
    <3>2. (CHOOSE p \in 1..k : long[p] = long[i]) = i
      BY <1>7
    <3> QED BY <3>1, <3>2
  <2>3. z \in [1..n -> Nat]
    BY <2>1
  <2> HIDE DEF z
  <2>4. z \in Indices(l.shape)
    <3>1. Len(l.shape) = n
      BY DEF n
    <3> QED BY <1>2, <2>1, <2>3, <3>1, IndicesAre
  <2> DEFINE y == Y(x)
  <2>5. y \in Indices(l.shape) /\ \A i \in 1..k : y[long[i]] = x[i]
    <3>1. \E q \in Indices(l.shape) : \A i \in DOMAIN long : q[long[i]] = x[i]
      BY <1>7, <2>2, <2>4
    <3> QED BY <1>7, <3>1
  <2>6. b.elem[x] = a.elem[y]
    BY <1>4, <1>9
  <2> HIDE DEF y
  <2>7. \A j \in 1..Len(l.shape) : (\A i \in 1..k : long[i] # j) => y[j] = 0
    <3> SUFFICES ASSUME NEW j \in 1..n, \A i \in 1..k : long[i] # j PROVE y[j] = 0
      BY DEF n
    <3>1. l.shape[j] = 1
      BY <1>5, <1>7
    <3>2. y[j] \in Nat /\ y[j] < l.shape[j]
      <4>1. Len(l.shape) = n
        BY DEF n
      <4>2. y \in [1..n -> Nat] /\ \A i \in 1..n : y[i] < l.shape[i]
        BY <1>2, <2>5, <4>1, IndicesAre
      <4> QED BY <4>2
    <3> QED BY <3>1, <3>2
  <2>8. Offset(m, x) = Offset(l, y)
    <3>1. x \in Indices(Permute(l, long).shape)
      BY <1>3
    <3>2. Offset(Permute(l, long), x) = Offset(l, y)
      BY <1>8, <2>5, <2>7, <3>1 DEF PicksAxes
    <3> QED BY <1>3, <3>2
  <2> QED BY <2>5, <2>6, <2>8
<1> QED BY <1>1, <1>9, <1>10, ViewShows DEF m, b

\* broadcast_to makes a layout.
LEMMA BroadcastLayout ==
  ASSUME NEW l, IsLayout(l), NEW shape \in Seq(Nat), Len(shape) >= Len(l.shape)
  PROVE  IsLayout(BroadcastTo(l, shape))
<1> DEFINE n == Len(l.shape)
           p == Len(shape)
           lead == p - n
           m == BroadcastTo(l, shape)
<1>1. n \in Nat /\ l.offset \in Int /\ \A i \in 1..n : l.strides[i] \in Int
  BY LayoutParts
<1>2. p \in Nat /\ DOMAIN shape = 1..p /\ lead \in Nat /\ lead + n = p
  BY <1>1
<1>3. /\ m.shape = shape /\ m.offset = l.offset
      /\ m.strides = [j \in 1..p |-> IF j <= lead \/ l.shape[j - lead] # shape[j] THEN 0
                                     ELSE l.strides[j - lead]]
  BY <1>2 DEF BroadcastTo, BroadcastStrides
<1> HIDE DEF m, n, p, lead
<1>4. ASSUME NEW j \in 1..p, ~(j <= lead) PROVE l.strides[j - lead] \in Int
  <2>1. j - lead \in 1..n
    BY <1>1, <1>2, <1>4
  <2> QED BY <1>1, <2>1
<1>5. m.strides \in [1..p -> Int]
  BY <1>3, <1>4
<1>6. m.strides \in Seq(Int) /\ Len(m.strides) = p
  BY <1>2, <1>5, FunctionIsSeq
<1> QED BY <1>1, <1>3, <1>6 DEF IsLayout, m, p

\* broadcast_to
LEMMA BroadcastShows ==
  ASSUME NEW l, NEW a, NEW N, Shows(l, a, N), NEW shape \in Seq(Nat), Broadcastable(l, shape)
  PROVE  Shows(BroadcastTo(l, shape), Broadcasted(a, shape), N)
<1> DEFINE n == Len(l.shape)
           p == Len(shape)
           lead == p - n
           m == BroadcastTo(l, shape)
           b == Broadcasted(a, shape)
           Y(x) == [i \in DOMAIN l.shape |-> IF l.shape[i] = 1 THEN 0 ELSE x[lead + i]]
<1>1. IsLayout(l) /\ l.shape = a.shape
  BY DEF Shows
<1>2. /\ n \in Nat /\ DOMAIN l.shape = 1..n /\ l.shape \in Seq(Nat) /\ l.offset \in Int
      /\ \A i \in 1..n : l.shape[i] \in Nat /\ l.strides[i] \in Int
  BY <1>1, LayoutParts
<1>3. p \in Nat /\ DOMAIN shape = 1..p /\ \A j \in 1..p : shape[j] \in Nat
  OBVIOUS
<1>4. /\ lead \in Nat /\ lead + n = p
      /\ \A i \in 1..n : l.shape[i] = 1 \/ l.shape[i] = shape[lead + i]
  <2>1. lead >= 0 /\ \A i \in 1..n : l.shape[i] = 1 \/ l.shape[i] = shape[lead + i]
    BY <1>2 DEF Broadcastable
  <2>2. p - n \in Int /\ (p - n) + n = p
    BY <1>2, <1>3
  <2> HIDE DEF n, p
  <2> QED BY <1>2, <1>3, <2>1, <2>2
<1>5. /\ m.shape = shape /\ m.offset = l.offset
      /\ m.strides = [j \in 1..p |-> IF j <= lead \/ l.shape[j - lead] # shape[j] THEN 0
                                     ELSE l.strides[j - lead]]
  BY <1>3 DEF BroadcastTo, BroadcastStrides
<1>6. /\ b.shape = shape
      /\ \A x \in Indices(shape) : b.elem[x] = a.elem[Y(x)]
  BY <1>1 DEF Broadcasted, Through
<1> HIDE DEF m, b
<1>7. IsLayout(m)
  BY <1>1, <1>4, BroadcastLayout DEF m
<1> HIDE DEF n, p, lead
<1>8. ASSUME NEW x \in Indices(m.shape)
      PROVE  \E y \in Indices(l.shape) : Offset(m, x) = Offset(l, y) /\ b.elem[x] = a.elem[y]
  <2> DEFINE y == Y(x)
             f == Moves(m, x)
             g == Moves(l, y)
             T == (lead + 1)..p
             h == [i \in 1..n |-> lead + i]
  <2>1. b.elem[x] = a.elem[y]
    BY <1>5, <1>6
  <2>2. x \in [1..p -> Nat] /\ \A j \in 1..p : x[j] < shape[j]
    BY <1>5, IndicesAre DEF p
  <2>3. \A i \in 1..n : /\ y[i] = IF l.shape[i] = 1 THEN 0 ELSE x[lead + i]
                        /\ lead + i \in 1..p /\ lead + i \in T
                        /\ y[i] \in Nat /\ y[i] < l.shape[i]
    <3> TAKE i \in 1..n
    <3>0. n \in Nat /\ p \in Nat /\ lead \in Nat /\ lead + n = p
      BY <1>2, <1>3, <1>4
    <3>1. lead + i \in 1..p /\ lead + i \in T
      BY ONLY <3>0, i \in 1..n
    <3>2. y[i] = IF l.shape[i] = 1 THEN 0 ELSE x[lead + i]
      BY <1>2
    <3> HIDE DEF y
    <3>3. y[i] \in Nat /\ y[i] < l.shape[i]
      BY <1>4, <2>2, <3>1, <3>2
    <3> QED BY <3>1, <3>2, <3>3
  <2>4. y \in [1..n -> Nat]
    BY <1>2, <2>3
  <2> HIDE DEF y
  <2>5. y \in Indices(l.shape)
    <3>1. Len(l.shape) = n
      BY DEF n
    <3> QED BY <1>2, <2>3, <2>4, <3>1, IndicesAre
  <2>6. /\ Offset(m, x) = m.offset + SumFunctionOnSet(f, 1..p)
        /\ \A j \in 1..p : f[j] \in Int /\ f[j] = x[j] * m.strides[j]
        /\ IsFiniteSet(1..p)
    <3>1. Len(m.shape) = p
      BY <1>5 DEF p
    <3>2. x \in [1..Len(m.shape) -> Int]
      BY <1>7, OffsetOfIndex
    <3> QED BY <1>7, <3>1, <3>2, OffsetIs
  <2>7. /\ Offset(l, y) = l.offset + SumFunctionOnSet(g, 1..n)
        /\ \A i \in 1..n : g[i] \in Int /\ g[i] = y[i] * l.strides[i]
        /\ IsFiniteSet(1..n)
    <3>1. y \in [1..Len(l.shape) -> Int]
      BY <1>1, <2>5, OffsetOfIndex
    <3> QED BY <1>1, <3>1, OffsetIs DEF n
  <2> HIDE DEF f, g
  <2>8. \A j \in (1..p) \ T : f[j] = 0
    <3> TAKE j \in (1..p) \ T
    <3>1. j \in 1..p /\ j <= lead
      BY <1>3, <1>4
    <3>2. m.strides[j] = 0 /\ x[j] \in Nat
      BY <1>5, <2>2, <3>1
    <3>3. f[j] = x[j] * 0
      BY <2>6, <3>1, <3>2
    <3> QED BY <3>2, <3>3
  <2>9. \A i \in 1..n : g[i] \in Int /\ g[i] = f[h[i]]
    <3> TAKE i \in 1..n
    <3>1. /\ lead + i \in 1..p /\ ~(lead + i <= lead) /\ (lead + i) - lead = i
          /\ h[i] = lead + i
      BY <1>2, <1>4, <2>3
    <3>2. m.strides[lead + i] = IF l.shape[i] # shape[lead + i] THEN 0 ELSE l.strides[i]
      BY <1>5, <3>1
    <3>3. /\ f[lead + i] = x[lead + i] * m.strides[lead + i] /\ g[i] = y[i] * l.strides[i]
          /\ l.strides[i] \in Int /\ x[lead + i] \in Nat /\ x[lead + i] < shape[lead + i]
          /\ y[i] = IF l.shape[i] = 1 THEN 0 ELSE x[lead + i]
      BY <1>2, <2>2, <2>3, <2>6, <2>7, <3>1
    <3>4. CASE l.shape[i] # shape[lead + i]
      <4>1. l.shape[i] = 1
        BY <1>4, <3>4
      <4>2. f[lead + i] = x[lead + i] * 0 /\ g[i] = 0 * l.strides[i]
        BY <3>2, <3>3, <3>4, <4>1
      <4> QED BY <2>7, <3>1, <3>3, <4>2
    <3>5. CASE l.shape[i] = shape[lead + i]
      <4>1. y[i] = x[lead + i]
        BY <3>3, <3>5
      <4> QED BY <2>7, <3>1, <3>2, <3>3, <3>5, <4>1
    <3> QED BY <3>4, <3>5
  <2>10. h \in Bijection(1..n, T)
    <3>1. \A i \in 1..n : h[i] = lead + i /\ h[i] \in T
      BY <2>3
    <3>2. \A i, j \in 1..n : h[i] = h[j] => i = j
      BY <1>2, <1>4
    <3>3. \A j \in T : \E i \in 1..n : h[i] = j
      <4> TAKE j \in T
      <4>1. j - lead \in 1..n /\ lead + (j - lead) = j
        BY <1>2, <1>3, <1>4
      <4> QED BY <3>1, <4>1
    <3>4. h \in [1..n -> T]
      BY <3>1
    <3> HIDE DEF h, T
    <3> QED BY <3>2, <3>3, <3>4 DEF Bijection, Injection, Surjection, IsInjective
  <2> DEFINE P == 1..p
             Q == 1..n
  <2>11. T \in SUBSET P
    BY <1>3, <1>4
  <2> HIDE DEF h, T, P, Q
  <2>12. SumFunctionOnSet(f, P) = SumFunctionOnSet(f, T)
    BY <2>6, <2>8, <2>11, SumSupport DEF P
  <2>13. SumFunctionOnSet(g, Q) = SumFunctionOnSet(f, T)
    <3>1. IsFiniteSet(Q) /\ h \in Bijection(Q, T) /\ \A i \in Q : g[i] \in Int /\ g[i] = f[h[i]]
      BY <2>7, <2>9, <2>10 DEF Q
    <3> QED BY ONLY <3>1, SumReindex
  <2>14. Offset(m, x) = Offset(l, y)
    BY <1>5, <2>6, <2>7, <2>12, <2>13 DEF P, Q
  <2> QED BY <2>1, <2>5, <2>14
<1> QED BY <1>5, <1>6, <1>7, <1>8, ViewShows DEF m, b

\* Sums of the same numbers are the same.
LEMMA SumSame ==
  ASSUME NEW S, IsFiniteSet(S), NEW f, NEW h, \A x \in S : f[x] \in Int /\ f[x] = h[x]
  PROVE  SumFunctionOnSet(f, S) = SumFunctionOnSet(h, S)
<1>1. /\ \A x \in S : f[x] \in Int /\ h[x] \in Int /\ f[x] <= h[x]
      /\ \A x \in S : h[x] \in Int /\ f[x] \in Int /\ h[x] <= f[x]
  OBVIOUS
<1>2. SumFunctionOnSet(f, S) <= SumFunctionOnSet(h, S)
  BY ONLY <1>1, IsFiniteSet(S), SumMonotone
<1>3. SumFunctionOnSet(h, S) <= SumFunctionOnSet(f, S)
  BY ONLY <1>1, IsFiniteSet(S), SumMonotone
<1>4. SumFunctionOnSet(f, S) \in Int /\ SumFunctionOnSet(h, S) \in Int
  BY <1>1, SumRemove
<1> QED BY <1>2, <1>3, <1>4

\* Two layouts whose axes are the same but one, and indices that are.
SameButOne(l, y, m, x, k) ==
  /\ IsLayout(l) /\ IsLayout(m) /\ Len(m.shape) = Len(l.shape)
  /\ k \in 1..Len(l.shape)
  /\ x \in [1..Len(l.shape) -> Int] /\ y \in [1..Len(l.shape) -> Int]
  /\ \A i \in 1..Len(l.shape) : i # k => m.strides[i] = l.strides[i] /\ x[i] = y[i]

\* If only one axis differs, and adds the same, offsets are the same.
LEMMA OneAxis ==
  ASSUME NEW l, NEW y, NEW m, NEW x, NEW k, SameButOne(l, y, m, x, k),
         m.offset + x[k] * m.strides[k] = l.offset + y[k] * l.strides[k]
  PROVE  Offset(m, x) = Offset(l, y)
<1> USE DEF SameButOne
<1> DEFINE n == Len(l.shape)
           D == 1..n
           f == Moves(m, x)
           g == Moves(l, y)
           R == D \ {k}
<1>1. l.offset \in Int /\ m.offset \in Int
  BY LayoutParts
<1>2. /\ Offset(m, x) = m.offset + SumFunctionOnSet(f, D)
      /\ \A i \in D : f[i] \in Int /\ f[i] = x[i] * m.strides[i]
      /\ IsFiniteSet(D)
  <2>1. x \in [1..Len(m.shape) -> Int] /\ D = 1..Len(m.shape)
    OBVIOUS
  <2> HIDE DEF D
  <2> QED BY <2>1, OffsetIs
<1>3. /\ Offset(l, y) = l.offset + SumFunctionOnSet(g, D)
      /\ \A i \in D : g[i] \in Int /\ g[i] = y[i] * l.strides[i]
  BY OffsetIs
<1>4. k \in D
  OBVIOUS
<1>5. \A i \in R : f[i] \in Int /\ f[i] = g[i]
  BY <1>2, <1>3
<1>6. IsFiniteSet(R) /\ \A i \in R : g[i] \in Int
  BY <1>2, <1>3, FS_RemoveElement
<1>7. f[k] + m.offset = g[k] + l.offset
  BY <1>1, <1>2, <1>3, <1>4
<1> HIDE DEF D, f, g
<1>8. SumFunctionOnSet(f, D) = f[k] + SumFunctionOnSet(f, R)
  BY <1>2, <1>4, SumRemove
<1>9. SumFunctionOnSet(g, D) = g[k] + SumFunctionOnSet(g, R)
  <2>1. IsFiniteSet(D) /\ k \in D /\ \A i \in D : g[i] \in Int
    BY <1>2, <1>3, <1>4
  <2> QED BY ONLY <2>1, SumRemove DEF R
<1> HIDE DEF R
<1>10. SumFunctionOnSet(f, R) = SumFunctionOnSet(g, R)
  BY ONLY <1>5, <1>6, SumSame
<1>11. SumFunctionOnSet(g, R) \in Int
  BY <1>6, SumRemove
<1>12. f[k] \in Int /\ g[k] \in Int
  BY <1>2, <1>3, <1>4
<1>13. Offset(m, x) = m.offset + SumFunctionOnSet(f, D) /\ Offset(l, y) = l.offset + SumFunctionOnSet(g, D)
  BY <1>2, <1>3
<1>14. \A o, p, u, v, s \in Int : u + p = v + o => p + (u + s) = o + (v + s)
  OBVIOUS
<1>15. m.offset + (f[k] + SumFunctionOnSet(g, R)) = l.offset + (g[k] + SumFunctionOnSet(g, R))
  BY ONLY <1>1, <1>7, <1>11, <1>12, <1>14
<1>16. Offset(m, x) = m.offset + (f[k] + SumFunctionOnSet(g, R))
  BY ONLY <1>8, <1>10, <1>13
<1>17. Offset(l, y) = l.offset + (g[k] + SumFunctionOnSet(g, R))
  BY ONLY <1>9, <1>13
<1> QED BY ONLY <1>15, <1>16, <1>17

\* Buffer::flip
LEMMA FlipShows ==
  ASSUME NEW l, NEW a, NEW N, Shows(l, a, N), NEW k \in 1..Len(l.shape)
  PROVE  Shows(Flip(l, k), Flipped(a, k), N)
<1> DEFINE n == Len(l.shape)
           m == Flip(l, k)
           b == Flipped(a, k)
           Y(x) == [x EXCEPT ![k] = l.shape[k] - 1 - @]
           back == IF l.shape[k] > 0 THEN (l.shape[k] - 1) * l.strides[k] ELSE 0
<1>1. IsLayout(l) /\ l.shape = a.shape
  BY DEF Shows
<1>2. /\ n \in Nat /\ DOMAIN l.shape = 1..n /\ l.shape \in Seq(Nat) /\ l.offset \in Int
      /\ l.strides \in Seq(Int) /\ Len(l.strides) = n /\ DOMAIN l.strides = 1..n
      /\ \A i \in 1..n : l.shape[i] \in Nat /\ l.strides[i] \in Int
  BY <1>1, LayoutParts
<1>3. /\ m.shape = l.shape /\ m.offset = l.offset + back
      /\ m.strides = [l.strides EXCEPT ![k] = -@]
  BY DEF Flip
<1>4. b.shape = l.shape /\ \A x \in Indices(l.shape) : b.elem[x] = a.elem[Y(x)]
  BY <1>1 DEF Flipped, Through
<1> HIDE DEF m, b, n
<1>5. /\ l.strides[k] \in Int /\ l.shape[k] \in Nat /\ k \in 1..n
      /\ -l.strides[k] \in Int /\ back \in Int
      /\ l.shape[k] > 0 => back = (l.shape[k] - 1) * l.strides[k]
  <2>1. \A p, q \in Int : p * q \in Int
    OBVIOUS
  <2>2. k \in 1..n
    BY DEF n
  <2>3. l.strides[k] \in Int /\ l.shape[k] \in Nat
    BY <1>2, <2>2
  <2> QED BY <2>1, <2>2, <2>3
<1> HIDE DEF back
<1>6. /\ m.strides[k] = -l.strides[k]
      /\ \A i \in 1..n : i # k => m.strides[i] = l.strides[i]
      /\ m.strides \in Seq(Int) /\ Len(m.strides) = n
  <2>1. m.strides \in [1..n -> Int]
    BY <1>2, <1>3, <1>5
  <2> QED BY <1>2, <1>3, <1>5, <2>1, FunctionIsSeq
<1>7. IsLayout(m)
  BY <1>2, <1>3, <1>5, <1>6 DEF IsLayout, n
<1>8. ASSUME NEW x \in Indices(m.shape)
      PROVE  \E y \in Indices(l.shape) : Offset(m, x) = Offset(l, y) /\ b.elem[x] = a.elem[y]
  <2> DEFINE y == Y(x)
  <2>1. Len(l.shape) = n /\ b.elem[x] = a.elem[y]
    BY <1>3, <1>4 DEF n
  <2>2. x \in [1..n -> Nat] /\ \A i \in 1..n : x[i] < l.shape[i]
    BY <1>2, <1>3, <2>1, IndicesAre
  <2>3. /\ y[k] = l.shape[k] - 1 - x[k]
        /\ \A i \in 1..n : i # k => y[i] = x[i]
        /\ DOMAIN y = 1..n /\ y = [i \in 1..n |-> y[i]]
    BY <1>5, <2>2
  <2> HIDE DEF y
  <2>4. y[k] \in Nat /\ y[k] < l.shape[k] /\ l.shape[k] > 0
    BY <1>5, <2>2, <2>3
  <2>5. y \in [1..n -> Nat] /\ \A i \in 1..n : y[i] < l.shape[i]
    BY <2>2, <2>3, <2>4
  <2>6. y \in Indices(l.shape)
    BY <1>2, <2>1, <2>5, IndicesAre
  <2>7. m.offset + x[k] * m.strides[k] = l.offset + y[k] * l.strides[k]
    <3>1. \A o, s, d, e \in Int : (o + (d - 1) * s) + e * (-s) = o + (d - 1 - e) * s
      OBVIOUS
    <3>2. x[k] \in Int /\ l.shape[k] \in Int
      BY <1>5, <2>2
    <3>3. m.offset = l.offset + (l.shape[k] - 1) * l.strides[k]
      BY <1>3, <1>5, <2>4
    <3>4. (l.offset + (l.shape[k] - 1) * l.strides[k]) + x[k] * (-l.strides[k])
            = l.offset + (l.shape[k] - 1 - x[k]) * l.strides[k]
      <4>1. l.offset \in Int /\ l.strides[k] \in Int /\ l.shape[k] \in Int /\ x[k] \in Int
        BY <1>2, <1>5, <3>2
      <4> DEFINE o == l.offset
                 s == l.strides[k]
                 d == l.shape[k]
                 e == x[k]
      <4>2. o \in Int /\ s \in Int /\ d \in Int /\ e \in Int
        BY <4>1
      <4> HIDE DEF o, s, d, e
      <4>3. (o + (d - 1) * s) + e * (-s) = o + (d - 1 - e) * s
        BY <4>2, <3>1
      <4> QED BY <4>3 DEF o, s, d, e
    <3> QED BY ONLY <1>6, <2>3, <3>3, <3>4
  <2>8. Offset(m, x) = Offset(l, y)
    <3>1. SameButOne(l, y, m, x, k)
      <4>1. \A i \in 1..n : i # k => m.strides[i] = l.strides[i] /\ x[i] = y[i]
        BY <1>6, <2>3
      <4>2. x \in [1..n -> Int] /\ y \in [1..n -> Int]
        BY <2>2, <2>5
      <4>3. k \in 1..n /\ Len(m.shape) = n
        BY <1>3, <1>5, <2>1
      <4> QED BY ONLY <1>1, <1>7, <2>1, <4>1, <4>2, <4>3 DEF SameButOne
    <3> QED BY ONLY <2>7, <3>1, OneAxis
  <2> QED BY <2>1, <2>6, <2>8
<1> QED BY <1>1, <1>3, <1>4, <1>7, <1>8, ViewShows DEF m, b

\* reshape
LEMMA ReshapeShows ==
  ASSUME NEW l, NEW a, NEW N, Shows(l, a, N), NEW shape \in Seq(Nat),
         IsCContiguous(l), Size(l) = Product(shape)
  PROVE  Shows(Reshape(l, shape), Reshaped(a, shape), N)
<1> DEFINE m == Reshape(l, shape)
           b == Reshaped(a, shape)
           Y(x) == CHOOSE y \in Indices(l.shape) : Position(y, l.shape) = Position(x, shape)
<1>1. IsLayout(l) /\ l.shape = a.shape
  BY DEF Shows
<1>2. l.shape \in Seq(Nat) /\ l.offset \in Int
  BY <1>1, LayoutParts
<1>3. m.shape = shape /\ m.strides = CStrides(shape) /\ m.offset = l.offset
  BY DEF Reshape
<1>4. b.shape = shape /\ \A x \in Indices(shape) : b.elem[x] = a.elem[Y(x)]
  BY <1>1 DEF Reshaped, Through
<1> HIDE DEF m, b
<1>5. IsLayout(m)
  BY <1>2, <1>3, StridesType DEF IsLayout
<1>6. ASSUME NEW x \in Indices(m.shape)
      PROVE  \E y \in Indices(l.shape) : Offset(m, x) = Offset(l, y) /\ b.elem[x] = a.elem[y]
  <2> DEFINE y == Y(x)
  <2>1. b.elem[x] = a.elem[y] /\ x \in Indices(shape)
    BY <1>3, <1>4
  <2>2. Position(x, shape) \in 0..(Product(l.shape) - 1)
    BY <2>1, PositionRange DEF Size
  <2>3. \E p \in Indices(l.shape) : Position(p, l.shape) = Position(x, shape)
    BY <1>2, <2>2, PositionRange
  <2>4. y \in Indices(l.shape) /\ Position(y, l.shape) = Position(x, shape)
    BY <2>3
  <2> HIDE DEF y
  <2>5. ~IsEmpty(l)
    <3>0. y \in Indices(l.shape)
      BY <2>4
    <3>1. y \in [1..Len(l.shape) -> Nat] /\ \A i \in 1..Len(l.shape) : y[i] < l.shape[i]
      BY ONLY <1>2, <3>0, IndicesAre
    <3>2. \A i \in 1..Len(l.shape) : l.shape[i] # 0
      <4> TAKE i \in 1..Len(l.shape)
      <4>1. y[i] \in Nat /\ y[i] < l.shape[i]
        BY <3>1
      <4> QED BY <4>1
    <3>3. DOMAIN l.shape = 1..Len(l.shape)
      BY <1>2
    <3> QED BY <3>2, <3>3 DEF IsEmpty, ToSet
  <2>6. l.strides = CStrides(l.shape)
    BY <2>5 DEF IsCContiguous
  <2>7. Offset(l, y) = l.offset + ItemSize * Position(y, l.shape)
    BY <1>1, <2>4, <2>6, OffsetOfC
  <2>8. Offset(m, x) = m.offset + ItemSize * Position(x, m.shape)
    BY <1>3, <1>5, OffsetOfC
  <2> QED BY <1>3, <2>1, <2>4, <2>7, <2>8
<1> QED BY <1>1, <1>3, <1>4, <1>5, <1>6, ViewShows DEF m, b

\* A sum up to n + 1 is its last number and the sum up to n.
LEMMA SumLast ==
  ASSUME NEW n \in Nat, NEW f, \A i \in 1..(n + 1) : f[i] \in Int
  PROVE  /\ SumFunctionOnSet(f, 1..(n + 1)) = f[n + 1] + SumFunctionOnSet(f, 1..n)
         /\ SumFunctionOnSet(f, 1..n) \in Int
<1>1. IsFiniteSet(1..(n + 1)) /\ IsFiniteSet(1..n)
  BY FS_Interval
<1>2. n + 1 \in 1..(n + 1) /\ (1..(n + 1)) \ {n + 1} = 1..n
  OBVIOUS
<1>3. \A i \in 1..n : f[i] \in Int
  OBVIOUS
<1>4. SumFunctionOnSet(f, 1..(n + 1)) = f[n + 1] + SumFunctionOnSet(f, 1..n)
  <2> DEFINE P == 1..(n + 1)
             e == n + 1
  <2>1. IsFiniteSet(P) /\ e \in P /\ P \ {e} = 1..n /\ \A i \in P : f[i] \in Int
    BY <1>1, <1>2
  <2> HIDE DEF P, e
  <2>2. SumFunctionOnSet(f, P) = f[e] + SumFunctionOnSet(f, P \ {e})
    BY ONLY <2>1, SumRemove
  <2> QED BY <2>1, <2>2 DEF P, e
<1>5. SumFunctionOnSet(f, 1..n) \in Int
  BY <1>1, <1>3, SumRemove
<1> QED BY <1>4, <1>5

\* The smaller of two.
LEMMA MinPair ==
  \A u, v \in Int : Min({u, v}) = IF u <= v THEN u ELSE v
BY DEF Min

\* The larger of two.
LEMMA MaxPair ==
  \A u, v \in Int : Max({u, v}) = IF u >= v THEN u ELSE v
BY DEF Max

IsAppended(t, s, r, e, S) ==
  t \in Seq(S) /\ Len(t) = r /\ t[r] = e /\ \A i \in 1..(r - 1) : t[i] = s[i]

\* What is where after the last axes are replaced by one.
LEMMA AppendedParts ==
  ASSUME NEW S, NEW s \in Seq(S), NEW r \in 1..Len(s), NEW e \in S
  PROVE  IsAppended(Append(SubSeq(s, 1, r - 1), e), s, r, e, S)
BY DEF IsAppended

\* Buffer::diagonal
LEMMA DiagonalShows ==
  ASSUME NEW l, NEW a, NEW N, Shows(l, a, N), Len(l.shape) >= 2, ~IsEmpty(l),
         NEW k \in (1 - l.shape[Len(l.shape) - 1])..(l.shape[Len(l.shape)] - 1)
  PROVE  Shows(Diagonal(l, k), DiagonalOf(a, k), N)
<1> DEFINE r == Len(l.shape) - 1
           m == Diagonal(l, k)
           b == DiagonalOf(a, k)
           row == IF k >= 0 THEN 0 ELSE -k
           col == IF k >= 0 THEN k ELSE 0
           c == Min({l.shape[r] - row, l.shape[r + 1] - col})
           start == [i \in 1..(r + 1) |-> IF i < r THEN 0 ELSE IF i = r THEN row ELSE col]
           Y(x) == [i \in 1..(r + 1) |-> IF i < r THEN x[i] ELSE x[r] + IF i = r THEN row ELSE col]
<1>1. IsLayout(l) /\ l.shape = a.shape
  BY DEF Shows
<1>2. /\ r \in Nat /\ r >= 1 /\ DOMAIN l.shape = 1..(r + 1) /\ Len(l.shape) = r + 1
      /\ l.shape \in Seq(Nat) /\ l.strides \in Seq(Int) /\ Len(l.strides) = r + 1
      /\ l.offset \in Int
      /\ \A i \in 1..(r + 1) : l.shape[i] \in Nat /\ l.strides[i] \in Int
  <2>1. /\ DOMAIN l.shape = 1..Len(l.shape) /\ Len(l.shape) \in Nat
        /\ l.shape \in Seq(Nat) /\ l.strides \in Seq(Int) /\ Len(l.strides) = Len(l.shape)
        /\ l.offset \in Int
        /\ \A i \in 1..Len(l.shape) : l.shape[i] \in Nat /\ l.strides[i] \in Int
    BY <1>1, LayoutParts
  <2>2. r \in Nat /\ r >= 1 /\ Len(l.shape) = r + 1
    BY <2>1
  <2> HIDE DEF r
  <2> QED BY <2>1, <2>2
<1>3. \A i \in 1..(r + 1) : l.shape[i] > 0
  <2> HIDE DEF r
  <2>1. \A i \in DOMAIN l.shape : l.shape[i] # 0
    <3> SUFFICES ASSUME NEW i \in DOMAIN l.shape, l.shape[i] = 0 PROVE FALSE
      OBVIOUS
    <3>1. 0 \in ToSet(l.shape)
      BY DEF ToSet
    <3>2. 0 \notin ToSet(l.shape)
      BY DEF IsEmpty
    <3> QED BY <3>1, <3>2
  <2> TAKE i \in 1..(r + 1)
  <2>2. l.shape[i] \in Nat /\ l.shape[i] # 0
    BY <1>2, <2>1
  <2> QED BY <2>2
<1>4. /\ k \in Int /\ 1 - l.shape[r] <= k /\ k <= l.shape[r + 1] - 1
      /\ l.shape[r] \in Nat /\ l.shape[r + 1] \in Nat /\ l.shape[r] > 0 /\ l.shape[r + 1] > 0
  <2>1. r + 1 = Len(l.shape) /\ r \in 1..(r + 1) /\ r + 1 \in 1..(r + 1)
    BY <1>2
  <2>2. l.shape[r] \in Nat /\ l.shape[r + 1] \in Nat /\ l.shape[r] > 0 /\ l.shape[r + 1] > 0
    BY <1>2, <1>3, <2>1
  <2>3. k \in (1 - l.shape[r])..(l.shape[r + 1] - 1)
    BY <2>1
  <2> HIDE DEF r
  <2> QED BY <2>2, <2>3
<1> HIDE DEF r
<1>5. /\ row \in Nat /\ col \in Nat /\ row < l.shape[r] /\ col < l.shape[r + 1]
      /\ c \in Nat /\ c <= l.shape[r] - row /\ c <= l.shape[r + 1] - col
      /\ Max({-k, 0}) = row /\ Max({k, 0}) = col
      /\ Monus(l.shape[r], row) = l.shape[r] - row
      /\ Monus(l.shape[r + 1], col) = l.shape[r + 1] - col
  <2>1. row \in Nat /\ col \in Nat /\ row < l.shape[r] /\ col < l.shape[r + 1]
    BY <1>4
  <2>2. Max({-k, 0}) = row /\ Max({k, 0}) = col
    <3>1. -k \in Int /\ 0 \in Int /\ k \in Int
      BY <1>4
    <3>2. Max({-k, 0}) = (IF -k >= 0 THEN -k ELSE 0) /\ Max({k, 0}) = IF k >= 0 THEN k ELSE 0
      BY <3>1, MaxPair
    <3> QED BY <3>1, <3>2
  <2> HIDE DEF row, col
  <2>3. l.shape[r] - row \in Nat /\ l.shape[r + 1] - col \in Nat
    <3>1. \A p, q \in Nat : q < p => p - q \in Nat
      OBVIOUS
    <3> QED BY <1>4, <2>1, <3>1
  <2>4. c = IF l.shape[r] - row <= l.shape[r + 1] - col THEN l.shape[r] - row ELSE l.shape[r + 1] - col
    <3> DEFINE u == l.shape[r] - row
               v == l.shape[r + 1] - col
    <3>1. u \in Int /\ v \in Int
      BY <2>3
    <3> HIDE DEF u, v
    <3>2. Min({u, v}) = IF u <= v THEN u ELSE v
      BY <3>1, MinPair
    <3> QED BY <3>2 DEF u, v
  <2>5. c \in Nat /\ c <= l.shape[r] - row /\ c <= l.shape[r + 1] - col
    <3> HIDE DEF c
    <3> QED BY <2>3, <2>4
  <2>6. Monus(l.shape[r], row) = l.shape[r] - row /\ Monus(l.shape[r + 1], col) = l.shape[r + 1] - col
    BY <1>4, <2>1 DEF Monus
  <2> QED BY <2>1, <2>2, <2>5, <2>6
<1>6. /\ m.shape = Append(SubSeq(l.shape, 1, r - 1), c)
      /\ m.strides = Append(SubSeq(l.strides, 1, r - 1), l.strides[r] + l.strides[r + 1])
      /\ m.offset = Offset(l, start)
  BY <1>2, <1>5 DEF Diagonal, r
<1>7. /\ b.shape = Append(SubSeq(l.shape, 1, r - 1), c)
      /\ \A x \in Indices(b.shape) : b.elem[x] = a.elem[Y(x)]
  BY <1>1, <1>5 DEF DiagonalOf, Through, r
<1> HIDE DEF m, b, row, col, c
<1>8. /\ m.shape \in Seq(Nat) /\ Len(m.shape) = r /\ m.shape[r] = c
      /\ \A i \in 1..(r - 1) : m.shape[i] = l.shape[i]
  <2>1. r \in 1..Len(l.shape)
    BY <1>2
  <2>2. IsAppended(m.shape, l.shape, r, c, Nat)
    BY <1>2, <1>5, <1>6, <2>1, AppendedParts
  <2> QED BY <2>2 DEF IsAppended
<1>9. /\ m.strides \in Seq(Int) /\ Len(m.strides) = r /\ m.strides[r] = l.strides[r] + l.strides[r + 1]
      /\ \A i \in 1..(r - 1) : m.strides[i] = l.strides[i]
  <2>1. r \in 1..Len(l.strides)
    BY <1>2
  <2>2. l.strides[r] + l.strides[r + 1] \in Int
    <3>1. r \in 1..(r + 1) /\ r + 1 \in 1..(r + 1)
      BY <1>2
    <3>2. l.strides[r] \in Int /\ l.strides[r + 1] \in Int
      BY <1>2, <3>1
    <3> QED BY <3>2
  <2>3. IsAppended(m.strides, l.strides, r, l.strides[r] + l.strides[r + 1], Int)
    BY <1>2, <1>6, <2>1, <2>2, AppendedParts
  <2> QED BY <2>3 DEF IsAppended
<1> DEFINE R == 1..(r - 1)
           s == l.strides[r]
           t == l.strides[r + 1]
<1>10. /\ R \in SUBSET (1..r) /\ R \in SUBSET (1..(r + 1)) /\ IsFiniteSet(R)
       /\ r \in 1..r /\ r \in 1..(r + 1) /\ r + 1 \in 1..(r + 1)
       /\ s \in Int /\ t \in Int /\ r - 1 \in Nat /\ (r - 1) + 1 = r
       /\ \A i \in R : i < r
  <2>1. IsFiniteSet(R)
    BY <1>2, FS_Interval
  <2>2. r \in 1..r /\ r \in 1..(r + 1) /\ r + 1 \in 1..(r + 1) /\ r - 1 \in Nat /\ (r - 1) + 1 = r
        /\ \A i \in R : i < r /\ i \in 1..r /\ i \in 1..(r + 1)
    BY <1>2
  <2> QED BY <1>2, <2>1, <2>2
<1> HIDE DEF R, s, t
\* The moves of an index on the last two axes and on the others.
<1>11. ASSUME NEW y \in [1..(r + 1) -> Int]
       PROVE  LET g == Moves(l, y) IN
              /\ Offset(l, y) = l.offset + (y[r + 1] * t + (y[r] * s + SumFunctionOnSet(g, R)))
              /\ SumFunctionOnSet(g, R) \in Int
              /\ \A i \in R : g[i] \in Int /\ g[i] = y[i] * l.strides[i]
  <2> DEFINE g == Moves(l, y)
  <2>1. y \in [1..Len(l.shape) -> Int]
    BY <1>2
  <2>2. /\ Offset(l, y) = l.offset + SumFunctionOnSet(g, 1..(r + 1))
        /\ \A i \in 1..(r + 1) : g[i] \in Int /\ g[i] = y[i] * l.strides[i]
    BY <1>1, <1>2, <2>1, OffsetIs
  <2> HIDE DEF g
  <2>3. SumFunctionOnSet(g, 1..(r + 1)) = g[r + 1] + SumFunctionOnSet(g, 1..r)
    BY <1>2, <2>2, SumLast
  <2>4. SumFunctionOnSet(g, 1..r) = g[r] + SumFunctionOnSet(g, R) /\ SumFunctionOnSet(g, R) \in Int
    <3>1. \A i \in 1..((r - 1) + 1) : g[i] \in Int
      BY <1>2, <2>2
    <3> QED BY <1>10, <3>1, SumLast DEF R
  <2>5. g[r + 1] = y[r + 1] * t /\ g[r] = y[r] * s
    BY <1>10, <2>2 DEF s, t
  <2>6. \A i \in R : g[i] \in Int /\ g[i] = y[i] * l.strides[i]
    BY <1>10, <2>2
  <2> QED BY <2>2, <2>3, <2>4, <2>5, <2>6 DEF g
<1>12. m.offset \in Int /\ m.offset = l.offset + (col * t + row * s)
  <2> DEFINE g == Moves(l, start)
  <2>1. /\ start \in [1..(r + 1) -> Int] /\ start[r] = row /\ start[r + 1] = col
        /\ \A i \in R : start[i] = 0
    <3>1. \A i \in 1..(r + 1) : start[i] \in Int
      BY <1>5
    <3>2. r < r + 1 /\ ~(r < r) /\ ~(r + 1 < r) /\ r + 1 # r
      BY <1>2
    <3> QED BY <1>10, <3>1, <3>2
  <2> HIDE DEF start
  <2>2. /\ Offset(l, start) = l.offset + (start[r + 1] * t + (start[r] * s + SumFunctionOnSet(g, R)))
        /\ \A i \in R : g[i] \in Int /\ g[i] = start[i] * l.strides[i]
    BY <1>11, <2>1
  <2>3. \A i \in R : g[i] = 0
    <3> TAKE i \in R
    <3>1. g[i] = 0 * l.strides[i] /\ l.strides[i] \in Int
      BY <1>2, <1>10, <2>1, <2>2
    <3> QED BY <3>1
  <2>4. SumFunctionOnSet(g, R) = 0
    <3> HIDE DEF g
    <3>1. {} \in SUBSET R /\ \A i \in R \ {} : g[i] = 0
      BY <2>3
    <3>2. SumFunctionOnSet(g, R) = SumFunctionOnSet(g, {})
      BY <1>10, <2>2, <3>1, SumSupport
    <3> QED BY <3>2, SumEmpty
  <2>5. \A p, q \in Int : p * q \in Int /\ p * q + 0 = p * q
    OBVIOUS
  <2>6. col * t \in Int /\ row * s \in Int /\ row * s + 0 = row * s
    BY <1>5, <1>10, <2>5
  <2>7. m.offset = l.offset + (col * t + (row * s + 0))
    BY <1>6, <2>1, <2>2, <2>4
  <2> DEFINE u == col * t
             v == row * s
             o == l.offset
  <2>8. u \in Int /\ v \in Int /\ v + 0 = v /\ o \in Int /\ m.offset = o + (u + (v + 0))
    BY <1>2, <2>6, <2>7
  <2> HIDE DEF u, v, o
  <2>9. m.offset \in Int /\ m.offset = o + (u + v)
    BY ONLY <2>8
  <2> QED BY ONLY <2>9 DEF u, v, o
<1>13. IsLayout(m)
  BY <1>8, <1>9, <1>12 DEF IsLayout
<1>14. ASSUME NEW x \in Indices(m.shape)
       PROVE  \E y \in Indices(l.shape) : Offset(m, x) = Offset(l, y) /\ b.elem[x] = a.elem[y]
  <2> DEFINE y == Y(x)
             f == Moves(m, x)
             g == Moves(l, y)
  <2>1. b.elem[x] = a.elem[y]
    BY <1>6, <1>7
  <2>2. x \in [1..r -> Nat] /\ \A i \in 1..r : x[i] < m.shape[i]
    BY <1>8, IndicesAre
  <2>3. /\ x[r] \in Nat /\ x[r] < c
        /\ \A i \in R : x[i] \in Nat /\ x[i] < l.shape[i]
    BY <1>8, <1>10, <2>2 DEF R
  <2>4. /\ y[r] = x[r] + row /\ y[r + 1] = x[r] + col
        /\ \A i \in R : y[i] = x[i]
        /\ DOMAIN y = 1..(r + 1) /\ y = [i \in 1..(r + 1) |-> y[i]]
    <3>1. r < r + 1 /\ ~(r < r) /\ ~(r + 1 < r) /\ r + 1 # r
      BY <1>2
    <3> QED BY <1>10, <3>1
  <2> HIDE DEF y
  <2>5. \A i \in 1..(r + 1) : y[i] \in Nat /\ y[i] < l.shape[i]
    <3>1. y[r] \in Nat /\ y[r] < l.shape[r] /\ y[r + 1] \in Nat /\ y[r + 1] < l.shape[r + 1]
      <4>1. \A e, p, q, d \in Nat : e < p /\ p <= d - q => e + q \in Nat /\ e + q < d
        OBVIOUS
      <4>2. x[r] \in Nat /\ row \in Nat /\ c \in Nat /\ l.shape[r] \in Nat /\ x[r] < c /\ c <= l.shape[r] - row
        BY <1>4, <1>5, <2>3
      <4>3. x[r] + row \in Nat /\ x[r] + row < l.shape[r]
        BY <4>1, <4>2
      <4>4. col \in Nat /\ l.shape[r + 1] \in Nat /\ c <= l.shape[r + 1] - col
        BY <1>4, <1>5
      <4>5. x[r] + col \in Nat /\ x[r] + col < l.shape[r + 1]
        BY <4>1, <4>2, <4>4
      <4> QED BY <2>4, <4>3, <4>5
    <3>2. \A i \in 1..(r + 1) : i \in R \/ i = r \/ i = r + 1
      BY <1>2 DEF R
    <3> QED BY <2>3, <2>4, <3>1, <3>2
  <2>6. y \in [1..(r + 1) -> Nat]
    BY <2>4, <2>5
  <2>7. y \in Indices(l.shape)
    BY <1>2, <2>5, <2>6, IndicesAre
  <2>8. /\ Offset(l, y) = l.offset + (y[r + 1] * t + (y[r] * s + SumFunctionOnSet(g, R)))
        /\ SumFunctionOnSet(g, R) \in Int
        /\ \A i \in R : g[i] \in Int /\ g[i] = y[i] * l.strides[i]
    <3>1. y \in [1..(r + 1) -> Int]
      BY <2>6
    <3> QED BY <1>11, <3>1
  <2>9. /\ Offset(m, x) = m.offset + SumFunctionOnSet(f, 1..r)
        /\ \A i \in 1..r : f[i] \in Int /\ f[i] = x[i] * m.strides[i]
    <3>1. x \in [1..Len(m.shape) -> Int]
      BY <1>8, <2>2
    <3> QED BY <1>8, <1>13, <3>1, OffsetIs
  <2> HIDE DEF f, g
  <2>10. SumFunctionOnSet(f, 1..r) = f[r] + SumFunctionOnSet(f, R)
    <3>1. \A i \in 1..((r - 1) + 1) : f[i] \in Int
      BY <1>10, <2>9
    <3> QED BY <1>10, <3>1, SumLast DEF R
  <2>11. f[r] = x[r] * (s + t)
    BY <1>9, <1>10, <2>9 DEF s, t
  <2>12. SumFunctionOnSet(f, R) = SumFunctionOnSet(g, R)
    <3>1. \A i \in R : f[i] \in Int /\ f[i] = g[i]
      <4> TAKE i \in R
      <4>1. i \in 1..r /\ m.strides[i] = l.strides[i] /\ x[i] = y[i]
        BY <1>9, <1>10, <2>4 DEF R
      <4> QED BY <2>8, <2>9, <4>1
    <3> QED BY ONLY <1>10, <3>1, SumSame
  <2> DEFINE o == l.offset
             e == x[r]
             z == SumFunctionOnSet(g, R)
  <2>13. /\ o \in Int /\ e \in Int /\ z \in Int /\ s \in Int /\ t \in Int
         /\ row \in Int /\ col \in Int
    BY <1>2, <1>5, <1>10, <2>3, <2>8
  <2>14. Offset(m, x) = (o + (col * t + row * s)) + (e * (s + t) + z)
    BY <1>12, <2>9, <2>10, <2>11, <2>12
  <2>15. Offset(l, y) = o + ((e + col) * t + ((e + row) * s + z))
    BY <2>4, <2>8
  <2> HIDE DEF o, e, z
  <2>16. (o + (col * t + row * s)) + (e * (s + t) + z) = o + ((e + col) * t + ((e + row) * s + z))
    <3>1. e * (s + t) = e * s + e * t
      BY <2>13
    <3>2. (e + col) * t = e * t + col * t /\ (e + row) * s = e * s + row * s
      BY <2>13
    <3>3. \A p, q \in Int : p * q \in Int
      OBVIOUS
    <3>4. e * s \in Int /\ e * t \in Int /\ col * t \in Int /\ row * s \in Int
      BY <2>13, <3>3
    <3> QED BY <2>13, <3>1, <3>2, <3>4
  <2>17. Offset(m, x) = Offset(l, y)
    BY <2>14, <2>15, <2>16
  <2> QED BY <2>1, <2>7, <2>17
<1>15. b.shape = m.shape
  BY <1>6, <1>7
<1>16. Shows(m, b, N)
  BY <1>13, <1>14, <1>15, ViewShows
<1> QED BY <1>16 DEF m, b

-------------------------------------------------------------------------------
(* Slices                                                                   *)

\* What div_ceil counts.
LEMMA Steps ==
  ASSUME NEW d \in Nat, NEW s \in Nat, s > 0
  PROVE  CeilDiv(d, s) \in Nat /\ \A j \in Nat : j < CeilDiv(d, s) <=> s * j < d
<1> DEFINE e == d + s - 1
           c == e \div s
           r == e % s
<1>1. e \in Nat
  OBVIOUS
<1>2. c \in Nat /\ r \in Nat /\ r < s /\ s * c + r = e
  <2> HIDE DEF e
  <2> QED BY <1>1, DivMod
<1>3. c = CeilDiv(d, s)
  BY DEF CeilDiv
<1> HIDE DEF c, r
<1>4. s * c \in Nat /\ s * c + r = d + s - 1
  <2>1. \A p, q \in Nat : p * q \in Nat
    OBVIOUS
  <2> QED BY <1>2, <2>1 DEF e
<1> HIDE DEF e
<1>5. ASSUME NEW j \in Nat PROVE j < c <=> s * j < d
  <2>1. s * j \in Nat
    <3>1. \A p, q \in Nat : p * q \in Nat
      OBVIOUS
    <3> QED BY <3>1
  <2>2. CASE j < c
    <3>1. PICK t \in Nat : c = j + 1 + t
      <4>1. c - j - 1 \in Nat /\ c = j + 1 + (c - j - 1)
        BY <1>2, <2>2
      <4> QED BY <4>1
    <3>2. s * c = s * j + s + s * t /\ s * t \in Nat
      <4>1. \A p, q, u \in Nat : p * (q + 1 + u) = p * q + p + p * u /\ p * u \in Nat
        OBVIOUS
      <4> QED BY <3>1, <4>1
    <3> QED BY <1>2, <1>4, <2>1, <2>2, <3>2
  <2>3. CASE ~(j < c)
    <3>1. PICK t \in Nat : j = c + t
      <4>1. j - c \in Nat /\ j = c + (j - c)
        BY <1>2, <2>3
      <4> QED BY <4>1
    <3>2. s * j = s * c + s * t /\ s * t \in Nat
      <4>1. \A p, q, u \in Nat : p * (q + u) = p * q + p * u /\ p * u \in Nat
        OBVIOUS
      <4> QED BY <1>2, <3>1, <4>1
    <3> QED BY <1>2, <1>4, <2>1, <2>3, <3>2
  <2> QED BY <2>2, <2>3
<1> QED BY <1>2, <1>3, <1>5

\* The numbers of an axis that lie a whole number of steps from the first and
\* before a bound, in the order of the steps.
StepsUp(dim, first, upto, step) ==
  {p \in 0..(dim - 1) : first <= p /\ p < upto /\ (p - first) % step = 0}
StepsDown(dim, first, downto, step) ==
  {p \in 0..(dim - 1) : downto < p /\ p <= first /\ (first - p) % step = 0}

\* c numbers, a step apart: the first is low, or the last is high.
Rising(low, c, step) == [i \in 1..c |-> low + (i - 1) * step]
RisingTo(high, c, step) == [i \in 1..c |-> high - (c - i) * step]

\* The number of an axis of dim elements, or its end, that is nearest to v.
Within(v, dim) == IF v < 0 THEN 0 ELSE IF v < dim THEN v ELSE dim

Upward(dim, first, upto, step) ==
  LET start == Within(first, dim)
      c == CeilDiv(Monus(Within(upto, dim), start), step)
  IN  /\ start \in Nat /\ c \in Nat
      /\ InOrder(StepsUp(dim, first, upto, step)) = Rising(start, c, step)
      /\ \A j \in Nat : j < c => start + j * step \in 0..(dim - 1)

Downward(dim, first, downto, step) ==
  LET start == Within(first, dim)
      c == CeilDiv(Monus(start, Within(downto, dim)), step)
  IN  /\ start \in Nat /\ c \in Nat
      /\ InOrder(StepsDown(dim, first, downto, step)) = RisingTo(start, c, step)
      /\ \A j \in Nat : j < c => start - j * step \in 0..(dim - 1)

\* The positions of a slice forwards are a step apart and on the axis.
LEMMA Upwards ==
  ASSUME NEW dim \in Nat, NEW first \in Nat, NEW upto \in Int, NEW step \in Nat, step > 0
  PROVE  Upward(dim, first, upto, step)
<1> DEFINE start == Within(first, dim)
           stop == Within(upto, dim)
           c == CeilDiv(Monus(stop, start), step)
           S == {p \in 0..(dim - 1) : first <= p /\ p < upto /\ (p - first) % step = 0}
           d == Monus(stop, start)
           s == [i \in 1..c |-> start + (i - 1) * step]
<1>1. /\ start \in Nat /\ stop \in Nat /\ stop <= dim
      /\ start = IF first < dim THEN first ELSE dim
      /\ stop = IF upto < 0 THEN 0 ELSE IF upto < dim THEN upto ELSE dim
  BY DEF Within
<1> HIDE DEF start, stop
<1>2. d \in Nat /\ (d > 0 => d = stop - start) /\ (stop > start => d = stop - start)
  BY <1>1 DEF Monus
<1>3. c \in Nat /\ \A j \in Nat : j < c <=> step * j < d
  <2> HIDE DEF d
  <2> QED BY <1>2, Steps DEF d, c
<1> HIDE DEF c
<1>0. \A p, q \in Nat : p * q \in Nat /\ p * q = q * p
  OBVIOUS
<1>4. ASSUME NEW j \in Nat, j < c PROVE start + j * step \in S
  <2>1. step * j \in Nat /\ step * j < d /\ j * step = step * j
    BY <1>0, <1>3, <1>4
  <2>2. d = stop - start /\ d > 0
    BY <1>2, <2>1
  <2>3. start = first /\ stop <= upto
    BY <1>1, <1>2, <2>2
  <2>4. ((first + step * j) - first) % step = 0
    <3>1. (step * j + 0) % step = 0
      BY DivUnique
    <3>2. (first + step * j) - first = step * j + 0
      BY <2>1
    <3> QED BY <3>1, <3>2
  <2> DEFINE p == first + step * j
  <2>5. p \in 0..(dim - 1) /\ first <= p /\ p < upto
    BY <1>1, <2>1, <2>2, <2>3
  <2>6. start + j * step = p
    BY <2>1, <2>3
  <2> QED BY <2>4, <2>5, <2>6
<1>5. ASSUME NEW p \in S PROVE \E j \in Nat : j < c /\ p = start + j * step
  <2>1. p \in 0..(dim - 1) /\ first <= p /\ p < upto /\ (p - first) % step = 0
    OBVIOUS
  <2>2. start = first /\ p < stop /\ stop > start /\ p - first \in Nat
    BY <1>1, <2>1
  <2> DEFINE e == p - first
             q == e \div step
             r == e % step
  <2>3. e \in Nat /\ r = 0
    BY <2>1, <2>2
  <2>4. q \in Nat /\ step * q + r = e
    <3>1. e \in Nat
      BY <2>3
    <3> HIDE DEF e
    <3> QED BY ONLY <3>1, step \in Nat, step > 0, DivMod DEF q, r
  <2> HIDE DEF q, r
  <2>5. step * q \in Nat /\ q * step = step * q
    BY <1>0, <2>4
  <2>6. step * q < d /\ p = start + q * step
    BY <1>1, <1>2, <2>1, <2>2, <2>3, <2>4, <2>5
  <2> QED BY <1>3, <2>4, <2>6
<1> HIDE DEF S, d
<1>6. S = {s[i] : i \in 1..c}
  <2>1. ASSUME NEW i \in 1..c PROVE s[i] \in S
    <3>1. i - 1 \in Nat /\ i - 1 < c /\ s[i] = start + (i - 1) * step
      BY <1>3
    <3> QED BY <1>4, <3>1
  <2>2. ASSUME NEW p \in S PROVE \E i \in 1..c : s[i] = p
    <3>1. PICK j \in Nat : j < c /\ p = start + j * step
      BY <1>5
    <3>2. j + 1 \in 1..c /\ (j + 1) - 1 = j
      BY <1>3, <3>1
    <3> QED BY <3>1, <3>2
  <2> HIDE DEF s
  <2> QED BY <2>1, <2>2
<1>7. s \in [1..c -> Int] /\ \A i, j \in 1..c : i < j => s[i] < s[j]
  <2>1. \A i \in 1..c : i - 1 \in Nat /\ (i - 1) * step \in Nat /\ s[i] = start + (i - 1) * step
    <3> TAKE i \in 1..c
    <3>1. i - 1 \in Nat
      BY <1>3
    <3> QED BY <1>0, <3>1
  <2>2. \A i \in 1..c : s[i] \in Int
    BY <1>1, <2>1
  <2>3. ASSUME NEW i \in 1..c, NEW j \in 1..c, i < j PROVE s[i] < s[j]
    <3>1. PICK t \in Nat : j - 1 = (i - 1) + (t + 1)
      <4>1. j - i - 1 \in Nat /\ j - 1 = (i - 1) + ((j - i - 1) + 1)
        BY <1>3, <2>3
      <4> QED BY <4>1
    <3>2. \A q, u, w \in Nat : (q + (u + 1)) * w = q * w + u * w + w /\ u * w \in Nat
      OBVIOUS
    <3>3. (j - 1) * step = (i - 1) * step + t * step + step /\ t * step \in Nat
      BY <2>1, <3>1, <3>2
    <3> HIDE DEF s
    <3> QED BY <1>1, <2>1, <3>3
  <2> QED BY <2>2, <2>3
<1>8. InOrder(S) = s
  <2> HIDE DEF s
  <2> QED BY <1>3, <1>6, <1>7, InOrderOf
<1>9. ASSUME NEW j \in Nat, j < c PROVE start + j * step \in 0..(dim - 1)
  BY <1>4, <1>9 DEF S
<1> QED BY <1>1, <1>3, <1>8, <1>9 DEF S, StepsUp, Rising, start, stop, c, Upward

\* So are those of a slice backwards.
LEMMA Downwards ==
  ASSUME NEW dim \in Nat, NEW first \in Int, first < dim, NEW downto \in Nat,
         NEW step \in Nat, step > 0
  PROVE  Downward(dim, first, downto, step)
<1> DEFINE start == Within(first, dim)
           stop == Within(downto, dim)
           c == CeilDiv(Monus(start, stop), step)
           S == {p \in 0..(dim - 1) : downto < p /\ p <= first /\ (first - p) % step = 0}
           d == Monus(start, stop)
           s == [i \in 1..c |-> start - (c - i) * step]
<1>1. /\ start \in Nat /\ stop \in Nat /\ stop <= dim
      /\ start = IF first < 0 THEN 0 ELSE first
      /\ stop = IF downto < dim THEN downto ELSE dim
  BY DEF Within
<1> HIDE DEF start, stop
<1>2. d \in Nat /\ (d > 0 => d = start - stop) /\ (start > stop => d = start - stop)
  BY <1>1 DEF Monus
<1>3. c \in Nat /\ \A j \in Nat : j < c <=> step * j < d
  <2> HIDE DEF d
  <2> QED BY <1>2, Steps DEF d, c
<1> HIDE DEF c
<1>0. \A p, q \in Nat : p * q \in Nat /\ p * q = q * p
  OBVIOUS
<1>4. ASSUME NEW j \in Nat, j < c PROVE start - j * step \in S
  <2>1. step * j \in Nat /\ step * j < d /\ j * step = step * j
    BY <1>0, <1>3, <1>4
  <2>2. d = start - stop /\ d > 0
    BY <1>2, <2>1
  <2>3. start = first /\ stop = downto
    BY <1>1, <1>2, <2>2
  <2>4. (first - (first - step * j)) % step = 0
    <3>1. (step * j + 0) % step = 0
      BY DivUnique
    <3>2. first - (first - step * j) = step * j + 0
      BY <2>1
    <3> QED BY <3>1, <3>2
  <2> DEFINE p == first - step * j
  <2>5. p \in 0..(dim - 1) /\ p <= first /\ downto < p
    BY <1>1, <2>1, <2>2, <2>3
  <2>6. start - j * step = p
    BY <2>1, <2>3
  <2> QED BY <2>4, <2>5, <2>6
<1>5. ASSUME NEW p \in S PROVE \E j \in Nat : j < c /\ p = start - j * step
  <2>1. p \in 0..(dim - 1) /\ p <= first /\ downto < p /\ (first - p) % step = 0
    OBVIOUS
  <2>2. start = first /\ stop = downto /\ stop < start /\ first - p \in Nat
    BY <1>1, <2>1
  <2> DEFINE e == first - p
             q == e \div step
             r == e % step
  <2>3. e \in Nat /\ r = 0
    BY <2>1, <2>2
  <2>4. q \in Nat /\ step * q + r = e
    <3>1. e \in Nat
      BY <2>3
    <3> HIDE DEF e
    <3> QED BY ONLY <3>1, step \in Nat, step > 0, DivMod DEF q, r
  <2> HIDE DEF q, r
  <2>5. step * q \in Nat /\ q * step = step * q
    BY <1>0, <2>4
  <2>6. step * q < d /\ p = start - q * step
    BY <1>1, <1>2, <2>1, <2>2, <2>3, <2>4, <2>5
  <2> QED BY <1>3, <2>4, <2>6
<1> HIDE DEF S, d
<1>6. S = {s[i] : i \in 1..c}
  <2>1. ASSUME NEW i \in 1..c PROVE s[i] \in S
    <3>1. c - i \in Nat /\ c - i < c /\ s[i] = start - (c - i) * step
      BY <1>3
    <3> QED BY <1>4, <3>1
  <2>2. ASSUME NEW p \in S PROVE \E i \in 1..c : s[i] = p
    <3>1. PICK j \in Nat : j < c /\ p = start - j * step
      BY <1>5
    <3>2. c - j \in 1..c /\ c - (c - j) = j
      BY <1>3, <3>1
    <3> QED BY <3>1, <3>2
  <2> HIDE DEF s
  <2> QED BY <2>1, <2>2
<1>7. s \in [1..c -> Int] /\ \A i, j \in 1..c : i < j => s[i] < s[j]
  <2>1. \A i \in 1..c : c - i \in Nat /\ (c - i) * step \in Nat /\ s[i] = start - (c - i) * step
    <3> TAKE i \in 1..c
    <3>1. c - i \in Nat
      BY <1>3
    <3> QED BY <1>0, <3>1
  <2>2. \A i \in 1..c : s[i] \in Int
    BY <1>1, <2>1
  <2>3. ASSUME NEW i \in 1..c, NEW j \in 1..c, i < j PROVE s[i] < s[j]
    <3>1. PICK t \in Nat : c - i = (c - j) + (t + 1)
      <4>1. j - i - 1 \in Nat /\ c - i = (c - j) + ((j - i - 1) + 1)
        BY <1>3, <2>3
      <4> QED BY <4>1
    <3>2. \A q, u, w \in Nat : (q + (u + 1)) * w = q * w + u * w + w /\ u * w \in Nat
      OBVIOUS
    <3>3. (c - i) * step = (c - j) * step + t * step + step /\ t * step \in Nat
      BY <2>1, <3>1, <3>2
    <3> HIDE DEF s
    <3> QED BY <1>1, <2>1, <3>3
  <2> QED BY <2>2, <2>3
<1>8. InOrder(S) = s
  <2> HIDE DEF s
  <2> QED BY <1>3, <1>6, <1>7, InOrderOf
<1>9. ASSUME NEW j \in Nat, j < c PROVE start - j * step \in 0..(dim - 1)
  BY <1>4, <1>9 DEF S
<1> QED BY <1>1, <1>3, <1>8, <1>9 DEF S, StepsDown, RisingTo, start, stop, c, Downward

\* What a SliceArg holds.
IsSliceArg(arg) ==
  arg \in [start : Int \cup {None}, stop : Int \cup {None}, step : (Int \ {0}) \cup {None}]

\* A slice that goes forwards, or starts on the axis and is told where to stop on it.
Inside(arg, dim) ==
  \/ StepOf(arg) > 0
  \/ /\ arg.stop # None /\ FromEnd(arg.stop, dim) >= 0
     /\ arg.start = None \/ FromEnd(arg.start, dim) < dim

\* r stands for the positions ps of an axis.
StandsFor(r, ps, step, dim) ==
  /\ r.start \in Nat /\ r.count \in Nat /\ Len(ps) = r.count
  /\ \A j \in Nat : j < r.count => /\ ps[j + 1] = r.start + j * step
                                   /\ ps[j + 1] \in 0..(dim - 1)

\* What SliceArg::resolve clamps a number to.
LEMMA ClampIs ==
  ASSUME NEW v \in Int, NEW dim \in Nat
  PROVE  /\ FromEnd(v, dim) \in Int
         /\ Clamp(v, dim) = Within(FromEnd(v, dim), dim)
<1>1. CASE v < 0
  <2>1. FromEnd(v, dim) = v + dim /\ v + dim \in Int
    BY <1>1 DEF FromEnd
  <2>2. Max({v + dim, 0}) = IF v + dim >= 0 THEN v + dim ELSE 0
    BY MaxPair
  <2>3. Max({v + dim, 0}) \in Int
    BY <2>2
  <2>4. Clamp(v, dim) = Min({dim, Max({v + dim, 0})})
    BY <1>1 DEF Clamp
  <2>5. Clamp(v, dim) = IF dim <= Max({v + dim, 0}) THEN dim ELSE Max({v + dim, 0})
    BY <2>3, <2>4, MinPair
  <2> QED BY <2>1, <2>2, <2>5 DEF Within
<1>2. CASE ~(v < 0)
  <2>1. FromEnd(v, dim) = v
    BY <1>2 DEF FromEnd
  <2>2. Clamp(v, dim) = Min({dim, v})
    BY <1>2 DEF Clamp
  <2>3. Clamp(v, dim) = IF dim <= v THEN dim ELSE v
    BY <2>2, MinPair
  <2> QED BY <1>2, <2>1, <2>3 DEF Within
<1> QED BY <1>1, <1>2

\* A slice forwards is resolved to the positions it ought to select.
LEMMA ForwardsResolved ==
  ASSUME NEW arg, IsSliceArg(arg), NEW dim \in Nat, StepOf(arg) > 0
  PROVE  StandsFor(Resolve(arg, dim), Positions(arg, dim), StepOf(arg), dim)
<1> DEFINE step == StepOf(arg)
           from == IF arg.start = None THEN 0 ELSE FromEnd(arg.start, dim)
           upto == IF arg.stop = None THEN dim ELSE FromEnd(arg.stop, dim)
           first == Max({0, from})
           r == Resolve(arg, dim)
           ps == Positions(arg, dim)
<1>1. step \in Nat /\ step > 0
  <2>1. arg.step \in (Int \ {0}) \cup {None}
    BY DEF IsSliceArg
  <2>2. step \in Int
    BY <2>1 DEF StepOf
  <2> QED BY <2>2
<1>2. arg.start \in Int \cup {None} /\ arg.stop \in Int \cup {None}
  BY DEF IsSliceArg
<1>3. from \in Int /\ upto \in Int
  BY <1>2, ClampIs
<1>4. /\ first \in Nat
      /\ first = IF from < 0 THEN 0 ELSE from
  <2> HIDE DEF from
  <2>1. first = IF 0 >= from THEN 0 ELSE from
    BY <1>3, MaxPair
  <2> HIDE DEF first
  <2> QED BY <1>3, <2>1
<1>5. r.start = Within(first, dim)
  <2>1. r.start = IF arg.start = None THEN 0 ELSE Clamp(arg.start, dim)
    BY DEF Resolve, ResolveForwards
  <2>2. CASE arg.start = None
    <3>1. from = 0 /\ r.start = 0
      BY <2>1, <2>2
    <3> HIDE DEF from, first, r
    <3> QED BY <1>4, <3>1 DEF Within
  <2>3. CASE arg.start # None
    <3>1. from = FromEnd(arg.start, dim) /\ r.start = Clamp(arg.start, dim) /\ arg.start \in Int
      BY <1>2, <2>1, <2>3
    <3>2. r.start = Within(from, dim)
      BY <3>1, ClampIs
    <3> HIDE DEF from, first, r
    <3> QED BY <1>3, <1>4, <3>2 DEF Within
  <2> QED BY <2>2, <2>3
<1> DEFINE stop == IF arg.stop = None THEN dim ELSE Clamp(arg.stop, dim)
<1>6. stop = Within(upto, dim)
  <2>1. CASE arg.stop = None
    BY <2>1 DEF Within
  <2>2. CASE arg.stop # None
    BY <1>2, <2>2, ClampIs
  <2> QED BY <2>1, <2>2
<1>7. r.count = CeilDiv(Monus(stop, r.start), step)
  BY DEF Resolve, ResolveForwards
<1>8. ps = InOrder(StepsUp(dim, first, upto, step))
  BY DEF Positions, Forwards, StepsUp
<1> HIDE DEF r, ps, first, upto, stop, step
<1>9. /\ r.start \in Nat /\ r.count \in Nat
      /\ ps = [i \in 1..r.count |-> r.start + (i - 1) * step]
      /\ \A j \in Nat : j < r.count => r.start + j * step \in 0..(dim - 1)
  <2>1. Upward(dim, first, upto, step)
    BY <1>1, <1>3, <1>4, Upwards
  <2> QED BY <1>5, <1>6, <1>7, <1>8, <2>1 DEF Upward, Rising
<1>10. \A j \in Nat : j < r.count => ps[j + 1] = r.start + j * step
  <2> SUFFICES ASSUME NEW j \in Nat, j < r.count PROVE ps[j + 1] = r.start + j * step
    OBVIOUS
  <2>1. j + 1 \in 1..r.count /\ (j + 1) - 1 = j
    BY <1>9
  <2> QED BY <1>9, <2>1
<1>11. Len(ps) = r.count
  BY <1>9
<1> QED BY <1>9, <1>10, <1>11 DEF StandsFor, r, ps, step

\* So is one backwards that is inside its axis.
LEMMA BackwardsResolved ==
  ASSUME NEW arg, IsSliceArg(arg), NEW dim \in Nat, ~(StepOf(arg) > 0), Inside(arg, dim)
  PROVE  StandsFor(Resolve(arg, dim), Positions(arg, dim), StepOf(arg), dim)
<1> DEFINE step == -StepOf(arg)
           from == IF arg.start = None THEN dim - 1 ELSE FromEnd(arg.start, dim)
           downto == FromEnd(arg.stop, dim)
           first == Min({dim - 1, from})
           r == Resolve(arg, dim)
           ps == Positions(arg, dim)
<1>1. step \in Nat /\ step > 0 /\ StepOf(arg) = -step
  <2>1. arg.step \in (Int \ {0}) \cup {None}
    BY DEF IsSliceArg
  <2>2. StepOf(arg) \in Int /\ StepOf(arg) # 0
    BY <2>1 DEF StepOf
  <2> QED BY <2>2
<1>2. /\ arg.start \in Int \cup {None} /\ arg.stop \in Int /\ arg.stop # None
      /\ downto >= 0
      /\ arg.start = None \/ FromEnd(arg.start, dim) < dim
  <2>1. arg.start \in Int \cup {None} /\ arg.stop \in Int \cup {None}
    BY DEF IsSliceArg
  <2> QED BY <2>1 DEF Inside
<1>3. from \in Int /\ downto \in Nat /\ from < dim
  <2>1. downto \in Int
    BY <1>2, ClampIs
  <2>2. CASE arg.start = None
    BY <1>2, <2>1, <2>2
  <2>3. CASE arg.start # None
    <3>1. arg.start \in Int /\ from = FromEnd(arg.start, dim)
      BY <1>2, <2>3
    <3>2. FromEnd(arg.start, dim) \in Int /\ FromEnd(arg.start, dim) < dim
      BY <1>2, <2>3, <3>1, ClampIs
    <3>3. downto \in Nat
      BY <1>2, <2>1
    <3> HIDE DEF from, downto
    <3> QED BY <3>1, <3>2, <3>3
  <2> QED BY <2>2, <2>3
<1>4. first = from
  <2> HIDE DEF from
  <2>1. first = IF dim - 1 <= from THEN dim - 1 ELSE from
    BY <1>3, MinPair
  <2> HIDE DEF first
  <2> QED BY <1>3, <2>1
<1>5. r.start = Within(first, dim)
  <2>1. r.start = IF arg.start = None THEN Monus(dim, 1) ELSE Clamp(arg.start, dim)
    BY DEF Resolve, ResolveBackwards
  <2>2. CASE arg.start = None
    <3>1. from = dim - 1 /\ r.start = Monus(dim, 1)
      BY <2>1, <2>2
    <3> HIDE DEF from, first, r
    <3> QED BY <1>4, <3>1 DEF Within, Monus
  <2>3. CASE arg.start # None
    <3>1. from = FromEnd(arg.start, dim) /\ r.start = Clamp(arg.start, dim) /\ arg.start \in Int
      BY <1>2, <2>1, <2>3
    <3>2. r.start = Within(from, dim)
      BY <3>1, ClampIs
    <3> HIDE DEF from, first, r
    <3> QED BY <1>4, <3>2
  <2> QED BY <2>2, <2>3
<1> DEFINE stop == Min({FromEnd(arg.stop, dim), dim})
<1>6. stop = Within(downto, dim)
  <2>1. stop = IF downto <= dim THEN downto ELSE dim
    BY <1>3, MinPair
  <2> HIDE DEF stop, downto
  <2> QED BY <1>3, <2>1 DEF Within
<1>7. r.count = CeilDiv(Monus(r.start, stop), step)
  <2>1. ~(arg.stop = None \/ FromEnd(arg.stop, dim) < 0)
    BY <1>2, <1>3
  <2> QED BY <2>1 DEF Resolve, ResolveBackwards
<1>8. ps = Reverse(InOrder(StepsDown(dim, first, downto, step)))
  BY <1>2 DEF Positions, Backwards, StepsDown
<1> HIDE DEF r, ps, first, downto, stop, step
<1>9. /\ r.start \in Nat /\ r.count \in Nat
      /\ ps = Reverse([i \in 1..r.count |-> r.start - (r.count - i) * step])
      /\ \A j \in Nat : j < r.count => r.start - j * step \in 0..(dim - 1)
  <2>1. Downward(dim, first, downto, step)
    BY <1>1, <1>3, <1>4, Downwards
  <2> QED BY <1>5, <1>6, <1>7, <1>8, <2>1 DEF Downward, RisingTo
<1> DEFINE c == r.count
           up == [i \in 1..c |-> r.start - (c - i) * step]
<1>10. Len(up) = c /\ ps = [i \in 1..c |-> up[(c - i) + 1]]
  <2>1. Len(up) = c
    BY <1>9
  <2> QED BY <1>9, <2>1 DEF Reverse
<1>11. Len(ps) = c
  <2> HIDE DEF up
  <2> QED BY <1>9, <1>10
<1>12. ASSUME NEW j \in Nat, j < c PROVE ps[j + 1] = r.start - j * step
  <2>0. c \in Nat
    BY <1>9
  <2> HIDE DEF c
  <2>1. j + 1 \in 1..c /\ (c - (j + 1)) + 1 = c - j /\ c - j \in 1..c /\ c - (c - j) = j
    BY ONLY <2>0, <1>12, j \in Nat
  <2>2. ps[j + 1] = up[c - j]
    BY <1>10, <2>1
  <2>3. up[c - j] = r.start - j * step
    BY <2>1
  <2> QED BY <2>2, <2>3
<1>13. \A j \in Nat : r.start - j * step = r.start + j * StepOf(arg)
  <2>1. \A p, q, u \in Int : p - q * u = p + q * (-u)
    OBVIOUS
  <2> QED BY <1>1, <1>9, <2>1
<1> QED BY <1>9, <1>11, <1>12, <1>13 DEF StandsFor, r, ps

\* Together: what resolve computes stands for the positions.
LEMMA Resolved ==
  ASSUME NEW arg, IsSliceArg(arg), NEW dim \in Nat, Inside(arg, dim)
  PROVE  StandsFor(Resolve(arg, dim), Positions(arg, dim), StepOf(arg), dim)
BY ForwardsResolved, BackwardsResolved

\* slice_axis
LEMMA SliceShows ==
  ASSUME NEW l, NEW a, NEW N, Shows(l, a, N), NEW k \in 1..Len(l.shape),
         NEW arg, IsSliceArg(arg), Inside(arg, l.shape[k])
  PROVE  Shows(SliceAxis(l, k, arg), Selected(a, k, Positions(arg, l.shape[k])), N)
<1> DEFINE n == Len(l.shape)
           dim == l.shape[k]
           step == StepOf(arg)
           r == Resolve(arg, dim)
           ps == Positions(arg, dim)
           m == SliceAxis(l, k, arg)
           b == Selected(a, k, ps)
           Y(x) == [x EXCEPT ![k] = ps[@ + 1]]
<1>1. IsLayout(l) /\ l.shape = a.shape
  BY DEF Shows
<1>2. /\ n \in Nat /\ DOMAIN l.shape = 1..n /\ l.shape \in Seq(Nat) /\ l.offset \in Int
      /\ l.strides \in Seq(Int) /\ Len(l.strides) = n /\ DOMAIN l.strides = 1..n
      /\ l.shape \in [1..n -> Nat] /\ l.strides \in [1..n -> Int]
      /\ \A i \in 1..n : l.shape[i] \in Nat /\ l.strides[i] \in Int
      /\ k \in 1..n /\ l.strides[k] \in Int /\ dim \in Nat
  <2>1. /\ n \in Nat /\ DOMAIN l.shape = 1..n /\ l.shape \in Seq(Nat) /\ l.offset \in Int
        /\ l.strides \in Seq(Int) /\ Len(l.strides) = n /\ DOMAIN l.strides = 1..n
        /\ \A i \in 1..n : l.shape[i] \in Nat /\ l.strides[i] \in Int
    BY <1>1, LayoutParts
  <2> HIDE DEF n
  <2>2. l.shape \in [1..n -> Nat] /\ l.strides \in [1..n -> Int]
    <3>1. \A t : t \in Seq(Nat) => t \in [1..Len(t) -> Nat]
      OBVIOUS
    <3>2. \A t : t \in Seq(Int) => t \in [1..Len(t) -> Int]
      OBVIOUS
    <3>3. Len(l.shape) = n
      BY DEF n
    <3> QED BY ONLY <2>1, <3>1, <3>2, <3>3
  <2>3. k \in 1..n
    BY DEF n
  <2>4. l.strides[k] \in Int /\ dim \in Nat
    BY <2>1, <2>3
  <2> QED BY <2>1, <2>2, <2>3, <2>4
<1>3. step \in Int
  <2>1. arg.step \in (Int \ {0}) \cup {None}
    BY DEF IsSliceArg
  <2> QED BY <2>1 DEF StepOf
<1>4. /\ r.start \in Nat /\ r.count \in Nat /\ Len(ps) = r.count
      /\ \A j \in Nat : j < r.count => ps[j + 1] = r.start + j * step /\ ps[j + 1] \in 0..(dim - 1)
  BY <1>2, Resolved DEF StandsFor
<1>5. /\ m.shape = [l.shape EXCEPT ![k] = r.count]
      /\ m.strides = [l.strides EXCEPT ![k] = @ * step]
      /\ m.offset = l.offset + r.start * l.strides[k]
  BY DEF SliceAxis
<1>6. /\ b.shape = m.shape
      /\ \A x \in Indices(m.shape) : b.elem[x] = a.elem[Y(x)]
  <2>1. b.shape = m.shape
    BY <1>1, <1>4, <1>5 DEF Selected, Through
  <2>2. b.shape = [l.shape EXCEPT ![k] = Len(ps)]
    BY <1>1 DEF Selected, Through
  <2>3. \A x \in Indices([l.shape EXCEPT ![k] = Len(ps)]) : b.elem[x] = a.elem[Y(x)]
    BY <1>1 DEF Selected, Through
  <2> QED BY <2>1, <2>2, <2>3
<1> HIDE DEF m, b, n, dim, step, r, ps
<1>0. \A p, q \in Int : p * q \in Int
  OBVIOUS
<1>7. /\ m.shape \in [1..n -> Nat] /\ m.shape[k] = r.count
      /\ \A i \in 1..n : i # k => m.shape[i] = l.shape[i]
  BY <1>2, <1>4, <1>5
<1>8. /\ m.strides \in [1..n -> Int] /\ m.strides[k] = l.strides[k] * step
      /\ \A i \in 1..n : i # k => m.strides[i] = l.strides[i]
  <2>1. l.strides[k] * step \in Int
    BY <1>0, <1>2, <1>3
  <2> QED BY <1>2, <1>5, <2>1
<1>9. m.offset \in Int
  <2>1. r.start \in Int
    BY <1>4
  <2>2. r.start * l.strides[k] \in Int
    BY <1>0, <1>2, <2>1
  <2> QED BY <1>2, <1>5, <2>2
<1>10. IsLayout(m) /\ Len(m.shape) = n /\ m.shape \in Seq(Nat)
  <2>1. m.shape \in Seq(Nat) /\ Len(m.shape) = n
    BY <1>2, <1>7, FunctionIsSeq
  <2>2. m.strides \in Seq(Int) /\ Len(m.strides) = n
    BY <1>2, <1>8, FunctionIsSeq
  <2> QED BY <1>9, <2>1, <2>2 DEF IsLayout
<1>11. ASSUME NEW x \in Indices(m.shape)
       PROVE  \E y \in Indices(l.shape) : Offset(m, x) = Offset(l, y) /\ b.elem[x] = a.elem[y]
  <2> DEFINE y == Y(x)
  <2>1. Len(l.shape) = n /\ b.elem[x] = a.elem[y]
    BY <1>6 DEF n
  <2>2. x \in [1..n -> Nat] /\ \A i \in 1..n : x[i] < m.shape[i]
    BY <1>10, IndicesAre
  <2>3. x[k] \in Nat /\ x[k] < r.count
    BY <1>2, <1>7, <2>2
  <2>4. /\ y[k] = ps[x[k] + 1]
        /\ \A i \in 1..n : i # k => y[i] = x[i]
        /\ DOMAIN y = 1..n /\ y = [i \in 1..n |-> y[i]]
    BY <1>2, <2>2
  <2> HIDE DEF y
  <2>5. y[k] = r.start + x[k] * step /\ y[k] \in Nat /\ y[k] < l.shape[k]
    <3>1. y[k] = r.start + x[k] * step /\ y[k] \in 0..(dim - 1)
      BY <1>4, <2>3, <2>4
    <3> QED BY <1>2, <3>1 DEF dim
  <2>6. y \in [1..n -> Nat] /\ \A i \in 1..n : y[i] < l.shape[i]
    BY <1>7, <2>2, <2>4, <2>5
  <2>7. y \in Indices(l.shape)
    BY <1>2, <2>1, <2>6, IndicesAre
  <2>8. m.offset + x[k] * m.strides[k] = l.offset + y[k] * l.strides[k]
    <3> DEFINE o == l.offset
               s == l.strides[k]
               e == x[k]
               f == r.start
    <3>1. o \in Int /\ s \in Int /\ e \in Int /\ f \in Int /\ step \in Int
      BY <1>2, <1>3, <1>4, <2>3
    <3>2. m.offset = o + f * s /\ m.strides[k] = s * step /\ y[k] = f + e * step
      BY <1>5, <1>8, <2>5
    <3> HIDE DEF o, s, e, f
    <3>3. (o + f * s) + e * (s * step) = o + (f + e * step) * s
      <4>1. \A p, q, u, v, w \in Int : (p + q * u) + v * (u * w) = p + (q + v * w) * u
        OBVIOUS
      <4> QED BY <3>1, <4>1
    <3> QED BY <3>2, <3>3 DEF o, s, e
  <2>9. Offset(m, x) = Offset(l, y)
    <3>1. SameButOne(l, y, m, x, k)
      <4>1. \A i \in 1..n : i # k => m.strides[i] = l.strides[i] /\ x[i] = y[i]
        BY <1>8, <2>4
      <4>2. x \in [1..n -> Int] /\ y \in [1..n -> Int]
        BY <2>2, <2>6
      <4> QED BY ONLY <1>1, <1>2, <1>10, <2>1, <4>1, <4>2 DEF SameButOne
    <3> QED BY ONLY <2>8, <3>1, OneAxis
  <2> QED BY <2>1, <2>7, <2>9
<1>12. Shows(m, b, N)
  BY <1>6, <1>10, <1>11, ViewShows
<1> QED BY <1>12 DEF m, b, ps, dim

-------------------------------------------------------------------------------
(* Every view of every view                                                 *)

IsView(l) == l \in [shape : Seq(Nat), strides : Seq(Int), offset : Int]

\* The inductive invariant: the view is a layout that shows the array, whose
\* elements are among those the buffer was allocated for.
IInv ==
  /\ IsView(view)
  /\ \E N \in Nat : capacity = ItemSize * N /\ Shows(view, array, N)

\* A slice that goes forwards, or that starts and stops on its axis.
TakeInside ==
  \E k \in Axes, arg \in Slices : Inside(arg, view.shape[k]) /\ TakeSliceOf(k, arg)

\* Every operation keeps a Layout's fields.
LEMMA ViewsAreRecords ==
  ASSUME NEW l, IsView(l)
  PROVE  /\ \A axes : IsLayout(Permute(l, axes)) => IsView(Permute(l, axes))
         /\ \A k : IsLayout(ExpandDims(l, k)) => IsView(ExpandDims(l, k))
         /\ \A k : IsLayout(SqueezeAxis(l, k)) => IsView(SqueezeAxis(l, k))
         /\ IsLayout(Squeeze(l)) => IsView(Squeeze(l))
         /\ \A k, arg : IsLayout(SliceAxis(l, k, arg)) => IsView(SliceAxis(l, k, arg))
         /\ \A shape : IsLayout(BroadcastTo(l, shape)) => IsView(BroadcastTo(l, shape))
         /\ \A shape : IsLayout(Reshape(l, shape)) => IsView(Reshape(l, shape))
         /\ \A k : IsLayout(Flip(l, k)) => IsView(Flip(l, k))
         /\ \A k : IsLayout(Diagonal(l, k)) => IsView(Diagonal(l, k))
<1>1. \A s, t : s \in Seq(Nat) /\ t \in Seq(Int) => IsView([l EXCEPT !.shape = s, !.strides = t])
  BY DEF IsView
<1>2. \A s, t, o : s \in Seq(Nat) /\ t \in Seq(Int) /\ o \in Int
                     => IsView([shape |-> s, strides |-> t, offset |-> o])
  BY DEF IsView
<1>3. \A axes : IsLayout(Permute(l, axes)) => IsView(Permute(l, axes))
  BY DEF IsView, IsLayout, Permute
<1>4. \A k : IsLayout(ExpandDims(l, k)) => IsView(ExpandDims(l, k))
  BY DEF IsView, IsLayout, ExpandDims
<1>5. \A k : IsLayout(SqueezeAxis(l, k)) => IsView(SqueezeAxis(l, k))
  BY DEF IsView, IsLayout, SqueezeAxis
<1>6. IsLayout(Squeeze(l)) => IsView(Squeeze(l))
  BY <1>3 DEF Squeeze
<1>7. \A k, arg : IsLayout(SliceAxis(l, k, arg)) => IsView(SliceAxis(l, k, arg))
  BY DEF IsView, IsLayout, SliceAxis
<1>8. \A shape : IsLayout(BroadcastTo(l, shape)) => IsView(BroadcastTo(l, shape))
  BY DEF IsView, IsLayout, BroadcastTo
<1>9. \A shape : IsLayout(Reshape(l, shape)) => IsView(Reshape(l, shape))
  BY DEF IsView, IsLayout, Reshape
<1>10. \A k : IsLayout(Flip(l, k)) => IsView(Flip(l, k))
  BY DEF IsView, IsLayout, Flip
<1>11. \A k : IsLayout(Diagonal(l, k)) => IsView(Diagonal(l, k))
  BY DEF IsView, IsLayout, Diagonal
<1> QED BY <1>3, <1>4, <1>5, <1>6, <1>7, <1>8, <1>9, <1>10, <1>11

\* A new buffer, in either order, satisfies the invariant.
LEMMA InitShows ==
  Init => IInv
<1> SUFFICES ASSUME Init PROVE IInv
  OBVIOUS
<1>1. PICK shape \in BaseShapes :
        /\ \/ view = NewC(shape) /\ array = RowMajor(shape)
           \/ view = NewF(shape) /\ array = ColumnMajor(shape)
        /\ capacity = ItemSize * Product(shape)
  BY DEF Init
<1>2. shape \in Seq(Nat)
  BY LayoutAssumption
<1>3. Product(shape) \in Nat
  BY <1>2, PositionRange
<1>4. Shows(view, array, Product(shape))
  BY <1>1, <1>2, NewShows
<1>5. IsView(view)
  <2>1. CStrides(shape) \in Seq(Int) /\ FStrides(shape) \in Seq(Int)
    BY <1>2, StridesType
  <2> QED BY <1>1, <1>2, <2>1 DEF NewC, NewF, IsView
<1> QED BY <1>1, <1>3, <1>4, <1>5 DEF IInv

\* Every operation keeps the invariant, a slice if it is inside its axis.
LEMMA StepShows ==
  IInv /\ [Next]_vars /\ (TakeSlice => TakeInside) => IInv'
<1> SUFFICES ASSUME IInv, Next, TakeSlice => TakeInside PROVE IInv'
  BY DEF vars, IInv, IsView, Shows, IsLayout, Offset
<1>1. PICK N \in Nat : capacity = ItemSize * N /\ Shows(view, array, N)
  BY DEF IInv
<1>2. IsView(view)
  BY DEF IInv
<1>3. /\ IsLayout(view) /\ Len(view.shape) \in Nat /\ Axes = 1..Len(view.shape)
      /\ \A i \in Axes : view.shape[i] \in Nat
  <2>1. IsLayout(view)
    BY <1>1 DEF Shows
  <2> QED BY <2>1, LayoutParts DEF Axes
\* What is left to show of each action.
<1>4. ASSUME NEW l, NEW a, Becomes(l, a), Shows(l, a, N), IsLayout(l) => IsView(l)
      PROVE  IInv'
  <2>1. view' = l /\ array' = a /\ capacity' = capacity
    BY <1>4 DEF Becomes
  <2>2. IsLayout(l)
    BY <1>4 DEF Shows
  <2> DEFINE I(v, b, c) == IsView(v) /\ \E M \in Nat : c = ItemSize * M /\ Shows(v, b, M)
  <2>3. I(l, a, capacity)
    BY <1>1, <1>4, <2>2
  <2>4. I(view', array', capacity')
    BY <2>1, <2>3
  <2> QED BY <2>4 DEF IInv, IsView, Shows, IsLayout, Offset
<1>5. CASE TakePermute
  <2>1. PICK axes \in [Axes -> Axes] :
          IsInjective(axes) /\ Becomes(Permute(view, axes), Permuted(array, axes))
    BY <1>5 DEF TakePermute
  <2>2. Shows(Permute(view, axes), Permuted(array, axes), N)
    BY <1>1, <2>1, PermuteShows DEF Axes
  <2> QED BY <1>2, <1>4, <2>1, <2>2, ViewsAreRecords
<1>6. CASE TakeExpandDims
  <2>1. PICK k \in 1..(Len(view.shape) + 1) : Becomes(ExpandDims(view, k), WithAxis(array, k))
    BY <1>6 DEF TakeExpandDims
  <2>2. Shows(ExpandDims(view, k), WithAxis(array, k), N)
    BY <1>1, ExpandShows
  <2> QED BY <1>2, <1>4, <2>1, <2>2, ViewsAreRecords
<1>7. CASE TakeSqueezeAxis
  <2>1. PICK k \in Axes : view.shape[k] = 1 /\ Becomes(SqueezeAxis(view, k), WithoutAxis(array, k))
    BY <1>7 DEF TakeSqueezeAxis
  <2>2. Shows(SqueezeAxis(view, k), WithoutAxis(array, k), N)
    BY <1>1, <1>3, <2>1, SqueezeAxisShows
  <2> QED BY <1>2, <1>4, <2>1, <2>2, ViewsAreRecords
<1>8. CASE TakeSqueeze
  <2>1. Shows(Squeeze(view), WithoutUnitAxes(array), N)
    BY <1>1, SqueezeShows
  <2> QED BY <1>2, <1>4, <1>8, <2>1, ViewsAreRecords DEF TakeSqueeze
<1>9. CASE TakeSlice
  <2>1. PICK k \in Axes, arg \in Slices : Inside(arg, view.shape[k]) /\ TakeSliceOf(k, arg)
    BY <1>9 DEF TakeInside
  <2> DEFINE l == SliceAxis(view, k, arg)
             a == Selected(array, k, Positions(arg, view.shape[k]))
  <2>2. IsSliceArg(arg)
    BY LayoutAssumption DEF IsSliceArg
  <2>3. Shows(l, a, N)
    BY <1>1, <1>3, <2>1, <2>2, SliceShows
  <2>4. Becomes(l, a)
    BY <2>1 DEF TakeSliceOf
  <2>5. IsLayout(l) => IsView(l)
    BY <1>2, ViewsAreRecords
  <2> QED BY <1>4, <2>3, <2>4, <2>5
<1>10. CASE TakeBroadcast
  <2>1. PICK shape \in Targets :
          Broadcastable(view, shape) /\ Becomes(BroadcastTo(view, shape), Broadcasted(array, shape))
    BY <1>10 DEF TakeBroadcast
  <2>2. shape \in Seq(Nat)
    BY LayoutAssumption
  <2>3. Shows(BroadcastTo(view, shape), Broadcasted(array, shape), N)
    BY <1>1, <2>1, <2>2, BroadcastShows
  <2> QED BY <1>2, <1>4, <2>1, <2>3, ViewsAreRecords
<1>11. CASE TakeReshape
  <2>1. PICK shape \in Targets :
          /\ IsCContiguous(view) /\ Size(view) = Product(shape)
          /\ Becomes(Reshape(view, shape), Reshaped(array, shape))
    BY <1>11 DEF TakeReshape
  <2>2. shape \in Seq(Nat)
    BY LayoutAssumption
  <2>3. Shows(Reshape(view, shape), Reshaped(array, shape), N)
    BY <1>1, <2>1, <2>2, ReshapeShows
  <2> QED BY <1>2, <1>4, <2>1, <2>3, ViewsAreRecords
<1>12. CASE TakeFlip
  <2>1. PICK k \in Axes : Becomes(Flip(view, k), Flipped(array, k))
    BY <1>12 DEF TakeFlip
  <2>2. Shows(Flip(view, k), Flipped(array, k), N)
    BY <1>1, <1>3, FlipShows
  <2> QED BY <1>2, <1>4, <2>1, <2>2, ViewsAreRecords
<1>13. CASE TakeDiagonal
  <2>1. Len(view.shape) >= 2 /\ ~IsEmpty(view) /\ (Len(view.shape) - 1) + 1 = Len(view.shape)
    BY <1>3, <1>13 DEF TakeDiagonal
  <2>2. PICK k \in (1 - view.shape[Len(view.shape) - 1])..(view.shape[Len(view.shape)] - 1) :
          Becomes(Diagonal(view, k), DiagonalOf(array, k))
    BY <1>13, <2>1 DEF TakeDiagonal
  <2>3. Shows(Diagonal(view, k), DiagonalOf(array, k), N)
    BY <1>1, <2>1, DiagonalShows
  <2> QED BY <1>2, <1>4, <2>2, <2>3, ViewsAreRecords
<1> QED BY <1>5, <1>6, <1>7, <1>8, <1>9, <1>10, <1>11, <1>12, <1>13 DEF Next

-------------------------------------------------------------------------------
(* What holds of every layout, also of those slices that miss their axis     *)

\* Whatever start, stop and step a slice is given, what comes of it is a layout.
LEMMA SliceLayout ==
  ASSUME NEW l, IsLayout(l), NEW k \in 1..Len(l.shape), NEW arg, IsSliceArg(arg)
  PROVE  IsLayout(SliceAxis(l, k, arg))
<1> DEFINE n == Len(l.shape)
           dim == l.shape[k]
           r == Resolve(arg, dim)
           m == SliceAxis(l, k, arg)
<1>1. /\ n \in Nat /\ l.offset \in Int /\ l.shape \in [1..n -> Nat] /\ l.strides \in [1..n -> Int]
      /\ k \in 1..n /\ dim \in Nat /\ l.strides[k] \in Int
  <2>1. /\ n \in Nat /\ l.offset \in Int /\ DOMAIN l.shape = 1..n /\ DOMAIN l.strides = 1..n
        /\ l.shape \in Seq(Nat) /\ l.strides \in Seq(Int)
        /\ \A i \in 1..n : l.shape[i] \in Nat /\ l.strides[i] \in Int
    BY LayoutParts
  <2> QED BY <2>1
<1>2. /\ arg.start \in Int \cup {None} /\ arg.stop \in Int \cup {None}
      /\ StepOf(arg) \in Int /\ StepOf(arg) # 0
  <2>1. arg.start \in Int \cup {None} /\ arg.stop \in Int \cup {None} /\ arg.step \in (Int \ {0}) \cup {None}
    BY DEF IsSliceArg
  <2> QED BY <2>1 DEF StepOf
<1> HIDE DEF dim
<1>3. \A v \in Int : Clamp(v, dim) \in Nat
  <2> TAKE v \in Int
  <2>1. FromEnd(v, dim) \in Int /\ Clamp(v, dim) = Within(FromEnd(v, dim), dim)
    BY <1>1, ClampIs
  <2> QED BY <1>1, <2>1 DEF Within
<1>4. \A p, q \in Nat : Monus(p, q) \in Nat
  BY DEF Monus
<1>5. r.start \in Nat /\ r.count \in Nat
  <2>1. CASE StepOf(arg) > 0
    <3> DEFINE start == IF arg.start = None THEN 0 ELSE Clamp(arg.start, dim)
               stop == IF arg.stop = None THEN dim ELSE Clamp(arg.stop, dim)
    <3>1. start \in Nat /\ stop \in Nat
      BY <1>1, <1>2, <1>3
    <3>2. r.start = start /\ r.count = CeilDiv(Monus(stop, start), StepOf(arg))
      BY <2>1 DEF Resolve, ResolveForwards
    <3> HIDE DEF start, stop, r
    <3>3. Monus(stop, start) \in Nat /\ StepOf(arg) \in Nat
      <4>1. Monus(stop, start) \in Nat
        BY <1>4, <3>1
      <4>2. StepOf(arg) \in Nat
        BY ONLY <1>2, <2>1
      <4> QED BY <4>1, <4>2
    <3> QED BY <2>1, <3>1, <3>2, <3>3, Steps
  <2>2. CASE ~(StepOf(arg) > 0)
    <3> DEFINE start == IF arg.start = None THEN Monus(dim, 1) ELSE Clamp(arg.start, dim)
               stop == IF arg.stop = None \/ FromEnd(arg.stop, dim) < 0 THEN USizeMax
                       ELSE Min({FromEnd(arg.stop, dim), dim})
    <3>1. start \in Nat /\ stop \in Nat
      <4>1. start \in Nat
        BY <1>1, <1>2, <1>3, <1>4
      <4>2. CASE arg.stop = None \/ FromEnd(arg.stop, dim) < 0
        BY <4>1, <4>2, LayoutAssumption
      <4>3. CASE ~(arg.stop = None \/ FromEnd(arg.stop, dim) < 0)
        <5>0. arg.stop \in Int
          BY <1>2, <4>3
        <5>1. FromEnd(arg.stop, dim) \in Int
          BY <1>1, <5>0, ClampIs
        <5>2. FromEnd(arg.stop, dim) \in Nat
          BY <4>3, <5>1
        <5>3. Min({FromEnd(arg.stop, dim), dim}) \in Nat
          BY <1>1, <5>2, MinPair
        <5> QED BY <4>1, <4>3, <5>3
      <4> QED BY <4>2, <4>3
    <3>2. r.start = start /\ r.count = CeilDiv(Monus(start, stop), -StepOf(arg))
      BY <2>2 DEF Resolve, ResolveBackwards
    <3> HIDE DEF start, stop, r
    <3>3. Monus(start, stop) \in Nat /\ -StepOf(arg) \in Nat /\ -StepOf(arg) > 0
      <4>1. Monus(start, stop) \in Nat
        BY <1>4, <3>1
      <4>2. -StepOf(arg) \in Nat /\ -StepOf(arg) > 0
        BY ONLY <1>2, <2>2
      <4> QED BY <4>1, <4>2
    <3> QED BY <3>1, <3>2, <3>3, Steps
  <2> QED BY <2>1, <2>2
<1>6. /\ m.shape = [l.shape EXCEPT ![k] = r.count]
      /\ m.strides = [l.strides EXCEPT ![k] = @ * StepOf(arg)]
      /\ m.offset = l.offset + r.start * l.strides[k]
  BY DEF SliceAxis, dim
<1> HIDE DEF m, n, r
<1>7. \A p, q \in Int : p * q \in Int
  OBVIOUS
<1>8. m.offset \in Int
  <2>1. r.start * l.strides[k] \in Int
    BY <1>1, <1>5, <1>7
  <2> QED BY <1>1, <1>6, <2>1
<1>9. m.shape \in Seq(Nat) /\ Len(m.shape) = n
  <2>1. m.shape \in [1..n -> Nat]
    BY <1>1, <1>5, <1>6
  <2> QED BY <1>1, <2>1, FunctionIsSeq
<1>10. m.strides \in Seq(Int) /\ Len(m.strides) = n
  <2>1. l.strides[k] * StepOf(arg) \in Int
    BY <1>1, <1>2, <1>7
  <2>2. m.strides \in [1..n -> Int]
    BY <1>1, <1>6, <2>1
  <2> QED BY <1>1, <2>2, FunctionIsSeq
<1> QED BY <1>8, <1>9, <1>10 DEF IsLayout, m

\* flip makes a layout.
LEMMA FlipLayout ==
  ASSUME NEW l, IsLayout(l), NEW k \in 1..Len(l.shape)
  PROVE  IsLayout(Flip(l, k))
<1> DEFINE n == Len(l.shape)
           m == Flip(l, k)
<1>1. /\ n \in Nat /\ l.offset \in Int /\ l.shape \in Seq(Nat) /\ l.strides \in [1..n -> Int]
      /\ k \in 1..n /\ l.shape[k] \in Nat /\ l.strides[k] \in Int
  <2>1. /\ n \in Nat /\ l.offset \in Int /\ DOMAIN l.strides = 1..n
        /\ l.shape \in Seq(Nat) /\ l.strides \in Seq(Int)
        /\ \A i \in 1..n : l.shape[i] \in Nat /\ l.strides[i] \in Int
    BY LayoutParts
  <2> QED BY <2>1
<1>2. /\ m.shape = l.shape
      /\ m.offset = l.offset + IF l.shape[k] > 0 THEN (l.shape[k] - 1) * l.strides[k] ELSE 0
      /\ m.strides = [l.strides EXCEPT ![k] = -@]
  BY DEF Flip
<1> HIDE DEF m
<1>3. m.offset \in Int
  <2>1. \A p, q \in Int : (p - 1) * q \in Int
    OBVIOUS
  <2>2. (l.shape[k] - 1) * l.strides[k] \in Int
    BY <1>1, <2>1
  <2> DEFINE move == IF l.shape[k] > 0 THEN (l.shape[k] - 1) * l.strides[k] ELSE 0
  <2>3. move \in Int
    BY ONLY <2>2
  <2>4. l.offset \in Int /\ m.offset = l.offset + move
    BY <1>1, <1>2
  <2> HIDE DEF move
  <2> QED BY ONLY <2>3, <2>4
<1> HIDE DEF n
<1>4. m.strides \in Seq(Int) /\ Len(m.strides) = n
  <2>0. -l.strides[k] \in Int
    BY <1>1
  <2>1. m.strides \in [1..n -> Int]
    BY <1>1, <1>2, <2>0
  <2> QED BY <1>1, <2>1, FunctionIsSeq
<1> QED BY <1>1, <1>2, <1>3, <1>4 DEF IsLayout, m, n

\* diagonal makes a layout.
LEMMA DiagonalLayout ==
  ASSUME NEW l, IsLayout(l), Len(l.shape) >= 2, NEW k \in Int
  PROVE  IsLayout(Diagonal(l, k))
<1> DEFINE r == Len(l.shape) - 1
           m == Diagonal(l, k)
           row == IF k >= 0 THEN 0 ELSE -k
           col == IF k >= 0 THEN k ELSE 0
           c == Min({Monus(l.shape[r], row), Monus(l.shape[r + 1], col)})
           start == [i \in 1..(r + 1) |-> IF i < r THEN 0 ELSE IF i = r THEN row ELSE col]
<1>1. /\ r \in Nat /\ r >= 1 /\ Len(l.shape) = r + 1 /\ Len(l.strides) = r + 1
      /\ DOMAIN l.shape = 1..(r + 1)
      /\ l.shape \in Seq(Nat) /\ l.strides \in Seq(Int) /\ l.offset \in Int
      /\ \A i \in 1..(r + 1) : l.shape[i] \in Nat /\ l.strides[i] \in Int
  <2>1. /\ DOMAIN l.shape = 1..Len(l.shape) /\ Len(l.shape) \in Nat
        /\ l.shape \in Seq(Nat) /\ l.strides \in Seq(Int) /\ Len(l.strides) = Len(l.shape)
        /\ l.offset \in Int
        /\ \A i \in 1..Len(l.shape) : l.shape[i] \in Nat /\ l.strides[i] \in Int
    BY LayoutParts
  <2>2. r \in Nat /\ r >= 1 /\ Len(l.shape) = r + 1
    BY <2>1
  <2> HIDE DEF r
  <2> QED BY <2>1, <2>2
<1>2. /\ m.shape = Append(SubSeq(l.shape, 1, r - 1), c)
      /\ m.strides = Append(SubSeq(l.strides, 1, r - 1), l.strides[r] + l.strides[r + 1])
      /\ m.offset = Offset(l, start)
  BY <1>1 DEF Diagonal
<1> HIDE DEF r, m
<1>3. row \in Nat /\ col \in Nat
  OBVIOUS
<1> HIDE DEF row, col
<1>4. r \in 1..(r + 1) /\ r + 1 \in 1..(r + 1) /\ r \in 1..Len(l.shape) /\ r \in 1..Len(l.strides)
  BY <1>1
<1>5. l.shape[r] \in Nat /\ l.shape[r + 1] \in Nat /\ l.strides[r] \in Int /\ l.strides[r + 1] \in Int
  BY <1>1, <1>4
<1>6. c \in Nat
  <2> DEFINE u == Monus(l.shape[r], row)
             v == Monus(l.shape[r + 1], col)
  <2>1. \A p, q \in Nat : Monus(p, q) \in Nat
    BY DEF Monus
  <2>2. u \in Nat /\ v \in Nat
    BY <1>3, <1>5, <2>1
  <2> HIDE DEF u, v
  <2>3. Min({u, v}) \in Nat
    BY <2>2, MinPair
  <2> QED BY <2>3 DEF u, v
<1>7. m.offset \in Int
  <2>1. \A i \in 1..(r + 1) : start[i] \in Int
    BY <1>3
  <2>2. start \in [1..Len(l.shape) -> Int]
    BY <1>1, <2>1
  <2> HIDE DEF start
  <2>3. /\ Offset(l, start) = l.offset + SumFunctionOnSet(Moves(l, start), 1..Len(l.shape))
        /\ SumFunctionOnSet(Moves(l, start), 1..Len(l.shape)) \in Int
    BY <2>2, OffsetIs
  <2> QED BY <1>1, <1>2, <2>3
<1> HIDE DEF c
<1>8. m.shape \in Seq(Nat) /\ Len(m.shape) = r
  <2>1. IsAppended(m.shape, l.shape, r, c, Nat)
    BY <1>1, <1>2, <1>4, <1>6, AppendedParts
  <2> QED BY <2>1 DEF IsAppended
<1>9. m.strides \in Seq(Int) /\ Len(m.strides) = r
  <2>1. l.strides[r] + l.strides[r + 1] \in Int
    BY <1>5
  <2>2. IsAppended(m.strides, l.strides, r, l.strides[r] + l.strides[r + 1], Int)
    BY <1>1, <1>2, <1>4, <2>1, AppendedParts
  <2> QED BY <2>2 DEF IsAppended
<1> QED BY <1>7, <1>8, <1>9 DEF IsLayout, m

-------------------------------------------------------------------------------
(* What the invariant says of an array and its views                         *)

\* The invariant implies the properties of the elements.
LEMMA InvImplies ==
  IInv => TypeOK /\ ViewIsExact /\ ViewInBuffer
<1> SUFFICES ASSUME IInv PROVE TypeOK /\ ViewIsExact /\ ViewInBuffer
  OBVIOUS
<1>1. PICK N \in Nat : capacity = ItemSize * N /\ Shows(view, array, N)
  BY DEF IInv
<1>2. IsView(view) /\ IsLayout(view) /\ view.shape = array.shape
  BY <1>1 DEF IInv, Shows
<1>3. ItemSize \in Nat /\ ItemSize > 0
  BY LayoutAssumption
<1>4. TypeOK
  <2>1. capacity \in Nat
    <3>1. \A p, q \in Nat : p * q \in Nat
      OBVIOUS
    <3> QED BY <1>1, <1>3, <3>1
  <2>2. view.shape \in Seq(Nat) /\ Len(view.shape) = Len(view.strides)
    BY <1>2, LayoutParts
  <2> QED BY <1>2, <2>1, <2>2 DEF TypeOK, IsView
<1>5. ViewIsExact
  BY <1>1, <1>2 DEF Shows, ViewIsExact
<1>6. ViewInBuffer
  <2> SUFFICES ASSUME NEW x \in Indices(view.shape)
               PROVE  Offset(view, x) >= 0 /\ Offset(view, x) + ItemSize <= capacity
    BY DEF ViewInBuffer
  <2>1. array.elem[x] \in 0..(N - 1) /\ Offset(view, x) = ItemSize * array.elem[x]
    BY <1>1 DEF Shows
  <2> DEFINE e == array.elem[x]
  <2>2. PICK t \in Nat : N = e + 1 + t
    <3>1. N - e - 1 \in Nat /\ N = e + 1 + (N - e - 1)
      BY <2>1
    <3> QED BY <3>1
  <2>3. e \in Nat
    BY <2>1
  <2>4. Offset(view, x) = ItemSize * e /\ capacity = ItemSize * (e + 1 + t)
    BY <1>1, <2>1, <2>2
  <2> HIDE DEF e
  <2>5. /\ ItemSize * (e + 1 + t) = ItemSize * e + ItemSize + ItemSize * t
        /\ ItemSize * e \in Nat /\ ItemSize * t \in Nat
    <3>1. \A p, q, u \in Nat : /\ p * (q + 1 + u) = p * q + p + p * u
                               /\ p * q \in Nat /\ p * u \in Nat
      OBVIOUS
    <3> QED BY <1>3, <2>2, <2>3, <3>1
  <2> QED BY <1>3, <2>4, <2>5
<1> QED BY <1>4, <1>5, <1>6

\* The steps of a program that slices only inside its arrays keep the invariant.
LEMMA InsideIsExact ==
  Spec /\ [][TakeSlice => TakeInside]_vars => []IInv
<1>1. Init => IInv
  BY InitShows
<1>2. IInv /\ [Next]_vars /\ [TakeSlice => TakeInside]_vars => IInv'
  <2>1. CASE vars' = vars
    <3>1. UNCHANGED vars => (IInv => IInv')
      BY DEF vars, IInv, IsView, Shows, IsLayout, Offset
    <3> QED BY <2>1, <3>1
  <2>2. CASE vars' # vars
    BY <2>2, StepShows
  <2> QED BY <2>1, <2>2
<1> QED BY <1>1, <1>2, PTL DEF Spec

\* However views are made of views, shape, strides and offset stay what a Layout
\* holds, a stride for each axis, and the capacity is never negative.
THEOREM TypeCorrect ==
  Spec /\ [][TakeSlice => TakeInside]_vars => []TypeOK
<1>1. IInv => TypeOK
  BY InvImplies
<1> QED BY <1>1, InsideIsExact, PTL

\* byte_offset of every index of every view of a view is the offset of the element
\* the array has at that index, for any shapes, axes, slices and targets, as long
\* as slices backwards start and stop on their axis.
THEOREM ViewsExact ==
  Spec /\ [][TakeSlice => TakeInside]_vars => []ViewIsExact
<1>1. IInv => ViewIsExact
  BY InvImplies
<1> QED BY <1>1, InsideIsExact, PTL

\* Under the same condition no element of any view is outside the buffer it was
\* made of.  Without it this is false: run layout_reversed.
THEOREM ViewsInBuffer ==
  Spec /\ [][TakeSlice => TakeInside]_vars => []ViewInBuffer
<1>1. IInv => ViewInBuffer
  BY InvImplies
<1> QED BY <1>1, InsideIsExact, PTL

\* Arguments that are inside every axis: a slice that goes forwards, and one that
\* goes backwards from the end of the axis to a stop counted from its start.
AlwaysInside(arg) ==
  \/ StepOf(arg) > 0
  \/ arg.stop \in Nat /\ arg.start \in {None} \cup (Int \ Nat)

LEMMA SliceInside ==
  ASSUME NEW arg \in Slices, AlwaysInside(arg), NEW dim \in Nat
  PROVE  Inside(arg, dim)
<1>1. arg.stop \in Int \cup {None} /\ arg.start \in Int \cup {None} /\ None \notin Int
  BY LayoutAssumption
<1> QED BY <1>1 DEF AlwaysInside, Inside, FromEnd

\* So a program whose slices go forwards, or backwards from the end of an axis to a
\* stop counted from its start, has only views that are exact and in their buffer.
THEOREM ExactWhenInside ==
  ASSUME \A arg \in Slices : AlwaysInside(arg)
  PROVE  Spec => [](TypeOK /\ ViewIsExact /\ ViewInBuffer)
<1>1. Init => IInv
  BY InitShows
<1>2. IInv => TypeOK /\ ViewIsExact /\ ViewInBuffer
  BY InvImplies
<1>3. IInv /\ TakeSlice => TakeInside
  <2> SUFFICES ASSUME IInv, NEW k \in Axes, NEW arg \in Slices, TakeSliceOf(k, arg)
               PROVE  Inside(arg, view.shape[k])
    BY DEF TakeSlice, TakeInside
  <2>1. view.shape[k] \in Nat
    <3>1. IsLayout(view)
      BY DEF IInv, Shows
    <3> QED BY <3>1, LayoutParts DEF Axes
  <2> QED BY <2>1, SliceInside
<1>4. IInv /\ [Next]_vars => IInv'
  BY <1>3, StepShows
<1> QED BY <1>1, <1>2, <1>4, PTL DEF Spec

\* An element of an axis lies between its ends, whatever the sign of the stride.
LEMMA BetweenEnds ==
  ASSUME NEW s \in Int, NEW d \in Nat, NEW e \in Nat, e < d
  PROVE  /\ s * (d - 1) \in Int /\ e * s \in Int /\ (d - 1) * s = s * (d - 1)
         /\ s * (d - 1) <= 0 => s * (d - 1) <= e * s /\ e * s <= 0
         /\ s * (d - 1) > 0 => 0 <= e * s /\ e * s <= s * (d - 1)
<1>1. PICK t \in Nat : d - 1 = e + t
  <2>1. d - 1 - e \in Nat /\ d - 1 = e + (d - 1 - e)
    OBVIOUS
  <2> QED BY <2>1
<1>2. s * (d - 1) = e * s + t * s /\ (d - 1) * s = s * (d - 1)
  <2>1. \A p \in Int : \A q, u \in Nat : p * (q + u) = q * p + u * p /\ (q + u) * p = p * (q + u)
    OBVIOUS
  <2>2. s * (e + t) = e * s + t * s /\ (e + t) * s = s * (e + t)
    BY <2>1
  <2> QED BY <1>1, <2>2
<1>3. e * s \in Int /\ t * s \in Int
  <2>1. \A p \in Nat : \A q \in Int : p * q \in Int
    OBVIOUS
  <2> QED BY <2>1
<1>4. CASE s >= 0
  <2>1. \A p \in Nat : \A q \in Nat : p * q >= 0
    OBVIOUS
  <2>2. e * s >= 0 /\ t * s >= 0
    BY <1>4, <2>1
  <2> QED BY <1>2, <1>3, <2>2
<1>5. CASE s < 0
  <2>1. \A p \in Nat : \A q \in Int : q < 0 => p * q <= 0
    OBVIOUS
  <2>2. e * s <= 0 /\ t * s <= 0
    BY <1>5, <2>1
  <2> QED BY <1>2, <1>3, <2>2
<1> QED BY <1>4, <1>5

\* Every element of a layout lies between the elements at two indices.
IsBetween(l, lo, hi) ==
  \A x \in Indices(l.shape) : /\ Offset(l, x) \in Int
                              /\ Offset(l, lo) <= Offset(l, x)
                              /\ Offset(l, x) <= Offset(l, hi)

\* The range of a layout is that of two of its elements, as usizes.
IsRange(l) ==
  /\ Size(l) # 0
  /\ \E lo, hi \in Indices(l.shape) :
       /\ IsBetween(l, lo, hi)
       /\ ByteRange(l) = <<AsUsize(Offset(l, lo)), AsUsize(Offset(l, hi))>>

\* The ends of byte_range are the corners of the view.
LEMMA RangeOf ==
  ASSUME NEW l, IsLayout(l), NEW z \in Indices(l.shape)
  PROVE  IsRange(l)
<1> DEFINE n == Len(l.shape)
           span == [i \in DOMAIN l.shape |-> l.strides[i] * (l.shape[i] - 1)]
           D == {i \in DOMAIN span : span[i] <= 0}
           U == {i \in DOMAIN span : span[i] > 0}
           lo == [i \in 1..n |-> IF span[i] <= 0 THEN l.shape[i] - 1 ELSE 0]
           hi == [i \in 1..n |-> IF span[i] > 0 THEN l.shape[i] - 1 ELSE 0]
<1>1. /\ n \in Nat /\ DOMAIN l.shape = 1..n /\ l.shape \in Seq(Nat) /\ l.offset \in Int
      /\ \A i \in 1..n : l.shape[i] \in Nat /\ l.strides[i] \in Int
      /\ IsFiniteSet(1..n)
  <2>1. /\ n \in Nat /\ DOMAIN l.shape = 1..n /\ l.shape \in Seq(Nat) /\ l.offset \in Int
        /\ \A i \in 1..n : l.shape[i] \in Nat /\ l.strides[i] \in Int
    BY LayoutParts
  <2> HIDE DEF n
  <2>2. IsFiniteSet(1..n)
    BY <2>1, FS_Interval
  <2> QED BY <2>1, <2>2
<1>2. \A i \in 1..n : z[i] \in Nat /\ z[i] < l.shape[i]
  BY OffsetOfIndex
<1>3. Size(l) # 0
  <2>1. Position(z, l.shape) \in 0..(Product(l.shape) - 1)
    BY <1>1, PositionRange
  <2> QED BY <2>1 DEF Size
<1>4. /\ ByteRange(l) = <<AsUsize(l.offset + SumFunctionOnSet(span, D)),
                           AsUsize(l.offset + SumFunctionOnSet(span, U))>>
  BY <1>3 DEF ByteRange
<1>5. /\ DOMAIN span = 1..n
      /\ \A i \in 1..n : span[i] = l.strides[i] * (l.shape[i] - 1)
  BY <1>1
<1>6. \A i \in 1..n : span[i] \in Int
  BY <1>1, <1>2, <1>5, BetweenEnds
<1>7. D \in SUBSET (1..n) /\ U \in SUBSET (1..n) /\ IsFiniteSet(D) /\ IsFiniteSet(U)
      /\ (\A i \in D : span[i] <= 0) /\ (\A i \in U : span[i] > 0)
      /\ (\A i \in (1..n) \ D : ~(span[i] <= 0)) /\ (\A i \in (1..n) \ U : ~(span[i] > 0))
  <2>1. D \in SUBSET (1..n) /\ U \in SUBSET (1..n)
    BY <1>5
  <2>2. IsFiniteSet(D) /\ IsFiniteSet(U)
    BY <1>1, <2>1, FS_Subset
  <2> HIDE DEF span
  <2> QED BY <1>5, <2>1, <2>2
<1> HIDE DEF span, D, U
<1>8. lo \in Indices(l.shape) /\ hi \in Indices(l.shape)
  <2>1. \A i \in 1..n : l.shape[i] - 1 \in Nat /\ l.shape[i] - 1 < l.shape[i] /\ 0 < l.shape[i]
    <3> TAKE i \in 1..n
    <3>1. l.shape[i] \in Nat /\ z[i] \in Nat /\ z[i] < l.shape[i]
      BY <1>1, <1>2
    <3> QED BY ONLY <3>1
  <2>2. lo \in [1..n -> Nat] /\ \A i \in 1..n : lo[i] < l.shape[i]
    BY <2>1
  <2>3. hi \in [1..n -> Nat] /\ \A i \in 1..n : hi[i] < l.shape[i]
    BY <2>1
  <2> HIDE DEF lo, hi
  <2> QED BY <1>1, <2>2, <2>3, IndicesAre
<1>9. ASSUME NEW x \in Indices(l.shape)
      PROVE  /\ x \in [1..n -> Int]
             /\ Offset(l, x) = l.offset + SumFunctionOnSet(Moves(l, x), 1..n)
             /\ SumFunctionOnSet(Moves(l, x), 1..n) \in Int
             /\ \A i \in 1..n : /\ Moves(l, x)[i] \in Int
                                /\ Moves(l, x)[i] = x[i] * l.strides[i]
                                /\ x[i] \in Nat /\ x[i] < l.shape[i]
  BY OffsetOfIndex, OffsetIs
<1>10. \A i \in 1..n : Moves(l, lo)[i] = IF span[i] <= 0 THEN span[i] ELSE 0
  <2> TAKE i \in 1..n
  <2>1. Moves(l, lo)[i] = lo[i] * l.strides[i] /\ l.strides[i] \in Int
    BY <1>1, <1>8, <1>9
  <2>2. span[i] <= 0 => lo[i] = l.shape[i] - 1
    OBVIOUS
  <2>3. ~(span[i] <= 0) => lo[i] = 0
    OBVIOUS
  <2>4. (l.shape[i] - 1) * l.strides[i] = l.strides[i] * (l.shape[i] - 1)
    BY <1>1, <1>2, BetweenEnds
  <2> HIDE DEF lo
  <2> QED BY <1>5, <2>1, <2>2, <2>3, <2>4
<1>11. \A i \in 1..n : Moves(l, hi)[i] = IF span[i] > 0 THEN span[i] ELSE 0
  <2> TAKE i \in 1..n
  <2>1. Moves(l, hi)[i] = hi[i] * l.strides[i] /\ l.strides[i] \in Int
    BY <1>1, <1>8, <1>9
  <2>2. span[i] > 0 => hi[i] = l.shape[i] - 1
    OBVIOUS
  <2>3. ~(span[i] > 0) => hi[i] = 0
    OBVIOUS
  <2>4. (l.shape[i] - 1) * l.strides[i] = l.strides[i] * (l.shape[i] - 1)
    BY <1>1, <1>2, BetweenEnds
  <2> HIDE DEF hi
  <2> QED BY <1>5, <2>1, <2>2, <2>3, <2>4
<1> HIDE DEF lo, hi
<1>12. Offset(l, lo) = l.offset + SumFunctionOnSet(span, D)
  <2> DEFINE f == Moves(l, lo)
  <2>1. \A i \in 1..n : f[i] \in Int /\ f[i] = IF span[i] <= 0 THEN span[i] ELSE 0
    BY <1>8, <1>9, <1>10
  <2>2. Offset(l, lo) = l.offset + SumFunctionOnSet(f, 1..n)
    BY <1>8, <1>9
  <2> HIDE DEF f
  <2>3. (\A i \in (1..n) \ D : f[i] = 0) /\ \A i \in D : f[i] \in Int /\ f[i] = span[i]
    BY <1>7, <2>1
  <2>4. SumFunctionOnSet(f, 1..n) = SumFunctionOnSet(f, D)
    BY <1>1, <1>7, <2>1, <2>3, SumSupport
  <2>5. SumFunctionOnSet(f, D) = SumFunctionOnSet(span, D)
    BY <1>7, <2>3, SumSame
  <2> QED BY <2>2, <2>4, <2>5
<1>13. Offset(l, hi) = l.offset + SumFunctionOnSet(span, U)
  <2> DEFINE f == Moves(l, hi)
  <2>1. \A i \in 1..n : f[i] \in Int /\ f[i] = IF span[i] > 0 THEN span[i] ELSE 0
    BY <1>8, <1>9, <1>11
  <2>2. Offset(l, hi) = l.offset + SumFunctionOnSet(f, 1..n)
    BY <1>8, <1>9
  <2> HIDE DEF f
  <2>3. (\A i \in (1..n) \ U : f[i] = 0) /\ \A i \in U : f[i] \in Int /\ f[i] = span[i]
    BY <1>7, <2>1
  <2>4. SumFunctionOnSet(f, 1..n) = SumFunctionOnSet(f, U)
    BY <1>1, <1>7, <2>1, <2>3, SumSupport
  <2>5. SumFunctionOnSet(f, U) = SumFunctionOnSet(span, U)
    BY <1>7, <2>3, SumSame
  <2> QED BY <2>2, <2>4, <2>5
<1>14. ASSUME NEW x \in Indices(l.shape)
       PROVE  /\ Offset(l, x) \in Int
              /\ Offset(l, lo) <= Offset(l, x) /\ Offset(l, x) <= Offset(l, hi)
  <2>1. \A i \in 1..n : /\ Moves(l, lo)[i] \in Int /\ Moves(l, x)[i] \in Int /\ Moves(l, hi)[i] \in Int
                        /\ Moves(l, lo)[i] <= Moves(l, x)[i]
                        /\ Moves(l, x)[i] <= Moves(l, hi)[i]
    <3> TAKE i \in 1..n
    <3>1. Moves(l, lo)[i] \in Int /\ Moves(l, x)[i] \in Int /\ Moves(l, hi)[i] \in Int
      BY <1>8, <1>9
    <3>2. Moves(l, x)[i] = x[i] * l.strides[i] /\ x[i] \in Nat /\ x[i] < l.shape[i]
      BY <1>9
    <3>3. /\ span[i] <= 0 => span[i] <= x[i] * l.strides[i] /\ x[i] * l.strides[i] <= 0
          /\ span[i] > 0 => 0 <= x[i] * l.strides[i] /\ x[i] * l.strides[i] <= span[i]
      <4> DEFINE s == l.strides[i]
                 d == l.shape[i]
                 e == x[i]
      <4>1. s \in Int /\ d \in Nat /\ e \in Nat /\ e < d /\ span[i] = s * (d - 1)
        BY <1>1, <1>5, <3>2
      <4> HIDE DEF s, d, e
      <4>2. /\ s * (d - 1) <= 0 => s * (d - 1) <= e * s /\ e * s <= 0
            /\ s * (d - 1) > 0 => 0 <= e * s /\ e * s <= s * (d - 1)
        BY ONLY <4>1, BetweenEnds
      <4> QED BY <4>1, <4>2 DEF s, e
    <3>4. span[i] \in Int
      BY <1>6
    <3> QED BY <1>10, <1>11, <3>1, <3>2, <3>3, <3>4
  <2>2. SumFunctionOnSet(Moves(l, lo), 1..n) <= SumFunctionOnSet(Moves(l, x), 1..n)
    BY <1>1, <2>1, SumMonotone
  <2>3. SumFunctionOnSet(Moves(l, x), 1..n) <= SumFunctionOnSet(Moves(l, hi), 1..n)
    BY <1>1, <2>1, SumMonotone
  <2> QED BY <1>1, <1>8, <1>9, <2>2, <2>3
<1>15. ByteRange(l) = <<AsUsize(Offset(l, lo)), AsUsize(Offset(l, hi))>>
  BY <1>4, <1>12, <1>13
<1>16. IsBetween(l, lo, hi)
  BY <1>14 DEF IsBetween
<1> QED BY <1>3, <1>8, <1>15, <1>16 DEF IsRange

\* What is a usize stays what it is.
LEMMA UsizeKept ==
  ASSUME NEW n \in Nat, n <= USizeMax
  PROVE  AsUsize(n) = n
<1> DEFINE M == USizeMax + 1
<1>1. M \in Nat /\ n < M
  BY LayoutAssumption
<1>2. AsUsize(n) = n % M
  BY DEF AsUsize
<1> HIDE DEF M
<1>3. \A a, b \in Nat : a < b => a % b = a
  OBVIOUS
<1> QED BY <1>1, <1>2, <1>3

\* Every element of a view is one of a buffer whose bytes are a usize.
InBuffer(l, bytes) ==
  \A x \in Indices(l.shape) : Offset(l, x) \in Nat /\ Offset(l, x) + ItemSize <= bytes

\* The range of a view in its buffer is that of two of its elements.
LEMMA RangeInBuffer ==
  ASSUME NEW l, IsLayout(l), NEW z \in Indices(l.shape),
         NEW bytes \in Nat, bytes <= USizeMax, InBuffer(l, bytes)
  PROVE  /\ Size(l) # 0
         /\ \E lo, hi \in Indices(l.shape) :
              /\ IsBetween(l, lo, hi)
              /\ ByteRange(l) = <<Offset(l, lo), Offset(l, hi)>>
<1>1. IsRange(l)
  BY RangeOf
<1>2. PICK lo, hi \in Indices(l.shape) :
        /\ IsBetween(l, lo, hi)
        /\ ByteRange(l) = <<AsUsize(Offset(l, lo)), AsUsize(Offset(l, hi))>>
  BY <1>1 DEF IsRange
<1>3. \A x \in Indices(l.shape) : AsUsize(Offset(l, x)) = Offset(l, x)
  <2> TAKE x \in Indices(l.shape)
  <2>1. Offset(l, x) \in Nat /\ Offset(l, x) + ItemSize <= bytes
    BY DEF InBuffer
  <2>2. ItemSize \in Nat /\ USizeMax \in Nat
    BY LayoutAssumption
  <2>3. Offset(l, x) <= USizeMax
    BY <2>1, <2>2
  <2> QED BY <2>1, <2>3, UsizeKept
<1>4. ByteRange(l) = <<Offset(l, lo), Offset(l, hi)>>
  BY <1>2, <1>3
<1> QED BY <1>1, <1>2, <1>4 DEF IsRange

\* What stands for elements of a buffer lies in it.
LEMMA ShownInBuffer ==
  ASSUME NEW l, NEW a, NEW N \in Nat, Shows(l, a, N)
  PROVE  InBuffer(l, ItemSize * N)
<1> SUFFICES ASSUME NEW x \in Indices(l.shape)
             PROVE  Offset(l, x) \in Nat /\ Offset(l, x) + ItemSize <= ItemSize * N
  BY DEF InBuffer
<1>1. a.elem[x] \in 0..(N - 1) /\ Offset(l, x) = ItemSize * a.elem[x]
  BY DEF Shows
<1> DEFINE e == a.elem[x]
<1>2. PICK t \in Nat : N = e + 1 + t
  <2>1. N - e - 1 \in Nat /\ N = e + 1 + (N - e - 1)
    BY <1>1
  <2> QED BY <2>1
<1>3. e \in Nat /\ Offset(l, x) = ItemSize * e
  BY <1>1
<1> HIDE DEF e
<1>4. ItemSize \in Nat
  BY LayoutAssumption
<1>5. \A p, q, u \in Nat : /\ p * (q + 1 + u) = p * q + p + p * u
                          /\ p * q \in Nat /\ p * u \in Nat
  OBVIOUS
<1>6. ItemSize * N = ItemSize * e + ItemSize + ItemSize * t
      /\ ItemSize * e \in Nat /\ ItemSize * t \in Nat
  BY <1>2, <1>3, <1>4, <1>5
<1> QED BY <1>3, <1>4, <1>6

\* A layout with an index is not empty.
LEMMA HasElements ==
  ASSUME NEW l, IsLayout(l), NEW x \in Indices(l.shape)
  PROVE  ~IsEmpty(l)
<1>1. DOMAIN l.shape = 1..Len(l.shape)
  BY LayoutParts
<1>2. \A i \in 1..Len(l.shape) : x[i] \in Nat /\ l.shape[i] \in Nat /\ x[i] < l.shape[i]
  BY OffsetOfIndex
<1>3. \A i \in 1..Len(l.shape) : l.shape[i] # 0
  BY <1>2
<1> QED BY <1>1, <1>3 DEF IsEmpty, ToSet

\* The invariant of every program, whatever its slices: the view is a layout.
Laid == IsView(view) /\ IsLayout(view)

\* Every operation makes a layout of a layout.
LEMMA StepLays ==
  Laid /\ [Next]_vars => Laid'
<1> SUFFICES ASSUME Laid, Next PROVE Laid'
  BY DEF vars, Laid, IsView, IsLayout
<1>1. IsView(view) /\ IsLayout(view)
  BY DEF Laid
<1>2. Len(view.shape) \in Nat /\ Axes = 1..Len(view.shape)
      /\ \A i \in Axes : view.shape[i] \in Nat
  BY <1>1, LayoutParts DEF Axes
<1>3. ASSUME NEW l, NEW a, Becomes(l, a), IsLayout(l), IsLayout(l) => IsView(l)
      PROVE  Laid'
  <2>1. view' = l
    BY <1>3 DEF Becomes
  <2> DEFINE L(v) == IsView(v) /\ IsLayout(v)
  <2>2. L(l)
    BY <1>3
  <2>3. L(view')
    BY <2>1, <2>2
  <2> QED BY <2>3 DEF Laid, IsView, IsLayout
<1>4. CASE TakePermute
  <2>1. PICK axes \in [Axes -> Axes] :
          IsInjective(axes) /\ Becomes(Permute(view, axes), Permuted(array, axes))
    BY <1>4 DEF TakePermute
  <2>2. \A i, j \in 1..Len(view.shape) : axes[i] = axes[j] => i = j
    BY <1>2, <2>1 DEF IsInjective
  <2>3. PicksAxes(view, Len(view.shape), axes)
    BY <1>1, <1>2, <2>2, PickedAxes
  <2>4. IsLayout(Permute(view, axes))
    BY <2>3 DEF PicksAxes
  <2> QED BY <1>1, <1>3, <2>1, <2>4, ViewsAreRecords
<1>5. CASE TakeExpandDims
  <2>1. PICK k \in 1..(Len(view.shape) + 1) : Becomes(ExpandDims(view, k), WithAxis(array, k))
    BY <1>5 DEF TakeExpandDims
  <2>2. IsLayout(ExpandDims(view, k))
    BY <1>1, ExpandLacks DEF LacksAxis
  <2> QED BY <1>1, <1>3, <2>1, <2>2, ViewsAreRecords
<1>6. CASE TakeSqueezeAxis
  <2>1. PICK k \in Axes : view.shape[k] = 1 /\ Becomes(SqueezeAxis(view, k), WithoutAxis(array, k))
    BY <1>6 DEF TakeSqueezeAxis
  <2>2. IsLayout(SqueezeAxis(view, k))
    BY <1>1, <1>2, <2>1, SqueezeAxisLacks DEF LacksAxis
  <2> QED BY <1>1, <1>3, <2>1, <2>2, ViewsAreRecords
<1>7. CASE TakeSqueeze
  <2>1. PicksAxes(view, Cardinality(LongAxes(view)), InOrder(LongAxes(view)))
        /\ Squeeze(view) = Permute(view, InOrder(LongAxes(view)))
    BY <1>1, LongAxesPicked
  <2>2. IsLayout(Squeeze(view))
    BY <2>1 DEF PicksAxes
  <2> QED BY <1>1, <1>3, <1>7, <2>2, ViewsAreRecords DEF TakeSqueeze
<1>8. CASE TakeSlice
  <2>1. PICK k \in Axes, arg \in Slices : TakeSliceOf(k, arg)
    BY <1>8 DEF TakeSlice
  <2> DEFINE l == SliceAxis(view, k, arg)
             a == Selected(array, k, Positions(arg, view.shape[k]))
  <2>2. IsSliceArg(arg)
    BY LayoutAssumption DEF IsSliceArg
  <2>3. IsLayout(l)
    BY <1>1, <1>2, <2>2, SliceLayout
  <2>4. Becomes(l, a)
    BY <2>1 DEF TakeSliceOf
  <2>5. IsLayout(l) => IsView(l)
    BY <1>1, ViewsAreRecords
  <2> HIDE DEF l, a
  <2> QED BY <1>3, <2>3, <2>4, <2>5
<1>9. CASE TakeBroadcast
  <2>1. PICK shape \in Targets :
          Broadcastable(view, shape) /\ Becomes(BroadcastTo(view, shape), Broadcasted(array, shape))
    BY <1>9 DEF TakeBroadcast
  <2>2. shape \in Seq(Nat)
    BY LayoutAssumption
  <2>3. Len(shape) >= Len(view.shape)
    <3>1. Len(shape) - Len(view.shape) >= 0
      BY <2>1 DEF Broadcastable
    <3> QED BY <1>2, <2>2, <3>1
  <2>4. IsLayout(BroadcastTo(view, shape))
    BY <1>1, <2>2, <2>3, BroadcastLayout
  <2> QED BY <1>1, <1>3, <2>1, <2>4, ViewsAreRecords
<1>10. CASE TakeReshape
  <2>1. PICK shape \in Targets : Becomes(Reshape(view, shape), Reshaped(array, shape))
    BY <1>10 DEF TakeReshape
  <2>2. shape \in Seq(Nat)
    BY LayoutAssumption
  <2>3. IsLayout(Reshape(view, shape))
    <3>1. CStrides(shape) \in Seq(Int) /\ Len(CStrides(shape)) = Len(shape)
      BY <2>2, StridesType
    <3>2. view.offset \in Int
      BY <1>1, LayoutParts
    <3>3. /\ Reshape(view, shape).shape = shape /\ Reshape(view, shape).strides = CStrides(shape)
          /\ Reshape(view, shape).offset = view.offset
      BY <1>1 DEF Reshape, IsView
    <3> QED BY <2>2, <3>1, <3>2, <3>3 DEF IsLayout
  <2> QED BY <1>1, <1>3, <2>1, <2>3, ViewsAreRecords
<1>11. CASE TakeFlip
  <2>1. PICK k \in Axes : Becomes(Flip(view, k), Flipped(array, k))
    BY <1>11 DEF TakeFlip
  <2>2. IsLayout(Flip(view, k))
    BY <1>1, <1>2, FlipLayout
  <2> QED BY <1>1, <1>3, <2>1, <2>2, ViewsAreRecords
<1>12. CASE TakeDiagonal
  <2>1. Len(view.shape) >= 2 /\ (Len(view.shape) - 1) + 1 = Len(view.shape)
    BY <1>2, <1>12 DEF TakeDiagonal
  <2>2. PICK k \in (1 - view.shape[Len(view.shape) - 1])..(view.shape[Len(view.shape)] - 1) :
          Becomes(Diagonal(view, k), DiagonalOf(array, k))
    BY <1>12, <2>1 DEF TakeDiagonal
  <2>3. k \in Int
    OBVIOUS
  <2>4. IsLayout(Diagonal(view, k))
    BY <1>1, <2>1, <2>3, DiagonalLayout
  <2> QED BY <1>1, <1>3, <2>2, <2>4, ViewsAreRecords
<1> QED BY <1>4, <1>5, <1>6, <1>7, <1>8, <1>9, <1>10, <1>11, <1>12 DEF Next

\* Every view of every program is a layout.
LEMMA AlwaysLaid ==
  Spec => []Laid
<1>1. Init => Laid
  BY InitShows DEF IInv, Laid, Shows
<1> QED BY <1>1, StepLays, PTL DEF Spec

\* A buffer never has more bytes than a usize can say.
Fits == capacity \in Nat /\ capacity <= USizeMax

LEMMA AlwaysFits ==
  Spec => []Fits
<1>1. Init => Fits
  <2> SUFFICES ASSUME Init PROVE Fits
    OBVIOUS
  <2>1. capacity <= USizeMax
    BY DEF Init
  <2>2. capacity \in Nat
    BY InitShows, InvImplies DEF TypeOK
  <2> QED BY <2>1, <2>2 DEF Fits
<1>2. Fits /\ [Next]_vars => Fits'
  <2> SUFFICES ASSUME Fits, [Next]_vars PROVE capacity' = capacity
    BY DEF Fits
  <2> QED BY DEF Next, vars, Becomes, TakePermute, TakeExpandDims, TakeSqueezeAxis, TakeSqueeze,
                 TakeSlice, TakeSliceOf, TakeBroadcast, TakeReshape, TakeFlip, TakeDiagonal
<1> QED BY <1>1, <1>2, PTL DEF Spec

\* byte_range of a view is the offsets of its lowest and its highest element,
\* whatever the signs of its strides, as long as slices backwards start and stop on
\* their axis: the casts to usize lose nothing of a view in its buffer.
THEOREM RangeAlwaysTight ==
  Spec /\ [][TakeSlice => TakeInside]_vars => []RangeIsTight
<1>1. IInv /\ Fits => RangeIsTight
  <2> DEFINE offsets == {Offset(view, x) : x \in Indices(view.shape)}
  <2> SUFFICES ASSUME IInv, Fits, NEW z \in Indices(view.shape)
               PROVE  ByteRange(view) = <<Min(offsets), Max(offsets)>>
    BY DEF RangeIsTight
  <2>1. PICK N \in Nat : capacity = ItemSize * N /\ Shows(view, array, N)
    BY DEF IInv
  <2>2. InBuffer(view, capacity) /\ IsLayout(view)
    BY <2>1, ShownInBuffer DEF Shows
  <2>3. PICK lo, hi \in Indices(view.shape) :
          /\ IsBetween(view, lo, hi)
          /\ ByteRange(view) = <<Offset(view, lo), Offset(view, hi)>>
    BY <2>2, RangeInBuffer DEF Fits
  <2> DEFINE low == Offset(view, lo)
             high == Offset(view, hi)
  <2>4. low \in offsets /\ high \in offsets /\ low \in Int /\ high \in Int
        /\ \A o \in offsets : o \in Int /\ low <= o /\ o <= high
    BY <2>3 DEF IsBetween
  <2>5. ByteRange(view) = <<low, high>>
    BY <2>3
  <2> HIDE DEF low, high, offsets
  <2>6. Min(offsets) = low /\ Max(offsets) = high
    <3>1. Min(offsets) \in offsets /\ \A o \in offsets : Min(offsets) <= o
      BY <2>4 DEF Min
    <3>2. Max(offsets) \in offsets /\ \A o \in offsets : Max(offsets) >= o
      BY <2>4 DEF Max
    <3>3. Min(offsets) \in Int /\ Min(offsets) <= low /\ low <= Min(offsets)
      BY <2>4, <3>1
    <3>4. Max(offsets) \in Int /\ Max(offsets) >= high /\ high >= Max(offsets)
      BY <2>4, <3>2
    <3> QED BY <2>4, <3>3, <3>4
  <2> QED BY <2>5, <2>6
<1> QED BY <1>1, InsideIsExact, AlwaysFits, PTL

\* If all slices go forwards, or backwards from the end of an axis to a stop counted
\* from its start, overlaps_with never denies that two slices of a view have an
\* element in common: its unsigned comparison is right of views in their buffer.
THEOREM OverlapAlwaysSeen ==
  ASSUME \A arg \in Slices : AlwaysInside(arg)
  PROVE  Spec => []OverlapIsSeen
<1>1. IInv /\ Fits => OverlapIsSeen
  <2> DEFINE Offsets(l) == {Offset(l, x) : x \in Indices(l.shape)}
  <2> SUFFICES ASSUME IInv, Fits, NEW k \in Axes, NEW a \in Slices, NEW b \in Slices,
                      Offsets(SliceAxis(view, k, a)) \cap Offsets(SliceAxis(view, k, b)) # {}
               PROVE  OverlapsWith(SliceAxis(view, k, a), SliceAxis(view, k, b))
    BY DEF OverlapIsSeen
  <2> DEFINE l == SliceAxis(view, k, a)
             m == SliceAxis(view, k, b)
  <2>1. PICK N \in Nat : capacity = ItemSize * N /\ Shows(view, array, N)
    BY DEF IInv
  <2>2. k \in 1..Len(view.shape) /\ view.shape[k] \in Nat
    BY <2>1, LayoutParts DEF Shows, Axes
  <2>3. ASSUME NEW arg \in Slices
        PROVE  InBuffer(SliceAxis(view, k, arg), capacity) /\ IsLayout(SliceAxis(view, k, arg))
    <3>1. IsSliceArg(arg)
      BY LayoutAssumption DEF IsSliceArg
    <3>2. Inside(arg, view.shape[k])
      BY <2>2, SliceInside
    <3>3. Shows(SliceAxis(view, k, arg), Selected(array, k, Positions(arg, view.shape[k])), N)
      BY <2>1, <2>2, <3>1, <3>2, SliceShows
    <3> QED BY <2>1, <3>3, ShownInBuffer DEF Shows
  <2>4. InBuffer(l, capacity) /\ IsLayout(l) /\ InBuffer(m, capacity) /\ IsLayout(m)
    BY <2>3
  <2>5. PICK o : o \in Offsets(l) /\ o \in Offsets(m)
    OBVIOUS
  <2> HIDE DEF l, m
  <2>6. PICK x \in Indices(l.shape) : o = Offset(l, x)
    BY <2>5
  <2>7. PICK y \in Indices(m.shape) : o = Offset(m, y)
    BY <2>5
  <2>8. /\ Size(l) # 0
        /\ \E lo, hi \in Indices(l.shape) :
             /\ IsBetween(l, lo, hi)
             /\ ByteRange(l) = <<Offset(l, lo), Offset(l, hi)>>
    BY <2>4, RangeInBuffer DEF Fits
  <2>9. /\ Size(m) # 0
        /\ \E lo, hi \in Indices(m.shape) :
             /\ IsBetween(m, lo, hi)
             /\ ByteRange(m) = <<Offset(m, lo), Offset(m, hi)>>
    BY <2>4, RangeInBuffer DEF Fits
  <2>10. PICK lo1, hi1 \in Indices(l.shape) :
           /\ IsBetween(l, lo1, hi1)
           /\ ByteRange(l) = <<Offset(l, lo1), Offset(l, hi1)>>
    BY <2>8
  <2>11. PICK lo2, hi2 \in Indices(m.shape) :
           /\ IsBetween(m, lo2, hi2)
           /\ ByteRange(m) = <<Offset(m, lo2), Offset(m, hi2)>>
    BY <2>9
  <2>12. ItemSize \in Nat /\ ItemSize > 0 /\ USizeMax \in Nat
         /\ capacity \in Nat /\ capacity <= USizeMax
    BY LayoutAssumption DEF Fits
  <2>13. /\ Offset(l, lo1) \in Nat /\ Offset(l, lo1) <= o /\ o <= Offset(l, hi1)
         /\ Offset(l, hi1) \in Nat /\ Offset(l, hi1) + ItemSize <= capacity /\ o \in Nat
    BY <2>4, <2>6, <2>10 DEF InBuffer, IsBetween
  <2>14. /\ Offset(m, lo2) \in Nat /\ Offset(m, lo2) <= o /\ o <= Offset(m, hi2)
         /\ Offset(m, hi2) \in Nat /\ Offset(m, hi2) + ItemSize <= capacity
    BY <2>4, <2>7, <2>11 DEF InBuffer, IsBetween
  <2>15. /\ AsUsize(Offset(l, hi1) + ItemSize) = Offset(l, hi1) + ItemSize
         /\ AsUsize(Offset(m, hi2) + ItemSize) = Offset(m, hi2) + ItemSize
    <3>1. /\ Offset(l, hi1) + ItemSize \in Nat /\ Offset(l, hi1) + ItemSize <= USizeMax
          /\ Offset(m, hi2) + ItemSize \in Nat /\ Offset(m, hi2) + ItemSize <= USizeMax
      BY <2>12, <2>13, <2>14
    <3> QED BY <3>1, UsizeKept
  <2>16. /\ ByteRange(l)[1] = Offset(l, lo1) /\ ByteRange(l)[2] = Offset(l, hi1)
         /\ ByteRange(m)[1] = Offset(m, lo2) /\ ByteRange(m)[2] = Offset(m, hi2)
    BY <2>10, <2>11
  <2>17. Offset(l, lo1) < Offset(m, hi2) + ItemSize /\ Offset(m, lo2) < Offset(l, hi1) + ItemSize
    BY <2>12, <2>13, <2>14
  <2>18. OverlapsWith(l, m)
    BY <2>8, <2>9, <2>15, <2>16, <2>17 DEF OverlapsWith
  <2> QED BY <2>18 DEF l, m
<1>2. Init => IInv
  BY InitShows
<1>3. IInv /\ [Next]_vars => IInv'
  <2> SUFFICES ASSUME IInv, NEW k \in Axes, NEW arg \in Slices, TakeSliceOf(k, arg)
               PROVE  Inside(arg, view.shape[k])
    BY StepShows DEF TakeSlice, TakeInside
  <2>1. view.shape[k] \in Nat
    BY LayoutParts DEF Axes, IInv, Shows
  <2> QED BY <2>1, SliceInside
<1> QED BY <1>1, <1>2, <1>3, AlwaysFits, PTL DEF Spec

\* A view that is_c_contiguous or is_f_contiguous says yes of has its elements side
\* by side in that order: the fast paths and as_slice read the right elements.
THEOREM ContiguousAlwaysDense ==
  Spec => []ContiguousIsDense
<1>1. Laid => ContiguousIsDense
  <2> SUFFICES ASSUME Laid, NEW x \in Indices(view.shape)
               PROVE  /\ IsCContiguous(view) =>
                           Offset(view, x) = view.offset + ItemSize * Position(x, view.shape)
                      /\ IsFContiguous(view) =>
                           Offset(view, x) = view.offset
                                             + ItemSize * Position(Reverse(x), Reverse(view.shape))
    BY DEF ContiguousIsDense
  <2>1. IsLayout(view) /\ ~IsEmpty(view)
    BY HasElements DEF Laid
  <2> QED BY <2>1, OffsetOfC, OffsetOfF DEF IsCContiguous, IsFContiguous
<1> QED BY <1>1, AlwaysLaid, PTL

-------------------------------------------------------------------------------
(* The iterators                                                            *)

\* What the fold of ravel_multi_index keeps for the first axes of an index.
RavelNext(x, shape, S, h) ==
  [s \in SUBSET S |-> IF s = {} THEN 0
                      ELSE h[s \ {Max(s)}] * shape[[i \in DOMAIN shape |-> i][Max(s)]]
                           + x[[i \in DOMAIN shape |-> i][Max(s)]]]

\* The equation of that fold has a solution.
LEMMA RavelExists ==
  ASSUME NEW x, NEW shape, NEW n \in Nat
  PROVE  \E h : h = RavelNext(x, shape, 1..n, h)
<1> DEFINE S == 1..n
           V(c, m) == c * shape[[i \in DOMAIN shape |-> i][m]] + x[[i \in DOMAIN shape |-> i][m]]
           N(T, h) == [s \in SUBSET T |-> IF s = {} THEN 0 ELSE V(h[s \ {Max(s)}], Max(s))]
           G == {T \in SUBSET S : \E h : h = N(T, h)}
<1>0. \A T : \A h : N(T, h) = RavelNext(x, shape, T, h)
  BY DEF RavelNext
<1> HIDE DEF V
<1>1. {} \in G
  <2>1. [s \in SUBSET {} |-> 0] = N({}, [s \in SUBSET {} |-> 0])
    OBVIOUS
  <2> HIDE DEF N
  <2> QED BY <2>1
<1>2. ASSUME NEW T \in SUBSET S, T # {}, \A y \in T : T \ {y} \in G PROVE T \in G
  <2> DEFINE a == Max(T)
  <2>0. \A U \in SUBSET T : U # {} => Max(U) \in U /\ \A y \in U : Max(U) >= y
    <3> TAKE U \in SUBSET T
    <3>1. IsFiniteSet(S)
      BY FS_Interval
    <3>2. U \in SUBSET S /\ U \in SUBSET Int
      OBVIOUS
    <3> HIDE DEF S
    <3>3. IsFiniteSet(U)
      BY <3>1, <3>2, FS_Subset
    <3> QED BY <3>2, <3>3, MaxIs
  <2>1. a \in T /\ \A U \in SUBSET T : a \in U => Max(U) = a
    <3>1. a \in T /\ \A y \in T : a >= y
      BY <1>2, <2>0
    <3>2. ASSUME NEW U \in SUBSET T, a \in U PROVE Max(U) = a
      <4>1. Max(U) \in T /\ Max(U) >= a
        BY <2>0, <3>2
      <4>2. Max(U) \in Int /\ a \in Int /\ a >= Max(U)
        <5>1. \A y \in T : y \in Int
          OBVIOUS
        <5> QED BY <3>1, <4>1, <5>1
      <4> QED BY <4>1, <4>2
    <3> QED BY <3>1, <3>2
  <2> HIDE DEF a
  <2>2. PICK h : h = N(T \ {a}, h)
    BY <1>2, <2>1
  <2> DEFINE g == [U \in SUBSET T |-> IF a \in U THEN V(h[U \ {a}], a) ELSE h[U]]
  <2>3. ASSUME NEW U \in SUBSET T
        PROVE  g[U] = IF U = {} THEN 0 ELSE V(g[U \ {Max(U)}], Max(U))
    <3>1. CASE a \in U
      <4>1. Max(U) = a
        BY <2>1, <3>1
      <4>2. g[U \ {a}] = h[U \ {a}]
        OBVIOUS
      <4>3. g[U] = V(h[U \ {a}], a)
        BY <3>1
      <4> HIDE DEF g
      <4> QED BY <3>1, <4>1, <4>2, <4>3
    <3>2. CASE a \notin U
      <4>1. U \in SUBSET (T \ {a})
        BY <3>2
      <4>2. h[U] = IF U = {} THEN 0 ELSE V(h[U \ {Max(U)}], Max(U))
        BY <2>2, <4>1
      <4>3. g[U] = h[U] /\ g[U \ {Max(U)}] = h[U \ {Max(U)}]
        BY <3>2
      <4> HIDE DEF g
      <4> QED BY <4>2, <4>3
    <3> QED BY <3>1, <3>2
  <2>4. g = N(T, g)
    <3>1. DOMAIN g = SUBSET T /\ g = [U \in SUBSET T |-> g[U]]
      OBVIOUS
    <3> HIDE DEF g
    <3> QED BY <2>3, <3>1
  <2> HIDE DEF g, N
  <2> QED BY <2>4
<1> HIDE DEF N, G, S
<1>3. SUBSET S \subseteq G
  <2>1. G \in SUBSET (SUBSET S)
    BY DEF G
  <2>2. IsFiniteSet(S)
    BY FS_Interval DEF S
  <2> QED BY <2>1, <2>2, <1>1, <1>2, SubsetInduction
<1> QED BY <1>0, <1>3 DEF G, S

\* ravel_multi_index is a solution of it.
LEMMA RavelFolds ==
  ASSUME NEW shape \in Seq(Nat), NEW x
  PROVE  \E h : h = RavelNext(x, shape, 1..Len(shape), h) /\ Ravel(x, shape) = h[1..Len(shape)]
<1> DEFINE n == Len(shape)
           h == CHOOSE h : h = RavelNext(x, shape, 1..n, h)
<1>1. n \in Nat /\ DOMAIN shape = 1..n
  OBVIOUS
<1>2. h = RavelNext(x, shape, 1..n, h)
  <2> HIDE DEF n
  <2> QED BY <1>1, RavelExists
<1>3. Ravel(x, shape) = h[1..n]
  BY <1>1 DEF Ravel, FoldLeftDomain, FoldLeft, MapThenFoldSet, RavelNext
<1> QED BY <1>2, <1>3

\* ravel_multi_index counts as Position does.
LEMMA RavelIs ==
  ASSUME NEW shape \in Seq(Nat), NEW x \in Indices(shape)
  PROVE  Ravel(x, shape) = Flat(x, shape)
<1> DEFINE n == Len(shape)
           W(k) == Weight(shape, k)
           R(k) == Rest(x, shape, k)
<1>1. n \in Nat /\ DOMAIN shape = 1..n /\ \A i \in 1..n : shape[i] \in Nat
  OBVIOUS
<1>2. x \in [1..n -> Nat] /\ \A i \in 1..n : x[i] \in Nat
  BY IndicesAre
<1>3. PICK h : h = RavelNext(x, shape, 1..n, h) /\ Ravel(x, shape) = h[1..n]
  BY RavelFolds
<1>4. /\ W(n) = 1
      /\ \A k \in 0..n : W(k) \in Nat
      /\ \A k \in 1..n : W(k - 1) = shape[k] * W(k)
  BY WeightStep
<1>5. /\ R(n) = 0
      /\ \A k \in 0..n : R(k) \in Int
      /\ \A k \in 1..n : R(k - 1) = x[k] * W(k) + R(k)
  BY <1>2, RestStep
<1> HIDE DEF n, W, R
<1>6. h[1..0] = 0
  <2>1. 1..0 = {} /\ 1..0 \in SUBSET (1..n)
    BY <1>1
  <2> QED BY <1>3, <2>1 DEF RavelNext
<1>7. ASSUME NEW k \in 1..n
      PROVE  h[1..k] = h[1..(k - 1)] * shape[k] + x[k]
  <2>0. k \in Int /\ k >= 1 /\ k <= n /\ n \in Int
    BY <1>1
  <2>1. 1..k \in SUBSET (1..n) /\ 1..k # {} /\ k \in 1..k /\ k \in Int
    <3>1. k \in 1..k
      BY ONLY <2>0
    <3>2. \A j \in 1..k : j \in 1..n
      BY ONLY <2>0
    <3> QED BY <2>0, <3>1, <3>2
  <2>2. Max(1..k) = k
    <3>1. \A m \in 1..k : m \in Int /\ k >= m
      BY <2>1
    <3>2. Max(1..k) \in 1..k /\ \A y \in 1..k : Max(1..k) >= y
      BY <2>1, <3>1 DEF Max
    <3> QED BY <2>1, <3>1, <3>2
  <2>3. (1..k) \ {k} = 1..(k - 1)
    BY <2>1
  <2>4. [i \in DOMAIN shape |-> i][k] = k
    BY <1>1
  <2>5. h[1..k] = h[(1..k) \ {Max(1..k)}] * shape[[i \in DOMAIN shape |-> i][Max(1..k)]]
                  + x[[i \in DOMAIN shape |-> i][Max(1..k)]]
    BY <1>3, <2>1 DEF RavelNext
  <2> QED BY <2>2, <2>3, <2>4, <2>5
<1> DEFINE H(k) == h[1..k]
           G == {k \in Nat : k <= n => H(k) \in Nat /\ H(k) * W(k) + R(k) = R(0)}
<1>8. 0 \in G
  <2>1. W(0) \in Nat /\ R(0) \in Int
    BY <1>1, <1>4, <1>5
  <2>2. 0 * W(0) = 0
    BY <2>1
  <2>3. H(0) = 0
    BY <1>6
  <2> HIDE DEF H
  <2> QED BY <2>1, <2>2, <2>3
<1>9. ASSUME NEW k \in G PROVE k + 1 \in G
  <2> SUFFICES ASSUME k + 1 <= n PROVE H(k + 1) \in Nat /\ H(k + 1) * W(k + 1) + R(k + 1) = R(0)
    OBVIOUS
  <2>1. k \in Nat /\ k + 1 \in 1..n /\ (k + 1) - 1 = k /\ k \in 0..n /\ k + 1 \in 0..n
    BY <1>1
  <2>2. H(k + 1) = H(k) * shape[k + 1] + x[k + 1]
    BY <1>7, <2>1
  <2>3. H(k) \in Nat /\ H(k) * W(k) + R(k) = R(0)
    BY <1>1, <2>1
  <2>4. W(k) = shape[k + 1] * W(k + 1) /\ R(k) = x[k + 1] * W(k + 1) + R(k + 1)
    BY <1>4, <1>5, <2>1
  <2>5. shape[k + 1] \in Nat /\ x[k + 1] \in Nat /\ W(k + 1) \in Nat /\ R(k + 1) \in Int
    BY <1>1, <1>2, <1>4, <1>5, <2>1
  <2> HIDE DEF H
  <2> DEFINE a == H(k)
             s == shape[k + 1]
             e == x[k + 1]
             w == W(k + 1)
  <2>6. a \in Nat /\ s \in Nat /\ e \in Nat /\ w \in Nat
    BY <2>3, <2>5
  <2>7. /\ H(k + 1) = a * s + e
        /\ a * (s * w) + (e * w + R(k + 1)) = R(0)
    BY <2>2, <2>3, <2>4
  <2> HIDE DEF a, s, e, w
  <2>8. a * s \in Nat /\ a * s + e \in Nat /\ (a * s + e) * w = a * (s * w) + e * w
        /\ a * (s * w) \in Int /\ e * w \in Int
    <3>1. \A p, q, u, v \in Nat : /\ p * q \in Nat /\ (p * q + u) * v = p * (q * v) + u * v
                                  /\ p * (q * v) \in Int /\ u * v \in Int
      OBVIOUS
    <3> QED BY <2>6, <3>1
  <2>9. H(k + 1) * w + R(k + 1) = R(0)
    BY <2>5, <2>7, <2>8
  <2> QED BY <2>7, <2>8, <2>9 DEF w
<1>10. n \in G
  <2> HIDE DEF G
  <2>1. G \in SUBSET Nat
    BY DEF G
  <2> QED BY <1>1, <1>8, <1>9, <2>1, Induction
<1>11. H(n) \in Nat /\ H(n) * W(n) + R(n) = R(0)
  BY <1>1, <1>10
<1>12. H(n) = R(0)
  <2> HIDE DEF H
  <2> QED BY <1>4, <1>5, <1>11
<1>13. Ravel(x, shape) = H(n)
  BY <1>3 DEF n
<1> QED BY <1>12, <1>13 DEF Flat, R

\* advance makes the next index.
LEMMA SuccessorIs ==
  ASSUME NEW shape \in Seq(Nat), NEW x \in Indices(shape), Flat(x, shape) + 1 < Product(shape)
  PROVE  Successor(x, shape) \in Indices(shape) /\ Flat(Successor(x, shape), shape) = Flat(x, shape) + 1
<1> DEFINE n == Len(shape)
           W(k) == Weight(shape, k)
           R(k) == Rest(x, shape, k)
           y == Successor(x, shape)
           Q(k) == Rest(y, shape, k)
           CanStep(i) == x[i] + 1 < shape[i] /\ \A j \in (i + 1)..n : x[j] + 1 >= shape[j]
           c == CHOOSE i \in DOMAIN x : CanStep(i)
<1>1. n \in Nat /\ \A i \in 1..n : shape[i] \in Nat
  OBVIOUS
<1>2. x \in [1..n -> Nat] /\ DOMAIN x = 1..n /\ \A i \in 1..n : x[i] \in Nat /\ x[i] < shape[i]
  BY IndicesAre
<1>3. y = [i \in 1..n |-> IF i < c THEN x[i] ELSE IF i = c THEN x[i] + 1 ELSE 0]
  BY <1>2 DEF Successor
<1>4. /\ W(n) = 1 /\ W(0) = Product(shape)
      /\ \A k \in 0..n : W(k) \in Nat
      /\ \A k \in 1..n : W(k - 1) = shape[k] * W(k)
  BY WeightStep
<1>5. /\ R(n) = 0
      /\ \A k \in 0..n : R(k) \in Int
      /\ \A k \in 1..n : R(k - 1) = x[k] * W(k) + R(k)
  BY <1>2, RestStep
<1>6. R(0) + 1 < W(0)
  BY <1>4 DEF Flat
<1> HIDE DEF y, n, W, R
\* Behind an axis where all is at its end there is just less than one step.
<1>7. ASSUME NEW k \in 1..n, x[k] + 1 >= shape[k], R(k) = W(k) - 1
      PROVE  R(k - 1) = W(k - 1) - 1
  <2>1. k \in 0..n /\ shape[k] \in Nat /\ x[k] \in Nat /\ shape[k] = x[k] + 1
    BY <1>1, <1>2, <1>7
  <2>2. R(k - 1) = x[k] * W(k) + R(k) /\ W(k - 1) = shape[k] * W(k) /\ W(k) \in Nat
    BY <1>4, <1>5, <2>1
  <2> DEFINE e == x[k]
             w == W(k)
  <2>3. /\ e \in Nat /\ w \in Nat
        /\ R(k - 1) = e * w + (w - 1) /\ W(k - 1) = (e + 1) * w
    BY <1>7, <2>1, <2>2
  <2> HIDE DEF e, w
  <2>4. (e + 1) * w = e * w + w /\ e * w \in Int
    BY <2>3
  <2> QED BY <2>3, <2>4
<1>8. c \in 1..n /\ CanStep(c)
  <2> SUFFICES \E i \in 1..n : CanStep(i)
    BY <1>2
  <2> SUFFICES ASSUME \A i \in 1..n : ~CanStep(i) PROVE FALSE
    OBVIOUS
  <2> DEFINE G == {k \in 0..n : R(k) = W(k) - 1 /\ \A j \in (k + 1)..n : x[j] + 1 >= shape[j]}
  <2>1. n \in G
    BY <1>1, <1>4, <1>5
  <2>2. ASSUME NEW k \in 1..n, k \in G PROVE k - 1 \in G
    <3>1. \A j \in (k + 1)..n : x[j] + 1 >= shape[j]
      BY <2>2
    <3>2. x[k] + 1 >= shape[k]
      <4>1. ~(x[k] + 1 < shape[k])
        BY <3>1
      <4> QED BY <1>1, <1>2, <4>1
    <3>3. R(k - 1) = W(k - 1) - 1
      BY <1>7, <2>2, <3>2
    <3>4. \A j \in ((k - 1) + 1)..n : x[j] + 1 >= shape[j]
      BY <1>1, <3>1, <3>2
    <3> QED BY <1>1, <3>3, <3>4
  <2> HIDE DEF G
  <2>3. 0 \in G
    BY <1>1, <2>1, <2>2, DownInduction
  <2>4. R(0) = W(0) - 1
    BY <2>3 DEF G
  <2>5. W(0) \in Nat
    BY <1>1, <1>4
  <2> QED BY <1>6, <2>4, <2>5
<1>9. x[c] + 1 < shape[c] /\ \A j \in (c + 1)..n : x[j] + 1 >= shape[j]
  BY <1>8
<1> HIDE DEF c
<1>10. y \in [1..n -> Nat] /\ \A i \in 1..n : y[i] < shape[i]
  <2>1. \A i \in 1..n : y[i] \in Nat /\ y[i] < shape[i]
    <3> TAKE i \in 1..n
    <3>1. x[i] \in Nat /\ shape[i] \in Nat /\ x[i] < shape[i]
      BY <1>1, <1>2
    <3>2. y[i] = IF i < c THEN x[i] ELSE IF i = c THEN x[i] + 1 ELSE 0
      BY <1>3
    <3> QED BY <1>9, <3>1, <3>2
  <2> QED BY <1>3, <2>1
<1>11. y \in Indices(shape)
  BY <1>10, IndicesAre DEF n
<1>12. /\ Q(n) = 0
       /\ \A k \in 0..n : Q(k) \in Int
       /\ \A k \in 1..n : Q(k - 1) = y[k] * W(k) + Q(k)
  BY <1>10, RestStep DEF n, W
<1> HIDE DEF Q
<1>13. R(c) = W(c) - 1 /\ Q(c) = 0
  <2> DEFINE G == {k \in 0..n : k >= c => R(k) = W(k) - 1 /\ Q(k) = 0}
  <2>1. n \in G
    BY <1>1, <1>4, <1>5, <1>12
  <2>2. ASSUME NEW k \in 1..n, k \in G PROVE k - 1 \in G
    <3> SUFFICES ASSUME k - 1 >= c PROVE R(k - 1) = W(k - 1) - 1 /\ Q(k - 1) = 0
      BY <1>1
    <3>1. k \in (c + 1)..n /\ k \in 0..n /\ k >= c /\ ~(k < c) /\ k # c
      BY <1>1, <1>8
    <3>2. R(k) = W(k) - 1 /\ Q(k) = 0
      BY <2>2, <3>1
    <3>3. R(k - 1) = W(k - 1) - 1
      BY <1>7, <1>9, <3>1, <3>2
    <3>4. y[k] = 0
      BY <1>3, <3>1
    <3>5. Q(k - 1) = 0 * W(k) + 0
      BY <1>12, <3>2, <3>4
    <3>6. 0 * W(k) = 0
      <4>1. W(k) \in Nat
        BY <1>4, <3>1
      <4> QED BY <4>1
    <3> QED BY <3>3, <3>5, <3>6
  <2> HIDE DEF G
  <2>3. \A k \in 0..n : k \in G
    BY <1>1, <2>1, <2>2, DownInduction
  <2>4. c \in G /\ c >= c
    BY <1>1, <1>8, <2>3
  <2> QED BY <2>4 DEF G
<1>14. Q(c - 1) = R(c - 1) + 1
  <2>1. y[c] = x[c] + 1
    BY <1>3, <1>8
  <2>2. x[c] \in Nat /\ W(c) \in Nat
    BY <1>1, <1>2, <1>4, <1>8
  <2>3. R(c - 1) = x[c] * W(c) + R(c) /\ Q(c - 1) = y[c] * W(c) + Q(c)
    BY <1>5, <1>8, <1>12
  <2> DEFINE e == x[c]
             w == W(c)
  <2>4. e \in Nat /\ w \in Nat /\ R(c - 1) = e * w + (w - 1) /\ Q(c - 1) = (e + 1) * w + 0
    BY <1>13, <2>1, <2>2, <2>3
  <2> HIDE DEF e, w
  <2>5. (e + 1) * w = e * w + w /\ e * w \in Int
    BY <2>4
  <2> QED BY <2>4, <2>5
<1>15. Q(0) = R(0) + 1
  <2> DEFINE m == c - 1
             G == {k \in 0..m : Q(k) = R(k) + 1}
  <2>1. m \in Nat /\ m <= n /\ m < c
    BY <1>1, <1>8
  <2>2. m \in G
    BY <1>14, <2>1
  <2>3. ASSUME NEW k \in 1..m, k \in G PROVE k - 1 \in G
    <3>0. c \in Int /\ m \in Int /\ k \in Int /\ 1 <= k /\ k <= m
      BY <1>8, <2>1
    <3>1. k \in 1..n /\ k \in 0..n /\ k < c /\ k - 1 \in 0..m
      BY <1>1, <2>1, <3>0
    <3>2. y[k] = x[k]
      BY <1>3, <3>1
    <3>3. Q(k) = R(k) + 1 /\ R(k) \in Int
      BY <1>5, <2>3, <3>1
    <3>4. R(k - 1) = x[k] * W(k) + R(k) /\ Q(k - 1) = x[k] * W(k) + Q(k)
      BY <1>5, <1>12, <3>1, <3>2
    <3>5. x[k] * W(k) \in Int
      <4>1. \A p, q \in Nat : p * q \in Int
        OBVIOUS
      <4> QED BY <1>2, <1>4, <3>1, <4>1
    <3> QED BY <3>1, <3>3, <3>4, <3>5
  <2> HIDE DEF G, m
  <2>4. 0 \in 0..m
    BY <2>1
  <2>5. 0 \in G
    BY <2>1, <2>2, <2>3, <2>4, DownInduction
  <2> QED BY <2>5 DEF G
<1> QED BY <1>11, <1>15 DEF Flat, Q, R, y

\* The iterator starts at the index before all others.
LEMMA FirstIndex ==
  ASSUME NEW shape \in Seq(Nat), Product(shape) > 0
  PROVE  /\ [i \in DOMAIN shape |-> 0] \in Indices(shape)
         /\ Position([i \in DOMAIN shape |-> 0], shape) = 0
<1> DEFINE n == Len(shape)
           zeros == [i \in DOMAIN shape |-> 0]
<1>1. DOMAIN shape = 1..n /\ \A i \in 1..n : shape[i] \in Nat
  OBVIOUS
<1>2. PICK x : x \in [1..n -> Nat] /\ \A i \in 1..n : x[i] < shape[i]
  <2>1. Product(shape) \in Nat
    BY PositionRange
  <2>2. 0 \in 0..(Product(shape) - 1)
    BY <2>1
  <2>3. \E x \in Indices(shape) : Position(x, shape) = 0
    BY <2>2, PositionRange
  <2> QED BY <2>3, IndicesAre
<1>3. zeros \in [1..n -> Nat] /\ \A i \in 1..n : zeros[i] < shape[i]
  <2>1. \A i \in 1..n : 0 < shape[i]
    <3> TAKE i \in 1..n
    <3>1. x[i] \in Nat /\ x[i] < shape[i] /\ shape[i] \in Nat
      BY <1>1, <1>2
    <3> QED BY <3>1
  <2> QED BY <1>1, <2>1
<1>4. zeros \in Indices(shape)
  <2> HIDE DEF zeros
  <2> QED BY <1>3, IndicesAre
<1>5. ~ \E y \in Indices(shape) : Before(y, zeros)
  <2> SUFFICES ASSUME NEW y \in Indices(shape), Before(y, zeros) PROVE FALSE
    OBVIOUS
  <2>1. y \in [1..n -> Nat]
    BY IndicesAre
  <2>2. PICK i \in 1..n : y[i] < zeros[i]
    BY <2>1 DEF Before
  <2> QED BY <1>1, <2>1, <2>2
<1>6. Position(zeros, shape) = 0
  <2> HIDE DEF zeros
  <2>1. {y \in Indices(shape) : Before(y, zeros)} = {}
    BY <1>5
  <2> QED BY <2>1, FS_EmptySet DEF Position
<1> QED BY <1>4, <1>6

\* An NdIndexIter yields each index at its place in row-major order.  WalkStep is
\* the equation its recursive function solves.
WalkStep(shape, h) ==
  [k \in 1..Product(shape) |-> IF k = 1 THEN [i \in DOMAIN shape |-> 0]
                               ELSE Successor(h[k - 1], shape)]

\* The indices in the order of their positions solve the equation.
LEMMA WalkExists ==
  ASSUME NEW shape \in Seq(Nat)
  PROVE  \E h : h = WalkStep(shape, h) /\ IndexWalk(shape) = h
<1> DEFINE P == Product(shape)
           At(v) == CHOOSE x \in Indices(shape) : Position(x, shape) = v
           h == [k \in 1..P |-> At(k - 1)]
           zeros == [i \in DOMAIN shape |-> 0]
           g == CHOOSE g : g = WalkStep(shape, g)
<1>1. /\ P \in Nat
      /\ \A v \in 0..(P - 1) : At(v) \in Indices(shape) /\ Position(At(v), shape) = v
      /\ \A x, y \in Indices(shape) : Position(x, shape) = Position(y, shape) => x = y
  <2>1. /\ P \in Nat
        /\ \A x, y \in Indices(shape) : Position(x, shape) = Position(y, shape) => x = y
        /\ \A v \in 0..(P - 1) : \E x \in Indices(shape) : Position(x, shape) = v
    BY PositionRange
  <2> QED BY <2>1
<1> HIDE DEF At
<1>2. \A k \in 1..P : k - 1 \in 0..(P - 1)
  BY <1>1
<1>3. ASSUME NEW k \in 1..P
      PROVE  At(k - 1) = IF k = 1 THEN zeros ELSE Successor(h[k - 1], shape)
  <2>1. At(k - 1) \in Indices(shape) /\ Position(At(k - 1), shape) = k - 1
    BY <1>1, <1>2
  <2>2. CASE k = 1
    <3>1. P > 0
      BY <1>1, <2>2
    <3>2. zeros \in Indices(shape) /\ Position(zeros, shape) = 0
      BY <3>1, FirstIndex
    <3> HIDE DEF zeros
    <3>7. At(k - 1) = zeros
      BY <1>1, <2>1, <2>2, <3>2
    <3> QED BY <2>2, <3>7
  <2>3. CASE k # 1
    <3>1. k \in Int /\ k - 1 \in 1..P /\ (k - 1) - 1 \in 0..(P - 1) /\ ((k - 1) - 1) + 1 = k - 1
          /\ k - 1 < P
      BY <1>1, <2>3
    <3> DEFINE x == At((k - 1) - 1)
    <3>2. h[k - 1] = x
      BY <3>1
    <3>3. x \in Indices(shape) /\ Position(x, shape) = (k - 1) - 1
      BY <1>1, <3>1
    <3> HIDE DEF x, h
    <3>4. Flat(x, shape) + 1 = k - 1
      BY <3>1, <3>3, PositionIs
    <3>5. Successor(x, shape) \in Indices(shape) /\ Flat(Successor(x, shape), shape) = k - 1
      <4>1. Flat(x, shape) + 1 < Product(shape)
        BY <3>1, <3>4
      <4> QED BY <3>3, <3>4, <4>1, SuccessorIs
    <3>6. Position(Successor(x, shape), shape) = k - 1
      BY <3>5, PositionIs
    <3>7. At(k - 1) = Successor(x, shape)
      BY <1>1, <2>1, <3>5, <3>6
    <3> QED BY <2>3, <3>2, <3>7
  <2> QED BY <2>2, <2>3
<1>4. h = WalkStep(shape, h)
  <2>1. h = [k \in 1..P |-> IF k = 1 THEN zeros ELSE Successor(h[k - 1], shape)]
    <3>1. \A k \in 1..P : h[k] = IF k = 1 THEN zeros ELSE Successor(h[k - 1], shape)
      <4> TAKE k \in 1..P
      <4>1. h[k] = At(k - 1)
        OBVIOUS
      <4> HIDE DEF h
      <4> QED BY <1>3, <4>1
    <3>2. h = [k \in 1..P |-> h[k]]
      OBVIOUS
    <3> HIDE DEF h
    <3> QED BY <3>1, <3>2
  <2> HIDE DEF h
  <2> QED BY <2>1 DEF WalkStep
<1> HIDE DEF h
<1>5. g = WalkStep(shape, g)
  BY <1>4
<1>6. IndexWalk(shape) = [k \in 1..P |-> g[k]]
  BY DEF IndexWalk, WalkStep
<1> HIDE DEF g
<1>7. g = [k \in 1..P |-> g[k]]
  BY <1>5 DEF WalkStep
<1> QED BY <1>5, <1>6, <1>7

\* Every solution has each index at its position.
LEMMA WalkIs ==
  ASSUME NEW shape \in Seq(Nat), NEW x \in Indices(shape)
  PROVE  IndexWalk(shape)[Position(x, shape) + 1] = x
<1> DEFINE P == Product(shape)
<1>1. PICK h : h = WalkStep(shape, h) /\ IndexWalk(shape) = h
  BY WalkExists
<1>2. /\ P \in Nat
      /\ Position(x, shape) \in 0..(P - 1)
      /\ \A y, z \in Indices(shape) : Position(y, shape) = Position(z, shape) => y = z
  BY PositionRange
<1>3. \A k \in 1..P : h[k] = IF k = 1 THEN [i \in DOMAIN shape |-> 0] ELSE Successor(h[k - 1], shape)
  BY <1>1 DEF WalkStep
<1> DEFINE G == {k \in Nat : k < P => h[k + 1] \in Indices(shape) /\ Position(h[k + 1], shape) = k}
<1>4. 0 \in G
  <2> SUFFICES ASSUME 0 < P PROVE h[1] \in Indices(shape) /\ Position(h[1], shape) = 0
    OBVIOUS
  <2>1. 1 \in 1..P
    BY <1>2
  <2>2. h[1] = [i \in DOMAIN shape |-> 0]
    BY <1>3, <2>1
  <2> QED BY <1>2, <2>2, FirstIndex
<1>5. ASSUME NEW k \in G PROVE k + 1 \in G
  <2> SUFFICES ASSUME k + 1 < P
               PROVE  h[(k + 1) + 1] \in Indices(shape) /\ Position(h[(k + 1) + 1], shape) = k + 1
    OBVIOUS
  <2>1. k \in Nat /\ k < P /\ (k + 1) + 1 \in 1..P /\ (k + 1) + 1 # 1 /\ ((k + 1) + 1) - 1 = k + 1
    BY <1>2
  <2>2. h[k + 1] \in Indices(shape) /\ Position(h[k + 1], shape) = k
    BY <2>1
  <2>3. h[(k + 1) + 1] = Successor(h[k + 1], shape)
    BY <1>3, <2>1
  <2> DEFINE y == h[k + 1]
  <2>4. Flat(y, shape) = k
    BY <2>2, PositionIs
  <2> HIDE DEF y
  <2>5. Successor(y, shape) \in Indices(shape) /\ Flat(Successor(y, shape), shape) = k + 1
    BY <2>2, <2>4, SuccessorIs DEF y
  <2>6. Position(Successor(y, shape), shape) = k + 1
    BY <2>5, PositionIs
  <2> QED BY <2>3, <2>5, <2>6 DEF y
<1>6. Nat \subseteq G
  <2> HIDE DEF G
  <2>1. G \in SUBSET Nat
    BY DEF G
  <2> QED BY <1>4, <1>5, <2>1, Induction
<1>7. Position(x, shape) \in Nat /\ Position(x, shape) < P
  BY <1>2
<1>8. /\ h[Position(x, shape) + 1] \in Indices(shape)
      /\ Position(h[Position(x, shape) + 1], shape) = Position(x, shape)
  BY <1>6, <1>7
<1> QED BY <1>1, <1>2, <1>8

\* NdIndexIter and StridedByteIter visit each element of every view once and in
\* row-major order, and ravel_multi_index and unravel_index invert each other.
THEOREM WalksInOrder ==
  Spec => []WalkInOrder
<1>1. Laid => WalkInOrder
  <2> SUFFICES ASSUME Laid PROVE WalkInOrder
    OBVIOUS
  <2>1. view.shape \in Seq(Nat)
    BY LayoutParts DEF Laid
  <2>2. Size(view) = Cardinality(Indices(view.shape)) /\ Size(view) \in Nat
    BY <2>1, PositionRange DEF Size
  <2>3. ASSUME NEW x \in Indices(view.shape)
        PROVE  /\ ByteWalk(view)[Position(x, view.shape) + 1] = Offset(view, x)
               /\ Ravel(x, view.shape) = Position(x, view.shape)
               /\ Unravel(Position(x, view.shape), view.shape) = x
    <3> DEFINE s == view.shape
               p == Position(x, s)
    <3>1. p \in 0..(Size(view) - 1) /\ p = Flat(x, s)
      BY <2>1, PositionRange, PositionIs DEF Size
    <3>2. ByteWalk(view)[p + 1] = Offset(view, x)
      <4>1. p + 1 \in 1..Size(view)
        BY <2>2, <3>1
      <4>2. IndexWalk(s)[p + 1] = x
        BY <2>1, WalkIs
      <4> HIDE DEF p
      <4> QED BY <4>1, <4>2 DEF ByteWalk
    <3>3. Ravel(x, s) = p
      BY <2>1, <3>1, RavelIs
    <3>4. Unravel(p, s) = x
      <4>1. p \in Nat /\ p < Product(s)
        BY <2>2, <3>1 DEF Size
      <4>2. Unravel(p, s) \in Indices(s) /\ Flat(Unravel(p, s), s) = p
        BY <2>1, <4>1, UnravelIs
      <4>3. Position(Unravel(p, s), s) = Position(x, s)
        BY <2>1, <4>2, PositionIs
      <4> QED BY <2>1, <4>2, <4>3, PositionRange
    <3> QED BY <3>2, <3>3, <3>4
  <2> QED BY <2>2, <2>3 DEF WalkInOrder
<1> QED BY <1>1, AlwaysLaid, PTL
================================================================================
