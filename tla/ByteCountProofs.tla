--------------------------- MODULE ByteCountProofs ---------------------------
(* What the other proofs need to know of BytesOf.                           *)
EXTENDS ByteCount, FiniteSetTheorems, FunctionTheorems, TLAPS

\* A finite set of blocks has finitely many cells, so its bytes are a number.
LEMMA BytesType ==
  ASSUME NEW f, NEW S, IsFiniteSet(S), NEW max \in Nat
  PROVE  /\ IsFiniteSet(CellsOf(f, S, max))
         /\ BytesOf(f, S, max) \in Nat
<1>1. IsFiniteSet(1..max)
  BY FS_Interval
<1>2. IsFiniteSet(S \X (1..max))
  BY <1>1, FS_Product
<1>3. CellsOf(f, S, max) \in SUBSET (S \X (1..max))
  BY DEF CellsOf
<1>4. IsFiniteSet(CellsOf(f, S, max))
  BY <1>2, <1>3, FS_Subset
<1>5. QED
  BY <1>4, FS_CardinalityType DEF BytesOf

\* No blocks, no bytes.
LEMMA BytesEmpty ==
  ASSUME NEW f, NEW max \in Nat
  PROVE  BytesOf(f, {}, max) = 0
<1>1. CellsOf(f, {}, max) = {}
  BY DEF CellsOf
<1>2. QED
  BY <1>1, FS_EmptySet DEF BytesOf

\* The bytes of a set depend on the lengths of its own blocks only.
LEMMA BytesAgree ==
  ASSUME NEW f, NEW g, NEW S, NEW max, \A h \in S : f[h] = g[h]
  PROVE  BytesOf(f, S, max) = BytesOf(g, S, max)
<1>1. CellsOf(f, S, max) = CellsOf(g, S, max)
  BY DEF CellsOf
<1>2. QED
  BY <1>1 DEF BytesOf

\* One block occupies its length.
LEMMA BytesSingle ==
  ASSUME NEW f, NEW h, NEW max \in Nat, f[h] \in 0..max
  PROVE  BytesOf(f, {h}, max) = f[h]
<1>0. f[h] \in Nat
  OBVIOUS
<1>1. CellsOf(f, {h}, max) = {h} \X (1..f[h])
  BY DEF CellsOf
<1>2. IsFiniteSet(1..f[h])
  BY <1>0, FS_Interval
<1>3. Cardinality(1..f[h]) = f[h]
  BY <1>0, FS_Interval
<1>4. IsFiniteSet({h}) /\ Cardinality({h}) = 1
  BY FS_Singleton
<1>5. Cardinality({h} \X (1..f[h])) = 1 * f[h]
  BY <1>2, <1>3, <1>4, FS_Product
<1>6. BytesOf(f, {h}, max) = Cardinality({h} \X (1..f[h]))
  BY <1>1, Zenon DEF BytesOf
<1>7. QED
  BY <1>0, <1>5, <1>6

\* Two disjoint sets of blocks occupy the sum of what each does.
LEMMA BytesUnion ==
  ASSUME NEW f, NEW S, IsFiniteSet(S), NEW T, IsFiniteSet(T), S \cap T = {},
         NEW max \in Nat
  PROVE  BytesOf(f, S \cup T, max) = BytesOf(f, S, max) + BytesOf(f, T, max)
<1> DEFINE A == CellsOf(f, S, max)
           B == CellsOf(f, T, max)
<1>1. CellsOf(f, S \cup T, max) = A \cup B
  BY DEF CellsOf
<1>2. A \cap B = {}
  BY DEF CellsOf
<1>3. IsFiniteSet(A) /\ IsFiniteSet(B)
  BY BytesType
<1>4. Cardinality(A \cap B) = 0
  BY <1>2, FS_EmptySet, Zenon
<1> HIDE DEF A, B
<1>5. Cardinality(A \cup B)
        = Cardinality(A) + Cardinality(B) - Cardinality(A \cap B)
  BY <1>3, FS_Union, Zenon
<1>6. Cardinality(A) \in Nat /\ Cardinality(B) \in Nat
  BY <1>3, FS_CardinalityType
<1>7. Cardinality(A \cup B) = Cardinality(A) + Cardinality(B)
  BY <1>4, <1>5, <1>6
<1>8. QED
  BY <1>1, <1>7, Zenon DEF A, B, BytesOf

\* A block that joins a set adds its length.
LEMMA BytesAdd ==
  ASSUME NEW f, NEW S, IsFiniteSet(S), NEW max \in Nat,
         NEW h, h \notin S, f[h] \in 0..max
  PROVE  BytesOf(f, S \cup {h}, max) = BytesOf(f, S, max) + f[h]
<1>1. IsFiniteSet({h})
  BY FS_Singleton
<1>2. S \cap {h} = {}
  OBVIOUS
<1>3. BytesOf(f, S \cup {h}, max) = BytesOf(f, S, max) + BytesOf(f, {h}, max)
  BY <1>1, <1>2, BytesUnion
<1>4. BytesOf(f, {h}, max) = f[h]
  BY BytesSingle
<1>5. QED
  BY <1>3, <1>4

\* A block that leaves a set takes its length with it, never more than there is.
LEMMA BytesRemove ==
  ASSUME NEW f, NEW S, IsFiniteSet(S), NEW max \in Nat,
         NEW h \in S, f[h] \in 0..max
  PROVE  /\ BytesOf(f, S \ {h}, max) = BytesOf(f, S, max) - f[h]
         /\ f[h] <= BytesOf(f, S, max)
<1>1. IsFiniteSet(S \ {h})
  BY FS_RemoveElement
<1>2. BytesOf(f, (S \ {h}) \cup {h}, max) = BytesOf(f, S \ {h}, max) + f[h]
  BY <1>1, BytesAdd
<1>3. (S \ {h}) \cup {h} = S
  OBVIOUS
<1>4. BytesOf(f, S, max) = BytesOf(f, S \ {h}, max) + f[h]
  BY <1>2, <1>3, Zenon
<1>5. BytesOf(f, S \ {h}, max) \in Nat
  BY <1>1, BytesType
<1>6. f[h] \in Nat
  OBVIOUS
<1>7. QED
  BY <1>4, <1>5, <1>6

\* Fewer blocks, no more bytes.
LEMMA BytesSubset ==
  ASSUME NEW f, NEW S, IsFiniteSet(S), NEW T \in SUBSET S, NEW max \in Nat
  PROVE  BytesOf(f, T, max) <= BytesOf(f, S, max)
<1>1. IsFiniteSet(CellsOf(f, S, max))
  BY BytesType
<1>2. CellsOf(f, T, max) \in SUBSET CellsOf(f, S, max)
  BY DEF CellsOf
<1>3. QED
  BY <1>1, <1>2, FS_Subset DEF BytesOf

(***************************************************************************)
(* The same facts across a step: f and S before it, g and T after it.      *)
(***************************************************************************)

LEMMA BytesKept ==
  ASSUME NEW f, NEW g, NEW S, NEW T, NEW max, T = S, \A x \in S : g[x] = f[x]
  PROVE  BytesOf(g, T, max) = BytesOf(f, S, max)
<1>1. BytesOf(g, S, max) = BytesOf(f, S, max)
  BY BytesAgree
<1>2. QED
  BY <1>1, Zenon

LEMMA BytesGrown ==
  ASSUME NEW f, NEW g, NEW S, NEW T, NEW max \in Nat, IsFiniteSet(S),
         NEW h, h \notin S, T = S \cup {h}, g[h] \in 0..max,
         \A x \in S : g[x] = f[x]
  PROVE  BytesOf(g, T, max) = BytesOf(f, S, max) + g[h]
<1>1. BytesOf(g, S \cup {h}, max) = BytesOf(g, S, max) + g[h]
  BY BytesAdd
<1>2. BytesOf(g, S, max) = BytesOf(f, S, max)
  BY BytesAgree
<1>3. QED
  BY <1>1, <1>2, Zenon

LEMMA BytesShrunk ==
  ASSUME NEW f, NEW g, NEW S, NEW T, NEW max \in Nat, IsFiniteSet(S),
         NEW h \in S, T = S \ {h}, f[h] \in 0..max,
         \A x \in S : x # h => g[x] = f[x]
  PROVE  /\ BytesOf(g, T, max) = BytesOf(f, S, max) - f[h]
         /\ BytesOf(g, T, max) <= BytesOf(f, S, max)
<1>1. /\ BytesOf(f, S \ {h}, max) = BytesOf(f, S, max) - f[h]
      /\ f[h] <= BytesOf(f, S, max)
  BY BytesRemove
<1>2. BytesOf(g, S \ {h}, max) = BytesOf(f, S \ {h}, max)
  BY BytesAgree
<1>3. BytesOf(g, T, max) = BytesOf(f, S, max) - f[h]
  BY <1>1, <1>2, Zenon
<1>4. BytesOf(f, S, max) \in Nat /\ f[h] \in Nat
  BY BytesType
<1>5. QED
  BY <1>3, <1>4

-------------------------------------------------------------------------------
(* Blocks in several stores.                                                 *)

\* A finite set of at most n elements can be numbered with 1..n.
LEMMA Numbering ==
  ASSUME NEW S, IsFiniteSet(S), NEW n \in Nat, Cardinality(S) <= n
  PROVE  \E g \in [S -> 1..n] : \A a, b \in S : g[a] = g[b] => a = b
<1> DEFINE m == Cardinality(S)
<1>1. m \in Nat /\ ExistsBijection(1..m, S)
  BY FS_CardinalityType
<1>2. ExistsBijection(S, 1..m)
  BY <1>1, Fun_ExistsBijSymmetric
<1> HIDE DEF m
<1>3. PICK g \in Bijection(S, 1..m) : TRUE
  BY <1>2 DEF ExistsBijection
<1>4. g \in [S -> 1..m] /\ \A a, b \in S : g[a] = g[b] => a = b
  BY <1>3, Fun_BijectionProperties
<1>5. m <= n /\ 1..m \subseteq 1..n
  BY <1>1 DEF m
<1>6. g \in [S -> 1..n]
  BY <1>4, <1>5
<1>7. QED
  BY <1>4, <1>6

\* If at says in which store each block is, and the blocks part[x] of each store
\* occupy at most limit[x] bytes, all blocks fit in the cells of all stores.
LEMMA BytesFit ==
  ASSUME NEW f, NEW S, IsFiniteSet(S), NEW max \in Nat,
         NEW at, NEW X, NEW part, NEW limit, NEW room, IsFiniteSet(room),
         \A s \in S : at[s] \in X /\ s \in part[at[s]],
         \A x \in X :
           /\ limit[x] \in Nat /\ IsFiniteSet(part[x])
           /\ BytesOf(f, part[x], max) <= limit[x]
           /\ {x} \X (1..limit[x]) \subseteq room
  PROVE  BytesOf(f, S, max) <= Cardinality(room)
<1> DEFINE C == CellsOf(f, S, max)
           Part(x) == CellsOf(f, part[x], max)
           Good(x, g) == /\ g \in [Part(x) -> 1..limit[x]]
                         /\ \A a, b \in Part(x) : g[a] = g[b] => a = b
           G == [x \in X |-> CHOOSE g : Good(x, g)]
           F == [c \in C |-> <<at[c[1]], G[at[c[1]]][c]>>]
<1>1. ASSUME NEW x \in X
      PROVE  Good(x, G[x])
  <2>2. IsFiniteSet(Part(x)) /\ Cardinality(Part(x)) <= limit[x] /\ limit[x] \in Nat
    BY BytesType DEF BytesOf
  <2>3. \E g : Good(x, g)
    <3> DEFINE P == Part(x)
               n == limit[x]
    <3>1. IsFiniteSet(P) /\ Cardinality(P) <= n /\ n \in Nat
      BY <2>2
    <3> HIDE DEF P, n
    <3>2. PICK g \in [P -> 1..n] : \A a, b \in P : g[a] = g[b] => a = b
      BY <3>1, Numbering
    <3>3. QED
      BY <3>2 DEF P, n
  <2> HIDE DEF Good
  <2>4. QED
    BY <2>3
<1>2. ASSUME NEW c \in C
      PROVE  at[c[1]] \in X /\ c \in Part(at[c[1]])
  BY DEF CellsOf
<1>3. ASSUME NEW c \in C
      PROVE  F[c] \in room
  <2> DEFINE x == at[c[1]]
  <2>1. x \in X /\ c \in Part(x) /\ Good(x, G[x])
    BY <1>1, <1>2
  <2>2. G[x][c] \in 1..limit[x]
    BY <2>1
  <2>3. F[c] = <<x, G[x][c]>>
    OBVIOUS
  <2> HIDE DEF F, G, C, Part
  <2>4. F[c] \in {x} \X (1..limit[x])
    BY <2>2, <2>3
  <2>5. QED
    BY <2>1, <2>4
<1>4. ASSUME NEW c \in C, NEW d \in C, F[c] = F[d]
      PROVE  c = d
  <2> DEFINE x == at[c[1]]
  <2>0. F[c] = <<x, G[x][c]>> /\ F[d] = <<at[d[1]], G[at[d[1]]][d]>>
    OBVIOUS
  <2>1. x = at[d[1]] /\ G[x][c] = G[x][d]
    <3> DEFINE y == at[d[1]]
               u == G[x][c]
               v == G[y][d]
    <3>1. <<x, u>> = <<y, v>>
      BY <1>4, <2>0, Zenon
    <3> HIDE DEF x, y, u, v
    <3>2. x = y /\ u = v
      BY <3>1
    <3>3. QED
      BY <3>2 DEF y, u, v
  <2>2. x \in X /\ c \in Part(x) /\ d \in Part(x) /\ Good(x, G[x])
    <3> HIDE DEF Part, Good
    <3>1. x \in X /\ c \in Part(x) /\ d \in Part(at[d[1]])
      BY <1>2
    <3>2. Good(x, G[x])
      BY <1>1, <3>1
    <3>3. QED
      BY <2>1, <3>1, <3>2
  <2>3. QED
    <3> HIDE DEF x, Part
    <3>1. QED
      BY <2>1, <2>2
<1>5. F \in Injection(C, room)
  <2>1. F \in [C -> room]
    BY <1>3
  <2> HIDE DEF F, C
  <2>2. QED
    BY <1>4, <2>1, Fun_IsInj
<1>6. QED
  BY <1>5, FS_Injection DEF BytesOf

\* Finitely many finite sets have a finite union.
LEMMA UnionFinite ==
  ASSUME NEW S, IsFiniteSet(S), NEW f, \A x \in S : IsFiniteSet(f[x])
  PROVE  IsFiniteSet(UNION {f[x] : x \in S})
<1> DEFINE T == {f[x] : x \in S}
           g == [x \in S |-> f[x]]
<1>1. g \in [S -> T] /\ \A t \in T : \E x \in S : g[x] = t
  OBVIOUS
<1>2. \A t \in T : IsFiniteSet(t)
  OBVIOUS
<1> HIDE DEF T, g
<1>3. g \in Surjection(S, T)
  BY <1>1, Fun_IsSurj
<1>4. IsFiniteSet(T)
  BY <1>3, FS_Surjection
<1>5. QED
  BY <1>2, <1>4, FS_UNION DEF T

==============================================================================
