--------------------------- MODULE BufferShareProofs ---------------------------
(* What holds of BufferShare for any number of Buffers, RawBuffers and tensors *)
(* and any lengths, slices and values; and that Buffers implement array values *)
(* (ArrayValues) as long as nobody imports an export of this library again and *)
(* no Buffer has an offset.  Both findings about sharing are outside these two *)
(* conditions.                                                                 *)
EXTENDS BufferValues, FiniteSetTheorems, WellFoundedInduction, TLAPS

Stages == {"idle", "copy", "copy_write", "write"}

\* The types; that no count is negative follows from what it counts.
Types ==
  /\ raw \in [Buffers -> Raws \cup {NoRaw}]
  /\ layout \in [Buffers -> Layouts]
  /\ writeable \in [Buffers -> BOOLEAN]
  /\ stage \in [Buffers -> Stages]
  /\ copied \in [Buffers -> Seq(Values)]
  /\ strong \in [Raws -> Int]
  /\ source \in [Raws -> Tensors \cup {NoTensor}]
  /\ ptr \in [Raws -> [block : Blocks, at : Nat]]
  /\ mem \in [Blocks -> Seq(Values)]
  /\ tensor \in [Tensors -> {"none", "out", "taken", "dying"}]
  /\ of \in [Tensors -> Raws \cup {NoRaw}]
  /\ shown \in [Tensors -> [block : Blocks, at : Nat, len : 0..MaxLen, stride : Nat]]

\* A method runs on a Buffer that exists, and copies only in make_unique.
StagesOK ==
  \A b \in Buffers :
    /\ ~Exists(b) => stage[b] = "idle" /\ layout[b].len = 0
    /\ ~Copying(b) => copied[b] = <<>>
    /\ Len(copied[b]) <= layout[b].len

\* The block that tensor m shows, or showed until it was taken.
BlockOf(m) == IF of[m] = NoRaw THEN m ELSE ptr[of[m]].block

\* A tensor that does not exist holds nothing, and shows nothing without a consumer.
TensorsOK ==
  \A m \in Tensors :
    /\ tensor[m] = "none" => of[m] = NoRaw
    /\ IF tensor[m] = "out" THEN shown[m].block = BlockOf(m) ELSE shown[m].len = 0

\* A RawBuffer owns the block of its name, or has taken a tensor for itself.
SourcesOK ==
  \A r \in Raws :
    /\ strong[r] = 0 => source[r] = NoTensor
    /\ IF source[r] = NoTensor
         THEN ptr[r] = [block |-> r, at |-> 1]
         ELSE /\ tensor[source[r]] = "taken"
              /\ ptr[r].block = BlockOf(source[r])
    /\ \A q \in Raws : source[q] = source[r] /\ source[r] # NoTensor => q = r

\* Imports of own exports form no cycle: each is younger than what it stands on.
StandsOn(r, q) == source[r] # NoTensor /\ of[source[r]] = q
Acyclic ==
  \E age \in [Raws -> Nat] : \A r, q \in Raws : StandsOn(r, q) => age[q] < age[r]

Graph == TensorsOK /\ SourcesOK /\ Acyclic
Shape == Types /\ CountsHolders /\ StagesOK /\ Graph

-------------------------------------------------------------------------------
(* Numbers                                                                   *)

\* What "\div" returns: the largest whole multiple that fits.
LEMMA Divided ==
  ASSUME NEW a \in Nat, NEW d \in Nat \ {0}
  PROVE  /\ a \div d \in Nat
         /\ (a \div d) * d <= a
         /\ a < (a \div d) * d + d
OBVIOUS

LEMMA TimesGrows ==
  ASSUME NEW e \in Nat, NEW d \in Nat \ {0}
  PROVE  e * d \in Nat /\ e * d >= e
<1>1. d - 1 \in Nat
  OBVIOUS
<1>2. e * (d - 1) >= 0
  BY <1>1
<1>3. e * (d - 1) = e * d - e
  OBVIOUS
<1> QED BY <1>2, <1>3

\* A slice has as many elements as steps fit, the last of them inside.
LEMMA SliceFits ==
  ASSUME NEW n \in Nat, NEW s \in 0..n, NEW step \in Nat \ {0}
  PROVE  /\ Count(n, s, step) \in 0..(n - s)
         /\ Count(n, s, step) > 0 => s + (Count(n, s, step) - 1) * step < n
<1> DEFINE a == n - s + step - 1
           c == a \div step
<1>1. a \in Nat /\ step \in Nat \ {0}
  OBVIOUS
<1>2. c \in Nat /\ c * step <= a /\ a < c * step + step
  BY <1>1, Divided
<1>3. Count(n, s, step) = c
  BY DEF Count
<1> HIDE DEF c
<1>4. (c - 1) * step = c * step - step
  BY <1>2
<1>5. c > 0 => s + (c - 1) * step < n
  BY <1>1, <1>2, <1>4
<1>6. c <= n - s
  <2> SUFFICES ASSUME c > n - s PROVE FALSE
    BY <1>2
  <2>1. c - 1 >= n - s /\ c - 1 \in Nat
    BY <1>2
  <2>2. (c - 1) * step >= c - 1
    <3> DEFINE e == c - 1
    <3>1. e \in Nat
      BY <2>1
    <3> HIDE DEF e
    <3>2. e * step >= e
      BY <3>1, <1>1, TimesGrows
    <3> QED BY <3>2 DEF e
  <2>3. c > 0
    BY <1>2, <2>1
  <2>4. (c - 1) * step \in Int
    BY <1>1, <2>1
  <2> QED BY <1>5, <2>1, <2>2, <2>3, <2>4
<1> QED BY <1>2, <1>3, <1>5, <1>6

\* A start is clamped into the axis.
LEMMA ClampedIn ==
  ASSUME NEW n \in Nat, NEW start \in Nat
  PROVE  Clamped(n, start) \in 0..n
BY DEF Clamped

-------------------------------------------------------------------------------
(* Holders                                                                   *)

\* The members of S that f maps to r.
Held(f, S, r) == {s \in S : f[s] = r}

LEMMA HeldType ==
  ASSUME NEW S, IsFiniteSet(S), NEW f, NEW r
  PROVE  IsFiniteSet(Held(f, S, r)) /\ Cardinality(Held(f, S, r)) \in Nat
<1>1. Held(f, S, r) \in SUBSET S
  BY DEF Held
<1> QED BY <1>1, FS_Subset, FS_CardinalityType

\* A member that is mapped elsewhere is one holder less and one more.
LEMMA HeldMoved ==
  ASSUME NEW S, IsFiniteSet(S), NEW f, NEW x, NEW s \in S, NEW r,
         f = [t \in S |-> f[t]], f[s] # x
  PROVE  Cardinality(Held([f EXCEPT ![s] = x], S, r)) =
           IF r = x THEN Cardinality(Held(f, S, r)) + 1
           ELSE IF r = f[s] THEN Cardinality(Held(f, S, r)) - 1
           ELSE Cardinality(Held(f, S, r))
<1> DEFINE g == [f EXCEPT ![s] = x]
           H == Held(f, S, r)
<1>1. IsFiniteSet(H) /\ Cardinality(H) \in Nat
  BY HeldType
<1>2. \A t \in S : g[t] = IF t = s THEN x ELSE f[t]
  OBVIOUS
<1>3. CASE r = x
  <2>1. Held(g, S, r) = H \cup {s} /\ s \notin H
    BY <1>2, <1>3 DEF Held
  <2>2. Cardinality(H \cup {s}) = Cardinality(H) + 1
    BY <1>1, <2>1, FS_AddElement
  <2> QED BY <1>1, <1>3, <2>1, <2>2
<1>4. CASE r = f[s]
  <2>1. Held(g, S, r) = H \ {s} /\ s \in H
    BY <1>2, <1>4 DEF Held
  <2>2. Cardinality(H \ {s}) = Cardinality(H) - 1
    BY <1>1, <2>1, FS_RemoveElement
  <2> QED BY <1>4, <2>1, <2>2
<1>5. CASE r # x /\ r # f[s]
  <2>1. Held(g, S, r) = H
    BY <1>2, <1>5 DEF Held
  <2> QED BY <1>1, <1>5, <2>1
<1> QED BY <1>3, <1>4, <1>5

\* No holder means that nobody holds it, one that nobody else does.
LEMMA HeldNone ==
  ASSUME NEW S, IsFiniteSet(S), NEW f, NEW r
  PROVE  Cardinality(Held(f, S, r)) = 0 => \A s \in S : f[s] # r
<1>1. IsFiniteSet(Held(f, S, r))
  BY HeldType
<1>2. Cardinality(Held(f, S, r)) = 0 => Held(f, S, r) = {}
  BY <1>1, FS_EmptySet
<1> QED BY <1>2 DEF Held

LEMMA HeldOnce ==
  ASSUME NEW S, IsFiniteSet(S), NEW f, NEW r, NEW s \in S, f[s] = r,
         Cardinality(Held(f, S, r)) <= 1
  PROVE  \A t \in S : f[t] = r => t = s
<1>1. IsFiniteSet(Held(f, S, r)) /\ Cardinality(Held(f, S, r)) \in Nat
  BY HeldType
<1>2. s \in Held(f, S, r)
  BY DEF Held
<1>3. Cardinality(Held(f, S, r)) # 0
  BY HeldNone
<1>4. Cardinality(Held(f, S, r)) = 1
  BY <1>1, <1>3
<1>5. PICK x : Held(f, S, r) = {x}
  BY <1>1, <1>4, FS_Singleton
<1> QED BY <1>2, <1>5 DEF Held

-------------------------------------------------------------------------------
(* The steps, as few as the proofs have to tell apart                        *)

LEMMA Names ==
  /\ NoRaw \notin Raws /\ NoTensor \notin Tensors
  /\ \A r \in Raws : r \notin Tensors /\ r \in Blocks
  /\ \A m \in Tensors : m \notin Raws /\ m \in Blocks
  /\ \A k \in Blocks : k \in Raws \/ k \in Tensors
  /\ MaxLen \in Nat /\ Starts \subseteq Nat /\ Steps \subseteq Nat \ {0}
BY ShareAssumption DEF Blocks

\* A Buffer b of n elements v on memory of its own.
Fresh(b, r, n, v) ==
  /\ ~Exists(b)
  /\ v \in [1..n -> Values]
  /\ Alloc(r, v)
  /\ Becomes(b, r, Contiguous(n), TRUE)
  /\ UNCHANGED <<stage, copied, source, ptr, tensorVars>>

\* Every element of layout l is an element of layout l0.
Within(l, l0) ==
  \A i \in 1..l.len : \E j \in 1..l0.len :
    l.off + (i - 1) * l.stride = l0.off + (j - 1) * l0.stride

\* A step that moves a method on b and changes no element.
Quiet(b) ==
  \/ SetWriteable(b, TRUE) \/ SetWriteable(b, FALSE)
  \/ MakeUnique(b) \/ BeginWrite(b) \/ CopyFails(b) \/ EndWrite(b)

\* A view of a by any of the methods that make one; only slices have an offset.
AnyView(a, b, l, w) ==
  /\ Within(l, layout[a])
  /\ Starts \subseteq {0} => l.off = layout[a].off
  /\ View(a, b, l, w)

LEMMA WithinItself ==
  ASSUME NEW l \in Layouts, NEW l0 \in Layouts,
         l.off = l0.off, l.len = l0.len, l.stride = l0.stride
  PROVE  Within(l, l0)
<1> SUFFICES ASSUME NEW i \in 1..l.len
             PROVE  l.off + (i - 1) * l.stride = l0.off + (i - 1) * l0.stride
  BY DEF Within
<1> QED OBVIOUS

\* The elements of a slice are elements of what is sliced.
LEMMA SliceWithin ==
  ASSUME NEW l \in Layouts, NEW start \in Starts, NEW step \in Steps, NEW s,
         s = Clamped(l.len, start)
  PROVE  LET new == [off |-> l.off + s * l.stride, len |-> Count(l.len, s, step),
                     stride |-> l.stride * step]
         IN  /\ new \in Layouts /\ Within(new, l)
             /\ start = 0 => new.off = l.off
<1> DEFINE n == l.len
           c == Count(n, s, step)
           new == [off |-> l.off + s * l.stride, len |-> c, stride |-> l.stride * step]
<1>1. /\ l.off \in Nat /\ n \in 0..MaxLen /\ l.stride \in Nat /\ MaxLen \in Nat
      /\ n \in Nat /\ step \in Nat \ {0} /\ start \in Nat
  BY Names DEF Layouts
<1>2. s \in 0..n
  BY <1>1, ClampedIn
<1>3. c \in 0..(n - s) /\ (c > 0 => s + (c - 1) * step < n)
  BY <1>1, <1>2, SliceFits
<1> HIDE DEF c
<1>4. s * l.stride \in Nat /\ l.stride * step \in Nat
  BY <1>1, <1>2
<1>5. new \in Layouts
  BY <1>1, <1>2, <1>3, <1>4 DEF Layouts
<1>6. ASSUME NEW i \in 1..c
      PROVE  \E j \in 1..n :
               l.off + s * l.stride + (i - 1) * (l.stride * step) = l.off + (j - 1) * l.stride
  <2> DEFINE d == i - 1
             t == d * step
             j == s + t + 1
  <2>1. d \in Nat /\ c - 1 - d \in Nat /\ c > 0
    BY <1>1, <1>2, <1>3
  <2>2. (c - 1 - d) * step >= 0 /\ (c - 1 - d) * step = (c - 1) * step - d * step
    BY <1>1, <1>3, <2>1
  <2>3. t \in Nat /\ (c - 1) * step \in Int
    BY <1>1, <1>3, <2>1
  <2>4. s + t < n
    BY <1>1, <1>2, <1>3, <2>1, <2>2, <2>3
  <2>5. j \in 1..n
    BY <1>1, <1>2, <2>3, <2>4
  <2>6. d * (l.stride * step) = t * l.stride
    BY <1>1, <2>1
  <2>7. (s + t) * l.stride = s * l.stride + t * l.stride
    BY <1>1, <1>2, <2>3
  <2>8. d * (l.stride * step) \in Nat
    BY <1>1, <2>1, <1>4
  <2> HIDE DEF t, d
  <2>9. j - 1 = s + t
    BY <1>1, <1>2, <2>3
  <2>10. l.off + s * l.stride + d * (l.stride * step) = l.off + (j - 1) * l.stride
    BY <1>1, <1>4, <2>6, <2>7, <2>8, <2>9
  <2> QED BY <2>5, <2>10 DEF d
<1>7. Within(new, l)
  BY <1>6 DEF Within
<1>8. start = 0 => s * l.stride = 0
  BY <1>1 DEF Clamped
<1>9. start = 0 => new.off = l.off
  BY <1>1, <1>4, <1>8
<1> QED BY <1>5, <1>7, <1>9 DEF c

LEMMA ViewsAre ==
  ASSUME Types, NEW a \in Buffers, NEW b \in Buffers,
         Share(a, b) \/ Reshape(a, b) \/ ExpandDims(a, b) \/ SliceAxis(a, b)
           \/ BroadcastTo(a, b)
  PROVE  \E l \in Layouts, w \in BOOLEAN : AnyView(a, b, l, w)
<1> DEFINE l0 == layout[a]
<1>1. l0 \in Layouts /\ writeable[a] \in BOOLEAN /\ MaxLen \in Nat
  BY Names DEF Types
<1>2. CASE Share(a, b) \/ ExpandDims(a, b)
  <2>1. Within(l0, l0)
    BY <1>1, WithinItself
  <2> QED BY <1>1, <1>2, <2>1 DEF Share, ExpandDims, AnyView
<1>3. CASE Reshape(a, b)
  <2> DEFINE l == [l0 EXCEPT !.stride = 1]
  <2>1. l \in Layouts /\ l.off = l0.off /\ l.len = l0.len /\ l.stride = 1
    BY <1>1 DEF Layouts
  <2>2. CASE l0.len = 0
    <3>1. 1..l.len = {}
      BY <2>1, <2>2
    <3>2. Within(l, l0)
      BY <3>1 DEF Within
    <3> QED BY <1>3, <2>1, <3>2 DEF Reshape, AnyView
  <2>3. CASE l0.stride = 1
    <3>1. Within(l, l0)
      BY <1>1, <2>1, <2>3, WithinItself
    <3> QED BY <1>3, <2>1, <3>1 DEF Reshape, AnyView
  <2> QED BY <1>3, <2>2, <2>3 DEF Reshape, IsContiguous
<1>4. CASE SliceAxis(a, b)
  <2> DEFINE new(s, step) == [off |-> l0.off + s * l0.stride, len |-> Count(l0.len, s, step),
                              stride |-> l0.stride * step]
  <2>1. PICK start \in Starts, step \in Steps :
          View(a, b, new(Clamped(l0.len, start), step), FALSE)
    BY <1>4 DEF SliceAxis
  <2>2. new(Clamped(l0.len, start), step) \in Layouts
        /\ Within(new(Clamped(l0.len, start), step), l0)
        /\ (start = 0 => new(Clamped(l0.len, start), step).off = l0.off)
    BY <1>1, SliceWithin
  <2>3. AnyView(a, b, new(Clamped(l0.len, start), step), FALSE)
    BY <2>1, <2>2 DEF AnyView
  <2>4. PICK l : l = new(Clamped(l0.len, start), step)
    OBVIOUS
  <2>5. l \in Layouts /\ AnyView(a, b, l, FALSE)
    BY <2>2, <2>3, <2>4
  <2> HIDE DEF new
  <2> QED BY <2>5
<1>5. CASE BroadcastTo(a, b)
  <2>1. PICK n \in 0..MaxLen :
          View(a, b, [l0 EXCEPT !.len = n, !.stride = IF n = 1 THEN @ ELSE 0], FALSE)
    BY <1>5 DEF BroadcastTo
  <2> DEFINE l == [l0 EXCEPT !.len = n, !.stride = IF n = 1 THEN @ ELSE 0]
  <2> DEFINE st == IF n = 1 THEN l0.stride ELSE 0
  <2>2. st \in Nat /\ (n = 1 => st = l0.stride) /\ (n # 1 => st = 0)
    BY <1>1 DEF Layouts
  <2> HIDE DEF st
  <2>3. l \in Layouts /\ l.off = l0.off /\ l.len = n /\ l.stride = st
    BY <1>1, <2>2 DEF Layouts, st
  <2>4. l0.len = 1
    BY <1>5 DEF BroadcastTo
  <2>5. Within(l, l0)
    <3> SUFFICES ASSUME NEW i \in 1..n
                 PROVE  l.off + (i - 1) * l.stride = l0.off + (1 - 1) * l0.stride
      BY <2>3, <2>4 DEF Within
    <3>1. CASE n = 1
      BY <1>1, <2>2, <2>3, <3>1 DEF Layouts
    <3>2. CASE n # 1
      BY <1>1, <2>2, <2>3, <3>2 DEF Layouts
    <3> QED BY <3>1, <3>2
  <2>6. AnyView(a, b, l, FALSE)
    BY <2>1, <2>3, <2>5 DEF AnyView
  <2> HIDE DEF l
  <2> QED BY <2>3, <2>6
<1> HIDE DEF l0
<1> QED BY <1>2, <1>3, <1>4, <1>5

LEMMA FreshAre ==
  ASSUME Types, NEW b \in Buffers,
         Create(b) \/ \E a \in Buffers : CopyOut(a, b)
  PROVE  \E r \in Raws, n \in 0..MaxLen : \E v : Fresh(b, r, n, v)
<1>1. CASE Create(b)
  <2>1. MaxLen \in 0..MaxLen
    BY Names
  <2>2. PICK r \in Raws : \E v : Fresh(b, r, MaxLen, v)
    BY <1>1 DEF Create, Fresh
  <2> QED BY <2>1, <2>2
<1>2. ASSUME NEW a \in Buffers, CopyOut(a, b)
      PROVE  \E r \in Raws, n \in 0..MaxLen : \E v : Fresh(b, r, n, v)
  <2>1. layout[a].len \in 0..MaxLen
    BY DEF Types, Layouts
  <2> QED BY <1>2, <2>1 DEF CopyOut, Fresh
<1> QED BY <1>1, <1>2

LEMMA StepsAre ==
  ASSUME Types, Next
  PROVE  \/ \E b \in Buffers, r \in Raws, n \in 0..MaxLen : \E v : Fresh(b, r, n, v)
         \/ \E a, b \in Buffers, l \in Layouts, w \in BOOLEAN : AnyView(a, b, l, w)
         \/ \E b \in Buffers : \/ Quiet(b) \/ CopyElement(b) \/ WriteElement(b)
                                \/ DropBuffer(b) \/ Replace(b)
         \/ \E m \in Tensors : \/ Offer(m) \/ Deleter(m)
                                \/ \E b \in Buffers : ToDlpack(b, m) \/ FromDlpack(b, m)
<1>1. CASE \E m \in Tensors : Exchange(m)
  BY <1>1 DEF Exchange
<1>2. ASSUME NEW b \in Buffers, Mutate(b)
      PROVE  \/ Quiet(b) \/ CopyElement(b) \/ WriteElement(b) \/ Replace(b)
  BY <1>2 DEF Mutate, Quiet
<1>3. ASSUME NEW b \in Buffers, Use(b)
      PROVE  \/ \E r \in Raws, n \in 0..MaxLen : \E v : Fresh(b, r, n, v)
             \/ \E a \in Buffers, l \in Layouts, w \in BOOLEAN : AnyView(a, b, l, w)
             \/ Quiet(b) \/ DropBuffer(b)
  <2>1. CASE Create(b) \/ \E a \in Buffers : CopyOut(a, b)
    BY <2>1, FreshAre
  <2>2. ASSUME NEW a \in Buffers,
               Share(a, b) \/ Reshape(a, b) \/ ExpandDims(a, b) \/ SliceAxis(a, b)
                 \/ BroadcastTo(a, b)
        PROVE  \E l \in Layouts, w \in BOOLEAN : AnyView(a, b, l, w)
    BY <2>2, ViewsAre
  <2>3. CASE DropBuffer(b) \/ \E w \in BOOLEAN : SetWriteable(b, w)
    BY <2>3 DEF Quiet
  <2> QED BY <1>3, <2>1, <2>2, <2>3 DEF Use
<1> QED BY <1>1, <1>2, <1>3 DEF Next

-------------------------------------------------------------------------------
(* Types                                                                     *)

\* A read gives a value, from inside a block or not.
LEMMA ReadType ==
  ASSUME Types, NEW k \in Blocks, NEW c \in Int
  PROVE  Reads(k, c) \subseteq Values
<1>1. mem[k] \in Seq(Values)
  BY DEF Types
<1>2. c \in DOMAIN mem[k] => mem[k][c] \in Values
  BY <1>1
<1> QED BY <1>2 DEF Reads

\* A function on 1..n is a sequence.
LEMMA FunctionSeq ==
  ASSUME NEW n \in Nat, NEW v \in [1..n -> Values]
  PROVE  v \in Seq(Values)
OBVIOUS

\* A sequence with another element at one place is one of the same length.
LEMMA WrittenSeq ==
  ASSUME NEW v \in Seq(Values), NEW c, NEW x \in Values
  PROVE  /\ [v EXCEPT ![c] = x] \in Seq(Values)
         /\ DOMAIN [v EXCEPT ![c] = x] = DOMAIN v
<1> DEFINE w == [v EXCEPT ![c] = x]
<1>1. v \in [1..Len(v) -> Values] /\ Len(v) \in Nat
  OBVIOUS
<1>2. w \in [1..Len(v) -> Values] /\ DOMAIN w = DOMAIN v
  BY <1>1
<1> QED BY <1>1, <1>2, FunctionSeq

\* What a drop leaves is typed.
LEMMA DropTypes ==
  ASSUME Types, NEW r \in Raws, NEW T \in [Tensors -> {"none", "out", "taken", "dying"}],
         Forget(r)
  PROVE  /\ Dropped(r) \in [Raws -> Int]
         /\ Freed(r) \in [Blocks -> Seq(Values)]
         /\ Dying(r, T) \in [Tensors -> {"none", "out", "taken", "dying"}]
         /\ source' \in [Raws -> Tensors \cup {NoTensor}]
         /\ ptr' \in [Raws -> [block : Blocks, at : Nat]]
<1>1. Dropped(r) \in [Raws -> Int]
  BY DEF Types, Dropped
<1>2. Freed(r) \in [Blocks -> Seq(Values)]
  BY Names DEF Types, Freed
<1>3. Dying(r, T) \in [Tensors -> {"none", "out", "taken", "dying"}]
  BY DEF Dying
<1>4. source' \in [Raws -> Tensors \cup {NoTensor}]
  BY DEF Types, Forget
<1>5. ptr' \in [Raws -> [block : Blocks, at : Nat]]
  BY Names DEF Types, Forget
<1> QED BY <1>1, <1>2, <1>3, <1>4, <1>5

LEMMA ContiguousType ==
  ASSUME NEW n \in 0..MaxLen
  PROVE  Contiguous(n) \in Layouts
BY DEF Contiguous, Layouts

LEMMA FreshTypes ==
  ASSUME Types, NEW b \in Buffers, NEW r \in Raws, NEW n \in 0..MaxLen, NEW v,
         Fresh(b, r, n, v)
  PROVE  Types'
<1>1. Contiguous(n) \in Layouts /\ n \in Nat /\ r \in Blocks
  BY ContiguousType, Names
<1>2. v \in Seq(Values)
  BY <1>1, FunctionSeq DEF Fresh
<1> QED BY <1>1, <1>2 DEF Types, Fresh, Alloc, Becomes, tensorVars

LEMMA ViewTypes ==
  ASSUME Types, NEW a \in Buffers, NEW b \in Buffers, NEW l \in Layouts,
         NEW w \in BOOLEAN, View(a, b, l, w)
  PROVE  Types'
<1>1. raw[a] \in Raws
  BY DEF Types, View, Idle, Exists
<1> QED BY <1>1 DEF Types, View, Becomes, Clone, tensorVars

LEMMA QuietTypes ==
  ASSUME Types, NEW b \in Buffers, Quiet(b)
  PROVE  Types'
<1>1. /\ UNCHANGED <<raw, layout, copied, rawVars, mem, tensorVars>>
      /\ writeable' \in [Buffers -> BOOLEAN]
      /\ stage' \in [Buffers -> Stages]
  BY DEF Types, Quiet, SetWriteable, MakeUnique, BeginWrite, CopyFails, EndWrite, Stages
<1> QED BY <1>1 DEF Types, rawVars, tensorVars

\* A method on b runs: b exists.
LEMMA RunsOn ==
  ASSUME Types, StagesOK, NEW b \in Buffers, stage[b] # "idle"
  PROVE  raw[b] \in Raws
BY DEF Types, StagesOK, Exists

\* The places operations look at are numbers.
LEMMA PlaceType ==
  ASSUME Types, NEW b \in Buffers, raw[b] \in Raws, NEW i \in Nat \ {0}
  PROVE  /\ Address(raw[b], layout[b], i) \in Nat
         /\ OpsAddress(raw[b], layout[b], i) \in Nat
         /\ ptr[raw[b]].block \in Blocks
<1> DEFINE l == layout[b]
           d == i - 1
<1>1. l.off \in Nat /\ l.stride \in Nat /\ ptr[raw[b]].at \in Nat /\ d \in Nat
      /\ ptr[raw[b]].block \in Blocks
  BY DEF Types, Layouts
<1>2. d * l.stride \in Nat
  BY <1>1
<1>3. Address(raw[b], l, i) \in Nat
  BY <1>1, <1>2 DEF Address
<1> QED BY <1>1, <1>3 DEF OpsAddress

LEMMA CopyElementTypes ==
  ASSUME Types, StagesOK, NEW b \in Buffers, CopyElement(b)
  PROVE  Types'
<1>1. raw[b] \in Raws
  BY RunsOn DEF CopyElement, Copying
<1>2. copied[b] \in Seq(Values) /\ Len(copied[b]) + 1 \in Nat \ {0}
  BY DEF Types
<1> DEFINE i == Len(copied[b]) + 1
           k == ptr[raw[b]].block
           c == OpsAddress(raw[b], layout[b], i)
<1>3. PICK x \in Values : copied' = [copied EXCEPT ![b] = Append(@, x)]
  <2>1. k \in Blocks /\ c \in Int
    BY <1>1, <1>2, PlaceType
  <2>2. Reads(k, c) \subseteq Values
    BY <2>1, ReadType
  <2>3. PICK x \in Reads(k, c) : copied' = [copied EXCEPT ![b] = Append(@, x)]
    BY DEF CopyElement
  <2> QED BY <2>2, <2>3
<1>4. copied' \in [Buffers -> Seq(Values)]
  BY <1>2, <1>3 DEF Types
<1> QED BY <1>4 DEF Types, CopyElement, rawVars, tensorVars

\* A writer changes values and the length of no block.
LEMMA WriteKeeps ==
  ASSUME Types, NEW b \in Buffers, WriteElement(b)
  PROVE  /\ mem' \in [Blocks -> Seq(Values)]
         /\ \A k \in Blocks : DOMAIN mem'[k] = DOMAIN mem[k]
<1> DEFINE Written(k, c, x) == [mem EXCEPT ![k][c] = x]
           Good(f) == /\ f \in [Blocks -> Seq(Values)]
                      /\ \A k \in Blocks : DOMAIN f[k] = DOMAIN mem[k]
<1>1. \A k \in Blocks : mem[k] \in Seq(Values)
  BY DEF Types
<1>2. ASSUME NEW k, NEW c, NEW x \in Values
      PROVE  Good(Written(k, c, x))
  <2>1. Written(k, c, x) = [k2 \in Blocks |-> IF k2 = k THEN [mem[k2] EXCEPT ![c] = x] ELSE mem[k2]]
    BY DEF Types
  <2>2. \A k2 \in Blocks : [mem[k2] EXCEPT ![c] = x] \in Seq(Values)
                           /\ DOMAIN [mem[k2] EXCEPT ![c] = x] = DOMAIN mem[k2]
    BY <1>1, WrittenSeq
  <2> QED BY <1>1, <2>1, <2>2
<1>3. \E k, c : \E x \in Values : mem' = Written(k, c, x)
  <2>1. PICK i \in 1..layout[b].len, x \in Values :
          \E c \in Addresses(raw[b], layout[b], i) :
            \/ mem' = Written(ptr[raw[b]].block, c, x)
            \/ \E j \in Blocks : \E d \in DOMAIN mem[j] : mem' = Written(j, d, x)
    BY DEF WriteElement
  <2> HIDE DEF Written
  <2> QED BY <2>1
<1>4. PICK k, c : \E x \in Values : mem' = Written(k, c, x)
  BY <1>3
<1> HIDE DEF Written, Good
<1>5. Good(mem')
  BY <1>2, <1>4
<1> QED BY <1>5 DEF Good


LEMMA WriteElementTypes ==
  ASSUME Types, NEW b \in Buffers, WriteElement(b)
  PROVE  Types'
<1>1. mem' \in [Blocks -> Seq(Values)]
  BY WriteKeeps
<1>2. UNCHANGED <<bufferVars, rawVars, tensorVars>>
  BY DEF WriteElement
<1> QED BY <1>1, <1>2 DEF Types, bufferVars, rawVars, tensorVars

LEMMA DropBufferTypes ==
  ASSUME Types, NEW b \in Buffers, DropBuffer(b)
  PROVE  Types'
<1>1. raw[b] \in Raws
  BY DEF Types, DropBuffer, Idle, Exists
<1>2. /\ strong' = Dropped(raw[b]) /\ mem' = Freed(raw[b])
      /\ tensor' = Dying(raw[b], tensor) /\ Forget(raw[b])
  BY DEF DropBuffer
<1>3. /\ strong' \in [Raws -> Int] /\ mem' \in [Blocks -> Seq(Values)]
      /\ tensor' \in [Tensors -> {"none", "out", "taken", "dying"}]
      /\ source' \in [Raws -> Tensors \cup {NoTensor}]
      /\ ptr' \in [Raws -> [block : Blocks, at : Nat]]
  BY <1>1, <1>2, DropTypes DEF Types
<1>4. Contiguous(0) \in Layouts
  BY Names, ContiguousType
<1> QED BY <1>3, <1>4 DEF Types, DropBuffer, Becomes

LEMMA ReplaceTypes ==
  ASSUME Types, StagesOK, NEW b \in Buffers, Replace(b)
  PROVE  Types'
<1>1. raw[b] \in Raws
  BY RunsOn DEF Replace, Copying
<1>2. tensor' = Dying(raw[b], tensor) /\ Forget(raw[b])
  BY DEF Replace
<1>3. /\ Dropped(raw[b]) \in [Raws -> Int] /\ Freed(raw[b]) \in [Blocks -> Seq(Values)]
      /\ tensor' \in [Tensors -> {"none", "out", "taken", "dying"}]
      /\ source' \in [Raws -> Tensors \cup {NoTensor}]
      /\ ptr' \in [Raws -> [block : Blocks, at : Nat]]
  BY <1>1, <1>2, DropTypes DEF Types
<1>4. layout[b].len \in 0..MaxLen
  BY DEF Types, Layouts
<1>5. Contiguous(layout[b].len) \in Layouts
  BY <1>4, ContiguousType
<1>6. PICK r \in Raws :
        /\ strong' = [Dropped(raw[b]) EXCEPT ![r] = 1]
        /\ mem' = [Freed(raw[b]) EXCEPT ![r] = copied[b]]
        /\ Becomes(b, r, Contiguous(layout[b].len), TRUE)
  BY DEF Replace
<1>7. strong' \in [Raws -> Int]
  BY <1>3, <1>6
<1>9. copied[b] \in Seq(Values)
  BY DEF Types
<1>10. mem' \in [Blocks -> Seq(Values)]
  BY <1>3, <1>6, <1>9
<1>8. /\ copied' \in [Buffers -> Seq(Values)]
      /\ stage' \in [Buffers -> Stages]
      /\ UNCHANGED <<of, shown>>
  BY DEF Types, Replace, Stages
<1> QED BY <1>3, <1>5, <1>6, <1>7, <1>8, <1>10 DEF Types, Becomes

LEMMA ToDlpackTypes ==
  ASSUME Types, NEW b \in Buffers, NEW m \in Tensors, ToDlpack(b, m)
  PROVE  Types'
<1>1. raw[b] \in Raws
  BY DEF Types, ToDlpack, Idle, Exists
<1>2. layout[b] \in Layouts /\ ptr[raw[b]] \in [block : Blocks, at : Nat]
  BY <1>1 DEF Types
<1>3. shown' \in [Tensors -> [block : Blocks, at : Nat, len : 0..MaxLen, stride : Nat]]
  BY <1>2 DEF Types, ToDlpack, Layouts
<1>4. strong' \in [Raws -> Int]
  BY <1>1 DEF Types, ToDlpack, Clone
<1>5. /\ tensor' \in [Tensors -> {"none", "out", "taken", "dying"}]
      /\ of' \in [Tensors -> Raws \cup {NoRaw}]
      /\ UNCHANGED <<bufferVars, source, ptr, mem>>
  BY <1>1 DEF Types, ToDlpack
<1> QED BY <1>3, <1>4, <1>5 DEF Types, bufferVars

LEMMA OfferTypes ==
  ASSUME Types, NEW m \in Tensors, Offer(m)
  PROVE  Types'
<1>1. MaxLen \in 0..MaxLen /\ MaxLen \in Nat /\ m \in Blocks
  BY Names
<1>2. mem' \in [Blocks -> Seq(Values)]
  BY <1>1, FunctionSeq DEF Types, Offer
<1>3. shown' \in [Tensors -> [block : Blocks, at : Nat, len : 0..MaxLen, stride : Nat]]
  BY <1>1 DEF Types, Offer
<1> QED BY <1>2, <1>3 DEF Types, Offer, bufferVars, rawVars

LEMMA NothingType ==
  ASSUME NEW m \in Tensors
  PROVE  Nothing(m) \in [block : Blocks, at : Nat, len : 0..MaxLen, stride : Nat]
BY Names DEF Nothing

LEMMA FromDlpackTypes ==
  ASSUME Types, NEW b \in Buffers, NEW m \in Tensors, FromDlpack(b, m)
  PROVE  Types'
<1>1. shown[m] \in [block : Blocks, at : Nat, len : 0..MaxLen, stride : Nat]
  BY DEF Types
<1>2. shown' \in [Tensors -> [block : Blocks, at : Nat, len : 0..MaxLen, stride : Nat]]
  BY NothingType DEF Types, FromDlpack
<1>3. PICK r \in Raws :
        /\ strong' = [strong EXCEPT ![r] = 1]
        /\ source' = [source EXCEPT ![r] = m]
        /\ ptr' = [ptr EXCEPT ![r] = [block |-> shown[m].block, at |-> shown[m].at]]
        /\ Becomes(b, r, [off |-> 0, len |-> shown[m].len, stride |-> shown[m].stride], FALSE)
  BY DEF FromDlpack
<1>4. [off |-> 0, len |-> shown[m].len, stride |-> shown[m].stride] \in Layouts
  BY <1>1 DEF Layouts
<1>5. raw' \in [Buffers -> Raws \cup {NoRaw}] /\ layout' \in [Buffers -> Layouts]
      /\ writeable' \in [Buffers -> BOOLEAN]
  BY <1>3, <1>4 DEF Types, Becomes
<1>6. ptr' \in [Raws -> [block : Blocks, at : Nat]]
  BY <1>1, <1>3 DEF Types
<1>7. tensor' \in [Tensors -> {"none", "out", "taken", "dying"}]
      /\ UNCHANGED <<stage, copied, mem, of>>
  BY DEF Types, FromDlpack
<1>8. strong' \in [Raws -> Int] /\ source' \in [Raws -> Tensors \cup {NoTensor}]
  BY <1>3 DEF Types
<1> QED BY <1>2, <1>5, <1>6, <1>7, <1>8 DEF Types

LEMMA DeleterTypes ==
  ASSUME Types, NEW m \in Tensors, Deleter(m)
  PROVE  Types'
<1>1. /\ of' \in [Tensors -> Raws \cup {NoRaw}]
      /\ shown' \in [Tensors -> [block : Blocks, at : Nat, len : 0..MaxLen, stride : Nat]]
      /\ UNCHANGED bufferVars
  BY NothingType DEF Types, Deleter
<1>2. CASE of[m] = NoRaw
  <2>1. <<>> \in Seq(Values) /\ m \in Blocks
    BY Names
  <2>2. /\ mem' = [mem EXCEPT ![m] = <<>>]
        /\ tensor' = [tensor EXCEPT ![m] = "none"] /\ UNCHANGED rawVars
    BY <1>2 DEF Deleter
  <2> QED BY <1>1, <2>1, <2>2 DEF Types, bufferVars, rawVars
<1>3. CASE of[m] # NoRaw
  <2> DEFINE T == [tensor EXCEPT ![m] = "none"]
  <2>1. of[m] \in Raws
    BY <1>3 DEF Types
  <2>2. T \in [Tensors -> {"none", "out", "taken", "dying"}]
    BY DEF Types
  <2>3. /\ mem' = Freed(of[m]) /\ tensor' = Dying(of[m], T)
        /\ strong' = Dropped(of[m]) /\ Forget(of[m])
    BY <1>3 DEF Deleter
  <2> HIDE DEF T
  <2>4. /\ strong' \in [Raws -> Int] /\ mem' \in [Blocks -> Seq(Values)]
        /\ tensor' \in [Tensors -> {"none", "out", "taken", "dying"}]
        /\ source' \in [Raws -> Tensors \cup {NoTensor}]
        /\ ptr' \in [Raws -> [block : Blocks, at : Nat]]
    BY <2>1, <2>2, <2>3, DropTypes
  <2> QED BY <1>1, <2>4 DEF Types, bufferVars
<1> QED BY <1>2, <1>3

LEMMA TypesNext ==
  ASSUME Types, StagesOK, Next
  PROVE  Types'
<1>1. ASSUME NEW b \in Buffers, NEW r \in Raws, NEW n \in 0..MaxLen, NEW v, Fresh(b, r, n, v)
      PROVE  Types'
  BY <1>1, FreshTypes
<1>2. ASSUME NEW a \in Buffers, NEW b \in Buffers, NEW l \in Layouts, NEW w \in BOOLEAN,
             AnyView(a, b, l, w)
      PROVE  Types'
  BY <1>2, ViewTypes DEF AnyView
<1>3. ASSUME NEW b \in Buffers,
             Quiet(b) \/ CopyElement(b) \/ WriteElement(b) \/ DropBuffer(b) \/ Replace(b)
      PROVE  Types'
  BY <1>3, QuietTypes, CopyElementTypes, WriteElementTypes, DropBufferTypes, ReplaceTypes
<1>4. ASSUME NEW m \in Tensors, Offer(m) \/ Deleter(m)
      PROVE  Types'
  BY <1>4, OfferTypes, DeleterTypes
<1>5. ASSUME NEW m \in Tensors, NEW b \in Buffers, ToDlpack(b, m) \/ FromDlpack(b, m)
      PROVE  Types'
  BY <1>5, ToDlpackTypes, FromDlpackTypes
<1> QED BY <1>1, <1>2, <1>3, <1>4, <1>5, StepsAre

-------------------------------------------------------------------------------
(* Counts                                                                    *)

\* Every count with one holder more or less of a RawBuffer.
Counted(x, y, r) ==
  IF r = x THEN strong[r] + 1 ELSE IF r = y THEN strong[r] - 1 ELSE strong[r]

LEMMA CountsAre ==
  CountsHolders <=> \A r \in Raws : strong[r] = Cardinality(Held(raw, Buffers, r))
                                               + Cardinality(Held(of, Tensors, r))
BY DEF CountsHolders, BuffersOf, TensorsOf, Held

LEMMA CountsAreNext ==
  CountsHolders' <=> \A r \in Raws : strong'[r] = Cardinality(Held(raw', Buffers, r))
                                                + Cardinality(Held(of', Tensors, r))
BY DEF CountsHolders, BuffersOf, TensorsOf, Held

\* A count that counts the holders: whoever holds is counted.
LEMMA CountOf ==
  ASSUME NEW n, NEW f, NEW g, NEW r,
         n = Cardinality(Held(f, Buffers, r)) + Cardinality(Held(g, Tensors, r))
  PROVE  /\ n \in Nat
         /\ \A b \in Buffers : f[b] = r => n >= 1
         /\ \A m \in Tensors : g[m] = r => n >= 1
<1> DEFINE B == Cardinality(Held(f, Buffers, r))
           T == Cardinality(Held(g, Tensors, r))
<1>1. IsFiniteSet(Buffers) /\ IsFiniteSet(Tensors)
  BY ShareAssumption
<1>2. B \in Nat /\ T \in Nat
  BY <1>1, HeldType
<1>3. B = 0 => \A b \in Buffers : f[b] # r
  BY <1>1, HeldNone
<1>4. T = 0 => \A m \in Tensors : g[m] # r
  BY <1>1, HeldNone
<1> HIDE DEF B, T
<1>5. n = B + T
  BY DEF B, T
<1> QED BY <1>2, <1>3, <1>4, <1>5

LEMMA CountsMean ==
  ASSUME CountsHolders, NEW r \in Raws
  PROVE  /\ strong[r] \in Nat
         /\ \A b \in Buffers : raw[b] = r => strong[r] >= 1
         /\ \A m \in Tensors : of[m] = r => strong[r] >= 1
BY CountsAre, CountOf

LEMMA CountsMeanNext ==
  ASSUME CountsHolders', NEW r \in Raws
  PROVE  /\ strong'[r] \in Nat
         /\ \A b \in Buffers : raw'[b] = r => strong'[r] >= 1
         /\ \A m \in Tensors : of'[m] = r => strong'[r] >= 1
BY CountsAreNext, CountOf

\* A Buffer whose RawBuffer has a count of 1 is the only holder.
LEMMA SoleHolder ==
  ASSUME Types, CountsHolders, NEW b \in Buffers, raw[b] \in Raws, strong[raw[b]] = 1
  PROVE  /\ \A a \in Buffers : raw[a] = raw[b] => a = b
         /\ \A m \in Tensors : of[m] # raw[b]
<1> DEFINE r == raw[b]
           B == Cardinality(Held(raw, Buffers, r))
           T == Cardinality(Held(of, Tensors, r))
<1>1. IsFiniteSet(Buffers) /\ IsFiniteSet(Tensors)
  BY ShareAssumption
<1>2. B \in Nat /\ T \in Nat
  BY <1>1, HeldType
<1>3. B # 0
  BY <1>1, HeldNone
<1>4. 1 = B + T
  BY CountsAre
<1>5. B <= 1 /\ T = 0
  <2> HIDE DEF B, T
  <2> QED BY <1>2, <1>3, <1>4
<1>6. \A a \in Buffers : raw[a] = r => a = b
  BY <1>1, <1>5, HeldOnce
<1>7. \A m \in Tensors : of[m] # r
  BY <1>1, <1>5, HeldNone
<1> QED BY <1>6, <1>7

LEMMA BufferMoved ==
  ASSUME Types, CountsHolders, NEW b \in Buffers, NEW x,
         raw' = [raw EXCEPT ![b] = x], raw[b] # x, UNCHANGED of,
         \A r \in Raws : strong'[r] = Counted(x, raw[b], r)
  PROVE  CountsHolders'
<1>1. IsFiniteSet(Buffers) /\ IsFiniteSet(Tensors) /\ raw = [t \in Buffers |-> raw[t]]
  BY ShareAssumption DEF Types
<1> SUFFICES ASSUME NEW r \in Raws
             PROVE  strong'[r] = Cardinality(Held(raw', Buffers, r))
                                   + Cardinality(Held(of', Tensors, r))
  BY CountsAreNext
<1> DEFINE B  == Cardinality(Held(raw, Buffers, r))
           B2 == Cardinality(Held(raw', Buffers, r))
           T  == Cardinality(Held(of, Tensors, r))
<1>2. B \in Nat /\ T \in Nat
  BY <1>1, HeldType
<1>3. B2 = IF r = x THEN B + 1 ELSE IF r = raw[b] THEN B - 1 ELSE B
  BY <1>1, HeldMoved
<1>4. strong[r] = B + T
  BY CountsAre
<1>5. strong'[r] = IF r = x THEN strong[r] + 1
                   ELSE IF r = raw[b] THEN strong[r] - 1 ELSE strong[r]
  BY DEF Counted
<1>6. strong'[r] = B2 + T
  <2> HIDE DEF B, B2, T
  <2> QED BY <1>2, <1>3, <1>4, <1>5
<1> QED BY <1>6

LEMMA TensorMoved ==
  ASSUME Types, CountsHolders, NEW m \in Tensors, NEW x,
         of' = [of EXCEPT ![m] = x], of[m] # x, UNCHANGED raw,
         \A r \in Raws : strong'[r] = Counted(x, of[m], r)
  PROVE  CountsHolders'
<1>1. IsFiniteSet(Buffers) /\ IsFiniteSet(Tensors) /\ of = [t \in Tensors |-> of[t]]
  BY ShareAssumption DEF Types
<1> SUFFICES ASSUME NEW r \in Raws
             PROVE  strong'[r] = Cardinality(Held(raw', Buffers, r))
                                   + Cardinality(Held(of', Tensors, r))
  BY CountsAreNext
<1> DEFINE B  == Cardinality(Held(raw, Buffers, r))
           T  == Cardinality(Held(of, Tensors, r))
           T2 == Cardinality(Held(of', Tensors, r))
<1>2. B \in Nat /\ T \in Nat
  BY <1>1, HeldType
<1>3. T2 = IF r = x THEN T + 1 ELSE IF r = of[m] THEN T - 1 ELSE T
  BY <1>1, HeldMoved
<1>4. strong[r] = B + T
  BY CountsAre
<1>5. strong'[r] = IF r = x THEN strong[r] + 1
                   ELSE IF r = of[m] THEN strong[r] - 1 ELSE strong[r]
  BY DEF Counted
<1>6. strong'[r] = B + T2
  <2> HIDE DEF B, T2, T
  <2> QED BY <1>2, <1>3, <1>4, <1>5
<1> QED BY <1>6

LEMMA CountsKept ==
  ASSUME CountsHolders, UNCHANGED <<raw, of, strong>>
  PROVE  CountsHolders'
BY CountsAre, CountsAreNext

LEMMA CountsNext ==
  ASSUME Types, CountsHolders, StagesOK, TensorsOK, Next
  PROVE  CountsHolders'
<1>1. ASSUME NEW b \in Buffers, NEW r \in Raws, NEW n \in 0..MaxLen, NEW v, Fresh(b, r, n, v)
      PROVE  CountsHolders'
  <2>1. /\ raw' = [raw EXCEPT ![b] = r] /\ UNCHANGED of /\ raw[b] = NoRaw
        /\ strong[r] = 0 /\ strong' = [strong EXCEPT ![r] = 1]
    BY <1>1 DEF Fresh, Becomes, Alloc, tensorVars, Exists
  <2>2. \A q \in Raws : strong'[q] = Counted(r, raw[b], q)
    BY <2>1, Names DEF Counted, Types
  <2> QED BY <2>1, <2>2, BufferMoved, Names
<1>2. ASSUME NEW a \in Buffers, NEW b \in Buffers, NEW l \in Layouts, NEW w \in BOOLEAN,
             AnyView(a, b, l, w)
      PROVE  CountsHolders'
  <2>1. /\ raw' = [raw EXCEPT ![b] = raw[a]] /\ UNCHANGED of /\ raw[b] = NoRaw
        /\ raw[a] # NoRaw
        /\ strong' = [strong EXCEPT ![raw[a]] = strong[raw[a]] + 1]
    BY <1>2 DEF AnyView, View, Idle, Becomes, Clone, tensorVars, Exists
  <2>2. \A q \in Raws : strong'[q] = Counted(raw[a], raw[b], q)
    BY <2>1, Names DEF Counted, Types
  <2> QED BY <2>1, <2>2, BufferMoved
<1>3. ASSUME NEW b \in Buffers, Quiet(b)
      PROVE  CountsHolders'
  BY <1>3, CountsKept DEF Quiet, SetWriteable, MakeUnique, BeginWrite, CopyFails, EndWrite,
                          rawVars, tensorVars
<1>4. ASSUME NEW b \in Buffers, CopyElement(b) \/ WriteElement(b)
      PROVE  CountsHolders'
  BY <1>4, CountsKept DEF CopyElement, WriteElement, bufferVars, rawVars, tensorVars
<1>5. ASSUME NEW b \in Buffers, DropBuffer(b)
      PROVE  CountsHolders'
  <2>1. /\ raw' = [raw EXCEPT ![b] = NoRaw] /\ UNCHANGED of /\ raw[b] # NoRaw
        /\ strong' = [strong EXCEPT ![raw[b]] = strong[raw[b]] - 1]
    BY <1>5 DEF DropBuffer, Idle, Exists, Becomes, Dropped
  <2>2. \A q \in Raws : strong'[q] = Counted(NoRaw, raw[b], q)
    BY <2>1, Names DEF Counted, Types
  <2> QED BY <2>1, <2>2, BufferMoved
<1>6. ASSUME NEW b \in Buffers, Replace(b)
      PROVE  CountsHolders'
  <2>1. PICK r \in Raws :
          /\ raw' = [raw EXCEPT ![b] = r] /\ strong[r] = 0
          /\ strong' = [[strong EXCEPT ![raw[b]] = strong[raw[b]] - 1] EXCEPT ![r] = 1]
    BY <1>6 DEF Replace, Becomes, Dropped
  <2>2. UNCHANGED of /\ raw[b] \in Raws
    BY <1>6, RunsOn DEF Replace, Copying
  <2>3. raw[b] # r
    BY <2>1, <2>2, CountsMean
  <2>4. \A q \in Raws : strong'[q] = Counted(r, raw[b], q)
    BY <2>1, <2>2, <2>3 DEF Counted, Types
  <2> QED BY <2>1, <2>2, <2>3, <2>4, BufferMoved
<1>7. ASSUME NEW m \in Tensors, Offer(m)
      PROVE  CountsHolders'
  BY <1>7, CountsKept DEF Offer, bufferVars, rawVars
<1>8. ASSUME NEW m \in Tensors, Deleter(m)
      PROVE  CountsHolders'
  <2>1. CASE of[m] = NoRaw
    <3>1. of' = of
      BY <1>8, <2>1 DEF Deleter, Types
    <3> QED BY <1>8, <2>1, <3>1, CountsKept DEF Deleter, bufferVars, rawVars
  <2>2. CASE of[m] # NoRaw
    <3>1. /\ of' = [of EXCEPT ![m] = NoRaw] /\ UNCHANGED raw
          /\ strong' = [strong EXCEPT ![of[m]] = strong[of[m]] - 1]
      BY <1>8, <2>2 DEF Deleter, Dropped, bufferVars
    <3>2. \A q \in Raws : strong'[q] = Counted(NoRaw, of[m], q)
      BY <2>2, <3>1, Names DEF Counted, Types
    <3> QED BY <2>2, <3>1, <3>2, TensorMoved
  <2> QED BY <2>1, <2>2
<1>9. ASSUME NEW m \in Tensors, NEW b \in Buffers, ToDlpack(b, m)
      PROVE  CountsHolders'
  <2>1. /\ of' = [of EXCEPT ![m] = raw[b]] /\ UNCHANGED raw
        /\ raw[b] # NoRaw /\ tensor[m] = "none"
        /\ strong' = [strong EXCEPT ![raw[b]] = strong[raw[b]] + 1]
    BY <1>9 DEF ToDlpack, Idle, Exists, Clone, bufferVars
  <2>2. of[m] = NoRaw
    BY <2>1 DEF TensorsOK
  <2>3. \A q \in Raws : strong'[q] = Counted(raw[b], of[m], q)
    BY <2>1, <2>2, Names DEF Counted, Types
  <2> QED BY <2>1, <2>2, <2>3, TensorMoved
<1>10. ASSUME NEW m \in Tensors, NEW b \in Buffers, FromDlpack(b, m)
      PROVE  CountsHolders'
  <2>1. PICK r \in Raws : /\ raw' = [raw EXCEPT ![b] = r]
                          /\ strong[r] = 0 /\ strong' = [strong EXCEPT ![r] = 1]
    BY <1>10 DEF FromDlpack, Becomes
  <2>2. UNCHANGED of /\ raw[b] = NoRaw
    BY <1>10 DEF FromDlpack, Exists
  <2>3. \A q \in Raws : strong'[q] = Counted(r, raw[b], q)
    BY <2>1, <2>2, Names DEF Counted, Types
  <2> QED BY <2>1, <2>2, <2>3, BufferMoved, Names
<1> QED BY <1>1, <1>2, <1>3, <1>4, <1>5, <1>6, <1>7, <1>8, <1>9, <1>10, StepsAre

-------------------------------------------------------------------------------
(* Methods                                                                   *)

\* What StagesOK says of one Buffer, of the values of its variables.
StageOK(rb, lb, sb, cb) ==
  /\ rb = NoRaw => sb = "idle" /\ lb.len = 0
  /\ sb \notin {"copy", "copy_write"} => cb = <<>>
  /\ Len(cb) <= lb.len

LEMMA StagesAre ==
  StagesOK <=> \A b \in Buffers : StageOK(raw[b], layout[b], stage[b], copied[b])
BY DEF StagesOK, StageOK, Exists, Copying

LEMMA StagesAreNext ==
  StagesOK' <=> \A b \in Buffers : StageOK(raw'[b], layout'[b], stage'[b], copied'[b])
BY DEF StagesOK, StageOK, Exists, Copying

\* A step of one Buffer leaves the others as they are.
LEMMA StageMoved ==
  ASSUME StagesOK, NEW b \in Buffers,
         \A a \in Buffers \ {b} : /\ raw'[a] = raw[a] /\ layout'[a] = layout[a]
                                  /\ stage'[a] = stage[a] /\ copied'[a] = copied[a],
         StageOK(raw'[b], layout'[b], stage'[b], copied'[b])
  PROVE  StagesOK'
BY StagesAre, StagesAreNext

LEMMA NoElements ==
  Len(<<>>) = 0
OBVIOUS

LEMMA StagesNext ==
  ASSUME Types, StagesOK, Next
  PROVE  StagesOK'
<1> USE DEF Types
<1>1. ASSUME NEW b \in Buffers, NEW r \in Raws, NEW n \in 0..MaxLen, NEW v, Fresh(b, r, n, v)
      PROVE  StagesOK'
  <2>1. stage[b] = "idle" /\ copied[b] = <<>>
    BY <1>1 DEF StagesOK, Fresh, Copying
  <2>2. /\ raw' = [raw EXCEPT ![b] = r] /\ layout' = [layout EXCEPT ![b] = Contiguous(n)]
        /\ UNCHANGED <<stage, copied>>
    BY <1>1 DEF Fresh, Becomes
  <2>3. StageOK(raw'[b], layout'[b], stage'[b], copied'[b])
    BY <2>1, <2>2, Names, NoElements DEF StageOK, Contiguous
  <2> QED BY <2>2, <2>3, StageMoved
<1>2. ASSUME NEW a \in Buffers, NEW b \in Buffers, NEW l \in Layouts, NEW w \in BOOLEAN,
             AnyView(a, b, l, w)
      PROVE  StagesOK'
  <2>1. stage[b] = "idle" /\ copied[b] = <<>> /\ raw[a] # NoRaw
    BY <1>2 DEF StagesOK, AnyView, View, Idle, Exists, Copying
  <2>2. /\ raw' = [raw EXCEPT ![b] = raw[a]] /\ layout' = [layout EXCEPT ![b] = l]
        /\ UNCHANGED <<stage, copied>>
    BY <1>2 DEF AnyView, View, Becomes
  <2>3. StageOK(raw'[b], layout'[b], stage'[b], copied'[b])
    BY <2>1, <2>2, Names, NoElements DEF StageOK, Layouts
  <2> QED BY <2>2, <2>3, StageMoved
<1>3. ASSUME NEW b \in Buffers, Quiet(b)
      PROVE  StagesOK'
  <2>1. UNCHANGED <<raw, layout, copied>>
    BY <1>3 DEF Quiet, SetWriteable, MakeUnique, BeginWrite, CopyFails, EndWrite
  <2>2. \/ stage' = stage
        \/ \E st \in Stages : raw[b] # NoRaw /\ copied[b] = <<>> /\ stage' = [stage EXCEPT ![b] = st]
    BY <1>3 DEF Quiet, SetWriteable, MakeUnique, BeginWrite, CopyFails, EndWrite, Stages,
                StagesOK, Copying, Idle, Exists
  <2>3. StageOK(raw[b], layout[b], stage[b], copied[b])
    BY StagesAre
  <2>4. StageOK(raw'[b], layout'[b], stage'[b], copied'[b])
    BY <2>1, <2>2, <2>3 DEF StageOK
  <2> QED BY <2>1, <2>2, <2>4, StageMoved
<1>4. ASSUME NEW b \in Buffers, CopyElement(b)
      PROVE  StagesOK'
  <2>1. UNCHANGED <<raw, layout, stage>> /\ Copying(b)
    BY <1>4 DEF CopyElement
  <2>2. PICK x : copied' = [copied EXCEPT ![b] = Append(@, x)]
    BY <1>4 DEF CopyElement
  <2>3. copied[b] \in Seq(Values) /\ Len(copied[b]) + 1 <= layout[b].len
    BY <1>4 DEF CopyElement
  <2>4. copied'[b] = Append(copied[b], x)
    BY <2>2
  <2>5. Len(copied'[b]) = Len(copied[b]) + 1
    BY <2>3, <2>4
  <2>6. StageOK(raw'[b], layout'[b], stage'[b], copied'[b])
    BY <2>1, <2>3, <2>5 DEF StageOK, StagesOK, Copying, Exists
  <2> QED BY <2>1, <2>2, <2>6, StageMoved
<1>5. ASSUME NEW b \in Buffers, DropBuffer(b)
      PROVE  StagesOK'
  <2>1. stage[b] = "idle" /\ copied[b] = <<>>
    BY <1>5 DEF StagesOK, DropBuffer, Idle, Copying
  <2>2. /\ raw' = [raw EXCEPT ![b] = NoRaw] /\ layout' = [layout EXCEPT ![b] = Contiguous(0)]
        /\ UNCHANGED <<stage, copied>>
    BY <1>5 DEF DropBuffer, Becomes
  <2>3. StageOK(raw'[b], layout'[b], stage'[b], copied'[b])
    BY <2>1, <2>2, NoElements DEF StageOK, Contiguous
  <2> QED BY <2>2, <2>3, StageMoved
<1>6. ASSUME NEW b \in Buffers, Replace(b)
      PROVE  StagesOK'
  <2>1. PICK r \in Raws : /\ raw' = [raw EXCEPT ![b] = r]
                          /\ layout' = [layout EXCEPT ![b] = Contiguous(layout[b].len)]
    BY <1>6 DEF Replace, Becomes
  <2>2. /\ copied' = [copied EXCEPT ![b] = <<>>]
        /\ \E st \in {"idle", "write"} : stage' = [stage EXCEPT ![b] = st]
    BY <1>6 DEF Replace
  <2>3. layout[b].len \in Nat
    BY Names DEF Layouts
  <2>4. StageOK(raw'[b], layout'[b], stage'[b], copied'[b])
    BY <2>1, <2>2, <2>3, Names, NoElements DEF StageOK, Contiguous
  <2> QED BY <2>1, <2>2, <2>4, StageMoved
<1>7. ASSUME NEW b \in Buffers, WriteElement(b)
      PROVE  StagesOK'
  BY <1>7, StagesAre, StagesAreNext DEF WriteElement, bufferVars
<1>8. ASSUME NEW m \in Tensors, Offer(m) \/ Deleter(m) \/ \E b \in Buffers : ToDlpack(b, m)
      PROVE  StagesOK'
  BY <1>8, StagesAre, StagesAreNext DEF Offer, Deleter, ToDlpack, bufferVars
<1>9. ASSUME NEW m \in Tensors, NEW b \in Buffers, FromDlpack(b, m)
      PROVE  StagesOK'
  <2> DEFINE l == [off |-> 0, len |-> shown[m].len, stride |-> shown[m].stride]
  <2>1. PICK r \in Raws : /\ raw' = [raw EXCEPT ![b] = r]
                          /\ layout' = [layout EXCEPT ![b] = l]
    BY <1>9 DEF FromDlpack, Becomes
  <2>2. stage[b] = "idle" /\ copied[b] = <<>> /\ UNCHANGED <<stage, copied>>
    BY <1>9 DEF FromDlpack, StagesOK, Copying
  <2>3. shown[m].len \in Nat
    BY Names
  <2>4. StageOK(raw'[b], layout'[b], stage'[b], copied'[b])
    BY <2>1, <2>2, <2>3, Names, NoElements DEF StageOK
  <2> QED BY <2>1, <2>2, <2>4, StageMoved
<1> QED BY <1>1, <1>2, <1>3, <1>4, <1>5, <1>6, <1>7, <1>8, <1>9, StepsAre

-------------------------------------------------------------------------------
(* Tensors and what they keep alive                                          *)

\* Nothing new is stood on.
LEMMA AcyclicKept ==
  ASSUME Acyclic, \A r, q \in Raws : StandsOn(r, q)' => StandsOn(r, q)
  PROVE  Acyclic'
<1>1. PICK age \in [Raws -> Nat] :
        \A r, q \in Raws : StandsOn(r, q) => age[q] < age[r]
  BY DEF Acyclic
<1>2. \A r, q \in Raws : StandsOn(r, q)' => age[q] < age[r]
  BY <1>1
<1> QED BY <1>2 DEF Acyclic

\* A step that only adds holders.
LEMMA GraphKept ==
  ASSUME Graph, UNCHANGED <<source, ptr, tensorVars>>,
         \A r \in Raws : strong'[r] = 0 => strong[r] = 0
  PROVE  Graph'
<1>1. TensorsOK'
  BY DEF Graph, TensorsOK, BlockOf, tensorVars
<1>2. SourcesOK'
  BY DEF Graph, SourcesOK, BlockOf, tensorVars
<1>3. Acyclic'
  BY AcyclicKept DEF Graph, StandsOn, tensorVars
<1> QED BY <1>1, <1>2, <1>3 DEF Graph

\* An Arc of RawBuffer x is dropped, by a Buffer or by the deleter of a tensor.
LEMMA GraphReleased ==
  ASSUME Types, Types', CountsHolders, CountsHolders', Graph,
         NEW x \in Raws, strong'[x] = strong[x] - 1,
         \A r \in Raws \ {x} : strong'[r] = 0 => strong[r] = 0,
         NEW T, tensor' = Dying(x, T), Forget(x),
         \A m \in Tensors :
           \/ of'[m] = of[m] /\ shown'[m] = shown[m] /\ T[m] = tensor[m]
           \/ /\ tensor[m] \in {"out", "dying"}
              /\ T[m] = "none" /\ of'[m] = NoRaw /\ shown'[m].len = 0
  PROVE  Graph'
<1>1. \A r \in Raws : source'[r] = NoTensor \/ source'[r] = source[r]
  BY DEF Forget, Types
<1>2. \A r \in Raws : r # x \/ ~Last(x) => source'[r] = source[r] /\ ptr'[r] = ptr[r]
  BY DEF Forget, Types
<1>3. Last(x) => source'[x] = NoTensor /\ ptr'[x] = [block |-> x, at |-> 1]
  BY DEF Forget, Types
<1>4. \A m \in Tensors : tensor'[m] = IF Last(x) /\ m = source[x] THEN "dying" ELSE T[m]
  BY DEF Dying
<1>5. ASSUME NEW m \in Tensors, of'[m] = of[m]
      PROVE  BlockOf(m)' = BlockOf(m)
  <2>1. CASE of[m] = NoRaw
    BY <1>5, <2>1 DEF BlockOf
  <2>2. CASE of[m] # NoRaw
    <3>1. of[m] \in Raws
      BY <2>2 DEF Types
    <3>2. strong'[of[m]] >= 1
      BY <1>5, <3>1, CountsMeanNext
    <3>3. of[m] # x \/ ~Last(x)
      BY <3>2 DEF Last
    <3>4. ptr'[of[m]] = ptr[of[m]]
      BY <1>2, <3>1, <3>3
    <3> QED BY <1>5, <2>2, <3>4 DEF BlockOf
  <2> QED BY <2>1, <2>2
<1>6. ASSUME NEW r \in Raws, source'[r] # NoTensor
      PROVE  LET m == source[r] IN
             /\ source'[r] = m /\ m \in Tensors /\ tensor[m] = "taken" /\ T[m] = "taken"
             /\ of'[m] = of[m] /\ tensor'[m] = "taken"
             /\ (r # x \/ ~Last(x)) /\ strong[r] # 0
  <2> DEFINE m == source[r]
  <2>1. source'[r] = m /\ m \in Tensors
    BY <1>1, <1>6 DEF Types
  <2>2. r # x \/ ~Last(x)
    BY <1>3, <1>6
  <2>3. tensor[m] = "taken" /\ strong[r] # 0
    BY <2>1, <1>6 DEF Graph, SourcesOK
  <2>4. T[m] = tensor[m] /\ of'[m] = of[m]
    BY <2>1, <2>3
  <2>5. ~(Last(x) /\ m = source[x])
    BY <1>6, <2>1, <2>2 DEF Graph, SourcesOK
  <2> QED BY <1>4, <2>1, <2>2, <2>3, <2>4, <2>5
<1>7. TensorsOK'
  <2> SUFFICES ASSUME NEW m \in Tensors
               PROVE  /\ tensor'[m] = "none" => of'[m] = NoRaw
                      /\ IF tensor'[m] = "out" THEN shown'[m].block = BlockOf(m)'
                         ELSE shown'[m].len = 0
    BY DEF TensorsOK
  <2>1. CASE T[m] = "none" /\ of'[m] = NoRaw /\ shown'[m].len = 0
    BY <1>4, <2>1
  <2>2. CASE of'[m] = of[m] /\ shown'[m] = shown[m] /\ T[m] = tensor[m]
    <3>1. CASE Last(x) /\ m = source[x]
      <4>1. tensor[m] = "taken"
        BY <3>1, Names DEF Graph, SourcesOK
      <4> QED BY <1>4, <2>2, <3>1, <4>1 DEF Graph, TensorsOK
    <3>2. CASE ~(Last(x) /\ m = source[x])
      BY <1>4, <1>5, <2>2, <3>2 DEF Graph, TensorsOK
    <3> QED BY <3>1, <3>2
  <2> QED BY <2>1, <2>2
<1>8. SourcesOK'
  <2> SUFFICES ASSUME NEW r \in Raws
               PROVE  /\ strong'[r] = 0 => source'[r] = NoTensor
                      /\ IF source'[r] = NoTensor
                           THEN ptr'[r] = [block |-> r, at |-> 1]
                           ELSE /\ tensor'[source'[r]] = "taken"
                                /\ ptr'[r].block = BlockOf(source[r])'
                      /\ \A q \in Raws : source'[q] = source'[r] /\ source'[r] # NoTensor
                                           => q = r
    BY <1>1 DEF SourcesOK, BlockOf
  <2>1. strong'[r] = 0 => source'[r] = NoTensor
    <3>1. strong'[x] = 0 => Last(x)
      BY CountsMean DEF Last
    <3> QED BY <1>1, <1>3, <3>1 DEF Graph, SourcesOK
  <2>2. CASE source'[r] = NoTensor
    <3>1. CASE r = x /\ Last(x)
      BY <1>3, <2>1, <2>2, <3>1
    <3>2. CASE r # x \/ ~Last(x)
      BY <1>2, <2>1, <2>2, <3>2 DEF Graph, SourcesOK
    <3> QED BY <2>1, <2>2, <3>1, <3>2
  <2>3. CASE source'[r] # NoTensor
    <3>1. PICK m \in Tensors : m = source[r]
      BY <1>6, <2>3
    <3>2. /\ source'[r] = m /\ tensor'[m] = "taken" /\ of'[m] = of[m]
          /\ (r # x \/ ~Last(x))
      BY <1>6, <2>3, <3>1
    <3>3. BlockOf(m)' = BlockOf(m)
      BY <1>5, <3>2
    <3>4. m # NoTensor
      BY Names
    <3>5. ptr'[r] = ptr[r] /\ ptr[r].block = BlockOf(m)
      BY <1>2, <3>1, <3>2, <3>4 DEF Graph, SourcesOK
    <3>6. ptr'[r].block = BlockOf(source[r])'
      BY <3>2, <3>3, <3>5 DEF BlockOf
    <3>7. ASSUME NEW q \in Raws, source'[q] = source'[r]
          PROVE  q = r
      <4>1. source'[q] = source[q]
        BY <1>1, <2>3, <3>7
      <4>2. source[q] = source[r] /\ source[r] # NoTensor
        BY <3>1, <3>2, <3>4, <3>7, <4>1
      <4> QED BY <4>2 DEF Graph, SourcesOK
    <3> QED BY <2>1, <2>3, <3>2, <3>6, <3>7
  <2> QED BY <2>2, <2>3
<1>9. Acyclic'
  <2>1. \A r, q \in Raws : StandsOn(r, q)' => StandsOn(r, q)
    BY <1>6 DEF StandsOn
  <2> QED BY <2>1, AcyclicKept DEF Graph
<1> QED BY <1>7, <1>8, <1>9 DEF Graph

\* A tensor that no RawBuffer stands on changes hands.
LEMMA GraphTouched ==
  ASSUME Types, Graph, UNCHANGED <<source, ptr>>, NEW m \in Tensors, tensor[m] # "taken",
         \A r \in Raws : strong'[r] = 0 => strong[r] = 0,
         \A t \in Tensors \ {m} :
           tensor'[t] = tensor[t] /\ of'[t] = of[t] /\ shown'[t] = shown[t],
         tensor'[m] = "none" => of'[m] = NoRaw,
         IF tensor'[m] = "out" THEN shown'[m].block = BlockOf(m)' ELSE shown'[m].len = 0
  PROVE  Graph'
<1>1. \A t \in Tensors \ {m} : BlockOf(t)' = BlockOf(t)
  BY DEF BlockOf
<1>2. ASSUME NEW r \in Raws, source[r] = m
      PROVE  FALSE
  <2>1. source[r] # NoTensor
    BY <1>2, Names
  <2> QED BY <1>2, <2>1 DEF Graph, SourcesOK
<1>3. \A r \in Raws : source[r] # NoTensor => source[r] \in Tensors \ {m}
  BY <1>2 DEF Types
<1>4. TensorsOK'
  BY <1>1 DEF Graph, TensorsOK
<1>5. SourcesOK'
  <2> SUFFICES ASSUME NEW r \in Raws
               PROVE  /\ strong'[r] = 0 => source[r] = NoTensor
                      /\ IF source[r] = NoTensor
                           THEN ptr[r] = [block |-> r, at |-> 1]
                           ELSE /\ tensor'[source[r]] = "taken"
                                /\ ptr[r].block = BlockOf(source[r])'
                      /\ \A q \in Raws : source[q] = source[r] /\ source[r] # NoTensor => q = r
    BY DEF SourcesOK, BlockOf
  <2>1. CASE source[r] = NoTensor
    BY <2>1 DEF Graph, SourcesOK
  <2>2. CASE source[r] # NoTensor
    <3>1. PICK t \in Tensors \ {m} : t = source[r]
      BY <1>3, <2>2
    <3>2. tensor[t] = "taken" /\ ptr[r].block = BlockOf(t) /\ strong[r] # 0
      BY <2>2, <3>1 DEF Graph, SourcesOK
    <3>3. BlockOf(source[r])' = BlockOf(t)
      BY <1>1, <3>1 DEF BlockOf
    <3> QED BY <2>2, <3>1, <3>2, <3>3 DEF Graph, SourcesOK
  <2> QED BY <2>1, <2>2
<1>6. Acyclic'
  BY <1>3, AcyclicKept DEF Graph, StandsOn
<1> QED BY <1>4, <1>5, <1>6 DEF Graph

\* A RawBuffer that was gone takes a tensor: it is younger than all it stands on.
LEMMA GraphTaken ==
  ASSUME Types, CountsHolders, Graph, NEW b \in Buffers, NEW m \in Tensors, FromDlpack(b, m)
  PROVE  Graph'
<1>1. PICK r \in Raws :
        /\ strong[r] = 0 /\ strong' = [strong EXCEPT ![r] = 1]
        /\ source' = [source EXCEPT ![r] = m]
        /\ ptr' = [ptr EXCEPT ![r] = [block |-> shown[m].block, at |-> shown[m].at]]
  BY DEF FromDlpack
<1>2. /\ tensor[m] = "out" /\ tensor' = [tensor EXCEPT ![m] = "taken"]
      /\ shown' = [shown EXCEPT ![m] = Nothing(m)] /\ of' = of
  BY DEF FromDlpack
<1>3. \A t \in Tensors : of[t] # r
  BY <1>1, CountsMean
<1>4. \A q \in Raws : source[q] # m
  <2> SUFFICES ASSUME NEW q \in Raws, source[q] = m PROVE FALSE
    OBVIOUS
  <2>1. source[q] # NoTensor
    BY Names
  <2> QED BY <1>2, <2>1 DEF Graph, SourcesOK
<1>5. \A t \in Tensors : BlockOf(t)' = BlockOf(t)
  BY <1>1, <1>2, <1>3 DEF BlockOf, Types
<1>6. ptr'[r].block = BlockOf(m) /\ source'[r] = m /\ strong'[r] = 1
  BY <1>1, <1>2 DEF Graph, TensorsOK, Types
<1>7. \A q \in Raws \ {r} : source'[q] = source[q] /\ ptr'[q] = ptr[q] /\ strong'[q] = strong[q]
  BY <1>1 DEF Types
<1>8. TensorsOK'
  BY <1>2, <1>5, Names DEF Graph, TensorsOK, Nothing, Types
<1>9. SourcesOK'
  <2> SUFFICES ASSUME NEW p \in Raws
               PROVE  /\ strong'[p] = 0 => source'[p] = NoTensor
                      /\ IF source'[p] = NoTensor
                           THEN ptr'[p] = [block |-> p, at |-> 1]
                           ELSE /\ tensor'[source'[p]] = "taken"
                                /\ ptr'[p].block = BlockOf(source[p])'
                      /\ \A q \in Raws : source'[q] = source'[p] /\ source'[p] # NoTensor
                                           => q = p
    BY DEF SourcesOK, BlockOf
  <2>1. CASE p = r
    <3>1. tensor'[m] = "taken" /\ m # NoTensor
      BY <1>2, Names DEF Types
    <3>2. BlockOf(source[p])' = BlockOf(m)'
      BY <1>6, <2>1 DEF BlockOf
    <3>3. BlockOf(m)' = BlockOf(m)
      BY <1>5
    <3>4. \A q \in Raws : source'[q] = m => q = r
      BY <1>4, <1>7
    <3> QED BY <1>6, <2>1, <3>1, <3>2, <3>3, <3>4
  <2>2. CASE p # r
    <3>1. source'[p] = source[p] /\ ptr'[p] = ptr[p] /\ strong'[p] = strong[p]
      BY <1>7, <2>2
    <3>2. \A q \in Raws : source'[q] = source[p] /\ source[p] # NoTensor => q = p
      BY <1>4, <1>6, <1>7 DEF Graph, SourcesOK
    <3>3. CASE source[p] = NoTensor
      BY <3>1, <3>2, <3>3 DEF Graph, SourcesOK
    <3>4. CASE source[p] # NoTensor
      <4>1. PICK t \in Tensors : t = source[p]
        BY <3>4 DEF Types
      <4>2. tensor[t] = "taken" /\ ptr[p].block = BlockOf(t) /\ strong[p] # 0
        BY <3>4, <4>1 DEF Graph, SourcesOK
      <4>3. tensor'[t] = "taken"
        BY <1>2, <4>2 DEF Types
      <4>4. BlockOf(source[p])' = BlockOf(t)
        BY <1>5, <3>1, <4>1 DEF BlockOf
      <4> QED BY <3>1, <3>2, <3>4, <4>1, <4>2, <4>3, <4>4
    <3> QED BY <3>3, <3>4
  <2> QED BY <2>1, <2>2
<1>10. Acyclic'
  <2>1. PICK age \in [Raws -> Nat] :
          \A q, p \in Raws : StandsOn(q, p) => age[p] < age[q]
    BY DEF Graph, Acyclic
  <2> DEFINE new == [age EXCEPT ![r] = IF of[m] \in Raws THEN age[of[m]] + 1 ELSE 0]
  <2>2. new \in [Raws -> Nat]
    OBVIOUS
  <2>3. ASSUME NEW q \in Raws, NEW p \in Raws, StandsOn(q, p)'
        PROVE  new[p] < new[q]
    <3>1. source'[q] # NoTensor /\ of[source'[q]] = p
      BY <1>2, <2>3 DEF StandsOn
    <3>2. p # r
      <4>1. source'[q] \in Tensors
        BY <1>1, <3>1 DEF Types
      <4> QED BY <1>3, <3>1, <4>1
    <3>3. CASE q = r
      <4>1. of[m] = p
        BY <1>6, <3>1, <3>3
      <4> QED BY <3>2, <3>3, <4>1
    <3>4. CASE q # r
      <4>1. StandsOn(q, p)
        BY <1>7, <3>1, <3>4 DEF StandsOn
      <4> QED BY <2>1, <3>2, <3>4, <4>1
    <3> QED BY <3>3, <3>4
  <2> HIDE DEF new
  <2> QED BY <2>2, <2>3 DEF Acyclic
<1> QED BY <1>8, <1>9, <1>10 DEF Graph

LEMMA GraphNext ==
  ASSUME Types, Types', CountsHolders, CountsHolders', StagesOK, Graph, Next
  PROVE  Graph'
<1>1. ASSUME NEW b \in Buffers, NEW r \in Raws, NEW n \in 0..MaxLen, NEW v, Fresh(b, r, n, v)
      PROVE  Graph'
  <2>1. /\ strong[r] = 0 /\ strong' = [strong EXCEPT ![r] = 1]
        /\ UNCHANGED <<source, ptr, tensorVars>>
    BY <1>1 DEF Fresh, Alloc
  <2>2. \A q \in Raws : strong'[q] = 0 => strong[q] = 0
    BY <2>1
  <2> QED BY <2>1, <2>2, GraphKept
<1>2. ASSUME NEW a \in Buffers, NEW b \in Buffers, NEW l \in Layouts, NEW w \in BOOLEAN,
             AnyView(a, b, l, w)
      PROVE  Graph'
  <2>1. /\ strong' = [strong EXCEPT ![raw[a]] = @ + 1]
        /\ UNCHANGED <<source, ptr, tensorVars>>
    BY <1>2 DEF AnyView, View, Clone
  <2>2. \A q \in Raws : strong'[q] = 0 => strong[q] = 0
    BY <2>1, CountsMean DEF Types
  <2> QED BY <2>1, <2>2, GraphKept
<1>3. ASSUME NEW b \in Buffers, Quiet(b) \/ CopyElement(b) \/ WriteElement(b)
      PROVE  Graph'
  <2>1. UNCHANGED <<strong, source, ptr, tensorVars>>
    BY <1>3 DEF Quiet, SetWriteable, MakeUnique, BeginWrite, CopyFails, EndWrite,
                CopyElement, WriteElement, rawVars
  <2> QED BY <2>1, GraphKept
<1>4. ASSUME NEW b \in Buffers, DropBuffer(b)
      PROVE  Graph'
  <2>1. raw[b] \in Raws
    BY <1>4 DEF DropBuffer, Idle, Exists, Types
  <2>2. /\ strong' = Dropped(raw[b]) /\ tensor' = Dying(raw[b], tensor) /\ Forget(raw[b])
        /\ UNCHANGED <<of, shown>>
    BY <1>4 DEF DropBuffer
  <2>3. /\ strong'[raw[b]] = strong[raw[b]] - 1
        /\ \A r \in Raws \ {raw[b]} : strong'[r] = 0 => strong[r] = 0
    BY <2>1, <2>2 DEF Dropped, Types
  <2> QED BY <2>1, <2>2, <2>3, GraphReleased
<1>5. ASSUME NEW b \in Buffers, Replace(b)
      PROVE  Graph'
  <2>1. raw[b] \in Raws
    BY <1>5, RunsOn DEF Replace, Copying
  <2>2. PICK r \in Raws : strong[r] = 0 /\ strong' = [Dropped(raw[b]) EXCEPT ![r] = 1]
    BY <1>5 DEF Replace
  <2>3. tensor' = Dying(raw[b], tensor) /\ Forget(raw[b]) /\ UNCHANGED <<of, shown>>
    BY <1>5 DEF Replace
  <2>4. raw[b] # r
    BY <2>1, <2>2, CountsMean
  <2>5. /\ strong'[raw[b]] = strong[raw[b]] - 1
        /\ \A q \in Raws \ {raw[b]} : strong'[q] = 0 => strong[q] = 0
    BY <2>1, <2>2, <2>4 DEF Dropped, Types
  <2> QED BY <2>1, <2>3, <2>5, GraphReleased
<1>6. ASSUME NEW m \in Tensors, Offer(m)
      PROVE  Graph'
  <2>1. /\ tensor[m] = "none" /\ tensor' = [tensor EXCEPT ![m] = "out"] /\ of' = of
        /\ shown' = [shown EXCEPT ![m] = [block |-> m, at |-> 1, len |-> MaxLen, stride |-> 1]]
        /\ UNCHANGED <<strong, source, ptr>>
    BY <1>6 DEF Offer, rawVars
  <2>2. of[m] = NoRaw /\ tensor'[m] = "out"
    BY <2>1 DEF Graph, TensorsOK, Types
  <2>3. shown'[m].block = BlockOf(m)'
    BY <2>1, <2>2 DEF BlockOf, Types
  <2>4. \A t \in Tensors \ {m} :
          tensor'[t] = tensor[t] /\ of'[t] = of[t] /\ shown'[t] = shown[t]
    BY <2>1 DEF Types
  <2> QED BY <2>1, <2>2, <2>3, <2>4, GraphTouched
<1>7. ASSUME NEW m \in Tensors, Deleter(m)
      PROVE  Graph'
  <2>1. /\ tensor[m] \in {"out", "dying"}
        /\ of' = [of EXCEPT ![m] = NoRaw] /\ shown' = [shown EXCEPT ![m] = Nothing(m)]
    BY <1>7 DEF Deleter
  <2>2. of'[m] = NoRaw /\ shown'[m].len = 0
    BY <2>1 DEF Types, Nothing
  <2>3. \A t \in Tensors \ {m} : of'[t] = of[t] /\ shown'[t] = shown[t]
    BY <2>1 DEF Types
  <2>4. CASE of[m] = NoRaw
    <3>1. tensor' = [tensor EXCEPT ![m] = "none"] /\ UNCHANGED <<strong, source, ptr>>
      BY <1>7, <2>4 DEF Deleter, rawVars
    <3>2. tensor'[m] = "none" /\ \A t \in Tensors \ {m} : tensor'[t] = tensor[t]
      BY <3>1 DEF Types
    <3> QED BY <2>1, <2>2, <2>3, <3>1, <3>2, GraphTouched
  <2>5. CASE of[m] # NoRaw
    <3> DEFINE T == [tensor EXCEPT ![m] = "none"]
    <3>1. of[m] \in Raws
      BY <2>5 DEF Types
    <3>2. strong' = Dropped(of[m]) /\ tensor' = Dying(of[m], T) /\ Forget(of[m])
      BY <1>7, <2>5 DEF Deleter
    <3>3. T[m] = "none" /\ \A t \in Tensors \ {m} : T[t] = tensor[t]
      BY DEF Types
    <3>4. /\ strong'[of[m]] = strong[of[m]] - 1
          /\ \A r \in Raws \ {of[m]} : strong'[r] = 0 => strong[r] = 0
      BY <3>1, <3>2 DEF Dropped, Types
    <3> HIDE DEF T
    <3> QED BY <2>1, <2>2, <2>3, <3>1, <3>2, <3>3, <3>4, GraphReleased
  <2> QED BY <2>4, <2>5
<1>8. ASSUME NEW m \in Tensors, NEW b \in Buffers, ToDlpack(b, m)
      PROVE  Graph'
  <2>1. /\ tensor[m] = "none" /\ tensor' = [tensor EXCEPT ![m] = "out"]
        /\ raw[b] \in Raws /\ of' = [of EXCEPT ![m] = raw[b]]
        /\ shown' = [shown EXCEPT ![m] = [block |-> ptr[raw[b]].block,
                                          at |-> ptr[raw[b]].at + layout[b].off,
                                          len |-> layout[b].len, stride |-> layout[b].stride]]
        /\ UNCHANGED <<source, ptr>>
    BY <1>8 DEF ToDlpack, Idle, Exists, Types
  <2>2. tensor'[m] = "out" /\ of'[m] = raw[b] /\ shown'[m].block = ptr[raw[b]].block
    BY <2>1 DEF Types
  <2>3. shown'[m].block = BlockOf(m)'
    BY <2>1, <2>2, Names DEF BlockOf
  <2>4. \A t \in Tensors \ {m} :
          tensor'[t] = tensor[t] /\ of'[t] = of[t] /\ shown'[t] = shown[t]
    BY <2>1 DEF Types
  <2>5. \A q \in Raws : strong'[q] = 0 => strong[q] = 0
    BY <1>8, CountsMean DEF ToDlpack, Clone, Types
  <2> QED BY <2>1, <2>2, <2>3, <2>4, <2>5, GraphTouched
<1>9. ASSUME NEW m \in Tensors, NEW b \in Buffers, FromDlpack(b, m)
      PROVE  Graph'
  BY <1>9, GraphTaken
<1> QED BY <1>1, <1>2, <1>3, <1>4, <1>5, <1>6, <1>7, <1>8, <1>9, StepsAre

-------------------------------------------------------------------------------
(* The shape of the state                                                    *)

LEMMA ShapeInit ==
  ASSUME Init
  PROVE  Shape
<1>1. 0 \in 0..MaxLen /\ <<>> \in Seq(Values)
  BY Names
<1>2. Contiguous(0) \in Layouts
  BY <1>1, ContiguousType
<1>3. Types
  BY <1>1, <1>2, Names, NothingType DEF Init, Types, Stages
<1>4. CountsHolders
  <2>1. \A r \in Raws : BuffersOf(r) = {} /\ TensorsOf(r) = {}
    BY Names DEF Init, BuffersOf, TensorsOf
  <2>2. Cardinality({}) = 0
    BY FS_EmptySet
  <2>3. ASSUME NEW r \in Raws
        PROVE  strong[r] = Cardinality(BuffersOf(r)) + Cardinality(TensorsOf(r))
    <3>1. strong[r] = 0
      BY DEF Init
    <3> QED BY <2>1, <2>2, <3>1
  <2> QED BY <2>3 DEF CountsHolders
<1>5. StagesOK
  BY NoElements, Names DEF Init, StagesOK, Exists, Copying, Contiguous
<1>6. TensorsOK
  BY DEF Init, TensorsOK, Nothing
<1>7. SourcesOK
  BY DEF Init, SourcesOK
<1>8. Acyclic
  <2> DEFINE age == [r \in Raws |-> 0]
  <2>1. age \in [Raws -> Nat] /\ \A r, q \in Raws : ~StandsOn(r, q)
    BY DEF Init, StandsOn
  <2> QED BY <2>1 DEF Acyclic
<1> QED BY <1>3, <1>4, <1>5, <1>6, <1>7, <1>8 DEF Shape, Graph

LEMMA ShapeNext ==
  ASSUME Shape, [Next]_vars
  PROVE  Shape'
<1>1. CASE Next
  <2>1. Types'
    BY <1>1, TypesNext DEF Shape
  <2>2. CountsHolders'
    BY <1>1, CountsNext DEF Shape, Graph
  <2>3. StagesOK'
    BY <1>1, StagesNext DEF Shape
  <2>4. Graph'
    BY <1>1, <2>1, <2>2, GraphNext DEF Shape
  <2> QED BY <2>1, <2>2, <2>3, <2>4 DEF Shape
<1>2. CASE UNCHANGED vars
  <2>1. /\ UNCHANGED <<raw, layout, writeable, stage, copied>> /\ UNCHANGED mem
        /\ UNCHANGED <<strong, source, ptr, tensorVars>>
    BY <1>2 DEF vars, bufferVars, rawVars
  <2>2. Types'
    BY <2>1 DEF Shape, Types, tensorVars
  <2>3. CountsHolders'
    BY <2>1, CountsKept DEF Shape, tensorVars
  <2>4. StagesOK'
    BY <2>1, StagesAre, StagesAreNext DEF Shape
  <2>5. Graph'
    BY <2>1, GraphKept DEF Shape
  <2> QED BY <2>2, <2>3, <2>4, <2>5 DEF Shape
<1> QED BY <1>1, <1>2

\* The inductive invariant holds of every state: counts, stages of the methods that run,
\* and the graph of Buffers, RawBuffers and tensors that keep each other alive.
THEOREM ShapeAlways == Spec => []Shape
BY ShapeInit, ShapeNext, PTL DEF Spec

\* Every Buffer, RawBuffer and tensor is typed; above all no Arc count of a RawBuffer
\* falls below zero, as a second drop of an Arc would make it (buffer.rs:107, 271).
THEOREM TypeCorrect == Spec => []TypeOK
<1>1. Shape => TypeOK
  <2> SUFFICES ASSUME Shape PROVE TypeOK
    OBVIOUS
  <2>1. strong \in [Raws -> Nat]
    BY CountsMean DEF Shape, Types
  <2> QED BY <2>1 DEF Shape, Types, Stages, TypeOK
<1> QED BY <1>1, ShapeAlways, PTL

\* The Arc count make_unique reads is the number of Buffers and exported tensors on the
\* RawBuffer, through every view, copy, import, export and drop (buffer.rs:773).
THEOREM Counts == Spec => []CountsHolders
<1>1. Shape => CountsHolders
  BY DEF Shape
<1> QED BY <1>1, ShapeAlways, PTL

-------------------------------------------------------------------------------
(* Memory                                                                    *)

\* A block is allocated while its RawBuffer lives or the stranger's tensor exists.
Allocated(k) ==
  \/ k \in Raws /\ strong[k] # 0 /\ source[k] = NoTensor
  \/ k \in Tensors /\ of[k] = NoRaw /\ tensor[k] # "none"

\* What a Buffer or a consumer looks at is allocated.
Alive ==
  /\ \A r \in Raws : strong[r] # 0 => Allocated(ptr[r].block)
  /\ \A m \in Tensors : tensor[m] = "out" => Allocated(shown[m].block)

Less == {ss \in Nat \X Nat : ss[1] < ss[2]}

LEMMA LessWellFounded ==
  IsWellFoundedOn(Less, Nat)
BY NatLessThanWellFounded DEF OpToRel, Less

LEMMA Least ==
  ASSUME NEW N \in SUBSET Nat, N # {}
  PROVE  \E n \in N : \A k \in N : n <= k
<1>1. PICK n \in N : \A k \in N : ~(<<k, n>> \in Less)
  BY LessWellFounded, WFMin
<1>2. \A k \in N : ~(k < n)
  BY <1>1 DEF Less
<1> QED BY <1>2

\* However often exports were imported again, at the bottom is an allocated block.
LEMMA ShapeAlive ==
  ASSUME Shape
  PROVE  Alive
<1>1. PICK age \in [Raws -> Nat] :
        \A r, q \in Raws : StandsOn(r, q) => age[q] < age[r]
  BY DEF Shape, Graph, Acyclic
<1> DEFINE Lost == {r \in Raws : strong[r] # 0 /\ ~Allocated(ptr[r].block)}
<1>2. ASSUME NEW r \in Lost
      PROVE  \E q \in Lost : age[q] < age[r]
  <2>1. r \in Raws /\ strong[r] # 0 /\ ~Allocated(ptr[r].block)
    BY <1>2
  <2>2. source[r] # NoTensor
    <3> SUFFICES ASSUME source[r] = NoTensor PROVE FALSE
      OBVIOUS
    <3>1. ptr[r] = [block |-> r, at |-> 1]
      BY <2>1 DEF Shape, Graph, SourcesOK
    <3>2. ptr[r].block = r
      BY <3>1
    <3> QED BY <2>1, <3>2 DEF Allocated
  <2>3. PICK m \in Tensors : m = source[r]
    BY <2>1, <2>2 DEF Shape, Types
  <2>4. tensor[m] = "taken" /\ ptr[r].block = BlockOf(m)
    BY <2>1, <2>2, <2>3 DEF Shape, Graph, SourcesOK
  <2>5. of[m] # NoRaw
    <3> SUFFICES ASSUME of[m] = NoRaw PROVE FALSE
      OBVIOUS
    <3>1. ptr[r].block = m
      BY <2>4 DEF BlockOf
    <3> QED BY <2>1, <2>4, <3>1 DEF Allocated
  <2>6. of[m] \in Raws
    BY <2>5 DEF Shape, Types
  <2>7. strong[of[m]] >= 1
    BY <2>6, CountsMean DEF Shape
  <2>8. ptr[of[m]].block = ptr[r].block
    BY <2>4, <2>5 DEF BlockOf
  <2>9. of[m] \in Lost
    BY <2>1, <2>6, <2>7, <2>8
  <2>10. age[of[m]] < age[r]
    BY <1>1, <2>1, <2>2, <2>3, <2>6 DEF StandsOn
  <2> QED BY <2>9, <2>10
<1>3. Lost = {}
  <2> SUFFICES ASSUME Lost # {} PROVE FALSE
    OBVIOUS
  <2> DEFINE Ages == {age[r] : r \in Lost}
  <2>1. Ages \in SUBSET Nat /\ Ages # {}
    OBVIOUS
  <2>2. PICK n \in Ages : \A k \in Ages : n <= k
    BY <2>1, Least
  <2>3. PICK r \in Lost : age[r] = n
    OBVIOUS
  <2>4. PICK q \in Lost : age[q] < age[r]
    BY <1>2
  <2>5. age[q] \in Ages /\ age[q] \in Nat /\ n \in Nat
    BY <2>1
  <2> HIDE DEF Ages, Lost
  <2>6. n <= age[q]
    BY <2>2, <2>5
  <2> QED BY <2>3, <2>4, <2>5, <2>6
<1>4. ASSUME NEW m \in Tensors, tensor[m] = "out"
      PROVE  Allocated(shown[m].block)
  <2>1. shown[m].block = BlockOf(m)
    BY <1>4 DEF Shape, Graph, TensorsOK
  <2>2. CASE of[m] = NoRaw
    BY <1>4, <2>1, <2>2 DEF BlockOf, Allocated
  <2>3. CASE of[m] # NoRaw
    <3>1. of[m] \in Raws
      BY <2>3 DEF Shape, Types
    <3>2. strong[of[m]] >= 1
      BY <3>1, CountsMean DEF Shape
    <3> QED BY <1>3, <2>1, <2>3, <3>1, <3>2 DEF BlockOf
  <2> QED BY <2>2, <2>3
<1> QED BY <1>3, <1>4 DEF Alive

\* Only a writer changes a block that is allocated before and after a step.
LEMMA MemoryKept ==
  ASSUME Types, StagesOK, Next, \A b \in Buffers : ~WriteElement(b)
  PROVE  \A k \in Blocks : Allocated(k) /\ Allocated(k)' => mem'[k] = mem[k]
<1> SUFFICES ASSUME NEW k \in Blocks, Allocated(k), Allocated(k)'
             PROVE  mem'[k] = mem[k]
  OBVIOUS
<1> USE DEF Allocated
<1>1. ASSUME NEW x \in Raws, k # x \/ ~Last(x) \/ source[x] # NoTensor
      PROVE  Freed(x)[k] = mem[k]
  BY <1>1 DEF Freed, Types
<1>2. ASSUME NEW b \in Buffers, NEW r \in Raws, NEW n \in 0..MaxLen, NEW v, Fresh(b, r, n, v)
      PROVE  mem'[k] = mem[k]
  BY <1>2, Names DEF Fresh, Alloc, Types
<1>3. ASSUME NEW a \in Buffers, NEW b \in Buffers, NEW l \in Layouts, NEW w \in BOOLEAN,
             AnyView(a, b, l, w)
      PROVE  mem'[k] = mem[k]
  BY <1>3 DEF AnyView, View
<1>4. ASSUME NEW b \in Buffers, Quiet(b) \/ CopyElement(b)
      PROVE  mem'[k] = mem[k]
  BY <1>4 DEF Quiet, SetWriteable, MakeUnique, BeginWrite, CopyFails, EndWrite, CopyElement
<1>6. ASSUME NEW b \in Buffers, DropBuffer(b)
      PROVE  mem'[k] = mem[k]
  <2>1. raw[b] \in Raws
    BY <1>6 DEF DropBuffer, Idle, Exists, Types
  <2>2. strong' = Dropped(raw[b]) /\ mem' = Freed(raw[b])
    BY <1>6 DEF DropBuffer
  <2>3. strong'[raw[b]] = strong[raw[b]] - 1
    BY <2>1, <2>2 DEF Dropped, Types
  <2>4. k # raw[b] \/ ~Last(raw[b])
    BY <2>1, <2>3, Names DEF Last
  <2> QED BY <1>1, <2>1, <2>2, <2>3, <2>4
<1>7. ASSUME NEW b \in Buffers, Replace(b)
      PROVE  mem'[k] = mem[k]
  <2>1. raw[b] \in Raws
    BY <1>7, RunsOn DEF Replace, Copying
  <2>2. PICK r \in Raws : /\ strong[r] = 0 /\ strong' = [Dropped(raw[b]) EXCEPT ![r] = 1]
                          /\ mem' = [Freed(raw[b]) EXCEPT ![r] = copied[b]]
    BY <1>7 DEF Replace
  <2>3. k # r
    BY <2>2, Names
  <2>4. k # raw[b] \/ ~Last(raw[b]) \/ source[raw[b]] # NoTensor
    BY <2>1, <2>2, <2>3, Names DEF Last, Dropped, Types
  <2>5. Freed(raw[b])[k] = mem[k]
    BY <1>1, <2>1, <2>4
  <2> QED BY <2>2, <2>3, <2>5 DEF Freed, Types
<1>8. ASSUME NEW m \in Tensors, Offer(m)
      PROVE  mem'[k] = mem[k]
  BY <1>8, Names DEF Offer, Types
<1>9. ASSUME NEW m \in Tensors, Deleter(m)
      PROVE  mem'[k] = mem[k]
  <2>1. CASE of[m] = NoRaw
    BY <1>9, <2>1, Names DEF Deleter, Types
  <2>2. CASE of[m] # NoRaw
    <3>1. of[m] \in Raws
      BY <2>2 DEF Types
    <3>2. strong' = Dropped(of[m]) /\ mem' = Freed(of[m])
      BY <1>9, <2>2 DEF Deleter
    <3>3. strong'[of[m]] = strong[of[m]] - 1
      BY <3>1, <3>2 DEF Dropped, Types
    <3>4. k # of[m] \/ ~Last(of[m])
      BY <3>1, <3>3, Names DEF Last
    <3> QED BY <1>1, <3>1, <3>2, <3>3, <3>4
  <2> QED BY <2>1, <2>2
<1>10. ASSUME NEW m \in Tensors, NEW b \in Buffers, ToDlpack(b, m) \/ FromDlpack(b, m)
      PROVE  mem'[k] = mem[k]
  BY <1>10 DEF ToDlpack, FromDlpack
<1> QED BY <1>2, <1>3, <1>4, <1>6, <1>7, <1>8, <1>9, <1>10, StepsAre

\* No step changes the length of such a block.
LEMMA LengthKept ==
  ASSUME Types, StagesOK, Next
  PROVE  \A k \in Blocks : Allocated(k) /\ Allocated(k)' => DOMAIN mem'[k] = DOMAIN mem[k]
BY MemoryKept, WriteKeeps

\* No RawBuffer that lives on moves.
LEMMA PlaceKept ==
  ASSUME Types, StagesOK, Next
  PROVE  \A r \in Raws : strong[r] # 0 /\ strong'[r] # 0 => ptr'[r] = ptr[r]
<1> SUFFICES ASSUME NEW r \in Raws, strong[r] # 0, strong'[r] # 0
             PROVE  ptr'[r] = ptr[r]
  OBVIOUS
<1>1. ASSUME NEW b \in Buffers, NEW q \in Raws, NEW n \in 0..MaxLen, NEW v, Fresh(b, q, n, v)
      PROVE  ptr'[r] = ptr[r]
  BY <1>1 DEF Fresh
<1>2. ASSUME NEW a \in Buffers, NEW b \in Buffers, NEW l \in Layouts, NEW w \in BOOLEAN,
             AnyView(a, b, l, w)
      PROVE  ptr'[r] = ptr[r]
  BY <1>2 DEF AnyView, View
<1>3. ASSUME NEW b \in Buffers, Quiet(b) \/ CopyElement(b) \/ WriteElement(b)
      PROVE  ptr'[r] = ptr[r]
  BY <1>3 DEF Quiet, SetWriteable, MakeUnique, BeginWrite, CopyFails, EndWrite,
              CopyElement, WriteElement, rawVars
<1>4. ASSUME NEW x \in Raws, Forget(x), r # x \/ ~Last(x)
      PROVE  ptr'[r] = ptr[r]
  BY <1>4 DEF Forget, Types
<1>5. ASSUME NEW b \in Buffers, DropBuffer(b)
      PROVE  ptr'[r] = ptr[r]
  <2>1. raw[b] \in Raws
    BY <1>5 DEF DropBuffer, Idle, Exists, Types
  <2>2. r # raw[b] \/ ~Last(raw[b])
    BY <1>5, <2>1 DEF DropBuffer, Dropped, Last, Types
  <2> QED BY <1>4, <1>5, <2>1, <2>2 DEF DropBuffer
<1>6. ASSUME NEW b \in Buffers, Replace(b)
      PROVE  ptr'[r] = ptr[r]
  <2>1. raw[b] \in Raws
    BY <1>6, RunsOn DEF Replace, Copying
  <2>2. PICK q \in Raws : strong[q] = 0 /\ strong' = [Dropped(raw[b]) EXCEPT ![q] = 1]
    BY <1>6 DEF Replace
  <2>3. r # q
    BY <2>2
  <2>4. r # raw[b] \/ ~Last(raw[b])
    BY <2>1, <2>2, <2>3 DEF Dropped, Last, Types
  <2> QED BY <1>4, <1>6, <2>1, <2>4 DEF Replace
<1>7. ASSUME NEW m \in Tensors, Offer(m)
      PROVE  ptr'[r] = ptr[r]
  BY <1>7 DEF Offer, rawVars
<1>8. ASSUME NEW m \in Tensors, Deleter(m)
      PROVE  ptr'[r] = ptr[r]
  <2>1. CASE of[m] = NoRaw
    BY <1>8, <2>1 DEF Deleter, rawVars
  <2>2. CASE of[m] # NoRaw
    <3>1. of[m] \in Raws
      BY <2>2 DEF Types
    <3>2. r # of[m] \/ ~Last(of[m])
      BY <1>8, <2>2, <3>1 DEF Deleter, Dropped, Last, Types
    <3> QED BY <1>4, <1>8, <2>2, <3>1, <3>2 DEF Deleter
  <2> QED BY <2>1, <2>2
<1>9. ASSUME NEW m \in Tensors, NEW b \in Buffers, ToDlpack(b, m)
      PROVE  ptr'[r] = ptr[r]
  BY <1>9 DEF ToDlpack
<1>10. ASSUME NEW m \in Tensors, NEW b \in Buffers, FromDlpack(b, m)
      PROVE  ptr'[r] = ptr[r]
  BY <1>10 DEF FromDlpack, Types
<1> QED BY <1>1, <1>2, <1>3, <1>5, <1>6, <1>7, <1>8, <1>9, <1>10, StepsAre

BufferInMemory(b) ==
  \A i \in 1..layout[b].len :
    Address(raw[b], layout[b], i) \in DOMAIN mem[ptr[raw[b]].block]
TensorInMemory(m) ==
  \A i \in 1..shown[m].len :
    shown[m].at + (i - 1) * shown[m].stride \in DOMAIN mem[shown[m].block]

LEMMA Nowhere ==
  1..0 = {}
OBVIOUS

\* A Buffer that a step does not touch keeps its elements.
LEMMA BufferKept ==
  ASSUME Shape, Shape', Alive, Alive', Next, NEW b \in Buffers,
         raw'[b] = raw[b], layout'[b] = layout[b], BufferInMemory(b)
  PROVE  BufferInMemory(b)'
<1>1. CASE raw[b] = NoRaw
  <2>1. layout'[b].len = 0
    BY <1>1 DEF Shape, StagesOK, Exists
  <2> QED BY <2>1, Nowhere DEF BufferInMemory
<1>2. CASE raw[b] # NoRaw
  <2>1. PICK r \in Raws : r = raw[b] /\ r = raw'[b]
    BY <1>2 DEF Shape, Types
  <2>2. strong[r] # 0 /\ strong'[r] # 0
    BY <2>1, CountsMean, CountsMeanNext DEF Shape
  <2>3. ptr'[r] = ptr[r]
    BY <2>1, <2>2, PlaceKept DEF Shape
  <2>4. PICK k : k = ptr[r].block /\ k = ptr'[r].block
    BY <2>3
  <2>5. k \in Blocks
    BY <2>4 DEF Shape, Types
  <2>6. Allocated(k)
    BY <2>2, <2>4 DEF Alive
  <2>7. Allocated(k)'
    BY <2>2, <2>4 DEF Alive, Allocated
  <2>8. DOMAIN mem'[k] = DOMAIN mem[k]
    BY <2>5, <2>6, <2>7, LengthKept DEF Shape
  <2> QED BY <2>1, <2>3, <2>4, <2>8 DEF BufferInMemory, Address
<1> QED BY <1>1, <1>2

\* So does a tensor.
LEMMA TensorKept ==
  ASSUME Shape, Shape', Alive, Alive', Next, NEW m \in Tensors,
         shown'[m] = shown[m], TensorInMemory(m)
  PROVE  TensorInMemory(m)'
<1>1. CASE tensor[m] # "out" \/ tensor'[m] # "out"
  <2>1. shown'[m].len = 0
    BY <1>1 DEF Shape, Graph, TensorsOK
  <2> QED BY <2>1, Nowhere DEF TensorInMemory
<1>2. CASE tensor[m] = "out" /\ tensor'[m] = "out"
  <2>1. PICK k : k = shown[m].block /\ k = shown'[m].block
    OBVIOUS
  <2>2. k \in Blocks
    BY <2>1 DEF Shape, Types
  <2>3. Allocated(k)
    BY <1>2, <2>1 DEF Alive
  <2>4. Allocated(k)'
    BY <1>2, <2>1 DEF Alive, Allocated
  <2>5. DOMAIN mem'[k] = DOMAIN mem[k]
    BY <2>2, <2>3, <2>4, LengthKept DEF Shape
  <2> QED BY <2>1, <2>5 DEF TensorInMemory
<1> QED BY <1>1, <1>2

\* A RawBuffer that is gone starts at its own block.
LEMMA OwnPlace ==
  ASSUME Shape, NEW r \in Raws, strong[r] = 0
  PROVE  ptr[r] = [block |-> r, at |-> 1]
BY DEF Shape, Graph, SourcesOK

\* A Buffer on new memory has it all.
LEMMA NewInMemory ==
  ASSUME NEW b \in Buffers, NEW r \in Raws, NEW n \in Nat, NEW v,
         raw'[b] = r, layout'[b] = Contiguous(n), ptr'[r] = [block |-> r, at |-> 1],
         mem'[r] = v, DOMAIN v = 1..n
  PROVE  BufferInMemory(b)'
<1> SUFFICES ASSUME NEW i \in 1..layout'[b].len
             PROVE  ptr'[raw'[b]].at + layout'[b].off + (i - 1) * layout'[b].stride
                      \in DOMAIN mem'[ptr'[raw'[b]].block]
  BY DEF BufferInMemory, Address
<1>1. layout'[b].len = n /\ layout'[b].off = 0 /\ layout'[b].stride = 1
  BY DEF Contiguous
<1>2. i \in 1..n /\ 1 + 0 + (i - 1) * 1 = i
  BY <1>1
<1> QED BY <1>1, <1>2

LEMMA MemoryNext ==
  ASSUME Shape, Shape', Alive, Alive', ViewsInMemory, Next
  PROVE  ViewsInMemory'
<1> USE DEF Shape
<1>1. /\ \A b \in Buffers : BufferInMemory(b)
      /\ \A m \in Tensors : TensorInMemory(m)
  BY DEF ViewsInMemory, BufferInMemory, TensorInMemory
<1>2. \A b \in Buffers : raw'[b] = raw[b] /\ layout'[b] = layout[b] => BufferInMemory(b)'
  BY <1>1, BufferKept
<1>3. \A m \in Tensors : shown'[m] = shown[m] => TensorInMemory(m)'
  BY <1>1, TensorKept
<1>4. ASSUME NEW b \in Buffers, BufferInMemory(b)', shown' = shown,
             \A a \in Buffers \ {b} : raw'[a] = raw[a] /\ layout'[a] = layout[a]
      PROVE  ViewsInMemory'
  <2>1. \A a \in Buffers : BufferInMemory(a)'
    BY <1>2, <1>4
  <2>2. \A m \in Tensors : TensorInMemory(m)'
    BY <1>3, <1>4
  <2> QED BY <2>1, <2>2 DEF ViewsInMemory, BufferInMemory, TensorInMemory
<1>5. ASSUME NEW m \in Tensors, TensorInMemory(m)', UNCHANGED <<raw, layout>>,
             \A t \in Tensors \ {m} : shown'[t] = shown[t]
      PROVE  ViewsInMemory'
  <2>1. \A a \in Buffers : BufferInMemory(a)'
    BY <1>2, <1>5
  <2>2. \A t \in Tensors : TensorInMemory(t)'
    BY <1>3, <1>5
  <2> QED BY <2>1, <2>2 DEF ViewsInMemory, BufferInMemory, TensorInMemory
<1>6. ASSUME NEW b \in Buffers, NEW r \in Raws, NEW n \in 0..MaxLen, NEW v, Fresh(b, r, n, v)
      PROVE  ViewsInMemory'
  <2>1. /\ raw' = [raw EXCEPT ![b] = r] /\ layout' = [layout EXCEPT ![b] = Contiguous(n)]
        /\ strong[r] = 0 /\ mem' = [mem EXCEPT ![r] = v] /\ v \in [1..n -> Values]
        /\ ptr' = ptr /\ shown' = shown
    BY <1>6 DEF Fresh, Alloc, Becomes, tensorVars
  <2>2. /\ raw'[b] = r /\ layout'[b] = Contiguous(n) /\ mem'[r] = v /\ DOMAIN v = 1..n
        /\ \A a \in Buffers \ {b} : raw'[a] = raw[a] /\ layout'[a] = layout[a]
    BY <2>1, Names DEF Types
  <2>3. ptr'[r] = [block |-> r, at |-> 1] /\ n \in Nat
    BY <2>1, OwnPlace
  <2>4. BufferInMemory(b)'
    BY <2>2, <2>3, NewInMemory
  <2> QED BY <1>4, <2>1, <2>2, <2>4
<1>7. ASSUME NEW a \in Buffers, NEW b \in Buffers, NEW l \in Layouts, NEW w \in BOOLEAN,
             AnyView(a, b, l, w)
      PROVE  ViewsInMemory'
  <2>1. /\ raw' = [raw EXCEPT ![b] = raw[a]] /\ layout' = [layout EXCEPT ![b] = l]
        /\ UNCHANGED <<ptr, mem, shown>> /\ raw[a] \in Raws /\ Within(l, layout[a])
    BY <1>7 DEF AnyView, View, Idle, Exists, Becomes, tensorVars, Types
  <2>2. /\ raw'[b] = raw[a] /\ layout'[b] = l
        /\ \A c \in Buffers \ {b} : raw'[c] = raw[c] /\ layout'[c] = layout[c]
    BY <2>1 DEF Types
  <2>3. BufferInMemory(b)'
    <3> DEFINE l0 == layout[a]
               p == ptr[raw[a]]
    <3>0. p \in [block : Blocks, at : Nat] /\ l0 \in Layouts
      BY <2>1 DEF Types
    <3>1. /\ p.at \in Nat /\ l.off \in Nat /\ l.stride \in Nat /\ l.len \in Nat
          /\ l0.off \in Nat /\ l0.stride \in Nat /\ l0.len \in Nat
      BY <3>0, Names DEF Layouts
    <3>2. \A j \in 1..l0.len : p.at + l0.off + (j - 1) * l0.stride \in DOMAIN mem[p.block]
      BY <1>1 DEF BufferInMemory, Address
    <3>3. ASSUME NEW i \in 1..l.len
          PROVE  p.at + l.off + (i - 1) * l.stride \in DOMAIN mem[p.block]
      <4>1. PICK j \in 1..l0.len : l.off + (i - 1) * l.stride = l0.off + (j - 1) * l0.stride
        BY <2>1 DEF Within
      <4> DEFINE x == (i - 1) * l.stride
                 y == (j - 1) * l0.stride
      <4>2. x \in Int /\ y \in Int
        BY <3>1
      <4>3. l.off + x = l0.off + y
        BY <4>1
      <4> HIDE DEF x, y, p, l0
      <4>4. p.at + l.off + x = p.at + l0.off + y
        BY <3>1, <4>2, <4>3
      <4>5. p.at + l0.off + y \in DOMAIN mem[p.block]
        BY <3>2 DEF y
      <4> QED BY <4>4, <4>5 DEF x
    <3> QED BY <2>1, <2>2, <3>3 DEF BufferInMemory, Address
  <2> QED BY <1>4, <2>1, <2>2, <2>3
<1>8. ASSUME NEW b \in Buffers, Quiet(b) \/ CopyElement(b) \/ WriteElement(b)
      PROVE  ViewsInMemory'
  <2>1. UNCHANGED <<raw, layout, shown>>
    BY <1>8 DEF Quiet, SetWriteable, MakeUnique, BeginWrite, CopyFails, EndWrite,
                CopyElement, WriteElement, bufferVars, tensorVars
  <2> QED BY <1>2, <1>4, <2>1
<1>9. ASSUME NEW b \in Buffers, DropBuffer(b)
      PROVE  ViewsInMemory'
  <2>1. /\ raw' = [raw EXCEPT ![b] = NoRaw] /\ layout' = [layout EXCEPT ![b] = Contiguous(0)]
        /\ shown' = shown
    BY <1>9 DEF DropBuffer, Becomes
  <2>2. /\ layout'[b].len = 0
        /\ \A a \in Buffers \ {b} : raw'[a] = raw[a] /\ layout'[a] = layout[a]
    BY <2>1 DEF Types, Contiguous
  <2>3. BufferInMemory(b)'
    BY <2>2, Nowhere DEF BufferInMemory
  <2> QED BY <1>4, <2>1, <2>2, <2>3
<1>10. ASSUME NEW b \in Buffers, Replace(b)
      PROVE  ViewsInMemory'
  <2>1. raw[b] \in Raws
    BY <1>10, RunsOn DEF Replace, Copying
  <2> DEFINE n == layout[b].len
  <2>2. PICK r \in Raws :
          /\ raw' = [raw EXCEPT ![b] = r] /\ layout' = [layout EXCEPT ![b] = Contiguous(n)]
          /\ strong[r] = 0 /\ mem' = [Freed(raw[b]) EXCEPT ![r] = copied[b]]
    BY <1>10 DEF Replace, Becomes
  <2>3. Len(copied[b]) = n /\ Forget(raw[b]) /\ shown' = shown
    BY <1>10 DEF Replace
  <2>4. r # raw[b]
    BY <2>1, <2>2, CountsMean
  <2>5. ptr'[r] = [block |-> r, at |-> 1]
    BY <2>2, <2>3, <2>4, OwnPlace DEF Forget, Types
  <2>6. mem'[r] = copied[b]
    BY <2>2, Names DEF Freed, Types
  <2>7. DOMAIN copied[b] = 1..n /\ n \in Nat
    <3>1. copied[b] \in Seq(Values) /\ n \in Nat
      BY Names DEF Types, Layouts
    <3> QED BY <2>3, <3>1
  <2>8. /\ raw'[b] = r /\ layout'[b] = Contiguous(n)
        /\ \A a \in Buffers \ {b} : raw'[a] = raw[a] /\ layout'[a] = layout[a]
    BY <2>2 DEF Types
  <2> HIDE DEF n
  <2>9. BufferInMemory(b)'
    BY <2>5, <2>6, <2>7, <2>8, NewInMemory
  <2> QED BY <1>4, <2>3, <2>8, <2>9
<1>11. ASSUME NEW m \in Tensors, Offer(m)
      PROVE  ViewsInMemory'
  <2>1. PICK v \in [1..MaxLen -> Values] : mem' = [mem EXCEPT ![m] = v]
    BY <1>11 DEF Offer
  <2>2. /\ shown' = [shown EXCEPT ![m] = [block |-> m, at |-> 1, len |-> MaxLen, stride |-> 1]]
        /\ UNCHANGED <<raw, layout>>
    BY <1>11 DEF Offer, bufferVars
  <2>3. /\ shown'[m].block = m /\ shown'[m].at = 1 /\ shown'[m].len = MaxLen
        /\ shown'[m].stride = 1
        /\ \A t \in Tensors \ {m} : shown'[t] = shown[t]
    BY <2>2 DEF Types
  <2>4. DOMAIN mem'[m] = 1..MaxLen
    BY <2>1, Names DEF Types
  <2>5. \A i \in 1..MaxLen : 1 + (i - 1) * 1 = i
    BY Names
  <2>6. TensorInMemory(m)'
    BY <2>3, <2>4, <2>5 DEF TensorInMemory
  <2> QED BY <1>5, <2>2, <2>3, <2>6
<1>12. ASSUME NEW m \in Tensors, Deleter(m)
      PROVE  ViewsInMemory'
  <2>1. shown' = [shown EXCEPT ![m] = Nothing(m)] /\ UNCHANGED <<raw, layout>>
    BY <1>12 DEF Deleter, bufferVars
  <2>2. shown'[m].len = 0 /\ \A t \in Tensors \ {m} : shown'[t] = shown[t]
    BY <2>1 DEF Nothing, Types
  <2>3. TensorInMemory(m)'
    BY <2>2, Nowhere DEF TensorInMemory
  <2> QED BY <1>5, <2>1, <2>2, <2>3
<1>13. ASSUME NEW m \in Tensors, NEW b \in Buffers, ToDlpack(b, m)
      PROVE  ViewsInMemory'
  <2>1. /\ shown' = [shown EXCEPT ![m] = [block |-> ptr[raw[b]].block,
                                          at |-> ptr[raw[b]].at + layout[b].off,
                                          len |-> layout[b].len, stride |-> layout[b].stride]]
        /\ UNCHANGED <<raw, layout, mem>>
    BY <1>13 DEF ToDlpack, bufferVars
  <2>2. /\ shown'[m].block = ptr[raw[b]].block /\ shown'[m].at = ptr[raw[b]].at + layout[b].off
        /\ shown'[m].len = layout[b].len /\ shown'[m].stride = layout[b].stride
        /\ \A t \in Tensors \ {m} : shown'[t] = shown[t]
    BY <2>1 DEF Types
  <2>3. TensorInMemory(m)'
    BY <1>1, <2>1, <2>2 DEF BufferInMemory, TensorInMemory, Address
  <2> QED BY <1>5, <2>1, <2>2, <2>3
<1>14. ASSUME NEW m \in Tensors, NEW b \in Buffers, FromDlpack(b, m)
      PROVE  ViewsInMemory'
  <2> DEFINE s == shown[m]
  <2>1. PICK r \in Raws :
          /\ raw' = [raw EXCEPT ![b] = r]
          /\ layout' = [layout EXCEPT ![b] = [off |-> 0, len |-> s.len, stride |-> s.stride]]
          /\ ptr' = [ptr EXCEPT ![r] = [block |-> s.block, at |-> s.at]]
    BY <1>14 DEF FromDlpack, Becomes
  <2>2. /\ shown' = [shown EXCEPT ![m] = Nothing(m)] /\ mem' = mem
    BY <1>14 DEF FromDlpack
  <2>3. shown'[m].len = 0 /\ \A t \in Tensors \ {m} : shown'[t] = shown[t]
    BY <2>2 DEF Nothing, Types
  <2>4. \A t \in Tensors : TensorInMemory(t)'
    BY <1>3, <2>3, Nowhere DEF TensorInMemory
  <2>5. /\ raw'[b] = r /\ layout'[b].off = 0 /\ layout'[b].len = s.len
        /\ layout'[b].stride = s.stride /\ ptr'[r].block = s.block /\ ptr'[r].at = s.at
        /\ \A a \in Buffers \ {b} : raw'[a] = raw[a] /\ layout'[a] = layout[a]
    BY <2>1 DEF Types
  <2>6. BufferInMemory(b)'
    <3>1. \A i \in 1..s.len : s.at + (i - 1) * s.stride \in DOMAIN mem[s.block]
      BY <1>1 DEF TensorInMemory
    <3>2. s.at \in Nat
      BY DEF Types
    <3> HIDE DEF s
    <3>3. s.at + 0 = s.at
      BY <3>2
    <3> QED BY <2>2, <2>5, <3>1, <3>3 DEF BufferInMemory, Address
  <2>7. \A a \in Buffers : BufferInMemory(a)'
    BY <1>2, <2>5, <2>6
  <2> QED BY <2>4, <2>7 DEF ViewsInMemory, BufferInMemory, TensorInMemory
<1> QED BY <1>6, <1>7, <1>8, <1>9, <1>10, <1>11, <1>12, <1>13, <1>14, StepsAre

\* Every element of every Buffer and of every tensor a consumer has lies in allocated
\* memory, however Buffers are sliced, exported, imported again and dropped in between.
THEOREM Memory == Spec => []ViewsInMemory
<1>1. Shape => Alive
  BY ShapeAlive
<1>2. Init => ViewsInMemory
  BY Nowhere DEF Init, ViewsInMemory, Contiguous, Nothing
<1>3. Shape /\ Shape' /\ Alive /\ Alive' /\ ViewsInMemory /\ [Next]_vars => ViewsInMemory'
  <2>1. ASSUME Shape, Shape', Alive, Alive', ViewsInMemory, Next
        PROVE  ViewsInMemory'
    BY <2>1, MemoryNext
  <2>2. ASSUME ViewsInMemory, UNCHANGED vars
        PROVE  ViewsInMemory'
    BY <2>2 DEF vars, bufferVars, rawVars, tensorVars, ViewsInMemory, Address
  <2> QED BY <2>1, <2>2
<1> QED BY <1>1, <1>2, <1>3, ShapeAlways, PTL DEF Spec

-------------------------------------------------------------------------------
(* Writers                                                                   *)

\* A writer is the only holder of its RawBuffer.
WriterSole == \A b \in Buffers : stage[b] = "write" => strong[raw[b]] = 1

\* No RawBuffer stands on an export of this library.
NoImports == \A m \in Tensors : tensor[m] \in {"taken", "dying"} => of[m] = NoRaw

\* While one thread writes to b, no step of another makes it share.
LEMMA WriterKept ==
  ASSUME Shape, Next, NEW b \in Buffers, stage[b] = "write", strong[raw[b]] = 1
  PROVE  raw'[b] = raw[b] /\ strong'[raw[b]] = 1
<1> USE DEF Shape
<1> DEFINE r == raw[b]
<1>1. /\ r \in Raws
      /\ \A a \in Buffers : raw[a] = r => a = b
      /\ \A m \in Tensors : of[m] # r
  BY RunsOn, SoleHolder
<1>2. ASSUME NEW a \in Buffers, NEW q \in Raws, NEW n \in 0..MaxLen, NEW v, Fresh(a, q, n, v)
      PROVE  raw'[b] = r /\ strong'[r] = 1
  <2>1. a # b /\ q # r
    BY <1>1, <1>2, Names DEF Fresh, Exists, Alloc
  <2> QED BY <1>1, <1>2, <2>1 DEF Fresh, Alloc, Becomes, Types
<1>3. ASSUME NEW c \in Buffers, NEW a \in Buffers, NEW l \in Layouts, NEW w \in BOOLEAN,
             AnyView(c, a, l, w)
      PROVE  raw'[b] = r /\ strong'[r] = 1
  <2>1. a # b /\ c # b
    BY <1>1, <1>3, Names DEF AnyView, View, Idle, Exists
  <2>2. raw[c] # r /\ raw[c] \in Raws
    BY <1>1, <1>3, <2>1 DEF AnyView, View, Idle, Exists, Types
  <2> QED BY <1>1, <1>3, <2>1, <2>2 DEF AnyView, View, Becomes, Clone, Types
<1>4. ASSUME NEW a \in Buffers, Quiet(a) \/ CopyElement(a) \/ WriteElement(a)
      PROVE  raw'[b] = r /\ strong'[r] = 1
  BY <1>4 DEF Quiet, SetWriteable, MakeUnique, BeginWrite, CopyFails, EndWrite,
              CopyElement, WriteElement, bufferVars, rawVars
<1>5. ASSUME NEW a \in Buffers, DropBuffer(a)
      PROVE  raw'[b] = r /\ strong'[r] = 1
  <2>1. a # b /\ raw[a] \in Raws
    BY <1>5 DEF DropBuffer, Idle, Exists, Types
  <2>2. raw[a] # r
    BY <1>1, <2>1
  <2> QED BY <1>1, <1>5, <2>1, <2>2 DEF DropBuffer, Becomes, Dropped, Types
<1>6. ASSUME NEW a \in Buffers, Replace(a)
      PROVE  raw'[b] = r /\ strong'[r] = 1
  <2>1. a # b /\ raw[a] \in Raws
    BY <1>6, RunsOn DEF Replace, Copying
  <2>2. raw[a] # r
    BY <1>1, <2>1
  <2>3. PICK q \in Raws : /\ strong[q] = 0 /\ raw' = [raw EXCEPT ![a] = q]
                          /\ strong' = [Dropped(raw[a]) EXCEPT ![q] = 1]
    BY <1>6 DEF Replace, Becomes
  <2> QED BY <1>1, <2>1, <2>2, <2>3 DEF Dropped, Types
<1>7. ASSUME NEW m \in Tensors, Offer(m)
      PROVE  raw'[b] = r /\ strong'[r] = 1
  BY <1>7 DEF Offer, bufferVars, rawVars
<1>8. ASSUME NEW m \in Tensors, Deleter(m)
      PROVE  raw'[b] = r /\ strong'[r] = 1
  <2>1. of[m] = NoRaw => UNCHANGED strong
    BY <1>8 DEF Deleter, rawVars
  <2>2. of[m] # NoRaw => of[m] \in Raws \ {r} /\ strong' = Dropped(of[m])
    BY <1>1, <1>8 DEF Deleter, Types
  <2>3. strong'[r] = 1
    BY <1>1, <2>1, <2>2 DEF Dropped, Types
  <2> QED BY <1>8, <2>3 DEF Deleter, bufferVars
<1>9. ASSUME NEW m \in Tensors, NEW a \in Buffers, ToDlpack(a, m)
      PROVE  raw'[b] = r /\ strong'[r] = 1
  <2>1. a # b /\ raw[a] \in Raws
    BY <1>9 DEF ToDlpack, Idle, Exists, Types
  <2>2. raw[a] # r
    BY <1>1, <2>1
  <2> QED BY <1>1, <1>9, <2>1, <2>2 DEF ToDlpack, Clone, Types, bufferVars
<1>10. ASSUME NEW m \in Tensors, NEW a \in Buffers, FromDlpack(a, m)
      PROVE  raw'[b] = r /\ strong'[r] = 1
  <2>1. a # b
    BY <1>1, <1>10, Names DEF FromDlpack, Exists
  <2>2. PICK q \in Raws : /\ strong[q] = 0 /\ strong' = [strong EXCEPT ![q] = 1]
                          /\ raw' = [raw EXCEPT ![a] = q]
    BY <1>10 DEF FromDlpack, Becomes
  <2> QED BY <1>1, <2>1, <2>2 DEF Types
<1> QED BY <1>2, <1>3, <1>4, <1>5, <1>6, <1>7, <1>8, <1>9, <1>10, StepsAre

LEMMA WriterSoleNext ==
  ASSUME Shape, WriterSole, Next
  PROVE  WriterSole'
<1> USE DEF Shape
<1> SUFFICES ASSUME NEW b \in Buffers, stage'[b] = "write"
             PROVE  strong'[raw'[b]] = 1
  BY DEF WriterSole
<1>1. CASE stage[b] = "write"
  BY <1>1, WriterKept DEF WriterSole
<1>2. CASE stage[b] # "write"
  <2>1. BeginWrite(b) \/ Replace(b)
    <3>1. ASSUME NEW a \in Buffers, NEW q \in Raws, NEW n \in 0..MaxLen, NEW v, Fresh(a, q, n, v)
          PROVE  FALSE
      BY <1>2, <3>1 DEF Fresh
    <3>2. ASSUME NEW c \in Buffers, NEW a \in Buffers, NEW l \in Layouts, NEW w \in BOOLEAN,
                 AnyView(c, a, l, w)
          PROVE  FALSE
      BY <1>2, <3>2 DEF AnyView, View
    <3>3. ASSUME NEW a \in Buffers,
                 Quiet(a) \/ CopyElement(a) \/ WriteElement(a) \/ DropBuffer(a) \/ Replace(a)
          PROVE  BeginWrite(b) \/ Replace(b)
      <4>1. BeginWrite(a) \/ Replace(a)
        BY <1>2, <3>3 DEF Quiet, SetWriteable, MakeUnique, CopyFails, EndWrite, CopyElement,
                          WriteElement, DropBuffer, bufferVars, Types
      <4>2. a = b
        BY <1>2, <4>1 DEF BeginWrite, Replace, Types
      <4> QED BY <4>1, <4>2
    <3>4. ASSUME NEW m \in Tensors,
                 Offer(m) \/ Deleter(m) \/ \E a \in Buffers : ToDlpack(a, m) \/ FromDlpack(a, m)
          PROVE  FALSE
      BY <1>2, <3>4 DEF Offer, Deleter, ToDlpack, FromDlpack, bufferVars
    <3> QED BY <3>1, <3>2, <3>3, <3>4, StepsAre
  <2>2. CASE BeginWrite(b)
    BY <1>2, <2>2 DEF BeginWrite, Sole, Types, rawVars
  <2>3. CASE Replace(b)
    <3>1. PICK q \in Raws : /\ raw' = [raw EXCEPT ![b] = q]
                            /\ strong' = [Dropped(raw[b]) EXCEPT ![q] = 1]
      BY <2>3 DEF Replace, Becomes
    <3> QED BY <3>1 DEF Dropped, Types
  <2> QED BY <2>1, <2>2, <2>3
<1> QED BY <1>1, <1>2

LEMMA NoImportsNext ==
  ASSUME ~SelfImport, Shape, NoImports, Next
  PROVE  NoImports'
<1> USE DEF Shape
<1>1. ASSUME UNCHANGED <<tensor, of>>
      PROVE  NoImports'
  BY <1>1 DEF NoImports
\* A RawBuffer that dies had taken its tensor, so no step makes an export die.
<1>2. ASSUME NEW x \in Raws, NEW T, tensor' = Dying(x, T),
             \A m \in Tensors : T[m] \in {"taken", "dying"} => T[m] = tensor[m],
             \A m \in Tensors : of'[m] \in {of[m], NoRaw}
      PROVE  NoImports'
  <2> SUFFICES ASSUME NEW m \in Tensors, tensor'[m] \in {"taken", "dying"}
               PROVE  of'[m] = NoRaw
    BY DEF NoImports
  <2>1. CASE m = source[x]
    BY <1>2, <2>1, Names DEF NoImports, Graph, SourcesOK
  <2>2. CASE m # source[x]
    BY <1>2, <2>2 DEF Dying, NoImports
  <2> QED BY <2>1, <2>2
<1>3. ASSUME NEW b \in Buffers, NEW r \in Raws, NEW n \in 0..MaxLen, NEW v, Fresh(b, r, n, v)
      PROVE  NoImports'
  BY <1>1, <1>3 DEF Fresh, tensorVars
<1>4. ASSUME NEW a \in Buffers, NEW b \in Buffers, NEW l \in Layouts, NEW w \in BOOLEAN,
             AnyView(a, b, l, w)
      PROVE  NoImports'
  BY <1>1, <1>4 DEF AnyView, View, tensorVars
<1>5. ASSUME NEW b \in Buffers, Quiet(b) \/ CopyElement(b) \/ WriteElement(b)
      PROVE  NoImports'
  BY <1>1, <1>5 DEF Quiet, SetWriteable, MakeUnique, BeginWrite, CopyFails, EndWrite,
              CopyElement, WriteElement, tensorVars
<1>6. ASSUME NEW b \in Buffers, DropBuffer(b) \/ Replace(b)
      PROVE  NoImports'
  <2>1. raw[b] \in Raws
    BY <1>6, RunsOn DEF DropBuffer, Idle, Exists, Replace, Copying, Types
  <2>2. tensor' = Dying(raw[b], tensor) /\ of' = of
    BY <1>6 DEF DropBuffer, Replace
  <2> QED BY <1>2, <2>1, <2>2
<1>7. ASSUME NEW m \in Tensors, Offer(m)
      PROVE  NoImports'
  BY <1>7 DEF Offer, NoImports, Types
<1>8. ASSUME NEW m \in Tensors, Deleter(m)
      PROVE  NoImports'
  <2>1. CASE of[m] = NoRaw
    BY <1>8, <2>1 DEF Deleter, NoImports, Types
  <2>2. CASE of[m] # NoRaw
    <3> DEFINE T == [tensor EXCEPT ![m] = "none"]
    <3>1. of[m] \in Raws /\ tensor' = Dying(of[m], T) /\ of' = [of EXCEPT ![m] = NoRaw]
      BY <1>8, <2>2 DEF Deleter, Types
    <3>2. \A t \in Tensors : of'[t] \in {of[t], NoRaw}
      BY <3>1 DEF Types
    <3>3. \A t \in Tensors : T[t] \in {"taken", "dying"} => T[t] = tensor[t]
      BY DEF Types
    <3> HIDE DEF T
    <3> QED BY <1>2, <3>1, <3>2, <3>3
  <2> QED BY <2>1, <2>2
<1>9. ASSUME NEW m \in Tensors, NEW b \in Buffers, ToDlpack(b, m)
      PROVE  NoImports'
  BY <1>9 DEF ToDlpack, NoImports, Types
<1>10. ASSUME NEW m \in Tensors, NEW b \in Buffers, FromDlpack(b, m)
      PROVE  NoImports'
  BY <1>10 DEF FromDlpack, NoImports, Types
<1> QED BY <1>3, <1>4, <1>5, <1>6, <1>7, <1>8, <1>9, <1>10, StepsAre

\* Without such imports a RawBuffer is on its own block or on the one of its tensor.
LEMMA BlockIs ==
  ASSUME Shape, NoImports, NEW r \in Raws
  PROVE  ptr[r].block = IF source[r] = NoTensor THEN r ELSE source[r]
<1>1. CASE source[r] = NoTensor
  <2>1. ptr[r] = [block |-> r, at |-> 1]
    BY <1>1 DEF Shape, Graph, SourcesOK
  <2> QED BY <1>1, <2>1
<1>2. CASE source[r] # NoTensor
  <2>1. PICK m \in Tensors : m = source[r]
    BY <1>2 DEF Shape, Types
  <2>2. tensor[m] = "taken" /\ ptr[r].block = BlockOf(m)
    BY <1>2, <2>1 DEF Shape, Graph, SourcesOK
  <2> QED BY <1>2, <2>1, <2>2 DEF NoImports, BlockOf
<1> QED BY <1>1, <1>2

\* Then no two RawBuffers are on the same block.
LEMMA BlocksDiffer ==
  ASSUME Shape, NoImports, NEW r \in Raws, NEW q \in Raws, ptr[r].block = ptr[q].block
  PROVE  r = q
<1>1. /\ ptr[r].block = IF source[r] = NoTensor THEN r ELSE source[r]
      /\ ptr[q].block = IF source[q] = NoTensor THEN q ELSE source[q]
  BY BlockIs
<1>2. CASE source[r] = NoTensor \/ source[q] = NoTensor
  <2>1. source[r] \in Tensors \cup {NoTensor} /\ source[q] \in Tensors \cup {NoTensor}
    BY DEF Shape, Types
  <2> QED BY <1>1, <1>2, <2>1, Names
<1>3. CASE source[r] # NoTensor /\ source[q] # NoTensor
  <2>1. source[r] = source[q]
    BY <1>1, <1>3
  <2> QED BY <1>3, <2>1 DEF Shape, Graph, SourcesOK
<1> QED BY <1>2, <1>3

\* What a Buffer alone on its RawBuffer writes nobody else looks at.
LEMMA SoleSeesAlone ==
  ASSUME Shape, NoImports, NEW b \in Buffers, raw[b] \in Raws, strong[raw[b]] = 1
  PROVE  /\ \A a \in Buffers \ {b} : Exists(a) => ptr[raw[a]].block # ptr[raw[b]].block
         /\ \A m \in Tensors : tensor[m] = "out" => shown[m].block # ptr[raw[b]].block
<1>1. /\ \A a \in Buffers : raw[a] = raw[b] => a = b
      /\ \A m \in Tensors : of[m] # raw[b]
  BY SoleHolder DEF Shape
<1>2. ASSUME NEW a \in Buffers \ {b}, Exists(a)
      PROVE  ptr[raw[a]].block # ptr[raw[b]].block
  <2>1. raw[a] \in Raws /\ raw[a] # raw[b]
    BY <1>1, <1>2 DEF Exists, Shape, Types
  <2> QED BY <2>1, BlocksDiffer
<1>3. ASSUME NEW m \in Tensors, tensor[m] = "out"
      PROVE  shown[m].block # ptr[raw[b]].block
  <2>1. shown[m].block = BlockOf(m)
    BY <1>3 DEF Shape, Graph, TensorsOK
  <2>2. CASE of[m] = NoRaw
    <3>1. shown[m].block = m
      BY <2>1, <2>2 DEF BlockOf
    <3>2. source[raw[b]] # m
      BY <1>3, Names DEF Shape, Graph, SourcesOK
    <3>3. ptr[raw[b]].block = IF source[raw[b]] = NoTensor THEN raw[b] ELSE source[raw[b]]
      BY BlockIs
    <3> QED BY <3>1, <3>2, <3>3, Names
  <2>3. CASE of[m] # NoRaw
    <3>1. of[m] \in Raws /\ of[m] # raw[b] /\ shown[m].block = ptr[of[m]].block
      BY <1>1, <2>1, <2>3 DEF BlockOf, Shape, Types
    <3> QED BY <3>1, BlocksDiffer
  <2> QED BY <2>2, <2>3
<1> QED BY <1>2, <1>3

WriterInv == Shape /\ WriterSole /\ NoImports

LEMMA WriterInvAlone ==
  ASSUME WriterInv
  PROVE  WritersAlone
<1> SUFFICES ASSUME NEW b \in Buffers, stage[b] = "write"
             PROVE  /\ strong[raw[b]] = 1
                    /\ \A a \in Buffers \ {b} :
                         Exists(a) => ptr[raw[a]].block # ptr[raw[b]].block
                    /\ \A m \in Tensors :
                         tensor[m] = "out" => shown[m].block # ptr[raw[b]].block
  BY DEF WritersAlone
<1>1. strong[raw[b]] = 1
  BY DEF WriterInv, WriterSole
<1>2. raw[b] \in Raws
  BY RunsOn DEF WriterInv, Shape
<1> QED BY <1>1, <1>2, SoleSeesAlone DEF WriterInv

\* The Arc count answers one for a writer until it returns, whatever other threads share,
\* drop, export and import meanwhile.
THEOREM WriterStaysSole == Spec => []WriterSole
<1>1. Init => WriterSole
  BY DEF Init, WriterSole
<1>2. Shape /\ WriterSole /\ [Next]_vars => WriterSole'
  <2>1. ASSUME Shape, WriterSole, Next
        PROVE  WriterSole'
    BY <2>1, WriterSoleNext
  <2>2. ASSUME WriterSole, UNCHANGED vars
        PROVE  WriterSole'
    BY <2>2 DEF vars, bufferVars, rawVars, WriterSole
  <2> QED BY <2>1, <2>2
<1> QED BY <1>1, <1>2, ShapeAlways, PTL DEF Spec

LEMMA WriterInvNext ==
  ASSUME ~SelfImport, WriterInv, [Next]_vars
  PROVE  WriterInv'
<1>1. CASE Next
  <2>1. Shape'
    BY <1>1, ShapeNext DEF WriterInv
  <2> QED BY <1>1, <2>1, WriterSoleNext, NoImportsNext DEF WriterInv
<1>2. CASE UNCHANGED vars
  <2>1. Shape'
    BY <1>2, ShapeNext DEF WriterInv
  <2>2. UNCHANGED <<raw, stage, strong, tensor, of>>
    BY <1>2 DEF vars, bufferVars, rawVars, tensorVars
  <2> QED BY <2>1, <2>2 DEF WriterInv, WriterSole, NoImports
<1> QED BY <1>1, <1>2

LEMMA WriterInvInit ==
  ASSUME Init
  PROVE  WriterInv
BY ShapeInit DEF Init, WriterInv, WriterSole, NoImports

\* Where nobody imports an export of this library again, no Buffer and no consumer sees
\* the memory a writer writes to, and the Arc count it tested stays true, whatever other
\* threads share, drop, export and import meanwhile (make_unique, buffer.rs:773).
THEOREM Alone == ~SelfImport => (Spec => []WritersAlone)
<1> SUFFICES ASSUME ~SelfImport PROVE Spec => []WritersAlone
  OBVIOUS
<1>1. Init => WriterInv
  BY WriterInvInit
<1>2. WriterInv /\ [Next]_vars => WriterInv'
  BY WriterInvNext
<1>3. WriterInv => WritersAlone
  BY WriterInvAlone
<1> QED BY <1>1, <1>2, <1>3, PTL DEF Spec

-------------------------------------------------------------------------------
(* Copies                                                                    *)

\* No Buffer has an offset, which the accessors would add twice.
OffsetsZero == \A b \in Buffers : layout[b].off = 0

LEMMA OffsetsNext ==
  ASSUME Starts \subseteq {0}, Types, OffsetsZero, Next
  PROVE  OffsetsZero'
<1>1. ASSUME NEW b \in Buffers, layout'[b].off = 0,
             \A a \in Buffers \ {b} : layout'[a] = layout[a]
      PROVE  OffsetsZero'
  BY <1>1 DEF OffsetsZero
<1>2. ASSUME layout' = layout
      PROVE  OffsetsZero'
  BY <1>2 DEF OffsetsZero
<1>3. \A n : Contiguous(n).off = 0
  BY DEF Contiguous
<1>4. ASSUME NEW b \in Buffers, NEW r \in Raws, NEW n \in 0..MaxLen, NEW v, Fresh(b, r, n, v)
      PROVE  OffsetsZero'
  BY <1>1, <1>3, <1>4 DEF Fresh, Becomes, Types
<1>5. ASSUME NEW a \in Buffers, NEW b \in Buffers, NEW l \in Layouts, NEW w \in BOOLEAN,
             AnyView(a, b, l, w)
      PROVE  OffsetsZero'
  BY <1>1, <1>5 DEF AnyView, View, Becomes, Types, OffsetsZero
<1>6. ASSUME NEW b \in Buffers, Quiet(b) \/ CopyElement(b) \/ WriteElement(b)
      PROVE  OffsetsZero'
  BY <1>2, <1>6 DEF Quiet, SetWriteable, MakeUnique, BeginWrite, CopyFails, EndWrite,
                    CopyElement, WriteElement, bufferVars
<1>7. ASSUME NEW b \in Buffers, DropBuffer(b) \/ Replace(b)
      PROVE  OffsetsZero'
  <2>1. PICK n : layout' = [layout EXCEPT ![b] = Contiguous(n)]
    BY <1>7 DEF DropBuffer, Replace, Becomes
  <2>2. layout'[b].off = 0 /\ \A a \in Buffers \ {b} : layout'[a] = layout[a]
    BY <1>3, <2>1 DEF Types
  <2> QED BY <1>1, <2>2
<1>8. ASSUME NEW m \in Tensors,
             Offer(m) \/ Deleter(m) \/ \E b \in Buffers : ToDlpack(b, m)
      PROVE  OffsetsZero'
  BY <1>2, <1>8 DEF Offer, Deleter, ToDlpack, bufferVars
<1>9. ASSUME NEW m \in Tensors, NEW b \in Buffers, FromDlpack(b, m)
      PROVE  OffsetsZero'
  <2>1. layout' = [layout EXCEPT ![b] = [off |-> 0, len |-> shown[m].len,
                                         stride |-> shown[m].stride]]
    BY <1>9 DEF FromDlpack, Becomes
  <2> QED BY <1>1, <2>1 DEF Types
<1> QED BY <1>4, <1>5, <1>6, <1>7, <1>8, <1>9, StepsAre

\* Then whoever looks for an element finds it.
LEMMA OnePlace ==
  ASSUME Types, OffsetsZero, NEW b \in Buffers, raw[b] \in Raws, NEW i \in Nat \ {0}
  PROVE  /\ OpsAddress(raw[b], layout[b], i) = Address(raw[b], layout[b], i)
         /\ Addresses(raw[b], layout[b], i) = {Address(raw[b], layout[b], i)}
<1> DEFINE c == Address(raw[b], layout[b], i)
<1>1. c \in Nat /\ layout[b].off = 0
  BY PlaceType DEF OffsetsZero
<1> HIDE DEF c
<1>2. c + layout[b].off = c
  BY <1>1
<1> QED BY <1>2 DEF OpsAddress, Addresses, c

SafeInv == WriterInv /\ Alive /\ ViewsInMemory /\ OffsetsZero

\* A writer changes one element of its own.
LEMMA WriteIs ==
  ASSUME SafeInv, NEW b \in Buffers, WriteElement(b)
  PROVE  /\ raw[b] \in Raws
         /\ \E i \in 1..layout[b].len, x \in Values :
              mem' = [mem EXCEPT ![ptr[raw[b]].block][Address(raw[b], layout[b], i)] = x]
<1> USE DEF SafeInv, WriterInv, Shape
<1>1. raw[b] \in Raws
  BY RunsOn DEF WriteElement
<1> DEFINE k == ptr[raw[b]].block
<1>2. PICK i \in 1..layout[b].len, x \in Values :
        \E c \in Addresses(raw[b], layout[b], i) :
          IF c \in DOMAIN mem[k]
            THEN mem' = [mem EXCEPT ![k][c] = x]
            ELSE \E j \in Blocks : \E d \in DOMAIN mem[j] : mem' = [mem EXCEPT ![j][d] = x]
  BY DEF WriteElement
<1>3. i \in Nat \ {0}
  BY DEF Types, Layouts
<1>4. Addresses(raw[b], layout[b], i) = {Address(raw[b], layout[b], i)}
  BY <1>1, <1>3, OnePlace
<1>5. Address(raw[b], layout[b], i) \in DOMAIN mem[k]
  BY DEF ViewsInMemory
<1> QED BY <1>1, <1>2, <1>4, <1>5

\* A Buffer that a step neither replaces nor writes to shows what it showed.
LEMMA ContentsKept ==
  ASSUME SafeInv, SafeInv', Next, NEW b \in Buffers, raw[b] \in Raws,
         raw'[b] = raw[b], layout'[b] = layout[b], ~WriteElement(b)
  PROVE  Contents(b)' = Contents(b)
<1> USE DEF SafeInv, WriterInv, Shape
<1> DEFINE r == raw[b]
           k == ptr[r].block
<1>1. strong[r] # 0 /\ strong'[r] # 0
  BY CountsMean, CountsMeanNext
<1>2. ptr'[r] = ptr[r]
  BY <1>1, PlaceKept
<1>3. k \in Blocks
  BY DEF Types
<1>4. mem'[k] = mem[k]
  <2>1. CASE \A a \in Buffers : ~WriteElement(a)
    <3>1. PICK q : q = k
      OBVIOUS
    <3>2. Allocated(q) /\ Allocated(q)'
      BY <1>1, <1>2, <3>1 DEF Alive, Allocated
    <3>3. mem'[q] = mem[q]
      BY <1>3, <2>1, <3>1, <3>2, MemoryKept
    <3> QED BY <3>1, <3>3
  <2>2. ASSUME NEW a \in Buffers, WriteElement(a)
        PROVE  mem'[k] = mem[k]
    <3>1. a # b /\ stage[a] = "write"
      BY <2>2 DEF WriteElement
    <3>2. ptr[raw[a]].block # k
      <4>1. WritersAlone
        BY WriterInvAlone
      <4>2. Exists(b)
        BY Names DEF Exists
      <4> QED BY <3>1, <4>1, <4>2 DEF WritersAlone
    <3>3. PICK i \in 1..layout[a].len, x \in Values :
            mem' = [mem EXCEPT ![ptr[raw[a]].block][Address(raw[a], layout[a], i)] = x]
      BY <2>2, WriteIs
    <3> QED BY <1>3, <3>2, <3>3
  <2> QED BY <2>1, <2>2
<1> QED BY <1>2, <1>4 DEF Contents, Address

LEMMA SafeAlways ==
  ASSUME ~SelfImport, Starts \subseteq {0}
  PROVE  Spec => []SafeInv
<1>1. Init => WriterInv /\ OffsetsZero
  BY WriterInvInit DEF Init, OffsetsZero, Contiguous
<1>2. WriterInv /\ [Next]_vars => WriterInv'
  BY WriterInvNext
<1>3. WriterInv => Alive
  BY ShapeAlive DEF WriterInv
<1>4. WriterInv /\ OffsetsZero /\ [Next]_vars => OffsetsZero'
  <2>1. ASSUME WriterInv, OffsetsZero, Next
        PROVE  OffsetsZero'
    BY <2>1, OffsetsNext DEF WriterInv, Shape
  <2>2. ASSUME OffsetsZero, UNCHANGED vars
        PROVE  OffsetsZero'
    BY <2>2 DEF vars, bufferVars, OffsetsZero
  <2> QED BY <2>1, <2>2
<1> QED BY <1>1, <1>2, <1>3, <1>4, Memory, PTL DEF Spec, SafeInv

\* Only make_unique itself copies for b, and only it moves or replaces b meanwhile.
LEMMA CopyingKept ==
  ASSUME Shape, Next, NEW b \in Buffers, ~CopyElement(b), ~Replace(b)
  PROVE  /\ copied'[b] = copied[b]
         /\ Copying(b) => raw'[b] = raw[b] /\ layout'[b] = layout[b] /\ ~WriteElement(b)
<1> USE DEF Shape
<1>1. Copying(b) => raw[b] # NoRaw /\ ~WriteElement(b)
  BY RunsOn, Names DEF Copying, WriteElement
<1>2. ASSUME NEW a \in Buffers, NEW r \in Raws, NEW n \in 0..MaxLen, NEW v, Fresh(a, r, n, v)
      PROVE  copied' = copied /\ (Copying(b) => raw'[b] = raw[b] /\ layout'[b] = layout[b])
  <2>1. Copying(b) => a # b
    BY <1>1, <1>2 DEF Fresh, Exists
  <2> QED BY <1>2, <2>1 DEF Fresh, Becomes, Types
<1>3. ASSUME NEW c \in Buffers, NEW a \in Buffers, NEW l \in Layouts, NEW w \in BOOLEAN,
             AnyView(c, a, l, w)
      PROVE  copied' = copied /\ (Copying(b) => raw'[b] = raw[b] /\ layout'[b] = layout[b])
  <2>1. Copying(b) => a # b
    BY <1>1, <1>3 DEF AnyView, View, Exists
  <2> QED BY <1>3, <2>1 DEF AnyView, View, Becomes, Types
<1>4. ASSUME NEW a \in Buffers, Quiet(a) \/ WriteElement(a)
      PROVE  copied' = copied /\ raw' = raw /\ layout' = layout
  BY <1>4 DEF Quiet, SetWriteable, MakeUnique, BeginWrite, CopyFails, EndWrite,
              WriteElement, bufferVars
<1>5. ASSUME NEW a \in Buffers, CopyElement(a)
      PROVE  copied'[b] = copied[b] /\ raw' = raw /\ layout' = layout
  BY <1>5 DEF CopyElement, Types
<1>6. ASSUME NEW a \in Buffers, Replace(a)
      PROVE  copied'[b] = copied[b] /\ raw'[b] = raw[b] /\ layout'[b] = layout[b]
  BY <1>6 DEF Replace, Becomes, Types
<1>7. ASSUME NEW a \in Buffers, DropBuffer(a)
      PROVE  copied' = copied /\ (Copying(b) => raw'[b] = raw[b] /\ layout'[b] = layout[b])
  <2>1. Copying(b) => a # b
    BY <1>7 DEF DropBuffer, Idle, Copying
  <2> QED BY <1>7, <2>1 DEF DropBuffer, Becomes, Types
<1>8. ASSUME NEW m \in Tensors, Offer(m) \/ Deleter(m) \/ \E a \in Buffers : ToDlpack(a, m)
      PROVE  copied' = copied /\ raw' = raw /\ layout' = layout
  BY <1>8 DEF Offer, Deleter, ToDlpack, bufferVars
<1>9. ASSUME NEW m \in Tensors, NEW a \in Buffers, FromDlpack(a, m)
      PROVE  copied' = copied /\ (Copying(b) => raw'[b] = raw[b] /\ layout'[b] = layout[b])
  <2>1. Copying(b) => a # b
    BY <1>1, <1>9 DEF FromDlpack, Exists
  <2> QED BY <1>9, <2>1 DEF FromDlpack, Becomes, Types
<1> QED BY <1>1, <1>2, <1>3, <1>4, <1>5, <1>6, <1>7, <1>8, <1>9, StepsAre

LEMMA Appended ==
  ASSUME NEW s \in Seq(Values), NEW x
  PROVE  /\ Len(Append(s, x)) = Len(s) + 1 /\ Append(s, x)[Len(s) + 1] = x
         /\ \A j \in 1..Len(s) : Append(s, x)[j] = s[j]
OBVIOUS

LEMMA CopyIsExactNext ==
  ASSUME SafeInv, SafeInv', CopyIsExact, Next
  PROVE  CopyIsExact'
<1> USE DEF SafeInv, WriterInv, Shape
<1> SUFFICES ASSUME NEW b \in Buffers, NEW i \in 1..Len(copied'[b])
             PROVE  copied'[b][i] = Contents(b)'[i]
  BY DEF CopyIsExact
<1>1. copied[b] \in Seq(Values) /\ copied'[b] \in Seq(Values) /\ layout[b].len \in Nat
  BY Names DEF Types, Layouts
<1>2. CASE Replace(b)
  <2>1. copied'[b] = <<>>
    BY <1>2 DEF Replace, Types
  <2> QED BY <2>1, NoElements
<1>3. CASE CopyElement(b)
  <2> DEFINE n == Len(copied[b]) + 1
             k == ptr[raw[b]].block
  <2>1. raw[b] \in Raws /\ UNCHANGED <<raw, layout, ptr, mem>>
    BY <1>3, RunsOn DEF CopyElement, Copying, rawVars
  <2>2. n \in 1..layout[b].len /\ n \in Nat \ {0}
    BY <1>1, <1>3 DEF CopyElement
  <2>3. PICK x \in Reads(k, OpsAddress(raw[b], layout[b], n)) :
          copied' = [copied EXCEPT ![b] = Append(@, x)]
    BY <1>3 DEF CopyElement
  <2>4. Address(raw[b], layout[b], n) \in DOMAIN mem[k]
    BY <2>2 DEF ViewsInMemory
  <2>5. x = mem[k][Address(raw[b], layout[b], n)]
    BY <2>1, <2>2, <2>3, <2>4, OnePlace DEF Reads
  <2>6. x = Contents(b)[n]
    BY <2>2, <2>5 DEF Contents
  <2>7. Contents(b)' = Contents(b)
    BY <2>1 DEF Contents, Address
  <2>8. copied'[b] = Append(copied[b], x)
    BY <2>3 DEF Types
  <2>9. Len(copied'[b]) = n /\ copied'[b][n] = x
        /\ \A j \in 1..Len(copied[b]) : copied'[b][j] = copied[b][j]
    BY <1>1, <2>8, Appended
  <2>10. i = n \/ i \in 1..Len(copied[b])
    BY <1>1, <2>9
  <2> HIDE DEF n
  <2> QED BY <2>6, <2>7, <2>9, <2>10 DEF CopyIsExact
<1>4. CASE ~Replace(b) /\ ~CopyElement(b)
  <2>1. copied'[b] = copied[b]
    BY <1>4, CopyingKept
  <2>2. Copying(b)
    <3> SUFFICES ASSUME ~Copying(b) PROVE FALSE
      OBVIOUS
    <3>1. copied[b] = <<>>
      BY DEF StagesOK
    <3> QED BY <2>1, <3>1, NoElements
  <2>3. raw'[b] = raw[b] /\ layout'[b] = layout[b] /\ ~WriteElement(b) /\ raw[b] \in Raws
    BY <1>4, <2>2, CopyingKept, RunsOn DEF Copying
  <2>4. Contents(b)' = Contents(b)
    BY <2>3, ContentsKept
  <2> QED BY <2>1, <2>4 DEF CopyIsExact
<1> QED BY <1>2, <1>3, <1>4

LEMMA CopyIsExactAlways ==
  ASSUME ~SelfImport, Starts \subseteq {0}
  PROVE  Spec => []CopyIsExact
<1>1. Init => CopyIsExact
  BY NoElements, Nowhere DEF Init, CopyIsExact
<1>2. SafeInv /\ SafeInv' /\ CopyIsExact /\ [Next]_vars => CopyIsExact'
  <2>1. ASSUME SafeInv, SafeInv', CopyIsExact, Next
        PROVE  CopyIsExact'
    BY <2>1, CopyIsExactNext
  <2>2. ASSUME CopyIsExact, UNCHANGED vars
        PROVE  CopyIsExact'
    <3>1. UNCHANGED <<raw, layout, copied, ptr, mem>>
      BY <2>2 DEF vars, bufferVars, rawVars
    <3>2. ASSUME NEW b \in Buffers
          PROVE  Contents(b)' = Contents(b)
      BY <3>1 DEF Contents, Address
    <3> QED BY <2>2, <3>1, <3>2 DEF CopyIsExact
  <2> QED BY <2>1, <2>2
<1> QED BY <1>1, <1>2, SafeAlways, PTL DEF Spec

\* Where no Buffer has an offset and nobody imports an own export again, make_unique copies
\* the elements the Buffer shows, though other threads write to other Buffers while it
\* does, until the copy takes its place (buffer.rs:783).
THEOREM CopyExact == ~SelfImport /\ Starts \subseteq {0} => (Spec => []CopyIsExact)
BY CopyIsExactAlways

-------------------------------------------------------------------------------
(* Array values                                                              *)

\* A Buffer that exists shows as many values as its layout has elements.
Arrayed == \A b \in Buffers : Exists(b) => Contents(b) \in [1..layout[b].len -> Values]

ValueInv == SafeInv /\ CopyIsExact /\ Arrayed

LEMMA SafeArrayed ==
  ASSUME SafeInv
  PROVE  Arrayed
<1> USE DEF SafeInv, WriterInv, Shape
<1> SUFFICES ASSUME NEW b \in Buffers, Exists(b), NEW i \in 1..layout[b].len
             PROVE  mem[ptr[raw[b]].block][Address(raw[b], layout[b], i)] \in Values
  BY DEF Arrayed, Contents
<1> DEFINE k == ptr[raw[b]].block
           c == Address(raw[b], layout[b], i)
<1>1. k \in Blocks
  BY DEF Exists, Types
<1>2. mem[k] \in Seq(Values)
  BY <1>1 DEF Types
<1>3. c \in DOMAIN mem[k]
  BY DEF ViewsInMemory
<1> HIDE DEF k, c
<1>4. mem[k][c] \in Values
  BY <1>2, <1>3
<1> QED BY <1>4 DEF k, c

LEMMA ValueAlways ==
  ASSUME ~SelfImport, Starts \subseteq {0}
  PROVE  Spec => []ValueInv
<1>1. SafeInv => Arrayed
  BY SafeArrayed
<1> QED BY <1>1, SafeAlways, CopyIsExactAlways, PTL DEF ValueInv

\* A Buffer that exists is an array.
LEMMA ArrayIs ==
  ASSUME ValueInv, NEW b \in Buffers
  PROVE  /\ Exists(b) => Val[b] = Contents(b) /\ Val[b] \in Arrays!Arrays /\ Val[b] # NoArray
         /\ ~Exists(b) => Val[b] = NoArray
<1>1. layout[b].len \in 0..MaxLen
  BY DEF ValueInv, SafeInv, WriterInv, Shape, Types, Layouts
<1>2. Exists(b) => Contents(b) \in [1..layout[b].len -> Values]
  BY DEF ValueInv, Arrayed
<1>3. [1..layout[b].len -> Values] \subseteq Arrays!Arrays
  BY <1>1 DEF Arrays!Arrays
<1>4. NoArray \notin [1..layout[b].len -> Values]
  BY <1>1, NoArrayAssumption
<1> QED BY <1>2, <1>3, <1>4 DEF Val, ArrayOf

LEMMA ArrayIsNext ==
  ASSUME ValueInv', NEW b \in Buffers
  PROVE  /\ Exists(b)' => Val'[b] = Contents(b)' /\ Val'[b] \in Arrays!Arrays
         /\ ~Exists(b)' => Val'[b] = NoArray
<1>1. layout'[b].len \in 0..MaxLen
  BY DEF ValueInv, SafeInv, WriterInv, Shape, Types, Layouts
<1>2. Exists(b)' => Contents(b)' \in [1..layout'[b].len -> Values]
  BY DEF ValueInv, Arrayed
<1>3. [1..layout'[b].len -> Values] \subseteq Arrays!Arrays
  BY <1>1 DEF Arrays!Arrays
<1> QED BY <1>2, <1>3 DEF Val, ArrayOf

\* A step leaves all arrays as they are but the ones it replaces or writes to.
LEMMA ArraysKept ==
  ASSUME ValueInv, ValueInv', Next, NEW b \in Buffers,
         raw'[b] = raw[b], layout'[b] = layout[b], ~WriteElement(b)
  PROVE  Val'[b] = Val[b]
<1>1. CASE raw[b] = NoRaw
  BY <1>1 DEF Val, ArrayOf, Exists
<1>2. CASE raw[b] # NoRaw
  <2>1. raw[b] \in Raws
    BY <1>2 DEF ValueInv, SafeInv, WriterInv, Shape, Types
  <2>2. Contents(b)' = Contents(b)
    BY <2>1, ContentsKept DEF ValueInv
  <2> QED BY <1>2, <2>2 DEF Val, ArrayOf, Exists
<1> QED BY <1>1, <1>2

LEMMA OneArray ==
  ASSUME NEW b \in Buffers, \A a \in Buffers \ {b} : Val'[a] = Val[a]
  PROVE  Val' = [Val EXCEPT ![b] = Val'[b]]
BY DEF Val

\* All a step of a view, an import or a constructor does: a new array.
LEMMA NewArray ==
  ASSUME ValueInv, ValueInv', Next, NEW b \in Buffers, ~Exists(b), raw'[b] # NoRaw,
         stage' = stage, \A a \in Buffers : ~WriteElement(a),
         \A a \in Buffers \ {b} : raw'[a] = raw[a] /\ layout'[a] = layout[a]
  PROVE  Arrays!New(b)
<1>1. Val[b] = NoArray
  BY ArrayIs
<1>2. Val'[b] \in Arrays!Arrays
  BY ArrayIsNext DEF Exists
<1>3. Val' = [Val EXCEPT ![b] = Val'[b]]
  BY ArraysKept, OneArray
<1>4. Open' = Open
  BY DEF Open
<1> QED BY <1>1, <1>2, <1>3, <1>4 DEF Arrays!New, Arrays!Exists

\* A step that moves one method and changes no array.
LEMMA Opened ==
  ASSUME ValueInv, ValueInv', NEW b \in Buffers, Val' = Val, Exists(b), NEW s \in Stages,
         stage' = [stage EXCEPT ![b] = s]
  PROVE  Arrays!Open(b) \/ Arrays!Close(b)
<1>1. Val[b] # NoArray
  BY ArrayIs
<1>2. stage \in [Buffers -> Stages]
  BY DEF ValueInv, SafeInv, WriterInv, Shape, Types
<1>3. CASE s = "write"
  <2>1. Open' = Open \cup {b}
    BY <1>2, <1>3 DEF Open
  <2> QED BY <1>1, <2>1 DEF Arrays!Open, Arrays!Exists
<1>4. CASE s # "write"
  <2>1. Open' = Open \ {b}
    BY <1>2, <1>4 DEF Open
  <2> QED BY <2>1 DEF Arrays!Close
<1> QED BY <1>3, <1>4

LEMMA ValuesNext ==
  ASSUME ValueInv, ValueInv', Next
  PROVE  Arrays!Next \/ UNCHANGED Arrays!vars
<1> USE DEF ValueInv, SafeInv, WriterInv, Shape
<1>1. ASSUME NEW b \in Buffers, Arrays!New(b) \/ Arrays!Open(b) \/ Arrays!Write(b)
                                  \/ Arrays!Close(b) \/ Arrays!Drop(b)
      PROVE  Arrays!Next
  BY <1>1 DEF Arrays!Next
<1>2. ASSUME \A a \in Buffers : /\ raw'[a] = raw[a] /\ layout'[a] = layout[a]
                                /\ ~WriteElement(a)
      PROVE  Val' = Val
  BY <1>2, ArraysKept DEF Val
<1>3. ASSUME Val' = Val, stage' = stage
      PROVE  UNCHANGED Arrays!vars
  BY <1>3 DEF Arrays!vars, Open
<1>4. ASSUME NEW b \in Buffers, NEW r \in Raws, NEW n \in 0..MaxLen, NEW v, Fresh(b, r, n, v)
      PROVE  Arrays!Next
  <2>1. /\ ~Exists(b) /\ UNCHANGED <<stage, tensorVars>> /\ raw' = [raw EXCEPT ![b] = r]
        /\ layout' = [layout EXCEPT ![b] = Contiguous(n)] /\ strong' = [strong EXCEPT ![r] = 1]
        /\ strong[r] = 0
    BY <1>4 DEF Fresh, Alloc, Becomes
  <2>2. \A a \in Buffers : ~WriteElement(a)
    BY <2>1 DEF WriteElement, rawVars, Types
  <2>3. /\ raw'[b] # NoRaw
        /\ \A a \in Buffers \ {b} : raw'[a] = raw[a] /\ layout'[a] = layout[a]
    BY <2>1, Names DEF Types
  <2> QED BY <1>1, <2>1, <2>2, <2>3, NewArray
<1>5. ASSUME NEW c \in Buffers, NEW b \in Buffers, NEW l \in Layouts, NEW w \in BOOLEAN,
             AnyView(c, b, l, w)
      PROVE  Arrays!Next
  <2>1. /\ ~Exists(b) /\ UNCHANGED stage /\ raw' = [raw EXCEPT ![b] = raw[c]]
        /\ layout' = [layout EXCEPT ![b] = l] /\ raw[c] \in Raws
        /\ strong' = [strong EXCEPT ![raw[c]] = @ + 1]
    BY <1>5 DEF AnyView, View, Idle, Exists, Clone, Becomes, Types
  <2>2. strong'[raw[c]] # strong[raw[c]]
    BY <2>1 DEF Types
  <2>3. \A a \in Buffers : ~WriteElement(a)
    BY <2>2 DEF WriteElement, rawVars
  <2>4. /\ raw'[b] # NoRaw
        /\ \A a \in Buffers \ {b} : raw'[a] = raw[a] /\ layout'[a] = layout[a]
    BY <2>1, Names DEF Types
  <2> QED BY <1>1, <2>1, <2>3, <2>4, NewArray
<1>6. ASSUME UNCHANGED <<raw, layout, ptr, mem>>
      PROVE  Val' = Val
  <2>1. ASSUME NEW b \in Buffers
        PROVE  ArrayOf(b)' = ArrayOf(b)
    BY <1>6 DEF ArrayOf, Exists, Contents, Address
  <2> QED BY <2>1 DEF Val
<1>7. ASSUME NEW b \in Buffers, Quiet(b)
      PROVE  Arrays!Next \/ UNCHANGED Arrays!vars
  <2>1. UNCHANGED <<raw, layout, ptr, mem>>
    BY <1>7 DEF Quiet, SetWriteable, MakeUnique, BeginWrite, CopyFails, EndWrite, rawVars
  <2>2. Exists(b)
    BY <1>7, RunsOn, Names DEF Quiet, SetWriteable, MakeUnique, BeginWrite, CopyFails, EndWrite,
                               Idle, Copying, Exists
  <2>3. stage' = stage \/ \E s \in Stages : stage' = [stage EXCEPT ![b] = s]
    BY <1>7 DEF Quiet, SetWriteable, MakeUnique, BeginWrite, CopyFails, EndWrite, Stages
  <2>4. Val' = Val
    BY <1>6, <2>1
  <2> QED BY <1>1, <1>3, <2>2, <2>3, <2>4, Opened
<1>8. ASSUME NEW b \in Buffers, CopyElement(b)
      PROVE  UNCHANGED Arrays!vars
  BY <1>3, <1>6, <1>8 DEF CopyElement, rawVars
<1>9. ASSUME NEW b \in Buffers, WriteElement(b)
      PROVE  Arrays!Next
  <2> DEFINE k == ptr[raw[b]].block
  <2>1. stage[b] = "write" /\ UNCHANGED <<raw, layout, stage, ptr>>
    BY <1>9 DEF WriteElement, bufferVars, rawVars
  <2>2. raw[b] \in Raws /\ \E c, x : mem' = [mem EXCEPT ![k][c] = x]
    BY <1>9, WriteIs
  <2>3. ASSUME NEW a \in Buffers \ {b}
        PROVE  ArrayOf(a)' = ArrayOf(a)
    <3>1. CASE ~Exists(a)
      BY <2>1, <3>1 DEF ArrayOf, Exists
    <3>2. CASE Exists(a)
      <4>1. ptr[raw[a]].block # k /\ ptr[raw[a]].block \in Blocks
        BY <2>1, <3>2, WriterInvAlone DEF WritersAlone, Exists, Types
      <4>2. mem'[ptr[raw[a]].block] = mem[ptr[raw[a]].block]
        BY <2>2, <4>1
      <4> QED BY <2>1, <3>2, <4>2 DEF ArrayOf, Exists, Contents, Address
    <3> QED BY <3>1, <3>2
  <2>4. Val' = [Val EXCEPT ![b] = Val'[b]]
    BY <2>3, OneArray DEF Val
  <2>5. Val[b] = Contents(b) /\ Val'[b] = Contents(b)'
    BY <2>1, <2>2, ArrayIs, ArrayIsNext, Names DEF Exists
  <2>6. DOMAIN Val[b] = 1..layout[b].len /\ Val'[b] \in [1..layout[b].len -> Values]
    <3>1. Contents(b)' \in [1..layout'[b].len -> Values]
      BY <2>1, <2>2, Names DEF Arrayed, Exists
    <3> QED BY <2>1, <2>5, <3>1 DEF Contents
  <2>7. b \in Open /\ Open' = Open
    BY <2>1 DEF Open
  <2> QED BY <1>1, <2>4, <2>6, <2>7 DEF Arrays!Write
<1>10. ASSUME NEW b \in Buffers, DropBuffer(b)
      PROVE  Arrays!Next
  <2>1. /\ stage[b] = "idle" /\ raw[b] \in Raws /\ UNCHANGED stage
        /\ strong' = Dropped(raw[b]) /\ raw' = [raw EXCEPT ![b] = NoRaw]
        /\ layout' = [layout EXCEPT ![b] = Contiguous(0)]
    BY <1>10 DEF DropBuffer, Idle, Exists, Becomes, Types
  <2>2. strong'[raw[b]] # strong[raw[b]]
    BY <2>1 DEF Dropped, Types
  <2>3. \A a \in Buffers : ~WriteElement(a)
    BY <2>2 DEF WriteElement, rawVars
  <2>4. \A a \in Buffers \ {b} : raw'[a] = raw[a] /\ layout'[a] = layout[a]
    BY <2>1
  <2>5. Val' = [Val EXCEPT ![b] = Val'[b]]
    BY <2>3, <2>4, ArraysKept, OneArray
  <2>6. Val'[b] = NoArray
    BY <2>1, ArrayIsNext DEF Exists, Types
  <2>7. b \notin Open /\ Open' = Open
    BY <2>1 DEF Open
  <2> QED BY <1>1, <2>5, <2>6, <2>7 DEF Arrays!Drop
<1>11. ASSUME NEW b \in Buffers, Replace(b)
      PROVE  Arrays!Next
  <2> DEFINE n == layout[b].len
             s == IF stage[b] = "copy" THEN "idle" ELSE "write"
  <2>1. PICK r \in Raws :
          /\ strong[r] = 0 /\ strong' = [Dropped(raw[b]) EXCEPT ![r] = 1]
          /\ mem' = [Freed(raw[b]) EXCEPT ![r] = copied[b]]
          /\ raw' = [raw EXCEPT ![b] = r] /\ layout' = [layout EXCEPT ![b] = Contiguous(n)]
    BY <1>11 DEF Replace, Becomes
  <2>2. /\ raw[b] \in Raws /\ Copying(b) /\ Len(copied[b]) = n /\ Forget(raw[b])
        /\ stage' = [stage EXCEPT ![b] = s] /\ s \in Stages
    BY <1>11, RunsOn DEF Replace, Copying, Stages
  <2>3. r # raw[b] /\ strong'[r] # strong[r]
    BY <2>1, <2>2, CountsMean DEF Dropped, Types
  <2>4. \A a \in Buffers : ~WriteElement(a)
    BY <2>3 DEF WriteElement, rawVars
  <2>5. \A a \in Buffers \ {b} : Val'[a] = Val[a]
    BY <2>1, <2>4, ArraysKept
  <2>6. ptr'[r] = [block |-> r, at |-> 1] /\ mem'[r] = copied[b] /\ raw'[b] = r
    <3>1. ptr[r] = [block |-> r, at |-> 1]
      BY <2>1, OwnPlace
    <3>2. ptr'[r] = ptr[r]
      BY <2>2, <2>3 DEF Forget, Types
    <3>3. mem'[r] = copied[b] /\ raw'[b] = r
      BY <2>1, Names DEF Freed, Types
    <3> QED BY <3>1, <3>2, <3>3
  <2>7. layout'[b].off = 0 /\ layout'[b].stride = 1 /\ layout'[b].len = n /\ n \in Nat
    BY <2>1, Names DEF Contiguous, Types, Layouts
  <2>8. Contents(b)' = Contents(b)
    <3>1. ASSUME NEW i \in 1..n
          PROVE  mem'[ptr'[raw'[b]].block][ptr'[raw'[b]].at + layout'[b].off
                                            + (i - 1) * layout'[b].stride] = Contents(b)[i]
      <4>1. 1 + 0 + (i - 1) * 1 = i
        BY <2>7
      <4>2. copied[b][i] = Contents(b)[i]
        BY <2>2 DEF CopyIsExact
      <4> QED BY <2>6, <2>7, <4>1, <4>2
    <3> QED BY <2>7, <3>1 DEF Contents, Address
  <2>9. Val'[b] = Val[b]
    BY <2>1, <2>2, <2>6, <2>8, ArrayIs, ArrayIsNext, Names DEF Exists
  <2>10. Val' = Val
    BY <2>5, <2>9 DEF Val
  <2>11. Exists(b)
    BY <2>2, Names DEF Exists
  <2> HIDE DEF s
  <2> QED BY <1>1, <2>2, <2>10, <2>11, Opened
<1>12. ASSUME NEW m \in Tensors, Offer(m) \/ Deleter(m)
      PROVE  UNCHANGED Arrays!vars
  <2>1. UNCHANGED <<raw, layout, stage>>
    BY <1>12 DEF Offer, Deleter, bufferVars
  <2>2. tensor' # tensor \/ of' # of
    <3>1. CASE Offer(m)
      BY <3>1 DEF Offer, Types
    <3>2. CASE Deleter(m)
      BY <3>2, Names DEF Deleter, Types
    <3> QED BY <1>12, <3>1, <3>2
  <2>3. \A a \in Buffers : ~WriteElement(a)
    BY <2>2 DEF WriteElement, tensorVars
  <2> QED BY <1>2, <1>3, <2>1, <2>3
<1>13. ASSUME NEW m \in Tensors, NEW b \in Buffers, ToDlpack(b, m)
      PROVE  UNCHANGED Arrays!vars
  BY <1>3, <1>6, <1>13 DEF ToDlpack, bufferVars
<1>14. ASSUME NEW m \in Tensors, NEW b \in Buffers, FromDlpack(b, m)
      PROVE  Arrays!Next
  <2>1. PICK r \in Raws :
          /\ strong[r] = 0 /\ strong' = [strong EXCEPT ![r] = 1]
          /\ raw' = [raw EXCEPT ![b] = r]
          /\ layout' = [layout EXCEPT ![b] = [off |-> 0, len |-> shown[m].len,
                                              stride |-> shown[m].stride]]
    BY <1>14 DEF FromDlpack, Becomes
  <2>2. ~Exists(b) /\ stage' = stage
    BY <1>14 DEF FromDlpack
  <2>3. \A a \in Buffers : ~WriteElement(a)
    BY <2>1 DEF WriteElement, rawVars, Types
  <2>4. /\ raw'[b] # NoRaw
        /\ \A a \in Buffers \ {b} : raw'[a] = raw[a] /\ layout'[a] = layout[a]
    BY <2>1, Names DEF Types
  <2> QED BY <1>1, <2>2, <2>3, <2>4, NewArray
<1> QED BY <1>4, <1>5, <1>7, <1>8, <1>9, <1>10, <1>11, <1>12, <1>13, <1>14, StepsAre

\* Where no Buffer has an offset and nobody imports an own export again, sharing cannot be
\* seen: every Buffer is an array value of its own, changed only by its own writer, while
\* copies on write, drops, exports and imports go on around it.
THEOREM ValuesImplemented ==
  ~SelfImport /\ Starts \subseteq {0} => (Spec => ImplementsValues)
<1> SUFFICES ASSUME ~SelfImport, Starts \subseteq {0}
             PROVE  Spec => ImplementsValues
  OBVIOUS
<1>1. Init => Arrays!Init
  BY DEF Init, Arrays!Init, Val, Open, ArrayOf, Exists
<1>2. ValueInv /\ ValueInv' /\ [Next]_vars => [Arrays!Next]_(Arrays!vars)
  <2>1. ASSUME ValueInv, ValueInv', Next
        PROVE  Arrays!Next \/ UNCHANGED Arrays!vars
    BY <2>1, ValuesNext
  <2>2. ASSUME UNCHANGED vars
        PROVE  UNCHANGED Arrays!vars
    <3>1. UNCHANGED <<raw, layout, stage, ptr, mem>>
      BY <2>2 DEF vars, bufferVars, rawVars
    <3>2. ASSUME NEW b \in Buffers
          PROVE  ArrayOf(b)' = ArrayOf(b)
      BY <3>1 DEF ArrayOf, Exists, Contents, Address
    <3> QED BY <3>1, <3>2 DEF Arrays!vars, Val, Open
  <2> QED BY <2>1, <2>2
<1>3. Spec => []ValueInv
  BY ValueAlways
<1> QED BY <1>1, <1>2, <1>3, PTL DEF Spec, ImplementsValues, Arrays!Spec
===============================================================================
