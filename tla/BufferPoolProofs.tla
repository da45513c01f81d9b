--------------------------- MODULE BufferPoolProofs ---------------------------
(* What holds of BufferPool for any threads, pools, handles and limits.     *)
EXTENDS BufferPoolLedger, ByteCountProofs

\* Classes are lengths, and so are the sizes callers name.
LEMMA SizeTypes ==
  /\ MaxSize \in Nat
  /\ \A n \in 0..MaxSize : n \in Nat
  /\ \A c \in Classes : c \in Nat /\ c \in 1..MaxSize /\ c \in 0..MaxSize
  /\ \A n \in Requests \cup DirectSizes : n \in 1..MaxSize /\ n \in 0..MaxSize
<1>1. MaxSize \in Nat
  BY SizeAssumption
<1>2. \A n \in 1..MaxSize : n \in Nat /\ n \in 0..MaxSize
  BY <1>1
<1>3. \A n \in 0..MaxSize : n \in Nat
  BY <1>1
<1>4. QED
  BY <1>1, <1>2, <1>3, SizeAssumption

\* The class of a length is a class, holds that length and is its own class.
LEMMA SizeClassProperties ==
  ASSUME NEW n \in 0..MaxSize
  PROVE  /\ SizeClass(n) \in Classes
         /\ n <= SizeClass(n)
         /\ n \in Classes => SizeClass(n) = n
<1>1. PICK c \in Classes : n <= c /\ \A d \in Classes : n <= d => c <= d
  BY SizeAssumption
<1>2. /\ SizeClass(n) \in Classes
      /\ n <= SizeClass(n)
      /\ \A d \in Classes : n <= d => SizeClass(n) <= d
  BY <1>1 DEF SizeClass
<1>3. ASSUME n \in Classes
      PROVE  SizeClass(n) = n
  <2>1. n \in Nat /\ SizeClass(n) \in Nat
    BY <1>2, SizeTypes
  <2>2. SizeClass(n) <= n
    BY <1>2, <1>3
  <2>3. QED
    BY <1>2, <2>1, <2>2
<1>4. QED
  BY <1>2, <1>3

-------------------------------------------------------------------------------
(* The inductive invariant.  Byte counts are first integers: that they are   *)
(* not negative is a consequence of what they count.                         *)

PoolOK(p) ==
  /\ cached[p] = Bytes(At(InPool(p)))
  /\ \A c \in Classes : bucketBytes[p][c] = Bytes(Bucket(p, c))
  /\ Bytes(At(InPool(p))) <= MaxCachedBytes[p]
  /\ \A h \in At(InPool(p)) : key[h] \in Classes

TlOK(t) ==
  /\ Cardinality(At(InTl(t))) <= TlSlots
  /\ Bytes(At(InTl(t))) <= TlMaxBytes
  /\ tlBytes[t] = Bytes(At(InTl(t)))

HandleTypes ==
  /\ size \in [Handles -> 0..MaxSize]
  /\ place \in [Handles -> Places]
  /\ key \in [Handles -> Classes \cup {0}]
  /\ want \in [Handles -> 0..MaxSize]

CountTypes ==
  /\ cached \in [Pools -> Int]
  /\ bucketBytes \in [Pools -> [Classes -> Int]]
  /\ tlBytes \in [Threads -> Int]

CallTypes ==
  /\ lock \in [Pools -> Threads \cup {NoThread}]
  /\ pc \in [Threads -> {"idle", "lookup", "alloc", "put", "warm_alloc",
                         "warm_push", "trim"}]
  /\ pool \in [Threads -> Pools \cup {NoPool}]
  /\ arg \in [Threads -> Nat]
  /\ left \in [Threads -> Nat]

\* A call is on a pool, and one that will allocate knows a size.
CallsOK ==
  \A t \in Threads :
    /\ pc[t] # "idle" => pool[t] \in Pools
    /\ pc[t] \in {"lookup", "alloc", "warm_alloc"} => arg[t] \in Requests

\* Who holds each handle, what is counted, and that the counts are right.
Stored ==
  /\ HandleTypes
  /\ CountTypes
  /\ \A p \in Pools : PoolOK(p)
  /\ \A t \in Threads : TlOK(t)

IInv == Stored /\ CallTypes /\ CallsOK

-------------------------------------------------------------------------------
(* Places.                                                                   *)

LEMMA PlacesApart ==
  ASSUME NEW t, NEW u, NEW p
  PROVE  /\ Nowhere # Held(t) /\ Nowhere # InCall(t) /\ Nowhere # InTl(t)
         /\ Nowhere # InPool(p) /\ Held(t) # InCall(u) /\ Held(t) # InTl(u)
         /\ Held(t) # InPool(p) /\ InCall(t) # InTl(u) /\ InCall(t) # InPool(p)
         /\ InTl(t) # InPool(p)
BY DEF Nowhere, Held, InCall, InTl, InPool

LEMMA PlacesDistinct ==
  /\ \A t, u : InTl(t) = InTl(u) => t = u
  /\ \A p, q : InPool(p) = InPool(q) => p = q
BY DEF InTl, InPool

LEMMA PlacesType ==
  /\ Nowhere \in Places
  /\ \A t \in Threads : Held(t) \in Places /\ InCall(t) \in Places /\ InTl(t) \in Places
  /\ \A p \in Pools : InPool(p) \in Places
BY DEF Places

LEMMA AtFinite ==
  ASSUME NEW x
  PROVE  IsFiniteSet(At(x)) /\ At(x) \subseteq Handles
<1>1. At(x) \in SUBSET Handles
  BY DEF At
<1>2. QED
  BY <1>1, FS_Subset, NameAssumption

LEMMA BucketFinite ==
  ASSUME NEW p, NEW c
  PROVE  IsFiniteSet(Bucket(p, c)) /\ Bucket(p, c) \subseteq At(InPool(p))
<1>1. Bucket(p, c) \in SUBSET At(InPool(p))
  BY DEF Bucket
<1>2. QED
  BY <1>1, FS_Subset, AtFinite

-------------------------------------------------------------------------------
(* A step gives the handles S to x and leaves the others as they are.        *)

Relocate(S, x) ==
  /\ \A h \in Handles : place'[h] = IF h \in S THEN x ELSE place[h]
  /\ \A h \in Handles \ S : size'[h] = size[h] /\ key'[h] = key[h]

LEMMA RelocateAt ==
  ASSUME NEW S \in SUBSET Handles, NEW x, Relocate(S, x), NEW y
  PROVE  /\ y = x => At(y)' = At(y) \cup S
         /\ y # x => At(y)' = At(y) \ S
BY DEF Relocate, At

LEMMA UntouchedAt ==
  ASSUME NEW S \in SUBSET Handles, NEW x, Relocate(S, x), NEW y, y # x,
         S \cap At(y) = {}
  PROVE  /\ At(y)' = At(y)
         /\ \A h \in At(y) : size'[h] = size[h] /\ key'[h] = key[h]
BY DEF Relocate, At

\* A pool that S neither leaves nor enters stays as it is.
LEMMA PoolUntouched ==
  ASSUME NEW S \in SUBSET Handles, NEW x, Relocate(S, x),
         NEW p \in Pools, PoolOK(p), InPool(p) # x, S \cap At(InPool(p)) = {},
         cached'[p] = cached[p], bucketBytes'[p] = bucketBytes[p]
  PROVE  PoolOK(p)'
<1>1. /\ At(InPool(p))' = At(InPool(p))
      /\ \A h \in At(InPool(p)) : size'[h] = size[h] /\ key'[h] = key[h]
  BY UntouchedAt
<1>2. Bytes(At(InPool(p)))' = Bytes(At(InPool(p)))
  BY <1>1, BytesKept DEF Bytes
<1>3. ASSUME NEW c \in Classes
      PROVE  Bytes(Bucket(p, c))' = Bytes(Bucket(p, c))
  <2>1. Bucket(p, c)' = Bucket(p, c)
    BY <1>1 DEF Bucket
  <2>2. \A h \in Bucket(p, c) : size'[h] = size[h]
    BY <1>1 DEF Bucket
  <2>3. QED
    BY <2>1, <2>2, BytesKept DEF Bytes
<1>4. \A h \in At(InPool(p))' : key'[h] \in Classes
  BY <1>1 DEF PoolOK
<1>5. QED
  BY <1>2, <1>3, <1>4 DEF PoolOK

LEMMA TlUntouched ==
  ASSUME NEW S \in SUBSET Handles, NEW x, Relocate(S, x),
         NEW t \in Threads, TlOK(t), InTl(t) # x, S \cap At(InTl(t)) = {},
         tlBytes'[t] = tlBytes[t]
  PROVE  TlOK(t)'
<1>1. /\ At(InTl(t))' = At(InTl(t))
      /\ \A h \in At(InTl(t)) : size'[h] = size[h]
  BY UntouchedAt
<1>2. Bytes(At(InTl(t)))' = Bytes(At(InTl(t)))
  BY <1>1, BytesKept DEF Bytes
<1>3. Cardinality(At(InTl(t)))' = Cardinality(At(InTl(t)))
  BY <1>1, Zenon
<1>4. QED
  BY <1>2, <1>3 DEF TlOK

\* A thread-local cache that receives h under a class.
LEMMA TlGains ==
  ASSUME NEW h \in Handles, NEW t \in Threads, TlOK(t), h \notin At(InTl(t)),
         Relocate({h}, InTl(t)), size' = size, size[h] \in 0..MaxSize,
         TlAccepts(t, h), tlBytes'[t] = tlBytes[t] + size[h]
  PROVE  TlOK(t)'
<1> DEFINE S == At(InTl(t))
<1>1. S' = S \cup {h}
  BY RelocateAt
<1>2. IsFiniteSet(S) /\ Cardinality(S) \in Nat
  BY AtFinite, FS_CardinalityType
<1>3. MaxSize \in Nat /\ TlSlots \in Nat
  BY SizeAssumption, LimitAssumption
<1>4. BytesOf(size', S', MaxSize) = BytesOf(size, S, MaxSize) + size'[h]
  BY <1>1, <1>2, <1>3, BytesGrown
<1>5. Bytes(S)' = Bytes(S) + size[h]
  BY <1>4 DEF Bytes
<1>6. Cardinality(S') = Cardinality(S) + 1
  <2>1. Cardinality(S \cup {h}) = Cardinality(S) + 1
    BY <1>2, FS_AddElement
  <2>2. QED
    BY <1>1, <2>1, Zenon
<1>7. Cardinality(S') <= TlSlots
  BY <1>2, <1>3, <1>6 DEF TlAccepts
<1>8. QED
  BY <1>5, <1>7 DEF TlOK, TlAccepts

\* A thread-local cache that gives up h.
LEMMA TlLoses ==
  ASSUME NEW h \in Handles, NEW t \in Threads, TlOK(t), h \in At(InTl(t)),
         NEW x, x # InTl(t), Relocate({h}, x), size' = size,
         size[h] \in 0..MaxSize,
         tlBytes'[t] = IF tlBytes[t] >= size[h] THEN tlBytes[t] - size[h] ELSE 0
  PROVE  TlOK(t)'
<1> DEFINE S == At(InTl(t))
<1>1. S' = S \ {h}
  BY RelocateAt
<1>2. IsFiniteSet(S) /\ Cardinality(S) \in Nat
  BY AtFinite, FS_CardinalityType
<1>3. MaxSize \in Nat /\ TlSlots \in Nat /\ TlMaxBytes \in Nat
  BY SizeAssumption, LimitAssumption
<1>4. /\ BytesOf(size', S', MaxSize) = BytesOf(size, S, MaxSize) - size[h]
      /\ BytesOf(size', S', MaxSize) <= BytesOf(size, S, MaxSize)
      /\ BytesOf(size, S, MaxSize) \in Nat
      /\ BytesOf(size', S', MaxSize) \in Nat
  <2>1. IsFiniteSet(S')
    BY <1>1, <1>2, FS_RemoveElement
  <2>2. QED
    BY <1>1, <1>2, <1>3, <2>1, BytesShrunk, BytesType
<1>5. /\ Bytes(S)' = Bytes(S) - size[h]
      /\ Bytes(S) \in Nat
      /\ Bytes(S)' \in Nat
  BY <1>4 DEF Bytes
<1>6. Cardinality(S') = Cardinality(S) - 1
  <2>1. Cardinality(S \ {h}) = Cardinality(S) - 1
    BY <1>2, FS_RemoveElement
  <2>2. QED
    BY <1>1, <2>1, Zenon
<1>7. Cardinality(S') <= TlSlots
  BY <1>2, <1>3, <1>6 DEF TlOK
<1>8. size[h] \in Nat /\ tlBytes[t] = Bytes(S)
  BY <1>3 DEF TlOK
<1>9. tlBytes'[t] = Bytes(S)' /\ Bytes(S)' <= TlMaxBytes
  <2> HIDE DEF S
  <2>1. Bytes(S) <= TlMaxBytes
    BY DEF TlOK, S
  <2>2. QED
    BY <1>3, <1>5, <1>8, <2>1
<1>10. QED
  BY <1>7, <1>9 DEF TlOK

\* A thread-local cache that gives up everything.
LEMMA TlEmptied ==
  ASSUME NEW t \in Threads, NEW x, x # InTl(t), Relocate(At(InTl(t)), x),
         tlBytes'[t] = 0
  PROVE  TlOK(t)'
<1>1. At(InTl(t)) \in SUBSET Handles
  BY DEF At
<1>2. At(InTl(t))' = {}
  BY <1>1, RelocateAt
<1>3. Bytes(At(InTl(t)))' = 0
  <2>1. BytesOf(size', {}, MaxSize) = 0
    BY BytesEmpty, SizeAssumption
  <2>2. QED
    BY <1>2, <2>1, Zenon DEF Bytes
<1>4. Cardinality(At(InTl(t)))' = 0
  BY <1>2, FS_EmptySet, Zenon
<1>5. QED
  BY <1>3, <1>4, LimitAssumption DEF TlOK

\* A pool that receives h.
LEMMA PoolGains ==
  ASSUME NEW h \in Handles, NEW p \in Pools, PoolOK(p), h \notin At(InPool(p)),
         Relocate({h}, InPool(p)), size' = size, size[h] \in 0..MaxSize,
         key'[h] = SizeClass(size[h]), Fits(p, h),
         cached \in [Pools -> Int], bucketBytes \in [Pools -> [Classes -> Int]],
         CountIn(p, h)
  PROVE  PoolOK(p)'
<1> DEFINE S == At(InPool(p))
           B(c) == Bucket(p, c)
<1>1. S' = S \cup {h} /\ \A g \in S : key'[g] = key[g] /\ size'[g] = size[g]
  BY RelocateAt DEF Relocate, At
<1>2. MaxSize \in Nat /\ IsFiniteSet(S) /\ \A c : IsFiniteSet(B(c))
  BY AtFinite, BucketFinite, SizeAssumption
<1>3. Bytes(S)' = Bytes(S) + size[h]
  <2>1. BytesOf(size', S', MaxSize) = BytesOf(size, S, MaxSize) + size'[h]
    BY <1>1, <1>2, BytesGrown
  <2>2. QED
    BY <2>1 DEF Bytes
<1>4. cached'[p] = cached[p] + size[h]
  BY DEF CountIn
<1>5. ASSUME NEW c \in Classes
      PROVE  bucketBytes'[p][c] = Bytes(B(c))'
  <2>1. /\ c = SizeClass(size[h]) => B(c)' = B(c) \cup {h}
        /\ c # SizeClass(size[h]) => B(c)' = B(c)
        /\ h \notin B(c)
    BY <1>1 DEF Bucket
  <2>2. \A g \in B(c) : size'[g] = size[g]
    BY <1>1 DEF Bucket
  <2>3. bucketBytes[p][c] = Bytes(B(c))
    BY DEF PoolOK
  <2>4. CASE c = SizeClass(size[h])
    <3>1. BytesOf(size', B(c)', MaxSize) = BytesOf(size, B(c), MaxSize) + size'[h]
      BY <1>2, <2>1, <2>2, <2>4, BytesGrown
    <3>2. bucketBytes'[p][c] = bucketBytes[p][c] + size[h]
      BY <2>4 DEF CountIn
    <3>3. QED
      BY <2>3, <3>1, <3>2 DEF Bytes
  <2>5. CASE c # SizeClass(size[h])
    <3>1. BytesOf(size', B(c)', MaxSize) = BytesOf(size, B(c), MaxSize)
      BY <2>1, <2>2, <2>5, BytesKept
    <3>2. bucketBytes'[p][c] = bucketBytes[p][c]
      BY <2>5 DEF CountIn
    <3>3. QED
      BY <2>3, <3>1, <3>2 DEF Bytes
  <2>6. QED
    BY <2>4, <2>5
<1>6. \A g \in S' : key'[g] \in Classes
  BY <1>1, SizeClassProperties DEF PoolOK
<1>7. cached'[p] = Bytes(S)' /\ Bytes(S)' <= MaxCachedBytes[p]
  <2>1. cached[p] = Bytes(S) /\ cached[p] + size[h] <= MaxCachedBytes[p]
    BY DEF PoolOK, Fits
  <2>2. QED
    BY <1>3, <1>4, <2>1, Zenon
<1>8. QED
  BY <1>5, <1>6, <1>7 DEF PoolOK

\* A pool that gives up h.
LEMMA PoolLoses ==
  ASSUME NEW h \in Handles, NEW p \in Pools, PoolOK(p), h \in At(InPool(p)),
         NEW x, x # InPool(p), Relocate({h}, x), size[h] \in 0..MaxSize,
         cached \in [Pools -> Int], bucketBytes \in [Pools -> [Classes -> Int]],
         CountOut(p, h)
  PROVE  PoolOK(p)'
<1> DEFINE S == At(InPool(p))
           B(c) == Bucket(p, c)
<1>1. S' = S \ {h} /\ \A g \in S : g # h => key'[g] = key[g] /\ size'[g] = size[g]
  BY RelocateAt DEF Relocate, At
<1>2. MaxSize \in Nat /\ IsFiniteSet(S) /\ \A c : IsFiniteSet(B(c))
  BY AtFinite, BucketFinite, SizeAssumption
<1>3. /\ Bytes(S)' = Bytes(S) - size[h]
      /\ Bytes(S)' <= Bytes(S)
  <2>1. /\ BytesOf(size', S', MaxSize) = BytesOf(size, S, MaxSize) - size[h]
        /\ BytesOf(size', S', MaxSize) <= BytesOf(size, S, MaxSize)
    BY <1>1, <1>2, BytesShrunk
  <2>2. QED
    BY <2>1 DEF Bytes
<1>4. cached'[p] = cached[p] - size[h]
  BY DEF CountOut
<1>5. ASSUME NEW c \in Classes
      PROVE  bucketBytes'[p][c] = Bytes(B(c))'
  <2>1. /\ c = key[h] => h \in B(c) /\ B(c)' = B(c) \ {h}
        /\ c # key[h] => h \notin B(c) /\ B(c)' = B(c)
    BY <1>1 DEF Bucket
  <2>2. \A g \in B(c) : g # h => size'[g] = size[g]
    BY <1>1 DEF Bucket
  <2>3. bucketBytes[p][c] = Bytes(B(c))
    BY DEF PoolOK
  <2>4. CASE c = key[h]
    <3>1. BytesOf(size', B(c)', MaxSize) = BytesOf(size, B(c), MaxSize) - size[h]
      BY <1>2, <2>1, <2>2, <2>4, BytesShrunk
    <3>2. bucketBytes'[p][c] = bucketBytes[p][c] - size[h]
      BY <2>4 DEF CountOut
    <3>3. QED
      BY <2>3, <3>1, <3>2 DEF Bytes
  <2>5. CASE c # key[h]
    <3>1. BytesOf(size', B(c)', MaxSize) = BytesOf(size, B(c), MaxSize)
      BY <2>1, <2>2, <2>5, BytesKept
    <3>2. bucketBytes'[p][c] = bucketBytes[p][c]
      BY <2>5 DEF CountOut
    <3>3. QED
      BY <2>3, <3>1, <3>2 DEF Bytes
  <2>6. QED
    BY <2>4, <2>5
<1>6. \A g \in S' : key'[g] \in Classes
  BY <1>1 DEF PoolOK
<1>7. cached'[p] = Bytes(S)'
  <2>1. cached[p] = Bytes(S)
    BY DEF PoolOK
  <2>2. QED
    BY <1>3, <1>4, <2>1, Zenon
<1>8. Bytes(S)' <= MaxCachedBytes[p]
  <2>1. Bytes(S) \in Nat
    BY <1>2, BytesType DEF Bytes
  <2>2. size[h] \in Nat
    BY <1>2
  <2>3. MaxCachedBytes[p] \in Nat
    BY LimitAssumption
  <2>4. Bytes(S) <= MaxCachedBytes[p]
    BY DEF PoolOK
  <2>5. QED
    <3> HIDE DEF S
    <3>1. QED
      BY <1>3, <2>1, <2>2, <2>3, <2>4
<1>9. QED
  BY <1>5, <1>6, <1>7, <1>8 DEF PoolOK

\* A pool that gives up everything.
LEMMA PoolEmptied ==
  ASSUME NEW p \in Pools, NEW x, x # InPool(p), Relocate(At(InPool(p)), x),
         cached'[p] = 0, bucketBytes'[p] = [c \in Classes |-> 0]
  PROVE  PoolOK(p)'
<1>1. At(InPool(p)) \in SUBSET Handles
  BY DEF At
<1>2. At(InPool(p))' = {}
  BY <1>1, RelocateAt
<1>3. BytesOf(size', {}, MaxSize) = 0
  BY BytesEmpty, SizeAssumption
<1>4. Bytes(At(InPool(p)))' = 0
  BY <1>2, <1>3, Zenon DEF Bytes
<1>5. ASSUME NEW c \in Classes
      PROVE  Bytes(Bucket(p, c))' = 0
  <2>1. Bucket(p, c)' = {}
    BY <1>2 DEF Bucket
  <2>2. QED
    BY <1>3, <2>1, Zenon DEF Bytes
<1>6. MaxCachedBytes[p] \in Nat
  BY LimitAssumption
<1>7. QED
  BY <1>2, <1>4, <1>5, <1>6 DEF PoolOK

-------------------------------------------------------------------------------
(* What the effects of the operations do to the handles' types and places.   *)

LEMMA MoveRelocates ==
  ASSUME HandleTypes, NEW S \in SUBSET Handles, NEW x \in Places,
         NEW w \in 0..MaxSize, Move(S, x, w), size' \in [Handles -> 0..MaxSize],
         \A h \in Handles \ S : size'[h] = size[h]
  PROVE  Relocate(S, x) /\ HandleTypes'
BY DEF Relocate, HandleTypes, Move

LEMMA FileRelocates ==
  ASSUME HandleTypes, NEW h \in Handles, NEW x \in Places, File(h, x)
  PROVE  Relocate({h}, x) /\ HandleTypes' /\ key'[h] = SizeClass(size[h])
<1>1. SizeClass(size[h]) \in Classes
  BY SizeClassProperties DEF HandleTypes
<1>2. 0 \in 0..MaxSize
  BY SizeTypes
<1>3. QED
  BY <1>1, <1>2 DEF Relocate, HandleTypes, File

LEMMA FreeRelocates ==
  ASSUME HandleTypes, NEW S \in SUBSET Handles, Free(S)
  PROVE  Relocate(S, Nowhere) /\ HandleTypes'
<1>1. 0 \in 0..MaxSize
  BY SizeTypes
<1>2. /\ size' \in [Handles -> 0..MaxSize]
      /\ \A h \in Handles \ S : size'[h] = size[h]
  BY <1>1 DEF Free, HandleTypes
<1>3. QED
  BY <1>1, <1>2, MoveRelocates, PlacesType DEF Free

LEMMA AllocRelocates ==
  ASSUME HandleTypes, NEW h \in Handles, NEW n \in 0..MaxSize, NEW x \in Places,
         NEW w \in 0..MaxSize, Alloc(h, n, x, w)
  PROVE  Relocate({h}, x) /\ HandleTypes' /\ {h} \in SUBSET At(Nowhere)
<1>1. /\ size' \in [Handles -> 0..MaxSize]
      /\ \A g \in Handles \ {h} : size'[g] = size[g]
  BY DEF Alloc, HandleTypes
<1>2. {h} \in SUBSET At(Nowhere)
  BY DEF Alloc, At
<1>3. QED
  BY <1>1, <1>2, MoveRelocates DEF Alloc

-------------------------------------------------------------------------------
(* Stored is kept: by a step that moves no handle, by one that moves handles *)
(* outside the caches, by one on a thread-local cache and by one on a pool.  *)

LEMMA Elsewhere ==
  ASSUME NEW y, NEW S \in SUBSET At(y), NEW z, z # y
  PROVE  S \cap At(z) = {} /\ S \in SUBSET Handles
BY DEF At

LEMMA StoredStill ==
  ASSUME Stored, UNCHANGED <<handleVars, poolVars, tlBytes>>
  PROVE  Stored'
<1>1. HandleTypes' /\ CountTypes'
  BY DEF Stored, HandleTypes, CountTypes, handleVars, poolVars
<1>2. ASSUME NEW p \in Pools
      PROVE  PoolOK(p)'
  <2>1. Relocate({}, Nowhere)
    BY DEF Relocate, handleVars
  <2>2. QED
    BY <2>1, PoolUntouched, PlacesApart DEF Stored, poolVars
<1>3. ASSUME NEW t \in Threads
      PROVE  TlOK(t)'
  <2>1. Relocate({}, Nowhere)
    BY DEF Relocate, handleVars
  <2>2. QED
    BY <2>1, TlUntouched, PlacesApart DEF Stored
<1>4. QED
  BY <1>1, <1>2, <1>3 DEF Stored

LEMMA StoredOutside ==
  ASSUME Stored, NEW x, NEW y, NEW S \in SUBSET At(y), Relocate(S, x),
         HandleTypes', UNCHANGED <<poolVars, tlBytes>>,
         \A p \in Pools : InPool(p) # x /\ InPool(p) # y,
         \A t \in Threads : InTl(t) # x /\ InTl(t) # y
  PROVE  Stored'
<1>1. CountTypes'
  BY DEF Stored, CountTypes, poolVars
<1>2. ASSUME NEW p \in Pools
      PROVE  PoolOK(p)'
  BY Elsewhere, PoolUntouched DEF Stored, poolVars
<1>3. ASSUME NEW t \in Threads
      PROVE  TlOK(t)'
  BY Elsewhere, TlUntouched DEF Stored
<1>4. QED
  BY <1>1, <1>2, <1>3 DEF Stored

LEMMA StoredTl ==
  ASSUME Stored, NEW t \in Threads,
         NEW x \in {Nowhere, Held(t), InCall(t), InTl(t)},
         NEW y \in {Nowhere, Held(t), InCall(t), InTl(t)},
         NEW S \in SUBSET At(y), Relocate(S, x), HandleTypes', UNCHANGED poolVars,
         TlOK(t)', NEW n \in Int, tlBytes' = [tlBytes EXCEPT ![t] = n]
  PROVE  Stored'
<1>0. /\ \A p \in Pools : InPool(p) # x /\ InPool(p) # y
      /\ \A u \in Threads \ {t} : InTl(u) # x /\ InTl(u) # y
  BY PlacesApart, PlacesDistinct
<1>1. CountTypes'
  BY DEF Stored, CountTypes, poolVars
<1>2. ASSUME NEW p \in Pools
      PROVE  PoolOK(p)'
  BY <1>0, Elsewhere, PoolUntouched DEF Stored, poolVars
<1>3. ASSUME NEW u \in Threads \ {t}
      PROVE  TlOK(u)'
  <2>1. tlBytes'[u] = tlBytes[u]
    BY DEF Stored, CountTypes
  <2>2. QED
    BY <1>0, <2>1, Elsewhere, TlUntouched DEF Stored
<1>4. QED
  BY <1>1, <1>2, <1>3 DEF Stored

LEMMA StoredPool ==
  ASSUME Stored, NEW p \in Pools, NEW u \in Threads,
         NEW x \in {Nowhere, Held(u), InCall(u), InPool(p)},
         NEW y \in {Nowhere, Held(u), InCall(u), InPool(p)},
         NEW S \in SUBSET At(y), Relocate(S, x), HandleTypes', UNCHANGED tlBytes,
         PoolOK(p)', NEW n \in Int, cached' = [cached EXCEPT ![p] = n],
         NEW b \in [Classes -> Int], bucketBytes' = [bucketBytes EXCEPT ![p] = b]
  PROVE  Stored'
<1>0. /\ \A q \in Pools \ {p} : InPool(q) # x /\ InPool(q) # y
      /\ \A t \in Threads : InTl(t) # x /\ InTl(t) # y
  BY PlacesApart, PlacesDistinct
<1>1. CountTypes'
  BY DEF Stored, CountTypes
<1>2. ASSUME NEW q \in Pools \ {p}
      PROVE  PoolOK(q)'
  <2>1. cached'[q] = cached[q] /\ bucketBytes'[q] = bucketBytes[q]
    BY DEF Stored, CountTypes
  <2>2. S \cap At(InPool(q)) = {} /\ InPool(q) # x /\ S \in SUBSET Handles
    BY <1>0, Elsewhere
  <2>3. QED
    BY <2>1, <2>2, PoolUntouched DEF Stored
<1>3. ASSUME NEW t \in Threads
      PROVE  TlOK(t)'
  BY <1>0, Elsewhere, TlUntouched DEF Stored
<1>4. QED
  BY <1>1, <1>2, <1>3 DEF Stored

\* PoolBucket::push: a handle of a call goes into a bucket.
LEMMA StoredPush ==
  ASSUME Stored, NEW p \in Pools, NEW t \in Threads, NEW h \in At(InCall(t)),
         Fits(p, h), CountIn(p, h), File(h, InPool(p)), UNCHANGED tlBytes
  PROVE  Stored'
<1> DEFINE c == SizeClass(size[h])
           b == [bucketBytes[p] EXCEPT ![c] = @ + size[h]]
<1>1. h \in Handles /\ HandleTypes /\ CountTypes /\ PoolOK(p)
  BY DEF Stored, At
<1>2. size[h] \in 0..MaxSize /\ size[h] \in Int /\ c \in Classes
  BY <1>1, SizeTypes, SizeClassProperties DEF HandleTypes
<1>3. Relocate({h}, InPool(p)) /\ HandleTypes' /\ key'[h] = SizeClass(size[h])
  BY <1>1, FileRelocates, PlacesType
<1>4. h \notin At(InPool(p))
  BY PlacesApart DEF At
<1>5. PoolOK(p)'
  BY <1>1, <1>2, <1>3, <1>4, PoolGains DEF CountTypes, File
<1>6. /\ cached[p] + size[h] \in Int
      /\ cached' = [cached EXCEPT ![p] = cached[p] + size[h]]
  BY <1>1, <1>2 DEF CountIn, CountTypes
<1>7. b \in [Classes -> Int] /\ bucketBytes' = [bucketBytes EXCEPT ![p] = b]
  BY <1>1, <1>2 DEF CountIn, CountTypes
<1>8. {h} \in SUBSET At(InCall(t))
  OBVIOUS
<1> HIDE DEF b, c
<1>9. QED
  BY <1>3, <1>5, <1>6, <1>7, <1>8, StoredPool

\* PoolBucket::pop: a handle leaves a bucket, and the caches.
LEMMA StoredPop ==
  ASSUME Stored, NEW p \in Pools, NEW h \in At(InPool(p)), NEW t \in Threads,
         NEW x \in {Nowhere, Held(t)}, Relocate({h}, x), HandleTypes',
         CountOut(p, h), UNCHANGED tlBytes
  PROVE  Stored'
<1> DEFINE b == [bucketBytes[p] EXCEPT ![key[h]] = @ - size[h]]
<1>1. h \in Handles /\ HandleTypes /\ CountTypes /\ PoolOK(p)
  BY DEF Stored, At
<1>2. size[h] \in 0..MaxSize /\ size[h] \in Int /\ key[h] \in Classes
  BY <1>1, SizeTypes DEF HandleTypes, PoolOK
<1>3. PoolOK(p)'
  <2>1. x # InPool(p)
    BY PlacesApart
  <2>2. QED
    BY <1>1, <1>2, <2>1, PoolLoses DEF CountTypes
<1>4. /\ cached[p] - size[h] \in Int
      /\ cached' = [cached EXCEPT ![p] = cached[p] - size[h]]
  BY <1>1, <1>2 DEF CountOut, CountTypes
<1>5. b \in [Classes -> Int] /\ bucketBytes' = [bucketBytes EXCEPT ![p] = b]
  BY <1>1, <1>2 DEF CountOut, CountTypes
<1>6. {h} \in SUBSET At(InPool(p))
  OBVIOUS
<1>7. /\ x \in {Nowhere, Held(t), InCall(t), InPool(p)}
      /\ InPool(p) \in {Nowhere, Held(t), InCall(t), InPool(p)}
  OBVIOUS
<1> HIDE DEF b
<1>8. QED
  BY <1>3, <1>4, <1>5, <1>6, <1>7, StoredPool

\* Handles move between callers, calls and the system's memory.
LEMMA StoredOutOfCaches ==
  ASSUME Stored, NEW t \in Threads, NEW u \in Threads,
         NEW x \in {Nowhere, Held(t), InCall(t)},
         NEW y \in {Nowhere, Held(u), InCall(u)},
         NEW S \in SUBSET At(y), Relocate(S, x),
         HandleTypes', UNCHANGED <<poolVars, tlBytes>>
  PROVE  Stored'
<1>1. /\ \A p \in Pools : InPool(p) # x /\ InPool(p) # y
      /\ \A v \in Threads : InTl(v) # x /\ InTl(v) # y
  BY PlacesApart
<1>2. QED
  BY <1>1, StoredOutside

-------------------------------------------------------------------------------
(* Calls.                                                                    *)

LockType == lock \in [Pools -> Threads \cup {NoThread}]

LEMMA CallBegun ==
  ASSUME CallTypes, CallsOK, LockType', NEW t \in Threads, NEW p \in Pools,
         NEW n \in Nat, NEW k \in Nat,
         NEW step \in {"lookup", "put", "warm_alloc", "trim"},
         step \in {"lookup", "warm_alloc"} => n \in Requests,
         BeginCall(t, step, p, n, k)
  PROVE  (CallTypes /\ CallsOK)'
<1>1. CallTypes'
  BY DEF CallTypes, LockType, BeginCall
<1>2. CallsOK'
  BY DEF CallTypes, CallsOK, BeginCall
<1>3. QED
  BY <1>1, <1>2

LEMMA CallEnded ==
  ASSUME CallTypes, CallsOK, LockType', NEW t \in Threads, EndCall(t)
  PROVE  (CallTypes /\ CallsOK)'
<1>1. CallTypes'
  BY DEF CallTypes, LockType, EndCall
<1>2. CallsOK'
  BY DEF CallTypes, CallsOK, EndCall
<1>3. QED
  BY <1>1, <1>2

LEMMA CallGoesOn ==
  ASSUME CallTypes, CallsOK, LockType', UNCHANGED callVars
  PROVE  (CallTypes /\ CallsOK)'
BY DEF CallTypes, CallsOK, LockType, callVars

-------------------------------------------------------------------------------
(* Every action keeps the invariant.                                         *)

LEMMA InitOK == Init => IInv
<1> SUFFICES ASSUME Init PROVE IInv
  OBVIOUS
<1>1. \A x : x # Nowhere => At(x) = {}
  BY DEF Init, At
<1>2. BytesOf(size, {}, MaxSize) = 0 /\ 0 \in 0..MaxSize
  BY BytesEmpty, SizeAssumption
<1>3. HandleTypes /\ CountTypes
  BY <1>2, PlacesType DEF Init, HandleTypes, CountTypes
<1>4. ASSUME NEW p \in Pools
      PROVE  PoolOK(p)
  <2>1. At(InPool(p)) = {}
    BY <1>1, PlacesApart
  <2>2. \A c : Bucket(p, c) = {}
    BY <2>1 DEF Bucket
  <2>3. Bytes(At(InPool(p))) = 0 /\ \A c : Bytes(Bucket(p, c)) = 0
    BY <1>2, <2>1, <2>2, Zenon DEF Bytes
  <2>4. MaxCachedBytes[p] \in Nat
    BY LimitAssumption
  <2>5. QED
    BY <2>1, <2>3, <2>4 DEF PoolOK, Init
<1>5. ASSUME NEW t \in Threads
      PROVE  TlOK(t)
  <2>1. At(InTl(t)) = {}
    BY <1>1, PlacesApart
  <2>2. Bytes(At(InTl(t))) = 0 /\ Cardinality(At(InTl(t))) = 0
    BY <1>2, <2>1, FS_EmptySet, Zenon DEF Bytes
  <2>3. QED
    BY <2>2, LimitAssumption DEF TlOK, Init
<1>6. CallTypes /\ CallsOK
  BY DEF Init, CallTypes, CallsOK
<1>7. QED
  BY <1>3, <1>4, <1>5, <1>6 DEF IInv, Stored

LEMMA CallerKeepsIInv ==
  ASSUME IInv, NEW t \in Threads, Caller(t)
  PROVE  IInv'
<1>1. Stored /\ HandleTypes /\ CountTypes /\ CallTypes /\ CallsOK /\ TlOK(t)
  BY DEF IInv, Stored
<1>2. LockType /\ 0 \in Nat /\ 0 \in 0..MaxSize
  BY <1>1, SizeTypes DEF CallTypes, LockType
<1>3. CASE AllocDirect(t)
  <2>1. PICK h \in Handles, n \in DirectSizes : Alloc(h, n, Held(t), 0)
    BY <1>3 DEF AllocDirect
  <2>2. Relocate({h}, Held(t)) /\ HandleTypes' /\ {h} \in SUBSET At(Nowhere)
    BY <1>1, <1>2, <2>1, AllocRelocates, SizeTypes, PlacesType
  <2>3. Stored'
    BY <1>1, <1>3, <2>2, StoredOutOfCaches DEF AllocDirect
  <2>4. QED
    BY <1>1, <1>2, <1>3, <2>3, CallGoesOn DEF AllocDirect, LockType, IInv
<1>4. CASE DropHandle(t)
  <2>1. PICK h \in At(Held(t)) : Free({h})
    BY <1>4 DEF DropHandle
  <2>2. Relocate({h}, Nowhere) /\ HandleTypes'
    BY <1>1, <2>1, FreeRelocates DEF At
  <2>3. Stored'
    BY <1>1, <1>4, <2>2, StoredOutOfCaches DEF DropHandle
  <2>4. QED
    BY <1>1, <1>2, <1>4, <2>3, CallGoesOn DEF DropHandle, LockType, IInv
<1>5. ASSUME NEW u \in Threads, SendHandle(t, u)
      PROVE  IInv'
  <2>1. PICK h \in At(Held(t)) : place' = [place EXCEPT ![h] = Held(u)]
    BY <1>5 DEF SendHandle
  <2>2. Relocate({h}, Held(u))
    BY <1>1, <1>5, <2>1 DEF Relocate, HandleTypes, SendHandle
  <2>3. HandleTypes'
    BY <1>1, <1>5, <2>1, PlacesType DEF HandleTypes, SendHandle
  <2>4. Stored'
    BY <1>1, <1>5, <2>2, <2>3, StoredOutOfCaches DEF SendHandle
  <2>5. QED
    BY <1>1, <1>2, <1>5, <2>4, CallGoesOn DEF SendHandle, LockType, IInv
<1>6. CASE ThreadExit(t)
  <2>1. At(InTl(t)) \in SUBSET Handles
    BY DEF At
  <2>2. Relocate(At(InTl(t)), Nowhere) /\ HandleTypes'
    BY <1>1, <1>6, <2>1, FreeRelocates DEF ThreadExit
  <2>3. TlOK(t)'
    BY <1>1, <1>6, <2>2, TlEmptied, PlacesApart DEF ThreadExit, CountTypes
  <2>4. Stored'
    <3> DEFINE S == At(InTl(t))
               zero == 0
    <3>1. zero \in Int /\ tlBytes' = [tlBytes EXCEPT ![t] = zero]
      BY <1>6 DEF ThreadExit
    <3>2. S \in SUBSET At(InTl(t))
      OBVIOUS
    <3>3. Relocate(S, Nowhere) /\ UNCHANGED poolVars
      BY <1>6, <2>2 DEF ThreadExit
    <3> HIDE DEF zero, S
    <3>4. QED
      BY <1>1, <2>2, <2>3, <3>1, <3>2, <3>3, StoredTl
  <2>5. QED
    BY <1>1, <1>2, <1>6, <2>4, CallGoesOn DEF ThreadExit, LockType, IInv
<1>7. CASE FastAcquireHit(t)
  <2>0. PICK n \in Requests : \E h \in TlMatches(t, n) :
          /\ Move({h}, Held(t), n)
          /\ tlBytes' = [tlBytes EXCEPT
                           ![t] = IF @ >= size[h] THEN @ - size[h] ELSE 0]
    BY <1>7 DEF FastAcquireHit
  <2>1. PICK h \in TlMatches(t, n) :
          /\ Move({h}, Held(t), n)
          /\ tlBytes' = [tlBytes EXCEPT
                           ![t] = IF @ >= size[h] THEN @ - size[h] ELSE 0]
    BY <2>0
  <2>2. h \in At(InTl(t)) /\ h \in Handles /\ size[h] \in 0..MaxSize
    BY <1>1 DEF TlMatches, At, HandleTypes
  <2>3. size' = size
    BY <1>7 DEF FastAcquireHit
  <2>4. Relocate({h}, Held(t)) /\ HandleTypes'
    <3>1. n \in 0..MaxSize /\ size' \in [Handles -> 0..MaxSize]
      BY <1>1, <2>3, SizeTypes DEF HandleTypes
    <3>2. QED
      BY <1>1, <2>1, <2>2, <2>3, <3>1, MoveRelocates, PlacesType
  <2> DEFINE v == IF tlBytes[t] >= size[h] THEN tlBytes[t] - size[h] ELSE 0
  <2>5. v \in Int /\ tlBytes' = [tlBytes EXCEPT ![t] = v] /\ tlBytes'[t] = v
    BY <1>1, <2>1, <2>2, SizeTypes DEF CountTypes
  <2>6. TlOK(t)'
    BY <1>1, <2>2, <2>3, <2>4, <2>5, TlLoses, PlacesApart
  <2>7. {h} \in SUBSET At(InTl(t))
    BY <2>2
  <2> HIDE DEF v
  <2>8. Stored'
    BY <1>1, <1>7, <2>4, <2>5, <2>6, <2>7, StoredTl
    DEF FastAcquireHit
  <2>9. QED
    BY <1>1, <1>2, <1>7, <2>8, CallGoesOn DEF FastAcquireHit, LockType, IInv
<1>8. CASE FastReleaseTl(t)
  <2>1. PICK h \in At(Held(t)) :
          /\ TlAccepts(t, h)
          /\ File(h, InTl(t))
          /\ tlBytes' = [tlBytes EXCEPT ![t] = @ + size[h]]
    BY <1>8 DEF FastReleaseTl
  <2>2. h \in Handles /\ h \notin At(InTl(t)) /\ size[h] \in 0..MaxSize
    BY <1>1, PlacesApart DEF At, HandleTypes
  <2>3. Relocate({h}, InTl(t)) /\ HandleTypes' /\ size' = size
    BY <1>1, <2>1, <2>2, FileRelocates, PlacesType DEF File
  <2> DEFINE v == tlBytes[t] + size[h]
  <2>4. v \in Int /\ tlBytes' = [tlBytes EXCEPT ![t] = v] /\ tlBytes'[t] = v
    BY <1>1, <2>1, <2>2, SizeTypes DEF CountTypes
  <2>5. TlOK(t)'
    BY <1>1, <2>1, <2>2, <2>3, <2>4, TlGains
  <2> HIDE DEF v
  <2>6. Stored'
    BY <1>1, <1>8, <2>3, <2>4, <2>5, StoredTl
    DEF FastReleaseTl
  <2>7. QED
    BY <1>1, <1>2, <1>8, <2>6, CallGoesOn DEF FastReleaseTl, LockType, IInv
<1>9. ASSUME NEW p \in Pools, Acquire(t, p)
      PROVE  IInv'
  <2>1. PICK n \in Requests : BeginCall(t, "lookup", p, n, 0)
    BY <1>9 DEF Acquire
  <2>2. Stored' /\ LockType'
    BY <1>1, <1>2, <1>9, StoredStill DEF Acquire, LockType
  <2>3. QED
    BY <1>1, <1>2, <2>1, <2>2, CallBegun, SizeTypes DEF IInv
<1>10. ASSUME NEW p \in Pools, FastAcquireMiss(t, p)
       PROVE  IInv'
  <2>1. PICK n \in Requests : BeginCall(t, "lookup", p, n, 0)
    BY <1>10 DEF FastAcquireMiss
  <2>2. Stored' /\ LockType'
    BY <1>1, <1>2, <1>10, StoredStill DEF FastAcquireMiss, LockType
  <2>3. QED
    BY <1>1, <1>2, <2>1, <2>2, CallBegun, SizeTypes DEF IInv
<1>11. ASSUME NEW p \in Pools, Release(t, p) \/ FastReleaseFull(t, p)
       PROVE  IInv'
  <2>1. PICK h \in At(Held(t)) : Move({h}, InCall(t), 0)
    BY <1>11 DEF Release, FastReleaseFull
  <2>2. BeginCall(t, "put", p, 0, 0) /\ UNCHANGED <<size, poolVars, tlBytes, lock>>
    BY <1>11 DEF Release, FastReleaseFull
  <2>3. Relocate({h}, InCall(t)) /\ HandleTypes'
    <3>1. size' \in [Handles -> 0..MaxSize] /\ {h} \in SUBSET Handles
      BY <1>1, <2>2 DEF HandleTypes, At
    <3>2. QED
      BY <1>1, <1>2, <2>1, <2>2, <3>1, MoveRelocates, PlacesType
  <2>4. Stored' /\ LockType'
    BY <1>1, <1>2, <2>2, <2>3, StoredOutOfCaches DEF LockType
  <2>5. QED
    BY <1>1, <1>2, <2>2, <2>4, CallBegun DEF IInv
<1>12. ASSUME NEW p \in Pools, DrainThreadLocal(t, p)
       PROVE  IInv'
  <2> DEFINE S == At(InTl(t))
  <2>1. /\ BeginCall(t, "put", p, 0, 0)
        /\ Move(S, InCall(t), 0)
        /\ tlBytes' = [tlBytes EXCEPT ![t] = 0]
        /\ UNCHANGED <<size, poolVars, lock>>
    BY <1>12 DEF DrainThreadLocal
  <2>2. Relocate(S, InCall(t)) /\ HandleTypes'
    <3>1. size' \in [Handles -> 0..MaxSize] /\ S \in SUBSET Handles
      BY <1>1, <2>1 DEF HandleTypes, At
    <3>2. QED
      BY <1>1, <1>2, <2>1, <3>1, MoveRelocates, PlacesType
  <2>3. TlOK(t)'
    BY <1>1, <2>1, <2>2, TlEmptied, PlacesApart DEF CountTypes
  <2>4. Stored'
    <3> DEFINE zero == 0
    <3>1. zero \in Int /\ tlBytes' = [tlBytes EXCEPT ![t] = zero]
      BY <2>1
    <3>2. S \in SUBSET At(InTl(t)) /\ UNCHANGED poolVars
      BY <2>1
    <3> HIDE DEF zero, S
    <3>3. QED
      BY <1>1, <2>2, <2>3, <3>1, <3>2, StoredTl
  <2>5. LockType'
    BY <1>2, <2>1 DEF LockType
  <2>6. QED
    BY <1>1, <1>2, <2>1, <2>4, <2>5, CallBegun DEF IInv
<1>13. ASSUME NEW p \in Pools, Warm(t, p)
       PROVE  IInv'
  <2>1. PICK n \in Requests, k \in WarmCounts : BeginCall(t, "warm_alloc", p, n, k)
    BY <1>13 DEF Warm
  <2>2. Stored' /\ LockType' /\ n \in Nat /\ k \in Nat
    BY <1>1, <1>2, <1>13, StoredStill, SizeTypes, LimitAssumption DEF Warm, LockType
  <2>3. QED
    BY <1>1, <2>1, <2>2, CallBegun DEF IInv
<1>14. ASSUME NEW p \in Pools, TrimLock(t, p)
       PROVE  IInv'
  <2>1. PICK keep \in KeepBytes : BeginCall(t, "trim", p, keep, 0)
    BY <1>14 DEF TrimLock
  <2>2. Stored' /\ LockType' /\ keep \in Nat
    BY <1>1, <1>2, <1>14, StoredStill, LimitAssumption DEF TrimLock, LockType
  <2>3. QED
    BY <1>1, <2>1, <2>2, CallBegun DEF IInv
<1>15. ASSUME NEW p \in Pools, Clear(t, p)
       PROVE  IInv'
  <2> DEFINE S == At(InPool(p))
             b == [c \in Classes |-> 0]
  <2>0. S \in SUBSET At(InPool(p))
    OBVIOUS
  <2>1. /\ Free(S)
        /\ cached' = [cached EXCEPT ![p] = 0]
        /\ bucketBytes' = [bucketBytes EXCEPT ![p] = b]
        /\ UNCHANGED <<tlBytes, lock, callVars>>
    BY <1>15 DEF Clear
  <2>2. S \in SUBSET Handles
    BY DEF At
  <2>3. Relocate(S, Nowhere) /\ HandleTypes'
    BY <1>1, <2>1, <2>2, FreeRelocates
  <2>4. cached'[p] = 0 /\ bucketBytes'[p] = b
    BY <1>1, <2>1 DEF CountTypes
  <2>5. PoolOK(p)'
    BY <2>3, <2>4, PoolEmptied, PlacesApart
  <2>6. b \in [Classes -> Int]
    OBVIOUS
  <2>7. Stored'
    <3> DEFINE zero == 0
    <3>1. zero \in Int /\ cached' = [cached EXCEPT ![p] = zero]
      BY <2>1
    <3>2. bucketBytes' = [bucketBytes EXCEPT ![p] = b] /\ UNCHANGED tlBytes
      BY <2>1
    <3> HIDE DEF b, zero, S
    <3>3. QED
      BY <1>1, <2>0, <2>3, <2>5, <2>6, <3>1, <3>2, StoredPool
  <2>8. QED
    BY <1>1, <1>2, <2>1, <2>7, CallGoesOn DEF LockType, IInv
<1>16. QED
  BY <1>3, <1>4, <1>5, <1>6, <1>7, <1>8, <1>9, <1>10, <1>11, <1>12, <1>13, <1>14,
     <1>15 DEF Caller

LEMMA StepKeepsIInv ==
  ASSUME IInv, NEW t \in Threads, Step(t)
  PROVE  IInv'
<1>1. Stored /\ HandleTypes /\ CountTypes /\ CallTypes /\ CallsOK
  BY DEF IInv, Stored
<1>2. LockType /\ 0 \in 0..MaxSize
  BY <1>1, SizeTypes DEF CallTypes, LockType
<1>3. pool[t] \in Pools
  BY <1>1 DEF CallsOK, CallTypes, Step, LookupHit, LookupMiss, AllocAfterMiss,
     AllocFails, Put, WarmAlloc, WarmAllocFails, WarmLock, WarmPush, WarmDone,
     TrimEvict, TrimDone
<1>4. CASE LookupHit(t)
  <2> DEFINE p == pool[t]
  <2>1. PICK h \in Bucket(p, SizeClass(arg[t])) :
          CountOut(p, h) /\ Move({h}, Held(t), arg[t])
    BY <1>4 DEF LookupHit
  <2>2. /\ h \in Handles /\ h \in At(InPool(p))
        /\ size' \in [Handles -> 0..MaxSize]
        /\ \A g \in Handles \ {h} : size'[g] = size[g]
    BY <1>1, <1>4 DEF Bucket, At, HandleTypes, LookupHit
  <2>3. arg[t] \in 0..MaxSize
    BY <1>1, <1>4, SizeTypes DEF CallsOK, LookupHit
  <2>4. Relocate({h}, Held(t)) /\ HandleTypes'
    BY <1>1, <2>1, <2>2, <2>3, MoveRelocates, PlacesType
  <2>5. Stored'
    BY <1>1, <1>3, <1>4, <2>1, <2>2, <2>4, StoredPop DEF LookupHit
  <2>6. QED
    BY <1>1, <1>2, <1>4, <2>5, CallEnded DEF LookupHit, LockType, IInv
<1>5. CASE LookupMiss(t)
  <2>1. Stored'
    BY <1>1, <1>5, StoredStill DEF LookupMiss
  <2>2. CallTypes' /\ CallsOK'
    BY <1>1, <1>5 DEF LookupMiss, CallTypes, CallsOK
  <2>3. QED
    BY <2>1, <2>2 DEF IInv
<1>6. CASE AllocAfterMiss(t)
  <2>1. PICK h \in Handles : Alloc(h, SizeClass(arg[t]), Held(t), arg[t])
    BY <1>6 DEF AllocAfterMiss
  <2>2. arg[t] \in 0..MaxSize /\ SizeClass(arg[t]) \in 0..MaxSize
    BY <1>1, <1>6, SizeTypes, SizeClassProperties DEF CallsOK, AllocAfterMiss
  <2>3. Relocate({h}, Held(t)) /\ HandleTypes' /\ {h} \in SUBSET At(Nowhere)
    BY <1>1, <2>1, <2>2, AllocRelocates, PlacesType
  <2>4. Stored'
    BY <1>1, <1>6, <2>3, StoredOutOfCaches DEF AllocAfterMiss
  <2>5. QED
    BY <1>1, <1>2, <1>6, <2>4, CallEnded DEF AllocAfterMiss, LockType, IInv
<1>7. CASE AllocFails(t)
  <2>1. Stored'
    BY <1>1, <1>7, StoredStill DEF AllocFails
  <2>2. QED
    BY <1>1, <1>2, <1>7, <2>1, CallEnded DEF AllocFails, LockType, IInv
<1>8. CASE Put(t)
  <2>1. PICK h \in At(InCall(t)) :
          /\ IF Fits(pool[t], h)
               THEN CountIn(pool[t], h) /\ File(h, InPool(pool[t]))
               ELSE Free({h}) /\ UNCHANGED poolVars
          /\ IF At(InCall(t)) = {h} THEN EndCall(t) ELSE UNCHANGED callVars
    BY <1>8 DEF Put
  <2>2. UNCHANGED <<tlBytes, lock>> /\ {h} \in SUBSET Handles
    BY <1>8 DEF Put, At
  <2>3. Stored'
    <3>1. CASE Fits(pool[t], h)
      BY <1>1, <1>3, <2>1, <2>2, <3>1, StoredPush
    <3>2. CASE ~Fits(pool[t], h)
      <4>1. Free({h}) /\ UNCHANGED poolVars
        BY <2>1, <3>2
      <4>2. Relocate({h}, Nowhere) /\ HandleTypes'
        BY <1>1, <2>2, <4>1, FreeRelocates
      <4>3. QED
        BY <1>1, <2>2, <4>1, <4>2, StoredOutOfCaches
    <3>3. QED
      BY <3>1, <3>2
  <2>4. LockType'
    BY <1>2, <2>2 DEF LockType
  <2>5. CallTypes' /\ CallsOK'
    BY <1>1, <2>1, <2>4, CallEnded, CallGoesOn
  <2>6. QED
    BY <2>3, <2>5 DEF IInv
<1>9. CASE WarmAlloc(t)
  <2>1. PICK h \in Handles : Alloc(h, SizeClass(arg[t]), InCall(t), 0)
    BY <1>9 DEF WarmAlloc
  <2>2. SizeClass(arg[t]) \in 0..MaxSize
    BY <1>1, <1>9, SizeTypes, SizeClassProperties DEF CallsOK, WarmAlloc
  <2>3. Relocate({h}, InCall(t)) /\ HandleTypes' /\ {h} \in SUBSET At(Nowhere)
    BY <1>1, <1>2, <2>1, <2>2, AllocRelocates, PlacesType
  <2>4. Stored'
    BY <1>1, <1>9, <2>3, StoredOutOfCaches DEF WarmAlloc
  <2>5. CallTypes' /\ CallsOK'
    BY <1>1, <1>9 DEF WarmAlloc, CallTypes, CallsOK
  <2>6. QED
    BY <2>4, <2>5 DEF IInv
<1>10. CASE WarmAllocFails(t)
  <2>1. At(InCall(t)) \in SUBSET Handles
    BY DEF At
  <2>2. Relocate(At(InCall(t)), Nowhere) /\ HandleTypes'
    BY <1>1, <1>10, <2>1, FreeRelocates DEF WarmAllocFails
  <2>3. Stored'
    BY <1>1, <1>10, <2>2, StoredOutOfCaches DEF WarmAllocFails
  <2>4. QED
    BY <1>1, <1>2, <1>10, <2>3, CallEnded DEF WarmAllocFails, LockType, IInv
<1>11. CASE WarmLock(t)
  <2>1. Stored'
    BY <1>1, <1>11, StoredStill DEF WarmLock
  <2>2. CallTypes' /\ CallsOK'
    BY <1>1, <1>11 DEF WarmLock, CallTypes, CallsOK
  <2>3. QED
    BY <2>1, <2>2 DEF IInv
<1>12. CASE WarmPush(t)
  <2>1. PICK h \in At(InCall(t)) :
          Fits(pool[t], h) /\ CountIn(pool[t], h) /\ File(h, InPool(pool[t]))
    BY <1>12 DEF WarmPush
  <2>2. Stored'
    BY <1>1, <1>3, <1>12, <2>1, StoredPush DEF WarmPush
  <2>3. QED
    BY <1>1, <1>2, <1>12, <2>2, CallGoesOn DEF WarmPush, LockType, IInv
<1>13. CASE WarmDone(t)
  <2>1. At(InCall(t)) \in SUBSET Handles
    BY DEF At
  <2>2. Relocate(At(InCall(t)), Nowhere) /\ HandleTypes'
    BY <1>1, <1>13, <2>1, FreeRelocates DEF WarmDone
  <2>3. Stored'
    BY <1>1, <1>13, <2>2, StoredOutOfCaches DEF WarmDone
  <2>4. LockType'
    BY <1>2, <1>13 DEF WarmDone, LockType
  <2>5. QED
    BY <1>1, <1>13, <2>3, <2>4, CallEnded DEF WarmDone, IInv
<1>14. CASE TrimEvict(t)
  <2>1. PICK h \in Victims(pool[t]) : CountOut(pool[t], h) /\ Free({h})
    BY <1>14 DEF TrimEvict
  <2>2. h \in At(InPool(pool[t])) /\ {h} \in SUBSET Handles
    BY DEF Victims, At
  <2>3. Relocate({h}, Nowhere) /\ HandleTypes'
    BY <1>1, <2>1, <2>2, FreeRelocates
  <2>4. Stored'
    BY <1>1, <1>3, <1>14, <2>1, <2>2, <2>3, StoredPop DEF TrimEvict
  <2>5. QED
    BY <1>1, <1>2, <1>14, <2>4, CallGoesOn DEF TrimEvict, LockType, IInv
<1>15. CASE TrimDone(t)
  <2>1. Stored'
    BY <1>1, <1>15, StoredStill DEF TrimDone
  <2>2. LockType'
    BY <1>2, <1>15 DEF TrimDone, LockType
  <2>3. QED
    BY <1>1, <1>15, <2>1, <2>2, CallEnded DEF TrimDone, IInv
<1>16. QED
  BY <1>4, <1>5, <1>6, <1>7, <1>8, <1>9, <1>10, <1>11, <1>12, <1>13, <1>14,
     <1>15 DEF Step

LEMMA NextKeepsIInv == IInv /\ [Next]_vars => IInv'
<1> SUFFICES ASSUME IInv, [Next]_vars PROVE IInv'
  OBVIOUS
<1>1. CASE Next
  <2>1. PICK t \in Threads : Caller(t) \/ Step(t)
    BY <1>1 DEF Next
  <2>2. QED
    BY <2>1, CallerKeepsIInv, StepKeepsIInv
<1>2. CASE UNCHANGED vars
  <2>1. Stored /\ CallTypes /\ CallsOK /\ LockType
    BY DEF IInv, CallTypes, LockType
  <2>2. Stored' /\ LockType'
    BY <1>2, <2>1, StoredStill DEF vars, LockType
  <2>3. QED
    BY <1>2, <2>1, <2>2, CallGoesOn DEF vars, IInv
<1>3. QED
  BY <1>1, <1>2

LEMMA Inductive == Spec => []IInv
BY InitOK, NextKeepsIInv, PTL DEF Spec

-------------------------------------------------------------------------------
(* What follows from the invariant.                                          *)

\* Whatever threads do, every variable of the pool keeps its type; the counts
\* that pop and clear decrease are never negative (pool.rs, "-=" on usize).
THEOREM TypeCorrect == Spec => []TypeOK
<1>1. ASSUME IInv
      PROVE  TypeOK
  <2>1. HandleTypes /\ CountTypes /\ CallTypes
    BY <1>1 DEF IInv, Stored
  <2>2. ASSUME NEW S, IsFiniteSet(S)
        PROVE  Bytes(S) \in Nat
    BY <2>2, BytesType, SizeAssumption DEF Bytes
  <2>3. \A p \in Pools : cached[p] \in Nat
    BY <1>1, <2>2, AtFinite DEF IInv, Stored, PoolOK
  <2>4. \A p \in Pools, c \in Classes : bucketBytes[p][c] \in Nat
    BY <1>1, <2>2, BucketFinite DEF IInv, Stored, PoolOK
  <2>5. \A t \in Threads : tlBytes[t] \in Nat
    BY <1>1, <2>2, AtFinite DEF IInv, Stored, TlOK
  <2>6. /\ cached \in [Pools -> Nat]
        /\ bucketBytes \in [Pools -> [Classes -> Nat]]
        /\ tlBytes \in [Threads -> Nat]
    BY <2>1, <2>3, <2>4, <2>5 DEF CountTypes
  <2>7. QED
    BY <2>1, <2>6 DEF TypeOK, HandleTypes, CallTypes
<1>2. QED
  BY <1>1, Inductive, PTL

\* Both levels of a pool's byte counts are what its buckets hold, for any
\* number of threads, pools and handles and any size classes.
THEOREM Accounting == Spec => []PoolAccounting
<1>1. IInv => PoolAccounting
  BY DEF IInv, Stored, PoolOK, PoolAccounting
<1>2. QED
  BY <1>1, Inductive, PTL

\* No interleaving makes a pool retain more than max_cached_bytes.
THEOREM WithinCap == Spec => []PoolWithinCap
<1>1. IInv => PoolWithinCap
  BY DEF IInv, Stored, PoolOK, PoolWithinCap
<1>2. QED
  BY <1>1, Inductive, PTL

\* A thread-local cache keeps its slot and byte limits, and TL_STATS its count.
THEOREM TlLimits == Spec => []TlWithinLimits
<1>1. IInv => TlWithinLimits
  BY DEF IInv, Stored, TlOK, TlWithinLimits
<1>2. QED
  BY <1>1, Inductive, PTL

\* Of all actions only TrimDone ends a trim.
LEMMA TrimEndsInTrimDone ==
  ASSUME IInv, Next, NEW t \in Threads, pc[t] = "trim", pc'[t] = "idle"
  PROVE  TrimDone(t)
<1>1. PICK u \in Threads : Caller(u) \/ Step(u)
  BY DEF Next
<1>2. pc \in [Threads -> {"idle", "lookup", "alloc", "put", "warm_alloc",
                          "warm_push", "trim"}]
  BY DEF IInv, CallTypes
<1>3. CASE Caller(u)
  <2>1. pc'[t] = pc[t]
    BY <1>2, <1>3 DEF Caller, AllocDirect, DropHandle, SendHandle, ThreadExit,
       FastAcquireHit, FastReleaseTl, Acquire, FastAcquireMiss, Release,
       FastReleaseFull, DrainThreadLocal, Warm, TrimLock, Clear, BeginCall,
       callVars
  <2>2. QED
    BY <2>1
<1>4. CASE Step(u)
  <2>1. u # t => pc'[t] = pc[t]
    BY <1>2, <1>4 DEF Step, LookupHit, LookupMiss, AllocAfterMiss, AllocFails, Put,
       WarmAlloc, WarmAllocFails, WarmLock, WarmPush, WarmDone, TrimEvict,
       TrimDone, EndCall, callVars
  <2>2. u = t
    BY <2>1
  <2>3. ~TrimEvict(t)
    BY DEF TrimEvict, callVars
  <2>4. QED
    BY <1>4, <2>2, <2>3 DEF Step, LookupHit, LookupMiss, AllocAfterMiss, AllocFails,
       Put, WarmAlloc, WarmAllocFails, WarmLock, WarmPush, WarmDone
<1>5. QED
  BY <1>1, <1>3, <1>4

\* When trim returns the pool holds at most keep_bytes, although the buckets it
\* stops searching are judged by a count kept apart from them.
THEOREM TrimTarget == Spec => TrimReachesTarget
<1> DEFINE Ok(t) == pc[t] = "trim" /\ pc'[t] = "idle"
                      => Bytes(At(InPool(pool[t]))) <= arg[t]
<1>1. ASSUME IInv, [Next]_vars, NEW t \in Threads
      PROVE  Ok(t)
  <2>1. SUFFICES ASSUME pc[t] = "trim", pc'[t] = "idle"
                 PROVE  Bytes(At(InPool(pool[t]))) <= arg[t]
    OBVIOUS
  <2>2. Next
    BY <1>1, <2>1 DEF vars, callVars
  <2>3. TrimDone(t)
    BY <1>1, <2>1, <2>2, TrimEndsInTrimDone
  <2>4. pool[t] \in Pools /\ arg[t] \in Nat
    BY <1>1, <2>1 DEF IInv, CallsOK, CallTypes
  <2>5. cached[pool[t]] = Bytes(At(InPool(pool[t])))
    BY <1>1, <2>4 DEF IInv, Stored, PoolOK
  <2>6. CASE At(InPool(pool[t])) = {}
    <3>1. BytesOf(size, {}, MaxSize) = 0
      BY BytesEmpty, SizeAssumption
    <3>2. Bytes(At(InPool(pool[t]))) = 0
      BY <2>6, <3>1, Zenon DEF Bytes
    <3>3. QED
      BY <2>4, <3>2
  <2>7. CASE At(InPool(pool[t])) # {}
    <3>1. ~(cached[pool[t]] > arg[t])
      BY <2>3, <2>7 DEF TrimDone, MustEvict
    <3>2. cached[pool[t]] \in Int
      BY <1>1, <2>4 DEF IInv, Stored, CountTypes
    <3>3. cached[pool[t]] <= arg[t]
      BY <2>4, <3>1, <3>2
    <3>4. QED
      BY <2>5, <3>3, Zenon
  <2>8. QED
    BY <2>6, <2>7
<1>2. IInv /\ [Next]_vars => [\A t \in Threads : Ok(t)]_vars
  BY <1>1
<1>3. QED
  BY <1>2, Inductive, PTL DEF Spec, TrimReachesTarget

-------------------------------------------------------------------------------
(* What acquire returns is long enough, when the lengths callers allocate    *)
(* themselves are size classes: then a cache files a handle under its length.*)

Exact(h) ==
  /\ place[h] # Nowhere => size[h] \in Classes
  /\ place[h] \in {InTl(t) : t \in Threads} \cup {InPool(p) : p \in Pools}
       => key[h] = size[h]
  /\ want[h] <= size[h]

AllExact == \A h \in Handles : Exact(h)

\* Handles whose length stays and that leave the caches.
LEMMA ExactMove ==
  ASSUME AllExact, HandleTypes, NEW S \in SUBSET Handles, NEW t \in Threads,
         NEW x \in {Held(t), InCall(t)}, NEW w \in 0..MaxSize, Move(S, x, w),
         UNCHANGED size, \A h \in S : place[h] # Nowhere /\ w <= size[h]
  PROVE  AllExact'
<1> SUFFICES ASSUME NEW h \in Handles
             PROVE  Exact(h)'
  BY DEF AllExact
<1>1. CASE h \in S
  <2>1. place'[h] = x /\ want'[h] = w /\ size'[h] = size[h]
    BY <1>1 DEF Move
  <2>2. x # Nowhere /\ x \notin {InTl(u) : u \in Threads} \cup {InPool(p) : p \in Pools}
    BY PlacesApart
  <2>3. size[h] \in Classes /\ w <= size[h]
    BY <1>1 DEF AllExact, Exact
  <2>4. QED
    BY <2>1, <2>2, <2>3 DEF Exact
<1>2. CASE h \notin S
  BY <1>2 DEF Exact, AllExact, Move
<1>3. QED
  BY <1>1, <1>2

LEMMA ExactFree ==
  ASSUME AllExact, NEW S \in SUBSET Handles, Free(S)
  PROVE  AllExact'
<1>1. Nowhere \notin {InTl(u) : u \in Threads} \cup {InPool(p) : p \in Pools}
  BY PlacesApart
<1>2. QED
  BY <1>1 DEF AllExact, Exact, Free, Move

LEMMA ExactAlloc ==
  ASSUME AllExact, NEW h \in Handles, NEW n \in Classes, NEW t \in Threads,
         NEW x \in {Held(t), InCall(t)}, NEW w, w <= n, HandleTypes,
         Alloc(h, n, x, w)
  PROVE  AllExact'
<1>1. x \notin {InTl(u) : u \in Threads} \cup {InPool(p) : p \in Pools}
  BY PlacesApart
<1>2. QED
  BY <1>1 DEF AllExact, Exact, Alloc, Move, HandleTypes

LEMMA ExactFile ==
  ASSUME AllExact, HandleTypes, NEW h \in Handles, place[h] # Nowhere, NEW x, File(h, x)
  PROVE  AllExact'
<1>1. size[h] \in Classes /\ size[h] \in 0..MaxSize /\ 0 <= size[h]
  BY SizeTypes DEF AllExact, Exact, HandleTypes
<1>2. SizeClass(size[h]) = size[h]
  BY <1>1, SizeClassProperties
<1>3. QED
  BY <1>1, <1>2 DEF AllExact, Exact, File, HandleTypes

LEMMA ExactStill ==
  ASSUME AllExact, UNCHANGED handleVars
  PROVE  AllExact'
BY DEF AllExact, Exact, handleVars

LEMMA CallerKeepsExact ==
  ASSUME DirectSizes \subseteq Classes, IInv, AllExact, NEW t \in Threads, Caller(t)
  PROVE  AllExact'
<1>1. HandleTypes /\ 0 \in 0..MaxSize /\ \A h \in Handles : 0 <= size[h]
  BY SizeTypes DEF IInv, Stored, HandleTypes
<1>2. CASE AllocDirect(t)
  <2>1. PICK h \in Handles, n \in DirectSizes : Alloc(h, n, Held(t), 0)
    BY <1>2 DEF AllocDirect
  <2>2. n \in Classes /\ 0 <= n
    BY SizeTypes
  <2>3. QED
    BY <1>1, <2>1, <2>2, ExactAlloc
<1>3. CASE DropHandle(t)
  <2>1. PICK h \in At(Held(t)) : Free({h})
    BY <1>3 DEF DropHandle
  <2>2. QED
    BY <2>1, ExactFree DEF At
<1>4. ASSUME NEW u \in Threads, SendHandle(t, u)
      PROVE  AllExact'
  <2>1. PICK h \in At(Held(t)) : place' = [place EXCEPT ![h] = Held(u)]
    BY <1>4 DEF SendHandle
  <2>2. /\ Held(u) # Nowhere /\ place[h] # Nowhere
        /\ Held(u) \notin {InTl(v) : v \in Threads} \cup {InPool(p) : p \in Pools}
    BY PlacesApart DEF At
  <2>3. QED
    BY <1>1, <1>4, <2>1, <2>2 DEF SendHandle, AllExact, Exact, HandleTypes
<1>5. CASE ThreadExit(t)
  <2>1. At(InTl(t)) \in SUBSET Handles
    BY DEF At
  <2>2. QED
    BY <1>5, <2>1, ExactFree DEF ThreadExit
<1>6. CASE FastAcquireHit(t)
  <2>1. PICK n \in Requests : \E h \in TlMatches(t, n) : Move({h}, Held(t), n)
    BY <1>6 DEF FastAcquireHit
  <2>2. PICK h \in TlMatches(t, n) : Move({h}, Held(t), n)
    BY <2>1
  <2>3. /\ n \in 0..MaxSize /\ {h} \in SUBSET Handles
        /\ place[h] = InTl(t) /\ place[h] # Nowhere
    BY SizeTypes, PlacesApart DEF TlMatches, At
  <2>4. size[h] = SizeClass(n)
    BY <2>3 DEF TlMatches, AllExact, Exact
  <2>5. n <= size[h]
    BY <2>3, <2>4, SizeClassProperties
  <2>6. QED
    BY <1>1, <1>6, <2>2, <2>3, <2>5, ExactMove DEF FastAcquireHit
<1>7. CASE FastReleaseTl(t)
  <2>1. PICK h \in At(Held(t)) : File(h, InTl(t))
    BY <1>7 DEF FastReleaseTl
  <2>2. h \in Handles /\ place[h] # Nowhere
    BY PlacesApart DEF At
  <2>3. QED
    BY <1>1, <2>1, <2>2, ExactFile
<1>8. ASSUME NEW p \in Pools, Release(t, p) \/ FastReleaseFull(t, p)
      PROVE  AllExact'
  <2>1. PICK h \in At(Held(t)) : Move({h}, InCall(t), 0)
    BY <1>8 DEF Release, FastReleaseFull
  <2>2. {h} \in SUBSET Handles /\ place[h] # Nowhere /\ UNCHANGED size
    BY <1>8, PlacesApart DEF At, Release, FastReleaseFull
  <2>3. 0 <= size[h]
    BY <1>1, <2>2
  <2>4. QED
    BY <1>1, <2>1, <2>2, <2>3, ExactMove
<1>9. ASSUME NEW p \in Pools, DrainThreadLocal(t, p)
      PROVE  AllExact'
  <2> DEFINE S == At(InTl(t))
  <2>1. S \in SUBSET Handles /\ \A h \in S : place[h] # Nowhere /\ 0 <= size[h]
    BY <1>1, PlacesApart DEF At
  <2>2. Move(S, InCall(t), 0) /\ UNCHANGED size
    BY <1>9 DEF DrainThreadLocal
  <2> HIDE DEF S
  <2>3. QED
    BY <1>1, <2>1, <2>2, ExactMove
<1>10. ASSUME NEW p \in Pools, Clear(t, p)
       PROVE  AllExact'
  <2>1. At(InPool(p)) \in SUBSET Handles
    BY DEF At
  <2>2. QED
    BY <1>10, <2>1, ExactFree DEF Clear
<1>11. ASSUME NEW p \in Pools,
              Acquire(t, p) \/ FastAcquireMiss(t, p) \/ Warm(t, p) \/ TrimLock(t, p)
       PROVE  AllExact'
  BY <1>11, ExactStill DEF Acquire, FastAcquireMiss, Warm, TrimLock
<1>12. QED
  BY <1>2, <1>3, <1>4, <1>5, <1>6, <1>7, <1>8, <1>9, <1>10, <1>11 DEF Caller

LEMMA StepKeepsExact ==
  ASSUME IInv, AllExact, NEW t \in Threads, Step(t)
  PROVE  AllExact'
<1>1. HandleTypes /\ 0 \in 0..MaxSize /\ CallsOK /\ \A n \in Requests : n \in 0..MaxSize
  BY SizeTypes DEF IInv, Stored
<1>2. pool[t] \in Pools
  BY <1>1 DEF CallsOK, Step, LookupHit, LookupMiss, AllocAfterMiss, AllocFails, Put,
     WarmAlloc, WarmAllocFails, WarmLock, WarmPush, WarmDone, TrimEvict, TrimDone
<1>3. CASE LookupHit(t)
  <2>1. PICK h \in Bucket(pool[t], SizeClass(arg[t])) : Move({h}, Held(t), arg[t])
    BY <1>3 DEF LookupHit
  <2>2. arg[t] \in 0..MaxSize /\ UNCHANGED size
    BY <1>1, <1>3 DEF CallsOK, LookupHit
  <2>3. /\ {h} \in SUBSET Handles /\ place[h] = InPool(pool[t])
        /\ place[h] # Nowhere /\ key[h] = SizeClass(arg[t])
    BY PlacesApart DEF Bucket, At
  <2>4. size[h] = SizeClass(arg[t])
    BY <1>2, <2>3 DEF AllExact, Exact
  <2>5. arg[t] <= size[h]
    BY <2>2, <2>4, SizeClassProperties
  <2>6. QED
    BY <1>1, <2>1, <2>2, <2>3, <2>5, ExactMove
<1>4. CASE AllocAfterMiss(t)
  <2>1. PICK h \in Handles : Alloc(h, SizeClass(arg[t]), Held(t), arg[t])
    BY <1>4 DEF AllocAfterMiss
  <2>2. SizeClass(arg[t]) \in Classes /\ arg[t] <= SizeClass(arg[t])
    BY <1>1, <1>4, SizeClassProperties DEF CallsOK, AllocAfterMiss
  <2>3. QED
    BY <1>1, <2>1, <2>2, ExactAlloc
<1>5. CASE Put(t)
  <2>1. PICK h \in At(InCall(t)) : File(h, InPool(pool[t])) \/ Free({h})
    BY <1>5 DEF Put
  <2>2. h \in Handles /\ {h} \in SUBSET Handles /\ place[h] # Nowhere
    BY PlacesApart DEF At
  <2>3. QED
    BY <1>1, <2>1, <2>2, ExactFile, ExactFree
<1>6. CASE WarmAlloc(t)
  <2>1. PICK h \in Handles : Alloc(h, SizeClass(arg[t]), InCall(t), 0)
    BY <1>6 DEF WarmAlloc
  <2>2. SizeClass(arg[t]) \in Classes /\ 0 <= SizeClass(arg[t])
    BY <1>1, <1>6, SizeClassProperties, SizeTypes DEF CallsOK, WarmAlloc
  <2>3. QED
    BY <1>1, <2>1, <2>2, ExactAlloc
<1>7. CASE WarmPush(t)
  <2>1. PICK h \in At(InCall(t)) : File(h, InPool(pool[t]))
    BY <1>7 DEF WarmPush
  <2>2. h \in Handles /\ place[h] # Nowhere
    BY PlacesApart DEF At
  <2>3. QED
    BY <1>1, <2>1, <2>2, ExactFile
<1>8. CASE WarmAllocFails(t) \/ WarmDone(t)
  <2>1. At(InCall(t)) \in SUBSET Handles /\ Free(At(InCall(t)))
    BY <1>8 DEF At, WarmAllocFails, WarmDone
  <2>2. QED
    BY <2>1, ExactFree
<1>9. CASE TrimEvict(t)
  <2>1. PICK h \in Victims(pool[t]) : Free({h})
    BY <1>9 DEF TrimEvict
  <2>2. QED
    BY <2>1, ExactFree DEF Victims, At
<1>10. CASE LookupMiss(t) \/ AllocFails(t) \/ WarmLock(t) \/ TrimDone(t)
  BY <1>10, ExactStill DEF LookupMiss, AllocFails, WarmLock, TrimDone
<1>11. QED
  BY <1>3, <1>4, <1>5, <1>6, <1>7, <1>8, <1>9, <1>10 DEF Step

\* If callers allocate only lengths that are size classes, every handle that
\* acquire or fast_acquire returns is at least as long as was asked for,
\* whichever threads, caches and pools it went through (pool.rs:202).
THEOREM Served == DirectSizes \subseteq Classes => (Spec => []ServedEnough)
<1> SUFFICES ASSUME DirectSizes \subseteq Classes
             PROVE  Spec => []ServedEnough
  OBVIOUS
<1>1. Init => AllExact
  BY PlacesApart, SizeTypes DEF Init, AllExact, Exact
<1>2. IInv /\ AllExact /\ [Next]_vars => AllExact'
  <2> SUFFICES ASSUME IInv, AllExact, [Next]_vars
               PROVE  AllExact'
    OBVIOUS
  <2>1. CASE Next
    BY <2>1, CallerKeepsExact, StepKeepsExact DEF Next
  <2>2. CASE UNCHANGED vars
    BY <2>2, ExactStill DEF vars
  <2>3. QED
    BY <2>1, <2>2
<1>3. IInv /\ AllExact => ServedEnough
  <2> SUFFICES ASSUME IInv, AllExact, NEW h \in Handles
               PROVE  size[h] >= want[h]
    BY DEF ServedEnough, At
  <2>1. size[h] \in Nat /\ want[h] \in Nat
    BY SizeTypes DEF IInv, Stored, HandleTypes
  <2>2. want[h] <= size[h]
    BY DEF AllExact, Exact
  <2>3. QED
    BY <2>1, <2>2
<1>4. QED
  BY <1>1, <1>2, <1>3, Inductive, PTL DEF Spec

-------------------------------------------------------------------------------
(* The pool is the ledger.                                                   *)

\* What the caches of all threads and pools hold together.
WithinBudget == Bytes(Retained) <= TotalBudget

LEMMA BudgetCellsFinite == IsFiniteSet(BudgetCells)
<1> DEFINE tl == [t \in Threads |-> {InTl(t)} \X (1..TlMaxBytes)]
           pl == [p \in Pools |-> {InPool(p)} \X (1..MaxCachedBytes[p])]
<1>1. ASSUME NEW x, NEW n \in Nat
      PROVE  IsFiniteSet({x} \X (1..n))
  <2>0. 1 \in Int /\ n \in Int
    OBVIOUS
  <2>1. IsFiniteSet({x}) /\ IsFiniteSet(1..n)
    BY <2>0, FS_Singleton, FS_Interval
  <2>2. QED
    BY <2>1, FS_Product
<1>2. \A t \in Threads : IsFiniteSet(tl[t])
  BY <1>1, LimitAssumption
<1>3. \A p \in Pools : IsFiniteSet(pl[p])
  BY <1>1, LimitAssumption
<1> DEFINE A == UNION {tl[t] : t \in Threads}
           B == UNION {pl[p] : p \in Pools}
<1>4. BudgetCells = A \cup B
  <2>1. /\ \A t \in Threads : tl[t] = {InTl(t)} \X (1..TlMaxBytes)
        /\ \A p \in Pools : pl[p] = {InPool(p)} \X (1..MaxCachedBytes[p])
    OBVIOUS
  <2> HIDE DEF tl, pl
  <2>2. \A c : c \in BudgetCells <=> c \in A \cup B
    BY <2>1 DEF BudgetCells
  <2>3. QED
    BY <2>2
<1> HIDE DEF tl, pl
<1>5. IsFiniteSet(A) /\ IsFiniteSet(B)
  BY <1>2, <1>3, FinitelyMany, UnionFinite
<1> HIDE DEF A, B
<1>6. QED
  BY <1>4, <1>5, FS_Union

\* If every cache keeps its limit, all of them keep the budget.
LEMMA CachesKeepBudget == IInv => WithinBudget
<1> SUFFICES ASSUME IInv
             PROVE  BytesOf(size, Retained, MaxSize) <= Cardinality(BudgetCells)
  BY DEF WithinBudget, Bytes, TotalBudget
<1> DEFINE limit == [x \in Caches |-> IF x \in {InTl(t) : t \in Threads}
                                        THEN TlMaxBytes
                                        ELSE MaxCachedBytes[x[2]]]
<1>1. IsFiniteSet(Retained) /\ MaxSize \in Nat
  <2>1. Retained \in SUBSET Handles
    BY DEF Retained
  <2>2. QED
    BY <2>1, FS_Subset, NameAssumption, SizeTypes
<1>2. \A h \in Retained : place[h] \in Caches
  BY DEF Retained
<1>3. ASSUME NEW x \in Caches
      PROVE  /\ limit[x] \in Nat
             /\ BytesOf(size, At(x), MaxSize) <= limit[x]
             /\ {x} \X (1..limit[x]) \subseteq BudgetCells
  <2>1. CASE \E t \in Threads : x = InTl(t)
    <3>1. PICK t \in Threads : x = InTl(t)
      BY <2>1
    <3>2. limit[x] = TlMaxBytes
      BY <3>1
    <3>3. Bytes(At(x)) <= TlMaxBytes
      BY <3>1 DEF IInv, Stored, TlOK
    <3>4. {x} \X (1..TlMaxBytes) \subseteq BudgetCells
      BY <3>1 DEF BudgetCells
    <3> HIDE DEF limit
    <3>5. QED
      BY <3>2, <3>3, <3>4, LimitAssumption DEF Bytes
  <2>2. CASE \E p \in Pools : x = InPool(p)
    <3>1. PICK p \in Pools : x = InPool(p)
      BY <2>2
    <3>2. limit[x] = MaxCachedBytes[p]
      BY <3>1, PlacesApart DEF InPool
    <3>3. Bytes(At(x)) <= MaxCachedBytes[p]
      BY <3>1 DEF IInv, Stored, PoolOK
    <3>4. {x} \X (1..MaxCachedBytes[p]) \subseteq BudgetCells
      BY <3>1 DEF BudgetCells
    <3> HIDE DEF limit
    <3>5. QED
      BY <3>2, <3>3, <3>4, LimitAssumption DEF Bytes
  <2>3. QED
    BY <2>1, <2>2 DEF Caches
<1> DEFINE part == [x \in Caches |-> At(x)]
<1>4. ASSUME NEW x \in Caches
      PROVE  IsFiniteSet(part[x]) /\ BytesOf(size, part[x], MaxSize) <= limit[x]
  BY <1>3, AtFinite
<1>5. \A h \in Retained : h \in part[place[h]]
  BY <1>2 DEF At, Retained
<1> HIDE DEF limit, part
<1>6. QED
  BY <1>1, <1>2, <1>3, <1>4, <1>5, BudgetCellsFinite, BytesFit

\* A place is an owner's, a cache or nowhere, and only one of them.
LEMMA OwnersAndCaches ==
  /\ \A t \in Threads : Held(t) \in Owners /\ InCall(t) \in Owners /\ InTl(t) \in Caches
  /\ \A p \in Pools : InPool(p) \in Caches
  /\ Owners \cap Caches = {} /\ Nowhere \notin Owners /\ Nowhere \notin Caches
  /\ Lent \cap Retained = {} /\ Lent \subseteq Handles /\ Retained \subseteq Handles
BY PlacesApart DEF Owners, Caches, Lent, Retained

\* Freeing handles that are lent or retained discards them.
LEMMA FreeDiscards ==
  ASSUME NEW y \in Owners \cup Caches, NEW S \in SUBSET At(y), Free(S)
  PROVE  Ledger!Next
<1>1. S \in SUBSET Handles /\ S \subseteq Lent \cup Retained
  BY DEF At, Lent, Retained
<1>2. Lent' = Lent \ S /\ Retained' = Retained \ S
  BY <1>1, OwnersAndCaches DEF Free, Move, Lent, Retained
<1>3. size' = [h \in Handles |-> IF h \in S THEN 0 ELSE size[h]]
  BY DEF Free
<1>4. Ledger!Discard(S)
  BY <1>1, <1>2, <1>3 DEF Ledger!Discard, Ledger!Live
<1>5. QED
  BY <1>1, <1>4 DEF Ledger!Next

\* An allocation lends a new block.
LEMMA AllocAllocates ==
  ASSUME NEW h \in Handles, NEW n \in 1..MaxSize, NEW x \in Owners, NEW w,
         HandleTypes, Alloc(h, n, x, w)
  PROVE  Ledger!Next
<1>1. h \notin Lent \cup Retained
  BY OwnersAndCaches DEF Alloc, Lent, Retained
<1>2. Lent' = Lent \cup {h} /\ Retained' = Retained
  BY <1>1, OwnersAndCaches DEF Alloc, Move, Lent, Retained
<1>3. size' = [size EXCEPT ![h] = n]
  BY DEF Alloc
<1>4. Ledger!Allocate(h, n)
  BY <1>1, <1>2, <1>3 DEF Ledger!Allocate, Ledger!Live
<1>5. QED
  BY <1>4 DEF Ledger!Next

\* Handles that leave a cache for a caller or a call are lent.
LEMMA MoveLends ==
  ASSUME NEW y \in Caches, NEW S \in SUBSET At(y), NEW x \in Owners, NEW w,
         Move(S, x, w), UNCHANGED size
  PROVE  Ledger!Next
<1>1. S \in SUBSET Handles /\ S \subseteq Retained
  BY DEF At, Retained
<1>2. Lent' = Lent \cup S /\ Retained' = Retained \ S
  BY <1>1, OwnersAndCaches DEF Move, Lent, Retained
<1>3. Ledger!Lend(S)
  BY <1>1, <1>2 DEF Ledger!Lend
<1>4. QED
  BY <1>1, <1>3 DEF Ledger!Next

\* Handles that go from a caller into a call stay lent.
LEMMA MoveStutters ==
  ASSUME NEW y \in Owners, NEW S \in SUBSET At(y), NEW x \in Owners, NEW w,
         Move(S, x, w), UNCHANGED size
  PROVE  UNCHANGED Ledger!ledger
<1>1. Lent' = Lent /\ Retained' = Retained
  BY OwnersAndCaches DEF Move, At, Lent, Retained
<1>2. QED
  BY <1>1 DEF Ledger!ledger

\* A handle filed in a cache is retained; the budget allows it, since every
\* cache keeps its limit after the step.
LEMMA FileRetains ==
  ASSUME HandleTypes, NEW y \in Owners, NEW h \in At(y), NEW x \in Caches,
         File(h, x), WithinBudget'
  PROVE  Ledger!Next
<1>1. h \in Handles /\ h \in Lent /\ place[h] = y
  BY DEF At, Lent
<1>2. Lent' = Lent \ {h} /\ Retained' = Retained \cup {h} /\ size' = size
  BY <1>1, OwnersAndCaches DEF File, HandleTypes, Lent, Retained
<1>3. BytesOf(size, Retained \cup {h}, MaxSize) <= TotalBudget
  BY <1>2 DEF WithinBudget, Bytes
<1> DEFINE R == Retained \cup {h}
<1>4. Ledger!BytesOf(size, R, MaxSize) <= TotalBudget
  <2>1. Ledger!CellsOf(size, R, MaxSize) = CellsOf(size, R, MaxSize)
    BY DEF Ledger!CellsOf, CellsOf
  <2>2. Ledger!BytesOf(size, R, MaxSize) = BytesOf(size, R, MaxSize)
    BY <2>1, Zenon DEF Ledger!BytesOf, BytesOf, Ledger!Cardinality, Cardinality
  <2>3. QED
    BY <1>3, <2>2
<1>5. Ledger!Retain(h)
  BY <1>1, <1>2, <1>4 DEF Ledger!Retain
<1>6. QED
  BY <1>1, <1>5 DEF Ledger!Next

\* A step that moves no handle changes nothing.
LEMMA StillStutters ==
  ASSUME UNCHANGED handleVars
  PROVE  UNCHANGED Ledger!ledger
BY DEF handleVars, Ledger!ledger, Lent, Retained

LEMMA CallerStepsLedger ==
  ASSUME IInv, WithinBudget', NEW t \in Threads, Caller(t)
  PROVE  Ledger!Next \/ UNCHANGED Ledger!ledger
<1>1. HandleTypes /\ Held(t) \in Owners /\ InCall(t) \in Owners /\ InTl(t) \in Caches
  BY OwnersAndCaches DEF IInv, Stored
<1>2. CASE AllocDirect(t)
  <2>1. PICK h \in Handles, n \in DirectSizes : Alloc(h, n, Held(t), 0)
    BY <1>2 DEF AllocDirect
  <2>2. QED
    BY <1>1, <2>1, AllocAllocates, SizeTypes
<1>3. CASE DropHandle(t)
  <2>1. PICK h \in At(Held(t)) : Free({h})
    BY <1>3 DEF DropHandle
  <2>2. QED
    BY <1>1, <2>1, FreeDiscards
<1>4. ASSUME NEW u \in Threads, SendHandle(t, u)
      PROVE  UNCHANGED Ledger!ledger
  <2>1. PICK h \in At(Held(t)) : place' = [place EXCEPT ![h] = Held(u)]
    BY <1>4 DEF SendHandle
  <2>2. h \in Handles /\ place[h] \in Owners /\ Held(u) \in Owners
    BY <1>1, OwnersAndCaches DEF At
  <2>3. Lent' = Lent /\ Retained' = Retained
    BY <1>1, <2>1, <2>2, OwnersAndCaches DEF HandleTypes, Lent, Retained
  <2>4. QED
    BY <1>4, <2>3 DEF SendHandle, Ledger!ledger
<1>5. CASE ThreadExit(t)
  BY <1>1, <1>5, FreeDiscards DEF ThreadExit
<1>6. CASE FastAcquireHit(t)
  <2>1. PICK n \in Requests : \E h \in TlMatches(t, n) : Move({h}, Held(t), n)
    BY <1>6 DEF FastAcquireHit
  <2>2. PICK h \in TlMatches(t, n) : Move({h}, Held(t), n)
    BY <2>1
  <2>3. {h} \in SUBSET At(InTl(t)) /\ UNCHANGED size
    BY <1>6 DEF TlMatches, FastAcquireHit
  <2>4. QED
    BY <1>1, <2>2, <2>3, MoveLends
<1>7. CASE FastReleaseTl(t)
  <2>1. PICK h \in At(Held(t)) : File(h, InTl(t))
    BY <1>7 DEF FastReleaseTl
  <2>2. QED
    BY <1>1, <2>1, FileRetains
<1>8. ASSUME NEW p \in Pools, Release(t, p) \/ FastReleaseFull(t, p)
      PROVE  UNCHANGED Ledger!ledger
  <2>1. PICK h \in At(Held(t)) : Move({h}, InCall(t), 0)
    BY <1>8 DEF Release, FastReleaseFull
  <2>2. {h} \in SUBSET At(Held(t)) /\ UNCHANGED size
    BY <1>8 DEF Release, FastReleaseFull
  <2>3. QED
    BY <1>1, <2>1, <2>2, MoveStutters
<1>9. ASSUME NEW p \in Pools, DrainThreadLocal(t, p)
      PROVE  Ledger!Next
  BY <1>1, <1>9, MoveLends DEF DrainThreadLocal
<1>10. ASSUME NEW p \in Pools, Clear(t, p)
       PROVE  Ledger!Next
  BY <1>10, OwnersAndCaches, FreeDiscards DEF Clear
<1>11. ASSUME NEW p \in Pools,
              Acquire(t, p) \/ FastAcquireMiss(t, p) \/ Warm(t, p) \/ TrimLock(t, p)
       PROVE  UNCHANGED Ledger!ledger
  BY <1>11, StillStutters DEF Acquire, FastAcquireMiss, Warm, TrimLock
<1>12. QED
  BY <1>2, <1>3, <1>4, <1>5, <1>6, <1>7, <1>8, <1>9, <1>10, <1>11 DEF Caller

LEMMA StepStepsLedger ==
  ASSUME IInv, WithinBudget', NEW t \in Threads, Step(t)
  PROVE  Ledger!Next \/ UNCHANGED Ledger!ledger
<1>1. HandleTypes /\ CallsOK /\ Held(t) \in Owners /\ InCall(t) \in Owners
  BY OwnersAndCaches DEF IInv, Stored
<1>2. pool[t] \in Pools
  BY <1>1 DEF CallsOK, Step, LookupHit, LookupMiss, AllocAfterMiss, AllocFails, Put,
     WarmAlloc, WarmAllocFails, WarmLock, WarmPush, WarmDone, TrimEvict, TrimDone
<1>3. InPool(pool[t]) \in Caches
  BY <1>2, OwnersAndCaches
<1>4. CASE LookupHit(t)
  <2>1. PICK h \in Bucket(pool[t], SizeClass(arg[t])) : Move({h}, Held(t), arg[t])
    BY <1>4 DEF LookupHit
  <2>2. {h} \in SUBSET At(InPool(pool[t])) /\ UNCHANGED size
    BY <1>4 DEF Bucket, LookupHit
  <2>3. QED
    BY <1>1, <1>3, <2>1, <2>2, MoveLends
<1>5. ASSUME AllocAfterMiss(t) \/ WarmAlloc(t)
      PROVE  Ledger!Next
  <2>1. PICK h \in Handles, x \in {Held(t), InCall(t)}, w \in {0, arg[t]} :
          Alloc(h, SizeClass(arg[t]), x, w)
    BY <1>5 DEF AllocAfterMiss, WarmAlloc
  <2>2. SizeClass(arg[t]) \in 1..MaxSize
    <3>1. arg[t] \in 0..MaxSize
      BY <1>1, <1>5, SizeTypes DEF CallsOK, AllocAfterMiss, WarmAlloc
    <3>2. QED
      BY <3>1, SizeClassProperties, SizeTypes
  <2>3. QED
    BY <1>1, <2>1, <2>2, AllocAllocates
<1>6. CASE Put(t)
  <2>1. PICK h \in At(InCall(t)) : File(h, InPool(pool[t])) \/ Free({h})
    BY <1>6 DEF Put
  <2>2. {h} \in SUBSET At(InCall(t))
    OBVIOUS
  <2>3. QED
    BY <1>1, <1>3, <2>1, <2>2, FileRetains, FreeDiscards
<1>7. CASE WarmPush(t)
  <2>1. PICK h \in At(InCall(t)) : File(h, InPool(pool[t]))
    BY <1>7 DEF WarmPush
  <2>2. QED
    BY <1>1, <1>3, <2>1, FileRetains
<1>8. CASE WarmAllocFails(t) \/ WarmDone(t)
  BY <1>1, <1>8, FreeDiscards DEF WarmAllocFails, WarmDone
<1>9. CASE TrimEvict(t)
  <2>1. PICK h \in Victims(pool[t]) : Free({h})
    BY <1>9 DEF TrimEvict
  <2>2. {h} \in SUBSET At(InPool(pool[t]))
    BY DEF Victims
  <2>3. QED
    BY <1>3, <2>1, <2>2, FreeDiscards
<1>10. CASE LookupMiss(t) \/ AllocFails(t) \/ WarmLock(t) \/ TrimDone(t)
  BY <1>10, StillStutters DEF LookupMiss, AllocFails, WarmLock, TrimDone
<1>11. QED
  BY <1>4, <1>5, <1>6, <1>7, <1>8, <1>9, <1>10 DEF Step

\* The pool of any threads, pools, classes and limits implements the ledger: every
\* critical section and every step between them lends, retains, allocates or
\* discards whole blocks of unchanged length, or changes nothing of the ledger.
THEOREM LedgerImplemented == Spec => ImplementsLedger
<1>1. Init => Ledger!Init
  BY OwnersAndCaches DEF Init, Ledger!Init, Lent, Retained
<1>2. IInv /\ WithinBudget' /\ [Next]_vars => [Ledger!Next]_(Ledger!ledger)
  <2> SUFFICES ASSUME IInv, WithinBudget', [Next]_vars
               PROVE  Ledger!Next \/ UNCHANGED Ledger!ledger
    OBVIOUS
  <2>1. CASE Next
    BY <2>1, CallerStepsLedger, StepStepsLedger DEF Next
  <2>2. CASE UNCHANGED vars
    BY <2>2, StillStutters DEF vars
  <2>3. QED
    BY <2>1, <2>2
<1>3. IInv => WithinBudget
  BY CachesKeepBudget
<1>4. QED
  BY <1>1, <1>2, <1>3, Inductive, PTL DEF Spec, ImplementsLedger, Ledger!Spec

===============================================================================
