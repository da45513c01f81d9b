------------------------------ MODULE BufferPool ------------------------------
(***************************************************************************)
(* The two-tier allocation pool of crates/mohu-buffer/src/pool.rs.         *)
(*                                                                         *)
(* Threads own AllocHandles.  A handle a thread gives back goes to the     *)
(* thread's own TL_CACHE (fast_release), or to the buckets of a            *)
(* BufferPool, which a Mutex protects; what fits neither is freed.  The    *)
(* thread-local cache belongs to the thread and not to a pool, so a handle *)
(* taken from one pool may end in another.                                 *)
(*                                                                         *)
(* A critical section that does one thing is one action, guarded by the    *)
(* lock being free; the two that loop while they hold the lock (trim and   *)
(* the second half of warm) take it, step and give it back.  What a call   *)
(* does between two critical sections interleaves with every other thread. *)
(*                                                                         *)
(* Rust moves handles, so each one is in one place: "place" says where.    *)
(* Which handle of a bucket is popped (the code pops the last pushed) is   *)
(* left open, and so is the order in which a drained cache is released.    *)
(* A call for zero bytes returns before it touches any state and is left   *)
(* out; so are the hit, miss and return counters, which only stats() reads.*)
(***************************************************************************)
EXTENDS ByteCount

CONSTANTS
  Threads,          \* the threads of the process
  Pools,            \* the BufferPool instances
  Handles,          \* names for AllocHandles; one that is freed may be reused
  NoThread, NoPool, \* "no holder" of a mutex, "no pool" of an idle thread
  MaxSize,          \* the largest length of a handle
  Classes,          \* the size classes: the powers of two up to MaxSize
  MaxCachedBytes,   \* max_cached_bytes of each pool
  TlSlots,          \* TL_SLOTS
  TlMaxBytes,       \* TL_MAX_BYTES
  Requests,         \* the nbytes callers ask for, none of them 0
  DirectSizes,      \* lengths callers allocate with AllocHandle::alloc
  KeepBytes,        \* the keep_bytes callers pass to trim
  WarmCounts        \* the count_per_size callers pass to warm

ASSUME SizeAssumption ==
  /\ MaxSize \in Nat \ {0}
  /\ Classes \subseteq 1..MaxSize
  /\ Requests \subseteq 1..MaxSize
  /\ DirectSizes \subseteq 1..MaxSize
  /\ \A n \in 0..MaxSize :   \* every length has a least class that holds it
       \E c \in Classes : n <= c /\ \A d \in Classes : n <= d => c <= d

ASSUME LimitAssumption ==
  /\ MaxCachedBytes \in [Pools -> Nat]
  /\ TlSlots \in Nat
  /\ TlMaxBytes \in Nat
  /\ KeepBytes \subseteq Nat
  /\ WarmCounts \subseteq Nat

ASSUME NameAssumption ==
  /\ IsFiniteSet(Handles)
  /\ NoThread \notin Threads
  /\ NoPool \notin Pools

VARIABLES
  size,         \* size[h]: len() of handle h, 0 when it is not allocated
  place,        \* place[h]: who owns handle h
  key,          \* key[h]: the class h is filed under in a cache, else 0
  want,         \* want[h]: the nbytes the call that returned h was asked for
  cached,       \* cached[p]: PoolInner.cached_bytes
  bucketBytes,  \* bucketBytes[p][c]: PoolBucket.cached_bytes
  tlBytes,      \* tlBytes[t]: TL_STATS.cached_bytes
  lock,         \* lock[p]: the thread inside the mutex across steps
  pc,           \* pc[t]: where thread t is in the call it makes
  pool,         \* pool[t]: the pool that call is on
  arg,          \* arg[t]: its nbytes, size or keep_bytes
  left          \* left[t]: the handles warm has still to allocate

handleVars == <<size, place, key, want>>
poolVars   == <<cached, bucketBytes>>
callVars   == <<pc, pool, arg, left>>
vars == <<handleVars, poolVars, tlBytes, lock, callVars>>

-------------------------------------------------------------------------------
(* Places and the sets of handles in them.                                  *)

Nowhere   == <<"nowhere">>
Held(t)   == <<"held", t>>   \* owned by thread t's caller code
InCall(t) == <<"call", t>>   \* owned by the pool call thread t is making
InTl(t)   == <<"tl", t>>     \* in thread t's TL_CACHE
InPool(p) == <<"pool", p>>   \* in a bucket of pool p

Places ==
  {Nowhere} \cup (UNION {{Held(t), InCall(t), InTl(t)} : t \in Threads})
            \cup {InPool(p) : p \in Pools}

At(x) == {h \in Handles : place[h] = x}
Bucket(p, c) == {h \in At(InPool(p)) : key[h] = c}

Bytes(S) == BytesOf(size, S, MaxSize)

\* A seeded fault: the size rounded down to a power of two.
SizeClassRoundedDown(n) ==
  CHOOSE c \in Classes : c <= n /\ \A d \in Classes : d <= n => d <= c

\* size_class: the least class that holds n bytes.
SizeClass(n) ==
  CHOOSE c \in Classes : n <= c /\ \A d \in Classes : n <= d => c <= d

-------------------------------------------------------------------------------
(* The effects the operations are made of.                                  *)

\* Thread t starts a call on pool p and stops before its first shared step.
BeginCall(t, step, p, n, k) ==
  /\ pc[t] = "idle"
  /\ pc' = [pc EXCEPT ![t] = step]
  /\ pool' = [pool EXCEPT ![t] = p]
  /\ arg' = [arg EXCEPT ![t] = n]
  /\ left' = [left EXCEPT ![t] = k]

EndCall(t) ==
  /\ pc' = [pc EXCEPT ![t] = "idle"]
  /\ pool' = [pool EXCEPT ![t] = NoPool]
  /\ arg' = [arg EXCEPT ![t] = 0]
  /\ left' = [left EXCEPT ![t] = 0]

\* The handles S go to x, filed under no class; w is what their taker asked for.
Move(S, x, w) ==
  /\ place' = [h \in Handles |-> IF h \in S THEN x ELSE place[h]]
  /\ key' = [h \in Handles |-> IF h \in S THEN 0 ELSE key[h]]
  /\ want' = [h \in Handles |-> IF h \in S THEN w ELSE want[h]]

\* Handle h goes into cache x under the class of its length.
File(h, x) ==
  /\ place' = [place EXCEPT ![h] = x]
  /\ key' = [key EXCEPT ![h] = SizeClass(size[h])]
  /\ want' = [want EXCEPT ![h] = 0]
  /\ UNCHANGED size

\* The handles S are dropped: their memory goes back to the system.
Free(S) ==
  /\ size' = [h \in Handles |-> IF h \in S THEN 0 ELSE size[h]]
  /\ Move(S, Nowhere, 0)

\* AllocHandle::alloc(n) succeeds and x owns the result.
Alloc(h, n, x, w) ==
  /\ place[h] = Nowhere
  /\ size' = [size EXCEPT ![h] = n]
  /\ Move({h}, x, w)

\* PoolBucket::push of h in pool p, with the pool's own count.
CountIn(p, h) ==
  /\ cached' = [cached EXCEPT ![p] = @ + size[h]]
  /\ bucketBytes' = [bucketBytes EXCEPT ![p][SizeClass(size[h])] = @ + size[h]]

\* A seeded fault: the pool counts the class of a popped handle, not its length.
CountOutByClass(p, h) ==
  /\ cached' = [cached EXCEPT ![p] = @ - key[h]]
  /\ bucketBytes' = [bucketBytes EXCEPT ![p][key[h]] = @ - size[h]]

\* PoolBucket::pop of h in pool p, with the pool's own count.
CountOut(p, h) ==
  /\ cached' = [cached EXCEPT ![p] = @ - size[h]]
  /\ bucketBytes' = [bucketBytes EXCEPT ![p][key[h]] = @ - size[h]]

\* A seeded fault: a pool takes a handle whenever it is below its limit.
FitsWhileBelow(p, h) == cached[p] <= MaxCachedBytes[p]

\* The capacity check of release and of warm.
Fits(p, h) == cached[p] + size[h] <= MaxCachedBytes[p]

-------------------------------------------------------------------------------
(* What callers do with handles outside the pool.                           *)

\* A caller allocates a handle itself.
AllocDirect(t) ==
  /\ pc[t] = "idle"
  /\ \E h \in Handles, n \in DirectSizes : Alloc(h, n, Held(t), 0)
  /\ UNCHANGED <<poolVars, tlBytes, lock, callVars>>

\* A caller drops a handle.
DropHandle(t) ==
  /\ pc[t] = "idle"
  /\ \E h \in At(Held(t)) : Free({h})
  /\ UNCHANGED <<poolVars, tlBytes, lock, callVars>>

\* AllocHandle is Send: a caller gives a handle to another thread.
SendHandle(t, u) ==
  /\ pc[t] = "idle"
  /\ t # u
  /\ \E h \in At(Held(t)) : place' = [place EXCEPT ![h] = Held(u)]
  /\ UNCHANGED <<size, key, want, poolVars, tlBytes, lock, callVars>>

\* Thread t exits and its TL_CACHE is destroyed; t then names a new thread.
ThreadExit(t) ==
  /\ pc[t] = "idle"
  /\ At(Held(t)) = {}
  /\ At(InTl(t)) # {}
  /\ Free(At(InTl(t)))
  /\ tlBytes' = [tlBytes EXCEPT ![t] = 0]
  /\ UNCHANGED <<poolVars, lock, callVars>>

-------------------------------------------------------------------------------
(* acquire and fast_acquire                                                 *)

Acquire(t, p) ==
  /\ \E n \in Requests : BeginCall(t, "lookup", p, n, 0)
  /\ UNCHANGED <<handleVars, poolVars, tlBytes, lock>>

TlMatches(t, n) ==
  {h \in At(InTl(t)) : key[h] = SizeClass(n) /\ SizeClass(n) <= TlMaxBytes}

\* A seeded fault: the statistics of the thread-local cache miss a hit.
FastAcquireHitUncounted(t) ==
  /\ pc[t] = "idle"
  /\ \E n \in Requests : \E h \in TlMatches(t, n) : Move({h}, Held(t), n)
  /\ UNCHANGED <<size, poolVars, tlBytes, lock, callVars>>

\* fast_acquire served by the thread's own cache.
FastAcquireHit(t) ==
  /\ pc[t] = "idle"
  /\ \E n \in Requests : \E h \in TlMatches(t, n) :
       /\ Move({h}, Held(t), n)
       /\ tlBytes' = [tlBytes EXCEPT
                        ![t] = IF @ >= size[h] THEN @ - size[h] ELSE 0]
  /\ UNCHANGED <<size, poolVars, lock, callVars>>

\* fast_acquire falls through to acquire.
FastAcquireMiss(t, p) ==
  /\ \E n \in Requests :
       /\ TlMatches(t, n) = {}
       /\ BeginCall(t, "lookup", p, n, 0)
  /\ UNCHANGED <<handleVars, poolVars, tlBytes, lock>>

\* A seeded fault: the handle is cut to the length asked for.
LookupHitCut(t) ==
  LET p == pool[t] IN
  /\ pc[t] = "lookup"
  /\ lock[p] = NoThread
  /\ \E h \in Bucket(p, SizeClass(arg[t])) :
       /\ CountOut(p, h)
       /\ Move({h}, Held(t), arg[t])
       /\ size' = [size EXCEPT ![h] = arg[t]]
  /\ EndCall(t)
  /\ UNCHANGED <<tlBytes, lock>>

\* acquire under the lock: the bucket has a handle.
LookupHit(t) ==
  LET p == pool[t] IN
  /\ pc[t] = "lookup"
  /\ lock[p] = NoThread
  /\ \E h \in Bucket(p, SizeClass(arg[t])) :
       /\ CountOut(p, h)
       /\ Move({h}, Held(t), arg[t])
  /\ EndCall(t)
  /\ UNCHANGED <<size, tlBytes, lock>>

\* acquire under the lock: nothing to pop; the lock is dropped.
LookupMiss(t) ==
  /\ pc[t] = "lookup"
  /\ lock[pool[t]] = NoThread
  /\ Bucket(pool[t], SizeClass(arg[t])) = {}
  /\ pc' = [pc EXCEPT ![t] = "alloc"]
  /\ UNCHANGED <<handleVars, poolVars, tlBytes, lock, pool, arg, left>>

\* The allocation that follows a miss, outside the lock.
AllocAfterMiss(t) ==
  /\ pc[t] = "alloc"
  /\ \E h \in Handles : Alloc(h, SizeClass(arg[t]), Held(t), arg[t])
  /\ EndCall(t)
  /\ UNCHANGED <<poolVars, tlBytes, lock>>

\* It fails and acquire returns the error.
AllocFails(t) ==
  /\ pc[t] = "alloc"
  /\ EndCall(t)
  /\ UNCHANGED <<handleVars, poolVars, tlBytes, lock>>

-------------------------------------------------------------------------------
(* release, fast_release and drain_thread_local                             *)

\* The caller's handle moves into the call, which then needs the lock.
Release(t, p) ==
  /\ BeginCall(t, "put", p, 0, 0)
  /\ \E h \in At(Held(t)) : Move({h}, InCall(t), 0)
  /\ UNCHANGED <<size, poolVars, tlBytes, lock>>

\* Whether TL_CACHE takes h: a small class, a free slot and enough bytes left.
TlAccepts(t, h) ==
  /\ SizeClass(size[h]) <= TlMaxBytes
  /\ Cardinality(At(InTl(t))) < TlSlots
  /\ Bytes(At(InTl(t))) + size[h] <= TlMaxBytes

\* fast_release into the thread's own cache.
FastReleaseTl(t) ==
  /\ pc[t] = "idle"
  /\ \E h \in At(Held(t)) :
       /\ TlAccepts(t, h)
       /\ File(h, InTl(t))
       /\ tlBytes' = [tlBytes EXCEPT ![t] = @ + size[h]]
  /\ UNCHANGED <<poolVars, lock, callVars>>

\* fast_release falls back to release.
FastReleaseFull(t, p) ==
  /\ BeginCall(t, "put", p, 0, 0)
  /\ \E h \in At(Held(t)) : ~TlAccepts(t, h) /\ Move({h}, InCall(t), 0)
  /\ UNCHANGED <<size, poolVars, tlBytes, lock>>

\* drain_thread_local empties the cache at once, then releases one by one.
DrainThreadLocal(t, p) ==
  /\ At(InTl(t)) # {}
  /\ BeginCall(t, "put", p, 0, 0)
  /\ Move(At(InTl(t)), InCall(t), 0)
  /\ tlBytes' = [tlBytes EXCEPT ![t] = 0]
  /\ UNCHANGED <<size, poolVars, lock>>

\* One critical section of release: the pool keeps h or h is dropped.  The call
\* returns with its last handle.
Put(t) ==
  /\ pc[t] = "put"
  /\ lock[pool[t]] = NoThread
  /\ \E h \in At(InCall(t)) :
       /\ IF Fits(pool[t], h)
            THEN CountIn(pool[t], h) /\ File(h, InPool(pool[t]))
            ELSE Free({h}) /\ UNCHANGED poolVars
       /\ IF At(InCall(t)) = {h} THEN EndCall(t) ELSE UNCHANGED callVars
  /\ UNCHANGED <<tlBytes, lock>>

-------------------------------------------------------------------------------
(* warm, for one of the sizes it is given                                   *)

Warm(t, p) ==
  /\ \E n \in Requests, k \in WarmCounts : BeginCall(t, "warm_alloc", p, n, k)
  /\ UNCHANGED <<handleVars, poolVars, tlBytes, lock>>

\* One allocation, outside the lock.
WarmAlloc(t) ==
  /\ pc[t] = "warm_alloc"
  /\ left[t] > 0
  /\ \E h \in Handles : Alloc(h, SizeClass(arg[t]), InCall(t), 0)
  /\ left' = [left EXCEPT ![t] = @ - 1]
  /\ UNCHANGED <<poolVars, tlBytes, lock, pc, pool, arg>>

\* An allocation fails: warm returns the error and drops what it allocated.
WarmAllocFails(t) ==
  /\ pc[t] = "warm_alloc"
  /\ left[t] > 0
  /\ Free(At(InCall(t)))
  /\ EndCall(t)
  /\ UNCHANGED <<poolVars, tlBytes, lock>>

WarmLock(t) ==
  /\ pc[t] = "warm_alloc"
  /\ left[t] = 0
  /\ lock[pool[t]] = NoThread
  /\ lock' = [lock EXCEPT ![pool[t]] = t]
  /\ pc' = [pc EXCEPT ![t] = "warm_push"]
  /\ UNCHANGED <<handleVars, poolVars, tlBytes, pool, arg, left>>

\* One iteration of the pushing loop, under the lock.
WarmPush(t) ==
  /\ pc[t] = "warm_push"
  /\ \E h \in At(InCall(t)) :
       /\ Fits(pool[t], h)
       /\ CountIn(pool[t], h)
       /\ File(h, InPool(pool[t]))
  /\ UNCHANGED <<tlBytes, lock, callVars>>

\* The loop ends, or breaks because the pool is full; the rest is dropped.
WarmDone(t) ==
  /\ pc[t] = "warm_push"
  /\ \A h \in At(InCall(t)) : ~Fits(pool[t], h)
  /\ Free(At(InCall(t)))
  /\ lock' = [lock EXCEPT ![pool[t]] = NoThread]
  /\ EndCall(t)
  /\ UNCHANGED <<poolVars, tlBytes>>

-------------------------------------------------------------------------------
(* trim and clear                                                           *)

TrimLock(t, p) ==
  /\ lock[p] = NoThread
  /\ \E keep \in KeepBytes : BeginCall(t, "trim", p, keep, 0)
  /\ lock' = [lock EXCEPT ![p] = t]
  /\ UNCHANGED <<handleVars, poolVars, tlBytes>>

\* A seeded fault: the search for a victim does not skip emptied buckets, which
\* stay in the map (here every class has one).
VictimsOfLargestKey(p) ==
  {h \in At(InPool(p)) : \A c \in Classes : c <= key[h]}

\* The handles of the largest class that has any: trim evicts one of them.
Victims(p) ==
  {h \in At(InPool(p)) : \A g \in At(InPool(p)) : key[g] <= key[h]}

\* A seeded fault: eviction goes on only while two handles are left.
MustEvictButLast(p, keep) ==
  cached[p] > keep /\ Cardinality(At(InPool(p))) > 1

\* The condition of the while loop, and that its search finds a bucket.
MustEvict(p, keep) == cached[p] > keep /\ At(InPool(p)) # {}

\* One iteration: a handle of the largest class is freed.
TrimEvict(t) ==
  /\ pc[t] = "trim"
  /\ MustEvict(pool[t], arg[t])
  /\ \E h \in Victims(pool[t]) : CountOut(pool[t], h) /\ Free({h})
  /\ UNCHANGED <<tlBytes, lock, callVars>>

TrimDone(t) ==
  /\ pc[t] = "trim"
  /\ ~MustEvict(pool[t], arg[t])
  /\ lock' = [lock EXCEPT ![pool[t]] = NoThread]
  /\ EndCall(t)
  /\ UNCHANGED <<handleVars, poolVars, tlBytes>>

\* A seeded fault: clear forgets the pool's own count.
ClearUncounted(t, p) ==
  /\ pc[t] = "idle"
  /\ lock[p] = NoThread
  /\ At(InPool(p)) # {}
  /\ Free(At(InPool(p)))
  /\ bucketBytes' = [bucketBytes EXCEPT ![p] = [c \in Classes |-> 0]]
  /\ UNCHANGED <<cached, tlBytes, lock, callVars>>

\* clear drops every handle of the pool (on an empty pool it changes nothing).
Clear(t, p) ==
  /\ pc[t] = "idle"
  /\ lock[p] = NoThread
  /\ At(InPool(p)) # {}
  /\ Free(At(InPool(p)))
  /\ cached' = [cached EXCEPT ![p] = 0]
  /\ bucketBytes' = [bucketBytes EXCEPT ![p] = [c \in Classes |-> 0]]
  /\ UNCHANGED <<tlBytes, lock, callVars>>

-------------------------------------------------------------------------------
Init ==
  /\ size = [h \in Handles |-> 0]
  /\ place = [h \in Handles |-> Nowhere]
  /\ key = [h \in Handles |-> 0]
  /\ want = [h \in Handles |-> 0]
  /\ cached = [p \in Pools |-> 0]
  /\ bucketBytes = [p \in Pools |-> [c \in Classes |-> 0]]
  /\ tlBytes = [t \in Threads |-> 0]
  /\ lock = [p \in Pools |-> NoThread]
  /\ pc = [t \in Threads |-> "idle"]
  /\ pool = [t \in Threads |-> NoPool]
  /\ arg = [t \in Threads |-> 0]
  /\ left = [t \in Threads |-> 0]

\* What a caller may do when it is not inside a call.
Caller(t) ==
  \/ AllocDirect(t)
  \/ DropHandle(t)
  \/ \E u \in Threads : SendHandle(t, u)
  \/ ThreadExit(t)
  \/ FastAcquireHit(t)
  \/ FastReleaseTl(t)
  \/ \E p \in Pools :
       \/ Acquire(t, p)
       \/ FastAcquireMiss(t, p)
       \/ Release(t, p)
       \/ FastReleaseFull(t, p)
       \/ DrainThreadLocal(t, p)
       \/ Warm(t, p)
       \/ TrimLock(t, p)
       \/ Clear(t, p)

\* What a call that has begun does.
Step(t) ==
  \/ LookupHit(t)
  \/ LookupMiss(t)
  \/ AllocAfterMiss(t)
  \/ AllocFails(t)
  \/ Put(t)
  \/ WarmAlloc(t)
  \/ WarmAllocFails(t)
  \/ WarmLock(t)
  \/ WarmPush(t)
  \/ WarmDone(t)
  \/ TrimEvict(t)
  \/ TrimDone(t)

Next == \E t \in Threads : Caller(t) \/ Step(t)

Spec == Init /\ [][Next]_vars

\* A thread that is inside a call is scheduled; callers need not do anything,
\* and the mutex makes no promise about who gets it.
FairSpec == Spec /\ \A t \in Threads : WF_vars(Step(t))

-------------------------------------------------------------------------------
TypeOK ==
  /\ size \in [Handles -> 0..MaxSize]
  /\ place \in [Handles -> Places]
  /\ key \in [Handles -> Classes \cup {0}]
  /\ want \in [Handles -> 0..MaxSize]
  /\ cached \in [Pools -> Nat]
  /\ bucketBytes \in [Pools -> [Classes -> Nat]]
  /\ tlBytes \in [Threads -> Nat]
  /\ lock \in [Pools -> Threads \cup {NoThread}]
  /\ pc \in [Threads -> {"idle", "lookup", "alloc", "put", "warm_alloc",
                         "warm_push", "trim"}]
  /\ pool \in [Threads -> Pools \cup {NoPool}]
  /\ arg \in [Threads -> Nat]
  /\ left \in [Threads -> Nat]

\* The two levels of byte counts a pool keeps by hand are at every step of every
\* thread what its buckets hold, so that "-=" never underflows and the capacity
\* check and trim see the truth (pool.rs, PoolInner and PoolBucket).
PoolAccounting ==
  \A p \in Pools :
    /\ cached[p] = Bytes(At(InPool(p)))
    /\ \A c \in Classes : bucketBytes[p][c] = Bytes(Bucket(p, c))

\* However threads interleave, a pool holds no more memory than max_cached_bytes.
PoolWithinCap ==
  \A p \in Pools : Bytes(At(InPool(p))) <= MaxCachedBytes[p]

\* A thread-local cache keeps its two limits, and its statistics, which hits,
\* releases and drains update apart from the cache, count what it holds.
TlWithinLimits ==
  \A t \in Threads :
    /\ Cardinality(At(InTl(t))) <= TlSlots
    /\ Bytes(At(InTl(t))) <= TlMaxBytes
    /\ tlBytes[t] = Bytes(At(InTl(t)))

\* What acquire and fast_acquire return is at least as long as was asked for,
\* whichever thread, pool or cache the handle came through ("Acquires an
\* AllocHandle of at least nbytes bytes", pool.rs:202).
ServedEnough ==
  \A t \in Threads : \A h \in At(Held(t)) : size[h] >= want[h]

\* trim returns only when the pool holds at most keep_bytes ("Releases cached
\* handles until the pool holds at most keep_bytes bytes", pool.rs:382).
TrimReachesTarget ==
  [][\A t \in Threads :
       pc[t] = "trim" /\ pc'[t] = "idle"
         => Bytes(At(InPool(pool[t]))) <= arg[t]]_vars

\* The pool does not come to a standstill with every thread inside a call: above
\* all, the loop of trim ends, which runs under the mutex.
SomeCallReturns == []<>(\E t \in Threads : pc[t] = "idle")

===============================================================================
