------------------------------ MODULE AllocStats ------------------------------
(***************************************************************************)
(* The global allocation counters of crates/mohu-buffer/src/alloc.rs.      *)
(*                                                                         *)
(* Every AllocHandle is counted when it is allocated (record_alloc) and    *)
(* when it is dropped (record_free), by whichever threads do so.  Both     *)
(* functions update several atomics one after the other, with no lock:     *)
(* every atomic operation is an action.  What threads do to one handle is  *)
(* sequential, so its stage says where its thread is, and threads need no  *)
(* names: any number of calls overlap.                                     *)
(*                                                                         *)
(* The operations are Relaxed.  A read-modify-write sees the last value in *)
(* any case; a plain load, and a compare_exchange_weak that fails, may see *)
(* an older one.  A failed allocation and a handle of zero bytes are not   *)
(* counted and are left out; so is the 64-bit width, which no sum of real  *)
(* allocations reaches.                                                    *)
(***************************************************************************)
EXTENDS ByteCount

CONSTANTS
  Handles,     \* names for AllocHandles; one that is freed may be reused
  MaxSize,     \* the largest length of a handle
  Sizes,       \* the lengths that are allocated
  Threshold,   \* MMAP_THRESHOLD
  MaxAllocs    \* a bound on the allocations of a behaviour

ASSUME StatsAssumption ==
  /\ IsFiniteSet(Handles)
  /\ MaxSize \in Nat
  /\ Sizes \subseteq 1..MaxSize
  /\ Threshold \in Nat
  /\ MaxAllocs \in Nat

VARIABLES
  size,      \* size[h]: len() of handle h, 0 when it does not exist
  stage,     \* stage[h]: what the thread that owns h does next about it
  new,       \* new[h]: the local "new" of the record_alloc of h
  seen,      \* seen[h]: its local "peak"
  live,      \* LIVE_BYTES
  peak,      \* PEAK_BYTES
  allocs,    \* ALLOC_COUNT
  frees,     \* FREE_COUNT
  heap,      \* HEAP_LIVE_BYTES
  mmap,      \* MMAP_LIVE_BYTES
  started,   \* allocations begun, for the bound
  maxLive,   \* the largest value LIVE_BYTES ever had
  peaks      \* the values PEAK_BYTES ever had: what a relaxed load may see

counters == <<live, peak, allocs, frees, heap, mmap>>
locals   == <<size, new, seen>>
history  == <<started, maxLive, peaks>>
vars == <<stage, locals, counters, history>>

Stages == {"none",                                       \* not allocated
           "live_add", "peak_load", "peak_cas", "alloc_count", "strategy_add",
           "live",                                       \* owned, at rest
           "live_sub", "free_count", "strategy_sub", "dealloc"}

At(S) == {h \in Handles : stage[h] \in S}
Bytes(S) == BytesOf(size, S, MaxSize)
IsHeap(h) == size[h] < Threshold

\* Handle h goes from one stage to the next.
Goes(h, from, to) ==
  /\ stage[h] = from
  /\ stage' = [stage EXCEPT ![h] = to]

-------------------------------------------------------------------------------
(* AllocHandle::alloc and record_alloc                                      *)

\* The memory is there and record_alloc is called.
Allocate(h) ==
  /\ started < MaxAllocs
  /\ Goes(h, "none", "live_add")
  /\ \E n \in Sizes : size' = [size EXCEPT ![h] = n]
  /\ started' = started + 1
  /\ UNCHANGED <<new, seen, counters, maxLive, peaks>>

\* LIVE_BYTES.fetch_add
LiveAdd(h) ==
  /\ Goes(h, "live_add", "peak_load")
  /\ live' = live + size[h]
  /\ new' = [new EXCEPT ![h] = live + size[h]]
  /\ maxLive' = IF live' > maxLive THEN live' ELSE maxLive
  /\ UNCHANGED <<size, seen, peak, allocs, frees, heap, mmap, started, peaks>>

\* The loop has read v for PEAK_BYTES: it goes on while "new" is larger.
Reads(h, from, v) ==
  /\ Goes(h, from, IF new[h] > v THEN "peak_cas" ELSE "alloc_count")
  /\ seen' = [seen EXCEPT ![h] = v]
  /\ UNCHANGED <<size, new, counters, history>>

\* PEAK_BYTES.load
PeakLoad(h) == \E v \in peaks : Reads(h, "peak_load", v)

\* A seeded fault: a plain store instead of the compare-and-exchange.
PeakStore(h) ==
  /\ Goes(h, "peak_cas", "alloc_count")
  /\ peak' = new[h]
  /\ peaks' = peaks \cup {new[h]}
  /\ UNCHANGED <<locals, live, allocs, frees, heap, mmap, started, maxLive>>

\* compare_exchange_weak succeeds.
PeakCas(h) ==
  /\ Goes(h, "peak_cas", "alloc_count")
  /\ seen[h] = peak
  /\ peak' = new[h]
  /\ peaks' = peaks \cup {new[h]}
  /\ UNCHANGED <<locals, live, allocs, frees, heap, mmap, started, maxLive>>

\* A seeded fault: one attempt and no loop.
PeakCasGivesUp(h) ==
  /\ Goes(h, "peak_cas", "alloc_count")
  /\ UNCHANGED <<locals, counters, history>>

\* It fails, because PEAK_BYTES changed or spuriously, and the loop tests again.
PeakCasFails(h) ==
  \E v \in peaks : v >= seen[h] /\ Reads(h, "peak_cas", v)

\* ALLOC_COUNT.fetch_add
AllocCount(h) ==
  /\ Goes(h, "alloc_count", "strategy_add")
  /\ allocs' = allocs + 1
  /\ UNCHANGED <<locals, live, peak, frees, heap, mmap, history>>

\* HEAP_LIVE_BYTES or MMAP_LIVE_BYTES.fetch_add; the handle is returned.
StrategyAdd(h) ==
  /\ Goes(h, "strategy_add", "live")
  /\ IF IsHeap(h) THEN heap' = heap + size[h] /\ UNCHANGED mmap
                  ELSE mmap' = mmap + size[h] /\ UNCHANGED heap
  /\ UNCHANGED <<locals, live, peak, allocs, frees, history>>

-------------------------------------------------------------------------------
(* Drop for AllocHandle and record_free                                     *)

\* A seeded fault: the memory is given back before it is counted out.
DropFirst(h) ==
  /\ Goes(h, "live", "live_sub")
  /\ size' = [size EXCEPT ![h] = 0]
  /\ UNCHANGED <<new, seen, counters, history>>

\* The owner drops the handle.
Drop(h) ==
  /\ Goes(h, "live", "live_sub")
  /\ UNCHANGED <<locals, counters, history>>

\* LIVE_BYTES.fetch_sub
LiveSub(h) ==
  /\ Goes(h, "live_sub", "free_count")
  /\ live' = live - size[h]
  /\ UNCHANGED <<locals, peak, allocs, frees, heap, mmap, history>>

\* FREE_COUNT.fetch_add
FreeCount(h) ==
  /\ Goes(h, "free_count", "strategy_sub")
  /\ frees' = frees + 1
  /\ UNCHANGED <<locals, live, peak, allocs, heap, mmap, history>>

\* A seeded fault: every handle is counted out of the heap.
StrategySubHeap(h) ==
  /\ Goes(h, "strategy_sub", "dealloc")
  /\ heap' = heap - size[h]
  /\ UNCHANGED <<locals, live, peak, allocs, frees, mmap, history>>

\* HEAP_LIVE_BYTES or MMAP_LIVE_BYTES.fetch_sub
StrategySub(h) ==
  /\ Goes(h, "strategy_sub", "dealloc")
  /\ IF IsHeap(h) THEN heap' = heap - size[h] /\ UNCHANGED mmap
                  ELSE mmap' = mmap - size[h] /\ UNCHANGED heap
  /\ UNCHANGED <<locals, live, peak, allocs, frees, history>>

\* dealloc or munmap: only now is the memory given back.
Dealloc(h) ==
  /\ Goes(h, "dealloc", "none")
  /\ size' = [size EXCEPT ![h] = 0]
  /\ new' = [new EXCEPT ![h] = 0]
  /\ seen' = [seen EXCEPT ![h] = 0]
  /\ UNCHANGED <<counters, history>>

-------------------------------------------------------------------------------
Init ==
  /\ size = [h \in Handles |-> 0]
  /\ stage = [h \in Handles |-> "none"]
  /\ new = [h \in Handles |-> 0]
  /\ seen = [h \in Handles |-> 0]
  /\ live = 0 /\ peak = 0 /\ allocs = 0 /\ frees = 0 /\ heap = 0 /\ mmap = 0
  /\ started = 0
  /\ maxLive = 0
  /\ peaks = {0}

\* What the thread that owns handle h does next.
Step(h) ==
  \/ Allocate(h)
  \/ LiveAdd(h)
  \/ PeakLoad(h)
  \/ PeakCas(h)
  \/ PeakCasFails(h)
  \/ AllocCount(h)
  \/ StrategyAdd(h)
  \/ Drop(h)
  \/ LiveSub(h)
  \/ FreeCount(h)
  \/ StrategySub(h)
  \/ Dealloc(h)

Next == \E h \in Handles : Step(h)

Spec == Init /\ [][Next]_vars

-------------------------------------------------------------------------------
TypeOK ==
  /\ size \in [Handles -> 0..MaxSize]
  /\ stage \in [Handles -> Stages]
  /\ new \in [Handles -> Nat]
  /\ seen \in [Handles -> Nat]
  /\ live \in Nat /\ peak \in Nat /\ allocs \in Nat /\ frees \in Nat
  /\ heap \in Nat /\ mmap \in Nat
  /\ started \in 0..MaxAllocs
  /\ maxLive \in Nat
  /\ peaks \subseteq Nat

\* No call is in progress.
Quiet == At(Stages \ {"none", "live"}) = {}

\* Once no call is in progress the counters agree with the handles and with one
\* another, however the calls overlapped: nothing is lost, nothing counted twice
\* (AllocStats: live_bytes, heap_live_bytes, mmap_live_bytes, live_count()).
CountersSettle ==
  Quiet =>
    /\ live = Bytes(At({"live"}))
    /\ live = heap + mmap
    /\ allocs - frees = Cardinality(At({"live"}))

\* The counters never claim memory the process does not hold: a handle is counted
\* after it is allocated and counted out before it is given back.
LiveWithinHeld ==
  /\ live <= Bytes(Handles)
  /\ heap + mmap <= Bytes(Handles)
  /\ allocs - frees <= Cardinality(At(Stages \ {"none"}))

\* PEAK_BYTES is the largest value LIVE_BYTES had, or a thread is still in the
\* loop of record_alloc to make it so ("Maximum live_bytes observed since process
\* start", alloc.rs:59).
PeakIsPeak ==
  /\ peak <= maxLive
  /\ peak = maxLive
       \/ \E h \in At({"peak_load", "peak_cas"}) : new[h] = maxLive

\* The peak never falls, although threads race to raise it.
PeakNeverFalls == [][peak' >= peak]_vars

===============================================================================
