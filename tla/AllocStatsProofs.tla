--------------------------- MODULE AllocStatsProofs ---------------------------
(* What holds of AllocStats for any number of handles and any lengths.       *)
EXTENDS AllocStats, ByteCountProofs

\* The handles each counter counts.
Counted  == At({"peak_load", "peak_cas", "alloc_count", "strategy_add", "live",
                "live_sub"})
Placed   == At({"live", "live_sub", "free_count", "strategy_sub"})
InHeap   == {h \in Placed : IsHeap(h)}
InMmap   == {h \in Placed : ~IsHeap(h)}
Tallied  == At({"strategy_add", "live", "live_sub", "free_count"})

Types ==
  /\ size \in [Handles -> 0..MaxSize]
  /\ stage \in [Handles -> Stages]
  /\ new \in [Handles -> Int]
  /\ seen \in [Handles -> Int]
  /\ live \in Int /\ peak \in Int /\ allocs \in Nat /\ frees \in Nat
  /\ heap \in Int /\ mmap \in Int
  /\ started \in 0..MaxAllocs
  /\ maxLive \in Int
  /\ peaks \subseteq Int

\* The loop of record_alloc: who carries what, and what PEAK_BYTES has been.
InLoop == At({"peak_load", "peak_cas"})

PeakInv ==
  /\ \A v \in peaks : 0 <= v /\ v <= peak
  /\ peak \in peaks
  /\ \A h \in Handles : seen[h] <= peak /\ 0 <= seen[h] /\ 0 <= new[h]
  /\ \A h \in InLoop : new[h] <= maxLive
  /\ \A h \in At({"peak_cas"}) : seen[h] < new[h]
  /\ live <= maxLive
  /\ PeakIsPeak

IInv ==
  /\ Types
  /\ live = Bytes(Counted)
  /\ heap = Bytes(InHeap)
  /\ mmap = Bytes(InMmap)
  /\ allocs - frees = Cardinality(Tallied)
  /\ PeakInv

-------------------------------------------------------------------------------
LEMMA Numbers ==
  /\ MaxSize \in Nat /\ MaxAllocs \in Nat /\ 0 \in 0..MaxSize
  /\ \A n \in 0..MaxSize : n \in Nat
  /\ \A n \in Sizes : n \in 0..MaxSize
BY StatsAssumption

LEMMA SubsetFinite ==
  ASSUME NEW S \in SUBSET Handles
  PROVE  IsFiniteSet(S)
BY FS_Subset, StatsAssumption

LEMMA SetTypes ==
  /\ Counted \in SUBSET Handles /\ InHeap \in SUBSET Handles
  /\ InMmap \in SUBSET Handles /\ Tallied \in SUBSET Handles
BY DEF Counted, InHeap, InMmap, Placed, Tallied, At

\* The bytes of a set of handles when the set or the lengths outside it change.
LEMMA BytesStay ==
  ASSUME NEW S, NEW T, T = S, \A g \in S : size'[g] = size[g]
  PROVE  BytesOf(size', T, MaxSize) = BytesOf(size, S, MaxSize)
BY BytesKept

LEMMA BytesJoin ==
  ASSUME Types, NEW S \in SUBSET Handles, NEW h \in Handles, h \notin S,
         NEW T, T = S \cup {h}, size' = size
  PROVE  BytesOf(size', T, MaxSize) = BytesOf(size, S, MaxSize) + size[h]
<1>1. size'[h] \in 0..MaxSize /\ \A g \in S : size'[g] = size[g]
  BY DEF Types
<1>2. QED
  BY <1>1, BytesGrown, SubsetFinite, Numbers

LEMMA BytesLeave ==
  ASSUME Types, NEW S \in SUBSET Handles, NEW h \in S,
         NEW T, T = S \ {h}, size' = size
  PROVE  BytesOf(size', T, MaxSize) = BytesOf(size, S, MaxSize) - size[h]
<1>1. size[h] \in 0..MaxSize /\ \A g \in S : g # h => size'[g] = size[g]
  BY DEF Types
<1>2. QED
  BY <1>1, BytesShrunk, SubsetFinite, Numbers

-------------------------------------------------------------------------------
LEMMA TypesKept ==
  ASSUME Types, NEW h \in Handles, Step(h)
  PROVE  Types'
<1>1. CASE Allocate(h)
  BY <1>1, Numbers DEF Types, Allocate, Goes, Stages, counters
<1>2. CASE LiveAdd(h)
  <2>1. size[h] \in Int
    BY Numbers DEF Types
  <2>2. QED
    BY <1>2, <2>1 DEF Types, LiveAdd, Goes, Stages
<1>3. CASE PeakLoad(h) \/ PeakCasFails(h)
  <2>1. PICK v \in peaks : Reads(h, "peak_load", v) \/ Reads(h, "peak_cas", v)
    BY <1>3 DEF PeakLoad, PeakCasFails
  <2>2. QED
    BY <2>1 DEF Types, Reads, Goes, Stages, counters, history
<1>4. CASE PeakCas(h)
  BY <1>4 DEF Types, PeakCas, Goes, Stages, locals
<1>5. CASE AllocCount(h)
  BY <1>5 DEF Types, AllocCount, Goes, Stages, locals, history
<1>6. CASE FreeCount(h)
  BY <1>6 DEF Types, FreeCount, Goes, Stages, locals, history
<1>7. CASE Drop(h)
  BY <1>7 DEF Types, Drop, Goes, Stages, locals, counters, history
<1>8. CASE LiveSub(h)
  <2>1. size[h] \in Int
    BY Numbers DEF Types
  <2>2. QED
    BY <1>8, <2>1 DEF Types, LiveSub, Goes, Stages, locals, history
<1>9. CASE Dealloc(h)
  BY <1>9, Numbers DEF Types, Dealloc, Goes, Stages, counters, history
<1>10. ASSUME StrategyAdd(h) \/ StrategySub(h)
       PROVE  heap' \in Int /\ mmap' \in Int
  <2>1. size[h] \in Int
    BY Numbers DEF Types
  <2>2. QED
    BY <1>10, <2>1 DEF Types, StrategyAdd, StrategySub
<1>11. CASE StrategyAdd(h)
  BY <1>10, <1>11 DEF Types, StrategyAdd, Goes, Stages, locals, history
<1>12. CASE StrategySub(h)
  BY <1>10, <1>12 DEF Types, StrategySub, Goes, Stages, locals, history
<1>13. QED
  BY <1>1, <1>2, <1>3, <1>4, <1>5, <1>6, <1>7, <1>8, <1>9, <1>11, <1>12 DEF Step

\* LIVE_BYTES
LEMMA LiveKept ==
  ASSUME Types, live = Bytes(Counted), NEW h \in Handles, Step(h)
  PROVE  (live = Bytes(Counted))'
<1>1. CASE LiveAdd(h)
  <2>1. size' = size /\ h \notin Counted /\ Counted' = Counted \cup {h}
    BY <1>1 DEF LiveAdd, Goes, Types, Counted, At
  <2>2. BytesOf(size', Counted', MaxSize) = BytesOf(size, Counted, MaxSize) + size[h]
    BY <2>1, BytesJoin, SetTypes
  <2>3. QED
    BY <1>1, <2>2 DEF LiveAdd, Bytes
<1>2. CASE LiveSub(h)
  <2>1. size' = size /\ h \in Counted /\ Counted' = Counted \ {h}
    BY <1>2 DEF LiveSub, Goes, Types, Counted, At, locals
  <2>2. BytesOf(size', Counted', MaxSize) = BytesOf(size, Counted, MaxSize) - size[h]
    BY <2>1, BytesLeave, SetTypes
  <2>3. QED
    BY <1>2, <2>2 DEF LiveSub, Bytes
<1>3. CASE ~LiveAdd(h) /\ ~LiveSub(h)
  <2>1. /\ live' = live
        /\ Counted' = Counted
        /\ \A g \in Counted : size'[g] = size[g]
    BY <1>3 DEF Step, Allocate, PeakLoad, PeakCas, PeakCasFails, AllocCount,
       StrategyAdd, Drop, FreeCount, StrategySub, Dealloc, Reads, Goes, Types, Counted,
       At, locals, counters
  <2>2. QED
    BY <2>1, BytesStay DEF Bytes
<1>4. QED
  BY <1>1, <1>2, <1>3

\* HEAP_LIVE_BYTES and MMAP_LIVE_BYTES
LEMMA StrategiesKept ==
  ASSUME Types, heap = Bytes(InHeap), mmap = Bytes(InMmap), NEW h \in Handles, Step(h)
  PROVE  (heap = Bytes(InHeap))' /\ (mmap = Bytes(InMmap))'
<1>1. CASE StrategyAdd(h)
  <2>1. size' = size /\ h \notin InHeap /\ h \notin InMmap
    BY <1>1 DEF StrategyAdd, Goes, InHeap, InMmap, Placed, At, locals
  <2>2. CASE IsHeap(h)
    <3>1. InHeap' = InHeap \cup {h} /\ InMmap' = InMmap
      BY <1>1, <2>1, <2>2 DEF StrategyAdd, Goes, Types, InHeap, InMmap, Placed, At, IsHeap
    <3>2. /\ BytesOf(size', InHeap', MaxSize) = BytesOf(size, InHeap, MaxSize) + size[h]
          /\ BytesOf(size', InMmap', MaxSize) = BytesOf(size, InMmap, MaxSize)
      BY <2>1, <3>1, BytesJoin, BytesStay, SetTypes
    <3>3. QED
      BY <1>1, <2>2, <3>2 DEF StrategyAdd, Bytes
  <2>3. CASE ~IsHeap(h)
    <3>1. InHeap' = InHeap /\ InMmap' = InMmap \cup {h}
      BY <1>1, <2>1, <2>3 DEF StrategyAdd, Goes, Types, InHeap, InMmap, Placed, At, IsHeap
    <3>2. /\ BytesOf(size', InHeap', MaxSize) = BytesOf(size, InHeap, MaxSize)
          /\ BytesOf(size', InMmap', MaxSize) = BytesOf(size, InMmap, MaxSize) + size[h]
      BY <2>1, <3>1, BytesJoin, BytesStay, SetTypes
    <3>3. QED
      BY <1>1, <2>3, <3>2 DEF StrategyAdd, Bytes
  <2>4. QED
    BY <2>2, <2>3
<1>2. CASE StrategySub(h)
  <2>1. size' = size
    BY <1>2 DEF StrategySub, locals
  <2>2. CASE IsHeap(h)
    <3>1. h \in InHeap /\ InHeap' = InHeap \ {h} /\ InMmap' = InMmap
      BY <1>2, <2>1, <2>2 DEF StrategySub, Goes, Types, InHeap, InMmap, Placed, At, IsHeap
    <3>2. /\ BytesOf(size', InHeap', MaxSize) = BytesOf(size, InHeap, MaxSize) - size[h]
          /\ BytesOf(size', InMmap', MaxSize) = BytesOf(size, InMmap, MaxSize)
      BY <2>1, <3>1, BytesLeave, BytesStay, SetTypes
    <3>3. QED
      BY <1>2, <2>2, <3>2 DEF StrategySub, Bytes
  <2>3. CASE ~IsHeap(h)
    <3>1. h \in InMmap /\ InHeap' = InHeap /\ InMmap' = InMmap \ {h}
      BY <1>2, <2>1, <2>3 DEF StrategySub, Goes, Types, InHeap, InMmap, Placed, At, IsHeap
    <3>2. /\ BytesOf(size', InHeap', MaxSize) = BytesOf(size, InHeap, MaxSize)
          /\ BytesOf(size', InMmap', MaxSize) = BytesOf(size, InMmap, MaxSize) - size[h]
      BY <2>1, <3>1, BytesLeave, BytesStay, SetTypes
    <3>3. QED
      BY <1>2, <2>3, <3>2 DEF StrategySub, Bytes
  <2>4. QED
    BY <2>2, <2>3
<1>3. CASE ~StrategyAdd(h) /\ ~StrategySub(h)
  <2>1. /\ heap' = heap /\ mmap' = mmap
        /\ Placed' = Placed
        /\ \A g \in Placed : size'[g] = size[g]
    BY <1>3 DEF Step, Allocate, LiveAdd, PeakLoad, PeakCas, PeakCasFails, AllocCount,
       Drop, LiveSub, FreeCount, Dealloc, Reads, Goes, Types, Placed, At, locals,
       counters
  <2>2. InHeap' = InHeap /\ InMmap' = InMmap
    BY <2>1 DEF InHeap, InMmap, IsHeap
  <2>3. \A g \in InHeap \cup InMmap : size'[g] = size[g]
    BY <2>1 DEF InHeap, InMmap
  <2>4. QED
    BY <2>1, <2>2, <2>3, BytesStay DEF Bytes
<1>4. QED
  BY <1>1, <1>2, <1>3

\* ALLOC_COUNT and FREE_COUNT
LEMMA TallyKept ==
  ASSUME Types, allocs - frees = Cardinality(Tallied), NEW h \in Handles, Step(h)
  PROVE  (allocs - frees = Cardinality(Tallied))'
<1>1. IsFiniteSet(Tallied) /\ Cardinality(Tallied) \in Nat
  BY SetTypes, SubsetFinite, FS_CardinalityType
<1>2. allocs \in Nat /\ frees \in Nat
  BY DEF Types
<1>3. CASE AllocCount(h)
  <2>1. h \notin Tallied /\ Tallied' = Tallied \cup {h}
    BY <1>3 DEF AllocCount, Goes, Types, Tallied, At
  <2>2. Cardinality(Tallied \cup {h}) = Cardinality(Tallied) + 1
    BY <1>1, <2>1, FS_AddElement
  <2>3. Cardinality(Tallied') = Cardinality(Tallied) + 1
    BY <2>1, <2>2, Zenon
  <2>4. allocs' = allocs + 1 /\ frees' = frees
    BY <1>3 DEF AllocCount
  <2>5. QED
    BY <1>1, <1>2, <2>3, <2>4
<1>4. CASE FreeCount(h)
  <2>1. h \in Tallied /\ Tallied' = Tallied \ {h}
    BY <1>4 DEF FreeCount, Goes, Types, Tallied, At
  <2>2. Cardinality(Tallied \ {h}) = Cardinality(Tallied) - 1
    BY <1>1, <2>1, FS_RemoveElement
  <2>3. Cardinality(Tallied') = Cardinality(Tallied) - 1
    BY <2>1, <2>2, Zenon
  <2>4. allocs' = allocs /\ frees' = frees + 1
    BY <1>4 DEF FreeCount
  <2>5. QED
    BY <1>1, <1>2, <2>3, <2>4
<1>5. CASE ~AllocCount(h) /\ ~FreeCount(h)
  <2>1. allocs' = allocs /\ frees' = frees /\ Tallied' = Tallied
    BY <1>5 DEF Step, Allocate, LiveAdd, PeakLoad, PeakCas, PeakCasFails, StrategyAdd,
       Drop, LiveSub, StrategySub, Dealloc, Reads, Goes, Types, Tallied, At, counters
  <2>2. Cardinality(Tallied') = Cardinality(Tallied)
    BY <2>1, Zenon
  <2>3. QED
    BY <2>1, <2>2
<1>6. QED
  BY <1>3, <1>4, <1>5

\* PEAK_BYTES: a handle in the loop either raises the peak to what it carries, or
\* has seen that the peak is there already, which it never leaves again.
LEMMA PeakKept ==
  ASSUME Types, PeakInv, 0 <= live, NEW h \in Handles, Step(h)
  PROVE  PeakInv'
<1>1. CASE LiveAdd(h)
  <2>1. /\ size[h] \in Int /\ 0 <= size[h] /\ live' = live + size[h]
        /\ live \in Int /\ maxLive \in Int
    BY <1>1, Numbers DEF Types, LiveAdd
  <2>2. /\ maxLive' \in Int /\ maxLive <= maxLive' /\ live' <= maxLive'
        /\ maxLive' = maxLive \/ maxLive' = live'
    BY <1>1, <2>1 DEF LiveAdd
  <2>3. new' = [new EXCEPT ![h] = live'] /\ UNCHANGED <<seen, peak, peaks>>
    BY <1>1, <2>1 DEF LiveAdd
  <2>4. stage[h] = "live_add" /\ stage' = [stage EXCEPT ![h] = "peak_load"]
    BY <1>1 DEF LiveAdd, Goes
  <2>5. /\ InLoop' = InLoop \cup {h} /\ h \notin InLoop
        /\ At({"peak_cas"})' = At({"peak_cas"}) /\ h \notin At({"peak_cas"})
    BY <2>4 DEF InLoop, At, Types
  <2>6. \A g \in Handles : new'[g] = IF g = h THEN live' ELSE new[g]
    BY <2>3 DEF Types
  <2>7. InLoop \subseteq Handles /\ At({"peak_cas"}) \subseteq Handles /\ peak \in Int
    BY DEF InLoop, At, Types
  <2>8. \A g \in InLoop' : new'[g] <= maxLive'
    BY <2>1, <2>2, <2>5, <2>6, <2>7 DEF PeakInv, Types
  <2>9. PeakIsPeak'
    <3>1. peak' <= maxLive'
      BY <2>2, <2>3, <2>1, <2>7 DEF PeakInv, PeakIsPeak
    <3>2. CASE maxLive' = live'
      BY <2>5, <2>6, <3>1, <3>2 DEF PeakIsPeak, InLoop
    <3>3. CASE maxLive' = maxLive
      BY <2>3, <2>5, <2>6, <2>7, <3>1, <3>3 DEF PeakInv, PeakIsPeak, InLoop
    <3>4. QED
      BY <2>2, <3>2, <3>3
  <2>10. \A g \in Handles : seen'[g] <= peak' /\ 0 <= seen'[g] /\ 0 <= new'[g]
    BY <2>1, <2>3, <2>6 DEF PeakInv
  <2>11. \A g \in At({"peak_cas"})' : seen'[g] < new'[g]
    BY <2>3, <2>5, <2>6, <2>7 DEF PeakInv
  <2>12. QED
    BY <2>2, <2>3, <2>8, <2>9, <2>10, <2>11 DEF PeakInv
<1>2. CASE PeakLoad(h) \/ PeakCasFails(h)
  <2>1. PICK v \in peaks : Reads(h, "peak_load", v) \/ Reads(h, "peak_cas", v)
    BY <1>2 DEF PeakLoad, PeakCasFails
  <2>2. /\ h \in InLoop
        /\ stage' = [stage EXCEPT ![h] = IF new[h] > v THEN "peak_cas" ELSE "alloc_count"]
        /\ seen' = [seen EXCEPT ![h] = v]
        /\ UNCHANGED <<new, peak, live, maxLive, peaks>>
    BY <2>1 DEF Reads, Goes, InLoop, At, counters, history
  <2>3. v \in Int /\ 0 <= v /\ v <= peak /\ peak \in Int /\ maxLive \in Int /\ new[h] \in Int
    BY DEF PeakInv, Types
  <2>4. \A g \in Handles : seen'[g] = IF g = h THEN v ELSE seen[g]
    BY <2>2 DEF Types
  <2>5. \A g \in Handles : seen'[g] <= peak' /\ 0 <= seen'[g] /\ 0 <= new'[g]
    BY <2>2, <2>3, <2>4 DEF PeakInv
  <2>6. InLoop' \subseteq InLoop /\ InLoop \ {h} \subseteq InLoop'
    BY <2>2 DEF InLoop, At, Types
  <2>7. \A g \in At({"peak_cas"})' : seen'[g] < new'[g]
    BY <2>2, <2>3, <2>4 DEF PeakInv, At, Types
  <2>8. CASE new[h] > v
    <3>1. InLoop' = InLoop
      BY <2>2, <2>8 DEF InLoop, At, Types
    <3>2. PeakIsPeak'
      BY <2>2, <3>1 DEF PeakInv, PeakIsPeak, InLoop
    <3>3. QED
      BY <2>2, <2>5, <2>7, <3>1, <3>2 DEF PeakInv
  <2>9. CASE ~(new[h] > v)
    <3>1. new[h] <= peak
      BY <2>3, <2>9
    <3>2. PeakIsPeak'
      <4>1. CASE peak = maxLive
        BY <2>2, <2>3, <4>1 DEF PeakIsPeak
      <4>2. CASE peak # maxLive
        <5>1. PICK g \in InLoop : new[g] = maxLive
          BY <4>2 DEF PeakInv, PeakIsPeak, InLoop
        <5>2. g # h
          BY <2>3, <3>1, <4>2, <5>1 DEF PeakInv, PeakIsPeak
        <5>3. g \in InLoop'
          BY <2>6, <5>1, <5>2
        <5>4. QED
          BY <2>2, <5>1, <5>3 DEF PeakInv, PeakIsPeak, InLoop
      <4>3. QED
        BY <4>1, <4>2
    <3>3. QED
      BY <2>2, <2>5, <2>6, <2>7, <3>2 DEF PeakInv
  <2>10. QED
    BY <2>8, <2>9
<1>3. CASE PeakCas(h)
  <2>1. /\ stage[h] = "peak_cas" /\ seen[h] = peak /\ peak' = new[h]
        /\ stage' = [stage EXCEPT ![h] = "alloc_count"]
        /\ peaks' = peaks \cup {new[h]}
        /\ UNCHANGED <<new, seen, live, maxLive>>
    BY <1>3 DEF PeakCas, Goes, locals
  <2>2. h \in InLoop /\ h \in At({"peak_cas"})
    BY <2>1 DEF InLoop, At
  <2>3. /\ peak \in Int /\ peak' \in Int /\ maxLive \in Int
        /\ peaks \subseteq Int /\ seen \in [Handles -> Int]
    BY <2>1 DEF Types
  <2>4. peak < peak' /\ peak' <= maxLive /\ 0 <= peak'
    BY <2>1, <2>2, <2>3 DEF PeakInv
  <2>5. InLoop' = InLoop \ {h} /\ At({"peak_cas"})' = At({"peak_cas"}) \ {h}
    BY <2>1 DEF InLoop, At, Types
  <2>6. PeakIsPeak'
    <3>1. CASE peak' = maxLive
      BY <2>1, <2>3, <3>1 DEF PeakIsPeak
    <3>2. CASE peak' # maxLive
      <4>1. PICK g \in InLoop : new[g] = maxLive
        BY <2>3, <2>4 DEF PeakInv, PeakIsPeak, InLoop
      <4>2. g # h
        BY <2>1, <3>2, <4>1
      <4>3. QED
        BY <2>1, <2>4, <2>5, <4>1, <4>2 DEF PeakIsPeak, InLoop
    <3>3. QED
      BY <3>1, <3>2
  <2>7. \A v \in peaks' : 0 <= v /\ v <= peak'
    BY <2>1, <2>3, <2>4 DEF PeakInv
  <2>8. \A g \in Handles : seen'[g] <= peak' /\ 0 <= seen'[g] /\ 0 <= new'[g]
    BY <2>1, <2>3, <2>4 DEF PeakInv
  <2>9. QED
    BY <2>1, <2>5, <2>6, <2>7, <2>8 DEF PeakInv
<1>4. CASE LiveSub(h)
  <2>1. size[h] \in Int /\ 0 <= size[h] /\ live' = live - size[h]
    BY <1>4, Numbers DEF Types, LiveSub
  <2>2. live \in Int /\ maxLive \in Int /\ live' <= maxLive
    BY <2>1 DEF Types, PeakInv
  <2>3. /\ InLoop' = InLoop /\ At({"peak_cas"})' = At({"peak_cas"})
        /\ UNCHANGED <<new, seen, peak, maxLive, peaks>>
    BY <1>4 DEF LiveSub, Goes, InLoop, At, Types, locals, history
  <2>4. QED
    BY <2>2, <2>3 DEF PeakInv, PeakIsPeak, InLoop
<1>5. CASE Dealloc(h)
  <2>1. /\ InLoop' = InLoop /\ At({"peak_cas"})' = At({"peak_cas"})
        /\ h \notin InLoop /\ h \notin At({"peak_cas"})
        /\ UNCHANGED <<live, peak, maxLive, peaks>>
    BY <1>5 DEF Dealloc, Goes, InLoop, At, Types, counters, history
  <2>2. /\ \A g \in Handles : new'[g] = IF g = h THEN 0 ELSE new[g]
        /\ \A g \in Handles : seen'[g] = IF g = h THEN 0 ELSE seen[g]
    BY <1>5 DEF Dealloc, Types
  <2>3. peak \in Int /\ 0 <= peak
    BY DEF PeakInv, Types
  <2>4. \A g \in InLoop \cup At({"peak_cas"}) : new'[g] = new[g] /\ seen'[g] = seen[g]
    BY <2>1, <2>2 DEF InLoop, At
  <2>5. \A g \in Handles : seen'[g] <= peak' /\ 0 <= seen'[g] /\ 0 <= new'[g]
    BY <2>1, <2>2, <2>3 DEF PeakInv
  <2>6. QED
    BY <2>1, <2>4, <2>5 DEF PeakInv, PeakIsPeak, InLoop
<1>6. CASE \/ Allocate(h) \/ AllocCount(h) \/ StrategyAdd(h) \/ Drop(h)
           \/ FreeCount(h) \/ StrategySub(h)
  <2>1. /\ InLoop' = InLoop /\ At({"peak_cas"})' = At({"peak_cas"})
        /\ UNCHANGED <<new, seen, live, peak, maxLive, peaks>>
    BY <1>6 DEF Allocate, AllocCount, StrategyAdd, Drop, FreeCount, StrategySub, Goes,
       InLoop, At, Types, locals, counters, history
  <2>2. QED
    BY <2>1 DEF PeakInv, PeakIsPeak, InLoop
<1>7. QED
  BY <1>1, <1>2, <1>3, <1>4, <1>5, <1>6 DEF Step

-------------------------------------------------------------------------------
LEMMA InitOK == Init => IInv
<1> SUFFICES ASSUME Init PROVE IInv
  OBVIOUS
<1>1. Types
  BY Numbers DEF Init, Types, Stages
<1>2. Counted = {} /\ InHeap = {} /\ InMmap = {} /\ Tallied = {} /\ InLoop = {}
  BY DEF Init, Counted, InHeap, InMmap, Placed, Tallied, InLoop, At
<1>3. BytesOf(size, {}, MaxSize) = 0 /\ Cardinality({}) = 0
  BY BytesEmpty, FS_EmptySet, Numbers
<1>4. Bytes(Counted) = 0 /\ Bytes(InHeap) = 0 /\ Bytes(InMmap) = 0
  BY <1>2, <1>3, Zenon DEF Bytes
<1>5. Cardinality(Tallied) = 0
  BY <1>2, <1>3, Zenon
<1>6. PeakInv
  BY <1>2 DEF Init, PeakInv, PeakIsPeak, At
<1>7. QED
  BY <1>1, <1>4, <1>5, <1>6 DEF Init, IInv

LEMMA NextKeepsIInv == IInv /\ [Next]_vars => IInv'
<1> SUFFICES ASSUME IInv, [Next]_vars PROVE IInv'
  OBVIOUS
<1>1. CASE Next
  <2>1. PICK h \in Handles : Step(h)
    BY <1>1 DEF Next
  <2>2. Bytes(Counted) \in Nat
    BY BytesType, SetTypes, SubsetFinite, Numbers DEF Bytes
  <2>3. 0 <= live
    BY <2>2 DEF IInv
  <2>4. QED
    BY <2>1, <2>3, TypesKept, LiveKept, StrategiesKept, TallyKept, PeakKept DEF IInv
<1>2. CASE UNCHANGED vars
  <2>1. /\ UNCHANGED <<size, stage, new, seen, live, peak, allocs, frees, heap, mmap>>
        /\ UNCHANGED <<started, maxLive, peaks>>
    BY <1>2 DEF vars, locals, counters, history
  <2>2. Counted' = Counted /\ InHeap' = InHeap /\ InMmap' = InMmap /\ Tallied' = Tallied
    BY <2>1 DEF Counted, InHeap, InMmap, Placed, IsHeap, Tallied, At
  <2>3. /\ Bytes(Counted)' = Bytes(Counted) /\ Bytes(InHeap)' = Bytes(InHeap)
        /\ Bytes(InMmap)' = Bytes(InMmap)
    BY <2>1, <2>2, BytesStay DEF Bytes
  <2>4. Cardinality(Tallied') = Cardinality(Tallied)
    BY <2>2, Zenon
  <2>5. Types' /\ PeakInv'
    BY <2>1 DEF IInv, Types, PeakInv, PeakIsPeak, InLoop, At
  <2>6. QED
    BY <2>1, <2>3, <2>4, <2>5 DEF IInv
<1>3. QED
  BY <1>1, <1>2

LEMMA Inductive == Spec => []IInv
BY InitOK, NextKeepsIInv, PTL DEF Spec

\* The bytes of the two strategies together are those of the handles placed.
LEMMA BothStrategies ==
  ASSUME IInv
  PROVE  heap + mmap = Bytes(Placed)
<1>1. InHeap \cap InMmap = {} /\ Placed = InHeap \cup InMmap
  BY DEF InHeap, InMmap
<1>2. IsFiniteSet(InHeap) /\ IsFiniteSet(InMmap)
  BY SetTypes, SubsetFinite
<1>3. BytesOf(size, InHeap \cup InMmap, MaxSize)
        = BytesOf(size, InHeap, MaxSize) + BytesOf(size, InMmap, MaxSize)
  BY <1>1, <1>2, BytesUnion, Numbers
<1>4. BytesOf(size, Placed, MaxSize) = heap + mmap
  BY <1>1, <1>3, Zenon DEF IInv, Bytes
<1>5. QED
  BY <1>4 DEF Bytes

\* The counters are never negative and every variable keeps its type, so that
\* "new as u64" in record_alloc never turns a negative sum into a huge peak.
THEOREM TypeCorrect == Spec => []TypeOK
<1>1. ASSUME IInv
      PROVE  TypeOK
  <2>1. live \in Nat /\ heap \in Nat /\ mmap \in Nat
    BY <1>1, BytesType, SetTypes, SubsetFinite, Numbers DEF IInv, Bytes
  <2>2. Types /\ PeakInv
    BY <1>1 DEF IInv
  <2>3. peak \in Nat /\ maxLive \in Nat /\ peaks \subseteq Nat
    BY <2>1, <2>2 DEF Types, PeakInv
  <2>4. new \in [Handles -> Nat] /\ seen \in [Handles -> Nat]
    BY <2>2 DEF Types, PeakInv
  <2>5. QED
    BY <2>1, <2>2, <2>3, <2>4 DEF Types, TypeOK
<1>2. QED
  BY <1>1, Inductive, PTL

\* At rest the counters are what the live handles amount to, for any number of
\* handles and any overlap of the calls that led there.
THEOREM Settled == Spec => []CountersSettle
<1>1. ASSUME IInv, Quiet
      PROVE  /\ live = Bytes(At({"live"}))
             /\ live = heap + mmap
             /\ allocs - frees = Cardinality(At({"live"}))
  <2>1. \A h \in Handles : stage[h] \in {"none", "live"}
    BY <1>1 DEF Quiet, At, IInv, Types
  <2>2. Counted = At({"live"}) /\ Placed = At({"live"}) /\ Tallied = At({"live"})
    BY <2>1 DEF Counted, Placed, Tallied, At
  <2>3. live = Bytes(At({"live"}))
    BY <1>1, <2>2, Zenon DEF IInv
  <2>4. heap + mmap = Bytes(At({"live"}))
    BY <1>1, <2>2, BothStrategies, Zenon
  <2>5. allocs - frees = Cardinality(At({"live"}))
    BY <1>1, <2>2, Zenon DEF IInv
  <2>6. QED
    BY <2>3, <2>4, <2>5
<1>2. IInv => CountersSettle
  BY <1>1 DEF CountersSettle
<1>3. QED
  BY <1>2, Inductive, PTL

\* The counters never exceed what the process holds.
THEOREM WithinHeld == Spec => []LiveWithinHeld
<1>1. ASSUME IInv
      PROVE  LiveWithinHeld
  <2>1. Placed \in SUBSET Handles /\ Counted \in SUBSET Handles /\ IsFiniteSet(Handles)
    BY SetTypes, StatsAssumption DEF Placed, At
  <2>2. Bytes(Counted) <= Bytes(Handles) /\ Bytes(Placed) <= Bytes(Handles)
    BY <2>1, BytesSubset, Numbers DEF Bytes
  <2>3. Tallied \subseteq At(Stages \ {"none"}) /\ At(Stages \ {"none"}) \in SUBSET Handles
    BY DEF Tallied, At, Stages
  <2>4. Cardinality(Tallied) <= Cardinality(At(Stages \ {"none"}))
    BY <2>3, SubsetFinite, FS_Subset
  <2>5. heap + mmap = Bytes(Placed)
    BY <1>1, BothStrategies
  <2>6. live <= Bytes(Handles) /\ heap + mmap <= Bytes(Handles)
    BY <1>1, <2>2, <2>5 DEF IInv
  <2>7. allocs - frees <= Cardinality(At(Stages \ {"none"}))
    BY <1>1, <2>4 DEF IInv
  <2>8. QED
    BY <2>6, <2>7 DEF LiveWithinHeld
<1>2. QED
  BY <1>1, Inductive, PTL

\* The compare-and-exchange loop loses no peak, with stale loads and spurious
\* failures, for any number of threads.
THEOREM Peak == Spec => []PeakIsPeak
<1>1. IInv => PeakIsPeak
  BY DEF IInv, PeakInv
<1>2. QED
  BY <1>1, Inductive, PTL

\* PEAK_BYTES only grows.
THEOREM PeakGrows == Spec => PeakNeverFalls
<1>1. IInv /\ [Next]_vars => [peak' >= peak]_vars
  <2> SUFFICES ASSUME IInv, Next
               PROVE  peak' >= peak
    BY DEF vars
  <2>1. PICK h \in Handles : Step(h)
    BY DEF Next
  <2>2. peak \in Int /\ Types /\ PeakInv
    BY DEF IInv, Types
  <2>3. CASE PeakCas(h)
    <3>1. seen[h] = peak /\ peak' = new[h] /\ h \in At({"peak_cas"})
      BY <2>3 DEF PeakCas, Goes, At
    <3>2. peak < new[h] /\ new[h] \in Int
      BY <2>2, <3>1 DEF PeakInv, Types
    <3>3. QED
      BY <2>2, <3>1, <3>2
  <2>4. CASE ~PeakCas(h)
    <3>1. peak' = peak
      BY <2>1, <2>4 DEF Step, Allocate, LiveAdd, PeakLoad, PeakCasFails, AllocCount,
         StrategyAdd, Drop, LiveSub, FreeCount, StrategySub, Dealloc, Reads, counters
    <3>2. QED
      BY <2>2, <3>1
  <2>5. QED
    BY <2>3, <2>4
<1>2. QED
  BY <1>1, Inductive, PTL DEF Spec, PeakNeverFalls

===============================================================================
