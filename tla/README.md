# Verification of mohu

mohu is an n-dimensional array library in Rust. Almost all of its working code is
in `src/crates/mohu-buffer` (memory, buffers, views, bulk operations) and
`src/crates/mohu-dtype` (element types, promotion); `mohu-error` builds error
values, `mohu-random` has two generators, and the other crates are declarations.

This directory holds TLA+ models of the parts where an order of events can go
wrong, TLC configurations that check them on small instances, and TLAPS proofs
that hold for every instance. Paths below are relative to `src/crates/`.

Run, from this directory:

    tlc -workers 2 -config pool_safety.cfg MCBufferPool.tla    # any run of the table
    tlapm BufferPoolProofs.tla                                 # any *Proofs module

## 1. The system

| component | state | operations | talks to |
|---|---|---|---|
| allocation handles, `mohu-buffer/src/alloc.rs` | a block of memory each; six process-wide relaxed atomics (`LIVE_BYTES`, `PEAK_BYTES`, `ALLOC_COUNT`, `FREE_COUNT`, `HEAP_LIVE_BYTES`, `MMAP_LIVE_BYTES`) | `alloc`, `Drop`, `record_alloc`, `record_free`, `AllocStats::snapshot`, advice and locking of pages | the pool, `RawBuffer` |
| allocation pool, `mohu-buffer/src/pool.rs` | per thread `TL_CACHE` and `TL_STATS`; per `BufferPool` a mutex over a map from size class to bucket, with byte counts for the pool and for every bucket | `acquire`, `release`, `fast_acquire`, `fast_release`, `drain_thread_local`, `warm`, `trim`, `clear`, `stats`, thread exit | allocates and drops handles |
| buffers, `mohu-buffer/src/buffer.rs` | `Buffer` = layout + flags + `Arc<RawBuffer>`; a `RawBuffer` owns an `AllocHandle` or a `DLManagedTensor` from elsewhere | construction, `share`, the zero-copy views, `make_unique` and the writers, `set_writeable`, `to_dlpack`, `from_dlpack`, the deleter callback | handles; other libraries through DLPack callbacks; threads through `Arc` |
| layouts, `layout.rs`, `strides.rs` | none (values) | shapes, strides, slices, permutation, broadcast, index iterators, overlap tests | used by buffers, views and ops |
| bulk operations, `ops.rs` and the numeric methods of `buffer.rs` | none of their own | fills, copies, casts, maps, scans, reductions, gather, scatter, selection, triangles, in parallel over elements or chunks (rayon) | buffers, through `make_unique` |
| views, `view.rs` | borrowed buffers | element access, iteration | buffers |
| element types, `mohu-dtype` | none (tables) | promotion, casts, limits, names, DLPack codes | buffers and ops |
| errors, `mohu-error` | an error value: a variant, or one under contexts, or several; a collector `MultiError` | constructors, `collect`, `into_result`, `extend_from`, `context` and its kin, `bail!`, `ensure!`, the assert macros, `code`, `kind`, reports, the Python exception | everywhere: results of every fallible call |
| generators, `mohu-random` | one generator each | `next`, `jump`, `split` | none |

What is hard here:

* **concurrency** — several threads on one pool, whose operations leave the mutex
  in the middle; relaxed counters without a lock; Buffers of several threads on one
  `RawBuffer`, where "am I alone?" is asked before the write; parallel scans;
* **hand-kept redundancy** — byte counts next to the buckets, thread statistics next
  to the thread cache, an `Arc` count next to a graph of buffers and tensors, flags
  next to a layout;
* **callbacks and lifetimes** — memory owned by another library's deleter, or
  exported to it; handles freed when a thread exits;
* **aliasing** — the target of a call may lie in the memory of its own source: what
  keeps the tasks of the call apart is a reference count;
* **scheduling of reductions** — rayon splits the elements as it likes, and the answer
  may not depend on it;
* **failure in the middle** — allocation fails after some of `warm`, or inside
  copy-on-write; errors are collected, merged and wrapped on their way up;
* **tables kept by hand** — promotion, casts, error codes, kinds and exceptions;
* **arithmetic at boundaries** — slices, strides, offsets that are applied twice.

What makes each correct, in one sentence each: the pool counts what it holds, never
holds more than it may, loses and duplicates nothing, and serves at least what was
asked; the counters settle to the truth and never claim what is not held; a writer
is alone on its memory and everybody else's array stays what it was; every element
of every view is in allocated memory; a layout maps distinct indices into its
buffer, to distinct places unless it is a broadcast; a parallel scan equals the
sequential one; a bulk operation writes what its arguments were when it began and
nothing else; a reduction returns what the elements determine; a common type holds
every operand, and a chain of safe conversions loses nothing; no error is lost, and its
kind, its reports and its exception fit it and its contexts.

`PROJECT.json` lists the hazards of the code line by line, with the property that
would notice each, and those no property covers yet.

## 2. The modules

| module | what it is | code |
|---|---|---|
| `ByteCount` | bytes held by a set of handles | sums of `len()` |
| `BufferPool` | both tiers of the pool, all threads | `pool.rs` |
| `PoolLedger` | abstract: blocks are lent, retained, freed once, within a budget | — |
| `BufferPoolLedger` | the pool seen as that ledger | — |
| `AllocStats` | the six counters, one action per atomic operation | `alloc.rs` 47–128, 253–286, 686–711 |
| `BufferShare` | sharing, copy-on-write, DLPack | `buffer.rs`, and the pieces of `layout.rs`, `strides.rs`, `ops.rs`, `view.rs` it stands on |
| `ArrayValues` | abstract: every array is a value of its own | — |
| `BufferValues` | the Buffers seen as such values | — |
| `Layout` | layouts of several axes: views of views, ranges, contiguity, overlap, iterators | `layout.rs`, `strides.rs` |
| `ArrayView` | abstract: an array is a function from indices to elements, a view another one | — |
| `ParallelScan` | the three passes of the parallel scan, its tasks interleaved | `ops.rs` 424–505 |
| `BulkOps` | the operations that write an array, their checks, copy-on-write and tasks | `ops.rs`, `buffer.rs` 1222–1304, 1722–1786 |
| `Reductions` | sums, moments, extrema and their places, any, all, count, as rayon splits and joins them | `ops.rs` 346–370, 993–1308, `buffer.rs` 1312–1422, 1482–1695 |
| `DType` | the element types, promotion and cast tables, DLPack codes and other names | `dtype.rs`, `promote.rs`, `dlpack.rs`, `compat.rs` |
| `Scalar` | numbers as exact values, and what a conversion does to them | `scalar.rs`, `cast.rs` |
| `Casting` | arrays brought to a common type and converted on and on | `promote.rs`, `cast.rs`, `ops.rs` |
| `MohuError` | error values and what is computed of them | `error.rs`, `codes.rs`, `kind.rs`, `chain.rs`, `reporter.rs`, `python.rs` |
| `ErrorFlow` | errors raised, collected, merged, wrapped, passed on, reported | `multi.rs`, `context.rs`, `macros.rs` |
| `MC*` | instances: symmetry sets and small inputs; `MCArrays` runs `Layout`, `BulkOps` and `ParallelScan` side by side, `MCElements` runs `Casting`, `Reductions` and `ErrorFlow` | — |
| `*Proofs` | the theorems | — |

`PoolLedger` and `ArrayValues` are written from what users are promised; the
detailed modules are checked, and proved, to implement them: `BufferPoolLedger` and
`BufferValues` hold the refinement mappings (`INSTANCE ... WITH`). `ArrayView`
says what each view means without strides or offsets; `Layout` carries an array of
it along as a reference.

### BufferPool

Handles are names with a `size` and a `place`: nowhere, held by a thread's caller
code, owned by the call a thread is in, in a thread's `TL_CACHE`, or in a bucket of
a pool. Rust's ownership makes `place` a function. `key` is the class a cached
handle is filed under; `cached`, `bucketBytes` and `tlBytes` are the hand-kept
counts; `lock`, `pc`, `pool`, `arg`, `left` are where each thread is in its call.

| code | actions |
|---|---|
| `acquire` | `Acquire`, then under the mutex `LookupHit` or `LookupMiss`, then, mutex released, `AllocAfterMiss` or `AllocFails` |
| `fast_acquire` | `FastAcquireHit`; `FastAcquireMiss` goes on as `acquire` |
| `release` | `Release`, then `Put` under the mutex (files or frees) |
| `fast_release` | `FastReleaseTl`; `FastReleaseFull` goes on as `release` |
| `drain_thread_local` | `DrainThreadLocal`, then one `Put` for each handle |
| `warm` | `Warm`, `WarmAlloc`/`WarmAllocFails` outside the mutex, `WarmLock`, `WarmPush`, `WarmDone` |
| `trim` | `TrimLock`, `TrimEvict` for each handle, `TrimDone` |
| `clear`, thread exit | `Clear`, `ThreadExit` |
| `AllocHandle::alloc`, drop, moving a handle to another thread | `AllocDirect`, `DropHandle`, `SendHandle` |

A critical section that does one thing is one action guarded by the free lock; the
two that loop hold the lock over several steps, so that termination of the loop is a
question. Which handle of a bucket is popped is left open (the code pops the last).
Not modelled: the hit, miss and return counters, which only `stats()` reads;
`advise_all` and poisoning, which move no handle; calls for zero bytes, which return
at once.

### AllocStats

`stage[h]` says what the thread that owns handle `h` does next, so any number of calls
overlap and threads need no names. Each atomic operation of `record_alloc` and
`record_free` is one action, in the order of the code. All operations are `Relaxed`: a
read-modify-write sees the newest value whatever the ordering, and a plain load, or a
`compare_exchange_weak` that fails, may see any older value (`peaks` is the history of
`PEAK_BYTES`), or fail spuriously. The 64-bit width is left out: it bounds sums of
memory that exists.

### BufferShare

A `Buffer` is `raw`, `layout` (offset, length, stride, in elements) and `writeable`;
a `RawBuffer` has its `Arc` count `strong`, the tensor it came from (`source`) and a
place in a block of memory (`ptr`); `mem` is memory; `tensor`, `of` and `shown` are
the `DLManagedTensor`s, whom they keep alive and what their consumers see.

A method on `&Buffer` is one step. A method on `&mut Buffer` is several, and other
Buffers are used between them, as other threads may: `BeginWrite` (test the flag,
read the count), `CopyElement` for each element, `Replace`, `WriteElement`,
`EndWrite`, with `CopyFails` when memory runs out. While a method is between two
steps nobody else touches that Buffer: the borrow checker sees to it.

| code | actions |
|---|---|
| `alloc`, `zeros`, `full`, `from_slice` | `Create` |
| `to_contiguous`, `cast` | `CopyOut` |
| `share`, `clone`, `transpose`, `permute` | `Share` |
| `reshape`, `expand_dims`/`squeeze`, `slice_axis`, `broadcast_to` | `Reshape`, `ExpandDims`, `SliceAxis`, `BroadcastTo` |
| `make_unique`, alone | `MakeUnique`, `CopyElement`, `Replace`, `CopyFails` |
| `set`, `as_mut_slice`, `BufferViewMut`, the in-place functions of `ops.rs` | `BeginWrite` … `EndWrite` |
| `set_writeable` | `SetWriteable` |
| `to_dlpack`, `from_dlpack`, `dlmanaged_deleter` and a stranger's deleter | `ToDlpack`, `FromDlpack`, `Deleter` |
| a tensor from another library | `Offer` (external) |
| `Drop` | `DropBuffer` |

Buffers have one axis, and slices a positive step and a start that is not negative.
The element addresses are those of the code, the offset that `ops.rs` and `view.rs`
apply twice included (`OpsAddress`, `Addresses`); a read outside the block gives any
value and a write outside hits any memory.

### Layout

A behaviour allocates an array and makes views of views of it: `view` is the layout
the code computes (shape, byte strides, byte offset), `array` what `ArrayView` says
it should be, a function from indices to elements. Nothing is concurrent here; what
is hard is that every composition of views must be right.

| code | actions |
|---|---|
| `Layout::new_c`, `new_f` | `Init` |
| `permute`, `transpose` | `TakePermute` |
| `expand_dims`, `squeeze`, `squeeze_axis` | `TakeExpandDims`, `TakeSqueeze`, `TakeSqueezeAxis` |
| `slice_axis` with `SliceArg::resolve` | `TakeSlice` |
| `broadcast_to` with `broadcast_strides` | `TakeBroadcast` |
| `reshape` | `TakeReshape` |
| `Buffer::flip`, `Buffer::diagonal` | `TakeFlip`, `TakeDiagonal` |

Contiguity, `byte_offset`, `byte_range`, `overlaps_with`, `ravel_multi_index`,
`unravel_index` and the two iterators are operators, compared with their reference on
every view that is reached. `resolve` is translated with its sentinel `usize::MAX`
and its saturating subtraction. A call that returns an error is no action. Strides and
offsets are `isize` where views are made, and whole numbers here: an array whose bytes
exceed `usize::MAX` cannot be allocated (`contiguous_nbytes`, the guard of `Init`). An
offset may lie below the buffer (finding 3), and the code keeps it as a `usize` that
reads back as the same `isize`. `byte_range` and `overlaps_with` work on the `usize`
itself, so their results and comparisons wrap (`AsUsize`): of a view below its buffer
they say something else than of one inside it.

### ParallelScan

`phase` is the pass a call is in; `pos[c]` how far the task of chunk `c` is. The tasks
of a parallel pass are steps in any order, one element each (`LocalStep`,
`LocalTotal`, `AddStep`); a pass ends when its tasks have (`LocalJoin`, `AddJoin`);
`CarryStep` is the sequential pass between, and `Again` the next call. Of the values
nothing is known but that `f` is associative and the identity neutral: a value is
the run `lo..hi` of elements that it combines, and joining runs that are not
adjacent gives `NoRun`. Chunks have the code's size, the least power of two that is
at least `len / threads` and the least chunk. Not modelled: the checks before the
first pass, which return errors, and `dst.make_unique()`, which is in `BufferShare`.

### BulkOps

`call` is an operation with its arguments: a target `dst`, sources, a mask or list of
indices, and whether another Buffer holds the target's memory (`held`). Each argument
is an array: a block of memory, a shape, strides, a type, a flag. `mem` is that memory,
and a cell of it holds its own name until it is written: what is written is a term over
such names, so a value that was read too late, from the wrong place or twice shows.

| code | actions |
|---|---|
| the early returns of an operation, in their order | `Checks`, and `Refuse` with the first that fails |
| `dst.make_unique()?` | `StartInPlace`, `StartOnCopy`, `StartFails` |
| the tasks of `for_each`, or the iterations of a loop | `Write`, in any order unless `IsLoop` |
| `Ok(())` | `Finish` |

Operations: `fill_raw`, `fill`, `fill_sequential`, `fill_zero`, `fill_one`,
`copy_to_contiguous` (`copy_from`), `cast_copy`, `parallel_map`, `abs_copy`,
`neg_copy`, `sqrt_copy` (and `ln_copy`, `exp_copy`, which differ in the function),
`parallel_inplace` (and the scalar operations made of it), `where_select`, `clip`,
`parallel_scan` (its result; its passes are in `ParallelScan`), `gather`, `scatter`,
`flip_axis_copy`, `fill_nontemporal_f32_buf`, `parallel_zip`, `tril`, `triu`,
`fill_diagonal`, `add_scalar`, `mul_scalar`. `Kernel` is what an element becomes,
`Target` where it is written. Copies, casts and selections count the elements of the
target from its front whatever its strides (`FromBase`), as the code does.

`Trusted` lists what the code does not check and takes for granted: the element type of
the target of a map, the contiguity of a mask, a source for `gather`, and that no two
elements of a target written in place share a cell, as those of a broadcast view do
(tasks would write that cell one over another). Broadcast targets whose memory is shared
are copied first, and are among the calls. A call is `Gapless` unless it is a copy, cast
or selection whose target is neither row-major nor shared, and so neither counted right
from its front nor replaced by a copy that is. With `StridedTargets = FALSE` callers make
gapless calls only; with `TRUE` the others are made, too, and are wrong: `copy_strided`
shows it (finding 5). Views begin at the front of their memory; `BufferShare` shows what
happens where they do not.

### Reductions

`elems` are the elements in C order, `parts` the pieces rayon has made of them, each
with its range, how far it has come (`at`) and what it has combined (`acc`).

| code | actions |
|---|---|
| the call, with its checks and what it answers without looking | `Begin`; `Refuse` |
| rayon's splits and joins | `Halve`, `Join` (external) |
| the next element of a piece | `Advance` |
| `any`, `all` stopping early | `Stop` |
| `var_all_f64` going over the elements again | `SecondPass` |
| the answer, and the next call | `Finish`, `Return` |

A sum is kept as the sequence of what went into it, so an element that is lost, doubled
or out of place shows; float rounding, which does depend on the splits, is left out.
`min`, `max`, `argmin`, `argmax` compare numbers and a NaN the way each branch of the
code does, with `max_by_key` for Bool, sequential, taking the last maximum. `allclose` is an
`all` over pairs after two casts.

### ErrorFlow

`frames` are the collectors of the functions that are being run, `returning` and
`returned` what the innermost has returned; `raised` is the reference: every error since
the last report, with the contexts it has been given. An error value is built and
taken apart as in the code: `Context(l, e)`, `Multiple(errors)`, or a variant. `Errors`
are those with at most `MaxNesting` contexts and Multiples around one another, and what
the code computes by following `source` is a recursive function on them (`Root`,
`Chain`, `ContextMessages`, `Depth`, `Kind`).

| code | actions |
|---|---|
| a function with a `MultiError` of its own | `Enter` |
| `collect` of a check | `Check` |
| `bail!`, `ensure!`, the assert macros, an Option that is None | `Fail` |
| `into_result` | `Leave` |
| `extend_from` | `HandOver` |
| `context`, `with_context`, `op`, `axis` | `Wrap` |
| the caller collects, takes a `Multiple` apart, or uses `?` | `Gather`, `Unpack`, `Propagate` |
| a report, or the Python exception | `Report` |

`MohuError` has the variants in the order of their codes, and `Code`, `Kind`,
`IsTransient`, `IsUsageError`, `Severity`, the three reports and `PyErr` case by case.
Which variant raises what exception is the whole `match`; texts are left out. A
function that has gathered errors returns through them: one that leaves by `?` with
errors in its collector drops them, in the model as in Rust, and that is a misuse the
model does not make.

### Casting

`dtypes`, `folded` and `acc` are the loop of `common_type` over the types of several
arrays; `start` and `item` are one of their elements, as it was and as it is now, each
with its type; `safe` says that only safe conversions were used.

| code | actions |
|---|---|
| `common_type`, with `promote` | `Init`, `Fold` |
| `cast_slice` to the common type | `Align` |
| `cast_copy`, `Buffer::cast`, `cast_slice` with `can_cast` | `Cast` |
| `to_dlpack`, then `from_dlpack`; `buffer_format`, then `from_buffer_format`; `numpy_char`, then `parse`; `to_arrow`, then `from_arrow` | `Exchange` |

The promotion table and the safe table are the source's, row by row; the same-kind
table is given by its blocks. A number is kept exactly, as a sign and two bits
(2^hi, 2^hi + 2^lo, 2^hi - 2^lo), which is closed under rounding, truncation and
saturation and has the bounds of every type among its values. Conversions go through
`Round(_, "F64")` as the code's go through an `f64`, and complex numbers through their
norm. Not modelled: subnormal numbers and the sign of zero; complex numbers with two
parts that are not zero; `weak_promote`. A refused conversion is no action: it returns
before it writes.

`Exchange` gives an array the type its name is read as and reads its bytes again. Two
kinds of names are known to be wrong (`Misnamed`): after one of them the chain no longer
counts as safe, and the element is any number of its new type. Every other entry of the
name tables is covered by `SafeChainKeeps`: one that is wrong breaks it. No code of the
library joins the two halves of an exchange by letter or format; a Python caller does.

## 3. The runs

| run | instance | checks | shows |
|---|---|---|---|
| `pool_safety` | 2 threads, 2 pools, 3 handles, classes 1, 2, 4 | `TypeOK`, `PoolAccounting`, `PoolWithinCap`, `TlWithinLimits`, `TrimReachesTarget`, `ImplementsLedger` | the counts are what the caches hold, no limit is exceeded, and the pool is a ledger |
| `pool_progress` | 2 threads, 1 pool, 2 handles, callers allocate class lengths only | `ServedEnough`, `SomeCallReturns` | a handle returned is long enough; loops under the mutex end; calls go on returning |
| `alloc_counters` | 3 handles of 1 or 2 bytes, one of each strategy | `TypeOK`, `CountersSettle`, `LiveWithinHeld`, `PeakIsPeak`, `PeakNeverFalls` | no update is lost, nothing is claimed that is not held, no peak is lost |
| `share_memory` | 2 Buffers, 3 RawBuffers, 1 tensor, all slices, imports of own exports | `TypeOK`, `CountsHolders`, `ViewsInMemory` | the Arc count is the number of holders; every view lies in allocated memory |
| `share_values` | the same with 2 values, slices that start at 0, no imports of own exports | `CopyIsExact`, `WritersAlone`, `ImplementsValues` | a writer is alone, copies are exact, Buffers are independent values |
| `share_copy` | slices that start at 1 | `CopyIsExact` | **violated**: finding 1 |
| `share_import` | imports of own exports | `WritersAlone` | **violated**: finding 2 |
| `layout_views` | a 2x1x3 array in C and in F order, 5 slices, every chain of views; every bulk operation on 6 layouts, one of them broadcast, with shared memory of every kind, gapless; scans of 0, 1, 2, 5 and 7 elements in chunks of 2, repeated | `TypeOK`, `ViewIsExact`, `ViewInBuffer`, `RangeIsTight`, `ContiguousIsDense`, `OverlapIsSeen`, `WalkInOrder`, `CallIsExact`, `ScanTypeOK`, `ScanIsExact`, `CarryIsPrefix`, `ScanReturns` | every view of a view shows the right elements, inside the buffer; what a layout says of itself is true; a bulk operation writes what its arguments were when it began, and nothing else; a scan is the sequential one, and it comes |
| `layout_reversed` | slices backwards that start behind the axis | `ViewInBuffer` | **violated**: finding 3 |
| `copy_strided` | the same calls, and copies into targets with gaps that nobody shares | `CopyTakesAnyTarget` | **violated**: finding 5 |
| `casting` | 3 arrays of all 15 types; the numbers beside every bound and precision; reductions of up to 4 elements; up to 3 errors in 2 functions | `TypesOK`, `CommonHoldsAll`, `KindFollows`, `SafeChainKeeps`, `MinimumIsLeast`, `ReductionIsExact`, `EveryErrorArrives`, `KindIsWorst`, `VerdictsAgree` | the common type holds all operands in every order; safe chains keep real numbers an f64 holds; results fit their types; reductions do not depend on the splits; no error is lost, and its kind, reports and exception fit it and its contexts |
| `cast_complex` | one array, the numbers -1, 0, 1 | `SafeLosesNothing` | **violated**: finding 4 |

**Bounds, and why they are enough.**

* *Pool.* Three handles fill a bucket with two of a class and have one in flight;
  with two threads every pair of calls overlaps; with two pools handles migrate from
  one to the other through a thread cache. A pool of capacity 5 is filled to the
  brim by 4 + 1 and refuses the last of 4 + 2 and of 2 + 2 + 2; the thread cache
  (2 slots, 3 bytes) can refuse for either reason. `DirectSizes = {3}` is a length
  that is no class. `KeepBytes = {2}` makes `trim` evict and stop in the middle.
* *Counters.* Three overlapping calls are what a lost peak needs (one that raises
  it, one that read it before, one that lowers `LIVE_BYTES`). `MaxAllocs` bounds the
  allocations of a behaviour, because the two event counters only grow: the run
  stops there, and its cfg switches the deadlock check off for that reason only.
* *Sharing.* A copy-on-write needs a source, a copy and one RawBuffer that is
  dropped meanwhile: three RawBuffers for two Buffers. Two elements show a stride, a
  broadcast and a copy in progress; `share_copy` takes three, because its wrong
  address must be inside the block. `share_memory` relates counts and addresses
  only, so it needs one value. `MaxStride` bounds strides: slicing a Buffer of one
  element multiplies its stride without end, and each larger one is like the last.
* *Layouts.* Two axes of different length are what tells orders and strides apart; the
  one of one element between them is squeezed, broadcast, moved and made again. The
  slices have starts and stops before, inside and behind the axis, counted from either
  end, steps of 2 and -1, and make empty axes and axes of one element. Two of the
  shapes in `Targets` have another number of axes or other lengths than the array.
  `MaxRank` bounds what adds an axis, and with `MaxStride` keeps the chains of views
  finite: without them axes of one element are inserted, and slicing them multiplies
  strides, for ever.
* *Bulk operations.* The arguments have one or two axes, are contiguous, have gaps, have
  their axes exchanged or are empty; a source is in memory of its own or in the
  target's, with the same or another layout, and another Buffer may hold the target.
  Types differ in what the checks and the identity casts tell apart. `Lists` has an
  index twice, negative ones, ones behind either end, and none; with `Lanes = 2` an
  array of 0 to 6 elements is shorter than its prefix, has no whole register, several,
  and a tail.
* *Reductions.* Four elements are split into pieces of 1 + 3, 2 + 2 and further, with
  equal elements next to each other and apart, and with NaN in every place.
* *Errors.* Each of the 67 variants is raised alone, so every table is gone through;
  of the three in `Leaves`, one of each kind but Runtime, up to three are raised
  together, in two functions, with up to two contexts on each: what it takes for a
  collector in a collector with contexts at every level. `MaxNesting` bounds what is put
  around an error: `Leave` and `Wrap` stop at it (`Nests`), and the theorems hold for
  every value of it.
* *Scans.* 0, 1 and 2 elements are no chunk, a short one and a whole one; 5 and 7 are
  three and four chunks with a short last one. Chunks of one call interleave freely,
  and a call of one length follows a call of another.
* *Conversions.* Three operands are what it takes for the order of a fold to matter.
  The numbers are both sides of every limit of every type: the extreme values, one bit
  more than each precision, 2^63 and 2^64, a fraction, infinities and NaN. The chains
  have no bound: types and numbers are finite.
* *Symmetry* is used in runs without liveness only, over names that no cfg tells
  apart. The temporal properties of those runs are box formulas.

`DirectSizes`, `Starts`, `Slices`, `SelfImport` and `StridedTargets` say what callers do. Where a pass
depends on such a choice, the violation run beside it shows what happens without it:
`share_values` / `share_copy` and `share_import`, `layout_views` / `layout_reversed` and
`copy_strided` (`StridedTargets`).
`pool_progress` depends on `DirectSizes` being class lengths, and so does the theorem
`Served`: `release` files a handle of 3 bytes under class 4.

**Fairness.** `layout_views` assumes weak fairness of the scan's `Step`, the steps of a
call that has begun, and of nothing else (its views and bulk operations may stop):
rayon runs the tasks it was given, and the caller's thread goes on when they have ended. `pool_progress` assumes weak fairness of every thread's `Step`: the
operating system schedules a runnable thread. In both, callers may stop calling. The
mutex promises no order: `Step` of a thread waiting for it is enabled only now and
then, and weak fairness does not oblige the mutex to serve it, so what is claimed is
that some call returns, not that every one does. A thread that is inside `trim` or
`warm` is always enabled, so a loop under the mutex without a last iteration would keep
every other call from returning.

## 4. What is proved

TLAPS proves the following for every number of threads, pools and handles, every
table of classes and every limit; for every number of Buffers, RawBuffers and tensors,
every length, stride and slice; for arrays of every shape, rank and size of element and
chains of views of any length; for scans of every length, number of threads and least
chunk; for bulk operations on arrays of any layout, with lists of any length; for
reductions of any number of elements, however they are split; for the common type of any
number of arrays; for chains of conversions of any number; and for errors of any number,
nested to any depth, in any number of functions.

| theorem | states |
|---|---|
| `BufferPoolProofs!TypeCorrect` | `Spec => []TypeOK`: no byte count leaves `Nat`, that is, no `-=` wraps |
| `Accounting` | `Spec => []PoolAccounting` |
| `WithinCap` | `Spec => []PoolWithinCap` |
| `TlLimits` | `Spec => []TlWithinLimits` |
| `TrimTarget` | `Spec => TrimReachesTarget` |
| `Served` | `DirectSizes \subseteq Classes => (Spec => []ServedEnough)` |
| `LedgerImplemented` | `Spec => ImplementsLedger`: the pool implements `PoolLedger` |
| `BufferShareProofs!TypeCorrect` | `Spec => []TypeOK`: no Arc count falls below zero |
| `Counts` | `Spec => []CountsHolders` |
| `Memory` | `Spec => []ViewsInMemory` |
| `WriterStaysSole` | `Spec => []WriterSole`: the Arc count of a writer's RawBuffer stays 1 until it returns |
| `Alone` | `~SelfImport => (Spec => []WritersAlone)` |
| `CopyExact` | `~SelfImport /\ Starts \subseteq {0} => (Spec => []CopyIsExact)` |
| `ValuesImplemented` | the same conditions `=> (Spec => ImplementsValues)`: Buffers implement `ArrayValues` |
| `AllocStatsProofs!TypeCorrect` | `Spec => []TypeOK` |
| `Settled` | `Spec => []CountersSettle` |
| `WithinHeld` | `Spec => []LiveWithinHeld` |
| `Peak` | `Spec => []PeakIsPeak` |
| `PeakGrows` | `Spec => PeakNeverFalls` |
| `LayoutProofs!ContiguousAlwaysDense` | `Spec => []ContiguousIsDense` |
| `WalksInOrder` | `Spec => []WalkInOrder` |
| `TypeCorrect` | `Spec /\ [][TakeSlice => TakeInside]_vars => []TypeOK` |
| `ViewsExact` | the same condition `=> []ViewIsExact` |
| `ViewsInBuffer` | the same condition `=> []ViewInBuffer` |
| `RangeAlwaysTight` | the same condition `=> []RangeIsTight` |
| `ExactWhenInside` | the first three of them, if no slice in `Slices` can leave an axis (`AlwaysInside`) |
| `OverlapAlwaysSeen` | `Spec => []OverlapIsSeen`, if no slice in `Slices` can leave an axis |
| `ParallelScanProofs!TypeCorrect` | `ScanSpec => []ScanTypeOK` |
| `Exact` | `ScanSpec => []ScanIsExact` |
| `Carries` | `ScanSpec => []CarryIsPrefix` |
| `ElementProofs!CommonHolds` | `Spec => []CommonHoldsAll` |
| `CommonKind` | `Spec => []KindFollows` |
| `TypeCorrect` | `Spec => []TypeOK`: a conversion ends inside its type |
| `SafeChains` | `Spec => []SafeChainKeeps` |
| `MinimumLeast` | `Spec => []MinimumIsLeast` |
| `ReductionExact` | `ReductionSpec => []ReductionIsExact` |
| `Flow` | `ErrorSpec => []FlowInv`: the invariant of errors on their way up |
| `Arrivals` | `ErrorSpec => []EveryErrorArrives` |
| `Worsts` | `ErrorSpec => []KindIsWorst` |
| `Verdicts` | `ErrorSpec => []VerdictsAgree` |
| `ElementTypes` | `MCSpec => []TypesOK`: types of the machines that `casting` runs side by side |
| `BulkOpsProofs!BulkOpsExact` | `BulkSpec => [](Gapless(call) => CallIsExact)`: all calls that are trusted, but copies, casts and selections into gaps |

**Assumptions.** `SizeAssumption` (lengths are bounded and every length has a least
class that holds it: what `next_power_of_two` gives), `LimitAssumption` (limits are
natural numbers), `NameAssumption` (handles are finite in number, "nobody" is not a
thread), `FinitelyMany` (threads and pools are, too: the budget of all caches is a
number), `ShareAssumption` and `NoArrayAssumption` (lengths are bounded, names of
different things differ), `LayoutAssumption` (an element has a size; shapes are sequences
of lengths below `usize::MAX`; starts, stops and steps are integers or not given, and a
step is not 0, which `slice_axis` refuses), `StatsAssumption`, `ScanAssumption` (every length has a chunk size, again
`next_power_of_two`), `OperandsAssumption` (a common type is of at least one array), `NumbersAssumption`
(`Numbers` are numbers as `Scalar` writes them: a sign and two bits, each number in one
way), `ReductionAssumption` (elements are integers, or the one
value that stands for NaN, and an array has a length), `BulkAssumption` (shapes and strides
are sequences of natural numbers, one stride to a length; lists are lists of integers; a
register holds an element), `NestingAssumption` and `FlowAssumption` (errors are nested to
some depth; those raised together are variants, and there is a function to raise them).
TLC evaluates them in the runs.

**The pool.** No property of the pool is inductive alone: that `-=` stays in `Nat`
needs the counts to be right, and `PoolAccounting` needs every pooled handle to be
filed under a class that has a bucket. The invariant `IInv` is `Stored` (types, with
the byte counts only in `Int`; for each pool `PoolOK`: counts, capacity, keys; for
each thread `TlOK`), `CallTypes` and `CallsOK` (a thread in a call is on a pool, and
what it asked for is one of `Requests`). `TypeCorrect` follows from it: a count that
equals a sum of lengths is a natural number. Most actions move one handle or a set
of them, so the lemmas before the invariant say once what a relocation does to the
bytes and to the number of handles of each cache: untouched, gained one, lost one,
emptied. `ByteCountProofs` proves what they need of sums. `TrimTarget` takes from
`IInv` that the count is the truth, hence that a loop that ended has reached its
target. `Served` strengthens `ServedEnough` to `AllExact`: a cached handle has
exactly the length of the class it is filed under, every living one has the length
of a class, and a held one is as long as its taker asked.

`LedgerImplemented` maps a block to lent or retained by its place, and each step to one
of the ledger's or to a stutter: `DrainThreadLocal` lends a whole cache at once, a `Put`
retains or discards, a step that only takes a lock or begins a call does nothing. The
one thing that is not local is the ledger's budget: a `Retain` is checked against one
cache, while the budget is of all. `CachesKeepBudget` closes the gap: if every cache
keeps its limit, its bytes can be numbered inside the limit, so the bytes of all caches
inject into the cells of all limits (`BytesFit`). The step uses it in the state after.

**Sharing.** Who is kept alive by whom is a graph: Buffers and exported tensors hold
RawBuffers, an imported RawBuffer holds a tensor, and a tensor of this library holds a
RawBuffer again, so a chain of imports of exports has any length. `CountsHolders` is not
inductive without it. The invariant `Shape` is
`Types /\ CountsHolders /\ StagesOK /\ Graph`. `StagesOK` says that a method runs on a
Buffer that exists and that no other step changes it. `Graph` says that a tensor that
was never made holds nothing and a consumer's tensor shows the block it came from
(`TensorsOK`); that a RawBuffer owns the block of its name or has taken a tensor that
nobody else has taken (`SourcesOK`), so that a deleter runs once; and that chains of
imports have no cycle (`Acyclic`: there are ages by which each import is younger than
what it stands on). Without ages a ring of RawBuffers could keep itself alive with no
memory beneath. With them, `ShapeAlive` goes down a chain by the least age and finds a
block that is allocated at its bottom, for every RawBuffer with a count and every tensor
with a consumer. `ViewsInMemory` then needs that a block keeps its length while it is
allocated (`LengthKept`), that every view stays within what it was made from
(`SliceWithin`, with what `\div` returns for the number of elements a step leaves), and
that exporting and importing move a pointer and an offset against each other
(`PlaceKept`).

That the count of a writer stays 1 (`WriterSole`) is inductive with `Shape`: a Buffer
that runs a method cannot be cloned, and only a holder can make another. From a count
to memory it is one step further: two RawBuffers may stand on one block if one is an
import of the other's export, which is finding 2. `Alone` excludes just that
(`~SelfImport`), and proves that nobody but the writer sees its block. `CopyExact` and
`ValuesImplemented` also exclude offsets (`Starts \subseteq {0}`), which is finding 1;
`share_copy` and `share_import` are the counterexamples without the two hypotheses. The
copy of `make_unique` is exact because the elements copied so far are those the Buffer
shows, and no other Buffer's writer is on its block meanwhile. The refinement maps a
Buffer to the sequence of elements it shows, or to no array: a write changes one
element of one array, `make_unique`, exports and drops change none, and a view, a copy
or an import makes a new one.

**The counters.** `Counted`, `InHeap`, `InMmap` and `Tallied` are the handles in the
stages between an increment and its decrement; `IInv` says that `LIVE_BYTES` and the
two strategy counters are the bytes, and `allocs - frees` the number, of the handles
in them. A step moves one handle over one boundary. `PeakInv` says of the loop of
`record_alloc` that whatever a relaxed load may see is at most `PEAK_BYTES`, that a
thread about to exchange has seen less than it carries, and that none carries more
than the largest `LIVE_BYTES`.

**Layouts.** There are two invariants. `Laid` needs no hypothesis: the view is a layout,
with a stride for each axis, whatever its slices were given. Two things that a layout says
of itself follow from that alone: strides that are products of the lengths of the later,
or the earlier, axes weigh an index as a number in mixed radix, which is its position
(`ContiguousAlwaysDense`); and the iterators count in that radix, with the carry of
`NdIndexIter` and the strides of `StridedByteIter` (`WalksInOrder`).

Ranges and overlaps need the second invariant, `IInv` below, because they are numbers of
type `usize`. The offset of an index is a sum over the axes, and `byte_range` takes the
extreme of each summand, as whole numbers (`IsRange`). That the casts lose nothing of
them takes that every element is in the buffer (`ShownInBuffer`) and that the bytes of a
buffer are a `usize` (`Fits`, from the guard of `Init`). Hence the condition on slices in
`RangeAlwaysTight`, and in `OverlapAlwaysSeen`, where two slices with an element in common
have ranges that meet. Without it both are false: a slice backwards from behind an axis
that is flipped lies below the buffer (finding 3), its lowest offset becomes one near
`usize::MAX`, and `overlaps_with` denies that it overlaps itself (`layout.rs:577`).

`ViewIsExact` is not inductive: that the next view is exact needs that the elements of
this one are elements of the buffer and that no index is lost. `IInv` says it with
`Shows`: for some number `N` of elements with `capacity = ItemSize * N`, the offset of
each index is `ItemSize` times the element the array has there, a number below `N`. Each
operation is then a map from the indices of the new view to those of the old one that
leaves the offset: one lemma each (`PermuteShows`, `SliceShows`, `ReshapeShows` ...), of
which slices are the hardest, because `resolve` counts steps by a rounded division of
differences that it saturates, from bounds that it clamps. It is right for a slice that
goes forwards, and for one that goes backwards from a start to a stop on the axis;
`TakeInside` and, for all lengths at once, `AlwaysInside` say so, and the slices of
`layout_views` satisfy them. The other slices are finding 3, which `layout_reversed`
shows, and those backwards without a stop, which select nothing.

The sums, the products and the iterators are folds and recursive functions. TLA+ defines
both as a solution of an equation, chosen by `CHOOSE`. That there is one is shown by
induction over the numbers, or over the subsets of a finite set, with the property as a
set of numbers or of subsets: the library's induction theorems take the property as an
operator, which the provers cannot instantiate.

**The scan.** That the result is exact at the end says nothing of the steps before.
`IInv` says for each pass what the values are: in the first, a chunk's accumulator and
its finished elements are the runs from the chunk's own first element (`LocalOK`); in
the second, the totals before `next` are prefixes and those after it are still the
chunks' own (`CarryOK`); in the third, the elements done are prefixes and the others
runs of their chunk (`AddOK`). The arithmetic it rests on is that chunks of size `s`
partition `1..len`: they are inside, apart, meet end to end, and leave no element out
(`PartInside`, `PartsApart`, `PartsMeet`, `PartOfElement`, from what `\div` returns).

**The common type.** The tables are finite, and the prover goes through their entries:
the safe casts are transitive (`SafeTransitive`), both operands may be cast to a
promotion (`PromotionHolds`), and the kind of a promotion follows from its operands
(`PromotionKind`). `CommonHoldsAll` is then inductive; `KindFollows` is not, because
whether integers lead to a float depends on their signs and on U64: `ClassOf` adds that
an accumulator that is an integer is signed if an operand is, and is U64 if one is.

**Conversions.** An element goes on from type to type, so what is needed of each step is
that it ends in a number its type holds, whatever it began with: rounding ends at a
number it would not change again (`RoundEnds`), truncation and saturation end at a whole
number within the bounds (`IntegerEnds`). Numbers have two bits at most, and rounding may
drop the second or carry into the first; that there are no others is `NumbersAssumption`.
`TypeCorrect` follows. What a safe conversion keeps is a matter of widths: every row of
the safe table leads to a type with at least as many bits and as large an exponent, or
to the F64 that all numbers in question fit (`SafeWidths`), so what the first type holds the second does (`SafeHolds`), and rounding
or saturating there changes nothing (`SafeKeeps`). The way through an `f64` is where it
could go wrong, which is the hypothesis of the property. An exchange under a name that
is read as the type it was written for changes nothing (`NamesReturn`). `ValueInv` says
so of the chain as far as it has come.

**Reductions.** Which pieces there are, and how far each has come, is up to rayon. What
is invariant is that they lie side by side and make up all the elements (`Tiled`), and
that what each has combined is what one pass over the elements it has seen determines
(`Right`). An element by itself is `Right` (`RightOne`), a piece not begun is
(`RightIdentity`), and so is what two adjacent runs combine to (`RightJoin`: for sums
because concatenation keeps the order, for extrema because of two that are alike the
left one is kept). `any` and `all` break it on purpose: a piece that stops early counts
elements as seen that it has not looked at. Then some piece holds the answer, and no
later step loses it (`Pieces`, last conjunct; `CombineDecides`).

**Bulk operations.** `CallIsExact` speaks of the end of a call. The invariant `BulkInv`
says what holds while its tasks run: when those in `S` have run, every element of the
target is `Sofar`, which is what its task computes of the memory *as it was when the call
began* if the task is in `S`, and what the element was if not (`Written`); and no cell has
changed that is not an element of the target (`RestKept`). A step keeps it for three
reasons, one lemma each. A task computes from memory as it was (`KernelSame`), because
the block that is written is none that is read: if a source lies in the target's block,
the Arc count makes the target a copy (`NotRead`). Only operations that replace an element
by a function of itself read the target, and they read the element that is still to be
written. What a task writes is its own element (`TargetOf`): the elements of a target have
distinct places (`TargetIs`), and the operations that count from the front write targets
whose elements lie there, which is where the call must be `Gapless`. And `scatter`,
whose tasks do meet, runs in order: of the tasks that hit an element the last one is
`Max(Hits)` (`TaskRuns`). At the end all tasks have run, and `Sofar` is what is `Expected`
(`AllWritten`). There `flip` needs that every index is that of an element, so that there
is one to mirror (`IndexExists`, `FlipMirrors`), and `fill_nontemporal_f32_buf` that its
three loops leave nothing out (`NontemporalAll`). That
elements without gaps lie at their numbers (`RowPos`) is long division in the mixed radix
of the shape. That a call which is refused returns an error needs of all checks of all
operations that what they report is one (`ChecksAre`). `BulkOpsProofs` extends
`LayoutProofs` for its lemmas on numbers, and thereby carries the constants of `Layout`,
too; its theorem is not about them.

**Errors.** An error is a tree, and what the code computes of it is recursive. That a
recursive function on `Errors` has the equation that defines it is shown level by level,
from errors with nothing around them (`RecursionExists`); and a set of errors that has
the variants, and an error whenever it has its parts, is all of `Errors`
(`ErrorInduction`). So `Kind`, which follows the chain of contexts to its root and then
the errors of a `Multiple`, gets an equation that takes off one context at a time
(`KindIs`). The property is a set in all of this, for the reason given under layouts.

`EveryErrorArrives` needs the types of what is in flight, and with them is inductive:
that is `FlowInv`. Two things carry it. Leaves of joined sequences are joined
(`LeafsOfConcat`), so a collector that is merged into the one beneath it, or a `Multiple`
that is taken apart, leaves the sequence as it was; this is why order is kept, for an
error is always taken from the end of what is in flight. And what a function returns is
the last of what was raised (`Split`), so a context goes on those leaves and on no others
(`Wrapped`).

That kinds are the worst inside (`KindIsMax`) and that verdicts agree (`VerdictsOf`) are
facts of every error, on its way or not. The contexts that the JSON report names are those
that `Leafs` has put on every leaf, by induction on the contexts around a root
(`ContextsReported`); and the exception is the root's if there are none and a
`RuntimeError` if there are (`PyErrOf`). Kinds are given by ranges of code numbers and
verdicts by names. The bridge is the number of a code, a thousand for its domain plus its
place there (`NumberIs`), for which it takes that no name is in two domains or twice in
one (`DomainsApart`, `NamesApart`).

**Only model-checked.** Liveness, which the prover cannot express with fairness:
`SomeCallReturns` of `pool_progress`, and `ScanReturns`.

## 5. Findings

1. `ops.rs:182` — `copy_to_contiguous` adds the layout's offset to a pointer that has
   it already, so a strided slice that does not start at 0 is copied from the wrong
   elements by `make_unique` and `to_contiguous`. Run `share_copy`.
2. `buffer.rs:773` — importing one's own export gives a second RawBuffer on one
   block; both have an Arc count of 1 and both may write. Run `share_import`.
3. `layout.rs:70` — `resolve` clamps a start to `0..=dim` for negative steps, too: a
   slice such as `[9:0:-1]` begins behind the axis, and for some indices behind the
   buffer. Run `layout_reversed`.
4. `cast.rs:128` — every conversion goes through an `f64`, and a complex number gives it
   its norm: the conversion from C64 to C128, allowed as safe, makes `0+1i` and `-1+0i`
   both `1+0i`; conversions to real types take the norm, too, not the real part
   (`cast.rs:10`). `promote.rs:30` promises that safe casts "provably cannot lose
   information". Run `cast_complex`; `SafeChainKeeps` says what is left of the promise.
5. `ops.rs:186` — `copy_to_contiguous` writes element `i` of a target at `i` times the
   size of an element, whatever its strides, so a target with gaps that is not shared is
   written over its gaps; `ops.rs:144` promises "any combination of contiguous and
   non-contiguous source/dst", and `Buffer::copy_from` (`buffer.rs:1275`) hands any Buffer
   to it. `cast_typed` and `where_select` do the same. Run `copy_strided`.

Seen while reading, without a run: a handle of 3 bytes, allocated by a caller and
released to a pool, is returned to one who asks for 4 (`pool.rs:231` files it under the
class above its length, `pool.rs:202` promises "at least `nbytes` bytes"); a broadcast
view becomes writeable once its source is gone (`buffer.rs:797`, and `buffer.rs:37` on
the flag), and then the tasks of a bulk operation write one cell for several elements; the safe casts of I64 and U64 to F64 round (2^63 - 1 becomes 2^63), and
`minimum_scalar_type` gives 2^64 the type U64 (`promote.rs:235`); the common type of
I8, U8, BF16 depends on their order (F32 or BF16); `[::-1]` selects nothing (`layout.rs:106` subtracts
the sentinel `usize::MAX`, saturating); `AllocStats::snapshot` (`alloc.rs:73`) is six
loads, not the atomic snapshot its comment promises; `byte_range` of an empty layout is
`(offset, offset)`, not `(0, 0)` as its comment says (`layout.rs:541`).

Of layouts: `overlaps_with`, "a conservative check" (`layout.rs:566`), denies that a view
below its buffer (finding 3) overlaps itself, because it compares `usize`
(`layout.rs:577`).

Of bulk operations: the offset that finding 1 adds twice is added twice by
`flip_axis_copy` (`ops.rs:976`) and `sum_axis` (`buffer.rs:1466`), too. `where_select` checks neither the type and
contiguity of its target nor the contiguity of its mask, which its doc demands
(`ops.rs:513`); `parallel_map` does not check the type of its target. `gather` from an
empty source panics. The doc of `scatter` warns of a data race (`ops.rs:701`), but its
loop is sequential. `abs` of an I64 goes
through an `f64` (`ops.rs:813`). `diag` reads its
argument as if it were contiguous (`buffer.rs:1113`), and `eye` subtracts below zero if
`-k > n` (`buffer.rs:1076`).

Of reductions: the result of `reduce` depends on the splits if `init` is not neutral
(`ops.rs:369`); with a NaN among the elements `min`, `max`, `argmin` and `argmax`
depend on them, too (`ops.rs:1089`); `argmax_flat` takes the last of equal Bool
elements and the first of any others (`ops.rs:1266`).

Of types: `parse` makes its argument small before it looks (`dtype.rs:495`), so that
"B", "H", "I" and "L" give the signed types, where its comment excepts them
(`dtype.rs:492`), and "e", "f" and "d" give an error; a BF16 goes out with the format of
an F16 and comes back as one (`compat.rs:166`).

Of errors: a `Multiple` has the code, and in the JSON report the kind, of an internal
error whatever it holds (`error.rs:621`), while `kind()` gives the worst kind inside;
`is_transient` and `is_usage_error` do not look under a context; an index error under a
context is a `RuntimeError` in Python (`python.rs:113`); the full report prints the
contexts innermost first (`reporter.rs:184`), where its comment says "outermost →
innermost" (`reporter.rs:175`); `into_result` returns a single error as it is,
where its doc speaks of `Multiple` (`multi.rs:97`); `kind.rs:37` counts a DLPack
version mismatch as System, the table as Usage.

## 6. The plan

Done: the pool, the counters, sharing, layouts, bulk operations, reductions, the parallel
scan, conversions, errors; proofs of the pool, the counters, sharing, layouts, the
scan, bulk operations, the common type, conversions, reductions and errors. Next: `Layout` with
layouts from foreign strides (`new_custom`, `validate_strides`).

No module declares a recursive operator; sums are set sums as in `ByteCount`, and
recursion is in functions.

## 7. What is not modelled

* The memory model beyond stale relaxed loads in `AllocStats`. In particular
  `Arc::strong_count` is a relaxed load, and `BufferShare` takes it as sequentially
  consistent.
* Undefined behaviour after an access outside a block: a read gives any value and a
  write changes any memory that is modelled; nothing else follows.
* Alignment, `mlock`, `madvise`, poisoning: system calls on the contents of memory.
* Arithmetic on data: what element functions, sums and generators compute, and how
  sums round. Loops that fill or read a fresh array and nothing else: `arange`,
  `linspace`, `eye`, `diag`, `sum_axis`, equality, printing.
* `mohu-dtype` other than promotion, conversion and the names of `Exchange`: constant
  tables, dispatch macros, and `parse` of names of more than one letter.
* The texts, fields and colours of errors, and `test_utils`.
* `mohu-random`, whose generators share nothing and compute modulo 2^64 and 2^128; the
  crates that are declarations, and the small `approx` helper of `mohu-testing`.
