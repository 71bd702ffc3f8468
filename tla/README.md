# TLA+ models of the allocators of cmsc405_hw3

The repository holds a family of C memory allocators built on `sbrk()`, with
small programs that exercise them. This directory models them in TLA+, checks
the models with TLC on small instances, and proves the central safety results
with TLAPS for every instance. Paths below are relative to the repository;
`malloc.c` without a directory is `src/starter/malloc.c`.

## 1. Inventory

| Component | Source | State | Operations |
|---|---|---|---|
| Global-heap allocator | `src/starter/malloc.c` | `global_base`, `heap_start`, `alloc_lock`; one header per block (`size`, `next`, `free`, `magic`) stored in the heap; the program break | `my_malloc`, `my_calloc`, `my_free`, `my_realloc` |
| Its diagnostics | `src/starter/malloc.c` 337-377 | none of their own | `allocator_heap_start`, `allocator_heap_end`, `allocator_leaked_bytes`, `allocator_block_count` |
| Its driver | `src/starter/wrapper.c` | two arrays of 12 pointers | four phases (malloc, calloc, growing realloc, free), then a report |
| Per-thread first fit | `src/starter/malloc_firstfit_sll.c` | thread-local `thread_base`, `thread_heap_start`; `sbrk_lock`; headers with `next` | `ff_malloc`, `ff_calloc`, `ff_free`, `ff_realloc`, `leaked_bytes`, `heap_end` |
| Per-thread best fit | `src/starter/malloc_bestfit_dll.c` | the same, with `prev` | `bf_*` |
| Per-thread worst fit | `src/starter/malloc_worstfit_dll.c` | the same, with `prev` | `wf_*` |
| Workload and threads | the same three files | arrays `m`, `c` per thread | `run_workload`, `thread_worker`, `main` |
| Tutorial allocator | `src/malloc.c` | `global_base`, headers with `magic` | `malloc`, `calloc`, `free`, `realloc`, `nofree_malloc` |
| Its copy in `starter/` | `src/starter/tutorial_malloc.c` | the same | the same |
| Launcher | `src/wrapper.c` | none | `execve()` with `LD_PRELOAD` |
| Scripts, documents | `run_allocator.sh`, `run_all_allocators.sh`, `GAMEPLAN.md`, PDFs | none | compile, run, explain |

### How the parts interact

* The allocators get memory from one place, the program break, with two calls
  of `sbrk()`: one reads it, one moves it. libc's own allocator moves the same
  break whenever `printf()` or `pthread_create()` needs memory, and knows
  neither mutex.
* In the global heap all threads share one list and one mutex. `my_malloc` and
  `my_free` hold it from end to end. `my_calloc` is a client of `my_malloc`.
  `my_realloc` calls both, and between them works **without** the lock: it
  reads `size`, calls `split_block` when the block is large enough
  (malloc.c:318-323), and copies the payload.
* In the per-thread allocators the lists are thread-local and the threads meet
  only in `request_space`, at `sbrk_lock` and the break. The header of the new
  block is written *after* `sbrk_lock` is released.
* The tutorial allocator is preloaded in the place of libc's own, so nobody else
  moves its break; but every thread of the program it is preloaded into calls it,
  and it has no lock.
* The drivers use the pointers they get, and only those.

### What is hard, and what makes each component correct

* **Global heap.** Interleavings of the unlocked split with a walk, a claim,
  an append or a merge of another thread; a stale `block->next` published by
  that split; walks that must end although the list changes under them;
  `sbrk()` refusing at any time, half way through `my_realloc` too; libc in the
  break; sums that wrap in `size_t` and change sign in `intptr_t`; the one
  forward pass of `coalesce_all` against chains of remainders that nobody
  coalesced. Correct means: blocks are disjoint and inside what `sbrk()` gave;
  a block in use has exactly one holder; what a call returns has room for the
  request; the assertion of `my_free` never fails; the list visits every block;
  a free leaves nothing to merge; the lock is always given back.
* **Per-thread heaps.** Two threads and libc growing one break in turn, so that
  neighbours in a list need not be neighbours in memory; the header written
  outside the lock; `prev` links that nothing reads and that every split, merge
  and append must repair; the choice among several candidates; the width of the
  mask in `ALIGN8`. Correct means: every byte has one owner; an allocation keeps
  its bytes for its whole life; the policy is the one the file is named after;
  pointers are aligned.
* **Workload and driver.** Each of their allocations may fail, and one assignment overwrites
  the only pointer to a block. Correct means: every pointer is freed once, the
  reports show a leak only when such a pointer was lost, the driver's heap
  collapses to one block, `main()` returns.
* **Tutorial allocator.** No lock at all: two threads that read the same break,
  append to the same last block, or find the same free one; a block that is
  linked before its header is filled; an assertion on the break that comes before
  the test for failure; two fields, `free` and `magic`, that say the same thing
  and are written one after the other; `calloc` without an overflow test and with
  a `memset()` before the test for `NULL`. Correct means, for one thread, what
  an allocator promises and that no assertion fails; for several, that memory is
  disjoint, the walk ends, and a block has two owners only by reuse.

PROJECT.json lists each of these hazards at its line with the properties that
would catch it.

## 2. Modules

| Module | Models |
|---|---|
| `SizeT` | machine arithmetic with the width as a parameter: `size_t` that wraps, the cast to `intptr_t`, the overflow test of the calloc entry points |
| `SizeTProofs` | the theorem about that test, and the two forms of induction the other proofs use |
| `MyMalloc` | `src/starter/malloc.c`, step by step, any number of threads |
| `MyMallocProps` | its properties and its refinement mapping |
| `MyMallocDiag` | its diagnostics |
| `MyMallocInv` | its inductive invariant `SafeInv` |
| `MyMallocHistory` | `MyMalloc` with two history variables: what holds until the unlocked split meets a critical section, and until it meets the one that can break the list |
| `MyMallocProofs` | the theorems about `MyMalloc` that rest on `SafeInv` alone |
| `MyMallocHistoryProofs` | its other theorems: what no race can break, what holds until the race, that it implements `Allocator`, and what its diagnostics compute |
| `Allocator` | the abstract specification: regions that belong to the client, to one call, or to nobody |
| `Driver` | `main()` of `src/starter/wrapper.c` on top of `MyMalloc` |
| `DriverInv` | its inductive invariant `DriverInv` |
| `DriverProofs` | the theorems about `Driver` |
| `ThreadHeap` | the three per-thread allocators; the variable `policy`, chosen in `Init`, says which file it is |
| `ThreadHeapProps` | their properties, `leaked_bytes` and `heap_end` |
| `ThreadHeapInv` | their inductive invariant `SafeHeaps` |
| `ThreadHeapLists` | lemmas on one list: what a search finds, what splitting, merging and appending keep |
| `ThreadHeapProofs` | the theorems about `ThreadHeap` |
| `Workload` | `run_workload`, `thread_worker` and `main` on top of `ThreadHeap` |
| `WorkloadInv` | its inductive invariant `WInv` |
| `WorkloadProofs` | the theorems about `Workload` |
| `Tutorial` | `src/malloc.c` and `src/starter/tutorial_malloc.c`, one access to shared memory at a time |
| `TutorialProps` | their properties and the refinement mapping |
| `TutorialInv` | their inductive invariants: `SafeInv` for any callers, `OneInv` for one |
| `TutorialProofs` | the theorems about `Tutorial`, with any callers and with one, the refinement of `Allocator` among them |
| `MCMyMalloc`, `MCMyMallocHistory`, `MCThreadHeap`, `MCWorkload`, `MCTutorial`, `MCDriver` | values of the constants for TLC |

An operator whose name ends in `_` and a remark (`Fits_OneShort`,
`Acquire_AtOnce`) is a plausible wrong version of the operator it stands
before. No specification uses it; it is there to show that each property fails
when the code is changed in that way.

### MyMalloc and the code

An address is a number, a header is the value of the functions `size`, `next`
and `free` at its address, `NULL` is 0. `blocks` is an auxiliary set, the
addresses that are headers of blocks: `Extend` and `SplitLink` add to it,
`Merge` removes from it. It is *not* the list; that the list visits exactly
these addresses is a property (`ListThreadsBlocks`), and one that can fail.
`owned` are the pointers the client may use; a client gives its pointer up when
it calls `my_free` or `my_realloc`, and gets it back when `my_realloc` fails.

Each thread has a program counter and a frame (`op`, `sz`, `ptr`, `cur`,
`last`, `block`). The actions, in the order a call meets them:

| Code | Actions |
|---|---|
| the call, its tests for `NULL` and 0, the overflow test, the choice of `my_realloc` | `CallMalloc`, `CallCalloc`, `CallFree`, `CallRealloc` |
| `pthread_mutex_lock` in `my_malloc` | `LockMalloc` |
| `find_free_block`, one iteration each, and the claim | `FindNext`, `FindFit` |
| `split_block` | `SplitSkip`, or `SplitHeader` then `SplitLink` |
| `request_space` | `ReadBreak`, then `Extend` or `ExtendRefused` |
| unlock and return of `my_malloc` | `UnlockMalloc` |
| the `memcpy` of `my_realloc` | `Copy` |
| `my_free`: lock, assertion, mark | `LockFree` |
| `coalesce_all`, one iteration each | `Merge`, `Advance` |
| unlock and return of `my_free` | `UnlockFree` |
| libc moves the break | `LibcSbrk` |

`split_block` is two actions because the new header publishes a `next` that was
read before the link to it is written, and between the two another thread may
append or merge. The writes inside one action cannot be told apart by another
thread: the first fills a header no list leads to yet; in the second the block
is in use, and every reader of another thread looks at `free` before it looks at
`size`.

Left out: the `magic` field, which this file writes and never reads; the bytes
of the payloads; the weak memory order of the unlocked reads and writes (the
model is sequentially consistent).

### ThreadHeap and the code

A thread-local list cannot be seen by another thread, so one call is one step
unless it reaches `request_space`, which is `Lock`, `ReadBreak`, `Extend` or
`ExtendRefused`, `Unlock`, `Link`. The list is a sequence of records; `prev` is
a field of its own, because its repair is what could go wrong. `find_free_block`,
`split_block` and `coalesce_free_blocks` are operators on one list. `call`
holds the arguments of the call that is in `request_space`; when it was made by
`ff_realloc`, `call.ptr` is the pointer to free on success.

### Workload and the code

A step of a thread is a step of `ThreadHeap` together with what the driver does
with the result: `StoreResult` stores it in `m[i]` or `c[i]` when the call
returns. The loop bounds 1000, 10 and 100 and the sizes are constants.
`dropped` is auxiliary and remembers the pointers `m[i] = ff_realloc(m[i], ..)`
overwrote with `NULL`. The three files start from different sizes and grow them
at different rates; `MallocSize` and `ReallocSize` depend on the policy and the
thread's seed for that reason. `Report` of the main thread and the first `Create`
may move the break, as libc does behind the first `printf()` or the first
`pthread_create()` (`LibcGrows`); after that libc has room for the rest.

### Driver and the code

`Driver` is built on `MyMalloc` the same way: `Malloc`, `Calloc`, `Realloc`,
`FreeMalloc` and `FreeCalloc` are the calls in the loop bodies of phases 1 to 4,
`InCall` is every step inside a call, and `Continue` stores its result and moves
the loop on. `PrintStart` and `PrintRest` are the report of lines 108-114. It is
two actions because the first `printf()` makes libc allocate its buffer, from
the same break that `allocator_heap_end()` reads afterwards. `Passed` names the
slots phase 4 has freed.

### Tutorial and the code

The two files are one module; `variant` says which ("preloaded" is
`src/malloc.c`, "starter" the copy), and it decides where they differ: the order
of the assertion and the failure test in `request_space` (`Refuse`), the tests of
`calloc` (`CallocAllowed`), the assertion on `magic` in `free` (`LooksInUse`) and
whether there is a `nofree_malloc`. `callers` says whether `Main` alone calls or
every thread does.

Nothing serialises the threads, so an action is one read or write of shared
memory together with what its thread then does on its own: `Test` reads `free`
and `size` of a block, `Step` reads `next`, `Claim` and `Reuse` write `free` and
`magic`, `ReadBreak` and `Extend` or `Refuse` are the two `sbrk()` calls, `Link`
writes `last->next`, `Header` fills the header, `Base` sets `global_base`. `free`
is `Assertions`, `MarkFree` and `StampFree`. `Header` is one action for four
writes: until the last pointer write a block reached through `Link` shows
another thread what memory looks like that `sbrk()` has just handed out, all
zeros, which to `find_free_block` is a block in use with nothing behind it. `magic` is
modelled by name, for `free` asserts on it.

A failed assertion ends the process: no step follows (`Running`). Pointers may
be given back by another thread than the one that got them. The specification
states no fairness: no line of the code promises progress to one thread while
others append, and that the walk ends is the action property `WalksAscend`.

## 3. Runs

Sizes are scaled down: a header is 1 (2 where alignment matters) and not 24 or
32 bytes, `ALIGN` is 2 and not 8, a machine word has 4 to 7 bits. The bounds are
`BrkLimit`, past which `sbrk()` always refuses (it may refuse before that, too),
`LibcSteps`, the sizes by which libc moves the break, and `MaxRefusals`, how
often `sbrk()` fails in a run of the workload. `Requests` always holds 0 where
the code tests for it, a size that is never split off and one that leaves a
remainder worth splitting.

| Run | Instance | Shows |
|---|---|---|
| `threads` | `MyMalloc`, 2 threads, every entry point, callocs that return early, fit and overflow, libc, fair | disjoint blocks, no byte lost, one holder, the assertion, room for each request, `SafeInv`, no header over a payload, the refinement of `Allocator`, the lock is given back; until an append meets an unlocked split of the last block, a complete list, a heap that collapses and exact diagnostics; until an unlocked split meets any critical section, first fit and frees that leave nothing to merge |
| `race` | 2 threads | violation: the list loses blocks (finding) |
| `huge` | 1 thread, a request near `SIZE_MAX` | violation: the sum wraps, the break moves back (finding) |
| `driver` | `main()` of `starter/wrapper.c`, 4 iterations, any call refused | pointers are freed once, a leak is reported exactly when a failed `my_realloc` dropped a pointer, the heap collapses, `main()` returns |
| `heaps` | `ThreadHeap`, 2 threads, all three per-thread files, callocs, libc | the break: every byte has one owner; allocations keep their bytes; the assertion of `ff_free`; exact double links, policy, alignment, merging; what `heap_end` spans; `SafeHeaps` |
| `th_wide` | 1 thread, a request wider than `unsigned int` | violation: the block is smaller than asked (finding) |
| `th_span` | 2 threads, first-fit file | violation: the span up to `heap_end` holds another thread's block (finding) |
| `workload` | `main()` and 2 workers, all three files, one refusal anywhere | pointers are freed once, only a failed growing `realloc` leaks, `main()` returns |
| `workload_leak` | the same, first-fit file | violation: the report shows a leak (finding) |
| `driver_leak` | the driver | violation: the report shows a leak (finding) |
| `tutorial` | both tutorial files, 1 caller and 2 callers | for one: complete list, marks that match the owners, one assertion that can fail, the refinement of `Allocator`; for any: disjoint blocks, ascending walks, sharing only after reuse, `SafeInv` |
| `tutorial_refused` | `src/malloc.c`, 1 caller | violation: a refused request fails the assertion on the break (finding) |

Why these bounds are enough for the cases that matter:

* `threads`: 8 addresses are four blocks of the smallest size: each thread can
  hold blocks on both sides of the other's, a remainder can be claimed or absorbed
  while the other thread is between `SplitHeader` and `SplitLink`, both threads
  can be there at once, and a free meets runs of three neighbours and a gap that
  libc made between two blocks. A behaviour in which the second thread never calls
  is one of a single thread, so that what holds of one thread is checked here too.
  Two threads are one that splits without the lock and one that holds it. What a
  third could add, two unlocked splits under one walk, is covered by the proofs,
  which hold for any set of threads. A machine word of four bits is enough, since
  no request comes near it but the calloc that overflows.
* `driver`: the sizes are those of the code divided by 8, with a header of 3 and
  a threshold of 1; four iterations make the grown blocks reuse what the first
  ones gave up. Every one of the twelve calls may fail, in any combination.
* `heaps`: 16 bytes are four smallest blocks: two of each thread in any order with
  libc between them, or up to four of one thread, enough for three free ones
  to merge and for free candidates of two sizes with a used block between
  them, which is what tells the policies apart.
* `workload`: two slots are the first (grown from an allocation) and the second
  (a `NULL` that makes `ff_realloc` an `ff_malloc`); one refusal can hit each of
  the calls.
* `tutorial`: one caller has 8 addresses, four smallest blocks (`BrkLimit`). Two
  callers have 4 addresses, two smallest blocks or one larger one (`ManyLimit`):
  enough for two threads to append to the same block, to start the list at once,
  to find the same free block, and to read the same break. Every interleaving of
  two unlocked threads is explored there. What more room and more threads could
  add to `SafeInv` is covered by the proofs.

Symmetry of the threads is used in `heaps` only, which checks invariants and
action properties and whose configuration treats the threads alike. Deadlock is
checked wherever the system goes on for ever: not in `workload`,
`workload_leak`, `driver` and `driver_leak`, which are programs that end, nor in
the runs of `Tutorial`, where a failed assertion ends the process.

### Fairness

`HFairSpec` of `MyMallocHistory` assumes weak fairness for the steps of each
thread inside a call: the scheduler runs every thread that can run. It assumes
nothing about calls, which a client need not make. A pthread mutex is not fair,
so nothing is assumed about who gets it, and the property is that a holder gives
it back, not that a waiter gets it. `FairWSpec` assumes the same for the threads
of the workload, and `FairDSpec` for the only thread of the driver; those
programs are finite, so that every wait ends. `Tutorial` assumes none.

### Findings

* `race` (malloc.c:321): `my_realloc` splits without `alloc_lock`, against the
  file's own comments (lines 10-11 and 57). When it splits the last block while
  another call is about to append behind that block, both write its `next`
  (lines 161 and 119), and whichever writes second drops the other's block from
  the list: the remainder, or the one that was appended. That is the only way:
  `ListKept` says, and `ListKeptUntilCollision` proves, that every other meeting of
  the two leaves the list whole. By the other theorems the damage ends there: such
  a block is never handed out twice, it can only be lost for reuse and for the
  diagnostics.
* `huge` (malloc.c:100): `META_SIZE + size` wraps for a size near `SIZE_MAX`.
* `th_wide` (malloc_firstfit_sll.c:41): `~7U` is an `unsigned int` and clears
  the upper half of a 64-bit size.
* `workload_leak` (malloc_firstfit_sll.c:330): `m[i] = ff_realloc(m[i], ..)`
  overwrites the only pointer when `sbrk()` refuses, against line 332.
* `driver_leak` (wrapper.c:84): the same in the driver of the global heap, against
  its lines 90-91. What is true instead, `LeakReportedIffDropped`, is checked in
  `driver` and proved.
* `th_span` (malloc_firstfit_sll.c:302): "(heap_end - thread_heap_start) gives total
  heap bytes consumed by this thread" fails once two threads grow in turn, or
  libc in between. What the difference is instead, `SpanIsConsumptionAndGaps`, is
  checked in `heaps` and proved.
* `tutorial_refused` (src/malloc.c:48): `assert((void *)block == request)` comes
  before the test for -1, so a refused `sbrk()` ends the process and the
  `return NULL; // sbrk failed.` of line 50 is dead. The copy in `starter/` has
  the two in the other order.

Observations of which no line of the repository promises otherwise:

* In `src/malloc.c`, which `src/wrapper.c` preloads into any program, two threads
  that find the same free block both get it; `SharedOnlyAfterReuse` says that
  this is the only way. `free` sets `free` before `magic`, so that a block can be
  reused in between and have its `magic` overwritten, and a later `free` of its
  new owner then fails an assertion.
* `calloc` of `src/malloc.c:99` multiplies without an overflow test; `GrantsCover`
  excepts it by name.
* `realloc(p, 0)` of the tutorial allocators returns `p` and frees nothing.
One more line is at odds with the code, and has no run of its own:
`allocator_heap_end` returns `sbrk(0)`, which libc moves too. It is therefore not
always "the end of the managed heap region" (malloc.c:344), nor does its distance
from the start give what the heap requested (wrapper.c:103-104): in the driver
the first `printf()` has moved the break before it is read. `HeapCollapsed` states what
is printed, libc's share (`Cardinality(libc)`) included.

## 4. Proofs

`MyMallocProofs` proves, for every set of threads and reallocators, every
header size, split threshold, word width, heap limit and every set of requests
that satisfies `FittingRequests`:

| Theorem | States |
|---|---|
| `Safe` | `Spec => []SafeInv` |
| `TypeCorrect` | `Spec => []TypeOK` |
| `Disjoint` | `Spec => []BlocksDisjoint` |
| `AssertionHolds` | `Spec => []AssertHolds` |
| `OneHolder` | `Spec => []InUseIffHeld` |
| `GrantsAreLargeEnough` | `Spec => []GrantCoversRequest` |

`MyMallocHistoryProofs` proves, in the same generality:

| Theorem | States |
|---|---|
| `NothingLost` | `Spec => []NoByteLost` |
| `NoHeaderOverPayload` | `Spec => HeadersMissPayloads` |
| `HistorySafe` | `HSpec => []HistoryInv` |
| `ListKeptUntilCollision` | `HSpec => []ListKept` |
| `HeapCollapsesUntilCollision` | `HSpec => []HeapCollapses` |
| `DiagnosticsUntilCollision` | `HSpec => []DiagnosticsKept` |
| `FirstFitUntilRaced` | `HSpec => SearchesInOrder` |
| `FreesMergeUntilRaced` | `HSpec => []FreesMerge` |
| `SerialisedListComplete` | `Serialised => (Spec => []ListThreadsBlocks)` |
| `SerialisedFreeMerges` | `Serialised => (Spec => []FreeLeavesNothingToMerge)` |
| `SerialisedHeapCollapses` | `Serialised => (Spec => []DrainedHeapCollapses)` |
| `DiagnosticsCorrect` | `Serialised => (Spec => []DiagnosticsExact)` |

`Serialised` says that there is one thread, or that no thread calls `my_realloc`.
Without it `ListThreadsBlocks` is false, as the run `race` shows, and so are the
three that rest on it.

`MyMallocHistoryProofs` also proves `Implements`, that is
`Spec => ImplementsAllocator`, races included.
`TutorialProofs` proves of the tutorial allocators, in the same generality and
for both variants and any callers:

| Theorem | States |
|---|---|
| `Safe` | `Spec => []SafeInv` |
| `DisjointUnlocked` | `Spec => []BlocksDisjoint` |
| `SharedAfterReuse` | `Spec => []SharedOnlyAfterReuse` |
| `GrantsCoverRequests` | `Spec => []GrantsCover` |
| `WalksEnd` | `Spec => WalksAscend` |

and for one caller:

| Theorem | States |
|---|---|
| `OneSafe` | `Spec => []OneInv` |
| `ListIsComplete` | `Spec => []ListComplete` |
| `MarksMatch` | `Spec => []MarksMatchOwners` |
| `AbortsWhenRefused` | `Spec => []AbortsOnlyWhenRefused` |
| `TutorialImplements` | `Spec => ImplementsAllocator` |

`DriverProofs` builds on the theorems about `MyMalloc`:

| Theorem | States |
|---|---|
| `MainAccounts` | `DSpec => []PointersAccounted` |
| `LeakReported` | `DSpec => []LeakReportedIffDropped` |
| `OneBlockPrinted` | `DSpec => []HeapCollapsed` |

`ThreadHeapProofs` proves of the three per-thread allocators, for every set of
threads, every choice among the three files, lists of any length, and every
header size, alignment, split remainder, word width, heap limit and request:

| Theorem | States | Under |
|---|---|---|
| `HeapsSafe` | `Spec => []SafeHeaps` | |
| `AssertionNeverFails` | `Spec => []AssertHolds` | |
| `BytesTiled` | `Spec => []HeapTiled` | |
| `ListsStayLinked` | `Spec => []ListsLinked` | |
| `PolicyHolds` | `Spec => PolicyKept` | |
| `FreesMerge` | `Spec => FreeLeavesNothingToMerge` | |
| `SpansAre` | `Spec => []SpanIsConsumptionAndGaps` | |
| `AllocationsStay` | `Spec => []AllocationsKept` | `AllFit` |
| `HeapsEven` | `Spec => []EvenHeaps` | `Uniform` |
| `PointersAligned` | `Spec => []Aligned` | `Uniform` |

`AllFit` says that no request exceeds what an `unsigned int` holds after
rounding. The run `th_wide` shows what happens to a larger one; the other
theorems do not need it, for the lists stay sound even then. `Uniform` says that
the header, the first break and what libc takes are multiples of `ALIGN`: in the
code a header is 24 or 32 bytes, and the kernel and libc move the break by pages.

`WorkloadProofs` builds on those, for any number of workers, arrays of any
length, any number of iterations and any sizes that satisfy `DemandsAssumption`:

| Theorem | States |
|---|---|
| `WorkloadSound` | `WSpec => []WInv` |
| `PointersKept` | `WSpec => []PointersAccounted` |
| `LeaksReported` | `WSpec => []LeaksAreFailedReallocs` |

`DemandsAssumption` says of the sizes what the three files show: none is 0, none
is cut down by `ALIGN8`, and `m[i]` is never reallocated to the size it has
(96 + 8i against 24 + 8i in the first file, 72 + 10i against 20 + 6i in the
second, 70 + 12i against 30 + 7i in the third; the seed is the same on both
sides). The last is what lets `Result` read the result of a call off `owned`.

`SizeTProofs` proves `ProductExact`: the overflow test of the calloc entry points
lets a product pass exactly when it fits in `size_t`.

`FittingRequests` says that no request makes `META_SIZE + size` exceed
`INTPTR_MAX`. It is needed: the run `huge` shows what happens without it. The
other assumptions are the ones `SizeT` and `MyMalloc` state about their
constants, which TLC evaluates on every run.

**The argument for `MyMalloc`.** None of these properties is inductive. That blocks are
disjoint after a merge needs the list to lead to neighbours only in address
order; that a link written by an unlocked split does no harm needs to know what
the half-written header contains while *other* threads move; that a claim is
exclusive needs the lock. `SafeInv` puts this together:

* `LockInv`: exactly the control points inside the critical sections hold the lock.
* `LinksInv`: `next` leads from blocks to blocks, upwards in memory, and no two
  blocks have the same successor. It does not say that every block is reached.
  That is the point: this much survives the race of `my_realloc`, and is enough.
  Upwards gives that the walks end and that absorbed memory is never entered
  again; a unique successor gives that a block which is absorbed leaves no second
  link to it behind.
* `SpaceInv`: `BlocksDisjoint`, and libc's memory is below the break.
* `FrameInv`: what each frame may contain. Its central part is `HalfSplitOK`: the
  header that was written and not linked lies inside the payload of a block its
  thread holds, and the `next` in it may be stale only in ways that keep
  `LinksInv` when it is linked.
* `HoldInv`: a block in use has exactly one holder.

There is one lemma per action (`LockMallocSafe` to `LibcSbrkSafe`), each
with one step per conjunct the action can disturb, and `NextSafe` puts them
together. TLC checks `SafeInv` as an invariant in the run `threads`.

**The argument for the list.** `NoByteLost` and `HeadersMissPayloads` need no
more than `SafeInv`: the bytes of a block that is split, merged or appended are
those of its parts, and a header is only ever written into a block, at the break,
or into a block its writer holds (`OnlyWritable`). Neither mentions the list, so
neither cares what the race has done to it.

The list, and what a walk makes of it, are another matter, and the two are
at stake in different states. `Overlap` is that a thread is between the two
halves of a split without the lock while another is in a critical section.
`Collision` is that the other call is moreover about to append behind the very
block that is split. `raced` and `collided` remember that they have occurred.
`HistoryInv` adds to `SafeInv`, until the first collision, `ListInv`:

* `ListThreadsBlocks` itself;
* `AppendOK`: what a call appends to is the last block; without this an append
  would cut off the rest of the list;
* `RelinkOK`: the `next` that `split_block` copied is still the one of its block;
* `DrainedOK`: when no block is in use nothing is left to merge. Remainders of
  `my_realloc` are left unmerged only behind a block in use, and the `my_free` of
  the last of those merges everything, undisturbed, since a split needs a
  block in use;

and, until the first overlap, `WalksInv`:

* `SearchOK`: no block a search has passed fits;
* `CoalesceOK`: nothing behind the cursor of `coalesce_all` can be merged.

An overlap that is no collision breaks the second and not the first: a remainder
that appears behind a walk is missed by that walk, but it is in the list. Why only
an append counts: an unlocked split writes the `next` of a block in use and of the
header inside it. A merge writes the `next` of a free block, a locked split
that of the block it claims, another unlocked split that of its own block; so
only the append, which takes the last block whether it is in use or not, writes
the same field.

`CriticalAlone` is the lemma that carries `WalksInv`: outside an overlap no other
thread changes the list while one is in a critical section. When calls are
`Serialised` there is no overlap (`NeverOverlaps`), hence no collision, and
both hold for ever. TLC checks the consequences of `HistoryInv` in `threads`.

**The argument for the refinement.** `HeldMap` and `FreshMap` are the abstract
variables thread by thread. A step of one thread leaves the parts of the others
alone (`OthersKeepRegions`): a region is the pointer and the size of a block that
has a holder, and nobody changes the size of a block another one holds, neither
the unlocked split nor a merge. What the abstract actions demand is in
`SafeInv`, but for the sizes: `WantInv` says that a call which allocates asks for
more than 0 bytes and no other call asks for any, which is how the abstract
`want` tells the two apart. There is one lemma per action, which
names the abstract action it maps to or shows that it is a stutter. Splits,
merges, walks, locks and libc are stutters, whoever they race with.

**The argument for the diagnostics.** The two helpers are recursive functions
along the list. Induction is done with sets, and not with the library's
induction theorems: `NatLeast` is that a set of numbers that is not empty has a
least element, and `ListInduction` gets from it that a set of blocks that
contains the last one, and every block whose successor it contains, is the set of
all blocks. That the successors are the ones in address order is
`ListThreadsBlocks`, hence the hypothesis `Serialised`. What a fold over a
set adds up does not depend on the order (`AnyOrder`, `SizesAddUp`), so that the
sum along the list is the sum over the set of blocks.

**The argument for `Driver`.** `Accounted` puts `PointersAccounted` into a form
that a step inside a call preserves: while a call is in progress, the pointer in
the cell the loop is at belongs to the call and not to the client. It needs
`Unfilled`, that the loops have not stored a pointer in a cell they have not
reached, and `CallInv`, that the argument of a call in progress is that cell. For
the report, `SizesInv` says that no block is empty (so that a leak shows as bytes),
and `EndInv` and `ReportInv` carry `DrainedHeapCollapses` and the diagnostics
through the two halves of the report. The theorems hold for any number of
iterations and any sizes. A behaviour of `Driver` is one of `MyMalloc` with one
thread (`DriverSafe`), which is why `SafeInv`, `Serialised` and all that follows
from them can be used. TLC checks `DriverInv` on the instance of the run `driver`.

**The argument for `Tutorial`.** There is no lock to lean on, and the list does
become incomplete when two threads append to the same block. What is left is
put together in `SafeInv` of `TutorialInv`:

* `LayoutInv`: types, `BlocksDisjoint`, and `ReservedOK`, that the memory which
  `sbrk()` gave to a thread that has not yet made a block of it is disjoint from
  the blocks, from the regions of `nofree_malloc` and from what other threads
  reserved. It is the assertion of `request_space` that keeps it: a thread whose
  snapshot of the break is old takes no step after `sbrk()`.
* `OrderInv`: every `next` field, of blocks and of headers not filled yet, is
  `NULL` or leads upwards and stays below the break, and so do the locals of the
  walks. An append may overwrite another one, but what it writes is above
  what it is written to.
* `HoldInv`: only blocks are free, and what threads own, pass and claim are blocks.
* `GrantInv`: the size of a block is at least what the call meant, from the test
  in `find_free_block` on, or from the header `request_space` wrote; no block ever
  changes its size.
* `FreshInv`: a block whose `magic` is still the one of `request_space` has one
  holder in one role. A claim in progress counts as holding only once `Reuse` has
  written `magic`. It is kept because only a claim can add a second holder,
  and a claim is of a block that was free, hence given up by its holder; the
  claim that wins ends with `magic` "reused".

It has the same shape: lemmas per action for each of the five parts, then
`NextSafe`. TLC checks this `SafeInv` in the run `tutorial`. `FittingRequests` of
`TutorialInv` asks that the size which the machine computed, a wrapped product of
`calloc` included, fits with its header in `intptr_t`.

With one caller there is more to say, and `OneInv` says it on top of `SafeInv`:

* `OneFrames`: the other threads never take a step, and `OneCall`: what the frame
  of the caller holds at each point of its call; the break is still where
  `ReadBreak` saw it, so that the assertion of `request_space` can only fail
  because `sbrk()` refused.
* `OneList`: from `global_base` the list leads through every block in order of
  address. `NextInOrder` may fail for one block only, the one whose `next`
  already points at a header that is not filled.
* `OneMarks`: a block has at most one holder among the client, the argument of the
  call and its result; it is free exactly when it has none; `magic` follows `free`
  but for the step between the two writes.

`ListComplete`, `MarksMatchOwners` and `AbortsOnlyWhenRefused` are what these say
of a state in which no call, or an aborted one, is in progress. The refinement
needs both invariants: a claim by `Reuse` hands out a region nobody has because
`OneMarks` says so, which is false for two callers.

**The argument for `ThreadHeap`.** The threads share nothing but the break, so
the invariant has one part for each list and one for all of them:

* `GoodList`: blocks in order of address, not overlapping, `prev` the inverse of
  `next`. It does not say that neighbours in the list are neighbours in memory:
  another thread's block or libc may lie between.
* `Serves`: each allocation is a block in use with room for what `ALIGN8` made of
  the request, each block in use is an allocation, and pointers are distinct. It
  is why the assertion of `ff_free` never fails.
* `Requesting` and `Placed`: who is between `pthread_mutex_lock` and
  `pthread_mutex_unlock` has the mutex; between the two calls of `sbrk()` the break
  is the one that was read; from then on until `Link` the memory behind it
  belongs to the thread although `sbrk_lock` is released and no header is
  written. It lies behind the whole list of that thread.
* `OneOwner`, the part that is about all threads: a byte below the break is in
  the list of one thread, or was given to one and not linked yet, or is libc's.
  `HeapTiled` alone is not inductive: without `Requesting` two threads could
  extend the same break.

What a step does to its thread's list is in `ThreadHeapLists`. `Split`,
`Appended` and `Coalesced` say that `GoodList` is kept, that the list covers the
same bytes as before (and the new block's), and which blocks are in use.
`Found` says that each of the three searches returns a fitting block of the kind
its file promises, or 0 when none fits. With that a step of one thread
disturbs `OneOwner` only in `Extend` and `LibcSbrk`, and every other step is an
instance of `ThreadStep`: what is mine stays mine, and the others look at
nothing of it.

`coalesce_free_blocks` is a recursive function over pairs of a list and a
position. `LoopExists` shows that such an equation has a solution, by induction
on the number of blocks behind the position (`CoalesceEnds`), and `LoopInduction`
that what each iteration keeps, the result has: a merge shortens the list, an
advance moves the position (`MovedCloser`). `CoalesceKeeps` carries along that
nothing before the position can be merged, hence nothing at all at the end,
which is `FreeLeavesNothingToMerge`. Both inductions, and the ones along the folds of the
best-fit and worst-fit scans, use `NatLeast` and `NatSteps` of `SizeTProofs`: a
set of numbers that is not empty has a least element, and a set that contains 0
and every successor is `Nat`.

`SpansAre` counts bytes. `consumed` is a fold over the list; that such a sum
exists for a list of any length (`SumEnds`) is `LoopExists` again, and that it is the number
of bytes the blocks cover (`SumCounts`) follows block by block, for blocks are
apart. By `OneOwner` every byte from the first header to the end of the last block is
one of those or one that another thread or libc has, and never both
(`SpanSplits`). `StartsKnown` adds to `SafeHeaps` that `thread_heap_start` is the
first header, whatever was split, merged or appended since.

TLC checks `SafeHeaps`, which contains the types, in the run `heaps`.

**The argument for `Workload`.** A thread has two arrays of cells; `Cells` are those
whose content it has still to free. `Accounted` says that the pointers it owns
are the values of these cells, each in one of them, and the `dropped` ones, which
are in none. It is stated for every state, in the middle of a call too, which is
possible because a call changes `owned` only in the step in which it returns:
`Gets`, `Waits` and `Fails` are what such a step may do to its thread
(`AllocateEffect`, `ReallocEffect`, `WorkEffect`), whichever way the allocator took. To
carry it through takes more:

* `CallInv`: a call in progress is the one for the cell the loop is at. The step in
  which it returns may come long after the one in which it was made, with any
  number of steps of other threads in between.
* `Unfilled`: the cells that the first two loops have not reached are `NULL`, so
  that storing there loses nothing.
* `Resizable` and `Demanded`: a pointer that `ff_realloc` has still to get is not
  of the size that will be asked for, and every allocation is of a size somebody
  asked for. A report then shows at least a byte for each pointer that was lost
  (`LeakShows`).
* `MainInv`: a worker takes no step before `main()` creates it, and each is
  created once.

`StoreNew`, `StoreNull` and `Take` are the three things that happen to such an
account: a new pointer in a cell, `NULL` over a pointer, a pointer freed.
`OthersKeep` says that the other threads notice none of it. TLC found `MainInv`,
and `ThreadInv` of every thread, to hold on the instance of the run `workload`
before they were proved.

## 5. Only model-checked

* Liveness (`LockReleased`, `MainReturns`), which is outside what the proof
  system supports.

## 6. Not modelled

* The launcher, the scripts and the documents: no state that could go wrong.
* libc moving the break *between* the two `sbrk()` calls of `request_space`
  (malloc.c:99-100). `LibcSbrk` is excluded there for all threads. `wrapper.c`
  has one thread, which prints only between its calls, so it cannot happen in
  it. For a client with several threads it is a condition: none of them may be in
  libc while another is in `request_space`. The code does not enforce it, and
  what `threads` shows and the theorems say of several threads holds for clients
  that keep to it. The same exclusion in `ThreadHeap` (lines 126-127 of
  malloc_firstfit_sll.c) holds in the three programs: libc moves the break only in
  the main thread's arena, before the workers run.
* A pointer that one thread of the per-thread allocators got and another frees:
  no program here does that, and the code has no lock for it.
* `pthread_create()` failing: `main()` does not look.
* The bytes of the payloads, and a weaker memory order than sequential
  consistency for accesses without a lock.
* Clients that free what they do not own, and a `my_realloc` and `my_free` of
  the same pointer at once.

## 7. Plan

Done, in this order: the global heap with its diagnostics, its refinement and its
inductive invariant; the per-thread heaps and their workload; the driver of the
global heap; the tutorial allocators and their proofs; the completeness of the
list, first fit and merging of the global heap for every instance. Every part of
the repository that keeps state has a module.

Then, as theorems: the refinement of `Allocator` by `MyMalloc` and by `Tutorial`,
what holds of `Tutorial` for one caller, the diagnostics, the driver, the
per-thread heaps with their lists and their use of the break,
and `run_workload` with its threads. Every safety property that a run checks has
its theorem.

Next:

* an abstract specification of what the three per-thread allocators promise, and
  that `ThreadHeap` implements it. `Allocator` is not that specification: it
  asks, reserves and grants in separate steps, and `ThreadHeap` does all three in
  one when a block of the thread's own list fits.

## 8. Running

    tlc -workers 2 -config MyMallocThreads.cfg MCMyMallocHistory
    tlc -workers 2 -config ThreadHeap.cfg MCThreadHeap
    tlc -workers 2 -config Workload.cfg MCWorkload
    tlc -workers 2 -config Driver.cfg MCDriver
    tlc -workers 2 -config Tutorial.cfg MCTutorial
    tlapm SizeTProofs.tla
    tlapm MyMallocProofs.tla
    tlapm MyMallocHistoryProofs.tla
    tlapm DriverProofs.tla
    tlapm TutorialProofs.tla
    tlapm ThreadHeapLists.tla
    tlapm ThreadHeapProofs.tla
    tlapm WorkloadProofs.tla

PROJECT.json names the module and the configuration of every run, the lines of
code behind every definition, and for every property a change of the code that
breaks it.
