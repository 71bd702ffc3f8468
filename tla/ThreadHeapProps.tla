--------------------------- MODULE ThreadHeapProps --------------------------
(***************************************************************************)
(* What ThreadHeap promises to its threads, and what its diagnostics say.  *)
(* The types of its variables are Types of ThreadHeapInv.                  *)
(***************************************************************************)
EXTENDS ThreadHeap

-----------------------------------------------------------------------------
(* The threads together.                                                   *)

BlockEnd(m) == m.at + HDR + m.size

\* What sbrk() gave to t and t has not linked yet.
Reserved(t) ==
  IF pc[t] \in {"unlock", "link"} /\ brk_before[t] # NULL
  THEN {[thread |-> t, from |-> brk_before[t], to |-> brk_before[t] + HDR + call[t].size]}
  ELSE {}

\* Every stretch of memory some thread regards as its own.
Regions ==
  UNION {Reserved(t) \cup {[thread |-> t, from |-> m.at, to |-> BlockEnd(m)] :
                             m \in Range(heap[t])} : t \in Threads}

(* Every byte below the break belongs to libc or to exactly one block of   *)
(* one thread: two threads never get the same break from sbrk(), though    *)
(* the header is written after sbrk_lock is released, and no list loses or *)
(* counts twice a byte (request_space, split_block, coalesce_free_blocks). *)
HeapTiled ==
  /\ \A r \in Regions : r.to <= brk
  /\ \A a \in HeapBase..(brk - 1) :
       Cardinality({r \in Regions : r.from <= a /\ a < r.to}) = IF a \in libc THEN 0 ELSE 1

-----------------------------------------------------------------------------
(* One thread.                                                             *)

(* The list is in address order and prev is the inverse of next, whichever *)
(* splits, merges and appends made it (the prev assignments of             *)
(* malloc_bestfit_dll.c and malloc_worstfit_dll.c).                        *)
ListsLinked ==
  \A t \in Threads : \A i \in DOMAIN heap[t] :
    /\ i > 1 => BlockEnd(heap[t][i - 1]) <= heap[t][i].at
    /\ heap[t][i].prev = IF Doubly /\ i > 1 THEN heap[t][i - 1].at ELSE NULL

(* For its whole life an allocation is one block in use of the thread that *)
(* asked for it, with at least the bytes it asked for, and no block is in  *)
(* use that nobody owns (the claim, split, free and realloc paths, and the *)
(* return of NULL when ff_realloc cannot get a new block).                 *)
AllocationsKept ==
  \A t \in Threads :
    /\ \A r \in owned[t] : \E m \in Range(heap[t]) :
         m.at = data_to_block(r.ptr) /\ ~m.free /\ m.size >= r.asked
    /\ \A m \in Range(heap[t]) : ~m.free => \E r \in owned[t] : m.at = data_to_block(r.ptr)
    /\ \A r, q \in owned[t] : r.ptr = q.ptr => r = q

(* Every pointer a client gets is aligned, remainders of splits and heaps  *)
(* that other threads and libc interrupt included (ALIGN8 and the layout). *)
Aligned == \A t \in Threads : \A r \in owned[t] : r.ptr % ALIGN = 0

(* The assertion of ff_free never fails, nor does that of the ff_free      *)
(* inside ff_realloc, which runs after other threads moved the break and   *)
(* after ff_malloc split or claimed other blocks: the block of a pointer   *)
(* is in use until its owner frees it ("detect double-free").              *)
AssertHolds == \A t \in Threads : pc[t] # "aborted"

Candidates(t, n) == {m \in Range(heap[t]) : m.free /\ m.size >= n}

\* The blocks a step of t takes from its free blocks.
Claimed(t) == {m \in Range(heap[t]) :
  m.free /\ \E k \in Range(heap'[t]) : k.at = m.at /\ ~k.free}

Preferred(m, k) ==
  CASE policy = "first" -> m.at <= k.at
    [] policy = "best"  -> m.size <= k.size
    [] policy = "worst" -> m.size >= k.size

(* The block taken is the one the name of the file promises, among all the *)
(* free blocks that fit, and the heap grows only when none fits            *)
(* (find_free_block_first_fit, _best_fit, _worst_fit).                     *)
PolicyKept ==
  [][\A t \in Threads :
       /\ \A m \in Claimed(t) : \E r \in owned'[t] :
            /\ data_to_block(r.ptr) = m.at
            /\ \A k \in Candidates(t, ALIGN8(r.asked)) : Preferred(m, k)
       /\ pc[t] = "idle" /\ pc'[t] = "lock" => Candidates(t, call'[t].size) = {}]_vars

\* A step of t gives back memory that t owned.
GivesBack(t) == \E r \in owned[t] : \A q \in owned'[t] : q.ptr # r.ptr

(* When a pointer is freed, by ff_free or by ff_realloc, the single pass   *)
(* of coalesce_free_blocks leaves no two adjacent free blocks, remainders  *)
(* that ff_realloc split off without coalescing included.                  *)
FreeLeavesNothingToMerge ==
  [][\A t \in Threads : GivesBack(t) =>
       \A m, k \in Range(heap'[t]) : m.free /\ k.free => BlockEnd(m) # k.at]_vars

-----------------------------------------------------------------------------
(* Diagnostics, which a thread prints while it is in no call.              *)

leaked_bytes(t) == FoldLeft(LAMBDA n, m : n + IF m.free THEN 0 ELSE m.size, 0, heap[t])

\* The first byte past the payload of the last block.
heap_end(t) == IF heap[t] = <<>> THEN NULL ELSE BlockEnd(Last(heap[t]))

consumed(t) == FoldLeft(LAMBDA n, m : n + HDR + m.size, 0, heap[t])

\* What others took between the first and the last byte of t's heap.
Foreign(t) ==
  {a \in thread_heap_start[t]..(heap_end(t) - 1) :
     a \in libc \/ \E r \in Regions : r.thread # t /\ r.from <= a /\ a < r.to}

(* malloc_firstfit_sll.c:302: "(heap_end - thread_heap_start) gives total  *)
(* heap bytes consumed by this thread".                                    *)
SpanIsConsumption ==
  \A t \in Threads : heap[t] # <<>> => heap_end(t) - thread_heap_start[t] = consumed(t)

(* What that difference is instead: the bytes the thread consumed and all  *)
(* that the other threads and libc took in between, never less, and the    *)
(* former alone only for a thread that never shared the break.             *)
SpanIsConsumptionAndGaps ==
  \A t \in Threads : heap[t] # <<>> =>
    heap_end(t) - thread_heap_start[t] = consumed(t) + Cardinality(Foreign(t))

=============================================================================
