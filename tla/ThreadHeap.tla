----------------------------- MODULE ThreadHeap -----------------------------
(***************************************************************************)
(* starter/malloc_firstfit_sll.c, malloc_bestfit_dll.c and                 *)
(* malloc_worstfit_dll.c: allocators that give every thread a heap of its  *)
(* own.  They differ in the block they choose and in whether a header has  *)
(* a prev link; policy, chosen once and for all, says which file it is.    *)
(*                                                                         *)
(* A thread's list is thread-local, so what a call does to it is one step: *)
(* no other thread can look.  The threads meet only in request_space, at   *)
(* sbrk_lock and the program break, which is modelled step by step.        *)
(* heap[t] is the list of thread t from thread_base on, one record per     *)
(* header; next is the order of the sequence, prev is a field.             *)
(*                                                                         *)
(* Left out: the bytes of the payloads.  free is a Boolean.                *)
(***************************************************************************)
EXTENDS SizeT, SequencesExt

CONSTANTS
  Threads,              \* the threads of the process
  Policies,             \* which of the three files: "first", "best", "worst"
  Requests,             \* sizes a client asks for
  CallocArgs,           \* pairs <<nmemb, size>> a client asks for
  HDR,                  \* sizeof(block_meta_t)
  ALIGN,                \* 8 in ALIGN8
  UINT_MAX,             \* largest unsigned int, the type of ~7U
  MIN_SPLIT_REMAINDER,  \* smallest payload surplus that is left unsplit
  HeapBase,             \* the program break when the process starts
  BrkLimit,             \* bound: the break never moves past it
  LibcSteps,            \* bound: sizes by which libc moves the break
  NoThread              \* the value of sbrk_lock when nobody holds it

ASSUME PoliciesAssumption == Policies \subseteq {"first", "best", "worst"}

ASSUME ThreadsAssumption == NoThread \notin Threads

ASSUME SizesAssumption ==
  /\ HDR \in Nat \ {0}
  /\ ALIGN \in Nat \ {0}
  /\ MIN_SPLIT_REMAINDER \in Nat \ {0}
  /\ UINT_MAX \in Nat
  /\ UINT_MAX + HDR + MIN_SPLIT_REMAINDER <= INTPTR_MAX
  /\ Requests \subseteq SizeT
  /\ CallocArgs \subseteq SizeT \X SizeT

ASSUME HeapAssumption ==
  /\ HeapBase \in Nat \ {0}
  /\ BrkLimit \in Nat
  /\ HeapBase <= BrkLimit
  /\ LibcSteps \subseteq Nat \ {0}

NULL == 0

VARIABLES
  policy,             \* the file the program was built from
  brk,                \* the program break, kept by the operating system
  libc,               \* addresses libc's own allocator took from the break
  sbrk_lock,          \* the holder of the mutex
  heap,               \* the list of each thread
  thread_heap_start,  \* first address sbrk() returned to each thread
  owned,              \* [ptr, asked] of what each client thread has allocated
  pc,                 \* control point of each thread
  call,               \* [asked, size, ptr] of the call in request_space
  brk_before          \* result of sbrk(0), or NULL after a refusal

vars == <<policy, brk, libc, sbrk_lock, heap, thread_heap_start, owned, pc, call,
          brk_before>>

PCs == {"idle", "lock", "brk", "extend", "unlock", "link", "aborted"}

NoCall == [asked |-> 0, size |-> 0, ptr |-> NULL]

Init ==
  /\ policy \in Policies
  /\ brk = HeapBase
  /\ libc = {}
  /\ sbrk_lock = NoThread
  /\ heap = [t \in Threads |-> <<>>]
  /\ thread_heap_start = [t \in Threads |-> NULL]
  /\ owned = [t \in Threads |-> {}]
  /\ pc = [t \in Threads |-> "idle"]
  /\ call = [t \in Threads |-> NoCall]
  /\ brk_before = [t \in Threads |-> NULL]

-----------------------------------------------------------------------------
(* One list.  Sizes stay below UINT_MAX (ALIGN8 sees to that) and blocks   *)
(* below the break, so no sum below can wrap.  An operator whose name ends *)
(* in _ and a remark is a mutated form of the next one, for the mutation   *)
(* tests of the properties.                                                *)

\* block_meta_t
Block == [at : Nat, size : Nat, free : BOOLEAN, prev : Nat]

ALIGN8_Off(x) == x

\* ((x) + 7U) & ~7U: the mask is an unsigned int, so it also clears the bits
\* of a size_t above those of an unsigned int.
ALIGN8(x) ==
  LET low == SizeAdd(x, ALIGN - 1) % (UINT_MAX + 1)
  IN  low - (low % ALIGN)

data_to_block(p) == p - HDR

\* The index of the header at address b, or 0.
IndexOf(h, b) == SelectInSeq(h, LAMBDA m : m.at = b)

Doubly == policy # "first"

Back(b) == IF Doubly THEN b ELSE NULL

RepairPrev_Skip(h, i) == h

\* block->next->prev = block, if next exists.
RepairPrev(h, i) ==
  IF i + 1 \in DOMAIN h THEN [h EXCEPT ![i + 1].prev = Back(h[i].at)] ELSE h

are_adjacent(a, b) == a.at + HDR + a.size = b.at

Fits_OneShort(m, n) == m.free /\ m.size + ALIGN >= n

Fits(m, n) == m.free /\ m.size >= n

find_free_block_first_fit(h, n) == SelectInSeq(h, LAMBDA m : Fits(m, n))

find_free_block_best_fit_Greater(h, n) ==
  FoldLeftDomain(
    LAMBDA best, i : IF Fits(h[i], n) /\ (best = 0 \/ h[i].size > h[best].size)
                     THEN i ELSE best, 0, h)

find_free_block_best_fit(h, n) ==
  FoldLeftDomain(
    LAMBDA best, i : IF Fits(h[i], n) /\ (best = 0 \/ h[i].size < h[best].size)
                     THEN i ELSE best, 0, h)

find_free_block_worst_fit(h, n) ==
  FoldLeftDomain(
    LAMBDA worst, i : IF Fits(h[i], n) /\ (worst = 0 \/ h[i].size > h[worst].size)
                      THEN i ELSE worst, 0, h)

\* The index of the block the file at hand chooses, or 0.
find_free_block(h, n) ==
  CASE policy = "first" -> find_free_block_first_fit(h, n)
    [] policy = "best"  -> find_free_block_best_fit(h, n)
    [] policy = "worst" -> find_free_block_worst_fit(h, n)

SplitWorthwhile_Always(m, wanted) == m.size >= wanted

SplitWorthwhile(m, wanted) == m.size > wanted + HDR + MIN_SPLIT_REMAINDER

split_block(h, i, wanted) ==
  IF ~SplitWorthwhile(h[i], wanted) THEN h
  ELSE RepairPrev(InsertAt([h EXCEPT ![i].size = wanted], i + 1,
                           [at   |-> h[i].at + HDR + wanted,
                            size |-> h[i].size - wanted - HDR,
                            free |-> TRUE,
                            prev |-> Back(h[i].at)]), i + 1)

\* cur->next is merged into cur.
Absorb(h, i) ==
  RepairPrev(RemoveAt([h EXCEPT ![i].size = @ + HDR + h[i + 1].size], i + 1), i)

Mergeable(h, i) == h[i].free /\ h[i + 1].free /\ are_adjacent(h[i], h[i + 1])

coalesce_free_blocks_Advance(h) ==
  LET loop[c \in Seq(Block) \X (Nat \ {0})] ==
        LET l == c[1]
            i == c[2]
        IN  IF i >= Len(l) THEN l
            ELSE loop[IF Mergeable(l, i) THEN <<Absorb(l, i), i + 1>> ELSE <<l, i + 1>>]
  IN  loop[<<h, 1>>]

\* The loop from the i-th block of l on, c = <<l, i>>; it does not leave a
\* block that absorbed its successor.
coalesce_free_blocks(h) ==
  LET loop[c \in Seq(Block) \X (Nat \ {0})] ==
        LET l == c[1]
            i == c[2]
        IN  IF i >= Len(l) THEN l
            ELSE loop[IF Mergeable(l, i) THEN <<Absorb(l, i), i>> ELSE <<l, i + 1>>]
  IN  loop[<<h, 1>>]

\* ff_free past its assertion.
Release(h, p) ==
  coalesce_free_blocks([h EXCEPT ![IndexOf(h, data_to_block(p))].free = TRUE])

Claim_LeftFree(h, i, n) == split_block(h, i, n)

\* ff_malloc claims the i-th block.
Claim(h, i, n) == split_block([h EXCEPT ![i].free = FALSE], i, n)

\* The header request_space writes and links behind the tail.
AppendBlock(h, b, n) ==
  Append(h, [at |-> b, size |-> n, free |-> FALSE,
             prev |-> IF h = <<>> THEN NULL ELSE Back(Last(h).at)])

-----------------------------------------------------------------------------
(* Calls.  A call with size 0, or ff_free(NULL), changes nothing.          *)

Goto(t, l) == pc' = [pc EXCEPT ![t] = l]

\* The call gives p up, unless it is NULL, and returns q with room for asked
\* bytes, unless that is NULL; h is the list before ff_free, whose assertion
\* ends the process when it fails.
Finish(t, h, p, q, asked) ==
  /\ call' = [call EXCEPT ![t] = NoCall]
  /\ brk_before' = [brk_before EXCEPT ![t] = NULL]
  /\ IF p # NULL /\ h[IndexOf(h, data_to_block(p))].free
     THEN Goto(t, "aborted") /\ UNCHANGED <<heap, owned>>
     ELSE /\ Goto(t, "idle")
          /\ heap' = [heap EXCEPT ![t] = IF p = NULL THEN h ELSE Release(h, p)]
          /\ owned' = [owned EXCEPT ![t] =
                         {r \in @ : r.ptr # p}
                           \cup {r \in {[ptr |-> q, asked |-> asked]} : q # NULL}]

\* ff_malloc(asked): reuse a block of the list, or go to request_space.
\* p is the pointer ff_realloc frees once it has a new one.
Allocate(t, asked, p) ==
  LET n == ALIGN8(asked)
      i == find_free_block(heap[t], n)
  IN  IF i # 0
      THEN Finish(t, Claim(heap[t], i, n), p, heap[t][i].at + HDR, asked)
      ELSE /\ call' = [call EXCEPT ![t] = [asked |-> asked, size |-> n, ptr |-> p]]
           /\ Goto(t, "lock")
           /\ UNCHANGED <<heap, owned, brk_before>>

ff_malloc(t, asked) ==
  /\ pc[t] = "idle"
  /\ asked # 0
  /\ Allocate(t, asked, NULL)
  /\ UNCHANGED <<policy, brk, libc, sbrk_lock, thread_heap_start>>

\* memset() then writes the nmemb * size bytes of the payload.
ff_calloc(t, nmemb, size) ==
  /\ nmemb # 0
  /\ size # 0
  /\ ~ProductOverflows(nmemb, size)
  /\ ff_malloc(t, nmemb * size)

ff_free(t, p) ==
  /\ pc[t] = "idle"
  /\ p # NULL
  /\ Finish(t, heap[t], p, NULL, 0)
  /\ UNCHANGED <<policy, brk, libc, sbrk_lock, thread_heap_start>>

\* block->size >= size: split_block, and the same pointer again.
ReallocInPlace(t, p, asked) ==
  LET i == IndexOf(heap[t], data_to_block(p)) IN
    /\ heap[t][i].size >= ALIGN8(asked)
    /\ heap' = [heap EXCEPT ![t] = split_block(heap[t], i, ALIGN8(asked))]
    /\ owned' = [owned EXCEPT ![t] =
                   {r \in @ : r.ptr # p} \cup {[ptr |-> p, asked |-> asked]}]
    /\ UNCHANGED <<pc, call, brk_before>>

ReallocMove_KeepOld(t, p, asked) ==
  /\ heap[t][IndexOf(heap[t], data_to_block(p))].size < ALIGN8(asked)
  /\ Allocate(t, asked, NULL)

ReallocMove(t, p, asked) ==
  /\ heap[t][IndexOf(heap[t], data_to_block(p))].size < ALIGN8(asked)
  /\ Allocate(t, asked, p)

\* ff_realloc with a pointer and a size; it is ff_malloc without the one, and
\* ff_free without the other.
Resize(t, p, asked) ==
  /\ pc[t] = "idle"
  /\ ReallocInPlace(t, p, asked) \/ ReallocMove(t, p, asked)
  /\ UNCHANGED <<policy, brk, libc, sbrk_lock, thread_heap_start>>

ff_realloc(t, p, asked) ==
  \/ p = NULL /\ ff_malloc(t, asked)
  \/ p # NULL /\ asked = 0 /\ ff_free(t, p)
  \/ p # NULL /\ asked # 0 /\ Resize(t, p, asked)

-----------------------------------------------------------------------------
(* request_space.                                                          *)

Acquire_AtOnce(t) == sbrk_lock' = t

Acquire(t) == sbrk_lock = NoThread /\ sbrk_lock' = t

Lock(t) ==
  /\ pc[t] = "lock"
  /\ Acquire(t)
  /\ Goto(t, "brk")
  /\ UNCHANGED <<policy, brk, libc, heap, thread_heap_start, owned, call, brk_before>>

\* brk_before = sbrk(0).
ReadBreak(t) ==
  /\ pc[t] = "brk"
  /\ brk_before' = [brk_before EXCEPT ![t] = brk]
  /\ Goto(t, "extend")
  /\ UNCHANGED <<policy, brk, libc, sbrk_lock, heap, thread_heap_start, owned, call>>

\* The break that sbrk(sizeof(block_meta_t) + size) asks for.
Grown(t) == brk + HDR + call[t].size

Extend(t) ==
  /\ pc[t] = "extend"
  /\ Grown(t) <= BrkLimit
  /\ brk' = Grown(t)
  /\ Goto(t, "unlock")
  /\ UNCHANGED <<policy, libc, sbrk_lock, heap, thread_heap_start, owned, call, brk_before>>

\* sbrk() returns -1, which the system may do at any time.
ExtendRefused(t) ==
  /\ pc[t] = "extend"
  /\ brk_before' = [brk_before EXCEPT ![t] = NULL]
  /\ Goto(t, "unlock")
  /\ UNCHANGED <<policy, brk, libc, sbrk_lock, heap, thread_heap_start, owned, call>>

Unlock_NotOnFailure(t) ==
  /\ pc[t] = "unlock"
  /\ IF brk_before[t] = NULL
     THEN Finish(t, heap[t], NULL, NULL, 0) /\ UNCHANGED sbrk_lock
     ELSE /\ Goto(t, "link")
          /\ sbrk_lock' = NoThread
          /\ UNCHANGED <<heap, owned, call, brk_before>>
  /\ UNCHANGED <<policy, brk, libc, thread_heap_start>>

\* After a refusal ff_malloc, and ff_realloc above it, return NULL at once.
Unlock(t) ==
  /\ pc[t] = "unlock"
  /\ sbrk_lock' = NoThread
  /\ IF brk_before[t] = NULL
     THEN Finish(t, heap[t], NULL, NULL, 0)
     ELSE Goto(t, "link") /\ UNCHANGED <<heap, owned, call, brk_before>>
  /\ UNCHANGED <<policy, brk, libc, thread_heap_start>>

Link_StartAgain(t) ==
  /\ pc[t] = "link"
  /\ LET b == brk_before[t] IN
       /\ thread_heap_start' = [thread_heap_start EXCEPT ![t] = b]
       /\ Finish(t, AppendBlock(heap[t], b, call[t].size), call[t].ptr, b + HDR, call[t].asked)
  /\ UNCHANGED <<policy, brk, libc, sbrk_lock>>

\* Without the lock: the header is written and linked, ff_malloc returns it,
\* and ff_realloc copies the old payload and frees it.
Link(t) ==
  /\ pc[t] = "link"
  /\ LET b == brk_before[t] IN
       /\ thread_heap_start' = [thread_heap_start EXCEPT ![t] = IF @ = NULL THEN b ELSE @]
       /\ Finish(t, AppendBlock(heap[t], b, call[t].size), call[t].ptr, b + HDR, call[t].asked)
  /\ UNCHANGED <<policy, brk, libc, sbrk_lock>>

-----------------------------------------------------------------------------
\* libc's own allocator, behind printf() and pthread_create(), moves the same
\* break without sbrk_lock.  Only the main thread's arena does, and in these
\* programs while main() runs alone, so it never comes between the two sbrk()
\* calls of request_space.
LibcSbrk ==
  /\ \A t \in Threads : pc[t] # "extend"
  /\ \E k \in LibcSteps :
       /\ brk + k <= BrkLimit
       /\ brk' = brk + k
       /\ libc' = libc \cup brk..(brk + k - 1)
  /\ UNCHANGED <<policy, sbrk_lock, heap, thread_heap_start, owned, pc, call, brk_before>>

\* The threads of a client use only the pointers they got themselves.
Call(t) ==
  \/ \E asked \in Requests : ff_malloc(t, asked)
  \/ \E a \in CallocArgs : ff_calloc(t, a[1], a[2])
  \/ \E r \in owned[t] : ff_free(t, r.ptr)
  \/ \E p \in {NULL} \cup {r.ptr : r \in owned[t]}, asked \in Requests : ff_realloc(t, p, asked)

Work(t) ==
  \/ Lock(t) \/ ReadBreak(t) \/ Extend(t) \/ ExtendRefused(t) \/ Unlock(t) \/ Link(t)

\* A failed assert() ends the process.
Running == \A t \in Threads : pc[t] # "aborted"

Next ==
  \/ Running /\ \E t \in Threads : Call(t) \/ Work(t)
  \/ Running /\ LibcSbrk

Spec == Init /\ [][Next]_vars

=============================================================================
