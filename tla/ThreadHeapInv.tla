---------------------------- MODULE ThreadHeapInv ---------------------------
(***************************************************************************)
(* The invariant that makes ThreadHeap correct.                            *)
(***************************************************************************)
EXTENDS ThreadHeapProps

-----------------------------------------------------------------------------
(* One list.                                                               *)

\* Each block ends before the next ones begin.
Ordered(h) == \A j, k \in 1..Len(h) : j < k => BlockEnd(h[j]) <= h[k].at

\* prev is the inverse of next.
Linked(h) == \A j \in 1..Len(h) : h[j].prev = IF j > 1 THEN Back(h[j - 1].at) ELSE NULL

GoodList(h) == h \in Seq(Block) /\ Ordered(h) /\ Linked(h)

\* The byte at a belongs to a block, header included.
Covers(h, a) == \E j \in 1..Len(h) : h[j].at <= a /\ a < BlockEnd(h[j])

\* The block at a, of s bytes, is in use.
InUse(h, a, s) == \E j \in 1..Len(h) : ~h[j].free /\ h[j].at = a /\ h[j].size = s

\* Blocks begin and end at multiples of ALIGN.
Even(h) == \A j \in 1..Len(h) : h[j].at % ALIGN = 0 /\ h[j].size % ALIGN = 0

\* Every allocation is a block in use with room for it, every block in use is
\* an allocation, and no two have the same pointer.
Serves(h, o) ==
  /\ \A r \in o : \E j \in 1..Len(h) :
       ~h[j].free /\ r.ptr = h[j].at + HDR /\ ALIGN8(r.asked) <= h[j].size
  /\ \A j \in 1..Len(h) : ~h[j].free => \E r \in o : r.ptr = h[j].at + HDR
  /\ \A r, q \in o : r.ptr = q.ptr => r = q

-----------------------------------------------------------------------------
(* The threads together.                                                   *)

Allocations == [ptr : Nat \ {NULL}, asked : SizeT]

Types ==
  /\ policy \in Policies
  /\ brk \in HeapBase..BrkLimit
  /\ libc \subseteq HeapBase..(brk - 1)
  /\ sbrk_lock \in Threads \cup {NoThread}
  /\ heap \in [Threads -> Seq(Block)]
  /\ thread_heap_start \in [Threads -> Nat]
  /\ owned \in [Threads -> SUBSET Allocations]
  /\ pc \in [Threads -> PCs \ {"aborted"}]
  /\ call \in [Threads -> [asked : SizeT, size : SizeT, ptr : Nat]]
  /\ brk_before \in [Threads -> Nat]

\* What request_space knows at its control points: who is between pthread_mutex_lock
\* and pthread_mutex_unlock has the mutex, and the break does not move between
\* the two calls of sbrk().
Requesting(t) ==
  /\ pc[t] \in {"brk", "extend", "unlock"} => sbrk_lock = t
  /\ pc[t] = "extend" => brk_before[t] = brk
  /\ pc[t] = "link" => brk_before[t] # NULL
  /\ pc[t] # "idle" => /\ call[t].size = ALIGN8(call[t].asked)
                       /\ call[t].ptr # NULL => \E r \in owned[t] : r.ptr = call[t].ptr

\* sbrk() has given t memory that is not in its list yet.
Holds(t) == pc[t] \in {"unlock", "link"} /\ brk_before[t] # NULL

HeldEnd(t) == brk_before[t] + HDR + call[t].size

\* That memory lies behind the list, and all of it below the break.
Placed(t) ==
  /\ \A j \in 1..Len(heap[t]) :
       /\ HeapBase <= heap[t][j].at
       /\ BlockEnd(heap[t][j]) <= IF Holds(t) THEN brk_before[t] ELSE brk
  /\ Holds(t) => HeapBase <= brk_before[t] /\ HeldEnd(t) <= brk

\* The byte at a is in the list of t, or in what sbrk() gave it.
Mine(t, a) ==
  \/ Covers(heap[t], a)
  \/ Holds(t) /\ brk_before[t] <= a /\ a < HeldEnd(t)

\* The byte at a has one owner.
OneOwner(a) ==
  /\ \A t, u \in Threads : Mine(t, a) /\ Mine(u, a) => t = u
  /\ a \in libc <=> \A t \in Threads : ~Mine(t, a)

SafeHeaps ==
  /\ Types
  /\ \A t \in Threads : /\ GoodList(heap[t])
                        /\ Serves(heap[t], owned[t])
                        /\ Requesting(t)
                        /\ Placed(t)
  /\ \A a \in HeapBase..(brk - 1) : OneOwner(a)

\* Sizes and addresses are multiples of ALIGN as long as everybody who moves
\* the break moves it by multiples.
EvenHeaps ==
  /\ brk % ALIGN = 0
  /\ \A t \in Threads : Even(heap[t]) /\ brk_before[t] % ALIGN = 0

=============================================================================
