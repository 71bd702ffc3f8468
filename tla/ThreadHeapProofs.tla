-------------------------- MODULE ThreadHeapProofs --------------------------
(***************************************************************************)
(* Proofs about ThreadHeap, second part: the invariant SafeHeaps, and what *)
(* follows from it, for any number of threads, any policy and any sizes.   *)
(***************************************************************************)
EXTENDS ThreadHeapLists, FiniteSetTheorems

USE DEF NULL

ThreadSafe(t) == GoodList(heap[t]) /\ Serves(heap[t], owned[t]) /\ Requesting(t) /\ Placed(t)

\* The step is none of the threads other than t.
Elsewhere(t) ==
  \A u \in Threads \ {t} :
    /\ heap'[u] = heap[u] /\ owned'[u] = owned[u] /\ pc'[u] = pc[u]
    /\ call'[u] = call[u] /\ brk_before'[u] = brk_before[u]

\* The invariant, thread by thread.
LEMMA SafeParts ==
  ASSUME SafeHeaps
  PROVE  /\ Types
         /\ \A t \in Threads : ThreadSafe(t)
         /\ \A a \in HeapBase..(brk - 1) : OneOwner(a)
BY DEF SafeHeaps, ThreadSafe

\* The types, one variable at a time.
LEMMA TypesOf ==
  ASSUME Types, NEW t \in Threads
  PROVE  /\ heap[t] \in Seq(Block)
         /\ owned[t] \subseteq Allocations
         /\ pc[t] \in PCs /\ pc[t] # "aborted"
         /\ call[t].asked \in SizeT /\ call[t].size \in SizeT /\ call[t].size \in Nat
         /\ call[t].ptr \in Nat
         /\ brk_before[t] \in Nat
         /\ thread_heap_start[t] \in Nat
         /\ brk \in Nat /\ HeapBase \in Nat /\ HeapBase # 0 /\ HeapBase <= brk /\ brk <= BrkLimit
         /\ policy \in {"first", "best", "worst"}
<1>1. heap[t] \in Seq(Block) /\ owned[t] \subseteq Allocations
  BY DEF Types
<1>2. pc[t] \in PCs /\ pc[t] # "aborted"
  BY DEF Types
<1>3. call[t].asked \in SizeT /\ call[t].size \in SizeT /\ call[t].ptr \in Nat
  BY DEF Types
<1>4. call[t].size \in Nat
  BY <1>3 DEF SizeT
<1>5. brk_before[t] \in Nat /\ thread_heap_start[t] \in Nat
  BY DEF Types
<1>6. brk \in Nat /\ HeapBase \in Nat /\ HeapBase # 0 /\ HeapBase <= brk /\ brk <= BrkLimit
  BY HeapAssumption DEF Types
<1>7. policy \in {"first", "best", "worst"}
  BY PoliciesAssumption DEF Types
<1> QED
  BY <1>1, <1>2, <1>3, <1>4, <1>5, <1>6, <1>7

\* Whatever a thread has lies below the break.
LEMMA MineBelow ==
  ASSUME Types, NEW t \in Threads, Placed(t), NEW a \in Nat, Mine(t, a)
  PROVE  HeapBase <= a /\ a < brk
<1>1. /\ heap[t] \in Seq(Block) /\ call[t].size \in Nat /\ brk_before[t] \in Nat
      /\ brk \in Nat /\ HeapBase \in Nat
  BY TypesOf
<1>2. HDR \in Nat
  BY Sizes
<1>3. Holds(t) => HeapBase <= brk_before[t] /\ HeldEnd(t) <= brk
  BY DEF Placed
<1>4. HeldEnd(t) \in Nat /\ brk_before[t] <= HeldEnd(t)
  <2>1. PICK b \in Nat, s \in Nat : b = brk_before[t] /\ s = call[t].size
    BY <1>1
  <2>2. b + HDR + s \in Nat /\ b <= b + HDR + s
    BY <1>2
  <2>3. HeldEnd(t) = b + HDR + s
    BY <2>1 DEF HeldEnd
  <2> QED
    BY <2>1, <2>2, <2>3
<1>5. ASSUME NEW j \in 1..Len(heap[t])
      PROVE  HeapBase <= heap[t][j].at /\ BlockEnd(heap[t][j]) <= brk
  <2>1. /\ HeapBase <= heap[t][j].at
        /\ BlockEnd(heap[t][j]) <= IF Holds(t) THEN brk_before[t] ELSE brk
    BY DEF Placed
  <2>2. BlockEnd(heap[t][j]) \in Nat
    BY <1>1, Ends
  <2> QED
    BY <1>1, <1>3, <1>4, <2>1, <2>2
<1>6. CASE Covers(heap[t], a)
  BY <1>1, <1>5, <1>6, Bounds
<1>7. CASE Holds(t) /\ brk_before[t] <= a /\ a < HeldEnd(t)
  BY <1>1, <1>3, <1>4, <1>7
<1> QED
  BY <1>6, <1>7 DEF Mine

\* A thread that does not take the step keeps what it has.
LEMMA OtherSafe ==
  ASSUME Types, NEW u \in Threads, ThreadSafe(u),
         heap'[u] = heap[u], owned'[u] = owned[u], pc'[u] = pc[u],
         call'[u] = call[u], brk_before'[u] = brk_before[u],
         policy' = policy, brk' \in Nat, brk <= brk',
         pc[u] = "extend" => brk' = brk,
         sbrk_lock = u => sbrk_lock' = u
  PROVE  ThreadSafe(u)' /\ \A a \in Nat : Mine(u, a)' <=> Mine(u, a)
<1>1. Holds(u)' <=> Holds(u)
  BY DEF Holds
<1>2. HeldEnd(u)' = HeldEnd(u)
  BY DEF HeldEnd
<1>3. \A a \in Nat : Mine(u, a)' <=> Mine(u, a)
  BY <1>1, <1>2 DEF Mine, Covers, BlockEnd
<1>4. GoodList(heap[u])'
  BY DEF ThreadSafe, GoodList, Ordered, Linked, BlockEnd, Back, Doubly
<1>5. Serves(heap[u], owned[u])'
  BY DEF ThreadSafe, Serves
<1>6. Requesting(u)'
  BY DEF ThreadSafe, Requesting
<1>7. Placed(u)'
  <2>1. Placed(u)
    BY DEF ThreadSafe
  <2>2. heap[u] \in Seq(Block) /\ brk_before[u] \in Nat /\ brk \in Nat /\ call[u].size \in Nat
    BY TypesOf
  <2>3. \A j \in 1..Len(heap[u]) : BlockEnd(heap[u][j]) \in Nat /\ BlockEnd(heap[u][j])' = BlockEnd(heap[u][j])
    BY <2>2, Ends DEF BlockEnd
  <2>4. HeldEnd(u) \in Nat
    BY <2>2, Sizes DEF HeldEnd
  <2>5. Holds(u) => HeapBase <= brk_before[u] /\ HeldEnd(u) <= brk'
    BY <2>1, <2>2, <2>4 DEF Placed
  <2>6. ASSUME NEW j \in 1..Len(heap[u])
        PROVE  /\ HeapBase <= heap[u][j].at
               /\ BlockEnd(heap[u][j]) <= IF Holds(u) THEN brk_before[u] ELSE brk'
    <3>1. /\ HeapBase <= heap[u][j].at
          /\ BlockEnd(heap[u][j]) <= IF Holds(u) THEN brk_before[u] ELSE brk
      BY <2>1 DEF Placed
    <3> QED
      BY <2>2, <2>3, <3>1
  <2> QED
    BY <1>1, <1>2, <2>3, <2>5, <2>6 DEF Placed
<1> QED
  BY <1>3, <1>4, <1>5, <1>6, <1>7 DEF ThreadSafe

\* A step of one thread that leaves the break and every byte where it was.
LEMMA ThreadStep ==
  ASSUME SafeHeaps, NEW t \in Threads, Elsewhere(t), Types', ThreadSafe(t)',
         policy' = policy, brk' = brk, libc' = libc,
         \A u \in Threads \ {t} : sbrk_lock = u => sbrk_lock' = u,
         \A a \in Nat : Mine(t, a)' <=> Mine(t, a)
  PROVE  SafeHeaps'
<1>1. Types /\ \A u \in Threads : ThreadSafe(u)
  BY SafeParts
<1>2. brk \in Nat /\ HeapBase \in Nat
  BY <1>1, TypesOf
<1>3. ASSUME NEW u \in Threads \ {t}
      PROVE  ThreadSafe(u)' /\ \A a \in Nat : Mine(u, a)' <=> Mine(u, a)
  <2>1. /\ heap'[u] = heap[u] /\ owned'[u] = owned[u] /\ pc'[u] = pc[u]
        /\ call'[u] = call[u] /\ brk_before'[u] = brk_before[u]
    BY DEF Elsewhere
  <2>2. brk' \in Nat /\ brk <= brk'
    BY <1>2
  <2> QED
    BY <1>1, <2>1, <2>2, OtherSafe
<1>4. \A u \in Threads, a \in Nat : Mine(u, a)' <=> Mine(u, a)
  BY <1>3
<1>5. ASSUME NEW a \in HeapBase..(brk - 1)
      PROVE  OneOwner(a)'
  <2>1. OneOwner(a) /\ a \in Nat
    BY <1>2, SafeParts
  <2> QED
    BY <1>4, <2>1 DEF OneOwner
<1>6. \A u \in Threads : ThreadSafe(u)'
  BY <1>3
<1> QED
  BY <1>5, <1>6 DEF SafeHeaps, ThreadSafe

-----------------------------------------------------------------------------
(* The end of a call.                                                      *)

\* t is idle again, with the list g and the allocations o.
Returns(t, g, o) ==
  /\ heap' = [heap EXCEPT ![t] = g]
  /\ owned' = [owned EXCEPT ![t] = o]
  /\ pc' = [pc EXCEPT ![t] = "idle"]
  /\ \E c \in {NoCall, call[t]} : call' = [call EXCEPT ![t] = c]
  /\ \E b \in {NULL, brk_before[t]} : brk_before' = [brk_before EXCEPT ![t] = b]

\* g is what ff_free(p), or no call of it, makes of h.
Left(g, h, p) ==
  /\ GoodList(g) /\ SameBytes(g, h)
  /\ HDR % ALIGN = 0 /\ Even(h) => Even(g)
  /\ p # NULL => Merged(g)
  /\ \A a, s \in Nat : InUse(g, a, s) => InUse(h, a, s)

\* The allocations that are left.
Rest(o, p) == IF p = NULL THEN o ELSE Without(o, p)

\* Finish returns to the client, and never runs into the assertion of ff_free.
LEMMA Finishes ==
  ASSUME NEW t \in Threads, owned[t] \subseteq Allocations,
         NEW h, GoodList(h), NEW o, o \subseteq Allocations, Serves(h, o),
         NEW p, p # NULL => \E r \in owned[t] : r.ptr = p,
         NEW q, NEW asked,
         o = IF q = NULL THEN owned[t] ELSE With(owned[t], q, asked),
         q # NULL => \A r \in owned[t] : r.ptr # q,
         Finish(t, h, p, q, asked)
  PROVE  \E g : /\ Returns(t, g, Rest(o, p)) /\ Left(g, h, p)
                /\ Serves(g, Rest(o, p)) /\ Rest(o, p) \subseteq Allocations
<1>1. PICK e : e = [ptr |-> q, asked |-> asked]
  OBVIOUS
<1>2. e.ptr = q
  BY <1>1
<1>3. owned[t] \subseteq o
  BY DEF With
<1>4. \A r \in owned[t] : r.ptr # NULL
  BY AllocationFields
<1>5. {r \in owned[t] : r.ptr # p} \cup {r \in {[ptr |-> q, asked |-> asked]} : q # NULL}
        = Rest(o, p)
  <2>1. CASE q = NULL
    <3>1. {r \in {[ptr |-> q, asked |-> asked]} : q # NULL} = {}
      BY <2>1
    <3>2. {r \in owned[t] : r.ptr # p} = Rest(o, p)
      BY <1>4, <2>1 DEF Rest, Without
    <3> QED
      BY <3>1, <3>2
  <2>2. CASE q # NULL
    <3>1. {r \in {[ptr |-> q, asked |-> asked]} : q # NULL} = {e}
      BY <1>1, <2>2
    <3>2. o = owned[t] \cup {e}
      BY <1>1, <2>2 DEF With
    <3>3. e.ptr # p
      BY <1>2, <2>2
    <3>4. {r \in owned[t] : r.ptr # p} \cup {e} = Rest(o, p)
      BY <1>4, <3>2, <3>3 DEF Rest, Without
    <3> QED
      BY <3>1, <3>4
  <2> QED
    BY <2>1, <2>2
<1>6. Rest(o, p) \subseteq Allocations
  BY DEF Rest, Without
<1>7. CASE p = NULL
  <2>1. heap' = [heap EXCEPT ![t] = h] /\ pc' = [pc EXCEPT ![t] = "idle"]
    BY <1>7 DEF Finish, Goto
  <2>2. owned' = [owned EXCEPT ![t] = Rest(o, p)]
    BY <1>5, <1>7 DEF Finish
  <2>3. Returns(t, h, Rest(o, p))
    BY <2>1, <2>2 DEF Finish, Returns
  <2>4. Left(h, h, p)
    BY <1>7 DEF Left, SameBytes
  <2>5. Serves(h, Rest(o, p))
    BY <1>7 DEF Rest
  <2> QED
    BY <1>6, <2>3, <2>4, <2>5
<1>8. CASE p # NULL
  <2>1. PICK g : g = Release(h, p)
    OBVIOUS
  <2>2. PICK r \in o : r.ptr = p
    BY <1>3, <1>8
  <2>3. /\ ~h[IndexOf(h, data_to_block(p))].free
        /\ GoodList(g) /\ SameBytes(g, h) /\ Merged(g)
        /\ HDR % ALIGN = 0 /\ Even(h) => Even(g)
        /\ Serves(g, Without(o, p))
        /\ \A a, s \in Nat : InUse(g, a, s) => InUse(h, a, s)
    BY <2>1, <2>2, ReleaseServes
  <2>4. heap' = [heap EXCEPT ![t] = g] /\ pc' = [pc EXCEPT ![t] = "idle"]
    BY <1>8, <2>1, <2>3 DEF Finish, Goto
  <2>5. owned' = [owned EXCEPT ![t] = Rest(o, p)]
    BY <1>5, <1>8, <2>3 DEF Finish
  <2>6. Returns(t, g, Rest(o, p))
    BY <2>4, <2>5 DEF Finish, Returns
  <2>7. Left(g, h, p)
    BY <2>3 DEF Left
  <2>8. Serves(g, Rest(o, p))
    BY <1>8, <2>3 DEF Rest
  <2> QED
    BY <1>6, <2>6, <2>7, <2>8
<1> QED
  BY <1>7, <1>8

\* Everybody who moves the break moves it by multiples of ALIGN.
Uniform ==
  /\ HDR % ALIGN = 0
  /\ HeapBase % ALIGN = 0
  /\ \A k \in LibcSteps : k % ALIGN = 0

\* A call that returns keeps the invariant, when its list covers what t had
\* before the step.
LEMMA ReturnSafe ==
  ASSUME SafeHeaps, NEW t \in Threads, NEW g, NEW o,
         Returns(t, g, o), GoodList(g), Serves(g, o), o \subseteq Allocations,
         \A a \in Nat : Covers(g, a) <=> Mine(t, a),
         policy' = policy, brk' = brk, libc' = libc,
         thread_heap_start' \in [Threads -> Nat],
         sbrk_lock' \in Threads \cup {NoThread},
         \A u \in Threads \ {t} : sbrk_lock = u => sbrk_lock' = u
  PROVE  /\ SafeHeaps'
         /\ EvenHeaps /\ Even(g) => EvenHeaps'
<1>1. Types /\ \A u \in Threads : ThreadSafe(u)
  BY SafeParts
<1>3. g \in Seq(Block)
  BY DEF GoodList
<1>2. PICK c \in {NoCall, call[t]}, b \in {NULL, brk_before[t]} :
           call' = [call EXCEPT ![t] = c] /\ brk_before' = [brk_before EXCEPT ![t] = b]
  BY DEF Returns
<1>4. heap'[t] = g /\ owned'[t] = o /\ pc'[t] = "idle" /\ brk_before'[t] = b
  BY <1>1, <1>2 DEF Returns, Types
<1>5. Elsewhere(t)
  BY <1>1, <1>2 DEF Returns, Types, Elsewhere
<1>6. Types'
  <2>1. NoCall \in [asked : SizeT, size : SizeT, ptr : Nat]
    <3>1. 0 \in SizeT
      BY IntptrMaxAssumption DEF SizeT, SIZE_MAX
    <3> QED
      BY <3>1 DEF NoCall
  <2>2. heap' \in [Threads -> Seq(Block)]
    BY <1>1, <1>3 DEF Returns, Types
  <2>3. owned' \in [Threads -> SUBSET Allocations]
    BY <1>1 DEF Returns, Types
  <2>4. pc' \in [Threads -> PCs \ {"aborted"}]
    BY <1>1 DEF Returns, Types, PCs
  <2>5. call' \in [Threads -> [asked : SizeT, size : SizeT, ptr : Nat]]
    BY <1>1, <1>2, <2>1 DEF Types
  <2>6. brk_before' \in [Threads -> Nat]
    BY <1>1, <1>2 DEF Types
  <2>7. policy' \in Policies /\ brk' \in HeapBase..BrkLimit /\ libc' \subseteq HeapBase..(brk' - 1)
    BY <1>1 DEF Types
  <2> QED
    BY <2>2, <2>3, <2>4, <2>5, <2>6, <2>7 DEF Types
<1>7. ~Holds(t)'
  BY <1>4 DEF Holds
<1>8. \A a \in Nat : Mine(t, a)' <=> Mine(t, a)
  <2>1. \A a \in Nat : Covers(heap[t], a)' <=> Covers(g, a)
    BY <1>4 DEF Covers, BlockEnd
  <2> QED
    BY <1>7, <2>1 DEF Mine
<1>9. ThreadSafe(t)'
  <2>1. GoodList(heap[t])'
    BY <1>4 DEF GoodList, Ordered, Linked, BlockEnd, Back, Doubly
  <2>2. Serves(heap[t], owned[t])'
    BY <1>4 DEF Serves
  <2>3. Requesting(t)'
    BY <1>4 DEF Requesting
  <2>4. Placed(t)'
    <3>1. \A a \in Nat : Covers(g, a) => HeapBase <= a /\ a < brk
      <4>1. Placed(t)
        BY <1>1 DEF ThreadSafe
      <4> QED
        BY <1>1, <4>1, MineBelow
    <3>2. \A j \in 1..Len(g) : HeapBase <= g[j].at /\ BlockEnd(g[j]) <= brk
      <4>1. HeapBase \in Nat /\ brk \in Nat
        BY <1>1, TypesOf
      <4> QED
        BY <1>3, <3>1, <4>1, Bounds
    <3> QED
      BY <1>4, <1>7, <3>2 DEF Placed, BlockEnd
  <2> QED
    BY <2>1, <2>2, <2>3, <2>4 DEF ThreadSafe
<1>10. SafeHeaps'
  BY <1>5, <1>6, <1>8, <1>9, ThreadStep
<1>11. ASSUME EvenHeaps, Even(g)
       PROVE  EvenHeaps'
  <2>1. NULL % ALIGN = 0
    <3>1. \A m \in Nat \ {0} : 0 % m = 0
      OBVIOUS
    <3> QED
      BY <3>1, Sizes
  <2>2. b % ALIGN = 0
    BY <1>2, <1>11, <2>1 DEF EvenHeaps
  <2>3. ASSUME NEW u \in Threads
        PROVE  Even(heap[u])' /\ (brk_before[u] % ALIGN = 0)'
    <3>1. CASE u = t
      BY <1>4, <1>11, <2>2, <3>1 DEF Even
    <3>2. CASE u # t
      BY <1>5, <1>11, <3>2 DEF Elsewhere, EvenHeaps, Even
    <3> QED
      BY <3>1, <3>2
  <2> QED
    BY <1>11, <2>3 DEF EvenHeaps
<1> QED
  BY <1>10, <1>11

\* A step of one thread that moves to l, with the call c and the break b read.
Moves(t, l, c, b) ==
  /\ pc' = [pc EXCEPT ![t] = l]
  /\ call' = [call EXCEPT ![t] = c]
  /\ brk_before' = [brk_before EXCEPT ![t] = b]

\* Such a step keeps the invariant when it touches no memory.
LEMMA MoveSafe ==
  ASSUME SafeHeaps, NEW t \in Threads,
         UNCHANGED <<policy, brk, libc, heap, thread_heap_start, owned>>,
         NEW l \in PCs \ {"aborted"},
         NEW c \in [asked : SizeT, size : SizeT, ptr : Nat], NEW b \in Nat,
         Moves(t, l, c, b),
         sbrk_lock' \in Threads \cup {NoThread},
         \A u \in Threads \ {t} : sbrk_lock = u => sbrk_lock' = u,
         Requesting(t)', Holds(t)' <=> Holds(t),
         Holds(t) => b = brk_before[t] /\ c = call[t]
  PROVE  /\ SafeHeaps'
         /\ EvenHeaps /\ b % ALIGN = 0 => EvenHeaps'
<1>1. Types /\ \A u \in Threads : ThreadSafe(u)
  BY SafeParts
<1>2. pc'[t] = l /\ call'[t] = c /\ brk_before'[t] = b
  BY <1>1 DEF Moves, Types
<1>3. Elsewhere(t)
  BY <1>1 DEF Moves, Types, Elsewhere
<1>4. Types'
  <2>1. pc' \in [Threads -> PCs \ {"aborted"}]
    BY <1>1 DEF Moves, Types
  <2>2. call' \in [Threads -> [asked : SizeT, size : SizeT, ptr : Nat]]
    BY <1>1 DEF Moves, Types
  <2>3. brk_before' \in [Threads -> Nat]
    BY <1>1 DEF Moves, Types
  <2> QED
    BY <1>1, <2>1, <2>2, <2>3 DEF Types
<1>5. Holds(t) => HeldEnd(t)' = HeldEnd(t) /\ brk_before'[t] = brk_before[t]
  BY <1>2 DEF HeldEnd
<1>6. \A a \in Nat : Mine(t, a)' <=> Mine(t, a)
  BY <1>5 DEF Mine, Covers, BlockEnd
<1>7. ThreadSafe(t)'
  <2>1. GoodList(heap[t])'
    BY <1>1 DEF ThreadSafe, GoodList, Ordered, Linked, BlockEnd, Back, Doubly
  <2>2. Serves(heap[t], owned[t])'
    BY <1>1 DEF ThreadSafe, Serves
  <2>3. Placed(t)'
    <3>1. Placed(t)
      BY <1>1 DEF ThreadSafe
    <3>2. \A j \in 1..Len(heap[t]) : BlockEnd(heap[t][j])' = BlockEnd(heap[t][j])
      BY DEF BlockEnd
    <3> QED
      BY <1>5, <3>1, <3>2 DEF Placed
  <2> QED
    BY <2>1, <2>2, <2>3 DEF ThreadSafe
<1>8. SafeHeaps'
  BY <1>3, <1>4, <1>6, <1>7, ThreadStep
<1>9. ASSUME EvenHeaps, b % ALIGN = 0
      PROVE  EvenHeaps'
  BY <1>2, <1>3, <1>9 DEF EvenHeaps, Elsewhere, Even
<1> QED
  BY <1>8, <1>9

\* While t is in no call, what it has is its list.
LEMMA IdleMine ==
  ASSUME NEW t \in Threads, pc[t] = "idle"
  PROVE  \A a \in Nat : Covers(heap[t], a) <=> Mine(t, a)
BY DEF Mine, Holds

\* ff_malloc reuses the i-th block, and h is the list in between.
LEMMA AllocateReturns ==
  ASSUME SafeHeaps, NEW t \in Threads, NEW asked \in SizeT, NEW p \in Nat,
         p # NULL => \E r \in owned[t] : r.ptr = p,
         Allocate(t, asked, p),
         NEW n, n = ALIGN8(asked), NEW i, i = find_free_block(heap[t], n), i # 0,
         NEW q, q = heap[t][i].at + HDR, NEW o, o = With(owned[t], q, asked)
  PROVE  /\ i \in 1..Len(heap[t]) /\ q # NULL /\ \A r \in owned[t] : r.ptr # q
         /\ \E g, h : /\ Returns(t, g, Rest(o, p)) /\ Left(g, h, p)
                      /\ Serves(g, Rest(o, p)) /\ Rest(o, p) \subseteq Allocations
                      /\ SameBytes(h, heap[t]) /\ Taken(h, heap[t], i, n)
                      /\ Even(heap[t]) /\ HDR % ALIGN = 0 => Even(h)
<1>1. Types /\ ThreadSafe(t)
  BY SafeParts
<1>2. GoodList(heap[t]) /\ Serves(heap[t], owned[t])
  BY <1>1 DEF ThreadSafe
<1>3. /\ heap[t] \in Seq(Block) /\ owned[t] \subseteq Allocations
      /\ policy \in {"first", "best", "worst"}
  BY <1>1, TypesOf
<1>4. n \in Nat /\ Len(heap[t]) \in Nat
  BY <1>3, Rounded, Headers
<1>5. Best(policy, heap[t], n, Len(heap[t]), i)
  BY <1>3, <1>4, Found
<1>6. i \in 1..Len(heap[t]) /\ Fits(heap[t][i], n)
  BY <1>4, <1>5 DEF Best
<1>7. PICK h : h = Claim(heap[t], i, n)
  OBVIOUS
<1>8. /\ GoodList(h) /\ SameBytes(h, heap[t]) /\ Taken(h, heap[t], i, n)
      /\ Even(heap[t]) /\ HDR % ALIGN = 0 => Even(h)
      /\ Serves(h, o) /\ o \subseteq Allocations
      /\ q # NULL /\ \A r \in owned[t] : r.ptr # q
  BY <1>2, <1>3, <1>6, <1>7, ClaimServes
<1>9. Finish(t, h, p, q, asked)
  BY <1>7 DEF Allocate
<1>10. PICK g : /\ Returns(t, g, Rest(o, p)) /\ Left(g, h, p)
                /\ Serves(g, Rest(o, p)) /\ Rest(o, p) \subseteq Allocations
  BY <1>3, <1>8, <1>9, Finishes
<1> QED
  BY <1>6, <1>8, <1>10

\* ff_free returns.
LEMMA FreeReturns ==
  ASSUME SafeHeaps, NEW t \in Threads, NEW r \in owned[t], NEW p, p = r.ptr,
         ff_free(t, p), NEW o, o = owned[t]
  PROVE  \E g : /\ Returns(t, g, Rest(o, p)) /\ Left(g, heap[t], p)
                /\ Serves(g, Rest(o, p)) /\ Rest(o, p) \subseteq Allocations
<1>1. Types /\ ThreadSafe(t)
  BY SafeParts
<1>2. GoodList(heap[t]) /\ Serves(heap[t], owned[t])
  BY <1>1 DEF ThreadSafe
<1>3. owned[t] \subseteq Allocations
  BY <1>1, TypesOf
<1>4. Finish(t, heap[t], p, NULL, 0)
  BY DEF ff_free
<1>5. PICK h : h = heap[t]
  OBVIOUS
<1>6. PICK q : q = NULL
  OBVIOUS
<1>7. Finish(t, h, p, q, 0)
  BY <1>4, <1>5, <1>6
<1>8. o = IF q = NULL THEN owned[t] ELSE With(owned[t], q, 0)
  BY <1>6
<1>9. \E g : /\ Returns(t, g, Rest(o, p)) /\ Left(g, h, p)
             /\ Serves(g, Rest(o, p)) /\ Rest(o, p) \subseteq Allocations
  BY <1>2, <1>3, <1>5, <1>6, <1>7, <1>8, Finishes
<1> QED
  BY <1>5, <1>9

\* ff_realloc returns the pointer it was given.
LEMMA InPlaceReturns ==
  ASSUME SafeHeaps, NEW t \in Threads, pc[t] = "idle", NEW r \in owned[t],
         NEW p, p = r.ptr, NEW asked \in SizeT, ReallocInPlace(t, p, asked),
         NEW o, o = With(Without(owned[t], p), p, asked)
  PROVE  \E g : /\ Returns(t, g, o) /\ GoodList(g) /\ SameBytes(g, heap[t])
                /\ Even(heap[t]) /\ HDR % ALIGN = 0 => Even(g)
                /\ Serves(g, o) /\ o \subseteq Allocations
                /\ \A a, s \in Nat : InUse(g, a, s) => \E m \in Nat : InUse(heap[t], a, m)
<1>1. Types /\ ThreadSafe(t)
  BY SafeParts
<1>2. GoodList(heap[t]) /\ Serves(heap[t], owned[t])
  BY <1>1 DEF ThreadSafe
<1>3. owned[t] \subseteq Allocations
  BY <1>1, TypesOf
<1>4. PICK n : n = ALIGN8(asked)
  OBVIOUS
<1>5. PICK i : i = IndexOf(heap[t], data_to_block(p))
  OBVIOUS
<1>6. PICK g : g = split_block(heap[t], i, n)
  OBVIOUS
<1>7. n <= heap[t][i].size
  <2>1. heap[t][i].size >= n
    BY <1>4, <1>5 DEF ReallocInPlace
  <2>2. i \in 1..Len(heap[t])
    BY <1>2, <1>3, <1>5, AllocationPlace
  <2>3. heap[t][i].size \in Nat /\ n \in Nat
    BY <1>1, <1>4, <2>2, TypesOf, Headers, Rounded
  <2> QED
    BY <2>1, <2>3
<1>8. /\ GoodList(g) /\ SameBytes(g, heap[t])
      /\ Even(heap[t]) /\ HDR % ALIGN = 0 => Even(g)
      /\ Serves(g, o) /\ o \subseteq Allocations
      /\ \A a, s \in Nat : InUse(g, a, s) => \E m \in Nat : InUse(heap[t], a, m)
  BY <1>2, <1>3, <1>4, <1>5, <1>6, <1>7, SplitServes
<1>9. Returns(t, g, o)
  <2>1. heap' = [heap EXCEPT ![t] = g]
    BY <1>4, <1>5, <1>6 DEF ReallocInPlace
  <2>2. owned' = [owned EXCEPT ![t] = o]
    BY DEF ReallocInPlace, With, Without
  <2>3. UNCHANGED <<pc, call, brk_before>>
    BY DEF ReallocInPlace
  <2>4. /\ pc' = [pc EXCEPT ![t] = "idle"] /\ call' = [call EXCEPT ![t] = call[t]]
        /\ brk_before' = [brk_before EXCEPT ![t] = brk_before[t]]
    BY <1>1, <2>3 DEF Types
  <2> QED
    BY <2>1, <2>2, <2>4 DEF Returns
<1> QED
  BY <1>8, <1>9

\* ff_malloc, inside ff_realloc as well, keeps the invariant.
LEMMA AllocateSafe ==
  ASSUME SafeHeaps, NEW t \in Threads, pc[t] = "idle", NEW asked \in SizeT, NEW p \in Nat,
         p # NULL => \E r \in owned[t] : r.ptr = p,
         Allocate(t, asked, p), UNCHANGED <<policy, brk, libc, sbrk_lock, thread_heap_start>>
  PROVE  SafeHeaps' /\ (Uniform /\ EvenHeaps => EvenHeaps')
<1>1. Types /\ ThreadSafe(t)
  BY SafeParts
<1>2. GoodList(heap[t]) /\ Serves(heap[t], owned[t])
  BY <1>1 DEF ThreadSafe
<1>3. /\ heap[t] \in Seq(Block) /\ owned[t] \subseteq Allocations
      /\ policy \in {"first", "best", "worst"} /\ brk_before[t] \in Nat
  BY <1>1, TypesOf
<1>4. PICK n : n = ALIGN8(asked)
  OBVIOUS
<1>5. n \in Nat /\ n \in SizeT
  BY <1>4, Rounded
<1>6. PICK i : i = find_free_block(heap[t], n)
  OBVIOUS
<1>8. sbrk_lock' \in Threads \cup {NoThread} /\ thread_heap_start' \in [Threads -> Nat]
  BY <1>1 DEF Types
<1>9. CASE i # 0
  <2>1. PICK q : q = heap[t][i].at + HDR
    OBVIOUS
  <2>2. PICK o : o = With(owned[t], q, asked)
    OBVIOUS
  <2>3. PICK g, h : /\ Returns(t, g, Rest(o, p)) /\ Left(g, h, p)
                    /\ Serves(g, Rest(o, p)) /\ Rest(o, p) \subseteq Allocations
                    /\ SameBytes(h, heap[t]) /\ Taken(h, heap[t], i, n)
                    /\ Even(heap[t]) /\ HDR % ALIGN = 0 => Even(h)
    BY <1>4, <1>6, <1>9, <2>1, <2>2, AllocateReturns
  <2>4. \A a \in Nat : Covers(g, a) <=> Mine(t, a)
    BY <2>3, IdleMine DEF Left, SameBytes
  <2>5. GoodList(g)
    BY <2>3 DEF Left
  <2>6. SafeHeaps' /\ (EvenHeaps /\ Even(g) => EvenHeaps')
    BY <1>8, <2>3, <2>4, <2>5, ReturnSafe
  <2>7. Uniform /\ EvenHeaps => Even(g)
    BY <2>3 DEF Uniform, EvenHeaps, Left
  <2> QED
    BY <2>6, <2>7
<1>10. CASE i = 0
  <2>1. PICK c : c = [asked |-> asked, size |-> n, ptr |-> p]
    OBVIOUS
  <2>2. c \in [asked : SizeT, size : SizeT, ptr : Nat]
    BY <1>5, <2>1
  <2>3. /\ call' = [call EXCEPT ![t] = c] /\ pc' = [pc EXCEPT ![t] = "lock"]
        /\ heap' = heap /\ owned' = owned /\ brk_before' = brk_before
    BY <1>4, <1>6, <1>10, <2>1 DEF Allocate, Goto
  <2>4. PICK b \in Nat : b = brk_before[t]
    BY <1>3
  <2>5. Moves(t, "lock", c, b)
    BY <1>1, <2>3, <2>4 DEF Moves, Types
  <2>6. pc'[t] = "lock" /\ call'[t] = c
    BY <1>1, <2>3 DEF Types
  <2>7. Requesting(t)'
    BY <1>4, <2>1, <2>3, <2>6 DEF Requesting
  <2>8. ~Holds(t) /\ ~Holds(t)'
    BY <2>6 DEF Holds
  <2>9. "lock" \in PCs \ {"aborted"}
    BY DEF PCs
  <2>10. SafeHeaps' /\ (EvenHeaps /\ b % ALIGN = 0 => EvenHeaps')
    BY <1>8, <2>2, <2>3, <2>5, <2>7, <2>8, <2>9, MoveSafe
  <2>11. EvenHeaps => b % ALIGN = 0
    BY <2>4 DEF EvenHeaps
  <2> QED
    BY <2>10, <2>11
<1> QED
  BY <1>9, <1>10

\* ff_free keeps the invariant.
LEMMA FreeSafe ==
  ASSUME SafeHeaps, NEW t \in Threads, NEW r \in owned[t], ff_free(t, r.ptr)
  PROVE  SafeHeaps' /\ (Uniform /\ EvenHeaps => EvenHeaps')
<1>1. Types
  BY SafeParts
<1>2. PICK p, o : p = r.ptr /\ o = owned[t]
  OBVIOUS
<1>3. /\ pc[t] = "idle" /\ ff_free(t, p)
      /\ UNCHANGED <<policy, brk, libc, sbrk_lock, thread_heap_start>>
  BY <1>2 DEF ff_free
<1>4. PICK g : /\ Returns(t, g, Rest(o, p)) /\ Left(g, heap[t], p)
               /\ Serves(g, Rest(o, p)) /\ Rest(o, p) \subseteq Allocations
  BY <1>2, <1>3, FreeReturns
<1>5. \A a \in Nat : Covers(g, a) <=> Mine(t, a)
  BY <1>3, <1>4, IdleMine DEF Left, SameBytes
<1>6. GoodList(g)
  BY <1>4 DEF Left
<1>7. sbrk_lock' \in Threads \cup {NoThread} /\ thread_heap_start' \in [Threads -> Nat]
  BY <1>1, <1>3 DEF Types
<1>8. SafeHeaps' /\ (EvenHeaps /\ Even(g) => EvenHeaps')
  BY <1>3, <1>4, <1>5, <1>6, <1>7, ReturnSafe
<1>9. Uniform /\ EvenHeaps => Even(g)
  BY <1>4 DEF Uniform, EvenHeaps, Left
<1> QED
  BY <1>8, <1>9

\* ff_realloc in place keeps the invariant.
LEMMA InPlaceSafe ==
  ASSUME SafeHeaps, NEW t \in Threads, pc[t] = "idle", NEW r \in owned[t],
         NEW asked \in SizeT, ReallocInPlace(t, r.ptr, asked),
         UNCHANGED <<policy, brk, libc, sbrk_lock, thread_heap_start>>
  PROVE  SafeHeaps' /\ (Uniform /\ EvenHeaps => EvenHeaps')
<1>1. Types
  BY SafeParts
<1>2. PICK p : p = r.ptr
  OBVIOUS
<1>3. PICK o : o = With(Without(owned[t], p), p, asked)
  OBVIOUS
<1>4. ReallocInPlace(t, p, asked)
  BY <1>2
<1>5. PICK g : /\ Returns(t, g, o) /\ GoodList(g) /\ SameBytes(g, heap[t])
               /\ Even(heap[t]) /\ HDR % ALIGN = 0 => Even(g)
               /\ Serves(g, o) /\ o \subseteq Allocations
  BY <1>2, <1>3, <1>4, InPlaceReturns
<1>6. \A a \in Nat : Covers(g, a) <=> Mine(t, a)
  BY <1>5, IdleMine DEF SameBytes
<1>7. sbrk_lock' \in Threads \cup {NoThread} /\ thread_heap_start' \in [Threads -> Nat]
  BY <1>1 DEF Types
<1>8. SafeHeaps' /\ (EvenHeaps /\ Even(g) => EvenHeaps')
  BY <1>5, <1>6, <1>7, ReturnSafe
<1>9. Uniform /\ EvenHeaps => Even(g)
  BY <1>5 DEF Uniform, EvenHeaps
<1> QED
  BY <1>8, <1>9

\* pthread_mutex_lock.
LEMMA LockSafe ==
  ASSUME SafeHeaps, NEW t \in Threads, Lock(t)
  PROVE  SafeHeaps' /\ (EvenHeaps => EvenHeaps')
<1>1. Types /\ ThreadSafe(t)
  BY SafeParts
<1>2. /\ pc[t] = "lock" /\ sbrk_lock = NoThread /\ sbrk_lock' = t
      /\ pc' = [pc EXCEPT ![t] = "brk"]
      /\ UNCHANGED <<policy, brk, libc, heap, thread_heap_start, owned, call, brk_before>>
  BY DEF Lock, Acquire, Goto
<1>3. PICK c \in [asked : SizeT, size : SizeT, ptr : Nat] : c = call[t]
  BY <1>1 DEF Types
<1>4. PICK b \in Nat : b = brk_before[t]
  BY <1>1, TypesOf
<1>5. Moves(t, "brk", c, b)
  BY <1>1, <1>2, <1>3, <1>4 DEF Moves, Types
<1>6. pc'[t] = "brk"
  BY <1>1, <1>2 DEF Types
<1>7. Requesting(t)'
  BY <1>1, <1>2, <1>6 DEF ThreadSafe, Requesting
<1>8. ~Holds(t) /\ ~Holds(t)'
  BY <1>2, <1>6 DEF Holds
<1>9. "brk" \in PCs \ {"aborted"}
  BY DEF PCs
<1>10. /\ sbrk_lock' \in Threads \cup {NoThread}
       /\ \A u \in Threads \ {t} : sbrk_lock = u => sbrk_lock' = u
  BY <1>2, ThreadsAssumption
<1>11. SafeHeaps' /\ (EvenHeaps /\ b % ALIGN = 0 => EvenHeaps')
  BY <1>2, <1>5, <1>7, <1>8, <1>9, <1>10, MoveSafe
<1> QED
  BY <1>4, <1>11 DEF EvenHeaps

\* sbrk(0).
LEMMA ReadBreakSafe ==
  ASSUME SafeHeaps, NEW t \in Threads, ReadBreak(t)
  PROVE  SafeHeaps' /\ (EvenHeaps => EvenHeaps')
<1>1. Types /\ ThreadSafe(t)
  BY SafeParts
<1>2. /\ pc[t] = "brk"
      /\ brk_before' = [brk_before EXCEPT ![t] = brk]
      /\ pc' = [pc EXCEPT ![t] = "extend"]
      /\ UNCHANGED <<policy, brk, libc, sbrk_lock, heap, thread_heap_start, owned, call>>
  BY DEF ReadBreak, Goto
<1>3. PICK c \in [asked : SizeT, size : SizeT, ptr : Nat] : c = call[t]
  BY <1>1 DEF Types
<1>4. PICK b \in Nat : b = brk
  BY <1>1, TypesOf
<1>5. Moves(t, "extend", c, b)
  BY <1>1, <1>2, <1>3, <1>4 DEF Moves, Types
<1>6. pc'[t] = "extend" /\ brk_before'[t] = brk
  BY <1>1, <1>2 DEF Types
<1>7. Requesting(t)'
  BY <1>1, <1>2, <1>6 DEF ThreadSafe, Requesting
<1>8. ~Holds(t) /\ ~Holds(t)'
  BY <1>2, <1>6 DEF Holds
<1>9. "extend" \in PCs \ {"aborted"}
  BY DEF PCs
<1>10. sbrk_lock' \in Threads \cup {NoThread}
  BY <1>1, <1>2 DEF Types
<1>11. SafeHeaps' /\ (EvenHeaps /\ b % ALIGN = 0 => EvenHeaps')
  BY <1>2, <1>5, <1>7, <1>8, <1>9, <1>10, MoveSafe
<1> QED
  BY <1>4, <1>11 DEF EvenHeaps

\* sbrk() fails.
LEMMA RefusedSafe ==
  ASSUME SafeHeaps, NEW t \in Threads, ExtendRefused(t)
  PROVE  SafeHeaps' /\ (EvenHeaps => EvenHeaps')
<1>1. Types /\ ThreadSafe(t)
  BY SafeParts
<1>2. /\ pc[t] = "extend"
      /\ brk_before' = [brk_before EXCEPT ![t] = NULL]
      /\ pc' = [pc EXCEPT ![t] = "unlock"]
      /\ UNCHANGED <<policy, brk, libc, sbrk_lock, heap, thread_heap_start, owned, call>>
  BY DEF ExtendRefused, Goto
<1>3. PICK c \in [asked : SizeT, size : SizeT, ptr : Nat] : c = call[t]
  BY <1>1 DEF Types
<1>4. PICK b \in Nat : b = NULL
  OBVIOUS
<1>5. Moves(t, "unlock", c, b)
  BY <1>1, <1>2, <1>3, <1>4 DEF Moves, Types
<1>6. pc'[t] = "unlock" /\ brk_before'[t] = NULL
  BY <1>1, <1>2 DEF Types
<1>7. Requesting(t)'
  BY <1>1, <1>2, <1>6 DEF ThreadSafe, Requesting
<1>8. ~Holds(t) /\ ~Holds(t)'
  BY <1>2, <1>6 DEF Holds
<1>9. "unlock" \in PCs \ {"aborted"}
  BY DEF PCs
<1>10. sbrk_lock' \in Threads \cup {NoThread}
  BY <1>1, <1>2 DEF Types
<1>11. SafeHeaps' /\ (EvenHeaps /\ b % ALIGN = 0 => EvenHeaps')
  BY <1>2, <1>5, <1>7, <1>8, <1>9, <1>10, MoveSafe
<1>12. NULL % ALIGN = 0
  <2>1. \A m \in Nat \ {0} : 0 % m = 0
    OBVIOUS
  <2> QED
    BY <2>1, Sizes
<1> QED
  BY <1>4, <1>11, <1>12

\* pthread_mutex_unlock, and the return of NULL after a refusal.
LEMMA UnlockSafe ==
  ASSUME SafeHeaps, NEW t \in Threads, Unlock(t)
  PROVE  SafeHeaps' /\ (EvenHeaps => EvenHeaps')
<1>1. Types /\ ThreadSafe(t)
  BY SafeParts
<1>2. /\ pc[t] = "unlock" /\ sbrk_lock' = NoThread
      /\ UNCHANGED <<policy, brk, libc, thread_heap_start>>
  BY DEF Unlock
<1>3. /\ sbrk_lock' \in Threads \cup {NoThread} /\ thread_heap_start' \in [Threads -> Nat]
      /\ \A u \in Threads \ {t} : sbrk_lock = u => sbrk_lock' = u
  BY <1>1, <1>2, ThreadsAssumption DEF ThreadSafe, Requesting, Types
<1>4. GoodList(heap[t]) /\ Serves(heap[t], owned[t])
  BY <1>1 DEF ThreadSafe
<1>5. owned[t] \subseteq Allocations
  BY <1>1, TypesOf
<1>6. CASE brk_before[t] = NULL
  <2>1. PICK p : p = NULL
    OBVIOUS
  <2>2. Finish(t, heap[t], p, p, 0)
    BY <1>6, <2>1 DEF Unlock
  <2>3. PICK o : o = owned[t]
    OBVIOUS
  <2>4. PICK h : h = heap[t]
    OBVIOUS
  <2>5. PICK g : /\ Returns(t, g, Rest(o, p)) /\ Left(g, h, p)
                 /\ Serves(g, Rest(o, p)) /\ Rest(o, p) \subseteq Allocations
    <3>1. Finish(t, h, p, p, 0)
      BY <2>2, <2>4
    <3>2. o = IF p = NULL THEN owned[t] ELSE With(owned[t], p, 0)
      BY <2>1, <2>3
    <3>3. GoodList(h) /\ Serves(h, o) /\ o \subseteq Allocations
      BY <1>4, <1>5, <2>3, <2>4
    <3> QED
      BY <1>5, <2>1, <3>1, <3>2, <3>3, Finishes
  <2>6. \A a \in Nat : Covers(h, a) <=> Mine(t, a)
    BY <1>6, <2>4 DEF Mine, Holds
  <2>7. \A a \in Nat : Covers(g, a) <=> Mine(t, a)
    BY <2>5, <2>6 DEF Left, SameBytes
  <2>8. GoodList(g) /\ heap' = heap
    <3>1. heap' = [heap EXCEPT ![t] = heap[t]]
      BY <2>1, <2>2 DEF Finish, Goto
    <3> QED
      BY <1>1, <2>5, <3>1 DEF Left, Types
  <2>9. SafeHeaps' /\ (EvenHeaps /\ Even(g) => EvenHeaps')
    BY <1>2, <1>3, <2>5, <2>7, <2>8, ReturnSafe
  <2>10. g = heap[t]
    BY <1>1, <2>5, <2>8 DEF Returns, Types
  <2> QED
    BY <2>9, <2>10 DEF EvenHeaps
<1>7. CASE brk_before[t] # NULL
  <2>1. pc' = [pc EXCEPT ![t] = "link"] /\ UNCHANGED <<heap, owned, call, brk_before>>
    BY <1>7 DEF Unlock, Goto
  <2>2. PICK c \in [asked : SizeT, size : SizeT, ptr : Nat] : c = call[t]
    BY <1>1 DEF Types
  <2>3. PICK b \in Nat : b = brk_before[t]
    BY <1>1, TypesOf
  <2>4. Moves(t, "link", c, b)
    BY <1>1, <2>1, <2>2, <2>3 DEF Moves, Types
  <2>5. pc'[t] = "link"
    BY <1>1, <2>1 DEF Types
  <2>6. Requesting(t)'
    BY <1>1, <1>2, <1>7, <2>1, <2>5 DEF ThreadSafe, Requesting
  <2>7. Holds(t) /\ Holds(t)'
    BY <1>2, <1>7, <2>1, <2>5 DEF Holds
  <2>8. "link" \in PCs \ {"aborted"}
    BY DEF PCs
  <2>9. SafeHeaps' /\ (EvenHeaps /\ b % ALIGN = 0 => EvenHeaps')
    BY <1>2, <1>3, <2>1, <2>2, <2>3, <2>4, <2>6, <2>7, <2>8, MoveSafe
  <2> QED
    BY <2>3, <2>9 DEF EvenHeaps
<1> QED
  BY <1>6, <1>7

\* The call t is in: sbrk() returned b, p is to be freed, asked was asked for.
InCall(t, b, p, asked) ==
  b = brk_before[t] /\ p = call[t].ptr /\ asked = call[t].asked

\* request_space links the block at b; h is the list before ff_realloc frees p.
LEMMA LinkReturns ==
  ASSUME SafeHeaps, NEW t \in Threads, Link(t),
         NEW b, NEW p, NEW asked, InCall(t, b, p, asked),
         NEW q, q = b + HDR, NEW o, o = With(owned[t], q, asked)
  PROVE  /\ Holds(t) /\ \A j \in 1..Len(heap[t]) : BlockEnd(heap[t][j]) <= b
         /\ q # NULL /\ \A r \in owned[t] : r.ptr # q
         /\ \E g, h : /\ Returns(t, g, Rest(o, p)) /\ Left(g, h, p)
                      /\ Serves(g, Rest(o, p)) /\ Rest(o, p) \subseteq Allocations
                      /\ \A a \in Nat : Covers(h, a) <=> Mine(t, a)
                      /\ \A a, s \in Nat : InUse(h, a, s) => InUse(heap[t], a, s) \/ a = b
                      /\ Even(heap[t]) /\ b % ALIGN = 0 => Even(h)
<1>1. Types /\ ThreadSafe(t)
  BY SafeParts
<1>2. GoodList(heap[t]) /\ Serves(heap[t], owned[t]) /\ Requesting(t) /\ Placed(t)
  BY <1>1 DEF ThreadSafe
<1>3. /\ heap[t] \in Seq(Block) /\ owned[t] \subseteq Allocations /\ b \in Nat
      /\ p \in Nat /\ asked \in SizeT
  BY <1>1, TypesOf DEF InCall
<1>4. PICK n : n = ALIGN8(asked)
  OBVIOUS
<1>5. PICK h : h = AppendBlock(heap[t], b, n)
  OBVIOUS
<1>6. /\ pc[t] = "link" /\ b # NULL /\ n = call[t].size
      /\ p # NULL => \E r \in owned[t] : r.ptr = p
  BY <1>2, <1>4 DEF Link, Requesting, InCall
<1>7. Holds(t) /\ HeldEnd(t) = b + HDR + n
  BY <1>6 DEF Holds, HeldEnd, InCall
<1>8. \A j \in 1..Len(heap[t]) : BlockEnd(heap[t][j]) <= b
  BY <1>2, <1>7 DEF Placed, InCall
<1>9. /\ GoodList(h)
      /\ \A a \in Nat : Covers(h, a) <=> Covers(heap[t], a) \/ (b <= a /\ a < b + HDR + n)
      /\ \A a, s \in Nat : InUse(h, a, s) => InUse(heap[t], a, s) \/ a = b
      /\ Even(heap[t]) /\ b % ALIGN = 0 => Even(h)
      /\ Serves(h, o) /\ o \subseteq Allocations
      /\ q # NULL /\ \A r \in owned[t] : r.ptr # q
  <2>1. b \in Nat /\ asked \in SizeT /\ owned[t] \subseteq Allocations
    BY <1>3
  <2>2. GoodList(heap[t]) /\ Serves(heap[t], owned[t])
    BY <1>2
  <2> QED
    BY <1>4, <1>5, <1>8, <2>1, <2>2, AppendServes
<1>10. Finish(t, h, p, q, asked)
  BY <1>5, <1>6 DEF Link, InCall
<1>11. PICK g : /\ Returns(t, g, Rest(o, p)) /\ Left(g, h, p)
                /\ Serves(g, Rest(o, p)) /\ Rest(o, p) \subseteq Allocations
  <2>1. GoodList(h) /\ Serves(h, o) /\ o \subseteq Allocations
    BY <1>9
  <2>2. o = IF q = NULL THEN owned[t] ELSE With(owned[t], q, asked)
    BY <1>9
  <2>3. q # NULL => \A r \in owned[t] : r.ptr # q
    BY <1>9
  <2>4. owned[t] \subseteq Allocations /\ (p # NULL => \E r \in owned[t] : r.ptr = p)
    BY <1>3, <1>6
  <2> QED
    BY <1>10, <2>1, <2>2, <2>3, <2>4, Finishes
<1>12. \A a \in Nat : Covers(h, a) <=> Mine(t, a)
  BY <1>7, <1>9 DEF Mine, InCall
<1> QED
  BY <1>7, <1>8, <1>9, <1>11, <1>12

\* The header is written and linked, and ff_realloc frees the old block.
LEMMA LinkSafe ==
  ASSUME SafeHeaps, NEW t \in Threads, Link(t)
  PROVE  SafeHeaps' /\ (Uniform /\ EvenHeaps => EvenHeaps')
<1>1. Types
  BY SafeParts
<1>2. PICK b, p, asked : InCall(t, b, p, asked)
  BY DEF InCall
<1>3. PICK q : q = b + HDR
  OBVIOUS
<1>4. PICK o : o = With(owned[t], q, asked)
  OBVIOUS
<1>5. PICK g, h : /\ Returns(t, g, Rest(o, p)) /\ Left(g, h, p)
                  /\ Serves(g, Rest(o, p)) /\ Rest(o, p) \subseteq Allocations
                  /\ \A a \in Nat : Covers(h, a) <=> Mine(t, a)
                  /\ \A a, s \in Nat : InUse(h, a, s) => InUse(heap[t], a, s) \/ a = b
                  /\ Even(heap[t]) /\ b % ALIGN = 0 => Even(h)
  BY <1>2, <1>3, <1>4, LinkReturns
<1>6. /\ thread_heap_start' = [thread_heap_start EXCEPT ![t] = IF @ = NULL THEN b ELSE @]
      /\ UNCHANGED <<policy, brk, libc, sbrk_lock>>
  BY <1>2 DEF Link, InCall
<1>7. \A a \in Nat : Covers(g, a) <=> Mine(t, a)
  BY <1>5 DEF Left, SameBytes
<1>8. GoodList(g)
  BY <1>5 DEF Left
<1>9. sbrk_lock' \in Threads \cup {NoThread} /\ thread_heap_start' \in [Threads -> Nat]
  BY <1>1, <1>2, <1>6 DEF Types, InCall
<1>10. SafeHeaps' /\ (EvenHeaps /\ Even(g) => EvenHeaps')
  BY <1>5, <1>6, <1>7, <1>8, <1>9, ReturnSafe
<1>11. Uniform /\ EvenHeaps => Even(g)
  <2>1. Uniform /\ EvenHeaps => Even(h)
    BY <1>2, <1>5 DEF EvenHeaps, InCall
  <2> QED
    BY <1>5, <2>1 DEF Uniform, Left
<1> QED
  BY <1>10, <1>11

\* sbrk(sizeof(block_meta_t) + size).
LEMMA ExtendSafe ==
  ASSUME SafeHeaps, NEW t \in Threads, Extend(t)
  PROVE  SafeHeaps' /\ (Uniform /\ EvenHeaps => EvenHeaps')
<1>1. Types /\ \A u \in Threads : ThreadSafe(u)
  BY SafeParts
<1>2. GoodList(heap[t]) /\ Serves(heap[t], owned[t]) /\ Requesting(t) /\ Placed(t)
  BY <1>1 DEF ThreadSafe
<1>3. /\ brk \in Nat /\ HeapBase \in Nat /\ HeapBase <= brk /\ brk_before[t] \in Nat
      /\ call[t].size \in Nat /\ call[t].asked \in SizeT /\ HeapBase # 0
  BY <1>1, TypesOf
<1>4. PICK k \in Nat : k = HDR + call[t].size
  BY <1>3, Sizes
<1>5. /\ pc[t] = "extend" /\ brk' = brk + k /\ brk' <= BrkLimit
      /\ pc' = [pc EXCEPT ![t] = "unlock"]
      /\ UNCHANGED <<policy, libc, sbrk_lock, heap, thread_heap_start, owned, call, brk_before>>
  <2>1. Grown(t) = brk + k
    <3>1. PICK s \in Nat : s = call[t].size
      BY <1>3
    <3>2. brk + HDR + s = brk + (HDR + s)
      BY <1>3, Sizes
    <3> QED
      BY <1>4, <3>1, <3>2 DEF Grown
  <2> QED
    BY <2>1 DEF Extend, Goto
<1>6. brk_before[t] = brk /\ call[t].size = ALIGN8(call[t].asked)
  BY <1>2, <1>5 DEF Requesting
<1>7. pc'[t] = "unlock" /\ \A u \in Threads \ {t} : pc'[u] = pc[u]
  BY <1>1, <1>5 DEF Types
<1>8. Holds(t)' /\ HeldEnd(t)' = brk + k /\ ~Holds(t)
  <2>1. HeldEnd(t)' = brk + k
    <3>1. PICK s \in Nat : s = call[t].size
      BY <1>3
    <3>2. brk + HDR + s = brk + (HDR + s)
      BY <1>3, Sizes
    <3> QED
      BY <1>4, <1>5, <1>6, <3>1, <3>2 DEF HeldEnd
  <2> QED
    BY <1>3, <1>5, <1>6, <1>7, <2>1 DEF Holds
<1>9. Types'
  <2>1. pc' \in [Threads -> PCs \ {"aborted"}]
    BY <1>1, <1>5 DEF Types, PCs
  <2>2. brk' \in HeapBase..BrkLimit
    BY <1>3, <1>5, HeapAssumption
  <2>3. libc' \subseteq HeapBase..(brk' - 1)
    <3>1. \A a \in libc : a \in HeapBase..(brk - 1)
      BY <1>1 DEF Types
    <3>2. \A a \in HeapBase..(brk - 1) : a \in HeapBase..(brk' - 1)
      BY <1>3, <1>5
    <3> QED
      BY <1>5, <3>1, <3>2
  <2> QED
    BY <1>1, <1>5, <2>1, <2>2, <2>3 DEF Types
<1>10. ThreadSafe(t)'
  <2>1. GoodList(heap[t])'
    BY <1>2, <1>5 DEF GoodList, Ordered, Linked, BlockEnd, Back, Doubly
  <2>2. Serves(heap[t], owned[t])'
    BY <1>2, <1>5 DEF Serves
  <2>3. Requesting(t)'
    BY <1>2, <1>5, <1>7 DEF Requesting
  <2>4. Placed(t)'
    <3>1. \A j \in 1..Len(heap[t]) :
            HeapBase <= heap[t][j].at /\ BlockEnd(heap[t][j]) <= brk
      BY <1>2, <1>8 DEF Placed
    <3>2. \A j \in 1..Len(heap[t]) :
            HeapBase <= heap[t][j].at /\ BlockEnd(heap[t][j])' <= brk
      BY <1>5, <3>1 DEF BlockEnd
    <3>3. brk + k <= brk'
      BY <1>3, <1>5
    <3> QED
      BY <1>3, <1>5, <1>6, <1>8, <3>2, <3>3 DEF Placed
  <2> QED
    BY <2>1, <2>2, <2>3, <2>4 DEF ThreadSafe
<1>11. ASSUME NEW u \in Threads \ {t}
       PROVE  ThreadSafe(u)' /\ \A a \in Nat : Mine(u, a)' <=> Mine(u, a)
  <2>1. pc[u] # "extend"
    BY <1>1, <1>2, <1>5 DEF ThreadSafe, Requesting
  <2>2. brk' \in Nat /\ brk <= brk'
    BY <1>3, <1>5
  <2> QED
    BY <1>1, <1>5, <1>7, <2>1, <2>2, OtherSafe
<1>12. \A a \in Nat : Mine(t, a)' <=> Mine(t, a) \/ a \in brk..(brk + k - 1)
  <2>1. \A a \in Nat : Covers(heap[t], a)' <=> Covers(heap[t], a)
    BY <1>5 DEF Covers, BlockEnd
  <2>2. \A a \in Nat : brk <= a /\ a < brk + k <=> a \in brk..(brk + k - 1)
    BY <1>3
  <2> QED
    BY <1>5, <1>6, <1>8, <2>1, <2>2 DEF Mine
<1>13. \A u \in Threads, a \in Nat : Mine(u, a) => HeapBase <= a /\ a < brk
  BY <1>1, MineBelow DEF ThreadSafe
<1>14. ASSUME NEW a \in HeapBase..(brk' - 1)
       PROVE  OneOwner(a)'
  <2>1. a \in Nat /\ (a \in HeapBase..(brk - 1) \/ a \in brk..(brk + k - 1))
    BY <1>3, <1>5
  <2>2. CASE a \in HeapBase..(brk - 1)
    <3>1. OneOwner(a)
      BY <2>2, SafeParts
    <3>2. a \notin brk..(brk + k - 1)
      BY <1>3, <2>2
    <3>3. \A u \in Threads : Mine(u, a)' <=> Mine(u, a)
      BY <1>11, <1>12, <2>1, <3>2
    <3> QED
      BY <1>5, <3>1, <3>3 DEF OneOwner
  <2>3. CASE a \in brk..(brk + k - 1)
    <3>1. ~(a < brk)
      BY <1>3, <2>3
    <3>2. \A u \in Threads : Mine(u, a)' <=> u = t
      BY <1>11, <1>12, <1>13, <2>1, <2>3, <3>1
    <3>3. a \notin libc
      <4>1. \A c \in libc : c \in HeapBase..(brk - 1)
        BY <1>1 DEF Types
      <4>2. a \notin HeapBase..(brk - 1)
        BY <1>3, <2>3
      <4> QED
        BY <4>1, <4>2
    <3> QED
      BY <1>5, <3>2, <3>3 DEF OneOwner
  <2> QED
    BY <2>1, <2>2, <2>3
<1>15. SafeHeaps'
  <2>1. \A u \in Threads : ThreadSafe(u)'
    BY <1>10, <1>11
  <2> QED
    BY <1>9, <1>14, <2>1 DEF SafeHeaps, ThreadSafe
<1>16. ASSUME Uniform, EvenHeaps
       PROVE  EvenHeaps'
  <2>1. PICK s \in Nat : s = call[t].size
    BY <1>3
  <2>2. s % ALIGN = 0
    BY <1>3, <1>6, <2>1, Rounded
  <2>3. k % ALIGN = 0
    <3>1. HDR \in Nat /\ ALIGN \in Nat \ {0} /\ HDR % ALIGN = 0
      BY <1>16, Sizes DEF Uniform
    <3>2. (HDR + s) % ALIGN = 0
      BY <2>2, <3>1, MultiplesAdd
    <3> QED
      BY <1>4, <2>1, <3>2
  <2>4. (brk + k) % ALIGN = 0
    <3>1. brk % ALIGN = 0 /\ ALIGN \in Nat \ {0}
      BY <1>16, Sizes DEF EvenHeaps
    <3> QED
      BY <1>3, <2>3, <3>1, MultiplesAdd
  <2> QED
    BY <1>5, <1>16, <2>4 DEF EvenHeaps, Even
<1> QED
  BY <1>15, <1>16

\* libc's own sbrk().
LEMMA LibcSafe ==
  ASSUME SafeHeaps, LibcSbrk
  PROVE  SafeHeaps' /\ (Uniform /\ EvenHeaps => EvenHeaps')
<1>1. Types /\ \A u \in Threads : ThreadSafe(u)
  BY SafeParts
<1>2. /\ brk \in Nat /\ HeapBase \in Nat /\ HeapBase <= brk /\ BrkLimit \in Nat
      /\ libc \subseteq HeapBase..(brk - 1)
  BY <1>1, HeapAssumption DEF Types
<1>3. PICK k \in LibcSteps :
           /\ brk + k <= BrkLimit /\ brk' = brk + k /\ libc' = libc \cup brk..(brk + k - 1)
  BY DEF LibcSbrk
<1>4. k \in Nat /\ k # 0
  BY HeapAssumption
<1>5. /\ \A u \in Threads : pc[u] # "extend"
      /\ UNCHANGED <<policy, sbrk_lock, heap, thread_heap_start, owned, pc, call, brk_before>>
  BY DEF LibcSbrk
<1>6. Types'
  <2>1. brk' \in HeapBase..BrkLimit
    BY <1>2, <1>3, <1>4
  <2>2. libc' \subseteq HeapBase..(brk' - 1)
    <3>1. \A a \in HeapBase..(brk - 1) : a \in HeapBase..(brk' - 1)
      BY <1>2, <1>3, <1>4
    <3>2. \A a \in brk..(brk + k - 1) : a \in HeapBase..(brk' - 1)
      BY <1>2, <1>3, <1>4
    <3> QED
      BY <1>2, <1>3, <3>1, <3>2
  <2> QED
    BY <1>1, <1>5, <2>1, <2>2 DEF Types
<1>7. ASSUME NEW u \in Threads
      PROVE  ThreadSafe(u)' /\ \A a \in Nat : Mine(u, a)' <=> Mine(u, a)
  <2>1. brk' \in Nat /\ brk <= brk'
    BY <1>2, <1>3, <1>4
  <2> QED
    BY <1>1, <1>5, <2>1, OtherSafe
<1>8. \A u \in Threads, a \in Nat : Mine(u, a) => HeapBase <= a /\ a < brk
  BY <1>1, MineBelow DEF ThreadSafe
<1>9. ASSUME NEW a \in HeapBase..(brk' - 1)
      PROVE  OneOwner(a)'
  <2>1. a \in Nat /\ (a \in HeapBase..(brk - 1) \/ a \in brk..(brk + k - 1))
    BY <1>2, <1>3, <1>4
  <2>2. CASE a \in HeapBase..(brk - 1)
    <3>1. OneOwner(a)
      BY <2>2, SafeParts
    <3>2. a \notin brk..(brk + k - 1)
      BY <1>2, <2>2
    <3>3. a \in libc' <=> a \in libc
      BY <1>3, <3>2
    <3> QED
      BY <1>7, <2>1, <3>1, <3>3 DEF OneOwner
  <2>3. CASE a \in brk..(brk + k - 1)
    <3>1. ~(a < brk)
      BY <1>2, <2>3
    <3>2. \A u \in Threads : ~Mine(u, a)'
      BY <1>7, <1>8, <2>1, <3>1
    <3>3. a \in libc'
      BY <1>3, <2>3
    <3> QED
      BY <3>2, <3>3 DEF OneOwner
  <2> QED
    BY <2>1, <2>2, <2>3
<1>10. SafeHeaps'
  BY <1>6, <1>7, <1>9 DEF SafeHeaps, ThreadSafe
<1>11. ASSUME Uniform, EvenHeaps
       PROVE  EvenHeaps'
  <2>1. k % ALIGN = 0 /\ brk % ALIGN = 0 /\ ALIGN \in Nat \ {0}
    BY <1>11, Sizes DEF Uniform, EvenHeaps
  <2>2. (brk + k) % ALIGN = 0
    BY <1>2, <1>4, <2>1, MultiplesAdd
  <2> QED
    BY <1>3, <1>5, <1>11, <2>2 DEF EvenHeaps, Even
<1> QED
  BY <1>10, <1>11

-----------------------------------------------------------------------------
(* The invariant holds.                                                    *)

\* A call of ff_malloc or ff_calloc.
LEMMA MallocSafe ==
  ASSUME SafeHeaps, NEW t \in Threads, NEW asked \in SizeT, ff_malloc(t, asked)
  PROVE  SafeHeaps' /\ (Uniform /\ EvenHeaps => EvenHeaps')
<1>1. PICK p \in Nat : p = NULL
  OBVIOUS
<1>2. /\ pc[t] = "idle" /\ Allocate(t, asked, p)
      /\ UNCHANGED <<policy, brk, libc, sbrk_lock, thread_heap_start>>
  BY <1>1 DEF ff_malloc
<1> QED
  BY <1>1, <1>2, AllocateSafe

\* The product ff_calloc passes to ff_malloc is a size_t.
LEMMA CallocProduct ==
  ASSUME NEW n \in SizeT, NEW e \in SizeT, n # 0, e # 0, ~ProductOverflows(n, e)
  PROVE  n * e \in SizeT
<1>1. n \in Nat /\ e \in Nat \ {0}
  BY DEF SizeT
<1>2. n * e \in Nat
  BY ProductTyped
<1>3. ~(n * e > SIZE_MAX)
  BY <1>1, ProductExact
<1>4. PICK a : a = n * e
  OBVIOUS
<1>5. a \in SizeT
  <2>1. SIZE_MAX \in Nat
    BY IntptrMaxAssumption DEF SIZE_MAX
  <2>2. a \in Nat /\ ~(a > SIZE_MAX)
    BY <1>2, <1>3, <1>4
  <2> QED
    BY <2>1, <2>2 DEF SizeT
<1> QED
  BY <1>4, <1>5

\* ff_calloc keeps the invariant.
LEMMA CallocSafe ==
  ASSUME SafeHeaps, NEW t \in Threads, NEW n \in SizeT, NEW e \in SizeT, ff_calloc(t, n, e)
  PROVE  SafeHeaps' /\ (Uniform /\ EvenHeaps => EvenHeaps')
<1>1. n # 0 /\ e # 0 /\ ~ProductOverflows(n, e) /\ ff_malloc(t, n * e)
  BY DEF ff_calloc
<1>2. PICK a \in SizeT : a = n * e
  BY <1>1, CallocProduct
<1>3. ff_malloc(t, a)
  BY <1>1, <1>2
<1> QED
  BY <1>3, MallocSafe

\* A call of ff_realloc with a pointer and a size.
LEMMA ResizeSafe ==
  ASSUME SafeHeaps, NEW t \in Threads, NEW r \in owned[t], NEW asked \in SizeT,
         Resize(t, r.ptr, asked)
  PROVE  SafeHeaps' /\ (Uniform /\ EvenHeaps => EvenHeaps')
<1>1. /\ pc[t] = "idle"
      /\ ReallocInPlace(t, r.ptr, asked) \/ ReallocMove(t, r.ptr, asked)
      /\ UNCHANGED <<policy, brk, libc, sbrk_lock, thread_heap_start>>
  BY DEF Resize
<1>2. CASE ReallocInPlace(t, r.ptr, asked)
  BY <1>1, <1>2, InPlaceSafe
<1>3. CASE ReallocMove(t, r.ptr, asked)
  <2>1. r.ptr \in Nat
    <3>1. owned[t] \subseteq Allocations
      BY SafeParts, TypesOf
    <3> QED
      BY <3>1, AllocationFields
  <2>2. PICK p \in Nat : p = r.ptr
    BY <2>1
  <2>3. Allocate(t, asked, p)
    BY <1>3, <2>2 DEF ReallocMove
  <2> QED
    BY <1>1, <2>2, <2>3, AllocateSafe
<1> QED
  BY <1>1, <1>2, <1>3

\* A call of ff_realloc.
LEMMA ReallocSafe ==
  ASSUME SafeHeaps, NEW t \in Threads, NEW p \in {NULL} \cup {r.ptr : r \in owned[t]},
         NEW asked \in SizeT, ff_realloc(t, p, asked)
  PROVE  SafeHeaps' /\ (Uniform /\ EvenHeaps => EvenHeaps')
<1>1. CASE p = NULL /\ ff_malloc(t, asked)
  BY <1>1, MallocSafe
<1>2. CASE p # NULL /\ asked = 0 /\ ff_free(t, p)
  <2>1. PICK r \in owned[t] : p = r.ptr
    BY <1>2
  <2> QED
    BY <1>2, <2>1, FreeSafe
<1>3. CASE p # NULL /\ asked # 0 /\ Resize(t, p, asked)
  <2>1. PICK r \in owned[t] : p = r.ptr
    BY <1>3
  <2> QED
    BY <1>3, <2>1, ResizeSafe
<1> QED
  BY <1>1, <1>2, <1>3 DEF ff_realloc

\* Every call of a client.
LEMMA CallSafe ==
  ASSUME SafeHeaps, NEW t \in Threads, Call(t)
  PROVE  SafeHeaps' /\ (Uniform /\ EvenHeaps => EvenHeaps')
<1>1. ASSUME NEW asked \in Requests, ff_malloc(t, asked)
      PROVE  SafeHeaps' /\ (Uniform /\ EvenHeaps => EvenHeaps')
  BY <1>1, SizesAssumption, MallocSafe
<1>2. ASSUME NEW a \in CallocArgs, ff_calloc(t, a[1], a[2])
      PROVE  SafeHeaps' /\ (Uniform /\ EvenHeaps => EvenHeaps')
  <2>1. a[1] \in SizeT /\ a[2] \in SizeT
    BY SizesAssumption
  <2>2. PICK n \in SizeT, e \in SizeT : n = a[1] /\ e = a[2]
    BY <2>1
  <2> QED
    BY <1>2, <2>2, CallocSafe
<1>3. ASSUME NEW r \in owned[t], ff_free(t, r.ptr)
      PROVE  SafeHeaps' /\ (Uniform /\ EvenHeaps => EvenHeaps')
  BY <1>3, FreeSafe
<1>4. ASSUME NEW p \in {NULL} \cup {r.ptr : r \in owned[t]}, NEW asked \in Requests,
             ff_realloc(t, p, asked)
      PROVE  SafeHeaps' /\ (Uniform /\ EvenHeaps => EvenHeaps')
  <2>1. asked \in SizeT
    BY SizesAssumption
  <2> QED
    BY <1>4, <2>1, ReallocSafe
<1> QED
  BY <1>1, <1>2, <1>3, <1>4 DEF Call

\* Every step inside request_space.
LEMMA WorkSafe ==
  ASSUME SafeHeaps, NEW t \in Threads, Work(t)
  PROVE  SafeHeaps' /\ (Uniform /\ EvenHeaps => EvenHeaps')
BY LockSafe, ReadBreakSafe, ExtendSafe, RefusedSafe, UnlockSafe, LinkSafe DEF Work

\* The program starts without heaps.
LEMMA SafeInit ==
  ASSUME Init
  PROVE  SafeHeaps /\ (Uniform => EvenHeaps)
<1>1. Types
  <2>1. NoCall \in [asked : SizeT, size : SizeT, ptr : Nat]
    <3>1. 0 \in SizeT
      BY IntptrMaxAssumption DEF SizeT, SIZE_MAX
    <3> QED
      BY <3>1 DEF NoCall
  <2>2. /\ heap \in [Threads -> Seq(Block)] /\ owned \in [Threads -> SUBSET Allocations]
        /\ thread_heap_start \in [Threads -> Nat] /\ brk_before \in [Threads -> Nat]
    BY DEF Init
  <2>3. pc \in [Threads -> PCs \ {"aborted"}]
    BY DEF Init, PCs
  <2>4. call \in [Threads -> [asked : SizeT, size : SizeT, ptr : Nat]]
    BY <2>1 DEF Init
  <2>5. brk \in HeapBase..BrkLimit /\ libc \subseteq HeapBase..(brk - 1)
    BY HeapAssumption DEF Init
  <2> QED
    BY <2>2, <2>3, <2>4, <2>5 DEF Init, Types
<1>2. ASSUME NEW t \in Threads
      PROVE  /\ heap[t] = <<>> /\ owned[t] = {} /\ pc[t] = "idle" /\ brk_before[t] = NULL
             /\ GoodList(heap[t]) /\ Serves(heap[t], owned[t]) /\ Requesting(t) /\ Placed(t)
             /\ Even(heap[t])
  <2>1. heap[t] = <<>> /\ owned[t] = {} /\ pc[t] = "idle" /\ brk_before[t] = NULL
    BY DEF Init
  <2>2. <<>> \in Seq(Block) /\ 1..Len(<<>>) = {}
    OBVIOUS
  <2>3. GoodList(<<>>) /\ Serves(<<>>, {}) /\ Even(<<>>)
    BY <2>2 DEF GoodList, Ordered, Linked, Serves, Even
  <2>4. ~Holds(t)
    BY <2>1 DEF Holds
  <2>5. Placed(t)
    BY <2>1, <2>2, <2>4 DEF Placed
  <2>6. Requesting(t)
    BY <2>1 DEF Requesting
  <2> QED
    BY <2>1, <2>3, <2>5, <2>6
<1>3. HeapBase..(brk - 1) = {}
  BY HeapAssumption DEF Init
<1>4. SafeHeaps
  BY <1>1, <1>2, <1>3 DEF SafeHeaps
<1>5. ASSUME Uniform
      PROVE  EvenHeaps
  <2>1. NULL % ALIGN = 0
    <3>1. \A m \in Nat \ {0} : 0 % m = 0
      OBVIOUS
    <3> QED
      BY <3>1, Sizes
  <2>2. brk % ALIGN = 0
    BY <1>5 DEF Uniform, Init
  <2> QED
    BY <1>2, <2>1, <2>2 DEF EvenHeaps
<1> QED
  BY <1>4, <1>5

\* A step that changes nothing.
LEMMA SafeStutter ==
  ASSUME SafeHeaps, UNCHANGED vars
  PROVE  SafeHeaps' /\ (EvenHeaps => EvenHeaps')
<1>1. UNCHANGED <<policy, brk, libc, sbrk_lock, heap, thread_heap_start, owned, pc, call,
                  brk_before>>
  BY DEF vars
<1>2. Types /\ \A u \in Threads : ThreadSafe(u)
  BY SafeParts
<1>3. ASSUME NEW u \in Threads
      PROVE  ThreadSafe(u)' /\ \A a \in Nat : Mine(u, a)' <=> Mine(u, a)
  <2>1. brk' \in Nat /\ brk <= brk'
    BY <1>1, <1>2, TypesOf
  <2> QED
    BY <1>1, <1>2, <2>1, OtherSafe
<1>4. Types'
  BY <1>1, <1>2 DEF Types
<1>5. ASSUME NEW a \in HeapBase..(brk - 1)
      PROVE  OneOwner(a)'
  <2>1. OneOwner(a)
    BY SafeParts
  <2>2. a \in Nat
    <3>1. brk \in Nat /\ HeapBase \in Nat
      BY <1>2, HeapAssumption DEF Types
    <3> QED
      BY <3>1
  <2> QED
    BY <1>1, <1>3, <2>1, <2>2 DEF OneOwner
<1>6. SafeHeaps'
  BY <1>1, <1>3, <1>4, <1>5 DEF SafeHeaps, ThreadSafe
<1>7. EvenHeaps => EvenHeaps'
  BY <1>1 DEF EvenHeaps, Even
<1> QED
  BY <1>6, <1>7

\* Every step.
LEMMA SafeNext ==
  ASSUME SafeHeaps, [Next]_vars
  PROVE  SafeHeaps' /\ (Uniform /\ EvenHeaps => EvenHeaps')
<1>1. ASSUME NEW t \in Threads, Call(t) \/ Work(t)
      PROVE  SafeHeaps' /\ (Uniform /\ EvenHeaps => EvenHeaps')
  BY <1>1, CallSafe, WorkSafe
<1>2. CASE LibcSbrk
  BY <1>2, LibcSafe
<1>3. CASE UNCHANGED vars
  BY <1>3, SafeStutter
<1> QED
  BY <1>1, <1>2, <1>3 DEF Next

(* The heaps stay sound, whatever the interleaving of the threads and of   *)
(* libc, whatever sbrk() refuses and whatever the threads ask for.         *)
THEOREM HeapsSafe == Spec => []SafeHeaps
<1>1. Init => SafeHeaps
  BY SafeInit
<1>2. SafeHeaps /\ [Next]_vars => SafeHeaps'
  BY SafeNext
<1> QED
  BY <1>1, <1>2, PTL DEF Spec

(* Headers and payloads stay at multiples of ALIGN, if the headers are     *)
(* multiples and libc moves the break by multiples.                        *)
THEOREM HeapsEven ==
  ASSUME Uniform
  PROVE  Spec => []EvenHeaps
<1>1. Init => SafeHeaps /\ EvenHeaps
  BY SafeInit
<1>2. SafeHeaps /\ EvenHeaps /\ [Next]_vars => SafeHeaps' /\ EvenHeaps'
  BY SafeNext
<1> QED
  BY <1>1, <1>2, PTL DEF Spec

-----------------------------------------------------------------------------
(* What the invariant says in the terms of ThreadHeapProps.                *)

(* The assertion of ff_free never fails, in any interleaving: no step      *)
(* leads to its failure, for what a thread frees is a block in use of its  *)
(* own list.                                                               *)
THEOREM AssertionNeverFails == Spec => []AssertHolds
<1>1. SafeHeaps => AssertHolds
  BY DEF SafeHeaps, Types, AssertHolds
<1> QED
  BY <1>1, HeapsSafe, PTL

(* However the splits, merges and appends of the threads interleave, every *)
(* list is in address order and prev is the inverse of next.               *)
THEOREM ListsStayLinked == Spec => []ListsLinked
<1>1. SafeHeaps => ListsLinked
  <2> SUFFICES ASSUME SafeHeaps, NEW t \in Threads, NEW i \in DOMAIN heap[t]
               PROVE  /\ i > 1 => BlockEnd(heap[t][i - 1]) <= heap[t][i].at
                      /\ heap[t][i].prev
                           = IF Doubly /\ i > 1 THEN heap[t][i - 1].at ELSE NULL
    BY DEF ListsLinked
  <2>1. GoodList(heap[t])
    BY DEF SafeHeaps
  <2>2. i \in 1..Len(heap[t]) /\ Len(heap[t]) \in Nat
    BY <2>1, Headers DEF GoodList
  <2>3. i > 1 => i - 1 \in 1..Len(heap[t]) /\ i - 1 < i
    BY <2>2
  <2>4. i > 1 => BlockEnd(heap[t][i - 1]) <= heap[t][i].at
    BY <2>1, <2>2, <2>3 DEF GoodList, Ordered
  <2>5. heap[t][i].prev = IF i > 1 THEN Back(heap[t][i - 1].at) ELSE NULL
    BY <2>1, <2>2 DEF GoodList, Linked
  <2> QED
    BY <2>4, <2>5 DEF Back
<1> QED
  BY <1>1, HeapsSafe, PTL

(* Every pointer a client gets is a multiple of ALIGN, as long as everybody *)
(* who moves the break moves it by multiples: no split, merge or append    *)
(* makes an odd one.                                                       *)
THEOREM PointersAligned ==
  ASSUME Uniform
  PROVE  Spec => []Aligned
<1>1. SafeHeaps /\ EvenHeaps => Aligned
  <2> SUFFICES ASSUME SafeHeaps, EvenHeaps, NEW t \in Threads, NEW r \in owned[t]
               PROVE  r.ptr % ALIGN = 0
    BY DEF Aligned
  <2>1. GoodList(heap[t]) /\ Serves(heap[t], owned[t])
    BY DEF SafeHeaps
  <2>2. PICK j \in 1..Len(heap[t]) : r.ptr = heap[t][j].at + HDR
    BY <2>1 DEF Serves
  <2>3. heap[t][j].at % ALIGN = 0
    BY DEF EvenHeaps, Even
  <2>4. PICK b \in Nat : b = heap[t][j].at
    BY <2>1, Headers DEF GoodList
  <2>5. HDR \in Nat /\ ALIGN \in Nat \ {0} /\ HDR % ALIGN = 0
    BY Sizes DEF Uniform
  <2>6. (b + HDR) % ALIGN = 0
    BY <2>3, <2>4, <2>5, MultiplesAdd
  <2> QED
    BY <2>2, <2>4, <2>6
<1> QED
  BY <1>1, HeapsSafe, HeapsEven, PTL

-----------------------------------------------------------------------------
(* Every byte has one owner.                                               *)

\* The stretches of memory a thread regards as its own.
Region(r, t) ==
  \/ Holds(t) /\ r = [thread |-> t, from |-> brk_before[t], to |-> HeldEnd(t)]
  \/ \E j \in 1..Len(heap[t]) :
       r = [thread |-> t, from |-> heap[t][j].at, to |-> BlockEnd(heap[t][j])]

\* Regions, thread by thread and block by block.
LEMMA RegionsAre ==
  ASSUME Types
  PROVE  \A r : r \in Regions <=> \E t \in Threads : Region(r, t)
<1>1. ASSUME NEW t \in Threads, NEW r
      PROVE  r \in Reserved(t) \cup {[thread |-> t, from |-> m.at, to |-> BlockEnd(m)] :
                                       m \in Range(heap[t])}
               <=> Region(r, t)
  <2>1. heap[t] \in Seq(Block)
    BY TypesOf
  <2>2. Range(heap[t]) = {heap[t][j] : j \in 1..Len(heap[t])}
    BY <2>1, Headers DEF Range
  <2>3. r \in Reserved(t)
          <=> Holds(t) /\ r = [thread |-> t, from |-> brk_before[t], to |-> HeldEnd(t)]
    BY DEF Reserved, Holds, HeldEnd
  <2>4. r \in {[thread |-> t, from |-> m.at, to |-> BlockEnd(m)] : m \in Range(heap[t])}
          <=> \E j \in 1..Len(heap[t]) :
                r = [thread |-> t, from |-> heap[t][j].at, to |-> BlockEnd(heap[t][j])]
    BY <2>2
  <2> QED
    BY <2>3, <2>4 DEF Region
<1> QED
  BY <1>1 DEF Regions

\* A stretch covers bytes of its thread, and lies below the break.
LEMMA StretchMine ==
  ASSUME SafeHeaps, NEW t \in Threads, NEW r, Region(r, t)
  PROVE  /\ r.thread = t /\ r.to <= brk
         /\ \A a \in Nat : r.from <= a /\ a < r.to => Mine(t, a)
<1>1. Types /\ GoodList(heap[t]) /\ Placed(t)
  BY DEF SafeHeaps
<1>2. /\ heap[t] \in Seq(Block) /\ brk_before[t] \in Nat /\ call[t].size \in Nat /\ brk \in Nat
  BY <1>1, TypesOf
<1>3. HeldEnd(t) \in Nat /\ brk_before[t] <= HeldEnd(t)
  <2>1. PICK b \in Nat, s \in Nat : b = brk_before[t] /\ s = call[t].size
    BY <1>2
  <2>2. b + HDR + s \in Nat /\ b <= b + HDR + s
    BY Sizes
  <2>3. HeldEnd(t) = b + HDR + s
    BY <2>1 DEF HeldEnd
  <2> QED
    BY <2>1, <2>2, <2>3
<1>4. CASE Holds(t) /\ r = [thread |-> t, from |-> brk_before[t], to |-> HeldEnd(t)]
  <2>1. r.thread = t /\ r.from = brk_before[t] /\ r.to = HeldEnd(t)
    BY <1>4
  <2>2. HeldEnd(t) <= brk
    BY <1>1, <1>4 DEF Placed
  <2> QED
    BY <1>4, <2>1, <2>2 DEF Mine
<1>5. ASSUME NEW j \in 1..Len(heap[t]),
             r = [thread |-> t, from |-> heap[t][j].at, to |-> BlockEnd(heap[t][j])]
      PROVE  /\ r.thread = t /\ r.to <= brk
             /\ \A a \in Nat : r.from <= a /\ a < r.to => Mine(t, a)
  <2>1. r.thread = t /\ r.from = heap[t][j].at /\ r.to = BlockEnd(heap[t][j])
    BY <1>5
  <2>2. BlockEnd(heap[t][j]) \in Nat
    BY <1>2, Ends
  <2>3. BlockEnd(heap[t][j]) <= IF Holds(t) THEN brk_before[t] ELSE brk
    BY <1>1 DEF Placed
  <2>4. Holds(t) => HeldEnd(t) <= brk
    BY <1>1 DEF Placed
  <2>5. BlockEnd(heap[t][j]) <= brk
    BY <1>2, <1>3, <2>2, <2>3, <2>4
  <2>6. ASSUME NEW a \in Nat, r.from <= a, a < r.to
        PROVE  Mine(t, a)
    BY <2>1, <2>6 DEF Mine, Covers
  <2> QED
    BY <2>1, <2>5, <2>6
<1> QED
  BY <1>4, <1>5 DEF Region

\* Two stretches of one thread that share a byte are one.
LEMMA StretchesApart ==
  ASSUME SafeHeaps, NEW t \in Threads, NEW r, Region(r, t), NEW q, Region(q, t),
         NEW a \in Nat, r.from <= a, a < r.to, q.from <= a, a < q.to
  PROVE  r = q
<1>1. Types /\ GoodList(heap[t]) /\ Placed(t)
  BY DEF SafeHeaps
<1>2. heap[t] \in Seq(Block) /\ Ordered(heap[t]) /\ brk_before[t] \in Nat
  BY <1>1 DEF GoodList, Types
<1>3. ASSUME NEW j \in 1..Len(heap[t]), Holds(t), a < BlockEnd(heap[t][j]), brk_before[t] <= a
      PROVE  FALSE
  <2>1. BlockEnd(heap[t][j]) <= brk_before[t]
    BY <1>1, <1>3 DEF Placed
  <2>2. BlockEnd(heap[t][j]) \in Nat
    BY <1>2, Ends
  <2> QED
    BY <1>2, <1>3, <2>1, <2>2
<1>4. ASSUME NEW j \in 1..Len(heap[t]), NEW k \in 1..Len(heap[t]),
             heap[t][j].at <= a, a < BlockEnd(heap[t][j]),
             heap[t][k].at <= a, a < BlockEnd(heap[t][k])
      PROVE  j = k
  BY <1>2, <1>4, Apart
<1>5. /\ \/ Holds(t) /\ r = [thread |-> t, from |-> brk_before[t], to |-> HeldEnd(t)]
         \/ \E j \in 1..Len(heap[t]) :
              r = [thread |-> t, from |-> heap[t][j].at, to |-> BlockEnd(heap[t][j])]
      /\ \/ Holds(t) /\ q = [thread |-> t, from |-> brk_before[t], to |-> HeldEnd(t)]
         \/ \E j \in 1..Len(heap[t]) :
              q = [thread |-> t, from |-> heap[t][j].at, to |-> BlockEnd(heap[t][j])]
  BY DEF Region
<1> QED
  BY <1>3, <1>4, <1>5

\* A thread that has a byte has a stretch with it.
LEMMA MineStretch ==
  ASSUME NEW t \in Threads, NEW a \in Nat, Mine(t, a)
  PROVE  \E r : Region(r, t) /\ r.from <= a /\ a < r.to
<1>1. CASE Covers(heap[t], a)
  <2>1. PICK j \in 1..Len(heap[t]) : heap[t][j].at <= a /\ a < BlockEnd(heap[t][j])
    BY <1>1 DEF Covers
  <2>2. PICK r : r = [thread |-> t, from |-> heap[t][j].at, to |-> BlockEnd(heap[t][j])]
    OBVIOUS
  <2>3. r.from = heap[t][j].at /\ r.to = BlockEnd(heap[t][j])
    BY <2>2
  <2> QED
    BY <2>1, <2>2, <2>3 DEF Region
<1>2. CASE Holds(t) /\ brk_before[t] <= a /\ a < HeldEnd(t)
  <2>1. PICK r : r = [thread |-> t, from |-> brk_before[t], to |-> HeldEnd(t)]
    OBVIOUS
  <2>2. r.from = brk_before[t] /\ r.to = HeldEnd(t)
    BY <2>1
  <2> QED
    BY <1>2, <2>1, <2>2 DEF Region
<1> QED
  BY <1>1, <1>2 DEF Mine

(* Every byte between the first break and the present one is libc's, or    *)
(* belongs to exactly one block of one thread: sbrk() under sbrk_lock never *)
(* hands out a byte twice, and no list operation loses or doubles one.     *)
THEOREM BytesTiled == Spec => []HeapTiled
<1>1. SafeHeaps => HeapTiled
  <2> SUFFICES ASSUME SafeHeaps PROVE HeapTiled
    OBVIOUS
  <2>1. Types /\ \A a \in HeapBase..(brk - 1) : OneOwner(a)
    BY DEF SafeHeaps
  <2>2. \A r : r \in Regions <=> \E t \in Threads : Region(r, t)
    BY <2>1, RegionsAre
  <2>3. \A r \in Regions : r.to <= brk
    BY <2>2, StretchMine
  <2>4. ASSUME NEW a \in HeapBase..(brk - 1)
        PROVE  Cardinality({r \in Regions : r.from <= a /\ a < r.to})
                 = IF a \in libc THEN 0 ELSE 1
    <3>1. a \in Nat
      <4>1. brk \in Nat /\ HeapBase \in Nat
        BY <2>1, HeapAssumption DEF Types
      <4> QED
        BY <4>1
    <3>2. PICK S : S = {r \in Regions : r.from <= a /\ a < r.to}
      OBVIOUS
    <3>3. /\ \A t, u \in Threads : Mine(t, a) /\ Mine(u, a) => t = u
          /\ a \in libc <=> \A t \in Threads : ~Mine(t, a)
      BY <2>1 DEF OneOwner
    <3>4. CASE a \in libc
      <4>1. S = {}
        BY <2>2, <3>1, <3>2, <3>3, <3>4, StretchMine
      <4> QED
        BY <3>2, <3>4, <4>1, FS_EmptySet
    <3>5. CASE a \notin libc
      <4>1. PICK t \in Threads : Mine(t, a)
        BY <3>3, <3>5
      <4>2. PICK r : Region(r, t) /\ r.from <= a /\ a < r.to
        BY <3>1, <4>1, MineStretch
      <4>3. r \in S
        BY <2>2, <3>2, <4>2
      <4>4. ASSUME NEW q \in S
            PROVE  q = r
        <5>1. PICK u \in Threads : Region(q, u)
          BY <2>2, <3>2
        <5>2. q.from <= a /\ a < q.to
          BY <3>2
        <5>3. Mine(u, a)
          BY <3>1, <5>1, <5>2, StretchMine
        <5>4. u = t
          BY <3>3, <4>1, <5>3
        <5> QED
          BY <3>1, <4>2, <5>1, <5>2, <5>4, StretchesApart
      <4>5. S = {r}
        BY <4>3, <4>4
      <4> QED
        BY <3>2, <3>5, <4>5, FS_Singleton
    <3> QED
      BY <3>4, <3>5
  <2> QED
    BY <2>3, <2>4 DEF HeapTiled
<1> QED
  BY <1>1, HeapsSafe, PTL

-----------------------------------------------------------------------------
(* Every allocation has the bytes it was asked for.                        *)

\* ALIGN8 does not cut x down: the sum it rounds fits in an unsigned int.
Fitting(x) == x + (ALIGN - 1) <= UINT_MAX

\* What clients ask for is like that.
AllFit ==
  /\ \A asked \in Requests : Fitting(asked)
  /\ \A a \in CallocArgs : ~ProductOverflows(a[1], a[2]) => Fitting(a[1] * a[2])

\* What they have asked for is like that.
AskedFit ==
  \A t \in Threads : /\ \A r \in owned[t] : Fitting(r.asked)
                     /\ pc[t] \notin {"idle", "aborted"} => Fitting(call[t].asked)

\* The end of a call keeps this.
LEMMA FitFinish ==
  ASSUME Types, AskedFit, NEW t \in Threads, NEW h, NEW p, NEW q, NEW asked,
         q # NULL => Fitting(asked), Finish(t, h, p, q, asked)
  PROVE  AskedFit'
<1>1. /\ \/ pc' = [pc EXCEPT ![t] = "idle"]
         \/ pc' = [pc EXCEPT ![t] = "aborted"]
      /\ call' = [call EXCEPT ![t] = NoCall]
      /\ \/ owned' = owned
         \/ owned' = [owned EXCEPT ![t] =
                        {r \in @ : r.ptr # p}
                          \cup {r \in {[ptr |-> q, asked |-> asked]} : q # NULL}]
  BY DEF Finish, Goto
<1>2. PICK e : e = [ptr |-> q, asked |-> asked]
  OBVIOUS
<1>3. e.asked = asked
  BY <1>2
<1>4. ASSUME NEW r \in owned'[t]
      PROVE  Fitting(r.asked)
  <2>1. r \in owned[t] \/ (q # NULL /\ r = e)
    BY <1>1, <1>2 DEF Types
  <2> QED
    BY <1>3, <2>1 DEF AskedFit
<1>5. pc'[t] \in {"idle", "aborted"}
  BY <1>1 DEF Types
<1>6. \A u \in Threads \ {t} : pc'[u] = pc[u] /\ call'[u] = call[u] /\ owned'[u] = owned[u]
  BY <1>1 DEF Types
<1> QED
  BY <1>4, <1>5, <1>6 DEF AskedFit, Fitting

\* A step of t that is no end of a call keeps it, if the size t is after fits.
LEMMA FitMove ==
  ASSUME Types, AskedFit, NEW t \in Threads, owned' = owned,
         \A u \in Threads \ {t} : pc'[u] = pc[u] /\ call'[u] = call[u],
         Fitting(call'[t].asked)
  PROVE  AskedFit'
BY DEF AskedFit, Fitting

\* ff_malloc keeps it.
LEMMA FitAllocate ==
  ASSUME Types, AskedFit, NEW t \in Threads, NEW asked, NEW p, Fitting(asked),
         Allocate(t, asked, p)
  PROVE  AskedFit'
<1>1. PICK i, n : i = find_free_block(heap[t], n) /\ n = ALIGN8(asked)
  OBVIOUS
<1>2. CASE i # 0
  <2>1. PICK h, q : h = Claim(heap[t], i, n) /\ q = heap[t][i].at + HDR
    OBVIOUS
  <2>2. Finish(t, h, p, q, asked)
    BY <1>1, <1>2, <2>1 DEF Allocate
  <2> QED
    BY <2>2, FitFinish
<1>3. CASE i = 0
  <2>1. /\ call' = [call EXCEPT ![t] = [asked |-> asked, size |-> n, ptr |-> p]]
        /\ pc' = [pc EXCEPT ![t] = "lock"] /\ owned' = owned
    BY <1>1, <1>3 DEF Allocate, Goto
  <2>2. call'[t].asked = asked
    BY <2>1 DEF Types
  <2>3. \A u \in Threads \ {t} : pc'[u] = pc[u] /\ call'[u] = call[u]
    BY <2>1 DEF Types
  <2> QED
    BY <2>1, <2>2, <2>3, FitMove
<1> QED
  BY <1>2, <1>3

\* ff_realloc in place keeps it.
LEMMA FitInPlace ==
  ASSUME Types, AskedFit, NEW t \in Threads, NEW p, NEW asked, Fitting(asked),
         ReallocInPlace(t, p, asked)
  PROVE  AskedFit'
<1>1. PICK e : e = [ptr |-> p, asked |-> asked]
  OBVIOUS
<1>2. /\ owned' = [owned EXCEPT ![t] = {r \in @ : r.ptr # p} \cup {e}]
      /\ pc' = pc /\ call' = call
  BY <1>1 DEF ReallocInPlace
<1>3. e.asked = asked
  BY <1>1
<1>4. ASSUME NEW r \in owned'[t]
      PROVE  Fitting(r.asked)
  <2>1. r \in owned[t] \/ r = e
    BY <1>2 DEF Types
  <2> QED
    BY <1>3, <2>1 DEF AskedFit
<1>5. \A u \in Threads \ {t} : owned'[u] = owned[u]
  BY <1>2 DEF Types
<1> QED
  BY <1>2, <1>4, <1>5 DEF AskedFit, Fitting

\* Every call keeps it.
LEMMA FitCall ==
  ASSUME Types, AskedFit, AllFit, NEW t \in Threads, Call(t)
  PROVE  AskedFit'
<1>1. ASSUME NEW asked, Fitting(asked), ff_malloc(t, asked)
      PROVE  AskedFit'
  <2>1. Allocate(t, asked, NULL)
    BY <1>1 DEF ff_malloc
  <2> QED
    BY <1>1, <2>1, FitAllocate
<1>2. ASSUME NEW a \in CallocArgs, ff_calloc(t, a[1], a[2])
      PROVE  AskedFit'
  <2>1. ~ProductOverflows(a[1], a[2]) /\ ff_malloc(t, a[1] * a[2])
    BY <1>2 DEF ff_calloc
  <2>2. Fitting(a[1] * a[2])
    BY <2>1 DEF AllFit
  <2>3. PICK x : x = a[1] * a[2]
    OBVIOUS
  <2> QED
    BY <1>1, <2>1, <2>2, <2>3
<1>3. ASSUME NEW p, ff_free(t, p)
      PROVE  AskedFit'
  <2>1. PICK q : q = NULL
    OBVIOUS
  <2>2. Finish(t, heap[t], p, q, 0)
    BY <1>3, <2>1 DEF ff_free
  <2> QED
    BY <2>1, <2>2, FitFinish
<1>4. ASSUME NEW p, NEW asked \in Requests, ff_realloc(t, p, asked)
      PROVE  AskedFit'
  <2>1. Fitting(asked)
    BY DEF AllFit
  <2>2. ASSUME Resize(t, p, asked)
        PROVE  AskedFit'
    <3>1. ReallocInPlace(t, p, asked) \/ Allocate(t, asked, p)
      BY <2>2 DEF Resize, ReallocMove
    <3> QED
      BY <2>1, <3>1, FitInPlace, FitAllocate
  <2> QED
    BY <1>1, <1>3, <1>4, <2>1, <2>2 DEF ff_realloc
<1>5. \A asked \in Requests : Fitting(asked)
  BY DEF AllFit
<1> QED
  BY <1>1, <1>2, <1>3, <1>4, <1>5 DEF Call

\* Every step in request_space keeps it.
LEMMA FitWork ==
  ASSUME Types, AskedFit, NEW t \in Threads, Work(t)
  PROVE  AskedFit'
<1>1. ASSUME NEW l, pc[t] \notin {"idle", "aborted"}, owned' = owned, call' = call,
             pc' = [pc EXCEPT ![t] = l]
      PROVE  AskedFit'
  <2>1. Fitting(call'[t].asked)
    BY <1>1 DEF AskedFit
  <2>2. \A u \in Threads \ {t} : pc'[u] = pc[u] /\ call'[u] = call[u]
    BY <1>1 DEF Types
  <2> QED
    BY <1>1, <2>1, <2>2, FitMove
<1>2. CASE Lock(t) \/ ReadBreak(t) \/ Extend(t) \/ ExtendRefused(t)
  BY <1>1, <1>2 DEF Lock, ReadBreak, Extend, ExtendRefused, Goto
<1>3. CASE Unlock(t)
  <2>1. CASE brk_before[t] = NULL
    <3>1. PICK q : q = NULL
      OBVIOUS
    <3>2. Finish(t, heap[t], q, q, 0)
      BY <1>3, <2>1, <3>1 DEF Unlock
    <3> QED
      BY <3>1, <3>2, FitFinish
  <2>2. CASE brk_before[t] # NULL
    BY <1>1, <1>3, <2>2 DEF Unlock, Goto
  <2> QED
    BY <2>1, <2>2
<1>4. CASE Link(t)
  <2>1. PICK h, p, q, asked :
             /\ h = AppendBlock(heap[t], brk_before[t], call[t].size) /\ p = call[t].ptr
             /\ q = brk_before[t] + HDR /\ asked = call[t].asked
    OBVIOUS
  <2>2. Finish(t, h, p, q, asked) /\ pc[t] = "link"
    BY <1>4, <2>1 DEF Link
  <2>3. Fitting(asked)
    BY <2>1, <2>2 DEF AskedFit
  <2> QED
    BY <2>2, <2>3, FitFinish
<1> QED
  BY <1>2, <1>3, <1>4 DEF Work

(* For its whole life an allocation is one block in use of the thread that *)
(* asked for it, with the bytes it asked for, and no block is in use that  *)
(* nobody owns: through splits, merges, moves by ff_realloc, refusals of   *)
(* sbrk() and every interleaving, as long as no request is so large that   *)
(* the mask of ALIGN8 cuts it down.                                        *)
THEOREM AllocationsStay ==
  ASSUME AllFit
  PROVE  Spec => []AllocationsKept
<1>1. Init => AskedFit
  BY DEF Init, AskedFit
<1>2. SafeHeaps /\ AskedFit /\ [Next]_vars => AskedFit'
  <2> SUFFICES ASSUME SafeHeaps, AskedFit, [Next]_vars PROVE AskedFit'
    OBVIOUS
  <2>1. Types
    BY SafeParts
  <2>2. ASSUME UNCHANGED <<owned, pc, call>>
        PROVE  AskedFit'
    BY <2>2 DEF AskedFit, Fitting
  <2>3. ASSUME NEW t \in Threads, Call(t) \/ Work(t)
        PROVE  AskedFit'
    BY <2>1, <2>3, FitCall, FitWork
  <2> QED
    BY <2>2, <2>3 DEF Next, LibcSbrk, vars
<1>3. SafeHeaps /\ AskedFit => AllocationsKept
  <2> SUFFICES ASSUME SafeHeaps, AskedFit, NEW t \in Threads
               PROVE  /\ \A r \in owned[t] : \E m \in Range(heap[t]) :
                           m.at = data_to_block(r.ptr) /\ ~m.free /\ m.size >= r.asked
                      /\ \A m \in Range(heap[t]) :
                           ~m.free => \E r \in owned[t] : m.at = data_to_block(r.ptr)
                      /\ \A r, q \in owned[t] : r.ptr = q.ptr => r = q
    BY DEF AllocationsKept
  <2>1. GoodList(heap[t]) /\ Serves(heap[t], owned[t]) /\ owned[t] \subseteq Allocations
    BY DEF SafeHeaps, Types
  <2>2. Range(heap[t]) = {heap[t][j] : j \in 1..Len(heap[t])}
    BY <2>1, Headers DEF Range, GoodList
  <2>3. \A j \in 1..Len(heap[t]) : heap[t][j].at \in Nat /\ heap[t][j].size \in Nat
    BY <2>1, Headers DEF GoodList
  <2>4. ASSUME NEW r \in owned[t], NEW j \in 1..Len(heap[t]), r.ptr = heap[t][j].at + HDR
        PROVE  heap[t][j].at = data_to_block(r.ptr)
    BY <2>3, <2>4, Sizes DEF data_to_block
  <2>5. ASSUME NEW r \in owned[t]
        PROVE  \E m \in Range(heap[t]) :
                 m.at = data_to_block(r.ptr) /\ ~m.free /\ m.size >= r.asked
    <3>1. PICK j \in 1..Len(heap[t]) :
               /\ ~heap[t][j].free /\ r.ptr = heap[t][j].at + HDR
               /\ ALIGN8(r.asked) <= heap[t][j].size
      BY <2>1 DEF Serves
    <3>2. r.asked \in SizeT /\ Fitting(r.asked)
      BY <2>1, AllocationFields DEF AskedFit
    <3>3. PICK x \in SizeT : x = r.asked
      BY <3>2
    <3>4. x \in Nat /\ ALIGN8(x) \in Nat /\ x <= ALIGN8(x)
      BY <3>2, <3>3, Rounded DEF Fitting, SizeT
    <3>5. heap[t][j].size >= x
      BY <2>3, <3>1, <3>3, <3>4
    <3> QED
      BY <2>2, <2>4, <3>1, <3>3, <3>5
  <2>6. ASSUME NEW j \in 1..Len(heap[t]), ~heap[t][j].free
        PROVE  \E r \in owned[t] : heap[t][j].at = data_to_block(r.ptr)
    <3>1. PICK r \in owned[t] : r.ptr = heap[t][j].at + HDR
      BY <2>1, <2>6 DEF Serves
    <3> QED
      BY <2>4, <3>1
  <2>7. \A r, q \in owned[t] : r.ptr = q.ptr => r = q
    BY <2>1 DEF Serves
  <2> QED
    BY <2>2, <2>5, <2>6, <2>7
<1> QED
  BY <1>1, <1>2, <1>3, HeapsSafe, PTL DEF Spec

-----------------------------------------------------------------------------
(* The block a step takes, and what a step leaves unmerged.                *)

\* PolicyKept and FreeLeavesNothingToMerge, of one thread.
PolicyAt(t) ==
  /\ \A m \in Claimed(t) : \E r \in owned'[t] :
       /\ data_to_block(r.ptr) = m.at
       /\ \A k \in Candidates(t, ALIGN8(r.asked)) : Preferred(m, k)
  /\ pc[t] = "idle" /\ pc'[t] = "lock" => Candidates(t, call'[t].size) = {}

TidyAt(t) ==
  GivesBack(t) => \A m, k \in Range(heap'[t]) : m.free /\ k.free => BlockEnd(m) # k.at

\* A block that a step takes was free before, and is not in use at an address
\* where something was in use.
LEMMA ClaimedFrom ==
  ASSUME NEW t \in Threads, GoodList(heap[t]), NEW g \in Seq(Block), heap'[t] = g,
         NEW m \in Claimed(t)
  PROVE  \E j \in 1..Len(heap[t]), s \in Nat :
           /\ m = heap[t][j] /\ m.free /\ InUse(g, m.at, s)
           /\ \A x \in Nat : ~InUse(heap[t], m.at, x)
<1>1. heap[t] \in Seq(Block) /\ Ordered(heap[t])
  BY DEF GoodList
<1>2. /\ Range(heap[t]) = {heap[t][j] : j \in 1..Len(heap[t])}
      /\ Range(g) = {g[j] : j \in 1..Len(g)}
  BY <1>1, Headers DEF Range
<1>3. PICK j \in 1..Len(heap[t]) :
           m = heap[t][j] /\ m.free /\ \E k \in Range(g) : k.at = m.at /\ ~k.free
  BY <1>2 DEF Claimed
<1>4. PICK i \in 1..Len(g) : g[i].at = m.at /\ ~g[i].free
  BY <1>2, <1>3
<1>5. g[i].size \in Nat /\ InUse(g, m.at, g[i].size)
  BY <1>4, Headers DEF InUse
<1>6. ASSUME NEW x \in Nat
      PROVE  ~InUse(heap[t], m.at, x)
  <2>1. \A k \in 1..Len(heap[t]) : k # j => heap[t][k].at # heap[t][j].at
    BY <1>1, Apart
  <2> QED
    BY <1>3, <2>1 DEF InUse
<1> QED
  BY <1>3, <1>5, <1>6

\* A step that uses no address where nothing was in use takes no block.
LEMMA NoneClaimed ==
  ASSUME NEW t \in Threads, GoodList(heap[t]), NEW g \in Seq(Block), heap'[t] = g,
         \A j \in 1..Len(heap[t]), s \in Nat :
           InUse(g, heap[t][j].at, s) => \E x \in Nat : InUse(heap[t], heap[t][j].at, x)
  PROVE  Claimed(t) = {}
BY ClaimedFrom

\* A step that leaves the list and the allocations of t alone.
LEMMA QuietStep ==
  ASSUME SafeHeaps, NEW t \in Threads, heap'[t] = heap[t], owned'[t] = owned[t],
         pc[t] = "idle" => pc'[t] # "lock"
  PROVE  PolicyAt(t) /\ TidyAt(t)
<1>1. GoodList(heap[t])
  BY DEF SafeHeaps
<1>2. PICK g \in Seq(Block) : g = heap[t]
  BY <1>1 DEF GoodList
<1>3. heap'[t] = g
  BY <1>2
<1>4. \A j \in 1..Len(heap[t]), s \in Nat :
        InUse(g, heap[t][j].at, s) => \E x \in Nat : InUse(heap[t], heap[t][j].at, x)
  BY <1>2
<1>5. Claimed(t) = {}
  BY <1>1, <1>3, <1>4, NoneClaimed
<1>6. ~GivesBack(t)
  BY DEF GivesBack
<1> QED
  BY <1>5, <1>6 DEF PolicyAt, TidyAt

\* A call that returns: it gave memory back only when it freed p.
LEMMA ReturnMerged ==
  ASSUME Types, NEW t \in Threads, NEW g, NEW h, NEW o, NEW p,
         owned[t] \subseteq o, Returns(t, g, Rest(o, p)), Left(g, h, p)
  PROVE  /\ TidyAt(t)
         /\ heap'[t] = g /\ g \in Seq(Block) /\ owned'[t] = Rest(o, p) /\ pc'[t] = "idle"
<1>1. heap'[t] = g /\ owned'[t] = Rest(o, p) /\ pc'[t] = "idle"
  BY DEF Returns, Types
<1>2. g \in Seq(Block)
  BY DEF Left, GoodList
<1>3. CASE p = NULL
  <2>1. owned[t] \subseteq owned'[t]
    BY <1>1, <1>3 DEF Rest
  <2>2. ~GivesBack(t)
    BY <2>1 DEF GivesBack
  <2> QED
    BY <1>1, <1>2, <2>2 DEF TidyAt
<1>4. CASE p # NULL
  <2>1. Merged(g)
    BY <1>4 DEF Left
  <2>2. Range(g) = {g[j] : j \in 1..Len(g)}
    BY <1>2, Headers DEF Range
  <2>3. \A m, k \in Range(g) : m.free /\ k.free => BlockEnd(m) # k.at
    BY <2>1, <2>2 DEF Merged
  <2> QED
    BY <1>1, <1>2, <2>3 DEF TidyAt
<1> QED
  BY <1>3, <1>4

\* What the search prefers is what Preferred says, in a list in address order.
LEMMA BestPreferred ==
  ASSUME NEW h, GoodList(h), NEW n \in Nat, policy \in {"first", "best", "worst"},
         NEW i \in 1..Len(h), Best(policy, h, n, Len(h), i),
         NEW j \in 1..Len(h), Fits(h[j], n)
  PROVE  Preferred(h[i], h[j])
<1>1. h \in Seq(Block) /\ Ordered(h)
  BY DEF GoodList
<1>2. i \in Nat /\ j \in Nat /\ i # 0 /\ Len(h) \in Nat
  BY <1>1, Headers
<1>3. /\ policy = "first" => i <= j
      /\ policy = "best"  => h[i].size <= h[j].size
      /\ policy = "worst" => h[i].size >= h[j].size
  BY <1>2 DEF Best
<1>4. CASE policy = "first"
  <2>1. h[i].at \in Nat /\ h[j].at \in Nat /\ BlockEnd(h[i]) \in Nat /\ h[i].at < BlockEnd(h[i])
    BY <1>1, Headers, Ends
  <2>2. i < j => BlockEnd(h[i]) <= h[j].at
    BY <1>1 DEF Ordered
  <2>3. i = j \/ i < j
    BY <1>2, <1>3, <1>4
  <2>4. h[i].at <= h[j].at
    BY <2>1, <2>2, <2>3
  <2> QED
    BY <1>4, <2>4 DEF Preferred
<1>5. CASE policy = "best"
  BY <1>3, <1>5 DEF Preferred
<1>6. CASE policy = "worst"
  BY <1>3, <1>6 DEF Preferred
<1> QED
  BY <1>4, <1>5, <1>6

\* The blocks that fit are candidates.
LEMMA CandidatesFit ==
  ASSUME NEW t \in Threads, heap[t] \in Seq(Block), NEW n, NEW k \in Candidates(t, n)
  PROVE  \E j \in 1..Len(heap[t]) : k = heap[t][j] /\ Fits(heap[t][j], n)
<1>1. Range(heap[t]) = {heap[t][j] : j \in 1..Len(heap[t])}
  BY Headers DEF Range
<1> QED
  BY <1>1 DEF Candidates, Fits

\* ff_malloc keeps to the policy, inside ff_realloc as well.
LEMMA AllocateChooses ==
  ASSUME SafeHeaps, NEW t \in Threads, NEW asked \in SizeT, NEW p \in Nat,
         p # NULL => \E r \in owned[t] : r.ptr = p,
         Allocate(t, asked, p)
  PROVE  PolicyAt(t) /\ TidyAt(t)
<1>1. Types /\ GoodList(heap[t]) /\ heap[t] \in Seq(Block)
  BY DEF SafeHeaps, GoodList
<1>2. policy \in {"first", "best", "worst"}
  BY <1>1, TypesOf
<1>3. PICK n \in Nat : n = ALIGN8(asked)
  BY Rounded
<1>4. PICK i : i = find_free_block(heap[t], n)
  OBVIOUS
<1>5. Best(policy, heap[t], n, Len(heap[t]), i)
  BY <1>1, <1>2, <1>4, Found
<1>6. CASE i = 0
  <2>1. PICK c : c = [asked |-> asked, size |-> n, ptr |-> p]
    OBVIOUS
  <2>2. /\ call' = [call EXCEPT ![t] = c] /\ heap' = heap /\ owned' = owned
    BY <1>3, <1>4, <1>6, <2>1 DEF Allocate
  <2>3. call'[t].size = n
    BY <1>1, <2>1, <2>2 DEF Types
  <2>4. Candidates(t, n) = {}
    <3>1. \A j \in 1..Len(heap[t]) : ~Fits(heap[t][j], n)
      BY <1>5, <1>6 DEF Best
    <3> QED
      BY <1>1, <3>1, CandidatesFit
  <2>5. PICK g \in Seq(Block) : g = heap[t]
    BY <1>1
  <2>6. Claimed(t) = {}
    <3>1. \A j \in 1..Len(heap[t]), s \in Nat :
            InUse(g, heap[t][j].at, s) => \E x \in Nat : InUse(heap[t], heap[t][j].at, x)
      BY <2>5
    <3>2. heap'[t] = g
      BY <2>2, <2>5
    <3> QED
      BY <1>1, <3>1, <3>2, NoneClaimed
  <2>7. ~GivesBack(t)
    BY <2>2 DEF GivesBack
  <2> QED
    BY <2>3, <2>4, <2>6, <2>7 DEF PolicyAt, TidyAt
<1>7. CASE i # 0
  <2>1. PICK q : q = heap[t][i].at + HDR
    OBVIOUS
  <2>2. PICK o : o = With(owned[t], q, asked)
    OBVIOUS
  <2>3. /\ i \in 1..Len(heap[t]) /\ q # NULL /\ \A r \in owned[t] : r.ptr # q
        /\ \E g, h : /\ Returns(t, g, Rest(o, p)) /\ Left(g, h, p)
                     /\ Serves(g, Rest(o, p)) /\ Rest(o, p) \subseteq Allocations
                     /\ SameBytes(h, heap[t]) /\ Taken(h, heap[t], i, n)
                     /\ Even(heap[t]) /\ HDR % ALIGN = 0 => Even(h)
    BY <1>3, <1>4, <1>7, <2>1, <2>2, AllocateReturns
  <2>4. PICK g, h : Returns(t, g, Rest(o, p)) /\ Left(g, h, p) /\ Taken(h, heap[t], i, n)
    BY <2>3
  <2>5. owned[t] \subseteq o
    BY <2>2 DEF With
  <2>6. /\ TidyAt(t)
        /\ heap'[t] = g /\ g \in Seq(Block) /\ owned'[t] = Rest(o, p) /\ pc'[t] = "idle"
    BY <1>1, <2>4, <2>5, ReturnMerged
  <2>7. PICK e : e = [ptr |-> q, asked |-> asked]
    OBVIOUS
  <2>8. e \in owned'[t] /\ data_to_block(e.ptr) = heap[t][i].at /\ ALIGN8(e.asked) = n
    <3>1. e.ptr = q /\ e.asked = asked
      BY <2>7
    <3>2. e \in o
      BY <2>2, <2>7 DEF With
    <3>3. q # p
      BY <2>3
    <3>4. e \in Rest(o, p)
      BY <3>1, <3>2, <3>3 DEF Rest, Without
    <3>5. heap[t][i].at \in Nat
      BY <1>1, <2>3, Headers
    <3>6. data_to_block(q) = heap[t][i].at
      BY <2>1, <3>5, Sizes DEF data_to_block
    <3> QED
      BY <1>3, <2>6, <3>1, <3>4, <3>6
  <2>9. PICK x \in Nat : OneUsed(h, heap[t], heap[t][i].at, x)
    BY <2>4 DEF Taken
  <2>10. ASSUME NEW m \in Claimed(t)
         PROVE  m = heap[t][i]
    <3>1. PICK j \in 1..Len(heap[t]), s \in Nat :
               /\ m = heap[t][j] /\ m.free /\ InUse(g, m.at, s)
               /\ \A y \in Nat : ~InUse(heap[t], m.at, y)
      BY <1>1, <2>6, ClaimedFrom
    <3>2. m.at \in Nat
      BY <1>1, <3>1, Headers
    <3>3. InUse(h, m.at, s)
      BY <2>4, <3>1, <3>2 DEF Left
    <3>4. m.at = heap[t][i].at
      BY <2>9, <3>1, <3>2, <3>3 DEF OneUsed
    <3>5. j = i
      BY <1>1, <2>3, <3>1, <3>4, Apart DEF GoodList
    <3> QED
      BY <3>1, <3>5
  <2>11. \A k \in Candidates(t, n) : Preferred(heap[t][i], k)
    BY <1>1, <1>2, <1>5, <2>3, CandidatesFit, BestPreferred
  <2>12. \A m \in Claimed(t) : \E r \in owned'[t] :
           /\ data_to_block(r.ptr) = m.at
           /\ \A k \in Candidates(t, ALIGN8(r.asked)) : Preferred(m, k)
    BY <2>8, <2>10, <2>11
  <2>13. pc'[t] # "lock"
    BY <2>6
  <2> QED
    BY <2>6, <2>12, <2>13 DEF PolicyAt
<1> QED
  BY <1>6, <1>7

\* ff_free takes no block.
LEMMA FreeChooses ==
  ASSUME SafeHeaps, NEW t \in Threads, NEW r \in owned[t], ff_free(t, r.ptr)
  PROVE  PolicyAt(t) /\ TidyAt(t)
<1>1. Types /\ GoodList(heap[t])
  BY DEF SafeHeaps
<1>2. PICK p, o : p = r.ptr /\ o = owned[t]
  OBVIOUS
<1>3. ff_free(t, p)
  BY <1>2
<1>4. PICK g : Returns(t, g, Rest(o, p)) /\ Left(g, heap[t], p)
  BY <1>2, <1>3, FreeReturns
<1>5. /\ TidyAt(t)
      /\ heap'[t] = g /\ g \in Seq(Block) /\ owned'[t] = Rest(o, p) /\ pc'[t] = "idle"
  BY <1>1, <1>2, <1>4, ReturnMerged
<1>6. \A j \in 1..Len(heap[t]), s \in Nat :
        InUse(g, heap[t][j].at, s) => \E x \in Nat : InUse(heap[t], heap[t][j].at, x)
  <2>1. \A j \in 1..Len(heap[t]) : heap[t][j].at \in Nat
    BY <1>1, Headers DEF GoodList
  <2> QED
    BY <1>4, <2>1 DEF Left
<1>7. Claimed(t) = {}
  BY <1>1, <1>5, <1>6, NoneClaimed
<1> QED
  BY <1>5, <1>7 DEF PolicyAt

\* ff_realloc in place takes no block, and gives none back.
LEMMA InPlaceChooses ==
  ASSUME SafeHeaps, NEW t \in Threads, pc[t] = "idle", NEW r \in owned[t],
         NEW asked \in SizeT, ReallocInPlace(t, r.ptr, asked)
  PROVE  PolicyAt(t) /\ TidyAt(t)
<1>1. Types /\ GoodList(heap[t])
  BY DEF SafeHeaps
<1>2. PICK p : p = r.ptr
  OBVIOUS
<1>3. PICK o : o = With(Without(owned[t], p), p, asked)
  OBVIOUS
<1>4. ReallocInPlace(t, p, asked)
  BY <1>2
<1>5. PICK g : /\ Returns(t, g, o) /\ GoodList(g)
               /\ \A a, s \in Nat : InUse(g, a, s) => \E m \in Nat : InUse(heap[t], a, m)
  BY <1>2, <1>3, <1>4, InPlaceReturns
<1>6. heap'[t] = g /\ owned'[t] = o /\ pc'[t] = "idle"
  BY <1>1, <1>5 DEF Returns, Types
<1>7. Claimed(t) = {}
  <2>1. \A j \in 1..Len(heap[t]) : heap[t][j].at \in Nat
    BY <1>1, Headers DEF GoodList
  <2>2. \A j \in 1..Len(heap[t]), s \in Nat :
          InUse(g, heap[t][j].at, s) => \E x \in Nat : InUse(heap[t], heap[t][j].at, x)
    BY <1>5, <2>1
  <2>3. g \in Seq(Block)
    BY <1>5 DEF GoodList
  <2> QED
    BY <1>1, <1>6, <2>2, <2>3, NoneClaimed
<1>8. ~GivesBack(t)
  <2>1. PICK e : e = [ptr |-> p, asked |-> asked]
    OBVIOUS
  <2>2. e.ptr = p /\ o = Without(owned[t], p) \cup {e}
    BY <1>3, <2>1 DEF With
  <2>3. \A q \in owned[t] : q.ptr = e.ptr \/ q \in o
    BY <2>2 DEF Without
  <2> QED
    BY <1>6, <2>2, <2>3 DEF GivesBack
<1> QED
  BY <1>6, <1>7, <1>8 DEF PolicyAt, TidyAt

\* request_space takes no block of the list; the one it links is new.
LEMMA LinkChooses ==
  ASSUME SafeHeaps, NEW t \in Threads, Link(t)
  PROVE  PolicyAt(t) /\ TidyAt(t)
<1>1. Types /\ GoodList(heap[t]) /\ heap[t] \in Seq(Block)
  BY DEF SafeHeaps, GoodList
<1>2. PICK b, p, asked : InCall(t, b, p, asked)
  BY DEF InCall
<1>3. PICK q : q = b + HDR
  OBVIOUS
<1>4. PICK o : o = With(owned[t], q, asked)
  OBVIOUS
<1>5. /\ Holds(t) /\ \A j \in 1..Len(heap[t]) : BlockEnd(heap[t][j]) <= b
      /\ \E g, h : /\ Returns(t, g, Rest(o, p)) /\ Left(g, h, p)
                   /\ Serves(g, Rest(o, p)) /\ Rest(o, p) \subseteq Allocations
                   /\ \A a \in Nat : Covers(h, a) <=> Mine(t, a)
                   /\ \A a, s \in Nat : InUse(h, a, s) => InUse(heap[t], a, s) \/ a = b
                   /\ Even(heap[t]) /\ b % ALIGN = 0 => Even(h)
  BY <1>2, <1>3, <1>4, LinkReturns
<1>6. PICK g, h : /\ Returns(t, g, Rest(o, p)) /\ Left(g, h, p)
                  /\ \A a, s \in Nat : InUse(h, a, s) => InUse(heap[t], a, s) \/ a = b
  BY <1>5
<1>7. owned[t] \subseteq o
  BY <1>4 DEF With
<1>8. /\ TidyAt(t)
      /\ heap'[t] = g /\ g \in Seq(Block) /\ owned'[t] = Rest(o, p) /\ pc'[t] = "idle"
  BY <1>1, <1>6, <1>7, ReturnMerged
<1>9. ASSUME NEW j \in 1..Len(heap[t]), NEW s \in Nat, InUse(g, heap[t][j].at, s)
      PROVE  \E x \in Nat : InUse(heap[t], heap[t][j].at, x)
  <2>1. /\ heap[t][j].at \in Nat /\ BlockEnd(heap[t][j]) \in Nat
        /\ heap[t][j].at < BlockEnd(heap[t][j])
    BY <1>1, Headers, Ends
  <2>2. b \in Nat
    BY <1>1, <1>2, TypesOf DEF InCall
  <2>3. heap[t][j].at # b
    BY <1>5, <2>1, <2>2
  <2>4. InUse(h, heap[t][j].at, s)
    BY <1>6, <1>9, <2>1 DEF Left
  <2> QED
    BY <1>6, <2>1, <2>3, <2>4
<1>10. Claimed(t) = {}
  BY <1>1, <1>8, <1>9, NoneClaimed
<1> QED
  BY <1>8, <1>10 DEF PolicyAt

\* A refusal gives nothing back.
LEMMA UnlockChooses ==
  ASSUME SafeHeaps, NEW t \in Threads, Unlock(t)
  PROVE  PolicyAt(t) /\ TidyAt(t)
<1>1. Types
  BY SafeParts
<1>2. pc[t] = "unlock"
  BY DEF Unlock
<1>3. CASE brk_before[t] = NULL
  <2>1. PICK p : p = NULL
    OBVIOUS
  <2>2. Finish(t, heap[t], p, p, 0)
    BY <1>3, <2>1 DEF Unlock
  <2>3. /\ heap' = [heap EXCEPT ![t] = heap[t]]
        /\ owned' = [owned EXCEPT ![t] = {r \in @ : r.ptr # p}
                                           \cup {r \in {[ptr |-> p, asked |-> 0]} : p # NULL}]
    BY <2>1, <2>2 DEF Finish
  <2>4. \A r \in owned[t] : r.ptr # NULL
    BY <1>1, TypesOf, AllocationFields
  <2>5. heap'[t] = heap[t] /\ owned'[t] = owned[t]
    BY <1>1, <2>1, <2>3, <2>4 DEF Types
  <2> QED
    BY <1>2, <2>5, QuietStep
<1>4. CASE brk_before[t] # NULL
  BY <1>2, <1>4, QuietStep DEF Unlock
<1> QED
  BY <1>3, <1>4

\* What a step of t does keeps to the policy.
LEMMA CallChooses ==
  ASSUME SafeHeaps, NEW t \in Threads, Call(t)
  PROVE  PolicyAt(t) /\ TidyAt(t)
<1>1. /\ owned[t] \subseteq Allocations
      /\ \A r \in owned[t] : r.ptr \in Nat
  BY SafeParts, TypesOf, AllocationFields
<1>2. ASSUME NEW asked \in SizeT, ff_malloc(t, asked)
      PROVE  PolicyAt(t) /\ TidyAt(t)
  <2>1. PICK p \in Nat : p = NULL
    OBVIOUS
  <2>2. Allocate(t, asked, p)
    BY <1>2, <2>1 DEF ff_malloc
  <2> QED
    BY <2>1, <2>2, AllocateChooses
<1>3. ASSUME NEW a \in CallocArgs, ff_calloc(t, a[1], a[2])
      PROVE  PolicyAt(t) /\ TidyAt(t)
  <2>1. PICK n \in SizeT, e \in SizeT : n = a[1] /\ e = a[2]
    <3>1. a[1] \in SizeT /\ a[2] \in SizeT
      BY SizesAssumption
    <3> QED
      BY <3>1
  <2>2. n # 0 /\ e # 0 /\ ~ProductOverflows(n, e) /\ ff_malloc(t, n * e)
    BY <1>3, <2>1 DEF ff_calloc
  <2>3. n * e \in SizeT
    BY <2>2, CallocProduct
  <2>4. PICK x \in SizeT : x = n * e
    BY <2>3
  <2> QED
    BY <1>2, <2>2, <2>4
<1>4. ASSUME NEW r \in owned[t], NEW asked \in SizeT, Resize(t, r.ptr, asked)
      PROVE  PolicyAt(t) /\ TidyAt(t)
  <2>1. PICK p \in Nat : p = r.ptr
    BY <1>1
  <2>2. pc[t] = "idle" /\ (ReallocInPlace(t, p, asked) \/ Allocate(t, asked, p))
    BY <1>4, <2>1 DEF Resize, ReallocMove
  <2> QED
    BY <2>1, <2>2, InPlaceChooses, AllocateChooses
<1>5. ASSUME NEW p \in {NULL} \cup {r.ptr : r \in owned[t]}, NEW asked \in Requests,
             ff_realloc(t, p, asked)
      PROVE  PolicyAt(t) /\ TidyAt(t)
  <2>1. asked \in SizeT
    BY SizesAssumption
  <2>2. p # NULL => \E r \in owned[t] : p = r.ptr
    OBVIOUS
  <2> QED
    BY <1>2, <1>4, <1>5, <2>1, <2>2, FreeChooses DEF ff_realloc
<1>6. Requests \subseteq SizeT
  BY SizesAssumption
<1> QED
  BY <1>2, <1>3, <1>5, <1>6, FreeChooses DEF Call

\* So does every step in request_space.
LEMMA WorkChooses ==
  ASSUME SafeHeaps, NEW t \in Threads, Work(t)
  PROVE  PolicyAt(t) /\ TidyAt(t)
<1>1. CASE Lock(t) \/ ReadBreak(t) \/ Extend(t) \/ ExtendRefused(t)
  BY <1>1, QuietStep DEF Lock, ReadBreak, Extend, ExtendRefused
<1> QED
  BY <1>1, UnlockChooses, LinkChooses DEF Work

\* A step of t is none of the other threads.
LEMMA FinishElsewhere ==
  ASSUME Types, NEW t \in Threads, NEW h, NEW p, NEW q, NEW asked, Finish(t, h, p, q, asked)
  PROVE  Elsewhere(t)
BY DEF Finish, Goto, Types, Elsewhere

\* Nor is ff_malloc.
LEMMA AllocateElsewhere ==
  ASSUME Types, NEW t \in Threads, NEW asked, NEW p, Allocate(t, asked, p)
  PROVE  Elsewhere(t)
<1>1. PICK n, i : n = ALIGN8(asked) /\ i = find_free_block(heap[t], n)
  OBVIOUS
<1>2. CASE i # 0
  <2>1. PICK h, q : h = Claim(heap[t], i, n) /\ q = heap[t][i].at + HDR
    OBVIOUS
  <2>2. Finish(t, h, p, q, asked)
    BY <1>1, <1>2, <2>1 DEF Allocate
  <2> QED
    BY <2>2, FinishElsewhere
<1>3. CASE i = 0
  BY <1>1, <1>3 DEF Allocate, Goto, Types, Elsewhere
<1> QED
  BY <1>2, <1>3

\* No call is, whatever it asks for.
LEMMA CallsElsewhere ==
  ASSUME Types, NEW t \in Threads
  PROVE  /\ \A asked : ff_malloc(t, asked) => Elsewhere(t)
         /\ \A n, e : ff_calloc(t, n, e) => Elsewhere(t)
         /\ \A p : ff_free(t, p) => Elsewhere(t)
         /\ \A p, asked : ff_realloc(t, p, asked) => Elsewhere(t)
<1>1. \A asked : ff_malloc(t, asked) => Elsewhere(t)
  BY AllocateElsewhere DEF ff_malloc
<1>2. \A n, e : ff_calloc(t, n, e) => Elsewhere(t)
  BY <1>1 DEF ff_calloc
<1>3. \A p : ff_free(t, p) => Elsewhere(t)
  BY FinishElsewhere DEF ff_free
<1>4. \A p, asked : Resize(t, p, asked) => Elsewhere(t)
  <2>1. \A p, asked : ReallocInPlace(t, p, asked) => Elsewhere(t)
    BY DEF ReallocInPlace, Types, Elsewhere
  <2>2. \A p, asked : ReallocMove(t, p, asked) => Elsewhere(t)
    BY AllocateElsewhere DEF ReallocMove
  <2> QED
    BY <2>1, <2>2 DEF Resize
<1>5. \A p, asked : ff_realloc(t, p, asked) => Elsewhere(t)
  BY <1>1, <1>3, <1>4 DEF ff_realloc
<1> QED
  BY <1>1, <1>2, <1>3, <1>5

\* So no call of a client is.
LEMMA CallElsewhere ==
  ASSUME Types, NEW t \in Threads, Call(t)
  PROVE  Elsewhere(t)
BY CallsElsewhere DEF Call

\* No step in request_space is.
LEMMA WorkElsewhere ==
  ASSUME Types, NEW t \in Threads, Work(t)
  PROVE  Elsewhere(t)
<1>1. CASE Lock(t) \/ ReadBreak(t) \/ Extend(t) \/ ExtendRefused(t)
  BY <1>1 DEF Lock, ReadBreak, Extend, ExtendRefused, Goto, Types, Elsewhere
<1>2. CASE Unlock(t)
  <2>1. Finish(t, heap[t], NULL, NULL, 0) => Elsewhere(t)
    BY FinishElsewhere
  <2> QED
    BY <1>2, <2>1 DEF Unlock, Goto, Types, Elsewhere
<1>3. CASE Link(t)
  BY <1>3, FinishElsewhere DEF Link
<1> QED
  BY <1>1, <1>2, <1>3 DEF Work

\* Every step keeps to the policy, and merges what it frees.
LEMMA NextChooses ==
  ASSUME SafeHeaps, Next
  PROVE  \A t \in Threads : PolicyAt(t) /\ TidyAt(t)
<1>1. Types
  BY SafeParts
<1>2. ASSUME NEW t \in Threads, Call(t) \/ Work(t), NEW u \in Threads
      PROVE  PolicyAt(u) /\ TidyAt(u)
  <2>1. CASE u = t
    BY <1>2, <2>1, CallChooses, WorkChooses
  <2>2. CASE u # t
    <3>1. Elsewhere(t)
      BY <1>1, <1>2, CallElsewhere, WorkElsewhere
    <3>2. heap'[u] = heap[u] /\ owned'[u] = owned[u] /\ pc'[u] = pc[u]
      BY <2>2, <3>1 DEF Elsewhere
    <3> QED
      BY <3>2, QuietStep
  <2> QED
    BY <2>1, <2>2
<1>3. ASSUME LibcSbrk, NEW u \in Threads
      PROVE  PolicyAt(u) /\ TidyAt(u)
  BY <1>3, QuietStep DEF LibcSbrk
<1> QED
  BY <1>2, <1>3 DEF Next

(* The block a call takes is the one the name of its file promises, among   *)
(* all the free blocks of the thread that fit, whatever split, merged or   *)
(* linked them, and a heap grows only when none of them fits.              *)
THEOREM PolicyHolds == Spec => PolicyKept
<1>1. SafeHeaps /\ [Next]_vars
        => [\A t \in Threads :
              /\ \A m \in Claimed(t) : \E r \in owned'[t] :
                   /\ data_to_block(r.ptr) = m.at
                   /\ \A k \in Candidates(t, ALIGN8(r.asked)) : Preferred(m, k)
              /\ pc[t] = "idle" /\ pc'[t] = "lock" => Candidates(t, call'[t].size) = {}]_vars
  BY NextChooses DEF PolicyAt
<1> QED
  BY <1>1, HeapsSafe, PTL DEF Spec, PolicyKept

(* When ff_free or ff_realloc frees a block, the single pass of            *)
(* coalesce_free_blocks leaves no two adjacent free blocks, those that     *)
(* ff_realloc split off without a pass included.                           *)
THEOREM FreesMerge == Spec => FreeLeavesNothingToMerge
<1>1. SafeHeaps /\ [Next]_vars
        => [\A t \in Threads : GivesBack(t) =>
              \A m, k \in Range(heap'[t]) : m.free /\ k.free => BlockEnd(m) # k.at]_vars
  BY NextChooses DEF TidyAt
<1> QED
  BY <1>1, HeapsSafe, PTL DEF Spec, FreeLeavesNothingToMerge

-----------------------------------------------------------------------------
(* Sums along a list.                                                      *)

\* The greatest of the first k + 1 numbers, and what is left without it.
LEMMA Prefix ==
  ASSUME NEW l \in Nat, NEW k \in Nat, k + 1 <= l, NEW s, s = 1..(k + 1)
  PROVE  /\ s \in SUBSET (1..l) /\ s # {}
         /\ Max(s) = k + 1 /\ s \ {Max(s)} = 1..k
<1>1. s \in SUBSET (1..l) /\ s # {} /\ s \subseteq 1..(k + 1) /\ k + 1 \in s
  <2>1. k + 1 \in 1..(k + 1)
    OBVIOUS
  <2>2. \A j \in 1..(k + 1) : j \in 1..l
    OBVIOUS
  <2> QED
    BY <2>1, <2>2
<1>2. k + 1 \in Nat
  OBVIOUS
<1>3. Max(s) \in s /\ \A j \in s : j <= Max(s)
  BY <1>1, <1>2, GreatestOf
<1>4. Max(s) = k + 1
  BY <1>1, <1>3
<1>5. s \ {Max(s)} = 1..k
  BY <1>4
<1> QED
  BY <1>1, <1>4, <1>5

\* w can be added up over every set of numbers up to l.
LEMMA SumEnds ==
  ASSUME NEW l \in Nat, NEW w \in [1..l -> Nat]
  PROVE  \E f \in [SUBSET (1..l) -> Nat] :
           \A s \in SUBSET (1..l) : f[s] = IF s = {} THEN 0 ELSE f[s \ {Max(s)}] + w[Max(s)]
<1>1. PICK D : D = SUBSET (1..l)
  OBVIOUS
<1>2. \A s \in D : s # {} => Max(s) \in s /\ Max(s) \in 1..l /\ \A k \in s : k <= Max(s)
  BY <1>1, GreatestOf
<1>3. PICK m : m = [s \in D |-> IF s = {} THEN 0 ELSE Max(s)]
  OBVIOUS
<1>4. m \in [D -> Int]
  BY <1>2, <1>3
<1>5. PICK r : r = [s \in D |-> s \ {Max(s)}]
  OBVIOUS
<1>6. r \in [D -> D]
  <2>1. \A s \in D : s \ {Max(s)} \in D
    BY <1>1
  <2> QED
    BY <1>5, <2>1
<1>7. PICK v : v = [s \in D |-> 0]
  OBVIOUS
<1>8. v \in [D -> Nat]
  BY <1>7
<1>9. PICK T : T = [c \in D \X Nat |-> IF c[1] = {} THEN 0 ELSE c[2] + w[Max(c[1])]]
  OBVIOUS
<1>10. T \in [D \X Nat -> Nat]
  <2>1. ASSUME NEW c \in D \X Nat
        PROVE  (IF c[1] = {} THEN 0 ELSE c[2] + w[Max(c[1])]) \in Nat
    <3>1. c[1] \in D /\ c[2] \in Nat
      OBVIOUS
    <3>2. CASE c[1] = {}
      BY <3>2
    <3>3. CASE c[1] # {}
      <4>1. Max(c[1]) \in 1..l
        BY <1>2, <3>1, <3>3
      <4>2. w[Max(c[1])] \in Nat
        BY <4>1
      <4> QED
        BY <3>1, <3>3, <4>2
    <3> QED
      BY <3>2, <3>3
  <2> QED
    BY <1>9, <2>1
<1>11. \A s \in D : m[s] > 0 <=> s # {}
  BY <1>2, <1>3
<1>12. ASSUME NEW s \in D, m[s] > 0
       PROVE  m[r[s]] < m[s]
  <2>1. s # {} /\ m[s] = Max(s) /\ Max(s) \in 1..l /\ \A k \in s : k <= Max(s)
    BY <1>2, <1>3, <1>11, <1>12
  <2>2. r[s] = s \ {Max(s)} /\ r[s] \in D
    BY <1>5, <1>6
  <2>3. CASE r[s] = {}
    BY <1>3, <2>1, <2>2, <2>3
  <2>4. CASE r[s] # {}
    <3>1. m[r[s]] = Max(r[s]) /\ Max(r[s]) \in r[s] /\ Max(r[s]) \in 1..l
      BY <1>2, <1>3, <2>2, <2>4
    <3> QED
      BY <2>1, <2>2, <3>1
  <2> QED
    BY <2>3, <2>4
<1>13. PICK f \in [D -> Nat] : Runs(f, D, m, r, v, T)
  <2>1. \A s \in D : m[s] > 0 => m[r[s]] < m[s]
    BY <1>12
  <2> QED
    BY <1>4, <1>6, <1>8, <1>10, <2>1, LoopExists
<1>14. ASSUME NEW s \in D
       PROVE  f[s] = IF s = {} THEN 0 ELSE f[s \ {Max(s)}] + w[Max(s)]
  <2>1. f[s] = IF m[s] <= 0 THEN v[s] ELSE T[<<s, f[r[s]]>>]
    BY <1>13 DEF Runs
  <2>2. m[s] \in Int /\ (m[s] <= 0 <=> s = {})
    BY <1>4, <1>11
  <2>3. v[s] = 0 /\ r[s] = s \ {Max(s)} /\ f[r[s]] \in Nat
    BY <1>5, <1>6, <1>7, <1>13
  <2>4. T[<<s, f[r[s]]>>] = IF s = {} THEN 0 ELSE f[r[s]] + w[Max(s)]
    <3>1. PICK b \in Nat : b = f[r[s]]
      BY <2>3
    <3>2. <<s, b>> \in D \X Nat /\ <<s, b>>[1] = s /\ <<s, b>>[2] = b
      OBVIOUS
    <3>3. T[<<s, b>>] = IF s = {} THEN 0 ELSE b + w[Max(s)]
      BY <1>9, <3>2
    <3> QED
      BY <3>1, <3>3
  <2> QED
    BY <2>1, <2>2, <2>3, <2>4
<1> QED
  BY <1>1, <1>13, <1>14

\* f adds up the blocks of h, headers included, as consumed does.
Consumes(f, h) ==
  f = [s \in SUBSET (DOMAIN h) |->
         IF s = {} THEN 0 ELSE f[s \ {Max(s)}] + HDR + h[Max(s)].size]

\* f adds up the blocks in use, as leaked_bytes does.
Leaks(f, h) ==
  f = [s \in SUBSET (DOMAIN h) |->
         IF s = {} THEN 0
         ELSE f[s \ {Max(s)}] + IF h[Max(s)].free THEN 0 ELSE h[Max(s)].size]

\* There are such functions.
LEMMA SumsEnd ==
  ASSUME NEW h \in Seq(Block)
  PROVE  (\E f : Consumes(f, h)) /\ (\E f : Leaks(f, h))
<1>1. PICK l \in Nat : l = Len(h)
  BY Headers
<1>2. DOMAIN h = 1..l /\ \A j \in 1..l : h[j].size \in Nat /\ HDR \in Nat
  BY <1>1, Headers, Sizes
<1>3. \A s \in SUBSET (1..l) : s # {} => Max(s) \in 1..l
  BY GreatestOf
<1>4. \E f : Consumes(f, h)
  <2>1. PICK w : w = [j \in 1..l |-> HDR + h[j].size]
    OBVIOUS
  <2>2. w \in [1..l -> Nat]
    BY <1>2, <2>1
  <2>3. PICK f \in [SUBSET (1..l) -> Nat] :
          \A s \in SUBSET (1..l) : f[s] = IF s = {} THEN 0 ELSE f[s \ {Max(s)}] + w[Max(s)]
    BY <2>2, SumEnds
  <2>4. ASSUME NEW s \in SUBSET (1..l)
        PROVE  f[s] = IF s = {} THEN 0 ELSE f[s \ {Max(s)}] + HDR + h[Max(s)].size
    <3>1. CASE s # {}
      <4>1. PICK x \in 1..l : x = Max(s)
        BY <1>3, <3>1
      <4>2. f[s \ {x}] \in Nat
        BY <2>3
      <4>3. w[x] = HDR + h[x].size /\ h[x].size \in Nat /\ HDR \in Nat
        BY <1>2, <2>1
      <4>4. f[s] = f[s \ {x}] + w[x]
        BY <2>3, <3>1, <4>1
      <4>5. f[s] = f[s \ {x}] + HDR + h[x].size
        BY <4>2, <4>3, <4>4
      <4> QED
        BY <3>1, <4>1, <4>5
    <3> QED
      BY <2>3, <3>1
  <2>5. f = [s \in SUBSET (1..l) |-> f[s]]
    BY <2>3
  <2> QED
    BY <1>2, <2>4, <2>5 DEF Consumes
<1>5. \E f : Leaks(f, h)
  <2>1. PICK w : w = [j \in 1..l |-> IF h[j].free THEN 0 ELSE h[j].size]
    OBVIOUS
  <2>2. w \in [1..l -> Nat]
    BY <1>2, <2>1
  <2>3. PICK f \in [SUBSET (1..l) -> Nat] :
          \A s \in SUBSET (1..l) : f[s] = IF s = {} THEN 0 ELSE f[s \ {Max(s)}] + w[Max(s)]
    BY <2>2, SumEnds
  <2>4. ASSUME NEW s \in SUBSET (1..l)
        PROVE  f[s] = IF s = {} THEN 0
                      ELSE f[s \ {Max(s)}] + IF h[Max(s)].free THEN 0 ELSE h[Max(s)].size
    <3>1. s # {} => w[Max(s)] = IF h[Max(s)].free THEN 0 ELSE h[Max(s)].size
      BY <1>3, <2>1
    <3> QED
      BY <2>3, <3>1
  <2>5. f = [s \in SUBSET (1..l) |-> f[s]]
    BY <2>3
  <2>6. f = [s \in SUBSET (1..l) |->
               IF s = {} THEN 0
               ELSE f[s \ {Max(s)}] + IF h[Max(s)].free THEN 0 ELSE h[Max(s)].size]
    BY <2>4, <2>5, Zenon
  <2>7. DOMAIN h = 1..l
    BY <1>2
  <2> QED
    BY <2>6, <2>7, Zenon DEF Leaks
<1> QED
  BY <1>4, <1>5

\* The bytes of the first k blocks.
UpTo(h, k) == {a \in Nat : \E j \in 1..k : h[j].at <= a /\ a < BlockEnd(h[j])}

\* The sum is their number.
LEMMA SumCounts ==
  ASSUME NEW h, GoodList(h), NEW f, Consumes(f, h)
  PROVE  /\ IsFiniteSet(UpTo(h, Len(h)))
         /\ f[DOMAIN h] = Cardinality(UpTo(h, Len(h)))
<1>1. h \in Seq(Block) /\ Ordered(h)
  BY DEF GoodList
<1>2. PICK l \in Nat : l = Len(h)
  BY <1>1, Headers
<1>3. DOMAIN h = 1..l
  BY <1>1, <1>2, Headers
<1>4. \A s \in SUBSET (1..l) :
        f[s] = IF s = {} THEN 0 ELSE f[s \ {Max(s)}] + HDR + h[Max(s)].size
  BY <1>3 DEF Consumes
<1>5. \A k \in Nat : k + 1 <= l =>
         \A s : s = 1..(k + 1) => /\ s \in SUBSET (1..l) /\ s # {}
                                  /\ Max(s) = k + 1 /\ s \ {Max(s)} = 1..k
  BY Prefix
<1>6. PICK G : G = {k \in Nat : k <= l => /\ IsFiniteSet(UpTo(h, k))
                                          /\ f[1..k] = Cardinality(UpTo(h, k))}
  OBVIOUS
<1>7. 0 \in G
  <2>1. UpTo(h, 0) = {} /\ 1..0 = {} /\ {} \in SUBSET (1..l)
    BY DEF UpTo
  <2>2. f[1..0] = 0
    BY <1>4, <2>1
  <2> QED
    BY <1>6, <2>1, <2>2, FS_EmptySet
<1>8. ASSUME NEW k \in Nat, k \in G
      PROVE  k + 1 \in G
  <2> SUFFICES ASSUME k + 1 <= l
               PROVE  /\ IsFiniteSet(UpTo(h, k + 1))
                      /\ f[1..(k + 1)] = Cardinality(UpTo(h, k + 1))
    BY <1>6
  <2>1. IsFiniteSet(UpTo(h, k)) /\ f[1..k] = Cardinality(UpTo(h, k))
    BY <1>2, <1>6, <1>8
  <2>2. f[1..(k + 1)] = f[1..k] + HDR + h[k + 1].size
    <3>1. PICK s : s = 1..(k + 1)
      OBVIOUS
    <3>2. s \in SUBSET (1..l) /\ s # {} /\ Max(s) = k + 1 /\ s \ {Max(s)} = 1..k
      BY <1>5, <3>1
    <3> QED
      BY <1>4, <3>1, <3>2
  <2>3. k + 1 \in 1..l
    OBVIOUS
  <2>4. PICK b \in Nat, n \in Nat : b = h[k + 1].at /\ n = h[k + 1].size
    BY <1>1, <1>2, <2>3, Headers
  <2>5. BlockEnd(h[k + 1]) = b + HDR + n /\ HDR \in Nat \ {0}
    BY <1>1, <1>2, <2>3, <2>4, Ends, Sizes
  <2>6. PICK e \in Nat : e = b + HDR + n
    BY <2>5
  <2>7. PICK I : I = b..(e - 1)
    OBVIOUS
  <2>8. IsFiniteSet(I) /\ Cardinality(I) = HDR + n
    <3>1. b \in Int /\ e - 1 \in Int /\ ~(b > e - 1)
      BY <2>5, <2>6
    <3>2. (e - 1) - b + 1 = HDR + n
      BY <2>5, <2>6
    <3> QED
      BY <2>7, <3>1, <3>2, FS_Interval
  <2>9. UpTo(h, k + 1) = UpTo(h, k) \cup I
    <3>1. \A a \in Nat : a \in I <=> h[k + 1].at <= a /\ a < BlockEnd(h[k + 1])
      <4>1. \A a \in Nat : a \in I <=> b <= a /\ a < e
        BY <2>7
      <4> QED
        BY <2>4, <2>5, <2>6, <4>1
    <3>2. I \subseteq Nat
      BY <2>7
    <3>3. \A j : j \in 1..(k + 1) <=> j \in 1..k \/ j = k + 1
      OBVIOUS
    <3>4. \A a \in Nat : a \in UpTo(h, k + 1) <=> a \in UpTo(h, k) \/ a \in I
      BY <3>1, <3>3 DEF UpTo
    <3> QED
      BY <3>2, <3>4 DEF UpTo
  <2>10. UpTo(h, k) \cap I = {}
    <3>1. ASSUME NEW a \in UpTo(h, k), a \in I
          PROVE  FALSE
      <4>1. a \in Nat
        BY DEF UpTo
      <4>2. PICK j \in 1..k : h[j].at <= a /\ a < BlockEnd(h[j])
        BY DEF UpTo
      <4>3. h[k + 1].at <= a /\ a < BlockEnd(h[k + 1])
        BY <2>4, <2>5, <2>7, <2>6, <3>1, <4>1
      <4>4. j \in 1..Len(h) /\ k + 1 \in 1..Len(h) /\ j # k + 1
        BY <1>2, <2>3
      <4> QED
        BY <1>1, <4>1, <4>2, <4>3, <4>4, Apart
    <3> QED
      BY <3>1
  <2>11. Cardinality(UpTo(h, k + 1)) = Cardinality(UpTo(h, k)) + (HDR + n)
    <3>1. Cardinality(UpTo(h, k)) \in Nat
      BY <2>1, FS_CardinalityType
    <3>2. PICK S : S = UpTo(h, k)
      OBVIOUS
    <3>3. Cardinality(S \cup I) = Cardinality(S) + Cardinality(I) - Cardinality(S \cap I)
      BY <2>1, <2>8, <3>2, FS_Union
    <3>4. Cardinality(S \cap I) = 0
      BY <2>10, <3>2, FS_EmptySet
    <3>5. PICK x \in Nat, y \in Nat : x = Cardinality(S) /\ y = HDR + n
      BY <2>5, <3>1, <3>2
    <3>6. Cardinality(S \cup I) = x + y - 0
      BY <2>8, <3>3, <3>4, <3>5
    <3>7. Cardinality(S \cup I) = x + y
      BY <3>6
    <3> QED
      BY <2>9, <3>2, <3>5, <3>7
  <2>12. IsFiniteSet(UpTo(h, k + 1))
    <3>1. PICK S : S = UpTo(h, k)
      OBVIOUS
    <3>2. IsFiniteSet(S \cup I)
      BY <2>1, <2>8, <3>1, FS_Union
    <3> QED
      BY <2>9, <3>1, <3>2
  <2>13. Cardinality(UpTo(h, k)) \in Nat
    BY <2>1, FS_CardinalityType
  <2> QED
    BY <2>1, <2>2, <2>4, <2>5, <2>11, <2>12, <2>13
<1>9. Nat \subseteq G
  BY <1>7, <1>8, NatSteps
<1>10. l \in G /\ l <= l
  BY <1>9
<1> QED
  BY <1>2, <1>3, <1>6, <1>10

\* What consumed computes is a sum like that.
LEMMA ConsumedCounts ==
  ASSUME NEW t, GoodList(heap[t])
  PROVE  /\ IsFiniteSet(UpTo(heap[t], Len(heap[t])))
         /\ consumed(t) = Cardinality(UpTo(heap[t], Len(heap[t])))
<1>1. PICK h : h = heap[t]
  OBVIOUS
<1>2. PICK f : f = CHOOSE g : Consumes(g, h)
  OBVIOUS
<1>3. Consumes(f, h)
  BY <1>1, <1>2, SumsEnd DEF GoodList
<1>4. consumed(t) = f[DOMAIN h]
  <2>1. consumed(t) = (CHOOSE g : Consumes(g, h))[DOMAIN h]
    BY <1>1 DEF consumed, FoldLeft, MapThenFoldSet, Consumes
  <2> QED
    BY <1>2, <2>1
<1> QED
  BY <1>1, <1>3, <1>4, SumCounts

-----------------------------------------------------------------------------
(* Where a heap begins.                                                    *)

\* thread_heap_start is the address of the first header.
StartsKnown ==
  \A t \in Threads :
    thread_heap_start[t] = IF heap[t] = <<>> THEN NULL ELSE heap[t][1].at

\* The first byte of a list.
LEMMA FirstByte ==
  ASSUME NEW h \in Seq(Block), Ordered(h)
  PROVE  /\ h = <<>> => \A a \in Nat : ~Covers(h, a)
         /\ h # <<>> => /\ 1 \in 1..Len(h) /\ h[1].at \in Nat /\ Covers(h, h[1].at)
                        /\ \A a \in Nat : Covers(h, a) => h[1].at <= a
<1>1. h \in Seq(Block) /\ Ordered(h)
  OBVIOUS
<1>2. Len(h) \in Nat /\ (Len(h) = 0 <=> h = <<>>)
  BY <1>1, EmptySeq, LenProperties
<1>3. CASE h = <<>>
  BY <1>2, <1>3 DEF Covers
<1>4. CASE h # <<>>
  <2>1. 1 \in 1..Len(h)
    BY <1>2, <1>4
  <2>2. h[1].at \in Nat /\ h[1].at < BlockEnd(h[1]) /\ BlockEnd(h[1]) \in Nat
    BY <1>1, <2>1, Headers, Ends
  <2>3. Covers(h, h[1].at)
    BY <2>1, <2>2 DEF Covers
  <2>4. ASSUME NEW a \in Nat, Covers(h, a)
        PROVE  h[1].at <= a
    <3>1. PICK j \in 1..Len(h) : h[j].at <= a
      BY <2>4 DEF Covers
    <3>2. CASE j = 1
      BY <3>1, <3>2
    <3>3. CASE j # 1
      <4>1. 1 < j
        BY <1>2, <3>3
      <4>2. BlockEnd(h[1]) <= h[j].at
        BY <1>1, <2>1, <4>1 DEF Ordered
      <4>3. h[j].at \in Nat
        BY <1>1, Headers
      <4> QED
        BY <2>2, <3>1, <4>2, <4>3
    <3> QED
      BY <3>2, <3>3
  <2> QED
    BY <1>4, <2>1, <2>2, <2>3, <2>4
<1> QED
  BY <1>3, <1>4

\* Two lists of the same bytes begin at the same address.
LEMMA SameFirst ==
  ASSUME NEW g \in Seq(Block), Ordered(g), NEW h \in Seq(Block), Ordered(h), SameBytes(g, h)
  PROVE  (g = <<>> <=> h = <<>>) /\ (g # <<>> => g[1].at = h[1].at)
<1>1. g = <<>> <=> h = <<>>
  BY FirstByte DEF SameBytes
<1>2. ASSUME g # <<>>
      PROVE  g[1].at = h[1].at
  <2>1. PICK a \in Nat, b \in Nat : a = g[1].at /\ b = h[1].at
    BY <1>1, <1>2, FirstByte
  <2>2. Covers(g, a) /\ Covers(h, b)
    BY <1>1, <1>2, <2>1, FirstByte
  <2>3. Covers(h, a) /\ Covers(g, b)
    BY <2>2 DEF SameBytes
  <2>4. a <= b /\ b <= a
    BY <1>1, <1>2, <2>1, <2>3, FirstByte
  <2> QED
    BY <2>1, <2>4
<1> QED
  BY <1>1, <1>2

\* A step that leaves every list its bytes.
BytesKept == \A u \in Threads : SameBytes(heap'[u], heap[u])

\* It leaves every list where it begins.
LEMMA StartsKept ==
  ASSUME SafeHeaps, SafeHeaps', StartsKnown, BytesKept,
         thread_heap_start' = thread_heap_start
  PROVE  StartsKnown'
<1>1. ASSUME NEW t \in Threads
      PROVE  thread_heap_start'[t] = IF heap'[t] = <<>> THEN NULL ELSE heap'[t][1].at
  <2>1. /\ heap[t] \in Seq(Block) /\ Ordered(heap[t])
        /\ heap'[t] \in Seq(Block) /\ Ordered(heap'[t])
    BY DEF SafeHeaps, GoodList
  <2>2. PICK g, h : g = heap'[t] /\ h = heap[t]
    OBVIOUS
  <2>3. SameBytes(g, h)
    BY <2>2 DEF BytesKept
  <2>4. (g = <<>> <=> h = <<>>) /\ (g # <<>> => g[1].at = h[1].at)
    BY <2>1, <2>2, <2>3, SameFirst
  <2>5. thread_heap_start[t] = IF h = <<>> THEN NULL ELSE h[1].at
    BY <2>2 DEF StartsKnown
  <2> QED
    BY <2>2, <2>4, <2>5
<1> QED
  BY <1>1 DEF StartsKnown

\* One list changes, but not its bytes.
LEMMA BytesOfOne ==
  ASSUME Types, NEW t \in Threads, NEW g, heap' = [heap EXCEPT ![t] = g],
         SameBytes(g, heap[t])
  PROVE  BytesKept
<1>1. ASSUME NEW u \in Threads
      PROVE  SameBytes(heap'[u], heap[u])
  <2>1. CASE u = t
    BY <2>1 DEF Types
  <2>2. CASE u # t
    <3>1. heap'[u] = heap[u]
      BY <2>2 DEF Types
    <3> QED
      BY <3>1 DEF SameBytes
  <2> QED
    BY <2>1, <2>2
<1> QED
  BY <1>1 DEF BytesKept

\* No list changes.
LEMMA BytesOfNone ==
  ASSUME heap' = heap
  PROVE  BytesKept
BY DEF BytesKept, SameBytes

\* ff_malloc, inside ff_realloc as well, before request_space.
LEMMA AllocateBytes ==
  ASSUME SafeHeaps, NEW t \in Threads, NEW asked \in SizeT, NEW p \in Nat,
         p # NULL => \E r \in owned[t] : r.ptr = p, Allocate(t, asked, p)
  PROVE  BytesKept
<1>1. Types
  BY SafeParts
<1>2. PICK n : n = ALIGN8(asked)
  OBVIOUS
<1>3. PICK i : i = find_free_block(heap[t], n)
  OBVIOUS
<1>4. CASE i # 0
  <2>1. PICK q : q = heap[t][i].at + HDR
    OBVIOUS
  <2>2. PICK o : o = With(owned[t], q, asked)
    OBVIOUS
  <2>3. PICK g, h : /\ Returns(t, g, Rest(o, p)) /\ Left(g, h, p)
                    /\ SameBytes(h, heap[t])
    BY <1>2, <1>3, <1>4, <2>1, <2>2, AllocateReturns
  <2>4. SameBytes(g, heap[t]) /\ heap' = [heap EXCEPT ![t] = g]
    BY <2>3 DEF Left, SameBytes, Returns
  <2> QED
    BY <1>1, <2>4, BytesOfOne
<1>5. CASE i = 0
  <2>1. heap' = heap
    BY <1>2, <1>3, <1>5 DEF Allocate
  <2> QED
    BY <2>1, BytesOfNone
<1> QED
  BY <1>4, <1>5

\* ff_free.
LEMMA FreeBytes ==
  ASSUME SafeHeaps, NEW t \in Threads, NEW r \in owned[t], ff_free(t, r.ptr)
  PROVE  BytesKept
<1>1. Types
  BY SafeParts
<1>2. PICK p, o : p = r.ptr /\ o = owned[t]
  OBVIOUS
<1>3. ff_free(t, p)
  BY <1>2
<1>4. PICK g : Returns(t, g, Rest(o, p)) /\ Left(g, heap[t], p)
  BY <1>2, <1>3, FreeReturns
<1>5. SameBytes(g, heap[t]) /\ heap' = [heap EXCEPT ![t] = g]
  BY <1>4 DEF Left, Returns
<1> QED
  BY <1>1, <1>5, BytesOfOne

\* ff_realloc in place.
LEMMA InPlaceBytes ==
  ASSUME SafeHeaps, NEW t \in Threads, pc[t] = "idle", NEW r \in owned[t],
         NEW asked \in SizeT, ReallocInPlace(t, r.ptr, asked)
  PROVE  BytesKept
<1>1. Types
  BY SafeParts
<1>2. PICK p : p = r.ptr
  OBVIOUS
<1>3. PICK o : o = With(Without(owned[t], p), p, asked)
  OBVIOUS
<1>4. ReallocInPlace(t, p, asked)
  BY <1>2
<1>5. PICK g : Returns(t, g, o) /\ SameBytes(g, heap[t])
  BY <1>2, <1>3, <1>4, InPlaceReturns
<1>6. heap' = [heap EXCEPT ![t] = g]
  BY <1>5 DEF Returns
<1> QED
  BY <1>1, <1>5, <1>6, BytesOfOne

\* ff_malloc.
LEMMA MallocBytes ==
  ASSUME SafeHeaps, NEW t \in Threads, NEW asked \in SizeT, ff_malloc(t, asked)
  PROVE  BytesKept
<1>1. PICK p \in Nat : p = NULL
  OBVIOUS
<1>2. Allocate(t, asked, p)
  BY <1>1 DEF ff_malloc
<1> QED
  BY <1>1, <1>2, AllocateBytes

\* ff_realloc with a pointer and a size.
LEMMA ResizeBytes ==
  ASSUME SafeHeaps, NEW t \in Threads, NEW r \in owned[t], NEW asked \in SizeT,
         Resize(t, r.ptr, asked)
  PROVE  BytesKept
<1>1. pc[t] = "idle" /\ (ReallocInPlace(t, r.ptr, asked) \/ ReallocMove(t, r.ptr, asked))
  BY DEF Resize
<1>2. CASE ReallocInPlace(t, r.ptr, asked)
  BY <1>1, <1>2, InPlaceBytes
<1>3. CASE ReallocMove(t, r.ptr, asked)
  <2>1. r.ptr \in Nat
    <3>1. owned[t] \subseteq Allocations
      BY SafeParts, TypesOf
    <3> QED
      BY <3>1, AllocationFields
  <2>2. PICK p \in Nat : p = r.ptr
    BY <2>1
  <2>3. Allocate(t, asked, p)
    BY <1>3, <2>2 DEF ReallocMove
  <2> QED
    BY <2>2, <2>3, AllocateBytes
<1> QED
  BY <1>1, <1>2, <1>3

\* Every call of a client.
LEMMA CallBytes ==
  ASSUME SafeHeaps, NEW t \in Threads, Call(t)
  PROVE  BytesKept
<1>1. ASSUME NEW asked \in Requests, ff_malloc(t, asked)
      PROVE  BytesKept
  BY <1>1, SizesAssumption, MallocBytes
<1>2. ASSUME NEW a \in CallocArgs, ff_calloc(t, a[1], a[2])
      PROVE  BytesKept
  <2>1. a[1] \in SizeT /\ a[2] \in SizeT
    BY SizesAssumption
  <2>2. PICK n \in SizeT, e \in SizeT : n = a[1] /\ e = a[2]
    BY <2>1
  <2>3. n # 0 /\ e # 0 /\ ~ProductOverflows(n, e) /\ ff_malloc(t, n * e)
    BY <1>2, <2>2 DEF ff_calloc
  <2>4. PICK x \in SizeT : x = n * e
    BY <2>3, CallocProduct
  <2>5. ff_malloc(t, x)
    BY <2>3, <2>4
  <2> QED
    BY <2>5, MallocBytes
<1>3. ASSUME NEW r \in owned[t], ff_free(t, r.ptr)
      PROVE  BytesKept
  BY <1>3, FreeBytes
<1>4. ASSUME NEW p \in {NULL} \cup {r.ptr : r \in owned[t]}, NEW asked \in Requests,
             ff_realloc(t, p, asked)
      PROVE  BytesKept
  <2>1. asked \in SizeT
    BY SizesAssumption
  <2>2. CASE p = NULL /\ ff_malloc(t, asked)
    BY <2>1, <2>2, MallocBytes
  <2>3. CASE p # NULL /\ asked = 0 /\ ff_free(t, p)
    <3>1. PICK r \in owned[t] : p = r.ptr
      BY <2>3
    <3> QED
      BY <2>3, <3>1, FreeBytes
  <2>4. CASE p # NULL /\ asked # 0 /\ Resize(t, p, asked)
    <3>1. PICK r \in owned[t] : p = r.ptr
      BY <2>4
    <3> QED
      BY <2>1, <2>4, <3>1, ResizeBytes
  <2> QED
    BY <1>4, <2>2, <2>3, <2>4 DEF ff_realloc
<1> QED
  BY <1>1, <1>2, <1>3, <1>4 DEF Call

\* No call moves the first header.
LEMMA CallStart ==
  ASSUME NEW t \in Threads, Call(t)
  PROVE  thread_heap_start' = thread_heap_start
BY DEF Call, ff_malloc, ff_calloc, ff_free, ff_realloc, Resize

\* Nothing in request_space does, but the first Link.
LEMMA WorkStart ==
  ASSUME SafeHeaps, NEW t \in Threads, Work(t), ~Link(t)
  PROVE  thread_heap_start' = thread_heap_start /\ BytesKept
<1>1. Types
  BY SafeParts
<1>2. CASE Lock(t) \/ ReadBreak(t) \/ Extend(t) \/ ExtendRefused(t)
  <2>1. heap' = heap /\ thread_heap_start' = thread_heap_start
    BY <1>2 DEF Lock, ReadBreak, Extend, ExtendRefused
  <2> QED
    BY <2>1, BytesOfNone
<1>3. CASE Unlock(t)
  <2>1. thread_heap_start' = thread_heap_start
    BY <1>3 DEF Unlock
  <2>2. heap' = heap
    <3>1. CASE brk_before[t] = NULL
      <4>1. Finish(t, heap[t], NULL, NULL, 0)
        BY <1>3, <3>1 DEF Unlock
      <4>2. heap' = [heap EXCEPT ![t] = heap[t]]
        BY <4>1 DEF Finish
      <4> QED
        BY <1>1, <4>2 DEF Types
    <3>2. CASE brk_before[t] # NULL
      BY <1>3, <3>2 DEF Unlock
    <3> QED
      BY <3>1, <3>2
  <2> QED
    BY <2>1, <2>2, BytesOfNone
<1> QED
  BY <1>2, <1>3 DEF Work

\* Link sets thread_heap_start to the block it links, if that is the first.
LEMMA LinkStart ==
  ASSUME SafeHeaps, SafeHeaps', StartsKnown, NEW t \in Threads, Link(t)
  PROVE  StartsKnown'
<1>1. Types /\ ThreadSafe(t)
  BY SafeParts
<1>2. PICK b, p, asked : InCall(t, b, p, asked)
  BY DEF InCall
<1>3. PICK q : q = b + HDR
  OBVIOUS
<1>4. PICK o : o = With(owned[t], q, asked)
  OBVIOUS
<1>5. /\ Holds(t) /\ \A j \in 1..Len(heap[t]) : BlockEnd(heap[t][j]) <= b
      /\ \E g, h : /\ Returns(t, g, Rest(o, p)) /\ Left(g, h, p)
                   /\ \A a \in Nat : Covers(h, a) <=> Mine(t, a)
  BY <1>2, <1>3, <1>4, LinkReturns
<1>6. PICK g, h : /\ Returns(t, g, Rest(o, p)) /\ Left(g, h, p)
                  /\ \A a \in Nat : Covers(h, a) <=> Mine(t, a)
  BY <1>5
<1>7. \A a \in Nat : Covers(g, a) <=> Mine(t, a)
  BY <1>6 DEF Left, SameBytes
<1>8. heap' = [heap EXCEPT ![t] = g] /\ heap'[t] = g
  BY <1>1, <1>6 DEF Returns, Types
<1>9. thread_heap_start' = [thread_heap_start EXCEPT ![t] = IF @ = NULL THEN b ELSE @]
  BY <1>2 DEF Link, InCall
<1>10. /\ b \in Nat /\ g \in Seq(Block) /\ Ordered(g) /\ heap[t] \in Seq(Block) /\ Ordered(heap[t])
       /\ HeldEnd(t) \in Nat /\ b < HeldEnd(t)
  <2>1. call[t].size \in Nat /\ b \in Nat /\ heap[t] \in Seq(Block)
    BY <1>1, <1>2, TypesOf DEF InCall
  <2>2. HeldEnd(t) = b + HDR + call[t].size
    BY <1>2 DEF HeldEnd, InCall
  <2>3. HeldEnd(t) \in Nat /\ b < HeldEnd(t)
    BY <2>1, <2>2, Sizes
  <2>4. GoodList(g) /\ GoodList(heap[t])
    BY <1>1, <1>6 DEF ThreadSafe, Left
  <2> QED
    BY <2>1, <2>3, <2>4 DEF GoodList
<1>11. \A a \in Nat : Covers(g, a) <=> Covers(heap[t], a) \/ (b <= a /\ a < HeldEnd(t))
  BY <1>2, <1>5, <1>7 DEF Mine, InCall
<1>12. ASSUME NEW u \in Threads \ {t}
       PROVE  thread_heap_start'[u] = IF heap'[u] = <<>> THEN NULL ELSE heap'[u][1].at
  <2>1. heap'[u] = heap[u] /\ thread_heap_start'[u] = thread_heap_start[u]
    BY <1>1, <1>8, <1>9 DEF Types
  <2> QED
    BY <2>1 DEF StartsKnown
<1>13. thread_heap_start'[t] = IF g = <<>> THEN NULL ELSE g[1].at
  <2>1. thread_heap_start'[t] = IF thread_heap_start[t] = NULL THEN b ELSE thread_heap_start[t]
    BY <1>1, <1>9 DEF Types
  <2>2. Covers(g, b) /\ g # <<>>
    BY <1>10, <1>11, FirstByte
  <2>3. PICK c \in Nat : c = g[1].at /\ Covers(g, c) /\ \A a \in Nat : Covers(g, a) => c <= a
    BY <1>10, <2>2, FirstByte
  <2>4. CASE heap[t] = <<>>
    <3>1. \A a \in Nat : ~Covers(heap[t], a)
      BY <1>10, <2>4, FirstByte
    <3>2. b <= c /\ c <= b
      BY <1>10, <1>11, <2>2, <2>3, <3>1
    <3>3. thread_heap_start[t] = NULL
      BY <2>4 DEF StartsKnown
    <3> QED
      BY <1>10, <2>1, <2>2, <2>3, <3>2, <3>3
  <2>5. CASE heap[t] # <<>>
    <3>1. PICK d \in Nat : /\ d = heap[t][1].at /\ Covers(heap[t], d) /\ 1 \in 1..Len(heap[t])
                           /\ \A a \in Nat : Covers(heap[t], a) => d <= a
      BY <1>10, <2>5, FirstByte
    <3>2. d < b
      <4>1. BlockEnd(heap[t][1]) <= b
        BY <1>5, <3>1
      <4>2. d < BlockEnd(heap[t][1]) /\ BlockEnd(heap[t][1]) \in Nat
        BY <1>10, <3>1, Ends
      <4> QED
        BY <1>10, <4>1, <4>2
    <3>3. c <= d
      BY <1>11, <2>3, <3>1
    <3>4. d <= c
      <4>1. CASE Covers(heap[t], c)
        BY <3>1, <4>1
      <4>2. CASE b <= c
        BY <1>10, <3>2, <4>2
      <4> QED
        BY <1>11, <2>3, <4>1, <4>2
    <3>5. thread_heap_start[t] = d
      BY <2>5, <3>1 DEF StartsKnown
    <3>6. d # NULL
      <4>1. HeapBase <= heap[t][1].at
        BY <1>1, <3>1 DEF ThreadSafe, Placed
      <4> QED
        BY <3>1, <4>1, HeapAssumption
    <3> QED
      BY <2>1, <2>2, <2>3, <3>3, <3>4, <3>5, <3>6
  <2> QED
    BY <2>4, <2>5
<1> QED
  BY <1>8, <1>12, <1>13 DEF StartsKnown

\* Every step.
LEMMA StartsNext ==
  ASSUME SafeHeaps, SafeHeaps', StartsKnown, [Next]_vars
  PROVE  StartsKnown'
<1>1. ASSUME NEW t \in Threads, Call(t)
      PROVE  StartsKnown'
  BY <1>1, CallBytes, CallStart, StartsKept
<1>2. ASSUME NEW t \in Threads, Work(t)
      PROVE  StartsKnown'
  <2>1. CASE Link(t)
    BY <2>1, LinkStart
  <2>2. CASE ~Link(t)
    BY <1>2, <2>2, WorkStart, StartsKept
  <2> QED
    BY <2>1, <2>2
<1>3. CASE LibcSbrk
  <2>1. heap' = heap /\ thread_heap_start' = thread_heap_start
    BY <1>3 DEF LibcSbrk
  <2> QED
    BY <2>1, BytesOfNone, StartsKept
<1>4. CASE UNCHANGED vars
  BY <1>4 DEF vars, StartsKnown
<1> QED
  BY <1>1, <1>2, <1>3, <1>4 DEF Next

\* From the first to the last byte of its heap, what is not in t's blocks is
\* in another thread's or in libc's.
LEMMA SpanSplits ==
  ASSUME SafeHeaps, NEW t \in Threads, NEW h, h = heap[t], h # <<>>,
         NEW s \in Nat, s = h[1].at, s = thread_heap_start[t],
         NEW e \in Nat, e = BlockEnd(h[Len(h)])
  PROVE  /\ heap_end(t) = e /\ s < e
         /\ s..(e - 1) = UpTo(h, Len(h)) \cup Foreign(t)
         /\ UpTo(h, Len(h)) \cap Foreign(t) = {}
<1>1. Types /\ ThreadSafe(t)
  BY SafeParts
<1>2. /\ h \in Seq(Block) /\ Ordered(h) /\ Placed(t)
      /\ brk \in Nat /\ HeapBase \in Nat /\ brk_before[t] \in Nat
  BY <1>1, TypesOf DEF ThreadSafe, GoodList
<1>3. PICK l \in Nat : l = Len(h)
  BY <1>2, Headers
<1>4. 1 \in 1..l /\ l \in 1..l
  BY <1>2, <1>3, FirstByte
<1>5. heap_end(t) = e
  BY DEF heap_end, Last
<1>6. \A j \in 1..l : s <= h[j].at /\ BlockEnd(h[j]) <= e /\ h[j].at \in Nat /\ BlockEnd(h[j]) \in Nat
  <2>1. ASSUME NEW j \in 1..l
        PROVE  s <= h[j].at /\ BlockEnd(h[j]) <= e
    <3>1. /\ h[j].at \in Nat /\ BlockEnd(h[j]) \in Nat /\ h[j].at < BlockEnd(h[j])
          /\ h[1].at < BlockEnd(h[1]) /\ BlockEnd(h[1]) \in Nat
          /\ h[l].at < BlockEnd(h[l]) /\ h[l].at \in Nat
      BY <1>2, <1>3, <1>4, Headers, Ends
    <3>2. j = 1 \/ BlockEnd(h[1]) <= h[j].at
      BY <1>2, <1>3, <1>4 DEF Ordered
    <3>3. j = l \/ BlockEnd(h[j]) <= h[l].at
      BY <1>2, <1>3, <1>4 DEF Ordered
    <3>4. s <= h[j].at
      <4>1. CASE j = 1
        <5>1. h[j].at = h[1].at
          BY <4>1
        <5>2. h[1].at = s
          OBVIOUS
        <5>3. s <= s
          OBVIOUS
        <5> QED
          BY <5>1, <5>2, <5>3
      <4>2. CASE BlockEnd(h[1]) <= h[j].at
        <5>1. PICK x \in Nat, y \in Nat : x = BlockEnd(h[1]) /\ y = h[j].at
          BY <3>1
        <5>2. s < x /\ x <= y
          BY <3>1, <4>2, <5>1
        <5>3. s <= y
          BY <5>2
        <5> QED
          BY <5>1, <5>3
      <4> QED
        BY <3>2, <4>1, <4>2
    <3>5. BlockEnd(h[j]) <= e
      BY <1>3, <3>1, <3>3
    <3> QED
      BY <3>4, <3>5
  <2>2. \A j \in 1..l : h[j].at \in Nat /\ BlockEnd(h[j]) \in Nat
    BY <1>2, <1>3, Headers, Ends
  <2> QED
    BY <2>1, <2>2
<1>7. s < e
  BY <1>2, <1>3, <1>4, <1>6, Ends
<1>8. HeapBase <= s /\ e <= brk /\ (Holds(t) => e <= brk_before[t])
  <2>1. HeapBase <= s /\ e <= IF Holds(t) THEN brk_before[t] ELSE brk
    BY <1>2, <1>3, <1>4 DEF Placed
  <2>2. PICK r : r = [thread |-> t, from |-> h[l].at, to |-> BlockEnd(h[l])]
    OBVIOUS
  <2>3. Region(r, t)
    BY <1>3, <1>4, <2>2 DEF Region
  <2>4. r.to <= brk /\ r.to = e
    BY <1>3, <2>2, <2>3, StretchMine
  <2> QED
    BY <2>1, <2>4
<1>9. \A a \in Nat : a \in UpTo(h, l) <=> Covers(h, a)
  BY <1>3 DEF UpTo, Covers
<1>10. \A a \in Nat : a \in Foreign(t) <=>
         /\ s <= a /\ a < e
         /\ a \in libc \/ \E r \in Regions : r.thread # t /\ r.from <= a /\ a < r.to
  <2>1. \A a \in Nat : a \in s..(e - 1) <=> s <= a /\ a < e
    OBVIOUS
  <2> QED
    BY <1>5, <2>1 DEF Foreign
<1>11. UpTo(h, l) \subseteq Nat /\ Foreign(t) \subseteq Nat /\ s..(e - 1) \subseteq Nat
  BY <1>5 DEF UpTo, Foreign
<1>12. \A r : r \in Regions <=> \E u \in Threads : Region(r, u)
  BY <1>1, RegionsAre
<1>13. ASSUME NEW a \in Nat, s <= a, a < e
       PROVE  /\ \A u, v \in Threads : Mine(u, a) /\ Mine(v, a) => u = v
              /\ a \in libc <=> \A u \in Threads : ~Mine(u, a)
              /\ Mine(t, a) <=> Covers(h, a)
  <2>1. a \in HeapBase..(brk - 1)
    BY <1>2, <1>8, <1>13
  <2>2. OneOwner(a)
    BY <2>1, SafeParts
  <2>3. ~(Holds(t) /\ brk_before[t] <= a)
    BY <1>2, <1>8, <1>13
  <2> QED
    BY <2>2, <2>3 DEF OneOwner, Mine
<1>14. ASSUME NEW a \in Nat, a \in UpTo(h, l)
       PROVE  s <= a /\ a < e /\ a \notin Foreign(t)
  <2>1. Covers(h, a)
    BY <1>9, <1>14
  <2>2. PICK j \in 1..l : h[j].at <= a /\ a < BlockEnd(h[j])
    BY <1>3, <2>1 DEF Covers
  <2>3. s <= a /\ a < e
    BY <1>6, <2>2
  <2>4. Mine(t, a) /\ a \notin libc
    BY <1>13, <2>1, <2>3
  <2>5. ASSUME NEW r \in Regions, r.thread # t, r.from <= a, a < r.to
        PROVE  FALSE
    <3>1. PICK u \in Threads : Region(r, u)
      BY <1>12
    <3>2. r.thread = u /\ Mine(u, a)
      BY <2>5, <3>1, StretchMine
    <3> QED
      BY <1>13, <2>3, <2>4, <2>5, <3>2
  <2> QED
    BY <1>10, <2>3, <2>4, <2>5
<1>15. ASSUME NEW a \in Nat, s <= a, a < e, a \notin UpTo(h, l)
       PROVE  a \in Foreign(t)
  <2>1. ~Mine(t, a)
    BY <1>9, <1>13, <1>15
  <2>2. CASE a \in libc
    BY <1>10, <1>15, <2>2
  <2>3. CASE a \notin libc
    <3>1. PICK u \in Threads : Mine(u, a)
      BY <1>13, <1>15, <2>3
    <3>2. PICK r : Region(r, u) /\ r.from <= a /\ a < r.to
      BY <3>1, MineStretch
    <3>3. r \in Regions /\ r.thread = u /\ u # t
      BY <1>12, <2>1, <3>1, <3>2, StretchMine
    <3> QED
      BY <1>10, <1>15, <3>2, <3>3
  <2> QED
    BY <2>2, <2>3
<1>16. \A a \in Nat : a \in Foreign(t) => s <= a /\ a < e
  BY <1>10
<1>17. \A a \in Nat : a \in s..(e - 1) <=> s <= a /\ a < e
  OBVIOUS
<1>18. s..(e - 1) = UpTo(h, l) \cup Foreign(t)
  BY <1>11, <1>14, <1>15, <1>16, <1>17
<1>19. UpTo(h, l) \cap Foreign(t) = {}
  BY <1>11, <1>14
<1> QED
  BY <1>3, <1>5, <1>7, <1>18, <1>19

(* The bytes from thread_heap_start to heap_end are those the thread has   *)
(* consumed and those that the others and libc took in between, for any    *)
(* number of threads.                                                      *)
THEOREM SpansAre == Spec => []SpanIsConsumptionAndGaps
<1>1. ASSUME SafeHeaps, StartsKnown
      PROVE  SpanIsConsumptionAndGaps
  <2>1. ASSUME NEW t \in Threads, heap[t] # <<>>
        PROVE  heap_end(t) - thread_heap_start[t] = consumed(t) + Cardinality(Foreign(t))
    <3>1. PICK h : h = heap[t]
      OBVIOUS
    <3>2. GoodList(h)
      BY <1>1, <3>1 DEF SafeHeaps
    <3>3. h \in Seq(Block) /\ Ordered(h) /\ h # <<>>
      BY <2>1, <3>1, <3>2 DEF GoodList
    <3>4. 1 \in 1..Len(h) /\ h[1].at \in Nat /\ Len(h) \in Nat
      BY <3>3, FirstByte, Headers
    <3>5. PICK s \in Nat : s = h[1].at
      BY <3>4
    <3>6. s = thread_heap_start[t]
      BY <1>1, <3>1, <3>3, <3>5 DEF StartsKnown
    <3>7. PICK e \in Nat : e = BlockEnd(h[Len(h)])
      BY <3>3, <3>4, Ends
    <3>8. PICK U, F : U = UpTo(h, Len(h)) /\ F = Foreign(t)
      OBVIOUS
    <3>9. heap_end(t) = e /\ s < e /\ s..(e - 1) = U \cup F /\ U \cap F = {}
      BY <1>1, <3>1, <3>3, <3>5, <3>6, <3>7, <3>8, SpanSplits
    <3>10. IsFiniteSet(s..(e - 1)) /\ Cardinality(s..(e - 1)) = e - s
      <4>1. s \in Int /\ e - 1 \in Int /\ ~(s > e - 1) /\ (e - 1) - s + 1 = e - s
        BY <3>9
      <4> QED
        BY <4>1, FS_Interval
    <3>11. IsFiniteSet(U) /\ consumed(t) = Cardinality(U)
      BY <3>1, <3>2, <3>8, ConsumedCounts
    <3>12. IsFiniteSet(F)
      <4>1. F \in SUBSET (s..(e - 1))
        BY <3>9
      <4> QED
        BY <3>10, <4>1, FS_Subset
    <3>13. PICK x \in Nat, y \in Nat : x = Cardinality(U) /\ y = Cardinality(F)
      BY <3>11, <3>12, FS_CardinalityType
    <3>14. Cardinality(U \cup F) = x + y - Cardinality(U \cap F)
      BY <3>11, <3>12, <3>13, FS_Union
    <3>15. Cardinality(U \cap F) = 0
      BY <3>9, FS_EmptySet
    <3>16. Cardinality(U \cup F) = x + y
      BY <3>14, <3>15
    <3>17. e - s = x + y
      BY <3>9, <3>10, <3>16
    <3> QED
      BY <3>6, <3>8, <3>9, <3>11, <3>13, <3>17
  <2> QED
    BY <2>1 DEF SpanIsConsumptionAndGaps
<1>2. Init => SafeHeaps /\ StartsKnown
  <2>1. Init => StartsKnown
    BY DEF Init, StartsKnown
  <2> QED
    BY <2>1, SafeInit
<1>3. SafeHeaps /\ StartsKnown /\ [Next]_vars => SafeHeaps' /\ StartsKnown'
  BY SafeNext, StartsNext
<1> QED
  BY <1>1, <1>2, <1>3, PTL DEF Spec

=============================================================================
