------------------------------ MODULE MyMalloc ------------------------------
(***************************************************************************)
(* starter/malloc.c: the first-fit allocator with one global heap.         *)
(*                                                                         *)
(* Threads call my_malloc, my_calloc, my_free and my_realloc.  The blocks  *)
(* of the heap form a singly linked list of headers stored in the heap     *)
(* itself: address b carries the header of a block, b + META_SIZE is the   *)
(* pointer the caller gets.  my_malloc and my_free hold alloc_lock from    *)
(* end to end; my_realloc reads and splits a block without it.  An action  *)
(* is one lock operation, one loop iteration or one group of header writes *)
(* that no other thread can observe half done.                             *)
(*                                                                         *)
(* Left out: the magic field, which this file writes and never reads, and  *)
(* the bytes of the payloads.  free is a Boolean.                          *)
(*                                                                         *)
(* An operator whose name ends in _ and a remark is a mutated form of the  *)
(* one that follows it, for the mutation tests of the properties.          *)
(***************************************************************************)
EXTENDS SizeT

CONSTANTS
  Threads,              \* the threads of the process
  Reallocators,         \* those of them that call my_realloc
  Requests,             \* sizes a client asks for
  CallocArgs,           \* pairs <<nelem, elsize>> a client asks for
  META_SIZE,            \* sizeof(block_meta_t)
  MIN_SPLIT_REMAINDER,  \* smallest payload surplus that is left unsplit
  HeapBase,             \* the program break when the process starts
  BrkLimit,             \* bound: the break never moves past it
  LibcSteps,            \* bound: sizes by which libc moves the break
  NoThread              \* the value of alloc_lock when nobody holds it

ASSUME ThreadsAssumption == NoThread \notin Threads /\ Reallocators \subseteq Threads

ASSUME SizesAssumption ==
  /\ META_SIZE \in Nat \ {0}
  /\ MIN_SPLIT_REMAINDER \in Nat \ {0}
  /\ META_SIZE + MIN_SPLIT_REMAINDER <= SIZE_MAX
  /\ Requests \subseteq SizeT
  /\ CallocArgs \subseteq SizeT \X SizeT

ASSUME HeapAssumption ==
  /\ HeapBase \in Nat \ {0}
  /\ BrkLimit \in Nat
  /\ HeapBase <= BrkLimit
  /\ BrkLimit + META_SIZE + MIN_SPLIT_REMAINDER <= SIZE_MAX
  /\ LibcSteps \subseteq Nat \ {0}

NULL == 0
Addr == HeapBase..BrkLimit

VARIABLES
  brk,          \* the program break, kept by the operating system
  libc,         \* addresses libc's own allocator took from the break
  global_base,  \* head of the list
  heap_start,   \* first address sbrk() returned
  blocks,       \* auxiliary: addresses of the headers in use as blocks
  size,         \* header field, per address
  next,         \* header field, per address
  free,         \* header field, per address
  alloc_lock,   \* the holder of the mutex
  owned,        \* pointers the client holds and has not given back
  pc,           \* control point of each thread
  op,           \* the call each thread executes
  sz,           \* its argument size
  ptr,          \* its argument ptr
  cur,          \* the cursor of find_free_block and coalesce_all
  last,         \* the last block find_free_block visited
  block         \* the block being allocated or split

os     == <<brk, libc>>
base   == <<global_base, heap_start>>
header == <<size, next, free>>
heap   == <<base, blocks, header>>
frame  == <<op, sz, ptr, cur, last, block>>
vars   == <<os, heap, alloc_lock, owned, pc, frame>>

PCs == {"idle", "m_lock", "find", "split", "relink", "brk", "extend",
        "m_unlock", "copy", "f_lock", "coalesce", "f_unlock", "aborted"}

\* "resize" is a my_realloc that stays in place, "realloc" one that moves.
Ops == {"none", "malloc", "free", "realloc", "resize"}

Init ==
  /\ brk = HeapBase
  /\ libc = {}
  /\ global_base = NULL
  /\ heap_start = NULL
  /\ blocks = {}
  /\ size = [a \in Addr |-> 0]
  /\ next = [a \in Addr |-> NULL]
  /\ free = [a \in Addr |-> FALSE]
  /\ alloc_lock = NoThread
  /\ owned = {}
  /\ pc = [t \in Threads |-> "idle"]
  /\ op = [t \in Threads |-> "none"]
  /\ sz = [t \in Threads |-> 0]
  /\ ptr = [t \in Threads |-> NULL]
  /\ cur = [t \in Threads |-> NULL]
  /\ last = [t \in Threads |-> NULL]
  /\ block = [t \in Threads |-> NULL]

-----------------------------------------------------------------------------
(* Addresses.                                                              *)

\* (void * )(block + 1): the pointer a caller gets.
payload(b) == b + META_SIZE

get_block_ptr(p) == p - META_SIZE

\* (char * )(b + 1) + b->size, in the arithmetic of the machine.
PayloadEnd(b) == SizeAdd(SizeAdd(b, META_SIZE), size[b])

are_adjacent_Always(a, b) == TRUE

are_adjacent(a, b) == PayloadEnd(a) = b

Fits_InUseToo(b, s) == size[b] >= s
Fits_OneShort(b, s) == free[b] /\ size[b] + 1 >= s

\* The test of find_free_block.
Fits(b, s) == free[b] /\ size[b] >= s

-----------------------------------------------------------------------------
(* Stack frames.                                                           *)

Goto(t, l) == pc' = [pc EXCEPT ![t] = l]

Enter(t, o, s, p, l) ==
  /\ op' = [op EXCEPT ![t] = o]
  /\ sz' = [sz EXCEPT ![t] = s]
  /\ ptr' = [ptr EXCEPT ![t] = p]
  /\ Goto(t, l)

\* The call returns and hands over the pointers in ps: the frame is popped.
Return(t, ps) ==
  /\ owned' = owned \cup ps
  /\ Goto(t, "idle")
  /\ op' = [op EXCEPT ![t] = "none"]
  /\ sz' = [sz EXCEPT ![t] = 0]
  /\ ptr' = [ptr EXCEPT ![t] = NULL]
  /\ cur' = [cur EXCEPT ![t] = NULL]
  /\ last' = [last EXCEPT ![t] = NULL]
  /\ block' = [block EXCEPT ![t] = NULL]

-----------------------------------------------------------------------------
(* Calls.  A call with size 0, or my_free(NULL), changes nothing.          *)

CallMalloc(t) ==
  /\ pc[t] = "idle"
  /\ \E s \in Requests \ {0} : Enter(t, "malloc", s, NULL, "m_lock")
  /\ UNCHANGED <<os, heap, alloc_lock, owned, cur, last, block>>

\* memset() then writes the sz bytes of the payload.
CallCalloc(t) ==
  /\ pc[t] = "idle"
  /\ \E a \in CallocArgs :
       /\ a[1] # 0
       /\ a[2] # 0
       /\ ~ProductOverflows(a[1], a[2])
       /\ Enter(t, "malloc", a[1] * a[2], NULL, "m_lock")
  /\ UNCHANGED <<os, heap, alloc_lock, owned, cur, last, block>>

\* The client gives a pointer up when it calls, not when the call returns.
CallFree(t) ==
  /\ pc[t] = "idle"
  /\ \E p \in owned :
       /\ owned' = owned \ {p}
       /\ Enter(t, "free", 0, p, "f_lock")
  /\ UNCHANGED <<os, heap, alloc_lock, cur, last, block>>

ReallocNull(t, s) ==
  /\ s # 0
  /\ Enter(t, "malloc", s, NULL, "m_lock")
  /\ UNCHANGED <<owned, block>>

ReallocZero(t, p) ==
  /\ Enter(t, "free", 0, p, "f_lock")
  /\ owned' = owned \ {p}
  /\ UNCHANGED block

\* block_ptr->size >= size: split_block without alloc_lock.
ReallocInPlace(t, p, s) ==
  /\ size[get_block_ptr(p)] >= s
  /\ Enter(t, "resize", s, p, "split")
  /\ block' = [block EXCEPT ![t] = get_block_ptr(p)]
  /\ owned' = owned \ {p}

ReallocMove(t, p, s) ==
  /\ size[get_block_ptr(p)] < s
  /\ Enter(t, "realloc", s, p, "m_lock")
  /\ owned' = owned \ {p}
  /\ UNCHANGED block

CallRealloc(t) ==
  /\ pc[t] = "idle"
  /\ t \in Reallocators
  /\ \E s \in Requests :
       \/ ReallocNull(t, s)
       \/ \E p \in owned :
            \/ s = 0 /\ ReallocZero(t, p)
            \/ s # 0 /\ ReallocInPlace(t, p, s)
            \/ s # 0 /\ ReallocMove(t, p, s)
  /\ UNCHANGED <<os, heap, alloc_lock, cur, last>>

-----------------------------------------------------------------------------
(* my_malloc.                                                              *)

Acquire_AtOnce(t) == alloc_lock' = t

Acquire(t) == alloc_lock = NoThread /\ alloc_lock' = t

LockMalloc_SkipHead(t) ==
  /\ pc[t] = "m_lock"
  /\ Acquire(t)
  /\ cur' = [cur EXCEPT ![t] = IF global_base = NULL THEN NULL ELSE next[global_base]]
  /\ last' = [last EXCEPT ![t] = global_base]
  /\ Goto(t, IF global_base = NULL THEN "brk" ELSE "find")
  /\ UNCHANGED <<os, heap, owned, op, sz, ptr, block>>

LockMalloc(t) ==
  /\ pc[t] = "m_lock"
  /\ Acquire(t)
  /\ cur' = [cur EXCEPT ![t] = global_base]
  /\ last' = [last EXCEPT ![t] = global_base]
  /\ Goto(t, IF global_base = NULL THEN "brk" ELSE "find")
  /\ UNCHANGED <<os, heap, owned, op, sz, ptr, block>>

FindNext_Stay(t) ==
  /\ pc[t] = "find"
  /\ IF cur[t] = NULL
     THEN Goto(t, "brk") /\ UNCHANGED <<cur, last>>
     ELSE /\ ~Fits(cur[t], sz[t])
          /\ last' = [last EXCEPT ![t] = cur[t]]
          /\ UNCHANGED <<cur, pc>>
  /\ UNCHANGED <<os, heap, alloc_lock, owned, op, sz, ptr, block>>

FindNext_LastStays(t) ==
  /\ pc[t] = "find"
  /\ IF cur[t] = NULL
     THEN Goto(t, "brk") /\ UNCHANGED cur
     ELSE /\ ~Fits(cur[t], sz[t])
          /\ cur' = [cur EXCEPT ![t] = next[cur[t]]]
          /\ UNCHANGED pc
  /\ UNCHANGED <<os, heap, alloc_lock, owned, op, sz, ptr, last, block>>

\* One iteration of find_free_block, or its end without a block.
FindNext(t) ==
  /\ pc[t] = "find"
  /\ IF cur[t] = NULL
     THEN Goto(t, "brk") /\ UNCHANGED <<cur, last>>
     ELSE /\ ~Fits(cur[t], sz[t])
          /\ last' = [last EXCEPT ![t] = cur[t]]
          /\ cur' = [cur EXCEPT ![t] = next[cur[t]]]
          /\ UNCHANGED pc
  /\ UNCHANGED <<os, heap, alloc_lock, owned, op, sz, ptr, block>>

\* find_free_block returns a block, and my_malloc claims it.
FindFit(t) ==
  /\ pc[t] = "find"
  /\ cur[t] # NULL
  /\ Fits(cur[t], sz[t])
  /\ free' = [free EXCEPT ![cur[t]] = FALSE]
  /\ block' = [block EXCEPT ![t] = cur[t]]
  /\ Goto(t, "split")
  /\ UNCHANGED <<os, base, blocks, size, next, alloc_lock, owned, op, sz, ptr,
                 cur, last>>

NewBlock_PastEnd(t) == SizeAdd(PayloadEnd(block[t]), sz[t])

\* The header split_block places behind the wanted payload.
NewBlock(t) == SizeAdd(payload(block[t]), sz[t])

\* The payload of that block.
Remainder_NoHeader(t) == SizeSub(size[block[t]], sz[t])

Remainder(t) == SizeSub(SizeSub(size[block[t]], sz[t]), META_SIZE)

SplitWorthwhile_Always(t) == size[block[t]] >= sz[t]

SplitWorthwhile(t) ==
  size[block[t]] > SizeAdd(SizeAdd(sz[t], META_SIZE), MIN_SPLIT_REMAINDER)

\* split_block returns: my_realloc has no lock to give back.
SplitSkip(t) ==
  /\ pc[t] = "split"
  /\ ~SplitWorthwhile(t)
  /\ IF op[t] = "resize"
     THEN Return(t, {ptr[t]})
     ELSE Goto(t, "m_unlock") /\ UNCHANGED <<owned, frame>>
  /\ UNCHANGED <<os, heap, alloc_lock>>

\* split_block reads block->next and fills the new header.
SplitHeader(t) ==
  /\ pc[t] = "split"
  /\ SplitWorthwhile(t)
  /\ size' = [size EXCEPT ![NewBlock(t)] = Remainder(t)]
  /\ next' = [next EXCEPT ![NewBlock(t)] = next[block[t]]]
  /\ free' = [free EXCEPT ![NewBlock(t)] = TRUE]
  /\ Goto(t, "relink")
  /\ UNCHANGED <<os, base, blocks, alloc_lock, owned, frame>>

\* split_block shrinks block and links the new header behind it.
SplitLink(t) ==
  /\ pc[t] = "relink"
  /\ size' = [size EXCEPT ![block[t]] = sz[t]]
  /\ next' = [next EXCEPT ![block[t]] = NewBlock(t)]
  /\ blocks' = blocks \cup {NewBlock(t)}
  /\ IF op[t] = "resize"
     THEN Return(t, {ptr[t]})
     ELSE Goto(t, "m_unlock") /\ UNCHANGED <<owned, frame>>
  /\ UNCHANGED <<os, base, free, alloc_lock>>

\* request_space: current_break = sbrk(0).
ReadBreak(t) ==
  /\ pc[t] = "brk"
  /\ block' = [block EXCEPT ![t] = brk]
  /\ Goto(t, "extend")
  /\ UNCHANGED <<os, heap, alloc_lock, owned, op, sz, ptr, cur, last>>

\* The break sbrk(META_SIZE + size) asks for.
BreakWanted(t) == brk + AsIntptr(SizeAdd(META_SIZE, sz[t]))

\* request_space: sbrk(n) succeeds, the header is written and linked, and the
\* first block ever becomes global_base.
Extend(t) ==
  /\ pc[t] = "extend"
  /\ BreakWanted(t) \in Addr
  /\ brk' = BreakWanted(t)
  /\ size' = [size EXCEPT ![block[t]] = sz[t]]
  /\ next' = [a \in Addr |-> IF a = last[t] THEN block[t]
                             ELSE IF a = block[t] THEN NULL ELSE next[a]]
  /\ free' = [free EXCEPT ![block[t]] = FALSE]
  /\ blocks' = blocks \cup {block[t]}
  /\ heap_start' = IF heap_start = NULL THEN block[t] ELSE heap_start
  /\ global_base' = IF global_base = NULL THEN block[t] ELSE global_base
  /\ Goto(t, "m_unlock")
  /\ UNCHANGED <<libc, alloc_lock, owned, frame>>

\* request_space: sbrk(n) returns -1, which the system may do at any time.
ExtendRefused(t) ==
  /\ pc[t] = "extend"
  /\ block' = [block EXCEPT ![t] = NULL]
  /\ Goto(t, "m_unlock")
  /\ UNCHANGED <<os, heap, alloc_lock, owned, op, sz, ptr, cur, last>>

UnlockMalloc_NotOnFailure(t) ==
  /\ pc[t] = "m_unlock"
  /\ alloc_lock' = IF block[t] = NULL THEN alloc_lock ELSE NoThread
  /\ \/ block[t] = NULL /\ Return(t, {ptr[t]} \ {NULL})
     \/ block[t] # NULL /\ op[t] = "malloc" /\ Return(t, {payload(block[t])})
     \/ block[t] # NULL /\ op[t] = "realloc" /\ Goto(t, "copy")
                        /\ UNCHANGED <<owned, frame>>
  /\ UNCHANGED <<os, heap>>

\* my_malloc unlocks and returns, to the client or to my_realloc, which
\* returns NULL in its turn and leaves ptr valid, or goes on to copy.
UnlockMalloc(t) ==
  /\ pc[t] = "m_unlock"
  /\ alloc_lock' = NoThread
  /\ \/ block[t] = NULL /\ Return(t, {ptr[t]} \ {NULL})
     \/ block[t] # NULL /\ op[t] = "malloc" /\ Return(t, {payload(block[t])})
     \/ block[t] # NULL /\ op[t] = "realloc" /\ Goto(t, "copy")
                        /\ UNCHANGED <<owned, frame>>
  /\ UNCHANGED <<os, heap>>

\* my_realloc: memcpy(new_ptr, ptr, block_ptr->size).
Copy(t) ==
  /\ pc[t] = "copy"
  /\ Goto(t, "f_lock")
  /\ UNCHANGED <<os, heap, alloc_lock, owned, frame>>

-----------------------------------------------------------------------------
(* my_free.                                                                *)

\* my_free locks, asserts free == 0, which aborts the process when it fails,
\* and marks the block.
LockFree(t) ==
  /\ pc[t] = "f_lock"
  /\ Acquire(t)
  /\ IF free[get_block_ptr(ptr[t])]
     THEN Goto(t, "aborted") /\ UNCHANGED <<free, cur>>
     ELSE /\ free' = [free EXCEPT ![get_block_ptr(ptr[t])] = TRUE]
          /\ cur' = [cur EXCEPT ![t] = global_base]
          /\ Goto(t, "coalesce")
  /\ UNCHANGED <<os, base, blocks, size, next, owned, op, sz, ptr, last, block>>

Mergeable(b) == free[b] /\ free[next[b]] /\ are_adjacent(b, next[b])

AtListEnd_Early(t) ==
  cur[t] = NULL \/ next[cur[t]] = NULL \/ next[next[cur[t]]] = NULL

AtListEnd(t) == cur[t] = NULL \/ next[cur[t]] = NULL

Absorbed_NoHeader(b) == size[b]

\* What absorbing b adds to the size of the block before it.
Absorbed(b) == SizeAdd(META_SIZE, size[b])

\* One iteration of coalesce_all that absorbs current->next and stays.
Merge(t) ==
  /\ pc[t] = "coalesce"
  /\ ~AtListEnd(t)
  /\ Mergeable(cur[t])
  /\ LET n == next[cur[t]] IN
       /\ size' = [size EXCEPT ![cur[t]] = SizeAdd(@, Absorbed(n))]
       /\ next' = [next EXCEPT ![cur[t]] = next[n]]
       /\ blocks' = blocks \ {n}
  /\ UNCHANGED <<os, base, free, alloc_lock, owned, pc, frame>>

\* One iteration of coalesce_all that advances, or the end of the loop.
Advance(t) ==
  /\ pc[t] = "coalesce"
  /\ IF AtListEnd(t)
     THEN Goto(t, "f_unlock") /\ UNCHANGED cur
     ELSE /\ ~Mergeable(cur[t])
          /\ cur' = [cur EXCEPT ![t] = next[cur[t]]]
          /\ UNCHANGED pc
  /\ UNCHANGED <<os, heap, alloc_lock, owned, op, sz, ptr, last, block>>

\* my_free returns, to the client or to my_realloc, which returns new_ptr.
UnlockFree(t) ==
  /\ pc[t] = "f_unlock"
  /\ alloc_lock' = NoThread
  /\ Return(t, IF op[t] = "realloc" THEN {payload(block[t])} ELSE {})
  /\ UNCHANGED <<os, heap>>

-----------------------------------------------------------------------------
\* libc's own allocator, behind printf(), moves the same break.  It does not
\* take alloc_lock.  wrapper.c has one thread and prints between its calls of the
\* allocator, so it never comes between the two sbrk() calls of request_space; of
\* a client with more threads this is a condition, which the code does not enforce.
LibcSbrk ==
  /\ \A t \in Threads : pc[t] # "extend"
  /\ \E k \in LibcSteps :
       /\ brk + k <= BrkLimit
       /\ brk' = brk + k
       /\ libc' = libc \cup brk..(brk + k - 1)
  /\ UNCHANGED <<heap, alloc_lock, owned, pc, frame>>

Call(t) == CallMalloc(t) \/ CallCalloc(t) \/ CallFree(t) \/ CallRealloc(t)

Work(t) ==
  \/ LockMalloc(t) \/ FindNext(t) \/ FindFit(t)
  \/ SplitSkip(t) \/ SplitHeader(t) \/ SplitLink(t)
  \/ ReadBreak(t) \/ Extend(t) \/ ExtendRefused(t)
  \/ UnlockMalloc(t) \/ Copy(t)
  \/ LockFree(t) \/ Merge(t) \/ Advance(t) \/ UnlockFree(t)

\* A failed assert() ends the process.
Running == \A t \in Threads : pc[t] # "aborted"

Next ==
  \/ Running /\ \E t \in Threads : Call(t) \/ Work(t)
  \/ Running /\ LibcSbrk

Spec == Init /\ [][Next]_vars

\* The scheduler runs every thread.  A mutex is not fair: a thread that waits
\* for alloc_lock may be passed over for ever, so only weak fairness is assumed.
FairSpec == Spec /\ \A t \in Threads : WF_vars(Running /\ Work(t))

=============================================================================
