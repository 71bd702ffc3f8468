---------------------------- MODULE MyMallocProps ---------------------------
(***************************************************************************)
(* What MyMalloc promises: the shape of its heap, who holds each block,    *)
(* what a call returns, and that it implements Allocator.                  *)
(***************************************************************************)
EXTENDS MyMalloc

TypeOK ==
  /\ brk \in Addr
  /\ libc \subseteq Addr
  /\ global_base \in Addr \cup {NULL}
  /\ heap_start \in Addr \cup {NULL}
  /\ blocks \subseteq Addr
  /\ size \in [Addr -> SizeT]
  /\ next \in [Addr -> Addr \cup {NULL}]
  /\ free \in [Addr -> BOOLEAN]
  /\ alloc_lock \in Threads \cup {NoThread}
  /\ owned \subseteq Nat
  /\ pc \in [Threads -> PCs]
  /\ op \in [Threads -> Ops]
  /\ sz \in [Threads -> SizeT]
  /\ ptr \in [Threads -> Nat]
  /\ cur \in [Threads -> Addr \cup {NULL}]
  /\ last \in [Threads -> Addr \cup {NULL}]
  /\ block \in [Threads -> Addr \cup {NULL}]

-----------------------------------------------------------------------------
(* The heap.                                                               *)

BlockEnd(b) == b + META_SIZE + size[b]

Extent(b) == b..(BlockEnd(b) - 1)

\* next[b] is the block that follows b in address order, or NULL.
NextInOrder(b) ==
  \/ next[b] = NULL /\ \A c \in blocks : c <= b
  \/ next[b] \in blocks /\ b < next[b] /\ \A c \in blocks : c <= b \/ next[b] <= c

(* The list that starts at global_base visits every block, each once, in   *)
(* address order: the splits, merges and appends of several calls lose no  *)
(* block, revive no absorbed header and make no cycle (split_block,        *)
(* coalesce_all, request_space).                                           *)
ListThreadsBlocks ==
  /\ global_base = NULL <=> blocks = {}
  /\ blocks # {} => global_base \in blocks /\ \A b \in blocks : global_base <= b
  /\ \A b \in blocks : NextInOrder(b)

(* Header and payload of a block overlap no other block, stay below the    *)
(* break, and touch nothing libc took from the break (request_space,       *)
(* split_block, and the are_adjacent test of coalesce_all).                *)
BlocksDisjoint ==
  /\ \A b, c \in blocks : b < c => BlockEnd(b) <= c
  /\ \A b \in blocks : BlockEnd(b) <= brk /\ \A a \in libc : a < b \/ BlockEnd(b) <= a

(* Every address the allocator ever got from sbrk() lies in some block:    *)
(* splitting and coalescing account for each header and each byte.         *)
NoByteLost ==
  \A a \in HeapBase..(brk - 1) : a \in libc \/ \E b \in blocks : a \in Extent(b)

-----------------------------------------------------------------------------
(* Who holds a block.                                                      *)

ClientBlocks == {get_block_ptr(p) : p \in owned}

InUse == {b \in blocks : ~free[b]}

\* The block a call is about to hand to the client.
Granted(t) ==
  IF /\ op[t] \in {"malloc", "realloc"}
     /\ pc[t] \in {"split", "relink", "m_unlock", "copy", "f_lock", "coalesce", "f_unlock"}
     /\ block[t] # NULL
  THEN {block[t]} ELSE {}

\* The block a call got from the client and has not marked free.
Surrendered(t) ==
  IF /\ op[t] \in {"free", "realloc", "resize"}
     /\ pc[t] \notin {"coalesce", "f_unlock"}
  THEN {get_block_ptr(ptr[t])} ELSE {}

(* A block is marked in use exactly when the client owns its pointer or    *)
(* one call in progress holds it, and it never has two holders: nothing    *)
(* leaks inside the allocator and nothing is handed out twice (the free    *)
(* flag as my_malloc, my_free and my_realloc set it).                      *)
InUseIffHeld ==
  /\ InUse = ClientBlocks \cup UNION {Granted(t) \cup Surrendered(t) : t \in Threads}
  /\ \A t \in Threads :
       /\ Granted(t) \cap Surrendered(t) = {}
       /\ (Granted(t) \cup Surrendered(t)) \cap ClientBlocks = {}
       /\ \A u \in Threads \ {t} :
            (Granted(t) \cup Surrendered(t)) \cap (Granted(u) \cup Surrendered(u)) = {}

(* The assertion block_ptr->free == 0 of my_free never fails for a client  *)
(* that frees only what it owns, calls my_realloc makes included.          *)
AssertHolds == \A t \in Threads : pc[t] # "aborted"

(* What my_malloc is about to return has room for the request, below the   *)
(* break, and my_realloc copies no more than the new payload holds: the    *)
(* memset of my_calloc and the memcpy of my_realloc stay in the block.     *)
GrantCoversRequest ==
  \A t \in Threads :
    /\ pc[t] = "m_unlock" /\ block[t] # NULL =>
         size[block[t]] >= sz[t] /\ BlockEnd(block[t]) <= brk
    /\ pc[t] = "copy" => size[get_block_ptr(ptr[t])] <= size[block[t]]

(* A header is never written over the payload of a block the client owns,  *)
(* before or after the step: split_block and request_space place headers   *)
(* in memory nobody uses, coalesce_all drops only headers of free blocks.  *)
HeadersMissPayloads ==
  [][\A a \in Addr :
       <<size[a], next[a], free[a]>> # <<size'[a], next'[a], free'[a]>> =>
         \A p \in owned \cap owned' :
           a + META_SIZE <= p \/ p + size[get_block_ptr(p)] <= a]_vars

-----------------------------------------------------------------------------
(* Fragmentation.                                                          *)

Unmerged == {b \in blocks : next[b] # NULL /\ Mergeable(b)}

(* The single forward pass of coalesce_all is enough: when my_free unlocks *)
(* no two neighbours are both free, remainders that my_realloc split off   *)
(* without coalescing included.                                            *)
FreeLeavesNothingToMerge ==
  \A t \in Threads : pc[t] = "f_unlock" => Unmerged = {}

(* Once the client has freed everything the heap is one free block, or one *)
(* block per region when libc took memory in between.                      *)
DrainedHeapCollapses ==
  (owned = {} /\ \A t \in Threads : pc[t] = "idle") =>
    \A b \in blocks : free[b] /\ (BlockEnd(b) = brk \/ BlockEnd(b) \in libc)

-----------------------------------------------------------------------------
(* Refinement.                                                             *)

Region(b) == [ptr |-> payload(b), len |-> size[b]]

Promise == INSTANCE Allocator WITH
  Sizes   <- SizeT \ {0},
  Regions <- [ptr : Addr, len : SizeT],
  live    <- {Region(b) : b \in ClientBlocks},
  want    <- sz,
  held    <- [t \in Threads |-> IF op[t] \in {"realloc", "resize"}
                                THEN {Region(b) : b \in Surrendered(t)} ELSE {}],
  fresh   <- [t \in Threads |-> IF pc[t] \in {"split", "relink"}
                                THEN {} ELSE {Region(b) : b \in Granted(t)}]

(* The allocator implements Allocator: seen from outside, every call takes *)
(* and returns whole regions that overlap nothing anybody else holds, and  *)
(* a my_realloc that fails gives its argument back untouched.              *)
ImplementsAllocator == Promise!Spec

-----------------------------------------------------------------------------
(* Liveness.                                                               *)

(* Whoever locks alloc_lock unlocks it: the walks of find_free_block and   *)
(* coalesce_all end although other calls reshape the list in between.      *)
LockReleased == \A t \in Threads : alloc_lock = t ~> alloc_lock # t

=============================================================================
