----------------------------- MODULE MyMallocInv ----------------------------
(***************************************************************************)
(* The inductive invariant of MyMalloc.  SafeInv holds whatever the        *)
(* threads call, also while my_realloc splits without alloc_lock; it is    *)
(* what keeps memory from being handed out twice.                          *)
(***************************************************************************)
EXTENDS MyMallocProps

\* No request makes META_SIZE + size wrap, or turn negative, in sbrk's argument.
FittingRequests ==
  /\ \A s \in Requests : META_SIZE + s <= INTPTR_MAX
  /\ \A a \in CallocArgs :
       ~ProductOverflows(a[1], a[2]) => META_SIZE + a[1] * a[2] <= INTPTR_MAX

-----------------------------------------------------------------------------
HoldsLock(t) ==
  \/ pc[t] \in {"find", "brk", "extend", "m_unlock", "coalesce", "f_unlock"}
  \/ pc[t] \in {"split", "relink"} /\ op[t] # "resize"

LockInv == \A t \in Threads : HoldsLock(t) <=> alloc_lock = t

\* The list as my_malloc and my_free rely on it: acyclic, inside blocks, and
\* with at most one predecessor for each block.
LinksInv ==
  /\ global_base = NULL <=> blocks = {}
  /\ blocks # {} => global_base \in blocks
  /\ \A b \in blocks : global_base <= b
  /\ \A b \in blocks : next[b] # NULL => next[b] \in blocks /\ b < next[b]
  /\ \A b, c \in blocks : next[b] = next[c] /\ next[b] # NULL => b = c

SpaceInv ==
  /\ BlocksDisjoint
  /\ libc \subseteq HeapBase..(brk - 1)

\* Which call can be at which control point.
CallOK(t) ==
  /\ pc[t] # "aborted"
  /\ pc[t] = "idle" <=> op[t] = "none"
  /\ pc[t] \in {"m_lock", "find", "brk", "extend", "m_unlock"} =>
       op[t] \in {"malloc", "realloc"}
  /\ pc[t] \in {"f_lock", "coalesce", "f_unlock"} => op[t] \in {"free", "realloc"}
  /\ pc[t] = "copy" => op[t] = "realloc"
  /\ pc[t] \in {"split", "relink"} => op[t] \in {"malloc", "realloc", "resize"}
  /\ op[t] = "resize" => pc[t] \in {"split", "relink"} /\ block[t] = get_block_ptr(ptr[t])
  /\ op[t] = "malloc" => ptr[t] = NULL
  /\ op[t] \in {"malloc", "realloc"} => META_SIZE + sz[t] <= INTPTR_MAX

\* What the walks point to.
CursorOK(t) ==
  /\ pc[t] \in {"find", "coalesce"} => cur[t] \in blocks \cup {NULL}
  /\ pc[t] = "find" => last[t] \in blocks
  /\ pc[t] \in {"brk", "extend"} => last[t] \in blocks \/ (last[t] = NULL /\ blocks = {})
  /\ pc[t] = "extend" => block[t] = brk
  /\ pc[t] \in {"split", "relink"} => block[t] # NULL

\* How large the blocks of a call are.
SizesOK(t) ==
  /\ pc[t] = "split" => sz[t] <= size[block[t]]
  /\ pc[t] = "m_unlock" /\ block[t] # NULL => sz[t] <= size[block[t]]
  /\ op[t] = "realloc" /\ pc[t] \in {"m_lock", "find", "brk", "extend", "split", "relink", "m_unlock"} =>
       size[get_block_ptr(ptr[t])] < sz[t]
  /\ pc[t] = "copy" => size[get_block_ptr(ptr[t])] <= size[block[t]]
  /\ op[t] = "realloc" /\ pc[t] \in {"copy", "f_lock", "coalesce", "f_unlock"} => block[t] # NULL

\* Where split_block puts its second header.
NewAt(t) == payload(block[t]) + sz[t]

\* The header split_block wrote into the payload of its block, not yet linked.
HalfSplitOK(t) ==
  pc[t] = "relink" =>
    /\ sz[t] + META_SIZE + MIN_SPLIT_REMAINDER < size[block[t]]
    /\ size[NewAt(t)] = size[block[t]] - sz[t] - META_SIZE
    /\ free[NewAt(t)]
    /\ next[NewAt(t)] # NULL =>
         /\ next[NewAt(t)] \in blocks
         /\ block[t] < next[NewAt(t)]
         /\ \A c \in blocks : next[c] = next[NewAt(t)] => c = block[t]
         /\ \A u \in Threads \ {t} :
              pc[u] = "relink" => next[NewAt(u)] # next[NewAt(t)]

Held(t) == Granted(t) \cup Surrendered(t)

\* InUseIffHeld, block by block.
HoldInv ==
  /\ \A p \in owned : p \in Nat /\ get_block_ptr(p) \in InUse
  /\ \A t \in Threads : Held(t) \subseteq InUse
  /\ \A b \in InUse : payload(b) \in owned \/ \E t \in Threads : b \in Held(t)
  /\ \A t \in Threads :
       /\ Granted(t) \cap Surrendered(t) = {}
       /\ \A b \in Held(t) : payload(b) \notin owned
       /\ \A u \in Threads \ {t} : \A b \in Held(t) : b \notin Held(u)

FrameInv ==
  \A t \in Threads : CallOK(t) /\ CursorOK(t) /\ SizesOK(t) /\ HalfSplitOK(t)

SafeInv == TypeOK /\ LockInv /\ LinksInv /\ SpaceInv /\ FrameInv /\ HoldInv

-----------------------------------------------------------------------------
\* A call that may return memory wants some, no other call does.
WantInv ==
  \A t \in Threads :
    /\ op[t] \in {"none", "free"} => sz[t] = 0
    /\ op[t] \in {"malloc", "realloc", "resize"} => sz[t] > 0

\* So no block is empty.
SizesInv == WantInv /\ \A b \in blocks : size[b] > 0

=============================================================================
