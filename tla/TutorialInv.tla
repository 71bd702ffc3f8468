----------------------------- MODULE TutorialInv ----------------------------
(***************************************************************************)
(* The inductive invariant of Tutorial: why blocks never overlap although  *)
(* nothing serialises the threads, why the walk through the list ends, and *)
(* why a block nobody has reused has one holder.  That the list leads to   *)
(* every block and that a reused block has one holder do not survive a     *)
(* race, and are not part of it.                                           *)
(***************************************************************************)
EXTENDS TutorialProps

\* No request makes META_SIZE + size wrap, or turn negative, in sbrk's
\* argument; of calloc's product that is the size the machine computes.
FittingRequests ==
  /\ \A s \in Requests : META_SIZE + s <= INTPTR_MAX
  /\ \A a \in CallocArgs : META_SIZE + SizeMul(a[1], a[2]) <= INTPTR_MAX

-----------------------------------------------------------------------------
\* sbrk() gave t memory that is neither a block nor handed out yet.
HasReserved(t) ==
  \/ pc[t] \in {"link", "header"}
  \/ pc[t] = "return" /\ op[t] = "nofree" /\ block[t] # NULL

ReservedEnd(t) == block[t] + sz[t] + Extra(t)

(* What sbrk() gave to a thread nobody else uses: no block and no region   *)
(* of nofree_malloc reaches into it, and no other thread was given it.     *)
ReservedOK(t) ==
  HasReserved(t) =>
    /\ ReservedEnd(t) <= brk
    /\ \A b \in blocks : BlockEnd(b) <= block[t] \/ ReservedEnd(t) <= b
    /\ \A r \in raw : r.ptr + r.len <= block[t] \/ ReservedEnd(t) <= r.ptr
    /\ \A u \in Threads \ {t} :
         HasReserved(u) => ReservedEnd(u) <= block[t] \/ ReservedEnd(t) <= block[u]

\* Which call can be at which control point.
CallOK(t) ==
  /\ pc[t] \in {"test", "step", "claim", "reuse", "link", "header", "base"} =>
       op[t] \in {"malloc", "realloc"}
  /\ pc[t] \in {"brk", "sbrk", "return"} => op[t] \in {"malloc", "realloc", "nofree"}
  /\ pc[t] \in {"check", "mark", "freed"} => op[t] \in {"free", "realloc"}
  /\ op[t] \in {"free", "realloc"} => get_block_ptr(ptr[t]) \in Addr
  /\ op[t] \in {"malloc", "nofree"} => ptr[t] = NULL
  /\ op[t] \in {"malloc", "realloc", "nofree"} => META_SIZE + sz[t] <= INTPTR_MAX

\* What the locals of the call point to.
LocalsOK(t) ==
  /\ pc[t] \in {"test", "step"} => cur[t] # NULL
  /\ pc[t] = "link" => last[t] # NULL
  /\ pc[t] \in {"claim", "reuse", "sbrk", "link", "header", "base"} => block[t] # NULL
  /\ pc[t] = "sbrk" => block[t] <= brk
  /\ op[t] = "realloc" /\ pc[t] \in {"check", "mark", "freed"} => block[t] # NULL

(* What malloc holds on to at each control point, with BlocksDisjoint.     *)
LayoutInv ==
  /\ TypeOK
  /\ BlocksDisjoint
  /\ \A t \in Threads : ReservedOK(t) /\ CallOK(t) /\ LocalsOK(t)

-----------------------------------------------------------------------------
\* Addresses in the list stay below the break and lead upwards.
ChainOK ==
  /\ global_base < brk
  /\ \A a \in Addr : next[a] < brk /\ (next[a] = NULL \/ a < next[a])

\* So do the locals; what t appends lies above the block it is linked to.
OrderOK(t) ==
  /\ cur[t] < brk /\ last[t] < brk
  /\ pc[t] \in {"claim", "reuse", "link", "header", "base"} => block[t] < brk
  /\ pc[t] = "link" => last[t] < block[t]

OrderInv == ChainOK /\ \A t \in Threads : OrderOK(t)

\* malloc has made or found the block its caller waits for.
HasFound(t) ==
  /\ op[t] \in {"malloc", "realloc"}
  /\ block[t] # NULL
  /\ pc[t] \in {"base", "return", "check", "mark", "freed"}

\* Only blocks are ever free.
FreeOK == \A a \in Addr : free[a] => a \in blocks

\* What t holds or claims are blocks.
HoldOK(t) ==
  /\ \A p \in owned[t] : get_block_ptr(p) \in blocks
  /\ op[t] \in {"free", "realloc"} => get_block_ptr(ptr[t]) \in blocks
  /\ HasFound(t) \/ pc[t] \in {"claim", "reuse"} => block[t] \in blocks

HoldInv == FreeOK /\ \A t \in Threads : HoldOK(t)

\* From the size a client means to the size of the block it gets.
GrantOK(t) ==
  /\ op[t] \in {"malloc", "realloc"} =>
       len[t] <= sz[t] \/ (variant = "preloaded" /\ len[t] > SIZE_MAX)
  /\ HasFound(t) \/ pc[t] \in {"claim", "reuse"} => sz[t] <= size[block[t]]
  /\ op[t] = "realloc" => size[get_block_ptr(ptr[t])] < sz[t]

GrantInv == \A t \in Threads : GrantOK(t)

\* t holds b: as a pointer it was given, as the argument of its call, or as
\* what its call is about to return.
Roles == {"owned", "argument", "found"}

HoldsAs(t, r, b) ==
  \/ r = "owned" /\ payload(b) \in owned[t]
  \/ r = "argument" /\ op[t] \in {"free", "realloc"} /\ get_block_ptr(ptr[t]) = b
  \/ r = "found" /\ HasFound(t) /\ block[t] = b

\* As long as nobody has reused a block it has one holder, in one role.
FreshInv ==
  \A b \in blocks : magic[b] = "fresh" =>
    \A t, u \in Threads : \A r, q \in Roles :
      HoldsAs(t, r, b) /\ HoldsAs(u, q, b) => t = u /\ r = q

SafeInv == LayoutInv /\ OrderInv /\ HoldInv /\ GrantInv /\ FreshInv

-----------------------------------------------------------------------------
(* One thread calls: what holds of the list, the marks and the frames then *)
(* is inductive on top of SafeInv.                                         *)

\* The other threads have nothing and do nothing.
OneFrames ==
  \A t \in Threads \ {Main} :
    pc[t] = "idle" /\ op[t] = "none" /\ sz[t] = 0 /\ owned[t] = {}

OneCall ==
  /\ pc[Main] = "idle" <=> op[Main] = "none"
  /\ op[Main] \in {"none", "free"} => sz[Main] = 0
  /\ op[Main] \in {"malloc", "realloc", "nofree"} => sz[Main] > 0
  /\ pc[Main] = "sbrk" => block[Main] = brk
  /\ pc[Main] = "aborted" =>
       variant = "preloaded" /\ op[Main] \in {"malloc", "realloc"} /\ block[Main] = brk
  /\ \A r \in raw : r.len > 0

\* The list from the lowest block to the highest, but for the one request_space
\* is about to append or has just made the first.
OneList ==
  /\ pc[Main] \in {"test", "step"} => cur[Main] \in blocks
  /\ op[Main] \in {"malloc", "realloc"} /\ pc[Main] \in {"brk", "sbrk", "link", "header"} =>
       \/ last[Main] = NULL /\ blocks = {}
       \/ last[Main] \in blocks /\ \A c \in blocks : c <= last[Main]
  /\ pc[Main] \in {"link", "header"} => \A c \in blocks : c < block[Main]
  /\ pc[Main] = "base" => blocks = {block[Main]}
  /\ pc[Main] # "base" =>
       /\ global_base = NULL <=> blocks = {}
       /\ blocks # {} => global_base \in blocks /\ \A b \in blocks : global_base <= b
  /\ pc[Main] = "header" /\ last[Main] # NULL => next[last[Main]] = block[Main]
  /\ \A b \in blocks : NextInOrder(b) \/ (pc[Main] = "header" /\ b = last[Main])

\* The caller's call has b as its argument and has not marked it free.
IsArgument(b) ==
  op[Main] \in {"free", "realloc"} /\ pc[Main] # "freed" /\ get_block_ptr(ptr[Main]) = b

\* The caller's call has claimed or made b.
IsFound(b) == (HasFound(Main) \/ pc[Main] = "reuse") /\ block[Main] = b

IsOwned(b) == payload(b) \in owned[Main]

\* A block is free exactly when it has no holder, it has one holder, and its
\* magic follows its free flag by one step.
MarksOK(b) ==
  /\ free[b] <=> ~(IsOwned(b) \/ IsArgument(b) \/ IsFound(b))
  /\ ~(IsOwned(b) /\ IsArgument(b)) /\ ~(IsOwned(b) /\ IsFound(b))
  /\ ~(IsArgument(b) /\ IsFound(b))
  /\ magic[b] # "zero"
  /\ \/ free[b] <=> magic[b] = "freed"
     \/ pc[Main] = "reuse" /\ b = block[Main]
     \/ pc[Main] = "freed" /\ b = get_block_ptr(ptr[Main])
  /\ pc[Main] = "claim" /\ b = block[Main] => free[b]
  /\ pc[Main] = "freed" /\ b = get_block_ptr(ptr[Main]) => free[b]

OneMarks == \A b \in blocks : MarksOK(b)

OneInv == callers = "one" => OneFrames /\ OneCall /\ OneList /\ OneMarks

=============================================================================
