--------------------------- MODULE MyMallocProofs ---------------------------
(***************************************************************************)
(* Proofs about MyMalloc for every number of threads, every size of the    *)
(* header and every limit of the heap.                                     *)
(***************************************************************************)
EXTENDS MyMallocInv, SizeTProofs

USE DEF SizeT, SIZE_MAX, Addr, NULL, payload, get_block_ptr

-----------------------------------------------------------------------------
\* The invariant holds when the process starts.
LEMMA InitSafe == Init => SafeInv
<1> SUFFICES ASSUME Init PROVE SafeInv
  OBVIOUS
<1> USE ThreadsAssumption, SizesAssumption, HeapAssumption, IntptrMaxAssumption DEF Init
<1>1. TypeOK
  BY DEF TypeOK, PCs, Ops
<1>2. LockInv
  BY DEF LockInv, HoldsLock
<1>3. LinksInv /\ SpaceInv
  BY DEF LinksInv, SpaceInv, BlocksDisjoint
<1>4. FrameInv
  BY DEF FrameInv, CallOK, CursorOK, SizesOK, HalfSplitOK
<1>5. HoldInv
  BY DEF HoldInv, Held, Granted, Surrendered, InUse
<1> QED
  BY <1>1, <1>2, <1>3, <1>4, <1>5 DEF SafeInv

-----------------------------------------------------------------------------
(* Steps that touch only the frame of one thread, alloc_lock and owned.    *)

\* The frame of thread u, and with it all of CallOK(u).
SameFrame(u) ==
  /\ pc'[u] = pc[u] /\ op'[u] = op[u] /\ sz'[u] = sz[u] /\ ptr'[u] = ptr[u]
  /\ cur'[u] = cur[u] /\ last'[u] = last[u] /\ block'[u] = block[u]

\* A step that writes no header leaves the frames of the other threads as
\* consistent as they were, a half-done split included.
LEMMA OthersKeepFrame ==
  ASSUME FrameInv, NEW t \in Threads,
         UNCHANGED <<brk, blocks, size, next, free>>,
         \A u \in Threads \ {t} : SameFrame(u),
         pc'[t] # "relink" \/ SameFrame(t)
  PROVE  \A u \in Threads \ {t} :
           CallOK(u)' /\ CursorOK(u)' /\ SizesOK(u)' /\ HalfSplitOK(u)'
<1> SUFFICES ASSUME NEW u \in Threads \ {t}
             PROVE  CallOK(u)' /\ CursorOK(u)' /\ SizesOK(u)' /\ HalfSplitOK(u)'
  OBVIOUS
<1>1. CallOK(u)'
  BY DEF FrameInv, CallOK, SameFrame
<1>2. CursorOK(u)'
  BY DEF FrameInv, CursorOK, SameFrame
<1>3. SizesOK(u)'
  BY DEF FrameInv, SizesOK, SameFrame
<1>4. HalfSplitOK(u)'
  <2>1. \A v \in Threads : pc'[v] = "relink" =>
          pc[v] = "relink" /\ block'[v] = block[v] /\ sz'[v] = sz[v]
    BY DEF SameFrame
  <2> QED
    BY <2>1 DEF FrameInv, HalfSplitOK, NewAt, SameFrame
<1> QED
  BY <1>1, <1>2, <1>3, <1>4

\* A thread whose frame does not change holds the same blocks.
LEMMA OthersKeepHeld ==
  ASSUME NEW u \in Threads, SameFrame(u)
  PROVE  Granted(u)' = Granted(u) /\ Surrendered(u)' = Surrendered(u)
BY DEF SameFrame, Granted, Surrendered

(* A step of t moves blocks between the free blocks, the client and t, and *)
(* leaves the blocks the other threads hold alone.                         *)
LEMMA HoldTransfer ==
  ASSUME HoldInv, InUse \subseteq Nat, InUse' \subseteq Nat, META_SIZE \in Nat,
         NEW t \in Threads,
         \A u \in Threads \ {t} : SameFrame(u),
         \A b \in InUse : b \in InUse' \/ b \in Held(t),
         \A b \in InUse' : b \in InUse \/ b \in Held(t)',
         Granted(t)' \cap Surrendered(t)' = {},
         \A b \in Held(t)' :
           /\ b \in InUse' /\ payload(b) \notin owned'
           /\ b \in Held(t) \/ payload(b) \in owned \/ b \notin InUse,
         \A b \in Held(t) \cap InUse' : b \in Held(t)' \/ payload(b) \in owned',
         \A p \in owned' :
           p \in owned \/ (p \in Nat /\ get_block_ptr(p) \in Held(t) \cap InUse'),
         \A p \in owned : p \in owned' \/ get_block_ptr(p) \in Held(t)'
  PROVE  HoldInv'
<1>1. \A u \in Threads \ {t} : /\ Granted(u)' = Granted(u)
                              /\ Surrendered(u)' = Surrendered(u)
                              /\ Held(u)' = Held(u)
  BY OthersKeepHeld DEF Held
<1>2. \A b \in Int : get_block_ptr(payload(b)) = b
  OBVIOUS
<1>3. \A p \in Nat : payload(get_block_ptr(p)) = p
  OBVIOUS
<1>4. ASSUME NEW p \in owned'
      PROVE  p \in Nat /\ get_block_ptr(p) \in InUse'
  <2>1. CASE p \in owned
    <3>1. p \in Nat /\ get_block_ptr(p) \in InUse
      BY <2>1 DEF HoldInv
    <3>2. ASSUME get_block_ptr(p) \in Held(t)
          PROVE  FALSE
      <4>1. payload(get_block_ptr(p)) \notin owned
        BY <3>2 DEF HoldInv
      <4> QED
        BY <4>1, <3>1, <2>1, <1>3
    <3> QED
      BY <3>1, <3>2
  <2> QED
    BY <2>1, <1>4
<1>5. ASSUME NEW u \in Threads
      PROVE  Held(u)' \subseteq InUse'
  <2>1. CASE u = t
    BY <2>1
  <2>2. ASSUME u # t, NEW b \in Held(u)'
        PROVE  b \in InUse'
    <3>1. b \in Held(u) /\ b \in InUse /\ b \notin Held(t)
      BY <2>2, <1>1 DEF HoldInv
    <3> QED
      BY <3>1
  <2> QED
    BY <2>1, <2>2
<1>6. ASSUME NEW b \in InUse'
      PROVE  payload(b) \in owned' \/ \E u \in Threads : b \in Held(u)'
  <2>1. CASE b \in Held(t)
    BY <2>1
  <2>2. CASE b \in InUse /\ payload(b) \in owned
    BY <2>2, <1>2
  <2>3. CASE \E u \in Threads \ {t} : b \in Held(u)
    BY <2>3, <1>1
  <2> QED
    BY <2>1, <2>2, <2>3 DEF HoldInv
<1>7. ASSUME NEW u \in Threads
      PROVE  /\ Granted(u)' \cap Surrendered(u)' = {}
             /\ \A b \in Held(u)' : payload(b) \notin owned'
  <2>1. CASE u = t
    BY <2>1
  <2>2. CASE u # t
    <3>1. Granted(u)' \cap Surrendered(u)' = {}
      BY <2>2, <1>1 DEF HoldInv
    <3>2. ASSUME NEW b \in Held(u)', payload(b) \in owned'
          PROVE  FALSE
      <4>1. b \in Held(u) /\ b \in InUse /\ payload(b) \notin owned /\ b \notin Held(t)
        BY <2>2, <3>2, <1>1 DEF HoldInv
      <4> QED
        BY <4>1, <3>2, <1>2
    <3> QED
      BY <3>1, <3>2
  <2> QED
    BY <2>1, <2>2
<1>8. ASSUME NEW u \in Threads, NEW v \in Threads \ {u}
      PROVE  \A b \in Held(u)' : b \notin Held(v)'
  <2>1. ASSUME NEW w \in Threads \ {t}
        PROVE  \A b \in Held(t)' : b \notin Held(w)'
    BY <1>1, <2>1 DEF HoldInv
  <2>2. CASE u # t /\ v # t
    BY <2>2, <1>1 DEF HoldInv
  <2> QED
    BY <2>1, <2>2
<1> QED
  BY <1>4, <1>5, <1>6, <1>7, <1>8 DEF HoldInv


\* Blocks in use are numbers, so that payload() of two of them differ.
LEMMA InUseNat ==
  ASSUME TypeOK PROVE InUse \subseteq Nat
<1>1. Addr \subseteq Nat
  BY HeapAssumption
<1>2. InUse \subseteq blocks
  BY DEF InUse
<1> QED
  BY <1>1, <1>2 DEF TypeOK

\* The same after a step.
LEMMA InUseNatPrime ==
  ASSUME TypeOK' PROVE InUse' \subseteq Nat
<1>1. Addr \subseteq Nat
  BY HeapAssumption
<1>2. InUse' \subseteq blocks'
  BY DEF InUse
<1> QED
  BY <1>1, <1>2 DEF TypeOK

\* A step that moves no block.
LEMMA HoldSame ==
  ASSUME HoldInv, NEW t \in Threads,
         \A u \in Threads \ {t} : SameFrame(u),
         InUse' = InUse, owned' = owned,
         Granted(t)' = Granted(t), Surrendered(t)' = Surrendered(t)
  PROVE  HoldInv'
<1>1. \A u \in Threads : /\ Granted(u)' = Granted(u)
                         /\ Surrendered(u)' = Surrendered(u)
                         /\ Held(u)' = Held(u)
  BY OthersKeepHeld DEF Held
<1> QED
  BY <1>1 DEF HoldInv

\* A step that leaves the heap alone.
HeapSame == UNCHANGED <<brk, libc, global_base, blocks, size, next, free>>

\* A step that leaves the heap alone preserves what is said of it.
LEMMA HeapSameSafe ==
  ASSUME LinksInv, SpaceInv, HeapSame
  PROVE  LinksInv' /\ SpaceInv' /\ InUse' = InUse
<1> USE DEF HeapSame
<1>1. LinksInv'
  BY DEF LinksInv
<1>2. SpaceInv'
  BY DEF SpaceInv, BlocksDisjoint, BlockEnd
<1>3. InUse' = InUse
  BY DEF InUse
<1> QED
  BY <1>1, <1>2, <1>3

\* A step of one thread that leaves the heap alone preserves the invariant
\* when it preserves the thread's own part.
LEMMA QuietStep ==
  ASSUME SafeInv, NEW t \in Threads, HeapSame,
         \A u \in Threads \ {t} : SameFrame(u),
         TypeOK', LockInv', CallOK(t)', CursorOK(t)', SizesOK(t)', HoldInv',
         pc'[t] # "relink" \/ SameFrame(t)
  PROVE  SafeInv'
<1>1. LinksInv' /\ SpaceInv'
  BY HeapSameSafe DEF SafeInv
<1>2. HalfSplitOK(t)'
  <2>1. CASE pc'[t] # "relink"
    BY <2>1 DEF HalfSplitOK
  <2>2. CASE pc'[t] = "relink"
    <3>1. \A v \in Threads : pc'[v] = "relink" =>
            pc[v] = "relink" /\ block'[v] = block[v] /\ sz'[v] = sz[v]
      BY <2>2 DEF SameFrame
    <3> QED
      BY <3>1, <2>2 DEF SafeInv, FrameInv, HalfSplitOK, NewAt, HeapSame
  <2> QED
    BY <2>1, <2>2
<1>3. \A u \in Threads \ {t} :
        CallOK(u)' /\ CursorOK(u)' /\ SizesOK(u)' /\ HalfSplitOK(u)'
  BY OthersKeepFrame DEF SafeInv, HeapSame
<1>4. FrameInv'
  BY <1>2, <1>3 DEF FrameInv
<1> QED
  BY <1>1, <1>4 DEF SafeInv


\* The client gives the block of p to the call of t.
LEMMA HoldGive ==
  ASSUME HoldInv, InUse \subseteq Nat, META_SIZE \in Nat, NEW t \in Threads,
         NEW p \in owned,
         \A u \in Threads \ {t} : SameFrame(u),
         InUse' = InUse, owned' = owned \ {p},
         Held(t) = {}, Granted(t)' = {}, Surrendered(t)' = {get_block_ptr(p)}
  PROVE  HoldInv'
<1>1. Held(t)' = {get_block_ptr(p)} /\ Granted(t)' \cap Surrendered(t)' = {}
  BY DEF Held
<1>2. p \in Nat /\ get_block_ptr(p) \in InUse /\ payload(get_block_ptr(p)) = p
  BY DEF HoldInv
<1>3. \A b \in Held(t)' : /\ b \in InUse' /\ payload(b) \notin owned'
                          /\ payload(b) \in owned
  BY <1>1, <1>2
<1> QED
  BY <1>1, <1>2, <1>3, HoldTransfer

\* The call of t gives what it holds to the client.
LEMMA HoldTake ==
  ASSUME HoldInv, InUse \subseteq Nat, META_SIZE \in Nat, NEW t \in Threads,
         \A u \in Threads \ {t} : SameFrame(u),
         InUse' = InUse, owned' = owned \cup {payload(b) : b \in Held(t)},
         Granted(t)' = {}, Surrendered(t)' = {}
  PROVE  HoldInv'
<1>1. Held(t)' = {} /\ Granted(t)' \cap Surrendered(t)' = {}
  BY DEF Held
<1>2. \A b \in Held(t) : b \in InUse
  BY DEF HoldInv
<1>3. ASSUME NEW p \in owned'
      PROVE  p \in owned \/ (p \in Nat /\ get_block_ptr(p) \in Held(t) \cap InUse')
  <2>1. CASE p \in owned
    BY <2>1
  <2>2. ASSUME NEW b \in Held(t), p = payload(b)
        PROVE  p \in owned \/ (p \in Nat /\ get_block_ptr(p) \in Held(t) \cap InUse')
    <3>1. b \in InUse /\ b \in Nat
      BY <1>2
    <3>2. p \in Nat /\ get_block_ptr(p) = b
      BY <2>2, <3>1
    <3> QED
      BY <3>1, <3>2, <1>2
  <2> QED
    BY <2>1, <2>2
<1> QED
  BY <1>1, <1>2, <1>3, HoldTransfer

-----------------------------------------------------------------------------
(* The actions one by one.                                                 *)

\* my_malloc may take the lock: nobody else is in the list then.
LEMMA LockMallocSafe ==
  ASSUME SafeInv, NEW t \in Threads, LockMalloc(t)
  PROVE  SafeInv'
<1> USE ThreadsAssumption, SizesAssumption, HeapAssumption, IntptrMaxAssumption
    DEF LockMalloc, Acquire, Goto
<1>1. TypeOK /\ LockInv /\ LinksInv /\ FrameInv /\ HoldInv
  BY DEF SafeInv
<1>2. HeapSame
  BY DEF HeapSame, os, heap, base, header
<1>3. TypeOK'
  BY <1>1 DEF TypeOK, PCs, os, heap, base, header
<1>4. \A u \in Threads \ {t} : SameFrame(u)
  BY <1>1 DEF TypeOK, SameFrame
<1>5. LockInv'
  BY <1>1 DEF TypeOK, LockInv, HoldsLock
<1>6. CallOK(t)' /\ SizesOK(t)'
  BY <1>1, <1>2 DEF TypeOK, FrameInv, CallOK, SizesOK, HeapSame
<1>7. CursorOK(t)'
  BY <1>1, <1>2 DEF TypeOK, FrameInv, CallOK, CursorOK, LinksInv, HeapSame
<1>8. Granted(t)' = Granted(t) /\ Surrendered(t)' = Surrendered(t)
  BY <1>1 DEF TypeOK, Granted, Surrendered
<1>9. pc'[t] # "relink" /\ owned' = owned /\ InUse' = InUse
  BY <1>1, <1>2 DEF TypeOK, HeapSame, InUse
<1>10. HoldInv'
  BY <1>1, <1>4, <1>8, <1>9, HoldSame
<1> QED
  BY <1>2, <1>3, <1>4, <1>5, <1>6, <1>7, <1>9, <1>10, QuietStep

\* The frame of t after the call has returned.
Popped(t) ==
  /\ pc' = [pc EXCEPT ![t] = "idle"]
  /\ op' = [op EXCEPT ![t] = "none"]
  /\ sz' = [sz EXCEPT ![t] = 0]
  /\ ptr' = [ptr EXCEPT ![t] = NULL]
  /\ cur' = [cur EXCEPT ![t] = NULL]
  /\ last' = [last EXCEPT ![t] = NULL]
  /\ block' = [block EXCEPT ![t] = NULL]

\* The frame of a call that returned is an empty one.
LEMMA PoppedFrame ==
  ASSUME TypeOK, NEW t \in Threads, Popped(t)
  PROVE  /\ pc' \in [Threads -> PCs] /\ op' \in [Threads -> Ops]
         /\ sz' \in [Threads -> SizeT] /\ ptr' \in [Threads -> Nat]
         /\ cur' \in [Threads -> Addr \cup {NULL}]
         /\ last' \in [Threads -> Addr \cup {NULL}]
         /\ block' \in [Threads -> Addr \cup {NULL}]
         /\ \A u \in Threads \ {t} : SameFrame(u)
         /\ CallOK(t)' /\ CursorOK(t)' /\ SizesOK(t)'
         /\ Granted(t)' = {} /\ Surrendered(t)' = {}
         /\ pc'[t] = "idle" /\ op'[t] = "none"
<1> USE IntptrMaxAssumption DEF Popped, TypeOK
<1>1. /\ pc' \in [Threads -> PCs] /\ op' \in [Threads -> Ops]
      /\ sz' \in [Threads -> SizeT] /\ ptr' \in [Threads -> Nat]
      /\ cur' \in [Threads -> Addr \cup {NULL}]
      /\ last' \in [Threads -> Addr \cup {NULL}]
      /\ block' \in [Threads -> Addr \cup {NULL}]
  BY DEF PCs, Ops
<1>2. \A u \in Threads \ {t} : SameFrame(u)
  BY DEF SameFrame
<1>3. pc'[t] = "idle" /\ op'[t] = "none"
  OBVIOUS
<1>4. CallOK(t)' /\ CursorOK(t)' /\ SizesOK(t)'
  BY <1>3 DEF CallOK, CursorOK, SizesOK
<1>5. Granted(t)' = {} /\ Surrendered(t)' = {}
  BY <1>3 DEF Granted, Surrendered
<1> QED
  BY <1>1, <1>2, <1>3, <1>4, <1>5

\* my_free gives the lock back, and my_realloc its new block to the client.
LEMMA UnlockFreeSafe ==
  ASSUME SafeInv, NEW t \in Threads, UnlockFree(t)
  PROVE  SafeInv'
<1> USE ThreadsAssumption, SizesAssumption, HeapAssumption, IntptrMaxAssumption
    DEF UnlockFree
<1>1. TypeOK /\ LockInv /\ LinksInv /\ FrameInv /\ HoldInv
  BY DEF SafeInv
<1>2. HeapSame /\ InUse' = InUse /\ InUse \subseteq Nat
  BY <1>1, HeapSameSafe, InUseNat DEF SafeInv, HeapSame, os, heap, base, header
<1>3. Popped(t)
  BY DEF Popped, Return, Goto
<1>4. Held(t) = IF op[t] = "realloc" THEN {block[t]} ELSE {}
  BY <1>1 DEF FrameInv, CallOK, SizesOK, Held, Granted, Surrendered
<1>5. owned' = owned \cup {payload(b) : b \in Held(t)}
  BY <1>4 DEF Return
<1>6. HoldInv'
  BY <1>1, <1>2, <1>3, <1>5, PoppedFrame, HoldTake
<1>7. owned' \subseteq Nat
  BY <1>6 DEF HoldInv
<1>8. TypeOK'
  BY <1>1, <1>3, <1>7, PoppedFrame DEF TypeOK, os, heap, base, header
<1>9. LockInv'
  BY <1>1, <1>3 DEF TypeOK, LockInv, HoldsLock, Popped
<1> QED
  BY <1>1, <1>2, <1>3, <1>6, <1>8, <1>9, PoppedFrame, QuietStep

\* An iteration of find_free_block keeps the cursor in the list.
LEMMA FindNextSafe ==
  ASSUME SafeInv, NEW t \in Threads, FindNext(t)
  PROVE  SafeInv'
<1> USE ThreadsAssumption, SizesAssumption, HeapAssumption, IntptrMaxAssumption
    DEF FindNext, Goto
<1>1. TypeOK /\ LockInv /\ LinksInv /\ FrameInv /\ HoldInv
  BY DEF SafeInv
<1>2. HeapSame
  BY DEF HeapSame, os, heap, base, header, frame
<1>3. TypeOK'
  <2> HIDE DEF Addr, SizeT
  <2>1. cur[t] # NULL => next[cur[t]] \in Addr \cup {NULL}
    BY <1>1 DEF TypeOK
  <2>2. cur' \in [Threads -> Addr \cup {NULL}] /\ last' \in [Threads -> Addr \cup {NULL}]
    BY <1>1, <2>1 DEF TypeOK
  <2>3. pc' \in [Threads -> PCs]
    BY <1>1 DEF TypeOK, PCs
  <2> QED
    BY <1>1, <2>2, <2>3 DEF TypeOK, os, heap, base, header
<1>4. \A u \in Threads \ {t} : SameFrame(u)
  BY <1>1 DEF TypeOK, SameFrame, frame
<1>5. LockInv'
  BY <1>1 DEF TypeOK, LockInv, HoldsLock, frame
<1>6. CallOK(t)' /\ SizesOK(t)'
  <2>1. pc[t] = "find" /\ pc'[t] \in {"find", "brk"}
    BY <1>1 DEF TypeOK
  <2>2. UNCHANGED <<op, sz, ptr, block>>
    OBVIOUS
  <2>3. CallOK(t)'
    BY <1>1, <2>1, <2>2 DEF FrameInv, CallOK
  <2>4. SizesOK(t)'
    BY <1>1, <1>2, <2>1, <2>2 DEF FrameInv, SizesOK, HeapSame
  <2> QED
    BY <2>3, <2>4
<1>7. CursorOK(t)'
  BY <1>1, <1>2 DEF TypeOK, FrameInv, CallOK, CursorOK, LinksInv, HeapSame, frame
<1>8. Granted(t)' = Granted(t) /\ Surrendered(t)' = Surrendered(t)
  BY <1>1 DEF TypeOK, FrameInv, CallOK, Granted, Surrendered, frame
<1>9. pc'[t] # "relink" /\ owned' = owned /\ InUse' = InUse
  BY <1>1, <1>2, HeapSameSafe DEF TypeOK, SafeInv
<1>10. HoldInv'
  BY <1>1, <1>4, <1>8, <1>9, HoldSame
<1> QED
  BY <1>2, <1>3, <1>4, <1>5, <1>6, <1>7, <1>9, <1>10, QuietStep

\* After sbrk(0) the block of the thread is the break.
LEMMA ReadBreakSafe ==
  ASSUME SafeInv, NEW t \in Threads, ReadBreak(t)
  PROVE  SafeInv'
<1> USE ThreadsAssumption, SizesAssumption, HeapAssumption, IntptrMaxAssumption
    DEF ReadBreak, Goto
<1>1. TypeOK /\ LockInv /\ LinksInv /\ FrameInv /\ HoldInv
  BY DEF SafeInv
<1>2. HeapSame
  BY DEF HeapSame, os, heap, base, header, frame
<1>3. TypeOK'
  BY <1>1 DEF TypeOK, PCs, Ops, os, heap, base, header, frame
<1>4. \A u \in Threads \ {t} : SameFrame(u)
  BY <1>1 DEF TypeOK, SameFrame, frame
<1>5. LockInv'
  BY <1>1 DEF TypeOK, LockInv, HoldsLock, frame
<1>6. CallOK(t)' /\ SizesOK(t)'
  BY <1>1, <1>2 DEF TypeOK, FrameInv, CallOK, SizesOK, HeapSame, frame
<1>7. CursorOK(t)'
  BY <1>1, <1>2 DEF TypeOK, FrameInv, CallOK, CursorOK, LinksInv, HeapSame, frame
<1>8. Granted(t)' = Granted(t) /\ Surrendered(t)' = Surrendered(t)
  BY <1>1 DEF TypeOK, FrameInv, CallOK, Granted, Surrendered, frame
<1>9. pc'[t] # "relink" /\ owned' = owned /\ InUse' = InUse
  BY <1>1, <1>2, HeapSameSafe DEF TypeOK, SafeInv
<1>10. HoldInv'
  BY <1>1, <1>4, <1>8, <1>9, HoldSame
<1> QED
  BY <1>2, <1>3, <1>4, <1>5, <1>6, <1>7, <1>9, <1>10, QuietStep

\* A refused sbrk() changes nothing but the result of the call.
LEMMA ExtendRefusedSafe ==
  ASSUME SafeInv, NEW t \in Threads, ExtendRefused(t)
  PROVE  SafeInv'
<1> USE ThreadsAssumption, SizesAssumption, HeapAssumption, IntptrMaxAssumption
    DEF ExtendRefused, Goto
<1>1. TypeOK /\ LockInv /\ LinksInv /\ FrameInv /\ HoldInv
  BY DEF SafeInv
<1>2. HeapSame
  BY DEF HeapSame, os, heap, base, header, frame
<1>3. TypeOK'
  BY <1>1 DEF TypeOK, PCs, Ops, os, heap, base, header, frame
<1>4. \A u \in Threads \ {t} : SameFrame(u)
  BY <1>1 DEF TypeOK, SameFrame, frame
<1>5. LockInv'
  BY <1>1 DEF TypeOK, LockInv, HoldsLock, frame
<1>6. CallOK(t)' /\ SizesOK(t)'
  BY <1>1, <1>2 DEF TypeOK, FrameInv, CallOK, SizesOK, HeapSame, frame
<1>7. CursorOK(t)'
  BY <1>1, <1>2 DEF TypeOK, FrameInv, CallOK, CursorOK, LinksInv, HeapSame, frame
<1>8. Granted(t)' = Granted(t) /\ Surrendered(t)' = Surrendered(t)
  BY <1>1 DEF TypeOK, FrameInv, CallOK, Granted, Surrendered, frame
<1>9. pc'[t] # "relink" /\ owned' = owned /\ InUse' = InUse
  BY <1>1, <1>2, HeapSameSafe DEF TypeOK, SafeInv
<1>10. HoldInv'
  BY <1>1, <1>4, <1>8, <1>9, HoldSame
<1> QED
  BY <1>2, <1>3, <1>4, <1>5, <1>6, <1>7, <1>9, <1>10, QuietStep

\* memcpy changes no header.
LEMMA CopySafe ==
  ASSUME SafeInv, NEW t \in Threads, Copy(t)
  PROVE  SafeInv'
<1> USE ThreadsAssumption, SizesAssumption, HeapAssumption, IntptrMaxAssumption
    DEF Copy, Goto
<1>1. TypeOK /\ LockInv /\ LinksInv /\ FrameInv /\ HoldInv
  BY DEF SafeInv
<1>2. HeapSame
  BY DEF HeapSame, os, heap, base, header, frame
<1>3. TypeOK'
  BY <1>1 DEF TypeOK, PCs, Ops, os, heap, base, header, frame
<1>4. \A u \in Threads \ {t} : SameFrame(u)
  BY <1>1 DEF TypeOK, SameFrame, frame
<1>5. LockInv'
  BY <1>1 DEF TypeOK, LockInv, HoldsLock, frame
<1>6. CallOK(t)' /\ SizesOK(t)'
  BY <1>1, <1>2 DEF TypeOK, FrameInv, CallOK, SizesOK, HeapSame, frame
<1>7. CursorOK(t)'
  BY <1>1, <1>2 DEF TypeOK, FrameInv, CallOK, CursorOK, LinksInv, HeapSame, frame
<1>8. Granted(t)' = Granted(t) /\ Surrendered(t)' = Surrendered(t)
  BY <1>1 DEF TypeOK, FrameInv, CallOK, Granted, Surrendered, frame
<1>9. pc'[t] # "relink" /\ owned' = owned /\ InUse' = InUse
  BY <1>1, <1>2, HeapSameSafe DEF TypeOK, SafeInv
<1>10. HoldInv'
  BY <1>1, <1>4, <1>8, <1>9, HoldSame
<1> QED
  BY <1>2, <1>3, <1>4, <1>5, <1>6, <1>7, <1>9, <1>10, QuietStep

\* An iteration of coalesce_all that merges nothing keeps the cursor in the
\* list.
LEMMA AdvanceSafe ==
  ASSUME SafeInv, NEW t \in Threads, Advance(t)
  PROVE  SafeInv'
<1> USE ThreadsAssumption, SizesAssumption, HeapAssumption, IntptrMaxAssumption
    DEF Advance, Goto
<1>1. TypeOK /\ LockInv /\ LinksInv /\ FrameInv /\ HoldInv
  BY DEF SafeInv
<1>2. HeapSame
  BY DEF HeapSame, os, heap, base, header, frame
<1>3. TypeOK'
  <2> HIDE DEF Addr, SizeT
  <2>1. ~AtListEnd(t) => next[cur[t]] \in Addr \cup {NULL}
    BY <1>1 DEF TypeOK, AtListEnd
  <2>2. cur' \in [Threads -> Addr \cup {NULL}]
    BY <1>1, <2>1 DEF TypeOK
  <2>3. pc' \in [Threads -> PCs]
    BY <1>1 DEF TypeOK, PCs
  <2> QED
    BY <1>1, <2>2, <2>3 DEF TypeOK, os, heap, base, header
<1>4. \A u \in Threads \ {t} : SameFrame(u)
  BY <1>1 DEF TypeOK, SameFrame, frame
<1>5. LockInv'
  BY <1>1 DEF TypeOK, LockInv, HoldsLock, frame
<1>6. CallOK(t)' /\ SizesOK(t)'
  <2>1. pc[t] = "coalesce" /\ pc'[t] \in {"coalesce", "f_unlock"}
    BY <1>1 DEF TypeOK
  <2>2. UNCHANGED <<op, sz, ptr, block>>
    BY DEF frame
  <2>3. CallOK(t)'
    BY <1>1, <2>1, <2>2 DEF FrameInv, CallOK
  <2>4. SizesOK(t)'
    BY <1>1, <2>1, <2>2 DEF FrameInv, SizesOK
  <2> QED
    BY <2>3, <2>4
<1>7. CursorOK(t)'
  <2>1. CASE AtListEnd(t)
    BY <2>1, <1>1, <1>2 DEF TypeOK, CursorOK
  <2>2. CASE ~AtListEnd(t)
    <3>1. cur[t] \in blocks /\ next[cur[t]] \in blocks
      BY <2>2, <1>1 DEF FrameInv, CursorOK, LinksInv, AtListEnd
    <3> QED
      BY <3>1, <2>2, <1>1, <1>2 DEF TypeOK, CursorOK, HeapSame
  <2> QED
    BY <2>1, <2>2
<1>8. Granted(t)' = Granted(t) /\ Surrendered(t)' = Surrendered(t)
  BY <1>1 DEF TypeOK, FrameInv, CallOK, Granted, Surrendered, frame
<1>9. pc'[t] # "relink" /\ owned' = owned /\ InUse' = InUse
  BY <1>1, <1>2, HeapSameSafe DEF TypeOK, SafeInv
<1>10. HoldInv'
  BY <1>1, <1>4, <1>8, <1>9, HoldSame
<1> QED
  BY <1>2, <1>3, <1>4, <1>5, <1>6, <1>7, <1>9, <1>10, QuietStep

\* A call that asks for memory and gives none up may begin.
LEMMA AskSafe ==
  ASSUME SafeInv, NEW t \in Threads, pc[t] = "idle",
         NEW s \in SizeT, META_SIZE + s <= INTPTR_MAX,
         Enter(t, "malloc", s, NULL, "m_lock"),
         UNCHANGED <<os, heap, alloc_lock, owned, cur, last, block>>
  PROVE  SafeInv'
<1> USE ThreadsAssumption, SizesAssumption, HeapAssumption, IntptrMaxAssumption
    DEF Enter, Goto
<1>1. TypeOK /\ LockInv /\ LinksInv /\ FrameInv /\ HoldInv
  BY DEF SafeInv
<1>2. HeapSame
  BY DEF HeapSame, os, heap, base, header
<1>3. TypeOK'
  BY <1>1 DEF TypeOK, PCs, Ops, os, heap, base, header
<1>4. \A u \in Threads \ {t} : SameFrame(u)
  BY <1>1 DEF TypeOK, SameFrame
<1>5. LockInv'
  BY <1>1 DEF TypeOK, LockInv, HoldsLock
<1>6. CallOK(t)' /\ SizesOK(t)' /\ CursorOK(t)'
  BY <1>1 DEF TypeOK, CallOK, SizesOK, CursorOK
<1>7. Granted(t)' = Granted(t) /\ Surrendered(t)' = Surrendered(t)
  BY <1>1 DEF TypeOK, FrameInv, CallOK, Granted, Surrendered
<1>8. pc'[t] # "relink" /\ owned' = owned /\ InUse' = InUse
  BY <1>1, <1>2, HeapSameSafe DEF TypeOK, SafeInv
<1>9. HoldInv'
  BY <1>1, <1>4, <1>7, <1>8, HoldSame
<1> QED
  BY <1>2, <1>3, <1>4, <1>5, <1>6, <1>8, <1>9, QuietStep

\* my_malloc may be called.
LEMMA CallMallocSafe ==
  ASSUME SafeInv, FittingRequests, NEW t \in Threads, CallMalloc(t)
  PROVE  SafeInv'
<1>1. PICK s \in Requests \ {0} : Enter(t, "malloc", s, NULL, "m_lock")
  BY DEF CallMalloc
<1>2. s \in SizeT /\ META_SIZE + s <= INTPTR_MAX
  BY <1>1, SizesAssumption DEF FittingRequests
<1> QED
  BY <1>1, <1>2, AskSafe DEF CallMalloc

\* my_calloc may be called: a product that passes the test fits.
LEMMA CallCallocSafe ==
  ASSUME SafeInv, FittingRequests, NEW t \in Threads, CallCalloc(t)
  PROVE  SafeInv'
<1>1. PICK a \in CallocArgs :
        /\ a[1] # 0 /\ a[2] # 0 /\ ~ProductOverflows(a[1], a[2])
        /\ Enter(t, "malloc", a[1] * a[2], NULL, "m_lock")
  BY DEF CallCalloc
<1>2. a[1] \in Nat /\ a[2] \in Nat \ {0}
  BY <1>1, SizesAssumption, IntptrMaxAssumption
<1>3. a[1] * a[2] \in Nat
  BY <1>2
<1>4. a[1] * a[2] <= SIZE_MAX
  BY <1>1, <1>2, <1>3, ProductExact, IntptrMaxAssumption
<1>5. META_SIZE + a[1] * a[2] <= INTPTR_MAX
  BY <1>1 DEF FittingRequests
<1>6. a[1] * a[2] \in SizeT
  BY <1>3, <1>4, IntptrMaxAssumption
<1> QED
  BY <1>1, <1>5, <1>6, AskSafe DEF CallCalloc

\* A call that takes a pointer from the client may begin: its block has one
\* holder before and after.
LEMMA GiveSafe ==
  ASSUME SafeInv, NEW t \in Threads, pc[t] = "idle", NEW p \in owned,
         NEW o, NEW s \in SizeT, NEW l, Enter(t, o, s, p, l),
         owned' = owned \ {p},
         UNCHANGED <<os, heap, alloc_lock, cur, last>>,
         block' \in [Threads -> Addr \cup {NULL}],
         \A u \in Threads \ {t} : block'[u] = block[u],
         \/ o = "free" /\ l = "f_lock"
         \/ /\ o = "realloc" /\ l = "m_lock" /\ META_SIZE + s <= INTPTR_MAX
            /\ size[get_block_ptr(p)] < s
         \/ /\ o = "resize" /\ l = "split" /\ block'[t] = get_block_ptr(p)
            /\ s <= size[get_block_ptr(p)]
  PROVE  SafeInv'
<1> USE ThreadsAssumption, SizesAssumption, HeapAssumption, IntptrMaxAssumption
    DEF Enter, Goto
<1>1. TypeOK /\ LockInv /\ LinksInv /\ FrameInv /\ HoldInv
  BY DEF SafeInv
<1>2. HeapSame
  BY DEF HeapSame, os, heap, base, header
<1>3. TypeOK'
  BY <1>1 DEF TypeOK, PCs, Ops, os, heap, base, header
<1>4. \A u \in Threads \ {t} : SameFrame(u)
  BY <1>1 DEF TypeOK, SameFrame
<1>5. LockInv'
  BY <1>1 DEF TypeOK, LockInv, HoldsLock
<1>6. ptr'[t] = p /\ op'[t] = o /\ pc'[t] = l /\ sz'[t] = s
  BY <1>1 DEF TypeOK
<1>7. CallOK(t)'
  BY <1>6 DEF CallOK
<1>8. SizesOK(t)' /\ CursorOK(t)'
  <2>1. get_block_ptr(p) # NULL
    BY <1>1 DEF TypeOK, HoldInv, InUse
  <2> QED
    BY <1>2, <1>6, <2>1 DEF SizesOK, CursorOK, HeapSame
<1>9. Held(t) = {}
  BY <1>1 DEF FrameInv, CallOK, Held, Granted, Surrendered
<1>10. Granted(t)' = {} /\ Surrendered(t)' = {get_block_ptr(p)}
  BY <1>6 DEF Granted, Surrendered
<1>11. pc'[t] # "relink" /\ InUse' = InUse /\ InUse \subseteq Nat
  BY <1>1, <1>2, <1>6, HeapSameSafe, InUseNat DEF SafeInv
<1>12. HoldInv'
  BY <1>1, <1>4, <1>9, <1>10, <1>11, HoldGive
<1> QED
  BY <1>2, <1>3, <1>4, <1>5, <1>7, <1>8, <1>11, <1>12, QuietStep

\* my_free may be called with a pointer the client owns.
LEMMA CallFreeSafe ==
  ASSUME SafeInv, NEW t \in Threads, CallFree(t)
  PROVE  SafeInv'
<1>1. PICK p \in owned : owned' = owned \ {p} /\ Enter(t, "free", 0, p, "f_lock")
  BY DEF CallFree
<1>2. 0 \in SizeT /\ block \in [Threads -> Addr \cup {NULL}]
  BY IntptrMaxAssumption DEF SafeInv, TypeOK
<1> QED
  BY <1>1, <1>2, GiveSafe DEF CallFree

\* my_realloc may be called, whichever of its four cases applies.
LEMMA CallReallocSafe ==
  ASSUME SafeInv, FittingRequests, NEW t \in Threads, CallRealloc(t)
  PROVE  SafeInv'
<1> USE IntptrMaxAssumption
<1>1. PICK s \in Requests :
        \/ ReallocNull(t, s)
        \/ \E p \in owned :
             \/ s = 0 /\ ReallocZero(t, p)
             \/ s # 0 /\ ReallocInPlace(t, p, s)
             \/ s # 0 /\ ReallocMove(t, p, s)
  BY DEF CallRealloc
<1>2. pc[t] = "idle" /\ UNCHANGED <<os, heap, alloc_lock, cur, last>>
  BY DEF CallRealloc
<1>3. s \in SizeT /\ 0 \in SizeT /\ META_SIZE + s <= INTPTR_MAX
  BY SizesAssumption DEF FittingRequests
<1>4. block \in [Threads -> Addr \cup {NULL}]
  BY DEF SafeInv, TypeOK
<1>5. CASE ReallocNull(t, s)
  BY <1>2, <1>3, <1>5, AskSafe DEF ReallocNull
<1>6. ASSUME NEW p \in owned, ReallocZero(t, p)
      PROVE  SafeInv'
  BY <1>2, <1>3, <1>4, <1>6, GiveSafe DEF ReallocZero
<1>7. ASSUME NEW p \in owned, ReallocInPlace(t, p, s)
      PROVE  SafeInv'
  <2>1. get_block_ptr(p) \in Addr /\ size[get_block_ptr(p)] \in SizeT
    BY DEF SafeInv, TypeOK, HoldInv, InUse
  <2>2. block'[t] = get_block_ptr(p) /\ \A u \in Threads \ {t} : block'[u] = block[u]
    BY <1>4, <1>7 DEF ReallocInPlace
  <2>3. block' \in [Threads -> Addr \cup {NULL}]
    BY <1>4, <1>7, <2>1 DEF ReallocInPlace
  <2>4. s <= size[get_block_ptr(p)]
    BY <1>3, <1>7, <2>1 DEF ReallocInPlace
  <2> QED
    BY <1>2, <1>3, <1>7, <2>2, <2>3, <2>4, GiveSafe DEF ReallocInPlace
<1>8. ASSUME NEW p \in owned, ReallocMove(t, p, s)
      PROVE  SafeInv'
  BY <1>2, <1>3, <1>4, <1>8, GiveSafe DEF ReallocMove
<1> QED
  BY <1>1, <1>5, <1>6, <1>7, <1>8

\* split_block may decline, with the lock and without it.
LEMMA SplitSkipSafe ==
  ASSUME SafeInv, NEW t \in Threads, SplitSkip(t)
  PROVE  SafeInv'
<1> USE ThreadsAssumption, SizesAssumption, HeapAssumption, IntptrMaxAssumption
    DEF SplitSkip
<1>1. TypeOK /\ LockInv /\ LinksInv /\ FrameInv /\ HoldInv
  BY DEF SafeInv
<1>2. HeapSame /\ InUse' = InUse /\ InUse \subseteq Nat /\ alloc_lock' = alloc_lock
  BY <1>1, HeapSameSafe, InUseNat DEF SafeInv, HeapSame, os, heap, base, header
<1>3. CASE op[t] = "resize"
  <2>1. Popped(t)
    BY <1>3 DEF Popped, Return, Goto
  <2>2. Held(t) = {block[t]} /\ payload(block[t]) = ptr[t]
    BY <1>1, <1>3 DEF TypeOK, FrameInv, CallOK, Held, Granted, Surrendered
  <2>3. owned' = owned \cup {payload(b) : b \in Held(t)}
    BY <1>3, <2>2 DEF Return
  <2>4. HoldInv'
    BY <1>1, <1>2, <2>1, <2>3, PoppedFrame, HoldTake
  <2>5. owned' \subseteq Nat
    BY <2>4 DEF HoldInv
  <2>6. TypeOK'
    BY <1>1, <1>2, <2>1, <2>5, PoppedFrame DEF TypeOK, os, heap, base, header
  <2>7. LockInv'
    BY <1>1, <1>2, <1>3, <2>1 DEF TypeOK, LockInv, HoldsLock, Popped
  <2> QED
    BY <1>1, <1>2, <2>1, <2>4, <2>6, <2>7, PoppedFrame, QuietStep
<1>4. CASE op[t] # "resize"
  <2> USE <1>4 DEF Goto, frame
  <2>1. TypeOK'
    BY <1>1, <1>2 DEF TypeOK, PCs, os, heap, base, header
  <2>2. \A u \in Threads \ {t} : SameFrame(u)
    BY <1>1 DEF TypeOK, SameFrame
  <2>3. LockInv'
    BY <1>1 DEF TypeOK, LockInv, HoldsLock
  <2>4. CallOK(t)' /\ CursorOK(t)' /\ SizesOK(t)'
    BY <1>1, <1>2 DEF TypeOK, FrameInv, CallOK, CursorOK, SizesOK, HeapSame
  <2>5. Granted(t)' = Granted(t) /\ Surrendered(t)' = Surrendered(t)
    BY <1>1 DEF TypeOK, FrameInv, CallOK, Granted, Surrendered
  <2>6. pc'[t] # "relink" /\ owned' = owned
    BY <1>1 DEF TypeOK
  <2>7. HoldInv'
    BY <1>1, <1>2, <2>2, <2>5, <2>6, HoldSame
  <2> QED
    BY <1>2, <2>1, <2>2, <2>3, <2>4, <2>6, <2>7, QuietStep
<1> QED
  BY <1>3, <1>4

\* my_malloc gives the lock back and its block to the client, or to the
\* my_realloc that called it.
LEMMA UnlockMallocSafe ==
  ASSUME SafeInv, NEW t \in Threads, UnlockMalloc(t)
  PROVE  SafeInv'
<1> USE ThreadsAssumption, SizesAssumption, HeapAssumption, IntptrMaxAssumption
    DEF UnlockMalloc
<1>1. TypeOK /\ LockInv /\ LinksInv /\ FrameInv /\ HoldInv
  BY DEF SafeInv
<1>2. HeapSame /\ InUse' = InUse /\ InUse \subseteq Nat
  BY <1>1, HeapSameSafe, InUseNat DEF SafeInv, HeapSame, os, heap, base, header
<1>3. ASSUME Popped(t), owned' = owned \cup {payload(b) : b \in Held(t)}
      PROVE  SafeInv'
  <2>1. HoldInv'
    BY <1>1, <1>2, <1>3, PoppedFrame, HoldTake
  <2>2. owned' \subseteq Nat
    BY <2>1 DEF HoldInv
  <2>3. TypeOK'
    BY <1>1, <1>2, <1>3, <2>2, PoppedFrame DEF TypeOK, os, heap, base, header
  <2>4. LockInv'
    BY <1>1, <1>3 DEF TypeOK, LockInv, HoldsLock, Popped
  <2> QED
    BY <1>1, <1>2, <1>3, <2>1, <2>3, <2>4, PoppedFrame, QuietStep
<1>4. CASE block[t] = NULL /\ Return(t, {ptr[t]} \ {NULL})
  <2>1. Popped(t)
    BY <1>4 DEF Popped, Return, Goto
  <2>2. CASE op[t] = "malloc"
    <3>1. Held(t) = {} /\ ptr[t] = NULL
      BY <1>1, <1>4, <2>2 DEF FrameInv, CallOK, Held, Granted, Surrendered
    <3> QED
      BY <1>3, <1>4, <2>1, <3>1 DEF Return
  <2>3. CASE op[t] = "realloc"
    <3>1. Held(t) = {get_block_ptr(ptr[t])}
      BY <1>1, <1>4, <2>3 DEF Held, Granted, Surrendered
    <3>2. get_block_ptr(ptr[t]) \in InUse
      BY <1>1, <3>1 DEF HoldInv
    <3>3. ptr[t] \in Nat /\ get_block_ptr(ptr[t]) \in Addr
      BY <1>1, <3>2 DEF TypeOK, InUse
    <3>4. payload(get_block_ptr(ptr[t])) = ptr[t] /\ ptr[t] # NULL
      BY <3>3
    <3>5. owned' = owned \cup {ptr[t]}
      BY <1>4, <3>4 DEF Return
    <3>6. owned' = owned \cup {payload(b) : b \in Held(t)}
      BY <3>1, <3>4, <3>5
    <3> QED
      BY <1>3, <2>1, <3>6
  <2> QED
    BY <1>1, <2>2, <2>3 DEF FrameInv, CallOK
<1>5. CASE block[t] # NULL /\ op[t] = "malloc" /\ Return(t, {payload(block[t])})
  <2>1. Popped(t)
    BY <1>5 DEF Popped, Return, Goto
  <2>2. Held(t) = {block[t]}
    BY <1>1, <1>5 DEF FrameInv, CallOK, Held, Granted, Surrendered
  <2>3. owned' = owned \cup {payload(b) : b \in Held(t)}
    BY <1>5, <2>2 DEF Return
  <2> QED
    BY <1>3, <2>1, <2>3
<1>6. CASE block[t] # NULL /\ op[t] = "realloc" /\ Goto(t, "copy")
           /\ UNCHANGED <<owned, frame>>
  <2> USE <1>6 DEF Goto, frame
  <2>1. TypeOK'
    BY <1>1, <1>2 DEF TypeOK, PCs, os, heap, base, header
  <2>2. \A u \in Threads \ {t} : SameFrame(u)
    BY <1>1 DEF TypeOK, SameFrame
  <2>3. LockInv'
    BY <1>1 DEF TypeOK, LockInv, HoldsLock
  <2>4. CallOK(t)' /\ CursorOK(t)'
    BY <1>1, <1>2 DEF TypeOK, FrameInv, CallOK, CursorOK
  <2>5. size[block[t]] \in Int /\ size[get_block_ptr(ptr[t])] \in Int
    <3>1. Held(t) = {block[t], get_block_ptr(ptr[t])}
      BY <1>1 DEF Held, Granted, Surrendered
    <3>2. block[t] \in blocks /\ get_block_ptr(ptr[t]) \in blocks
      BY <1>1, <3>1 DEF HoldInv, InUse
    <3> QED
      BY <1>1, <3>2 DEF TypeOK
  <2>6. SizesOK(t)'
    BY <1>1, <1>2, <2>5 DEF TypeOK, FrameInv, SizesOK, HeapSame
  <2>7. Granted(t)' = Granted(t) /\ Surrendered(t)' = Surrendered(t)
    BY <1>1 DEF TypeOK, FrameInv, CallOK, Granted, Surrendered
  <2>8. pc'[t] # "relink" /\ owned' = owned
    BY <1>1 DEF TypeOK
  <2>9. HoldInv'
    BY <1>1, <1>2, <2>2, <2>7, <2>8, HoldSame
  <2> QED
    BY <1>2, <2>1, <2>2, <2>3, <2>4, <2>6, <2>8, <2>9, QuietStep
<1> QED
  BY <1>4, <1>5, <1>6

-----------------------------------------------------------------------------
(* Steps that change the heap.                                             *)

\* Threads that do not move keep their frames good when t reshapes the heap:
\* t has the lock, so that nobody else walks the list, or it only adds a block.
LEMMA OthersCarryOn ==
  ASSUME SafeInv, NEW t \in Threads,
         \A u \in Threads \ {t} : SameFrame(u),
         HoldsLock(t) \/ (blocks # {} /\ blocks \subseteq blocks' /\ brk' = brk),
         \A u \in Threads \ {t} : \A b \in Held(u) : size'[b] = size[b]
  PROVE  \A u \in Threads \ {t} : CallOK(u)' /\ CursorOK(u)' /\ SizesOK(u)'
<1> SUFFICES ASSUME NEW u \in Threads \ {t}
             PROVE  CallOK(u)' /\ CursorOK(u)' /\ SizesOK(u)'
  OBVIOUS
<1>1. CallOK(u) /\ CursorOK(u) /\ SizesOK(u) /\ SameFrame(u)
  BY DEF SafeInv, FrameInv
<1>2. CallOK(u)'
  BY <1>1 DEF CallOK, SameFrame
<1>3. CursorOK(u)'
  <2>1. CASE HoldsLock(t)
    <3>1. ~HoldsLock(u)
      BY <2>1 DEF SafeInv, LockInv
    <3> QED
      BY <1>1, <3>1 DEF CursorOK, SameFrame, HoldsLock
  <2>2. CASE blocks # {} /\ blocks \subseteq blocks' /\ brk' = brk
    BY <1>1, <2>2 DEF CursorOK, SameFrame
  <2> QED
    BY <2>1, <2>2
<1>4. SizesOK(u)'
  <2>1. /\ pc[u] \in {"split", "relink"} /\ op[u] # "resize" => block[u] \in Held(u)
        /\ op[u] = "resize" => block[u] \in Held(u)
        /\ pc[u] = "m_unlock" /\ block[u] # NULL => block[u] \in Held(u)
        /\ pc[u] = "copy" => block[u] \in Held(u) /\ get_block_ptr(ptr[u]) \in Held(u)
        /\ op[u] = "realloc" /\ pc[u] \notin {"coalesce", "f_unlock"} =>
             get_block_ptr(ptr[u]) \in Held(u)
    BY <1>1 DEF CallOK, CursorOK, SizesOK, Held, Granted, Surrendered
  <2> QED
    BY <1>1, <2>1 DEF SizesOK, SameFrame
<1> QED
  BY <1>2, <1>3, <1>4

\* The block of a split, and where its second header goes.
LEMMA SplitFacts ==
  ASSUME SafeInv, NEW u \in Threads, pc[u] \in {"split", "relink"}
  PROVE  /\ block[u] \in blocks /\ ~free[block[u]] /\ block[u] \in Held(u)
         /\ block[u] \in Addr /\ size[block[u]] \in Nat /\ sz[u] \in Nat
         /\ sz[u] <= size[block[u]]
         /\ BlockEnd(block[u]) <= brk /\ brk \in Addr
<1> USE SizesAssumption, HeapAssumption, IntptrMaxAssumption
<1>1. TypeOK /\ CallOK(u) /\ CursorOK(u) /\ SizesOK(u) /\ HalfSplitOK(u)
  BY DEF SafeInv, FrameInv
<1>2. block[u] \in Held(u)
  BY <1>1 DEF CallOK, CursorOK, Held, Granted, Surrendered
<1>3. block[u] \in InUse
  BY <1>2 DEF SafeInv, HoldInv
<1>4. block[u] \in blocks /\ ~free[block[u]]
  BY <1>3 DEF InUse
<1>5. block[u] \in Addr /\ size[block[u]] \in Nat /\ sz[u] \in Nat /\ brk \in Addr
  BY <1>1, <1>4 DEF TypeOK
<1>6. sz[u] <= size[block[u]]
  BY <1>1, <1>5 DEF SizesOK, HalfSplitOK
<1>7. BlockEnd(block[u]) <= brk
  BY <1>4 DEF SafeInv, SpaceInv, BlocksDisjoint
<1> QED
  BY <1>2, <1>4, <1>5, <1>6, <1>7

Splits(u) == pc[u] \in {"split", "relink"}
             /\ sz[u] + META_SIZE + MIN_SPLIT_REMAINDER < size[block[u]]

\* The second header of a split and a byte behind it lie inside the block.
LEMMA NewBlockInside ==
  ASSUME SafeInv, NEW u \in Threads, Splits(u)
  PROVE  /\ NewAt(u) \in Addr /\ NewAt(u) \notin blocks
         /\ block[u] < NewAt(u) /\ NewAt(u) + META_SIZE < BlockEnd(block[u])
<1> USE SizesAssumption, HeapAssumption, IntptrMaxAssumption DEF Splits, NewAt
<1>1. /\ block[u] \in blocks /\ block[u] \in Addr /\ size[block[u]] \in Nat
      /\ sz[u] \in Nat /\ BlockEnd(block[u]) <= brk /\ brk \in Addr
  BY SplitFacts
<1>2. /\ block[u] < NewAt(u) /\ NewAt(u) + META_SIZE < BlockEnd(block[u])
      /\ NewAt(u) \in Addr
  BY <1>1 DEF BlockEnd
<1>3. NewAt(u) \notin blocks
  <2>1. NewAt(u) \in blocks => BlockEnd(block[u]) <= NewAt(u)
    BY <1>1, <1>2 DEF SafeInv, SpaceInv, BlocksDisjoint
  <2> QED
    BY <2>1, <1>1, <1>2 DEF BlockEnd
<1> QED
  BY <1>2, <1>3

\* Two splits at a time, one locked and one not, are of different blocks and
\* write different headers.
LEMMA NewBlocksDiffer ==
  ASSUME SafeInv, NEW u \in Threads, NEW v \in Threads \ {u}, Splits(u), Splits(v)
  PROVE  NewAt(u) # NewAt(v) /\ block[u] # block[v]
<1> USE SizesAssumption, HeapAssumption, IntptrMaxAssumption
<1>1. /\ block[u] \in blocks /\ block[v] \in blocks
      /\ block[u] \in Held(u) /\ block[v] \in Held(v)
      /\ block[u] \in Nat /\ block[v] \in Nat
      /\ size[block[u]] \in Nat /\ size[block[v]] \in Nat
  BY SplitFacts DEF Splits
<1>2. block[u] # block[v]
  BY <1>1 DEF SafeInv, HoldInv
<1>3. BlockEnd(block[u]) <= block[v] \/ BlockEnd(block[v]) <= block[u]
  BY <1>1, <1>2 DEF SafeInv, SpaceInv, BlocksDisjoint
<1>4. /\ block[u] < NewAt(u) /\ NewAt(u) + META_SIZE < BlockEnd(block[u])
      /\ block[v] < NewAt(v) /\ NewAt(v) + META_SIZE < BlockEnd(block[v])
      /\ NewAt(u) \in Nat /\ NewAt(v) \in Nat
  BY NewBlockInside
<1> QED
  BY <1>1, <1>2, <1>3, <1>4 DEF BlockEnd

\* The arithmetic of split_block does not wrap.
LEMMA SplitArithmetic ==
  ASSUME SafeInv, NEW u \in Threads, pc[u] \in {"split", "relink"}
  PROVE  /\ NewBlock(u) = NewAt(u)
         /\ SplitWorthwhile(u) <=> sz[u] + META_SIZE + MIN_SPLIT_REMAINDER < size[block[u]]
         /\ SplitWorthwhile(u) =>
              Remainder(u) = size[block[u]] - sz[u] - META_SIZE
<1> USE SizesAssumption, HeapAssumption, IntptrMaxAssumption
<1>1. /\ block[u] \in Addr /\ size[block[u]] \in Nat /\ sz[u] \in Nat
      /\ sz[u] <= size[block[u]] /\ BlockEnd(block[u]) <= brk /\ brk \in Addr
  BY SplitFacts
<1>2. block[u] + META_SIZE + size[block[u]] <= BrkLimit
  BY <1>1 DEF BlockEnd
<1>3. NewBlock(u) = NewAt(u)
  BY <1>1, <1>2 DEF NewBlock, NewAt, SizeAdd
<1>4. SplitWorthwhile(u) <=> sz[u] + META_SIZE + MIN_SPLIT_REMAINDER < size[block[u]]
  BY <1>1, <1>2 DEF SplitWorthwhile, SizeAdd
<1>5. SplitWorthwhile(u) => Remainder(u) = size[block[u]] - sz[u] - META_SIZE
  BY <1>1, <1>4 DEF Remainder, SizeSub
<1> QED
  BY <1>3, <1>4, <1>5

\* Claiming a free block that fits gives it its first holder.
LEMMA FindFitSafe ==
  ASSUME SafeInv, NEW t \in Threads, FindFit(t)
  PROVE  SafeInv'
<1> USE ThreadsAssumption, SizesAssumption, HeapAssumption, IntptrMaxAssumption
    DEF FindFit, Goto
<1>1. TypeOK /\ LockInv /\ LinksInv /\ SpaceInv /\ FrameInv /\ HoldInv
  BY DEF SafeInv
<1> DEFINE c == cur[t]
<1>2. c \in blocks /\ c \in Addr /\ free[c] /\ sz[t] <= size[c] /\ c # NULL
  BY <1>1 DEF TypeOK, FrameInv, CursorOK, Fits
<1>3. TypeOK'
  <2>1. free' \in [Addr -> BOOLEAN] /\ block' \in [Threads -> Addr \cup {NULL}]
    BY <1>1, <1>2 DEF TypeOK
  <2>2. pc' \in [Threads -> PCs]
    BY <1>1 DEF TypeOK, PCs
  <2> QED
    BY <1>1, <2>1, <2>2 DEF TypeOK, os, base
<1>4. \A u \in Threads \ {t} : SameFrame(u)
  BY <1>1 DEF TypeOK, SameFrame
<1>5. UNCHANGED <<brk, libc, global_base, blocks, size, next>>
  BY DEF os, base
<1>6. free' = [free EXCEPT ![c] = FALSE] /\ block'[t] = c /\ pc'[t] = "split"
      /\ op'[t] = op[t] /\ sz'[t] = sz[t] /\ ptr'[t] = ptr[t]
  BY <1>1 DEF TypeOK
<1>7. op[t] \in {"malloc", "realloc"} /\ HoldsLock(t)
  BY <1>1 DEF FrameInv, CallOK, HoldsLock
<1>71. alloc_lock' = alloc_lock /\ owned' = owned /\ pc[t] = "find"
       /\ pc' = [pc EXCEPT ![t] = "split"]
  OBVIOUS
<1> HIDE DEF FindFit, c
<1>8. InUse' = InUse \cup {c} /\ c \notin InUse /\ InUse \subseteq Nat
  <2>1. \A b \in blocks : free'[b] = IF b = c THEN FALSE ELSE free[b]
    BY <1>1, <1>2, <1>6 DEF TypeOK
  <2> QED
    BY <1>1, <1>2, <1>5, <2>1, InUseNat DEF InUse
<1>9. LinksInv' /\ SpaceInv'
  BY <1>1, <1>5 DEF LinksInv, SpaceInv, BlocksDisjoint, BlockEnd
<1>10. LockInv'
  <2>1. HoldsLock(t)' /\ alloc_lock = t
    BY <1>1, <1>6, <1>7 DEF LockInv, HoldsLock
  <2>2. \A u \in Threads \ {t} : HoldsLock(u)' <=> HoldsLock(u)
    BY <1>4 DEF HoldsLock, SameFrame
  <2> QED
    BY <1>1, <1>71, <2>1, <2>2 DEF LockInv
<1>11. FrameInv'
  <2>1. \A u \in Threads \ {t} : CallOK(u)' /\ CursorOK(u)' /\ SizesOK(u)'
    BY <1>4, <1>5, <1>7, OthersCarryOn
  <2>2. CallOK(t)' /\ CursorOK(t)' /\ SizesOK(t)'
    BY <1>1, <1>2, <1>5, <1>6, <1>7, <1>71 DEF FrameInv, CallOK, CursorOK, SizesOK
  <2>3. \A u \in Threads : pc'[u] = "relink" =>
          /\ u # t /\ pc[u] = "relink" /\ block'[u] = block[u] /\ sz'[u] = sz[u]
          /\ free'[NewAt(u)] = free[NewAt(u)]
    <3> SUFFICES ASSUME NEW u \in Threads, pc'[u] = "relink"
                 PROVE  /\ u # t /\ pc[u] = "relink" /\ block'[u] = block[u] /\ sz'[u] = sz[u]
                        /\ free'[NewAt(u)] = free[NewAt(u)]
      OBVIOUS
    <3>1. u # t /\ pc[u] = "relink" /\ block'[u] = block[u] /\ sz'[u] = sz[u]
      BY <1>4, <1>6 DEF SameFrame
    <3>2. Splits(u)
      BY <1>1, <3>1 DEF Splits, FrameInv, HalfSplitOK
    <3>3. NewAt(u) \in Addr /\ NewAt(u) # c
      BY <1>2, <3>2, NewBlockInside
    <3> QED
      BY <1>1, <1>6, <3>1, <3>3 DEF TypeOK
  <2>4. \A u \in Threads : HalfSplitOK(u)'
    BY <1>1, <1>5, <2>3 DEF FrameInv, HalfSplitOK, NewAt
  <2> QED
    BY <2>1, <2>2, <2>4 DEF FrameInv
<1>12. HoldInv'
  <2>1. Granted(t) = {} /\ Granted(t)' = {c} /\ Surrendered(t)' = Surrendered(t)
    BY <1>1, <1>2, <1>6, <1>7, <1>71 DEF Granted, Surrendered
  <2>2. Held(t)' = Held(t) \cup {c} /\ c \notin Held(t) /\ Held(t) \subseteq InUse
    BY <1>1, <1>8, <2>1 DEF Held, HoldInv
  <2>3. Granted(t)' \cap Surrendered(t)' = {}
    BY <2>1, <2>2 DEF Held
  <2>4. payload(c) \notin owned
    <3>1. payload(c) \in owned => get_block_ptr(payload(c)) \in InUse
      BY <1>1 DEF HoldInv
    <3> QED
      BY <3>1, <1>2, <1>8
  <2>5. owned' = owned /\ \A b \in Held(t) : payload(b) \notin owned
    BY <1>1, <1>71 DEF HoldInv
  <2>6. InUse' \subseteq Nat
    BY <1>3, InUseNatPrime
  <2> QED
    BY <1>1, <1>4, <1>8, <2>2, <2>3, <2>4, <2>5, <2>6, HoldTransfer
<1> QED
  BY <1>3, <1>9, <1>10, <1>11, <1>12 DEF SafeInv

\* my_free may take the lock; its assertion holds, because the block was in
\* use up to then.
LEMMA LockFreeSafe ==
  ASSUME SafeInv, NEW t \in Threads, LockFree(t)
  PROVE  SafeInv'
<1> USE ThreadsAssumption, SizesAssumption, HeapAssumption, IntptrMaxAssumption
    DEF LockFree, Acquire, Goto
<1>1. TypeOK /\ LockInv /\ LinksInv /\ SpaceInv /\ FrameInv /\ HoldInv
  BY DEF SafeInv
<1> DEFINE c == get_block_ptr(ptr[t])
<1>2. c \in Surrendered(t) /\ c \in Held(t) /\ op[t] \in {"free", "realloc"}
  BY <1>1 DEF FrameInv, CallOK, Held, Surrendered
<1>3. c \in InUse
  BY <1>1, <1>2 DEF HoldInv
<1>4. c \in blocks /\ c \in Addr /\ ~free[c]
  BY <1>1, <1>3 DEF TypeOK, InUse
<1>5. /\ free' = [free EXCEPT ![c] = TRUE]
      /\ cur' = [cur EXCEPT ![t] = global_base]
      /\ pc' = [pc EXCEPT ![t] = "coalesce"]
      /\ UNCHANGED <<brk, libc, global_base, heap_start, blocks, size, next,
                     owned, op, sz, ptr, last, block>>
  BY <1>4 DEF os, base
<1> HIDE DEF LockFree
<1>6. TypeOK'
  <2>1. free' \in [Addr -> BOOLEAN]
    BY <1>1, <1>4, <1>5 DEF TypeOK
  <2>2. pc' \in [Threads -> PCs] /\ cur' \in [Threads -> Addr \cup {NULL}]
    BY <1>1, <1>5 DEF TypeOK, PCs
  <2>3. alloc_lock' \in Threads \cup {NoThread}
    BY DEF LockFree, Acquire
  <2> QED
    BY <1>1, <1>5, <2>1, <2>2, <2>3 DEF TypeOK
<1>7. \A u \in Threads \ {t} : SameFrame(u)
  BY <1>1, <1>5 DEF TypeOK, SameFrame
<1>8. pc'[t] = "coalesce" /\ cur'[t] = global_base
  BY <1>1, <1>5 DEF TypeOK
<1>9. InUse' = InUse \ {c} /\ InUse \subseteq Nat
  BY <1>1, <1>4, <1>5, InUseNat DEF TypeOK, InUse
<1>10. LinksInv' /\ SpaceInv'
  BY <1>1, <1>5 DEF LinksInv, SpaceInv, BlocksDisjoint, BlockEnd
<1>11. LockInv'
  BY <1>1, <1>5, <1>8 DEF TypeOK, LockInv, HoldsLock, LockFree, Acquire
<1>12. FrameInv'
  <2>1. \A u \in Threads \ {t} : CallOK(u)' /\ CursorOK(u)' /\ SizesOK(u)'
    BY <1>4, <1>5, <1>7, OthersCarryOn
  <2>2. CallOK(t)' /\ SizesOK(t)'
    BY <1>1, <1>2, <1>5, <1>8 DEF LockFree, FrameInv, CallOK, SizesOK
  <2>3. CursorOK(t)'
    BY <1>1, <1>4, <1>5, <1>8 DEF CursorOK, LinksInv
  <2>4. \A u \in Threads : pc'[u] = "relink" =>
          /\ u # t /\ pc[u] = "relink" /\ block'[u] = block[u] /\ sz'[u] = sz[u]
          /\ free'[NewAt(u)] = free[NewAt(u)]
    <3> SUFFICES ASSUME NEW u \in Threads, pc'[u] = "relink"
                 PROVE  /\ u # t /\ pc[u] = "relink" /\ block'[u] = block[u] /\ sz'[u] = sz[u]
                        /\ free'[NewAt(u)] = free[NewAt(u)]
      OBVIOUS
    <3>1. u # t /\ pc[u] = "relink" /\ block'[u] = block[u] /\ sz'[u] = sz[u]
      BY <1>7, <1>8 DEF SameFrame
    <3>2. Splits(u)
      BY <1>1, <3>1 DEF Splits, FrameInv, HalfSplitOK
    <3>3. NewAt(u) \in Addr /\ NewAt(u) # c
      BY <1>4, <3>2, NewBlockInside
    <3> QED
      BY <1>1, <1>5, <3>1, <3>3 DEF TypeOK
  <2>5. \A u \in Threads : HalfSplitOK(u)'
    BY <1>1, <1>5, <2>4 DEF FrameInv, HalfSplitOK, NewAt
  <2> QED
    BY <2>1, <2>2, <2>3, <2>5 DEF FrameInv
<1>13. HoldInv'
  <2>1. Surrendered(t) = {c} /\ Surrendered(t)' = {} /\ Granted(t)' = Granted(t)
    BY <1>2, <1>5, <1>8 DEF LockFree, Granted, Surrendered
  <2>2. Held(t)' = Held(t) \ {c} /\ Granted(t)' \cap Surrendered(t)' = {}
    BY <1>1, <2>1 DEF Held, HoldInv
  <2>3. Held(t) \subseteq InUse /\ \A b \in Held(t) : payload(b) \notin owned
    BY <1>1 DEF HoldInv
  <2>4. InUse' \subseteq Nat
    BY <1>6, InUseNatPrime
  <2> HIDE DEF c
  <2>5. owned' = owned
    BY <1>5
  <2> QED
    BY <1>1, <1>2, <1>7, <1>9, <2>2, <2>3, <2>4, <2>5, HoldTransfer
<1> QED
  BY <1>6, <1>10, <1>11, <1>12, <1>13 DEF SafeInv

\* Filling the second header of a split writes into memory of the splitting
\* thread alone, also while another thread walks the list or splits.
LEMMA SplitHeaderSafe ==
  ASSUME SafeInv, NEW t \in Threads, SplitHeader(t)
  PROVE  SafeInv'
<1> USE ThreadsAssumption, SizesAssumption, HeapAssumption, IntptrMaxAssumption
<1>1. TypeOK /\ LockInv /\ LinksInv /\ SpaceInv /\ FrameInv /\ HoldInv
  BY DEF SafeInv
<1> DEFINE c == block[t]
           n == NewAt(t)
<1>2. pc[t] = "split" /\ SplitWorthwhile(t)
  BY DEF SplitHeader
<1>3. /\ c \in blocks /\ ~free[c] /\ c \in Held(t) /\ c \in Addr
      /\ size[c] \in Nat /\ sz[t] \in Nat /\ sz[t] <= size[c]
      /\ sz[t] + META_SIZE + MIN_SPLIT_REMAINDER < size[c]
  BY <1>2, SplitFacts, SplitArithmetic
<1>4. Splits(t)
  BY <1>2, <1>3 DEF Splits
<1>5. n \in Addr /\ n \notin blocks /\ c < n
  BY <1>4, NewBlockInside
<1>6. /\ size' = [size EXCEPT ![n] = size[c] - sz[t] - META_SIZE]
      /\ next' = [next EXCEPT ![n] = next[c]]
      /\ free' = [free EXCEPT ![n] = TRUE]
      /\ pc' = [pc EXCEPT ![t] = "relink"]
      /\ UNCHANGED <<brk, libc, global_base, heap_start, blocks, alloc_lock, owned>>
      /\ UNCHANGED <<op, sz, ptr, cur, last, block>>
  BY <1>2, SplitArithmetic DEF SplitHeader, Goto, os, base, frame
<1> HIDE DEF c, n
<1>7. TypeOK'
  <2>1. size[c] - sz[t] - META_SIZE \in SizeT
    <3>1. size[c] \in SizeT
      BY <1>1, <1>3 DEF TypeOK
    <3> QED
      BY <1>3, <3>1
  <2>2. size' \in [Addr -> SizeT] /\ free' \in [Addr -> BOOLEAN]
    <3>1. size \in [Addr -> SizeT] /\ free \in [Addr -> BOOLEAN]
      BY <1>1 DEF TypeOK
    <3> HIDE DEF Addr, SizeT
    <3> QED
      BY <1>6, <2>1, <3>1
  <2>3. next' \in [Addr -> Addr \cup {NULL}]
    <3> HIDE DEF Addr
    <3> QED
      BY <1>1, <1>3, <1>6 DEF TypeOK
  <2>4. pc' \in [Threads -> PCs]
    BY <1>1, <1>6 DEF TypeOK, PCs
  <2> QED
    BY <1>1, <1>6, <2>2, <2>3, <2>4 DEF TypeOK
<1>8. \A u \in Threads \ {t} : SameFrame(u)
  BY <1>1, <1>6 DEF TypeOK, SameFrame
<1>9. \A b \in blocks : size'[b] = size[b] /\ next'[b] = next[b] /\ free'[b] = free[b]
  BY <1>1, <1>5, <1>6 DEF TypeOK
<1>10. pc'[t] = "relink" /\ block'[t] = c /\ sz'[t] = sz[t] /\ NewAt(t)' = n
       /\ size'[n] = size[c] - sz[t] - META_SIZE /\ next'[n] = next[c] /\ free'[n]
  BY <1>1, <1>5, <1>6 DEF TypeOK, c, n, NewAt
<1>11. InUse' = InUse
  BY <1>6, <1>9 DEF InUse
<1>12. LinksInv'
  <2>1. blocks' = blocks /\ global_base' = global_base
    BY <1>6
  <2> QED
    BY <1>1, <1>9, <2>1 DEF LinksInv
<1>13. SpaceInv'
  <2>1. blocks' = blocks /\ brk' = brk /\ libc' = libc
    BY <1>6
  <2>2. \A b \in blocks : BlockEnd(b)' = BlockEnd(b)
    BY <1>9 DEF BlockEnd
  <2> QED
    BY <1>1, <2>1, <2>2 DEF SpaceInv, BlocksDisjoint
<1>14. LockInv'
  BY <1>1, <1>2, <1>6 DEF TypeOK, LockInv, HoldsLock
<1>15. FrameInv'
  <2>1. \A u \in Threads \ {t} : \A b \in Held(u) : size'[b] = size[b]
    BY <1>1, <1>9 DEF HoldInv, InUse
  <2>2. \A u \in Threads \ {t} : CallOK(u)' /\ CursorOK(u)' /\ SizesOK(u)'
    BY <1>3, <1>6, <1>8, <2>1, OthersCarryOn
  <2>3. CallOK(t)' /\ CursorOK(t)'
    BY <1>1, <1>2, <1>6, <1>10 DEF TypeOK, FrameInv, CallOK, CursorOK
  <2>4. SizesOK(t)'
    <3>1. op[t] = "realloc" => get_block_ptr(ptr[t]) \in blocks
      BY <1>1, <1>2 DEF Held, Surrendered, HoldInv, InUse
    <3>2. op'[t] = op[t] /\ ptr'[t] = ptr[t] /\ SizesOK(t)
      BY <1>1, <1>6 DEF FrameInv
    <3> QED
      BY <1>2, <1>9, <1>10, <3>1, <3>2 DEF SizesOK
  <2>5. ASSUME NEW u \in Threads \ {t}, pc[u] = "relink"
        PROVE  /\ NewAt(u) \in Addr /\ NewAt(u) # n /\ block[u] \in blocks /\ block[u] # c
               /\ size'[NewAt(u)] = size[NewAt(u)] /\ next'[NewAt(u)] = next[NewAt(u)]
               /\ free'[NewAt(u)] = free[NewAt(u)]
               /\ NewAt(u)' = NewAt(u)
    <3>1. Splits(u)
      BY <1>1, <2>5 DEF Splits, FrameInv, HalfSplitOK
    <3>2. NewAt(u) \in Addr /\ NewAt(u) # n /\ block[u] # c
      BY <1>4, <3>1, NewBlockInside, NewBlocksDiffer DEF c, n
    <3>3. NewAt(u)' = NewAt(u)
      BY <1>6 DEF NewAt
    <3>4. block[u] \in blocks
      BY <3>1, SplitFacts DEF Splits
    <3> QED
      BY <1>1, <1>6, <3>2, <3>3, <3>4 DEF TypeOK
  <2>6. ASSUME NEW u \in Threads \ {t}, pc[u] = "relink", next[NewAt(u)] # NULL
        PROVE  next[NewAt(u)] # next[c]
    BY <1>1, <1>3, <2>5, <2>6 DEF FrameInv, HalfSplitOK
  <2>7. HalfSplitOK(t)'
    <3>1. next[c] # NULL => /\ next[c] \in blocks /\ c < next[c]
                           /\ \A b \in blocks : next[b] = next[c] => b = c
      BY <1>1, <1>3 DEF LinksInv
    <3>2. next[c] # NULL => \A u \in Threads \ {t} :
            pc'[u] = "relink" => next'[NewAt(u)'] # next[c]
      <4>1. ASSUME next[c] # NULL, NEW u \in Threads \ {t}, pc'[u] = "relink"
            PROVE  next'[NewAt(u)'] # next[c]
        <5>1. pc[u] = "relink"
          BY <1>8, <4>1 DEF SameFrame
        <5>2. next'[NewAt(u)'] = next[NewAt(u)]
          BY <2>5, <5>1
        <5> QED
          BY <2>6, <4>1, <5>1, <5>2
      <4> QED
        BY <4>1
    <3>3. size'[c] = size[c] /\ \A b \in blocks' : b \in blocks /\ next'[b] = next[b]
      BY <1>3, <1>6, <1>9
    <3>4. blocks' = blocks
      BY <1>6
    <3> QED
      BY <1>3, <1>10, <3>1, <3>2, <3>3, <3>4 DEF HalfSplitOK
  <2>8. ASSUME NEW u \in Threads \ {t}, pc'[u] = "relink"
        PROVE  HalfSplitOK(u)'
    <3>1. pc[u] = "relink"
      BY <1>8, <2>8 DEF SameFrame
    <3>2. HalfSplitOK(u)
      BY <1>1 DEF FrameInv
    <3>3. next[NewAt(u)] # NULL => \A v \in Threads \ {u} :
            pc'[v] = "relink" => next'[NewAt(v)'] # next[NewAt(u)]
      <4>1. ASSUME next[NewAt(u)] # NULL, NEW v \in Threads \ {u}, pc'[v] = "relink"
            PROVE  next'[NewAt(v)'] # next[NewAt(u)]
        <5>1. CASE v = t
          BY <1>10, <2>6, <3>1, <4>1, <5>1
        <5>2. CASE v # t
          <6>1. pc[v] = "relink"
            BY <1>8, <4>1, <5>2 DEF SameFrame
          <6>2. next'[NewAt(v)'] = next[NewAt(v)]
            BY <2>5, <5>2, <6>1
          <6> QED
            BY <3>1, <3>2, <4>1, <6>1, <6>2 DEF HalfSplitOK
        <5> QED
          BY <5>1, <5>2
      <4> QED
        BY <4>1
    <3>4. /\ size'[NewAt(u)'] = size[NewAt(u)] /\ next'[NewAt(u)'] = next[NewAt(u)]
          /\ free'[NewAt(u)'] = free[NewAt(u)]
          /\ block'[u] = block[u] /\ sz'[u] = sz[u] /\ size'[block[u]] = size[block[u]]
      BY <1>6, <1>9, <2>5, <3>1
    <3>5. blocks' = blocks
      BY <1>6
    <3> QED
      BY <1>9, <3>1, <3>2, <3>3, <3>4, <3>5 DEF HalfSplitOK
  <2>9. \A u \in Threads \ {t} : HalfSplitOK(u)'
    BY <2>8 DEF HalfSplitOK
  <2> QED
    BY <2>2, <2>3, <2>4, <2>7, <2>9 DEF FrameInv
<1>16. HoldInv'
  <2>1. Granted(t)' = Granted(t) /\ Surrendered(t)' = Surrendered(t)
    BY <1>1, <1>2, <1>6, <1>10 DEF Granted, Surrendered
  <2> QED
    BY <1>1, <1>6, <1>8, <1>11, <2>1, HoldSame
<1> QED
  BY <1>7, <1>12, <1>13, <1>14, <1>15, <1>16 DEF SafeInv

\* Linking the second header leaves the list acyclic and the blocks disjoint,
\* also when the link of the block changed since the header was filled.
LEMMA SplitLinkSafe ==
  ASSUME SafeInv, NEW t \in Threads, SplitLink(t)
  PROVE  SafeInv'
<1> USE ThreadsAssumption, SizesAssumption, HeapAssumption, IntptrMaxAssumption
<1>1. TypeOK /\ LockInv /\ LinksInv /\ SpaceInv /\ FrameInv /\ HoldInv
  BY DEF SafeInv
<1>0. PICK c, n : c = block[t] /\ n = NewAt(t)
  OBVIOUS
<1>2. pc[t] = "relink"
  BY DEF SplitLink
<1>3. /\ c \in blocks /\ ~free[c] /\ c \in Held(t) /\ c \in Addr
      /\ size[c] \in Nat /\ sz[t] \in Nat /\ sz[t] <= size[c]
      /\ BlockEnd(c) <= brk /\ brk \in Addr
  BY <1>0, <1>2, SplitFacts
<1>4. /\ sz[t] + META_SIZE + MIN_SPLIT_REMAINDER < size[c]
      /\ size[n] = size[c] - sz[t] - META_SIZE /\ free[n]
      /\ next[n] # NULL => /\ next[n] \in blocks /\ c < next[n]
                           /\ \A b \in blocks : next[b] = next[n] => b = c
      /\ \A u \in Threads \ {t} : pc[u] = "relink" /\ next[n] # NULL =>
           next[NewAt(u)] # next[n]
  BY <1>0, <1>1, <1>2 DEF FrameInv, HalfSplitOK
<1>5. Splits(t)
  BY <1>0, <1>2, <1>4 DEF Splits
<1>6. n \in Addr /\ n \notin blocks /\ c < n /\ n + META_SIZE < BlockEnd(c)
      /\ n = c + META_SIZE + sz[t]
  BY <1>0, <1>5, NewBlockInside DEF NewAt
<1>7. /\ size' = [size EXCEPT ![c] = sz[t]]
      /\ next' = [next EXCEPT ![c] = n]
      /\ blocks' = blocks \cup {n}
      /\ UNCHANGED <<brk, libc, global_base, heap_start, free, alloc_lock>>
  BY <1>0, <1>2, SplitArithmetic DEF SplitLink, os, base
<1>8. \/ op[t] = "resize" /\ Popped(t) /\ owned' = owned \cup {ptr[t]}
      \/ op[t] # "resize" /\ pc' = [pc EXCEPT ![t] = "m_unlock"]
         /\ UNCHANGED <<owned, op, sz, ptr, cur, last, block>>
  BY DEF SplitLink, Popped, Return, Goto, frame
<1>9. \A u \in Threads \ {t} : SameFrame(u)
  BY <1>1, <1>8 DEF TypeOK, SameFrame, Popped
<1>10. \A b \in blocks \ {c} : size'[b] = size[b] /\ next'[b] = next[b]
  BY <1>1, <1>7 DEF TypeOK
<1>11. /\ size'[c] = sz[t] /\ next'[c] = n
       /\ size'[n] = size[n] /\ next'[n] = next[n] /\ free' = free
       /\ blocks' = blocks \cup {n} /\ global_base' = global_base /\ brk' = brk
       /\ libc' = libc
  BY <1>1, <1>3, <1>6, <1>7 DEF TypeOK
<1>12. InUse' = InUse /\ InUse \subseteq Nat
  BY <1>1, <1>4, <1>11, InUseNat DEF InUse
<1>13. size'[n] \in Nat /\ BlockEnd(c)' = n /\ BlockEnd(n)' = BlockEnd(c)
       /\ BlockEnd(c) \in Nat
  <2>1. size[n] \in Nat /\ BlockEnd(c) \in Nat /\ BlockEnd(c) = c + META_SIZE + size[c]
    BY <1>3, <1>4 DEF BlockEnd
  <2>2. BlockEnd(c)' = c + META_SIZE + sz[t] /\ BlockEnd(n)' = n + META_SIZE + size[n]
    BY <1>11 DEF BlockEnd
  <2> QED
    BY <1>3, <1>4, <1>6, <1>11, <2>1, <2>2
<1>14. \A b \in blocks : b \in Nat /\ BlockEnd(b) \in Nat
  BY <1>1 DEF TypeOK, BlockEnd
<1>15. \A b \in blocks \ {c} : BlockEnd(b)' = BlockEnd(b)
  BY <1>10 DEF BlockEnd
<1>16. LinksInv'
  <2>1. \A b \in blocks' : global_base' <= b
    <3>1. \A b \in blocks : global_base <= b
      BY <1>1 DEF LinksInv
    <3>2. global_base \in Int /\ c \in Int /\ n \in Int
      BY <1>1, <1>3, <1>6 DEF TypeOK
    <3>3. global_base <= n
      BY <1>3, <1>6, <3>1, <3>2
    <3> QED
      BY <1>11, <3>1, <3>3
  <2>2. blocks' # {} /\ global_base' \in blocks' /\ global_base' # NULL
    BY <1>1, <1>3, <1>11 DEF LinksInv
  <2>3. next[n] # NULL => n < next[n]
    <3>1. next[n] # NULL => BlockEnd(c) <= next[n]
      BY <1>1, <1>3, <1>4 DEF SpaceInv, BlocksDisjoint
    <3> QED
      BY <1>4, <1>6, <1>13, <1>14, <3>1
  <2>4. \A b \in blocks' : next'[b] # NULL => next'[b] \in blocks' /\ b < next'[b]
    <3> SUFFICES ASSUME NEW b \in blocks', next'[b] # NULL
                 PROVE  next'[b] \in blocks' /\ b < next'[b]
      OBVIOUS
    <3>1. CASE b = c
      BY <1>6, <1>11, <3>1
    <3>2. CASE b = n
      BY <1>4, <1>11, <2>3, <3>2
    <3>3. CASE b \in blocks \ {c}
      BY <1>1, <1>10, <1>11, <3>3 DEF LinksInv
    <3> QED
      BY <1>11, <3>1, <3>2, <3>3
  <2>5. ASSUME NEW b \in blocks', NEW d \in blocks', next'[b] = next'[d], next'[b] # NULL
        PROVE  b = d
    <3>1. \A e \in blocks \ {c} : next'[e] # n /\ next'[e] = next[e]
      BY <1>1, <1>6, <1>10 DEF LinksInv, TypeOK
    <3>2. next[n] # NULL => next[n] # n /\ \A e \in blocks \ {c} : next'[e] # next[n]
      BY <1>4, <1>6, <3>1
    <3>3. CASE b \in blocks \ {c} /\ d \in blocks \ {c}
      BY <1>1, <2>5, <3>1, <3>3 DEF LinksInv
    <3>4. CASE b = c \/ d = c
      BY <1>6, <1>11, <2>5, <3>1, <3>2, <3>4
    <3>5. CASE b = n \/ d = n
      BY <1>6, <1>11, <2>5, <3>1, <3>2, <3>5
    <3> QED
      BY <1>11, <3>3, <3>4, <3>5
  <2> QED
    BY <2>1, <2>2, <2>4, <2>5 DEF LinksInv
<1>17. SpaceInv'
  <2>1. ASSUME NEW b \in blocks', NEW d \in blocks', b < d
        PROVE  BlockEnd(b)' <= d
    <3>1. \A x, y \in blocks : x < y => BlockEnd(x) <= y
      BY <1>1 DEF SpaceInv, BlocksDisjoint
    <3>2. \A x \in blocks : x < n /\ x # c => BlockEnd(x) <= n
      <4>1. \A x \in blocks : x < c \/ x = c \/ BlockEnd(c) <= x
        BY <1>3, <1>14, <3>1
      <4>2. \A x \in blocks : x < c => BlockEnd(x) <= c
        BY <1>3, <3>1
      <4> QED
        BY <1>3, <1>6, <1>13, <1>14, <4>1, <4>2
    <3>3. \A x \in blocks : n < x => BlockEnd(c) <= x
      BY <1>3, <1>6, <1>14, <3>1
    <3>4. CASE b \in blocks \ {c} /\ d \in blocks
      BY <1>15, <2>1, <3>1, <3>4
    <3>5. CASE b \in blocks \ {c} /\ d = n
      BY <1>15, <2>1, <3>2, <3>5
    <3>6. CASE b = c
      BY <1>3, <1>6, <1>11, <1>13, <1>14, <2>1, <3>1, <3>6
    <3>7. CASE b = n
      BY <1>6, <1>11, <1>13, <1>14, <2>1, <3>3, <3>7
    <3> QED
      BY <1>11, <3>4, <3>5, <3>6, <3>7
  <2>2. ASSUME NEW b \in blocks'
        PROVE  BlockEnd(b)' <= brk /\ \A a \in libc : a < b \/ BlockEnd(b)' <= a
    <3>1. \A x \in blocks : BlockEnd(x) <= brk
      BY <1>1 DEF SpaceInv, BlocksDisjoint
    <3>2. \A x \in blocks : \A a \in libc : a < x \/ BlockEnd(x) <= a
      BY <1>1, <1>14 DEF TypeOK, SpaceInv, BlocksDisjoint
    <3>3. \A a \in libc : a \in Nat
      BY <1>1 DEF TypeOK
    <3>4. CASE b \in blocks \ {c}
      BY <1>15, <3>1, <3>2, <3>4
    <3>5. CASE b = c
      BY <1>3, <1>6, <1>13, <1>14, <3>2, <3>3, <3>5
    <3>6. CASE b = n
      BY <1>3, <1>6, <1>13, <1>14, <3>2, <3>3, <3>6
    <3> QED
      BY <1>11, <3>4, <3>5, <3>6
  <2>3. \A b \in blocks' : BlockEnd(b)' \in Nat /\ b \in Nat
    BY <1>6, <1>11, <1>13, <1>14, <1>15
  <2>4. \A b \in blocks' : /\ BlockEnd(b)' <= brk'
                           /\ \A a \in libc' : a < b \/ BlockEnd(b)' <= a
    BY <1>11, <2>2
  <2>5. \A b, d \in blocks' : b < d => BlockEnd(b)' <= d
    BY <2>1
  <2> QED
    BY <1>1, <1>11, <2>4, <2>5 DEF SpaceInv, BlocksDisjoint
<1>18. TypeOK'
  <2>1. size' \in [Addr -> SizeT]
    BY <1>1, <1>3, <1>7 DEF TypeOK
  <2>2. next' \in [Addr -> Addr \cup {NULL}]
    <3> HIDE DEF Addr
    <3> QED
      BY <1>1, <1>6, <1>7 DEF TypeOK
  <2>3. blocks' \subseteq Addr
    BY <1>1, <1>6, <1>7 DEF TypeOK
  <2>4. CASE op[t] = "resize" /\ Popped(t) /\ owned' = owned \cup {ptr[t]}
    <3>1. owned' \subseteq Nat
      <4>1. owned \subseteq Nat /\ ptr[t] \in Nat
        BY <1>1 DEF TypeOK
      <4> QED
        BY <2>4, <4>1
    <3>2. /\ pc' \in [Threads -> PCs] /\ op' \in [Threads -> Ops]
          /\ sz' \in [Threads -> SizeT] /\ ptr' \in [Threads -> Nat]
          /\ cur' \in [Threads -> Addr \cup {NULL}]
          /\ last' \in [Threads -> Addr \cup {NULL}]
          /\ block' \in [Threads -> Addr \cup {NULL}]
      BY <1>1, <2>4, PoppedFrame
    <3> QED
      BY <1>1, <1>7, <2>1, <2>2, <2>3, <3>1, <3>2 DEF TypeOK
  <2>5. CASE op[t] # "resize" /\ pc' = [pc EXCEPT ![t] = "m_unlock"]
             /\ UNCHANGED <<owned, op, sz, ptr, cur, last, block>>
    <3>1. pc' \in [Threads -> PCs]
      BY <1>1, <2>5 DEF TypeOK, PCs
    <3> QED
      BY <1>1, <1>7, <2>1, <2>2, <2>3, <2>5, <3>1 DEF TypeOK
  <2> QED
    BY <1>8, <2>4, <2>5
<1>19. LockInv'
  <2>1. \A u \in Threads \ {t} : HoldsLock(u)' <=> HoldsLock(u)
    BY <1>9 DEF HoldsLock, SameFrame
  <2>2. HoldsLock(t)' <=> HoldsLock(t)
    BY <1>1, <1>2, <1>8, PoppedFrame DEF TypeOK, HoldsLock
  <2> QED
    BY <1>1, <1>7, <2>1, <2>2 DEF LockInv
<1>20. \A u \in Threads \ {t} : \A b \in Held(u) : b # c /\ b \in blocks
  BY <1>1, <1>3 DEF HoldInv, InUse
<1>21. \A u \in Threads \ {t} : CallOK(u)' /\ CursorOK(u)' /\ SizesOK(u)'
  <2>1. \A u \in Threads \ {t} : \A b \in Held(u) : size'[b] = size[b]
    BY <1>10, <1>20
  <2> QED
    BY <1>3, <1>9, <1>11, <2>1, OthersCarryOn
<1>22. CallOK(t)' /\ CursorOK(t)' /\ SizesOK(t)'
  <2>1. CASE Popped(t)
    BY <1>1, <2>1, PoppedFrame
  <2>2. CASE op[t] # "resize" /\ pc' = [pc EXCEPT ![t] = "m_unlock"]
             /\ UNCHANGED <<owned, op, sz, ptr, cur, last, block>>
    <3>1. /\ pc'[t] = "m_unlock" /\ op'[t] = op[t] /\ sz'[t] = sz[t] /\ ptr'[t] = ptr[t]
          /\ block'[t] = c /\ op[t] \in {"malloc", "realloc"}
      BY <1>0, <1>1, <1>2, <2>2 DEF TypeOK, FrameInv, CallOK
    <3>2. CallOK(t)' /\ CursorOK(t)'
      BY <1>1, <3>1 DEF FrameInv, CallOK, CursorOK
    <3>3. op[t] = "realloc" => get_block_ptr(ptr[t]) \in blocks \ {c}
      <4>1. op[t] = "realloc" => /\ c \in Granted(t)
                                 /\ get_block_ptr(ptr[t]) \in Surrendered(t)
                                 /\ get_block_ptr(ptr[t]) \in Held(t)
        BY <1>0, <1>1, <1>2 DEF FrameInv, CursorOK, Held, Granted, Surrendered
      <4> QED
        BY <1>1, <4>1 DEF HoldInv, InUse
    <3>4. SizesOK(t)'
      <4>1. op[t] = "realloc" => size[get_block_ptr(ptr[t])] < sz[t]
        BY <1>1, <1>2 DEF FrameInv, SizesOK
      <4>2. op[t] = "realloc" => size'[get_block_ptr(ptr[t])] < sz[t]
        BY <1>10, <3>3, <4>1
      <4> QED
        BY <1>3, <1>11, <3>1, <4>2 DEF SizesOK
    <3> QED
      BY <3>2, <3>4
  <2> QED
    BY <1>8, <2>1, <2>2
<1>23. \A u \in Threads : pc'[u] = "relink" => u # t /\ pc[u] = "relink" /\ NewAt(u)' = NewAt(u)
         /\ block'[u] = block[u] /\ sz'[u] = sz[u]
  <2>1. pc'[t] # "relink"
    BY <1>1, <1>8, PoppedFrame DEF TypeOK
  <2> QED
    BY <1>9, <2>1 DEF SameFrame, NewAt
<1>24. ASSUME NEW u \in Threads, pc'[u] = "relink"
       PROVE  HalfSplitOK(u)'
  <2>1. pc[u] = "relink" /\ u # t /\ HalfSplitOK(u)
    BY <1>1, <1>23, <1>24 DEF FrameInv
  <2>2. \A v \in Threads \ {t} : pc[v] = "relink" =>
          /\ NewAt(v) \in Addr /\ NewAt(v) \notin blocks /\ NewAt(v) # n
          /\ size'[NewAt(v)] = size[NewAt(v)] /\ next'[NewAt(v)] = next[NewAt(v)]
    <3> SUFFICES ASSUME NEW v \in Threads \ {t}, pc[v] = "relink"
                 PROVE  /\ NewAt(v) \in Addr /\ NewAt(v) \notin blocks /\ NewAt(v) # n
                        /\ size'[NewAt(v)] = size[NewAt(v)]
                        /\ next'[NewAt(v)] = next[NewAt(v)]
      OBVIOUS
    <3>1. Splits(v)
      BY <1>1 DEF Splits, FrameInv, HalfSplitOK
    <3>2. NewAt(v) \in Addr /\ NewAt(v) \notin blocks /\ NewAt(v) # n
      BY <1>0, <1>5, <3>1, NewBlockInside, NewBlocksDiffer
    <3>3. NewAt(v) # c
      BY <1>3, <3>2
    <3> QED
      BY <1>1, <1>7, <3>2, <3>3 DEF TypeOK
  <2>3. block[u] \in blocks \ {c}
    <3>1. block[u] \in Held(u)
      BY <2>1, SplitFacts
    <3> QED
      BY <1>20, <2>1, <3>1
  <2>4. size'[block[u]] = size[block[u]]
    BY <1>10, <2>3
  <2>5. ASSUME next[NewAt(u)] # NULL
        PROVE  /\ next[NewAt(u)] \in blocks' /\ block[u] < next[NewAt(u)]
               /\ \A b \in blocks' : next'[b] = next[NewAt(u)] => b = block[u]
               /\ \A v \in Threads \ {u} :
                    pc'[v] = "relink" => next'[NewAt(v)'] # next[NewAt(u)]
    <3>1. next[NewAt(u)] \in blocks /\ block[u] < next[NewAt(u)]
      BY <2>1, <2>5 DEF HalfSplitOK
    <3>2. \A b \in blocks \ {c} : next'[b] = next[NewAt(u)] => b = block[u]
      BY <1>10, <2>1, <2>5 DEF HalfSplitOK
    <3>3. next'[c] # next[NewAt(u)]
      BY <1>6, <1>11, <3>1
    <3>4. next'[n] # next[NewAt(u)]
      BY <1>0, <1>2, <1>11, <2>1, <2>5 DEF HalfSplitOK
    <3>5. \A v \in Threads \ {u} : pc'[v] = "relink" => next'[NewAt(v)'] # next[NewAt(u)]
      <4> SUFFICES ASSUME NEW v \in Threads \ {u}, pc'[v] = "relink"
                   PROVE  next'[NewAt(v)'] # next[NewAt(u)]
        OBVIOUS
      <4>1. v # t /\ pc[v] = "relink" /\ NewAt(v)' = NewAt(v)
        BY <1>23
      <4>2. next'[NewAt(v)'] = next[NewAt(v)]
        BY <2>2, <4>1
      <4> QED
        BY <2>1, <2>5, <4>1, <4>2 DEF HalfSplitOK
    <3> QED
      BY <1>11, <3>1, <3>2, <3>3, <3>4, <3>5
  <2>6. /\ NewAt(u)' = NewAt(u) /\ block'[u] = block[u] /\ sz'[u] = sz[u]
        /\ size'[NewAt(u)] = size[NewAt(u)] /\ next'[NewAt(u)] = next[NewAt(u)]
        /\ free'[NewAt(u)] = free[NewAt(u)]
    BY <1>11, <1>23, <1>24, <2>1, <2>2
  <2> QED
    BY <2>1, <2>4, <2>5, <2>6 DEF HalfSplitOK
<1>25. FrameInv'
  <2>1. \A u \in Threads : HalfSplitOK(u)'
    BY <1>24 DEF HalfSplitOK
  <2> QED
    BY <1>21, <1>22, <2>1 DEF FrameInv
<1>26. HoldInv'
  <2>1. CASE op[t] = "resize" /\ Popped(t) /\ owned' = owned \cup {ptr[t]}
    <3>1. Held(t) = {c} /\ payload(c) = ptr[t]
      BY <1>0, <1>1, <1>2, <2>1 DEF TypeOK, FrameInv, CallOK, Held, Granted, Surrendered
    <3>2. owned' = owned \cup {payload(b) : b \in Held(t)}
      BY <2>1, <3>1
    <3> QED
      BY <1>1, <1>9, <1>12, <2>1, <3>2, SizesAssumption, PoppedFrame, HoldTake
  <2>2. CASE op[t] # "resize" /\ pc' = [pc EXCEPT ![t] = "m_unlock"]
             /\ UNCHANGED <<owned, op, sz, ptr, cur, last, block>>
    <3>1. Granted(t)' = Granted(t) /\ Surrendered(t)' = Surrendered(t)
      BY <1>1, <1>2, <2>2 DEF TypeOK, Granted, Surrendered
    <3> QED
      BY <1>1, <1>9, <1>12, <2>2, <3>1, HoldSame
  <2> QED
    BY <1>8, <2>1, <2>2
<1> QED
  BY <1>16, <1>17, <1>18, <1>19, <1>25, <1>26 DEF SafeInv

\* A thread between the two halves of a split is not disturbed by a step of t
\* that changes headers of t's own blocks and of free blocks only.
LEMMA HalfSplitsCarryOn ==
  ASSUME SafeInv, NEW t \in Threads, pc[t] # "relink", pc'[t] # "relink",
         \A u \in Threads \ {t} : SameFrame(u),
         \A u \in Threads \ {t} : pc[u] = "relink" =>
           /\ size'[block[u]] = size[block[u]]
           /\ size'[NewAt(u)] = size[NewAt(u)] /\ next'[NewAt(u)] = next[NewAt(u)]
           /\ free'[NewAt(u)] = free[NewAt(u)]
           /\ next[NewAt(u)] # NULL =>
                /\ next[NewAt(u)] \in blocks'
                /\ \A b \in blocks' : next'[b] = next[NewAt(u)] => b = block[u]
  PROVE  \A u \in Threads : HalfSplitOK(u)'
<1>1. ASSUME NEW u \in Threads, pc'[u] = "relink"
      PROVE  u # t /\ pc[u] = "relink" /\ NewAt(u)' = NewAt(u)
             /\ block'[u] = block[u] /\ sz'[u] = sz[u]
             /\ next'[NewAt(u)'] = next[NewAt(u)]
  BY <1>1 DEF SameFrame, NewAt
<1>2. ASSUME NEW u \in Threads, pc'[u] = "relink"
      PROVE  HalfSplitOK(u)'
  <2>1. HalfSplitOK(u) /\ pc[u] = "relink" /\ u # t
    BY <1>1, <1>2 DEF SafeInv, FrameInv
  <2>2. \A v \in Threads \ {u} : pc'[v] = "relink" /\ next[NewAt(u)] # NULL =>
          next'[NewAt(v)'] # next[NewAt(u)]
    BY <1>1, <2>1 DEF HalfSplitOK
  <2> QED
    BY <1>1, <1>2, <2>1, <2>2 DEF HalfSplitOK
<1> QED
  BY <1>2 DEF HalfSplitOK

\* A successful sbrk() appends a block that overlaps nothing, for requests
\* that do not wrap.
LEMMA ExtendSafe ==
  ASSUME SafeInv, NEW t \in Threads, Extend(t)
  PROVE  SafeInv'
<1> USE ThreadsAssumption, SizesAssumption, HeapAssumption, IntptrMaxAssumption
<1>1. TypeOK /\ LockInv /\ LinksInv /\ SpaceInv /\ FrameInv /\ HoldInv
  BY DEF SafeInv
<1>0. PICK c, e : c = brk /\ e = brk + META_SIZE + sz[t]
  OBVIOUS
<1>2. pc[t] = "extend" /\ block[t] = c /\ c \in Addr /\ sz[t] \in SizeT
      /\ op[t] \in {"malloc", "realloc"} /\ META_SIZE + sz[t] <= INTPTR_MAX
  BY <1>0, <1>1 DEF Extend, TypeOK, FrameInv, CallOK, CursorOK
<1>3. BreakWanted(t) = e
  BY <1>0, <1>2 DEF BreakWanted, SizeAdd, AsIntptr
<1>4. last[t] \in blocks \/ (last[t] = NULL /\ blocks = {})
  BY <1>1, <1>2 DEF FrameInv, CursorOK
<1>5. /\ e \in Addr /\ brk' = e /\ c < e
      /\ size' = [size EXCEPT ![c] = sz[t]]
      /\ next' = [a \in Addr |-> IF a = last[t] THEN c ELSE IF a = c THEN NULL ELSE next[a]]
      /\ free' = [free EXCEPT ![c] = FALSE]
      /\ blocks' = blocks \cup {c}
      /\ heap_start' = (IF heap_start = NULL THEN c ELSE heap_start)
      /\ global_base' = (IF global_base = NULL THEN c ELSE global_base)
      /\ pc' = [pc EXCEPT ![t] = "m_unlock"]
      /\ UNCHANGED <<libc, alloc_lock, owned, op, sz, ptr, cur, last, block>>
  BY <1>0, <1>2, <1>3 DEF Extend, Goto, frame
<1>6. \A b \in blocks : b \in Nat /\ size[b] \in Nat /\ BlockEnd(b) <= c /\ b < c
  <2>1. \A b \in blocks : b \in Nat /\ size[b] \in Nat /\ BlockEnd(b) <= c
    BY <1>0, <1>1 DEF TypeOK, SpaceInv, BlocksDisjoint
  <2> QED
    BY <1>2, <2>1 DEF BlockEnd
<1>7. \A u \in Threads \ {t} : SameFrame(u)
  BY <1>1, <1>5 DEF TypeOK, SameFrame
<1>8. pc'[t] = "m_unlock" /\ block'[t] = c
  BY <1>1, <1>2, <1>5 DEF TypeOK
<1>9. /\ size'[c] = sz[t] /\ next'[c] = NULL /\ free'[c] = FALSE
      /\ \A a \in Addr \ {c} : size'[a] = size[a] /\ free'[a] = free[a]
      /\ \A a \in Addr \ {c} : next'[a] = IF a = last[t] THEN c ELSE next[a]
  <2>1. last[t] # c
    BY <1>2, <1>4, <1>6
  <2> QED
    BY <1>1, <1>2, <1>5, <2>1 DEF TypeOK
<1>10. blocks \subseteq Addr \ {c} /\ c # NULL
  BY <1>1, <1>2, <1>6 DEF TypeOK
<1>11. TypeOK'
  <2>1. size' \in [Addr -> SizeT] /\ free' \in [Addr -> BOOLEAN]
    BY <1>1, <1>2, <1>5 DEF TypeOK
  <2>2. next' \in [Addr -> Addr \cup {NULL}]
    <3> HIDE DEF Addr
    <3> QED
      BY <1>1, <1>2, <1>5 DEF TypeOK
  <2>3. pc' \in [Threads -> PCs]
    BY <1>1, <1>5 DEF TypeOK, PCs
  <2>4. blocks' \subseteq Addr
    BY <1>1, <1>2, <1>5 DEF TypeOK
  <2> QED
    BY <1>1, <1>2, <1>5, <2>1, <2>2, <2>3, <2>4 DEF TypeOK
<1>12. HoldsLock(t) /\ LockInv'
  <2>1. HoldsLock(t) /\ HoldsLock(t)'
    BY <1>2, <1>8 DEF HoldsLock
  <2>2. \A u \in Threads \ {t} : HoldsLock(u)' <=> HoldsLock(u)
    BY <1>7 DEF HoldsLock, SameFrame
  <2> QED
    BY <1>1, <1>5, <2>1, <2>2 DEF LockInv
<1>13. LinksInv'
  <2>1. blocks' # {} /\ global_base' # NULL /\ global_base' \in blocks'
    BY <1>1, <1>5, <1>10 DEF LinksInv
  <2>2. \A b \in blocks' : global_base' <= b
    BY <1>1, <1>2, <1>5, <1>6 DEF LinksInv
  <2>3. \A b \in blocks' : next'[b] # NULL => next'[b] \in blocks' /\ b < next'[b]
    BY <1>1, <1>5, <1>6, <1>9, <1>10 DEF LinksInv
  <2>4. \A b \in blocks : next[b] # c
    BY <1>1, <1>2, <1>6, <1>10 DEF LinksInv
  <2>5. \A b, d \in blocks' : next'[b] = next'[d] /\ next'[b] # NULL => b = d
    BY <1>1, <1>5, <1>9, <1>10, <2>4 DEF LinksInv
  <2> QED
    BY <2>1, <2>2, <2>3, <2>5 DEF LinksInv
<1>14. SpaceInv'
  <2>1. BlockEnd(c)' = e /\ e \in Nat /\ c \in Nat
    BY <1>0, <1>2, <1>5, <1>9 DEF BlockEnd
  <2>2. \A b \in blocks : BlockEnd(b)' = BlockEnd(b) /\ BlockEnd(b) \in Nat
    BY <1>6, <1>9, <1>10 DEF BlockEnd
  <2>3. \A b, d \in blocks' : b < d => BlockEnd(b)' <= d
    BY <1>1, <1>5, <1>6, <2>1, <2>2 DEF SpaceInv, BlocksDisjoint
  <2>4. \A b \in blocks' : BlockEnd(b)' <= brk'
    BY <1>5, <1>6, <2>1, <2>2
  <2>5. \A a \in libc : a \in HeapBase..(c - 1)
    BY <1>0, <1>1 DEF SpaceInv
  <2>6. \A b \in blocks' : \A a \in libc' : a < b \/ BlockEnd(b)' <= a
    BY <1>1, <1>2, <1>5, <2>1, <2>2, <2>5 DEF SpaceInv, BlocksDisjoint
  <2>7. libc' \subseteq HeapBase..(brk' - 1)
    BY <1>2, <1>5, <2>5
  <2> QED
    BY <2>3, <2>4, <2>6, <2>7 DEF SpaceInv, BlocksDisjoint
<1>15. \A u \in Threads : \A b \in Held(u) : b \in blocks
  BY <1>1 DEF HoldInv, InUse
<1>16. FrameInv'
  <2>1. \A u \in Threads \ {t} : \A b \in Held(u) : size'[b] = size[b]
    BY <1>9, <1>10, <1>15
  <2>2. \A u \in Threads \ {t} : CallOK(u)' /\ CursorOK(u)' /\ SizesOK(u)'
    BY <1>7, <1>12, <2>1, OthersCarryOn
  <2>3. op'[t] = op[t] /\ sz'[t] = sz[t] /\ ptr'[t] = ptr[t]
    BY <1>5
  <2>4. CallOK(t)' /\ CursorOK(t)'
    BY <1>1, <1>2, <1>8, <2>3 DEF FrameInv, CallOK, CursorOK
  <2>5. SizesOK(t)'
    <3>1. op[t] = "realloc" => /\ get_block_ptr(ptr[t]) \in blocks
                               /\ size[get_block_ptr(ptr[t])] < sz[t]
      BY <1>1, <1>2, <1>15 DEF FrameInv, SizesOK, Held, Surrendered
    <3>2. op[t] = "realloc" => size'[get_block_ptr(ptr[t])] < sz[t]
      BY <1>9, <1>10, <3>1
    <3> QED
      BY <1>2, <1>8, <1>9, <2>3, <3>2 DEF SizesOK
  <2>6. \A u \in Threads : HalfSplitOK(u)'
    <3>1. ASSUME NEW u \in Threads \ {t}, pc[u] = "relink"
          PROVE  /\ size'[block[u]] = size[block[u]]
                 /\ size'[NewAt(u)] = size[NewAt(u)] /\ next'[NewAt(u)] = next[NewAt(u)]
                 /\ free'[NewAt(u)] = free[NewAt(u)]
                 /\ next[NewAt(u)] # NULL =>
                      /\ next[NewAt(u)] \in blocks'
                      /\ \A b \in blocks' : next'[b] = next[NewAt(u)] => b = block[u]
      <4>1. Splits(u) /\ HalfSplitOK(u)
        BY <1>1, <3>1 DEF Splits, FrameInv, HalfSplitOK
      <4>2. NewAt(u) \in Addr /\ NewAt(u) \notin blocks
            /\ block[u] < NewAt(u) /\ NewAt(u) + META_SIZE < BlockEnd(block[u])
        BY <4>1, NewBlockInside
      <4>3. block[u] \in blocks
        BY <3>1, SplitFacts
      <4>4. BlockEnd(block[u]) <= c /\ BlockEnd(block[u]) \in Nat
        BY <1>6, <4>3 DEF BlockEnd
      <4>5. NewAt(u) \in Addr \ {c} /\ NewAt(u) # last[t]
        BY <1>2, <1>4, <4>2, <4>3, <4>4
      <4>6. \A b \in blocks' : next'[b] = next[NewAt(u)] /\ next[NewAt(u)] # NULL => b = block[u]
        BY <1>5, <1>9, <1>10, <3>1, <4>1 DEF HalfSplitOK
      <4>7. next[NewAt(u)] # NULL => next[NewAt(u)] \in blocks'
        BY <1>5, <3>1, <4>1 DEF HalfSplitOK
      <4> QED
        BY <1>9, <1>10, <4>3, <4>5, <4>6, <4>7
    <3> QED
      BY <1>2, <1>7, <1>8, <3>1, HalfSplitsCarryOn
  <2> QED
    BY <2>2, <2>4, <2>5, <2>6 DEF FrameInv
<1>17. HoldInv'
  <2>1. InUse' = InUse \cup {c} /\ c \notin InUse
    <3>1. c \notin blocks /\ blocks' = blocks \cup {c}
      BY <1>5, <1>10
    <3>2. ~free'[c] /\ \A b \in blocks : free'[b] = free[b]
      BY <1>9, <1>10
    <3> HIDE DEF Addr
    <3> QED
      BY <3>1, <3>2 DEF InUse
  <2>2. Granted(t) = {} /\ Granted(t)' = {c} /\ Surrendered(t)' = Surrendered(t)
    BY <1>2, <1>5, <1>8, <1>10 DEF Granted, Surrendered
  <2>3. Held(t)' = Held(t) \cup {c} /\ c \notin Held(t) /\ Held(t) \subseteq InUse
    BY <1>1, <2>1, <2>2 DEF Held, HoldInv
  <2>4. Granted(t)' \cap Surrendered(t)' = {}
    BY <2>2, <2>3 DEF Held
  <2>5. payload(c) \notin owned
    <3>1. payload(c) \in owned => get_block_ptr(payload(c)) \in InUse
      BY <1>1 DEF HoldInv
    <3> QED
      BY <3>1, <1>2, <2>1
  <2>6. owned' = owned /\ \A b \in Held(t) : payload(b) \notin owned
    BY <1>1, <1>5 DEF HoldInv
  <2>7. InUse \subseteq Nat /\ InUse' \subseteq Nat
    BY <1>1, <1>11, InUseNat, InUseNatPrime
  <2> QED
    BY <1>1, <1>7, <2>1, <2>3, <2>4, <2>5, <2>6, <2>7, HoldTransfer
<1> QED
  BY <1>11, <1>12, <1>13, <1>14, <1>16, <1>17 DEF SafeInv

\* coalesce_all absorbs a free neighbour only: nobody holds it, and no
\* half-done split refers to it that would make a cycle.
LEMMA MergeSafe ==
  ASSUME SafeInv, NEW t \in Threads, Merge(t)
  PROVE  SafeInv'
<1> USE ThreadsAssumption, SizesAssumption, HeapAssumption, IntptrMaxAssumption
<1>1. TypeOK /\ LockInv /\ LinksInv /\ SpaceInv /\ FrameInv /\ HoldInv
  BY DEF SafeInv
<1>0. PICK c, n : c = cur[t] /\ n = next[c]
  OBVIOUS
<1>2. pc[t] = "coalesce" /\ c # NULL /\ n # NULL /\ Mergeable(c)
  BY <1>0 DEF Merge, AtListEnd
<1>3. c \in blocks /\ n \in blocks /\ c < n /\ free[c] /\ free[n]
  BY <1>0, <1>1, <1>2 DEF FrameInv, CursorOK, LinksInv, Mergeable
<1>4. \A b \in blocks : b \in Addr /\ b \in Nat /\ size[b] \in Nat /\ BlockEnd(b) \in Nat
                        /\ BlockEnd(b) <= brk
  <2>1. \A b \in blocks : b \in Addr /\ size[b] \in SizeT
    BY <1>1 DEF TypeOK
  <2>2. \A b \in blocks : BlockEnd(b) <= brk
    BY <1>1 DEF SpaceInv, BlocksDisjoint
  <2>3. \A b \in blocks : b \in Nat /\ size[b] \in Nat
    BY <2>1
  <2> QED
    BY <2>1, <2>2, <2>3 DEF BlockEnd
<1>5. brk \in Addr /\ brk \in Nat
  BY <1>1 DEF TypeOK
<1>6. BlockEnd(c) = n
  <2>1. PayloadEnd(c) = BlockEnd(c)
    BY <1>3, <1>4, <1>5 DEF PayloadEnd, SizeAdd, BlockEnd
  <2> QED
    BY <1>0, <1>2, <2>1 DEF Mergeable, are_adjacent
<1>7. SizeAdd(size[c], Absorbed(n)) = size[c] + META_SIZE + size[n]
      /\ size[c] + META_SIZE + size[n] \in SizeT
  BY <1>3, <1>4, <1>5, <1>6 DEF Absorbed, SizeAdd, BlockEnd
<1>8. /\ size' = [size EXCEPT ![c] = size[c] + META_SIZE + size[n]]
      /\ next' = [next EXCEPT ![c] = next[n]]
      /\ blocks' = blocks \ {n}
      /\ UNCHANGED <<brk, libc, global_base, heap_start, free, alloc_lock, owned, pc>>
      /\ UNCHANGED <<op, sz, ptr, cur, last, block>>
  BY <1>0, <1>7 DEF Merge, os, base, frame
<1>9. \A a \in Addr \ {c} : size'[a] = size[a] /\ next'[a] = next[a]
  BY <1>1, <1>8 DEF TypeOK
<1>10. size'[c] = size[c] + META_SIZE + size[n] /\ next'[c] = next[n]
  BY <1>1, <1>3, <1>4, <1>8 DEF TypeOK
<1>11. \A u \in Threads \ {t} : SameFrame(u)
  BY <1>8 DEF SameFrame
<1>12. TypeOK'
  <2>1. size' \in [Addr -> SizeT]
    BY <1>1, <1>7, <1>8 DEF TypeOK
  <2>2. next' \in [Addr -> Addr \cup {NULL}]
    <3>1. n \in Addr
      BY <1>3, <1>4
    <3> HIDE DEF Addr
    <3> QED
      BY <1>1, <1>8, <3>1 DEF TypeOK
  <2> QED
    BY <1>1, <1>8, <2>1, <2>2 DEF TypeOK
<1>13. LockInv' /\ HoldsLock(t)
  BY <1>1, <1>2, <1>8 DEF LockInv, HoldsLock
<1>14. LinksInv'
  <2>1. global_base' \in blocks' /\ global_base' # NULL
    <3>1. global_base \in blocks /\ global_base <= c /\ global_base # NULL
      BY <1>1, <1>3 DEF LinksInv
    <3>2. global_base \in Nat /\ c \in Nat /\ n \in Nat
      BY <1>3, <1>4, <3>1
    <3>3. global_base # n
      BY <1>3, <3>1, <3>2
    <3> QED
      BY <1>8, <3>1, <3>3
  <2>2. \A b \in blocks' : global_base' <= b
    <3>1. \A b \in blocks : global_base <= b
      BY <1>1 DEF LinksInv
    <3> QED
      BY <1>8, <3>1
  <2>3. \A b \in blocks : next[b] = n => b = c
    BY <1>0, <1>1, <1>2, <1>3 DEF LinksInv
  <2>4. next[n] # NULL => next[n] \in blocks /\ n < next[n] /\ next[n] # n
    BY <1>1, <1>3, <1>4 DEF LinksInv
  <2>5. next'[c] # NULL => next'[c] \in blocks' /\ c < next'[c]
    BY <1>3, <1>4, <1>8, <1>10, <2>4
  <2>6. \A b \in blocks' : next'[b] # NULL => next'[b] \in blocks' /\ b < next'[b]
    BY <1>1, <1>4, <1>8, <1>9, <2>3, <2>5 DEF LinksInv
  <2>7. ASSUME NEW b \in blocks', NEW d \in blocks', next'[b] = next'[d], next'[b] # NULL
        PROVE  b = d
    <3>1. \A x \in blocks' \ {c} : next'[x] = next[x] /\ x \in blocks /\ x # n
      BY <1>4, <1>8, <1>9
    <3>2. CASE b # c /\ d # c
      BY <1>1, <2>7, <3>1, <3>2 DEF LinksInv
    <3>3. CASE b = c \/ d = c
      BY <1>1, <1>3, <1>10, <2>7, <3>1, <3>3 DEF LinksInv
    <3> QED
      BY <3>2, <3>3
  <2> QED
    BY <2>1, <2>2, <2>6, <2>7 DEF LinksInv
<1>15. BlockEnd(c)' = BlockEnd(n) /\ \A b \in blocks \ {c} : BlockEnd(b)' = BlockEnd(b)
  <2>1. BlockEnd(c)' = c + META_SIZE + (size[c] + META_SIZE + size[n])
    BY <1>10 DEF BlockEnd
  <2>2. BlockEnd(c)' = BlockEnd(n)
    BY <1>3, <1>4, <1>6, <2>1 DEF BlockEnd
  <2>3. \A b \in blocks \ {c} : BlockEnd(b)' = BlockEnd(b)
    BY <1>4, <1>9 DEF BlockEnd
  <2> QED
    BY <2>2, <2>3
<1>16. SpaceInv'
  <2>1. \A b, d \in blocks : b < d => BlockEnd(b) <= d
    BY <1>1 DEF SpaceInv, BlocksDisjoint
  <2>2. \A d \in blocks' : c < d => n < d
    <3>1. \A d \in blocks : c < d => n <= d
      BY <1>3, <1>6, <2>1
    <3> QED
      BY <1>3, <1>4, <1>8, <3>1
  <2>3. \A b, d \in blocks' : b < d => BlockEnd(b)' <= d
    BY <1>3, <1>8, <1>15, <2>1, <2>2
  <2>4. \A b \in blocks : \A a \in libc : a < b \/ BlockEnd(b) <= a
    BY <1>1 DEF SpaceInv, BlocksDisjoint
  <2>5. \A a \in libc : a \in Nat
    BY <1>1 DEF TypeOK
  <2>6. \A a \in libc : a < c \/ BlockEnd(n) <= a
    BY <1>3, <1>4, <1>6, <2>4, <2>5
  <2>7. \A b \in blocks' : /\ BlockEnd(b)' <= brk'
                           /\ \A a \in libc' : a < b \/ BlockEnd(b)' <= a
    BY <1>3, <1>4, <1>8, <1>15, <2>4, <2>6
  <2>8. libc' \subseteq HeapBase..(brk' - 1)
    BY <1>1, <1>8 DEF SpaceInv
  <2> QED
    BY <2>3, <2>7, <2>8 DEF SpaceInv, BlocksDisjoint
<1>17. InUse' = InUse
  BY <1>3, <1>8 DEF InUse
<1>18. \A u \in Threads : \A b \in Held(u) : b \in blocks /\ b # c /\ b # n
  BY <1>1, <1>3 DEF HoldInv, InUse
<1>19. \A u \in Threads : \A b \in Held(u) : size'[b] = size[b]
  BY <1>4, <1>9, <1>18
<1>20. FrameInv'
  <2>1. \A u \in Threads \ {t} : CallOK(u)' /\ CursorOK(u)' /\ SizesOK(u)'
    BY <1>11, <1>13, <1>19, OthersCarryOn
  <2>2. CallOK(t)' /\ CursorOK(t)' /\ SizesOK(t)'
    <3>1. CallOK(t)'
      BY <1>1, <1>8 DEF FrameInv, CallOK
    <3>2. CursorOK(t)'
      BY <1>0, <1>2, <1>3, <1>4, <1>8 DEF CursorOK
    <3>3. SizesOK(t)'
      BY <1>1, <1>2, <1>8 DEF FrameInv, SizesOK
    <3> QED
      BY <3>1, <3>2, <3>3
  <2>3. \A u \in Threads : HalfSplitOK(u)'
    <3>1. ASSUME NEW u \in Threads \ {t}, pc[u] = "relink"
          PROVE  /\ size'[block[u]] = size[block[u]]
                 /\ size'[NewAt(u)] = size[NewAt(u)] /\ next'[NewAt(u)] = next[NewAt(u)]
                 /\ free'[NewAt(u)] = free[NewAt(u)]
                 /\ next[NewAt(u)] # NULL =>
                      /\ next[NewAt(u)] \in blocks'
                      /\ \A b \in blocks' : next'[b] = next[NewAt(u)] => b = block[u]
      <4>1. Splits(u) /\ HalfSplitOK(u)
        BY <1>1, <3>1 DEF Splits, FrameInv, HalfSplitOK
      <4>2. NewAt(u) \in Addr \ {c}
        BY <1>3, <4>1, NewBlockInside
      <4>3. block[u] \in Held(u) /\ block[u] \in blocks /\ ~free[block[u]]
        BY <3>1, SplitFacts
      <4>4. next[NewAt(u)] # NULL =>
              /\ next[NewAt(u)] \in blocks
              /\ \A b \in blocks : next[b] = next[NewAt(u)] => b = block[u]
        BY <3>1, <4>1 DEF HalfSplitOK
      <4>5. next[NewAt(u)] # NULL => next[NewAt(u)] # n
        BY <1>0, <1>3, <4>3, <4>4
      <4>6. next[NewAt(u)] # NULL =>
              \A b \in blocks' : next'[b] = next[NewAt(u)] => b = block[u]
        BY <1>3, <1>4, <1>8, <1>9, <1>10, <4>3, <4>4
      <4> QED
        BY <1>8, <1>9, <1>19, <4>2, <4>3, <4>4, <4>5, <4>6
    <3> QED
      BY <1>2, <1>8, <1>11, <3>1, HalfSplitsCarryOn
  <2> QED
    BY <2>1, <2>2, <2>3 DEF FrameInv
<1>21. HoldInv'
  <2>1. Granted(t)' = Granted(t) /\ Surrendered(t)' = Surrendered(t)
    BY <1>8 DEF Granted, Surrendered
  <2> QED
    BY <1>1, <1>8, <1>11, <1>17, <2>1, HoldSame
<1> QED
  BY <1>12, <1>13, <1>14, <1>16, <1>20, <1>21 DEF SafeInv

\* Who holds what depends on the free flags, the client's pointers and the
\* frames alone.
LEMMA SameThroughout ==
  ASSUME HoldInv, UNCHANGED <<blocks, free, owned, pc, op, ptr, block>>
  PROVE  HoldInv'
<1>1. \A u \in Threads : /\ Granted(u)' = Granted(u)
                         /\ Surrendered(u)' = Surrendered(u)
  BY DEF Granted, Surrendered
<1>2. \A u \in Threads : Held(u)' = Held(u)
  BY <1>1 DEF Held
<1>3. InUse' = InUse
  BY DEF InUse
<1> QED
  BY <1>1, <1>2, <1>3 DEF HoldInv

\* libc takes memory above every block.
LEMMA LibcSbrkSafe ==
  ASSUME SafeInv, LibcSbrk
  PROVE  SafeInv'
<1> USE ThreadsAssumption, SizesAssumption, HeapAssumption, IntptrMaxAssumption
<1>1. TypeOK /\ LockInv /\ LinksInv /\ SpaceInv /\ FrameInv /\ HoldInv
  BY DEF SafeInv
<1>2. PICK k \in LibcSteps : /\ brk + k <= BrkLimit
                             /\ brk' = brk + k
                             /\ libc' = libc \cup brk..(brk + k - 1)
  BY DEF LibcSbrk
<1>3. k \in Nat \ {0} /\ brk \in Addr /\ brk' \in Addr /\ brk < brk'
  BY <1>1, <1>2 DEF TypeOK
<1>4. \A u \in Threads : pc[u] # "extend"
  BY DEF LibcSbrk
<1>5. UNCHANGED <<global_base, heap_start, blocks, size, next, free, alloc_lock, owned,
                  pc, op, sz, ptr, cur, last, block>>
  BY DEF LibcSbrk, heap, base, header, frame
<1>6. TypeOK'
  <2>1. libc' \subseteq Addr
    BY <1>1, <1>2, <1>3 DEF TypeOK
  <2> HIDE DEF Addr, SizeT
  <2> QED
    BY <1>1, <1>3, <1>5, <2>1 DEF TypeOK
<1>7. LockInv' /\ LinksInv'
  BY <1>1, <1>5 DEF LockInv, HoldsLock, LinksInv
<1>8. SpaceInv'
  <2>1. \A b \in blocks : BlockEnd(b)' = BlockEnd(b) /\ BlockEnd(b) \in Nat
    BY <1>1, <1>5 DEF TypeOK, BlockEnd
  <2>2. \A b \in blocks : BlockEnd(b) <= brk
    BY <1>1 DEF SpaceInv, BlocksDisjoint
  <2>3. \A a \in libc' : a \in libc \/ (a \in Nat /\ brk <= a /\ a < brk')
    BY <1>2, <1>3
  <2>4. \A b \in blocks' : /\ BlockEnd(b)' <= brk'
                           /\ \A a \in libc' : a < b \/ BlockEnd(b)' <= a
    <3>1. ASSUME NEW b \in blocks
          PROVE  BlockEnd(b) <= brk' /\ \A a \in libc' : a < b \/ BlockEnd(b) <= a
      <4>1. \A a \in libc : a < b \/ BlockEnd(b) <= a
        BY <1>1 DEF SpaceInv, BlocksDisjoint
      <4>2. \A a \in Nat : brk <= a => BlockEnd(b) <= a
        BY <1>3, <2>1, <2>2
      <4> QED
        BY <1>3, <2>1, <2>2, <2>3, <4>1, <4>2
    <3> QED
      BY <1>5, <2>1, <3>1
  <2>5. libc' \subseteq HeapBase..(brk' - 1)
    <3>1. \A a \in libc : a \in HeapBase..(brk - 1)
      BY <1>1 DEF SpaceInv
    <3> QED
      BY <1>3, <2>3, <3>1
  <2>6. \A b, d \in blocks' : b < d => BlockEnd(b)' <= d
    BY <1>1, <1>5, <2>1 DEF SpaceInv, BlocksDisjoint
  <2> QED
    BY <2>4, <2>5, <2>6 DEF SpaceInv, BlocksDisjoint
<1>9. FrameInv'
  BY <1>1, <1>4, <1>5 DEF FrameInv, CallOK, CursorOK, SizesOK, HalfSplitOK, NewAt
<1>10. HoldInv'
  BY <1>1, <1>5, SameThroughout
<1> QED
  BY <1>6, <1>7, <1>8, <1>9, <1>10 DEF SafeInv

\* Nothing happens and nothing is lost.
LEMMA StutterSafe ==
  ASSUME SafeInv, UNCHANGED vars
  PROVE  SafeInv'
<1>1. UNCHANGED <<brk, libc, global_base, heap_start, blocks, size, next, free, alloc_lock,
                  owned, pc, op, sz, ptr, cur, last, block>>
  BY DEF vars, os, heap, base, header, frame
<1>2. TypeOK' /\ LockInv' /\ LinksInv'
  BY <1>1 DEF SafeInv, TypeOK, LockInv, HoldsLock, LinksInv
<1>3. SpaceInv'
  BY <1>1 DEF SafeInv, SpaceInv, BlocksDisjoint, BlockEnd
<1>4. FrameInv'
  BY <1>1 DEF SafeInv, FrameInv, CallOK, CursorOK, SizesOK, HalfSplitOK, NewAt
<1>5. HoldInv'
  BY <1>1, SameThroughout DEF SafeInv
<1> QED
  BY <1>2, <1>3, <1>4, <1>5 DEF SafeInv

\* Every step preserves the invariant.
LEMMA NextSafe ==
  ASSUME SafeInv, FittingRequests, [Next]_vars
  PROVE  SafeInv'
<1>1. ASSUME NEW t \in Threads, Call(t)
      PROVE  SafeInv'
  BY <1>1, CallMallocSafe, CallCallocSafe, CallFreeSafe, CallReallocSafe DEF Call
<1>2. ASSUME NEW t \in Threads, Work(t)
      PROVE  SafeInv'
  BY <1>2, LockMallocSafe, FindNextSafe, FindFitSafe, SplitSkipSafe, SplitHeaderSafe,
     SplitLinkSafe, ReadBreakSafe, ExtendSafe, ExtendRefusedSafe, UnlockMallocSafe,
     CopySafe, LockFreeSafe, MergeSafe, AdvanceSafe, UnlockFreeSafe DEF Work
<1> QED
  BY <1>1, <1>2, LibcSbrkSafe, StutterSafe DEF Next

-----------------------------------------------------------------------------
(* The theorems.                                                           *)

(* SafeInv is inductive, whatever the threads call and in whatever order:  *)
(* with alloc_lock, without it in my_realloc, with libc moving the break.  *)
THEOREM Safe ==
  ASSUME FittingRequests
  PROVE  Spec => []SafeInv
<1>1. Init => SafeInv
  BY InitSafe
<1>2. SafeInv /\ [Next]_vars => SafeInv'
  BY NextSafe
<1> QED
  BY <1>1, <1>2, PTL DEF Spec

(* Every variable keeps its type; no address outside the heap is written.  *)
THEOREM TypeCorrect ==
  ASSUME FittingRequests
  PROVE  Spec => []TypeOK
<1>1. SafeInv => TypeOK
  BY DEF SafeInv
<1> QED
  BY <1>1, Safe, PTL

(* No two blocks ever overlap, none reaches past the break or into memory  *)
(* libc took from it, also while my_realloc splits without alloc_lock.     *)
THEOREM Disjoint ==
  ASSUME FittingRequests
  PROVE  Spec => []BlocksDisjoint
<1>1. SafeInv => BlocksDisjoint
  BY DEF SafeInv, SpaceInv
<1> QED
  BY <1>1, Safe, PTL

(* my_free's assertion free == 0 cannot fail: the block a call gives back  *)
(* is in use until that very call marks it.                                *)
THEOREM AssertionHolds ==
  ASSUME FittingRequests
  PROVE  Spec => []AssertHolds
<1>1. SafeInv => AssertHolds
  BY DEF SafeInv, FrameInv, CallOK, AssertHolds
<1> QED
  BY <1>1, Safe, PTL

(* A block is in use exactly when the client or one call holds it, and it  *)
(* has one holder: no block is handed out twice, none leaks inside.        *)
THEOREM OneHolder ==
  ASSUME FittingRequests
  PROVE  Spec => []InUseIffHeld
<1>1. SafeInv => InUseIffHeld
  <2> SUFFICES ASSUME SafeInv PROVE InUseIffHeld
    OBVIOUS
  <2>1. InUse \subseteq Nat /\ HoldInv
    BY InUseNat DEF SafeInv
  <2>2. ASSUME NEW b
        PROVE  b \in ClientBlocks <=> b \in InUse /\ payload(b) \in owned
    <3>1. b \in ClientBlocks => b \in InUse /\ payload(b) \in owned
      BY <2>1, SizesAssumption DEF ClientBlocks, HoldInv
    <3>2. b \in InUse /\ payload(b) \in owned => b \in ClientBlocks
      <4>1. b \in InUse => get_block_ptr(payload(b)) = b
        BY <2>1, SizesAssumption
      <4> QED
        BY <4>1 DEF ClientBlocks
    <3> QED
      BY <3>1, <3>2
  <2>3. InUse = ClientBlocks \cup UNION {Granted(t) \cup Surrendered(t) : t \in Threads}
    <3>1. ASSUME NEW b \in InUse
          PROVE  b \in ClientBlocks \/ \E t \in Threads : b \in Held(t)
      BY <2>1, <2>2 DEF HoldInv
    <3>2. \A t \in Threads : \A b \in Held(t) : b \in InUse
      BY <2>1 DEF HoldInv
    <3> QED
      BY <2>2, <3>1, <3>2 DEF Held
  <2>4. ASSUME NEW t \in Threads
        PROVE  /\ Granted(t) \cap Surrendered(t) = {}
               /\ Held(t) \cap ClientBlocks = {}
               /\ \A u \in Threads \ {t} : Held(t) \cap Held(u) = {}
    BY <2>1, <2>2 DEF HoldInv
  <2> QED
    BY <2>3, <2>4 DEF InUseIffHeld, Held
<1> QED
  BY <1>1, Safe, PTL

(* The pointer my_malloc is about to return has room for the request below *)
(* the break, and the memcpy of my_realloc stays in the new block.         *)
THEOREM GrantsAreLargeEnough ==
  ASSUME FittingRequests
  PROVE  Spec => []GrantCoversRequest
<1>1. SafeInv => GrantCoversRequest
  <2> SUFFICES ASSUME SafeInv, NEW t \in Threads
               PROVE  /\ pc[t] = "m_unlock" /\ block[t] # NULL =>
                           size[block[t]] >= sz[t] /\ BlockEnd(block[t]) <= brk
                      /\ pc[t] = "copy" => size[get_block_ptr(ptr[t])] <= size[block[t]]
    BY DEF GrantCoversRequest
  <2>1. CallOK(t) /\ SizesOK(t)
    BY DEF SafeInv, FrameInv
  <2>2. pc[t] = "m_unlock" /\ block[t] # NULL => block[t] \in blocks
    BY <2>1 DEF CallOK, SafeInv, HoldInv, Held, Granted, InUse
  <2>3. pc[t] = "m_unlock" /\ block[t] # NULL => BlockEnd(block[t]) <= brk
    BY <2>2 DEF SafeInv, SpaceInv, BlocksDisjoint
  <2>4. pc[t] = "m_unlock" /\ block[t] # NULL => size[block[t]] >= sz[t]
    BY <2>1 DEF SizesOK
  <2>5. pc[t] = "copy" => size[get_block_ptr(ptr[t])] <= size[block[t]]
    BY <2>1 DEF SizesOK
  <2> QED
    BY <2>3, <2>4, <2>5
<1> QED
  BY <1>1, Safe, PTL

=============================================================================
