----------------------- MODULE MyMallocHistoryProofs ------------------------
(***************************************************************************)
(* Theorems about MyMalloc that say more than SafeInv.  In any run: no     *)
(* byte of the heap is lost, and no header is written over a payload.      *)
(* Until a split without alloc_lock has met an append behind its block:    *)
(* the list visits every block and a drained heap collapses.  Until it has *)
(* met any critical section: the search is first fit and a free leaves     *)
(* nothing to merge.  When calls are serialised neither happens.  Then:    *)
(* MyMalloc implements Allocator.  Last: the diagnostics of MyMallocDiag   *)
(* compute what they are meant to; what a recursive function computes is   *)
(* shown by induction, with NatLeast and NatSteps.                         *)
(***************************************************************************)
EXTENDS MyMallocHistory, MyMallocProofs, FiniteSetTheorems

USE DEF NULL, Addr, SizeT, SIZE_MAX, payload, get_block_ptr

-----------------------------------------------------------------------------
(* What the four steps that write headers do, in plain arithmetic.         *)

\* split_block places its header in the payload of a block its thread holds.
LEMMA SplitHeaderEffect ==
  ASSUME SafeInv, NEW t \in Threads, SplitHeader(t)
  PROVE  /\ pc[t] = "split" /\ pc'[t] = "relink"
         /\ block[t] \in InUse /\ block[t] \in Addr /\ block[t] \in Held(t)
         /\ NewAt(t) \in Addr /\ NewAt(t) \notin blocks
         /\ block[t] + META_SIZE <= NewAt(t)
         /\ NewAt(t) + META_SIZE < BlockEnd(block[t])
         /\ next'[NewAt(t)] = next[block[t]] /\ NewAt(t)' = NewAt(t)
         /\ \A a \in Addr \ {NewAt(t)} :
              size'[a] = size[a] /\ next'[a] = next[a] /\ free'[a] = free[a]
         /\ UNCHANGED <<brk, libc, global_base, blocks, alloc_lock, owned, block, op, ptr>>
<1> USE SizesAssumption, HeapAssumption, IntptrMaxAssumption
<1>1. TypeOK
  BY DEF SafeInv
<1>2. pc[t] = "split" /\ SplitWorthwhile(t) /\ pc' = [pc EXCEPT ![t] = "relink"]
  BY DEF SplitHeader, Goto
<1>3. /\ block[t] \in blocks /\ ~free[block[t]] /\ block[t] \in Held(t) /\ block[t] \in Addr
      /\ size[block[t]] \in Nat /\ sz[t] \in Nat
      /\ sz[t] + META_SIZE + MIN_SPLIT_REMAINDER < size[block[t]]
  BY <1>2, SplitFacts, SplitArithmetic
<1>4. /\ NewAt(t) \in Addr /\ NewAt(t) \notin blocks
      /\ NewAt(t) + META_SIZE < BlockEnd(block[t])
  BY <1>2, <1>3, NewBlockInside DEF Splits
<1>5. /\ size' = [size EXCEPT ![NewAt(t)] = Remainder(t)]
      /\ next' = [next EXCEPT ![NewAt(t)] = next[block[t]]]
      /\ free' = [free EXCEPT ![NewAt(t)] = TRUE]
      /\ UNCHANGED <<brk, libc, global_base, blocks, alloc_lock, owned, block, op, sz, ptr>>
  BY <1>2, SplitArithmetic DEF SplitHeader, os, base, frame
<1>6. NewAt(t)' = NewAt(t) /\ block[t] + META_SIZE <= NewAt(t)
  BY <1>3, <1>5 DEF NewAt
<1>7. pc'[t] = "relink"
  BY <1>1, <1>2 DEF TypeOK
<1>8. /\ next'[NewAt(t)] = next[block[t]]
      /\ \A a \in Addr \ {NewAt(t)} :
           size'[a] = size[a] /\ next'[a] = next[a] /\ free'[a] = free[a]
  BY <1>1, <1>4, <1>5 DEF TypeOK
<1> QED
  BY <1>2, <1>3, <1>4, <1>5, <1>6, <1>7, <1>8 DEF InUse

\* split_block cuts a block in two: what the parts cover is what it covered.
LEMMA SplitLinkEffect ==
  ASSUME SafeInv, NEW t \in Threads, SplitLink(t)
  PROVE  /\ pc[t] = "relink" /\ pc'[t] \in {"m_unlock", "idle"}
         /\ block[t] \in InUse /\ block[t] \in Addr /\ block[t] \in Held(t)
         /\ NewAt(t) \in Addr /\ NewAt(t) \notin blocks /\ free[NewAt(t)]
         /\ size[NewAt(t)] \in Nat
         /\ NewAt(t) = block[t] + META_SIZE + sz[t] /\ sz[t] \in Nat
         /\ BlockEnd(block[t]) = NewAt(t) + META_SIZE + size[NewAt(t)]
         /\ size'[block[t]] = sz[t] /\ next'[block[t]] = NewAt(t)
         /\ \A a \in Addr \ {block[t]} : size'[a] = size[a] /\ next'[a] = next[a]
         /\ blocks' = blocks \cup {NewAt(t)}
         /\ UNCHANGED <<brk, libc, global_base, free, alloc_lock>>
<1> USE SizesAssumption, HeapAssumption, IntptrMaxAssumption
<1>1. TypeOK /\ HalfSplitOK(t)
  BY DEF SafeInv, FrameInv
<1>2. pc[t] = "relink"
  BY DEF SplitLink
<1>3. /\ block[t] \in blocks /\ ~free[block[t]] /\ block[t] \in Held(t) /\ block[t] \in Addr
      /\ size[block[t]] \in Nat /\ sz[t] \in Nat
  BY <1>2, SplitFacts
<1>4. /\ sz[t] + META_SIZE + MIN_SPLIT_REMAINDER < size[block[t]]
      /\ size[NewAt(t)] = size[block[t]] - sz[t] - META_SIZE /\ free[NewAt(t)]
  BY <1>1, <1>2 DEF HalfSplitOK
<1>5. NewAt(t) \in Addr /\ NewAt(t) \notin blocks
  BY <1>2, <1>4, NewBlockInside DEF Splits
<1>6. NewAt(t) = block[t] + META_SIZE + sz[t]
  BY <1>3 DEF NewAt
<1>7. size[NewAt(t)] \in Nat /\ BlockEnd(block[t]) = NewAt(t) + META_SIZE + size[NewAt(t)]
  BY <1>3, <1>4, <1>6 DEF BlockEnd
<1>8. /\ size' = [size EXCEPT ![block[t]] = sz[t]]
      /\ next' = [next EXCEPT ![block[t]] = NewAt(t)]
      /\ blocks' = blocks \cup {NewAt(t)}
      /\ UNCHANGED <<brk, libc, global_base, free, alloc_lock>>
  BY <1>2, SplitArithmetic DEF SplitLink, os, base
<1>9. /\ size'[block[t]] = sz[t] /\ next'[block[t]] = NewAt(t)
      /\ \A a \in Addr \ {block[t]} : size'[a] = size[a] /\ next'[a] = next[a]
  BY <1>1, <1>3, <1>8 DEF TypeOK
<1>10. pc'[t] \in {"m_unlock", "idle"}
  BY <1>1 DEF TypeOK, SplitLink, Return, Goto
<1> QED
  BY <1>2, <1>3, <1>4, <1>5, <1>6, <1>7, <1>8, <1>9, <1>10 DEF InUse

\* request_space makes a block of what lies between the old and the new break.
LEMMA ExtendEffect ==
  ASSUME SafeInv, NEW t \in Threads, Extend(t)
  PROVE  /\ pc[t] = "extend" /\ pc'[t] = "m_unlock" /\ HoldsLock(t)
         /\ brk \in Addr /\ brk \notin blocks /\ brk # NULL
         /\ \A b \in blocks : b < brk /\ BlockEnd(b) <= brk
         /\ last[t] \in blocks \/ (last[t] = NULL /\ blocks = {})
         /\ sz[t] \in Nat /\ brk' = brk + META_SIZE + sz[t]
         /\ size'[brk] = sz[t] /\ next'[brk] = NULL /\ free'[brk] = FALSE
         /\ \A a \in Addr \ {brk} :
              /\ size'[a] = size[a] /\ free'[a] = free[a]
              /\ next'[a] = IF a = last[t] THEN brk ELSE next[a]
         /\ blocks' = blocks \cup {brk}
         /\ global_base' = IF global_base = NULL THEN brk ELSE global_base
         /\ UNCHANGED <<libc, alloc_lock, owned>>
<1> USE SizesAssumption, HeapAssumption, IntptrMaxAssumption
<1>1. TypeOK /\ LinksInv /\ SpaceInv /\ FrameInv
  BY DEF SafeInv
<1>2. pc[t] = "extend" /\ block[t] = brk /\ brk \in Addr /\ sz[t] \in SizeT
      /\ op[t] \in {"malloc", "realloc"} /\ META_SIZE + sz[t] <= INTPTR_MAX
  BY <1>1 DEF Extend, TypeOK, FrameInv, CallOK, CursorOK
<1>3. BreakWanted(t) = brk + META_SIZE + sz[t]
  BY <1>2 DEF BreakWanted, SizeAdd, AsIntptr
<1>4. last[t] \in blocks \/ (last[t] = NULL /\ blocks = {})
  BY <1>1, <1>2 DEF FrameInv, CursorOK
<1>5. /\ brk' = brk + META_SIZE + sz[t]
      /\ size' = [size EXCEPT ![brk] = sz[t]]
      /\ next' = [a \in Addr |-> IF a = last[t] THEN brk ELSE IF a = brk THEN NULL ELSE next[a]]
      /\ free' = [free EXCEPT ![brk] = FALSE]
      /\ blocks' = blocks \cup {brk}
      /\ global_base' = (IF global_base = NULL THEN brk ELSE global_base)
      /\ pc' = [pc EXCEPT ![t] = "m_unlock"]
      /\ UNCHANGED <<libc, alloc_lock, owned>>
  BY <1>2, <1>3 DEF Extend, Goto, frame
<1>6. \A b \in blocks : b < brk /\ BlockEnd(b) <= brk
  <2>1. \A b \in blocks : b \in Nat /\ size[b] \in Nat /\ BlockEnd(b) <= brk
    BY <1>1 DEF TypeOK, SpaceInv, BlocksDisjoint
  <2> QED
    BY <1>2, <2>1 DEF BlockEnd
<1>7. brk \notin blocks /\ brk # NULL /\ last[t] # brk
  BY <1>2, <1>4, <1>6
<1>8. /\ size'[brk] = sz[t] /\ next'[brk] = NULL /\ free'[brk] = FALSE
      /\ \A a \in Addr \ {brk} :
           /\ size'[a] = size[a] /\ free'[a] = free[a]
           /\ next'[a] = IF a = last[t] THEN brk ELSE next[a]
  BY <1>1, <1>2, <1>5, <1>7 DEF TypeOK
<1>9. pc'[t] = "m_unlock" /\ HoldsLock(t) /\ sz[t] \in Nat
  BY <1>1, <1>2, <1>5 DEF TypeOK, HoldsLock
<1> QED
  BY <1>2, <1>4, <1>5, <1>6, <1>7, <1>8, <1>9

\* coalesce_all lets a block grow over the one that follows it at once.
LEMMA MergeEffect ==
  ASSUME SafeInv, NEW t \in Threads, Merge(t),
         NEW c, NEW n, c = cur[t], n = next[c]
  PROVE  /\ pc[t] = "coalesce" /\ HoldsLock(t)
         /\ c \in blocks /\ n \in blocks /\ c \in Addr /\ n \in Addr /\ c < n
         /\ free[c] /\ free[n] /\ BlockEnd(c) = n
         /\ size[c] \in Nat /\ size[n] \in Nat
         /\ size'[c] = size[c] + META_SIZE + size[n] /\ next'[c] = next[n]
         /\ \A a \in Addr \ {c} : size'[a] = size[a] /\ next'[a] = next[a]
         /\ blocks' = blocks \ {n}
         /\ UNCHANGED <<brk, libc, global_base, free, alloc_lock, owned, pc, cur, op, ptr, block>>
<1> USE SizesAssumption, HeapAssumption, IntptrMaxAssumption
<1>1. TypeOK /\ LinksInv /\ SpaceInv /\ FrameInv
  BY DEF SafeInv
<1>2. pc[t] = "coalesce" /\ c # NULL /\ n # NULL /\ Mergeable(c)
  BY DEF Merge, AtListEnd
<1>3. c \in blocks /\ n \in blocks /\ c < n /\ free[c] /\ free[n]
  BY <1>1, <1>2 DEF FrameInv, CursorOK, LinksInv, Mergeable
<1>4. \A b \in blocks : b \in Addr /\ b \in Nat /\ size[b] \in Nat /\ BlockEnd(b) \in Nat
                        /\ BlockEnd(b) <= brk
  <2>1. \A b \in blocks : b \in Addr /\ size[b] \in SizeT
    BY <1>1 DEF TypeOK
  <2>2. \A b \in blocks : BlockEnd(b) <= brk
    BY <1>1 DEF SpaceInv, BlocksDisjoint
  <2>3. \A b \in blocks : b \in Nat /\ size[b] \in Nat
    BY <2>1
  <2> QED
    BY <2>1, <2>2, <2>3 DEF BlockEnd
<1>5. brk \in Addr /\ brk \in Nat
  BY <1>1 DEF TypeOK
<1>6. BlockEnd(c) = n
  <2>1. PayloadEnd(c) = BlockEnd(c)
    BY <1>3, <1>4, <1>5 DEF PayloadEnd, SizeAdd, BlockEnd
  <2> QED
    BY <1>2, <2>1 DEF Mergeable, are_adjacent
<1>7. SizeAdd(size[c], Absorbed(n)) = size[c] + META_SIZE + size[n]
  BY <1>3, <1>4, <1>5, <1>6 DEF Absorbed, SizeAdd, BlockEnd
<1>8. /\ size' = [size EXCEPT ![c] = size[c] + META_SIZE + size[n]]
      /\ next' = [next EXCEPT ![c] = next[n]]
      /\ blocks' = blocks \ {n}
      /\ UNCHANGED <<brk, libc, global_base, free, alloc_lock, owned, pc, cur, op, ptr, block>>
  BY <1>7 DEF Merge, os, base, frame
<1>9. /\ size'[c] = size[c] + META_SIZE + size[n] /\ next'[c] = next[n]
      /\ \A a \in Addr \ {c} : size'[a] = size[a] /\ next'[a] = next[a]
  BY <1>1, <1>3, <1>4, <1>8 DEF TypeOK
<1> QED
  BY <1>2, <1>3, <1>4, <1>6, <1>8, <1>9 DEF HoldsLock

-----------------------------------------------------------------------------
(* Which steps touch what.                                                 *)

\* All other steps of a thread leave the list and its headers alone.
LEMMA StepShapes ==
  ASSUME NEW t \in Threads, Call(t) \/ Work(t)
  PROVE  \/ SplitHeader(t) \/ SplitLink(t) \/ Extend(t) \/ Merge(t)
         \/ FindFit(t) \/ LockFree(t)
         \/ UNCHANGED <<brk, libc, global_base, blocks, size, next, free>>
<1>1. CASE Call(t)
  BY <1>1 DEF Call, CallMalloc, CallCalloc, CallFree, CallRealloc, os, heap, base, header
<1>2. CASE LockMalloc(t) \/ FindNext(t) \/ SplitSkip(t) \/ ReadBreak(t) \/ ExtendRefused(t)
  BY <1>2 DEF LockMalloc, FindNext, SplitSkip, ReadBreak, ExtendRefused, os, heap, base, header
<1>3. CASE UnlockMalloc(t) \/ Copy(t) \/ Advance(t) \/ UnlockFree(t)
  BY <1>3 DEF UnlockMalloc, Copy, Advance, UnlockFree, os, heap, base, header
<1> QED
  BY <1>1, <1>2, <1>3 DEF Work

\* my_malloc claims, and my_free marks, a block; nothing else of it changes.
LEMMA MarkEffect ==
  ASSUME SafeInv, NEW t \in Threads, FindFit(t) \/ LockFree(t)
  PROVE  /\ \/ FindFit(t) /\ cur[t] \in blocks /\ free' = [free EXCEPT ![cur[t]] = FALSE]
            \/ LockFree(t) /\ get_block_ptr(ptr[t]) \in blocks
               /\ free' = [free EXCEPT ![get_block_ptr(ptr[t])] = TRUE]
         /\ UNCHANGED <<brk, libc, global_base, blocks, size, next>>
<1>1. CASE FindFit(t)
  BY <1>1 DEF FindFit, SafeInv, FrameInv, CursorOK, os, base
<1>2. CASE LockFree(t)
  <2>1. get_block_ptr(ptr[t]) \in Held(t)
    BY <1>2 DEF LockFree, SafeInv, FrameInv, CallOK, Held, Surrendered
  <2>2. get_block_ptr(ptr[t]) \in InUse
    BY <2>1 DEF SafeInv, HoldInv
  <2> QED
    BY <1>2, <2>2 DEF LockFree, InUse, os, base
<1> QED
  BY <1>1, <1>2

\* No step touches the frame of another thread.
LEMMA OthersStay ==
  ASSUME TypeOK, NEW t \in Threads, Call(t) \/ Work(t), NEW u \in Threads \ {t}
  PROVE  SameFrame(u)
<1> USE DEF TypeOK, SameFrame, Goto, frame
<1>1. CASE Call(t)
  BY <1>1 DEF Call, CallMalloc, CallCalloc, CallFree, CallRealloc, ReallocNull, ReallocZero,
              ReallocInPlace, ReallocMove, Enter
<1>2. CASE LockMalloc(t) \/ FindNext(t) \/ FindFit(t)
  BY <1>2 DEF LockMalloc, FindNext, FindFit
<1>3. CASE SplitSkip(t) \/ SplitHeader(t) \/ SplitLink(t)
  BY <1>3 DEF SplitSkip, SplitHeader, SplitLink, Return
<1>4. CASE ReadBreak(t) \/ Extend(t) \/ ExtendRefused(t) \/ Copy(t)
  BY <1>4 DEF ReadBreak, Extend, ExtendRefused, Copy
<1>5. CASE UnlockMalloc(t) \/ UnlockFree(t)
  BY <1>5 DEF UnlockMalloc, UnlockFree, Return
<1>6. CASE LockFree(t) \/ Merge(t) \/ Advance(t)
  BY <1>6 DEF LockFree, Merge, Advance
<1> QED
  BY <1>1, <1>2, <1>3, <1>4, <1>5, <1>6 DEF Work

-----------------------------------------------------------------------------
(* No byte is lost.                                                        *)

\* What the blocks cover, block by block.
Covered(a) == a \in libc \/ \E b \in blocks : b <= a /\ a < BlockEnd(b)

\* A split, a merge, an append and libc's growth account for every byte.
LEMMA NoByteLostKept ==
  ASSUME SafeInv, SafeInv', NoByteLost, [Next]_vars
  PROVE  NoByteLost'
<1> USE SizesAssumption, HeapAssumption, IntptrMaxAssumption
<1>1. brk \in Int /\ brk' \in Int
  BY DEF SafeInv, TypeOK
<1>2. \A b \in blocks : b \in Addr /\ b \in Int /\ size[b] \in Nat /\ BlockEnd(b) \in Int
  <2>1. \A b \in blocks : b \in Addr /\ size[b] \in SizeT
    BY DEF SafeInv, TypeOK
  <2> QED
    BY <2>1 DEF BlockEnd
<1>3. \A b \in blocks' : b \in Int /\ size'[b] \in Int
  <2>1. \A b \in blocks' : b \in Addr /\ size'[b] \in SizeT
    BY DEF SafeInv, TypeOK
  <2> QED
    BY <2>1
<1>4. \A a \in HeapBase..(brk - 1) : Covered(a)
  BY <1>1, <1>2 DEF NoByteLost, Covered, Extent
<1>5. SUFFICES ASSUME NEW a \in HeapBase..(brk' - 1) PROVE Covered(a)'
  <2>1. SUFFICES ASSUME NEW a \in HeapBase..(brk' - 1)
                 PROVE  a \in libc' \/ \E b \in blocks' : a \in Extent(b)'
    BY DEF NoByteLost
  <2>2. a \in Int /\ Covered(a)'
    <3>1. a \in Int
      BY <1>1
    <3>2. Covered(a)'
      BY <1>5 DEF Covered
    <3> QED
      BY <3>1, <3>2
  <2>3. ASSUME NEW b \in blocks', b <= a, a < BlockEnd(b)'
        PROVE  a \in Extent(b)'
    <3>1. BlockEnd(b)' = b + META_SIZE + size'[b]
      BY DEF BlockEnd
    <3>2. Extent(b)' = b..(BlockEnd(b)' - 1)
      BY DEF Extent
    <3> QED
      BY <1>3, <2>2, <2>3, <3>1, <3>2
  <2> QED
    BY <2>2, <2>3 DEF Covered
<1>6. CASE UNCHANGED <<brk, libc, blocks, size>>
  BY <1>4, <1>5, <1>6 DEF Covered, BlockEnd
<1>7. CASE LibcSbrk
  <2>1. PICK k \in LibcSteps : brk' = brk + k /\ libc' = libc \cup brk..(brk + k - 1)
    BY <1>7 DEF LibcSbrk
  <2>2. UNCHANGED <<blocks, size>> /\ k \in Int
    BY <1>7 DEF LibcSbrk, heap, header
  <2>3. CASE a < brk
    BY <1>1, <1>4, <2>1, <2>2, <2>3 DEF Covered, BlockEnd
  <2>4. CASE brk <= a
    BY <1>1, <2>1, <2>2, <2>4 DEF Covered
  <2> QED
    BY <1>1, <2>3, <2>4
<1>8. ASSUME NEW t \in Threads, Extend(t)
      PROVE  Covered(a)'
  <2>0. PICK c : c = brk
    OBVIOUS
  <2>1. /\ c \in Addr /\ blocks' = blocks \cup {c} /\ libc' = libc
        /\ sz[t] \in Nat /\ brk' = c + META_SIZE + sz[t] /\ size'[c] = sz[t]
        /\ \A b \in blocks : size'[b] = size[b]
    BY <1>2, <1>8, <2>0, ExtendEffect
  <2>2. CASE a < brk
    BY <1>1, <1>4, <2>1, <2>2 DEF Covered, BlockEnd
  <2>3. CASE brk <= a
    <3>1. a < BlockEnd(c)'
      BY <1>1, <2>1 DEF BlockEnd
    <3> QED
      BY <2>0, <2>1, <2>3, <3>1 DEF Covered
  <2> QED
    BY <1>1, <2>2, <2>3
<1>9. ASSUME NEW t \in Threads, SplitHeader(t)
      PROVE  UNCHANGED <<brk, libc, blocks>> /\ \A b \in blocks : size'[b] = size[b]
  BY <1>2, <1>9, SplitHeaderEffect
<1>10. ASSUME NEW t \in Threads, SplitLink(t)
       PROVE  Covered(a)'
  <2>1. PICK c, n : c = block[t] /\ n = NewAt(t)
    OBVIOUS
  <2>2. /\ c \in blocks /\ n \in Addr /\ n \notin blocks /\ size[n] \in Nat /\ sz[t] \in Nat
        /\ n = c + META_SIZE + sz[t] /\ BlockEnd(c) = n + META_SIZE + size[n]
        /\ size'[c] = sz[t] /\ \A b \in Addr \ {c} : size'[b] = size[b]
        /\ blocks' = blocks \cup {n} /\ UNCHANGED <<brk, libc>>
    BY <1>10, <2>1, SplitLinkEffect DEF InUse
  <2>3. BlockEnd(c)' = n /\ BlockEnd(n)' = BlockEnd(c) /\ n \in Int
    BY <1>2, <2>2 DEF BlockEnd
  <2>4. \A b \in blocks \ {c} : BlockEnd(b)' = BlockEnd(b)
    BY <1>2, <2>2 DEF BlockEnd
  <2>5. Covered(a)
    BY <1>4, <2>2
  <2>6. ASSUME c <= a, a < BlockEnd(c)
        PROVE  (c <= a /\ a < BlockEnd(c)') \/ (n <= a /\ a < BlockEnd(n)')
    BY <1>1, <2>3, <2>6
  <2> QED
    BY <2>2, <2>4, <2>5, <2>6 DEF Covered
<1>11. ASSUME NEW t \in Threads, Merge(t)
       PROVE  Covered(a)'
  <2>1. PICK c, n : c = cur[t] /\ n = next[c]
    OBVIOUS
  <2>2. /\ c \in blocks /\ n \in blocks /\ c < n /\ BlockEnd(c) = n
        /\ size'[c] = size[c] + META_SIZE + size[n]
        /\ \A b \in Addr \ {c} : size'[b] = size[b]
        /\ blocks' = blocks \ {n} /\ UNCHANGED <<brk, libc>>
    BY <1>11, <2>1, MergeEffect
  <2>3. BlockEnd(c)' = BlockEnd(n)
    BY <1>2, <2>2 DEF BlockEnd
  <2>4. \A b \in blocks \ {c} : BlockEnd(b)' = BlockEnd(b)
    BY <1>2, <2>2 DEF BlockEnd
  <2>5. Covered(a)
    BY <1>4, <2>2
  <2>6. ASSUME NEW b \in {c, n}, b <= a, a < BlockEnd(b)
        PROVE  c <= a /\ a < BlockEnd(c)'
    <3>1. n < BlockEnd(n)
      BY <1>2, <2>2, SizesAssumption DEF BlockEnd
    <3> QED
      BY <1>1, <1>2, <2>2, <2>3, <2>6, <3>1
  <2>7. c \in blocks'
    BY <1>2, <2>2
  <2> QED
    BY <2>2, <2>4, <2>5, <2>6, <2>7 DEF Covered
<1>12. ASSUME NEW t \in Threads, Call(t) \/ Work(t)
       PROVE  Covered(a)'
  <2>1. CASE SplitHeader(t) \/ FindFit(t) \/ LockFree(t)
    <3>1. UNCHANGED <<brk, libc, blocks>> /\ \A b \in blocks : size'[b] = size[b]
      BY <1>9, <2>1, MarkEffect
    <3> QED
      BY <1>4, <3>1 DEF Covered, BlockEnd
  <2> QED
    BY <1>6, <1>8, <1>10, <1>11, <1>12, <2>1, StepShapes
<1>13. CASE UNCHANGED vars
  BY <1>6, <1>13 DEF vars, os, heap, header
<1> QED
  BY <1>7, <1>12, <1>13 DEF Next

(* Every address the allocator ever got from sbrk() is in some block, in   *)
(* every run: what a race drops from the list is lost for reuse, but it is *)
(* still one whole block (split_block, coalesce_all, request_space).       *)
THEOREM NothingLost ==
  ASSUME FittingRequests
  PROVE  Spec => []NoByteLost
<1>1. Init => NoByteLost
  BY HeapAssumption DEF Init, NoByteLost
<1>2. SafeInv /\ SafeInv' /\ NoByteLost /\ [Next]_vars => NoByteLost'
  BY NoByteLostKept
<1> QED
  BY <1>1, <1>2, Safe, PTL DEF Spec

-----------------------------------------------------------------------------
(* No header over a payload.                                               *)

\* An address whose header a step writes: a block, or memory nobody uses.
Writable(a) ==
  \/ a \in blocks
  \/ a = brk
  \/ \E t \in Threads : block[t] \in Held(t) /\ block[t] \in blocks /\ a \in Nat
                        /\ block[t] <= a /\ a < BlockEnd(block[t])

\* No other address is written.
LEMMA OnlyWritable ==
  ASSUME SafeInv, [Next]_vars, NEW a \in Addr,
         <<size[a], next[a], free[a]>> # <<size'[a], next'[a], free'[a]>>
  PROVE  Writable(a)
<1> USE SizesAssumption, HeapAssumption DEF Writable
<1>1. CASE UNCHANGED vars \/ LibcSbrk
  BY <1>1 DEF LibcSbrk, vars, heap, header
<1>2. ASSUME NEW t \in Threads, Call(t) \/ Work(t)
      PROVE  Writable(a)
  <2>1. CASE SplitHeader(t)
    <3>1. PICK c, n : c = block[t] /\ n = NewAt(t)
      OBVIOUS
    <3>2. /\ c \in InUse /\ c \in Addr /\ c \in Held(t) /\ n \in Addr
          /\ c + META_SIZE <= n /\ n + META_SIZE < BlockEnd(c)
      BY <2>1, <3>1, SplitHeaderEffect
    <3>3. a = n
      BY <2>1, <3>1, SplitHeaderEffect
    <3>4. BlockEnd(c) \in Nat
      <4>1. c \in Nat /\ size[c] \in Nat /\ META_SIZE \in Nat
        BY <3>2 DEF SafeInv, TypeOK
      <4> QED
        BY <4>1 DEF BlockEnd
    <3>5. c \in blocks /\ n \in Nat /\ c <= n /\ n < BlockEnd(c)
      BY <3>2, <3>4 DEF InUse
    <3> QED
      BY <3>1, <3>2, <3>3, <3>5
  <2>2. CASE SplitLink(t)
    <3>1. a = block[t]
      BY <2>2, SplitLinkEffect
    <3> QED
      BY <2>2, <3>1, SplitLinkEffect DEF InUse
  <2>3. CASE Extend(t)
    <3>1. a = brk \/ a = last[t]
      BY <2>3, ExtendEffect
    <3>2. last[t] # NULL => last[t] \in blocks
      BY <2>3, ExtendEffect
    <3> QED
      BY <3>1, <3>2
  <2>4. CASE Merge(t)
    BY <2>4, MergeEffect
  <2>5. CASE FindFit(t) \/ LockFree(t)
    BY <2>5, MarkEffect DEF SafeInv, TypeOK
  <2> QED
    BY <1>2, <2>1, <2>2, <2>3, <2>4, <2>5, StepShapes
<1> QED
  BY <1>1, <1>2 DEF Next

(* A header is never written over the payload of a block the client owns,  *)
(* whatever the unlocked split of my_realloc races with (split_block,      *)
(* request_space, coalesce_all).                                           *)
THEOREM NoHeaderOverPayload ==
  ASSUME FittingRequests
  PROVE  Spec => HeadersMissPayloads
<1>1. ASSUME SafeInv, [Next]_vars, NEW a \in Addr,
             <<size[a], next[a], free[a]>> # <<size'[a], next'[a], free'[a]>>,
             NEW p \in owned
      PROVE  a + META_SIZE <= p \/ p + size[get_block_ptr(p)] <= a
  <2> USE SizesAssumption, HeapAssumption, IntptrMaxAssumption
  <2>1. PICK b : b = get_block_ptr(p)
    OBVIOUS
  <2>2. p \in Nat /\ b \in InUse /\ p = payload(b)
    BY <1>1, <2>1 DEF SafeInv, HoldInv
  <2>3. \A c \in blocks : c \in Nat /\ size[c] \in Nat /\ BlockEnd(c) \in Nat
                          /\ BlockEnd(c) <= brk
    <3>1. \A c \in blocks : c \in Nat /\ size[c] \in Nat /\ BlockEnd(c) <= brk
      BY <1>1 DEF SafeInv, SpaceInv, BlocksDisjoint, TypeOK
    <3> QED
      BY <3>1 DEF BlockEnd
  <2>4. b \in blocks /\ b \in Nat /\ a \in Nat
    BY <2>2, <2>3 DEF InUse
  <2>5. SUFFICES a <= b \/ BlockEnd(b) <= a
    BY <2>1, <2>2, <2>3, <2>4 DEF BlockEnd
  <2>6. CASE a \in blocks
    BY <1>1, <2>4, <2>6 DEF SafeInv, SpaceInv, BlocksDisjoint
  <2>7. CASE a = brk
    BY <2>3, <2>4, <2>7
  <2>8. ASSUME NEW t \in Threads, block[t] \in Held(t), block[t] \in blocks,
               block[t] <= a, a < BlockEnd(block[t])
        PROVE  a <= b \/ BlockEnd(b) <= a
    <3>1. PICK c \in blocks : c = block[t]
      BY <2>8
    <3>2. payload(c) \notin owned
      BY <1>1, <2>8, <3>1 DEF SafeInv, HoldInv
    <3>3. c # b
      BY <2>2, <3>2
    <3>4. c \in Nat /\ BlockEnd(c) \in Nat /\ BlockEnd(b) \in Nat
      BY <2>3, <2>4
    <3>5. BlocksDisjoint
      BY <1>1 DEF SafeInv, SpaceInv
    <3>6. BlockEnd(c) <= b \/ BlockEnd(b) <= c
      BY <2>4, <3>3, <3>4, <3>5 DEF BlocksDisjoint
    <3>7. c <= a /\ a < BlockEnd(c)
      BY <2>8, <3>1
    <3> QED
      BY <2>4, <3>4, <3>6, <3>7
  <2> QED
    BY <1>1, <2>6, <2>7, <2>8, OnlyWritable DEF Writable
<1> DEFINE Missed ==
      \A a \in Addr :
        <<size[a], next[a], free[a]>> # <<size'[a], next'[a], free'[a]>> =>
          \A p \in owned \cap owned' :
            a + META_SIZE <= p \/ p + size[get_block_ptr(p)] <= a
<1>2. SafeInv /\ [Next]_vars => [Missed]_vars
  BY <1>1
<1> QED
  BY <1>2, Safe, PTL DEF Spec, HeadersMissPayloads

-----------------------------------------------------------------------------
(* Nothing overlaps.                                                       *)

\* While t is in a critical section nobody else is, nor between the two
\* halves of a split.
LEMMA Alone ==
  ASSUME LockInv, ~Overlap, NEW t \in Threads, HoldsLock(t), NEW u \in Threads \ {t}
  PROVE  ~HoldsLock(u) /\ pc[u] # "relink"
<1>1. alloc_lock = t /\ alloc_lock # NoThread /\ ~HoldsLock(u)
  BY ThreadsAssumption DEF LockInv
<1>2. pc[u] = "relink" => op[u] = "resize"
  BY <1>1 DEF HoldsLock
<1> QED
  BY <1>1, <1>2 DEF Overlap

\* The same after a step.
LEMMA AloneAfter ==
  ASSUME LockInv', ~Overlap', NEW t \in Threads, HoldsLock(t)', NEW u \in Threads \ {t}
  PROVE  pc'[u] # "relink"
<1>1. alloc_lock' = t /\ alloc_lock' # NoThread /\ ~HoldsLock(u)'
  BY ThreadsAssumption DEF LockInv
<1>2. pc'[u] = "relink" => op'[u] = "resize"
  BY <1>1 DEF HoldsLock
<1> QED
  BY <1>1, <1>2 DEF Overlap

\* Nobody changes the list under the feet of a thread in a critical section.
LEMMA CriticalAlone ==
  ASSUME SafeInv, SafeInv', ~Overlap, ~Overlap',
         NEW t \in Threads, HoldsLock(t),
         NEW u \in Threads \ {t}, Call(u) \/ Work(u)
  PROVE  UNCHANGED <<global_base, blocks, size, next, free>> /\ SameFrame(t)
<1>1. LockInv /\ LockInv' /\ SameFrame(t)
  BY OthersStay DEF SafeInv
<1>2. HoldsLock(t)'
  BY <1>1 DEF SameFrame, HoldsLock
<1>3. ~HoldsLock(u) /\ pc[u] # "relink" /\ pc'[u] # "relink"
  BY <1>1, <1>2, Alone, AloneAfter
<1>4. ~SplitHeader(u) /\ ~SplitLink(u) /\ ~Extend(u) /\ ~Merge(u)
  BY <1>3, SplitHeaderEffect, SplitLinkEffect, ExtendEffect DEF Merge, HoldsLock
<1>5. ~FindFit(u)
  BY <1>3 DEF FindFit, HoldsLock
<1>6. ~LockFree(u)
  BY <1>1, ThreadsAssumption DEF LockFree, Acquire, LockInv
<1> QED
  BY <1>1, <1>4, <1>5, <1>6, StepShapes

\* Which steps lead into the walks, and out of coalesce_all's.
LEMMA WalkSteps ==
  ASSUME TypeOK, NEW t \in Threads, Call(t) \/ Work(t)
  PROVE  /\ pc'[t] \in {"find", "brk", "extend"} => LockMalloc(t) \/ FindNext(t) \/ ReadBreak(t)
         /\ pc'[t] \in {"coalesce", "f_unlock"} => LockFree(t) \/ Merge(t) \/ Advance(t)
         /\ pc'[t] = "relink" => SplitHeader(t)
         /\ pc[t] = "coalesce" => pc'[t] \in {"coalesce", "f_unlock"}
         /\ pc[t] = "find" /\ pc'[t] = "split" => FindFit(t)
<1> USE DEF TypeOK, Goto
<1>1. CASE Call(t)
  BY <1>1 DEF Call, CallMalloc, CallCalloc, CallFree, CallRealloc, ReallocNull, ReallocZero,
              ReallocInPlace, ReallocMove, Enter
<1>2. CASE LockMalloc(t) \/ FindNext(t) \/ ReadBreak(t)
  BY <1>2 DEF LockMalloc, FindNext, ReadBreak
<1>3. CASE FindFit(t) \/ SplitSkip(t) \/ SplitHeader(t) \/ SplitLink(t)
  BY <1>3 DEF FindFit, SplitSkip, SplitHeader, SplitLink, Return
<1>4. CASE Extend(t) \/ ExtendRefused(t) \/ Copy(t) \/ UnlockMalloc(t) \/ UnlockFree(t)
  BY <1>4 DEF Extend, ExtendRefused, Copy, UnlockMalloc, UnlockFree, Return
<1>5. CASE LockFree(t) \/ Merge(t) \/ Advance(t)
  BY <1>5 DEF LockFree, Merge, Advance
<1> QED
  BY <1>1, <1>2, <1>3, <1>4, <1>5 DEF Work

-----------------------------------------------------------------------------
(* The list stays complete.                                                *)

\* An append goes behind the last block.
LEMMA ExtendKeepsList ==
  ASSUME SafeInv, ListThreadsBlocks, NEW t \in Threads, AppendOK(t), Extend(t)
  PROVE  ListThreadsBlocks'
<1> USE SizesAssumption, HeapAssumption
<1>1. PICK c, l : c = brk /\ l = last[t]
  OBVIOUS
<1>2. /\ c \in Addr /\ c \notin blocks /\ c # NULL
      /\ \A b \in blocks : b < c /\ b \in Addr
      /\ l \in blocks \/ (l = NULL /\ blocks = {})
      /\ next'[c] = NULL /\ \A a \in Addr \ {c} : next'[a] = IF a = l THEN c ELSE next[a]
      /\ blocks' = blocks \cup {c}
      /\ global_base' = IF global_base = NULL THEN c ELSE global_base
  <2>1. \A b \in blocks : b \in Addr
    BY DEF SafeInv, TypeOK
  <2>2. /\ brk \in Addr /\ brk \notin blocks /\ brk # NULL
        /\ \A b \in blocks : b < brk
        /\ last[t] \in blocks \/ (last[t] = NULL /\ blocks = {})
        /\ next'[brk] = NULL
        /\ blocks' = blocks \cup {brk}
        /\ global_base' = IF global_base = NULL THEN brk ELSE global_base
    BY ExtendEffect
  <2>3. \A a \in Addr \ {brk} : next'[a] = IF a = last[t] THEN brk ELSE next[a]
    BY ExtendEffect
  <2> QED
    BY <1>1, <2>1, <2>2, <2>3
<1>3. l # NULL => next[l] = NULL
  BY <1>1, <1>2 DEF AppendOK, AppendsBehind, Extend
<1>4. l # NULL => \A b \in blocks : b <= l
  BY <1>2, <1>3 DEF ListThreadsBlocks, NextInOrder
<1>5. NextInOrder(c)'
  BY <1>2 DEF NextInOrder
<1>6. ASSUME NEW b \in blocks
      PROVE  NextInOrder(b)'
  <2>1. CASE b = l
    BY <1>2, <1>4, <2>1 DEF NextInOrder
  <2>2. CASE b # l
    <3>1. next'[b] = next[b] /\ NextInOrder(b)
      BY <1>2, <1>6, <2>2 DEF ListThreadsBlocks
    <3>2. next[b] # NULL
      <4>1. l \in blocks /\ l # NULL
        BY <1>2, <1>6
      <4>2. b <= l /\ b \in Int /\ l \in Int
        BY <1>2, <1>4, <4>1
      <4>3. next[b] = NULL => l <= b
        BY <1>2, <3>1, <4>1 DEF NextInOrder
      <4> QED
        BY <2>2, <4>2, <4>3
    <3>3. next[b] < c
      BY <1>2, <3>1, <3>2 DEF NextInOrder
    <3> QED
      BY <1>2, <3>1, <3>2, <3>3 DEF NextInOrder
  <2> QED
    BY <2>1, <2>2
<1>7. /\ global_base' # NULL /\ global_base' \in blocks'
      /\ \A b \in blocks' : global_base' <= b
  BY <1>2 DEF ListThreadsBlocks
<1>8. \A b \in blocks' : NextInOrder(b)'
  <2>1. ASSUME NEW b \in blocks', b = c PROVE NextInOrder(b)'
    BY <1>2, <2>1 DEF NextInOrder
  <2> QED
    BY <1>2, <1>6, <2>1
<1> QED
  BY <1>2, <1>7, <1>8 DEF ListThreadsBlocks

\* The remainder of a split goes between the block and the one behind it.
LEMMA SplitLinkKeepsList ==
  ASSUME SafeInv, ListThreadsBlocks, NEW t \in Threads, RelinkOK(t), SplitLink(t)
  PROVE  ListThreadsBlocks'
<1> USE SizesAssumption, HeapAssumption
<1>1. PICK c, n : c = block[t] /\ n = NewAt(t)
  OBVIOUS
<1>2. /\ c \in blocks /\ c \in Addr /\ n \in Addr /\ n \notin blocks
      /\ sz[t] \in Nat /\ n = c + META_SIZE + sz[t]
      /\ size[n] \in Nat /\ BlockEnd(c) = n + META_SIZE + size[n]
      /\ next'[c] = n /\ \A a \in Addr \ {c} : next'[a] = next[a]
      /\ blocks' = blocks \cup {n} /\ global_base' = global_base
  BY <1>1, SplitLinkEffect DEF InUse
<1>3. next'[n] = next[c] /\ c < n
  BY <1>1, <1>2 DEF RelinkOK, SplitLink
<1>4. /\ NextInOrder(c) /\ global_base # NULL /\ global_base \in blocks
      /\ \A b \in blocks : b \in Addr /\ global_base <= b
  BY <1>2 DEF ListThreadsBlocks, SafeInv, TypeOK
<1>5. \A b \in blocks : c < b => n < b
  <2>1. \A b \in blocks : c < b => BlockEnd(c) <= b
    BY <1>2 DEF SafeInv, SpaceInv, BlocksDisjoint
  <2> QED
    BY <1>2, <1>4, <2>1
<1>6. NextInOrder(c)'
  BY <1>2, <1>3, <1>4, <1>5 DEF NextInOrder
<1>7. ASSUME NEW b \in blocks', b = n
      PROVE  NextInOrder(b)'
  <2>1. next'[b] = next[c]
    BY <1>3, <1>7
  <2>2. CASE next[c] = NULL
    <3>1. \A d \in blocks' : d <= n
      BY <1>2, <1>3, <1>4, <2>2 DEF NextInOrder
    <3> QED
      BY <1>7, <2>1, <2>2, <3>1 DEF NextInOrder
  <2>3. CASE next[c] # NULL
    <3>1. next[c] \in blocks /\ n < next[c] /\ \A d \in blocks : d <= c \/ next[c] <= d
      BY <1>4, <1>5, <2>3 DEF NextInOrder
    <3>2. \A d \in blocks' : d <= n \/ next[c] <= d
      BY <1>2, <1>3, <1>4, <3>1
    <3> QED
      BY <1>2, <1>7, <2>1, <3>1, <3>2 DEF NextInOrder
  <2> QED
    BY <2>2, <2>3
<1>8. ASSUME NEW b \in blocks, b # c
      PROVE  NextInOrder(b)'
  <2>1. next'[b] = next[b] /\ NextInOrder(b) /\ b \in Addr
    BY <1>2, <1>4, <1>8 DEF ListThreadsBlocks
  <2>2. CASE next[b] = NULL
    <3>1. c < b /\ n < b
      BY <1>2, <1>4, <1>5, <1>8, <2>1, <2>2 DEF NextInOrder
    <3> QED
      BY <1>2, <1>4, <2>1, <2>2, <3>1 DEF NextInOrder
  <2>3. CASE next[b] # NULL
    <3>1. next[b] \in blocks /\ b < next[b] /\ next[b] \in Addr
      BY <1>4, <2>1, <2>3 DEF NextInOrder
    <3>2. n <= b \/ next[b] <= n
      <4>1. c < b \/ next[b] <= c
        BY <1>2, <1>4, <1>8, <2>1, <2>3 DEF NextInOrder
      <4> QED
        BY <1>2, <1>3, <1>5, <2>1, <3>1, <4>1
    <3> QED
      BY <1>2, <2>1, <3>1, <3>2 DEF NextInOrder
  <2> QED
    BY <2>2, <2>3
<1>9. \A b \in blocks' : global_base <= b
  BY <1>2, <1>3, <1>4
<1>10. \A b \in blocks' : NextInOrder(b)'
  <2>1. ASSUME NEW b \in blocks', b = c PROVE NextInOrder(b)'
    BY <1>2, <1>3, <1>4, <1>5, <2>1 DEF NextInOrder
  <2> QED
    BY <1>2, <1>7, <1>8, <2>1
<1> QED
  BY <1>2, <1>4, <1>9, <1>10 DEF ListThreadsBlocks

\* A merge bridges the block that is absorbed.
LEMMA MergeKeepsList ==
  ASSUME SafeInv, ListThreadsBlocks, NEW t \in Threads, Merge(t)
  PROVE  ListThreadsBlocks'
<1> USE SizesAssumption, HeapAssumption
<1>1. PICK c, n : c = cur[t] /\ n = next[c]
  OBVIOUS
<1>2. /\ c \in blocks /\ n \in blocks /\ c \in Addr /\ n \in Addr /\ c < n
      /\ next'[c] = next[n] /\ \A a \in Addr \ {c} : next'[a] = next[a]
      /\ blocks' = blocks \ {n} /\ UNCHANGED global_base
  BY <1>1, MergeEffect
<1>3. /\ NextInOrder(c) /\ NextInOrder(n) /\ global_base # NULL /\ global_base \in blocks
      /\ \A b \in blocks : b \in Addr /\ global_base <= b
  BY <1>2 DEF ListThreadsBlocks, SafeInv, TypeOK
<1>4. \A b \in blocks : b <= c \/ n <= b
  BY <1>1, <1>2, <1>3 DEF NextInOrder
<1>5. ASSUME NEW b \in blocks', b = c
      PROVE  NextInOrder(b)'
  <2>1. next'[b] = next[n]
    BY <1>2, <1>5
  <2>2. CASE next[n] = NULL
    <3>1. \A d \in blocks : d <= n
      BY <1>3, <2>2 DEF NextInOrder
    <3>2. \A d \in blocks' : d <= c
      BY <1>2, <1>3, <1>4, <3>1
    <3> QED
      BY <1>5, <2>1, <2>2, <3>2 DEF NextInOrder
  <2>3. CASE next[n] # NULL
    <3>1. next[n] \in blocks /\ n < next[n] /\ \A d \in blocks : d <= n \/ next[n] <= d
      BY <1>3, <2>3 DEF NextInOrder
    <3>2. next[n] \in Addr /\ next[n] \in blocks'
      <4>1. PICK m \in blocks : m = next[n]
        BY <3>1
      <4>2. m \in Addr /\ m # n
        BY <1>2, <1>3, <3>1, <4>1
      <4> QED
        BY <1>2, <4>1, <4>2
    <3>3. c < next[n]
      BY <1>2, <3>1, <3>2
    <3>4. ASSUME NEW d \in blocks'
          PROVE  d <= c \/ next[n] <= d
      <4>1. d \in blocks /\ d # n /\ d \in Addr
        BY <1>2, <1>3
      <4>2. d <= n => d <= c
        BY <1>2, <1>4, <4>1
      <4> QED
        BY <3>1, <4>1, <4>2
    <3> QED
      BY <1>5, <2>1, <3>2, <3>3, <3>4 DEF NextInOrder
  <2> QED
    BY <2>2, <2>3
<1>6. ASSUME NEW b \in blocks', b # c
      PROVE  NextInOrder(b)'
  <2>1. next'[b] = next[b] /\ NextInOrder(b) /\ b \in Addr /\ b \in blocks /\ b # n
    BY <1>2, <1>3, <1>6 DEF ListThreadsBlocks
  <2>2. next[b] # n
    BY <1>2, <1>3, <1>4, <1>6, <2>1 DEF NextInOrder
  <2>3. CASE next[b] = NULL
    <3>1. \A d \in blocks' : d <= b
      BY <1>2, <2>1, <2>3, HeapAssumption DEF NextInOrder
    <3> QED
      BY <2>1, <2>3, <3>1 DEF NextInOrder
  <2>4. CASE next[b] # NULL
    <3>1. next[b] \in blocks' /\ b < next[b] /\ \A d \in blocks' : d <= b \/ next[b] <= d
      BY <1>2, <2>1, <2>2, <2>4 DEF NextInOrder
    <3> QED
      BY <2>1, <3>1 DEF NextInOrder
  <2> QED
    BY <2>3, <2>4
<1>7. global_base # n
  BY <1>2, <1>3
<1> QED
  BY <1>2, <1>3, <1>5, <1>6, <1>7 DEF ListThreadsBlocks

\* Every step keeps the list complete, as long as nothing collides.
LEMMA ListStays ==
  ASSUME SafeInv, ListInv, [Next]_vars
  PROVE  ListThreadsBlocks'
<1> USE DEF ListInv
<1>1. CASE UNCHANGED <<global_base, blocks, next>>
  BY <1>1 DEF ListThreadsBlocks, NextInOrder
<1>2. ASSUME NEW t \in Threads, SplitHeader(t)
      PROVE  ListThreadsBlocks'
  <2>1. UNCHANGED <<global_base, blocks>> /\ \A b \in blocks : next'[b] = next[b]
    BY <1>2, SplitHeaderEffect DEF SafeInv, TypeOK
  <2> QED
    BY <2>1 DEF ListThreadsBlocks, NextInOrder
<1>3. ASSUME NEW t \in Threads, Call(t) \/ Work(t)
      PROVE  ListThreadsBlocks'
  BY <1>1, <1>2, <1>3, StepShapes, MarkEffect, ExtendKeepsList, SplitLinkKeepsList,
     MergeKeepsList
<1>4. CASE UNCHANGED vars \/ LibcSbrk
  BY <1>1, <1>4 DEF vars, LibcSbrk, heap, base, header
<1> QED
  BY <1>3, <1>4 DEF Next

-----------------------------------------------------------------------------
(* The walks.                                                              *)

\* Behind a block in the list come exactly the blocks above it.
LEMMA WalkPassed ==
  ASSUME SafeInv, ListThreadsBlocks, NEW c \in blocks, NEW b \in blocks,
         next[c] = NULL \/ b < next[c]
  PROVE  b = c \/ b < c
<1>1. b \in Addr /\ c \in Addr /\ \A d \in blocks : d \in Addr
  BY DEF SafeInv, TypeOK
<1>2. NextInOrder(c)
  BY DEF ListThreadsBlocks
<1>3. b <= c
  <2>1. CASE \A d \in blocks : d <= c
    BY <2>1
  <2>2. CASE next[c] \in blocks /\ (b <= c \/ next[c] <= b)
    <3>1. PICK m \in blocks : m = next[c]
      BY <2>2
    <3>2. ~(m <= b)
      BY <1>1, <3>1, HeapAssumption
    <3> QED
      BY <2>2, <3>1, <3>2
  <2> QED
    BY <1>2, <2>1, <2>2 DEF NextInOrder
<1> QED
  BY <1>1, <1>3, HeapAssumption

\* t's own step keeps what its search has established.
LEMMA OwnSearch ==
  ASSUME SafeInv, ListThreadsBlocks, NEW t \in Threads, SearchOK(t), Call(t) \/ Work(t)
  PROVE  SearchOK(t)'
<1> USE DEF SearchOK, Goto
<1>1. TypeOK /\ LinksInv /\ CursorOK(t)
  BY DEF SafeInv, FrameInv
<1>2. CASE pc'[t] \notin {"find", "brk", "extend"}
  BY <1>2
<1>3. CASE LockMalloc(t)
  <2>1. UNCHANGED <<blocks, size, next, free>> /\ cur'[t] = global_base
        /\ last'[t] = global_base
        /\ pc'[t] = IF global_base = NULL THEN "brk" ELSE "find"
    BY <1>1, <1>3 DEF TypeOK, LockMalloc, heap, header
  <2>2. \A b \in blocks : b \in Addr /\ global_base <= b
    BY <1>1 DEF TypeOK, LinksInv
  <2>3. CASE global_base = NULL
    BY <1>1, <2>1, <2>3 DEF LinksInv
  <2>4. CASE global_base # NULL
    <3>1. \A b \in blocks : ~(b < global_base)
      BY <1>1, <2>2, HeapAssumption DEF TypeOK
    <3> QED
      BY <2>1, <2>4, <3>1
  <2> QED
    BY <2>3, <2>4
<1>4. CASE FindNext(t)
  <2>1. UNCHANGED <<blocks, size, next, free, sz>> /\ pc[t] = "find"
    BY <1>4 DEF FindNext, heap, header
  <2>2. CASE cur[t] = NULL
    <3>1. pc'[t] = "brk" /\ last' = last
      BY <1>1, <1>4, <2>2 DEF TypeOK, FindNext
    <3> QED
      BY <2>1, <2>2, <3>1 DEF Fits
  <2>3. CASE cur[t] # NULL
    <3>1. /\ cur[t] \in blocks /\ ~Fits(cur[t], sz[t]) /\ pc'[t] = "find"
          /\ last'[t] = cur[t] /\ cur'[t] = next[cur[t]]
      BY <1>1, <1>4, <2>1, <2>3 DEF TypeOK, FindNext, CursorOK
    <3>2. ASSUME NEW b \in blocks, next[cur[t]] = NULL \/ b < next[cur[t]]
          PROVE  ~Fits(b, sz[t])
      <4>1. b = cur[t] \/ b < cur[t]
        BY <3>1, <3>2, WalkPassed
      <4> QED
        BY <2>1, <3>1, <4>1
    <3> QED
      BY <2>1, <3>1, <3>2 DEF Fits
  <2> QED
    BY <2>2, <2>3
<1>5. CASE ReadBreak(t)
  <2>1. UNCHANGED <<blocks, size, next, free, sz, last>> /\ pc[t] = "brk" /\ pc'[t] = "extend"
    BY <1>1, <1>5 DEF TypeOK, ReadBreak, heap, header
  <2> QED
    BY <2>1 DEF Fits
<1> QED
  BY <1>1, <1>2, <1>3, <1>4, <1>5, WalkSteps

\* t's own step keeps what its pass of coalesce_all has established.
LEMMA OwnCoalesce ==
  ASSUME SafeInv, ListThreadsBlocks, NEW t \in Threads, CoalesceOK(t), Call(t) \/ Work(t)
  PROVE  CoalesceOK(t)'
<1> USE DEF CoalesceOK, Goto, Unmerged
<1>1. TypeOK /\ LinksInv /\ CursorOK(t)
  BY DEF SafeInv, FrameInv
<1>2. CASE pc'[t] \notin {"coalesce", "f_unlock"}
  BY <1>2
<1>3. CASE LockFree(t)
  <2>1. UNCHANGED blocks /\ pc'[t] \in {"coalesce", "aborted"}
        /\ (pc'[t] = "coalesce" => cur'[t] = global_base)
    BY <1>1, <1>3 DEF TypeOK, LockFree
  <2>2. \A b \in blocks : b \in Addr /\ global_base <= b /\ global_base # NULL
    BY <1>1 DEF TypeOK, LinksInv
  <2>3. \A b \in blocks : ~(b < global_base)
    BY <1>1, <2>2, HeapAssumption DEF TypeOK
  <2> QED
    BY <2>1, <2>2, <2>3
<1>4. CASE Merge(t)
  <2>1. PICK c, n : c = cur[t] /\ n = next[c]
    OBVIOUS
  <2>2. /\ pc[t] = "coalesce" /\ c \in blocks /\ c \in Addr
        /\ \A a \in Addr \ {c} : size'[a] = size[a] /\ next'[a] = next[a]
        /\ blocks' = blocks \ {n} /\ UNCHANGED <<free, pc, cur>>
    BY <1>4, <2>1, MergeEffect
  <2>3. ASSUME NEW b \in blocks', b < c
        PROVE  b \notin Unmerged'
    <3>1. b \in blocks /\ b \in Addr /\ b # c
      BY <1>1, <2>2, <2>3 DEF TypeOK
    <3>2. Mergeable(b)' <=> Mergeable(b)
      BY <2>2, <3>1 DEF Mergeable, are_adjacent, PayloadEnd
    <3>3. ~(next[b] # NULL /\ Mergeable(b))
      BY <2>1, <2>2, <2>3, <3>1
    <3> QED
      BY <2>2, <3>1, <3>2, <3>3
  <2>4. pc'[t] = "coalesce" /\ cur'[t] = c /\ c # NULL
    BY <2>1, <2>2, HeapAssumption
  <2> HIDE DEF Unmerged
  <2> QED
    BY <2>3, <2>4
<1>5. CASE Advance(t)
  <2>1. UNCHANGED <<blocks, size, next, free>> /\ pc[t] = "coalesce" /\ Unmerged' = Unmerged
    BY <1>5 DEF Advance, heap, header, Mergeable, are_adjacent, PayloadEnd
  <2>2. CASE AtListEnd(t)
    <3>1. pc'[t] = "f_unlock"
      BY <1>1, <1>5, <2>2 DEF TypeOK, Advance
    <3>2. Unmerged = {}
      <4>1. CASE cur[t] = NULL
        BY <2>1, <4>1
      <4>2. CASE cur[t] # NULL
        <5>1. cur[t] \in blocks /\ next[cur[t]] = NULL
          BY <1>1, <2>1, <2>2, <4>2 DEF AtListEnd, CursorOK
        <5>2. ASSUME NEW b \in blocks PROVE b = cur[t] \/ b < cur[t]
          BY <5>1, WalkPassed
        <5> QED
          BY <2>1, <5>1, <5>2
      <4> QED
        BY <4>1, <4>2
    <3> QED
      BY <2>1, <3>1, <3>2
  <2>3. CASE ~AtListEnd(t)
    <3>1. /\ cur[t] \in blocks /\ ~Mergeable(cur[t]) /\ pc'[t] = "coalesce"
          /\ cur'[t] = next[cur[t]] /\ next[cur[t]] # NULL
      BY <1>1, <1>5, <2>1, <2>3 DEF TypeOK, Advance, AtListEnd, CursorOK
    <3>2. ASSUME NEW b \in blocks, b < next[cur[t]]
          PROVE  b \notin Unmerged
      <4>1. b = cur[t] \/ b < cur[t]
        BY <3>1, <3>2, WalkPassed
      <4> QED
        BY <2>1, <3>1, <4>1
    <3> HIDE DEF Unmerged
    <3>3. ASSUME NEW b \in blocks', cur'[t] = NULL \/ b < cur'[t]
          PROVE  b \notin Unmerged'
      BY <2>1, <3>1, <3>2, <3>3
    <3> QED
      BY <3>1, <3>3
  <2> QED
    BY <2>2, <2>3
<1> QED
  BY <1>1, <1>2, <1>3, <1>4, <1>5, WalkSteps

-----------------------------------------------------------------------------
(* What the walks know is kept as long as nothing overlaps.                *)

\* SearchOK and CoalesceOK speak of the list and of one frame only.
LEMMA WalksDepend ==
  ASSUME NEW t \in Threads, UNCHANGED <<blocks, size, next, free>>, SameFrame(t)
  PROVE  /\ SearchOK(t) => SearchOK(t)'
         /\ CoalesceOK(t) => CoalesceOK(t)'
<1>1. SearchOK(t) => SearchOK(t)'
  BY DEF SearchOK, Fits, SameFrame
<1>2. Unmerged' = Unmerged
  BY DEF Unmerged, Mergeable, are_adjacent, PayloadEnd
<1>3. CoalesceOK(t) => CoalesceOK(t)'
  BY <1>2 DEF CoalesceOK, SameFrame
<1> QED
  BY <1>1, <1>3

\* A walk is disturbed by no other thread's step.
LEMMA WalksKept ==
  ASSUME SafeInv, SafeInv', ListThreadsBlocks, WalksInv, ~Overlap, ~Overlap', [Next]_vars
  PROVE  WalksInv'
<1>1. SUFFICES ASSUME NEW t \in Threads PROVE SearchOK(t)' /\ CoalesceOK(t)'
  BY DEF WalksInv
<1>2. SearchOK(t) /\ CoalesceOK(t)
  BY DEF WalksInv
<1>3. CASE UNCHANGED vars \/ LibcSbrk
  <2>1. UNCHANGED <<blocks, size, next, free>> /\ SameFrame(t)
    BY <1>3 DEF vars, LibcSbrk, heap, header, frame, SameFrame
  <2> QED
    BY <1>2, <2>1, WalksDepend
<1>4. ASSUME NEW u \in Threads, Call(u) \/ Work(u)
      PROVE  SearchOK(t)' /\ CoalesceOK(t)'
  <2>1. CASE u = t
    BY <1>2, <1>4, <2>1, OwnSearch, OwnCoalesce
  <2>2. CASE u # t /\ HoldsLock(t)
    BY <1>2, <1>4, <2>2, CriticalAlone, WalksDepend
  <2>3. CASE u # t /\ ~HoldsLock(t)
    <3>1. pc'[t] = pc[t]
      BY <1>4, <2>3, OthersStay DEF SafeInv, SameFrame
    <3> QED
      BY <2>3, <3>1 DEF HoldsLock, SearchOK, CoalesceOK
  <2> QED
    BY <2>1, <2>2, <2>3
<1> QED
  BY <1>3, <1>4 DEF Next

-----------------------------------------------------------------------------
(* ListInv is kept as long as nothing collides.                            *)

\* A block is found to be the last one while the lock is held, and stays it
\* until the append unless a split of that very block is linked before.
LEMMA AppendKept ==
  ASSUME SafeInv, ListInv, ~Collision,
         NEW u \in Threads, Call(u) \/ Work(u), NEW t \in Threads
  PROVE  AppendOK(t)'
<1>1. SUFFICES ASSUME NEW b \in blocks', AppendsBehind(t, b)'
               PROVE  next'[b] = NULL
  BY DEF AppendOK
<1>2. TypeOK /\ LockInv /\ LinksInv /\ CursorOK(t) /\ AppendOK(t)
  BY DEF SafeInv, FrameInv, ListInv
<1>3. pc'[t] \in {"find", "brk", "extend"} /\ last'[t] = b
      /\ (pc'[t] = "find" => cur'[t] = NULL)
  BY <1>1 DEF AppendsBehind
<1>4. CASE u = t
  <2> USE DEF TypeOK, Goto, heap, header
  <2>1. CASE LockMalloc(t)
    <3>1. UNCHANGED <<blocks, next>> /\ cur'[t] = global_base
          /\ pc'[t] = IF global_base = NULL THEN "brk" ELSE "find"
      BY <1>2, <2>1 DEF LockMalloc
    <3> QED
      BY <1>1, <1>2, <1>3, <3>1 DEF LinksInv
  <2>2. CASE FindNext(t)
    <3>1. UNCHANGED <<blocks, next>> /\ pc[t] = "find"
      BY <2>2 DEF FindNext
    <3>2. CASE cur[t] = NULL
      <4>1. last'[t] = last[t]
        BY <2>2, <3>2 DEF FindNext
      <4> QED
        BY <1>1, <1>2, <1>3, <3>1, <3>2, <4>1 DEF AppendOK, AppendsBehind
    <3>3. CASE cur[t] # NULL
      <4>1. last'[t] = cur[t] /\ cur'[t] = next[cur[t]] /\ pc'[t] = "find"
        BY <1>2, <2>2, <3>3 DEF FindNext
      <4> QED
        BY <1>3, <3>1, <4>1
    <3> QED
      BY <3>2, <3>3
  <2>3. CASE ReadBreak(t)
    <3>1. UNCHANGED <<blocks, next>> /\ pc[t] = "brk" /\ last'[t] = last[t]
      BY <2>3 DEF ReadBreak
    <3> QED
      BY <1>1, <1>2, <1>3, <3>1 DEF AppendOK, AppendsBehind
  <2> QED
    BY <1>2, <1>3, <1>4, <2>1, <2>2, <2>3, WalkSteps
<1>5. CASE u # t
  <2>1. SameFrame(t)
    BY <1>2, <1>5, OthersStay
  <2>2. AppendsBehind(t, b) /\ HoldsLock(t)
    BY <1>1, <2>1 DEF SameFrame, AppendsBehind, HoldsLock
  <2>3. ~HoldsLock(u) /\ alloc_lock # NoThread
    BY <1>2, <1>5, <2>2, ThreadsAssumption DEF LockInv
  <2>4. ~Extend(u) /\ ~Merge(u) /\ ~FindFit(u) /\ ~LockFree(u)
    BY <2>3, ExtendEffect DEF Merge, FindFit, LockFree, Acquire, HoldsLock
  <2>5. CASE SplitHeader(u)
    <3>1. blocks' = blocks /\ NewAt(u) \notin blocks /\ blocks \subseteq Addr
          /\ \A a \in Addr \ {NewAt(u)} : next'[a] = next[a]
      BY <1>2, <2>5, SplitHeaderEffect DEF TypeOK
    <3> QED
      BY <1>1, <1>2, <2>2, <3>1 DEF AppendOK
  <2>6. CASE SplitLink(u)
    <3>1. /\ pc[u] = "relink" /\ op[u] = "resize" /\ NewAt(u) \in Addr
          /\ blocks' = blocks \cup {NewAt(u)} /\ NewAt(u) \notin blocks
          /\ \A a \in Addr \ {block[u]} : next'[a] = next[a]
      BY <2>3, <2>6, SplitLinkEffect DEF HoldsLock
    <3>2. b # block[u]
      BY <1>5, <2>2, <3>1 DEF Collision
    <3>3. last[t] \in blocks \/ last[t] = NULL
      BY <1>2, <2>2 DEF CursorOK, AppendsBehind
    <3>4. b \in blocks /\ b \in Addr
      BY <1>1, <1>2, <2>2, <3>1, <3>3, HeapAssumption DEF AppendsBehind, TypeOK
    <3> QED
      BY <1>2, <2>2, <3>1, <3>2, <3>4 DEF AppendOK
  <2>7. CASE UNCHANGED <<brk, libc, global_base, blocks, size, next, free>>
    BY <1>1, <1>2, <2>2, <2>7 DEF AppendOK
  <2> QED
    BY <2>4, <2>5, <2>6, <2>7, StepShapes
<1> QED
  BY <1>4, <1>5

\* A header that is not linked yet continues with what its block does.
LEMMA RelinkKept ==
  ASSUME SafeInv, ListInv, ~Collision,
         NEW u \in Threads, Call(u) \/ Work(u), NEW t \in Threads
  PROVE  RelinkOK(t)'
<1>1. SUFFICES ASSUME pc'[t] = "relink" PROVE RelinkOK(t)'
  BY DEF RelinkOK
<1>2. TypeOK /\ LockInv /\ RelinkOK(t)
  BY DEF SafeInv, ListInv
<1>3. CASE u = t
  <2>1. SplitHeader(t)
    BY <1>1, <1>2, <1>3, WalkSteps
  <2>2. /\ block[t] \in Addr \ {NewAt(t)} /\ next'[NewAt(t)] = next[block[t]]
        /\ NewAt(t)' = NewAt(t) /\ block' = block
        /\ \A a \in Addr \ {NewAt(t)} : next'[a] = next[a]
    BY <2>1, SplitHeaderEffect DEF InUse
  <2> QED
    BY <2>2 DEF RelinkOK
<1>4. CASE u # t
  <2>1. pc[t] = "relink" /\ block'[t] = block[t] /\ NewAt(t)' = NewAt(t)
    BY <1>1, <1>2, <1>4, OthersStay DEF SameFrame, NewAt
  <2>2. Splits(t)
    BY <2>1 DEF SafeInv, FrameInv, HalfSplitOK, Splits
  <2>3. block[t] \in blocks /\ block[t] \in Addr /\ NewAt(t) \in Addr /\ NewAt(t) \notin blocks
    BY <2>1, <2>2, SplitFacts, NewBlockInside
  <2>4. /\ ~free[block[t]]
        /\ NewAt(t) # brk
        /\ HoldsLock(u) => op[t] = "resize"
    <3>1. /\ ~free[block[t]] /\ BlockEnd(block[t]) <= brk /\ brk \in Addr
          /\ size[block[t]] \in Nat
      BY <2>1, SplitFacts
    <3>2. NewAt(t) + META_SIZE < BlockEnd(block[t])
      BY <2>2, NewBlockInside
    <3>3. BlockEnd(block[t]) \in Nat /\ NewAt(t) \in Nat /\ brk \in Nat
      BY <2>3, <3>1, SizesAssumption, HeapAssumption DEF BlockEnd
    <3>4. NewAt(t) # brk
      BY <3>1, <3>2, <3>3, SizesAssumption
    <3>5. HoldsLock(u) => ~HoldsLock(t)
      BY <1>2, <1>4 DEF LockInv
    <3> QED
      BY <2>1, <3>1, <3>4, <3>5 DEF HoldsLock
  <2>5. SUFFICES next'[NewAt(t)] = next[NewAt(t)] /\ next'[block[t]] = next[block[t]]
    BY <1>2, <2>1 DEF RelinkOK
  <2>6. CASE SplitHeader(u)
    <3>1. Splits(u)
      BY <2>6, SplitArithmetic DEF SplitHeader, Splits
    <3>2. NewAt(u) # NewAt(t) /\ NewAt(u) \notin blocks
      BY <1>4, <2>2, <2>6, <3>1, NewBlocksDiffer, SplitHeaderEffect
    <3> QED
      BY <2>3, <2>6, <3>2, SplitHeaderEffect
  <2>7. CASE SplitLink(u)
    <3>1. Splits(u)
      BY <2>7 DEF SplitLink, SafeInv, FrameInv, HalfSplitOK, Splits
    <3>2. block[u] # block[t] /\ block[u] \in blocks
      BY <1>4, <2>2, <2>7, <3>1, NewBlocksDiffer, SplitLinkEffect DEF InUse
    <3> QED
      BY <2>3, <2>7, <3>2, SplitLinkEffect
  <2>8. CASE Extend(u)
    <3>1. /\ pc[u] = "extend" /\ HoldsLock(u) /\ brk \notin blocks
          /\ last[u] \in blocks \cup {NULL}
          /\ \A a \in Addr \ {brk, last[u]} : next'[a] = next[a]
      BY <2>8, ExtendEffect
    <3>2. block[t] # last[u]
      BY <2>1, <2>4, <3>1 DEF Collision, AppendsBehind
    <3>3. NewAt(t) # last[u] /\ NewAt(t) # brk /\ block[t] # brk
      BY <1>2, <2>3, <2>4, <3>1, HeapAssumption DEF TypeOK
    <3> QED
      BY <2>3, <3>1, <3>2, <3>3
  <2>9. CASE Merge(u)
    <3>1. /\ cur[u] \in blocks /\ free[cur[u]]
          /\ \A a \in Addr \ {cur[u]} : next'[a] = next[a]
      BY <2>9, MergeEffect
    <3> QED
      BY <2>3, <2>4, <3>1
  <2> QED
    BY <2>6, <2>7, <2>8, <2>9, StepShapes, MarkEffect
<1> QED
  BY <1>3, <1>4

\* When the last block in use is gone, its my_free merges everything: no
\* split is left that could disturb it.
LEMMA DrainedKept ==
  ASSUME SafeInv, ListThreadsBlocks, DrainedOK, NEW u \in Threads, Call(u) \/ Work(u)
  PROVE  DrainedOK'
<1>1. SUFFICES ASSUME InUse' = {} PROVE DrainedOK'
  BY DEF DrainedOK
<1>2. TypeOK /\ LockInv
  BY DEF SafeInv
<1>3. ASSUME NEW t \in Threads \ {u}
      PROVE  SameFrame(t)
  BY <1>2, <1>3, OthersStay
<1>4. ASSUME HoldsLock(u) \/ alloc_lock = NoThread, NEW t \in Threads \ {u}
      PROVE  CoalesceOK(t)'
  <2>1. ~HoldsLock(t)
    BY <1>2, <1>4, ThreadsAssumption DEF LockInv
  <2> QED
    BY <1>3, <2>1 DEF SameFrame, HoldsLock, CoalesceOK
<1>5. CASE SplitHeader(u)
  <2>1. block[u] \in InUse'
    BY <1>5, SplitHeaderEffect DEF InUse
  <2> QED
    BY <1>1, <2>1
<1>6. CASE SplitLink(u)
  <2>1. block[u] \in InUse'
    BY <1>6, SplitLinkEffect DEF InUse
  <2> QED
    BY <1>1, <2>1
<1>7. CASE Extend(u)
  <2>1. brk \in InUse'
    BY <1>7, ExtendEffect DEF InUse
  <2> QED
    BY <1>1, <2>1
<1>8. CASE FindFit(u)
  <2>1. cur[u] \in blocks /\ blocks' = blocks /\ free' = [free EXCEPT ![cur[u]] = FALSE]
    BY <1>8, MarkEffect DEF FindFit, SafeInv, FrameInv, CursorOK
  <2>2. cur[u] \in InUse'
    BY <1>2, <2>1 DEF TypeOK, InUse
  <2> QED
    BY <1>1, <2>2
<1>9. CASE LockFree(u)
  <2>1. get_block_ptr(ptr[u]) \in Held(u)
    BY <1>9 DEF LockFree, SafeInv, FrameInv, CallOK, Held, Surrendered
  <2>2. ~free[get_block_ptr(ptr[u])]
    BY <2>1 DEF SafeInv, HoldInv, InUse
  <2>3. pc[u] = "f_lock" /\ alloc_lock = NoThread /\ pc'[u] = "coalesce"
    BY <1>2, <1>9, <2>2 DEF LockFree, Acquire, Goto, TypeOK
  <2>4. CoalesceOK(u)'
    <3>1. CoalesceOK(u)
      BY <2>3 DEF CoalesceOK
    <3> QED
      BY <3>1, OwnCoalesce
  <2> QED
    BY <1>4, <2>3, <2>4 DEF DrainedOK
<1>10. CASE Merge(u)
  <2>1. PICK c, n : c = cur[u] /\ n = next[c]
    OBVIOUS
  <2>2. free[n] /\ blocks' = blocks \ {n} /\ UNCHANGED <<free, pc>> /\ pc[u] = "coalesce"
        /\ HoldsLock(u)
    BY <1>10, <2>1, MergeEffect
  <2>3. InUse = {}
    BY <1>1, <2>2 DEF InUse
  <2>4. CoalesceOK(u)'
    <3>1. CoalesceOK(u)
      BY <2>3 DEF DrainedOK
    <3> QED
      BY <3>1, OwnCoalesce
  <2> QED
    BY <1>4, <2>2, <2>4 DEF DrainedOK
<1>11. CASE UNCHANGED <<brk, libc, global_base, blocks, size, next, free>>
  <2>1. InUse' = InUse /\ Unmerged' = Unmerged
    BY <1>11 DEF InUse, Unmerged, Mergeable, are_adjacent, PayloadEnd
  <2>2. \A t \in Threads : CoalesceOK(t)
    BY <1>1, <2>1 DEF DrainedOK
  <2>3. \A t \in Threads : CoalesceOK(t)'
    BY <1>3, <1>11, <2>2, OwnCoalesce, WalksDepend
  <2>4. ASSUME \A t \in Threads : pc'[t] # "coalesce"
        PROVE  Unmerged' = {}
    <3>1. CASE pc[u] = "coalesce"
      <4>1. pc'[u] = "f_unlock"
        BY <1>2, <2>4, <3>1, WalkSteps
      <4> QED
        BY <2>3, <4>1 DEF CoalesceOK
    <3>2. CASE pc[u] # "coalesce"
      <4>1. \A t \in Threads \ {u} : pc'[t] = pc[t]
        BY <1>3 DEF SameFrame
      <4> QED
        BY <1>1, <2>1, <2>4, <3>2, <4>1 DEF DrainedOK
    <3> QED
      BY <3>1, <3>2
  <2> QED
    BY <2>3, <2>4 DEF DrainedOK
<1> QED
  BY <1>5, <1>6, <1>7, <1>8, <1>9, <1>10, <1>11, StepShapes

\* The invariant of runs in which nothing collides.
LEMMA ListInvKept ==
  ASSUME SafeInv, ListInv, ~Collision, [Next]_vars
  PROVE  ListInv'
<1>1. ListThreadsBlocks'
  BY ListStays
<1>2. CASE UNCHANGED vars \/ LibcSbrk
  <2>1. UNCHANGED <<blocks, size, next, free, pc, op, sz, ptr, cur, last, block>>
    BY <1>2 DEF vars, LibcSbrk, heap, header, frame
  <2>2. \A t \in Threads : AppendOK(t)' /\ RelinkOK(t)'
    BY <2>1 DEF AppendOK, AppendsBehind, RelinkOK, NewAt, ListInv
  <2>3. InUse' = InUse /\ Unmerged' = Unmerged
    BY <2>1 DEF InUse, Unmerged, Mergeable, are_adjacent, PayloadEnd
  <2>4. DrainedOK'
    BY <2>1, <2>3 DEF DrainedOK, CoalesceOK, ListInv
  <2> QED
    BY <1>1, <2>2, <2>4 DEF ListInv
<1>3. ASSUME NEW u \in Threads, Call(u) \/ Work(u)
      PROVE  ListInv'
  <2>1. \A t \in Threads : AppendOK(t)' /\ RelinkOK(t)'
    BY <1>3, AppendKept, RelinkKept
  <2>2. DrainedOK'
    BY <1>3, DrainedKept DEF ListInv
  <2> QED
    BY <1>1, <2>1, <2>2 DEF ListInv
<1> QED
  BY <1>2, <1>3 DEF Next

\* A collision is an overlap: the thread that appends holds the lock.
LEMMA CollisionOverlaps ==
  ASSUME LockInv, Collision
  PROVE  Overlap
<1>1. PICK t, u \in Threads :
        pc[t] = "relink" /\ op[t] = "resize" /\ AppendsBehind(u, block[t])
  BY DEF Collision
<1>2. alloc_lock = u /\ alloc_lock # NoThread
  BY <1>1, ThreadsAssumption DEF AppendsBehind, HoldsLock, LockInv
<1> QED
  BY <1>1, <1>2 DEF Overlap

\* The same after a step.
LEMMA CollisionOverlapsAfter ==
  ASSUME LockInv', Collision'
  PROVE  Overlap'
<1>1. PICK t, u \in Threads :
        pc'[t] = "relink" /\ op'[t] = "resize" /\ AppendsBehind(u, block[t])'
  BY DEF Collision
<1>2. alloc_lock' = u /\ alloc_lock' # NoThread
  <2>1. HoldsLock(u)'
    BY <1>1 DEF AppendsBehind, HoldsLock
  <2> QED
    BY <2>1, ThreadsAssumption DEF LockInv
<1> QED
  BY <1>1, <1>2 DEF Overlap

\* The invariant of runs in which nothing overlaps.
LEMMA SerialKept ==
  ASSUME SafeInv, SafeInv', SerialInv, ~Overlap, ~Overlap', [Next]_vars
  PROVE  SerialInv'
<1>1. ~Collision
  BY CollisionOverlaps DEF SafeInv
<1>2. ListThreadsBlocks
  BY DEF SerialInv, ListInv
<1> QED
  BY <1>1, <1>2, ListInvKept, WalksKept DEF SerialInv

\* It holds when the process starts.
LEMMA SerialInit ==
  ASSUME Init
  PROVE  SerialInv /\ ~Overlap /\ ~Collision
<1>1. blocks = {} /\ global_base = NULL /\ alloc_lock = NoThread
      /\ \A t \in Threads : pc[t] = "idle"
  BY DEF Init
<1>2. Unmerged = {}
  BY <1>1 DEF Unmerged
<1>3. ListInv
  BY <1>1, <1>2 DEF ListInv, ListThreadsBlocks, DrainedOK, CoalesceOK, AppendOK, RelinkOK
<1>4. WalksInv /\ ~Overlap /\ ~Collision
  BY <1>1, <1>2 DEF WalksInv, SearchOK, CoalesceOK, Overlap, Collision
<1> QED
  BY <1>3, <1>4 DEF SerialInv

-----------------------------------------------------------------------------
(* Until the collision, and until the overlap.                             *)

\* Every step keeps HistoryInv: the history variables remember the first.
LEMMA HistoryStep ==
  ASSUME FittingRequests, HistoryInv, [HNext]_hvars
  PROVE  HistoryInv'
<1>1. [Next]_vars
  BY DEF HNext, hvars
<1>2. SafeInv /\ SafeInv' /\ NoByteLost'
  BY <1>1, NextSafe, NoByteLostKept DEF HistoryInv
<1>3. /\ raced' \/ (~raced /\ ~Overlap /\ ~Overlap')
      /\ collided' \/ (~collided /\ ~Collision /\ ~Collision')
      /\ collided' => raced'
  <2>1. CASE HNext
    <3>1. Collision' => Overlap'
      BY <1>2, CollisionOverlapsAfter DEF SafeInv
    <3> QED
      BY <2>1, <3>1 DEF HNext, HistoryInv
  <2>2. CASE UNCHANGED hvars
    <3>1. UNCHANGED <<raced, collided>> /\ (Overlap' <=> Overlap) /\ (Collision' <=> Collision)
      BY <2>2 DEF hvars, vars, frame, Overlap, Collision, AppendsBehind
    <3> QED
      BY <3>1 DEF HistoryInv
  <2> QED
    BY <2>1, <2>2
<1>4. ~collided' => ListInv'
  BY <1>1, <1>2, <1>3, ListInvKept DEF HistoryInv
<1>5. ~raced' => WalksInv'
  <2>1. ~raced' => ListInv /\ WalksInv
    BY <1>3 DEF HistoryInv
  <2> QED
    BY <1>1, <1>2, <1>3, <2>1, WalksKept DEF ListInv
<1> QED
  BY <1>2, <1>3, <1>4, <1>5 DEF HistoryInv

(* SafeInv in every run; until a split without alloc_lock has met an       *)
(* append behind its block also that the list is complete, and until one   *)
(* has met any critical section that every walk knows what it has passed   *)
(* (find_free_block, coalesce_all, split_block).                           *)
THEOREM HistorySafe ==
  ASSUME FittingRequests
  PROVE  HSpec => []HistoryInv
<1>1. HInit => HistoryInv
  <2>1. Init => NoByteLost
    BY HeapAssumption DEF Init, NoByteLost
  <2> QED
    BY <2>1, InitSafe, SerialInit DEF HInit, HistoryInv, SerialInv
<1>2. HistoryInv /\ [HNext]_hvars => HistoryInv'
  BY HistoryStep
<1> QED
  BY <1>1, <1>2, PTL DEF HSpec

(* The list visits every block until a split without the lock has met an   *)
(* append behind the block it splits, whatever else it meets (split_block, *)
(* find_free_block, coalesce_all, request_space).                          *)
THEOREM ListKeptUntilCollision ==
  ASSUME FittingRequests
  PROVE  HSpec => []ListKept
<1>1. HistoryInv => ListKept
  BY DEF HistoryInv, ListInv, ListKept
<1> QED
  BY <1>1, HistorySafe, PTL

(* coalesce_all's single pass leaves no two free neighbours until a split  *)
(* without the lock has met a critical section.                            *)
THEOREM FreesMergeUntilRaced ==
  ASSUME FittingRequests
  PROVE  HSpec => []FreesMerge
<1>1. HistoryInv => FreesMerge
  BY DEF HistoryInv, WalksInv, CoalesceOK, FreeLeavesNothingToMerge, FreesMerge
<1> QED
  BY <1>1, HistorySafe, PTL

(* find_free_block is first fit until then: my_malloc takes no block       *)
(* behind one that fits, and grows the heap only when none does.           *)
THEOREM FirstFitUntilRaced ==
  ASSUME FittingRequests
  PROVE  HSpec => SearchesInOrder
<1> DEFINE InOrder ==
      raced' \/ \A t \in Threads :
        /\ pc[t] = "find" /\ pc'[t] = "split" =>
             \A b \in blocks : b < block'[t] => ~Fits(b, sz[t])
        /\ pc[t] = "extend" /\ pc'[t] = "m_unlock" =>
             \A b \in blocks : ~Fits(b, sz[t])
<1>1. ASSUME HistoryInv, [HNext]_hvars
      PROVE  [InOrder]_hvars
  <2>1. SUFFICES ASSUME HNext, ~raced', NEW t \in Threads
                 PROVE  /\ pc[t] = "find" /\ pc'[t] = "split" =>
                             \A b \in blocks : b < block'[t] => ~Fits(b, sz[t])
                        /\ pc[t] = "extend" /\ pc'[t] = "m_unlock" =>
                             \A b \in blocks : ~Fits(b, sz[t])
    BY <1>1
  <2>2. SearchOK(t) /\ TypeOK /\ Next
    BY <1>1, <2>1 DEF HNext, HistoryInv, WalksInv, SafeInv
  <2>3. ASSUME pc[t] = "find", pc'[t] = "split", NEW b \in blocks, b < block'[t]
        PROVE  ~Fits(b, sz[t])
    <3>1. PICK u \in Threads : Call(u) \/ Work(u)
      BY <2>2, <2>3 DEF Next, LibcSbrk
    <3>2. u = t
      BY <2>2, <2>3, <3>1, OthersStay DEF SameFrame
    <3>3. FindFit(t)
      BY <2>2, <2>3, <3>1, <3>2, WalkSteps
    <3>4. block'[t] = cur[t]
      BY <2>2, <3>3 DEF FindFit, TypeOK
    <3> QED
      BY <2>2, <2>3, <3>4 DEF SearchOK
  <2>4. pc[t] = "extend" => \A b \in blocks : ~Fits(b, sz[t])
    BY <2>2 DEF SearchOK
  <2> QED
    BY <2>3, <2>4
<1>2. HistoryInv /\ [HNext]_hvars => [InOrder]_hvars
  BY <1>1
<1> QED
  BY <1>2, HistorySafe, PTL DEF HSpec, SearchesInOrder

-----------------------------------------------------------------------------
(* Serialised calls.                                                       *)

\* Only the threads that call my_realloc are ever inside it.
OnlyReallocators == \A t \in Threads : op[t] = "resize" => t \in Reallocators

\* What holds when calls that split without the lock have no company.
SerialisedInv == SafeInv /\ NoByteLost /\ OnlyReallocators /\ SerialInv

\* No step but a call of my_realloc starts to resize in place.
LEMMA OnlyReallocatorsKept ==
  ASSUME TypeOK, OnlyReallocators, [Next]_vars
  PROVE  OnlyReallocators'
<1> USE DEF OnlyReallocators, TypeOK, Goto, frame
<1>1. CASE UNCHANGED vars \/ LibcSbrk
  BY <1>1 DEF vars, LibcSbrk
<1>2. ASSUME NEW t \in Threads, Call(t)
      PROVE  OnlyReallocators'
  BY <1>2 DEF Call, CallMalloc, CallCalloc, CallFree, CallRealloc, ReallocNull, ReallocZero,
              ReallocInPlace, ReallocMove, Enter
<1>3. ASSUME NEW t \in Threads, Work(t)
      PROVE  OnlyReallocators'
  <2>1. op' = op \/ op' = [op EXCEPT ![t] = "none"]
    BY <1>3 DEF Work, LockMalloc, FindNext, FindFit, SplitSkip, SplitHeader, SplitLink,
                ReadBreak, Extend, ExtendRefused, UnlockMalloc, Copy, LockFree, Merge,
                Advance, UnlockFree, Return
  <2> QED
    BY <2>1
<1> QED
  BY <1>1, <1>2, <1>3 DEF Next

\* One thread alone, or threads that never call my_realloc, cannot overlap.
LEMMA NeverOverlaps ==
  ASSUME Serialised, TypeOK, LockInv, OnlyReallocators
  PROVE  ~Overlap
<1>1. SUFFICES ASSUME NEW t \in Threads, pc[t] = "relink", op[t] = "resize",
                      alloc_lock # NoThread
               PROVE  FALSE
  BY DEF Overlap
<1>2. Threads = {t}
  BY <1>1 DEF Serialised, OnlyReallocators
<1>3. ~HoldsLock(t)
  BY <1>1 DEF HoldsLock
<1> QED
  BY <1>1, <1>2, <1>3 DEF TypeOK, LockInv


\* What a run of serialised calls keeps.
LEMMA SerialisedSafe ==
  ASSUME FittingRequests, Serialised
  PROVE  Spec => []SerialisedInv
<1>1. Init => SerialisedInv
  <2>1. Init => NoByteLost
    BY HeapAssumption DEF Init, NoByteLost
  <2>2. Init => OnlyReallocators
    BY DEF Init, OnlyReallocators
  <2> QED
    BY <2>1, <2>2, InitSafe, SerialInit DEF SerialisedInv
<1>2. SerialisedInv /\ [Next]_vars => SerialisedInv'
  <2> SUFFICES ASSUME SerialisedInv, [Next]_vars PROVE SerialisedInv'
    OBVIOUS
  <2>1. SafeInv /\ NoByteLost /\ OnlyReallocators /\ SerialInv /\ TypeOK /\ LockInv
    BY DEF SerialisedInv, SafeInv
  <2>2. SafeInv' /\ NoByteLost' /\ OnlyReallocators'
    BY <2>1, NextSafe, NoByteLostKept, OnlyReallocatorsKept
  <2>3. ~Overlap
    BY <2>1, NeverOverlaps
  <2>4. TypeOK' /\ LockInv'
    BY <2>2 DEF SafeInv
  <2>5. ~Overlap'
    <3>1. SUFFICES ASSUME NEW t \in Threads, pc'[t] = "relink", op'[t] = "resize",
                          alloc_lock' # NoThread
                   PROVE  FALSE
      BY DEF Overlap
    <3>2. Threads = {t}
      BY <2>2, <3>1 DEF Serialised, OnlyReallocators
    <3>3. ~HoldsLock(t)'
      BY <3>1 DEF HoldsLock
    <3> QED
      BY <2>4, <3>1, <3>2, <3>3 DEF TypeOK, LockInv
  <2> QED
    BY <2>1, <2>2, <2>3, <2>5, SerialKept DEF SerialisedInv
<1> QED
  BY <1>1, <1>2, PTL DEF Spec

(* One thread alone, or threads that never call my_realloc: the list that  *)
(* starts at global_base visits every block in address order, for ever     *)
(* (split_block, coalesce_all, request_space).                             *)
THEOREM SerialisedListComplete ==
  ASSUME FittingRequests, Serialised
  PROVE  Spec => []ListThreadsBlocks
<1>1. SerialisedInv => ListThreadsBlocks
  BY DEF SerialisedInv, SerialInv, ListInv
<1> QED
  BY <1>1, SerialisedSafe, PTL

(* With serialised calls the single pass of coalesce_all leaves no two     *)
(* free neighbours, remainders of my_realloc included.                     *)
THEOREM SerialisedFreeMerges ==
  ASSUME FittingRequests, Serialised
  PROVE  Spec => []FreeLeavesNothingToMerge
<1>1. SerialisedInv => FreeLeavesNothingToMerge
  BY DEF SerialisedInv, SerialInv, WalksInv, CoalesceOK, FreeLeavesNothingToMerge
<1> QED
  BY <1>1, SerialisedSafe, PTL

\* When everything is freed, a free block that ended below the break would
\* have a free neighbour to merge with.
LEMMA DrainedCollapses ==
  ASSUME SafeInv, NoByteLost, ListInv
  PROVE  DrainedHeapCollapses
<1>1. ASSUME owned = {}, \A t \in Threads : pc[t] = "idle",
             NEW b \in blocks
      PROVE  free[b] /\ (BlockEnd(b) = brk \/ BlockEnd(b) \in libc)
  <2> USE SizesAssumption, HeapAssumption, IntptrMaxAssumption
  <2>1. SafeInv /\ NoByteLost /\ ListThreadsBlocks /\ DrainedOK
    BY DEF ListInv
  <2>2. InUse = {}
    <3>1. \A t \in Threads : op[t] = "none"
      BY <1>1, <2>1 DEF SafeInv, FrameInv, CallOK
    <3>2. \A t \in Threads : Held(t) = {}
      BY <3>1 DEF Held, Granted, Surrendered
    <3> QED
      BY <1>1, <2>1, <3>2 DEF SafeInv, HoldInv
  <2>3. Unmerged = {} /\ \A c \in blocks : free[c]
    BY <1>1, <2>1, <2>2 DEF DrainedOK, InUse, SafeInv, TypeOK
  <2>4. /\ brk \in Addr
        /\ \A c \in blocks : c \in Addr /\ size[c] \in Nat /\ BlockEnd(c) <= brk
    BY <2>1 DEF SafeInv, TypeOK, SpaceInv, BlocksDisjoint
  <2>5. PICK e : e = BlockEnd(b)
    OBVIOUS
  <2>6. e = b + META_SIZE + size[b] /\ b \in Nat /\ e \in Nat /\ HeapBase <= e /\ e <= brk
    BY <2>4, <2>5 DEF BlockEnd
  <2>7. ASSUME e # brk, e \notin libc
        PROVE  FALSE
    <3>1. e \in HeapBase..(brk - 1)
      BY <2>4, <2>6, <2>7
    <3>2. PICK d \in blocks : e \in Extent(d)
      BY <2>1, <2>7, <3>1 DEF NoByteLost
    <3>3. d \in Addr /\ d <= e /\ e < BlockEnd(d)
      BY <2>4, <3>2 DEF Extent, BlockEnd
    <3>4. b < d
      <4>1. d < b => BlockEnd(d) <= b
        BY <2>1 DEF SafeInv, SpaceInv, BlocksDisjoint
      <4>2. BlockEnd(d) \in Nat /\ b \in Nat /\ d \in Nat /\ b < e
        BY <2>4, <2>6 DEF BlockEnd
      <4>3. d # b
        <5>1. d = b => BlockEnd(d) = e
          BY <2>5
        <5> QED
          BY <2>6, <3>3, <5>1
      <4>4. ~(d < b)
        BY <2>6, <3>3, <4>1, <4>2
      <4> QED
        BY <4>2, <4>3, <4>4
    <3>5. d = e
      <4>1. e <= d
        BY <2>1, <2>5, <3>4 DEF SafeInv, SpaceInv, BlocksDisjoint
      <4> QED
        BY <2>6, <3>3, <4>1
    <3>6. next[b] = d
      <4>1. next[b] \in blocks /\ b < next[b] /\ next[b] <= d
        BY <2>1, <2>4, <3>3, <3>4 DEF ListThreadsBlocks, NextInOrder
      <4>2. e <= next[b] /\ next[b] \in Addr
        BY <2>1, <2>4, <2>5, <4>1 DEF SafeInv, SpaceInv, BlocksDisjoint
      <4> QED
        BY <2>6, <3>5, <4>1, <4>2
    <3>7. PayloadEnd(b) = e
      BY <2>4, <2>6 DEF PayloadEnd, SizeAdd
    <3>8. Mergeable(b) /\ next[b] # NULL
      BY <2>3, <3>3, <3>5, <3>6, <3>7 DEF Mergeable, are_adjacent
    <3> QED
      BY <2>3, <3>8 DEF Unmerged
  <2> QED
    BY <2>3, <2>5, <2>7
<1> QED
  BY <1>1 DEF DrainedHeapCollapses

(* With serialised calls, when everything is freed every block is free and *)
(* reaches up to the break or to memory libc took.                         *)
THEOREM SerialisedHeapCollapses ==
  ASSUME FittingRequests, Serialised
  PROVE  Spec => []DrainedHeapCollapses
<1>1. SerialisedInv => DrainedHeapCollapses
  BY DrainedCollapses DEF SerialisedInv, SerialInv
<1> QED
  BY <1>1, SerialisedSafe, PTL

(* With any calls, the same until a split without the lock has met an      *)
(* append behind the block it splits: the last my_free is not disturbed.   *)
THEOREM HeapCollapsesUntilCollision ==
  ASSUME FittingRequests
  PROVE  HSpec => []HeapCollapses
<1>1. HistoryInv => HeapCollapses
  BY DrainedCollapses DEF HistoryInv, HeapCollapses
<1> QED
  BY <1>1, HistorySafe, PTL

-----------------------------------------------------------------------------
(* MyMalloc implements Allocator.  Every step of the global-heap allocator *)
(* is a step of the abstract one or invisible to the clients: a search, a  *)
(* half-done split, a merge, a lock or memory libc takes changes nothing   *)
(* that belongs to somebody.                                               *)

-----------------------------------------------------------------------------
(* The abstract variables, thread by thread.                               *)

Live == {Region(b) : b \in ClientBlocks}

HeldOf(t) ==
  IF op[t] \in {"realloc", "resize"} THEN {Region(b) : b \in Surrendered(t)} ELSE {}

FreshOf(t) ==
  IF pc[t] \in {"split", "relink"} THEN {} ELSE {Region(b) : b \in Granted(t)}

HeldMap == [t \in Threads |-> HeldOf(t)]

FreshMap == [t \in Threads |-> FreshOf(t)]

\* What a step of t does to the abstract state of the other threads: nothing.
OnlyOf(t) ==
  /\ HeldMap' = [HeldMap EXCEPT ![t] = HeldOf(t)']
  /\ FreshMap' = [FreshMap EXCEPT ![t] = FreshOf(t)']

\* Regions of blocks of other holders stay what they were.
LEMMA OthersKeepRegions ==
  ASSUME SafeInv, NEW t \in Threads,
         \A u \in Threads \ {t} : SameFrame(u),
         \A b \in InUse : b \notin Held(t) => size'[b] = size[b]
  PROVE  OnlyOf(t)
<1>1. ASSUME NEW u \in Threads \ {t}
      PROVE  HeldOf(u)' = HeldOf(u) /\ FreshOf(u)' = FreshOf(u)
  <2>1. /\ Granted(u)' = Granted(u) /\ Surrendered(u)' = Surrendered(u)
        /\ op'[u] = op[u] /\ pc'[u] = pc[u]
    BY OthersKeepHeld DEF SameFrame
  <2>2. \A b \in Held(u) : b \in InUse /\ b \notin Held(t)
    BY DEF SafeInv, HoldInv
  <2>3. \A b \in Held(u) : Region(b)' = Region(b)
    BY <2>2 DEF Region
  <2>4. {Region(b)' : b \in Granted(u)} = {Region(b) : b \in Granted(u)}
    BY <2>3 DEF Held
  <2>5. {Region(b)' : b \in Surrendered(u)} = {Region(b) : b \in Surrendered(u)}
    BY <2>3 DEF Held
  <2> QED
    BY <2>1, <2>4, <2>5 DEF HeldOf, FreshOf
<1> QED
  BY <1>1 DEF OnlyOf, HeldMap, FreshMap

\* The client's regions stay when its pointers and the sizes do.
LEMMA ClientKeepsRegions ==
  ASSUME SafeInv, owned' = owned, NEW t \in Threads,
         \A b \in InUse : b \notin Held(t) => size'[b] = size[b]
  PROVE  Live' = Live
<1>1. ClientBlocks' = ClientBlocks
  BY DEF ClientBlocks
<1>2. ASSUME NEW b \in ClientBlocks
      PROVE  Region(b)' = Region(b)
  <2>1. b \in InUse /\ payload(b) \in owned
    <3>1. PICK p \in owned : b = get_block_ptr(p)
      BY DEF ClientBlocks
    <3>2. p \in Nat /\ get_block_ptr(p) \in InUse
      BY DEF SafeInv, HoldInv
    <3>3. payload(b) = p
      BY <3>1, <3>2, SizesAssumption
    <3> QED
      BY <3>1, <3>2, <3>3
  <2>2. b \notin Held(t)
    BY <2>1 DEF SafeInv, HoldInv
  <2> QED
    BY <2>1, <2>2 DEF Region
<1> QED
  BY <1>1, <1>2 DEF Live

-----------------------------------------------------------------------------
(* The abstract steps in these terms.                                      *)

\* Nothing abstract changes.
LEMMA MapsStutter ==
  ASSUME NEW t \in Threads, OnlyOf(t), Live' = Live, sz' = sz,
         HeldOf(t)' = HeldOf(t), FreshOf(t)' = FreshOf(t)
  PROVE  UNCHANGED Promise!vars
<1>1. HeldMap' = HeldMap /\ FreshMap' = FreshMap
  BY DEF OnlyOf, HeldMap, FreshMap
<1> QED
  BY <1>1 DEF Promise!vars, Live, HeldMap, HeldOf, FreshMap, FreshOf

\* A call for new memory.
LEMMA MapsAsk ==
  ASSUME NEW t \in Threads, OnlyOf(t), Live' = Live, sz[t] = 0,
         NEW s \in SizeT \ {0}, sz' = [sz EXCEPT ![t] = s],
         HeldOf(t)' = HeldOf(t), FreshOf(t)' = FreshOf(t)
  PROVE  Promise!Ask(t)
<1>1. HeldMap' = HeldMap /\ FreshMap' = FreshMap
  BY DEF OnlyOf, HeldMap, FreshMap
<1> QED
  BY <1>1 DEF Promise!Ask, Live, HeldMap, HeldOf, FreshMap, FreshOf

\* A call that gives memory back.
LEMMA MapsFree ==
  ASSUME NEW t \in Threads, OnlyOf(t), NEW r \in Live, Live' = Live \ {r}, sz' = sz,
         HeldOf(t)' = HeldOf(t), FreshOf(t)' = FreshOf(t)
  PROVE  Promise!Free
<1>1. HeldMap' = HeldMap /\ FreshMap' = FreshMap
  BY DEF OnlyOf, HeldMap, FreshMap
<1> QED
  BY <1>1 DEF Promise!Free, Live, HeldMap, HeldOf, FreshMap, FreshOf

\* A call that asks for more in exchange for what it gives back.
LEMMA MapsAskForMore ==
  ASSUME NEW t \in Threads, OnlyOf(t), NEW r \in Live, Live' = Live \ {r}, sz[t] = 0,
         NEW s \in SizeT \ {0}, sz' = [sz EXCEPT ![t] = s],
         HeldOf(t)' = {r}, FreshOf(t)' = FreshOf(t)
  PROVE  Promise!AskForMore(t)
<1>1. HeldMap' = [HeldMap EXCEPT ![t] = {r}] /\ FreshMap' = FreshMap
  BY DEF OnlyOf, HeldMap, FreshMap
<1> QED
  BY <1>1 DEF Promise!AskForMore, Live, HeldMap, HeldOf, FreshMap, FreshOf

\* A call has reserved a region apart from all that belongs to somebody.
LEMMA MapsReserve ==
  ASSUME NEW t \in Threads, OnlyOf(t), Live' = Live, sz' = sz, sz[t] > 0,
         NEW r \in [ptr : Addr, len : SizeT], r.len >= sz[t],
         FreshOf(t) = {}, FreshOf(t)' = {r}, HeldOf(t)' = HeldOf(t),
         \A q \in Live : Promise!Apart(r, q),
         \A u \in Threads : \A q \in HeldOf(u) \cup FreshOf(u) : Promise!Apart(r, q)
  PROVE  Promise!Reserve(t)
<1>1. HeldMap' = HeldMap /\ FreshMap' = [FreshMap EXCEPT ![t] = {r}] /\ FreshMap[t] = {}
  BY DEF OnlyOf, HeldMap, FreshMap
<1>2. \A q \in Live \cup UNION {HeldMap[u] \cup FreshMap[u] : u \in Threads} : Promise!Apart(r, q)
  BY DEF HeldMap, FreshMap
<1> QED
  BY <1>1, <1>2 DEF Promise!Reserve, Promise!Taken, Live, HeldMap,
                    HeldOf, FreshMap, FreshOf

\* my_realloc lets its old region go.
LEMMA MapsRelease ==
  ASSUME NEW t \in Threads, OnlyOf(t), Live' = Live, sz' = sz,
         FreshOf(t) # {}, FreshOf(t)' = FreshOf(t), HeldOf(t) # {}, HeldOf(t)' = {}
  PROVE  Promise!Release(t)
<1>1. /\ HeldMap' = [HeldMap EXCEPT ![t] = {}] /\ FreshMap' = FreshMap
      /\ HeldMap[t] # {} /\ FreshMap[t] # {}
  BY DEF OnlyOf, HeldMap, FreshMap
<1> QED
  BY <1>1 DEF Promise!Release, Live, HeldMap, HeldOf, FreshMap, FreshOf

\* A call returns what it reserved.
LEMMA MapsGrant ==
  ASSUME NEW t \in Threads, OnlyOf(t), sz' = [sz EXCEPT ![t] = 0],
         FreshOf(t) # {}, HeldOf(t) = {}, Live' = Live \cup FreshOf(t),
         FreshOf(t)' = {}, HeldOf(t)' = {}
  PROVE  Promise!Grant(t)
<1>1. /\ HeldMap' = [HeldMap EXCEPT ![t] = {}] /\ FreshMap' = [FreshMap EXCEPT ![t] = {}]
      /\ HeldMap[t] = {} /\ FreshMap[t] # {} /\ FreshMap[t] = FreshOf(t)
  BY DEF OnlyOf, HeldMap, FreshMap
<1> QED
  BY <1>1 DEF Promise!Grant, Promise!Done, Live, HeldMap, HeldOf, FreshMap, FreshOf

\* A call returns NULL.
LEMMA MapsFail ==
  ASSUME NEW t \in Threads, OnlyOf(t), sz[t] > 0, sz' = [sz EXCEPT ![t] = 0],
         FreshOf(t) = {}, Live' = Live \cup HeldOf(t), FreshOf(t)' = {}, HeldOf(t)' = {}
  PROVE  Promise!Fail(t)
<1>1. /\ HeldMap' = [HeldMap EXCEPT ![t] = {}] /\ FreshMap' = [FreshMap EXCEPT ![t] = {}]
      /\ FreshMap[t] = {} /\ HeldMap[t] = HeldOf(t)
  BY DEF OnlyOf, HeldMap, FreshMap
<1> QED
  BY <1>1 DEF Promise!Fail, Promise!Done, Live, HeldMap, HeldOf, FreshMap, FreshOf

\* my_realloc returns its argument.
LEMMA MapsResize ==
  ASSUME NEW t \in Threads, OnlyOf(t), sz' = [sz EXCEPT ![t] = 0], FreshOf(t) = {},
         NEW r \in HeldOf(t), NEW l \in sz[t]..r.len,
         Live' = Live \cup {[ptr |-> r.ptr, len |-> l]},
         FreshOf(t)' = {}, HeldOf(t)' = {}
  PROVE  Promise!Resize(t)
<1>1. /\ HeldMap' = [HeldMap EXCEPT ![t] = {}] /\ FreshMap' = [FreshMap EXCEPT ![t] = {}]
      /\ FreshMap[t] = {} /\ HeldMap[t] = HeldOf(t)
  BY DEF OnlyOf, HeldMap, FreshMap
<1> QED
  BY <1>1 DEF Promise!Resize, Promise!Done, Live, HeldMap, HeldOf, FreshMap, FreshOf

-----------------------------------------------------------------------------
(* Calls and returns.                                                      *)

\* What a call asks for is set when it starts and dropped when it returns.
LEMMA WantKept ==
  ASSUME SafeInv, WantInv, [Next]_vars
  PROVE  WantInv'
<1> USE SizesAssumption, IntptrMaxAssumption
<1>1. CASE UNCHANGED vars \/ LibcSbrk
  BY <1>1 DEF WantInv, LibcSbrk, vars, frame
<1>2. ASSUME NEW t \in Threads, Call(t) \/ Work(t)
      PROVE  WantInv'
  <2> USE DEF SafeInv, TypeOK, WantInv, frame, Goto
  <2>1. \A u \in Threads \ {t} : op'[u] = op[u] /\ sz'[u] = sz[u]
    BY <1>2, OthersStay DEF SameFrame
  <2>2. SUFFICES /\ op'[t] \in {"none", "free"} => sz'[t] = 0
                 /\ op'[t] \in {"malloc", "realloc", "resize"} => sz'[t] > 0
    BY <2>1
  <2>3. CASE CallMalloc(t) \/ CallFree(t)
    BY <2>3 DEF CallMalloc, CallFree, Enter
  <2>4. CASE CallCalloc(t)
    <3>1. PICK a \in CallocArgs : a[1] # 0 /\ a[2] # 0 /\ Enter(t, "malloc", a[1] * a[2], NULL, "m_lock")
      BY <2>4 DEF CallCalloc
    <3>2. \A m, n \in Nat \ {0} : m * n > 0
      OBVIOUS
    <3>3. a[1] \in Nat \ {0} /\ a[2] \in Nat \ {0}
      BY <3>1
    <3> QED
      BY <3>1, <3>2, <3>3 DEF Enter
  <2>5. CASE CallRealloc(t)
    BY <2>5 DEF CallRealloc, ReallocNull, ReallocZero, ReallocInPlace, ReallocMove, Enter
  <2>6. CASE LockMalloc(t) \/ FindNext(t) \/ FindFit(t) \/ SplitHeader(t) \/ ReadBreak(t)
             \/ Extend(t) \/ ExtendRefused(t) \/ Copy(t) \/ LockFree(t) \/ Merge(t) \/ Advance(t)
    <3>1. op' = op /\ sz' = sz
      BY <2>6 DEF LockMalloc, FindNext, FindFit, SplitHeader, ReadBreak, Extend, ExtendRefused,
                  Copy, LockFree, Merge, Advance
    <3> QED
      BY <3>1
  <2>7. CASE SplitSkip(t) \/ SplitLink(t) \/ UnlockMalloc(t) \/ UnlockFree(t)
    BY <2>7 DEF SplitSkip, SplitLink, UnlockMalloc, UnlockFree, Return
  <2> QED
    BY <1>2, <2>3, <2>4, <2>5, <2>6, <2>7 DEF Call, Work
<1> QED
  BY <1>1, <1>2 DEF Next

\* The client's pointers and its blocks say the same.
LEMMA ClientBlocksInUse ==
  ASSUME SafeInv, NEW p \in owned
  PROVE  /\ p \in Nat /\ get_block_ptr(p) \in InUse /\ payload(get_block_ptr(p)) = p
         /\ \A u \in Threads : get_block_ptr(p) \notin Held(u)
<1>1. p \in Nat /\ get_block_ptr(p) \in InUse
  BY DEF SafeInv, HoldInv
<1>2. payload(get_block_ptr(p)) = p
  BY <1>1, SizesAssumption
<1> QED
  BY <1>1, <1>2 DEF SafeInv, HoldInv

\* A call that starts reserves nothing, and holds what it was given.
LEMMA Entered ==
  ASSUME TypeOK, NEW t \in Threads, pc[t] = "idle", op[t] = "none", size' = size,
         NEW o, NEW s, NEW p, NEW l, Enter(t, o, s, p, l),
         \/ o \in {"malloc", "realloc"} /\ l = "m_lock"
         \/ o = "free" /\ l = "f_lock"
         \/ o = "resize" /\ l = "split"
  PROVE  /\ FreshOf(t) = {} /\ HeldOf(t) = {} /\ FreshOf(t)' = {}
         /\ o \in {"realloc", "resize"} => HeldOf(t)' = {Region(get_block_ptr(p))}
         /\ o \notin {"realloc", "resize"} => HeldOf(t)' = {}
<1> USE DEF TypeOK
<1>1. op'[t] = o /\ ptr'[t] = p /\ pc'[t] = l
  BY DEF Enter, Goto
<1>2. FreshOf(t) = {} /\ HeldOf(t) = {}
  BY DEF FreshOf, HeldOf, Granted
<1>3. FreshOf(t)' = {}
  BY <1>1 DEF FreshOf, Granted
<1>4. o \in {"realloc", "resize"} => HeldOf(t)' = {Region(get_block_ptr(p))}
  <2>1. o \in {"realloc", "resize"} => Surrendered(t)' = {get_block_ptr(p)}
    BY <1>1 DEF Surrendered
  <2>2. Region(get_block_ptr(p))' = Region(get_block_ptr(p))
    BY DEF Region
  <2> QED
    BY <1>1, <2>1, <2>2 DEF HeldOf
<1>5. o \notin {"realloc", "resize"} => HeldOf(t)' = {}
  BY <1>1 DEF HeldOf
<1> QED
  BY <1>2, <1>3, <1>4, <1>5

\* The client's region of a pointer it gives up leaves the others.
LEMMA ClientGives ==
  ASSUME SafeInv, NEW p \in owned, owned' = owned \ {p}, size' = size
  PROVE  /\ Region(get_block_ptr(p)) \in Live
         /\ Live' = Live \ {Region(get_block_ptr(p))}
<1>1. \A q \in owned : payload(get_block_ptr(q)) = q
  BY ClientBlocksInUse
<1>2. Live = {Region(get_block_ptr(q)) : q \in owned}
  BY DEF Live, ClientBlocks
<1>3. Live' = {Region(get_block_ptr(q)) : q \in owned \ {p}}
  BY DEF Live, ClientBlocks, Region
<1>4. \A q \in owned : Region(get_block_ptr(q)).ptr = q
  BY <1>1 DEF Region
<1> QED
  BY <1>2, <1>3, <1>4

\* A call starts: it asks for memory, or gives some back, or both.
LEMMA CallMaps ==
  ASSUME SafeInv, WantInv, NEW t \in Threads, Call(t)
  PROVE  Promise!Next \/ UNCHANGED Promise!vars
<1>1. pc[t] = "idle" /\ op[t] = "none" /\ sz[t] = 0 /\ size' = size /\ TypeOK
  BY DEF Call, CallMalloc, CallCalloc, CallFree, CallRealloc, heap, header, SafeInv, FrameInv,
         CallOK, WantInv
<1>2. OnlyOf(t)
  <2>1. \A u \in Threads \ {t} : SameFrame(u)
    BY <1>1, OthersStay
  <2> QED
    BY <1>1, <2>1, OthersKeepRegions
<1>3. ASSUME NEW s \in SizeT \ {0}, Enter(t, "malloc", s, NULL, "m_lock"), owned' = owned
      PROVE  Promise!Ask(t)
  <2>1. Live' = Live
    BY <1>1, <1>3, ClientKeepsRegions
  <2>2. HeldOf(t)' = HeldOf(t) /\ FreshOf(t)' = FreshOf(t)
    BY <1>1, <1>3, Entered
  <2>3. sz' = [sz EXCEPT ![t] = s]
    BY <1>3 DEF Enter
  <2> QED
    BY <1>1, <1>2, <2>1, <2>2, <2>3, MapsAsk
<1>4. ASSUME NEW p \in owned, Enter(t, "free", 0, p, "f_lock"), owned' = owned \ {p}
      PROVE  Promise!Free
  <2>1. PICK r : r = Region(get_block_ptr(p))
    OBVIOUS
  <2>2. r \in Live /\ Live' = Live \ {r}
    BY <1>1, <1>4, <2>1, ClientGives
  <2>3. HeldOf(t)' = HeldOf(t) /\ FreshOf(t)' = FreshOf(t)
    BY <1>1, <1>4, Entered
  <2>4. sz' = sz
    BY <1>1, <1>4 DEF Enter, TypeOK
  <2> QED
    BY <1>2, <2>2, <2>3, <2>4, MapsFree
<1>5. ASSUME NEW p \in owned, NEW s \in SizeT \ {0}, owned' = owned \ {p},
             \/ Enter(t, "resize", s, p, "split")
             \/ Enter(t, "realloc", s, p, "m_lock")
      PROVE  Promise!AskForMore(t)
  <2>1. PICK r : r = Region(get_block_ptr(p))
    OBVIOUS
  <2>2. r \in Live /\ Live' = Live \ {r}
    BY <1>1, <1>5, <2>1, ClientGives
  <2>3. HeldOf(t)' = {r} /\ FreshOf(t)' = FreshOf(t)
    BY <1>1, <1>5, <2>1, Entered
  <2>4. sz' = [sz EXCEPT ![t] = s]
    BY <1>5 DEF Enter
  <2> QED
    BY <1>1, <1>2, <2>2, <2>3, <2>4, MapsAskForMore
<1>6. CASE CallMalloc(t)
  <2>1. PICK s \in Requests \ {0} : Enter(t, "malloc", s, NULL, "m_lock")
    BY <1>6 DEF CallMalloc
  <2>2. Promise!Ask(t)
    BY <1>3, <1>6, <2>1, SizesAssumption DEF CallMalloc
  <2> QED
    BY <2>2 DEF Promise!Next
<1>7. CASE CallCalloc(t)
  <2>1. PICK a \in CallocArgs : /\ a[1] # 0 /\ a[2] # 0 /\ ~ProductOverflows(a[1], a[2])
                               /\ Enter(t, "malloc", a[1] * a[2], NULL, "m_lock")
    BY <1>7 DEF CallCalloc
  <2>2. a[1] * a[2] \in SizeT \ {0}
    <3>1. a[1] \in Nat \ {0} /\ a[2] \in Nat \ {0}
      BY <2>1, SizesAssumption, IntptrMaxAssumption
    <3>2. \A m, n \in Nat \ {0} : m * n \in Nat \ {0}
      OBVIOUS
    <3>3. a[1] * a[2] <= SIZE_MAX
      BY <2>1, <3>1, ProductExact, IntptrMaxAssumption
    <3> QED
      BY <3>1, <3>2, <3>3, IntptrMaxAssumption
  <2>3. Promise!Ask(t)
    BY <1>3, <1>7, <2>1, <2>2 DEF CallCalloc
  <2> QED
    BY <2>3 DEF Promise!Next
<1>8. CASE CallFree(t)
  <2>1. Promise!Free
    BY <1>4, <1>8 DEF CallFree
  <2> QED
    BY <2>1 DEF Promise!Next
<1>9. CASE CallRealloc(t)
  <2>1. PICK s \in Requests : \/ ReallocNull(t, s)
                              \/ \E p \in owned : \/ s = 0 /\ ReallocZero(t, p)
                                                  \/ s # 0 /\ ReallocInPlace(t, p, s)
                                                  \/ s # 0 /\ ReallocMove(t, p, s)
    BY <1>9 DEF CallRealloc
  <2>2. s \in SizeT
    BY SizesAssumption
  <2>3. CASE ReallocNull(t, s)
    <3>1. Promise!Ask(t)
      BY <1>3, <2>2, <2>3 DEF ReallocNull
    <3> QED
      BY <3>1 DEF Promise!Next
  <2>4. ASSUME NEW p \in owned, ReallocZero(t, p)
        PROVE  Promise!Next
    <3>1. Promise!Free
      BY <1>4, <2>4 DEF ReallocZero
    <3> QED
      BY <3>1 DEF Promise!Next
  <2>5. ASSUME NEW p \in owned, s # 0, ReallocInPlace(t, p, s) \/ ReallocMove(t, p, s)
        PROVE  Promise!Next
    <3>1. Promise!AskForMore(t)
      BY <1>5, <2>2, <2>5 DEF ReallocInPlace, ReallocMove
    <3> QED
      BY <3>1 DEF Promise!Next
  <2> QED
    BY <2>1, <2>3, <2>4, <2>5
<1> QED
  BY <1>6, <1>7, <1>8, <1>9 DEF Call

-----------------------------------------------------------------------------
(* Steps no client sees.                                                   *)

\* A step of t that changes no region of anybody.
LEMMA QuietMaps ==
  ASSUME SafeInv, NEW t \in Threads, Work(t), owned' = owned, sz' = sz, op'[t] = op[t],
         \A b \in InUse : size'[b] = size[b],
         Surrendered(t)' = Surrendered(t) \/ op[t] = "free",
         FreshOf(t)' = FreshOf(t)
  PROVE  UNCHANGED Promise!vars
<1>1. OnlyOf(t)
  <2>1. \A u \in Threads \ {t} : SameFrame(u)
    BY OthersStay DEF SafeInv
  <2> QED
    BY <2>1, OthersKeepRegions
<1>2. Live' = Live
  BY ClientKeepsRegions
<1>3. HeldOf(t)' = HeldOf(t)
  <2>1. \A b \in Surrendered(t) : Region(b)' = Region(b)
    BY DEF SafeInv, HoldInv, Held, Region
  <2>2. {Region(b)' : b \in Surrendered(t)} = {Region(b) : b \in Surrendered(t)}
    BY <2>1
  <2> QED
    BY <2>2 DEF HeldOf
<1> QED
  BY <1>1, <1>2, <1>3, MapsStutter

\* The search, the first half of a split and a refused sbrk() are invisible.
LEMMA SearchMaps ==
  ASSUME SafeInv, NEW t \in Threads,
         LockMalloc(t) \/ FindNext(t) \/ FindFit(t) \/ SplitHeader(t) \/ ReadBreak(t)
         \/ ExtendRefused(t)
  PROVE  UNCHANGED Promise!vars
<1> USE DEF Goto, os, heap, header, frame
<1>1. TypeOK /\ Work(t)
  BY DEF SafeInv, Work
<1>2. owned' = owned /\ sz' = sz /\ op' = op /\ ptr' = ptr
  BY DEF LockMalloc, FindNext, FindFit, SplitHeader, ReadBreak, ExtendRefused
<1>3. /\ pc[t] \in {"m_lock", "find", "split", "brk", "extend"}
      /\ \/ pc'[t] \in {"m_lock", "find", "brk", "extend", "split", "relink"}
         \/ pc'[t] = "m_unlock" /\ block'[t] = NULL
  BY <1>1 DEF LockMalloc, FindNext, FindFit, SplitHeader, ReadBreak, ExtendRefused, TypeOK
<1>4. FreshOf(t) = {}
  BY <1>3 DEF FreshOf, Granted
<1>5. FreshOf(t)' = {}
  BY <1>3 DEF FreshOf, Granted
<1>6. Surrendered(t)' = Surrendered(t)
  BY <1>2, <1>3 DEF Surrendered
<1>7. \A b \in InUse : size'[b] = size[b]
  <2>1. CASE SplitHeader(t)
    <3>1. \A b \in InUse : b \in Addr \ {NewAt(t)}
      BY <1>1, <2>1, SplitHeaderEffect DEF InUse, TypeOK
    <3> QED
      BY <2>1, <3>1, SplitHeaderEffect
  <2>2. CASE ~SplitHeader(t)
    BY <2>2 DEF LockMalloc, FindNext, FindFit, ReadBreak, ExtendRefused
  <2> QED
    BY <2>1, <2>2
<1> QED
  BY <1>1, <1>2, <1>4, <1>5, <1>6, <1>7, QuietMaps

\* The copy and the coalescing walk are invisible.
LEMMA CoalesceMaps ==
  ASSUME SafeInv, NEW t \in Threads, Copy(t) \/ Merge(t) \/ Advance(t)
  PROVE  UNCHANGED Promise!vars
<1> USE DEF Goto, os, heap, header, frame
<1>1. TypeOK /\ Work(t)
  BY DEF SafeInv, Work
<1>2. owned' = owned /\ sz' = sz /\ op' = op /\ ptr' = ptr /\ block' = block
  BY DEF Copy, Merge, Advance
<1>3. \/ pc[t] = "copy" /\ pc'[t] = "f_lock"
      \/ pc[t] = "coalesce" /\ pc'[t] \in {"coalesce", "f_unlock"}
  BY <1>1 DEF Copy, Merge, Advance, TypeOK
<1>4. Surrendered(t)' = Surrendered(t) /\ Granted(t)' = Granted(t)
  BY <1>2, <1>3 DEF Surrendered, Granted
<1>5. \A b \in InUse : size'[b] = size[b]
  <2>1. CASE Merge(t)
    <3>1. PICK c : c = cur[t]
      OBVIOUS
    <3>2. free[c] /\ \A a \in Addr \ {c} : size'[a] = size[a]
      BY <2>1, <3>1, MergeEffect
    <3>3. \A b \in InUse : b \in Addr \ {c}
      BY <1>1, <3>2 DEF InUse, TypeOK
    <3> QED
      BY <3>2, <3>3
  <2>2. CASE ~Merge(t)
    BY <2>2 DEF Copy, Advance
  <2> QED
    BY <2>1, <2>2
<1>6. FreshOf(t)' = FreshOf(t)
  <2>1. \A b \in Granted(t) : Region(b)' = Region(b)
    BY <1>5 DEF SafeInv, HoldInv, Held, Region
  <2>2. {Region(b)' : b \in Granted(t)} = {Region(b) : b \in Granted(t)}
    BY <2>1
  <2> QED
    BY <1>3, <1>4, <2>2 DEF FreshOf
<1> QED
  BY <1>1, <1>2, <1>4, <1>5, <1>6, QuietMaps

-----------------------------------------------------------------------------
(* A call gets its block.                                                  *)

\* After a step the payloads of two blocks are regions of the heap, and apart.
LEMMA RegionsApart ==
  ASSUME TypeOK', BlocksDisjoint', NEW b \in blocks', NEW c \in blocks' \ {b}
  PROVE  Region(b)' \in [ptr : Addr, len : SizeT] /\ Promise!Apart(Region(b)', Region(c)')
<1> USE SizesAssumption, HeapAssumption, IntptrMaxAssumption
<1>1. /\ b \in Addr /\ c \in Addr /\ size'[b] \in SizeT /\ size'[c] \in SizeT /\ brk' \in Addr
      /\ BlockEnd(b)' <= brk'
  BY DEF TypeOK, BlocksDisjoint
<1>2. b \in Nat /\ c \in Nat /\ size'[b] \in Nat /\ size'[c] \in Nat /\ b # c
  BY <1>1
<1>3. BlockEnd(b)' <= c \/ BlockEnd(c)' <= b
  BY <1>2 DEF BlocksDisjoint
<1>4. b + META_SIZE \in Addr
  BY <1>1, <1>2 DEF BlockEnd
<1>5. \/ b + META_SIZE + size'[b] <= c + META_SIZE
      \/ c + META_SIZE + size'[c] <= b + META_SIZE
  BY <1>2, <1>3 DEF BlockEnd
<1> QED
  BY <1>1, <1>4, <1>5 DEF Region, Promise!Apart

(* The block of a my_malloc that is cut to size, or appended, is apart     *)
(* from all that belongs to somebody.                                      *)
LEMMA ReserveMaps ==
  ASSUME SafeInv, SafeInv', WantInv, NEW t \in Threads, Work(t),
         owned' = owned, sz' = sz, op'[t] = op[t], ptr'[t] = ptr[t],
         op[t] \in {"malloc", "realloc"}, pc[t] \in {"split", "relink", "extend"},
         pc'[t] = "m_unlock", NEW b, block'[t] = b, b # NULL, size'[b] >= sz[t],
         \A c \in InUse : c # b => size'[c] = size[c],
         b \in Held(t) \/ b \notin InUse
  PROVE  Promise!Reserve(t)
<1>1. OnlyOf(t)
  <2>1. \A u \in Threads \ {t} : SameFrame(u)
    BY OthersStay DEF SafeInv
  <2> QED
    BY <2>1, OthersKeepRegions
<1>2. Live' = Live
  BY ClientKeepsRegions
<1>3. Granted(t)' = {b} /\ Surrendered(t)' = Surrendered(t)
  BY DEF Granted, Surrendered
<1>4. FreshOf(t) = {} /\ FreshOf(t)' = {Region(b)'}
  BY <1>3 DEF FreshOf, Granted
<1>5. HeldOf(t)' = HeldOf(t)
  <2>1. b \notin Surrendered(t)
    BY <1>3 DEF SafeInv, HoldInv
  <2>2. \A c \in Surrendered(t) : Region(c)' = Region(c)
    BY <2>1 DEF SafeInv, HoldInv, Held, Region
  <2>3. {Region(c)' : c \in Surrendered(t)} = {Region(c) : c \in Surrendered(t)}
    BY <2>2
  <2> QED
    BY <1>3, <2>3 DEF HeldOf
<1>6. b \in InUse' /\ \A u \in Threads \ {t} : \A c \in Held(u)' : c # b
  BY <1>3 DEF SafeInv, HoldInv, Held
<1>7. ASSUME NEW c \in InUse' \ {b}
      PROVE  Region(b)' \in [ptr : Addr, len : SizeT] /\ Promise!Apart(Region(b)', Region(c)')
  BY <1>6, <1>7, RegionsApart DEF SafeInv, SpaceInv, InUse
<1>8. ASSUME NEW q \in Live
      PROVE  Promise!Apart(Region(b)', q)
  <2>1. PICK p \in owned' : q = Region(get_block_ptr(p))'
    BY <1>2 DEF Live, ClientBlocks
  <2>2. get_block_ptr(p) \in InUse' \ {b}
    <3>1. get_block_ptr(p) \in InUse' /\ p \in Nat /\ payload(b) \notin owned'
      BY <1>3 DEF SafeInv, HoldInv, Held
    <3>2. payload(get_block_ptr(p)) = p
      BY <3>1, SizesAssumption
    <3> QED
      BY <3>1, <3>2
  <2> QED
    BY <1>7, <2>1, <2>2
<1>9. ASSUME NEW u \in Threads, NEW q \in HeldOf(u) \cup FreshOf(u)
      PROVE  Promise!Apart(Region(b)', q)
  <2>1. u # t => HeldOf(u)' = HeldOf(u) /\ FreshOf(u)' = FreshOf(u)
    BY <1>1 DEF OnlyOf, HeldMap, FreshMap
  <2>2. PICK c \in Held(u)' : q = Region(c)' /\ (u = t => c \in Surrendered(t)')
    BY <1>4, <1>5, <2>1 DEF HeldOf, FreshOf, Held
  <2>3. c \in InUse' /\ c # b
    BY <1>3, <1>6, <2>2 DEF SafeInv, HoldInv
  <2> QED
    BY <1>7, <2>2, <2>3
<1>10. Region(b)' \in [ptr : Addr, len : SizeT] /\ Region(b)'.len >= sz[t] /\ sz[t] > 0
  <2>1. b \in Addr /\ size'[b] \in SizeT /\ brk' \in Addr /\ BlockEnd(b)' <= brk'
    BY <1>6 DEF SafeInv, TypeOK, SpaceInv, BlocksDisjoint, InUse
  <2>2. b + META_SIZE \in Addr
    BY <2>1, SizesAssumption, HeapAssumption, IntptrMaxAssumption DEF BlockEnd
  <2> QED
    BY <2>1, <2>2 DEF Region, WantInv
<1> QED
  BY <1>1, <1>2, <1>4, <1>5, <1>8, <1>9, <1>10, MapsReserve

\* my_malloc has its block: SplitSkip, SplitLink and Extend of a locked call.
LEMMA BlockMaps ==
  ASSUME SafeInv, SafeInv', WantInv, NEW t \in Threads, op[t] # "resize",
         SplitSkip(t) \/ SplitLink(t) \/ Extend(t)
  PROVE  Promise!Reserve(t)
<1> USE DEF Goto, os, heap, header, frame
<1>1. TypeOK /\ Work(t)
  BY DEF SafeInv, Work
<1>2. /\ owned' = owned /\ sz' = sz /\ op' = op /\ ptr' = ptr /\ block' = block
      /\ pc[t] \in {"split", "relink", "extend"} /\ pc'[t] = "m_unlock"
      /\ op[t] \in {"malloc", "realloc"}
  BY <1>1 DEF SplitSkip, SplitLink, Extend, TypeOK, SafeInv, FrameInv, CallOK
<1>3. PICK b : b = block[t]
  OBVIOUS
<1>4. CASE SplitSkip(t)
  <2>1. b \in Held(t) /\ b \in Addr /\ sz[t] <= size[b]
    BY <1>3, <1>4, SplitFacts DEF SplitSkip
  <2>2. b # NULL /\ size' = size /\ size'[b] >= sz[t]
    BY <1>4, <2>1, HeapAssumption, <1>1 DEF SplitSkip, TypeOK
  <2>3. block'[t] = b
    BY <1>2, <1>3
  <2> QED
    BY <1>1, <1>2, <2>1, <2>2, <2>3, ReserveMaps
<1>5. CASE SplitLink(t)
  <2>1. /\ b \in Held(t) /\ b \in Addr /\ size'[b] = sz[t] /\ sz[t] \in Nat
        /\ \A a \in Addr \ {b} : size'[a] = size[a]
    BY <1>3, <1>5, SplitLinkEffect
  <2>2. b # NULL /\ size'[b] >= sz[t]
    BY <2>1, HeapAssumption
  <2>3. \A c \in InUse : c # b => size'[c] = size[c]
    BY <1>1, <2>1 DEF InUse, TypeOK
  <2>4. block'[t] = b
    BY <1>2, <1>3
  <2> QED
    BY <1>1, <1>2, <2>1, <2>2, <2>3, <2>4, ReserveMaps
<1>6. CASE Extend(t)
  <2>1. /\ brk \notin blocks /\ brk # NULL /\ size'[brk] = sz[t] /\ sz[t] \in Nat
        /\ \A a \in Addr \ {brk} : size'[a] = size[a]
    BY <1>6, ExtendEffect
  <2>2. b = brk /\ block'[t] = b
    BY <1>2, <1>3, <1>6 DEF Extend, SafeInv, FrameInv, CursorOK
  <2>3. \A c \in InUse : c # b => size'[c] = size[c]
    BY <1>1, <2>1, <2>2 DEF InUse, TypeOK
  <2>4. b \notin InUse /\ b # NULL /\ size'[b] >= sz[t]
    BY <2>1, <2>2 DEF InUse
  <2> QED
    BY <1>1, <1>2, <2>2, <2>3, <2>4, ReserveMaps
<1> QED
  BY <1>4, <1>5, <1>6

-----------------------------------------------------------------------------
(* Calls return.                                                           *)

\* A call that returns holds nothing, and the client gets what it hands over.
LEMMA Returned ==
  ASSUME SafeInv, NEW t \in Threads, Work(t), NEW ps, Return(t, ps),
         \A b \in InUse : b \notin Held(t) => size'[b] = size[b]
  PROVE  /\ OnlyOf(t) /\ HeldOf(t)' = {} /\ FreshOf(t)' = {}
         /\ sz' = [sz EXCEPT ![t] = 0]
         /\ Live' = Live \cup {Region(get_block_ptr(p))' : p \in ps}
<1>1. OnlyOf(t)
  <2>1. \A u \in Threads \ {t} : SameFrame(u)
    BY OthersStay DEF SafeInv
  <2> QED
    BY <2>1, OthersKeepRegions
<1>2. pc'[t] = "idle" /\ op'[t] = "none" /\ sz' = [sz EXCEPT ![t] = 0] /\ owned' = owned \cup ps
  BY DEF Return, Goto, SafeInv, TypeOK
<1>3. HeldOf(t)' = {} /\ FreshOf(t)' = {}
  BY <1>2 DEF HeldOf, FreshOf, Granted
<1>4. \A p \in owned : Region(get_block_ptr(p))' = Region(get_block_ptr(p))
  BY ClientBlocksInUse DEF Region
<1>5. Live = {Region(get_block_ptr(p)) : p \in owned}
  BY DEF Live, ClientBlocks
<1>6. Live' = {Region(get_block_ptr(p))' : p \in owned \cup ps}
  BY <1>2 DEF Live, ClientBlocks
<1>7. Live' = Live \cup {Region(get_block_ptr(p))' : p \in ps}
  BY <1>4, <1>5, <1>6
<1> QED
  BY <1>1, <1>2, <1>3, <1>7

\* my_realloc in place returns its argument, which may have shrunk.
LEMMA ResizeMaps ==
  ASSUME SafeInv, NEW t \in Threads, op[t] = "resize", SplitSkip(t) \/ SplitLink(t)
  PROVE  Promise!Resize(t)
<1>1. TypeOK /\ Work(t)
  BY DEF SafeInv, Work
<1>2. pc[t] \in {"split", "relink"} /\ Return(t, {ptr[t]})
  BY DEF SplitSkip, SplitLink
<1>3. PICK b : b = block[t] /\ b = get_block_ptr(ptr[t])
  BY DEF SafeInv, FrameInv, CallOK
<1>4. /\ b \in Addr /\ b \in Held(t) /\ size[b] \in Nat /\ sz[t] \in Nat /\ sz[t] <= size[b]
  BY <1>2, <1>3, SplitFacts
<1>5. size'[b] \in sz[t]..size[b] /\ \A a \in Addr \ {b} : size'[a] = size[a]
  <2>1. CASE SplitSkip(t)
    BY <1>4, <2>1 DEF SplitSkip, heap, header
  <2>2. CASE SplitLink(t)
    <3>1. size'[b] = sz[t] /\ \A a \in Addr \ {b} : size'[a] = size[a]
      <4>1. /\ size'[block[t]] = sz[t]
            /\ \A a \in Addr \ {block[t]} : size'[a] = size[a]
        BY <2>2, SplitLinkEffect
      <4> QED
        BY <1>3, <4>1
    <3> QED
      BY <1>4, <3>1
  <2> QED
    BY <2>1, <2>2
<1>6. \A c \in InUse : c \notin Held(t) => size'[c] = size[c]
  BY <1>1, <1>4, <1>5 DEF InUse, TypeOK
<1>7. FreshOf(t) = {} /\ HeldOf(t) = {Region(b)}
  BY <1>2, <1>3 DEF FreshOf, HeldOf, Surrendered
<1>8. /\ OnlyOf(t) /\ HeldOf(t)' = {} /\ FreshOf(t)' = {} /\ sz' = [sz EXCEPT ![t] = 0]
      /\ Live' = Live \cup {Region(get_block_ptr(p))' : p \in {ptr[t]}}
  BY <1>1, <1>2, <1>6, Returned
<1>9. Live' = Live \cup {[ptr |-> Region(b).ptr, len |-> size'[b]]}
  BY <1>3, <1>8 DEF Region
<1>10. Region(b).len = size[b] /\ Region(b) \in HeldOf(t)
  BY <1>7 DEF Region
<1> QED
  BY <1>5, <1>7, <1>8, <1>9, <1>10, MapsResize

\* my_malloc unlocks: it returns NULL or its block, or my_realloc goes on.
LEMMA UnlockMallocMaps ==
  ASSUME SafeInv, WantInv, NEW t \in Threads, UnlockMalloc(t)
  PROVE  \/ Promise!Fail(t) \/ Promise!Grant(t) \/ UNCHANGED Promise!vars
<1>1. /\ TypeOK /\ Work(t) /\ pc[t] = "m_unlock" /\ op[t] \in {"malloc", "realloc"}
      /\ op[t] = "malloc" => ptr[t] = NULL
  BY DEF SafeInv, Work, UnlockMalloc, FrameInv, CallOK
<1>2. size' = size /\ sz[t] > 0
  BY <1>1 DEF UnlockMalloc, heap, header, WantInv
<1>3. CASE block[t] = NULL
  <2>1. Return(t, {ptr[t]} \ {NULL})
    BY <1>3 DEF UnlockMalloc
  <2>2. /\ OnlyOf(t) /\ HeldOf(t)' = {} /\ FreshOf(t)' = {} /\ sz' = [sz EXCEPT ![t] = 0]
        /\ Live' = Live \cup {Region(get_block_ptr(p))' : p \in {ptr[t]} \ {NULL}}
    BY <1>1, <1>2, <2>1, Returned
  <2>3. FreshOf(t) = {}
    BY <1>3 DEF FreshOf, Granted
  <2>4. {Region(get_block_ptr(p))' : p \in {ptr[t]} \ {NULL}} = HeldOf(t)
    <3>1. CASE op[t] = "malloc"
      BY <1>1, <3>1 DEF HeldOf
    <3>2. CASE op[t] = "realloc"
      <4>1. Surrendered(t) = {get_block_ptr(ptr[t])}
        BY <1>1, <3>2 DEF Surrendered
      <4>2. get_block_ptr(ptr[t]) \in Addr
        BY <1>1, <4>1 DEF SafeInv, HoldInv, Held, InUse, TypeOK
      <4>3. ptr[t] # NULL
        BY <1>1, <4>2, SizesAssumption, HeapAssumption DEF TypeOK
      <4> QED
        BY <1>2, <3>2, <4>1, <4>3 DEF HeldOf, Region
    <3> QED
      BY <1>1, <3>1, <3>2
  <2> QED
    BY <1>2, <2>2, <2>3, <2>4, MapsFail
<1>4. CASE block[t] # NULL /\ op[t] = "malloc"
  <2>1. Return(t, {payload(block[t])})
    BY <1>4 DEF UnlockMalloc
  <2>2. /\ OnlyOf(t) /\ HeldOf(t)' = {} /\ FreshOf(t)' = {} /\ sz' = [sz EXCEPT ![t] = 0]
        /\ Live' = Live \cup {Region(get_block_ptr(p))' : p \in {payload(block[t])}}
    BY <1>1, <1>2, <2>1, Returned
  <2>3. FreshOf(t) = {Region(block[t])} /\ HeldOf(t) = {}
    BY <1>1, <1>4 DEF FreshOf, HeldOf, Granted
  <2>4. get_block_ptr(payload(block[t])) = block[t]
    <3>1. block[t] \in Nat
      BY <1>1, HeapAssumption DEF TypeOK
    <3> QED
      BY <3>1, SizesAssumption
  <2>5. Live' = Live \cup FreshOf(t)
    BY <1>2, <2>2, <2>3, <2>4 DEF Region
  <2> QED
    BY <2>2, <2>3, <2>5, MapsGrant
<1>5. CASE block[t] # NULL /\ op[t] = "realloc"
  <2>1. pc'[t] = "copy" /\ UNCHANGED <<owned, op, sz, ptr, block>>
    BY <1>1, <1>5 DEF UnlockMalloc, Goto, TypeOK, frame
  <2>2. Surrendered(t)' = Surrendered(t) /\ FreshOf(t)' = FreshOf(t)
    BY <1>1, <1>2, <1>5, <2>1 DEF Surrendered, FreshOf, Granted, Region
  <2> QED
    BY <1>1, <1>2, <2>1, <2>2, QuietMaps
<1> QED
  BY <1>1, <1>3, <1>4, <1>5

\* my_free marks its block: nothing a client sees, but the end of the region
\* my_realloc had from it.
LEMMA LockFreeMaps ==
  ASSUME SafeInv, NEW t \in Threads, LockFree(t)
  PROVE  Promise!Release(t) \/ UNCHANGED Promise!vars
<1>1. TypeOK /\ Work(t) /\ pc[t] = "f_lock" /\ op[t] \in {"free", "realloc"}
  BY DEF SafeInv, Work, LockFree, FrameInv, CallOK
<1>2. UNCHANGED <<size, owned, op, sz, ptr, block>>
  BY DEF LockFree
<1>3. Surrendered(t) = {get_block_ptr(ptr[t])} /\ get_block_ptr(ptr[t]) \in InUse
  BY <1>1 DEF Surrendered, SafeInv, HoldInv, Held
<1>4. pc'[t] = "coalesce"
  BY <1>1, <1>3 DEF LockFree, Goto, InUse, TypeOK
<1>5. FreshOf(t)' = FreshOf(t)
  BY <1>1, <1>2, <1>4 DEF FreshOf, Granted, Region
<1>6. CASE op[t] = "free"
  BY <1>1, <1>2, <1>5, <1>6, QuietMaps
<1>7. CASE op[t] = "realloc"
  <2>1. block[t] # NULL
    BY <1>1, <1>7 DEF SafeInv, FrameInv, SizesOK
  <2>2. FreshOf(t) = {Region(block[t])} /\ HeldOf(t) = {Region(get_block_ptr(ptr[t]))}
    BY <1>1, <1>3, <1>7, <2>1 DEF FreshOf, HeldOf, Granted
  <2>3. HeldOf(t)' = {}
    BY <1>4 DEF HeldOf, Surrendered
  <2>4. OnlyOf(t)
    <3>1. \A u \in Threads \ {t} : SameFrame(u)
      BY <1>1, OthersStay
    <3> QED
      BY <1>2, <3>1, OthersKeepRegions
  <2>5. Live' = Live
    BY <1>2, ClientKeepsRegions
  <2>6. FreshOf(t) # {} /\ HeldOf(t) # {}
    BY <2>2
  <2> QED
    BY <1>2, <1>5, <2>3, <2>4, <2>5, <2>6, MapsRelease
<1> QED
  BY <1>1, <1>6, <1>7

\* my_free returns: to the client, or my_realloc hands over its new block.
LEMMA UnlockFreeMaps ==
  ASSUME SafeInv, WantInv, NEW t \in Threads, UnlockFree(t)
  PROVE  Promise!Grant(t) \/ UNCHANGED Promise!vars
<1>1. TypeOK /\ Work(t) /\ pc[t] = "f_unlock" /\ op[t] \in {"free", "realloc"}
  BY DEF SafeInv, Work, UnlockFree, FrameInv, CallOK
<1>2. size' = size
  BY DEF UnlockFree, heap, header
<1>3. HeldOf(t) = {}
  BY <1>1 DEF HeldOf, Surrendered
<1>4. CASE op[t] = "free"
  <2>1. Return(t, {})
    BY <1>4 DEF UnlockFree
  <2>2. /\ OnlyOf(t) /\ HeldOf(t)' = {} /\ FreshOf(t)' = {} /\ sz' = [sz EXCEPT ![t] = 0]
        /\ Live' = Live \cup {Region(get_block_ptr(p))' : p \in {}}
    BY <1>1, <1>2, <2>1, Returned
  <2>3. FreshOf(t) = {}
    BY <1>4 DEF FreshOf, Granted
  <2>4. sz' = sz
    BY <1>1, <1>4, <2>2 DEF WantInv, TypeOK
  <2>5. Live' = Live
    BY <2>2
  <2> QED
    BY <1>3, <2>2, <2>3, <2>4, <2>5, MapsStutter
<1>5. CASE op[t] = "realloc"
  <2>1. Return(t, {payload(block[t])})
    BY <1>5 DEF UnlockFree
  <2>2. /\ OnlyOf(t) /\ HeldOf(t)' = {} /\ FreshOf(t)' = {} /\ sz' = [sz EXCEPT ![t] = 0]
        /\ Live' = Live \cup {Region(get_block_ptr(p))' : p \in {payload(block[t])}}
    BY <1>1, <1>2, <2>1, Returned
  <2>3. block[t] # NULL
    BY <1>1, <1>5 DEF SafeInv, FrameInv, SizesOK
  <2>4. FreshOf(t) = {Region(block[t])}
    BY <1>1, <1>5, <2>3 DEF FreshOf, Granted
  <2>5. get_block_ptr(payload(block[t])) = block[t]
    <3>1. block[t] \in Nat
      BY <1>1, HeapAssumption DEF TypeOK
    <3> QED
      BY <3>1, SizesAssumption
  <2>6. Live' = Live \cup FreshOf(t) /\ FreshOf(t) # {}
    BY <1>2, <2>2, <2>4, <2>5 DEF Region
  <2> QED
    BY <1>3, <2>2, <2>6, MapsGrant
<1> QED
  BY <1>1, <1>4, <1>5

-----------------------------------------------------------------------------
(* The refinement.                                                         *)

\* A process that starts has given nothing away.
LEMMA InitMaps == Init => Promise!Init /\ WantInv
<1> SUFFICES ASSUME Init PROVE Promise!Init /\ WantInv
  OBVIOUS
<1>1. \A t \in Threads : pc[t] = "idle" /\ op[t] = "none" /\ sz[t] = 0
  BY DEF Init
<1>2. Live = {}
  BY DEF Init, Live, ClientBlocks
<1>3. \A t \in Threads : HeldOf(t) = {} /\ FreshOf(t) = {}
  BY <1>1 DEF HeldOf, FreshOf, Granted
<1>4. HeldMap = [t \in Threads |-> {}] /\ FreshMap = [t \in Threads |-> {}]
  BY <1>3 DEF HeldMap, FreshMap
<1>5. sz = [t \in Threads |-> 0]
  BY DEF Init
<1>6. Promise!Init
  BY <1>2, <1>4, <1>5 DEF Promise!Init, Live, HeldMap, HeldOf, FreshMap, FreshOf
<1> QED
  BY <1>1, <1>6 DEF WantInv

\* Memory libc takes, and steps that change nothing, move no region.
LEMMA ElsewhereMaps ==
  ASSUME UNCHANGED vars \/ LibcSbrk
  PROVE  UNCHANGED Promise!vars
<1>1. UNCHANGED <<size, owned, pc, op, sz, ptr, block>>
  BY DEF LibcSbrk, vars, heap, header, frame
<1> QED
  BY <1>1 DEF Promise!vars, ClientBlocks, Granted, Surrendered, Region

\* Every step maps to a step of the abstract allocator or to none.
LEMMA StepMaps ==
  ASSUME FittingRequests, SafeInv, WantInv, [Next]_vars
  PROVE  [Promise!Next]_Promise!vars
<1>1. SafeInv'
  BY NextSafe
<1>2. ASSUME NEW t \in Threads, Call(t) \/ Work(t)
      PROVE  Promise!Next \/ UNCHANGED Promise!vars
  <2>1. CASE Call(t)
    BY <2>1, CallMaps
  <2>2. CASE \/ LockMalloc(t) \/ FindNext(t) \/ FindFit(t) \/ SplitHeader(t) \/ ReadBreak(t)
             \/ ExtendRefused(t)
    BY <2>2, SearchMaps
  <2>3. CASE Copy(t) \/ Merge(t) \/ Advance(t)
    BY <2>3, CoalesceMaps
  <2>4. CASE SplitSkip(t) \/ SplitLink(t) \/ Extend(t)
    <3>1. Promise!Reserve(t) \/ Promise!Resize(t)
      <4>1. CASE op[t] # "resize"
        BY <1>1, <2>4, <4>1, BlockMaps
      <4>2. CASE op[t] = "resize"
        <5>1. ~Extend(t)
          BY <4>2 DEF Extend, SafeInv, FrameInv, CallOK
        <5> QED
          BY <2>4, <4>2, <5>1, ResizeMaps
      <4> QED
        BY <4>1, <4>2
    <3> QED
      BY <3>1 DEF Promise!Next
  <2>5. CASE UnlockMalloc(t)
    <3>1. Promise!Fail(t) \/ Promise!Grant(t) \/ UNCHANGED Promise!vars
      BY <2>5, UnlockMallocMaps
    <3> QED
      BY <3>1 DEF Promise!Next
  <2>6. CASE LockFree(t)
    <3>1. Promise!Release(t) \/ UNCHANGED Promise!vars
      BY <2>6, LockFreeMaps
    <3> QED
      BY <3>1 DEF Promise!Next
  <2>7. CASE UnlockFree(t)
    <3>1. Promise!Grant(t) \/ UNCHANGED Promise!vars
      BY <2>7, UnlockFreeMaps
    <3> QED
      BY <3>1 DEF Promise!Next
  <2> QED
    BY <1>2, <2>1, <2>2, <2>3, <2>4, <2>5, <2>6, <2>7 DEF Work
<1> QED
  BY <1>2, ElsewhereMaps DEF Next

(* The allocator keeps its promise: every behaviour of the code, as the    *)
(* clients see it, is one of Allocator.  Regions are handed out whole,     *)
(* large enough and apart; my_realloc gives the old one up only when it    *)
(* has a new one, and hands it back untouched when it has none.            *)
THEOREM Implements ==
  ASSUME FittingRequests
  PROVE  Spec => ImplementsAllocator
<1>1. Init => Promise!Init /\ WantInv
  BY InitMaps
<1>2. SafeInv /\ WantInv /\ [Next]_vars => [Promise!Next]_Promise!vars
  BY StepMaps
<1>3. SafeInv /\ WantInv /\ [Next]_vars => WantInv'
  BY WantKept
<1> QED
  BY <1>1, <1>2, <1>3, Safe, PTL DEF Spec, ImplementsAllocator, Promise!Spec

HIDE DEF SizeT, SIZE_MAX, payload, get_block_ptr

-----------------------------------------------------------------------------
(* Sums over a finite set, one element after the other.                    *)

\* F adds up w over the subsets of U with at most n elements.
SumsTo(F, U, w, n) ==
  /\ \A s \in SUBSET U : F[s] \in Nat
  /\ F[{}] = 0
  /\ \A s \in (SUBSET U) \ {{}} :
       Cardinality(s) <= n => F[s] = w[CHOOSE x \in s : TRUE] + F[s \ {CHOOSE x \in s : TRUE}]

\* There is such a function.
LEMMA SumsExist ==
  ASSUME NEW U, IsFiniteSet(U), NEW w, \A x \in U : w[x] \in Nat
  PROVE  \A n \in Nat : \E F \in [SUBSET U -> Nat] : SumsTo(F, U, w, n)
<1>1. PICK G : G = {n \in Nat : \E F \in [SUBSET U -> Nat] : SumsTo(F, U, w, n)}
  OBVIOUS
<1>2. \A s \in SUBSET U : IsFiniteSet(s) /\ Cardinality(s) \in Nat
  BY FS_Subset, FS_CardinalityType
<1>3. \A s \in (SUBSET U) \ {{}} : Cardinality(s) # 0
  BY <1>2, FS_EmptySet
<1>4. 0 \in G
  <2>1. PICK F : F = [s \in SUBSET U |-> 0]
    OBVIOUS
  <2>2. \A s \in (SUBSET U) \ {{}} : ~(Cardinality(s) <= 0)
    BY <1>2, <1>3
  <2>3. SumsTo(F, U, w, 0)
    BY <2>1, <2>2 DEF SumsTo
  <2> QED
    BY <1>1, <2>1, <2>3
<1>5. ASSUME NEW n \in Nat, n \in G
      PROVE  n + 1 \in G
  <2>1. PICK F \in [SUBSET U -> Nat] : SumsTo(F, U, w, n)
    BY <1>1, <1>5
  <2>2. PICK c : c = [s \in (SUBSET U) \ {{}} |-> CHOOSE x \in s : TRUE]
    OBVIOUS
  <2>3. \A s \in (SUBSET U) \ {{}} : c[s] \in s /\ c[s] = CHOOSE x \in s : TRUE
    BY <2>2
  <2>4. PICK H : H = [s \in SUBSET U |-> IF s = {} \/ Cardinality(s) <= n THEN F[s]
                                         ELSE w[c[s]] + F[s \ {c[s]}]]
    OBVIOUS
  <2>5. \A s \in SUBSET U : H[s] \in Nat
    <3> SUFFICES ASSUME NEW s \in SUBSET U PROVE H[s] \in Nat
      OBVIOUS
    <3>1. CASE s = {} \/ Cardinality(s) <= n
      BY <2>4, <3>1
    <3>2. CASE ~(s = {} \/ Cardinality(s) <= n)
      <4>1. c[s] \in U /\ s \ {c[s]} \in SUBSET U
        BY <2>3, <3>2
      <4>2. w[c[s]] \in Nat /\ F[s \ {c[s]}] \in Nat
        BY <4>1
      <4> QED
        BY <2>4, <3>2, <4>2
    <3> QED
      BY <3>1, <3>2
  <2>6. H[{}] = 0
    BY <2>1, <2>4 DEF SumsTo
  <2>7. ASSUME NEW s \in (SUBSET U) \ {{}}, Cardinality(s) <= n + 1
        PROVE  H[s] = w[c[s]] + H[s \ {c[s]}]
    <3>1. c[s] \in s /\ s \ {c[s]} \in SUBSET U
      BY <2>3
    <3>2. Cardinality(s \ {c[s]}) = Cardinality(s) - 1
      BY <1>2, <3>1, FS_RemoveElement
    <3>3. H[s \ {c[s]}] = F[s \ {c[s]}]
      <4>1. Cardinality(s \ {c[s]}) <= n
        BY <1>2, <2>7, <3>2
      <4> QED
        BY <2>4, <3>1, <4>1
    <3>4. CASE Cardinality(s) <= n
      <4>1. F[s] = w[c[s]] + F[s \ {c[s]}]
        BY <2>1, <2>3, <3>4 DEF SumsTo
      <4>2. H[s] = F[s]
        BY <2>4, <3>4
      <4> QED
        BY <3>3, <4>1, <4>2
    <3>5. CASE ~(Cardinality(s) <= n)
      BY <2>4, <3>3, <3>5
    <3> QED
      BY <3>4, <3>5
  <2>8. SumsTo(H, U, w, n + 1)
    BY <2>3, <2>5, <2>6, <2>7 DEF SumsTo
  <2>9. H \in [SUBSET U -> Nat]
    BY <2>4, <2>5
  <2> QED
    BY <1>1, <2>8, <2>9
<1>6. Nat \subseteq G
  BY <1>4, <1>5, NatSteps
<1> QED
  BY <1>1, <1>6

\* Whichever element comes first.
AnyOrder(F, U, w) == \A s \in SUBSET U : \A x \in s : F[s] = w[x] + F[s \ {x}]

\* The order does not matter.
LEMMA SumsAnyOrder ==
  ASSUME NEW U, IsFiniteSet(U), NEW w, \A x \in U : w[x] \in Nat,
         NEW F, SumsTo(F, U, w, Cardinality(U))
  PROVE  AnyOrder(F, U, w)
<1>1. PICK N : N = Cardinality(U)
  OBVIOUS
<1>2. \A s \in SUBSET U : IsFiniteSet(s) /\ Cardinality(s) \in Nat /\ Cardinality(s) <= N
  BY <1>1, FS_Subset, FS_CardinalityType
<1>3. \A s \in SUBSET U : F[s] \in Nat
  BY DEF SumsTo
<1>4. \A s \in SUBSET U : \A x \in s : Cardinality(s \ {x}) = Cardinality(s) - 1
  BY <1>2, FS_RemoveElement
<1>5. PICK G : G = {n \in Nat : \A s \in SUBSET U : Cardinality(s) = n =>
                                  \A x \in s : F[s] = w[x] + F[s \ {x}]}
  OBVIOUS
<1>6. 0 \in G
  <2>1. \A s \in SUBSET U : Cardinality(s) = 0 => s = {}
    BY <1>2, FS_EmptySet
  <2> QED
    BY <1>5, <2>1
<1>7. ASSUME NEW n \in Nat, n \in G
      PROVE  n + 1 \in G
  <2>1. \A q \in SUBSET U : Cardinality(q) = n => \A y \in q : F[q] = w[y] + F[q \ {y}]
    BY <1>5, <1>7
  <2>2. ASSUME NEW s \in SUBSET U, Cardinality(s) = n + 1, NEW x \in s
        PROVE  F[s] = w[x] + F[s \ {x}]
    <3>1. PICK c \in s : c = CHOOSE y \in s : TRUE
      OBVIOUS
    <3>2. F[s] = w[c] + F[s \ {c}]
      BY <1>1, <1>2, <3>1 DEF SumsTo
    <3>3. CASE x = c
      BY <3>2, <3>3
    <3>4. CASE x # c
      <4>1. s \ {x} \in SUBSET U /\ s \ {c} \in SUBSET U /\ x \in s \ {c} /\ c \in s \ {x}
        BY <3>4
      <4>2. Cardinality(s \ {x}) = n /\ Cardinality(s \ {c}) = n
        BY <1>4, <2>2
      <4>3. PICK r : r = s \ {x, c}
        OBVIOUS
      <4>4. (s \ {c}) \ {x} = r /\ (s \ {x}) \ {c} = r /\ r \in SUBSET U
        BY <4>3
      <4>5. F[s \ {c}] = w[x] + F[r]
        BY <2>1, <4>1, <4>2, <4>4
      <4>6. F[s \ {x}] = w[c] + F[r]
        <5>1. PICK q : q = s \ {x}
          OBVIOUS
        <5>2. F[q] = w[c] + F[q \ {c}]
          BY <2>1, <4>1, <4>2, <5>1
        <5> QED
          BY <4>4, <5>1, <5>2
      <4>7. w[x] \in Nat /\ w[c] \in Nat /\ F[r] \in Nat
        BY <1>3, <4>4
      <4> QED
        BY <3>2, <4>5, <4>6, <4>7
    <3> QED
      BY <3>3, <3>4
  <2> QED
    BY <1>5, <2>2
<1>8. Nat \subseteq G
  BY <1>6, <1>7, NatSteps
<1> QED
  BY <1>2, <1>5, <1>8 DEF AnyOrder

\* The recursive definition of a sum determines a sum.
LEMMA SumsType ==
  ASSUME NEW U, IsFiniteSet(U), NEW w, \A x \in U : w[x] \in Nat,
         NEW F, F = [s \in SUBSET U |-> IF s = {} THEN 0
                                        ELSE w[CHOOSE x \in s : TRUE] + F[s \ {CHOOSE x \in s : TRUE}]]
  PROVE  SumsTo(F, U, w, Cardinality(U))
<1>1. F[{}] = 0
  OBVIOUS
<1>2. \A s \in SUBSET U : IsFiniteSet(s) /\ Cardinality(s) \in Nat
  BY FS_Subset, FS_CardinalityType
<1>3. PICK G : G = {n \in Nat : \A s \in SUBSET U : Cardinality(s) = n => F[s] \in Nat}
  OBVIOUS
<1>4. 0 \in G
  <2>1. \A s \in SUBSET U : Cardinality(s) = 0 => s = {}
    BY <1>2, FS_EmptySet
  <2> QED
    BY <1>1, <1>3, <2>1
<1>5. ASSUME NEW n \in Nat, n \in G
      PROVE  n + 1 \in G
  <2>1. ASSUME NEW s \in SUBSET U, Cardinality(s) = n + 1
        PROVE  F[s] \in Nat
    <3>1. CASE s = {}
      BY <1>1, <3>1
    <3>2. CASE s # {}
      <4>1. PICK c \in s : c = CHOOSE x \in s : TRUE
        BY <3>2
      <4>2. F[s] = w[c] + F[s \ {c}]
        BY <3>2, <4>1
      <4>3. s \ {c} \in SUBSET U /\ Cardinality(s \ {c}) = Cardinality(s) - 1
        BY <1>2, <4>1, FS_RemoveElement
      <4>4. F[s \ {c}] \in Nat
        <5>1. Cardinality(s \ {c}) = n
          BY <2>1, <4>3
        <5>2. \A q \in SUBSET U : Cardinality(q) = n => F[q] \in Nat
          BY <1>3, <1>5
        <5> QED
          BY <4>3, <5>1, <5>2
      <4> QED
        BY <4>1, <4>2, <4>4
    <3> QED
      BY <3>1, <3>2
  <2> QED
    BY <1>3, <2>1
<1>6. Nat \subseteq G
  BY <1>4, <1>5, NatSteps
<1>7. \A s \in SUBSET U : F[s] \in Nat
  BY <1>2, <1>3, <1>6
<1>8. \A s \in (SUBSET U) \ {{}} :
        F[s] = w[CHOOSE x \in s : TRUE] + F[s \ {CHOOSE x \in s : TRUE}]
  OBVIOUS
<1> QED
  BY <1>1, <1>7, <1>8 DEF SumsTo

\* MapThenSumSet adds up every element of the set, in any order.
LEMMA SizesAddUp ==
  ASSUME NEW U, IsFiniteSet(U), \A x \in U : size[x] \in Nat
  PROVE  \E F : /\ F[{}] = 0
                /\ \A s \in SUBSET U : F[s] \in Nat
                /\ \A s \in SUBSET U : \A x \in s : F[s] = size[x] + F[s \ {x}]
                /\ MapThenSumSet(LAMBDA b : size[b], U) = F[U]
<1>1. PICK n : n = Cardinality(U)
  OBVIOUS
<1>2. PICK H \in [SUBSET U -> Nat] : SumsTo(H, U, size, n)
  BY <1>1, SumsExist, FS_CardinalityType
<1>3. H = [s \in SUBSET U |-> IF s = {} THEN 0
                              ELSE size[CHOOSE x \in s : TRUE] + H[s \ {CHOOSE x \in s : TRUE}]]
  <2>1. \A s \in SUBSET U : Cardinality(s) <= n
    BY <1>1, FS_Subset
  <2>2. \A s \in SUBSET U :
          H[s] = IF s = {} THEN 0
                 ELSE size[CHOOSE x \in s : TRUE] + H[s \ {CHOOSE x \in s : TRUE}]
    BY <1>2, <2>1 DEF SumsTo
  <2> QED
    BY <2>2
<1> DEFINE Adds(f) == f = [s \in SUBSET U |->
                             IF s = {} THEN 0
                             ELSE size[CHOOSE x \in s : TRUE] + f[s \ {CHOOSE x \in s : TRUE}]]
<1>4. PICK F : F = CHOOSE f : Adds(f)
  OBVIOUS
<1>5. Adds(F)
  <2>1. Adds(H)
    BY <1>3
  <2> HIDE DEF Adds
  <2> QED
    BY <1>4, <2>1
<1>6. SumsTo(F, U, size, n)
  BY <1>1, <1>5, SumsType
<1>7. \A s \in SUBSET U : \A x \in s : F[s] = size[x] + F[s \ {x}]
  <2>1. SumsTo(F, U, size, Cardinality(U))
    BY <1>1, <1>6
  <2> HIDE DEF Adds
  <2>2. AnyOrder(F, U, size)
    BY <2>1, SumsAnyOrder
  <2> QED
    BY <2>2 DEF AnyOrder
<1>8. MapThenSumSet(LAMBDA b : size[b], U) = F[U]
  BY <1>4 DEF MapThenSumSet, MapThenFoldSet
<1> QED
  BY <1>6, <1>7, <1>8 DEF SumsTo

-----------------------------------------------------------------------------
(* The walks over the list.                                                *)

\* What holds of a block when it holds of its successor holds of every block.
LEMMA ListInduction ==
  ASSUME TypeOK, ListThreadsBlocks,
         NEW G, NULL \in G, \A b \in blocks : next[b] \in G => b \in G
  PROVE  blocks \subseteq G
<1> USE HeapAssumption
<1> SUFFICES ASSUME blocks \ G # {} PROVE FALSE
  OBVIOUS
<1>1. \A b \in blocks : b \in Nat /\ b <= BrkLimit
  BY DEF TypeOK
<1>2. PICK T : T = {BrkLimit - b : b \in blocks \ G}
  OBVIOUS
<1>3. T \subseteq Nat /\ T # {}
  BY <1>1, <1>2
<1>4. PICK m \in T : \A k \in T : m <= k
  BY <1>3, NatLeast
<1>5. PICK b \in blocks \ G : m = BrkLimit - b
  BY <1>2
<1>6. next[b] \in blocks \ G /\ b < next[b]
  BY DEF ListThreadsBlocks, NextInOrder
<1>7. BrkLimit - next[b] \in T
  BY <1>2, <1>6
<1> QED
  BY <1>1, <1>4, <1>5, <1>6, <1>7

\* The blocks behind a block are those behind it in the list.
LEMMA BlocksBehind ==
  ASSUME TypeOK, ListThreadsBlocks, NEW U \in SUBSET blocks, NEW b \in blocks
  PROVE  {c \in U : b <= c} \ {b} = IF next[b] = NULL THEN {} ELSE {c \in U : next[b] <= c}
<1>1. b \in Nat /\ \A c \in blocks : c \in Nat
  BY HeapAssumption DEF TypeOK
<1>2. NextInOrder(b)
  BY DEF ListThreadsBlocks
<1>3. CASE next[b] = NULL
  <2>1. NULL \notin blocks
    BY HeapAssumption DEF TypeOK
  <2>2. \A c \in blocks : c <= b
    BY <1>2, <1>3, <2>1 DEF NextInOrder
  <2>3. \A c \in U : b <= c => c = b
    BY <1>1, <2>2
  <2>4. {c \in U : b <= c} \ {b} = {}
    BY <2>3
  <2> QED
    BY <1>3, <2>4
<1>4. CASE next[b] # NULL
  <2>1. next[b] \in blocks /\ b < next[b] /\ \A c \in blocks : c <= b \/ next[b] <= c
    BY <1>2, <1>4 DEF NextInOrder
  <2>2. \A c \in U : b <= c /\ c # b <=> next[b] <= c
    <3>1. PICK n \in blocks : n = next[b]
      BY <2>1
    <3>2. n \in Nat /\ b < n /\ \A c \in blocks : c <= b \/ n <= c
      BY <1>1, <2>1, <3>1
    <3>3. \A c \in U : b <= c /\ c # b <=> n <= c
      BY <1>1, <3>2
    <3> QED
      BY <3>1, <3>3
  <2>3. {c \in U : b <= c} \ {b} = {c \in U : next[b] <= c}
    BY <2>2
  <2> QED
    BY <1>4, <2>3
<1> QED
  BY <1>3, <1>4

\* The blocks are finitely many.
LEMMA BlocksFinite ==
  ASSUME TypeOK, NEW U \in SUBSET blocks
  PROVE  IsFiniteSet(U) /\ Cardinality(U) \in Nat /\ NULL \notin blocks
<1>1. \A c \in U : c \in Nat /\ c <= BrkLimit
  BY HeapAssumption DEF TypeOK
<1>2. IsFiniteSet(U)
  BY <1>1, HeapAssumption, FS_BoundedSetOfNaturals
<1>3. NULL \notin blocks
  BY HeapAssumption DEF TypeOK
<1> QED
  BY <1>2, <1>3, FS_CardinalityType

\* allocator_leaked_bytes adds up the blocks in use.
LEMMA LeakedSum ==
  ASSUME TypeOK, ListThreadsBlocks
  PROVE  allocator_leaked_bytes = MapThenSumSet(LAMBDA b : size[b], InUse)
<1>1. InUse \in SUBSET blocks /\ IsFiniteSet(InUse) /\ NULL \notin blocks
  BY BlocksFinite DEF InUse
<1>2. \A b \in blocks : size[b] \in Nat /\ b \in Nat /\ free[b] \in BOOLEAN
  BY HeapAssumption, IntptrMaxAssumption DEF TypeOK, SizeT, SIZE_MAX
<1>3. PICK F : /\ F[{}] = 0
               /\ \A s \in SUBSET InUse : F[s] \in Nat
               /\ \A s \in SUBSET InUse : \A x \in s : F[s] = size[x] + F[s \ {x}]
               /\ MapThenSumSet(LAMBDA b : size[b], InUse) = F[InUse]
  BY <1>1, <1>2, SizesAddUp DEF InUse
<1>4. PICK H : H = [b \in blocks \cup {NULL} |-> IF b = NULL THEN 0 ELSE F[{c \in InUse : b <= c}]]
  OBVIOUS
<1>5. \A b \in blocks : b # NULL /\ next[b] \in blocks \cup {NULL}
  BY <1>1 DEF ListThreadsBlocks, NextInOrder
<1>6. H[NULL] = 0 /\ \A b \in blocks : H[b] = F[{c \in InUse : b <= c}]
  BY <1>4, <1>5
<1>7. ASSUME NEW b \in blocks
      PROVE  H[b] = H[next[b]] + (IF free[b] THEN 0 ELSE size[b])
  <2>1. PICK s \in SUBSET InUse : s = {c \in InUse : b <= c}
    OBVIOUS
  <2>2. PICK r : r = IF next[b] = NULL THEN {} ELSE {c \in InUse : next[b] <= c}
    OBVIOUS
  <2>3. s \ {b} = r /\ r \in SUBSET InUse
    BY <1>1, <2>1, <2>2, BlocksBehind
  <2>4. H[next[b]] = F[r]
    BY <1>3, <1>5, <1>6, <2>2
  <2>5. F[r] \in Nat
    BY <1>3, <2>3
  <2>6. CASE free[b]
    <3>1. s = r
      BY <2>1, <2>3, <2>6 DEF InUse
    <3> QED
      BY <1>6, <2>1, <2>4, <2>5, <2>6, <3>1
  <2>7. CASE ~free[b]
    <3>1. b \in s
      BY <1>2, <2>1, <2>7 DEF InUse
    <3>2. F[s] = size[b] + F[r]
      BY <1>3, <2>3, <3>1
    <3> QED
      BY <1>2, <1>6, <2>1, <2>4, <2>5, <2>7, <3>2
  <2> QED
    BY <2>6, <2>7
<1>8. H = [b \in blocks \cup {NULL} |-> IF b = NULL THEN 0
                                        ELSE H[next[b]] + IF free[b] THEN 0 ELSE size[b]]
  <2>1. \A b \in blocks \cup {NULL} : H[b] = IF b = NULL THEN 0
                                             ELSE H[next[b]] + IF free[b] THEN 0 ELSE size[b]
    BY <1>5, <1>6, <1>7
  <2> QED
    BY <1>4, <2>1
<1>9. PICK L : L = CHOOSE f : f = [b \in blocks \cup {NULL} |->
                                     IF b = NULL THEN 0
                                     ELSE f[next[b]] + IF free[b] THEN 0 ELSE size[b]]
  OBVIOUS
<1>10. L = [b \in blocks \cup {NULL} |-> IF b = NULL THEN 0
                                         ELSE L[next[b]] + IF free[b] THEN 0 ELSE size[b]]
  BY <1>8, <1>9
<1>11. L[NULL] = 0 /\ \A b \in blocks : L[b] = L[next[b]] + IF free[b] THEN 0 ELSE size[b]
  BY <1>5, <1>10
<1>12. \A b \in blocks : L[b] = H[b]
  <2>1. PICK G : G = {b \in blocks \cup {NULL} : L[b] = H[b]}
    OBVIOUS
  <2>2. NULL \in G
    BY <1>6, <1>11, <2>1
  <2>3. \A b \in blocks : next[b] \in G => b \in G
    BY <1>7, <1>11, <2>1
  <2>4. blocks \subseteq G
    BY <2>2, <2>3, ListInduction
  <2> QED
    BY <2>1, <2>4
<1>13. allocator_leaked_bytes = L[global_base]
  BY <1>9 DEF allocator_leaked_bytes
<1>14. CASE global_base = NULL
  <2>1. InUse = {}
    BY <1>14 DEF ListThreadsBlocks, InUse
  <2> QED
    BY <1>3, <1>11, <1>13, <1>14, <2>1
<1>15. CASE global_base # NULL
  <2>1. global_base \in blocks /\ \A b \in blocks : global_base <= b
    BY <1>15 DEF ListThreadsBlocks
  <2>2. {c \in InUse : global_base <= c} = InUse
    BY <2>1 DEF InUse
  <2> QED
    BY <1>3, <1>6, <1>12, <1>13, <2>1, <2>2
<1> QED
  BY <1>14, <1>15

\* allocator_block_count counts the blocks.
LEMMA CountExact ==
  ASSUME TypeOK, ListThreadsBlocks
  PROVE  allocator_block_count = Cardinality(blocks)
<1>1. NULL \notin blocks /\ \A b \in blocks : b \in Nat
  BY BlocksFinite, HeapAssumption DEF TypeOK
<1>2. \A s \in SUBSET blocks : IsFiniteSet(s) /\ Cardinality(s) \in Nat
  BY BlocksFinite
<1>3. PICK H : H = [b \in blocks \cup {NULL} |->
                      IF b = NULL THEN 0 ELSE Cardinality({c \in blocks : b <= c})]
  OBVIOUS
<1>4. \A b \in blocks : b # NULL /\ next[b] \in blocks \cup {NULL}
  BY <1>1 DEF ListThreadsBlocks, NextInOrder
<1>5. H[NULL] = 0 /\ \A b \in blocks : H[b] = Cardinality({c \in blocks : b <= c})
  BY <1>3, <1>4
<1>6. ASSUME NEW b \in blocks
      PROVE  H[b] = 1 + H[next[b]]
  <2>1. PICK s \in SUBSET blocks : s = {c \in blocks : b <= c}
    OBVIOUS
  <2>2. PICK r : r = IF next[b] = NULL THEN {} ELSE {c \in blocks : next[b] <= c}
    OBVIOUS
  <2>3. s \ {b} = r
    BY <1>1, <2>1, <2>2, BlocksBehind
  <2>4. H[next[b]] = Cardinality(r)
    BY <1>4, <1>5, <2>2, FS_EmptySet
  <2>5. b \in s
    BY <1>1, <2>1
  <2>6. Cardinality(r) = Cardinality(s) - 1
    BY <1>2, <2>3, <2>5, FS_RemoveElement
  <2> QED
    BY <1>2, <1>5, <2>1, <2>4, <2>6
<1> DEFINE Counts(f) == f = [b \in blocks \cup {NULL} |-> IF b = NULL THEN 0 ELSE 1 + f[next[b]]]
<1>7. Counts(H)
  <2>1. \A b \in blocks \cup {NULL} : H[b] = IF b = NULL THEN 0 ELSE 1 + H[next[b]]
    BY <1>4, <1>5, <1>6
  <2> QED
    BY <1>3, <2>1
<1>8. PICK L : L = CHOOSE f : Counts(f)
  OBVIOUS
<1>9. Counts(L)
  <2> HIDE DEF Counts
  <2> QED
    BY <1>7, <1>8
<1>10. L[NULL] = 0 /\ \A b \in blocks : L[b] = 1 + L[next[b]]
  BY <1>4, <1>9
<1>11. \A b \in blocks : L[b] = H[b]
  <2>1. PICK G : G = {b \in blocks \cup {NULL} : L[b] = H[b]}
    OBVIOUS
  <2>2. NULL \in G
    BY <1>5, <1>10, <2>1
  <2>3. \A b \in blocks : next[b] \in G => b \in G
    BY <1>6, <1>10, <2>1
  <2>4. blocks \subseteq G
    BY <2>2, <2>3, ListInduction
  <2> QED
    BY <2>1, <2>4
<1>12. allocator_block_count = L[global_base]
  BY <1>8 DEF allocator_block_count
<1>13. CASE global_base = NULL
  <2>1. blocks = {}
    BY <1>13 DEF ListThreadsBlocks
  <2> QED
    BY <1>10, <1>12, <1>13, <2>1, FS_EmptySet
<1>14. CASE global_base # NULL
  <2>1. global_base \in blocks /\ \A b \in blocks : global_base <= b
    BY <1>14 DEF ListThreadsBlocks
  <2>2. {c \in blocks : global_base <= c} = blocks
    BY <2>1
  <2> QED
    BY <1>5, <1>11, <1>12, <2>1, <2>2
<1> QED
  BY <1>13, <1>14

-----------------------------------------------------------------------------
(* What they say of the client.                                            *)

\* Between calls the blocks in use are the client's.
LEMMA ClientsOnly ==
  ASSUME SafeInv, Quiescent
  PROVE  InUse = ClientBlocks
<1>1. \A t \in Threads : op[t] = "none"
  BY DEF SafeInv, FrameInv, CallOK, Quiescent
<1>2. \A t \in Threads : Held(t) = {}
  BY <1>1 DEF Held, Granted, Surrendered
<1>3. InUse \subseteq Nat /\ META_SIZE \in Nat
  BY InUseNat, SizesAssumption DEF SafeInv
<1>4. ASSUME NEW b \in InUse
      PROVE  b \in ClientBlocks
  <2>1. payload(b) \in owned
    BY <1>2 DEF SafeInv, HoldInv
  <2>2. get_block_ptr(payload(b)) = b
    BY <1>3 DEF payload, get_block_ptr
  <2> QED
    BY <2>1, <2>2 DEF ClientBlocks
<1>5. ClientBlocks \subseteq InUse
  BY DEF SafeInv, HoldInv, ClientBlocks
<1> QED
  BY <1>4, <1>5

\* With the list whole, the diagnostics are right between calls.
LEMMA DiagnosticsRight ==
  ASSUME SafeInv, ListThreadsBlocks, Quiescent
  PROVE  /\ allocator_leaked_bytes = MapThenSumSet(LAMBDA b : size[b], ClientBlocks)
         /\ allocator_block_count = Cardinality(blocks)
<1>1. TypeOK
  BY DEF SafeInv
<1> QED
  BY <1>1, LeakedSum, CountExact, ClientsOnly

(* With serialised calls, allocator_leaked_bytes is what the client still  *)
(* owns and allocator_block_count misses no block, whatever the heap.      *)
THEOREM DiagnosticsCorrect ==
  ASSUME FittingRequests, Serialised
  PROVE  Spec => []DiagnosticsExact
<1>1. SerialisedInv => DiagnosticsExact
  BY DiagnosticsRight DEF SerialisedInv, SerialInv, ListInv, DiagnosticsExact
<1> QED
  BY <1>1, SerialisedSafe, PTL

(* With any calls, the same until a split without the lock has met an      *)
(* append behind the block it splits.                                      *)
THEOREM DiagnosticsUntilCollision ==
  ASSUME FittingRequests
  PROVE  HSpec => []DiagnosticsKept
<1>1. HistoryInv => DiagnosticsKept
  BY DiagnosticsRight DEF HistoryInv, ListInv, DiagnosticsExact, DiagnosticsKept
<1> QED
  BY <1>1, HistorySafe, PTL

=============================================================================
