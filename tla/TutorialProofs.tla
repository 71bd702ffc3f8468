--------------------------- MODULE TutorialProofs ---------------------------
(***************************************************************************)
(* Proofs about Tutorial for every number of threads, every size of the    *)
(* header and every limit of the heap: first what holds whoever calls,     *)
(* then what holds when one thread does.                                   *)
(***************************************************************************)
EXTENDS TutorialInv, SizeTProofs

USE DEF SizeT, SIZE_MAX, Addr, NULL, payload, get_block_ptr

USE IntptrMaxAssumption, ChoicesAssumption, SizesAssumption, HeapAssumption

\* The invariant holds when the process starts.
LEMMA InitLayout == Init => LayoutInv
<1> SUFFICES ASSUME Init PROVE LayoutInv
  OBVIOUS
<1>1. TypeOK
  BY DEF Init, TypeOK, PCs
<1>2. BlocksDisjoint
  BY DEF Init, BlocksDisjoint
<1>3. ASSUME NEW t \in Threads
      PROVE  ReservedOK(t) /\ CallOK(t) /\ LocalsOK(t)
  BY DEF Init, ReservedOK, HasReserved, CallOK, LocalsOK
<1> QED
  BY <1>1, <1>2, <1>3 DEF LayoutInv

-----------------------------------------------------------------------------
\* The variables that hold addresses and sizes hold numbers.
LEMMA Typed ==
  ASSUME TypeOK
  PROVE  /\ brk \in Nat /\ global_base \in Nat
         /\ \A t \in Threads :
              cur[t] \in Nat /\ last[t] \in Nat /\ block[t] \in Nat /\ sz[t] \in Nat
         /\ \A a \in Addr : a \in Nat /\ next[a] \in Nat /\ size[a] \in Nat
<1>1. Addr \cup {NULL} \subseteq Nat /\ SizeT \subseteq Nat
  OBVIOUS
<1> HIDE DEF Addr, NULL, SizeT
<1> QED
  BY <1>1 DEF TypeOK

(* Steps of one thread and the frames of the others.                       *)

SameFrame(u) ==
  /\ pc'[u] = pc[u] /\ op'[u] = op[u] /\ sz'[u] = sz[u] /\ len'[u] = len[u] /\ ptr'[u] = ptr[u]
  /\ cur'[u] = cur[u] /\ last'[u] = last[u] /\ block'[u] = block[u]

\* A step moves one thread.
LEMMA OneMoves ==
  ASSUME TypeOK, NEW t \in Threads, Call(t) \/ Work(t), NEW u \in Threads \ {t}
  PROVE  SameFrame(u)
<1> USE DEF TypeOK, SameFrame, Goto, args
<1>1. CASE CallMalloc(t)
  BY <1>1 DEF CallMalloc, EnterMalloc, Enter
<1>2. CASE CallCalloc(t)
  BY <1>2 DEF CallCalloc, EnterMalloc, Enter
<1>3. CASE CallFree(t)
  BY <1>3 DEF CallFree, Enter
<1>4. CASE CallRealloc(t)
  <2>1. PICK v \in Threads, s \in Requests :
          \E p \in owned[v] : ReallocInPlace(t, v, p, s) \/ ReallocMove(t, v, p, s)
    BY <1>4 DEF CallRealloc
  <2>2. PICK p \in owned[v] : ReallocInPlace(t, v, p, s) \/ ReallocMove(t, v, p, s)
    BY <2>1
  <2>3. block' = block
    BY <1>4 DEF CallRealloc
  <2>4. CASE ReallocInPlace(t, v, p, s)
    BY <2>3, <2>4 DEF ReallocInPlace
  <2>5. CASE ReallocMove(t, v, p, s)
    BY <2>3, <2>5 DEF ReallocMove, EnterMalloc, Enter
  <2> QED
    BY <2>2, <2>4, <2>5
<1>5. CASE CallNoFree(t)
  BY <1>5 DEF CallNoFree, Enter
<1>6. CASE Test(t)
  BY <1>6 DEF Test
<1>7. CASE Step(t)
  BY <1>7 DEF Step
<1>8. CASE Claim(t)
  BY <1>8 DEF Claim
<1>9. CASE Reuse(t)
  BY <1>9 DEF Reuse
<1>10. CASE ReadBreak(t)
  BY <1>10 DEF ReadBreak
<1>11. CASE Extend(t)
  BY <1>11 DEF Extend
<1>12. CASE Refuse(t)
  BY <1>12 DEF Refuse
<1>13. CASE Link(t)
  BY <1>13 DEF Link
<1>14. CASE Header(t)
  BY <1>14 DEF Header
<1>15. CASE Base(t)
  BY <1>15 DEF Base
<1>16. CASE ReturnNull(t)
  BY <1>16 DEF ReturnNull, Return, Enter
<1>17. CASE ReturnBlock(t)
  <2>1. CASE \E ps : Return(t, ps)
    BY <2>1 DEF Return, Enter
  <2>2. CASE Goto(t, "check") /\ UNCHANGED <<client, args, cur, last, block>>
    BY <2>2 DEF client
  <2> QED
    BY <1>17, <2>1, <2>2 DEF ReturnBlock
<1>18. CASE Assertions(t)
  BY <1>18 DEF Assertions
<1>19. CASE MarkFree(t)
  BY <1>19 DEF MarkFree
<1>20. CASE StampFree(t)
  BY <1>20 DEF StampFree, Return, Enter
<1> QED
  BY <1>1, <1>2, <1>3, <1>4, <1>5, <1>6, <1>7, <1>8, <1>9, <1>10, <1>11, <1>12,
     <1>13, <1>14, <1>15, <1>16, <1>17, <1>18, <1>19, <1>20
  DEF Call, Work

\* What sbrk() gave to u is what it was before the step, or was used.
KeepsReserved(u) ==
  HasReserved(u)' => HasReserved(u) /\ block'[u] = block[u] /\ ReservedEnd(u)' = ReservedEnd(u)

\* The frame of a thread that does not move stays consistent, for the break
\* never moves back.
LEMMA OthersKeepFrame ==
  ASSUME LayoutInv, NEW u \in Threads, SameFrame(u), brk \in Nat, brk' \in Nat, brk <= brk'
  PROVE  CallOK(u)' /\ LocalsOK(u)'
<1>1. CallOK(u) /\ LocalsOK(u) /\ block[u] \in Nat
  <2>1. CallOK(u) /\ LocalsOK(u)
    BY DEF LayoutInv
  <2>2. block \in [Threads -> Addr \cup {NULL}]
    BY DEF LayoutInv, TypeOK
  <2> QED
    BY <2>1, <2>2
<1>2. CallOK(u)'
  BY <1>1 DEF CallOK, SameFrame
<1>3. LocalsOK(u)'
  BY <1>1 DEF LocalsOK, SameFrame
<1> QED
  BY <1>2, <1>3

\* What a thread that does not move was given stays its own.
LEMMA SameKeepsReserved ==
  ASSUME NEW u \in Threads, SameFrame(u)
  PROVE  KeepsReserved(u)
BY DEF SameFrame, KeepsReserved, HasReserved, ReservedEnd, Extra

(* A step that makes no block, gives nothing away and leaves the break     *)
(* where it is keeps the layout, if it claims no more memory from sbrk().  *)
LEMMA LayoutUntouched ==
  ASSUME LayoutInv, NEW t \in Threads,
         UNCHANGED <<brk, blocks, size, raw>>,
         \A u \in Threads \ {t} : SameFrame(u),
         KeepsReserved(t)
  PROVE  BlocksDisjoint' /\ \A u \in Threads : ReservedOK(u)'
<1>1. BlocksDisjoint'
  BY DEF LayoutInv, BlocksDisjoint, BlockEnd
<1>2. \A u \in Threads : KeepsReserved(u)
  BY SameKeepsReserved
<1>3. ASSUME NEW u \in Threads
      PROVE  ReservedOK(u)'
  BY <1>2, <1>3 DEF LayoutInv, ReservedOK, KeepsReserved, BlockEnd
<1> QED
  BY <1>1, <1>3

(* The whole invariant after such a step, from what it does to the frame   *)
(* of the thread that moves.                                               *)
LEMMA FrameStep ==
  ASSUME LayoutInv, NEW t \in Threads,
         UNCHANGED <<brk, blocks, size, raw>>,
         \A u \in Threads \ {t} : SameFrame(u),
         KeepsReserved(t), TypeOK', CallOK(t)', LocalsOK(t)'
  PROVE  LayoutInv'
<1>1. BlocksDisjoint' /\ \A u \in Threads : ReservedOK(u)'
  BY LayoutUntouched
<1>2. brk \in Nat /\ brk' \in Nat /\ brk <= brk'
  BY DEF LayoutInv, TypeOK
<1>3. \A u \in Threads \ {t} : CallOK(u)' /\ LocalsOK(u)'
  BY <1>2, OthersKeepFrame
<1> QED
  BY <1>1, <1>3 DEF LayoutInv

-----------------------------------------------------------------------------
(* Types of the frame after a call enters malloc, and after it returns.    *)

Ops == {"none", "malloc", "nofree", "realloc", "free"}

FrameTypes ==
  /\ pc \in [Threads -> PCs]
  /\ op \in [Threads -> Ops]
  /\ sz \in [Threads -> SizeT]
  /\ len \in [Threads -> Nat]
  /\ ptr \in [Threads -> Nat]
  /\ cur \in [Threads -> Addr \cup {NULL}]
  /\ last \in [Threads -> Addr \cup {NULL}]

\* malloc enters find_free_block or request_space with a typed frame.
LEMMA EnterMallocTyped ==
  ASSUME TypeOK, NEW t \in Threads, NEW o \in Ops, NEW s \in SizeT, NEW n \in Nat,
         NEW p \in Nat, EnterMalloc(t, o, s, n, p)
  PROVE  FrameTypes'
BY DEF TypeOK, FrameTypes, EnterMalloc, Enter, Goto, PCs, Ops

\* A return pops the frame and hands out pointers to payloads.
LEMMA ReturnTyped ==
  ASSUME TypeOK, NEW t \in Threads, NEW ps \in SUBSET {payload(b) : b \in Addr},
         Return(t, ps)
  PROVE  /\ FrameTypes'
         /\ block' \in [Threads -> Addr \cup {NULL}]
         /\ owned' \in [Threads -> SUBSET {payload(b) : b \in Addr}]
<1>1. FrameTypes' /\ block' \in [Threads -> Addr \cup {NULL}]
  <2>1. pc' \in [Threads -> PCs] /\ op' \in [Threads -> Ops]
    BY DEF TypeOK, Return, Enter, Goto, PCs, Ops
  <2>2. 0 \in SizeT /\ 0 \in Nat /\ NULL \in Nat
    OBVIOUS
  <2> HIDE DEF SizeT, Addr, NULL
  <2>3. /\ sz' \in [Threads -> SizeT]
        /\ len' \in [Threads -> Nat]
        /\ ptr' \in [Threads -> Nat]
    BY <2>2 DEF TypeOK, Return, Enter
  <2>4. /\ cur' \in [Threads -> Addr \cup {NULL}]
        /\ last' \in [Threads -> Addr \cup {NULL}]
        /\ block' \in [Threads -> Addr \cup {NULL}]
    BY DEF TypeOK, Return
  <2> QED
    BY <2>1, <2>3, <2>4 DEF FrameTypes
<1>2. owned' \in [Threads -> SUBSET {payload(b) : b \in Addr}]
  BY DEF TypeOK, Return
<1> QED
  BY <1>1, <1>2

-----------------------------------------------------------------------------
(* The steps that neither take memory nor make a block.                    *)

\* malloc starts its search, or goes for the break at once.
LEMMA CallMallocLayout ==
  ASSUME LayoutInv, FittingRequests, NEW t \in Threads, CallMalloc(t)
  PROVE  LayoutInv'
<1>1. TypeOK /\ CallOK(t) /\ LocalsOK(t)
  BY DEF LayoutInv
<1>2. TypeOK'
  <2>1. FrameTypes'
    BY <1>1, EnterMallocTyped DEF CallMalloc, Ops
  <2> QED
    BY <1>1, <2>1 DEF CallMalloc, TypeOK, FrameTypes, Ops, choice, header, client
<1>3. \A u \in Threads \ {t} : SameFrame(u)
  BY <1>1, OneMoves DEF Call
<1>4. KeepsReserved(t)
  BY <1>1 DEF CallMalloc, TypeOK, CallOK, KeepsReserved, HasReserved, ReservedEnd, Extra, Goto, args, EnterMalloc, Enter, MayCall
<1>5. CallOK(t)'
  BY <1>1 DEF CallMalloc, TypeOK, CallOK, Goto, args, EnterMalloc, Enter, MayCall, FittingRequests
<1>6. LocalsOK(t)'
  BY <1>1 DEF CallMalloc, TypeOK, CallOK, LocalsOK, Goto, args, EnterMalloc, Enter, MayCall
<1> QED
  BY <1>2, <1>3, <1>4, <1>5, <1>6, FrameStep DEF CallMalloc, choice, header, client

\* A block that fits is claimed; otherwise the walk goes on.
LEMMA TestOutcome ==
  ASSUME TypeOK, NEW t \in Threads, Test(t)
  PROVE  /\ pc[t] = "test"
         /\ UNCHANGED <<variant, callers, brk, global_base, blocks, size, next, free, magic,
                        raw, owned, op, sz, len, ptr>>
         /\ \/ /\ Fits(cur[t], sz[t]) /\ pc'[t] = "claim" /\ block'[t] = cur[t]
               /\ cur'[t] = NULL /\ last'[t] = NULL
            \/ pc'[t] = "step" /\ UNCHANGED <<cur, last, block>>
<1>1. UNCHANGED <<variant, callers, brk, global_base, blocks, size, next, free, magic,
                  raw, owned, op, sz, len, ptr>>
  BY DEF Test, choice, header, client, args
<1>2. CASE Fits(cur[t], sz[t])
  <2>1. pc'[t] = "claim" /\ block'[t] = cur[t] /\ cur'[t] = NULL /\ last'[t] = NULL
    BY <1>2 DEF Test, TypeOK, Goto
  <2> QED
    BY <1>1, <1>2, <2>1 DEF Test
<1>3. CASE ~Fits(cur[t], sz[t])
  <2>1. pc'[t] = "step" /\ UNCHANGED <<cur, last, block>>
    BY <1>3 DEF Test, TypeOK, Goto
  <2> QED
    BY <1>1, <2>1 DEF Test
<1> QED
  BY <1>2, <1>3

\* find_free_block looks at a block.
LEMMA TestLayout ==
  ASSUME LayoutInv, NEW t \in Threads, Test(t)
  PROVE  LayoutInv'
<1>1. TypeOK /\ CallOK(t) /\ LocalsOK(t)
  BY DEF LayoutInv
<1>2. TypeOK'
  <2>1. pc' \in [Threads -> PCs]
    <3>1. pc \in [Threads -> PCs] /\ "claim" \in PCs /\ "step" \in PCs
      BY <1>1 DEF TypeOK, PCs
    <3> QED
      BY <3>1 DEF Test, Goto
  <2> DEFINE A == Addr \cup {NULL}
  <2>2. /\ NULL \in A
        /\ cur \in [Threads -> A] /\ last \in [Threads -> A] /\ block \in [Threads -> A]
    BY <1>1 DEF TypeOK
  <2> HIDE DEF A
  <2>3. cur' \in [Threads -> A] /\ last' \in [Threads -> A] /\ block' \in [Threads -> A]
    BY <2>2 DEF Test
  <2>4. UNCHANGED <<variant, callers, brk, global_base, blocks, size, next, free, magic,
                    raw, owned, op, sz, len, ptr>>
    BY <1>1, TestOutcome
  <2> HIDE DEF Addr, NULL, SizeT, payload
  <2> QED
    BY <1>1, <2>1, <2>3, <2>4 DEF A, TypeOK
<1>3. \A u \in Threads \ {t} : SameFrame(u)
  BY <1>1, OneMoves DEF Work
<1>4. KeepsReserved(t)
  BY <1>1, TestOutcome DEF CallOK, KeepsReserved, HasReserved
<1>5. CallOK(t)'
  BY <1>1, TestOutcome DEF CallOK
<1>6. LocalsOK(t)'
  BY <1>1, TestOutcome DEF LocalsOK
<1> QED
  BY <1>1, <1>2, <1>3, <1>4, <1>5, <1>6, TestOutcome, FrameStep

\* find_free_block goes on.
LEMMA StepLayout ==
  ASSUME LayoutInv, NEW t \in Threads, Step(t)
  PROVE  LayoutInv'
<1>1. TypeOK /\ CallOK(t) /\ LocalsOK(t)
  BY DEF LayoutInv
<1>2. TypeOK'
  BY <1>1 DEF Step, TypeOK, LocalsOK, PCs, Goto, choice, header, client, args
<1>3. \A u \in Threads \ {t} : SameFrame(u)
  BY <1>1, OneMoves DEF Work
<1>4. KeepsReserved(t)
  BY <1>1 DEF Step, TypeOK, CallOK, KeepsReserved, HasReserved, ReservedEnd, Extra, Goto, args
<1>5. CallOK(t)'
  BY <1>1 DEF Step, TypeOK, CallOK, Goto, args
<1>6. LocalsOK(t)'
  BY <1>1 DEF Step, TypeOK, CallOK, LocalsOK, Goto, args
<1> QED
  BY <1>2, <1>3, <1>4, <1>5, <1>6, FrameStep DEF Step, choice, header, client

\* A block that was found is marked as in use.
LEMMA ClaimLayout ==
  ASSUME LayoutInv, NEW t \in Threads, Claim(t)
  PROVE  LayoutInv'
<1>1. TypeOK /\ CallOK(t) /\ LocalsOK(t)
  BY DEF LayoutInv
<1>2. TypeOK'
  BY <1>1 DEF Claim, TypeOK, CallOK, PCs, Goto, choice, header, client, args
<1>3. \A u \in Threads \ {t} : SameFrame(u)
  BY <1>1, OneMoves DEF Work
<1>4. KeepsReserved(t)
  BY <1>1 DEF Claim, TypeOK, CallOK, KeepsReserved, HasReserved, ReservedEnd, Extra, Goto, args
<1>5. CallOK(t)'
  BY <1>1 DEF Claim, TypeOK, CallOK, Goto, args
<1>6. LocalsOK(t)'
  BY <1>1 DEF Claim, TypeOK, CallOK, LocalsOK, Goto, args
<1> QED
  BY <1>2, <1>3, <1>4, <1>5, <1>6, FrameStep DEF Claim, choice, header, client

\* Its magic is written.
LEMMA ReuseLayout ==
  ASSUME LayoutInv, NEW t \in Threads, Reuse(t)
  PROVE  LayoutInv'
<1>1. TypeOK /\ CallOK(t) /\ LocalsOK(t)
  BY DEF LayoutInv
<1>2. TypeOK'
  BY <1>1 DEF Reuse, TypeOK, CallOK, PCs, Goto, choice, header, client, args
<1>3. \A u \in Threads \ {t} : SameFrame(u)
  BY <1>1, OneMoves DEF Work
<1>4. KeepsReserved(t)
  BY <1>1 DEF Reuse, TypeOK, CallOK, KeepsReserved, HasReserved, ReservedEnd, Extra, Goto, args
<1>5. CallOK(t)'
  BY <1>1 DEF Reuse, TypeOK, CallOK, Goto, args
<1>6. LocalsOK(t)'
  BY <1>1 DEF Reuse, TypeOK, CallOK, LocalsOK, Goto, args
<1> QED
  BY <1>2, <1>3, <1>4, <1>5, <1>6, FrameStep DEF Reuse, choice, header, client

\* sbrk(0).
LEMMA ReadBreakLayout ==
  ASSUME LayoutInv, NEW t \in Threads, ReadBreak(t)
  PROVE  LayoutInv'
<1>1. TypeOK /\ CallOK(t) /\ LocalsOK(t)
  BY DEF LayoutInv
<1>2. TypeOK'
  BY <1>1 DEF ReadBreak, TypeOK, CallOK, PCs, Goto, choice, header, client, args
<1>3. \A u \in Threads \ {t} : SameFrame(u)
  BY <1>1, OneMoves DEF Work
<1>4. KeepsReserved(t)
  BY <1>1 DEF ReadBreak, TypeOK, CallOK, KeepsReserved, HasReserved, ReservedEnd, Extra, Goto, args
<1>5. CallOK(t)'
  BY <1>1 DEF ReadBreak, TypeOK, CallOK, Goto, args
<1>6. LocalsOK(t)'
  BY <1>1 DEF ReadBreak, TypeOK, CallOK, LocalsOK, Goto, args
<1> QED
  BY <1>2, <1>3, <1>4, <1>5, <1>6, FrameStep DEF ReadBreak, choice, header, client

\* The process ends, or there is no block.
LEMMA RefuseOutcome ==
  ASSUME TypeOK, NEW t \in Threads, Refuse(t)
  PROVE  /\ pc[t] = "sbrk"
         /\ UNCHANGED <<variant, callers, brk, global_base, blocks, size, next, free, magic,
                        raw, owned, op, sz, len, ptr, cur, last>>
         /\ \/ pc'[t] = "aborted" /\ block' = block
            \/ pc'[t] = "return" /\ block'[t] = NULL
<1>1. UNCHANGED <<variant, callers, brk, global_base, blocks, size, next, free, magic,
                  raw, owned, op, sz, len, ptr, cur, last>>
  BY DEF Refuse, choice, header, client, args
<1>2. CASE Goto(t, "aborted") /\ UNCHANGED block
  BY <1>1, <1>2 DEF Refuse, TypeOK, Goto
<1>3. CASE Goto(t, "return") /\ block' = [block EXCEPT ![t] = NULL]
  BY <1>1, <1>3 DEF Refuse, TypeOK, Goto
<1> QED
  BY <1>2, <1>3 DEF Refuse

\* sbrk() gives nothing.
LEMMA RefuseLayout ==
  ASSUME LayoutInv, NEW t \in Threads, Refuse(t)
  PROVE  LayoutInv'
<1>1. TypeOK /\ CallOK(t) /\ LocalsOK(t)
  BY DEF LayoutInv
<1>2. TypeOK'
  BY <1>1 DEF Refuse, TypeOK, CallOK, PCs, Goto, choice, header, client, args
<1>3. \A u \in Threads \ {t} : SameFrame(u)
  BY <1>1, OneMoves DEF Work
<1>4. KeepsReserved(t)
  BY <1>1, RefuseOutcome DEF KeepsReserved, HasReserved
<1>5. CallOK(t)'
  BY <1>1, RefuseOutcome DEF CallOK
<1>6. LocalsOK(t)'
  BY <1>1, RefuseOutcome DEF LocalsOK
<1> QED
  BY <1>1, <1>2, <1>3, <1>4, <1>5, <1>6, RefuseOutcome, FrameStep

\* The list leads to what sbrk() gave, which is reserved still.
LEMMA LinkLayout ==
  ASSUME LayoutInv, NEW t \in Threads, Link(t)
  PROVE  LayoutInv'
<1>1. TypeOK /\ CallOK(t) /\ LocalsOK(t)
  BY DEF LayoutInv
<1>2. TypeOK'
  BY <1>1 DEF Link, TypeOK, CallOK, PCs, Goto, choice, header, client, args
<1>3. \A u \in Threads \ {t} : SameFrame(u)
  BY <1>1, OneMoves DEF Work
<1>4. KeepsReserved(t)
  BY <1>1 DEF Link, TypeOK, CallOK, KeepsReserved, HasReserved, ReservedEnd, Extra, Goto, args
<1>5. CallOK(t)'
  BY <1>1 DEF Link, TypeOK, CallOK, Goto, args
<1>6. LocalsOK(t)'
  BY <1>1 DEF Link, TypeOK, CallOK, LocalsOK, Goto, args
<1> QED
  BY <1>2, <1>3, <1>4, <1>5, <1>6, FrameStep DEF Link, choice, header, client

\* The list starts with the block.
LEMMA BaseLayout ==
  ASSUME LayoutInv, NEW t \in Threads, Base(t)
  PROVE  LayoutInv'
<1>1. TypeOK /\ CallOK(t) /\ LocalsOK(t)
  BY DEF LayoutInv
<1>2. TypeOK'
  BY <1>1 DEF Base, TypeOK, CallOK, PCs, Goto, choice, header, client, args
<1>3. \A u \in Threads \ {t} : SameFrame(u)
  BY <1>1, OneMoves DEF Work
<1>4. KeepsReserved(t)
  BY <1>1 DEF Base, TypeOK, CallOK, KeepsReserved, HasReserved, ReservedEnd, Extra, Goto, args
<1>5. CallOK(t)'
  BY <1>1 DEF Base, TypeOK, CallOK, Goto, args
<1>6. LocalsOK(t)'
  BY <1>1 DEF Base, TypeOK, CallOK, LocalsOK, Goto, args
<1> QED
  BY <1>2, <1>3, <1>4, <1>5, <1>6, FrameStep DEF Base, choice, header, client

\* malloc returns NULL.
LEMMA ReturnNullLayout ==
  ASSUME LayoutInv, NEW t \in Threads, ReturnNull(t)
  PROVE  LayoutInv'
<1>1. TypeOK /\ CallOK(t) /\ LocalsOK(t)
  BY DEF LayoutInv
<1>2. TypeOK'
  <2>1. {ptr[t]} \ {NULL} \subseteq {payload(b) : b \in Addr}
    <3>1. pc[t] = "return" /\ op[t] \in {"malloc", "realloc", "nofree"} /\ ptr[t] \in Nat
      BY <1>1 DEF ReturnNull, TypeOK, CallOK
    <3>2. op[t] = "realloc" => ptr[t] - META_SIZE \in Addr
      BY <1>1 DEF CallOK
    <3>3. op[t] # "realloc" => ptr[t] = NULL
      BY <1>1, <3>1 DEF CallOK
    <3>4. ptr[t] - META_SIZE \in Addr => ptr[t] \in {payload(b) : b \in Addr}
      <4>1. payload(ptr[t] - META_SIZE) = ptr[t]
        BY <3>1
      <4> QED
        BY <4>1
    <3>5. op[t] = "realloc" => ptr[t] \in {payload(b) : b \in Addr}
      BY <3>2, <3>4
    <3>6. op[t] # "realloc" => {ptr[t]} \ {NULL} = {}
      BY <3>3
    <3> HIDE DEF payload, Addr, NULL
    <3> QED
      BY <3>5, <3>6
  <2>2. /\ FrameTypes'
        /\ block' \in [Threads -> Addr \cup {NULL}]
        /\ owned' \in [Threads -> SUBSET {payload(b) : b \in Addr}]
    BY <1>1, <2>1, ReturnTyped DEF ReturnNull
  <2> QED
    BY <1>1, <2>2 DEF ReturnNull, TypeOK, FrameTypes, Ops, choice, header
<1>3. \A u \in Threads \ {t} : SameFrame(u)
  BY <1>1, OneMoves DEF Work
<1>4. KeepsReserved(t)
  BY <1>1 DEF ReturnNull, TypeOK, CallOK, KeepsReserved, HasReserved, ReservedEnd, Extra, Goto, args, Return, Enter
<1>5. CallOK(t)'
  BY <1>1 DEF ReturnNull, TypeOK, CallOK, Goto, args, Return, Enter
<1>6. LocalsOK(t)'
  BY <1>1 DEF ReturnNull, TypeOK, CallOK, LocalsOK, Goto, args, Return, Enter
<1> QED
  BY <1>2, <1>3, <1>4, <1>5, <1>6, FrameStep DEF ReturnNull, choice, header, client

\* free looks at the block it is given.
LEMMA AssertionsLayout ==
  ASSUME LayoutInv, NEW t \in Threads, Assertions(t)
  PROVE  LayoutInv'
<1>1. TypeOK /\ CallOK(t) /\ LocalsOK(t)
  BY DEF LayoutInv
<1>2. TypeOK'
  BY <1>1 DEF Assertions, TypeOK, CallOK, PCs, Goto, choice, header, client, args
<1>3. \A u \in Threads \ {t} : SameFrame(u)
  BY <1>1, OneMoves DEF Work
<1>4. KeepsReserved(t)
  BY <1>1 DEF Assertions, TypeOK, CallOK, KeepsReserved, HasReserved, ReservedEnd, Extra, Goto, args
<1>5. CallOK(t)'
  BY <1>1 DEF Assertions, TypeOK, CallOK, Goto, args
<1>6. LocalsOK(t)'
  BY <1>1 DEF Assertions, TypeOK, CallOK, LocalsOK, Goto, args
<1> QED
  BY <1>2, <1>3, <1>4, <1>5, <1>6, FrameStep DEF Assertions, choice, header, client

\* free = 1 disturbs no block.
LEMMA MarkFreeLayout ==
  ASSUME LayoutInv, NEW t \in Threads, MarkFree(t)
  PROVE  LayoutInv'
<1>1. TypeOK /\ CallOK(t) /\ LocalsOK(t)
  BY DEF LayoutInv
<1>2. TypeOK'
  BY <1>1 DEF MarkFree, TypeOK, CallOK, PCs, Goto, choice, header, client, args
<1>3. \A u \in Threads \ {t} : SameFrame(u)
  BY <1>1, OneMoves DEF Work
<1>4. KeepsReserved(t)
  BY <1>1 DEF MarkFree, TypeOK, CallOK, KeepsReserved, HasReserved, ReservedEnd, Extra, Goto, args
<1>5. CallOK(t)'
  BY <1>1 DEF MarkFree, TypeOK, CallOK, Goto, args
<1>6. LocalsOK(t)'
  BY <1>1 DEF MarkFree, TypeOK, CallOK, LocalsOK, Goto, args
<1> QED
  BY <1>2, <1>3, <1>4, <1>5, <1>6, FrameStep DEF MarkFree, choice, header, client

\* magic = 0x55555555 disturbs no block.
LEMMA StampFreeLayout ==
  ASSUME LayoutInv, NEW t \in Threads, StampFree(t)
  PROVE  LayoutInv'
<1>1. TypeOK /\ CallOK(t) /\ LocalsOK(t)
  BY DEF LayoutInv
<1>2. TypeOK'
  <2> DEFINE ps == IF op[t] = "realloc" THEN {payload(block[t])} ELSE {}
  <2>1. ps \in SUBSET {payload(b) : b \in Addr}
    BY <1>1 DEF StampFree, TypeOK, LocalsOK
  <2>2. Return(t, ps)
    BY DEF StampFree
  <2>3. /\ FrameTypes'
        /\ block' \in [Threads -> Addr \cup {NULL}]
        /\ owned' \in [Threads -> SUBSET {payload(b) : b \in Addr}]
    <3> HIDE DEF ps
    <3> QED
      BY <1>1, <2>1, <2>2, ReturnTyped
  <2> QED
    BY <1>1, <2>3 DEF StampFree, TypeOK, FrameTypes, Ops, choice, header
<1>3. \A u \in Threads \ {t} : SameFrame(u)
  BY <1>1, OneMoves DEF Work
<1>4. KeepsReserved(t)
  BY <1>1 DEF StampFree, TypeOK, CallOK, KeepsReserved, HasReserved, ReservedEnd, Extra, Goto, args, Return, Enter
<1>5. CallOK(t)'
  BY <1>1 DEF StampFree, TypeOK, CallOK, Goto, args, Return, Enter
<1>6. LocalsOK(t)'
  BY <1>1 DEF StampFree, TypeOK, CallOK, LocalsOK, Goto, args, Return, Enter
<1> QED
  BY <1>2, <1>3, <1>4, <1>5, <1>6, FrameStep DEF StampFree, choice, header, client

\* calloc calls malloc with the product.
LEMMA CallCallocLayout ==
  ASSUME LayoutInv, FittingRequests, NEW t \in Threads, CallCalloc(t)
  PROVE  LayoutInv'
<1>1. TypeOK /\ CallOK(t) /\ LocalsOK(t)
  BY DEF LayoutInv
<1>2. PICK a \in CallocArgs :
        EnterMalloc(t, "malloc", SizeMul(a[1], a[2]), a[1] * a[2], NULL)
  BY DEF CallCalloc
<1>3. PICK s \in SizeT, n \in Nat :
        META_SIZE + s <= INTPTR_MAX /\ EnterMalloc(t, "malloc", s, n, NULL)
  <2>1. a[1] \in SizeT /\ a[2] \in SizeT
    OBVIOUS
  <2>2. SizeMul(a[1], a[2]) \in SizeT /\ a[1] * a[2] \in Nat
    BY <2>1, ProductTyped
  <2> QED
    BY <1>2, <2>2 DEF FittingRequests
<1>4. TypeOK'
  <2>1. FrameTypes'
    BY <1>1, <1>3, EnterMallocTyped DEF Ops
  <2> QED
    BY <1>1, <2>1 DEF CallCalloc, TypeOK, FrameTypes, Ops, choice, header, client
<1>5. \A u \in Threads \ {t} : SameFrame(u)
  BY <1>1, OneMoves DEF Call
<1>6. KeepsReserved(t)
  BY <1>1, <1>3 DEF TypeOK, KeepsReserved, HasReserved, EnterMalloc, Enter, Goto
<1>7. CallOK(t)'
  BY <1>1, <1>3 DEF TypeOK, CallOK, EnterMalloc, Enter, Goto
<1>8. LocalsOK(t)'
  BY <1>1, <1>3 DEF CallCalloc, TypeOK, LocalsOK, EnterMalloc, Enter, Goto
<1> QED
  BY <1>4, <1>5, <1>6, <1>7, <1>8, FrameStep DEF CallCalloc, header, client

\* free is given a pointer that some thread owned.
LEMMA CallFreeLayout ==
  ASSUME LayoutInv, NEW t \in Threads, CallFree(t)
  PROVE  LayoutInv'
<1>1. TypeOK /\ CallOK(t) /\ LocalsOK(t)
  BY DEF LayoutInv
<1>2. TypeOK'
  <2>1. PICK u \in Threads : \E q \in owned[u] : GiveUp(u, q) /\ Enter(t, "free", 0, 0, q)
    BY DEF CallFree
  <2>2. PICK p \in owned[u] : GiveUp(u, p) /\ Enter(t, "free", 0, 0, p)
    BY <2>1
  <2>3. owned[u] \in SUBSET {payload(b) : b \in Addr}
    BY <1>1 DEF TypeOK
  <2>4. p \in Nat
    BY <2>3
  <2>5. owned' \in [Threads -> SUBSET {payload(b) : b \in Addr}]
    <3> DEFINE P == {payload(b) : b \in Addr}
    <3>1. owned \in [Threads -> SUBSET P]
      BY <1>1 DEF TypeOK
    <3> HIDE DEF P
    <3>2. owned' \in [Threads -> SUBSET P]
      BY <2>2, <3>1 DEF GiveUp
    <3> QED
      BY <3>2 DEF P
  <2>6. FrameTypes'
    <3>1. Goto(t, "check") /\ UNCHANGED <<cur, last>>
      BY DEF CallFree
    <3>2. pc' \in [Threads -> PCs] /\ cur' \in [Threads -> Addr \cup {NULL}]
          /\ last' \in [Threads -> Addr \cup {NULL}]
      BY <1>1, <3>1 DEF TypeOK, PCs, Goto
    <3>3. op' \in [Threads -> Ops]
      BY <1>1, <2>2 DEF TypeOK, Ops, Enter
    <3>4. 0 \in SizeT /\ 0 \in Nat
      OBVIOUS
    <3>5. sz' \in [Threads -> SizeT] /\ len' \in [Threads -> Nat]
      <4> HIDE DEF SizeT
      <4> QED
        BY <1>1, <2>2, <3>4 DEF TypeOK, Enter
    <3>6. ptr' \in [Threads -> Nat]
      BY <1>1, <2>2, <2>4 DEF TypeOK, Enter
    <3> QED
      BY <3>2, <3>3, <3>5, <3>6 DEF FrameTypes
  <2> QED
    BY <1>1, <2>5, <2>6 DEF CallFree, TypeOK, FrameTypes, Ops, choice, header
<1>3. \A u \in Threads \ {t} : SameFrame(u)
  BY <1>1, OneMoves DEF Call
<1>4. KeepsReserved(t)
  BY <1>1 DEF CallFree, TypeOK, CallOK, KeepsReserved, HasReserved, ReservedEnd, Extra, Goto, args, Enter, GiveUp, MayCall
<1>5. CallOK(t)'
  BY <1>1, SMTT(30) DEF CallFree, TypeOK, CallOK, Goto, args, Enter, GiveUp, MayCall
<1>6. LocalsOK(t)'
  BY <1>1 DEF CallFree, TypeOK, CallOK, LocalsOK, Goto, args, Enter, GiveUp, MayCall
<1> QED
  BY <1>2, <1>3, <1>4, <1>5, <1>6, FrameStep DEF CallFree, choice, header, client

\* nofree_malloc goes for the break.
LEMMA CallNoFreeLayout ==
  ASSUME LayoutInv, FittingRequests, NEW t \in Threads, CallNoFree(t)
  PROVE  LayoutInv'
<1>1. TypeOK /\ CallOK(t) /\ LocalsOK(t)
  BY DEF LayoutInv
<1>2. TypeOK'
  <2>1. PICK s \in SizeT : Enter(t, "nofree", s, s, NULL)
    BY DEF CallNoFree
  <2>2. FrameTypes'
    BY <1>1, <2>1, SMTT(30) DEF CallNoFree, TypeOK, FrameTypes, Ops, PCs, Goto, Enter
  <2> QED
    BY <1>1, <2>2 DEF CallNoFree, TypeOK, FrameTypes, Ops, choice, header, client
<1>3. \A u \in Threads \ {t} : SameFrame(u)
  BY <1>1, OneMoves DEF Call
<1>4. KeepsReserved(t)
  BY <1>1 DEF CallNoFree, TypeOK, CallOK, KeepsReserved, HasReserved, ReservedEnd, Extra, Goto, args, Enter, MayCall, FittingRequests
<1>5. CallOK(t)'
  BY <1>1 DEF CallNoFree, TypeOK, CallOK, Goto, args, Enter, MayCall, FittingRequests
<1>6. LocalsOK(t)'
  BY <1>1 DEF CallNoFree, TypeOK, CallOK, LocalsOK, Goto, args, Enter, MayCall, FittingRequests
<1> QED
  BY <1>2, <1>3, <1>4, <1>5, <1>6, FrameStep DEF CallNoFree, choice, header, client

\* realloc returns the pointer it was given, or calls malloc.
LEMMA CallReallocLayout ==
  ASSUME LayoutInv, FittingRequests, NEW t \in Threads, CallRealloc(t)
  PROVE  LayoutInv'
<1>1. TypeOK /\ CallOK(t) /\ LocalsOK(t)
  BY DEF LayoutInv
<1>2. PICK u \in Threads, s \in Requests :
        \E p \in owned[u] : ReallocInPlace(t, u, p, s) \/ ReallocMove(t, u, p, s)
  BY DEF CallRealloc
<1>. PICK p \in owned[u] : ReallocInPlace(t, u, p, s) \/ ReallocMove(t, u, p, s)
  BY <1>2
<1>3. p \in {payload(b) : b \in Addr} /\ p \in Nat /\ get_block_ptr(p) \in Addr
  <2>1. owned[u] \in SUBSET {payload(b) : b \in Addr}
    BY <1>1 DEF TypeOK
  <2>2. PICK b \in Addr : p = payload(b)
    BY <2>1
  <2> QED
    BY <2>2
<1>4. pc[t] = "idle" /\ UNCHANGED <<choice, brk, global_base, blocks, header, raw, block>>
  BY DEF CallRealloc, MayCall
<1>5. CASE ReallocInPlace(t, u, p, s)
  <2>1. TypeOK'
    BY <1>1, <1>3, <1>4, <1>5 DEF ReallocInPlace, TypeOK, choice, header, args
  <2>2. \A v \in Threads : SameFrame(v)
    BY <1>4, <1>5 DEF ReallocInPlace, SameFrame, args
  <2>3. CallOK(t)' /\ LocalsOK(t)'
    BY <1>1, <1>4, <1>5 DEF ReallocInPlace, CallOK, LocalsOK, args
  <2>4. KeepsReserved(t)
    BY <2>2, SameKeepsReserved
  <2> QED
    BY <1>4, <2>1, <2>2, <2>3, <2>4, FrameStep DEF header
<1>6. CASE ReallocMove(t, u, p, s)
  <2>1. EnterMalloc(t, "realloc", s, s, p) /\ s \in SizeT /\ s \in Nat
    BY <1>6 DEF ReallocMove
  <2>2. META_SIZE + s <= INTPTR_MAX
    BY DEF FittingRequests
  <2>3. TypeOK'
    <3>1. FrameTypes'
      BY <1>1, <1>3, <2>1, EnterMallocTyped DEF Ops
    <3>2. owned' \in [Threads -> SUBSET {payload(b) : b \in Addr}]
      BY <1>1, <1>6 DEF ReallocMove, GiveUp, TypeOK
    <3> QED
      BY <1>1, <1>4, <3>1, <3>2 DEF TypeOK, FrameTypes, Ops, choice, header
  <2>4. \A v \in Threads \ {t} : SameFrame(v)
    BY <1>1, <1>4, <2>1 DEF TypeOK, SameFrame, EnterMalloc, Enter, Goto
  <2>5. KeepsReserved(t)
    BY <1>1, <2>1 DEF TypeOK, KeepsReserved, HasReserved, EnterMalloc, Enter, Goto
  <2>6. CallOK(t)'
    BY <1>1, <1>3, <2>1, <2>2 DEF TypeOK, CallOK, EnterMalloc, Enter, Goto
  <2>7. LocalsOK(t)'
    BY <1>1, <1>4, <2>1 DEF TypeOK, LocalsOK, EnterMalloc, Enter, Goto
  <2> QED
    BY <1>4, <2>3, <2>4, <2>5, <2>6, <2>7, FrameStep DEF header
<1> QED
  BY <1>5, <1>6

-----------------------------------------------------------------------------
(* The steps that take memory from the system, make a block of it, or give *)
(* it to the client as it is.                                              *)

\* sbrk() adds exactly what was asked for, for no request wraps.
LEMMA ExtendBreak ==
  ASSUME TypeOK, NEW t \in Threads, CallOK(t), Extend(t)
  PROVE  /\ brk \in Nat /\ brk' \in Addr /\ brk <= brk'
         /\ Extra(t) \in Nat /\ sz[t] \in Nat
         /\ brk' = brk + sz[t] + Extra(t)
         /\ op[t] # "nofree" => brk < brk'
<1>1. Extra(t) \in Nat /\ sz[t] \in Nat /\ sz[t] + Extra(t) <= INTPTR_MAX
  BY DEF Extend, TypeOK, CallOK, Extra
<1>2. BreakWanted(t) = brk + (sz[t] + Extra(t))
  BY <1>1 DEF BreakWanted, SizeAdd, AsIntptr
<1>3. op[t] # "nofree" => Extra(t) > 0
  BY DEF Extra
<1>4. brk \in Nat /\ brk' = brk + (sz[t] + Extra(t))
  BY <1>2 DEF Extend, TypeOK
<1>5. brk' \in Addr
  BY DEF Extend, Limit
<1> QED
  BY <1>1, <1>3, <1>4, <1>5

(* sbrk() gives t the memory from the old break to the new one, if the     *)
(* break is where t read it; if not, t never returns.                      *)
LEMMA ExtendLayout ==
  ASSUME LayoutInv, NEW t \in Threads, Extend(t)
  PROVE  LayoutInv'
<1>1. TypeOK /\ BlocksDisjoint /\ CallOK(t) /\ LocalsOK(t)
  BY DEF LayoutInv
<1>4. brk \in Nat /\ brk' \in Addr /\ brk' = brk + sz[t] + Extra(t) /\ brk <= brk'
  BY <1>1, ExtendBreak
<1>5. UNCHANGED <<blocks, size, raw, op, sz, ptr, cur, last, block>>
  BY DEF Extend, header, client, args
<1>6. TypeOK'
  BY <1>1, <1>4 DEF Extend, TypeOK, PCs, Goto, choice, header, client, args
<1>7. \A u \in Threads \ {t} : SameFrame(u)
  BY <1>1, OneMoves DEF Work
<1>8. HasReserved(t)' => block[t] = brk /\ ReservedEnd(t)' = brk'
  BY <1>1, <1>4, <1>5 DEF Extend, TypeOK, HasReserved, ReservedEnd, Extra, BreakUnmoved, Goto
<1>9. \A u \in Threads \ {t} :
        HasReserved(u)' => HasReserved(u) /\ block[u]' = block[u] /\ ReservedEnd(u)' = ReservedEnd(u)
  BY <1>7, SameKeepsReserved DEF KeepsReserved
<1>10. \A u \in Threads \ {t} :
         HasReserved(u)' => /\ ReservedEnd(u) <= brk
                            /\ ReservedEnd(u) \in Nat
  <2>1. ASSUME NEW u \in Threads PROVE ReservedEnd(u) \in Nat
    <3>1. block[u] \in Nat /\ sz[u] \in Nat /\ Extra(u) \in Nat
      BY <1>1 DEF TypeOK, Extra
    <3> QED
      BY <3>1 DEF ReservedEnd
  <2> QED
    BY <1>9, <2>1 DEF LayoutInv, ReservedOK
<1>11. BlocksDisjoint'
  <2>1. \A b \in blocks : BlockEnd(b)' = BlockEnd(b) /\ BlockEnd(b) \in Nat
    BY <1>1, <1>5 DEF BlockEnd, TypeOK
  <2>2. \A r \in raw : r.ptr + r.len \in Nat
    <3>1. raw \subseteq [ptr : Addr, len : SizeT]
      BY <1>1 DEF TypeOK
    <3> QED
      BY <3>1
  <2>3. \A b, c \in blocks' : b < c => BlockEnd(b)' <= c
    BY <1>1, <1>5, <2>1 DEF BlocksDisjoint
  <2>4. \A b \in blocks' : BlockEnd(b)' <= brk'
    BY <1>1, <1>4, <1>5, <2>1 DEF BlocksDisjoint
  <2>5. \A r \in raw' : r.ptr + r.len <= brk'
    BY <1>1, <1>4, <1>5, <2>2 DEF BlocksDisjoint
  <2>6. \A b \in blocks', r \in raw' : BlockEnd(b)' <= r.ptr \/ r.ptr + r.len <= b
    BY <1>1, <1>5, <2>1 DEF BlocksDisjoint
  <2> QED
    BY <1>1, <1>5, <2>3, <2>4, <2>5, <2>6 DEF BlocksDisjoint
<1>12. ReservedOK(t)'
  <2>1. SUFFICES ASSUME HasReserved(t)' PROVE ReservedOK(t)'
    BY DEF ReservedOK
  <2>2. \A b \in blocks : BlockEnd(b) <= brk
    BY <1>1 DEF BlocksDisjoint
  <2>3. \A r \in raw : r.ptr + r.len <= brk
    BY <1>1 DEF BlocksDisjoint
  <2>4. \A b \in blocks' : BlockEnd(b)' <= block[t]'
    BY <1>5, <1>8, <2>1, <2>2 DEF BlockEnd
  <2> QED
    BY <1>4, <1>5, <1>8, <1>9, <1>10, <2>1, <2>3, <2>4 DEF ReservedOK
<1>13. ASSUME NEW u \in Threads \ {t}
       PROVE  ReservedOK(u)'
  <2>1. SUFFICES ASSUME HasReserved(u)' PROVE ReservedOK(u)'
    BY DEF ReservedOK
  <2>2. ReservedOK(u) /\ HasReserved(u) /\ ReservedEnd(u) \in Nat
    BY <1>9, <1>10, <2>1 DEF LayoutInv
  <2>3. ReservedEnd(u)' <= brk'
    BY <1>4, <1>9, <1>10, <2>1
  <2>4. \A b \in blocks' : BlockEnd(b)' <= block[u]' \/ ReservedEnd(u)' <= b
    BY <1>5, <1>9, <2>1, <2>2 DEF ReservedOK, BlockEnd
  <2>5. \A r \in raw' : r.ptr + r.len <= block[u]' \/ ReservedEnd(u)' <= r.ptr
    BY <1>5, <1>9, <2>1, <2>2 DEF ReservedOK
  <2>6. HasReserved(t)' => ReservedEnd(u)' <= block[t]'
    BY <1>5, <1>8, <1>9, <1>10, <2>1
  <2>7. \A v \in Threads \ {u, t} :
          HasReserved(v)' => ReservedEnd(v)' <= block[u]' \/ ReservedEnd(u)' <= block[v]'
    BY <1>9, <2>1, <2>2 DEF ReservedOK
  <2> QED
    BY <2>3, <2>4, <2>5, <2>6, <2>7 DEF ReservedOK
<1>14. \A u \in Threads \ {t} : CallOK(u)' /\ LocalsOK(u)'
  BY <1>4, <1>7, OthersKeepFrame
<1>15. CallOK(t)'
  BY <1>1, <1>5 DEF Extend, TypeOK, CallOK, Goto
<1>16. LocalsOK(t)'
  BY <1>1, <1>5 DEF Extend, TypeOK, CallOK, LocalsOK, Goto
<1> QED
  BY <1>6, <1>11, <1>12, <1>13, <1>14, <1>15, <1>16 DEF LayoutInv

\* What sbrk() gave is no block before it has a header.
LEMMA HeaderNew ==
  ASSUME LayoutInv, NEW t \in Threads, Header(t)
  PROVE  block[t] \notin blocks /\ block[t] \in Addr
<1>1. TypeOK /\ CallOK(t) /\ LocalsOK(t) /\ ReservedOK(t)
  BY DEF LayoutInv
<1>2. /\ pc[t] = "header" /\ HasReserved(t) /\ block[t] \in Addr /\ Extra(t) = META_SIZE
      /\ sz[t] \in SizeT
  BY <1>1 DEF Header, HasReserved, TypeOK, CallOK, LocalsOK, Extra
<1>3. \A b \in blocks : BlockEnd(b) <= block[t] \/ ReservedEnd(t) <= b
  BY <1>1, <1>2 DEF ReservedOK
<1>4. block[t] \notin blocks
  <2>1. ASSUME block[t] \in blocks PROVE FALSE
    <3>1. size[block[t]] \in Nat /\ block[t] \in Nat /\ sz[t] \in Nat
      BY <1>1, <1>2 DEF TypeOK
    <3>2. ReservedEnd(t) > block[t] /\ BlockEnd(block[t]) > block[t]
      BY <1>2, <3>1 DEF ReservedEnd, BlockEnd
    <3> QED
      BY <1>2, <1>3, <2>1, <3>1, <3>2 DEF ReservedEnd, BlockEnd
  <2> QED
    BY <2>1
<1> QED
  BY <1>2, <1>4

\* The header is written into what sbrk() gave, and makes a block of all of it.
LEMMA HeaderLayout ==
  ASSUME LayoutInv, NEW t \in Threads, Header(t)
  PROVE  LayoutInv'
<1>1. TypeOK /\ BlocksDisjoint /\ CallOK(t) /\ LocalsOK(t) /\ ReservedOK(t)
  BY DEF LayoutInv
<1>2. /\ pc[t] = "header" /\ HasReserved(t) /\ block[t] \in Addr /\ Extra(t) = META_SIZE
      /\ sz[t] \in SizeT
  BY <1>1 DEF Header, HasReserved, TypeOK, CallOK, LocalsOK, Extra
<1>3. UNCHANGED <<brk, raw, op, sz, ptr, cur, last, block>>
  BY DEF Header, client, args
<1>4. \A b \in blocks : BlockEnd(b) <= block[t] \/ ReservedEnd(t) <= b
  BY <1>1, <1>2 DEF ReservedOK
<1>5. block[t] \notin blocks
  BY HeaderNew
<1>6. \A b \in blocks : BlockEnd(b)' = BlockEnd(b) /\ BlockEnd(b) \in Nat
  <2>1. \A b \in blocks : b \in Addr /\ b \in Nat /\ size[b] \in Nat
    BY <1>1, Typed DEF TypeOK
  <2>2. \A b \in blocks : size'[b] = size[b]
    BY <1>1, <1>5 DEF Header, TypeOK
  <2> QED
    BY <2>1, <2>2 DEF BlockEnd
<1>7. blocks' = blocks \cup {block[t]} /\ BlockEnd(block[t])' = ReservedEnd(t)
  BY <1>1, <1>2 DEF Header, BlockEnd, ReservedEnd, TypeOK
<1>8. ReservedEnd(t) \in Nat /\ block[t] < ReservedEnd(t) /\ ReservedEnd(t) <= brk
  BY <1>1, <1>2 DEF ReservedEnd, ReservedOK
<1>9. TypeOK'
  BY <1>1, <1>2 DEF Header, TypeOK, PCs, Goto, choice, client, args
<1>10. \A u \in Threads \ {t} : SameFrame(u)
  BY <1>1, OneMoves DEF Work
<1>11. \A u \in Threads \ {t} :
         HasReserved(u)' => HasReserved(u) /\ block[u]' = block[u] /\ ReservedEnd(u)' = ReservedEnd(u)
  BY <1>10, SameKeepsReserved DEF KeepsReserved
<1>12. ~HasReserved(t)'
  BY <1>1, <1>2, <1>3 DEF Header, TypeOK, CallOK, HasReserved, Goto
<1>13. BlocksDisjoint'
  <2>1. \A b, c \in blocks' : b < c => BlockEnd(b)' <= c
    <3>1. \A b, c \in blocks : b < c => BlockEnd(b)' <= c
      BY <1>1, <1>6 DEF BlocksDisjoint
    <3>2. \A b \in blocks : b < block[t] => BlockEnd(b)' <= block[t]
      BY <1>1, <1>2, <1>4, <1>6, <1>8, SMTT(30) DEF TypeOK
    <3>3. \A c \in blocks : block[t] < c => BlockEnd(block[t])' <= c
      <4>1. ASSUME NEW c \in blocks, block[t] < c
            PROVE  ReservedEnd(t) <= c
        <5>1. c \in Nat /\ c <= BlockEnd(c) /\ BlockEnd(c) \in Nat /\ block[t] \in Nat
          <6>1. c \in Addr /\ size[c] \in Nat
            BY <1>1 DEF TypeOK
          <6> QED
            BY <1>2, <6>1 DEF BlockEnd
        <5> QED
          BY <1>4, <4>1, <5>1
      <4> QED
        BY <1>7, <4>1
    <3>4. ~(block[t] < block[t])
      BY <1>2
    <3> SUFFICES ASSUME NEW b \in blocks', NEW c \in blocks', b < c
                 PROVE  BlockEnd(b)' <= c
      OBVIOUS
    <3>5. (b \in blocks \/ b = block[t]) /\ (c \in blocks \/ c = block[t])
      BY <1>7
    <3>6. CASE b \in blocks /\ c \in blocks
      BY <3>1, <3>6
    <3>7. CASE b \in blocks /\ c = block[t]
      BY <3>2, <3>7
    <3>8. CASE b = block[t] /\ c \in blocks
      BY <1>3, <3>3, <3>8 DEF BlockEnd
    <3>9. CASE b = block[t] /\ c = block[t]
      BY <3>4, <3>9
    <3> QED
      BY <3>5, <3>6, <3>7, <3>8, <3>9
  <2>2. \A b \in blocks' : BlockEnd(b)' <= brk'
    BY <1>1, <1>3, <1>6, <1>7, <1>8 DEF BlocksDisjoint
  <2>3. \A b \in blocks', r \in raw' : BlockEnd(b)' <= r.ptr \/ r.ptr + r.len <= b
    BY <1>1, <1>2, <1>3, <1>6, <1>7 DEF BlocksDisjoint, ReservedOK
  <2> QED
    BY <1>1, <1>3, <2>1, <2>2, <2>3 DEF BlocksDisjoint
<1>14. ASSUME NEW u \in Threads
       PROVE  ReservedOK(u)'
  <2>1. SUFFICES ASSUME HasReserved(u)' PROVE ReservedOK(u)'
    BY DEF ReservedOK
  <2>2. u # t
    BY <1>12, <2>1
  <2>3. ReservedOK(u) /\ HasReserved(u)
    BY <1>11, <2>1, <2>2 DEF LayoutInv
  <2>4. \A b \in blocks : BlockEnd(b)' <= block[u]' \/ ReservedEnd(u)' <= b
    BY <1>6, <1>11, <2>1, <2>2, <2>3 DEF ReservedOK
  <2>5. BlockEnd(block[t])' <= block[u]' \/ ReservedEnd(u)' <= block[t]
    BY <1>2, <1>7, <1>11, <2>1, <2>2, <2>3 DEF ReservedOK
  <2> QED
    BY <1>3, <1>7, <1>11, <1>12, <2>1, <2>2, <2>3, <2>4, <2>5 DEF ReservedOK
<1>15. \A u \in Threads \ {t} : CallOK(u)' /\ LocalsOK(u)'
  <2>1. brk \in Nat /\ brk' \in Nat /\ brk <= brk'
    BY <1>1, <1>3, Typed
  <2> QED
    BY <1>10, <2>1, OthersKeepFrame
<1>16. CallOK(t)'
  BY <1>1, <1>3 DEF Header, TypeOK, CallOK, Goto
<1>17. LocalsOK(t)'
  BY <1>1, <1>3 DEF Header, TypeOK, CallOK, LocalsOK, Goto
<1> QED
  BY <1>9, <1>13, <1>14, <1>15, <1>16, <1>17 DEF LayoutInv

\* The block goes to the client, or to realloc; nofree_malloc's memory to the client.
LEMMA ReturnBlockLayout ==
  ASSUME LayoutInv, NEW t \in Threads, ReturnBlock(t)
  PROVE  LayoutInv'
<1>1. TypeOK /\ BlocksDisjoint /\ CallOK(t) /\ LocalsOK(t) /\ ReservedOK(t)
  BY DEF LayoutInv
<1>2. pc[t] = "return" /\ block[t] \in Addr /\ sz[t] \in SizeT
  BY <1>1 DEF ReturnBlock, TypeOK
<1>3. UNCHANGED <<brk, blocks, size>>
  BY DEF ReturnBlock, header
<1>4. CASE op[t] = "malloc" /\ Return(t, {payload(block[t])}) /\ UNCHANGED raw
  <2>1. TypeOK'
    <3>1. {payload(block[t])} \in SUBSET {payload(b) : b \in Addr}
      BY <1>2
    <3>2. /\ FrameTypes'
          /\ block' \in [Threads -> Addr \cup {NULL}]
          /\ owned' \in [Threads -> SUBSET {payload(b) : b \in Addr}]
      BY <1>1, <1>4, <3>1, ReturnTyped
    <3> QED
      BY <1>1, <1>4, <3>2 DEF ReturnBlock, TypeOK, FrameTypes, Ops, choice, header
  <2>2. \A u \in Threads \ {t} : SameFrame(u)
    BY <1>1, <1>4 DEF TypeOK, SameFrame, Return, Enter, Goto
  <2>3. KeepsReserved(t) /\ CallOK(t)' /\ LocalsOK(t)'
    BY <1>1, <1>4 DEF TypeOK, KeepsReserved, HasReserved, CallOK, LocalsOK, Return, Enter, Goto
  <2> QED
    BY <1>3, <1>4, <2>1, <2>2, <2>3, FrameStep
<1>5. CASE op[t] = "realloc" /\ Goto(t, "check") /\ UNCHANGED <<client, args, cur, last, block>>
  <2>1. TypeOK'
    BY <1>1, <1>5 DEF ReturnBlock, TypeOK, PCs, Goto, choice, header, client, args
  <2>2. \A u \in Threads \ {t} : SameFrame(u)
    BY <1>1, <1>5 DEF TypeOK, SameFrame, Goto, args
  <2>3. KeepsReserved(t) /\ CallOK(t)' /\ LocalsOK(t)'
    BY <1>1, <1>2, <1>5
    DEF TypeOK, KeepsReserved, HasReserved, CallOK, LocalsOK, Goto, args
  <2> QED
    BY <1>3, <1>5, <2>1, <2>2, <2>3, FrameStep DEF client
<1>6. CASE /\ op[t] = "nofree"
           /\ raw' = raw \cup {[ptr |-> block[t], len |-> sz[t]]}
           /\ Return(t, {})
  <2> DEFINE region == [ptr |-> block[t], len |-> sz[t]]
  <2>1. HasReserved(t) /\ ReservedEnd(t) = region.ptr + region.len
    BY <1>1, <1>2, <1>6 DEF HasReserved, ReservedEnd, Extra
  <2>2. TypeOK'
    <3>1. /\ FrameTypes'
          /\ block' \in [Threads -> Addr \cup {NULL}]
          /\ owned' \in [Threads -> SUBSET {payload(b) : b \in Addr}]
      BY <1>1, <1>6, ReturnTyped
    <3>2. raw' \subseteq [ptr : Addr, len : SizeT]
      BY <1>1, <1>2, <1>6 DEF TypeOK
    <3> QED
      BY <1>1, <3>1, <3>2 DEF ReturnBlock, TypeOK, FrameTypes, Ops, choice, header
  <2>3. \A u \in Threads \ {t} : SameFrame(u)
    BY <1>1, <1>6 DEF TypeOK, SameFrame, Return, Enter, Goto
  <2>4. \A u \in Threads \ {t} :
          HasReserved(u)' => HasReserved(u) /\ block[u]' = block[u] /\ ReservedEnd(u)' = ReservedEnd(u)
    BY <2>3, SameKeepsReserved DEF KeepsReserved
  <2>5. ~HasReserved(t)' /\ CallOK(t)' /\ LocalsOK(t)'
    BY <1>1, <1>6 DEF TypeOK, HasReserved, CallOK, LocalsOK, Return, Enter, Goto
  <2>6. /\ \A b \in blocks : BlockEnd(b) <= region.ptr \/ region.ptr + region.len <= b
        /\ \A r \in raw : r.ptr + r.len <= region.ptr \/ region.ptr + region.len <= r.ptr
        /\ region.ptr + region.len <= brk
    BY <1>1, <2>1 DEF ReservedOK
  <2>7. \A b \in blocks : BlockEnd(b)' = BlockEnd(b)
    BY <1>3 DEF BlockEnd
  <2>8. raw' = raw \cup {region}
    BY <1>6
  <2>9. BlocksDisjoint'
    <3> HIDE DEF region
    <3>1. /\ \A b, c \in blocks' : b < c => BlockEnd(b)' <= c
          /\ \A b \in blocks' : BlockEnd(b)' <= brk'
      BY <1>1, <1>3, <2>7 DEF BlocksDisjoint
    <3>2. \A b \in blocks', r \in raw' : BlockEnd(b)' <= r.ptr \/ r.ptr + r.len <= b
      BY <1>1, <1>3, <2>6, <2>7, <2>8 DEF BlocksDisjoint
    <3>3. \A r, q \in raw' : r = q \/ r.ptr + r.len <= q.ptr \/ q.ptr + q.len <= r.ptr
      BY <1>1, <2>6, <2>8 DEF BlocksDisjoint
    <3>4. \A r \in raw' : r.ptr + r.len <= brk'
      BY <1>1, <1>3, <2>6, <2>8 DEF BlocksDisjoint
    <3> QED
      BY <3>1, <3>2, <3>3, <3>4 DEF BlocksDisjoint
  <2>10. ASSUME NEW u \in Threads
         PROVE  ReservedOK(u)'
    <3>1. SUFFICES ASSUME HasReserved(u)' PROVE ReservedOK(u)'
      BY DEF ReservedOK
    <3>2. u # t
      BY <2>5, <3>1
    <3>3. ReservedOK(u) /\ HasReserved(u)
      BY <2>4, <3>1, <3>2 DEF LayoutInv
    <3>4. region.ptr + region.len <= block[u] \/ ReservedEnd(u) <= region.ptr
      BY <2>1, <3>2, <3>3 DEF ReservedOK
    <3>5. \A r \in raw' : r.ptr + r.len <= block[u]' \/ ReservedEnd(u)' <= r.ptr
      <4> HIDE DEF region
      <4> QED
        BY <2>4, <2>8, <3>1, <3>2, <3>3, <3>4 DEF ReservedOK
    <3>6. \A b \in blocks' : BlockEnd(b)' <= block[u]' \/ ReservedEnd(u)' <= b
      BY <1>3, <2>4, <2>7, <3>1, <3>2, <3>3 DEF ReservedOK
    <3> QED
      BY <1>3, <2>4, <2>5, <3>1, <3>2, <3>3, <3>5, <3>6 DEF ReservedOK
  <2>11. \A u \in Threads \ {t} : CallOK(u)' /\ LocalsOK(u)'
    <3>1. brk \in Nat /\ brk' \in Nat /\ brk <= brk'
      BY <1>1, <1>3, Typed
    <3> QED
      BY <2>3, <3>1, OthersKeepFrame
  <2> QED
    BY <2>2, <2>5, <2>9, <2>10, <2>11 DEF LayoutInv
<1> QED
  BY <1>4, <1>5, <1>6 DEF ReturnBlock

\* Nothing happens and nothing is lost.
LEMMA StutterLayout ==
  ASSUME LayoutInv, UNCHANGED vars
  PROVE  LayoutInv'
<1>1. UNCHANGED <<variant, callers, brk, global_base, blocks, size, next, free, magic, raw,
                  owned, pc, op, sz, len, ptr, cur, last, block>>
  BY DEF vars, choice, header, client, args
<1>2. TypeOK'
  BY <1>1 DEF LayoutInv, TypeOK
<1>3. BlocksDisjoint'
  BY <1>1 DEF LayoutInv, BlocksDisjoint, BlockEnd
<1>4. ASSUME NEW t \in Threads
      PROVE  ReservedOK(t)' /\ CallOK(t)' /\ LocalsOK(t)'
  <2>1. ReservedOK(t) /\ CallOK(t) /\ LocalsOK(t)
    BY DEF LayoutInv
  <2>2. ReservedOK(t)'
    BY <1>1, <2>1 DEF ReservedOK, HasReserved, ReservedEnd, Extra, BlockEnd
  <2>3. CallOK(t)' /\ LocalsOK(t)'
    BY <1>1, <2>1 DEF CallOK, LocalsOK
  <2> QED
    BY <2>2, <2>3
<1> QED
  BY <1>2, <1>3, <1>4 DEF LayoutInv

\* Every step preserves the layout.
LEMMA NextLayout ==
  ASSUME LayoutInv, FittingRequests, [Next]_vars
  PROVE  LayoutInv'
<1>1. ASSUME NEW t \in Threads, Call(t)
      PROVE  LayoutInv'
  BY <1>1, CallMallocLayout, CallCallocLayout, CallFreeLayout, CallReallocLayout,
     CallNoFreeLayout DEF Call
<1>2. ASSUME NEW t \in Threads, Work(t)
      PROVE  LayoutInv'
  BY <1>2, TestLayout, StepLayout, ClaimLayout, ReuseLayout, ReadBreakLayout, ExtendLayout,
     RefuseLayout, LinkLayout, HeaderLayout, BaseLayout, ReturnNullLayout, ReturnBlockLayout,
     AssertionsLayout, MarkFreeLayout, StampFreeLayout DEF Work
<1> QED
  BY <1>1, <1>2, StutterLayout DEF Next

-----------------------------------------------------------------------------
(* Order, holders and sizes.                                               *)

\* What every step does for the threads that do not move.
Keeps(t) ==
  /\ brk \in Nat /\ brk' \in Nat /\ brk <= brk'
  /\ blocks \subseteq blocks'
  /\ \A b \in blocks : size'[b] = size[b]
  /\ variant' = variant
  /\ \A u \in Threads \ {t} : owned'[u] \subseteq owned[u]

\* The part of the invariant that is about one thread, for those that do not move.
LEMMA OthersKeepRest ==
  ASSUME SafeInv, NEW t \in Threads, Keeps(t), NEW u \in Threads \ {t}, SameFrame(u)
  PROVE  OrderOK(u)' /\ HoldOK(u)' /\ GrantOK(u)'
<1>1. OrderOK(u) /\ HoldOK(u) /\ GrantOK(u) /\ TypeOK
  BY DEF SafeInv, LayoutInv, OrderInv, HoldInv, GrantInv
<1>2. OrderOK(u)'
  <2>1. /\ cur \in [Threads -> Addr \cup {NULL}]
        /\ last \in [Threads -> Addr \cup {NULL}]
        /\ block \in [Threads -> Addr \cup {NULL}]
    BY <1>1 DEF TypeOK
  <2>2. cur[u] \in Nat /\ last[u] \in Nat /\ block[u] \in Nat
    BY <2>1
  <2> QED
    BY <1>1, <2>2 DEF OrderOK, SameFrame, Keeps
<1>3. HoldOK(u)'
  BY <1>1 DEF HoldOK, HasFound, SameFrame, Keeps
<1>4. GrantOK(u)'
  BY <1>1 DEF GrantOK, HoldOK, HasFound, SameFrame, Keeps
<1> QED
  BY <1>2, <1>3, <1>4

\* With the others' part in hand, a step is judged by the thread that moves.
LEMMA RestStep ==
  ASSUME SafeInv, NEW t \in Threads, Call(t) \/ Work(t), Keeps(t),
         ChainOK', FreeOK', OrderOK(t)', HoldOK(t)', GrantOK(t)'
  PROVE  OrderInv' /\ HoldInv' /\ GrantInv'
<1>1. \A u \in Threads \ {t} : SameFrame(u)
  BY OneMoves DEF SafeInv, LayoutInv
<1>2. \A u \in Threads \ {t} : OrderOK(u)' /\ HoldOK(u)' /\ GrantOK(u)'
  BY <1>1, OthersKeepRest
<1> QED
  BY <1>2 DEF OrderInv, HoldInv, GrantInv

\* What SafeInv says of the thread that moves.
Here(t) ==
  /\ TypeOK /\ CallOK(t) /\ LocalsOK(t) /\ ReservedOK(t)
  /\ ChainOK /\ FreeOK /\ OrderOK(t) /\ HoldOK(t) /\ GrantOK(t)

\* The invariant implies its part about one thread.
LEMMA SafeHere ==
  ASSUME SafeInv, NEW t \in Threads
  PROVE  Here(t)
BY DEF Here, SafeInv, LayoutInv, OrderInv, HoldInv, GrantInv

\* malloc is called.
LEMMA CallMallocRest ==
  ASSUME SafeInv, NEW t \in Threads, CallMalloc(t)
  PROVE  OrderInv' /\ HoldInv' /\ GrantInv'
<1>1. Here(t)
  BY SafeHere
<1> USE <1>1 DEF Here, CallMalloc, TypeOK, Goto, choice, header, client, args, EnterMalloc, Enter, MayCall
<1>2. Keeps(t)
  BY DEF Keeps
<1>3. ChainOK' /\ OrderOK(t)'
  BY DEF ChainOK, OrderOK, LocalsOK
<1>4. FreeOK' /\ HoldOK(t)'
  BY DEF FreeOK, HoldOK, HasFound, CallOK
<1>5. GrantOK(t)'
  BY DEF GrantOK, HoldOK, HasFound, CallOK
<1> QED
  BY <1>2, <1>3, <1>4, <1>5, RestStep DEF Call

\* What the client gives back is a block.
LEMMA CallFreeRest ==
  ASSUME SafeInv, NEW t \in Threads, CallFree(t)
  PROVE  OrderInv' /\ HoldInv' /\ GrantInv'
<1>1. Here(t)
  BY SafeHere
<1> USE <1>1 DEF Here, CallFree, TypeOK, Goto, choice, header, client, args, Enter, GiveUp, MayCall
<1>2. Keeps(t)
  BY SMTT(30) DEF Keeps
<1>3. ChainOK' /\ OrderOK(t)'
  BY DEF ChainOK, OrderOK, LocalsOK
<1>4. FreeOK' /\ HoldOK(t)'
  <2>1. PICK u \in Threads : \E q \in owned[u] : GiveUp(u, q) /\ Enter(t, "free", 0, 0, q)
    OBVIOUS
  <2>2. PICK p \in owned[u] : GiveUp(u, p) /\ Enter(t, "free", 0, 0, p)
    BY <2>1
  <2>3. get_block_ptr(p) \in blocks
    <3>1. HoldOK(u)
      BY DEF SafeInv, HoldInv
    <3> QED
      BY <3>1 DEF HoldOK
  <2>4. FreeOK'
    BY DEF FreeOK
  <2>5. \A q \in owned'[t] : get_block_ptr(q) \in blocks'
    BY <2>2 DEF HoldOK
  <2>6. op'[t] = "free" /\ ptr'[t] = p
    BY <2>2
  <2>7. ~HasFound(t)' \/ block'[t] \in blocks'
    BY <2>6 DEF HasFound
  <2> QED
    BY <2>3, <2>4, <2>5, <2>6, <2>7 DEF HoldOK
<1>5. GrantOK(t)'
  BY DEF GrantOK, HoldOK, HasFound, CallOK
<1> QED
  BY <1>2, <1>3, <1>4, <1>5, RestStep DEF Call

\* nofree_malloc has no header.
LEMMA CallNoFreeRest ==
  ASSUME SafeInv, NEW t \in Threads, CallNoFree(t)
  PROVE  OrderInv' /\ HoldInv' /\ GrantInv'
<1>1. Here(t)
  BY SafeHere
<1> USE <1>1 DEF Here, CallNoFree, TypeOK, Goto, choice, header, client, args, Enter, MayCall
<1>2. Keeps(t)
  BY DEF Keeps
<1>3. ChainOK' /\ OrderOK(t)'
  BY DEF ChainOK, OrderOK, LocalsOK
<1>4. FreeOK' /\ HoldOK(t)'
  BY DEF FreeOK, HoldOK, HasFound, CallOK
<1>5. GrantOK(t)'
  BY DEF GrantOK, HoldOK, HasFound, CallOK
<1> QED
  BY <1>2, <1>3, <1>4, <1>5, RestStep DEF Call

\* A block that fits is claimed.
LEMMA TestRest ==
  ASSUME SafeInv, NEW t \in Threads, Test(t)
  PROVE  OrderInv' /\ HoldInv' /\ GrantInv'
<1>1. Here(t)
  BY SafeHere
<1>2. TypeOK /\ CallOK(t) /\ LocalsOK(t)
  BY <1>1 DEF Here
<1>3. Fits(cur[t], sz[t]) => cur[t] \in blocks /\ size[cur[t]] >= sz[t]
  <2>1. cur[t] \in Addr
    BY <1>2, TestOutcome DEF LocalsOK, TypeOK
  <2>2. sz[t] \in Nat /\ size[cur[t]] \in Nat
    BY <1>2, <2>1, Typed
  <2>3. FreeOK
    BY <1>1 DEF Here
  <2> QED
    BY <2>1, <2>2, <2>3 DEF Fits, FreeOK
<1>4. Keeps(t)
  BY <1>2, TestOutcome, Typed DEF Keeps
<1>5. ChainOK' /\ OrderOK(t)'
  BY <1>1, <1>2, TestOutcome, Typed DEF Here, ChainOK, OrderOK
<1>6. FreeOK' /\ HoldOK(t)'
  BY <1>1, <1>2, <1>3, TestOutcome DEF Here, FreeOK, HoldOK, HasFound, CallOK
<1>7. GrantOK(t)'
  <2>1. sz[t] <= size[cur[t]] <=> size[cur[t]] >= sz[t]
    OBVIOUS
  <2> QED
    BY <1>1, <1>2, <1>3, <2>1, TestOutcome DEF Here, GrantOK, HasFound
<1> QED
  BY <1>4, <1>5, <1>6, <1>7, RestStep DEF Work

\* The walk goes upwards.
LEMMA StepRest ==
  ASSUME SafeInv, NEW t \in Threads, Step(t)
  PROVE  OrderInv' /\ HoldInv' /\ GrantInv'
<1>1. Here(t)
  BY SafeHere
<1> USE <1>1 DEF Here, Step, TypeOK, Goto, choice, header, client, args
<1>2. Keeps(t)
  <2>1. UNCHANGED <<brk, blocks, size, variant, owned>> /\ brk \in Nat
    OBVIOUS
  <2> QED
    BY ONLY <2>1 DEF Keeps
<1>3. ChainOK' /\ OrderOK(t)'
  BY DEF ChainOK, OrderOK, LocalsOK
<1>4. FreeOK' /\ HoldOK(t)'
  BY DEF FreeOK, HoldOK, HasFound, CallOK
<1>5. GrantOK(t)'
  BY DEF GrantOK, HoldOK, HasFound, CallOK
<1> QED
  BY <1>2, <1>3, <1>4, <1>5, RestStep DEF Work

\* A block is in use again.
LEMMA ClaimRest ==
  ASSUME SafeInv, NEW t \in Threads, Claim(t)
  PROVE  OrderInv' /\ HoldInv' /\ GrantInv'
<1>1. Here(t)
  BY SafeHere
<1> USE <1>1 DEF Here, Claim, TypeOK, Goto, choice, header, client, args
<1>2. Keeps(t)
  <2>1. UNCHANGED <<brk, blocks, size, variant, owned>> /\ brk \in Nat
    OBVIOUS
  <2> QED
    BY ONLY <2>1 DEF Keeps
<1>3. ChainOK' /\ OrderOK(t)'
  BY DEF ChainOK, OrderOK, LocalsOK
<1>4. FreeOK' /\ HoldOK(t)'
  BY DEF FreeOK, HoldOK, HasFound, CallOK
<1>5. GrantOK(t)'
  BY DEF GrantOK, HoldOK, HasFound, CallOK
<1> QED
  BY <1>2, <1>3, <1>4, <1>5, RestStep DEF Work

\* Only its magic changes.
LEMMA ReuseRest ==
  ASSUME SafeInv, NEW t \in Threads, Reuse(t)
  PROVE  OrderInv' /\ HoldInv' /\ GrantInv'
<1>1. Here(t)
  BY SafeHere
<1> USE <1>1 DEF Here, Reuse, TypeOK, Goto, choice, header, client, args
<1>2. Keeps(t)
  BY DEF Keeps
<1>3. ChainOK' /\ OrderOK(t)'
  BY DEF ChainOK, OrderOK, LocalsOK
<1>4. FreeOK' /\ HoldOK(t)'
  BY DEF FreeOK, HoldOK, HasFound, CallOK
<1>5. GrantOK(t)'
  BY DEF GrantOK, HoldOK, HasFound, CallOK
<1> QED
  BY <1>2, <1>3, <1>4, <1>5, RestStep DEF Work

\* block is the break, which is no block yet.
LEMMA ReadBreakRest ==
  ASSUME SafeInv, NEW t \in Threads, ReadBreak(t)
  PROVE  OrderInv' /\ HoldInv' /\ GrantInv'
<1>1. Here(t)
  BY SafeHere
<1> USE <1>1 DEF Here, ReadBreak, TypeOK, Goto, choice, header, client, args
<1>2. Keeps(t)
  BY DEF Keeps
<1>3. ChainOK' /\ OrderOK(t)'
  BY DEF ChainOK, OrderOK, LocalsOK
<1>4. FreeOK' /\ HoldOK(t)'
  BY DEF FreeOK, HoldOK, HasFound, CallOK
<1>5. GrantOK(t)'
  BY DEF GrantOK, HoldOK, HasFound, CallOK
<1> QED
  BY <1>2, <1>3, <1>4, <1>5, RestStep DEF Work

\* What sbrk() gives lies above all there is.
LEMMA ExtendRest ==
  ASSUME SafeInv, NEW t \in Threads, Extend(t)
  PROVE  OrderInv' /\ HoldInv' /\ GrantInv'
<1>1. Here(t)
  BY SafeHere
<1>0. /\ brk \in Nat /\ brk' \in Nat /\ brk <= brk'
      /\ op[t] # "nofree" => brk < brk'
  BY <1>1, ExtendBreak DEF Here
<1>6. cur[t] \in Nat /\ last[t] \in Nat /\ block[t] \in Nat
  BY <1>1, Typed DEF Here
<1>7. ChainOK'
  <2>1. global_base \in Nat /\ \A a \in Addr : next[a] \in Nat
    BY <1>1, Typed DEF Here
  <2>2. global_base' = global_base /\ next' = next
    BY DEF Extend, header
  <2> QED
    BY <1>0, <1>1, <2>1, <2>2 DEF Here, ChainOK
<1> USE <1>1 DEF Here, Extend, TypeOK, Goto, choice, header, client, args
<1>2. Keeps(t)
  BY <1>0 DEF Keeps
<1>3. ChainOK' /\ OrderOK(t)'
  <2>3. cur[t] \in Nat /\ last[t] \in Nat /\ block[t] \in Nat
    BY <1>6
  <2>4. cur'[t] < brk' /\ last'[t] < brk'
    BY <1>0, <2>3, SMTT(30) DEF OrderOK
  <2>5. pc'[t] \in {"link", "header"} => block[t] = brk /\ op[t] # "nofree"
    BY DEF BreakUnmoved
  <2>6. pc'[t] \notin {"claim", "reuse", "base"}
    OBVIOUS
  <2> QED
    BY <1>0, <1>7, <2>3, <2>4, <2>5, <2>6 DEF OrderOK
<1>4. FreeOK' /\ HoldOK(t)'
  BY DEF FreeOK, HoldOK, HasFound, CallOK
<1>5. GrantOK(t)'
  BY DEF GrantOK, HoldOK, HasFound, CallOK
<1> QED
  BY <1>2, <1>3, <1>4, <1>5, RestStep DEF Work

\* There is no block.
LEMMA RefuseRest ==
  ASSUME SafeInv, NEW t \in Threads, Refuse(t)
  PROVE  OrderInv' /\ HoldInv' /\ GrantInv'
<1>1. Here(t)
  BY SafeHere
<1>2. TypeOK /\ CallOK(t) /\ LocalsOK(t)
  BY <1>1 DEF Here
<1>3. Keeps(t)
  BY <1>2, RefuseOutcome, Typed DEF Keeps
<1>4. ChainOK' /\ OrderOK(t)'
  BY <1>1, <1>2, RefuseOutcome DEF Here, ChainOK, OrderOK
<1>5. FreeOK' /\ HoldOK(t)'
  BY <1>1, <1>2, RefuseOutcome DEF Here, FreeOK, HoldOK, HasFound
<1>6. GrantOK(t)'
  BY <1>1, <1>2, RefuseOutcome DEF Here, GrantOK, HasFound
<1> QED
  BY <1>3, <1>4, <1>5, <1>6, RestStep DEF Work

\* What is appended lies above the block that leads to it.
LEMMA LinkRest ==
  ASSUME SafeInv, NEW t \in Threads, Link(t)
  PROVE  OrderInv' /\ HoldInv' /\ GrantInv'
<1>1. Here(t)
  BY SafeHere
<1> USE <1>1 DEF Here, Link, TypeOK, Goto, choice, header, client, args
<1>2. Keeps(t)
  BY DEF Keeps
<1>3. ChainOK' /\ OrderOK(t)'
  BY DEF ChainOK, OrderOK, LocalsOK
<1>4. FreeOK' /\ HoldOK(t)'
  BY DEF FreeOK, HoldOK, HasFound, CallOK
<1>5. GrantOK(t)'
  BY DEF GrantOK, HoldOK, HasFound, CallOK
<1> QED
  BY <1>2, <1>3, <1>4, <1>5, RestStep DEF Work

\* The block has the size malloc was asked for.
LEMMA HeaderRest ==
  ASSUME SafeInv, NEW t \in Threads, Header(t)
  PROVE  OrderInv' /\ HoldInv' /\ GrantInv'
<1>1. Here(t)
  BY SafeHere
<1> USE <1>1 DEF Here, Header, TypeOK, Goto, choice, header, client, args
<1>2. Keeps(t)
  <2>1. block[t] \notin blocks
    BY HeaderNew DEF SafeInv
  <2>2. \A b \in blocks : size'[b] = size[b]
    BY <2>1
  <2> QED
    BY <2>2 DEF Keeps
<1>3. ChainOK' /\ OrderOK(t)'
  BY DEF ChainOK, OrderOK, LocalsOK
<1>4. FreeOK' /\ HoldOK(t)'
  BY DEF FreeOK, HoldOK, HasFound, CallOK
<1>5. GrantOK(t)'
  <2>1. block[t] \notin blocks /\ block[t] \in Addr
    BY HeaderNew DEF SafeInv
  <2>2. size'[block[t]] = sz[t] /\ sz[t] \in Nat
    BY <2>1
  <2>3. op[t] = "realloc" => size'[get_block_ptr(ptr[t])] = size[get_block_ptr(ptr[t])]
    BY <2>1 DEF HoldOK
  <2> QED
    BY <2>2, <2>3 DEF GrantOK
<1> QED
  BY <1>2, <1>3, <1>4, <1>5, RestStep DEF Work

\* The list starts below the break.
LEMMA BaseRest ==
  ASSUME SafeInv, NEW t \in Threads, Base(t)
  PROVE  OrderInv' /\ HoldInv' /\ GrantInv'
<1>1. Here(t)
  BY SafeHere
<1> USE <1>1 DEF Here, Base, TypeOK, Goto, choice, header, client, args
<1>2. Keeps(t)
  BY DEF Keeps
<1>3. ChainOK' /\ OrderOK(t)'
  BY DEF ChainOK, OrderOK, LocalsOK
<1>4. FreeOK' /\ HoldOK(t)'
  BY DEF FreeOK, HoldOK, HasFound, CallOK
<1>5. GrantOK(t)'
  BY DEF GrantOK, HoldOK, HasFound, CallOK
<1> QED
  BY <1>2, <1>3, <1>4, <1>5, RestStep DEF Work

\* realloc's pointer is the client's again.
LEMMA ReturnNullRest ==
  ASSUME SafeInv, NEW t \in Threads, ReturnNull(t)
  PROVE  OrderInv' /\ HoldInv' /\ GrantInv'
<1>1. Here(t)
  BY SafeHere
<1> USE <1>1 DEF Here, ReturnNull, TypeOK, Goto, choice, header, client, args, Return, Enter
<1>2. Keeps(t)
  BY DEF Keeps
<1>3. ChainOK' /\ OrderOK(t)'
  BY DEF ChainOK, OrderOK, LocalsOK
<1>4. FreeOK' /\ HoldOK(t)'
  BY DEF FreeOK, HoldOK, HasFound, CallOK
<1>5. GrantOK(t)'
  BY DEF GrantOK, HoldOK, HasFound, CallOK
<1> QED
  BY <1>2, <1>3, <1>4, <1>5, RestStep DEF Work

\* The client gets a block.
LEMMA ReturnBlockRest ==
  ASSUME SafeInv, NEW t \in Threads, ReturnBlock(t)
  PROVE  OrderInv' /\ HoldInv' /\ GrantInv'
<1>1. Here(t)
  BY SafeHere
<1> USE <1>1 DEF Here, ReturnBlock, TypeOK, Goto, choice, header, client, args, Return, Enter
<1>2. Keeps(t)
  BY SMTT(30) DEF Keeps
<1>3. ChainOK' /\ OrderOK(t)'
  BY SMTT(30) DEF ChainOK, OrderOK, LocalsOK
<1>4. FreeOK' /\ HoldOK(t)'
  <2>1. FreeOK'
    BY DEF FreeOK
  <2> DEFINE new == IF op[t] = "malloc" THEN {payload(block[t])} ELSE {}
  <2>2. owned'[t] = owned[t] \cup new
    OBVIOUS
  <2>3. \A p \in new : get_block_ptr(p) \in blocks
    <3>1. get_block_ptr(payload(block[t])) = block[t]
      OBVIOUS
    <3>2. new # {} => block[t] \in blocks
      BY DEF HoldOK, HasFound
    <3> QED
      BY <3>1, <3>2
  <2>4. \A p \in owned'[t] : get_block_ptr(p) \in blocks'
    BY <2>2, <2>3 DEF HoldOK
  <2>5. HasFound(t)' => HasFound(t) /\ block'[t] = block[t]
    BY DEF HasFound
  <2>6. op'[t] \in {"free", "realloc"} => op[t] \in {"free", "realloc"} /\ ptr'[t] = ptr[t]
    BY DEF CallOK
  <2>7. pc'[t] \notin {"claim", "reuse"}
    OBVIOUS
  <2> QED
    BY <2>1, <2>4, <2>5, <2>6, <2>7 DEF HoldOK
<1>5. GrantOK(t)'
  BY DEF GrantOK, HoldOK, HasFound, CallOK
<1> QED
  BY <1>2, <1>3, <1>4, <1>5, RestStep DEF Work

\* free has changed nothing yet.
LEMMA AssertionsRest ==
  ASSUME SafeInv, NEW t \in Threads, Assertions(t)
  PROVE  OrderInv' /\ HoldInv' /\ GrantInv'
<1>1. Here(t)
  BY SafeHere
<1> USE <1>1 DEF Here, Assertions, TypeOK, Goto, choice, header, client, args
<1>2. Keeps(t)
  BY DEF Keeps
<1>3. ChainOK' /\ OrderOK(t)'
  BY DEF ChainOK, OrderOK, LocalsOK
<1>4. FreeOK' /\ HoldOK(t)'
  BY DEF FreeOK, HoldOK, HasFound, CallOK
<1>5. GrantOK(t)'
  BY DEF GrantOK, HoldOK, HasFound, CallOK
<1> QED
  BY <1>2, <1>3, <1>4, <1>5, RestStep DEF Work

\* What is freed is a block.
LEMMA MarkFreeRest ==
  ASSUME SafeInv, NEW t \in Threads, MarkFree(t)
  PROVE  OrderInv' /\ HoldInv' /\ GrantInv'
<1>1. Here(t)
  BY SafeHere
<1> USE <1>1 DEF Here, MarkFree, TypeOK, Goto, choice, header, client, args
<1>2. Keeps(t)
  BY DEF Keeps
<1>3. ChainOK' /\ OrderOK(t)'
  BY DEF ChainOK, OrderOK, LocalsOK
<1>4. FreeOK' /\ HoldOK(t)'
  BY DEF FreeOK, HoldOK, HasFound, CallOK
<1>5. GrantOK(t)'
  BY DEF GrantOK, HoldOK, HasFound, CallOK
<1> QED
  BY <1>2, <1>3, <1>4, <1>5, RestStep DEF Work

\* realloc returns a block.
LEMMA StampFreeRest ==
  ASSUME SafeInv, NEW t \in Threads, StampFree(t)
  PROVE  OrderInv' /\ HoldInv' /\ GrantInv'
<1>1. Here(t)
  BY SafeHere
<1> USE <1>1 DEF Here, StampFree, TypeOK, Goto, choice, header, client, args, Return, Enter
<1>2. Keeps(t)
  BY DEF Keeps
<1>3. ChainOK' /\ OrderOK(t)'
  BY DEF ChainOK, OrderOK, LocalsOK
<1>4. FreeOK' /\ HoldOK(t)'
  <2>1. FreeOK'
    BY DEF FreeOK
  <2> DEFINE new == IF op[t] = "realloc" THEN {payload(block[t])} ELSE {}
  <2>2. owned'[t] = owned[t] \cup new
    OBVIOUS
  <2>3. \A p \in new : get_block_ptr(p) \in blocks
    <3>1. get_block_ptr(payload(block[t])) = block[t]
      <4>1. block[t] \in Nat
        OBVIOUS
      <4> HIDE <1>1
      <4> QED
        BY <4>1
    <3>2. new # {} => block[t] \in blocks
      BY DEF HoldOK, HasFound, LocalsOK
    <3> QED
      BY <3>1, <3>2
  <2>4. \A p \in owned'[t] : get_block_ptr(p) \in blocks'
    BY <2>2, <2>3 DEF HoldOK
  <2>5. HasFound(t)' => HasFound(t) /\ block'[t] = block[t]
    BY DEF HasFound
  <2>6. op'[t] \in {"free", "realloc"} => op[t] \in {"free", "realloc"} /\ ptr'[t] = ptr[t]
    BY DEF CallOK
  <2>7. pc'[t] \notin {"claim", "reuse"}
    OBVIOUS
  <2> QED
    BY <2>1, <2>4, <2>5, <2>6, <2>7 DEF HoldOK
<1>5. GrantOK(t)'
  BY DEF GrantOK, HoldOK, HasFound, CallOK
<1> QED
  BY <1>2, <1>3, <1>4, <1>5, RestStep DEF Work

\* calloc of src/malloc.c may pass on less than the client means, if the
\* product wraps; that of the copy never does.
LEMMA CallCallocRest ==
  ASSUME SafeInv, NEW t \in Threads, CallCalloc(t)
  PROVE  OrderInv' /\ HoldInv' /\ GrantInv'
<1>1. Here(t)
  BY SafeHere
<1>2. PICK a \in CallocArgs :
        /\ CallocAllowed(a[1], a[2])
        /\ EnterMalloc(t, "malloc", SizeMul(a[1], a[2]), a[1] * a[2], NULL)
  BY DEF CallCalloc
<1>3. a[1] \in SizeT /\ a[2] \in SizeT
  OBVIOUS
<1>4. PICK s \in SizeT, n \in Nat :
        /\ EnterMalloc(t, "malloc", s, n, NULL)
        /\ n <= s \/ (variant = "preloaded" /\ n > SIZE_MAX)
  <2>1. SizeMul(a[1], a[2]) \in SizeT /\ a[1] * a[2] \in Nat
    BY <1>3, ProductTyped
  <2>2. SIZE_MAX \in Nat
    OBVIOUS
  <2>3. CASE a[1] * a[2] <= SIZE_MAX
    <3>1. SizeMul(a[1], a[2]) = a[1] * a[2]
      BY <1>3, <2>3, ProductKept
    <3> QED
      BY <1>2, <2>1, <3>1
  <2>4. CASE a[1] * a[2] > SIZE_MAX
    <3>1. variant # "starter"
      <4>1. SUFFICES ASSUME variant = "starter" PROVE FALSE
        OBVIOUS
      <4>2. a[2] # 0 /\ ~ProductOverflows(a[1], a[2])
        BY <1>2, <4>1 DEF CallocAllowed
      <4>3. a[1] \in Nat /\ a[2] \in Nat \ {0}
        BY <1>3, <4>2
      <4> QED
        BY <2>4, <4>2, <4>3, ProductExact
    <3>2. variant = "preloaded"
      BY <1>1, <3>1 DEF Here, TypeOK
    <3> QED
      BY <1>2, <2>1, <2>4, <3>2
  <2> QED
    BY <2>1, <2>2, <2>3, <2>4
<1>5. UNCHANGED <<variant, brk, global_base, blocks, size, next, free, owned, block>>
  BY DEF CallCalloc, choice, header, client
<1> USE <1>1, <1>4, <1>5 DEF Here, TypeOK, Goto, EnterMalloc, Enter
<1>6. Keeps(t)
  BY DEF Keeps
<1>7. ChainOK' /\ OrderOK(t)'
  BY DEF ChainOK, OrderOK
<1>8. FreeOK' /\ HoldOK(t)'
  BY DEF FreeOK, HoldOK, HasFound
<1>9. GrantOK(t)'
  BY DEF GrantOK, HasFound
<1> HIDE DEF Here, TypeOK, Goto, EnterMalloc, Enter
<1> QED
  BY <1>6, <1>7, <1>8, <1>9, RestStep DEF Call

\* realloc keeps a block that is large enough, and asks for a larger one.
LEMMA CallReallocRest ==
  ASSUME SafeInv, NEW t \in Threads, CallRealloc(t)
  PROVE  OrderInv' /\ HoldInv' /\ GrantInv'
<1>1. Here(t)
  BY SafeHere
<1>2. PICK u \in Threads, s \in Requests :
        \E p \in owned[u] : ReallocInPlace(t, u, p, s) \/ ReallocMove(t, u, p, s)
  BY DEF CallRealloc
<1>3. PICK p \in owned[u] : ReallocInPlace(t, u, p, s) \/ ReallocMove(t, u, p, s)
  BY <1>2
<1>4. get_block_ptr(p) \in blocks
  <2>1. HoldOK(u)
    BY DEF SafeInv, HoldInv
  <2> QED
    BY <2>1 DEF HoldOK
<1>5. /\ UNCHANGED <<variant, brk, global_base, blocks, size, next, free, block>>
      /\ pc[t] = "idle"
  BY DEF CallRealloc, MayCall, choice, header
<1>6. TypeOK
  BY <1>1 DEF Here
<1>7. CASE ReallocInPlace(t, u, p, s)
  <2>1. /\ UNCHANGED <<pc, op, sz, len, ptr, cur, last>>
        /\ owned' = [owned EXCEPT ![u] = @ \ {p}, ![t] = @ \cup {p}]
    BY <1>7 DEF ReallocInPlace, args
  <2>2. Keeps(t)
    <3>1. \A v \in Threads \ {t} : owned'[v] \subseteq owned[v]
      BY <1>6, <2>1 DEF TypeOK
    <3>2. brk \in Nat
      BY <1>6 DEF TypeOK
    <3> QED
      BY <1>5, <3>1, <3>2 DEF Keeps
  <2>3. ChainOK' /\ OrderOK(t)' /\ FreeOK' /\ GrantOK(t)'
    BY <1>1, <1>5, <2>1 DEF Here, ChainOK, OrderOK, FreeOK, GrantOK, HasFound
  <2>4. HoldOK(t)'
    <3>1. owned'[t] \subseteq owned[t] \cup {p}
      BY <1>6, <2>1 DEF TypeOK
    <3> QED
      BY <1>1, <1>4, <1>5, <2>1, <3>1 DEF Here, HoldOK, HasFound
  <2> QED
    BY <2>2, <2>3, <2>4, RestStep DEF Call
<1>8. CASE ReallocMove(t, u, p, s)
  <2>1. /\ size[get_block_ptr(p)] < s
        /\ GiveUp(u, p)
        /\ EnterMalloc(t, "realloc", s, s, p)
    BY <1>8 DEF ReallocMove
  <2>2. /\ pc'[t] \in {"brk", "test"} /\ op'[t] = "realloc" /\ ptr'[t] = p
        /\ sz'[t] = s /\ len'[t] = s /\ s \in Nat
        /\ cur'[t] = global_base /\ last'[t] = global_base
    BY <1>6, <2>1 DEF EnterMalloc, Enter, Goto, TypeOK
  <2>3. owned' \in [Threads -> SUBSET {payload(b) : b \in Addr}]
        /\ \A v \in Threads : owned'[v] \subseteq owned[v]
    BY <1>6, <2>1 DEF GiveUp, TypeOK
  <2>4. Keeps(t)
    <3>1. brk \in Nat
      BY <1>6 DEF TypeOK
    <3> QED
      BY <1>5, <2>3, <3>1 DEF Keeps
  <2>5. ChainOK' /\ OrderOK(t)' /\ FreeOK'
    BY <1>1, <1>5, <2>2 DEF Here, ChainOK, OrderOK, FreeOK
  <2>6. HoldOK(t)'
    BY <1>1, <1>4, <1>5, <2>2, <2>3 DEF Here, HoldOK, HasFound
  <2>7. GrantOK(t)'
    BY <1>4, <1>5, <2>1, <2>2 DEF GrantOK, HasFound
  <2> QED
    BY <2>4, <2>5, <2>6, <2>7, RestStep DEF Call
<1> QED
  BY <1>3, <1>7, <1>8

-----------------------------------------------------------------------------
(* One holder of what nobody has reused.                                   *)

\* The blocks nobody has reused, but for b, are those of before.
FreshStays(b) ==
  \A c \in blocks' \ {b} : magic'[c] = "fresh" => c \in blocks /\ magic[c] = "fresh"

\* t holds nothing in the next state that it does not hold now, but for b as r.
GainsOnly(t, r, b) ==
  \A q \in Roles : \A c \in blocks' : HoldsAs(t, q, c)' => HoldsAs(t, q, c) \/ (q = r /\ c = b)

(* A step keeps FreshInv if the holder it makes is the only one, or the    *)
(* block has been reused.                                                  *)
LEMMA FreshStep ==
  ASSUME SafeInv, NEW t \in Threads, Call(t) \/ Work(t), Keeps(t),
         NEW r \in Roles, NEW b, FreshStays(b), GainsOnly(t, r, b),
         b \in blocks' /\ magic'[b] = "fresh" =>
           \A u \in Threads : \A q \in Roles : HoldsAs(u, q, b)' => u = t /\ q = r
  PROVE  FreshInv'
<1>1. \A u \in Threads \ {t} : SameFrame(u)
  BY OneMoves DEF SafeInv, LayoutInv
<1>2. ASSUME NEW u \in Threads \ {t}, NEW q \in Roles, NEW c, HoldsAs(u, q, c)'
      PROVE  HoldsAs(u, q, c)
  BY <1>1, <1>2 DEF SameFrame, HoldsAs, HasFound, Keeps
<1>3. ASSUME NEW c \in blocks', magic'[c] = "fresh", c # b,
             NEW u \in Threads, NEW v \in Threads, NEW q \in Roles, NEW s \in Roles,
             HoldsAs(u, q, c)', HoldsAs(v, s, c)'
      PROVE  u = v /\ q = s
  <2>1. c \in blocks /\ magic[c] = "fresh"
    BY <1>3 DEF FreshStays
  <2>2. HoldsAs(u, q, c) /\ HoldsAs(v, s, c)
    BY <1>2, <1>3 DEF GainsOnly
  <2> QED
    BY <2>1, <2>2 DEF SafeInv, FreshInv
<1> QED
  BY <1>3 DEF FreshInv

\* Nobody becomes a holder.
LEMMA FreshKept ==
  ASSUME SafeInv, NEW t \in Threads, Call(t) \/ Work(t), Keeps(t),
         \A c \in blocks' : magic'[c] = "fresh" => c \in blocks /\ magic[c] = "fresh",
         \A q \in Roles : \A c \in blocks' : HoldsAs(t, q, c)' => HoldsAs(t, q, c)
  PROVE  FreshInv'
<1> PICK b : b \notin blocks'
  BY NoSetContainsEverything
<1>1. FreshStays(b) /\ GainsOnly(t, "found", b) /\ "found" \in Roles
  BY DEF FreshStays, GainsOnly, Roles
<1> QED
  BY <1>1, FreshStep

\* What u held as q is t's, as r.
LEMMA FreshMoved ==
  ASSUME SafeInv, NEW t \in Threads, Call(t) \/ Work(t), Keeps(t),
         UNCHANGED blocks,
         \A c \in blocks : magic'[c] = "fresh" => magic[c] = "fresh",
         NEW u \in Threads, NEW q \in Roles, NEW r \in Roles, NEW b,
         HoldsAs(u, q, b), GainsOnly(t, r, b), ~HoldsAs(u, q, b)' \/ (u = t /\ q = r)
  PROVE  FreshInv'
<1>1. FreshStays(b)
  BY DEF FreshStays
<1>2. ASSUME NEW v \in Threads, NEW s \in Roles, b \in blocks', magic'[b] = "fresh",
             HoldsAs(v, s, b)'
      PROVE  v = t /\ s = r
  <2>1. CASE HoldsAs(v, s, b)
    BY <1>2, <2>1 DEF SafeInv, FreshInv
  <2>2. CASE ~HoldsAs(v, s, b)
    <3>1. v = t
      <4>1. SUFFICES ASSUME v # t PROVE FALSE
        OBVIOUS
      <4>2. SameFrame(v)
        BY <4>1, OneMoves DEF SafeInv, LayoutInv
      <4> QED
        BY <1>2, <2>2, <4>1, <4>2 DEF SameFrame, HoldsAs, HasFound, Keeps
    <3> QED
      BY <1>2, <2>2, <3>1 DEF GainsOnly
  <2> QED
    BY <2>1, <2>2
<1> QED
  BY <1>1, <1>2, FreshStep

(* These steps make no holder.                                            *)

\* malloc has found nothing yet.
LEMMA CallMallocFresh ==
  ASSUME SafeInv, NEW t \in Threads, CallMalloc(t)
  PROVE  FreshInv'
<1>1. Here(t)
  BY SafeHere
<1>2. Keeps(t)
  BY <1>1 DEF Here, Keeps, CallMalloc, TypeOK, choice, header, client
<1>3. UNCHANGED <<blocks, magic>>
  BY DEF CallMalloc, header
<1>4. \A q \in Roles : \A c \in blocks' : HoldsAs(t, q, c)' => HoldsAs(t, q, c)
  BY <1>1 DEF Here, CallMalloc, TypeOK, CallOK, HoldsAs, HasFound, Goto, client, args, EnterMalloc, Enter, MayCall
<1> QED
  BY <1>2, <1>3, <1>4, FreshKept DEF Call

\* calloc's malloc has found nothing yet.
LEMMA CallCallocFresh ==
  ASSUME SafeInv, NEW t \in Threads, CallCalloc(t)
  PROVE  FreshInv'
<1>1. Here(t)
  BY SafeHere
<1>2. Keeps(t)
  BY <1>1 DEF Here, Keeps, CallCalloc, TypeOK, choice, header, client
<1>3. UNCHANGED <<blocks, magic>>
  BY DEF CallCalloc, header
<1>4. \A q \in Roles : \A c \in blocks' : HoldsAs(t, q, c)' => HoldsAs(t, q, c)
  BY <1>1 DEF Here, CallCalloc, TypeOK, CallOK, HoldsAs, HasFound, Goto, client, args, EnterMalloc, Enter, MayCall
<1> QED
  BY <1>2, <1>3, <1>4, FreshKept DEF Call

\* nofree_malloc makes no block.
LEMMA CallNoFreeFresh ==
  ASSUME SafeInv, NEW t \in Threads, CallNoFree(t)
  PROVE  FreshInv'
<1>1. Here(t)
  BY SafeHere
<1>2. Keeps(t)
  BY <1>1 DEF Here, Keeps, CallNoFree, TypeOK, choice, header, client
<1>3. UNCHANGED <<blocks, magic>>
  BY DEF CallNoFree, header
<1>4. \A q \in Roles : \A c \in blocks' : HoldsAs(t, q, c)' => HoldsAs(t, q, c)
  BY <1>1 DEF Here, CallNoFree, TypeOK, CallOK, HoldsAs, HasFound, Goto, client, args, Enter, MayCall
<1> QED
  BY <1>2, <1>3, <1>4, FreshKept DEF Call

\* A block is claimed, and not held yet.
LEMMA TestFresh ==
  ASSUME SafeInv, NEW t \in Threads, Test(t)
  PROVE  FreshInv'
<1>1. TypeOK
  BY SafeHere DEF Here
<1>2. Keeps(t)
  BY <1>1, TestOutcome, Typed DEF Keeps
<1>3. UNCHANGED <<blocks, magic>>
  BY <1>1, TestOutcome
<1>4. \A q \in Roles : \A c \in blocks' : HoldsAs(t, q, c)' => HoldsAs(t, q, c)
  BY <1>1, TestOutcome DEF HoldsAs, HasFound
<1> QED
  BY <1>2, <1>3, <1>4, FreshKept DEF Work

\* The walk goes on.
LEMMA StepFresh ==
  ASSUME SafeInv, NEW t \in Threads, Step(t)
  PROVE  FreshInv'
<1>1. Here(t)
  BY SafeHere
<1>2. Keeps(t)
  BY <1>1 DEF Here, Keeps, Step, TypeOK, choice, header, client
<1>3. UNCHANGED <<blocks, magic>>
  BY DEF Step, header
<1>4. \A q \in Roles : \A c \in blocks' : HoldsAs(t, q, c)' => HoldsAs(t, q, c)
  BY <1>1 DEF Here, Step, TypeOK, CallOK, HoldsAs, HasFound, Goto, client, args
<1> QED
  BY <1>2, <1>3, <1>4, FreshKept DEF Work

\* free = 0 gives the block to nobody yet.
LEMMA ClaimFresh ==
  ASSUME SafeInv, NEW t \in Threads, Claim(t)
  PROVE  FreshInv'
<1>1. Here(t)
  BY SafeHere
<1>2. Keeps(t)
  BY <1>1 DEF Here, Keeps, Claim, TypeOK, choice, header, client
<1>3. UNCHANGED <<blocks, magic>>
  BY DEF Claim, header
<1>4. \A q \in Roles : \A c \in blocks' : HoldsAs(t, q, c)' => HoldsAs(t, q, c)
  BY <1>1 DEF Here, Claim, TypeOK, CallOK, HoldsAs, HasFound, Goto, client, args
<1> QED
  BY <1>2, <1>3, <1>4, FreshKept DEF Work

\* The break is no block.
LEMMA ReadBreakFresh ==
  ASSUME SafeInv, NEW t \in Threads, ReadBreak(t)
  PROVE  FreshInv'
<1>1. Here(t)
  BY SafeHere
<1>2. Keeps(t)
  BY <1>1 DEF Here, Keeps, ReadBreak, TypeOK, choice, header, client
<1>3. UNCHANGED <<blocks, magic>>
  BY DEF ReadBreak, header
<1>4. \A q \in Roles : \A c \in blocks' : HoldsAs(t, q, c)' => HoldsAs(t, q, c)
  BY <1>1 DEF Here, ReadBreak, TypeOK, CallOK, HoldsAs, HasFound, Goto, client, args
<1> QED
  BY <1>2, <1>3, <1>4, FreshKept DEF Work

\* What sbrk() gives has no header yet.
LEMMA ExtendFresh ==
  ASSUME SafeInv, NEW t \in Threads, Extend(t)
  PROVE  FreshInv'
<1>1. Here(t)
  BY SafeHere
<1>2. Keeps(t)
  <2>1. brk \in Nat /\ brk' \in Nat /\ brk <= brk'
    BY <1>1, ExtendBreak DEF Here
  <2> QED
    BY <1>1, <2>1 DEF Here, Keeps, Extend, TypeOK, choice, header, client
<1>3. UNCHANGED <<blocks, magic>>
  BY DEF Extend, header
<1>4. \A q \in Roles : \A c \in blocks' : HoldsAs(t, q, c)' => HoldsAs(t, q, c)
  BY <1>1 DEF Here, Extend, TypeOK, CallOK, HoldsAs, HasFound, Goto, client, args
<1> QED
  BY <1>2, <1>3, <1>4, FreshKept DEF Work

\* sbrk() gives nothing.
LEMMA RefuseFresh ==
  ASSUME SafeInv, NEW t \in Threads, Refuse(t)
  PROVE  FreshInv'
<1>1. TypeOK
  BY SafeHere DEF Here
<1>2. Keeps(t)
  BY <1>1, RefuseOutcome, Typed DEF Keeps
<1>3. UNCHANGED <<blocks, magic>>
  BY <1>1, RefuseOutcome
<1>4. \A q \in Roles : \A c \in blocks' : HoldsAs(t, q, c)' => HoldsAs(t, q, c)
  BY <1>1, RefuseOutcome DEF HoldsAs, HasFound
<1> QED
  BY <1>2, <1>3, <1>4, FreshKept DEF Work

\* The list leads to what has no header yet.
LEMMA LinkFresh ==
  ASSUME SafeInv, NEW t \in Threads, Link(t)
  PROVE  FreshInv'
<1>1. Here(t)
  BY SafeHere
<1>2. Keeps(t)
  BY <1>1 DEF Here, Keeps, Link, TypeOK, choice, header, client
<1>3. UNCHANGED <<blocks, magic>>
  BY DEF Link, header
<1>4. \A q \in Roles : \A c \in blocks' : HoldsAs(t, q, c)' => HoldsAs(t, q, c)
  BY <1>1 DEF Here, Link, TypeOK, CallOK, HoldsAs, HasFound, Goto, client, args
<1> QED
  BY <1>2, <1>3, <1>4, FreshKept DEF Work

\* The first block has its holder already.
LEMMA BaseFresh ==
  ASSUME SafeInv, NEW t \in Threads, Base(t)
  PROVE  FreshInv'
<1>1. Here(t)
  BY SafeHere
<1>2. Keeps(t)
  BY <1>1 DEF Here, Keeps, Base, TypeOK, choice, header, client
<1>3. UNCHANGED <<blocks, magic>>
  BY DEF Base, header
<1>4. \A q \in Roles : \A c \in blocks' : HoldsAs(t, q, c)' => HoldsAs(t, q, c)
  BY <1>1 DEF Here, Base, TypeOK, CallOK, HoldsAs, HasFound, Goto, client, args
<1> QED
  BY <1>2, <1>3, <1>4, FreshKept DEF Work

\* free only looks.
LEMMA AssertionsFresh ==
  ASSUME SafeInv, NEW t \in Threads, Assertions(t)
  PROVE  FreshInv'
<1>1. Here(t)
  BY SafeHere
<1>2. Keeps(t)
  BY <1>1 DEF Here, Keeps, Assertions, TypeOK, choice, header, client
<1>3. UNCHANGED <<blocks, magic>>
  BY DEF Assertions, header
<1>4. \A q \in Roles : \A c \in blocks' : HoldsAs(t, q, c)' => HoldsAs(t, q, c)
  BY <1>1 DEF Here, Assertions, TypeOK, CallOK, HoldsAs, HasFound, Goto, client, args
<1> QED
  BY <1>2, <1>3, <1>4, FreshKept DEF Work

\* Marking a block as free makes no holder.
LEMMA MarkFreeFresh ==
  ASSUME SafeInv, NEW t \in Threads, MarkFree(t)
  PROVE  FreshInv'
<1>1. Here(t)
  BY SafeHere
<1>2. Keeps(t)
  BY <1>1 DEF Here, Keeps, MarkFree, TypeOK, choice, header, client
<1>3. UNCHANGED <<blocks, magic>>
  BY DEF MarkFree, header
<1>4. \A q \in Roles : \A c \in blocks' : HoldsAs(t, q, c)' => HoldsAs(t, q, c)
  BY <1>1 DEF Here, MarkFree, TypeOK, CallOK, HoldsAs, HasFound, Goto, client, args
<1> QED
  BY <1>2, <1>3, <1>4, FreshKept DEF Work

\* Whatever is held is a block.
LEMMA HolderHasBlock ==
  ASSUME SafeInv, NEW u \in Threads, NEW q \in Roles, NEW b \in Addr, HoldsAs(u, q, b)
  PROVE  b \in blocks
<1>1. HoldOK(u)
  BY DEF SafeInv, HoldInv
<1>2. get_block_ptr(payload(b)) = b
  OBVIOUS
<1> QED
  BY <1>1, <1>2 DEF HoldOK, HoldsAs

\* The magic of a reused block is never fresh again.
LEMMA ReuseFresh ==
  ASSUME SafeInv, NEW t \in Threads, Reuse(t)
  PROVE  FreshInv'
<1>1. Here(t)
  BY SafeHere
<1>2. Keeps(t)
  BY <1>1 DEF Here, Keeps, Reuse, TypeOK, choice, client
<1>3. PICK b \in Addr : b = block[t]
  BY <1>1 DEF Here, Reuse, TypeOK, LocalsOK
<1>4. magic'[b] = "reused" /\ FreshStays(b)
  BY <1>1, <1>3 DEF Here, Reuse, TypeOK, FreshStays
<1>5. GainsOnly(t, "found", b)
  BY <1>1, <1>3 DEF Here, Reuse, TypeOK, GainsOnly, HoldsAs, HasFound, Goto, client, args
<1>6. "found" \in Roles
  BY DEF Roles
<1> QED
  BY <1>2, <1>4, <1>5, <1>6, FreshStep DEF Work

\* The block request_space makes was nobody's.
LEMMA HeaderFresh ==
  ASSUME SafeInv, NEW t \in Threads, Header(t)
  PROVE  FreshInv'
<1>1. Here(t)
  BY SafeHere
<1>2. PICK b \in Addr : b = block[t] /\ b \notin blocks
  BY HeaderNew DEF SafeInv
<1>3. Keeps(t)
  BY <1>1, <1>2 DEF Here, Keeps, Header, TypeOK, choice, client
<1>4. FreshStays(b)
  BY <1>1, <1>2 DEF Here, Header, TypeOK, FreshStays
<1>5. GainsOnly(t, "found", b)
  BY <1>1, <1>2 DEF Here, Header, TypeOK, GainsOnly, HoldsAs, HasFound, Goto, client, args
<1>6. "found" \in Roles
  BY DEF Roles
<1>7. ASSUME NEW u \in Threads, NEW q \in Roles, HoldsAs(u, q, b)'
      PROVE  u = t /\ q = "found"
  <2>1. b \in blocks'
    BY <1>2 DEF Header
  <2>2. ~HoldsAs(u, q, b)
    BY <1>2, HolderHasBlock
  <2>3. u = t
    <3>1. SUFFICES ASSUME u # t PROVE FALSE
      OBVIOUS
    <3>2. SameFrame(u)
      BY <1>1, <3>1, OneMoves DEF Here, Work
    <3> QED
      BY <1>3, <1>7, <2>2, <3>1, <3>2 DEF SameFrame, HoldsAs, HasFound, Keeps
  <2> QED
    BY <1>5, <1>7, <2>1, <2>2, <2>3 DEF GainsOnly
<1> QED
  BY <1>3, <1>4, <1>5, <1>6, <1>7, FreshStep DEF Work

(* These steps make one, in place of another.                              *)

\* The pointer becomes the argument of free.
LEMMA CallFreeFresh ==
  ASSUME SafeInv, NEW t \in Threads, CallFree(t)
  PROVE  FreshInv'
<1>1. Here(t)
  BY SafeHere
<1>2. PICK u \in Threads : \E q \in owned[u] : GiveUp(u, q) /\ Enter(t, "free", 0, 0, q)
  BY DEF CallFree
<1>3. PICK p \in owned[u] : GiveUp(u, p) /\ Enter(t, "free", 0, 0, p)
  BY <1>2
<1>4. PICK b \in Addr : p = payload(b)
  <2>1. owned[u] \in SUBSET {payload(b) : b \in Addr}
    BY <1>1 DEF Here, TypeOK
  <2> QED
    BY <2>1
<1>5. Keeps(t) /\ UNCHANGED <<blocks, magic>>
  <2>1. \A v \in Threads \ {t} : owned'[v] \subseteq owned[v]
    BY <1>1, <1>3 DEF Here, TypeOK, GiveUp
  <2>2. brk \in Nat
    BY <1>1 DEF Here, TypeOK
  <2> QED
    BY <2>1, <2>2 DEF Keeps, CallFree, choice, header
<1>6. HoldsAs(u, "owned", b) /\ ~HoldsAs(u, "owned", b)'
  BY <1>1, <1>3, <1>4 DEF Here, TypeOK, HoldsAs, GiveUp
<1>7. GainsOnly(t, "argument", b)
  <2>1. op'[t] = "free" /\ ptr'[t] = payload(b) /\ owned'[t] \subseteq owned[t]
    BY <1>1, <1>3, <1>4 DEF Here, TypeOK, GiveUp, Enter
  <2>2. get_block_ptr(payload(b)) = b
    BY <1>4
  <2> HIDE DEF payload, get_block_ptr
  <2> QED
    BY <2>1, <2>2 DEF GainsOnly, HoldsAs, HasFound, Roles
<1>8. "owned" \in Roles /\ "argument" \in Roles
  BY DEF Roles
<1> QED
  BY <1>5, <1>6, <1>7, <1>8, FreshMoved DEF Call

\* The pointer becomes the caller's, or the argument of realloc.
LEMMA CallReallocFresh ==
  ASSUME SafeInv, NEW t \in Threads, CallRealloc(t)
  PROVE  FreshInv'
<1>1. Here(t)
  BY SafeHere
<1>2. PICK u \in Threads, s \in Requests :
        \E q \in owned[u] : ReallocInPlace(t, u, q, s) \/ ReallocMove(t, u, q, s)
  BY DEF CallRealloc
<1>3. PICK p \in owned[u] : ReallocInPlace(t, u, p, s) \/ ReallocMove(t, u, p, s)
  BY <1>2
<1>4. PICK b \in Addr : p = payload(b)
  <2>1. owned[u] \in SUBSET {payload(b) : b \in Addr}
    BY <1>1 DEF Here, TypeOK
  <2> QED
    BY <2>1
<1>5. /\ UNCHANGED <<variant, brk, blocks, size, magic, block>>
      /\ pc[t] = "idle" /\ TypeOK
      /\ "owned" \in Roles /\ "argument" \in Roles
  BY <1>1 DEF CallRealloc, MayCall, choice, header, Roles, Here
<1>6. HoldsAs(u, "owned", b)
  BY <1>4 DEF HoldsAs
<1>7. CASE ReallocInPlace(t, u, p, s)
  <2>1. /\ UNCHANGED <<pc, op, sz, len, ptr, cur, last>>
        /\ owned' = [owned EXCEPT ![u] = @ \ {p}, ![t] = @ \cup {p}]
    BY <1>7 DEF ReallocInPlace, args
  <2>2. Keeps(t)
    <3>1. \A v \in Threads \ {t} : owned'[v] \subseteq owned[v]
      BY <1>5, <2>1 DEF TypeOK
    <3>2. brk \in Nat
      BY <1>5 DEF TypeOK
    <3> QED
      BY <1>5, <3>1, <3>2 DEF Keeps
  <2>3. ~HoldsAs(u, "owned", b)' \/ u = t
    BY <1>4, <1>5, <2>1 DEF HoldsAs, TypeOK
  <2>4. GainsOnly(t, "owned", b)
    BY <1>4, <1>5, <2>1 DEF GainsOnly, HoldsAs, HasFound, TypeOK
  <2> QED
    BY <1>5, <1>6, <2>2, <2>3, <2>4, FreshMoved DEF Call
<1>8. CASE ReallocMove(t, u, p, s)
  <2>1. GiveUp(u, p) /\ EnterMalloc(t, "realloc", s, s, p)
    BY <1>8 DEF ReallocMove
  <2>2. Keeps(t)
    <3>1. \A v \in Threads \ {t} : owned'[v] \subseteq owned[v]
      BY <1>5, <2>1 DEF TypeOK, GiveUp
    <3>2. brk \in Nat
      BY <1>5 DEF TypeOK
    <3> QED
      BY <1>5, <3>1, <3>2 DEF Keeps
  <2>3. ~HoldsAs(u, "owned", b)'
    BY <1>4, <1>5, <2>1 DEF HoldsAs, TypeOK, GiveUp
  <2>4. GainsOnly(t, "argument", b)
    <3>1. /\ op'[t] = "realloc" /\ ptr'[t] = payload(b) /\ owned'[t] \subseteq owned[t]
          /\ pc'[t] \in {"brk", "test"}
      BY <1>4, <1>5, <2>1 DEF TypeOK, GiveUp, EnterMalloc, Enter, Goto
    <3>2. get_block_ptr(payload(b)) = b
      BY <1>4
    <3> HIDE DEF payload, get_block_ptr
    <3> QED
      BY <3>1, <3>2 DEF GainsOnly, HoldsAs, HasFound, Roles
  <2> QED
    BY <1>5, <1>6, <2>2, <2>3, <2>4, FreshMoved DEF Call
<1> QED
  BY <1>3, <1>7, <1>8

\* The argument of realloc becomes the caller's pointer again.
LEMMA ReturnNullFresh ==
  ASSUME SafeInv, NEW t \in Threads, ReturnNull(t)
  PROVE  FreshInv'
<1>1. Here(t)
  BY SafeHere
<1>2. Keeps(t) /\ UNCHANGED <<blocks, magic>>
  BY <1>1 DEF Here, Keeps, ReturnNull, Return, TypeOK, choice, header
<1>3. op'[t] = "none"
  BY <1>1 DEF Here, TypeOK, ReturnNull, Return, Enter
<1>4. CASE op[t] = "realloc"
  <2>0. PICK b \in Addr : b = get_block_ptr(ptr[t])
    BY <1>1, <1>4 DEF Here, CallOK
  <2>1. HoldsAs(t, "argument", b)
    BY <1>4, <2>0 DEF HoldsAs
  <2>2. \A c : ~HoldsAs(t, "argument", c)' /\ ~HoldsAs(t, "found", c)'
    BY <1>3 DEF HoldsAs, HasFound
  <2>3. GainsOnly(t, "owned", b)
    <3>1. \A c \in blocks' : payload(c) = ptr[t] => c = b
      BY <1>1, <1>2, <2>0 DEF Here, TypeOK
    <3>2. owned'[t] \subseteq owned[t] \cup {ptr[t]}
      BY <1>1 DEF Here, TypeOK, ReturnNull, Return
    <3> QED
      BY <2>2, <3>1, <3>2 DEF GainsOnly, HoldsAs, Roles
  <2>4. "owned" \in Roles /\ "argument" \in Roles
    BY DEF Roles
  <2> QED
    BY <1>2, <2>1, <2>2, <2>3, <2>4, FreshMoved DEF Work
<1>5. CASE op[t] # "realloc"
  <2>1. \A q \in Roles : \A c \in blocks' : HoldsAs(t, q, c)' => HoldsAs(t, q, c)
    <3>1. owned'[t] = owned[t]
      BY <1>1, <1>5 DEF Here, TypeOK, ReturnNull, Return, CallOK
    <3> QED
      BY <1>3, <3>1 DEF HoldsAs, HasFound
  <2> QED
    BY <1>2, <2>1, FreshKept DEF Work
<1> QED
  BY <1>4, <1>5

\* What malloc found becomes the caller's pointer.
LEMMA ReturnBlockFresh ==
  ASSUME SafeInv, NEW t \in Threads, ReturnBlock(t)
  PROVE  FreshInv'
<1>1. Here(t)
  BY SafeHere
<1>2. Keeps(t) /\ UNCHANGED <<blocks, magic>>
  <2>1. \A u \in Threads \ {t} : owned'[u] \subseteq owned[u]
    BY <1>1 DEF Here, TypeOK, ReturnBlock, Return, client
  <2>2. brk \in Nat
    BY <1>1 DEF Here, TypeOK
  <2> QED
    BY <2>1, <2>2 DEF Keeps, ReturnBlock, choice, header
<1>3. CASE op[t] = "malloc"
  <2>0. PICK b \in Addr : b = block[t]
    BY <1>1 DEF Here, TypeOK, ReturnBlock
  <2>1. HoldsAs(t, "found", b)
    BY <1>1, <1>3, <2>0 DEF Here, TypeOK, HoldsAs, HasFound, ReturnBlock
  <2>2. op'[t] = "none" /\ owned'[t] = owned[t] \cup {payload(b)}
    BY <1>1, <1>3, <2>0 DEF Here, TypeOK, ReturnBlock, Return, Enter
  <2>3. \A c : ~HoldsAs(t, "argument", c)' /\ ~HoldsAs(t, "found", c)'
    BY <2>2 DEF HoldsAs, HasFound
  <2>4. GainsOnly(t, "owned", b)
    <3>1. \A c \in blocks' : payload(c) = payload(b) => c = b
      <4>1. blocks' \subseteq Addr
        BY <1>1, <1>2 DEF Here, TypeOK
      <4> QED
        BY <2>0, <4>1
    <3> QED
      BY <2>2, <2>3, <3>1 DEF GainsOnly, HoldsAs, Roles
  <2>5. "owned" \in Roles /\ "found" \in Roles
    BY DEF Roles
  <2> QED
    BY <1>2, <2>1, <2>3, <2>4, <2>5, FreshMoved DEF Work
<1>4. CASE op[t] # "malloc"
  <2>1. \A q \in Roles : \A c \in blocks' : HoldsAs(t, q, c)' => HoldsAs(t, q, c)
    <3>1. CASE Return(t, {})
      <4>1. op'[t] = "none" /\ owned'[t] = owned[t]
        BY <1>1, <3>1 DEF Here, TypeOK, Return, Enter
      <4> QED
        BY <4>1 DEF HoldsAs, HasFound
    <3>2. CASE /\ op[t] = "realloc" /\ pc[t] = "return" /\ block[t] # NULL
               /\ Goto(t, "check") /\ UNCHANGED <<client, args, cur, last, block>>
      <4>1. pc'[t] = "check" /\ UNCHANGED <<owned, op, ptr, block>>
        BY <1>1, <3>2 DEF Here, TypeOK, Goto, client, args
      <4> QED
        BY <3>2, <4>1 DEF HoldsAs, HasFound
    <3> QED
      BY <1>4, <3>1, <3>2 DEF ReturnBlock
  <2> QED
    BY <1>2, <2>1, FreshKept DEF Work
<1> QED
  BY <1>3, <1>4

\* What realloc's malloc found becomes the caller's pointer; its argument is nobody's.
LEMMA StampFreeFresh ==
  ASSUME SafeInv, NEW t \in Threads, StampFree(t)
  PROVE  FreshInv'
<1>1. Here(t)
  BY SafeHere
<1>2. Keeps(t) /\ UNCHANGED blocks
  <2>1. UNCHANGED <<brk, blocks, size, variant>>
    BY DEF StampFree, choice
  <2>2. brk \in Nat /\ \A u \in Threads \ {t} : owned'[u] = owned[u]
    BY <1>1 DEF Here, StampFree, Return, TypeOK
  <2> QED
    BY <2>1, <2>2 DEF Keeps
<1>3. \A c \in blocks : magic'[c] = "fresh" => magic[c] = "fresh"
  BY <1>1 DEF Here, TypeOK, StampFree
<1>4. op'[t] = "none"
  BY <1>1 DEF Here, TypeOK, StampFree, Return, Enter
<1>5. \A c : ~HoldsAs(t, "argument", c)' /\ ~HoldsAs(t, "found", c)'
  BY <1>4 DEF HoldsAs, HasFound
<1>6. CASE op[t] = "realloc"
  <2>0. PICK b \in Addr : b = block[t]
    BY <1>1, <1>6 DEF Here, TypeOK, LocalsOK, StampFree
  <2>1. HoldsAs(t, "found", b)
    BY <1>1, <1>6, <2>0 DEF Here, TypeOK, LocalsOK, HoldsAs, HasFound, StampFree
  <2>2. owned'[t] = owned[t] \cup {payload(b)}
    BY <1>1, <1>6, <2>0 DEF Here, TypeOK, StampFree, Return
  <2>3. GainsOnly(t, "owned", b)
    <3>1. \A c \in blocks' : payload(c) = payload(b) => c = b
      <4>1. blocks' \subseteq Addr
        BY <1>1, <1>2 DEF Here, TypeOK
      <4> QED
        BY <2>0, <4>1
    <3> QED
      BY <1>5, <2>2, <3>1 DEF GainsOnly, HoldsAs, Roles
  <2>4. "owned" \in Roles /\ "found" \in Roles
    BY DEF Roles
  <2> QED
    BY <1>2, <1>3, <1>5, <2>1, <2>3, <2>4, FreshMoved DEF Work
<1>7. CASE op[t] # "realloc"
  <2>1. \A q \in Roles : \A c \in blocks' : HoldsAs(t, q, c)' => HoldsAs(t, q, c)
    <3>1. owned'[t] = owned[t]
      BY <1>1, <1>7 DEF Here, TypeOK, StampFree, Return
    <3> QED
      BY <1>5, <3>1 DEF HoldsAs, Roles
  <2> QED
    BY <1>2, <1>3, <2>1, FreshKept DEF Work
<1> QED
  BY <1>6, <1>7

-----------------------------------------------------------------------------
(* All of it.                                                              *)

\* The invariant holds when the process starts.
LEMMA InitSafe == Init => SafeInv
<1> SUFFICES ASSUME Init PROVE SafeInv
  OBVIOUS
<1>1. LayoutInv
  BY InitLayout
<1>2. OrderInv
  BY DEF Init, OrderInv, ChainOK, OrderOK
<1>3. HoldInv
  BY DEF Init, HoldInv, FreeOK, HoldOK, HasFound
<1>4. GrantInv
  BY DEF Init, GrantInv, GrantOK, HasFound
<1>5. FreshInv
  BY DEF Init, FreshInv
<1> QED
  BY <1>1, <1>2, <1>3, <1>4, <1>5 DEF SafeInv

\* Nothing happens and nothing is lost.
LEMMA StutterSafe ==
  ASSUME SafeInv, UNCHANGED vars
  PROVE  SafeInv'
<1>1. UNCHANGED <<variant, callers, brk, global_base, blocks, size, next, free, magic, raw,
                  owned, pc, op, sz, len, ptr, cur, last, block>>
  BY DEF vars, choice, header, client, args
<1>2. LayoutInv'
  BY StutterLayout DEF SafeInv
<1>3. OrderInv'
  BY <1>1 DEF SafeInv, OrderInv, ChainOK, OrderOK
<1>4. HoldInv'
  BY <1>1 DEF SafeInv, HoldInv, FreeOK, HoldOK, HasFound
<1>5. GrantInv'
  BY <1>1 DEF SafeInv, GrantInv, GrantOK, HasFound
<1>6. FreshInv'
  BY <1>1 DEF SafeInv, FreshInv, HoldsAs, HasFound
<1> QED
  BY <1>2, <1>3, <1>4, <1>5, <1>6 DEF SafeInv

\* Every step preserves the invariant.
LEMMA NextSafe ==
  ASSUME SafeInv, FittingRequests, [Next]_vars
  PROVE  SafeInv'
<1>1. LayoutInv'
  BY NextLayout DEF SafeInv
<1>2. ASSUME NEW t \in Threads, Call(t)
      PROVE  SafeInv'
  <2>1. OrderInv' /\ HoldInv' /\ GrantInv'
    BY <1>2, CallMallocRest, CallCallocRest, CallFreeRest, CallReallocRest,
       CallNoFreeRest DEF Call
  <2>2. FreshInv'
    BY <1>2, CallMallocFresh, CallCallocFresh, CallFreeFresh,
       CallReallocFresh, CallNoFreeFresh DEF Call
  <2> QED
    BY <1>1, <2>1, <2>2 DEF SafeInv
<1>3. ASSUME NEW t \in Threads, Work(t)
      PROVE  SafeInv'
  <2>1. OrderInv' /\ HoldInv' /\ GrantInv'
    BY <1>3, TestRest, StepRest, ClaimRest, ReuseRest, ReadBreakRest,
       ExtendRest, RefuseRest, LinkRest, HeaderRest, BaseRest, ReturnNullRest,
       ReturnBlockRest, AssertionsRest, MarkFreeRest, StampFreeRest DEF Work
  <2>2. FreshInv'
    BY <1>3, TestFresh, StepFresh, ClaimFresh, ReuseFresh, ReadBreakFresh,
       ExtendFresh, RefuseFresh, LinkFresh, HeaderFresh, BaseFresh,
       ReturnNullFresh, ReturnBlockFresh, AssertionsFresh, MarkFreeFresh,
       StampFreeFresh DEF Work
  <2> QED
    BY <1>1, <2>1, <2>2 DEF SafeInv
<1> QED
  BY <1>2, <1>3, StutterSafe DEF Next

-----------------------------------------------------------------------------
(* The theorems.                                                           *)

(* SafeInv is inductive for both files, without a lock and for any number  *)
(* of threads: what is left of the allocator when calls race.              *)
THEOREM Safe ==
  ASSUME FittingRequests
  PROVE  Spec => []SafeInv
<1>1. Init => SafeInv
  BY InitSafe
<1>2. SafeInv /\ [Next]_vars => SafeInv'
  BY NextSafe
<1> QED
  BY <1>1, <1>2, PTL DEF Spec

(* Blocks and the regions of nofree_malloc overlap nothing and stay below  *)
(* the break: the assertion of request_space is what keeps two threads     *)
(* from the same memory.                                                   *)
THEOREM DisjointUnlocked ==
  ASSUME FittingRequests
  PROVE  Spec => []BlocksDisjoint
<1>1. SafeInv => BlocksDisjoint
  BY DEF SafeInv, LayoutInv
<1> QED
  BY <1>1, Safe, PTL

(* A block that request_space made is one thread's until it is reused: the *)
(* search that two threads make at once is the only way to share one.      *)
THEOREM SharedAfterReuse ==
  ASSUME FittingRequests
  PROVE  Spec => []SharedOnlyAfterReuse
<1>1. SafeInv => SharedOnlyAfterReuse
  <2> SUFFICES ASSUME SafeInv, NEW b \in blocks, magic[b] = "fresh",
                      NEW t \in Threads, NEW u \in Threads,
                      payload(b) \in owned[t] \cap owned[u]
               PROVE  t = u
    BY DEF SharedOnlyAfterReuse
  <2>1. HoldsAs(t, "owned", b) /\ HoldsAs(u, "owned", b) /\ "owned" \in Roles
    BY DEF HoldsAs, Roles
  <2> QED
    BY <2>1 DEF SafeInv, FreshInv
<1> QED
  BY <1>1, Safe, PTL

(* Also a block that two threads claimed is large enough for both, and     *)
(* realloc copies no more than fits; but for a calloc in src/malloc.c      *)
(* whose product does not fit in a size_t.                                 *)
THEOREM GrantsCoverRequests ==
  ASSUME FittingRequests
  PROVE  Spec => []GrantsCover
<1>1. SafeInv => GrantsCover
  <2> SUFFICES ASSUME SafeInv, NEW t \in Threads,
                      pc[t] = "return", block[t] # NULL, op[t] # "nofree"
               PROVE  /\ len[t] <= size[block[t]] \/ (variant = "preloaded" /\ len[t] > SIZE_MAX)
                      /\ op[t] = "realloc" => size[get_block_ptr(ptr[t])] <= size[block[t]]
    BY DEF GrantsCover
  <2>1. Here(t)
    BY SafeHere
  <2>2. HasFound(t)
    BY <2>1 DEF Here, CallOK, HasFound
  <2>3. /\ len[t] \in Nat /\ sz[t] \in Nat /\ size[block[t]] \in Nat
        /\ op[t] = "realloc" => size[get_block_ptr(ptr[t])] \in Nat
    BY <2>1, SMTT(30) DEF Here, TypeOK, CallOK
  <2> QED
    BY <2>1, <2>2, <2>3 DEF Here, GrantOK, HasFound
<1> QED
  BY <1>1, Safe, PTL

(* find_free_block cannot go round in circles, whatever two appends at     *)
(* once have made of the list.                                             *)
THEOREM WalksEnd ==
  ASSUME FittingRequests
  PROVE  Spec => WalksAscend
<1>1. ASSUME SafeInv, [Next]_vars, NEW t \in Threads, pc[t] = "step", pc'[t] # "step"
      PROVE  cur'[t] = NULL \/ cur[t] < cur'[t]
  <2>1. Here(t)
    BY <1>1, SafeHere
  <2>2. PICK u \in Threads : Call(u) \/ Work(u)
    BY <1>1 DEF Next, vars
  <2>3. u = t
    BY <1>1, <2>1, <2>2, OneMoves DEF Here, SameFrame
  <2>4. Step(t)
    BY <1>1, <2>2, <2>3 DEF Call, Work, MayCall, CallMalloc, CallCalloc, CallFree, CallRealloc,
       CallNoFree, Test, Claim, Reuse, ReadBreak, Extend, Refuse, Link, Header, Base,
       ReturnNull, ReturnBlock, Assertions, MarkFree, StampFree
  <2>5. cur[t] \in Addr /\ cur'[t] = next[cur[t]]
    BY <2>1, <2>4 DEF Here, TypeOK, LocalsOK, Step
  <2> QED
    BY <2>1, <2>5 DEF Here, ChainOK
<1>2. SafeInv /\ [Next]_vars =>
        [\A t \in Threads :
           pc[t] = "step" /\ pc'[t] # "step" => cur'[t] = NULL \/ cur[t] < cur'[t]]_vars
  BY <1>1
<1> QED
  BY <1>2, Safe, PTL DEF Spec, WalksAscend

-----------------------------------------------------------------------------
(* One thread calls: the list leads to every block, a block is free         *)
(* exactly when nobody holds it, the assertions of free() hold, and both   *)
(* files implement Allocator.                                              *)

\* One thread calls, and all that is said of it holds.
One == callers = "one" /\ SafeInv /\ OneFrames /\ OneCall /\ OneList /\ OneMarks

-----------------------------------------------------------------------------
(* The thread that calls.                                                  *)

\* Nobody else moves.
LEMMA OnlyMain ==
  ASSUME callers = "one", OneFrames, NEW t \in Threads, Call(t) \/ Work(t)
  PROVE  t = Main
<1>1. Call(t) => t = Main
  BY DEF Call, CallMalloc, CallCalloc, CallFree, CallRealloc, CallNoFree, MayCall
<1>2. Work(t) => pc[t] # "idle"
  BY DEF Work, Test, Step, Claim, Reuse, ReadBreak, Extend, Refuse, Link, Header, Base,
         ReturnNull, ReturnBlock, Assertions, MarkFree, StampFree
<1> QED
  BY <1>1, <1>2 DEF OneFrames

\* The pointers are all the caller's.
LEMMA OthersOwnNothing ==
  ASSUME One, Call(Main) \/ Work(Main)
  PROVE  \A t \in Threads \ {Main} : owned'[t] = {}
<1> USE DEF One, OneFrames, SafeInv, LayoutInv, TypeOK, client, args
<1>1. CASE CallMalloc(Main) \/ CallCalloc(Main) \/ CallNoFree(Main)
  BY <1>1 DEF CallMalloc, CallCalloc, CallNoFree
<1>2. CASE CallFree(Main)
  BY <1>2 DEF CallFree, GiveUp
<1>3. CASE CallRealloc(Main)
  BY <1>3 DEF CallRealloc, ReallocInPlace, ReallocMove, GiveUp
<1>4. CASE Test(Main) \/ Step(Main) \/ Claim(Main) \/ Reuse(Main) \/ ReadBreak(Main)
           \/ Extend(Main) \/ Refuse(Main) \/ Link(Main) \/ Header(Main) \/ Base(Main)
           \/ Assertions(Main) \/ MarkFree(Main)
  BY <1>4 DEF Test, Step, Claim, Reuse, ReadBreak, Extend, Refuse, Link, Header, Base,
              Assertions, MarkFree
<1>5. CASE ReturnNull(Main) \/ ReturnBlock(Main) \/ StampFree(Main)
  BY <1>5 DEF ReturnNull, ReturnBlock, StampFree, Return
<1> QED
  BY <1>1, <1>2, <1>3, <1>4, <1>5 DEF Call, Work

\* The others stay as they are.
LEMMA FramesKept ==
  ASSUME One, Call(Main) \/ Work(Main)
  PROVE  OneFrames'
<1>1. \A t \in Threads \ {Main} : SameFrame(t)
  BY OneMoves DEF One, SafeInv, LayoutInv
<1> QED
  BY <1>1, OthersOwnNothing DEF One, OneFrames, SameFrame

\* What is known of the caller and of each block.
LEMMA OneHere ==
  ASSUME One
  PROVE  /\ Here(Main) /\ TypeOK /\ CallOK(Main) /\ LocalsOK(Main)
         /\ pc[Main] \in PCs /\ op[Main] \in {"none", "malloc", "nofree", "realloc", "free"}
         /\ \A b \in blocks : b \in Addr /\ b \in Nat /\ size[b] \in Nat /\ BlockEnd(b) <= brk
                              /\ b < brk
<1>1. Here(Main)
  BY SafeHere DEF One
<1>2. TypeOK /\ CallOK(Main) /\ LocalsOK(Main)
  BY <1>1 DEF Here
<1>3. pc[Main] \in PCs /\ op[Main] \in {"none", "malloc", "nofree", "realloc", "free"}
  BY <1>2 DEF TypeOK
<1>4. ASSUME NEW b \in blocks
      PROVE  b \in Addr /\ b \in Nat /\ size[b] \in Nat /\ BlockEnd(b) <= brk /\ b < brk
  <2>1. b \in Addr /\ size[b] \in SizeT /\ brk \in Nat /\ BlockEnd(b) <= brk
    BY <1>2 DEF TypeOK, One, SafeInv, LayoutInv, BlocksDisjoint
  <2> QED
    BY <2>1 DEF BlockEnd
<1> QED
  BY <1>1, <1>2, <1>3, <1>4

\* A pointer the client owns is the payload of a block.
LEMMA OwnedPointers ==
  ASSUME One, NEW u \in Threads, NEW p \in owned[u]
  PROVE  /\ u = Main /\ p \in Nat /\ get_block_ptr(p) \in blocks
         /\ payload(get_block_ptr(p)) = p
<1>1. u = Main /\ HoldOK(Main) /\ TypeOK
  BY DEF One, OneFrames, SafeInv, LayoutInv, HoldInv
<1>2. get_block_ptr(p) \in blocks
  BY <1>1 DEF HoldOK
<1>3. PICK a \in Addr : p = payload(a)
  <2>1. owned[u] \in SUBSET {payload(b) : b \in Addr}
    BY <1>1 DEF TypeOK
  <2>2. p \in {payload(b) : b \in Addr}
    BY <2>1
  <2> QED
    BY <2>2
<1>4. a \in Nat /\ META_SIZE \in Nat
  OBVIOUS
<1>5. p \in Nat /\ payload(get_block_ptr(p)) = p
  BY <1>3, <1>4
<1> QED
  BY <1>1, <1>2, <1>5

\* What free() is given is marked as a block in use.
LEMMA ArgumentInUse ==
  ASSUME One, pc[Main] = "check"
  PROVE  LooksInUse(get_block_ptr(ptr[Main]))
<1>1. PICK b : b = get_block_ptr(ptr[Main])
  OBVIOUS
<1>2. op[Main] \in {"free", "realloc"} /\ IsArgument(b)
  BY <1>1, OneHere DEF CallOK, IsArgument
<1>3. b \in blocks /\ magic[b] \in {"zero", "fresh", "reused", "freed"}
  BY <1>1, <1>2, OneHere DEF Here, HoldOK, TypeOK
<1>4. ~free[b] /\ magic[b] # "zero" /\ magic[b] # "freed"
  BY <1>2, <1>3 DEF One, OneMarks, MarksOK
<1> QED
  BY <1>1, <1>3, <1>4 DEF LooksInUse

-----------------------------------------------------------------------------
(* The call in progress.                                                   *)

\* A call that starts asks for something, or gives something back.
LEMMA CallsKeepCall ==
  ASSUME One, Call(Main)
  PROVE  OneCall'
<1>1. /\ TypeOK /\ pc[Main] = "idle" /\ OneCall /\ op[Main] = "none"
      /\ UNCHANGED <<variant, raw, block>>
  <2>1. pc[Main] = "idle" /\ UNCHANGED <<variant, raw, block>>
    BY DEF Call, CallMalloc, CallCalloc, CallFree, CallRealloc, CallNoFree, MayCall, choice,
           client
  <2> QED
    BY <2>1, OneHere DEF One, OneCall
<1>2. ASSUME NEW o, NEW s, s \in SizeT, NEW n, NEW p, NEW l, Enter(Main, o, s, n, p), Goto(Main, l),
             \/ o \in {"malloc", "nofree", "realloc"} /\ s # 0 /\ l \in {"brk", "test"}
             \/ o = "free" /\ s = 0 /\ l = "check"
      PROVE  OneCall'
  <2>1. op'[Main] = o /\ sz'[Main] = s /\ pc'[Main] = l
    BY <1>1, <1>2 DEF Enter, Goto, TypeOK
  <2> QED
    BY <1>1, <1>2, <2>1 DEF OneCall
<1>3. ASSUME NEW o, NEW s \in SizeT \ {0}, NEW n, NEW p, EnterMalloc(Main, o, s, n, p),
             o \in {"malloc", "realloc"}
      PROVE  OneCall'
  <2>1. PICK l \in {"brk", "test"} : Goto(Main, l)
    BY <1>3 DEF EnterMalloc
  <2> QED
    BY <1>2, <1>3, <2>1 DEF EnterMalloc
<1>4. CASE CallMalloc(Main)
  BY <1>3, <1>4 DEF CallMalloc
<1>5. CASE CallCalloc(Main)
  <2>1. PICK a \in CallocArgs :
          /\ SizeMul(a[1], a[2]) # 0
          /\ EnterMalloc(Main, "malloc", SizeMul(a[1], a[2]), a[1] * a[2], NULL)
    BY <1>5 DEF CallCalloc
  <2>2. SizeMul(a[1], a[2]) \in SizeT
    <3>1. a[1] \in SizeT /\ a[2] \in SizeT
      OBVIOUS
    <3> QED
      BY <3>1, ProductTyped
  <2> QED
    BY <1>3, <2>1, <2>2
<1>6. CASE CallFree(Main)
  BY <1>2, <1>6 DEF CallFree
<1>7. CASE CallRealloc(Main)
  <2>1. PICK u \in Threads, s \in Requests :
          \E p \in owned[u] : ReallocInPlace(Main, u, p, s) \/ ReallocMove(Main, u, p, s)
    BY <1>7 DEF CallRealloc
  <2>2. PICK p \in owned[u] : ReallocInPlace(Main, u, p, s) \/ ReallocMove(Main, u, p, s)
    BY <2>1
  <2>3. CASE ReallocInPlace(Main, u, p, s)
    BY <1>1, <2>3 DEF ReallocInPlace, OneCall, args
  <2>4. CASE ReallocMove(Main, u, p, s)
    <3>1. get_block_ptr(p) \in Addr
      BY OwnedPointers, OneHere
    <3>2. EnterMalloc(Main, "realloc", s, s, p)
      BY <2>4 DEF ReallocMove
    <3>3. size[get_block_ptr(p)] < s /\ s \in SizeT
      BY <2>4 DEF ReallocMove
    <3>4. size[get_block_ptr(p)] \in Nat
      BY <1>1, <3>1 DEF TypeOK
    <3>5. s \in SizeT \ {0}
      BY <3>3, <3>4
    <3> QED
      BY <1>3, <3>2, <3>5
  <2> QED
    BY <2>2, <2>3, <2>4
<1>8. CASE CallNoFree(Main)
  BY <1>2, <1>8 DEF CallNoFree
<1> QED
  BY <1>4, <1>5, <1>6, <1>7, <1>8 DEF Call

\* Its size stays until it returns; the break it read is still the break.
LEMMA WorkKeepsCall ==
  ASSUME One, Work(Main)
  PROVE  OneCall'
<1>1. TypeOK /\ CallOK(Main) /\ LocalsOK(Main) /\ OneCall /\ pc[Main] \in PCs
  BY OneHere DEF One
<1> USE <1>1 DEF TypeOK, OneCall, Goto, choice, client, args
<1>2. CASE Test(Main) \/ Step(Main) \/ Claim(Main) \/ Reuse(Main)
  <2>1. /\ pc[Main] \in {"test", "step", "claim", "reuse"}
        /\ pc'[Main] \in {"test", "step", "brk", "claim", "reuse", "return"}
        /\ UNCHANGED <<variant, brk, raw, op, sz>>
    BY <1>2 DEF Test, Step, Claim, Reuse
  <2> QED
    BY <2>1
<1>3. CASE ReadBreak(Main)
  BY <1>3 DEF ReadBreak
<1>4. CASE Extend(Main)
  BY <1>4 DEF Extend, BreakUnmoved
<1>5. CASE Refuse(Main)
  <2>1. pc[Main] = "sbrk" /\ UNCHANGED <<variant, brk, raw, op, sz>>
    BY <1>5 DEF Refuse
  <2>2. \/ /\ variant = "preloaded" /\ op[Main] # "nofree"
           /\ pc'[Main] = "aborted" /\ block'[Main] = block[Main]
        \/ pc'[Main] = "return"
    BY <1>5 DEF Refuse
  <2>3. op[Main] \in {"malloc", "nofree", "realloc"} /\ block[Main] = brk
    BY <2>1 DEF CallOK
  <2> QED
    BY <2>1, <2>2, <2>3
<1>6. CASE Link(Main) \/ Header(Main) \/ Base(Main) \/ MarkFree(Main)
  <2>1. /\ pc[Main] \in {"link", "header", "base", "mark"}
        /\ pc'[Main] \in {"header", "base", "return", "freed"}
        /\ UNCHANGED <<variant, brk, raw, op, sz>>
    BY <1>6 DEF Link, Header, Base, MarkFree
  <2> QED
    BY <2>1
<1>7. CASE ReturnNull(Main) \/ StampFree(Main)
  BY <1>7 DEF ReturnNull, StampFree, Return, Enter
<1>8. CASE ReturnBlock(Main)
  <2>1. CASE op[Main] = "nofree"
    BY <1>8, <2>1 DEF ReturnBlock, Return, Enter
  <2>2. CASE op[Main] = "malloc"
    <3>1. Return(Main, {payload(block[Main])}) /\ UNCHANGED <<variant, brk, raw>>
      BY <1>8, <2>2 DEF ReturnBlock
    <3>2. pc'[Main] = "idle" /\ op'[Main] = "none" /\ sz'[Main] = 0
      BY <3>1 DEF Return, Enter
    <3> QED
      BY <3>1, <3>2
  <2>3. CASE op[Main] = "realloc"
    <3>1. pc[Main] = "return" /\ pc'[Main] = "check" /\ UNCHANGED <<variant, brk, raw, op, sz, block>>
      BY <1>8, <2>3 DEF ReturnBlock
    <3> QED
      BY <3>1
  <2> QED
    BY <1>8, <2>1, <2>2, <2>3 DEF ReturnBlock
<1>9. CASE Assertions(Main)
  <2>1. LooksInUse(get_block_ptr(ptr[Main]))
    BY <1>9, ArgumentInUse DEF Assertions
  <2> QED
    BY <1>9, <2>1 DEF Assertions
<1> QED
  BY <1>2, <1>3, <1>4, <1>5, <1>6, <1>7, <1>8, <1>9 DEF Work

-----------------------------------------------------------------------------
(* The list.                                                               *)

\* A step that writes no link and appends nothing.
LEMMA ListStays ==
  ASSUME One, UNCHANGED <<blocks, next, global_base>>,
         pc[Main] \notin {"header", "base"}, pc'[Main] \notin {"link", "header", "base"},
         pc'[Main] \in {"test", "step"} => cur'[Main] \in blocks,
         op'[Main] \in {"malloc", "realloc"} /\ pc'[Main] \in {"brk", "sbrk"} =>
           \/ last'[Main] = NULL /\ blocks = {}
           \/ last'[Main] \in blocks /\ \A c \in blocks : c <= last'[Main]
  PROVE  OneList'
<1>1. OneList
  BY DEF One
<1>2. \A b \in blocks : NextInOrder(b)'
  BY <1>1 DEF OneList, NextInOrder
<1> QED
  BY <1>1, <1>2 DEF OneList

\* A search starts at the head of the list, or finds the list empty.
LEMMA CallsKeepList ==
  ASSUME One, Call(Main)
  PROVE  OneList'
<1>1. /\ TypeOK /\ pc[Main] = "idle" /\ OneList
      /\ UNCHANGED <<blocks, next, global_base>>
  <2>1. pc[Main] = "idle" /\ UNCHANGED <<blocks, next, global_base>>
    BY DEF Call, CallMalloc, CallCalloc, CallFree, CallRealloc, CallNoFree, MayCall, header
  <2> QED
    BY <2>1, OneHere DEF One
<1>2. ASSUME NEW o, NEW s, NEW n, NEW p, EnterMalloc(Main, o, s, n, p)
      PROVE  OneList'
  <2>1. cur'[Main] = global_base /\ last'[Main] = global_base
    BY <1>1, <1>2 DEF EnterMalloc, TypeOK
  <2>2. pc'[Main] = IF global_base = NULL THEN "brk" ELSE "test"
    BY <1>1, <1>2 DEF EnterMalloc, Goto, TypeOK
  <2>3. global_base = NULL => blocks = {}
    BY <1>1 DEF OneList
  <2>4. global_base # NULL => global_base \in blocks
    BY <1>1 DEF OneList
  <2> QED
    BY <1>1, <2>1, <2>2, <2>3, <2>4, ListStays
<1>3. CASE CallMalloc(Main)
  BY <1>2, <1>3 DEF CallMalloc
<1>4. CASE CallCalloc(Main)
  BY <1>2, <1>4 DEF CallCalloc
<1>5. CASE CallFree(Main)
  <2>1. pc'[Main] = "check"
    BY <1>1, <1>5 DEF CallFree, Goto, TypeOK
  <2> QED
    BY <1>1, <2>1, ListStays
<1>6. CASE CallRealloc(Main)
  <2>1. PICK u \in Threads, s \in Requests :
          \E p \in owned[u] : ReallocInPlace(Main, u, p, s) \/ ReallocMove(Main, u, p, s)
    BY <1>6 DEF CallRealloc
  <2>2. PICK p \in owned[u] : ReallocInPlace(Main, u, p, s) \/ ReallocMove(Main, u, p, s)
    BY <2>1
  <2>3. CASE ReallocInPlace(Main, u, p, s)
    <3>1. pc'[Main] = "idle"
      BY <1>1, <2>3 DEF ReallocInPlace
    <3> QED
      BY <1>1, <3>1, ListStays
  <2>4. CASE ReallocMove(Main, u, p, s)
    BY <1>2, <2>4 DEF ReallocMove
  <2> QED
    BY <2>2, <2>3, <2>4
<1>7. CASE CallNoFree(Main)
  <2>1. pc'[Main] = "brk" /\ op'[Main] = "nofree"
    BY <1>1, <1>7 DEF CallNoFree, Goto, Enter, TypeOK
  <2> QED
    BY <1>1, <2>1, ListStays
<1> QED
  BY <1>3, <1>4, <1>5, <1>6, <1>7 DEF Call

\* The search visits blocks in order, and ends behind the last.
LEMMA SearchKeepsList ==
  ASSUME One, Test(Main) \/ Step(Main)
  PROVE  OneList'
<1>1. TypeOK /\ OneList /\ cur[Main] \in blocks
  BY OneHere DEF One, OneList, Test, Step
<1>2. UNCHANGED <<blocks, next, global_base>>
  BY DEF Test, Step, header
<1>3. CASE Test(Main)
  <2>1. pc[Main] = "test" /\ pc'[Main] \in {"claim", "step"}
        /\ (pc'[Main] = "step" => cur'[Main] = cur[Main])
    BY <1>1, <1>3 DEF Test, Goto, TypeOK
  <2> QED
    BY <1>1, <1>2, <2>1, ListStays
<1>4. CASE Step(Main)
  <2>1. /\ pc[Main] = "step" /\ last'[Main] = cur[Main] /\ cur'[Main] = next[cur[Main]]
        /\ pc'[Main] = IF next[cur[Main]] = NULL THEN "brk" ELSE "test"
    BY <1>1, <1>4 DEF Step, Goto, TypeOK
  <2>2. NextInOrder(cur[Main])
    BY <1>1, <2>1 DEF OneList
  <2>3. NULL \notin blocks
    BY OneHere
  <2>4. pc'[Main] = "brk" => last'[Main] \in blocks /\ \A c \in blocks : c <= last'[Main]
    BY <1>1, <2>1, <2>2, <2>3 DEF NextInOrder
  <2>5. pc'[Main] = "test" => cur'[Main] \in blocks
    BY <2>1, <2>2 DEF NextInOrder
  <2>6. pc'[Main] \in {"brk", "test"}
    BY <2>1
  <2> QED
    BY <1>2, <2>1, <2>4, <2>5, <2>6, ListStays
<1> QED
  BY <1>3, <1>4

\* request_space makes a block above all others, links it and writes it.
LEMMA AppendKeepsList ==
  ASSUME One, ReadBreak(Main) \/ Extend(Main) \/ Link(Main) \/ Header(Main) \/ Base(Main)
  PROVE  OneList'
<1>1. TypeOK /\ OneList /\ CallOK(Main) /\ LocalsOK(Main)
  BY OneHere DEF One
<1>2. CASE ReadBreak(Main)
  <2>1. UNCHANGED <<blocks, next, global_base, op, last>> /\ pc[Main] = "brk" /\ pc'[Main] = "sbrk"
    BY <1>1, <1>2 DEF ReadBreak, Goto, TypeOK, header, args
  <2> QED
    BY <1>1, <2>1, ListStays DEF OneList
<1>3. CASE Extend(Main)
  <2>1. /\ UNCHANGED <<blocks, next, global_base, op, last, block>> /\ pc[Main] = "sbrk"
        /\ pc'[Main] \in {"aborted", "return", "header", "link"}
        /\ pc'[Main] = "header" => last[Main] = NULL
        /\ pc'[Main] \in {"link", "header"} => op[Main] # "nofree"
    BY <1>1, <1>3 DEF Extend, Goto, TypeOK, header, args
  <2>2. \A c \in blocks : c < block[Main]
    BY <2>1, OneHere DEF One, OneCall
  <2>3. \A b \in blocks : NextInOrder(b)'
    BY <1>1, <2>1 DEF OneList, NextInOrder
  <2>4. op[Main] \in {"malloc", "realloc"} \/ pc'[Main] \notin {"link", "header"}
    BY <1>1, <2>1 DEF CallOK
  <2> QED
    BY <1>1, <2>1, <2>2, <2>3, <2>4 DEF OneList
<1>4. CASE Link(Main)
  <2>1. PICK l, n : l = last[Main] /\ n = block[Main]
    OBVIOUS
  <2>2. /\ UNCHANGED <<blocks, global_base, op, last, block>> /\ pc[Main] = "link"
        /\ pc'[Main] = "header" /\ next' = [next EXCEPT ![l] = n]
    BY <1>1, <1>4, <2>1 DEF Link, Goto, TypeOK, args
  <2>3. /\ l \in blocks /\ \A c \in blocks : c <= l /\ c < n
        /\ global_base = NULL <=> blocks = {}
        /\ blocks # {} => global_base \in blocks /\ \A b \in blocks : global_base <= b
    BY <1>1, <2>1, <2>2 DEF OneList, LocalsOK, CallOK
  <2>4. next'[l] = n /\ \A b \in blocks \ {l} : next'[b] = next[b]
    BY <1>1, <2>2, <2>3 DEF TypeOK
  <2>5. \A b \in blocks \ {l} : NextInOrder(b)'
    BY <1>1, <2>2, <2>4 DEF OneList, NextInOrder
  <2>6. last'[Main] = l /\ block'[Main] = n /\ global_base' = global_base /\ blocks' = blocks
    BY <2>1, <2>2
  <2>7. \A b \in blocks' : NextInOrder(b)' \/ b = l
    BY <2>5, <2>6
  <2>8. pc'[Main] = "header"
    BY <2>2
  <2>9. \A c \in blocks' : c < block'[Main]
    BY <2>3, <2>6
  <2>10. last'[Main] \in blocks' /\ \A c \in blocks' : c <= last'[Main]
    BY <2>3, <2>6
  <2>11. next'[last'[Main]] = block'[Main]
    BY <2>4, <2>6
  <2>12. /\ global_base' = NULL <=> blocks' = {}
         /\ blocks' # {} => global_base' \in blocks' /\ \A b \in blocks' : global_base' <= b
    BY <2>3, <2>6
  <2> QED
    BY <2>6, <2>7, <2>8, <2>9, <2>10, <2>11, <2>12 DEF OneList
<1>5. CASE Header(Main)
  <2>1. PICK l, n : l = last[Main] /\ n = block[Main]
    OBVIOUS
  <2>2. /\ UNCHANGED <<global_base, op, last, block>> /\ pc[Main] = "header"
        /\ blocks' = blocks \cup {n} /\ next' = [next EXCEPT ![n] = NULL]
        /\ pc'[Main] = IF l = NULL THEN "base" ELSE "return"
    BY <1>1, <1>5, <2>1 DEF Header, Goto, TypeOK, args
  <2>3. /\ \/ l = NULL /\ blocks = {}
           \/ l \in blocks /\ \A c \in blocks : c <= l
        /\ \A c \in blocks : c < n
        /\ global_base = NULL <=> blocks = {}
        /\ l # NULL => next[l] = n
        /\ \A b \in blocks : NextInOrder(b) \/ b = l
    BY <1>1, <2>1, <2>2 DEF OneList, CallOK
  <2>4. n \in Addr /\ n \in Nat /\ \A b \in blocks : b \in Addr /\ b \in Nat
    BY <1>1, <2>1, <2>2, OneHere DEF TypeOK, LocalsOK
  <2>5. next'[n] = NULL /\ \A b \in blocks : b # n /\ next'[b] = next[b]
    <3>1. DOMAIN next = Addr /\ next' = [next EXCEPT ![n] = NULL]
      BY <1>1, <2>2 DEF TypeOK
    <3>2. \A b \in blocks : b \in Addr /\ b # n
      BY <2>3, <2>4
    <3> QED
      BY <2>4, <3>1, <3>2
  <2>6. NextInOrder(n)'
    <3>1. \A c \in blocks' : c <= n
      BY <2>2, <2>3, <2>4
    <3> QED
      BY <2>4, <2>5, <3>1 DEF NextInOrder
  <2>7. CASE l = NULL
    <3>1. blocks' = {n} /\ pc'[Main] = "base" /\ block'[Main] = n
      BY <2>1, <2>2, <2>3, <2>4, <2>7
    <3>2. \A b \in blocks' : NextInOrder(b)'
      BY <2>6, <3>1
    <3> QED
      BY <3>1, <3>2 DEF OneList
  <2>8. CASE l # NULL
    <3>1. NextInOrder(l)'
      BY <2>2, <2>3, <2>4, <2>5, <2>8 DEF NextInOrder
    <3>2. ASSUME NEW b \in blocks \ {l}
          PROVE  NextInOrder(b)'
      <4>1. b < l /\ next[b] \in blocks /\ b < next[b]
            /\ \A c \in blocks : c <= b \/ next[b] <= c
        BY <2>3, <2>4, <2>8 DEF NextInOrder
      <4>2. next[b] < n
        BY <2>3, <4>1
      <4> QED
        BY <2>2, <2>4, <2>5, <4>1, <4>2 DEF NextInOrder
    <3>3. global_base \in blocks /\ \A b \in blocks' : global_base <= b
      BY <1>1, <2>2, <2>3, <2>4, <2>8 DEF OneList
    <3> QED
      BY <2>2, <2>3, <2>6, <2>8, <3>1, <3>2, <3>3 DEF OneList
  <2> QED
    BY <2>7, <2>8
<1>6. CASE Base(Main)
  <2>1. /\ UNCHANGED <<blocks, next, op, last, block>> /\ pc[Main] = "base"
        /\ pc'[Main] = "return" /\ global_base' = block[Main]
    BY <1>1, <1>6 DEF Base, Goto, TypeOK, header, args
  <2>2. PICK n : n = block[Main]
    OBVIOUS
  <2>3. blocks' = {n} /\ global_base' = n /\ n # NULL /\ n \in Nat
    BY <1>1, <2>1, <2>2, OneHere DEF OneList, LocalsOK
  <2>4. \A b \in blocks' : NextInOrder(b)'
    BY <1>1, <2>1 DEF OneList, NextInOrder
  <2>5. \A b \in blocks' : global_base' <= b
    BY <2>3
  <2> QED
    BY <2>1, <2>3, <2>4, <2>5 DEF OneList
<1> QED
  BY <1>2, <1>3, <1>4, <1>5, <1>6

\* All other steps leave it alone, and are between no two searches.
LEMMA WorkKeepsList ==
  ASSUME One, Work(Main)
  PROVE  OneList'
<1>1. TypeOK /\ LocalsOK(Main) /\ CallOK(Main)
  BY OneHere
<1>2. ASSUME UNCHANGED <<blocks, next, global_base>>,
             pc[Main] \in {"claim", "reuse", "sbrk", "return", "check", "mark", "freed"},
             pc'[Main] \in {"reuse", "aborted", "return", "idle", "check", "mark", "freed"}
      PROVE  OneList'
  BY <1>2, ListStays
<1> USE DEF TypeOK, Goto, header
<1>3. CASE Claim(Main) \/ Reuse(Main) \/ MarkFree(Main) \/ Assertions(Main)
  BY <1>1, <1>2, <1>3 DEF Claim, Reuse, MarkFree, Assertions
<1>4. CASE Refuse(Main)
  BY <1>1, <1>2, <1>4 DEF Refuse
<1>5. CASE ReturnNull(Main) \/ ReturnBlock(Main) \/ StampFree(Main)
  <2>1. /\ UNCHANGED <<blocks, next, global_base>> /\ pc[Main] \in {"return", "freed"}
        /\ pc'[Main] \in {"idle", "check"}
    BY <1>1, <1>5 DEF ReturnNull, ReturnBlock, StampFree, Return
  <2> QED
    BY <1>2, <2>1
<1> QED
  BY <1>3, <1>4, <1>5, SearchKeepsList, AppendKeepsList DEF Work

-----------------------------------------------------------------------------
(* The marks.                                                              *)

\* A block changes hands, or keeps its holder, and its header stays.
LEMMA MarksMove ==
  ASSUME One, NEW b \in blocks, free'[b] = free[b], magic'[b] = magic[b],
         pc[Main] \notin {"reuse", "freed"}, pc'[Main] \notin {"claim", "freed"},
         (IsOwned(b) \/ IsArgument(b) \/ IsFound(b))' <=> IsOwned(b) \/ IsArgument(b) \/ IsFound(b),
         ~(IsOwned(b)' /\ IsArgument(b)'), ~(IsOwned(b)' /\ IsFound(b)'),
         ~(IsArgument(b)' /\ IsFound(b)')
  PROVE  MarksOK(b)'
<1>1. MarksOK(b)
  BY DEF One, OneMarks
<1> QED
  BY <1>1 DEF MarksOK

\* Nothing about a block changes.
LEMMA MarksStay ==
  ASSUME One, NEW b \in blocks, free'[b] = free[b], magic'[b] = magic[b],
         pc[Main] \notin {"reuse", "freed"}, pc'[Main] \notin {"claim", "freed"},
         IsOwned(b)' <=> IsOwned(b), IsArgument(b)' <=> IsArgument(b), IsFound(b)' <=> IsFound(b)
  PROVE  MarksOK(b)'
<1>1. MarksOK(b)
  BY DEF One, OneMarks
<1> QED
  BY <1>1, MarksMove DEF MarksOK

\* A call takes nothing from the client, or a pointer that becomes its argument.
LEMMA CallsKeepMarks ==
  ASSUME One, Call(Main)
  PROVE  OneMarks'
<1>1. /\ TypeOK /\ pc[Main] = "idle" /\ op[Main] = "none"
      /\ UNCHANGED <<blocks, free, magic, block>>
  <2>1. pc[Main] = "idle" /\ UNCHANGED <<blocks, free, magic, block>>
    BY DEF Call, CallMalloc, CallCalloc, CallFree, CallRealloc, CallNoFree, MayCall, header
  <2> QED
    BY <2>1, OneHere DEF One, OneCall
<1>2. SUFFICES ASSUME NEW b \in blocks PROVE MarksOK(b)'
  BY <1>1 DEF OneMarks
<1>3. ~IsArgument(b) /\ ~IsFound(b)
  BY <1>1 DEF IsArgument, IsFound, HasFound
<1>4. ASSUME NEW l \in {"brk", "test", "check", "idle"}, pc'[Main] = l, owned'[Main] = owned[Main],
             op'[Main] \in {"none", "malloc", "nofree"}, l \in {"check", "idle"} => op'[Main] = "none"
      PROVE  MarksOK(b)'
  <2>1. ~IsArgument(b)' /\ ~IsFound(b)' /\ (IsOwned(b)' <=> IsOwned(b))
    BY <1>4 DEF IsArgument, IsFound, HasFound, IsOwned
  <2> QED
    BY <1>1, <1>3, <1>4, <2>1, MarksStay
<1>5. ASSUME NEW p \in owned[Main], owned'[Main] = owned[Main] \ {p},
             op'[Main] \in {"free", "realloc"}, ptr'[Main] = p,
             pc'[Main] \in {"brk", "test", "check"}, pc'[Main] = "check" => op'[Main] = "free"
      PROVE  MarksOK(b)'
  <2>1. p \in Nat /\ payload(get_block_ptr(p)) = p /\ b \in Nat
    BY OwnedPointers, OneHere
  <2>2. ~IsFound(b)'
    BY <1>5 DEF IsFound, HasFound
  <2>3. get_block_ptr(p) = b <=> p = payload(b)
    BY <2>1
  <2>4. IsArgument(b)' <=> p = payload(b)
    BY <1>5, <2>3 DEF IsArgument
  <2>5. IsOwned(b)' <=> IsOwned(b) /\ p # payload(b)
    BY <1>5 DEF IsOwned
  <2>6. p = payload(b) => IsOwned(b)
    BY <1>5 DEF IsOwned
  <2> QED
    BY <1>1, <1>3, <1>5, <2>2, <2>4, <2>5, <2>6, MarksMove
<1> USE DEF TypeOK, Goto, client
<1>6. CASE CallMalloc(Main) \/ CallCalloc(Main)
  <2>1. pc'[Main] \in {"brk", "test"} /\ owned' = owned /\ op'[Main] = "malloc"
    BY <1>1, <1>6 DEF CallMalloc, CallCalloc, EnterMalloc, Enter
  <2> QED
    BY <1>4, <2>1
<1>7. CASE CallNoFree(Main)
  <2>1. pc'[Main] = "brk" /\ owned' = owned /\ op'[Main] = "nofree"
    BY <1>1, <1>7 DEF CallNoFree, Enter
  <2> QED
    BY <1>4, <2>1
<1>8. CASE CallFree(Main)
  <2>1. PICK u \in Threads : \E q \in owned[u] :
          GiveUp(u, q) /\ Enter(Main, "free", 0, 0, q)
    BY <1>8 DEF CallFree
  <2>2. PICK p \in owned[u] : GiveUp(u, p) /\ Enter(Main, "free", 0, 0, p)
    BY <2>1
  <2>3. u = Main
    BY OwnedPointers
  <2>4. /\ owned'[Main] = owned[Main] \ {p} /\ op'[Main] = "free" /\ ptr'[Main] = p
        /\ pc'[Main] = "check"
    BY <1>1, <1>8, <2>2, <2>3 DEF CallFree, GiveUp, Enter
  <2> QED
    BY <1>5, <2>3, <2>4
<1>9. CASE CallRealloc(Main)
  <2>1. PICK u \in Threads, s \in Requests :
          \E p \in owned[u] : ReallocInPlace(Main, u, p, s) \/ ReallocMove(Main, u, p, s)
    BY <1>9 DEF CallRealloc
  <2>2. PICK p \in owned[u] : ReallocInPlace(Main, u, p, s) \/ ReallocMove(Main, u, p, s)
    BY <2>1
  <2>3. u = Main
    BY OwnedPointers
  <2>4. CASE ReallocInPlace(Main, u, p, s)
    <3>1. owned'[Main] = owned[Main]
      BY <1>1, <2>2, <2>3, <2>4 DEF ReallocInPlace
    <3>2. pc'[Main] = "idle" /\ op'[Main] = "none"
      BY <1>1, <2>4 DEF ReallocInPlace, args
    <3> QED
      BY <1>4, <3>1, <3>2
  <2>5. CASE ReallocMove(Main, u, p, s)
    <3>1. /\ owned'[Main] = owned[Main] \ {p} /\ op'[Main] = "realloc" /\ ptr'[Main] = p
          /\ pc'[Main] \in {"brk", "test"}
      BY <1>1, <2>3, <2>5 DEF ReallocMove, GiveUp, EnterMalloc, Enter
    <3> QED
      BY <1>5, <2>3, <3>1
  <2> QED
    BY <2>2, <2>4, <2>5
<1> QED
  BY <1>6, <1>7, <1>8, <1>9 DEF Call

\* The search, an append and the assertions mark nothing.
LEMMA QuietMarks ==
  ASSUME One,
         Test(Main) \/ Step(Main) \/ ReadBreak(Main) \/ Extend(Main) \/ Refuse(Main)
         \/ Link(Main) \/ Base(Main) \/ Assertions(Main)
  PROVE  OneMarks'
<1>1. TypeOK /\ CallOK(Main) /\ LocalsOK(Main)
  BY OneHere
<1>2. UNCHANGED <<blocks, free, magic, owned, op, ptr>>
  BY DEF Test, Step, ReadBreak, Extend, Refuse, Link, Base, Assertions, header, client, args
<1>3. SUFFICES ASSUME NEW b \in blocks PROVE MarksOK(b)'
  BY <1>2 DEF OneMarks
<1>4. IsOwned(b)' <=> IsOwned(b)
  BY <1>2 DEF IsOwned
<1>5. ASSUME pc[Main] \notin {"reuse", "freed"}, pc'[Main] \notin {"claim", "freed"},
             IsFound(b)' <=> IsFound(b)
      PROVE  MarksOK(b)'
  <2>1. IsArgument(b)' <=> IsArgument(b)
    BY <1>2, <1>5 DEF IsArgument
  <2> QED
    BY <1>2, <1>4, <1>5, <2>1, MarksStay
<1> USE <1>1 DEF TypeOK, Goto
<1>6. CASE Test(Main)
  <2>1. pc[Main] = "test" /\ pc'[Main] \in {"claim", "step"}
    BY <1>6 DEF Test
  <2>2. ~IsFound(b) /\ ~IsFound(b)'
    BY <2>1 DEF IsFound, HasFound
  <2>3. CASE pc'[Main] = "step"
    BY <1>5, <2>1, <2>2, <2>3
  <2>4. CASE pc'[Main] = "claim"
    <3>1. block'[Main] = cur[Main] /\ free[cur[Main]]
      BY <1>6, <2>4 DEF Test, Fits
    <3>2. IsArgument(b)' <=> IsArgument(b)
      BY <1>2, <2>1, <2>4 DEF IsArgument
    <3>3. MarksOK(b)
      BY DEF One, OneMarks
    <3> HIDE <1>1
    <3> QED
      BY <1>2, <1>4, <2>1, <2>2, <2>4, <3>1, <3>2, <3>3 DEF MarksOK
  <2> QED
    BY <2>1, <2>3, <2>4
<1>7. CASE Step(Main) \/ ReadBreak(Main) \/ Link(Main)
  <2>1. /\ pc[Main] \in {"step", "brk", "link"}
        /\ pc'[Main] \in {"brk", "test", "sbrk", "header"}
    BY <1>7 DEF Step, ReadBreak, Link
  <2>2. ~IsFound(b) /\ ~IsFound(b)'
    BY <2>1 DEF IsFound, HasFound
  <2> QED
    BY <1>5, <2>1, <2>2
<1>8. CASE Extend(Main)
  <2>1. /\ pc[Main] = "sbrk" /\ pc'[Main] \in {"aborted", "return", "header", "link"}
        /\ pc'[Main] = "return" => op[Main] = "nofree"
    BY <1>8 DEF Extend
  <2>2. ~IsFound(b) /\ ~IsFound(b)'
    BY <1>2, <2>1 DEF IsFound, HasFound
  <2> QED
    BY <1>5, <2>1, <2>2
<1>9. CASE Refuse(Main)
  <2>1. /\ pc[Main] = "sbrk" /\ pc'[Main] \in {"aborted", "return"}
        /\ pc'[Main] = "return" => block'[Main] = NULL
    BY <1>9 DEF Refuse
  <2>2. ~IsFound(b) /\ ~IsFound(b)'
    BY <1>2, <2>1 DEF IsFound, HasFound
  <2> QED
    BY <1>5, <2>1, <2>2
<1>10. CASE Base(Main)
  <2>1. pc[Main] = "base" /\ pc'[Main] = "return" /\ block' = block
    BY <1>10 DEF Base
  <2>2. IsFound(b)' <=> IsFound(b)
    BY <1>2, <2>1 DEF IsFound, HasFound
  <2> QED
    BY <1>5, <2>1, <2>2
<1>11. CASE Assertions(Main)
  <2>1. pc[Main] = "check" /\ pc'[Main] = "mark" /\ block' = block
    BY <1>11, ArgumentInUse DEF Assertions
  <2>2. IsFound(b)' <=> IsFound(b)
    BY <1>2, <2>1 DEF IsFound, HasFound
  <2> QED
    BY <1>5, <2>1, <2>2
<1> QED
  BY <1>6, <1>7, <1>8, <1>9, <1>10, <1>11

\* malloc marks the block it has found, first free and then magic.
LEMMA ClaimMarks ==
  ASSUME One, Claim(Main) \/ Reuse(Main)
  PROVE  OneMarks'
<1>1. TypeOK /\ CallOK(Main) /\ LocalsOK(Main)
  BY OneHere
<1>2. UNCHANGED <<blocks, owned, op, ptr, block>>
  BY DEF Claim, Reuse, client, args
<1>3. SUFFICES ASSUME NEW b \in blocks PROVE MarksOK(b)'
  BY <1>2 DEF OneMarks
<1>4. MarksOK(b) /\ b \in Addr
  BY <1>1 DEF One, OneMarks, TypeOK
<1>5. IsOwned(b)' <=> IsOwned(b)
  BY <1>2 DEF IsOwned
<1>6. PICK n : n = block[Main]
  OBVIOUS
<1>7. CASE Claim(Main)
  <2>1. pc[Main] = "claim" /\ pc'[Main] = "reuse" /\ free' = [free EXCEPT ![n] = FALSE] /\ magic' = magic
    BY <1>1, <1>6, <1>7 DEF Claim, Goto, TypeOK
  <2>2. (IsArgument(b)' <=> IsArgument(b)) /\ ~IsFound(b) /\ (IsFound(b)' <=> b = n)
    BY <1>2, <1>6, <2>1 DEF IsArgument, IsFound, HasFound
  <2>3. free'[b] = IF b = n THEN FALSE ELSE free[b]
    BY <1>1, <1>4, <2>1 DEF TypeOK
  <2> QED
    BY <1>2, <1>4, <1>5, <1>6, <2>1, <2>2, <2>3 DEF MarksOK
<1>8. CASE Reuse(Main)
  <2>1. /\ pc[Main] = "reuse" /\ pc'[Main] = "return" /\ free' = free
        /\ magic' = [magic EXCEPT ![n] = "reused"]
    BY <1>1, <1>6, <1>8 DEF Reuse, Goto, TypeOK
  <2>2. /\ IsArgument(b)' <=> IsArgument(b)
        /\ IsFound(b) <=> b = n
        /\ IsFound(b)' <=> b = n
    BY <1>1, <1>2, <1>6, <2>1 DEF IsArgument, IsFound, HasFound, CallOK, LocalsOK
  <2>3. magic'[b] = IF b = n THEN "reused" ELSE magic[b]
    BY <1>1, <1>4, <2>1 DEF TypeOK
  <2> QED
    BY <1>2, <1>4, <1>5, <1>6, <2>1, <2>2, <2>3 DEF MarksOK
<1> QED
  BY <1>7, <1>8

\* request_space marks its block as one in use, which it is.
LEMMA HeaderMarks ==
  ASSUME One, Header(Main)
  PROVE  OneMarks'
<1>1. TypeOK /\ CallOK(Main) /\ LocalsOK(Main) /\ HoldOK(Main)
  BY OneHere DEF Here
<1>2. PICK n : n = block[Main]
  OBVIOUS
<1>3. /\ UNCHANGED <<owned, op, ptr, block>> /\ blocks' = blocks \cup {n}
      /\ free' = [free EXCEPT ![n] = FALSE] /\ magic' = [magic EXCEPT ![n] = "fresh"]
      /\ pc[Main] = "header" /\ pc'[Main] \in {"base", "return"}
  BY <1>1, <1>2 DEF Header, Goto, TypeOK, client, args
<1>4. n \in Addr /\ n \notin blocks /\ n # NULL /\ op[Main] \in {"malloc", "realloc"}
  <2>1. \A c \in blocks : c < n
    BY <1>2, <1>3 DEF One, OneList
  <2>2. n \in Addr /\ n # NULL /\ op[Main] \in {"malloc", "realloc"}
    BY <1>1, <1>2, <1>3 DEF TypeOK, LocalsOK, CallOK
  <2> QED
    BY <2>1, <2>2
<1>5. SUFFICES ASSUME NEW b \in blocks' PROVE MarksOK(b)'
  BY DEF OneMarks
<1>6. IsFound(b)' <=> b = n
  BY <1>2, <1>3, <1>4 DEF IsFound, HasFound
<1>7. (IsOwned(b)' <=> IsOwned(b)) /\ (IsArgument(b)' <=> IsArgument(b))
  BY <1>3 DEF IsOwned, IsArgument
<1>8. CASE b = n
  <2>1. ~IsOwned(b)
    <3>1. IsOwned(b) => get_block_ptr(payload(b)) \in blocks
      BY OwnedPointers DEF IsOwned
    <3>2. get_block_ptr(payload(n)) = n
      BY <1>4
    <3> QED
      BY <1>4, <1>8, <3>1, <3>2
  <2>2. ~IsArgument(b)
    BY <1>1, <1>4, <1>8 DEF IsArgument, HoldOK
  <2>3. ~free'[b] /\ magic'[b] = "fresh"
    BY <1>1, <1>3, <1>4, <1>8 DEF TypeOK
  <2> QED
    BY <1>3, <1>6, <1>7, <1>8, <2>1, <2>2, <2>3 DEF MarksOK
<1>9. CASE b # n
  <2>1. b \in blocks /\ b \in Addr /\ free'[b] = free[b] /\ magic'[b] = magic[b]
    BY <1>1, <1>3, <1>4, <1>9 DEF TypeOK
  <2>2. ~IsFound(b)
    BY <1>3 DEF IsFound, HasFound
  <2> QED
    BY <1>3, <1>6, <1>7, <1>9, <2>1, <2>2, MarksStay
<1> QED
  BY <1>8, <1>9

\* A call that returns hands the client what it has found, or its argument back.
LEMMA ReturnMarks ==
  ASSUME One, ReturnNull(Main) \/ ReturnBlock(Main)
  PROVE  OneMarks'
<1>1. TypeOK /\ CallOK(Main) /\ pc[Main] = "return" /\ UNCHANGED <<blocks, free, magic>>
  BY OneHere DEF ReturnNull, ReturnBlock, header
<1>2. SUFFICES ASSUME NEW b \in blocks PROVE MarksOK(b)'
  BY <1>1 DEF OneMarks
<1>3. MarksOK(b) /\ b \in Nat /\ META_SIZE \in Nat /\ b # NULL
  BY OneHere DEF One, OneMarks
<1>4. PICK p : p = ptr[Main]
  OBVIOUS
<1>5. p \in Nat /\ op[Main] \in {"malloc", "nofree", "realloc"}
  BY <1>1, <1>4 DEF TypeOK, CallOK
<1>6. ASSUME pc'[Main] = "idle", op'[Main] = "none"
      PROVE  ~IsArgument(b)' /\ ~IsFound(b)'
  BY <1>6 DEF IsArgument, IsFound, HasFound
<1>7. CASE ReturnNull(Main)
  <2>1. /\ block[Main] = NULL /\ pc'[Main] = "idle" /\ op'[Main] = "none"
        /\ owned'[Main] = owned[Main] \cup ({p} \ {NULL})
    BY <1>1, <1>4, <1>7 DEF ReturnNull, Return, Enter, Goto, TypeOK
  <2>2. ~IsFound(b)
    BY <1>1, <2>1 DEF IsFound, HasFound
  <2>3. IsOwned(b)' <=> IsOwned(b) \/ (p # NULL /\ p = payload(b))
    BY <2>1 DEF IsOwned
  <2>4. IsArgument(b) <=> p # NULL /\ p = payload(b)
    <3>1. CASE op[Main] = "realloc"
      <4>1. IsArgument(b) <=> get_block_ptr(p) = b
        BY <1>1, <1>4, <3>1 DEF IsArgument
      <4>2. get_block_ptr(p) = b <=> p # NULL /\ p = payload(b)
        BY <1>3, <1>5
      <4> QED
        BY <4>1, <4>2
    <3>2. CASE op[Main] # "realloc"
      <4>1. p = NULL
        BY <1>1, <1>4, <1>5, <3>2 DEF CallOK
      <4> QED
        BY <1>5, <3>2, <4>1 DEF IsArgument
    <3> QED
      BY <3>1, <3>2
  <2> QED
    BY <1>1, <1>6, <2>1, <2>2, <2>3, <2>4, MarksMove
<1>8. CASE ReturnBlock(Main)
  <2>1. CASE op[Main] = "malloc"
    <3>1. /\ block[Main] # NULL /\ pc'[Main] = "idle" /\ op'[Main] = "none"
          /\ owned'[Main] = owned[Main] \cup {payload(block[Main])}
      BY <1>1, <1>8, <2>1 DEF ReturnBlock, Return, Enter, Goto, TypeOK
    <3>2. ~IsArgument(b) /\ (IsFound(b) <=> block[Main] = b)
      BY <1>1, <2>1, <3>1 DEF IsArgument, IsFound, HasFound
    <3>3. payload(block[Main]) = payload(b) <=> block[Main] = b
      BY <1>1, <1>3, <3>1 DEF TypeOK
    <3>4. IsOwned(b)' <=> IsOwned(b) \/ block[Main] = b
      BY <3>1, <3>3 DEF IsOwned
    <3> QED
      BY <1>1, <1>6, <3>1, <3>2, <3>4, MarksMove
  <2>2. CASE op[Main] = "nofree"
    <3>1. pc'[Main] = "idle" /\ op'[Main] = "none" /\ owned'[Main] = owned[Main]
      BY <1>1, <1>8, <2>2 DEF ReturnBlock, Return, Enter, Goto, TypeOK
    <3>2. ~IsArgument(b) /\ ~IsFound(b)
      BY <1>1, <2>2 DEF IsArgument, IsFound, HasFound
    <3> QED
      BY <1>1, <1>6, <3>1, <3>2, MarksStay DEF IsOwned
  <2>3. CASE op[Main] = "realloc"
    <3>1. pc'[Main] = "check" /\ UNCHANGED <<owned, op, ptr, block>>
      BY <1>1, <1>8, <2>3 DEF ReturnBlock, Goto, TypeOK, client, args
    <3>2. IsOwned(b)' <=> IsOwned(b)
      BY <3>1 DEF IsOwned
    <3>3. IsArgument(b)' <=> IsArgument(b)
      BY <1>1, <3>1 DEF IsArgument
    <3>4. IsFound(b)' <=> IsFound(b)
      BY <1>1, <3>1 DEF IsFound, HasFound
    <3> QED
      BY <1>1, <3>1, <3>2, <3>3, <3>4, MarksStay
  <2> QED
    BY <1>5, <2>1, <2>2, <2>3
<1> QED
  BY <1>7, <1>8

\* free() marks its argument, first free and then magic.
LEMMA FreeMarks ==
  ASSUME One, MarkFree(Main) \/ StampFree(Main)
  PROVE  OneMarks'
<1>1. TypeOK /\ CallOK(Main) /\ LocalsOK(Main) /\ blocks' = blocks
  BY OneHere DEF MarkFree, StampFree
<1>2. SUFFICES ASSUME NEW b \in blocks PROVE MarksOK(b)'
  BY <1>1 DEF OneMarks
<1>3. MarksOK(b) /\ b \in Addr /\ b \in Nat
  BY OneHere DEF One, OneMarks
<1>4. PICK a : a = get_block_ptr(ptr[Main])
  OBVIOUS
<1>5. a \in Addr /\ op[Main] \in {"free", "realloc"}
  BY <1>1, <1>4 DEF MarkFree, StampFree, CallOK
<1>6. CASE MarkFree(Main)
  <2>1. /\ pc[Main] = "mark" /\ pc'[Main] = "freed" /\ magic' = magic
        /\ UNCHANGED <<owned, op, ptr, block>> /\ free' = [free EXCEPT ![a] = TRUE]
    BY <1>1, <1>4, <1>6 DEF MarkFree, Goto, TypeOK, client, args
  <2>2. free'[b] = IF b = a THEN TRUE ELSE free[b]
    BY <1>1, <1>3, <1>5, <2>1 DEF TypeOK
  <2>3. /\ IsArgument(b) <=> b = a
        /\ ~IsArgument(b)'
        /\ IsOwned(b)' <=> IsOwned(b)
        /\ IsFound(b)' <=> IsFound(b)
    BY <1>4, <1>5, <2>1 DEF IsArgument, IsOwned, IsFound, HasFound
  <2>4. get_block_ptr(ptr[Main])' = a
    BY <1>4, <2>1
  <2> QED
    BY <1>3, <2>1, <2>2, <2>3, <2>4 DEF MarksOK
<1>7. CASE StampFree(Main)
  <2>1. /\ pc[Main] = "freed" /\ pc'[Main] = "idle" /\ op'[Main] = "none" /\ free' = free
        /\ magic' = [magic EXCEPT ![a] = "freed"]
        /\ owned'[Main] = owned[Main] \cup IF op[Main] = "realloc" THEN {payload(block[Main])}
                                           ELSE {}
    BY <1>1, <1>4, <1>7 DEF StampFree, Return, Enter, Goto, TypeOK
  <2>2. magic'[b] = IF b = a THEN "freed" ELSE magic[b]
    BY <1>1, <1>3, <1>5, <2>1 DEF TypeOK
  <2>3. ~IsArgument(b) /\ ~IsArgument(b)' /\ ~IsFound(b)'
    BY <2>1 DEF IsArgument, IsFound, HasFound
  <2>4. IsOwned(b)' <=> IsOwned(b) \/ IsFound(b)
    <3>1. CASE op[Main] = "realloc"
      <4>1. block[Main] \in Nat /\ block[Main] # NULL /\ META_SIZE \in Nat
        BY <1>1, <2>1, <3>1 DEF TypeOK, LocalsOK
      <4>2. payload(block[Main]) = payload(b) <=> block[Main] = b
        BY <1>3, <4>1
      <4>3. IsFound(b) <=> block[Main] = b
        BY <2>1, <3>1, <4>1 DEF IsFound, HasFound
      <4> QED
        BY <2>1, <3>1, <4>2, <4>3 DEF IsOwned
    <3>2. CASE op[Main] = "free"
      BY <2>1, <3>2 DEF IsOwned, IsFound, HasFound
    <3> QED
      BY <1>5, <3>1, <3>2
  <2>5. b = a => free[b]
    BY <1>3, <1>4, <2>1 DEF MarksOK
  <2> QED
    BY <1>3, <1>4, <2>1, <2>2, <2>3, <2>4, <2>5 DEF MarksOK
<1> QED
  BY <1>6, <1>7

-----------------------------------------------------------------------------
(* The invariant.                                                          *)

\* Every step of the caller keeps all of it.
LEMMA OneKept ==
  ASSUME SafeInv, OneInv, Next
  PROVE  OneInv'
<1>1. callers' = callers
  BY DEF Next, Call, CallMalloc, CallCalloc, CallFree, CallRealloc, CallNoFree, Work, Test,
         Step, Claim, Reuse, ReadBreak, Extend, Refuse, Link, Header, Base, ReturnNull,
         ReturnBlock, Assertions, MarkFree, StampFree, choice
<1>2. SUFFICES ASSUME callers = "one" PROVE (OneFrames /\ OneCall /\ OneList /\ OneMarks)'
  BY <1>1 DEF OneInv
<1>3. One
  BY <1>2 DEF One, OneInv
<1>4. Call(Main) \/ Work(Main)
  BY <1>2, <1>3, OnlyMain DEF Next, One
<1>5. CASE Call(Main)
  BY <1>3, <1>5, FramesKept, CallsKeepCall, CallsKeepList, CallsKeepMarks
<1>6. CASE Work(Main)
  <2>1. OneMarks'
    BY <1>3, <1>6, QuietMarks, ClaimMarks, HeaderMarks, ReturnMarks, FreeMarks DEF Work
  <2> QED
    BY <1>3, <1>6, <2>1, FramesKept, WorkKeepsCall, WorkKeepsList
<1> QED
  BY <1>4, <1>5, <1>6

\* Nothing of it hangs on more than the variables.
LEMMA StutterOne ==
  ASSUME OneInv, UNCHANGED vars
  PROVE  OneInv'
<1>1. UNCHANGED <<variant, callers, brk, global_base, blocks, next, free, magic, raw, owned,
                  pc, op, sz, ptr, cur, last, block>>
  BY DEF vars, choice, header, client, args
<1>2. (OneFrames /\ OneCall)' <=> OneFrames /\ OneCall
  BY <1>1 DEF OneFrames, OneCall
<1>3. OneList' <=> OneList
  BY <1>1 DEF OneList, NextInOrder
<1>4. OneMarks' <=> OneMarks
  BY <1>1 DEF OneMarks, MarksOK, IsOwned, IsArgument, IsFound, HasFound
<1> QED
  BY <1>1, <1>2, <1>3, <1>4 DEF OneInv

\* A process starts with no blocks.
LEMMA InitOne == Init => OneInv
<1> SUFFICES ASSUME Init PROVE OneInv
  OBVIOUS
<1>1. Main \in Threads /\ blocks = {} /\ raw = {} /\ global_base = NULL
  BY DEF Init
<1>2. pc[Main] = "idle" /\ op[Main] = "none" /\ sz[Main] = 0
  BY <1>1 DEF Init
<1>3. OneFrames
  BY DEF Init, OneFrames
<1>4. OneCall
  BY <1>1, <1>2 DEF OneCall
<1>5. OneList
  BY <1>1, <1>2 DEF OneList
<1>6. OneMarks
  BY <1>1 DEF OneMarks
<1> QED
  BY <1>3, <1>4, <1>5, <1>6 DEF OneInv

(* With one thread in the process the list is in order and complete, every *)
(* block has at most one holder and its marks agree with that, at every    *)
(* step and not only between calls (malloc, free, realloc).                *)
THEOREM OneSafe ==
  ASSUME FittingRequests
  PROVE  Spec => []OneInv
<1>1. Init => OneInv
  BY InitOne
<1>2. SafeInv /\ OneInv /\ [Next]_vars => OneInv'
  BY OneKept, StutterOne
<1> QED
  BY <1>1, <1>2, Safe, PTL DEF Spec

(* Between two calls the list leads to every block there is, in order of   *)
(* address: no freed block is lost for find_free_block.                    *)
THEOREM ListIsComplete ==
  ASSUME FittingRequests
  PROVE  Spec => []ListComplete
<1>1. SafeInv /\ OneInv => ListComplete
  <2> SUFFICES ASSUME OneInv, Quiet PROVE ListComplete
    BY DEF ListComplete
  <2>1. OneList /\ pc[Main] = "idle"
    BY DEF Quiet, OneInv
  <2>2. global_base = NULL <=> blocks = {}
    BY <2>1 DEF OneList
  <2>3. blocks # {} => global_base \in blocks /\ \A b \in blocks : global_base <= b
    BY <2>1 DEF OneList
  <2>4. \A b \in blocks : NextInOrder(b)
    BY <2>1 DEF OneList
  <2> QED
    BY <2>2, <2>3, <2>4 DEF ListComplete
<1> QED
  BY <1>1, Safe, OneSafe, PTL

(* Between two calls a block is free exactly when the client does not own  *)
(* it, and free and magic say the same (malloc, free, realloc).            *)
THEOREM MarksMatch ==
  ASSUME FittingRequests
  PROVE  Spec => []MarksMatchOwners
<1>1. SafeInv /\ OneInv => MarksMatchOwners
  <2> SUFFICES ASSUME SafeInv, OneInv, Quiet, NEW b \in blocks
               PROVE  /\ free[b] <=> payload(b) \notin owned[Main]
                      /\ free[b] <=> magic[b] = "freed"
    BY DEF MarksMatchOwners
  <2>1. MarksOK(b) /\ pc[Main] = "idle" /\ op[Main] = "none"
    BY DEF Quiet, OneInv, OneMarks, OneCall
  <2>2. ~IsArgument(b) /\ ~IsFound(b)
    BY <2>1 DEF IsArgument, IsFound, HasFound
  <2> QED
    BY <2>1, <2>2 DEF MarksOK, IsOwned
<1> QED
  BY <1>1, Safe, OneSafe, PTL

(* No assertion fails but the one of request_space in src/malloc.c when    *)
(* sbrk() returns -1: those of free hold after any number of reuses.       *)
THEOREM AbortsWhenRefused ==
  ASSUME FittingRequests
  PROVE  Spec => []AbortsOnlyWhenRefused
<1>1. OneInv => AbortsOnlyWhenRefused
  <2> SUFFICES ASSUME OneInv, callers = "one", NEW t \in Threads, pc[t] = "aborted"
               PROVE  variant = "preloaded" /\ op[t] \in {"malloc", "realloc"} /\ block[t] = brk
    BY DEF AbortsOnlyWhenRefused
  <2>1. t = Main
    BY DEF OneInv, OneFrames
  <2> QED
    BY <2>1 DEF OneInv, OneCall
<1> QED
  BY <1>1, OneSafe, PTL

-----------------------------------------------------------------------------
(* Allocator's variables, and its steps in terms of the caller.            *)

Live == raw \cup {Region(get_block_ptr(p)) : p \in owned[Main]}

HeldOf(t) ==
  IF op[t] = "realloc" /\ pc[t] # "freed" THEN {Region(get_block_ptr(ptr[t]))} ELSE {}

HeldMap == [t \in Threads |-> HeldOf(t)]

FreshMap == [t \in Threads |-> Found(t)]

\* What is not the caller's is nothing, before and after a step.
OnlyMine ==
  /\ \A t \in Threads \ {Main} : HeldOf(t) = {} /\ Found(t) = {}
  /\ HeldMap' = [HeldMap EXCEPT ![Main] = HeldOf(Main)']
  /\ FreshMap' = [FreshMap EXCEPT ![Main] = Found(Main)']

\* No thread but the caller holds or has found a region.
LEMMA OthersHoldNothing ==
  ASSUME OneFrames, OneFrames'
  PROVE  OnlyMine
<1>1. \A t \in Threads \ {Main} : HeldOf(t) = {} /\ Found(t) = {}
  BY DEF OneFrames, HeldOf, Found
<1>2. \A t \in Threads \ {Main} : HeldOf(t)' = {} /\ Found(t)' = {}
  BY DEF OneFrames, HeldOf, Found
<1> QED
  BY <1>1, <1>2 DEF OnlyMine, HeldMap, FreshMap

\* Nothing abstract changes.
LEMMA MapsStutter ==
  ASSUME OnlyMine, Live' = Live, sz' = sz,
         HeldOf(Main)' = HeldOf(Main), Found(Main)' = Found(Main)
  PROVE  UNCHANGED Promise!vars
<1>1. HeldMap' = HeldMap /\ FreshMap' = FreshMap
  BY DEF OnlyMine, HeldMap, FreshMap
<1> QED
  BY <1>1 DEF Promise!vars, Live, HeldMap, HeldOf, FreshMap

\* A call for new memory.
LEMMA MapsAsk ==
  ASSUME OnlyMine, Live' = Live, sz[Main] = 0,
         NEW s \in SizeT \ {0}, sz' = [sz EXCEPT ![Main] = s],
         HeldOf(Main)' = HeldOf(Main), Found(Main)' = Found(Main)
  PROVE  Promise!Ask(Main)
<1>1. HeldMap' = HeldMap /\ FreshMap' = FreshMap
  BY DEF OnlyMine, HeldMap, FreshMap
<1> QED
  BY <1>1 DEF Promise!Ask, Live, HeldMap, HeldOf, FreshMap

\* A call that gives memory back.
LEMMA MapsFree ==
  ASSUME OnlyMine, NEW r \in Live, Live' = Live \ {r}, sz' = sz,
         HeldOf(Main)' = HeldOf(Main), Found(Main)' = Found(Main)
  PROVE  Promise!Free
<1>1. HeldMap' = HeldMap /\ FreshMap' = FreshMap
  BY DEF OnlyMine, HeldMap, FreshMap
<1> QED
  BY <1>1 DEF Promise!Free, Live, HeldMap, HeldOf, FreshMap

\* A call that asks for more in exchange for what it gives back.
LEMMA MapsAskForMore ==
  ASSUME OnlyMine, NEW r \in Live, Live' = Live \ {r}, sz[Main] = 0,
         NEW s \in SizeT \ {0}, sz' = [sz EXCEPT ![Main] = s],
         HeldOf(Main)' = {r}, Found(Main)' = Found(Main)
  PROVE  Promise!AskForMore(Main)
<1>1. HeldMap' = [HeldMap EXCEPT ![Main] = {r}] /\ FreshMap' = FreshMap
  BY DEF OnlyMine, HeldMap, FreshMap
<1> QED
  BY <1>1 DEF Promise!AskForMore, Live, HeldMap, HeldOf, FreshMap

\* A call has reserved a region apart from all that belongs to the client.
LEMMA MapsReserve ==
  ASSUME OnlyMine, Live' = Live, sz' = sz, sz[Main] > 0,
         NEW r \in [ptr : Addr, len : SizeT], r.len >= sz[Main],
         Found(Main) = {}, Found(Main)' = {r}, HeldOf(Main)' = HeldOf(Main),
         \A q \in Live \cup HeldOf(Main) : Promise!Apart(r, q)
  PROVE  Promise!Reserve(Main)
<1>1. /\ HeldMap' = HeldMap /\ FreshMap' = [FreshMap EXCEPT ![Main] = {r}]
      /\ FreshMap[Main] = {}
  BY DEF OnlyMine, HeldMap, FreshMap
<1>2. \A u \in Threads : HeldMap[u] \cup FreshMap[u] \subseteq HeldOf(Main)
  BY DEF OnlyMine, HeldMap, FreshMap
<1>3. \A q \in Live \cup UNION {HeldMap[u] \cup FreshMap[u] : u \in Threads} : Promise!Apart(r, q)
  BY <1>2
<1> QED
  BY <1>1, <1>3 DEF Promise!Reserve, Promise!Taken, Live, HeldMap, HeldOf, FreshMap

\* realloc lets its old region go.
LEMMA MapsRelease ==
  ASSUME OnlyMine, Live' = Live, sz' = sz, Found(Main) # {}, Found(Main)' = Found(Main),
         HeldOf(Main) # {}, HeldOf(Main)' = {}
  PROVE  Promise!Release(Main)
<1>1. /\ HeldMap' = [HeldMap EXCEPT ![Main] = {}] /\ FreshMap' = FreshMap
      /\ HeldMap[Main] # {} /\ FreshMap[Main] # {}
  BY DEF OnlyMine, HeldMap, FreshMap
<1> QED
  BY <1>1 DEF Promise!Release, Live, HeldMap, HeldOf, FreshMap

\* A call returns what it reserved.
LEMMA MapsGrant ==
  ASSUME OnlyMine, sz' = [sz EXCEPT ![Main] = 0], Found(Main) # {}, HeldOf(Main) = {},
         Live' = Live \cup Found(Main), Found(Main)' = {}, HeldOf(Main)' = {}
  PROVE  Promise!Grant(Main)
<1>1. /\ HeldMap' = [HeldMap EXCEPT ![Main] = {}] /\ FreshMap' = [FreshMap EXCEPT ![Main] = {}]
      /\ HeldMap[Main] = {} /\ FreshMap[Main] # {} /\ FreshMap[Main] = Found(Main)
  BY DEF OnlyMine, HeldMap, FreshMap
<1> QED
  BY <1>1 DEF Promise!Grant, Promise!Done, Live, HeldMap, HeldOf, FreshMap

\* A call returns NULL.
LEMMA MapsFail ==
  ASSUME OnlyMine, sz[Main] > 0, sz' = [sz EXCEPT ![Main] = 0], Found(Main) = {},
         Live' = Live \cup HeldOf(Main), Found(Main)' = {}, HeldOf(Main)' = {}
  PROVE  Promise!Fail(Main)
<1>1. /\ HeldMap' = [HeldMap EXCEPT ![Main] = {}] /\ FreshMap' = [FreshMap EXCEPT ![Main] = {}]
      /\ FreshMap[Main] = {} /\ HeldMap[Main] = HeldOf(Main)
  BY DEF OnlyMine, HeldMap, FreshMap
<1> QED
  BY <1>1 DEF Promise!Fail, Promise!Done, Live, HeldMap, HeldOf, FreshMap

-----------------------------------------------------------------------------
(* Regions.                                                                *)

\* The client's regions stay when its pointers and the sizes of blocks do.
LEMMA ClientKeepsRegions ==
  ASSUME One, raw' = raw, owned'[Main] = owned[Main], \A b \in blocks : size'[b] = size[b]
  PROVE  Live' = Live
<1>1. \A p \in owned[Main] : Region(get_block_ptr(p))' = Region(get_block_ptr(p))
  BY OwnedPointers DEF Region
<1> QED
  BY <1>1 DEF Live

\* The same of what a call to realloc holds.
LEMMA CallKeepsRegion ==
  ASSUME One, op'[Main] = op[Main], ptr'[Main] = ptr[Main],
         pc[Main] = "freed" <=> pc'[Main] = "freed", \A b \in blocks : size'[b] = size[b]
  PROVE  HeldOf(Main)' = HeldOf(Main)
<1>1. op[Main] = "realloc" => get_block_ptr(ptr[Main]) \in blocks
  BY OneHere DEF Here, HoldOK
<1>2. op[Main] = "realloc" =>
        Region(get_block_ptr(ptr[Main]))' = Region(get_block_ptr(ptr[Main]))
  BY <1>1 DEF Region
<1> QED
  BY <1>2 DEF HeldOf

\* No region of nofree_malloc is that of a block.
LEMMA RawIsNoBlock ==
  ASSUME One, NEW b \in blocks
  PROVE  Region(b) \notin raw
<1>1. SUFFICES ASSUME Region(b) \in raw PROVE FALSE
  OBVIOUS
<1>2. PICK r \in raw : r = Region(b)
  BY <1>1
<1>3. r.ptr = b + META_SIZE /\ r.len = size[b] /\ b \in Nat /\ size[b] \in Nat /\ META_SIZE \in Nat
  BY <1>2, OneHere DEF Region
<1>4. r.len > 0
  BY DEF One, OneCall
<1>5. b + META_SIZE + size[b] <= r.ptr \/ r.ptr + r.len <= b
  BY DEF One, SafeInv, LayoutInv, BlocksDisjoint, BlockEnd
<1> QED
  BY <1>3, <1>4, <1>5

\* A pointer the client gives up takes its region along, and no other.
LEMMA ClientGives ==
  ASSUME One, NEW p \in owned[Main], owned'[Main] = owned[Main] \ {p}, raw' = raw, size' = size
  PROVE  /\ Region(get_block_ptr(p)) \in Live
         /\ Live' = Live \ {Region(get_block_ptr(p))}
<1>1. \A q \in owned[Main] : payload(get_block_ptr(q)) = q
  BY OwnedPointers
<1>2. Region(get_block_ptr(p)) \notin raw
  BY OwnedPointers, RawIsNoBlock
<1>3. Live' = raw \cup {Region(get_block_ptr(q)) : q \in owned[Main] \ {p}}
  BY DEF Live, Region
<1>4. \A q \in owned[Main] : Region(get_block_ptr(q)).ptr = q
  BY <1>1 DEF Region
<1> QED
  BY <1>2, <1>3, <1>4 DEF Live

\* A pointer the client gets brings its region along.
LEMMA ClientGets ==
  ASSUME One, NEW b \in blocks, owned'[Main] = owned[Main] \cup {payload(b)},
         raw' = raw, size' = size
  PROVE  Live' = Live \cup {Region(b)}
<1>1. get_block_ptr(payload(b)) = b
  BY OneHere
<1>2. Live' = raw \cup {Region(get_block_ptr(q)) : q \in owned[Main] \cup {payload(b)}}
  BY DEF Live, Region
<1> QED
  BY <1>1, <1>2 DEF Live

\* What a call has found is apart from all that belongs to the client.
LEMMA FoundApart ==
  ASSUME One, NEW n \in blocks, IsFound(n)
  PROVE  /\ Region(n) \in [ptr : Addr, len : SizeT]
         /\ \A q \in Live \cup HeldOf(Main) : Promise!Apart(Region(n), q)
<1>1. TypeOK /\ BlocksDisjoint /\ MarksOK(n) /\ HoldOK(Main) /\ META_SIZE \in Nat
  BY OneHere DEF Here, One, OneMarks, SafeInv, LayoutInv
<1>2. n \in Addr /\ n \in Nat /\ size[n] \in SizeT /\ size[n] \in Nat /\ BlockEnd(n) <= brk
  BY <1>1, OneHere DEF TypeOK
<1>3. Region(n) \in [ptr : Addr, len : SizeT]
  <2>1. n + META_SIZE \in Addr
    BY <1>1, <1>2 DEF BlockEnd, TypeOK
  <2> QED
    BY <1>2, <2>1 DEF Region
<1>4. ASSUME NEW c \in blocks, c # n
      PROVE  Promise!Apart(Region(n), Region(c))
  <2>1. c \in Nat /\ size[c] \in Nat
    BY OneHere
  <2>2. n + META_SIZE + size[n] <= c \/ c + META_SIZE + size[c] <= n
    BY <1>1, <1>2, <1>4, <2>1 DEF BlocksDisjoint, BlockEnd
  <2>3. n + META_SIZE + size[n] <= c + META_SIZE \/ c + META_SIZE + size[c] <= n + META_SIZE
    BY <1>1, <1>2, <2>1, <2>2
  <2> QED
    BY <2>3 DEF Promise!Apart, Region
<1>5. ASSUME NEW r \in raw
      PROVE  Promise!Apart(Region(n), r)
  <2>1. r.ptr \in Nat /\ r.len \in Nat
    BY <1>1 DEF TypeOK
  <2>2. n + META_SIZE + size[n] <= r.ptr \/ r.ptr + r.len <= n
    BY <1>1 DEF BlocksDisjoint, BlockEnd
  <2>3. n + META_SIZE + size[n] <= r.ptr \/ r.ptr + r.len <= n + META_SIZE
    BY <1>1, <1>2, <2>1, <2>2
  <2> QED
    BY <2>3 DEF Promise!Apart, Region
<1>6. ASSUME NEW p \in owned[Main]
      PROVE  get_block_ptr(p) \in blocks /\ get_block_ptr(p) # n
  BY <1>1, OwnedPointers DEF MarksOK, IsOwned
<1>7. op[Main] = "realloc" /\ pc[Main] # "freed" =>
        get_block_ptr(ptr[Main]) \in blocks /\ get_block_ptr(ptr[Main]) # n
  BY <1>1 DEF MarksOK, IsArgument, HoldOK
<1> QED
  BY <1>3, <1>4, <1>5, <1>6, <1>7 DEF Live, HeldOf

\* What lies above every block and every region is apart from all of them.
LEMMA AboveApart ==
  ASSUME One, NEW r \in [ptr : Nat, len : Nat],
         \A b \in blocks : BlockEnd(b) <= r.ptr,
         \A q \in raw : q.ptr + q.len <= r.ptr \/ r.ptr + r.len <= q.ptr
  PROVE  \A q \in Live \cup HeldOf(Main) : Promise!Apart(r, q)
<1>1. ASSUME NEW c \in blocks
      PROVE  Promise!Apart(r, Region(c))
  BY DEF Promise!Apart, Region, BlockEnd
<1>2. \A q \in raw : Promise!Apart(r, q)
  BY DEF Promise!Apart
<1>3. \A p \in owned[Main] : get_block_ptr(p) \in blocks
  BY OwnedPointers
<1>4. op[Main] = "realloc" => get_block_ptr(ptr[Main]) \in blocks
  BY OneHere DEF Here, HoldOK
<1> QED
  BY <1>1, <1>2, <1>3, <1>4 DEF Live, HeldOf

-----------------------------------------------------------------------------
(* The steps of the code.                                                  *)

\* A step neither the client nor Allocator sees.
LEMMA QuietMaps ==
  ASSUME One, OnlyMine, UNCHANGED <<raw, owned, op, ptr, sz>>,
         pc[Main] # "freed", pc'[Main] # "freed", \A b \in blocks : size'[b] = size[b],
         Found(Main)' = Found(Main)
  PROVE  UNCHANGED Promise!vars
<1>1. Live' = Live /\ HeldOf(Main)' = HeldOf(Main)
  BY ClientKeepsRegions, CallKeepsRegion
<1> QED
  BY <1>1, MapsStutter

\* A call asks for memory, gives some back, or both; or realloc is done at once.
LEMMA CallMaps ==
  ASSUME One, OnlyMine, Call(Main)
  PROVE  Promise!Next \/ UNCHANGED Promise!vars
<1>1. /\ TypeOK /\ pc[Main] = "idle" /\ op[Main] = "none" /\ sz[Main] = 0
      /\ size' = size /\ raw' = raw
  <2>1. pc[Main] = "idle" /\ size' = size /\ raw' = raw
    BY DEF Call, CallMalloc, CallCalloc, CallFree, CallRealloc, CallNoFree, MayCall, header, client
  <2> QED
    BY <2>1, OneHere DEF One, OneCall
<1>2. HeldOf(Main) = {} /\ Found(Main) = {}
  BY <1>1 DEF HeldOf, Found
<1>3. ASSUME pc'[Main] \in {"idle", "test", "brk"}
      PROVE  Found(Main)' = {}
  BY <1>3 DEF Found
<1>4. ASSUME NEW s \in SizeT \ {0}, sz' = [sz EXCEPT ![Main] = s], owned' = owned,
             op'[Main] \in {"malloc", "nofree"}, pc'[Main] \in {"test", "brk"}
      PROVE  Promise!Next
  <2>1. Live' = Live
    BY <1>1, <1>4, ClientKeepsRegions
  <2>2. HeldOf(Main)' = {} /\ Found(Main)' = {}
    BY <1>3, <1>4 DEF HeldOf
  <2>3. Promise!Ask(Main)
    BY <1>1, <1>2, <1>4, <2>1, <2>2, MapsAsk
  <2> QED
    BY <2>3 DEF Promise!Next
<1>5. ASSUME NEW s \in SizeT, NEW n, EnterMalloc(Main, "malloc", s, n, NULL), owned' = owned, s # 0
      PROVE  Promise!Next
  <2>1. /\ sz' = [sz EXCEPT ![Main] = s] /\ op'[Main] = "malloc"
        /\ pc'[Main] \in {"test", "brk"}
    BY <1>1, <1>5 DEF EnterMalloc, Enter, Goto, TypeOK
  <2> QED
    BY <1>4, <1>5, <2>1
<1>6. CASE CallMalloc(Main)
  BY <1>5, <1>6 DEF CallMalloc, client
<1>7. CASE CallCalloc(Main)
  <2>1. PICK a \in CallocArgs :
          /\ SizeMul(a[1], a[2]) # 0
          /\ EnterMalloc(Main, "malloc", SizeMul(a[1], a[2]), a[1] * a[2], NULL)
    BY <1>7 DEF CallCalloc
  <2>2. SizeMul(a[1], a[2]) \in SizeT
    <3>1. a[1] \in SizeT /\ a[2] \in SizeT
      OBVIOUS
    <3> QED
      BY <3>1, ProductTyped
  <2> QED
    BY <1>5, <1>7, <2>1, <2>2 DEF CallCalloc, client
<1>8. CASE CallFree(Main)
  <2>1. PICK u \in Threads : \E q \in owned[u] : GiveUp(u, q) /\ Enter(Main, "free", 0, 0, q)
    BY <1>8 DEF CallFree
  <2>2. PICK p \in owned[u] : GiveUp(u, p) /\ Enter(Main, "free", 0, 0, p)
    BY <2>1
  <2>3. u = Main
    BY OwnedPointers
  <2>4. /\ owned'[Main] = owned[Main] \ {p} /\ op'[Main] = "free" /\ sz' = sz
        /\ pc'[Main] = "check"
    BY <1>1, <1>8, <2>2, <2>3 DEF CallFree, GiveUp, Enter, Goto, TypeOK
  <2>5. PICK r : r = Region(get_block_ptr(p))
    OBVIOUS
  <2>6. r \in Live /\ Live' = Live \ {r}
    BY <1>1, <2>3, <2>4, <2>5, ClientGives
  <2>7. HeldOf(Main)' = {} /\ Found(Main)' = {}
    BY <2>4 DEF HeldOf, Found
  <2>8. Promise!Free
    BY <1>2, <2>4, <2>6, <2>7, MapsFree
  <2> QED
    BY <2>8 DEF Promise!Next
<1>9. CASE CallRealloc(Main)
  <2>1. PICK u \in Threads, s \in Requests :
          \E p \in owned[u] : ReallocInPlace(Main, u, p, s) \/ ReallocMove(Main, u, p, s)
    BY <1>9 DEF CallRealloc
  <2>2. PICK p \in owned[u] : ReallocInPlace(Main, u, p, s) \/ ReallocMove(Main, u, p, s)
    BY <2>1
  <2>3. u = Main /\ get_block_ptr(p) \in blocks
    BY OwnedPointers
  <2>4. CASE ReallocInPlace(Main, u, p, s)
    <3>1. owned'[Main] = owned[Main] /\ UNCHANGED <<pc, op, ptr, sz>>
      BY <1>1, <2>2, <2>3, <2>4 DEF ReallocInPlace, args, TypeOK
    <3>2. Live' = Live /\ HeldOf(Main)' = HeldOf(Main)
      BY <1>1, <3>1, ClientKeepsRegions, CallKeepsRegion
    <3>3. Found(Main)' = {}
      BY <1>1, <1>3, <3>1
    <3> QED
      BY <1>2, <3>1, <3>2, <3>3, MapsStutter
  <2>5. CASE ReallocMove(Main, u, p, s)
    <3>1. /\ owned'[Main] = owned[Main] \ {p} /\ op'[Main] = "realloc" /\ ptr'[Main] = p
          /\ sz' = [sz EXCEPT ![Main] = s] /\ pc'[Main] \in {"test", "brk"}
      BY <1>1, <2>3, <2>5 DEF ReallocMove, GiveUp, EnterMalloc, Enter, Goto, TypeOK
    <3>2. s \in SizeT \ {0}
      <4>1. size[get_block_ptr(p)] \in Nat /\ s \in SizeT
        BY <2>3, OneHere
      <4> QED
        BY <2>5, <4>1 DEF ReallocMove
    <3>3. PICK r : r = Region(get_block_ptr(p))
      OBVIOUS
    <3>4. r \in Live /\ Live' = Live \ {r}
      BY <1>1, <2>3, <3>1, <3>3, ClientGives
    <3>5. HeldOf(Main)' = {r}
      <4>1. Region(get_block_ptr(p))' = Region(get_block_ptr(p))
        BY <1>1 DEF Region
      <4> QED
        BY <3>1, <3>3, <4>1 DEF HeldOf
    <3>6. Found(Main)' = {}
      BY <1>3, <3>1
    <3>7. Promise!AskForMore(Main)
      BY <1>1, <1>2, <3>1, <3>2, <3>4, <3>5, <3>6, MapsAskForMore
    <3> QED
      BY <3>7 DEF Promise!Next
  <2> QED
    BY <2>2, <2>4, <2>5
<1>10. CASE CallNoFree(Main)
  <2>1. PICK s \in Requests \ {0} : Enter(Main, "nofree", s, s, NULL)
    BY <1>10 DEF CallNoFree
  <2>2. /\ sz' = [sz EXCEPT ![Main] = s] /\ op'[Main] = "nofree" /\ pc'[Main] = "brk"
        /\ owned' = owned
    BY <1>1, <1>10, <2>1 DEF CallNoFree, Enter, Goto, TypeOK, client
  <2> QED
    BY <1>4, <2>1, <2>2
<1> QED
  BY <1>6, <1>7, <1>8, <1>9, <1>10 DEF Call

\* The search, the first half of reuse and the assertions show nothing.
LEMMA SearchMaps ==
  ASSUME One, OnlyMine,
         \/ Test(Main) \/ Step(Main) \/ Claim(Main) \/ ReadBreak(Main) \/ Refuse(Main)
         \/ Link(Main) \/ Assertions(Main)
  PROVE  UNCHANGED Promise!vars
<1>1. TypeOK /\ CallOK(Main)
  BY OneHere
<1>2. UNCHANGED <<raw, owned, op, ptr, sz, size>>
  BY DEF Test, Step, Claim, ReadBreak, Refuse, Link, Assertions, header, client, args
<1>3. ASSUME pc[Main] \in {"test", "step", "claim", "brk", "sbrk", "link"},
             \/ pc'[Main] \in {"test", "step", "claim", "reuse", "brk", "sbrk", "header", "aborted"}
             \/ pc'[Main] = "return" /\ block'[Main] = NULL
      PROVE  UNCHANGED Promise!vars
  <2>1. Found(Main) = {} /\ Found(Main)' = {}
    BY <1>3 DEF Found
  <2> QED
    BY <1>2, <1>3, <2>1, QuietMaps
<1> USE <1>1 DEF TypeOK, Goto
<1>4. CASE Test(Main)
  BY <1>3, <1>4 DEF Test
<1>5. CASE Step(Main)
  BY <1>3, <1>5 DEF Step
<1>6. CASE Claim(Main) \/ ReadBreak(Main) \/ Link(Main)
  BY <1>3, <1>6 DEF Claim, ReadBreak, Link
<1>7. CASE Refuse(Main)
  BY <1>3, <1>7 DEF Refuse
<1>8. CASE Assertions(Main)
  <2>1. pc[Main] = "check" /\ pc'[Main] = "mark" /\ block' = block
    BY <1>8, ArgumentInUse DEF Assertions
  <2>2. Found(Main)' = Found(Main)
    BY <1>2, <2>1 DEF Found, Region
  <2> QED
    BY <1>2, <2>1, <2>2, QuietMaps
<1> QED
  BY <1>4, <1>5, <1>6, <1>7, <1>8

\* malloc has the block it will return: found again, or the first of the list.
LEMMA BlockMaps ==
  ASSUME One, OnlyMine, Reuse(Main) \/ Base(Main)
  PROVE  Promise!Reserve(Main)
<1>1. TypeOK /\ CallOK(Main) /\ LocalsOK(Main) /\ HoldOK(Main) /\ GrantOK(Main)
  BY OneHere DEF Here
<1>2. PICK n : n = block[Main]
  OBVIOUS
<1>3. /\ UNCHANGED <<raw, owned, op, ptr, sz, size, block>>
      /\ pc[Main] \in {"reuse", "base"} /\ pc'[Main] = "return"
  BY <1>1 DEF Reuse, Base, header, client, args, Goto, TypeOK
<1>4. op[Main] \in {"malloc", "realloc"} /\ n # NULL
  BY <1>1, <1>2, <1>3 DEF CallOK, LocalsOK
<1>5. HasFound(Main) \/ pc[Main] = "reuse"
  BY <1>2, <1>3, <1>4 DEF HasFound
<1>6. n \in blocks /\ IsFound(n) /\ sz[Main] <= size[n]
  BY <1>1, <1>2, <1>5 DEF HoldOK, IsFound, GrantOK
<1>7. Found(Main) = {} /\ Found(Main)' = {Region(n)}
  BY <1>2, <1>3, <1>4 DEF Found, Region
<1>8. Live' = Live /\ HeldOf(Main)' = HeldOf(Main)
  BY <1>3, ClientKeepsRegions, CallKeepsRegion
<1>9. PICK r \in [ptr : Addr, len : SizeT] :
        r = Region(n) /\ \A q \in Live \cup HeldOf(Main) : Promise!Apart(r, q)
  BY <1>6, FoundApart
<1>10. r.len >= sz[Main] /\ sz[Main] > 0
  <2>1. r.len = size[n] /\ size[n] \in Nat /\ sz[Main] \in Nat
    BY <1>1, <1>6, <1>9, OneHere DEF Region, TypeOK
  <2>2. sz[Main] > 0
    BY <1>4 DEF One, OneCall
  <2> QED
    BY <1>6, <2>1, <2>2
<1> QED
  BY <1>3, <1>7, <1>8, <1>9, <1>10, MapsReserve

\* The header makes a block of what sbrk() gave: reserved at once when it is
\* linked already, by the store to global_base when it is the first.
LEMMA HeaderMaps ==
  ASSUME One, OnlyMine, Header(Main)
  PROVE  Promise!Reserve(Main) \/ UNCHANGED Promise!vars
<1>1. TypeOK /\ CallOK(Main) /\ LocalsOK(Main) /\ ReservedOK(Main) /\ META_SIZE \in Nat
  BY OneHere DEF Here
<1>2. PICK n : n = block[Main]
  OBVIOUS
<1>3. /\ UNCHANGED <<raw, owned, op, ptr, sz, block>> /\ pc[Main] = "header"
      /\ size' = [size EXCEPT ![n] = sz[Main]]
      /\ pc'[Main] = IF last[Main] = NULL THEN "base" ELSE "return"
  BY <1>1, <1>2 DEF Header, Goto, TypeOK, client, args
<1>4. n \notin blocks /\ n \in Addr /\ n \in Nat /\ n # NULL
  BY <1>1, <1>2, HeaderNew DEF One, SafeInv
<1>5. \A b \in blocks : size'[b] = size[b]
  BY <1>1, <1>3, <1>4, OneHere DEF TypeOK
<1>6. op[Main] \in {"malloc", "realloc"} /\ Found(Main) = {}
  BY <1>1, <1>3 DEF CallOK, Found
<1>7. CASE last[Main] = NULL
  <2>1. Found(Main)' = {}
    BY <1>3, <1>7 DEF Found
  <2> QED
    BY <1>3, <1>5, <1>6, <1>7, <2>1, QuietMaps
<1>8. CASE last[Main] # NULL
  <2>1. PICK r : r = [ptr |-> n + META_SIZE, len |-> sz[Main]]
    OBVIOUS
  <2>2. /\ n + META_SIZE + sz[Main] <= brk /\ brk \in Addr
        /\ \A c \in raw : c.ptr + c.len <= n \/ n + META_SIZE + sz[Main] <= c.ptr
    <3>1. HasReserved(Main) /\ ReservedEnd(Main) = n + META_SIZE + sz[Main]
      BY <1>1, <1>2, <1>3, <1>4, <1>6 DEF HasReserved, ReservedEnd, Extra, TypeOK
    <3> QED
      BY <1>1, <1>2, <3>1 DEF ReservedOK, TypeOK
  <2>3. sz[Main] \in SizeT /\ sz[Main] \in Nat /\ sz[Main] > 0
    BY <1>1, <1>6 DEF TypeOK, One, OneCall
  <2>4. r \in [ptr : Addr, len : SizeT] /\ r \in [ptr : Nat, len : Nat] /\ r.len = sz[Main]
    BY <1>1, <1>4, <2>1, <2>2, <2>3
  <2>5. \A q \in Live \cup HeldOf(Main) : Promise!Apart(r, q)
    <3>1. \A b \in blocks : BlockEnd(b) <= r.ptr
      <4>1. ASSUME NEW b \in blocks PROVE BlockEnd(b) <= n + META_SIZE
        <5>1. b < n /\ b \in Nat /\ size[b] \in Nat /\ BlockEnd(b) \in Nat
          BY <1>2, <1>3, OneHere DEF One, OneList, BlockEnd
        <5>2. BlockEnd(b) <= block[Main] \/ ReservedEnd(Main) <= b
          BY <1>1, <1>3 DEF ReservedOK, HasReserved
        <5>3. ReservedEnd(Main) >= n
          BY <1>1, <1>2, <1>4, <2>3 DEF ReservedEnd, Extra
        <5>4. ReservedEnd(Main) \in Nat
          BY <1>1, <1>2, <1>4, <2>3 DEF ReservedEnd, Extra
        <5> QED
          BY <1>1, <1>2, <1>4, <5>1, <5>2, <5>3, <5>4
      <4> QED
        BY <2>1, <4>1
    <3>2. \A q \in raw : q.ptr + q.len <= r.ptr \/ r.ptr + r.len <= q.ptr
      <4>1. ASSUME NEW q \in raw PROVE q.ptr + q.len <= r.ptr \/ r.ptr + r.len <= q.ptr
        <5>1. q.ptr \in Nat /\ q.len \in Nat
          BY <1>1 DEF TypeOK
        <5>2. q.ptr + q.len <= n \/ n + META_SIZE + sz[Main] <= q.ptr
          BY <2>2
        <5> QED
          BY <1>1, <1>4, <2>1, <2>3, <5>1, <5>2
      <4> QED
        BY <4>1
    <3> QED
      BY <2>4, <3>1, <3>2, AboveApart
  <2>6. Found(Main)' = {r}
    <3>1. size'[n] = sz[Main]
      BY <1>1, <1>3, <1>4 DEF TypeOK
    <3> QED
      BY <1>2, <1>3, <1>4, <1>6, <1>8, <2>1, <3>1 DEF Found, Region
  <2>7. Live' = Live /\ HeldOf(Main)' = HeldOf(Main)
    BY <1>3, <1>5, <1>8, ClientKeepsRegions, CallKeepsRegion
  <2>8. Promise!Reserve(Main)
    BY <1>3, <1>6, <2>3, <2>4, <2>5, <2>6, <2>7, MapsReserve
  <2> QED
    BY <2>8
<1> QED
  BY <1>7, <1>8

\* sbrk() reserves for nofree_malloc, and malloc has only memory for a header yet.
LEMMA ExtendMaps ==
  ASSUME One, OnlyMine, Extend(Main)
  PROVE  Promise!Reserve(Main) \/ UNCHANGED Promise!vars
<1>1. TypeOK /\ CallOK(Main) /\ BlocksDisjoint
  BY OneHere DEF One, SafeInv, LayoutInv
<1>2. /\ UNCHANGED <<raw, owned, op, ptr, sz, size, block>> /\ pc[Main] = "sbrk"
      /\ block[Main] = brk
      /\ pc'[Main] = IF op[Main] = "nofree" THEN "return"
                     ELSE IF last[Main] = NULL THEN "header" ELSE "link"
  BY <1>1 DEF Extend, BreakUnmoved, Goto, TypeOK, header, client, args, One, OneCall
<1>3. Found(Main) = {}
  BY <1>2 DEF Found
<1>4. CASE op[Main] # "nofree"
  <2>1. Found(Main)' = {}
    BY <1>2, <1>4 DEF Found
  <2> QED
    BY <1>2, <1>3, <1>4, <2>1, QuietMaps
<1>5. CASE op[Main] = "nofree"
  <2>1. PICK r : r = [ptr |-> brk, len |-> sz[Main]]
    OBVIOUS
  <2>2. brk \in Addr /\ sz[Main] \in SizeT /\ sz[Main] > 0
    BY <1>1, <1>5 DEF TypeOK, One, OneCall
  <2>3. r \in [ptr : Addr, len : SizeT] /\ r \in [ptr : Nat, len : Nat] /\ r.len = sz[Main]
    BY <2>1, <2>2
  <2>4. \A q \in Live \cup HeldOf(Main) : Promise!Apart(r, q)
    <3>1. \A b \in blocks : BlockEnd(b) <= r.ptr
      BY <1>1, <2>1 DEF BlocksDisjoint
    <3>2. \A q \in raw : q.ptr + q.len <= r.ptr
      BY <1>1, <2>1 DEF BlocksDisjoint
    <3> QED
      BY <2>3, <3>1, <3>2, AboveApart
  <2>5. Found(Main)' = {r}
    BY <1>2, <1>5, <2>1, <2>2 DEF Found
  <2>6. Live' = Live /\ HeldOf(Main)' = HeldOf(Main)
    BY <1>2, <1>5, ClientKeepsRegions, CallKeepsRegion
  <2>7. Promise!Reserve(Main)
    BY <1>2, <1>3, <2>2, <2>3, <2>4, <2>5, <2>6, MapsReserve
  <2> QED
    BY <2>7
<1> QED
  BY <1>4, <1>5

\* A call that returns gives the client what it has found, or its argument back.
LEMMA ReturnMaps ==
  ASSUME One, OnlyMine, ReturnNull(Main) \/ ReturnBlock(Main)
  PROVE  Promise!Fail(Main) \/ Promise!Grant(Main) \/ UNCHANGED Promise!vars
<1>1. TypeOK /\ CallOK(Main) /\ HoldOK(Main)
  BY OneHere DEF Here
<1>2. /\ pc[Main] = "return" /\ size' = size /\ sz[Main] > 0
      /\ op[Main] \in {"malloc", "nofree", "realloc"}
  <2>1. pc[Main] = "return" /\ size' = size
    BY DEF ReturnNull, ReturnBlock, header
  <2> QED
    BY <1>1, <2>1 DEF CallOK, One, OneCall
<1>3. ASSUME NEW ps, Return(Main, ps)
      PROVE  /\ sz' = [sz EXCEPT ![Main] = 0] /\ owned'[Main] = owned[Main] \cup ps
             /\ HeldOf(Main)' = {} /\ Found(Main)' = {}
  <2>1. /\ sz' = [sz EXCEPT ![Main] = 0] /\ owned'[Main] = owned[Main] \cup ps
        /\ op'[Main] = "none" /\ pc'[Main] = "idle"
    BY <1>1, <1>3 DEF Return, Enter, Goto, TypeOK
  <2> QED
    BY <2>1 DEF HeldOf, Found
<1>4. CASE ReturnNull(Main)
  <2>1. PICK p : p = ptr[Main]
    OBVIOUS
  <2>2. Return(Main, {p} \ {NULL}) /\ raw' = raw /\ Found(Main) = {}
    BY <1>4, <2>1 DEF ReturnNull, Found
  <2>3. Live' = Live \cup HeldOf(Main)
    <3>1. CASE op[Main] = "realloc"
      <4>1. PICK b \in blocks : b = get_block_ptr(p)
        BY <1>1, <2>1, <3>1 DEF HoldOK
      <4>2. p = payload(b) /\ p # NULL
        <5>1. p \in Nat /\ b \in Nat /\ b # NULL /\ META_SIZE \in Nat
          BY <1>1, <2>1, OneHere DEF TypeOK
        <5> QED
          BY <4>1, <5>1
      <4>3. owned'[Main] = owned[Main] \cup {payload(b)}
        BY <1>3, <2>2, <4>2
      <4>4. HeldOf(Main) = {Region(b)}
        BY <1>2, <2>1, <3>1, <4>1 DEF HeldOf
      <4> QED
        BY <1>2, <2>2, <4>3, <4>4, ClientGets
    <3>2. CASE op[Main] # "realloc"
      <4>1. p = NULL
        BY <1>1, <1>2, <2>1, <3>2 DEF CallOK
      <4>2. owned'[Main] = owned[Main] \cup ({p} \ {NULL})
        BY <1>3, <2>2
      <4>3. owned'[Main] = owned[Main]
        BY <4>1, <4>2
      <4>4. HeldOf(Main) = {}
        BY <3>2 DEF HeldOf
      <4> QED
        BY <1>2, <2>2, <4>3, <4>4, ClientKeepsRegions
    <3> QED
      BY <3>1, <3>2
  <2> QED
    BY <1>2, <1>3, <2>2, <2>3, MapsFail
<1>5. CASE ReturnBlock(Main)
  <2>1. PICK n : n = block[Main]
    OBVIOUS
  <2>2. n # NULL
    BY <1>5, <2>1 DEF ReturnBlock
  <2>3. CASE op[Main] = "malloc"
    <3>1. Return(Main, {payload(n)}) /\ raw' = raw
      BY <1>5, <2>1, <2>3 DEF ReturnBlock
    <3>2. n \in blocks
      BY <1>1, <1>2, <2>1, <2>2, <2>3 DEF HoldOK, HasFound
    <3>3. Found(Main) = {Region(n)} /\ HeldOf(Main) = {}
      BY <1>2, <2>1, <2>2, <2>3 DEF Found, HeldOf
    <3>4. Live' = Live \cup Found(Main)
      BY <1>2, <1>3, <3>1, <3>2, <3>3, ClientGets
    <3> QED
      BY <1>3, <3>1, <3>3, <3>4, MapsGrant
  <2>4. CASE op[Main] = "nofree"
    <3>1. PICK r : r = [ptr |-> n, len |-> sz[Main]]
      OBVIOUS
    <3>2. Return(Main, {}) /\ raw' = raw \cup {r}
      BY <1>5, <2>1, <2>4, <3>1 DEF ReturnBlock
    <3>3. Found(Main) = {r} /\ HeldOf(Main) = {}
      BY <1>2, <2>1, <2>2, <2>4, <3>1 DEF Found, HeldOf
    <3>4. Live' = Live \cup Found(Main)
      <4>1. owned'[Main] = owned[Main]
        BY <1>3, <3>2
      <4>2. Live' = raw' \cup {Region(get_block_ptr(q)) : q \in owned[Main]}
        BY <1>2, <4>1 DEF Live, Region
      <4> QED
        BY <3>2, <3>3, <4>2 DEF Live
    <3> QED
      BY <1>3, <3>2, <3>3, <3>4, MapsGrant
  <2>5. CASE op[Main] = "realloc"
    <3>1. pc'[Main] = "check" /\ UNCHANGED <<raw, owned, op, ptr, sz, block>>
      BY <1>1, <1>5, <2>5 DEF ReturnBlock, Goto, TypeOK, client, args
    <3>2. Found(Main)' = Found(Main)
      BY <1>2, <2>5, <3>1 DEF Found, Region
    <3> QED
      BY <1>2, <3>1, <3>2, QuietMaps
  <2> QED
    BY <1>2, <2>3, <2>4, <2>5
<1> QED
  BY <1>4, <1>5

\* realloc lets its old block go and returns the new one; what free() gave
\* back is the client's no longer.
LEMMA FreeMaps ==
  ASSUME One, OnlyMine, MarkFree(Main) \/ StampFree(Main)
  PROVE  Promise!Release(Main) \/ Promise!Grant(Main) \/ UNCHANGED Promise!vars
<1>1. TypeOK /\ CallOK(Main) /\ LocalsOK(Main) /\ HoldOK(Main)
  BY OneHere DEF Here
<1>2. PICK n : n = block[Main]
  OBVIOUS
<1>3. size' = size /\ raw' = raw /\ pc[Main] \in {"mark", "freed"}
  BY DEF MarkFree, StampFree, client
<1>4. op[Main] \in {"free", "realloc"}
  BY <1>1, <1>3 DEF CallOK
<1>5. op[Main] = "realloc" => n # NULL /\ n \in blocks /\ Found(Main) = {Region(n)}
  BY <1>1, <1>2, <1>3 DEF LocalsOK, HoldOK, HasFound, Found
<1>6. op[Main] = "free" => HeldOf(Main) = {} /\ Found(Main) = {} /\ sz[Main] = 0
  BY DEF HeldOf, Found, One, OneCall
<1>7. CASE MarkFree(Main)
  <2>1. pc[Main] = "mark" /\ pc'[Main] = "freed" /\ UNCHANGED <<owned, op, ptr, sz, block>>
    BY <1>1, <1>7 DEF MarkFree, Goto, TypeOK, client, args
  <2>2. Live' = Live /\ Found(Main)' = Found(Main) /\ HeldOf(Main)' = {}
    <3>1. Live' = Live
      BY <1>3, <2>1, ClientKeepsRegions
    <3> QED
      BY <1>3, <2>1, <3>1 DEF Found, HeldOf, Region
  <2>3. CASE op[Main] = "realloc"
    <3>1. HeldOf(Main) # {}
      BY <2>1, <2>3 DEF HeldOf
    <3> QED
      BY <1>5, <2>1, <2>2, <2>3, <3>1, MapsRelease
  <2>4. CASE op[Main] = "free"
    BY <1>6, <2>1, <2>2, <2>4, MapsStutter
  <2> QED
    BY <1>4, <2>3, <2>4
<1>8. CASE StampFree(Main)
  <2>1. /\ pc[Main] = "freed" /\ pc'[Main] = "idle" /\ op'[Main] = "none"
        /\ sz' = [sz EXCEPT ![Main] = 0]
        /\ owned'[Main] = owned[Main] \cup IF op[Main] = "realloc" THEN {payload(n)} ELSE {}
    BY <1>1, <1>2, <1>8 DEF StampFree, Return, Enter, Goto, TypeOK
  <2>2. Found(Main)' = {} /\ HeldOf(Main)' = {} /\ HeldOf(Main) = {}
    BY <2>1 DEF Found, HeldOf
  <2>3. CASE op[Main] = "realloc"
    <3>1. Live' = Live \cup Found(Main)
      BY <1>3, <1>5, <2>1, <2>3, ClientGets
    <3> QED
      BY <1>5, <2>1, <2>2, <2>3, <3>1, MapsGrant
  <2>4. CASE op[Main] = "free"
    <3>1. owned'[Main] = owned[Main]
      BY <2>1, <2>4
    <3>2. Live' = Live
      BY <1>3, <3>1, ClientKeepsRegions
    <3>3. sz' = sz
      BY <1>1, <1>6, <2>1, <2>4 DEF TypeOK
    <3> QED
      BY <1>6, <2>2, <2>4, <3>2, <3>3, MapsStutter
  <2> QED
    BY <1>4, <2>3, <2>4
<1> QED
  BY <1>7, <1>8

\* A process that starts has given nothing away.
LEMMA InitMaps == Init => Promise!Init
<1> SUFFICES ASSUME Init PROVE Promise!Init
  OBVIOUS
<1>1. \A t \in Threads : pc[t] = "idle" /\ op[t] = "none"
  BY DEF Init
<1>2. Live = {}
  BY DEF Init, Live
<1>3. HeldMap = [t \in Threads |-> {}] /\ FreshMap = [t \in Threads |-> {}]
  BY <1>1 DEF HeldMap, FreshMap, HeldOf, Found
<1>4. sz = [t \in Threads |-> 0]
  BY DEF Init
<1> QED
  BY <1>2, <1>3, <1>4 DEF Promise!Init, Live, HeldMap, HeldOf, FreshMap

\* Every step of the caller is one of Allocator or none.
LEMMA StepMaps ==
  ASSUME SafeInv, OneInv, [Next]_vars, callers = "one"
  PROVE  [Promise!Next]_(Promise!vars)
<1>1. CASE UNCHANGED vars
  <2>1. UNCHANGED <<size, raw, owned, pc, op, sz, ptr, block>>
    BY <1>1 DEF vars, header, client, args
  <2>2. Live' = Live /\ HeldMap' = HeldMap /\ FreshMap' = FreshMap
    BY <2>1 DEF Live, HeldMap, FreshMap, HeldOf, Found, Region
  <2> QED
    BY <2>1, <2>2 DEF Promise!vars, Live, HeldMap, HeldOf, FreshMap
<1>2. CASE Next
  <2>1. One
    BY DEF One, OneInv
  <2>2. Call(Main) \/ Work(Main)
    BY <1>2, <2>1, OnlyMain DEF Next, One
  <2>3. OnlyMine
    <3>1. OneFrames'
      BY <2>1, <2>2, FramesKept
    <3> QED
      BY <2>1, <3>1, OthersHoldNothing DEF One
  <2>4. CASE Call(Main)
    BY <2>1, <2>3, <2>4, CallMaps
  <2>5. CASE \/ Test(Main) \/ Step(Main) \/ Claim(Main) \/ ReadBreak(Main) \/ Refuse(Main)
             \/ Link(Main) \/ Assertions(Main)
    BY <2>1, <2>3, <2>5, SearchMaps
  <2>6. CASE Reuse(Main) \/ Base(Main) \/ Header(Main) \/ Extend(Main)
    <3>1. Promise!Reserve(Main) \/ UNCHANGED Promise!vars
      BY <2>1, <2>3, <2>6, BlockMaps, HeaderMaps, ExtendMaps
    <3> QED
      BY <3>1 DEF Promise!Next
  <2>7. CASE ReturnNull(Main) \/ ReturnBlock(Main)
    <3>1. Promise!Fail(Main) \/ Promise!Grant(Main) \/ UNCHANGED Promise!vars
      BY <2>1, <2>3, <2>7, ReturnMaps
    <3> QED
      BY <3>1 DEF Promise!Next
  <2>8. CASE MarkFree(Main) \/ StampFree(Main)
    <3>1. Promise!Release(Main) \/ Promise!Grant(Main) \/ UNCHANGED Promise!vars
      BY <2>1, <2>3, <2>8, FreeMaps
    <3> QED
      BY <3>1 DEF Promise!Next
  <2> QED
    BY <2>2, <2>4, <2>5, <2>6, <2>7, <2>8 DEF Work
<1> QED
  BY <1>1, <1>2

(* To a program with one thread both files keep the promise of Allocator:  *)
(* regions are handed out whole, large enough and apart, realloc gives the *)
(* old one up only when it has a new one and hands it back when it has     *)
(* none, and what nofree_malloc gave away stays apart for ever.            *)
THEOREM TutorialImplements ==
  ASSUME FittingRequests
  PROVE  Spec => ImplementsAllocator
<1>1. Init => (callers = "one" => Promise!Init)
  BY InitMaps
<1>2. SafeInv /\ OneInv /\ [Next]_vars => [callers = "one" => [Promise!Next]_(Promise!vars)]_vars
  BY StepMaps
<1> QED
  BY <1>1, <1>2, Safe, OneSafe, PTL DEF Spec, ImplementsAllocator

=============================================================================
