---------------------------- MODULE DriverProofs ----------------------------
(***************************************************************************)
(* Proofs about Driver, for arrays of any length and any sizes: main()     *)
(* loses no pointer but those a failing my_realloc overwrote, frees each   *)
(* once, and prints what the comments of wrapper.c say it prints.          *)
(***************************************************************************)
EXTENDS DriverInv, MyMallocHistoryProofs

USE DEF NULL, Addr, SizeT, SIZE_MAX, payload, get_block_ptr

USE SizesAssumption, HeapAssumption, IntptrMaxAssumption, MainAssumption

\* The arrays have a length.
LEMMA ArrayLength == Pointers \in Nat \ {0} /\ Slots = 0..(Pointers - 1)
BY LoopsAssumption DEF Slots

-----------------------------------------------------------------------------
(* main() only takes steps of the allocator's client.                      *)

\* Every step of main() is one of MyMalloc or none.
LEMMA DriverSteps ==
  ASSUME [DNext]_dvars
  PROVE  [Next]_vars
<1>1. CASE UNCHANGED dvars
  BY <1>1 DEF dvars
<1>2. CASE Running /\ InCall
  BY <1>2 DEF InCall, Next
<1>3. CASE Running /\ (Malloc \/ Calloc \/ Realloc)
  BY <1>3 DEF Malloc, Calloc, Realloc, Next, Call
<1>4. CASE Running /\ (FreeMalloc \/ FreeCalloc)
  BY <1>4 DEF FreeMalloc, FreeCalloc, FreeOrSkip, Next, Call
<1>5. CASE Running /\ (PrintStart \/ PrintRest)
  BY <1>5 DEF PrintStart, PrintRest, Next
<1> QED
  BY <1>1, <1>2, <1>3, <1>4, <1>5 DEF DNext

\* One thread is as good as a lock around every call.
LEMMA MainSerialised == Serialised
BY DEF Serialised

\* So all that is proved of serialised calls holds here.
LEMMA DriverSafe ==
  ASSUME FittingRequests
  PROVE  DSpec => []SerialisedInv
<1>1. DInit => Init
  BY DEF DInit
<1>2. [DNext]_dvars => [Next]_vars
  BY DriverSteps
<1> QED
  BY <1>1, <1>2, MainSerialised, SerialisedSafe, PTL DEF DSpec, Spec

-----------------------------------------------------------------------------
(* What a call of main() gets.                                             *)

\* A step inside a call leaves its argument and the client alone.
LEMMA CallGoesOn ==
  ASSUME SafeInv, Work(Main), pc'[Main] # "idle"
  PROVE  pc[Main] # "idle" /\ UNCHANGED <<owned, op, ptr, sz>>
<1> USE DEF SafeInv, TypeOK, Goto, frame
<1>1. CASE LockMalloc(Main) \/ FindNext(Main) \/ FindFit(Main) \/ SplitHeader(Main)
  BY <1>1 DEF LockMalloc, FindNext, FindFit, SplitHeader
<1>2. CASE SplitSkip(Main) \/ SplitLink(Main)
  BY <1>2 DEF SplitSkip, SplitLink, Return
<1>3. CASE ReadBreak(Main) \/ Extend(Main) \/ ExtendRefused(Main)
  BY <1>3 DEF ReadBreak, Extend, ExtendRefused
<1>4. CASE UnlockMalloc(Main) \/ Copy(Main) \/ UnlockFree(Main)
  BY <1>4 DEF UnlockMalloc, Copy, UnlockFree, Return
<1>5. CASE LockFree(Main) \/ Merge(Main) \/ Advance(Main)
  BY <1>5 DEF LockFree, Merge, Advance
<1> QED
  BY <1>1, <1>2, <1>3, <1>4, <1>5 DEF Work

\* What an allocation hands over was nobody's pointer.
LEMMA GrantIsNew ==
  ASSUME SafeInv, NEW b \in Held(Main)
  PROVE  b # NULL /\ b \in Nat /\ payload(b) \in Nat /\ payload(b) # NULL /\ payload(b) \notin owned
<1>1. b \in InUse /\ payload(b) \notin owned
  BY DEF SafeInv, HoldInv
<1>2. b \in Addr
  BY <1>1 DEF InUse, SafeInv, TypeOK
<1> QED
  BY <1>1, <1>2

\* A call that returns: free hands over nothing, an allocation its result, and
\* my_realloc that fails what it was given.
LEMMA CallReturns ==
  ASSUME SafeInv, Work(Main), pc'[Main] = "idle"
  PROVE  /\ pc[Main] # "idle" /\ op'[Main] = "none" /\ sz'[Main] = 0
         /\ op[Main] \in {"malloc", "free", "realloc", "resize"}
         /\ op[Main] = "free" => owned' = owned
         /\ op[Main] = "malloc" => ptr[Main] = NULL
         /\ op[Main] # "free" /\ Result = NULL => owned' = owned \cup ({ptr[Main]} \ {NULL})
         /\ op[Main] # "free" /\ Result # NULL => /\ owned' = owned \cup {Result}
                                                  /\ Result \in Nat /\ Result \notin owned
<1> USE DEF SafeInv, TypeOK, Goto
<1>1. CallOK(Main) /\ CursorOK(Main) /\ HoldInv
  BY DEF FrameInv
<1>2. PICK b, p : b = block[Main] /\ p = ptr[Main]
  OBVIOUS
<1>3. b \in Nat /\ p \in Nat /\ META_SIZE \in Nat
  BY <1>2
<1>4. Result = IF b = NULL THEN NULL ELSE payload(b)
  BY <1>2 DEF Result
<1>5. b # NULL => payload(b) # NULL
  BY <1>3
<1>6. ASSUME NEW ps, Return(Main, ps)
      PROVE  owned' = owned \cup ps /\ op'[Main] = "none" /\ sz'[Main] = 0
  BY <1>6 DEF Return
<1>7. CASE SplitSkip(Main) \/ SplitLink(Main)
  <2>1. pc[Main] \in {"split", "relink"} /\ op[Main] = "resize" /\ Return(Main, {p})
    BY <1>2, <1>7 DEF SplitSkip, SplitLink
  <2>2. b # NULL /\ b = get_block_ptr(p) /\ b \in Held(Main)
    BY <1>1, <1>2, <2>1 DEF CallOK, CursorOK, Held, Surrendered
  <2>3. payload(b) = p
    BY <1>3, <2>2
  <2>4. Result = p /\ Result \in Nat /\ Result # NULL /\ Result \notin owned
    BY <1>4, <2>2, <2>3, GrantIsNew
  <2>5. owned' = owned \cup {Result} /\ op'[Main] = "none" /\ sz'[Main] = 0
    BY <1>6, <2>1, <2>4
  <2> QED
    BY <2>1, <2>4, <2>5
<1>8. CASE UnlockMalloc(Main)
  <2>1. pc[Main] = "m_unlock" /\ op[Main] \in {"malloc", "realloc"}
    BY <1>1, <1>8 DEF UnlockMalloc, CallOK
  <2>2. op[Main] = "malloc" => p = NULL
    BY <1>1, <1>2, <2>1 DEF CallOK
  <2>3. CASE b = NULL
    <3>1. Return(Main, {p} \ {NULL})
      BY <1>2, <1>8, <2>3 DEF UnlockMalloc
    <3> QED
      BY <1>2, <1>4, <1>6, <2>1, <2>2, <2>3, <3>1
  <2>4. CASE b # NULL
    <3>1. op[Main] = "malloc" /\ Return(Main, {payload(b)})
      BY <1>2, <1>8, <2>1, <2>4 DEF UnlockMalloc
    <3>2. b \in Held(Main)
      BY <1>2, <2>1, <2>4, <3>1 DEF Held, Granted
    <3>3. Result = payload(b) /\ Result \in Nat /\ Result # NULL /\ Result \notin owned
      BY <1>4, <2>4, <3>2, GrantIsNew
    <3>4. owned' = owned \cup {Result} /\ op'[Main] = "none" /\ sz'[Main] = 0
      BY <1>6, <3>1, <3>3
    <3> QED
      BY <1>2, <2>1, <2>2, <3>1, <3>3, <3>4
  <2> QED
    BY <2>3, <2>4
<1>9. CASE UnlockFree(Main)
  <2>1. /\ pc[Main] = "f_unlock" /\ op[Main] \in {"free", "realloc"}
        /\ Return(Main, IF op[Main] = "realloc" THEN {payload(b)} ELSE {})
    BY <1>1, <1>2, <1>9 DEF UnlockFree, CallOK
  <2>2. CASE op[Main] = "free"
    <3>1. Return(Main, {})
      BY <2>1, <2>2
    <3>2. owned' = owned \cup {} /\ op'[Main] = "none" /\ sz'[Main] = 0
      BY <1>6, <3>1
    <3>3. owned' = owned
      BY <3>2
    <3> QED
      BY <2>1, <2>2, <3>2, <3>3
  <2>3. CASE op[Main] = "realloc"
    <3>1. b # NULL /\ b \in Held(Main)
      BY <1>2, <2>1, <2>3 DEF FrameInv, SizesOK, Held, Granted
    <3>2. Return(Main, {payload(b)})
      BY <2>1, <2>3
    <3>3. Result = payload(b) /\ Result \in Nat /\ Result # NULL /\ Result \notin owned
      BY <1>4, <3>1, GrantIsNew
    <3>4. owned' = owned \cup {Result} /\ op'[Main] = "none" /\ sz'[Main] = 0
      BY <1>6, <3>2, <3>3
    <3> QED
      BY <2>1, <2>3, <3>3, <3>4
  <2> QED
    BY <2>1, <2>2, <2>3
<1>10. CASE \/ LockMalloc(Main) \/ FindNext(Main) \/ FindFit(Main) \/ SplitHeader(Main)
            \/ ReadBreak(Main) \/ Extend(Main) \/ ExtendRefused(Main) \/ Copy(Main)
            \/ LockFree(Main) \/ Merge(Main) \/ Advance(Main)
  BY <1>10 DEF LockMalloc, FindNext, FindFit, SplitHeader, ReadBreak, Extend, ExtendRefused,
               Copy, LockFree, Merge, Advance
<1> QED
  BY <1>7, <1>8, <1>9, <1>10 DEF Work

-----------------------------------------------------------------------------
(* The cells of the two arrays.                                            *)

\* The client has no NULL, and a cell's value is a number.
LEMMA CellFacts ==
  ASSUME ArraysInv
  PROVE  /\ \A c \in Cells : Val(c) \in Nat
         /\ NULL \notin owned
         /\ phase \in Calling => Current \in Cells
<1> USE DEF ArraysInv, DTypeOK, Slots
<1>1. \A c \in Cells : Val(c) \in Nat
  BY DEF Cells, Val
<1>2. NULL \notin owned
  BY DEF Accounted
<1>3. ASSUME phase \in Calling
      PROVE  Current \in Cells
  <2>1. i \in Slots /\ i \in Int /\ i \notin 0..(i - 1)
    OBVIOUS
  <2>2. CASE phase \in {"malloc", "realloc", "free malloc"}
    <3>1. Current = <<"malloc", i>>
      BY <2>2 DEF Current, Here
    <3>2. i \notin Passed("malloc")
      BY <2>1, <2>2 DEF Passed
    <3> QED
      BY <2>1, <3>1, <3>2 DEF Cells
  <2>3. CASE phase \in {"calloc", "free calloc"}
    <3>1. Current = <<"calloc", i>>
      BY <2>3 DEF Current, Here
    <3>2. i \notin Passed("calloc")
      BY <2>1, <2>3 DEF Passed
    <3> QED
      BY <2>1, <3>1, <3>2 DEF Cells
  <2> QED
    BY <1>3, <2>2, <2>3 DEF Calling
<1> QED
  BY <1>1, <1>2, <1>3

\* A call takes what is in the current cell.
LEMMA TakeCell ==
  ASSUME ArraysInv, phase \in Calling, pc[Main] = "idle", pc'[Main] # "idle",
         UNCHANGED <<phase, i, malloc_ptrs, calloc_ptrs, dropped>>,
         owned' = owned \ {Val(Current)}
  PROVE  Accounted'
<1>1. PICK k, V : k = Current /\ V = {Val(c) : c \in Cells}
  OBVIOUS
<1>2. k \in Cells /\ Val(k) \in Nat
  BY <1>1, CellFacts
<1>3. Current' = k /\ Cells' = Cells /\ \A c : Val(c)' = Val(c)
  BY <1>1 DEF Current, Cells, Passed, Val
<1>4. {Val(c) : c \in Cells}' = V
  BY <1>1, <1>3
<1>5. owned = (V \ {NULL}) \cup dropped /\ Val(k) \notin dropped
  BY <1>1, <1>2 DEF ArraysInv, Accounted
<1>6. owned' = (V \ {NULL, Val(k)}) \cup dropped
  BY <1>1, <1>5
<1> QED
  BY <1>1, <1>3, <1>4, <1>6 DEF ArraysInv, Accounted

\* What a call that returns leaves in the current cell is new, or NULL.
LEMMA StoreCell ==
  ASSUME ArraysInv, phase \in Calling, pc[Main] # "idle", pc'[Main] = "idle",
         NEW k, k = Current, NEW r \in Nat, Cells' = Cells,
         Val(k)' = r, \A c \in Cells \ {k} : Val(c)' = Val(c),
         r # NULL => r \notin owned /\ owned' = owned \cup {r} /\ dropped' = dropped,
         r = NULL => /\ owned' = owned \cup ({Val(k)} \ {NULL})
                     /\ dropped' = dropped \cup ({Val(k)} \ {NULL})
  PROVE  Accounted'
<1>1. k \in Cells /\ Val(k) \in Nat
  BY CellFacts
<1>2. PICK v, V : v = Val(k) /\ V = {Val(c) : c \in Cells \ {k}}
  OBVIOUS
<1>3. {Val(c) : c \in Cells} = V \cup {v}
  BY <1>1, <1>2
<1>4. {Val(c)' : c \in Cells} = V \cup {r}
  BY <1>1, <1>2
<1>5. {Val(c) : c \in Cells}' = V \cup {r}
  BY <1>4
<1>6. /\ owned = (V \ {NULL, v}) \cup dropped /\ NULL \notin dropped /\ v \notin dropped
      /\ v # NULL => v \notin V
      /\ \A x \in V : x \notin dropped
  BY <1>1, <1>2, <1>3 DEF ArraysInv, Accounted
<1>7. r # NULL => r \notin V \cup dropped 
  BY <1>6
<1>8. owned' = ((V \cup {r}) \ {NULL}) \cup dropped' /\ NULL \notin dropped'
  BY <1>6
<1>9. \A c \in Cells : Val(c)' \notin dropped'
  <2>1. ASSUME NEW x \in V \cup {r}
        PROVE  x \notin dropped'
    <3>1. CASE r = NULL
      <4>1. dropped' = dropped \cup ({v} \ {NULL})
        BY <1>2, <3>1
      <4>2. x # v \/ x = NULL
        BY <1>6, <3>1
      <4> QED
        BY <1>6, <1>8, <3>1, <4>1, <4>2
    <3>2. CASE r # NULL
      BY <1>6, <1>7, <3>2
    <3> QED
      BY <3>1, <3>2
  <2> QED
    BY <1>2, <2>1
<1>10. ASSUME NEW c \in Cells, NEW d \in Cells, Val(c)' = Val(d)', Val(c)' # NULL
       PROVE  c = d
  <2>1. CASE c # k /\ d # k
    BY <1>10, <2>1 DEF ArraysInv, Accounted
  <2>2. CASE c = k \/ d = k
    BY <1>2, <1>7, <1>10, <2>2
  <2> QED
    BY <2>1, <2>2
<1> QED
  BY <1>5, <1>8, <1>9, <1>10 DEF Accounted

\* A cell that main() is through with, because it was freed or is NULL, is
\* none of those it still has to free.
LEMMA PassCell ==
  ASSUME ArraysInv, phase \in Calling, NEW k, k = Current,
         pc[Main] # "idle" \/ Val(k) = NULL, pc'[Main] = "idle",
         Cells' = Cells \ {k}, \A c \in Cells' : Val(c)' = Val(c),
         owned' = owned, dropped' = dropped
  PROVE  Accounted'
<1>1. k \in Cells /\ Val(k) \in Nat
  BY CellFacts
<1>2. PICK v, V : v = Val(k) /\ V = {Val(c) : c \in Cells'}
  OBVIOUS
<1>3. {Val(c) : c \in Cells} = V \cup {v}
  BY <1>1, <1>2
<1>4. {Val(c) : c \in Cells}' = V
  BY <1>2
<1>5. owned = (V \ {NULL, v}) \cup dropped
  BY <1>1, <1>2, <1>3 DEF ArraysInv, Accounted
<1>6. v # NULL => v \notin V
  BY <1>1, <1>2 DEF ArraysInv, Accounted
<1>7. owned' = (V \ {NULL}) \cup dropped'
  BY <1>5, <1>6
<1>8. \A c \in Cells' : Val(c)' \notin dropped' /\ c \in Cells
  BY DEF ArraysInv, Accounted
<1>9. \A c, d \in Cells' : Val(c)' = Val(d)' /\ Val(c)' # NULL => c = d
  BY <1>8 DEF ArraysInv, Accounted
<1>10. NULL \notin dropped'
  BY DEF ArraysInv, Accounted
<1> QED
  BY <1>4, <1>7, <1>8, <1>9, <1>10 DEF Accounted

\* Nothing comes before the first slot.
LEMMA NoneBelow == 0..(0 - 1) = {}
OBVIOUS

\* The slots up to n, and those before it.
LEMMA SlotsUpTo ==
  ASSUME NEW n \in Slots
  PROVE  /\ 0 \in Slots /\ (n + 1) - 1 = n
         /\ \A s \in Slots : s \notin 0..n <=> s \notin 0..(n - 1) /\ s # n
         /\ n + 1 < Pointers => n + 1 \in Slots
         /\ ~(n + 1 < Pointers) => Slots = 0..n
BY ArrayLength

\* The slot the loop is at has not been filled.
LEMMA SlotSelf == \A n \in Slots : n <= n
BY ArrayLength

\* The first three loops pass no cell.
LEMMA NonePassed ==
  ASSUME phase \in {"malloc", "calloc", "realloc", "free malloc"}, phase = "free malloc" => i = 0
  PROVE  Cells = {"malloc", "calloc"} \X Slots
<1>1. ASSUME NEW own \in {"malloc", "calloc"}
      PROVE  Passed(own) = {}
  <2>1. own = "malloc" \/ own = "calloc"
    OBVIOUS
  <2> QED
    BY <2>1, NoneBelow DEF Passed
<1> QED
  BY <1>1 DEF Cells

\* The same after a step.
LEMMA NonePassedYet ==
  ASSUME phase' \in {"malloc", "calloc", "realloc", "free malloc"}, phase' = "free malloc" => i' = 0
  PROVE  Cells' = {"malloc", "calloc"} \X Slots
<1>1. ASSUME NEW own \in {"malloc", "calloc"}
      PROVE  Passed(own)' = {}
  <2>1. own = "malloc" \/ own = "calloc"
    OBVIOUS
  <2> QED
    BY <2>1, NoneBelow DEF Passed
<1> QED
  BY <1>1 DEF Cells

\* A cell is passed when its slot is.
LEMMA OnePassed ==
  ASSUME NEW own \in {"malloc", "calloc"}, NEW n,
         \A o \in {"malloc", "calloc"}, s \in Slots :
           s \notin Passed(o)' <=> s \notin Passed(o) /\ ~(o = own /\ s = n)
  PROVE  Cells' = Cells \ {<<own, n>>}
<1>1. \A c \in {"malloc", "calloc"} \X Slots : c = <<own, n>> <=> c[1] = own /\ c[2] = n
  OBVIOUS
<1>2. \A c \in {"malloc", "calloc"} \X Slots :
        c[2] \notin Passed(c[1])' <=> c[2] \notin Passed(c[1]) /\ c # <<own, n>>
  BY <1>1
<1> QED
  BY <1>2 DEF Cells

\* Each step of the last loop passes the cell it is at.
LEMMA LoopPasses ==
  ASSUME DTypeOK,
         \/ phase = "free malloc" /\ At("free calloc", i)
         \/ phase = "free calloc" /\ Loop("free malloc", "report")
  PROVE  /\ Cells' = Cells \ {Current}
         /\ phase' \in Phases /\ i' \in Slots
<1>1. i \in Slots
  BY DEF DTypeOK
<1>5. ASSUME NEW s \in Slots
      PROVE  s \notin 0..i <=> s \notin 0..(i - 1) /\ s # i
  BY <1>1, SlotsUpTo
<1>2. CASE phase = "free malloc" /\ At("free calloc", i)
  <2>1. phase = "free malloc" /\ phase' = "free calloc" /\ i' = i
    BY <1>2 DEF At
  <2>2. /\ Passed("malloc") = 0..(i - 1) /\ Passed("calloc") = 0..(i - 1)
        /\ Passed("malloc")' = 0..i /\ Passed("calloc")' = 0..(i - 1)
    BY <2>1 DEF Passed
  <2>3. Current = <<"malloc", i>>
    BY <2>1 DEF Current, Here
  <2>4. Cells' = Cells \ {<<"malloc", i>>}
    <3>1. ASSUME NEW o \in {"malloc", "calloc"}, NEW s \in Slots
          PROVE  s \notin Passed(o)' <=> s \notin Passed(o) /\ ~(o = "malloc" /\ s = i)
      BY <1>5, <2>2
    <3> QED
      BY <3>1, OnePassed
  <2>5. phase' \in Phases
    BY <2>1 DEF Phases, Calling
  <2>6. i' \in Slots
    BY <1>1, <2>1
  <2> QED
    BY <2>3, <2>4, <2>5, <2>6
<1>3. CASE phase = "free calloc" /\ Loop("free malloc", "report")
  <2>1. \/ i + 1 < Pointers /\ phase' = "free malloc" /\ i' = i + 1
        \/ ~(i + 1 < Pointers) /\ phase' = "report" /\ i' = 0
    BY <1>3 DEF Loop, At
  <2>2. Passed("malloc") = 0..i /\ Passed("calloc") = 0..(i - 1)
    BY <1>3 DEF Passed
  <2>3. Passed("malloc")' = 0..i /\ Passed("calloc")' = 0..i
    <3>1. CASE i + 1 < Pointers
      <4>1. phase' = "free malloc" /\ i' = i + 1 /\ (i + 1) - 1 = i
        BY <1>1, <2>1, <3>1, SlotsUpTo
      <4>2. i' - 1 = i
        BY <4>1
      <4> QED
        BY <4>1, <4>2 DEF Passed
    <3>2. CASE ~(i + 1 < Pointers)
      <4>1. phase' = "report" /\ Slots = 0..i
        BY <1>1, <2>1, <3>2, SlotsUpTo
      <4> QED
        BY <4>1 DEF Passed
    <3> QED
      BY <3>1, <3>2
  <2>4. Current = <<"calloc", i>>
    BY <1>3 DEF Current, Here
  <2>5. Cells' = Cells \ {<<"calloc", i>>}
    <3>1. ASSUME NEW o \in {"malloc", "calloc"}, NEW s \in Slots
          PROVE  s \notin Passed(o)' <=> s \notin Passed(o) /\ ~(o = "calloc" /\ s = i)
      BY <1>5, <2>2, <2>3
    <3> QED
      BY <3>1, OnePassed
  <2>6. phase' \in Phases
    BY <2>1 DEF Phases, Calling
  <2>7. i' \in Slots
    <3>1. /\ 0 \in Slots
          /\ i + 1 < Pointers => i + 1 \in Slots
      BY <1>1, SlotsUpTo
    <3> QED
      BY <2>1, <3>1
  <2> QED
    BY <2>4, <2>5, <2>6, <2>7
<1> QED
  BY <1>2, <1>3

\* main() only meets NULL or a cell it is to free.
LEMMA FreedCell ==
  ASSUME ArraysInv, phase \in {"free malloc", "free calloc"},
         pc[Main] # "idle" \/ Val(Current) = NULL, pc'[Main] = "idle", owned' = owned,
         Continue
  PROVE  ArraysInv'
<1>1. PICK k : k = Current
  OBVIOUS
<1>2. /\ UNCHANGED <<malloc_ptrs, calloc_ptrs, dropped>>
      /\ \/ phase = "free malloc" /\ At("free calloc", i)
         \/ phase = "free calloc" /\ Loop("free malloc", "report")
  BY DEF Continue, arrays
<1>3. Cells' = Cells \ {k} /\ phase' \in Phases /\ i' \in Slots
  BY <1>1, <1>2, LoopPasses DEF ArraysInv
<1>4. \A c : Val(c)' = Val(c)
  BY <1>2 DEF Val
<1>5. Accounted'
  BY <1>1, <1>2, <1>3, <1>4, PassCell DEF Calling
<1>6. DTypeOK'
  BY <1>2, <1>3 DEF ArraysInv, DTypeOK
<1>7. phase' \notin {"malloc", "calloc"}
  BY <1>2 DEF At, Loop
<1> QED
  BY <1>5, <1>6, <1>7 DEF ArraysInv, Unfilled, CallInv

-----------------------------------------------------------------------------
(* Every step of main() keeps account.                                     *)

\* A call begins: its argument is the current cell, and no longer owned.
LEMMA Takes ==
  ASSUME ArraysInv, SafeInv,
         \/ Malloc \/ Calloc \/ Realloc
         \/ FreeMalloc /\ malloc_ptrs[i] # NULL
         \/ FreeCalloc /\ calloc_ptrs[i] # NULL
  PROVE  /\ UNCHANGED <<phase, i, malloc_ptrs, calloc_ptrs, dropped>>
         /\ phase \in Calling /\ pc[Main] = "idle" /\ pc'[Main] # "idle"
         /\ ptr'[Main] = Val(Current) /\ owned' = owned \ {Val(Current)}
         /\ phase \in {"malloc", "calloc"} => op'[Main] = "malloc"
         /\ phase = "realloc" => op'[Main] \in {"malloc", "realloc", "resize"}
         /\ phase \in {"free malloc", "free calloc"} => op'[Main] = "free"
<1> USE DEF SafeInv, TypeOK, Enter, Goto
<1>1. owned \ {NULL} = owned
  BY CellFacts
<1>2. i \in Slots
  BY DEF ArraysInv, DTypeOK
<1>3. CASE Malloc
  <2>1. PICK s : Enter(Main, "malloc", s, NULL, "m_lock")
    BY <1>3 DEF Malloc, CallMalloc
  <2>2. op'[Main] = "malloc" /\ ptr'[Main] = NULL /\ pc'[Main] = "m_lock"
    BY <2>1
  <2>3. phase = "malloc" /\ pc[Main] = "idle" /\ owned' = owned /\ UNCHANGED locals
    BY <1>3 DEF Malloc, CallMalloc
  <2>4. Val(Current) = malloc_ptrs[i]
    BY <2>3 DEF Val, Current, Here
  <2>5. malloc_ptrs[i] = NULL
    BY <1>2, <2>3, SlotSelf DEF ArraysInv, Unfilled
  <2> QED
    BY <1>1, <2>2, <2>3, <2>4, <2>5 DEF locals, arrays, Calling
<1>4. CASE Calloc
  <2>1. PICK s : Enter(Main, "malloc", s, NULL, "m_lock")
    BY <1>4 DEF Calloc, CallCalloc
  <2>2. op'[Main] = "malloc" /\ ptr'[Main] = NULL /\ pc'[Main] = "m_lock"
    BY <2>1
  <2>3. phase = "calloc" /\ pc[Main] = "idle" /\ owned' = owned /\ UNCHANGED locals
    BY <1>4 DEF Calloc, CallCalloc
  <2>4. Val(Current) = calloc_ptrs[i]
    BY <2>3 DEF Val, Current, Here
  <2>5. calloc_ptrs[i] = NULL
    BY <1>2, <2>3, SlotSelf DEF ArraysInv, Unfilled
  <2> QED
    BY <1>1, <2>2, <2>3, <2>4, <2>5 DEF locals, arrays, Calling
<1>5. CASE Realloc
  <2>1. /\ phase = "realloc" /\ CallRealloc(Main) /\ sz'[Main] = ReallocSize[i]
        /\ ptr'[Main] = malloc_ptrs[i] /\ UNCHANGED locals
    BY <1>5 DEF Realloc
  <2>2. pc[Main] = "idle" /\ ReallocSize[i] # 0
    BY <1>2, <2>1, LoopsAssumption DEF CallRealloc
  <2>3. Val(Current) = malloc_ptrs[i]
    BY <2>1 DEF Val, Current, Here
  <2>4. PICK s \in Requests :
          \/ ReallocNull(Main, s)
          \/ \E p \in owned : \/ s = 0 /\ ReallocZero(Main, p)
                              \/ s # 0 /\ ReallocInPlace(Main, p, s)
                              \/ s # 0 /\ ReallocMove(Main, p, s)
    BY <2>1 DEF CallRealloc
  <2>5. CASE ReallocNull(Main, s)
    <3>1. op'[Main] = "malloc" /\ ptr'[Main] = NULL /\ pc'[Main] = "m_lock" /\ owned' = owned
      BY <2>5 DEF ReallocNull
    <3> QED
      BY <1>1, <2>1, <2>2, <2>3, <3>1 DEF locals, arrays, Calling
  <2>6. CASE \E p \in owned : \/ s = 0 /\ ReallocZero(Main, p)
                              \/ s # 0 /\ ReallocInPlace(Main, p, s)
                              \/ s # 0 /\ ReallocMove(Main, p, s)
    <3>1. PICK p \in owned : \/ s = 0 /\ ReallocZero(Main, p)
                             \/ s # 0 /\ ReallocInPlace(Main, p, s)
                             \/ s # 0 /\ ReallocMove(Main, p, s)
      BY <2>6
    <3>2. ~ReallocZero(Main, p)
      <4>1. ASSUME ReallocZero(Main, p) PROVE sz'[Main] = 0
        BY <4>1 DEF ReallocZero
      <4> QED
        BY <2>1, <2>2, <4>1
    <3>3. /\ op'[Main] \in {"resize", "realloc"} /\ ptr'[Main] = p
          /\ pc'[Main] \in {"split", "m_lock"} /\ owned' = owned \ {p}
      BY <3>1, <3>2 DEF ReallocInPlace, ReallocMove
    <3> QED
      BY <2>1, <2>2, <2>3, <3>3 DEF locals, arrays, Calling
  <2> QED
    BY <2>4, <2>5, <2>6
<1>6. ASSUME NEW p, CallFree(Main), ptr'[Main] = p
      PROVE  pc[Main] = "idle" /\ pc'[Main] = "f_lock" /\ op'[Main] = "free" /\ owned' = owned \ {p}
  <2>1. PICK q \in owned : owned' = owned \ {q} /\ Enter(Main, "free", 0, q, "f_lock")
    BY <1>6 DEF CallFree
  <2>2. ptr'[Main] = q /\ pc'[Main] = "f_lock" /\ op'[Main] = "free"
    BY <2>1
  <2> QED
    BY <1>6, <2>1, <2>2 DEF CallFree
<1>7. CASE FreeMalloc /\ malloc_ptrs[i] # NULL
  <2>1. /\ phase = "free malloc" /\ CallFree(Main) /\ ptr'[Main] = malloc_ptrs[i]
        /\ UNCHANGED <<phase, i, arrays, dropped>>
    BY <1>7 DEF FreeMalloc, FreeOrSkip
  <2>2. Val(Current) = malloc_ptrs[i]
    BY <2>1 DEF Val, Current, Here
  <2> QED
    BY <1>6, <2>1, <2>2 DEF arrays, Calling
<1>8. CASE FreeCalloc /\ calloc_ptrs[i] # NULL
  <2>1. /\ phase = "free calloc" /\ CallFree(Main) /\ ptr'[Main] = calloc_ptrs[i]
        /\ UNCHANGED <<phase, i, arrays, dropped>>
    BY <1>8 DEF FreeCalloc, FreeOrSkip
  <2>2. Val(Current) = calloc_ptrs[i]
    BY <2>1 DEF Val, Current, Here
  <2> QED
    BY <1>6, <2>1, <2>2 DEF arrays, Calling
<1> QED
  BY <1>3, <1>4, <1>5, <1>7, <1>8

\* So it keeps account.
LEMMA TakesKeeps ==
  ASSUME ArraysInv, SafeInv,
         \/ Malloc \/ Calloc \/ Realloc
         \/ FreeMalloc /\ malloc_ptrs[i] # NULL
         \/ FreeCalloc /\ calloc_ptrs[i] # NULL
  PROVE  ArraysInv'
<1>1. PICK k, v : k = Current /\ v = Val(k)
  OBVIOUS
<1>2. /\ UNCHANGED <<phase, i, malloc_ptrs, calloc_ptrs, dropped>>
      /\ phase \in Calling /\ pc[Main] = "idle" /\ pc'[Main] # "idle"
      /\ ptr'[Main] = v /\ owned' = owned \ {v}
      /\ phase \in {"malloc", "calloc"} => op'[Main] = "malloc"
      /\ phase = "realloc" => op'[Main] \in {"malloc", "realloc", "resize"}
      /\ phase \in {"free malloc", "free calloc"} => op'[Main] = "free"
  BY <1>1, Takes
<1>3. Accounted'
  BY <1>1, <1>2, TakeCell
<1>4. Current' = k /\ Val(k)' = v
  BY <1>1, <1>2 DEF Current, Val
<1>5. DTypeOK' /\ Unfilled'
  BY <1>2 DEF ArraysInv, DTypeOK, Unfilled
<1>6. CallInv'
  BY <1>2, <1>4 DEF CallInv
<1> QED
  BY <1>3, <1>5, <1>6 DEF ArraysInv

\* To the next slot, or to the first one of the loop behind.
LEMMA LoopSlots ==
  ASSUME NEW again, NEW ph, Loop(again, ph), i \in Slots
  PROVE  /\ i' \in Slots /\ phase' \in {again, ph}
         /\ phase' = ph /\ ph # again => i' = 0
         /\ phase' = again /\ ph # again => i' = i + 1
<1>1. /\ 0 \in Slots
      /\ i + 1 < Pointers => i + 1 \in Slots
  BY SlotsUpTo
<1>2. \/ i + 1 < Pointers /\ phase' = again /\ i' = i + 1
      \/ ~(i + 1 < Pointers) /\ phase' = ph /\ i' = 0
  BY DEF Loop, At
<1> QED
  BY <1>1, <1>2

\* An array of NULLs up to a slot, and the slots behind that one.
LEMMA Behind ==
  ASSUME NEW n \in Slots, NEW s \in Slots
  PROVE  /\ n + 1 <= s => n <= s /\ s # n
BY ArrayLength

\* my_malloc returns to the first loop.
LEMMA StoresMalloc ==
  ASSUME ArraysInv, pc[Main] # "idle", pc'[Main] = "idle", phase = "malloc", Continue,
         NEW r \in Nat, r = Result, r # NULL => r \notin owned,
         owned' = owned \cup ({r} \ {NULL})
  PROVE  ArraysInv'
<1>1. PICK k : k = Current
  OBVIOUS
<1>2. /\ malloc_ptrs' = [malloc_ptrs EXCEPT ![i] = r] /\ Loop("malloc", "calloc")
      /\ UNCHANGED <<calloc_ptrs, dropped>>
  BY DEF Continue, StoreMalloc
<1>3. i \in Slots /\ malloc_ptrs \in [Slots -> Nat] /\ calloc_ptrs \in [Slots -> Nat]
  BY DEF ArraysInv, DTypeOK
<1>4. /\ i' \in Slots /\ phase' \in {"malloc", "calloc"}
      /\ phase' = "malloc" => i' = i + 1
      /\ phase' = "calloc" => i' = 0
  BY <1>2, <1>3, LoopSlots
<1>5. malloc_ptrs'[i] = r /\ \A s \in Slots \ {i} : malloc_ptrs'[s] = malloc_ptrs[s]
  BY <1>2, <1>3
<1>6. k = <<"malloc", i>>
  BY <1>1 DEF Current, Here
<1>7. Cells' = Cells
  BY <1>4, NonePassed, NonePassedYet
<1>8. Val(k)' = r
  BY <1>5, <1>6 DEF Val
<1>9. Val(k) = NULL
  BY <1>3, <1>6, SlotSelf DEF Val, ArraysInv, Unfilled
<1>10. ASSUME NEW c \in Cells \ {k}
       PROVE  Val(c)' = Val(c)
  <2>1. c[2] \in Slots /\ (c[1] = "malloc" => c[2] # i)
    BY <1>6 DEF Cells
  <2> QED
    BY <1>2, <1>5, <2>1 DEF Val
<1>11. Accounted'
  <2>1. r # NULL => r \notin owned /\ owned' = owned \cup {r} /\ dropped' = dropped
    BY <1>2
  <2>2. r = NULL => /\ owned' = owned \cup ({Val(k)} \ {NULL})
                    /\ dropped' = dropped \cup ({Val(k)} \ {NULL})
    BY <1>2, <1>9
  <2> QED
    BY <1>1, <1>7, <1>8, <1>10, <2>1, <2>2, StoreCell DEF Calling
<1>12. DTypeOK'
  BY <1>2, <1>3, <1>4 DEF DTypeOK, Phases, Calling
<1>13. Unfilled'
  <2>1. ASSUME NEW s \in Slots, phase' = "malloc", i' <= s
        PROVE  malloc_ptrs'[s] = NULL
    <3>1. i <= s /\ s # i
      BY <1>3, <1>4, <2>1, Behind
    <3>2. malloc_ptrs[s] = NULL
      BY <3>1 DEF ArraysInv, Unfilled
    <3> QED
      BY <1>5, <3>1, <3>2
  <2>2. ASSUME NEW s \in Slots
        PROVE  calloc_ptrs'[s] = NULL
    <3>1. calloc_ptrs[s] = NULL
      BY <2>2 DEF ArraysInv, Unfilled
    <3> QED
      BY <1>2, <3>1
  <2> QED
    BY <2>1, <2>2 DEF Unfilled
<1> QED
  BY <1>11, <1>12, <1>13 DEF ArraysInv, CallInv

\* my_calloc returns to the second.
LEMMA StoresCalloc ==
  ASSUME ArraysInv, pc[Main] # "idle", pc'[Main] = "idle", phase = "calloc", Continue,
         NEW r \in Nat, r = Result, r # NULL => r \notin owned,
         owned' = owned \cup ({r} \ {NULL})
  PROVE  ArraysInv'
<1>1. PICK k : k = Current
  OBVIOUS
<1>2. /\ calloc_ptrs' = [calloc_ptrs EXCEPT ![i] = r] /\ Loop("calloc", "realloc")
      /\ UNCHANGED <<malloc_ptrs, dropped>>
  BY DEF Continue
<1>3. i \in Slots /\ malloc_ptrs \in [Slots -> Nat] /\ calloc_ptrs \in [Slots -> Nat]
  BY DEF ArraysInv, DTypeOK
<1>4. /\ i' \in Slots /\ phase' \in {"calloc", "realloc"}
      /\ phase' = "calloc" => i' = i + 1
  BY <1>2, <1>3, LoopSlots
<1>5. calloc_ptrs'[i] = r /\ \A s \in Slots \ {i} : calloc_ptrs'[s] = calloc_ptrs[s]
  BY <1>2, <1>3
<1>6. k = <<"calloc", i>>
  BY <1>1 DEF Current, Here
<1>7. Cells' = Cells
  BY <1>4, NonePassed, NonePassedYet
<1>8. Val(k)' = r
  BY <1>5, <1>6 DEF Val
<1>9. Val(k) = NULL
  BY <1>3, <1>6, SlotSelf DEF Val, ArraysInv, Unfilled
<1>10. ASSUME NEW c \in Cells \ {k}
       PROVE  Val(c)' = Val(c)
  <2>1. c \in {"malloc", "calloc"} \X Slots /\ c # <<"calloc", i>>
    BY <1>6 DEF Cells
  <2>2. c[2] \in Slots /\ (c[1] = "calloc" => c[2] # i) /\ c[1] \in {"malloc", "calloc"}
    BY <2>1
  <2> QED
    BY <1>2, <1>5, <2>2 DEF Val
<1>11. Accounted'
  <2>1. r # NULL => r \notin owned /\ owned' = owned \cup {r} /\ dropped' = dropped
    BY <1>2
  <2>2. r = NULL => /\ owned' = owned \cup ({Val(k)} \ {NULL})
                    /\ dropped' = dropped \cup ({Val(k)} \ {NULL})
    BY <1>2, <1>9
  <2> QED
    BY <1>1, <1>7, <1>8, <1>10, <2>1, <2>2, StoreCell DEF Calling
<1>12. DTypeOK'
  BY <1>2, <1>3, <1>4 DEF DTypeOK, Phases, Calling
<1>13. Unfilled'
  <2>1. ASSUME NEW s \in Slots, phase' = "calloc", i' <= s
        PROVE  calloc_ptrs'[s] = NULL
    <3>1. i <= s /\ s # i
      BY <1>3, <1>4, <2>1, Behind
    <3>2. calloc_ptrs[s] = NULL
      BY <3>1 DEF ArraysInv, Unfilled
    <3> QED
      BY <1>5, <3>1, <3>2
  <2> QED
    BY <1>4, <2>1 DEF Unfilled
<1> QED
  BY <1>11, <1>12, <1>13 DEF ArraysInv, CallInv

\* my_realloc returns to the third, which forgets the old pointer.
LEMMA StoresRealloc ==
  ASSUME ArraysInv, pc[Main] # "idle", pc'[Main] = "idle", phase = "realloc", Continue,
         NEW r \in Nat, r = Result,
         r # NULL => r \notin owned /\ owned' = owned \cup {r},
         r = NULL => owned' = owned \cup ({ptr[Main]} \ {NULL})
  PROVE  ArraysInv'
<1>1. PICK k : k = Current
  OBVIOUS
<1>2. /\ malloc_ptrs' = [malloc_ptrs EXCEPT ![i] = r] /\ Loop("realloc", "free malloc")
      /\ UNCHANGED calloc_ptrs
      /\ dropped' = IF r = NULL THEN dropped \cup ({malloc_ptrs[i]} \ {NULL}) ELSE dropped
  BY DEF Continue, Overwrite, StoreMalloc
<1>3. i \in Slots /\ malloc_ptrs \in [Slots -> Nat] /\ calloc_ptrs \in [Slots -> Nat]
  BY DEF ArraysInv, DTypeOK
<1>4. /\ i' \in Slots /\ phase' \in {"realloc", "free malloc"}
      /\ phase' = "free malloc" => i' = 0
  <2>1. "free malloc" # "realloc" /\ Loop("realloc", "free malloc")
    BY <1>2
  <2> QED
    BY <1>3, <2>1, LoopSlots
<1>5. malloc_ptrs'[i] = r /\ \A s \in Slots \ {i} : malloc_ptrs'[s] = malloc_ptrs[s]
  BY <1>2, <1>3
<1>6. k = <<"malloc", i>>
  BY <1>1 DEF Current, Here
<1>7. Cells' = Cells
  BY <1>4, NonePassed, NonePassedYet
<1>8. Val(k)' = r
  BY <1>5, <1>6 DEF Val
<1>9. Val(k) = malloc_ptrs[i] /\ ptr[Main] = Val(k)
  BY <1>1, <1>6 DEF Val, ArraysInv, CallInv
<1>10. ASSUME NEW c \in Cells \ {k}
       PROVE  Val(c)' = Val(c)
  <2>1. c \in {"malloc", "calloc"} \X Slots /\ c # <<"malloc", i>>
    BY <1>6 DEF Cells
  <2>2. c[2] \in Slots /\ (c[1] = "malloc" => c[2] # i)
    BY <2>1
  <2> QED
    BY <1>2, <1>5, <2>2 DEF Val
<1>11. Accounted'
  <2>1. r # NULL => r \notin owned /\ owned' = owned \cup {r} /\ dropped' = dropped
    BY <1>2
  <2>2. r = NULL => /\ owned' = owned \cup ({Val(k)} \ {NULL})
                    /\ dropped' = dropped \cup ({Val(k)} \ {NULL})
    BY <1>2, <1>9
  <2> QED
    BY <1>1, <1>7, <1>8, <1>10, <2>1, <2>2, StoreCell DEF Calling
<1>12. DTypeOK'
  BY <1>2, <1>3, <1>4 DEF DTypeOK, Phases, Calling
<1>13. Unfilled'
  BY <1>4 DEF Unfilled
<1> QED
  BY <1>11, <1>12, <1>13 DEF ArraysInv, CallInv

\* A call that returns.
LEMMA ReturnKeeps ==
  ASSUME ArraysInv, SafeInv, Work(Main), pc'[Main] = "idle", Continue
  PROVE  ArraysInv'
<1>1. PICK r : r = Result
  OBVIOUS
<1>2. /\ pc[Main] # "idle" /\ op[Main] \in {"malloc", "free", "realloc", "resize"}
      /\ op[Main] = "free" => owned' = owned
      /\ op[Main] = "malloc" => ptr[Main] = NULL
      /\ op[Main] # "free" /\ r = NULL => owned' = owned \cup ({ptr[Main]} \ {NULL})
      /\ op[Main] # "free" /\ r # NULL => owned' = owned \cup {r} /\ r \in Nat /\ r \notin owned
  BY <1>1, CallReturns
<1>3. /\ phase \in Calling
      /\ phase \in {"malloc", "calloc"} => op[Main] = "malloc"
      /\ phase = "realloc" => op[Main] \in {"malloc", "realloc", "resize"}
      /\ phase \in {"free malloc", "free calloc"} => op[Main] = "free"
  BY <1>2 DEF ArraysInv, CallInv
<1>4. CASE phase \in {"malloc", "calloc"}
  <2>1. r \in Nat /\ (r # NULL => r \notin owned)
    <3>1. op[Main] # "free"
      BY <1>3, <1>4
    <3>2. r = NULL => r \in Nat
      OBVIOUS
    <3> QED
      BY <1>2, <3>1, <3>2
  <2>2. owned' = owned \cup ({r} \ {NULL})
    <3>1. CASE r = NULL
      <4>1. owned' = owned \cup {}
        BY <1>2, <1>3, <1>4, <3>1
      <4> QED
        BY <3>1, <4>1
    <3>2. CASE r # NULL
      BY <1>2, <1>3, <1>4, <3>2
    <3> QED
      BY <3>1, <3>2
  <2> QED
    BY <1>1, <1>2, <1>4, <2>1, <2>2, StoresMalloc, StoresCalloc
<1>5. CASE phase = "realloc"
  <2>1. op[Main] # "free" /\ r \in Nat
    BY <1>2, <1>3, <1>5
  <2> QED
    BY <1>1, <1>2, <1>5, <2>1, StoresRealloc
<1>6. CASE phase \in {"free malloc", "free calloc"}
  BY <1>2, <1>3, <1>6, FreedCell
<1> QED
  BY <1>3, <1>4, <1>5, <1>6 DEF Calling

\* Nothing moves when a call goes on, or main() does not step at all.
LEMMA SameArrays ==
  ASSUME ArraysInv, UNCHANGED <<phase, i, malloc_ptrs, calloc_ptrs, dropped, owned>>,
         \/ pc[Main] # "idle" /\ pc'[Main] # "idle" /\ op'[Main] = op[Main] /\ ptr'[Main] = ptr[Main]
         \/ pc'[Main] = pc[Main] /\ op'[Main] = op[Main] /\ ptr'[Main] = ptr[Main]
  PROVE  ArraysInv'
<1>1. PICK k : k = Current
  OBVIOUS
<1>2. Current' = k /\ Cells' = Cells /\ \A c : Val(c)' = Val(c)
  BY <1>1 DEF Current, Cells, Passed, Val
<1>3. {Val(c) : c \in Cells}' = {Val(c) : c \in Cells}
  BY <1>2
<1>4. pc'[Main] = "idle" <=> pc[Main] = "idle"
  OBVIOUS
<1>5. Accounted'
  BY <1>1, <1>2, <1>3, <1>4 DEF ArraysInv, Accounted
<1>6. DTypeOK' /\ Unfilled'
  BY DEF ArraysInv, DTypeOK, Unfilled
<1>7. CallInv'
  BY <1>1, <1>2, <1>4 DEF ArraysInv, CallInv
<1> QED
  BY <1>5, <1>6, <1>7 DEF ArraysInv

\* libc's allocation for the first printf() leaves the arrays alone: by then
\* every cell has been passed.
LEMMA PrintKeeps ==
  ASSUME ArraysInv, PrintStart \/ PrintRest
  PROVE  ArraysInv'
<1>1. /\ phase \in {"report", "end"} /\ phase' \in {"end", "returned"} /\ i' = 0
      /\ UNCHANGED <<malloc_ptrs, calloc_ptrs, dropped>>
  BY DEF PrintStart, PrintRest, At, arrays
<1>2. UNCHANGED <<owned, pc, op, ptr>>
  BY DEF PrintStart, PrintRest, LibcSbrk, vars, frame
<1>3. pc[Main] = "idle"
  BY <1>1 DEF ArraysInv, CallInv, Calling
<1>4. Cells = {} /\ Cells' = {}
  <2>1. ASSUME NEW own
        PROVE  Passed(own) = Slots /\ Passed(own)' = Slots
    BY <1>1 DEF Passed
  <2> QED
    BY <2>1 DEF Cells
<1>5. Accounted'
  <2>1. owned = {} \cup dropped
    BY <1>3, <1>4 DEF ArraysInv, Accounted
  <2>2. {Val(c) : c \in Cells}' = {}
    BY <1>4
  <2> QED
    BY <1>1, <1>2, <1>3, <1>4, <2>1, <2>2 DEF ArraysInv, Accounted
<1>6. DTypeOK'
  <2>1. 0 \in Slots
    BY ArrayLength
  <2> QED
    BY <1>1, <2>1 DEF ArraysInv, DTypeOK, Phases, Calling
<1>7. Unfilled' /\ CallInv'
  BY <1>1, <1>2, <1>3 DEF Unfilled, CallInv
<1> QED
  BY <1>5, <1>6, <1>7 DEF ArraysInv

\* The arrays as main() finds them account for nothing.
LEMMA InitArrays ==
  ASSUME DInit
  PROVE  ArraysInv
<1>1. /\ phase = "malloc" /\ i = 0 /\ dropped = {} /\ owned = {} /\ pc[Main] = "idle"
      /\ \A s \in Slots : malloc_ptrs[s] = NULL /\ calloc_ptrs[s] = NULL
  BY DEF DInit, Init
<1>2. \A c \in Cells : Val(c) = NULL
  BY <1>1 DEF Cells, Val
<1>3. Accounted
  <2>1. {Val(c) : c \in Cells} \ {NULL} = {}
    BY <1>2
  <2> QED
    BY <1>1, <1>2, <2>1 DEF Accounted
<1>4. DTypeOK
  <2>1. 0 \in Slots
    BY ArrayLength
  <2>2. malloc_ptrs \in [Slots -> Nat] /\ calloc_ptrs \in [Slots -> Nat]
    BY DEF DInit
  <2> QED
    BY <1>1, <2>1, <2>2 DEF DTypeOK, Phases, Calling
<1>5. Unfilled /\ CallInv
  BY <1>1 DEF Unfilled, CallInv
<1> QED
  BY <1>3, <1>4, <1>5 DEF ArraysInv

\* Every step keeps account of the pointers.
LEMMA ArraysKept ==
  ASSUME ArraysInv, SafeInv, [DNext]_dvars
  PROVE  ArraysInv'
<1>1. CASE UNCHANGED dvars
  BY <1>1, SameArrays DEF dvars, vars, locals, arrays, frame
<1>2. CASE InCall
  <2>1. CASE pc'[Main] = "idle"
    BY <1>2, <2>1, ReturnKeeps DEF InCall
  <2>2. CASE pc'[Main] # "idle"
    <3>1. pc[Main] # "idle" /\ UNCHANGED <<owned, op, ptr, sz>>
      BY <1>2, <2>2, CallGoesOn DEF InCall
    <3>2. UNCHANGED <<phase, i, malloc_ptrs, calloc_ptrs, dropped>>
      BY <1>2, <2>2 DEF InCall, arrays
    <3> QED
      BY <2>2, <3>1, <3>2, SameArrays
  <2> QED
    BY <2>1, <2>2
<1>3. CASE Malloc \/ Calloc \/ Realloc
  BY <1>3, TakesKeeps
<1>4. CASE FreeMalloc
  <2>1. CASE malloc_ptrs[i] # NULL
    BY <1>4, <2>1, TakesKeeps
  <2>2. CASE malloc_ptrs[i] = NULL
    <3>1. phase = "free malloc" /\ pc[Main] = "idle" /\ UNCHANGED vars /\ Continue
      BY <1>4, <2>2 DEF FreeMalloc, FreeOrSkip
    <3>2. Val(Current) = NULL
      BY <2>2, <3>1 DEF Val, Current, Here
    <3>3. pc'[Main] = "idle" /\ owned' = owned
      BY <3>1 DEF vars
    <3> QED
      BY <3>1, <3>2, <3>3, FreedCell
  <2> QED
    BY <2>1, <2>2
<1>5. CASE FreeCalloc
  <2>1. CASE calloc_ptrs[i] # NULL
    BY <1>5, <2>1, TakesKeeps
  <2>2. CASE calloc_ptrs[i] = NULL
    <3>1. phase = "free calloc" /\ pc[Main] = "idle" /\ UNCHANGED vars /\ Continue
      BY <1>5, <2>2 DEF FreeCalloc, FreeOrSkip
    <3>2. Val(Current) = NULL
      BY <2>2, <3>1 DEF Val, Current, Here
    <3>3. pc'[Main] = "idle" /\ owned' = owned
      BY <3>1 DEF vars
    <3> QED
      BY <3>1, <3>2, <3>3, FreedCell
  <2> QED
    BY <2>1, <2>2
<1>6. CASE PrintStart \/ PrintRest
  BY <1>6, PrintKeeps
<1> QED
  BY <1>1, <1>2, <1>3, <1>4, <1>5, <1>6 DEF DNext

\* What the arrays hold is what the cells hold.
LEMMA KeptCells ==
  ASSUME DTypeOK
  PROVE  Kept = {Val(c) : c \in Cells}
<1>1. ASSUME NEW p \in Kept
      PROVE  \E c \in Cells : p = Val(c)
  <2>1. CASE \E s \in Slots \ Passed("malloc") : p = malloc_ptrs[s]
    <3>1. PICK s \in Slots \ Passed("malloc") : p = malloc_ptrs[s]
      BY <2>1
    <3>2. <<"malloc", s>> \in Cells /\ Val(<<"malloc", s>>) = p
      BY <3>1 DEF Cells, Val
    <3> QED
      BY <3>2
  <2>2. CASE \E s \in Slots \ Passed("calloc") : p = calloc_ptrs[s]
    <3>1. PICK s \in Slots \ Passed("calloc") : p = calloc_ptrs[s]
      BY <2>2
    <3>2. <<"calloc", s>> \in Cells /\ Val(<<"calloc", s>>) = p
      BY <3>1 DEF Cells, Val
    <3> QED
      BY <3>2
  <2> QED
    BY <2>1, <2>2 DEF Kept
<1>2. ASSUME NEW c \in Cells
      PROVE  Val(c) \in Kept
  <2>1. CASE c[1] = "malloc"
    BY <2>1 DEF Cells, Val, Kept
  <2>2. CASE c[1] = "calloc"
    BY <2>2 DEF Cells, Val, Kept
  <2> QED
    BY <2>1, <2>2 DEF Cells
<1> QED
  BY <1>1, <1>2

(* Between two calls main() can reach every pointer it owns in one of its  *)
(* arrays, and frees it once, except those a failing my_realloc overwrote  *)
(* (wrapper.c:39-43), for arrays of any length and requests of any sizes.  *)
THEOREM MainAccounts ==
  ASSUME FittingRequests
  PROVE  DSpec => []PointersAccounted
<1>1. DInit => ArraysInv
  BY InitArrays
<1>2. ArraysInv /\ SerialisedInv /\ [DNext]_dvars => ArraysInv'
  BY ArraysKept DEF SerialisedInv
<1>3. ArraysInv => PointersAccounted
  <2>1. ASSUME ArraysInv, pc[Main] = "idle"
        PROVE  owned = (Kept \ {NULL}) \cup dropped /\ dropped \cap Kept = {}
    BY <2>1, KeptCells DEF ArraysInv, Accounted
  <2> QED
    BY <2>1 DEF PointersAccounted
<1> QED
  BY <1>1, <1>2, <1>3, DriverSafe, PTL DEF DSpec

-----------------------------------------------------------------------------
(* No block is empty, so a block that was lost shows.                      *)

\* A header is written with the size of a request, of what a split leaves
\* over, or of what a merge adds to it.
LEMMA SizesKept ==
  ASSUME SafeInv, SizesInv, [Next]_vars
  PROVE  SizesInv'
<1> USE IntptrMaxAssumption
<1>1. WantInv' /\ WantInv /\ \A b \in blocks : size[b] > 0 /\ b \in Addr
  BY WantKept DEF SizesInv, SafeInv, TypeOK
<1>2. CASE UNCHANGED <<blocks, size>>
  BY <1>1, <1>2 DEF SizesInv
<1>3. ASSUME NEW t \in Threads, Call(t) \/ Work(t)
      PROVE  SizesInv'
  <2>1. CASE SplitHeader(t)
    <3>1. NewAt(t) \notin blocks /\ blocks' = blocks
          /\ \A a \in Addr \ {NewAt(t)} : size'[a] = size[a]
      BY <2>1, SplitHeaderEffect
    <3> QED
      BY <1>1, <3>1 DEF SizesInv
  <2>2. CASE SplitLink(t)
    <3>1. PICK b, n, s : b = block[t] /\ n = NewAt(t) /\ s = sz[t]
      OBVIOUS
    <3>2. /\ n \notin blocks /\ n \in Addr /\ b \in Addr /\ b \in blocks
          /\ size[n] \in Nat /\ size'[b] = s
          /\ \A a \in Addr \ {b} : size'[a] = size[a]
          /\ blocks' = blocks \cup {n}
      BY <2>2, <3>1, SplitLinkEffect DEF InUse
    <3>3. pc[t] = "relink" /\ op[t] \in {"malloc", "realloc", "resize"}
      BY <2>2 DEF SplitLink, SafeInv, FrameInv, CallOK
    <3>4. s > 0
      BY <1>1, <3>1, <3>3 DEF WantInv
    <3>5. size[n] > 0
      <4>1. /\ s + META_SIZE + MIN_SPLIT_REMAINDER < size[b]
            /\ size[n] = size[b] - s - META_SIZE
        BY <3>1, <3>3 DEF SafeInv, FrameInv, HalfSplitOK
      <4>2. s \in Nat /\ size[b] \in Nat
        BY <3>1, <3>2 DEF SafeInv, TypeOK
      <4> QED
        BY <4>1, <4>2
    <3>6. \A a \in blocks' : size'[a] > 0
      BY <1>1, <3>2, <3>4, <3>5
    <3> QED
      BY <1>1, <3>6 DEF SizesInv
  <2>3. CASE Extend(t)
    <3>1. /\ size'[brk] = sz[t] /\ blocks' = blocks \cup {brk} /\ pc[t] = "extend"
          /\ brk \notin blocks /\ \A a \in Addr \ {brk} : size'[a] = size[a]
      BY <2>3, ExtendEffect
    <3>2. op[t] \in {"malloc", "realloc"}
      BY <3>1 DEF SafeInv, FrameInv, CallOK
    <3>3. sz[t] > 0
      BY <1>1, <3>2 DEF WantInv
    <3> QED
      BY <1>1, <3>1, <3>3 DEF SizesInv
  <2>4. CASE Merge(t)
    <3>1. PICK c, n : c = cur[t] /\ n = next[c]
      OBVIOUS
    <3>2. /\ size[c] \in Nat /\ size[n] \in Nat /\ size'[c] = size[c] + META_SIZE + size[n]
          /\ blocks' = blocks \ {n} /\ \A a \in Addr \ {c} : size'[a] = size[a]
      BY <2>4, <3>1, MergeEffect
    <3>3. size'[c] > 0
      BY <3>2
    <3> QED
      BY <1>1, <3>2, <3>3 DEF SizesInv
  <2>5. CASE FindFit(t) \/ LockFree(t)
    BY <1>2, <2>5, MarkEffect
  <2> QED
    BY <1>2, <1>3, <2>1, <2>2, <2>3, <2>4, <2>5, StepShapes
<1> QED
  BY <1>2, <1>3 DEF Next, vars, heap, header, LibcSbrk

-----------------------------------------------------------------------------
(* The heap main() leaves.                                                 *)

\* Only request_space sets the two pointers to the first block, both at once.
LEMMA BasesMove ==
  ASSUME heap_start = global_base, Call(Main) \/ Work(Main)
  PROVE  heap_start' = global_base' /\ libc' = libc
<1>1. CASE Call(Main)
  BY <1>1 DEF Call, CallMalloc, CallCalloc, CallFree, CallRealloc, os, heap, base
<1>2. CASE LockMalloc(Main) \/ FindNext(Main) \/ FindFit(Main) \/ SplitHeader(Main)
  BY <1>2 DEF LockMalloc, FindNext, FindFit, SplitHeader, os, heap, base
<1>3. CASE SplitSkip(Main) \/ SplitLink(Main) \/ ReadBreak(Main) \/ ExtendRefused(Main)
  BY <1>3 DEF SplitSkip, SplitLink, ReadBreak, ExtendRefused, os, heap, base
<1>4. CASE Extend(Main)
  BY <1>4 DEF Extend
<1>5. CASE UnlockMalloc(Main) \/ Copy(Main) \/ UnlockFree(Main)
  BY <1>5 DEF UnlockMalloc, Copy, UnlockFree, os, heap, base
<1>6. CASE LockFree(Main) \/ Merge(Main) \/ Advance(Main)
  BY <1>6 DEF LockFree, Merge, Advance, os, heap, base
<1> QED
  BY <1>1, <1>2, <1>3, <1>4, <1>5, <1>6 DEF Work

\* When main() is past its loops it owns what was dropped, and nothing runs.
LEMMA LoopsOver ==
  ASSUME ArraysInv, phase \in {"report", "end", "returned"}
  PROVE  pc[Main] = "idle" /\ owned = dropped /\ Quiescent
<1>1. pc[Main] = "idle"
  BY DEF ArraysInv, CallInv, Calling
<1>2. Cells = {}
  <2>1. \A own : Passed(own) = Slots
    BY DEF Passed
  <2> QED
    BY <2>1 DEF Cells
<1>3. owned = {} \cup dropped
  BY <1>1, <1>2 DEF ArraysInv, Accounted
<1> QED
  BY <1>1, <1>3 DEF Quiescent

\* When nothing was dropped, one block is left.
LEMMA OneBlockLeft ==
  ASSUME ArraysInv, SerialisedInv, phase = "report", libc = {}, dropped = {}, blocks # {}
  PROVE  blocks = {global_base} /\ brk = BlockEnd(global_base)
<1>1. pc[Main] = "idle" /\ owned = {}
  BY LoopsOver
<1>2. \A b \in blocks : BlockEnd(b) = brk
  BY <1>1, DrainedCollapses DEF SerialisedInv, SerialInv, DrainedHeapCollapses
<1>3. SafeInv /\ ListThreadsBlocks
  BY DEF SerialisedInv, SerialInv, ListInv, WalksInv
<1>4. global_base \in blocks
  BY <1>3 DEF ListThreadsBlocks
<1>5. \A b \in blocks : b \in Nat /\ size[b] \in Nat
  BY <1>3, IntptrMaxAssumption DEF SafeInv, TypeOK
<1>6. ASSUME NEW b \in blocks, NEW c \in blocks, b < c
      PROVE  FALSE
  <2>1. BlockEnd(b) <= c
    BY <1>3, <1>6 DEF SafeInv, SpaceInv, BlocksDisjoint
  <2>2. c < BlockEnd(c) /\ BlockEnd(b) = BlockEnd(c) /\ BlockEnd(b) \in Nat
    BY <1>2, <1>5 DEF BlockEnd
  <2> QED
    BY <1>5, <2>1, <2>2
<1>7. \A b \in blocks : b = global_base
  BY <1>4, <1>5, <1>6
<1> QED
  BY <1>2, <1>4, <1>7

\* Until it prints main() makes calls, and prints nothing.
LEMMA BeforePrinting ==
  ASSUME ArraysInv, InCall \/ Malloc \/ Calloc \/ Realloc \/ FreeMalloc \/ FreeCalloc
  PROVE  /\ phase \in Calling /\ phase' \in Calling \cup {"report"} /\ report' = report
         /\ Call(Main) \/ Work(Main) \/ UNCHANGED vars
<1>1. ASSUME Continue
      PROVE  phase \in Calling /\ phase' \in Calling \cup {"report"}
  BY <1>1 DEF Continue, At, Loop, Calling
<1>2. CASE InCall
  <2>1. pc[Main] # "idle"
    BY <1>2 DEF InCall, Work, LockMalloc, FindNext, FindFit, SplitHeader, SplitSkip, SplitLink,
                ReadBreak, Extend, ExtendRefused, UnlockMalloc, Copy, UnlockFree, LockFree,
                Merge, Advance
  <2>2. phase \in Calling
    BY <2>1 DEF ArraysInv, CallInv
  <2>3. Continue \/ phase' = phase
    BY <1>2 DEF InCall
  <2>4. Work(Main) /\ report' = report
    BY <1>2 DEF InCall
  <2> QED
    BY <1>1, <2>2, <2>3, <2>4
<1>3. CASE Malloc \/ Calloc \/ Realloc
  BY <1>3 DEF Malloc, Calloc, Realloc, Call, locals, Calling
<1>4. CASE FreeMalloc \/ FreeCalloc
  <2>1. /\ phase \in Calling /\ report' = report
        /\ \/ UNCHANGED vars /\ Continue
           \/ CallFree(Main) /\ phase' = phase
    BY <1>4 DEF FreeMalloc, FreeCalloc, FreeOrSkip, Calling
  <2> QED
    BY <1>1, <2>1 DEF Call
<1> QED
  BY <1>2, <1>3, <1>4

\* libc's memory is new, and all it takes.
LEMMA LibcTakes ==
  ASSUME TypeOK, libc = {}, LibcSbrk \/ UNCHANGED vars
  PROVE  /\ UNCHANGED <<base, blocks, size>>
         /\ brk' = brk + Cardinality(libc')
<1>1. CASE UNCHANGED vars
  <2>1. libc' = {} /\ brk' = brk /\ UNCHANGED <<base, blocks, size>>
    BY <1>1 DEF vars, os, heap, header
  <2>2. brk \in Nat
    BY DEF TypeOK
  <2> QED
    BY <2>1, <2>2, FS_EmptySet
<1>2. CASE LibcSbrk
  <2>1. PICK k \in LibcSteps : brk' = brk + k /\ libc' = libc \cup brk..(brk + k - 1)
    BY <1>2 DEF LibcSbrk
  <2>2. k \in Nat \ {0} /\ brk \in Nat
    BY <2>1 DEF TypeOK
  <2>3. libc' = brk..(brk + k - 1)
    BY <2>1
  <2>4. brk + k - 1 \in Int /\ brk \in Int /\ ~(brk > brk + k - 1)
        /\ (brk + k - 1) - brk + 1 = k
    BY <2>2
  <2>5. Cardinality(libc') = k
    BY <2>3, <2>4, FS_Interval
  <2>6. UNCHANGED <<base, blocks, size>>
    BY <1>2 DEF LibcSbrk, heap, header
  <2> QED
    BY <2>1, <2>5, <2>6
<1> QED
  BY <1>1, <1>2

\* What allocator_leaked_bytes says at the end.
LEMMA LeakShown ==
  ASSUME ArraysInv, SerialisedInv, SizesInv, phase = "end"
  PROVE  /\ allocator_leaked_bytes \in Nat
         /\ allocator_leaked_bytes > 0 <=> dropped # {}
         /\ allocator_block_count = Cardinality(blocks)
<1>1. Quiescent /\ owned = dropped
  BY LoopsOver
<1>2. SafeInv /\ TypeOK /\ ListThreadsBlocks
  BY DEF SerialisedInv, SerialInv, ListInv, WalksInv, SafeInv
<1>3. PICK U : U = ClientBlocks
  OBVIOUS
<1>4. allocator_leaked_bytes = MapThenSumSet(LAMBDA b : size[b], U)
  BY <1>1, <1>2, <1>3, DiagnosticsRight
<1>5. U \in SUBSET blocks /\ IsFiniteSet(U)
  <2>1. U = InUse
    BY <1>1, <1>2, <1>3, ClientsOnly
  <2> QED
    BY <1>2, <2>1, BlocksFinite DEF InUse
<1>6. \A b \in U : size[b] \in Nat /\ size[b] > 0
  BY <1>2, <1>5, IntptrMaxAssumption DEF TypeOK, SizesInv
<1>7. PICK F : /\ F[{}] = 0
               /\ \A s \in SUBSET U : F[s] \in Nat
               /\ \A s \in SUBSET U : \A x \in s : F[s] = size[x] + F[s \ {x}]
               /\ MapThenSumSet(LAMBDA b : size[b], U) = F[U]
  BY <1>5, <1>6, SizesAddUp
<1>8. U = {} <=> dropped = {}
  BY <1>1, <1>3 DEF ClientBlocks
<1>9. F[U] \in Nat /\ (U = {} => F[U] = 0)
  BY <1>7
<1>10. ASSUME NEW x \in U
       PROVE  F[U] > 0
  <2>1. F[U] = size[x] + F[U \ {x}] /\ F[U \ {x}] \in Nat
    BY <1>7
  <2> QED
    BY <1>6, <2>1
<1>11. F[U] > 0 <=> U # {}
  BY <1>9, <1>10
<1> QED
  BY <1>1, <1>2, <1>4, <1>7, <1>8, <1>9, <1>11, DiagnosticsRight

\* What is known of the heap and of what was printed, step by step.
LEMMA ReportKept ==
  ASSUME ArraysInv, SerialisedInv, SizesInv, HeapInv, EndInv, ReportInv, [DNext]_dvars
  PROVE  HeapInv' /\ EndInv' /\ ReportInv'
<1>1. SafeInv /\ TypeOK /\ ListThreadsBlocks
  BY DEF SerialisedInv, SerialInv, ListInv, WalksInv, SafeInv
<1>2. CASE UNCHANGED dvars
  <2>1. UNCHANGED <<phase, report, dropped, libc, brk, blocks, size, global_base, heap_start>>
    BY <1>2 DEF dvars, locals, vars, os, heap, base, header
  <2>2. BlockEnd(global_base)' = BlockEnd(global_base)
    BY <2>1 DEF BlockEnd
  <2> QED
    BY <2>1, <2>2 DEF HeapInv, EndInv, ReportInv
<1>3. CASE InCall \/ Malloc \/ Calloc \/ Realloc \/ FreeMalloc \/ FreeCalloc
  <2>1. /\ phase \in Calling /\ phase' \in Calling \cup {"report"} /\ report' = report
        /\ Call(Main) \/ Work(Main) \/ UNCHANGED vars
    BY <1>3, BeforePrinting
  <2>2. phase \notin {"end", "returned"} /\ phase' \notin {"end", "returned"}
    BY <2>1 DEF Calling
  <2>3. heap_start' = global_base' /\ libc' = libc
    BY <2>1, BasesMove DEF HeapInv, vars, os, heap, base
  <2> QED
    BY <2>1, <2>2, <2>3 DEF HeapInv, EndInv, ReportInv
<1>4. CASE PrintStart
  <2>1. /\ phase = "report" /\ phase' = "end" /\ dropped' = dropped
        /\ report' = [report EXCEPT !.start = heap_start]
        /\ LibcSbrk \/ UNCHANGED vars
    BY <1>4 DEF PrintStart, At
  <2>2. libc = {} /\ heap_start = global_base
    BY <2>1 DEF HeapInv
  <2>3. UNCHANGED <<base, blocks, size>> /\ brk' = brk + Cardinality(libc')
    BY <1>1, <2>1, <2>2, LibcTakes
  <2>4. global_base \in Nat
    BY <1>1 DEF TypeOK
  <2>5. report'.start = global_base /\ report' \in [start : Nat, end : Nat, leaked : Nat, count : Nat]
    BY <2>1, <2>2, <2>4 DEF ReportInv
  <2>6. BlockEnd(global_base)' = BlockEnd(global_base)
    BY <2>3 DEF base, BlockEnd
  <2>7. dropped = {} /\ blocks # {} => blocks = {global_base} /\ brk = BlockEnd(global_base)
    BY <2>1, <2>2, OneBlockLeft
  <2>8. EndInv'
    BY <2>1, <2>3, <2>5, <2>6, <2>7 DEF EndInv, base
  <2> QED
    BY <2>1, <2>2, <2>3, <2>5, <2>8 DEF HeapInv, ReportInv, base
<1>5. CASE PrintRest
  <2>1. /\ phase = "end" /\ phase' = "returned" /\ dropped' = dropped
        /\ report' = [report EXCEPT !.end = brk, !.leaked = allocator_leaked_bytes,
                                    !.count = allocator_block_count]
        /\ UNCHANGED vars
    BY <1>5 DEF PrintRest, At
  <2>2. UNCHANGED <<libc, brk, blocks, size, global_base, heap_start>>
    BY <2>1 DEF vars, os, heap, base, header
  <2>3. BlockEnd(global_base)' = BlockEnd(global_base)
    BY <2>2 DEF BlockEnd
  <2>4. PICK l, c : l = allocator_leaked_bytes /\ c = allocator_block_count
    OBVIOUS
  <2>5. l \in Nat /\ (l > 0 <=> dropped # {}) /\ c = Cardinality(blocks)
    BY <2>1, <2>4, LeakShown
  <2>6. brk \in Nat /\ c \in Nat
    <3>1. brk \in Nat
      BY <1>1 DEF TypeOK
    <3>2. blocks \in SUBSET blocks
      OBVIOUS
    <3>3. Cardinality(blocks) \in Nat
      BY <1>1, <3>2, BlocksFinite
    <3> QED
      BY <2>5, <3>1, <3>3
  <2>7. report' = [report EXCEPT !.end = brk, !.leaked = l, !.count = c]
    BY <2>1, <2>4
  <2>8. /\ report' \in [start : Nat, end : Nat, leaked : Nat, count : Nat]
        /\ report'.start = report.start /\ report'.end = brk
        /\ report'.leaked = l /\ report'.count = c
    BY <2>5, <2>6, <2>7 DEF ReportInv
  <2>9. HeapInv'
    BY <2>1, <2>2 DEF HeapInv
  <2>10. EndInv'
    BY <2>1, <2>2, <2>3, <2>8 DEF EndInv
  <2>11. ReportInv'
    BY <2>1, <2>2, <2>5, <2>8 DEF ReportInv
  <2> QED
    BY <2>9, <2>10, <2>11
<1> QED
  BY <1>2, <1>3, <1>4, <1>5 DEF DNext

\* What main() does, and what it prints, as one invariant.
LEMMA DriverInvariant ==
  ASSUME FittingRequests
  PROVE  DSpec => [](DriverInv /\ SerialisedInv)
<1>1. DInit => DriverInv
  <2> SUFFICES ASSUME DInit PROVE DriverInv
    OBVIOUS
  <2>1. ArraysInv
    BY InitArrays
  <2>2. SizesInv
    BY DEF DInit, Init, SizesInv, WantInv
  <2>3. HeapInv /\ EndInv
    BY DEF DInit, Init, HeapInv, EndInv
  <2>4. ReportInv
    BY DEF DInit, ReportInv
  <2> QED
    BY <2>1, <2>2, <2>3, <2>4 DEF DriverInv
<1>2. DriverInv /\ SerialisedInv /\ [DNext]_dvars => DriverInv'
  BY ArraysKept, SizesKept, ReportKept, DriverSteps DEF DriverInv, SerialisedInv
<1> QED
  BY <1>1, <1>2, DriverSafe, PTL DEF DSpec

(* What main() prints at its end as leaked is more than 0 when a my_realloc *)
(* failed, and only then, against wrapper.c:90.                             *)
THEOREM LeakReported ==
  ASSUME FittingRequests
  PROVE  DSpec => []LeakReportedIffDropped
<1>1. DriverInv => LeakReportedIffDropped
  BY DEF DriverInv, ReportInv, LeakReportedIffDropped
<1> QED
  BY <1>1, DriverInvariant, PTL

(* When no my_realloc failed, whatever else failed, what main() prints is   *)
(* a heap of a single block that reaches up to what libc took.              *)
THEOREM OneBlockPrinted ==
  ASSUME FittingRequests
  PROVE  DSpec => []HeapCollapsed
<1>1. ASSUME DriverInv, SerialisedInv, phase = "returned", dropped = {}, report.start # NULL
      PROVE  /\ report.count = 1
             /\ report.end - report.start = BlockEnd(report.start) - report.start + Cardinality(libc)
  <2>1. SafeInv /\ TypeOK /\ ListThreadsBlocks
    BY <1>1 DEF SerialisedInv, SerialInv, ListInv, WalksInv, SafeInv
  <2>2. report.start = global_base /\ report.end = brk /\ report.count = Cardinality(blocks)
    BY <1>1 DEF DriverInv, EndInv, ReportInv
  <2>3. blocks # {}
    BY <1>1, <2>1, <2>2 DEF ListThreadsBlocks
  <2>4. blocks = {global_base} /\ brk = BlockEnd(global_base) + Cardinality(libc)
    BY <1>1, <2>3 DEF DriverInv, EndInv
  <2>5. report.count = 1
    BY <2>2, <2>4, FS_Singleton
  <2>6. global_base \in Nat /\ BlockEnd(global_base) \in Nat
    <3>1. global_base \in Nat /\ size[global_base] \in Nat
      BY <2>1, <2>4, IntptrMaxAssumption DEF TypeOK
    <3> QED
      BY <3>1 DEF BlockEnd
  <2>7. Cardinality(libc) \in Nat
    <3>1. libc \in SUBSET Nat /\ \A a \in libc : a <= BrkLimit
      BY <2>1 DEF TypeOK
    <3>2. IsFiniteSet(libc)
      BY <3>1, FS_BoundedSetOfNaturals
    <3> QED
      BY <3>2, FS_CardinalityType
  <2> QED
    BY <2>2, <2>4, <2>5, <2>6, <2>7
<1>2. DriverInv /\ SerialisedInv => HeapCollapsed
  BY <1>1 DEF HeapCollapsed
<1> QED
  BY <1>2, DriverInvariant, PTL

=============================================================================
