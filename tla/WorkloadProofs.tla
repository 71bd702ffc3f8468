--------------------------- MODULE WorkloadProofs ---------------------------
(***************************************************************************)
(* Proofs about Workload, for any number of workers, arrays of any length  *)
(* and any sizes: run_workload loses no pointer but those a failing        *)
(* ff_realloc overwrote, frees each of the others once, and its report     *)
(* shows a leak exactly when it lost one.                                  *)
(***************************************************************************)
EXTENDS WorkloadInv, ThreadHeapProofs

USE DEF NULL

-----------------------------------------------------------------------------
(* Constants.                                                              *)

\* The slots of the arrays, and of the first two loops.
LEMMA SlotFacts ==
  /\ Pointers \in Nat \ {0} /\ Mallocs \in Nat \ {0} /\ Callocs \in Nat \ {0}
  /\ 0 < Mallocs /\ Mallocs <= Pointers /\ 0 < Callocs /\ Callocs <= Pointers /\ 0 < Pointers
  /\ \A s : s \in Slots <=> s \in Nat /\ s < Pointers
  /\ 0 \in Slots
BY LoopsAssumption DEF Slots

\* Sizes are sizes, none is 0, and ALIGN8 does not cut them down.
LEMMA DemandFacts ==
  ASSUME NEW x \in Demands
  PROVE  x \in SizeT /\ x \in Nat /\ x > 0 /\ Fitting(x)
<1>1. /\ UINT_MAX \in Nat /\ ALIGN \in Nat \ {0} /\ INTPTR_MAX \in Nat
      /\ HDR \in Nat /\ MIN_SPLIT_REMAINDER \in Nat
      /\ UINT_MAX + HDR + MIN_SPLIT_REMAINDER <= INTPTR_MAX
  BY SizesAssumption, IntptrMaxAssumption
<1>2. x \in Nat /\ x > 0 /\ x <= UINT_MAX + 1 - ALIGN
  BY <1>1 DEF Demands
<1>3. x + (ALIGN - 1) <= UINT_MAX /\ x <= INTPTR_MAX
  BY <1>1, <1>2
<1>4. x \in 0..SIZE_MAX
  BY <1>1, <1>2, <1>3 DEF SIZE_MAX
<1> QED
  BY <1>2, <1>3, <1>4 DEF SizeT, Fitting

\* What a loop asks for is such a size.
LEMMA DemandSized ==
  ASSUME policy \in Policies, NEW t \in Threads, i[t] \in Nat, phase[t] \in Calling, InLoop(t)
  PROVE  Demand(t) \in Demands
<1>1. CASE phase[t] = "malloc"
  <2>1. i[t] \in 0..(Mallocs - 1)
    BY <1>1, SlotFacts DEF InLoop
  <2> QED
    BY <1>1, <2>1, DemandsAssumption DEF Demand
<1>2. CASE phase[t] = "calloc"
  <2>1. i[t] \in 0..(Callocs - 1)
    BY <1>2, SlotFacts DEF InLoop
  <2> QED
    BY <1>2, <2>1, DemandsAssumption DEF Demand
<1>3. CASE phase[t] = "realloc"
  <2>1. i[t] \in Slots
    BY <1>3, SlotFacts DEF InLoop
  <2> QED
    BY <1>3, <2>1, DemandsAssumption DEF Demand
<1> QED
  BY <1>1, <1>2, <1>3 DEF Calling

-----------------------------------------------------------------------------
(* What a cell accounts for.                                               *)

\* A new pointer takes the place of the one in k, if there was one.
LEMMA StoreNew ==
  ASSUME NEW O, NEW V, NEW D, Tallies(O, V, D), NEW k \in DOMAIN V,
         NEW q, q # NULL, q = V[k] \/ q \notin O
  PROVE  Tallies((O \ {V[k]}) \cup {q}, [V EXCEPT ![k] = q], D)
<1>1. PICK W : W = [V EXCEPT ![k] = q]
  OBVIOUS
<1>2. W[k] = q /\ DOMAIN W = DOMAIN V /\ \A j \in DOMAIN V : j # k => W[j] = V[j]
  BY <1>1
<1>3. PICK R : R = {V[j] : j \in DOMAIN V \ {k}}
  OBVIOUS
<1>4. {V[j] : j \in DOMAIN V} = R \cup {V[k]} /\ {W[j] : j \in DOMAIN W} = R \cup {q}
  BY <1>2, <1>3
<1>5. O = ((R \cup {V[k]}) \ {NULL}) \cup D /\ NULL \notin D /\ V[k] \notin D
  BY <1>4 DEF Tallies
<1>6. V[k] # NULL => V[k] \notin R
  BY <1>3 DEF Tallies
<1>7. q \notin D /\ q \notin R
  BY <1>5, <1>6
<1>8. (O \ {V[k]}) \cup {q} = ((R \cup {q}) \ {NULL}) \cup D
  BY <1>5, <1>6
<1>9. \A j \in DOMAIN W : W[j] \notin D
  BY <1>2, <1>7 DEF Tallies
<1>10. \A j, l \in DOMAIN W : W[j] = W[l] /\ W[j] # NULL => j = l
  <2>1. \A j \in DOMAIN W : j # k => W[j] # q
    BY <1>2, <1>3, <1>7
  <2> QED
    BY <1>2, <2>1 DEF Tallies
<1>11. Tallies((O \ {V[k]}) \cup {q}, W, D)
  BY <1>4, <1>5, <1>8, <1>9, <1>10 DEF Tallies
<1> QED
  BY <1>1, <1>11

\* NULL is stored over the pointer in k, if there was one.
LEMMA StoreNull ==
  ASSUME NEW O, NEW V, NEW D, Tallies(O, V, D), NEW k \in DOMAIN V
  PROVE  Tallies(O, [V EXCEPT ![k] = NULL], D \cup ({V[k]} \ {NULL}))
<1>1. PICK W, E : W = [V EXCEPT ![k] = NULL] /\ E = D \cup ({V[k]} \ {NULL})
  OBVIOUS
<1>2. W[k] = NULL /\ DOMAIN W = DOMAIN V /\ \A j \in DOMAIN V : j # k => W[j] = V[j]
  BY <1>1
<1>3. PICK R : R = {V[j] : j \in DOMAIN V \ {k}}
  OBVIOUS
<1>4. {V[j] : j \in DOMAIN V} = R \cup {V[k]} /\ {W[j] : j \in DOMAIN W} = R \cup {NULL}
  BY <1>2, <1>3
<1>5. O = ((R \cup {V[k]}) \ {NULL}) \cup D /\ NULL \notin D
  BY <1>4 DEF Tallies
<1>6. V[k] # NULL => V[k] \notin R
  BY <1>3 DEF Tallies
<1>7. O = ((R \cup {NULL}) \ {NULL}) \cup E /\ NULL \notin E
  BY <1>1, <1>5
<1>8. \A j \in DOMAIN W : W[j] \notin E
  <2>1. \A j \in DOMAIN W : j # k => W[j] \in R /\ W[j] \notin D
    BY <1>2, <1>3 DEF Tallies
  <2> QED
    BY <1>1, <1>2, <1>6, <1>7, <2>1
<1>9. \A j, l \in DOMAIN W : W[j] = W[l] /\ W[j] # NULL => j = l
  BY <1>2 DEF Tallies
<1>10. Tallies(O, W, E)
  BY <1>4, <1>7, <1>8, <1>9 DEF Tallies
<1> QED
  BY <1>1, <1>10

\* The pointer in k, if there was one, is freed, and k counts no longer.
LEMMA Take ==
  ASSUME NEW O, NEW V, NEW D, Tallies(O, V, D), NEW k \in DOMAIN V,
         NEW W, W = [j \in DOMAIN V \ {k} |-> V[j]]
  PROVE  Tallies(O \ {V[k]}, W, D)
<1>1. DOMAIN W = DOMAIN V \ {k} /\ \A j \in DOMAIN W : W[j] = V[j]
  OBVIOUS
<1>2. PICK R : R = {W[j] : j \in DOMAIN W}
  OBVIOUS
<1>3. {V[j] : j \in DOMAIN V} = R \cup {V[k]}
  BY <1>1, <1>2
<1>4. O = ((R \cup {V[k]}) \ {NULL}) \cup D /\ NULL \notin D /\ V[k] \notin D
  BY <1>3 DEF Tallies
<1>5. V[k] # NULL => V[k] \notin R
  BY <1>1, <1>2 DEF Tallies
<1>6. O \ {V[k]} = (R \ {NULL}) \cup D
  BY <1>4, <1>5
<1>7. \A j \in DOMAIN W : W[j] \notin D
  BY <1>1 DEF Tallies
<1>8. \A j, l \in DOMAIN W : W[j] = W[l] /\ W[j] # NULL => j = l
  BY <1>1 DEF Tallies
<1> QED
  BY <1>2, <1>4, <1>6, <1>7, <1>8 DEF Tallies

-----------------------------------------------------------------------------
(* What a call of the allocator does to what its thread owns.              *)

\* The allocations o without p, and with q.
Swapped(o, p, q, asked) == {r \in o : r.ptr # p} \cup {[ptr |-> q, asked |-> asked]}

\* The call returns q, with room for asked bytes, and has freed p.
Gets(t, q, p, asked) ==
  /\ pc'[t] = "idle"
  /\ owned'[t] = Swapped(owned[t], p, q, asked)
  /\ q \in Nat \ {NULL} /\ (q = p \/ q \notin Pointed(t))

\* The call goes on in request_space.
Waits(t, p, asked) ==
  /\ pc'[t] # "idle" /\ owned'[t] = owned[t]
  /\ call'[t].asked = asked /\ call'[t].ptr = p

\* It returns NULL.
Fails(t) == pc'[t] = "idle" /\ owned'[t] = owned[t]

\* What Returns says of the thread.
LEMMA ReturnsOwned ==
  ASSUME Types, NEW t \in Threads, NEW g, NEW o, Returns(t, g, o)
  PROVE  pc'[t] = "idle" /\ owned'[t] = o
BY DEF Types, Returns

\* A new allocation, and p freed.
LEMMA RestOf ==
  ASSUME NEW w, w \subseteq Allocations, NEW q, NEW p, NEW asked, NEW o,
         p # NULL => \E r \in w : r.ptr = p, q # NULL => \A r \in w : r.ptr # q, q # NULL,
         o = With(w, q, asked)
  PROVE  Rest(o, p) = Swapped(w, p, q, asked)
<1>1. PICK e : e = [ptr |-> q, asked |-> asked]
  OBVIOUS
<1>2. e.ptr = q /\ o = w \cup {e} /\ q # p
  BY <1>1 DEF With
<1>3. CASE p = NULL
  <2>1. {r \in w : r.ptr # p} = w
    BY <1>3, AllocationFields
  <2> QED
    BY <1>1, <1>2, <1>3, <2>1 DEF Rest, Swapped
<1>4. CASE p # NULL
  <2>1. Rest(o, p) = {r \in w : r.ptr # p} \cup {e}
    BY <1>2, <1>4 DEF Rest, Without
  <2> QED
    BY <1>1, <2>1 DEF Swapped
<1> QED
  BY <1>3, <1>4

\* ff_malloc, inside ff_realloc as well.
LEMMA AllocateEffect ==
  ASSUME SafeHeaps, NEW t \in Threads, NEW asked \in SizeT, NEW p \in Nat,
         p # NULL => \E r \in owned[t] : r.ptr = p, Allocate(t, asked, p)
  PROVE  (\E q : Gets(t, q, p, asked)) \/ Waits(t, p, asked)
<1>1. Types /\ heap[t] \in Seq(Block) /\ owned[t] \subseteq Allocations
  BY SafeParts, TypesOf
<1>2. PICK n : n = ALIGN8(asked)
  OBVIOUS
<1>3. PICK l : l = find_free_block(heap[t], n)
  OBVIOUS
<1>4. CASE l # 0
  <2>1. PICK q, o : q = heap[t][l].at + HDR /\ o = With(owned[t], q, asked)
    OBVIOUS
  <2>2. /\ l \in 1..Len(heap[t]) /\ q # NULL /\ \A r \in owned[t] : r.ptr # q
        /\ \E g, h : Returns(t, g, Rest(o, p))
    BY <1>2, <1>3, <1>4, <2>1, AllocateReturns
  <2>3. q \in Nat
    <3>1. heap[t][l].at \in Nat /\ HDR \in Nat
      BY <1>1, <2>2, Headers, Sizes
    <3> QED
      BY <2>1, <3>1
  <2>4. pc'[t] = "idle" /\ owned'[t] = Rest(o, p)
    BY <1>1, <2>2, ReturnsOwned
  <2>5. Rest(o, p) = Swapped(owned[t], p, q, asked)
    <3>1. PICK w : w = owned[t]
      OBVIOUS
    <3>2. w \subseteq Allocations /\ o = With(w, q, asked) /\ q # NULL
      BY <1>1, <2>1, <2>2, <3>1
    <3>3. p # NULL => \E r \in w : r.ptr = p
      BY <3>1
    <3>4. q # NULL => \A r \in w : r.ptr # q
      BY <2>2, <3>1
    <3>5. Rest(o, p) = Swapped(w, p, q, asked)
      BY <3>2, <3>3, <3>4, RestOf
    <3> QED
      BY <3>1, <3>5
  <2>6. Gets(t, q, p, asked)
    BY <2>2, <2>3, <2>4, <2>5 DEF Gets, Pointed
  <2> QED
    BY <2>6
<1>5. CASE l = 0
  <2>1. /\ call' = [call EXCEPT ![t] = [asked |-> asked, size |-> n, ptr |-> p]]
        /\ pc' = [pc EXCEPT ![t] = "lock"] /\ owned' = owned
    BY <1>2, <1>3, <1>5 DEF Allocate, Goto
  <2> QED
    BY <1>1, <2>1 DEF Types, Waits
<1> QED
  BY <1>4, <1>5

\* ff_realloc, with or without a pointer.
LEMMA ReallocEffect ==
  ASSUME SafeHeaps, NEW t \in Threads, NEW asked \in SizeT, asked # 0, NEW p \in Nat,
         p # NULL => \E r \in owned[t] : r.ptr = p, ff_realloc(t, p, asked)
  PROVE  (\E q : Gets(t, q, p, asked)) \/ Waits(t, p, asked)
<1>1. CASE p = NULL
  <2>1. Allocate(t, asked, p)
    BY <1>1 DEF ff_realloc, ff_malloc
  <2> QED
    BY <2>1, AllocateEffect
<1>2. CASE p # NULL
  <2>1. pc[t] = "idle" /\ (ReallocInPlace(t, p, asked) \/ ReallocMove(t, p, asked))
    BY <1>2 DEF ff_realloc, Resize
  <2>2. CASE ReallocInPlace(t, p, asked)
    <3>1. PICK r \in owned[t] : p = r.ptr
      BY <1>2
    <3>2. PICK o : o = With(Without(owned[t], p), p, asked)
      OBVIOUS
    <3>3. \E g : Returns(t, g, o)
      BY <2>1, <2>2, <3>1, <3>2, InPlaceReturns
    <3>4. pc'[t] = "idle" /\ owned'[t] = o
      BY <3>3, SafeParts, ReturnsOwned
    <3>5. Gets(t, p, p, asked)
      BY <1>2, <3>2, <3>4 DEF Gets, With, Without, Swapped
    <3> QED
      BY <3>5
  <2>3. CASE ReallocMove(t, p, asked)
    <3>1. Allocate(t, asked, p)
      BY <2>3 DEF ReallocMove
    <3> QED
      BY <3>1, AllocateEffect
  <2> QED
    BY <2>1, <2>2, <2>3
<1> QED
  BY <1>1, <1>2

\* A step in request_space.
LEMMA WorkEffect ==
  ASSUME SafeHeaps, NEW t \in Threads, Work(t),
         NEW p, NEW asked, p = call[t].ptr, asked = call[t].asked
  PROVE  /\ pc[t] # "idle"
         /\ (\E q : Gets(t, q, p, asked)) \/ Waits(t, p, asked) \/ Fails(t)
<1>1. Types /\ owned[t] \subseteq Allocations /\ brk_before[t] \in Nat
  BY SafeParts, TypesOf
<1>2. CASE Lock(t) \/ ReadBreak(t) \/ Extend(t) \/ ExtendRefused(t)
  BY <1>1, <1>2 DEF Lock, ReadBreak, Extend, ExtendRefused, Goto, Types, Waits
<1>3. CASE Unlock(t)
  <2>1. CASE brk_before[t] = NULL
    <3>1. PICK q : q = NULL
      OBVIOUS
    <3>2. pc[t] = "unlock" /\ Finish(t, heap[t], q, q, 0)
      BY <1>3, <2>1, <3>1 DEF Unlock
    <3>3. /\ pc' = [pc EXCEPT ![t] = "idle"]
          /\ owned' = [owned EXCEPT ![t] = {r \in @ : r.ptr # q} \cup {}]
      BY <3>1, <3>2 DEF Finish, Goto
    <3>4. {r \in owned[t] : r.ptr # q} = owned[t]
      BY <1>1, <3>1, AllocationFields
    <3>5. Fails(t)
      BY <1>1, <3>3, <3>4 DEF Fails, Types
    <3> QED
      BY <3>2, <3>5
  <2>2. CASE brk_before[t] # NULL
    BY <1>1, <1>3, <2>2 DEF Unlock, Goto, Types, Waits
  <2> QED
    BY <2>1, <2>2
<1>4. CASE Link(t)
  <2>1. PICK b, q, o : b = brk_before[t] /\ q = b + HDR /\ o = With(owned[t], q, asked)
    OBVIOUS
  <2>2. InCall(t, b, p, asked)
    BY <2>1 DEF InCall
  <2>3. /\ q # NULL /\ \A r \in owned[t] : r.ptr # q
        /\ \E g, h : Returns(t, g, Rest(o, p))
    BY <1>4, <2>1, <2>2, LinkReturns
  <2>4. q \in Nat
    BY <1>1, <2>1, Sizes
  <2>5. pc[t] = "link" /\ (p # NULL => \E r \in owned[t] : r.ptr = p)
    BY <1>4, SafeParts DEF Link, ThreadSafe, Requesting
  <2>6. pc'[t] = "idle" /\ owned'[t] = Rest(o, p)
    BY <1>1, <2>3, ReturnsOwned
  <2>7. Rest(o, p) = Swapped(owned[t], p, q, asked)
    <3>1. PICK w : w = owned[t]
      OBVIOUS
    <3>2. w \subseteq Allocations /\ o = With(w, q, asked) /\ q # NULL
      BY <1>1, <2>1, <2>3, <3>1
    <3>3. p # NULL => \E r \in w : r.ptr = p
      BY <2>5, <3>1
    <3>4. q # NULL => \A r \in w : r.ptr # q
      BY <2>3, <3>1
    <3>5. Rest(o, p) = Swapped(w, p, q, asked)
      BY <3>2, <3>3, <3>4, RestOf
    <3> QED
      BY <3>1, <3>5
  <2>8. Gets(t, q, p, asked)
    BY <2>3, <2>4, <2>6, <2>7 DEF Gets, Pointed
  <2> QED
    BY <2>5, <2>8
<1> QED
  BY <1>2, <1>3, <1>4 DEF Work

\* ff_free.
LEMMA FreeEffect ==
  ASSUME SafeHeaps, NEW t \in Threads, NEW r \in owned[t], NEW p, p = r.ptr, ff_free(t, p)
  PROVE  pc'[t] = "idle" /\ owned'[t] = {a \in owned[t] : a.ptr # p}
<1>1. PICK o : o = owned[t]
  OBVIOUS
<1>2. \E g : Returns(t, g, Rest(o, p))
  BY <1>1, FreeReturns
<1>3. p # NULL
  BY DEF ff_free
<1> QED
  BY <1>1, <1>2, <1>3, SafeParts, ReturnsOwned DEF Rest, Without

-----------------------------------------------------------------------------
(* The cells of a thread.                                                  *)

AllCells == {"m", "c"} \X Slots

\* The cells to be freed in the phase ph, at the n-th iteration.
ToFree(ph, n) ==
  {k \in AllCells :
     /\ ph \notin {"report", "create", "join", "exit"}
     /\ ph = "free m" => n <= k[2]
     /\ ph = "free c" => n <= k[2] /\ (k[1] = "m" => n # k[2])}

\* So FreedM and FreedC say, before a step.
LEMMA CellsAre ==
  ASSUME NEW t \in Threads, WTypes
  PROVE  Cells(t) = ToFree(phase[t], i[t])
<1>1. phase[t] \in Phases /\ i[t] \in Nat
  BY DEF WTypes
<1>2. ASSUME NEW a \in {"m", "c"}, NEW s \in Slots
      PROVE  <<a, s>> \in Cells(t) <=> <<a, s>> \in ToFree(phase[t], i[t])
  <2>1. s \in Nat
    BY SlotFacts
  <2>2. CASE phase[t] = "free m"
    <3>1. PICK n \in Nat : n = i[t]
      BY <1>1
    <3>2. FreedM(t) = 0..(n - 1)
      BY <2>2, <3>1 DEF FreedM
    <3>3. FreedC(t) = 0..(n - 1)
      BY <2>2, <3>1, <3>2 DEF FreedC
    <3>4. s \in 0..(n - 1) <=> ~(n <= s)
      BY <2>1
    <3>5. s \in 0..n <=> ~(n <= s) \/ n = s
      BY <2>1
    <3>6. <<a, s>> \in Cells(t) <=> s \notin IF a = "m" THEN FreedM(t) ELSE FreedC(t)
      BY DEF Cells
    <3>7. <<a, s>> \in ToFree("free m", n) <=> n <= s
      BY DEF ToFree, AllCells
    <3> QED
      BY <2>2, <3>1, <3>2, <3>3, <3>4, <3>5, <3>6, <3>7
  <2>3. CASE phase[t] = "free c"
    <3>1. PICK n \in Nat : n = i[t]
      BY <1>1
    <3>2. FreedM(t) = 0..n
      BY <2>3, <3>1 DEF FreedM
    <3>3. FreedC(t) = (0..n) \ {n}
      BY <2>3, <3>1, <3>2 DEF FreedC
    <3>4. s \in 0..(n - 1) <=> ~(n <= s)
      BY <2>1
    <3>5. s \in 0..n <=> ~(n <= s) \/ n = s
      BY <2>1
    <3>6. <<a, s>> \in Cells(t) <=> s \notin IF a = "m" THEN FreedM(t) ELSE FreedC(t)
      BY DEF Cells
    <3>7. <<a, s>> \in ToFree("free c", n) <=> n <= s /\ (a = "m" => n # s)
      BY DEF ToFree, AllCells
    <3>8. CASE a = "m"
      BY <2>1, <2>3, <3>1, <3>2, <3>5, <3>6, <3>7, <3>8
    <3>9. CASE a = "c"
      <4>1. <<a, s>> \in Cells(t) <=> n <= s \/ s = n
        BY <3>3, <3>4, <3>6, <3>9
      <4>2. <<a, s>> \in ToFree("free c", n) <=> n <= s
        BY <3>7, <3>9
      <4>3. s = n => n <= s
        BY <2>1
      <4> QED
        BY <2>3, <3>1, <4>1, <4>2, <4>3
    <3> QED
      BY <3>8, <3>9
  <2>4. CASE phase[t] \notin Freeing
    BY <1>1, <2>1, <2>4 DEF Cells, FreedM, FreedC, ToFree, AllCells, Freeing
  <2> QED
    BY <2>2, <2>3, <2>4 DEF Freeing
<1> QED
  BY <1>2 DEF Cells, ToFree, AllCells

\* And after it.
LEMMA CellsThen ==
  ASSUME NEW t \in Threads, phase'[t] \in Phases, i'[t] \in Nat
  PROVE  Cells(t)' = ToFree(phase'[t], i'[t])
<1>1. ASSUME NEW a \in {"m", "c"}, NEW s \in Slots
      PROVE  <<a, s>> \in Cells(t)' <=> <<a, s>> \in ToFree(phase'[t], i'[t])
  <2>1. s \in Nat
    BY SlotFacts
  <2>2. CASE phase'[t] = "free m"
    <3>1. PICK n \in Nat : n = i'[t]
      OBVIOUS
    <3>2. FreedM(t)' = 0..(n - 1)
      BY <2>2, <3>1 DEF FreedM
    <3>3. FreedC(t)' = 0..(n - 1)
      BY <2>2, <3>1, <3>2 DEF FreedC
    <3>4. s \in 0..(n - 1) <=> ~(n <= s)
      BY <2>1
    <3>5. s \in 0..n <=> ~(n <= s) \/ n = s
      BY <2>1
    <3>6. <<a, s>> \in Cells(t)' <=> s \notin IF a = "m" THEN FreedM(t)' ELSE FreedC(t)'
      BY DEF Cells
    <3>7. <<a, s>> \in ToFree("free m", n) <=> n <= s
      BY DEF ToFree, AllCells
    <3> QED
      BY <2>2, <3>1, <3>2, <3>3, <3>4, <3>5, <3>6, <3>7
  <2>3. CASE phase'[t] = "free c"
    <3>1. PICK n \in Nat : n = i'[t]
      OBVIOUS
    <3>2. FreedM(t)' = 0..n
      BY <2>3, <3>1 DEF FreedM
    <3>3. FreedC(t)' = (0..n) \ {n}
      BY <2>3, <3>1, <3>2 DEF FreedC
    <3>4. s \in 0..(n - 1) <=> ~(n <= s)
      BY <2>1
    <3>5. s \in 0..n <=> ~(n <= s) \/ n = s
      BY <2>1
    <3>6. <<a, s>> \in Cells(t)' <=> s \notin IF a = "m" THEN FreedM(t)' ELSE FreedC(t)'
      BY DEF Cells
    <3>7. <<a, s>> \in ToFree("free c", n) <=> n <= s /\ (a = "m" => n # s)
      BY DEF ToFree, AllCells
    <3>8. CASE a = "m"
      BY <2>1, <2>3, <3>1, <3>2, <3>5, <3>6, <3>7, <3>8
    <3>9. CASE a = "c"
      <4>1. <<a, s>> \in Cells(t)' <=> n <= s \/ s = n
        BY <3>3, <3>4, <3>6, <3>9
      <4>2. <<a, s>> \in ToFree("free c", n) <=> n <= s
        BY <3>7, <3>9
      <4>3. s = n => n <= s
        BY <2>1
      <4> QED
        BY <2>3, <3>1, <4>1, <4>2, <4>3
    <3> QED
      BY <3>8, <3>9
  <2>4. CASE phase'[t] \notin Freeing
    BY <2>1, <2>4 DEF Cells, FreedM, FreedC, ToFree, AllCells, Freeing
  <2> QED
    BY <2>2, <2>3, <2>4 DEF Freeing
<1> QED
  BY <1>1 DEF Cells, ToFree, AllCells

\* What is in a cell, and where the loops are.
LEMMA CellFacts ==
  ASSUME NEW t \in Threads, WTypes, InLoop(t)
  PROVE  /\ phase[t] \in Phases /\ i[t] \in Nat
         /\ \A k \in AllCells : Val(t, k) \in Nat
         /\ phase[t] \in Calling \cup {"new"} => Cells(t) = AllCells
         /\ phase[t] \in {"report", "create", "join", "exit"} => Cells(t) = {}
         /\ phase[t] \in Calling \cup Freeing => i[t] \in Slots /\ Here(t) \in Cells(t)
<1>1. phase[t] \in Phases /\ i[t] \in Nat
  BY DEF WTypes
<1>2. \A k \in AllCells : Val(t, k) \in Nat
  BY DEF WTypes, AllCells, Val
<1>3. Cells(t) = ToFree(phase[t], i[t])
  BY CellsAre
<1>4. phase[t] \in Calling \cup {"new"} => Cells(t) = AllCells
  BY <1>3 DEF ToFree, Calling
<1>5. phase[t] \in {"report", "create", "join", "exit"} => Cells(t) = {}
  BY <1>3 DEF ToFree
<1>6. ASSUME phase[t] \in Calling \cup Freeing
      PROVE  i[t] \in Slots /\ Here(t) \in Cells(t)
  <2>1. i[t] \in Slots
    <3>1. PICK n \in Nat : n = i[t]
      BY <1>1
    <3>2. n < Mallocs \/ n < Callocs \/ n < Pointers
      BY <1>6, <3>1 DEF InLoop, Calling, Freeing
    <3>3. n < Pointers
      BY <3>2, SlotFacts
    <3> QED
      BY <3>1, <3>3, SlotFacts
  <2>2. Here(t) \in AllCells
    BY <2>1 DEF Here, AllCells
  <2>3. Here(t) \in ToFree(phase[t], i[t])
    <3>1. PICK n \in Nat : n = i[t]
      BY <1>1
    <3>2. Here(t) = <<IF phase[t] \in {"calloc", "free c"} THEN "c" ELSE "m", n>>
      BY <3>1 DEF Here
    <3>3. PICK a \in {"m", "c"} : Here(t) = <<a, n>> /\ (a = "m" => phase[t] # "free c")
      BY <3>2
    <3>4. phase[t] \notin {"report", "create", "join", "exit"}
      BY <1>6 DEF Calling, Freeing
    <3>5. <<a, n>>[1] = a /\ <<a, n>>[2] = n /\ n <= n
      OBVIOUS
    <3> QED
      BY <2>2, <3>1, <3>3, <3>4, <3>5 DEF ToFree
  <2> QED
    BY <1>3, <2>1, <2>3
<1> QED
  BY <1>1, <1>2, <1>4, <1>5, <1>6

\* No pointer is NULL, and one that a cell holds is the thread's.
LEMMA HeldByCell ==
  ASSUME NEW t \in Threads, Types, Accounted(t), NEW k \in Cells(t), NEW p, p = Val(t, k)
  PROVE  /\ NULL \notin Pointed(t)
         /\ p # NULL => \E r \in owned[t] : r.ptr = p
<1>1. owned[t] \subseteq Allocations
  BY TypesOf
<1>2. NULL \notin Pointed(t)
  BY <1>1, AllocationFields DEF Pointed
<1>3. p # NULL => p \in Pointed(t)
  BY DEF Accounted, Tallies, Contents
<1> QED
  BY <1>2, <1>3 DEF Pointed

\* Threads that take no step keep what they have.
LEMMA OthersKeep ==
  ASSUME NEW t, ThreadInv(t), policy' = policy,
         owned'[t] = owned[t], pc'[t] = pc[t], call'[t] = call[t],
         phase'[t] = phase[t], i'[t] = i[t], m'[t] = m[t], c'[t] = c[t],
         dropped'[t] = dropped[t]
  PROVE  ThreadInv(t)'
<1>1. InLoop(t)'
  BY DEF ThreadInv, InLoop
<1>2. Unfilled(t)'
  BY DEF ThreadInv, Unfilled
<1>3. Val(t, Here(t))' = Val(t, Here(t)) /\ Demand(t)' = Demand(t)
  BY DEF Val, Here, Demand
<1>4. CallInv(t)'
  BY <1>3 DEF ThreadInv, CallInv
<1>5. Resizable(t)' /\ Demanded(t)'
  BY DEF ThreadInv, Resizable, Demanded
<1>6. Accounted(t)'
  <2>1. Cells(t)' = Cells(t)
    BY DEF Cells, FreedM, FreedC
  <2>2. Contents(t)' = Contents(t)
    BY <2>1 DEF Contents, Val
  <2>3. Pointed(t)' = Pointed(t)
    BY DEF Pointed
  <2> QED
    BY <2>2, <2>3 DEF ThreadInv, Accounted
<1> QED
  BY <1>1, <1>2, <1>4, <1>5, <1>6 DEF ThreadInv

-----------------------------------------------------------------------------
(* The driver's half of a step.                                            *)

\* The locals of the other threads stay.
OthersWait(t) ==
  \A u \in Threads \ {t} :
    /\ phase'[u] = phase[u] /\ i'[u] = i[u] /\ m'[u] = m[u] /\ c'[u] = c[u]
    /\ dropped'[u] = dropped[u]

\* From one statement of t to another.
LEMMA AtMoves ==
  ASSUME WTypes, NEW t \in Threads, NEW ph \in Phases, NEW n \in Nat, At(t, ph, n)
  PROVE  /\ phase' \in [Threads -> Phases] /\ i' \in [Threads -> Nat]
         /\ phase'[t] = ph /\ i'[t] = n
         /\ \A u \in Threads \ {t} : phase'[u] = phase[u] /\ i'[u] = i[u]
BY DEF At, WTypes

\* Round a loop, or out of it.
LEMMA LoopMoves ==
  ASSUME WTypes, NEW t \in Threads, NEW n, NEW ph \in Phases, Loop(t, n, ph)
  PROVE  /\ phase' \in [Threads -> Phases] /\ i' \in [Threads -> Nat]
         /\ \A u \in Threads \ {t} : phase'[u] = phase[u] /\ i'[u] = i[u]
         /\ \/ i[t] + 1 < n /\ phase'[t] = phase[t] /\ i'[t] = i[t] + 1
            \/ phase'[t] = ph /\ i'[t] = 0
<1>1. phase[t] \in Phases /\ i[t] \in Nat
  BY DEF WTypes
<1>2. CASE i[t] + 1 < n
  <2>1. PICK q \in Phases, l \in Nat : q = phase[t] /\ l = i[t] + 1
    BY <1>1
  <2>2. At(t, q, l)
    BY <1>2, <2>1 DEF Loop
  <2> QED
    BY <1>2, <2>1, <2>2, AtMoves
<1>3. CASE ~(i[t] + 1 < n)
  <2>1. At(t, ph, 0)
    BY <1>3 DEF Loop
  <2> QED
    BY <2>1, AtMoves
<1> QED
  BY <1>2, <1>3

\* r is in the cell k now, and the others are as they were.
Stored(t, k, r) ==
  /\ m' \in [Threads -> [Slots -> Nat]] /\ c' \in [Threads -> [Slots -> Nat]]
  /\ \A u \in Threads \ {t} : m'[u] = m[u] /\ c'[u] = c[u]
  /\ Val(t, k)' = r
  /\ \A j \in AllCells \ {k} : Val(t, j)' = Val(t, j)

\* An assignment to a cell of m, or of c.
LEMMA StoreCell ==
  ASSUME WTypes, NEW t \in Threads, NEW s \in Slots, NEW r \in Nat
  PROVE  /\ m' = [m EXCEPT ![t][s] = r] /\ c' = c => Stored(t, <<"m", s>>, r)
         /\ c' = [c EXCEPT ![t][s] = r] /\ m' = m => Stored(t, <<"c", s>>, r)
<1>1. ASSUME m' = [m EXCEPT ![t][s] = r], c' = c
      PROVE  Stored(t, <<"m", s>>, r)
  <2>1. /\ m' \in [Threads -> [Slots -> Nat]]
        /\ m'[t][s] = r /\ \A l \in Slots \ {s} : m'[t][l] = m[t][l]
        /\ \A u \in Threads \ {t} : m'[u] = m[u]
    BY <1>1 DEF WTypes
  <2>2. Val(t, <<"m", s>>)' = r
    BY <2>1 DEF Val
  <2>3. ASSUME NEW a \in {"m", "c"}, NEW l \in Slots, <<a, l>> # <<"m", s>>
        PROVE  Val(t, <<a, l>>)' = Val(t, <<a, l>>)
    BY <1>1, <2>1, <2>3 DEF Val
  <2>4. \A j \in AllCells \ {<<"m", s>>} : Val(t, j)' = Val(t, j)
    BY <2>3 DEF AllCells
  <2> QED
    BY <1>1, <2>1, <2>2, <2>4 DEF Stored, WTypes
<1>2. ASSUME c' = [c EXCEPT ![t][s] = r], m' = m
      PROVE  Stored(t, <<"c", s>>, r)
  <2>1. /\ c' \in [Threads -> [Slots -> Nat]]
        /\ c'[t][s] = r /\ \A l \in Slots \ {s} : c'[t][l] = c[t][l]
        /\ \A u \in Threads \ {t} : c'[u] = c[u]
    BY <1>2 DEF WTypes
  <2>2. Val(t, <<"c", s>>)' = r
    BY <2>1 DEF Val
  <2>3. ASSUME NEW a \in {"m", "c"}, NEW l \in Slots, <<a, l>> # <<"c", s>>
        PROVE  Val(t, <<a, l>>)' = Val(t, <<a, l>>)
    BY <1>2, <2>1, <2>3 DEF Val
  <2>4. \A j \in AllCells \ {<<"c", s>>} : Val(t, j)' = Val(t, j)
    BY <2>3 DEF AllCells
  <2> QED
    BY <1>2, <2>1, <2>2, <2>4 DEF Stored, WTypes
<1> QED
  BY <1>1, <1>2

\* What is lost when r is stored over p.
Lost(r, p) == IF r = NULL THEN {p} \ {NULL} ELSE {}

\* The next iteration, or the next loop.
GoesOn(t) ==
  /\ phase[t] = "malloc" =>
       \/ phase'[t] = "malloc" /\ i[t] + 1 < Mallocs /\ i'[t] = i[t] + 1
       \/ phase'[t] = "calloc" /\ i'[t] = 0
  /\ phase[t] = "calloc" =>
       \/ phase'[t] = "calloc" /\ i[t] + 1 < Callocs /\ i'[t] = i[t] + 1
       \/ phase'[t] = "realloc" /\ i'[t] = 0
  /\ phase[t] = "realloc" =>
       \/ phase'[t] = "realloc" /\ i[t] + 1 < Pointers /\ i'[t] = i[t] + 1
       \/ phase'[t] = "free m" /\ i'[t] = 0

\* The result r of a call is stored where p was.
LEMMA ResultStored ==
  ASSUME WTypes, NEW t \in Threads, InLoop(t), Unfilled(t), StoreResult(t),
         NEW r \in Nat, r = Result(t), NEW k, k = Here(t), NEW p, p = Val(t, k)
  PROVE  /\ phase[t] \in Calling /\ WTypes' /\ OthersWait(t)
         /\ Stored(t, k, r) /\ dropped'[t] = dropped[t] \cup Lost(r, p)
         /\ GoesOn(t)
<1>1. phase[t] \in Calling
  BY DEF StoreResult, Calling
<1>2. PICK s \in Slots : s = i[t]
  BY <1>1, CellFacts
<1>3. Calling \cup Freeing \subseteq Phases
  BY DEF Phases
<1>4. CASE phase[t] = "malloc"
  <2>1. /\ m' = [m EXCEPT ![t][s] = r] /\ c' = c /\ dropped' = dropped
        /\ Loop(t, Mallocs, "calloc")
    BY <1>2, <1>4 DEF StoreResult, StoreM
  <2>2. k = <<"m", s>>
    BY <1>2, <1>4 DEF Here
  <2>3. Stored(t, k, r)
    BY <2>1, <2>2, StoreCell
  <2>4. p = NULL
    <3>1. s <= i[t]
      BY <1>2, SlotFacts
    <3>2. m[t][s] = NULL
      BY <1>2, <1>4, <3>1 DEF Unfilled
    <3> QED
      BY <2>2, <3>2 DEF Val
  <2>5. dropped'[t] = dropped[t] \cup Lost(r, p)
    BY <2>1, <2>4 DEF Lost
  <2>6. /\ phase' \in [Threads -> Phases] /\ i' \in [Threads -> Nat]
        /\ \A u \in Threads \ {t} : phase'[u] = phase[u] /\ i'[u] = i[u]
        /\ \/ i[t] + 1 < Mallocs /\ phase'[t] = phase[t] /\ i'[t] = i[t] + 1
           \/ phase'[t] = "calloc" /\ i'[t] = 0
    BY <1>3, <2>1, LoopMoves DEF Calling
  <2>7. WTypes' /\ OthersWait(t)
    BY <2>1, <2>3, <2>6 DEF WTypes, OthersWait, Stored
  <2> QED
    <3>1. GoesOn(t)
      BY <1>4, <2>6 DEF GoesOn
    <3> QED
      BY <1>1, <2>3, <2>5, <2>7, <3>1
<1>5. CASE phase[t] = "calloc"
  <2>1. /\ c' = [c EXCEPT ![t][s] = r] /\ m' = m /\ dropped' = dropped
        /\ Loop(t, Callocs, "realloc")
    BY <1>2, <1>5 DEF StoreResult
  <2>2. k = <<"c", s>>
    BY <1>2, <1>5 DEF Here
  <2>3. Stored(t, k, r)
    BY <2>1, <2>2, StoreCell
  <2>4. p = NULL
    <3>1. s <= i[t]
      BY <1>2, SlotFacts
    <3>2. c[t][s] = NULL
      BY <1>2, <1>5, <3>1 DEF Unfilled
    <3> QED
      BY <2>2, <3>2 DEF Val
  <2>5. dropped'[t] = dropped[t] \cup Lost(r, p)
    BY <2>1, <2>4 DEF Lost
  <2>6. /\ phase' \in [Threads -> Phases] /\ i' \in [Threads -> Nat]
        /\ \A u \in Threads \ {t} : phase'[u] = phase[u] /\ i'[u] = i[u]
        /\ \/ i[t] + 1 < Callocs /\ phase'[t] = phase[t] /\ i'[t] = i[t] + 1
           \/ phase'[t] = "realloc" /\ i'[t] = 0
    BY <1>3, <2>1, LoopMoves DEF Calling
  <2>7. WTypes' /\ OthersWait(t)
    BY <2>1, <2>3, <2>6 DEF WTypes, OthersWait, Stored
  <2> QED
    <3>1. GoesOn(t)
      BY <1>5, <2>6 DEF GoesOn
    <3> QED
      BY <1>1, <2>3, <2>5, <2>7, <3>1
<1>6. CASE phase[t] = "realloc"
  <2>1. /\ m' = [m EXCEPT ![t][s] = r] /\ c' = c /\ Overwrite(t)
        /\ Loop(t, Pointers, "free m")
    BY <1>2, <1>6 DEF StoreResult, StoreM
  <2>2. k = <<"m", s>> /\ p = m[t][s] /\ p \in Nat
    BY <1>2, <1>6 DEF Here, Val, WTypes
  <2>3. Stored(t, k, r)
    BY <2>1, <2>2, StoreCell
  <2>4. dropped' = [dropped EXCEPT ![t] = IF r = NULL THEN @ \cup ({p} \ {NULL}) ELSE @]
    BY <1>2, <2>1, <2>2 DEF Overwrite
  <2>5. /\ dropped'[t] = dropped[t] \cup Lost(r, p)
        /\ dropped' \in [Threads -> SUBSET Nat]
        /\ \A u \in Threads \ {t} : dropped'[u] = dropped[u]
    BY <2>2, <2>4 DEF WTypes, Lost
  <2>6. /\ phase' \in [Threads -> Phases] /\ i' \in [Threads -> Nat]
        /\ \A u \in Threads \ {t} : phase'[u] = phase[u] /\ i'[u] = i[u]
        /\ \/ i[t] + 1 < Pointers /\ phase'[t] = phase[t] /\ i'[t] = i[t] + 1
           \/ phase'[t] = "free m" /\ i'[t] = 0
    BY <1>3, <2>1, LoopMoves DEF Freeing
  <2>7. WTypes' /\ OthersWait(t)
    BY <2>3, <2>5, <2>6 DEF WTypes, OthersWait, Stored
  <2> QED
    <3>1. GoesOn(t)
      BY <1>6, <2>6 DEF GoesOn
    <3> QED
      BY <1>1, <2>3, <2>5, <2>7, <3>1
<1> QED
  BY <1>1, <1>4, <1>5, <1>6 DEF Calling

\* In the first two loops the current cell is NULL.
LEMMA HereEmpty ==
  ASSUME NEW t \in Threads, WTypes, InLoop(t), Unfilled(t), phase[t] \in {"malloc", "calloc"}
  PROVE  Val(t, Here(t)) = NULL
<1>1. PICK s \in Slots : s = i[t]
  BY CellFacts DEF Calling
<1>2. s <= i[t]
  BY <1>1, SlotFacts
<1>3. CASE phase[t] = "malloc"
  BY <1>1, <1>2, <1>3 DEF Unfilled, Here, Val
<1>4. CASE phase[t] = "calloc"
  BY <1>1, <1>2, <1>4 DEF Unfilled, Here, Val
<1> QED
  BY <1>3, <1>4

\* Result is what the call returns, in place or not.
LEMMA ResultGot ==
  ASSUME NEW t \in Threads, WTypes, InLoop(t), Unfilled(t), Resizable(t), phase[t] \in Calling,
         NEW p, p = Val(t, Here(t)), NEW asked, asked = Demand(t), NEW q, Gets(t, q, p, asked)
  PROVE  Result(t) = q
<1>1. PICK e : e = [ptr |-> q, asked |-> asked]
  OBVIOUS
<1>2. e.ptr = q /\ e.asked = asked
  BY <1>1
<1>3. owned'[t] = {r \in owned[t] : r.ptr # p} \cup {e} /\ q # NULL
  BY <1>1 DEF Gets, Swapped
<1>4. e \notin owned[t]
  <2>1. CASE q \notin Pointed(t)
    BY <1>2, <2>1 DEF Pointed
  <2>2. CASE q = p
    <3>1. phase[t] = "realloc"
      BY <1>3, <2>2, HereEmpty DEF Calling
    <3>2. PICK s \in Slots : s = i[t]
      BY CellFacts DEF Calling
    <3>3. s <= i[t] /\ p = m[t][s] /\ asked = ReallocSize[policy][t][s]
      BY <3>1, <3>2, SlotFacts DEF Here, Val, Demand
    <3>4. \A r \in owned[t] : r.ptr = m[t][s] => r.asked # ReallocSize[policy][t][s]
      BY <3>1, <3>2, <3>3 DEF Resizable
    <3> QED
      BY <1>2, <2>2, <3>3, <3>4
  <2> QED
    BY <2>1, <2>2 DEF Gets
<1>5. owned'[t] \ owned[t] = {e}
  BY <1>3, <1>4
<1> QED
  BY <1>2, <1>5 DEF Result

\* A refusal shows as NULL.
LEMMA ResultFailed ==
  ASSUME NEW t, Fails(t)
  PROVE  Result(t) = NULL
<1>1. owned'[t] \ owned[t] = {}
  BY DEF Fails
<1> QED
  BY <1>1 DEF Result

\* The cells after the result of a call was stored.
LEMMA StoredContents ==
  ASSUME NEW t \in Threads, WTypes, WTypes', phase[t] \in Calling, InLoop(t),
         GoesOn(t),
         NEW k, k = Here(t), NEW r, Stored(t, k, r)
  PROVE  /\ k \in DOMAIN Contents(t) /\ Contents(t)[k] = Val(t, k)
         /\ Contents(t)' = [Contents(t) EXCEPT ![k] = r]
<1>1. Cells(t) = AllCells /\ k \in AllCells
  BY CellFacts
<1>2. Cells(t)' = AllCells
  <2>1. Cells(t)' = ToFree(phase'[t], i'[t])
    BY CellsThen DEF WTypes
  <2>2. phase'[t] \in Calling \/ (phase'[t] = "free m" /\ i'[t] = 0)
    BY DEF GoesOn, Calling
  <2>3. CASE phase'[t] \in Calling
    BY <2>1, <2>3 DEF ToFree, Calling
  <2>4. CASE phase'[t] = "free m" /\ i'[t] = 0
    <3>1. ASSUME NEW j \in AllCells
          PROVE  0 <= j[2]
      <4>1. j[2] \in Nat
        BY SlotFacts DEF AllCells
      <4>2. \A l \in Nat : 0 <= l
        OBVIOUS
      <4> QED
        BY <4>1, <4>2
    <3> QED
      BY <2>1, <2>4, <3>1 DEF ToFree
  <2> QED
    BY <2>2, <2>3, <2>4
<1>3. Contents(t)' = [j \in AllCells |-> Val(t, j)']
  BY <1>2 DEF Contents
<1>4. [Contents(t) EXCEPT ![k] = r] = [j \in AllCells |-> IF j = k THEN r ELSE Val(t, j)]
  BY <1>1 DEF Contents
<1>5. \A j \in AllCells : Val(t, j)' = IF j = k THEN r ELSE Val(t, j)
  BY <1>1 DEF Stored
<1>6. k \in DOMAIN Contents(t) /\ Contents(t)[k] = Val(t, k)
  BY <1>1 DEF Contents
<1> QED
  BY <1>3, <1>4, <1>5, <1>6

\* A cell other than the one stored to.
LEMMA OtherCell ==
  ASSUME NEW t, NEW a \in {"m", "c"}, NEW s \in Slots, NEW b, NEW n, NEW r,
         Stored(t, <<b, n>>, r), a # b \/ s # n
  PROVE  Val(t, <<a, s>>)' = Val(t, <<a, s>>)
<1>1. <<a, s>> \in AllCells /\ <<a, s>> # <<b, n>>
  BY DEF AllCells
<1> QED
  BY <1>1 DEF Stored

\* The loops go on where the cells are empty.
LEMMA LoopsGoOn ==
  ASSUME NEW t \in Threads, WTypes, WTypes', InLoop(t), Unfilled(t), phase[t] \in Calling,
         NEW k, k = Here(t), NEW r, Stored(t, k, r),
         GoesOn(t)
  PROVE  InLoop(t)' /\ Unfilled(t)'
<1>1. phase[t] \in {"malloc", "calloc", "realloc"} /\ i[t] \in Nat
  BY DEF Calling, WTypes
<1>2. 0 < Mallocs /\ 0 < Callocs /\ 0 < Pointers
  BY SlotFacts
<1>3. InLoop(t)'
  BY <1>1, <1>2 DEF InLoop, Freeing, GoesOn
<1>4. ASSUME NEW s \in Slots
      PROVE  /\ phase'[t] \in {"new", "malloc"} =>
                  c'[t][s] = NULL /\ (i'[t] <= s => m'[t][s] = NULL)
             /\ phase'[t] = "calloc" /\ i'[t] <= s => c'[t][s] = NULL
  <2>1. PICK n \in Nat : n = i[t]
    BY <1>1
  <2>2. s \in Nat /\ (n + 1 <= s => s # n /\ n <= s)
    <3>1. s \in Nat
      BY SlotFacts
    <3>2. \A l \in Nat : n + 1 <= l => l # n /\ n <= l
      OBVIOUS
    <3> QED
      BY <3>1, <3>2
  <2>3. CASE phase[t] = "malloc"
    <3>1. Stored(t, <<"m", n>>, r)
      BY <2>1, <2>3 DEF Here
    <3>2. Val(t, <<"c", s>>)' = Val(t, <<"c", s>>)
      BY <3>1, OtherCell
    <3>3. c'[t][s] = NULL
      BY <2>3, <3>2 DEF Val, Unfilled
    <3>4. ASSUME n + 1 <= s
          PROVE  m'[t][s] = NULL
      <4>1. Val(t, <<"m", s>>)' = Val(t, <<"m", s>>)
        BY <2>2, <3>1, <3>4, OtherCell
      <4> QED
        BY <2>1, <2>2, <2>3, <3>4, <4>1 DEF Val, Unfilled
    <3> QED
      BY <2>1, <2>3, <3>3, <3>4 DEF GoesOn
  <2>4. CASE phase[t] = "calloc"
    <3>1. Stored(t, <<"c", n>>, r)
      BY <2>1, <2>4 DEF Here
    <3>2. ASSUME n + 1 <= s
          PROVE  c'[t][s] = NULL
      <4>1. Val(t, <<"c", s>>)' = Val(t, <<"c", s>>)
        BY <2>2, <3>1, <3>2, OtherCell
      <4> QED
        BY <2>1, <2>2, <2>4, <3>2, <4>1 DEF Val, Unfilled
    <3> QED
      BY <2>1, <2>4, <3>2 DEF GoesOn
  <2>5. CASE phase[t] = "realloc"
    BY <2>5 DEF GoesOn
  <2> QED
    BY <1>1, <2>3, <2>4, <2>5
<1>5. Unfilled(t)'
  BY <1>4 DEF Unfilled
<1> QED
  BY <1>3, <1>5

\* What t points to after a call that got q.
LEMMA GetsPointed ==
  ASSUME NEW t, NEW q, NEW p, NEW asked, Gets(t, q, p, asked)
  PROVE  Pointed(t)' = (Pointed(t) \ {p}) \cup {q}
<1>1. PICK e : e = [ptr |-> q, asked |-> asked]
  OBVIOUS
<1>2. e.ptr = q /\ owned'[t] = {r \in owned[t] : r.ptr # p} \cup {e}
  BY <1>1 DEF Gets, Swapped
<1>3. PICK o : o = owned'[t]
  OBVIOUS
<1>4. {r.ptr : r \in o} = (Pointed(t) \ {p}) \cup {q}
  BY <1>2, <1>3 DEF Pointed
<1> QED
  BY <1>3, <1>4 DEF Pointed

\* The cells still account for the pointers when a call has returned.
LEMMA ReturnAccounted ==
  ASSUME NEW t \in Threads, WTypes, WTypes', Types, phase[t] \in Calling, InLoop(t), Accounted(t),
         NEW k, k = Here(t), NEW p, p = Val(t, k), NEW r, Stored(t, k, r), GoesOn(t),
         dropped'[t] = dropped[t] \cup Lost(r, p),
         NEW asked, Gets(t, r, p, asked) \/ (Fails(t) /\ r = NULL)
  PROVE  Accounted(t)'
<1>1. PICK O, V, D : O = Pointed(t) /\ V = Contents(t) /\ D = dropped[t]
  OBVIOUS
<1>2. k \in DOMAIN V /\ V[k] = p
  BY <1>1, StoredContents
<1>3. Contents(t)' = [V EXCEPT ![k] = r]
  BY <1>1, StoredContents
<1>4. Tallies(O, V, D)
  BY <1>1 DEF Accounted
<1>5. CASE Gets(t, r, p, asked)
  <2>1. r # NULL /\ (r = V[k] \/ r \notin O)
    BY <1>1, <1>2, <1>5 DEF Gets
  <2>2. Pointed(t)' = (O \ {V[k]}) \cup {r}
    BY <1>1, <1>2, <1>5, GetsPointed
  <2>3. dropped'[t] = D
    BY <1>1, <2>1 DEF Lost
  <2>4. Tallies((O \ {V[k]}) \cup {r}, [V EXCEPT ![k] = r], D)
    BY <1>2, <1>4, <2>1, StoreNew
  <2> QED
    BY <1>3, <2>2, <2>3, <2>4 DEF Accounted
<1>6. CASE Fails(t) /\ r = NULL
  <2>1. Pointed(t)' = O
    BY <1>1, <1>6 DEF Fails, Pointed
  <2>2. dropped'[t] = D \cup ({V[k]} \ {NULL})
    BY <1>1, <1>2, <1>6 DEF Lost
  <2>3. Tallies(O, [V EXCEPT ![k] = NULL], D \cup ({V[k]} \ {NULL}))
    BY <1>2, <1>4, StoreNull
  <2> QED
    BY <1>3, <1>6, <2>1, <2>2, <2>3 DEF Accounted
<1> QED
  BY <1>5, <1>6

\* What the thread has is of a size it asked for.
LEMMA ReturnDemanded ==
  ASSUME NEW t, Demanded(t), NEW q, NEW p, NEW asked \in Demands,
         Gets(t, q, p, asked) \/ Fails(t)
  PROVE  Demanded(t)'
<1>1. PICK e : e = [ptr |-> q, asked |-> asked]
  OBVIOUS
<1>2. e.asked = asked
  BY <1>1
<1>3. owned'[t] \subseteq owned[t] \cup {e}
  BY <1>1 DEF Gets, Fails, Swapped
<1> QED
  BY <1>2, <1>3 DEF Demanded

\* What ff_realloc has still to get is not of the size it will ask for.
LEMMA ReturnResizable ==
  ASSUME NEW t \in Threads, WTypes, Types, policy' = policy, phase[t] \in Calling, InLoop(t),
         Resizable(t), Accounted(t), NEW k, k = Here(t), NEW p, p = Val(t, k),
         NEW asked, asked = Demand(t), NEW r, Stored(t, k, r), GoesOn(t),
         Gets(t, r, p, asked) \/ Fails(t), Fails(t) => r = NULL
  PROVE  Resizable(t)'
<1>1. PICK n \in Slots : n = i[t]
  BY CellFacts
<1>2. n \in Nat /\ Slots \subseteq Nat
  BY SlotFacts
<1>3. Cells(t) = AllCells /\ k \in AllCells
  BY CellFacts
<1>4. PICK e : e = [ptr |-> r, asked |-> asked]
  OBVIOUS
<1>5. e.ptr = r /\ e.asked = asked
  BY <1>4
<1>6. \A a \in owned'[t] : a \in owned[t] \/ (a = e /\ Gets(t, r, p, asked))
  BY <1>4 DEF Gets, Fails, Swapped
<1>7. \A a \in owned[t] : a.ptr # NULL
  <2>1. owned[t] \subseteq Allocations
    BY TypesOf
  <2> QED
    BY <2>1, AllocationFields
<1>8. ASSUME NEW s \in Slots,
             phase'[t] \in {"malloc", "calloc"} \/ (phase'[t] = "realloc" /\ i'[t] <= s),
             NEW a \in owned'[t], a.ptr = m'[t][s]
      PROVE  a.asked # ReallocSize[policy][t][s]
  <2>1. phase[t] \in {"malloc", "calloc"} \/ (phase[t] = "realloc" /\ n + 1 <= s)
    BY <1>1, <1>8 DEF GoesOn, Calling
  <2>2. s \in Nat /\ (phase[t] = "realloc" => s # n /\ n <= s)
    <3>1. n + 1 <= s => s # n /\ n <= s
      BY <1>2
    <3> QED
      BY <1>2, <2>1, <3>1
  <2>3. CASE k = <<"m", s>>
    <3>1. s = n /\ phase[t] = "malloc"
      <4>1. PICK b : b = IF phase[t] \in {"calloc", "free c"} THEN "c" ELSE "m"
        OBVIOUS
      <4>2. k = <<b, n>>
        BY <1>1, <4>1 DEF Here
      <4>3. s = n /\ b = "m"
        BY <2>3, <4>2
      <4>4. phase[t] # "calloc"
        BY <4>1, <4>3
      <4> QED
        BY <2>1, <2>2, <4>3, <4>4
    <3>2. asked = MallocSize[policy][t][s]
      BY <1>1, <3>1 DEF Demand
    <3>3. m'[t][s] = r /\ asked # ReallocSize[policy][t][s]
      <4>1. Val(t, <<"m", s>>)' = r
        BY <2>3 DEF Stored
      <4>2. s \in 0..(Mallocs - 1) /\ policy \in Policies
        BY <1>1, <1>2, <3>1, SlotFacts DEF InLoop, Types
      <4> QED
        BY <3>2, <4>1, <4>2, DemandsAssumption DEF Val
    <3>4. CASE a \in owned[t]
      <4>1. Gets(t, r, p, asked) /\ r = p
        BY <1>7, <1>8, <3>3, <3>4 DEF Gets, Pointed
      <4>2. p \in Nat \ {NULL}
        BY <4>1 DEF Gets
      <4>3. owned'[t] = {b \in owned[t] : b.ptr # p} \cup {e}
        BY <1>4, <4>1 DEF Gets, Swapped
      <4>4. a = e
        BY <1>8, <3>3, <4>1, <4>3
      <4> QED
        BY <1>5, <3>3, <4>4
    <3>5. CASE a = e
      BY <1>5, <3>3, <3>5
    <3> QED
      BY <1>6, <3>4, <3>5
  <2>4. CASE k # <<"m", s>>
    <3>1. <<"m", s>> \in AllCells
      BY DEF AllCells
    <3>2. m'[t][s] = m[t][s]
      BY <2>4, <3>1 DEF Stored, Val
    <3>3. CASE a \in owned[t]
      BY <1>1, <1>8, <2>1, <2>2, <3>2, <3>3 DEF Resizable
    <3>4. CASE a = e /\ Gets(t, r, p, asked)
      <4>1. r = m[t][s] /\ r # NULL
        BY <1>5, <1>8, <3>2, <3>4 DEF Gets
      <4>2. r \in Pointed(t)
        <5>1. Contents(t)[<<"m", s>>] = r /\ <<"m", s>> \in DOMAIN Contents(t)
          BY <1>3, <3>1, <4>1 DEF Contents, Val
        <5> QED
          BY <4>1, <5>1 DEF Accounted, Tallies
      <4>3. r = p
        BY <3>4, <4>2 DEF Gets
      <4>4. Contents(t)[<<"m", s>>] = r /\ Contents(t)[k] = r /\ DOMAIN Contents(t) = AllCells
        BY <1>3, <3>1, <4>1, <4>3 DEF Contents, Val
      <4>5. k = <<"m", s>>
        BY <1>3, <3>1, <4>1, <4>4 DEF Accounted, Tallies
      <4> QED
        BY <2>4, <4>5
    <3> QED
      BY <1>6, <3>3, <3>4
  <2> QED
    BY <2>3, <2>4
<1> QED
  BY <1>8 DEF Resizable

\* A step of the allocator and the driver's half of it.
LEMMA ThenKeeps ==
  ASSUME NEW t \in Threads, Types, WTypes, ThreadInv(t), phase[t] \in Calling, policy' = policy,
         NEW p, p = Val(t, Here(t)), NEW asked, asked = Demand(t),
         (\E q : Gets(t, q, p, asked)) \/ Waits(t, p, asked) \/ Fails(t), Then(t)
  PROVE  /\ WTypes' /\ ThreadInv(t)' /\ OthersWait(t)
         /\ phase'[t] \in Calling \cup {"free m"}
<1>1. InLoop(t) /\ Unfilled(t) /\ Resizable(t) /\ Demanded(t) /\ Accounted(t)
  BY DEF ThreadInv
<1>2. CASE Waits(t, p, asked)
  <2>1. pc'[t] # "idle" /\ owned'[t] = owned[t] /\ UNCHANGED locals
    BY <1>2 DEF Waits, Then
  <2>2. UNCHANGED <<phase, i, m, c, dropped>>
    BY <2>1 DEF locals
  <2>3. InLoop(t)' /\ Unfilled(t)'
    BY <1>1, <2>2 DEF InLoop, Unfilled
  <2>4. Val(t, Here(t))' = p /\ Demand(t)' = asked
    BY <2>2 DEF Val, Here, Demand
  <2>5. CallInv(t)'
    BY <1>2, <2>2, <2>4 DEF CallInv, Waits
  <2>6. Resizable(t)' /\ Demanded(t)'
    BY <1>1, <2>1, <2>2 DEF Resizable, Demanded
  <2>7. Accounted(t)'
    <3>1. Cells(t)' = Cells(t)
      BY <2>2 DEF Cells, FreedM, FreedC
    <3>2. Contents(t)' = Contents(t)
      BY <2>2, <3>1 DEF Contents, Val
    <3>3. Pointed(t)' = Pointed(t)
      BY <2>1 DEF Pointed
    <3> QED
      BY <1>1, <2>2, <3>2, <3>3 DEF Accounted
  <2>8. WTypes' /\ OthersWait(t)
    BY <2>2 DEF WTypes, OthersWait
  <2>9. phase'[t] \in Calling
    BY <2>2
  <2> QED
    BY <2>3, <2>5, <2>6, <2>7, <2>8, <2>9 DEF ThreadInv
<1>3. CASE (\E q : Gets(t, q, p, asked)) \/ Fails(t)
  <2>1. pc'[t] = "idle" /\ StoreResult(t)
    BY <1>3 DEF Gets, Fails, Then
  <2>2. PICK r \in Nat : /\ r = Result(t) /\ (Fails(t) => r = NULL)
                         /\ Gets(t, r, p, asked) \/ (Fails(t) /\ r = NULL)
    <3>1. CASE \E q : Gets(t, q, p, asked)
      <4>1. PICK q : Gets(t, q, p, asked)
        BY <3>1
      <4>2. Result(t) = q
        BY <1>1, <4>1, ResultGot
      <4>3. q \in Nat
        BY <4>1 DEF Gets
      <4>4. Fails(t) => q = NULL
        BY <4>2, ResultFailed
      <4> QED
        BY <4>1, <4>2, <4>3, <4>4
    <3>2. CASE Fails(t)
      BY <3>2, ResultFailed
    <3> QED
      BY <1>3, <3>1, <3>2
  <2>3. PICK k : k = Here(t)
    OBVIOUS
  <2>4. /\ WTypes' /\ OthersWait(t) /\ Stored(t, k, r) /\ GoesOn(t)
        /\ dropped'[t] = dropped[t] \cup Lost(r, p)
    BY <1>1, <2>1, <2>2, <2>3, ResultStored
  <2>5. InLoop(t)' /\ Unfilled(t)'
    BY <1>1, <2>3, <2>4, LoopsGoOn
  <2>6. Accounted(t)'
    BY <1>1, <2>2, <2>3, <2>4, ReturnAccounted
  <2>7. Demanded(t)'
    <3>1. asked \in Demands
      BY <1>1, DemandSized DEF Types, WTypes
    <3>2. Gets(t, r, p, asked) \/ Fails(t)
      BY <2>2
    <3> QED
      BY <1>1, <3>1, <3>2, ReturnDemanded
  <2>8. Resizable(t)'
    <3>1. (Gets(t, r, p, asked) \/ Fails(t)) /\ (Fails(t) => r = NULL)
      BY <2>2
    <3> QED
      BY <1>1, <2>3, <2>4, <3>1, ReturnResizable
  <2>9. CallInv(t)'
    BY <2>1 DEF CallInv
  <2>10. phase'[t] \in Calling \cup {"free m"}
    BY <2>4 DEF GoesOn, Calling
  <2> QED
    BY <2>4, <2>5, <2>6, <2>7, <2>8, <2>9, <2>10 DEF ThreadInv
<1> QED
  BY <1>2, <1>3

\* A thread that is in no call and past its loops does nothing but count.
LEMMA PastLoops ==
  ASSUME NEW t \in Threads, WTypes, ThreadInv(t),
         NEW ends, ends = {"report", "create", "join", "exit"},
         phase[t] \in ends, phase'[t] \in ends, i'[t] \in Nat,
         owned'[t] = owned[t], pc'[t] = pc[t],
         m'[t] = m[t], c'[t] = c[t], dropped'[t] = dropped[t]
  PROVE  ThreadInv(t)'
<1>1. InLoop(t) /\ CallInv(t) /\ Demanded(t) /\ Accounted(t)
  BY DEF ThreadInv
<1>2. pc'[t] = "idle"
  BY <1>1 DEF CallInv, Calling
<1>3. InLoop(t)' /\ Unfilled(t)' /\ CallInv(t)' /\ Resizable(t)' /\ Demanded(t)'
  BY <1>1, <1>2 DEF InLoop, Freeing, Unfilled, CallInv, Resizable, Demanded
<1>4. Cells(t) = {}
  BY <1>1, CellFacts
<1>5. Cells(t)' = {}
  <2>1. Cells(t)' = ToFree(phase'[t], i'[t])
    BY CellsThen DEF Phases
  <2> QED
    BY <2>1 DEF ToFree
<1>6. Contents(t)' = Contents(t) /\ Pointed(t)' = Pointed(t)
  BY <1>4, <1>5 DEF Contents, Pointed
<1>7. Accounted(t)'
  BY <1>1, <1>6 DEF Accounted
<1> QED
  BY <1>3, <1>7 DEF ThreadInv

\* The pointer in k is freed, and the loop goes on behind k.
LEMMA CellFreed ==
  ASSUME NEW t \in Threads, Accounted(t), NEW k \in Cells(t), Cells(t)' = Cells(t) \ {k},
         NEW p, p = Val(t, k), Pointed(t)' = Pointed(t) \ {p}, m' = m, c' = c, dropped' = dropped
  PROVE  Accounted(t)'
<1>1. PICK O, V, D : O = Pointed(t) /\ V = Contents(t) /\ D = dropped[t]
  OBVIOUS
<1>2. DOMAIN V = Cells(t) /\ V[k] = p
  BY <1>1 DEF Contents
<1>3. PICK W : W = [j \in DOMAIN V \ {k} |-> V[j]]
  OBVIOUS
<1>4. Contents(t)' = W
  <2>1. \A j \in DOMAIN V \ {k} : Val(t, j)' = V[j]
    BY <1>1, <1>2 DEF Contents, Val
  <2> QED
    BY <1>2, <1>3, <2>1 DEF Contents
<1>5. Tallies(O, V, D)
  BY <1>1 DEF Accounted
<1>6. Tallies(O \ {V[k]}, W, D)
  BY <1>2, <1>3, <1>5, Take
<1> QED
  BY <1>1, <1>2, <1>4, <1>6 DEF Accounted

-----------------------------------------------------------------------------
(* The steps of run_workload.                                              *)

Working == Calling \cup Freeing \cup {"report"}

\* How a step of t moves it along.
MovesOn(t) ==
  /\ phase[t] \in Working
  /\ phase'[t] \in Working \/ (phase'[t] = (IF t = Main THEN "create" ELSE "exit") /\ i'[t] = 1)

\* A step of t keeps what the invariant says of t, and is no other thread's.
StepKeeps(t) ==
  /\ SafeHeaps' /\ WTypes' /\ ThreadInv(t)' /\ policy' = policy
  /\ Elsewhere(t) /\ OthersWait(t) /\ MovesOn(t)

\* The invariant without what it says of the order of the threads.
Before(t) == SafeHeaps /\ WTypes /\ ThreadInv(t)

LEMMA AllocationKeeps ==
  ASSUME NEW t \in Threads, Before(t), Allocation(t)
  PROVE  StepKeeps(t)
<1>1. /\ SafeHeaps /\ Types /\ WTypes /\ ThreadInv(t)
      /\ InLoop(t) /\ Unfilled(t) /\ Accounted(t)
  BY SafeParts DEF Before, ThreadInv
<1>2. phase[t] \in Calling /\ Then(t)
  BY DEF Allocation, Calling
<1>3. PICK k, p, asked : k = Here(t) /\ p = Val(t, k) /\ asked = Demand(t)
  OBVIOUS
<1>4. k \in Cells(t) /\ p \in Nat
  <2>1. Cells(t) = AllCells /\ k \in Cells(t)
    BY <1>1, <1>2, <1>3, CellFacts
  <2> QED
    BY <1>1, <1>3, <2>1, CellFacts
<1>5. p # NULL => \E r \in owned[t] : r.ptr = p
  BY <1>1, <1>3, <1>4, HeldByCell
<1>6. asked \in Demands /\ asked \in SizeT /\ asked \in Nat /\ asked > 0
  <2>1. policy \in Policies /\ i[t] \in Nat
    BY <1>1 DEF Types, WTypes
  <2>2. asked \in Demands
    BY <1>1, <1>2, <1>3, <2>1, DemandSized
  <2> QED
    BY <2>2, DemandFacts
<1>7. /\ SafeHeaps' /\ Elsewhere(t) /\ policy' = policy
      /\ (\E q : Gets(t, q, p, asked)) \/ Waits(t, p, asked)
  <2>1. CASE phase[t] = "malloc" /\ ff_malloc(t, asked)
    <3>1. p = NULL
      BY <1>1, <1>3, <2>1, HereEmpty
    <3>2. Allocate(t, asked, p) /\ policy' = policy
      BY <2>1, <3>1 DEF ff_malloc
    <3>3. (\E q : Gets(t, q, p, asked)) \/ Waits(t, p, asked)
      BY <1>1, <1>4, <1>5, <1>6, <3>2, AllocateEffect
    <3>4. SafeHeaps'
      BY <1>1, <1>6, <2>1, MallocSafe
    <3> QED
      BY <1>1, <2>1, <3>2, <3>3, <3>4, CallsElsewhere
  <2>2. CASE phase[t] = "calloc" /\ ff_calloc(t, 1, asked)
    <3>1. p = NULL
      BY <1>1, <1>3, <2>2, HereEmpty
    <3>2. ff_malloc(t, asked)
      <4>1. ff_malloc(t, 1 * asked)
        BY <2>2 DEF ff_calloc
      <4>2. 1 * asked = asked
        BY <1>6
      <4> QED
        BY <4>1, <4>2
    <3>3. Allocate(t, asked, p) /\ policy' = policy
      BY <3>1, <3>2 DEF ff_malloc
    <3>4. (\E q : Gets(t, q, p, asked)) \/ Waits(t, p, asked)
      BY <1>1, <1>4, <1>5, <1>6, <3>3, AllocateEffect
    <3>5. SafeHeaps'
      BY <1>1, <1>6, <3>2, MallocSafe
    <3> QED
      BY <1>1, <3>2, <3>3, <3>4, <3>5, CallsElsewhere
  <2>3. CASE phase[t] = "realloc" /\ ff_realloc(t, p, asked)
    <3>1. asked # 0
      BY <1>6
    <3>2. p \in {NULL} \cup {r.ptr : r \in owned[t]}
      BY <1>5
    <3>3. SafeHeaps'
      BY <1>1, <1>6, <2>3, <3>2, ReallocSafe
    <3>4. (\E q : Gets(t, q, p, asked)) \/ Waits(t, p, asked)
      BY <1>1, <1>4, <1>5, <1>6, <2>3, <3>1, ReallocEffect
    <3>5. policy' = policy
      BY <2>3 DEF ff_realloc, ff_malloc, ff_free, Resize
    <3> QED
      BY <1>1, <2>3, <3>3, <3>4, <3>5, CallsElsewhere
  <2>4. /\ phase[t] = "malloc" => asked = MallocSize[policy][t][i[t]]
        /\ phase[t] = "calloc" => asked = CallocSize[policy][i[t]]
        /\ phase[t] = "realloc" => asked = ReallocSize[policy][t][i[t]] /\ p = m[t][i[t]]
    <3>1. Here(t) = <<IF phase[t] \in {"calloc", "free c"} THEN "c" ELSE "m", i[t]>>
      BY DEF Here
    <3>2. phase[t] = "realloc" => Here(t) = <<"m", i[t]>>
      BY <3>1
    <3>3. phase[t] = "realloc" => p = m[t][i[t]]
      BY <1>3, <3>2 DEF Val
    <3> QED
      BY <1>3, <3>3 DEF Demand
  <2> QED
    BY <2>1, <2>2, <2>3, <2>4 DEF Allocation
<1>8. WTypes' /\ ThreadInv(t)' /\ OthersWait(t) /\ phase'[t] \in Calling \cup {"free m"}
  BY <1>1, <1>2, <1>3, <1>7, ThenKeeps
<1>9. MovesOn(t)
  BY <1>2, <1>8 DEF MovesOn, Working, Freeing
<1> QED
  BY <1>7, <1>8, <1>9 DEF StepKeeps

LEMMA WaitingKeeps ==
  ASSUME NEW t \in Threads, Before(t), Waiting(t)
  PROVE  StepKeeps(t)
<1>1. SafeHeaps /\ Types /\ WTypes /\ ThreadInv(t) /\ CallInv(t)
  BY SafeParts DEF Before, ThreadInv
<1>2. Work(t) /\ Then(t)
  BY DEF Waiting
<1>3. PICK p, asked : p = call[t].ptr /\ asked = call[t].asked
  OBVIOUS
<1>4. /\ pc[t] # "idle"
      /\ (\E q : Gets(t, q, p, asked)) \/ Waits(t, p, asked) \/ Fails(t)
  BY <1>1, <1>2, <1>3, WorkEffect
<1>5. phase[t] \in Calling /\ p = Val(t, Here(t)) /\ asked = Demand(t)
  BY <1>1, <1>3, <1>4 DEF CallInv
<1>6. policy' = policy
  BY <1>2 DEF Work, Lock, ReadBreak, Extend, ExtendRefused, Unlock, Link
<1>7. WTypes' /\ ThreadInv(t)' /\ OthersWait(t) /\ phase'[t] \in Calling \cup {"free m"}
  BY <1>1, <1>2, <1>4, <1>5, <1>6, ThenKeeps
<1>8. MovesOn(t)
  BY <1>5, <1>7 DEF MovesOn, Working, Freeing
<1>9. SafeHeaps' /\ Elsewhere(t)
  BY <1>1, <1>2, WorkSafe, WorkElsewhere
<1> QED
  BY <1>6, <1>7, <1>8, <1>9 DEF StepKeeps

\* A call of ff_free(p), which does nothing if p is NULL.
Freed(t, p) ==
  /\ SafeHeaps' /\ Elsewhere(t) /\ policy' = policy
  /\ pc'[t] = "idle" /\ owned'[t] = {r \in owned[t] : r.ptr # p}

\* The pointer in the current cell, if there is one, is freed.
LEMMA FreeOrSkips ==
  ASSUME NEW t \in Threads, Before(t), phase[t] \in Freeing,
         NEW p, p = Val(t, Here(t)), FreeOrSkip(t, p)
  PROVE  Freed(t, p)
<1>1. /\ SafeHeaps /\ Types /\ WTypes
      /\ InLoop(t) /\ CallInv(t) /\ Accounted(t)
  BY SafeParts DEF Before, ThreadInv
<1>2. Here(t) \in Cells(t)
  BY <1>1, CellFacts
<1>3. NULL \notin Pointed(t) /\ (p # NULL => \E r \in owned[t] : r.ptr = p)
  BY <1>1, <1>2, HeldByCell
<1>4. CASE p = NULL
  <2>1. UNCHANGED vars
    BY <1>4 DEF FreeOrSkip
  <2>2. UNCHANGED <<policy, heap, owned, pc, call, brk_before>>
    BY <2>1 DEF vars
  <2>3. pc[t] = "idle"
    BY <1>1 DEF CallInv, Freeing, Calling
  <2>4. SafeHeaps'
    BY <1>1, <2>1, SafeStutter
  <2>5. owned[t] = {r \in owned[t] : r.ptr # p}
    BY <1>3, <1>4 DEF Pointed
  <2> QED
    BY <2>2, <2>3, <2>4, <2>5 DEF Elsewhere, Freed
<1>5. CASE p # NULL
  <2>1. PICK r \in owned[t] : p = r.ptr
    BY <1>3, <1>5
  <2>2. ff_free(t, p) /\ policy' = policy
    BY <1>5 DEF FreeOrSkip, ff_free
  <2>3. SafeHeaps'
    BY <1>1, <2>1, <2>2, FreeSafe
  <2>4. Elsewhere(t)
    BY <1>1, <2>2, CallsElsewhere
  <2> QED
    BY <1>1, <2>1, <2>2, <2>3, <2>4, FreeEffect DEF Freed
<1> QED
  BY <1>4, <1>5

\* Behind the cell m[n] comes c[n], and behind that m[n + 1].
LEMMA NextToFree ==
  ASSUME NEW n \in Nat, NEW ph \in Phases, NEW l \in Nat
  PROVE  /\ ph = "free c" /\ l = n => ToFree(ph, l) = ToFree("free m", n) \ {<<"m", n>>}
         /\ ph = "free m" /\ l = n + 1 => ToFree(ph, l) = ToFree("free c", n) \ {<<"c", n>>}
         /\ ph = "report" /\ n + 1 >= Pointers =>
              ToFree(ph, l) = ToFree("free c", n) \ {<<"c", n>>}
<1>1. ASSUME NEW a \in {"m", "c"}, NEW s \in Slots
      PROVE  /\ <<a, s>> \in ToFree("free c", n) <=> n <= s /\ (a = "m" => n # s)
             /\ <<a, s>> \in ToFree("free m", n) <=> n <= s
             /\ <<a, s>> \in ToFree("free m", n + 1) <=> n + 1 <= s
             /\ n + 1 <= s <=> n <= s /\ n # s
             /\ n + 1 >= Pointers => ~(n + 1 <= s)
  <2>1. s \in Nat /\ s < Pointers /\ Pointers \in Nat
    BY SlotFacts
  <2>2. n + 1 <= s <=> n <= s /\ n # s
    BY <2>1
  <2>3. n + 1 >= Pointers => ~(n + 1 <= s)
    BY <2>1
  <2> QED
    BY <2>2, <2>3 DEF ToFree, AllCells
<1>2. ASSUME ph = "free c", l = n
      PROVE  ToFree(ph, l) = ToFree("free m", n) \ {<<"m", n>>}
  <2>1. \A a \in {"m", "c"}, s \in Slots :
          <<a, s>> \in ToFree("free c", n) <=> <<a, s>> \in ToFree("free m", n) \ {<<"m", n>>}
    BY <1>1
  <2>2. ASSUME NEW j \in AllCells
        PROVE  j \in ToFree("free c", n) <=> j \in ToFree("free m", n) \ {<<"m", n>>}
    <3>1. PICK a \in {"m", "c"}, s \in Slots : j = <<a, s>>
      BY DEF AllCells
    <3> QED
      BY <2>1, <3>1
  <2>3. ToFree("free c", n) \subseteq AllCells /\ ToFree("free m", n) \subseteq AllCells
    BY DEF ToFree
  <2> QED
    BY <1>2, <2>2, <2>3
<1>3. ASSUME ph = "free m", l = n + 1
      PROVE  ToFree(ph, l) = ToFree("free c", n) \ {<<"c", n>>}
  <2>1. \A a \in {"m", "c"}, s \in Slots :
          <<a, s>> \in ToFree("free m", n + 1) <=> <<a, s>> \in ToFree("free c", n) \ {<<"c", n>>}
    BY <1>1
  <2>2. ASSUME NEW j \in AllCells
        PROVE  j \in ToFree("free m", n + 1) <=> j \in ToFree("free c", n) \ {<<"c", n>>}
    <3>1. PICK a \in {"m", "c"}, s \in Slots : j = <<a, s>>
      BY DEF AllCells
    <3> QED
      BY <2>1, <3>1
  <2>3. ToFree("free m", n + 1) \subseteq AllCells /\ ToFree("free c", n) \subseteq AllCells
    BY DEF ToFree
  <2> QED
    BY <1>3, <2>2, <2>3
<1>4. ASSUME ph = "report", n + 1 >= Pointers
      PROVE  ToFree(ph, l) = ToFree("free c", n) \ {<<"c", n>>}
  <2>1. \A a \in {"m", "c"}, s \in Slots : <<a, s>> \notin ToFree("free c", n) \ {<<"c", n>>}
    BY <1>1, <1>4
  <2>2. ToFree("free c", n) \ {<<"c", n>>} = {}
    BY <2>1 DEF ToFree, AllCells
  <2> QED
    BY <1>4, <2>2 DEF ToFree
<1> QED
  BY <1>2, <1>3, <1>4

\* The last loop, after one of its two calls of ff_free.
LEMMA FreeingKeeps ==
  ASSUME NEW t \in Threads, Before(t), phase[t] \in Freeing,
         NEW p, p = Val(t, Here(t)), Freed(t, p),
         NEW ph \in Phases, NEW l \in Nat, At(t, ph, l), ph \in {"free m", "free c", "report"},
         ph \in Freeing => l < Pointers,
         NEW n \in Nat, n = i[t],
         ToFree(ph, l) = ToFree(phase[t], n) \ {Here(t)},
         m' = m, c' = c, dropped' = dropped
  PROVE  StepKeeps(t)
<1>1. /\ SafeHeaps /\ Types /\ WTypes
      /\ InLoop(t) /\ Accounted(t) /\ Demanded(t)
  BY SafeParts DEF Before, ThreadInv
<1>2. PICK k : k = Here(t)
  OBVIOUS
<1>3. k \in Cells(t)
  BY <1>1, <1>2, CellFacts
<1>4. /\ SafeHeaps' /\ Elsewhere(t) /\ policy' = policy
      /\ pc'[t] = "idle" /\ owned'[t] = {r \in owned[t] : r.ptr # p}
  BY DEF Freed
<1>5. /\ phase' \in [Threads -> Phases] /\ i' \in [Threads -> Nat]
      /\ phase'[t] = ph /\ i'[t] = l
      /\ \A u \in Threads \ {t} : phase'[u] = phase[u] /\ i'[u] = i[u]
  BY <1>1, AtMoves
<1>6. WTypes' /\ OthersWait(t)
  BY <1>1, <1>5 DEF WTypes, OthersWait
<1>7. Cells(t)' = Cells(t) \ {k}
  <2>1. Cells(t)' = ToFree(ph, l)
    BY <1>5, CellsThen
  <2>2. Cells(t) = ToFree(phase[t], n)
    BY <1>1, CellsAre
  <2> QED
    BY <1>2, <2>1, <2>2
<1>8. Pointed(t)' = Pointed(t) \ {p}
  <2>1. PICK o : o = owned'[t]
    OBVIOUS
  <2>2. {r.ptr : r \in o} = Pointed(t) \ {p}
    BY <1>4, <2>1 DEF Pointed
  <2> QED
    BY <2>1, <2>2 DEF Pointed
<1>9. Accounted(t)'
  BY <1>1, <1>2, <1>3, <1>7, <1>8, CellFreed
<1>10. Demanded(t)'
  BY <1>1, <1>4 DEF Demanded
<1>11. InLoop(t)'
  BY <1>5 DEF InLoop, Freeing
<1>12. Unfilled(t)' /\ Resizable(t)'
  BY <1>5 DEF Unfilled, Resizable
<1>13. CallInv(t)'
  BY <1>4 DEF CallInv
<1>14. ThreadInv(t)'
  BY <1>9, <1>10, <1>11, <1>12, <1>13 DEF ThreadInv
<1>15. MovesOn(t)
  BY <1>5 DEF MovesOn, Working, Freeing
<1> QED
  BY <1>4, <1>6, <1>14, <1>15 DEF StepKeeps

LEMMA FreeMKeeps ==
  ASSUME NEW t \in Threads, Before(t), FreeM(t)
  PROVE  StepKeeps(t)
<1>1. PICK n \in Nat : n = i[t]
  BY DEF Before, WTypes
<1>2. phase[t] = "free m" /\ m' = m /\ c' = c /\ dropped' = dropped
  BY DEF FreeM
<1>3. Here(t) = <<"m", n>>
  BY <1>1, <1>2 DEF Here
<1>4. PICK p : p = Val(t, Here(t))
  OBVIOUS
<1>5. Freed(t, p)
  <2>1. p = m[t][n]
    BY <1>3, <1>4 DEF Val
  <2>2. FreeOrSkip(t, p)
    BY <1>1, <2>1 DEF FreeM
  <2>3. phase[t] \in Freeing
    BY <1>2 DEF Freeing
  <2> QED
    BY <1>4, <2>2, <2>3, FreeOrSkips
<1>6. PICK ph \in Phases : ph = "free c"
  BY DEF Phases, Freeing
<1>7. At(t, ph, n)
  BY <1>1, <1>6 DEF FreeM
<1>8. ToFree(ph, n) = ToFree(phase[t], n) \ {Here(t)}
  BY <1>2, <1>3, <1>6, NextToFree
<1>9. n < Pointers
  BY <1>1, <1>2 DEF Before, ThreadInv, InLoop, Freeing
<1>10. phase[t] \in Freeing /\ ph \in {"free m", "free c", "report"}
  BY <1>2, <1>6 DEF Freeing
<1> QED
  BY <1>1, <1>2, <1>4, <1>5, <1>7, <1>8, <1>9, <1>10, FreeingKeeps

LEMMA FreeCKeeps ==
  ASSUME NEW t \in Threads, Before(t), FreeC(t)
  PROVE  StepKeeps(t)
<1>1. PICK n \in Nat : n = i[t]
  BY DEF Before, WTypes
<1>2. phase[t] = "free c" /\ m' = m /\ c' = c /\ dropped' = dropped
  BY DEF FreeC
<1>3. Here(t) = <<"c", n>>
  BY <1>1, <1>2 DEF Here
<1>4. PICK p : p = Val(t, Here(t))
  OBVIOUS
<1>5. Freed(t, p)
  <2>1. p = c[t][n]
    BY <1>3, <1>4 DEF Val
  <2>2. FreeOrSkip(t, p)
    BY <1>1, <2>1 DEF FreeC
  <2>3. phase[t] \in Freeing
    BY <1>2 DEF Freeing
  <2> QED
    BY <1>4, <2>2, <2>3, FreeOrSkips
<1>6. PICK ph \in {"free m", "report"}, l \in Nat :
        /\ At(t, ph, l)
        /\ \/ ph = "free m" /\ l = n + 1 /\ l < Pointers
           \/ ph = "report" /\ n + 1 >= Pointers
  <2>1. Pointers \in Nat
    BY SlotFacts
  <2>2. CASE n + 1 < Pointers
    <3>1. PICK ph \in {"free m", "report"}, l \in Nat : ph = "free m" /\ l = n + 1
      OBVIOUS
    <3>2. At(t, ph, l)
      BY <1>1, <2>2, <3>1 DEF FreeC
    <3>3. l < Pointers
      BY <2>2, <3>1
    <3> QED
      BY <3>1, <3>2, <3>3
  <2>3. CASE ~(n + 1 < Pointers)
    <3>1. At(t, "report", 0)
      BY <1>1, <2>3 DEF FreeC
    <3>2. n + 1 >= Pointers
      BY <2>1, <2>3
    <3> QED
      BY <3>1, <3>2
  <2> QED
    BY <2>2, <2>3
<1>7. ph \in Phases
  BY DEF Phases, Freeing
<1>8. ToFree(ph, l) = ToFree(phase[t], n) \ {Here(t)}
  BY <1>2, <1>3, <1>6, <1>7, NextToFree
<1>9. ph \in Freeing => l < Pointers
  BY <1>6 DEF Freeing
<1>10. phase[t] \in Freeing /\ ph \in {"free m", "free c", "report"}
  BY <1>2 DEF Freeing
<1>11. At(t, ph, l)
  BY <1>6
<1> QED
  BY <1>1, <1>2, <1>4, <1>5, <1>7, <1>8, <1>9, <1>10, <1>11, FreeingKeeps

\* The report of a thread.
LEMMA ReportKeeps ==
  ASSUME NEW t \in Threads, Before(t), Report(t)
  PROVE  StepKeeps(t)
<1>1. SafeHeaps /\ Types /\ WTypes /\ ThreadInv(t)
  BY SafeParts DEF Before
<1>2. /\ phase[t] = "report" /\ m' = m /\ c' = c /\ dropped' = dropped
      /\ UNCHANGED vars \/ LibcSbrk
  BY DEF Report, LibcGrows
<1>3. PICK ph \in {"create", "exit"} : ph = IF t = Main THEN "create" ELSE "exit"
  OBVIOUS
<1>4. ph \in Phases /\ At(t, ph, 1)
  BY <1>3 DEF Report, Phases
<1>5. /\ phase' \in [Threads -> Phases] /\ i' \in [Threads -> Nat]
      /\ phase'[t] = ph /\ i'[t] = 1
      /\ \A u \in Threads \ {t} : phase'[u] = phase[u] /\ i'[u] = i[u]
  BY <1>1, <1>4, AtMoves
<1>6. WTypes' /\ OthersWait(t)
  BY <1>1, <1>2, <1>5 DEF WTypes, OthersWait
<1>7. SafeHeaps' /\ UNCHANGED <<policy, heap, owned, pc, call, brk_before>>
  BY <1>1, <1>2, SafeStutter, LibcSafe DEF vars, LibcSbrk
<1>8. Elsewhere(t)
  BY <1>7 DEF Elsewhere
<1>9. ThreadInv(t)'
  <2>1. PICK ends : ends = {"report", "create", "join", "exit"}
    OBVIOUS
  <2>2. phase[t] \in ends /\ phase'[t] \in ends /\ i'[t] \in Nat
    BY <1>2, <1>5, <2>1
  <2> QED
    BY <1>1, <1>2, <1>7, <2>1, <2>2, PastLoops
<1>10. MovesOn(t)
  BY <1>2, <1>3, <1>5 DEF MovesOn, Working
<1> QED
  BY <1>6, <1>7, <1>8, <1>9, <1>10 DEF StepKeeps

\* Each step of a thread.
LEMMA ThreadKeeps ==
  ASSUME NEW t \in Threads, Before(t), Thread(t)
  PROVE  StepKeeps(t)
BY AllocationKeeps, WaitingKeeps, FreeMKeeps, FreeCKeeps, ReportKeeps DEF Thread

-----------------------------------------------------------------------------
(* The threads together.                                                   *)

\* The threads that main() creates.
LEMMA WorkerFacts ==
  /\ Main \in Threads /\ Len(Workers) \in Nat /\ 1 \in 1..Len(Workers)
  /\ \A j \in 1..Len(Workers) : Workers[j] \in Threads \ {Main}
  /\ \A j, l \in 1..Len(Workers) : Workers[j] = Workers[l] => j = l
<1>1. /\ Main \in Threads /\ Workers \in Seq(Threads \ {Main}) /\ Workers # <<>>
      /\ \A a, b \in DOMAIN Workers : Workers[a] = Workers[b] => a = b
  BY WorkersAssumption DEF IsInjective
<1> QED
  BY <1>1

\* Who is new stays new until main() creates it.
LEMMA StepInOrder ==
  ASSUME MainInv, NEW t \in Threads, OthersWait(t), MovesOn(t)
  PROVE  MainInv'
<1>1. CASE t = Main
  <2>1. \A j \in 1..Len(Workers) : phase[Workers[j]] = "new"
    BY <1>1 DEF MainInv, MovesOn, Working
  <2>2. \A j \in 1..Len(Workers) : phase'[Workers[j]] = "new"
    BY <1>1, <2>1, WorkerFacts DEF OthersWait
  <2>3. phase'[Main] \in Working \/ (phase'[Main] = "create" /\ i'[Main] = 1)
    BY <1>1 DEF MovesOn
  <2>4. phase'[Main] # "new" /\ (phase'[Main] = "create" => i'[Main] = 1)
    BY <2>3 DEF Working, Calling, Freeing
  <2>5. phase'[Main] = "create" => i'[Main] \in 1..Len(Workers)
    BY <2>4, WorkerFacts
  <2>6. phase'[Main] = "create" => \A j \in i'[Main]..Len(Workers) : j \in 1..Len(Workers)
    BY <2>4
  <2> QED
    BY <2>2, <2>4, <2>5, <2>6 DEF MainInv
<1>2. CASE t # Main
  <2>1. phase'[Main] = phase[Main] /\ i'[Main] = i[Main]
    BY <1>2, WorkerFacts DEF OthersWait
  <2>2. phase[t] # "new"
    BY DEF MovesOn, Working, Calling, Freeing
  <2>3. \A j \in 1..Len(Workers) : phase[Workers[j]] = "new" => phase'[Workers[j]] = "new"
    BY <2>2, WorkerFacts DEF OthersWait
  <2>4. i[Main] \in 1..Len(Workers) => \A j \in i[Main]..Len(Workers) : j \in 1..Len(Workers)
    BY WorkerFacts
  <2> QED
    BY <2>1, <2>3, <2>4 DEF MainInv
<1> QED
  BY <1>1, <1>2

\* A step of a thread.
LEMMA RunStep ==
  ASSUME WInv, NEW t \in Threads, Thread(t)
  PROVE  WInv'
<1>1. StepKeeps(t)
  BY ThreadKeeps DEF WInv, Before
<1>2. MainInv'
  BY <1>1, StepInOrder DEF WInv, StepKeeps
<1>3. ASSUME NEW u \in Threads \ {t}
      PROVE  ThreadInv(u)'
  <2>1. ThreadInv(u) /\ policy' = policy
    BY <1>1 DEF WInv, StepKeeps
  <2>2. /\ owned'[u] = owned[u] /\ pc'[u] = pc[u] /\ call'[u] = call[u]
        /\ phase'[u] = phase[u] /\ i'[u] = i[u] /\ m'[u] = m[u] /\ c'[u] = c[u]
        /\ dropped'[u] = dropped[u]
    BY <1>1 DEF StepKeeps, Elsewhere, OthersWait
  <2> QED
    BY <2>1, <2>2, OthersKeep
<1>4. SafeHeaps' /\ WTypes' /\ ThreadInv(t)'
  BY <1>1 DEF StepKeeps
<1>5. \A u \in Threads : ThreadInv(u)'
  BY <1>3, <1>4
<1> QED
  BY <1>2, <1>4, <1>5 DEF WInv

\* No thread is in the allocator's code: at most libc moves the break, behind
\* printf() or pthread_create().
LibcAtMost == (UNCHANGED vars \/ LibcSbrk) /\ UNCHANGED <<m, c, dropped>>

\* What such a step keeps.
Quiet ==
  /\ SafeHeaps'
  /\ UNCHANGED <<policy, owned, pc, call>>
  /\ UNCHANGED <<m, c, dropped>>

\* What libc does leaves the heaps safe.
LEMMA LibcQuiet ==
  ASSUME SafeHeaps, LibcAtMost
  PROVE  Quiet
<1>1. SafeHeaps' /\ UNCHANGED <<policy, owned, pc, call>>
  BY SafeStutter, LibcSafe DEF LibcAtMost, vars, LibcSbrk
<1> QED
  BY <1>1 DEF LibcAtMost, Quiet

\* The allocator does nothing, and so do the threads but those that do.
LEMMA QuietRun ==
  ASSUME WInv, Quiet, MainInv',
         phase' \in [Threads -> Phases], i' \in [Threads -> Nat],
         NEW S, \A t \in Threads \ S : phase'[t] = phase[t] /\ i'[t] = i[t],
         \A t \in S : ThreadInv(t)'
  PROVE  WInv'
<1>1. UNCHANGED <<m, c, dropped>>
  BY DEF Quiet
<1>2. SafeHeaps'
  BY DEF Quiet
<1>3. UNCHANGED <<policy, owned, pc, call>>
  BY DEF Quiet
<1>4. WTypes'
  BY <1>1 DEF WInv, WTypes
<1>5. ASSUME NEW t \in Threads \ S
      PROVE  ThreadInv(t)'
  BY <1>1, <1>3, OthersKeep DEF WInv
<1>6. \A t \in Threads : ThreadInv(t)'
  BY <1>5
<1>7. MainInv'
  OBVIOUS
<1> QED
  BY <1>2, <1>4, <1>6, <1>7 DEF WInv

\* A thread that main() has just created.
LEMMA Created ==
  ASSUME NEW w \in Threads, WTypes, Types, ThreadInv(w), phase[w] = "new", phase'[w] = "malloc",
         i'[w] = i[w], m' = m, c' = c, dropped' = dropped, owned' = owned, pc' = pc
  PROVE  ThreadInv(w)'
<1>1. InLoop(w) /\ Unfilled(w) /\ CallInv(w) /\ Demanded(w) /\ Accounted(w)
  BY DEF ThreadInv
<1>2. i[w] = 0 /\ pc[w] = "idle"
  BY <1>1 DEF InLoop, CallInv, Calling
<1>3. \A s \in Slots : c[w][s] = NULL /\ m[w][s] = NULL
  <2>1. \A s \in Slots : 0 <= s
    BY SlotFacts
  <2> QED
    BY <1>1, <1>2, <2>1 DEF Unfilled
<1>4. InLoop(w)'
  BY <1>2, SlotFacts DEF InLoop, Freeing
<1>5. Unfilled(w)'
  BY <1>3 DEF Unfilled
<1>6. CallInv(w)' /\ Demanded(w)'
  BY <1>1, <1>2 DEF CallInv, Demanded
<1>7. Resizable(w)'
  <2>1. \A r \in owned[w] : r.ptr # NULL
    <3>1. owned[w] \subseteq Allocations
      BY TypesOf
    <3> QED
      BY <3>1, AllocationFields
  <2> QED
    BY <1>3, <2>1 DEF Resizable
<1>8. Accounted(w)'
  <2>1. Cells(w) = AllCells
    BY <1>1, CellFacts
  <2>2. Cells(w)' = AllCells
    <3>1. phase'[w] \in Phases /\ i'[w] \in Nat
      BY <1>2 DEF Phases, Calling
    <3>2. Cells(w)' = ToFree(phase'[w], i'[w])
      BY <3>1, CellsThen
    <3> QED
      BY <3>2 DEF ToFree
  <2>3. Contents(w)' = Contents(w) /\ Pointed(w)' = Pointed(w)
    BY <2>1, <2>2 DEF Contents, Val, Pointed
  <2> QED
    BY <1>1, <2>3 DEF Accounted
<1> QED
  BY <1>4, <1>5, <1>6, <1>7, <1>8 DEF ThreadInv

\* main() between run_workload and its return.
LEMMA MainPast ==
  ASSUME WInv, Quiet, phase[Main] \in {"create", "join"},
         phase'[Main] \in {"create", "join", "exit"}, i'[Main] \in Nat
  PROVE  ThreadInv(Main)'
<1>1. PICK ends : ends = {"report", "create", "join", "exit"}
  OBVIOUS
<1>2. phase[Main] \in ends /\ phase'[Main] \in ends
  BY <1>1
<1>3. WTypes /\ ThreadInv(Main) /\ Main \in Threads
  BY WorkerFacts DEF WInv
<1>4. /\ owned'[Main] = owned[Main] /\ pc'[Main] = pc[Main]
      /\ m'[Main] = m[Main] /\ c'[Main] = c[Main] /\ dropped'[Main] = dropped[Main]
  BY DEF Quiet
<1> QED
  BY <1>1, <1>2, <1>3, <1>4, PastLoops

\* pthread_create.
LEMMA CreateStep ==
  ASSUME WInv, Create
  PROVE  WInv'
<1>1. WTypes /\ MainInv /\ phase[Main] = "create" /\ Quiet
  <2>1. LibcAtMost
    BY DEF Create, LibcGrows, LibcAtMost
  <2> QED
    BY <2>1, LibcQuiet DEF WInv, Create
<1>2. PICK n \in 1..Len(Workers) : n = i[Main]
  BY <1>1 DEF MainInv
<1>3. PICK w : w = Workers[n]
  OBVIOUS
<1>4. /\ w \in Threads /\ w # Main /\ Main \in Threads
      /\ \A j \in 1..Len(Workers) : Workers[j] \in Threads \ {Main}
      /\ \A j \in 1..Len(Workers) : Workers[j] = w => j = n
      /\ Len(Workers) \in Nat /\ n \in Nat /\ n >= 1
  BY <1>3, WorkerFacts
<1>5. phase[w] = "new"
  <2>1. n \in n..Len(Workers)
    BY <1>4
  <2> QED
    BY <1>1, <1>2, <1>3, <2>1 DEF MainInv
<1>6. PICK ph \in {"create", "join"}, l \in Nat :
        /\ ph = IF n = Len(Workers) THEN "join" ELSE "create"
        /\ l = IF n = Len(Workers) THEN 1 ELSE n + 1
  BY <1>4
<1>7. /\ phase' = [phase EXCEPT ![Main] = ph, ![w] = "malloc"]
      /\ i' = [i EXCEPT ![Main] = l]
  BY <1>1, <1>2, <1>3, <1>6 DEF Create
<1>8. ph \in Phases /\ "malloc" \in Phases
  BY DEF Phases, Calling
<1>9. /\ phase' \in [Threads -> Phases] /\ i' \in [Threads -> Nat]
      /\ phase'[Main] = ph /\ phase'[w] = "malloc" /\ i'[Main] = l /\ i'[w] = i[w]
      /\ \A t \in Threads \ {Main, w} : phase'[t] = phase[t] /\ i'[t] = i[t]
  BY <1>1, <1>4, <1>7, <1>8 DEF WTypes
<1>10. MainInv'
  <2>1. ph = "create" => n + 1 <= Len(Workers) /\ l = n + 1
    BY <1>4, <1>6
  <2>2. ASSUME ph = "create", NEW j \in l..Len(Workers)
        PROVE  phase'[Workers[j]] = "new"
    <3>1. j \in n..Len(Workers) /\ j # n /\ j \in 1..Len(Workers)
      BY <1>4, <2>1, <2>2
    <3>2. phase[Workers[j]] = "new"
      BY <1>1, <1>2, <3>1 DEF MainInv
    <3>3. Workers[j] \in Threads \ {Main, w}
      BY <1>4, <3>1
    <3> QED
      BY <1>9, <3>2, <3>3
  <2>3. ph = "create" => l \in 1..Len(Workers)
    BY <1>4, <2>1
  <2> QED
    BY <1>9, <2>2, <2>3 DEF MainInv, Calling, Freeing
<1>11. ThreadInv(Main)'
  BY <1>1, <1>9, MainPast
<1>12. ThreadInv(w)'
  <2>1. Types /\ ThreadInv(w)
    BY <1>4, SafeParts DEF WInv
  <2>2. m' = m /\ c' = c /\ dropped' = dropped /\ owned' = owned /\ pc' = pc
    BY <1>1 DEF Quiet
  <2> QED
    BY <1>1, <1>4, <1>5, <1>9, <2>1, <2>2, Created
<1>13. PICK S : S = {Main, w}
  OBVIOUS
<1>14. \A t \in S : ThreadInv(t)'
  BY <1>11, <1>12, <1>13
<1>15. \A t \in Threads \ S : phase'[t] = phase[t] /\ i'[t] = i[t]
  BY <1>9, <1>13
<1>16. phase' \in [Threads -> Phases] /\ i' \in [Threads -> Nat]
  BY <1>9
<1> QED
  BY <1>1, <1>10, <1>14, <1>15, <1>16, QuietRun

\* pthread_join.
LEMMA JoinStep ==
  ASSUME WInv, Join
  PROVE  WInv'
<1>1. WTypes /\ MainInv /\ phase[Main] = "join" /\ Quiet
  <2>1. LibcAtMost
    BY DEF Join, LibcAtMost
  <2> QED
    BY <2>1, LibcQuiet DEF WInv, Join
<1>2. Main \in Threads /\ i[Main] \in Nat
  BY <1>1, WorkerFacts DEF WTypes
<1>3. PICK ph \in {"join", "exit"}, l \in Nat : At(Main, ph, l)
  <2>1. i[Main] + 1 \in Nat
    BY <1>2
  <2> QED
    BY <2>1 DEF Join
<1>4. ph \in Phases
  BY DEF Phases
<1>5. /\ phase' \in [Threads -> Phases] /\ i' \in [Threads -> Nat]
      /\ phase'[Main] = ph /\ i'[Main] = l
      /\ \A t \in Threads \ {Main} : phase'[t] = phase[t] /\ i'[t] = i[t]
  BY <1>1, <1>2, <1>3, <1>4, AtMoves
<1>6. MainInv'
  BY <1>5 DEF MainInv, Calling, Freeing
<1>7. ThreadInv(Main)'
  BY <1>1, <1>5, MainPast
<1>8. PICK S : S = {Main}
  OBVIOUS
<1>9. \A t \in S : ThreadInv(t)'
  BY <1>7, <1>8
<1>10. \A t \in Threads \ S : phase'[t] = phase[t] /\ i'[t] = i[t]
  BY <1>5, <1>8
<1>11. phase' \in [Threads -> Phases] /\ i' \in [Threads -> Nat]
  BY <1>5
<1> QED
  BY <1>1, <1>6, <1>9, <1>10, <1>11, QuietRun

\* The program starts with empty arrays, which account for nothing.
LEMMA WorkloadInit ==
  ASSUME WInit
  PROVE  WInv
<1>1. SafeHeaps /\ Types
  BY SafeInit, SafeParts DEF WInit
<1>2. /\ phase = [t \in Threads |-> IF t = Main THEN "malloc" ELSE "new"]
      /\ i = [t \in Threads |-> 0]
      /\ m = [t \in Threads |-> [s \in Slots |-> NULL]]
      /\ c = [t \in Threads |-> [s \in Slots |-> NULL]]
      /\ dropped = [t \in Threads |-> {}]
      /\ owned = [t \in Threads |-> {}]
      /\ pc = [t \in Threads |-> "idle"]
  BY DEF WInit, Init
<1>3. "malloc" \in Phases /\ "new" \in Phases
  BY DEF Phases, Calling
<1>4. WTypes
  BY <1>2, <1>3 DEF WTypes
<1>5. MainInv
  BY <1>2, WorkerFacts DEF MainInv
<1>6. ASSUME NEW t \in Threads
      PROVE  ThreadInv(t)
  <2>1. /\ phase[t] \in {"malloc", "new"} /\ i[t] = 0 /\ dropped[t] = {} /\ owned[t] = {}
        /\ pc[t] = "idle" /\ \A s \in Slots : m[t][s] = NULL /\ c[t][s] = NULL
    BY <1>2
  <2>2. InLoop(t)
    BY <2>1, SlotFacts DEF InLoop, Freeing
  <2>3. Unfilled(t) /\ CallInv(t) /\ Resizable(t) /\ Demanded(t)
    BY <2>1 DEF Unfilled, CallInv, Resizable, Demanded
  <2>4. Accounted(t)
    <3>1. \A k \in DOMAIN Contents(t) : Contents(t)[k] = NULL
      BY <2>1 DEF Contents, Cells, Val
    <3>2. Pointed(t) = {}
      BY <2>1 DEF Pointed
    <3> QED
      BY <2>1, <3>1, <3>2 DEF Accounted, Tallies
  <2> QED
    BY <2>2, <2>3, <2>4 DEF ThreadInv
<1> QED
  BY <1>1, <1>4, <1>5, <1>6 DEF WInv

\* The program does nothing.
LEMMA WorkloadStutter ==
  ASSUME WInv, UNCHANGED <<vars, locals, refusals>>
  PROVE  WInv'
<1>1. UNCHANGED <<vars, phase, i, m, c, dropped>>
  BY DEF locals
<1>2. Quiet /\ phase' = phase /\ i' = i
  <2>1. LibcAtMost
    BY <1>1 DEF LibcAtMost
  <2> QED
    BY <1>1, <2>1, LibcQuiet DEF WInv
<1>3. MainInv'
  BY <1>2 DEF WInv, MainInv
<1>4. phase' \in [Threads -> Phases] /\ i' \in [Threads -> Nat]
  BY <1>2 DEF WInv, WTypes
<1>5. PICK S : S = {}
  OBVIOUS
<1> QED
  BY <1>2, <1>3, <1>4, <1>5, QuietRun

-----------------------------------------------------------------------------
\* In every state of the program the heaps are sound and the cells of each
\* thread account for what it owns, whatever sbrk() refuses and whatever the
\* other threads do (main() and run_workload, starter/malloc_firstfit_sll.c).
THEOREM WorkloadSound == WSpec => []WInv
<1>1. WInit => WInv
  BY WorkloadInit
<1>2. WInv /\ [WNext]_<<vars, locals, refusals>> => WInv'
  <2>1. SUFFICES ASSUME WInv, [WNext]_<<vars, locals, refusals>>
                 PROVE  WInv'
    OBVIOUS
  <2>2. CASE Create \/ Join
    BY <2>1, <2>2, CreateStep, JoinStep
  <2>3. CASE \E t \in Threads : Thread(t)
    BY <2>1, <2>3, RunStep
  <2>4. CASE UNCHANGED <<vars, locals, refusals>>
    BY <2>1, <2>4, WorkloadStutter
  <2> QED
    BY <2>1, <2>2, <2>3, <2>4 DEF WNext, MainThread
<1> QED
  BY <1>1, <1>2, PTL DEF WSpec

\* The driver can reach each pointer a thread owns, each in one cell, but those
\* that a failing ff_realloc overwrote (run_workload).
THEOREM PointersKept == WSpec => []PointersAccounted
<1>1. WInv => PointersAccounted
  <2>1. SUFFICES ASSUME WInv, NEW t \in Threads
                 PROVE  /\ Pointed(t) = (Reachable(t) \ {NULL}) \cup dropped[t]
                        /\ dropped[t] \cap Reachable(t) = {}
    BY DEF PointersAccounted, Pointed
  <2>2. PICK O, V, D : O = Pointed(t) /\ V = Contents(t) /\ D = dropped[t]
    OBVIOUS
  <2>3. Tallies(O, V, D)
    BY <2>1, <2>2 DEF WInv, ThreadInv, Accounted
  <2>4. Reachable(t) = {V[k] : k \in DOMAIN V}
    <3>1. DOMAIN V = Cells(t) /\ \A k \in Cells(t) : V[k] = Val(t, k)
      BY <2>2 DEF Contents
    <3>2. ASSUME NEW k \in Cells(t)
          PROVE  V[k] \in Reachable(t)
      <4>1. PICK a \in {"m", "c"}, s \in Slots : k = <<a, s>>
        BY DEF Cells
      <4>2. CASE a = "m"
        <5>1. s \in Slots \ FreedM(t) /\ V[k] = m[t][s]
          BY <3>1, <4>1, <4>2 DEF Cells, Val
        <5> QED
          BY <5>1 DEF Reachable
      <4>3. CASE a = "c"
        <5>1. s \in Slots \ FreedC(t) /\ V[k] = c[t][s]
          BY <3>1, <4>1, <4>3 DEF Cells, Val
        <5> QED
          BY <5>1 DEF Reachable
      <4> QED
        BY <4>2, <4>3
    <3>3. ASSUME NEW s \in Slots \ FreedM(t)
          PROVE  \E k \in Cells(t) : V[k] = m[t][s]
      <4>1. <<"m", s>> \in Cells(t) /\ Val(t, <<"m", s>>) = m[t][s]
        BY DEF Cells, Val
      <4> QED
        BY <3>1, <4>1
    <3>4. ASSUME NEW s \in Slots \ FreedC(t)
          PROVE  \E k \in Cells(t) : V[k] = c[t][s]
      <4>1. <<"c", s>> \in Cells(t) /\ Val(t, <<"c", s>>) = c[t][s]
        BY DEF Cells, Val
      <4> QED
        BY <3>1, <4>1
    <3> QED
      BY <3>1, <3>2, <3>3, <3>4 DEF Reachable
  <2>5. PICK R : R = Reachable(t)
    OBVIOUS
  <2>6. O = (R \ {NULL}) \cup D /\ D \cap R = {}
    BY <2>3, <2>4, <2>5 DEF Tallies
  <2> QED
    BY <2>2, <2>5, <2>6
<1> QED
  BY <1>1, WorkloadSound, PTL

-----------------------------------------------------------------------------
(* The report.                                                             *)

\* A sum of sizes is positive when one of them is.
LEMMA SumPositive ==
  ASSUME NEW h \in Seq(Block), NEW f, Leaks(f, h)
  PROVE  /\ f[DOMAIN h] \in Nat
         /\ f[DOMAIN h] > 0 <=> \E j \in 1..Len(h) : ~h[j].free /\ h[j].size > 0
<1>1. PICK l \in Nat : l = Len(h)
  BY Headers
<1>2. DOMAIN h = 1..l /\ \A j \in 1..l : h[j].size \in Nat
  BY <1>1, Headers
<1>3. \A s \in SUBSET (1..l) :
        f[s] = IF s = {} THEN 0
               ELSE f[s \ {Max(s)}] + IF h[Max(s)].free THEN 0 ELSE h[Max(s)].size
  BY <1>2 DEF Leaks
<1>4. \A k \in Nat : k + 1 <= l =>
         \A s : s = 1..(k + 1) => /\ s \in SUBSET (1..l) /\ s # {}
                                  /\ Max(s) = k + 1 /\ s \ {Max(s)} = 1..k
  BY <1>1, Prefix
<1>5. PICK G : G = {k \in Nat : k <= l =>
                      /\ f[1..k] \in Nat
                      /\ f[1..k] > 0 <=> \E j \in 1..k : ~h[j].free /\ h[j].size > 0}
  OBVIOUS
<1>6. 0 \in G
  <2>1. 1..0 = {} /\ {} \in SUBSET (1..l)
    OBVIOUS
  <2>2. f[1..0] = 0
    BY <1>3, <2>1
  <2> QED
    BY <1>5, <2>1, <2>2
<1>7. ASSUME NEW k \in Nat, k \in G
      PROVE  k + 1 \in G
  <2> SUFFICES ASSUME k + 1 <= l
               PROVE  /\ f[1..(k + 1)] \in Nat
                      /\ f[1..(k + 1)] > 0 <=>
                           \E j \in 1..(k + 1) : ~h[j].free /\ h[j].size > 0
    BY <1>5
  <2>1. PICK x \in Nat : x = f[1..k]
    BY <1>5, <1>7
  <2>2. x > 0 <=> \E j \in 1..k : ~h[j].free /\ h[j].size > 0
    BY <1>5, <1>7, <2>1
  <2>3. PICK y \in Nat : y = IF h[k + 1].free THEN 0 ELSE h[k + 1].size
    BY <1>2
  <2>4. \A s : s = 1..(k + 1) => /\ s \in SUBSET (1..l) /\ s # {}
                                 /\ Max(s) = k + 1 /\ s \ {Max(s)} = 1..k
    BY <1>4
  <2>5. f[1..(k + 1)] = x + y
    <3>1. PICK s : s = 1..(k + 1)
      OBVIOUS
    <3>2. s \in SUBSET (1..l) /\ s # {} /\ Max(s) = k + 1 /\ s \ {Max(s)} = 1..k
      BY <2>4, <3>1
    <3> QED
      BY <1>3, <2>1, <2>3, <3>1, <3>2
  <2>6. y > 0 <=> ~h[k + 1].free /\ h[k + 1].size > 0
    BY <2>3
  <2>7. \A j : j \in 1..(k + 1) <=> j \in 1..k \/ j = k + 1
    OBVIOUS
  <2>8. x + y \in Nat /\ (x + y > 0 <=> x > 0 \/ y > 0)
    OBVIOUS
  <2> QED
    BY <2>2, <2>5, <2>6, <2>7, <2>8
<1>8. Nat \subseteq G
  BY <1>6, <1>7, NatSteps
<1>9. l \in G /\ l <= l
  BY <1>8
<1> QED
  BY <1>1, <1>2, <1>5, <1>9

\* leaked_bytes is positive when the thread owns an allocation.
LEMMA LeakShows ==
  ASSUME SafeHeaps, NEW t \in Threads, Demanded(t)
  PROVE  leaked_bytes(t) > 0 <=> owned[t] # {}
<1>1. PICK h : h = heap[t]
  OBVIOUS
<1>2. h \in Seq(Block) /\ Serves(h, owned[t])
  BY <1>1, SafeParts, TypesOf DEF ThreadSafe
<1>3. PICK f : f = CHOOSE g : Leaks(g, h)
  OBVIOUS
<1>4. Leaks(f, h)
  BY <1>2, <1>3, SumsEnd
<1>5. leaked_bytes(t) = f[DOMAIN h]
  <2>1. leaked_bytes(t) = (CHOOSE g : Leaks(g, h))[DOMAIN h]
    BY <1>1 DEF leaked_bytes, FoldLeft, MapThenFoldSet, Leaks
  <2> QED
    BY <1>3, <2>1
<1>6. leaked_bytes(t) > 0 <=> \E j \in 1..Len(h) : ~h[j].free /\ h[j].size > 0
  BY <1>2, <1>4, <1>5, SumPositive
<1>7. ASSUME NEW r \in owned[t]
      PROVE  \E j \in 1..Len(h) : ~h[j].free /\ h[j].size > 0
  <2>1. PICK j \in 1..Len(h) : ~h[j].free /\ ALIGN8(r.asked) <= h[j].size
    BY <1>2 DEF Serves
  <2>2. PICK x \in Demands : x = r.asked
    BY DEF Demanded
  <2>3. x \in SizeT /\ x \in Nat /\ x > 0 /\ x + (ALIGN - 1) <= UINT_MAX
    BY DemandFacts DEF Fitting
  <2>4. x <= ALIGN8(x) /\ ALIGN8(x) \in Nat
    BY <2>3, Rounded
  <2>5. h[j].size > 0
    <3>1. PICK n \in Nat : n = h[j].size
      BY <1>2, Headers
    <3>2. ALIGN8(x) <= n
      BY <2>1, <2>2, <3>1
    <3>3. n > 0
      BY <2>3, <2>4, <3>2
    <3> QED
      BY <3>1, <3>3
  <2> QED
    BY <2>1, <2>5
<1>8. (\E j \in 1..Len(h) : ~h[j].free) => owned[t] # {}
  BY <1>2 DEF Serves
<1> QED
  BY <1>6, <1>7, <1>8

\* The report of run_workload shows a leak exactly when a growing ff_realloc
\* failed in the same thread (leaked_bytes, starter/malloc_firstfit_sll.c).
THEOREM LeaksReported == WSpec => []LeaksAreFailedReallocs
<1>1. WInv => LeaksAreFailedReallocs
  <2>1. SUFFICES ASSUME WInv, NEW t \in Threads, phase[t] = "report"
                 PROVE  leaked_bytes(t) > 0 <=> dropped[t] # {}
    BY DEF LeaksAreFailedReallocs
  <2>2. SafeHeaps /\ WTypes /\ InLoop(t) /\ Demanded(t) /\ Accounted(t)
    BY <2>1 DEF WInv, ThreadInv
  <2>3. leaked_bytes(t) > 0 <=> owned[t] # {}
    BY <2>2, LeakShows
  <2>4. Cells(t) = {}
    BY <2>1, <2>2, CellFacts
  <2>5. Pointed(t) = dropped[t]
    BY <2>2, <2>4 DEF Accounted, Tallies, Contents
  <2>6. owned[t] # {} <=> Pointed(t) # {}
    BY DEF Pointed
  <2> QED
    BY <2>3, <2>5, <2>6
<1> QED
  BY <1>1, WorkloadSound, PTL

=============================================================================
