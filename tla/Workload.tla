------------------------------ MODULE Workload ------------------------------
(***************************************************************************)
(* The program around the per-thread allocators: main() of                 *)
(* starter/malloc_firstfit_sll.c runs run_workload, prints its report,     *)
(* starts the workers, each of which runs run_workload on a heap of its    *)
(* own and prints a report, and joins them.  The main() of the best-fit    *)
(* and worst-fit files differs in the sizes alone, which are parameters    *)
(* for each policy.                                                        *)
(* A step of a thread is a step of ThreadHeap together with what the       *)
(* driver does with the result.                                            *)
(***************************************************************************)
EXTENDS ThreadHeapProps

CONSTANTS
  Main,           \* the thread that runs main()
  Workers,        \* the sequence of the threads it creates
  Pointers,       \* length of the arrays m and c, 1000 in the code
  Mallocs,        \* iterations of the first loop, 10
  Callocs,        \* iterations of the second, 100
  MallocSize,     \* per file, thread and iteration, the size of ff_malloc
  CallocSize,     \* per file and iteration, the product ff_calloc forms
  ReallocSize,    \* per file, thread and iteration, the size of ff_realloc
  MaxRefusals     \* bound: how often sbrk() fails in a run

\* The slots of the arrays.
Slots == 0..(Pointers - 1)

\* Sizes that ALIGN8 rounds up.
Demands == 1..(UINT_MAX + 1 - ALIGN)

\* main() creates the other threads, each of them once.
ASSUME WorkersAssumption ==
  /\ Main \in Threads
  /\ Workers \in Seq(Threads \ {Main}) /\ Workers # <<>>
  /\ Threads = {Main} \cup Range(Workers)
  /\ IsInjective(Workers)

ASSUME LoopsAssumption ==
  Pointers \in Nat /\ Mallocs \in 1..Pointers /\ Callocs \in 1..Pointers

\* No size is 0, and no ff_realloc asks for the size its argument has.
ASSUME DemandsAssumption ==
  \A p \in Policies, t \in Threads :
    /\ \A s \in 0..(Mallocs - 1) : /\ MallocSize[p][t][s] \in Demands
                                   /\ MallocSize[p][t][s] # ReallocSize[p][t][s]
    /\ \A s \in 0..(Callocs - 1) : CallocSize[p][s] \in Demands
    /\ \A s \in Slots : ReallocSize[p][t][s] \in Demands

VARIABLES
  phase,     \* the loop or statement each thread is in
  i,         \* its loop counter
  m,         \* its array m
  c,         \* its array c
  dropped,   \* auxiliary: pointers that a failing ff_realloc overwrote
  refusals   \* auxiliary: how often sbrk() failed

locals == <<phase, i, m, c, dropped>>

WInit ==
  /\ Init
  /\ phase = [t \in Threads |-> IF t = Main THEN "malloc" ELSE "new"]
  /\ i = [t \in Threads |-> 0]
  /\ m = [t \in Threads |-> [s \in Slots |-> NULL]]
  /\ c = [t \in Threads |-> [s \in Slots |-> NULL]]
  /\ dropped = [t \in Threads |-> {}]
  /\ refusals = 0

-----------------------------------------------------------------------------
At(t, ph, n) ==
  /\ phase' = [phase EXCEPT ![t] = ph]
  /\ i' = [i EXCEPT ![t] = n]

\* To the next iteration of a loop of n, or to the statement behind it.
Loop(t, n, ph) == IF i[t] + 1 < n THEN At(t, phase[t], i[t] + 1) ELSE At(t, ph, 0)

\* What the call that returns in this step returns: a success shows in owned,
\* by DemandsAssumption that of a ff_realloc in place too.
Result(t) ==
  LET new == owned'[t] \ owned[t]
  IN  IF new = {} THEN NULL ELSE (CHOOSE r \in new : TRUE).ptr

StoreM(t) == m' = [m EXCEPT ![t][i[t]] = Result(t)]

\* The pointer ff_realloc was given is lost when NULL is stored over it.
Overwrite(t) ==
  dropped' = [dropped EXCEPT ![t] =
                IF Result(t) = NULL THEN @ \cup ({m[t][i[t]]} \ {NULL}) ELSE @]

\* The driver's half of a step in which an allocation returns.
StoreResult(t) ==
  \/ /\ phase[t] = "malloc"
     /\ StoreM(t)
     /\ Loop(t, Mallocs, "calloc")
     /\ UNCHANGED <<c, dropped>>
  \/ /\ phase[t] = "calloc"
     /\ c' = [c EXCEPT ![t][i[t]] = Result(t)]
     /\ Loop(t, Callocs, "realloc")
     /\ UNCHANGED <<m, dropped>>
  \/ /\ phase[t] = "realloc"
     /\ StoreM(t)
     /\ Overwrite(t)
     /\ Loop(t, Pointers, "free m")
     /\ UNCHANGED c

Then(t) == IF pc'[t] = "idle" THEN StoreResult(t) ELSE UNCHANGED locals

\* run_workload calls the allocator.
Allocation(t) ==
  /\ \/ phase[t] = "malloc" /\ ff_malloc(t, MallocSize[policy][t][i[t]])
     \/ phase[t] = "calloc" /\ ff_calloc(t, 1, CallocSize[policy][i[t]])
     \/ phase[t] = "realloc" /\ ff_realloc(t, m[t][i[t]], ReallocSize[policy][t][i[t]])
  /\ Then(t)
  /\ UNCHANGED refusals

\* request_space, below one of these calls.
Waiting(t) ==
  /\ Work(t)
  /\ Then(t)
  /\ refusals' = refusals + (IF pc[t] = "extend" /\ brk' = brk THEN 1 ELSE 0)
  /\ refusals' <= MaxRefusals

FreeOrSkip(t, p) == IF p = NULL THEN UNCHANGED vars ELSE ff_free(t, p)

FreeM(t) ==
  /\ phase[t] = "free m"
  /\ FreeOrSkip(t, m[t][i[t]])
  /\ At(t, "free c", i[t])
  /\ UNCHANGED <<m, c, dropped, refusals>>

FreeC_Mallocs(t) ==
  /\ phase[t] = "free c"
  /\ FreeOrSkip(t, c[t][i[t]])
  /\ IF i[t] + 1 < Mallocs THEN At(t, "free m", i[t] + 1) ELSE At(t, "report", 0)
  /\ UNCHANGED <<m, c, dropped, refusals>>

FreeC(t) ==
  /\ phase[t] = "free c"
  /\ FreeOrSkip(t, c[t][i[t]])
  /\ IF i[t] + 1 < Pointers THEN At(t, "free m", i[t] + 1) ELSE At(t, "report", 0)
  /\ UNCHANGED <<m, c, dropped, refusals>>

\* What main() needs of libc, a buffer for printf() and a descriptor for each
\* pthread_create(), is small: libc moves the break once, when it is first asked,
\* and has room for the rest, so also for the second pthread_create().
LibcGrows == libc = {} /\ LibcSbrk

\* printf()
Report(t) ==
  /\ phase[t] = "report"
  /\ UNCHANGED vars \/ (t = Main /\ LibcGrows)
  /\ At(t, IF t = Main THEN "create" ELSE "exit", 1)
  /\ UNCHANGED <<m, c, dropped, refusals>>

\* pthread_create()
Create ==
  /\ phase[Main] = "create"
  /\ phase' = [phase EXCEPT ![Main] = IF i[Main] = Len(Workers) THEN "join" ELSE @,
                            ![Workers[i[Main]]] = "malloc"]
  /\ i' = [i EXCEPT ![Main] = IF @ = Len(Workers) THEN 1 ELSE @ + 1]
  /\ UNCHANGED vars \/ (i[Main] = 1 /\ LibcGrows)
  /\ UNCHANGED <<m, c, dropped, refusals>>

Join ==
  /\ phase[Main] = "join"
  /\ phase[Workers[i[Main]]] = "exit"
  /\ IF i[Main] = Len(Workers) THEN At(Main, "exit", 1) ELSE At(Main, "join", i[Main] + 1)
  /\ UNCHANGED <<vars, m, c, dropped, refusals>>

Thread(t) == Allocation(t) \/ Waiting(t) \/ FreeM(t) \/ FreeC(t) \/ Report(t)

MainThread == Create \/ Join

WNext == Running /\ (MainThread \/ \E t \in Threads : Thread(t))

WSpec == WInit /\ [][WNext]_<<vars, locals, refusals>>

\* The scheduler runs every thread that can run.
FairWSpec ==
  /\ WSpec
  /\ WF_<<vars, locals, refusals>>(Running /\ MainThread)
  /\ \A t \in Threads : WF_<<vars, locals, refusals>>(Running /\ Thread(t))

-----------------------------------------------------------------------------
\* The slots of m, and of c, that the last loop has passed.
FreedM(t) ==
  CASE phase[t] = "free m" -> 0..(i[t] - 1)
    [] phase[t] = "free c" -> 0..i[t]
    [] phase[t] \in {"report", "create", "join", "exit"} -> Slots
    [] OTHER -> {}

FreedC(t) == IF phase[t] = "free c" THEN FreedM(t) \ {i[t]} ELSE FreedM(t)

Reachable(t) == {m[t][s] : s \in Slots \ FreedM(t)} \cup {c[t][s] : s \in Slots \ FreedC(t)}

(* The driver can reach each pointer it owns in m or c, except those that  *)
(* a failing ff_realloc overwrote, and it frees each of them once          *)
(* (run_workload: "freed everything" holds whatever sbrk() refuses).       *)
PointersAccounted ==
  \A t \in Threads : pc[t] = "idle" =>
    /\ {r.ptr : r \in owned[t]} = (Reachable(t) \ {NULL}) \cup dropped[t]
    /\ dropped[t] \cap Reachable(t) = {}

(* The report of a thread shows a leak exactly when a growing ff_realloc   *)
(* failed in it: what other threads do to the break cannot cause one.      *)
LeaksAreFailedReallocs ==
  \A t \in Threads : phase[t] = "report" => (leaked_bytes(t) > 0 <=> dropped[t] # {})

(* malloc_firstfit_sll.c:332: "leaked_bytes() should return 0 afterward".  *)
ReportsNoLeak == \A t \in Threads : phase[t] = "report" => leaked_bytes(t) = 0

(* main() joins its workers: sbrk_lock is given back on every path and     *)
(* each wait for it ends.                                                  *)
MainReturns == <>(phase[Main] = "exit")

=============================================================================
