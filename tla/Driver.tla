------------------------------- MODULE Driver -------------------------------
(***************************************************************************)
(* starter/wrapper.c: the program that tries the global-heap allocator.    *)
(* main() fills malloc_ptrs and calloc_ptrs, grows every block of the      *)
(* former, frees everything and prints what the diagnostics say.  A step   *)
(* is a step of MyMalloc together with what main() does with its result;   *)
(* any of the calls may fail, for the system may refuse to move the break. *)
(***************************************************************************)
EXTENDS MyMallocDiag

CONSTANTS
  Main,         \* the thread that runs main()
  Pointers,     \* length of the arrays, and bound of the loops, 12 in the code
  MallocSize,   \* per iteration, the size of my_malloc
  CallocArg,    \* per iteration, the arguments of my_calloc
  ReallocSize   \* per iteration, the size of my_realloc

Slots == 0..(Pointers - 1)

ASSUME MainAssumption == Threads = {Main} /\ Reallocators = {Main}

ASSUME LoopsAssumption ==
  /\ Pointers \in Nat \ {0}
  /\ \A s \in Slots : /\ {MallocSize[s], ReallocSize[s]} \subseteq Requests \ {0}
                      /\ CallocArg[s] \in CallocArgs

VARIABLES
  phase,        \* the loop or statement main() is in
  i,            \* the loop counter
  malloc_ptrs,
  calloc_ptrs,
  dropped,      \* auxiliary: pointers that a failing my_realloc overwrote
  report        \* auxiliary: what was printed

arrays == <<malloc_ptrs, calloc_ptrs>>
locals == <<phase, i, arrays, dropped, report>>
dvars  == <<vars, locals>>

DInit ==
  /\ Init
  /\ phase = "malloc"
  /\ i = 0
  /\ malloc_ptrs = [s \in Slots |-> NULL]
  /\ calloc_ptrs = [s \in Slots |-> NULL]
  /\ dropped = {}
  /\ report = [start |-> NULL, end |-> NULL, leaked |-> 0, count |-> 0]

-----------------------------------------------------------------------------
At(ph, n) == phase' = ph /\ i' = n

\* To the next iteration, or to the statement behind the loop.
Loop(again, ph) == IF i + 1 < Pointers THEN At(again, i + 1) ELSE At(ph, 0)

\* What the allocation that returns in this step returns.
Result == IF block[Main] = NULL THEN NULL ELSE payload(block[Main])

StoreMalloc_First == malloc_ptrs' = [malloc_ptrs EXCEPT ![0] = Result]

StoreMalloc == malloc_ptrs' = [malloc_ptrs EXCEPT ![i] = Result]

\* malloc_ptrs[i] = my_realloc(malloc_ptrs[i], ...): a failure stores NULL.
Overwrite ==
  /\ StoreMalloc
  /\ dropped' = IF Result = NULL THEN dropped \cup ({malloc_ptrs[i]} \ {NULL}) ELSE dropped

\* main()'s half of the step in which a call returns.
Continue ==
  \/ phase = "malloc" /\ StoreMalloc /\ Loop("malloc", "calloc")
                      /\ UNCHANGED <<calloc_ptrs, dropped>>
  \/ phase = "calloc" /\ calloc_ptrs' = [calloc_ptrs EXCEPT ![i] = Result]
                      /\ Loop("calloc", "realloc")
                      /\ UNCHANGED <<malloc_ptrs, dropped>>
  \/ phase = "realloc" /\ Overwrite /\ Loop("realloc", "free malloc")
                       /\ UNCHANGED calloc_ptrs
  \/ phase = "free malloc" /\ At("free calloc", i) /\ UNCHANGED <<arrays, dropped>>
  \/ phase = "free calloc" /\ Loop("free malloc", "report")
                           /\ UNCHANGED <<arrays, dropped>>

\* A step inside a call.
InCall ==
  /\ Work(Main)
  /\ IF pc'[Main] = "idle" THEN Continue ELSE UNCHANGED <<phase, i, arrays, dropped>>
  /\ UNCHANGED report

Malloc ==
  /\ phase = "malloc"
  /\ CallMalloc(Main)
  /\ sz'[Main] = MallocSize[i]
  /\ UNCHANGED locals

Calloc ==
  /\ phase = "calloc"
  /\ CallCalloc(Main)
  /\ sz'[Main] = CallocArg[i][1] * CallocArg[i][2]
  /\ UNCHANGED locals

Realloc ==
  /\ phase = "realloc"
  /\ CallRealloc(Main)
  /\ sz'[Main] = ReallocSize[i]
  /\ ptr'[Main] = malloc_ptrs[i]
  /\ UNCHANGED locals

\* my_free(p); my_free(NULL) returns at once.
FreeOrSkip(p) ==
  IF p = NULL THEN pc[Main] = "idle" /\ UNCHANGED vars /\ Continue
  ELSE CallFree(Main) /\ ptr'[Main] = p /\ UNCHANGED <<phase, i, arrays, dropped>>

FreeMalloc ==
  /\ phase = "free malloc"
  /\ FreeOrSkip(malloc_ptrs[i])
  /\ UNCHANGED report

FreeCalloc_Mallocs ==
  /\ phase = "free calloc"
  /\ FreeOrSkip(malloc_ptrs[i])
  /\ UNCHANGED report

FreeCalloc ==
  /\ phase = "free calloc"
  /\ FreeOrSkip(calloc_ptrs[i])
  /\ UNCHANGED report

\* The first printf() makes libc allocate a buffer, from the same break,
\* before allocator_heap_end() reads it.
PrintStart ==
  /\ phase = "report"
  /\ report' = [report EXCEPT !.start = heap_start]
  /\ LibcSbrk \/ UNCHANGED vars
  /\ At("end", 0)
  /\ UNCHANGED <<arrays, dropped>>

PrintRest ==
  /\ phase = "end"
  /\ report' = [report EXCEPT !.end = brk, !.leaked = allocator_leaked_bytes,
                              !.count = allocator_block_count]
  /\ At("returned", 0)
  /\ UNCHANGED <<vars, arrays, dropped>>

DNext ==
  /\ Running
  /\ \/ InCall
     \/ Malloc \/ Calloc \/ Realloc
     \/ FreeMalloc \/ FreeCalloc
     \/ PrintStart \/ PrintRest

DSpec == DInit /\ [][DNext]_dvars

\* The only thread is run.
FairDSpec == DSpec /\ WF_dvars(DNext)

-----------------------------------------------------------------------------
\* The slots the loop of phase 4 has passed, in malloc_ptrs and calloc_ptrs.
Passed(own) ==
  CASE phase = "free malloc" -> 0..(i - 1)
    [] phase = "free calloc" -> 0..(IF own = "malloc" THEN i ELSE i - 1)
    [] phase \in {"report", "end", "returned"} -> Slots
    [] OTHER -> {}

Kept == {malloc_ptrs[s] : s \in Slots \ Passed("malloc")}
        \cup {calloc_ptrs[s] : s \in Slots \ Passed("calloc")}

(* Between two calls main() can reach every pointer it owns in one of its  *)
(* arrays, and frees it once, except those a failing my_realloc overwrote; *)
(* the NULLs of the calls that failed do no harm (wrapper.c:39-43).        *)
PointersAccounted ==
  pc[Main] = "idle" => /\ owned = (Kept \ {NULL}) \cup dropped
                       /\ dropped \cap Kept = {}

(* wrapper.c:90: "After all frees, leaked_bytes() should report 0".        *)
NoLeakPrinted == phase = "returned" => report.leaked = 0

(* What main() prints instead: a leak when a my_realloc failed, and only   *)
(* then; no other call that fails costs memory.                            *)
LeakReportedIffDropped ==
  phase = "returned" => (report.leaked > 0 <=> dropped # {})

(* When nothing was dropped the list has collapsed to a single block that  *)
(* covers the heap (wrapper.c:91-93 and 108), whatever calls failed.  The  *)
(* two addresses printed span more than it by what libc took: the break is *)
(* not "the end of the managed heap region" (malloc.c:344).                *)
HeapCollapsed ==
  phase = "returned" /\ dropped = {} /\ report.start # NULL =>
    /\ report.count = 1
    /\ report.end - report.start = BlockEnd(report.start) - report.start + Cardinality(libc)

(* main() returns, whatever the system refuses.                            *)
MainReturns == <>(phase = "returned")

=============================================================================
