------------------------------ MODULE DriverInv -----------------------------
(***************************************************************************)
(* The inductive invariant of Driver: how the cells of main()'s two arrays *)
(* account for the pointers it owns at every step of every call, and what  *)
(* of the heap its diagnostics read.                                       *)
(***************************************************************************)
EXTENDS Driver, MyMallocInv

Calling == {"malloc", "calloc", "realloc", "free malloc", "free calloc"}

Phases == Calling \cup {"report", "end", "returned"}

DTypeOK ==
  /\ phase \in Phases
  /\ i \in Slots
  /\ malloc_ptrs \in [Slots -> Nat]
  /\ calloc_ptrs \in [Slots -> Nat]

\* A cell of one of the arrays, and what is in it.
Val(c) == IF c[1] = "malloc" THEN malloc_ptrs[c[2]] ELSE calloc_ptrs[c[2]]

\* The cells main() has not passed yet when it frees.
Cells == {c \in {"malloc", "calloc"} \X Slots : c[2] \notin Passed(c[1])}

\* The cell the loop is at.
Here(ph, n) == IF ph \in {"calloc", "free calloc"} THEN <<"calloc", n>> ELSE <<"malloc", n>>

Current == Here(phase, i)

\* What the first two loops have not reached is NULL.
Unfilled ==
  /\ phase = "malloc" => \A s \in Slots : /\ i <= s => malloc_ptrs[s] = NULL
                                          /\ calloc_ptrs[s] = NULL
  /\ phase = "calloc" => \A s \in Slots : i <= s => calloc_ptrs[s] = NULL

\* A call in progress has the current cell for its argument.
CallInv ==
  pc[Main] # "idle" =>
    /\ phase \in Calling
    /\ ptr[Main] = Val(Current)
    /\ phase \in {"malloc", "calloc"} => op[Main] = "malloc"
    /\ phase = "realloc" => op[Main] \in {"malloc", "realloc", "resize"}
    /\ phase \in {"free malloc", "free calloc"} => op[Main] = "free"

\* What the client owns is in one cell, or dropped; what a call has taken is
\* not the client's meanwhile.
Accounted ==
  /\ owned = ({Val(c) : c \in Cells} \ (IF pc[Main] = "idle" THEN {NULL} ELSE {NULL, Val(Current)}))
             \cup dropped
  /\ NULL \notin dropped
  /\ \A c \in Cells : Val(c) \notin dropped
  /\ \A c, d \in Cells : Val(c) = Val(d) /\ Val(c) # NULL => c = d

ArraysInv == DTypeOK /\ Unfilled /\ CallInv /\ Accounted

-----------------------------------------------------------------------------
\* libc takes no memory before main() prints.
HeapInv ==
  /\ heap_start = global_base
  /\ phase \notin {"end", "returned"} => libc = {}

\* A heap from which everything was freed is one block, up to what libc took.
EndInv ==
  phase \in {"end", "returned"} =>
    /\ report.start = global_base
    /\ dropped = {} /\ blocks # {} => /\ blocks = {global_base}
                                      /\ brk = BlockEnd(global_base) + Cardinality(libc)

ReportInv ==
  /\ report \in [start : Nat, end : Nat, leaked : Nat, count : Nat]
  /\ phase = "returned" => /\ report.end = brk
                           /\ report.leaked > 0 <=> dropped # {}
                           /\ report.count = Cardinality(blocks)

DriverInv == ArraysInv /\ SizesInv /\ HeapInv /\ EndInv /\ ReportInv

=============================================================================
