---------------------------- MODULE WorkloadInv -----------------------------
(***************************************************************************)
(* The inductive invariant of Workload: how the cells of the two arrays of *)
(* a run_workload account for what its thread owns, at every step of every *)
(* call and in every interleaving with the other threads.                  *)
(***************************************************************************)
EXTENDS Workload, ThreadHeapInv

Calling == {"malloc", "calloc", "realloc"}

Freeing == {"free m", "free c"}

Phases == Calling \cup Freeing \cup {"new", "report", "create", "join", "exit"}

WTypes ==
  /\ phase \in [Threads -> Phases]
  /\ i \in [Threads -> Nat]
  /\ m \in [Threads -> [Slots -> Nat]]
  /\ c \in [Threads -> [Slots -> Nat]]
  /\ dropped \in [Threads -> SUBSET Nat]

-----------------------------------------------------------------------------
(* The cells of one thread.                                                *)

\* A cell of one of the arrays, and what is in it.
Val(t, k) == IF k[1] = "m" THEN m[t][k[2]] ELSE c[t][k[2]]

\* The cells whose content the thread has still to free.
Cells(t) ==
  {k \in {"m", "c"} \X Slots : k[2] \notin IF k[1] = "m" THEN FreedM(t) ELSE FreedC(t)}

Contents(t) == [k \in Cells(t) |-> Val(t, k)]

\* The cell the loop is at.
Here(t) == <<IF phase[t] \in {"calloc", "free c"} THEN "c" ELSE "m", i[t]>>

\* What the loop asks for.
Demand(t) ==
  CASE phase[t] = "malloc"  -> MallocSize[policy][t][i[t]]
    [] phase[t] = "calloc"  -> CallocSize[policy][i[t]]
    [] phase[t] = "realloc" -> ReallocSize[policy][t][i[t]]

\* The pointers in O are those in the cells of V, in one cell each, and those
\* in D, which are in none.
Tallies(O, V, D) ==
  /\ O = ({V[k] : k \in DOMAIN V} \ {NULL}) \cup D
  /\ NULL \notin D
  /\ \A k \in DOMAIN V : V[k] \notin D
  /\ \A k, j \in DOMAIN V : V[k] = V[j] /\ V[k] # NULL => k = j

\* The pointers of t.
Pointed(t) == {r.ptr : r \in owned[t]}

-----------------------------------------------------------------------------
(* One thread.                                                             *)

InLoop(t) ==
  /\ phase[t] = "new" => i[t] = 0
  /\ phase[t] = "malloc" => i[t] < Mallocs
  /\ phase[t] = "calloc" => i[t] < Callocs
  /\ phase[t] \in {"realloc"} \cup Freeing => i[t] < Pointers

\* What the first two loops have not reached is NULL.
Unfilled(t) ==
  \A s \in Slots :
    /\ phase[t] \in {"new", "malloc"} => c[t][s] = NULL /\ (i[t] <= s => m[t][s] = NULL)
    /\ phase[t] = "calloc" /\ i[t] <= s => c[t][s] = NULL

\* A call in progress is the one of the current cell.
CallInv(t) ==
  pc[t] # "idle" =>
    phase[t] \in Calling /\ call[t].asked = Demand(t) /\ call[t].ptr = Val(t, Here(t))

\* A pointer that ff_realloc has still to get has another size than it asks for.
Resizable(t) ==
  \A s \in Slots :
    phase[t] \in {"malloc", "calloc"} \/ (phase[t] = "realloc" /\ i[t] <= s)
      => \A r \in owned[t] : r.ptr = m[t][s] => r.asked # ReallocSize[policy][t][s]

Demanded(t) == \A r \in owned[t] : r.asked \in Demands

Accounted(t) == Tallies(Pointed(t), Contents(t), dropped[t])

ThreadInv(t) ==
  InLoop(t) /\ Unfilled(t) /\ CallInv(t) /\ Resizable(t) /\ Demanded(t) /\ Accounted(t)

-----------------------------------------------------------------------------
\* A worker does nothing before main() creates it.
MainInv ==
  /\ phase[Main] # "new"
  /\ phase[Main] \in Calling \cup Freeing \cup {"report"} =>
       \A j \in 1..Len(Workers) : phase[Workers[j]] = "new"
  /\ phase[Main] = "create" =>
       /\ i[Main] \in 1..Len(Workers)
       /\ \A j \in i[Main]..Len(Workers) : phase[Workers[j]] = "new"

WInv == SafeHeaps /\ WTypes /\ MainInv /\ \A t \in Threads : ThreadInv(t)

=============================================================================
