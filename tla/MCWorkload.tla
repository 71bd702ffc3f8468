----------------------------- MODULE MCWorkload -----------------------------
(* Values of the constants of Workload for TLC: the loops of run_workload  *)
(* and its sizes, scaled down to Pointers = 2.                             *)
EXTENDS WorkloadInv

CONSTANTS t0, t1, t2

AllThreads == {t0, t1, t2}
BothWorkers == <<t1, t2>>

None == {}

Seed == [t \in AllThreads |-> CASE t = t0 -> 0 [] t = t1 -> 1 [] t = t2 -> 2]

\* The first block is grown later on; a slot of m that is still NULL makes
\* ff_realloc an ff_malloc.  The three files differ in where they start and
\* in how fast the sizes grow.
MallocSizes ==
  [p \in {"first", "best", "worst"} |->
    [t \in AllThreads |-> [s \in {0} |-> (IF p = "worst" THEN 2 ELSE 1) + Seed[t]]]]

CallocSizes ==
  [p \in {"first", "best", "worst"} |->
    [s \in {0} |-> CASE p = "first" -> 3 [] p = "best" -> 1 [] p = "worst" -> 2]]

ReallocSizes ==
  [p \in {"first", "best", "worst"} |->
    [t \in AllThreads |->
      [s \in {0, 1} |-> CASE p = "first" -> 5 + Seed[t] + 2 * s
                          [] p = "best"  -> 3 + Seed[t] + 2 * s
                          [] p = "worst" -> 3 + Seed[t] + 3 * s]]]

=============================================================================
