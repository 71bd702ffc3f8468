---------------------------- MODULE MCThreadHeap ----------------------------
(* Values of the constants of ThreadHeap for TLC. *)
EXTENDS ThreadHeapInv

CONSTANTS t1, t2

OneThread == {t1}
TwoThreads == {t1, t2}
Interchangeable == Permutations(Threads)

NoCallocs == {}

\* One for each early return of ff_calloc, and one that allocates.
SomeCallocs == {<<0, 2>>, <<2, 0>>, <<2, 2>>, <<40, 4>>}

=============================================================================
