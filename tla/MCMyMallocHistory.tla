------------------------- MODULE MCMyMallocHistory --------------------------
(* Values of the constants of MyMallocHistory for TLC. *)
EXTENDS MyMallocHistory

CONSTANTS t1, t2

TwoThreads == {t1, t2}

\* One for the early return, one that fits, one that overflows.
SomeCallocs == {<<0, 2>>, <<2, 2>>, <<9, 8>>}

=============================================================================
