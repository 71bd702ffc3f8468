----------------------------- MODULE MCMyMalloc -----------------------------
(* Values of the constants of MyMalloc for TLC. *)
EXTENDS MyMallocDiag

CONSTANTS t1, t2

OneThread == {t1}
TwoThreads == {t1, t2}

NoCallocs == {}

=============================================================================
