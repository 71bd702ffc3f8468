----------------------------- MODULE MCTutorial -----------------------------
(* Values of the constants of Tutorial for TLC. *)
EXTENDS TutorialInv

CONSTANTS t1, t2

OneThread == {t1}
TwoThreads == {t1, t2}

\* One for each early return, one that fits, one whose product wraps to 4.
SomeCallocs == {<<0, 2>>, <<1, 1>>, <<5, 4>>}
NoCallocs == {}

=============================================================================
