------------------------------ MODULE MCDriver ------------------------------
(* Values of the constants of Driver for TLC: the sizes of main() divided  *)
(* by 8, for four iterations of each loop and not 12.                      *)
EXTENDS Driver

CONSTANT t1

OneThread == {t1}

MallocSizes  == [s \in 0..3 |-> 3 + s]
CallocPairs  == [s \in 0..3 |-> <<1, (s + 2) \div 2>>]
ReallocSizes == [s \in 0..3 |-> 8 + 2 * s]

AllSizes == {MallocSizes[s] : s \in 0..3} \cup {ReallocSizes[s] : s \in 0..3}
AllPairs == {CallocPairs[s] : s \in 0..3}

=============================================================================
