-------------------------- MODULE MyMallocHistory ---------------------------
(***************************************************************************)
(* What MyMalloc promises until my_realloc's split without alloc_lock has  *)
(* met a critical section, and until it has met the one that can break the *)
(* list.  Two history variables remember whether it has; they restrict     *)
(* nothing.                                                                *)
(***************************************************************************)
EXTENDS MyMallocInv, MyMallocDiag

VARIABLES
  raced,     \* a split without the lock has met a critical section
  collided   \* one of the last block has met an append behind that block

hvars == <<vars, raced, collided>>

\* my_realloc is between reading block->next and linking its new header
\* while a call that changes the list holds alloc_lock.
Overlap ==
  /\ alloc_lock # NoThread
  /\ \E t \in Threads : pc[t] = "relink" /\ op[t] = "resize"

\* find_free_block has found b to be the last block, and my_malloc has not
\* linked the one it appends behind b yet.
AppendsBehind(t, b) ==
  last[t] = b /\ (pc[t] \in {"brk", "extend"} \/ (pc[t] = "find" /\ cur[t] = NULL))

\* my_realloc is at that point in the split of the very block another call
\* is going to append behind: both write its next, whoever is second wins.
Collision ==
  \E t, u \in Threads : pc[t] = "relink" /\ op[t] = "resize" /\ AppendsBehind(u, block[t])

HInit == Init /\ raced = FALSE /\ collided = FALSE

HNext ==
  /\ Next
  /\ raced' = (raced \/ Overlap')
  /\ collided' = (collided \/ Collision')

HSpec == HInit /\ [][HNext]_hvars

HFairSpec == HSpec /\ \A t \in Threads : WF_vars(Running /\ Work(t))

-----------------------------------------------------------------------------
(* The list visits every block, in address order, unless a split without   *)
(* the lock has met an append behind the block it splits.  Everything else *)
(* such a split can meet leaves the list whole: a walk that passes its     *)
(* block, a claim, a merge, an append behind another block, a second split *)
(* (split_block in my_realloc against find_free_block, request_space and   *)
(* coalesce_all).                                                          *)
ListKept == collided \/ ListThreadsBlocks

(* Until then, a heap in which everything was freed is one free block per  *)
(* region, whatever splits the walks of coalesce_all have missed: the walk *)
(* of the last my_free meets none.                                         *)
HeapCollapses == collided \/ DrainedHeapCollapses

(* Until then, the diagnostics are exact between calls.                    *)
DiagnosticsKept == collided \/ DiagnosticsExact

(* First fit: a block is taken only when no block before it fits, and the  *)
(* heap grows only when no block at all fits (find_free_block), until a    *)
(* split without the lock has put a remainder behind a search's back.      *)
SearchesInOrder ==
  [][raced' \/ \A t \in Threads :
       /\ pc[t] = "find" /\ pc'[t] = "split" =>
            \A b \in blocks : b < block'[t] => ~Fits(b, sz[t])
       /\ pc[t] = "extend" /\ pc'[t] = "m_unlock" =>
            \A b \in blocks : ~Fits(b, sz[t])]_hvars

(* The single pass of coalesce_all leaves nothing to merge, chains of      *)
(* remainders that my_realloc left included, with the same exception.      *)
FreesMerge == raced \/ FreeLeavesNothingToMerge

-----------------------------------------------------------------------------
(* Why: what SafeInv adds up to when nothing collides, and when nothing    *)
(* overlaps.  The cursors divide the list into what a walk has seen and    *)
(* what it has not.                                                        *)

Serialised == Reallocators = {} \/ \E t : Threads = {t}

\* What t appends to is the end of the list.
AppendOK(t) == \A b \in blocks : AppendsBehind(t, b) => next[b] = NULL

\* What split_block read of next is still so when it links its new header.
RelinkOK(t) == pc[t] = "relink" => next[NewAt(t)] = next[block[t]]

\* No block t has passed fits.
SearchOK(t) ==
  /\ pc[t] = "find" => \A b \in blocks : cur[t] = NULL \/ b < cur[t] => ~Fits(b, sz[t])
  /\ pc[t] \in {"brk", "extend"} => \A b \in blocks : ~Fits(b, sz[t])

\* No block t has passed can be merged with the one behind it.
CoalesceOK(t) ==
  /\ pc[t] = "coalesce" =>
       \A b \in blocks : cur[t] = NULL \/ b < cur[t] => b \notin Unmerged
  /\ pc[t] = "f_unlock" => Unmerged = {}

\* Once nothing is in use the last my_free merges everything, undisturbed.
DrainedOK ==
  InUse = {} =>
    /\ \A t \in Threads : CoalesceOK(t)
    /\ (\A t \in Threads : pc[t] # "coalesce") => Unmerged = {}

ListInv ==
  /\ ListThreadsBlocks
  /\ DrainedOK
  /\ \A t \in Threads : AppendOK(t) /\ RelinkOK(t)

WalksInv == \A t \in Threads : SearchOK(t) /\ CoalesceOK(t)

SerialInv == ListInv /\ WalksInv

(* The inductive invariant: SafeInv, until the collision ListInv, and      *)
(* until the first overlap WalksInv.                                       *)
HistoryInv ==
  /\ SafeInv
  /\ NoByteLost
  /\ collided \/ (ListInv /\ ~Collision)
  /\ raced \/ (WalksInv /\ ~Overlap)
  /\ collided => raced

=============================================================================
