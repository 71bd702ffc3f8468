---------------------------- MODULE MyMallocDiag ----------------------------
(***************************************************************************)
(* The diagnostic helpers of starter/malloc.c, which starter/wrapper.c     *)
(* prints at its end.  They take no lock: what they return is meaningful   *)
(* only while no call is in progress.                                      *)
(***************************************************************************)
EXTENDS MyMallocProps, FiniteSetsExt

Quiescent == \A t \in Threads : pc[t] = "idle"

allocator_leaked_bytes_All ==
  LET leaked[b \in blocks \cup {NULL}] ==
        IF b = NULL THEN 0 ELSE leaked[next[b]] + size[b]
  IN  leaked[global_base]

allocator_leaked_bytes ==
  LET leaked[b \in blocks \cup {NULL}] ==
        IF b = NULL THEN 0
        ELSE leaked[next[b]] + IF free[b] THEN 0 ELSE size[b]
  IN  leaked[global_base]

allocator_block_count ==
  LET count[b \in blocks \cup {NULL}] ==
        IF b = NULL THEN 0 ELSE 1 + count[next[b]]
  IN  count[global_base]

(* allocator_leaked_bytes is what the client still owns and                *)
(* allocator_block_count misses no block.                                  *)
DiagnosticsExact ==
  Quiescent =>
    /\ allocator_leaked_bytes = MapThenSumSet(LAMBDA b : size[b], ClientBlocks)
    /\ allocator_block_count = Cardinality(blocks)

=============================================================================
