---------------------------- MODULE TutorialProps ---------------------------
(***************************************************************************)
(* What the tutorial allocator promises: to a program with one thread, and   *)
(* what is left of it when several threads call at once.                   *)
(***************************************************************************)
EXTENDS Tutorial

TypeOK ==
  /\ variant \in Variants
  /\ callers \in Callers
  /\ brk \in Addr
  /\ global_base \in Addr \cup {NULL}
  /\ blocks \subseteq Addr
  /\ size \in [Addr -> SizeT]
  /\ next \in [Addr -> Addr \cup {NULL}]
  /\ free \in [Addr -> BOOLEAN]
  /\ magic \in [Addr -> {"zero", "fresh", "reused", "freed"}]
  /\ raw \subseteq [ptr : Addr, len : SizeT]
  /\ owned \in [Threads -> SUBSET {payload(b) : b \in Addr}]
  /\ pc \in [Threads -> PCs]
  /\ op \in [Threads -> {"none", "malloc", "nofree", "realloc", "free"}]
  /\ sz \in [Threads -> SizeT]
  /\ len \in [Threads -> Nat]
  /\ ptr \in [Threads -> Nat]
  /\ cur \in [Threads -> Addr \cup {NULL}]
  /\ last \in [Threads -> Addr \cup {NULL}]
  /\ block \in [Threads -> Addr \cup {NULL}]

-----------------------------------------------------------------------------
(* Any callers.                                                            *)

BlockEnd(b) == b + META_SIZE + size[b]

(* Blocks, and what nofree_malloc gave away, overlap nothing and stay      *)
(* below the break, however many threads run request_space at once: its    *)
(* assertion stops every one whose sbrk(0) is out of date.                 *)
BlocksDisjoint ==
  /\ \A b, c \in blocks : b < c => BlockEnd(b) <= c
  /\ \A b \in blocks : BlockEnd(b) <= brk
  /\ \A b \in blocks, r \in raw : BlockEnd(b) <= r.ptr \/ r.ptr + r.len <= b
  /\ \A r, q \in raw : r = q \/ r.ptr + r.len <= q.ptr \/ q.ptr + q.len <= r.ptr
  /\ \A r \in raw : r.ptr + r.len <= brk

(* Two threads can be given the same block only if it was freed and found  *)
(* again by both before either claimed it: what request_space makes, which *)
(* its magic tells, has one owner (find_free_block, malloc).               *)
SharedOnlyAfterReuse ==
  \A b \in blocks : magic[b] = "fresh" =>
    \A t, u \in Threads : payload(b) \in owned[t] \cap owned[u] => t = u

(* What malloc is about to return is as large as its caller means, and     *)
(* realloc copies no more than that.  Excepted is calloc of src/malloc.c   *)
(* when the product does not fit in a size_t.                              *)
GrantsCover ==
  \A t \in Threads :
    pc[t] = "return" /\ block[t] # NULL /\ op[t] # "nofree" =>
      /\ len[t] <= size[block[t]] \/ (variant = "preloaded" /\ len[t] > SIZE_MAX)
      /\ op[t] = "realloc" => size[get_block_ptr(ptr[t])] <= size[block[t]]

(* find_free_block only ever moves up in memory, whatever two appends at   *)
(* once make of the list: it cannot go round in circles.                   *)
WalksAscend ==
  [][\A t \in Threads :
       pc[t] = "step" /\ pc'[t] # "step" => cur'[t] = NULL \/ cur[t] < cur'[t]]_vars

-----------------------------------------------------------------------------
(* One thread calls.                                                       *)

Quiet == callers = "one" /\ \A t \in Threads : pc[t] = "idle"

\* next[b] is the block that follows b in address order, or NULL.
NextInOrder(b) ==
  \/ next[b] = NULL /\ \A c \in blocks : c <= b
  \/ next[b] \in blocks /\ b < next[b] /\ \A c \in blocks : c <= b \/ next[b] <= c

(* Between two calls the list leads to every block there is, so that none  *)
(* that was freed is lost for find_free_block (request_space).             *)
ListComplete ==
  Quiet =>
    /\ global_base = NULL <=> blocks = {}
    /\ blocks # {} => global_base \in blocks /\ \A b \in blocks : global_base <= b
    /\ \A b \in blocks : NextInOrder(b)

(* Between two calls a block is free exactly when the client does not own  *)
(* it, and free and magic say the same (malloc, free, realloc).            *)
MarksMatchOwners ==
  Quiet =>
    \A b \in blocks :
      /\ free[b] <=> payload(b) \notin owned[Main]
      /\ free[b] <=> magic[b] = "freed"

(* No assertion fails but the one of request_space in src/malloc.c when    *)
(* sbrk() returns -1: free's always hold, after any number of reuses.      *)
AbortsOnlyWhenRefused ==
  callers = "one" =>
    \A t \in Threads :
      pc[t] = "aborted" => /\ variant = "preloaded"
                           /\ op[t] \in {"malloc", "realloc"}
                           /\ block[t] = brk

(* No assertion fails: a request the system refuses makes malloc return    *)
(* NULL, as the comment behind the test of request_space says.             *)
AssertionsHold == callers = "one" => Running

-----------------------------------------------------------------------------
(* Refinement.                                                             *)

Region(b) == [ptr |-> payload(b), len |-> size[b]]

\* What malloc or nofree_malloc has found, until it is the client's.
Found(t) ==
  IF block[t] = NULL \/ pc[t] \notin {"return", "check", "mark", "freed"} THEN {}
  ELSE IF op[t] = "nofree" THEN {[ptr |-> block[t], len |-> sz[t]]}
  ELSE IF op[t] = "free" THEN {}
  ELSE {Region(block[t])}

Promise == INSTANCE Allocator WITH
  Sizes   <- SizeT \ {0},
  Regions <- [ptr : Addr, len : SizeT],
  live    <- raw \cup {Region(get_block_ptr(p)) : p \in owned[Main]},
  want    <- sz,
  held    <- [t \in Threads |-> IF op[t] = "realloc" /\ pc[t] # "freed"
                                THEN {Region(get_block_ptr(ptr[t]))} ELSE {}],
  fresh   <- [t \in Threads |-> Found(t)]

(* To a program with one thread both files keep the promise of Allocator,  *)
(* although they neither split nor merge; nofree_malloc keeps it too, with *)
(* memory that never comes back.                                           *)
ImplementsAllocator ==
  /\ callers = "one" => Promise!Init
  /\ [][callers = "one" => [Promise!Next]_(Promise!vars)]_vars

=============================================================================
