------------------------------ MODULE Tutorial ------------------------------
(***************************************************************************)
(* The tutorial allocator: src/malloc.c, which src/wrapper.c preloads into *)
(* programs, and its copy starter/tutorial_malloc.c.  Blocks form a singly *)
(* linked list as in MyMalloc; nothing is split or merged, and there is no *)
(* lock.  The two files differ in the order of the tests of request_space, *)
(* in the tests of calloc and in an assertion of free; variant, chosen     *)
(* once and for all, says which one it is.                                 *)
(*                                                                         *)
(* Nobody but this allocator moves the break, for it takes the place of    *)
(* libc's.  callers says whether one thread of the process calls it, or    *)
(* all of them do.                                                         *)
(*                                                                         *)
(* An action is one read or write of memory that other threads share, with *)
(* what the thread does on its own until the next.  The bytes of the       *)
(* payloads are left out.  free is a Boolean and magic names its value:    *)
(* "fresh" is 0x12345678, "reused" 0x77777777, "freed" 0x55555555, and     *)
(* "zero" what memory holds that sbrk() has just given out.                *)
(*                                                                         *)
(* An operator whose name ends in _ and a remark is a mutated form of the  *)
(* one that follows it, for the mutation tests of the properties.          *)
(***************************************************************************)
EXTENDS SizeT

CONSTANTS
  Threads,     \* the threads of the process
  Variants,    \* which of the two files: "preloaded", "starter"
  Callers,     \* which callers: "one" thread, "many" threads
  Main,        \* the thread that calls when one does
  Requests,    \* sizes a client asks for
  CallocArgs,  \* pairs <<nelem, elsize>> a client asks for
  META_SIZE,   \* sizeof(struct block_meta)
  HeapBase,    \* the program break when the process starts
  BrkLimit,    \* bound: the break never moves past it
  ManyLimit    \* the same when many threads call

ASSUME ChoicesAssumption ==
  /\ Variants \subseteq {"preloaded", "starter"}
  /\ Callers \subseteq {"one", "many"}
  /\ Main \in Threads

ASSUME SizesAssumption ==
  /\ META_SIZE \in Nat \ {0}
  /\ Requests \subseteq SizeT
  /\ CallocArgs \subseteq SizeT \X SizeT

ASSUME HeapAssumption ==
  /\ HeapBase \in Nat \ {0}
  /\ BrkLimit \in Nat
  /\ HeapBase <= BrkLimit
  /\ BrkLimit <= SIZE_MAX
  /\ ManyLimit \in Nat
  /\ ManyLimit <= BrkLimit

NULL == 0
Addr == HeapBase..BrkLimit

VARIABLES
  variant,      \* the file the program uses
  callers,      \* which threads call it
  brk,          \* the program break, kept by the operating system
  global_base,  \* head of the list
  blocks,       \* auxiliary: addresses of the headers in use as blocks
  size,         \* header field, per address
  next,         \* header field, per address
  free,         \* header field, per address
  magic,        \* header field, per address
  raw,          \* regions [ptr, len] handed out by nofree_malloc
  owned,        \* the pointers each thread was given and nobody gave back
  pc,           \* control point of each thread
  op,           \* the call each thread executes
  sz,           \* its size, as the machine computed it
  len,          \* its size, as the client meant it
  ptr,          \* its argument ptr
  cur,          \* the cursor of find_free_block
  last,         \* the last block find_free_block visited
  block         \* the block being allocated

choice == <<variant, callers>>
header == <<size, next, free, magic>>
client == <<raw, owned>>
args   == <<op, sz, len, ptr>>
vars   == <<choice, brk, global_base, blocks, header, client, pc, args, cur, last, block>>

PCs == {"idle", "test", "step", "claim", "reuse", "brk", "sbrk", "link", "header",
        "base", "return", "check", "mark", "freed", "aborted"}

Init ==
  /\ variant \in Variants
  /\ callers \in Callers
  /\ brk = HeapBase
  /\ global_base = NULL
  /\ blocks = {}
  /\ size = [a \in Addr |-> 0]
  /\ next = [a \in Addr |-> NULL]
  /\ free = [a \in Addr |-> FALSE]
  /\ magic = [a \in Addr |-> "zero"]
  /\ raw = {}
  /\ owned = [t \in Threads |-> {}]
  /\ pc = [t \in Threads |-> "idle"]
  /\ op = [t \in Threads |-> "none"]
  /\ sz = [t \in Threads |-> 0]
  /\ len = [t \in Threads |-> 0]
  /\ ptr = [t \in Threads |-> NULL]
  /\ cur = [t \in Threads |-> NULL]
  /\ last = [t \in Threads |-> NULL]
  /\ block = [t \in Threads |-> NULL]

-----------------------------------------------------------------------------
\* (void * )(block + 1): the pointer a caller gets.
payload(b) == b + META_SIZE

get_block_ptr(p) == p - META_SIZE

Goto(t, l) == pc' = [pc EXCEPT ![t] = l]

Enter(t, o, s, n, p) ==
  /\ op' = [op EXCEPT ![t] = o]
  /\ sz' = [sz EXCEPT ![t] = s]
  /\ len' = [len EXCEPT ![t] = n]
  /\ ptr' = [ptr EXCEPT ![t] = p]

\* malloc reads global_base: find_free_block starts there, if it is set.
EnterMalloc(t, o, s, n, p) ==
  /\ Enter(t, o, s, n, p)
  /\ cur' = [cur EXCEPT ![t] = global_base]
  /\ last' = [last EXCEPT ![t] = global_base]
  /\ Goto(t, IF global_base = NULL THEN "brk" ELSE "test")

\* The call returns, and the pointers in ps are the client's: the frame is popped.
Return(t, ps) ==
  /\ owned' = [owned EXCEPT ![t] = @ \cup ps]
  /\ Enter(t, "none", 0, 0, NULL)
  /\ Goto(t, "idle")
  /\ cur' = [cur EXCEPT ![t] = NULL]
  /\ last' = [last EXCEPT ![t] = NULL]
  /\ block' = [block EXCEPT ![t] = NULL]

-----------------------------------------------------------------------------
(* Calls.  A call with size 0, or free(NULL), changes nothing.             *)

MayCall(t) ==
  /\ pc[t] = "idle"
  /\ callers = "one" => t = Main

\* Pointers go from thread to thread: what u was given another may give back.
GiveUp(u, p) == owned' = [owned EXCEPT ![u] = @ \ {p}]

CallMalloc(t) ==
  /\ MayCall(t)
  /\ \E s \in Requests \ {0} : EnterMalloc(t, "malloc", s, s, NULL)
  /\ UNCHANGED <<choice, brk, global_base, blocks, header, client, block>>

\* src/malloc.c multiplies without a test, and clears what malloc returns
\* without one; there malloc never returns NULL for a size other than 0.
CallocAllowed(n, e) ==
  variant = "starter" => n # 0 /\ e # 0 /\ ~ProductOverflows(n, e)

CallCalloc(t) ==
  /\ MayCall(t)
  /\ \E a \in CallocArgs :
       /\ CallocAllowed(a[1], a[2])
       /\ SizeMul(a[1], a[2]) # 0
       /\ EnterMalloc(t, "malloc", SizeMul(a[1], a[2]), a[1] * a[2], NULL)
  /\ UNCHANGED <<choice, brk, global_base, blocks, header, client, block>>

CallFree(t) ==
  /\ MayCall(t)
  /\ \E u \in Threads : \E p \in owned[u] :
       GiveUp(u, p) /\ Enter(t, "free", 0, 0, p)
  /\ Goto(t, "check")
  /\ UNCHANGED <<choice, brk, global_base, blocks, header, raw, cur, last, block>>

\* block_ptr->size >= size, which is so for size 0 too: the same pointer again.
ReallocInPlace(t, u, p, s) ==
  /\ size[get_block_ptr(p)] >= s
  /\ owned' = [owned EXCEPT ![u] = @ \ {p}, ![t] = @ \cup {p}]
  /\ UNCHANGED <<pc, args, cur, last>>

ReallocMove(t, u, p, s) ==
  /\ size[get_block_ptr(p)] < s
  /\ GiveUp(u, p)
  /\ EnterMalloc(t, "realloc", s, s, p)

\* realloc(NULL, s) is malloc(s).
CallRealloc(t) ==
  /\ MayCall(t)
  /\ \E u \in Threads, s \in Requests : \E p \in owned[u] :
       ReallocInPlace(t, u, p, s) \/ ReallocMove(t, u, p, s)
  /\ UNCHANGED <<choice, brk, global_base, blocks, header, raw, block>>

\* nofree_malloc takes memory from the break and leaves no header.
CallNoFree(t) ==
  /\ MayCall(t)
  /\ variant = "preloaded"
  /\ \E s \in Requests \ {0} : Enter(t, "nofree", s, s, NULL)
  /\ Goto(t, "brk")
  /\ UNCHANGED <<choice, brk, global_base, blocks, header, client, cur, last, block>>

-----------------------------------------------------------------------------
(* malloc.                                                                 *)

Fits_OneShort(b, s) == free[b] /\ size[b] + 1 >= s

Fits_InUseToo(b, s) == size[b] >= s

Fits(b, s) == free[b] /\ size[b] >= s

\* find_free_block tests a block, and returns it or goes on.
Test(t) ==
  /\ pc[t] = "test"
  /\ \/ /\ Fits(cur[t], sz[t])
        /\ block' = [block EXCEPT ![t] = cur[t]]
        /\ cur' = [cur EXCEPT ![t] = NULL]
        /\ last' = [last EXCEPT ![t] = NULL]
        /\ Goto(t, "claim")
     \/ /\ ~Fits(cur[t], sz[t])
        /\ Goto(t, "step")
        /\ UNCHANGED <<cur, last, block>>
  /\ UNCHANGED <<choice, brk, global_base, blocks, header, client, args>>

Step_LastStays(t) ==
  /\ pc[t] = "step"
  /\ cur' = [cur EXCEPT ![t] = next[cur[t]]]
  /\ Goto(t, IF next[cur[t]] = NULL THEN "brk" ELSE "test")
  /\ UNCHANGED <<choice, brk, global_base, blocks, header, client, args, last, block>>

Step_Stay(t) ==
  /\ pc[t] = "step"
  /\ Goto(t, "test")
  /\ UNCHANGED <<choice, brk, global_base, blocks, header, client, args, cur, last, block>>

\* find_free_block goes on to the next block, or ends without one.
Step(t) ==
  /\ pc[t] = "step"
  /\ last' = [last EXCEPT ![t] = cur[t]]
  /\ cur' = [cur EXCEPT ![t] = next[cur[t]]]
  /\ Goto(t, IF next[cur[t]] = NULL THEN "brk" ELSE "test")
  /\ UNCHANGED <<choice, brk, global_base, blocks, header, client, args, block>>

\* block->free = 0.
Claim(t) ==
  /\ pc[t] = "claim"
  /\ free' = [free EXCEPT ![block[t]] = FALSE]
  /\ Goto(t, "reuse")
  /\ UNCHANGED <<choice, brk, global_base, blocks, size, next, magic, client, args,
                 cur, last, block>>

Reuse_Unmarked(t) ==
  /\ pc[t] = "reuse"
  /\ Goto(t, "return")
  /\ UNCHANGED <<choice, brk, global_base, blocks, header, client, args, cur, last, block>>

\* block->magic = 0x77777777.
Reuse(t) ==
  /\ pc[t] = "reuse"
  /\ magic' = [magic EXCEPT ![block[t]] = "reused"]
  /\ Goto(t, "return")
  /\ UNCHANGED <<choice, brk, global_base, blocks, size, next, free, client, args,
                 cur, last, block>>

\* block = sbrk(0).
ReadBreak(t) ==
  /\ pc[t] = "brk"
  /\ block' = [block EXCEPT ![t] = brk]
  /\ Goto(t, "sbrk")
  /\ UNCHANGED <<choice, brk, global_base, blocks, header, client, args, cur, last>>

Limit == IF callers = "one" THEN BrkLimit ELSE ManyLimit

Extra(t) == IF op[t] = "nofree" THEN 0 ELSE META_SIZE

\* The break sbrk() is asked for.
BreakWanted(t) == brk + AsIntptr(SizeAdd(sz[t], Extra(t)))

BreakUnmoved_Unchecked(t) == TRUE

\* assert((void * )block == request)
BreakUnmoved(t) == block[t] = brk

\* sbrk() succeeds, and the process ends if the break was not where it was.
Extend(t) ==
  /\ pc[t] = "sbrk"
  /\ BreakWanted(t) \in HeapBase..Limit
  /\ brk' = BreakWanted(t)
  /\ Goto(t, IF ~BreakUnmoved(t) THEN "aborted"
             ELSE IF op[t] = "nofree" THEN "return"
             ELSE IF last[t] = NULL THEN "header" ELSE "link")
  /\ UNCHANGED <<choice, global_base, blocks, header, client, args, cur, last, block>>

\* sbrk() returns -1.  src/malloc.c compares that with block first.
Refuse(t) ==
  /\ pc[t] = "sbrk"
  /\ \/ /\ variant = "preloaded"
        /\ op[t] # "nofree"
        /\ Goto(t, "aborted")
        /\ UNCHANGED block
     \/ /\ variant = "starter" \/ op[t] = "nofree"
        /\ Goto(t, "return")
        /\ block' = [block EXCEPT ![t] = NULL]
  /\ UNCHANGED <<choice, brk, global_base, blocks, header, client, args, cur, last>>

\* last->next = block, before the header of block is written.
Link(t) ==
  /\ pc[t] = "link"
  /\ next' = [next EXCEPT ![last[t]] = block[t]]
  /\ Goto(t, "header")
  /\ UNCHANGED <<choice, brk, global_base, blocks, size, free, magic, client, args,
                 cur, last, block>>

\* What another thread can tell apart is block->next = NULL: until here the
\* block looks like one in use.
Header(t) ==
  /\ pc[t] = "header"
  /\ size' = [size EXCEPT ![block[t]] = sz[t]]
  /\ next' = [next EXCEPT ![block[t]] = NULL]
  /\ free' = [free EXCEPT ![block[t]] = FALSE]
  /\ magic' = [magic EXCEPT ![block[t]] = "fresh"]
  /\ blocks' = blocks \cup {block[t]}
  /\ Goto(t, IF last[t] = NULL THEN "base" ELSE "return")
  /\ UNCHANGED <<choice, brk, global_base, client, args, cur, last, block>>

Base(t) ==
  /\ pc[t] = "base"
  /\ global_base' = block[t]
  /\ Goto(t, "return")
  /\ UNCHANGED <<choice, brk, blocks, header, client, args, cur, last, block>>

ReturnNull_Untested(t) ==
  /\ pc[t] = "return"
  /\ block[t] = NULL
  /\ Return(t, {payload(block[t])})
  /\ UNCHANGED <<choice, brk, global_base, blocks, header, raw>>

ReturnNull_Drops(t) ==
  /\ pc[t] = "return"
  /\ block[t] = NULL
  /\ Return(t, {})
  /\ UNCHANGED <<choice, brk, global_base, blocks, header, raw>>

\* malloc returns NULL, and so does realloc, which leaves ptr valid.
ReturnNull(t) ==
  /\ pc[t] = "return"
  /\ block[t] = NULL
  /\ Return(t, {ptr[t]} \ {NULL})
  /\ UNCHANGED <<choice, brk, global_base, blocks, header, raw>>

\* malloc returns block + 1; the caller, or calloc or realloc, fills it.
ReturnBlock(t) ==
  /\ pc[t] = "return"
  /\ block[t] # NULL
  /\ \/ op[t] = "malloc" /\ Return(t, {payload(block[t])}) /\ UNCHANGED raw
     \/ /\ op[t] = "nofree"
        /\ raw' = raw \cup {[ptr |-> block[t], len |-> sz[t]]}
        /\ Return(t, {})
     \/ op[t] = "realloc" /\ Goto(t, "check")
                           /\ UNCHANGED <<client, args, cur, last, block>>
  /\ UNCHANGED <<choice, brk, global_base, blocks, header>>

-----------------------------------------------------------------------------
(* free, called by a client or by realloc.                                 *)

LooksInUse(b) ==
  ~free[b] /\ (variant = "preloaded" => magic[b] \in {"fresh", "reused"})

\* The assertions of free; the one on magic is not in the copy.
Assertions(t) ==
  /\ pc[t] = "check"
  /\ Goto(t, IF LooksInUse(get_block_ptr(ptr[t])) THEN "mark" ELSE "aborted")
  /\ UNCHANGED <<choice, brk, global_base, blocks, header, client, args, cur, last, block>>

\* block_ptr->free = 1.
MarkFree(t) ==
  /\ pc[t] = "mark"
  /\ free' = [free EXCEPT ![get_block_ptr(ptr[t])] = TRUE]
  /\ Goto(t, "freed")
  /\ UNCHANGED <<choice, brk, global_base, blocks, size, next, magic, client, args,
                 cur, last, block>>

\* block_ptr->magic = 0x55555555, and free returns; realloc returns new_ptr.
StampFree(t) ==
  /\ pc[t] = "freed"
  /\ magic' = [magic EXCEPT ![get_block_ptr(ptr[t])] = "freed"]
  /\ Return(t, IF op[t] = "realloc" THEN {payload(block[t])} ELSE {})
  /\ UNCHANGED <<choice, brk, global_base, blocks, size, next, free, raw>>

-----------------------------------------------------------------------------
Call(t) ==
  CallMalloc(t) \/ CallCalloc(t) \/ CallFree(t) \/ CallRealloc(t) \/ CallNoFree(t)

Work(t) ==
  \/ Test(t) \/ Step(t) \/ Claim(t) \/ Reuse(t)
  \/ ReadBreak(t) \/ Extend(t) \/ Refuse(t) \/ Link(t) \/ Header(t) \/ Base(t)
  \/ ReturnNull(t) \/ ReturnBlock(t)
  \/ Assertions(t) \/ MarkFree(t) \/ StampFree(t)

\* A failed assert() ends the process.
Running == \A t \in Threads : pc[t] # "aborted"

Next == Running /\ \E t \in Threads : Call(t) \/ Work(t)

Spec == Init /\ [][Next]_vars

=============================================================================
