----------------------------- MODULE Allocator ------------------------------
(***************************************************************************)
(* What any of the allocators promises to its callers, with no heap, list  *)
(* or lock: a region of memory belongs to the client, to one call, or to   *)
(* nobody, and no two of the regions that belong to somebody overlap.      *)
(* realloc gives the old region up only when it has a new one, so that a   *)
(* failure can hand the old one back.                                      *)
(***************************************************************************)
EXTENDS Integers

CONSTANTS
  Threads,    \* the callers
  Sizes,      \* the sizes a caller may ask for, 0 excluded
  Regions     \* records [ptr, len] of the memory that may be handed out

VARIABLES
  live,       \* regions the client owns
  want,       \* size each call in progress asked for, 0 when there is none
  held,       \* the region each realloc in progress got from the client
  fresh       \* the region each call in progress has reserved

vars == <<live, want, held, fresh>>

Apart(r, q) == r.ptr + r.len <= q.ptr \/ q.ptr + q.len <= r.ptr

\* Every region that belongs to somebody.
Taken == live \cup UNION {held[t] \cup fresh[t] : t \in Threads}

Init ==
  /\ live = {}
  /\ want = [t \in Threads |-> 0]
  /\ held = [t \in Threads |-> {}]
  /\ fresh = [t \in Threads |-> {}]

Done(t, rs) ==
  /\ live' = live \cup rs
  /\ want' = [want EXCEPT ![t] = 0]
  /\ held' = [held EXCEPT ![t] = {}]
  /\ fresh' = [fresh EXCEPT ![t] = {}]

\* malloc, calloc and realloc(NULL, s).
Ask(t) ==
  /\ want[t] = 0
  /\ UNCHANGED <<live, held, fresh>>
  /\ \E s \in Sizes : want' = [want EXCEPT ![t] = s]

Free ==
  /\ UNCHANGED <<want, held, fresh>>
  /\ \E r \in live : live' = live \ {r}

\* realloc(ptr, s).
AskForMore(t) ==
  /\ want[t] = 0
  /\ UNCHANGED fresh
  /\ \E r \in live :
       /\ live' = live \ {r}
       /\ held' = [held EXCEPT ![t] = {r}]
  /\ \E s \in Sizes : want' = [want EXCEPT ![t] = s]

Reserve(t) ==
  /\ want[t] > 0
  /\ fresh[t] = {}
  /\ UNCHANGED <<live, want, held>>
  /\ \E r \in Regions :
       /\ fresh' = [fresh EXCEPT ![t] = {r}]
       /\ r.len >= want[t]
       /\ \A q \in Taken : Apart(r, q)

\* realloc is done with the old region.
Release(t) ==
  /\ fresh[t] # {}
  /\ held[t] # {}
  /\ held' = [held EXCEPT ![t] = {}]
  /\ UNCHANGED <<live, want, fresh>>

Grant(t) ==
  /\ fresh[t] # {}
  /\ held[t] = {}
  /\ Done(t, fresh[t])

\* NULL: the client has back what it gave.
Fail(t) ==
  /\ want[t] > 0
  /\ fresh[t] = {}
  /\ Done(t, held[t])

\* realloc returns its argument; the region may have shrunk.
Resize(t) ==
  /\ fresh[t] = {}
  /\ \E r \in held[t] : \E l \in want[t]..r.len :
       Done(t, {[ptr |-> r.ptr, len |-> l]})

Next ==
  \/ Free
  \/ \E t \in Threads : Ask(t) \/ AskForMore(t) \/ Reserve(t) \/ Release(t)
                        \/ Grant(t) \/ Fail(t) \/ Resize(t)

Spec == Init /\ [][Next]_vars

=============================================================================
