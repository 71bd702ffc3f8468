------------------------------- MODULE SizeT --------------------------------
(***************************************************************************)
(* The machine arithmetic the allocators compute with: size_t is unsigned  *)
(* and wraps, sbrk() takes a signed intptr_t of the same width, and the    *)
(* calloc entry points test a product for overflow before they form it.    *)
(* The width is a parameter, so that TLC can use a machine of a few bits.  *)
(***************************************************************************)
EXTENDS Integers

CONSTANT
  INTPTR_MAX    \* largest intptr_t, 2^(w-1) - 1 on a machine of w bits

ASSUME IntptrMaxAssumption == INTPTR_MAX \in Nat \ {0}

SIZE_MAX == 2 * INTPTR_MAX + 1

SizeT == 0..SIZE_MAX

\* a + b on size_t, and on addresses, which have the same width.
SizeAdd(a, b) == IF a + b <= SIZE_MAX THEN a + b ELSE a + b - (SIZE_MAX + 1)

\* a - b on size_t.
SizeSub(a, b) == IF b <= a THEN a - b ELSE a - b + (SIZE_MAX + 1)

\* a * b on size_t.
SizeMul(a, b) == (a * b) % (SIZE_MAX + 1)

\* The cast (intptr_t)n of a size_t.
AsIntptr(n) == IF n <= INTPTR_MAX THEN n ELSE n - (SIZE_MAX + 1)

\* The test of the calloc entry points: nelem > SIZE_MAX / elsize.
ProductOverflows(nelem, elsize) == nelem > SIZE_MAX \div elsize

=============================================================================
