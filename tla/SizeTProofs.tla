----------------------------- MODULE SizeTProofs ----------------------------
(***************************************************************************)
(* What the machine arithmetic of SizeT computes, for every width.         *)
(***************************************************************************)
EXTENDS SizeT, TLAPS, WellFoundedInduction

\* The overflow test of my_calloc lets a product pass exactly when the
\* product fits in size_t.
LEMMA ProductExact ==
  ASSUME NEW n \in Nat, NEW e \in Nat \ {0}
  PROVE  ProductOverflows(n, e) <=> n * e > SIZE_MAX
<1> DEFINE q == SIZE_MAX \div e
<1>1. SIZE_MAX \in Nat
  BY IntptrMaxAssumption DEF SIZE_MAX
<1>2. q \in Nat /\ q * e <= SIZE_MAX /\ SIZE_MAX < (q + 1) * e
  BY <1>1
<1>3. ASSUME NEW j \in Nat, NEW k \in Nat
      PROVE  (j + k) * e = j * e + k * e /\ k * e >= 0
  OBVIOUS
<1>4. ProductOverflows(n, e) <=> n > q
  BY DEF ProductOverflows, q
<1> HIDE DEF q
<1>5. CASE n > q
  <2>1. n - (q + 1) \in Nat /\ n = (q + 1) + (n - (q + 1))
    BY <1>2, <1>5
  <2>2. n * e >= (q + 1) * e
    BY <2>1, <1>2, <1>3
  <2> QED
    BY <2>2, <1>1, <1>2, <1>4, <1>5
<1>6. CASE ~(n > q)
  <2>1. q - n \in Nat /\ q = n + (q - n)
    BY <1>2, <1>6
  <2>2. q * e >= n * e
    BY <2>1, <1>2, <1>3
  <2> QED
    BY <2>2, <1>1, <1>2, <1>4, <1>6
<1> QED
  BY <1>5, <1>6

\* The size calloc computes, overflow or not, is a size_t.
LEMMA ProductTyped ==
  ASSUME NEW n \in SizeT, NEW e \in SizeT
  PROVE  SizeMul(n, e) \in SizeT /\ n * e \in Nat
<1>1. n * e \in Nat
  <2>1. n \in Nat /\ e \in Nat
    BY DEF SizeT
  <2> QED
    BY <2>1
<1>2. SIZE_MAX \in Nat /\ SIZE_MAX + 1 \in Nat \ {0}
  BY IntptrMaxAssumption DEF SIZE_MAX
<1>3. \A i \in Nat, m \in Nat \ {0} : i % m \in 0..(m - 1)
  OBVIOUS
<1>4. (n * e) % (SIZE_MAX + 1) \in 0..SIZE_MAX
  <2> DEFINE i == n * e
  <2> DEFINE m == SIZE_MAX + 1
  <2>1. i % m \in 0..(m - 1)
    <3> HIDE DEF i, m
    <3> QED
      BY <1>1, <1>2, <1>3 DEF i, m
  <2>2. m - 1 = SIZE_MAX
    BY <1>2
  <2> QED
    BY <2>1, <2>2
<1> QED
  BY <1>1, <1>4 DEF SizeMul, SizeT

\* A product that fits in a size_t is computed as it is.
LEMMA ProductKept ==
  ASSUME NEW n \in SizeT, NEW e \in SizeT, n * e <= SIZE_MAX
  PROVE  SizeMul(n, e) = n * e
<1>1. n * e \in Nat
  <2>1. n \in Nat /\ e \in Nat
    BY DEF SizeT
  <2> QED
    BY <2>1
<1>2. SIZE_MAX \in Nat /\ SIZE_MAX + 1 \in Nat \ {0}
  BY IntptrMaxAssumption DEF SIZE_MAX
<1>3. \A i \in Nat, m \in Nat \ {0} : i < m => i % m = i
  OBVIOUS
<1> DEFINE i == n * e
<1> DEFINE m == SIZE_MAX + 1
<1>4. i < m
  BY <1>1, <1>2
<1>5. i % m = i
  <2> HIDE DEF i, m
  <2> QED
    BY <1>1, <1>2, <1>3, <1>4 DEF i, m
<1> QED
  BY <1>5 DEF SizeMul

-----------------------------------------------------------------------------
(* Induction, in the form in which a set of numbers has a least element.   *)

\* A set of natural numbers has a least element.
LEMMA NatLeast ==
  ASSUME NEW T, T \subseteq Nat, T # {}
  PROVE  \E m \in T : \A k \in T : m <= k
<1>1. PICK m \in T : \A k \in T : <<k, m>> \notin OpToRel(<, Nat)
  BY WFMin, NatLessThanWellFounded
<1>2. \A k \in T : ~(k < m)
  BY <1>1 DEF OpToRel
<1>3. \A k \in T : m <= k
  BY <1>2
<1> QED
  BY <1>3

\* What holds at 0 and goes from n to n + 1 holds of every number.
LEMMA NatSteps ==
  ASSUME NEW G, 0 \in G, \A n \in Nat : n \in G => n + 1 \in G
  PROVE  Nat \subseteq G
<1> SUFFICES ASSUME Nat \ G # {} PROVE FALSE
  OBVIOUS
<1>1. PICK m \in Nat \ G : \A k \in Nat \ G : m <= k
  BY NatLeast
<1>2. m # 0 /\ m - 1 \in Nat /\ (m - 1) + 1 = m
  BY <1>1
<1>3. m - 1 \in G
  BY <1>1, <1>2
<1> QED
  BY <1>1, <1>2, <1>3

=============================================================================
