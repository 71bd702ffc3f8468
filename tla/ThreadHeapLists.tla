-------------------------- MODULE ThreadHeapLists ---------------------------
(***************************************************************************)
(* Proofs about ThreadHeap, first part: what split_block, Absorb,          *)
(* coalesce_free_blocks, AppendBlock and the searches do to one list,      *)
(* whatever its length.                                                    *)
(***************************************************************************)
EXTENDS ThreadHeapInv, SizeTProofs, SequenceTheorems

USE DEF NULL

\* The sizes the allocators compute with.
LEMMA Sizes ==
  /\ HDR \in Nat \ {0} /\ ALIGN \in Nat \ {0} /\ MIN_SPLIT_REMAINDER \in Nat \ {0}
  /\ UINT_MAX \in Nat /\ UINT_MAX + HDR + MIN_SPLIT_REMAINDER <= INTPTR_MAX
BY SizesAssumption

-----------------------------------------------------------------------------
(* Multiples.                                                              *)

\* What is a multiple of m, and only that, leaves no remainder.
LEMMA Multiples ==
  ASSUME NEW x \in Nat, NEW m \in Nat \ {0}
  PROVE  x % m = 0 <=> \E k \in Nat : x = k * m
<1>1. PICK q \in Nat, r \in 0..(m - 1) : q = x \div m /\ r = x % m /\ x = m * q + r
  <2>1. x \div m \in Nat /\ x % m \in 0..(m - 1) /\ x = m * (x \div m) + (x % m)
    OBVIOUS
  <2> QED
    BY <2>1
<1>2. ASSUME NEW k \in Nat, x = k * m
      PROVE  r = 0
  <2>1. ASSUME NEW d \in Int, d >= 1
        PROVE  d * m >= m
    <3>1. d * m = (d - 1) * m + m /\ (d - 1) * m >= 0
      BY <2>1
    <3> QED
      BY <3>1
  <2>2. (k - q) * m = r
    <3>1. (k - q) * m = k * m - q * m /\ m * q = q * m
      OBVIOUS
    <3> QED
      BY <1>1, <1>2, <3>1
  <2>3. ~(k - q >= 1)
    BY <1>1, <2>1, <2>2
  <2>4. ~(q - k >= 1)
    <3>1. (q - k) * m = 0 - r
      <4>1. (q - k) * m = 0 - ((k - q) * m)
        OBVIOUS
      <4> QED
        BY <2>2, <4>1
    <3> QED
      BY <1>1, <2>1, <3>1
  <2>5. k - q = 0
    BY <2>3, <2>4
  <2> QED
    BY <2>2, <2>5
<1>3. r = 0 => x = q * m
  BY <1>1
<1> QED
  BY <1>1, <1>2, <1>3

\* Sums and differences of multiples are multiples.
LEMMA MultiplesAdd ==
  ASSUME NEW x \in Nat, NEW y \in Nat, NEW m \in Nat \ {0}, x % m = 0, y % m = 0
  PROVE  /\ (x + y) % m = 0
         /\ y <= x => (x - y) % m = 0
<1>1. PICK k \in Nat : x = k * m
  BY Multiples
<1>2. PICK l \in Nat : y = l * m
  BY Multiples
<1>3. x + y = (k + l) * m /\ x - y = (k - l) * m
  BY <1>1, <1>2
<1>4. (x + y) % m = 0
  <2>1. k + l \in Nat /\ x + y \in Nat
    OBVIOUS
  <2> QED
    BY <1>3, <2>1, Multiples
<1>5. ASSUME y <= x PROVE (x - y) % m = 0
  <2>1. k - l \in Nat
    <3>1. ASSUME l - k \in Nat \ {0} PROVE FALSE
      <4>1. (l - k) * m = ((l - k) - 1) * m + m /\ ((l - k) - 1) * m >= 0
        BY <3>1
      <4>2. (l - k) * m = l * m - k * m
        OBVIOUS
      <4> QED
        BY <1>1, <1>2, <1>5, <4>1, <4>2
    <3> QED
      BY <3>1
  <2>2. x - y \in Nat
    BY <1>5
  <2> QED
    BY <1>3, <2>1, <2>2, Multiples
<1> QED
  BY <1>4, <1>5
-----------------------------------------------------------------------------
(* Sequences.                                                              *)

\* A stretch of a sequence.
LEMMA Stretch ==
  ASSUME NEW S, NEW s \in Seq(S), NEW p \in 1..(Len(s) + 1), NEW q \in (p - 1)..Len(s)
  PROVE  /\ SubSeq(s, p, q) \in Seq(S)
         /\ Len(SubSeq(s, p, q)) = q - p + 1
         /\ \A j \in 1..(q - p + 1) : SubSeq(s, p, q)[j] = s[p + j - 1]
<1>1. Len(s) \in Nat /\ \A j \in p..q : s[j] \in S
  BY LenProperties, ElementOfSeq
<1>2. p \in Int /\ q \in Int
  BY <1>1
<1> QED
  BY <1>1, <1>2, SubSeqProperties

\* Two sequences, one behind the other.
LEMMA Joined ==
  ASSUME NEW S, NEW s \in Seq(S), NEW r \in Seq(S)
  PROVE  /\ s \o r \in Seq(S)
         /\ Len(s \o r) = Len(s) + Len(r)
         /\ \A j \in 1..Len(s) : (s \o r)[j] = s[j]
         /\ \A j \in 1..Len(r) : (s \o r)[Len(s) + j] = r[j]
<1>1. /\ s \o r \in Seq(S) /\ Len(s \o r) = Len(s) + Len(r)
      /\ \A j \in 1..(Len(s) + Len(r)) : (s \o r)[j] = IF j <= Len(s) THEN s[j] ELSE r[j - Len(s)]
  BY ConcatProperties
<1>2. Len(s) \in Nat /\ Len(r) \in Nat
  BY LenProperties
<1>3. \A j \in 1..Len(r) : /\ Len(s) + j \in 1..(Len(s) + Len(r))
                           /\ ~(Len(s) + j <= Len(s)) /\ (Len(s) + j) - Len(s) = j
  BY <1>2
<1> QED
  BY <1>1, <1>2, <1>3

\* An element inserted.
LEMMA Inserted ==
  ASSUME NEW S, NEW h \in Seq(S), NEW i \in 1..(Len(h) + 1), NEW e \in S
  PROVE  /\ InsertAt(h, i, e) \in Seq(S)
         /\ Len(InsertAt(h, i, e)) = Len(h) + 1
         /\ \A j \in 1..(i - 1) : InsertAt(h, i, e)[j] = h[j]
         /\ InsertAt(h, i, e)[i] = e
         /\ \A j \in i..Len(h) : InsertAt(h, i, e)[j + 1] = h[j]
<1>1. PICK n \in Nat : n = Len(h)
  BY LenProperties
<1>2. PICK a : a = SubSeq(h, 1, i - 1)
  OBVIOUS
<1>3. PICK z : z = SubSeq(h, i, n)
  OBVIOUS
<1>4. PICK m : m = <<e>>
  OBVIOUS
<1>5. a \in Seq(S) /\ Len(a) = i - 1 /\ \A j \in 1..(i - 1) : a[j] = h[j]
  <2>1. 1 \in 1..(Len(h) + 1) /\ i - 1 \in (1 - 1)..Len(h)
    BY <1>1
  <2>2. /\ a \in Seq(S) /\ Len(a) = (i - 1) - 1 + 1
        /\ \A j \in 1..((i - 1) - 1 + 1) : a[j] = h[1 + j - 1]
    BY <1>2, <2>1, Stretch
  <2>3. (i - 1) - 1 + 1 = i - 1 /\ \A j \in 1..(i - 1) : 1 + j - 1 = j
    OBVIOUS
  <2> QED
    BY <2>2, <2>3
<1>6. z \in Seq(S) /\ Len(z) = n - i + 1 /\ \A j \in 1..(n - i + 1) : z[j] = h[i + j - 1]
  BY <1>1, <1>3, Stretch
<1>7. m \in Seq(S) /\ Len(m) = 1 /\ m[1] = e
  BY <1>4
<1>8. PICK b : b = a \o m
  OBVIOUS
<1>9. /\ b \in Seq(S) /\ Len(b) = (i - 1) + 1
      /\ \A j \in 1..(i - 1) : b[j] = h[j]
      /\ b[(i - 1) + 1] = e
  <2>1. /\ b \in Seq(S) /\ Len(b) = Len(a) + Len(m)
        /\ \A j \in 1..Len(a) : b[j] = a[j]
        /\ \A j \in 1..Len(m) : b[Len(a) + j] = m[j]
    <3>1. a \in Seq(S) /\ m \in Seq(S)
      BY <1>5, <1>7
    <3> QED
      BY <3>1, <1>8, Joined
  <2> QED
    BY <1>5, <1>7, <2>1
<1>10. PICK g : g = b \o z
  OBVIOUS
<1>11. /\ g \in Seq(S) /\ Len(g) = i + (n - i + 1)
       /\ \A j \in 1..i : g[j] = b[j]
       /\ \A j \in 1..(n - i + 1) : g[i + j] = z[j]
  <2>1. /\ g \in Seq(S) /\ Len(g) = Len(b) + Len(z)
        /\ \A j \in 1..Len(b) : g[j] = b[j]
        /\ \A j \in 1..Len(z) : g[Len(b) + j] = z[j]
    <3>1. b \in Seq(S) /\ z \in Seq(S)
      BY <1>6, <1>9
    <3> QED
      BY <3>1, <1>10, Joined
  <2>2. Len(b) = i
    BY <1>9
  <2> QED
    BY <1>6, <2>1, <2>2
<1>12. g = InsertAt(h, i, e)
  BY <1>1, <1>2, <1>3, <1>4, <1>8, <1>10 DEF InsertAt
<1>13. \A j \in i..n : g[j + 1] = h[j]
  <2> SUFFICES ASSUME NEW j \in i..n PROVE g[j + 1] = h[j]
    OBVIOUS
  <2>1. j - i + 1 \in 1..(n - i + 1) /\ i + (j - i + 1) = j + 1 /\ i + (j - i + 1) - 1 = j
    BY <1>1
  <2> QED
    <3>1. g[i + (j - i + 1)] = z[j - i + 1] /\ z[j - i + 1] = h[i + (j - i + 1) - 1]
      BY <1>6, <1>11, <2>1
    <3> QED
      BY <2>1, <3>1
<1> QED
  BY <1>1, <1>9, <1>11, <1>12, <1>13

\* An element removed.
LEMMA Removed ==
  ASSUME NEW S, NEW h \in Seq(S), NEW i \in 1..Len(h)
  PROVE  /\ RemoveAt(h, i) \in Seq(S)
         /\ Len(RemoveAt(h, i)) = Len(h) - 1
         /\ \A j \in 1..(i - 1) : RemoveAt(h, i)[j] = h[j]
         /\ \A j \in (i + 1)..Len(h) : RemoveAt(h, i)[j - 1] = h[j]
<1>1. PICK n \in Nat : n = Len(h)
  BY LenProperties
<1>2. PICK a : a = SubSeq(h, 1, i - 1)
  OBVIOUS
<1>3. PICK z : z = SubSeq(h, i + 1, n)
  OBVIOUS
<1>4. a \in Seq(S) /\ Len(a) = i - 1 /\ \A j \in 1..(i - 1) : a[j] = h[j]
  <2>1. 1 \in 1..(Len(h) + 1) /\ i - 1 \in (1 - 1)..Len(h)
    BY <1>1
  <2>2. /\ a \in Seq(S) /\ Len(a) = (i - 1) - 1 + 1
        /\ \A j \in 1..((i - 1) - 1 + 1) : a[j] = h[1 + j - 1]
    BY <1>2, <2>1, Stretch
  <2>3. (i - 1) - 1 + 1 = i - 1 /\ \A j \in 1..(i - 1) : 1 + j - 1 = j
    OBVIOUS
  <2> QED
    BY <2>2, <2>3
<1>5. z \in Seq(S) /\ Len(z) = n - i /\ \A j \in 1..(n - i) : z[j] = h[i + j]
  <2>1. i + 1 \in 1..(Len(h) + 1) /\ n \in ((i + 1) - 1)..Len(h)
    BY <1>1
  <2>2. /\ z \in Seq(S) /\ Len(z) = n - (i + 1) + 1
        /\ \A j \in 1..(n - (i + 1) + 1) : z[j] = h[(i + 1) + j - 1]
    BY <1>3, <2>1, Stretch
  <2>3. n - (i + 1) + 1 = n - i /\ \A j \in 1..(n - i) : (i + 1) + j - 1 = i + j
    BY <1>1
  <2> QED
    BY <2>2, <2>3
<1>6. PICK g : g = a \o z
  OBVIOUS
<1>7. /\ g \in Seq(S) /\ Len(g) = (i - 1) + (n - i)
      /\ \A j \in 1..(i - 1) : g[j] = a[j]
      /\ \A j \in 1..(n - i) : g[(i - 1) + j] = z[j]
  <2>1. /\ g \in Seq(S) /\ Len(g) = Len(a) + Len(z)
        /\ \A j \in 1..Len(a) : g[j] = a[j]
        /\ \A j \in 1..Len(z) : g[Len(a) + j] = z[j]
    <3>1. a \in Seq(S) /\ z \in Seq(S)
      BY <1>4, <1>5
    <3> QED
      BY <3>1, <1>6, Joined
  <2> QED
    BY <1>4, <1>5, <2>1
<1>8. g = RemoveAt(h, i)
  BY <1>1, <1>2, <1>3, <1>6 DEF RemoveAt
<1>9. \A j \in (i + 1)..n : g[j - 1] = h[j]
  <2> SUFFICES ASSUME NEW j \in (i + 1)..n PROVE g[j - 1] = h[j]
    OBVIOUS
  <2>1. j - i \in 1..(n - i) /\ (i - 1) + (j - i) = j - 1 /\ i + (j - i) = j
    BY <1>1
  <2> QED
    BY <1>5, <1>7, <2>1
<1> QED
  BY <1>1, <1>4, <1>7, <1>8, <1>9

\* An element replaced.
LEMMA Replaced ==
  ASSUME NEW h \in Seq(Block), NEW i \in 1..Len(h), NEW e \in Block,
         NEW g, g = [h EXCEPT ![i] = e]
  PROVE  /\ g \in Seq(Block) /\ Len(g) = Len(h)
         /\ \A j \in 1..Len(h) : g[j] = IF j = i THEN e ELSE h[j]
BY ExceptSeq

-----------------------------------------------------------------------------
(* One field of one header.                                                *)

\* A header is an address, a size and two more fields.
LEMMA HeaderFields ==
  ASSUME NEW m \in Block
  PROVE  m.at \in Nat /\ m.size \in Nat /\ m.free \in BOOLEAN /\ m.prev \in Nat
BY DEF Block

\* The headers of a list.
LEMMA Headers ==
  ASSUME NEW h \in Seq(Block)
  PROVE  /\ Len(h) \in Nat /\ DOMAIN h = 1..Len(h)
         /\ \A j \in 1..Len(h) :
              /\ h[j] \in Block /\ h[j].at \in Nat /\ h[j].size \in Nat
              /\ h[j].free \in BOOLEAN /\ h[j].prev \in Nat
<1>1. Len(h) \in Nat /\ DOMAIN h = 1..Len(h)
  BY LenProperties
<1>2. \A j \in 1..Len(h) : h[j] \in Block
  BY ElementOfSeq
<1> QED
  BY <1>1, <1>2, HeaderFields

\* The size of the i-th header changes.
LEMMA SetSize ==
  ASSUME NEW h \in Seq(Block), NEW i \in 1..Len(h), NEW n \in Nat,
         NEW g, g = [h EXCEPT ![i].size = n]
  PROVE  /\ g \in Seq(Block) /\ Len(g) = Len(h)
         /\ \A j \in 1..Len(h) : j # i => g[j] = h[j]
         /\ g[i] \in Block
         /\ g[i].at = h[i].at /\ g[i].size = n /\ g[i].free = h[i].free /\ g[i].prev = h[i].prev
<1>1. h[i] \in Block
  BY ElementOfSeq
<1>2. PICK e \in Block : e = [h[i] EXCEPT !.size = n]
  BY <1>1 DEF Block
<1>3. e.at = h[i].at /\ e.size = n /\ e.free = h[i].free /\ e.prev = h[i].prev
  BY <1>1, <1>2 DEF Block
<1>4. PICK f : f = [h EXCEPT ![i] = e]
  OBVIOUS
<1>5. g = f
  BY <1>2, <1>4
<1>6. /\ f \in Seq(Block) /\ Len(f) = Len(h)
      /\ \A j \in 1..Len(h) : f[j] = IF j = i THEN e ELSE h[j]
  BY <1>4, Replaced
<1> QED
  BY <1>3, <1>5, <1>6

\* The mark of the i-th header changes.
LEMMA SetFree ==
  ASSUME NEW h \in Seq(Block), NEW i \in 1..Len(h), NEW b \in BOOLEAN,
         NEW g, g = [h EXCEPT ![i].free = b]
  PROVE  /\ g \in Seq(Block) /\ Len(g) = Len(h)
         /\ \A j \in 1..Len(h) : j # i => g[j] = h[j]
         /\ g[i] \in Block
         /\ g[i].at = h[i].at /\ g[i].size = h[i].size /\ g[i].free = b /\ g[i].prev = h[i].prev
<1>1. h[i] \in Block
  BY ElementOfSeq
<1>2. PICK e \in Block : e = [h[i] EXCEPT !.free = b]
  BY <1>1 DEF Block
<1>3. e.at = h[i].at /\ e.size = h[i].size /\ e.free = b /\ e.prev = h[i].prev
  BY <1>1, <1>2 DEF Block
<1>4. PICK f : f = [h EXCEPT ![i] = e]
  OBVIOUS
<1>5. g = f
  BY <1>2, <1>4
<1>6. /\ f \in Seq(Block) /\ Len(f) = Len(h)
      /\ \A j \in 1..Len(h) : f[j] = IF j = i THEN e ELSE h[j]
  BY <1>4, Replaced
<1> QED
  BY <1>3, <1>5, <1>6

\* The back link of the i-th header changes.
LEMMA SetPrev ==
  ASSUME NEW h \in Seq(Block), NEW i \in 1..Len(h), NEW p \in Nat,
         NEW g, g = [h EXCEPT ![i].prev = p]
  PROVE  /\ g \in Seq(Block) /\ Len(g) = Len(h)
         /\ \A j \in 1..Len(h) : j # i => g[j] = h[j]
         /\ g[i] \in Block
         /\ g[i].at = h[i].at /\ g[i].size = h[i].size /\ g[i].free = h[i].free /\ g[i].prev = p
<1>1. h[i] \in Block
  BY ElementOfSeq
<1>2. PICK e \in Block : e = [h[i] EXCEPT !.prev = p]
  BY <1>1 DEF Block
<1>3. e.at = h[i].at /\ e.size = h[i].size /\ e.free = h[i].free /\ e.prev = p
  BY <1>1, <1>2 DEF Block
<1>4. PICK f : f = [h EXCEPT ![i] = e]
  OBVIOUS
<1>5. g = f
  BY <1>2, <1>4
<1>6. /\ f \in Seq(Block) /\ Len(f) = Len(h)
      /\ \A j \in 1..Len(h) : f[j] = IF j = i THEN e ELSE h[j]
  BY <1>4, Replaced
<1> QED
  BY <1>3, <1>5, <1>6

-----------------------------------------------------------------------------
(* What split_block and coalesce_free_blocks do to a list, block by block. *)

\* The same header up to its prev field.
Alike(m, k) == m.at = k.at /\ m.size = k.size /\ m.free = k.free

\* The back link of the block behind the i-th.
LEMMA Repaired ==
  ASSUME NEW h \in Seq(Block), NEW i \in 1..Len(h),
         NEW g, g = RepairPrev(h, i)
  PROVE  /\ g \in Seq(Block) /\ Len(g) = Len(h)
         /\ \A j \in 1..Len(h) : Alike(g[j], h[j])
         /\ \A j \in 1..Len(h) : g[j].prev = IF j = i + 1 THEN Back(h[i].at) ELSE h[j].prev
<1>1. Len(h) \in Nat /\ DOMAIN h = 1..Len(h) /\ Back(h[i].at) \in Nat
  BY Headers DEF Back
<1>2. CASE i + 1 \in 1..Len(h)
  <2>1. g = [h EXCEPT ![i + 1].prev = Back(h[i].at)]
    BY <1>1, <1>2 DEF RepairPrev
  <2>2. /\ g \in Seq(Block) /\ Len(g) = Len(h)
        /\ \A j \in 1..Len(h) : j # i + 1 => g[j] = h[j]
        /\ g[i + 1].at = h[i + 1].at /\ g[i + 1].size = h[i + 1].size
        /\ g[i + 1].free = h[i + 1].free /\ g[i + 1].prev = Back(h[i].at)
    <3>1. PICK k \in 1..Len(h) : k = i + 1
      BY <1>2
    <3>2. PICK p \in Nat : p = Back(h[i].at)
      BY <1>1
    <3>3. g = [h EXCEPT ![k].prev = p]
      BY <2>1, <3>1, <3>2
    <3> QED
      BY <3>1, <3>2, <3>3, SetPrev
  <2> QED
    BY <2>2 DEF Alike
<1>3. CASE i + 1 \notin 1..Len(h)
  <2>1. g = h
    BY <1>1, <1>3 DEF RepairPrev
  <2> QED
    BY <1>3, <2>1 DEF Alike
<1> QED
  BY <1>2, <1>3

\* split_block when there is enough to split off: the i-th block shrinks and
\* a free block with the rest follows it.
LEMMA SplitBlocks ==
  ASSUME NEW h \in Seq(Block), NEW i \in 1..Len(h), NEW w \in Nat,
         SplitWorthwhile(h[i], w),
         NEW g, g = split_block(h, i, w)
  PROVE  /\ g \in Seq(Block) /\ Len(g) = Len(h) + 1
         /\ \A j \in 1..(i - 1) : Alike(g[j], h[j]) /\ g[j].prev = h[j].prev
         /\ g[i].at = h[i].at /\ g[i].size = w /\ g[i].free = h[i].free
         /\ g[i].prev = h[i].prev
         /\ g[i + 1].at = h[i].at + HDR + w /\ g[i + 1].size = h[i].size - w - HDR
         /\ g[i + 1].free /\ g[i + 1].prev = Back(h[i].at)
         /\ \A j \in (i + 1)..Len(h) :
              /\ Alike(g[j + 1], h[j])
              /\ g[j + 1].prev = IF j = i + 1 THEN Back(g[i + 1].at) ELSE h[j].prev
<1>1. /\ Len(h) \in Nat
      /\ h[i].at \in Nat /\ h[i].size \in Nat /\ h[i].free \in BOOLEAN
      /\ Back(h[i].at) \in Nat
  BY Headers DEF Back
<1>2. PICK k : k = [h EXCEPT ![i].size = w]
  OBVIOUS
<1>3. /\ k \in Seq(Block) /\ Len(k) = Len(h)
      /\ \A j \in 1..Len(h) : j # i => k[j] = h[j]
      /\ k[i].at = h[i].at /\ k[i].size = w
      /\ k[i].free = h[i].free /\ k[i].prev = h[i].prev
  BY <1>2, SetSize
<1>4. PICK e : e = [at   |-> h[i].at + HDR + w,
                    size |-> h[i].size - w - HDR,
                    free |-> TRUE,
                    prev |-> Back(h[i].at)]
  OBVIOUS
<1>5. /\ e \in Block /\ e.at = h[i].at + HDR + w /\ e.size = h[i].size - w - HDR
      /\ e.free /\ e.prev = Back(h[i].at)
  <2>1. h[i].at + HDR + w \in Nat /\ h[i].size - w - HDR \in Nat
    <3>1. h[i].size > w + HDR + MIN_SPLIT_REMAINDER
      BY DEF SplitWorthwhile
    <3>2. HDR \in Nat /\ MIN_SPLIT_REMAINDER \in Nat /\ h[i].size \in Nat /\ h[i].at \in Nat
      BY <1>1, Sizes
    <3>3. PICK x \in Nat : x = h[i].size
      BY <3>2
    <3>4. PICK y \in Nat : y = h[i].at
      BY <3>2
    <3>5. x > w + HDR + MIN_SPLIT_REMAINDER
      BY <3>1, <3>3
    <3>6. x - w - HDR \in Nat
      BY <3>2, <3>5
    <3>7. y + HDR + w \in Nat
      BY <3>2
    <3> QED
      BY <3>3, <3>4, <3>6, <3>7
  <2> QED
    BY <1>1, <1>4, <2>1 DEF Block
<1>6. PICK l : l = InsertAt(k, i + 1, e)
  OBVIOUS
<1>7. /\ l \in Seq(Block) /\ Len(l) = Len(h) + 1
      /\ \A j \in 1..i : l[j] = k[j]
      /\ l[i + 1] = e
      /\ \A j \in (i + 1)..Len(h) : l[j + 1] = k[j]
  <2>1. k \in Seq(Block) /\ e \in Block /\ i + 1 \in 1..(Len(k) + 1) /\ (i + 1) - 1 = i
    BY <1>1, <1>3, <1>5
  <2>2. PICK q \in 1..(Len(k) + 1) : q = i + 1
    BY <2>1
  <2>3. PICK d \in Block : d = e
    BY <2>1
  <2>4. l = InsertAt(k, q, d)
    BY <1>6, <2>2, <2>3
  <2>5. /\ l \in Seq(Block) /\ Len(l) = Len(k) + 1
        /\ \A j \in 1..(q - 1) : l[j] = k[j]
        /\ l[q] = d
        /\ \A j \in q..Len(k) : l[j + 1] = k[j]
    BY <2>1, <2>4, Inserted
  <2> QED
    BY <1>3, <2>2, <2>3, <2>5
<1>8. g = RepairPrev(l, i + 1)
  BY <1>2, <1>4, <1>6 DEF split_block
<1>9. /\ g \in Seq(Block) /\ Len(g) = Len(h) + 1
      /\ \A j \in 1..(Len(h) + 1) : Alike(g[j], l[j])
      /\ \A j \in 1..(Len(h) + 1) :
           g[j].prev = IF j = i + 2 THEN Back(l[i + 1].at) ELSE l[j].prev
  <2>1. PICK q \in 1..Len(l) : q = i + 1
    BY <1>1, <1>7
  <2>2. l \in Seq(Block) /\ g = RepairPrev(l, q)
    BY <1>7, <1>8, <2>1
  <2>3. /\ g \in Seq(Block) /\ Len(g) = Len(l)
        /\ \A j \in 1..Len(l) : Alike(g[j], l[j])
        /\ \A j \in 1..Len(l) : g[j].prev = IF j = q + 1 THEN Back(l[q].at) ELSE l[j].prev
    BY <2>2, Repaired
  <2> QED
    BY <1>1, <1>7, <2>1, <2>3
<1>10. \A j \in 1..(i - 1) : Alike(g[j], h[j]) /\ g[j].prev = h[j].prev
  <2> SUFFICES ASSUME NEW j \in 1..(i - 1)
               PROVE  Alike(g[j], h[j]) /\ g[j].prev = h[j].prev
    OBVIOUS
  <2>1. j \in 1..i /\ j \in 1..Len(h) /\ j \in 1..(Len(h) + 1) /\ j # i /\ j # i + 2
    BY <1>1
  <2>2. l[j] = h[j]
    BY <1>3, <1>7, <2>1
  <2> QED
    BY <1>9, <2>1, <2>2
<1>11. /\ g[i].at = h[i].at /\ g[i].size = w /\ g[i].free = h[i].free
       /\ g[i].prev = h[i].prev
  <2>1. i \in 1..i /\ i \in 1..(Len(h) + 1) /\ i # i + 2
    BY <1>1
  <2>2. Alike(g[i], k[i]) /\ g[i].prev = k[i].prev
    BY <1>7, <1>9, <2>1
  <2> QED
    BY <1>3, <2>2 DEF Alike
<1>12. /\ g[i + 1].at = h[i].at + HDR + w /\ g[i + 1].size = h[i].size - w - HDR
       /\ g[i + 1].free /\ g[i + 1].prev = Back(h[i].at)
  <2>1. i + 1 \in 1..(Len(h) + 1) /\ i + 1 # i + 2
    BY <1>1
  <2>2. Alike(g[i + 1], e) /\ g[i + 1].prev = e.prev
    BY <1>7, <1>9, <2>1
  <2> QED
    BY <1>5, <2>2 DEF Alike
<1>13. \A j \in (i + 1)..Len(h) :
         /\ Alike(g[j + 1], h[j])
         /\ g[j + 1].prev = IF j = i + 1 THEN Back(g[i + 1].at) ELSE h[j].prev
  <2> SUFFICES ASSUME NEW j \in (i + 1)..Len(h)
               PROVE  /\ Alike(g[j + 1], h[j])
                      /\ g[j + 1].prev = IF j = i + 1 THEN Back(g[i + 1].at) ELSE h[j].prev
    OBVIOUS
  <2>1. /\ j \in 1..Len(h) /\ j + 1 \in 1..(Len(h) + 1) /\ j # i
        /\ (j + 1 = i + 2 <=> j = i + 1)
    BY <1>1
  <2>2. l[j + 1] = h[j]
    BY <1>3, <1>7, <2>1
  <2>3. l[i + 1].at = g[i + 1].at
    BY <1>5, <1>7, <1>12
  <2> QED
    BY <1>9, <2>1, <2>2, <2>3
<1> QED
  BY <1>9, <1>10, <1>11, <1>12, <1>13

\* The block behind the i-th of h is part of it in g.
Absorbed(g, h, i) ==
  /\ g \in Seq(Block) /\ Len(g) = Len(h) - 1
  /\ \A j \in 1..(i - 1) : Alike(g[j], h[j]) /\ g[j].prev = h[j].prev
  /\ g[i].at = h[i].at /\ g[i].size = h[i].size + HDR + h[i + 1].size
  /\ g[i].free = h[i].free /\ g[i].prev = h[i].prev
  /\ \A j \in (i + 1)..(Len(h) - 1) :
       /\ Alike(g[j], h[j + 1])
       /\ g[j].prev = IF j = i + 1 THEN Back(h[i].at) ELSE h[j + 1].prev

\* Absorb, header by header.
LEMMA AbsorbBlocks ==
  ASSUME NEW h \in Seq(Block), NEW i \in 1..Len(h), i < Len(h),
         NEW g, g = Absorb(h, i)
  PROVE  Absorbed(g, h, i)
<1>1. /\ Len(h) \in Nat
      /\ h[i].at \in Nat /\ h[i].size \in Nat /\ h[i].free \in BOOLEAN
      /\ h[i + 1].size \in Nat
  BY Headers
<1>2. PICK w \in Nat : w = h[i].size + HDR + h[i + 1].size
  BY <1>1, Sizes
<1>3. PICK k : k = [h EXCEPT ![i].size = w]
  OBVIOUS
<1>4. /\ k \in Seq(Block) /\ Len(k) = Len(h)
      /\ \A j \in 1..Len(h) : j # i => k[j] = h[j]
      /\ k[i].at = h[i].at /\ k[i].size = w
      /\ k[i].free = h[i].free /\ k[i].prev = h[i].prev
  BY <1>3, SetSize
<1>5. PICK l : l = RemoveAt(k, i + 1)
  OBVIOUS
<1>6. /\ l \in Seq(Block) /\ Len(l) = Len(h) - 1
      /\ \A j \in 1..i : l[j] = k[j]
      /\ \A j \in (i + 2)..Len(h) : l[j - 1] = k[j]
  <2>1. k \in Seq(Block) /\ i + 1 \in 1..Len(k) /\ (i + 1) - 1 = i /\ (i + 1) + 1 = i + 2
    BY <1>1, <1>4
  <2>2. /\ l \in Seq(Block) /\ Len(l) = Len(k) - 1
        /\ \A j \in 1..((i + 1) - 1) : l[j] = k[j]
        /\ \A j \in ((i + 1) + 1)..Len(k) : l[j - 1] = k[j]
    BY <1>5, <2>1, Removed
  <2> QED
    BY <1>4, <2>1, <2>2
<1>7. g = RepairPrev(l, i)
  <2>1. k = [h EXCEPT ![i].size = @ + HDR + h[i + 1].size]
    BY <1>2, <1>3
  <2> QED
    BY <1>5, <2>1 DEF Absorb
<1>8. /\ g \in Seq(Block) /\ Len(g) = Len(h) - 1
      /\ \A j \in 1..(Len(h) - 1) : Alike(g[j], l[j])
      /\ \A j \in 1..(Len(h) - 1) :
           g[j].prev = IF j = i + 1 THEN Back(l[i].at) ELSE l[j].prev
  <2>1. i \in 1..Len(l) /\ l \in Seq(Block)
    BY <1>1, <1>6
  <2>2. /\ g \in Seq(Block) /\ Len(g) = Len(l)
        /\ \A j \in 1..Len(l) : Alike(g[j], l[j])
        /\ \A j \in 1..Len(l) : g[j].prev = IF j = i + 1 THEN Back(l[i].at) ELSE l[j].prev
    BY <1>7, <2>1, Repaired, Zenon
  <2> QED
    BY <1>6, <2>2
<1>9. \A j \in 1..(i - 1) : Alike(g[j], h[j]) /\ g[j].prev = h[j].prev
  <2> SUFFICES ASSUME NEW j \in 1..(i - 1)
               PROVE  Alike(g[j], h[j]) /\ g[j].prev = h[j].prev
    OBVIOUS
  <2>1. j \in 1..i /\ j \in 1..Len(h) /\ j \in 1..(Len(h) - 1) /\ j # i /\ j # i + 1
    BY <1>1
  <2>2. l[j] = h[j]
    BY <1>4, <1>6, <2>1
  <2> QED
    BY <1>8, <2>1, <2>2
<1>10. /\ g[i].at = h[i].at /\ g[i].size = h[i].size + HDR + h[i + 1].size
       /\ g[i].free = h[i].free /\ g[i].prev = h[i].prev
  <2>1. i \in 1..i /\ i \in 1..(Len(h) - 1) /\ i # i + 1
    BY <1>1
  <2>2. Alike(g[i], k[i]) /\ g[i].prev = k[i].prev
    BY <1>6, <1>8, <2>1
  <2> QED
    BY <1>2, <1>4, <2>2 DEF Alike
<1>11. \A j \in (i + 1)..(Len(h) - 1) :
         /\ Alike(g[j], h[j + 1])
         /\ g[j].prev = IF j = i + 1 THEN Back(h[i].at) ELSE h[j + 1].prev
  <2> SUFFICES ASSUME NEW j \in (i + 1)..(Len(h) - 1)
               PROVE  /\ Alike(g[j], h[j + 1])
                      /\ g[j].prev = IF j = i + 1 THEN Back(h[i].at) ELSE h[j + 1].prev
    OBVIOUS
  <2>1. PICK q \in (i + 2)..Len(h) : q = j + 1
    <3>1. j + 1 \in (i + 2)..Len(h)
      BY <1>1
    <3> QED
      BY <3>1
  <2>2. /\ q \in 1..Len(h) /\ j \in 1..(Len(h) - 1) /\ q # i /\ i \in 1..i /\ q - 1 = j
    BY <1>1, <2>1
  <2>3. l[j] = h[q] /\ l[i].at = h[i].at
    BY <1>4, <1>6, <2>1, <2>2
  <2> QED
    BY <1>8, <2>1, <2>2, <2>3
<1> QED
  BY <1>8, <1>9, <1>10, <1>11 DEF Absorbed

\* g is h and a block in use behind the last.
OneMore(g, h, b, n) ==
  /\ g \in Seq(Block) /\ Len(g) = Len(h) + 1
  /\ \A j \in 1..Len(h) : g[j] = h[j]
  /\ g[Len(h) + 1].at = b /\ g[Len(h) + 1].size = n /\ ~g[Len(h) + 1].free
  /\ g[Len(h) + 1].prev = IF Len(h) = 0 THEN NULL ELSE Back(h[Len(h)].at)

\* AppendBlock: a block in use behind the last.
LEMMA AppendBlocks ==
  ASSUME NEW h \in Seq(Block), NEW b \in Nat, NEW n \in Nat,
         NEW g, g = AppendBlock(h, b, n)
  PROVE  OneMore(g, h, b, n)
<1>1. Len(h) \in Nat /\ \A j \in 1..Len(h) : h[j].at \in Nat
  BY Headers
<1>2. h = <<>> <=> Len(h) = 0
  BY EmptySeq
<1>3. PICK p : p = IF h = <<>> THEN NULL ELSE Back(Last(h).at)
  OBVIOUS
<1>4. p \in Nat /\ p = IF Len(h) = 0 THEN NULL ELSE Back(h[Len(h)].at)
  <2>1. CASE Len(h) = 0
    BY <1>2, <1>3, <2>1
  <2>2. CASE Len(h) # 0
    <3>1. Len(h) \in 1..Len(h)
      BY <1>1, <2>2
    <3> QED
      BY <1>1, <1>2, <1>3, <2>2, <3>1 DEF Last, Back
  <2> QED
    BY <2>1, <2>2
<1>5. PICK e : e = [at |-> b, size |-> n, free |-> FALSE, prev |-> p]
  OBVIOUS
<1>6. e \in Block /\ e.at = b /\ e.size = n /\ ~e.free /\ e.prev = p
  BY <1>4, <1>5 DEF Block
<1>7. g = Append(h, e)
  BY <1>3, <1>5 DEF AppendBlock
<1>8. /\ g \in Seq(Block) /\ Len(g) = Len(h) + 1
      /\ \A j \in 1..Len(h) : g[j] = h[j]
      /\ g[Len(h) + 1] = e
  BY <1>6, <1>7, <1>1, AppendProperties
<1> QED
  BY <1>4, <1>6, <1>8 DEF OneMore

-----------------------------------------------------------------------------
(* What split_block, Absorb and AppendBlock keep.                          *)

\* The bytes a list covers.
SameBytes(g, h) == \A a \in Nat : Covers(g, a) <=> Covers(h, a)

\* The blocks a list has in use.
SameUse(g, h) == \A a, s \in Nat : InUse(g, a, s) <=> InUse(h, a, s)

\* The end of a header's block.
LEMMA Ends ==
  ASSUME NEW h \in Seq(Block)
  PROVE  \A j \in 1..Len(h) :
           /\ BlockEnd(h[j]) = h[j].at + HDR + h[j].size
           /\ BlockEnd(h[j]) \in Nat /\ h[j].at < BlockEnd(h[j])
<1>1. \A j \in 1..Len(h) : h[j].at \in Nat /\ h[j].size \in Nat
  BY Headers
<1>2. HDR \in Nat \ {0}
  BY Sizes
<1> QED
  BY <1>1, <1>2 DEF BlockEnd

\* Headers that differ in prev only end alike.
LEMMA AlikeEnds ==
  ASSUME NEW m, NEW k, Alike(m, k)
  PROVE  m.at = k.at /\ m.size = k.size /\ m.free = k.free /\ BlockEnd(m) = BlockEnd(k)
BY DEF Alike, BlockEnd

\* After a split the blocks lie where they were, and the i-th one is in two.
LEMMA SplitWhere ==
  ASSUME NEW h \in Seq(Block), NEW i \in 1..Len(h), NEW w \in Nat,
         SplitWorthwhile(h[i], w),
         NEW g, g = split_block(h, i, w)
  PROVE  /\ Len(g) = Len(h) + 1 /\ g \in Seq(Block)
         /\ \A j \in 1..(i - 1) : g[j].at = h[j].at /\ BlockEnd(g[j]) = BlockEnd(h[j])
         /\ g[i].at = h[i].at /\ BlockEnd(g[i]) = g[i + 1].at
         /\ g[i].at < g[i + 1].at /\ g[i + 1].at < BlockEnd(h[i])
         /\ BlockEnd(g[i + 1]) = BlockEnd(h[i])
         /\ \A j \in (i + 1)..Len(h) :
              g[j + 1].at = h[j].at /\ BlockEnd(g[j + 1]) = BlockEnd(h[j])
<1>0. /\ g \in Seq(Block) /\ Len(g) = Len(h) + 1
      /\ \A j \in 1..(i - 1) : Alike(g[j], h[j]) /\ g[j].prev = h[j].prev
      /\ g[i].at = h[i].at /\ g[i].size = w /\ g[i].free = h[i].free
      /\ g[i].prev = h[i].prev
      /\ g[i + 1].at = h[i].at + HDR + w /\ g[i + 1].size = h[i].size - w - HDR
      /\ g[i + 1].free /\ g[i + 1].prev = Back(h[i].at)
      /\ \A j \in (i + 1)..Len(h) :
           /\ Alike(g[j + 1], h[j])
           /\ g[j + 1].prev = IF j = i + 1 THEN Back(g[i + 1].at) ELSE h[j].prev
  BY SplitBlocks
<1>1. /\ g \in Seq(Block) /\ Len(g) = Len(h) + 1
      /\ \A j \in 1..(i - 1) : Alike(g[j], h[j])
      /\ g[i].at = h[i].at /\ g[i].size = w
      /\ g[i + 1].at = h[i].at + HDR + w /\ g[i + 1].size = h[i].size - w - HDR
      /\ \A j \in (i + 1)..Len(h) : Alike(g[j + 1], h[j])
  BY <1>0
<1>2. PICK x \in Nat : x = h[i].at
  BY Headers
<1>3. PICK y \in Nat : y = h[i].size
  BY Headers
<1>4. /\ HDR \in Nat \ {0} /\ y > w + HDR
  <2>1. h[i].size > w + HDR + MIN_SPLIT_REMAINDER
    BY DEF SplitWorthwhile
  <2>2. HDR \in Nat \ {0} /\ MIN_SPLIT_REMAINDER \in Nat
    BY Sizes
  <2>3. y > w + HDR + MIN_SPLIT_REMAINDER
    BY <1>3, <2>1
  <2> QED
    BY <2>2, <2>3
<1>5. BlockEnd(h[i]) = x + HDR + y /\ BlockEnd(g[i]) = x + HDR + w
  BY <1>1, <1>2, <1>3 DEF BlockEnd
<1>6. BlockEnd(g[i + 1]) = x + HDR + w + HDR + (y - w - HDR) /\ g[i + 1].at = x + HDR + w
  BY <1>1, <1>2, <1>3 DEF BlockEnd
<1>7. /\ BlockEnd(g[i]) = g[i + 1].at
      /\ g[i].at < g[i + 1].at /\ g[i + 1].at < BlockEnd(h[i])
      /\ BlockEnd(g[i + 1]) = BlockEnd(h[i])
  <2>1. x + HDR + w < x + HDR + y /\ x < x + HDR + w
    BY <1>4
  <2>2. x + HDR + w + HDR + (y - w - HDR) = x + HDR + y
    BY <1>4
  <2>3. g[i].at = x
    BY <1>1, <1>2
  <2> QED
    BY <1>5, <1>6, <2>1, <2>2, <2>3
<1>8. \A j \in 1..(i - 1) : g[j].at = h[j].at /\ BlockEnd(g[j]) = BlockEnd(h[j])
  BY <1>1, AlikeEnds
<1>9. \A j \in (i + 1)..Len(h) : g[j + 1].at = h[j].at /\ BlockEnd(g[j + 1]) = BlockEnd(h[j])
  BY <1>1, AlikeEnds
<1> QED
  BY <1>1, <1>7, <1>8, <1>9

\* A split keeps the order and the bytes.
LEMMA SplitOrdered ==
  ASSUME NEW h \in Seq(Block), Ordered(h), NEW i \in 1..Len(h), NEW w \in Nat,
         SplitWorthwhile(h[i], w),
         NEW g, g = split_block(h, i, w)
  PROVE  Ordered(g) /\ SameBytes(g, h)
<1>1. /\ Len(g) = Len(h) + 1 /\ g \in Seq(Block)
      /\ \A j \in 1..(i - 1) : g[j].at = h[j].at /\ BlockEnd(g[j]) = BlockEnd(h[j])
      /\ g[i].at = h[i].at /\ BlockEnd(g[i]) = g[i + 1].at
      /\ g[i].at < g[i + 1].at /\ g[i + 1].at < BlockEnd(h[i])
      /\ BlockEnd(g[i + 1]) = BlockEnd(h[i])
      /\ \A j \in (i + 1)..Len(h) :
           g[j + 1].at = h[j].at /\ BlockEnd(g[j + 1]) = BlockEnd(h[j])
  BY SplitWhere
<1>2. /\ Len(h) \in Nat
      /\ \A j \in 1..Len(h) : h[j].at \in Nat /\ BlockEnd(h[j]) \in Nat
      /\ \A j \in 1..Len(g) : g[j].at \in Nat /\ BlockEnd(g[j]) \in Nat
  BY <1>1, Headers, Ends
<1>3. PICK from : from = [j \in 1..(Len(h) + 1) |-> IF j <= i THEN j ELSE j - 1]
  OBVIOUS
<1>4. ASSUME NEW j \in 1..(Len(h) + 1)
      PROVE  /\ from[j] \in 1..Len(h)
             /\ h[from[j]].at <= g[j].at /\ BlockEnd(g[j]) <= BlockEnd(h[from[j]])
  <2>1. CASE j \in 1..(i - 1)
    <3>1. from[j] = j /\ j \in 1..Len(h) /\ j \in 1..Len(g)
      BY <1>1, <1>2, <1>3, <2>1
    <3> QED
      BY <1>1, <1>2, <2>1, <3>1
  <2>2. CASE j = i
    <3>1. from[j] = j /\ i \in 1..Len(g) /\ i + 1 \in 1..Len(g)
      BY <1>1, <1>2, <1>3, <2>2
    <3> QED
      BY <1>1, <1>2, <2>2, <3>1
  <2>3. CASE j = i + 1
    <3>1. from[j] = i /\ i \in 1..Len(g) /\ i + 1 \in 1..Len(g)
      BY <1>1, <1>2, <1>3, <2>3
    <3> QED
      BY <1>1, <1>2, <2>3, <3>1
  <2>4. CASE j \in (i + 2)..(Len(h) + 1)
    <3>1. PICK l \in (i + 1)..Len(h) : j = l + 1
      <4>1. j - 1 \in (i + 1)..Len(h) /\ j = (j - 1) + 1
        BY <1>2, <2>4
      <4> QED
        BY <4>1
    <3>2. from[j] = l /\ l \in 1..Len(h)
      BY <1>2, <1>3, <2>4, <3>1
    <3>3. g[j].at = h[l].at /\ BlockEnd(g[j]) = BlockEnd(h[l])
      BY <1>1, <3>1
    <3> QED
      BY <1>2, <3>2, <3>3
  <2> QED
    BY <1>2, <2>1, <2>2, <2>3, <2>4
<1>5. ASSUME NEW j \in 1..(Len(h) + 1), NEW k \in 1..(Len(h) + 1), j < k
      PROVE  BlockEnd(g[j]) <= g[k].at
  <2>1. CASE from[j] < from[k]
    <3>1. BlockEnd(h[from[j]]) <= h[from[k]].at
      BY <1>4, <2>1 DEF Ordered
    <3>2. /\ BlockEnd(g[j]) \in Nat /\ BlockEnd(h[from[j]]) \in Nat
          /\ h[from[k]].at \in Nat /\ g[k].at \in Nat
      BY <1>1, <1>2, <1>4
    <3>3. BlockEnd(g[j]) <= BlockEnd(h[from[j]]) /\ h[from[k]].at <= g[k].at
      BY <1>4
    <3> QED
      BY <3>1, <3>2, <3>3
  <2>2. CASE ~(from[j] < from[k])
    <3>1. j = i /\ k = i + 1
      BY <1>2, <1>3, <1>5, <2>2
    <3>2. g[k].at \in Nat
      BY <1>1, <1>2
    <3> QED
      BY <1>1, <3>1, <3>2
  <2> QED
    BY <2>1, <2>2
<1>6. Ordered(g)
  BY <1>1, <1>5 DEF Ordered
<1>7. ASSUME NEW a \in Nat, Covers(g, a)
      PROVE  Covers(h, a)
  <2>1. PICK j \in 1..(Len(h) + 1) : g[j].at <= a /\ a < BlockEnd(g[j])
    BY <1>1, <1>7 DEF Covers
  <2>2. h[from[j]].at <= a /\ a < BlockEnd(h[from[j]]) /\ from[j] \in 1..Len(h)
    <3>1. /\ from[j] \in 1..Len(h)
          /\ h[from[j]].at <= g[j].at /\ BlockEnd(g[j]) <= BlockEnd(h[from[j]])
      BY <1>4
    <3>2. PICK f \in 1..Len(h) : f = from[j]
      BY <3>1
    <3>3. /\ BlockEnd(g[j]) \in Nat /\ BlockEnd(h[f]) \in Nat
          /\ h[f].at \in Nat /\ g[j].at \in Nat
      BY <1>1, <1>2, <3>1
    <3>4. h[f].at <= a /\ a < BlockEnd(h[f])
      BY <2>1, <3>1, <3>2, <3>3
    <3> QED
      BY <3>2, <3>4
  <2> QED
    BY <2>2 DEF Covers
<1>8. ASSUME NEW a \in Nat, Covers(h, a)
      PROVE  Covers(g, a)
  <2>1. PICK j \in 1..Len(h) : h[j].at <= a /\ a < BlockEnd(h[j])
    BY <1>8 DEF Covers
  <2>2. CASE j \in 1..(i - 1)
    <3>1. j \in 1..Len(g)
      BY <1>1, <1>2
    <3> QED
      BY <1>1, <2>1, <2>2, <3>1 DEF Covers
  <2>3. CASE j = i
    <3>1. i \in 1..Len(g) /\ i + 1 \in 1..Len(g)
      BY <1>1, <1>2
    <3>2. g[i + 1].at \in Nat
      BY <1>2, <3>1
    <3>3. CASE a < g[i + 1].at
      BY <1>1, <2>1, <2>3, <3>1, <3>3 DEF Covers
    <3>4. CASE ~(a < g[i + 1].at)
      <4>1. g[i + 1].at <= a /\ a < BlockEnd(g[i + 1])
        BY <1>1, <2>1, <2>3, <3>2, <3>4
      <4> QED
        BY <3>1, <4>1 DEF Covers
    <3> QED
      BY <3>3, <3>4
  <2>4. CASE j \in (i + 1)..Len(h)
    <3>1. j + 1 \in 1..Len(g)
      BY <1>1, <1>2
    <3> QED
      BY <1>1, <2>1, <2>4, <3>1 DEF Covers
  <2> QED
    BY <1>2, <2>2, <2>3, <2>4
<1> QED
  BY <1>6, <1>7, <1>8 DEF SameBytes

\* Two blocks of a list begin at different addresses, and an address belongs to
\* at most one block.
LEMMA Apart ==
  ASSUME NEW h \in Seq(Block), Ordered(h),
         NEW j \in 1..Len(h), NEW k \in 1..Len(h), j # k
  PROVE  /\ h[j].at # h[k].at
         /\ \A a \in Nat : ~(/\ h[j].at <= a /\ a < BlockEnd(h[j])
                             /\ h[k].at <= a /\ a < BlockEnd(h[k]))
<1>1. Len(h) \in Nat /\ j \in Nat /\ k \in Nat
  BY Headers
<1>2. /\ h[j].at \in Nat /\ BlockEnd(h[j]) \in Nat /\ h[j].at < BlockEnd(h[j])
      /\ h[k].at \in Nat /\ BlockEnd(h[k]) \in Nat /\ h[k].at < BlockEnd(h[k])
  BY Headers, Ends
<1>3. BlockEnd(h[j]) <= h[k].at \/ BlockEnd(h[k]) <= h[j].at
  BY <1>1 DEF Ordered
<1> QED
  BY <1>2, <1>3

\* After a split prev is the inverse of next.
LEMMA SplitLinked ==
  ASSUME NEW h \in Seq(Block), Linked(h), NEW i \in 1..Len(h), NEW w \in Nat,
         SplitWorthwhile(h[i], w),
         NEW g, g = split_block(h, i, w)
  PROVE  Linked(g)
<1>1. /\ g \in Seq(Block) /\ Len(g) = Len(h) + 1
      /\ \A j \in 1..(i - 1) : Alike(g[j], h[j]) /\ g[j].prev = h[j].prev
      /\ g[i].at = h[i].at /\ g[i].size = w /\ g[i].free = h[i].free
      /\ g[i].prev = h[i].prev
      /\ g[i + 1].at = h[i].at + HDR + w /\ g[i + 1].size = h[i].size - w - HDR
      /\ g[i + 1].free /\ g[i + 1].prev = Back(h[i].at)
      /\ \A j \in (i + 1)..Len(h) :
           /\ Alike(g[j + 1], h[j])
           /\ g[j + 1].prev = IF j = i + 1 THEN Back(g[i + 1].at) ELSE h[j].prev
  BY SplitBlocks
<1>2. Len(h) \in Nat
  BY Headers
<1>3. \A j \in 1..Len(h) : h[j].prev = IF j > 1 THEN Back(h[j - 1].at) ELSE NULL
  BY DEF Linked
<1>4. \A j \in 1..i : g[j].at = h[j].at /\ g[j].prev = h[j].prev
  <2> SUFFICES ASSUME NEW j \in 1..i PROVE g[j].at = h[j].at /\ g[j].prev = h[j].prev
    OBVIOUS
  <2>1. CASE j = i
    BY <1>1, <2>1
  <2>2. CASE j # i
    <3>1. j \in 1..(i - 1)
      BY <2>2
    <3> QED
      BY <1>1, <3>1 DEF Alike
  <2> QED
    BY <2>1, <2>2
<1>5. \A j \in (i + 1)..Len(h) : g[j + 1].at = h[j].at
  BY <1>1 DEF Alike
<1>6. ASSUME NEW j \in 1..(Len(h) + 1)
      PROVE  g[j].prev = IF j > 1 THEN Back(g[j - 1].at) ELSE NULL
  <2>1. CASE j \in 1..i
    <3>1. j \in 1..Len(h) /\ (j > 1 => j - 1 \in 1..i)
      BY <1>2, <2>1
    <3> QED
      BY <1>3, <1>4, <2>1, <3>1
  <2>2. CASE j = i + 1
    <3>1. j - 1 = i /\ j > 1 /\ g[i].at = h[i].at
      BY <1>1, <2>2
    <3> QED
      BY <1>1, <2>2, <3>1
  <2>3. CASE j = i + 2
    <3>1. i + 1 \in (i + 1)..Len(h) /\ j - 1 = i + 1 /\ j = (i + 1) + 1 /\ j > 1
      BY <1>2, <2>3
    <3>2. g[(i + 1) + 1].prev = Back(g[i + 1].at)
      BY <1>1, <3>1
    <3> QED
      BY <3>1, <3>2
  <2>4. CASE j \in (i + 3)..(Len(h) + 1)
    <3>1. PICK l \in (i + 2)..Len(h) : j = l + 1
      <4>1. j - 1 \in (i + 2)..Len(h) /\ j = (j - 1) + 1
        BY <1>2, <2>4
      <4> QED
        BY <4>1
    <3>2. /\ l \in (i + 1)..Len(h) /\ l - 1 \in (i + 1)..Len(h) /\ l # i + 1
          /\ l \in 1..Len(h) /\ l > 1 /\ (l - 1) + 1 = l /\ j > 1 /\ j - 1 = l
      BY <1>2, <3>1
    <3>3. g[l + 1].prev = h[l].prev /\ h[l].prev = Back(h[l - 1].at)
      BY <1>1, <1>3, <3>2
    <3>4. g[l].at = h[l - 1].at
      BY <1>5, <3>2
    <3> QED
      BY <3>1, <3>2, <3>3, <3>4
  <2> QED
    BY <1>2, <2>1, <2>2, <2>3, <2>4
<1> QED
  BY <1>1, <1>6 DEF Linked

\* A split leaves the use of every other block alone.
LEMMA SplitUse ==
  ASSUME NEW h \in Seq(Block), Ordered(h), NEW i \in 1..Len(h), NEW w \in Nat,
         SplitWorthwhile(h[i], w),
         NEW g, g = split_block(h, i, w)
  PROVE  \A a, s \in Nat :
           InUse(g, a, s) <=> \/ InUse(h, a, s) /\ a # h[i].at
                              \/ ~h[i].free /\ a = h[i].at /\ s = w
<1>1. /\ g \in Seq(Block) /\ Len(g) = Len(h) + 1
      /\ \A j \in 1..(i - 1) : Alike(g[j], h[j]) /\ g[j].prev = h[j].prev
      /\ g[i].at = h[i].at /\ g[i].size = w /\ g[i].free = h[i].free
      /\ g[i].prev = h[i].prev
      /\ g[i + 1].at = h[i].at + HDR + w /\ g[i + 1].size = h[i].size - w - HDR
      /\ g[i + 1].free /\ g[i + 1].prev = Back(h[i].at)
      /\ \A j \in (i + 1)..Len(h) :
           /\ Alike(g[j + 1], h[j])
           /\ g[j + 1].prev = IF j = i + 1 THEN Back(g[i + 1].at) ELSE h[j].prev
  BY SplitBlocks
<1>2. Len(h) \in Nat
  BY Headers
<1>3. \A j \in 1..(i - 1) : g[j].at = h[j].at /\ g[j].size = h[j].size /\ g[j].free = h[j].free
  BY <1>1 DEF Alike
<1>4. \A j \in (i + 1)..Len(h) :
        g[j + 1].at = h[j].at /\ g[j + 1].size = h[j].size /\ g[j + 1].free = h[j].free
  BY <1>1 DEF Alike
<1>5. ASSUME NEW j \in 1..Len(h), j # i
      PROVE  h[j].at # h[i].at
  BY <1>5, Apart
<1> SUFFICES ASSUME NEW a \in Nat, NEW s \in Nat
             PROVE  InUse(g, a, s) <=> \/ InUse(h, a, s) /\ a # h[i].at
                                       \/ ~h[i].free /\ a = h[i].at /\ s = w
  OBVIOUS
<1>6. ASSUME InUse(g, a, s)
      PROVE  \/ InUse(h, a, s) /\ a # h[i].at
             \/ ~h[i].free /\ a = h[i].at /\ s = w
  <2>1. PICK j \in 1..(Len(h) + 1) : ~g[j].free /\ g[j].at = a /\ g[j].size = s
    BY <1>1, <1>6 DEF InUse
  <2>2. CASE j \in 1..(i - 1)
    <3>1. j \in 1..Len(h) /\ j # i
      BY <1>2, <2>2
    <3>2. ~h[j].free /\ h[j].at = a /\ h[j].size = s
      BY <1>3, <2>1, <2>2
    <3> QED
      BY <1>5, <3>1, <3>2 DEF InUse
  <2>3. CASE j = i
    BY <1>1, <2>1, <2>3
  <2>4. CASE j = i + 1
    BY <1>1, <2>1, <2>4
  <2>5. CASE j \in (i + 2)..(Len(h) + 1)
    <3>1. j - 1 \in (i + 1)..Len(h) /\ j = (j - 1) + 1
      BY <1>2, <2>5
    <3>2. PICK l \in (i + 1)..Len(h) : j = l + 1
      BY <3>1
    <3>3. ~h[l].free /\ h[l].at = a /\ h[l].size = s
      BY <1>4, <2>1, <3>2
    <3>4. l \in 1..Len(h) /\ l # i
      BY <1>2, <3>2
    <3> QED
      BY <1>5, <3>3, <3>4 DEF InUse
  <2> QED
    BY <1>2, <2>2, <2>3, <2>4, <2>5
<1>7. ASSUME InUse(h, a, s), a # h[i].at
      PROVE  InUse(g, a, s)
  <2>1. PICK j \in 1..Len(h) : ~h[j].free /\ h[j].at = a /\ h[j].size = s
    BY <1>7 DEF InUse
  <2>2. CASE j \in 1..(i - 1)
    <3>1. j \in 1..Len(g)
      BY <1>1, <1>2
    <3>2. ~g[j].free /\ g[j].at = a /\ g[j].size = s
      BY <1>3, <2>1, <2>2
    <3> QED
      BY <3>1, <3>2 DEF InUse
  <2>3. CASE j = i
    BY <1>7, <2>1, <2>3
  <2>4. CASE j \in (i + 1)..Len(h)
    <3>1. j + 1 \in 1..Len(g)
      BY <1>1, <1>2
    <3>2. ~g[j + 1].free /\ g[j + 1].at = a /\ g[j + 1].size = s
      BY <1>4, <2>1, <2>4
    <3> QED
      BY <3>1, <3>2 DEF InUse
  <2> QED
    BY <1>2, <2>2, <2>3, <2>4
<1>8. ASSUME ~h[i].free, a = h[i].at, s = w
      PROVE  InUse(g, a, s)
  <2>1. i \in 1..Len(g)
    BY <1>1, <1>2
  <2>2. ~g[i].free /\ g[i].at = a /\ g[i].size = s
    BY <1>1, <1>8
  <2> QED
    BY <2>1, <2>2 DEF InUse
<1> QED
  BY <1>6, <1>7, <1>8

\* A split at a multiple of ALIGN leaves blocks at multiples of ALIGN.
LEMMA SplitEven ==
  ASSUME NEW h \in Seq(Block), Even(h), NEW i \in 1..Len(h), NEW w \in Nat,
         SplitWorthwhile(h[i], w), w % ALIGN = 0, HDR % ALIGN = 0,
         NEW g, g = split_block(h, i, w)
  PROVE  Even(g)
<1>1. /\ g \in Seq(Block) /\ Len(g) = Len(h) + 1
      /\ \A j \in 1..(i - 1) : Alike(g[j], h[j]) /\ g[j].prev = h[j].prev
      /\ g[i].at = h[i].at /\ g[i].size = w /\ g[i].free = h[i].free
      /\ g[i].prev = h[i].prev
      /\ g[i + 1].at = h[i].at + HDR + w /\ g[i + 1].size = h[i].size - w - HDR
      /\ g[i + 1].free /\ g[i + 1].prev = Back(h[i].at)
      /\ \A j \in (i + 1)..Len(h) :
           /\ Alike(g[j + 1], h[j])
           /\ g[j + 1].prev = IF j = i + 1 THEN Back(g[i + 1].at) ELSE h[j].prev
  BY SplitBlocks
<1>2. Len(h) \in Nat
  BY Headers
<1>3. \A j \in 1..Len(h) : h[j].at % ALIGN = 0 /\ h[j].size % ALIGN = 0
  BY DEF Even
<1>4. g[i + 1].at % ALIGN = 0 /\ g[i + 1].size % ALIGN = 0
  <2>1. PICK x \in Nat : x = h[i].at
    BY Headers
  <2>2. PICK y \in Nat : y = h[i].size
    BY Headers
  <2>3. HDR \in Nat /\ ALIGN \in Nat \ {0} /\ y > w + HDR
    <3>1. HDR \in Nat /\ ALIGN \in Nat \ {0} /\ MIN_SPLIT_REMAINDER \in Nat
      BY Sizes
    <3>2. y > w + HDR + MIN_SPLIT_REMAINDER
      BY <2>2 DEF SplitWorthwhile
    <3> QED
      BY <3>1, <3>2
  <2>4. x % ALIGN = 0 /\ y % ALIGN = 0
    BY <1>3, <2>1, <2>2
  <2>5. x + HDR \in Nat /\ y - w \in Nat /\ w <= y /\ HDR <= y - w
    BY <2>3
  <2>6. (x + HDR) % ALIGN = 0 /\ (y - w) % ALIGN = 0
    BY <2>3, <2>4, <2>5, MultiplesAdd
  <2>7. (x + HDR + w) % ALIGN = 0 /\ (y - w - HDR) % ALIGN = 0
    BY <2>3, <2>5, <2>6, MultiplesAdd
  <2> QED
    BY <1>1, <2>1, <2>2, <2>7
<1>5. ASSUME NEW j \in 1..(Len(h) + 1)
      PROVE  g[j].at % ALIGN = 0 /\ g[j].size % ALIGN = 0
  <2>1. CASE j \in 1..(i - 1)
    <3>1. j \in 1..Len(h)
      BY <1>2, <2>1
    <3> QED
      BY <1>1, <1>3, <2>1, <3>1 DEF Alike
  <2>2. CASE j = i
    BY <1>1, <1>3, <2>2
  <2>3. CASE j = i + 1
    BY <1>4, <2>3
  <2>4. CASE j \in (i + 2)..(Len(h) + 1)
    <3>1. PICK l \in (i + 1)..Len(h) : j = l + 1
      <4>1. j - 1 \in (i + 1)..Len(h) /\ j = (j - 1) + 1
        BY <1>2, <2>4
      <4> QED
        BY <4>1
    <3>2. l \in 1..Len(h)
      BY <1>2, <3>1
    <3>3. g[l + 1].at = h[l].at /\ g[l + 1].size = h[l].size
      BY <1>1, <3>1 DEF Alike
    <3> QED
      BY <1>3, <3>1, <3>2, <3>3
  <2> QED
    BY <1>2, <2>1, <2>2, <2>3, <2>4
<1> QED
  BY <1>1, <1>5 DEF Even

\* The i-th block of h has n bytes in g, and nothing else is used differently.
Resized(g, h, i, n) ==
  \A a, s \in Nat :
    InUse(g, a, s) <=> \/ InUse(h, a, s) /\ a # h[i].at
                       \/ ~h[i].free /\ a = h[i].at /\ s = n

\* split_block as a whole: the list stays well formed, covers what it covered,
\* and the i-th block keeps at least w bytes.
LEMMA Split ==
  ASSUME NEW h \in Seq(Block), Ordered(h), Linked(h),
         NEW i \in 1..Len(h), NEW w \in Nat, w <= h[i].size,
         NEW g, g = split_block(h, i, w)
  PROVE  /\ GoodList(g) /\ SameBytes(g, h)
         /\ Even(h) /\ w % ALIGN = 0 /\ HDR % ALIGN = 0 => Even(g)
         /\ \E n \in Nat : w <= n /\ Resized(g, h, i, n)
<1>1. CASE SplitWorthwhile(h[i], w)
  <2>1. g \in Seq(Block)
    BY <1>1, SplitWhere
  <2>2. Ordered(g) /\ SameBytes(g, h)
    BY <1>1, SplitOrdered
  <2>3. Linked(g)
    BY <1>1, SplitLinked
  <2>4. Even(h) /\ w % ALIGN = 0 /\ HDR % ALIGN = 0 => Even(g)
    BY <1>1, SplitEven
  <2>5. Resized(g, h, i, w)
    BY <1>1, SplitUse DEF Resized
  <2> QED
    BY <2>1, <2>2, <2>3, <2>4, <2>5 DEF GoodList
<1>2. CASE ~SplitWorthwhile(h[i], w)
  <2>1. g = h
    BY <1>2 DEF split_block
  <2>2. h[i].size \in Nat /\ h[i].free \in BOOLEAN
    BY Headers
  <2>3. ASSUME NEW a \in Nat, NEW s \in Nat
        PROVE  InUse(h, a, s) <=> \/ InUse(h, a, s) /\ a # h[i].at
                                  \/ ~h[i].free /\ a = h[i].at /\ s = h[i].size
    <3>1. ASSUME InUse(h, a, s), a = h[i].at
          PROVE  ~h[i].free /\ s = h[i].size
      <4>1. PICK j \in 1..Len(h) : ~h[j].free /\ h[j].at = a /\ h[j].size = s
        BY <3>1 DEF InUse
      <4>2. j = i
        BY <3>1, <4>1, Apart
      <4> QED
        BY <4>1, <4>2
    <3>2. ASSUME ~h[i].free, a = h[i].at, s = h[i].size
          PROVE  InUse(h, a, s)
      BY <3>2 DEF InUse
    <3> QED
      BY <3>1, <3>2
  <2>4. SameBytes(g, h) /\ GoodList(g)
    BY <2>1 DEF SameBytes, GoodList
  <2>5. Resized(g, h, i, h[i].size)
    BY <2>1, <2>3 DEF Resized
  <2> QED
    BY <2>1, <2>2, <2>4, <2>5
<1> QED
  BY <1>1, <1>2

\* The i-th block is free and merges with the one behind it.
CanAbsorb(h, i) == i < Len(h) /\ Mergeable(h, i)

\* The blocks of g lie where those of h do, but the i-th reaches to the end of
\* the one behind it.
MergedAt(g, h, i) ==
  /\ Len(g) = Len(h) - 1 /\ g \in Seq(Block)
  /\ \A j \in 1..(i - 1) : g[j].at = h[j].at /\ BlockEnd(g[j]) = BlockEnd(h[j])
  /\ g[i].at = h[i].at /\ BlockEnd(g[i]) = BlockEnd(h[i + 1])
  /\ BlockEnd(h[i]) = h[i + 1].at
  /\ \A j \in (i + 1)..(Len(h) - 1) :
       g[j].at = h[j + 1].at /\ BlockEnd(g[j]) = BlockEnd(h[j + 1])

\* Absorb merges the memory of two adjacent blocks.
LEMMA AbsorbWhere ==
  ASSUME NEW h \in Seq(Block), NEW i \in 1..Len(h), CanAbsorb(h, i),
         NEW g, g = Absorb(h, i)
  PROVE  MergedAt(g, h, i)
<1>0. i < Len(h)
  BY DEF CanAbsorb
<1>1. /\ g \in Seq(Block) /\ Len(g) = Len(h) - 1
      /\ \A j \in 1..(i - 1) : Alike(g[j], h[j]) /\ g[j].prev = h[j].prev
      /\ g[i].at = h[i].at /\ g[i].size = h[i].size + HDR + h[i + 1].size
      /\ g[i].free = h[i].free /\ g[i].prev = h[i].prev
      /\ \A j \in (i + 1)..(Len(h) - 1) :
           /\ Alike(g[j], h[j + 1])
           /\ g[j].prev = IF j = i + 1 THEN Back(h[i].at) ELSE h[j + 1].prev
  <2>1. Absorbed(g, h, i)
    BY <1>0, AbsorbBlocks
  <2> QED
    BY <2>1 DEF Absorbed
<1>2. Len(h) \in Nat /\ i + 1 \in 1..Len(h)
  BY <1>0, Headers
<1>3. PICK x \in Nat : x = h[i].at
  BY Headers
<1>4. PICK y \in Nat : y = h[i].size
  BY Headers
<1>5. PICK z \in Nat : z = h[i + 1].size
  BY <1>2, Headers
<1>6. HDR \in Nat /\ x + HDR + y = h[i + 1].at
  <2>1. h[i].at + HDR + h[i].size = h[i + 1].at
    BY DEF CanAbsorb, Mergeable, are_adjacent
  <2> QED
    BY <1>3, <1>4, <2>1, Sizes
<1>7. BlockEnd(g[i]) = x + HDR + (y + HDR + z)
  BY <1>1, <1>3, <1>4, <1>5 DEF BlockEnd
<1>8. BlockEnd(h[i + 1]) = h[i + 1].at + HDR + z /\ BlockEnd(h[i]) = x + HDR + y
  BY <1>3, <1>4, <1>5 DEF BlockEnd
<1>9. BlockEnd(h[i + 1]) = (x + HDR + y) + HDR + z
  BY <1>6, <1>8
<1>10. x + HDR + (y + HDR + z) = (x + HDR + y) + HDR + z
  BY <1>6
<1>11. \A j \in 1..(i - 1) : g[j].at = h[j].at /\ BlockEnd(g[j]) = BlockEnd(h[j])
  BY <1>1, AlikeEnds
<1>12. \A j \in (i + 1)..(Len(h) - 1) :
         g[j].at = h[j + 1].at /\ BlockEnd(g[j]) = BlockEnd(h[j + 1])
  BY <1>1, AlikeEnds
<1>13. BlockEnd(g[i]) = BlockEnd(h[i + 1]) /\ BlockEnd(h[i]) = h[i + 1].at
  BY <1>6, <1>7, <1>8, <1>9, <1>10
<1> QED
  BY <1>1, <1>11, <1>12, <1>13 DEF MergedAt

\* A merge keeps the order and the bytes.
LEMMA AbsorbOrdered ==
  ASSUME NEW h \in Seq(Block), Ordered(h), NEW i \in 1..Len(h), CanAbsorb(h, i),
         NEW g, g = Absorb(h, i)
  PROVE  Ordered(g) /\ SameBytes(g, h)
<1>0. i < Len(h)
  BY DEF CanAbsorb
<1>1. /\ Len(g) = Len(h) - 1 /\ g \in Seq(Block)
      /\ \A j \in 1..(i - 1) : g[j].at = h[j].at /\ BlockEnd(g[j]) = BlockEnd(h[j])
      /\ g[i].at = h[i].at /\ BlockEnd(g[i]) = BlockEnd(h[i + 1])
      /\ BlockEnd(h[i]) = h[i + 1].at
      /\ \A j \in (i + 1)..(Len(h) - 1) :
           g[j].at = h[j + 1].at /\ BlockEnd(g[j]) = BlockEnd(h[j + 1])
  <2>1. MergedAt(g, h, i)
    BY AbsorbWhere
  <2> QED
    BY <2>1 DEF MergedAt
<1>2. /\ Len(h) \in Nat
      /\ \A j \in 1..Len(h) : h[j].at \in Nat /\ BlockEnd(h[j]) \in Nat /\ h[j].at < BlockEnd(h[j])
  BY Headers, Ends
<1>3. PICK first : first = [j \in 1..(Len(h) - 1) |-> IF j <= i THEN j ELSE j + 1]
  OBVIOUS
<1>4. PICK last : last = [j \in 1..(Len(h) - 1) |-> IF j < i THEN j ELSE j + 1]
  OBVIOUS
<1>5. ASSUME NEW j \in 1..(Len(h) - 1)
      PROVE  /\ first[j] \in 1..Len(h) /\ last[j] \in 1..Len(h)
             /\ g[j].at = h[first[j]].at /\ BlockEnd(g[j]) = BlockEnd(h[last[j]])
  <2>1. CASE j \in 1..(i - 1)
    <3>1. first[j] = j /\ last[j] = j /\ j \in 1..Len(h)
      BY <1>2, <1>3, <1>4, <2>1
    <3> QED
      BY <1>1, <2>1, <3>1
  <2>2. CASE j = i
    <3>1. first[j] = i /\ last[j] = i + 1 /\ i + 1 \in 1..Len(h)
      BY <1>0, <1>2, <1>3, <1>4, <2>2
    <3> QED
      BY <1>1, <2>2, <3>1
  <2>3. CASE j \in (i + 1)..(Len(h) - 1)
    <3>1. first[j] = j + 1 /\ last[j] = j + 1 /\ j + 1 \in 1..Len(h)
      BY <1>2, <1>3, <1>4, <2>3
    <3> QED
      BY <1>1, <2>3, <3>1
  <2> QED
    BY <1>2, <2>1, <2>2, <2>3
<1>6. ASSUME NEW j \in 1..(Len(h) - 1), NEW k \in 1..(Len(h) - 1), j < k
      PROVE  BlockEnd(g[j]) <= g[k].at
  <2>1. last[j] < first[k]
    BY <1>2, <1>3, <1>4, <1>6
  <2>2. BlockEnd(h[last[j]]) <= h[first[k]].at
    BY <1>5, <2>1 DEF Ordered
  <2> QED
    BY <1>5, <2>2
<1>7. Ordered(g)
  BY <1>1, <1>6 DEF Ordered
<1>8. ASSUME NEW a \in Nat, Covers(g, a)
      PROVE  Covers(h, a)
  <2>1. PICK j \in 1..(Len(h) - 1) : g[j].at <= a /\ a < BlockEnd(g[j])
    BY <1>1, <1>8 DEF Covers
  <2>2. CASE j = i
    <3>1. i + 1 \in 1..Len(h) /\ h[i + 1].at \in Nat
      BY <1>0, <1>2
    <3>2. CASE a < h[i + 1].at
      <4>1. h[i].at <= a /\ a < BlockEnd(h[i])
        BY <1>1, <2>1, <2>2, <3>2
      <4> QED
        BY <4>1 DEF Covers
    <3>3. CASE ~(a < h[i + 1].at)
      <4>1. h[i + 1].at <= a /\ a < BlockEnd(h[i + 1])
        BY <1>1, <2>1, <2>2, <3>1, <3>3
      <4> QED
        BY <3>1, <4>1 DEF Covers
    <3> QED
      BY <3>2, <3>3
  <2>3. CASE j # i
    <3>1. first[j] = last[j] /\ first[j] \in 1..Len(h)
      BY <1>2, <1>3, <1>4, <1>5, <2>3
    <3>2. PICK l \in 1..Len(h) : l = first[j]
      BY <3>1
    <3>3. h[l].at <= a /\ a < BlockEnd(h[l])
      BY <1>5, <2>1, <3>1, <3>2
    <3> QED
      BY <3>3 DEF Covers
  <2> QED
    BY <2>2, <2>3
<1>9. ASSUME NEW a \in Nat, Covers(h, a)
      PROVE  Covers(g, a)
  <2>1. PICK j \in 1..Len(h) : h[j].at <= a /\ a < BlockEnd(h[j])
    BY <1>9 DEF Covers
  <2>2. CASE j \in 1..(i - 1)
    <3>1. j \in 1..Len(g)
      BY <1>0, <1>1, <1>2, <2>2
    <3> QED
      BY <1>1, <2>1, <2>2, <3>1 DEF Covers
  <2>3. CASE j \in {i, i + 1}
    <3>1. i \in 1..Len(g) /\ i + 1 \in 1..Len(h)
      BY <1>0, <1>1, <1>2
    <3>2. /\ h[i].at \in Nat /\ h[i + 1].at \in Nat /\ BlockEnd(h[i + 1]) \in Nat
          /\ h[i].at < h[i + 1].at /\ h[i + 1].at < BlockEnd(h[i + 1])
      BY <1>1, <1>2, <3>1
    <3>3. h[i].at <= a /\ a < BlockEnd(h[i + 1])
      BY <1>1, <2>1, <2>3, <3>2
    <3>4. g[i].at <= a /\ a < BlockEnd(g[i])
      BY <1>1, <3>3
    <3> QED
      BY <3>1, <3>4 DEF Covers
  <2>4. CASE j \in (i + 2)..Len(h)
    <3>1. PICK l \in (i + 1)..(Len(h) - 1) : j = l + 1
      <4>1. j - 1 \in (i + 1)..(Len(h) - 1) /\ j = (j - 1) + 1
        BY <1>2, <2>4
      <4> QED
        BY <4>1
    <3>2. l \in 1..Len(g)
      BY <1>1, <1>2, <3>1
    <3>3. g[l].at <= a /\ a < BlockEnd(g[l])
      BY <1>1, <2>1, <3>1
    <3> QED
      BY <3>2, <3>3 DEF Covers
  <2> QED
    BY <1>2, <2>2, <2>3, <2>4
<1> QED
  BY <1>7, <1>8, <1>9 DEF SameBytes

\* After a merge prev is the inverse of next.
LEMMA AbsorbLinked ==
  ASSUME NEW h \in Seq(Block), Linked(h), NEW i \in 1..Len(h), i < Len(h),
         NEW g, g = Absorb(h, i)
  PROVE  Linked(g)
<1>1. /\ g \in Seq(Block) /\ Len(g) = Len(h) - 1
      /\ \A j \in 1..(i - 1) : Alike(g[j], h[j]) /\ g[j].prev = h[j].prev
      /\ g[i].at = h[i].at /\ g[i].size = h[i].size + HDR + h[i + 1].size
      /\ g[i].free = h[i].free /\ g[i].prev = h[i].prev
      /\ \A j \in (i + 1)..(Len(h) - 1) :
           /\ Alike(g[j], h[j + 1])
           /\ g[j].prev = IF j = i + 1 THEN Back(h[i].at) ELSE h[j + 1].prev
  <2>1. Absorbed(g, h, i)
    BY AbsorbBlocks
  <2> QED
    BY <2>1 DEF Absorbed
<1>2. Len(h) \in Nat
  BY Headers
<1>3. \A j \in 1..Len(h) : h[j].prev = IF j > 1 THEN Back(h[j - 1].at) ELSE NULL
  BY DEF Linked
<1>4. \A j \in 1..i : g[j].at = h[j].at /\ g[j].prev = h[j].prev
  <2> SUFFICES ASSUME NEW j \in 1..i PROVE g[j].at = h[j].at /\ g[j].prev = h[j].prev
    OBVIOUS
  <2>1. CASE j = i
    BY <1>1, <2>1
  <2>2. CASE j # i
    <3>1. j \in 1..(i - 1)
      BY <2>2
    <3> QED
      BY <1>1, <3>1 DEF Alike
  <2> QED
    BY <2>1, <2>2
<1>5. \A j \in (i + 1)..(Len(h) - 1) : g[j].at = h[j + 1].at
  BY <1>1 DEF Alike
<1>6. ASSUME NEW j \in 1..(Len(h) - 1)
      PROVE  g[j].prev = IF j > 1 THEN Back(g[j - 1].at) ELSE NULL
  <2>1. CASE j \in 1..i
    <3>1. j \in 1..Len(h) /\ (j > 1 => j - 1 \in 1..i)
      BY <1>2, <2>1
    <3> QED
      BY <1>3, <1>4, <2>1, <3>1
  <2>2. CASE j = i + 1
    <3>1. j \in (i + 1)..(Len(h) - 1) /\ j > 1 /\ j - 1 = i
      BY <1>2, <2>2
    <3> QED
      BY <1>1, <2>2, <3>1
  <2>3. CASE j \in (i + 2)..(Len(h) - 1)
    <3>1. /\ j \in (i + 1)..(Len(h) - 1) /\ j # i + 1 /\ j > 1
          /\ j + 1 \in 1..Len(h) /\ j + 1 > 1 /\ (j + 1) - 1 = j
      BY <1>2, <2>3
    <3>2. PICK l \in (i + 1)..(Len(h) - 1) : j = l + 1
      <4>1. j - 1 \in (i + 1)..(Len(h) - 1) /\ j = (j - 1) + 1
        BY <1>2, <2>3
      <4> QED
        BY <4>1
    <3>3. g[j].prev = h[j + 1].prev /\ h[j + 1].prev = Back(h[j].at)
      BY <1>1, <1>3, <3>1
    <3>4. g[l].at = h[j].at /\ j - 1 = l
      BY <1>5, <3>2
    <3> QED
      BY <3>1, <3>3, <3>4
  <2> QED
    BY <1>2, <2>1, <2>2, <2>3
<1> QED
  BY <1>1, <1>6 DEF Linked

\* A merge is of free blocks: what is in use stays as it is.
LEMMA AbsorbUse ==
  ASSUME NEW h \in Seq(Block), NEW i \in 1..Len(h), CanAbsorb(h, i),
         NEW g, g = Absorb(h, i)
  PROVE  SameUse(g, h)
<1>0. i < Len(h) /\ h[i].free /\ h[i + 1].free
  BY DEF CanAbsorb, Mergeable
<1>1. /\ g \in Seq(Block) /\ Len(g) = Len(h) - 1
      /\ \A j \in 1..(i - 1) : Alike(g[j], h[j]) /\ g[j].prev = h[j].prev
      /\ g[i].at = h[i].at /\ g[i].size = h[i].size + HDR + h[i + 1].size
      /\ g[i].free = h[i].free /\ g[i].prev = h[i].prev
      /\ \A j \in (i + 1)..(Len(h) - 1) :
           /\ Alike(g[j], h[j + 1])
           /\ g[j].prev = IF j = i + 1 THEN Back(h[i].at) ELSE h[j + 1].prev
  <2>1. Absorbed(g, h, i)
    BY <1>0, AbsorbBlocks
  <2> QED
    BY <2>1 DEF Absorbed
<1>2. Len(h) \in Nat
  BY Headers
<1>3. \A j \in 1..(i - 1) : g[j].at = h[j].at /\ g[j].size = h[j].size /\ g[j].free = h[j].free
  BY <1>1 DEF Alike
<1>4. \A j \in (i + 1)..(Len(h) - 1) :
        g[j].at = h[j + 1].at /\ g[j].size = h[j + 1].size /\ g[j].free = h[j + 1].free
  BY <1>1 DEF Alike
<1>5. ASSUME NEW a \in Nat, NEW s \in Nat, InUse(g, a, s)
      PROVE  InUse(h, a, s)
  <2>1. PICK j \in 1..(Len(h) - 1) : ~g[j].free /\ g[j].at = a /\ g[j].size = s
    BY <1>1, <1>5 DEF InUse
  <2>2. CASE j \in 1..(i - 1)
    <3>1. j \in 1..Len(h)
      BY <1>2, <2>2
    <3>2. ~h[j].free /\ h[j].at = a /\ h[j].size = s
      BY <1>3, <2>1, <2>2
    <3> QED
      BY <3>1, <3>2 DEF InUse
  <2>3. CASE j = i
    BY <1>0, <1>1, <2>1, <2>3
  <2>4. CASE j \in (i + 1)..(Len(h) - 1)
    <3>1. ~h[j + 1].free /\ h[j + 1].at = a /\ h[j + 1].size = s
      BY <1>4, <2>1, <2>4
    <3>2. j + 1 \in 1..Len(h)
      BY <1>2
    <3> QED
      BY <3>1, <3>2 DEF InUse
  <2> QED
    BY <1>2, <2>2, <2>3, <2>4
<1>6. ASSUME NEW a \in Nat, NEW s \in Nat, InUse(h, a, s)
      PROVE  InUse(g, a, s)
  <2>1. PICK j \in 1..Len(h) : ~h[j].free /\ h[j].at = a /\ h[j].size = s
    BY <1>6 DEF InUse
  <2>2. CASE j \in 1..(i - 1)
    <3>1. j \in 1..Len(g)
      BY <1>0, <1>1, <1>2, <2>2
    <3>2. ~g[j].free /\ g[j].at = a /\ g[j].size = s
      BY <1>3, <2>1, <2>2
    <3> QED
      BY <3>1, <3>2 DEF InUse
  <2>3. CASE j \in {i, i + 1}
    BY <1>0, <2>1, <2>3
  <2>4. CASE j \in (i + 2)..Len(h)
    <3>1. PICK l \in (i + 1)..(Len(h) - 1) : j = l + 1
      <4>1. j - 1 \in (i + 1)..(Len(h) - 1) /\ j = (j - 1) + 1
        BY <1>2, <2>4
      <4> QED
        BY <4>1
    <3>2. l \in 1..Len(g)
      BY <1>1, <1>2, <3>1
    <3>3. ~g[l].free /\ g[l].at = a /\ g[l].size = s
      BY <1>4, <2>1, <3>1
    <3> QED
      BY <3>2, <3>3 DEF InUse
  <2> QED
    BY <1>2, <2>2, <2>3, <2>4
<1> QED
  BY <1>5, <1>6 DEF SameUse

\* A merge leaves blocks at multiples of ALIGN.
LEMMA AbsorbEven ==
  ASSUME NEW h \in Seq(Block), Even(h), NEW i \in 1..Len(h), i < Len(h), HDR % ALIGN = 0,
         NEW g, g = Absorb(h, i)
  PROVE  Even(g)
<1>1. /\ g \in Seq(Block) /\ Len(g) = Len(h) - 1
      /\ \A j \in 1..(i - 1) : Alike(g[j], h[j]) /\ g[j].prev = h[j].prev
      /\ g[i].at = h[i].at /\ g[i].size = h[i].size + HDR + h[i + 1].size
      /\ g[i].free = h[i].free /\ g[i].prev = h[i].prev
      /\ \A j \in (i + 1)..(Len(h) - 1) :
           /\ Alike(g[j], h[j + 1])
           /\ g[j].prev = IF j = i + 1 THEN Back(h[i].at) ELSE h[j + 1].prev
  <2>1. Absorbed(g, h, i)
    BY AbsorbBlocks
  <2> QED
    BY <2>1 DEF Absorbed
<1>2. Len(h) \in Nat /\ i + 1 \in 1..Len(h)
  BY Headers
<1>3. \A j \in 1..Len(h) : h[j].at % ALIGN = 0 /\ h[j].size % ALIGN = 0
  BY DEF Even
<1>4. g[i].at % ALIGN = 0 /\ g[i].size % ALIGN = 0
  <2>1. PICK x \in Nat : x = h[i].size
    BY Headers
  <2>2. PICK y \in Nat : y = h[i + 1].size
    BY <1>2, Headers
  <2>3. HDR \in Nat /\ ALIGN \in Nat \ {0}
    BY Sizes
  <2>4. x % ALIGN = 0 /\ y % ALIGN = 0
    BY <1>2, <1>3, <2>1, <2>2
  <2>5. x + HDR \in Nat /\ (x + HDR) % ALIGN = 0
    <3>1. x + HDR \in Nat
      BY <2>3
    <3>2. (x + HDR) % ALIGN = 0
      BY <2>3, <2>4, MultiplesAdd
    <3> QED
      BY <3>1, <3>2
  <2>6. (x + HDR + y) % ALIGN = 0
    BY <2>3, <2>4, <2>5, MultiplesAdd
  <2> QED
    BY <1>1, <1>3, <2>1, <2>2, <2>6
<1>5. ASSUME NEW j \in 1..(Len(h) - 1)
      PROVE  g[j].at % ALIGN = 0 /\ g[j].size % ALIGN = 0
  <2>1. CASE j \in 1..(i - 1)
    <3>1. j \in 1..Len(h)
      BY <1>2, <2>1
    <3> QED
      BY <1>1, <1>3, <2>1, <3>1 DEF Alike
  <2>2. CASE j = i
    BY <1>4, <2>2
  <2>3. CASE j \in (i + 1)..(Len(h) - 1)
    <3>1. j + 1 \in 1..Len(h)
      BY <1>2
    <3>2. g[j].at = h[j + 1].at /\ g[j].size = h[j + 1].size
      BY <1>1, <2>3 DEF Alike
    <3> QED
      BY <1>3, <3>1, <3>2
  <2> QED
    BY <1>2, <2>1, <2>2, <2>3
<1> QED
  BY <1>1, <1>5 DEF Even

-----------------------------------------------------------------------------
(* Recursion.  c runs through D, from c to s[c] as long as m[c] > 0; T says *)
(* what the value at c is, given the value at s[c].                        *)

\* F computes that for every c that is at most n steps away from the end.
RunsFrom(F, D, m, s, v, T, n) ==
  \A c \in D : m[c] <= n => F[c] = IF m[c] <= 0 THEN v[c] ELSE T[<<c, F[s[c]]>>]

\* F computes that for every c.
Runs(F, D, m, s, v, T) ==
  \A c \in D : F[c] = IF m[c] <= 0 THEN v[c] ELSE T[<<c, F[s[c]]>>]

\* What holds where a recursion ends, and before every step that leads to where
\* it holds, holds everywhere.
LEMMA LoopInduction ==
  ASSUME NEW D, NEW m \in [D -> Int], NEW s \in [D -> D],
         \A c \in D : m[c] > 0 => m[s[c]] < m[c],
         NEW P,
         \A c \in D : m[c] <= 0 => c \in P,
         \A c \in D : m[c] > 0 /\ s[c] \in P => c \in P
  PROVE  D \subseteq P
<1>1. PICK G : G = {n \in Nat : \A c \in D : m[c] <= n => c \in P}
  OBVIOUS
<1>2. 0 \in G
  BY <1>1
<1>3. ASSUME NEW n \in Nat, n \in G
      PROVE  n + 1 \in G
  <2>1. ASSUME NEW c \in D, m[c] <= n + 1
        PROVE  c \in P
    <3>1. CASE m[c] <= 0
      BY <3>1
    <3>2. CASE m[c] > 0
      <4>1. m[c] \in Int /\ s[c] \in D /\ m[s[c]] \in Int /\ m[s[c]] < m[c]
        BY <3>2
      <4>2. m[s[c]] <= n
        BY <2>1, <4>1
      <4>3. s[c] \in P
        BY <1>1, <1>3, <4>1, <4>2
      <4> QED
        BY <3>2, <4>3
    <3>3. m[c] \in Int
      OBVIOUS
    <3> QED
      BY <3>1, <3>2, <3>3
  <2> QED
    BY <1>1, <2>1
<1>4. Nat \subseteq G
  BY <1>2, <1>3, NatSteps
<1>5. ASSUME NEW c \in D
      PROVE  c \in P
  <2>1. m[c] \in Int
    OBVIOUS
  <2>2. CASE m[c] <= 0
    BY <2>2
  <2>3. CASE m[c] > 0
    <3>1. PICK n \in Nat : n = m[c]
      BY <2>1, <2>3
    <3>2. n \in G
      BY <1>4
    <3> QED
      BY <1>1, <3>1, <3>2
  <2> QED
    BY <2>1, <2>2, <2>3
<1> QED
  BY <1>5

\* There is such a function for every number of steps.
LEMMA LoopsBounded ==
  ASSUME NEW D, NEW V, NEW m \in [D -> Int], NEW s \in [D -> D], NEW v \in [D -> V],
         NEW T \in [D \X V -> V],
         \A c \in D : m[c] > 0 => m[s[c]] < m[c]
  PROVE  \A n \in Nat : \E F \in [D -> V] : RunsFrom(F, D, m, s, v, T, n)
<1>1. PICK G : G = {n \in Nat : \E F \in [D -> V] : RunsFrom(F, D, m, s, v, T, n)}
  OBVIOUS
<1>2. 0 \in G
  <2>1. RunsFrom(v, D, m, s, v, T, 0)
    BY DEF RunsFrom
  <2> QED
    BY <1>1, <2>1
<1>3. ASSUME NEW n \in Nat, n \in G
      PROVE  n + 1 \in G
  <2>1. PICK F \in [D -> V] : RunsFrom(F, D, m, s, v, T, n)
    BY <1>1, <1>3
  <2>2. PICK H \in [D -> V] :
          \A c \in D : H[c] = IF m[c] <= 0 THEN v[c] ELSE T[<<c, F[s[c]]>>]
    <3>1. \A c \in D : T[<<c, F[s[c]]>>] \in V
      <4>1. \A c \in D : <<c, F[s[c]]>> \in D \X V
        OBVIOUS
      <4> QED
        BY <4>1
    <3>2. [c \in D |-> IF m[c] <= 0 THEN v[c] ELSE T[<<c, F[s[c]]>>]] \in [D -> V]
      BY <3>1
    <3> QED
      BY <3>2
  <2>3. ASSUME NEW c \in D, m[c] <= n + 1
        PROVE  H[c] = IF m[c] <= 0 THEN v[c] ELSE T[<<c, H[s[c]]>>]
    <3>1. CASE m[c] <= 0
      BY <2>2, <3>1
    <3>2. CASE ~(m[c] <= 0)
      <4>1. m[c] \in Int /\ s[c] \in D /\ m[s[c]] \in Int /\ m[c] > 0
        BY <3>2
      <4>2. m[s[c]] <= n
        BY <2>3, <4>1
      <4>3. F[s[c]] = IF m[s[c]] <= 0 THEN v[s[c]] ELSE T[<<s[c], F[s[s[c]]]>>]
        BY <2>1, <4>1, <4>2 DEF RunsFrom
      <4>4. H[s[c]] = F[s[c]]
        BY <2>2, <4>1, <4>3
      <4> QED
        BY <2>2, <3>2, <4>4
    <3> QED
      BY <3>1, <3>2
  <2>4. RunsFrom(H, D, m, s, v, T, n + 1)
    BY <2>3 DEF RunsFrom
  <2> QED
    BY <1>1, <2>4
<1>4. Nat \subseteq G
  BY <1>2, <1>3, NatSteps
<1> QED
  BY <1>1, <1>4

Agree(F, H, D, m, n, k) == \A c \in D : m[c] <= n /\ m[c] <= k => F[c] = H[c]

\* Two of them agree as far as both go.
LEMMA LoopsAgree ==
  ASSUME NEW D, NEW m \in [D -> Int], NEW s \in [D -> D], NEW v, NEW T,
         \A c \in D : m[c] > 0 => m[s[c]] < m[c],
         NEW F, NEW n \in Nat, RunsFrom(F, D, m, s, v, T, n),
         NEW H, NEW k \in Nat, RunsFrom(H, D, m, s, v, T, k)
  PROVE  Agree(F, H, D, m, n, k)
<1>1. PICK P : P = {c \in D : m[c] <= n /\ m[c] <= k => F[c] = H[c]}
  OBVIOUS
<1>2. ASSUME NEW c \in D, m[c] <= 0
      PROVE  c \in P
  <2>1. m[c] \in Int
    OBVIOUS
  <2>2. m[c] <= n /\ m[c] <= k
    BY <1>2, <2>1
  <2>3. F[c] = v[c] /\ H[c] = v[c]
    BY <1>2, <2>2 DEF RunsFrom
  <2> QED
    BY <1>1, <2>3
<1>3. ASSUME NEW c \in D, m[c] > 0, s[c] \in P
      PROVE  c \in P
  <2> SUFFICES ASSUME m[c] <= n, m[c] <= k PROVE F[c] = H[c]
    BY <1>1
  <2>1. m[c] \in Int /\ s[c] \in D /\ m[s[c]] \in Int /\ ~(m[c] <= 0) /\ m[s[c]] < m[c]
    BY <1>3
  <2>2. m[s[c]] <= n /\ m[s[c]] <= k
    BY <2>1
  <2>3. F[s[c]] = H[s[c]]
    BY <1>1, <1>3, <2>2
  <2>4. F[c] = T[<<c, F[s[c]]>>] /\ H[c] = T[<<c, H[s[c]]>>]
    BY <2>1 DEF RunsFrom
  <2> QED
    BY <2>3, <2>4
<1>4. D \subseteq P
  BY <1>2, <1>3, LoopInduction
<1> QED
  BY <1>1, <1>4 DEF Agree

\* A recursion that ends computes a function.
LEMMA LoopExists ==
  ASSUME NEW D, NEW V, NEW m \in [D -> Int], NEW s \in [D -> D], NEW v \in [D -> V],
         NEW T \in [D \X V -> V],
         \A c \in D : m[c] > 0 => m[s[c]] < m[c]
  PROVE  \E F \in [D -> V] : Runs(F, D, m, s, v, T)
<1>1. \A n \in Nat : \E F \in [D -> V] : RunsFrom(F, D, m, s, v, T, n)
  BY LoopsBounded
<1>2. PICK W : W = [n \in Nat |-> CHOOSE F \in [D -> V] : RunsFrom(F, D, m, s, v, T, n)]
  OBVIOUS
<1>3. \A n \in Nat : W[n] \in [D -> V] /\ RunsFrom(W[n], D, m, s, v, T, n)
  BY <1>1, <1>2
<1>4. PICK near : near = [c \in D |-> IF m[c] <= 0 THEN 0 ELSE m[c]]
  OBVIOUS
<1>5. \A c \in D : near[c] \in Nat /\ m[c] <= near[c]
  BY <1>4
<1>6. PICK F \in [D -> V] : \A c \in D : F[c] = W[near[c]][c]
  <2>1. [c \in D |-> W[near[c]][c]] \in [D -> V]
    BY <1>3, <1>5
  <2> QED
    BY <2>1
<1>7. ASSUME NEW c \in D
      PROVE  F[c] = IF m[c] <= 0 THEN v[c] ELSE T[<<c, F[s[c]]>>]
  <2>1. PICK n \in Nat : n = near[c]
    BY <1>5
  <2>2. W[n][c] = IF m[c] <= 0 THEN v[c] ELSE T[<<c, W[n][s[c]]>>]
    BY <1>3, <1>5, <2>1 DEF RunsFrom
  <2>3. CASE m[c] <= 0
    BY <1>6, <2>1, <2>2, <2>3
  <2>4. CASE ~(m[c] <= 0)
    <3>1. m[c] \in Int /\ s[c] \in D /\ m[s[c]] \in Int /\ m[c] > 0
      BY <2>4
    <3>2. m[s[c]] < m[c]
      BY <3>1
    <3>3. PICK k \in Nat : k = near[s[c]]
      BY <1>5, <3>1
    <3>4. m[s[c]] <= n /\ m[s[c]] <= k
      BY <1>4, <1>5, <2>1, <3>1, <3>2, <3>3
    <3>5. W[n][s[c]] = W[k][s[c]]
      <4>1. PICK A : A = W[n] /\ RunsFrom(A, D, m, s, v, T, n)
        BY <1>3
      <4>2. PICK B : B = W[k] /\ RunsFrom(B, D, m, s, v, T, k)
        BY <1>3
      <4>3. \A d \in D : m[d] <= n /\ m[d] <= k => A[d] = B[d]
        <5>1. RunsFrom(A, D, m, s, v, T, n) /\ RunsFrom(B, D, m, s, v, T, k)
          BY <4>1, <4>2
        <5>2. n \in Nat /\ k \in Nat
          OBVIOUS
        <5>3. Agree(A, B, D, m, n, k)
          BY <5>1, <5>2, LoopsAgree
        <5> QED
          BY <5>3 DEF Agree
      <4> QED
        BY <3>1, <3>4, <4>1, <4>2, <4>3
    <3> QED
      BY <1>6, <2>1, <2>2, <2>4, <3>1, <3>3, <3>5
  <2> QED
    BY <2>3, <2>4
<1> QED
  BY <1>7 DEF Runs

-----------------------------------------------------------------------------
(* coalesce_free_blocks.                                                   *)

\* g is h to anybody who looks at bytes and blocks in use only.
Keeps(g, h) ==
  /\ GoodList(g) /\ SameBytes(g, h) /\ SameUse(g, h)
  /\ HDR % ALIGN = 0 /\ Even(h) => Even(g)

\* No block before the i-th merges with the one behind it.
Settled(h, i) == \A j \in 1..(i - 1) : j < Len(h) => ~Mergeable(h, j)

\* One merge of the pass.
LEMMA MergeStep ==
  ASSUME NEW h, GoodList(h), NEW i \in Nat \ {0}, i < Len(h), Mergeable(h, i), Settled(h, i),
         NEW g, g = Absorb(h, i)
  PROVE  Keeps(g, h) /\ Settled(g, i) /\ Len(g) = Len(h) - 1
<1>1. h \in Seq(Block) /\ Ordered(h) /\ Linked(h)
  BY DEF GoodList
<1>2. Len(h) \in Nat
  BY <1>1, Headers
<1>3. i \in 1..Len(h)
  BY <1>2
<1>4. CanAbsorb(h, i)
  BY DEF CanAbsorb
<1>5. Ordered(g) /\ SameBytes(g, h)
  BY <1>1, <1>3, <1>4, AbsorbOrdered
<1>6. Linked(g)
  BY <1>1, <1>3, AbsorbLinked
<1>7. SameUse(g, h)
  BY <1>1, <1>3, <1>4, AbsorbUse
<1>8. HDR % ALIGN = 0 /\ Even(h) => Even(g)
  BY <1>1, <1>3, AbsorbEven
<1>9. Absorbed(g, h, i)
  BY <1>1, <1>3, AbsorbBlocks
<1>10. /\ g \in Seq(Block) /\ Len(g) = Len(h) - 1
       /\ \A j \in 1..(i - 1) : Alike(g[j], h[j])
       /\ g[i].at = h[i].at /\ g[i].free = h[i].free
  BY <1>9 DEF Absorbed
<1>11. Keeps(g, h)
  BY <1>5, <1>6, <1>7, <1>8, <1>10 DEF Keeps, GoodList
<1>12. ASSUME NEW j \in 1..(i - 1), j < Len(g)
       PROVE  ~Mergeable(g, j)
  <2>1. ~Mergeable(h, j)
    BY <1>2 DEF Settled
  <2>2. g[j].at = h[j].at /\ g[j].size = h[j].size /\ g[j].free = h[j].free
    BY <1>10 DEF Alike
  <2>3. g[j + 1].at = h[j + 1].at /\ g[j + 1].free = h[j + 1].free
    <3>1. CASE j + 1 = i
      BY <1>10, <3>1
    <3>2. CASE j + 1 # i
      <4>1. j + 1 \in 1..(i - 1)
        BY <3>2
      <4> QED
        BY <1>10, <4>1 DEF Alike
    <3> QED
      BY <3>1, <3>2
  <2> QED
    BY <2>1, <2>2, <2>3 DEF Mergeable, are_adjacent
<1>13. Settled(g, i)
  BY <1>12 DEF Settled
<1> QED
  BY <1>10, <1>11, <1>13

\* What merges keep one by one they keep together.
LEMMA KeepsOn ==
  ASSUME NEW f, NEW g, NEW h, Keeps(f, g), Keeps(g, h)
  PROVE  Keeps(f, h)
<1>1. SameBytes(f, h)
  BY DEF Keeps, SameBytes
<1>2. SameUse(f, h)
  BY DEF Keeps, SameUse
<1>3. GoodList(f)
  BY DEF Keeps
<1>4. HDR % ALIGN = 0 /\ Even(h) => Even(f)
  BY DEF Keeps
<1> QED
  BY <1>1, <1>2, <1>3, <1>4 DEF Keeps

\* Nothing is lost when nothing changes.
LEMMA KeepsSelf ==
  ASSUME NEW h, GoodList(h)
  PROVE  Keeps(h, h)
BY DEF Keeps, SameBytes, SameUse

\* A place in a list.
Cursors == Seq(Block) \X (Nat \ {0})

Stops(c) == c[2] >= Len(c[1])

Moved(c) == IF Mergeable(c[1], c[2]) THEN <<Absorb(c[1], c[2]), c[2]>> ELSE <<c[1], c[2] + 1>>

\* f is the loop of coalesce_free_blocks.
Coalesces(f) == f = [c \in Cursors |-> IF Stops(c) THEN c[1] ELSE f[Moved(c)]]

\* A place is a list and the number of a block.
LEMMA CursorParts ==
  /\ \A c \in Cursors : c[1] \in Seq(Block) /\ c[2] \in Nat \ {0} /\ Len(c[1]) \in Nat
  /\ \A l \in Seq(Block), i \in Nat \ {0} :
       <<l, i>> \in Cursors /\ <<l, i>>[1] = l /\ <<l, i>>[2] = i
<1>1. \A c \in Cursors : c[1] \in Seq(Block) /\ c[2] \in Nat \ {0}
  BY DEF Cursors
<1>2. \A l \in Seq(Block), i \in Nat \ {0} :
        <<l, i>> \in Cursors /\ <<l, i>>[1] = l /\ <<l, i>>[2] = i
  BY DEF Cursors
<1> QED
  BY <1>1, <1>2, Headers

\* Each turn of the loop is one turn closer to the end.
LEMMA MovedCloser ==
  ASSUME NEW c \in Cursors, ~Stops(c)
  PROVE  /\ Moved(c) \in Cursors
         /\ Len(Moved(c)[1]) - Moved(c)[2] = (Len(c[1]) - c[2]) - 1
<1>1. PICK l \in Seq(Block) : l = c[1]
  BY CursorParts
<1>2. PICK i \in Nat \ {0} : i = c[2]
  BY CursorParts
<1>3. Len(l) \in Nat /\ i < Len(l)
  BY <1>1, <1>2, Headers DEF Stops
<1>4. CASE Mergeable(l, i)
  <2>1. PICK g : g = Absorb(l, i)
    OBVIOUS
  <2>2. Absorbed(g, l, i)
    <3>1. l \in Seq(Block) /\ i \in 1..Len(l) /\ i < Len(l)
      BY <1>3
    <3> QED
      BY <2>1, <3>1, AbsorbBlocks
  <2>3. g \in Seq(Block) /\ Len(g) = Len(l) - 1
    BY <2>2 DEF Absorbed
  <2>4. Moved(c) = <<g, i>>
    BY <1>1, <1>2, <1>4, <2>1 DEF Moved
  <2>5. Moved(c) \in Cursors /\ Moved(c)[1] = g /\ Moved(c)[2] = i
    BY <2>3, <2>4, CursorParts
  <2> QED
    BY <1>1, <1>2, <1>3, <2>3, <2>5
<1>5. CASE ~Mergeable(l, i)
  <2>1. Moved(c) = <<l, i + 1>>
    BY <1>1, <1>2, <1>5 DEF Moved
  <2>2. i + 1 \in Nat \ {0}
    OBVIOUS
  <2>3. Moved(c) \in Cursors /\ Moved(c)[1] = l /\ Moved(c)[2] = i + 1
    BY <2>1, <2>2, CursorParts
  <2> QED
    BY <1>1, <1>2, <1>3, <2>3
<1> QED
  BY <1>4, <1>5

\* The loop ends, from every list and every block on.
LEMMA CoalesceEnds ==
  \E f \in [Cursors -> Seq(Block)] : Coalesces(f)
<1>1. PICK m : m = [c \in Cursors |-> Len(c[1]) - c[2]]
  OBVIOUS
<1>2. PICK s : s = [c \in Cursors |-> IF Stops(c) THEN c ELSE Moved(c)]
  OBVIOUS
<1>3. PICK v : v = [c \in Cursors |-> c[1]]
  OBVIOUS
<1>4. m \in [Cursors -> Int]
  <2>1. \A c \in Cursors : Len(c[1]) - c[2] \in Int
    BY CursorParts
  <2> QED
    BY <1>1, <2>1
<1>5. s \in [Cursors -> Cursors]
  <2>1. \A c \in Cursors : ~Stops(c) => Moved(c) \in Cursors
    BY MovedCloser
  <2> QED
    BY <1>2, <2>1
<1>6. v \in [Cursors -> Seq(Block)]
  <2>1. \A c \in Cursors : c[1] \in Seq(Block)
    BY CursorParts
  <2> QED
    BY <1>3, <2>1
<1>7. \A c \in Cursors : Stops(c) <=> m[c] <= 0
  <2>1. \A c \in Cursors : Len(c[1]) \in Nat /\ c[2] \in Nat
    BY CursorParts
  <2> QED
    BY <1>1, <2>1 DEF Stops
<1>8. ASSUME NEW c \in Cursors, m[c] > 0
      PROVE  m[s[c]] = m[c] - 1
  <2>1. ~Stops(c)
    <3>1. m[c] \in Int
      BY <1>4
    <3> QED
      BY <1>7, <1>8, <3>1
  <2>2. s[c] = Moved(c) /\ Moved(c) \in Cursors
    BY <1>2, <2>1, MovedCloser
  <2>3. Len(Moved(c)[1]) - Moved(c)[2] = (Len(c[1]) - c[2]) - 1
    BY <2>1, MovedCloser
  <2> QED
    BY <1>1, <2>2, <2>3
<1>0. PICK T : T = [p \in Cursors \X Seq(Block) |-> p[2]]
  OBVIOUS
<1>9. PICK f \in [Cursors -> Seq(Block)] : Runs(f, Cursors, m, s, v, T)
  <2>0. T \in [Cursors \X Seq(Block) -> Seq(Block)]
    <3>1. \A p \in Cursors \X Seq(Block) : p[2] \in Seq(Block)
      OBVIOUS
    <3> QED
      BY <1>0, <3>1
  <2>1. \A c \in Cursors : m[c] > 0 => m[s[c]] < m[c]
    BY <1>4, <1>8
  <2> QED
    BY <1>4, <1>5, <1>6, <2>0, <2>1, LoopExists
<1>10. \A c \in Cursors : f[c] = IF Stops(c) THEN c[1] ELSE f[Moved(c)]
  <2>1. \A c \in Cursors : f[c] = IF m[c] <= 0 THEN v[c] ELSE T[<<c, f[s[c]]>>]
    BY <1>9 DEF Runs
  <2>2. \A c \in Cursors : T[<<c, f[s[c]]>>] = f[s[c]]
    <3>1. \A c \in Cursors : <<c, f[s[c]]>> \in Cursors \X Seq(Block)
      BY <1>5, <1>9
    <3> QED
      BY <1>0, <3>1
  <2> QED
    BY <1>2, <1>3, <1>7, <2>1, <2>2
<1>11. f = [c \in Cursors |-> f[c]]
  BY <1>9
<1>12. Coalesces(f)
  BY <1>10, <1>11 DEF Coalesces
<1> QED
  BY <1>9, <1>12

\* The loop keeps what a merge keeps, and has nothing left to merge at the end.
LEMMA CoalesceKeeps ==
  ASSUME NEW f, Coalesces(f)
  PROVE  \A c \in Cursors :
           GoodList(c[1]) /\ Settled(c[1], c[2])
             => Keeps(f[c], c[1]) /\ Settled(f[c], Len(f[c]))
<1>1. PICK m : m = [c \in Cursors |-> Len(c[1]) - c[2]]
  OBVIOUS
<1>2. PICK s : s = [c \in Cursors |-> IF Stops(c) THEN c ELSE Moved(c)]
  OBVIOUS
<1>3. PICK P : P = {c \in Cursors : GoodList(c[1]) /\ Settled(c[1], c[2])
                                     => Keeps(f[c], c[1]) /\ Settled(f[c], Len(f[c]))}
  OBVIOUS
<1>4. m \in [Cursors -> Int]
  <2>1. \A c \in Cursors : Len(c[1]) - c[2] \in Int
    BY CursorParts
  <2> QED
    BY <1>1, <2>1
<1>5. s \in [Cursors -> Cursors]
  <2>1. \A c \in Cursors : ~Stops(c) => Moved(c) \in Cursors
    BY MovedCloser
  <2> QED
    BY <1>2, <2>1
<1>6. \A c \in Cursors : Stops(c) <=> m[c] <= 0
  <2>1. \A c \in Cursors : Len(c[1]) \in Nat /\ c[2] \in Nat
    BY CursorParts
  <2> QED
    BY <1>1, <2>1 DEF Stops
<1>7. ASSUME NEW c \in Cursors, m[c] > 0
      PROVE  ~Stops(c) /\ s[c] = Moved(c) /\ Moved(c) \in Cursors /\ m[s[c]] = m[c] - 1
  <2>1. ~Stops(c)
    <3>1. m[c] \in Int
      BY <1>4
    <3> QED
      BY <1>6, <1>7, <3>1
  <2>2. s[c] = Moved(c) /\ Moved(c) \in Cursors
    BY <1>2, <2>1, MovedCloser
  <2>3. Len(Moved(c)[1]) - Moved(c)[2] = (Len(c[1]) - c[2]) - 1
    BY <2>1, MovedCloser
  <2> QED
    BY <1>1, <2>1, <2>2, <2>3
<1>8. \A c \in Cursors : f[c] = IF Stops(c) THEN c[1] ELSE f[Moved(c)]
  BY DEF Coalesces
<1>9. ASSUME NEW c \in Cursors, m[c] <= 0
      PROVE  c \in P
  <2> SUFFICES ASSUME GoodList(c[1]), Settled(c[1], c[2])
               PROVE  Keeps(f[c], c[1]) /\ Settled(f[c], Len(f[c]))
    BY <1>3
  <2>1. Stops(c)
    BY <1>6, <1>9
  <2>2. f[c] = c[1]
    BY <1>8, <2>1
  <2>3. Settled(c[1], Len(c[1]))
    <3>1. Len(c[1]) \in Nat /\ c[2] \in Nat \ {0} /\ c[2] >= Len(c[1])
      BY <2>1, CursorParts DEF Stops
    <3>2. \A j \in 1..(Len(c[1]) - 1) : j \in 1..(c[2] - 1)
      BY <3>1
    <3> QED
      BY <3>2 DEF Settled
  <2> QED
    BY <2>2, <2>3, KeepsSelf
<1>10. ASSUME NEW c \in Cursors, m[c] > 0, s[c] \in P
       PROVE  c \in P
  <2> SUFFICES ASSUME GoodList(c[1]), Settled(c[1], c[2])
               PROVE  Keeps(f[c], c[1]) /\ Settled(f[c], Len(f[c]))
    BY <1>3
  <2>1. ~Stops(c) /\ s[c] = Moved(c) /\ Moved(c) \in Cursors
    BY <1>7, <1>10
  <2>2. f[c] = f[Moved(c)]
    BY <1>8, <2>1
  <2>3. PICK l \in Seq(Block) : l = c[1]
    BY CursorParts
  <2>4. PICK i \in Nat \ {0} : i = c[2]
    BY CursorParts
  <2>5. Len(l) \in Nat /\ i < Len(l)
    BY <2>1, <2>3, <2>4, Headers DEF Stops
  <2>6. GoodList(l) /\ Settled(l, i)
    BY <2>3, <2>4
  <2>7. CASE Mergeable(l, i)
    <3>1. PICK g : g = Absorb(l, i)
      OBVIOUS
    <3>2. Keeps(g, l) /\ Settled(g, i)
      BY <2>5, <2>6, <2>7, <3>1, MergeStep
    <3>3. Moved(c) = <<g, i>>
      BY <2>3, <2>4, <2>7, <3>1 DEF Moved
    <3>4. g \in Seq(Block)
      BY <3>2 DEF Keeps, GoodList
    <3>5. Moved(c)[1] = g /\ Moved(c)[2] = i
      BY <3>3, <3>4, CursorParts
    <3>6. GoodList(g)
      BY <3>2 DEF Keeps
    <3>7. Keeps(f[Moved(c)], g) /\ Settled(f[Moved(c)], Len(f[Moved(c)]))
      BY <1>3, <1>10, <2>1, <3>2, <3>5, <3>6
    <3>8. Keeps(f[c], l)
      BY <2>2, <3>2, <3>7, KeepsOn
    <3> QED
      BY <2>2, <2>3, <3>7, <3>8
  <2>8. CASE ~Mergeable(l, i)
    <3>1. Moved(c) = <<l, i + 1>>
      BY <2>3, <2>4, <2>8 DEF Moved
    <3>2. i + 1 \in Nat \ {0}
      OBVIOUS
    <3>3. Moved(c)[1] = l /\ Moved(c)[2] = i + 1
      BY <3>1, <3>2, CursorParts
    <3>4. Settled(l, i + 1)
      <4>1. \A j \in 1..((i + 1) - 1) : j \in 1..(i - 1) \/ j = i
        OBVIOUS
      <4> QED
        BY <2>6, <2>8, <4>1 DEF Settled
    <3>5. Keeps(f[Moved(c)], l) /\ Settled(f[Moved(c)], Len(f[Moved(c)]))
      BY <1>3, <1>10, <2>1, <2>6, <3>3, <3>4
    <3> QED
      BY <2>2, <2>3, <3>5
  <2> QED
    BY <2>7, <2>8
<1>11. Cursors \subseteq P
  <2>1. \A c \in Cursors : m[c] > 0 => m[s[c]] < m[c]
    BY <1>4, <1>7
  <2>2. \A c \in Cursors : m[c] <= 0 => c \in P
    BY <1>9
  <2>3. \A c \in Cursors : m[c] > 0 /\ s[c] \in P => c \in P
    BY <1>10
  <2> QED
    BY <1>4, <1>5, <2>1, <2>2, <2>3, LoopInduction
<1> QED
  BY <1>3, <1>11

\* coalesce_free_blocks changes neither what is covered nor what is in use, and
\* leaves nothing that could be merged.
LEMMA Coalesced ==
  ASSUME NEW h, GoodList(h), NEW g, g = coalesce_free_blocks(h)
  PROVE  Keeps(g, h) /\ Settled(g, Len(g))
<1>1. PICK f : f = CHOOSE loop : Coalesces(loop)
  OBVIOUS
<1>2. Coalesces(f)
  BY <1>1, CoalesceEnds
<1>3. g = f[<<h, 1>>]
  <2>1. coalesce_free_blocks(h) = (CHOOSE loop : Coalesces(loop))[<<h, 1>>]
    BY DEF coalesce_free_blocks, Coalesces, Cursors, Stops, Moved
  <2> QED
    BY <1>1, <2>1
<1>4. h \in Seq(Block)
  BY DEF GoodList
<1>5. PICK c \in Cursors : c = <<h, 1>> /\ c[1] = h /\ c[2] = 1
  <2>1. <<h, 1>> \in Cursors /\ <<h, 1>>[1] = h /\ <<h, 1>>[2] = 1
    BY <1>4, CursorParts
  <2> QED
    BY <2>1
<1>6. Settled(h, 1)
  BY DEF Settled
<1>7. Keeps(f[c], c[1]) /\ Settled(f[c], Len(f[c]))
  BY <1>2, <1>5, <1>6, CoalesceKeeps
<1> QED
  BY <1>3, <1>5, <1>7

\* AppendBlock keeps a list well formed when b lies behind it.
LEMMA Appended ==
  ASSUME NEW h, GoodList(h), NEW b \in Nat, NEW n \in Nat,
         \A j \in 1..Len(h) : BlockEnd(h[j]) <= b,
         NEW g, g = AppendBlock(h, b, n)
  PROVE  /\ GoodList(g)
         /\ \A a \in Nat : Covers(g, a) <=> Covers(h, a) \/ (b <= a /\ a < b + HDR + n)
         /\ \A a, s \in Nat : InUse(g, a, s) <=> InUse(h, a, s) \/ (a = b /\ s = n)
         /\ Even(h) /\ b % ALIGN = 0 /\ n % ALIGN = 0 => Even(g)
<1>1. h \in Seq(Block) /\ Ordered(h) /\ Linked(h)
  BY DEF GoodList
<1>0. OneMore(g, h, b, n)
  BY <1>1, AppendBlocks
<1>2. /\ g \in Seq(Block) /\ Len(g) = Len(h) + 1
      /\ \A j \in 1..Len(h) : g[j] = h[j]
      /\ g[Len(h) + 1].at = b /\ g[Len(h) + 1].size = n /\ ~g[Len(h) + 1].free
      /\ g[Len(h) + 1].prev = IF Len(h) = 0 THEN NULL ELSE Back(h[Len(h)].at)
  BY <1>0 DEF OneMore
<1>3. Len(h) \in Nat
  BY <1>1, Headers
<1>4. PICK l \in Nat : l = Len(h)
  BY <1>3
<1>5. 1..Len(g) = 1..l \cup {l + 1}
  BY <1>2, <1>4
<1>6. BlockEnd(g[l + 1]) = b + HDR + n
  BY <1>2, <1>4 DEF BlockEnd
<1>7. Ordered(g)
  <2>1. \A j, k \in 1..l : j < k => BlockEnd(h[j]) <= h[k].at
    BY <1>1, <1>4 DEF Ordered
  <2>2. \A j, k \in 1..l \cup {l + 1} : j < k => j \in 1..l /\ (k \in 1..l \/ k = l + 1)
    BY <1>4
  <2> QED
    BY <1>2, <1>4, <1>5, <2>1, <2>2 DEF Ordered
<1>8. Linked(g)
  <2>1. ASSUME NEW j \in 1..Len(g)
        PROVE  g[j].prev = IF j > 1 THEN Back(g[j - 1].at) ELSE NULL
    <3>1. CASE j \in 1..l
      <4>1. g[j] = h[j] /\ h[j].prev = IF j > 1 THEN Back(h[j - 1].at) ELSE NULL
        BY <1>1, <1>2, <1>4, <3>1 DEF Linked
      <4>2. CASE j > 1
        <5>1. j - 1 \in 1..l
          BY <3>1, <4>2
        <5>2. g[j - 1] = h[j - 1]
          BY <1>2, <1>4, <5>1
        <5> QED
          BY <4>1, <4>2, <5>2
      <4>3. CASE ~(j > 1)
        BY <4>1, <4>3
      <4> QED
        BY <4>2, <4>3
    <3>2. CASE j = l + 1
      <4>1. CASE l = 0
        BY <1>2, <1>4, <3>2, <4>1
      <4>2. CASE l # 0
        <5>1. j > 1 /\ j - 1 = l /\ l \in 1..l
          BY <3>2, <4>2
        <5>2. g[l] = h[l]
          BY <1>2, <1>4, <5>1
        <5> QED
          BY <1>2, <1>4, <3>2, <4>2, <5>1, <5>2
      <4> QED
        BY <4>1, <4>2
    <3> QED
      BY <1>5, <3>1, <3>2
  <2> QED
    BY <2>1 DEF Linked
<1>9. ASSUME NEW a \in Nat
      PROVE  Covers(g, a) <=> Covers(h, a) \/ (b <= a /\ a < b + HDR + n)
  <2>1. Covers(g, a) <=> \E j \in 1..l \cup {l + 1} : g[j].at <= a /\ a < BlockEnd(g[j])
    BY <1>5 DEF Covers
  <2>2. Covers(h, a) <=> \E j \in 1..l : g[j].at <= a /\ a < BlockEnd(g[j])
    BY <1>2, <1>4 DEF Covers
  <2> QED
    BY <1>2, <1>4, <1>6, <2>1, <2>2
<1>10. ASSUME NEW a \in Nat, NEW s \in Nat
       PROVE  InUse(g, a, s) <=> InUse(h, a, s) \/ (a = b /\ s = n)
  <2>1. InUse(g, a, s) <=> \E j \in 1..l \cup {l + 1} : ~g[j].free /\ g[j].at = a /\ g[j].size = s
    BY <1>5 DEF InUse
  <2>2. InUse(h, a, s) <=> \E j \in 1..l : ~g[j].free /\ g[j].at = a /\ g[j].size = s
    BY <1>2, <1>4 DEF InUse
  <2> QED
    BY <1>2, <1>4, <2>1, <2>2
<1>11. ASSUME Even(h), b % ALIGN = 0, n % ALIGN = 0
       PROVE  Even(g)
  <2>1. \A j \in 1..l : g[j].at % ALIGN = 0 /\ g[j].size % ALIGN = 0
    BY <1>2, <1>4, <1>11 DEF Even
  <2>2. g[l + 1].at % ALIGN = 0 /\ g[l + 1].size % ALIGN = 0
    BY <1>2, <1>4, <1>11
  <2> QED
    BY <1>5, <2>1, <2>2 DEF Even
<1> QED
  BY <1>2, <1>7, <1>8, <1>9, <1>10, <1>11 DEF GoodList

\* The mark of the i-th block of h is b in g, and nothing else has changed.
Marked(g, h, i, b) ==
  /\ GoodList(g) /\ SameBytes(g, h) /\ Len(g) = Len(h)
  /\ g[i].at = h[i].at /\ g[i].size = h[i].size /\ g[i].free = b
  /\ Even(h) => Even(g)
  /\ \A a, s \in Nat :
       InUse(g, a, s) <=> \/ InUse(h, a, s) /\ a # h[i].at
                          \/ ~b /\ a = h[i].at /\ s = h[i].size

\* An assignment to free.
LEMMA Flagged ==
  ASSUME NEW h, GoodList(h), NEW i \in 1..Len(h), NEW b \in BOOLEAN,
         NEW g, g = [h EXCEPT ![i].free = b]
  PROVE  Marked(g, h, i, b)
<1>1. h \in Seq(Block) /\ Ordered(h) /\ Linked(h)
  BY DEF GoodList
<1>2. /\ g \in Seq(Block) /\ Len(g) = Len(h)
      /\ \A j \in 1..Len(h) : j # i => g[j] = h[j]
      /\ g[i].at = h[i].at /\ g[i].size = h[i].size /\ g[i].free = b /\ g[i].prev = h[i].prev
  BY <1>1, SetFree
<1>3. \A j \in 1..Len(h) :
        /\ g[j].at = h[j].at /\ g[j].size = h[j].size /\ g[j].prev = h[j].prev
        /\ g[j].free = IF j = i THEN b ELSE h[j].free
        /\ BlockEnd(g[j]) = BlockEnd(h[j])
  BY <1>2 DEF BlockEnd
<1>4. Ordered(g)
  BY <1>1, <1>2, <1>3 DEF Ordered
<1>5. Linked(g)
  <2>1. ASSUME NEW j \in 1..Len(g)
        PROVE  g[j].prev = IF j > 1 THEN Back(g[j - 1].at) ELSE NULL
    <3>0. Len(h) \in Nat
      BY <1>1, Headers
    <3>1. g[j].prev = h[j].prev /\ h[j].prev = IF j > 1 THEN Back(h[j - 1].at) ELSE NULL
      BY <1>1, <1>2, <1>3 DEF Linked
    <3>2. CASE j > 1
      <4>1. j - 1 \in 1..Len(h)
        BY <1>2, <3>0, <3>2
      <4>2. g[j - 1].at = h[j - 1].at
        BY <1>3, <4>1
      <4> QED
        BY <3>1, <3>2, <4>2
    <3>3. CASE ~(j > 1)
      BY <3>1, <3>3
    <3> QED
      BY <3>2, <3>3
  <2> QED
    BY <2>1 DEF Linked
<1>6. SameBytes(g, h)
  BY <1>2, <1>3 DEF SameBytes, Covers
<1>7. Even(h) => Even(g)
  BY <1>2, <1>3 DEF Even
<1>8. ASSUME NEW a \in Nat, NEW s \in Nat
      PROVE  InUse(g, a, s) <=> \/ InUse(h, a, s) /\ a # h[i].at
                                \/ ~b /\ a = h[i].at /\ s = h[i].size
  <2>1. \A j \in 1..Len(h) : j # i => h[j].at # h[i].at
    BY <1>1, Apart
  <2> QED
    BY <1>2, <1>3, <2>1 DEF InUse
<1> QED
  BY <1>2, <1>4, <1>5, <1>6, <1>7, <1>8 DEF GoodList, Marked

-----------------------------------------------------------------------------
(* The searches.                                                           *)

\* Min is the least of a set of numbers.
LEMMA LeastOf ==
  ASSUME NEW I, I \subseteq Nat, I # {}
  PROVE  Min(I) \in I /\ \A k \in I : Min(I) <= k
<1>1. \E m \in I : \A k \in I : m <= k
  BY NatLeast
<1> QED
  BY <1>1 DEF Min

\* Max is the greatest of a set of numbers none of which exceeds n.
LEMMA GreatestOf ==
  ASSUME NEW n \in Nat, NEW I, I \subseteq 1..n, I # {}
  PROVE  Max(I) \in I /\ \A k \in I : k <= Max(I)
<1>1. PICK J : J = {n - k : k \in I}
  OBVIOUS
<1>2. J \subseteq Nat /\ J # {}
  <2>1. \A k \in I : k \in 1..n /\ n - k \in Nat
    OBVIOUS
  <2>2. \E k \in I : TRUE
    OBVIOUS
  <2> QED
    BY <1>1, <2>1, <2>2
<1>3. PICK m \in J : \A k \in J : m <= k
  BY <1>2, NatLeast
<1>4. PICK x \in I : m = n - x
  BY <1>1, <1>3
<1>5. \A k \in I : k <= x
  <2>1. \A k \in I : m <= n - k
    BY <1>1, <1>3
  <2>2. x \in 1..n /\ \A k \in I : k \in 1..n
    OBVIOUS
  <2> QED
    BY <1>4, <2>1, <2>2
<1>6. \A k \in I : x >= k
  <2>1. x \in 1..n /\ \A k \in I : k \in 1..n
    OBVIOUS
  <2> QED
    BY <1>5, <2>1
<1>7. Max(I) \in I /\ \A k \in I : Max(I) >= k
  BY <1>4, <1>6 DEF Max
<1>8. Max(I) \in 1..n /\ \A k \in I : k \in 1..n
  BY <1>7
<1> QED
  BY <1>7, <1>8

\* IndexOf finds the block at an address.
LEMMA Indexed ==
  ASSUME NEW h, GoodList(h), NEW j \in 1..Len(h)
  PROVE  IndexOf(h, h[j].at) = j
<1>1. h \in Seq(Block) /\ Ordered(h)
  BY DEF GoodList
<1>2. PICK I : I = {i \in 1..Len(h) : h[i].at = h[j].at}
  OBVIOUS
<1>3. IndexOf(h, h[j].at) = IF I # {} THEN Min(I) ELSE 0
  BY <1>2 DEF IndexOf, SelectInSeq
<1>4. \A i \in 1..Len(h) : i # j => h[i].at # h[j].at
  BY <1>1, Apart
<1>5. I = {j}
  BY <1>2, <1>4
<1>6. I \subseteq Nat
  BY <1>2
<1>7. Min(I) \in I
  BY <1>5, <1>6, LeastOf
<1> QED
  BY <1>3, <1>5, <1>7

\* What the header i is among the first k: none, because none fits, or one that
\* fits and that the policy w prefers to all that do.
Best(w, h, n, k, i) ==
  /\ i \in 0..k
  /\ i = 0 => \A j \in 1..k : ~Fits(h[j], n)
  /\ i # 0 => /\ Fits(h[i], n)
              /\ \A j \in 1..k : Fits(h[j], n) =>
                   /\ w = "first" => i <= j
                   /\ w = "best"  => h[i].size <= h[j].size
                   /\ w = "worst" => h[i].size >= h[j].size

\* find_free_block_first_fit finds the first block that fits.
LEMMA FirstFound ==
  ASSUME NEW h \in Seq(Block), NEW n \in Nat
  PROVE  Best("first", h, n, Len(h), find_free_block_first_fit(h, n))
<1>1. PICK I : I = {i \in 1..Len(h) : Fits(h[i], n)}
  OBVIOUS
<1>2. PICK i : i = find_free_block_first_fit(h, n)
  OBVIOUS
<1>3. i = IF I # {} THEN Min(I) ELSE 0
  BY <1>1, <1>2 DEF find_free_block_first_fit, SelectInSeq
<1>4. I \subseteq Nat
  BY <1>1
<1>5. Len(h) \in Nat
  BY Headers
<1>6. CASE I = {}
  <2>1. i = 0 /\ \A j \in 1..Len(h) : ~Fits(h[j], n)
    BY <1>1, <1>3, <1>6
  <2> QED
    BY <1>2, <1>5, <2>1 DEF Best
<1>7. CASE I # {}
  <2>1. i \in I /\ \A k \in I : i <= k
    BY <1>3, <1>4, <1>7, LeastOf
  <2>2. i \in 1..Len(h) /\ Fits(h[i], n)
    BY <1>1, <2>1
  <2>3. \A j \in 1..Len(h) : Fits(h[j], n) => i <= j
    BY <1>1, <2>1
  <2> QED
    BY <1>2, <1>5, <2>2, <2>3 DEF Best
<1> QED
  BY <1>6, <1>7

\* One turn of the other two searches: b is the best so far, i the next.
Better(w, a, b) == IF w = "best" THEN a < b ELSE a > b

Chosen(w, h, n, b, i) ==
  IF Fits(h[i], n) /\ (b = 0 \/ Better(w, h[i].size, h[b].size)) THEN i ELSE b

\* f is what the search finds in every set of headers.
Scan(f, q, w, h, n) ==
  f = [s \in SUBSET (DOMAIN q) |->
         IF s = {} THEN 0 ELSE Chosen(w, h, n, f[s \ {Max(s)}], q[Max(s)])]

\* The search ends.
LEMMA ScanEnds ==
  ASSUME NEW h \in Seq(Block), NEW n \in Nat, NEW w, NEW q, q = [i \in DOMAIN h |-> i]
  PROVE  \E f : Scan(f, q, w, h, n)
<1>1. PICK l \in Nat : l = Len(h)
  BY Headers
<1>2. DOMAIN h = 1..l
  BY <1>1, Headers
<1>3. DOMAIN q = 1..l /\ \A i \in 1..l : q[i] = i
  BY <1>2
<1>4. PICK D : D = SUBSET (1..l)
  OBVIOUS
<1>5. \A s \in D : s # {} => Max(s) \in s /\ Max(s) \in 1..l /\ \A k \in s : k <= Max(s)
  BY <1>4, GreatestOf
<1>6. PICK m : m = [s \in D |-> IF s = {} THEN 0 ELSE Max(s)]
  OBVIOUS
<1>7. m \in [D -> Int]
  BY <1>5, <1>6
<1>8. PICK r : r = [s \in D |-> s \ {Max(s)}]
  OBVIOUS
<1>9. r \in [D -> D]
  <2>1. \A s \in D : s \ {Max(s)} \in D
    BY <1>4
  <2> QED
    BY <1>8, <2>1
<1>10. PICK v : v = [s \in D |-> 0]
  OBVIOUS
<1>11. v \in [D -> 0..l]
  BY <1>10
<1>12. PICK T : T = [c \in D \X (0..l) |-> IF c[1] = {} THEN 0 ELSE Chosen(w, h, n, c[2], q[Max(c[1])])]
  OBVIOUS
<1>13. T \in [D \X (0..l) -> 0..l]
  <2>1. ASSUME NEW c \in D \X (0..l)
        PROVE  (IF c[1] = {} THEN 0 ELSE Chosen(w, h, n, c[2], q[Max(c[1])])) \in 0..l
    <3>1. c[1] \in D /\ c[2] \in 0..l
      OBVIOUS
    <3>2. CASE c[1] = {}
      BY <3>2
    <3>3. CASE c[1] # {}
      <4>1. Max(c[1]) \in 1..l
        BY <1>5, <3>1, <3>3
      <4>2. q[Max(c[1])] \in 0..l
        BY <1>3, <4>1
      <4> QED
        BY <3>1, <3>3, <4>2 DEF Chosen
    <3> QED
      BY <3>2, <3>3
  <2> QED
    BY <1>12, <2>1
<1>14. \A s \in D : m[s] > 0 <=> s # {}
  BY <1>5, <1>6
<1>15. ASSUME NEW s \in D, m[s] > 0
       PROVE  m[r[s]] < m[s]
  <2>1. s # {} /\ m[s] = Max(s) /\ Max(s) \in 1..l /\ \A k \in s : k <= Max(s)
    BY <1>5, <1>6, <1>14, <1>15
  <2>2. r[s] = s \ {Max(s)} /\ r[s] \in D
    BY <1>8, <1>9
  <2>3. CASE r[s] = {}
    BY <1>6, <2>1, <2>2, <2>3
  <2>4. CASE r[s] # {}
    <3>1. m[r[s]] = Max(r[s]) /\ Max(r[s]) \in r[s] /\ Max(r[s]) \in 1..l
      BY <1>5, <1>6, <2>2, <2>4
    <3> QED
      BY <2>1, <2>2, <3>1
  <2> QED
    BY <2>3, <2>4
<1>16. PICK f \in [D -> 0..l] : Runs(f, D, m, r, v, T)
  <2>1. \A s \in D : m[s] > 0 => m[r[s]] < m[s]
    BY <1>15
  <2> QED
    BY <1>7, <1>9, <1>11, <1>13, <2>1, LoopExists
<1>17. ASSUME NEW s \in D
       PROVE  f[s] = IF s = {} THEN 0 ELSE Chosen(w, h, n, f[s \ {Max(s)}], q[Max(s)])
  <2>1. f[s] = IF m[s] <= 0 THEN v[s] ELSE T[<<s, f[r[s]]>>]
    BY <1>16 DEF Runs
  <2>2. m[s] \in Int /\ (m[s] <= 0 <=> s = {})
    BY <1>7, <1>14
  <2>3. v[s] = 0 /\ r[s] = s \ {Max(s)} /\ f[r[s]] \in 0..l
    BY <1>8, <1>9, <1>10, <1>16
  <2>4. T[<<s, f[r[s]]>>] = IF s = {} THEN 0 ELSE Chosen(w, h, n, f[r[s]], q[Max(s)])
    <3>1. PICK b \in 0..l : b = f[r[s]]
      BY <2>3
    <3>2. <<s, b>> \in D \X (0..l) /\ <<s, b>>[1] = s /\ <<s, b>>[2] = b
      OBVIOUS
    <3>3. T[<<s, b>>] = IF s = {} THEN 0 ELSE Chosen(w, h, n, b, q[Max(s)])
      BY <1>12, <3>2
    <3> QED
      BY <3>1, <3>3
  <2> QED
    BY <2>1, <2>2, <2>3, <2>4
<1>18. f = [s \in SUBSET (DOMAIN q) |->
              IF s = {} THEN 0 ELSE Chosen(w, h, n, f[s \ {Max(s)}], q[Max(s)])]
  <2>1. f = [s \in D |-> f[s]]
    BY <1>16
  <2>2. D = SUBSET (DOMAIN q)
    BY <1>3, <1>4
  <2> QED
    BY <1>17, <2>1, <2>2
<1> QED
  BY <1>18 DEF Scan

\* The best of the first k + 1 headers.
LEMMA BestNext ==
  ASSUME NEW h \in Seq(Block), NEW n \in Nat, NEW w \in {"best", "worst"},
         NEW k \in Nat, k + 1 <= Len(h), NEW b, Best(w, h, n, k, b)
  PROVE  Best(w, h, n, k + 1, Chosen(w, h, n, b, k + 1))
<1>1. Len(h) \in Nat /\ \A j \in 1..Len(h) : h[j].size \in Nat
  BY Headers
<1>2. b \in 0..k /\ k + 1 \in 1..Len(h)
  BY <1>1 DEF Best
<1>3. \A j \in 1..(k + 1) : j \in 1..k \/ j = k + 1
  OBVIOUS
<1>4. \A j \in 1..(k + 1) : h[j].size \in Nat
  BY <1>1
<1>5. CASE ~Fits(h[k + 1], n)
  <2>1. Chosen(w, h, n, b, k + 1) = b
    BY <1>5 DEF Chosen
  <2>2. Best(w, h, n, k + 1, b)
    BY <1>2, <1>3, <1>5 DEF Best
  <2> QED
    BY <2>1, <2>2
<1>6. CASE Fits(h[k + 1], n) /\ b = 0
  <2>1. Chosen(w, h, n, b, k + 1) = k + 1
    BY <1>6 DEF Chosen
  <2>2. \A j \in 1..k : ~Fits(h[j], n)
    BY <1>6 DEF Best
  <2>3. \A j \in 1..(k + 1) : Fits(h[j], n) => j = k + 1
    BY <1>3, <2>2
  <2>4. k + 1 \in 0..(k + 1) /\ k + 1 # 0
    OBVIOUS
  <2>5. k + 1 \in 1..(k + 1)
    OBVIOUS
  <2>6. h[k + 1].size <= h[k + 1].size /\ h[k + 1].size >= h[k + 1].size
    BY <1>4, <2>5
  <2>7. \A j \in 1..(k + 1) : Fits(h[j], n) =>
          /\ w = "first" => k + 1 <= j
          /\ w = "best"  => h[k + 1].size <= h[j].size
          /\ w = "worst" => h[k + 1].size >= h[j].size
    BY <2>3, <2>6
  <2>8. Best(w, h, n, k + 1, k + 1)
    BY <1>6, <2>4, <2>7 DEF Best
  <2> QED
    BY <2>1, <2>8
<1>7. CASE Fits(h[k + 1], n) /\ b # 0
  <2>1. /\ Fits(h[b], n)
        /\ \A j \in 1..k : Fits(h[j], n) =>
             /\ w = "best"  => h[b].size <= h[j].size
             /\ w = "worst" => h[b].size >= h[j].size
    BY <1>7 DEF Best
  <2>2. b \in 1..(k + 1) /\ k + 1 \in 1..(k + 1)
    BY <1>2, <1>7
  <2>3. h[b].size \in Nat /\ h[k + 1].size \in Nat
    BY <1>4, <2>2
  <2>4. CASE Better(w, h[k + 1].size, h[b].size)
    <3>1. Chosen(w, h, n, b, k + 1) = k + 1
      BY <1>7, <2>4 DEF Chosen
    <3>2. ASSUME NEW j \in 1..(k + 1), Fits(h[j], n)
          PROVE  /\ w = "best"  => h[k + 1].size <= h[j].size
                 /\ w = "worst" => h[k + 1].size >= h[j].size
      <4>1. h[j].size \in Nat
        BY <1>4
      <4>2. CASE j = k + 1
        BY <4>1, <4>2
      <4>3. CASE j \in 1..k
        <5>1. /\ w = "best"  => h[b].size <= h[j].size
              /\ w = "worst" => h[b].size >= h[j].size
          BY <2>1, <3>2, <4>3
        <5> QED
          BY <2>3, <2>4, <4>1, <5>1 DEF Better
      <4> QED
        BY <1>3, <4>2, <4>3
    <3>3. k + 1 \in 0..(k + 1) /\ k + 1 # 0
      OBVIOUS
    <3>4. Best(w, h, n, k + 1, k + 1)
      BY <1>7, <3>2, <3>3 DEF Best
    <3> QED
      BY <3>1, <3>4
  <2>5. CASE ~Better(w, h[k + 1].size, h[b].size)
    <3>1. Chosen(w, h, n, b, k + 1) = b
      BY <1>7, <2>5 DEF Chosen
    <3>2. ASSUME NEW j \in 1..(k + 1), Fits(h[j], n)
          PROVE  /\ w = "best"  => h[b].size <= h[j].size
                 /\ w = "worst" => h[b].size >= h[j].size
      <4>1. CASE j = k + 1
        BY <2>3, <2>5, <4>1 DEF Better
      <4>2. CASE j \in 1..k
        BY <2>1, <3>2, <4>2
      <4> QED
        BY <1>3, <4>1, <4>2
    <3>3. b \in 0..(k + 1)
      BY <1>2
    <3>4. Best(w, h, n, k + 1, b)
      BY <1>7, <2>1, <3>2, <3>3 DEF Best
    <3> QED
      BY <3>1, <3>4
  <2> QED
    BY <2>4, <2>5
<1> QED
  BY <1>5, <1>6, <1>7

\* A search that looks at every header finds the best.
LEMMA ScanFinds ==
  ASSUME NEW h \in Seq(Block), NEW n \in Nat, NEW w \in {"best", "worst"},
         NEW q, q = [i \in DOMAIN h |-> i], NEW f, Scan(f, q, w, h, n)
  PROVE  Best(w, h, n, Len(h), f[DOMAIN q])
<1>1. PICK l \in Nat : l = Len(h)
  BY Headers
<1>2. DOMAIN h = 1..l
  BY <1>1, Headers
<1>3. DOMAIN q = 1..l /\ \A i \in 1..l : q[i] = i
  BY <1>2
<1>4. \A s \in SUBSET (1..l) :
        f[s] = IF s = {} THEN 0 ELSE Chosen(w, h, n, f[s \ {Max(s)}], q[Max(s)])
  BY <1>3 DEF Scan
<1>5. PICK G : G = {k \in Nat : k <= l => Best(w, h, n, k, f[1..k])}
  OBVIOUS
<1>6. 0 \in G
  <2>1. 1..0 = {} /\ {} \in SUBSET (1..l)
    OBVIOUS
  <2>2. f[1..0] = 0
    BY <1>4, <2>1
  <2>3. Best(w, h, n, 0, 0)
    BY DEF Best
  <2> QED
    BY <1>5, <2>2, <2>3
<1>7. ASSUME NEW k \in Nat, k \in G
      PROVE  k + 1 \in G
  <2> SUFFICES ASSUME k + 1 <= l PROVE Best(w, h, n, k + 1, f[1..(k + 1)])
    BY <1>5
  <2>1. Best(w, h, n, k, f[1..k])
    BY <1>5, <1>7, <1>1
  <2>2. PICK s : s = 1..(k + 1)
    OBVIOUS
  <2>3. s \in SUBSET (1..l) /\ s # {} /\ s \subseteq 1..(k + 1) /\ k + 1 \in s
    <3>1. k + 1 \in 1..(k + 1)
      OBVIOUS
    <3>2. \A j \in 1..(k + 1) : j \in 1..l
      OBVIOUS
    <3> QED
      BY <2>2, <3>1, <3>2
  <2>4. k + 1 \in Nat
    OBVIOUS
  <2>5. Max(s) \in s /\ \A j \in s : j <= Max(s)
    BY <2>3, <2>4, GreatestOf
  <2>6. Max(s) = k + 1
    BY <2>2, <2>3, <2>5
  <2>7. s \ {Max(s)} = 1..k
    BY <2>2, <2>6
  <2>8. q[k + 1] = k + 1
    BY <1>3
  <2>9. f[s] = Chosen(w, h, n, f[1..k], k + 1)
    BY <1>4, <2>3, <2>6, <2>7, <2>8
  <2>10. Best(w, h, n, k + 1, Chosen(w, h, n, f[1..k], k + 1))
    BY <1>1, <2>1, BestNext
  <2> QED
    BY <2>2, <2>9, <2>10
<1>8. Nat \subseteq G
  BY <1>6, <1>7, NatSteps
<1>9. l \in G
  BY <1>8
<1>10. l <= l
  OBVIOUS
<1> QED
  BY <1>1, <1>3, <1>5, <1>9, <1>10

\* What the loops of find_free_block_best_fit and find_free_block_worst_fit compute.
BestScan(f, q, h, n) ==
  f = [s \in SUBSET (DOMAIN q) |->
         IF s = {} THEN 0
         ELSE IF /\ Fits(h[q[Max(s)]], n)
                 /\ f[s \ {Max(s)}] = 0 \/ h[q[Max(s)]].size < h[f[s \ {Max(s)}]].size
              THEN q[Max(s)] ELSE f[s \ {Max(s)}]]

WorstScan(f, q, h, n) ==
  f = [s \in SUBSET (DOMAIN q) |->
         IF s = {} THEN 0
         ELSE IF /\ Fits(h[q[Max(s)]], n)
                 /\ f[s \ {Max(s)}] = 0 \/ h[q[Max(s)]].size > h[f[s \ {Max(s)}]].size
              THEN q[Max(s)] ELSE f[s \ {Max(s)}]]

\* They are the search above.
LEMMA ScansAreOne ==
  ASSUME NEW f, NEW q, NEW h, NEW n
  PROVE  /\ BestScan(f, q, h, n) <=> Scan(f, q, "best", h, n)
         /\ WorstScan(f, q, h, n) <=> Scan(f, q, "worst", h, n)
<1>2. \A a, b : (Better("best", a, b) <=> a < b) /\ (Better("worst", a, b) <=> a > b)
  BY DEF Better
<1>3. \A i, b : /\ Chosen("best", h, n, b, i)
                     = IF Fits(h[i], n) /\ (b = 0 \/ h[i].size < h[b].size) THEN i ELSE b
                /\ Chosen("worst", h, n, b, i)
                     = IF Fits(h[i], n) /\ (b = 0 \/ h[i].size > h[b].size) THEN i ELSE b
  BY <1>2 DEF Chosen
<1>4. BestScan(f, q, h, n) <=> Scan(f, q, "best", h, n)
  BY <1>3 DEF BestScan, Scan
<1>5. WorstScan(f, q, h, n) <=> Scan(f, q, "worst", h, n)
  BY <1>3 DEF WorstScan, Scan
<1> QED
  BY <1>4, <1>5

\* find_free_block finds what the policy asks for, if anything fits.
LEMMA Found ==
  ASSUME NEW h \in Seq(Block), NEW n \in Nat, policy \in {"first", "best", "worst"}
  PROVE  Best(policy, h, n, Len(h), find_free_block(h, n))
<1>1. PICK q : q = [i \in DOMAIN h |-> i]
  OBVIOUS
<1>2. CASE policy = "first"
  BY <1>2, FirstFound DEF find_free_block
<1>3. CASE policy = "best"
  <2>1. PICK f : f = CHOOSE g : BestScan(g, q, h, n)
    OBVIOUS
  <2>2. \E g : Scan(g, q, "best", h, n)
    BY <1>1, ScanEnds
  <2>3. \E g : BestScan(g, q, h, n)
    BY <2>2, ScansAreOne
  <2>4. BestScan(f, q, h, n)
    BY <2>1, <2>3
  <2>5. Scan(f, q, "best", h, n)
    BY <2>4, ScansAreOne
  <2>6. Best("best", h, n, Len(h), f[DOMAIN q])
    <3>1. "best" \in {"best", "worst"}
      OBVIOUS
    <3> QED
      BY <1>1, <2>5, <3>1, ScanFinds
  <2>7. find_free_block_best_fit(h, n)
          = (CHOOSE g : BestScan(g, [i \in DOMAIN h |-> i], h, n))[DOMAIN [i \in DOMAIN h |-> i]]
    BY DEF find_free_block_best_fit, FoldLeftDomain, FoldLeft, MapThenFoldSet, BestScan
  <2>8. find_free_block(h, n) = f[DOMAIN q]
    BY <1>1, <1>3, <2>1, <2>7 DEF find_free_block
  <2> QED
    BY <1>3, <2>6, <2>8
<1>4. CASE policy = "worst"
  <2>1. PICK f : f = CHOOSE g : WorstScan(g, q, h, n)
    OBVIOUS
  <2>2. \E g : Scan(g, q, "worst", h, n)
    BY <1>1, ScanEnds
  <2>3. \E g : WorstScan(g, q, h, n)
    BY <2>2, ScansAreOne
  <2>4. WorstScan(f, q, h, n)
    BY <2>1, <2>3
  <2>5. Scan(f, q, "worst", h, n)
    BY <2>4, ScansAreOne
  <2>6. Best("worst", h, n, Len(h), f[DOMAIN q])
    <3>1. "worst" \in {"best", "worst"}
      OBVIOUS
    <3> QED
      BY <1>1, <2>5, <3>1, ScanFinds
  <2>7. find_free_block_worst_fit(h, n)
          = (CHOOSE g : WorstScan(g, [i \in DOMAIN h |-> i], h, n))[DOMAIN [i \in DOMAIN h |-> i]]
    BY DEF find_free_block_worst_fit, FoldLeftDomain, FoldLeft, MapThenFoldSet, WorstScan
  <2>8. find_free_block(h, n) = f[DOMAIN q]
    BY <1>1, <1>4, <2>1, <2>7 DEF find_free_block
  <2> QED
    BY <1>4, <2>6, <2>8
<1> QED
  BY <1>2, <1>3, <1>4

-----------------------------------------------------------------------------
(* The calls.                                                              *)

\* ALIGN8 gives a multiple of ALIGN that fits in an unsigned int, and enough if
\* the sum it rounds does too.
LEMMA Rounded ==
  ASSUME NEW x \in SizeT
  PROVE  /\ ALIGN8(x) \in Nat /\ ALIGN8(x) <= UINT_MAX /\ ALIGN8(x) \in SizeT
         /\ ALIGN8(x) % ALIGN = 0
         /\ x + (ALIGN - 1) <= UINT_MAX => x <= ALIGN8(x)
<1>1. /\ ALIGN \in Nat \ {0} /\ UINT_MAX \in Nat /\ UINT_MAX <= INTPTR_MAX
      /\ INTPTR_MAX \in Nat
  <2>1. HDR \in Nat /\ MIN_SPLIT_REMAINDER \in Nat /\ INTPTR_MAX \in Nat
    BY Sizes, IntptrMaxAssumption
  <2> QED
    BY <2>1, Sizes
<1>2. x \in Nat /\ x <= SIZE_MAX /\ SIZE_MAX \in Nat /\ UINT_MAX <= SIZE_MAX
  BY <1>1 DEF SizeT, SIZE_MAX
<1>3. PICK y : y = SizeAdd(x, ALIGN - 1)
  OBVIOUS
<1>4. y \in Nat /\ (x + (ALIGN - 1) <= UINT_MAX => y = x + (ALIGN - 1))
  BY <1>1, <1>2, <1>3 DEF SizeAdd
<1>5. PICK low : low = y % (UINT_MAX + 1)
  OBVIOUS
<1>6. low \in 0..UINT_MAX /\ (y <= UINT_MAX => low = y)
  <2>1. \A m \in Nat \ {0} : y % m \in 0..(m - 1) /\ (y < m => y % m = y)
    BY <1>4
  <2>2. UINT_MAX + 1 \in Nat \ {0} /\ (UINT_MAX + 1) - 1 = UINT_MAX
    BY <1>1
  <2>3. y % (UINT_MAX + 1) \in 0..((UINT_MAX + 1) - 1) /\ (y < UINT_MAX + 1 => y % (UINT_MAX + 1) = y)
    BY <2>1, <2>2
  <2> QED
    BY <1>1, <1>4, <1>5, <2>2, <2>3
<1>7. low % ALIGN \in 0..(ALIGN - 1) /\ low % ALIGN <= low
  <2>1. low \in Nat
    BY <1>1, <1>6
  <2>2. \A m \in Nat \ {0} : low % m \in 0..(m - 1) /\ low % m <= low
    BY <2>1
  <2> QED
    BY <1>1, <2>2
<1>8. ALIGN8(x) = low - (low % ALIGN)
  BY <1>3, <1>5 DEF ALIGN8
<1>9. PICK z \in Nat : z = low % ALIGN
  BY <1>1, <1>7
<1>10. (low - z) % ALIGN = 0
  <2>1. low \in Nat
    BY <1>1, <1>6
  <2>2. PICK k \in Nat : low = k * ALIGN + z
    <3>1. \A m \in Nat \ {0} : \E k \in Nat : low = k * m + (low % m)
      <4>1. \A m \in Nat \ {0} : low \div m \in Nat /\ low = m * (low \div m) + (low % m)
        BY <2>1
      <4>2. \A m \in Nat \ {0}, k \in Nat : m * k = k * m
        OBVIOUS
      <4> QED
        BY <4>1, <4>2
    <3> QED
      BY <1>1, <1>9, <3>1
  <2>3. PICK e \in Nat : e = k * ALIGN
    BY <1>1
  <2>4. low - z = e /\ low - z \in Nat
    BY <2>1, <2>2, <2>3, <1>9
  <2>5. e % ALIGN = 0
    BY <1>1, <2>3, Multiples
  <2> QED
    BY <2>4, <2>5
<1>11. ALIGN8(x) = low - z /\ z <= low /\ z <= ALIGN - 1
  BY <1>1, <1>7, <1>8, <1>9
<1>12. ALIGN8(x) \in Nat /\ ALIGN8(x) <= UINT_MAX
  BY <1>1, <1>6, <1>9, <1>11
<1>13. ALIGN8(x) \in SizeT
  BY <1>1, <1>2, <1>12 DEF SizeT
<1>14. x + (ALIGN - 1) <= UINT_MAX => x <= ALIGN8(x)
  BY <1>1, <1>2, <1>4, <1>6, <1>9, <1>11
<1> QED
  BY <1>10, <1>11, <1>12, <1>13, <1>14

\* The m bytes at b are in use in g, where nothing was in h.
OneUsed(g, h, b, m) ==
  /\ \A a, s \in Nat : InUse(g, a, s) <=> InUse(h, a, s) \/ (a = b /\ s = m)
  /\ \A s \in Nat : ~InUse(h, b, s)

\* A block that is free and long enough, claimed: it is in use, with n bytes at
\* least, and it was not before.
Taken(g, h, i, n) == \E m \in Nat : n <= m /\ OneUsed(g, h, h[i].at, m)

\* Claim keeps a list well formed.
LEMMA Claims ==
  ASSUME NEW h, GoodList(h), NEW i \in 1..Len(h), NEW n \in Nat, Fits(h[i], n),
         NEW g, g = Claim(h, i, n)
  PROVE  /\ GoodList(g) /\ SameBytes(g, h) /\ Taken(g, h, i, n)
         /\ Even(h) /\ n % ALIGN = 0 /\ HDR % ALIGN = 0 => Even(g)
<1>1. h \in Seq(Block) /\ Ordered(h)
  BY DEF GoodList
<1>2. PICK f : f = [h EXCEPT ![i].free = FALSE]
  OBVIOUS
<1>3. /\ GoodList(f) /\ SameBytes(f, h) /\ Len(f) = Len(h)
      /\ f[i].at = h[i].at /\ f[i].size = h[i].size /\ f[i].free = FALSE
      /\ Even(h) => Even(f)
      /\ \A a, s \in Nat :
           InUse(f, a, s) <=> \/ InUse(h, a, s) /\ a # h[i].at
                              \/ ~FALSE /\ a = h[i].at /\ s = h[i].size
  <2>1. PICK b \in BOOLEAN : b = FALSE
    OBVIOUS
  <2>2. Marked(f, h, i, b)
    BY <1>2, <2>1, Flagged
  <2> QED
    BY <2>1, <2>2 DEF Marked
<1>4. f \in Seq(Block) /\ Ordered(f) /\ Linked(f) /\ i \in 1..Len(f)
  BY <1>3 DEF GoodList
<1>5. n <= f[i].size
  BY <1>1, <1>3, Headers DEF Fits
<1>6. g = split_block(f, i, n)
  BY <1>2 DEF Claim
<1>7. /\ GoodList(g) /\ SameBytes(g, f)
      /\ Even(f) /\ n % ALIGN = 0 /\ HDR % ALIGN = 0 => Even(g)
      /\ \E m \in Nat : n <= m /\ Resized(g, f, i, m)
  BY <1>4, <1>5, <1>6, Split
<1>8. SameBytes(g, h)
  BY <1>3, <1>7 DEF SameBytes
<1>9. ASSUME NEW s \in Nat
      PROVE  ~InUse(h, h[i].at, s)
  <2>1. \A j \in 1..Len(h) : j # i => h[j].at # h[i].at
    BY <1>1, Apart
  <2> QED
    BY <2>1 DEF InUse, Fits
<1>10. Taken(g, h, i, n)
  <2>1. PICK m \in Nat : n <= m /\ Resized(g, f, i, m)
    BY <1>7
  <2>2. h[i].at \in Nat
    BY <1>1, Headers
  <2>3. ASSUME NEW a \in Nat, NEW s \in Nat
        PROVE  InUse(g, a, s) <=> InUse(h, a, s) \/ (a = h[i].at /\ s = m)
    <3>1. InUse(g, a, s) <=> (InUse(f, a, s) /\ a # h[i].at) \/ (a = h[i].at /\ s = m)
      BY <1>3, <2>1 DEF Resized
    <3>2. InUse(h, a, s) => a # h[i].at
      BY <1>9
    <3> QED
      BY <1>3, <3>1, <3>2
  <2>4. OneUsed(g, h, h[i].at, m)
    BY <1>9, <2>3 DEF OneUsed
  <2> QED
    BY <2>1, <2>4 DEF Taken
<1> QED
  BY <1>3, <1>7, <1>8, <1>10

\* In a list with nothing to merge no two free blocks touch.
LEMMA SettledApart ==
  ASSUME NEW h, GoodList(h), Settled(h, Len(h)),
         NEW j \in 1..Len(h), NEW k \in 1..Len(h), h[j].free, h[k].free
  PROVE  BlockEnd(h[j]) # h[k].at
<1> SUFFICES ASSUME BlockEnd(h[j]) = h[k].at PROVE FALSE
  OBVIOUS
<1>1. h \in Seq(Block) /\ Ordered(h)
  BY DEF GoodList
<1>2. PICK l \in Nat : l = Len(h)
  BY <1>1, Headers
<1>3. \A i \in 1..l : h[i].at \in Nat /\ BlockEnd(h[i]) \in Nat /\ h[i].at < BlockEnd(h[i])
  BY <1>1, <1>2, Headers, Ends
<1>4. j \in 1..l /\ k \in 1..l
  BY <1>2
<1>5. \A a, b \in 1..l : a < b => BlockEnd(h[a]) <= h[b].at
  BY <1>1, <1>2 DEF Ordered
<1>6. CASE k = j
  BY <1>3, <1>4, <1>6
<1>7. CASE k < j
  <2>1. BlockEnd(h[k]) <= h[j].at
    BY <1>4, <1>5, <1>7
  <2> QED
    BY <1>3, <1>4, <2>1
<1>8. CASE k = j + 1
  <2>1. Mergeable(h, j)
    <3>1. BlockEnd(h[j]) = h[j].at + HDR + h[j].size
      BY <1>1, Ends
    <3> QED
      BY <1>8, <3>1 DEF Mergeable, are_adjacent
  <2>2. j \in 1..(Len(h) - 1) /\ j < Len(h)
    BY <1>2, <1>4, <1>8
  <2> QED
    BY <2>1, <2>2 DEF Settled
<1>9. CASE j + 1 < k
  <2>1. j + 1 \in 1..l /\ j < j + 1
    BY <1>4, <1>9
  <2>2. BlockEnd(h[j]) <= h[j + 1].at /\ BlockEnd(h[j + 1]) <= h[k].at
    BY <1>4, <1>5, <1>9, <2>1
  <2> QED
    BY <1>3, <1>4, <2>1, <2>2
<1> QED
  BY <1>4, <1>6, <1>7, <1>8, <1>9

\* No two free blocks touch.
Merged(h) == \A j, k \in 1..Len(h) : h[j].free /\ h[k].free => BlockEnd(h[j]) # h[k].at

\* Release frees one block, and coalesces.
LEMMA Releases ==
  ASSUME NEW h, GoodList(h), NEW j \in 1..Len(h), NEW p, p = h[j].at + HDR,
         NEW g, g = Release(h, p)
  PROVE  /\ IndexOf(h, data_to_block(p)) = j
         /\ GoodList(g) /\ SameBytes(g, h) /\ Merged(g)
         /\ HDR % ALIGN = 0 /\ Even(h) => Even(g)
         /\ \A a, s \in Nat : InUse(g, a, s) <=> InUse(h, a, s) /\ a # h[j].at
<1>1. h \in Seq(Block)
  BY DEF GoodList
<1>2. data_to_block(p) = h[j].at
  BY <1>1, Headers, Sizes DEF data_to_block
<1>3. IndexOf(h, data_to_block(p)) = j
  BY <1>2, Indexed
<1>4. PICK f : f = [h EXCEPT ![j].free = TRUE]
  OBVIOUS
<1>5. /\ GoodList(f) /\ SameBytes(f, h)
      /\ Even(h) => Even(f)
      /\ \A a, s \in Nat : InUse(f, a, s) <=> InUse(h, a, s) /\ a # h[j].at
  <2>1. PICK b \in BOOLEAN : b = TRUE
    OBVIOUS
  <2>2. Marked(f, h, j, b)
    BY <1>4, <2>1, Flagged
  <2> QED
    BY <2>1, <2>2 DEF Marked
<1>6. g = coalesce_free_blocks(f)
  BY <1>3, <1>4 DEF Release
<1>7. Keeps(g, f) /\ Settled(g, Len(g))
  BY <1>5, <1>6, Coalesced
<1>8. GoodList(g) /\ SameBytes(g, f) /\ SameUse(g, f) /\ (HDR % ALIGN = 0 /\ Even(f) => Even(g))
  BY <1>7 DEF Keeps
<1>9. SameBytes(g, h)
  BY <1>5, <1>8 DEF SameBytes
<1>10. \A a, s \in Nat : InUse(g, a, s) <=> InUse(h, a, s) /\ a # h[j].at
  BY <1>5, <1>8 DEF SameUse
<1>11. Merged(g)
  BY <1>7, <1>8, SettledApart DEF Merged
<1> QED
  BY <1>3, <1>5, <1>8, <1>9, <1>10, <1>11

\* A list lies between two bounds when every byte it covers does.
LEMMA Bounds ==
  ASSUME NEW h \in Seq(Block), NEW lo \in Nat, NEW hi \in Nat
  PROVE  (\A j \in 1..Len(h) : lo <= h[j].at /\ BlockEnd(h[j]) <= hi)
           <=> \A a \in Nat : Covers(h, a) => lo <= a /\ a < hi
<1>1. \A j \in 1..Len(h) :
        h[j].at \in Nat /\ BlockEnd(h[j]) \in Nat /\ h[j].at < BlockEnd(h[j])
  BY Headers, Ends
<1>2. ASSUME \A j \in 1..Len(h) : lo <= h[j].at /\ BlockEnd(h[j]) <= hi,
             NEW a \in Nat, Covers(h, a)
      PROVE  lo <= a /\ a < hi
  <2>1. PICK j \in 1..Len(h) : h[j].at <= a /\ a < BlockEnd(h[j])
    BY <1>2 DEF Covers
  <2> QED
    BY <1>1, <1>2, <2>1
<1>3. ASSUME \A a \in Nat : Covers(h, a) => lo <= a /\ a < hi, NEW j \in 1..Len(h)
      PROVE  lo <= h[j].at /\ BlockEnd(h[j]) <= hi
  <2>1. PICK e \in Nat : e = BlockEnd(h[j]) - 1
    BY <1>1
  <2>2. PICK b \in Nat : b = h[j].at
    BY <1>1
  <2>3. /\ h[j].at <= b /\ b < BlockEnd(h[j])
        /\ h[j].at <= e /\ e < BlockEnd(h[j])
    <3>1. h[j].at \in Nat /\ BlockEnd(h[j]) \in Nat /\ h[j].at < BlockEnd(h[j])
      BY <1>1
    <3> QED
      BY <2>1, <2>2, <3>1
  <2>5. Covers(h, b) /\ Covers(h, e)
    BY <2>3 DEF Covers
  <2>4. lo <= b /\ e < hi
    BY <1>3, <2>5
  <2>6. h[j].at \in Nat /\ BlockEnd(h[j]) \in Nat
    BY <1>1
  <2> QED
    BY <2>1, <2>2, <2>4, <2>6
<1> QED
  BY <1>2, <1>3

-----------------------------------------------------------------------------
(* A list and the allocations of its thread.                               *)

\* Serves, in terms of what is in use.
Accounts(h, o) ==
  /\ \A r \in o : \E a, s \in Nat : InUse(h, a, s) /\ r.ptr = a + HDR /\ ALIGN8(r.asked) <= s
  /\ \A a, s \in Nat : InUse(h, a, s) => \E r \in o : r.ptr = a + HDR
  /\ \A r, q \in o : r.ptr = q.ptr => r = q

\* The blocks of a list and what it has in use are the same thing.
LEMMA ServesMeans ==
  ASSUME NEW h \in Seq(Block), NEW o
  PROVE  Serves(h, o) <=> Accounts(h, o)
<1>1. \A j \in 1..Len(h) : h[j].at \in Nat /\ h[j].size \in Nat
  BY Headers
<1>2. ASSUME NEW r
      PROVE  (\E a, s \in Nat : InUse(h, a, s) /\ r.ptr = a + HDR /\ ALIGN8(r.asked) <= s)
               <=> \E j \in 1..Len(h) :
                     ~h[j].free /\ r.ptr = h[j].at + HDR /\ ALIGN8(r.asked) <= h[j].size
  BY <1>1 DEF InUse
<1>3. (\A a, s \in Nat : InUse(h, a, s) => \E r \in o : r.ptr = a + HDR)
        <=> \A j \in 1..Len(h) : ~h[j].free => \E r \in o : r.ptr = h[j].at + HDR
  BY <1>1 DEF InUse
<1> QED
  BY <1>2, <1>3 DEF Serves, Accounts

\* An allocation joins the others.
With(o, p, asked) == o \cup {[ptr |-> p, asked |-> asked]}

Without(o, p) == {r \in o : r.ptr # p}

\* What an allocation is made of.
LEMMA AllocationFields ==
  ASSUME NEW o, o \subseteq Allocations
  PROVE  \A r \in o : r.ptr \in Nat /\ r.ptr # NULL /\ r.asked \in SizeT
BY DEF Allocations

\* One block more in use, where none was, and one allocation more.
LEMMA AccountsMore ==
  ASSUME NEW h, NEW g, NEW o, o \subseteq Allocations, Accounts(h, o),
         NEW b \in Nat, NEW m \in Nat, NEW asked \in SizeT, ALIGN8(asked) <= m,
         OneUsed(g, h, b, m)
  PROVE  /\ Accounts(g, With(o, b + HDR, asked))
         /\ With(o, b + HDR, asked) \subseteq Allocations
         /\ \A r \in o : r.ptr # b + HDR
<1>0. /\ \A a, s \in Nat : InUse(g, a, s) <=> InUse(h, a, s) \/ (a = b /\ s = m)
      /\ \A s \in Nat : ~InUse(h, b, s)
  BY DEF OneUsed
<1>1. HDR \in Nat \ {0}
  BY Sizes
<1>2. PICK p \in Nat : p = b + HDR /\ p # 0
  BY <1>1
<1>3. PICK e : e = [ptr |-> p, asked |-> asked]
  OBVIOUS
<1>4. e.ptr = p /\ e.asked = asked /\ e \in Allocations
  BY <1>2, <1>3 DEF Allocations
<1>5. With(o, p, asked) = o \cup {e}
  BY <1>3 DEF With
<1>6. ASSUME NEW r \in o
      PROVE  r.ptr # p
  <2>1. PICK a \in Nat, s \in Nat : InUse(h, a, s) /\ r.ptr = a + HDR
    BY DEF Accounts
  <2>2. a # b
    BY <1>0, <2>1
  <2> QED
    BY <1>1, <1>2, <2>1, <2>2
<1>7. ASSUME NEW r \in o \cup {e}
      PROVE  \E a, s \in Nat : InUse(g, a, s) /\ r.ptr = a + HDR /\ ALIGN8(r.asked) <= s
  <2>1. CASE r \in o
    <3>1. PICK a \in Nat, s \in Nat : InUse(h, a, s) /\ r.ptr = a + HDR /\ ALIGN8(r.asked) <= s
      BY <2>1 DEF Accounts
    <3> QED
      BY <1>0, <3>1
  <2>2. CASE r = e
    <3>1. InUse(g, b, m)
      BY <1>0
    <3> QED
      BY <1>2, <1>4, <2>2, <3>1
  <2> QED
    BY <2>1, <2>2
<1>8. ASSUME NEW a \in Nat, NEW s \in Nat, InUse(g, a, s)
      PROVE  \E r \in o \cup {e} : r.ptr = a + HDR
  <2>1. CASE InUse(h, a, s)
    BY <2>1 DEF Accounts
  <2>2. CASE a = b /\ s = m
    BY <1>2, <1>4, <2>2
  <2> QED
    BY <1>0, <1>8, <2>1, <2>2
<1>9. \A r, q \in o \cup {e} : r.ptr = q.ptr => r = q
  BY <1>4, <1>6 DEF Accounts
<1>10. Accounts(g, o \cup {e})
  BY <1>7, <1>8, <1>9 DEF Accounts
<1> QED
  BY <1>2, <1>4, <1>5, <1>6, <1>10

\* The allocation at p is of one block in use.
LEMMA AllocationPlace ==
  ASSUME NEW h, GoodList(h), NEW o, o \subseteq Allocations, Serves(h, o),
         NEW r \in o, NEW p, p = r.ptr
  PROVE  \E j \in 1..Len(h) :
           /\ IndexOf(h, data_to_block(p)) = j
           /\ p = h[j].at + HDR /\ ~h[j].free
<1>1. PICK j \in 1..Len(h) : ~h[j].free /\ r.ptr = h[j].at + HDR
  BY DEF Serves
<1>2. h[j].at \in Nat
  BY Headers DEF GoodList
<1>3. data_to_block(p) = h[j].at
  BY <1>1, <1>2, Sizes DEF data_to_block
<1>4. IndexOf(h, data_to_block(p)) = j
  BY <1>3, Indexed
<1> QED
  BY <1>1, <1>4

\* One block in use less, and one allocation less.
LEMMA AccountsLess ==
  ASSUME NEW h, NEW g, NEW o, o \subseteq Allocations, Accounts(h, o), NEW b \in Nat,
         \A a, s \in Nat : InUse(g, a, s) <=> InUse(h, a, s) /\ a # b
  PROVE  Accounts(g, Without(o, b + HDR))
<1>1. HDR \in Nat
  BY Sizes
<1>2. ASSUME NEW r \in o, r.ptr # b + HDR
      PROVE  \E a, s \in Nat : InUse(g, a, s) /\ r.ptr = a + HDR /\ ALIGN8(r.asked) <= s
  <2>1. PICK a \in Nat, s \in Nat : InUse(h, a, s) /\ r.ptr = a + HDR /\ ALIGN8(r.asked) <= s
    BY DEF Accounts
  <2>2. a # b
    BY <1>2, <2>1
  <2> QED
    BY <2>1, <2>2
<1>3. ASSUME NEW a \in Nat, NEW s \in Nat, InUse(g, a, s)
      PROVE  \E r \in o : r.ptr # b + HDR /\ r.ptr = a + HDR
  <2>1. InUse(h, a, s) /\ a # b
    BY <1>3
  <2>2. PICK r \in o : r.ptr = a + HDR
    BY <2>1 DEF Accounts
  <2> QED
    BY <1>1, <2>1, <2>2
<1>4. \A r, q \in o : r.ptr = q.ptr => r = q
  BY DEF Accounts
<1> QED
  BY <1>2, <1>3, <1>4 DEF Accounts, Without

\* ff_malloc takes a free block.
LEMMA ClaimServes ==
  ASSUME NEW h, GoodList(h), NEW o, o \subseteq Allocations, Serves(h, o),
         NEW asked \in SizeT, NEW n, n = ALIGN8(asked),
         NEW i \in 1..Len(h), Fits(h[i], n),
         NEW g, g = Claim(h, i, n), NEW p, p = h[i].at + HDR
  PROVE  /\ GoodList(g) /\ SameBytes(g, h) /\ Taken(g, h, i, n)
         /\ Even(h) /\ HDR % ALIGN = 0 => Even(g)
         /\ Serves(g, With(o, p, asked))
         /\ With(o, p, asked) \subseteq Allocations
         /\ p \in Nat /\ p # NULL /\ \A r \in o : r.ptr # p
<1>1. n \in Nat /\ n % ALIGN = 0
  BY Rounded
<1>2. /\ GoodList(g) /\ SameBytes(g, h) /\ Taken(g, h, i, n)
      /\ Even(h) /\ n % ALIGN = 0 /\ HDR % ALIGN = 0 => Even(g)
  BY <1>1, Claims
<1>3. h \in Seq(Block) /\ g \in Seq(Block)
  BY <1>2 DEF GoodList
<1>4. PICK b \in Nat : b = h[i].at
  BY <1>3, Headers
<1>5. PICK m \in Nat : n <= m /\ OneUsed(g, h, b, m)
  BY <1>2, <1>4 DEF Taken
<1>7. Accounts(h, o)
  BY <1>3, ServesMeans
<1>8. /\ Accounts(g, With(o, b + HDR, asked))
      /\ With(o, b + HDR, asked) \subseteq Allocations
      /\ \A r \in o : r.ptr # b + HDR
  BY <1>5, <1>7, AccountsMore
<1>9. Serves(g, With(o, p, asked))
  BY <1>3, <1>4, <1>8, ServesMeans
<1>10. p \in Nat /\ p # NULL
  BY <1>4, Sizes
<1> QED
  BY <1>1, <1>2, <1>4, <1>8, <1>9, <1>10

\* ff_free gives a block back.
LEMMA ReleaseServes ==
  ASSUME NEW h, GoodList(h), NEW o, o \subseteq Allocations, Serves(h, o),
         NEW r \in o, NEW p, p = r.ptr, NEW g, g = Release(h, p)
  PROVE  /\ ~h[IndexOf(h, data_to_block(p))].free
         /\ GoodList(g) /\ SameBytes(g, h) /\ Merged(g)
         /\ HDR % ALIGN = 0 /\ Even(h) => Even(g)
         /\ Serves(g, Without(o, p))
         /\ \A a, s \in Nat : InUse(g, a, s) => InUse(h, a, s)
<1>1. PICK j \in 1..Len(h) :
           /\ IndexOf(h, data_to_block(p)) = j
           /\ p = h[j].at + HDR /\ ~h[j].free
  BY AllocationPlace
<1>2. /\ GoodList(g) /\ SameBytes(g, h) /\ Merged(g)
      /\ HDR % ALIGN = 0 /\ Even(h) => Even(g)
      /\ \A a, s \in Nat : InUse(g, a, s) <=> InUse(h, a, s) /\ a # h[j].at
  BY <1>1, Releases
<1>3. h \in Seq(Block) /\ g \in Seq(Block)
  BY <1>2 DEF GoodList
<1>4. PICK b \in Nat : b = h[j].at
  BY <1>3, Headers
<1>5. Accounts(h, o)
  BY <1>3, ServesMeans
<1>6. Accounts(g, Without(o, b + HDR))
  <2>1. \A a, s \in Nat : InUse(g, a, s) <=> InUse(h, a, s) /\ a # b
    BY <1>2, <1>4
  <2> QED
    BY <1>5, <2>1, AccountsLess
<1>7. Serves(g, Without(o, p))
  BY <1>1, <1>3, <1>4, <1>6, ServesMeans
<1> QED
  BY <1>1, <1>2, <1>7

\* request_space links what sbrk() returned.
LEMMA AppendServes ==
  ASSUME NEW h, GoodList(h), NEW o, o \subseteq Allocations, Serves(h, o),
         NEW asked \in SizeT, NEW n, n = ALIGN8(asked), NEW b \in Nat,
         \A j \in 1..Len(h) : BlockEnd(h[j]) <= b,
         NEW g, g = AppendBlock(h, b, n), NEW p, p = b + HDR
  PROVE  /\ GoodList(g)
         /\ \A a \in Nat : Covers(g, a) <=> Covers(h, a) \/ (b <= a /\ a < b + HDR + n)
         /\ \A a, s \in Nat : InUse(g, a, s) => InUse(h, a, s) \/ a = b
         /\ Even(h) /\ b % ALIGN = 0 => Even(g)
         /\ Serves(g, With(o, p, asked))
         /\ With(o, p, asked) \subseteq Allocations
         /\ p \in Nat /\ p # NULL /\ \A r \in o : r.ptr # p
<1>1. n \in Nat /\ n % ALIGN = 0
  BY Rounded
<1>2. /\ GoodList(g)
      /\ \A a \in Nat : Covers(g, a) <=> Covers(h, a) \/ (b <= a /\ a < b + HDR + n)
      /\ \A a, s \in Nat : InUse(g, a, s) <=> InUse(h, a, s) \/ (a = b /\ s = n)
      /\ Even(h) /\ b % ALIGN = 0 /\ n % ALIGN = 0 => Even(g)
  BY <1>1, Appended
<1>3. h \in Seq(Block) /\ g \in Seq(Block)
  BY <1>2 DEF GoodList
<1>4. \A s \in Nat : ~InUse(h, b, s)
  <2>1. \A j \in 1..Len(h) : h[j].at \in Nat /\ h[j].at < BlockEnd(h[j]) /\ BlockEnd(h[j]) \in Nat
    BY <1>3, Headers, Ends
  <2>2. \A j \in 1..Len(h) : h[j].at # b
    BY <2>1
  <2> QED
    BY <2>2 DEF InUse
<1>5. Accounts(h, o)
  BY <1>3, ServesMeans
<1>6. /\ Accounts(g, With(o, b + HDR, asked))
      /\ With(o, b + HDR, asked) \subseteq Allocations
      /\ \A r \in o : r.ptr # b + HDR
  <2>1. ALIGN8(asked) <= n
    BY <1>1
  <2>2. OneUsed(g, h, b, n)
    BY <1>2, <1>4 DEF OneUsed
  <2> QED
    BY <1>1, <1>5, <2>1, <2>2, AccountsMore
<1>7. Serves(g, With(o, p, asked))
  BY <1>3, <1>6, ServesMeans
<1>8. p \in Nat /\ p # NULL
  BY Sizes
<1> QED
  BY <1>1, <1>2, <1>6, <1>7, <1>8

\* ff_realloc shrinks a block in place, or leaves it as it is.
LEMMA SplitServes ==
  ASSUME NEW h, GoodList(h), NEW o, o \subseteq Allocations, Serves(h, o),
         NEW r \in o, NEW p, p = r.ptr, NEW asked \in SizeT, NEW n, n = ALIGN8(asked),
         NEW i, i = IndexOf(h, data_to_block(p)), n <= h[i].size,
         NEW g, g = split_block(h, i, n)
  PROVE  /\ GoodList(g) /\ SameBytes(g, h)
         /\ Even(h) /\ HDR % ALIGN = 0 => Even(g)
         /\ Serves(g, With(Without(o, p), p, asked))
         /\ With(Without(o, p), p, asked) \subseteq Allocations
         /\ \A a, s \in Nat : InUse(g, a, s) => \E m \in Nat : InUse(h, a, m)
<1>1. i \in 1..Len(h) /\ p = h[i].at + HDR /\ ~h[i].free
  BY AllocationPlace
<1>2. h \in Seq(Block) /\ Ordered(h) /\ Linked(h)
  BY DEF GoodList
<1>3. n \in Nat /\ n % ALIGN = 0
  BY Rounded
<1>4. /\ GoodList(g) /\ SameBytes(g, h)
      /\ Even(h) /\ n % ALIGN = 0 /\ HDR % ALIGN = 0 => Even(g)
      /\ \E m \in Nat : n <= m /\ Resized(g, h, i, m)
  BY <1>1, <1>2, <1>3, Split
<1>5. PICK m \in Nat : n <= m /\ Resized(g, h, i, m)
  BY <1>4
<1>6. PICK b \in Nat : b = h[i].at
  BY <1>1, <1>2, Headers
<1>7. \A a, s \in Nat : InUse(g, a, s) <=> (InUse(h, a, s) /\ a # b) \/ (a = b /\ s = m)
  BY <1>1, <1>5, <1>6 DEF Resized
<1>8. HDR \in Nat
  BY Sizes
<1>9. p \in Nat /\ p # NULL
  BY AllocationFields
<1>10. PICK e : e = [ptr |-> p, asked |-> asked]
  OBVIOUS
<1>11. e.ptr = p /\ e.asked = asked /\ e \in Allocations
  BY <1>9, <1>10 DEF Allocations
<1>12. PICK o2 : o2 = Without(o, p) \cup {e}
  OBVIOUS
<1>13. \A q \in o2 : q = e \/ (q \in o /\ q.ptr # p)
  BY <1>12 DEF Without
<1>14. Accounts(h, o)
  BY <1>2, ServesMeans
<1>15. ASSUME NEW q \in o2
       PROVE  \E a, s \in Nat : InUse(g, a, s) /\ q.ptr = a + HDR /\ ALIGN8(q.asked) <= s
  <2>1. CASE q = e
    <3>1. InUse(g, b, m)
      BY <1>7
    <3> QED
      BY <1>1, <1>5, <1>6, <1>11, <2>1, <3>1
  <2>2. CASE q \in o /\ q.ptr # p
    <3>1. PICK a \in Nat, s \in Nat : InUse(h, a, s) /\ q.ptr = a + HDR /\ ALIGN8(q.asked) <= s
      BY <1>14, <2>2 DEF Accounts
    <3>2. a # b
      BY <1>1, <1>6, <2>2, <3>1
    <3> QED
      BY <1>7, <3>1, <3>2
  <2> QED
    BY <1>13, <2>1, <2>2
<1>16. ASSUME NEW a \in Nat, NEW s \in Nat, InUse(g, a, s)
       PROVE  \E q \in o2 : q.ptr = a + HDR
  <2>1. CASE InUse(h, a, s) /\ a # b
    <3>1. PICK q \in o : q.ptr = a + HDR
      BY <1>14, <2>1 DEF Accounts
    <3>2. q.ptr # p
      BY <1>1, <1>6, <1>8, <2>1, <3>1
    <3> QED
      BY <1>12, <3>1, <3>2 DEF Without
  <2>2. CASE a = b /\ s = m
    BY <1>1, <1>6, <1>11, <1>12, <2>2
  <2> QED
    BY <1>7, <1>16, <2>1, <2>2
<1>17. \A q, u \in o2 : q.ptr = u.ptr => q = u
  <2>1. \A q, u \in o : q.ptr = u.ptr => q = u
    BY <1>14 DEF Accounts
  <2> QED
    BY <1>11, <1>13, <2>1
<1>18. Accounts(g, o2)
  BY <1>15, <1>16, <1>17 DEF Accounts
<1>19. o2 \subseteq Allocations
  BY <1>11, <1>13
<1>20. o2 = With(Without(o, p), p, asked)
  BY <1>10, <1>12 DEF With
<1>21. Serves(g, o2)
  BY <1>4, <1>18, ServesMeans DEF GoodList
<1>22. ASSUME NEW a \in Nat, NEW s \in Nat, InUse(g, a, s)
       PROVE  \E k \in Nat : InUse(h, a, k)
  <2>1. InUse(h, b, h[i].size) /\ h[i].size \in Nat
    BY <1>1, <1>2, <1>6, Headers DEF InUse
  <2> QED
    BY <1>7, <1>22, <2>1
<1> QED
  BY <1>3, <1>4, <1>19, <1>20, <1>21, <1>22

=============================================================================
