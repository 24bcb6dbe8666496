--------------------------- MODULE MemPool_proofs ---------------------------
(***************************************************************************)
(* Machine-checked proofs about MemPool, for every start size, pointer     *)
(* size, set of allocation sizes and number of allocations.                *)
(***************************************************************************)
EXTENDS MemPool, ProofFacts

-----------------------------------------------------------------------------
(***************************************************************************)
(* The search and sorting operators.                                       *)
(***************************************************************************)

LEMMA AlignedSizeIsNatural ==
  ASSUME NEW size \in Nat
  PROVE  ALIGN_SIZE(size) \in Nat
BY PoolAssumption DEF ALIGN_SIZE

\* What the binary search returns: the first searched block that fits.
LEMMA FirstSmallestFits ==
  ASSUME NEW n \in Nat \ {0}, NEW lo \in 0..n, NEW size \in Nat,
         NEW b \in [0..(n - 1) -> Block]
  PROVE  LET i == FirstSmallest(b, n, lo, size)
         IN  /\ i \in 0..n
             /\ i < n => b[i].free >= size
             /\ i < lo => i = n - 1
             /\ \A k \in lo..(n - 1) : b[k].free >= size => i <= k
<1> DEFINE from == IF lo < n THEN lo ELSE n - 1
           fits == {k \in from..(n - 1) : b[k].free >= size}
<1>1. CASE fits = {}
  BY <1>1 DEF FirstSmallest
<1>2. CASE fits # {}
  <2>1. fits \in SUBSET Nat
    OBVIOUS
  <2>2. \E k \in fits : \A l \in fits : k <= l
    BY <1>2, <2>1, LeastNatural
  <2>3. PICK k \in fits : /\ FirstSmallest(b, n, lo, size) = k
                          /\ \A l \in fits : k <= l
    BY <1>2, <2>2 DEF FirstSmallest
  <2>4. QED
    BY <2>3
<1>3. QED
  BY <1>1, <1>2

\* The first block of a size class.
LEMMA ClassFirstIsFirst ==
  ASSUME NEW n \in Nat \ {0}, NEW lo \in 0..(n - 1), NEW k \in lo..(n - 1),
         NEW b \in [0..(n - 1) -> Block]
  PROVE  LET m == ClassFirst(b, lo, k)
         IN  /\ m \in lo..k
             /\ b[m].free = b[k].free
             /\ \A l \in lo..k : b[l].free = b[k].free => m <= l
<1> DEFINE class == {m \in lo..k : b[m].free = b[k].free}
<1>1. class \in SUBSET Nat /\ k \in class
  OBVIOUS
<1>2. \E m \in class : \A l \in class : m <= l
  BY <1>1, LeastNatural
<1>3. \E m \in lo..k : /\ b[m].free = b[k].free
                        /\ \A l \in lo..k : b[l].free = b[k].free => m <= l
  BY <1>2
<1>4. QED
  BY <1>3, Zenon DEF ClassFirst

\* The end of the loop that skips used-up blocks stays within the array.
LEMMA FirstUnskippedInRange ==
  ASSUME NEW n \in Nat \ {0}, NEW lo \in 0..n, NEW skip \in Nat,
         NEW b \in [0..(n - 1) -> Block]
  PROVE  FirstUnskipped(b, n, lo, skip) \in lo..n
<1> DEFINE open == {k \in lo..n : k = n \/ b[k].free > skip}
<1>1. open \in SUBSET Nat /\ n \in open
  OBVIOUS
<1>2. \E m \in open : \A l \in open : m <= l
  BY <1>1, LeastNatural
<1>3. FirstUnskipped(b, n, lo, skip) \in open
  BY <1>2 DEF FirstUnskipped
<1>4. QED
  BY <1>3

\* The searched part of an array is sorted but for the block at i, which may
\* have less free space than the blocks before it.
SortedExcept(b, n, lo, i) ==
  /\ \A k, l \in lo..(n - 1) :
       k <= l /\ k # i /\ l # i => b[k].free <= b[l].free
  /\ \A l \in lo..(n - 1) : i >= lo /\ i <= l => b[i].free <= b[l].free
  /\ i < lo => i = n - 1

SortedFrom(b, n, lo) ==
  \A k, l \in lo..(n - 1) : k <= l => b[k].free <= b[l].free

\* Array r has the blocks of array b, each once, in some other order.
Rearranges(r, b, n) ==
  \E s \in [0..(n - 1) -> 0..(n - 1)] :
    /\ \A k \in 0..(n - 1) : r[k] = b[s[k]]
    /\ \A k, l \in 0..(n - 1) : s[k] = s[l] => k = l

\* An array rearranges itself.
LEMMA RearrangesItself ==
  ASSUME NEW n \in Nat, NEW b \in [0..(n - 1) -> Block]
  PROVE  Rearranges(b, b, n)
<1> DEFINE s == [k \in 0..(n - 1) |-> k]
<1>1. /\ s \in [0..(n - 1) -> 0..(n - 1)]
      /\ \A k \in 0..(n - 1) : b[k] = b[s[k]]
      /\ \A k, l \in 0..(n - 1) : s[k] = s[l] => k = l
  OBVIOUS
<1>2. QED
  BY <1>1 DEF Rearranges

\* The move at the end of SAU_MemPool_alloc() restores the order of the
\* searched blocks and neither loses nor copies a block.
LEMMA ResortSorts ==
  ASSUME NEW n \in Nat \ {0}, NEW lo \in 0..n, NEW i \in 0..(n - 1),
         NEW b \in [0..(n - 1) -> Block],
         SortedExcept(b, n, lo, i)
  PROVE  LET r == Resort(b, n, lo, i)
         IN  /\ r \in [0..(n - 1) -> Block]
             /\ SortedFrom(r, n, lo)
             /\ Rearranges(r, b, n)
<1>1. CASE i = 0
  <2>1. Resort(b, n, lo, i) = b
    BY <1>1 DEF Resort
  <2>2. SortedFrom(b, n, lo)
    BY <1>1 DEF SortedFrom, SortedExcept
  <2>3. QED
    BY <2>1, <2>2, RearrangesItself
<1>2. CASE i > 0
  <2> DEFINE f == [b EXCEPT ![i].free = b[i - 1].free]
             j == FirstGreater(f, n, lo, b[i].free)
  <2>1. /\ f \in [0..(n - 1) -> Block]
        /\ \A k \in 0..(n - 1) : k # i => f[k] = b[k]
        /\ f[i].free = b[i - 1].free
    BY <1>2 DEF Block
  <2>2. b[i].free + 1 \in Nat
    BY DEF Block
  <2>3. /\ j \in 0..n
        /\ j < n => f[j].free >= b[i].free + 1
        /\ j < lo => j = n - 1
        /\ \A k \in lo..(n - 1) : f[k].free >= b[i].free + 1 => j <= k
    <3> HIDE DEF f
    <3>1. QED
      BY <2>1, <2>2, FirstSmallestFits DEF FirstGreater
  <2>4. CASE ~ (j < i)
    <3>1. Resort(b, n, lo, i) = b
      BY <1>2, <2>4 DEF Resort
    <3>2. ASSUME NEW k \in lo..(n - 1), k < i
          PROVE  b[k].free <= b[i].free
      <4> HIDE DEF f, j
      <4>1. f[k] = b[k] /\ b[k].free \in Nat /\ b[i].free \in Nat
        BY <3>2, <2>1 DEF Block
      <4>2. ~ (j <= k)
        BY <3>2, <2>3, <2>4
      <4>3. ~ (f[k].free >= b[i].free + 1)
        BY <2>3, <4>2
      <4>4. QED
        BY <4>1, <4>3
    <3>3. SortedFrom(b, n, lo)
      BY <3>2 DEF SortedFrom, SortedExcept
    <3>4. QED
      BY <3>1, <3>3, RearrangesItself
  <2>5. CASE j < i
    <3> DEFINE moved(k) == k \in (j + 1)..i /\ (k = i \/ f[k].free # f[k - 1].free)
               src(k) == IF k = j THEN i
                         ELSE IF moved(k) THEN ClassFirst(f, j, k - 1) ELSE k
               r == Resort(b, n, lo, i)
    <3>1. r = [CopyUpOne(f, i, j) EXCEPT ![j] = b[i]]
      BY <1>2, <2>5 DEF Resort
    <3> HIDE DEF r
    <3>2. r = [k \in 0..(n - 1) |->
                 IF k = j THEN b[i]
                 ELSE IF moved(k) THEN f[ClassFirst(f, j, k - 1)] ELSE f[k]]
      <4> HIDE DEF f, j
      <4>1. DOMAIN f = 0..(n - 1)
        BY <2>1
      <4>2. QED
        BY <3>1, <4>1 DEF CopyUpOne
    <3> HIDE DEF f, j
    <3>3. lo <= j /\ j \in Nat /\ lo <= i
      BY <2>3, <2>5
    <3>4. ASSUME NEW k \in lo..(n - 1), NEW l \in lo..(n - 1), k <= l
          PROVE  f[k].free <= f[l].free
      <4>1. i - 1 \in lo..(n - 1) /\ i \in lo..(n - 1)
        BY <2>5, <3>3
      <4>2. \A m \in lo..(n - 1) : b[m].free \in Nat
        BY DEF Block
      <4>3. CASE k # i /\ l # i
        BY <2>1, <3>4, <4>3 DEF SortedExcept
      <4>4. CASE k = i /\ l # i
        <5>1. b[i - 1].free <= b[l].free
          BY <3>4, <4>1, <4>4 DEF SortedExcept
        <5>2. QED
          BY <2>1, <4>4, <5>1
      <4>5. CASE k # i /\ l = i
        <5>1. b[k].free <= b[i - 1].free
          BY <3>4, <4>1, <4>2, <4>5 DEF SortedExcept
        <5>2. QED
          BY <2>1, <4>5, <5>1
      <4>6. CASE k = i /\ l = i
        BY <2>1, <4>1, <4>2, <4>6
      <4>7. QED
        BY <4>3, <4>4, <4>5, <4>6
    <3>5. ASSUME NEW k \in (j + 1)..i
          PROVE  LET m == ClassFirst(f, j, k - 1)
                 IN  /\ m \in j..(k - 1)
                     /\ f[m].free = f[k - 1].free
                     /\ \A l \in j..(k - 1) : f[l].free = f[k - 1].free => m <= l
      <4> HIDE DEF src
      <4>1. j \in 0..(n - 1) /\ k - 1 \in j..(n - 1)
        BY <2>5, <3>3
      <4> DEFINE k1 == k - 1
      <4>2. k1 \in j..(n - 1)
        BY <4>1
      <4> HIDE DEF k1
      <4>3. LET m == ClassFirst(f, j, k1)
            IN  /\ m \in j..k1
                /\ f[m].free = f[k1].free
                /\ \A l \in j..k1 : f[l].free = f[k1].free => m <= l
        BY <4>1, <4>2, <2>1, ClassFirstIsFirst
      <4>4. QED
        BY <4>3 DEF k1
    <3>6. \A k \in 0..(n - 1) : src(k) \in 0..(n - 1) /\ r[k] = b[src(k)]
      BY <2>1, <2>5, <3>2, <3>3, <3>5
    <3>7. ASSUME NEW k \in 0..(n - 1), NEW l \in 0..(n - 1), src(k) = src(l)
          PROVE  k = l
      <4>1. \A m \in (j + 1)..i : moved(m) =>
              /\ src(m) \in j..(m - 1)
              /\ f[src(m)].free = f[m - 1].free
              /\ \A p \in j..(m - 1) : f[p].free = f[m - 1].free => src(m) <= p
        BY <3>3, <3>5
      <4>2. \A m \in 0..(n - 1) : m # j /\ ~ moved(m) => src(m) = m
        OBVIOUS
      <4>3. src(j) = i
        OBVIOUS
      <4>4. \A m \in 0..(n - 1) : moved(m) => m \in (j + 1)..i
        OBVIOUS
      <4>5. moved(i)
        BY <2>5, <3>3
      <4>6. \A m \in 0..(n - 1) : f[m].free \in Nat
        BY <2>1 DEF Block
      <4>7. \A m \in (j + 1)..i : ~ moved(m) => f[m].free = f[m - 1].free
        OBVIOUS
      <4>8. \A m \in (j + 1)..i : moved(m) => m = i \/ f[m].free # f[m - 1].free
        OBVIOUS
      <4> HIDE DEF src, moved
      <4>9. ASSUME NEW x \in 0..(n - 1), NEW y \in 0..(n - 1), moved(x), moved(y),
                   x < y, src(x) = src(y)
            PROVE  FALSE
        <5>1. x \in (j + 1)..i /\ y \in (j + 1)..i
          BY <4>4, <4>9
        <5>2. f[x - 1].free = f[y - 1].free
          BY <4>1, <4>9, <5>1
        <5>3. f[x - 1].free <= f[x].free /\ f[x].free <= f[y - 1].free
          BY <3>3, <3>4, <4>9, <5>1
        <5>4. f[x].free = f[x - 1].free
          BY <3>3, <4>6, <5>1, <5>2, <5>3
        <5>5. x # i
          BY <4>9, <5>1
        <5>6. QED
          BY <4>8, <4>9, <5>1, <5>4, <5>5
      <4>10. ASSUME NEW x \in 0..(n - 1), NEW y \in 0..(n - 1), moved(x), ~ moved(y),
                    y # j, src(x) = src(y)
             PROVE  FALSE
        <5>1. x \in (j + 1)..i /\ y = src(x) /\ y \in j..(x - 1)
          BY <4>1, <4>2, <4>4, <4>10
        <5>2. y \in (j + 1)..i /\ y - 1 \in j..(x - 1)
          BY <3>3, <4>10, <5>1
        <5>3. f[y - 1].free = f[x - 1].free
          BY <4>1, <4>7, <4>10, <5>1, <5>2
        <5>4. src(x) <= y - 1
          BY <4>1, <4>10, <5>1, <5>2, <5>3
        <5>5. QED
          BY <5>1, <5>2, <5>4
      <4>11. ASSUME NEW x \in 0..(n - 1), x # j, src(x) = i
             PROVE  FALSE
        <5>1. CASE moved(x)
          BY <3>3, <4>1, <4>4, <5>1, <4>11
        <5>2. CASE ~ moved(x)
          BY <4>2, <4>5, <4>11, <5>2
        <5>3. QED
          BY <5>1, <5>2
      <4>12. CASE k = j \/ l = j
        BY <3>7, <4>3, <4>11, <4>12
      <4>13. CASE k # j /\ l # j
        <5>1. CASE moved(k) /\ moved(l)
          BY <3>7, <4>9, <5>1
        <5>2. CASE moved(k) /\ ~ moved(l)
          BY <3>7, <4>10, <4>13, <5>2
        <5>3. CASE ~ moved(k) /\ moved(l)
          BY <3>7, <4>10, <4>13, <5>3
        <5>4. CASE ~ moved(k) /\ ~ moved(l)
          BY <3>7, <4>2, <4>13, <5>4
        <5>5. QED
          BY <5>1, <5>2, <5>3, <5>4
      <4>14. QED
        BY <4>12, <4>13
    <3>8. SortedFrom(r, n, lo)
      <4>1. \A m \in 0..(n - 1) : f[m].free \in Nat /\ b[m].free \in Nat
        BY <2>1 DEF Block
      <4>2. r[j] = b[i] /\ b[i].free < f[j].free
        BY <2>3, <2>5, <3>2, <4>1
      <4>3. ASSUME NEW m \in (j + 1)..i
            PROVE  f[m - 1].free <= r[m].free /\ r[m].free <= f[m].free
        <5>1. f[m - 1].free <= f[m].free
          BY <3>3, <3>4
        <5>2. m \in 0..(n - 1) /\ m # j
          BY <3>3
        <5>3. CASE moved(m)
          <6>1. r[m] = f[ClassFirst(f, j, m - 1)]
            BY <3>2, <5>2, <5>3
          <6>2. r[m].free = f[m - 1].free
            BY <3>5, <6>1
          <6>3. QED
            BY <3>3, <4>1, <5>1, <6>2
        <5>4. CASE ~ moved(m)
          <6>1. r[m] = f[m]
            BY <3>2, <5>2, <5>4
          <6>2. QED
            BY <3>3, <4>1, <5>1, <6>1
        <5>5. QED
          BY <5>3, <5>4
      <4>4. \A m \in lo..(n - 1) : m < j \/ m > i => r[m] = f[m]
        BY <2>5, <3>2, <3>3
      <4>5. \A m \in lo..(n - 1) : m < j => f[m].free <= b[i].free
        BY <2>3, <3>3, <4>1
      <4> HIDE DEF src, moved
      <4>6. ASSUME NEW m \in lo..(n - 1)
            PROVE  r[m].free <= f[m].free /\ r[m].free \in Nat
        <5>1. r[m].free \in Nat
          <6>1. m \in 0..(n - 1)
            OBVIOUS
          <6>2. r[m] \in Block
            BY <3>6, <6>1
          <6>3. QED
            BY <6>2 DEF Block
        <5>2. CASE m = j
          BY <4>1, <4>2, <5>1, <5>2
        <5>3. CASE m \in (j + 1)..i
          BY <4>3, <5>1, <5>3
        <5>4. CASE m < j \/ m > i
          BY <4>1, <4>4, <5>1, <5>4
        <5>5. QED
          BY <2>5, <3>3, <5>2, <5>3, <5>4
      <4>7. ASSUME NEW k \in lo..(n - 1), NEW l \in lo..(n - 1), k < l
            PROVE  r[k].free <= r[l].free
        <5>1. r[k].free <= f[k].free
          BY <4>6
        <5>2. CASE l < j
          BY <3>3, <3>4, <4>4, <4>7, <5>2
        <5>3. CASE l = j
          BY <3>3, <4>2, <4>4, <4>5, <4>7, <5>3
        <5>4. CASE l > j /\ l <= i
          <6>1. f[k].free <= f[l - 1].free
            BY <3>3, <3>4, <4>7, <5>4
          <6>2. f[l - 1].free <= r[l].free
            BY <3>3, <4>3, <5>4
          <6>3. QED
            BY <3>3, <4>1, <4>6, <4>7, <5>1, <5>4, <6>1, <6>2
        <5>5. CASE l > i
          <6>1. f[k].free <= f[l].free /\ r[l] = f[l]
            BY <3>4, <4>4, <4>7, <5>5
          <6>2. QED
            BY <3>3, <4>1, <4>6, <5>1, <6>1
        <5>6. QED
          BY <3>3, <5>2, <5>3, <5>4, <5>5
      <4>8. \A k \in lo..(n - 1) : r[k].free <= r[k].free
        BY <4>6
      <4>9. QED
        BY <4>7, <4>8 DEF SortedFrom
    <3>9. r \in [0..(n - 1) -> Block]
      BY <3>2, <3>6
    <3>10. Rearranges(r, b, n)
      <4> DEFINE s == [k \in 0..(n - 1) |-> src(k)]
      <4> HIDE DEF src
      <4>1. /\ s \in [0..(n - 1) -> 0..(n - 1)]
            /\ \A k \in 0..(n - 1) : r[k] = b[s[k]]
            /\ \A k, l \in 0..(n - 1) : s[k] = s[l] => k = l
        BY <3>6, <3>7
      <4>2. QED
        BY <4>1 DEF Rearranges
    <3>11. QED
      BY <3>8, <3>9, <3>10 DEF r
  <2>6. QED
    BY <2>3, <2>4, <2>5
<1>3. QED
  BY <1>1, <1>2

-----------------------------------------------------------------------------
(***************************************************************************)
(* The inductive invariant.                                                *)
(***************************************************************************)

\* Each of the n memories is at exactly one index of array b.
MemoryOnce(b, n) ==
  /\ \A k \in 0..(n - 1) : b[k].mem < n
  /\ \A k, l \in 0..(n - 1) : b[k].mem = b[l].mem => k = l

\* What the callers hold of a memory (regions rs) lies above its block's free
\* space, and that space is no larger than the memory (sizes h).
HeldAboveFree(b, n, h, rs) ==
  /\ \A k \in 0..(n - 1) : b[k].free <= h[b[k].mem + 1]
  /\ \A k \in 0..(n - 1), x \in 1..Len(rs) :
       rs[x].mem = b[k].mem => b[k].free <= rs[x].off

\* The two parts of NoOverlap.
AllDisjoint(rs) ==
  \A x, y \in 1..Len(rs) : x # y => Disjoint(rs[x], rs[y])

AllInside(rs, h) ==
  \A x \in 1..Len(rs) : /\ rs[x].mem < Len(h)
                         /\ rs[x].off + rs[x].len <= h[rs[x].mem + 1]

IInv ==
  /\ TypeOK
  /\ SortedFrom(a, count, first_i)
  /\ Len(heap) = count
  /\ MemoryOnce(a, count)
  /\ HeldAboveFree(a, count, heap, regions)
  /\ AllDisjoint(regions)
  /\ AllInside(regions, heap)

LEMMA InitIInv == Init => IInv
<1> SUFFICES ASSUME Init PROVE IInv
  OBVIOUS
<1> USE PoolAssumption DEF Init
<1>1. ALIGN_SIZE(StartSize) \in Nat
  BY AlignedSizeIsNatural
<1>2. TypeOK
  BY <1>1 DEF TypeOK, Block
<1>3. /\ SortedFrom(a, count, first_i)
      /\ Len(heap) = count
      /\ MemoryOnce(a, count)
      /\ HeldAboveFree(a, count, heap, regions)
      /\ AllDisjoint(regions)
      /\ AllInside(regions, heap)
  BY DEF SortedFrom, MemoryOnce, HeldAboveFree, AllDisjoint, AllInside
<1>4. QED
  BY <1>2, <1>3 DEF IInv

\* The invariant does not depend on the order of the blocks.
LEMMA RearrangingKeeps ==
  ASSUME NEW n \in Nat, NEW b \in [0..(n - 1) -> Block], NEW r,
         NEW h, NEW rs,
         Rearranges(r, b, n), MemoryOnce(b, n), HeldAboveFree(b, n, h, rs)
  PROVE  MemoryOnce(r, n) /\ HeldAboveFree(r, n, h, rs)
<1>1. PICK s \in [0..(n - 1) -> 0..(n - 1)] :
        /\ \A k \in 0..(n - 1) : r[k] = b[s[k]]
        /\ \A k, l \in 0..(n - 1) : s[k] = s[l] => k = l
  BY DEF Rearranges
<1>2. \A k \in 0..(n - 1) : s[k] \in 0..(n - 1)
  BY <1>1
<1>3. MemoryOnce(r, n)
  BY <1>1, <1>2 DEF MemoryOnce
<1>4. HeldAboveFree(r, n, h, rs)
  BY <1>1, <1>2 DEF HeldAboveFree
<1>5. QED
  BY <1>3, <1>4

\* Cutting a region off the end of a block's free space keeps the invariant.
LEMMA CuttingKeeps ==
  ASSUME NEW n \in Nat \ {0}, NEW b0 \in [0..(n - 1) -> Block],
         NEW i \in 0..(n - 1), NEW size \in Nat, size <= b0[i].free,
         NEW b \in [0..(n - 1) -> Block],
         b[i].free = b0[i].free - size, b[i].mem = b0[i].mem,
         \A k \in 0..(n - 1) : k # i => b[k] = b0[k],
         NEW h \in Seq(Nat), Len(h) = n,
         NEW rs \in Seq(Region), NEW new \in Region,
         new.mem = b0[i].mem, new.off = b[i].free, new.len = size,
         MemoryOnce(b0, n), HeldAboveFree(b0, n, h, rs),
         AllDisjoint(rs), AllInside(rs, h)
  PROVE  /\ MemoryOnce(b, n)
         /\ HeldAboveFree(b, n, h, Append(rs, new))
         /\ AllDisjoint(Append(rs, new))
         /\ AllInside(Append(rs, new), h)
<1> DEFINE all == Append(rs, new)
<1>1. /\ Len(all) = Len(rs) + 1
      /\ all[Len(rs) + 1] = new
      /\ \A x \in 1..Len(rs) : all[x] = rs[x]
      /\ Len(rs) \in Nat
  OBVIOUS
<1> HIDE DEF all
<1>2. ASSUME NEW k \in 0..(n - 1)
      PROVE  /\ b[k].mem = b0[k].mem /\ b[k].mem \in Nat
             /\ b[k].free <= b0[k].free /\ b[k].free \in Nat /\ b0[k].free \in Nat
  <2>1. b[k] \in Block /\ b0[k] \in Block
    OBVIOUS
  <2>2. b[k].mem \in Nat /\ b[k].free \in Nat /\ b0[k].free \in Nat
    BY <2>1 DEF Block
  <2>3. CASE k = i
    BY <2>2, <2>3
  <2>4. CASE k # i
    <3>1. b[k] = b0[k]
      BY <2>4
    <3>2. QED
      BY <2>2, <3>1
  <2>5. QED
    BY <2>2, <2>3, <2>4
<1>3. MemoryOnce(b, n)
  BY <1>2 DEF MemoryOnce
<1>4. ASSUME NEW k \in 0..(n - 1)
      PROVE  b[k].free <= h[b[k].mem + 1] /\ h[b[k].mem + 1] \in Nat
  <2>1. b0[k].free <= h[b0[k].mem + 1]
    BY DEF HeldAboveFree
  <2>2. b[k].mem + 1 \in 1..n
    BY SMTT(30), <1>2, <1>3 DEF MemoryOnce
  <2> DEFINE m == b[k].mem + 1
  <2>3. m \in 1..Len(h)
    BY <2>2
  <2> HIDE DEF m
  <2>4. h[m] \in Nat
    BY <2>3, ElementIsIn
  <2>5. h[b[k].mem + 1] \in Nat
    BY <2>4 DEF m
  <2>6. QED
    <3>1. b[k].free <= b0[k].free /\ b[k].mem = b0[k].mem
          /\ b[k].free \in Nat /\ b0[k].free \in Nat
      BY <1>2
    <3>2. QED
      BY <2>1, <2>5, <3>1
<1>5. ASSUME NEW k \in 0..(n - 1), NEW x \in 1..Len(all), all[x].mem = b[k].mem
      PROVE  b[k].free <= all[x].off
  <2>1. CASE x \in 1..Len(rs)
    <3>1. rs[x] \in Region
      BY <2>1, ElementIsIn
    <3>2. rs[x].off \in Nat
      BY <3>1 DEF Region
    <3>3. rs[x].mem = b0[k].mem
      BY <1>1, <1>2, <1>5, <2>1
    <3>4. b0[k].free <= rs[x].off
      BY <2>1, <3>3 DEF HeldAboveFree
    <3>5. b[k].free <= rs[x].off
      <4>1. b[k].free <= b0[k].free /\ b[k].free \in Nat /\ b0[k].free \in Nat
        BY <1>2
      <4>2. QED
        BY <3>2, <3>4, <4>1
    <3>6. all[x] = rs[x]
      BY <1>1, <2>1
    <3>7. QED
      BY <3>5, <3>6
  <2>2. CASE x = Len(rs) + 1
    <3>1. k = i
      BY <1>1, <1>2, <1>5, <2>2 DEF MemoryOnce
    <3>2. QED
      BY <1>1, <1>2, <2>2, <3>1
  <2>3. QED
    BY <1>1, <2>1, <2>2
<1>6. HeldAboveFree(b, n, h, all)
  BY <1>4, <1>5 DEF HeldAboveFree
<1>7. ASSUME NEW x \in 1..Len(rs)
      PROVE  Disjoint(rs[x], new) /\ Disjoint(new, rs[x])
  <2>1. CASE rs[x].mem # new.mem
    BY <2>1 DEF Disjoint
  <2>2. CASE rs[x].mem = new.mem
    <3>1. b0[i].free <= rs[x].off
      BY <2>2 DEF HeldAboveFree
    <3>2. new.off + new.len = b0[i].free
      BY <1>2
    <3>3. QED
      BY <3>1, <3>2 DEF Disjoint
  <2>3. QED
    BY <2>1, <2>2
<1>8. AllDisjoint(all)
  <2>1. SUFFICES ASSUME NEW x \in 1..Len(all), NEW y \in 1..Len(all), x # y
                 PROVE  Disjoint(all[x], all[y])
    BY DEF AllDisjoint
  <2>2. CASE x \in 1..Len(rs) /\ y \in 1..Len(rs)
    BY <1>1, <2>1, <2>2 DEF AllDisjoint
  <2>3. CASE x = Len(rs) + 1 /\ y \in 1..Len(rs)
    BY <1>1, <1>7, <2>3
  <2>4. CASE x \in 1..Len(rs) /\ y = Len(rs) + 1
    BY <1>1, <1>7, <2>4
  <2>5. x \in 1..Len(rs) \/ x = Len(rs) + 1
    BY <1>1
  <2>6. y \in 1..Len(rs) \/ y = Len(rs) + 1
    BY SMTT(30), <1>1
  <2>7. QED
    BY <2>1, <2>2, <2>3, <2>4, <2>5, <2>6
<1>9. AllInside(all, h)
  <2>1. SUFFICES ASSUME NEW x \in 1..Len(all)
                 PROVE  /\ all[x].mem < Len(h)
                        /\ all[x].off + all[x].len <= h[all[x].mem + 1]
    BY DEF AllInside
  <2>2. CASE x \in 1..Len(rs)
    BY <1>1, <2>2 DEF AllInside
  <2>3. CASE x = Len(rs) + 1
    <3>1. b0[i].free <= h[b0[i].mem + 1] /\ b0[i].mem < n
      BY DEF HeldAboveFree, MemoryOnce
    <3>2. new.off + new.len = b0[i].free
      BY <1>2
    <3>3. QED
      BY <1>1, <2>3, <3>1, <3>2
  <2>4. QED
    BY <1>1, <2>2, <2>3
<1>10. QED
  BY <1>3, <1>6, <1>8, <1>9 DEF all

-----------------------------------------------------------------------------
(***************************************************************************)
(* Every operation preserves the invariant.                                *)
(***************************************************************************)

\* Taking space from the block at i.
LEMMA CutBlock ==
  ASSUME NEW n \in Nat, NEW b0 \in [0..(n - 1) -> Block], NEW i \in 0..(n - 1),
         NEW size \in Nat, size <= b0[i].free
  PROVE  LET b == [b0 EXCEPT ![i].free = @ - size]
         IN  /\ b \in [0..(n - 1) -> Block]
             /\ b[i].free = b0[i].free - size /\ b[i].mem = b0[i].mem
             /\ \A k \in 0..(n - 1) : k # i => b[k] = b0[k]
<1> DEFINE less == b0[i].free - size
           b == [b0 EXCEPT ![i].free = less]
<1>1. b0[i] \in Block
  OBVIOUS
<1>2. less \in Nat
  BY <1>1 DEF Block
<1> HIDE DEF less
<1>3. /\ b \in [0..(n - 1) -> Block]
      /\ b[i].free = less /\ b[i].mem = b0[i].mem
      /\ \A k \in 0..(n - 1) : k # i => b[k] = b0[k]
  BY <1>1, <1>2 DEF Block
<1>4. QED
  BY <1>3 DEF less

\* The array stays sorted but for a block that comes to have less space.
LEMMA LessKeepsOrder ==
  ASSUME NEW n \in Nat \ {0}, NEW lo \in 0..n, NEW i \in 0..(n - 1),
         NEW b0 \in [0..(n - 1) -> Block], NEW b \in [0..(n - 1) -> Block],
         SortedFrom(b0, n, lo), b[i].free <= b0[i].free, i < lo => i = n - 1,
         \A k \in 0..(n - 1) : k # i => b[k] = b0[k]
  PROVE  SortedExcept(b, n, lo, i)
<1>1. \A k \in 0..(n - 1) : b0[k].free \in Nat /\ b[k].free \in Nat
  BY DEF Block
<1>2. ASSUME NEW k \in lo..(n - 1), NEW l \in lo..(n - 1), k <= l, k # i, l # i
      PROVE  b[k].free <= b[l].free
  BY <1>2 DEF SortedFrom
<1>3. ASSUME NEW l \in lo..(n - 1), i >= lo, i <= l
      PROVE  b[i].free <= b[l].free
  <2>1. b0[i].free <= b0[l].free
    BY <1>3 DEF SortedFrom
  <2>2. l \in 0..(n - 1) /\ b0[i].free \in Nat /\ b[i].free \in Nat
    BY <1>1
  <2>3. CASE l = i
    BY <2>2, <2>3
  <2>4. CASE l # i
    <3>1. b[l] = b0[l] /\ b0[l].free \in Nat
      BY <1>1, <2>2, <2>4
    <3>2. QED
      BY <2>1, <2>2, <3>1
  <2>5. QED
    BY <2>3, <2>4
<1>4. QED
  BY <1>2, <1>3 DEF SortedExcept

\* The array stays sorted but for a block put at its end.
LEMMA MoreKeepsOrder ==
  ASSUME NEW n \in Nat, NEW lo \in 0..n, NEW first \in lo..(n + 1),
         NEW b0 \in [0..(n - 1) -> Block], NEW b \in [0..n -> Block],
         SortedFrom(b0, n, lo), \A k \in 0..(n - 1) : b[k] = b0[k]
  PROVE  SortedExcept(b, n + 1, first, n)
<1>1. ASSUME NEW k \in first..((n + 1) - 1), NEW l \in first..((n + 1) - 1),
             k <= l, k # n, l # n
      PROVE  b[k].free <= b[l].free
  <2>1. k \in lo..(n - 1) /\ l \in lo..(n - 1)
    BY <1>1
  <2>2. b0[k].free <= b0[l].free
    BY <1>1, <2>1 DEF SortedFrom
  <2>3. QED
    BY <2>1, <2>2
<1>2. ASSUME NEW l \in first..((n + 1) - 1), n >= first, n <= l
      PROVE  b[n].free <= b[l].free
  <2>1. l = n
    BY <1>2
  <2>2. b[n].free \in Nat
    BY DEF Block
  <2>3. QED
    BY <2>1, <2>2
<1>3. n < first => n = (n + 1) - 1
  OBVIOUS
<1>4. QED
  BY <1>1, <1>2, <1>3 DEF SortedExcept

LEMMA InBlockPreservesIInv ==
  ASSUME IInv, NEW request \in AllocSizes, AllocInBlock(request)
  PROVE  IInv'
<1> DEFINE size == ALIGN_SIZE(request)
           i == FirstSmallest(a, count, first_i, size)
           b == [a EXCEPT ![i].free = @ - size]
           new == [mem |-> a[i].mem, off |-> b[i].free, len |-> size]
<1>1. request \in Nat /\ size \in Nat
  BY PoolAssumption, AlignedSizeIsNatural
<1>2. /\ UsesOldBlock(size)
      /\ i < count
      /\ a' = Resort(b, count, first_i, i)
      /\ regions' = Append(regions, new)
      /\ UNCHANGED <<count, first_i, alloc_len, block_size, skip_size, heap>>
  BY DEF AllocInBlock
<1> HIDE DEF size
<1>3. /\ count \in Nat \ {0} /\ first_i \in 0..count
      /\ a \in [0..(count - 1) -> Block]
      /\ heap \in Seq(Nat) /\ Len(heap) = count /\ regions \in Seq(Region)
  BY <1>2 DEF UsesOldBlock, IInv, TypeOK
<1>4. /\ i \in 0..count
      /\ i < count => a[i].free >= size
      /\ i < first_i => i = count - 1
  <2>1. count \in Nat \ {0} /\ first_i \in 0..count
    BY <1>3
  <2>2. a \in [0..(count - 1) -> Block] /\ size \in Nat
    BY <1>1, <1>3
  <2>3. LET r == FirstSmallest(a, count, first_i, size)
        IN  /\ r \in 0..count
            /\ r < count => a[r].free >= size
            /\ r < first_i => r = count - 1
            /\ \A k \in first_i..(count - 1) : a[k].free >= size => r <= k
    BY <2>1, <2>2, FirstSmallestFits
  <2>4. QED
    BY <2>3
<1> HIDE DEF i
<1>5. i \in 0..(count - 1) /\ size <= a[i].free
  BY <1>1, <1>2, <1>3, <1>4 DEF Block
<1>6. /\ b \in [0..(count - 1) -> Block]
      /\ b[i].free = a[i].free - size /\ b[i].mem = a[i].mem
      /\ \A k \in 0..(count - 1) : k # i => b[k] = a[k]
  <2>1. count \in Nat /\ a \in [0..(count - 1) -> Block]
    BY <1>3
  <2>2. QED
    BY <1>1, <1>5, <2>1, CutBlock
<1> HIDE DEF b
<1>7. /\ new \in Region /\ new.mem = a[i].mem /\ new.off = b[i].free
      /\ new.len = size
  BY <1>1, <1>3, <1>5, <1>6 DEF Block, Region
<1> HIDE DEF new
<1>8. SortedExcept(b, count, first_i, i)
  <2>1. SortedFrom(a, count, first_i)
    BY DEF IInv
  <2>2. b[i].free <= a[i].free
    <3>1. a[i].free \in Nat /\ b[i].free = a[i].free - size
      BY <1>3, <1>5, <1>6 DEF Block
    <3>2. QED
      BY <3>1, <1>1
  <2>3. i < first_i => i = count - 1
    BY <1>4
  <2>4. QED
    BY <1>3, <1>5, <1>6, <2>1, <2>2, <2>3, LessKeepsOrder
<1>9. /\ a' \in [0..(count - 1) -> Block]
      /\ SortedFrom(a', count, first_i)
      /\ Rearranges(a', b, count)
  BY <1>2, <1>3, <1>5, <1>6, <1>8, ResortSorts
<1>10. /\ MemoryOnce(b, count)
       /\ HeldAboveFree(b, count, heap, regions')
       /\ AllDisjoint(regions')
       /\ AllInside(regions', heap)
  <2>1. /\ MemoryOnce(a, count) /\ HeldAboveFree(a, count, heap, regions)
        /\ AllDisjoint(regions) /\ AllInside(regions, heap)
    BY DEF IInv
  <2>2. QED
    BY <1>1, <1>2, <1>3, <1>5, <1>6, <1>7, <2>1, CuttingKeeps
<1>11. MemoryOnce(a', count) /\ HeldAboveFree(a', count, heap, regions')
  BY <1>3, <1>6, <1>9, <1>10, RearrangingKeeps
<1>12. TypeOK'
  BY <1>2, <1>3, <1>7, <1>9 DEF IInv, TypeOK
<1>13. QED
  BY <1>2, <1>3, <1>9, <1>10, <1>11, <1>12 DEF IInv

LEMMA NewBlockPreservesIInv ==
  ASSUME IInv, NEW request \in AllocSizes, AllocNewBlock(request)
  PROVE  IInv'
<1> DEFINE size == ALIGN_SIZE(request)
           full == IF block_size' < size THEN size ELSE block_size'
           n == count + 1
           b == [k \in 0..count |->
                   IF k < count THEN a[k]
                   ELSE [free |-> full - size, mem |-> count]]
           b0 == [k \in 0..count |->
                    IF k < count THEN a[k] ELSE [free |-> full, mem |-> count]]
           new == [mem |-> count, off |-> full - size, len |-> size]
<1>1. request \in Nat /\ size \in Nat
  BY PoolAssumption, AlignedSizeIsNatural
<1>2. /\ MakeRoom
      /\ count' = n
      /\ heap' = Append(heap, full)
      /\ first_i' = FirstUnskipped(b, n, first_i, skip_size')
      /\ a' = Resort(b, n, first_i', count)
      /\ regions' = Append(regions, new)
  BY DEF AllocNewBlock
<1> HIDE DEF size
<1>3. /\ count \in Nat /\ first_i \in 0..count
      /\ a \in [0..(count - 1) -> Block]
      /\ heap \in Seq(Nat) /\ Len(heap) = count /\ regions \in Seq(Region)
      /\ alloc_len \in Nat /\ block_size \in Nat /\ skip_size \in Nat
  BY DEF IInv, TypeOK
<1>4. alloc_len' \in Nat /\ block_size' \in Nat /\ skip_size' \in Nat
  <2>1. AlignBytes \in Nat
    BY PoolAssumption
  <2>2. CASE count = alloc_len
    BY SMTT(30), <1>2, <1>3, <2>1, <2>2 DEF MakeRoom, Upsize, GrownSkipSize
  <2>3. CASE count # alloc_len
    BY <1>2, <1>3, <2>3 DEF MakeRoom
  <2>4. QED
    BY <2>2, <2>3
<1>5. full \in Nat /\ size <= full /\ full - size \in Nat
  <2>1. block_size' \in Nat /\ size \in Nat
    BY <1>1, <1>4
  <2>2. CASE block_size' < size
    BY <2>1, <2>2
  <2>3. CASE ~ (block_size' < size)
    <3>1. full = block_size'
      BY <2>3
    <3>2. size <= block_size'
      BY <2>1, <2>3
    <3> HIDE DEF full
    <3>3. full \in Nat /\ size \in Nat /\ size <= full
      BY <2>1, <3>1, <3>2
    <3>4. full - size \in Nat
      BY <3>3
    <3>5. QED
      BY <3>3, <3>4
  <2>4. QED
    BY <2>2, <2>3
<1> HIDE DEF full
<1>6. n \in Nat \ {0} /\ n - 1 = count /\ count \in 0..(n - 1)
  BY <1>3
<1>7. /\ b \in [0..(n - 1) -> Block] /\ b0 \in [0..(n - 1) -> Block]
      /\ b0[count].free = full /\ b0[count].mem = count
      /\ b[count].free = full - size /\ b[count].mem = count
      /\ \A k \in 0..(count - 1) : b[k] = a[k] /\ b0[k] = a[k]
  BY SMTT(30), <1>3, <1>5 DEF Block
<1>8. \A k \in 0..(n - 1) : k # count => b[k] = b0[k]
  BY <1>3, <1>7
<1>9. \A k \in 0..(n - 1) : k # count => k \in 0..(count - 1)
  BY <1>3
<1> HIDE DEF b, b0
<1>10. first_i' \in first_i..n
  BY <1>2, <1>3, <1>4, <1>6, <1>7, FirstUnskippedInRange
<1>11. new \in Region /\ new.mem = b0[count].mem /\ new.off = b[count].free
       /\ new.len = size
  BY <1>1, <1>3, <1>5, <1>7 DEF Region
<1> HIDE DEF new, n
<1>12. SortedExcept(b, n, first_i', count)
  <2>1. SortedFrom(a, count, first_i)
    BY DEF IInv
  <2>2. b \in [0..count -> Block] /\ first_i' \in first_i..(count + 1)
    BY <1>6, <1>7, <1>10
  <2>3. \A k \in 0..(count - 1) : b[k] = a[k]
    BY <1>7
  <2>4. SortedExcept(b, count + 1, first_i', count)
    BY <1>3, <2>1, <2>2, <2>3, MoreKeepsOrder
  <2>5. QED
    BY <2>4 DEF n
<1>13. /\ a' \in [0..(n - 1) -> Block]
       /\ SortedFrom(a', n, first_i')
       /\ Rearranges(a', b, n)
  <2>1. first_i' \in 0..n
    BY <1>3, <1>6, <1>10
  <2>2. QED
    BY <1>2, <1>6, <1>7, <1>12, <2>1, ResortSorts
<1>14. /\ heap' \in Seq(Nat) /\ Len(heap') = n
       /\ heap'[n] = full
       /\ \A m \in 1..count : heap'[m] = heap[m]
  BY <1>2, <1>3, <1>5, <1>6 DEF n
<1>15. MemoryOnce(b0, n)
  <2>1. MemoryOnce(a, count)
    BY DEF IInv
  <2>2. \A k \in 0..(count - 1) : a[k].mem < count /\ a[k].mem \in Nat
    BY <1>3, <2>1 DEF MemoryOnce, Block
  <2>3. ASSUME NEW k \in 0..(n - 1)
        PROVE  b0[k].mem < n
    BY <1>3, <1>6, <1>7, <1>9, <2>2
  <2>4. ASSUME NEW k \in 0..(n - 1), NEW l \in 0..(n - 1), b0[k].mem = b0[l].mem
        PROVE  k = l
    BY <1>3, <1>7, <1>9, <2>1, <2>2, <2>4 DEF MemoryOnce
  <2>5. QED
    BY <2>3, <2>4 DEF MemoryOnce
<1>16. AllDisjoint(regions)
  BY DEF IInv
<1>17. AllInside(regions, heap')
  <2>1. SUFFICES ASSUME NEW x \in 1..Len(regions)
                 PROVE  /\ regions[x].mem < Len(heap')
                        /\ regions[x].off + regions[x].len
                              <= heap'[regions[x].mem + 1]
    BY DEF AllInside
  <2>2. regions[x] \in Region
    BY <1>3, ElementIsIn
  <2>3. regions[x].mem \in Nat
    BY <2>2 DEF Region
  <2>4. /\ regions[x].mem < count
        /\ regions[x].off + regions[x].len <= heap[regions[x].mem + 1]
    BY <1>3 DEF IInv, AllInside
  <2>5. regions[x].mem + 1 \in 1..count
    BY <1>3, <2>3, <2>4
  <2>6. QED
    BY SMTT(30), <1>3, <1>6, <1>14, <2>3, <2>4, <2>5
<1>18. HeldAboveFree(b0, n, heap', regions)
  <2>1. HeldAboveFree(a, count, heap, regions) /\ MemoryOnce(a, count)
        /\ AllInside(regions, heap)
    BY DEF IInv
  <2>2. ASSUME NEW k \in 0..(n - 1)
        PROVE  b0[k].free <= heap'[b0[k].mem + 1]
    <3>1. CASE k = count
      BY <1>5, <1>6, <1>7, <1>14, <3>1 DEF n
    <3>2. CASE k # count
      <4>1. k \in 0..(count - 1) /\ b0[k] = a[k]
        BY <1>7, <1>9, <3>2
      <4>2. a[k].free <= heap[a[k].mem + 1] /\ a[k].mem < count
        BY <2>1, <4>1 DEF HeldAboveFree, MemoryOnce
      <4>3. a[k].mem \in Nat
        BY <1>3, <4>1 DEF Block
      <4>4. a[k].mem + 1 \in 1..count
        BY <1>3, <4>2, <4>3
      <4>5. QED
        BY <1>14, <4>1, <4>2, <4>4
    <3>3. QED
      BY <3>1, <3>2
  <2>3. ASSUME NEW k \in 0..(n - 1), NEW x \in 1..Len(regions),
               regions[x].mem = b0[k].mem
        PROVE  b0[k].free <= regions[x].off
    <3>1. regions[x].mem < count
      BY <1>3, <2>1 DEF AllInside
    <3>2. k # count
      BY <1>3, <1>7, <2>3, <3>1
    <3>3. k \in 0..(count - 1) /\ b0[k] = a[k]
      BY <1>7, <1>9, <3>2
    <3>4. QED
      BY <2>1, <2>3, <3>3 DEF HeldAboveFree
  <2>4. QED
    BY <2>2, <2>3 DEF HeldAboveFree
<1>19. /\ MemoryOnce(b, n)
       /\ HeldAboveFree(b, n, heap', regions')
       /\ AllDisjoint(regions')
       /\ AllInside(regions', heap')
  <2>1. size <= b0[count].free /\ b[count].free = b0[count].free - size
        /\ b[count].mem = b0[count].mem
    BY <1>5, <1>7
  <2>2. QED
    <3>1. n \in Nat \ {0} /\ count \in 0..(n - 1) /\ size \in Nat
          /\ regions' = Append(regions, new)
      BY <1>1, <1>2, <1>6
    <3>2. b \in [0..(n - 1) -> Block] /\ b0 \in [0..(n - 1) -> Block]
      BY <1>7
    <3>3. heap' \in Seq(Nat) /\ Len(heap') = n /\ regions \in Seq(Region)
      BY <1>3, <1>14
    <3>4. QED
      BY <1>8, <1>11, <1>15, <1>16, <1>17, <1>18, <2>1, <3>1, <3>2, <3>3,
         CuttingKeeps
<1>20. MemoryOnce(a', n) /\ HeldAboveFree(a', n, heap', regions')
  BY <1>6, <1>7, <1>13, <1>19, RearrangingKeeps
<1>21. count' = n
  BY <1>2 DEF n
<1>22. TypeOK'
  <2>1. regions' \in Seq(Region)
    BY <1>2, <1>3, <1>11
  <2>2. first_i' \in 0..n
    BY <1>3, <1>6, <1>10
  <2>3. QED
    BY <1>4, <1>6, <1>13, <1>14, <1>21, <2>1, <2>2 DEF TypeOK
<1>23. QED
  BY <1>13, <1>14, <1>19, <1>20, <1>21, <1>22 DEF IInv

LEMMA FailurePreservesIInv ==
  ASSUME IInv, NEW request \in AllocSizes, AllocFails(request)
  PROVE  IInv'
<1>1. Upsize /\ UNCHANGED <<a, count, first_i, heap, regions>>
  BY DEF AllocFails
<1>2. TypeOK'
  BY <1>1, PoolAssumption DEF IInv, TypeOK, Upsize, GrownSkipSize
<1>3. QED
  BY <1>1, <1>2 DEF IInv

LEMMA NextPreservesIInv == IInv /\ [Next]_vars => IInv'
<1> SUFFICES ASSUME IInv, [Next]_vars PROVE IInv'
  OBVIOUS
<1>1. ASSUME NEW request \in AllocSizes, AllocInBlock(request)
      PROVE  IInv'
  BY <1>1, InBlockPreservesIInv
<1>2. ASSUME NEW request \in AllocSizes, AllocNewBlock(request)
      PROVE  IInv'
  BY <1>2, NewBlockPreservesIInv
<1>3. ASSUME NEW request \in AllocSizes, AllocFails(request)
      PROVE  IInv'
  BY <1>3, FailurePreservesIInv
<1>4. CASE UNCHANGED vars
  BY <1>4 DEF vars, IInv, TypeOK
<1>5. QED
  BY <1>1, <1>2, <1>3, <1>4 DEF Next

LEMMA Invariance == Spec => []IInv
BY InitIInv, NextPreservesIInv, PTL DEF Spec

-----------------------------------------------------------------------------
(***************************************************************************)
(* The theorems.                                                           *)
(***************************************************************************)

\* Every variable of the pool keeps its type; in particular the index of the
\* first searched block (mempool.c:96-97) never passes the number of blocks.
THEOREM TypeCorrect == Spec => []TypeOK
<1>1. IInv => TypeOK
  BY DEF IInv
<1>2. QED
  BY Invariance, <1>1, PTL

\* The searched blocks stay sorted through every move of copy_up_one(), which
\* is what the binary searches of SAU_MemPool_alloc() rely on.
THEOREM AlwaysSearchable == Spec => []SearchableOrder
<1>1. IInv => SearchableOrder
  BY DEF IInv, SortedFrom, SearchableOrder
<1>2. QED
  BY Invariance, <1>1, PTL

\* Sorting the block array never loses a block and never duplicates one.
THEOREM BlocksKept == Spec => []EachMemoryOnce
<1>1. IInv => EachMemoryOnce
  BY DEF IInv, MemoryOnce, EachMemoryOnce
<1>2. QED
  BY Invariance, <1>1, PTL

\* No two regions returned by SAU_MemPool_alloc() overlap, and each lies in
\* the memory it was cut from.
THEOREM RegionsNeverOverlap == Spec => []NoOverlap
<1>1. IInv => NoOverlap
  BY DEF IInv, AllDisjoint, AllInside, NoOverlap
<1>2. QED
  BY Invariance, <1>1, PTL

-----------------------------------------------------------------------------
(***************************************************************************)
(* Growth.                                                                 *)
(***************************************************************************)

\* Aligned sizes are even, as pointers are of an even size: halving one for
\* the first upsize() to double again loses nothing.
LEMMA AlignedSizeHalves ==
  ASSUME NEW size \in Nat
  PROVE  2 * (ALIGN_SIZE(size) \div 2) = ALIGN_SIZE(size)
<1> DEFINE q == (size + (AlignBytes - 1)) \div AlignBytes
           h == AlignBytes \div 2
<1>1. AlignBytes \in Nat \ {0} /\ AlignBytes = 2 * h /\ h \in Nat
  BY PoolAssumption
<1>2. q \in Nat
  BY <1>1
<1>3. ALIGN_SIZE(size) = q * AlignBytes
  BY DEF ALIGN_SIZE
<1> HIDE DEF q, h
<1>4. q * AlignBytes = 2 * (q * h) /\ q * h \in Nat
  BY <1>1, <1>2
<1>5. QED
  BY <1>3, <1>4

\* The array has room for the blocks, has been doubled only when it was full,
\* and the size of normal blocks was doubled with it.
GrowthInv ==
  /\ count <= alloc_len
  /\ alloc_len = 0 => block_size = ALIGN_SIZE(StartSize) \div 2
  /\ alloc_len > 0 => /\ block_size = ALIGN_SIZE(StartSize) * alloc_len
                      /\ alloc_len = 1 \/ alloc_len <= 2 * count

LEMMA UpsizeKeepsPace ==
  ASSUME TypeOK, GrowthInv, count = alloc_len, Upsize
  PROVE  /\ alloc_len' > 0 /\ alloc_len < alloc_len'
         /\ block_size' = ALIGN_SIZE(StartSize) * alloc_len'
         /\ alloc_len' = 1 \/ alloc_len' <= 2 * count
<1> DEFINE size == ALIGN_SIZE(StartSize)
<1>1. size \in Nat /\ 2 * (size \div 2) = size
  BY PoolAssumption, AlignedSizeIsNatural, AlignedSizeHalves
<1>2. alloc_len \in Nat /\ block_size \in Nat /\ count \in Nat
  BY DEF TypeOK
<1>3. block_size' = 2 * block_size /\ alloc_len' = IF alloc_len > 0 THEN 2 * alloc_len ELSE 1
  BY DEF Upsize
<1> HIDE DEF size
<1>4. CASE alloc_len = 0
  <2>1. block_size = size \div 2
    BY <1>4 DEF GrowthInv, size
  <2>2. QED
    BY <1>1, <1>2, <1>3, <1>4, <2>1 DEF size
<1>5. CASE alloc_len > 0
  <2>1. block_size = size * alloc_len
    BY <1>5 DEF GrowthInv, size
  <2>2. 2 * (size * alloc_len) = size * (2 * alloc_len)
    BY <1>1, <1>2
  <2>3. QED
    BY <1>2, <1>3, <1>5, <2>1, <2>2 DEF size
<1>6. QED
  BY <1>2, <1>4, <1>5

LEMMA NextPreservesGrowth == TypeOK /\ GrowthInv /\ [Next]_vars => GrowthInv'
<1> SUFFICES ASSUME TypeOK, GrowthInv, [Next]_vars PROVE GrowthInv'
  OBVIOUS
<1>1. ASSUME NEW request \in AllocSizes, AllocInBlock(request)
      PROVE  GrowthInv'
  BY <1>1 DEF AllocInBlock, GrowthInv
<1>2. ASSUME NEW request \in AllocSizes, AllocNewBlock(request)
      PROVE  GrowthInv'
  <2>1. MakeRoom /\ count' = count + 1 /\ count \in Nat /\ alloc_len \in Nat
    BY <1>2 DEF AllocNewBlock, TypeOK
  <2>2. CASE count = alloc_len
    <3>1. Upsize
      BY <2>1, <2>2 DEF MakeRoom
    <3>2. alloc_len' \in Nat
      BY <2>1, <3>1 DEF Upsize
    <3>3. QED
      BY <2>1, <2>2, <3>1, <3>2, UpsizeKeepsPace DEF GrowthInv
  <2>3. CASE count # alloc_len
    BY <2>1, <2>3 DEF MakeRoom, GrowthInv
  <2>4. QED
    BY <2>2, <2>3
<1>3. ASSUME NEW request \in AllocSizes, AllocFails(request)
      PROVE  GrowthInv'
  <2>1. Upsize /\ count = alloc_len /\ count' = count /\ count \in Nat
    BY <1>3 DEF AllocFails, TypeOK
  <2>2. alloc_len' \in Nat
    BY <2>1 DEF Upsize
  <2>3. QED
    BY <2>1, <2>2, UpsizeKeepsPace DEF GrowthInv
<1>4. CASE UNCHANGED vars
  BY <1>4 DEF vars, GrowthInv
<1>5. QED
  BY <1>1, <1>2, <1>3, <1>4 DEF Next

\* The size of blocks follows the length of the array (mempool.c:177), through
\* calls that failed half-way and their retries as well.
THEOREM GrowthKeepsPace == Spec => []GrowthFollowsCount
<1>1. Init => GrowthInv
  BY DEF Init, GrowthInv
<1>2. GrowthInv => GrowthFollowsCount
  BY DEF GrowthInv, GrowthFollowsCount
<1>3. Spec => []TypeOK
  BY TypeCorrect
<1>4. QED
  BY <1>1, <1>2, <1>3, NextPreservesGrowth, PTL DEF Spec

-----------------------------------------------------------------------------
(***************************************************************************)
(* Best fit.                                                               *)
(***************************************************************************)

\* When no block is taken, none of the searched ones has the space: the last
\* is the largest, and else the search would have found one.
LEMMA NoneFits ==
  ASSUME IInv, NEW size \in Nat,
         ~ (UsesOldBlock(size) /\ FirstSmallest(a, count, first_i, size) < count),
         NEW k \in first_i..(count - 1)
  PROVE  a[k].free < size
<1>1. /\ count \in Nat \ {0} /\ first_i \in 0..count /\ k \in 0..(count - 1)
      /\ a \in [0..(count - 1) -> Block]
  BY DEF IInv, TypeOK
<1>2. a[k].free \in Nat /\ a[count - 1].free \in Nat
  BY <1>1 DEF Block
<1>3. CASE ~ UsesOldBlock(size)
  <2>1. a[count - 1].free < size
    BY <1>1, <1>2, <1>3 DEF UsesOldBlock
  <2>2. a[k].free <= a[count - 1].free
    BY <1>1 DEF IInv, SortedFrom
  <2>3. QED
    BY <1>2, <2>1, <2>2
<1>4. CASE ~ (FirstSmallest(a, count, first_i, size) < count)
  <2>1. /\ FirstSmallest(a, count, first_i, size) \in 0..count
        /\ \A l \in first_i..(count - 1) :
             a[l].free >= size => FirstSmallest(a, count, first_i, size) <= l
    BY <1>1, FirstSmallestFits
  <2>2. QED
    BY <1>1, <1>2, <1>4, <2>1
<1>5. QED
  BY <1>3, <1>4

\* A block that is taken has the least space of those in which there is enough.
LEMMA TakesLeast ==
  ASSUME IInv, NEW size \in Nat, FirstSmallest(a, count, first_i, size) < count,
         NEW k \in first_i..(count - 1), a[k].free >= size
  PROVE  a[FirstSmallest(a, count, first_i, size)].free <= a[k].free
<1> DEFINE i == FirstSmallest(a, count, first_i, size)
<1>1. /\ count \in Nat \ {0} /\ first_i \in 0..count
      /\ a \in [0..(count - 1) -> Block]
  BY DEF IInv, TypeOK
<1>2. /\ i \in 0..count /\ i < count /\ (i < first_i => i = count - 1)
      /\ i <= k
  BY <1>1, FirstSmallestFits
<1> HIDE DEF i
<1>3. i \in first_i..(count - 1)
  BY <1>1, <1>2
<1>4. QED
  BY <1>2, <1>3 DEF IInv, SortedFrom, i

\* Every allocation is a best fit (mempool.c:218-220), and a block is added
\* only when no searched one would do.
THEOREM AlwaysBestFit == Spec => BestFit
<1> DEFINE new == regions'[Len(regions')]
           big == {k \in first_i..(count - 1) : a[k].free >= new.len}
           Fits == regions' # regions =>
                     IF count' = count THEN \A k \in big : new.off + new.len <= a[k].free
                                       ELSE big = {}
<1>1. ASSUME IInv, NEW request \in AllocSizes, AllocInBlock(request)
      PROVE  Fits
  <2> DEFINE size == ALIGN_SIZE(request)
             i == FirstSmallest(a, count, first_i, size)
             b == [a EXCEPT ![i].free = @ - size]
  <2>1. size \in Nat /\ regions \in Seq(Region)
    BY <1>1, PoolAssumption, AlignedSizeIsNatural DEF IInv, TypeOK
  <2>2. /\ i < count /\ count' = count
        /\ regions' = Append(regions, [mem |-> a[i].mem, off |-> b[i].free, len |-> size])
    BY <1>1 DEF AllocInBlock
  <2>3. i \in 0..(count - 1) /\ a \in [0..(count - 1) -> Block]
    <3>1. /\ count \in Nat \ {0} /\ first_i \in 0..count /\ a \in [0..(count - 1) -> Block]
      BY <1>1 DEF AllocInBlock, UsesOldBlock, IInv, TypeOK
    <3>2. i \in 0..count
      BY <2>1, <3>1, FirstSmallestFits
    <3>3. QED
      BY <2>2, <3>1, <3>2
  <2>4. \A k \in first_i..(count - 1) : a[k].free >= size => a[i].free <= a[k].free
    BY <1>1, <2>1, <2>2, TakesLeast
  <2> HIDE DEF i, size
  <2>5. b[i].free = a[i].free - size /\ a[i].free \in Nat
    BY <2>3 DEF Block
  <2>6. new.off = a[i].free - size /\ new.len = size
    BY <2>1, <2>2, <2>5
  <2>7. new.off + new.len = a[i].free
    BY <2>1, <2>5, <2>6
  <2>8. \A k \in big : new.off + new.len <= a[k].free
    BY <2>4, <2>6, <2>7
  <2>9. QED
    BY <2>2, <2>8
<1>2. ASSUME IInv, NEW request \in AllocSizes, AllocNewBlock(request)
      PROVE  Fits
  <2> DEFINE size == ALIGN_SIZE(request)
  <2>1. size \in Nat /\ regions \in Seq(Region) /\ count' = count + 1 /\ count \in Nat
    BY <1>2, PoolAssumption, AlignedSizeIsNatural DEF IInv, TypeOK, AllocNewBlock
  <2>2. new.len = size
    BY <1>2, <2>1 DEF AllocNewBlock
  <2>3. \A k \in first_i..(count - 1) : a[k].free < size
    BY <1>2, <2>1, NoneFits DEF AllocNewBlock
  <2>4. \A k \in first_i..(count - 1) : a[k].free \in Nat
    BY <1>2 DEF IInv, TypeOK, Block
  <2> HIDE DEF size
  <2>5. big = {}
    BY <2>1, <2>2, <2>3, <2>4
  <2>6. QED
    BY <2>1, <2>5
<1>3. ASSUME NEW request \in AllocSizes, AllocFails(request) \/ UNCHANGED vars
      PROVE  Fits
  BY <1>3 DEF AllocFails, vars
<1>4. IInv /\ [Next]_vars => [Fits]_vars
  BY <1>1, <1>2, <1>3 DEF Next
<1>5. QED
  BY <1>4, Invariance, PTL DEF Spec, BestFit

=============================================================================
