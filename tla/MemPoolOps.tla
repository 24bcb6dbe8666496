----------------------------- MODULE MemPoolOps -----------------------------
(***************************************************************************)
(* The searching and sorting of the block array of src/mempool.c, as       *)
(* functions of the array.  A block array is a function from 0..n-1 to     *)
(* records with the fields free and mem.                                   *)
(***************************************************************************)
EXTENDS Integers

(***************************************************************************)
(* The binary searches, by what they return on an array sorted from lo on  *)
(* (module MemPoolCalls checks the loops in the code against this).        *)
(***************************************************************************)

\* first_smallest(): the first block from lo on into which size fits, or n
\* when there is none.  With lo = n the loop still examines block n - 1.
FirstSmallest(b, n, lo, size) ==
  LET from == IF lo < n THEN lo ELSE n - 1
      fits == {k \in from..(n - 1) : b[k].free >= size}
  IN  IF fits = {} THEN n
      ELSE CHOOSE k \in fits : \A l \in fits : k <= l

\* first_greater().
FirstGreater(b, n, lo, size) == FirstSmallest(b, n, lo, size + 1)

\* The first block from lo on with the same free space as block k.
ClassFirst(b, lo, k) ==
  CHOOSE m \in lo..k :
    /\ b[m].free = b[k].free
    /\ \A l \in lo..k : b[l].free = b[k].free => m <= l

\* copy_up_one(): only the first block of each size class in from+1..to is
\* overwritten, with the first block of the class before it; the last class
\* hands its first block to index to.
CopyUpOne(b, to, from) ==
  [k \in DOMAIN b |->
     IF k \in (from + 1)..to /\ (k = to \/ b[k].free # b[k - 1].free)
     THEN b[ClassFirst(b, from, k - 1)]
     ELSE b[k]]

\* The end of SAU_MemPool_alloc(): move the block at i, whose free space may
\* have become too small for its place, down to the first block larger than
\* it.  During the search block i carries the free space of its predecessor.
Resort(b, n, lo, i) ==
  IF i = 0 THEN b
  ELSE LET fudged == [b EXCEPT ![i].free = b[i - 1].free]
           j == FirstGreater(fudged, n, lo, b[i].free)
       IN  IF j < i THEN [CopyUpOne(fudged, i, j) EXCEPT ![j] = b[i]] ELSE b

\* The end of add(): skip blocks that are used up, starting from lo.
FirstUnskipped(b, n, lo, skip) ==
  LET open == {k \in lo..n : k = n \/ b[k].free > skip}
  IN  CHOOSE k \in open : \A l \in open : k <= l

=============================================================================
