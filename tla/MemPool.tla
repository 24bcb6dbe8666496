------------------------------- MODULE MemPool -------------------------------
(***************************************************************************)
(* The memory pool of src/mempool.c, from which every script node, program *)
(* event and generator structure is allocated.                             *)
(*                                                                         *)
(* A pool holds an array `a' of memory blocks.  Each block hands out its   *)
(* space from its end downwards, so `free' is both the space left and the  *)
(* offset at which the last allocation in the block begins.  Blocks below  *)
(* first_i are treated as used up; the others are kept sorted by free      *)
(* space, which is what the best-fit binary search relies on.              *)
(*                                                                         *)
(* Memory contents are abstracted away: a block's memory is named by the   *)
(* order in which it was obtained from calloc().  Two history variables    *)
(* record what the callers hold: heap (the size of each calloc'ed memory)  *)
(* and regions (every region returned, in order).                          *)
(***************************************************************************)
EXTENDS Integers, Sequences, MemPoolOps

CONSTANTS
  StartSize,    \* the start_size argument of SAU_create_MemPool
  AllocSizes,   \* sizes that callers ask for
  AlignBytes,   \* sizeof(void*), which is even
  MaxAllocs     \* BOUND: number of successful allocations explored

ASSUME PoolAssumption ==
  /\ StartSize \in Nat \ {0}
  /\ AllocSizes \subseteq Nat
  /\ AlignBytes \in Nat \ {0} /\ AlignBytes % 2 = 0
  /\ MaxAllocs \in Nat

VARIABLES
  a,            \* array of blocks, indexed from 0
  count,        \* number of blocks in use
  first_i,      \* first block that is searched
  alloc_len,    \* allocated length of the array
  block_size,   \* size for the next normal block
  skip_size,    \* free space at or below which a block counts as used up
  heap,         \* history: size of each calloc'ed memory
  regions       \* history: regions returned to callers

vars == <<a, count, first_i, alloc_len, block_size, skip_size, heap, regions>>

\* ALIGN_SIZE(): the least multiple of AlignBytes not below size.
ALIGN_SIZE(size) == ((size + (AlignBytes - 1)) \div AlignBytes) * AlignBytes

-----------------------------------------------------------------------------
(***************************************************************************)
(* Block array growth.                                                     *)
(***************************************************************************)

\* The free-space threshold after upsize().
GrownSkipSize ==
  IF first_i < (alloc_len * 2) \div 3
  THEN IF skip_size > 0 THEN 2 * skip_size ELSE AlignBytes
  ELSE skip_size

\* upsize(), with realloc() succeeding.
Upsize ==
  /\ alloc_len' = IF alloc_len > 0 THEN 2 * alloc_len ELSE 1
  /\ block_size' = 2 * block_size
  /\ skip_size' = GrownSkipSize

\* The part of add() that makes room in the block array.
MakeRoom ==
  IF count = alloc_len
  THEN Upsize
  ELSE UNCHANGED <<alloc_len, block_size, skip_size>>

-----------------------------------------------------------------------------
(***************************************************************************)
(* Operations.  Each is one call of SAU_MemPool_alloc().                   *)
(***************************************************************************)

\* SAU_create_MemPool().
Init ==
  /\ a = [k \in {} |-> [free |-> 0, mem |-> 0]]
  /\ count = 0
  /\ first_i = 0
  /\ alloc_len = 0
  /\ block_size = ALIGN_SIZE(StartSize) \div 2
  /\ skip_size = 0
  /\ heap = <<>>
  /\ regions = <<>>

\* The blocks exist and the most spacious one can hold the size.
UsesOldBlock(size) == count > 0 /\ size <= a[count - 1].free

\* Best fit: the allocation is cut off the end of an existing block.
AllocInBlock(request) ==
  LET size == ALIGN_SIZE(request)
      i == FirstSmallest(a, count, first_i, size)
      b == [a EXCEPT ![i].free = @ - size]
  IN  /\ Len(regions) < MaxAllocs
      /\ UsesOldBlock(size)
      /\ i < count
      /\ a' = Resort(b, count, first_i, i)
      /\ regions' = Append(regions, [mem |-> a[i].mem, off |-> b[i].free,
                                     len |-> size])
      /\ UNCHANGED <<count, first_i, alloc_len, block_size, skip_size, heap>>

\* No block has the space: add() makes one, as large as needed.
AllocNewBlock(request) ==
  LET size == ALIGN_SIZE(request)
      full == IF block_size' < size THEN size ELSE block_size'
      b == [k \in 0..count |->
              IF k < count THEN a[k]
              ELSE [free |-> full - size, mem |-> count]]
  IN  /\ Len(regions) < MaxAllocs
      /\ ~ (UsesOldBlock(size) /\ FirstSmallest(a, count, first_i, size) < count)
      /\ MakeRoom
      /\ count' = count + 1
      /\ heap' = Append(heap, full)
      /\ first_i' = FirstUnskipped(b, count + 1, first_i, skip_size')
      /\ a' = Resort(b, count + 1, first_i', count)
      /\ regions' = Append(regions, [mem |-> count, off |-> full - size,
                                     len |-> size])

\* add() grows the array, then calloc() fails: the call returns NULL, but the
\* growth stays.  (When realloc() fails, or no growth was due, a failing call
\* changes nothing: a stuttering step.)
AllocFails(request) ==
  LET size == ALIGN_SIZE(request)
  IN  /\ Len(regions) < MaxAllocs
      /\ ~ (UsesOldBlock(size) /\ FirstSmallest(a, count, first_i, size) < count)
      /\ count = alloc_len
      /\ Upsize
      /\ UNCHANGED <<a, count, first_i, heap, regions>>

Next ==
  \E request \in AllocSizes :
    \/ AllocInBlock(request)
    \/ AllocNewBlock(request)
    \/ AllocFails(request)

Spec == Init /\ [][Next]_vars

-----------------------------------------------------------------------------
(***************************************************************************)
(* Properties.                                                             *)
(***************************************************************************)

Block == [free : Nat, mem : Nat]
Region == [mem : Nat, off : Nat, len : Nat]

\* Types of the pool's fields and of the histories.
TypeOK ==
  /\ count \in Nat
  /\ a \in [0..(count - 1) -> Block]
  /\ first_i \in 0..count
  /\ alloc_len \in Nat
  /\ block_size \in Nat
  /\ skip_size \in Nat
  /\ heap \in Seq(Nat)
  /\ regions \in Seq(Region)

\* The searched blocks are sorted by free space, so that the binary search
\* finds what it looks for ("Sort blocks after allocation so that binary
\* search will work", mempool.c:248).
SearchableOrder ==
  \A k, l \in first_i..(count - 1) : k <= l => a[k].free <= a[l].free

\* Moving blocks around in the array never loses one nor copies one twice:
\* each calloc'ed memory is at exactly one index.
EachMemoryOnce ==
  /\ Len(heap) = count
  /\ \A k \in 0..(count - 1) : a[k].mem < count
  /\ \A k, l \in 0..(count - 1) : a[k].mem = a[l].mem => k = l

Disjoint(r, s) ==
  \/ r.mem # s.mem
  \/ r.off + r.len <= s.off
  \/ s.off + s.len <= r.off

\* What the pool promises its callers: no two regions handed out overlap, and
\* each lies inside the memory it was cut from.
NoOverlap ==
  /\ \A x, y \in 1..Len(regions) : x # y => Disjoint(regions[x], regions[y])
  /\ \A x \in 1..Len(regions) :
       /\ regions[x].mem < Len(heap)
       /\ regions[x].off + regions[x].len <= heap[regions[x].mem + 1]

\* "the size will double each time the block count rises above a power of
\* two" (mempool.c:177): normal block size follows the array length, also
\* when a call failed after the growth, and a retry does not grow again.
GrowthFollowsCount ==
  /\ count <= alloc_len
  /\ alloc_len > 0 =>
       /\ block_size = ALIGN_SIZE(StartSize) * alloc_len
       /\ alloc_len = 1 \/ alloc_len <= 2 * count

\* "pick least-free-space best fit": an allocation takes the searched block
\* with the least sufficient space, and a block is only added when none of
\* the searched ones would do.
BestFit ==
  [][LET new == regions'[Len(regions')]
         big == {k \in first_i..(count - 1) : a[k].free >= new.len}
     IN  regions' # regions =>
           IF count' = count
           THEN \A k \in big : new.off + new.len <= a[k].free
           ELSE big = {}]_vars

=============================================================================
