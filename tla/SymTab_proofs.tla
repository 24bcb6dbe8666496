---------------------------- MODULE SymTab_proofs ----------------------------
(***************************************************************************)
(* Machine-checked proofs that the loops and the recursion of              *)
(* SAU_MemPool_alloc() do what MemPool says in one step, and that the      *)
(* symbol table over them is a map from keys to items.                     *)
(***************************************************************************)
EXTENDS SymTab, MemPool_proofs, SequenceTheorems

-----------------------------------------------------------------------------
(***************************************************************************)
(* The invariant of the pool's loops.                                      *)
(***************************************************************************)

PoolFields == {"a", "count", "first_i", "alloc_len", "block_size", "skip_size", "heap"}
Phases == {"idle", "fit", "add", "calloc", "skip", "sort", "place", "copy", "higher",
           "copied", "return"}

SearchTypes == [key : Nat, min : Nat, max : Int, i : Nat, done : BOOLEAN]

\* p is a record of the pool's fields.
IsPool(p) == p = [f \in PoolFields |-> p[f]]

PoolTypes(p) ==
  /\ IsPool(p)
  /\ p.count \in Nat /\ p.first_i \in 0..p.count
  /\ p.a \in [0..(p.count - 1) -> Block]
  /\ p.alloc_len \in Nat /\ p.block_size \in Nat /\ p.skip_size \in Nat
  /\ p.heap \in Seq(Nat)

\* Types of what a call works with.
CallTypes ==
  /\ PoolTypes(o)
  /\ call \in [size : Nat, i : Nat, mem : Seq(Region), tmp : Block]
  /\ Len(call.mem) <= 1
  /\ search \in SearchTypes
  /\ froms \in Seq(Nat)
  /\ pc \in Phases

\* What the bisection has found of array b, of n blocks searched from lo: what
\* is below its bounds is too small, if the array is sorted, and what is above
\* them fits.  The bounds start crossed when all blocks are used up.
Bisecting(b, n, lo) ==
  IF search.done
  THEN /\ search.i \in (IF lo < n THEN lo ELSE n - 1)..n
       /\ search.i < n => b[search.i].free >= search.key
       /\ SortedFrom(b, n, lo) => \A k \in lo..(search.i - 1) : b[k].free < search.key
       /\ search.i = n => b[n - 1].free < search.key
  ELSE \/ lo = n /\ search.min = n /\ search.max = n - 1
       \/ /\ lo <= search.min /\ search.min <= search.max /\ search.max < n
          /\ search.max < n - 1 => b[search.max + 1].free >= search.key
          /\ SortedFrom(b, n, lo) => \A k \in lo..(search.min - 1) : b[k].free < search.key

\* The fields p of a pool with another array.
WithArray(p, b) == [p EXCEPT !.a = b]

\* The block that is taken, for which there may be none.
Fitting(p, size) == FirstSmallest(p.a, p.count, p.first_i, size)
NoneFit(p, size) ==
  ~ (p.count > 0 /\ size <= p.a[p.count - 1].free /\ Fitting(p, size) < p.count)

\* The fields with size taken from block i, those with room made for a block,
\* and those with one more.
Less(p, i, size) == WithArray(p, [p.a EXCEPT ![i].free = @ - size])
Roomier(p) == IF p.count = p.alloc_len THEN Grown(p) ELSE p
FullSize(p, size) == IF p.block_size < size THEN size ELSE p.block_size
Added(p, size) ==
  [p EXCEPT !.count = @ + 1, !.heap = Append(@, FullSize(p, size)),
            !.a = [k \in 0..p.count |->
                     IF k < p.count THEN @[k]
                     ELSE [free |-> FullSize(p, size) - size, mem |-> p.count]]]

Resorted(p, i) == WithArray(p, Resort(p.a, p.count, p.first_i, i))
Skipped(p) ==
  [p EXCEPT !.first_i = FirstUnskipped(p.a, p.count, p.first_i, p.skip_size)]

\* A call for size makes of the fields p those in r, and returns mem.
TakesFrom(p, r, size, mem) ==
  /\ ~ NoneFit(p, size)
  /\ r = Resorted(Less(p, Fitting(p, size), size), Fitting(p, size))
  /\ mem = <<[mem |-> p.a[Fitting(p, size)].mem,
              off |-> p.a[Fitting(p, size)].free - size, len |-> size]>>
AddsTo(p, r, size, mem) ==
  /\ NoneFit(p, size)
  /\ r = Resorted(Skipped(Added(Roomier(p), size)), p.count)
  /\ mem = <<[mem |-> p.count, off |-> FullSize(Roomier(p), size) - size, len |-> size]>>
ComesTo(p, r, size, mem) == TakesFrom(p, r, size, mem) \/ AddsTo(p, r, size, mem)

\* Blocks further up the stack are further up the array.
Rising(q) == \A l, m \in 1..Len(q) : l < m => q[l] < q[m]

\* The blocks on the stack are the first of each size class of array b from
\* the first on the stack up to the last.
Stairs(b, q, i) ==
  /\ Len(q) > 0 /\ \A m \in 1..Len(q) : q[m] \in 0..(i - 1)
  /\ Rising(q)
  /\ \A m \in 2..Len(q) : /\ b[q[m - 1]].free < b[q[m]].free
                          /\ \A k \in q[m - 1]..(q[m] - 1) : b[k].free = b[q[m - 1]].free

\* The array after all copying that waits on the stack, which ends in t.
Unwound(b, q, t) ==
  [k \in DOMAIN b |->
     IF k = q[1] THEN t
     ELSE IF \E m \in 2..Len(q) : q[m] = k
          THEN b[q[(CHOOSE m \in 2..Len(q) : q[m] = k) - 1]]
          ELSE b[k]]

Moved(b, i, j, t) == [CopyUpOne(b, i, j) EXCEPT ![j] = t]

Last(q) == q[Len(q)]

\* What holds in each phase of a call; its end result is known from the time
\* when it has the memory.
AtFit ==
  /\ o.count > 0 /\ call.size <= o.a[o.count - 1].free
  /\ search.key = call.size /\ Bisecting(o.a, o.count, o.first_i)

AtSkip ==
  /\ NoneFit(Fields, call.size) /\ call.i = count
  /\ o = [Added(Roomier(Fields), call.size) EXCEPT !.first_i = o.first_i]
  /\ call.mem = <<[mem |-> count, off |-> FullSize(Roomier(Fields), call.size) - call.size,
                   len |-> call.size]>>
  /\ o.first_i >= first_i
  /\ \A k \in first_i..(o.first_i - 1) : o.a[k].free <= o.skip_size

AtSort ==
  /\ call.i < o.count
  /\ SortedExcept(o.a, o.count, o.first_i, call.i)
  /\ ComesTo(Fields, Resorted(o, call.i), call.size, call.mem)

Unfudged == WithArray(o, [o.a EXCEPT ![call.i] = call.tmp])

AtPlace ==
  /\ call.i \in 1..(o.count - 1)
  /\ o.a[call.i] = [call.tmp EXCEPT !.free = o.a[call.i - 1].free]
  /\ SortedExcept(Unfudged.a, o.count, o.first_i, call.i)
  /\ ComesTo(Fields, Resorted(Unfudged, call.i), call.size, call.mem)
  /\ search.key = call.tmp.free + 1
  /\ Bisecting(o.a, o.count, o.first_i)

AtCopy ==
  /\ call.i < o.count /\ Stairs(o.a, froms, call.i) /\ o.first_i <= froms[1]
  /\ SortedFrom(o.a, o.count, o.first_i)
  /\ ComesTo(Fields, WithArray(o, Moved(o.a, call.i, froms[1], call.tmp)),
             call.size, call.mem)

AtHigher ==
  /\ Last(froms) < call.i - 1 /\ o.a[Last(froms)].free < o.a[call.i - 1].free
  /\ search.key = o.a[Last(froms)].free + 1
  /\ Bisecting(o.a, o.count, o.first_i)

AtCopied ==
  /\ Len(froms) > 0 /\ Rising(froms)
  /\ \A m \in 1..Len(froms) : froms[m] < o.count
  /\ ComesTo(Fields, WithArray(o, Unwound(o.a, froms, call.tmp)), call.size, call.mem)

AtReturn ==
  \/ ComesTo(Fields, o, call.size, call.mem)
  \/ call.mem = <<>> /\ o = Fields
  \/ call.mem = <<>> /\ NoneFit(Fields, call.size) /\ o = Roomier(Fields)

PhaseInv ==
  /\ pc \in {"idle", "fit", "add"} => o = Fields
  /\ pc \notin {"copy", "higher", "copied"} => froms = <<>>
  /\ pc \notin {"fit", "place", "higher"} => search.done
  /\ pc # "idle" => /\ Len(regions) < MaxAllocs
                    /\ \E request \in AllocSizes : call.size = ALIGN_SIZE(request)
  /\ pc \in {"fit", "add", "calloc"} => call.mem = <<>> /\ call.i = count
  /\ pc = "idle" => call.mem = <<>>
  /\ pc = "fit" => AtFit
  /\ pc \in {"add", "calloc"} => NoneFit(Fields, call.size)
  /\ pc = "calloc" => o = Roomier(Fields)
  /\ pc = "skip" => AtSkip
  /\ pc = "sort" => AtSort
  /\ pc = "place" => AtPlace
  /\ pc \in {"copy", "higher"} => AtCopy
  /\ pc = "higher" => AtHigher
  /\ pc = "copied" => AtCopied
  /\ pc = "return" => AtReturn

CallInv == CallTypes /\ PhaseInv
-----------------------------------------------------------------------------
(***************************************************************************)
(* The bisection.                                                          *)
(***************************************************************************)

\* The result of the search is told by what is known of it and those before.
LEMMA FirstSmallestIs ==
  ASSUME NEW n \in Nat \ {0}, NEW lo \in 0..n, NEW size \in Nat,
         NEW b \in [0..(n - 1) -> Block],
         NEW i \in (IF lo < n THEN lo ELSE n - 1)..n,
         i < n => b[i].free >= size,
         \A k \in (IF lo < n THEN lo ELSE n - 1)..(i - 1) : b[k].free < size
  PROVE  FirstSmallest(b, n, lo, size) = i
<1> DEFINE from == IF lo < n THEN lo ELSE n - 1
           fits == {k \in from..(n - 1) : b[k].free >= size}
<1>1. \A k \in 0..(n - 1) : b[k].free \in Nat
  BY DEF Block
<1>2. from \in 0..n /\ from \in Nat
  OBVIOUS
<1>3. CASE i = n
  <2>1. fits = {}
    BY <1>1, <1>2, <1>3
  <2>2. QED
    BY <2>1, <1>3 DEF FirstSmallest
<1>4. CASE i # n
  <2>1. i \in fits /\ \A k \in fits : i <= k
    BY <1>1, <1>2, <1>4
  <2>2. \A j \in fits : (\A k \in fits : j <= k) => j = i
    BY <2>1
  <2> HIDE DEF fits
  <2>3. (CHOOSE j \in fits : \A k \in fits : j <= k) = i
    BY <2>1, <2>2
  <2>4. QED
    BY <2>1, <2>3 DEF FirstSmallest, fits
<1>5. QED
  BY <1>3, <1>4

LEMMA FreeTypes == CallTypes => \A k \in 0..(o.count - 1) : o.a[k].free \in Nat
BY DEF CallTypes, PoolTypes, Block

\* When the loop of first_smallest() is over, its index and the check after it
\* tell the first block that fits.
LEMMA BisectionFinds ==
  ASSUME CallTypes, o.count > 0, search.done, Bisecting(o.a, o.count, o.first_i)
  PROVE  /\ Found <=> search.i < o.count
         /\ search.i \in (IF o.first_i < o.count THEN o.first_i ELSE o.count - 1)..o.count
         /\ SortedFrom(o.a, o.count, o.first_i) =>
              FirstSmallest(o.a, o.count, o.first_i, search.key) = search.i
<1> DEFINE n == o.count
           lo == o.first_i
<1>1. /\ n \in Nat \ {0} /\ lo \in 0..n /\ search.i \in Nat /\ search.key \in Nat
      /\ o.a \in [0..(n - 1) -> Block]
  BY DEF CallTypes, PoolTypes, SearchTypes
<1>2. /\ search.i \in (IF lo < n THEN lo ELSE n - 1)..n
      /\ (search.i < n => o.a[search.i].free >= search.key)
      /\ (SortedFrom(o.a, n, lo) => \A k \in lo..(search.i - 1) : o.a[k].free < search.key)
      /\ (search.i = n => o.a[n - 1].free < search.key)
  BY DEF Bisecting
<1>3. search.i < n => o.a[search.i].free \in Nat
  BY <1>1 DEF Block
<1>4. Found <=> search.i < n
  BY <1>1, <1>2, <1>3 DEF Found, TooSmall
<1>5. ASSUME SortedFrom(o.a, n, lo)
      PROVE  FirstSmallest(o.a, n, lo, search.key) = search.i
  <2>1. \A k \in (IF lo < n THEN lo ELSE n - 1)..(search.i - 1) : o.a[k].free < search.key
    <3>1. CASE lo < n
      BY <1>2, <1>5, <3>1
    <3>2. CASE ~(lo < n)
      BY <1>1, <1>2, <3>2
    <3>3. QED
      BY <3>1, <3>2
  <2> HIDE DEF n, lo
  <2>2. QED
    BY <1>1, <1>2, <2>1, FirstSmallestIs, ZenonT(30)
<1>6. QED
  BY <1>2, <1>4, <1>5

\* Where a round of the loop looks.
LEMMA MiddleIs ==
  ASSUME CallTypes, o.count > 0, ~search.done, Bisecting(o.a, o.count, o.first_i)
  PROVE  \/ /\ o.first_i = o.count /\ Middle = o.count - 1
            /\ search.min = o.count /\ search.max = o.count - 1
         \/ /\ search.min <= Middle /\ Middle <= search.max /\ Middle \in 0..(o.count - 1)
            /\ o.first_i <= search.min /\ search.max < o.count
            /\ search.max < o.count - 1 => o.a[search.max + 1].free >= search.key
            /\ SortedFrom(o.a, o.count, o.first_i) =>
                 \A k \in o.first_i..(search.min - 1) : o.a[k].free < search.key
<1>1. o.count \in Nat \ {0} /\ o.first_i \in 0..o.count /\ search.min \in Nat /\ search.max \in Int
  BY DEF CallTypes, PoolTypes, SearchTypes
<1>2. CASE o.first_i = o.count /\ search.min = o.count /\ search.max = o.count - 1
  <2>1. Middle = (2 * o.count - 1) \div 2
    BY <1>1, <1>2 DEF Middle
  <2>2. QED
    BY <1>1, <1>2, <2>1
<1>3. CASE search.min <= search.max /\ search.max < o.count
  <2>1. search.min <= Middle /\ Middle <= search.max /\ Middle \in 0..(o.count - 1)
    BY <1>1, <1>3 DEF Middle
  <2>2. QED
    BY <2>1, <1>1, <1>3 DEF Bisecting
<1>4. QED
  BY <1>2, <1>3 DEF Bisecting

LEMMA GoUpBisects ==
  ASSUME CallTypes, o.count > 0, Bisecting(o.a, o.count, o.first_i), GoUp
  PROVE  /\ search' \in SearchTypes /\ search'.key = search.key
         /\ (o' = o => Bisecting(o.a, o.count, o.first_i)')
<1> DEFINE n == o.count
           lo == o.first_i
           mid == Middle
<1>1. /\ n \in Nat \ {0} /\ lo \in 0..n /\ search.min \in Nat /\ search.max \in Int
      /\ search \in SearchTypes /\ search.key \in Nat
      /\ \A k \in 0..(n - 1) : o.a[k].free \in Nat
  BY FreeTypes, SMTT(30) DEF CallTypes, PoolTypes, SearchTypes
<1>2. \/ lo = n /\ mid = n - 1 /\ search.min = n /\ search.max = n - 1
      \/ /\ search.min <= mid /\ mid <= search.max /\ mid \in 0..(n - 1)
         /\ lo <= search.min /\ search.max < n
         /\ search.max < n - 1 => o.a[search.max + 1].free >= search.key
         /\ SortedFrom(o.a, n, lo) => \A k \in lo..(search.min - 1) : o.a[k].free < search.key
  BY MiddleIs DEF GoUp
<1>3. /\ o.a[mid].free < search.key
      /\ search' = [search EXCEPT !.min = mid + 1, !.done = (search.max < mid + 1),
                      !.i = IF search.max < mid + 1 THEN mid + 1 ELSE mid]
  BY DEF GoUp, TooSmall
<1>4. mid \in 0..(n - 1)
  BY <1>1, <1>2
<1> HIDE DEF mid
<1>5. /\ search' \in SearchTypes /\ search'.key = search.key
      /\ search'.min = mid + 1 /\ search'.max = search.max
      /\ search'.done <=> (search.max < mid + 1)
      /\ search'.i = (IF search.max < mid + 1 THEN mid + 1 ELSE mid)
  <2>1. search' \in SearchTypes
    <3>1. (search.max < mid + 1) \in BOOLEAN
      OBVIOUS
    <3>2. PICK over \in BOOLEAN :
            search' = [search EXCEPT !.min = mid + 1, !.done = over,
                           !.i = IF search.max < mid + 1 THEN mid + 1 ELSE mid]
      BY <3>1, <1>3, <1>4, Zenon
    <3>3. search = [key |-> search.key, min |-> search.min, max |-> search.max,
                    i |-> search.i, done |-> search.done]
      BY <1>1 DEF SearchTypes
    <3>4. search' = [key |-> search.key, min |-> mid + 1, max |-> search.max,
                      i |-> (IF search.max < mid + 1 THEN mid + 1 ELSE mid), done |-> over]
      BY <3>2, <3>3
    <3>5. search.key \in Nat /\ search.min \in Nat /\ search.max \in Int /\ mid \in Nat
      BY <1>1, <1>4
    <3>6. QED
      BY <3>4, <3>5 DEF SearchTypes
  <2>2. search'.key = search.key /\ search'.min = mid + 1 /\ search'.max = search.max
    BY <1>1, <1>3, <1>4 DEF SearchTypes
  <2>3. search'.done <=> (search.max < mid + 1)
    BY <1>1, <1>3, <1>4 DEF SearchTypes
  <2>4. search'.i = (IF search.max < mid + 1 THEN mid + 1 ELSE mid)
    BY <1>1, <1>3, <1>4 DEF SearchTypes
  <2>5. QED
    BY <2>1, <2>2, <2>3, <2>4
<1>6. ASSUME SortedFrom(o.a, n, lo), lo <= mid, NEW k \in lo..mid
      PROVE  o.a[k].free < search.key
  BY <1>1, <1>3, <1>4, <1>6 DEF SortedFrom
<1>7. CASE search.max < mid + 1
  <2>1. /\ search'.done /\ search'.i = mid + 1
        /\ mid + 1 \in (IF lo < n THEN lo ELSE n - 1)..n
    BY <1>1, <1>2, <1>4, <1>5, <1>7
  <2>2. mid + 1 < n => o.a[mid + 1].free >= search.key
    BY <1>1, <1>2, <1>4, <1>7
  <2>3. SortedFrom(o.a, n, lo) => \A k \in lo..((mid + 1) - 1) : o.a[k].free < search.key
    BY <1>1, <1>2, <1>4, <1>6
  <2>4. mid + 1 = n => o.a[n - 1].free < search.key
    BY <1>1, <1>3, <1>4
  <2> HIDE DEF n, lo
  <2>5. o' = o => Bisecting(o.a, n, lo)'
    BY <2>1, <2>2, <2>3, <2>4, <1>5 DEF Bisecting, n, lo
  <2>6. QED
    BY <2>5, <1>5 DEF n, lo
<1>8. CASE ~(search.max < mid + 1)
  <2>1. /\ ~search'.done /\ lo <= mid + 1 /\ mid + 1 <= search.max /\ search.max < n
        /\ search.max < n - 1 => o.a[search.max + 1].free >= search.key
    BY <1>1, <1>2, <1>4, <1>5, <1>8
  <2>2. SortedFrom(o.a, n, lo) => \A k \in lo..((mid + 1) - 1) : o.a[k].free < search.key
    BY <1>1, <1>2, <1>4, <1>6
  <2> HIDE DEF n, lo
  <2>3. o' = o => Bisecting(o.a, n, lo)'
    BY <2>1, <2>2, <1>5 DEF Bisecting, n, lo
  <2>4. QED
    BY <2>3, <1>5 DEF n, lo
<1>9. QED
  BY <1>7, <1>8

LEMMA GoDownBisects ==
  ASSUME CallTypes, o.count > 0, Bisecting(o.a, o.count, o.first_i), GoDown
  PROVE  /\ search' \in SearchTypes /\ search'.key = search.key
         /\ (o' = o => Bisecting(o.a, o.count, o.first_i)')
<1> DEFINE n == o.count
           lo == o.first_i
           mid == Middle
<1>1. /\ n \in Nat \ {0} /\ lo \in 0..n /\ search.min \in Nat /\ search.max \in Int
      /\ search \in SearchTypes /\ search.key \in Nat
      /\ \A k \in 0..(n - 1) : o.a[k].free \in Nat
  BY FreeTypes, SMTT(30) DEF CallTypes, PoolTypes, SearchTypes
<1>2. \/ lo = n /\ mid = n - 1 /\ search.min = n /\ search.max = n - 1
      \/ /\ search.min <= mid /\ mid <= search.max /\ mid \in 0..(n - 1)
         /\ lo <= search.min /\ search.max < n
         /\ SortedFrom(o.a, n, lo) => \A k \in lo..(search.min - 1) : o.a[k].free < search.key
  BY MiddleIs DEF GoDown
<1>3. mid \in 0..(n - 1)
  BY <1>1, <1>2
<1>4. /\ ~(o.a[mid].free < search.key)
      /\ search' = [search EXCEPT !.max = mid - 1, !.i = mid, !.done = (mid - 1 < search.min)]
  BY DEF GoDown, TooSmall
<1> HIDE DEF mid
<1>5. /\ search' \in SearchTypes /\ search'.key = search.key
      /\ search'.min = search.min /\ search'.max = mid - 1 /\ search'.i = mid
      /\ search'.done <=> (mid - 1 < search.min)
  <2>1. search' \in SearchTypes
    <3>1. (mid - 1 < search.min) \in BOOLEAN
      OBVIOUS
    <3>2. PICK over \in BOOLEAN :
            search' = [search EXCEPT !.max = mid - 1, !.i = mid, !.done = over]
      BY <3>1, <1>3, <1>4, Zenon
    <3>3. search = [key |-> search.key, min |-> search.min, max |-> search.max,
                    i |-> search.i, done |-> search.done]
      BY <1>1 DEF SearchTypes
    <3>4. search' = [key |-> search.key, min |-> search.min, max |-> mid - 1,
                      i |-> mid, done |-> over]
      BY <3>2, <3>3
    <3>5. search.key \in Nat /\ search.min \in Nat /\ search.max \in Int /\ mid \in Nat
      BY <1>1, <1>3
    <3>6. QED
      BY <3>4, <3>5 DEF SearchTypes
  <2>2. /\ search'.key = search.key
        /\ search'.min = search.min /\ search'.max = mid - 1 /\ search'.i = mid
    BY <1>1, <1>3, <1>4 DEF SearchTypes
  <2>3. search'.done <=> (mid - 1 < search.min)
    BY <1>1, <1>3, <1>4 DEF SearchTypes
  <2>4. QED
    BY <2>1, <2>2, <2>3
<1>6. o.a[mid].free >= search.key
  BY <1>1, <1>3, <1>4
<1>7. CASE mid - 1 < search.min
  <2>1. /\ search'.done /\ mid \in (IF lo < n THEN lo ELSE n - 1)..n /\ mid < n
    BY <1>1, <1>2, <1>3, <1>5, <1>7
  <2>2. SortedFrom(o.a, n, lo) => \A k \in lo..(mid - 1) : o.a[k].free < search.key
    BY <1>1, <1>2, <1>3, <1>7
  <2> HIDE DEF n, lo
  <2>3. o' = o => Bisecting(o.a, n, lo)'
    BY <2>1, <2>2, <1>5, <1>6 DEF Bisecting, n, lo
  <2>4. QED
    BY <2>3, <1>5 DEF n, lo
<1>8. CASE ~(mid - 1 < search.min)
  <2>1. /\ ~search'.done /\ lo <= search.min /\ search.min <= mid - 1 /\ mid - 1 < n
        /\ o.a[(mid - 1) + 1].free >= search.key
        /\ SortedFrom(o.a, n, lo) => \A k \in lo..(search.min - 1) : o.a[k].free < search.key
    BY <1>1, <1>2, <1>3, <1>5, <1>6, <1>8
  <2> HIDE DEF n, lo
  <2>2. o' = o => Bisecting(o.a, n, lo)'
    BY <2>1, <1>5 DEF Bisecting, n, lo
  <2>3. QED
    BY <2>2, <1>5 DEF n, lo
<1>9. QED
  BY <1>7, <1>8

\* The loop is entered with bounds that are right for any array.
LEMMA SearchStarts ==
  ASSUME NEW b, b.count \in Nat \ {0}, b.first_i \in 0..b.count,
         NEW key \in Nat, NEW where, StartSearch(b, key, where), NEW arr
  PROVE  /\ search' \in SearchTypes /\ search'.key = key /\ pc' = where
         /\ (o'.a = arr /\ o'.count = b.count /\ o'.first_i = b.first_i =>
              Bisecting(o.a, o.count, o.first_i)')
<1>1. search' = [key |-> key, min |-> b.first_i, max |-> b.count - 1, i |-> 0, done |-> FALSE]
  BY DEF StartSearch
<1>2. search' \in SearchTypes /\ search'.key = key /\ pc' = where
  BY <1>1 DEF SearchTypes, StartSearch
<1>3. ASSUME o'.a = arr, o'.count = b.count, o'.first_i = b.first_i
      PROVE  Bisecting(o.a, o.count, o.first_i)'
  BY <1>1, <1>3 DEF Bisecting
<1>4. QED
  BY <1>2, <1>3
-----------------------------------------------------------------------------
(***************************************************************************)
(* The block move.                                                         *)
(***************************************************************************)

\* While block i carries the free space of the one before it, all are sorted.
LEMMA FudgedIsSorted ==
  ASSUME NEW n \in Nat \ {0}, NEW lo \in 0..n, NEW i \in 1..(n - 1), lo < i,
         NEW b \in [0..(n - 1) -> Block], NEW f \in [0..(n - 1) -> Block],
         SortedExcept(b, n, lo, i), \A k \in 0..(n - 1) : k # i => f[k] = b[k],
         f[i].free = b[i - 1].free
  PROVE  SortedFrom(f, n, lo)
<1>1. \A k \in 0..(n - 1) : b[k].free \in Nat
  BY DEF Block
<1>2. \A k, l \in lo..(n - 1) : k <= l /\ k # i /\ l # i => b[k].free <= b[l].free
  BY DEF SortedExcept
<1>3. SUFFICES ASSUME NEW k \in lo..(n - 1), NEW l \in lo..(n - 1), k <= l
               PROVE  f[k].free <= f[l].free
  BY DEF SortedFrom
<1>4. CASE k = l
  <2>1. f[k].free \in Nat
    BY DEF Block
  <2>2. QED
    BY <1>4, <2>1
<1>5. CASE k # l /\ k = i
  <2>1. b[i - 1].free <= b[l].free /\ f[l] = b[l]
    BY <1>2, <1>3, <1>5
  <2>2. QED
    BY <2>1, <1>5
<1>6. CASE k # l /\ l = i
  <2>1. b[k].free <= b[i - 1].free /\ f[k] = b[k]
    BY <1>2, <1>3, <1>6
  <2>2. QED
    BY <2>1, <1>6
<1>7. CASE k # i /\ l # i
  BY <1>2, <1>3, <1>7
<1>8. QED
  BY <1>4, <1>5, <1>6, <1>7

\* What the unwinding puts at each index.
LEMMA UnwoundIs ==
  ASSUME NEW b, NEW q \in Seq(Nat), Len(q) > 0, Rising(q),
         \A m \in 1..Len(q) : q[m] \in DOMAIN b, NEW t
  PROVE  /\ DOMAIN Unwound(b, q, t) = DOMAIN b
         /\ Unwound(b, q, t)[q[1]] = t
         /\ \A m \in 2..Len(q) : Unwound(b, q, t)[q[m]] = b[q[m - 1]]
         /\ \A k \in DOMAIN b : (\A m \in 1..Len(q) : q[m] # k) => Unwound(b, q, t)[k] = b[k]
<1>1. \A l, m \in 1..Len(q) : l # m => q[l] # q[m]
  <2>1. \A l \in 1..Len(q) : q[l] \in Nat
    BY ElementIsIn
  <2>2. QED
    BY <2>1 DEF Rising
<1>2. \A m \in 2..Len(q) : (CHOOSE x \in 2..Len(q) : q[x] = q[m]) = m
  BY <1>1
<1>3. \A k \in DOMAIN b : Unwound(b, q, t)[k] =
        IF k = q[1] THEN t
        ELSE IF \E m \in 2..Len(q) : q[m] = k
             THEN b[q[(CHOOSE m \in 2..Len(q) : q[m] = k) - 1]]
             ELSE b[k]
  BY DEF Unwound
<1>4. DOMAIN Unwound(b, q, t) = DOMAIN b
  BY DEF Unwound
<1>5. 1 \in 1..Len(q) /\ \A m \in 2..Len(q) : m \in 1..Len(q) /\ m # 1
  OBVIOUS
<1>6. Unwound(b, q, t)[q[1]] = t
  BY <1>3, <1>5
<1>7. ASSUME NEW m \in 2..Len(q) PROVE Unwound(b, q, t)[q[m]] = b[q[m - 1]]
  <2>1. q[m] # q[1] /\ q[m] \in DOMAIN b
    BY <1>1, <1>5
  <2>2. Unwound(b, q, t)[q[m]] = b[q[(CHOOSE x \in 2..Len(q) : q[x] = q[m]) - 1]]
    BY <1>3, <2>1
  <2>3. QED
    BY <1>2, <2>2
<1>8. ASSUME NEW k \in DOMAIN b, \A m \in 1..Len(q) : q[m] # k
      PROVE  Unwound(b, q, t)[k] = b[k]
  BY <1>3, <1>5, <1>8
<1>9. QED
  BY <1>4, <1>6, <1>7, <1>8

\* Returning from one copy_up_one() leaves to do what was left but for that.
LEMMA UnwindingOne ==
  ASSUME NEW b, NEW q \in Seq(Nat), Len(q) > 1, Rising(q),
         \A m \in 1..Len(q) : q[m] \in DOMAIN b, NEW t
  PROVE  Unwound([b EXCEPT ![q[Len(q)]] = b[q[Len(q) - 1]]], SubSeq(q, 1, Len(q) - 1), t)
           = Unwound(b, q, t)
<1> DEFINE n == Len(q)
           c == [b EXCEPT ![q[n]] = b[q[n - 1]]]
           p == SubSeq(q, 1, n - 1)
<1>1. /\ n \in Nat /\ n > 1 /\ p \in Seq(Nat) /\ Len(p) = n - 1
      /\ \A m \in 1..(n - 1) : p[m] = q[m]
  OBVIOUS
<1>2. \A m \in 1..n : q[m] \in Nat
  BY ElementIsIn
<1>3. \A l, m \in 1..n : l # m => q[l] # q[m]
  BY <1>2 DEF Rising
<1>4. Rising(p) /\ DOMAIN c = DOMAIN b /\ \A m \in 1..(n - 1) : p[m] \in DOMAIN c
  <2>1. \A m \in 1..(n - 1) : m \in 1..n
    BY <1>1
  <2>2. DOMAIN c = DOMAIN b
    OBVIOUS
  <2>3. Rising(q) /\ \A m \in 1..n : q[m] \in DOMAIN b
    OBVIOUS
  <2> HIDE DEF p, c
  <2>4. \A m \in 1..(n - 1) : p[m] \in DOMAIN b
    BY <2>1, <2>3, <1>1
  <2>5. Rising(p)
    BY <2>1, <2>3, <1>1 DEF Rising
  <2>6. QED
    BY <2>2, <2>4, <2>5
<1>5. c[q[n]] = b[q[n - 1]] /\ \A k \in DOMAIN b : k # q[n] => c[k] = b[k]
  BY <1>1
<1> DEFINE u == Unwound(c, p, t)
           v == Unwound(b, q, t)
<1>6. /\ DOMAIN u = DOMAIN b /\ u[p[1]] = t
      /\ \A m \in 2..(n - 1) : u[p[m]] = c[p[m - 1]]
      /\ \A k \in DOMAIN b : (\A m \in 1..(n - 1) : p[m] # k) => u[k] = c[k]
  <2> HIDE DEF c, p, n
  <2>1. Len(p) > 0 /\ \A m \in 1..Len(p) : p[m] \in DOMAIN c
    BY <1>1, <1>4
  <2>2. p \in Seq(Nat) /\ Rising(p)
    BY <1>1, <1>4
  <2>3. /\ DOMAIN u = DOMAIN c /\ u[p[1]] = t
        /\ \A m \in 2..Len(p) : u[p[m]] = c[p[m - 1]]
        /\ \A k \in DOMAIN c : (\A m \in 1..Len(p) : p[m] # k) => u[k] = c[k]
    BY <2>1, <2>2, UnwoundIs
  <2>4. QED
    BY <1>1, <1>4, <2>3
<1>7. /\ DOMAIN v = DOMAIN b /\ v[q[1]] = t
      /\ \A m \in 2..n : v[q[m]] = b[q[m - 1]]
      /\ \A k \in DOMAIN b : (\A m \in 1..n : q[m] # k) => v[k] = b[k]
  BY UnwoundIs
<1>8. ASSUME NEW k \in DOMAIN b PROVE u[k] = v[k]
  <2> HIDE DEF u, v, c, p, n
  <2>1. CASE k = q[1]
    BY <2>1, <1>1, <1>6, <1>7
  <2>2. ASSUME NEW m \in 2..(n - 1), k = q[m] PROVE u[k] = v[k]
    <3>1. m \in 1..(n - 1) /\ m - 1 \in 1..(n - 1) /\ m \in 2..n /\ m - 1 \in 1..n /\ n \in 1..n
      BY <1>1
    <3>2. p[m] = q[m] /\ p[m - 1] = q[m - 1]
      BY <3>1, <1>1
    <3>3. q[m - 1] # q[n] /\ q[m - 1] \in DOMAIN b
      BY <3>1, <1>1, <1>3, <1>4, SMTT(30)
    <3>4. c[q[m - 1]] = b[q[m - 1]]
      BY <3>3, <1>5
    <3>5. QED
      BY <2>2, <3>1, <3>2, <3>4, <1>6, <1>7
  <2>3. CASE k = q[n]
    <3>1. n \in 2..n /\ n \in 1..n /\ \A m \in 1..(n - 1) : m \in 1..n /\ m # n
      BY <1>1
    <3>2. \A m \in 1..(n - 1) : p[m] # k
      BY <2>3, <3>1, <1>1, <1>3
    <3>3. QED
      BY <2>3, <3>1, <3>2, <1>5, <1>6, <1>7
  <2>4. CASE \A m \in 1..n : q[m] # k
    <3>1. n \in 1..n /\ \A m \in 1..(n - 1) : m \in 1..n
      BY <1>1
    <3>2. u[k] = c[k] /\ c[k] = b[k]
      BY <2>4, <3>1, <1>1, <1>5, <1>6
    <3>3. QED
      BY <2>4, <3>2, <1>7
  <2>5. \A m \in 1..n : m = 1 \/ m = n \/ m \in 2..(n - 1)
    BY <1>1
  <2>6. QED
    BY <2>1, <2>2, <2>3, <2>4, <2>5
<1> HIDE DEF c, p, n
<1>9. u = v
  <2>1. u = [k \in DOMAIN b |-> u[k]] /\ v = [k \in DOMAIN b |-> v[k]]
    BY <1>6, <1>7 DEF Unwound
  <2>2. QED
    BY <1>8, <2>1
<1>10. QED
  BY <1>9 DEF c, p, n
LEMMA FreeIsNatural ==
  ASSUME NEW n \in Nat, NEW b \in [0..(n - 1) -> Block], NEW k \in 0..(n - 1)
  PROVE  b[k].free \in Nat
BY DEF Block

LEMMA StairsAre ==
  ASSUME NEW f, NEW i, NEW q \in Seq(Nat), Stairs(f, q, i)
  PROVE  /\ Len(q) \in Nat \ {0} /\ 1 \in 1..Len(q) /\ Len(q) \in 1..Len(q)
         /\ \A m \in 1..Len(q) : q[m] \in 0..(i - 1)
         /\ \A l, m \in 1..Len(q) : l < m => q[l] < q[m]
         /\ \A m \in 2..Len(q) : m \in 1..Len(q) /\ m - 1 \in 1..Len(q) /\ m - 1 < m
         /\ \A m \in 2..Len(q) : f[q[m - 1]].free < f[q[m]].free
         /\ \A m \in 2..Len(q) :
              \A k \in q[m - 1]..(q[m] - 1) : f[k].free = f[q[m - 1]].free
<1>1. Len(q) \in Nat \ {0}
  BY DEF Stairs
<1>2. QED
  BY <1>1 DEF Stairs, Rising

\* The blocks below one on the stack have less free space than it.
LEMMA StairsRise ==
  ASSUME NEW n \in Nat \ {0}, NEW lo \in 0..n, NEW i \in 1..(n - 1),
         NEW f \in [0..(n - 1) -> Block], SortedFrom(f, n, lo),
         NEW q \in Seq(Nat), Stairs(f, q, i), lo <= q[1], NEW m \in 1..Len(q)
  PROVE  q[m] \in q[1]..(i - 1) /\ \A k \in q[1]..(q[m] - 1) : f[k].free < f[q[m]].free
<1> DEFINE Free(k) == f[k].free
           x == q[m]
           y == q[m - 1]
           z == q[1]
<1>1. /\ x \in 0..(i - 1) /\ z \in 0..(i - 1) /\ (m = 1 => x = z) /\ (m > 1 => z < x)
      /\ m \in Nat /\ m >= 1
  BY StairsAre
<1>2. \A k \in 0..(n - 1) : Free(k) \in Nat
  BY FreeIsNatural
<1>3. \A k, l \in lo..(n - 1) : k <= l => Free(k) <= Free(l)
  BY DEF SortedFrom
<1>4. ASSUME m > 1
      PROVE  /\ y \in 0..(i - 1) /\ y < x /\ Free(y) < Free(x)
             /\ \A k \in y..(x - 1) : Free(k) = Free(y)
  <2>1. m \in 2..Len(q) /\ m \in 1..Len(q) /\ m - 1 \in 1..Len(q) /\ m - 1 < m
    BY <1>4
  <2>2. y \in 0..(i - 1) /\ y < x
    BY <2>1, StairsAre
  <2>3. \A l \in 2..Len(q) : /\ Free(q[l - 1]) < Free(q[l])
                             /\ \A k \in q[l - 1]..(q[l] - 1) : Free(k) = Free(q[l - 1])
    BY DEF Stairs
  <2> HIDE DEF Free
  <2>4. QED
    BY <2>1, <2>2, <2>3
<1>5. lo <= z
  OBVIOUS
<1> HIDE DEF x, y, z, Free
<1>6. ASSUME NEW k \in z..(x - 1) PROVE Free(k) < Free(x)
  <2>1. m > 1 /\ k \in 0..(n - 1) /\ x - 1 \in 0..(n - 1) /\ k <= x - 1 /\ lo <= k
    BY <1>1, <1>5, <1>6
  <2>2. /\ y \in 0..(n - 1) /\ x \in 0..(n - 1) /\ x - 1 \in y..(x - 1) /\ Free(y) < Free(x)
        /\ \A l \in y..(x - 1) : Free(l) = Free(y)
    BY <2>1, <1>1, <1>4
  <2>3. Free(k) <= Free(x - 1)
    BY <2>1, <1>3
  <2>4. QED
    BY <2>1, <2>2, <2>3, <1>2, SMTT(30)
<1>7. x \in z..(i - 1)
  BY <1>1
<1>8. QED
  BY <1>6, <1>7 DEF x, z, Free

\* The first block of a class is the one on the stack.
FirstsOnStack(f, q, i) ==
  \A m \in 1..Len(q) : \A k \in Nat :
    q[m] <= k /\ k < i /\ f[k].free = f[q[m]].free => ClassFirst(f, q[1], k) = q[m]

LEMMA ClassOnStack ==
  ASSUME NEW n \in Nat \ {0}, NEW lo \in 0..n, NEW i \in 1..(n - 1),
         NEW f \in [0..(n - 1) -> Block], SortedFrom(f, n, lo),
         NEW q \in Seq(Nat), Stairs(f, q, i), lo <= q[1]
  PROVE  FirstsOnStack(f, q, i)
<1> SUFFICES ASSUME NEW m \in 1..Len(q), NEW k \in Nat, q[m] <= k, k < i,
                    f[k].free = f[q[m]].free
             PROVE  ClassFirst(f, q[1], k) = q[m]
  BY DEF FirstsOnStack
<1> DEFINE Free(l) == f[l].free
           x == q[m]
           z == q[1]
           c == ClassFirst(f, z, k)
<1>1. x \in z..(i - 1) /\ \A l \in z..(x - 1) : Free(l) < Free(x)
  BY StairsRise
<1>2. z \in 0..(i - 1)
  BY StairsAre
<1>3. x <= k /\ k < i /\ Free(k) = Free(x)
  OBVIOUS
<1>4. \A l \in 0..(n - 1) : Free(l) \in Nat
  BY FreeIsNatural
<1> HIDE DEF x, z
<1>5. z \in 0..(n - 1) /\ k \in z..(n - 1)
  BY <1>1, <1>2, <1>3
<1>6. c \in z..k /\ Free(c) = Free(k) /\ \A l \in z..k : Free(l) = Free(k) => c <= l
  <2> HIDE DEF c
  <2>0. n \in Nat \ {0} /\ f \in [0..(n - 1) -> Block]
    OBVIOUS
  <2>1. LET w == ClassFirst(f, z, k)
        IN  /\ w \in z..k
            /\ f[w].free = f[k].free
            /\ \A l \in z..k : f[l].free = f[k].free => w <= l
    BY <1>5, <2>0, ClassFirstIsFirst
  <2>2. QED
    BY <2>1, Zenon DEF c, Free
<1> HIDE DEF c, Free
<1>7. c <= x
  BY <1>1, <1>2, <1>3, <1>6
<1>8. ~(c < x)
  <2>1. SUFFICES ASSUME c < x PROVE FALSE
    OBVIOUS
  <2>2. c \in z..(x - 1) /\ c \in 0..(n - 1)
    BY <2>1, <1>1, <1>2, <1>6
  <2>3. Free(c) < Free(x) /\ Free(c) = Free(x) /\ Free(c) \in Nat
    BY <2>2, <1>1, <1>3, <1>4, <1>6
  <2>4. QED
    BY <2>3
<1>9. QED
  BY <1>1, <1>2, <1>6, <1>7, <1>8 DEF c, x, z

\* To copy the last size class to the block at i and then do what the stack
\* leaves to do is to move the first block of each class.
StackMoves(f, i, q, t) ==
  Unwound([f EXCEPT ![i] = f[Last(q)]], q, t) = Moved(f, i, q[1], t)

LEMMA UnwindingMoves ==
  ASSUME NEW n \in Nat \ {0}, NEW lo \in 0..n, NEW i \in 1..(n - 1),
         NEW f \in [0..(n - 1) -> Block], SortedFrom(f, n, lo),
         NEW q \in Seq(Nat), Stairs(f, q, i), lo <= q[1],
         Last(q) = i - 1 \/ f[Last(q)].free = f[i - 1].free, NEW t
  PROVE  StackMoves(f, i, q, t)
<1>11. FirstsOnStack(f, q, i)
  BY ClassOnStack
<1> DEFINE len == Len(q)
           g == [f EXCEPT ![i] = f[q[len]]]
           j == q[1]
           u == Unwound(g, q, t)
           v == Moved(f, i, j, t)
           Steps(k) == k \in (j + 1)..i /\ (k = i \/ f[k].free # f[k - 1].free)
           Free(k) == f[k].free
<1>0. \A k, l \in lo..(n - 1) : k <= l => Free(k) <= Free(l)
  BY DEF SortedFrom
<1>1. /\ len \in Nat \ {0} /\ 1 \in 1..len /\ len \in 1..len
      /\ \A m \in 1..len : q[m] \in 0..(i - 1)
      /\ \A k \in 0..(n - 1) : Free(k) \in Nat
  BY StairsAre, FreeIsNatural
<1>2. j \in 0..(i - 1) /\ lo <= j /\ q[len] \in j..(i - 1)
  BY <1>1, StairsRise
<1>3. /\ DOMAIN f = 0..(n - 1) /\ DOMAIN g = 0..(n - 1) /\ g[i] = f[q[len]]
      /\ \A k \in 0..(n - 1) : k # i => g[k] = f[k]
  OBVIOUS
<1>4. /\ DOMAIN u = 0..(n - 1) /\ u[q[1]] = t
      /\ \A m \in 2..len : u[q[m]] = g[q[m - 1]]
      /\ \A k \in 0..(n - 1) : (\A m \in 1..len : q[m] # k) => u[k] = g[k]
  <2> HIDE DEF g
  <2>1. Len(q) > 0 /\ Rising(q) /\ \A m \in 1..Len(q) : q[m] \in DOMAIN g
    BY <1>1, <1>3 DEF Stairs
  <2>2. QED
    BY <2>1, <1>3, UnwoundIs, SMTT(30)
<1>5. v = [k \in 0..(n - 1) |-> IF k = j THEN t
                               ELSE IF Steps(k) THEN f[ClassFirst(f, j, k - 1)] ELSE f[k]]
  <2> HIDE DEF j
  <2>1. QED
    BY <1>3 DEF Moved, CopyUpOne
<1> HIDE DEF u, v, g, j, len, Free
<1>9. \A m \in 1..len : \A k \in Nat :
        q[m] <= k /\ k < i /\ Free(k) = Free(q[m]) => ClassFirst(f, j, k) = q[m]
  BY <1>11, Zenon DEF j, Free, len, FirstsOnStack
<1>6. ASSUME NEW k \in 0..(n - 1) PROVE u[k] = v[k]
  <2>1. v[k] = IF k = j THEN t ELSE IF Steps(k) THEN f[ClassFirst(f, j, k - 1)] ELSE f[k]
    BY <1>5
  <2>2. CASE k = j
    BY <2>1, <2>2, <1>4 DEF j
  <2>3. ASSUME NEW m \in 2..len, k = q[m] PROVE u[k] = v[k]
    <3>1. m - 1 \in 1..len /\ m \in 1..len /\ 1 < m
      BY <1>1
    <3> DEFINE y == q[m - 1]
    <3>2. /\ y \in 0..(i - 1) /\ y < k /\ j < k /\ k < i /\ k \in Nat /\ q[m] \in 0..(i - 1)
          /\ Free(y) < Free(k) /\ \A l \in y..(k - 1) : Free(l) = Free(y)
      <4>1. \A l \in 2..len : /\ Free(q[l - 1]) < Free(q[l])
                              /\ \A r \in q[l - 1]..(q[l] - 1) : Free(r) = Free(q[l - 1])
        BY DEF Stairs, len, Free
      <4>2. y \in 0..(i - 1) /\ y < q[m] /\ j < q[m] /\ q[m] \in 0..(i - 1)
        BY <3>1, StairsAre DEF j, len
      <4>3. /\ Free(q[m - 1]) < Free(q[m])
            /\ \A r \in q[m - 1]..(q[m] - 1) : Free(r) = Free(q[m - 1])
        BY <4>1
      <4> HIDE DEF y
      <4>4. Free(y) < Free(k) /\ \A r \in y..(k - 1) : Free(r) = Free(y)
        BY <4>3, <2>3 DEF y
      <4>5. QED
        BY <4>2, <4>4, <2>3
    <3>0. y = q[m - 1]
      OBVIOUS
    <3> HIDE DEF y
    <3>3. k - 1 \in y..(k - 1) /\ k - 1 \in y..(i - 1)
      BY <3>2, <1>1
    <3>4. Free(k - 1) = Free(y)
      BY <3>2, <3>3
    <3>5. ClassFirst(f, j, k - 1) = y
      <4>1. k - 1 \in Nat /\ y <= k - 1 /\ k - 1 < i
        BY <3>2
      <4>2. QED
        BY <4>1, <3>0, <3>1, <3>4, <1>9
    <3>6. Steps(k)
      <4>1. Free(k) # Free(k - 1)
        <5>1. y \in 0..(n - 1)
          BY <3>2
        <5>2. Free(y) \in Nat /\ Free(k) \in Nat
          BY <5>1, <1>1
        <5>3. QED
          BY <5>2, <3>2, <3>4
      <4>2. f[k].free # f[k - 1].free
        BY <4>1 DEF Free
      <4>3. k \in (j + 1)..i
        BY <3>2, <1>2
      <4>4. QED
        BY <4>2, <4>3
    <3>7. u[k] = f[y]
      <4>1. u[k] = g[y]
        BY <2>3, <3>0, <1>4
      <4>2. y \in 0..(n - 1) /\ y # i
        BY <3>2
      <4>3. QED
        BY <4>1, <4>2, <1>3
    <3>8. k # j
      BY <3>2, <1>2
    <3>9. QED
      BY <2>1, <3>5, <3>6, <3>7, <3>8
  <2>4. CASE k = i
    <3>1. ClassFirst(f, j, i - 1) = q[len]
      <4>1. q[len] <= i - 1 /\ i - 1 \in Nat /\ i - 1 < i
        BY <1>2
      <4>2. Free(i - 1) = Free(q[len])
        BY <1>2 DEF Last, len, Free
      <4>3. QED
        BY <4>1, <4>2, <1>1, <1>9
    <3>2. \A m \in 1..len : q[m] # i
      BY <1>1, SMTT(30)
    <3>3. u[i] = f[q[len]]
      BY <3>2, <1>3, <1>4
    <3>4. Steps(i) /\ i # j
      BY <1>2
    <3>5. QED
      BY <2>1, <2>4, <3>1, <3>3, <3>4
  <2>5. CASE k # i /\ \A m \in 1..len : q[m] # k
    <3>1. u[k] = f[k] /\ k # j
      BY <2>5, <1>1, <1>3, <1>4 DEF j
    <3>2. SUFFICES ASSUME k \in (j + 1)..(i - 1) PROVE Free(k) = Free(k - 1)
      BY <2>1, <2>5, <3>1 DEF Free
    <3>3. PICK m \in 1..len : q[m] < k /\ \A l \in 1..len : q[l] < k => l <= m
      <4> DEFINE S == {l \in 1..len : q[l] < k}
      <4>0. j < k
        BY <3>2, <1>2
      <4>1. S \in SUBSET (0..len) /\ 1 \in S
        BY <4>0, <1>1 DEF j
      <4>2. PICK m \in S : \A l \in S : l <= m
        BY <4>1, <1>1, GreatestNatural
      <4>3. QED
        BY <4>2
    <3>4. CASE m = len
      <4> DEFINE y == q[len]
      <4>1. y \in j..(i - 1) /\ y < k /\ (y = i - 1 \/ Free(y) = Free(i - 1))
        BY <3>3, <3>4, <1>2 DEF Last, len, Free
      <4> HIDE DEF y
      <4>2. /\ y \in lo..(n - 1) /\ k - 1 \in lo..(n - 1) /\ k \in lo..(n - 1) /\ i - 1 \in lo..(n - 1)
            /\ y <= k - 1 /\ k - 1 <= k /\ k <= i - 1 /\ y # i - 1
        <5>1. j \in Nat /\ i \in Nat /\ i <= n - 1 /\ lo <= j /\ j <= y /\ y <= i - 1 /\ y < k /\ k <= i - 1
          BY <4>1, <3>2, <1>2
        <5>2. y \in Nat /\ lo \in Nat
          BY <4>1, <5>1
        <5>3. QED
          BY <5>1, <5>2
      <4>3. /\ Free(y) <= Free(k - 1) /\ Free(k - 1) <= Free(k) /\ Free(k) <= Free(i - 1)
        BY <4>2, <1>0
      <4>4. k - 1 \in 0..(n - 1) /\ i - 1 \in 0..(n - 1)
        BY <4>2
      <4>5. Free(k - 1) \in Nat /\ Free(k) \in Nat /\ Free(i - 1) \in Nat
        BY <4>4, <1>1
      <4>6. QED
        BY <4>1, <4>2, <4>3, <4>5, SMTT(30)
    <3>5. CASE m # len
      <4> DEFINE x == q[m]
                 y == q[m + 1]
      <4>1. m + 1 \in 2..len /\ m + 1 \in 1..len /\ (m + 1) - 1 = m
        BY <3>5, <1>1
      <4>2. ~(y < k) /\ y # k /\ y \in 0..(i - 1) /\ x \in 0..(i - 1) /\ x < k
        <5>1. ~(y < k)
          BY <4>1, <3>3
        <5>2. y # k
          BY <4>1, <2>5
        <5>3. y \in 0..(i - 1) /\ x \in 0..(i - 1)
          BY <4>1, <1>1
        <5>4. QED
          BY <5>1, <5>2, <5>3, <3>3
      <4>3. \A l \in 2..len : \A r \in q[l - 1]..(q[l] - 1) : Free(r) = Free(q[l - 1])
        BY DEF Stairs, len, Free
      <4>4. \A r \in q[(m + 1) - 1]..(y - 1) : Free(r) = Free(q[(m + 1) - 1])
        BY <4>1, <4>3
      <4>5. \A r \in x..(y - 1) : Free(r) = Free(x)
        BY <4>1, <4>4
      <4> HIDE DEF x, y
      <4>6. k \in x..(y - 1) /\ k - 1 \in x..(y - 1)
        BY <4>2
      <4>7. QED
        BY <4>5, <4>6
    <3>6. QED
      BY <3>4, <3>5
  <2>6. \A m \in 1..len : m = 1 \/ m \in 2..len
    BY <1>1
  <2>7. QED
    BY <2>2, <2>3, <2>4, <2>5, <2>6 DEF j
<1>7. u = v
  <2>1. u = [k \in 0..(n - 1) |-> u[k]]
    BY <1>4 DEF u, Unwound
  <2>2. v = [k \in 0..(n - 1) |-> v[k]]
    BY <1>5
  <2>3. QED
    BY <1>6, <2>1, <2>2
<1>8. QED
  BY <1>7 DEF u, v, g, j, len, Last, StackMoves

-----------------------------------------------------------------------------
(***************************************************************************)
(* Each step of a call.                                                    *)
(***************************************************************************)

LEMMA WithArrayIs ==
  ASSUME NEW p, IsPool(p), NEW b
  PROVE  /\ IsPool(WithArray(p, b))
         /\ WithArray(p, b).a = b
         /\ WithArray(p, b).count = p.count /\ WithArray(p, b).first_i = p.first_i
         /\ WithArray(p, b).alloc_len = p.alloc_len
         /\ WithArray(p, b).block_size = p.block_size
         /\ WithArray(p, b).skip_size = p.skip_size /\ WithArray(p, b).heap = p.heap
BY DEF WithArray, PoolFields, IsPool

LEMMA WithArrayTwice ==
  ASSUME NEW p, IsPool(p), NEW b, NEW c
  PROVE  /\ WithArray(WithArray(p, b), c) = WithArray(p, c)
         /\ WithArray(p, p.a) = p
<1>1. "a" \in PoolFields
  BY DEF PoolFields
<1>2. WithArray(WithArray(p, b), c) = WithArray(p, c)
  BY <1>1 DEF WithArray, IsPool
<1>3. WithArray(p, p.a) = p
  BY <1>1 DEF WithArray, IsPool
<1>4. QED
  BY <1>2, <1>3

LEMMA WithArrayTypes ==
  ASSUME NEW p, PoolTypes(p), NEW b \in [0..(p.count - 1) -> Block]
  PROVE  PoolTypes(WithArray(p, b))
<1>1. IsPool(p)
  BY DEF PoolTypes
<1> DEFINE w == WithArray(p, b)
<1>2. /\ IsPool(w) /\ w.a = b /\ w.count = p.count /\ w.first_i = p.first_i
      /\ w.alloc_len = p.alloc_len /\ w.block_size = p.block_size
      /\ w.skip_size = p.skip_size /\ w.heap = p.heap
  BY <1>1, WithArrayIs
<1> HIDE DEF w
<1>3. PoolTypes(w)
  BY <1>2 DEF PoolTypes
<1>4. QED
  BY <1>3 DEF w

LEMMA CallIs ==
  CallTypes => call = [size |-> call.size, i |-> call.i, mem |-> call.mem, tmp |-> call.tmp]
BY DEF CallTypes

\* The call has a block to look through whenever it searches.
LEMMA SearchedHasBlocks ==
  CallInv /\ pc \in {"fit", "place", "higher"} =>
    /\ o.count > 0 /\ Bisecting(o.a, o.count, o.first_i)
<1> SUFFICES ASSUME CallInv, pc \in {"fit", "place", "higher"}
             PROVE  o.count > 0 /\ Bisecting(o.a, o.count, o.first_i)
  OBVIOUS
<1>1. o.count \in Nat /\ call.i \in Nat
  BY DEF CallInv, CallTypes, PoolTypes
<1>2. CASE pc = "fit"
  BY <1>2 DEF CallInv, PhaseInv, AtFit
<1>3. CASE pc = "place"
  BY <1>1, <1>3 DEF CallInv, PhaseInv, AtPlace
<1>4. CASE pc = "higher"
  BY <1>1, <1>4 DEF CallInv, PhaseInv, AtCopy, AtHigher
<1>5. QED
  BY <1>2, <1>3, <1>4

LEMMA LoopKeeps ==
  ASSUME CallInv, Loop
  PROVE  CallInv'
<1>1. UNCHANGED <<pool, o, call, froms, pc>> /\ (GoUp \/ GoDown) /\ ~search.done
  BY DEF Loop, GoUp, GoDown
<1>2. pc \in {"fit", "place", "higher"}
  BY <1>1 DEF CallInv, PhaseInv
<1>3. o.count > 0 /\ Bisecting(o.a, o.count, o.first_i) /\ CallTypes
  BY <1>2, SearchedHasBlocks DEF CallInv
<1>4. /\ search' \in SearchTypes /\ search'.key = search.key
      /\ Bisecting(o.a, o.count, o.first_i)'
  BY <1>1, <1>3, GoUpBisects, GoDownBisects
<1>5. CallTypes'
  BY <1>1, <1>3, <1>4 DEF CallTypes, PoolTypes
<1>6. Fields' = Fields /\ Unfudged' = Unfudged
  BY <1>1 DEF pool, Fields, Unfudged
<1>7. PhaseInv'
  <2>1. pc = "fit" => AtFit'
    BY <1>1, <1>4 DEF CallInv, PhaseInv, AtFit
  <2>2. pc = "place" => AtPlace'
    BY <1>1, <1>4, <1>6 DEF CallInv, PhaseInv, AtPlace
  <2>3. pc = "higher" => AtHigher' /\ AtCopy'
    BY <1>1, <1>4, <1>6 DEF CallInv, PhaseInv, AtHigher, AtCopy
  <2>4. QED
    BY <1>1, <1>2, <1>6, <2>1, <2>2, <2>3 DEF CallInv, PhaseInv, pool
<1>8. QED
  BY <1>5, <1>7 DEF CallInv

LEMMA AllocKeeps ==
  ASSUME CallInv, NEW request \in AllocSizes, Alloc(request)
  PROVE  CallInv'
<1> DEFINE size == ALIGN_SIZE(request)
<1>1. /\ pc = "idle" /\ Len(regions) < MaxAllocs /\ UNCHANGED <<pool, o, froms>>
      /\ call' = [NoCall EXCEPT !.size = size, !.i = o.count]
      /\ \/ /\ o.count > 0 /\ size <= o.a[o.count - 1].free
            /\ StartSearch(o, size, "fit")
         \/ /\ ~ (o.count > 0 /\ size <= o.a[o.count - 1].free)
            /\ pc' = "add" /\ UNCHANGED search
  BY DEF Alloc
<1>2. size \in Nat
  BY PoolAssumption, AlignedSizeIsNatural
<1>3. CallTypes /\ o = Fields /\ froms = <<>> /\ search.done
  BY <1>1 DEF CallInv, PhaseInv
<1>4. \E r \in AllocSizes : size = ALIGN_SIZE(r)
  OBVIOUS
<1> HIDE DEF size
<1>5. /\ call'.size = size /\ call'.i = o.count /\ call'.mem = <<>>
      /\ call' \in [size : Nat, i : Nat, mem : Seq(Region), tmp : Block]
      /\ Len(call'.mem) <= 1 /\ \E r \in AllocSizes : call'.size = ALIGN_SIZE(r)
  <2>1. call' = [size |-> size, i |-> o.count, mem |-> <<>>, tmp |-> [free |-> 0, mem |-> 0]]
    BY <1>1 DEF NoCall
  <2>2. o.count \in Nat
    BY <1>3 DEF CallTypes, PoolTypes
  <2>3. QED
    BY <2>1, <2>2, <1>2, <1>4 DEF Block
<1>6. Fields' = Fields
  BY <1>1 DEF pool, Fields
<1>7. CASE StartSearch(o, size, "fit") /\ o.count > 0 /\ size <= o.a[o.count - 1].free
  <2>1. o.count \in Nat \ {0} /\ o.first_i \in 0..o.count
    BY <1>3, <1>7 DEF CallTypes, PoolTypes
  <2>2. /\ search' \in SearchTypes /\ search'.key = size /\ pc' = "fit"
        /\ Bisecting(o.a, o.count, o.first_i)'
    BY <1>1, <1>2, <1>7, <2>1, SearchStarts
  <2>3. CallTypes'
    BY <1>1, <1>3, <1>5, <2>2 DEF CallTypes, PoolTypes, Phases
  <2>4. AtFit'
    BY <1>1, <1>5, <1>7, <2>2 DEF AtFit
  <2>5. PhaseInv'
    BY <1>1, <1>3, <1>5, <1>6, <2>2, <2>4 DEF PhaseInv, pool, Fields
  <2>6. QED
    BY <2>3, <2>5 DEF CallInv
<1>8. CASE /\ pc' = "add" /\ UNCHANGED search
           /\ ~ (o.count > 0 /\ size <= o.a[o.count - 1].free)
  <2>1. CallTypes'
    BY <1>1, <1>3, <1>5, <1>8 DEF CallTypes, PoolTypes, Phases
  <2>2. NoneFit(Fields, size)
    BY <1>3, <1>8 DEF NoneFit
  <2>3. PhaseInv'
    BY <1>1, <1>3, <1>5, <1>6, <1>8, <2>2 DEF PhaseInv, pool, Fields
  <2>4. QED
    BY <2>1, <2>3 DEF CallInv
<1>9. QED
  BY <1>1, <1>7, <1>8

\* What o is of the pool before it is changed.
LEMMA FieldsAre ==
  /\ Fields.a = a /\ Fields.count = count /\ Fields.first_i = first_i
  /\ Fields.alloc_len = alloc_len /\ Fields.block_size = block_size
  /\ Fields.skip_size = skip_size /\ Fields.heap = heap
  /\ IsPool(Fields)
BY DEF Fields, IsPool, PoolFields

LEMMA SizeIsNatural == CallTypes => call.size \in Nat /\ call.i \in Nat
BY DEF CallTypes, PoolTypes

LEMMA CutKeeps ==
  ASSUME IInv, CallInv, Cut
  PROVE  CallInv'
<1> DEFINE i == search.i
           size == call.size
           n == o.count
<1>1. /\ pc = "fit" /\ search.done /\ o = Fields /\ froms = <<>> /\ CallTypes
      /\ call.mem = <<>> /\ AtFit
      /\ Len(regions) < MaxAllocs /\ \E request \in AllocSizes : size = ALIGN_SIZE(request)
  BY DEF Cut, CallInv, PhaseInv
<1>2. /\ UNCHANGED <<pool, search, froms>> /\ Fields' = Fields
      /\ regions' = regions /\ count' = count /\ size \in Nat
  BY <1>1, SizeIsNatural DEF Cut, pool, Fields
<1>3. /\ n \in Nat \ {0} /\ o.first_i \in 0..n /\ o.a \in [0..(n - 1) -> Block]
      /\ size <= o.a[n - 1].free
      /\ search.key = size /\ Bisecting(o.a, n, o.first_i)
  BY <1>1 DEF AtFit, CallTypes, PoolTypes
<1>4. SortedFrom(o.a, n, o.first_i)
  BY <1>1, FieldsAre DEF IInv
<1>5. /\ Found <=> i < n
      /\ i \in (IF o.first_i < n THEN o.first_i ELSE n - 1)..n
      /\ Fitting(o, size) = i
  BY <1>1, <1>3, <1>4, BisectionFinds DEF Fitting
<1>6. CASE Found
  <2> DEFINE left == o.a[i].free - size
             new == [mem |-> o.a[i].mem, off |-> left, len |-> size]
             b == [o.a EXCEPT ![i].free = @ - size]
  <2>1. i \in 0..(n - 1) /\ (i < o.first_i => i = n - 1)
    BY <1>3, <1>5, <1>6
  <2>2. size <= o.a[i].free /\ o.a[i].free \in Nat
    <3>1. o.a[i].free >= size /\ o.a[i].free \in Nat
      BY <1>1, <1>3, <2>1 DEF Bisecting, Block
    <3>2. QED
      BY <1>2, <3>1
  <2>3. /\ o' = [o EXCEPT !.a[i].free = left] /\ pc' = "sort"
        /\ call' = [call EXCEPT !.i = i, !.mem = <<new>>]
    BY <1>6 DEF Cut
  <2>4. o' = Less(o, i, size)
    BY <2>3 DEF Less, WithArray
  <2>12. ~ NoneFit(Fields, size)
    BY <1>1, <1>3, <1>5, <2>1 DEF NoneFit
  <2>13. TakesFrom(Fields, Resorted(o', i), size, <<new>>)
    BY <1>1, <1>5, <2>4, <2>12 DEF TakesFrom, new
  <2>9. call' = [size |-> size, i |-> i, mem |-> <<new>>, tmp |-> call.tmp]
    BY <1>1, <2>3, CallIs
  <2> HIDE DEF i, n, size
  <2>5. /\ b \in [0..(n - 1) -> Block] /\ b[i].free = left
        /\ \A k \in 0..(n - 1) : k # i => b[k] = o.a[k]
    <3> DEFINE b0 == o.a
    <3>1. n \in Nat /\ b0 \in [0..(n - 1) -> Block] /\ size <= b0[i].free
      BY <1>3, <2>2
    <3> HIDE DEF b0
    <3>2. LET c == [b0 EXCEPT ![i].free = @ - size]
          IN  /\ c \in [0..(n - 1) -> Block]
              /\ c[i].free = b0[i].free - size /\ c[i].mem = b0[i].mem
              /\ \A k \in 0..(n - 1) : k # i => c[k] = b0[k]
      BY <3>1, <2>1, <1>2, CutBlock
    <3>3. QED
      BY <3>2 DEF b0
  <2>6. left \in Nat /\ left <= o.a[i].free
    BY <1>2, <2>2
  <2>7. new \in Region /\ <<new>> \in Seq(Region) /\ Len(<<new>>) = 1
    BY <1>2, <1>3, <2>1, <2>6 DEF Region, Block
  <2>8. SortedExcept(b, n, o.first_i, i)
    BY <1>3, <1>4, <2>1, <2>5, <2>6, LessKeepsOrder
  <2>10. o' = WithArray(o, b)
    BY <2>4 DEF Less
  <2> HIDE DEF b, new
  <2>14. /\ o'.a = b /\ o'.count = n /\ o'.first_i = o.first_i
    BY <1>1, <2>10, WithArrayIs DEF CallTypes, PoolTypes, n
  <2>11. CallTypes'
    <3>1. PoolTypes(o')
      BY <1>1, <2>5, <2>10, WithArrayTypes DEF CallTypes, n
    <3>2. call.tmp \in Block /\ i \in Nat
      BY <1>1, <1>3, <2>1 DEF CallTypes
    <3>3. call' \in [size : Nat, i : Nat, mem : Seq(Region), tmp : Block] /\ Len(call'.mem) <= 1
      BY <3>2, <1>2, <2>7, <2>9
    <3>4. QED
      BY <3>1, <3>3, <1>1, <1>2, <2>3 DEF CallTypes, Phases
  <2>15. call'.i = i /\ call'.size = size /\ call'.mem = <<new>>
    BY <2>9
  <2>16. AtSort'
    <3>1. call'.i < o'.count
      BY <2>1, <2>14, <2>15, <1>3
    <3>2. ComesTo(Fields', Resorted(o', call'.i), call'.size, call'.mem)
      BY <1>2, <2>13, <2>15 DEF ComesTo
    <3>3. QED
      BY <3>1, <3>2, <2>8, <2>14, <2>15 DEF AtSort
  <2>17. PhaseInv'
    BY <1>1, <1>2, <2>3, <2>15, <2>16 DEF PhaseInv, size
  <2>18. QED
    BY <2>11, <2>17 DEF CallInv
<1>7. CASE ~Found
  <2>1. pc' = "add" /\ UNCHANGED <<o, call>>
    BY <1>7 DEF Cut
  <2>2. NoneFit(Fields, size)
    BY <1>1, <1>3, <1>5, <1>7 DEF NoneFit
  <2>3. CallTypes'
    BY <1>1, <1>2, <2>1 DEF CallTypes, PoolTypes, Phases
  <2>4. PhaseInv'
    BY <1>1, <1>2, <2>1, <2>2 DEF PhaseInv, CallInv
  <2>5. QED
    BY <2>3, <2>4 DEF CallInv
<1>8. QED
  BY <1>6, <1>7

LEMMA GrownIs ==
  ASSUME NEW p, IsPool(p)
  PROVE  /\ IsPool(Grown(p)) /\ Grown(p).a = p.a /\ Grown(p).count = p.count
         /\ Grown(p).first_i = p.first_i /\ Grown(p).heap = p.heap
         /\ Grown(p).alloc_len = (IF p.alloc_len > 0 THEN 2 * p.alloc_len ELSE 1)
         /\ Grown(p).block_size = 2 * p.block_size
         /\ Grown(p).skip_size = (IF p.first_i < (p.alloc_len * 2) \div 3
                                  THEN IF p.skip_size > 0 THEN 2 * p.skip_size ELSE AlignBytes
                                  ELSE p.skip_size)
BY DEF Grown, IsPool, PoolFields

LEMMA ExtendArrayKeeps ==
  ASSUME CallInv, ExtendArray
  PROVE  CallInv'
<1>1. /\ pc = "add" /\ o = Fields /\ froms = <<>> /\ CallTypes /\ search.done
      /\ call.mem = <<>> /\ call.i = count /\ NoneFit(Fields, call.size)
      /\ Len(regions) < MaxAllocs /\ \E request \in AllocSizes : call.size = ALIGN_SIZE(request)
  BY DEF ExtendArray, CallInv, PhaseInv
<1>2. /\ UNCHANGED <<pool, call, search, froms>> /\ Fields' = Fields
      /\ regions' = regions /\ count' = count
  BY DEF ExtendArray, pool, Fields
<1>3. CASE o.count = o.alloc_len /\ o' = Grown(o) /\ pc' = "calloc"
  <2>1. /\ IsPool(o') /\ o'.a = o.a /\ o'.count = o.count
        /\ o'.first_i = o.first_i /\ o'.heap = o.heap
        /\ o'.alloc_len \in Nat /\ o'.block_size \in Nat /\ o'.skip_size \in Nat
    <3>1. IsPool(o) /\ o.alloc_len \in Nat /\ o.block_size \in Nat /\ o.skip_size \in Nat
      BY <1>1 DEF CallTypes, PoolTypes
    <3>2. AlignBytes \in Nat
      BY PoolAssumption
    <3> DEFINE g == Grown(o)
    <3>3. /\ IsPool(g) /\ g.a = o.a /\ g.count = o.count
          /\ g.first_i = o.first_i /\ g.heap = o.heap
          /\ g.alloc_len \in {2 * o.alloc_len, 1} /\ g.block_size = 2 * o.block_size
          /\ g.skip_size \in {2 * o.skip_size, AlignBytes, o.skip_size}
      BY <3>1, GrownIs
    <3> HIDE DEF g
    <3>4. g.alloc_len \in Nat /\ g.block_size \in Nat /\ g.skip_size \in Nat
      BY <3>1, <3>2, <3>3
    <3>5. QED
      BY <1>3, <3>3, <3>4 DEF g
  <2>2. CallTypes'
    BY <1>1, <1>2, <1>3, <2>1 DEF CallTypes, PoolTypes, Phases
  <2>3. o' = Roomier(Fields)
    BY <1>1, <1>3 DEF Roomier
  <2>4. PhaseInv'
    BY <1>1, <1>2, <1>3, <2>3 DEF PhaseInv
  <2>5. QED
    BY <2>2, <2>4 DEF CallInv
<1>4. CASE UNCHANGED o /\ pc' = "return"
  <2>1. CallTypes'
    BY <1>1, <1>2, <1>4 DEF CallTypes, PoolTypes, Phases
  <2>2. AtReturn'
    BY <1>1, <1>2, <1>4 DEF AtReturn
  <2>3. PhaseInv'
    BY <1>1, <1>2, <1>4, <2>2 DEF PhaseInv
  <2>4. QED
    BY <2>1, <2>3 DEF CallInv
<1>5. CASE o.count < o.alloc_len /\ UNCHANGED o /\ pc' = "calloc"
  <2>1. CallTypes'
    BY <1>1, <1>2, <1>5 DEF CallTypes, PoolTypes, Phases
  <2>2. o.count # o.alloc_len
    BY <1>1, <1>5 DEF CallTypes, PoolTypes
  <2>3. o' = Roomier(Fields)
    BY <1>1, <1>5, <2>2 DEF Roomier
  <2>4. PhaseInv'
    BY <1>1, <1>2, <1>5, <2>3 DEF PhaseInv
  <2>5. QED
    BY <2>1, <2>4 DEF CallInv
<1>6. QED
  BY <1>3, <1>4, <1>5 DEF ExtendArray

LEMMA RoomierIs ==
  ASSUME NEW p, IsPool(p)
  PROVE  /\ Roomier(p).a = p.a /\ Roomier(p).count = p.count
         /\ Roomier(p).first_i = p.first_i /\ Roomier(p).heap = p.heap
BY GrownIs DEF Roomier

LEMMA AddedIs ==
  ASSUME NEW p, PoolTypes(p), NEW size \in Nat
  PROVE  /\ PoolTypes(Added(p, size))
         /\ Added(p, size).count = p.count + 1 /\ Added(p, size).first_i = p.first_i
         /\ Added(p, size).skip_size = p.skip_size
         /\ \A k \in 0..(p.count - 1) : Added(p, size).a[k] = p.a[k]
         /\ FullSize(p, size) \in Nat /\ FullSize(p, size) - size \in Nat
<1> DEFINE full == FullSize(p, size)
           left == full - size
           n == p.count
           w == Added(p, size)
           b == [k \in 0..n |-> IF k < n THEN p.a[k] ELSE [free |-> left, mem |-> n]]
<1>1. /\ p.block_size \in Nat /\ n \in Nat /\ p.a \in [0..(n - 1) -> Block] /\ IsPool(p)
      /\ p.heap \in Seq(Nat) /\ p.first_i \in 0..n
  BY DEF PoolTypes
<1>2. full \in Nat /\ left \in Nat
  <2>1. (full = p.block_size /\ size <= p.block_size) \/ full = size
    BY <1>1 DEF FullSize
  <2> HIDE DEF full
  <2>2. QED
    BY <2>1, <1>1
<1>3. w = [p EXCEPT !.count = p.count + 1, !.heap = Append(p.heap, full), !.a = b]
  BY DEF Added
<1> HIDE DEF w, full, b, left
<1>4. /\ IsPool(w) /\ w.a = b /\ w.count = p.count + 1 /\ w.heap = Append(p.heap, full)
      /\ w.first_i = p.first_i /\ w.skip_size = p.skip_size
      /\ w.alloc_len = p.alloc_len /\ w.block_size = p.block_size
  BY <1>1, <1>3 DEF IsPool, PoolFields
<1>5. b \in [0..n -> Block] /\ \A k \in 0..(n - 1) : b[k] = p.a[k]
  <2>1. [free |-> left, mem |-> n] \in Block
    BY <1>1, <1>2 DEF Block
  <2>2. \A k \in 0..n : k < n => k \in 0..(n - 1)
    BY <1>1
  <2>3. \A k \in 0..(n - 1) : k \in 0..n /\ k < n
    BY <1>1
  <2>4. \A k \in 0..n : k < n => p.a[k] \in Block
    BY <1>1, <2>2
  <2>5. QED
    BY <2>1, <2>3, <2>4 DEF b
<1>6. Append(p.heap, full) \in Seq(Nat)
  BY <1>1, <1>2
<1>7. PoolTypes(w)
  <2>1. w.count - 1 = n /\ w.count \in Nat /\ w.first_i \in 0..w.count
    BY <1>1, <1>4, SMTT(30)
  <2>2. w.a \in [0..(w.count - 1) -> Block] /\ w.heap \in Seq(Nat)
    BY <1>4, <1>5, <1>6, <2>1
  <2>3. QED
    BY <1>4, <2>1, <2>2 DEF PoolTypes
<1>8. QED
  BY <1>2, <1>4, <1>5, <1>7 DEF w, full, left

LEMMA AddKeeps ==
  ASSUME CallInv, Add
  PROVE  CallInv'
<1> DEFINE size == call.size
           full == FullSize(o, size)
           new == [mem |-> o.count, off |-> full - size, len |-> size]
<1>1. /\ pc = "calloc" /\ o = Roomier(Fields) /\ froms = <<>> /\ CallTypes /\ search.done
      /\ call.mem = <<>> /\ call.i = count /\ NoneFit(Fields, call.size)
      /\ Len(regions) < MaxAllocs /\ \E request \in AllocSizes : call.size = ALIGN_SIZE(request)
  BY DEF Add, CallInv, PhaseInv
<1>2. /\ UNCHANGED <<pool, search, froms>> /\ Fields' = Fields
      /\ regions' = regions /\ count' = count /\ first_i' = first_i
  BY DEF Add, pool, Fields
<1>3. o.count = count /\ o.first_i = first_i
  BY <1>1, FieldsAre, RoomierIs
<1>4. CASE /\ o' = Added(o, size)
           /\ call' = [call EXCEPT !.mem = <<new>>] /\ pc' = "skip"
  <2>1. call' = [size |-> size, i |-> count, mem |-> <<new>>, tmp |-> call.tmp]
    BY <1>1, <1>4, CallIs
  <2>2. PoolTypes(o) /\ size \in Nat
    BY <1>1, SizeIsNatural DEF CallTypes
  <2>3. /\ PoolTypes(o') /\ o'.first_i = first_i
        /\ full \in Nat /\ full - size \in Nat
    BY <1>3, <1>4, <2>2, AddedIs
  <2>4. count \in Nat /\ first_i \in Nat
    BY <1>3, <2>2 DEF PoolTypes
  <2> HIDE DEF full, size
  <2>5. new \in Region /\ <<new>> \in Seq(Region) /\ Len(<<new>>) = 1
    BY <1>3, <2>2, <2>3, <2>4 DEF Region
  <2> HIDE DEF new
  <2>6. CallTypes'
    <3>1. call.tmp \in Block
      BY <1>1 DEF CallTypes
    <3>2. call' \in [size : Nat, i : Nat, mem : Seq(Region), tmp : Block] /\ Len(call'.mem) <= 1
      BY <2>1, <2>2, <2>4, <2>5, <3>1
    <3>3. QED
      BY <1>1, <1>2, <1>4, <2>3, <3>2 DEF CallTypes, Phases
  <2>7. call'.size = size /\ call'.i = count /\ call'.mem = <<new>>
    BY <2>1
  <2>8. o' = [o' EXCEPT !.first_i = o'.first_i]
    BY <2>3 DEF PoolTypes, IsPool, PoolFields
  <2>9. AtSkip'
    <3>1. o' = [Added(Roomier(Fields'), call'.size) EXCEPT !.first_i = o'.first_i]
      BY <1>1, <1>2, <1>4, <2>7, <2>8
    <3>2. call'.mem = <<[mem |-> count', off |-> FullSize(Roomier(Fields'), call'.size) - call'.size,
                         len |-> call'.size]>>
      BY <1>1, <1>2, <1>3, <2>7 DEF new, full
    <3>3. NoneFit(Fields', call'.size) /\ call'.i = count'
      BY <1>1, <1>2, <2>7 DEF size
    <3>4. o'.first_i >= first_i' /\ \A k \in first_i'..(o'.first_i - 1) : FALSE
      BY <1>2, <2>3, <2>4
    <3>5. QED
      BY <3>1, <3>2, <3>3, <3>4 DEF AtSkip
  <2>10. PhaseInv'
    BY <1>1, <1>2, <1>4, <2>7, <2>9 DEF PhaseInv, size
  <2>11. QED
    BY <2>6, <2>10 DEF CallInv
<1>5. CASE pc' = "return" /\ UNCHANGED <<o, call>>
  <2>1. CallTypes'
    BY <1>1, <1>2, <1>5 DEF CallTypes, Phases
  <2>2. AtReturn'
    BY <1>1, <1>2, <1>5 DEF AtReturn
  <2>3. PhaseInv'
    BY <1>1, <1>2, <1>5, <2>2 DEF PhaseInv
  <2>4. QED
    BY <2>1, <2>3 DEF CallInv
<1>6. QED
  BY <1>4, <1>5 DEF Add, Added, FullSize

LEMMA FirstUnskippedIs ==
  ASSUME NEW n \in Nat, NEW lo \in 0..n, NEW skip \in Nat,
         NEW b \in [0..(n - 1) -> Block], NEW first \in lo..n,
         first < n => b[first].free > skip,
         \A k \in lo..(first - 1) : b[k].free <= skip
  PROVE  FirstUnskipped(b, n, lo, skip) = first
<1> DEFINE open == {k \in lo..n : k = n \/ b[k].free > skip}
<1>1. first \in open
  OBVIOUS
<1>2. ASSUME NEW k \in open PROVE first <= k
  <2>1. SUFFICES ASSUME k < first PROVE FALSE
    OBVIOUS
  <2>2. k \in lo..(first - 1) /\ k \in 0..(n - 1)
    BY <2>1
  <2>3. b[k].free \in Nat /\ b[k].free <= skip
    BY <2>2, FreeIsNatural
  <2>4. QED
    BY <2>2, <2>3
<1>3. \A j \in open : (\A k \in open : j <= k) => j = first
  BY <1>1, <1>2
<1> HIDE DEF open
<1>4. (CHOOSE k \in open : \A l \in open : k <= l) = first
  BY <1>1, <1>2, <1>3
<1>5. QED
  BY <1>4 DEF FirstUnskipped, open

LEMMA SkipKeeps ==
  ASSUME IInv, CallInv, Skip
  PROVE  CallInv'
<1> DEFINE size == call.size
           new == Added(Roomier(Fields), size)
<1>1. /\ pc = "skip" /\ froms = <<>> /\ CallTypes /\ search.done /\ AtSkip
      /\ Len(regions) < MaxAllocs /\ \E request \in AllocSizes : call.size = ALIGN_SIZE(request)
  BY DEF Skip, CallInv, PhaseInv
<1>2. /\ UNCHANGED <<pool, call, search, froms>> /\ Fields' = Fields
      /\ regions' = regions /\ count' = count /\ first_i' = first_i
  BY DEF Skip, pool, Fields
<1>3. /\ o = [new EXCEPT !.first_i = o.first_i]
      /\ NoneFit(Fields, size) /\ call.i = count /\ o.first_i >= first_i
      /\ \A k \in first_i..(o.first_i - 1) : o.a[k].free <= o.skip_size
  BY <1>1 DEF AtSkip
<1>4. PoolTypes(o) /\ size \in Nat /\ count \in Nat /\ first_i \in 0..count
      /\ IsPool(o)
  BY <1>1, SizeIsNatural DEF CallTypes, PoolTypes, IInv, TypeOK
<1> HIDE DEF new, size
<1>5. CASE /\ o.first_i < o.count /\ o.a[o.first_i].free <= o.skip_size
           /\ o' = [o EXCEPT !.first_i = @ + 1] /\ UNCHANGED pc
  <2>1. /\ IsPool(o') /\ o'.first_i = o.first_i + 1 /\ o'.a = o.a /\ o'.count = o.count
        /\ o'.skip_size = o.skip_size /\ o'.alloc_len = o.alloc_len
        /\ o'.block_size = o.block_size /\ o'.heap = o.heap
    BY <1>4, <1>5 DEF IsPool, PoolFields
  <2>2. o.first_i \in 0..o.count /\ o.count \in Nat
    BY <1>4 DEF PoolTypes
  <2>3. PoolTypes(o')
    BY <1>4, <1>5, <2>1, <2>2 DEF PoolTypes
  <2>4. o' = [new EXCEPT !.first_i = o'.first_i]
    BY <1>3, <1>5, <2>1 DEF IsPool, PoolFields
  <2>5. /\ o'.first_i >= first_i
        /\ \A k \in first_i..(o'.first_i - 1) : o'.a[k].free <= o'.skip_size
    <3>1. \A k \in first_i..(o'.first_i - 1) : k = o.first_i \/ k \in first_i..(o.first_i - 1)
      BY <1>4, <2>1, <2>2
    <3>2. \A k \in first_i..(o.first_i - 1) : o.a[k].free <= o.skip_size
      BY <1>3
    <3>3. \A k \in first_i..(o'.first_i - 1) : o.a[k].free <= o.skip_size
      BY <1>5, <3>1, <3>2
    <3>4. o'.first_i >= first_i
      BY <1>3, <1>4, <2>1, <2>2
    <3>5. QED
      BY <2>1, <3>3, <3>4
  <2>6. AtSkip'
    BY <1>1, <1>2, <2>4, <2>5 DEF AtSkip, new, size
  <2>7. CallTypes'
    BY <1>1, <1>2, <1>5, <2>3 DEF CallTypes
  <2>8. PhaseInv'
    BY <1>1, <1>2, <1>5, <2>6 DEF PhaseInv
  <2>9. QED
    BY <2>7, <2>8 DEF CallInv
<1>6. CASE /\ ~(o.first_i < o.count /\ o.a[o.first_i].free <= o.skip_size)
           /\ pc' = "sort" /\ UNCHANGED o
  <2>1. CallTypes'
    BY <1>1, <1>2, <1>6 DEF CallTypes, Phases
  <2> DEFINE room == Roomier(Fields)
  <2>2. /\ room.count = count /\ room.a = a /\ room.first_i = first_i
    BY FieldsAre, RoomierIs
  <2>3. PoolTypes(room)
    <3>1. PoolTypes(Fields)
      BY FieldsAre DEF IInv, TypeOK, PoolTypes
    <3> DEFINE g == Grown(Fields)
    <3>2. /\ IsPool(g) /\ g.a = a /\ g.count = count /\ g.first_i = first_i /\ g.heap = heap
          /\ g.alloc_len \in {2 * alloc_len, 1} /\ g.block_size = 2 * block_size
          /\ g.skip_size \in {2 * skip_size, AlignBytes, skip_size}
      BY FieldsAre, GrownIs
    <3> HIDE DEF g
    <3>3. alloc_len \in Nat /\ block_size \in Nat /\ skip_size \in Nat /\ AlignBytes \in Nat
      BY PoolAssumption DEF IInv, TypeOK
    <3>4. PoolTypes(g)
      BY <3>1, <3>2, <3>3, FieldsAre, SMTT(30) DEF PoolTypes
    <3>5. QED
      BY <3>1, <3>4 DEF Roomier, g
  <2>4. /\ PoolTypes(new) /\ new.count = count + 1 /\ new.first_i = first_i
        /\ \A k \in 0..(count - 1) : new.a[k] = a[k]
    BY <1>4, <2>2, <2>3, AddedIs DEF new
  <2>5. /\ new.a = o.a /\ new.count = o.count /\ new.skip_size = o.skip_size
    BY <1>3, <2>4 DEF PoolTypes, IsPool, PoolFields
  <2>6. /\ o.count = count + 1 /\ o.first_i \in first_i..(count + 1)
        /\ o.a \in [0..count -> Block] /\ \A k \in 0..(count - 1) : o.a[k] = a[k]
        /\ o.a \in [0..(o.count - 1) -> Block] /\ o.skip_size \in Nat
    <3>1. o.count = count + 1 /\ (count + 1) - 1 = count
      BY <1>4, <2>4, <2>5
    <3>2. o.first_i \in 0..o.count /\ o.a \in [0..(o.count - 1) -> Block] /\ o.skip_size \in Nat
      BY <1>4 DEF PoolTypes
    <3>3. o.a \in [0..count -> Block]
      BY <3>1, <3>2
    <3>4. o.first_i \in first_i..(count + 1)
      BY <1>3, <1>4, <3>1, <3>2
    <3>5. \A k \in 0..(count - 1) : o.a[k] = a[k]
      BY <2>4, <2>5
    <3>6. QED
      BY <3>1, <3>2, <3>3, <3>4, <3>5
  <2>7. SortedExcept(o.a, count + 1, o.first_i, count)
    <3>1. SortedFrom(a, count, first_i) /\ a \in [0..(count - 1) -> Block]
      BY DEF IInv, TypeOK
    <3> DEFINE b == o.a
               lo == o.first_i
    <3>2. b \in [0..count -> Block] /\ lo \in first_i..(count + 1) /\ \A k \in 0..(count - 1) : b[k] = a[k]
      BY <2>6
    <3> HIDE DEF b, lo
    <3>3. SortedExcept(b, count + 1, lo, count)
      BY <1>4, <3>1, <3>2, MoreKeepsOrder
    <3>4. QED
      BY <3>3 DEF b, lo
  <2>8. FirstUnskipped(o.a, o.count, first_i, o.skip_size) = o.first_i
    <3>1. o.first_i < o.count => o.a[o.first_i].free > o.skip_size
      <4>1. SUFFICES ASSUME o.first_i < o.count PROVE o.a[o.first_i].free > o.skip_size
        OBVIOUS
      <4>2. o.first_i \in 0..(o.count - 1) /\ o.count \in Nat
        BY <4>1, <2>6, <1>4
      <4>3. o.a[o.first_i].free \in Nat
        BY <4>2, <2>6, FreeIsNatural
      <4>4. QED
        BY <4>1, <4>3, <1>6, <2>6
    <3>2. \A k \in first_i..(o.first_i - 1) : o.a[k].free <= o.skip_size
      BY <1>3
    <3>3. o.count \in Nat /\ first_i \in 0..o.count /\ o.first_i \in first_i..o.count
      BY <1>4, <2>6
    <3> DEFINE b == o.a
               n == o.count
               first == o.first_i
               skip == o.skip_size
               lo == first_i
    <3>4. /\ n \in Nat /\ lo \in 0..n /\ skip \in Nat /\ b \in [0..(n - 1) -> Block]
          /\ first \in lo..n /\ (first < n => b[first].free > skip)
          /\ \A k \in lo..(first - 1) : b[k].free <= skip
      BY <2>6, <3>1, <3>2, <3>3
    <3> HIDE DEF b, n, first, skip, lo
    <3>5. FirstUnskipped(b, n, lo, skip) = first
      BY <3>4, FirstUnskippedIs
    <3>6. QED
      BY <3>5 DEF b, n, first, skip, lo
  <2>9. o = Skipped(new)
    <3>1. Skipped(new) = [new EXCEPT !.first_i = FirstUnskipped(o.a, o.count, first_i, o.skip_size)]
      BY <2>4, <2>5 DEF Skipped
    <3>2. QED
      BY <3>1, <2>8, <1>3
  <2>10. AddsTo(Fields, Resorted(o, count), size, call.mem)
    BY <1>1, <1>3, <2>9, FieldsAre DEF AddsTo, AtSkip, new, size
  <2>11. AtSort'
    <3>1. call'.i < o'.count
      BY <1>2, <1>3, <1>4, <1>6, <2>6
    <3>2. SortedExcept(o'.a, o'.count, o'.first_i, call'.i)
      BY <1>2, <1>3, <1>6, <2>6, <2>7
    <3>3. ComesTo(Fields', Resorted(o', call'.i), call'.size, call'.mem)
      BY <1>2, <1>3, <1>6, <2>10 DEF ComesTo, size
    <3>4. QED
      BY <3>1, <3>2, <3>3 DEF AtSort
  <2>12. PhaseInv'
    BY <1>1, <1>2, <1>6, <2>11 DEF PhaseInv
  <2>13. QED
    BY <2>1, <2>12 DEF CallInv
<1>7. QED
  BY <1>5, <1>6 DEF Skip

LEMMA SortKeeps ==
  ASSUME CallInv, Sort
  PROVE  CallInv'
<1> DEFINE i == call.i
           n == o.count
<1>1. /\ pc = "sort" /\ froms = <<>> /\ CallTypes /\ search.done /\ AtSort
      /\ Len(regions) < MaxAllocs /\ \E request \in AllocSizes : call.size = ALIGN_SIZE(request)
  BY DEF Sort, CallInv, PhaseInv
<1>2. /\ UNCHANGED <<pool, froms>> /\ Fields' = Fields
      /\ regions' = regions /\ count' = count
  BY DEF Sort, pool, Fields
<1>3. /\ i < n /\ SortedExcept(o.a, n, o.first_i, i)
      /\ ComesTo(Fields, Resorted(o, i), call.size, call.mem)
  BY <1>1 DEF AtSort
<1>4. /\ PoolTypes(o) /\ IsPool(o) /\ n \in Nat /\ i \in Nat
      /\ o.a \in [0..(n - 1) -> Block] /\ o.first_i \in 0..n
  BY <1>1, SizeIsNatural DEF CallTypes, PoolTypes
<1>5. CASE i > 0
  <2> DEFINE before == o.a[i - 1].free
             b == [o.a EXCEPT ![i].free = before]
             key == o.a[i].free + 1
  <2>1. /\ call' = [call EXCEPT !.tmp = o.a[i]]
        /\ o' = [o EXCEPT !.a[i].free = before]
        /\ StartSearch(o, key, "place")
    BY <1>5 DEF Sort
  <2>2. o' = WithArray(o, b)
    BY <2>1 DEF WithArray
  <2>3. call' = [size |-> call.size, i |-> i, mem |-> call.mem, tmp |-> o.a[i]]
    BY <1>1, <2>1, CallIs
  <2>4. i \in 1..(n - 1) /\ i \in 0..(n - 1) /\ i - 1 \in 0..(n - 1)
    BY <1>3, <1>4, <1>5
  <2>5. before \in Nat /\ o.a[i] \in Block /\ key \in Nat
    <3>1. o.a[i] \in Block /\ o.a[i - 1] \in Block
      BY <1>4, <2>4
    <3>2. o.a[i].free \in Nat /\ o.a[i - 1].free \in Nat
      BY <3>1 DEF Block
    <3>3. QED
      BY <3>1, <3>2
  <2>12. o.a \in [0..(n - 1) -> Block]
    BY <1>4
  <2> HIDE DEF i, n
  <2> DEFINE b0 == o.a
  <2>13. b0 \in [0..(n - 1) -> Block] /\ b0[i] \in Block /\ before = b0[i - 1].free
    BY <2>5, <2>12
  <2>6. /\ b \in [0..(n - 1) -> Block] /\ [b EXCEPT ![i] = o.a[i]] = o.a
        /\ b[i] = [o.a[i] EXCEPT !.free = before] /\ b[i - 1] = o.a[i - 1]
    <3> HIDE DEF before, b0
    <3> DEFINE c == [b0 EXCEPT ![i].free = before]
    <3>1. [b0[i] EXCEPT !.free = before] \in Block
      BY <2>5, <2>13 DEF Block
    <3>2. c = [b0 EXCEPT ![i] = [b0[i] EXCEPT !.free = before]]
      OBVIOUS
    <3>3. c \in [0..(n - 1) -> Block] /\ c[i] = [b0[i] EXCEPT !.free = before] /\ c[i - 1] = b0[i - 1]
      BY <2>4, <2>13, <3>1, <3>2
    <3>4. [c EXCEPT ![i] = b0[i]] = b0
      BY <2>4, <2>13, <3>1, <3>2
    <3>5. QED
      BY <3>3, <3>4 DEF b0
  <2>7. /\ PoolTypes(o') /\ o'.a = b /\ o'.count = n /\ o'.first_i = o.first_i
    <3>1. b \in [0..(o.count - 1) -> Block]
      BY <2>6 DEF n
    <3> HIDE DEF b
    <3>2. QED
      BY <1>4, <2>2, <3>1, WithArrayTypes, WithArrayIs DEF n
  <2>8. /\ search' \in SearchTypes /\ search'.key = key /\ pc' = "place"
        /\ Bisecting(o.a, o.count, o.first_i)'
    <3>1. o.count \in Nat \ {0} /\ o.first_i \in 0..o.count
      BY <1>3, <1>4, <2>4 DEF n
    <3>2. o'.count = o.count /\ o'.first_i = o.first_i
      BY <2>7 DEF n
    <3> HIDE DEF key, b
    <3>3. QED
      BY <2>1, <2>5, <2>7, <3>1, <3>2, SearchStarts
  <2>9. CallTypes'
    <3>1. call' \in [size : Nat, i : Nat, mem : Seq(Region), tmp : Block] /\ Len(call'.mem) <= 1
      BY <1>1, <1>4, <2>3, <2>5 DEF CallTypes, i
    <3>2. QED
      BY <1>1, <1>2, <2>7, <2>8, <3>1 DEF CallTypes, Phases
  <2>14. call'.i = i /\ call'.tmp = o.a[i] /\ call'.size = call.size /\ call'.mem = call.mem
    BY <2>3
  <2>10. AtPlace'
    <3>1. Unfudged' = o
      <4>1. Unfudged' = WithArray(o', [o'.a EXCEPT ![i] = o.a[i]])
        BY <2>14 DEF Unfudged
      <4>2. Unfudged' = WithArray(WithArray(o, b), o.a)
        BY <4>1, <2>2, <2>6, <2>7
      <4>3. QED
        BY <4>2, <1>4, WithArrayTwice
    <3>2. /\ SortedExcept((Unfudged').a, o'.count, o'.first_i, call'.i)
          /\ ComesTo(Fields', Resorted(Unfudged', call'.i), call'.size, call'.mem)
      BY <1>2, <1>3, <2>7, <2>14, <3>1
    <3>3. o'.a[call'.i] = [call'.tmp EXCEPT !.free = o'.a[call'.i - 1].free]
      BY <2>6, <2>7, <2>14
    <3>4. call'.i \in 1..(o'.count - 1) /\ search'.key = call'.tmp.free + 1
      BY <2>4, <2>7, <2>8, <2>14
    <3>5. QED
      BY <2>8, <3>2, <3>3, <3>4 DEF AtPlace
  <2>11. PhaseInv'
    BY <1>1, <1>2, <2>8, <2>10, <2>14 DEF PhaseInv
  <2>15. QED
    BY <2>9, <2>11 DEF CallInv
<1>6. CASE ~(i > 0)
  <2>1. pc' = "return" /\ UNCHANGED <<o, call, search>>
    BY <1>6 DEF Sort
  <2>2. CallTypes'
    BY <1>1, <1>2, <2>1 DEF CallTypes, Phases
  <2>3. i = 0
    BY <1>4, <1>6
  <2>4. Resorted(o, i) = o
    BY <1>4, <2>3, WithArrayTwice DEF Resorted, Resort
  <2>5. AtReturn'
    BY <1>2, <1>3, <2>1, <2>4 DEF AtReturn
  <2>6. PhaseInv'
    BY <1>1, <1>2, <2>1, <2>5 DEF PhaseInv
  <2>7. QED
    BY <2>2, <2>6 DEF CallInv
<1>7. QED
  BY <1>5, <1>6

\* Nothing is moved when the search for the place finds none before block i.
LEMMA ResortStays ==
  ASSUME NEW n \in Nat \ {0}, NEW lo \in 0..n, NEW i \in 1..(n - 1),
         NEW b \in [0..(n - 1) -> Block], NEW f \in [0..(n - 1) -> Block],
         f = [b EXCEPT ![i].free = b[i - 1].free],
         ~ (FirstSmallest(f, n, lo, b[i].free + 1) < i)
  PROVE  Resort(b, n, lo, i) = b
BY DEF Resort, FirstGreater

LEMMA PlaceKeeps ==
  ASSUME CallInv, Place
  PROVE  CallInv'
<1> DEFINE i == call.i
           n == o.count
           lo == o.first_i
           t == call.tmp
           f == o.a
           b == [f EXCEPT ![i] = t]
           key == t.free + 1
<1>1. /\ pc = "place" /\ froms = <<>> /\ CallTypes /\ search.done /\ AtPlace
      /\ Len(regions) < MaxAllocs /\ \E request \in AllocSizes : call.size = ALIGN_SIZE(request)
  BY DEF Place, CallInv, PhaseInv
<1>2. /\ UNCHANGED <<pool, call, search>> /\ Fields' = Fields
      /\ regions' = regions /\ count' = count
  BY DEF Place, pool, Fields
<1>3. /\ i \in 1..(n - 1) /\ f[i] = [t EXCEPT !.free = f[i - 1].free]
      /\ SortedExcept(Unfudged.a, n, lo, i)
      /\ ComesTo(Fields, Resorted(Unfudged, i), call.size, call.mem)
      /\ search.key = key /\ Bisecting(f, n, lo)
  BY <1>1 DEF AtPlace
<1>4. /\ PoolTypes(o) /\ IsPool(o) /\ n \in Nat \ {0} /\ t \in Block
      /\ f \in [0..(n - 1) -> Block] /\ lo \in 0..n /\ i \in 0..(n - 1) /\ i - 1 \in 0..(n - 1)
  BY <1>1, <1>3, SMTT(30) DEF CallTypes, PoolTypes
<1>5. Unfudged = WithArray(o, b)
  BY DEF Unfudged
<1>6. /\ Unfudged.a = b /\ Unfudged.count = n /\ Unfudged.first_i = lo
  BY <1>4, <1>5, WithArrayIs
<1>7. /\ Found <=> search.i < n
      /\ search.i \in (IF lo < n THEN lo ELSE n - 1)..n
      /\ SortedFrom(f, n, lo) => FirstSmallest(f, n, lo, search.key) = search.i
  BY <1>1, <1>3, <1>4, BisectionFinds
<1>8. SortedExcept(b, n, lo, i)
  BY <1>3, <1>6
<1>9. Resorted(Unfudged, i) = WithArray(o, Resort(b, n, lo, i))
  BY <1>4, <1>5, <1>6, WithArrayTwice DEF Resorted
<1>10. /\ Found /\ search.i < i => froms' = <<search.i>> /\ pc' = "copy" /\ UNCHANGED o
       /\ ~(Found /\ search.i < i) =>
            o' = [o EXCEPT !.a[i] = t] /\ pc' = "return" /\ UNCHANGED froms
  BY DEF Place
<1>11. search.i \in Nat /\ search.key = key /\ t.free \in Nat
  BY <1>1, <1>3, <1>4 DEF CallTypes, SearchTypes, Block
<1> HIDE DEF i, n, lo, t, f
<1>12. /\ b \in [0..(n - 1) -> Block] /\ b[i] = t /\ b[i - 1] = f[i - 1]
       /\ \A k \in 0..(n - 1) : k # i => f[k] = b[k]
       /\ f[i].free = b[i - 1].free
  BY <1>3, <1>4 DEF Block
<1>13. f = [b EXCEPT ![i].free = b[i - 1].free]
  <2>1. [b EXCEPT ![i].free = b[i - 1].free] = [b EXCEPT ![i] = [t EXCEPT !.free = f[i - 1].free]]
    BY <1>12
  <2>2. [b EXCEPT ![i] = f[i]] = f
    BY <1>4
  <2>3. QED
    BY <1>3, <2>1, <2>2
<1> HIDE DEF b, key
<1>14. CASE Found /\ search.i < i
  <2>1. froms' = <<search.i>> /\ pc' = "copy" /\ UNCHANGED o
    BY <1>10, <1>14
  <2>2. lo < i /\ lo <= search.i /\ search.i \in 0..(i - 1)
    BY <1>3, <1>4, <1>7, <1>11, <1>14
  <2>3. SortedFrom(f, n, lo)
    BY <1>3, <1>4, <1>8, <1>12, <2>2, FudgedIsSorted
  <2>4. FirstSmallest(f, n, lo, b[i].free + 1) = search.i
    BY <1>7, <1>11, <1>12, <2>3 DEF key
  <2>5. Resort(b, n, lo, i) = Moved(f, i, search.i, t)
    <3>1. FirstSmallest(f, n, lo, b[i].free + 1) < i
      BY <1>14, <2>4
    <3>2. Resort(b, n, lo, i) = Moved(f, i, FirstSmallest(f, n, lo, b[i].free + 1), b[i])
      <4>1. i # 0
        BY <1>3, <1>4
      <4>2. QED
        BY <1>13, <3>1, <4>1, Zenon DEF Resort, FirstGreater, Moved
    <3>3. QED
      BY <1>12, <2>4, <3>2
  <2>6. /\ froms' \in Seq(Nat) /\ Len(froms') = 1 /\ froms'[1] = search.i
    BY <1>11, <2>1
  <2>7. CallTypes'
    BY <1>1, <1>2, <2>1, <2>6 DEF CallTypes, Phases
  <2>8. Stairs(f, froms', i)
    BY <2>2, <2>6 DEF Stairs, Rising
  <2>9. AtCopy'
    <3>1. call'.i < o'.count
      BY <1>2, <1>3, <1>4, <2>1 DEF i, n
    <3>2. Stairs(o'.a, froms', call'.i) /\ SortedFrom(o'.a, o'.count, o'.first_i)
      BY <1>2, <2>1, <2>3, <2>8 DEF f, i, n, lo
    <3>3. o'.first_i <= froms'[1]
      BY <2>1, <2>2, <2>6 DEF lo
    <3>4. ComesTo(Fields, WithArray(o, Moved(f, i, search.i, t)), call.size, call.mem)
      BY <1>3, <1>9, <2>5
    <3>5. ComesTo(Fields', WithArray(o', Moved(o'.a, call'.i, froms'[1], call'.tmp)), call'.size,
                  call'.mem)
      BY <1>2, <2>1, <2>6, <3>4 DEF f, i, t
    <3>6. QED
      BY <3>1, <3>2, <3>3, <3>5 DEF AtCopy
  <2>10. PhaseInv'
    BY <1>1, <1>2, <2>1, <2>9 DEF PhaseInv
  <2>11. QED
    BY <2>7, <2>10 DEF CallInv
<1>15. CASE ~(Found /\ search.i < i)
  <2>1. o' = WithArray(o, b) /\ pc' = "return" /\ UNCHANGED froms
    BY <1>10, <1>15 DEF WithArray, b, f
  <2>2. ~ (FirstSmallest(f, n, lo, b[i].free + 1) < i)
    <3>1. CASE lo < i
      <4>1. SortedFrom(f, n, lo)
        BY <1>3, <1>4, <1>8, <1>12, <3>1, FudgedIsSorted
      <4>2. FirstSmallest(f, n, lo, b[i].free + 1) = search.i
        BY <1>7, <1>11, <1>12, <4>1 DEF key
      <4>3. QED
        BY <1>3, <1>4, <1>7, <1>15, <4>2
    <3>2. CASE ~ (lo < i)
      <4> DEFINE size == b[i].free + 1
                 j == FirstSmallest(f, n, lo, size)
      <4>1. size \in Nat
        BY <1>11, <1>12
      <4> HIDE DEF size
      <4>2. j \in 0..n /\ (j < lo => j = n - 1)
        BY <1>4, <4>1, FirstSmallestFits
      <4> HIDE DEF j
      <4>3. ~ (j < i)
        BY <1>3, <1>4, <3>2, <4>2
      <4>4. QED
        BY <4>3 DEF j, size
    <3>3. QED
      BY <3>1, <3>2
  <2>3. Resort(b, n, lo, i) = b
    BY <1>3, <1>4, <1>12, <1>13, <2>2, ResortStays
  <2>4. PoolTypes(o')
    BY <1>4, <1>12, <2>1, WithArrayTypes DEF n
  <2>5. CallTypes'
    BY <1>1, <1>2, <2>1, <2>4 DEF CallTypes, Phases
  <2>6. AtReturn'
    BY <1>2, <1>3, <1>9, <2>1, <2>3 DEF AtReturn
  <2>7. PhaseInv'
    BY <1>1, <1>2, <2>1, <2>6 DEF PhaseInv
  <2>8. QED
    BY <2>5, <2>7 DEF CallInv
<1>16. QED
  BY <1>14, <1>15

\* The lemmas about the stack speak of an array, these of where the call is.
LEMMA OnStack ==
  ASSUME CallTypes, AtCopy
  PROVE  /\ PoolTypes(o) /\ IsPool(o) /\ o.count \in Nat \ {0} /\ call.tmp \in Block
         /\ o.a \in [0..(o.count - 1) -> Block] /\ o.first_i \in 0..o.count
         /\ call.i \in 1..(o.count - 1) /\ froms \in Seq(Nat)
         /\ Len(froms) \in Nat \ {0} /\ Last(froms) \in froms[1]..(call.i - 1)
         /\ froms[1] \in 0..(call.i - 1)
         /\ o.first_i <= Last(froms) /\ Last(froms) \in Nat
         /\ \A m \in 1..Len(froms) : froms[m] \in 0..(o.count - 1)
<1>1. /\ PoolTypes(o) /\ IsPool(o) /\ o.count \in Nat /\ call.tmp \in Block /\ call.i \in Nat
      /\ o.a \in [0..(o.count - 1) -> Block] /\ o.first_i \in 0..o.count
      /\ froms \in Seq(Nat)
  BY DEF CallTypes, PoolTypes
<1>2. /\ call.i < o.count /\ Stairs(o.a, froms, call.i) /\ o.first_i <= froms[1]
      /\ SortedFrom(o.a, o.count, o.first_i)
  BY DEF AtCopy
<1> DEFINE f == o.a
           i == call.i
           n == o.count
           lo == o.first_i
           q == froms
<1>3. /\ Len(q) \in Nat \ {0} /\ 1 \in 1..Len(q) /\ Len(q) \in 1..Len(q)
      /\ \A m \in 1..Len(q) : q[m] \in 0..(i - 1)
  <2> HIDE DEF f, i
  <2>1. Stairs(f, q, i) /\ q \in Seq(Nat)
    BY <1>1, <1>2 DEF f, i
  <2>2. QED
    BY <2>1, StairsAre
<1>4. q[1] \in 0..(i - 1)
  BY <1>3
<1>5. i \in 1..(n - 1) /\ n \in Nat \ {0}
  BY <1>1, <1>2, <1>4
<1>6. Last(q) \in q[1]..(i - 1)
  <2> HIDE DEF f, i, n, lo, q
  <2>1. /\ f \in [0..(n - 1) -> Block] /\ lo \in 0..n /\ q \in Seq(Nat)
        /\ Stairs(f, q, i) /\ lo <= q[1] /\ SortedFrom(f, n, lo)
    BY <1>1, <1>2 DEF f, i, n, lo, q
  <2>2. q[Len(q)] \in q[1]..(i - 1)
    BY <1>3, <1>5, <2>1, StairsRise
  <2>3. QED
    BY <2>2 DEF Last
<1>7. \A m \in 1..Len(q) : q[m] \in 0..(n - 1)
  BY <1>1, <1>3, <1>5
<1>8. lo <= Last(q) /\ Last(q) \in Nat
  BY <1>1, <1>2, <1>4, <1>6
<1>9. QED
  BY <1>1, <1>3, <1>4, <1>5, <1>6, <1>7, <1>8

LEMMA CopyUpKeeps ==
  ASSUME CallInv, CopyUp
  PROVE  CallInv'
<1> DEFINE i == call.i
           n == o.count
           lo == o.first_i
           t == call.tmp
           f == o.a
           q == froms
           from == Last(q)
<1>1. /\ pc = "copy" /\ CallTypes /\ search.done /\ AtCopy
      /\ Len(regions) < MaxAllocs /\ \E request \in AllocSizes : call.size = ALIGN_SIZE(request)
  BY DEF CopyUp, CallInv, PhaseInv
<1>2. /\ UNCHANGED <<pool, call, froms>> /\ Fields' = Fields
      /\ regions' = regions /\ count' = count
  BY DEF CopyUp, pool, Fields
<1>3. /\ Stairs(f, q, i) /\ lo <= q[1] /\ SortedFrom(f, n, lo)
      /\ ComesTo(Fields, WithArray(o, Moved(f, i, q[1], t)), call.size, call.mem)
  BY <1>1 DEF AtCopy
<1>4. /\ PoolTypes(o) /\ IsPool(o) /\ n \in Nat \ {0} /\ t \in Block
      /\ f \in [0..(n - 1) -> Block] /\ lo \in 0..n
      /\ i \in 1..(n - 1) /\ q \in Seq(Nat)
      /\ Len(q) \in Nat \ {0} /\ from \in q[1]..(i - 1) /\ q[1] \in 0..(i - 1)
      /\ lo <= from /\ from \in Nat
      /\ \A m \in 1..Len(q) : q[m] \in 0..(n - 1)
  BY <1>1, OnStack
<1>5. CASE from = i - 1 \/ f[from].free = f[i - 1].free
  <2> DEFINE b == [f EXCEPT ![i] = f[from]]
  <2>1. o' = WithArray(o, b) /\ pc' = "copied" /\ UNCHANGED search
    BY <1>5 DEF CopyUp, WithArray, Last
  <2> HIDE DEF i, n, lo, t, f, q, from
  <2>2. from \in 0..(n - 1)
    BY <1>4
  <2>3. b \in [0..(n - 1) -> Block]
    BY <1>4, <2>2
  <2>4. Unwound(b, q, t) = Moved(f, i, q[1], t)
    <3>1. Last(q) = i - 1 \/ f[Last(q)].free = f[i - 1].free
      BY <1>5 DEF from
    <3>2. StackMoves(f, i, q, t)
      BY <1>3, <1>4, <3>1, UnwindingMoves
    <3>3. QED
      BY <3>2 DEF from, StackMoves
  <2> HIDE DEF b
  <2>5. PoolTypes(o') /\ o'.a = b /\ o'.count = n
    BY <1>4, <2>1, <2>3, WithArrayTypes, WithArrayIs DEF n
  <2>6. CallTypes'
    BY <1>1, <1>2, <2>1, <2>5 DEF CallTypes, Phases
  <2>7. AtCopied'
    <3>1. WithArray(o', Unwound(b, q, t)) = WithArray(o, Moved(f, i, q[1], t))
      BY <1>4, <2>1, <2>4, WithArrayTwice
    <3>2. ComesTo(Fields', WithArray(o', Unwound(o'.a, froms', call'.tmp)), call'.size, call'.mem)
      BY <1>2, <1>3, <2>5, <3>1 DEF q, t
    <3>3. Len(froms') > 0 /\ Rising(froms')
      BY <1>2, <1>3, <1>4 DEF Stairs, q
    <3>4. \A m \in 1..Len(froms') : froms'[m] < o'.count
      BY <1>2, <1>4, <2>5 DEF q
    <3>5. QED
      BY <3>2, <3>3, <3>4 DEF AtCopied
  <2>8. PhaseInv'
    BY <1>1, <1>2, <2>1, <2>7 DEF PhaseInv
  <2>9. QED
    BY <2>6, <2>8 DEF CallInv
<1>6. CASE ~(from = i - 1 \/ f[from].free = f[i - 1].free)
  <2> DEFINE key == f[from].free + 1
  <2>1. StartSearch(o, key, "higher") /\ UNCHANGED o
    BY <1>6 DEF CopyUp, Last
  <2>2. from < i - 1 /\ f[from].free < f[i - 1].free /\ key \in Nat
    <3> HIDE DEF i, n, lo, t, f, q, from
    <3>1. from < i - 1 /\ from \in lo..(n - 1) /\ i - 1 \in lo..(n - 1)
          /\ from \in 0..(n - 1) /\ i - 1 \in 0..(n - 1)
      BY <1>4, <1>6
    <3>2. f[from].free <= f[i - 1].free
      BY <1>3, <3>1 DEF SortedFrom
    <3>3. f[from].free \in Nat /\ f[i - 1].free \in Nat
      BY <1>4, <3>1, FreeIsNatural
    <3>4. QED
      BY <1>6, <3>1, <3>2, <3>3
  <2>3. /\ search' \in SearchTypes /\ search'.key = key /\ pc' = "higher"
        /\ Bisecting(o.a, o.count, o.first_i)'
    <3>1. o.count \in Nat \ {0} /\ o.first_i \in 0..o.count
      BY <1>4
    <3> HIDE DEF key
    <3>2. QED
      BY <2>1, <2>2, <3>1, SearchStarts
  <2>4. CallTypes'
    BY <1>1, <1>2, <2>1, <2>3 DEF CallTypes, Phases
  <2>5. AtCopy'
    BY <1>1, <1>2, <2>1 DEF AtCopy
  <2>6. AtHigher'
    BY <1>2, <2>1, <2>2, <2>3 DEF AtHigher
  <2>7. PhaseInv'
    BY <1>1, <1>2, <2>1, <2>3, <2>5, <2>6 DEF PhaseInv
  <2>8. QED
    BY <2>4, <2>7 DEF CallInv
<1>7. QED
  BY <1>5, <1>6

\* The first block of the next size class goes on the stack.
LEMMA StairsGoOn ==
  ASSUME NEW n \in Nat \ {0}, NEW lo \in 0..n, NEW i \in 1..(n - 1),
         NEW f \in [0..(n - 1) -> Block], SortedFrom(f, n, lo),
         NEW q \in Seq(Nat), Stairs(f, q, i), lo <= q[1], Last(q) \in lo..(i - 1),
         NEW s \in lo..(i - 1), f[s].free >= f[Last(q)].free + 1,
         \A k \in lo..(s - 1) : f[k].free < f[Last(q)].free + 1
  PROVE  Stairs(f, Append(q, s), i)
<1> DEFINE len == Len(q)
           p == Append(q, s)
           x == Last(q)
           Free(k) == f[k].free
<1>1. /\ len \in Nat \ {0} /\ Len(p) = len + 1 /\ p[len + 1] = s
      /\ \A m \in 1..len : p[m] = q[m]
  BY StairsAre
<1>2. x = q[len] /\ x \in 0..(i - 1) /\ x \in lo..(n - 1) /\ s \in 0..(n - 1)
  BY DEF Last
<1>3. \A k \in 0..(n - 1) : Free(k) \in Nat
  BY FreeIsNatural
<1>4. \A k, l \in lo..(n - 1) : k <= l => Free(k) <= Free(l)
  BY DEF SortedFrom
<1>5. Free(s) >= Free(x) + 1 /\ \A k \in lo..(s - 1) : Free(k) < Free(x) + 1
  OBVIOUS
<1>6. /\ \A m \in 1..len : q[m] \in 0..(i - 1)
      /\ \A l, m \in 1..len : l < m => q[l] < q[m]
      /\ \A m \in 2..len : Free(q[m - 1]) < Free(q[m])
      /\ \A m \in 2..len : \A k \in q[m - 1]..(q[m] - 1) : Free(k) = Free(q[m - 1])
  BY StairsAre
<1> HIDE DEF len, p, x, Free
<1>7. x < s
  <2>1. SUFFICES ASSUME s <= x PROVE FALSE
    BY <1>2
  <2>2. s \in lo..(n - 1)
    OBVIOUS
  <2>3. Free(s) <= Free(x)
    BY <1>2, <1>4, <2>1, <2>2
  <2>4. Free(s) \in Nat /\ Free(x) \in Nat
    BY <1>2, <1>3, SMTT(30)
  <2>5. QED
    BY <1>5, <2>3, <2>4
<1>8. \A k \in x..(s - 1) : Free(k) = Free(x)
  <2>1. SUFFICES ASSUME NEW k \in x..(s - 1) PROVE Free(k) = Free(x)
    OBVIOUS
  <2>2. k \in lo..(s - 1) /\ k \in lo..(n - 1) /\ k \in 0..(n - 1) /\ x <= k /\ x \in 0..(n - 1)
    BY <1>2, <2>1
  <2>3. Free(k) < Free(x) + 1 /\ Free(x) <= Free(k) /\ Free(k) \in Nat /\ Free(x) \in Nat
    BY <1>2, <1>3, <1>4, <1>5, <2>2
  <2>4. QED
    BY <2>3
<1>9. Free(x) < Free(s)
  <2>1. Free(x) \in Nat /\ Free(s) \in Nat
    BY <1>2, <1>3, SMTT(30)
  <2>2. QED
    BY <1>5, <2>1
<1>10. \A m \in 1..Len(p) : m = len + 1 \/ m \in 1..len
  BY <1>1
<1>11. \A m \in 1..Len(p) : p[m] \in 0..(i - 1)
  <2>1. SUFFICES ASSUME NEW m \in 1..Len(p) PROVE p[m] \in 0..(i - 1)
    OBVIOUS
  <2>2. CASE m = len + 1
    <3>1. s \in 0..(i - 1)
      OBVIOUS
    <3>2. QED
      BY <1>1, <2>2, <3>1
  <2>3. CASE m \in 1..len
    BY <1>1, <1>6, <2>3
  <2>4. QED
    BY <1>10, <2>2, <2>3
<1>12. Rising(p)
  <2>1. SUFFICES ASSUME NEW l \in 1..Len(p), NEW m \in 1..Len(p), l < m PROVE p[l] < p[m]
    BY DEF Rising
  <2>2. CASE m \in 1..len
    <3>1. l \in 1..len
      BY <1>1, <2>1, <2>2
    <3>2. QED
      BY <1>1, <1>6, <2>1, <2>2, <3>1
  <2>3. CASE m = len + 1
    <3>1. l \in 1..len /\ len \in 1..len /\ (l < len \/ l = len)
      BY <1>1, <2>1, <2>3
    <3>2. q[l] \in Nat /\ x \in Nat /\ (q[l] < x \/ q[l] = x)
      BY <1>2, <1>6, <3>1
    <3>3. q[l] < s
      BY <1>2, <1>7, <3>2, SMTT(30)
    <3>4. QED
      BY <1>1, <2>3, <3>1, <3>3
  <2>4. QED
    BY <1>10, <2>2, <2>3
<1>13. ASSUME NEW m \in 2..Len(p)
       PROVE  /\ Free(p[m - 1]) < Free(p[m])
              /\ \A k \in p[m - 1]..(p[m] - 1) : Free(k) = Free(p[m - 1])
  <2>1. CASE m = len + 1
    <3>1. m - 1 = len /\ len \in 1..len
      BY <1>1, <2>1
    <3>2. p[m - 1] = x /\ p[m] = s
      BY <1>1, <1>2, <2>1, <3>1
    <3>3. QED
      BY <1>8, <1>9, <3>2
  <2>2. CASE m \in 2..len
    <3>1. m - 1 \in 1..len /\ m \in 1..len
      BY <1>1, <2>2
    <3>2. p[m - 1] = q[m - 1] /\ p[m] = q[m]
      BY <1>1, <3>1
    <3>3. QED
      BY <1>6, <2>2, <3>2
  <2>3. QED
    BY <1>1, <2>1, <2>2
<1>14. Len(p) > 0
  BY <1>1
<1>15. Stairs(f, p, i)
  BY <1>11, <1>12, <1>13, <1>14 DEF Stairs, Free
<1>16. QED
  BY <1>15 DEF p

LEMMA RecurseKeeps ==
  ASSUME CallInv, Recurse
  PROVE  CallInv'
<1> DEFINE i == call.i
           n == o.count
           lo == o.first_i
           t == call.tmp
           f == o.a
           q == froms
           from == Last(q)
           key == f[from].free + 1
           s == search.i
           p == Append(q, s)
<1>1. /\ pc = "higher" /\ CallTypes /\ search.done /\ AtCopy /\ AtHigher
      /\ Len(regions) < MaxAllocs /\ \E request \in AllocSizes : call.size = ALIGN_SIZE(request)
  BY DEF Recurse, CallInv, PhaseInv
<1>2. /\ UNCHANGED <<pool, o, call, search>> /\ Fields' = Fields
      /\ regions' = regions /\ count' = count
  BY DEF Recurse, pool, Fields
<1>3. /\ Stairs(f, q, i) /\ lo <= q[1] /\ SortedFrom(f, n, lo)
      /\ ComesTo(Fields, WithArray(o, Moved(f, i, q[1], t)), call.size, call.mem)
      /\ from < i - 1 /\ f[from].free < f[i - 1].free
      /\ search.key = key /\ Bisecting(f, n, lo)
  BY <1>1 DEF AtCopy, AtHigher
<1>4. /\ n \in Nat \ {0} /\ t \in Block
      /\ f \in [0..(n - 1) -> Block] /\ lo \in 0..n
      /\ i \in 1..(n - 1) /\ q \in Seq(Nat)
      /\ Len(q) \in Nat \ {0} /\ from \in q[1]..(i - 1) /\ q[1] \in 0..(i - 1)
      /\ lo <= from /\ from \in Nat
  BY <1>1, OnStack
<1>5. /\ Found <=> s < n
      /\ s \in (IF lo < n THEN lo ELSE n - 1)..n
  BY <1>1, <1>3, <1>4, BisectionFinds
<1>6. /\ s < n => f[s].free >= key
      /\ \A k \in lo..(s - 1) : f[k].free < key
      /\ s = n => f[n - 1].free < key
  BY <1>1, <1>3 DEF Bisecting
<1>7. froms' = Append(q, IF Found THEN s ELSE 0) /\ pc' = "copy"
  BY DEF Recurse
<1> HIDE DEF i, n, lo, t, f, q, from, s
<1>8. /\ from \in 0..(n - 1) /\ i - 1 \in 0..(n - 1) /\ i - 1 \in lo..(n - 1) /\ from \in lo..(i - 1)
      /\ f[from].free \in Nat /\ f[i - 1].free \in Nat /\ f[i - 1].free >= key
  <2>1. from \in 0..(n - 1) /\ i - 1 \in 0..(n - 1) /\ i - 1 \in lo..(n - 1) /\ from \in lo..(i - 1)
    BY <1>4
  <2>2. f[from].free \in Nat /\ f[i - 1].free \in Nat
    BY <1>4, <2>1, FreeIsNatural
  <2>3. QED
    BY <1>3, <2>1, <2>2
<1> HIDE DEF key
<1>9. s \in lo..(i - 1)
  <2>1. lo < n /\ s \in lo..n
    BY <1>4, <1>5, <1>8
  <2>2. ~ (i - 1 < s)
    <3>1. SUFFICES ASSUME i - 1 < s PROVE FALSE
      OBVIOUS
    <3>2. i - 1 \in lo..(s - 1)
      BY <1>4, <1>8, <2>1, <3>1
    <3>3. f[i - 1].free < key
      BY <1>6, <3>2
    <3>4. key \in Nat
      BY <1>8 DEF key
    <3>5. QED
      BY <1>8, <3>3, <3>4
  <2>3. QED
    BY <1>4, <1>8, <2>1, <2>2
<1>10. s < n /\ s \in Nat
  BY <1>4, <1>9
<1>11. froms' = p /\ p \in Seq(Nat) /\ p[1] = q[1]
  BY <1>4, <1>5, <1>7, <1>10
<1>12. Stairs(f, p, i)
  <2>1. f[s].free >= f[Last(q)].free + 1 /\ \A k \in lo..(s - 1) : f[k].free < f[Last(q)].free + 1
    BY <1>6, <1>10 DEF key, from
  <2>2. Last(q) \in lo..(i - 1)
    BY <1>8 DEF from
  <2>3. QED
    BY <1>3, <1>4, <1>9, <2>1, <2>2, StairsGoOn
<1>13. CallTypes'
  BY <1>1, <1>2, <1>7, <1>11 DEF CallTypes, Phases
<1>14. AtCopy'
  BY <1>1, <1>2, <1>11, <1>12 DEF AtCopy, f, i, q
<1>15. PhaseInv'
  BY <1>1, <1>2, <1>7, <1>14 DEF PhaseInv
<1>16. QED
  BY <1>13, <1>15 DEF CallInv

\* The outermost call has only the block to place left.
LEMMA UnwindingLast ==
  ASSUME NEW b, b = [k \in DOMAIN b |-> b[k]], NEW q \in Seq(Nat), Len(q) = 1, NEW t
  PROVE  Unwound(b, q, t) = [b EXCEPT ![q[1]] = t]
<1>1. \A k : ~ \E m \in 2..Len(q) : q[m] = k
  OBVIOUS
<1>2. Unwound(b, q, t) = [k \in DOMAIN b |-> IF k = q[1] THEN t ELSE b[k]]
  BY <1>1 DEF Unwound
<1>3. QED
  BY <1>2

LEMMA AllButLast ==
  ASSUME NEW q \in Seq(Nat), Len(q) > 0
  PROVE  /\ SubSeq(q, 1, Len(q) - 1) \in Seq(Nat)
         /\ Len(SubSeq(q, 1, Len(q) - 1)) = Len(q) - 1
         /\ \A m \in 1..(Len(q) - 1) : SubSeq(q, 1, Len(q) - 1)[m] = q[m]
<1> DEFINE n == Len(q) - 1
           p == SubSeq(q, 1, n)
<1>1. n \in Nat /\ \A m \in 1..n : q[m] \in Nat
  BY ElementIsIn
<1> HIDE DEF n
<1>2. /\ p \in Seq(Nat)
      /\ Len(p) = IF 1 <= n THEN n - 1 + 1 ELSE 0
      /\ \A m \in 1..(n - 1 + 1) : p[m] = q[1 + m - 1]
  BY <1>1, SubSeqProperties
<1> HIDE DEF p
<1>3. Len(p) = n /\ \A m \in 1..n : p[m] = q[m]
  BY <1>1, <1>2
<1>4. QED
  BY <1>2, <1>3 DEF p, n

LEMMA CopiedUpKeeps ==
  ASSUME CallInv, CopiedUp
  PROVE  CallInv'
<1> DEFINE n == Len(froms)
           q == froms
           p == SubSeq(q, 1, n - 1)
           f == o.a
           t == call.tmp
           last == IF n > 1 THEN f[q[n - 1]] ELSE t
           b == [f EXCEPT ![q[n]] = last]
<1>1. /\ pc = "copied" /\ CallTypes /\ search.done /\ AtCopied
      /\ Len(regions) < MaxAllocs /\ \E request \in AllocSizes : call.size = ALIGN_SIZE(request)
  BY DEF CopiedUp, CallInv, PhaseInv
<1>2. /\ UNCHANGED <<pool, call, search>> /\ Fields' = Fields
      /\ regions' = regions /\ count' = count
  BY DEF CopiedUp, pool, Fields
<1>3. /\ n > 0 /\ Rising(q) /\ \A m \in 1..n : q[m] < o.count
      /\ ComesTo(Fields, WithArray(o, Unwound(f, q, t)), call.size, call.mem)
  BY <1>1 DEF AtCopied
<1>4. /\ PoolTypes(o) /\ IsPool(o) /\ t \in Block /\ q \in Seq(Nat) /\ n \in Nat /\ n > 0
      /\ f \in [0..(o.count - 1) -> Block] /\ o.count \in Nat
  BY <1>1, <1>3, SMTT(30) DEF CallTypes, PoolTypes
<1>5. /\ o' = WithArray(o, b) /\ froms' = p
      /\ pc' = IF n > 1 THEN "copied" ELSE "return"
  BY DEF CopiedUp, WithArray
<1> HIDE DEF n, q, f, t
<1>6. \A m \in 1..n : q[m] \in 0..(o.count - 1)
  <2>1. \A m \in 1..n : q[m] \in Nat
    BY <1>4, ElementIsIn DEF n, q
  <2>2. QED
    BY <1>3, <1>4, <2>1
<1>7. last \in Block
  <2>1. n > 1 => n - 1 \in 1..n
    BY <1>4
  <2>2. QED
    BY <1>4, <1>6, <2>1
<1>0. n = Len(q)
  BY DEF n, q
<1>8. p \in Seq(Nat) /\ Len(p) = n - 1 /\ \A m \in 1..(n - 1) : p[m] = q[m]
  BY <1>0, <1>4, AllButLast
<1> HIDE DEF p, last
<1>9. b \in [0..(o.count - 1) -> Block]
  BY <1>4, <1>7
<1> HIDE DEF b
<1>10. PoolTypes(o') /\ o'.a = b /\ o'.count = o.count
  BY <1>4, <1>5, <1>9, WithArrayTypes, WithArrayIs
<1>11. CallTypes'
  BY <1>1, <1>2, <1>5, <1>8, <1>10 DEF CallTypes, Phases
<1>12. CASE n > 1
  <2>1. Unwound(b, p, t) = Unwound(f, q, t)
    <3>1. \A m \in 1..Len(q) : q[m] \in DOMAIN f
      BY <1>4, <1>6 DEF n, q
    <3>2. Len(q) > 1 /\ Rising(q) /\ q \in Seq(Nat)
      BY <1>3, <1>4, <1>12 DEF n, q
    <3>3. Unwound([f EXCEPT ![q[Len(q)]] = f[q[Len(q) - 1]]], SubSeq(q, 1, Len(q) - 1), t)
            = Unwound(f, q, t)
      BY <3>1, <3>2, UnwindingOne
    <3>4. QED
      BY <3>3, <1>12 DEF b, p, n, q, last
  <2>2. WithArray(o', Unwound(b, p, t)) = WithArray(o, Unwound(f, q, t))
    BY <1>4, <1>5, <2>1, WithArrayTwice
  <2>3. ComesTo(Fields', WithArray(o', Unwound(o'.a, froms', call'.tmp)), call'.size, call'.mem)
    BY <1>2, <1>3, <1>5, <1>10, <2>2 DEF t
  <2>4. Len(p) > 0 /\ \A m \in 1..Len(p) : m \in 1..n /\ p[m] = q[m]
    BY <1>4, <1>8, <1>12
  <2>5. \A m \in 1..Len(p) : p[m] < o.count
    BY <1>3, <2>4
  <2>6. Rising(p)
    <3>1. \A l, m \in 1..n : l < m => q[l] < q[m]
      BY <1>0, <1>3 DEF Rising
    <3>2. QED
      BY <2>4, <3>1 DEF Rising
  <2>7. AtCopied'
    BY <1>5, <1>10, <2>3, <2>4, <2>5, <2>6 DEF AtCopied
  <2>8. PhaseInv'
    BY <1>1, <1>2, <1>5, <1>12, <2>7 DEF PhaseInv
  <2>9. QED
    BY <1>11, <2>8 DEF CallInv
<1>13. CASE ~(n > 1)
  <2>1. n = 1 /\ Len(q) = 1
    BY <1>0, <1>4, <1>13
  <2>2. Unwound(f, q, t) = b
    <3>1. f = [k \in DOMAIN f |-> f[k]]
      BY <1>4
    <3>2. Unwound(f, q, t) = [f EXCEPT ![q[1]] = t]
      BY <1>4, <2>1, <3>1, UnwindingLast
    <3>3. QED
      BY <2>1, <3>2 DEF b, last
  <2>3. AtReturn'
    BY <1>2, <1>3, <1>5, <2>2 DEF AtReturn
  <2>4. p = <<>>
    BY <1>8, <2>1
  <2>5. PhaseInv'
    BY <1>1, <1>2, <1>5, <1>13, <2>3, <2>4 DEF PhaseInv
  <2>6. QED
    BY <1>11, <2>5 DEF CallInv
<1>14. QED
  BY <1>12, <1>13

\* What callers see when the call returns is one step of MemPool, or nothing
\* when it has failed without growing the array.
LEMMA ReturnSteps ==
  ASSUME IInv, CallInv, Return
  PROVE  [Next]_vars
<1> DEFINE size == call.size
<1>1. /\ pc = "return" /\ CallTypes /\ AtReturn /\ Len(regions) < MaxAllocs
      /\ a' = o.a /\ count' = o.count /\ first_i' = o.first_i
      /\ alloc_len' = o.alloc_len /\ block_size' = o.block_size
      /\ skip_size' = o.skip_size /\ heap' = o.heap
      /\ regions' = regions \o call.mem
  BY DEF Return, CallInv, PhaseInv
<1>2. PICK request \in AllocSizes : size = ALIGN_SIZE(request)
  BY <1>1 DEF CallInv, PhaseInv
<1>3. /\ count \in Nat /\ first_i \in 0..count /\ a \in [0..(count - 1) -> Block]
      /\ regions \in Seq(Region) /\ heap \in Seq(Nat) /\ size \in Nat
  BY <1>1, SizeIsNatural DEF IInv, TypeOK
<1>4. NoneFit(Fields, size) <=>
        ~ (UsesOldBlock(size) /\ FirstSmallest(a, count, first_i, size) < count)
  BY FieldsAre DEF NoneFit, Fitting, UsesOldBlock
<1>5. \A r : regions \o <<r>> = Append(regions, r)
  BY <1>3
<1> HIDE DEF size
<1>6. CASE TakesFrom(Fields, o, size, call.mem)
  <2> DEFINE i == Fitting(Fields, size)
             b == [a EXCEPT ![i].free = @ - size]
             less == Less(Fields, i, size)
  <2>1. /\ ~ NoneFit(Fields, size) /\ o = Resorted(less, i)
        /\ call.mem = <<[mem |-> a[i].mem, off |-> a[i].free - size, len |-> size]>>
    BY <1>6, FieldsAre DEF TakesFrom
  <2>2. i = FirstSmallest(a, count, first_i, size)
    BY FieldsAre DEF Fitting
  <2>3. less = WithArray(Fields, b)
    BY FieldsAre DEF Less
  <2>4. i < count /\ i \in 0..(count - 1) /\ UsesOldBlock(size)
    <3>1. i < count /\ UsesOldBlock(size)
      BY <1>4, <2>1, <2>2
    <3>2. count \in Nat \ {0}
      BY <1>3, <3>1 DEF UsesOldBlock
    <3> DEFINE k == FirstSmallest(a, count, first_i, size)
    <3>3. k \in 0..count
      BY <1>3, <3>2, FirstSmallestFits
    <3> HIDE DEF k, i
    <3>4. QED
      BY <1>3, <2>2, <3>1, <3>3 DEF k
  <2> HIDE DEF i
  <2>5. b[i].free = a[i].free - size
    BY <1>3, <2>4
  <2> HIDE DEF b, less
  <2>6. less.a = b /\ less.count = count /\ less.first_i = first_i /\ IsPool(less)
    BY <2>3, FieldsAre, WithArrayIs
  <2>7. o = WithArray(Fields, Resort(b, count, first_i, i))
    BY <2>1, <2>3, <2>6, FieldsAre, WithArrayTwice DEF Resorted
  <2>8. /\ o.a = Resort(b, count, first_i, i) /\ o.count = count /\ o.first_i = first_i
        /\ o.alloc_len = alloc_len /\ o.block_size = block_size
        /\ o.skip_size = skip_size /\ o.heap = heap
    BY <2>7, FieldsAre, WithArrayIs
  <2>9. regions' = Append(regions, [mem |-> a[i].mem, off |-> b[i].free, len |-> size])
    BY <1>1, <1>5, <2>1, <2>5
  <2>10. AllocInBlock(request)
    BY <1>1, <1>2, <2>2, <2>4, <2>8, <2>9, Zenon DEF AllocInBlock, b
  <2>11. QED
    BY <1>2, <2>10 DEF Next
<1>7. CASE AddsTo(Fields, o, size, call.mem)
  <2> DEFINE room == Roomier(Fields)
             new == Added(room, size)
             full == FullSize(room, size)
             b == [k \in 0..count |-> IF k < count THEN a[k]
                                      ELSE [free |-> full - size, mem |-> count]]
             first == FirstUnskipped(b, count + 1, first_i, room.skip_size)
  <2>1. /\ NoneFit(Fields, size) /\ o = Resorted(Skipped(new), count)
        /\ call.mem = <<[mem |-> count, off |-> full - size, len |-> size]>>
    BY <1>7, FieldsAre DEF AddsTo
  <2>2. IsPool(room) /\ room.a = a /\ room.count = count
        /\ room.first_i = first_i /\ room.heap = heap
    BY FieldsAre, RoomierIs, GrownIs DEF Roomier
  <2>3. /\ new = [room EXCEPT !.count = count + 1, !.heap = Append(heap, full), !.a = b]
    BY <2>2 DEF Added
  <2> HIDE DEF room, full, b, new
  <2>4. /\ IsPool(new) /\ new.a = b /\ new.count = count + 1 /\ new.heap = Append(heap, full)
        /\ new.first_i = first_i /\ new.skip_size = room.skip_size
        /\ new.alloc_len = room.alloc_len /\ new.block_size = room.block_size
    BY <2>2, <2>3 DEF IsPool, PoolFields
  <2> DEFINE skipped == Skipped(new)
  <2>5. skipped = [new EXCEPT !.first_i = first]
    BY <2>4 DEF Skipped
  <2> HIDE DEF first, skipped
  <2>6. /\ IsPool(skipped) /\ skipped.a = b /\ skipped.count = count + 1
        /\ skipped.heap = Append(heap, full) /\ skipped.first_i = first
        /\ skipped.skip_size = room.skip_size
        /\ skipped.alloc_len = room.alloc_len /\ skipped.block_size = room.block_size
    BY <2>4, <2>5 DEF IsPool, PoolFields
  <2>7. o = WithArray(skipped, Resort(b, count + 1, first, count))
    BY <2>1, <2>6 DEF Resorted, skipped
  <2>8. /\ o.a = Resort(b, count + 1, first, count) /\ o.count = count + 1
        /\ o.heap = Append(heap, full) /\ o.first_i = first
        /\ o.skip_size = room.skip_size
        /\ o.alloc_len = room.alloc_len /\ o.block_size = room.block_size
    BY <2>6, <2>7, WithArrayIs
  <2>9. MakeRoom
    <3>1. CASE count = alloc_len
      <4>1. room = Grown(Fields)
        BY <3>1, FieldsAre DEF room, Roomier
      <4>2. QED
        BY <1>1, <2>8, <3>1, <4>1, FieldsAre, GrownIs DEF MakeRoom, Upsize, GrownSkipSize
    <3>2. CASE count # alloc_len
      <4>1. room = Fields
        BY <3>2, FieldsAre DEF room, Roomier
      <4>2. QED
        BY <1>1, <2>8, <3>2, <4>1, FieldsAre DEF MakeRoom
    <3>3. QED
      BY <3>1, <3>2
  <2>10. full = IF block_size' < size THEN size ELSE block_size'
    BY <1>1, <2>8 DEF full, FullSize
  <2>11. regions' = Append(regions, [mem |-> count, off |-> full - size, len |-> size])
    BY <1>1, <1>5, <2>1
  <2>12. /\ count' = count + 1 /\ heap' = Append(heap, full)
         /\ first_i' = FirstUnskipped(b, count + 1, first_i, skip_size')
         /\ a' = Resort(b, count + 1, first_i', count)
    BY <1>1, <2>8 DEF first
  <2>13. AllocNewBlock(request)
    BY <1>1, <1>2, <1>4, <2>1, <2>9, <2>10, <2>11, <2>12, Zenon DEF AllocNewBlock, b
  <2>14. QED
    BY <1>2, <2>13 DEF Next
<1>8. CASE call.mem = <<>>
  <2>1. regions' = regions
    BY <1>1, <1>3, <1>8
  <2>2. CASE o = Fields
    BY <1>1, <2>1, <2>2, FieldsAre DEF vars
  <2>3. CASE NoneFit(Fields, size) /\ o = Roomier(Fields) /\ count = alloc_len
    <3>1. o = Grown(Fields)
      BY <2>3, FieldsAre DEF Roomier
    <3>2. /\ Upsize /\ UNCHANGED <<a, count, first_i, heap>>
      BY <1>1, <3>1, FieldsAre, GrownIs DEF Upsize, GrownSkipSize
    <3>3. AllocFails(request)
      BY <1>1, <1>2, <1>4, <2>1, <2>3, <3>2 DEF AllocFails
    <3>4. QED
      BY <1>2, <3>3 DEF Next
  <2>4. CASE o = Roomier(Fields) /\ count # alloc_len
    <3>1. o = Fields
      BY <2>4, FieldsAre DEF Roomier
    <3>2. QED
      BY <2>2, <3>1
  <2>5. CASE ComesTo(Fields, o, size, call.mem)
    BY <1>6, <1>7, <2>5 DEF ComesTo
  <2>6. QED
    BY <1>1, <2>2, <2>3, <2>4, <2>5 DEF AtReturn, size
<1>9. QED
  BY <1>1, <1>6, <1>7, <1>8 DEF AtReturn, ComesTo, size

LEMMA ReturnKeeps ==
  ASSUME CallInv, Return
  PROVE  CallInv'
<1>1. /\ pc = "return" /\ CallTypes /\ froms = <<>>
      /\ a' = o.a /\ count' = o.count /\ first_i' = o.first_i
      /\ alloc_len' = o.alloc_len /\ block_size' = o.block_size
      /\ skip_size' = o.skip_size /\ heap' = o.heap
      /\ pc' = "idle" /\ call' = NoCall /\ search' = NoSearch /\ UNCHANGED <<o, froms>>
  BY DEF Return, CallInv, PhaseInv
<1>2. /\ search' \in SearchTypes /\ search'.done
  BY <1>1 DEF NoSearch, SearchTypes
<1>3. /\ call' \in [size : Nat, i : Nat, mem : Seq(Region), tmp : Block] /\ call'.mem = <<>>
  BY <1>1 DEF NoCall, Block
<1>4. CallTypes'
  BY <1>1, <1>2, <1>3 DEF CallTypes, Phases
<1>5. o' = Fields'
  <2>1. IsPool(o)
    BY <1>1 DEF CallTypes, PoolTypes
  <2>2. Fields' = [a |-> o.a, count |-> o.count, first_i |-> o.first_i,
                   alloc_len |-> o.alloc_len, block_size |-> o.block_size,
                   skip_size |-> o.skip_size, heap |-> o.heap]
    BY <1>1 DEF Fields
  <2>3. o = [a |-> o.a, count |-> o.count, first_i |-> o.first_i,
             alloc_len |-> o.alloc_len, block_size |-> o.block_size,
             skip_size |-> o.skip_size, heap |-> o.heap]
    BY <2>1 DEF IsPool, PoolFields
  <2>4. QED
    BY <1>1, <2>2, <2>3
<1>6. PhaseInv'
  BY <1>1, <1>2, <1>3, <1>5 DEF PhaseInv
<1>7. QED
  BY <1>4, <1>6 DEF CallInv

-----------------------------------------------------------------------------
(***************************************************************************)
(* The calls together.                                                     *)
(***************************************************************************)

LEMMA StepKeeps ==
  ASSUME IInv, CallInv, Step
  PROVE  CallInv' /\ [Next]_vars
<1>1. CASE Loop
  BY <1>1, LoopKeeps DEF Loop, pool, vars
<1>2. CASE Cut
  BY <1>2, CutKeeps DEF Cut, pool, vars
<1>3. CASE ExtendArray
  BY <1>3, ExtendArrayKeeps DEF ExtendArray, pool, vars
<1>4. CASE Add
  BY <1>4, AddKeeps DEF Add, pool, vars
<1>5. CASE Skip
  BY <1>5, SkipKeeps DEF Skip, pool, vars
<1>6. CASE Sort
  BY <1>6, SortKeeps DEF Sort, pool, vars
<1>7. CASE Place
  BY <1>7, PlaceKeeps DEF Place, pool, vars
<1>8. CASE CopyUp
  BY <1>8, CopyUpKeeps DEF CopyUp, pool, vars
<1>9. CASE Recurse
  BY <1>9, RecurseKeeps DEF Recurse, pool, vars
<1>10. CASE CopiedUp
  BY <1>10, CopiedUpKeeps DEF CopiedUp, pool, vars
<1>11. CASE Return
  BY <1>11, ReturnKeeps, ReturnSteps
<1>12. QED
  BY <1>1, <1>2, <1>3, <1>4, <1>5, <1>6, <1>7, <1>8, <1>9, <1>10, <1>11 DEF Step

LEMMA NoStepKeeps ==
  ASSUME CallInv, UNCHANGED callVars
  PROVE  CallInv'
<1>1. /\ UNCHANGED <<a, count, first_i, alloc_len, block_size, skip_size, heap, regions>>
      /\ UNCHANGED <<o, call, search, froms, pc>> /\ Fields' = Fields /\ Unfudged' = Unfudged
  BY DEF callVars, pool, Fields, Unfudged
<1>2. CallTypes'
  BY <1>1 DEF CallInv, CallTypes
<1>3. PhaseInv'
  BY <1>1 DEF CallInv, PhaseInv, AtFit, AtSkip, AtSort, AtPlace, AtCopy, AtHigher, AtCopied,
              AtReturn, Bisecting
<1>4. QED
  BY <1>2, <1>3 DEF CallInv

\* Who calls the pool asks for sizes that are asked for.
Asking ==
  /\ user \in Users /\ DOMAIN get = {"key", "item", "hash", "regions"}
  /\ at # "idle" => get.key \in Keys

LEMMA InitCalls == SymInit => IInv /\ CallInv /\ Asking
<1> SUFFICES ASSUME SymInit PROVE IInv /\ CallInv /\ Asking
  OBVIOUS
<1>1. Init /\ IInv /\ Asking
  BY InitIInv DEF SymInit, CallInit, Asking, NoGet
<1>2. o = Fields /\ call = NoCall /\ search = NoSearch /\ froms = <<>> /\ pc = "idle"
  BY DEF SymInit, CallInit
<1>3. search \in SearchTypes /\ search.done
  BY <1>2 DEF NoSearch, SearchTypes
<1>4. call \in [size : Nat, i : Nat, mem : Seq(Region), tmp : Block] /\ call.mem = <<>>
  BY <1>2 DEF NoCall, Block
<1>5. PoolTypes(o)
  BY <1>1, <1>2, FieldsAre DEF IInv, TypeOK, PoolTypes
<1>6. CallTypes
  BY <1>2, <1>3, <1>4, <1>5 DEF CallTypes, Phases
<1>7. PhaseInv
  BY <1>2, <1>3, <1>4 DEF PhaseInv
<1>8. QED
  BY <1>1, <1>6, <1>7 DEF CallInv

LEMMA NextCalls ==
  ASSUME IInv, CallInv, Asking, [SymNext]_symVars
  PROVE  IInv' /\ CallInv' /\ Asking' /\ [Next]_vars
<1>1. CASE PoolStep
  <2>1. Step /\ UNCHANGED <<user, at, get>>
    BY <1>1 DEF PoolStep, table
  <2>2. CallInv' /\ [Next]_vars
    BY <2>1, StepKeeps
  <2>3. QED
    BY <2>1, <2>2, NextPreservesIInv DEF Asking
<1>2. ASSUME NEW request \in AllocSizes, Alloc(request), Asking'
      PROVE  IInv' /\ CallInv' /\ Asking' /\ [Next]_vars
  <2>1. CallInv' /\ UNCHANGED vars
    BY <1>2, AllocKeeps DEF Alloc, pool, vars
  <2>2. QED
    BY <1>2, <2>1, NextPreservesIInv
<1>3. CASE UNCHANGED callVars /\ Asking'
  <2>1. CallInv' /\ UNCHANGED vars
    BY <1>3, NoStepKeeps DEF callVars, pool, vars
  <2>2. QED
    BY <1>3, <2>1, NextPreservesIInv
<1>4. ASSUME NEW key \in user.keys, Ask(key)
      PROVE  UNCHANGED callVars /\ Asking'
  <2>1. key \in Keys
    BY SymTabAssumption DEF Asking
  <2>2. QED
    BY <1>4, <2>1 DEF Ask, Asking, NoGet
<1>5. ASSUME NEW request \in user.sizes, OtherAlloc(request)
      PROVE  request \in AllocSizes /\ Alloc(request) /\ Asking'
  BY <1>5, SymTabAssumption DEF OtherAlloc, Asking, table
<1>6. CASE AllocItem
  <2>1. get.key \in Keys /\ KeySize[get.key] \in AllocSizes
    BY <1>6, SymTabAssumption DEF AllocItem, Asking
  <2>2. Asking'
    BY <1>6 DEF AllocItem, Asking
  <2>3. QED
    BY <1>2, <1>6, <2>1, <2>2 DEF AllocItem
<1>7. CASE Upsized \/ RehashItem \/ RehashBucket \/ Hash \/ Find \/ Insert
  <2>1. UNCHANGED callVars
    BY <1>7 DEF Upsized, RehashItem, RehashBucket, Hash, Find, Insert
  <2>2. Asking'
    <3>1. CASE Upsized \/ RehashItem \/ RehashBucket
      BY <3>1 DEF Upsized, RehashItem, RehashBucket, Answer, Asking, NoGet
    <3>2. CASE Hash \/ Find \/ Insert
      BY <3>2 DEF Hash, Find, Insert, Answer, Asking, NoGet
    <3>3. QED
      BY <1>7, <3>1, <3>2
  <2>3. QED
    BY <1>3, <2>1, <2>2
<1>8. CASE UNCHANGED symVars
  BY <1>3, <1>8 DEF symVars, table, Asking
<1>9. QED
  BY <1>1, <1>2, <1>3, <1>4, <1>5, <1>6, <1>7, <1>8 DEF SymNext, TableStep

LEMMA CallsHold == SymSpec => [](IInv /\ CallInv /\ Asking)
<1>1. IInv /\ CallInv /\ Asking /\ [SymNext]_symVars => (IInv /\ CallInv /\ Asking)'
  BY NextCalls
<1>2. QED
  BY <1>1, InitCalls, PTL DEF SymSpec

-----------------------------------------------------------------------------
(***************************************************************************)
(* The invariant of the symbol table.                                      *)
(***************************************************************************)

\* The bucket of an item of n in a table of len.
Bucket(n, x, len) == StrTab_hash_key(n[x].key, len)

\* The items in S are, each once, in the chains from heads of a table of len:
\* place orders those of a bucket as they are in its chain, the last first.
Chains(S, n, len, heads, place) ==
  /\ DOMAIN heads = 0..(len - 1)
  /\ \A h \in 0..(len - 1) : heads[h] # Null => heads[h] \in S /\ Bucket(n, heads[h], len) = h
  /\ \A x \in S : /\ n[x].key \in Keys /\ Bucket(n, x, len) \in 0..(len - 1)
                  /\ heads[Bucket(n, x, len)] # Null
                  /\ place[x] <= place[heads[Bucket(n, x, len)]]
  /\ \A x \in S : n[x].prev # Null => /\ n[x].prev \in S
                                      /\ Bucket(n, n[x].prev, len) = Bucket(n, x, len)
                                      /\ place[n[x].prev] < place[x]
  /\ \A x, y \in S : Bucket(n, x, len) = Bucket(n, y, len) =>
                       /\ place[x] = place[y] => x = y
                       /\ place[y] < place[x] => n[x].prev # Null /\ place[y] <= place[n[x].prev]

\* What is left of the old chains while the table is rehashed.
OldHeads ==
  [h \in DOMAIN rehash.old |-> IF h < rehash.i THEN Null
                               ELSE IF h = rehash.i THEN rehash.item ELSE rehash.old[h]]

\* No item with the key is before the one that the search is at, or behind its
\* end.
Searching(place) ==
  /\ get.hash = StrTab_hash_key(get.key, tab.alloc)
  /\ get.item # Null => get.item \in DOMAIN node /\ Bucket(node, get.item, tab.alloc) = get.hash
  /\ \A x \in DOMAIN node :
       node[x].key = get.key => get.item # Null /\ place[x] <= place[get.item]

TableTypes ==
  /\ DOMAIN tab = {"items", "count", "alloc"} /\ tab.count \in Nat /\ tab.alloc \in Nat
  /\ tab.alloc = 0 => tab.count = 0 /\ DOMAIN node = {}
  /\ at \in {"rehash", "hash", "find", "alloc"} => tab.alloc > 0
  /\ \A x \in DOMAIN node : node[x] \in [key : Keys, prev : Nat]
  /\ Len(regions) <= MaxAllocs /\ DOMAIN node \subseteq 1..Len(regions)

\* The items that were given are those in the table.
HeldInTable ==
  /\ \A x \in DOMAIN node : node[x].key \in DOMAIN held /\ held[node[x].key] = x
  /\ \A k \in DOMAIN held : held[k] \in DOMAIN node /\ node[held[k]].key = k

Chained ==
  at # "rehash" =>
    \E place \in [DOMAIN node -> Nat] :
      /\ Chains(DOMAIN node, node, tab.alloc, tab.items, place)
      /\ at = "find" => Searching(place)

\* While it is rehashed, some items are still in the old chains.
Rehashing ==
  at = "rehash" =>
    /\ DOMAIN rehash = {"old", "i", "item"} /\ rehash.i \in Nat
    /\ rehash.item # Null => rehash.i \in DOMAIN rehash.old
    /\ \E place \in [DOMAIN node -> Nat], pending \in SUBSET DOMAIN node, len \in Nat :
         /\ Chains(pending, node, len, OldHeads, place)
         /\ Chains(DOMAIN node \ pending, node, tab.alloc, tab.items, place)

Adding ==
  at = "alloc" => /\ get.key \notin DOMAIN held
                  /\ get.hash = StrTab_hash_key(get.key, tab.alloc)
                  /\ get.regions \in Nat /\ DOMAIN node \subseteq 1..get.regions

TableInv == TableTypes /\ HeldInTable /\ Chained /\ Rehashing /\ Adding

\* A key has a bucket.
LEMMA HashInTable ==
  ASSUME NEW key \in Keys, NEW len \in Nat, len > 0
  PROVE  StrTab_hash_key(key, len) \in 0..(len - 1)
<1>1. KeyHash[key] \in Nat
  BY SymTabAssumption
<1>2. (KeyHash[key] % len) \in 0..(len - 1)
  BY <1>1
<1>3. QED
  BY <1>2 DEF StrTab_hash_key

\* Item x is put in front of the chain of its bucket h.
Links(S, n, n2, len, heads, place, place2, x, h) ==
  /\ len \in Nat /\ len > 0 /\ x \notin S /\ x # Null
  /\ Chains(S, n, len, heads, place)
  /\ \A y \in S : place[y] \in Nat /\ n2[y] = n[y] /\ place2[y] = place[y]
  /\ n2[x].key \in Keys /\ h = Bucket(n2, x, len) /\ n2[x].prev = heads[h]
  /\ place2[x] = IF heads[h] = Null THEN 0 ELSE place[heads[h]] + 1

\* It is in the chains then.
LEMMA Linking ==
  ASSUME NEW S, NEW n, NEW n2, NEW len, NEW heads, NEW place, NEW place2, NEW x, NEW h,
         Links(S, n, n2, len, heads, place, place2, x, h)
  PROVE  Chains(S \cup {x}, n2, len, [heads EXCEPT ![h] = x], place2)
<1> USE DEF Links
<1> DEFINE T == S \cup {x}
           heads2 == [heads EXCEPT ![h] = x]
           B(y) == Bucket(n2, y, len)
<1>1. h \in 0..(len - 1)
  BY HashInTable DEF Bucket
<1>2. \A y \in S : Bucket(n2, y, len) = Bucket(n, y, len)
  BY DEF Bucket
<1>3. /\ DOMAIN heads = 0..(len - 1)
      /\ \A g \in 0..(len - 1) : heads[g] # Null => heads[g] \in S /\ B(heads[g]) = g
      /\ \A y \in S : /\ n2[y].key \in Keys /\ B(y) \in 0..(len - 1) /\ heads[B(y)] # Null
                      /\ place2[y] <= place2[heads[B(y)]]
      /\ \A y \in S : n2[y].prev # Null => /\ n2[y].prev \in S
                                           /\ B(n2[y].prev) = B(y)
                                           /\ place2[n2[y].prev] < place2[y]
      /\ \A y, z \in S : B(y) = B(z) =>
                       /\ place2[y] = place2[z] => y = z
                       /\ place2[z] < place2[y] => n2[y].prev # Null /\ place2[z] <= place2[n2[y].prev]
  <2>1. /\ DOMAIN heads = 0..(len - 1)
        /\ \A g \in 0..(len - 1) : heads[g] # Null => heads[g] \in S /\ B(heads[g]) = g
    BY <1>2 DEF Chains
  <2>2. ASSUME NEW y \in S
        PROVE  /\ n2[y].key \in Keys /\ B(y) \in 0..(len - 1) /\ heads[B(y)] # Null
               /\ place2[y] <= place2[heads[B(y)]]
    <3>1. /\ n[y].key \in Keys /\ Bucket(n, y, len) \in 0..(len - 1)
          /\ heads[Bucket(n, y, len)] # Null /\ place[y] <= place[heads[Bucket(n, y, len)]]
      BY DEF Chains
    <3>2. n2[y] = n[y] /\ B(y) = Bucket(n, y, len)
      BY <1>2
    <3>3. heads[B(y)] \in S
      BY <2>1, <3>1, <3>2
    <3>4. QED
      BY <3>1, <3>2, <3>3
  <2>3. ASSUME NEW y \in S, n2[y].prev # Null
        PROVE  /\ n2[y].prev \in S /\ B(n2[y].prev) = B(y) /\ place2[n2[y].prev] < place2[y]
    <3>1. /\ n[y].prev \in S /\ Bucket(n, n[y].prev, len) = Bucket(n, y, len)
          /\ place[n[y].prev] < place[y]
      BY <2>3 DEF Chains
    <3>2. QED
      BY <1>2, <3>1
  <2>4. ASSUME NEW y \in S, NEW z \in S, B(y) = B(z)
        PROVE  /\ place2[y] = place2[z] => y = z
               /\ place2[z] < place2[y] => n2[y].prev # Null /\ place2[z] <= place2[n2[y].prev]
    <3>1. /\ place[y] = place[z] => y = z
          /\ place[z] < place[y] => n[y].prev # Null /\ place[z] <= place[n[y].prev]
      BY <1>2, <2>4 DEF Chains
    <3>2. n[y].prev # Null => n[y].prev \in S
      BY DEF Chains
    <3>3. n2[y] = n[y] /\ place2[y] = place[y] /\ place2[z] = place[z]
      OBVIOUS
    <3>4. n[y].prev # Null => place2[n[y].prev] = place[n[y].prev]
      BY <3>2
    <3>5. QED
      BY <3>1, <3>3, <3>4
  <2>5. QED
    BY <2>1, <2>2, <2>3, <2>4
<1>4. \A y \in S : place2[y] \in Nat
  OBVIOUS
<1>5. /\ place2[x] \in Nat
      /\ heads[h] # Null => heads[h] \in S /\ place2[x] = place2[heads[h]] + 1
  BY <1>1, <1>3
<1>6. heads2[h] = x /\ DOMAIN heads2 = 0..(len - 1) /\ \A g \in 0..(len - 1) : g # h => heads2[g] = heads[g]
  BY <1>1, <1>3
<1>7. B(x) = h
  OBVIOUS
<1> HIDE DEF heads2, B
<1>8. \A g \in 0..(len - 1) : heads2[g] # Null => heads2[g] \in T /\ B(heads2[g]) = g
  BY <1>3, <1>6, <1>7
<1>9. ASSUME NEW y \in S, B(y) = h
      PROVE  heads[h] # Null /\ place2[y] < place2[x]
  BY <1>3, <1>4, <1>5, <1>9
<1>10. ASSUME NEW y \in T
       PROVE  /\ n2[y].key \in Keys /\ B(y) \in 0..(len - 1)
              /\ heads2[B(y)] # Null /\ place2[y] <= place2[heads2[B(y)]]
  <2>1. CASE y = x
    BY <2>1, <1>1, <1>5, <1>6, <1>7
  <2>2. CASE y \in S /\ B(y) = h
    BY <2>2, <1>1, <1>3, <1>4, <1>5, <1>6, <1>9
  <2>3. CASE y \in S /\ B(y) # h
    BY <2>3, <1>3, <1>6
  <2>4. QED
    BY <2>1, <2>2, <2>3
<1>11. ASSUME NEW y \in T, n2[y].prev # Null
       PROVE  n2[y].prev \in T /\ B(n2[y].prev) = B(y) /\ place2[n2[y].prev] < place2[y]
  <2>1. CASE y = x
    BY <2>1, <1>1, <1>3, <1>4, <1>5, <1>7, <1>11
  <2>2. CASE y \in S
    BY <2>2, <1>3, <1>11
  <2>3. QED
    BY <2>1, <2>2
<1>12. ASSUME NEW y \in T, NEW z \in T, B(y) = B(z)
       PROVE  /\ place2[y] = place2[z] => y = z
              /\ place2[z] < place2[y] => n2[y].prev # Null /\ place2[z] <= place2[n2[y].prev]
  <2>1. CASE y = x /\ z = x
    BY <2>1, <1>5
  <2>2. CASE y = x /\ z \in S
    <3>1. heads[h] # Null /\ place2[z] < place2[x] /\ B(z) = h
      BY <2>2, <1>7, <1>9, <1>12
    <3>2. place2[z] <= place2[heads[h]]
      BY <2>2, <3>1, <1>3
    <3>3. QED
      BY <2>2, <3>1, <3>2, <1>4, <1>5
  <2>3. CASE y \in S /\ z = x
    <3>1. place2[y] < place2[x]
      BY <2>3, <1>7, <1>9, <1>12
    <3>2. QED
      BY <2>3, <3>1, <1>4, <1>5
  <2>4. CASE y \in S /\ z \in S
    BY <2>4, <1>3, <1>12
  <2>5. QED
    BY <2>1, <2>2, <2>3, <2>4
<1>13. QED
  BY <1>6, <1>8, <1>10, <1>11, <1>12 DEF Chains, B, heads2

\* The first item that is taken out of a chain leaves the rest in it.
LEMMA Unlinking ==
  ASSUME NEW S, NEW n, NEW n2, NEW len \in Nat, NEW heads, NEW place, NEW place2, NEW x, NEW h,
         Chains(S, n, len, heads, place), h \in 0..(len - 1), heads[h] = x, x # Null,
         \A y \in S : place[y] \in Nat,
         \A y \in S \ {x} : n2[y] = n[y] /\ place2[y] = place[y]
  PROVE  Chains(S \ {x}, n2, len, [heads EXCEPT ![h] = n[x].prev], place2)
<1> DEFINE T == S \ {x}
           heads2 == [heads EXCEPT ![h] = n[x].prev]
           B(y) == Bucket(n, y, len)
<1>1. \A y \in T : Bucket(n2, y, len) = B(y)
  BY DEF Bucket
<1>2. x \in S /\ B(x) = h
  BY DEF Chains
<1>3. DOMAIN heads2 = 0..(len - 1) /\ heads2[h] = n[x].prev
      /\ \A g \in 0..(len - 1) : g # h => heads2[g] = heads[g]
  BY DEF Chains
<1>4. n[x].prev # Null => n[x].prev \in T /\ B(n[x].prev) = h /\ place[n[x].prev] < place[x]
  BY <1>2 DEF Chains
<1>5. ASSUME NEW y \in T, B(y) = h
      PROVE  place[y] < place[x] /\ n[x].prev # Null /\ place[y] <= place[n[x].prev]
  <2>1. place[y] <= place[x]
    BY <1>5 DEF Chains
  <2>2. place[y] # place[x]
    BY <1>2, <1>5 DEF Chains
  <2>3. place[y] < place[x]
    BY <2>1, <2>2, <1>2
  <2>4. QED
    BY <2>3, <1>2, <1>5 DEF Chains
<1>6. ASSUME NEW y \in T, n[y].prev # Null
      PROVE  n[y].prev \in T /\ B(n[y].prev) = B(y) /\ place[n[y].prev] < place[y]
  <2>1. n[y].prev \in S /\ B(n[y].prev) = B(y) /\ place[n[y].prev] < place[y]
    BY <1>6 DEF Chains
  <2>2. CASE n[y].prev = x
    <3>1. place[y] < place[x]
      BY <2>1, <2>2, <1>2, <1>5
    <3>2. QED
      BY <2>1, <2>2, <3>1, <1>2
  <2>3. QED
    BY <2>1, <2>2
<1>7. \A g \in 0..(len - 1) : heads2[g] # Null => heads2[g] \in T /\ B(heads2[g]) = g
  <2>1. SUFFICES ASSUME NEW g \in 0..(len - 1), heads2[g] # Null
                 PROVE  heads2[g] \in T /\ B(heads2[g]) = g
    OBVIOUS
  <2>2. CASE g = h
    BY <2>1, <2>2, <1>3, <1>4
  <2>3. CASE g # h
    <3>1. heads[g] \in S /\ B(heads[g]) = g
      BY <2>1, <2>3, <1>3 DEF Chains
    <3>2. QED
      BY <3>1, <2>3, <1>2, <1>3
  <2>4. QED
    BY <2>2, <2>3
<1>8. ASSUME NEW y \in T
      PROVE  /\ n[y].key \in Keys /\ B(y) \in 0..(len - 1)
             /\ heads2[B(y)] # Null /\ place[y] <= place[heads2[B(y)]]
  <2>1. /\ n[y].key \in Keys /\ B(y) \in 0..(len - 1)
        /\ heads[B(y)] # Null /\ place[y] <= place[heads[B(y)]]
    BY DEF Chains
  <2>2. QED
    BY <2>1, <1>3, <1>5
<1>9. \A y, z \in T : B(y) = B(z) =>
        /\ place[y] = place[z] => y = z
        /\ place[z] < place[y] => n[y].prev # Null /\ place[z] <= place[n[y].prev]
  BY DEF Chains
<1> HIDE DEF B, heads2
<1>10. \A y \in T : n2[y] = n[y] /\ place2[y] = place[y]
  OBVIOUS
<1>11. \A y, z \in T : Bucket(n2, y, len) = Bucket(n2, z, len) =>
        /\ place2[y] = place2[z] => y = z
        /\ place2[z] < place2[y] => n2[y].prev # Null /\ place2[z] <= place2[n2[y].prev]
  <2>1. SUFFICES ASSUME NEW y \in T, NEW z \in T, Bucket(n2, y, len) = Bucket(n2, z, len)
                 PROVE  /\ place2[y] = place2[z] => y = z
                        /\ place2[z] < place2[y] => n2[y].prev # Null /\ place2[z] <= place2[n2[y].prev]
    OBVIOUS
  <2>2. B(y) = B(z)
    BY <2>1, <1>1
  <2>3. n[y].prev # Null => place2[n[y].prev] = place[n[y].prev]
    BY <1>6, <1>10
  <2>4. n2[y] = n[y] /\ place2[y] = place[y] /\ place2[z] = place[z]
    BY <1>10
  <2>5. QED
    BY <2>2, <2>3, <2>4, <1>9
<1>12. \A y \in T : n2[y].prev # Null => /\ n2[y].prev \in T
                                        /\ Bucket(n2, n2[y].prev, len) = Bucket(n2, y, len)
                                        /\ place2[n2[y].prev] < place2[y]
  BY <1>1, <1>6, <1>10
<1>13. \A y \in T : /\ n2[y].key \in Keys /\ Bucket(n2, y, len) \in 0..(len - 1)
                    /\ heads2[Bucket(n2, y, len)] # Null
                    /\ place2[y] <= place2[heads2[Bucket(n2, y, len)]]
  <2>1. SUFFICES ASSUME NEW y \in T
        PROVE  /\ n2[y].key \in Keys /\ Bucket(n2, y, len) \in 0..(len - 1)
               /\ heads2[Bucket(n2, y, len)] # Null
               /\ place2[y] <= place2[heads2[Bucket(n2, y, len)]]
    OBVIOUS
  <2>2. heads2[B(y)] \in T
    BY <1>7, <1>8
  <2>3. QED
    BY <2>2, <1>1, <1>8, <1>10
<1>14. \A g \in 0..(len - 1) : heads2[g] # Null =>
          heads2[g] \in T /\ Bucket(n2, heads2[g], len) = g
  BY <1>1, <1>7
<1>15. QED
  BY <1>3, <1>11, <1>12, <1>13, <1>14 DEF Chains, heads2

-----------------------------------------------------------------------------
\* A call of the pool adds a region at most.
LEMMA RegionsGrow ==
  ASSUME IInv, CallInv, Step, Len(regions) <= MaxAllocs
  PROVE  Len(regions) \in Nat /\ Len(regions') \in Len(regions)..MaxAllocs
<1>1. regions \in Seq(Region) /\ MaxAllocs \in Nat
  BY PoolAssumption DEF IInv, TypeOK
<1>2. CASE Return
  <2>1. Len(regions) < MaxAllocs
    BY <1>2 DEF CallInv, PhaseInv, Return
  <2>2. call.mem \in Seq(Region) /\ Len(call.mem) <= 1 /\ regions' = regions \o call.mem
    BY <1>2 DEF CallInv, CallTypes, Return
  <2>3. Len(regions') = Len(regions) + Len(call.mem)
    BY <1>1, <2>2
  <2>4. QED
    BY <1>1, <2>1, <2>2, <2>3
<1>3. CASE UNCHANGED regions
  BY <1>1, <1>3
<1>4. QED
  BY <1>2, <1>3 DEF Step, Loop, Cut, ExtendArray, Add, Skip, Sort, Place, CopyUp, Recurse,
                    CopiedUp, pool

\* What the pool does to itself leaves the table as it is.
LEMMA TableStays ==
  ASSUME TableInv, UNCHANGED table, Len(regions) \in Nat,
         Len(regions') \in Len(regions)..MaxAllocs, MaxAllocs \in Nat
  PROVE  TableInv'
<1>1. UNCHANGED <<tab, node, get, rehash, at, held>> /\ OldHeads' = OldHeads
  BY DEF table, OldHeads
<1>2. TableTypes'
  BY <1>1 DEF TableInv, TableTypes
<1>3. HeldInTable' /\ Adding'
  BY <1>1 DEF TableInv, HeldInTable, Adding
<1>4. Chained'
  BY <1>1 DEF TableInv, Chained, Searching
<1>5. Rehashing'
  BY <1>1 DEF TableInv, Rehashing
<1>6. QED
  BY <1>2, <1>3, <1>4, <1>5 DEF TableInv

LEMMA AskKeepsTable ==
  ASSUME TableInv, NEW key, Ask(key)
  PROVE  TableInv' /\ UNCHANGED <<held, answer>>
<1>1. /\ UNCHANGED <<tab, node, rehash, held, answer, regions>>
      /\ at = "idle" /\ at' = IF tab.count = tab.alloc \div 2 THEN "upsize" ELSE "hash"
  BY DEF Ask, callVars, pool
<1>2. at' = "hash" => tab.alloc > 0
  <2>1. tab.alloc \in Nat /\ (tab.alloc = 0 => tab.count = 0) /\ 0 \div 2 = 0
    BY DEF TableInv, TableTypes
  <2>2. QED
    BY <1>1, <2>1
<1>3. TableTypes'
  BY <1>1, <1>2 DEF TableInv, TableTypes
<1>4. HeldInTable' /\ Adding' /\ Rehashing'
  BY <1>1 DEF TableInv, HeldInTable, Adding, Rehashing
<1>5. Chained'
  BY <1>1 DEF TableInv, Chained
<1>6. QED
  BY <1>1, <1>3, <1>4, <1>5 DEF TableInv

LEMMA UpsizedKeepsTable ==
  ASSUME TableInv, Asking, Upsized
  PROVE  TableInv' /\ [Promise!InterningNext]_<<held, answer>>
<1> DEFINE len == IF tab.alloc > 0 THEN 2 * tab.alloc ELSE InitialLen
<1>1. UNCHANGED <<node, held, regions>> /\ at = "upsize" /\ get.key \in Keys
  BY DEF Upsized, callVars, pool, Asking
<1>2. /\ tab.alloc \in Nat /\ tab.count \in Nat /\ DOMAIN tab = {"items", "count", "alloc"}
      /\ tab.alloc = 0 => tab.count = 0 /\ DOMAIN node = {}
  BY DEF TableInv, TableTypes
<1>3. PICK place \in [DOMAIN node -> Nat] :
           Chains(DOMAIN node, node, tab.alloc, tab.items, place)
  BY <1>1 DEF TableInv, Chained
<1>4. CASE Answer(get.key, Null) /\ UNCHANGED <<tab, rehash>>
  <2>1. at' = "idle" /\ UNCHANGED <<tab, rehash>>
    BY <1>4 DEF Answer
  <2>2. TableTypes' /\ HeldInTable' /\ Adding' /\ Rehashing'
    BY <1>1, <2>1 DEF TableInv, TableTypes, HeldInTable, Adding, Rehashing
  <2>3. Chained'
    BY <1>1, <1>3, <2>1 DEF Chained
  <2>4. Promise!GiveNone(get.key)
    BY <1>1, <1>4 DEF Answer, Promise!GiveNone
  <2>5. QED
    BY <1>1, <2>2, <2>3, <2>4 DEF TableInv, Promise!InterningNext
<1>5. CASE /\ tab' = [tab EXCEPT !.alloc = len, !.items = [h \in 0..(len - 1) |-> Null]]
           /\ rehash' = [old |-> tab.items, i |-> 0,
                         item |-> IF tab.alloc > 0 THEN tab.items[0] ELSE Null]
           /\ at' = "rehash" /\ UNCHANGED <<get, answer>>
  <2>1. len \in Nat /\ len > 0
    BY <1>2, SymTabAssumption
  <2>2. tab'.alloc = len /\ tab'.items = [h \in 0..(len - 1) |-> Null]
        /\ tab'.count = tab.count /\ DOMAIN tab' = DOMAIN tab
    BY <1>2, <1>5
  <2>3. rehash'.old = tab.items /\ rehash'.i = 0 /\ DOMAIN rehash' = {"old", "i", "item"}
        /\ rehash'.item = IF tab.alloc > 0 THEN tab.items[0] ELSE Null
    BY <1>5
  <2> HIDE DEF len
  <2>4. TableTypes'
    BY <1>1, <1>2, <1>5, <2>1, <2>2 DEF TableInv, TableTypes
  <2>5. HeldInTable' /\ Adding' /\ Chained'
    BY <1>1, <1>5 DEF TableInv, HeldInTable, Adding, Chained
  <2>6. DOMAIN tab.items = 0..(tab.alloc - 1)
    BY <1>3 DEF Chains
  <2>7. DOMAIN OldHeads' = DOMAIN tab.items
        /\ \A h \in 0..(tab.alloc - 1) : OldHeads'[h] = tab.items[h]
    BY <1>2, <2>3, <2>6 DEF OldHeads
  <2>8. Chains(DOMAIN node, node, tab.alloc, OldHeads', place)
    <3>1. \A y \in DOMAIN node : Bucket(node, y, tab.alloc) \in 0..(tab.alloc - 1)
      BY <1>3 DEF Chains
    <3> DEFINE heads == OldHeads'
    <3>2. DOMAIN heads = DOMAIN tab.items /\ \A h \in 0..(tab.alloc - 1) : heads[h] = tab.items[h]
      BY <2>7
    <3> HIDE DEF heads
    <3>3. Chains(DOMAIN node, node, tab.alloc, heads, place)
      BY <1>3, <3>1, <3>2 DEF Chains
    <3>4. QED
      BY <3>3 DEF heads
  <2>9. Chains(DOMAIN node \ DOMAIN node, node, len, tab'.items, place)
    BY <2>2 DEF Chains
  <2>10. Rehashing'
    <3>1. rehash'.item # Null => rehash'.i \in DOMAIN rehash'.old
      BY <1>2, <2>3, <2>6
    <3>2. DOMAIN node \in SUBSET DOMAIN node' /\ place \in [DOMAIN node' -> Nat]
      BY <1>1
    <3>3. Chains(DOMAIN node, node', tab.alloc, OldHeads', place)
      BY <1>1, <2>8
    <3>4. Chains(DOMAIN node' \ DOMAIN node, node', tab'.alloc, tab'.items, place)
      BY <1>1, <2>2, <2>9
    <3>5. rehash'.i \in Nat /\ DOMAIN rehash' = {"old", "i", "item"}
      BY <2>3
    <3>6. QED
      BY <1>2, <3>1, <3>2, <3>3, <3>4, <3>5 DEF Rehashing
  <2>11. QED
    BY <1>1, <1>5, <2>4, <2>5, <2>10 DEF TableInv
<1>6. QED
  BY <1>4, <1>5 DEF Upsized

LEMMA RehashItemKeepsTable ==
  ASSUME TableInv, RehashItem
  PROVE  TableInv' /\ UNCHANGED <<held, answer>>
<1> DEFINE x == rehash.item
           hash == StrTab_hash_key(node[x].key, tab.alloc)
<1>1. /\ UNCHANGED <<held, answer, regions, at, get>> /\ at = "rehash" /\ x # Null
      /\ node' = [node EXCEPT ![x].prev = tab.items[hash]]
      /\ tab' = [tab EXCEPT !.items[hash] = x]
      /\ rehash' = [rehash EXCEPT !.item = node[x].prev]
  BY DEF RehashItem, callVars, pool
<1>2. /\ DOMAIN tab = {"items", "count", "alloc"} /\ tab.alloc \in Nat /\ tab.alloc > 0
      /\ \A y \in DOMAIN node : node[y] \in [key : Keys, prev : Nat]
      /\ DOMAIN node \subseteq Nat
  BY <1>1 DEF TableInv, TableTypes
<1>3. DOMAIN rehash = {"old", "i", "item"} /\ rehash.i \in Nat /\ rehash.i \in DOMAIN rehash.old
  BY <1>1 DEF TableInv, Rehashing
<1>4. PICK place \in [DOMAIN node -> Nat], pending \in SUBSET DOMAIN node, len \in Nat :
         /\ Chains(pending, node, len, OldHeads, place)
         /\ Chains(DOMAIN node \ pending, node, tab.alloc, tab.items, place)
  BY <1>1 DEF TableInv, Rehashing
<1>5. /\ DOMAIN OldHeads = DOMAIN rehash.old /\ DOMAIN rehash.old = 0..(len - 1)
      /\ OldHeads[rehash.i] = x
  BY <1>3, <1>4 DEF Chains, OldHeads
<1>6. x \in pending /\ x \in DOMAIN node
  BY <1>1, <1>3, <1>4, <1>5 DEF Chains
<1>7. hash \in 0..(tab.alloc - 1)
  BY <1>2, <1>6, HashInTable
<1>8. DOMAIN tab.items = 0..(tab.alloc - 1)
      /\ (tab.items[hash] # Null => tab.items[hash] \in DOMAIN node \ pending)
  BY <1>4, <1>7 DEF Chains
<1>9. tab'.items = [tab.items EXCEPT ![hash] = x] /\ tab'.alloc = tab.alloc
      /\ tab'.count = tab.count /\ DOMAIN tab' = DOMAIN tab
  BY <1>1, <1>2
<1>10. rehash'.item = node[x].prev /\ rehash'.old = rehash.old /\ rehash'.i = rehash.i
       /\ DOMAIN rehash' = DOMAIN rehash
  BY <1>1, <1>3
<1>11. /\ DOMAIN node' = DOMAIN node /\ \A y \in DOMAIN node \ {x} : node'[y] = node[y]
       /\ node'[x].key = node[x].key /\ node'[x].prev = tab.items[hash]
       /\ node'[x] \in [key : Keys, prev : Nat]
  <2>1. node[x] \in [key : Keys, prev : Nat] /\ tab.items[hash] \in Nat
    BY <1>2, <1>6, <1>8 DEF Null
  <2>2. QED
    BY <1>1, <1>6, <2>1
<1> DEFINE first == tab.items[hash]
           place2 == [place EXCEPT ![x] = IF first = Null THEN 0 ELSE place[first] + 1]
           done == DOMAIN node \ pending
<1>12. /\ place2 \in [DOMAIN node -> Nat] /\ \A y \in DOMAIN node \ {x} : place2[y] = place[y]
       /\ place2[x] = IF first = Null THEN 0 ELSE place[first] + 1
  BY <1>6, <1>8
<1>13. Bucket(node', x, tab.alloc) = hash
  BY <1>11 DEF Bucket
<1>14. OldHeads' = [OldHeads EXCEPT ![rehash.i] = node[x].prev]
  <2>1. \A h \in 0..(len - 1) : OldHeads[h] = IF h < rehash.i THEN Null
                               ELSE IF h = rehash.i THEN rehash.item ELSE rehash.old[h]
    BY <1>5 DEF OldHeads
  <2>2. OldHeads' = [h \in 0..(len - 1) |-> IF h < rehash.i THEN Null
                               ELSE IF h = rehash.i THEN node[x].prev ELSE rehash.old[h]]
    BY <1>5, <1>10 DEF OldHeads
  <2>3. OldHeads = [h \in 0..(len - 1) |-> OldHeads[h]]
    BY <1>5 DEF OldHeads
  <2> DEFINE heads == OldHeads
  <2> HIDE DEF heads
  <2>4. [heads EXCEPT ![rehash.i] = node[x].prev]
          = [h \in 0..(len - 1) |-> IF h = rehash.i THEN node[x].prev ELSE heads[h]]
    BY <1>5 DEF heads
  <2>5. \A h \in 0..(len - 1) :
          (IF h = rehash.i THEN node[x].prev ELSE heads[h])
          = IF h < rehash.i THEN Null ELSE IF h = rehash.i THEN node[x].prev ELSE rehash.old[h]
    BY <2>1, <1>3 DEF heads
  <2>6. QED
    BY <2>2, <2>4, <2>5 DEF heads
<1> HIDE DEF x, hash, place2, first
<1>15. \A y \in done : y # x /\ place[y] \in Nat /\ node'[y] = node[y] /\ place2[y] = place[y]
  BY <1>6, <1>11, <1>12
<1>16. Chains(done \cup {x}, node', tab.alloc, [tab.items EXCEPT ![hash] = x], place2)
  <2>1. x \notin done /\ x # Null /\ node'[x].key \in Keys /\ node'[x].prev = tab.items[hash]
    BY <1>1, <1>6, <1>11
  <2>2. place2[x] = IF tab.items[hash] = Null THEN 0 ELSE place[tab.items[hash]] + 1
    BY <1>12 DEF first
  <2>3. Links(done, node, node', tab.alloc, tab.items, place, place2, x, hash)
    BY <1>2, <1>4, <1>13, <1>15, <2>1, <2>2 DEF Links
  <2>4. QED
    BY <2>3, Linking
<1>17. Chains(pending \ {x}, node', len, OldHeads', place2)
  <2>1. \A y \in pending \ {x} : node'[y] = node[y] /\ place2[y] = place[y]
    BY <1>11, <1>12
  <2>2. rehash.i \in 0..(len - 1) /\ x # Null /\ \A y \in pending : place[y] \in Nat
    BY <1>1, <1>3, <1>5
  <2>3. QED
    BY <1>4, <1>5, <1>14, <2>1, <2>2, Unlinking
<1>18. TableTypes'
  BY <1>1, <1>2, <1>9, <1>11 DEF TableInv, TableTypes
<1>19. HeldInTable'
  <2>1. \A y \in DOMAIN node : node'[y].key = node[y].key
    BY <1>11
  <2>2. QED
    BY <1>1, <1>11, <2>1 DEF TableInv, HeldInTable
<1>20. Adding' /\ Chained'
  BY <1>1 DEF Adding, Chained
<1>21. Rehashing'
  <2>1. done \cup {x} = DOMAIN node' \ (pending \ {x})
    BY <1>6, <1>11
  <2>2. rehash'.i \in DOMAIN rehash'.old /\ rehash'.i \in Nat /\ DOMAIN rehash' = {"old", "i", "item"}
    BY <1>3, <1>10
  <2>3. Chains(DOMAIN node' \ (pending \ {x}), node', tab'.alloc, tab'.items, place2)
    BY <1>9, <1>16, <2>1
  <2>4. place2 \in [DOMAIN node' -> Nat] /\ pending \ {x} \in SUBSET DOMAIN node'
    BY <1>11, <1>12
  <2>5. QED
    BY <1>17, <2>2, <2>3, <2>4 DEF Rehashing
<1>22. QED
  BY <1>1, <1>18, <1>19, <1>20, <1>21 DEF TableInv

LEMMA RehashBucketKeepsTable ==
  ASSUME TableInv, RehashBucket
  PROVE  TableInv' /\ UNCHANGED <<held, answer>>
<1> DEFINE next == rehash.i + 1
<1>1. /\ UNCHANGED <<held, answer, regions, get, tab, node>> /\ at = "rehash"
      /\ rehash.item = Null
  BY DEF RehashBucket, callVars, pool
<1>2. DOMAIN rehash = {"old", "i", "item"} /\ rehash.i \in Nat
  BY <1>1 DEF TableInv, Rehashing
<1>3. PICK place \in [DOMAIN node -> Nat], pending \in SUBSET DOMAIN node, len \in Nat :
         /\ Chains(pending, node, len, OldHeads, place)
         /\ Chains(DOMAIN node \ pending, node, tab.alloc, tab.items, place)
  BY <1>1 DEF TableInv, Rehashing
<1>4. DOMAIN OldHeads = DOMAIN rehash.old /\ DOMAIN rehash.old = 0..(len - 1)
  BY <1>3 DEF Chains, OldHeads
<1>5. HeldInTable'
  BY <1>1 DEF TableInv, HeldInTable
<1>6. CASE next \in DOMAIN rehash.old
  <2>1. /\ rehash'.i = next /\ rehash'.item = rehash.old[next] /\ rehash'.old = rehash.old
        /\ DOMAIN rehash' = DOMAIN rehash /\ at' = "rehash"
    BY <1>1, <1>2, <1>6 DEF RehashBucket
  <2>2. OldHeads' = OldHeads
    <3>1. ASSUME NEW h \in 0..(len - 1)
          PROVE  (IF h < next THEN Null ELSE IF h = next THEN rehash.old[next] ELSE rehash.old[h])
                 = IF h < rehash.i THEN Null ELSE IF h = rehash.i THEN rehash.item ELSE rehash.old[h]
      BY <1>1, <1>2
    <3>2. OldHeads' = [h \in 0..(len - 1) |-> IF h < next THEN Null
                                  ELSE IF h = next THEN rehash.old[next] ELSE rehash.old[h]]
      BY <1>4, <2>1 DEF OldHeads
    <3>3. OldHeads = [h \in 0..(len - 1) |-> IF h < rehash.i THEN Null
                                  ELSE IF h = rehash.i THEN rehash.item ELSE rehash.old[h]]
      BY <1>4 DEF OldHeads
    <3>4. QED
      BY <3>1, <3>2, <3>3
  <2>3. TableTypes' /\ Adding' /\ Chained'
    BY <1>1, <2>1 DEF TableInv, TableTypes, Adding, Chained
  <2>4. Rehashing'
    BY <1>1, <1>2, <1>3, <1>6, <2>1, <2>2 DEF Rehashing
  <2>5. QED
    BY <1>1, <1>5, <2>3, <2>4 DEF TableInv
<1>7. CASE next \notin DOMAIN rehash.old
  <2>1. at' = "hash"
    BY <1>7 DEF RehashBucket
  <2>2. \A h \in 0..(len - 1) : OldHeads[h] = Null
    <3>1. \A h \in 0..(len - 1) : h <= rehash.i
      BY <1>2, <1>4, <1>7
    <3>2. QED
      BY <3>1, <1>1, <1>2, <1>4 DEF OldHeads
  <2>3. pending = {}
    BY <1>3, <2>2 DEF Chains
  <2>4. Chained'
    <3>1. DOMAIN node \ pending = DOMAIN node
      BY <2>3
    <3>2. Chains(DOMAIN node, node, tab.alloc, tab.items, place)
      BY <3>1, <1>3
    <3>3. QED
      BY <3>2, <1>1, <2>1 DEF Chained
  <2>5. TableTypes' /\ Adding' /\ Rehashing'
    BY <1>1, <2>1 DEF TableInv, TableTypes, Adding, Rehashing
  <2>6. QED
    BY <1>1, <1>5, <2>4, <2>5 DEF TableInv
<1>8. QED
  BY <1>6, <1>7

LEMMA HashKeepsTable ==
  ASSUME TableInv, Asking, Hash
  PROVE  TableInv' /\ UNCHANGED <<held, answer>>
<1> DEFINE hash == StrTab_hash_key(get.key, tab.alloc)
<1>1. /\ UNCHANGED <<held, answer, regions, tab, node, rehash>> /\ at = "hash" /\ at' = "find"
      /\ get' = [get EXCEPT !.hash = hash, !.item = tab.items[hash]]
  BY DEF Hash, callVars, pool
<1>2. get.key \in Keys /\ DOMAIN get = {"key", "item", "hash", "regions"}
  BY <1>1 DEF Asking
<1>3. get'.hash = hash /\ get'.item = tab.items[hash] /\ get'.key = get.key
  BY <1>1, <1>2
<1>4. PICK place \in [DOMAIN node -> Nat] :
           Chains(DOMAIN node, node, tab.alloc, tab.items, place)
  BY <1>1 DEF TableInv, Chained
<1>5. hash \in 0..(tab.alloc - 1)
  BY <1>1, <1>2, HashInTable DEF TableInv, TableTypes
<1>6. Searching(place)'
  <2>1. tab.items[hash] # Null =>
          tab.items[hash] \in DOMAIN node /\ Bucket(node, tab.items[hash], tab.alloc) = hash
    BY <1>4, <1>5 DEF Chains
  <2>2. ASSUME NEW y \in DOMAIN node, node[y].key = get.key
        PROVE  tab.items[hash] # Null /\ place[y] <= place[tab.items[hash]]
    <3>1. Bucket(node, y, tab.alloc) = hash
      BY <2>2 DEF Bucket
    <3>2. QED
      BY <3>1, <1>4 DEF Chains
  <2> HIDE DEF hash
  <2>3. QED
    BY <1>1, <1>3, <2>1, <2>2 DEF Searching, hash
<1>7. Chained'
  BY <1>1, <1>4, <1>6 DEF Chained
<1>8. TableTypes' /\ HeldInTable' /\ Adding' /\ Rehashing'
  BY <1>1 DEF TableInv, TableTypes, HeldInTable, Adding, Rehashing
<1>9. QED
  BY <1>1, <1>7, <1>8 DEF TableInv

LEMMA FindKeepsTable ==
  ASSUME TableInv, Asking, Find
  PROVE  TableInv' /\ [Promise!InterningNext]_<<held, answer>>
<1>1. UNCHANGED <<held, regions, tab, node, rehash>> /\ at = "find" /\ get.item # Null
  BY DEF Find, callVars, pool
<1>2. get.key \in Keys /\ DOMAIN get = {"key", "item", "hash", "regions"}
  BY <1>1 DEF Asking
<1>3. PICK place \in [DOMAIN node -> Nat] :
           Chains(DOMAIN node, node, tab.alloc, tab.items, place) /\ Searching(place)
  BY <1>1 DEF TableInv, Chained
<1>4. get.item \in DOMAIN node /\ Bucket(node, get.item, tab.alloc) = get.hash
  BY <1>1, <1>3 DEF Searching
<1>5. CASE node[get.item].key = get.key
  <2>1. Answer(get.key, get.item)
    BY <1>5 DEF Find
  <2>2. get.key \in DOMAIN held /\ held[get.key] = get.item
    BY <1>4, <1>5 DEF TableInv, HeldInTable
  <2>3. Promise!GiveHeld(get.key)
    BY <1>1, <2>1, <2>2 DEF Answer, Promise!GiveHeld
  <2>4. at' = "idle"
    BY <2>1 DEF Answer
  <2>5. TableTypes' /\ HeldInTable' /\ Adding' /\ Rehashing'
    BY <1>1, <2>4 DEF TableInv, TableTypes, HeldInTable, Adding, Rehashing
  <2>6. Chained'
    BY <1>1, <1>3, <2>4 DEF Chained
  <2>7. QED
    BY <1>2, <2>3, <2>5, <2>6 DEF TableInv, Promise!InterningNext
<1>6. CASE node[get.item].key # get.key
  <2>1. get' = [get EXCEPT !.item = node[@].prev] /\ UNCHANGED <<at, answer>>
    BY <1>6 DEF Find
  <2>2. get'.item = node[get.item].prev /\ get'.key = get.key /\ get'.hash = get.hash
    BY <1>2, <2>1
  <2>3. Searching(place)'
    <3>1. get'.item # Null => get'.item \in DOMAIN node /\ Bucket(node, get'.item, tab.alloc) = get.hash
      BY <1>3, <1>4, <2>2 DEF Chains
    <3>2. ASSUME NEW y \in DOMAIN node, node[y].key = get.key
          PROVE  get'.item # Null /\ place[y] <= place[get'.item]
      <4>1. Bucket(node, y, tab.alloc) = Bucket(node, get.item, tab.alloc)
        BY <1>3, <1>4, <3>2 DEF Searching, Bucket
      <4>2. place[y] <= place[get.item] /\ y # get.item
        BY <1>3, <1>6, <3>2 DEF Searching
      <4>3. place[y] # place[get.item]
        BY <1>3, <1>4, <4>1, <4>2 DEF Chains
      <4>4. place[y] < place[get.item]
        BY <1>4, <4>2, <4>3
      <4>5. QED
        BY <1>3, <1>4, <2>2, <4>1, <4>4 DEF Chains
    <3>3. get.hash = StrTab_hash_key(get.key, tab.alloc)
      BY <1>3 DEF Searching
    <3>4. QED
      BY <1>1, <2>2, <3>1, <3>2, <3>3 DEF Searching
  <2>4. Chained'
    BY <1>1, <1>3, <2>1, <2>3 DEF Chained
  <2>5. TableTypes' /\ HeldInTable' /\ Adding' /\ Rehashing'
    BY <1>1, <2>1 DEF TableInv, TableTypes, HeldInTable, Adding, Rehashing
  <2>6. QED
    BY <1>1, <2>1, <2>4, <2>5 DEF TableInv
<1>7. QED
  BY <1>5, <1>6

LEMMA AllocItemKeepsTable ==
  ASSUME IInv, TableInv, Asking, AllocItem
  PROVE  TableInv' /\ UNCHANGED <<held, answer>>
<1>1. /\ UNCHANGED <<held, answer, regions, tab, node, rehash>> /\ at = "find" /\ get.item = Null
      /\ at' = "alloc" /\ get' = [get EXCEPT !.regions = Len(regions)]
  BY DEF AllocItem, Alloc, pool
<1>2. DOMAIN get = {"key", "item", "hash", "regions"} /\ regions \in Seq(Region)
  BY <1>1 DEF Asking, IInv, TypeOK
<1>3. get'.key = get.key /\ get'.hash = get.hash /\ get'.regions = Len(regions)
  BY <1>1, <1>2
<1>4. PICK place \in [DOMAIN node -> Nat] :
           Chains(DOMAIN node, node, tab.alloc, tab.items, place) /\ Searching(place)
  BY <1>1 DEF TableInv, Chained
<1>5. get.key \notin DOMAIN held
  BY <1>1, <1>4 DEF Searching, TableInv, HeldInTable
<1>6. Adding'
  <2>1. Len(regions) \in Nat /\ DOMAIN node \subseteq 1..Len(regions)
    BY <1>2 DEF TableInv, TableTypes
  <2>2. get.hash = StrTab_hash_key(get.key, tab.alloc)
    BY <1>4 DEF Searching
  <2>3. QED
    BY <1>1, <1>3, <1>5, <2>1, <2>2 DEF Adding
<1>7. Chained'
  BY <1>1, <1>4 DEF Chained
<1>8. TableTypes' /\ HeldInTable' /\ Rehashing'
  BY <1>1 DEF TableInv, TableTypes, HeldInTable, Rehashing
<1>9. QED
  BY <1>1, <1>6, <1>7, <1>8 DEF TableInv

LEMMA InsertKeepsTable ==
  ASSUME IInv, TableInv, Asking, Insert
  PROVE  TableInv' /\ [Promise!InterningNext]_<<held, answer>>
<1> DEFINE item == Len(regions)
           key == get.key
           hash == get.hash
<1>1. UNCHANGED <<regions, rehash>> /\ at = "alloc" /\ at' = "idle"
  BY DEF Insert, callVars, pool, Answer
<1>2. key \in Keys /\ item \in Nat /\ item <= MaxAllocs /\ MaxAllocs \in Nat
  BY <1>1, PoolAssumption DEF Asking, IInv, TypeOK, TableInv, TableTypes
<1>3. /\ key \notin DOMAIN held /\ hash = StrTab_hash_key(key, tab.alloc)
      /\ get.regions \in Nat /\ DOMAIN node \subseteq 1..get.regions
  BY <1>1 DEF TableInv, Adding
<1>4. /\ DOMAIN tab = {"items", "count", "alloc"} /\ tab.count \in Nat /\ tab.alloc \in Nat
      /\ tab.alloc > 0 /\ \A y \in DOMAIN node : node[y] \in [key : Keys, prev : Nat]
  BY <1>1 DEF TableInv, TableTypes
<1>5. PICK place \in [DOMAIN node -> Nat] :
           Chains(DOMAIN node, node, tab.alloc, tab.items, place)
  BY <1>1 DEF TableInv, Chained
<1>6. CASE item > get.regions
  <2>1. /\ node' = [i \in DOMAIN node \cup {item} |->
                      IF i = item THEN [key |-> key, prev |-> tab.items[hash]] ELSE node[i]]
        /\ tab' = [tab EXCEPT !.items[hash] = item, !.count = @ + 1]
        /\ held' = [k \in DOMAIN held \cup {key} |-> IF k = key THEN item ELSE held[k]]
        /\ answer' = <<key, item>>
    BY <1>6 DEF Insert, Answer
  <2>2. item \notin DOMAIN node /\ item # Null /\ item \in 1..MaxAllocs
    BY <1>2, <1>3, <1>6 DEF Null
  <2>3. hash \in 0..(tab.alloc - 1)
    BY <1>2, <1>3, <1>4, HashInTable
  <2>4. /\ DOMAIN tab.items = 0..(tab.alloc - 1)
        /\ tab.items[hash] # Null => tab.items[hash] \in DOMAIN node
    BY <1>5, <2>3 DEF Chains
  <2>5. /\ tab'.items = [tab.items EXCEPT ![hash] = item] /\ tab'.alloc = tab.alloc
        /\ tab'.count = tab.count + 1 /\ DOMAIN tab' = DOMAIN tab
    BY <1>4, <2>1
  <2>6. tab.items[hash] \in Nat
    BY <1>3, <2>4 DEF Null
  <2>7. /\ DOMAIN node' = DOMAIN node \cup {item}
        /\ node'[item] = [key |-> key, prev |-> tab.items[hash]]
        /\ \A y \in DOMAIN node : node'[y] = node[y]
    BY <2>1, <2>2
  <2> DEFINE first == tab.items[hash]
             place2 == [y \in DOMAIN node \cup {item} |->
                          IF y = item THEN IF first = Null THEN 0 ELSE place[first] + 1
                          ELSE place[y]]
  <2>8. /\ place2 \in [DOMAIN node' -> Nat] /\ \A y \in DOMAIN node : place2[y] = place[y]
        /\ place2[item] = IF first = Null THEN 0 ELSE place[first] + 1
    BY <2>2, <2>4, <2>7
  <2> HIDE DEF place2, item
  <2>9. Chains(DOMAIN node \cup {item}, node', tab.alloc, [tab.items EXCEPT ![hash] = item], place2)
    <3>1. \A y \in DOMAIN node : place[y] \in Nat /\ node'[y] = node[y] /\ place2[y] = place[y]
      BY <2>7, <2>8
    <3>2. hash = Bucket(node', item, tab.alloc) /\ node'[item].prev = tab.items[hash]
          /\ node'[item].key \in Keys
      BY <1>2, <1>3, <2>7 DEF Bucket
    <3>3. place2[item] = IF tab.items[hash] = Null THEN 0 ELSE place[tab.items[hash]] + 1
      BY <2>8
    <3>4. Links(DOMAIN node, node, node', tab.alloc, tab.items, place, place2, item, hash)
      BY <1>4, <1>5, <2>2, <3>1, <3>2, <3>3 DEF Links
    <3>5. QED
      BY <3>4, Linking
  <2>10. Chained'
    BY <1>1, <2>5, <2>7, <2>8, <2>9 DEF Chained
  <2>11. TableTypes'
    <3>1. Len(regions') = item /\ DOMAIN node' \subseteq 1..item
      BY <1>1, <1>2, <1>3, <1>6, <2>2, <2>7 DEF item
    <3>2. \A y \in DOMAIN node' : node'[y] \in [key : Keys, prev : Nat]
      BY <1>2, <1>4, <2>6, <2>7
    <3>3. QED
      BY <1>1, <1>2, <1>4, <2>5, <3>1, <3>2 DEF TableTypes
  <2>12. DOMAIN held' = DOMAIN held \cup {key} /\ held'[key] = item
         /\ \A k \in DOMAIN held : held'[k] = held[k]
    BY <1>3, <2>1
  <2>13. HeldInTable'
    BY <1>3, <2>2, <2>7, <2>12 DEF TableInv, HeldInTable
  <2>14. Adding' /\ Rehashing'
    BY <1>1 DEF Adding, Rehashing
  <2>15. Promise!GiveNew(key, item)
    <3>1. \A k \in DOMAIN held : held[k] # item
      BY <2>2 DEF TableInv, HeldInTable
    <3>2. QED
      BY <1>3, <2>1, <3>1 DEF Promise!GiveNew
  <2>16. QED
    BY <1>2, <2>2, <2>10, <2>11, <2>13, <2>14, <2>15 DEF TableInv, Promise!InterningNext
<1>7. CASE ~ (item > get.regions)
  <2>1. Answer(key, Null) /\ UNCHANGED <<node, tab, held>>
    BY <1>7 DEF Insert
  <2>2. Promise!GiveNone(key)
    BY <2>1 DEF Answer, Promise!GiveNone
  <2>3. TableTypes' /\ HeldInTable' /\ Adding' /\ Rehashing'
    BY <1>1, <2>1 DEF TableInv, TableTypes, HeldInTable, Adding, Rehashing
  <2>4. Chained'
    BY <1>1, <1>5, <2>1 DEF Chained
  <2>5. QED
    BY <1>2, <2>2, <2>3, <2>4 DEF TableInv, Promise!InterningNext
<1>8. QED
  BY <1>6, <1>7

LEMMA InitTable == SymInit => TableInv /\ Promise!InterningInit
<1> SUFFICES ASSUME SymInit PROVE TableInv /\ Promise!InterningInit
  OBVIOUS
<1>1. /\ tab = [items |-> <<>>, count |-> 0, alloc |-> 0] /\ node = <<>> /\ at = "idle"
      /\ held = [k \in {} |-> Null] /\ answer = <<>> /\ regions = <<>>
  BY DEF SymInit, CallInit, Init
<1>2. DOMAIN node = {} /\ DOMAIN held = {} /\ DOMAIN tab.items = {} /\ MaxAllocs \in Nat
  BY <1>1, PoolAssumption
<1>3. TableTypes /\ HeldInTable /\ Rehashing /\ Adding
  BY <1>1, <1>2 DEF TableTypes, HeldInTable, Rehashing, Adding
<1>4. Chained
  <2>1. [y \in DOMAIN node |-> 0] \in [DOMAIN node -> Nat]
    OBVIOUS
  <2>2. Chains(DOMAIN node, node, tab.alloc, tab.items, [y \in DOMAIN node |-> 0])
    BY <1>1, <1>2 DEF Chains
  <2>3. QED
    BY <1>1, <2>1, <2>2 DEF Chained
<1>5. QED
  BY <1>1, <1>3, <1>4 DEF TableInv, Promise!InterningInit, Promise!NoneHeld

LEMMA NextTable ==
  ASSUME IInv, CallInv, Asking, TableInv, [SymNext]_symVars
  PROVE  TableInv' /\ [Promise!InterningNext]_<<held, answer>>
<1>1. regions \in Seq(Region) /\ MaxAllocs \in Nat /\ Len(regions) <= MaxAllocs
  BY PoolAssumption DEF IInv, TypeOK, TableInv, TableTypes
<1>2. ASSUME UNCHANGED table, Len(regions') \in Len(regions)..MaxAllocs
      PROVE  TableInv' /\ UNCHANGED <<held, answer>>
  <2>1. Len(regions) \in Nat
    BY <1>1
  <2>2. TableInv'
    BY <1>1, <1>2, <2>1, TableStays
  <2>3. QED
    BY <1>2, <2>2 DEF table
<1>3. CASE PoolStep
  <2>1. Step /\ UNCHANGED table
    BY <1>3 DEF PoolStep
  <2>2. Len(regions') \in Len(regions)..MaxAllocs
    BY <1>1, <2>1, RegionsGrow
  <2>3. QED
    BY <1>2, <2>1, <2>2
<1>4. ASSUME NEW request \in user.sizes, OtherAlloc(request)
      PROVE  UNCHANGED table /\ Len(regions') \in Len(regions)..MaxAllocs
  BY <1>1, <1>4 DEF OtherAlloc, Alloc, pool
<1>5. CASE UNCHANGED symVars
  BY <1>1, <1>2, <1>5 DEF symVars, callVars, pool
<1>6. CASE \E key \in user.keys : Ask(key)
  BY <1>6, AskKeepsTable
<1>7. CASE TableStep
  BY <1>7, UpsizedKeepsTable, RehashItemKeepsTable, RehashBucketKeepsTable, HashKeepsTable,
     FindKeepsTable, AllocItemKeepsTable, InsertKeepsTable DEF TableStep
<1>8. QED
  BY <1>2, <1>3, <1>4, <1>5, <1>6, <1>7 DEF SymNext

-----------------------------------------------------------------------------
(***************************************************************************)
(* The theorems.                                                           *)
(***************************************************************************)

\* The loops and the recursion of SAU_MemPool_alloc() (mempool.c:100-252) do to
\* the pool what MemPool says of a whole call, so that all that is proved of
\* MemPool holds of them, whoever makes the calls.
THEOREM CallsImplementPool == SymSpec => ImplementsPool
<1>1. SymInit => Init
  BY DEF SymInit, CallInit
<1>2. IInv /\ CallInv /\ Asking /\ [SymNext]_symVars => [Next]_vars
  BY NextCalls
<1>3. QED
  BY <1>1, <1>2, CallsHold, PTL DEF SymSpec, Spec, ImplementsPool

\* Whatever grew, was rehashed or failed in between, StrTab_unique_item()
\* (symtab.c:112-151) gives a key the item it got the first time, and no other
\* key does: the callers' comparing of pointers stands for one of strings, with
\* the pool below taken step by step.
THEOREM TableInterns == SymSpec => GivesUniqueItems
<1>1. IInv /\ CallInv /\ Asking /\ TableInv /\ [SymNext]_symVars
        => TableInv' /\ [Promise!InterningNext]_<<held, answer>>
  BY NextTable
<1>2. SymSpec => []TableInv
  BY <1>1, InitTable, CallsHold, PTL DEF SymSpec
<1>3. QED
  BY <1>1, <1>2, InitTable, CallsHold, PTL DEF SymSpec, Promise!InterningSpec, GivesUniqueItems
================================================================================
