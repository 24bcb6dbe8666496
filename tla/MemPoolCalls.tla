---------------------------- MODULE MemPoolCalls ----------------------------
(***************************************************************************)
(* SAU_MemPool_alloc() of src/mempool.c, step by step: the bisection loop, *)
(* the loop that passes used-up blocks, and the recursive block move with  *)
(* its stack.  The pool as callers see it between calls is the state of    *)
(* MemPool, which each call here is shown to implement in one step.  Who   *)
(* makes the calls is in SymTab.                                           *)
(***************************************************************************)
EXTENDS MemPool

VARIABLES
  o,       \* the SAU_MemPool, as it is in the middle of a call
  call,    \* size, i and mem of SAU_MemPool_alloc(), and tmp of its end
  search,  \* key, min, max and i of first_smallest(), done when out of its loop
  froms,   \* the from of each copy_up_one() call that has not returned
  pc       \* "idle" between calls

pool == <<a, count, first_i, alloc_len, block_size, skip_size, heap, regions>>
callVars == <<pool, o, call, search, froms, pc>>

Fields == [a |-> a, count |-> count, first_i |-> first_i, alloc_len |-> alloc_len,
           block_size |-> block_size, skip_size |-> skip_size, heap |-> heap]
NoCall == [size |-> 0, i |-> 0, mem |-> <<>>, tmp |-> [free |-> 0, mem |-> 0]]
NoSearch == [key |-> 0, min |-> 0, max |-> 0, i |-> 0, done |-> TRUE]

CallInit ==
  /\ Init
  /\ o = Fields
  /\ call = NoCall
  /\ search = NoSearch
  /\ froms = <<>>
  /\ pc = "idle"

-----------------------------------------------------------------------------
(***************************************************************************)
(* first_smallest() and first_greater().                                   *)
(***************************************************************************)

\* The loop is entered, on the fields as they are in b; where is what waits
\* for its result.  The upper bound is not limited to what is searched: with
\* every block used up, the last one is still looked at.
StartSearch(b, key, where) ==
  /\ search' = [key |-> key, min |-> b.first_i, max |-> b.count - 1, i |-> 0,
                done |-> FALSE]
  /\ pc' = where

Middle == (search.min + search.max) \div 2
TooSmall(k) == o.a[k].free < search.key

\* The block is too small: go on above it, or stop just above it.
GoUp ==
  /\ ~ search.done
  /\ TooSmall(Middle)
  /\ LET over == search.max < Middle + 1
     IN  search' = [search EXCEPT !.min = Middle + 1, !.done = over,
                                  !.i = IF over THEN Middle + 1 ELSE Middle]

\* The slip of leaving the loop one round early.
GoDownBlind ==
  /\ ~ search.done
  /\ ~ TooSmall(Middle)
  /\ search' = [search EXCEPT !.max = Middle - 1, !.i = Middle,
                              !.done = Middle - 1 <= search.min]

\* The slip of keeping the middle block in the upper bound.
GoDownStuck ==
  /\ ~ search.done
  /\ ~ TooSmall(Middle)
  /\ search' = [search EXCEPT !.max = Middle, !.i = Middle,
                              !.done = Middle < search.min]

\* The size fits: go on below the block, or stop at it.
GoDown ==
  /\ ~ search.done
  /\ ~ TooSmall(Middle)
  /\ search' = [search EXCEPT !.max = Middle - 1, !.i = Middle,
                              !.done = Middle - 1 < search.min]

Loop == (GoUp \/ GoDown) /\ UNCHANGED <<pool, o, call, froms, pc>>

\* What is checked after the loop.
Found == search.i < o.count /\ ~ TooSmall(search.i)

-----------------------------------------------------------------------------
(***************************************************************************)
(* SAU_MemPool_alloc(), up to where it has the memory.                     *)
(***************************************************************************)

Alloc(request) ==
  LET size == ALIGN_SIZE(request)
  IN  /\ pc = "idle"
      /\ Len(regions) < MaxAllocs
      /\ call' = [NoCall EXCEPT !.size = size, !.i = o.count]
      /\ IF o.count > 0 /\ size <= o.a[o.count - 1].free
         THEN StartSearch(o, size, "fit")
         ELSE pc' = "add" /\ UNCHANGED search
      /\ UNCHANGED <<pool, o, froms>>

\* Cut the allocation off the end of block i.
Cut ==
  /\ pc = "fit" /\ search.done
  /\ IF Found
     THEN LET left == o.a[search.i].free - call.size
          IN  /\ o' = [o EXCEPT !.a[search.i].free = left]
              /\ call' = [call EXCEPT !.i = search.i,
                            !.mem = <<[mem |-> o.a[search.i].mem, off |-> left,
                                       len |-> call.size]>>]
              /\ pc' = "sort"
     ELSE pc' = "add" /\ UNCHANGED <<o, call>>
  /\ UNCHANGED <<pool, search, froms>>

\* The slip of doubling an array length of zero.
GrownUnseeded(b) == [b EXCEPT !.alloc_len = 2 * @, !.block_size = 2 * @,
  !.skip_size = IF b.first_i < (b.alloc_len * 2) \div 3
                THEN IF @ > 0 THEN 2 * @ ELSE AlignBytes
                ELSE @]

\* upsize(), with realloc() succeeding.
Grown(b) == [b EXCEPT !.alloc_len = IF @ > 0 THEN 2 * @ ELSE 1, !.block_size = 2 * @,
  !.skip_size = IF b.first_i < (b.alloc_len * 2) \div 3
                THEN IF @ > 0 THEN 2 * @ ELSE AlignBytes
                ELSE @]

\* add() makes room for one more block; the call fails if realloc() does.
ExtendArray ==
  /\ pc = "add"
  /\ \/ o.count = o.alloc_len /\ o' = Grown(o) /\ pc' = "calloc"
     \/ o.count = o.alloc_len /\ UNCHANGED o /\ pc' = "return"
     \/ o.count < o.alloc_len /\ UNCHANGED o /\ pc' = "calloc"
  /\ UNCHANGED <<pool, call, search, froms>>

\* add() puts in the block, or returns NULL when calloc() does.
Add ==
  LET full == IF o.block_size < call.size THEN call.size ELSE o.block_size
      block == [free |-> full - call.size, mem |-> o.count]
  IN  /\ pc = "calloc"
      /\ \/ /\ o' = [o EXCEPT !.count = @ + 1, !.heap = Append(@, full),
                       !.a = [k \in 0..o.count |-> IF k < o.count THEN @[k] ELSE block]]
            /\ call' = [call EXCEPT !.mem = <<[mem |-> o.count, off |-> block.free,
                                               len |-> call.size]>>]
            /\ pc' = "skip"
         \/ pc' = "return" /\ UNCHANGED <<o, call>>
      /\ UNCHANGED <<pool, search, froms>>

\* The loop at the end of add().
Skip ==
  /\ pc = "skip"
  /\ IF o.first_i < o.count /\ o.a[o.first_i].free <= o.skip_size
     THEN o' = [o EXCEPT !.first_i = @ + 1] /\ UNCHANGED pc
     ELSE pc' = "sort" /\ UNCHANGED o
  /\ UNCHANGED <<pool, call, search, froms>>

-----------------------------------------------------------------------------
(***************************************************************************)
(* The sorting at its end.                                                 *)
(***************************************************************************)

\* The slip of searching without the fudged value.
SortUnfudged ==
  /\ pc = "sort"
  /\ IF call.i > 0
     THEN /\ call' = [call EXCEPT !.tmp = o.a[call.i]]
          /\ StartSearch(o, o.a[call.i].free + 1, "place")
          /\ UNCHANGED o
     ELSE pc' = "return" /\ UNCHANGED <<o, call, search>>
  /\ UNCHANGED <<pool, froms>>

\* Block i carries the free space of the one before it while its place is
\* searched for; what it has goes into tmp.
Sort ==
  /\ pc = "sort"
  /\ IF call.i > 0
     THEN /\ call' = [call EXCEPT !.tmp = o.a[call.i]]
          /\ o' = [o EXCEPT !.a[call.i].free = o.a[call.i - 1].free]
          /\ StartSearch(o, o.a[call.i].free + 1, "place")
     ELSE pc' = "return" /\ UNCHANGED <<o, call, search>>
  /\ UNCHANGED <<pool, froms>>

Place ==
  /\ pc = "place" /\ search.done
  /\ IF Found /\ search.i < call.i
     THEN froms' = <<search.i>> /\ pc' = "copy" /\ UNCHANGED o
     ELSE /\ o' = [o EXCEPT !.a[call.i] = call.tmp]
          /\ pc' = "return"
          /\ UNCHANGED froms
  /\ UNCHANGED <<pool, call, search>>

\* copy_up_one() is entered, from the block last put on the stack to block i.
CopyUp ==
  LET from == froms[Len(froms)]
  IN  /\ pc = "copy"
      /\ IF from = call.i - 1 \/ o.a[from].free = o.a[call.i - 1].free
         THEN /\ o' = [o EXCEPT !.a[call.i] = o.a[from]]
              /\ pc' = "copied"
              /\ UNCHANGED search
         ELSE StartSearch(o, o.a[from].free + 1, "higher") /\ UNCHANGED o
      /\ UNCHANGED <<pool, call, froms>>

\* ...which calls itself for the next larger size...
Recurse ==
  /\ pc = "higher" /\ search.done
  /\ froms' = Append(froms, IF Found THEN search.i ELSE 0)
  /\ pc' = "copy"
  /\ UNCHANGED <<pool, o, call, search>>

\* The slip of putting the block back with the fudged value.
CopiedUpFudged ==
  LET n == Len(froms)
      fudged == [call.tmp EXCEPT !.free = o.a[call.i].free]
  IN  /\ pc = "copied"
      /\ o' = [o EXCEPT !.a[froms[n]] = IF n > 1 THEN o.a[froms[n - 1]] ELSE fudged]
      /\ froms' = SubSeq(froms, 1, n - 1)
      /\ pc' = IF n > 1 THEN "copied" ELSE "return"
      /\ UNCHANGED <<pool, call, search>>

\* ...and then overwrites the block that was from there.  After the outermost
\* call the block to place is put at j.
CopiedUp ==
  LET n == Len(froms)
  IN  /\ pc = "copied"
      /\ o' = [o EXCEPT !.a[froms[n]] = IF n > 1 THEN o.a[froms[n - 1]] ELSE call.tmp]
      /\ froms' = SubSeq(froms, 1, n - 1)
      /\ pc' = IF n > 1 THEN "copied" ELSE "return"
      /\ UNCHANGED <<pool, call, search>>

\* The call returns the memory, or NULL; callers see what it did.
Return ==
  /\ pc = "return"
  /\ a' = o.a /\ count' = o.count /\ first_i' = o.first_i
  /\ alloc_len' = o.alloc_len /\ block_size' = o.block_size
  /\ skip_size' = o.skip_size /\ heap' = o.heap
  /\ regions' = regions \o call.mem
  /\ pc' = "idle"
  /\ call' = NoCall
  /\ search' = NoSearch
  /\ UNCHANGED <<o, froms>>

Step ==
  \/ Loop
  \/ Cut \/ ExtendArray \/ Add \/ Skip
  \/ Sort \/ Place \/ CopyUp \/ Recurse \/ CopiedUp
  \/ Return

-----------------------------------------------------------------------------
(***************************************************************************)
(* Properties.                                                             *)
(***************************************************************************)

\* The loops and the recursion do what the operators of MemPoolOps say of
\* them: every call is one step of MemPool, or a failing one that changes
\* nothing.
ImplementsPool == Spec

=============================================================================
