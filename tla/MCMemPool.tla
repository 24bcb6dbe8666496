------------------------------ MODULE MCMemPool ------------------------------
(* Model-checking instance of SymTab and MemPoolCalls: pointers of two     *)
(* bytes, and sizes around those of the first blocks, which are of 6, 12,  *)
(* 24, 24... bytes; a table of two that comes to grow three times.         *)
EXTENDS SymTab, TLC

\* A size of zero, one that fills a first block, and two larger than it, so
\* that blocks come to have several sizes of space left.
MCAllocSizes == {0, 6, 10, 14}

\* Keys that share a bucket until the table has grown.
MCKeys == {"k0", "k2", "k4"}
MCKeyHash == ("k0" :> 0) @@ ("k2" :> 2) @@ ("k4" :> 4)
MCKeySize == ("k0" :> 6) @@ ("k2" :> 10) @@ ("k4" :> 14)

\* Without lookups, and with little else.
MCUsers == {[keys |-> {}, sizes |-> MCAllocSizes], [keys |-> MCKeys, sizes |-> {14}]}
=============================================================================
