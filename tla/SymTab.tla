------------------------------- MODULE SymTab -------------------------------
(***************************************************************************)
(* The symbol table of src/reader/symtab.c, whose items are allocated from *)
(* a pool that other callers use too (the parser's nodes are in the same): *)
(* a hash table with chains, doubled and rehashed when half full.          *)
(*                                                                         *)
(* An item is named by the number of the pool's region that it is in, the  *)
(* first being 1; Null is NULL.  A key is a string with its length.        *)
(***************************************************************************)
EXTENDS MemPoolCalls

CONSTANTS
  Keys,      \* the strings that are looked up
  KeyHash,   \* StrTab_hash_key() of each, before it is limited to the table
  KeySize,   \* size of the item of each
  InitialLen,\* STRTAB_ALLOC_INITIAL, a power of two
  Users,     \* BOUND: who uses the pool together: sets of keys that are looked up
             \*   and of sizes that are allocated besides
  MaxAsked   \* BOUND: number of lookups

ASSUME SymTabAssumption ==
  /\ KeyHash \in [Keys -> Nat] /\ KeySize \in [Keys -> AllocSizes]
  /\ Users \subseteq [keys : SUBSET Keys, sizes : SUBSET AllocSizes]
  /\ InitialLen \in Nat \ {0} /\ MaxAsked \in Nat

Null == 0

VARIABLES
  user,     \* the one of Users
  tab,      \* the StrTab: items (the buckets, from 0), count and alloc
  node,     \* the items: key and prev
  get,      \* key, item and hash of StrTab_unique_item(), and before it allocates,
            \*   the number of regions
  rehash,   \* old_items, i and item of StrTab_upsize()
  at,       \* where in a lookup, "idle" outside
  asked,    \* history: number of lookups
  held,     \* history: the items given
  answer    \* history: what the last lookup returned

table == <<user, tab, node, get, rehash, at, asked, held, answer>>
symVars == <<callVars, table>>

NoGet == [key |-> "none", item |-> Null, hash |-> 0, regions |-> 0]
NoRehash == [old |-> <<>>, i |-> 0, item |-> Null]

SymInit ==
  /\ CallInit
  /\ user \in Users
  /\ tab = [items |-> <<>>, count |-> 0, alloc |-> 0]
  /\ node = <<>>
  /\ get = NoGet
  /\ rehash = NoRehash
  /\ at = "idle"
  /\ asked = 0
  /\ held = [k \in {} |-> Null]
  /\ answer = <<>>

\* The mask of a table with a power of two of buckets.
StrTab_hash_key(key, alloc) == KeyHash[key] % alloc

Answer(key, item) ==
  /\ answer' = <<key, item>>
  /\ at' = "idle"
  /\ get' = NoGet

-----------------------------------------------------------------------------
\* SAU_SymTab_get_symstr() is called.
Ask(key) ==
  /\ at = "idle" /\ pc = "idle" /\ asked < MaxAsked /\ Len(regions) < MaxAllocs
  /\ asked' = asked + 1
  /\ get' = [NoGet EXCEPT !.key = key]
  /\ at' = IF tab.count = tab.alloc \div 2 THEN "upsize" ELSE "hash"
  /\ UNCHANGED <<callVars, user, tab, node, rehash, held, answer>>

\* StrTab_upsize(), up to its loop; the lookup fails if calloc() does.
Upsized ==
  /\ at = "upsize"
  /\ LET alloc == IF tab.alloc > 0 THEN 2 * tab.alloc ELSE InitialLen
     IN  \/ /\ tab' = [tab EXCEPT !.alloc = alloc,
                                  !.items = [h \in 0..(alloc - 1) |-> Null]]
            /\ rehash' = [old |-> tab.items, i |-> 0,
                          item |-> IF tab.alloc > 0 THEN tab.items[0] ELSE Null]
            /\ at' = "rehash"
            /\ UNCHANGED <<get, answer>>
         \/ Answer(get.key, Null) /\ UNCHANGED <<tab, rehash>>
  /\ UNCHANGED <<callVars, user, node, asked, held>>

\* The slip of going on from the new chain.
RehashItemAfterLinking ==
  /\ at = "rehash" /\ rehash.item # Null
  /\ LET hash == StrTab_hash_key(node[rehash.item].key, tab.alloc)
     IN  /\ node' = [node EXCEPT ![rehash.item].prev = tab.items[hash]]
         /\ tab' = [tab EXCEPT !.items[hash] = rehash.item]
         /\ rehash' = [rehash EXCEPT !.item = tab.items[hash]]
  /\ UNCHANGED <<callVars, user, get, at, asked, held, answer>>

\* One round of the inner loop: an item is put in front of its new chain.
RehashItem ==
  /\ at = "rehash" /\ rehash.item # Null
  /\ LET hash == StrTab_hash_key(node[rehash.item].key, tab.alloc)
     IN  /\ node' = [node EXCEPT ![rehash.item].prev = tab.items[hash]]
         /\ tab' = [tab EXCEPT !.items[hash] = rehash.item]
         /\ rehash' = [rehash EXCEPT !.item = node[rehash.item].prev]
  /\ UNCHANGED <<callVars, user, get, at, asked, held, answer>>

\* One of the outer.
RehashBucket ==
  /\ at = "rehash" /\ rehash.item = Null
  /\ LET next == rehash.i + 1
     IN  IF next \in DOMAIN rehash.old
         THEN rehash' = [rehash EXCEPT !.i = next, !.item = rehash.old[next]] /\ UNCHANGED at
         ELSE rehash' = NoRehash /\ at' = "hash"
  /\ UNCHANGED <<callVars, user, tab, node, get, asked, held, answer>>

Hash ==
  LET hash == StrTab_hash_key(get.key, tab.alloc)
  IN  /\ at = "hash"
      /\ get' = [get EXCEPT !.hash = hash, !.item = tab.items[hash]]
      /\ at' = "find"
      /\ UNCHANGED <<callVars, user, tab, node, rehash, asked, held, answer>>

\* The chain is followed to the key, which is returned...
Find ==
  /\ at = "find" /\ get.item # Null
  /\ IF node[get.item].key = get.key
     THEN Answer(get.key, get.item)
     ELSE get' = [get EXCEPT !.item = node[@].prev] /\ UNCHANGED <<at, answer>>
  /\ UNCHANGED <<callVars, user, tab, node, rehash, asked, held>>

\* ...or to its end, when the pool is asked for a new item.
AllocItem ==
  /\ at = "find" /\ get.item = Null
  /\ Alloc(KeySize[get.key])
  /\ get' = [get EXCEPT !.regions = Len(regions)]
  /\ at' = "alloc"
  /\ UNCHANGED <<user, tab, node, rehash, asked, held, answer>>

\* It is put in front of its chain, unless there is none.
Insert ==
  LET item == Len(regions)
  IN  /\ at = "alloc" /\ pc = "idle"
      /\ IF item > get.regions
         THEN /\ node' = [i \in DOMAIN node \cup {item} |->
                            IF i = item THEN [key |-> get.key, prev |-> tab.items[get.hash]]
                                        ELSE node[i]]
              /\ tab' = [tab EXCEPT !.items[get.hash] = item, !.count = @ + 1]
              /\ held' = [k \in DOMAIN held \cup {get.key} |->
                            IF k = get.key THEN item ELSE held[k]]
              /\ Answer(get.key, item)
         ELSE Answer(get.key, Null) /\ UNCHANGED <<node, tab, held>>
      /\ UNCHANGED <<callVars, user, rehash, asked>>

-----------------------------------------------------------------------------
OtherAlloc(request) == at = "idle" /\ Alloc(request) /\ UNCHANGED table

PoolStep == Step /\ UNCHANGED table

TableStep == Upsized \/ RehashItem \/ RehashBucket \/ Hash \/ Find \/ AllocItem \/ Insert

SymNext ==
  \/ PoolStep \/ TableStep
  \/ \E key \in user.keys : Ask(key)
  \/ \E request \in user.sizes : OtherAlloc(request)

\* A call that was made runs on.
SymSpec == SymInit /\ [][SymNext]_symVars /\ WF_symVars(PoolStep \/ TableStep)

-----------------------------------------------------------------------------
(***************************************************************************)
(* Properties.                                                             *)
(***************************************************************************)

Promise == INSTANCE Interning WITH Items <- 1..MaxAllocs, NoItem <- Null

\* However the table grew and was rehashed since, and whatever failed, a key
\* gets the item it got the first time, and no other key does ("Get unique
\* item for key in hash table, adding it if missing", symtab.c:108).
GivesUniqueItems == Promise!InterningSpec

\* Every allocation and lookup returns: neither the bisection, whose bounds
\* may start crossed, nor the block move goes on forever, and no chain comes
\* to go in a circle.
CallsReturn == (at # "idle" \/ pc # "idle") ~> (at = "idle" /\ pc = "idle")
=============================================================================
