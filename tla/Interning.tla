------------------------------ MODULE Interning ------------------------------
(***************************************************************************)
(* What a symbol table promises: for one key it gives one item, which no   *)
(* other key has, as long as the table lives; or NULL.  Callers compare    *)
(* items in place of strings, and keep data in them (src/reader/parser.c). *)
(***************************************************************************)
CONSTANTS Keys, Items, NoItem

VARIABLES held,    \* items that were given, a function from keys
          answer   \* the key asked for last, and what was returned for it

NoneHeld == [k \in {} |-> NoItem]

InterningInit == held = NoneHeld /\ answer = <<>>

GiveHeld(k) ==
  /\ k \in DOMAIN held
  /\ answer' = <<k, held[k]>>
  /\ UNCHANGED held

GiveNew(k, i) ==
  /\ k \notin DOMAIN held
  /\ \A l \in DOMAIN held : held[l] # i
  /\ held' = [l \in DOMAIN held \cup {k} |-> IF l = k THEN i ELSE held[l]]
  /\ answer' = <<k, i>>

\* On allocation failure, which may also meet a key that is held.
GiveNone(k) == answer' = <<k, NoItem>> /\ UNCHANGED held

InterningNext ==
  \E k \in Keys : GiveHeld(k) \/ GiveNone(k) \/ \E i \in Items : GiveNew(k, i)

InterningSpec == InterningInit /\ [][InterningNext]_<<held, answer>>
=============================================================================
