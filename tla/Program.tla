-------------------------------- MODULE Program --------------------------------
(***************************************************************************)
(* The program that the builder hands to the interpreter (src/program.h):  *)
(* flat lists of voices and operators, known by ID, and of events.  An     *)
(* event has the ms to wait after the event before it, the voice it is for *)
(* and the operators it changes; a parameter it does not set, and the      *)
(* graph (here its carriers) when it does not come with one, is None.      *)
(***************************************************************************)
EXTENDS Values, Naturals, Sequences

OpData(ids) == [id : ids, time : Nat \cup {None, Linked}, silence : Nat \cup {None},
                mods : Seq(ids)]

EventData(voices, ids) ==
    [wait : Nat, vo : voices, ops : Seq(OpData(ids)), carriers : Seq(ids) \cup {None}]

IsProgram(p) ==
    /\ p.vo_count \in Nat /\ p.op_count \in Nat
    /\ p.events \in Seq(EventData(1..p.vo_count, 1..p.op_count))
=============================================================================
