------------------------------- MODULE Script -------------------------------
(***************************************************************************)
(* Script data as ParseConv hands it to ScriptConv: one flat sequence of   *)
(* events (src/script.h).  An event is                                     *)
(*    [wait |-> ms since the previous event, ops |-> its operator nodes]   *)
(* where the first node is the operator the event is about and the others  *)
(* are the modulators written inside it, all new.  A node is               *)
(*    [op, time, silence, mods]                                            *)
(* op names the operator (what a label reference resolves to); time and    *)
(* silence are None when the node does not set the parameter; mods is the  *)
(* modulator list the node gives its operator, None when it gives none.    *)
(* The three modulator lists of the code (FM, PM, AM) are one list here.   *)
(* The flags and links that parseconv.c leaves in the nodes for ScriptConv *)
(* are all determined by the sequence; the operators below compute them.   *)
(***************************************************************************)
EXTENDS Values, Naturals, Sequences

OpsOf(e) == {e.ops[k].op : k \in DOMAIN e.ops}

MainOp(e) == e.ops[1].op

(* Some node of an earlier event is of operator op: the node has a `prev`. *)
UsedBefore(s, i, op) == \E j \in 1..(i - 1) : op \in OpsOf(s[j])

(* SAU_SDEV_NEW_OPGRAPH: the event's own operator is a new carrier. *)
NewOpGraph(s, i) == ~UsedBefore(s, i, MainOp(s[i]))

(* SAU_SDEV_LATER_USED: a later event holds a node of one of its operators. *)
LaterUsed(s, i) == \E j \in (i + 1)..Len(s) : OpsOf(s[i]) \cap OpsOf(s[j]) # {}

(* e->root_ev of an event that is not NewOpGraph: the event in which its   *)
(* operator was first written, as carrier or as modulator.                 *)
RootEvent(s, i) ==
    CHOOSE j \in 1..(i - 1) : /\ MainOp(s[i]) \in OpsOf(s[j])
                              /\ ~UsedBefore(s, j, MainOp(s[i]))

AllOps(s) == UNION {OpsOf(s[i]) : i \in DOMAIN s}

NodeData(ops) == [op : ops, time : Nat \cup {None, Linked}, silence : Nat \cup {None},
                  mods : Seq(ops) \cup {None}]

(* The scripts a parse can end in, as far as the rest relies on it: a      *)
(* modulator list holds nodes that are new in the same event; a new node   *)
(* sets every parameter; a carrier's time is never Linked.                 *)
WellFormed(s) ==
    /\ s \in Seq([wait : Nat, ops : Seq(NodeData(AllOps(s)))])
    /\ \A i \in DOMAIN s :
        LET e == s[i] IN
        /\ Len(e.ops) > 0
        /\ \A j, k \in DOMAIN e.ops : e.ops[j].op = e.ops[k].op => j = k
        /\ \A k \in DOMAIN e.ops :
            LET n == e.ops[k] IN
            /\ k > 1 => ~UsedBefore(s, i, n.op)
            /\ ~UsedBefore(s, i, n.op) => n.time # None /\ n.silence # None
            /\ k = 1 /\ NewOpGraph(s, i) => n.time # Linked
            /\ n.mods # None =>
                 \A m \in DOMAIN n.mods :
                     \E j \in (k + 1)..Len(e.ops) : e.ops[j].op = n.mods[m]
=============================================================================
