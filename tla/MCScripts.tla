------------------------------ MODULE MCScripts ------------------------------
(***************************************************************************)
(* Small sets of well-formed scripts.  The operator that event i adds as a *)
(* carrier is i, the modulator it adds is 10 + i.                          *)
(***************************************************************************)
EXTENDS Script

CONSTANTS MCFirstWaits, MCWaits, MCTimes

Node(op, t, sil, m) == [op |-> op, time |-> t, silence |-> sil, mods |-> m]

(* Osin tX, with or without a modulator that plays as long. *)
Adds(i) == {<<Node(i, t, 0, None)>> : t \in MCTimes} \cup
           {<<Node(i, t, 0, <<10 + i>>), Node(10 + i, Linked, 0, None)>> : t \in MCTimes}

(* @label with a new time, with a new modulator list, or with neither. *)
Updates(i, op) ==
    {<<Node(op, t, None, None)>> : t \in MCTimes \cup {None}} \cup
    {<<Node(op, None, None, <<10 + i>>), Node(10 + i, Linked, 0, None)>>}

(* What event i can be, if the operators it updates exist. *)
Menu(i) ==
    [wait : IF i = 1 THEN MCFirstWaits ELSE MCWaits,
     ops  : Adds(i) \cup UNION {Updates(i, op) : op \in 1..(i - 1)}
                    \cup {<<Node(10 + j, None, None, None)>> : j \in 1..(i - 1)}]

ScriptsOf2 == {s \in Menu(1) \X Menu(2) : WellFormed(s)}

ScriptsOf3 == {s \in Menu(1) \X Menu(2) \X Menu(3) : WellFormed(s)}

ScriptsOf4 == {s \in Menu(1) \X Menu(2) \X Menu(3) \X Menu(4) : WellFormed(s)}

(* Scripts about nested times and silence: a carrier with a modulator that *)
(* has one of its own, then an event for any of the three.  A time that is *)
(* given includes the silence given with it (parseconv.c, time_operator);  *)
(* silence is not set by itself on an operator whose time is running.      *)
NestedOp(id, m) == {Node(id, t, 0, m) : t \in MCTimes \cup {Linked}} \cup
                   {Node(id, t + 1, 1, m) : t \in MCTimes}

NestedStart == {[wait |-> 0, ops |-> <<Node(1, t, 0, <<11>>), a, b>>] :
                   t \in {2, 4}, a \in NestedOp(11, <<12>>), b \in NestedOp(12, None)}

NestedUpdates(times, silences) ==
    {[wait |-> w, ops |-> <<Node(o, t, s, None)>>] :
        w \in MCWaits, o \in {1, 11, 12}, t \in times, s \in silences}

NestedScripts ==
    {s \in NestedStart \X (NestedUpdates({None}, {None}) \cup NestedUpdates({2, 3}, {1})
                              \cup NestedUpdates({1, 2}, {None})) : WellFormed(s)}

NestedAndPlainScripts == NestedScripts \cup ScriptsOf2
=============================================================================
