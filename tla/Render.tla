-------------------------------- MODULE Render --------------------------------
(***************************************************************************)
(* Builder and interpreter together: a script is converted to a program    *)
(* (ScriptConv), which is then run (Interp).  They share the program only. *)
(***************************************************************************)
EXTENDS Interp

CONSTANTS Scripts, VoiceNoId

VARIABLES script, next, va, oa, opId, evVoice, evList, durMs

Conv == INSTANCE ScriptConv

builderVars == <<script, next, va, oa, opId, evVoice, evList, durMs>>
renderVars  == <<interpVars, builderVars>>

RenderInit == Conv!ConvInit /\ Idle

Build == pc = "none" /\ Conv!ConvNext
             /\ UNCHANGED <<instVars, pc, call, run, returned, past>>

Play == InterpNext /\ UNCHANGED builderVars

RenderNext == Build \/ Play

RenderSpec == RenderInit /\ [][RenderNext]_renderVars

(* The player drives the interpreter until it returns nothing. *)
RenderFairSpec == RenderSpec /\ WF_renderVars(RenderNext)

(* What is heard is what the script says: after each call, a carrier that  *)
(* by the times written in the script should still sound is playing in the *)
(* voice it was given, with exactly that long left.  Claimed for scripts   *)
(* that never set the time of a carrier again, of times that are not       *)
(* rounded.                                                                *)
Exact(ms) == ms \in {None, Linked} \/ (ms * RateNum) % RateDen = 0

NothingRounded ==
    \A i \in DOMAIN script :
        /\ Exact(script[i].wait)
        /\ \A k \in DOMAIN script[i].ops :
              Exact(script[i].ops[k].time) /\ Exact(script[i].ops[k].silence)

HeardAsWritten ==
    pc = "idle" /\ NothingRounded /\ Conv!NeverRetimed /\ agrees =>
        \A j \in 1..(event - 1) :
            LET end == MS_IN_SAMPLES(Conv!EndsAt(j, event))
            IN  Conv!NewOpGraph(script, j) /\ end > delivered =>
                    vn[evVoice[j]].dur = end - delivered

(* The event that adds an operator, the time it is added with, and the     *)
(* operators it is nested in, going outwards.                              *)
AddedIn(o) == Min({i \in DOMAIN script : o \in Conv!OpsOf(script[i])})

NodeOf(i, o) == script[i].ops[CHOOSE k \in DOMAIN script[i].ops : script[i].ops[k].op = o]

Above(o) ==
    LET parents(x) == {p \in Conv!OpsOf(script[AddedIn(x)]) :
                         LET m == NodeOf(AddedIn(x), p).mods
                         IN  m # None /\ \E k \in DOMAIN m : m[k] = x}
        above[x \in Conv!OpsOf(script[AddedIn(o)])] ==
            parents(x) \cup UNION {above[p] : p \in parents(x)}
    IN  above[o]

EndOf(o) ==
    LET i == AddedIn(o)
    IN  MS_IN_SAMPLES(Conv!At(i) + NodeOf(i, o).time)

(* Only what adds an operator gives it a time or a modulator list.         *)
NothingRetimed ==
    \A i \in DOMAIN script : \A k \in DOMAIN script[i].ops :
        LET n == script[i].ops[k]
        IN  AddedIn(n.op) = i \/ (n.time = None /\ n.mods = None)

NothingSilencedAbove(o) ==
    \A p \in Above(o) : \A i \in DOMAIN script :
        p \in Conv!OpsOf(script[i]) => NodeOf(i, p).silence \in {None, 0}

(* Nested operators keep time with the stream: one that has a time of its  *)
(* own has used up, after each call, just what passed while all operators  *)
(* it is nested in were playing, however the chunks fell.                  *)
NestedKeepTime ==
    pc = "idle" /\ NothingRounded /\ NothingRetimed =>
        \A o \in UNION {Conv!OpsOf(script[i]) : i \in 1..(event - 1)} :
            NodeOf(AddedIn(o), o).time # Linked /\ NothingSilencedAbove(o) =>
                LET outer == {p \in Above(o) : NodeOf(AddedIn(p), p).time # Linked}
                IN  op[opId[o]].time =
                      Greater(0, EndOf(o) - Min({delivered} \cup {EndOf(p) : p \in outer}))
=============================================================================
