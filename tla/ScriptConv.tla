------------------------------ MODULE ScriptConv ------------------------------
(***************************************************************************)
(* src/builder/scriptconv.c: program construction from script data.  Each  *)
(* script event becomes one program event; on the way it is given a voice  *)
(* (the current voice of its operator, an expired voice, or a new one) and *)
(* its operators are given IDs.  IDs count from 1 here, from 0 in the code.*)
(***************************************************************************)
EXTENDS Script, Program, Integers, SequencesExt, FiniteSetsExt

CONSTANTS Scripts,    \* the scripts that may be converted
          VoiceNoId   \* SAU_PVO_NO_ID, the largest 16-bit unsigned integer

ASSUME ConvAssumption ==
    /\ VoiceNoId \in Nat \ {0}
    /\ \A s \in Scripts : WellFormed(s)
    /\ None \notin Seq(Nat)

VARIABLES script,  \* the script
          next,    \* index of the next script event to convert
          va,      \* voice allocator: sequence of SAU_VoAllocState
          oa,      \* operator allocator: per operator ID its modulator list
          opId,    \* operator ID given to each operator seen (od->op_id)
          evVoice, \* voice ID given to each event converted (e->vo_id)
          evList,  \* program events made so far
          durMs,   \* sum of the waits so far
          prg      \* None until done, then the program or Rejected

convVars == <<script, next, va, oa, opId, evVoice, evList, durMs, prg>>

VO_MAX_ID == VoiceNoId - 1

(* voice_duration(): the longest time among the carriers of a new graph.   *)
(* The only carrier of an event is its own operator.                       *)
voice_duration(e) == e.ops[1].time

(* Age the voices by the wait before an event, never below zero. *)
AgeUnclamped(voices, wait) ==
    [v \in DOMAIN voices |-> [voices[v] EXCEPT !.dur = @ - wait]]

Age(voices, wait) ==
    [v \in DOMAIN voices |->
        [voices[v] EXCEPT !.dur = IF @ < wait THEN 0 ELSE @ - wait]]

(* The voices SAU_VoAlloc_get_id() regards as expired. *)
ExpiredByTime(s, voices) == {v \in DOMAIN voices : voices[v].dur = 0}

ExpiredByUse(s, voices) == {v \in DOMAIN voices : ~LaterUsed(s, voices[v].last)}

Expired(s, voices) ==
    {v \in DOMAIN voices : ~LaterUsed(s, voices[v].last) /\ voices[v].dur = 0}

(* SAU_VoAlloc_get_id(): the voice for event i of script s. *)
VoAlloc_get_id(s, i, voices, given) ==
    IF ~NewOpGraph(s, i) THEN given[RootEvent(s, i)]
    ELSE IF Expired(s, voices) # {} THEN Min(Expired(s, voices))
    ELSE Len(voices) + 1

(* SAU_VoAlloc_update(): the voices after event i has been given voice v.  *)
(* A voice taken anew starts from a cleared state with a blank list.       *)
VoAlloc_update(s, i, voices, v) ==
    LET blank == [dur |-> 0, last |-> i, carriers |-> <<>>]
        slots == IF v > Len(voices) THEN Append(voices, blank) ELSE voices
        kept  == IF NewOpGraph(s, i)
                 THEN [blank EXCEPT !.dur = voice_duration(s[i])]
                 ELSE [slots[v] EXCEPT !.last = i]
    IN  [slots EXCEPT ![v] = kept]

(* SAU_OpAlloc_get_id() for the nodes of an event: operators used before   *)
(* keep their ID, the others get the next ones in the order of the nodes.  *)
FreshUpTo(ids, e, k) == {j \in 1..k : e.ops[j].op \notin DOMAIN ids}

OpAlloc_ids(ids, e) ==
    [op \in DOMAIN ids \cup OpsOf(e) |->
        IF op \in DOMAIN ids THEN ids[op]
        ELSE LET k == CHOOSE k \in DOMAIN e.ops : e.ops[k].op = op
             IN  Cardinality(DOMAIN ids) + Cardinality(FreshUpTo(ids, e, k))]

(* ScriptConv_update_modlists(): a list that a node gives replaces the one *)
(* its operator had; a new operator starts with a blank list.              *)
update_modlists(lists, ids, e) ==
    [id \in DOMAIN lists \cup {ids[op] : op \in OpsOf(e)} |->
        LET given == {k \in DOMAIN e.ops :
                        ids[e.ops[k].op] = id /\ e.ops[k].mods # None}
        IN  CASE given # {} -> LET m == e.ops[Min(given)].mods
                               IN  [k \in DOMAIN m |-> ids[m[k]]]
              [] given = {} /\ id \in DOMAIN lists -> lists[id]
              [] OTHER -> <<>>]

(* SAU_VAS_GRAPH: the event changes what the voice's graph consists of. *)
ChangesGraphByLists(s, i) ==
    \E k \in DOMAIN s[i].ops : s[i].ops[k].mods # None

ChangesGraphByCarrier(s, i) == NewOpGraph(s, i)

ChangesGraph(s, i) ==
    \/ NewOpGraph(s, i)
    \/ \E k \in DOMAIN s[i].ops : s[i].ops[k].mods # None

(* The carrier list of the voice after the event (vas->carriers). *)
CarriersAfter(s, i, voices, v, ids) ==
    IF NewOpGraph(s, i) THEN <<ids[MainOp(s[i])]>> ELSE voices[v].carriers

(* The ID put into the program event is cut to 16 bits. *)
OutId(v) == ((v - 1) % (VoiceNoId + 1)) + 1

(* ScriptConv_convert_event(). *)
ConvertEvent ==
    /\ prg = None /\ next <= Len(script)
    /\ LET e    == script[next]
           old  == Age(va, e.wait)
           v    == VoAlloc_get_id(script, next, old, evVoice)
           vas  == VoAlloc_update(script, next, old, v)
           ids  == OpAlloc_ids(opId, e)
           mods == update_modlists(oa, ids, e)
           list == CarriersAfter(script, next, vas, v, ids)
           data(n) == [id |-> ids[n.op], time |-> n.time,
                       silence |-> n.silence, mods |-> mods[ids[n.op]]]
       IN  /\ va' = IF ChangesGraph(script, next)
                    THEN [vas EXCEPT ![v].carriers = list] ELSE vas
           /\ oa' = mods
           /\ opId' = ids
           /\ evVoice' = Append(evVoice, v)
           /\ evList' = Append(evList,
                [wait |-> e.wait, vo |-> OutId(v),
                 ops |-> [k \in DOMAIN e.ops |-> data(e.ops[k])],
                 carriers |-> IF ChangesGraph(script, next) THEN list ELSE None])
           /\ durMs' = durMs + e.wait
    /\ next' = next + 1
    /\ UNCHANGED <<script, prg>>

(* The end of ScriptConv_convert(): add the time the voices still play,    *)
(* check validity, create the program.                                     *)
CheckValidity(voices) == Len(voices) <= VO_MAX_ID

RemainingOfLast(voices) == IF voices = <<>> THEN 0 ELSE Last(voices).dur

RemainingMs(voices) == Max({0} \cup {voices[v].dur : v \in DOMAIN voices})

CreateProgram ==
    /\ prg = None /\ next > Len(script)
    /\ prg' = IF CheckValidity(va)
              THEN [events |-> evList, vo_count |-> Len(va),
                    op_count |-> Cardinality(DOMAIN oa),
                    duration |-> durMs + RemainingMs(va)]
              ELSE Rejected
    /\ UNCHANGED <<script, next, va, oa, opId, evVoice, evList, durMs>>

(* An allocation fails anywhere on the way (the MEM_ERR paths). *)
RunOutOfMemory ==
    /\ prg = None
    /\ prg' = Rejected
    /\ UNCHANGED <<script, next, va, oa, opId, evVoice, evList, durMs>>

ConvInit ==
    /\ script \in Scripts
    /\ next = 1 /\ va = <<>> /\ oa = <<>> /\ opId = <<>>
    /\ evVoice = <<>> /\ evList = <<>> /\ durMs = 0
    /\ prg = None

ConvNext == ConvertEvent \/ CreateProgram \/ RunOutOfMemory

ConvSpec == ConvInit /\ [][ConvNext]_convVars

-----------------------------------------------------------------------------
(* Properties.  They are stated over the script and what was made of it so *)
(* far; Done is the number of events converted.                            *)

Done == next - 1

(* The time of event i, in ms from the start. *)
At(i) ==
    LET at[j \in 0..Len(script)] == IF j = 0 THEN 0 ELSE at[j - 1] + script[j].wait
    IN  at[i]

(* When the carrier that event j adds falls silent, going by the events    *)
(* before event i: its time counts from the last event that set it.        *)
EndsAt(j, i) ==
    LET timed == {k \in j..(i - 1) : /\ MainOp(script[k]) = MainOp(script[j])
                                     /\ script[k].ops[1].time # None}
    IN  At(Max(timed)) + script[Max(timed)].ops[1].time

SoundsAt(j, i) == NewOpGraph(script, j) /\ EndsAt(j, i) > At(i)

(* No event sets the time of a carrier again. *)
NeverRetimed ==
    \A i \in DOMAIN script : NewOpGraph(script, i) \/ script[i].ops[1].time = None

(* Every event that is not a new carrier is about a carrier. *)
OnlyCarriersUpdated ==
    \A i \in DOMAIN script :
        \E j \in 1..i : NewOpGraph(script, j) /\ MainOp(script[j]) = MainOp(script[i])

(* Types, and the result: whatever comes out of the builder is a program   *)
(* as program.h and the interpreter have it.                               *)
ConvTypeOK ==
    /\ next \in 1..(Len(script) + 1)
    /\ Len(evVoice) = Done /\ Len(evList) = Done
    /\ \A v \in DOMAIN va :
        /\ va[v].dur \in Nat /\ va[v].last \in 1..Done
        /\ va[v].carriers \in Seq(DOMAIN oa)
    /\ \A op \in DOMAIN opId : opId[op] \in DOMAIN oa
    /\ durMs \in Nat
    /\ prg \notin {None, Rejected} => IsProgram(prg)

(* A new carrier is never given the voice of a carrier that still sounds   *)
(* ("reusing an expired voice if possible", scriptconv.c:95-96).           *)
ReusesOnlyExpired ==
    \A i \in 1..Done : \A j \in 1..(i - 1) :
        NewOpGraph(script, i) /\ SoundsAt(j, i) => evVoice[j] # evVoice[i]

(* The durations that SAU_VoAlloc_update() keeps are enough for that as    *)
(* long as no event sets the time of an existing carrier.                  *)
ReuseSafeUnlessRetimed == NeverRetimed => ReusesOnlyExpired

(* An event about an existing operator reaches the voice its carrier plays *)
(* in: no other carrier was given that voice in between.                   *)
UpdatesReachCarrier ==
    \A i \in 1..Done : \A j \in 1..(i - 1) :
        NewOpGraph(script, j) /\ MainOp(script[j]) = MainOp(script[i]) =>
            /\ evVoice[i] = evVoice[j]
            /\ \A k \in (j + 1)..i : NewOpGraph(script, k) => evVoice[k] # evVoice[j]

(* The LATER_USED flag keeps the voice, as long as it is the carrier that  *)
(* is updated and no modulator by itself.                                  *)
UpdatesOfCarriersReachThem == OnlyCarriersUpdated => UpdatesReachCarrier

(* What the interpreter counts on: what comes out is a program, and for    *)
(* its voice loop, voices enter it in the order of their IDs, each with a  *)
(* graph, and no ID was cut to 16 bits on the way or means "no voice".     *)
VoicesEnterInOrder ==
    prg \notin {None, Rejected} => IsProgram(prg) /\ \A i \in DOMAIN prg.events :
        LET before == {prg.events[j].vo : j \in 1..(i - 1)}
            ev     == prg.events[i]
        IN  /\ ev.vo \in 1..prg.vo_count /\ ev.vo # VoiceNoId + 1
            /\ ev.vo \notin before => /\ ev.vo = Cardinality(before) + 1
                                     /\ ev.carriers \notin {None, <<>>}

(* The graphs in a program are up to date: the one last given to a voice   *)
(* starts from the carrier last given the voice, and an event that changes *)
(* a modulator list comes with a graph.                                    *)
GraphStartsFromCarrier(i) ==
    evList[i].carriers # None =>
        LET own == Max({j \in 1..i : evVoice[j] = evVoice[i] /\ NewOpGraph(script, j)})
        IN  evList[i].carriers = <<opId[MainOp(script[own])]>>

ListChangesComeWithGraph(i) ==
    \A k \in DOMAIN evList[i].ops :
        LET id   == evList[i].ops[k].id
            past == {j \in 1..(i - 1) : \E m \in DOMAIN evList[j].ops : evList[j].ops[m].id = id}
            mods(j) == evList[j].ops[CHOOSE m \in DOMAIN evList[j].ops : evList[j].ops[m].id = id].mods
        IN  past # {} /\ mods(Max(past)) # mods(i) => evList[i].carriers # None

GraphsUpToDate ==
    \A i \in 1..Done : GraphStartsFromCarrier(i) /\ ListChangesComeWithGraph(i)

(* First-fit reuse is as good as it gets: with nothing used later, there   *)
(* are never more voices than carriers that sound at one time.             *)
AsManyVoicesAsSoundAtOnce ==
    Done > 0 /\ (\A i \in DOMAIN script : NewOpGraph(script, i)) =>
        \E i \in 1..Done : Len(va) = 1 + Cardinality({j \in 1..(i - 1) : SoundsAt(j, i)})

(* The duration of the program is the time its last carrier falls silent,  *)
(* or that of its last event.                                              *)
DurationIsLastEnd ==
    prg \notin {None, Rejected} /\ NeverRetimed =>
        prg.duration = Max({At(Len(script))} \cup
            {EndsAt(j, Len(script) + 1) : j \in {i \in DOMAIN script : NewOpGraph(script, i)}})
=============================================================================
