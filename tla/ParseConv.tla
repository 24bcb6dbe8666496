------------------------------ MODULE ParseConv ------------------------------
(***************************************************************************)
(* src/reader/parseconv.c: script data construction from parse data.  A    *)
(* first pass works out all times, event by event; a second one makes the  *)
(* script events in order, moving the composite events of each event into  *)
(* the main list before it goes on.  Times in ms are 32-bit unsigned.      *)
(***************************************************************************)
EXTENDS Parser, Script, FiniteSetsExt

CONSTANT WordSize  \* number of values of uint32_t

VARIABLES conv,   \* the conversion: the nodes, where it is, what it made
          timed   \* history: the event nodes after the first pass

Less(a, b) == (a - b) % WordSize
Plus(a, b) == (a + b) % WordSize

-----------------------------------------------------------------------------
(* The first pass.  d is the nodes: [ops, evs].                            *)

(* time_operator(): a modulator without a time plays as long as its parent *)
(* if it is not extended by composites; silence adds to the time.          *)
Fitted(n) == n.nested /\ ~n.set

(* time_ramp() *)
TimedRamp(ramp, default) == IF ramp.timed THEN ramp ELSE [ramp EXCEPT !.time = default]

RECURSIVE time_operator(_, _)
time_operator(d, o) ==
    LET n    == d.ops[o]
        fit  == Fitted(n)
        link == n.linked \/ (fit /\ ~n.has_composite)
        add  == ~link /\ ~n.silence_added
        time == IF add THEN Plus(n.time, n.silence) ELSE n.time
        amp  == IF link THEN n.amp ELSE TimedRamp(n.amp, n.time)
        e    == n.event
        next == d.evs[e].next
        wait == d.evs[e].add_wait
        ops  == [d.ops EXCEPT ![o].set = @ \/ fit, ![o].linked = link,
                              ![o].time = time, ![o].silence_added = @ \/ add, ![o].amp = amp]
        evs  == IF wait /\ next # 0
                THEN [d.evs EXCEPT ![next].wait = Plus(@, time), ![e].add_wait = FALSE]
                ELSE [d.evs EXCEPT ![e].add_wait = FALSE]
    IN  FoldLeft(time_operator, [ops |-> ops, evs |-> evs],
                 FlattenSeq([k \in DOMAIN n.scopes |-> p.scopes[n.scopes[k]]]))

(* time_event(): the operator, then each composite event in turn: it comes *)
(* when the part before it is over, and makes the whole longer.            *)
RECURSIVE time_event(_, _), time_composites(_, _, _, _)

time_event(d, e) ==
    LET own  == IF d.evs[e].op = 0 THEN d ELSE time_operator(d, d.evs[e].op)
        ce   == own.evs[e].composite
        e_op == own.ops[own.evs[ce].op].prev
    IN  IF ce = 0 THEN own
        ELSE time_composites([own EXCEPT !.ops[e_op].set = TRUE], ce, e_op, e_op)

time_composites(d, ce, prev, e_op) ==
    LET o      == d.evs[ce].op
        before == d.ops[prev]
        n      == d.ops[o]
        link   == ~n.set /\ n.nested /\ ~n.has_composite
        begun  == [evs |-> [d.evs EXCEPT ![ce].wait = Plus(@, before.time)],
                   ops |-> [d.ops EXCEPT ![o].set = TRUE, ![o].linked = @ \/ link,
                              ![o].time = IF n.set \/ link THEN @
                                          ELSE Less(before.time, before.silence)]]
        own    == time_event(begun, ce)
        extra  == Plus(own.ops[o].time, Less(own.evs[ce].wait, own.ops[prev].time))
        whole  == [own.ops EXCEPT ![o].sets_time = FALSE,
                     ![e_op].linked = @ \/ own.ops[o].linked,
                     ![e_op].time = IF own.ops[o].linked \/ own.ops[e_op].linked THEN @
                                    ELSE Plus(@, extra)]
        after  == [own EXCEPT !.ops = whole]
    IN  IF own.evs[ce].next = 0 THEN after
        ELSE time_composites(after, own.evs[ce].next, o, e_op)

(* The events from e up to the one before `stop`.                          *)
RECURSIVE Until(_, _, _)
Until(evs, e, stop) == IF e \in {0, stop} THEN <<>> ELSE <<e>> \o Until(evs, evs[e].next, stop)

(* time_durgroup() goes from the first event of the group to the one after  *)
(* e_last; from a first event outside the main list it never gets there.   *)
Leads(evs, dur, e_last) ==
    \/ evs[e_last].next = 0
    \/ e_last \in Range(Until(evs, p.durs[dur].first, 0))

GroupWait(times) == Max({0} \cup Range(times))

(* The waits after the k-th of n events, with the one after them all.      *)
WaitsAfterWithin(waits, k) == FoldLeft(Plus, 0, SubSeq(waits, k + 1, Len(waits) - 1))
WaitsAfter(waits, k) == FoldLeft(Plus, 0, SubSeq(waits, k + 1, Len(waits)))

(* time_durgroup(): the longest time in the group is waited for after it,  *)
(* and is what the operators that are given no time are fitted to.         *)
time_durgroup(d, e_last) ==
    LET after == d.evs[e_last].next
        group == Until(d.evs, p.durs[d.evs[e_last].dur].first, after)
        timed_evs == SelectSeq(group, LAMBDA e : d.evs[e].op # 0)
        wait  == GroupWait([k \in DOMAIN timed_evs |-> d.ops[d.evs[timed_evs[k]].op].time])
        waits == [k \in 1..(Len(group) + 1) |->
                    IF k <= Len(group) THEN d.evs[group[k]].wait
                    ELSE IF after = 0 THEN 0 ELSE d.evs[after].wait]
        fill(o) == LET k == CHOOSE j \in DOMAIN group : d.evs[group[j]].op = o
                   IN  Plus(wait, WaitsAfter(waits, k))
        unset == {d.evs[e].op : e \in {e \in Range(timed_evs) : ~d.ops[d.evs[e].op].set}}
    IN  [ops |-> [o \in DOMAIN d.ops |->
                    IF o \in unset THEN [d.ops[o] EXCEPT !.set = TRUE, !.time = fill(o)]
                    ELSE d.ops[o]],
         evs |-> IF after = 0 THEN d.evs ELSE [d.evs EXCEPT ![after].wait = Plus(@, wait)]]

-----------------------------------------------------------------------------
(* The second pass. *)

(* flatten_events(): the composite events of e are given their place among *)
(* the events after it.  f is where the loop is: ce is the next composite, *)
(* se and prev are the next ordinary event and the event before it.        *)
InsertBeforeUndelayed(f, due) ==
    [f EXCEPT !.evs[f.prev].next = f.ce, !.evs[f.ce].next = f.se,
              !.ce = f.evs[f.ce].next, !.prev = f.ce, !.wait = 0, !.added = 0]

InsertBeforeUnlinked(f, due) ==
    [f EXCEPT !.evs[f.se].wait = Less(@, due), !.evs[f.prev].next = f.ce,
              !.ce = f.evs[f.ce].next, !.prev = f.ce, !.wait = 0, !.added = 0]

InsertBefore(f, due) ==
    [f EXCEPT !.evs[f.se].wait = Less(@, due), !.evs[f.prev].next = f.ce,
              !.evs[f.ce].next = f.se, !.ce = f.evs[f.ce].next, !.prev = f.ce,
              !.wait = 0, !.added = 0]

InsertAfter(f, wait) ==
    LET rest == Less(f.evs[f.ce].wait, wait)
    IN  [f EXCEPT !.evs[f.ce].wait = rest, !.evs[f.se].next = f.ce,
                  !.evs[f.ce].next = f.evs[f.se].next, !.ce = f.evs[f.ce].next,
                  !.prev = f.ce, !.se = f.evs[f.se].next,
                  !.wait = 0, !.added = Plus(@, rest)]

RECURSIVE Flatten(_)
Flatten(f) ==
    LET wait == Plus(f.wait, f.evs[f.se].wait)
        due  == Plus(f.evs[f.ce].wait, f.added)
        next == f.evs[f.se].next
    IN  CASE f.ce = 0 -> f.evs
          [] f.ce # 0 /\ f.se = 0 -> [f.evs EXCEPT ![f.prev].next = f.ce]
          [] OTHER ->
                Flatten(IF next # 0 /\ Plus(wait, f.evs[next].wait) <= due
                        THEN [f EXCEPT !.prev = f.se, !.se = next, !.wait = wait]
                        ELSE IF f.evs[f.se].wait >= due THEN InsertBefore(f, due)
                                                        ELSE InsertAfter(f, wait))

flatten_events(evs, e) ==
    [Flatten([evs |-> evs, ce |-> evs[e].composite, se |-> evs[e].next, prev |-> e,
              wait |-> 0, added |-> 0]) EXCEPT ![e].composite = 0]

(* The nodes of an event in order, each before those in its lists. *)
Listed(o) == FlattenSeq([k \in DOMAIN p.ops[o].scopes |-> p.scopes[p.ops[o].scopes[k]]])

RECURSIVE NodesFrom(_)
NodesFrom(o) == <<o>> \o FlattenSeq([k \in DOMAIN Listed(o) |-> NodesFrom(Listed(o)[k])])

(* The first node of the operator of a node names the operator. *)
Operator(o) ==
    LET first[n \in DOMAIN p.ops] == IF p.ops[n].prev = 0 THEN n ELSE first[p.ops[n].prev]
    IN  first[o]

(* add_opdata(): what the script is told of a node. *)
add_opdata(o) ==
    LET n == conv.ops[o]
    IN  [op |-> Operator(o),
         time |-> IF ~n.sets_time THEN None ELSE IF n.linked THEN Linked ELSE n.time,
         silence |-> IF n.sets_silence THEN n.silence ELSE None,
         mods |-> IF n.scopes = <<>> THEN None
                  ELSE [k \in DOMAIN Listed(o) |-> Operator(Listed(o)[k])]]

(* LATER_USED is set for the event of the last use before. *)
FlagLaterUsedIfNew(made, uses, o) ==
    [made EXCEPT ![uses[o]].later_used = made[uses[o]].new_opgraph]

FlagLaterUsed(made, uses, o) == [made EXCEPT ![uses[o]].later_used = TRUE]

(* add_event() and update_opcontext(): a node whose previous one was left  *)
(* out is left out.  last_use is the event each operator was last used in. *)
add_event(e) ==
    LET main  == conv.evs[e].op
        prev  == IF main = 0 THEN 0 ELSE p.ops[main].prev
        i     == Len(conv.made) + 1
        again == prev # 0 /\ prev \in conv.converted
        nodes == IF main = 0 \/ (prev # 0 /\ ~again) THEN <<>> ELSE NodesFrom(main)
        ev    == [of |-> e, wait |-> conv.evs[e].wait,
                  ops |-> [k \in DOMAIN nodes |-> add_opdata(nodes[k])],
                  new_opgraph |-> nodes # <<>> /\ prev = 0 /\ ~p.ops[main].nested,
                  later_used |-> FALSE,
                  root_ev |-> IF again THEN conv.made_of[p.ops[main].root] ELSE 0]
        flagged == IF again THEN FlagLaterUsed(conv.made, conv.last_use, Operator(main))
                            ELSE conv.made
    IN  [conv EXCEPT !.made = Append(flagged, ev),
                     !.made_of[e] = i,
                     !.converted = @ \cup Range(nodes),
                     !.last_use = [o \in DOMAIN @ |->
                        IF \E n \in Range(nodes) : Operator(n) = o THEN i ELSE @[o]]]

-----------------------------------------------------------------------------
(* convert(), once the script is parsed. *)

ConvInit == ParserInit /\ conv = None /\ timed = None

Parse == ParserNext /\ UNCHANGED <<conv, timed>>

BeginTiming ==
    /\ Parsed /\ conv = None
    /\ conv' = [step |-> "time", pe |-> p.first_ev, ops |-> p.ops, evs |-> p.evs,
                made |-> <<>>, made_of |-> [e \in DOMAIN p.evs |-> 0], converted |-> {},
                last_use |-> [o \in DOMAIN p.ops |-> 0]]
    /\ UNCHANGED <<p, text, timed>>

TimeNext ==
    /\ conv # None /\ conv.step = "time" /\ conv.pe # 0
    /\ LET own  == time_event([ops |-> conv.ops, evs |-> conv.evs], conv.pe)
           dur  == conv.evs[conv.pe].dur
           ends == p.durs[dur].last = conv.pe
           all  == IF ends THEN time_durgroup(own, conv.pe) ELSE own
       IN  conv' = IF ends /\ ~Leads(own.evs, dur, conv.pe) THEN [conv EXCEPT !.step = "crashed"]
                   ELSE [conv EXCEPT !.ops = all.ops, !.evs = all.evs,
                                     !.pe = all.evs[conv.pe].next]
    /\ UNCHANGED <<p, text, timed>>

BeginConverting ==
    /\ conv # None /\ conv.step = "time" /\ conv.pe = 0
    /\ conv' = [conv EXCEPT !.step = "convert", !.pe = p.first_ev]
    /\ timed' = [ops |-> conv.ops, evs |-> conv.evs]
    /\ UNCHANGED <<p, text>>

ConvertNext ==
    /\ conv # None /\ conv.step = "convert" /\ conv.pe # 0
    /\ LET added == add_event(conv.pe)
           flat  == flatten_events(conv.evs, conv.pe)
       IN  conv' = [added EXCEPT !.evs = flat, !.pe = flat[conv.pe].next]
    /\ UNCHANGED <<p, text, timed>>

ConvNext == Parse \/ BeginTiming \/ TimeNext \/ BeginConverting \/ ConvertNext

ConvSpec == ConvInit /\ [][ConvNext]_<<p, text, conv, timed>>

-----------------------------------------------------------------------------
(* Properties *)

Said == INSTANCE ParameterText

Converted == conv # None /\ conv.step = "convert" /\ conv.pe = 0

(* The script, in the form that ScriptConv takes. *)
TheScript == [i \in DOMAIN conv.made |-> [wait |-> conv.made[i].wait, ops |-> conv.made[i].ops]]

(* Each event of the script has its operator: a label refers to "future    *)
(* changes later in the script" (README.SAU:231), so what it refers to is  *)
(* there before.                                                           *)
ReferencesKept == Converted => \A i \in DOMAIN conv.made : conv.made[i].ops # <<>>

(* What the builder relies on (Script.tla) is what the parser makes: a     *)
(* well-formed script, in whose events the flags and root events tell what *)
(* Script.tla works out from all of it.  (A ";" first in a list is for the *)
(* operator outside and can leave that one without a time of its own.)     *)
FlagsTellOfScript(i) ==
    LET ev == conv.made[i] IN
    /\ ev.new_opgraph <=> NewOpGraph(TheScript, i)
    /\ ev.later_used <=> LaterUsed(TheScript, i)
    /\ ~ev.new_opgraph => ev.root_ev = RootEvent(TheScript, i)

MakesScript ==
    Converted /\ ReferencesKept /\ (Straight \/ Said!ListsBegun) =>
        WellFormed(TheScript) /\ \A i \in DOMAIN conv.made : FlagsTellOfScript(i)

(* Parsing and flattening lose no event, take none twice, and keep the     *)
(* main list and the composites of each event in the order written.  (All  *)
(* of this but the first holds of the events that parsing has kept.)       *)
Main == IF timed = None THEN <<>> ELSE Until(timed.evs, p.first_ev, 0)
CompositesOf(e) == Until(timed.evs, timed.evs[e].composite, 0)
Place(e) == conv.made_of[e]

EventsOnceInOrder ==
    Converted =>
        /\ Straight => EventsKept
        /\ \A e \in Found : Place(e) # 0 /\ conv.made[Place(e)].of = e
        /\ Len(conv.made) = Cardinality(Found)
        /\ \A list \in {Main} \cup {<<e>> \o CompositesOf(e) : e \in Found} :
              \A j, k \in DOMAIN list : j < k => Place(list[j]) < Place(list[k])

(* When an event comes, by the first pass: each a wait after the one before *)
(* it in its list, a composite list going on from the event it belongs to.  *)
Meant ==
    LET at[e \in Found] ==
            LET before == {d \in Found : e = timed.evs[d].next \/ e = timed.evs[d].composite}
            IN  timed.evs[e].wait + (IF before = {} THEN 0 ELSE at[CHOOSE d \in before : TRUE])
    IN  at

Comes(i) == FoldLeft(+, 0, [j \in 1..i |-> conv.made[j].wait])

(* Composite events "will be given their place in the ordinary event list" *)
(* (parseconv.c:151): each event comes when the times worked out say.      *)
TimesKept == Converted => \A e \in Found : Comes(Place(e)) = Meant[e]

(* They are, when the composites of an event are over with before the next *)
(* ordinary event comes.                                                   *)
InTurn == \A k \in 1..(Len(Main) - 1) :
              \A c \in Range(CompositesOf(Main[k])) : Meant[c] <= Meant[Main[k + 1]]

TimesKeptInTurn == Converted /\ InTurn => TimesKept

(* A time that is not given is "default time for that piece of the script" *)
(* (parser.h:31): it lasts until the next group begins; and a "|" "delays  *)
(* what follows by the duration of prior events" (README.SAU): all that is *)
(* before it is over when the event after it comes.  (A "|" can come       *)
(* between an event and its operator when it comes first in a block.)      *)
Blockless == ~Has({"<"})

FillsGroup(e) == LET o == p.evs[e].op IN o # 0 /\ ~p.ops[o].set /\ ~p.ops[o].has_composite

OverAt(e) == Meant[e] + timed.ops[timed.evs[e].op].time

GroupsAreTimed ==
    Converted /\ Blockless =>
        /\ \A k, l \in DOMAIN Main :
              /\ FillsGroup(Main[k])
              /\ l > 1 /\ p.durs[p.evs[Main[k]].dur].last = Main[l - 1]
              => OverAt(Main[k]) = Meant[Main[l]]
        /\ \A e \in Range(Main), d \in Range(Main) :
              p.evs[d].dur < p.evs[e].dur /\ timed.evs[d].op # 0 => OverAt(d) <= Meant[e]

(* What was set, in the text, applies to what was written after it and to  *)
(* no node that was open then ("applied when adding a top-level carrier",  *)
(* README.SAU:58-59).  The code multiplies when a node ends, by what is    *)
(* set then, so that settings after a carrier apply to it too.             *)
SettingsApart ==
    \A o \in DOMAIN p.ops, j \in Said!Settings("a") :
        p.ops[o].at < j /\ ~p.ops[o].nested => Said!OverBefore(p.ops[o].at, j)

AmpAsWritten(o) ==
    LET n    == p.ops[o]
        amp  == timed.ops[o].amp
        mult == IF n.nested THEN 1 ELSE Said!SetBefore(n.at, "a", 1)
        values == Said!Parameters(n.at, "a")
        goals  == Said!Parameters(n.at, "{")
    IN  /\ amp.state <=> values # {} \/ n.prev = 0
        /\ amp.state => amp.v0 = mult * Said!Latest(values, 1)
        /\ amp.goal <=> goals # {}
        /\ amp.goal => amp.vt = mult * Said!Latest(goals, None)

(* A ramp takes the time given for it, else that of the operator ("default *)
(* re-use time duration", README.SAU:188): the time written, before or     *)
(* after it, or the default, or what a composite has from the one before.  *)
RampAsLongAs(o) ==
    LET n     == p.ops[o]
        times == {i \in Said!Parameters(n.at, "t") : text[i].v # Linked}
        goals == Said!Parameters(n.at, "{")
        own   == {i \in Said!Parameters(n.at, "{t") : \E j \in goals : j < i}
        part  == text[n.at].k = ";"
    IN  CASE own # {}             -> Said!Latest(own, None)
          [] own = {} /\ times # {} -> Said!Latest(times, None)
          [] own = {} /\ times = {} /\ n.has_composite /\ ~part
                                  -> Said!SetBefore(n.at, "t", DefTime)
          [] OTHER                -> Less(timed.ops[o].time, n.silence)

(* Operators that are fitted to others or to what they are in are timed    *)
(* after their ramps are, which then take the default time.                *)
FittedLater(o) ==
    timed.ops[o].linked \/ ~(p.ops[o].set \/ p.ops[o].has_composite \/ text[p.ops[o].at].k = ";")

Reached == UNION {Range(NodesFrom(p.evs[e].op)) : e \in {e \in Found : p.evs[e].op # 0}}

ParametersAsWritten ==
    Converted /\ Blockless /\ ~Has({"wait"}) /\ Said!ListsBegun /\ SettingsApart =>
        \A o \in Reached :
            /\ AmpAsWritten(o)
            /\ timed.ops[o].amp.goal /\ ~FittedLater(o) =>
                  timed.ops[o].amp.time = RampAsLongAs(o)

(* Two that the code does not keep to; they are checked by no run.         *)
MultipliedWhenAdded ==
    Converted /\ Blockless /\ ~Has({"wait"}) /\ Said!ListsBegun =>
        \A o \in Reached : AmpAsWritten(o)

RampsFitted ==
    Converted /\ Blockless /\ ~Has({"wait"}) /\ Said!ListsBegun =>
        \A o \in Reached : timed.ops[o].amp.goal /\ ~timed.ops[o].linked =>
            timed.ops[o].amp.time = RampAsLongAs(o)
=============================================================================
