------------------------------- MODULE Parser -------------------------------
(***************************************************************************)
(* src/reader/parser.c: parsing a script into parse data.  The text is a   *)
(* sequence of tokens; the parser is the stack of its parse_level() calls  *)
(* with their ParseLevel data, and the event and operator nodes made.      *)
(*                                                                         *)
(* A call of parse_in_event() or parse_in_settings(), made at a level,     *)
(* reads parameters until it meets something else and leaves that to       *)
(* parse_level().  What the first does not look up anew is its local `op', *)
(* read once when it is called.                                            *)
(*                                                                         *)
(* Nodes, scopes and groups are known by their index; 0 stands for NULL.   *)
(* Of the parameters of operators, the time, the silence, the lists of     *)
(* modulators and the amplitude with its ramp are kept; frequency and      *)
(* channel mixing have ramps like it, which no setting multiplies.  "@["   *)
(* (several operators at once, "experimental and incomplete",              *)
(* README.SAU:226) is not modelled.                                        *)
(***************************************************************************)
EXTENDS Values, Integers, Sequences, FiniteSets, SequencesExt

CONSTANTS Mixes,     \* BOUND: what tokens scripts mix, and up to how many: a set of
                     \*   records [of, upto]; a script is within one of them
          Labels,    \* the names of labels
          DefTime    \* the default time (ms)

ASSUME ParserAssumption ==
    /\ DefTime \in Nat
    /\ \A m \in Mixes : /\ m.upto \in Nat
                         /\ \A t \in m.of : t.k \in {"'", "@"} => t.v \in Labels

VARIABLES p,    \* the parser and what it has made
          text  \* history: the tokens read

(* parse_level() calls in progress and the data of each.  `local' tells of *)
(* the level's call of sub_f: the local of parse_in_event(), Settings for  *)
(* parse_in_settings(), 0 when there is none.                              *)
Settings == -1

TopLevel ==
    [scope |-> "top", nested |-> FALSE, sub_f |-> "none", local |-> 0,
     active_ev |-> FALSE, active_op |-> FALSE,
     event |-> 0, last_event |-> 0, operator |-> 0, last_operator |-> 0,
     parent_op |-> 0, op_prev |-> 0, op_scope |-> 0, set_label |-> None,
     composite |-> 0, next_wait |-> 0]

Level(s) == Last(s.pls)
SetLevel(s, pl) == [s EXCEPT !.pls = Append(Front(@), pl)]

(* A ramp, as SAU_Ramp_reset() leaves it: v0 when `state' is set, vt and    *)
(* time when `goal' is, which has a time of its own when `timed' is.       *)
NoRamp == [v0 |-> 0, vt |-> 0, time |-> 0, state |-> FALSE, goal |-> FALSE, timed |-> FALSE]

(* end_operator(): a node for a new operator sets every parameter.  The    *)
(* amplitude of what is no modulator is multiplied.                        *)
ScaledAmpOfAll(n, mult) ==
    IF n.amp.state \/ n.amp.goal THEN [n.amp EXCEPT !.v0 = @ * mult, !.vt = @ * mult] ELSE n.amp

ScaledAmp(n, mult) ==
    IF (n.amp.state \/ n.amp.goal) /\ ~n.nested
    THEN [n.amp EXCEPT !.v0 = @ * mult, !.vt = @ * mult] ELSE n.amp

end_operator(s) ==
    LET pl == Level(s)
        o  == pl.operator
    IN  IF ~pl.active_op THEN s
        ELSE SetLevel([s EXCEPT !.ops[o].sets_time = @ \/ s.ops[o].prev = 0,
                                !.ops[o].sets_silence = @ \/ s.ops[o].prev = 0,
                                !.ops[o].amp = ScaledAmp(s.ops[o], s.sopt.ampmult)],
                      [pl EXCEPT !.active_op = FALSE, !.operator = 0, !.last_operator = o])

(* end_event(): the event is the last so far in the duration group, or the *)
(* event that it is attached to is.                                        *)
GroupToEvent(dur, e, main) ==
    [first |-> IF dur.first = 0 THEN e ELSE dur.first, last |-> e]

GroupTo(dur, e, main) ==
    [first |-> IF dur.first = 0 THEN e ELSE dur.first, last |-> IF main # 0 THEN main ELSE e]

end_event(s) ==
    LET e     == Level(s).event
        ended == end_operator(s)
        pl    == Level(ended)
    IN  IF ~pl.active_ev THEN s
        ELSE SetLevel([ended EXCEPT !.durs[Len(s.durs)] = GroupTo(@, e, pl.composite)],
                      [pl EXCEPT !.active_ev = FALSE, !.event = 0, !.last_event = e])

(* begin_event(): a composite event is attached to the event of the node   *)
(* before it or, when it is not the first, follows that event.             *)
LinkCompositeToFirst(s, e, pope) ==
    LET first == IF Level(s).composite = 0 THEN pope ELSE Level(s).composite
    IN  SetLevel([s EXCEPT !.evs[first].composite = e], [Level(s) EXCEPT !.composite = first])

LinkComposite(s, e, pope) ==
    IF Level(s).composite = 0
    THEN SetLevel([s EXCEPT !.evs[pope].composite = e], [Level(s) EXCEPT !.composite = pope])
    ELSE [s EXCEPT !.evs[pope].next = e]

LinkEvent(s, e, composite) ==
    LET pop == Level(s).op_prev
    IN  CASE composite /\ pop = 0 -> s
          [] composite /\ pop # 0 -> LinkComposite(s, e, s.ops[pop].event)
          [] OTHER ->
                SetLevel(IF s.ev = 0 THEN [s EXCEPT !.first_ev = e, !.ev = e]
                         ELSE [s EXCEPT !.evs[s.ev].next = e, !.ev = e],
                         [Level(s) EXCEPT !.composite = 0])

begin_event(s, composite) ==
    LET ended  == end_event(s)
        e      == Len(s.evs) + 1
        made   == [ended EXCEPT !.evs = Append(@,
                     [next |-> 0, composite |-> 0, dur |-> Len(s.durs), op |-> 0,
                      wait |-> Level(s).next_wait, add_wait |-> FALSE])]
        linked == LinkEvent(made, e, composite)
    IN  SetLevel(linked, [Level(linked) EXCEPT !.event = e, !.next_wait = 0, !.active_ev = TRUE])

(* begin_operator(): a node for a new operator (op_prev is NULL) or for    *)
(* the operator of the node op_prev.  `at' is history: the token it is for. *)
begin_operator(s, composite) ==
    LET ended  == end_operator(s)
        pl     == Level(ended)
        o      == Len(s.ops) + 1
        pop    == pl.op_prev
        listed == pop = 0 /\ pl.op_scope # 0
        blank  == [event |-> pl.event, prev |-> pop, scopes |-> <<>>, has_composite |-> FALSE,
                   at |-> Len(text) + 1, time |-> s.sopt.def_time, linked |-> FALSE, silence |-> 0,
                   silence_added |-> FALSE, sets_time |-> FALSE, sets_silence |-> FALSE,
                   root   |-> IF pl.parent_op = 0 THEN pl.event ELSE s.ops[pl.parent_op].event,
                   nested |-> pl.op_scope # 0, set |-> FALSE, label |-> pl.set_label,
                   amp    |-> [NoRamp EXCEPT !.v0 = 1, !.state = TRUE]]
        node   == IF pop = 0 THEN blank
                  ELSE [blank EXCEPT !.root = s.ops[pop].root, !.nested = s.ops[pop].nested,
                                     !.set = ~composite, !.amp = NoRamp,
                                     !.label = IF @ # None THEN @ ELSE IF composite THEN None
                                               ELSE s.ops[pop].label]
        added  == [ended EXCEPT !.ops = Append(@, node)]
        marked == IF pop # 0 /\ composite
                  THEN [added EXCEPT !.ops[pop].has_composite = TRUE] ELSE added
        placed == IF listed THEN [marked EXCEPT !.scopes[pl.op_scope] = Append(@, o)]
                            ELSE [marked EXCEPT !.evs[pl.event].op = o]
        named  == IF node.label = None THEN placed
                  ELSE [placed EXCEPT !.label[node.label] = o]
    IN  SetLevel(named, [pl EXCEPT !.operator = o, !.active_op = TRUE, !.set_label = None])

(* begin_node(): in the present event if it may still hold the node. *)
begin_node(s, pop, composite) ==
    LET pl  == [Level(s) EXCEPT !.op_prev = pop]
        at  == SetLevel(s, pl)
        new == \/ pl.event = 0 \/ pl.sub_f # "event" \/ pl.next_wait # 0 \/ composite
               \/ ~(pop = 0 /\ pl.op_scope # 0) /\ s.evs[pl.event].op # 0
    IN  begin_operator(IF new THEN begin_event(at, composite) ELSE at, composite)

(* A call of parse_in_event() at the present level; without an operator it *)
(* complains and returns at once.                                          *)
parse_in_event(s) ==
    LET pl == Level(s)
    IN  IF pl.operator = 0 THEN s
        ELSE SetLevel(s, [pl EXCEPT !.local = pl.operator, !.sub_f = "event"])

parse_in_settings(s) ==
    SetLevel(s, [Level(s) EXCEPT !.local = Settings, !.sub_f = "settings"])

(* What ends each round of the loop in parse_level(). *)
ReturnToSub(s) ==
    CASE Level(s).sub_f = "event"    -> parse_in_event(s)
      [] Level(s).sub_f = "settings" -> parse_in_settings(s)
      [] OTHER                       -> s

(* enter_level() and leave_level(). *)
ParentOpKept(pl, scope) == pl.parent_op

ParentOp(pl, scope) == IF scope = "nest" THEN pl.operator ELSE pl.parent_op

enter_level(s, scope) ==
    LET pl   == Level(s)
        nest == scope = "nest"
        new  == [TopLevel EXCEPT !.scope = scope, !.nested = pl.nested \/ nest,
                    !.sub_f = pl.sub_f, !.event = pl.event, !.operator = pl.operator,
                    !.parent_op = ParentOp(pl, scope),
                    !.op_scope = IF nest THEN Len(s.scopes) + 1 ELSE pl.op_scope]
    IN  [s EXCEPT !.scopes = IF nest THEN Append(@, <<>>) ELSE @, !.pls = Append(@, new)]

leave_level(s) ==
    LET ended == end_operator(s)
        pl    == Level(ended)
        outer == [ended EXCEPT !.pls = Front(@)]
        block == IF pl.active_ev
                 THEN LET o == end_event(outer)
                      IN  SetLevel(o, [Level(o) EXCEPT !.active_ev = TRUE, !.event = pl.event])
                 ELSE outer
    IN  CASE pl.scope = "top"  -> [end_event(ended) EXCEPT !.pls = <<>>]
          [] pl.scope = "nest" ->
                IF pl.parent_op = 0 THEN outer
                ELSE [outer EXCEPT !.ops[pl.parent_op].scopes = Append(@, pl.op_scope)]
          [] pl.scope = "block" ->
                SetLevel(block, [Level(block) EXCEPT
                            !.last_event = IF pl.last_event # 0 THEN pl.last_event ELSE @])

-----------------------------------------------------------------------------
(* Reading a token.  Read(t, s) is that token t came and left the parser   *)
(* as s; parse_in_event() steps back for a token that is not its own.      *)
AllTokens == UNION {m.of : m \in Mixes}

MayCome(t) == \E m \in Mixes : Len(text) < m.upto /\ Range(text) \cup {t} \subseteq m.of

Read(k) == {t \in AllTokens : t.k = k}

Parsing == p.pls # <<>> /\ ~p.crashed /\ ~p.ended
InEvent == Level(p).local > 0
InSettings == Level(p).local = Settings
Deferred == SetLevel(p, [Level(p) EXCEPT !.local = 0])
DisallowedHere(s) ==
    Level(s).sub_f = "settings" \/ (Level(s).nested /\ Level(s).event # 0)

Goes(t, s) == MayCome(t) /\ p' = s /\ text' = Append(text, t)

(* "t", "t*" and "ti", and "s", for the local op of parse_in_event(). *)
SetTime == \E t \in Read("t") :
    /\ Parsing /\ InEvent
    /\ LET o == Level(p).local
           n == p.ops[o]
       IN  Goes(t, [p EXCEPT !.ops[o] =
               CASE t.v = None   -> [n EXCEPT !.time = p.sopt.def_time, !.set = FALSE, !.linked = FALSE,
                                              !.sets_time = TRUE]
                 [] t.v = Linked -> IF ~n.nested THEN n
                                    ELSE [n EXCEPT !.set = TRUE, !.linked = TRUE,
                                                   !.sets_time = TRUE]
                 [] OTHER        -> [n EXCEPT !.time = t.v, !.set = TRUE, !.linked = FALSE,
                                              !.sets_time = TRUE]])

SetSilence == \E t \in Read("s") :
    /\ Parsing /\ InEvent
    /\ LET o == Level(p).local
       IN  Goes(t, [p EXCEPT !.ops[o].silence = t.v, !.ops[o].sets_silence = TRUE])

(* "a" and the value, or the ramp: "{" for its goal, "{t" for its time by   *)
(* itself ("allow partial change", parser.c:430).  A ramp with both is as  *)
(* one with each, the goal first.  These look up the operator.             *)
SetAmp == \E t \in Read("a") :
    /\ Parsing /\ InEvent
    /\ LET o == Level(p).operator
       IN  Goes(t, [p EXCEPT !.ops[o].amp.v0 = t.v, !.ops[o].amp.state = TRUE])

WithGoal(ramp, v) ==
    [ramp EXCEPT !.vt = v, !.goal = TRUE, !.time = IF ramp.goal THEN @ ELSE p.sopt.def_time]

WithTime(ramp, v) == IF ramp.goal THEN [ramp EXCEPT !.time = v, !.timed = TRUE] ELSE ramp

SetRamp == \E t \in Read("{") \cup Read("{t") :
    /\ Parsing /\ InEvent
    /\ LET o == Level(p).operator
       IN  Goes(t, [p EXCEPT !.ops[o].amp =
                       IF t.k = "{" THEN WithGoal(@, t.v) ELSE WithTime(@, t.v)])

(* "S": settings, with "a", the multiplier, and "t", the default time.     *)
OpenSettings == \E t \in Read("S") :
    /\ Parsing
    /\ Goes(t, parse_in_settings(Deferred))

SetMultiplier == \E t \in Read("a") :
    /\ Parsing /\ InSettings
    /\ Goes(t, [p EXCEPT !.sopt.ampmult = t.v])

SetDefTime == \E t \in Read("t") :
    /\ Parsing /\ InSettings /\ t.v \notin {None, Linked}
    /\ Goes(t, [p EXCEPT !.sopt.def_time = t.v])

(* The bracket of a parameter that may have modulators: "p+[" or the like. *)
OpenNest == \E t \in Read("[") :
    /\ Parsing /\ InEvent
    /\ Goes(t, enter_level(p, "nest"))

(* parse_waittime(): "\t" marks the last event, if there is a last operator. *)
AddWait(s, t) ==
    LET pl == Level(s)
    IN  CASE t.v # None -> SetLevel(s, [pl EXCEPT !.next_wait = @ + t.v])
          [] t.v = None /\ pl.last_operator = 0 -> s
          [] t.v = None /\ pl.last_operator # 0 /\ pl.last_event = 0 -> [s EXCEPT !.crashed = TRUE]
          [] OTHER -> [s EXCEPT !.evs[pl.last_event].add_wait = TRUE]

WaitFails(s, t) == t.v = None /\ Level(s).last_operator = 0

(* "\" within an event: what follows is a new event for its operator. *)
WaitInEvent == \E t \in Read("wait") :
    /\ Parsing /\ InEvent
    /\ LET s == AddWait(p, t)
       IN  Goes(t, IF s.crashed \/ WaitFails(p, t) \/ Level(s).event = 0 THEN s
                   ELSE begin_node(s, Level(s).operator, FALSE))

WaitBetween == \E t \in Read("wait") :
    /\ Parsing /\ ~InEvent
    /\ Goes(t, ReturnToSub(IF DisallowedHere(p) THEN Deferred ELSE AddWait(p, t)))

(* "O": a new operator. *)
NewOperator == \E t \in Read("O") :
    /\ Parsing
    /\ Goes(t, parse_in_event(begin_node(Deferred, 0, FALSE)))

(* ";": a composite event for the operator of the event. *)
NewComposite == \E t \in Read(";") :
    /\ Parsing
    /\ Goes(t, IF Level(p).event = 0 \/ Level(p).sub_f = "settings" THEN ReturnToSub(Deferred)
               ELSE parse_in_event(begin_node(Deferred, Level(p).operator, TRUE)))

(* "'label" and "@label". *)
SetLabel == \E t \in Read("'") :
    /\ Parsing
    /\ Goes(t, ReturnToSub(IF Level(p).set_label # None THEN Deferred
                           ELSE SetLevel(Deferred, [Level(Deferred) EXCEPT !.set_label = t.v])))

UseLabel == \E t \in Read("@") :
    /\ Parsing
    /\ LET s == SetLevel(Deferred, [Level(Deferred) EXCEPT !.set_label = None, !.sub_f = "none"])
       IN  Goes(t, IF p.label[t.v] = 0 THEN s
                   ELSE parse_in_event(begin_node(s, p.label[t.v], FALSE)))

(* "|": what follows is in a new duration group. *)
Separate == \E t \in Read("|") :
    /\ Parsing
    /\ LET s == end_event(Deferred)
           n == SetLevel(s, [Level(s) EXCEPT !.sub_f = "none"])
       IN  Goes(t, IF DisallowedHere(p) THEN ReturnToSub(Deferred)
                   ELSE IF Last(s.durs).first = 0 THEN ReturnToSub(s)
                   ELSE [n EXCEPT !.durs = Append(@, [first |-> 0, last |-> 0])])

OpenBlock == \E t \in Read("<") :
    /\ Parsing
    /\ Goes(t, enter_level(Deferred, "block"))

CloseBlock == \E t \in Read(">") :
    /\ Parsing
    /\ Goes(t, ReturnToSub(IF Level(p).scope = "block" THEN leave_level(Deferred) ELSE Deferred))

(* "]": back in the parse_in_event() that met the "[". *)
CloseNest == \E t \in Read("]") :
    /\ Parsing
    /\ Goes(t, IF Level(p).scope = "nest" THEN leave_level(Deferred) ELSE ReturnToSub(Deferred))

(* A line break ends what the line was about, on top. *)
BreakLine == \E t \in Read("line") :
    /\ Parsing
    /\ Goes(t, IF Level(p).scope = "top"
               THEN SetLevel(Deferred, [Level(Deferred) EXCEPT !.sub_f = "none"])
               ELSE ReturnToSub(Deferred))

(* The end of the script ends every call in turn. *)
EndOfScript ==
    /\ p.pls # <<>> /\ ~p.crashed
    /\ p' = [leave_level(Deferred) EXCEPT !.ended = TRUE]
    /\ UNCHANGED text

ParserInit ==
    /\ p = [pls |-> <<TopLevel>>, ops |-> <<>>, evs |-> <<>>, scopes |-> <<>>,
            durs |-> <<[first |-> 0, last |-> 0]>>, first_ev |-> 0, ev |-> 0,
            label |-> [l \in Labels |-> 0],
            sopt |-> [ampmult |-> 1, def_time |-> DefTime],
            ended |-> FALSE, crashed |-> FALSE]
    /\ text = <<>>

ReadToken == SetTime \/ SetSilence \/ SetAmp \/ SetRamp \/ OpenSettings
               \/ SetMultiplier \/ SetDefTime \/ OpenNest \/ WaitInEvent \/ WaitBetween
               \/ NewOperator \/ NewComposite \/ SetLabel \/ UseLabel \/ Separate
               \/ OpenBlock \/ CloseBlock \/ CloseNest \/ BreakLine

ParserNext == ReadToken \/ EndOfScript

ParserSpec == ParserInit /\ [][ParserNext]_<<p, text>>

-----------------------------------------------------------------------------
(* Properties *)

(* Links are to nodes made; next and composite lead to later events, prev  *)
(* to earlier nodes; a level with an open event or operator has it.        *)
ParserTypeOK ==
    /\ \A k \in DOMAIN p.pls :
        LET pl == p.pls[k] IN
        /\ pl.event \in 0..Len(p.evs) /\ pl.last_event \in 0..Len(p.evs)
        /\ pl.local \in {Settings} \cup 0..Len(p.ops)
        /\ {pl.operator, pl.parent_op, pl.op_prev} \subseteq 0..Len(p.ops)
        /\ pl.active_ev => pl.event # 0
        /\ pl.active_op => pl.operator # 0
    /\ \A e \in DOMAIN p.evs : /\ p.evs[e].next \in {0} \cup (e + 1)..Len(p.evs)
                               /\ p.evs[e].composite \in {0} \cup (e + 1)..Len(p.evs)
    /\ \A o \in DOMAIN p.ops : p.ops[o].prev \in 0..(o - 1)

Parsed == p.pls = <<>>

(* The events that are found from the first, through next and composite.   *)
Found ==
    LET found[e \in DOMAIN p.evs] ==
            \/ e = p.first_ev
            \/ \E d \in 1..(e - 1) : found[d] /\ e \in {p.evs[d].next, p.evs[d].composite}
    IN  {e \in DOMAIN p.evs : found[e]}

InMainList ==
    LET main[e \in DOMAIN p.evs] ==
            e = p.first_ev \/ \E d \in 1..(e - 1) : main[d] /\ e = p.evs[d].next
    IN  {e \in DOMAIN p.evs : main[e]}

(* Every event written is found in the parse data ("Writing a ';' after an *)
(* event will allow specifying new parameter arguments", README.SAU:268).  *)
EventsKept == Found = DOMAIN p.evs

(* Composites in lists or blocks can be lost, or after them; none is in    *)
(* scripts that do not have both composites and brackets.                  *)
Has(kinds) == \E i \in DOMAIN text : text[i].k \in kinds
Bracketed  == Has({"[", "]", "<", ">"})
Straight   == ~Has({";"}) \/ ~Bracketed

(* A parameter that is read applies to the node last begun at its level:   *)
(* after "\" the new event's ("Delay the next event and all following      *)
(* ones", README.SAU:263), not the one before it.                          *)
ParametersReachOpenNode ==
    \A k \in DOMAIN p.pls : p.pls[k].local > 0 => p.pls[k].local = p.pls[k].operator

(* The duration groups divide up the main list ("Each event links to the   *)
(* duration node range", parser.h:31): each event of the list is within    *)
(* the range of the group it links to, and the last of the range is an     *)
(* event of the group, at which the group will be timed.  The ends of a    *)
(* range are not kept apart by level, so brackets can displace them.       *)
GroupsDivideEvents ==
    Parsed /\ ~Bracketed => \A e \in InMainList :
        LET dur == p.durs[p.evs[e].dur]
        IN  /\ e \in dur.first..dur.last
            /\ {dur.first, dur.last} \subseteq InMainList
            /\ p.evs[dur.first].dur = p.evs[e].dur /\ p.evs[dur.last].dur = p.evs[e].dur

(* The lists of modulators are trees: a new modulator is in one list, and a *)
(* list is of one operator node, made before what is in the list; so what  *)
(* goes down the lists (parseconv.c) comes to an end and meets each once.  *)
Holders(o) == {l \in DOMAIN p.scopes : o \in Range(p.scopes[l])}
Owners(l)  == {o \in DOMAIN p.ops : l \in Range(p.ops[o].scopes)}

ListsAreTrees ==
    /\ \A o \in DOMAIN p.ops :
        /\ Cardinality(Holders(o)) = IF p.ops[o].nested /\ p.ops[o].prev = 0 THEN 1 ELSE 0
        /\ \A l \in Holders(o) : \A parent \in Owners(l) : parent < o
    /\ \A l \in DOMAIN p.scopes : Cardinality(Owners(l)) <= 1
    /\ \A l \in DOMAIN p.scopes : IsInjective(p.scopes[l])
    /\ Parsed => \A l \in DOMAIN p.scopes : Owners(l) # {}

(* "\" delays "the next event and all following ones" (README.SAU:263):    *)
(* when an event is begun, no wait that came before is still to be given.  *)
WaitsDelayNext ==
    [][p'.ev # p.ev => \A k \in DOMAIN p'.pls : p'.pls[k].next_wait = 0]_<<p, text>>

(* A wait for "the last event" is never asked of none (parser.c:594).      *)
WaitsForSomething == ~p.crashed
=============================================================================
