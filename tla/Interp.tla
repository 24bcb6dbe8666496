------------------------------- MODULE Interp -------------------------------
(***************************************************************************)
(* src/interp/interp.c with src/interp/prealloc.c: running a program for   *)
(* as many samples as each call asks for.  Samples are counted, not        *)
(* computed: what is modelled is when events are handled, how far each     *)
(* operator and voice is run, and where in the output buffer it is put.    *)
(* IDs and positions in sequences count from 1; buffer positions from 0.   *)
(***************************************************************************)
EXTENDS Program, Integers, Sequences, SequencesExt, FiniteSetsExt

CONSTANTS
    Programs,   \* the programs that may be run
    BufLen,     \* BUF_LEN: samples in the mix buffers
    CallLens,   \* the values of buf_len in calls to SAU_Interp_run()
    RateNum,    \* the sample rate is RateNum / RateDen
    RateDen,    \*   samples per millisecond
    WordSize    \* number of values of uint32_t

ASSUME InterpAssumption ==
    /\ BufLen \in Nat \ {0}
    /\ CallLens \subseteq Nat \ {0}
    /\ RateNum \in Nat /\ RateDen \in Nat \ {0}
    /\ WordSize \in Nat \ {0}

(* What the builder promises; Render checks that it keeps to it. *)
ASSUME ProgramsAssumption ==
    \A p \in Programs : p \notin {None, Rejected} /\ IsProgram(p)

VARIABLES
    prg,        \* the program
    op,         \* operator nodes: time and silence left, inf flag, modulators
    vn,         \* voice nodes: pos, dur, graph (its list of carriers)
    events,     \* event nodes: prg_e, and the wait in samples
    voice,      \* o->voice: the voices before it are known to be over
    event,      \* o->event: the next event to handle
    event_pos,  \* o->event_pos: samples passed since the last event
    pc,         \* where SAU_Interp_run() is
    call,       \* its locals: buf_len, len, skip, base (sp), gen
    run,        \* locals of run_for_time(): time, len, i, sp, gen, last
    returned,   \* what the last call returned; None before and during a call
    agrees,     \* history: whether the waits of the voices agree with the events
    delivered,  \* history: samples asked for by the calls that returned
    lastAt,     \* history: where in the stream the last event was handled
    heard,      \* history: how far in the stream any voice was generated
    ran         \* history: how far each voice was run in the chunk

past     == <<agrees, delivered, lastAt, heard, ran>>
instVars == <<op, vn, events, voice, event, event_pos>>
interpVars == <<prg, op, vn, events, voice, event, event_pos, pc, call, run,
                returned, agrees, delivered, lastAt, heard, ran>>

Lesser(a, b)  == IF a < b THEN a ELSE b
Greater(a, b) == IF a > b THEN a ELSE b

(* SAU_MS_IN_SAMPLES(): lrintf(), so rounded to nearest and ties to even.  *)
MS_IN_SAMPLES(ms) ==
    LET n == ms * RateNum
        q == n \div RateDen
        r == 2 * (n % RateDen)
    IN  IF r > RateDen \/ (r = RateDen /\ q % 2 = 1) THEN q + 1 ELSE q

-----------------------------------------------------------------------------
(* prealloc.c *)

(* The accumulated wait that init_events() leaves in the pos of a voice:   *)
(* the last event that comes with a graph for it sets it, to the waits     *)
(* since the event with a graph that precedes it, whichever voice's.       *)
GraphEvents(p) == {i \in DOMAIN p.events : p.events[i].carriers # None}

WaitBefore(p, i) ==
    LET prev == Max({0} \cup {j \in GraphEvents(p) : j < i})
    IN  FoldLeft(+, 0, [j \in 1..(i - prev) |-> MS_IN_SAMPLES(p.events[prev + j].wait)])

InitialPos(p, v) ==
    LET given == {i \in GraphEvents(p) : p.events[i].vo = v}
    IN  IF given = {} THEN 0 ELSE -WaitBefore(p, Max(given))

(* The waits that prealloc.c leaves in the voices of a program agree with  *)
(* its events: each voice waits, from where the voice before it starts, up *)
(* to its own first event.  (A voice that starts at once never waits.)     *)
FirstEvent(p, v) == IF v = 0 THEN 0
                    ELSE Min({i \in DOMAIN p.events : p.events[i].vo = v})

SamplesUpTo(p, i) == FoldLeft(+, 0, [j \in 1..i |-> MS_IN_SAMPLES(p.events[j].wait)])

WaitsAgree(p) ==
    \A v \in 1..p.vo_count :
        LET at == SamplesUpTo(p, FirstEvent(p, v))
        IN  at = 0 \/ -InitialPos(p, v) = at - SamplesUpTo(p, FirstEvent(p, v - 1))

(* SAU_fill_PreAlloc() and init_for_program(): all nodes start zeroed. *)
Create ==
    /\ pc = "none" /\ prg \notin {None, Rejected}
    /\ op' = [id \in 1..prg.op_count |->
                [time |-> 0, silence |-> 0, inf |-> FALSE, mods |-> <<>>]]
    /\ vn' = [v \in 1..prg.vo_count |->
                [pos |-> InitialPos(prg, v), dur |-> 0, graph |-> <<>>]]
    /\ events' = [i \in DOMAIN prg.events |->
                    [prg_e |-> prg.events[i],
                     wait  |-> MS_IN_SAMPLES(prg.events[i].wait)]]
    /\ voice' = 1 /\ event' = 1 /\ event_pos' = 0
    /\ pc' = "idle"
    /\ agrees' = WaitsAgree(prg)
    /\ UNCHANGED <<prg, call, run, returned, delivered, lastAt, heard, ran>>

-----------------------------------------------------------------------------
(* handle_event() *)

(* The operator's part of an event. *)
UpdatedOp(n, od) ==
    [time    |-> IF od.time = None THEN n.time
                 ELSE IF od.time = Linked THEN 0 ELSE MS_IN_SAMPLES(od.time),
     inf     |-> IF od.time = None THEN n.inf ELSE od.time = Linked,
     silence |-> IF od.silence = None THEN n.silence ELSE MS_IN_SAMPLES(od.silence),
     mods    |-> od.mods]

UpdatedOps(ops, data) ==
    [id \in DOMAIN ops |->
        IF \E k \in DOMAIN data : data[k].id = id
        THEN UpdatedOp(ops[id], data[CHOOSE k \in DOMAIN data : data[k].id = id])
        ELSE ops[id]]

(* set_voice_duration(): the longest time left among the carriers. *)
LongestTime(ops, graph) == Max({0} \cup {ops[graph[k]].time : k \in DOMAIN graph})

(* The voice's part; e.graph is only set for a carrier list with members. *)
UpdatedVoiceFirst(n, ops, e) ==
    LET graph == IF e.carriers \in {None, <<>>} THEN n.graph ELSE e.carriers
    IN  [pos |-> 0, graph |-> graph, dur |-> LongestTime(op, graph)]

UpdatedVoice(n, ops, e) ==
    LET graph == IF e.carriers \in {None, <<>>} THEN n.graph ELSE e.carriers
    IN  [pos |-> 0, graph |-> graph, dur |-> LongestTime(ops, graph)]

LowerVoiceNever(old, vo) == old
LowerVoice(old, vo) == IF old > vo THEN vo ELSE old

HandleEvent ==
    /\ pc = "process" /\ event <= Len(events)
    /\ event_pos >= events[event].wait
    /\ LET e   == events[event].prg_e
           ops == UpdatedOps(op, e.ops)
       IN  /\ op' = ops
           /\ vn' = [vn EXCEPT ![e.vo] = UpdatedVoice(@, ops, e)]
           /\ voice' = LowerVoice(voice, e.vo)
    /\ event' = event + 1 /\ event_pos' = 0
    /\ lastAt' = delivered + call.base
    /\ UNCHANGED <<prg, events, pc, call, run, returned, agrees, delivered, heard, ran>>

-----------------------------------------------------------------------------
(* run_block() *)

(* n->time -= d, unless the operator plays as long as its parent. *)
TimeKept(n, d) == n.time
TimeLess(n, d) == IF n.inf THEN n.time ELSE (n.time - d) % WordSize

(* The part of len that an operator is run for. *)
BodyUnlimited(n, len) == len
BodyLen(n, len) == IF ~n.inf /\ n.time < len THEN n.time ELSE len

OpState(ids) == [time : Nat, silence : Nat, inf : BOOLEAN, mods : Seq(ids)]

(* Run operator id for len samples: first its silence, then its modulators *)
(* and itself for what is left.  The result has the operators after it and *)
(* the number of samples generated.  `open` are the operators being run    *)
(* further up (ON_VISITED), which guards against circular references.      *)
run_block(ops, id, len) ==
    LET Block[b \in [ops : [DOMAIN ops -> OpState(DOMAIN ops)], id : DOMAIN ops,
                     len : Nat, open : SUBSET DOMAIN ops]] ==
            LET n     == b.ops[b.id]
                zero  == Lesser(n.silence, b.len)
                quiet == [n EXCEPT !.time = TimeLess(n, zero), !.silence = @ - zero]
                begun == [b.ops EXCEPT ![b.id] = quiet]
                body  == BodyLen(quiet, b.len - zero)
                Mod(s, m) == Block[[ops |-> s, id |-> m, len |-> body,
                                    open |-> b.open \cup {b.id}]].ops
                run_  == FoldLeft(Mod, begun, n.mods)
            IN  IF n.silence > 0 /\ zero = b.len
                THEN [ops |-> begun, out |-> zero]
                ELSE IF b.id \in b.open
                THEN [ops |-> begun, out |-> b.len]
                ELSE [ops |-> [run_ EXCEPT ![b.id].time = TimeLess(run_[b.id], body)],
                      out |-> zero + body]
    IN  Block[[ops |-> ops, id |-> id, len |-> len, open |-> {}]]

(* The loop of run_voice() over the carriers of a graph. *)
RunCarriers(ops, graph, len) ==
    LET Carrier(s, id) ==
            IF s.ops[id].time = 0 THEN s
            ELSE LET r == run_block(s.ops, id, len)
                 IN  [ops |-> r.ops, out |-> Greater(s.out, r.out)]
    IN  FoldLeft(Carrier, [ops |-> ops, out |-> 0], graph)

-----------------------------------------------------------------------------
(* run_for_time(), for the voices from o->voice on, in chunks *)

ChunkLenFull(time) == BufLen
ChunkLen(time) == Lesser(time, BufLen)

StartChunk ==
    /\ pc = "chunks" /\ run.time > 0
    /\ run' = [run EXCEPT !.len = ChunkLen(run.time), !.i = voice, !.last = 0]
    /\ ran' = [v \in DOMAIN vn |-> 0]
    /\ pc' = "voices"
    /\ UNCHANGED <<prg, instVars, call, returned, agrees, delivered, lastAt, heard>>

(* A voice is waiting at least this long: the later ones are too. *)
KeepWaiting ==
    /\ pc = "voices" /\ run.i <= Len(vn) /\ vn[run.i].pos < 0
    /\ -vn[run.i].pos >= run.len
    /\ vn' = [vn EXCEPT ![run.i].pos = @ + run.len]
    /\ pc' = "write"
    /\ UNCHANGED <<prg, op, events, voice, event, event_pos, call, run, returned, past>>

(* The wait of a voice ends within the chunk: the rest of it is shorter. *)
EndWait ==
    /\ pc = "voices" /\ run.i <= Len(vn) /\ vn[run.i].pos < 0
    /\ -vn[run.i].pos < run.len
    /\ LET wait == -vn[run.i].pos
       IN  run' = [run EXCEPT !.sp = @ + wait, !.len = @ - wait, !.gen = @ + wait]
    /\ vn' = [vn EXCEPT ![run.i].pos = 0]
    /\ UNCHANGED <<prg, op, events, voice, event, event_pos, pc, call, returned, past>>

(* run_voice(). *)
RunVoice ==
    /\ pc = "voices" /\ run.i <= Len(vn) /\ vn[run.i].pos >= 0 /\ vn[run.i].dur # 0
    /\ LET v    == vn[run.i]
           time == Lesser(v.dur, run.len)
           r    == RunCarriers(op, v.graph, time)
       IN  /\ op' = r.ops
           /\ vn' = [vn EXCEPT ![run.i].dur = @ - time, ![run.i].pos = @ + time]
           /\ run' = [run EXCEPT !.i = @ + 1, !.last = Greater(@, r.out)]
           /\ ran' = [ran EXCEPT ![run.i] = time]
           /\ heard' = Greater(heard,
                delivered + call.base + (call.len - run.time) + r.out)
    /\ UNCHANGED <<prg, events, voice, event, event_pos, pc, call, returned,
                   agrees, delivered, lastAt>>

PassVoice ==
    /\ pc = "voices" /\ run.i <= Len(vn) /\ vn[run.i].pos >= 0 /\ vn[run.i].dur = 0
    /\ run' = [run EXCEPT !.i = @ + 1]
    /\ UNCHANGED <<prg, instVars, pc, call, returned, past>>

EndVoices ==
    /\ pc = "voices" /\ run.i > Len(vn)
    /\ pc' = "write"
    /\ UNCHANGED <<prg, instVars, call, run, returned, past>>

(* A plausible slip: the count of a chunk replaces that of the ones before. *)
WriteChunkCountingLast ==
    /\ pc = "write"
    /\ run' = [run EXCEPT !.time = @ - run.len, !.gen = run.last, !.sp = @ + run.last]
    /\ pc' = "chunks"
    /\ UNCHANGED <<prg, instVars, call, returned, past>>

(* SAU_Mixer_write() puts the chunk at sp and moves sp past it, but only   *)
(* when some voice generated anything.                                     *)
WriteChunk ==
    /\ pc = "write"
    /\ run' = [run EXCEPT !.time = @ - run.len, !.gen = @ + run.last, !.sp = @ + run.last]
    /\ pc' = "chunks"
    /\ UNCHANGED <<prg, instVars, call, returned, past>>

-----------------------------------------------------------------------------
(* SAU_Interp_run() *)

Call(n) ==
    /\ pc = "idle" /\ returned # 0
    /\ call' = [buf_len |-> n, len |-> n, skip |-> 0, base |-> 0, gen |-> 0]
    /\ returned' = None
    /\ pc' = "process"
    /\ UNCHANGED <<prg, instVars, run, past>>

RunLocals(time) ==
    [time |-> time, len |-> 0, i |-> 0, sp |-> call.base, gen |-> 0, last |-> 0]

(* The next event is still to come: run up to it at most. *)
LenToEventUnlimited(wait) == call.len
LenToEventShort(wait) == Lesser(call.len, wait - 1)
LenToEvent(wait) == Lesser(call.len, wait)

RunUpToEvent ==
    /\ pc = "process" /\ event <= Len(events)
    /\ event_pos < events[event].wait
    /\ LET len == LenToEvent(events[event].wait - event_pos)
       IN  /\ call' = [call EXCEPT !.len = len, !.skip = call.len - len]
           /\ event_pos' = event_pos + len
           /\ run' = RunLocals(len)
    /\ pc' = "chunks"
    /\ UNCHANGED <<prg, op, vn, events, voice, event, returned, past>>

RunToTheEnd ==
    /\ pc = "process" /\ event > Len(events)
    /\ run' = RunLocals(call.len)
    /\ pc' = "chunks"
    /\ UNCHANGED <<prg, instVars, call, returned, past>>

(* The block is done, with more of the buffer left for after the event. *)
ProcessMore ==
    /\ pc = "chunks" /\ run.time = 0 /\ call.skip > 0
    /\ call' = [call EXCEPT !.gen = @ + call.len, !.base = @ + call.len,
                            !.len = call.skip, !.skip = 0]
    /\ pc' = "process"
    /\ UNCHANGED <<prg, instVars, run, returned, past>>

ProcessedAll ==
    /\ pc = "chunks" /\ run.time = 0 /\ call.skip = 0
    /\ call' = [call EXCEPT !.gen = @ + run.gen]
    /\ pc' = "finish"
    /\ UNCHANGED <<prg, instVars, run, returned, past>>

(* Advance the starting voice. *)
AdvanceVoice ==
    /\ pc = "finish" /\ voice <= Len(vn) /\ vn[voice].dur = 0
    /\ voice' = voice + 1
    /\ UNCHANGED <<prg, op, vn, events, event, event_pos, pc, call, run, returned, past>>

Return(gen) ==
    /\ returned' = gen
    /\ delivered' = delivered + call.buf_len
    /\ pc' = "idle"
    /\ UNCHANGED <<prg, instVars, call, run, agrees, lastAt, heard, ran>>

SignalOver == voice > Len(vn) /\ event > Len(events)

ReturnEnd == pc = "finish" /\ SignalOver /\ Return(call.gen)

ReturnFull ==
    /\ pc = "finish" /\ ~SignalOver
    /\ voice <= Len(vn) => vn[voice].dur # 0
    /\ Return(call.buf_len)

Idle ==
    /\ op = <<>> /\ vn = <<>> /\ events = <<>>
    /\ voice = 1 /\ event = 1 /\ event_pos = 0
    /\ pc = "none"
    /\ call = [buf_len |-> 0, len |-> 0, skip |-> 0, base |-> 0, gen |-> 0]
    /\ run = [time |-> 0, len |-> 0, i |-> 0, sp |-> 0, gen |-> 0, last |-> 0]
    /\ returned = None
    /\ agrees = FALSE /\ delivered = 0 /\ lastAt = 0 /\ heard = 0 /\ ran = <<>>

InterpInit == prg \in Programs /\ Idle

RunVoices == StartChunk \/ KeepWaiting \/ EndWait \/ RunVoice \/ PassVoice
                \/ EndVoices \/ WriteChunk

InterpNext ==
    \/ Create
    \/ \E n \in CallLens : Call(n)
    \/ RunUpToEvent \/ HandleEvent \/ RunToTheEnd
    \/ RunVoices
    \/ ProcessMore \/ ProcessedAll \/ AdvanceVoice \/ ReturnEnd \/ ReturnFull

InterpSpec == InterpInit /\ [][InterpNext]_interpVars

(* The player calls until nothing is returned (player.c:118-129). *)
InterpFairSpec == InterpSpec /\ WF_interpVars(InterpNext)

-----------------------------------------------------------------------------
(* Properties *)

CallLocals == [buf_len : Nat, len : Nat, skip : Nat, base : Nat, gen : Nat]
RunLocalsType == [time : Nat, len : Nat, i : Nat, sp : Nat, gen : Nat, last : Nat]

(* Types of the nodes and locals; a time never comes to exceed its word    *)
(* and positions in the buffer never turn negative.                        *)
InterpTypeOK ==
    /\ pc \in {"none", "idle", "process", "chunks", "voices", "write", "finish"}
    /\ \A id \in DOMAIN op : op[id] \in OpState(DOMAIN op) /\ op[id].time < WordSize
    /\ \A v \in DOMAIN vn : /\ vn[v].pos \in Int /\ vn[v].dur \in Nat
                            /\ vn[v].graph \in Seq(DOMAIN op)
    /\ voice \in Nat \ {0} /\ event \in Nat \ {0} /\ event_pos \in Nat
    /\ call \in CallLocals /\ run \in RunLocalsType
    /\ returned \in Nat \cup {None}

(* Every event is handled at its own sample: the one that its wait puts it *)
(* at after the event before, however the calls cut up the stream.         *)
EventsOnTime ==
    [][event' # event /\ pc # "none" =>
          delivered + call.base = lastAt + events[event].wait]_interpVars

(* The voices that are skipped from o->voice down have nothing left to     *)
(* play, whichever voices events have reactivated.                         *)
PassedVoicesSilent == \A v \in DOMAIN vn : v < voice => vn[v].dur = 0

(* Running a program never adds to the time an operator has left; only     *)
(* events do ("Limit length to time duration of operator", interp.c:244).  *)
TimesOnlyFall ==
    [][event' = event /\ pc # "none" =>
          \A id \in DOMAIN op : op'[id].time <= op[id].time]_interpVars

(* What is written in a call lies inside the buffer of the call            *)
(* ("write buf_len new samples into the [...] buffer", interp.c:421-422).  *)
WritesInsideBuffer ==
    pc = "write" /\ run.last > 0 => run.sp + run.last <= call.buf_len

(* As long as the waits agree, each chunk is written where its samples     *)
(* belong, right after the ones before it, also after chunks in which      *)
(* nothing sounded, and so inside the buffer.                              *)
WritesInPlace ==
    pc = "write" /\ run.last > 0 /\ agrees =>
        /\ run.sp = call.base + (call.len - run.time)
        /\ run.last <= run.len

(* A call that returns less than asked for ends the signal: there is no    *)
(* event left to handle and no voice left to play.                         *)
ShortReturnIsTheEnd ==
    pc = "idle" /\ returned # None /\ returned # call.buf_len =>
        event > Len(events) /\ \A v \in DOMAIN vn : vn[v].dur = 0

(* What it returns then reaches just up to the last sound or event.        *)
CountsToTheEnd ==
    pc = "idle" /\ returned # None /\ returned # call.buf_len /\ agrees =>
        returned = Greater(0, Greater(heard, lastAt) - (delivered - call.buf_len))

(* Called again and again, the interpreter comes to return nothing, which  *)
(* is what ends the loop of the player.                                    *)
SignalEnds == (pc = "idle") ~> (returned = 0)

-----------------------------------------------------------------------------
(* The timeline that a program with agreeing waits describes (Timeline).   *)
StreamPos ==
    delivered + CASE pc = "process" -> call.base
                  [] pc = "finish" -> call.buf_len
                  [] pc \in {"chunks", "voices", "write"} -> call.base + call.len - run.time
                  [] OTHER -> 0

LeftToPlay ==
    [v \in DOMAIN vn |-> vn[v].dur + IF pc \in {"voices", "write"} THEN ran[v] ELSE 0]

Followed == pc # "none" /\ agrees

SoundTimeline == INSTANCE Timeline WITH
    Samples <- MS_IN_SAMPLES,
    started <- Followed,
    now     <- IF Followed THEN StreamPos ELSE 0,
    done    <- IF Followed THEN event - 1 ELSE 0,
    left    <- IF Followed THEN LeftToPlay ELSE <<>>,
    carrier <- IF Followed THEN [v \in DOMAIN vn |-> vn[v].graph] ELSE <<>>

FollowsTimeline == SoundTimeline!TimelineSpec
=============================================================================
