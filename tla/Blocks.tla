------------------------------- MODULE Blocks -------------------------------
(***************************************************************************)
(* run_voice() and run_block() of src/interp/interp.c, step by step, with  *)
(* the buffers they pass values through (sized in src/interp/prealloc.c),  *)
(* the ramps of the parameters, the oscillator's use of its inputs         *)
(* (src/interp/osc.c) and the mixer's of the result (src/interp/mixer.c).  *)
(* One voice is run, in blocks of any lengths, with events in between.     *)
(*                                                                         *)
(* A value in a buffer says what it is: a parameter of an operator at one  *)
(* of its samples, or the outputs mixed there.  Buffers are reused by all  *)
(* that runs, so that what is read is always what was written last.        *)
(***************************************************************************)
EXTENDS Ramp, Sequences, SequencesExt, FiniteSetsExt

CONSTANTS
  Graphs,     \* the voices: each has carriers and, for each operator, mods,
              \*   time (Linked when it plays as long as its carrier), silence
              \*   and ratio (of its frequency)
  BlockLens,  \* lengths of the blocks, up to BUF_LEN
  RampUpdates,\* what an event may set: sets of [op, param, src]
  TimeUpdates,\* and of [op, time, silence]
  MaxEvents,  \* BOUND: events after the start
  Linked

ASSUME BlocksAssumption == BlockLens \subseteq Nat \ {0} /\ MaxEvents \in Nat

Uses == {"fm", "pm", "am"}
Params == {"freq", "freq2", "amp", "amp2"}

VARIABLES
  graph,    \* the voice's graph
  op,       \* operator nodes: time, silence, inf, and the ramps par
  pan,      \* the voice's panning
  dur,      \* vn->duration
  bufs,     \* o->bufs: for each buffer and index written, what it holds
  stack,    \* the run_block() calls that have not returned
  run,      \* locals of run_voice(): time, i, acc_ind, out_len
  pc,       \* "idle" between blocks, "carriers" in one
  n,        \* history: samples generated by each operator
  at,       \* history: samples of the voice, at the start of the block
  told,     \* history: when each operator is to be silent and to end
  ideal,    \* history: the ideal ramps, of operators and the voice
  muls,     \* history: at each sample of an operator, its carrier's sample
  apart,    \* history: operators that were not run from where their body began
  heard,    \* history: what the mixer got in the block
  done      \* history: number of events so far

nodeVars == <<graph, op, pan, dur>>
history == <<at, told, ideal, heard, done>>
blockVars == <<nodeVars, bufs, stack, run, pc, n, muls, apart, history>>

Ops == DOMAIN graph.ops
Carriers == ToSet(graph.carriers)
ModsOf(g, o) == UNION {ToSet(g.ops[o].mods[use]) : use \in Uses}
Parent(o) == CHOOSE p \in Ops : o \in ModsOf(graph, p)
Lesser(x, y) == IF x < y THEN x ELSE y

-----------------------------------------------------------------------------
(***************************************************************************)
(* How many buffers there are.                                             *)
(***************************************************************************)

\* traverse_op_node(): the level at which an operator is reached decides.
NestMax(g) ==
  LET level[o \in DOMAIN g.ops] ==
        IF \E p \in DOMAIN g.ops : o \in ModsOf(g, p)
        THEN 1 + level[CHOOSE p \in DOMAIN g.ops : o \in ModsOf(g, p)]
        ELSE 0
  IN  Max({level[o] : o \in DOMAIN g.ops})

COUNT_BUFS(op_nest_depth) == (1 + op_nest_depth) * 7

max_bufs == COUNT_BUFS(NestMax(graph))

-----------------------------------------------------------------------------
(***************************************************************************)
(* What buffers hold.                                                      *)
(***************************************************************************)
Junk == <<"junk">>
Zero == <<"zero">>
Osc(o, k) == <<"osc", o, k>>
Output(layers) == <<"out", layers>>
Param(p, o, k, value) == <<p, o, k, value>>
Mixed(p, o, k, value, value2, layers) == <<p, o, k, value, value2, layers>>

Read(b, i) == IF b \in DOMAIN bufs /\ i \in DOMAIN bufs[b] THEN bufs[b][i] ELSE Junk

\* The layers of an output; anything else is a layer that should not be there.
Layers(e) == IF e[1] = "out" THEN e[2] ELSE <<e>>

\* A multiplier is known by the sample it is the frequency at.
NameOf(e) == IF e[1] = "freq" THEN <<e[1], e[2], e[3]>> ELSE Junk

\* What is written where there is no buffer is not to be found again.
Written(m, b, vals) ==
  IF b >= max_bufs THEN m
  ELSE [x \in DOMAIN m \cup {b} |->
          IF x # b THEN m[x]
          ELSE [i \in DOMAIN vals \cup (IF b \in DOMAIN m THEN DOMAIN m[b] ELSE {}) |->
                  IF i \in DOMAIN vals THEN vals[i] ELSE m[b][i]]]

-----------------------------------------------------------------------------
(***************************************************************************)
(* run_block().  A frame of the stack has its arguments and locals: id,    *)
(* bufs (the pointer, which moves up), len, layer (acc_ind), par (the      *)
(* buffer of parent_freq, None for a carrier), use; where it is (at) and   *)
(* in which modulator (k); zero_len, the length of its body, and the       *)
(* buffers it uses itself.  The samples that it begins at are noted: c is  *)
(* that of its carrier, or of the voice, and first its own.                *)
(***************************************************************************)
None == -1

Frame(id, b, len, layer, par, use, c) ==
  [id |-> id, bufs |-> b, len |-> len, layer |-> layer, par |-> par, use |-> use,
   at |-> "enter", k |-> 1, zero |-> 0, body |-> 0, s |-> b, freq |-> None,
   freq2 |-> None, amp |-> None, amp2 |-> None, pm |-> None, c |-> c, first |-> n[id]]

Top == stack[Len(stack)]
WithTop(f) == [stack EXCEPT ![Len(stack)] = f]
Pop == SubSeq(stack, 1, Len(stack) - 1)
ModsOfTop == graph.ops[Top.id].mods[Top.at]

TimeLess(node, d) == IF node.inf THEN node.time ELSE (node.time - d) % PosSize

Zeroed(m, b, from, len) == Written(m, b, [i \in from..(from + len - 1) |-> Output(<<Zero>>)])

\* A carrier's run_block() tells run_voice() how much it generated.
Returned(f) ==
  run' = IF Len(stack) = 1 /\ f.zero + f.body > run.out_len
         THEN [run EXCEPT !.out_len = f.zero + f.body]
         ELSE run

\* Silence is zero-filled, unless there is something already; with nothing
\* left, that is all.  Then the length is limited to the time of the operator.
Enter ==
  LET f == Top
      node == op[f.id]
      zero == Lesser(node.silence, f.len)
      rest == f.len - zero
      left == TimeLess(node, zero)
      body == IF ~ node.inf /\ left < rest THEN left ELSE rest
      silent == node.silence > 0 /\ rest = 0
  IN  /\ pc = "carriers" /\ stack # <<>> /\ f.at = "enter"
      /\ op' = [op EXCEPT ![f.id].silence = @ - zero, ![f.id].time = left]
      /\ bufs' = IF f.layer = 0 THEN Zeroed(bufs, f.s, 0, zero) ELSE bufs
      /\ IF silent
         THEN stack' = Pop /\ Returned([f EXCEPT !.zero = zero])
         ELSE /\ stack' = WithTop([f EXCEPT !.zero = zero, !.body = body, !.at = "freq",
                                            !.bufs = @ + 1])
              /\ UNCHANGED run
      /\ apart' = IF ~ silent /\ (zero > 0 \/ body = 0) THEN apart \cup {f.id} ELSE apart
      /\ UNCHANGED <<graph, pan, dur, pc, n, muls, history>>

Multipliers(f) ==
  IF f.par = None THEN NULL ELSE [i \in 0..(Max(BlockLens) - 1) |-> NameOf(Read(f.par, i))]

Values(f, p, mul) ==
  LET v == Filled(op[f.id].par[p], f.body, mul)
  IN  [i \in 0..(f.body - 1) |-> Param(p, f.id, f.first + i, v[i])]

\* The frequency, and the upper one when it is to be modulated.
RunFreq ==
  LET f == Top
      mul == Multipliers(f)
      ranged == graph.ops[f.id].mods["fm"] # <<>>
      one == Written(bufs, f.bufs, Values(f, "freq", mul))
  IN  /\ stack # <<>> /\ f.at = "freq"
      /\ op' = [op EXCEPT ![f.id].par.freq = RunRamp(@, f.body, mul),
                          ![f.id].par.freq2 = IF ranged THEN RunRamp(@, f.body, mul)
                                                        ELSE SkipRamp(@, f.body)]
      /\ bufs' = IF ranged THEN Written(one, f.bufs + 1, Values(f, "freq2", mul)) ELSE one
      /\ stack' = WithTop(
           IF ranged
           THEN [f EXCEPT !.freq = f.bufs, !.freq2 = f.bufs + 1, !.bufs = @ + 2, !.at = "fm"]
           ELSE [f EXCEPT !.freq = f.bufs, !.bufs = @ + 1, !.at = "pm"])
      /\ UNCHANGED <<graph, pan, dur, run, pc, n, muls, apart, history>>

\* The next modulator, in the buffers from where the pointer is.
RunModulator ==
  LET f == Top
      mod == ModsOfTop[f.k]
  IN  /\ stack # <<>> /\ f.at \in Uses /\ f.k <= Len(ModsOfTop)
      /\ stack' = Append(WithTop([f EXCEPT !.k = @ + 1]),
                    Frame(mod, f.bufs, f.body, f.k - 1, f.freq, f.at, f.first))
      /\ UNCHANGED <<nodeVars, bufs, run, pc, n, muls, apart, history>>

\* Modulated between its two values, by what is where the pointer is.
Ranged(f, p, b, b2) ==
  [i \in 0..(f.body - 1) |->
     Mixed(p, f.id, f.first + i, Read(b, i), Read(b2, i), Layers(Read(f.bufs, i)))]

MixFreq ==
  LET f == Top
  IN  /\ stack # <<>> /\ f.at = "fm" /\ f.k > Len(ModsOfTop)
      /\ bufs' = Written(bufs, f.freq, Ranged(f, "freq", f.freq, f.freq2))
      /\ stack' = WithTop([f EXCEPT !.at = "pm", !.k = 1])
      /\ UNCHANGED <<nodeVars, run, pc, n, muls, apart, history>>

\* The slip of not keeping the buffer with the phase offsets.
KeepPhasesUnreserved ==
  LET f == Top
  IN  /\ stack # <<>> /\ f.at = "pm" /\ f.k > Len(ModsOfTop)
      /\ stack' = WithTop(IF ModsOfTop = <<>> THEN [f EXCEPT !.at = "amp", !.k = 1]
                          ELSE [f EXCEPT !.pm = f.bufs, !.at = "amp", !.k = 1])
      /\ UNCHANGED <<nodeVars, bufs, run, pc, n, muls, apart, history>>

\* The phase offsets, if any, stay where they are.
KeepPhases ==
  LET f == Top
  IN  /\ stack # <<>> /\ f.at = "pm" /\ f.k > Len(ModsOfTop)
      /\ stack' = WithTop(IF ModsOfTop = <<>> THEN [f EXCEPT !.at = "amp", !.k = 1]
                          ELSE [f EXCEPT !.pm = f.bufs, !.bufs = @ + 1, !.at = "amp", !.k = 1])
      /\ UNCHANGED <<nodeVars, bufs, run, pc, n, muls, apart, history>>

RunAmp ==
  LET f == Top
      ranged == graph.ops[f.id].mods["am"] # <<>>
      one == Written(bufs, f.bufs, Values(f, "amp", NULL))
  IN  /\ stack # <<>> /\ f.at = "amp"
      /\ op' = [op EXCEPT ![f.id].par.amp = RunRamp(@, f.body, NULL),
                          ![f.id].par.amp2 = IF ranged THEN RunRamp(@, f.body, NULL)
                                                       ELSE SkipRamp(@, f.body)]
      /\ bufs' = IF ranged THEN Written(one, f.bufs + 1, Values(f, "amp2", NULL)) ELSE one
      /\ stack' = WithTop(
           IF ranged
           THEN [f EXCEPT !.amp = f.bufs, !.amp2 = f.bufs + 1, !.bufs = @ + 2, !.at = "am"]
           ELSE [f EXCEPT !.amp = f.bufs, !.bufs = @ + 1, !.at = "osc"])
      /\ UNCHANGED <<graph, pan, dur, run, pc, n, muls, apart, history>>

MixAmp ==
  LET f == Top
  IN  /\ stack # <<>> /\ f.at = "am" /\ f.k > Len(ModsOfTop)
      /\ bufs' = Written(bufs, f.amp, Ranged(f, "amp", f.amp, f.amp2))
      /\ stack' = WithTop([f EXCEPT !.at = "osc"])
      /\ UNCHANGED <<nodeVars, run, pc, n, muls, apart, history>>

\* The multipliers that the samples of the body should have.
MulsOf(f) ==
  muls[f.id] \o IF f.par = None THEN <<>>
                ELSE [i \in 1..f.body |-> <<"freq", Parent(f.id), f.c + f.zero + i - 1>>]

\* SAU_Osc_run() or SAU_Osc_run_env(): a layer after the first is added to, or
\* multiplied into, what is there.  What the first leaves unfilled is zeroed.
Generate ==
  LET f == Top
      out == [i \in f.zero..(f.zero + f.body - 1) |->
                LET osc == Osc(f.id, f.first + i - f.zero)
                IN  IF f.layer = 0 THEN Output(<<osc>>)
                                   ELSE Output(Append(Layers(Read(f.s, i)), osc))]
      filled == Written(bufs, f.s, out)
  IN  /\ stack # <<>> /\ f.at = "osc"
      /\ bufs' = IF f.layer = 0 /\ ~ op[f.id].inf
                 THEN Zeroed(filled, f.s, f.zero + f.body, f.len - f.zero - f.body)
                 ELSE filled
      /\ op' = [op EXCEPT ![f.id].time = TimeLess(op[f.id], f.body)]
      /\ n' = [n EXCEPT ![f.id] = @ + f.body]
      /\ muls' = [muls EXCEPT ![f.id] = MulsOf(f)]
      /\ stack' = Pop
      /\ Returned(f)
      /\ UNCHANGED <<graph, pan, dur, pc, apart, history>>

-----------------------------------------------------------------------------
(***************************************************************************)
(* run_voice().                                                            *)
(***************************************************************************)

\* set_voice_duration().
LongestTime(nodes) == Max({nodes[o].time : o \in Carriers})

\* What earlier blocks left in the buffers, emptied at their end here, is
\* junk to this one.
StartBlock(len) ==
  /\ pc = "idle" /\ dur > 0
  /\ run' = [time |-> Lesser(dur, len), i |-> 1, acc_ind |-> 0, out_len |-> 0]
  /\ pc' = "carriers"
  /\ UNCHANGED <<nodeVars, bufs, stack, n, muls, apart, history>>

AtCarrier == pc = "carriers" /\ stack = <<>> /\ run.i <= Len(graph.carriers)
Carrier == graph.carriers[run.i]

PassCarrier ==
  /\ AtCarrier /\ op[Carrier].time = 0
  /\ run' = [run EXCEPT !.i = @ + 1]
  /\ UNCHANGED <<nodeVars, bufs, stack, pc, n, muls, apart, history>>

\* The slip of counting carriers that are not run as layers.
RunCarrierCountingAll ==
  /\ AtCarrier /\ op[Carrier].time # 0
  /\ stack' = <<Frame(Carrier, 0, run.time, run.i - 1, None, "carrier", at)>>
  /\ run' = [run EXCEPT !.i = @ + 1, !.acc_ind = @ + 1]
  /\ UNCHANGED <<nodeVars, bufs, pc, n, muls, apart, history>>

RunCarrier ==
  /\ AtCarrier /\ op[Carrier].time # 0
  /\ stack' = <<Frame(Carrier, 0, run.time, run.acc_ind, None, "carrier", at)>>
  /\ run' = [run EXCEPT !.i = @ + 1, !.acc_ind = @ + 1]
  /\ UNCHANGED <<nodeVars, bufs, pc, n, muls, apart, history>>

\* SAU_Mixer_add() gets what the carriers left in the first buffer, and runs
\* the panning along.
MixVoice ==
  LET value == Filled(pan, run.out_len, NULL)
  IN  /\ pc = "carriers" /\ stack = <<>> /\ run.i > Len(graph.carriers)
      /\ heard' = [i \in 0..(run.out_len - 1) |->
                     [layers |-> Layers(Read(0, i)), pan |-> value[i]]]
      /\ pan' = IF run.out_len > 0 THEN RunRamp(pan, run.out_len, NULL) ELSE pan
      /\ pc' = "mixed"
      /\ UNCHANGED <<graph, op, dur, bufs, stack, run, n, muls, at, told, ideal, apart, done>>

EndBlock ==
  /\ pc = "mixed"
  /\ dur' = dur - run.time
  /\ at' = at + run.time
  /\ heard' = <<>>
  /\ bufs' = <<>>
  /\ pc' = "idle"
  /\ UNCHANGED <<graph, op, pan, stack, run, n, muls, told, ideal, apart, done>>

-----------------------------------------------------------------------------
(***************************************************************************)
(* Events between blocks (handle_event()).                                 *)
(***************************************************************************)

Clock(o) == IF o \in Carriers THEN at ELSE n[Parent(o)]
MulsSoFar(o) == IF o \in Carriers THEN NULL ELSE [i \in 0..(Len(muls[o]) - 1) |-> muls[o][i + 1]]

UpdateRamp(u) ==
  /\ pc = "idle" /\ done < MaxEvents
  /\ IF u.param = "pan"
     THEN /\ pan' = UpdatedRamp(pan, u.src)
          /\ ideal' = [ideal EXCEPT !.pan = IdealUpdated(@, u.src, at, NULL)]
          /\ UNCHANGED op
     ELSE /\ u.op \in Ops
          /\ op' = [op EXCEPT ![u.op].par[u.param] = UpdatedRamp(@, u.src)]
          /\ ideal' = [ideal EXCEPT !.ops[u.op][u.param] =
                         IdealUpdated(@, u.src, n[u.op],
                           IF u.param = "freq" THEN MulsSoFar(u.op) ELSE NULL)]
          /\ UNCHANGED pan
  /\ dur' = LongestTime(op)
  /\ done' = done + 1
  /\ UNCHANGED <<graph, bufs, stack, run, pc, n, muls, at, told, heard, apart>>

\* A time includes the silence given with it (src/reader/parseconv.c,
\* time_operator()), and one without covers the silence that is left.
UpdateTime(u) ==
  LET o == u.op
      quiet == IF u.silence = None THEN op[o].silence ELSE u.silence
  IN  /\ pc = "idle" /\ done < MaxEvents
      /\ o \in Ops
      /\ u.time = Linked => o \notin Carriers
      /\ u.time # Linked => quiet <= u.time
      /\ op' = [op EXCEPT ![o].time = IF u.time = Linked THEN 0 ELSE u.time,
                          ![o].inf = u.time = Linked,
                          ![o].silence = quiet]
      /\ dur' = LongestTime(op')
      /\ told' = [told EXCEPT ![o] =
                    [from |-> Clock(o), first |-> n[o], silent |-> Clock(o) + quiet,
                     ends |-> IF u.time = Linked THEN Linked ELSE Clock(o) + u.time]]
      /\ done' = done + 1
      /\ UNCHANGED <<graph, pan, bufs, stack, run, pc, n, muls, at, ideal, heard, apart>>

-----------------------------------------------------------------------------
NewRamp(o, p, ratio) == ResetRamp(<<"v", o, p>>, ratio /\ p \in {"freq", "freq2"})

\* The voice has just got its first event.
BlocksInit ==
  /\ graph \in Graphs
  /\ op = [o \in Ops |->
       LET g == graph.ops[o]
       IN  [time |-> IF g.time = Linked THEN 0 ELSE g.time, inf |-> g.time = Linked,
            silence |-> g.silence, par |-> [p \in Params |-> NewRamp(o, p, g.ratio)]]]
  /\ pan = ResetRamp(<<"v", "pan">>, FALSE)
  /\ dur = LongestTime(op)
  /\ bufs = <<>> /\ stack = <<>>
  /\ run = [time |-> 0, i |-> 1, acc_ind |-> 0, out_len |-> 0]
  /\ pc = "idle"
  /\ n = [o \in Ops |-> 0]
  /\ at = 0
  /\ told = [o \in Ops |-> [from |-> 0, first |-> 0, silent |-> graph.ops[o].silence,
                            ends |-> graph.ops[o].time]]
  /\ ideal = [ops |-> [o \in Ops |-> [p \in Params |->
                          IdealRamp(NewRamp(o, p, graph.ops[o].ratio), 0)]],
              pan |-> IdealRamp(ResetRamp(<<"v", "pan">>, FALSE), 0)]
  /\ muls = [o \in Ops |-> <<>>]
  /\ apart = {}
  /\ heard = <<>>
  /\ done = 0

RunBlock == Enter \/ RunFreq \/ RunModulator \/ MixFreq \/ KeepPhases \/ RunAmp
              \/ MixAmp \/ Generate

BlocksNext ==
  \/ \E len \in BlockLens : StartBlock(len)
  \/ PassCarrier \/ RunCarrier \/ RunBlock \/ MixVoice \/ EndBlock
  \/ \E u \in RampUpdates : UpdateRamp(u)
  \/ \E u \in TimeUpdates : UpdateTime(u)

BlocksSpec == BlocksInit /\ [][BlocksNext]_blockVars

-----------------------------------------------------------------------------
(***************************************************************************)
(* Properties.                                                             *)
(***************************************************************************)

\* What should sound of an operator at a sample of its carrier, or the voice.
Sounds(o, c) == c >= told[o].silent /\ (told[o].ends = Linked \/ c < told[o].ends)
OscAt(o, c) == Osc(o, told[o].first + c - told[o].silent)

\* The layers of a list of operators there: the first one fills in.
LayersAt(list, c) ==
  LET sounding == SelectSeq(list, LAMBDA o : Sounds(o, c))
      oscs == [j \in DOMAIN sounding |-> OscAt(sounding[j], c)]
  IN  IF list # <<>> /\ ~ Sounds(list[1], c) THEN <<Zero>> \o oscs ELSE oscs

AtOsc == stack # <<>> /\ Top.at = "osc"

\* However many operators share the buffers, each that generates gets the
\* modulation that the operators in its own lists make at the same sample,
\* in the order of the list, and nothing else ("multiplies the output into
\* buf", osc.c:52); there is a buffer for each of these ("maximum number of
\* buffers needed for op nesting depth", prealloc.c:99).
ModulatorsMixed ==
  AtOsc =>
    LET f == Top
        mods == graph.ops[f.id].mods
    IN  \A i \in 0..(f.body - 1) :
          LET now == f.first + i
              in(b) == Read(b, i)
          IN  /\ in(f.freq)[1] = "freq" /\ in(f.freq)[2] = f.id /\ in(f.freq)[3] = now
              /\ in(f.amp)[1] = "amp" /\ in(f.amp)[2] = f.id /\ in(f.amp)[3] = now
              /\ mods["fm"] # <<>> => /\ Len(in(f.freq)) = 6
                                      /\ in(f.freq)[6] = LayersAt(mods["fm"], now)
              /\ mods["am"] # <<>> => /\ Len(in(f.amp)) = 6
                                      /\ in(f.amp)[6] = LayersAt(mods["am"], now)
              /\ mods["pm"] # <<>> => in(f.pm) = Output(LayersAt(mods["pm"], now))

\* What the ideal ramps make of a parameter at a sample of the body.
Ideal(f, p, i) ==
  LET heardOf == MulsOf(f)
      mul == IF f.par = None \/ p \notin {"freq", "freq2"} THEN NULL
             ELSE [j \in 0..(Len(heardOf) - 1) |-> heardOf[j + 1]]
  IN  IdealValue(ideal.ops[f.id][p], f.first + i, mul)

\* A parameter, as it is generated with, follows its ramp from the sample at
\* which the ramp was set, at the pace it was set to, whatever the lengths it
\* is run by; and a ratio is one of the frequency of the carrier at the same
\* sample ("will be multiplied by the carrier frequency", doc/README.SAU:132).
\* Left out are the ratios of an operator that was not run from where its body
\* began: run_block() passes on parent_freq as it is after silence, and fits
\* ramps also when there is nothing left to run. A goal that takes no time is
\* reached by such a run; the goals that are set take a sample at least.
ParametersOnTime ==
  /\ AtOsc =>
       LET f == Top
           mods == graph.ops[f.id].mods
           Kept(p, i, e) ==
             \/ p \in {"freq", "freq2"} /\ f.id \in apart
             \/ e[4] = Ideal(f, p, i)
       IN  \A i \in 0..(f.body - 1) :
             LET freq == Read(f.freq, i)
                 amp == Read(f.amp, i)
             IN  /\ IF mods["fm"] = <<>> THEN Kept("freq", i, freq)
                    ELSE Kept("freq", i, freq[4]) /\ Kept("freq2", i, freq[5])
                 /\ IF mods["am"] = <<>> THEN Kept("amp", i, amp)
                    ELSE Kept("amp", i, amp[4]) /\ Kept("amp2", i, amp[5])
  /\ \A i \in DOMAIN heard : heard[i].pan = IdealValue(ideal.pan, at + i, NULL)

\* The mixer gets, for each sample of the block, the outputs of the carriers
\* that sound there and of no others; where it gets nothing, none does ("adds
\* the output to buf instead of assigning it", osc.c:24).
OutputMixed ==
  pc = "mixed" =>
    \A i \in 0..(run.time - 1) :
      LET sounding == SelectSeq(graph.carriers, LAMBDA o : Sounds(o, at + i))
          mixed == IF i \in DOMAIN heard THEN heard[i].layers ELSE <<>>
      IN  SelectSeq(mixed, LAMBDA l : l # Zero)
            = [j \in DOMAIN sounding |-> OscAt(sounding[j], at + i)]
=============================================================================
