----------------------------- MODULE Interp_proofs -----------------------------
(***************************************************************************)
(* Machine-checked proofs about Interp, for all programs, buffer sizes,    *)
(* call lengths and sample rates.  What run_block() computes stays opaque: *)
(* none of these theorems depends on it.                                   *)
(***************************************************************************)
EXTENDS Interp, TLAPS

(* Rounding a time to samples gives a natural number. *)
LEMMA SamplesAreNatural ==
  ASSUME NEW ms \in Nat
  PROVE  MS_IN_SAMPLES(ms) \in Nat
<1> DEFINE n == ms * RateNum
           q == n \div RateDen
<1>1. RateNum \in Nat /\ RateDen \in Nat \ {0}
  BY InterpAssumption
<1>2. n \in Nat
  BY <1>1
<1>3. q \in Nat
  BY <1>1, <1>2
<1>4. MS_IN_SAMPLES(ms) \in {q, q + 1}
  BY DEF MS_IN_SAMPLES
<1>5. QED
  BY <1>3, <1>4

-----------------------------------------------------------------------------
(***************************************************************************)
(* The inductive invariant.                                                *)
(***************************************************************************)

InFlight == pc \in {"chunks", "voices", "write"}

(* The nodes: every event has a wait and a voice; there is one node for    *)
(* each ID.                                                                *)
Nodes ==
    /\ Len(events) \in Nat /\ DOMAIN events = 1..Len(events)
    /\ Len(vn) \in Nat /\ DOMAIN vn = 1..Len(vn)
    /\ \A i \in DOMAIN events : /\ events[i].wait \in Nat
                                /\ events[i].prg_e.vo \in DOMAIN vn

(* The locals of SAU_Interp_run(), but for what it counts as generated,     *)
(* which is up to run_block().                                             *)
Locals ==
    /\ DOMAIN call = {"buf_len", "len", "skip", "base", "gen"}
    /\ call.buf_len \in Nat /\ call.len \in Nat /\ call.skip \in Nat /\ call.base \in Nat

Counters ==
    /\ pc \in {"none", "idle", "process", "chunks", "voices", "write", "finish"}
    /\ voice \in Nat \ {0} /\ event \in Nat \ {0} /\ event_pos \in Nat
    /\ Locals
    /\ delivered \in Nat /\ lastAt \in Nat

(* The buffer is what is done of it, the block at hand and what is left.   *)
Buffer ==
    /\ pc = "process" => call.skip = 0 /\ call.base + call.len = call.buf_len
    /\ InFlight => call.base + call.len + call.skip = call.buf_len

(* How far the stream will have come when the block at hand is done.       *)
Position ==
    delivered + (IF pc = "process" THEN call.base
                 ELSE IF InFlight THEN call.base + call.len
                 ELSE IF pc = "finish" THEN call.buf_len ELSE 0)

(* While an event is still to come, event_pos is how far the stream is     *)
(* past the event before it, and is never past the wait.                   *)
Clock ==
    event <= Len(events) =>
        /\ event_pos <= events[event].wait
        /\ Position = lastAt + event_pos

Untouched == pc = "none" => delivered = 0 /\ lastAt = 0 /\ returned = None

OverWhenShort ==
    pc = "idle" /\ returned # None /\ returned # call.buf_len => SignalOver

IInv ==
    /\ prg \in Programs
    /\ Nodes /\ Counters /\ Buffer /\ Clock /\ Untouched /\ OverWhenShort
    /\ PassedVoicesSilent

LEMMA InitInv == InterpInit => IInv
BY DEF InterpInit, Idle, IInv, Nodes, Counters, Buffer, Clock, Position, InFlight,
       Untouched, OverWhenShort, PassedVoicesSilent, Locals

-----------------------------------------------------------------------------
(***************************************************************************)
(* Each action preserves the invariant.                                    *)
(***************************************************************************)

(* The nodes that are created are those of the program. *)
LEMMA CreateInv == IInv /\ Create => IInv'
<1> SUFFICES ASSUME IInv, Create PROVE IInv'
  OBVIOUS
<1>1. prg \in Programs /\ prg' = prg
  BY DEF IInv, Create
<1>2. IsProgram(prg)
  BY <1>1, ProgramsAssumption
<1>3. Nodes'
  <2>1. /\ DOMAIN prg.events = 1..Len(prg.events) /\ Len(prg.events) \in Nat
        /\ \A i \in DOMAIN prg.events : /\ prg.events[i].wait \in Nat
                                        /\ prg.events[i].vo \in 1..prg.vo_count
    <3>1. prg.events \in Seq(EventData(1..prg.vo_count, 1..prg.op_count))
      BY <1>2 DEF IsProgram
    <3>2. ASSUME NEW i \in DOMAIN prg.events
          PROVE  prg.events[i] \in EventData(1..prg.vo_count, 1..prg.op_count)
      BY <3>1
    <3>3. QED
      BY <3>1, <3>2 DEF EventData
  <2>2. DOMAIN events' = 1..Len(prg.events) /\ Len(events') = Len(prg.events)
    BY <2>1 DEF Create
  <2>3. DOMAIN vn' = 1..prg.vo_count /\ Len(vn') = prg.vo_count /\ prg.vo_count \in Nat
    BY <1>2 DEF Create, IsProgram
  <2>4. ASSUME NEW i \in DOMAIN events'
        PROVE  /\ events'[i].wait \in Nat
               /\ events'[i].prg_e.vo \in 1..prg.vo_count
    <3>1. i \in DOMAIN prg.events
      BY <2>1, <2>2
    <3>2. /\ events'[i].wait = MS_IN_SAMPLES(prg.events[i].wait)
          /\ events'[i].prg_e = prg.events[i]
      BY <3>1 DEF Create
    <3>3. QED
      BY <2>1, <3>1, <3>2, SamplesAreNatural
  <2>5. QED
    BY <2>1, <2>2, <2>3, <2>4 DEF Nodes
<1>4. Counters' /\ Buffer' /\ Untouched'
  BY DEF IInv, Create, Counters, Locals, Buffer, InFlight, Untouched, past
<1>5. Clock'
  <2>1. delivered' = 0 /\ lastAt' = 0 /\ event_pos' = 0 /\ pc' = "idle"
    BY DEF IInv, Create, Untouched, past
  <2>2. Position' = 0
    BY <2>1 DEF Position, InFlight
  <2>3. event' <= Len(events') => events'[event'].wait \in Nat
    <3>1. event' = 1
      BY DEF Create
    <3>2. QED
      BY <1>3, <3>1 DEF Nodes
  <2>4. QED
    BY <2>1, <2>2, <2>3 DEF Clock
<1>6. OverWhenShort'
  BY DEF IInv, Create, OverWhenShort, Untouched
<1>7. PassedVoicesSilent'
  BY <1>3 DEF Create, PassedVoicesSilent, Nodes
<1>8. QED
  BY <1>1, <1>3, <1>4, <1>5, <1>6, <1>7 DEF IInv

(* Beginning a call: nothing of its buffer is done yet.                    *)
LEMMA CallInv == ASSUME IInv, NEW n \in CallLens, Call(n) PROVE IInv'
<1>1. n \in Nat
  BY InterpAssumption
<1>2. /\ call' = [buf_len |-> n, len |-> n, skip |-> 0, base |-> 0, gen |-> 0]
      /\ pc = "idle" /\ pc' = "process" /\ returned' = None
      /\ UNCHANGED <<prg, vn, events, voice, event, event_pos, delivered, lastAt>>
  BY DEF Call, instVars, past
<1>3. Nodes' /\ PassedVoicesSilent'
  BY <1>2 DEF IInv, Nodes, PassedVoicesSilent
<1>4. Counters' /\ Buffer' /\ Untouched' /\ OverWhenShort'
  BY <1>1, <1>2 DEF IInv, Counters, Buffer, InFlight, Untouched, OverWhenShort, Locals
<1>5. Clock'
  <2>1. Position' = Position
    BY <1>2 DEF IInv, Counters, Position, InFlight
  <2>2. QED
    BY <1>2, <2>1 DEF IInv, Clock
<1>6. QED
  BY <1>2, <1>3, <1>4, <1>5 DEF IInv

(* The block that is run next ends at the next event at the latest.        *)
LEMMA RunUpToEventInv == IInv /\ RunUpToEvent => IInv'
<1> SUFFICES ASSUME IInv, RunUpToEvent PROVE IInv'
  OBVIOUS
<1> DEFINE w   == events[event].wait
           len == LenToEvent(w - event_pos)
<1>1. /\ pc = "process" /\ pc' = "chunks" /\ event <= Len(events) /\ event_pos < w
      /\ call' = [call EXCEPT !.len = len, !.skip = call.len - len]
      /\ event_pos' = event_pos + len
      /\ UNCHANGED <<prg, vn, events, voice, event, returned, delivered, lastAt>>
  BY DEF RunUpToEvent, past
<1>2. w \in Nat /\ event_pos \in Nat /\ Locals /\ delivered \in Nat
  BY <1>1 DEF IInv, Nodes, Counters
<1>3. len \in Nat /\ len <= w - event_pos /\ len <= call.len
  BY SMTT(30), <1>2, <1>1 DEF LenToEvent, Lesser, Locals
<1> HIDE DEF w, len
<1>4. Nodes' /\ PassedVoicesSilent' /\ OverWhenShort' /\ Untouched'
  BY <1>1 DEF IInv, Nodes, PassedVoicesSilent, OverWhenShort, Untouched
<1>5. Locals' /\ call'.base = call.base /\ call'.buf_len = call.buf_len
      /\ call'.len = len /\ call'.skip = call.len - len
  <2>1. call.len \in Nat /\ call.len - len \in Nat
    BY <1>2, <1>3 DEF Locals
  <2>2. QED
    BY <1>1, <1>2, <1>3, <2>1 DEF Locals
<1>6. Counters' /\ Buffer'
  <2>1. Counters'
    BY <1>1, <1>2, <1>3, <1>5 DEF IInv, Counters
  <2>2. Buffer'
    BY <1>1, <1>2, <1>3, <1>5 DEF IInv, Buffer, InFlight, Locals
  <2>3. QED
    BY <2>1, <2>2
<1>7. Clock'
  <2>1. Position = delivered + call.base /\ Position' = delivered + (call.base + len)
    BY <1>1, <1>5 DEF Position, InFlight
  <2>2. Position = lastAt + event_pos /\ lastAt \in Nat
    BY <1>1 DEF IInv, Clock, Counters
  <2>3. call.base \in Nat /\ event_pos' = event_pos + len
    BY <1>1, <1>2 DEF Locals
  <2>4. event_pos' <= w
    BY <1>2, <1>3, <2>3
  <2>5. delivered + call.base = lastAt + event_pos
    BY <2>1, <2>2
  <2>6. Position' = lastAt + event_pos'
    BY <1>2, <1>3, <2>1, <2>2, <2>3, <2>5
  <2>7. QED
    BY <1>1, <2>4, <2>6 DEF Clock, w
<1>8. QED
  BY <1>1, <1>4, <1>6, <1>7 DEF IInv

(* An event is handled where its wait puts it; it can only lower o->voice  *)
(* down to its own voice.                                                  *)
LEMMA HandleEventInv == IInv /\ HandleEvent => IInv'
<1> SUFFICES ASSUME IInv, HandleEvent PROVE IInv'
  OBVIOUS
<1> DEFINE e   == events[event].prg_e
           ops == UpdatedOps(op, e.ops)
<1>1. /\ pc = "process" /\ pc' = "process" /\ event <= Len(events)
      /\ event' = event + 1 /\ event_pos' = 0
      /\ lastAt' = delivered + call.base
      /\ voice' = LowerVoice(voice, e.vo)
      /\ UNCHANGED <<prg, events, call, returned, delivered>>
  BY DEF HandleEvent
<1>2. vn' = [vn EXCEPT ![e.vo] = UpdatedVoice(@, ops, e)]
  BY DEF HandleEvent
<1>3. event \in DOMAIN events /\ e.vo \in 1..Len(vn) /\ DOMAIN vn = 1..Len(vn) /\ Len(vn) \in Nat
  BY <1>1 DEF IInv, Nodes, Counters
<1> HIDE DEF e, ops
<1>4. Nodes'
  <2>1. DOMAIN vn' = DOMAIN vn /\ Len(vn') = Len(vn)
    BY <1>2, <1>3
  <2>2. QED
    BY <1>1, <2>1 DEF IInv, Nodes
<1>5. voice \in Nat \ {0} /\ voice' \in Nat \ {0} /\ voice' <= voice /\ voice' <= e.vo
  BY <1>1, <1>3 DEF IInv, Counters, LowerVoice
<1>6. PassedVoicesSilent'
  <2>1. ASSUME NEW v \in DOMAIN vn', v < voice'
        PROVE  vn'[v].dur = 0
    <3>1. v \in DOMAIN vn /\ v \in Nat /\ v # e.vo /\ v < voice
      BY <1>2, <1>3, <1>5, <2>1
    <3>2. vn'[v] = vn[v]
      BY <1>2, <3>1
    <3>3. QED
      BY <3>1, <3>2 DEF IInv, PassedVoicesSilent
  <2>2. QED
    BY <2>1 DEF PassedVoicesSilent
<1>7. Counters' /\ Buffer' /\ Untouched' /\ OverWhenShort'
  BY <1>1, <1>5 DEF IInv, Counters, Buffer, InFlight, Untouched, OverWhenShort, Locals
<1>8. Clock'
  <2>1. Position' = lastAt' + event_pos'
    BY <1>1, <1>7 DEF Position, Counters, Locals
  <2>2. event' <= Len(events') => event' \in DOMAIN events'
    BY <1>4, <1>7 DEF Nodes, Counters
  <2>3. event' <= Len(events') => event_pos' <= events'[event'].wait
    BY <1>1, <1>4, <2>2 DEF Nodes
  <2>4. QED
    BY <2>1, <2>3 DEF Clock
<1>9. QED
  BY <1>1, <1>4, <1>6, <1>7, <1>8 DEF IInv

LEMMA RunToTheEndInv == IInv /\ RunToTheEnd => IInv'
<1> SUFFICES ASSUME IInv, RunToTheEnd PROVE IInv'
  OBVIOUS
<1>1. /\ pc = "process" /\ pc' = "chunks" /\ event > Len(events)
      /\ UNCHANGED <<prg, vn, events, voice, event, event_pos, call, returned, delivered, lastAt>>
  BY DEF RunToTheEnd, instVars, past
<1>2. Nodes' /\ PassedVoicesSilent'
  BY <1>1 DEF IInv, Nodes, PassedVoicesSilent
<1>3. Counters' /\ Buffer' /\ Untouched' /\ OverWhenShort'
  BY <1>1 DEF IInv, Counters, Buffer, InFlight, Untouched, OverWhenShort, Locals
<1>4. Clock'
  BY <1>1 DEF IInv, Clock, Nodes, Counters
<1>5. QED
  BY <1>1, <1>2, <1>3, <1>4 DEF IInv

(* Generating in chunks is invisible to the clock, and only ever takes     *)
(* from the duration of voices that have something left.                   *)
LEMMA RunVoicesInv == IInv /\ RunVoices => IInv'
<1> SUFFICES ASSUME IInv, RunVoices PROVE IInv'
  OBVIOUS
<1>1. /\ InFlight /\ InFlight'
      /\ UNCHANGED <<prg, events, voice, event, event_pos, call, returned, delivered, lastAt>>
  BY DEF RunVoices, StartChunk, KeepWaiting, EndWait, RunVoice, PassVoice, EndVoices,
         WriteChunk, InFlight, instVars, past
<1>2. /\ DOMAIN vn' = DOMAIN vn
      /\ \A v \in DOMAIN vn : vn[v].dur = 0 => vn'[v].dur = 0
  <2>1. CASE vn' = vn
    BY <2>1
  <2>2. CASE KeepWaiting
    <3>1. vn' = [vn EXCEPT ![run.i].pos = @ + run.len]
      BY <2>2 DEF KeepWaiting
    <3>2. QED
      BY <3>1
  <2>3. CASE EndWait
    <3>1. vn' = [vn EXCEPT ![run.i].pos = 0]
      BY <2>3 DEF EndWait
    <3>2. QED
      BY <3>1
  <2>4. CASE RunVoice
    <3>1. vn[run.i].dur # 0
      BY <2>4 DEF RunVoice
    <3>2. \E d, p : vn' = [vn EXCEPT ![run.i].dur = d, ![run.i].pos = p]
      BY <2>4 DEF RunVoice
    <3>3. QED
      BY <3>1, <3>2
  <2>5. QED
    BY <2>1, <2>2, <2>3, <2>4
       DEF RunVoices, StartChunk, PassVoice, EndVoices, WriteChunk, instVars
<1>3. Nodes'
  <2>1. Len(vn') = Len(vn)
    BY <1>2 DEF IInv, Nodes
  <2>2. QED
    BY <1>1, <1>2, <2>1 DEF IInv, Nodes
<1>4. PassedVoicesSilent'
  BY <1>1, <1>2 DEF IInv, PassedVoicesSilent
<1>5. Counters' /\ Buffer' /\ Untouched' /\ OverWhenShort'
  BY <1>1 DEF IInv, Counters, Locals, Buffer, InFlight, Untouched, OverWhenShort
<1>6. Clock'
  <2>1. Position' = Position
    BY <1>1 DEF Position, InFlight
  <2>2. QED
    BY <1>1, <2>1 DEF IInv, Clock
<1>7. QED
  BY <1>1, <1>3, <1>4, <1>5, <1>6 DEF IInv

LEMMA ProcessMoreInv == IInv /\ ProcessMore => IInv'
<1> SUFFICES ASSUME IInv, ProcessMore PROVE IInv'
  OBVIOUS
<1>1. /\ pc = "chunks" /\ pc' = "process"
      /\ call' = [call EXCEPT !.gen = @ + call.len, !.base = @ + call.len,
                              !.len = call.skip, !.skip = 0]
      /\ UNCHANGED <<prg, vn, events, voice, event, event_pos, returned, delivered, lastAt>>
  BY DEF ProcessMore, instVars, past
<1>2. Nodes' /\ PassedVoicesSilent' /\ Untouched' /\ OverWhenShort'
  BY <1>1 DEF IInv, Nodes, PassedVoicesSilent, Untouched, OverWhenShort
<1>3. /\ Locals' /\ call'.base = call.base + call.len
      /\ call'.len = call.skip /\ call'.skip = 0 /\ call'.buf_len = call.buf_len
  <2>1. Locals
    BY DEF IInv, Counters
  <2>2. call.base + call.len \in Nat
    BY <2>1 DEF Locals
  <2>3. QED
    BY <1>1, <2>1, <2>2 DEF Locals
<1>4. Counters' /\ Buffer'
  BY <1>1, <1>3 DEF IInv, Counters, Buffer, InFlight, Locals
<1>5. Clock'
  <2>1. Position' = Position
    BY <1>1, <1>3 DEF Position, InFlight
  <2>2. QED
    BY <1>1, <2>1 DEF IInv, Clock
<1>6. QED
  BY <1>1, <1>2, <1>4, <1>5 DEF IInv

LEMMA ProcessedAllInv == IInv /\ ProcessedAll => IInv'
<1> SUFFICES ASSUME IInv, ProcessedAll PROVE IInv'
  OBVIOUS
<1>1. /\ pc = "chunks" /\ pc' = "finish" /\ call.skip = 0
      /\ call' = [call EXCEPT !.gen = @ + run.gen]
      /\ UNCHANGED <<prg, vn, events, voice, event, event_pos, returned, delivered, lastAt>>
  BY DEF ProcessedAll, instVars, past
<1>2. Nodes' /\ PassedVoicesSilent' /\ Untouched' /\ OverWhenShort'
  BY <1>1 DEF IInv, Nodes, PassedVoicesSilent, Untouched, OverWhenShort
<1>3. call'.buf_len = call.buf_len /\ call.base + call.len = call.buf_len
  BY <1>1 DEF IInv, Counters, Buffer, InFlight, Locals
<1>4. Counters' /\ Buffer'
  BY <1>1 DEF IInv, Counters, Buffer, InFlight, Locals
<1>5. Clock'
  <2>1. Position' = Position
    BY <1>1, <1>3 DEF IInv, Counters, Locals, Position, InFlight
  <2>2. QED
    BY <1>1, <2>1 DEF IInv, Clock
<1>6. QED
  BY <1>1, <1>2, <1>4, <1>5 DEF IInv

(* Only a voice that is over is passed. *)
LEMMA AdvanceVoiceInv == IInv /\ AdvanceVoice => IInv'
<1> SUFFICES ASSUME IInv, AdvanceVoice PROVE IInv'
  OBVIOUS
<1>1. /\ pc = "finish" /\ vn[voice].dur = 0 /\ voice' = voice + 1
      /\ UNCHANGED <<prg, vn, events, event, event_pos, pc, call, returned, delivered, lastAt>>
  BY DEF AdvanceVoice, past
<1>2. Nodes' /\ Counters' /\ Buffer' /\ Untouched' /\ OverWhenShort'
  BY <1>1 DEF IInv, Nodes, Counters, Locals, Buffer, InFlight, Untouched, OverWhenShort
<1>3. Clock'
  <2>1. Position' = Position
    BY <1>1 DEF Position, InFlight
  <2>2. QED
    BY <1>1, <2>1 DEF IInv, Clock
<1>4. PassedVoicesSilent'
  <2>1. ASSUME NEW v \in DOMAIN vn, v < voice'
        PROVE  vn[v].dur = 0
    <3>1. v < voice \/ v = voice
      BY <1>1, <2>1 DEF IInv, Nodes, Counters
    <3>2. QED
      BY <1>1, <3>1 DEF IInv, PassedVoicesSilent
  <2>2. QED
    BY <1>1, <2>1 DEF PassedVoicesSilent
<1>5. QED
  BY <1>1, <1>2, <1>3, <1>4 DEF IInv

(* A call may return less than asked for only when the signal is over. *)
LEMMA ReturnInv == IInv /\ (ReturnEnd \/ ReturnFull) => IInv'
<1> SUFFICES ASSUME IInv, ReturnEnd \/ ReturnFull PROVE IInv'
  OBVIOUS
<1>1. /\ pc = "finish" /\ pc' = "idle" /\ delivered' = delivered + call.buf_len
      /\ UNCHANGED <<prg, vn, events, voice, event, event_pos, call, lastAt>>
  BY DEF ReturnEnd, ReturnFull, Return, instVars
<1>2. Nodes' /\ PassedVoicesSilent' /\ Buffer' /\ Untouched'
  BY <1>1 DEF IInv, Nodes, PassedVoicesSilent, Buffer, InFlight, Untouched
<1>3. Counters'
  BY <1>1 DEF IInv, Counters, Locals
<1>4. OverWhenShort'
  <2>1. SignalOver \/ returned' = call.buf_len
    BY DEF ReturnEnd, ReturnFull, Return
  <2>2. QED
    BY <1>1, <2>1 DEF OverWhenShort, SignalOver
<1>5. Clock'
  <2>1. Position' = Position
    BY <1>1, <1>3 DEF IInv, Counters, Locals, Position, InFlight
  <2>2. QED
    BY <1>1, <2>1 DEF IInv, Clock
<1>6. QED
  BY <1>1, <1>2, <1>3, <1>4, <1>5 DEF IInv

LEMMA NextInv == IInv /\ [InterpNext]_interpVars => IInv'
<1> SUFFICES ASSUME IInv, [InterpNext]_interpVars PROVE IInv'
  OBVIOUS
<1>1. CASE UNCHANGED interpVars
  BY <1>1 DEF IInv, interpVars, Nodes, Counters, Locals, Buffer, Clock, Position, InFlight,
              Untouched, OverWhenShort, SignalOver, PassedVoicesSilent
<1>2. CASE \E n \in CallLens : Call(n)
  BY <1>2, CallInv
<1>3. CASE InterpNext
  BY <1>2, <1>3, CreateInv, RunUpToEventInv, HandleEventInv, RunToTheEndInv, RunVoicesInv,
     ProcessMoreInv, ProcessedAllInv, AdvanceVoiceInv, ReturnInv DEF InterpNext
<1>4. QED
  BY <1>1, <1>3

-----------------------------------------------------------------------------
(* The voices before o->voice, which run_for_time() leaves out, never have *)
(* anything left to play.                                                  *)
THEOREM SkippingIsSafe == InterpSpec => []PassedVoicesSilent
<1>1. IInv => PassedVoicesSilent
  BY DEF IInv
<1>2. QED
  BY <1>1, InitInv, NextInv, PTL DEF InterpSpec

(* A call that returns less than asked for leaves no event and no sound.   *)
THEOREM ShortReturnsEnd == InterpSpec => []ShortReturnIsTheEnd
<1>1. IInv => ShortReturnIsTheEnd
  <2> SUFFICES ASSUME IInv, pc = "idle", returned # None, returned # call.buf_len
               PROVE  event > Len(events) /\ \A v \in DOMAIN vn : vn[v].dur = 0
    BY DEF ShortReturnIsTheEnd
  <2>1. SignalOver
    BY DEF IInv, OverWhenShort
  <2>2. \A v \in DOMAIN vn : v < voice
    BY <2>1 DEF SignalOver, IInv, Nodes, Counters
  <2>3. QED
    BY <2>1, <2>2 DEF SignalOver, IInv, PassedVoicesSilent
<1>2. QED
  BY <1>1, InitInv, NextInv, PTL DEF InterpSpec

(* Events are handled at the sample their waits put them at, however the   *)
(* calls and the chunks cut up the stream.                                 *)
THEOREM EventsHandledOnTime == InterpSpec => EventsOnTime
<1>1. IInv /\ [InterpNext]_interpVars =>
        [event' # event /\ pc # "none" =>
            delivered + call.base = lastAt + events[event].wait]_interpVars
  <2> SUFFICES ASSUME IInv, InterpNext, event' # event, pc # "none"
               PROVE  delivered + call.base = lastAt + events[event].wait
    OBVIOUS
  <2>1. HandleEvent
    BY DEF InterpNext, Create, Call, RunUpToEvent, RunToTheEnd, RunVoices, StartChunk,
           KeepWaiting, EndWait, RunVoice, PassVoice, EndVoices, WriteChunk, ProcessMore,
           ProcessedAll, AdvanceVoice, ReturnEnd, ReturnFull, Return, instVars
  <2>2. /\ pc = "process" /\ event <= Len(events)
        /\ event_pos >= events[event].wait /\ event_pos <= events[event].wait
        /\ Position = lastAt + event_pos
    BY <2>1 DEF HandleEvent, IInv, Clock
  <2>3. event_pos = events[event].wait
    <3>1. event_pos \in Nat /\ events[event].wait \in Nat
      BY <2>2 DEF IInv, Counters, Nodes
    <3>2. QED
      BY <2>2, <3>1
  <2>4. QED
    BY <2>2, <2>3 DEF Position
<1>2. QED
  BY <1>1, InitInv, NextInv, PTL DEF InterpSpec, EventsOnTime
=============================================================================
