-------------------------------- MODULE Ramp --------------------------------
(***************************************************************************)
(* Value ramps (src/ramp.c): a parameter has a state value v0 and possibly *)
(* a goal vt to reach in some time; filling a buffer, or skipping, moves   *)
(* it along.  Each of the two may be a ratio, to be multiplied by what is  *)
(* in a buffer of multipliers (the frequencies of the carrier).            *)
(*                                                                         *)
(* Values are terms that say what they are made from, so that two are the  *)
(* same only when they are computed from the same values at the same       *)
(* place.  The names in a multiplier buffer are used for what it holds;    *)
(* NULL is the empty sequence.  The position that the callers keep beside  *)
(* the SAU_Ramp is the field pos here.                                     *)
(***************************************************************************)
EXTENDS Integers

CONSTANT PosSize   \* number of values of uint32_t

NULL == <<>>
Missing == <<"none">>

\* An ended goal leaves only the state.
ResetRamp(v0, ratio) ==
  [v0 |-> v0, ratio |-> ratio, goal |-> FALSE, vt |-> Missing, gratio |-> FALSE,
   time |-> 0, type |-> "lin", pos |-> 0]

\* SAU_Ramp_copy(): src has a state value, a goal, or both.
CopyRamp(r, src) ==
  LET stated == IF src.state
                THEN [r EXCEPT !.v0 = src.v0, !.ratio = src.ratio]
                ELSE r
  IN  IF src.goal
      THEN [stated EXCEPT !.goal = TRUE, !.vt = src.vt, !.gratio = src.gratio,
                          !.time = src.time, !.type = src.type]
      ELSE stated

\* The slip of keeping the position when another goal is set.
UpdatedRampKeepingPos(r, src) == CopyRamp(r, src)

\* handle_ramp_update() of src/interp/interp.c.
UpdatedRamp(r, src) ==
  CopyRamp(IF src.goal THEN [r EXCEPT !.pos = 0] ELSE r, src)

-----------------------------------------------------------------------------
\* What the SAU_Ramp_fill_*() functions put at one position: for a type, a
\* fixed function of both ends, the position, the time and the multiplier.
Curve(type, v0, vt, pos, time, mul) == <<"curve", type, v0, vt, pos, time, mul>>
Hold(v0, mul) == <<"hold", v0, mul>>
MulAt(mul, i) == IF mul = NULL THEN Missing ELSE mul[i]

\* When only one of state and goal is a ratio, the state is made what the
\* goal is, by the first multiplier.
Adjusted(r, mul) ==
  CASE r.gratio /\ ~ r.ratio ->
         [r EXCEPT !.ratio = TRUE,
                   !.v0 = IF mul = NULL THEN @ ELSE <<"div", @, mul[0]>>]
    [] ~ r.gratio /\ r.ratio ->
         [r EXCEPT !.ratio = FALSE,
                   !.v0 = IF mul = NULL THEN @ ELSE <<"mul", @, mul[0]>>]
    [] OTHER -> r

\* What is left of the goal's time, in the unsigned arithmetic of the code.
LeftOfGoal(r, len) ==
  LET left == (r.time - r.pos) % PosSize
  IN  IF left > len THEN len ELSE left

\* The goal is reached: it becomes the state.
Reached(r) ==
  [r EXCEPT !.v0 = r.vt, !.ratio = r.gratio, !.goal = FALSE, !.gratio = FALSE]

Advanced(r, len) ==
  LET on == [r EXCEPT !.pos = @ + LeftOfGoal(r, len)]
  IN  IF on.pos = on.time THEN Reached(on) ELSE on

\* SAU_Ramp_run(): the ramp after filling len values, ...
RunRamp(r, len, mul) ==
  IF r.goal THEN Advanced(Adjusted(r, mul), len) ELSE r

\* ...and those values.
Filled(r, len, mul) ==
  LET begun == IF r.goal THEN Adjusted(r, mul) ELSE r
      goal  == IF r.goal THEN LeftOfGoal(begun, len) ELSE 0
      ended == RunRamp(r, len, mul)
  IN  [i \in 0..(len - 1) |->
         IF i < goal
         THEN Curve(begun.type, begun.v0, begun.vt, begun.pos + i, begun.time,
                    MulAt(IF begun.gratio THEN mul ELSE NULL, i))
         ELSE Hold(ended.v0, MulAt(IF ended.ratio THEN mul ELSE NULL, i))]

\* SAU_Ramp_skip().
SkipRamp(r, len) == IF r.goal THEN Advanced(r, len) ELSE r

-----------------------------------------------------------------------------
(***************************************************************************)
(* What a ramp promises, whatever the lengths it is run by: from the       *)
(* sample at which its goal was set the value follows the curve, from the  *)
(* state as it was made to fit the goal at the first sample since either   *)
(* was set, and once the time is over it is the goal's.  In the ideal ramp *)
(* pos is the sample at which the goal was set, and from that of either;   *)
(* mul gives the multiplier at any sample.                                 *)
(***************************************************************************)
IdealRamp(r, now) == [ramp |-> [r EXCEPT !.pos = now], from |-> now]

OnItsWay(ideal, now) ==
  ideal.ramp.goal /\ now - ideal.ramp.pos < ideal.ramp.time

Fitted(ideal, mul) ==
  Adjusted(ideal.ramp, IF mul = NULL THEN NULL ELSE [i \in {0} |-> mul[ideal.from]])

\* How the ramp stands when it has been run up to sample now.
Settled(ideal, now, mul) ==
  CASE ~ ideal.ramp.goal \/ now = ideal.from -> ideal.ramp
    [] OnItsWay(ideal, now) -> Fitted(ideal, mul)
    [] OTHER -> Reached(Fitted(ideal, mul))

IdealUpdated(ideal, src, now, mul) ==
  LET r == CopyRamp(Settled(ideal, now, mul), src)
  IN  [ramp |-> IF src.goal THEN [r EXCEPT !.pos = now] ELSE r, from |-> now]

\* The value at sample now.
IdealValue(ideal, now, mul) ==
  LET r == Fitted(ideal, mul)
      end == IF r.goal THEN Reached(r) ELSE ideal.ramp
  IN  IF OnItsWay(ideal, now)
      THEN Curve(r.type, r.v0, r.vt, now - r.pos, r.time,
                 MulAt(IF r.gratio THEN mul ELSE NULL, now))
      ELSE Hold(end.v0, MulAt(IF end.ratio THEN mul ELSE NULL, now))
=============================================================================
