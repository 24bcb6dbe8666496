------------------------------- MODULE Timeline -------------------------------
(***************************************************************************)
(* What a program promises to sound like, with no calls, buffers, chunks,  *)
(* waiting voices or operator runs in it: a clock in samples, and for each *)
(* voice how much of its carrier is left to play.  An event happens when   *)
(* the clock has come as far as the waits up to it; between events every   *)
(* voice that has something left plays on, all of them at the same pace.   *)
(***************************************************************************)
EXTENDS Values, Integers, Sequences, SequencesExt

CONSTANT Samples(_)  \* Samples(ms): samples in so many ms

VARIABLES prg,      \* the program
          started,  \* whether the program has been taken up
          now,      \* the clock
          done,     \* number of events that have happened
          left,     \* for each voice, samples left to play
          carrier   \* for each voice, its carriers

timelineVars == <<prg, started, now, done, left, carrier>>

Due(i) == FoldLeft(+, 0, [j \in 1..i |-> Samples(prg.events[j].wait)])

TimelineInit == ~started /\ now = 0 /\ done = 0 /\ left = <<>> /\ carrier = <<>>

(* The program becomes known. *)
Arrive == /\ ~started /\ UNCHANGED <<started, now, done, left, carrier>>

Start == /\ ~started /\ started' /\ prg \notin {None, Rejected}
         /\ left' = [v \in 1..prg.vo_count |-> 0]
         /\ carrier' = [v \in 1..prg.vo_count |-> <<>>]
         /\ UNCHANGED <<prg, now, done>>

(* Time passes, never beyond the next event. *)
Play == /\ started /\ now' > now
        /\ done < Len(prg.events) => now' <= Due(done + 1)
        /\ left' = [v \in DOMAIN left |->
                      IF left[v] < now' - now THEN 0 ELSE left[v] - (now' - now)]
        /\ UNCHANGED <<prg, started, done, carrier>>

(* The next event happens.  A carrier whose time it sets, a new one among  *)
(* them, plays for that time from here; any other plays on as it was.      *)
Happen ==
    /\ started /\ done < Len(prg.events) /\ now = Due(done + 1)
    /\ LET e    == prg.events[done + 1]
           list == IF e.carriers \in {None, <<>>} THEN carrier[e.vo] ELSE e.carriers
           set  == {k \in DOMAIN e.ops : /\ \E c \in DOMAIN list : list[c] = e.ops[k].id
                                         /\ e.ops[k].time # None}
       IN  /\ carrier' = [carrier EXCEPT ![e.vo] = list]
           /\ left' = [left EXCEPT ![e.vo] =
                         IF set = {} THEN @
                         ELSE Samples(e.ops[CHOOSE k \in set : TRUE].time)]
    /\ done' = done + 1
    /\ UNCHANGED <<prg, started, now>>

TimelineNext == Arrive \/ Start \/ Play \/ Happen

TimelineSpec == TimelineInit /\ [][TimelineNext]_timelineVars
=============================================================================
