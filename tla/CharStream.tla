------------------------------ MODULE CharStream ------------------------------
(***************************************************************************)
(* What a text file buffer promises: a text, a place in it, and after it   *)
(* its end, or failure, for as long as reading goes on; no areas, buffer   *)
(* positions or markers.                                                   *)
(***************************************************************************)
EXTENDS Integers, Sequences

CONSTANTS Files, End, Failed

VARIABLES text,  \* what is to be read: its characters, and whether it ends badly
          n,     \* number of characters and ends gotten, less those ungotten
          got    \* what was gotten last

At(i) == IF i \in DOMAIN text.chars THEN text.chars[i]
         ELSE IF text.bad THEN Failed ELSE End

StreamInit == text \in Files /\ n = 0 /\ got = End

Get == n' = n + 1 /\ got' = At(n + 1) /\ UNCHANGED text

Unget == n' \in 0..(n - 1) /\ UNCHANGED <<text, got>>

(* Reading is stopped early: what was gotten and ungotten is still there.  *)
Cut == /\ n + 1 \in DOMAIN text.chars
       /\ text' = [chars |-> SubSeq(text.chars, 1, n + 1), bad |-> FALSE]
       /\ UNCHANGED <<n, got>>

StreamNext == Get \/ Unget \/ Cut

StreamSpec == StreamInit /\ [][StreamNext]_<<text, n, got>>
===============================================================================
