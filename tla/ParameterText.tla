---------------------------- MODULE ParameterText ----------------------------
(***************************************************************************)
(* What a script says, read as a text, of the values of its parameters:    *)
(* which tokens are parameters of the node that is begun by a token, and   *)
(* what is set by "S" before it.  Told from brackets and from what ends a  *)
(* list of parameters, without levels or nodes (README.SAU).               *)
(***************************************************************************)
EXTENDS Integers, Sequences, FiniteSetsExt

VARIABLE text  \* the tokens, as of Parser

At(kind) == {i \in DOMAIN text : text[i].k = kind}

Depth(i) == Cardinality({j \in At("[") : j <= i}) - Cardinality({j \in At("]") : j <= i})

(* j is after i, in the same brackets or outside of any.                   *)
SameLevel(i, j) == i < j /\ Depth(j) = Depth(i) /\ \A k \in i..j : Depth(k) >= Depth(i)

(* Those of the kind after i, with nothing on that level that ends a list. *)
Following(i, kind, ends) ==
    {j \in At(kind) : SameLevel(i, j) /\ ~\E k \in ends : SameLevel(i, k) /\ k < j}

TopLines == {i \in At("line") : Depth(i) = 0}
TopBars  == {i \in At("|") : Depth(i) = 0}

Begins == At("O") \cup At("@") \cup At("S")

(* Within the parameters of "S" there are no composites and separators.    *)
Settings(kind)      == UNION {Following(i, kind, Begins \cup TopLines) : i \in At("S")}
Parameters(i, kind) == Following(i, kind, Begins \cup At(";") \cup TopLines \cup TopBars)

Latest(among, default) == IF among = {} THEN default ELSE text[Max(among)].v

SetBefore(i, kind, default) == Latest({j \in Settings(kind) : j < i}, default)

(* Lists of operators begin with one, or with settings.                    *)
ListsBegun ==
    /\ \A i \in DOMAIN text : Depth(i) >= 0
    /\ \A i \in At("[") : i < Len(text) => text[i + 1].k \in {"O", "S", "]"}

(* What the token at i began is over before the one at j.                  *)
Ends == At("O") \cup (At(";") \ Settings(";")) \cup (TopBars \ Settings("|"))

OverBefore(i, j) ==
    \E k \in (i + 1)..(j - 1) :
        Depth(k) < Depth(i) \/ (Depth(k) = Depth(i) /\ k \in Ends)
==============================================================================
