------------------------------- MODULE MCScanner -------------------------------
EXTENDS Scanner, SequencesExt

CONSTANT MaxText  \* BOUND: length of texts of the mixes, and, with one less, of comments

(* Characters that mean something together.                                *)
Blanks   == {"a", "?", " ", "\n"}
Breaks   == {"a", "\n", "\r"}
Commands == {"#", "!", "Q", "\n"}
Invalid  == {"?", "BEL", " "}
Slashes  == {"/", "*", "\n"}

Commented ==
    {<<"/", "*">> \o inside \o <<"*", "/">> \o after :
        inside \in BoundedSeq(Slashes, MaxText - 1), after \in BoundedSeq({"a", "\n"}, 1)}

(* Expressions of three numbers, with all operations between them, signs   *)
(* and inner parentheses; in pieces, with something to skip; unfinished.   *)
Ops == {"+", "-", "*", "/", "^"}

OfThree ==
    {<<"(", "2", o, "3", p, "1", ")">> : o \in Ops, p \in Ops}
        \cup {<<"(", "2", o, "(", "3", p, "1", ")", ")">> : o \in Ops, p \in Ops \ {"/"}}
        \cup {<<"(", "2", o, "-", "3", p, "1", ")">> : o \in Ops \ {"^"}, p \in Ops}
        \cup {<<"(", "+", "2", "(", "3", o, "1", ")", p, "3", ")">> : o \in Ops, p \in {"-", "/"}}

Skipped == {<<" ">>, <<"\n">>, <<"/", "*", "*", "/">>, <<"/", "/", "3", "\n">>}

InPieces ==
    UNION {{<<"(">> \o skipped \o <<"2", "-", "1", ")">>,
            <<"(", "2">> \o skipped \o <<"-", "1", ")">>,
            <<"(", "2", "-">> \o skipped \o <<"1", ")">>,
            <<"(", "2", "(", "1">> \o skipped \o <<")", ")">>} : skipped \in Skipped}

Unfinished ==
    {<<"(">>, <<"(", ")">>, <<"(", "?">>, <<"(", "2">>, <<"(", "2", " ", "?">>,
     <<"(", "2", "*", "?", ")">>, <<"(", "(", "2", "-", "1", ")", "?">>,
     <<"(", "(", "2", "+", ")", "?">>, <<"(", "2", " ", "3", ")">>, <<"(", "-", "-", "1", ")">>}

Alone ==
    {<<"1", "2", "?">>, <<"1", ".", "2">>, <<".", "1", "2">>, <<".", "?">>, <<"2", ".">>,
     <<"-", "1">>, <<" ", "1">>, <<"C", "?">>, <<"C", "2">>, <<"c", "C", "s", "1", "?">>,
     <<"C", "1", "1">>, <<"c", "2">>, <<"C", "s">>, <<"(", "C", "2", "*", "2", ")">>,
     <<"(", "-", "2", ")">>, <<"2", ".", "0", "0", "0", "1", "?">>}

MCNumTexts == OfThree \cup InPieces \cup Unfinished \cup Alone

MCTexts == UNION {BoundedSeq(mix, MaxText) : mix \in {Blanks, Breaks, Commands, Invalid, Slashes}}
               \cup Commented \cup MCNumTexts
===============================================================================
