------------------------------ MODULE MCParseConv ------------------------------
EXTENDS ParseConv

Tok(k, v) == [k |-> k, v |-> v]

Plain == {Tok("O", None), Tok("line", None), Tok("|", None), Tok("t", 3)}

Flat == Plain \cup {Tok(";", None), Tok("wait", 2), Tok("wait", None), Tok("s", 1)}

Labelled == Plain \cup {Tok(";", None), Tok("'", "a"), Tok("@", "a")}

Nested == Plain \cup {Tok("wait", None), Tok("t", Linked), Tok("s", 1),
                      Tok("[", None), Tok("]", None)}

Blocks == Plain \cup {Tok("<", None), Tok(">", None)}

InBrackets == Plain \cup {Tok(";", None), Tok("[", None), Tok("]", None)}

Valued == {Tok("O", None), Tok("line", None), Tok("|", None), Tok("t", 3), Tok("S", None),
           Tok("a", 2), Tok("{", 3), Tok("{t", 2), Tok(";", None), Tok("[", None)}

AllKinds == Valued \cup Flat \cup Labelled \cup Nested \cup Blocks

UpTo(n, kinds) == [of |-> kinds, upto |-> n]

ShortMixes == {UpTo(6, Flat), UpTo(5, Labelled), UpTo(5, Nested), UpTo(5, Blocks),
               UpTo(5, Valued), UpTo(4, AllKinds)}

FlatMixes == {UpTo(6, Flat)}

BracketMixes == {UpTo(6, InBrackets)}
=============================================================================
