------------------------------ MODULE ScriptText ------------------------------
(***************************************************************************)
(* How the text of a script reads: which characters are whitespace, which  *)
(* are comments, and on what line and in which column each stands; told    *)
(* from the whole text, without a buffer or an order of reading.           *)
(***************************************************************************)
EXTENDS Integers, Sequences, FiniteSetsExt

CONSTANTS SymChars, OtherChars   \* characters that stand for themselves

VARIABLE text   \* the text

Here(i) == IF i \in DOMAIN text THEN text[i] ELSE "end"

Pair(i, c, d) == Here(i) = c /\ Here(i + 1) = d

(* Linebreaks are "\n", "\r", and "\n\r" together.                         *)
BreaksAt(i) == Here(i) = "\n" \/ (Here(i) = "\r" /\ Here(i - 1) # "\n")

BreakLen(i) == IF Pair(i, "\n", "\r") THEN 2 ELSE 1

Breaks(i) == {j \in 1..(i - 1) : BreaksAt(j)}

LineOf(i) == 1 + Cardinality(Breaks(i))

ColumnOf(i) ==
    LET breaks == Breaks(i)
    IN  IF breaks = {} THEN i ELSE i - (Max(breaks) + BreakLen(Max(breaks)) - 1)

-----------------------------------------------------------------------------
(* The first of indexes, or that after the text.                           *)
FirstOf(indexes) == Min(indexes \cup {Len(text) + 1})

LineEnd(i) == FirstOf({j \in i..Len(text) : text[j] \in {"\n", "\r"}})

CommentClosed(i) == FirstOf({j \in i..Len(text) : Pair(j, "*", "/")})

\* Something that reads as c, with the index it stands at and that of what follows.
Item(c, at, to) == [c |-> c, at |-> at, to |-> to]

(* What stands at i: a character, a mark for whitespace or the end, or     *)
(* something that is skipped.                                              *)
ItemAt(i, ws) ==
    LET blank(mark, at, to) == Item(IF ws = "none" THEN "skip" ELSE mark, at, to)
        c == Here(i)
    IN  CASE c \in {" ", "\t"}   -> blank(" ", i, i + 1)
          [] c \in {"\n", "\r"}  -> blank("\n", i, i + BreakLen(i))
          [] Pair(i, "/", "/") \/ Pair(i, "#", "!") -> Item("skip", i, LineEnd(i + 2))
          [] Pair(i, "/", "*") ->
                LET close == CommentClosed(i + 2)
                IN  IF close > Len(text) THEN Item("EOF", i, Len(text) + 1)
                    ELSE blank(" ", close + 1, close + 2)
          [] Pair(i, "#", "Q") \/ c = "end" -> Item("EOF", i, i)
          [] c \in SymChars \cup OtherChars \cup {"*", "/", "#"} -> Item(c, i, i + 1)
          [] OTHER -> Item("skip", i, i + 1)

(* What is gotten next by a reader that has come to i.                     *)
NextItem(i, ws) ==
    LET from[j \in i..(Len(text) + 1)] ==
            LET item == ItemAt(j, ws) IN IF item.c = "skip" THEN from[item.to] ELSE item
    IN  from[i]

(* How many characters of a symbol (or number) stand at i.                 *)
SymLen(i) == FirstOf({j \in i..Len(text) : text[j] \notin SymChars}) - i
===============================================================================
