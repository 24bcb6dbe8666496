---------------------------- MODULE ExpressionText ----------------------------
(***************************************************************************)
(* What the number or the numerical expression in parentheses that stands  *)
(* in a text is worth by the usual rules: powers before products before    *)
(* sums, signs with the latter, those of a kind from the left; and what is *)
(* before a parenthesis is a factor.  Told from the extent of each part of it,    *)
(* without an order of reading.                                            *)
(***************************************************************************)
EXTENDS ScriptText, Numbers, SequencesExt

CONSTANT None

DigitsEnd(i) == FirstOf({j \in i..Len(text) : text[j] \notin Digits})

\* Without the decimal point, and how many digits are after it.
Decimal(i, j) ==
    LET digits == SelectSeq(SubSeq(text, i, j - 1), LAMBDA c : c # ".")
        points == {k \in i..(j - 1) : text[k] = "."}
    IN  [num |-> FoldLeft(LAMBDA n, c : 10 * n + DigitValue(c), 0, digits),
         den |-> 10 ^ (IF points = {} THEN 0 ELSE j - 1 - Min(points))]

(* The names of notes that occur are those with C, and c as subnote.       *)
NoteEnd(i) ==
    LET note == IF Here(i) = "c" THEN i + 1 ELSE i
    IN  IF Here(note) # "C" THEN i
        ELSE DigitsEnd(IF Here(note + 1) = "s" THEN note + 2 ELSE note + 1)

Note(i, j) ==
    LET digits == SelectSeq(SubSeq(text, i, j - 1), LAMBDA c : c \in Digits)
        named  == FoldLeft(LAMBDA n, c : 10 * n + DigitValue(c), 0, digits)
        octave == IF digits = <<>> \/ named > 10 THEN 4 ELSE named
    IN  IF \E k \in i..(j - 1) : text[k] = "s" THEN Frac(25 * 2 ^ octave, 24 * 16)
        ELSE Frac(2 ^ octave, 16)

(* A number or the name of one at i: its value, and what comes after it    *)
(* (at i itself when there is none).                                       *)
NumberEnd(i) ==
    LET whole == DigitsEnd(i)
        all   == IF Here(whole) = "." THEN DigitsEnd(whole + 1) ELSE whole
    IN  IF all = i + 1 /\ Here(i) = "." THEN i ELSE all

NumberAt(i, kind) ==
    CASE kind = "chanmix" /\ Here(i) = "C"  -> [num |-> Frac(0, 1), to |-> i + 1]
      [] kind = "note" /\ NoteEnd(i) > i    -> [num |-> Note(i, NoteEnd(i)), to |-> NoteEnd(i)]
      [] OTHER -> [num |-> Decimal(i, NumberEnd(i)), to |-> NumberEnd(i)]

-----------------------------------------------------------------------------
(* The parts of an expression: numbers, and characters.                    *)
Part(i, kind) ==
    LET item   == NextItem(i, "none")
        number == NumberAt(item.at, kind)
    IN  IF item.c # "EOF" /\ number.to > item.at
        THEN [c |-> "number", num |-> number.num, at |-> item.at, to |-> number.to]
        ELSE item @@ [num |-> Nan]

Parts(i, kind) ==
    LET from[j \in i..(Len(text) + 1)] ==
            LET part == Part(j, kind)
            IN  IF part.c = "EOF" THEN <<part>> ELSE <<part>> \o from[part.to]
    IN  from[i]

Signs == {"+", "-"}
Operators == {"+", "-", "*", "/", "^"}

EndsOperand(part) == part.c \in {"number", ")"}

IsSign(parts, k) ==
    parts[k].c \in Signs /\ parts[k - 1].c \in Operators \cup {"("}
        /\ (k > 2 => ~(parts[k - 1].c \in Signs /\ parts[k - 2].c \in Operators \cup {"("}))

Fits(parts, k) ==
    IF EndsOperand(parts[k - 1]) THEN parts[k].c \in Operators \cup {"(", ")"}
    ELSE parts[k].c \in {"number", "("} \/ IsSign(parts, k)

Depth(parts, k) ==
    Cardinality({j \in 1..k : parts[j].c = "("}) - Cardinality({j \in 1..k : parts[j].c = ")"})

(* The last part of the expression that the first part begins.  What is    *)
(* not closed goes as far as it can.                                       *)
LastPart(parts) ==
    Min({k \in DOMAIN parts : Depth(parts, k) = 0 \/ k = Len(parts) \/ ~Fits(parts, k + 1)})

(* An operation at k, for what is in lo..hi; a factor in parentheses has   *)
(* no character for it.                                                    *)
Operation(parts, k) == IF parts[k].c = "(" THEN "*" ELSE parts[k].c

OperationsIn(parts, lo, hi) ==
    {k \in (lo + 1)..hi :
        /\ EndsOperand(parts[k - 1]) /\ parts[k].c \in Operators \cup {"("}
        /\ Depth(parts, k - 1) = Depth(parts, lo - 1)}

Weakest(parts, among) ==
    LET sums     == {k \in among : Operation(parts, k) \in {"+", "-"}}
        products == {k \in among : Operation(parts, k) \in {"*", "/"}}
    IN  Max(IF sums # {} THEN sums ELSE IF products # {} THEN products ELSE among)

(* None when some part is infinite or no number.                           *)
Finite(x) == IF x = None \/ x.den = 0 THEN None ELSE x

RECURSIVE Worth(_, _, _), Split(_, _, _, _)

Combined(op, left, right) ==
    IF left = None \/ right = None THEN None ELSE Finite(Apply(op, left, right))

Split(parts, lo, hi, k) ==
    Combined(Operation(parts, k), Worth(parts, lo, k - 1),
             Worth(parts, IF parts[k].c = "(" THEN k ELSE k + 1, hi))

SignedWorth(sign, worth) == IF worth = None \/ sign = "+" THEN worth ELSE Negative(worth)

WorthWith(parts, lo, hi, among) ==
    CASE parts[lo].c \in Signs /\ (\A k \in among : parts[k].c = "^") ->
            SignedWorth(parts[lo].c, Worth(parts, lo + 1, hi))
      [] ~(parts[lo].c \in Signs /\ (\A k \in among : parts[k].c = "^")) /\ among # {} ->
            Split(parts, lo, hi, Weakest(parts, among))
      [] among = {} /\ parts[lo].c = "(" -> Worth(parts, lo + 1, hi - 1)
      [] OTHER -> Finite(parts[lo].num)

Worth(parts, lo, hi) == WorthWith(parts, lo, hi, OperationsIn(parts, lo, hi))

(* What stands at i, which is not skipped: its value and what comes after  *)
(* it, with whether it could be read, is closed, and is in one piece.      *)
Number(i, n) ==
    [num |-> IF n.to > i THEN n.num ELSE None, to |-> n.to,
     read |-> n.to > i, closed |-> TRUE, joined |-> TRUE]

Closed(parts, open) == parts \o [j \in 1..open |-> Item(")", 0, 0)]

InParentheses(parts) ==
    LET last == parts[Len(parts)]
        open == Depth(parts, Len(parts))
    IN  [num |-> IF EndsOperand(last) THEN Worth(Closed(parts, open), 1, Len(parts) + open)
                 ELSE None,
         to |-> last.to, read |-> EndsOperand(last), closed |-> open = 0,
         joined |-> \A k \in 2..Len(parts) : parts[k - 1].to = parts[k].at]

Whole(parts) == SubSeq(parts, 1, LastPart(parts))

Expression(i, kind) ==
    IF Here(i) = "(" THEN InParentheses(Whole(Parts(i, kind))) ELSE Number(i, NumberAt(i, kind))
===============================================================================
