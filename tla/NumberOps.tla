------------------------------ MODULE NumberOps -------------------------------
(***************************************************************************)
(* Reading numbers and numerical expressions, of src/reader/parser.c with  *)
(* the scanner's geti() and getd(), as functions of the scanner's state.   *)
(* What is read is [s, num] with the state after it.  Numbers are exact    *)
(* (Numbers.tla), and fit where they are put.                              *)
(***************************************************************************)
EXTENDS ScannerOps, Numbers

CONSTANT None

(* file.c: geti() and getd() without a sign; len is 0 when there is none.  *)
FileNum(b, num, len) == [b |-> b, num |-> num, len |-> len]

RECURSIVE DigitsFrom(_, _, _, _)
DigitsFrom(g, num, len, decimal) ==
    LET c == Gotten(g) IN
    IF c \in Digits
    THEN DigitsFrom(Getc(g), IF decimal THEN WithDecimal(num, c) ELSE WithDigit(num, c),
                    len + 1, decimal)
    ELSE FileNum(g, num, len)

SteppedBack(r) == [r EXCEPT !.b = IF r.len = 0 THEN Ungetn(@, 1) ELSE Decp(@)]

File_geti(b) == SteppedBack(DigitsFrom(Getc(b), Frac(0, 1), 0, FALSE))

AfterPoint(all) ==
    IF all.len = 1 THEN FileNum(Ungetn(all.b, 2), all.num, 0) ELSE SteppedBack(all)

AfterWhole(whole) ==
    IF Gotten(whole.b) = "."
    THEN AfterPoint(DigitsFrom(Getc(whole.b), whole.num, whole.len + 1, TRUE))
    ELSE SteppedBack(whole)

File_getd(b) == AfterWhole(DigitsFrom(Getc(b), Frac(0, 1), 0, FALSE))

(* What getting a number does to frames, around what is read of the file.  *)
BeginNumber(s) == Begun(prepare_frame([s EXCEPT !.b = Update(@)]))

EndNumber(s, r) ==
    [s |-> ReadSym(s, [b |-> r.b, n |-> r.len]).s, num |-> IF r.len = 0 THEN Nan ELSE r.num,
     len |-> r.len, infnum |-> FALSE]

GetiFrom(s)     == EndNumber(s, File_geti(s.b))
Scanner_geti(s) == GetiFrom(BeginNumber(s))

(* Constants in place of a number, from a state in which a character was   *)
(* gotten.  A note is one of the octave of C, as many times that of C4; of *)
(* the notes within a note, that is c.                                     *)
Const(s, num, len) == [s |-> s, num |-> num, len |-> len]
NoConst(s) == Const(s, Nan, 0)

ChanmixAt(s) ==
    CASE Gotten(s.b) = "C" -> Const(s, Frac(0, 1), 1)
      [] Gotten(s.b) = "L" -> Const(s, Frac(-1, 1), 1)
      [] Gotten(s.b) = "R" -> Const(s, Frac(1, 1), 1)
      [] OTHER -> NoConst([s EXCEPT !.b = Decp(@)])

Get(s) == [s EXCEPT !.b = Getc(@)]

scan_chanmix_const(s) == ChanmixAt(Get(s))

OCTAVES == 11

Octave(r) == IF r.len = 0 \/ r.num.num >= OCTAVES THEN 4 ELSE r.num.num

NaturalOf(r, len) == Const(r.s, Frac(2 ^ Octave(r), 16), len + r.len)
SharpOf(r, len)   == Const(r.s, Frac(25 * 2 ^ Octave(r), 24 * 16), len + 1 + r.len)

AfterNote(s, len) ==
    IF Gotten(s.b) = "s" THEN SharpOf(Scanner_geti(s), len)
    ELSE NaturalOf(Scanner_geti([s EXCEPT !.b = Decp(@)]), len)

NoteAt(s, len) ==
    IF Gotten(s.b) = "C" THEN AfterNote(Get(s), len)
    ELSE NoConst([s EXCEPT !.b = Ungetn(@, len)])

SubnoteAt(s) == IF Gotten(s.b) = "c" THEN NoteAt(Get(s), 2) ELSE NoteAt(s, 1)

scan_note_const(s) == SubnoteAt(Get(s))

numconst_f(s, kind) ==
    CASE kind = "note"    -> scan_note_const(s)
      [] kind = "chanmix" -> scan_chanmix_const(s)
      [] OTHER            -> NoConst(s)

(* getd(); num is Nan when there is no number. *)
GetdAfter(r) ==
    EndNumber(r.s, IF r.len > 0 THEN FileNum(r.s.b, r.num, r.len) ELSE File_getd(r.s.b))

Scanner_getd(s, kind) == GetdAfter(numconst_f(BeginNumber(s), kind))

-----------------------------------------------------------------------------
(* scan_num_r() for kind: a number or what is in parentheses, at level 0;  *)
(* with all that has priority over pri, at others.  infnum is has_infnum.  *)
NUMEXP == "(" :> 0 @@ "+" :> 1 @@ "-" :> 1 @@ "*" :> 2 @@ "/" :> 2 @@ "^" :> 3
SUB == 0
NUM == 4

(* The priority up to which an operation is met, and that of its operand.  *)
Priority(op) == IF op = "(" THEN NUMEXP["*"] ELSE NUMEXP[op]

Num(s, num, infnum) == [s |-> s, num |-> num, infnum |-> infnum]

RECURSIVE scan_num_r(_, _, _, _), Operations(_, _, _, _)

Signed(r, sign) == [r EXCEPT !.num = IF sign = "-" THEN Negative(@) ELSE @]

\* A number or a parenthesis, of which a character was gotten.
Operand(got, kind, level) ==
    IF got.c = "(" THEN scan_num_r(got.s, kind, SUB, level + 1)
    ELSE Scanner_getd(Scanner_ungetc(got.s), kind)

SignedFrom(got, kind, level) ==
    IF level > 0 /\ got.c \in {"+", "-"}
    THEN Signed(Operand(Scanner_getc(got.s), kind, level), got.c)
    ELSE Operand(got, kind, level)

OperationsAfter(r, kind, pri, level) ==
    IF IsNan(r.num) \/ level = 0 THEN r
    ELSE Operations([r EXCEPT !.infnum = @ \/ IsInf(r.num)], kind, pri, level)

scan_num_r(s, kind, pri, level) ==
    OperationsAfter(SignedFrom(Scanner_getc(IF level = 1 THEN setws_level(s, "none") ELSE s),
                               kind, level),
                    kind, pri, level)

\* The loop, which ends with what is not for it ungotten.
Deferred(r, s) == Num(Scanner_ungetc(s), r.num, r.infnum)

Operated(r, kind, pri, level) ==
    IF IsNan(r.num) THEN Deferred(r, r.s)
    ELSE Operations([r EXCEPT !.infnum = @ \/ IsInf(r.num)], kind, pri, level)

WithOperand(r, op, operand, kind, pri, level) ==
    Operated(Num(operand.s, Apply(IF op = "(" THEN "*" ELSE op, r.num, operand.num),
                 r.infnum \/ operand.infnum),
             kind, pri, level)

OperationAt(r, got, kind, pri, level) ==
    CASE got.c = ")" /\ pri = SUB -> Num(got.s, r.num, r.infnum)
      [] got.c \in DOMAIN NUMEXP /\ pri < Priority(got.c) ->
            WithOperand(r, got.c,
                        scan_num_r(got.s, kind, NUMEXP[got.c],
                                   IF got.c = "(" THEN level + 1 ELSE level),
                        kind, pri, level)
      [] OTHER -> Deferred(r, got.s)

Operations(r, kind, pri, level) == OperationAt(r, Scanner_getc(r.s), kind, pri, level)

(* scan_num(), and scan_time_val() for the kind "time"; num is None when   *)
(* there is none to use.                                                   *)
Usable(r, kind) ==
    ~IsNan(r.num) /\ ~r.infnum /\ ~IsInf(r.num) /\ (kind = "time" => r.num.num >= 0)

ms(num) == Nearest(Product(num, Frac(1000, 1)))

NumberRead(r, kind, ws_level) ==
    [s |-> setws_level(r.s, ws_level), nan |-> IsNan(r.num),
     num |-> IF ~Usable(r, kind) THEN None ELSE IF kind = "time" THEN ms(r.num) ELSE r.num]

scan_num(s, kind) == NumberRead(scan_num_r(s, kind, NUM, 0), kind, s.ws)
===============================================================================
