------------------------------ MODULE ScannerOps ------------------------------
(***************************************************************************)
(* The scanner of src/reader/scanner.c, with the filter that the parser    *)
(* sets for '#', as functions of its state, a record                       *)
(*   [b, sf, undo, undo_pos, unget_num, discard, ws]                       *)
(* where b is the file buffer; a frame (sf, and the entries of undo) is    *)
(* [line, char, c, posup], posup being SAU_SCAN_C_LNBRK_POSUP, the only    *)
(* one of the flags that changes what is done; discard is                  *)
(* SAU_SCAN_S_DISCARD.  A character is a string; "BEL" stands for all that *)
(* are not valid, among them the value of end markers.                     *)
(***************************************************************************)
EXTENDS FileBufOps, TLC

CONSTANTS UNGET_MAX,  \* SAU_SCAN_UNGET_MAX, one less than a power of two
          SymChars,   \* those of letters, digits and '_' that occur
          OtherChars  \* further ones that are not filtered

ASSUME ScannerAssumption == UNGET_MAX \in {1, 3, 7, 15, 31, 63} /\ Mark = "BEL"

Spaces   == {" ", "\t"}
LnBrks   == {"\n", "\r"}
Filtered == Spaces \cup LnBrks \cup {"/", "#", Mark}
Chars    == SymChars \cup OtherChars \cup Filtered \cup {"*"}

Eof  == "EOF"      \* SAU_SCAN_EOF; what getc() returns 0 for
Skip == "skip"     \* 0, as returned by a filter

Frame(line, char, c) == [line |-> line, char |-> char, c |-> c, posup |-> FALSE]

\* SAU_create_Scanner() and SAU_Scanner_open().
ScannerOpened(file) ==
    [b |-> Opened(file), sf |-> Frame(1, 0, Skip), undo_pos |-> 0, unget_num |-> 0,
     undo |-> [i \in 0..UNGET_MAX |-> Frame(0, 0, Skip)], discard |-> TRUE, ws |-> "all"]

(* What file.c reads of characters in a set: skipspace(), skipline(),      *)
(* skipstr() and read_symstr(), with how many they were.  SkipFrom() goes  *)
(* on when one was gotten, as other definitions with parameters do below.  *)
RECURSIVE SkipFrom(_, _, _)
SkipFrom(g, set, n) ==
    IF Gotten(g) \in set /\ ~GotEnd(g) THEN SkipFrom(Getc(g), set, n + 1)
    ELSE [b |-> Decp(g), n |-> n]

SkipWhile(b, set) == SkipFrom(Getc(b), set, 0)

\* SAU_File_TRYC().
AtPos(b)     == b.buf[b.pos]
Tested(b, c) == AtPos(Update(b)) = c
TrycAt(u, c) == IF AtPos(u) = c THEN [u EXCEPT !.pos = @ + 1] ELSE u
Tryc(b, c)   == TrycAt(Update(b), c)

-----------------------------------------------------------------------------
(* Filters, from a state in which c was gotten to a state and what to use  *)

Filt(s, c) == [s |-> s, c |-> c]

pos_past_linebreakInColumn(sf, char_num) == [sf EXCEPT !.line = @ + 1]

pos_past_linebreak(sf, char_num) == [sf EXCEPT !.line = @ + 1, !.char = char_num]

filter_invalid(s) == Filt(s, IF GotEnd(s.b) THEN Eof ELSE Skip)

filter_linebreak_keep(s, c) ==
    Filt([s EXCEPT !.b = IF c = "\n" THEN Tryc(@, "\r") ELSE @, !.sf.posup = TRUE], "\n")

RECURSIVE PastLinebreaks(_)
PastSpaces(s, spaces) ==
    IF spaces.n = 0 THEN [s EXCEPT !.b = spaces.b]
    ELSE PastLinebreaks([s EXCEPT !.b = spaces.b, !.sf.char = spaces.n])

PastLinebreaks(s) ==
    IF Tested(s.b, "\n") THEN PastLinebreaks([s EXCEPT !.b = Tryc(Tryc(@, "\n"), "\r"),
                                                        !.sf = pos_past_linebreak(@, 0)])
    ELSE IF Tested(s.b, "\r") THEN PastLinebreaks([s EXCEPT !.b = Tryc(@, "\r"),
                                                             !.sf = pos_past_linebreak(@, 0)])
    ELSE PastSpaces(s, SkipWhile(s.b, Spaces))

\* Skipped on the line.
Over(s, skipped) == [s EXCEPT !.b = skipped.b, !.sf.char = @ + skipped.n]

filter_ws_none(s, c) ==
    IF c \in Spaces THEN Filt(Over(s, SkipWhile(s.b, Spaces)), Skip)
    ELSE Filt(PastLinebreaks([s EXCEPT !.b = IF c = "\n" THEN Tryc(@, "\r") ELSE @,
                                       !.sf = [pos_past_linebreak(@, 0) EXCEPT !.posup = FALSE]]),
              Skip)

filter_ws(s, c) ==
    CASE s.ws = "none"   -> filter_ws_none(s, c)
      [] c \in Spaces -> Filt(s, " ")
      [] OTHER        -> filter_linebreak_keep(s, c)

filter_linecomment(s) == Filt(Over(s, SkipWhile(s.b, Chars \ LnBrks)), Skip)

\* From a state in which a character was gotten; the frame is set at the end.
RECURSIVE BlockComment(_, _)
BlockComment(s, sf) ==
    LET c == Gotten(s.b)
        star == c = "*" /\ Tested(s.b, "/")
        b  == IF c \in {"\n", "*"} THEN Tryc(s.b, IF c = "*" THEN "/" ELSE "\r") ELSE s.b
    IN  IF star THEN filter_ws([s EXCEPT !.b = b, !.sf = [sf EXCEPT !.char = @ + 2]], " ")
        ELSE IF GotEnd(s.b) THEN Filt(s, Eof)
        ELSE BlockComment([s EXCEPT !.b = Getc(b)],
                          IF c \in LnBrks THEN pos_past_linebreak(sf, 0)
                          ELSE [sf EXCEPT !.char = @ + 1])

filter_blockcomment(s) == BlockComment([s EXCEPT !.b = Getc(@)], s.sf)

\* The next character belongs to it; the rest depends on that, which is gotten.
Taken(s, g) == [s EXCEPT !.b = g, !.sf.char = @ + 1]
Left(s, g)  == [s EXCEPT !.b = Decp(g)]

AfterSlash(s, g, c) ==
    CASE Gotten(g) = "*" -> filter_blockcomment(Taken(s, g))
      [] Gotten(g) = "/" -> filter_linecomment(Taken(s, g))
      [] OTHER -> Filt(Left(s, g), c)

filter_slashcomments(s, c) == AfterSlash(s, Getc(s.b), c)

AfterHash(s, g, c) ==
    CASE Gotten(g) = "!" -> filter_linecomment(Taken(s, g))
      [] Gotten(g) = "Q" -> Filt([s EXCEPT !.b = FileClose(Decp(g))], Eof)
      [] OTHER -> Filt(Left(s, g), c)

scan_filter_hashcommands(s, c) == AfterHash(s, Getc(s.b), c)

usefilter(s, c) ==
    CASE c \in Spaces \cup LnBrks -> filter_ws(s, c)
      [] c = "/"  -> filter_slashcomments(s, c)
      [] c = "#"  -> scan_filter_hashcommands(s, c)
      [] c = Mark -> filter_invalid(s)
      [] OTHER    -> Filt(s, c)

-----------------------------------------------------------------------------
(* Frames *)

restore_frame(s, offset) ==
    [s EXCEPT !.sf = s.undo[(s.undo_pos - offset) % (UNGET_MAX + 1)]]

prepare_frame(s) ==
    IF s.unget_num > 0
    THEN restore_frame([s EXCEPT !.unget_num = @ - 1], s.unget_num - 1)
    ELSE LET i == IF s.discard THEN s.undo_pos ELSE (s.undo_pos + 1) % (UNGET_MAX + 1)
         IN  [s EXCEPT !.discard = FALSE, !.undo_pos = i, !.undo[i] = s.sf,
                       !.sf = IF @.posup THEN [pos_past_linebreak(@, 0) EXCEPT !.posup = FALSE]
                              ELSE @]

\* The character before the position becomes c.
set_usedcInFrame(s, c) == [s EXCEPT !.sf.c = c]

set_usedc(s, c) == [s EXCEPT !.sf.c = c, !.b.buf[Wrap(s.b.pos - 1)] = c]

(* As the program uses it at most one character is ungotten here; then the *)
(* first prepare_frame() of the call has left unget_num at 0.              *)
advance_frame(s, strlen, c) ==
    IF strlen = 0 THEN s
    ELSE LET reget == IF strlen > s.unget_num THEN s.unget_num ELSE strlen
             p     == prepare_frame([s EXCEPT !.unget_num = IF reget > 0 THEN @ - (reget - 1) ELSE @])
         IN  [p EXCEPT !.sf.char = @ + strlen, !.sf.c = c, !.discard = TRUE]

-----------------------------------------------------------------------------
(* Operations, with what they return *)

GetFiltered(s) == LET g == Getc(s.b) IN usefilter(Taken(s, g), Gotten(g))

RECURSIVE Used(_)
Used(used) ==
    CASE used.c = Skip -> Used(GetFiltered(used.s))
      [] used.c = Eof  -> used
      [] OTHER         -> Filt(set_usedc(used.s, used.c), used.c)

Scanner_getc(s) == Used(GetFiltered(prepare_frame(s)))

Scanner_ungetc(s) ==
    IF s.unget_num >= UNGET_MAX THEN s
    ELSE LET r == restore_frame([s EXCEPT !.unget_num = @ + 1], s.unget_num + 1)
         IN  set_usedc([r EXCEPT !.b = Ungetn(@, 1)], r.sf.c)

TryFiltered(got, testc) ==
    IF got.c = testc THEN [s |-> got.s, ok |-> TRUE]
    ELSE [s |-> Scanner_ungetc([got.s EXCEPT !.discard = TRUE]), ok |-> FALSE]

Took(s) == [s EXCEPT !.sf.char = @ + 1, !.sf.c = AtPos(s.b), !.b.pos = @ + 1]

\* Once the buffer is updated.
TryHere(s, testc) ==
    CASE AtPos(s.b) \in Filtered -> TryFiltered(Scanner_getc(s), testc)
      [] AtPos(s.b) = testc /\ testc \notin Filtered -> [s |-> Took(prepare_frame(s)), ok |-> TRUE]
      [] OTHER -> [s |-> s, ok |-> FALSE]

Scanner_tryc(s, testc) == TryHere([s EXCEPT !.b = Update(@)], testc)

(* SAU_Scanner_get_symstr(); geti() and getd() do the same with numbers.   *)
Begun(s) == [s EXCEPT !.sf.c = AtPos(s.b), !.sf.char = @ + 1]

ReadSym(s, str) ==
    [s |-> IF str.n = 0 THEN [s EXCEPT !.b = str.b, !.discard = TRUE]
           ELSE advance_frame([s EXCEPT !.b = str.b], str.n - 1, str.b.buf[Wrap(str.b.pos)]),
     len |-> str.n]

SymFrom(s) == ReadSym(s, SkipWhile(s.b, SymChars))

Scanner_get_symstr(s) == SymFrom(Begun(prepare_frame([s EXCEPT !.b = Update(@)])))

\* SAU_Scanner_setws_level().
setws_level(s, ws_level) == [s EXCEPT !.ws = ws_level]
===============================================================================
