-------------------------------- MODULE Scanner --------------------------------
(***************************************************************************)
(* A scanner (ScannerOps) in use as by the parser: getting characters,     *)
(* trying for one, ungetting, reading symbols, numbers and numerical       *)
(* expressions (NumberOps), and setting what is done about whitespace.     *)
(***************************************************************************)
EXTENDS NumberOps, FiniteSets, Functions

CONSTANTS Texts,      \* the texts to read
          TryChars,   \* characters that are tried for
          MaxUndone,  \* BOUND: number of characters that may be ungotten together
          MaxEnds,    \* BOUND: number of times that reading goes on at the end
          MaxEmpty,   \* BOUND: number of times that there is no symbol to read
          Kinds,      \* of numbers: "plain", "time", or with constants, "note", "chanmix"
          NumTexts    \* BOUND: texts that have a number read before other things

VARIABLES s,       \* the scanner
          got,     \* what the last operation returned
          text,    \* the text
          seen,    \* history: what it reads as, as far as it was gotten
          undone,  \* history: number of those that are ungotten now
          want,    \* history: what the last operation should have returned
          op,      \* history: the last operation, "first" a get of something new
          empty,   \* history: number of times that there was no symbol to read
          steady   \* history: nothing was ungotten yet that makes places go wrong

scannerVars == <<s, got, text, seen, undone, want, op, empty, steady>>

Reading == INSTANCE ExpressionText

ScannerInit ==
    /\ text \in Texts
    /\ s = ScannerOpened([chars |-> text, bad |-> FALSE])
    /\ got = Skip /\ want = Skip /\ seen = <<>> /\ undone = 0 /\ op = "open"
    /\ empty = 0 /\ steady = TRUE

(* The next item, after those that were seen and not ungotten.             *)
Ahead == IF seen = <<>> THEN 1 ELSE seen[Len(seen)].to

Expected == IF undone > 0 THEN seen[Len(seen) - undone + 1] ELSE Reading!NextItem(Ahead, s.ws)

Seen == IF undone > 0 THEN seen ELSE Append(seen, Expected)

(* "#Q" was met.                                                           *)
Quit == seen # <<>> /\ LET i == seen[Len(seen)] IN i.c = Eof /\ i.to <= Len(text)

(* Reading goes on at the end of the text, since every level of the parser *)
(* finds it for itself.  It should not after "#Q"; when that is inside a   *)
(* level it does, and what comes after it is read (scanner.c:578, where    *)
(* the end is not remembered), which is not followed further here.         *)
Failed == op = "failed"

MayGet ==
    /\ Cardinality({i \in DOMAIN seen : seen[i].c = Eof}) < MaxEnds \/ undone > 0
    /\ ~Quit /\ ~Failed

Begins == text \in NumTexts => \E i \in DOMAIN seen : seen[i].c = "symbol"

getc ==
    \E r \in {Scanner_getc(s)} :
        /\ MayGet /\ Begins
        /\ s' = r.s /\ got' = r.c /\ want' = Expected.c
        /\ seen' = Seen
        /\ undone' = IF undone > 0 THEN undone - 1 ELSE 0
        /\ op' = IF undone > 0 THEN "again" ELSE "first"
        /\ UNCHANGED <<text, empty, steady>>

(* After ungetting an item that other things were skipped for, or that is  *)
(* the first of a line, the place goes wrong: what is restored is the place *)
(* before these (scanner.c:645).                                           *)
Plain(items, i) ==
    /\ items[i].at = IF i = 1 THEN 1 ELSE items[i - 1].to
    /\ i > 1 => items[i - 1].c # "\n"

(* The last was a single character, not a symbol.                          *)
ungetc ==
    /\ undone < MaxUndone /\ undone < Len(seen) /\ ~Quit /\ ~Failed
    /\ seen[Len(seen) - undone].c # "symbol"
    /\ s' = Scanner_ungetc(s) /\ undone' = undone + 1
    /\ op' = "unget" /\ steady' = (steady /\ Plain(seen, Len(seen) - undone))
    /\ UNCHANGED <<got, text, seen, want, empty>>

(* A character that is filtered is gotten and ungotten when it is not the  *)
(* one that is tried for.                                                  *)
tryc(testc) ==
    LET ahead    == IF undone > 0 THEN Expected.at ELSE Ahead
        filtered == Reading!Here(ahead) \in Filtered \cup {"end"}
        ok       == (IF filtered THEN Expected.c ELSE Reading!Here(ahead)) = testc
    IN  \E r \in {Scanner_tryc(s, testc)} :
        /\ MayGet
        /\ s' = r.s /\ got' = r.ok /\ want' = ok
        /\ seen' = IF ok \/ filtered THEN Seen ELSE seen
        /\ undone' = CASE ok -> IF undone > 0 THEN undone - 1 ELSE 0
                       [] filtered /\ ~ok /\ undone = 0 -> 1
                       [] OTHER -> undone
        /\ op' = IF ok /\ undone = 0 THEN "first" ELSE "try"
        /\ steady' = (steady /\ (filtered /\ ~ok /\ undone = 0 => Plain(Seen, Len(Seen))))
        /\ UNCHANGED <<text, empty>>

get_symstr ==
    LET from == IF undone > 0 THEN Expected.at ELSE Ahead
        len  == Reading!SymLen(from)
        end  == from + len
    IN  \E r \in {Scanner_get_symstr(s)} :
        /\ MayGet /\ Begins /\ undone <= 1 /\ (len > 0 \/ empty < MaxEmpty)
        /\ s' = r.s /\ got' = r.len /\ want' = len
        /\ seen' = IF len = 0 THEN seen
                   ELSE Append(SubSeq(seen, 1, Len(seen) - undone),
                               Reading!Item("symbol", end - 1, end))
        /\ undone' = IF len = 0 THEN undone ELSE 0
        /\ op' = IF len > 0 /\ undone = 0 THEN "first" ELSE "symbol"
        /\ empty' = IF len > 0 THEN empty ELSE empty + 1
        /\ UNCHANGED <<text, steady>>

(* The parser changes the level after it got '(', and restores it when it  *)
(* got or has ungotten what is no number (parser.c:142, 211): no           *)
(* whitespace comes again at another level.                                *)
set_ws(level) ==
    /\ level # s.ws /\ ~Failed /\ Begins
    /\ seen # <<>> => seen[Len(seen)].c \notin {" ", "\n"}
    /\ s' = setws_level(s, level) /\ op' = "level"
    /\ UNCHANGED <<got, text, seen, undone, want, empty, steady>>

(* A number or an expression, or neither.  After one that is no number the *)
(* parser is somewhere within it (several ungets in a row are made), which *)
(* is not followed further.                                                *)
NumberOf(kind, e) ==
    IF e.num = None \/ kind # "time" THEN e.num
    ELSE IF e.num.num < 0 THEN None ELSE Nearest(Product(e.num, Frac(1000, 1)))

WithNote(kind, e) == kind = "note" /\ "C" \in Range(SubSeq(text, Expected.at, e.to - 1))

SeenNumber(e) ==
    LET after == Append(SubSeq(seen, 1, Len(seen) - undone), Reading!Item("symbol", e.to - 1, e.to))
    IN  IF e.closed THEN after ELSE Append(after, Reading!NextItem(e.to, "none"))

scan_number(kind) ==
    /\ text \in NumTexts /\ MayGet /\ undone <= 1 /\ s.ws = "all"
    /\ \E e \in {Reading!Expression(Expected.at, kind)}, r \in {scan_num(s, kind)} :
        LET none == ~e.read /\ Expected.c # "("
        IN  /\ none => empty < MaxEmpty
            /\ s' = r.s /\ got' = r.num /\ want' = NumberOf(kind, e)
            /\ seen' = CASE none -> Seen [] e.read -> SeenNumber(e) [] OTHER -> seen
            /\ undone' = IF none \/ (e.read /\ ~e.closed) THEN 1 ELSE 0
            /\ op' = IF r.nan /\ ~none THEN "failed" ELSE "symbol"
            /\ empty' = IF none THEN empty + 1 ELSE empty
            /\ steady' = /\ steady /\ (undone = 0 => Plain(Seen, Len(Seen)))
                          /\ ~none /\ e.closed /\ e.joined /\ ~WithNote(kind, e)
    /\ UNCHANGED text

ScannerNext ==
    getc \/ ungetc \/ get_symstr \/ (\E c \in TryChars : tryc(c))
         \/ (\E level \in {"all", "none"} : set_ws(level)) \/ (\E kind \in Kinds : scan_number(kind))

ScannerSpec == ScannerInit /\ [][ScannerNext]_scannerVars

-----------------------------------------------------------------------------
(* Properties *)

(* A linebreak that is ungotten becomes "\n" in the buffer, and takes in a *)
(* "\r" after it when it is gotten again (scanner.c:200, 542).             *)
ReturnsApart ==
    \A i \in DOMAIN text :
        Reading!BreaksAt(i) => Reading!Here(i + Reading!BreakLen(i)) # "\r"

(* A sign is taken with the number, and a factor in parentheses with what  *)
(* is before it, also where a power comes after: "(-2^2)" is no number and *)
(* "(2(3)^2)" is 36.                                                       *)
PowersPlain ==
    ~\E i, j \in DOMAIN text :
        text[i] = "^" /\ j > 1
           /\ \/ text[j] \in {"+", "-"} /\ text[j - 1] \notin Digits \cup {")"}
              \/ text[j] = "(" /\ text[j - 1] \in Digits \cup {")"}

(* Whatever is gotten, tried for, ungotten and read, every operation       *)
(* returns what comes next in the text: nothing is skipped, repeated or    *)
(* changed by looking at it before, by the end of a buffer area, or by     *)
(* another treatment of whitespace since ("Allows revisiting a character   *)
(* using a different scanning method", scanner.c:634).                     *)
ReadsTextInOrder == ReturnsApart /\ PowersPlain => got = want

(* What is gotten for the first time, or read, is on the line and in the   *)
(* column that the scanner says, in and after comments, linebreaks of any  *)
(* kind and what is ungotten, unless that was the first of a line or after *)
(* something skipped, or a read had no length.                             *)
PlaceTold ==
    op = "first" /\ empty = 0 /\ steady /\ ReturnsApart /\ seen[Len(seen)].c # Eof =>
        /\ s.sf.line = Reading!LineOf(seen[Len(seen)].at)
        /\ s.sf.char = Reading!ColumnOf(seen[Len(seen)].at)

(* Two that the code does not keep to; they are checked by no run.         *)

(* What is ungotten comes again, also when it is more than one character:  *)
(* "up to SAU_SCAN_UNGET_MAX ungets allowed in a row" (scanner.c:631-632). *)
(* The second unget is from a buffer that the first one changed.           *)
UngottenComesAgain == op = "again" => got = want

(* What is gotten for the first time is on the line that the scanner says: *)
(* "otherwise, the current position is used" (scanner.c:798).              *)
LineTold ==
    op = "first" /\ ReturnsApart /\ seen[Len(seen)].c # Eof =>
        s.sf.line = Reading!LineOf(seen[Len(seen)].at)
===============================================================================
