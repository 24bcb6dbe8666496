------------------------------ MODULE FileBufOps ------------------------------
(***************************************************************************)
(* The text file buffer of src/reader/file.c and the macros of file.h, as  *)
(* functions of its state.  A buffer is a ring of two areas, filled one    *)
(* area at a time when the reading position comes to the call position.    *)
(* Its state is a record                                                   *)
(*   [file, ref, pos, call_pos, end_pos, status, buf]                      *)
(* where file is what is read from, [chars, bad], bad being whether        *)
(* reading on after the characters fails; ref is how many were taken; and  *)
(* status is a set of flags.  As in the code pos may come to be BUFSIZ,    *)
(* until it is used again.                                                 *)
(***************************************************************************)
EXTENDS Integers, Sequences

CONSTANTS ALEN,     \* SAU_FILE_ALEN, the length of an area
          Mark,     \* the value of end markers; files may have it as well
          Unset     \* what is in the buffer at first

ASSUME FileBufAssumption == ALEN \in Nat \ {0}

BUFSIZ == 2 * ALEN

Wrap(p) == p % BUFSIZ

\* SAU_File_init() with an open file.
Opened(f) ==
    [file |-> f, ref |-> 0, pos |-> 0, call_pos |-> 0, end_pos |-> -1, status |-> {},
     buf |-> [j \in 0..(BUFSIZ - 1) |-> Unset]]

\* SAU_File_close(): what is in the buffer at the position can still be read.
FileClose(b) ==
    IF "end" \in b.status THEN b
    ELSE [b EXCEPT !.status = @ \cup {"end"}, !.call_pos = Wrap(b.pos + 1)]

\* SAU_File_end(): an end marker, keep_len after the position.
FileEnd(b, keep_len, error) ==
    LET end == Wrap(b.pos + keep_len)
    IN  [FileClose(b) EXCEPT !.status = IF error THEN @ \cup {"error"} ELSE @,
                             !.end_pos = end, !.buf[end] = Mark, !.call_pos = Wrap(end + 1)]

(* mode_fread() and mode_strread(): fill the area that the position is in, *)
(* as far as there is something to fill it with.                           *)
AreaStart(p) == p - (p % ALEN)

ReadLen(b) ==
    LET left == Len(b.file.chars) - b.ref IN IF left < ALEN THEN left ELSE ALEN

Fill(b) ==
    LET start  == AreaStart(b.pos)
        len    == ReadLen(b)
        filled == [b EXCEPT !.pos = start, !.ref = @ + len, !.call_pos = Wrap(start + len),
                            !.buf = [j \in DOMAIN @ |-> IF j \in start..(start + len - 1)
                                                        THEN b.file.chars[b.ref + (j - start) + 1]
                                                        ELSE @[j]]]
    IN  IF len < ALEN THEN FileEnd(filled, len, b.file.bad) ELSE filled

\* The callback: SAU_File_action_wrap() once the file has ended.
CallForgetful(b) == Fill(b)

Call(b) == IF "end" \in b.status THEN FileEnd(b, 0, FALSE) ELSE Fill(b)

\* SAU_File_UPDATE().
Update(b) ==
    IF Wrap(b.pos) = b.call_pos THEN Call([b EXCEPT !.pos = Wrap(@)])
    ELSE [b EXCEPT !.pos = Wrap(@)]

\* SAU_File_GETC() leaves what it got just before the position.
Getc(b)   == LET u == Update(b) IN [u EXCEPT !.pos = @ + 1]
Gotten(b) == b.buf[Wrap(b.pos - 1)]

Decp(b)     == [b EXCEPT !.pos = @ - 1]
Ungetn(b, n) == [b EXCEPT !.pos = Wrap(@ - n)]

AfterEof(b) == b.end_pos = Wrap(b.pos - 1)

\* How the end is told from a character of the marker's value.
GotEndByValue(b) == Gotten(b) = Mark
GotEnd(b)        == Gotten(b) = Mark /\ AfterEof(b)
===============================================================================
