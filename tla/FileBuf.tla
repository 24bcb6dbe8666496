-------------------------------- MODULE FileBuf --------------------------------
(***************************************************************************)
(* A file buffer (FileBufOps) and what the scanner does with it: getting   *)
(* characters, ungetting some, and closing the file on the way.            *)
(***************************************************************************)
EXTENDS FileBufOps

CONSTANTS Chars,   \* what a character may be
          Files,   \* what may be read
          End,     \* what a user takes an end marker for,
          Failed,  \*   when the status tells of an error
          MaxEnds  \* BOUND: number of times that reading goes on at the end

ASSUME FilesAssumption == \A f \in Files : f \in [chars : Seq(Chars), bad : BOOLEAN]

VARIABLES b,     \* the buffer
          got,   \* what was gotten last
          text,  \* history: what is to be read
          n,     \* history: number of times gotten, less those ungotten
          far    \* history: the highest n has been

fileVars == <<b, got, text, n, far>>

FileInit ==
    /\ text \in Files /\ b = Opened(text)
    /\ got = End /\ n = 0 /\ far = 0

(* A user looks for the marker's value, then for where it is, and then at  *)
(* the status (scanner.c, SAU_Scanner_filter_invalid()).                   *)
Get ==
    /\ n < Len(text.chars) + MaxEnds
    /\ b' = Getc(b)
    /\ got' = IF ~GotEnd(b') THEN Gotten(b')
              ELSE IF "error" \in b'.status THEN Failed ELSE End
    /\ n' = n + 1
    /\ far' = IF n < far THEN far ELSE n + 1
    /\ UNCHANGED text

(* "[F]or n <= (SAU_FILE_ALEN - 1) plus the number of characters gotten    *)
(* within the current buffer area" (file.h:278-280), counted from where    *)
(* reading has come to.  Of the end markers only the last is known as one, *)
(* so no more than that is ungotten when there are several.                *)
MayUnget(k) ==
    /\ far - (n - k) <= (ALEN - 1) + (far % ALEN)
    /\ far > Len(text.chars) + 1 => far - (n - k) <= 1

Unget(k) ==
    /\ MayUnget(k)
    /\ b' = Ungetn(b, k)
    /\ n' = n - k
    /\ UNCHANGED <<got, text, far>>

(* SAU_Scanner_close() while a character that was ungotten is at hand, as  *)
(* for "#Q" (parser.c:116-118).                                            *)
Close ==
    /\ n < far /\ n < Len(text.chars)
    /\ b' = FileClose(b)
    /\ text' = IF "end" \in b.status THEN text
               ELSE [chars |-> SubSeq(text.chars, 1, n + 1), bad |-> FALSE]
    /\ UNCHANGED <<got, n, far>>

FileNext == Get \/ (\E k \in 1..n : Unget(k)) \/ Close

FileSpec == FileInit /\ [][FileNext]_fileVars

-----------------------------------------------------------------------------
(* Properties *)

(* Whatever is gotten and ungotten, across areas and the end of the file,  *)
(* is the text, each character in its turn and then its end; an end marker *)
(* is not taken for a character, nor a character for one ("this can safely *)
(* be done", file.h:279; "check using this", file.h:343).                  *)
Stream == INSTANCE CharStream

ReadsTheText == Stream!StreamSpec
===============================================================================
