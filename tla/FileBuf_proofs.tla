---------------------------- MODULE FileBuf_proofs ----------------------------
(***************************************************************************)
(* Machine-checked proof that the ring of a file buffer implements         *)
(* CharStream, for every area length, text and number of ends, however     *)
(* characters are gotten and ungotten within what file.h allows.           *)
(***************************************************************************)
EXTENDS FileBuf, SequenceTheorems, ProofFacts

(***************************************************************************)
(* The inductive invariant.  Characters and ends of the text are numbered  *)
(* from 0, number i being kept at Wrap(i); those from lo up to but not     *)
(* including stop are in the ring, and the ring is filled further when     *)
(* reading comes to stop.                                                  *)
(***************************************************************************)
Length == Len(text.chars)

\* How far back reading may go from where it has come to.
Low(i) == i - (i % ALEN) - ALEN + 1

\* Reading is within what is in the ring, and may go back no further.
InWindow(stop, lo) ==
    /\ b.pos \in 0..BUFSIZ /\ Wrap(b.pos) = Wrap(n) /\ b.call_pos = Wrap(stop)
    /\ lo <= n /\ n <= stop /\ stop < lo + BUFSIZ /\ n <= far
    /\ far <= Length + 1 => lo <= Low(far)
    /\ far > Length + 1 => lo <= far - 1

\* What the ring has of the text is the text.
HasText(stop, lo) ==
    \A i \in Nat : lo <= i /\ i < stop /\ i < Length => b.buf[Wrap(i)] = text.chars[i + 1]

\* The file is open: what was taken from it is all that reading stops at.
WhileOpen(stop, lo) ==
    /\ b.status = {} /\ b.file = text /\ b.end_pos = -1
    /\ b.ref = stop /\ stop <= Length /\ stop % ALEN = 0 /\ lo = stop - BUFSIZ + 1
    /\ far <= stop /\ (stop = 0 \/ far > stop - ALEN)

\* It is closed: all the text is there, and what follows is the last marker.
OnceEnded(stop, lo) ==
    /\ "end" \in b.status /\ ("error" \in b.status <=> text.bad /\ stop > Length)
    /\ Length <= stop
    /\ stop = Length => b.end_pos = -1 /\ ~text.bad
    /\ stop > Length => b.end_pos = Wrap(stop - 1) /\ b.buf[b.end_pos] = Mark
    /\ stop > Length + 1 => stop - 1 <= lo

Fields == {"file", "ref", "pos", "call_pos", "end_pos", "status", "buf"}

TypeOK ==
    /\ text \in [chars : Seq(Chars), bad : BOOLEAN] /\ n \in Nat /\ far \in Nat
    /\ DOMAIN b = Fields
    /\ DOMAIN b.buf = 0..(BUFSIZ - 1)

Window(stop, lo) ==
    /\ InWindow(stop, lo) /\ HasText(stop, lo)
    /\ IF "end" \in b.status THEN OnceEnded(stop, lo) ELSE WhileOpen(stop, lo)

FileInv == TypeOK /\ \E stop \in Nat, lo \in Int : Window(stop, lo)

-----------------------------------------------------------------------------
(***************************************************************************)
(* Places in the ring.                                                     *)
(***************************************************************************)

LEMMA WrapRange ==
  ASSUME NEW x \in Int
  PROVE  Wrap(x) \in 0..(BUFSIZ - 1)
BY FileBufAssumption, DivMod DEF Wrap, BUFSIZ

\* A place wrapped before going on from it is the same place.
LEMMA WrapAdd ==
  ASSUME NEW x \in Int, NEW y \in Int, NEW k \in Int, Wrap(x) = Wrap(y)
  PROVE  Wrap(x + k) = Wrap(y + k)
<1>1. BUFSIZ \in Nat \ {0}
  BY FileBufAssumption DEF BUFSIZ
<1>2. ((x % BUFSIZ) + k) % BUFSIZ = (x + k) % BUFSIZ
  BY <1>1, ModAdd
<1>3. ((y % BUFSIZ) + k) % BUFSIZ = (y + k) % BUFSIZ
  BY <1>1, ModAdd
<1>4. QED
  BY <1>2, <1>3 DEF Wrap

LEMMA WrapBack ==
  ASSUME NEW x \in Int, NEW y \in Int, NEW k \in Int, Wrap(x) = Wrap(y)
  PROVE  Wrap(x - k) = Wrap(y - k)
<1>1. PICK m \in Int : m = -k
  OBVIOUS
<1>2. Wrap(x + m) = Wrap(y + m)
  BY WrapAdd
<1>3. x + m = x - k /\ y + m = y - k
  BY <1>1
<1>4. QED
  BY <1>2, <1>3

LEMMA WrapBackOne ==
  ASSUME NEW x \in Int, NEW y \in Int, Wrap(x) = Wrap(y + 1)
  PROVE  Wrap(x - 1) = Wrap(y)
<1>1. y + 1 \in Int /\ 1 \in Int /\ (y + 1) - 1 = y
  OBVIOUS
<1>2. Wrap(x - 1) = Wrap((y + 1) - 1)
  BY <1>1, WrapBack
<1>3. QED
  BY <1>1, <1>2

LEMMA WrapIdempotent ==
  ASSUME NEW x \in Int
  PROVE  Wrap(Wrap(x)) = Wrap(x)
<1>1. BUFSIZ \in Nat \ {0}
  BY FileBufAssumption DEF BUFSIZ
<1>2. ((x % BUFSIZ) + 0) % BUFSIZ = (x + 0) % BUFSIZ
  BY <1>1, ModAdd
<1>3. x % BUFSIZ \in Int
  BY <1>1
<1>4. QED
  BY <1>2, <1>3 DEF Wrap

\* Less than a ring apart, different numbers have different places.
LEMMA WrapDistinct ==
  ASSUME NEW x \in Int, NEW y \in Int, x < y, y < x + BUFSIZ
  PROVE  Wrap(x) # Wrap(y)
<1>1. BUFSIZ \in Nat \ {0}
  BY FileBufAssumption DEF BUFSIZ
<1>2. x % BUFSIZ # y % BUFSIZ
  <2>1. x <= y /\ x # y
    OBVIOUS
  <2>2. QED
    BY <1>1, <2>1, ModDistinct
<1>3. QED
  BY <1>2 DEF Wrap

\* An area starts where the number of what is first in it does.
LEMMA AreaWrap ==
  ASSUME NEW x \in Int, x % ALEN = 0
  PROVE  /\ AreaStart(Wrap(x)) = Wrap(x)
         /\ Wrap(x) + ALEN <= BUFSIZ
         /\ \A j \in 0..(ALEN - 1) : Wrap(x + j) = Wrap(x) + j
         /\ (x + ALEN) % ALEN = 0
<1> DEFINE q == x \div ALEN
           w == x % BUFSIZ
           p == x \div BUFSIZ
<1>1. x = ALEN * q /\ q \in Int
  BY FileBufAssumption, DivMod
<1>2. x = BUFSIZ * p + w /\ p \in Int /\ w \in 0..(BUFSIZ - 1)
  <2>1. BUFSIZ \in Nat \ {0}
    BY FileBufAssumption DEF BUFSIZ
  <2>2. QED
    BY <2>1, DivMod
<1> HIDE DEF q, w, p
<1>3. w = ALEN * (q - 2 * p) /\ q - 2 * p \in Int
  BY <1>1, <1>2, FileBufAssumption DEF BUFSIZ
<1>4. PICK e \in Int : w = ALEN * e
  BY <1>3
<1>5. e = 0 \/ e = 1
  BY <1>2, <1>4, FileBufAssumption DEF BUFSIZ
<1>6. w = 0 \/ w = ALEN
  BY <1>4, <1>5, FileBufAssumption
<1>7. w % ALEN = 0
  BY <1>4, <1>5, FileBufAssumption, ModIs
<1>8. ASSUME NEW j \in 0..(ALEN - 1)
      PROVE  (x + j) % BUFSIZ = w + j
  BY <1>2, <1>6, FileBufAssumption, ModIs DEF BUFSIZ
<1>9. (x + ALEN) % ALEN = 0
  <2>1. x + ALEN = ALEN * (q + 1) + 0 /\ q + 1 \in Int /\ x + ALEN \in Int
    BY <1>1, FileBufAssumption
  <2>2. 0 \in 0..(ALEN - 1)
    BY FileBufAssumption
  <2> DEFINE y == x + ALEN
  <2>3. y = ALEN * (q + 1) + 0
    BY <2>1
  <2>4. y \in Int /\ q + 1 \in Int
    BY <2>1
  <2> HIDE DEF y
  <2>5. y % ALEN = 0
    BY <2>2, <2>3, <2>4, FileBufAssumption, ModIs
  <2>6. QED
    BY <2>5 DEF y
<1>10. QED
  BY <1>2, <1>6, <1>7, <1>8, <1>9, FileBufAssumption DEF AreaStart, Wrap, BUFSIZ, w

\* Reading on never makes it possible to go back further.
LEMMA LowBounds ==
  ASSUME NEW x \in Int
  PROVE  /\ Low(x) \in Int
         /\ x - BUFSIZ + 2 <= Low(x) /\ Low(x) <= x - ALEN + 1
         /\ \A y \in Int : x <= y => Low(x) <= Low(y)
         /\ \A y \in Int : x <= y /\ x % ALEN = 0 => x - ALEN + 1 <= Low(y)
<1> DEFINE q == x \div ALEN
           r == x % ALEN
<1>1. x = ALEN * q + r /\ q \in Int /\ r \in 0..(ALEN - 1)
  BY FileBufAssumption, DivMod
<1>2. ASSUME NEW y \in Int, x <= y
      PROVE  x - r <= y - (y % ALEN)
  <2> DEFINE p == y \div ALEN
             s == y % ALEN
  <2>1. y = ALEN * p + s /\ p \in Int /\ s \in 0..(ALEN - 1)
    BY FileBufAssumption, DivMod
  <2> HIDE DEF q, r, p, s
  <2>2. ALEN * (q - p) < ALEN /\ q - p \in Int
    BY <1>1, <1>2, <2>1, FileBufAssumption
  <2>3. q - p <= 0
    BY <2>2, FileBufAssumption
  <2>4. ALEN * q <= ALEN * p
    BY <1>1, <2>1, <2>3, FileBufAssumption
  <2>5. QED
    BY <1>1, <2>1, <2>4, FileBufAssumption DEF s
<1>3. \A y \in Int : y % ALEN \in Int
  BY FileBufAssumption
<1>4. QED
  BY <1>1, <1>2, <1>3, FileBufAssumption DEF Low, BUFSIZ

LEMMA LowGrows ==
  ASSUME NEW x \in Int, NEW y \in Int, x <= y
  PROVE  Low(x) <= Low(y) /\ Low(x) \in Int /\ Low(y) \in Int
BY LowBounds

-----------------------------------------------------------------------------
(***************************************************************************)
(* Getting a character or an end.                                          *)
(***************************************************************************)

\* What of a text is left when it is cut.
LEMMA FrontOfText ==
  ASSUME NEW S, NEW q \in Seq(S), NEW k \in 1..Len(q)
  PROVE  /\ SubSeq(q, 1, k) \in Seq(S) /\ Len(SubSeq(q, 1, k)) = k
         /\ \A i \in 1..k : SubSeq(q, 1, k)[i] = q[i]
<1>1. \A i \in 1..k : q[i] \in S
  OBVIOUS
<1>2. QED
  BY <1>1, SubSeqProperties

LEMMA TextTypes ==
  ASSUME TypeOK
  PROVE  /\ Length \in Nat /\ DOMAIN text.chars = 1..Length
         /\ text.bad \in BOOLEAN /\ text.chars \in Seq(Chars)
         /\ DOMAIN text = {"chars", "bad"}
BY DEF TypeOK, Length

\* What was gotten is what is there, once the ring is as it should be.
LEMMA GotIsRight ==
  ASSUME TypeOK, TypeOK', Get, NEW stop \in Nat, NEW lo \in Int, Window(stop, lo)',
         lo <= n \/ (n = Length /\ stop = Length + 1)
  PROVE  Stream!Get
<1>1. /\ n \in Nat /\ n' = n + 1 /\ text' = text /\ Length' = Length /\ Length \in Nat
      /\ DOMAIN text.chars = 1..Length
  BY TextTypes DEF Get, TypeOK, Length
<1>2. Wrap(b'.pos - 1) = Wrap(n)
  <2>1. Wrap(b'.pos) = Wrap(n + 1) /\ b'.pos \in Int
    BY <1>1, FileBufAssumption DEF Window, InWindow, BUFSIZ
  <2>2. QED
    BY <2>1, <1>1, WrapBackOne
<1>3. Gotten(b') = b'.buf[Wrap(n)] /\ (AfterEof(b') <=> b'.end_pos = Wrap(n))
  BY <1>2 DEF Gotten, AfterEof
<1>4. n + 1 <= stop /\ stop < lo + BUFSIZ /\ lo <= n + 1
  BY <1>1 DEF Window, InWindow
<1>5. CASE n < Length
  <2>1. b'.buf[Wrap(n)] = text.chars[n + 1]
    BY <1>1, <1>4, <1>5 DEF Window, HasText
  <2>2. b'.end_pos # Wrap(n)
    <3>1. CASE b'.end_pos = -1
      BY <3>1, <1>1, WrapRange
    <3>2. CASE b'.end_pos # -1
      <4>1. b'.end_pos = Wrap(stop - 1) /\ stop > Length
        BY <3>2, <1>1 DEF Window, WhileOpen, OnceEnded
      <4>2. n < stop - 1 /\ stop - 1 < n + BUFSIZ
        BY <4>1, <1>1, <1>4, <1>5, FileBufAssumption DEF BUFSIZ
      <4>3. Wrap(n) # Wrap(stop - 1)
        BY <4>2, <1>1, WrapDistinct
      <4>4. QED
        BY <4>1, <4>3
    <3>3. QED
      BY <3>1, <3>2
  <2>3. got' = text.chars[n + 1]
    BY <2>1, <2>2, <1>3 DEF Get, GotEnd
  <2>4. n + 1 \in DOMAIN text.chars
    BY <1>1, <1>5
  <2>5. QED
    BY <1>1, <2>3, <2>4 DEF Stream!Get, Stream!At
<1>6. CASE n >= Length
  <2>1. OnceEnded(stop, lo)' /\ stop > Length
    BY <1>1, <1>4, <1>6 DEF Window, WhileOpen
  <2>2. stop - 1 = n
    BY <1>1, <1>4, <1>6, <2>1 DEF OnceEnded
  <2>3. b'.end_pos = Wrap(n) /\ b'.buf[Wrap(n)] = Mark /\ ("error" \in b'.status <=> text.bad)
    BY <1>1, <2>1, <2>2 DEF OnceEnded
  <2>4. got' = IF text.bad THEN Failed ELSE End
    BY <2>3, <1>3 DEF Get, GotEnd
  <2>5. n + 1 \notin DOMAIN text.chars
    BY <1>1, <1>6
  <2>6. QED
    BY <1>1, <2>4, <2>5 DEF Stream!Get, Stream!At
<1>7. QED
  BY <1>1, <1>5, <1>6

\* The fields that Getc() leaves when it need not fill the ring.
LEMMA GetcWithin ==
  ASSUME TypeOK, b.pos \in Int, Wrap(b.pos) # b.call_pos
  PROVE  /\ Getc(b).pos = Wrap(b.pos) + 1 /\ Getc(b).call_pos = b.call_pos
         /\ Getc(b).end_pos = b.end_pos /\ Getc(b).status = b.status /\ Getc(b).ref = b.ref
         /\ Getc(b).file = b.file /\ Getc(b).buf = b.buf
         /\ DOMAIN Getc(b) = DOMAIN b
BY DEF TypeOK, Getc, Update

\* Reading is still within what is in the ring.
LEMMA GetWithin ==
  ASSUME TypeOK, NEW stop \in Nat, NEW lo \in Int, Window(stop, lo), Get, n < stop
  PROVE  TypeOK' /\ Window(stop, lo)' /\ lo <= n
<1>1. /\ n \in Nat /\ far \in Nat /\ Length \in Nat /\ b.pos \in Int /\ n' = n + 1
      /\ text' = text /\ b' = Getc(b) /\ far' = IF n < far THEN far ELSE n + 1
      /\ Length' = Length /\ BUFSIZ \in Nat
  BY TextTypes, FileBufAssumption DEF TypeOK, Get, Window, InWindow, BUFSIZ, Length
<1>2. Wrap(b.pos) # b.call_pos
  <2>1. n < stop /\ stop < n + BUFSIZ
    BY <1>1 DEF Window, InWindow
  <2>2. Wrap(n) # Wrap(stop)
    BY <2>1, <1>1, WrapDistinct
  <2>3. QED
    BY <2>2 DEF Window, InWindow
<1>3. /\ b'.pos = Wrap(b.pos) + 1 /\ b'.call_pos = b.call_pos /\ b'.end_pos = b.end_pos
      /\ b'.status = b.status /\ b'.ref = b.ref /\ b'.file = b.file /\ b'.buf = b.buf
      /\ DOMAIN b' = DOMAIN b
  BY <1>1, <1>2, GetcWithin
<1>4. TypeOK'
  BY <1>1, <1>3 DEF TypeOK
<1>5. InWindow(stop, lo)'
  <2>1. b'.pos \in 0..BUFSIZ
    BY <1>1, <1>3, WrapRange
  <2>2. Wrap(b'.pos) = Wrap(n')
    <3>1. Wrap(Wrap(b.pos)) = Wrap(n) /\ Wrap(b.pos) \in Int
      BY <1>1, WrapIdempotent, WrapRange DEF Window, InWindow
    <3>2. QED
      BY <3>1, <1>1, <1>3, WrapAdd
  <2>3. n' <= far' /\ lo <= n' /\ n' <= stop /\ stop < lo + BUFSIZ
    BY <1>1 DEF Window, InWindow
  <2>4. far' <= Length + 1 => lo <= Low(far')
    <3>1. far <= far' /\ far' \in Int
      BY <1>1
    <3>2. Low(far) <= Low(far') /\ Low(far) \in Int /\ Low(far') \in Int
      BY <3>1, <1>1, LowGrows
    <3>3. QED
      BY <3>1, <3>2, <1>1 DEF Window, InWindow
  <2>5. far' > Length + 1 => lo <= far' - 1
    BY <1>1 DEF Window, InWindow
  <2>6. QED
    BY <1>1, <1>3, <2>1, <2>2, <2>3, <2>4, <2>5 DEF Window, InWindow
<1>6. HasText(stop, lo)'
  BY <1>1, <1>3 DEF Window, HasText
<1>7. OnceEnded(stop, lo) => OnceEnded(stop, lo)'
  BY <1>1, <1>3 DEF OnceEnded
<1>8. WhileOpen(stop, lo) => WhileOpen(stop, lo)'
  BY <1>1, <1>3, FileBufAssumption DEF WhileOpen
<1>9. QED
  BY <1>1, <1>3, <1>4, <1>5, <1>6, <1>7, <1>8 DEF Window, InWindow

\* What ending the file leaves.
LEMMA FileEndFields ==
  ASSUME NEW c, DOMAIN c = Fields, NEW k, NEW e \in BOOLEAN,
         NEW r, r = FileEnd(c, k, e), NEW end, end = Wrap(c.pos + k)
  PROVE  /\ r.pos = c.pos /\ r.ref = c.ref /\ r.file = c.file /\ DOMAIN r = Fields
         /\ r.end_pos = end /\ r.call_pos = Wrap(end + 1)
         /\ e => r.status = c.status \cup {"end", "error"}
         /\ ~e => r.status = c.status \cup {"end"}
         /\ r.buf = [c.buf EXCEPT ![end] = Mark]
<1> DEFINE z == FileClose(c)
           s == [z EXCEPT !.status = IF e THEN @ \cup {"error"} ELSE @,
                          !.end_pos = end, !.buf[end] = Mark, !.call_pos = Wrap(end + 1)]
<1>1. /\ z.pos = c.pos /\ z.ref = c.ref /\ z.file = c.file /\ DOMAIN z = Fields
      /\ z.status = c.status \cup {"end"} /\ z.buf = c.buf
  BY DEF FileClose, Fields
<1>2. r = s
  BY DEF FileEnd
<1> HIDE DEF z
<1>3. /\ s.pos = z.pos /\ s.ref = z.ref /\ s.file = z.file /\ DOMAIN s = DOMAIN z
      /\ s.end_pos = end /\ s.call_pos = Wrap(end + 1)
      /\ s.buf = [z.buf EXCEPT ![end] = Mark]
      /\ s.status = IF e THEN z.status \cup {"error"} ELSE z.status
  BY <1>1 DEF Fields
<1> HIDE DEF s
<1>4. QED
  BY <1>1, <1>2, <1>3

\* What taking len characters into the ring leaves.
Taken(c, len) ==
    LET start == AreaStart(c.pos)
    IN  [c EXCEPT !.pos = start, !.ref = @ + len, !.call_pos = Wrap(start + len),
                  !.buf = [j \in DOMAIN @ |-> IF j \in start..(start + len - 1)
                                              THEN c.file.chars[c.ref + (j - start) + 1]
                                              ELSE @[j]]]

LEMMA TakenFields ==
  ASSUME NEW c, DOMAIN c = Fields, NEW len
  PROVE  LET r == Taken(c, len)
             start == AreaStart(c.pos)
         IN  /\ r.pos = start /\ r.ref = c.ref + len /\ r.file = c.file /\ DOMAIN r = Fields
             /\ r.end_pos = c.end_pos /\ r.call_pos = Wrap(start + len) /\ r.status = c.status
             /\ DOMAIN r.buf = DOMAIN c.buf
             /\ \A j \in DOMAIN c.buf :
                  r.buf[j] = IF j \in start..(start + len - 1)
                             THEN c.file.chars[c.ref + (j - start) + 1] ELSE c.buf[j]
<1> DEFINE start == AreaStart(c.pos)
           x == [j \in DOMAIN c.buf |-> IF j \in start..(start + len - 1)
                                        THEN c.file.chars[c.ref + (j - start) + 1]
                                        ELSE c.buf[j]]
           r == [c EXCEPT !.pos = start, !.ref = @ + len, !.call_pos = Wrap(start + len),
                          !.buf = x]
<1>1. Taken(c, len) = r
  BY DEF Taken
<1>2. /\ DOMAIN x = DOMAIN c.buf
      /\ \A j \in DOMAIN c.buf :
           x[j] = IF j \in start..(start + len - 1)
                  THEN c.file.chars[c.ref + (j - start) + 1] ELSE c.buf[j]
  OBVIOUS
<1> HIDE DEF x, start
<1>3. /\ r.pos = start /\ r.ref = c.ref + len /\ r.file = c.file /\ DOMAIN r = Fields
      /\ r.end_pos = c.end_pos /\ r.call_pos = Wrap(start + len) /\ r.status = c.status
      /\ r.buf = x
  BY DEF Fields
<1> HIDE DEF r
<1>4. QED
  BY <1>1, <1>2, <1>3 DEF start

LEMMA FillIsTaken ==
  ASSUME NEW c, DOMAIN c = Fields
  PROVE  /\ ReadLen(c) = ALEN => Fill(c) = Taken(c, ALEN)
         /\ ReadLen(c) < ALEN => Fill(c) = FileEnd(Taken(c, ReadLen(c)), ReadLen(c), c.file.bad)
<1>1. Fill(c) = IF ReadLen(c) < ALEN
                THEN FileEnd(Taken(c, ReadLen(c)), ReadLen(c), c.file.bad)
                ELSE Taken(c, ReadLen(c))
  BY Zenon DEF Fill, Taken
<1>2. QED
  BY <1>1, FileBufAssumption

\* What Getc() does when reading has come to the call position.
LEMMA GetcCalls ==
  ASSUME TypeOK, b.pos \in Int, Wrap(b.pos) = b.call_pos
  PROVE  \E c : /\ DOMAIN c = Fields /\ c.pos = Wrap(b.pos) /\ c.file = b.file /\ c.ref = b.ref
                /\ c.end_pos = b.end_pos /\ c.status = b.status /\ c.buf = b.buf
                /\ Getc(b) = [Call(c) EXCEPT !.pos = @ + 1]
<1> DEFINE c == [b EXCEPT !.pos = Wrap(@)]
<1>1. /\ DOMAIN c = Fields /\ c.pos = Wrap(b.pos) /\ c.file = b.file /\ c.ref = b.ref
      /\ c.end_pos = b.end_pos /\ c.status = b.status /\ c.buf = b.buf
  BY DEF TypeOK, Fields
<1>2. Getc(b) = [Call(c) EXCEPT !.pos = @ + 1]
  BY DEF Getc, Update
<1> HIDE DEF c
<1>3. QED
  BY <1>1, <1>2

LEMMA OneOnFields ==
  ASSUME NEW r, DOMAIN r = Fields
  PROVE  LET s == [r EXCEPT !.pos = @ + 1]
         IN  /\ s.pos = r.pos + 1 /\ s.ref = r.ref /\ s.file = r.file /\ DOMAIN s = Fields
             /\ s.end_pos = r.end_pos /\ s.call_pos = r.call_pos /\ s.status = r.status
             /\ s.buf = r.buf
BY DEF Fields

\* Where an open file has been read to the end of an area: what is next.
LEMMA AtAreaEnd ==
  ASSUME TypeOK, NEW stop \in Nat, NEW lo \in Int, Window(stop, lo), Get, n = stop,
         "end" \notin b.status
  PROVE  /\ n' = n + 1 /\ far = n /\ far' = n + 1 /\ text' = text /\ n \in Nat
         /\ Length' = Length /\ n <= Length /\ lo = n - BUFSIZ + 1 /\ n % ALEN = 0
         /\ Low(far') \in Int /\ n - ALEN + 1 <= Low(far') /\ Wrap(n) \in Int
         /\ HasText(n, lo) /\ text.bad \in BOOLEAN
         /\ \E c : /\ DOMAIN c = Fields /\ c.pos = Wrap(n) /\ c.file = text /\ c.ref = n
                   /\ c.end_pos = -1 /\ c.status = {} /\ c.buf = b.buf
                   /\ b' = [Fill(c) EXCEPT !.pos = @ + 1]
<1>1. /\ n \in Nat /\ far \in Nat /\ b.pos \in Int /\ n' = n + 1
      /\ text' = text /\ b' = Getc(b) /\ far' = IF n < far THEN far ELSE n + 1
      /\ Length' = Length
  BY FileBufAssumption DEF TypeOK, Get, Window, InWindow, BUFSIZ, Length
<1>2. /\ b.file = text /\ b.ref = n /\ far = n /\ b.end_pos = -1 /\ b.status = {}
      /\ lo = n - BUFSIZ + 1 /\ n % ALEN = 0 /\ n <= Length
      /\ Wrap(b.pos) = b.call_pos /\ Wrap(b.pos) = Wrap(n)
  BY <1>1 DEF Window, WhileOpen, InWindow
<1>3. PICK c : /\ DOMAIN c = Fields /\ c.pos = Wrap(n) /\ c.file = text /\ c.ref = n
               /\ c.end_pos = -1 /\ c.status = {} /\ c.buf = b.buf
               /\ b' = [Call(c) EXCEPT !.pos = @ + 1]
  BY <1>1, <1>2, GetcCalls
<1>4. Call(c) = Fill(c)
  BY <1>3 DEF Call
<1>5. Low(n + 1) \in Int /\ n - ALEN + 1 <= Low(n + 1)
  <2>1. n + 1 \in Int /\ n <= n + 1
    BY <1>1
  <2>2. QED
    BY <2>1, <1>1, <1>2, LowBounds
<1>6. HasText(n, lo) /\ text.bad \in BOOLEAN
  BY TextTypes DEF Window
<1>7. Wrap(n) \in Int
  BY <1>1, WrapRange
<1>8. far' = n + 1 /\ Low(far') \in Int /\ n - ALEN + 1 <= Low(far')
  <2>1. far' = n + 1
    BY <1>1, <1>2
  <2>2. QED
    BY <2>1, <1>5
<1>9. \E d : /\ DOMAIN d = Fields /\ d.pos = Wrap(n) /\ d.file = text /\ d.ref = n
            /\ d.end_pos = -1 /\ d.status = {} /\ d.buf = b.buf
            /\ b' = [Fill(d) EXCEPT !.pos = @ + 1]
  <2>1. b' = [Fill(c) EXCEPT !.pos = @ + 1]
    BY <1>3, <1>4
  <2>2. QED
    BY <1>3, <2>1
<1>10. QED
  BY <1>1, <1>2, <1>6, <1>7, <1>8, <1>9

\* Places of what was taken before are not those that an area is taken into.
LEMMA OldKept ==
  ASSUME NEW k \in Nat, k % ALEN = 0, NEW i \in Int, k - ALEN < i, i < k
  PROVE  Wrap(i) \notin Wrap(k)..(Wrap(k) + ALEN - 1)
<1>1. SUFFICES ASSUME NEW j \in 0..(ALEN - 1), Wrap(i) = Wrap(k) + j
               PROVE  FALSE
  <2>1. Wrap(i) \in Int /\ Wrap(k) \in Int
    BY WrapRange
  <2>2. Wrap(i) \in Wrap(k)..(Wrap(k) + ALEN - 1)
        => \E j \in 0..(ALEN - 1) : Wrap(i) = Wrap(k) + j
    <3>1. SUFFICES ASSUME Wrap(i) \in Wrap(k)..(Wrap(k) + ALEN - 1)
                   PROVE  \E j \in 0..(ALEN - 1) : Wrap(i) = Wrap(k) + j
      OBVIOUS
    <3>2. Wrap(i) - Wrap(k) \in 0..(ALEN - 1) /\ Wrap(i) = Wrap(k) + (Wrap(i) - Wrap(k))
      BY <2>1, <3>1, FileBufAssumption
    <3>3. QED
      BY <3>2
  <2>3. QED
    BY <2>2
<1>2. Wrap(k + j) = Wrap(k) + j
  BY AreaWrap
<1>3. i < k + j /\ k + j < i + BUFSIZ /\ k + j \in Int
  BY FileBufAssumption DEF BUFSIZ
<1>4. QED
  BY <1>1, <1>2, <1>3, WrapDistinct

\* Reading goes on in the next area, which the file has all of.
LEMMA GetFull ==
  ASSUME TypeOK, NEW stop \in Nat, NEW lo \in Int, Window(stop, lo), Get, n = stop,
         "end" \notin b.status, stop + ALEN <= Length
  PROVE  TypeOK' /\ Window(stop + ALEN, stop - ALEN + 1)'
<1> DEFINE w == Wrap(stop)
           l == stop - ALEN + 1
<1>1. PICK c : /\ DOMAIN c = Fields /\ c.pos = w /\ c.file = text /\ c.ref = stop
               /\ c.end_pos = -1 /\ c.status = {} /\ c.buf = b.buf
               /\ b' = [Fill(c) EXCEPT !.pos = @ + 1]
  BY AtAreaEnd
<1>2. /\ n' = stop + 1 /\ far' = stop + 1 /\ text' = text /\ Length' = Length
      /\ lo = stop - BUFSIZ + 1 /\ stop % ALEN = 0 /\ w \in Int
      /\ Low(far') \in Int /\ l <= Low(far') /\ HasText(stop, lo)
  BY AtAreaEnd
<1>3. /\ AreaStart(w) = w /\ w + ALEN <= BUFSIZ /\ (stop + ALEN) % ALEN = 0
      /\ \A j \in 0..(ALEN - 1) : Wrap(stop + j) = w + j
  BY <1>2, AreaWrap
<1>4. w \in 0..(BUFSIZ - 1) /\ Length \in Nat
  BY WrapRange, TextTypes
<1> HIDE DEF w, l
<1>5. Fill(c) = Taken(c, ALEN)
  <2>1. ReadLen(c) = ALEN
    BY <1>1, <1>4, FileBufAssumption DEF ReadLen, Length
  <2>2. QED
    BY <2>1, <1>1, FillIsTaken
<1>6. /\ Fill(c).pos = w /\ Fill(c).ref = stop + ALEN /\ Fill(c).file = text
      /\ DOMAIN Fill(c) = Fields /\ Fill(c).end_pos = -1 /\ Fill(c).status = {}
      /\ Fill(c).call_pos = Wrap(w + ALEN) /\ DOMAIN Fill(c).buf = DOMAIN b.buf
      /\ \A j \in DOMAIN b.buf :
           Fill(c).buf[j] = IF j \in w..(w + ALEN - 1)
                            THEN text.chars[stop + (j - w) + 1] ELSE b.buf[j]
  BY <1>1, <1>3, <1>5, TakenFields
<1>7. /\ b'.pos = w + 1 /\ b'.ref = stop + ALEN /\ b'.file = text
      /\ DOMAIN b' = Fields /\ b'.end_pos = -1 /\ b'.status = {}
      /\ b'.call_pos = Wrap(w + ALEN) /\ b'.buf = Fill(c).buf
  BY <1>1, <1>6, OneOnFields
<1>8. Wrap(w + 1) = Wrap(stop + 1) /\ Wrap(w + ALEN) = Wrap(stop + ALEN)
  <2>1. Wrap(w) = Wrap(stop)
    BY WrapIdempotent DEF w
  <2>2. QED
    BY <2>1, <1>2, FileBufAssumption, WrapAdd
<1>9. TypeOK'
  BY <1>2, <1>6, <1>7, FileBufAssumption DEF TypeOK, Fields
<1>10. l \in Int /\ l = stop - ALEN + 1 /\ BUFSIZ = 2 * ALEN
  BY FileBufAssumption DEF l, BUFSIZ
<1>11. InWindow(stop + ALEN, l)'
  <2>1. b'.pos \in 0..BUFSIZ /\ Wrap(b'.pos) = Wrap(n') /\ b'.call_pos = Wrap(stop + ALEN)
    BY <1>2, <1>4, <1>7, <1>8, <1>10, FileBufAssumption
  <2>2. /\ l <= n' /\ n' <= stop + ALEN /\ stop + ALEN < l + BUFSIZ /\ n' <= far'
        /\ (far' <= Length' + 1 => l <= Low(far')) /\ (far' > Length' + 1 => l <= far' - 1)
    BY <1>2, <1>4, <1>10, FileBufAssumption
  <2>3. QED
    BY <2>1, <2>2 DEF InWindow
<1>12. HasText(stop + ALEN, l)'
  <2>1. SUFFICES ASSUME NEW i \in Nat, l <= i, i < stop + ALEN, i < Length
                 PROVE  b'.buf[Wrap(i)] = text.chars[i + 1]
    BY <1>2 DEF HasText
  <2>2. Wrap(i) \in DOMAIN b.buf
    <3>1. DOMAIN b.buf = 0..(BUFSIZ - 1)
      BY DEF TypeOK
    <3>2. QED
      BY SMTT(30), <3>1, WrapRange
  <2>3. CASE i < stop
    <3>1. Wrap(i) \notin w..(w + ALEN - 1)
      BY <2>1, <2>3, <1>2, <1>10, OldKept, FileBufAssumption DEF w
    <3>2. b.buf[Wrap(i)] = text.chars[i + 1]
      BY <2>1, <2>3, <1>2, <1>10, FileBufAssumption DEF HasText
    <3>3. QED
      BY <2>2, <3>1, <3>2, <1>6, <1>7
  <2>4. CASE i >= stop
    <3>1. PICK j \in 0..(ALEN - 1) : i = stop + j
      <4>1. i - stop \in 0..(ALEN - 1) /\ i = stop + (i - stop)
        BY <2>1, <2>4, FileBufAssumption
      <4>2. QED
        BY <4>1
    <3>2. Wrap(i) = w + j
      BY <3>1, <1>3
    <3>3. w + j \in w..(w + ALEN - 1) /\ stop + ((w + j) - w) + 1 = i + 1
      BY <3>1, <1>4, FileBufAssumption
    <3>4. QED
      BY <2>2, <3>2, <3>3, <1>6, <1>7
  <2>5. QED
    BY <2>3, <2>4
<1>13. WhileOpen(stop + ALEN, l)'
  BY <1>2, <1>3, <1>7, <1>10, FileBufAssumption DEF WhileOpen
<1>14. QED
  BY <1>7, <1>9, <1>11, <1>12, <1>13 DEF Window, l

\* Reading goes on to where the file ends, or what is left of it does.
LEMMA GetShort ==
  ASSUME TypeOK, NEW stop \in Nat, NEW lo \in Int, Window(stop, lo), Get, n = stop,
         "end" \notin b.status, stop + ALEN > Length, NEW last \in Nat, last = Length
  PROVE  TypeOK' /\ Window(last + 1, stop - ALEN + 1)' /\ stop <= last
<1> DEFINE w == Wrap(stop)
           l == stop - ALEN + 1
           len == last - stop
           e == Wrap(last)
<1>1. PICK c : /\ DOMAIN c = Fields /\ c.pos = w /\ c.file = text /\ c.ref = stop
               /\ c.end_pos = -1 /\ c.status = {} /\ c.buf = b.buf
               /\ b' = [Fill(c) EXCEPT !.pos = @ + 1]
  BY AtAreaEnd
<1>2. /\ n' = stop + 1 /\ far' = stop + 1 /\ text' = text /\ Length' = Length /\ stop <= last
      /\ lo = stop - BUFSIZ + 1 /\ stop % ALEN = 0 /\ w \in Int
      /\ Low(far') \in Int /\ l <= Low(far') /\ HasText(stop, lo) /\ text.bad \in BOOLEAN
  BY AtAreaEnd
<1>3. /\ AreaStart(w) = w /\ \A j \in 0..(ALEN - 1) : Wrap(stop + j) = w + j
  BY <1>2, AreaWrap
<1>4. w \in 0..(BUFSIZ - 1) /\ e \in 0..(BUFSIZ - 1) /\ len \in 0..(ALEN - 1)
  BY <1>2, WrapRange, FileBufAssumption
<1>5. e = w + len /\ e = Wrap(w + len) /\ Wrap(e + 1) = Wrap(last + 1)
  <2>1. Wrap(stop + len) = w + len /\ stop + len = last
    BY <1>2, <1>3, <1>4
  <2>2. Wrap(e) = e
    BY WrapIdempotent
  <2>3. Wrap(e) = Wrap(last)
    BY WrapIdempotent
  <2>4. Wrap(e + 1) = Wrap(last + 1)
    BY <2>3, <1>4, WrapAdd
  <2>5. QED
    BY <2>1, <2>2, <2>4
<1>6. Wrap(w + 1) = Wrap(stop + 1)
  <2>1. Wrap(w) = Wrap(stop)
    BY WrapIdempotent
  <2>2. QED
    BY <2>1, <1>2, WrapAdd
<1>7. l \in Int /\ l = stop - ALEN + 1 /\ BUFSIZ = 2 * ALEN /\ len = last - stop
  BY FileBufAssumption DEF BUFSIZ
<1>8. /\ \A i \in Nat : l <= i /\ i < stop => Wrap(i) \notin w..(w + ALEN - 1)
      /\ \A i \in Nat : l <= i /\ i < last => Wrap(i) # e
  <2>1. \A i \in Nat : l <= i /\ i < stop => stop - ALEN < i
    BY <1>7, FileBufAssumption
  <2>2. \A i \in Nat : l <= i /\ i < last => last < i + BUFSIZ
    BY <1>2, <1>4, <1>7, FileBufAssumption
  <2>3. QED
    BY <2>1, <2>2, <1>2, OldKept, WrapDistinct
<1> HIDE DEF w, l, len, e
<1>9. ReadLen(c) = len /\ Fill(c) = FileEnd(Taken(c, len), len, text.bad)
  <2>1. ReadLen(c) = len
    BY <1>1, <1>4, <1>7, FileBufAssumption DEF ReadLen, Length
  <2>2. QED
    BY <2>1, <1>1, <1>4, FillIsTaken, FileBufAssumption
<1>10. PICK t : /\ t = Taken(c, len) /\ t.pos = w /\ DOMAIN t = Fields /\ t.status = {}
                /\ DOMAIN t.buf = DOMAIN b.buf
                /\ \A j \in DOMAIN b.buf :
                     t.buf[j] = IF j \in w..(w + len - 1)
                                THEN text.chars[stop + (j - w) + 1] ELSE b.buf[j]
  BY <1>1, <1>3, TakenFields
<1>11. /\ Fill(c).pos = w /\ DOMAIN Fill(c) = Fields /\ Fill(c).end_pos = e
       /\ Fill(c).call_pos = Wrap(last + 1)
       /\ Fill(c).status = IF text.bad THEN {"end", "error"} ELSE {"end"}
       /\ Fill(c).buf = [t.buf EXCEPT ![e] = Mark]
  <2>1. /\ Fill(c).pos = t.pos /\ DOMAIN Fill(c) = Fields
        /\ Fill(c).end_pos = Wrap(t.pos + len) /\ Fill(c).call_pos = Wrap(Wrap(t.pos + len) + 1)
        /\ Fill(c).buf = [t.buf EXCEPT ![Wrap(t.pos + len)] = Mark]
        /\ text.bad => Fill(c).status = t.status \cup {"end", "error"}
        /\ ~text.bad => Fill(c).status = t.status \cup {"end"}
    BY <1>2, <1>9, <1>10, FileEndFields
  <2>2. QED
    BY <2>1, <1>2, <1>5, <1>10
<1>12. /\ b'.pos = w + 1 /\ DOMAIN b' = Fields /\ b'.end_pos = e
       /\ b'.call_pos = Wrap(last + 1)
       /\ b'.status = IF text.bad THEN {"end", "error"} ELSE {"end"}
       /\ b'.buf = [t.buf EXCEPT ![e] = Mark]
  BY <1>1, <1>11, OneOnFields
<1>13. TypeOK'
  BY <1>2, <1>10, <1>12 DEF TypeOK, Fields
<1>14. InWindow(last + 1, l)'
  <2>1. b'.pos \in 0..BUFSIZ /\ Wrap(b'.pos) = Wrap(n') /\ b'.call_pos = Wrap(last + 1)
    BY <1>2, <1>4, <1>6, <1>7, <1>12, FileBufAssumption
  <2>2. /\ l <= n' /\ n' <= last + 1 /\ last + 1 < l + BUFSIZ /\ n' <= far'
        /\ (far' <= Length' + 1 => l <= Low(far')) /\ (far' > Length' + 1 => l <= far' - 1)
    BY <1>2, <1>4, <1>7, FileBufAssumption
  <2>3. QED
    BY <2>1, <2>2 DEF InWindow
<1>15. HasText(last + 1, l)'
  <2>1. SUFFICES ASSUME NEW i \in Nat, l <= i, i < last
                 PROVE  b'.buf[Wrap(i)] = text.chars[i + 1]
    BY <1>2 DEF HasText
  <2>2. Wrap(i) \in DOMAIN b.buf /\ Wrap(i) # e
    BY <2>1, <1>8, WrapRange DEF TypeOK
  <2>3. CASE i < stop
    <3>1. Wrap(i) \notin w..(w + len - 1)
      BY <2>1, <2>3, <1>4, <1>8, FileBufAssumption
    <3>2. b.buf[Wrap(i)] = text.chars[i + 1]
      BY <2>1, <2>3, <1>2, <1>7, FileBufAssumption DEF HasText
    <3>3. QED
      BY <2>2, <3>1, <3>2, <1>10, <1>12
  <2>4. CASE i >= stop
    <3>1. PICK j \in 0..(len - 1) : i = stop + j
      <4>1. i - stop \in 0..(len - 1) /\ i = stop + (i - stop)
        BY <2>1, <2>4, <1>4, <1>7, FileBufAssumption
      <4>2. QED
        BY <4>1
    <3>2. Wrap(i) = w + j
      BY <3>1, <1>3, <1>4, FileBufAssumption
    <3>3. w + j \in w..(w + len - 1) /\ stop + ((w + j) - w) + 1 = i + 1
      BY <3>1, <1>4, FileBufAssumption
    <3>4. QED
      BY <2>2, <3>2, <3>3, <1>10, <1>12
  <2>5. QED
    BY <2>3, <2>4
<1>16. OnceEnded(last + 1, l)'
  <2>1. e \in DOMAIN t.buf
    BY <1>4, <1>10 DEF TypeOK
  <2>2. b'.end_pos = Wrap((last + 1) - 1) /\ b'.buf[b'.end_pos] = Mark
    BY <2>1, <1>12 DEF e
  <2>3. "end" \in b'.status /\ ("error" \in b'.status <=> text.bad)
    BY <1>2, <1>12
  <2>4. QED
    BY <2>2, <2>3, <1>2 DEF OnceEnded
<1>17. "end" \in b'.status
  BY <1>12
<1>18. QED
  BY <1>2, <1>13, <1>14, <1>15, <1>16, <1>17 DEF Window, l

\* Reading goes on after the end: another marker, where reading has come to.
LEMMA GetEnded ==
  ASSUME TypeOK, NEW stop \in Nat, NEW lo \in Int, Window(stop, lo), Get, n = stop,
         "end" \in b.status, NEW last \in Nat, last = Length,
         NEW l \in Int, l = IF stop > last THEN stop
                            ELSE IF far > last + 1 THEN last ELSE Low(last + 1)
  PROVE  TypeOK' /\ Window(stop + 1, l)' /\ last <= stop
<1> DEFINE e == Wrap(stop)
<1>1. /\ n' = stop + 1 /\ far \in Nat /\ b.pos \in Int /\ b' = Getc(b) /\ stop <= far
      /\ text' = text /\ far' = (IF stop < far THEN far ELSE stop + 1) /\ Length' = Length
      /\ last <= stop /\ (far <= last + 1 => lo <= Low(far)) /\ HasText(stop, lo)
      /\ Wrap(b.pos) = b.call_pos /\ Wrap(b.pos) = e /\ e \in 0..(BUFSIZ - 1)
      /\ ("error" \in b.status <=> text.bad /\ stop > last) /\ (stop = last => ~text.bad)
  <2>1. e \in 0..(BUFSIZ - 1)
    BY WrapRange
  <2>2. QED
    BY <2>1, FileBufAssumption
    DEF TypeOK, Get, Window, InWindow, OnceEnded, BUFSIZ, Length
<1>2. PICK c : /\ DOMAIN c = Fields /\ c.pos = e /\ c.status = b.status /\ c.buf = b.buf
               /\ b' = [Call(c) EXCEPT !.pos = @ + 1]
  BY <1>1, GetcCalls
<1>3. Call(c) = FileEnd(c, 0, FALSE)
  BY <1>2 DEF Call
<1>4. Wrap(e + 0) = e /\ Wrap(e + 1) = Wrap(stop + 1)
  <2>1. Wrap(e) = e
    BY WrapIdempotent
  <2>2. Wrap(e) = Wrap(stop)
    BY WrapIdempotent
  <2>3. Wrap(e + 1) = Wrap(stop + 1)
    BY <2>2, <1>1, WrapAdd
  <2>4. e + 0 = e
    BY <1>1
  <2>5. QED
    BY <2>1, <2>3, <2>4
<1> HIDE DEF e
<1>5. /\ Call(c).pos = e /\ DOMAIN Call(c) = Fields /\ Call(c).end_pos = e
      /\ Call(c).call_pos = Wrap(stop + 1) /\ Call(c).status = b.status \cup {"end"}
      /\ Call(c).buf = [b.buf EXCEPT ![e] = Mark]
  <2>1. PICK error \in BOOLEAN : ~error /\ Call(c) = FileEnd(c, 0, error)
    BY <1>3, Zenon
  <2>2. /\ Call(c).pos = c.pos /\ DOMAIN Call(c) = Fields
        /\ Call(c).end_pos = Wrap(c.pos + 0) /\ Call(c).call_pos = Wrap(Wrap(c.pos + 0) + 1)
        /\ Call(c).buf = [c.buf EXCEPT ![Wrap(c.pos + 0)] = Mark]
        /\ Call(c).status = c.status \cup {"end"}
    BY <2>1, <1>2, FileEndFields
  <2>3. QED
    BY <2>2, <1>2, <1>4
<1>6. /\ b'.pos = e + 1 /\ DOMAIN b' = Fields /\ b'.end_pos = e
      /\ b'.call_pos = Wrap(stop + 1) /\ b'.status = b.status
      /\ b'.buf = [b.buf EXCEPT ![e] = Mark]
  BY <1>2, <1>5, OneOnFields
<1>7. TypeOK'
  BY <1>1, <1>6 DEF TypeOK, Fields
<1>8. BUFSIZ = 2 * ALEN /\ ALEN \in Nat \ {0}
  BY FileBufAssumption DEF BUFSIZ
<1>9. /\ Low(last + 1) \in Int /\ last - BUFSIZ + 3 <= Low(last + 1) /\ Low(last + 1) <= last + 1
      /\ \A y \in Int : y <= last + 1 => Low(y) <= Low(last + 1) /\ Low(y) \in Int
  <2>1. PICK x \in Int : x = last + 1
    OBVIOUS
  <2>2. Low(x) \in Int /\ x - BUFSIZ + 2 <= Low(x) /\ Low(x) <= x - ALEN + 1
    BY LowBounds
  <2>3. \A y \in Int : y <= x => Low(y) <= Low(x) /\ Low(y) \in Int
    BY LowGrows
  <2>4. QED
    BY <2>1, <2>2, <2>3, <1>8
<1>10. InWindow(stop + 1, l)'
  <2>1. b'.pos \in 0..BUFSIZ /\ Wrap(b'.pos) = Wrap(n') /\ b'.call_pos = Wrap(stop + 1)
    BY <1>1, <1>4, <1>6, <1>8
  <2>2. l <= n' /\ n' <= stop + 1 /\ stop + 1 < l + BUFSIZ /\ n' <= far'
    BY <1>1, <1>8, <1>9
  <2>3. far' <= Length' + 1 => l <= Low(far')
    <3>1. SUFFICES ASSUME far' <= last + 1 PROVE l <= Low(far')
      BY <1>1
    <3>2. far' = last + 1 /\ stop = last /\ far <= last + 1
      BY <3>1, <1>1
    <3>3. l = Low(last + 1)
      BY <3>2, <1>1
    <3>4. QED
      BY <3>2, <3>3, <1>9
  <2>4. far' > Length' + 1 => l <= far' - 1
    BY <1>1, <1>8, <1>9
  <2>5. QED
    BY <2>1, <2>2, <2>3, <2>4 DEF InWindow
<1>11. HasText(stop + 1, l)'
  <2>1. SUFFICES ASSUME NEW i \in Nat, l <= i, i < last
                 PROVE  b'.buf[Wrap(i)] = text.chars[i + 1]
    BY <1>1 DEF HasText
  <2>2. stop = last /\ far <= last + 1 /\ l = Low(last + 1)
    BY <2>1, <1>1
  <2>3. lo <= i
    <3>1. lo <= Low(far) /\ far \in Int
      BY <2>2, <1>1
    <3>2. Low(far) <= Low(last + 1) /\ Low(far) \in Int
      BY <2>2, <3>1, <1>9
    <3>3. QED
      BY <2>1, <2>2, <3>1, <3>2, <1>9
  <2>4. b.buf[Wrap(i)] = text.chars[i + 1]
    BY <2>1, <2>2, <2>3, <1>1 DEF HasText
  <2>5. i < stop /\ stop < i + BUFSIZ
    BY <2>1, <2>2, <1>9, <1>8
  <2>6. Wrap(i) # e
    BY <2>5, WrapDistinct DEF e
  <2>7. QED
    BY <2>4, <2>6, <1>6
<1>12. OnceEnded(stop + 1, l)'
  <2>1. e \in DOMAIN b.buf
    BY <1>1 DEF TypeOK
  <2>2. b'.end_pos = Wrap((stop + 1) - 1) /\ b'.buf[b'.end_pos] = Mark
    BY <2>1, <1>6 DEF e
  <2>3. "end" \in b'.status /\ ("error" \in b'.status <=> text.bad)
    BY <1>1, <1>6
  <2>4. stop + 1 > last + 1 => (stop + 1) - 1 <= l
    OBVIOUS
  <2>5. QED
    BY <2>2, <2>3, <2>4, <1>1 DEF OnceEnded
<1>13. QED
  BY <1>1, <1>6, <1>7, <1>10, <1>11, <1>12 DEF Window

\* Whatever is gotten is the text, and the ring stays as it should be.
LEMMA GetKeeps ==
  ASSUME FileInv, Get
  PROVE  FileInv' /\ Stream!Get
<1>1. PICK stop \in Nat, lo \in Int : TypeOK /\ Window(stop, lo)
  BY DEF FileInv
<1>2. n <= stop /\ n \in Nat /\ Length \in Nat
  BY <1>1, TextTypes DEF Window, InWindow, TypeOK
<1>3. SUFFICES \E stop2 \in Nat, lo2 \in Int :
                 /\ TypeOK' /\ Window(stop2, lo2)'
                 /\ lo2 <= n \/ (n = Length /\ stop2 = Length + 1)
  BY <1>1, GotIsRight DEF FileInv
<1>4. CASE n < stop
  BY <1>1, <1>4, GetWithin
<1>5. CASE n = stop /\ "end" \notin b.status /\ stop + ALEN <= Length
  <2>1. stop + ALEN \in Nat /\ stop - ALEN + 1 \in Int /\ stop - ALEN + 1 <= stop
    BY FileBufAssumption
  <2>2. TypeOK' /\ Window(stop + ALEN, stop - ALEN + 1)'
    BY <1>1, <1>5, GetFull
  <2>3. QED
    BY <2>1, <2>2, <1>5
<1>6. CASE n = stop /\ "end" \notin b.status /\ stop + ALEN > Length
  <2>1. PICK last \in Nat : last = Length
    BY <1>2
  <2>2. last + 1 \in Nat /\ stop - ALEN + 1 \in Int /\ stop - ALEN + 1 <= stop
    BY FileBufAssumption
  <2>3. TypeOK' /\ Window(last + 1, stop - ALEN + 1)'
    BY <1>1, <1>6, <2>1, GetShort
  <2>4. QED
    BY <2>2, <2>3, <1>6
<1>7. CASE n = stop /\ "end" \in b.status
  <2>1. PICK last \in Nat : last = Length
    BY <1>2
  <2>2. last + 1 \in Int
    OBVIOUS
  <2>3. Low(last + 1) \in Int
    BY <2>2, LowBounds
  <2>4. PICK l \in Int : l = IF stop > last THEN stop
                             ELSE IF far > last + 1 THEN last ELSE Low(last + 1)
    BY <2>3
  <2>5. TypeOK' /\ Window(stop + 1, l)' /\ last <= stop
    BY <1>1, <1>7, <2>1, <2>4, GetEnded
  <2>6. stop + 1 \in Nat /\ (l <= n \/ (n = Length /\ stop + 1 = Length + 1))
    BY <1>7, <2>1, <2>4, <2>5
  <2>7. QED
    BY <2>5, <2>6
<1>8. QED
  BY <1>2, <1>4, <1>5, <1>6, <1>7, FileBufAssumption

-----------------------------------------------------------------------------
(***************************************************************************)
(* Ungetting, and closing.                                                 *)
(***************************************************************************)

\* What may be ungotten is still in the ring.
LEMMA UngetKeeps ==
  ASSUME FileInv, NEW k \in 1..n, Unget(k)
  PROVE  FileInv' /\ Stream!Unget
<1>1. PICK stop \in Nat, lo \in Int : TypeOK /\ Window(stop, lo)
  BY DEF FileInv
<1>2. /\ n \in Nat /\ far \in Nat /\ Length \in Nat /\ b.pos \in Int /\ n' = n - k /\ k \in Nat
      /\ text' = text /\ far' = far /\ got' = got /\ Length' = Length /\ BUFSIZ \in Nat
      /\ b' = [b EXCEPT !.pos = Wrap(@ - k)]
  BY SMTT(30), <1>1, TextTypes, FileBufAssumption
  DEF TypeOK, Unget, Ungetn, Window, InWindow, BUFSIZ, Length
<1>3. /\ b'.pos = Wrap(b.pos - k) /\ b'.call_pos = b.call_pos /\ b'.end_pos = b.end_pos
      /\ b'.status = b.status /\ b'.ref = b.ref /\ b'.file = b.file /\ b'.buf = b.buf
      /\ DOMAIN b' = DOMAIN b
  BY <1>1, <1>2 DEF TypeOK
<1>4. TypeOK' /\ n' \in 0..(n - 1)
  BY <1>1, <1>2, <1>3 DEF TypeOK
<1>5. b'.pos \in 0..(BUFSIZ - 1) /\ Wrap(b'.pos) = Wrap(n')
  <2>1. Wrap(b.pos) = Wrap(n)
    BY <1>1 DEF Window, InWindow
  <2>2. Wrap(b.pos - k) = Wrap(n - k)
    BY <2>1, <1>2, WrapBack
  <2>3. b.pos - k \in Int
    BY <1>2
  <2>4. Wrap(b.pos - k) \in 0..(BUFSIZ - 1) /\ Wrap(Wrap(b.pos - k)) = Wrap(b.pos - k)
    BY <2>3, WrapRange, WrapIdempotent
  <2>5. QED
    BY <2>2, <2>4, <1>2, <1>3
<1>6. lo <= n'
  <2>1. CASE far > Length + 1
    BY <2>1, <1>1, <1>2, <1>4 DEF Window, InWindow, Unget, MayUnget, Length
  <2>2. CASE far <= Length + 1
    <3>1. far - n' <= (ALEN - 1) + (far % ALEN)
      BY <1>2 DEF Unget, MayUnget
    <3>2. far % ALEN \in Int
      BY <1>2, FileBufAssumption
    <3>3. Low(far) <= n' /\ Low(far) \in Int
      BY <3>1, <3>2, <1>2, <1>4, FileBufAssumption DEF Low
    <3>4. QED
      BY <3>3, <2>2, <1>1, <1>4 DEF Window, InWindow
  <2>3. QED
    BY <2>1, <2>2, <1>2
<1>7. InWindow(stop, lo)'
  <2>1. n' <= stop /\ n' <= far' /\ stop < lo + BUFSIZ
    BY <1>1, <1>2, <1>4 DEF Window, InWindow
  <2>2. /\ far' <= Length' + 1 => lo <= Low(far')
        /\ far' > Length' + 1 => lo <= far' - 1
    BY <1>1, <1>2 DEF Window, InWindow
  <2>3. b'.call_pos = Wrap(stop)
    BY <1>1, <1>3 DEF Window, InWindow
  <2>4. QED
    BY <1>2, <1>5, <1>6, <2>1, <2>2, <2>3 DEF InWindow
<1>8. HasText(stop, lo)'
  BY <1>1, <1>2, <1>3 DEF Window, HasText
<1>9. OnceEnded(stop, lo) => OnceEnded(stop, lo)'
  BY <1>2, <1>3 DEF OnceEnded
<1>10. WhileOpen(stop, lo) => WhileOpen(stop, lo)'
  BY <1>2, <1>3 DEF WhileOpen
<1>11. Window(stop, lo)'
  BY <1>1, <1>3, <1>7, <1>8, <1>9, <1>10 DEF Window
<1>12. QED
  BY <1>2, <1>4, <1>11 DEF FileInv, Stream!Unget

\* What was ungotten when the file is closed can be gotten again.
LEMMA CloseKeeps ==
  ASSUME FileInv, Close
  PROVE  FileInv' /\ (Stream!Cut \/ UNCHANGED <<text, n, got>>)
<1>1. PICK stop \in Nat, lo \in Int : TypeOK /\ Window(stop, lo)
  BY DEF FileInv
<1>2. CASE "end" \in b.status
  <2>1. UNCHANGED fileVars
    BY <1>2 DEF Close, FileClose, fileVars
  <2>2. FileInv'
    <3>1. Length' = Length /\ b' = b /\ n' = n /\ far' = far /\ text' = text
      BY <2>1 DEF fileVars, Length
    <3>2. TypeOK'
      BY <1>1, <3>1 DEF TypeOK
    <3>3. InWindow(stop, lo)' /\ HasText(stop, lo)' /\ OnceEnded(stop, lo)'
      BY <1>1, <1>2, <3>1 DEF Window, InWindow, HasText, OnceEnded
    <3>4. Window(stop, lo)'
      BY <1>2, <3>1, <3>3 DEF Window
    <3>5. QED
      BY <3>2, <3>4 DEF FileInv
  <2>3. QED
    BY <2>1, <2>2 DEF fileVars
<1>3. CASE "end" \notin b.status
  <2>1. /\ n \in Nat /\ far \in Nat /\ Length \in Nat /\ b.pos \in Int /\ n' = n /\ far' = far
        /\ got' = got /\ n < far /\ n < Length /\ BUFSIZ \in Nat /\ BUFSIZ >= 2
        /\ text' = [chars |-> SubSeq(text.chars, 1, n + 1), bad |-> FALSE]
        /\ b' = [b EXCEPT !.status = @ \cup {"end"}, !.call_pos = Wrap(b.pos + 1)]
        /\ DOMAIN text.chars = 1..Length /\ text.chars \in Seq(Chars)
    BY SMTT(30), <1>1, <1>3, TextTypes, FileBufAssumption
    DEF TypeOK, Close, FileClose, Window, InWindow, BUFSIZ, Length
  <2>2. /\ b'.pos = b.pos /\ b'.call_pos = Wrap(b.pos + 1) /\ b'.end_pos = b.end_pos
        /\ b'.status = b.status \cup {"end"} /\ b'.buf = b.buf /\ DOMAIN b' = DOMAIN b
    BY <1>1, <2>1 DEF TypeOK
  <2>3. PICK m \in Nat : m = n + 1
    BY <2>1
  <2>4. /\ text'.chars \in Seq(Chars) /\ Len(text'.chars) = m /\ text'.bad = FALSE
        /\ \A i \in 1..m : text'.chars[i] = text.chars[i]
    <3>1. /\ SubSeq(text.chars, 1, m) \in Seq(Chars) /\ Len(SubSeq(text.chars, 1, m)) = m
          /\ \A i \in 1..m : SubSeq(text.chars, 1, m)[i] = text.chars[i]
      BY <2>1, <2>3, FrontOfText DEF Length
    <3>2. QED
      BY <3>1, <2>1, <2>3
  <2>5. /\ lo <= n /\ far <= stop /\ stop <= Length /\ stop < lo + BUFSIZ
        /\ b.end_pos = -1 /\ b.status = {} /\ lo <= Low(far) /\ HasText(stop, lo)
        /\ b.pos \in 0..BUFSIZ /\ Wrap(b.pos) = Wrap(n)
    BY SMTT(30), <1>1, <1>3, <2>1 DEF Window, InWindow, WhileOpen
  <2>6. TypeOK'
    <3>1. text' \in [chars : Seq(Chars), bad : BOOLEAN]
      BY <2>1, <2>4
    <3>2. QED
      BY <1>1, <2>1, <2>2, <3>1 DEF TypeOK
  <2>7. PICK l \in Int : l = IF far > m + 1 THEN n ELSE lo
    BY <2>1
  <2>8. InWindow(m, l)'
    <3>1. Wrap(b.pos + 1) = Wrap(m)
      <4>1. b.pos \in Int /\ n \in Int /\ 1 \in Int /\ Wrap(b.pos) = Wrap(n)
        BY <2>1, <2>5
      <4>2. Wrap(b.pos + 1) = Wrap(n + 1)
        BY <4>1, WrapAdd
      <4>3. QED
        BY <4>2, <2>3
    <3>2. Length' = m
      BY <2>4 DEF Length
    <3>3. l <= n /\ n <= m /\ m < l + BUFSIZ
      BY <2>1, <2>3, <2>5, <2>7
    <3>4. /\ far <= m + 1 => l <= Low(far)
          /\ far > m + 1 => l <= far - 1
      BY <2>1, <2>3, <2>5, <2>7
    <3>5. QED
      BY <3>1, <3>2, <3>3, <3>4, <2>1, <2>2, <2>5 DEF InWindow
  <2>9. HasText(m, l)'
    <3>1. SUFFICES ASSUME NEW i \in Nat, l <= i, i < m
                   PROVE  b'.buf[Wrap(i)] = text'.chars[i + 1]
      BY DEF HasText
    <3>2. lo <= i /\ i < stop /\ i < Length /\ i + 1 \in 1..m
      BY SMTT(30), <3>1, <2>1, <2>3, <2>5, <2>7
    <3>3. b.buf[Wrap(i)] = text.chars[i + 1]
      BY <3>2, <2>5 DEF HasText
    <3>4. QED
      BY <3>2, <3>3, <2>2, <2>4
  <2>10. OnceEnded(m, l)'
    BY <2>2, <2>4, <2>5 DEF OnceEnded, Length
  <2>11. FileInv'
    BY <2>2, <2>6, <2>8, <2>9, <2>10 DEF FileInv, Window
  <2>12. Stream!Cut
    <3>1. n + 1 \in DOMAIN text.chars
      BY <2>1
    <3>2. QED
      BY <3>1, <2>1 DEF Stream!Cut
  <2>13. QED
    BY <2>11, <2>12
<1>4. QED
  BY <1>2, <1>3

-----------------------------------------------------------------------------

LEMMA FileInvInit ==
  ASSUME FileInit
  PROVE  FileInv /\ Stream!StreamInit
<1>1. text \in [chars : Seq(Chars), bad : BOOLEAN] /\ text \in Files
  BY FilesAssumption DEF FileInit
<1>2. n = 0 /\ far = 0 /\ got = End /\ BUFSIZ = 2 * ALEN /\ ALEN \in Nat \ {0}
  BY FileBufAssumption DEF FileInit, BUFSIZ
<1>3. /\ b.file = text /\ b.ref = 0 /\ b.pos = 0 /\ b.call_pos = 0 /\ b.end_pos = -1
      /\ b.status = {} /\ DOMAIN b.buf = 0..(BUFSIZ - 1) /\ DOMAIN b = Fields
  BY DEF FileInit, Opened, Fields
<1>4. TypeOK
  BY <1>1, <1>2, <1>3 DEF TypeOK, Fields
<1>5. Length \in Nat
  BY <1>4, TextTypes
<1>6. PICK l \in Int : l = 1 - BUFSIZ
  BY <1>2
<1>7. 0 % ALEN = 0 /\ 0 % BUFSIZ = 0
  BY <1>2, ModIs
<1>8. InWindow(0, l) /\ HasText(0, l)
  <2>1. Low(0) = 1 - ALEN
    BY <1>2, <1>7 DEF Low
  <2>2. Wrap(0) = 0
    BY <1>7 DEF Wrap
  <2>3. InWindow(0, l)
    BY <1>2, <1>3, <1>5, <1>6, <2>1, <2>2 DEF InWindow
  <2>4. HasText(0, l)
    BY DEF HasText
  <2>5. QED
    BY <2>3, <2>4
<1>9. WhileOpen(0, l)
  BY <1>2, <1>3, <1>5, <1>6, <1>7 DEF WhileOpen
<1>10. QED
  BY <1>1, <1>2, <1>3, <1>4, <1>8, <1>9 DEF FileInv, Window, Stream!StreamInit

LEMMA FileStep ==
  ASSUME FileInv, [FileNext]_fileVars
  PROVE  FileInv' /\ [Stream!StreamNext]_<<text, n, got>>
<1>1. CASE Get
  BY <1>1, GetKeeps DEF Stream!StreamNext
<1>2. CASE \E k \in 1..n : Unget(k)
  BY <1>2, UngetKeeps DEF Stream!StreamNext
<1>3. CASE Close
  BY <1>3, CloseKeeps DEF Stream!StreamNext
<1>4. CASE UNCHANGED fileVars
  BY <1>4 DEF fileVars, FileInv, TypeOK, Window, InWindow, HasText, WhileOpen, OnceEnded, Length
<1>5. QED
  BY <1>1, <1>2, <1>3, <1>4 DEF FileNext

\* The ring with its two areas, positions and markers (file.c, file.h) gives
\* whoever gets and ungets characters the text, then its end or failure.
THEOREM RingGivesTheText == FileSpec => ReadsTheText
<1>1. FileInit => FileInv /\ Stream!StreamInit
  BY FileInvInit
<1>2. FileInv /\ [FileNext]_fileVars => FileInv' /\ [Stream!StreamNext]_<<text, n, got>>
  BY FileStep
<1>3. QED
  BY <1>1, <1>2, PTL DEF FileSpec, ReadsTheText, Stream!StreamSpec
===============================================================================
