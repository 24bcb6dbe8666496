---------------------------- MODULE Parser_proofs ----------------------------
(***************************************************************************)
(* Proofs about the parser (Parser), for any mix of tokens.                *)
(*                                                                         *)
(* Two invariants.  TreeInv, for all scripts, is about the stack of levels *)
(* and the lists of modulators: all links are to what there is (Shape), a  *)
(* level is entered only where its kind is allowed (Stack), each modulator *)
(* is in one place (Lists), and a list has one owner, older than what is   *)
(* in it (Owned), which for the list of an open level is the parent kept   *)
(* in it.  FlatInv, for scripts without brackets, has the main list as a   *)
(* set that is closed under "next" (Main), with the last event in it, and  *)
(* the groups as ranges that divide the events done so far (Divided); the  *)
(* event that is open is placed only when it ends.                         *)
(*                                                                         *)
(* The functions of parser.c are taken one by one (end_operator,           *)
(* end_event, begin_event, begin_operator, begin_node, enter_level,        *)
(* leave_level), with a lemma on what each leaves alone, then the tokens.  *)
(***************************************************************************)
EXTENDS Parser, SequenceTheorems, ProofFacts

-----------------------------------------------------------------------------
(* What the parser and its nodes are made of. *)

\* A sequence, of whatever.
IsSeq(q) == q \in Seq(Range(q))

\* The fields of the parser.
ParserFields == {"pls", "ops", "evs", "scopes", "durs", "first_ev", "ev", "label", "sopt",
                 "ended", "crashed"}

\* The fields of a level.
LevelFields == {"scope", "nested", "sub_f", "local", "active_ev", "active_op", "event",
                "last_event", "operator", "last_operator", "parent_op", "op_prev", "op_scope",
                "set_label", "composite", "next_wait"}

\* The fields of an operator node.
OpFields == {"event", "prev", "scopes", "has_composite", "at", "time", "linked", "silence",
             "silence_added", "sets_time", "sets_silence", "root", "nested", "set", "label",
             "amp"}

\* The fields of an event node.
EvFields == {"next", "composite", "dur", "op", "wait", "add_wait"}

\* A level's links are to nodes and lists that there are, or none.
LevelOK(pl, nops, nevs, nlists) ==
    /\ DOMAIN pl = LevelFields
    /\ pl.scope \in {"top", "nest", "block"}
    /\ pl.operator \in 0..nops /\ pl.op_prev \in 0..nops /\ pl.parent_op \in 0..nops
    /\ pl.local \in {Settings} \cup 0..nops
    /\ pl.active_op => pl.operator > 0
    /\ pl.event \in 0..nevs
    /\ pl.op_scope \in 0..nlists
    /\ pl.set_label \in Labels \cup {None}

\* An operator node's links are to nodes that there are; what it owns is a sequence.
OpOK(n, nops, nevs) ==
    /\ DOMAIN n = OpFields
    /\ n.prev \in 0..nops
    /\ n.event \in 0..nevs
    /\ n.nested \in BOOLEAN
    /\ n.label \in Labels \cup {None}
    /\ IsSeq(n.scopes)

\* Every link of the parser, its levels and its nodes is to what there is.
Shape(s) ==
    /\ DOMAIN s = ParserFields
    /\ IsSeq(s.pls) /\ IsSeq(s.ops) /\ IsSeq(s.evs) /\ IsSeq(s.scopes) /\ IsSeq(s.durs)
    /\ \A k \in 1..Len(s.pls) : LevelOK(s.pls[k], Len(s.ops), Len(s.evs), Len(s.scopes))
    /\ \A o \in 1..Len(s.ops) : OpOK(s.ops[o], Len(s.ops), Len(s.evs))
    /\ \A e \in 1..Len(s.evs) : DOMAIN s.evs[e] = EvFields
    /\ \A l \in 1..Len(s.scopes) : IsSeq(s.scopes[l])
    /\ s.label \in [Labels -> 0..Len(s.ops)]
    /\ s.ev \in 0..Len(s.evs) /\ s.first_ev \in 0..Len(s.evs)

\* The first level is the top one; a call that has an operator to set has it open; and a
\* block is entered from no such call.
Stack(s) ==
    /\ \A k \in 1..Len(s.pls) : s.pls[k].scope = "top" <=> k = 1
    /\ \A k \in 1..Len(s.pls) : k = 1 => s.pls[k].op_scope = 0
    /\ \A k \in 1..Len(s.pls) : s.pls[k].local > 0 => s.pls[k].operator > 0
    /\ \A k \in 2..Len(s.pls) : s.pls[k].scope = "block" => s.pls[k - 1].local = 0

\* Each listed node is a modulator made anew, in one place of one list; and each such is
\* listed.
Lists(s) ==
    /\ \A l \in 1..Len(s.scopes) : \A i \in 1..Len(s.scopes[l]) :
        LET o == s.scopes[l][i]
        IN  o \in 1..Len(s.ops) /\ s.ops[o].nested /\ s.ops[o].prev = 0
    /\ \A l, m \in 1..Len(s.scopes) :
        \A i \in 1..Len(s.scopes[l]), j \in 1..Len(s.scopes[m]) :
            s.scopes[l][i] = s.scopes[m][j] => l = m /\ i = j
    /\ \A o \in 1..Len(s.ops) :
        s.ops[o].nested /\ s.ops[o].prev = 0 =>
            \E l \in 1..Len(s.scopes) : \E i \in 1..Len(s.scopes[l]) : s.scopes[l][i] = o

\* List l is one of those that node o was given.
Owns(s, o, l) == \E i \in 1..Len(s.ops[o].scopes) : s.ops[o].scopes[i] = l

\* List l is that of the level k, which is open.
Opens(s, k, l) == s.pls[k].scope = "nest" /\ s.pls[k].op_scope = l

\* Lists that are closed are each of one node, older than what is in them; those of open
\* levels are of no node yet, and of one level each, whose parent is older than what is
\* in them.
Owned(s) ==
    /\ \A o \in 1..Len(s.ops) : \A i \in 1..Len(s.ops[o].scopes) :
         s.ops[o].scopes[i] \in 1..Len(s.scopes)
    /\ \A o \in 1..Len(s.ops) : \A l \in 1..Len(s.scopes) : Owns(s, o, l) =>
         \A i \in 1..Len(s.scopes[l]) : o < s.scopes[l][i]
    /\ \A n, o \in 1..Len(s.ops) : \A l \in 1..Len(s.scopes) :
         Owns(s, n, l) /\ Owns(s, o, l) => n = o
    /\ \A k \in 1..Len(s.pls) : s.pls[k].scope = "nest" =>
        /\ s.pls[k].op_scope # 0
        /\ s.pls[k].parent_op # 0
        /\ \A i \in 1..Len(s.scopes[s.pls[k].op_scope]) :
               s.pls[k].parent_op < s.scopes[s.pls[k].op_scope][i]
        /\ \A o \in 1..Len(s.ops) : ~Owns(s, o, s.pls[k].op_scope)
    /\ \A j, k \in 1..Len(s.pls) : \A l \in 1..Len(s.scopes) :
         Opens(s, j, l) /\ Opens(s, k, l) => j = k
    /\ \A l \in 1..Len(s.scopes) :
         \/ \E o \in 1..Len(s.ops) : Owns(s, o, l)
         \/ \E k \in 1..Len(s.pls) : Opens(s, k, l)

-----------------------------------------------------------------------------
(* Sequences. *)

\* A sequence over any set is one.
LEMMA SeqKnown ==
  ASSUME NEW S, NEW q \in Seq(S)
  PROVE  IsSeq(q)
<1>1. Len(q) \in Nat /\ DOMAIN q = 1..Len(q) /\ q \in [1..Len(q) -> S]
  OBVIOUS
<1>2. q \in [1..Len(q) -> Range(q)]
  BY <1>1 DEF Range
<1>3. QED
  BY <1>1, <1>2 DEF IsSeq

\* A sequence's length and domain.
LEMMA SeqFacts ==
  ASSUME NEW q, IsSeq(q)
  PROVE  /\ Len(q) \in Nat
         /\ DOMAIN q = 1..Len(q)
         /\ (q = <<>> <=> Len(q) = 0)
<1>1. Len(q) \in Nat /\ DOMAIN q = 1..Len(q)
  BY DEF IsSeq
<1>2. q = <<>> <=> Len(q) = 0
  BY DEF IsSeq
<1>3. QED
  BY <1>1, <1>2

\* Appending to a sequence keeps what is in it.
LEMMA SeqAppended ==
  ASSUME NEW q, IsSeq(q), NEW x
  PROVE  /\ IsSeq(Append(q, x))
         /\ Len(Append(q, x)) = Len(q) + 1
         /\ \A i \in 1..Len(q) : Append(q, x)[i] = q[i]
         /\ Append(q, x)[Len(q) + 1] = x
<1> DEFINE S == Range(q) \cup {x}
<1>1. q \in Seq(S)
  <2>1. q \in Seq(Range(q)) /\ Range(q) \subseteq S
    BY DEF IsSeq
  <2> HIDE DEF S
  <2>2. QED
    BY <2>1, SeqOverMore
<1>2. x \in S
  OBVIOUS
<1> HIDE DEF S
<1>3. Append(q, x) \in Seq(S)
  BY <1>1, <1>2
<1>4. IsSeq(Append(q, x))
  BY <1>3, SeqKnown, Zenon
<1>5. QED
  BY <1>1, <1>2, <1>4

\* A sequence with one entry changed; the same sequence where it has none such.
Put(q, i, x) == [q EXCEPT ![i] = x]

\* Changing an entry keeps the others and the length.
LEMMA SeqPatched ==
  ASSUME NEW q, IsSeq(q), NEW i, NEW x
  PROVE  /\ IsSeq(Put(q, i, x))
         /\ Len(Put(q, i, x)) = Len(q)
         /\ \A j \in 1..Len(q) : j # i => Put(q, i, x)[j] = q[j]
         /\ i \in 1..Len(q) => Put(q, i, x)[i] = x
<1> DEFINE S == Range(q) \cup {x}
           r == [q EXCEPT ![i] = x]
<1>1. Len(q) \in Nat /\ DOMAIN q = 1..Len(q)
  BY SeqFacts
<1>2. r \in [1..Len(q) -> S]
  BY <1>1, Zenon DEF Range
<1>3. r \in Seq(S) /\ Len(r) = Len(q)
  <2> HIDE DEF S, r
  <2>1. QED
    BY <1>1, <1>2
<1>4. IsSeq(r)
  <2> HIDE DEF S, r
  <2>1. QED
    BY <1>3, SeqKnown
<1>5. QED
  BY <1>1, <1>3, <1>4 DEF Put

\* What is left without the last entry.
LEMMA SeqFront ==
  ASSUME NEW q, IsSeq(q), q # <<>>
  PROVE  /\ IsSeq(Front(q))
         /\ Len(q) \in Nat \ {0}
         /\ Len(Front(q)) = Len(q) - 1
         /\ \A i \in 1..(Len(q) - 1) : Front(q)[i] = q[i]
<1>1. Len(q) \in Nat \ {0}
  BY SeqFacts
<1>2. q \in Seq(Range(q))
  BY DEF IsSeq
<1> DEFINE S == Range(q)
<1>3. Front(q) \in Seq(S) /\ Len(Front(q)) = Len(q) - 1
      /\ \A i \in 1..(Len(q) - 1) : Front(q)[i] = q[i]
  <2>1. q \in Seq(S)
    BY <1>2
  <2> HIDE DEF S
  <2>2. QED
    BY <1>1, <2>1, SubSeqProperties DEF Front
<1>4. QED
  BY <1>1, <1>3, SeqKnown

\* Taking off the last entry and appending another changes the last.
LEMMA SeqLastSet ==
  ASSUME NEW q, IsSeq(q), q # <<>>, NEW x
  PROVE  Append(Front(q), x) = Put(q, Len(q), x)
<1>1. /\ IsSeq(Front(q)) /\ Len(q) \in Nat \ {0}
      /\ Len(Front(q)) = Len(q) - 1
      /\ \A i \in 1..(Len(q) - 1) : Front(q)[i] = q[i]
  BY SeqFront
<1> DEFINE a == Append(Front(q), x)
           b == Put(q, Len(q), x)
<1>2. /\ IsSeq(a) /\ Len(a) = Len(q)
      /\ \A i \in 1..(Len(q) - 1) : a[i] = q[i]
      /\ a[Len(q)] = x
  BY <1>1, SeqAppended
<1>3. /\ IsSeq(b) /\ Len(b) = Len(q)
      /\ \A i \in 1..(Len(q) - 1) : b[i] = q[i]
      /\ b[Len(q)] = x
  <2>1. /\ IsSeq(b) /\ Len(b) = Len(q)
        /\ \A j \in 1..Len(q) : j # Len(q) => b[j] = q[j]
        /\ Len(q) \in 1..Len(q) => b[Len(q)] = x
    BY SeqPatched
  <2> HIDE DEF b
  <2>2. QED
    BY <1>1, <2>1
<1> HIDE DEF a, b
<1>4. \A i \in 1..Len(q) : a[i] = b[i]
  BY <1>1, <1>2, <1>3
<1>5. a \in [1..Len(q) -> Range(a)] /\ b \in [1..Len(q) -> Range(b)]
  BY <1>2, <1>3 DEF IsSeq
<1>6. a = b
  BY <1>4, <1>5
<1>7. QED
  BY <1>6 DEF a, b

-----------------------------------------------------------------------------
(* The last level and the operator nodes. *)

\* SetLevel changes the innermost level and no other.
LEMMA LevelSet ==
  ASSUME NEW s, DOMAIN s = ParserFields, IsSeq(s.pls), s.pls # <<>>, NEW pl
  PROVE  /\ SetLevel(s, pl) = [s EXCEPT !.pls = Put(s.pls, Len(s.pls), pl)]
         /\ IsSeq(SetLevel(s, pl).pls)
         /\ Len(SetLevel(s, pl).pls) = Len(s.pls)
         /\ SetLevel(s, pl).pls # <<>>
         /\ Len(s.pls) \in Nat \ {0}
         /\ Level(SetLevel(s, pl)) = pl
         /\ \A k \in 1..(Len(s.pls) - 1) : SetLevel(s, pl).pls[k] = s.pls[k]
<1> DEFINE q == Put(s.pls, Len(s.pls), pl)
<1>1. Append(Front(s.pls), pl) = q
  BY SeqLastSet
<1>2. SetLevel(s, pl) = [s EXCEPT !.pls = q]
  BY <1>1 DEF SetLevel
<1>3. Len(s.pls) \in Nat \ {0}
  BY SeqFacts
<1>4. /\ IsSeq(q) /\ Len(q) = Len(s.pls)
      /\ q[Len(s.pls)] = pl
      /\ \A k \in 1..(Len(s.pls) - 1) : q[k] = s.pls[k]
  <2>1. /\ IsSeq(q) /\ Len(q) = Len(s.pls)
        /\ \A j \in 1..Len(s.pls) : j # Len(s.pls) => q[j] = s.pls[j]
        /\ Len(s.pls) \in 1..Len(s.pls) => q[Len(s.pls)] = pl
    BY SeqPatched
  <2> HIDE DEF q
  <2>2. QED
    BY <1>3, <2>1
<1> HIDE DEF q
<1>5. SetLevel(s, pl).pls = q
  BY <1>2 DEF ParserFields
<1>6. q # <<>>
  BY <1>3, <1>4, SeqFacts
<1>7. QED
  BY <1>2, <1>3, <1>4, <1>5, <1>6 DEF q, Level, Last

\* What of an operator node the trees and groups depend on is the same.
SameOp(m, n) ==
    /\ m.prev = n.prev /\ (m.nested <=> n.nested)
    /\ m.scopes = n.scopes /\ m.event = n.event

\* What of a level the lists, groups and events depend on is the same.
SameLevel(pl, ql) ==
    /\ pl.scope = ql.scope /\ pl.op_scope = ql.op_scope /\ pl.parent_op = ql.parent_op
    /\ pl.active_ev = ql.active_ev /\ pl.composite = ql.composite /\ pl.event = ql.event

\* The nodes and the lists are the same as far as links go.
SameNodes(s, t) ==
    /\ Len(t.ops) = Len(s.ops) /\ \A o \in 1..Len(s.ops) : SameOp(s.ops[o], t.ops[o])
    /\ t.scopes = s.scopes

\* The events are the same as far as the main list and the groups go.
SameEvents(s, t) ==
    /\ Len(t.evs) = Len(s.evs)
    /\ \A e \in 1..Len(s.evs) : t.evs[e].next = s.evs[e].next /\ t.evs[e].dur = s.evs[e].dur
    /\ t.first_ev = s.first_ev /\ t.ev = s.ev /\ t.durs = s.durs

\* The levels around the innermost are the same.
SameOuter(s, t) ==
    Len(t.pls) = Len(s.pls) /\ \A k \in 1..(Len(s.pls) - 1) : t.pls[k] = s.pls[k]

\* Nothing that trees or groups depend on changes.
Quiet(s, t) ==
    /\ SameNodes(s, t) /\ SameEvents(s, t) /\ SameOuter(s, t)
    /\ SameLevel(Level(s), Level(t))

\* A level that may be one of s.
LevelHere(s, pl) == LevelOK(pl, Len(s.ops), Len(s.evs), Len(s.scopes))

\* Changing no links, twice.
LEMMA QuietTrans ==
  ASSUME NEW s, NEW t, NEW u, Quiet(s, t), Quiet(t, u)
  PROVE  Quiet(s, u)
<1>1. SameNodes(s, u)
  BY DEF Quiet, SameNodes, SameOp
<1>2. SameEvents(s, u)
  BY DEF Quiet, SameEvents
<1>3. SameOuter(s, u)
  BY DEF Quiet, SameOuter
<1>4. SameLevel(Level(s), Level(u))
  BY DEF Quiet, SameLevel
<1>5. QED
  BY <1>1, <1>2, <1>3, <1>4 DEF Quiet

\* Nothing changes no links.
LEMMA SameHere ==
  ASSUME NEW s
  PROVE  Quiet(s, s)
BY DEF Quiet, SameNodes, SameOp, SameEvents, SameOuter, SameLevel

\* The innermost level is the last of the stack.
LEMMA LastLevel ==
  ASSUME NEW s, Shape(s), s.pls # <<>>
  PROVE  /\ Len(s.pls) \in Nat \ {0}
         /\ Level(s) = s.pls[Len(s.pls)]
         /\ LevelHere(s, Level(s))
<1>1. Len(s.pls) \in Nat \ {0}
  BY SeqFacts DEF Shape
<1>2. Level(s) = s.pls[Len(s.pls)]
  BY DEF Level, Last
<1>3. QED
  BY <1>1, <1>2 DEF Shape, LevelHere

\* The last level gives way to another of the same kind.
LEMMA SetLevelShape ==
  ASSUME NEW s, Shape(s), s.pls # <<>>, NEW pl, LevelHere(s, pl)
  PROVE  /\ Shape(SetLevel(s, pl))
         /\ SameNodes(s, SetLevel(s, pl)) /\ SameEvents(s, SetLevel(s, pl))
         /\ SameOuter(s, SetLevel(s, pl))
         /\ SetLevel(s, pl).pls # <<>>
         /\ Level(SetLevel(s, pl)) = pl
<1> DEFINE t == SetLevel(s, pl)
<1>1. /\ t = [s EXCEPT !.pls = Put(s.pls, Len(s.pls), pl)]
      /\ IsSeq(t.pls)
      /\ Len(t.pls) = Len(s.pls)
      /\ t.pls # <<>>
      /\ Len(s.pls) \in Nat \ {0}
      /\ Level(t) = pl
      /\ \A k \in 1..(Len(s.pls) - 1) : t.pls[k] = s.pls[k]
  BY LevelSet DEF Shape
<1> HIDE DEF t
<1>2. /\ DOMAIN t = ParserFields
      /\ t.ops = s.ops /\ t.evs = s.evs /\ t.scopes = s.scopes /\ t.durs = s.durs
      /\ t.first_ev = s.first_ev /\ t.ev = s.ev /\ t.label = s.label
  BY <1>1 DEF Shape, ParserFields
<1>3. \A k \in 1..Len(t.pls) : LevelOK(t.pls[k], Len(s.ops), Len(s.evs), Len(s.scopes))
  <2> SUFFICES ASSUME NEW k \in 1..Len(s.pls)
               PROVE  LevelHere(s, t.pls[k])
    BY <1>1 DEF LevelHere
  <2>1. CASE k = Len(s.pls)
    BY <2>1, <1>1 DEF Level, Last
  <2>2. CASE k # Len(s.pls)
    <3>1. k \in 1..(Len(s.pls) - 1)
      BY <2>2, <1>1
    <3>2. QED
      BY <3>1, <1>1 DEF Shape, LevelHere
  <2>3. QED
    BY <2>1, <2>2
<1>4. Shape(t)
  BY <1>1, <1>2, <1>3 DEF Shape
<1>5. SameNodes(s, t) /\ SameEvents(s, t) /\ SameOuter(s, t)
  BY <1>1, <1>2 DEF SameNodes, SameOp, SameEvents, SameOuter
<1>6. QED
  BY <1>1, <1>4, <1>5 DEF t

\* ... and one with the same links changes none.
LEMMA SetLevelQuiet ==
  ASSUME NEW s, Shape(s), s.pls # <<>>, NEW pl, LevelHere(s, pl), SameLevel(Level(s), pl)
  PROVE  /\ Shape(SetLevel(s, pl))
         /\ Quiet(s, SetLevel(s, pl))
         /\ SetLevel(s, pl).pls # <<>>
         /\ Level(SetLevel(s, pl)) = pl
BY SetLevelShape DEF Quiet

\* The parser with other operator nodes.
WithOps(s, q) == [s EXCEPT !.ops = q]

\* ... and with other event nodes.
WithEvs(s, q) == [s EXCEPT !.evs = q]

\* An operator node gives way to another of the same place.
LEMMA SetOpQuiet ==
  ASSUME NEW s, Shape(s), NEW o \in 1..Len(s.ops), NEW n,
         OpOK(n, Len(s.ops), Len(s.evs)), SameOp(s.ops[o], n),
         NEW t, t = WithOps(s, Put(s.ops, o, n))
  PROVE  Shape(t) /\ Quiet(s, t) /\ t.pls = s.pls /\ Level(t) = Level(s)
<1>1. /\ DOMAIN t = ParserFields
      /\ t.pls = s.pls /\ t.evs = s.evs /\ t.scopes = s.scopes /\ t.durs = s.durs
      /\ t.first_ev = s.first_ev /\ t.ev = s.ev /\ t.label = s.label
      /\ t.ops = Put(s.ops, o, n)
  BY DEF Shape, ParserFields, WithOps
<1>2. /\ IsSeq(t.ops) /\ Len(t.ops) = Len(s.ops)
      /\ \A k \in 1..Len(s.ops) : k # o => t.ops[k] = s.ops[k]
      /\ t.ops[o] = n
  <2>1. IsSeq(s.ops)
    BY DEF Shape
  <2>2. QED
    BY <1>1, <2>1, SeqPatched
<1>3. \A k \in 1..Len(s.ops) : OpOK(t.ops[k], Len(s.ops), Len(s.evs))
  BY <1>2 DEF Shape
<1>4. Shape(t)
  BY <1>1, <1>2, <1>3 DEF Shape
<1>5. SameNodes(s, t)
  BY <1>1, <1>2 DEF SameNodes, SameOp
<1>6. SameEvents(s, t) /\ SameOuter(s, t) /\ Level(t) = Level(s)
  BY <1>1 DEF SameEvents, SameOuter, Level
<1>7. SameLevel(Level(s), Level(t))
  BY <1>6 DEF SameLevel
<1>8. QED
  BY <1>1, <1>4, <1>5, <1>6, <1>7 DEF Quiet

\* Nothing is told of the rest.
LEMMA RestQuiet ==
  ASSUME NEW s, Shape(s), NEW t, DOMAIN t = ParserFields,
         t.pls = s.pls, t.ops = s.ops, t.evs = s.evs, t.scopes = s.scopes, t.durs = s.durs,
         t.first_ev = s.first_ev, t.ev = s.ev, t.label \in [Labels -> 0..Len(s.ops)]
  PROVE  Shape(t) /\ Quiet(s, t) /\ Level(t) = Level(s)
<1>1. Shape(t)
  BY DEF Shape
<1>2. SameNodes(s, t) /\ SameOuter(s, t) /\ Level(t) = Level(s) /\ SameEvents(s, t)
  BY DEF SameNodes, SameOp, SameOuter, Level, SameEvents
<1>3. SameLevel(Level(s), Level(t))
  BY <1>2 DEF SameLevel
<1>4. QED
  BY <1>1, <1>2, <1>3 DEF Quiet

-----------------------------------------------------------------------------
(* The end of an operator node and of an event. *)

\* What a level has apart from its open nodes.
SameCall(pl, ql) ==
    /\ pl.scope = ql.scope /\ pl.op_scope = ql.op_scope /\ pl.parent_op = ql.parent_op
    /\ pl.sub_f = ql.sub_f /\ pl.local = ql.local /\ pl.op_prev = ql.op_prev
    /\ pl.set_label = ql.set_label /\ pl.composite = ql.composite

\* end_operator changes no links: what it sets is the node's own.
LEMMA EndOperator ==
  ASSUME NEW s, Shape(s), s.pls # <<>>
  PROVE  /\ Shape(end_operator(s)) /\ Quiet(s, end_operator(s))
         /\ end_operator(s).pls # <<>>
         /\ SameCall(Level(s), Level(end_operator(s)))
         /\ ~Level(s).active_op => end_operator(s) = s
<1> DEFINE pl == Level(s)
           o  == pl.operator
           n  == s.ops[o]
           nn == [n EXCEPT !.sets_time = @ \/ n.prev = 0, !.sets_silence = @ \/ n.prev = 0,
                           !.amp = ScaledAmp(n, s.sopt.ampmult)]
           u  == WithOps(s, Put(s.ops, o, nn))
           ql == [pl EXCEPT !.active_op = FALSE, !.operator = 0, !.last_operator = o]
<1>1. CASE ~pl.active_op
  <2>1. end_operator(s) = s
    BY <1>1, SMTT(30) DEF end_operator
  <2>2. QED
    BY <1>1, <2>1, SameHere DEF SameCall
<1>2. CASE pl.active_op
  <2>1. LevelHere(s, pl)
    BY LastLevel
  <2>2. o \in 1..Len(s.ops)
    BY <1>2, <2>1 DEF LevelHere, LevelOK
  <2>3. OpOK(n, Len(s.ops), Len(s.evs)) /\ s.ops = [k \in DOMAIN s.ops |-> s.ops[k]]
        /\ o \in DOMAIN s.ops /\ "ops" \in DOMAIN s
    <3>1. OpOK(n, Len(s.ops), Len(s.evs)) /\ IsSeq(s.ops)
      BY <2>2 DEF Shape
    <3>2. DOMAIN s.ops = 1..Len(s.ops)
      BY <3>1, SeqFacts
    <3>3. s.ops = [k \in DOMAIN s.ops |-> s.ops[k]]
      BY <3>1 DEF IsSeq
    <3>4. "ops" \in DOMAIN s
      BY DEF Shape, ParserFields
    <3>5. QED
      BY <2>2, <3>1, <3>2, <3>3, <3>4
  <2>4. [s EXCEPT !.ops[o].sets_time = @ \/ s.ops[o].prev = 0,
                  !.ops[o].sets_silence = @ \/ s.ops[o].prev = 0,
                  !.ops[o].amp = ScaledAmp(s.ops[o], s.sopt.ampmult)] = u
    <3> DEFINE c == ScaledAmp(s.ops[o], s.sopt.ampmult)
               w == [s EXCEPT !.ops[o].sets_time = @ \/ s.ops[o].prev = 0,
                              !.ops[o].sets_silence = @ \/ s.ops[o].prev = 0,
                              !.ops[o].amp = c]
    <3>1. o \in DOMAIN s.ops /\ "ops" \in DOMAIN s /\ DOMAIN n = OpFields
      BY <2>3 DEF OpOK
    <3> HIDE DEF c, o
    <3>2. w.ops = Put(s.ops, o, [s.ops[o] EXCEPT !.sets_time = @ \/ s.ops[o].prev = 0,
                                !.sets_silence = @ \/ s.ops[o].prev = 0, !.amp = c])
      BY <3>1 DEF OpFields, Put
    <3>3. w = [s EXCEPT !.ops = w.ops]
      BY <3>1, Zenon
    <3>4. QED
      BY <3>2, <3>3, ZenonT(40) DEF c, WithOps
  <2>5. end_operator(s) = SetLevel(u, ql)
    BY <1>2, <2>4, SMTT(30) DEF end_operator
  <2>6. OpOK(nn, Len(s.ops), Len(s.evs)) /\ SameOp(n, nn)
    BY <2>3 DEF OpOK, OpFields, SameOp
  <2> DEFINE nx == nn
  <2>7. nx = nn
    OBVIOUS
  <2> HIDE DEF nx
  <2>8. u = WithOps(s, Put(s.ops, o, nx))
    BY <2>7
  <2>9. Shape(u) /\ Quiet(s, u) /\ u.pls = s.pls /\ Level(u) = pl
    <3>1. OpOK(nx, Len(s.ops), Len(s.evs)) /\ SameOp(s.ops[o], nx)
      BY <2>6, <2>7, Zenon
    <3> HIDE DEF u, o
    <3>2. QED
      BY <2>2, <2>8, <3>1, SetOpQuiet
  <2>10. LevelHere(u, ql) /\ SameLevel(Level(u), ql) /\ SameCall(pl, ql)
    <3>1. LevelHere(s, ql)
      BY <2>1, <2>2 DEF LevelHere, LevelOK, LevelFields
    <3>2. Len(u.ops) = Len(s.ops) /\ Len(u.evs) = Len(s.evs) /\ Len(u.scopes) = Len(s.scopes)
      BY <2>9, Zenon DEF Quiet, SameNodes, SameEvents
    <3>3. SameLevel(pl, ql) /\ SameCall(pl, ql)
      BY <2>1 DEF SameLevel, SameCall, LevelHere, LevelOK, LevelFields
    <3> HIDE DEF u, ql
    <3>4. QED
      BY <2>9, <3>1, <3>2, <3>3 DEF LevelHere
  <2>11. /\ Shape(SetLevel(u, ql)) /\ Quiet(u, SetLevel(u, ql))
         /\ SetLevel(u, ql).pls # <<>> /\ Level(SetLevel(u, ql)) = ql
    <3> HIDE DEF u, ql
    <3>1. QED
      BY <2>9, <2>10, SetLevelQuiet
  <2>12. Quiet(s, SetLevel(u, ql))
    <3> HIDE DEF u, ql
    <3>1. QED
      BY <2>9, <2>11, QuietTrans
  <2> HIDE DEF u, ql
  <2>13. QED
    BY <1>2, <2>5, <2>10, <2>11, <2>12
<1>3. QED
  BY <1>1, <1>2

\* The links of the events are as they were.
SameLinks(s, t) ==
    /\ Len(t.evs) = Len(s.evs)
    /\ \A e \in 1..Len(s.evs) : t.evs[e].next = s.evs[e].next /\ t.evs[e].dur = s.evs[e].dur
    /\ t.first_ev = s.first_ev /\ t.ev = s.ev

\* The groups after the event of the innermost level ends.
Ended(s) ==
    Put(s.durs, Len(s.durs), GroupTo(s.durs[Len(s.durs)], Level(s).event, Level(s).composite))

\* end_event closes the event of the level and extends the group, no more.
LEMMA EndEvent ==
  ASSUME NEW s, Shape(s), s.pls # <<>>
  PROVE  /\ Shape(end_event(s)) /\ SameNodes(s, end_event(s)) /\ SameOuter(s, end_event(s))
         /\ SameLinks(s, end_event(s))
         /\ end_event(s).pls # <<>>
         /\ SameCall(Level(s), Level(end_event(s)))
         /\ ~Level(s).active_ev => end_event(s) = s
         /\ Level(s).active_ev => /\ ~Level(end_event(s)).active_ev
                                  /\ Level(end_event(s)).event = 0
                                  /\ end_event(s).durs = Ended(s)
<1> DEFINE ended == end_operator(s)
           pl    == Level(ended)
           e     == Level(s).event
           u     == [ended EXCEPT !.durs = Put(s.durs, Len(s.durs),
                          GroupTo(s.durs[Len(s.durs)], e, pl.composite))]
           ql    == [pl EXCEPT !.active_ev = FALSE, !.event = 0, !.last_event = e]
<1>1. /\ Shape(ended) /\ Quiet(s, ended) /\ ended.pls # <<>>
      /\ SameCall(Level(s), pl)
  BY EndOperator
<1>2. SameLevel(Level(s), pl) /\ LevelHere(ended, pl)
  BY <1>1, LastLevel DEF Quiet
<1>3. CASE ~Level(s).active_ev
  <2>1. ~pl.active_ev
    BY <1>2, <1>3 DEF SameLevel
  <2>2. end_event(s) = s
    BY <2>1 DEF end_event
  <2>3. QED
    BY <1>3, <2>2 DEF SameNodes, SameOp, SameOuter, SameLinks, SameCall
<1>4. CASE Level(s).active_ev
  <2>1. pl.active_ev
    BY <1>2, <1>4 DEF SameLevel
  <2>2. [ended EXCEPT !.durs[Len(s.durs)] = GroupTo(@, e, pl.composite)] = u
    <3>1. ended.durs = s.durs
      BY <1>1 DEF Quiet, SameEvents
    <3>2. "durs" \in DOMAIN ended
      BY <1>1 DEF Shape, ParserFields
    <3> HIDE DEF ended, pl
    <3>3. QED
      BY <3>1, <3>2 DEF Put
  <2>3. end_event(s) = SetLevel(u, ql)
    BY <2>1, <2>2 DEF end_event
  <2>4. u.durs = Ended(s)
    <3>1. pl.composite = Level(s).composite
      BY <1>2 DEF SameLevel
    <3>2. "durs" \in DOMAIN ended
      BY <1>1 DEF Shape, ParserFields
    <3> HIDE DEF ended, pl
    <3>3. QED
      BY <3>1, <3>2 DEF Ended
  <2> HIDE DEF pl
  <2>5. /\ Shape(u) /\ SameNodes(ended, u) /\ SameOuter(ended, u) /\ u.pls # <<>>
        /\ SameLinks(ended, u) /\ Level(u) = pl
    <3>1. /\ DOMAIN u = ParserFields
          /\ u.pls = ended.pls /\ u.ops = ended.ops /\ u.evs = ended.evs
          /\ u.scopes = ended.scopes /\ u.first_ev = ended.first_ev /\ u.ev = ended.ev
          /\ u.label = ended.label /\ u.durs = Ended(s)
      BY <1>1, <2>4 DEF Shape, ParserFields
    <3>2. IsSeq(u.durs)
      BY <1>1, <3>1, SeqPatched DEF Shape, Ended, Quiet, SameEvents
    <3> HIDE DEF u
    <3>3. Shape(u)
      BY <1>1, <3>1, <3>2 DEF Shape
    <3>4. SameNodes(ended, u) /\ SameOuter(ended, u) /\ SameLinks(ended, u)
      BY <3>1 DEF SameNodes, SameOp, SameOuter, SameLinks
    <3>5. Level(u) = pl /\ u.pls # <<>>
      BY <1>1, <3>1 DEF Level, pl
    <3>6. QED
      BY <3>3, <3>4, <3>5
  <2> HIDE DEF u, ended
  <2>6. LevelHere(u, ql) /\ SameCall(pl, ql) /\ ~ql.active_ev /\ ql.event = 0
    <3>1. Len(u.ops) = Len(ended.ops) /\ Len(u.scopes) = Len(ended.scopes)
          /\ Len(u.evs) = Len(ended.evs)
      BY <2>5 DEF SameNodes, SameLinks
    <3>2. Len(ended.evs) \in Nat
      BY <1>1, SeqFacts DEF Shape
    <3>3. LevelOK(ql, Len(ended.ops), Len(ended.evs), Len(ended.scopes))
      BY <1>2, <3>2 DEF LevelHere, LevelOK, LevelFields
    <3>4. SameCall(pl, ql) /\ ~ql.active_ev /\ ql.event = 0
      BY <1>2 DEF LevelHere, LevelOK, LevelFields, SameCall
    <3>5. QED
      BY <3>1, <3>3, <3>4 DEF LevelHere
  <2> HIDE DEF ql
  <2>7. /\ Shape(SetLevel(u, ql)) /\ SameNodes(u, SetLevel(u, ql))
        /\ SameEvents(u, SetLevel(u, ql)) /\ SameOuter(u, SetLevel(u, ql))
        /\ SetLevel(u, ql).pls # <<>> /\ Level(SetLevel(u, ql)) = ql
    BY <2>5, <2>6, SetLevelShape
  <2>8. SameNodes(s, SetLevel(u, ql))
    BY <1>1, <2>5, <2>7 DEF Quiet, SameNodes, SameOp
  <2>9. SameOuter(s, SetLevel(u, ql))
    BY <1>1, <2>5, <2>7 DEF Quiet, SameOuter
  <2>10. SameLinks(s, SetLevel(u, ql))
    BY <1>1, <2>5, <2>7 DEF Quiet, SameLinks, SameEvents
  <2>11. SetLevel(u, ql).durs = Ended(s)
    BY <2>4, <2>7 DEF SameEvents
  <2>12. SameCall(Level(s), ql)
    BY <1>1, <2>6 DEF SameCall
  <2>13. QED
    BY <1>4, <2>3, <2>6, <2>7, <2>8, <2>9, <2>10, <2>11, <2>12
<1>5. QED
  BY <1>3, <1>4

-----------------------------------------------------------------------------
(* A new event. *)

\* A level's links stay good when nodes and lists are added.
LEMMA LevelGrows ==
  ASSUME NEW pl, NEW a \in Nat, NEW b \in Nat, NEW c \in Nat, LevelOK(pl, a, b, c),
         NEW x \in Nat, NEW y \in Nat, NEW z \in Nat, a <= x, b <= y, c <= z
  PROVE  LevelOK(pl, x, y, z)
<1>1. \A n, m \in Nat : n <= m => 0..n \subseteq 0..m
  OBVIOUS
<1>2. QED
  BY <1>1 DEF LevelOK

\* A node's links stay good when nodes are added.
LEMMA OpGrows ==
  ASSUME NEW n, NEW a \in Nat, NEW b \in Nat, OpOK(n, a, b),
         NEW x \in Nat, NEW y \in Nat, a <= x, b <= y
  PROVE  OpOK(n, x, y)
<1>1. \A k, m \in Nat : k <= m => 0..k \subseteq 0..m
  OBVIOUS
<1>2. QED
  BY <1>1 DEF OpOK

\* The same but for the events.
EventsOnly(s, t) ==
    /\ t.pls = s.pls /\ t.ops = s.ops /\ t.scopes = s.scopes /\ t.durs = s.durs
    /\ t.label = s.label

\* A new event leaves the others as they are.
LEMMA EventAdded ==
  ASSUME NEW s, Shape(s), NEW n, DOMAIN n = EvFields,
         NEW t, t = WithEvs(s, Append(s.evs, n))
  PROVE  /\ Shape(t) /\ EventsOnly(s, t)
         /\ t.first_ev = s.first_ev /\ t.ev = s.ev
         /\ Len(s.evs) \in Nat
         /\ Len(t.evs) = Len(s.evs) + 1
         /\ \A d \in 1..Len(s.evs) : t.evs[d] = s.evs[d]
         /\ t.evs[Len(s.evs) + 1] = n
<1>1. /\ DOMAIN t = ParserFields /\ EventsOnly(s, t)
      /\ t.first_ev = s.first_ev /\ t.ev = s.ev
      /\ t.evs = Append(s.evs, n)
  BY DEF Shape, ParserFields, WithEvs, EventsOnly
<1>2. IsSeq(s.evs) /\ Len(s.evs) \in Nat /\ Len(s.ops) \in Nat /\ Len(s.scopes) \in Nat
  BY SeqFacts DEF Shape
<1>3. /\ IsSeq(t.evs) /\ Len(t.evs) = Len(s.evs) + 1
      /\ \A d \in 1..Len(s.evs) : t.evs[d] = s.evs[d]
      /\ t.evs[Len(s.evs) + 1] = n
  BY <1>1, <1>2, SeqAppended
<1>4. Shape(t)
  <2>1. \A k \in 1..Len(s.pls) : LevelOK(s.pls[k], Len(s.ops), Len(t.evs), Len(s.scopes))
    BY <1>2, <1>3, LevelGrows DEF Shape
  <2>2. \A o \in 1..Len(s.ops) : OpOK(s.ops[o], Len(s.ops), Len(t.evs))
    BY <1>2, <1>3, OpGrows DEF Shape
  <2>3. \A e \in 1..Len(t.evs) : DOMAIN t.evs[e] = EvFields
    BY <1>2, <1>3, SMTT(30) DEF Shape
  <2>4. s.ev \in 0..Len(t.evs) /\ s.first_ev \in 0..Len(t.evs)
    BY <1>2, <1>3 DEF Shape
  <2>5. QED
    BY <1>1, <1>3, <2>1, <2>2, <2>3, <2>4 DEF Shape, EventsOnly
<1>5. QED
  BY <1>1, <1>2, <1>3, <1>4

\* What is put in place of an event has the fields of one.
EventFits(s, e, n) == e \in 1..Len(s.evs) => DOMAIN n = EvFields

\* Changing an event leaves the others as they are.
LEMMA EventSet ==
  ASSUME NEW s, NEW e, NEW n, NEW t, Shape(s), EventFits(s, e, n),
         t = WithEvs(s, Put(s.evs, e, n))
  PROVE  /\ Shape(t) /\ EventsOnly(s, t)
         /\ t.first_ev = s.first_ev /\ t.ev = s.ev
         /\ Len(t.evs) = Len(s.evs)
         /\ \A d \in 1..Len(s.evs) : d # e => t.evs[d] = s.evs[d]
         /\ e \in 1..Len(s.evs) => t.evs[e] = n
<1>1. /\ DOMAIN t = ParserFields /\ EventsOnly(s, t)
      /\ t.first_ev = s.first_ev /\ t.ev = s.ev
      /\ t.evs = Put(s.evs, e, n)
  BY DEF Shape, ParserFields, WithEvs, EventsOnly
<1>2. /\ IsSeq(t.evs) /\ Len(t.evs) = Len(s.evs)
      /\ \A d \in 1..Len(s.evs) : d # e => t.evs[d] = s.evs[d]
      /\ e \in 1..Len(s.evs) => t.evs[e] = n
  <2>1. IsSeq(s.evs)
    BY DEF Shape
  <2>2. QED
    BY <1>1, <2>1, SeqPatched
<1>3. \A d \in 1..Len(s.evs) : DOMAIN t.evs[d] = EvFields
  BY <1>2 DEF Shape, EventFits
<1>4. Shape(t)
  BY <1>1, <1>2, <1>3 DEF Shape, EventsOnly
<1>5. QED
  BY <1>1, <1>2, <1>4

\* Event e comes after another.
FollowedBy(s, from, e) == [s EXCEPT !.evs[from].next = e]

\* Event e is the first composite of another.
CompositeOf(s, of, e) == [s EXCEPT !.evs[of].composite = e]

\* Event `from' is followed by event e.
LEMMA EventFollows ==
  ASSUME NEW s, Shape(s), NEW from, NEW e
  PROVE  LET t == FollowedBy(s, from, e)
         IN  /\ Shape(t) /\ EventsOnly(s, t)
             /\ t.first_ev = s.first_ev /\ t.ev = s.ev
             /\ Len(t.evs) = Len(s.evs)
             /\ \A d \in 1..Len(s.evs) : /\ t.evs[d].dur = s.evs[d].dur
                                         /\ t.evs[d].next = IF d = from THEN e ELSE s.evs[d].next
<1> DEFINE n == [s.evs[from] EXCEPT !.next = e]
           t == WithEvs(s, Put(s.evs, from, n))
<1>1. FollowedBy(s, from, e) = t
  BY DEF WithEvs, Put, FollowedBy
<1>2. from \in 1..Len(s.evs) =>
        DOMAIN n = EvFields /\ n.next = e /\ n.dur = s.evs[from].dur
  BY DEF Shape, EvFields
<1> HIDE DEF n
<1>0. t = WithEvs(s, Put(s.evs, from, n))
  OBVIOUS
<1> HIDE DEF t
<1>3. /\ Shape(t) /\ EventsOnly(s, t)
      /\ t.first_ev = s.first_ev /\ t.ev = s.ev
      /\ Len(t.evs) = Len(s.evs)
      /\ \A d \in 1..Len(s.evs) : d # from => t.evs[d] = s.evs[d]
      /\ from \in 1..Len(s.evs) => t.evs[from] = n
  <2>1. EventFits(s, from, n)
    BY <1>2 DEF EventFits
  <2>2. QED
    BY <1>0, <2>1, EventSet
<1>4. \A d \in 1..Len(s.evs) : /\ t.evs[d].dur = s.evs[d].dur
                               /\ t.evs[d].next = IF d = from THEN e ELSE s.evs[d].next
  BY <1>2, <1>3
<1>5. QED
  BY <1>1, <1>3, <1>4

\* A first composite changes no links of the main list.
LEMMA EventHasComposite ==
  ASSUME NEW s, Shape(s), NEW of, NEW e
  PROVE  LET t == CompositeOf(s, of, e)
         IN  /\ Shape(t) /\ EventsOnly(s, t)
             /\ t.first_ev = s.first_ev /\ t.ev = s.ev
             /\ Len(t.evs) = Len(s.evs)
             /\ \A d \in 1..Len(s.evs) : t.evs[d].dur = s.evs[d].dur
                                         /\ t.evs[d].next = s.evs[d].next
<1> DEFINE n == [s.evs[of] EXCEPT !.composite = e]
           t == WithEvs(s, Put(s.evs, of, n))
<1>1. CompositeOf(s, of, e) = t
  BY DEF WithEvs, Put, CompositeOf
<1>2. of \in 1..Len(s.evs) =>
        DOMAIN n = EvFields /\ n.next = s.evs[of].next /\ n.dur = s.evs[of].dur
  BY DEF Shape, EvFields
<1> HIDE DEF n
<1>0. t = WithEvs(s, Put(s.evs, of, n))
  OBVIOUS
<1> HIDE DEF t
<1>3. /\ Shape(t) /\ EventsOnly(s, t)
      /\ t.first_ev = s.first_ev /\ t.ev = s.ev
      /\ Len(t.evs) = Len(s.evs)
      /\ \A d \in 1..Len(s.evs) : d # of => t.evs[d] = s.evs[d]
      /\ of \in 1..Len(s.evs) => t.evs[of] = n
  <2>1. EventFits(s, of, n)
    BY <1>2 DEF EventFits
  <2>2. QED
    BY <1>0, <2>1, EventSet
<1>4. \A d \in 1..Len(s.evs) : t.evs[d].dur = s.evs[d].dur /\ t.evs[d].next = s.evs[d].next
  BY <1>2, <1>3
<1>5. QED
  BY <1>1, <1>3, <1>4

\* What an event has, but for its links, is changed.
LEMMA EventMarked ==
  ASSUME NEW s, NEW e, NEW n, NEW t, Shape(s),
         EventFits(s, e, n), n.next = s.evs[e].next, n.dur = s.evs[e].dur,
         t = WithEvs(s, Put(s.evs, e, n))
  PROVE  Shape(t) /\ EventsOnly(s, t) /\ SameLinks(s, t)
<1>1. /\ Shape(t) /\ EventsOnly(s, t)
      /\ t.first_ev = s.first_ev /\ t.ev = s.ev
      /\ Len(t.evs) = Len(s.evs)
      /\ \A d \in 1..Len(s.evs) : d # e => t.evs[d] = s.evs[d]
      /\ e \in 1..Len(s.evs) => t.evs[e] = n
  BY EventSet
<1>2. QED
  BY <1>1 DEF SameLinks

\* Changing events leaves nodes, lists and levels.
LEMMA OnlyEvents ==
  ASSUME NEW s, NEW t, EventsOnly(s, t)
  PROVE  SameNodes(s, t) /\ SameOuter(s, t) /\ Level(t) = Level(s)
BY DEF EventsOnly, SameNodes, SameOp, SameOuter, Level

\* The event before that a new one follows, if any, and what that makes of
\* the level's composite.
Before(s, composite) ==
    IF ~composite THEN s.ev
    ELSE IF Level(s).op_prev # 0 /\ Level(s).composite # 0
    THEN s.ops[Level(s).op_prev].event ELSE 0

CompositeAfter(s, composite) ==
    IF ~composite THEN 0
    ELSE IF Level(s).op_prev # 0 /\ Level(s).composite = 0
    THEN s.ops[Level(s).op_prev].event ELSE Level(s).composite

\* The events after e is linked in, among them or for a composite.
Linked1(s, e, composite, t) ==
    /\ Len(t.evs) = Len(s.evs)
    /\ \A d \in 1..Len(s.evs) :
          /\ t.evs[d].dur = s.evs[d].dur
          /\ t.evs[d].next = IF d = Before(s, composite) THEN e ELSE s.evs[d].next
    /\ t.ev = (IF composite THEN s.ev ELSE e)
    /\ t.first_ev = (IF ~composite /\ s.ev = 0 THEN e ELSE s.first_ev)
    /\ t.durs = s.durs

\* A level where nothing but the event for composites has changed.
SameButComposite(pl, ql, composite) ==
    /\ \A f \in LevelFields \ {"composite"} : ql[f] = pl[f]
    /\ ql.composite = composite

\* A new event is linked in after the last of the main list, or as a composite.
LEMMA EventLinked ==
  ASSUME NEW s, Shape(s), s.pls # <<>>, NEW e \in 1..Len(s.evs), NEW composite \in BOOLEAN
  PROVE  LET t == LinkEvent(s, e, composite)
         IN  /\ Shape(t) /\ SameNodes(s, t) /\ SameOuter(s, t) /\ t.pls # <<>>
             /\ Linked1(s, e, composite, t)
             /\ SameButComposite(Level(s), Level(t), CompositeAfter(s, composite))
<1> DEFINE t == LinkEvent(s, e, composite)
           pl == Level(s)
           pope == s.ops[pl.op_prev].event
           ql == [pl EXCEPT !.composite = CompositeAfter(s, composite)]
<1>1. /\ LevelHere(s, pl) /\ Len(s.evs) \in Nat
  BY LastLevel, SeqFacts, Zenon DEF Shape
<1>2. LevelHere(s, ql)
  BY <1>1 DEF LevelHere, LevelOK, LevelFields
<1>3. SameButComposite(pl, pl, pl.composite)
      /\ SameButComposite(pl, ql, CompositeAfter(s, composite))
  BY <1>1 DEF SameButComposite, LevelHere, LevelOK, LevelFields
<1>4. CASE composite /\ pl.op_prev = 0
  <2>1. t = s
    BY <1>4 DEF LinkEvent
  <2>2. CompositeAfter(s, composite) = pl.composite /\ Before(s, composite) = 0
    BY <1>4 DEF CompositeAfter, Before
  <2>3. Linked1(s, e, composite, s)
    <3>1. \A d \in 1..Len(s.evs) : d # Before(s, composite)
      BY <1>1, <2>2
    <3>2. composite
      BY <1>4
    <3>3. QED
      BY <3>1, <3>2, Zenon DEF Linked1
  <2>4. SameNodes(s, s) /\ SameOuter(s, s)
    BY DEF SameNodes, SameOp, SameOuter
  <2>5. QED
    BY <2>1, <2>2, <2>3, <2>4, <1>3
<1>5. CASE composite /\ pl.op_prev # 0 /\ pl.composite = 0
  <2> DEFINE u == CompositeOf(s, pope, e)
  <2>1. t = SetLevel(u, [Level(s) EXCEPT !.composite = pope])
    BY <1>5 DEF LinkEvent, LinkComposite, CompositeOf
  <2>2. CompositeAfter(s, composite) = pope /\ Before(s, composite) = 0
    BY <1>5 DEF CompositeAfter, Before
  <2>3. /\ Shape(u) /\ EventsOnly(s, u)
        /\ u.first_ev = s.first_ev /\ u.ev = s.ev
        /\ Len(u.evs) = Len(s.evs)
        /\ \A d \in 1..Len(s.evs) : u.evs[d].dur = s.evs[d].dur
                                    /\ u.evs[d].next = s.evs[d].next
    BY EventHasComposite
  <2> HIDE DEF u
  <2>4. LevelHere(u, ql) /\ u.pls # <<>>
    BY <1>2, <2>3 DEF LevelHere, EventsOnly
  <2>5. t = SetLevel(u, ql)
    BY <2>1, <2>2
  <2> HIDE DEF ql, t, pope
  <2>6. /\ Shape(t) /\ SameNodes(u, t) /\ SameEvents(u, t) /\ SameOuter(u, t)
        /\ t.pls # <<>> /\ Level(t) = ql
    BY <2>3, <2>4, <2>5, SetLevelShape
  <2>7. SameNodes(s, t) /\ SameOuter(s, t)
    BY <2>3, <2>6 DEF EventsOnly, SameNodes, SameOp, SameOuter
  <2>8. Linked1(s, e, composite, t)
    <3>1. \A d \in 1..Len(s.evs) : d # Before(s, composite)
      BY <1>1, <2>2
    <3>2. composite
      BY <1>5
    <3>3. QED
      BY <3>1, <3>2, <2>3, <2>6, Zenon DEF Linked1, SameEvents, EventsOnly
  <2>9. QED
    BY <1>3, <2>6, <2>7, <2>8 DEF ql, t
<1>6. CASE composite /\ pl.op_prev # 0 /\ pl.composite # 0
  <2>1. t = FollowedBy(s, pope, e)
    BY <1>6 DEF LinkEvent, LinkComposite, FollowedBy
  <2>2. CompositeAfter(s, composite) = pl.composite /\ Before(s, composite) = pope
    BY <1>6 DEF CompositeAfter, Before
  <2>3. /\ Shape(t) /\ EventsOnly(s, t)
        /\ t.first_ev = s.first_ev /\ t.ev = s.ev
        /\ Len(t.evs) = Len(s.evs)
        /\ \A d \in 1..Len(s.evs) : /\ t.evs[d].dur = s.evs[d].dur
                                    /\ t.evs[d].next = IF d = pope THEN e ELSE s.evs[d].next
    BY <2>1, EventFollows, SMTT(30)
  <2> HIDE DEF t, pope
  <2>4. SameNodes(s, t) /\ SameOuter(s, t) /\ Level(t) = pl /\ t.pls # <<>>
    BY <2>3, OnlyEvents DEF EventsOnly
  <2>5. Linked1(s, e, composite, t)
    BY <1>6, <2>2, <2>3, Zenon DEF Linked1, EventsOnly
  <2>6. QED
    BY <1>3, <2>2, <2>3, <2>4, <2>5 DEF t
<1>7. CASE ~composite
  <2> DEFINE u == IF s.ev = 0 THEN [s EXCEPT !.first_ev = e, !.ev = e]
                  ELSE [s EXCEPT !.evs[s.ev].next = e, !.ev = e]
             v == FollowedBy(s, s.ev, e)
  <2>1. t = SetLevel(u, [Level(s) EXCEPT !.composite = 0])
    BY <1>7 DEF LinkEvent
  <2>2. CompositeAfter(s, composite) = 0 /\ Before(s, composite) = s.ev
    BY <1>7 DEF CompositeAfter, Before
  <2>3. /\ Shape(u) /\ EventsOnly(s, u) /\ Linked1(s, e, composite, u)
    <3>1. CASE s.ev = 0
      <4>1. /\ DOMAIN u = ParserFields /\ EventsOnly(s, u) /\ u.evs = s.evs
            /\ u.first_ev = e /\ u.ev = e
        BY <3>1 DEF Shape, ParserFields, EventsOnly
      <4> HIDE DEF u
      <4>2. Shape(u)
        BY <4>1, <1>1 DEF Shape, EventsOnly
      <4>3. Linked1(s, e, composite, u)
        BY <4>1, <3>1, <1>7, <2>2 DEF Linked1, EventsOnly
      <4>4. QED
        BY <4>1, <4>2, <4>3
    <3>2. CASE s.ev # 0
      <4>1. /\ Shape(v) /\ EventsOnly(s, v)
            /\ v.first_ev = s.first_ev
            /\ Len(v.evs) = Len(s.evs)
            /\ \A d \in 1..Len(s.evs) :
                  /\ v.evs[d].dur = s.evs[d].dur
                  /\ v.evs[d].next = IF d = s.ev THEN e ELSE s.evs[d].next
        BY EventFollows
      <4>2. u = [v EXCEPT !.ev = e]
        BY <3>2 DEF Shape, ParserFields, FollowedBy
      <4> HIDE DEF u, v
      <4>3. /\ DOMAIN u = ParserFields /\ EventsOnly(v, u) /\ u.evs = v.evs
            /\ u.first_ev = v.first_ev /\ u.ev = e
        BY <4>1, <4>2 DEF Shape, ParserFields, EventsOnly
      <4>4. Shape(u)
        BY <4>1, <4>3, <1>1 DEF Shape, EventsOnly
      <4>5. EventsOnly(s, u)
        BY <4>1, <4>3 DEF EventsOnly
      <4>6. Linked1(s, e, composite, u)
        BY <4>1, <4>3, <3>2, <1>7, <2>2 DEF Linked1, EventsOnly
      <4>7. QED
        BY <4>4, <4>5, <4>6
    <3>3. QED
      BY <3>1, <3>2
  <2> HIDE DEF u
  <2>4. LevelHere(u, ql) /\ u.pls # <<>>
    BY <1>2, <2>3 DEF LevelHere, EventsOnly, Linked1
  <2>5. t = SetLevel(u, ql)
    BY <2>1, <2>2
  <2> HIDE DEF ql, t
  <2>6. /\ Shape(t) /\ SameNodes(u, t) /\ SameEvents(u, t) /\ SameOuter(u, t)
        /\ t.pls # <<>> /\ Level(t) = ql
    BY <2>3, <2>4, <2>5, SetLevelShape
  <2>7. SameNodes(s, t) /\ SameOuter(s, t)
    BY <2>3, <2>6 DEF EventsOnly, SameNodes, SameOp, SameOuter
  <2>8. Linked1(s, e, composite, t)
    BY <2>3, <2>6 DEF Linked1, SameEvents, EventsOnly
  <2>9. QED
    BY <1>3, <2>6, <2>7, <2>8 DEF ql, t
<1>8. QED
  BY <1>4, <1>5, <1>6, <1>7

\* Where a new event is put among those there are.
Begun(s, composite, t) ==
    LET e == Len(s.evs) + 1
    IN  /\ Len(t.evs) = e
        /\ \A d \in 1..Len(s.evs) :
              /\ t.evs[d].dur = s.evs[d].dur
              /\ t.evs[d].next = IF d = Before(s, composite) THEN e ELSE s.evs[d].next
        /\ t.evs[e].dur = Len(s.durs) /\ t.evs[e].next = 0
        /\ t.ev = (IF composite THEN s.ev ELSE e)
        /\ t.first_ev = (IF ~composite /\ s.ev = 0 THEN e ELSE s.first_ev)
        /\ t.durs = end_event(s).durs
        /\ Level(t).active_ev = TRUE /\ Level(t).event = e
        /\ Level(t).composite = CompositeAfter(s, composite)

\* The call that a level is in is the same.
SameLocals(pl, ql) ==
    /\ pl.scope = ql.scope /\ pl.op_scope = ql.op_scope /\ pl.parent_op = ql.parent_op
    /\ pl.sub_f = ql.sub_f /\ pl.local = ql.local /\ pl.op_prev = ql.op_prev
    /\ pl.set_label = ql.set_label

\* begin_event ends the event before and links in a new one, in the last group.
LEMMA BeginEvent ==
  ASSUME NEW s, Shape(s), s.pls # <<>>, NEW composite \in BOOLEAN
  PROVE  LET t == begin_event(s, composite)
         IN  /\ Shape(t) /\ SameNodes(s, t) /\ SameOuter(s, t) /\ t.pls # <<>>
             /\ SameLocals(Level(s), Level(t))
             /\ Begun(s, composite, t)
<1> DEFINE ended  == end_event(s)
           e      == Len(s.evs) + 1
           n      == [next |-> 0, composite |-> 0, dur |-> Len(s.durs), op |-> 0,
                      wait |-> Level(s).next_wait, add_wait |-> FALSE]
           made   == WithEvs(ended, Append(ended.evs, n))
           linked == LinkEvent(made, e, composite)
           ql     == [Level(linked) EXCEPT !.event = e, !.next_wait = 0, !.active_ev = TRUE]
           t      == begin_event(s, composite)
<1>1. t = SetLevel(linked, ql)
  BY DEF begin_event, WithEvs
<1>2. /\ Shape(ended) /\ SameNodes(s, ended) /\ SameOuter(s, ended)
      /\ SameLinks(s, ended)
      /\ ended.pls # <<>>
      /\ SameCall(Level(s), Level(ended))
  BY EndEvent
<1>3. DOMAIN n = EvFields /\ n.next = 0 /\ n.dur = Len(s.durs)
  BY DEF EvFields
<1>4. made = WithEvs(ended, Append(ended.evs, n))
  OBVIOUS
<1> HIDE DEF ended, n
<1>5. Len(s.evs) \in Nat /\ Len(ended.evs) = Len(s.evs)
  BY <1>2, SeqFacts DEF Shape, SameLinks
<1> HIDE DEF made
<1>6. /\ Shape(made) /\ EventsOnly(ended, made)
      /\ made.first_ev = ended.first_ev /\ made.ev = ended.ev
      /\ Len(made.evs) = e
      /\ \A d \in 1..Len(ended.evs) : made.evs[d] = ended.evs[d]
      /\ made.evs[e] = n
  BY <1>2, <1>3, <1>4, <1>5, EventAdded, SMTT(30)
<1>7. /\ SameNodes(ended, made) /\ SameOuter(ended, made) /\ Level(made) = Level(ended)
      /\ made.pls # <<>>
  BY <1>2, <1>6, OnlyEvents DEF EventsOnly
<1>8. e \in 1..Len(made.evs)
  BY <1>5, <1>6
<1> HIDE DEF linked
<1>9. /\ Shape(linked) /\ SameNodes(made, linked) /\ SameOuter(made, linked)
      /\ linked.pls # <<>>
      /\ Linked1(made, e, composite, linked)
      /\ SameButComposite(Level(made), Level(linked), CompositeAfter(made, composite))
  <2> HIDE DEF e
  <2>1. QED
    BY <1>6, <1>7, <1>8, EventLinked DEF linked
<1>10. /\ CompositeAfter(made, composite) = CompositeAfter(s, composite)
       /\ Before(made, composite) = Before(s, composite)
       /\ Before(s, composite) \in 0..Len(s.evs)
  <2>1. /\ Level(made).op_prev = Level(s).op_prev /\ Level(made).composite = Level(s).composite
        /\ made.ev = s.ev
    BY <1>2, <1>6, <1>7 DEF SameCall, SameLinks
  <2>2. Level(s).op_prev \in 0..Len(s.ops) /\ Len(s.ops) \in Nat
    BY LastLevel, SeqFacts, Zenon DEF LevelHere, LevelOK, Shape
  <2>3. \A o \in 1..Len(s.ops) : made.ops[o].event = s.ops[o].event
                                 /\ s.ops[o].event \in 0..Len(s.evs)
    BY <1>2, <1>6, SMTT(30) DEF SameNodes, SameOp, EventsOnly, Shape, OpOK
  <2>4. s.ev \in 0..Len(s.evs) /\ 0 \in 0..Len(s.evs)
    BY <1>5 DEF Shape
  <2>5. Level(s).op_prev # 0 => Level(s).op_prev \in 1..Len(s.ops)
    BY <2>2
  <2>6. QED
    BY <2>1, <2>3, <2>4, <2>5 DEF CompositeAfter, Before
<1>11. /\ LevelHere(linked, Level(linked))
       /\ Len(linked.evs) = e
  BY <1>6, <1>9, LastLevel DEF Linked1
<1>12. /\ LevelHere(linked, ql) /\ SameLocals(Level(linked), ql)
       /\ ql.composite = Level(linked).composite /\ ql.event = e /\ ql.active_ev = TRUE
  BY <1>5, <1>11 DEF LevelHere, LevelOK, LevelFields, SameLocals
<1> HIDE DEF ql, t
<1>13. /\ Shape(t) /\ SameNodes(linked, t) /\ SameEvents(linked, t) /\ SameOuter(linked, t)
       /\ t.pls # <<>> /\ Level(t) = ql
  BY <1>1, <1>9, <1>12, SetLevelShape
<1>14. SameNodes(s, t)
  BY <1>2, <1>7, <1>9, <1>13 DEF SameNodes, SameOp
<1>15. SameOuter(s, t)
  BY <1>2, <1>7, <1>9, <1>13 DEF SameOuter
<1>16. SameLocals(Level(s), Level(t))
  <2>1. SameLocals(Level(s), Level(made))
    BY <1>2, <1>7 DEF SameCall, SameLocals
  <2>2. SameLocals(Level(made), Level(linked))
    BY <1>9 DEF SameButComposite, SameLocals, LevelFields
  <2>3. QED
    BY <2>1, <2>2, <1>12, <1>13 DEF SameLocals
<1>17. Begun(s, composite, t)
  <2>1. /\ Len(t.evs) = e
        /\ \A d \in 1..e : t.evs[d].dur = linked.evs[d].dur
                           /\ t.evs[d].next = linked.evs[d].next
        /\ t.first_ev = linked.first_ev /\ t.ev = linked.ev /\ t.durs = linked.durs
    BY <1>11, <1>13 DEF SameEvents
  <2>2. /\ \A d \in 1..e :
              /\ linked.evs[d].dur = made.evs[d].dur
              /\ linked.evs[d].next = IF d = Before(s, composite) THEN e ELSE made.evs[d].next
        /\ linked.ev = (IF composite THEN made.ev ELSE e)
        /\ linked.first_ev = (IF ~composite /\ made.ev = 0 THEN e ELSE made.first_ev)
        /\ linked.durs = made.durs
    BY <1>6, <1>9, <1>10 DEF Linked1
  <2>3. /\ \A d \in 1..Len(s.evs) : made.evs[d].dur = s.evs[d].dur
                                    /\ made.evs[d].next = s.evs[d].next
        /\ made.evs[e].dur = Len(s.durs) /\ made.evs[e].next = 0
        /\ made.ev = s.ev /\ made.first_ev = s.first_ev /\ made.durs = ended.durs
    BY <1>2, <1>3, <1>5, <1>6 DEF SameLinks, EventsOnly
  <2>4. 1..Len(s.evs) \subseteq 1..e /\ e \in 1..e /\ e # Before(s, composite)
    BY <1>5, <1>10
  <2>5. /\ Level(t).active_ev = TRUE /\ Level(t).event = e
        /\ Level(t).composite = CompositeAfter(s, composite)
    BY <1>9, <1>10, <1>12, <1>13 DEF SameButComposite
  <2>6. t.durs = end_event(s).durs
    BY <2>1, <2>2, <2>3 DEF ended
  <2>7. /\ \A d \in 1..Len(s.evs) :
              /\ t.evs[d].dur = s.evs[d].dur
              /\ t.evs[d].next = IF d = Before(s, composite) THEN e ELSE s.evs[d].next
        /\ t.evs[e].dur = Len(s.durs) /\ t.evs[e].next = 0
    BY <2>1, <2>2, <2>3, <2>4, SMTT(30)
  <2>8. /\ t.ev = (IF composite THEN s.ev ELSE e)
        /\ t.first_ev = (IF ~composite /\ s.ev = 0 THEN e ELSE s.first_ev)
    BY <2>1, <2>2, <2>3
  <2>9. QED
    BY <2>1, <2>5, <2>6, <2>7, <2>8 DEF Begun
<1>18. QED
  BY <1>13, <1>14, <1>15, <1>16, <1>17 DEF t

-----------------------------------------------------------------------------
(* A new operator node. *)

\* The same but for the operator nodes.
OpsOnly(s, t) ==
    /\ t.pls = s.pls /\ t.evs = s.evs /\ t.scopes = s.scopes /\ t.durs = s.durs
    /\ t.first_ev = s.first_ev /\ t.ev = s.ev /\ t.label = s.label

\* A node with links to what there is, itself included.
NodeFits(s, n) == OpOK(n, Len(s.ops) + 1, Len(s.evs))

\* A new node leaves the others as they are.
LEMMA OpAdded ==
  ASSUME NEW s, NEW n, NEW t, Shape(s), NodeFits(s, n),
         t = WithOps(s, Append(s.ops, n))
  PROVE  /\ Shape(t) /\ OpsOnly(s, t)
         /\ Len(s.ops) \in Nat
         /\ Len(t.ops) = Len(s.ops) + 1
         /\ \A o \in 1..Len(s.ops) : t.ops[o] = s.ops[o]
         /\ t.ops[Len(s.ops) + 1] = n
<1>1. /\ DOMAIN t = ParserFields /\ OpsOnly(s, t)
      /\ t.ops = Append(s.ops, n)
  BY DEF Shape, ParserFields, WithOps, OpsOnly
<1>2. IsSeq(s.ops) /\ Len(s.ops) \in Nat /\ Len(s.evs) \in Nat /\ Len(s.scopes) \in Nat
  BY SeqFacts DEF Shape
<1>3. /\ IsSeq(t.ops) /\ Len(t.ops) = Len(s.ops) + 1
      /\ \A o \in 1..Len(s.ops) : t.ops[o] = s.ops[o]
      /\ t.ops[Len(s.ops) + 1] = n
  BY <1>1, <1>2, SeqAppended
<1>4. Shape(t)
  <2>1. \A k \in 1..Len(s.pls) : LevelOK(s.pls[k], Len(t.ops), Len(s.evs), Len(s.scopes))
    BY <1>2, <1>3, LevelGrows DEF Shape
  <2>2. \A o \in 1..Len(s.ops) : OpOK(s.ops[o], Len(t.ops), Len(s.evs))
    BY <1>2, <1>3, OpGrows DEF Shape
  <2>3. \A o \in 1..Len(t.ops) : OpOK(t.ops[o], Len(t.ops), Len(s.evs))
    <3> SUFFICES ASSUME NEW o \in 1..Len(t.ops)
                 PROVE  OpOK(t.ops[o], Len(t.ops), Len(s.evs))
      OBVIOUS
    <3>1. o \in 1..Len(s.ops) \/ o = Len(s.ops) + 1
      BY <1>2, <1>3
    <3>2. QED
      BY <1>3, <2>2, <3>1 DEF NodeFits
  <2>4. s.label \in [Labels -> 0..Len(t.ops)]
    <3>1. 0..Len(s.ops) \subseteq 0..Len(t.ops)
      BY <1>2, <1>3
    <3>2. s.label \in [Labels -> 0..Len(s.ops)]
      BY DEF Shape
    <3>3. QED
      BY <3>1, <3>2
  <2>5. QED
    BY <1>1, <1>3, <2>1, <2>3, <2>4 DEF Shape, OpsOnly
<1>5. QED
  BY <1>1, <1>2, <1>3, <1>4

\* An operator is appended to a list.
Listed(s, l, o) == [s EXCEPT !.scopes[l] = Append(@, o)]

\* A list with one node more.
LEMMA ListGrows ==
  ASSUME NEW s, NEW l \in 1..Len(s.scopes), NEW o, Shape(s)
  PROVE  LET t == Listed(s, l, o)
         IN  /\ Shape(t)
             /\ t.scopes = Put(s.scopes, l, Append(s.scopes[l], o))
             /\ t.ops = s.ops /\ t.pls = s.pls /\ SameEvents(s, t)
<1> DEFINE t == Listed(s, l, o)
<1>1. /\ DOMAIN t = ParserFields
      /\ t.scopes = Put(s.scopes, l, Append(s.scopes[l], o))
      /\ t.ops = s.ops /\ t.pls = s.pls /\ t.evs = s.evs /\ t.durs = s.durs
      /\ t.first_ev = s.first_ev /\ t.ev = s.ev /\ t.label = s.label
  BY DEF Listed, Put, Shape, ParserFields
<1> HIDE DEF t
<1>2. IsSeq(Append(s.scopes[l], o))
  BY SeqAppended DEF Shape
<1>3. /\ IsSeq(t.scopes) /\ Len(t.scopes) = Len(s.scopes)
      /\ \A m \in 1..Len(s.scopes) : IsSeq(t.scopes[m])
  <2>1. IsSeq(s.scopes) /\ \A m \in 1..Len(s.scopes) : IsSeq(s.scopes[m])
    BY DEF Shape
  <2> DEFINE x == Append(s.scopes[l], o)
  <2>2. IsSeq(x)
    BY <1>2
  <2>3. t.scopes = Put(s.scopes, l, x)
    BY <1>1
  <2> HIDE DEF x
  <2>4. /\ IsSeq(t.scopes) /\ Len(t.scopes) = Len(s.scopes)
        /\ \A m \in 1..Len(s.scopes) : m # l => t.scopes[m] = s.scopes[m]
        /\ l \in 1..Len(s.scopes) => t.scopes[l] = x
    BY <2>1, <2>3, SeqPatched
  <2>5. QED
    BY <2>1, <2>2, <2>4
<1>4. Shape(t)
  BY <1>1, <1>3 DEF Shape
<1>5. SameEvents(s, t)
  BY <1>1 DEF SameEvents
<1>6. QED
  BY <1>1, <1>4, <1>5 DEF t

\* The node made, at the event and with the parent that the level has.
NewOp(s, t) ==
    LET o == Len(s.ops) + 1
        l == Level(s).op_scope
        listed == Level(s).op_prev = 0 /\ l # 0
    IN  /\ Len(t.ops) = o
        /\ \A k \in 1..Len(s.ops) : SameOp(s.ops[k], t.ops[k])
        /\ t.ops[o].prev = Level(s).op_prev /\ t.ops[o].scopes = <<>>
        /\ t.ops[o].event = Level(s).event
        /\ t.ops[o].prev = 0 => (t.ops[o].nested <=> l # 0)
        /\ t.scopes = (IF listed THEN Put(s.scopes, l, Append(s.scopes[l], o)) ELSE s.scopes)
        /\ Level(t).operator = o

\* The node that begin_operator makes; what it takes over is told from the state before
\* the one before it ended.
NodeOf(s, composite, old) ==
    LET pl    == Level(s)
        pop   == pl.op_prev
        blank  == [event |-> pl.event, prev |-> pop, scopes |-> <<>>, has_composite |-> FALSE,
                   at |-> Len(text) + 1, time |-> old.sopt.def_time, linked |-> FALSE,
                   silence |-> 0, silence_added |-> FALSE, sets_time |-> FALSE,
                   sets_silence |-> FALSE,
                   root   |-> IF pl.parent_op = 0 THEN pl.event ELSE old.ops[pl.parent_op].event,
                   nested |-> pl.op_scope # 0, set |-> FALSE, label |-> pl.set_label,
                   amp    |-> [NoRamp EXCEPT !.v0 = 1, !.state = TRUE]]
    IN  IF pop = 0 THEN blank
        ELSE [blank EXCEPT !.root = old.ops[pop].root, !.nested = old.ops[pop].nested,
                           !.set = ~composite, !.amp = NoRamp,
                           !.label = IF @ # None THEN @ ELSE IF composite THEN None
                                     ELSE old.ops[pop].label]

\* The node before is told that it has a composite.
Marked(s, pop, composite) ==
    IF pop # 0 /\ composite THEN [s EXCEPT !.ops[pop].has_composite = TRUE] ELSE s

\* The event has the node.
HeldBy(s, e, o) == [s EXCEPT !.evs[e].op = o]

\* The node is put in the list of the level or in the event.
Placed(s, l, pop, e, o) ==
    IF pop = 0 /\ l # 0 THEN Listed(s, l, o) ELSE HeldBy(s, e, o)

\* The label is for the new node from now on.
Named(s, label, o) == IF label = None THEN s ELSE [s EXCEPT !.label[label] = o]

\* begin_operator, in the steps that are taken one by one below.
LEMMA BeginOperatorIs ==
  ASSUME NEW s, NEW composite
  PROVE  LET ended == end_operator(s)
             pl    == Level(ended)
             o     == Len(s.ops) + 1
             node  == NodeOf(ended, composite, s)
             added == WithOps(ended, Append(ended.ops, node))
             named == Named(Placed(Marked(added, pl.op_prev, composite),
                                   pl.op_scope, pl.op_prev, pl.event, o), node.label, o)
         IN  begin_operator(s, composite) =
                SetLevel(named, [pl EXCEPT !.operator = o, !.active_op = TRUE,
                                           !.set_label = None])
BY Zenon DEF begin_operator, NodeOf, WithOps, Marked, Placed, Named, Listed,
   HeldBy

\* The new node has good links, and is a modulator just when the level has a list.
LEMMA NodeMade ==
  ASSUME NEW s, Shape(s), s.pls # <<>>, NEW composite \in BOOLEAN, NEW old,
         \A o \in 1..Len(s.ops) : /\ old.ops[o].nested \in BOOLEAN
                                  /\ old.ops[o].label \in Labels \cup {None}
  PROVE  LET n == NodeOf(s, composite, old)
         IN  /\ OpOK(n, Len(s.ops) + 1, Len(s.evs))
             /\ n.prev = Level(s).op_prev /\ n.scopes = <<>> /\ n.event = Level(s).event
             /\ n.prev = 0 => (n.nested <=> Level(s).op_scope # 0)
<1> DEFINE pl == Level(s)
           pop == pl.op_prev
           n == NodeOf(s, composite, old)
<1>1. LevelHere(s, pl) /\ Len(s.ops) \in Nat /\ Len(s.evs) \in Nat
  BY LastLevel, SeqFacts, Zenon DEF Shape
<1>2. /\ pop \in 0..(Len(s.ops) + 1) /\ pl.event \in 0..Len(s.evs)
      /\ pl.set_label \in Labels \cup {None} /\ (pop # 0 => pop \in 1..Len(s.ops))
  <2>1. /\ pop \in 0..Len(s.ops) /\ pl.event \in 0..Len(s.evs)
        /\ pl.set_label \in Labels \cup {None}
    BY <1>1 DEF LevelHere, LevelOK
  <2> HIDE DEF pop, pl
  <2>2. QED
    BY <1>1, <2>1
<1>3. IsSeq(<<>>)
  <2>1. <<>> \in Seq({})
    OBVIOUS
  <2>2. QED
    BY <2>1, SeqKnown, Zenon
<1>4. CASE pop = 0
  <2> HIDE DEF pl
  <2>1. /\ DOMAIN n = OpFields
        /\ n.prev = pop /\ n.scopes = <<>> /\ n.event = pl.event
        /\ n.nested = (pl.op_scope # 0) /\ n.label = pl.set_label
    BY <1>4 DEF NodeOf, OpFields, pl
  <2> HIDE DEF n
  <2>2. QED
    BY <1>2, <1>3, <1>4, <2>1, Zenon DEF OpOK, n, pl
<1>5. CASE pop # 0
  <2> HIDE DEF pl
  <2>1. /\ DOMAIN n = OpFields
        /\ n.prev = pop /\ n.scopes = <<>> /\ n.event = pl.event
        /\ n.nested = old.ops[pop].nested
        /\ n.label = IF pl.set_label # None THEN pl.set_label
                     ELSE IF composite THEN None ELSE old.ops[pop].label
    BY <1>5 DEF NodeOf, OpFields, pl
  <2>2. old.ops[pop].nested \in BOOLEAN /\ old.ops[pop].label \in Labels \cup {None}
    BY <1>2, <1>5
  <2>3. n.label \in Labels \cup {None}
    BY <1>2, <2>1, <2>2
  <2> HIDE DEF n
  <2>4. QED
    BY <1>2, <1>3, <1>5, <2>1, <2>2, <2>3 DEF OpOK, n, pl
<1>6. QED
  BY <1>4, <1>5

\* Telling a node of a composite changes no links.
LEMMA MarkedKept ==
  ASSUME NEW s, Shape(s), NEW pop \in 0..Len(s.ops), NEW composite \in BOOLEAN
  PROVE  LET t == Marked(s, pop, composite)
         IN  /\ Shape(t) /\ t.pls = s.pls /\ SameNodes(s, t) /\ SameEvents(s, t)
<1> DEFINE t == Marked(s, pop, composite)
           n == [s.ops[pop] EXCEPT !.has_composite = TRUE]
<1>1. CASE pop # 0 /\ composite
  <2>1. t = WithOps(s, Put(s.ops, pop, n))
    BY <1>1 DEF Marked, WithOps, Put
  <2>2. pop \in 1..Len(s.ops)
    BY <1>1, SeqFacts DEF Shape
  <2>3. OpOK(s.ops[pop], Len(s.ops), Len(s.evs))
    BY <2>2 DEF Shape
  <2>4. OpOK(n, Len(s.ops), Len(s.evs)) /\ SameOp(s.ops[pop], n)
    BY <2>3 DEF OpOK, OpFields, SameOp
  <2> HIDE DEF n, t
  <2>5. Shape(t) /\ Quiet(s, t) /\ t.pls = s.pls
    BY <2>1, <2>2, <2>4, SetOpQuiet
  <2>6. QED
    BY <2>5 DEF Quiet, t
<1>2. CASE ~(pop # 0 /\ composite)
  <2>1. t = s
    BY <1>2 DEF Marked
  <2>2. SameNodes(s, s) /\ SameEvents(s, s)
    BY DEF SameNodes, SameOp, SameEvents
  <2>3. QED
    BY <2>1, <2>2
<1>3. QED
  BY <1>1, <1>2

\* An event's operator is no link of the events.
LEMMA OpOfEvent ==
  ASSUME NEW s, Shape(s), NEW e, NEW o
  PROVE  LET t == HeldBy(s, e, o)
         IN  Shape(t) /\ EventsOnly(s, t) /\ SameLinks(s, t)
<1> DEFINE n == [s.evs[e] EXCEPT !.op = o]
           t == WithEvs(s, Put(s.evs, e, n))
<1>1. HeldBy(s, e, o) = t
  BY DEF WithEvs, Put, HeldBy
<1>2. CASE e \in 1..Len(s.evs)
  <2>1. DOMAIN s.evs[e] = EvFields
    BY <1>2 DEF Shape
  <2>2. EventFits(s, e, n) /\ n.next = s.evs[e].next /\ n.dur = s.evs[e].dur
    BY <2>1 DEF EventFits, EvFields
  <2>3. t = WithEvs(s, Put(s.evs, e, n))
    OBVIOUS
  <2> HIDE DEF t, n
  <2>4. Shape(t) /\ EventsOnly(s, t) /\ SameLinks(s, t)
    BY <2>2, <2>3, EventMarked
  <2>5. QED
    BY <1>1, <2>4
<1>3. CASE e \notin 1..Len(s.evs)
  <2>1. EventFits(s, e, n)
    BY <1>3 DEF EventFits
  <2>2. t = WithEvs(s, Put(s.evs, e, n))
    OBVIOUS
  <2> HIDE DEF t, n
  <2>3. /\ Shape(t) /\ EventsOnly(s, t)
        /\ t.first_ev = s.first_ev /\ t.ev = s.ev
        /\ Len(t.evs) = Len(s.evs)
        /\ \A d \in 1..Len(s.evs) : d # e => t.evs[d] = s.evs[d]
        /\ e \in 1..Len(s.evs) => t.evs[e] = n
    BY <2>1, <2>2, EventSet
  <2>4. SameLinks(s, t)
    BY <1>3, <2>3 DEF SameLinks
  <2>5. QED
    BY <1>1, <2>3, <2>4
<1>4. QED
  BY <1>2, <1>3

\* A node is listed if it is new and the level has a list.
LEMMA PlacedIs ==
  ASSUME NEW s, Shape(s), NEW l \in 0..Len(s.scopes), NEW pop, NEW e, NEW o
  PROVE  LET t == Placed(s, l, pop, e, o)
         IN  /\ Shape(t) /\ t.pls = s.pls /\ t.ops = s.ops /\ SameEvents(s, t)
             /\ t.scopes = (IF pop = 0 /\ l # 0 THEN Put(s.scopes, l, Append(s.scopes[l], o))
                            ELSE s.scopes)
<1> DEFINE t == Placed(s, l, pop, e, o)
<1>1. CASE pop = 0 /\ l # 0
  <2>1. t = Listed(s, l, o)
    BY <1>1 DEF Placed
  <2>2. l \in 1..Len(s.scopes)
    BY <1>1, SeqFacts DEF Shape
  <2> HIDE DEF t
  <2>3. /\ Shape(t)
        /\ t.scopes = Put(s.scopes, l, Append(s.scopes[l], o))
        /\ t.ops = s.ops /\ t.pls = s.pls /\ SameEvents(s, t)
    BY <2>1, <2>2, ListGrows
  <2>4. QED
    BY <1>1, <2>3 DEF t
<1>2. CASE ~(pop = 0 /\ l # 0)
  <2>1. t = HeldBy(s, e, o)
    BY <1>2 DEF Placed
  <2>2. Shape(t) /\ EventsOnly(s, t) /\ SameLinks(s, t)
    BY <2>1, OpOfEvent
  <2> HIDE DEF t
  <2>3. t.pls = s.pls /\ t.ops = s.ops /\ t.scopes = s.scopes /\ SameEvents(s, t)
    BY <2>2 DEF EventsOnly, SameLinks, SameEvents
  <2>4. QED
    BY <1>2, <2>2, <2>3 DEF t
<1>3. QED
  BY <1>1, <1>2

\* Naming a node changes no links.
LEMMA NamedKept ==
  ASSUME NEW s, Shape(s), NEW label \in Labels \cup {None}, NEW o \in 0..Len(s.ops)
  PROVE  LET t == Named(s, label, o)
         IN  /\ Shape(t) /\ t.pls = s.pls /\ t.ops = s.ops /\ t.scopes = s.scopes
             /\ SameEvents(s, t)
<1> DEFINE t == Named(s, label, o)
<1>1. CASE label = None
  <2>1. t = s
    BY <1>1 DEF Named
  <2>2. QED
    BY <2>1 DEF SameEvents
<1>2. CASE label # None
  <2>1. t = [s EXCEPT !.label[label] = o]
    BY <1>2 DEF Named
  <2>2. /\ DOMAIN t = ParserFields
        /\ t.pls = s.pls /\ t.ops = s.ops /\ t.evs = s.evs /\ t.scopes = s.scopes
        /\ t.durs = s.durs /\ t.first_ev = s.first_ev /\ t.ev = s.ev
        /\ t.label = [s.label EXCEPT ![label] = o]
    BY <2>1 DEF Shape, ParserFields
  <2>3. t.label \in [Labels -> 0..Len(s.ops)]
    BY <1>2, <2>2 DEF Shape
  <2> HIDE DEF t
  <2>4. Shape(t) /\ Quiet(s, t)
    BY <2>2, <2>3, RestQuiet
  <2>5. QED
    BY <2>2, <2>4 DEF Quiet, t
<1>3. QED
  BY <1>1, <1>2

\* begin_operator adds one node, to the list of the level if it is new.
LEMMA BeginOperator ==
  ASSUME NEW s, Shape(s), s.pls # <<>>, NEW composite \in BOOLEAN
  PROVE  LET t == begin_operator(s, composite)
         IN  /\ Shape(t) /\ SameEvents(s, t) /\ SameOuter(s, t) /\ t.pls # <<>>
             /\ SameLevel(Level(s), Level(t))
             /\ Level(t).local = Level(s).local /\ Level(t).sub_f = Level(s).sub_f
             /\ NewOp(s, t)
<1> DEFINE ended  == end_operator(s)
           pl     == Level(ended)
           o      == Len(s.ops) + 1
           node   == NodeOf(ended, composite, s)
           added  == WithOps(ended, Append(ended.ops, node))
           marked == Marked(added, pl.op_prev, composite)
           placed == Placed(marked, pl.op_scope, pl.op_prev, pl.event, o)
           named  == Named(placed, node.label, o)
           ql     == [pl EXCEPT !.operator = o, !.active_op = TRUE, !.set_label = None]
           t      == begin_operator(s, composite)
<1>1. t = SetLevel(named, ql)
  BY BeginOperatorIs, Zenon
<1>2. /\ Shape(ended) /\ Quiet(s, ended) /\ ended.pls # <<>> /\ SameCall(Level(s), pl)
      /\ SameLevel(Level(s), pl)
  BY EndOperator DEF Quiet
<1>3. Len(s.ops) \in Nat /\ Len(ended.ops) = Len(s.ops) /\ Len(ended.evs) = Len(s.evs)
      /\ ended.scopes = s.scopes
  BY <1>2, SeqFacts DEF Shape, Quiet, SameNodes, SameEvents
<1> HIDE DEF ended
<1>4. LevelHere(ended, pl)
  BY <1>2, LastLevel
<1>5. /\ OpOK(node, o, Len(ended.evs))
      /\ node.prev = pl.op_prev /\ node.scopes = <<>> /\ node.event = pl.event
      /\ node.prev = 0 => (node.nested <=> pl.op_scope # 0)
  <2>1. \A k \in 1..Len(ended.ops) : /\ s.ops[k].nested \in BOOLEAN
                                     /\ s.ops[k].label \in Labels \cup {None}
    BY <1>3 DEF Shape, OpOK
  <2>2. QED
    BY <1>2, <1>3, <2>1, NodeMade
<1> HIDE DEF node
<1>6. /\ Shape(added) /\ OpsOnly(ended, added)
      /\ Len(added.ops) = o
      /\ \A k \in 1..Len(s.ops) : added.ops[k] = ended.ops[k]
      /\ added.ops[o] = node
  <2>1. added = WithOps(ended, Append(ended.ops, node))
    OBVIOUS
  <2>2. NodeFits(ended, node) /\ Len(ended.ops) + 1 = o
    BY <1>3, <1>5 DEF NodeFits
  <2> HIDE DEF added, o
  <2>3. /\ Shape(added) /\ OpsOnly(ended, added)
        /\ Len(added.ops) = Len(ended.ops) + 1
        /\ \A k \in 1..Len(ended.ops) : added.ops[k] = ended.ops[k]
        /\ added.ops[Len(ended.ops) + 1] = node
    BY <1>2, <2>1, <2>2, OpAdded
  <2>4. QED
    BY <1>3, <2>2, <2>3
<1> HIDE DEF added, pl
<1>7. /\ Shape(marked) /\ marked.pls = added.pls /\ SameNodes(added, marked)
      /\ SameEvents(added, marked)
  <2>1. pl.op_prev \in 0..Len(added.ops)
    BY <1>3, <1>4, <1>6 DEF LevelHere, LevelOK
  <2>2. QED
    BY <1>6, <2>1, MarkedKept
<1> HIDE DEF marked
<1>8. /\ Shape(placed) /\ placed.pls = marked.pls /\ placed.ops = marked.ops
      /\ SameEvents(marked, placed)
      /\ placed.scopes = (IF pl.op_prev = 0 /\ pl.op_scope # 0
                          THEN Put(marked.scopes, pl.op_scope,
                                   Append(marked.scopes[pl.op_scope], o))
                          ELSE marked.scopes)
  <2>1. pl.op_scope \in 0..Len(marked.scopes)
    BY <1>4, <1>6, <1>7 DEF LevelHere, LevelOK, SameNodes, OpsOnly
  <2> HIDE DEF o
  <2>2. QED
    BY <1>7, <2>1, PlacedIs
<1> HIDE DEF placed
<1>9. /\ Shape(named) /\ named.pls = placed.pls /\ named.ops = placed.ops
      /\ named.scopes = placed.scopes /\ SameEvents(placed, named)
  <2>1. node.label \in Labels \cup {None}
    BY <1>5 DEF OpOK
  <2>2. Len(placed.ops) = o
    BY <1>6, <1>7, <1>8 DEF SameNodes
  <2>3. o \in 0..Len(placed.ops)
    BY <1>3, <2>2
  <2> HIDE DEF o
  <2>4. QED
    BY <1>8, <2>1, <2>3, NamedKept, Zenon
<1> HIDE DEF named
<1>10. named.pls = ended.pls /\ named.pls # <<>> /\ Level(named) = pl
  BY <1>2, <1>6, <1>7, <1>8, <1>9 DEF OpsOnly, pl, Level
<1>11. /\ Len(named.ops) = o /\ Len(named.evs) = Len(s.evs)
       /\ Len(named.scopes) = Len(s.scopes)
  <2>1. Len(named.ops) = o /\ Len(named.evs) = Len(s.evs)
    BY <1>3, <1>6, <1>7, <1>8, <1>9 DEF OpsOnly, SameNodes, SameEvents
  <2>2. Len(placed.scopes) = Len(marked.scopes)
    <3>1. IsSeq(marked.scopes)
      BY <1>7 DEF Shape
    <3>2. QED
      BY <1>8, <3>1, SeqPatched
  <2>3. QED
    BY <1>3, <1>6, <1>7, <1>9, <2>1, <2>2 DEF OpsOnly, SameNodes
<1>12. LevelHere(named, ql) /\ SameLevel(pl, ql) /\ ql.local = pl.local
       /\ ql.sub_f = pl.sub_f /\ ql.operator = o
  <2>1. DOMAIN pl = LevelFields
    BY <1>4 DEF LevelHere, LevelOK
  <2>2. SameLevel(pl, ql) /\ ql.local = pl.local
        /\ ql.sub_f = pl.sub_f /\ ql.operator = o
    BY <2>1 DEF SameLevel, LevelFields
  <2>3. LevelOK(pl, o, Len(s.evs), Len(s.scopes))
    <3>1. Len(s.evs) \in Nat /\ Len(s.scopes) \in Nat
      BY SeqFacts DEF Shape
    <3>2. QED
      BY <1>3, <1>4, <3>1, LevelGrows DEF LevelHere
  <2>4. LevelOK(ql, o, Len(s.evs), Len(s.scopes))
    <3>1. o \in 0..o /\ o > 0
      BY <1>3
    <3> HIDE DEF o
    <3>2. QED
      BY <2>3, <3>1 DEF LevelOK, LevelFields
  <2>5. QED
    BY <1>11, <2>2, <2>4 DEF LevelHere
<1> HIDE DEF ql, t
<1>13. /\ Shape(t) /\ SameNodes(named, t) /\ SameEvents(named, t) /\ SameOuter(named, t)
       /\ t.pls # <<>> /\ Level(t) = ql
  BY <1>1, <1>9, <1>10, <1>12, SetLevelShape
<1>14. SameEvents(s, t)
  <2>1. SameEvents(s, added)
    BY <1>2, <1>6 DEF Quiet, SameEvents, OpsOnly
  <2>2. SameEvents(s, placed)
    BY <2>1, <1>7, <1>8 DEF SameEvents
  <2>3. QED
    BY <2>2, <1>9, <1>13 DEF SameEvents
<1>15. SameOuter(s, t)
  BY <1>2, <1>10, <1>13 DEF Quiet, SameOuter
<1>16. SameLevel(Level(s), Level(t)) /\ Level(t).local = Level(s).local
       /\ Level(t).sub_f = Level(s).sub_f
  BY <1>2, <1>12, <1>13 DEF SameLevel, SameCall
<1>17. NewOp(s, t)
  <2>1. Len(t.ops) = o /\ t.scopes = named.scopes
        /\ \A k \in 1..o : SameOp(named.ops[k], t.ops[k])
    BY <1>11, <1>13 DEF SameNodes
  <2>2. \A k \in 1..o : SameOp(added.ops[k], named.ops[k])
    BY <1>6, <1>7, <1>8, <1>9 DEF SameNodes
  <2>3. \A k \in 1..o : SameOp(added.ops[k], t.ops[k])
    BY <2>1, <2>2 DEF SameOp
  <2>4. \A k \in 1..Len(s.ops) : SameOp(s.ops[k], t.ops[k])
    <3>1. \A k \in 1..Len(s.ops) : SameOp(s.ops[k], added.ops[k])
      BY <1>2, <1>6 DEF Quiet, SameNodes
    <3>2. 1..Len(s.ops) \subseteq 1..o
      BY <1>3
    <3>3. QED
      BY <2>3, <3>1, <3>2 DEF SameOp
  <2>5. /\ t.ops[o].prev = Level(s).op_prev /\ t.ops[o].scopes = <<>>
        /\ t.ops[o].event = Level(s).event
        /\ t.ops[o].prev = 0 => (t.ops[o].nested <=> Level(s).op_scope # 0)
    <3>1. SameOp(node, t.ops[o])
      BY <1>3, <1>6, <2>3
    <3>2. pl.op_prev = Level(s).op_prev /\ pl.event = Level(s).event
          /\ pl.op_scope = Level(s).op_scope
      BY <1>2 DEF SameCall, SameLevel
    <3>3. QED
      BY <1>5, <3>1, <3>2, Zenon DEF SameOp
  <2>6. marked.scopes = s.scopes
    BY <1>3, <1>6, <1>7 DEF SameNodes, OpsOnly
  <2>7. t.scopes = (IF Level(s).op_prev = 0 /\ Level(s).op_scope # 0
                    THEN Put(s.scopes, Level(s).op_scope,
                             Append(s.scopes[Level(s).op_scope], o))
                    ELSE s.scopes)
    <3>1. pl.op_prev = Level(s).op_prev /\ pl.op_scope = Level(s).op_scope
      BY <1>2 DEF SameCall
    <3>2. QED
      BY <1>8, <1>9, <2>1, <2>6, <3>1
  <2>8. Level(t).operator = o
    BY <1>12, <1>13
  <2>9. QED
    BY <2>1, <2>4, <2>5, <2>7, <2>8 DEF NewOp
<1>18. QED
  BY <1>13, <1>14, <1>15, <1>16, <1>17 DEF t

-----------------------------------------------------------------------------
(* The lists of modulators, as nodes come and levels are entered and left. *)

\* The levels are of the same kinds, with the same lists and parents.
SameKinds(s, t) ==
    /\ Len(t.pls) = Len(s.pls)
    /\ \A k \in 1..Len(s.pls) : /\ t.pls[k].scope = s.pls[k].scope
                                /\ t.pls[k].op_scope = s.pls[k].op_scope
                                /\ t.pls[k].parent_op = s.pls[k].parent_op

\* A change of the innermost level alone, in what does not tell its kind.
LEMMA KindsKept ==
  ASSUME NEW s, NEW t, Shape(s), s.pls # <<>>, Shape(t), SameOuter(s, t),
         Level(t).scope = Level(s).scope, Level(t).op_scope = Level(s).op_scope,
         Level(t).parent_op = Level(s).parent_op
  PROVE  SameKinds(s, t)
<1>1. Len(s.pls) \in Nat \ {0}
  BY LastLevel
<1>2. Level(t) = t.pls[Len(s.pls)] /\ Level(s) = s.pls[Len(s.pls)]
  BY DEF Level, Last, SameOuter
<1>3. \A k \in 1..Len(s.pls) : k = Len(s.pls) \/ k \in 1..(Len(s.pls) - 1)
  BY <1>1
<1>4. QED
  BY <1>2, <1>3 DEF SameOuter, SameKinds

\* With the same nodes and lists each is listed as before.
LEMMA ListsKept ==
  ASSUME NEW s, NEW t, Shape(s), SameNodes(s, t), Lists(s)
  PROVE  Lists(t)
<1>1. /\ t.scopes = s.scopes /\ Len(t.ops) = Len(s.ops)
      /\ \A o \in 1..Len(s.ops) : t.ops[o].prev = s.ops[o].prev
                                  /\ (t.ops[o].nested <=> s.ops[o].nested)
  BY DEF SameNodes, SameOp
<1>2. \A m \in 1..Len(s.scopes) : \A i \in 1..Len(s.scopes[m]) :
         /\ s.scopes[m][i] \in 1..Len(s.ops)
         /\ s.ops[s.scopes[m][i]].nested /\ s.ops[s.scopes[m][i]].prev = 0
  BY DEF Lists
<1>3. \A m \in 1..Len(t.scopes) : \A i \in 1..Len(t.scopes[m]) :
         /\ t.scopes[m][i] \in 1..Len(t.ops)
         /\ t.ops[t.scopes[m][i]].nested /\ t.ops[t.scopes[m][i]].prev = 0
  <2> TAKE m \in 1..Len(t.scopes)
  <2> TAKE i \in 1..Len(t.scopes[m])
  <2> DEFINE o == s.scopes[m][i]
  <2>1. o = t.scopes[m][i] /\ o \in 1..Len(s.ops) /\ s.ops[o].nested /\ s.ops[o].prev = 0
    BY <1>1, <1>2
  <2> HIDE DEF o
  <2>2. t.ops[o].nested /\ t.ops[o].prev = 0
    BY <1>1, <2>1
  <2>3. QED
    BY <1>1, <2>1, <2>2
<1>4. \A l, m \in 1..Len(t.scopes) :
         \A i \in 1..Len(t.scopes[l]), j \in 1..Len(t.scopes[m]) :
            t.scopes[l][i] = t.scopes[m][j] => l = m /\ i = j
  BY <1>1 DEF Lists
<1>5. \A o \in 1..Len(t.ops) :
         t.ops[o].nested /\ t.ops[o].prev = 0 =>
            \E l \in 1..Len(t.scopes) : \E i \in 1..Len(t.scopes[l]) : t.scopes[l][i] = o
  <2> SUFFICES ASSUME NEW o \in 1..Len(t.ops), t.ops[o].nested, t.ops[o].prev = 0
               PROVE  \E l \in 1..Len(t.scopes) : \E i \in 1..Len(t.scopes[l]) :
                         t.scopes[l][i] = o
    OBVIOUS
  <2>1. o \in 1..Len(s.ops) /\ s.ops[o].nested /\ s.ops[o].prev = 0
    BY <1>1
  <2>2. \E l \in 1..Len(s.scopes) : \E i \in 1..Len(s.scopes[l]) : s.scopes[l][i] = o
    BY <2>1, Zenon DEF Lists
  <2>3. QED
    BY <1>1, <2>2
<1>6. QED
  BY <1>3, <1>4, <1>5 DEF Lists

\* With the same nodes, lists and levels each list has the same owner.
LEMMA OwnedKept ==
  ASSUME NEW s, NEW t, Shape(s), SameNodes(s, t), SameKinds(s, t), Owned(s)
  PROVE  Owned(t)
<1>1. /\ t.scopes = s.scopes /\ Len(t.ops) = Len(s.ops)
      /\ \A o \in 1..Len(s.ops) : t.ops[o].scopes = s.ops[o].scopes
  BY DEF SameNodes, SameOp
<1>2. \A o \in 1..Len(s.ops) : \A l : Owns(t, o, l) <=> Owns(s, o, l)
  BY <1>1 DEF Owns
<1>3. Len(t.pls) = Len(s.pls)
      /\ \A k \in 1..Len(s.pls) : \A l : Opens(t, k, l) <=> Opens(s, k, l)
  BY DEF SameKinds, Opens
<1>4. /\ \A o \in 1..Len(t.ops) : \A i \in 1..Len(t.ops[o].scopes) :
           t.ops[o].scopes[i] \in 1..Len(t.scopes)
      /\ \A o \in 1..Len(t.ops) : \A l \in 1..Len(t.scopes) : Owns(t, o, l) =>
           \A i \in 1..Len(t.scopes[l]) : o < t.scopes[l][i]
      /\ \A n, o \in 1..Len(t.ops) : \A l \in 1..Len(t.scopes) :
           Owns(t, n, l) /\ Owns(t, o, l) => n = o
  BY <1>1, <1>2 DEF Owned
<1>5. \A k \in 1..Len(t.pls) : t.pls[k].scope = "nest" =>
        /\ t.pls[k].op_scope # 0
        /\ t.pls[k].parent_op # 0
        /\ \A i \in 1..Len(t.scopes[t.pls[k].op_scope]) :
               t.pls[k].parent_op < t.scopes[t.pls[k].op_scope][i]
        /\ \A o \in 1..Len(t.ops) : ~Owns(t, o, t.pls[k].op_scope)
  <2> SUFFICES ASSUME NEW k \in 1..Len(s.pls), s.pls[k].scope = "nest"
               PROVE  /\ s.pls[k].op_scope # 0
                      /\ s.pls[k].parent_op # 0
                      /\ \A i \in 1..Len(s.scopes[s.pls[k].op_scope]) :
                             s.pls[k].parent_op < s.scopes[s.pls[k].op_scope][i]
                      /\ \A o \in 1..Len(s.ops) : ~Owns(t, o, s.pls[k].op_scope)
    BY <1>1 DEF SameKinds
  <2>1. \A o \in 1..Len(s.ops) : ~Owns(s, o, s.pls[k].op_scope)
    BY Zenon DEF Owned
  <2>2. \A o \in 1..Len(s.ops) : ~Owns(t, o, s.pls[k].op_scope)
    BY <1>2, <2>1, Zenon
  <2>3. QED
    BY <2>2, Zenon DEF Owned
<1>6. /\ \A j, k \in 1..Len(t.pls) : \A l \in 1..Len(t.scopes) :
           Opens(t, j, l) /\ Opens(t, k, l) => j = k
      /\ \A l \in 1..Len(t.scopes) :
           \/ \E o \in 1..Len(t.ops) : Owns(t, o, l)
           \/ \E k \in 1..Len(t.pls) : Opens(t, k, l)
  BY <1>1, <1>2, <1>3 DEF Owned
<1>7. QED
  BY <1>4, <1>5, <1>6, Zenon DEF Owned

\* Where a node that is listed comes in its list.
Extended(s, t, l, o) ==
    /\ Len(t.scopes) = Len(s.scopes)
    /\ \A m \in 1..Len(s.scopes) : \A i \in 1..Len(s.scopes[m]) :
          i \in 1..Len(t.scopes[m]) /\ t.scopes[m][i] = s.scopes[m][i]
    /\ \A m \in 1..Len(s.scopes) : \A i \in 1..Len(t.scopes[m]) :
          \/ i \in 1..Len(s.scopes[m]) /\ t.scopes[m][i] = s.scopes[m][i]
          \/ m = l /\ i = Len(s.scopes[l]) + 1 /\ t.scopes[m][i] = o
    /\ l # 0 => Len(s.scopes[l]) + 1 \in 1..Len(t.scopes[l])
                /\ t.scopes[l][Len(s.scopes[l]) + 1] = o

\* A list with a node more has that last.
LEMMA ListExtended ==
  ASSUME NEW s, NEW t, Shape(s), NEW l \in 0..Len(s.scopes), NEW o,
         t.scopes = (IF l # 0 THEN Put(s.scopes, l, Append(s.scopes[l], o)) ELSE s.scopes)
  PROVE  Extended(s, t, l, o)
<1>1. IsSeq(s.scopes) /\ Len(s.scopes) \in Nat
      /\ \A m \in 1..Len(s.scopes) : IsSeq(s.scopes[m]) /\ Len(s.scopes[m]) \in Nat
  BY SeqFacts DEF Shape
<1>2. CASE l = 0
  <2>1. \A m \in 1..Len(s.scopes) : m # l
    BY <1>1, <1>2
  <2>2. QED
    BY <1>2, <2>1 DEF Extended
<1>3. CASE l # 0
  <2>1. l \in 1..Len(s.scopes)
    BY <1>1, <1>3
  <2> DEFINE x == Append(s.scopes[l], o)
  <2>2. /\ Len(x) = Len(s.scopes[l]) + 1
        /\ \A i \in 1..Len(s.scopes[l]) : x[i] = s.scopes[l][i]
        /\ x[Len(s.scopes[l]) + 1] = o
    BY <1>1, <2>1, SeqAppended
  <2>3. t.scopes = Put(s.scopes, l, x)
    BY <1>3
  <2> HIDE DEF x
  <2>4. /\ Len(t.scopes) = Len(s.scopes)
        /\ \A m \in 1..Len(s.scopes) : m # l => t.scopes[m] = s.scopes[m]
        /\ t.scopes[l] = x
    BY <1>1, <2>1, <2>3, SeqPatched
  <2>5. \A m \in 1..Len(s.scopes) : \A i \in 1..Len(s.scopes[m]) :
          i \in 1..Len(t.scopes[m]) /\ t.scopes[m][i] = s.scopes[m][i]
    <3> TAKE m \in 1..Len(s.scopes)
    <3>1. CASE m = l
      BY <1>1, <2>1, <2>2, <2>4, <3>1
    <3>2. CASE m # l
      BY <2>4, <3>2
    <3>3. QED
      BY <3>1, <3>2
  <2>6. \A m \in 1..Len(s.scopes) : \A i \in 1..Len(t.scopes[m]) :
          \/ i \in 1..Len(s.scopes[m]) /\ t.scopes[m][i] = s.scopes[m][i]
          \/ m = l /\ i = Len(s.scopes[l]) + 1 /\ t.scopes[m][i] = o
    <3> TAKE m \in 1..Len(s.scopes)
    <3>1. CASE m = l
      <4>1. \A i \in 1..Len(x) : i \in 1..Len(s.scopes[l]) \/ i = Len(s.scopes[l]) + 1
        BY <1>1, <2>1, <2>2
      <4>2. QED
        BY <2>2, <2>4, <3>1, <4>1
    <3>2. CASE m # l
      BY <2>4, <3>2
    <3>3. QED
      BY <3>1, <3>2
  <2>7. Len(s.scopes[l]) + 1 \in 1..Len(t.scopes[l])
        /\ t.scopes[l][Len(s.scopes[l]) + 1] = o
    BY <1>1, <2>1, <2>2, <2>4
  <2>8. QED
    BY <2>4, <2>5, <2>6, <2>7 DEF Extended
<1>4. QED
  BY <1>2, <1>3

\* A new node that is listed is later than the owner of the list, and in no other.
LEMMA NewOpTrees ==
  ASSUME NEW s, NEW t, Shape(s), s.pls # <<>>, Lists(s), Owned(s), NewOp(s, t),
         SameKinds(s, t)
  PROVE  Lists(t) /\ Owned(t)
<1> DEFINE o == Len(s.ops) + 1
           listed == Level(s).op_prev = 0 /\ Level(s).op_scope # 0
           l == IF Level(s).op_prev = 0 THEN Level(s).op_scope ELSE 0
<1>1. Len(s.ops) \in Nat /\ Len(s.scopes) \in Nat /\ LevelHere(s, Level(s))
  BY SeqFacts, LastLevel, Zenon DEF Shape
<1>2. l \in 0..Len(s.scopes)
  BY <1>1 DEF LevelHere, LevelOK
<1>3. t.scopes = (IF l # 0 THEN Put(s.scopes, l, Append(s.scopes[l], o)) ELSE s.scopes)
  BY DEF NewOp
<1>4. /\ Len(t.ops) = o
      /\ \A k \in 1..Len(s.ops) : SameOp(s.ops[k], t.ops[k])
      /\ t.ops[o].scopes = <<>>
      /\ t.ops[o].prev = 0 /\ t.ops[o].nested => l # 0
      /\ l # 0 => t.ops[o].prev = 0 /\ t.ops[o].nested
  BY DEF NewOp
<1> HIDE DEF l
<1>5. Extended(s, t, l, o)
  <2> HIDE DEF o
  <2>1. QED
    BY <1>2, <1>3, ListExtended
<1>6. \A k \in 1..o : k \in 1..Len(s.ops) \/ k = o
  BY <1>1
<1>7. 1..Len(s.ops) \subseteq 1..o /\ o \in 1..o /\ o \notin 1..Len(s.ops)
      /\ \A k \in 1..Len(s.ops) : k < o
  BY <1>1
<1>8. \A m \in 1..Len(s.scopes) : \A i \in 1..Len(s.scopes[m]) :
         /\ s.scopes[m][i] \in 1..Len(s.ops)
         /\ s.ops[s.scopes[m][i]].nested /\ s.ops[s.scopes[m][i]].prev = 0
  BY DEF Lists
<1> HIDE DEF o
<1>9. \A m \in 1..Len(t.scopes) : \A i \in 1..Len(t.scopes[m]) :
         /\ t.scopes[m][i] \in 1..Len(t.ops)
         /\ t.ops[t.scopes[m][i]].nested /\ t.ops[t.scopes[m][i]].prev = 0
  <2> TAKE m \in 1..Len(t.scopes)
  <2> TAKE i \in 1..Len(t.scopes[m])
  <2>1. m \in 1..Len(s.scopes)
    BY <1>5 DEF Extended
  <2>2. CASE i \in 1..Len(s.scopes[m]) /\ t.scopes[m][i] = s.scopes[m][i]
    <3> DEFINE k == s.scopes[m][i]
    <3>1. k \in 1..Len(s.ops) /\ s.ops[k].nested /\ s.ops[k].prev = 0
      BY <1>8, <2>1, <2>2
    <3>2. SameOp(s.ops[k], t.ops[k])
      BY <1>4, <3>1
    <3> HIDE DEF k
    <3>3. k \in 1..Len(t.ops) /\ t.ops[k].nested /\ t.ops[k].prev = 0
      BY <1>4, <1>7, <3>1, <3>2 DEF SameOp
    <3>4. QED
      BY <2>2, <3>3 DEF k
  <2>3. CASE m = l /\ t.scopes[m][i] = o
    <3>1. l # 0
      BY <1>1, <2>1, <2>3
    <3>2. QED
      BY <1>4, <1>7, <2>3, <3>1
  <2>4. QED
    BY <1>5, <2>1, <2>2, <2>3 DEF Extended
<1>10. \A m, n \in 1..Len(t.scopes) :
         \A i \in 1..Len(t.scopes[m]), j \in 1..Len(t.scopes[n]) :
            t.scopes[m][i] = t.scopes[n][j] => m = n /\ i = j
  <2> TAKE m, n \in 1..Len(t.scopes)
  <2> TAKE i \in 1..Len(t.scopes[m]), j \in 1..Len(t.scopes[n])
  <2> HAVE t.scopes[m][i] = t.scopes[n][j]
  <2>1. m \in 1..Len(s.scopes) /\ n \in 1..Len(s.scopes)
    BY <1>5 DEF Extended
  <2>2. \/ i \in 1..Len(s.scopes[m]) /\ t.scopes[m][i] = s.scopes[m][i]
        \/ m = l /\ i = Len(s.scopes[l]) + 1 /\ t.scopes[m][i] = o
    BY <1>5, <2>1 DEF Extended
  <2>3. \/ j \in 1..Len(s.scopes[n]) /\ t.scopes[n][j] = s.scopes[n][j]
        \/ n = l /\ j = Len(s.scopes[l]) + 1 /\ t.scopes[n][j] = o
    BY <1>5, <2>1 DEF Extended
  <2>4. CASE i \in 1..Len(s.scopes[m]) /\ t.scopes[m][i] = s.scopes[m][i]
    <3>1. t.scopes[m][i] # o
      BY <1>7, <1>8, <2>1, <2>4
    <3>2. j \in 1..Len(s.scopes[n]) /\ t.scopes[n][j] = s.scopes[n][j]
      BY <2>3, <3>1
    <3>3. s.scopes[m][i] = s.scopes[n][j] => m = n /\ i = j
      BY <2>1, <2>4, <3>2 DEF Lists
    <3>4. QED
      BY <2>4, <3>2, <3>3, Zenon
  <2>5. CASE m = l /\ i = Len(s.scopes[l]) + 1 /\ t.scopes[m][i] = o
    <3>1. ~(j \in 1..Len(s.scopes[n]) /\ t.scopes[n][j] = s.scopes[n][j])
      BY <1>7, <1>8, <2>1, <2>5, Zenon
    <3>2. QED
      BY <2>3, <2>5, <3>1
  <2>6. QED
    BY <2>2, <2>4, <2>5
<1>11. \A k \in 1..Len(t.ops) :
         t.ops[k].nested /\ t.ops[k].prev = 0 =>
            \E m \in 1..Len(t.scopes) : \E i \in 1..Len(t.scopes[m]) : t.scopes[m][i] = k
  <2> SUFFICES ASSUME NEW k \in 1..Len(t.ops), t.ops[k].nested, t.ops[k].prev = 0
               PROVE  \E m \in 1..Len(t.scopes) : \E i \in 1..Len(t.scopes[m]) :
                         t.scopes[m][i] = k
    OBVIOUS
  <2>1. CASE k \in 1..Len(s.ops)
    <3>1. s.ops[k].nested /\ s.ops[k].prev = 0
      BY <1>4, <2>1 DEF SameOp
    <3>2. PICK m \in 1..Len(s.scopes) : \E i \in 1..Len(s.scopes[m]) : s.scopes[m][i] = k
      BY <2>1, <3>1 DEF Lists
    <3>3. PICK i \in 1..Len(s.scopes[m]) : s.scopes[m][i] = k
      BY <3>2
    <3>4. m \in 1..Len(t.scopes) /\ i \in 1..Len(t.scopes[m]) /\ t.scopes[m][i] = k
      BY <1>5, <3>3 DEF Extended
    <3>5. QED
      BY <3>4
  <2>2. CASE k = o
    <3>1. l # 0 /\ l \in 1..Len(s.scopes)
      BY <1>1, <1>2, <1>4, <2>2
    <3>2. QED
      BY <1>5, <2>2, <3>1 DEF Extended
  <2>3. QED
    BY <1>4, <1>6, <2>1, <2>2
<1>12. Lists(t)
  BY <1>9, <1>10, <1>11, Zenon DEF Lists
<1>13. /\ \A k \in 1..Len(s.ops) : \A m : Owns(t, k, m) <=> Owns(s, k, m)
       /\ \A m : ~Owns(t, o, m)
  <2>1. Len(t.ops[o].scopes) = 0
    BY <1>4
  <2>2. QED
    BY <1>4, <2>1, SMTT(30) DEF Owns, SameOp
<1>14. Len(t.scopes) = Len(s.scopes)
  BY <1>5 DEF Extended
<1>15. \A k \in 1..Len(t.ops) : \A i \in 1..Len(t.ops[k].scopes) :
         t.ops[k].scopes[i] \in 1..Len(t.scopes)
  <2> TAKE k \in 1..Len(t.ops)
  <2>1. CASE k = o
    BY <1>4, <2>1
  <2>2. CASE k \in 1..Len(s.ops)
    BY <1>4, <1>14, <2>2, Zenon DEF SameOp, Owned
  <2>3. QED
    BY <1>4, <1>6, <2>1, <2>2
<1>16. \A k \in 1..Len(t.ops) : \A m \in 1..Len(t.scopes) : Owns(t, k, m) =>
         \A i \in 1..Len(t.scopes[m]) : k < t.scopes[m][i]
  <2> TAKE k \in 1..Len(t.ops)
  <2> TAKE m \in 1..Len(t.scopes)
  <2> HAVE Owns(t, k, m)
  <2> TAKE i \in 1..Len(t.scopes[m])
  <2>1. k \in 1..Len(s.ops) /\ Owns(s, k, m)
    BY <1>4, <1>6, <1>13
  <2>2. \/ i \in 1..Len(s.scopes[m]) /\ t.scopes[m][i] = s.scopes[m][i]
        \/ t.scopes[m][i] = o
    BY <1>5, <1>14 DEF Extended
  <2>3. CASE i \in 1..Len(s.scopes[m]) /\ t.scopes[m][i] = s.scopes[m][i]
    BY <1>14, <2>1, <2>3 DEF Owned
  <2>4. CASE t.scopes[m][i] = o
    BY <1>7, <2>1, <2>4
  <2>5. QED
    BY <2>2, <2>3, <2>4
<1>17. \A n, k \in 1..Len(t.ops) : \A m \in 1..Len(t.scopes) :
         Owns(t, n, m) /\ Owns(t, k, m) => n = k
  BY <1>4, <1>6, <1>13, <1>14 DEF Owned
<1>18. \A k \in 1..Len(t.pls) : t.pls[k].scope = "nest" =>
         /\ t.pls[k].op_scope # 0
         /\ t.pls[k].parent_op # 0
         /\ \A i \in 1..Len(t.scopes[t.pls[k].op_scope]) :
                t.pls[k].parent_op < t.scopes[t.pls[k].op_scope][i]
         /\ \A n \in 1..Len(t.ops) : ~Owns(t, n, t.pls[k].op_scope)
  <2> SUFFICES ASSUME NEW k \in 1..Len(s.pls), s.pls[k].scope = "nest"
               PROVE  /\ s.pls[k].op_scope # 0
                      /\ s.pls[k].parent_op # 0
                      /\ \A i \in 1..Len(t.scopes[s.pls[k].op_scope]) :
                             s.pls[k].parent_op < t.scopes[s.pls[k].op_scope][i]
                      /\ \A n \in 1..Len(t.ops) : ~Owns(t, n, s.pls[k].op_scope)
    BY DEF SameKinds
  <2> DEFINE m == s.pls[k].op_scope
             par == s.pls[k].parent_op
  <2>1. /\ m # 0 /\ par # 0
        /\ \A i \in 1..Len(s.scopes[m]) : par < s.scopes[m][i]
        /\ \A n \in 1..Len(s.ops) : ~Owns(s, n, m)
    BY DEF Owned
  <2>2. m \in 1..Len(s.scopes) /\ par \in 1..Len(s.ops)
    <3>1. m \in 0..Len(s.scopes) /\ par \in 0..Len(s.ops)
      BY DEF Shape, LevelOK
    <3> HIDE DEF m, par
    <3>2. QED
      BY <1>1, <2>1, <3>1
  <2> HIDE DEF m, par
  <2>3. \A i \in 1..Len(t.scopes[m]) : par < t.scopes[m][i]
    <3> TAKE i \in 1..Len(t.scopes[m])
    <3>1. \/ i \in 1..Len(s.scopes[m]) /\ t.scopes[m][i] = s.scopes[m][i]
          \/ t.scopes[m][i] = o
      BY <1>5, <2>2 DEF Extended
    <3>2. QED
      BY <1>7, <2>1, <2>2, <3>1
  <2>4. \A n \in 1..Len(t.ops) : ~Owns(t, n, m)
    BY <1>4, <1>6, <1>13, <2>1
  <2>5. QED
    BY <2>1, <2>3, <2>4 DEF m, par
<1>19. /\ Len(t.pls) = Len(s.pls)
       /\ \A k \in 1..Len(s.pls) : \A m : Opens(t, k, m) <=> Opens(s, k, m)
  BY DEF SameKinds, Opens
<1>20. \A j, k \in 1..Len(t.pls) : \A m \in 1..Len(t.scopes) :
         Opens(t, j, m) /\ Opens(t, k, m) => j = k
  BY <1>14, <1>19 DEF Owned
<1>21. \A m \in 1..Len(t.scopes) :
         \/ \E n \in 1..Len(t.ops) : Owns(t, n, m)
         \/ \E k \in 1..Len(t.pls) : Opens(t, k, m)
  <2> TAKE m \in 1..Len(t.scopes)
  <2>1. \/ \E n \in 1..Len(s.ops) : Owns(s, n, m)
        \/ \E k \in 1..Len(s.pls) : Opens(s, k, m)
    BY <1>14 DEF Owned
  <2>2. QED
    BY <1>4, <1>7, <1>13, <1>19, <2>1
<1>22. Owned(t)
  BY <1>15, <1>16, <1>17, <1>18, <1>20, <1>21, Zenon DEF Owned
<1>23. QED
  BY <1>12, <1>22

-----------------------------------------------------------------------------
(* Levels entered and left. *)

\* A level with an operator to set has it open.
Steady(pl) == pl.local > 0 => pl.operator > 0

\* The invariant of levels, nodes and lists.
TreeInv(s) == Shape(s) /\ Stack(s) /\ Lists(s) /\ Owned(s)

\* The level stays open, and the lists are trees.
Inside(s, t) ==
    /\ Shape(t) /\ t.pls # <<>> /\ SameOuter(s, t)
    /\ Level(t).scope = Level(s).scope /\ Level(t).op_scope = Level(s).op_scope
    /\ Level(t).parent_op = Level(s).parent_op
    /\ Lists(t) /\ Owned(t)

\* A level that stays open for two steps.
LEMMA InsideTrans ==
  ASSUME NEW s, NEW t, NEW u, Inside(s, t), Inside(t, u)
  PROVE  Inside(s, u)
BY DEF Inside, SameOuter

\* With the same nodes the lists are trees as before.
LEMMA SameNodesInside ==
  ASSUME NEW s, NEW t, Shape(s), s.pls # <<>>, Lists(s), Owned(s),
         Shape(t), t.pls # <<>>, SameOuter(s, t), SameNodes(s, t),
         Level(t).scope = Level(s).scope, Level(t).op_scope = Level(s).op_scope,
         Level(t).parent_op = Level(s).parent_op
  PROVE  Inside(s, t)
<1>1. SameKinds(s, t)
  BY KindsKept
<1>2. Lists(t) /\ Owned(t)
  BY <1>1, ListsKept, OwnedKept
<1>3. QED
  BY <1>2 DEF Inside

\* With a new node the lists are trees as before.
LEMMA NewOpInside ==
  ASSUME NEW s, NEW t, Shape(s), s.pls # <<>>, Lists(s), Owned(s),
         Shape(t), t.pls # <<>>, SameOuter(s, t), NewOp(s, t),
         Level(t).scope = Level(s).scope, Level(t).op_scope = Level(s).op_scope,
         Level(t).parent_op = Level(s).parent_op
  PROVE  Inside(s, t)
<1>1. SameKinds(s, t)
  BY KindsKept
<1>2. Lists(t) /\ Owned(t)
  BY <1>1, NewOpTrees
<1>3. QED
  BY <1>2 DEF Inside

\* Within a level the stack is as before.
LEMMA StackInside ==
  ASSUME NEW s, NEW t, Shape(s), s.pls # <<>>, Stack(s), Inside(s, t), Steady(Level(t))
  PROVE  TreeInv(t)
<1>1. Len(s.pls) \in Nat \ {0}
  BY LastLevel
<1>2. /\ Len(t.pls) = Len(s.pls)
      /\ Level(t) = t.pls[Len(s.pls)] /\ Level(s) = s.pls[Len(s.pls)]
  BY DEF Level, Last, SameOuter, Inside
<1>3. \A k \in 1..Len(s.pls) : k = Len(s.pls) \/ k \in 1..(Len(s.pls) - 1)
  BY <1>1
<1>4. \A k \in 2..Len(s.pls) : k - 1 \in 1..(Len(s.pls) - 1) /\ k \in 1..Len(s.pls)
  BY <1>1
<1>5. \A k \in 1..Len(s.pls) : /\ t.pls[k].scope = s.pls[k].scope
                               /\ t.pls[k].op_scope = s.pls[k].op_scope
                               /\ Steady(t.pls[k])
  BY <1>2, <1>3 DEF Inside, SameOuter, Stack, Steady
<1>6. \A k \in 2..Len(s.pls) : t.pls[k - 1].local = s.pls[k - 1].local
  BY <1>4 DEF Inside, SameOuter
<1>7. Stack(t)
  BY <1>2, <1>4, <1>5, <1>6 DEF Stack, Steady
<1>8. QED
  BY <1>7 DEF Inside, TreeInv

\* The innermost level is gone.
Popped(s) == [s EXCEPT !.pls = Front(@)]

\* Leaving a level keeps the nodes.
LEMMA Popping ==
  ASSUME NEW s, Shape(s), s.pls # <<>>
  PROVE  /\ Shape(Popped(s)) /\ SameNodes(s, Popped(s)) /\ SameEvents(s, Popped(s))
         /\ Len(s.pls) \in Nat \ {0}
         /\ Len(Popped(s).pls) = Len(s.pls) - 1
         /\ \A k \in 1..(Len(s.pls) - 1) : Popped(s).pls[k] = s.pls[k]
<1> DEFINE t == Popped(s)
<1>1. /\ DOMAIN t = ParserFields
      /\ t.pls = Front(s.pls)
      /\ t.ops = s.ops /\ t.evs = s.evs /\ t.scopes = s.scopes /\ t.durs = s.durs
      /\ t.first_ev = s.first_ev /\ t.ev = s.ev /\ t.label = s.label
  BY DEF Popped, Shape, ParserFields
<1> HIDE DEF t
<1>2. /\ IsSeq(t.pls) /\ Len(s.pls) \in Nat \ {0}
      /\ Len(t.pls) = Len(s.pls) - 1
      /\ \A k \in 1..(Len(s.pls) - 1) : t.pls[k] = s.pls[k]
  BY <1>1, SeqFront DEF Shape
<1>3. \A k \in 1..Len(t.pls) : LevelOK(t.pls[k], Len(s.ops), Len(s.evs), Len(s.scopes))
  <2>1. \A k \in 1..Len(t.pls) : k \in 1..Len(s.pls) /\ t.pls[k] = s.pls[k]
    BY <1>2
  <2>2. QED
    BY <2>1 DEF Shape
<1>4. Shape(t)
  BY <1>1, <1>2, <1>3 DEF Shape
<1>5. SameNodes(s, t) /\ SameEvents(s, t)
  BY <1>1 DEF SameNodes, SameOp, SameEvents
<1>6. QED
  BY <1>2, <1>4, <1>5 DEF t

\* The stack without its innermost level.
LEMMA StackPopped ==
  ASSUME NEW s, NEW t, Stack(s), Len(s.pls) \in Nat \ {0},
         Len(t.pls) = Len(s.pls) - 1,
         \A k \in 1..(Len(s.pls) - 1) : t.pls[k] = s.pls[k]
  PROVE  Stack(t)
<1>1. \A k \in 1..Len(t.pls) : k \in 1..Len(s.pls) /\ t.pls[k] = s.pls[k]
  OBVIOUS
<1>2. \A k \in 2..Len(t.pls) : k \in 2..Len(s.pls) /\ k \in 1..Len(t.pls)
                              /\ k - 1 \in 1..Len(t.pls)
  OBVIOUS
<1>3. \A k \in 2..Len(t.pls) : t.pls[k - 1] = s.pls[k - 1] /\ t.pls[k] = s.pls[k]
  BY <1>1, <1>2
<1>4. \A k \in 1..Len(t.pls) : /\ t.pls[k].scope = "top" <=> k = 1
                               /\ k = 1 => t.pls[k].op_scope = 0
                               /\ t.pls[k].local > 0 => t.pls[k].operator > 0
  BY <1>1 DEF Stack
<1>5. \A k \in 2..Len(t.pls) : t.pls[k].scope = "block" => t.pls[k - 1].local = 0
  BY <1>2, <1>3 DEF Stack
<1>6. QED
  BY <1>4, <1>5 DEF Stack

\* A level that is no nest holds no list open.
LEMMA TreesPopped ==
  ASSUME NEW s, NEW t, Shape(s), Lists(s), Owned(s), SameNodes(s, t),
         Len(s.pls) \in Nat \ {0},
         Len(t.pls) = Len(s.pls) - 1,
         \A k \in 1..(Len(s.pls) - 1) : t.pls[k].scope = s.pls[k].scope
                                        /\ t.pls[k].op_scope = s.pls[k].op_scope
                                        /\ t.pls[k].parent_op = s.pls[k].parent_op,
         Level(s).scope # "nest"
  PROVE  Lists(t) /\ Owned(t)
<1>1. Lists(t)
  BY ListsKept
<1>2. /\ t.scopes = s.scopes /\ Len(t.ops) = Len(s.ops)
      /\ \A o \in 1..Len(s.ops) : t.ops[o].scopes = s.ops[o].scopes
  BY DEF SameNodes, SameOp
<1>3. \A o \in 1..Len(s.ops) : \A l : Owns(t, o, l) <=> Owns(s, o, l)
  BY <1>2 DEF Owns
<1>4. \A k \in 1..Len(t.pls) : k \in 1..Len(s.pls)
                              /\ t.pls[k].scope = s.pls[k].scope
                              /\ t.pls[k].op_scope = s.pls[k].op_scope
                              /\ t.pls[k].parent_op = s.pls[k].parent_op
  OBVIOUS
<1>5. \A k \in 1..Len(t.pls) : \A l : Opens(t, k, l) <=> Opens(s, k, l)
  BY <1>4 DEF Opens
<1>6. \A k \in 1..Len(s.pls) : \A l : Opens(s, k, l) => k \in 1..Len(t.pls)
  <2>1. \A k \in 1..Len(s.pls) : k \in 1..Len(t.pls) \/ k = Len(s.pls)
    OBVIOUS
  <2>2. QED
    BY <2>1 DEF Opens, Level, Last
<1>7. /\ \A o \in 1..Len(t.ops) : \A i \in 1..Len(t.ops[o].scopes) :
           t.ops[o].scopes[i] \in 1..Len(t.scopes)
      /\ \A o \in 1..Len(t.ops) : \A l \in 1..Len(t.scopes) : Owns(t, o, l) =>
           \A i \in 1..Len(t.scopes[l]) : o < t.scopes[l][i]
      /\ \A n, o \in 1..Len(t.ops) : \A l \in 1..Len(t.scopes) :
           Owns(t, n, l) /\ Owns(t, o, l) => n = o
  BY <1>2, <1>3, Zenon DEF Owned
<1>8. \A k \in 1..Len(t.pls) : t.pls[k].scope = "nest" =>
        /\ t.pls[k].op_scope # 0
        /\ t.pls[k].parent_op # 0
        /\ \A i \in 1..Len(t.scopes[t.pls[k].op_scope]) :
               t.pls[k].parent_op < t.scopes[t.pls[k].op_scope][i]
        /\ \A o \in 1..Len(t.ops) : ~Owns(t, o, t.pls[k].op_scope)
  <2> SUFFICES ASSUME NEW k \in 1..Len(t.pls), t.pls[k].scope = "nest"
               PROVE  /\ t.pls[k].op_scope # 0
                      /\ t.pls[k].parent_op # 0
                      /\ \A i \in 1..Len(t.scopes[t.pls[k].op_scope]) :
                             t.pls[k].parent_op < t.scopes[t.pls[k].op_scope][i]
                      /\ \A o \in 1..Len(t.ops) : ~Owns(t, o, t.pls[k].op_scope)
    OBVIOUS
  <2>1. /\ s.pls[k].op_scope # 0
        /\ s.pls[k].parent_op # 0
        /\ \A i \in 1..Len(s.scopes[s.pls[k].op_scope]) :
               s.pls[k].parent_op < s.scopes[s.pls[k].op_scope][i]
        /\ \A o \in 1..Len(s.ops) : ~Owns(s, o, s.pls[k].op_scope)
    BY <1>4, Zenon DEF Owned
  <2>2. t.pls[k].op_scope = s.pls[k].op_scope /\ t.pls[k].parent_op = s.pls[k].parent_op
    BY <1>4
  <2>3. QED
    BY <1>2, <1>3, <2>1, <2>2
<1>9. /\ \A j, k \in 1..Len(t.pls) : \A l \in 1..Len(t.scopes) :
           Opens(t, j, l) /\ Opens(t, k, l) => j = k
      /\ \A l \in 1..Len(t.scopes) :
           \/ \E o \in 1..Len(t.ops) : Owns(t, o, l)
           \/ \E k \in 1..Len(t.pls) : Opens(t, k, l)
  BY <1>2, <1>3, <1>4, <1>5, <1>6 DEF Owned
<1>10. QED
  BY <1>1, <1>7, <1>8, <1>9 DEF Owned

\* An operator comes to own a list.
Given(s, o, l) == [s EXCEPT !.ops[o].scopes = Append(@, l)]

\* What nodes own, with list l for node o added.
OwnedMore(s, t, o, l) ==
    /\ Len(t.ops) = Len(s.ops)
    /\ \A k \in 1..Len(s.ops) : /\ t.ops[k].prev = s.ops[k].prev
                                /\ t.ops[k].nested <=> s.ops[k].nested
    /\ \A k \in 1..Len(s.ops) : \A m :
          Owns(t, k, m) <=> Owns(s, k, m) \/ (k = o /\ m = l)
    /\ \A k \in 1..Len(s.ops) : \A i \in 1..Len(t.ops[k].scopes) :
          \/ i \in 1..Len(s.ops[k].scopes) /\ t.ops[k].scopes[i] = s.ops[k].scopes[i]
          \/ k = o /\ t.ops[k].scopes[i] = l

\* Giving a list to a node leaves the other links.
LEMMA ListGiven ==
  ASSUME NEW s, Shape(s), NEW o \in 1..Len(s.ops), NEW l
  PROVE  LET t == Given(s, o, l)
         IN  /\ Shape(t) /\ t.pls = s.pls /\ t.scopes = s.scopes /\ SameEvents(s, t)
             /\ OwnedMore(s, t, o, l)
<1> DEFINE n == [s.ops[o] EXCEPT !.scopes = Append(@, l)]
           t == Given(s, o, l)
<1>1. t = WithOps(s, Put(s.ops, o, n))
  BY DEF Given, WithOps, Put
<1>2. OpOK(s.ops[o], Len(s.ops), Len(s.evs))
  BY DEF Shape
<1>3. IsSeq(s.ops[o].scopes) /\ Len(s.ops[o].scopes) \in Nat
  BY <1>2, SeqFacts DEF OpOK
<1>4. n.scopes = Append(s.ops[o].scopes, l)
  BY <1>2 DEF OpOK, OpFields
<1>5. /\ IsSeq(n.scopes) /\ Len(n.scopes) = Len(s.ops[o].scopes) + 1
      /\ \A i \in 1..Len(s.ops[o].scopes) : n.scopes[i] = s.ops[o].scopes[i]
      /\ n.scopes[Len(s.ops[o].scopes) + 1] = l
  BY <1>3, <1>4, SeqAppended
<1>6. /\ OpOK(n, Len(s.ops), Len(s.evs)) /\ n.prev = s.ops[o].prev
      /\ n.nested <=> s.ops[o].nested
  BY <1>2, <1>5 DEF OpOK, OpFields
<1>7. /\ DOMAIN t = ParserFields
      /\ t.pls = s.pls /\ t.evs = s.evs /\ t.scopes = s.scopes /\ t.durs = s.durs
      /\ t.first_ev = s.first_ev /\ t.ev = s.ev /\ t.label = s.label
      /\ t.ops = Put(s.ops, o, n)
  BY <1>1 DEF Shape, ParserFields, WithOps
<1> HIDE DEF n, t
<1>8. /\ IsSeq(t.ops) /\ Len(t.ops) = Len(s.ops)
      /\ \A k \in 1..Len(s.ops) : k # o => t.ops[k] = s.ops[k]
      /\ t.ops[o] = n
  <2>1. IsSeq(s.ops)
    BY DEF Shape
  <2>2. QED
    BY <1>7, <2>1, SeqPatched
<1>9. \A k \in 1..Len(s.ops) : OpOK(t.ops[k], Len(s.ops), Len(s.evs))
  BY <1>6, <1>8 DEF Shape
<1>10. Shape(t)
  BY <1>7, <1>8, <1>9 DEF Shape
<1>11. SameEvents(s, t)
  BY <1>7 DEF SameEvents
<1>12. \A k \in 1..Len(s.ops) : /\ t.ops[k].prev = s.ops[k].prev
                                /\ t.ops[k].nested <=> s.ops[k].nested
  BY <1>6, <1>8
<1>13. \A k \in 1..Len(s.ops) : \A m :
          Owns(t, k, m) <=> Owns(s, k, m) \/ (k = o /\ m = l)
  <2> TAKE k \in 1..Len(s.ops)
  <2> TAKE m
  <2>1. CASE k # o
    BY <1>8, <2>1 DEF Owns
  <2>2. CASE k = o
    <3>1. Owns(s, k, m) => Owns(t, k, m)
      <4>1. 1..Len(s.ops[o].scopes) \subseteq 1..Len(n.scopes)
        BY <1>3, <1>5
      <4>2. QED
        BY <1>5, <1>8, <2>2, <4>1, Zenon DEF Owns
    <3>2. m = l => Owns(t, k, m)
      <4>1. Len(s.ops[o].scopes) + 1 \in 1..Len(n.scopes)
        BY <1>3, <1>5
      <4>2. QED
        BY <1>5, <1>8, <2>2, <4>1 DEF Owns
    <3>3. Owns(t, k, m) => Owns(s, k, m) \/ m = l
      <4>1. \A i \in 1..Len(n.scopes) :
               i \in 1..Len(s.ops[o].scopes) \/ i = Len(s.ops[o].scopes) + 1
        BY <1>3, <1>5
      <4>2. QED
        BY <1>5, <1>8, <2>2, <4>1, Zenon DEF Owns
    <3>4. QED
      BY <2>2, <3>1, <3>2, <3>3
  <2>3. QED
    BY <2>1, <2>2
<1>14. \A k \in 1..Len(s.ops) : \A i \in 1..Len(t.ops[k].scopes) :
          \/ i \in 1..Len(s.ops[k].scopes) /\ t.ops[k].scopes[i] = s.ops[k].scopes[i]
          \/ k = o /\ t.ops[k].scopes[i] = l
  <2> TAKE k \in 1..Len(s.ops)
  <2>1. CASE k # o
    BY <1>8, <2>1
  <2>2. CASE k = o
    <3>1. \A i \in 1..Len(n.scopes) :
             i \in 1..Len(s.ops[o].scopes) \/ i = Len(s.ops[o].scopes) + 1
      BY <1>3, <1>5
    <3>2. QED
      BY <1>5, <1>8, <2>2, <3>1
  <2>3. QED
    BY <2>1, <2>2
<1>15. QED
  BY <1>7, <1>8, <1>10, <1>11, <1>12, <1>13, <1>14 DEF t, OwnedMore

\* What Lists asks is of the lists and of which nodes are new modulators.
LEMMA ListsOnly ==
  ASSUME NEW s, NEW t, t.scopes = s.scopes, Len(t.ops) = Len(s.ops),
         \A o \in 1..Len(s.ops) : /\ t.ops[o].prev = s.ops[o].prev
                                  /\ t.ops[o].nested <=> s.ops[o].nested,
         Lists(s)
  PROVE  Lists(t)
<1> DEFINE Modulator(x, o) == x.ops[o].nested /\ x.ops[o].prev = 0
<1>1. \A o \in 1..Len(s.ops) : Modulator(t, o) <=> Modulator(s, o)
  OBVIOUS
<1>2. \A m \in 1..Len(s.scopes) : \A i \in 1..Len(s.scopes[m]) :
         s.scopes[m][i] \in 1..Len(s.ops) /\ Modulator(s, s.scopes[m][i])
  BY DEF Lists
<1>3. \A l, m \in 1..Len(t.scopes) :
         \A i \in 1..Len(t.scopes[l]), j \in 1..Len(t.scopes[m]) :
            t.scopes[l][i] = t.scopes[m][j] => l = m /\ i = j
  BY DEF Lists
<1>4. \A o \in 1..Len(s.ops) : Modulator(s, o) =>
            \E l \in 1..Len(s.scopes) : \E i \in 1..Len(s.scopes[l]) : s.scopes[l][i] = o
  BY Zenon DEF Lists
<1> HIDE DEF Modulator
<1>5. \A m \in 1..Len(t.scopes) : \A i \in 1..Len(t.scopes[m]) :
         t.scopes[m][i] \in 1..Len(t.ops) /\ Modulator(t, t.scopes[m][i])
  BY <1>1, <1>2
<1>6. \A o \in 1..Len(t.ops) : Modulator(t, o) =>
            \E l \in 1..Len(t.scopes) : \E i \in 1..Len(t.scopes[l]) : t.scopes[l][i] = o
  BY <1>1, <1>4
<1>7. QED
  BY <1>3, <1>5, <1>6 DEF Lists, Modulator

\* When "[" is closed its list goes to the node it was opened for, which is older than
\* what is in it.
LEMMA LeaveNest ==
  ASSUME NEW s, TreeInv(s), s.pls # <<>>, Level(s).scope = "nest"
  PROVE  TreeInv(leave_level(s))
<1> DEFINE ended == end_operator(s)
           pl    == Level(ended)
           par   == pl.parent_op
           l     == pl.op_scope
           outer == Popped(ended)
           t     == leave_level(s)
<1>1. /\ Shape(ended) /\ Quiet(s, ended) /\ ended.pls # <<>> /\ SameCall(Level(s), pl)
  BY EndOperator DEF TreeInv
<1> HIDE DEF ended
<1>2. Inside(s, ended)
  BY <1>1, SameNodesInside DEF TreeInv, Quiet, SameLevel
<1>3. /\ Len(ended.pls) \in Nat \ {0} /\ pl = ended.pls[Len(ended.pls)]
      /\ LevelHere(ended, pl) /\ pl.scope = "nest"
  BY <1>1, LastLevel DEF SameCall
<1> DEFINE n == Len(ended.pls)
<1>4. /\ par # 0 /\ l # 0
      /\ \A i \in 1..Len(ended.scopes[l]) : par < ended.scopes[l][i]
      /\ \A o \in 1..Len(ended.ops) : ~Owns(ended, o, l)
  <2>1. n \in 1..Len(ended.pls)
    BY <1>3
  <2>2. QED
    BY <1>2, <1>3, <2>1 DEF Inside, Owned
<1>5. par \in 1..Len(ended.ops) /\ l \in 1..Len(ended.scopes)
  <2>1. par \in 0..Len(ended.ops) /\ l \in 0..Len(ended.scopes)
    BY <1>3 DEF LevelHere, LevelOK
  <2>2. Len(ended.ops) \in Nat /\ Len(ended.scopes) \in Nat
    BY <1>1, SeqFacts DEF Shape
  <2> HIDE DEF par, l
  <2>3. QED
    BY <1>4, <2>1, <2>2
<1>6. t = Given(outer, par, l)
  BY <1>3, <1>4 DEF leave_level, Given, Popped, ended
<1>7. /\ Shape(outer) /\ SameNodes(ended, outer)
      /\ Len(outer.pls) = n - 1
      /\ \A k \in 1..(n - 1) : outer.pls[k] = ended.pls[k]
  BY <1>1, Popping
<1>8. /\ outer.scopes = ended.scopes /\ Len(outer.ops) = Len(ended.ops)
      /\ \A o \in 1..Len(ended.ops) : SameOp(ended.ops[o], outer.ops[o])
  BY <1>7 DEF SameNodes
<1> HIDE DEF outer, t, pl
<1>9. /\ Shape(t) /\ t.pls = outer.pls /\ t.scopes = outer.scopes
      /\ Len(t.ops) = Len(outer.ops)
      /\ \A k \in 1..Len(outer.ops) : /\ t.ops[k].prev = outer.ops[k].prev
                                      /\ t.ops[k].nested <=> outer.ops[k].nested
      /\ \A k \in 1..Len(outer.ops) : \A m :
            Owns(t, k, m) <=> Owns(outer, k, m) \/ (k = par /\ m = l)
      /\ \A k \in 1..Len(outer.ops) : \A i \in 1..Len(t.ops[k].scopes) :
            \/ i \in 1..Len(outer.ops[k].scopes) /\ t.ops[k].scopes[i] = outer.ops[k].scopes[i]
            \/ k = par /\ t.ops[k].scopes[i] = l
  <2>1. par \in 1..Len(outer.ops)
    BY <1>5, <1>8
  <2> HIDE DEF par, l
  <2>2. /\ Shape(t) /\ t.pls = outer.pls /\ t.scopes = outer.scopes
        /\ OwnedMore(outer, t, par, l)
    BY <1>6, <1>7, <2>1, ListGiven
  <2>3. QED
    BY <2>2 DEF OwnedMore
<1> HIDE DEF par, l, n
<1>10. /\ t.scopes = ended.scopes /\ Len(t.ops) = Len(ended.ops)
       /\ \A k \in 1..Len(ended.ops) : \A m :
             Owns(t, k, m) <=> Owns(ended, k, m) \/ (k = par /\ m = l)
  <2>1. \A k \in 1..Len(ended.ops) : \A m : Owns(outer, k, m) <=> Owns(ended, k, m)
    BY <1>8 DEF SameOp, Owns
  <2>2. QED
    BY <1>8, <1>9, <2>1
<1>11. Lists(t)
  <2>1. Lists(outer)
    BY <1>1, <1>2, <1>7, ListsKept DEF Inside
  <2>2. QED
    BY <1>9, <2>1, ListsOnly
<1>12. Stack(t)
  <2>1. /\ Len(s.pls) = n /\ n \in Nat \ {0}
        /\ Len(t.pls) = n - 1
        /\ \A k \in 1..(n - 1) : t.pls[k] = s.pls[k]
    BY <1>1, <1>3, <1>7, <1>9 DEF n, Quiet, SameOuter
  <2>2. QED
    BY <2>1, StackPopped DEF TreeInv
<1>13. /\ Len(t.pls) = n - 1
       /\ \A k \in 1..(n - 1) : t.pls[k] = ended.pls[k]
       /\ n \in Nat \ {0} /\ n = Len(ended.pls)
  BY <1>3, <1>7, <1>9 DEF n
<1>14. Owned(ended)
  BY <1>2 DEF Inside
<1>15. \A k \in 1..Len(t.ops) : \A i \in 1..Len(t.ops[k].scopes) :
         t.ops[k].scopes[i] \in 1..Len(t.scopes)
  <2> TAKE k \in 1..Len(t.ops)
  <2> TAKE i \in 1..Len(t.ops[k].scopes)
  <2>1. k \in 1..Len(ended.ops) /\ outer.ops[k].scopes = ended.ops[k].scopes
    BY <1>8, <1>9 DEF SameOp
  <2>2. \/ i \in 1..Len(ended.ops[k].scopes) /\ t.ops[k].scopes[i] = ended.ops[k].scopes[i]
        \/ t.ops[k].scopes[i] = l
    BY <1>8, <1>9, <2>1
  <2>3. CASE i \in 1..Len(ended.ops[k].scopes) /\ t.ops[k].scopes[i] = ended.ops[k].scopes[i]
    BY <1>10, <1>14, <2>1, <2>3 DEF Owned
  <2>4. CASE t.ops[k].scopes[i] = l
    BY <1>5, <1>10, <2>4
  <2>5. QED
    BY <2>2, <2>3, <2>4
<1>16. \A k \in 1..Len(t.ops) : \A m \in 1..Len(t.scopes) : Owns(t, k, m) =>
         \A i \in 1..Len(t.scopes[m]) : k < t.scopes[m][i]
  BY <1>4, <1>10, <1>14, SMTT(30) DEF Owned
<1>17. \A j, k \in 1..Len(t.ops) : \A m \in 1..Len(t.scopes) :
         Owns(t, j, m) /\ Owns(t, k, m) => j = k
  BY <1>4, <1>10, <1>14 DEF Owned
<1>18. \A k \in 1..Len(t.pls) :
          /\ k \in 1..Len(ended.pls) /\ k # n
          /\ t.pls[k] = ended.pls[k]
          /\ t.pls[k].scope = "nest" => t.pls[k].op_scope # l
  <2> TAKE k \in 1..Len(t.pls)
  <2>1. k \in 1..Len(ended.pls) /\ k # n /\ t.pls[k] = ended.pls[k]
    BY <1>13
  <2>2. Opens(ended, n, l) /\ n \in 1..Len(ended.pls)
    BY <1>3, <1>13 DEF Opens, l, pl, n
  <2>3. ~Opens(ended, k, l)
    BY <1>5, <1>14, <2>1, <2>2 DEF Owned
  <2>4. QED
    BY <2>1, <2>3 DEF Opens
<1>19. \A k \in 1..Len(t.pls) : t.pls[k].scope = "nest" =>
        /\ t.pls[k].op_scope # 0
        /\ t.pls[k].parent_op # 0
        /\ \A i \in 1..Len(t.scopes[t.pls[k].op_scope]) :
               t.pls[k].parent_op < t.scopes[t.pls[k].op_scope][i]
        /\ \A o \in 1..Len(t.ops) : ~Owns(t, o, t.pls[k].op_scope)
  <2> SUFFICES ASSUME NEW k \in 1..Len(t.pls), t.pls[k].scope = "nest"
               PROVE  /\ t.pls[k].op_scope # 0
                      /\ t.pls[k].parent_op # 0
                      /\ \A i \in 1..Len(t.scopes[t.pls[k].op_scope]) :
                             t.pls[k].parent_op < t.scopes[t.pls[k].op_scope][i]
                      /\ \A o \in 1..Len(t.ops) : ~Owns(t, o, t.pls[k].op_scope)
    OBVIOUS
  <2>1. /\ t.pls[k].op_scope # 0
        /\ t.pls[k].parent_op # 0
        /\ \A i \in 1..Len(ended.scopes[t.pls[k].op_scope]) :
               t.pls[k].parent_op < ended.scopes[t.pls[k].op_scope][i]
        /\ \A o \in 1..Len(ended.ops) : ~Owns(ended, o, t.pls[k].op_scope)
    BY <1>14, <1>18, Zenon DEF Owned
  <2>2. t.pls[k].op_scope # l
    BY <1>18
  <2>3. QED
    BY <1>10, <2>1, <2>2
<1>20. \A j, k \in 1..Len(t.pls) : \A m \in 1..Len(t.scopes) :
         Opens(t, j, m) /\ Opens(t, k, m) => j = k
  <2>1. \A k \in 1..Len(t.pls) : \A m : Opens(t, k, m) => Opens(ended, k, m)
    BY <1>18 DEF Opens
  <2>2. QED
    BY <1>10, <1>14, <1>18, <2>1 DEF Owned
<1>21. \A m \in 1..Len(t.scopes) :
         \/ \E o \in 1..Len(t.ops) : Owns(t, o, m)
         \/ \E k \in 1..Len(t.pls) : Opens(t, k, m)
  <2> TAKE m \in 1..Len(t.scopes)
  <2>1. CASE m = l
    BY <1>5, <1>10, <2>1
  <2>2. CASE m # l
    <3>1. \/ \E o \in 1..Len(ended.ops) : Owns(ended, o, m)
          \/ \E k \in 1..Len(ended.pls) : Opens(ended, k, m)
      BY <1>10, <1>14 DEF Owned
    <3>2. \A k \in 1..Len(ended.pls) : Opens(ended, k, m) => k # n
      BY <1>3, <2>2 DEF Opens, l, pl, n
    <3>3. \A k \in 1..Len(ended.pls) : k # n => k \in 1..Len(t.pls) /\ t.pls[k] = ended.pls[k]
      BY <1>13
    <3>4. QED
      BY <1>10, <3>1, <3>2, <3>3 DEF Opens
  <2>3. QED
    BY <2>1, <2>2
<1>22. Owned(t)
  BY <1>15, <1>16, <1>17, <1>19, <1>20, <1>21 DEF Owned
<1>23. QED
  BY <1>9, <1>11, <1>12, <1>22 DEF TreeInv, t

\* The level that is entered.
Entered(s, scope) ==
    LET pl   == Level(s)
        nest == scope = "nest"
    IN  [TopLevel EXCEPT !.scope = scope, !.nested = pl.nested \/ nest,
            !.sub_f = pl.sub_f, !.event = pl.event, !.operator = pl.operator,
            !.parent_op = ParentOp(pl, scope),
            !.op_scope = IF nest THEN Len(s.scopes) + 1 ELSE pl.op_scope]

\* The level that is entered has good links.
LEMMA EnteredIs ==
  ASSUME NEW s, Shape(s), s.pls # <<>>, NEW scope \in {"nest", "block"}
  PROVE  LET new == Entered(s, scope)
             t   == enter_level(s, scope)
         IN  /\ DOMAIN new = LevelFields
             /\ new.scope = scope /\ new.local = 0
             /\ new.parent_op = ParentOp(Level(s), scope)
             /\ new.op_scope = (IF scope = "nest" THEN Len(s.scopes) + 1 ELSE Level(s).op_scope)
             /\ LevelOK(new, Len(s.ops), Len(s.evs),
                        IF scope = "nest" THEN Len(s.scopes) + 1 ELSE Len(s.scopes))
             /\ DOMAIN t = ParserFields
             /\ t.scopes = (IF scope = "nest" THEN Append(s.scopes, <<>>) ELSE s.scopes)
             /\ t.pls = Append(s.pls, new)
             /\ t.ops = s.ops /\ t.evs = s.evs /\ t.durs = s.durs
             /\ t.first_ev = s.first_ev /\ t.ev = s.ev /\ t.label = s.label
<1> DEFINE new == Entered(s, scope)
           t   == enter_level(s, scope)
           pl  == Level(s)
<1>1. LevelOK(pl, Len(s.ops), Len(s.evs), Len(s.scopes)) /\ Len(s.scopes) \in Nat
  BY LastLevel, SeqFacts, Zenon DEF LevelHere, Shape
<1>2. /\ DOMAIN new = LevelFields
      /\ new.scope = scope /\ new.local = 0
      /\ new.parent_op = ParentOp(pl, scope)
      /\ new.op_scope = (IF scope = "nest" THEN Len(s.scopes) + 1 ELSE pl.op_scope)
      /\ new.operator = pl.operator /\ new.event = pl.event /\ new.op_prev = 0
      /\ new.active_op = FALSE /\ new.set_label = None
  BY DEF Entered, TopLevel, LevelFields
<1> DEFINE lists == IF scope = "nest" THEN Len(s.scopes) + 1 ELSE Len(s.scopes)
<1>3. new.op_scope \in 0..lists
  <2>1. pl.op_scope \in 0..Len(s.scopes)
    BY <1>1 DEF LevelOK
  <2> HIDE DEF pl, new
  <2>2. CASE scope = "nest"
    BY <1>1, <1>2, <2>2
  <2>3. CASE scope # "nest"
    BY <1>1, <1>2, <2>1, <2>3
  <2>4. QED
    BY <2>2, <2>3
<1>4. LevelOK(new, Len(s.ops), Len(s.evs), lists)
  <2>1. pl.operator \in 0..Len(s.ops) /\ pl.parent_op \in 0..Len(s.ops)
        /\ pl.event \in 0..Len(s.evs) /\ Len(s.ops) \in Nat
    BY <1>1, SeqFacts DEF LevelOK, Shape
  <2>2. new.parent_op \in 0..Len(s.ops) /\ 0 \in 0..Len(s.ops)
    BY <1>2, <2>1 DEF ParentOp
  <2> HIDE DEF new, pl, lists
  <2>3. QED
    BY <1>2, <1>3, <2>1, <2>2 DEF LevelOK
<1>5. /\ DOMAIN t = ParserFields
      /\ t.scopes = (IF scope = "nest" THEN Append(s.scopes, <<>>) ELSE s.scopes)
      /\ t.pls = Append(s.pls, new)
      /\ t.ops = s.ops /\ t.evs = s.evs /\ t.durs = s.durs
      /\ t.first_ev = s.first_ev /\ t.ev = s.ev /\ t.label = s.label
  BY DEF enter_level, Entered, Shape, ParserFields
<1>6. QED
  BY <1>2, <1>4, <1>5

\* The shape and the stack of what is entered; lists may have been added.
Enters(s, new, t) ==
    /\ Shape(s) /\ s.pls # <<>> /\ Stack(s)
    /\ DOMAIN t = ParserFields
    /\ IsSeq(t.scopes) /\ Len(s.scopes) <= Len(t.scopes)
    /\ \A l \in 1..Len(t.scopes) : IsSeq(t.scopes[l])
    /\ t.pls = Append(s.pls, new)
    /\ t.ops = s.ops /\ t.evs = s.evs /\ t.durs = s.durs
    /\ t.first_ev = s.first_ev /\ t.ev = s.ev /\ t.label = s.label
    /\ LevelOK(new, Len(s.ops), Len(s.evs), Len(t.scopes))
    /\ new.scope \in {"nest", "block"} /\ new.local = 0
    /\ new.scope = "block" => Level(s).local = 0

\* The stack with a level more.
LEMMA StackEntered ==
  ASSUME NEW s, NEW new, NEW t, Enters(s, new, t)
  PROVE  /\ Shape(t) /\ Stack(t)
         /\ Len(s.pls) \in Nat \ {0}
         /\ Len(t.pls) = Len(s.pls) + 1
         /\ \A k \in 1..Len(s.pls) : t.pls[k] = s.pls[k]
         /\ t.pls[Len(s.pls) + 1] = new
<1>0. Enters(s, new, t)
  OBVIOUS
<1>1. Len(s.pls) \in Nat \ {0} /\ IsSeq(s.pls) /\ Len(s.scopes) \in Nat
      /\ Len(s.ops) \in Nat /\ Len(s.evs) \in Nat /\ Len(t.scopes) \in Nat
  BY LastLevel, SeqFacts DEF Shape, Enters
<1>2. /\ IsSeq(t.pls) /\ Len(t.pls) = Len(s.pls) + 1
      /\ \A k \in 1..Len(s.pls) : t.pls[k] = s.pls[k]
      /\ t.pls[Len(s.pls) + 1] = new
  BY <1>1, SeqAppended DEF Enters
<1>3. \A k \in 1..Len(t.pls) : k \in 1..Len(s.pls) \/ k = Len(s.pls) + 1
  BY <1>1, <1>2
<1>4. \A k \in 1..Len(t.pls) : LevelOK(t.pls[k], Len(s.ops), Len(s.evs), Len(t.scopes))
  <2>1. \A k \in 1..Len(s.pls) : LevelOK(s.pls[k], Len(s.ops), Len(s.evs), Len(t.scopes))
    BY <1>1, LevelGrows DEF Shape, Enters
  <2>2. QED
    BY <1>2, <1>3, <2>1 DEF Enters
<1>5. Shape(t)
  BY <1>2, <1>4 DEF Shape, Enters
<1>6. \A k \in 1..Len(t.pls) : /\ t.pls[k].scope = "top" <=> k = 1
                               /\ k = 1 => t.pls[k].op_scope = 0
                               /\ t.pls[k].local > 0 => t.pls[k].operator > 0
  <2> TAKE k \in 1..Len(t.pls)
  <2>1. CASE k \in 1..Len(s.pls)
    BY <1>2, <2>1 DEF Stack, Enters
  <2>2. CASE k = Len(s.pls) + 1
    BY <1>1, <1>2, <2>2 DEF Enters
  <2>3. QED
    BY <1>3, <2>1, <2>2
<1>7. \A k \in 2..Len(t.pls) : t.pls[k].scope = "block" => t.pls[k - 1].local = 0
  <2> TAKE k \in 2..Len(t.pls)
  <2>1. CASE k \in 1..Len(s.pls)
    <3>1. k \in 2..Len(s.pls) /\ k - 1 \in 1..Len(s.pls)
      BY <1>1, <2>1
    <3>2. QED
      BY <1>2, <2>1, <3>1 DEF Stack, Enters
  <2>2. CASE k = Len(s.pls) + 1
    <3>1. k - 1 = Len(s.pls) /\ Len(s.pls) \in 1..Len(s.pls)
      BY <1>1, <2>2
    <3>2. t.pls[k - 1] = Level(s) /\ t.pls[k] = new
      BY <1>2, <2>2, <3>1 DEF Level, Last
    <3>3. QED
      BY <3>2 DEF Enters
  <2>3. k \in 1..Len(t.pls)
    BY <1>1, <1>2
  <2>4. k \in 1..Len(s.pls) \/ k = Len(s.pls) + 1
    BY <1>3, <2>3
  <2>5. QED
    BY <2>1, <2>2, <2>4
<1>8. Stack(t)
  BY <1>6, <1>7 DEF Stack
<1>9. QED
  BY <1>1, <1>2, <1>5, <1>8

\* A "<" level shares the list of the one around it.
LEMMA EnterBlock ==
  ASSUME NEW s, TreeInv(s), s.pls # <<>>, Level(s).local = 0
  PROVE  TreeInv(enter_level(s, "block"))
<1> DEFINE t   == enter_level(s, "block")
           new == Entered(s, "block")
<1>1. Shape(s) /\ Stack(s) /\ Lists(s) /\ Owned(s)
  BY DEF TreeInv
<1>2. /\ DOMAIN new = LevelFields
      /\ new.scope = "block" /\ new.local = 0
      /\ LevelOK(new, Len(s.ops), Len(s.evs), Len(s.scopes))
      /\ DOMAIN t = ParserFields /\ t.scopes = s.scopes
      /\ t.pls = Append(s.pls, new)
      /\ t.ops = s.ops /\ t.evs = s.evs /\ t.durs = s.durs
      /\ t.first_ev = s.first_ev /\ t.ev = s.ev /\ t.label = s.label
  BY <1>1, EnteredIs
<1> HIDE DEF t, new
<1>3. /\ Shape(t) /\ Stack(t)
      /\ Len(s.pls) \in Nat \ {0}
      /\ Len(t.pls) = Len(s.pls) + 1
      /\ \A k \in 1..Len(s.pls) : t.pls[k] = s.pls[k]
      /\ t.pls[Len(s.pls) + 1] = new
  <2>1. IsSeq(t.scopes) /\ Len(s.scopes) <= Len(t.scopes)
        /\ \A l \in 1..Len(t.scopes) : IsSeq(t.scopes[l])
    BY <1>1, <1>2, SeqFacts DEF Shape
  <2>2. LevelOK(new, Len(s.ops), Len(s.evs), Len(t.scopes))
    BY <1>2
  <2>3. Enters(s, new, t)
    BY <1>1, <1>2, <2>1, <2>2 DEF Enters
  <2>4. QED
    BY <2>3, StackEntered
<1>4. Lists(t)
  BY <1>1, <1>2, ListsOnly
<1>5. \A k \in 1..Len(t.pls) : t.pls[k].scope = "nest" =>
                                 k \in 1..Len(s.pls) /\ t.pls[k] = s.pls[k]
  <2>1. \A k \in 1..Len(t.pls) : k \in 1..Len(s.pls) \/ k = Len(s.pls) + 1
    BY <1>3
  <2>2. QED
    BY <1>2, <1>3, <2>1
<1>6. /\ \A o, l : Owns(t, o, l) <=> Owns(s, o, l)
      /\ \A k \in 1..Len(s.pls) : \A l : Opens(t, k, l) <=> Opens(s, k, l)
      /\ 1..Len(s.pls) \subseteq 1..Len(t.pls)
  BY <1>2, <1>3 DEF Owns, Opens
<1>7. /\ \A o \in 1..Len(t.ops) : \A i \in 1..Len(t.ops[o].scopes) :
           t.ops[o].scopes[i] \in 1..Len(t.scopes)
      /\ \A o \in 1..Len(t.ops) : \A l \in 1..Len(t.scopes) : Owns(t, o, l) =>
           \A i \in 1..Len(t.scopes[l]) : o < t.scopes[l][i]
      /\ \A n, o \in 1..Len(t.ops) : \A l \in 1..Len(t.scopes) :
           Owns(t, n, l) /\ Owns(t, o, l) => n = o
  BY <1>1, <1>2, <1>6 DEF Owned
<1>8. \A k \in 1..Len(t.pls) : t.pls[k].scope = "nest" =>
        /\ t.pls[k].op_scope # 0
        /\ t.pls[k].parent_op # 0
        /\ \A i \in 1..Len(t.scopes[t.pls[k].op_scope]) :
               t.pls[k].parent_op < t.scopes[t.pls[k].op_scope][i]
        /\ \A o \in 1..Len(t.ops) : ~Owns(t, o, t.pls[k].op_scope)
  <2> SUFFICES ASSUME NEW k \in 1..Len(s.pls), s.pls[k].scope = "nest"
               PROVE  /\ s.pls[k].op_scope # 0
                      /\ s.pls[k].parent_op # 0
                      /\ \A i \in 1..Len(t.scopes[s.pls[k].op_scope]) :
                             s.pls[k].parent_op < t.scopes[s.pls[k].op_scope][i]
                      /\ \A o \in 1..Len(t.ops) : ~Owns(t, o, s.pls[k].op_scope)
    BY <1>5, Zenon
  <2>1. /\ s.pls[k].op_scope # 0
        /\ s.pls[k].parent_op # 0
        /\ \A i \in 1..Len(s.scopes[s.pls[k].op_scope]) :
               s.pls[k].parent_op < s.scopes[s.pls[k].op_scope][i]
        /\ \A o \in 1..Len(s.ops) : ~Owns(s, o, s.pls[k].op_scope)
    BY <1>1 DEF Owned
  <2>2. QED
    BY <1>2, <1>6, <2>1
<1>9. \A j, k \in 1..Len(t.pls) : \A l \in 1..Len(t.scopes) :
           Opens(t, j, l) /\ Opens(t, k, l) => j = k
  <2>1. \A k \in 1..Len(t.pls) : \A l : Opens(t, k, l) =>
                                          k \in 1..Len(s.pls) /\ Opens(s, k, l)
    BY <1>5 DEF Opens
  <2>2. QED
    BY <1>1, <1>2, <2>1 DEF Owned
<1>10. \A l \in 1..Len(t.scopes) :
           \/ \E o \in 1..Len(t.ops) : Owns(t, o, l)
           \/ \E k \in 1..Len(t.pls) : Opens(t, k, l)
  BY <1>1, <1>2, <1>6 DEF Owned
<1>11. Owned(t)
  BY <1>7, <1>8, <1>9, <1>10 DEF Owned
<1>12. QED
  BY <1>3, <1>4, <1>11 DEF TreeInv, t

\* A "[" level has a list of its own, empty and of no owner yet.
LEMMA EnterNest ==
  ASSUME NEW s, TreeInv(s), s.pls # <<>>, Level(s).operator > 0
  PROVE  TreeInv(enter_level(s, "nest"))
<1> DEFINE t   == enter_level(s, "nest")
           new == Entered(s, "nest")
           l   == Len(s.scopes) + 1
<1>1. Shape(s) /\ Stack(s) /\ Lists(s) /\ Owned(s)
  BY DEF TreeInv
<1>2. /\ DOMAIN new = LevelFields
      /\ new.scope = "nest" /\ new.local = 0
      /\ new.parent_op = Level(s).operator
      /\ new.op_scope = l
      /\ LevelOK(new, Len(s.ops), Len(s.evs), l)
      /\ DOMAIN t = ParserFields /\ t.scopes = Append(s.scopes, <<>>)
      /\ t.pls = Append(s.pls, new)
      /\ t.ops = s.ops /\ t.evs = s.evs /\ t.durs = s.durs
      /\ t.first_ev = s.first_ev /\ t.ev = s.ev /\ t.label = s.label
  BY <1>1, EnteredIs DEF ParentOp
<1> HIDE DEF t, new
<1>3. Len(s.scopes) \in Nat /\ IsSeq(s.scopes) /\ IsSeq(<<>>)
  <2>1. <<>> \in Seq({})
    OBVIOUS
  <2>2. QED
    BY <1>1, <2>1, SeqFacts, SeqKnown, Zenon DEF Shape
<1>4. /\ IsSeq(t.scopes) /\ Len(t.scopes) = l
      /\ \A m \in 1..Len(s.scopes) : t.scopes[m] = s.scopes[m]
      /\ t.scopes[l] = <<>>
  BY <1>2, <1>3, SeqAppended
<1>5. \A m \in 1..l : m \in 1..Len(s.scopes) \/ m = l
  BY <1>3
<1>6. l \notin 1..Len(s.scopes) /\ 1..Len(s.scopes) \subseteq 1..l /\ l \in 1..l /\ l # 0
      /\ \A i \in 1..Len(t.scopes[l]) : FALSE
  BY <1>3, <1>4
<1> HIDE DEF l
<1>7. /\ Shape(t) /\ Stack(t)
      /\ Len(s.pls) \in Nat \ {0}
      /\ Len(t.pls) = Len(s.pls) + 1
      /\ \A k \in 1..Len(s.pls) : t.pls[k] = s.pls[k]
      /\ t.pls[Len(s.pls) + 1] = new
  <2>1. Len(s.scopes) <= Len(t.scopes)
    BY <1>3, <1>4 DEF l
  <2>2. \A m \in 1..Len(t.scopes) : IsSeq(t.scopes[m])
    BY <1>1, <1>3, <1>4, <1>5 DEF Shape
  <2>3. LevelOK(new, Len(s.ops), Len(s.evs), Len(t.scopes))
    BY <1>2, <1>4
  <2>4. Enters(s, new, t)
    BY <1>1, <1>2, <1>4, <2>1, <2>2, <2>3 DEF Enters
  <2>5. QED
    BY <2>4, StackEntered
<1>8. Lists(t)
  <2>1. \A m \in 1..Len(t.scopes) : \A i \in 1..Len(t.scopes[m]) :
           m \in 1..Len(s.scopes) /\ t.scopes[m] = s.scopes[m]
    BY <1>4, <1>5, <1>6
  <2>2. \A m \in 1..Len(t.scopes) : \A i \in 1..Len(t.scopes[m]) :
           /\ t.scopes[m][i] \in 1..Len(t.ops)
           /\ t.ops[t.scopes[m][i]].nested /\ t.ops[t.scopes[m][i]].prev = 0
    BY <1>1, <1>2, <2>1 DEF Lists
  <2>3. \A m, n \in 1..Len(t.scopes) :
           \A i \in 1..Len(t.scopes[m]), j \in 1..Len(t.scopes[n]) :
              t.scopes[m][i] = t.scopes[n][j] => m = n /\ i = j
    <3> TAKE m, n \in 1..Len(t.scopes)
    <3> TAKE i \in 1..Len(t.scopes[m]), j \in 1..Len(t.scopes[n])
    <3>1. /\ m \in 1..Len(s.scopes) /\ t.scopes[m] = s.scopes[m]
          /\ n \in 1..Len(s.scopes) /\ t.scopes[n] = s.scopes[n]
      BY <2>1
    <3>2. i \in 1..Len(s.scopes[m]) /\ j \in 1..Len(s.scopes[n])
      BY <3>1
    <3>3. s.scopes[m][i] = s.scopes[n][j] => m = n /\ i = j
      BY <1>1, <3>1, <3>2 DEF Lists
    <3>4. QED
      BY <3>1, <3>3
  <2>4. \A o \in 1..Len(t.ops) :
           t.ops[o].nested /\ t.ops[o].prev = 0 =>
              \E m \in 1..Len(t.scopes) : \E i \in 1..Len(t.scopes[m]) : t.scopes[m][i] = o
    <3> SUFFICES ASSUME NEW o \in 1..Len(s.ops), s.ops[o].nested, s.ops[o].prev = 0
                 PROVE  \E m \in 1..Len(t.scopes) : \E i \in 1..Len(t.scopes[m]) :
                           t.scopes[m][i] = o
      BY <1>2
    <3>1. \E m \in 1..Len(s.scopes) : \E i \in 1..Len(s.scopes[m]) : s.scopes[m][i] = o
      BY <1>1 DEF Lists
    <3>2. QED
      BY <1>4, <1>6, <3>1, SMTT(30)
  <2>5. QED
    BY <2>2, <2>3, <2>4, Zenon DEF Lists
<1>9. \A o, m : Owns(t, o, m) <=> Owns(s, o, m)
  BY <1>2 DEF Owns
<1>10. \A o \in 1..Len(s.ops) : \A m : Owns(s, o, m) => m \in 1..Len(s.scopes)
  BY <1>1 DEF Owned, Owns
<1>11. \A k \in 1..Len(t.pls) : k \in 1..Len(s.pls) \/ k = Len(s.pls) + 1
  BY <1>7
<1>12. \A k \in 1..Len(s.pls) : s.pls[k].scope = "nest" => s.pls[k].op_scope \in 1..Len(s.scopes)
  <2> TAKE k \in 1..Len(s.pls)
  <2> HAVE s.pls[k].scope = "nest"
  <2> DEFINE m == s.pls[k].op_scope
  <2>1. m \in 0..Len(s.scopes) /\ m # 0
    BY <1>1 DEF Shape, LevelOK, Owned
  <2> HIDE DEF m
  <2>2. m \in 1..Len(s.scopes)
    BY <1>3, <2>1
  <2>3. QED
    BY <2>2 DEF m
<1>13. \A o \in 1..Len(t.ops) : \A i \in 1..Len(t.ops[o].scopes) :
           t.ops[o].scopes[i] \in 1..Len(t.scopes)
  BY <1>1, <1>2, <1>4, <1>6 DEF Owned
<1>14. \A o \in 1..Len(t.ops) : \A m \in 1..Len(t.scopes) : Owns(t, o, m) =>
           \A i \in 1..Len(t.scopes[m]) : o < t.scopes[m][i]
  BY <1>1, <1>2, <1>4, <1>9, <1>10 DEF Owned
<1>15. \A n, o \in 1..Len(t.ops) : \A m \in 1..Len(t.scopes) :
           Owns(t, n, m) /\ Owns(t, o, m) => n = o
  BY <1>1, <1>2, <1>9, <1>10 DEF Owned
<1>16. \A k \in 1..Len(t.pls) : t.pls[k].scope = "nest" =>
        /\ t.pls[k].op_scope # 0
        /\ t.pls[k].parent_op # 0
        /\ \A i \in 1..Len(t.scopes[t.pls[k].op_scope]) :
               t.pls[k].parent_op < t.scopes[t.pls[k].op_scope][i]
        /\ \A o \in 1..Len(t.ops) : ~Owns(t, o, t.pls[k].op_scope)
  <2> SUFFICES ASSUME NEW k \in 1..Len(t.pls), t.pls[k].scope = "nest"
               PROVE  /\ t.pls[k].op_scope # 0
                      /\ t.pls[k].parent_op # 0
                      /\ \A i \in 1..Len(t.scopes[t.pls[k].op_scope]) :
                             t.pls[k].parent_op < t.scopes[t.pls[k].op_scope][i]
                      /\ \A o \in 1..Len(t.ops) : ~Owns(t, o, t.pls[k].op_scope)
    OBVIOUS
  <2>1. CASE k \in 1..Len(s.pls)
    <3>1. t.pls[k] = s.pls[k] /\ s.pls[k].scope = "nest"
          /\ s.pls[k].op_scope \in 1..Len(s.scopes)
      BY <1>7, <1>12, <2>1
    <3>2. /\ s.pls[k].op_scope # 0
          /\ s.pls[k].parent_op # 0
          /\ \A i \in 1..Len(s.scopes[s.pls[k].op_scope]) :
                 s.pls[k].parent_op < s.scopes[s.pls[k].op_scope][i]
          /\ \A o \in 1..Len(s.ops) : ~Owns(s, o, s.pls[k].op_scope)
      BY <1>1, <2>1, <3>1 DEF Owned
    <3>3. t.scopes[s.pls[k].op_scope] = s.scopes[s.pls[k].op_scope]
      BY <1>4, <3>1
    <3>4. QED
      BY <1>2, <1>9, <3>1, <3>2, <3>3, Zenon
  <2>2. CASE k = Len(s.pls) + 1
    <3>1. t.pls[k] = new
      BY <1>7, <2>2
    <3>2. new.op_scope = l /\ new.parent_op # 0
      BY <1>2
    <3>3. \A o \in 1..Len(t.ops) : ~Owns(t, o, l)
      BY <1>2, <1>6, <1>9, <1>10
    <3>4. QED
      BY <1>6, <3>1, <3>2, <3>3
  <2>3. QED
    BY <1>11, <2>1, <2>2
<1>17. /\ \A k \in 1..Len(s.pls) : \A m :
             Opens(t, k, m) <=> Opens(s, k, m)
       /\ \A k \in 1..Len(s.pls) : \A m : Opens(s, k, m) => m \in 1..Len(s.scopes)
       /\ \A m : Opens(t, Len(s.pls) + 1, m) <=> m = l
       /\ 1..Len(s.pls) \subseteq 1..Len(t.pls)
       /\ Len(s.pls) + 1 \in 1..Len(t.pls)
  BY <1>2, <1>7, <1>12 DEF Opens
<1>18. \A j, k \in 1..Len(t.pls) : \A m \in 1..Len(t.scopes) :
           Opens(t, j, m) /\ Opens(t, k, m) => j = k
  <2> TAKE j, k \in 1..Len(t.pls)
  <2> TAKE m \in 1..Len(t.scopes)
  <2> HAVE Opens(t, j, m) /\ Opens(t, k, m)
  <2>1. CASE m = l
    BY <1>6, <1>11, <1>17, <2>1
  <2>2. CASE m # l
    <3>1. j \in 1..Len(s.pls) /\ k \in 1..Len(s.pls) /\ m \in 1..Len(s.scopes)
      BY <1>11, <1>17, <2>2
    <3>2. QED
      BY <1>1, <1>17, <3>1 DEF Owned
  <2>3. QED
    BY <2>1, <2>2
<1>19. \A m \in 1..Len(t.scopes) :
           \/ \E o \in 1..Len(t.ops) : Owns(t, o, m)
           \/ \E k \in 1..Len(t.pls) : Opens(t, k, m)
  <2> TAKE m \in 1..Len(t.scopes)
  <2>1. CASE m = l
    BY <1>17, <2>1
  <2>2. CASE m \in 1..Len(s.scopes)
    <3>1. \/ \E o \in 1..Len(s.ops) : Owns(s, o, m)
          \/ \E k \in 1..Len(s.pls) : Opens(s, k, m)
      BY <1>1, <2>2 DEF Owned
    <3>2. QED
      BY <1>2, <1>9, <1>17, <3>1
  <2>3. QED
    BY <1>4, <1>5, <2>1, <2>2
<1>20. Owned(t)
  BY <1>13, <1>14, <1>15, <1>16, <1>18, <1>19 DEF Owned
<1>21. QED
  BY <1>7, <1>8, <1>20 DEF TreeInv, t

\* The call of the script ends, and with it the last event.
LEMMA LeaveTop ==
  ASSUME NEW s, TreeInv(s), s.pls # <<>>, Level(s).scope = "top"
  PROVE  TreeInv(leave_level(s)) /\ leave_level(s).pls = <<>>
<1> DEFINE ended == end_operator(s)
           u     == end_event(ended)
           t     == leave_level(s)
<1>1. /\ Shape(ended) /\ Quiet(s, ended) /\ ended.pls # <<>>
      /\ SameCall(Level(s), Level(ended))
  BY EndOperator DEF TreeInv
<1> HIDE DEF ended
<1>2. Shape(u) /\ SameNodes(ended, u)
  BY <1>1, EndEvent
<1>3. t = [u EXCEPT !.pls = <<>>]
  BY <1>1 DEF leave_level, ended, SameCall
<1> HIDE DEF u, t
<1>4. /\ DOMAIN t = ParserFields /\ t.pls = <<>> /\ t.ops = u.ops /\ t.evs = u.evs
      /\ t.scopes = u.scopes /\ t.durs = u.durs /\ t.first_ev = u.first_ev /\ t.ev = u.ev
      /\ t.label = u.label
  BY <1>2, <1>3 DEF Shape, ParserFields
<1>5. Len(t.pls) = 0 /\ IsSeq(t.pls)
  <2>1. <<>> \in Seq({})
    OBVIOUS
  <2>2. QED
    BY <1>4, <2>1, SeqKnown, SeqFacts, Zenon
<1>6. Shape(t)
  BY <1>2, <1>4, <1>5 DEF Shape
<1>7. Len(s.pls) = 1
  <2>1. Len(s.pls) \in Nat \ {0} /\ Level(s) = s.pls[Len(s.pls)]
    BY LastLevel DEF TreeInv
  <2>2. Len(s.pls) \in 1..Len(s.pls)
    BY <2>1
  <2>3. QED
    BY <2>1, <2>2, Zenon DEF TreeInv, Stack
<1>8. SameNodes(s, t)
  BY <1>1, <1>2, <1>4 DEF Quiet, SameNodes, SameOp
<1>9. Lists(t) /\ Owned(t)
  <2>1. Len(s.pls) \in Nat \ {0} /\ Len(t.pls) = Len(s.pls) - 1
    BY <1>5, <1>7
  <2>2. \A k \in 1..(Len(s.pls) - 1) : FALSE
    BY <1>7
  <2>3. QED
    BY <1>8, <2>1, <2>2, TreesPopped DEF TreeInv
<1>10. Stack(t)
  <2>1. (\A k \in 1..Len(t.pls) : FALSE) /\ (\A k \in 2..Len(t.pls) : FALSE)
    BY <1>5
  <2>2. QED
    BY <2>1 DEF Stack
<1>11. QED
  BY <1>4, <1>6, <1>9, <1>10 DEF TreeInv, t

\* What a block leaves behind in the level around it.
BlockEvent(outer, pl) ==
    IF pl.active_ev
    THEN LET o == end_event(outer)
         IN  SetLevel(o, [Level(o) EXCEPT !.active_ev = TRUE, !.event = pl.event])
    ELSE outer

AfterBlock(block, pl) ==
    SetLevel(block, [Level(block) EXCEPT
                        !.last_event = IF pl.last_event # 0 THEN pl.last_event ELSE @])

\* The level is the same call, of the same nodes.
SameLevelCall(s, t) ==
    /\ Shape(t) /\ t.pls # <<>> /\ SameNodes(s, t) /\ SameOuter(s, t)
    /\ Level(t).scope = Level(s).scope /\ Level(t).op_scope = Level(s).op_scope
    /\ Level(t).parent_op = Level(s).parent_op /\ Level(t).local = Level(s).local

\* The same call, after two steps.
LEMMA SameLevelCallTrans ==
  ASSUME NEW s, NEW t, NEW u, SameLevelCall(s, t), SameLevelCall(t, u)
  PROVE  SameLevelCall(s, u)
BY DEF SameLevelCall, SameNodes, SameOp, SameOuter

\* A level changed in what the call does not depend on.
LEMMA LevelChanged ==
  ASSUME NEW s, Shape(s), s.pls # <<>>, NEW ql, LevelHere(s, ql),
         ql.scope = Level(s).scope, ql.op_scope = Level(s).op_scope,
         ql.parent_op = Level(s).parent_op, ql.local = Level(s).local
  PROVE  SameLevelCall(s, SetLevel(s, ql))
BY SetLevelShape DEF SameLevelCall

\* What a block leaves behind is no link of nodes or lists.
LEMMA BlockKept ==
  ASSUME NEW s, Shape(s), s.pls # <<>>, NEW pl, pl.event \in 0..Len(s.evs)
  PROVE  SameLevelCall(s, AfterBlock(BlockEvent(s, pl), pl))
<1> DEFINE b == BlockEvent(s, pl)
           t == AfterBlock(b, pl)
<1>1. SameLevelCall(s, b)
  <2>1. CASE ~pl.active_ev
    BY <2>1 DEF BlockEvent, SameLevelCall, SameNodes, SameOp, SameOuter
  <2>2. CASE pl.active_ev
    <3> DEFINE o  == end_event(s)
               ql == [Level(o) EXCEPT !.active_ev = TRUE, !.event = pl.event]
    <3>1. b = SetLevel(o, ql)
      BY <2>2 DEF BlockEvent
    <3>2. /\ Shape(o) /\ SameNodes(s, o) /\ SameOuter(s, o) /\ o.pls # <<>>
          /\ SameCall(Level(s), Level(o)) /\ SameLinks(s, o)
      BY EndEvent
    <3> HIDE DEF o, b
    <3>3. LevelHere(o, Level(o)) /\ Len(o.evs) = Len(s.evs)
      BY <3>2, LastLevel DEF SameLinks
    <3>4. /\ LevelHere(o, ql)
          /\ ql.scope = Level(o).scope /\ ql.op_scope = Level(o).op_scope
          /\ ql.parent_op = Level(o).parent_op /\ ql.local = Level(o).local
      BY <3>3 DEF LevelHere, LevelOK, LevelFields
    <3> HIDE DEF ql
    <3>5. SameLevelCall(o, b)
      BY <3>1, <3>2, <3>4, LevelChanged
    <3>6. SameLevelCall(s, o)
      BY <3>2 DEF SameLevelCall, SameCall
    <3>7. QED
      BY <3>5, <3>6, SameLevelCallTrans DEF b
  <2>3. QED
    BY <2>1, <2>2
<1> HIDE DEF b
<1> DEFINE ql == [Level(b) EXCEPT
                    !.last_event = IF pl.last_event # 0 THEN pl.last_event ELSE @]
<1>2. Shape(b) /\ b.pls # <<>>
  BY <1>1 DEF SameLevelCall
<1>3. t = SetLevel(b, ql)
  BY DEF AfterBlock
<1>4. /\ LevelHere(b, ql)
      /\ ql.scope = Level(b).scope /\ ql.op_scope = Level(b).op_scope
      /\ ql.parent_op = Level(b).parent_op /\ ql.local = Level(b).local
  <2>1. LevelHere(b, Level(b))
    BY <1>2, LastLevel
  <2>2. QED
    BY <2>1 DEF LevelHere, LevelOK, LevelFields
<1> HIDE DEF ql, t
<1>5. SameLevelCall(b, t)
  BY <1>2, <1>3, <1>4, LevelChanged
<1>6. QED
  BY <1>1, <1>5, SameLevelCallTrans DEF t, b

\* When "<" is closed the lists stay as they are.
LEMMA LeaveBlock ==
  ASSUME NEW s, TreeInv(s), s.pls # <<>>, Level(s).scope = "block"
  PROVE  TreeInv(leave_level(s)) /\ leave_level(s).pls # <<>> /\ Level(leave_level(s)).local = 0
<1> DEFINE ended == end_operator(s)
           pl    == Level(ended)
           outer == Popped(ended)
           t     == leave_level(s)
           n     == Len(s.pls)
<1>1. /\ Shape(ended) /\ Quiet(s, ended) /\ ended.pls # <<>> /\ SameCall(Level(s), pl)
  BY EndOperator DEF TreeInv
<1> HIDE DEF ended
<1>2. pl.scope = "block" /\ LevelHere(ended, pl)
  BY <1>1, LastLevel DEF SameCall
<1>3. t = AfterBlock(BlockEvent(outer, pl), pl)
  BY <1>2 DEF leave_level, ended, Popped, BlockEvent, AfterBlock
<1>4. n \in Nat /\ n > 1 /\ Level(s) = s.pls[n] /\ Len(ended.pls) = n
      /\ \A k \in 1..(n - 1) : ended.pls[k] = s.pls[k]
  <2>1. n \in Nat \ {0} /\ Level(s) = s.pls[n]
    BY LastLevel DEF TreeInv
  <2>2. n # 1
    BY <2>1 DEF TreeInv, Stack
  <2>3. Len(ended.pls) = n /\ \A k \in 1..(n - 1) : ended.pls[k] = s.pls[k]
    BY <1>1 DEF Quiet, SameOuter
  <2> HIDE DEF n
  <2>4. QED
    BY <2>1, <2>2, <2>3
<1>5. Inside(s, ended)
  BY <1>1, SameNodesInside DEF TreeInv, Quiet, SameLevel
<1>6. /\ Shape(outer) /\ SameNodes(ended, outer) /\ SameEvents(ended, outer)
      /\ Len(outer.pls) = n - 1
      /\ \A k \in 1..(n - 1) : outer.pls[k] = ended.pls[k]
  BY <1>1, <1>4, Popping
<1> HIDE DEF outer, n, pl, t
<1>7. outer.pls # <<>> /\ Level(outer) = s.pls[n - 1] /\ Level(outer).local = 0
  <2>1. Len(outer.pls) # 0 /\ IsSeq(outer.pls) /\ n - 1 \in 1..(n - 1) /\ n \in 2..n
    BY <1>4, <1>6 DEF Shape
  <2>2. outer.pls # <<>>
    BY <2>1, SeqFacts
  <2>3. Level(outer) = s.pls[n - 1]
    BY <1>4, <1>6, <2>1 DEF Level, Last
  <2>4. s.pls[n - 1].local = 0
    BY <1>4, <2>1 DEF TreeInv, Stack, n
  <2>5. QED
    BY <2>2, <2>3, <2>4
<1>8. Lists(outer) /\ Owned(outer)
  <2>1. Len(ended.pls) \in Nat \ {0} /\ Len(outer.pls) = Len(ended.pls) - 1
    BY <1>4, <1>6
  <2>2. \A k \in 1..(Len(ended.pls) - 1) : outer.pls[k].scope = ended.pls[k].scope
                                        /\ outer.pls[k].op_scope = ended.pls[k].op_scope
                                        /\ outer.pls[k].parent_op = ended.pls[k].parent_op
    BY <1>4, <1>6
  <2>3. Level(ended).scope # "nest" /\ Lists(ended) /\ Owned(ended)
    BY <1>2, <1>5 DEF Inside, pl
  <2>4. QED
    BY <1>1, <1>6, <2>1, <2>2, <2>3, TreesPopped
<1>9. Stack(outer)
  <2>1. /\ n \in Nat \ {0} /\ Len(outer.pls) = n - 1 /\ n = Len(s.pls)
        /\ \A k \in 1..(n - 1) : outer.pls[k] = s.pls[k]
    BY <1>4, <1>6 DEF n
  <2>2. QED
    BY <2>1, StackPopped DEF TreeInv
<1>10. SameLevelCall(outer, t)
  <2>1. pl.event \in 0..Len(outer.evs)
    BY <1>2, <1>6 DEF LevelHere, LevelOK, SameEvents
  <2>2. QED
    BY <1>3, <1>6, <1>7, <2>1, BlockKept
<1>11. Inside(outer, t)
  BY <1>6, <1>7, <1>8, <1>10, SameNodesInside DEF SameLevelCall
<1>12. TreeInv(t)
  <2>1. Steady(Level(t)) /\ Level(t).local = 0 /\ t.pls # <<>>
    BY <1>7, <1>10 DEF SameLevelCall, Steady
  <2>2. QED
    BY <1>6, <1>7, <1>9, <1>11, <2>1, StackInside
<1>13. QED
  BY <1>7, <1>10, <1>12 DEF SameLevelCall, t

-----------------------------------------------------------------------------
(* Steps that leave the nodes where they are. *)

\* The same nodes, events and levels; the level's open nodes are the same.
Calm(s, t) ==
    Shape(t) /\ t.pls # <<>> /\ Quiet(s, t) /\ Level(t).operator = Level(s).operator

\* Leaving nodes where they are, twice.
LEMMA CalmTrans ==
  ASSUME NEW s, NEW t, NEW u, Calm(s, t), Calm(t, u)
  PROVE  Calm(s, u)
BY QuietTrans DEF Calm

\* Nothing leaves nodes where they are.
LEMMA CalmHere ==
  ASSUME NEW s, Shape(s), s.pls # <<>>
  PROVE  Calm(s, s)
BY SameHere DEF Calm

\* With the nodes where they are, lists are trees as before.
LEMMA CalmInside ==
  ASSUME NEW s, TreeInv(s), s.pls # <<>>, NEW t, Calm(s, t)
  PROVE  Inside(s, t)
BY SameNodesInside DEF Calm, Quiet, TreeInv, SameLevel

\* ... and the invariant holds as before.
LEMMA CalmTree ==
  ASSUME NEW s, TreeInv(s), s.pls # <<>>, NEW t, Calm(s, t), Steady(Level(t))
  PROVE  TreeInv(t)
<1>1. Inside(s, t)
  BY CalmInside
<1>2. QED
  BY <1>1, StackInside DEF TreeInv

\* The innermost level has its operator open if it has one to set.
LEMMA SteadyLevel ==
  ASSUME NEW s, TreeInv(s), s.pls # <<>>
  PROVE  Steady(Level(s))
<1>1. Len(s.pls) \in Nat \ {0} /\ Level(s) = s.pls[Len(s.pls)]
  BY LastLevel DEF TreeInv
<1>2. Len(s.pls) \in 1..Len(s.pls)
  BY <1>1
<1>3. QED
  BY <1>1, <1>2 DEF TreeInv, Stack, Steady

\* A level changes in what is no link.
LEMMA CalmLevel ==
  ASSUME NEW s, Shape(s), s.pls # <<>>, NEW ql, LevelHere(s, ql), SameLevel(Level(s), ql),
         ql.operator = Level(s).operator
  PROVE  Calm(s, SetLevel(s, ql)) /\ Level(SetLevel(s, ql)) = ql
BY SetLevelQuiet DEF Calm

\* The call of sub_f is over.
Idle(s) == SetLevel(s, [Level(s) EXCEPT !.local = 0])

\* Ending the call of sub_f leaves nodes where they are.
LEMMA IdleCalm ==
  ASSUME NEW s, Shape(s), s.pls # <<>>
  PROVE  Calm(s, Idle(s)) /\ Level(Idle(s)) = [Level(s) EXCEPT !.local = 0]
         /\ Level(Idle(s)).local = 0 /\ Level(Idle(s)).scope = Level(s).scope
<1> DEFINE ql == [Level(s) EXCEPT !.local = 0]
<1>1. LevelHere(s, Level(s)) /\ Len(s.ops) \in Nat
  BY LastLevel, SeqFacts, Zenon DEF Shape
<1>2. /\ LevelHere(s, ql) /\ SameLevel(Level(s), ql) /\ ql.operator = Level(s).operator
      /\ ql.local = 0 /\ ql.scope = Level(s).scope
  BY <1>1 DEF LevelHere, LevelOK, LevelFields, SameLevel
<1>3. Idle(s) = SetLevel(s, ql)
  BY DEF Idle
<1> HIDE DEF ql
<1>4. Calm(s, Idle(s)) /\ Level(Idle(s)) = ql
  BY <1>2, <1>3, CalmLevel
<1>5. QED
  BY <1>2, <1>4 DEF ql

\* Beginning parse_in_event leaves nodes where they are.
LEMMA InEventCalm ==
  ASSUME NEW s, Shape(s), s.pls # <<>>, Steady(Level(s))
  PROVE  Calm(s, parse_in_event(s)) /\ Steady(Level(parse_in_event(s)))
<1> DEFINE pl == Level(s)
           ql == [pl EXCEPT !.local = pl.operator, !.sub_f = "event"]
<1>1. LevelHere(s, pl) /\ Len(s.ops) \in Nat
  BY LastLevel, SeqFacts, Zenon DEF Shape
<1>2. CASE pl.operator = 0
  BY <1>2, CalmHere DEF parse_in_event
<1>3. CASE pl.operator # 0
  <2>1. parse_in_event(s) = SetLevel(s, ql)
    BY <1>3 DEF parse_in_event
  <2>2. pl.operator \in 1..Len(s.ops)
    BY <1>1, <1>3 DEF LevelHere, LevelOK
  <2>3. /\ LevelHere(s, ql) /\ SameLevel(pl, ql) /\ ql.operator = pl.operator
        /\ ql.operator > 0
    BY <1>1, <2>2 DEF LevelHere, LevelOK, LevelFields, SameLevel
  <2> HIDE DEF ql
  <2>4. Calm(s, SetLevel(s, ql)) /\ Level(SetLevel(s, ql)) = ql
    BY <2>3, CalmLevel
  <2>5. QED
    BY <2>1, <2>3, <2>4 DEF Steady
<1>4. QED
  BY <1>2, <1>3

\* Beginning parse_in_settings leaves nodes where they are.
LEMMA InSettingsCalm ==
  ASSUME NEW s, Shape(s), s.pls # <<>>
  PROVE  Calm(s, parse_in_settings(s)) /\ Steady(Level(parse_in_settings(s)))
<1> DEFINE ql == [Level(s) EXCEPT !.local = Settings, !.sub_f = "settings"]
<1>1. LevelHere(s, Level(s)) /\ Len(s.ops) \in Nat
  BY LastLevel, SeqFacts, Zenon DEF Shape
<1>2. /\ LevelHere(s, ql) /\ SameLevel(Level(s), ql) /\ ql.operator = Level(s).operator
      /\ ql.local = Settings
  BY <1>1 DEF LevelHere, LevelOK, LevelFields, SameLevel
<1>3. parse_in_settings(s) = SetLevel(s, ql)
  BY DEF parse_in_settings
<1> HIDE DEF ql
<1>4. Calm(s, parse_in_settings(s)) /\ Level(parse_in_settings(s)) = ql
  BY <1>2, <1>3, CalmLevel
<1>5. QED
  BY <1>2, <1>4 DEF Steady, Settings

\* Calling sub_f again leaves nodes where they are.
LEMMA ReturnCalm ==
  ASSUME NEW s, Shape(s), s.pls # <<>>, Steady(Level(s))
  PROVE  Calm(s, ReturnToSub(s)) /\ Steady(Level(ReturnToSub(s)))
<1>1. CASE Level(s).sub_f = "event"
  BY <1>1, InEventCalm DEF ReturnToSub
<1>2. CASE Level(s).sub_f = "settings"
  BY <1>2, InSettingsCalm DEF ReturnToSub
<1>3. CASE Level(s).sub_f \notin {"event", "settings"}
  BY <1>3, CalmHere DEF ReturnToSub
<1>4. QED
  BY <1>1, <1>2, <1>3

\* Ending a call and beginning it again leaves nodes where they are.
LEMMA IdleReturn ==
  ASSUME NEW s, Shape(s), s.pls # <<>>
  PROVE  Calm(s, ReturnToSub(Idle(s))) /\ Steady(Level(ReturnToSub(Idle(s))))
<1>1. Calm(s, Idle(s)) /\ Steady(Level(Idle(s)))
  BY IdleCalm DEF Steady
<1>2. Calm(Idle(s), ReturnToSub(Idle(s))) /\ Steady(Level(ReturnToSub(Idle(s))))
  BY <1>1, ReturnCalm DEF Calm
<1>3. QED
  BY <1>1, <1>2, CalmTrans

\* A parameter is written in a node.
LEMMA ParameterCalm ==
  ASSUME NEW s, Shape(s), s.pls # <<>>, Steady(Level(s)), NEW o \in 1..Len(s.ops), NEW n,
         OpOK(n, Len(s.ops), Len(s.evs)), SameOp(s.ops[o], n),
         NEW t, t = WithOps(s, Put(s.ops, o, n))
  PROVE  Calm(s, t) /\ Steady(Level(t))
BY SetOpQuiet DEF Calm

\* A parameter is about to be set.
InWriting == TreeInv(p) /\ p.pls # <<>> /\ Level(p).local > 0

\* While a parameter is set there is a node to set it for.
LEMMA WritingIs ==
  ASSUME InWriting
  PROVE  /\ Shape(p) /\ p.pls # <<>> /\ Steady(Level(p))
         /\ Level(p).local \in 1..Len(p.ops) /\ Level(p).operator \in 1..Len(p.ops)
<1>1. Shape(p) /\ p.pls # <<>> /\ Steady(Level(p))
  BY SteadyLevel DEF InWriting, TreeInv
<1>2. LevelHere(p, Level(p)) /\ Len(p.ops) \in Nat
  BY <1>1, LastLevel, SeqFacts, Zenon DEF Shape
<1>3. Level(p).operator \in 0..Len(p.ops) /\ Level(p).local \in {Settings} \cup 0..Len(p.ops)
  BY <1>2 DEF LevelHere, LevelOK
<1>4. Level(p).local > 0 /\ Level(p).operator > 0
  BY <1>1 DEF InWriting, Steady
<1>5. QED
  BY <1>1, <1>2, <1>3, <1>4 DEF Settings

\* "t" sets what is the node's own.
LEMMA TimeSet ==
  ASSUME InWriting, SetTime
  PROVE  Calm(p, p') /\ Steady(Level(p'))
<1>1. /\ Shape(p) /\ p.pls # <<>> /\ Steady(Level(p))
      /\ Level(p).local \in 1..Len(p.ops)
  BY WritingIs
<1>2. PICK t \in Read("t") :
        LET o == Level(p).local
            n == p.ops[o]
        IN  p' = [p EXCEPT !.ops[o] =
               CASE t.v = None   -> [n EXCEPT !.time = p.sopt.def_time, !.set = FALSE, !.linked = FALSE,
                                              !.sets_time = TRUE]
                 [] t.v = Linked -> IF ~n.nested THEN n
                                    ELSE [n EXCEPT !.set = TRUE, !.linked = TRUE,
                                                   !.sets_time = TRUE]
                 [] OTHER        -> [n EXCEPT !.time = t.v, !.set = TRUE, !.linked = FALSE,
                                              !.sets_time = TRUE]]
  BY Zenon DEF SetTime, Goes
<1> DEFINE o == Level(p).local
           n == p.ops[o]
           m == CASE t.v = None   -> [n EXCEPT !.time = p.sopt.def_time, !.set = FALSE,
                                               !.linked = FALSE,
                                               !.sets_time = TRUE]
                  [] t.v = Linked -> IF ~n.nested THEN n
                                     ELSE [n EXCEPT !.set = TRUE, !.linked = TRUE,
                                                    !.sets_time = TRUE]
                  [] OTHER        -> [n EXCEPT !.time = t.v, !.set = TRUE, !.linked = FALSE,
                                               !.sets_time = TRUE]
<1>3. OpOK(n, Len(p.ops), Len(p.evs))
  BY <1>1 DEF Shape
<1>4. OpOK(m, Len(p.ops), Len(p.evs)) /\ SameOp(n, m)
  <2>1. CASE t.v = None
    BY <1>3, <2>1 DEF OpOK, OpFields, SameOp
  <2>2. CASE t.v # None /\ t.v = Linked /\ ~n.nested
    BY <1>3, <2>2 DEF SameOp
  <2>3. CASE t.v # None /\ t.v = Linked /\ n.nested
    BY <1>3, <2>3, Zenon DEF OpOK, OpFields, SameOp
  <2>4. CASE t.v # None /\ t.v # Linked
    BY <1>3, <2>4 DEF OpOK, OpFields, SameOp
  <2>5. QED
    BY <2>1, <2>2, <2>3, <2>4
<1>5. p' = WithOps(p, Put(p.ops, o, m))
  BY <1>2 DEF WithOps, Put
<1>6. OpOK(m, Len(p.ops), Len(p.evs)) /\ SameOp(p.ops[o], m)
  BY <1>4
<1> HIDE DEF m
<1>7. QED
  BY <1>1, <1>5, <1>6, ParameterCalm, Zenon

\* "s" sets what is the node's own.
LEMMA SilenceSet ==
  ASSUME InWriting, SetSilence
  PROVE  Calm(p, p') /\ Steady(Level(p'))
<1>1. /\ Shape(p) /\ p.pls # <<>> /\ Steady(Level(p))
      /\ Level(p).local \in 1..Len(p.ops)
  BY WritingIs
<1>2. PICK t \in Read("s") :
        LET o == Level(p).local
        IN  p' = [p EXCEPT !.ops[o].silence = t.v, !.ops[o].sets_silence = TRUE]
  BY Zenon DEF SetSilence, Goes
<1> DEFINE o == Level(p).local
           m == [p.ops[o] EXCEPT !.silence = t.v, !.sets_silence = TRUE]
<1>3. OpOK(p.ops[o], Len(p.ops), Len(p.evs)) /\ IsSeq(p.ops) /\ "ops" \in DOMAIN p
  BY <1>1 DEF Shape, ParserFields
<1>4. OpOK(m, Len(p.ops), Len(p.evs)) /\ SameOp(p.ops[o], m)
  BY <1>3 DEF OpOK, OpFields, SameOp
<1>5. p' = WithOps(p, Put(p.ops, o, m))
  <2>1. o \in DOMAIN p.ops
    BY <1>1, <1>3, SeqFacts
  <2> HIDE DEF o
  <2>2. p' = [p EXCEPT !.ops[o].silence = t.v, !.ops[o].sets_silence = TRUE]
    BY <1>2 DEF o
  <2>3. p'.ops = Put(p.ops, o, m)
    BY <1>3, <2>1, <2>2 DEF Put
  <2>4. p' = [p EXCEPT !.ops = p'.ops]
    BY <1>3, <2>2, Zenon
  <2>5. QED
    BY <2>3, <2>4 DEF WithOps
<1> HIDE DEF m
<1>6. QED
  BY <1>1, <1>4, <1>5, ParameterCalm, Zenon

\* "a" sets what is the node's own.
LEMMA AmpSet ==
  ASSUME InWriting, SetAmp
  PROVE  Calm(p, p') /\ Steady(Level(p'))
<1>1. /\ Shape(p) /\ p.pls # <<>> /\ Steady(Level(p))
      /\ Level(p).operator \in 1..Len(p.ops)
  BY WritingIs
<1>2. PICK t \in Read("a") :
        LET o == Level(p).operator
        IN  p' = [p EXCEPT !.ops[o].amp.v0 = t.v, !.ops[o].amp.state = TRUE]
  BY Zenon DEF SetAmp, Goes
<1> DEFINE o == Level(p).operator
           m == [p.ops[o] EXCEPT !.amp.v0 = t.v, !.amp.state = TRUE]
<1>3. OpOK(p.ops[o], Len(p.ops), Len(p.evs)) /\ IsSeq(p.ops) /\ "ops" \in DOMAIN p
  BY <1>1 DEF Shape, ParserFields
<1>4. OpOK(m, Len(p.ops), Len(p.evs)) /\ SameOp(p.ops[o], m)
  BY <1>3 DEF OpOK, OpFields, SameOp
<1>5. p' = WithOps(p, Put(p.ops, o, m))
  <2>1. o \in DOMAIN p.ops /\ "amp" \in DOMAIN p.ops[o]
    BY <1>1, <1>3, SeqFacts DEF OpOK, OpFields
  <2> HIDE DEF o
  <2>2. p' = [p EXCEPT !.ops[o].amp.v0 = t.v, !.ops[o].amp.state = TRUE]
    BY <1>2 DEF o
  <2>3. p'.ops = Put(p.ops, o, m)
    BY <1>3, <2>1, <2>2, Zenon DEF Put
  <2>4. p' = [p EXCEPT !.ops = p'.ops]
    <3> DEFINE u == [p EXCEPT !.ops[o].amp.v0 = t.v]
               v == [u EXCEPT !.ops[o].amp.state = TRUE]
    <3>1. p' = v
      BY <2>2
    <3>2. u = [p EXCEPT !.ops = u.ops] /\ "ops" \in DOMAIN u
      BY <1>3
    <3> HIDE DEF u
    <3>3. v = [u EXCEPT !.ops = v.ops]
      BY <3>2
    <3> HIDE DEF v
    <3>4. v = [p EXCEPT !.ops = v.ops]
      BY <3>2, <3>3
    <3>5. QED
      BY <3>1, <3>4
  <2>5. QED
    BY <2>3, <2>4 DEF WithOps
<1> HIDE DEF m
<1>6. QED
  BY <1>1, <1>4, <1>5, ParameterCalm, Zenon

\* "{" sets what is the node's own.
LEMMA RampSet ==
  ASSUME InWriting, SetRamp
  PROVE  Calm(p, p') /\ Steady(Level(p'))
<1>1. /\ Shape(p) /\ p.pls # <<>> /\ Steady(Level(p))
      /\ Level(p).operator \in 1..Len(p.ops)
  BY WritingIs
<1>2. PICK t \in Read("{") \cup Read("{t") :
        LET o == Level(p).operator
        IN  p' = [p EXCEPT !.ops[o].amp =
                       IF t.k = "{" THEN WithGoal(@, t.v) ELSE WithTime(@, t.v)]
  BY Zenon DEF SetRamp, Goes
<1> DEFINE o == Level(p).operator
           a == IF t.k = "{" THEN WithGoal(p.ops[o].amp, t.v) ELSE WithTime(p.ops[o].amp, t.v)
           m == [p.ops[o] EXCEPT !.amp = a]
<1>3. OpOK(p.ops[o], Len(p.ops), Len(p.evs))
  BY <1>1, Zenon DEF Shape
<1>4. OpOK(m, Len(p.ops), Len(p.evs)) /\ SameOp(p.ops[o], m)
  BY <1>3, Zenon DEF OpOK, OpFields, SameOp
<1>5. p' = WithOps(p, Put(p.ops, o, m))
  BY <1>2, Zenon DEF WithOps, Put
<1> HIDE DEF m
<1>6. QED
  BY <1>1, <1>4, <1>5, ParameterCalm, Zenon

-----------------------------------------------------------------------------
(* Tokens that make no node. *)

\* "S" leaves nodes where they are.
LEMMA SettingsCalm ==
  ASSUME Shape(p), p.pls # <<>>, OpenSettings
  PROVE  Calm(p, p') /\ Steady(Level(p'))
<1>1. p' = parse_in_settings(Idle(p))
  BY DEF OpenSettings, Goes, Deferred, Idle
<1>2. Calm(p, Idle(p))
  BY IdleCalm
<1> DEFINE u == Idle(p)
<1> HIDE DEF u
<1>3. Calm(u, parse_in_settings(u)) /\ Steady(Level(parse_in_settings(u)))
  BY <1>2, InSettingsCalm DEF Calm, u
<1>4. QED
  BY <1>1, <1>2, <1>3, CalmTrans DEF u

\* Settings are the parser's own.
LEMMA SettingCalm ==
  ASSUME Shape(p), p.pls # <<>>, Steady(Level(p)), SetMultiplier \/ SetDefTime
  PROVE  Calm(p, p') /\ Steady(Level(p'))
<1>1. \E x : p' = [p EXCEPT !.sopt = x]
  <2>1. CASE SetMultiplier
    <3>1. PICK v : p' = [p EXCEPT !.sopt.ampmult = v]
      BY <2>1, Zenon DEF SetMultiplier, Goes
    <3>2. QED
      BY <3>1, Zenon
  <2>2. CASE SetDefTime
    <3>1. PICK v : p' = [p EXCEPT !.sopt.def_time = v]
      BY <2>2, Zenon DEF SetDefTime, Goes
    <3>2. QED
      BY <3>1, Zenon
  <2>3. QED
    BY <2>1, <2>2
<1>2. PICK x : p' = [p EXCEPT !.sopt = x]
  BY <1>1, Zenon
<1> DEFINE t == [p EXCEPT !.sopt = x]
<1>3. /\ DOMAIN t = ParserFields /\ t.pls = p.pls /\ t.ops = p.ops /\ t.evs = p.evs
      /\ t.scopes = p.scopes /\ t.durs = p.durs /\ t.first_ev = p.first_ev /\ t.ev = p.ev
      /\ t.label \in [Labels -> 0..Len(p.ops)]
  BY DEF Shape, ParserFields
<1> HIDE DEF t
<1>4. Shape(t) /\ Quiet(p, t) /\ Level(t) = Level(p)
  BY <1>3, RestQuiet
<1>5. QED
  BY <1>2, <1>3, <1>4 DEF t, Calm

\* A label is kept in the level for the next node.
LEMMA LabelCalm ==
  ASSUME Shape(p), p.pls # <<>>, SetLabel
  PROVE  Calm(p, p') /\ Steady(Level(p'))
<1> DEFINE u == Idle(p)
<1>1. Calm(p, u) /\ Level(u).local = 0
  BY IdleCalm
<1>2. PICK t \in Read("'") : p' = ReturnToSub(IF Level(p).set_label # None THEN u
                           ELSE SetLevel(u, [Level(u) EXCEPT !.set_label = t.v]))
  BY Zenon DEF SetLabel, Goes, Deferred, Idle
<1>3. t.v \in Labels
  BY ParserAssumption DEF Read, AllTokens
<1> DEFINE ql == [Level(u) EXCEPT !.set_label = t.v]
           v  == SetLevel(u, ql)
<1> HIDE DEF u
<1>4. LevelHere(u, Level(u)) /\ Shape(u) /\ u.pls # <<>>
  BY <1>1, LastLevel DEF Calm
<1>5. /\ LevelHere(u, ql) /\ SameLevel(Level(u), ql) /\ ql.operator = Level(u).operator
      /\ ql.local = 0
  BY <1>1, <1>3, <1>4 DEF LevelHere, LevelOK, LevelFields, SameLevel
<1>6. Calm(u, v) /\ Level(v).local = 0
  <2> HIDE DEF ql
  <2>1. Calm(u, v) /\ Level(v) = ql
    BY <1>4, <1>5, CalmLevel
  <2>2. QED
    BY <1>5, <2>1
<1> HIDE DEF v
<1>7. PICK w \in {u, v} : p' = ReturnToSub(w)
  BY <1>2 DEF v
<1>8. Calm(p, w) /\ Steady(Level(w))
  BY <1>1, <1>6, CalmTrans DEF Steady
<1>9. Calm(w, p') /\ Steady(Level(p'))
  BY <1>7, <1>8, ReturnCalm DEF Calm
<1>10. QED
  BY <1>8, <1>9, CalmTrans

\* Forgetting sub_f leaves nodes where they are.
LEMMA SubEnded ==
  ASSUME NEW s, Shape(s), s.pls # <<>>, Level(s).local = 0
  PROVE  LET t == SetLevel(s, [Level(s) EXCEPT !.sub_f = "none"])
         IN  Calm(s, t) /\ Steady(Level(t)) /\ Level(t).local = 0
<1> DEFINE ql == [Level(s) EXCEPT !.sub_f = "none"]
<1>1. LevelHere(s, Level(s))
  BY LastLevel
<1>2. /\ LevelHere(s, ql) /\ SameLevel(Level(s), ql) /\ ql.operator = Level(s).operator
      /\ ql.local = 0
  BY <1>1 DEF LevelHere, LevelOK, LevelFields, SameLevel
<1> HIDE DEF ql
<1> DEFINE t == SetLevel(s, ql)
<1>3. Calm(s, t) /\ Level(t) = ql
  BY <1>2, CalmLevel
<1> HIDE DEF t
<1>4. Calm(s, t) /\ Steady(Level(t)) /\ Level(t).local = 0
  BY <1>2, <1>3 DEF Steady
<1>5. QED
  BY <1>4 DEF t, ql

\* A line break ends the open node, no more.
LEMMA LineCalm ==
  ASSUME Shape(p), p.pls # <<>>, BreakLine
  PROVE  Calm(p, p') /\ Steady(Level(p'))
<1> DEFINE u == Idle(p)
<1>1. Calm(p, u) /\ Level(u).local = 0
  BY IdleCalm
<1>2. \/ p' = SetLevel(u, [Level(u) EXCEPT !.sub_f = "none"])
      \/ p' = ReturnToSub(u)
  BY DEF BreakLine, Goes, Deferred, Idle
<1>3. CASE p' = ReturnToSub(u)
  BY <1>3, IdleReturn
<1>4. CASE p' = SetLevel(u, [Level(u) EXCEPT !.sub_f = "none"])
  <2> HIDE DEF u
  <2>1. Calm(u, p') /\ Steady(Level(p'))
    BY <1>1, <1>4, SubEnded DEF Calm
  <2>2. QED
    BY <1>1, <2>1, CalmTrans
<1>5. QED
  BY <1>2, <1>3, <1>4

\* A wait is kept in the level for the next event.
LEMMA WaitCalm ==
  ASSUME NEW s, Shape(s), s.pls # <<>>, Steady(Level(s)), NEW t
  PROVE  Calm(s, AddWait(s, t)) /\ Steady(Level(AddWait(s, t)))
<1> DEFINE pl == Level(s)
           u  == AddWait(s, t)
<1>1. LevelHere(s, pl)
  BY LastLevel
<1>2. CASE t.v # None
  <2> DEFINE ql == [pl EXCEPT !.next_wait = @ + t.v]
  <2>1. u = SetLevel(s, ql)
    BY <1>2 DEF AddWait
  <2>2. /\ LevelHere(s, ql) /\ SameLevel(pl, ql) /\ ql.operator = pl.operator
        /\ ql.local = pl.local
    BY <1>1 DEF LevelHere, LevelOK, LevelFields, SameLevel
  <2> HIDE DEF ql, u
  <2>3. Calm(s, u) /\ Level(u) = ql
    BY <2>1, <2>2, CalmLevel
  <2>4. QED
    BY <2>2, <2>3 DEF Steady, u
<1>3. CASE t.v = None /\ pl.last_operator = 0
  BY <1>3, CalmHere DEF AddWait
<1>4. CASE t.v = None /\ pl.last_operator # 0 /\ pl.last_event = 0
  <2>1. u = [s EXCEPT !.crashed = TRUE]
    BY <1>4 DEF AddWait
  <2>2. /\ DOMAIN u = ParserFields /\ u.pls = s.pls /\ u.ops = s.ops /\ u.evs = s.evs
        /\ u.scopes = s.scopes /\ u.durs = s.durs /\ u.first_ev = s.first_ev /\ u.ev = s.ev
        /\ u.label \in [Labels -> 0..Len(s.ops)]
    BY <2>1 DEF Shape, ParserFields
  <2> HIDE DEF u
  <2>3. Shape(u) /\ Quiet(s, u) /\ Level(u) = pl
    BY <2>2, RestQuiet
  <2>4. QED
    BY <2>2, <2>3 DEF Calm, u
<1>5. CASE t.v = None /\ pl.last_operator # 0 /\ pl.last_event # 0
  <2> DEFINE e == pl.last_event
             n == [s.evs[e] EXCEPT !.add_wait = TRUE]
  <2>1. u = [s EXCEPT !.evs[e].add_wait = TRUE]
    BY <1>5 DEF AddWait
  <2>2. u = WithEvs(s, Put(s.evs, e, n))
    BY <2>1 DEF WithEvs, Put
  <2>3. e \in 1..Len(s.evs) => DOMAIN s.evs[e] = EvFields
    BY DEF Shape
  <2>4. EventFits(s, e, n)
    BY <2>3 DEF EventFits, EvFields
  <2>5. n.next = s.evs[e].next /\ n.dur = s.evs[e].dur
    OBVIOUS
  <2> HIDE DEF n, u, e
  <2>6. Shape(u) /\ EventsOnly(s, u) /\ SameLinks(s, u)
    BY <2>2, <2>4, <2>5, EventMarked
  <2>7. SameNodes(s, u) /\ SameOuter(s, u) /\ Level(u) = Level(s)
    BY <2>6, OnlyEvents
  <2>8. SameEvents(s, u)
    BY <2>6 DEF EventsOnly, SameLinks, SameEvents
  <2>9. QED
    BY <2>6, <2>7, <2>8 DEF Calm, Quiet, SameLevel, EventsOnly, u
<1>6. QED
  BY <1>2, <1>3, <1>4, <1>5

\* A wait outside of nodes is the level's own.
LEMMA WaitBetweenCalm ==
  ASSUME TreeInv(p), p.pls # <<>>, WaitBetween
  PROVE  Calm(p, p') /\ Steady(Level(p'))
<1>1. Shape(p) /\ Steady(Level(p))
  BY SteadyLevel DEF TreeInv
<1>2. PICK t : p' = ReturnToSub(IF DisallowedHere(p) THEN Idle(p) ELSE AddWait(p, t))
  BY DEF WaitBetween, Goes, Deferred, Idle
<1>3. PICK w : p' = ReturnToSub(w) /\ Calm(p, w) /\ Steady(Level(w))
  <2>1. CASE DisallowedHere(p)
    BY <1>1, <1>2, <2>1, IdleCalm DEF Steady
  <2>2. CASE ~DisallowedHere(p)
    BY <1>1, <1>2, <2>2, WaitCalm
  <2>3. QED
    BY <2>1, <2>2
<1>4. Calm(w, p') /\ Steady(Level(p'))
  BY <1>3, ReturnCalm DEF Calm
<1>5. QED
  BY <1>3, <1>4, CalmTrans

-----------------------------------------------------------------------------
(* Tokens that make a node. *)

\* The level as it is for the node after pop.
After(s, pop) == SetLevel(s, [Level(s) EXCEPT !.op_prev = pop])

\* A new node needs an event of its own (parser.c:817-822).
NeedsEvent(s, pop, composite) ==
    LET pl == Level(s)
    IN  \/ pl.event = 0 \/ pl.sub_f # "event" \/ pl.next_wait # 0 \/ composite
        \/ ~(pop = 0 /\ pl.op_scope # 0) /\ s.evs[pl.event].op # 0

\* begin_node, as an event if it needs one and a node.
LEMMA BeginNodeIs ==
  ASSUME NEW s, Shape(s), s.pls # <<>>, NEW pop \in 0..Len(s.ops), NEW composite \in BOOLEAN
  PROVE  /\ Calm(s, After(s, pop)) /\ Level(After(s, pop)).op_prev = pop
         /\ Level(After(s, pop)).local = Level(s).local
         /\ begin_node(s, pop, composite) =
              begin_operator(IF NeedsEvent(s, pop, composite)
                             THEN begin_event(After(s, pop), composite) ELSE After(s, pop),
                             composite)
<1> DEFINE ql == [Level(s) EXCEPT !.op_prev = pop]
<1>1. LevelHere(s, Level(s))
  BY LastLevel
<1>2. /\ LevelHere(s, ql) /\ SameLevel(Level(s), ql) /\ ql.operator = Level(s).operator
      /\ ql.local = Level(s).local /\ ql.op_prev = pop
      /\ ql.event = Level(s).event /\ ql.sub_f = Level(s).sub_f /\ ql.op_scope = Level(s).op_scope
      /\ ql.next_wait = Level(s).next_wait
  BY <1>1 DEF LevelHere, LevelOK, LevelFields, SameLevel
<1>3. begin_node(s, pop, composite) =
              begin_operator(IF NeedsEvent(s, pop, composite)
                             THEN begin_event(After(s, pop), composite) ELSE After(s, pop),
                             composite)
  BY <1>2 DEF begin_node, After, NeedsEvent
<1> HIDE DEF ql
<1>4. Calm(s, SetLevel(s, ql)) /\ Level(SetLevel(s, ql)) = ql
  BY <1>2, CalmLevel
<1>5. QED
  BY <1>2, <1>3, <1>4, Zenon DEF After, ql

\* begin_node keeps the lists trees, and has a node open.
LEMMA BeginNode ==
  ASSUME NEW s, TreeInv(s), s.pls # <<>>, NEW pop \in 0..Len(s.ops), NEW composite \in BOOLEAN
  PROVE  /\ Inside(s, begin_node(s, pop, composite))
         /\ Level(begin_node(s, pop, composite)).operator > 0
<1> DEFINE at == After(s, pop)
           b  == IF NeedsEvent(s, pop, composite) THEN begin_event(at, composite) ELSE at
           t  == begin_node(s, pop, composite)
<1>1. Calm(s, at) /\ t = begin_operator(b, composite)
  BY BeginNodeIs DEF TreeInv
<1>2. Inside(s, at)
  BY <1>1, CalmInside
<1> HIDE DEF at
<1>3. Inside(at, b)
  <2>1. CASE NeedsEvent(s, pop, composite)
    <3> DEFINE c == begin_event(at, composite)
    <3>1. /\ Shape(c) /\ SameNodes(at, c) /\ SameOuter(at, c) /\ c.pls # <<>>
          /\ SameLocals(Level(at), Level(c))
      BY <1>2, BeginEvent DEF Inside
    <3>2. b = c
      BY <2>1
    <3> HIDE DEF c, b
    <3>3. Inside(at, c)
      BY <1>2, <3>1, SameNodesInside DEF Inside, SameLocals
    <3>4. QED
      BY <3>2, <3>3
  <2>2. CASE ~NeedsEvent(s, pop, composite)
    <3>1. b = at
      BY <2>2
    <3>2. QED
      BY <1>2, <3>1 DEF Inside, SameOuter
  <2>3. QED
    BY <2>1, <2>2
<1> HIDE DEF b
<1> DEFINE u == begin_operator(b, composite)
<1>4. /\ Shape(u) /\ SameOuter(b, u) /\ u.pls # <<>> /\ SameLevel(Level(b), Level(u))
      /\ NewOp(b, u)
  BY <1>3, BeginOperator DEF Inside
<1> HIDE DEF u
<1>5. Inside(b, u)
  BY <1>3, <1>4, NewOpInside DEF Inside, SameLevel
<1>6. Inside(s, u)
  BY <1>2, <1>3, <1>5, InsideTrans
<1>7. Level(u).operator > 0
  <2>1. Len(b.ops) \in Nat
    BY <1>3, SeqFacts DEF Inside, Shape
  <2>2. QED
    BY <1>4, <2>1 DEF NewOp
<1>8. QED
  BY <1>1, <1>6, <1>7 DEF u

\* ... and so does what reads its parameters.
LEMMA OpenedTree ==
  ASSUME NEW s, TreeInv(s), s.pls # <<>>, NEW pop \in 0..Len(s.ops), NEW composite \in BOOLEAN
  PROVE  /\ TreeInv(begin_node(s, pop, composite))
         /\ TreeInv(parse_in_event(begin_node(s, pop, composite)))
<1> DEFINE u == begin_node(s, pop, composite)
<1>1. Inside(s, u) /\ Steady(Level(u))
  BY BeginNode DEF Steady
<1> HIDE DEF u
<1>2. TreeInv(u) /\ u.pls # <<>>
  BY <1>1, StackInside DEF TreeInv, Inside
<1>3. Calm(u, parse_in_event(u)) /\ Steady(Level(parse_in_event(u)))
  BY <1>1, <1>2, InEventCalm DEF TreeInv
<1>4. TreeInv(parse_in_event(u))
  BY <1>2, <1>3, CalmTree
<1>5. QED
  BY <1>2, <1>4 DEF u

\* Ending a call keeps the invariant.
LEMMA IdleTree ==
  ASSUME NEW s, TreeInv(s), s.pls # <<>>
  PROVE  TreeInv(Idle(s)) /\ Idle(s).pls # <<>> /\ Len(Idle(s).ops) = Len(s.ops)
<1>1. Calm(s, Idle(s)) /\ Steady(Level(Idle(s)))
  BY IdleCalm DEF TreeInv, Steady
<1> DEFINE u == Idle(s)
<1> HIDE DEF u
<1>2. TreeInv(u)
  BY <1>1, CalmTree DEF u
<1>3. QED
  BY <1>1, <1>2 DEF u, Calm, Quiet, SameNodes

-----------------------------------------------------------------------------
(* The lists of modulators are trees. *)

\* Groups are no links of nodes or levels.
LEMMA GroupsOnly ==
  ASSUME NEW s, Shape(s), s.pls # <<>>, NEW q, IsSeq(q),
         NEW t, t = [s EXCEPT !.durs = q]
  PROVE  /\ Shape(t) /\ SameNodes(s, t) /\ SameOuter(s, t) /\ SameLinks(s, t)
         /\ t.pls = s.pls /\ Level(t) = Level(s) /\ t.durs = q
<1>1. /\ DOMAIN t = ParserFields /\ t.pls = s.pls /\ t.ops = s.ops /\ t.evs = s.evs
      /\ t.scopes = s.scopes /\ t.durs = q /\ t.first_ev = s.first_ev /\ t.ev = s.ev
      /\ t.label = s.label
  BY DEF Shape, ParserFields
<1>2. Shape(t)
  BY <1>1 DEF Shape
<1>3. QED
  BY <1>1, <1>2 DEF SameNodes, SameOp, SameOuter, SameLinks, Level

\* The end of the event, in front of a "|".
SeparateEnd(s) == end_event(Idle(s))

\* Ending the event before "|" keeps the invariant.
LEMMA SeparateEndIs ==
  ASSUME NEW s, TreeInv(s), s.pls # <<>>
  PROVE  /\ TreeInv(SeparateEnd(s)) /\ SeparateEnd(s).pls # <<>>
         /\ Level(SeparateEnd(s)).local = 0
<1> DEFINE u == Idle(s)
           v == end_event(u)
<1>1. TreeInv(u) /\ u.pls # <<>> /\ Level(u).local = 0
  BY IdleTree, IdleCalm DEF TreeInv
<1> HIDE DEF u
<1>2. /\ Shape(v) /\ SameNodes(u, v) /\ SameOuter(u, v) /\ v.pls # <<>>
      /\ SameCall(Level(u), Level(v))
  BY <1>1, EndEvent DEF TreeInv
<1> HIDE DEF v
<1>3. Inside(u, v) /\ Steady(Level(v)) /\ Level(v).local = 0
  BY <1>1, <1>2, SameNodesInside DEF TreeInv, SameCall, Steady
<1>4. TreeInv(v)
  BY <1>1, <1>3, StackInside DEF TreeInv
<1>5. QED
  BY <1>2, <1>3, <1>4 DEF u, v, SeparateEnd

\* Another group, with no events yet.
NewGroup(s) == [s EXCEPT !.durs = Append(@, [first |-> 0, last |-> 0])]

\* What "|" does, by cases.
LEMMA SeparateIs ==
  ASSUME TreeInv(p), p.pls # <<>>, Separate
  PROVE  \/ DisallowedHere(p) /\ p' = ReturnToSub(Idle(p))
         \/ /\ ~DisallowedHere(p) /\ Last(SeparateEnd(p).durs).first = 0
            /\ p' = ReturnToSub(SeparateEnd(p))
         \/ /\ ~DisallowedHere(p) /\ Last(SeparateEnd(p).durs).first # 0
            /\ p' = NewGroup(SetLevel(SeparateEnd(p),
                               [Level(SeparateEnd(p)) EXCEPT !.sub_f = "none"]))
BY DEF Separate, Goes, Deferred, Idle, SeparateEnd, NewGroup

\* "|" keeps the invariant.
LEMMA SeparateTree ==
  ASSUME TreeInv(p), p.pls # <<>>, Separate
  PROVE  TreeInv(p')
<1> DEFINE v == SeparateEnd(p)
           n == SetLevel(v, [Level(v) EXCEPT !.sub_f = "none"])
<1>1. TreeInv(v) /\ v.pls # <<>> /\ Level(v).local = 0
  BY SeparateEndIs
<1>2. \/ p' = ReturnToSub(Idle(p))
      \/ p' = ReturnToSub(v)
      \/ p' = NewGroup(n)
  BY SeparateIs
<1>3. CASE p' = ReturnToSub(Idle(p))
  BY <1>3, IdleReturn, CalmTree DEF TreeInv
<1> HIDE DEF v
<1>4. CASE p' = ReturnToSub(v)
  BY <1>1, <1>4, ReturnCalm, CalmTree DEF TreeInv, Steady
<1>5. CASE p' = NewGroup(n)
  <2>1. Calm(v, n) /\ Steady(Level(n)) /\ Level(n).local = 0
    BY <1>1, SubEnded DEF TreeInv
  <2> HIDE DEF n
  <2>2. TreeInv(n) /\ n.pls # <<>>
    BY <1>1, <2>1, CalmTree DEF Calm
  <2> DEFINE q == Append(n.durs, [first |-> 0, last |-> 0])
             t == NewGroup(n)
  <2>3. IsSeq(q)
    BY <2>2, SeqAppended DEF TreeInv, Shape
  <2>4. t = [n EXCEPT !.durs = q]
    BY DEF NewGroup
  <2> HIDE DEF q, t
  <2>5. /\ Shape(t) /\ SameNodes(n, t) /\ SameOuter(n, t) /\ t.pls = n.pls
        /\ Level(t) = Level(n)
    BY <2>2, <2>3, <2>4, GroupsOnly DEF TreeInv
  <2>6. Inside(n, t) /\ Steady(Level(t))
    BY <2>1, <2>2, <2>5, SameNodesInside DEF TreeInv
  <2>7. TreeInv(t)
    BY <2>2, <2>6, StackInside DEF TreeInv
  <2>8. QED
    BY <1>5, <2>7 DEF t
<1>6. QED
  BY <1>2, <1>3, <1>4, <1>5

\* The open node of a level is one of those there are.
LEMMA OpOfLevel ==
  ASSUME NEW s, Shape(s), s.pls # <<>>
  PROVE  Level(s).operator \in 0..Len(s.ops)
BY LastLevel DEF LevelHere, LevelOK

\* A wait among parameters, with the node it begins, keeps the invariant.
LEMMA WaitTree ==
  ASSUME TreeInv(p), p.pls # <<>>, WaitInEvent
  PROVE  TreeInv(p')
<1>1. Shape(p) /\ Steady(Level(p))
  BY SteadyLevel DEF TreeInv
<1>2. PICK t : LET s == AddWait(p, t)
               IN  \/ p' = s
                   \/ p' = begin_node(s, Level(s).operator, FALSE)
  BY Zenon DEF WaitInEvent, Goes
<1> DEFINE s == AddWait(p, t)
<1>3. Calm(p, s) /\ Steady(Level(s))
  BY <1>1, WaitCalm
<1> HIDE DEF s
<1>4. TreeInv(s) /\ s.pls # <<>>
  BY <1>3, CalmTree DEF Calm
<1>5. TreeInv(begin_node(s, Level(s).operator, FALSE))
  <2>1. Level(s).operator \in 0..Len(s.ops)
    BY <1>4, OpOfLevel DEF TreeInv
  <2>2. QED
    BY <1>4, <2>1, OpenedTree, Zenon
<1>6. QED
  BY <1>2, <1>4, <1>5, Zenon DEF s

\* An operator's type, with the node it begins, keeps the invariant.
LEMMA OperatorTree ==
  ASSUME TreeInv(p), p.pls # <<>>, NewOperator
  PROVE  TreeInv(p')
<1> DEFINE u == Idle(p)
<1>1. TreeInv(u) /\ u.pls # <<>>
  BY IdleTree
<1>2. p' = parse_in_event(begin_node(u, 0, FALSE))
  BY DEF NewOperator, Goes, Deferred, Idle
<1> HIDE DEF u
<1>3. 0 \in 0..Len(u.ops)
  <2>1. Len(u.ops) \in Nat
    BY <1>1, SeqFacts DEF TreeInv, Shape
  <2>2. QED
    BY <2>1
<1>4. QED
  BY <1>1, <1>2, <1>3, OpenedTree, Zenon

\* ";" with the node it begins keeps the invariant.
LEMMA CompositeTree ==
  ASSUME TreeInv(p), p.pls # <<>>, NewComposite
  PROVE  TreeInv(p')
<1> DEFINE u == Idle(p)
<1>1. TreeInv(u) /\ u.pls # <<>> /\ Len(u.ops) = Len(p.ops)
  BY IdleTree
<1>2. \/ p' = ReturnToSub(u)
      \/ p' = parse_in_event(begin_node(u, Level(p).operator, TRUE))
  BY Zenon DEF NewComposite, Goes, Deferred, Idle
<1>3. CASE p' = ReturnToSub(u)
  BY <1>3, IdleReturn, CalmTree DEF TreeInv
<1>4. CASE p' = parse_in_event(begin_node(u, Level(p).operator, TRUE))
  <2> HIDE DEF u
  <2>1. Level(p).operator \in 0..Len(u.ops)
    BY <1>1, OpOfLevel DEF TreeInv
  <2>2. QED
    BY <1>1, <1>4, <2>1, OpenedTree, Zenon
<1>5. QED
  BY <1>2, <1>3, <1>4, Zenon

\* The level before a label is used.
Fresh(s) == SetLevel(Idle(s), [Level(Idle(s)) EXCEPT !.set_label = None, !.sub_f = "none"])

\* Dropping a label leaves nodes where they are.
LEMMA FreshCalm ==
  ASSUME NEW s, Shape(s), s.pls # <<>>
  PROVE  Calm(s, Fresh(s)) /\ Steady(Level(Fresh(s)))
<1> DEFINE u  == Idle(s)
           ql == [Level(u) EXCEPT !.set_label = None, !.sub_f = "none"]
           t  == SetLevel(u, ql)
<1>1. Calm(s, u) /\ Level(u).local = 0
  BY IdleCalm
<1>2. Fresh(s) = t
  BY DEF Fresh
<1> HIDE DEF u
<1>3. Shape(u) /\ u.pls # <<>> /\ LevelHere(u, Level(u))
  BY <1>1, LastLevel DEF Calm
<1>4. /\ LevelHere(u, ql) /\ SameLevel(Level(u), ql) /\ ql.operator = Level(u).operator
      /\ ql.local = 0
  BY <1>1, <1>3 DEF LevelHere, LevelOK, LevelFields, SameLevel
<1> HIDE DEF ql
<1>5. Calm(u, t) /\ Level(t) = ql
  BY <1>3, <1>4, CalmLevel
<1> HIDE DEF t
<1>6. Calm(s, t) /\ Steady(Level(t))
  BY <1>1, <1>4, <1>5, CalmTrans DEF Steady
<1>7. QED
  BY <1>2, <1>6

\* "@" does nothing for a name not known, and else begins a node after that named.
LEMMA UseLabelIs ==
  ASSUME Shape(p), UseLabel
  PROVE  \/ p' = Fresh(p)
         \/ \E pop \in 1..Len(p.ops) : p' = parse_in_event(begin_node(Fresh(p), pop, FALSE))
<1>1. PICK t \in Read("@") :
         p' = IF p.label[t.v] = 0 THEN Fresh(p)
              ELSE parse_in_event(begin_node(Fresh(p), p.label[t.v], FALSE))
  BY Zenon DEF UseLabel, Goes, Fresh, Deferred, Idle
<1>2. t.v \in Labels
  BY ParserAssumption DEF Read, AllTokens
<1>3. p.label[t.v] \in 0..Len(p.ops) /\ Len(p.ops) \in Nat
  BY <1>2, SeqFacts DEF Shape
<1>4. p.label[t.v] = 0 \/ p.label[t.v] \in 1..Len(p.ops)
  BY <1>3
<1>5. QED
  BY <1>1, <1>4, Zenon

\* "@" keeps the invariant.
LEMMA UseLabelTree ==
  ASSUME TreeInv(p), p.pls # <<>>, UseLabel
  PROVE  TreeInv(p')
<1> DEFINE u == Fresh(p)
<1>1. Calm(p, u) /\ Steady(Level(u))
  BY FreshCalm DEF TreeInv
<1>2. \/ p' = u
      \/ \E pop \in 1..Len(p.ops) : p' = parse_in_event(begin_node(u, pop, FALSE))
  BY UseLabelIs, Zenon DEF TreeInv
<1> HIDE DEF u
<1>3. TreeInv(u) /\ u.pls # <<>> /\ Len(u.ops) = Len(p.ops)
  BY <1>1, CalmTree DEF Calm, Quiet, SameNodes
<1>4. \A pop \in 1..Len(p.ops) : pop \in 0..Len(u.ops)
  BY <1>3
<1>5. QED
  BY <1>2, <1>3, <1>4, OpenedTree, Zenon

\* Leaving a level of any kind keeps the invariant.
LEMMA LeaveTree ==
  ASSUME NEW s, TreeInv(s), s.pls # <<>>
  PROVE  TreeInv(leave_level(s))
<1>1. Level(s).scope \in {"top", "nest", "block"}
  BY LastLevel DEF LevelHere, LevelOK, TreeInv
<1>2. QED
  BY <1>1, LeaveTop, LeaveNest, LeaveBlock

\* Entering a level of either kind keeps the invariant.
LEMMA EnterTree ==
  ASSUME TreeInv(p), p.pls # <<>>, OpenNest \/ OpenBlock
  PROVE  TreeInv(p')
<1>1. CASE OpenNest
  <2>1. Level(p).operator > 0 /\ p' = enter_level(p, "nest")
    BY <1>1, SteadyLevel DEF OpenNest, InEvent, Goes, Steady
  <2>2. QED
    BY <2>1, EnterNest
<1>2. CASE OpenBlock
  <2>1. p' = enter_level(Idle(p), "block")
    BY <1>2 DEF OpenBlock, Goes, Deferred, Idle
  <2>2. QED
    BY <2>1, IdleTree, IdleCalm, EnterBlock DEF TreeInv
<1>3. QED
  BY <1>1, <1>2

\* "]" and ">" keep the invariant, met where they belong or not.
LEMMA CloseTree ==
  ASSUME TreeInv(p), p.pls # <<>>, CloseBlock \/ CloseNest
  PROVE  TreeInv(p')
<1> DEFINE u == Idle(p)
<1>1. TreeInv(u) /\ u.pls # <<>> /\ Level(u).scope = Level(p).scope
  BY IdleTree, IdleCalm DEF TreeInv
<1>2. \/ p' = ReturnToSub(u)
      \/ Level(p).scope = "block" /\ p' = ReturnToSub(leave_level(u))
      \/ p' = leave_level(u)
  BY DEF CloseBlock, CloseNest, Goes, Deferred, Idle
<1>3. CASE p' = ReturnToSub(u)
  BY <1>3, IdleReturn, CalmTree DEF TreeInv
<1>4. CASE Level(p).scope = "block" /\ p' = ReturnToSub(leave_level(u))
  <2> HIDE DEF u
  <2> DEFINE v == leave_level(u)
  <2>1. TreeInv(v) /\ v.pls # <<>> /\ Steady(Level(v))
    BY <1>1, <1>4, LeaveBlock DEF Steady
  <2> HIDE DEF v
  <2>2. Calm(v, ReturnToSub(v)) /\ Steady(Level(ReturnToSub(v)))
    BY <2>1, ReturnCalm DEF TreeInv
  <2>3. QED
    BY <1>4, <2>1, <2>2, CalmTree DEF v
<1>5. CASE p' = leave_level(u)
  <2> HIDE DEF u
  <2>1. QED
    BY <1>1, <1>5, LeaveTree
<1>6. QED
  BY <1>2, <1>3, <1>4, <1>5

\* The end of the text, in any number of levels, keeps the invariant.
LEMMA EndTree ==
  ASSUME TreeInv(p), EndOfScript
  PROVE  TreeInv(p')
<1> DEFINE u == leave_level(Idle(p))
           t == [u EXCEPT !.ended = TRUE]
<1>1. TreeInv(u) /\ p' = t
  BY IdleTree, LeaveTree DEF EndOfScript, Deferred, Idle
<1> HIDE DEF u
<1>2. /\ DOMAIN t = ParserFields /\ t.pls = u.pls /\ t.ops = u.ops /\ t.evs = u.evs
      /\ t.scopes = u.scopes /\ t.durs = u.durs /\ t.first_ev = u.first_ev /\ t.ev = u.ev
      /\ t.label \in [Labels -> 0..Len(u.ops)]
  BY <1>1 DEF TreeInv, Shape, ParserFields
<1> HIDE DEF t
<1>3. Shape(t) /\ Quiet(u, t)
  BY <1>1, <1>2, RestQuiet DEF TreeInv
<1>4. SameKinds(u, t)
  BY <1>2 DEF SameKinds
<1>5. Lists(t) /\ Owned(t)
  BY <1>1, <1>3, <1>4, ListsKept, OwnedKept DEF TreeInv, Quiet
<1>6. Stack(t)
  BY <1>1, <1>2 DEF TreeInv, Stack
<1>7. QED
  BY <1>1, <1>3, <1>5, <1>6 DEF TreeInv

\* An empty script has the invariant.
LEMMA InitTree ==
  ASSUME ParserInit
  PROVE  TreeInv(p)
<1>1. IsSeq(<<>>) /\ Len(<<>>) = 0
  <2>1. <<>> \in Seq({})
    OBVIOUS
  <2>2. QED
    BY <2>1, SeqKnown, Zenon
<1>2. IsSeq(p.pls) /\ Len(p.pls) = 1 /\ p.pls[1] = TopLevel
  <2>1. p.pls = <<TopLevel>>
    BY DEF ParserInit
  <2>2. <<TopLevel>> \in Seq({TopLevel}) /\ Len(<<TopLevel>>) = 1
        /\ <<TopLevel>>[1] = TopLevel
    OBVIOUS
  <2>3. IsSeq(<<TopLevel>>)
    BY <2>2, SeqKnown, Zenon
  <2>4. QED
    BY <2>1, <2>2, <2>3
<1>3. IsSeq(p.durs)
  <2> DEFINE d == [first |-> 0, last |-> 0]
  <2> HIDE DEF d
  <2>1. <<d>> \in Seq({d})
    OBVIOUS
  <2>2. p.durs = <<d>>
    BY DEF ParserInit, d
  <2>3. QED
    BY <2>1, <2>2, SeqKnown, Zenon
<1>4. /\ DOMAIN p = ParserFields /\ p.ops = <<>> /\ p.evs = <<>> /\ p.scopes = <<>>
      /\ p.first_ev = 0 /\ p.ev = 0 /\ p.label = [l \in Labels |-> 0]
  BY DEF ParserInit, ParserFields
<1>5. LevelOK(TopLevel, 0, 0, 0)
  BY DEF TopLevel, LevelOK, LevelFields
<1>6. Shape(p)
  <2>1. \A k \in 1..Len(p.pls) : k = 1
    BY <1>2
  <2>2. \A k \in 1..0 : FALSE
    OBVIOUS
  <2>3. p.label \in [Labels -> 0..0]
    BY <1>4
  <2>4. QED
    BY <1>1, <1>2, <1>3, <1>4, <1>5, <2>1, <2>2, <2>3 DEF Shape
<1>7. Stack(p)
  <2>1. (\A k \in 1..Len(p.pls) : k = 1) /\ (\A k \in 2..Len(p.pls) : FALSE)
    BY <1>2
  <2>2. TopLevel.scope = "top" /\ TopLevel.op_scope = 0 /\ TopLevel.local = 0
    BY DEF TopLevel
  <2>3. QED
    BY <1>2, <2>1, <2>2 DEF Stack
<1>8. Lists(p)
  <2>1. (\A l \in 1..Len(p.scopes) : FALSE) /\ (\A o \in 1..Len(p.ops) : FALSE)
    BY <1>1, <1>4
  <2>2. QED
    BY <2>1 DEF Lists
<1>9. Owned(p)
  <2>1. (\A l \in 1..Len(p.scopes) : FALSE) /\ (\A o \in 1..Len(p.ops) : FALSE)
    BY <1>1, <1>4
  <2>2. \A k \in 1..Len(p.pls) : p.pls[k].scope # "nest"
    <3>1. \A k \in 1..Len(p.pls) : k = 1
      BY <1>2
    <3>2. TopLevel.scope # "nest"
      BY DEF TopLevel
    <3>3. QED
      BY <1>2, <3>1, <3>2
  <2>3. QED
    BY <2>1, <2>2 DEF Owned
<1>10. QED
  BY <1>6, <1>7, <1>8, <1>9 DEF TreeInv

\* The tokens that leave the nodes where they are.
LEMMA TokenCalm ==
  ASSUME TreeInv(p), p.pls # <<>>,
         \/ SetTime \/ SetSilence \/ SetAmp \/ SetRamp \/ OpenSettings \/ SetMultiplier
         \/ SetDefTime \/ WaitBetween \/ SetLabel \/ BreakLine
  PROVE  Calm(p, p') /\ Steady(Level(p'))
<1>1. Shape(p) /\ Steady(Level(p))
  BY SteadyLevel DEF TreeInv
<1>2. CASE SetTime
  BY <1>2, TimeSet, Zenon DEF InWriting, SetTime, InEvent
<1>3. CASE SetSilence
  BY <1>3, SilenceSet, Zenon DEF InWriting, SetSilence, InEvent
<1>4. CASE SetAmp
  BY <1>4, AmpSet, Zenon DEF InWriting, SetAmp, InEvent
<1>5. CASE SetRamp
  BY <1>5, RampSet, Zenon DEF InWriting, SetRamp, InEvent
<1>6. CASE OpenSettings
  BY <1>1, <1>6, SettingsCalm
<1>7. CASE SetMultiplier \/ SetDefTime
  BY <1>1, <1>7, SettingCalm
<1>8. CASE WaitBetween
  BY <1>8, WaitBetweenCalm
<1>9. CASE SetLabel
  BY <1>1, <1>9, LabelCalm
<1>10. CASE BreakLine
  BY <1>1, <1>10, LineCalm
<1>11. QED
  BY <1>2, <1>3, <1>4, <1>5, <1>6, <1>7, <1>8, <1>9, <1>10

\* A token is read by a parser that is in a level.
LEMMA ReadParsing ==
  ASSUME ReadToken
  PROVE  p.pls # <<>> /\ ~p.ended /\ ~p.crashed
BY Zenon DEF ReadToken, SetTime, SetSilence, SetAmp, SetRamp, OpenSettings, SetMultiplier, SetDefTime,
       OpenNest, WaitInEvent, WaitBetween, NewOperator, NewComposite, SetLabel, UseLabel,
       Separate, OpenBlock, CloseBlock, CloseNest, BreakLine, Parsing

\* Every step keeps the invariant.
LEMMA StepTree ==
  ASSUME TreeInv(p), ParserNext
  PROVE  TreeInv(p')
<1>1. CASE EndOfScript
  BY <1>1, EndTree
<1>2. CASE ReadToken
  <2>1. p.pls # <<>>
    BY <1>2, ReadParsing
  <2>2. CASE \/ SetTime \/ SetSilence \/ SetAmp \/ SetRamp \/ OpenSettings \/ SetMultiplier
             \/ SetDefTime \/ WaitBetween \/ SetLabel \/ BreakLine
    BY <2>1, <2>2, TokenCalm, CalmTree
  <2>3. CASE OpenNest \/ OpenBlock
    BY <2>1, <2>3, EnterTree
  <2>4. CASE CloseBlock \/ CloseNest
    BY <2>1, <2>4, CloseTree
  <2>5. CASE WaitInEvent
    BY <2>1, <2>5, WaitTree
  <2>6. CASE NewOperator
    BY <2>1, <2>6, OperatorTree
  <2>7. CASE NewComposite
    BY <2>1, <2>7, CompositeTree
  <2>8. CASE UseLabel
    BY <2>1, <2>8, UseLabelTree
  <2>9. CASE Separate
    BY <2>1, <2>9, SeparateTree
  <2>10. QED
    BY <1>2, <2>2, <2>3, <2>4, <2>5, <2>6, <2>7, <2>8, <2>9 DEF ReadToken
<1>3. QED
  BY <1>1, <1>2 DEF ParserNext

(* The links made while parsing are always good, and the lists form trees:  *)
(* whatever levels are entered and left, a modulator is put in the list of *)
(* the level it is met in (parser.c:780-788), once, and that list is given *)
(* to one node when the level is left (parser.c:905-913), which was made   *)
(* before any that are in it.                                              *)
THEOREM TreesGrow == ParserSpec => []TreeInv(p)
<1>1. ParserInit => TreeInv(p)
  BY InitTree
<1>2. TreeInv(p) /\ [ParserNext]_<<p, text>> => TreeInv(p)'
  <2> SUFFICES ASSUME TreeInv(p), [ParserNext]_<<p, text>>
               PROVE  TreeInv(p)'
    OBVIOUS
  <2>1. CASE ParserNext
    BY <2>1, StepTree
  <2>2. CASE UNCHANGED <<p, text>>
    BY <2>2
  <2>3. QED
    BY <2>1, <2>2
<1>3. QED
  BY <1>1, <1>2, PTL DEF ParserSpec

-----------------------------------------------------------------------------
(* What the lists are, as the property has it. *)

\* What is in a sequence is at some place in it.
LEMMA InRange ==
  ASSUME NEW q, IsSeq(q), NEW x
  PROVE  x \in Range(q) <=> \E i \in 1..Len(q) : q[i] = x
<1>1. DOMAIN q = 1..Len(q)
  BY SeqFacts
<1>2. QED
  BY <1>1 DEF Range

\* The invariant is more than the property.
LEMMA TreesTold ==
  ASSUME TreeInv(p)
  PROVE  ListsAreTrees
<1>1. /\ IsSeq(p.ops) /\ IsSeq(p.scopes) /\ IsSeq(p.pls)
      /\ DOMAIN p.ops = 1..Len(p.ops) /\ DOMAIN p.scopes = 1..Len(p.scopes)
      /\ \A l \in 1..Len(p.scopes) : IsSeq(p.scopes[l])
      /\ \A o \in 1..Len(p.ops) : IsSeq(p.ops[o].scopes)
  BY SeqFacts DEF TreeInv, Shape, OpOK
<1>2. \A l \in 1..Len(p.scopes) : \A o :
         o \in Range(p.scopes[l]) <=> \E i \in 1..Len(p.scopes[l]) : p.scopes[l][i] = o
  BY <1>1, InRange
<1>3. \A o \in 1..Len(p.ops) : \A l : l \in Range(p.ops[o].scopes) <=> Owns(p, o, l)
  BY <1>1, InRange DEF Owns
<1>4. \A o, l : l \in Holders(o) <=>
         l \in 1..Len(p.scopes) /\ \E i \in 1..Len(p.scopes[l]) : p.scopes[l][i] = o
  BY <1>1, <1>2, Zenon DEF Holders
<1>5. \A o, l : o \in Owners(l) <=> o \in 1..Len(p.ops) /\ Owns(p, o, l)
  BY <1>1, <1>3 DEF Owners
<1>6. Lists(p) /\ Owned(p)
  BY DEF TreeInv
<1>7. \A o, l, m : l \in Holders(o) /\ m \in Holders(o) => l = m
  <2> SUFFICES ASSUME NEW o, NEW l, NEW m, l \in Holders(o), m \in Holders(o)
               PROVE  l = m
    OBVIOUS
  <2>1. PICK i \in 1..Len(p.scopes[l]) : p.scopes[l][i] = o /\ l \in 1..Len(p.scopes)
    BY <1>4
  <2>2. PICK j \in 1..Len(p.scopes[m]) : p.scopes[m][j] = o /\ m \in 1..Len(p.scopes)
    BY <1>4
  <2>3. QED
    BY <1>6, <2>1, <2>2, SMTT(30) DEF Lists
<1>8. ASSUME NEW o \in DOMAIN p.ops
      PROVE  Cardinality(Holders(o)) = IF p.ops[o].nested /\ p.ops[o].prev = 0 THEN 1 ELSE 0
  <2>1. CASE p.ops[o].nested /\ p.ops[o].prev = 0
    <3>1. PICK l \in 1..Len(p.scopes) : \E i \in 1..Len(p.scopes[l]) : p.scopes[l][i] = o
      BY <1>1, <1>6, <2>1 DEF Lists
    <3>4. l \in Holders(o)
      BY <1>4, <3>1
    <3>2. Holders(o) = {l}
      BY <1>7, <3>4
    <3>3. QED
      BY <2>1, <3>2, FS_Singleton, Zenon
  <2>2. CASE ~(p.ops[o].nested /\ p.ops[o].prev = 0)
    <3>1. Holders(o) = {}
      <4> SUFFICES ASSUME NEW l \in Holders(o) PROVE FALSE
        OBVIOUS
      <4>1. PICK i \in 1..Len(p.scopes[l]) : p.scopes[l][i] = o /\ l \in 1..Len(p.scopes)
        BY <1>4
      <4>2. p.ops[o].nested /\ p.ops[o].prev = 0
        BY <1>6, <4>1 DEF Lists
      <4>3. QED
        BY <2>2, <4>2
    <3>2. QED
      BY <2>2, <3>1, FS_EmptySet
  <2>3. QED
    BY <2>1, <2>2
<1>9. \A o \in DOMAIN p.ops : \A l \in Holders(o) : \A parent \in Owners(l) : parent < o
  <2> TAKE o \in DOMAIN p.ops
  <2> TAKE l \in Holders(o)
  <2> TAKE parent \in Owners(l)
  <2>1. PICK i \in 1..Len(p.scopes[l]) : p.scopes[l][i] = o /\ l \in 1..Len(p.scopes)
    BY <1>4
  <2>2. parent \in 1..Len(p.ops) /\ Owns(p, parent, l)
    BY <1>5
  <2>3. QED
    BY <1>6, <2>1, <2>2 DEF Owned
<1>10. \A l \in DOMAIN p.scopes : Cardinality(Owners(l)) <= 1
  <2> TAKE l \in DOMAIN p.scopes
  <2>1. \A n, o \in Owners(l) : n = o
    BY <1>1, <1>5, <1>6 DEF Owned
  <2>2. CASE Owners(l) = {}
    BY <2>2, FS_EmptySet
  <2>3. CASE Owners(l) # {}
    <3>1. PICK o : o \in Owners(l)
      BY <2>3
    <3>2. Owners(l) = {o}
      BY <2>1, <3>1
    <3>3. QED
      BY <3>2, FS_Singleton
  <2>4. QED
    BY <2>2, <2>3
<1>11. \A l \in DOMAIN p.scopes : IsInjective(p.scopes[l])
  <2> TAKE l \in DOMAIN p.scopes
  <2>1. IsSeq(p.scopes[l]) /\ DOMAIN p.scopes[l] = 1..Len(p.scopes[l])
    BY <1>1, SeqFacts
  <2>2. \A i, j \in 1..Len(p.scopes[l]) : p.scopes[l][i] = p.scopes[l][j] => i = j
    BY <1>1, <1>6 DEF Lists
  <2>3. QED
    BY <2>1, <2>2 DEF IsInjective
<1>12. Parsed => \A l \in DOMAIN p.scopes : Owners(l) # {}
  <2> HAVE Parsed
  <2> TAKE l \in DOMAIN p.scopes
  <2>1. \A k \in 1..Len(p.pls) : FALSE
    BY <1>1, SeqFacts DEF Parsed
  <2>2. \E o \in 1..Len(p.ops) : Owns(p, o, l)
    BY <1>1, <1>6, <2>1 DEF Owned
  <2>3. QED
    BY <1>5, <2>2
<1>13. QED
  BY <1>8, <1>9, <1>10, <1>11, <1>12 DEF ListsAreTrees

(* The lists of modulators are trees, for any script: what goes down them  *)
(* in parseconv.c meets each modulator once, and ends.                     *)
THEOREM ModulatorListsAreTrees == ParserSpec => []ListsAreTrees
<1>1. TreeInv(p) => ListsAreTrees
  BY TreesTold
<1>2. QED
  BY <1>1, TreesGrow, PTL

-----------------------------------------------------------------------------
(* The duration groups, in scripts without brackets. *)

\* X is the main list: what is found from the first event on.
Main(s, X) ==
    /\ X \subseteq 1..Len(s.evs)
    /\ \A e \in 1..Len(s.evs) :
          e \in X <=> e = s.first_ev \/ \E d \in 1..(e - 1) : d \in X /\ e = s.evs[d].next

\* ... and s.ev is the last in it.
EventList(s, X) ==
    /\ Main(s, X)
    /\ s.ev = 0 => s.first_ev = 0
    /\ \A e \in 1..Len(s.evs) : s.evs[e].next \in 0..Len(s.evs)
    /\ s.ev # 0 => s.ev \in X /\ s.evs[s.ev].next = 0
    /\ \A e \in X : e <= s.ev

\* A group is from an event to a later one, both of the group.
GroupOf(s, X, d) ==
    /\ s.durs[d].first \in X /\ s.durs[d].last \in X
    /\ s.durs[d].first <= s.durs[d].last
    /\ s.evs[s.durs[d].first].dur = d /\ s.evs[s.durs[d].last].dur = d

\* Event e is in the range of its group.
Placed1(s, e) ==
    LET d == s.evs[e].dur
    IN  /\ d \in 1..Len(s.durs) /\ s.durs[d].first # 0
        /\ s.durs[d].first <= e /\ e <= s.durs[d].last

\* The groups divide the events of Y; the last group may have none yet.
Divided(s, X, Y) ==
    /\ Len(s.durs) > 0
    /\ \A d \in 1..Len(s.durs) :
          DOMAIN s.durs[d] = {"first", "last"}
          /\ \/ d = Len(s.durs) /\ s.durs[d].first = 0
             \/ GroupOf(s, X, d)
    /\ \A e \in Y : Placed1(s, e)

\* An event is open.
Active(s) == s.pls # <<>> /\ Level(s).active_ev

\* An event that is open is placed when it ends; a composite's is before it.
Done(s, X) == IF Active(s) /\ Level(s).composite = 0 THEN X \ {s.ev} ELSE X

\* The open event is the last made; composites are for the last event in the main list,
\* which has been placed in the last group.
OpenEvent(s) ==
    /\ Level(s).event = Len(s.evs)
    /\ s.ev # 0
    /\ s.evs[s.ev].dur = Len(s.durs)
    /\ Level(s).composite = 0 => s.ev = Len(s.evs)
    /\ Level(s).composite # 0 =>
          /\ Level(s).composite = s.ev /\ s.ev # Len(s.evs)
          /\ s.durs[Len(s.durs)].first # 0

\* There is no level but the top one, whose open event is active.
OneLevel(s) ==
    /\ Len(s.pls) <= 1
    /\ s.pls # <<>> => (Level(s).active_ev <=> Level(s).event # 0)

\* The events, by the main list X: all that are done are divided among the groups.
FlatBy(s, X) ==
    OneLevel(s) /\ EventList(s, X) /\ Divided(s, X, Done(s, X)) /\ (Active(s) => OpenEvent(s))

\* There is a main list that they are divided so by.
Flat(s) == \E X : FlatBy(s, X)

\* The open operator node is of the open event.
OpenOp(s) ==
    Active(s) => Level(s).operator # 0 /\ s.ops[Level(s).operator].event = Len(s.evs)

\* With the same links the main list is the same.
LEMMA EventListKept ==
  ASSUME NEW s, NEW X, EventList(s, X), NEW t, SameLinks(s, t)
  PROVE  EventList(t, X)
<1>1. Main(t, X)
  <2>1. \A e \in 1..Len(s.evs) : \A d \in 1..(e - 1) :
           d \in X => d \in 1..Len(s.evs) /\ t.evs[d].next = s.evs[d].next
    BY DEF EventList, Main, SameLinks
  <2>2. \A e \in 1..Len(s.evs) :
           e \in X <=> e = s.first_ev \/ \E d \in 1..(e - 1) : d \in X /\ e = s.evs[d].next
    BY DEF EventList, Main
  <2>3. \A e \in 1..Len(s.evs) :
           e \in X <=> e = s.first_ev \/ \E d \in 1..(e - 1) : d \in X /\ e = t.evs[d].next
    <3> TAKE e \in 1..Len(s.evs)
    <3>1. \A d \in 1..(e - 1) : d \in X /\ e = t.evs[d].next <=> d \in X /\ e = s.evs[d].next
      BY <2>1
    <3>2. QED
      BY <2>2, <3>1
  <2>4. QED
    BY <2>3 DEF EventList, Main, SameLinks
<1>2. s.ev # 0 => t.evs[s.ev].next = 0
  BY Zenon DEF EventList, Main, SameLinks
<1>3. QED
  BY <1>1, <1>2 DEF EventList, SameLinks

\* The same events and groups have the same links.
LEMMA SameLinksOf ==
  ASSUME NEW s, NEW t, SameEvents(s, t)
  PROVE  SameLinks(s, t) /\ t.durs = s.durs
BY DEF SameEvents, SameLinks

\* What is told of the groups is of the events of the list.
LEMMA DividedKept ==
  ASSUME NEW s, NEW X, NEW Y, X \subseteq 1..Len(s.evs), Y \subseteq X, Divided(s, X, Y),
         NEW t, t.durs = s.durs,
         \A e \in 1..Len(s.evs) : t.evs[e].dur = s.evs[e].dur
  PROVE  Divided(t, X, Y)
<1>1. \A d \in 1..Len(s.durs) : GroupOf(s, X, d) => GroupOf(t, X, d)
  BY Zenon DEF GroupOf
<1>2. \A e \in Y : Placed1(s, e) => Placed1(t, e)
  BY Zenon DEF Placed1
<1>3. QED
  BY <1>1, <1>2 DEF Divided

\* With the same events and level the division is the same.
LEMMA FlatKept ==
  ASSUME NEW s, NEW X, FlatBy(s, X), s.pls # <<>>, NEW t, t.pls # <<>>,
         SameEvents(s, t), Len(t.pls) = Len(s.pls), SameLevel(Level(s), Level(t))
  PROVE  FlatBy(t, X)
<1>1. SameLinks(s, t) /\ t.durs = s.durs /\ Len(t.evs) = Len(s.evs) /\ t.ev = s.ev
      /\ \A e \in 1..Len(s.evs) : t.evs[e].dur = s.evs[e].dur
  BY SameLinksOf DEF SameEvents
<1>2. EventList(t, X)
  BY <1>1, EventListKept DEF FlatBy
<1>3. /\ Active(t) <=> Active(s)
      /\ Level(t).composite = Level(s).composite /\ Level(t).event = Level(s).event
      /\ Level(t).active_ev = Level(s).active_ev
  BY DEF SameLevel, Active
<1>4. Done(t, X) = Done(s, X)
  BY <1>1, <1>3 DEF Done
<1>5. X \subseteq 1..Len(s.evs) /\ Done(s, X) \subseteq X
  BY DEF FlatBy, EventList, Main, Done
<1>6. Divided(t, X, Done(t, X))
  BY <1>1, <1>4, <1>5, DividedKept, Zenon DEF FlatBy
<1>7. Active(t) => OpenEvent(t)
  <2>1. s.ev # 0 => s.ev \in 1..Len(s.evs)
    BY <1>5, Zenon DEF FlatBy, EventList
  <2>2. QED
    BY <1>1, <1>3, <2>1 DEF FlatBy, OpenEvent
<1>8. OneLevel(t)
  BY <1>3 DEF FlatBy, OneLevel
<1>9. QED
  BY <1>2, <1>6, <1>7, <1>8 DEF FlatBy

\* ... and where nodes stay it is the same.
LEMMA FlatCalm ==
  ASSUME NEW s, NEW X, FlatBy(s, X), s.pls # <<>>, OpenOp(s), NEW t, Shape(s), Calm(s, t)
  PROVE  FlatBy(t, X) /\ OpenOp(t)
<1>1. FlatBy(t, X)
  BY FlatKept DEF Calm, Quiet, SameOuter
<1>2. OpenOp(t)
  <2> SUFFICES ASSUME Active(t)
               PROVE  Level(t).operator # 0 /\ t.ops[Level(t).operator].event = Len(t.evs)
    BY DEF OpenOp
  <2>1. Active(s)
    BY DEF Active, Calm, Quiet, SameLevel
  <2>2. Level(s).operator # 0 /\ s.ops[Level(s).operator].event = Len(s.evs)
    BY <2>1 DEF OpenOp
  <2>3. Level(s).operator \in 1..Len(s.ops)
    BY <2>2, OpOfLevel
  <2>4. QED
    BY <2>2, <2>3 DEF Calm, Quiet, SameNodes, SameOp, SameEvents
<1>3. QED
  BY <1>1, <1>2

\* The end of an event puts it in the last group.
LEMMA FlatEnded ==
  ASSUME NEW s, Shape(s), s.pls # <<>>, NEW X, FlatBy(s, X)
  PROVE  LET t == end_event(s)
         IN  /\ FlatBy(t, X) /\ ~Active(t) /\ Divided(t, X, X) /\ Len(t.durs) = Len(s.durs)
             /\ Active(s) => t.durs[Len(t.durs)].first # 0
<1> DEFINE t == end_event(s)
           n == Len(s.durs)
<1>1. /\ Shape(t) /\ SameOuter(s, t) /\ SameLinks(s, t) /\ t.pls # <<>>
      /\ SameCall(Level(s), Level(t))
      /\ ~Level(s).active_ev => t = s
      /\ Level(s).active_ev => /\ ~Level(t).active_ev /\ Level(t).event = 0
                               /\ t.durs = Ended(s)
  BY EndEvent
<1> HIDE DEF t
<1>2. CASE ~Level(s).active_ev
  <2>1. t = s /\ ~Active(s) /\ Done(s, X) = X
    BY <1>1, <1>2 DEF Active, Done
  <2>2. QED
    BY <2>1 DEF t, FlatBy
<1>3. CASE Level(s).active_ev
  <2>1. Active(s) /\ OpenEvent(s) /\ EventList(s, X) /\ Divided(s, X, Done(s, X))
    BY <1>3 DEF FlatBy, Active
  <2>2. EventList(t, X)
    BY <1>1, <2>1, EventListKept
  <2>3. ~Active(t) /\ OneLevel(t)
    BY <1>1, <1>3 DEF Active, OneLevel, FlatBy, SameOuter
  <2>4. Done(t, X) = X
    BY <2>3 DEF Done
  <2> DEFINE g == GroupTo(s.durs[n], Level(s).event, Level(s).composite)
  <2>5. g.last = s.ev /\ g.first = (IF s.durs[n].first = 0 THEN s.ev ELSE s.durs[n].first)
        /\ DOMAIN g = {"first", "last"}
    BY <2>1 DEF GroupTo, OpenEvent
  <2> HIDE DEF g
  <2>6. IsSeq(s.durs) /\ n \in Nat \ {0} /\ n \in 1..n
    BY <2>1, SeqFacts DEF Shape, Divided
  <2>7. /\ Len(t.durs) = n
        /\ \A d \in 1..n : d # n => t.durs[d] = s.durs[d]
        /\ t.durs[n] = g
    <3>1. t.durs = Put(s.durs, n, g)
      BY <1>1, <1>3 DEF Ended, g
    <3> HIDE DEF n
    <3>2. QED
      BY <2>6, <3>1, SeqPatched DEF n
  <2>8. /\ X \subseteq 1..Len(s.evs) /\ s.ev \in X /\ \A e \in X : e <= s.ev
        /\ Len(s.evs) \in Nat /\ s.evs[s.ev].dur = n /\ s.ev # 0
    BY <2>1, SeqFacts DEF EventList, Main, OpenEvent, Shape
  <2>9. \A e \in X : t.evs[e].dur = s.evs[e].dur
    BY <1>1, <2>8 DEF SameLinks
  <2>10. s.durs[n].first # 0 => GroupOf(s, X, n)
    BY <2>1, <2>6 DEF Divided
  <2>11. g.first \in X /\ g.first # 0 /\ s.evs[g.first].dur = n /\ g.first <= g.last
    <3>1. CASE s.durs[n].first = 0
      BY <2>5, <2>8, <3>1, Zenon
    <3>2. CASE s.durs[n].first # 0
      <4>1. GroupOf(s, X, n) /\ g.first = s.durs[n].first
        BY <2>5, <2>10, <3>2
      <4>2. QED
        BY <2>5, <2>8, <3>2, <4>1, Zenon DEF GroupOf
    <3>3. QED
      BY <3>1, <3>2
  <2>12. \A d \in 1..n : DOMAIN t.durs[d] = {"first", "last"} /\ GroupOf(t, X, d)
    <3> TAKE d \in 1..n
    <3>1. CASE d = n
      <4>1. t.durs[d] = g /\ g.last \in X /\ t.evs[g.last].dur = n /\ t.evs[g.first].dur = n
        BY <2>5, <2>7, <2>8, <2>9, <2>11, <3>1, Zenon
      <4>2. QED
        BY <2>5, <2>11, <3>1, <4>1 DEF GroupOf
    <3>2. CASE d # n
      <4>1. GroupOf(s, X, d) /\ DOMAIN s.durs[d] = {"first", "last"} /\ t.durs[d] = s.durs[d]
        BY <2>1, <2>7, <3>2 DEF Divided
      <4>2. QED
        BY <2>9, <4>1 DEF GroupOf
    <3>3. QED
      BY <3>1, <3>2
  <2>13. \A e \in X : Placed1(t, e)
    <3> TAKE e \in X
    <3>1. CASE s.evs[e].dur = n
      <4>1. g.first <= e
        <5>1. CASE e = s.ev
          BY <2>5, <2>11, <5>1
        <5>2. CASE e # s.ev
          <6>1. Placed1(s, e)
            BY <2>1, <5>2 DEF Divided, Done
          <6>2. QED
            BY <2>5, <3>1, <6>1 DEF Placed1
        <5>3. QED
          BY <5>1, <5>2
      <4>2. t.evs[e].dur = n /\ e <= g.last
        BY <2>5, <2>8, <2>9, <3>1
      <4>3. QED
        BY <2>6, <2>7, <2>11, <4>1, <4>2 DEF Placed1
    <3>2. CASE s.evs[e].dur # n
      <4>1. Placed1(s, e)
        BY <2>1, <2>8, <3>2 DEF Divided, Done
      <4>2. QED
        BY <2>7, <2>9, <3>2, <4>1, Zenon DEF Placed1
    <3>3. QED
      BY <3>1, <3>2
  <2>14. Divided(t, X, X)
    BY <2>6, <2>7, <2>12, <2>13 DEF Divided
  <2>15. t.durs[Len(t.durs)].first # 0
    BY <2>7, <2>11
  <2>16. FlatBy(t, X)
    BY <2>2, <2>3, <2>4, <2>14 DEF FlatBy
  <2>17. QED
    BY <2>3, <2>7, <2>14, <2>15, <2>16 DEF t
<1>4. QED
  BY <1>2, <1>3

\* A new event is the next of the main list.
LEMMA FlatBegun ==
  ASSUME NEW s, Shape(s), s.pls # <<>>, NEW X, FlatBy(s, X)
  PROVE  Flat(begin_event(s, FALSE))
<1> DEFINE t == begin_event(s, FALSE)
           u == end_event(s)
           n == Len(s.evs)
           e == n + 1
           Y == X \cup {e}
<1>1. Shape(t) /\ SameOuter(s, t) /\ t.pls # <<>> /\ Begun(s, FALSE, t)
  BY BeginEvent, Zenon
<1> HIDE DEF t
<1>2. EventList(s, X) /\ n \in Nat /\ X \subseteq 1..n
  BY SeqFacts DEF FlatBy, EventList, Main, Shape
<1>3. /\ Len(t.evs) = e
      /\ \A d \in 1..n : /\ t.evs[d].dur = s.evs[d].dur
                         /\ t.evs[d].next = IF d = s.ev THEN e ELSE s.evs[d].next
      /\ t.evs[e].dur = Len(s.durs) /\ t.evs[e].next = 0
      /\ t.ev = e
      /\ t.first_ev = (IF s.ev = 0 THEN e ELSE s.first_ev)
      /\ t.durs = u.durs
      /\ Level(t).active_ev = TRUE /\ Level(t).event = e /\ Level(t).composite = 0
  BY <1>1 DEF Begun, Before, CompositeAfter
<1>4. /\ Divided(u, X, X) /\ Len(u.durs) = Len(s.durs)
      /\ \A d \in 1..n : u.evs[d].dur = s.evs[d].dur
      /\ Len(u.evs) = n
  BY FlatEnded, EndEvent DEF SameLinks
<1> HIDE DEF u
<1>5. Main(t, Y)
  <2>1. Y \subseteq 1..e /\ e \notin X
    BY <1>2
  <2>2. ASSUME NEW f \in 1..n
        PROVE  f \in Y <=> f = t.first_ev \/ \E d \in 1..(f - 1) : d \in Y /\ f = t.evs[d].next
    <3>1. f # e /\ f \in Nat
      BY <1>2
    <3>2. f \in X <=> f = s.first_ev \/ \E d \in 1..(f - 1) : d \in X /\ f = s.evs[d].next
      BY <1>2 DEF EventList, Main
    <3>3. \A d \in 1..(f - 1) : d \in 1..n /\ d # e
      BY <1>2
    <3>4. \A d \in 1..(f - 1) : d \in Y /\ f = t.evs[d].next <=> d \in X /\ f = s.evs[d].next
      <4> TAKE d \in 1..(f - 1)
      <4>1. CASE d = s.ev
        <5>1. t.evs[d].next = e /\ s.evs[d].next = 0
          BY <1>2, <1>3, <3>3, <4>1 DEF EventList
        <5>2. QED
          BY <3>1, <5>1
      <4>2. CASE d # s.ev
        BY <1>3, <3>3, <4>2
      <4>3. QED
        BY <4>1, <4>2
    <3>5. f = t.first_ev <=> f = s.first_ev
      BY <1>2, <1>3, <3>1 DEF EventList
    <3>6. QED
      BY <3>1, <3>2, <3>4, <3>5
  <2>3. e = t.first_ev \/ \E d \in 1..(e - 1) : d \in Y /\ e = t.evs[d].next
    <3>1. CASE s.ev = 0
      <4> HIDE DEF Y, e
      <4>1. QED
        BY <1>3, <3>1
    <3>2. CASE s.ev # 0
      <4>1. s.ev \in X
        BY <1>2, <3>2 DEF EventList
      <4>2. e - 1 = n
        BY <1>2
      <4>3. s.ev \in 1..n /\ s.ev \in Y
        BY <1>2, <4>1, Zenon
      <4> HIDE DEF Y, e
      <4>4. QED
        BY <1>3, <4>2, <4>3, Zenon
    <3>3. QED
      BY <3>1, <3>2
  <2>4. \A f \in 1..e : f \in 1..n \/ f = e
    BY <1>2
  <2>5. \A f \in 1..e :
           f \in Y <=> f = t.first_ev \/ \E d \in 1..(f - 1) : d \in Y /\ f = t.evs[d].next
    <3> TAKE f \in 1..e
    <3>1. CASE f \in 1..n
      BY <2>2, <3>1
    <3>2. CASE f = e
      BY <2>3, <3>2
    <3>3. QED
      BY <2>4, <3>1, <3>2
  <2> HIDE DEF Y, e
  <2>6. QED
    BY <1>3, <2>1, <2>5 DEF Main
<1>6. EventList(t, Y)
  <2>1. \A f \in 1..e : t.evs[f].next \in 0..e
    <3>1. \A f \in 1..n : s.evs[f].next \in 0..n
      BY <1>2 DEF EventList
    <3>2. 0..n \subseteq 0..e /\ e \in 0..e /\ 0 \in 0..e /\ \A f \in 1..e : f \in 1..n \/ f = e
      BY <1>2
    <3> HIDE DEF Y, e
    <3>3. t.evs[e].next \in 0..e
      BY <1>3, <3>2
    <3>4. ASSUME NEW f \in 1..n PROVE t.evs[f].next \in 0..e
      <4>1. t.evs[f].next = IF f = s.ev THEN e ELSE s.evs[f].next
        BY <1>3
      <4>2. s.evs[f].next \in 0..e
        BY <3>1, <3>2
      <4>3. QED
        BY <3>2, <4>1, <4>2
    <3>5. QED
      BY <3>2, <3>3, <3>4
  <2>2. e # 0 /\ \A f \in Y : f <= e
    BY <1>2
  <2>3. e \in Y
    OBVIOUS
  <2> HIDE DEF Y, e
  <2>4. QED
    BY <1>3, <1>5, <2>1, <2>2, <2>3 DEF EventList
<1>7. Active(t) /\ Done(t, Y) = X
  <2>1. Active(t)
    BY <1>1, <1>3 DEF Active
  <2>2. Y \ {e} = X
    BY <1>2
  <2> HIDE DEF Y, e
  <2>3. QED
    BY <1>3, <2>1, <2>2 DEF Done
<1>8. Divided(t, Y, X)
  <2>1. \A d \in 1..Len(u.durs) : GroupOf(u, X, d) => GroupOf(t, Y, d)
    <3>1. \A x \in X : x \in Y /\ t.evs[x].dur = u.evs[x].dur
      BY <1>2, <1>3, <1>4
    <3> HIDE DEF Y, e
    <3>2. QED
      BY <1>3, <3>1, SMTT(30) DEF GroupOf
  <2>2. \A x \in X : Placed1(u, x) => Placed1(t, x)
    <3>1. \A x \in X : t.evs[x].dur = u.evs[x].dur
      BY <1>2, <1>3, <1>4
    <3> HIDE DEF Y, e
    <3>2. QED
      BY <1>3, <3>1, Zenon DEF Placed1
  <2> HIDE DEF Y
  <2>3. QED
    BY <1>3, <1>4, <2>1, <2>2 DEF Divided
<1>9. OpenEvent(t)
  <2>1. e # 0
    BY <1>2
  <2> HIDE DEF e
  <2>2. QED
    BY <1>3, <1>4, <2>1 DEF OpenEvent
<1>10. OneLevel(t)
  <2>1. e # 0
    BY <1>2
  <2> HIDE DEF e
  <2>2. QED
    BY <1>1, <1>3, <2>1 DEF OneLevel, SameOuter, FlatBy
<1>11. FlatBy(t, Y)
  BY <1>6, <1>7, <1>8, <1>9, <1>10 DEF FlatBy
<1>12. QED
  BY <1>11, Zenon DEF Flat, t

\* A composite event is not in the main list.
LEMMA FlatComposite ==
  ASSUME NEW s, Shape(s), s.pls # <<>>, NEW X, FlatBy(s, X), Active(s),
         Level(s).op_prev # 0, s.ops[Level(s).op_prev].event = Len(s.evs)
  PROVE  FlatBy(begin_event(s, TRUE), X)
<1> DEFINE t == begin_event(s, TRUE)
           u == end_event(s)
           n == Len(s.evs)
           e == n + 1
<1>1. Shape(t) /\ SameOuter(s, t) /\ t.pls # <<>> /\ Begun(s, TRUE, t)
  BY BeginEvent, Zenon
<1> HIDE DEF t
<1>2. EventList(s, X) /\ n \in Nat /\ X \subseteq 1..n /\ OpenEvent(s)
  BY SeqFacts DEF FlatBy, EventList, Main, Shape
<1>3. s.ev \in X /\ s.ev # 0 /\ s.evs[s.ev].next = 0 /\ s.evs[s.ev].dur = Len(s.durs)
      /\ s.ev \in 1..n
  BY <1>2, Zenon DEF OpenEvent, EventList
<1> DEFINE c == IF Level(s).composite = 0 THEN 0 ELSE n
<1>4. Before(s, TRUE) = c /\ CompositeAfter(s, TRUE) = s.ev
  BY <1>2 DEF Before, CompositeAfter, OpenEvent
<1>5. c \notin X
  <2>1. CASE Level(s).composite = 0
    BY <1>2, <2>1
  <2>2. CASE Level(s).composite # 0
    <3>1. s.ev # n
      BY <1>2, <2>2 DEF OpenEvent
    <3>2. s.ev < n
      BY <1>2, <1>3, <3>1
    <3>3. \A x \in X : x <= s.ev /\ x \in 1..n
      BY <1>2 DEF EventList
    <3>4. n \notin X
      BY <1>2, <1>3, <3>2, <3>3
    <3>5. QED
      BY <2>2, <3>4
  <2>3. QED
    BY <2>1, <2>2
<1> HIDE DEF c
<1>6. /\ Len(t.evs) = e
      /\ \A d \in 1..n : /\ t.evs[d].dur = s.evs[d].dur
                         /\ t.evs[d].next = IF d = c THEN e ELSE s.evs[d].next
      /\ t.evs[e].dur = Len(s.durs) /\ t.evs[e].next = 0
      /\ t.ev = s.ev
      /\ t.first_ev = s.first_ev
      /\ t.durs = u.durs
      /\ Level(t).active_ev = TRUE /\ Level(t).event = e /\ Level(t).composite = s.ev
  BY <1>1, <1>4, Zenon DEF Begun
<1>7. /\ Divided(u, X, X) /\ Len(u.durs) = Len(s.durs)
      /\ \A d \in 1..n : u.evs[d].dur = s.evs[d].dur
      /\ Len(u.evs) = n
      /\ u.durs[Len(u.durs)].first # 0
  BY FlatEnded, EndEvent DEF SameLinks
<1> HIDE DEF u
<1>8. \A d \in X : t.evs[d].next = s.evs[d].next /\ t.evs[d].dur = s.evs[d].dur
                   /\ s.evs[d].next \in 0..n
  BY <1>2, <1>5, <1>6 DEF EventList
<1>9. Main(t, X)
  <2>1. \A f \in 1..e : f \in 1..n \/ f = e
    BY <1>2
  <2>2. \A f \in 1..n : f \in X <=>
           f = s.first_ev \/ \E d \in 1..(f - 1) : d \in X /\ f = s.evs[d].next
    BY <1>2 DEF EventList, Main
  <2>3. \A f \in 1..n : f \in X <=>
           f = t.first_ev \/ \E d \in 1..(f - 1) : d \in X /\ f = t.evs[d].next
    <3> TAKE f \in 1..n
    <3>1. \A d \in 1..(f - 1) : d \in X /\ f = t.evs[d].next <=> d \in X /\ f = s.evs[d].next
      BY <1>8
    <3>2. QED
      BY <1>6, <2>2, <3>1
  <2>4. e \notin X /\ e # t.first_ev /\ \A d \in X : e # t.evs[d].next
    <3>1. s.first_ev \in 0..n
      BY DEF Shape
    <3>2. e \notin 0..n
      BY <1>2
    <3> HIDE DEF e
    <3>3. \A d \in X : e # t.evs[d].next
      BY <1>8, <3>2
    <3>4. e # t.first_ev
      BY <1>6, <3>1, <3>2
    <3>5. e \notin X
      BY <1>2 DEF e
    <3>6. QED
      BY <3>3, <3>4, <3>5
  <2>5. X \subseteq 1..e
    BY <1>2
  <2>6. \A f \in 1..e : f \in X <=>
           f = t.first_ev \/ \E d \in 1..(f - 1) : d \in X /\ f = t.evs[d].next
    <3> HIDE DEF e
    <3>1. QED
      BY <2>1, <2>3, <2>4
  <2> HIDE DEF e
  <2>7. QED
    BY <1>6, <2>5, <2>6 DEF Main
<1>10. EventList(t, X)
  <2>1. \A f \in 1..e : t.evs[f].next \in 0..e
    <3>1. \A f \in 1..n : s.evs[f].next \in 0..n
      BY <1>2 DEF EventList
    <3>2. 0..n \subseteq 0..e /\ e \in 0..e /\ 0 \in 0..e /\ \A f \in 1..e : f \in 1..n \/ f = e
      BY <1>2
    <3>3. QED
      BY <1>6, <3>1, <3>2, Zenon
  <2> HIDE DEF e
  <2>2. t.evs[t.ev].next = 0
    BY <1>3, <1>6, <1>8
  <2>3. QED
    BY <1>2, <1>3, <1>6, <1>9, <2>1, <2>2 DEF EventList
<1>11. Active(t) /\ Done(t, X) = X
  BY <1>1, <1>3, <1>6 DEF Active, Done
<1>12. Divided(t, X, X)
  <2>1. \A d \in 1..n : t.evs[d].dur = u.evs[d].dur
    BY <1>6, <1>7, Zenon
  <2>2. QED
    BY <1>2, <1>6, <1>7, <2>1, DividedKept, Zenon
<1>13. OpenEvent(t)
  <2>1. s.ev # e
    BY <1>2, <1>3
  <2> HIDE DEF e
  <2>2. t.evs[t.ev].dur = Len(s.durs)
    BY <1>3, <1>6
  <2>3. QED
    BY <1>3, <1>6, <1>7, <2>1, <2>2 DEF OpenEvent
<1>14. OneLevel(t)
  <2>1. e # 0
    BY <1>2
  <2> HIDE DEF e
  <2>2. QED
    BY <1>1, <1>6, <2>1 DEF OneLevel, SameOuter, FlatBy
<1>15. QED
  BY <1>10, <1>11, <1>12, <1>13, <1>14, Zenon DEF FlatBy, t

\* An operator node is put in the open event.
LEMMA FlatOperator ==
  ASSUME NEW s, Shape(s), s.pls # <<>>, NEW X, FlatBy(s, X), Active(s),
         NEW composite \in BOOLEAN
  PROVE  FlatBy(begin_operator(s, composite), X) /\ OpenOp(begin_operator(s, composite))
<1> DEFINE t == begin_operator(s, composite)
<1>1. /\ Shape(t) /\ SameEvents(s, t) /\ SameOuter(s, t) /\ t.pls # <<>>
      /\ SameLevel(Level(s), Level(t)) /\ NewOp(s, t)
  BY BeginOperator
<1> HIDE DEF t
<1>2. FlatBy(t, X)
  BY <1>1, FlatKept DEF SameOuter
<1>3. Level(t).operator # 0 /\ t.ops[Level(t).operator].event = Level(s).event
  <2>1. Len(s.ops) \in Nat
    BY SeqFacts DEF Shape
  <2>2. Len(s.ops) + 1 # 0
    BY <2>1
  <2>3. Level(t).operator = Len(s.ops) + 1 /\ t.ops[Len(s.ops) + 1].event = Level(s).event
    BY <1>1 DEF NewOp
  <2>4. QED
    BY <2>2, <2>3
<1>4. Level(s).event = Len(t.evs)
  BY <1>1 DEF FlatBy, OpenEvent, SameEvents
<1>5. QED
  BY <1>2, <1>3, <1>4 DEF OpenOp, t

\* A composite node is for an operator node of the open event.
CompositeFits(s, pop) == Active(s) /\ pop # 0 /\ s.ops[pop].event = Len(s.evs)

\* begin_node keeps the division, with an event or without.
LEMMA FlatBeginNode ==
  ASSUME NEW s, Shape(s), s.pls # <<>>, NEW X, FlatBy(s, X), OpenOp(s),
         NEW pop \in 0..Len(s.ops), NEW composite \in BOOLEAN,
         composite => CompositeFits(s, pop)
  PROVE  Flat(begin_node(s, pop, composite)) /\ OpenOp(begin_node(s, pop, composite))
<1> DEFINE at == After(s, pop)
           b  == IF NeedsEvent(s, pop, composite) THEN begin_event(at, composite) ELSE at
           t  == begin_node(s, pop, composite)
<1>1. Calm(s, at) /\ Level(at).op_prev = pop /\ t = begin_operator(b, composite)
  BY BeginNodeIs
<1> HIDE DEF at
<1>2. FlatBy(at, X) /\ OpenOp(at) /\ Shape(at) /\ at.pls # <<>>
  BY <1>1, FlatCalm DEF Calm
<1>3. Active(at) <=> Active(s)
  BY <1>1 DEF Active, Calm, Quiet, SameLevel
<1>4. PICK Y : FlatBy(b, Y) /\ Active(b) /\ Shape(b) /\ b.pls # <<>>
  <2>1. CASE NeedsEvent(s, pop, composite)
    <3> DEFINE c == begin_event(at, composite)
    <3>1. b = c
      BY <2>1
    <3>2. Shape(c) /\ c.pls # <<>> /\ Begun(at, composite, c)
      BY <1>2, BeginEvent
    <3>3. Active(c)
      BY <3>2 DEF Active, Begun
    <3>4. Flat(c)
      <4>1. CASE composite = FALSE
        BY <1>2, <4>1, FlatBegun, Zenon
      <4>2. CASE composite = TRUE
        <5>1. CompositeFits(s, pop)
          BY <4>2
        <5>2. at.ops[pop].event = Len(at.evs)
          <6>1. pop \in 1..Len(s.ops)
            BY <5>1, SeqFacts DEF CompositeFits, Shape
          <6>2. QED
            BY <1>1, <5>1, <6>1 DEF CompositeFits, Calm, Quiet, SameNodes, SameOp, SameEvents
        <5>3. Active(at) /\ Level(at).op_prev # 0
              /\ at.ops[Level(at).op_prev].event = Len(at.evs)
          BY <1>1, <1>3, <5>1, <5>2 DEF CompositeFits
        <5>4. FlatBy(begin_event(at, TRUE), X)
          BY <1>2, <5>3, FlatComposite, Zenon
        <5>5. QED
          BY <4>2, <5>4, Zenon DEF Flat
      <4>3. QED
        BY <4>1, <4>2, Zenon
    <3> HIDE DEF b, c
    <3>5. QED
      BY <3>1, <3>2, <3>3, <3>4 DEF Flat
  <2>2. CASE ~NeedsEvent(s, pop, composite)
    <3>1. Active(s)
      BY <2>2 DEF NeedsEvent, FlatBy, OneLevel, Active
    <3>2. b = at
      BY <2>2
    <3> HIDE DEF b
    <3>3. QED
      BY <1>2, <1>3, <3>1, <3>2
  <2>3. QED
    BY <2>1, <2>2
<1> HIDE DEF b
<1>5. FlatBy(begin_operator(b, composite), Y) /\ OpenOp(begin_operator(b, composite))
  BY <1>4, FlatOperator
<1>6. QED
  BY <1>1, <1>5 DEF Flat, t

\* A step that leaves nodes where they are keeps the division.
LEMMA CalmFlat ==
  ASSUME NEW s, Shape(s), s.pls # <<>>, Flat(s), OpenOp(s), NEW t, Calm(s, t)
  PROVE  Flat(t) /\ OpenOp(t)
BY FlatCalm DEF Flat

\* ... and so does what begins a node and reads its parameters.
LEMMA FlatOpened ==
  ASSUME NEW s, TreeInv(s), s.pls # <<>>, Flat(s), OpenOp(s),
         NEW pop \in 0..Len(s.ops), NEW composite \in BOOLEAN,
         composite => CompositeFits(s, pop)
  PROVE  /\ Flat(begin_node(s, pop, composite)) /\ OpenOp(begin_node(s, pop, composite))
         /\ Flat(parse_in_event(begin_node(s, pop, composite)))
         /\ OpenOp(parse_in_event(begin_node(s, pop, composite)))
<1> DEFINE u == begin_node(s, pop, composite)
<1>1. PICK X : FlatBy(s, X)
  BY DEF Flat
<1>2. Flat(u) /\ OpenOp(u)
  BY <1>1, FlatBeginNode DEF TreeInv
<1>3. Shape(u) /\ u.pls # <<>> /\ Steady(Level(u))
  BY BeginNode DEF Inside, Steady
<1> HIDE DEF u
<1>4. Calm(u, parse_in_event(u))
  BY <1>3, InEventCalm
<1>5. Flat(parse_in_event(u)) /\ OpenOp(parse_in_event(u))
  BY <1>2, <1>3, <1>4, CalmFlat
<1>6. QED
  BY <1>2, <1>5 DEF u

\* A wait among parameters keeps the division.
LEMMA FlatWait ==
  ASSUME TreeInv(p), p.pls # <<>>, Flat(p), OpenOp(p), WaitInEvent
  PROVE  Flat(p') /\ OpenOp(p')
<1>1. Shape(p) /\ Steady(Level(p))
  BY SteadyLevel DEF TreeInv
<1>2. PICK t : LET s == AddWait(p, t)
               IN  \/ p' = s
                   \/ p' = begin_node(s, Level(s).operator, FALSE)
  BY Zenon DEF WaitInEvent, Goes
<1> DEFINE s == AddWait(p, t)
<1>3. Calm(p, s) /\ Steady(Level(s))
  BY <1>1, WaitCalm
<1> HIDE DEF s
<1>4. TreeInv(s) /\ s.pls # <<>> /\ Flat(s) /\ OpenOp(s)
  BY <1>1, <1>3, CalmTree, CalmFlat DEF Calm
<1>5. Level(s).operator \in 0..Len(s.ops)
  BY <1>4, OpOfLevel DEF TreeInv
<1>6. LET u == begin_node(s, Level(s).operator, FALSE) IN Flat(u) /\ OpenOp(u)
  BY <1>4, <1>5, FlatOpened, Zenon
<1>7. QED
  BY <1>2, <1>4, <1>6, Zenon DEF s

\* An operator's type keeps the division.
LEMMA FlatNewOperator ==
  ASSUME TreeInv(p), p.pls # <<>>, Flat(p), OpenOp(p), NewOperator
  PROVE  Flat(p') /\ OpenOp(p')
<1> DEFINE u == Idle(p)
<1>1. TreeInv(u) /\ u.pls # <<>> /\ Flat(u) /\ OpenOp(u)
  BY IdleTree, IdleCalm, CalmFlat DEF TreeInv
<1>2. p' = parse_in_event(begin_node(u, 0, FALSE))
  BY DEF NewOperator, Goes, Deferred, Idle
<1> HIDE DEF u
<1>3. 0 \in 0..Len(u.ops)
  <2>1. Len(u.ops) \in Nat
    BY <1>1, SeqFacts DEF TreeInv, Shape
  <2>2. QED
    BY <2>1
<1>4. QED
  BY <1>1, <1>2, <1>3, FlatOpened, Zenon

\* ";" keeps the division: in a text without brackets the node it is for is the open
\* one, of the open event.
LEMMA FlatNewComposite ==
  ASSUME TreeInv(p), p.pls # <<>>, Flat(p), OpenOp(p), NewComposite
  PROVE  Flat(p') /\ OpenOp(p')
<1> DEFINE u   == Idle(p)
           pop == Level(p).operator
<1>1. TreeInv(u) /\ u.pls # <<>> /\ Flat(u) /\ OpenOp(u) /\ Calm(p, u)
  BY IdleTree, IdleCalm, CalmFlat DEF TreeInv
<1>2. \/ p' = ReturnToSub(u)
      \/ Level(p).event # 0 /\ p' = parse_in_event(begin_node(u, pop, TRUE))
  BY Zenon DEF NewComposite, Goes, Deferred, Idle
<1>3. CASE p' = ReturnToSub(u)
  BY <1>3, IdleReturn, CalmFlat DEF TreeInv
<1>4. CASE Level(p).event # 0 /\ p' = parse_in_event(begin_node(u, pop, TRUE))
  <2>1. Active(p)
    BY <1>4 DEF Flat, FlatBy, OneLevel, Active
  <2>2. Level(u).operator = pop /\ Active(u)
    BY <1>1, <2>1 DEF Calm, Quiet, SameLevel, Active
  <2>3. CompositeFits(u, pop)
    BY <1>1, <2>2 DEF OpenOp, CompositeFits
  <2>4. pop \in 0..Len(u.ops)
    BY <1>1, <2>2, OpOfLevel DEF TreeInv
  <2> HIDE DEF u, pop
  <2>5. QED
    BY <1>1, <1>4, <2>3, <2>4, FlatOpened, Zenon
<1>5. QED
  BY <1>2, <1>3, <1>4, Zenon

\* "@" keeps the division.
LEMMA FlatUseLabel ==
  ASSUME TreeInv(p), p.pls # <<>>, Flat(p), OpenOp(p), UseLabel
  PROVE  Flat(p') /\ OpenOp(p')
<1> DEFINE u == Fresh(p)
<1>1. Calm(p, u) /\ Steady(Level(u))
  BY FreshCalm DEF TreeInv
<1>2. \/ p' = u
      \/ \E pop \in 1..Len(p.ops) : p' = parse_in_event(begin_node(u, pop, FALSE))
  BY UseLabelIs, Zenon DEF TreeInv
<1> HIDE DEF u
<1>3. TreeInv(u) /\ u.pls # <<>> /\ Len(u.ops) = Len(p.ops) /\ Flat(u) /\ OpenOp(u)
  BY <1>1, CalmTree, CalmFlat DEF Calm, Quiet, SameNodes, TreeInv
<1>4. \A pop \in 1..Len(p.ops) : pop \in 0..Len(u.ops)
  BY <1>3
<1>5. \A pop \in 0..Len(u.ops) : LET t == parse_in_event(begin_node(u, pop, FALSE))
                                 IN  Flat(t) /\ OpenOp(t)
  BY <1>3, FlatOpened, Zenon
<1>6. QED
  BY <1>2, <1>3, <1>4, <1>5, Zenon

\* After "|" the last group is a new one, that has no event yet.
LEMMA FlatSeparated ==
  ASSUME NEW s, Shape(s), s.pls # <<>>, NEW X, FlatBy(s, X), ~Active(s),
         Last(s.durs).first # 0
  PROVE  FlatBy(NewGroup(s), X) /\ ~Active(NewGroup(s))
<1> DEFINE g == [first |-> 0, last |-> 0]
           q == Append(s.durs, g)
           n == Len(s.durs)
           t == NewGroup(s)
<1>1. /\ IsSeq(q) /\ Len(q) = n + 1 /\ \A d \in 1..n : q[d] = s.durs[d]
      /\ q[n + 1] = g /\ n \in Nat
  <2>1. IsSeq(s.durs)
    BY DEF Shape
  <2> HIDE DEF g
  <2>2. QED
    BY <2>1, SeqAppended, SeqFacts
<1>2. g.first = 0 /\ DOMAIN g = {"first", "last"} /\ t = [s EXCEPT !.durs = q]
  BY DEF NewGroup
<1> HIDE DEF g, q, t
<1>3. /\ SameLinks(s, t) /\ t.pls = s.pls /\ Level(t) = Level(s) /\ t.durs = q
  BY <1>1, <1>2, GroupsOnly
<1>4. EventList(s, X) /\ OneLevel(s) /\ Divided(s, X, X) /\ X \subseteq 1..Len(s.evs)
  BY DEF FlatBy, EventList, Main, Done
<1>5. EventList(t, X) /\ OneLevel(t) /\ ~Active(t)
  BY <1>3, <1>4, EventListKept DEF OneLevel, Active
<1>6. s.durs[n].first # 0
  BY DEF Last
<1>7. \A x \in X : t.evs[x].dur = s.evs[x].dur
  BY <1>3, <1>4 DEF SameLinks
<1>8. \A d \in 1..(n + 1) : /\ DOMAIN t.durs[d] = {"first", "last"}
                            /\ (d = n + 1 /\ t.durs[d].first = 0) \/ GroupOf(t, X, d)
  <2> TAKE d \in 1..(n + 1)
  <2>1. CASE d = n + 1
    BY <1>1, <1>2, <1>3, <2>1
  <2>2. CASE d # n + 1
    <3>1. d \in 1..n
      BY <1>1, <2>2
    <3>2. DOMAIN s.durs[d] = {"first", "last"} /\ GroupOf(s, X, d) /\ t.durs[d] = s.durs[d]
      BY <1>1, <1>3, <1>4, <1>6, <3>1 DEF Divided
    <3>3. QED
      BY <1>7, <3>2 DEF GroupOf
  <2>3. QED
    BY <2>1, <2>2
<1>9. \A x \in X : Placed1(t, x)
  <2> TAKE x \in X
  <2> DEFINE d == s.evs[x].dur
  <2>1. Placed1(s, x)
    BY <1>4 DEF Divided
  <2>2. d \in 1..n /\ d \in 1..(n + 1) /\ t.evs[x].dur = d /\ t.durs[d] = s.durs[d]
    BY <1>1, <1>3, <1>7, <2>1 DEF Placed1
  <2>3. QED
    BY <1>1, <1>3, <2>1, <2>2 DEF Placed1
<1>10. Divided(t, X, X)
  <2>1. n + 1 > 0 /\ Len(t.durs) = n + 1
    BY <1>1, <1>3
  <2> HIDE DEF n
  <2>2. QED
    BY <1>8, <1>9, <2>1 DEF Divided
<1>11. Done(t, X) = X
  BY <1>5 DEF Done
<1>12. QED
  BY <1>5, <1>10, <1>11 DEF FlatBy, t

\* "|" keeps the division.
LEMMA FlatSeparate ==
  ASSUME TreeInv(p), p.pls # <<>>, Flat(p), OpenOp(p), Separate
  PROVE  Flat(p') /\ OpenOp(p')
<1> DEFINE u == Idle(p)
           v == SeparateEnd(p)
           n == SetLevel(v, [Level(v) EXCEPT !.sub_f = "none"])
<1>1. \/ p' = ReturnToSub(u)
      \/ p' = ReturnToSub(v)
      \/ Last(v.durs).first # 0 /\ p' = NewGroup(n)
  BY SeparateIs
<1>2. TreeInv(u) /\ u.pls # <<>> /\ Flat(u) /\ OpenOp(u)
  BY IdleTree, IdleCalm, CalmFlat DEF TreeInv
<1>3. TreeInv(v) /\ v.pls # <<>> /\ Level(v).local = 0 /\ v = end_event(u)
  BY SeparateEndIs DEF SeparateEnd
<1>4. CASE p' = ReturnToSub(u)
  BY <1>4, IdleReturn, CalmFlat DEF TreeInv
<1>5. PICK X : FlatBy(v, X) /\ ~Active(v)
  BY <1>2, <1>3, FlatEnded DEF Flat, TreeInv
<1>6. Flat(v) /\ OpenOp(v)
  BY <1>5 DEF Flat, OpenOp
<1> HIDE DEF u, v
<1>7. CASE p' = ReturnToSub(v)
  BY <1>3, <1>6, <1>7, ReturnCalm, CalmFlat DEF TreeInv, Steady
<1>8. CASE Last(v.durs).first # 0 /\ p' = NewGroup(n)
  <2>1. Calm(v, n)
    BY <1>3, SubEnded DEF TreeInv
  <2> HIDE DEF n
  <2>2. FlatBy(n, X) /\ Shape(n) /\ n.pls # <<>>
    BY <1>3, <1>5, <1>6, <2>1, FlatCalm DEF Calm, TreeInv
  <2>3. ~Active(n) /\ n.durs = v.durs
    BY <1>5, <1>3, <2>1 DEF Active, Calm, Quiet, SameLevel, SameEvents
  <2>4. FlatBy(p', X) /\ ~Active(p')
    BY <1>8, <2>2, <2>3, FlatSeparated
  <2>5. QED
    BY <2>4 DEF Flat, OpenOp
<1>9. QED
  BY <1>1, <1>4, <1>7, <1>8

\* The last event ends with the script, and then no call is left.
LEMMA FlatLeft ==
  ASSUME NEW s, TreeInv(s), s.pls # <<>>, Flat(s), NEW t,
         t = [leave_level(s) EXCEPT !.ended = TRUE]
  PROVE  Flat(t) /\ ~Active(t) /\ t.pls = <<>>
<1> DEFINE ended == end_operator(s)
           u     == end_event(ended)
<1>1. PICK X : FlatBy(s, X)
  BY DEF Flat
<1>2. Level(s).scope = "top"
  <2>1. Len(s.pls) = 1
    <3>1. Len(s.pls) \in Nat \ {0}
      BY LastLevel DEF TreeInv
    <3>2. Len(s.pls) <= 1
      BY <1>1 DEF FlatBy, OneLevel
    <3> DEFINE n == Len(s.pls)
    <3>3. n \in Nat /\ n # 0 /\ n <= 1
      BY <3>1, <3>2
    <3> HIDE DEF n
    <3>4. n = 1
      BY <3>3
    <3>5. QED
      BY <3>4 DEF n
  <2>2. 1 \in 1..1
    OBVIOUS
  <2>3. s.pls[1].scope = "top"
    BY <2>1, <2>2 DEF TreeInv, Stack
  <2>4. QED
    BY <2>1, <2>3, LastLevel DEF TreeInv
<1>3. /\ Shape(ended) /\ Quiet(s, ended) /\ ended.pls # <<>>
      /\ SameCall(Level(s), Level(ended))
  BY EndOperator DEF TreeInv
<1> HIDE DEF ended
<1>4. FlatBy(ended, X)
  BY <1>1, <1>3, FlatKept DEF Quiet, SameOuter
<1>5. /\ FlatBy(u, X) /\ Divided(u, X, X) /\ Shape(u)
  BY <1>3, <1>4, FlatEnded, EndEvent
<1>6. t = [[u EXCEPT !.pls = <<>>] EXCEPT !.ended = TRUE]
  BY <1>2, <1>3, Zenon DEF leave_level, ended, SameCall
<1> HIDE DEF u
<1>7. /\ t.pls = <<>> /\ t.evs = u.evs /\ t.durs = u.durs /\ t.first_ev = u.first_ev
      /\ t.ev = u.ev
  BY <1>5, <1>6, Zenon DEF Shape, ParserFields
<1>8. SameLinks(u, t) /\ ~Active(t) /\ OneLevel(t)
  <2>1. Len(<<>>) = 0
    OBVIOUS
  <2>2. QED
    BY <1>7, <2>1 DEF SameLinks, Active, OneLevel
<1>9. EventList(t, X) /\ X \subseteq 1..Len(u.evs)
  <2>1. EventList(u, X)
    BY <1>5 DEF FlatBy
  <2>2. EventList(t, X)
    BY <1>8, <2>1, EventListKept
  <2>3. QED
    BY <2>1, <2>2 DEF EventList, Main
<1>10. Divided(t, X, X)
  BY <1>5, <1>7, <1>9, DividedKept, Zenon
<1>11. Done(t, X) = X
  BY <1>8 DEF Done
<1>12. QED
  BY <1>7, <1>8, <1>9, <1>10, <1>11 DEF FlatBy, Flat

\* The end of the text ends the last event, which keeps the division.
LEMMA FlatAtEnd ==
  ASSUME TreeInv(p), Flat(p), OpenOp(p), EndOfScript
  PROVE  Flat(p') /\ OpenOp(p')
<1> DEFINE u == Idle(p)
<1>1. TreeInv(u) /\ u.pls # <<>> /\ Flat(u)
  BY IdleTree, IdleCalm, CalmFlat DEF TreeInv, EndOfScript
<1>2. p' = [leave_level(u) EXCEPT !.ended = TRUE]
  BY DEF EndOfScript, Deferred, Idle
<1> HIDE DEF u
<1>3. Flat(p') /\ ~Active(p')
  BY <1>1, <1>2, FlatLeft
<1>4. QED
  BY <1>3 DEF OpenOp

\* What is read is told of by the text.
LEMMA TextGrows ==
  ASSUME ReadToken
  PROVE  \E t : text' = Append(text, t)
BY Zenon DEF ReadToken, SetTime, SetSilence, SetAmp, SetRamp, OpenSettings, SetMultiplier, SetDefTime,
       OpenNest, WaitInEvent, WaitBetween, NewOperator, NewComposite, SetLabel, UseLabel,
       Separate, OpenBlock, CloseBlock, CloseNest, BreakLine, Goes

\* A level is entered or left by a bracket only.
LEMMA BracketRead ==
  ASSUME OpenNest \/ OpenBlock \/ CloseBlock \/ CloseNest
  PROVE  \E t : t.k \in {"[", "]", "<", ">"} /\ text' = Append(text, t)
BY DEF OpenNest, OpenBlock, CloseBlock, CloseNest, Goes, Read

\* A bracket once read stays in the text.
LEMMA BracketsStay ==
  ASSUME IsSeq(text), NEW t, text' = Append(text, t)
  PROVE  /\ IsSeq(text')
         /\ Bracketed => Bracketed'
         /\ t.k \in {"[", "]", "<", ">"} => Bracketed'
<1> DEFINE q == Append(text, t)
           n == Len(text)
<1>1. /\ IsSeq(q) /\ Len(q) = n + 1 /\ \A i \in 1..n : q[i] = text[i]
      /\ q[n + 1] = t /\ n \in Nat /\ DOMAIN text = 1..n /\ DOMAIN q = 1..Len(q)
  <2>1. IsSeq(q)
    BY SeqAppended
  <2>2. DOMAIN q = 1..Len(q)
    <3> HIDE DEF q
    <3>1. QED
      BY <2>1, SeqFacts
  <2>3. QED
    BY <2>1, <2>2, SeqAppended, SeqFacts
<1>2. text' = q
  OBVIOUS
<1> HIDE DEF q
<1>3. n + 1 \in DOMAIN q /\ \A i \in DOMAIN text : i \in DOMAIN q /\ q[i] = text[i]
  BY <1>1
<1>4. Bracketed => Bracketed'
  BY <1>2, <1>3 DEF Bracketed, Has
<1>5. t.k \in {"[", "]", "<", ">"} => Bracketed'
  BY <1>1, <1>2, <1>3 DEF Bracketed, Has
<1>6. QED
  BY <1>1, <1>2, <1>4, <1>5

\* In scripts without brackets the groups divide the events so far.
FlatInv == IsSeq(text) /\ (~Bracketed => Flat(p) /\ OpenOp(p))

\* Of an empty script there is nothing to divide.
LEMMA InitFlat ==
  ASSUME ParserInit
  PROVE  FlatInv
<1>1. IsSeq(text)
  <2>1. text = <<>> /\ <<>> \in Seq({})
    BY DEF ParserInit
  <2>2. QED
    BY <2>1, SeqKnown, Zenon
<1> DEFINE g == [first |-> 0, last |-> 0]
<1>2. g.first = 0 /\ DOMAIN g = {"first", "last"}
  OBVIOUS
<1> HIDE DEF g
<1>3. /\ p.pls = <<TopLevel>> /\ p.evs = <<>> /\ p.first_ev = 0 /\ p.ev = 0
      /\ p.durs = <<g>>
  BY DEF ParserInit, g
<1>4. Len(p.evs) = 0 /\ Len(p.pls) = 1 /\ Len(p.durs) = 1 /\ p.durs[1] = g
      /\ p.pls[1] = TopLevel /\ \A e \in 1..Len(p.evs) : FALSE
  BY <1>3
<1>5. Level(p) = TopLevel /\ ~TopLevel.active_ev /\ TopLevel.event = 0
  BY <1>4 DEF Level, Last, TopLevel
<1>6. EventList(p, {})
  BY <1>3, <1>4 DEF EventList, Main
<1>7. Divided(p, {}, {})
  <2>1. \A d \in 1..1 : d = 1
    OBVIOUS
  <2>2. QED
    BY <1>2, <1>4, <2>1 DEF Divided
<1>8. ~Active(p) /\ OneLevel(p)
  BY <1>4, <1>5 DEF Active, OneLevel
<1>9. Flat(p)
  BY <1>6, <1>7, <1>8 DEF Flat, FlatBy, Done
<1>10. QED
  BY <1>1, <1>8, <1>9 DEF FlatInv, OpenOp

\* Every step keeps the division as long as no bracket is met.
LEMMA StepFlat ==
  ASSUME TreeInv(p), FlatInv, ParserNext
  PROVE  FlatInv'
<1>1. CASE EndOfScript
  <2>1. text' = text
    BY <1>1 DEF EndOfScript
  <2>2. IsSeq(text)' /\ (Bracketed' <=> Bracketed)
    BY <2>1 DEF FlatInv, IsSeq, Bracketed, Has, Range
  <2>3. ~Bracketed => Flat(p') /\ OpenOp(p')
    BY <1>1, FlatAtEnd DEF FlatInv
  <2>4. Flat(p)' <=> Flat(p')
    OBVIOUS
  <2>5. QED
    BY <2>2, <2>3 DEF FlatInv
<1>2. CASE ReadToken
  <2>1. p.pls # <<>>
    BY <1>2, ReadParsing
  <2>2. PICK t : text' = Append(text, t)
    BY <1>2, TextGrows
  <2>3. IsSeq(text') /\ (Bracketed => Bracketed')
    BY <2>2, BracketsStay DEF FlatInv
  <2>4. OpenNest \/ OpenBlock \/ CloseBlock \/ CloseNest => Bracketed'
    BY BracketRead, BracketsStay DEF FlatInv
  <2>5. ASSUME ~Bracketed'
        PROVE  Flat(p') /\ OpenOp(p')
    <3>1. Flat(p) /\ OpenOp(p)
      BY <2>3, <2>5 DEF FlatInv
    <3>2. CASE \/ SetTime \/ SetSilence \/ SetAmp \/ SetRamp \/ OpenSettings \/ SetMultiplier
               \/ SetDefTime \/ WaitBetween \/ SetLabel \/ BreakLine
      BY <2>1, <3>1, <3>2, TokenCalm, CalmFlat DEF TreeInv
    <3>3. CASE WaitInEvent
      BY <2>1, <3>1, <3>3, FlatWait
    <3>4. CASE NewOperator
      BY <2>1, <3>1, <3>4, FlatNewOperator
    <3>5. CASE NewComposite
      BY <2>1, <3>1, <3>5, FlatNewComposite
    <3>6. CASE UseLabel
      BY <2>1, <3>1, <3>6, FlatUseLabel
    <3>7. CASE Separate
      BY <2>1, <3>1, <3>7, FlatSeparate
    <3>8. QED
      BY <1>2, <2>4, <2>5, <3>2, <3>3, <3>4, <3>5, <3>6, <3>7 DEF ReadToken
  <2>6. QED
    BY <2>3, <2>5 DEF FlatInv
<1>3. QED
  BY <1>1, <1>2 DEF ParserNext

(* In scripts without brackets the events done so far are always divided   *)
(* among the duration groups (end_event and "|" in parser.c), composites   *)
(* being kept out of the main list with the event they are for.            *)
THEOREM GroupsGrow == ParserSpec => []FlatInv
<1>1. ParserInit => FlatInv
  BY InitFlat
<1>2. TreeInv(p) /\ FlatInv /\ [ParserNext]_<<p, text>> => FlatInv'
  <2> SUFFICES ASSUME TreeInv(p), FlatInv, [ParserNext]_<<p, text>>
               PROVE  FlatInv'
    OBVIOUS
  <2>1. CASE ParserNext
    BY <2>1, StepFlat
  <2>2. CASE UNCHANGED <<p, text>>
    BY <2>2 DEF FlatInv, Bracketed, Has
  <2>3. QED
    BY <2>1, <2>2
<1>3. QED
  BY <1>1, <1>2, TreesGrow, PTL DEF ParserSpec

-----------------------------------------------------------------------------
(* The main list, as the property has it. *)

\* There is one main list.
LEMMA OneMain ==
  ASSUME NEW s, Len(s.evs) \in Nat, NEW X, NEW Y, Main(s, X), Main(s, Y)
  PROVE  X = Y
<1> DEFINE bad == {e \in 1..Len(s.evs) : ~(e \in X <=> e \in Y)}
<1>1. SUFFICES ASSUME bad # {} PROVE FALSE
  BY Zenon DEF Main
<1>2. PICK i \in bad : \A k \in bad : i <= k
  <2>1. bad \in SUBSET Nat
    OBVIOUS
  <2> HIDE DEF bad
  <2>2. QED
    BY <1>1, <2>1, LeastNatural
<1>3. i \in 1..Len(s.evs) /\ ~(i \in X <=> i \in Y)
  OBVIOUS
<1>4. \A d \in 1..(i - 1) : d \in X <=> d \in Y
  <2> TAKE d \in 1..(i - 1)
  <2>1. d \in 1..Len(s.evs) /\ ~(i <= d)
    BY <1>3
  <2>2. d \notin bad
    BY <1>2, <2>1
  <2>3. QED
    BY <2>1, <2>2
<1>5. i \in X <=> i = s.first_ev \/ \E d \in 1..(i - 1) : d \in X /\ i = s.evs[d].next
  BY <1>3 DEF Main
<1>6. i \in Y <=> i = s.first_ev \/ \E d \in 1..(i - 1) : d \in Y /\ i = s.evs[d].next
  BY <1>3 DEF Main
<1> HIDE DEF bad
<1>7. QED
  BY <1>3, <1>4, <1>5, <1>6

\* The main list of the property is the one of the invariant.
LEMMA InMainListIs ==
  ASSUME IsSeq(p.evs), NEW X, Main(p, X)
  PROVE  InMainList = X
<1> DEFINE n == Len(p.evs)
           step(f) == [e \in 1..n |->
                         e = p.first_ev \/ \E d \in 1..(e - 1) : f[d] /\ e = p.evs[d].next]
           main == CHOOSE f : f = step(f)
           g == [e \in 1..n |-> e \in X]
<1>1. n \in Nat /\ DOMAIN p.evs = 1..n
  BY SeqFacts
<1>2. g = step(g)
  <2>0. \A e \in 1..n : \A d \in 1..(e - 1) : d \in 1..n
    BY <1>1
  <2>1. \A e \in 1..n : \A d \in 1..(e - 1) : d \in 1..n /\ (g[d] <=> d \in X)
    BY <2>0, Zenon
  <2>2. \A e \in 1..n : e \in X <=>
           e = p.first_ev \/ \E d \in 1..(e - 1) : d \in X /\ e = p.evs[d].next
    BY DEF Main
  <2>3. \A e \in 1..n : g[e] = step(g)[e]
    <3> TAKE e \in 1..n
    <3>1. (\E d \in 1..(e - 1) : d \in X /\ e = p.evs[d].next)
          <=> \E d \in 1..(e - 1) : g[d] /\ e = p.evs[d].next
      <4> HIDE DEF g
      <4>1. QED
        BY <2>1
    <3>2. g[e] = (e \in X)
      OBVIOUS
    <3> HIDE DEF g
    <3>3. QED
      BY <2>2, <3>1, <3>2
  <2>4. QED
    BY <2>3, Zenon
<1>3. main = step(main)
  <2> HIDE DEF step
  <2>1. QED
    BY <1>2
<1>4. InMainList = {e \in 1..n : main[e]}
  BY <1>1 DEF InMainList
<1> HIDE DEF main
<1>5. \A e \in 1..n :
         main[e] <=> e = p.first_ev \/ \E d \in 1..(e - 1) : main[d] /\ e = p.evs[d].next
  <2> TAKE e \in 1..n
  <2>1. main[e] = step(main)[e]
    <3> HIDE DEF step
    <3>1. QED
      BY <1>3
  <2>2. step(main)[e] = (e = p.first_ev \/ \E d \in 1..(e - 1) : main[d] /\ e = p.evs[d].next)
    BY Zenon
  <2> HIDE DEF step
  <2>3. QED
    BY <2>1, <2>2, Zenon
<1> DEFINE M == {e \in 1..n : main[e]}
<1>6. Main(p, M)
  <2>1. \A e \in 1..n : \A d \in 1..(e - 1) : d \in M <=> main[d]
    BY <1>1
  <2>2. \A e \in 1..n : e \in M <=> main[e]
    OBVIOUS
  <2>3. M \subseteq 1..n
    OBVIOUS
  <2> HIDE DEF M
  <2>4. \A e \in 1..n : e \in M <=>
           e = p.first_ev \/ \E d \in 1..(e - 1) : d \in M /\ e = p.evs[d].next
    BY <1>5, <2>1, <2>2
  <2>5. QED
    BY <2>3, <2>4 DEF Main
<1> HIDE DEF M
<1>7. M = X
  BY <1>1, <1>6, OneMain
<1>8. QED
  BY <1>4, <1>7 DEF M

\* The invariant is more than the property.
LEMMA GroupsTold ==
  ASSUME TreeInv(p), FlatInv
  PROVE  GroupsDivideEvents
<1> SUFFICES ASSUME Parsed, ~Bracketed, NEW e \in InMainList
             PROVE  LET dur == p.durs[p.evs[e].dur]
                    IN  /\ e \in dur.first..dur.last
                        /\ {dur.first, dur.last} \subseteq InMainList
                        /\ p.evs[dur.first].dur = p.evs[e].dur
                        /\ p.evs[dur.last].dur = p.evs[e].dur
  BY Zenon DEF GroupsDivideEvents
<1>1. PICK X : FlatBy(p, X)
  BY DEF FlatInv, Flat
<1>2. ~Active(p) /\ Divided(p, X, X) /\ Main(p, X)
  BY <1>1 DEF Parsed, Active, FlatBy, Done, EventList
<1>3. InMainList = X
  BY <1>2, InMainListIs DEF TreeInv, Shape
<1> DEFINE d == p.evs[e].dur
<1>4. /\ d \in 1..Len(p.durs) /\ p.durs[d].first # 0
      /\ p.durs[d].first <= e /\ e <= p.durs[d].last
  BY <1>2, <1>3 DEF Divided, Placed1
<1>5. GroupOf(p, X, d)
  BY <1>2, <1>4 DEF Divided
<1>6. e \in Nat /\ p.durs[d].first \in Nat /\ p.durs[d].last \in Nat
  <2>1. X \subseteq Nat
    BY <1>2 DEF Main
  <2>2. QED
    BY <1>3, <1>5, <2>1, Zenon DEF GroupOf
<1>7. e \in p.durs[d].first..p.durs[d].last
  BY <1>4, <1>6
<1>8. QED
  BY <1>3, <1>5, <1>7, Zenon DEF GroupOf

(* "Each event links to the duration node range" (parser.h:31): for any    *)
(* script without brackets each event of the main list is within the range *)
(* of its own group, whose ends are events of it; so the loop over a group *)
(* that parseconv.c:34 makes from the first event meets the last.          *)
THEOREM GroupsDivide == ParserSpec => []GroupsDivideEvents
<1>1. TreeInv(p) /\ FlatInv => GroupsDivideEvents
  BY GroupsTold
<1>2. QED
  BY <1>1, TreesGrow, GroupsGrow, PTL

=============================================================================
