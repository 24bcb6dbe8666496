--------------------------- MODULE ScriptConv_proofs ---------------------------
(***************************************************************************)
(* Machine-checked proofs about ScriptConv, for every set of well-formed   *)
(* scripts, however long, and every limit on voices.                       *)
(***************************************************************************)
EXTENDS ScriptConv, ProofFacts

-----------------------------------------------------------------------------
(***************************************************************************)
(* Scripts.                                                                *)
(***************************************************************************)

LEMMA ScriptTypes ==
  ASSUME NEW s, WellFormed(s)
  PROVE  /\ Len(s) \in Nat /\ DOMAIN s = 1..Len(s)
         /\ \A i \in 1..Len(s) :
              /\ s[i].wait \in Nat
              /\ Len(s[i].ops) \in Nat \ {0} /\ DOMAIN s[i].ops = 1..Len(s[i].ops)
              /\ s[i].ops[1].op \in OpsOf(s[i])
              /\ \A k \in 1..Len(s[i].ops) :
                   /\ s[i].ops[k].time \in Nat \cup {None, Linked}
                   /\ s[i].ops[k].silence \in Nat \cup {None}
                   /\ s[i].ops[k].op \in OpsOf(s[i])
<1>1. s \in Seq([wait : Nat, ops : Seq(NodeData(AllOps(s)))])
  BY DEF WellFormed
<1>2. Len(s) \in Nat /\ DOMAIN s = 1..Len(s)
  BY <1>1
<1>3. ASSUME NEW i \in 1..Len(s)
      PROVE  /\ s[i].wait \in Nat
             /\ Len(s[i].ops) \in Nat \ {0} /\ DOMAIN s[i].ops = 1..Len(s[i].ops)
             /\ s[i].ops[1].op \in OpsOf(s[i])
             /\ \A k \in 1..Len(s[i].ops) :
                  /\ s[i].ops[k].time \in Nat \cup {None, Linked}
                  /\ s[i].ops[k].silence \in Nat \cup {None}
                  /\ s[i].ops[k].op \in OpsOf(s[i])
  <2>1. s[i] \in [wait : Nat, ops : Seq(NodeData(AllOps(s)))]
    BY <1>1, ElementIsIn
  <2>2. s[i].wait \in Nat /\ s[i].ops \in Seq(NodeData(AllOps(s)))
    BY <2>1
  <2>3. Len(s[i].ops) \in Nat \ {0} /\ DOMAIN s[i].ops = 1..Len(s[i].ops)
    <3>1. Len(s[i].ops) > 0
      BY <1>2, Zenon DEF WellFormed
    <3>2. QED
      BY <2>2, <3>1
  <2>4. \A k \in 1..Len(s[i].ops) : s[i].ops[k] \in NodeData(AllOps(s))
    BY <2>2, ElementIsIn
  <2>5. \A k \in 1..Len(s[i].ops) : s[i].ops[k].op \in OpsOf(s[i])
    BY <2>3 DEF OpsOf
  <2>6. QED
    BY <2>2, <2>3, <2>4, <2>5 DEF NodeData
<1>4. QED
  BY <1>2, <1>3

\* The operators of an event are different ones, all but the first new; a
\* new carrier has a time.
LEMMA EventShape ==
  ASSUME NEW s, WellFormed(s), NEW i \in 1..Len(s)
  PROVE  /\ \A j, k \in 1..Len(s[i].ops) : s[i].ops[j].op = s[i].ops[k].op => j = k
         /\ \A k \in 2..Len(s[i].ops) : ~UsedBefore(s, i, s[i].ops[k].op)
         /\ NewOpGraph(s, i) => s[i].ops[1].time \in Nat /\ s[i].ops[1].time # None
<1>1. i \in DOMAIN s /\ DOMAIN s[i].ops = 1..Len(s[i].ops) /\ Len(s[i].ops) \in Nat \ {0}
  BY ScriptTypes
<1>2. \A j, k \in 1..Len(s[i].ops) : s[i].ops[j].op = s[i].ops[k].op => j = k
  BY <1>1 DEF WellFormed
<1>3. \A k \in 2..Len(s[i].ops) : ~UsedBefore(s, i, s[i].ops[k].op)
  <2>1. \A k \in DOMAIN s[i].ops : k > 1 => ~UsedBefore(s, i, s[i].ops[k].op)
    BY <1>1, Zenon DEF WellFormed
  <2>2. QED
    BY <1>1, <2>1
<1>4. ASSUME NewOpGraph(s, i)
      PROVE  s[i].ops[1].time \in Nat /\ s[i].ops[1].time # None
  <2>1. 1 \in DOMAIN s[i].ops
    BY <1>1
  <2>2. s[i].ops[1].time # None /\ s[i].ops[1].time # Linked
    BY <1>1, <1>4, <2>1 DEF WellFormed, NewOpGraph, MainOp
  <2>3. s[i].ops[1].time \in Nat \cup {None, Linked}
    BY <2>1, <1>1, ScriptTypes
  <2>4. QED
    BY <2>2, <2>3
<1>5. QED
  BY <1>2, <1>3, <1>4

\* A modulator list holds operators of its event.
LEMMA ListShape ==
  ASSUME NEW s, WellFormed(s), NEW i \in 1..Len(s), NEW k \in 1..Len(s[i].ops),
         s[i].ops[k].mods # None
  PROVE  /\ Len(s[i].ops[k].mods) \in Nat
         /\ DOMAIN s[i].ops[k].mods = 1..Len(s[i].ops[k].mods)
         /\ \A m \in DOMAIN s[i].ops[k].mods : s[i].ops[k].mods[m] \in OpsOf(s[i])
<1>1. /\ i \in DOMAIN s /\ k \in DOMAIN s[i].ops /\ Len(s[i].ops) \in Nat
      /\ DOMAIN s[i].ops = 1..Len(s[i].ops)
  BY ScriptTypes
<1>2. s[i].ops[k].mods \in Seq(AllOps(s))
  <2>1. s \in Seq([wait : Nat, ops : Seq(NodeData(AllOps(s)))])
    BY DEF WellFormed
  <2>2. s[i] \in [wait : Nat, ops : Seq(NodeData(AllOps(s)))]
    BY <2>1, ElementIsIn
  <2>3. s[i].ops \in Seq(NodeData(AllOps(s)))
    BY <2>2
  <2>4. s[i].ops[k] \in NodeData(AllOps(s))
    BY <2>3, ElementIsIn
  <2>5. QED
    BY <2>4 DEF NodeData
<1>3. \A m \in DOMAIN s[i].ops[k].mods :
        \E j \in (k + 1)..Len(s[i].ops) : s[i].ops[j].op = s[i].ops[k].mods[m]
  BY <1>1 DEF WellFormed
<1>4. \A m \in DOMAIN s[i].ops[k].mods : s[i].ops[k].mods[m] \in OpsOf(s[i])
  <2>1. SUFFICES ASSUME NEW m \in DOMAIN s[i].ops[k].mods
                 PROVE  s[i].ops[k].mods[m] \in OpsOf(s[i])
    OBVIOUS
  <2>2. PICK j \in (k + 1)..Len(s[i].ops) : s[i].ops[j].op = s[i].ops[k].mods[m]
    BY <1>3
  <2>3. j \in DOMAIN s[i].ops
    BY <1>1
  <2>4. QED
    BY <2>2, <2>3 DEF OpsOf
<1>5. QED
  BY <1>2, <1>4

\* An operator used before has one event where it was new.
LEMMA RootIsFirstUse ==
  ASSUME NEW s, NEW i \in Nat, ~NewOpGraph(s, i)
  PROVE  /\ RootEvent(s, i) \in 1..(i - 1)
         /\ MainOp(s[i]) \in OpsOf(s[RootEvent(s, i)])
         /\ ~UsedBefore(s, RootEvent(s, i), MainOp(s[i]))
<1> DEFINE uses == {j \in 1..(i - 1) : MainOp(s[i]) \in OpsOf(s[j])}
<1>1. uses # {} /\ uses \in SUBSET Nat
  BY DEF NewOpGraph, UsedBefore
<1>2. PICK j \in uses : \A k \in uses : j <= k
  BY <1>1, LeastNatural
<1>3. ~UsedBefore(s, j, MainOp(s[i]))
  BY <1>2 DEF UsedBefore
<1>4. QED
  BY <1>2, <1>3 DEF RootEvent

-----------------------------------------------------------------------------
(***************************************************************************)
(* IDs of operators, and their lists.                                      *)
(***************************************************************************)

\* Whether the first operator of an event has its ID already.
Kept(ids, e) == IF e.ops[1].op \in DOMAIN ids THEN 1 ELSE 0

\* What OpAlloc_ids() gives: IDs go on from the last, in the order of nodes.
LEMMA IdsGoOn ==
  ASSUME NEW ids, NEW m \in Nat, IsNumbering(ids, m), NEW e,
         Len(e.ops) \in Nat \ {0}, DOMAIN e.ops = 1..Len(e.ops),
         \A j, k \in 1..Len(e.ops) : e.ops[j].op = e.ops[k].op => j = k,
         \A k \in 2..Len(e.ops) : e.ops[k].op \notin DOMAIN ids
  PROVE  LET r == OpAlloc_ids(ids, e)
             z == Kept(ids, e)
         IN  /\ DOMAIN r = DOMAIN ids \cup OpsOf(e)
             /\ \A op \in DOMAIN ids : r[op] = ids[op]
             /\ \A k \in 1..Len(e.ops) :
                  e.ops[k].op \notin DOMAIN ids => r[e.ops[k].op] = m + k - z
             /\ IsNumbering(r, m + Len(e.ops) - z)
<1> DEFINE r == OpAlloc_ids(ids, e)
           z == Kept(ids, e)
           l == Len(e.ops)
<1>1. /\ DOMAIN r = DOMAIN ids \cup OpsOf(e)
      /\ \A op \in DOMAIN ids : r[op] = ids[op]
  BY DEF OpAlloc_ids
<1>2. z \in {0, 1} /\ l \in Nat \ {0} /\ (z = 1 <=> e.ops[1].op \in DOMAIN ids)
  BY DEF Kept
<1>3. ASSUME NEW k \in 1..l, e.ops[k].op \notin DOMAIN ids
      PROVE  r[e.ops[k].op] = m + k - z
  <2>1. (CHOOSE j \in DOMAIN e.ops : e.ops[j].op = e.ops[k].op) = k
    OBVIOUS
  <2>2. e.ops[k].op \in OpsOf(e)
    BY DEF OpsOf
  <2>3. r[e.ops[k].op] = Cardinality(DOMAIN ids) + Cardinality(FreshUpTo(ids, e, k))
    BY <1>3, <2>1, <2>2 DEF OpAlloc_ids
  <2>4. FreshUpTo(ids, e, k) = (z + 1)..k
    BY <1>2 DEF FreshUpTo
  <2>5. z + 1 <= k
    BY <1>2, <1>3
  <2>6. Cardinality((z + 1)..k) = k - z
    <3>1. z + 1 \in Int /\ k \in Int
      BY <1>2
    <3>2. Cardinality((z + 1)..k) = IF z + 1 > k THEN 0 ELSE k - (z + 1) + 1
      BY <3>1, FS_Interval
    <3>3. QED
      BY <3>1, <3>2, <2>5, <1>2
  <2>7. QED
    BY <2>3, <2>4, <2>6, <1>2, NumberingCounts
<1>4. IsNumbering(r, m + l - z)
  <2> HIDE DEF r, z, l
  <2>1. \A op \in OpsOf(e) : \E k \in 1..l : op = e.ops[k].op
    BY DEF OpsOf, l
  <2>2. \A op \in DOMAIN ids : r[op] \in 1..m
    BY <1>1 DEF IsNumbering
  <2>3. \A op \in DOMAIN r \ DOMAIN ids :
          \E k \in 1..l : k > z /\ op = e.ops[k].op /\ r[op] = m + k - z
    BY <1>1, <1>2, <1>3, <2>1
  <2>4. r \in [DOMAIN r -> 1..(m + l - z)]
    <3>1. \A op \in DOMAIN r : r[op] \in 1..(m + l - z)
      <4>1. SUFFICES ASSUME NEW op \in DOMAIN r PROVE r[op] \in 1..(m + l - z)
        OBVIOUS
      <4>2. CASE op \in DOMAIN ids
        BY <2>2, <4>2, <1>2
      <4>3. CASE op \notin DOMAIN ids
        <5>1. PICK k \in 1..l : k > z /\ r[op] = m + k - z
          BY <2>3, <4>3
        <5>2. QED
          BY <5>1, <1>2
      <4>4. QED
        BY <4>2, <4>3
    <3>2. r = [op \in DOMAIN r |-> r[op]]
      BY DEF r, OpAlloc_ids
    <3>3. QED
      BY <3>1, <3>2
  <2>5. ASSUME NEW a \in DOMAIN r, NEW b \in DOMAIN r, r[a] = r[b]
        PROVE  a = b
    <3>1. CASE a \in DOMAIN ids /\ b \in DOMAIN ids
      BY <3>1, <2>5, <1>1 DEF IsNumbering
    <3>2. CASE a \in DOMAIN ids /\ b \notin DOMAIN ids
      BY <3>2, <2>2, <2>3, <2>5, <1>2
    <3>3. CASE a \notin DOMAIN ids /\ b \in DOMAIN ids
      BY <3>3, <2>2, <2>3, <2>5, <1>2
    <3>4. CASE a \notin DOMAIN ids /\ b \notin DOMAIN ids
      BY <3>4, <2>3, <2>5, <1>2
    <3>5. QED
      BY <3>1, <3>2, <3>3, <3>4
  <2>6. ASSUME NEW c \in 1..(m + l - z)
        PROVE  \E a \in DOMAIN r : r[a] = c
    <3>1. CASE c <= m
      BY <3>1, <1>1 DEF IsNumbering
    <3>2. CASE c > m
      <4>1. PICK k \in 1..l : k = c - m + z
        <5>1. c - m + z \in 1..l
          BY <3>2, <1>2
        <5>2. QED
          BY <5>1
      <4>2. e.ops[k].op \notin DOMAIN ids
        BY <3>2, <4>1, <1>2 DEF l
      <4>3. r[e.ops[k].op] = c
        BY <4>1, <4>2, <1>2, <1>3
      <4>4. e.ops[k].op \in DOMAIN r
        BY <1>1 DEF OpsOf, l
      <4>5. QED
        BY <4>3, <4>4
    <3>3. QED
      BY <3>1, <3>2
  <2>7. QED
    BY <2>4, <2>5, <2>6 DEF IsNumbering
<1>5. QED
  BY <1>1, <1>3, <1>4

\* Lists for the IDs up to m0, and an event whose new operators got the IDs
\* from there to m.
ListsFor(lists, m0, ids, m, e) ==
  /\ m0 \in Nat /\ DOMAIN lists = 1..m0 /\ \A id \in 1..m0 : lists[id] \in Seq(1..m0)
  /\ m \in Nat /\ m0 <= m /\ IsNumbering(ids, m)
  /\ Len(e.ops) \in Nat /\ DOMAIN e.ops = 1..Len(e.ops) /\ OpsOf(e) \subseteq DOMAIN ids
  /\ \A id \in (m0 + 1)..m : \E op \in OpsOf(e) : ids[op] = id
  /\ \A k \in 1..Len(e.ops) : e.ops[k].mods # None =>
       /\ Len(e.ops[k].mods) \in Nat
       /\ DOMAIN e.ops[k].mods = 1..Len(e.ops[k].mods)
       /\ \A i \in DOMAIN e.ops[k].mods : e.ops[k].mods[i] \in OpsOf(e)

\* What update_modlists() gives: a list of IDs for each ID; a list changes
\* only if a node gives its operator one.
LEMMA ListsOfIds ==
  ASSUME NEW lists, NEW m0, NEW ids, NEW m, NEW e, ListsFor(lists, m0, ids, m, e)
  PROVE  LET r == update_modlists(lists, ids, e)
         IN  /\ DOMAIN r = 1..m
             /\ \A id \in 1..m : r[id] \in Seq(1..m)
             /\ \A id \in 1..m0 :
                  (\A k \in 1..Len(e.ops) : ids[e.ops[k].op] = id => e.ops[k].mods = None)
                    => r[id] = lists[id]
<1> DEFINE r == update_modlists(lists, ids, e)
           given(id) == {k \in DOMAIN e.ops : ids[e.ops[k].op] = id /\ e.ops[k].mods # None}
           list(k) == [i \in DOMAIN e.ops[k].mods |-> ids[e.ops[k].mods[i]]]
<1> USE DEF ListsFor
<1>1. \A op \in OpsOf(e) : ids[op] \in 1..m
  BY DEF IsNumbering
<1>2. DOMAIN lists \cup {ids[op] : op \in OpsOf(e)} = 1..m
  BY <1>1
<1>3. DOMAIN r = 1..m
  BY <1>2 DEF update_modlists
<1>4. ASSUME NEW id \in 1..m
      PROVE  /\ given(id) # {} => r[id] = list(Min(given(id)))
             /\ given(id) = {} /\ id \in DOMAIN lists => r[id] = lists[id]
             /\ given(id) = {} /\ id \notin DOMAIN lists => r[id] = <<>>
  <2>1. r[id] = CASE given(id) # {} -> list(Min(given(id)))
                  [] given(id) = {} /\ id \in DOMAIN lists -> lists[id]
                  [] OTHER -> <<>>
    BY <1>2 DEF update_modlists
  <2> HIDE DEF r, given, list
  <2>2. QED
    BY <2>1
<1>5. ASSUME NEW id \in 1..m
      PROVE  r[id] \in Seq(1..m)
  <2>1. CASE given(id) # {}
    <3>1. PICK k \in given(id) : k = Min(given(id))
      <4>1. given(id) \in SUBSET Nat
        OBVIOUS
      <4>2. PICK k \in given(id) : \A j \in given(id) : k <= j
        BY <2>1, <4>1, LeastNatural
      <4> HIDE DEF given
      <4>3. Min(given(id)) \in given(id)
        BY <4>2 DEF Min
      <4>4. QED
        BY <4>3
    <3>2. /\ e.ops[k].mods # None /\ k \in 1..Len(e.ops)
          /\ Len(e.ops[k].mods) \in Nat
          /\ DOMAIN e.ops[k].mods = 1..Len(e.ops[k].mods)
          /\ \A i \in DOMAIN e.ops[k].mods : e.ops[k].mods[i] \in OpsOf(e)
      OBVIOUS
    <3>3. \A i \in DOMAIN e.ops[k].mods : ids[e.ops[k].mods[i]] \in 1..m
      BY <3>2, <1>1
    <3>4. list(k) \in [1..Len(e.ops[k].mods) -> 1..m]
      BY <3>2, <3>3
    <3>5. list(k) \in Seq(1..m)
      BY <3>2, <3>4
    <3> HIDE DEF r, given, list
    <3>6. QED
      BY <1>4, <2>1, <3>1, <3>5
  <2>2. CASE given(id) = {} /\ id \in DOMAIN lists
    <3>1. r[id] = lists[id] /\ id \in 1..m0
      BY <1>4, <2>2
    <3> HIDE DEF r, given
    <3>2. lists[id] \in Seq(1..m0) /\ 1..m0 \subseteq 1..m
      BY <3>1
    <3>3. QED
      BY <3>1, <3>2, SeqOverMore
  <2>3. CASE given(id) = {} /\ id \notin DOMAIN lists
    <3>1. r[id] = <<>>
      BY <1>4, <2>3
    <3> HIDE DEF r
    <3>2. QED
      BY <3>1
  <2>4. QED
    BY <2>1, <2>2, <2>3
<1>6. ASSUME NEW id \in 1..m0,
             \A k \in 1..Len(e.ops) : ids[e.ops[k].op] = id => e.ops[k].mods = None
      PROVE  r[id] = lists[id]
  <2>1. given(id) = {} /\ id \in DOMAIN lists /\ id \in 1..m
    BY <1>6
  <2>2. QED
    BY <2>1, <1>4
<1>7. QED
  BY <1>3, <1>5, <1>6

-----------------------------------------------------------------------------
(***************************************************************************)
(* The inductive invariant that the rest builds on.                        *)
(***************************************************************************)

Count == Cardinality(DOMAIN oa)

\* How far conversion has come.
Progress ==
    /\ WellFormed(script) /\ next \in 1..(Len(script) + 1)
    /\ evVoice \in Seq(Nat) /\ Len(evVoice) = Done
    /\ evList \in Seq(EventData(Nat, 1..Count)) /\ Len(evList) = Done

\* The operators used have IDs from 1, and each ID has a list of IDs.
Operators ==
    /\ Count \in Nat /\ DOMAIN oa = 1..Count /\ IsNumbering(opId, Count)
    /\ \A id \in 1..Count : oa[id] \in Seq(1..Count)
    /\ \A op : op \in DOMAIN opId <=> UsedBefore(script, next, op)

\* Each voice has a graph and knows the last event it was given to.
Voices ==
    /\ va \in Seq([dur : Nat, last : Nat, carriers : Seq(Nat)])
    /\ \A v \in 1..Len(va) :
        /\ va[v].carriers \in Seq(1..Count)
        /\ va[v].last \in 1..Done /\ evVoice[va[v].last] = v
        /\ \A j \in (va[v].last + 1)..Done : evVoice[j] # v

\* The voices given up to each event are the first so many, and a voice is
\* entered by a new carrier.
InOrderAt(i) ==
    \E m \in Nat : /\ {evVoice[j] : j \in 1..(i - 1)} = 1..m /\ evVoice[i] \in 1..(m + 1)
                   /\ evVoice[i] = m + 1 => NewOpGraph(script, i)

VoicesInOrder ==
    /\ \A i \in 1..Done : InOrderAt(i)
    /\ {evVoice[j] : j \in 1..Done} = 1..Len(va)

Base == Progress /\ Operators /\ Voices /\ VoicesInOrder

-----------------------------------------------------------------------------
(***************************************************************************)
(* Converting an event, in terms of the state before.                      *)
(***************************************************************************)

Event == script[next]

Aged == Age(va, Event.wait)

Voice == VoAlloc_get_id(script, next, Aged, evVoice)

Vas == VoAlloc_update(script, next, Aged, Voice)

Ids == OpAlloc_ids(opId, Event)

Mods == update_modlists(oa, Ids, Event)

Graph == CarriersAfter(script, next, Vas, Voice, Ids)

OpOut(k) == [id |-> Ids[Event.ops[k].op], time |-> Event.ops[k].time,
             silence |-> Event.ops[k].silence, mods |-> Mods[Ids[Event.ops[k].op]]]

Out == [wait |-> Event.wait, vo |-> OutId(Voice), ops |-> [k \in DOMAIN Event.ops |-> OpOut(k)],
        carriers |-> IF ChangesGraph(script, next) THEN Graph ELSE None]

LEMMA ConvertIs ==
  ASSUME ConvertEvent
  PROVE  /\ next <= Len(script) /\ next' = next + 1 /\ script' = script /\ prg' = prg
         /\ opId' = Ids /\ oa' = Mods /\ durMs' = durMs + Event.wait
         /\ evVoice' = Append(evVoice, Voice) /\ evList' = Append(evList, Out)
         /\ va' = IF ChangesGraph(script, next)
                  THEN [Vas EXCEPT ![Voice].carriers = Graph] ELSE Vas
BY Zenon DEF ConvertEvent, Event, Aged, Voice, Vas, Ids, Mods, Graph, Out, OpOut

\* The event at hand.
LEMMA EventTypes ==
  ASSUME Progress, next <= Len(script)
  PROVE  /\ next \in 1..Len(script) /\ next \in Nat \ {0} /\ Done \in Nat /\ Done = next - 1
         /\ Event.wait \in Nat
         /\ Len(Event.ops) \in Nat \ {0} /\ DOMAIN Event.ops = 1..Len(Event.ops)
         /\ MainOp(Event) = Event.ops[1].op
         /\ \A k \in 1..Len(Event.ops) :
              /\ Event.ops[k].time \in Nat \cup {None, Linked}
              /\ Event.ops[k].silence \in Nat \cup {None}
              /\ Event.ops[k].op \in OpsOf(Event)
         /\ \A j, k \in 1..Len(Event.ops) : Event.ops[j].op = Event.ops[k].op => j = k
         /\ \A k \in 2..Len(Event.ops) : ~UsedBefore(script, next, Event.ops[k].op)
         /\ NewOpGraph(script, next) => Event.ops[1].time \in Nat
<1>1. next \in 1..Len(script) /\ next \in Nat \ {0} /\ Done \in Nat /\ Done = next - 1
  BY ScriptTypes DEF Progress, Done
<1>2. WellFormed(script)
  BY DEF Progress
<1>3. QED
  BY <1>1, <1>2, ScriptTypes, EventShape DEF Event, MainOp

\* What becomes of the operators.
LEMMA OperatorsStep ==
  ASSUME Progress, Operators, ConvertEvent
  PROVE  /\ Operators' /\ Count <= Count'
         /\ DOMAIN opId' = DOMAIN opId \cup OpsOf(Event)
         /\ \A op \in DOMAIN opId : opId'[op] = opId[op]
         /\ \A k \in 1..Len(Event.ops) : Ids[Event.ops[k].op] \in 1..Count'
         /\ \A id \in 1..Count :
              (\A k \in 1..Len(Event.ops) :
                  Ids[Event.ops[k].op] = id => Event.ops[k].mods = None) => oa'[id] = oa[id]
<1> DEFINE z == Kept(opId, Event)
           l == Len(Event.ops)
           m == Count + l - z
<1>1. next <= Len(script) /\ opId' = Ids /\ oa' = Mods /\ next' = next + 1 /\ script' = script
  BY ConvertIs
<1>2. /\ next \in 1..Len(script) /\ next \in Nat \ {0} /\ WellFormed(script)
      /\ l \in Nat \ {0} /\ DOMAIN Event.ops = 1..l
      /\ \A j, k \in 1..l : Event.ops[j].op = Event.ops[k].op => j = k
      /\ \A k \in 2..l : Event.ops[k].op \notin DOMAIN opId
  BY <1>1, EventTypes DEF Operators, Progress
<1>3. Count \in Nat /\ IsNumbering(opId, Count)
  BY DEF Operators
<1>4. /\ DOMAIN Ids = DOMAIN opId \cup OpsOf(Event)
      /\ \A op \in DOMAIN opId : Ids[op] = opId[op]
      /\ \A k \in 1..l : Event.ops[k].op \notin DOMAIN opId => Ids[Event.ops[k].op] = Count + k - z
      /\ IsNumbering(Ids, m)
  BY <1>2, <1>3, IdsGoOn DEF Ids
<1>5. z \in {0, 1} /\ m \in Nat /\ Count <= m /\ (z = 1 <=> Event.ops[1].op \in DOMAIN opId)
      /\ z <= l
  <2>1. z \in {0, 1} /\ (z = 1 <=> Event.ops[1].op \in DOMAIN opId)
    BY DEF Kept
  <2>2. l \in Nat \ {0} /\ Count \in Nat
    BY <1>2, <1>3
  <2> HIDE DEF z, l
  <2>3. QED
    BY <2>1, <2>2
<1>6. \A id \in (Count + 1)..m : \E op \in OpsOf(Event) : Ids[op] = id
  <2>1. SUFFICES ASSUME NEW id \in (Count + 1)..m
                 PROVE  \E op \in OpsOf(Event) : Ids[op] = id
    OBVIOUS
  <2>2. PICK op \in DOMAIN Ids : Ids[op] = id
    BY <1>3, <1>4, <1>5 DEF IsNumbering
  <2>3. op \notin DOMAIN opId
    BY <2>1, <2>2, <1>3, <1>4 DEF IsNumbering
  <2>4. QED
    BY <2>2, <2>3, <1>4
<1>7. \A k \in 1..l : Event.ops[k].mods # None =>
         /\ Len(Event.ops[k].mods) \in Nat
         /\ DOMAIN Event.ops[k].mods = 1..Len(Event.ops[k].mods)
         /\ \A i \in DOMAIN Event.ops[k].mods : Event.ops[k].mods[i] \in OpsOf(Event)
  BY <1>2, ListShape DEF Event
<1>8. DOMAIN oa = 1..Count /\ \A id \in 1..Count : oa[id] \in Seq(1..Count)
  BY DEF Operators
<1> HIDE DEF m, z, l
<1>9. /\ DOMAIN Mods = 1..m /\ \A id \in 1..m : Mods[id] \in Seq(1..m)
      /\ \A id \in 1..Count :
           (\A k \in 1..Len(Event.ops) : Ids[Event.ops[k].op] = id => Event.ops[k].mods = None)
             => Mods[id] = oa[id]
  <2>1. /\ Len(Event.ops) \in Nat /\ DOMAIN Event.ops = 1..Len(Event.ops)
        /\ OpsOf(Event) \subseteq DOMAIN Ids
    BY <1>2, <1>4 DEF l
  <2>2. \A k \in 1..Len(Event.ops) : Event.ops[k].mods # None =>
           /\ Len(Event.ops[k].mods) \in Nat
           /\ DOMAIN Event.ops[k].mods = 1..Len(Event.ops[k].mods)
           /\ \A i \in DOMAIN Event.ops[k].mods : Event.ops[k].mods[i] \in OpsOf(Event)
    BY <1>7 DEF l
  <2>3. Count \in Nat /\ m \in Nat /\ Count <= m
    BY <1>3, <1>5
  <2>4. ListsFor(oa, Count, Ids, m, Event)
    BY <1>4, <1>6, <1>8, <2>1, <2>2, <2>3 DEF ListsFor
  <2>5. LET r == update_modlists(oa, Ids, Event)
        IN  /\ DOMAIN r = 1..m
            /\ \A id \in 1..m : r[id] \in Seq(1..m)
            /\ \A id \in 1..Count :
                 (\A k \in 1..Len(Event.ops) : Ids[Event.ops[k].op] = id => Event.ops[k].mods = None)
                   => r[id] = oa[id]
    BY <2>4, ListsOfIds
  <2>6. QED
    BY <2>5 DEF Mods
<1>10. Count' = m
  <2>1. Cardinality(1..m) = m
    <3>1. Cardinality(1..m) = IF 1 > m THEN 0 ELSE m - 1 + 1
      BY <1>5, FS_Interval
    <3>2. QED
      BY <3>1, <1>5
  <2>2. QED
    BY <1>1, <1>9, <2>1 DEF Count
<1>11. \A op : op \in DOMAIN opId' <=> UsedBefore(script', next', op)
  <2>1. \A op : UsedBefore(script, next + 1, op) <=> UsedBefore(script, next, op) \/ op \in OpsOf(Event)
    <3>1. 1..((next + 1) - 1) = (1..(next - 1)) \cup {next}
      BY <1>2
    <3>2. QED
      BY <3>1 DEF UsedBefore, Event
  <2>2. QED
    BY <1>1, <1>4, <2>1 DEF Operators
<1>12. Operators'
  BY <1>1, <1>4, <1>5, <1>9, <1>10, <1>11 DEF Operators
<1>13. \A k \in 1..Len(Event.ops) : Ids[Event.ops[k].op] \in 1..m
  <2>1. \A k \in 1..Len(Event.ops) : Event.ops[k].op \in DOMAIN Ids
    BY <1>2, <1>4 DEF OpsOf, l
  <2>2. QED
    BY <2>1, <1>4 DEF IsNumbering
<1>14. QED
  BY <1>1, <1>4, <1>5, <1>9, <1>10, <1>12, <1>13

-----------------------------------------------------------------------------
(***************************************************************************)
(* What becomes of the voices.                                             *)
(***************************************************************************)

VoiceData == [dur : Nat, last : Nat, carriers : Seq(Nat)]

LEMMA VoiceDataOf ==
  ASSUME NEW d \in Nat, NEW n \in Nat, NEW c \in Seq(Nat)
  PROVE  [dur |-> d, last |-> n, carriers |-> c] \in VoiceData
BY DEF VoiceData

LEMMA AgedIs ==
  ASSUME Progress, Voices, next <= Len(script)
  PROVE  /\ Aged \in Seq(VoiceData) /\ Len(Aged) = Len(va) /\ DOMAIN Aged = 1..Len(va)
         /\ \A u \in 1..Len(va) :
              /\ Aged[u].last = va[u].last /\ Aged[u].carriers = va[u].carriers
              /\ va[u].dur < Event.wait => Aged[u].dur = 0
              /\ va[u].dur >= Event.wait => Aged[u].dur = va[u].dur - Event.wait
<1>1. va \in Seq(VoiceData) /\ Event.wait \in Nat
  BY EventTypes DEF Voices, VoiceData
<1>2. Len(va) \in Nat /\ DOMAIN va = 1..Len(va) /\ \A u \in 1..Len(va) : va[u] \in VoiceData
  BY <1>1, ElementIsIn
<1>3. ASSUME NEW u \in 1..Len(va)
      PROVE  /\ Aged[u] \in VoiceData
             /\ Aged[u].last = va[u].last /\ Aged[u].carriers = va[u].carriers
             /\ va[u].dur < Event.wait => Aged[u].dur = 0
             /\ va[u].dur >= Event.wait => Aged[u].dur = va[u].dur - Event.wait
  <2>1. /\ va[u].dur \in Nat /\ va[u].last \in Nat /\ va[u].carriers \in Seq(Nat)
        /\ va[u] = [dur |-> va[u].dur, last |-> va[u].last, carriers |-> va[u].carriers]
    BY <1>2 DEF VoiceData
  <2>2. Aged[u] = [va[u] EXCEPT !.dur = IF @ < Event.wait THEN 0 ELSE @ - Event.wait]
    BY <1>2 DEF Aged, Age
  <2>3. Aged[u] = [dur |-> IF va[u].dur < Event.wait THEN 0 ELSE va[u].dur - Event.wait,
                   last |-> va[u].last, carriers |-> va[u].carriers]
    BY <2>1, <2>2
  <2>4. QED
    BY SMTT(30), <2>1, <2>3, <1>1 DEF VoiceData
<1>4. Aged \in [1..Len(va) -> VoiceData]
  BY <1>2, <1>3 DEF Aged, Age
<1>5. Aged \in Seq(VoiceData) /\ Len(Aged) = Len(va) /\ DOMAIN Aged = 1..Len(va)
  BY <1>2, <1>4
<1>6. QED
  BY <1>3, <1>5

\* Which voice an event is given.
LEMMA VoiceIs ==
  ASSUME Base, next <= Len(script)
  PROVE  /\ ~NewOpGraph(script, next) =>
              /\ RootEvent(script, next) \in 1..Done /\ Voice = evVoice[RootEvent(script, next)]
              /\ Voice \in 1..Len(va)
         /\ NewOpGraph(script, next) =>
              \/ Voice \in 1..Len(va) /\ Aged[Voice].dur = 0
                 /\ ~LaterUsed(script, va[Voice].last)
              \/ /\ Voice = Len(va) + 1
                 /\ \A u \in 1..Len(va) : LaterUsed(script, va[u].last) \/ Aged[u].dur # 0
<1>1. next \in Nat \ {0} /\ Done = next - 1
  BY EventTypes DEF Base
<1>2. ASSUME ~NewOpGraph(script, next)
      PROVE  /\ RootEvent(script, next) \in 1..Done /\ Voice = evVoice[RootEvent(script, next)]
             /\ Voice \in 1..Len(va)
  <2>1. RootEvent(script, next) \in 1..(next - 1)
    BY <1>1, <1>2, RootIsFirstUse
  <2>2. Voice = evVoice[RootEvent(script, next)]
    BY <1>2 DEF Voice, VoAlloc_get_id
  <2>3. {evVoice[j] : j \in 1..Done} = 1..Len(va)
    BY DEF Base, VoicesInOrder
  <2>4. QED
    BY <2>1, <2>2, <2>3, <1>1
<1>3. ASSUME NewOpGraph(script, next)
      PROVE  \/ Voice \in 1..Len(va) /\ Aged[Voice].dur = 0
                /\ ~LaterUsed(script, va[Voice].last)
             \/ /\ Voice = Len(va) + 1
                /\ \A u \in 1..Len(va) : LaterUsed(script, va[u].last) \/ Aged[u].dur # 0
  <2>1. /\ Len(Aged) = Len(va) /\ Len(va) \in Nat /\ DOMAIN Aged = 1..Len(va)
        /\ \A u \in 1..Len(va) : Aged[u].last = va[u].last
    BY AgedIs DEF Base, Voices
  <2>2. Expired(script, Aged) =
          {u \in 1..Len(va) : ~LaterUsed(script, va[u].last) /\ Aged[u].dur = 0}
    BY <2>1 DEF Expired
  <2>3. CASE Expired(script, Aged) = {}
    <3>1. Voice = Len(va) + 1
      BY <1>3, <2>1, <2>3 DEF Voice, VoAlloc_get_id
    <3>2. \A u \in 1..Len(va) : LaterUsed(script, va[u].last) \/ Aged[u].dur # 0
      BY <2>2, <2>3
    <3>3. QED
      BY <3>1, <3>2
  <2>4. CASE Expired(script, Aged) # {}
    <3>1. Voice = Min(Expired(script, Aged))
      BY <1>3, <2>4 DEF Voice, VoAlloc_get_id
    <3>2. Expired(script, Aged) \in SUBSET Nat
      BY <2>1, <2>2
    <3>3. PICK k \in Expired(script, Aged) : \A j \in Expired(script, Aged) : k <= j
      BY <2>4, <3>2, LeastNatural
    <3>4. Min(Expired(script, Aged)) \in Expired(script, Aged)
      BY <3>3 DEF Min
    <3>5. QED
      BY <2>2, <3>1, <3>4
  <2>5. QED
    BY <2>3, <2>4
<1>4. QED
  BY <1>2, <1>3

\* The voices after an event: the one it was given has it for its last event
\* and, if it came with a new carrier, the time and the graph of that; the
\* others have only aged.
LEMMA VoicesAre ==
  ASSUME Base, ConvertEvent
  PROVE  /\ va' \in Seq(VoiceData) /\ Voice \in 1..(Len(va) + 1)
         /\ Len(va') = (IF Voice = Len(va) + 1 THEN Len(va) + 1 ELSE Len(va))
         /\ \A u \in 1..Len(va) : u # Voice => va'[u] = Aged[u]
         /\ va'[Voice].last = next
         /\ NewOpGraph(script, next) =>
              /\ va'[Voice].dur = Event.ops[1].time
              /\ va'[Voice].carriers = <<Ids[MainOp(Event)]>>
              /\ Graph = <<Ids[MainOp(Event)]>>
         /\ ~NewOpGraph(script, next) =>
              /\ va'[Voice].dur = Aged[Voice].dur
              /\ va'[Voice].carriers = va[Voice].carriers
              /\ Graph = va[Voice].carriers
<1>1. /\ next <= Len(script)
      /\ va' = IF ChangesGraph(script, next) THEN [Vas EXCEPT ![Voice].carriers = Graph] ELSE Vas
  BY ConvertIs
<1>2. /\ Progress /\ Operators /\ Voices
  BY DEF Base
<1>3. /\ next \in Nat /\ Event.ops[1].op = MainOp(Event)
      /\ NewOpGraph(script, next) => Event.ops[1].time \in Nat
  BY <1>1, <1>2, EventTypes
<1>4. Ids[MainOp(Event)] \in Nat
  <2>1. Ids[Event.ops[1].op] \in 1..Count' /\ Operators'
    BY <1>2, EventTypes, <1>1, OperatorsStep
  <2>2. QED
    BY <1>3, <2>1 DEF Operators
<1>5. /\ Aged \in Seq(VoiceData) /\ Len(Aged) = Len(va) /\ Len(va) \in Nat
      /\ DOMAIN Aged = 1..Len(va)
      /\ \A u \in 1..Len(va) : Aged[u] \in VoiceData /\ Aged[u].carriers = va[u].carriers
  BY <1>1, <1>2, AgedIs, ElementIsIn DEF Voices
<1>6. Voice \in 1..(Len(va) + 1) /\ (~NewOpGraph(script, next) => Voice \in 1..Len(va))
  BY <1>1, <1>5, VoiceIs
<1> DEFINE blank == [dur |-> 0, last |-> next, carriers |-> <<>>]
           slots == IF Voice > Len(Aged) THEN Append(Aged, blank) ELSE Aged
           kept == IF NewOpGraph(script, next)
                   THEN [blank EXCEPT !.dur = voice_duration(Event)]
                   ELSE [slots[Voice] EXCEPT !.last = next]
           size == IF Voice = Len(va) + 1 THEN Len(va) + 1 ELSE Len(va)
<1>7. Vas = [slots EXCEPT ![Voice] = kept]
  BY DEF Vas, VoAlloc_update, Event
<1>8. /\ slots \in Seq(VoiceData) /\ Len(slots) = size /\ DOMAIN slots = 1..size
      /\ \A u \in 1..Len(va) : slots[u] = Aged[u]
  <2>1. blank \in VoiceData
    BY <1>3 DEF VoiceData
  <2> HIDE DEF blank
  <2>2. CASE Voice = Len(va) + 1
    BY <1>5, <1>6, <2>1, <2>2
  <2>3. CASE Voice # Len(va) + 1
    <3>1. slots = Aged /\ size = Len(va)
      <4>1. ~(Voice > Len(Aged))
        <5> HIDE DEF slots, size
        <5>1. QED
          BY <1>5, <1>6, <2>3
      <4>2. QED
        BY <2>3, <4>1
    <3> HIDE DEF slots, size
    <3>2. QED
      BY <1>5, <3>1
  <2>4. QED
    BY <2>2, <2>3
<1>9. /\ NewOpGraph(script, next) =>
           kept = [dur |-> Event.ops[1].time, last |-> next, carriers |-> <<>>]
      /\ ~NewOpGraph(script, next) =>
           kept = [dur |-> Aged[Voice].dur, last |-> next, carriers |-> va[Voice].carriers]
  <2>1. CASE NewOpGraph(script, next)
    BY <2>1 DEF voice_duration
  <2>2. CASE ~NewOpGraph(script, next)
    <3>1. kept = [slots[Voice] EXCEPT !.last = next]
      BY <2>2
    <3>2. slots[Voice] = Aged[Voice] /\ Aged[Voice] \in VoiceData
          /\ Aged[Voice].carriers = va[Voice].carriers
      BY <2>2, <1>5, <1>6, <1>8
    <3> HIDE DEF kept, slots
    <3>3. QED
      BY <3>1, <3>2, <2>2 DEF VoiceData
  <2>3. QED
    BY <2>1, <2>2
<1>10. /\ NewOpGraph(script, next) => Graph = <<Ids[MainOp(Event)]>> /\ ChangesGraph(script, next)
       /\ ~NewOpGraph(script, next) => Graph = Vas[Voice].carriers
  BY DEF Graph, CarriersAfter, Event, ChangesGraph
<1> HIDE DEF blank, slots, kept
<1>11. /\ Vas \in [1..size -> VoiceData] /\ Vas[Voice] = kept
       /\ \A u \in 1..Len(va) : u # Voice => Vas[u] = Aged[u]
  <2>1. kept \in VoiceData
    <3>1. CASE NewOpGraph(script, next)
      <4>1. <<>> \in Seq(Nat) /\ Event.ops[1].time \in Nat
        BY <1>3, <3>1
      <4>2. [dur |-> Event.ops[1].time, last |-> next, carriers |-> <<>>] \in VoiceData
        BY <1>3, <4>1, VoiceDataOf
      <4>3. QED
        BY <1>9, <3>1, <4>2
    <3>2. CASE ~NewOpGraph(script, next)
      <4>1. Aged[Voice].dur \in Nat /\ va[Voice].carriers \in Seq(Nat)
        BY <1>5, <1>6, <3>2 DEF VoiceData
      <4>2. QED
        BY <1>3, <1>9, <3>2, <4>1 DEF VoiceData
    <3>3. QED
      BY <3>1, <3>2
  <2>2. slots \in [1..size -> VoiceData]
    BY <1>8
  <2>3. Voice \in 1..size
    BY <1>5, <1>6
  <2> HIDE DEF size
  <2>4. QED
    BY <1>7, <1>8, <2>1, <2>2, <2>3
<1>12. size \in Nat /\ Voice \in 1..size /\ Len(va) <= size
  BY <1>5, <1>6
<1> HIDE DEF size
<1>13. CASE NewOpGraph(script, next)
  <2>1. kept = [dur |-> Event.ops[1].time, last |-> next, carriers |-> <<>>]
    BY <1>9, <1>13
  <2>2. va' = [Vas EXCEPT ![Voice].carriers = <<Ids[MainOp(Event)]>>]
    BY <1>1, <1>10, <1>13
  <2>3. va'[Voice] = [dur |-> Event.ops[1].time, last |-> next,
                      carriers |-> <<Ids[MainOp(Event)]>>]
    BY <2>1, <2>2, <1>11, <1>12
  <2>4. va'[Voice] \in VoiceData
    BY <2>3, <1>3, <1>4, <1>13 DEF VoiceData
  <2>5. va' \in [1..size -> VoiceData]
    BY <2>2, <2>4, <1>11, <1>12
  <2>6. \A u \in 1..Len(va) : u # Voice => va'[u] = Aged[u]
    BY <2>2, <1>11, <1>12
  <2>7. va' \in Seq(VoiceData) /\ Len(va') = size
    BY <2>5, <1>12
  <2>8. QED
    BY <2>3, <2>6, <2>7, <1>6, <1>10, <1>13 DEF size
<1>14. CASE ~NewOpGraph(script, next)
  <2>1. kept = [dur |-> Aged[Voice].dur, last |-> next, carriers |-> va[Voice].carriers]
    BY <1>9, <1>14
  <2>2. Graph = va[Voice].carriers
    BY <2>1, <1>10, <1>11, <1>14
  <2>3. va' = Vas
    <3>1. CASE ChangesGraph(script, next)
      <4>1. va' = [Vas EXCEPT ![Voice].carriers = va[Voice].carriers]
        BY <1>1, <2>2, <3>1
      <4>2. [Vas[Voice] EXCEPT !.carriers = va[Voice].carriers] = Vas[Voice]
        BY <2>1, <1>11
      <4>3. [Vas EXCEPT ![Voice] = [Vas[Voice] EXCEPT !.carriers = va[Voice].carriers]] = Vas
        BY <4>2, <1>11, <1>12
      <4>4. QED
        BY <4>1, <4>3
    <3>2. CASE ~ChangesGraph(script, next)
      BY <1>1, <3>2
    <3>3. QED
      BY <3>1, <3>2
  <2>4. va' \in Seq(VoiceData) /\ Len(va') = size
    BY <2>3, <1>11, <1>12
  <2>5. QED
    BY <2>1, <2>2, <2>3, <2>4, <1>6, <1>11, <1>14 DEF size
<1>15. QED
  BY <1>13, <1>14

-----------------------------------------------------------------------------
(***************************************************************************)
(* The invariant is one.                                                   *)
(***************************************************************************)

LEMMA EventDataOverMore ==
  ASSUME NEW V, NEW m \in Nat, NEW n \in Nat, m <= n, NEW q \in Seq(EventData(V, 1..m))
  PROVE  q \in Seq(EventData(V, 1..n))
<1>1. 1..m \subseteq 1..n
  OBVIOUS
<1>2. Seq(1..m) \subseteq Seq(1..n)
  BY <1>1, SeqOverMore
<1>3. OpData(1..m) \subseteq OpData(1..n)
  BY <1>1, <1>2 DEF OpData
<1>4. Seq(OpData(1..m)) \subseteq Seq(OpData(1..n))
  BY <1>3, SeqOverMore
<1>5. EventData(V, 1..m) \subseteq EventData(V, 1..n)
  BY <1>2, <1>4 DEF EventData
<1>6. QED
  BY <1>5, SeqOverMore

\* The event made is one of a program as program.h has it.
LEMMA OutType ==
  ASSUME Base, ConvertEvent
  PROVE  /\ Out \in EventData(Nat, 1..Count') /\ Out.vo = OutId(Voice)
         /\ Graph \in Seq(1..Count')
         /\ DOMAIN Out.ops = 1..Len(Event.ops)
         /\ \A k \in 1..Len(Event.ops) :
              /\ Out.ops[k].id = Ids[Event.ops[k].op]
              /\ Out.ops[k].mods = Mods[Ids[Event.ops[k].op]]
         /\ ChangesGraph(script, next) => Out.carriers = Graph
         /\ ~ChangesGraph(script, next) => Out.carriers = None
<1>1. /\ Progress /\ Operators /\ Voices /\ next <= Len(script) /\ oa' = Mods
  BY ConvertIs DEF Base
<1>2. /\ Event.wait \in Nat
      /\ Len(Event.ops) \in Nat \ {0} /\ DOMAIN Event.ops = 1..Len(Event.ops)
      /\ MainOp(Event) = Event.ops[1].op
      /\ \A k \in 1..Len(Event.ops) :
           /\ Event.ops[k].time \in Nat \cup {None, Linked}
           /\ Event.ops[k].silence \in Nat \cup {None}
  BY <1>1, EventTypes
<1>3. /\ Operators' /\ Count <= Count'
      /\ \A k \in 1..Len(Event.ops) : Ids[Event.ops[k].op] \in 1..Count'
  BY <1>1, OperatorsStep
<1>4. /\ Count \in Nat /\ Count' \in Nat
      /\ \A id \in 1..Count' : Mods[id] \in Seq(1..Count')
  BY <1>1, <1>3 DEF Operators
<1>5. ASSUME NEW k \in 1..Len(Event.ops)
      PROVE  OpOut(k) \in OpData(1..Count')
  BY <1>2, <1>3, <1>4 DEF OpOut, OpData
<1>6. [k \in DOMAIN Event.ops |-> OpOut(k)] \in Seq(OpData(1..Count'))
  BY <1>2, <1>5
<1>7. OutId(Voice) \in Nat
  <2>1. Voice \in Nat \ {0} /\ VoiceNoId \in Nat
    <3>1. Voice \in 1..(Len(va) + 1) /\ Len(va) \in Nat
      BY VoicesAre, <1>1 DEF Voices
    <3>2. QED
      BY <3>1, ConvAssumption
  <2>2. ((Voice - 1) % (VoiceNoId + 1)) \in 0..VoiceNoId
    BY <2>1
  <2>3. QED
    BY <2>1, <2>2 DEF OutId
<1>8. Graph \in Seq(1..Count')
  <2>1. CASE NewOpGraph(script, next)
    <3>1. Graph = <<Ids[MainOp(Event)]>>
      BY <2>1, VoicesAre
    <3>2. QED
      BY <3>1, <1>2, <1>3
  <2>2. CASE ~NewOpGraph(script, next)
    <3>1. Graph = va[Voice].carriers /\ Voice \in 1..Len(va)
      BY <2>2, VoicesAre, VoiceIs, <1>1
    <3>2. va[Voice].carriers \in Seq(1..Count)
      BY <3>1, <1>1 DEF Voices
    <3>3. 1..Count \subseteq 1..Count'
      BY <1>3, <1>4
    <3>4. QED
      BY <3>1, <3>2, <3>3, SeqOverMore
  <2>3. QED
    BY <2>1, <2>2
<1>9. Out \in EventData(Nat, 1..Count')
  <2> DEFINE ops == [k \in DOMAIN Event.ops |-> OpOut(k)]
             car == IF ChangesGraph(script, next) THEN Graph ELSE None
  <2>1. Out = [wait |-> Event.wait, vo |-> OutId(Voice), ops |-> ops, carriers |-> car]
    BY DEF Out
  <2>2. car \in Seq(1..Count') \cup {None}
    BY <1>8
  <2>3. ops \in Seq(OpData(1..Count'))
    BY <1>6
  <2> HIDE DEF ops, car
  <2>4. QED
    BY <2>1, <2>2, <2>3, <1>2, <1>7 DEF EventData
<1>10. /\ Out.vo = OutId(Voice) /\ DOMAIN Out.ops = 1..Len(Event.ops)
       /\ \A k \in 1..Len(Event.ops) :
            /\ Out.ops[k].id = Ids[Event.ops[k].op]
            /\ Out.ops[k].mods = Mods[Ids[Event.ops[k].op]]
  BY <1>2 DEF Out, OpOut
<1>11. /\ ChangesGraph(script, next) => Out.carriers = Graph
       /\ ~ChangesGraph(script, next) => Out.carriers = None
  BY DEF Out
<1>12. QED
  BY <1>8, <1>9, <1>10, <1>11

LEMMA ProgressStep ==
  ASSUME Base, ConvertEvent
  PROVE  /\ Progress' /\ Done' = next
         /\ evVoice'[next] = Voice /\ \A j \in 1..Done : evVoice'[j] = evVoice[j]
         /\ evList'[next] = Out /\ \A j \in 1..Done : evList'[j] = evList[j]
<1>1. /\ next <= Len(script) /\ next' = next + 1 /\ script' = script
      /\ evVoice' = Append(evVoice, Voice) /\ evList' = Append(evList, Out)
  BY ConvertIs
<1>2. Progress /\ Operators /\ Voices
  BY DEF Base
<1>3. /\ next \in 1..Len(script) /\ next \in Nat \ {0} /\ Done = next - 1 /\ Done' = next
  BY <1>1, <1>2, EventTypes DEF Done
<1>4. /\ evVoice \in Seq(Nat) /\ Len(evVoice) = Done
      /\ evList \in Seq(EventData(Nat, 1..Count)) /\ Len(evList) = Done
  BY <1>2 DEF Progress
<1>5. Voice \in Nat
  BY VoicesAre, <1>2 DEF Voices
<1>6. Count \in Nat /\ Count' \in Nat /\ Count <= Count'
  BY <1>2, OperatorsStep DEF Operators
<1>7. evList \in Seq(EventData(Nat, 1..Count')) /\ Out \in EventData(Nat, 1..Count')
  BY <1>4, <1>6, OutType, EventDataOverMore
<1>8. /\ evVoice' \in Seq(Nat) /\ Len(evVoice') = next /\ evVoice'[next] = Voice
      /\ \A j \in 1..Done : evVoice'[j] = evVoice[j]
  BY <1>1, <1>3, <1>4, <1>5
<1>9. /\ evList' \in Seq(EventData(Nat, 1..Count')) /\ Len(evList') = next
      /\ evList'[next] = Out /\ \A j \in 1..Done : evList'[j] = evList[j]
  BY <1>1, <1>3, <1>4, <1>7
<1>10. WellFormed(script') /\ next' \in 1..(Len(script') + 1)
  BY <1>1, <1>2, <1>3 DEF Progress
<1>11. QED
  BY <1>3, <1>8, <1>9, <1>10 DEF Progress

LEMMA BaseStep ==
  ASSUME Base, ConvertEvent
  PROVE  Base'
<1>1. /\ Progress /\ Operators /\ Voices /\ VoicesInOrder /\ next <= Len(script)
      /\ script' = script /\ next' = next + 1
  BY ConvertIs DEF Base
<1>2. /\ Progress' /\ Done' = next
      /\ evVoice'[next] = Voice /\ \A j \in 1..Done : evVoice'[j] = evVoice[j]
  BY ProgressStep
<1>3. Operators' /\ Count <= Count' /\ Count \in Nat /\ Count' \in Nat
  BY <1>1, OperatorsStep DEF Operators
<1>4. /\ next \in Nat \ {0} /\ Done = next - 1 /\ Len(va) \in Nat
      /\ Aged \in Seq(VoiceData)
      /\ \A u \in 1..Len(va) : Aged[u].last = va[u].last /\ Aged[u].carriers = va[u].carriers
  BY <1>1, EventTypes, AgedIs DEF Voices
<1>5. Voice \in 1..(Len(va) + 1)
      /\ Len(va') = (IF Voice = Len(va) + 1 THEN Len(va) + 1 ELSE Len(va))
  BY VoicesAre
<1>6. Voices'
  <2>1. va' \in Seq([dur : Nat, last : Nat, carriers : Seq(Nat)])
    BY VoicesAre DEF VoiceData
  <2>2. SUFFICES ASSUME NEW u \in 1..Len(va')
                 PROVE  /\ va'[u].carriers \in Seq(1..Count')
                        /\ va'[u].last \in 1..Done' /\ evVoice'[va'[u].last] = u
                        /\ \A j \in (va'[u].last + 1)..Done' : evVoice'[j] # u
    BY <2>1 DEF Voices
  <2>3. CASE u = Voice
    <3>1. va'[u].last = next /\ evVoice'[next] = u
      BY <2>3, <1>2, VoicesAre
    <3>2. va'[u].carriers \in Seq(1..Count')
      <4>1. va'[u].carriers = Graph
        BY <2>3, VoicesAre
      <4>2. QED
        BY <4>1, OutType
    <3>3. QED
      BY <3>1, <3>2, <1>2, <1>4
  <2>4. CASE u # Voice
    <3>1. u \in 1..Len(va) /\ va'[u] = Aged[u]
      BY <2>4, <1>4, <1>5, VoicesAre
    <3>2. va'[u].last = va[u].last /\ va'[u].carriers = va[u].carriers
      BY <3>1, <1>4
    <3>3. /\ va[u].carriers \in Seq(1..Count)
          /\ va[u].last \in 1..Done /\ evVoice[va[u].last] = u
          /\ \A j \in (va[u].last + 1)..Done : evVoice[j] # u
      BY <3>1, <1>1 DEF Voices
    <3>4. va'[u].carriers \in Seq(1..Count')
      <4>1. 1..Count \subseteq 1..Count'
        BY <1>3
      <4>2. QED
        BY <3>2, <3>3, <4>1, SeqOverMore
    <3>5. evVoice'[va[u].last] = u /\ va[u].last \in 1..Done'
      BY <3>3, <1>2, <1>4
    <3>6. \A j \in (va[u].last + 1)..Done' : evVoice'[j] # u
      BY SMTT(30), <3>3, <2>4, <1>2, <1>4
    <3>7. QED
      BY <3>2, <3>4, <3>5, <3>6
  <2>5. QED
    BY <2>3, <2>4
<1>7. VoicesInOrder'
  <2>1. {evVoice[j] : j \in 1..Done} = 1..Len(va)
    BY <1>1 DEF VoicesInOrder
  <2>2. {evVoice'[j] : j \in 1..(next - 1)} = 1..Len(va)
    BY <2>1, <1>2, <1>4
  <2>3. {evVoice'[j] : j \in 1..Done'} = 1..Len(va')
    <3>1. 1..Done' = (1..(next - 1)) \cup {next}
      BY <1>2, <1>4
    <3>2. {evVoice'[j] : j \in 1..Done'} = (1..Len(va)) \cup {Voice}
      BY <3>1, <2>2, <1>2
    <3>3. QED
      BY <3>2, <1>4, <1>5
  <2>4. ASSUME NEW i \in 1..Done'
        PROVE  InOrderAt(i)'
    <3>1. CASE i = next
      <4>1. Voice = Len(va) + 1 => NewOpGraph(script, next)
        BY <1>1, <1>4, VoiceIs
      <4>2. /\ {evVoice'[j] : j \in 1..(i - 1)} = 1..Len(va) /\ evVoice'[i] \in 1..(Len(va) + 1)
            /\ evVoice'[i] = Len(va) + 1 => NewOpGraph(script', i)
        BY <3>1, <4>1, <2>2, <1>1, <1>2, <1>5
      <4>3. QED
        BY <4>2, <1>4 DEF InOrderAt
    <3>2. CASE i # next
      <4>1. i \in 1..Done
        BY <3>2, <1>2, <1>4
      <4>2. PICK m \in Nat : /\ {evVoice[j] : j \in 1..(i - 1)} = 1..m /\ evVoice[i] \in 1..(m + 1)
                             /\ evVoice[i] = m + 1 => NewOpGraph(script, i)
        BY <4>1, <1>1 DEF VoicesInOrder, InOrderAt
      <4>3. {evVoice'[j] : j \in 1..(i - 1)} = {evVoice[j] : j \in 1..(i - 1)}
        BY SMTT(30), <4>1, <1>2, <1>4
      <4>4. evVoice'[i] = evVoice[i]
        BY <4>1, <1>2
      <4>5. QED
        BY <4>2, <4>3, <4>4, <1>1 DEF InOrderAt
    <3>3. QED
      BY <3>1, <3>2
  <2>5. QED
    BY <2>3, <2>4 DEF VoicesInOrder
<1>8. QED
  BY <1>2, <1>3, <1>6, <1>7 DEF Base

LEMMA InitBase ==
  ConvInit => Base
<1> SUFFICES ASSUME ConvInit PROVE Base
  OBVIOUS
<1>1. /\ next = 1 /\ va = <<>> /\ oa = <<>> /\ opId = <<>> /\ evVoice = <<>> /\ evList = <<>>
      /\ script \in Scripts
  BY DEF ConvInit
<1>2. WellFormed(script)
  BY <1>1, ConvAssumption
<1>3. Len(script) \in Nat
  BY <1>2, ScriptTypes
<1>4. Done = 0
  BY <1>1 DEF Done
<1>5. Count = 0
  <2>1. DOMAIN oa = {}
    BY <1>1
  <2>2. QED
    BY <2>1, FS_EmptySet DEF Count
<1>6. Progress
  BY <1>1, <1>2, <1>3, <1>4, <1>5 DEF Progress
<1>7. Operators
  <2>1. DOMAIN oa = 1..0 /\ DOMAIN opId = {}
    BY <1>1
  <2>2. IsNumbering(opId, 0)
    BY <1>1 DEF IsNumbering
  <2>3. \A op : op \in DOMAIN opId <=> UsedBefore(script, next, op)
    BY <2>1, <1>1 DEF UsedBefore
  <2>4. QED
    BY <2>1, <2>2, <2>3, <1>5 DEF Operators
<1>8. Voices
  BY <1>1 DEF Voices
<1>9. VoicesInOrder
  BY <1>1, <1>4 DEF VoicesInOrder
<1>10. QED
  BY <1>6, <1>7, <1>8, <1>9 DEF Base

\* The steps that convert no event leave all but the program as it is.
SameState == UNCHANGED <<script, next, va, oa, opId, evVoice, evList, durMs>>

LEMMA OtherSteps ==
  ASSUME [ConvNext]_convVars, ~ConvertEvent
  PROVE  SameState /\ (CreateProgram \/ RunOutOfMemory \/ prg' = prg)
BY DEF ConvNext, CreateProgram, RunOutOfMemory, convVars, SameState

LEMMA SameBase ==
  ASSUME Base, SameState
  PROVE  Base'
<1>1. /\ script' = script /\ next' = next /\ va' = va /\ oa' = oa /\ opId' = opId
      /\ evVoice' = evVoice /\ evList' = evList
  BY DEF SameState
<1>2. Done' = Done /\ Count' = Count
  BY <1>1 DEF Done, Count
<1>3. Progress'
  BY <1>1, <1>2 DEF Base, Progress
<1>4. Operators'
  BY <1>1, <1>2 DEF Base, Operators
<1>5. Voices'
  BY <1>1, <1>2 DEF Base, Voices
<1>6. VoicesInOrder'
  <2>1. \A i : InOrderAt(i) => InOrderAt(i)'
    BY <1>1 DEF InOrderAt
  <2>2. QED
    BY <1>1, <1>2, <2>1 DEF Base, VoicesInOrder
<1>7. QED
  BY <1>3, <1>4, <1>5, <1>6 DEF Base

LEMMA AlwaysBase ==
  ConvSpec => []Base
<1>1. ConvInit => Base
  BY InitBase
<1>2. Base /\ [ConvNext]_convVars => Base'
  BY BaseStep, SameBase, OtherSteps
<1>3. QED
  BY <1>1, <1>2, PTL DEF ConvSpec

-----------------------------------------------------------------------------
(***************************************************************************)
(* What the events made say of voices, operators and graphs, and the       *)
(* program made of them.                                                   *)
(***************************************************************************)

MadeAt(i) ==
    /\ evList[i].vo = OutId(evVoice[i])
    /\ DOMAIN evList[i].ops = 1..Len(script[i].ops)
    /\ \A k \in 1..Len(script[i].ops) : evList[i].ops[k].id = opId[script[i].ops[k].op]
    /\ NewOpGraph(script, i) => evList[i].carriers = <<opId[MainOp(script[i])]>>
    /\ ChangesGraph(script, i) => evList[i].carriers # None

Made == \A i \in 1..Done : MadeAt(i)

Finished ==
    prg \notin {None, Rejected} =>
        /\ next = Len(script) + 1 /\ Len(va) <= VO_MAX_ID
        /\ prg = [events |-> evList, vo_count |-> Len(va),
                  op_count |-> Cardinality(DOMAIN oa), duration |-> durMs + RemainingMs(va)]

\* An operator of an event that was converted has an ID, and keeps it.
LEMMA IdsStay ==
  ASSUME Base, ConvertEvent, NEW i \in 1..Done, NEW op \in OpsOf(script[i])
  PROVE  op \in DOMAIN opId /\ opId'[op] = opId[op]
<1>1. next \in Nat \ {0} /\ Done = next - 1
  BY ConvertIs, EventTypes DEF Base
<1>2. UsedBefore(script, next, op)
  BY <1>1 DEF UsedBefore
<1>3. op \in DOMAIN opId
  BY <1>2 DEF Base, Operators
<1>4. QED
  BY <1>3, OperatorsStep DEF Base

LEMMA MadeStep ==
  ASSUME Base, Made, ConvertEvent
  PROVE  Made'
<1>1. /\ next <= Len(script) /\ script' = script /\ opId' = Ids
      /\ Progress /\ Operators /\ WellFormed(script)
  BY ConvertIs DEF Base, Progress
<1>2. /\ Done' = next /\ evVoice'[next] = Voice /\ evList'[next] = Out
      /\ \A j \in 1..Done : evVoice'[j] = evVoice[j] /\ evList'[j] = evList[j]
  BY ProgressStep
<1>3. next \in Nat \ {0} /\ Done = next - 1 /\ MainOp(Event) = Event.ops[1].op
      /\ Len(Event.ops) \in Nat \ {0}
  BY <1>1, EventTypes
<1>4. SUFFICES ASSUME NEW i \in 1..Done' PROVE MadeAt(i)'
  BY DEF Made
<1>5. CASE i = next
  <2>1. Graph # None
    <3>1. Graph \in Seq(1..Count') /\ Count' \in Nat
      BY OutType, OperatorsStep, <1>1 DEF Operators
    <3>2. Graph \in Seq(Nat)
      BY <3>1, SeqOverMore
    <3>3. QED
      BY <3>2, ConvAssumption
  <2>2. /\ evList'[i].vo = OutId(evVoice'[i])
        /\ DOMAIN evList'[i].ops = 1..Len(script'[i].ops)
        /\ \A k \in 1..Len(script'[i].ops) : evList'[i].ops[k].id = opId'[script'[i].ops[k].op]
    BY <1>1, <1>2, <1>5, OutType DEF Event
  <2>3. ChangesGraph(script', i) => evList'[i].carriers # None
    BY <2>1, <1>1, <1>2, <1>5, OutType
  <2>4. NewOpGraph(script', i) => evList'[i].carriers = <<opId'[MainOp(script'[i])]>>
    <3>1. NewOpGraph(script, next) => ChangesGraph(script, next)
      BY DEF ChangesGraph
    <3>2. QED
      BY <3>1, <1>1, <1>2, <1>5, OutType, VoicesAre DEF Event
  <2>5. QED
    BY <2>2, <2>3, <2>4 DEF MadeAt
<1>6. CASE i # next
  <2>1. i \in 1..Done /\ i \in 1..Len(script)
    BY <1>1, <1>2, <1>3, <1>6
  <2>2. MadeAt(i) /\ evVoice'[i] = evVoice[i] /\ evList'[i] = evList[i]
    BY <2>1, <1>2 DEF Made
  <2>3. \A op \in OpsOf(script[i]) : opId'[op] = opId[op]
    BY <2>1, IdsStay
  <2>4. /\ \A k \in 1..Len(script[i].ops) : script[i].ops[k].op \in OpsOf(script[i])
        /\ MainOp(script[i]) \in OpsOf(script[i])
    BY <2>1, <1>1, ScriptTypes DEF MainOp
  <2>5. QED
    BY <2>2, <2>3, <2>4, <1>1 DEF MadeAt
<1>7. QED
  BY <1>5, <1>6

LEMMA FinishedStep ==
  ASSUME Base, Finished, [ConvNext]_convVars
  PROVE  Finished'
<1>1. CASE ConvertEvent
  <2>1. prg = None /\ prg' = prg
    BY <1>1, ConvertIs DEF ConvertEvent
  <2>2. QED
    BY <2>1 DEF Finished
<1>2. CASE ~ConvertEvent
  <2>1. /\ script' = script /\ next' = next /\ va' = va /\ oa' = oa /\ durMs' = durMs
        /\ evList' = evList /\ (CreateProgram \/ RunOutOfMemory \/ prg' = prg)
    BY <1>2, OtherSteps DEF SameState
  <2>2. CASE CreateProgram
    <3>1. next > Len(script) /\ next \in 1..(Len(script) + 1) /\ Len(script) \in Nat
      BY <2>2, ScriptTypes DEF CreateProgram, Base, Progress
    <3>2. next = Len(script) + 1
      BY <3>1
    <3>3. CASE CheckValidity(va)
      BY <2>1, <2>2, <3>2, <3>3 DEF CreateProgram, Finished, CheckValidity
    <3>4. CASE ~CheckValidity(va)
      BY <2>2, <3>4 DEF CreateProgram, Finished
    <3>5. QED
      BY <3>3, <3>4
  <2>3. CASE RunOutOfMemory
    BY <2>3 DEF RunOutOfMemory, Finished
  <2>4. CASE prg' = prg
    BY <2>1, <2>4 DEF Finished
  <2>5. QED
    BY <2>1, <2>2, <2>3, <2>4
<1>3. QED
  BY <1>1, <1>2

LEMMA AlwaysMade ==
  ConvSpec => [](Base /\ Made /\ Finished)
<1>1. ConvInit => Made /\ Finished
  BY DEF ConvInit, Made, Finished, Done
<1>2. Base /\ Made /\ Finished /\ [ConvNext]_convVars => Made' /\ Finished'
  <2> SUFFICES ASSUME Base, Made, Finished, [ConvNext]_convVars PROVE Made' /\ Finished'
    OBVIOUS
  <2>1. CASE ~ConvertEvent
    <3>1. SameState
      BY <2>1, OtherSteps
    <3>2. Made'
      <4>1. script' = script /\ next' = next /\ opId' = opId /\ evVoice' = evVoice
            /\ evList' = evList
        BY <3>1 DEF SameState
      <4>2. QED
        BY <4>1 DEF Made, MadeAt, Done
    <3>3. QED
      BY <3>2, FinishedStep
  <2>2. QED
    BY <2>1, MadeStep, FinishedStep
<1>3. QED
  BY <1>1, <1>2, AlwaysBase, PTL DEF ConvSpec

\* As long as voices are within the limit no ID is cut.
LEMMA IdsNotCut ==
  ASSUME NEW v, NEW n \in Nat, v \in 1..n, n <= VO_MAX_ID
  PROVE  OutId(v) = v /\ v # VoiceNoId + 1
<1>1. VoiceNoId \in Nat /\ n <= VoiceNoId - 1
  BY ConvAssumption DEF VO_MAX_ID
<1>2. ((v - 1) % (VoiceNoId + 1)) = v - 1
  BY <1>1
<1>3. QED
  BY <1>1, <1>2 DEF OutId

LEMMA ProgramIs ==
  ASSUME Base, Made, Finished, prg \notin {None, Rejected}
  PROVE  /\ IsProgram(prg) /\ prg.events = evList /\ DOMAIN prg.events = 1..Done
         /\ prg.vo_count = Len(va)
         /\ \A i \in 1..Done : evList[i].vo = evVoice[i] /\ evVoice[i] \in 1..Len(va)
<1>1. /\ prg.events = evList /\ prg.vo_count = Len(va) /\ prg.op_count = Count
      /\ Len(va) <= VO_MAX_ID
  BY DEF Finished, Count
<1>2. /\ Len(va) \in Nat /\ Count \in Nat /\ evList \in Seq(EventData(Nat, 1..Count))
      /\ Len(evList) = Done /\ {evVoice[j] : j \in 1..Done} = 1..Len(va)
  BY DEF Base, Voices, Operators, Progress, VoicesInOrder
<1>3. \A i \in 1..Done : evVoice[i] \in 1..Len(va) /\ evList[i].vo = evVoice[i]
  BY <1>1, <1>2, IdsNotCut DEF Made, MadeAt
<1>4. evList \in Seq(EventData(1..Len(va), 1..Count))
  <2>1. DOMAIN evList = 1..Done /\ Done \in Nat
    BY <1>2
  <2>2. ASSUME NEW i \in 1..Done
        PROVE  evList[i] \in EventData(1..Len(va), 1..Count)
    <3>1. evList[i] \in EventData(Nat, 1..Count)
      BY <1>2, ElementIsIn
    <3>2. evList[i].vo \in 1..Len(va)
      BY <1>3
    <3>3. QED
      BY <3>1, <3>2 DEF EventData
  <2>3. evList \in [1..Done -> EventData(1..Len(va), 1..Count)]
    BY <1>2, <2>1, <2>2
  <2>4. QED
    BY <2>1, <2>3
<1>5. QED
  BY <1>1, <1>2, <1>3, <1>4 DEF IsProgram

\* The types of the converter's state, and of what it makes: whatever comes
\* out of the builder is a program as program.h and the interpreter have it.
THEOREM ConverterTypes ==
  ConvSpec => []ConvTypeOK
<1> DEFINE Timed == durMs \in Nat
<1>1. Base /\ Made /\ Finished /\ Timed => ConvTypeOK
  <2> SUFFICES ASSUME Base, Made, Finished, Timed PROVE ConvTypeOK
    OBVIOUS
  <2>1. /\ next \in 1..(Len(script) + 1) /\ Len(evVoice) = Done /\ Len(evList) = Done
    BY DEF Base, Progress
  <2>2. ASSUME NEW v \in DOMAIN va
        PROVE  /\ va[v].dur \in Nat /\ va[v].last \in 1..Done
               /\ va[v].carriers \in Seq(DOMAIN oa)
    <3>1. va \in Seq(VoiceData) /\ v \in 1..Len(va)
      BY DEF Base, Voices, VoiceData
    <3>2. va[v] \in VoiceData
      BY <3>1, ElementIsIn
    <3>3. va[v].last \in 1..Done /\ va[v].carriers \in Seq(1..Count) /\ DOMAIN oa = 1..Count
      BY <3>1 DEF Base, Voices, Operators
    <3>4. QED
      BY <3>2, <3>3 DEF VoiceData
  <2>3. \A op \in DOMAIN opId : opId[op] \in DOMAIN oa
    BY DEF Base, Operators, IsNumbering
  <2>4. prg \notin {None, Rejected} => IsProgram(prg)
    BY ProgramIs
  <2>5. QED
    BY <2>1, <2>2, <2>3, <2>4 DEF ConvTypeOK
<1>2. ConvInit => Timed
  BY DEF ConvInit
<1>3. Base /\ Timed /\ [ConvNext]_convVars => Timed'
  <2> SUFFICES ASSUME Base, Timed, [ConvNext]_convVars PROVE Timed'
    OBVIOUS
  <2>1. CASE ConvertEvent
    <3>1. durMs' = durMs + Event.wait /\ Event.wait \in Nat
      BY <2>1, ConvertIs, EventTypes DEF Base
    <3>2. QED
      BY <3>1
  <2>2. CASE ~ConvertEvent
    BY <2>2, OtherSteps DEF SameState
  <2>3. QED
    BY <2>1, <2>2
<1> HIDE DEF Timed
<1>4. QED
  BY <1>1, <1>2, <1>3, AlwaysMade, PTL DEF ConvSpec

\* Voices enter the program in the order of their IDs, each with a graph, and
\* no ID is cut to 16 bits or taken for "no voice": what the interpreter's
\* voice loop counts on.
THEOREM VoicesCountedUp ==
  ConvSpec => []VoicesEnterInOrder
<1>1. Base /\ Made /\ Finished => VoicesEnterInOrder
  <2> SUFFICES ASSUME Base, Made, Finished, prg \notin {None, Rejected}
               PROVE  VoicesEnterInOrder
    BY DEF VoicesEnterInOrder
  <2>1. /\ IsProgram(prg) /\ prg.events = evList /\ DOMAIN prg.events = 1..Done
        /\ prg.vo_count = Len(va)
        /\ \A i \in 1..Done : evList[i].vo = evVoice[i] /\ evVoice[i] \in 1..Len(va)
    BY ProgramIs
  <2>2. Len(va) \in Nat /\ Len(va) <= VO_MAX_ID /\ Done \in Nat
    BY DEF Finished, Base, Voices, Progress
  <2>3. ASSUME NEW i \in 1..Done
        PROVE  LET before == {prg.events[j].vo : j \in 1..(i - 1)}
                   ev     == prg.events[i]
               IN  /\ ev.vo \in 1..prg.vo_count /\ ev.vo # VoiceNoId + 1
                   /\ ev.vo \notin before => /\ ev.vo = Cardinality(before) + 1
                                             /\ ev.carriers \notin {None, <<>>}
    <3> DEFINE before == {evList[j].vo : j \in 1..(i - 1)}
    <3>1. PICK m \in Nat : /\ {evVoice[j] : j \in 1..(i - 1)} = 1..m /\ evVoice[i] \in 1..(m + 1)
                           /\ evVoice[i] = m + 1 => NewOpGraph(script, i)
      BY DEF Base, VoicesInOrder, InOrderAt
    <3>2. before = 1..m
      BY <2>1, <2>2, <3>1
    <3>3. evList[i].vo \in 1..Len(va) /\ evList[i].vo # VoiceNoId + 1
      BY <2>1, <2>2, IdsNotCut
    <3>4. ASSUME evList[i].vo \notin before
          PROVE  /\ evList[i].vo = Cardinality(before) + 1
                 /\ evList[i].carriers \notin {None, <<>>}
      <4>1. evVoice[i] = m + 1
        BY <2>1, <3>1, <3>2, <3>4
      <4>2. Cardinality(1..m) = m
        <5>1. Cardinality(1..m) = IF 1 > m THEN 0 ELSE m - 1 + 1
          BY FS_Interval
        <5>2. QED
          BY <5>1
      <4>3. evList[i].carriers = <<opId[MainOp(script[i])]>>
        BY <3>1, <4>1 DEF Made, MadeAt
      <4>4. opId[MainOp(script[i])] \in Nat
        <5>1. i \in 1..Len(script) /\ i < next /\ WellFormed(script) /\ next \in Nat
          BY ScriptTypes DEF Base, Progress, Done
        <5>2. MainOp(script[i]) \in OpsOf(script[i])
          BY <5>1, ScriptTypes DEF MainOp
        <5>3. MainOp(script[i]) \in DOMAIN opId
          BY <5>1, <5>2 DEF Base, Operators, UsedBefore
        <5>4. QED
          BY <5>3 DEF Base, Operators, IsNumbering
      <4>5. <<opId[MainOp(script[i])]>> \in Seq(Nat) /\ <<opId[MainOp(script[i])]>> # <<>>
        BY <4>4
      <4>6. QED
        BY <2>1, <3>2, <4>1, <4>2, <4>3, <4>5, ConvAssumption
    <3>5. QED
      BY <2>1, <3>3, <3>4
  <2>4. QED
    BY <2>1, <2>3 DEF VoicesEnterInOrder
<1>2. QED
  BY <1>1, AlwaysMade, PTL

-----------------------------------------------------------------------------
(***************************************************************************)
(* Updates reach the voice their carrier plays in.                         *)
(***************************************************************************)

\* A carrier's updates have it for their root.
LEMMA UpdateHasRoot ==
  ASSUME NEW s, WellFormed(s), NEW i \in 1..Len(s), NEW c \in 1..(i - 1),
         NewOpGraph(s, c), MainOp(s[c]) = MainOp(s[i])
  PROVE  ~NewOpGraph(s, i) /\ RootEvent(s, i) = c
<1>1. Len(s) \in Nat /\ i \in Nat /\ c \in 1..Len(s)
  BY ScriptTypes
<1>2. MainOp(s[i]) \in OpsOf(s[c])
  BY <1>1, ScriptTypes DEF MainOp
<1>3. ~NewOpGraph(s, i)
  BY <1>2 DEF NewOpGraph, UsedBefore
<1> DEFINE r == RootEvent(s, i)
<1>4. r \in 1..(i - 1) /\ MainOp(s[i]) \in OpsOf(s[r]) /\ ~UsedBefore(s, r, MainOp(s[i]))
  BY <1>1, <1>3, RootIsFirstUse
<1>5. ~UsedBefore(s, c, MainOp(s[i]))
  BY DEF NewOpGraph
<1> HIDE DEF r
<1>6. ~(r < c)
  BY <1>1, <1>4, <1>5 DEF UsedBefore
<1>7. ~(c < r)
  BY <1>1, <1>2, <1>4 DEF UsedBefore
<1>8. r = c
  BY <1>1, <1>4, <1>6, <1>7
<1>9. QED
  BY <1>3, <1>8 DEF r

\* While a carrier is to be updated, its voice is for events about it only.
VoiceHeld ==
    \A c \in 1..Done : \A m \in next..Len(script) :
        NewOpGraph(script, c) /\ MainOp(script[m]) = MainOp(script[c]) =>
            \A j \in c..Done : evVoice[j] = evVoice[c] => MainOp(script[j]) = MainOp(script[c])

Reached == OnlyCarriersUpdated => VoiceHeld /\ UpdatesReachCarrier

LEMMA ReachedStep ==
  ASSUME Base, Reached, ConvertEvent
  PROVE  Reached'
<1>1. /\ next <= Len(script) /\ script' = script /\ next' = next + 1
      /\ Progress /\ Voices /\ WellFormed(script)
  BY ConvertIs DEF Base, Progress
<1>2. /\ Done' = next /\ evVoice'[next] = Voice
      /\ \A j \in 1..Done : evVoice'[j] = evVoice[j]
  BY ProgressStep
<1>3. next \in Nat \ {0} /\ Done = next - 1 /\ Len(script) \in Nat /\ next \in 1..Len(script)
  BY <1>1, EventTypes, ScriptTypes
<1>4. OnlyCarriersUpdated' = OnlyCarriersUpdated
  BY <1>1 DEF OnlyCarriersUpdated
<1>5. SUFFICES ASSUME OnlyCarriersUpdated, VoiceHeld, UpdatesReachCarrier
               PROVE  VoiceHeld' /\ UpdatesReachCarrier'
  BY <1>4 DEF Reached
<1>6. ASSUME ~NewOpGraph(script, next)
      PROVE  \E c \in 1..Done : /\ NewOpGraph(script, c) /\ Voice = evVoice[c]
                                /\ MainOp(script[c]) = MainOp(script[next])
  <2>1. PICK c \in 1..next : NewOpGraph(script, c) /\ MainOp(script[c]) = MainOp(script[next])
    BY <1>1, <1>3, <1>5, ScriptTypes DEF OnlyCarriersUpdated
  <2>2. c \in 1..(next - 1)
    BY <2>1, <1>3, <1>6
  <2>3. RootEvent(script, next) = c
    BY <2>1, <2>2, <1>1, <1>3, UpdateHasRoot
  <2>4. QED
    BY <2>1, <2>2, <2>3, <1>1, <1>3, <1>6, VoiceIs
<1>7. ASSUME NEW c \in 1..Done, NEW m \in (next + 1)..Len(script), NewOpGraph(script, c),
             MainOp(script[m]) = MainOp(script[c]), Voice = evVoice[c]
      PROVE  MainOp(script[next]) = MainOp(script[c])
  <2>1. CASE NewOpGraph(script, next)
    <3>1. Voice \in 1..Len(va) /\ ~LaterUsed(script, va[Voice].last)
      <4>1. Voice \in 1..Len(va) /\ Len(va) \in Nat
        BY <1>7, <1>1 DEF Base, VoicesInOrder, Voices
      <4>2. QED
        BY <4>1, <2>1, <1>1, VoiceIs
    <3> DEFINE last == va[Voice].last
    <3>2. /\ last \in 1..Done /\ evVoice[last] = Voice
          /\ \A j \in (last + 1)..Done : evVoice[j] # Voice
      BY <3>1, <1>1 DEF Voices
    <3> HIDE DEF last
    <3>3. last \in c..Done
      BY <3>2, <1>3, <1>7
    <3>4. MainOp(script[last]) = MainOp(script[c])
      <4>1. m \in next..Len(script)
        BY <1>3
      <4>2. QED
        BY <4>1, <3>2, <3>3, <1>5, <1>7 DEF VoiceHeld
    <3>5. m \in (last + 1)..Len(script) /\ last \in 1..Len(script) /\ m \in 1..Len(script)
      BY <3>2, <1>3
    <3>6. MainOp(script[m]) \in OpsOf(script[m]) /\ MainOp(script[m]) \in OpsOf(script[last])
      BY <3>4, <3>5, <1>1, <1>7, ScriptTypes DEF MainOp
    <3>7. LaterUsed(script, last)
      BY <3>5, <3>6 DEF LaterUsed
    <3>8. QED
      BY <3>1, <3>7 DEF last
  <2>2. CASE ~NewOpGraph(script, next)
    <3>1. PICK r \in 1..Done : /\ NewOpGraph(script, r) /\ Voice = evVoice[r]
                               /\ MainOp(script[r]) = MainOp(script[next])
      BY <1>6, <2>2
    <3>2. CASE r >= c
      <4>1. r \in c..Done /\ m \in next..Len(script) /\ evVoice[r] = evVoice[c]
        BY <3>1, <3>2, <1>3, <1>7
      <4>2. MainOp(script[r]) = MainOp(script[c])
        BY <4>1, <1>5, <1>7 DEF VoiceHeld
      <4>3. QED
        BY <3>1, <4>2
    <3>3. CASE r < c
      <4>1. c \in r..Done /\ next \in next..Len(script) /\ evVoice[c] = evVoice[r]
        BY <3>1, <3>3, <1>3, <1>7
      <4>2. MainOp(script[c]) = MainOp(script[r])
        BY <4>1, <3>1, <1>5 DEF VoiceHeld
      <4>3. QED
        BY <3>1, <4>2
    <3>4. QED
      BY <3>2, <3>3, <1>3
  <2>3. QED
    BY <2>1, <2>2
<1>8. VoiceHeld'
  <2>1. SUFFICES ASSUME NEW c \in 1..next, NEW m \in (next + 1)..Len(script),
                        NewOpGraph(script, c), MainOp(script[m]) = MainOp(script[c]),
                        NEW j \in c..next, evVoice'[j] = evVoice'[c]
                 PROVE  MainOp(script[j]) = MainOp(script[c])
    BY <1>1, <1>2 DEF VoiceHeld
  <2>2. CASE c = next
    BY <2>2
  <2>3. CASE c # next /\ j = next
    <3>1. c \in 1..Done /\ Voice = evVoice[c]
      BY <2>1, <2>3, <1>2, <1>3
    <3>2. QED
      BY <3>1, <2>1, <2>3, <1>7
  <2>4. CASE c # next /\ j # next
    <3>1. c \in 1..Done /\ j \in c..Done /\ evVoice[j] = evVoice[c] /\ m \in next..Len(script)
      BY <2>1, <2>4, <1>2, <1>3
    <3>2. QED
      BY <3>1, <2>1, <1>5 DEF VoiceHeld
  <2>5. QED
    BY <2>2, <2>3, <2>4
<1>9. UpdatesReachCarrier'
  <2>1. SUFFICES ASSUME NEW i \in 1..next, NEW j \in 1..(i - 1), NewOpGraph(script, j),
                        MainOp(script[j]) = MainOp(script[i])
                 PROVE  /\ evVoice'[i] = evVoice'[j]
                        /\ \A k \in (j + 1)..i :
                             NewOpGraph(script, k) => evVoice'[k] # evVoice'[j]
    BY <1>1, <1>2 DEF UpdatesReachCarrier
  <2>2. CASE i # next
    <3>1. i \in 1..Done /\ j \in 1..Done /\ \A k \in (j + 1)..i : k \in 1..Done
      BY <2>2, <1>3
    <3>2. /\ evVoice[i] = evVoice[j]
          /\ \A k \in (j + 1)..i : NewOpGraph(script, k) => evVoice[k] # evVoice[j]
      BY <3>1, <2>1, <1>5 DEF UpdatesReachCarrier
    <3>3. QED
      BY <3>1, <3>2, <1>2
  <2>3. CASE i = next
    <3>1. ~NewOpGraph(script, next) /\ RootEvent(script, next) = j /\ j \in 1..Done
      BY <2>1, <2>3, <1>1, <1>3, UpdateHasRoot
    <3>2. Voice = evVoice[j]
      BY <3>1, <1>1, VoiceIs
    <3>3. ASSUME NEW k \in (j + 1)..i, NewOpGraph(script, k), evVoice'[k] = evVoice'[j]
          PROVE  FALSE
      <4>1. k # next
        BY <3>1, <3>3
      <4>2. k \in j..Done /\ k \in 1..Len(script) /\ evVoice[k] = evVoice[j]
            /\ next \in next..Len(script) /\ j \in 1..(k - 1)
        BY <2>3, <3>1, <3>3, <4>1, <1>2, <1>3
      <4>3. MainOp(script[k]) = MainOp(script[j])
        BY <4>2, <2>1, <2>3, <3>1, <1>5 DEF VoiceHeld
      <4>4. QED
        BY <4>2, <4>3, <2>1, <3>3, <1>1, UpdateHasRoot
    <3>4. QED
      BY <2>3, <3>1, <3>2, <3>3, <1>2
  <2>4. QED
    BY <2>2, <2>3
<1>10. QED
  BY <1>8, <1>9

\* An event about an existing operator is given the voice its carrier plays
\* in, and no other carrier takes that voice before it, as long as only
\* carriers are updated: SAU_SDEV_LATER_USED keeps the voice.
THEOREM UpdatesReach ==
  ConvSpec => []UpdatesOfCarriersReachThem
<1>1. ConvInit => Reached
  BY DEF ConvInit, Reached, VoiceHeld, UpdatesReachCarrier, Done
<1>2. Base /\ Reached /\ [ConvNext]_convVars => Reached'
  <2> SUFFICES ASSUME Base, Reached, [ConvNext]_convVars PROVE Reached'
    OBVIOUS
  <2>1. CASE ConvertEvent
    BY <2>1, ReachedStep
  <2>2. CASE ~ConvertEvent
    <3>1. script' = script /\ next' = next /\ evVoice' = evVoice
      BY <2>2, OtherSteps DEF SameState
    <3>2. OnlyCarriersUpdated' = OnlyCarriersUpdated /\ Done' = Done
      BY <3>1 DEF OnlyCarriersUpdated, Done
    <3>3. VoiceHeld => VoiceHeld'
      BY <3>1, <3>2 DEF VoiceHeld
    <3>4. UpdatesReachCarrier => UpdatesReachCarrier'
      BY <3>1, <3>2 DEF UpdatesReachCarrier
    <3>5. QED
      BY <3>2, <3>3, <3>4 DEF Reached
  <2>3. QED
    BY <2>1, <2>2
<1>3. Reached => UpdatesOfCarriersReachThem
  BY DEF Reached, UpdatesOfCarriersReachThem
<1>4. QED
  BY <1>1, <1>2, <1>3, AlwaysBase, PTL DEF ConvSpec

-----------------------------------------------------------------------------
(***************************************************************************)
(* Graphs are up to date.                                                  *)
(***************************************************************************)

LEMMA MaxIs ==
  ASSUME NEW S \in SUBSET Int, NEW x \in S, \A y \in S : y <= x
  PROVE  Max(S) = x
<1>1. \A z \in S : (\A y \in S : z >= y) => z = x
  OBVIOUS
<1>2. QED
  BY <1>1 DEF Max

\* Event own is the last up to event i to give voice u a carrier.
LastOwn(s, given, u, own, i) ==
    /\ own \in 1..i /\ given[own] = u /\ NewOpGraph(s, own)
    /\ \A k \in (own + 1)..i : given[k] = u => ~NewOpGraph(s, k)

OwnCarriers ==
    \A u \in 1..Len(va) : \E own \in 1..Done :
        LastOwn(script, evVoice, u, own, Done) /\ va[u].carriers = <<opId[MainOp(script[own])]>>

GraphAt(i) ==
    evList[i].carriers # None =>
        \E own \in 1..i : /\ LastOwn(script, evVoice, evVoice[i], own, i)
                          /\ evList[i].carriers = <<opId[MainOp(script[own])]>>

Graphs == OwnCarriers /\ \A i \in 1..Done : GraphAt(i)

LEMMA GraphsStep ==
  ASSUME Base, Graphs, ConvertEvent
  PROVE  Graphs'
<1>1. /\ next <= Len(script) /\ script' = script /\ opId' = Ids
      /\ Progress /\ Operators /\ Voices /\ WellFormed(script)
  BY ConvertIs DEF Base, Progress
<1>2. /\ Done' = next /\ evVoice'[next] = Voice /\ evList'[next] = Out
      /\ \A j \in 1..Done : evVoice'[j] = evVoice[j] /\ evList'[j] = evList[j]
  BY ProgressStep
<1>3. next \in Nat \ {0} /\ Done = next - 1 /\ Len(va) \in Nat
  BY <1>1, EventTypes DEF Voices
<1>4. \A j \in 1..Done : opId'[MainOp(script[j])] = opId[MainOp(script[j])]
  <2>1. \A j \in 1..Done : j \in 1..Len(script)
    BY <1>1, <1>3
  <2>2. \A j \in 1..Done : MainOp(script[j]) \in OpsOf(script[j])
    BY <2>1, <1>1, ScriptTypes DEF MainOp
  <2>3. QED
    BY <2>2, IdsStay
<1>5. ASSUME NEW u, NEW own \in 1..Done, NEW i \in 1..Done, LastOwn(script, evVoice, u, own, i)
      PROVE  LastOwn(script, evVoice', u, own, i)
  <2>1. \A k \in (own + 1)..i : k \in 1..Done
    BY <1>3
  <2>2. QED
    BY <2>1, <1>1, <1>2, <1>5 DEF LastOwn
<1>6. ASSUME NEW u, NEW own \in 1..Done, LastOwn(script, evVoice, u, own, Done),
             Voice # u \/ ~NewOpGraph(script, next)
      PROVE  LastOwn(script, evVoice', u, own, Done')
  <2>1. \A k \in (own + 1)..next : k \in 1..Done \/ k = next
    BY <1>3
  <2>2. own \in 1..next
    BY <1>3
  <2>3. QED
    BY <2>1, <2>2, <1>1, <1>2, <1>3, <1>6 DEF LastOwn
<1>7. /\ Voice \in 1..(Len(va) + 1)
      /\ Len(va') = (IF Voice = Len(va) + 1 THEN Len(va) + 1 ELSE Len(va))
  BY VoicesAre
<1>8. ASSUME NEW u \in 1..Len(va')
      PROVE  \E own \in 1..Done' :
                LastOwn(script, evVoice', u, own, Done') /\ va'[u].carriers = <<opId'[MainOp(script[own])]>>
  <2>1. CASE u = Voice /\ NewOpGraph(script, next)
    <3>1. va'[u].carriers = <<opId'[MainOp(script[next])]>>
      BY <2>1, <1>1, VoicesAre DEF Event
    <3>2. LastOwn(script, evVoice', u, next, Done')
      BY <2>1, <1>1, <1>2, <1>3 DEF LastOwn
    <3>3. QED
      BY <3>1, <3>2, <1>2, <1>3
  <2>2. CASE u # Voice \/ ~NewOpGraph(script, next)
    <3>1. u \in 1..Len(va) /\ va'[u].carriers = va[u].carriers
      <4>1. CASE u # Voice
        <5>1. u \in 1..Len(va)
          BY <4>1, <1>3, <1>7
        <5>2. va'[u] = Aged[u] /\ Aged[u].carriers = va[u].carriers
          BY <4>1, <5>1, <1>1, VoicesAre, AgedIs
        <5>3. QED
          BY <5>1, <5>2
      <4>2. CASE ~NewOpGraph(script, next) /\ u = Voice
        BY <4>2, <1>1, VoicesAre, VoiceIs
      <4>3. QED
        BY <2>2, <4>1, <4>2
    <3>2. PICK own \in 1..Done :
             LastOwn(script, evVoice, u, own, Done) /\ va[u].carriers = <<opId[MainOp(script[own])]>>
      BY <3>1 DEF Graphs, OwnCarriers
    <3>3. LastOwn(script, evVoice', u, own, Done')
      BY <2>2, <3>2, <1>6
    <3>4. own \in 1..Done' /\ va'[u].carriers = <<opId'[MainOp(script[own])]>>
      BY <3>1, <3>2, <1>2, <1>3, <1>4
    <3>5. QED
      BY <3>3, <3>4
  <2>3. QED
    BY <2>1, <2>2
<1>9. OwnCarriers'
  BY <1>1, <1>8 DEF OwnCarriers
<1>10. ASSUME NEW i \in 1..Done'
       PROVE  GraphAt(i)'
  <2>1. CASE i = next
    <3>1. SUFFICES ASSUME evList'[i].carriers # None
                   PROVE  \E own \in 1..i : /\ LastOwn(script, evVoice', evVoice'[i], own, i)
                                            /\ evList'[i].carriers = <<opId'[MainOp(script[own])]>>
      BY <1>1 DEF GraphAt
    <3>2. evList'[i].carriers = Graph
      BY <3>1, <2>1, <1>2, OutType
    <3>3. Graph = va'[Voice].carriers
      BY VoicesAre
    <3>4. Voice \in 1..Len(va')
      BY <1>3, <1>7
    <3>5. PICK own \in 1..Done' :
             LastOwn(script, evVoice', Voice, own, Done') /\ va'[Voice].carriers = <<opId'[MainOp(script[own])]>>
      BY <3>4, <1>8
    <3>6. QED
      BY <2>1, <3>2, <3>3, <3>5, <1>2
  <2>2. CASE i # next
    <3>1. i \in 1..Done
      BY <2>2, <1>2, <1>3
    <3>2. GraphAt(i) /\ evList'[i] = evList[i] /\ evVoice'[i] = evVoice[i]
      BY <3>1, <1>2 DEF Graphs
    <3>3. SUFFICES ASSUME evList[i].carriers # None
                   PROVE  \E own \in 1..i : /\ LastOwn(script, evVoice', evVoice[i], own, i)
                                            /\ evList[i].carriers = <<opId'[MainOp(script[own])]>>
      BY <3>2, <1>1 DEF GraphAt
    <3>4. PICK own \in 1..i : /\ LastOwn(script, evVoice, evVoice[i], own, i)
                              /\ evList[i].carriers = <<opId[MainOp(script[own])]>>
      BY <3>2, <3>3 DEF GraphAt
    <3>5. own \in 1..Done
      BY <3>1, <1>3
    <3>6. LastOwn(script, evVoice', evVoice[i], own, i)
      BY <3>1, <3>4, <3>5, <1>5
    <3>7. QED
      BY <3>4, <3>5, <3>6, <1>4
  <2>3. QED
    BY <2>1, <2>2
<1>11. QED
  BY <1>9, <1>10 DEF Graphs

\* The data of an operator in an event is the k-th of the event's.
Gives(list, j, k, id) == k \in DOMAIN list[j].ops /\ list[j].ops[k].id = id

Holds(list, j, id) == \E k : Gives(list, j, k, id)

\* Each operator's list is the one that was last put in an event.
LastLists ==
    \A id \in 1..Count : \E j \in 1..Done : \E k :
        /\ Gives(evList, j, k, id) /\ evList[j].ops[k].mods = oa[id]
        /\ \A n \in (j + 1)..Done : ~Holds(evList, n, id)

ListsAt(list, i) ==
    \A j \in 1..(i - 1) : \A k, m, id :
        (/\ Gives(list, i, k, id) /\ Gives(list, j, m, id)
         /\ \A n \in (j + 1)..(i - 1) : ~Holds(list, n, id)
         /\ list[j].ops[m].mods # list[i].ops[k].mods) => list[i].carriers # None

Lists == LastLists /\ \A i \in 1..Done : ListsAt(evList, i)

\* No two nodes of an event are for one ID.
LEMMA OneGives ==
  ASSUME Base, Made, NEW j \in 1..Done, NEW k, NEW m, NEW id,
         Gives(evList, j, k, id), Gives(evList, j, m, id)
  PROVE  k = m /\ id \in 1..Count
<1>1. /\ j \in 1..Len(script) /\ WellFormed(script) /\ j < next /\ next \in Nat
  BY ScriptTypes DEF Base, Progress, Done
<1>2. MadeAt(j)
  BY DEF Made
<1>3. /\ k \in 1..Len(script[j].ops) /\ m \in 1..Len(script[j].ops)
      /\ opId[script[j].ops[k].op] = id /\ opId[script[j].ops[m].op] = id
  BY <1>2 DEF MadeAt, Gives
<1>4. script[j].ops[k].op \in OpsOf(script[j]) /\ script[j].ops[m].op \in OpsOf(script[j])
  BY <1>1, <1>3, ScriptTypes
<1>5. script[j].ops[k].op \in DOMAIN opId /\ script[j].ops[m].op \in DOMAIN opId
  BY <1>1, <1>4 DEF Base, Operators, UsedBefore
<1>6. script[j].ops[k].op = script[j].ops[m].op /\ id \in 1..Count
  BY SMTT(30), <1>3, <1>5 DEF Base, Operators, IsNumbering
<1>7. QED
  BY <1>1, <1>3, <1>6, EventShape

LEMMA ListsStep ==
  ASSUME Base, Made, Lists, ConvertEvent
  PROVE  Lists'
<1>1. /\ next <= Len(script) /\ script' = script /\ opId' = Ids /\ oa' = Mods
      /\ Progress /\ Operators /\ WellFormed(script) /\ Made' /\ Base'
  BY ConvertIs, MadeStep, BaseStep DEF Base, Progress
<1>2. /\ Done' = next /\ evList'[next] = Out
      /\ \A j \in 1..Done : evList'[j] = evList[j]
  BY ProgressStep
<1>3. /\ next \in Nat \ {0} /\ Done = next - 1
      /\ \A k \in 1..Len(Event.ops) : Event.ops[k].op \in OpsOf(Event)
      /\ DOMAIN Event.ops = 1..Len(Event.ops)
  BY <1>1, EventTypes
<1>4. \A j \in 1..Done : \A k, id : Gives(evList', j, k, id) <=> Gives(evList, j, k, id)
  BY <1>2 DEF Gives
<1>5. \A k, id : Gives(evList', next, k, id) <=>
                   k \in 1..Len(Event.ops) /\ Ids[Event.ops[k].op] = id
  BY <1>2, OutType DEF Gives
<1>6. \A k \in 1..Len(Event.ops) : evList'[next].ops[k].mods = Mods[Ids[Event.ops[k].op]]
  BY <1>2, OutType
<1>7. \A id \in 1..Count :
        (\A k \in 1..Len(Event.ops) : Ids[Event.ops[k].op] = id => Event.ops[k].mods = None)
          => oa'[id] = oa[id]
  BY <1>1, OperatorsStep
<1>8. ASSUME NEW id \in 1..Count', ~Holds(evList', next, id)
      PROVE  id \in 1..Count /\ oa'[id] = oa[id]
  <2>1. \A k \in 1..Len(Event.ops) : Ids[Event.ops[k].op] # id
    BY <1>5, <1>8 DEF Holds
  <2>2. PICK op \in DOMAIN opId' : opId'[op] = id
    BY <1>1 DEF Base, Operators, IsNumbering
  <2>3. op \notin OpsOf(Event)
    BY <2>1, <2>2, <1>1, <1>3 DEF OpsOf
  <2>4. op \in DOMAIN opId /\ opId'[op] = opId[op]
    BY <2>2, <2>3, <1>1, OperatorsStep
  <2>5. id \in 1..Count
    BY <2>2, <2>4, <1>1 DEF Operators, IsNumbering
  <2>6. QED
    BY <2>1, <2>5, <1>7
<1>9. LastLists'
  <2>1. SUFFICES ASSUME NEW id \in 1..Count'
                 PROVE  \E j \in 1..next : \E k :
                          /\ Gives(evList', j, k, id) /\ evList'[j].ops[k].mods = oa'[id]
                          /\ \A n \in (j + 1)..next : ~Holds(evList', n, id)
    BY <1>2 DEF LastLists
  <2>2. CASE Holds(evList', next, id)
    <3>1. PICK k : Gives(evList', next, k, id)
      BY <2>2 DEF Holds
    <3>2. evList'[next].ops[k].mods = oa'[id]
      BY <3>1, <1>1, <1>5, <1>6
    <3>3. QED
      BY <3>1, <3>2, <1>3
  <2>3. CASE ~Holds(evList', next, id)
    <3>1. id \in 1..Count /\ oa'[id] = oa[id]
      BY <2>3, <1>8
    <3>2. PICK j, k :
            /\ j \in 1..Done /\ Gives(evList, j, k, id)
            /\ evList[j].ops[k].mods = oa[id]
            /\ \A n \in (j + 1)..Done : ~Holds(evList, n, id)
      BY <3>1 DEF Lists, LastLists
    <3>3. Gives(evList', j, k, id) /\ evList'[j].ops[k].mods = oa'[id] /\ j \in 1..next
      BY <3>1, <3>2, <1>2, <1>3, <1>4
    <3>4. \A n \in (j + 1)..next : ~Holds(evList', n, id)
      <4>1. \A n \in (j + 1)..next : n \in (j + 1)..Done \/ n = next
        BY <1>3
      <4>2. \A n \in (j + 1)..Done : ~Holds(evList', n, id)
        BY <3>2, <1>3, <1>4 DEF Holds
      <4>3. QED
        BY <4>1, <4>2, <2>3
    <3>5. QED
      BY <3>3, <3>4
  <2>4. QED
    BY <2>2, <2>3
<1>10. ListsAt(evList', next)
  <2>1. SUFFICES ASSUME NEW j \in 1..(next - 1), NEW k, NEW m, NEW id,
                        Gives(evList', next, k, id), Gives(evList', j, m, id),
                        \A n \in (j + 1)..(next - 1) : ~Holds(evList', n, id),
                        evList'[next].carriers = None
                 PROVE  evList'[j].ops[m].mods = evList'[next].ops[k].mods
    BY DEF ListsAt
  <2>2. j \in 1..Done /\ Gives(evList, j, m, id)
    BY <2>1, <1>3, <1>4
  <2>3. id \in 1..Count
    BY <2>2, OneGives
  <2>4. oa'[id] = oa[id]
    <3>1. ~ChangesGraph(script, next)
      BY <2>1, <1>1, <1>2, <1>3 DEF Made, MadeAt
    <3>2. \A n \in 1..Len(Event.ops) : Event.ops[n].mods = None
      BY <3>1, <1>3 DEF ChangesGraph, Event
    <3>3. QED
      BY <2>3, <3>2, <1>7
  <2>5. PICK j2, k2 :
          /\ j2 \in 1..Done /\ Gives(evList, j2, k2, id)
          /\ evList[j2].ops[k2].mods = oa[id]
          /\ \A n \in (j2 + 1)..Done : ~Holds(evList, n, id)
    BY <2>3 DEF Lists, LastLists
  <2>6. j2 = j
    <3>1. ~(j2 < j)
      BY <2>2, <2>5 DEF Holds
    <3>2. ~(j < j2)
      BY <2>1, <2>5, <1>3, <1>4 DEF Holds
    <3>3. QED
      BY <3>1, <3>2, <2>2, <2>5
  <2>7. k2 = m
    BY <2>2, <2>5, <2>6, OneGives
  <2>8. evList'[next].ops[k].mods = oa'[id]
    BY <2>1, <1>1, <1>5, <1>6
  <2>9. QED
    BY <2>2, <2>4, <2>5, <2>6, <2>7, <2>8, <1>2
<1>11. ASSUME NEW i \in 1..Done, ListsAt(evList, i)
       PROVE  ListsAt(evList', i)
  <2>1. evList'[i] = evList[i] /\ \A j \in 1..(i - 1) : j \in 1..Done /\ evList'[j] = evList[j]
    BY <1>2, <1>3
  <2>2. SUFFICES ASSUME NEW j \in 1..(i - 1), NEW k, NEW m, NEW id,
                        Gives(evList', i, k, id), Gives(evList', j, m, id),
                        \A n \in (j + 1)..(i - 1) : ~Holds(evList', n, id),
                        evList'[j].ops[m].mods # evList'[i].ops[k].mods
                 PROVE  evList'[i].carriers # None
    BY DEF ListsAt
  <2>3. /\ Gives(evList, i, k, id) /\ Gives(evList, j, m, id)
        /\ \A n \in (j + 1)..(i - 1) : ~Holds(evList, n, id)
    BY <2>1, <2>2, <1>4 DEF Holds
  <2>4. QED
    BY <2>1, <2>2, <2>3, <1>11 DEF ListsAt
<1>12. \A i \in 1..Done' : ListsAt(evList', i)
  <2>1. \A i \in 1..Done' : i \in 1..Done \/ i = next
    BY <1>2, <1>3
  <2>2. QED
    BY <2>1, <1>10, <1>11 DEF Lists
<1>13. QED
  BY <1>9, <1>12 DEF Lists

\* The graph last given to a voice starts from the carrier last given the
\* voice, and an event that changes a modulator list comes with a graph.
THEOREM GraphsStayUpToDate ==
  ConvSpec => []GraphsUpToDate
<1>1. ConvInit => Graphs /\ Lists
  <2> SUFFICES ASSUME ConvInit PROVE Graphs /\ Lists
    OBVIOUS
  <2>1. Done = 0 /\ va = <<>> /\ Count = 0
    <3>1. Done = 0 /\ va = <<>> /\ DOMAIN oa = {}
      BY DEF ConvInit, Done
    <3>2. QED
      BY <3>1, FS_EmptySet DEF Count
  <2>2. QED
    BY <2>1 DEF Graphs, OwnCarriers, Lists, LastLists
<1>2. Base /\ Made /\ Graphs /\ Lists /\ [ConvNext]_convVars => Graphs' /\ Lists'
  <2> SUFFICES ASSUME Base, Made, Graphs, Lists, [ConvNext]_convVars PROVE Graphs' /\ Lists'
    OBVIOUS
  <2>1. CASE ConvertEvent
    BY <2>1, GraphsStep, ListsStep
  <2>2. CASE ~ConvertEvent
    <3>1. /\ script' = script /\ next' = next /\ va' = va /\ oa' = oa /\ opId' = opId
          /\ evVoice' = evVoice /\ evList' = evList
      BY <2>2, OtherSteps DEF SameState
    <3>2. Done' = Done /\ Count' = Count
      BY <3>1 DEF Done, Count
    <3>3. Graphs'
      BY <3>1, <3>2 DEF Graphs, OwnCarriers, GraphAt
    <3>4. Lists'
      BY <3>1, <3>2 DEF Lists, LastLists
    <3>5. QED
      BY <3>3, <3>4
  <2>3. QED
    BY <2>1, <2>2
<1>3. Base /\ Made /\ Graphs /\ Lists => GraphsUpToDate
  <2> SUFFICES ASSUME Base, Made, Graphs, Lists, NEW i \in 1..Done
               PROVE  GraphStartsFromCarrier(i) /\ ListChangesComeWithGraph(i)
    BY DEF GraphsUpToDate
  <2>0. Done \in Nat
    BY DEF Base, Progress
  <2>1. GraphStartsFromCarrier(i)
    <3> DEFINE owns == {j \in 1..i : evVoice[j] = evVoice[i] /\ NewOpGraph(script, j)}
    <3>1. SUFFICES ASSUME evList[i].carriers # None
                   PROVE  evList[i].carriers = <<opId[MainOp(script[Max(owns)])]>>
      BY DEF GraphStartsFromCarrier
    <3>2. PICK own \in 1..i : /\ LastOwn(script, evVoice, evVoice[i], own, i)
                              /\ evList[i].carriers = <<opId[MainOp(script[own])]>>
      BY <3>1 DEF Graphs, GraphAt
    <3>3. own \in owns /\ owns \in SUBSET Int /\ \A y \in owns : y <= own
      BY <3>2, <2>0 DEF LastOwn
    <3> HIDE DEF owns
    <3>4. Max(owns) = own
      BY <3>3, MaxIs
    <3>5. QED
      BY <3>2, <3>4
  <2>2. ListChangesComeWithGraph(i)
    <3>1. SUFFICES ASSUME NEW k \in DOMAIN evList[i].ops
                   PROVE  LET id   == evList[i].ops[k].id
                              past == {j \in 1..(i - 1) :
                                         \E m \in DOMAIN evList[j].ops : evList[j].ops[m].id = id}
                              mods(j) == evList[j].ops[CHOOSE m \in DOMAIN evList[j].ops :
                                                         evList[j].ops[m].id = id].mods
                          IN  past # {} /\ mods(Max(past)) # mods(i) => evList[i].carriers # None
      BY DEF ListChangesComeWithGraph
    <3> DEFINE id == evList[i].ops[k].id
               past == {j \in 1..(i - 1) :
                          \E m \in DOMAIN evList[j].ops : evList[j].ops[m].id = id}
               mods(j) == evList[j].ops[CHOOSE m \in DOMAIN evList[j].ops :
                                          evList[j].ops[m].id = id].mods
    <3>2. SUFFICES ASSUME past # {}, mods(Max(past)) # mods(i)
                   PROVE  evList[i].carriers # None
      OBVIOUS
    <3>3. \A j : j \in past <=> j \in 1..(i - 1) /\ Holds(evList, j, id)
      BY DEF Holds, Gives
    <3>4. \A j \in 1..Done : \A m : Gives(evList, j, m, id) => mods(j) = evList[j].ops[m].mods
      <4>1. SUFFICES ASSUME NEW j \in 1..Done, NEW m, Gives(evList, j, m, id)
                     PROVE  (CHOOSE n \in DOMAIN evList[j].ops : evList[j].ops[n].id = id) = m
        OBVIOUS
      <4>2. \A n \in DOMAIN evList[j].ops : evList[j].ops[n].id = id => n = m
        BY <4>1, OneGives DEF Gives
      <4>3. m \in DOMAIN evList[j].ops /\ evList[j].ops[m].id = id
        BY <4>1 DEF Gives
      <4>4. QED
        BY <4>2, <4>3
    <3>5. Gives(evList, i, k, id)
      BY <3>1 DEF Gives
    <3> HIDE DEF past, mods, id
    <3>6. PICK j \in past : \A n \in past : n <= j
      <4>1. past \in SUBSET (0..Done)
        BY <3>3, <2>0
      <4>2. QED
        BY <4>1, <3>2, <2>0, GreatestNatural
    <3>7. Max(past) = j
      <4>1. past \in SUBSET Int
        BY <3>3, <2>0
      <4>2. QED
        BY <4>1, <3>6, MaxIs
    <3>8. PICK m : Gives(evList, j, m, id)
      BY <3>3, <3>6 DEF Holds
    <3>9. j \in 1..(i - 1) /\ j \in 1..Done
      BY <3>3, <3>6, <2>0
    <3>10. \A n \in (j + 1)..(i - 1) : ~Holds(evList, n, id)
      BY <3>3, <3>6, <3>9
    <3>11. evList[j].ops[m].mods # evList[i].ops[k].mods
      BY <3>2, <3>4, <3>5, <3>7, <3>8, <3>9
    <3>12. QED
      BY <3>5, <3>8, <3>9, <3>10, <3>11 DEF Lists, ListsAt
  <2>3. QED
    BY <2>1, <2>2
<1>4. QED
  BY <1>1, <1>2, <1>3, AlwaysMade, PTL DEF ConvSpec

-----------------------------------------------------------------------------
(***************************************************************************)
(* Time.                                                                   *)
(***************************************************************************)

TimeOf(s, i) ==
    LET at[j \in 0..Len(s)] == IF j = 0 THEN 0 ELSE at[j - 1] + s[j].wait
    IN  at[i]

LEMMA TimeOfIs ==
  ASSUME NEW s, WellFormed(s)
  PROVE  /\ TimeOf(s, 0) = 0
         /\ \A i \in 1..Len(s) : TimeOf(s, i) = TimeOf(s, i - 1) + s[i].wait
         /\ \A i \in 0..Len(s) : TimeOf(s, i) \in Nat
<1> DEFINE n == Len(s)
           w == [k \in 1..n |-> s[k].wait]
           step(f) == [j \in 0..n |-> IF j = 0 THEN 0 ELSE f[j - 1] + s[j].wait]
           at == CHOOSE f : f = step(f)
<1>1. n \in Nat /\ \A k \in 1..n : s[k].wait \in Nat
  BY ScriptTypes
<1>2. PICK g \in [0..n -> Nat] : g[0] = 0 /\ \A k \in 1..n : g[k] = g[k - 1] + w[k]
  <2>1. \A k \in 1..n : w[k] \in Nat
    BY <1>1
  <2> HIDE DEF n, w
  <2>2. QED
    BY <1>1, <2>1, SumsExist
<1>3. g = step(g)
  <2>1. \A j \in 0..n : g[j] = step(g)[j]
    BY <1>1, <1>2
  <2>2. QED
    BY <2>1
<1>4. at = step(at)
  <2> HIDE DEF step
  <2>1. QED
    BY <1>3
<1> HIDE DEF at
<1>5. \A i \in 0..n : TimeOf(s, i) = at[i]
  BY DEF TimeOf, at
<1>6. at[0] = 0 /\ \A i \in 1..n : at[i] = at[i - 1] + s[i].wait
  BY <1>1, <1>4
<1>7. \A i \in 0..n : at[i] = g[i]
  <2> DEFINE bad == {i \in 0..n : at[i] # g[i]}
  <2>1. SUFFICES ASSUME bad # {} PROVE FALSE
    OBVIOUS
  <2>2. PICK i \in bad : \A k \in bad : i <= k
    <3>1. bad \in SUBSET Nat
      BY <1>1
    <3> HIDE DEF bad
    <3>2. QED
      BY <2>1, <3>1, LeastNatural
  <2>3. i # 0
    BY <1>2, <1>6
  <2>4. i \in 1..n /\ i - 1 \in 0..n /\ i - 1 \notin bad
    BY <1>1, <2>2, <2>3
  <2>5. at[i] = g[i]
    BY <1>2, <1>6, <2>4
  <2>6. QED
    BY <2>2, <2>5
<1>8. \A i \in 1..n : i - 1 \in 0..n /\ i \in 0..n
  BY <1>1
<1>9. 0 \in 0..n
  BY <1>1
<1>10. \A i \in 0..n : at[i] \in Nat
  BY <1>2, <1>7
<1> HIDE DEF n
<1>11. \A i \in 1..n : TimeOf(s, i) = TimeOf(s, i - 1) + s[i].wait
  BY <1>5, <1>6, <1>8
<1>12. \A i \in 0..n : TimeOf(s, i) \in Nat
  BY <1>5, <1>10
<1>13. TimeOf(s, 0) = 0
  BY <1>5, <1>6, <1>9
<1>14. QED
  BY <1>11, <1>12, <1>13 DEF n

LEMMA AtIs ==
  ASSUME NEW i
  PROVE  At(i) = TimeOf(script, i)
BY DEF At, TimeOf

\* When the carrier of event j falls silent if its time is not set again.
End(s, j) == TimeOf(s, j) + s[j].ops[1].time

\* The voices count down to when the last carrier given to them ends.
Times ==
    /\ durMs = TimeOf(script, Done)
    /\ \A j \in 1..Done : TimeOf(script, j) <= durMs
    /\ \A j \in 1..Done :
         NewOpGraph(script, j) => End(script, j) <= durMs + va[evVoice[j]].dur
    /\ \A u \in 1..Len(va) :
         \/ va[u].dur = 0
         \/ \E j \in 1..Done : /\ NewOpGraph(script, j) /\ evVoice[j] = u
                               /\ End(script, j) = durMs + va[u].dur

LEMMA AgingCountsDown ==
  ASSUME NEW d \in Nat, NEW a \in Nat, NEW w \in Nat, NEW t \in Nat,
         d < w => a = 0, d >= w => a = d - w
  PROVE  t + d <= t + w + a /\ (a # 0 => d # 0 /\ t + d = t + w + a)
OBVIOUS

LEMMA TimeGoesOn ==
  ASSUME Base, Times, ConvertEvent
  PROVE  /\ durMs' = TimeOf(script, next) /\ durMs \in Nat /\ durMs' \in Nat /\ durMs <= durMs'
         /\ \A j \in 1..next : TimeOf(script, j) \in Nat
         /\ \A j \in 1..next : NewOpGraph(script, j) => End(script, j) \in Nat
         /\ \A j \in 1..Done : NewOpGraph(script, j) =>
              /\ evVoice[j] \in 1..Len(va)
              /\ End(script, j) <= durMs' + Aged[evVoice[j]].dur
         /\ \A u \in 1..Len(va) :
              /\ Aged[u].dur \in Nat
              /\ Aged[u].dur # 0 =>
                   \E j \in 1..Done : /\ NewOpGraph(script, j) /\ evVoice[j] = u
                                      /\ End(script, j) = durMs' + Aged[u].dur
<1>1. /\ next <= Len(script) /\ durMs' = durMs + Event.wait
      /\ Progress /\ Voices /\ WellFormed(script)
  BY ConvertIs DEF Base, Progress
<1>2. /\ next \in 1..Len(script) /\ next \in Nat \ {0} /\ Done = next - 1 /\ Event.wait \in Nat
      /\ Len(script) \in Nat
  BY <1>1, EventTypes, ScriptTypes
<1>3. /\ TimeOf(script, next) = TimeOf(script, next - 1) + Event.wait
      /\ \A j \in 0..next : TimeOf(script, j) \in Nat
  BY <1>1, <1>2, TimeOfIs DEF Event
<1>4. durMs = TimeOf(script, next - 1)
  BY <1>2 DEF Times
<1>5. durMs' = TimeOf(script, next) /\ durMs \in Nat /\ durMs' \in Nat /\ durMs <= durMs'
  BY <1>1, <1>2, <1>3, <1>4
<1>6. \A j \in 1..next : NewOpGraph(script, j) => End(script, j) \in Nat
  <2>1. \A j \in 1..next : j \in 1..Len(script) /\ TimeOf(script, j) \in Nat
    BY <1>2, <1>3
  <2>2. QED
    BY <2>1, <1>1, EventShape DEF End
<1>7. \A u \in 1..Len(va) :
        /\ va[u].dur \in Nat /\ Aged[u].dur \in Nat
        /\ va[u].dur < Event.wait => Aged[u].dur = 0
        /\ va[u].dur >= Event.wait => Aged[u].dur = va[u].dur - Event.wait
  <2>1. va \in Seq(VoiceData)
    BY <1>1 DEF Voices, VoiceData
  <2>2. \A u \in 1..Len(va) : va[u].dur \in Nat
    <3>1. \A u \in 1..Len(va) : va[u] \in VoiceData
      BY <2>1, ElementIsIn
    <3>2. QED
      BY <3>1 DEF VoiceData
  <2>3. \A u \in 1..Len(va) : Aged[u].dur \in Nat
    <3>1. \A u \in 1..Len(va) : Aged[u] \in VoiceData
      BY <1>1, AgedIs, ElementIsIn
    <3>2. QED
      BY <3>1 DEF VoiceData
  <2>4. QED
    BY <2>2, <2>3, <1>1, AgedIs
<1>8. ASSUME NEW j \in 1..Done, NewOpGraph(script, j)
      PROVE  evVoice[j] \in 1..Len(va) /\ End(script, j) <= durMs' + Aged[evVoice[j]].dur
  <2>1. evVoice[j] \in 1..Len(va)
    BY DEF Base, VoicesInOrder
  <2>2. PICK u \in 1..Len(va) : u = evVoice[j]
    BY <2>1
  <2>3. End(script, j) <= durMs + va[u].dur /\ End(script, j) \in Nat
    BY <2>2, <1>2, <1>6, <1>8 DEF Times
  <2>4. durMs + va[u].dur <= durMs + Event.wait + Aged[u].dur
    BY <1>2, <1>5, <1>7, AgingCountsDown
  <2>5. End(script, j) <= durMs' + Aged[u].dur
    <3>1. PICK e \in Nat, x \in Nat, y \in Nat :
            /\ e = End(script, j) /\ x = durMs + va[u].dur
            /\ y = durMs + Event.wait + Aged[u].dur
      <4>1. PICK d \in Nat, a \in Nat, w \in Nat, t \in Nat :
              d = va[u].dur /\ a = Aged[u].dur /\ w = Event.wait /\ t = durMs
        BY <1>2, <1>5, <1>7
      <4>2. t + d \in Nat /\ t + w + a \in Nat
        OBVIOUS
      <4>3. QED
        BY <2>3, <4>1, <4>2
    <3>2. e <= x /\ x <= y
      BY <3>1, <2>3, <2>4
    <3>3. e <= y
      BY <3>2
    <3>4. QED
      BY <3>1, <3>3, <1>1
  <2>6. QED
    BY <2>1, <2>2, <2>5
<1>9. ASSUME NEW u \in 1..Len(va), Aged[u].dur # 0
      PROVE  \E j \in 1..Done : /\ NewOpGraph(script, j) /\ evVoice[j] = u
                                /\ End(script, j) = durMs' + Aged[u].dur
  <2>1. va[u].dur # 0 /\ durMs + va[u].dur = durMs + Event.wait + Aged[u].dur
    <3>1. PICK d \in Nat, a \in Nat, w \in Nat, t \in Nat :
            d = va[u].dur /\ a = Aged[u].dur /\ w = Event.wait /\ t = durMs
      BY <1>2, <1>5, <1>7
    <3>2. (d < w => a = 0) /\ (d >= w => a = d - w) /\ a # 0
      BY <3>1, <1>7, <1>9
    <3>3. d # 0 /\ t + d = t + w + a
      BY <3>2, AgingCountsDown
    <3>4. QED
      BY <3>1, <3>3
  <2>2. PICK j \in 1..Done : /\ NewOpGraph(script, j) /\ evVoice[j] = u
                             /\ End(script, j) = durMs + va[u].dur
    BY <2>1 DEF Times
  <2>3. End(script, j) = durMs' + Aged[u].dur
    BY <2>1, <2>2, <1>1
  <2>4. QED
    BY <2>2, <2>3
<1>10. QED
  BY <1>3, <1>5, <1>6, <1>7, <1>8, <1>9

LEMMA TimesStep ==
  ASSUME Base, Times, ConvertEvent
  PROVE  Times'
<1>1. /\ next <= Len(script) /\ script' = script /\ Progress /\ Voices
  BY ConvertIs DEF Base
<1>2. /\ next \in 1..Len(script) /\ next \in Nat \ {0} /\ Done = next - 1
      /\ NewOpGraph(script, next) => Event.ops[1].time \in Nat
  BY <1>1, EventTypes
<1>3. /\ Done' = next /\ evVoice'[next] = Voice
      /\ \A j \in 1..Done : evVoice'[j] = evVoice[j]
  BY ProgressStep
<1>4. /\ durMs' = TimeOf(script, next) /\ durMs \in Nat /\ durMs' \in Nat /\ durMs <= durMs'
      /\ \A j \in 1..next : TimeOf(script, j) \in Nat
      /\ \A j \in 1..next : NewOpGraph(script, j) => End(script, j) \in Nat
  BY TimeGoesOn
<1>5. \A j \in 1..next : j \in 1..Done \/ j = next
  BY <1>2
<1>6. \A j \in 1..next : TimeOf(script, j) <= durMs'
  <2>1. \A j \in 1..Done : TimeOf(script, j) <= durMs
    BY DEF Times
  <2>2. QED
    BY <2>1, <1>4, <1>5
<1>7. /\ Voice \in 1..(Len(va) + 1) /\ Len(va) \in Nat
      /\ Len(va') = (IF Voice = Len(va) + 1 THEN Len(va) + 1 ELSE Len(va))
      /\ \A u \in 1..Len(va) : u # Voice => va'[u] = Aged[u]
      /\ NewOpGraph(script, next) => va'[Voice].dur = Event.ops[1].time
      /\ ~NewOpGraph(script, next) => va'[Voice].dur = Aged[Voice].dur /\ Voice \in 1..Len(va)
  BY <1>1, VoicesAre, VoiceIs DEF Voices
<1>8. ASSUME NEW j \in 1..next, NewOpGraph(script, j)
      PROVE  End(script, j) <= durMs' + va'[evVoice'[j]].dur
  <2>1. CASE j = next
    <3>1. va'[evVoice'[j]].dur = Event.ops[1].time
      BY <2>1, <1>3, <1>7, <1>8
    <3>2. End(script, j) = durMs' + Event.ops[1].time
      BY <2>1, <1>4 DEF End, Event
    <3>3. QED
      BY <2>1, <3>1, <3>2, <1>4, <1>8
  <2>2. CASE j # next
    <3>1. j \in 1..Done /\ evVoice'[j] = evVoice[j]
      BY <2>2, <1>3, <1>5
    <3>2. PICK u \in 1..Len(va) : u = evVoice[j]
      BY <3>1, <1>8, TimeGoesOn
    <3>3. End(script, j) <= durMs' + Aged[u].dur /\ Aged[u].dur \in Nat /\ End(script, j) \in Nat
      BY <3>1, <3>2, <1>4, <1>8, TimeGoesOn
    <3>4. CASE u # Voice \/ ~NewOpGraph(script, next)
      <4>1. va'[u].dur = Aged[u].dur
        BY <3>4, <1>7
      <4>2. QED
        BY <3>1, <3>2, <3>3, <4>1
    <3>5. CASE u = Voice /\ NewOpGraph(script, next)
      <4>1. Aged[u].dur = 0
        BY <3>2, <3>5, <1>1, <1>7, VoiceIs
      <4>2. va'[u].dur \in Nat
        BY <3>5, <1>2, <1>7
      <4>3. QED
        BY <3>1, <3>2, <3>3, <4>1, <4>2, <1>4
    <3>6. QED
      BY <3>4, <3>5
  <2>3. QED
    BY <2>1, <2>2
<1>9. ASSUME NEW u \in 1..Len(va'), va'[u].dur # 0
      PROVE  \E j \in 1..next : /\ NewOpGraph(script, j) /\ evVoice'[j] = u
                                /\ End(script, j) = durMs' + va'[u].dur
  <2>1. CASE u = Voice /\ NewOpGraph(script, next)
    <3>1. End(script, next) = durMs' + va'[u].dur
      BY <2>1, <1>4, <1>7 DEF End, Event
    <3>2. QED
      BY <2>1, <3>1, <1>2, <1>3
  <2>2. CASE u # Voice \/ ~NewOpGraph(script, next)
    <3>1. u \in 1..Len(va) /\ va'[u].dur = Aged[u].dur
      BY <2>2, <1>7
    <3>2. PICK j \in 1..Done : /\ NewOpGraph(script, j) /\ evVoice[j] = u
                               /\ End(script, j) = durMs' + Aged[u].dur
      BY <3>1, <1>9, TimeGoesOn
    <3>3. QED
      BY <3>1, <3>2, <1>2, <1>3
  <2>3. QED
    BY <2>1, <2>2
<1>10. QED
  BY <1>1, <1>3, <1>4, <1>6, <1>8, <1>9 DEF Times

\* The carriers that sound at event i, their times not being set again.
Sounding(s, i) == {j \in 1..(i - 1) : NewOpGraph(s, j) /\ End(s, j) > TimeOf(s, i)}

\* A new carrier is given no voice in which one still sounds.
Apart ==
    \A i \in 1..Done : \A j \in Sounding(script, i) :
        NewOpGraph(script, i) => evVoice[j] # evVoice[i]

LEMMA ApartStep ==
  ASSUME Base, Times, Apart, ConvertEvent
  PROVE  Apart'
<1>1. /\ next <= Len(script) /\ script' = script /\ Voices
      /\ Done' = next /\ evVoice'[next] = Voice
      /\ \A j \in 1..Done : evVoice'[j] = evVoice[j]
  BY ConvertIs, ProgressStep DEF Base
<1>2. next \in Nat \ {0} /\ Done = next - 1 /\ Len(va) \in Nat
  BY <1>1, EventTypes DEF Base, Voices
<1>3. SUFFICES ASSUME NEW i \in 1..next, NEW j \in Sounding(script, i), NewOpGraph(script, i)
               PROVE  evVoice'[j] # evVoice'[i]
  BY <1>1 DEF Apart
<1>4. j \in 1..(i - 1) /\ NewOpGraph(script, j) /\ End(script, j) > TimeOf(script, i)
  BY DEF Sounding
<1>5. CASE i # next
  <2>1. i \in 1..Done /\ j \in 1..Done
    BY <1>2, <1>4, <1>5
  <2>2. QED
    BY <2>1, <1>1, <1>3 DEF Apart
<1>6. CASE i = next
  <2>1. SUFFICES ASSUME evVoice[j] = Voice PROVE FALSE
    BY <1>1, <1>2, <1>4, <1>6
  <2>2. j \in 1..Done
    BY <1>2, <1>4, <1>6
  <2>3. Voice \in 1..Len(va) /\ End(script, j) <= durMs' + Aged[Voice].dur
    BY <2>1, <2>2, <1>4, TimeGoesOn
  <2>4. Aged[Voice].dur = 0
    BY <2>3, <1>1, <1>2, <1>3, <1>6, VoiceIs
  <2>5. durMs' = TimeOf(script, i) /\ durMs' \in Nat /\ End(script, j) \in Nat
    <3>1. durMs' = TimeOf(script, next) /\ durMs' \in Nat
      BY TimeGoesOn
    <3>2. \A k \in 1..next : NewOpGraph(script, k) => End(script, k) \in Nat
      BY TimeGoesOn
    <3>3. j \in 1..next
      BY <2>2, <1>2
    <3>4. QED
      BY <3>1, <3>2, <3>3, <1>4, <1>6
  <2>6. QED
    BY <2>3, <2>4, <2>5, <1>4
<1>7. QED
  BY <1>5, <1>6

AllNew(s) == \A i \in 1..Len(s) : NewOpGraph(s, i)

\* As many voices as carriers sounded at one event, and the one it added.
Fitting ==
    AllNew(script) /\ Done > 0 =>
        \E i \in 1..Done : Len(va) = 1 + Cardinality(Sounding(script, i))

LEMMA NoneLaterUsed ==
  ASSUME NEW s, WellFormed(s), AllNew(s), NEW i \in 1..Len(s)
  PROVE  ~LaterUsed(s, i)
<1>1. SUFFICES ASSUME NEW j \in (i + 1)..Len(s), NEW op \in OpsOf(s[j]), op \in OpsOf(s[i])
               PROVE  FALSE
  BY DEF LaterUsed
<1>2. /\ j \in 1..Len(s) /\ i \in 1..(j - 1) /\ DOMAIN s[j].ops = 1..Len(s[j].ops)
      /\ Len(s[j].ops) \in Nat
  BY ScriptTypes
<1>3. UsedBefore(s, j, op)
  BY <1>1, <1>2 DEF UsedBefore
<1>4. PICK k \in 1..Len(s[j].ops) : op = s[j].ops[k].op
  BY <1>2 DEF OpsOf
<1>5. CASE k = 1
  BY <1>2, <1>3, <1>4, <1>5 DEF AllNew, NewOpGraph, MainOp
<1>6. CASE k # 1
  <2>1. k \in 2..Len(s[j].ops)
    BY <1>2, <1>6
  <2>2. QED
    BY <2>1, <1>2, <1>3, <1>4, EventShape
<1>7. QED
  BY <1>5, <1>6

LEMMA FittingStep ==
  ASSUME Base, Times, Apart, Fitting, ConvertEvent
  PROVE  Fitting'
<1>1. /\ next <= Len(script) /\ script' = script /\ Voices /\ WellFormed(script) /\ Done' = next
  BY ConvertIs, ProgressStep DEF Base, Progress
<1>2. next \in Nat \ {0} /\ next \in 1..Len(script) /\ Done = next - 1 /\ Len(va) \in Nat
  BY <1>1, EventTypes DEF Base, Voices
<1>3. SUFFICES ASSUME AllNew(script)
               PROVE  \E i \in 1..next : Len(va') = 1 + Cardinality(Sounding(script, i))
  BY <1>1 DEF Fitting
<1>4. /\ Voice \in 1..(Len(va) + 1) /\ NewOpGraph(script, next)
      /\ Len(va') = (IF Voice = Len(va) + 1 THEN Len(va) + 1 ELSE Len(va))
  BY <1>2, <1>3, VoicesAre DEF AllNew
<1>5. CASE Voice # Len(va) + 1
  <2>1. Len(va) > 0 /\ Len(va') = Len(va)
    BY <1>2, <1>4, <1>5
  <2>2. {evVoice[j] : j \in 1..Done} = 1..Len(va)
    BY DEF Base, VoicesInOrder
  <2>3. 1 \in 1..Len(va)
    BY <2>1, <1>2
  <2>4. Done > 0
    BY <2>2, <2>3, <1>2
  <2>5. PICK i \in 1..Done : Len(va) = 1 + Cardinality(Sounding(script, i))
    BY <2>4, <1>3 DEF Fitting
  <2>6. i \in 1..next
    BY <1>2
  <2>7. QED
    BY <2>1, <2>5, <2>6
<1>6. CASE Voice = Len(va) + 1
  <2> DEFINE S == Sounding(script, next)
             f == [j \in S |-> evVoice[j]]
  <2>1. \A j : j \in S <=> /\ j \in 1..Done /\ NewOpGraph(script, j)
                           /\ End(script, j) > durMs'
    BY <1>2, TimeGoesOn DEF Sounding
  <2> HIDE DEF S
  <2>2. \A j \in S : f[j] = evVoice[j] /\ f[j] \in 1..Len(va)
    BY <2>1, TimeGoesOn
  <2>3. DOMAIN f = S
    OBVIOUS
  <2>4. f \in [S -> 1..Len(va)]
    BY <2>2
  <2>5. ASSUME NEW a \in S, NEW b \in S, a < b
        PROVE  evVoice[a] # evVoice[b]
    <3>1. /\ a \in 1..Done /\ b \in 1..Done /\ NewOpGraph(script, a) /\ NewOpGraph(script, b)
          /\ End(script, a) > durMs'
      BY <2>1
    <3>2. TimeOf(script, b) <= durMs /\ TimeOf(script, b) \in Nat
      BY <3>1, <1>2, TimeGoesOn DEF Times
    <3>3. durMs <= durMs' /\ durMs \in Nat /\ durMs' \in Nat /\ End(script, a) \in Nat
      BY <3>1, <1>2, TimeGoesOn
    <3>4. a \in Sounding(script, b)
      BY <2>5, <3>1, <3>2, <3>3, <1>2 DEF Sounding
    <3>5. QED
      BY <3>1, <3>4 DEF Apart
  <2>6. ASSUME NEW a \in S, NEW b \in S, f[a] = f[b]
        PROVE  a = b
    <3>1. a \in Nat /\ b \in Nat /\ evVoice[a] = evVoice[b]
      BY <2>1, <2>2, <2>6, <1>2
    <3>2. ~(a < b) /\ ~(b < a)
      BY <2>5, <3>1
    <3>3. QED
      BY <3>1, <3>2
  <2>7. ASSUME NEW u \in 1..Len(va)
        PROVE  \E a \in S : f[a] = u
    <3>1. ~LaterUsed(script, va[u].last)
      <4>1. va[u].last \in 1..Len(script)
        <5>1. va[u].last \in 1..Done
          BY <1>1 DEF Voices
        <5>2. QED
          BY <5>1, <1>2, <1>1, ScriptTypes
      <4>2. QED
        BY <4>1, <1>1, <1>3, NoneLaterUsed
    <3>2. Aged[u].dur # 0
      BY <3>1, <1>1, <1>2, <1>4, <1>6, VoiceIs
    <3>3. PICK j \in 1..Done : /\ NewOpGraph(script, j) /\ evVoice[j] = u
                               /\ End(script, j) = durMs' + Aged[u].dur
      BY <3>2, TimeGoesOn
    <3>4. Aged[u].dur \in Nat /\ durMs' \in Nat
      BY TimeGoesOn
    <3>5. j \in S
      BY <2>1, <3>2, <3>3, <3>4
    <3>6. QED
      BY <3>3, <3>5
  <2> HIDE DEF f
  <2>8. IsNumbering(f, Len(va))
    BY <2>3, <2>4, <2>6, <2>7 DEF IsNumbering
  <2>9. Cardinality(S) = Len(va)
    BY <2>3, <2>8, <1>2, NumberingCounts
  <2>10. Len(va') = 1 + Cardinality(S)
    BY <2>9, <1>2, <1>4, <1>6
  <2>11. QED
    BY <2>10, <1>2 DEF S
<1>7. QED
  BY <1>5, <1>6

Timed == Times /\ Apart /\ Fitting

LEMMA AlwaysTimed ==
  ConvSpec => [](Base /\ Made /\ Finished /\ Timed)
<1>1. ConvInit => Timed
  <2> SUFFICES ASSUME ConvInit PROVE Timed
    OBVIOUS
  <2>1. Done = 0 /\ va = <<>> /\ durMs = 0 /\ WellFormed(script)
    BY ConvAssumption DEF ConvInit, Done
  <2>2. TimeOf(script, 0) = 0
    BY <2>1, TimeOfIs
  <2>3. QED
    BY <2>1, <2>2 DEF Timed, Times, Apart, Fitting
<1>2. Base /\ Timed /\ [ConvNext]_convVars => Timed'
  <2> SUFFICES ASSUME Base, Timed, [ConvNext]_convVars PROVE Timed'
    OBVIOUS
  <2>1. CASE ConvertEvent
    BY <2>1, TimesStep, ApartStep, FittingStep DEF Timed
  <2>2. CASE ~ConvertEvent
    <3>1. /\ script' = script /\ next' = next /\ va' = va /\ durMs' = durMs
          /\ evVoice' = evVoice
      BY <2>2, OtherSteps DEF SameState
    <3>2. Done' = Done
      BY <3>1 DEF Done
    <3>3. Times'
      BY <3>1, <3>2 DEF Timed, Times
    <3>4. Apart' /\ Fitting'
      BY <3>1, <3>2 DEF Timed, Apart, Fitting
    <3>5. QED
      BY <3>3, <3>4 DEF Timed
  <2>3. QED
    BY <2>1, <2>2
<1>3. QED
  BY <1>1, <1>2, AlwaysMade, PTL DEF ConvSpec

\* Without times set again, a carrier ends when the time written with it does.
LEMMA EndsAtIs ==
  ASSUME WellFormed(script), NeverRetimed, NEW i \in 1..(Len(script) + 1), NEW j \in 1..(i - 1),
         NewOpGraph(script, j)
  PROVE  EndsAt(j, i) = End(script, j)
<1> DEFINE timed == {k \in j..(i - 1) : /\ MainOp(script[k]) = MainOp(script[j])
                                        /\ script[k].ops[1].time # None}
<1>1. Len(script) \in Nat /\ DOMAIN script = 1..Len(script) /\ j \in 1..Len(script)
  BY ScriptTypes
<1>2. j \in timed
  BY <1>1, EventShape
<1>3. ASSUME NEW k \in timed, k # j
      PROVE  FALSE
  <2>1. k \in 1..Len(script) /\ j \in 1..(k - 1) /\ MainOp(script[j]) = MainOp(script[k])
    BY <1>1, <1>3
  <2>2. ~NewOpGraph(script, k)
    BY <2>1, UpdateHasRoot
  <2>3. script[k].ops[1].time = None
    BY <2>1, <2>2, <1>1 DEF NeverRetimed
  <2>4. QED
    BY <1>3, <2>3
<1>4. Max(timed) = j
  <2>1. timed \in SUBSET Int /\ \A y \in timed : y <= j
    BY <1>1, <1>3
  <2> HIDE DEF timed
  <2>2. QED
    BY <2>1, <1>2, MaxIs
<1>5. EndsAt(j, i) = At(Max(timed)) + script[Max(timed)].ops[1].time
  BY DEF EndsAt
<1>6. QED
  BY <1>4, <1>5, AtIs DEF End

\* A new carrier is never given the voice of one that still sounds, as long
\* as no event sets the time of an existing carrier: the durations that
\* SAU_VoAlloc_update() keeps are enough for that.
THEOREM ReuseIsSafe ==
  ConvSpec => []ReuseSafeUnlessRetimed
<1>1. Base /\ Timed => ReuseSafeUnlessRetimed
  <2> SUFFICES ASSUME Base, Timed, NeverRetimed, NEW i \in 1..Done, NEW j \in 1..(i - 1),
                      NewOpGraph(script, i), SoundsAt(j, i)
               PROVE  evVoice[j] # evVoice[i]
    BY DEF ReuseSafeUnlessRetimed, ReusesOnlyExpired
  <2>1. WellFormed(script) /\ Len(script) \in Nat /\ i \in 1..(Len(script) + 1)
    BY ScriptTypes DEF Base, Progress, Done
  <2>2. EndsAt(j, i) = End(script, j) /\ At(i) = TimeOf(script, i)
    BY <2>1, EndsAtIs, AtIs DEF SoundsAt
  <2>3. j \in Sounding(script, i)
    BY <2>2 DEF SoundsAt, Sounding
  <2>4. QED
    BY <2>3 DEF Timed, Apart
<1>2. QED
  BY <1>1, AlwaysTimed, PTL

\* With nothing used later, there are never more voices than carriers that
\* sound at one time: the first-fit reuse of SAU_VoAlloc_get_id() is as good
\* as it gets.
THEOREM VoicesAreReused ==
  ConvSpec => []AsManyVoicesAsSoundAtOnce
<1>1. Base /\ Timed => AsManyVoicesAsSoundAtOnce
  <2> SUFFICES ASSUME Base, Timed, Done > 0, \A i \in DOMAIN script : NewOpGraph(script, i)
               PROVE  \E i \in 1..Done :
                        Len(va) = 1 + Cardinality({j \in 1..(i - 1) : SoundsAt(j, i)})
    BY DEF AsManyVoicesAsSoundAtOnce
  <2>1. /\ WellFormed(script) /\ Len(script) \in Nat /\ DOMAIN script = 1..Len(script)
        /\ Done \in 0..Len(script)
    BY ScriptTypes DEF Base, Progress, Done
  <2>2. AllNew(script) /\ NeverRetimed
    BY <2>1 DEF AllNew, NeverRetimed
  <2>3. PICK i \in 1..Done : Len(va) = 1 + Cardinality(Sounding(script, i))
    BY <2>2 DEF Timed, Fitting
  <2>4. \A j \in 1..(i - 1) : SoundsAt(j, i) <=> j \in Sounding(script, i)
    <3>1. SUFFICES ASSUME NEW j \in 1..(i - 1), NewOpGraph(script, j)
                   PROVE  EndsAt(j, i) = End(script, j) /\ At(i) = TimeOf(script, i)
      BY DEF SoundsAt, Sounding
    <3>2. i \in 1..(Len(script) + 1)
      BY <2>1
    <3>3. QED
      BY <2>1, <2>2, <3>1, <3>2, EndsAtIs, AtIs
  <2>5. {j \in 1..(i - 1) : SoundsAt(j, i)} = Sounding(script, i)
    BY <2>4 DEF Sounding
  <2>6. QED
    BY <2>3, <2>5
<1>2. QED
  BY <1>1, AlwaysTimed, PTL

\* The duration of the program is the time its last carrier falls silent, or
\* that of its last event.
THEOREM DurationIsRight ==
  ConvSpec => []DurationIsLastEnd
<1>1. Base /\ Finished /\ Timed => DurationIsLastEnd
  <2> DEFINE ends == {EndsAt(j, Len(script) + 1) :
                        j \in {i \in DOMAIN script : NewOpGraph(script, i)}}
             durs == {0} \cup {va[v].dur : v \in DOMAIN va}
  <2> SUFFICES ASSUME Base, Finished, Timed, prg \notin {None, Rejected}, NeverRetimed
               PROVE  prg.duration = Max({At(Len(script))} \cup ends)
    BY DEF DurationIsLastEnd
  <2>1. /\ WellFormed(script) /\ Len(script) \in Nat /\ DOMAIN script = 1..Len(script)
        /\ Done = Len(script) /\ prg.duration = durMs + RemainingMs(va)
    BY ScriptTypes DEF Base, Progress, Finished, Done
  <2>2. durMs = At(Len(script)) /\ durMs \in Nat
    BY <2>1, AtIs, TimeOfIs DEF Timed, Times
  <2>3. va \in Seq(VoiceData) /\ Len(va) \in Nat /\ DOMAIN va = 1..Len(va)
    BY DEF Base, Voices, VoiceData
  <2>4. \A v \in 1..Len(va) : va[v].dur \in Nat
    <3>1. \A v \in 1..Len(va) : va[v] \in VoiceData
      BY <2>3, ElementIsIn
    <3>2. QED
      BY <3>1 DEF VoiceData
  <2>5. PICK r \in durs : \A v \in 1..Len(va) : va[v].dur <= r
    <3> DEFINE f == [v \in 1..Len(va) |-> va[v].dur]
    <3>1. \A v \in 1..Len(va) : f[v] \in Nat
      BY <2>4
    <3>2. \A v \in 1..Len(va) : f[v] = va[v].dur
      OBVIOUS
    <3> HIDE DEF f
    <3>3. PICK m \in Nat : /\ m = 0 \/ \E k \in 1..Len(va) : f[k] = m
                          /\ \A k \in 1..Len(va) : f[k] <= m
      BY <3>1, <2>3, GreatestOfMany
    <3>4. m \in durs
      BY <3>2, <3>3, <2>3
    <3>5. QED
      BY <3>2, <3>3, <3>4
  <2>6. r \in Nat /\ RemainingMs(va) = r
    <3>1. durs \in SUBSET Int /\ \A y \in durs : y <= r
      BY <2>3, <2>4, <2>5
    <3>2. r \in Nat
      BY <2>3, <2>4, <2>5
    <3> HIDE DEF durs
    <3>3. Max(durs) = r
      BY <3>1, <2>5, MaxIs
    <3>4. QED
      BY <3>2, <3>3 DEF RemainingMs, durs
  <2>7. \A j \in 1..Len(script) : NewOpGraph(script, j) =>
          EndsAt(j, Len(script) + 1) = End(script, j) /\ End(script, j) \in Nat
    <3>1. SUFFICES ASSUME NEW j \in 1..Len(script), NewOpGraph(script, j)
                   PROVE  EndsAt(j, Len(script) + 1) = End(script, j) /\ End(script, j) \in Nat
      OBVIOUS
    <3>2. PICK i \in 1..(Len(script) + 1) : i = Len(script) + 1 /\ j \in 1..(i - 1)
      BY <2>1
    <3>3. EndsAt(j, i) = End(script, j)
      BY <2>1, <3>1, <3>2, EndsAtIs
    <3>4. TimeOf(script, j) \in Nat /\ script[j].ops[1].time \in Nat
      BY <2>1, <3>1, TimeOfIs, EventShape
    <3>5. QED
      BY <3>2, <3>3, <3>4 DEF End
  <2>8. durMs + r \in {At(Len(script))} \cup ends
    <3>1. CASE r = 0
      BY <2>2, <3>1
    <3>2. CASE r # 0
      <4>1. PICK u \in 1..Len(va) : r = va[u].dur
        BY <2>3, <2>5, <3>2
      <4>2. PICK j \in 1..Done : NewOpGraph(script, j) /\ End(script, j) = durMs + va[u].dur
        BY <3>2, <4>1 DEF Timed, Times
      <4>3. EndsAt(j, Len(script) + 1) \in ends
        BY <2>1, <4>2
      <4>4. EndsAt(j, Len(script) + 1) = durMs + r
        BY <2>1, <2>7, <4>1, <4>2
      <4>5. QED
        BY <4>3, <4>4
    <3>3. QED
      BY <3>1, <3>2
  <2>9. \A y \in ends : y \in Int /\ y <= durMs + r
    <3>1. SUFFICES ASSUME NEW j \in 1..Len(script), NewOpGraph(script, j)
                   PROVE  /\ EndsAt(j, Len(script) + 1) \in Int
                          /\ EndsAt(j, Len(script) + 1) <= durMs + r
      BY <2>1
    <3>2. End(script, j) <= durMs + va[evVoice[j]].dur
      BY <2>1, <3>1 DEF Timed, Times
    <3>3. PICK u \in 1..Len(va) : u = evVoice[j]
      BY <2>1 DEF Base, VoicesInOrder
    <3>4. va[u].dur \in Nat /\ va[u].dur <= r
      BY <2>4, <2>5
    <3>5. End(script, j) \in Nat /\ EndsAt(j, Len(script) + 1) = End(script, j)
      BY <2>7, <3>1
    <3>6. QED
      BY SMTT(30), <2>2, <2>6, <3>2, <3>3, <3>4, <3>5
  <2>10. Max({At(Len(script))} \cup ends) = durMs + r
    <3>1. \A y \in {At(Len(script))} \cup ends : y \in Int /\ y <= durMs + r
      BY <2>2, <2>6, <2>9
    <3> HIDE DEF ends
    <3>2. QED
      BY <2>8, <3>1, MaxIs
  <2>11. QED
    BY <2>1, <2>6, <2>10
<1>2. QED
  BY <1>1, AlwaysTimed, PTL
================================================================================
