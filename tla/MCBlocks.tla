------------------------------ MODULE MCBlocks ------------------------------
(* Voices and events for checking Blocks. *)
EXTENDS Blocks

Mods(fm, pm, am) == [fm |-> fm, pm |-> pm, am |-> am]
NoMods == Mods(<<>>, <<>>, <<>>)
Playing(time, silence, ratio, mods) ==
  [time |-> time, silence |-> silence, ratio |-> ratio, mods |-> mods]

\* Every kind of modulator at once.
AllKinds ==
  [carriers |-> <<1>>,
   ops |-> << Playing(4, 0, FALSE, Mods(<<2>>, <<3>>, <<4>>)),
              Playing(Linked, 0, TRUE, NoMods),
              Playing(2, 0, TRUE, NoMods),
              Playing(4, 1, FALSE, NoMods) >>]

\* Lists of two, the first of which is late or short, and nested ones.
ListsOfTwo ==
  [carriers |-> <<1>>,
   ops |-> << Playing(4, 1, FALSE, Mods(<<>>, <<2, 3>>, <<>>)),
              Playing(2, 1, TRUE, Mods(<<>>, <<>>, <<4, 5>>)),
              Playing(Linked, 0, FALSE, NoMods),
              Playing(1, 0, TRUE, NoMods),
              Playing(Linked, 1, FALSE, NoMods) >>]

\* Carriers that sound at different times.
Carriers3 ==
  [carriers |-> <<1, 2, 3>>,
   ops |-> << Playing(1, 0, FALSE, NoMods),
              Playing(3, 2, FALSE, Mods(<<4>>, <<>>, <<>>)),
              Playing(4, 0, FALSE, NoMods),
              Playing(Linked, 0, TRUE, NoMods) >>]

\* As deep as it goes, with everything at each level.
Deep ==
  [carriers |-> <<1>>,
   ops |-> << Playing(3, 0, FALSE, Mods(<<2>>, <<5>>, <<>>)),
              Playing(Linked, 0, TRUE, Mods(<<3>>, <<>>, <<6>>)),
              Playing(Linked, 0, TRUE, Mods(<<>>, <<>>, <<4>>)),
              Playing(3, 0, TRUE, NoMods),
              Playing(Linked, 0, FALSE, NoMods),
              Playing(Linked, 1, FALSE, NoMods) >>]

MCGraphs == {AllKinds, ListsOfTwo, Carriers3, Deep}

State(v, ratio) ==
  [state |-> TRUE, v0 |-> <<v>>, ratio |-> ratio, goal |-> FALSE]
Goal(v, gratio, time) ==
  [state |-> FALSE, goal |-> TRUE, vt |-> <<v>>, gratio |-> gratio,
   time |-> time, type |-> "exp"]
Both(v, ratio, v2, gratio, time) ==
  [state |-> TRUE, v0 |-> <<v>>, ratio |-> ratio, goal |-> TRUE, vt |-> <<v2>>,
   gratio |-> gratio, time |-> time, type |-> "log"]

On(o, p, src) == [op |-> o, param |-> p, src |-> src]

MCRampUpdates ==
  { On(2, "freq", Goal("a", TRUE, 2)), On(2, "freq", Goal("b", FALSE, 2)),
    On(2, "freq", State("c", FALSE)), On(1, "freq", Both("d", FALSE, "e", FALSE, 3)),
    On(2, "freq2", Goal("g", FALSE, 1)), On(1, "amp", Goal("h", FALSE, 2)),
    On(1, "amp2", Goal("k", FALSE, 3)),
    On(0, "pan", Goal("l", FALSE, 3)), On(0, "pan", State("m", FALSE)) }

MCTimeUpdates ==
  { [op |-> 2, time |-> 2, silence |-> None], [op |-> 1, time |-> 3, silence |-> 1],
    [op |-> 3, time |-> Linked, silence |-> None] }
=============================================================================
