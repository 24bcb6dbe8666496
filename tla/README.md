# TLA+ models of sgensys (saugns)

saugns reads scripts in the SAU language and plays or writes the sound they
describe. This directory models the path from the script's text to the samples
counted out to the sound device and the WAV file, together with the memory pool
that everything is allocated from. TLC checks the models on small instances and
TLAPS proves theorems about eight of them for every value of the constants.

    tlc -workers 2 -config MCRender.cfg MCRender      # one run
    tlapm Interp_proofs.tla                           # one proof module

Paths below are relative to the repository (`src/`).

## 1. The system

The program is one process with one thread. Nothing is stored from one execution
to the next, so there are neither data races nor crash recovery. What is hard is
elsewhere: in the sequencing (what a token does depends on nodes opened long
before, at other levels), in two-pass conversions that link lists to each other
and then flatten them, in counters that are kept beside each other and must
agree (waits of events, waits of voices, times of nested operators, positions in
buffers), in caches of what has been worked out ("used later", "over before
here", "wait before the first graph") and in partial failure at the output.

    script text
      -> file.c, scanner.c, symtab.c      characters, symbols
      -> parser.c                         parse data: events, operators, lists, groups
      -> parseconv.c                      script data: one flat list of events
      -> scriptconv.c (via builder.c)     program: voices, operators, events by ID
      -> prealloc.c, interp.c, mixer.c    samples, in calls of any length
      -> player.c, audiodev*.c, wavfile.c device and file

Each part hands the next a finished structure; none is called back. They share
the memory pool and, in the parser, the symbol table. The player calls the
interpreter in a loop until a call returns nothing.

### Inventory

**Memory pool** (`mempool.c`). State: an array of blocks with their free space,
the index below which they are skipped, the sizes that decide on growth.
Operation: allocate (best fit by binary search, re-sorting by moving one block
per class of equal space, a new block or a grown array when nothing fits).
Hard: one wrong move and the search misses a fit or a block is lost; allocation
failing between growing the array and getting the block. Correct when: regions
never overlap, none is lost, the searched part stays sorted, the best fit is
found.

**File buffer** (`reader/file.c`) **and scanner** (`reader/scanner.c`). State:
two areas of a ring with an end marker, read and fill positions; a ring of undo
frames, filters per character. Operations: get, unget and close; get through the
filters, try for one, unget, read a symbol or a number, set what is done about
whitespace. Hard: crossing the limit between areas with ungets in both
directions, the end marker among the data; what a filter made of a character is
written back into the buffer, and frames are restored that are older than what
was skipped. Correct when: the characters read are those of the file, each in
its turn, and the place told is where it stands.

**Symbol table** (`reader/symtab.c`). State: hash table of interned strings.
Operations: intern, look up, grow by rehashing. Correct when: equal strings get
one item across growths, a failing growth loses nothing. Hard: the rehashing happens
within an insertion, and items and tables come from different allocators, one of
them shared with the parser.

**Parser** (`reader/parser.c`). State: a stack of levels (top, `<` block, `[`
list), each with its open event and operator, those ended last, pending wait,
label and composite; the event and operator nodes made; duration groups; labels;
settings. Operations: one per token; within it, the reading of a numerical
expression by recursion over the scanner. Hard: which node a token applies to
after levels were entered and left; three ways of linking an event; settings
that are applied when a node ends. Correct when: every event written can be found
again, groups divide the events up, lists are trees, parameters have the values
that the text says, expressions are worth what the usual rules say.

**Parse data to script data** (`reader/parseconv.c`). State: times filled in so
far; the list being flattened; operator contexts and flags. Operations: time
operators, composites and groups; flatten composites into the main list; link
each node to its operator, flag later use and roots. Hard: waits are split and
joined while two lists are walked; flags are set backwards. Correct when: each
event comes once, in order, at the time the first pass gave it.

**Script data to program** (`builder/scriptconv.c`). State: voice allocator
(duration, last event, flags per voice), operator allocator, modulator lists,
the event list, summed duration. Operations: convert an event, check validity,
finish. Hard: voices are reused by what is known of their durations and later
use. Correct when: a sounding voice is never given away, updates reach their
carrier, graphs are up to date, no more voices than needed.

**Interpreter** (`interp/prealloc.c`, `interp/interp.c`, `interp/mixer.c`).
State: operator and voice nodes with what they have left to play, event nodes
with waits, the position in the stream, the starting voice. Operations: create,
run for `buf_len` samples. Hard: events fall anywhere between calls and chunks;
each voice and operator counts for itself. Correct when: events are handled at
their sample, voices play for the time they were given, each chunk is written
where it belongs, a short return means that all is over.

**Buffers and ramps** (`interp.c`, `ramp.c`, `osc.c`). State: buffers shared by
all operators of a voice, used from a pointer that is moved past what is still
needed; for each parameter a ramp and a position in it. Operations: run a ramp
for part of its time or skip it; run an operator's modulators, each into the
buffers above it, mix or multiply them in, generate. Hard: a list run at the
wrong time or place overwrites another's input; the position is kept beside the
ramp, and events change either. Correct when: each operator is generated from
its own parameters and modulators at the sample at hand, ramps go on as if run
at once, and the mixer gets the carriers that sound.

**Player** (`player/player.c`, `audiodev.c`, `audiodev/*.c`, `wavfile.c`,
`saugns.c`, `builder.c`). State: options, programs, open device and file, the
generator at work, error state. Operations: parse options, build, open, create
the file, run each program once, or twice when the rates differ, close. Hard:
failure of each of these; options that exclude each other; the file's header.
Correct when: each sink gets every program whole, and the exit status tells of
errors.

**Containers** (`ptrarr.c`, `arrtype.c`, `reflist.c`): not modelled; the modules
have sequences for them, and what is hard about them (soft copies that share
storage, the copying of lists) is called by nothing. **Lexer** (`reader/lexer.c`),
**waves** (`wave.c`), **helpers** (`common.c`, `help.c`) and **test-scan.c**: not
modelled; the lexer is not called by the program, the rest has no control state.

`PROJECT.json` lists every component with its status, every definition with the
lines it models, and the hazards with the properties that cover them.

## 2. The modules

| module | models | remarks |
|---|---|---|
| `Values` | absent values | shared by all |
| `MemPoolOps`, `MemPool` | `mempool.c` | searches and sorting by what they return; the pool as a state machine |
| `MemPoolCalls` | `mempool.c` again, one step per turn of a loop or recursion | implements `MemPool` |
| `SymTab` | `symtab.c`, over `MemPoolCalls` | lookups, growth and rehashing step by step, in a pool that others use between lookups |
| `Interning` | abstract specification of the symbol table | implemented by `SymTab` |
| `FileBufOps`, `FileBuf` | `file.c`, `file.h` | the ring of two areas as functions; getting, ungetting, closing |
| `CharStream` | abstract specification of reading | implemented by `FileBuf` |
| `ScannerOps`, `Scanner` | `scanner.c`, the `#` filter of `parser.c` | over `FileBufOps`; filters and frames as functions, one action per operation |
| `ScriptText` | how a text reads, without a buffer or order of reading | what `Scanner` is compared with |
| `Numbers` | `double`, exact | fractions, infinities, not-a-number |
| `NumberOps` | reading of numbers, notes and expressions (`parser.c`, `scanner.c`, `file.c`) | recursive functions of the scanner's state |
| `ExpressionText` | what an expression is worth by the usual rules | what reading one is compared with |
| `Parser` | `parser.c` | one action per token |
| `ParameterText` | which parameters and settings a script gives to what | told from brackets alone; what `ParseConv` is compared with |
| `ParseConv` | `parseconv.c`, over `Parser` | two passes, one event per step |
| `Script` | `script.h` | what the builder may rely on: `WellFormed` |
| `ScriptConv` | `scriptconv.c` | one script event per step |
| `Program` | `program.h` | what the interpreter may rely on: `IsProgram` |
| `Interp` | `prealloc.c`, `interp.c`, `mixer.c` | one step per event, chunk and voice |
| `Ramp` | `ramp.c` | a ramp filled in or skipped in parts, and as it would be at once |
| `Blocks` | `run_voice`, `run_block` of `interp.c`, `osc.c`, `mixer.c`, sizes of `prealloc.c` | one step per stage of a call, over shared buffers |
| `Timeline` | abstract specification of the sound | implemented by `Interp` |
| `Render` | builder and interpreter together | scripts in, samples out |
| `Player` | `saugns.c`, `builder.c`, `player/` | arguments in, exit status out |
| `MemPool_proofs`, `SymTab_proofs`, `FileBuf_proofs`, `Parser_proofs`, `ScriptConv_proofs`, `Interp_proofs`, `Player_proofs` | | theorems about the modules they are named after (`SymTab_proofs` about `MemPoolCalls` too) |
| `ProofFacts` | | lemmas on numbers, sequences and numberings that they share |
| `MC*` | | instances for TLC; `MCScripts` has the sets of scripts |

**State and actions.** Variables have the names of the fields they stand for,
where there is one. Comments in each module say which are history variables;
no guard of code depends on these. Pointers are indices, with 0 for NULL in the
parser and `None` elsewhere. IDs count from 1. Alternative forms of a definition
that stand next to it and are used by nothing (`GroupToEvent`, `SortUnfudged`,
...) are slips that the properties have been shown to catch.

* `MemPool`: `AllocInBlock`, `AllocNewBlock` and `AllocFails` are the three ways
  `SAU_MemPool_alloc` ends; `AllocFails` keeps what a grown array leaves behind.
  Memory is known by the order in which it was obtained.
* `MemPoolCalls`: `GoUp` and `GoDown` are the two branches of the search, `Cut`,
  `Add`, `Skip`, `Sort`, `Place`, `CopyUp`, `Recurse` what follows it in
  `SAU_MemPool_alloc` and `copy_up_one`; `call` and `froms` are its locals and the
  recursion's. `o` is the pool in the middle of a call; the variables of `MemPool`
  are the pool as callers see it, which is changed when the call returns.
* `SymTab`: a lookup (`Ask`) has the table grown when it is half full (`Upsized`,
  `RehashItem`, `RehashBucket`), then hashes, follows the chain (`Find`), and
  allocates and inserts an item if it finds none. An item is the region of the
  pool it is in. While an allocation goes on (`PoolStep`) the table waits for it.
* `FileBuf`: `Get`, `Unget` and `Close` are the macros of `file.h` with what they
  call; `FileBufOps` follows them with positions that are wrapped late, as there.
  What may be ungotten is what `file.h:278-280` allows.
* `Scanner`: `getc`, `ungetc`, `tryc`, `get_symstr` (which stands for `geti` and
  `getd` too: the same is done about frames) and `set_ws`. A character is a
  string; those that the code treats alike have one for all. Flags that are set
  and never read are left out. `seen` has what the text reads as according to
  `ScriptText`, `want` what the last operation should have returned.
  `scan_number` reads a number, a note or an expression by `NumberOps`, which
  calls the operations above as the code does, ungets included, and compares with
  `ExpressionText`. Names of notes stand for all named constants.
* `Parser`: `ReadToken` is one turn of `parse_level()` or `parse_in_event()`,
  split into one action per kind of token; `EndOfScript` is the end of input at
  whatever level. A level's `local` is the local `op` of its call of
  `parse_in_event()`. Token kinds: an operator, `line` break, `|`, `;`, `<`, `>`,
  `[`, `]`, a time `t` (a number, or the parent's), silence `s`, the wait `\`
  (with a number, or for what was last), a label `'` and a reference `@`, an
  amplitude `a`, the goal `{` and the time `{t` of its ramp, and settings `S`, in
  which `a` is the multiplier and `t` the default time.
* `ParseConv`: `TimeNext` times one event with its composites and, at the end of
  a group, the group; `ConvertNext` flattens and converts one event.
* `ScriptConv`: `ConvertEvent` is one turn of the main loop, with the allocation
  of voice and operators, graph and lists; `CreateProgram` and `RunOutOfMemory`
  end it.
* `Interp`: `Create` is `SAU_create_Interp`. `Call`, `RunUpToEvent`,
  `HandleEvent`, `RunToTheEnd`, `ProcessMore`, `ProcessedAll`, `AdvanceVoice`,
  `ReturnEnd` and `ReturnFull` are the parts of `SAU_Interp_run`; `StartChunk`,
  `KeepWaiting`, `EndWait`, `RunVoice`, `PassVoice`, `EndVoices` and `WriteChunk`
  those of `run_for_time` and `run_voice`. `run_block` is a recursive function
  over the modulator lists. Samples are counted, not computed. The conversion
  from milliseconds rounds to nearest, as `time.h` does.
* `Blocks`: a value in a buffer is a term that says what was put there (a
  parameter of an operator at one of its samples, modulators mixed in). `Enter`,
  `RunFreq`, `RunModulator`, `MixFreq`, `KeepPhases`, `RunAmp`, `MixAmp` and
  `Generate` are the parts of `run_block`, whose calls are on `stack`; `PassCarrier`,
  `RunCarrier`, `MixVoice` and `EndBlock` those of `run_voice`. Events set ramps and
  times between blocks. The ramp's curves, functions of both ends, position, time
  and multiplier, are terms as well.
* `Timeline`: a clock, what has happened, and what each voice has left; no calls,
  buffers, chunks or waiting voices.
* `Player`: `open_linux`, `open_oss`, `open_sndio` are the ways to open a device on
  three platforms, with the fallback from ALSA to OSS and what is left open when
  they fail. A program is a length, the generator what it has left. That the
  interpreter behaves so towards its caller is what `ShortReturnIsTheEnd` and
  `CountsToTheEnd` say of it. Each call that can fail does so or does not;
  `failed` remembers, as history.

In all modules but `Blocks` the three lists of modulators (FM, PM, AM) are one
list: up to there all code treats them alike, in turn. Of the parameters that
have ramps, `Parser` and `ParseConv` have the amplitude: the others are read and
timed by the same functions. They change no state that `ScriptConv` and `Interp`
have.

## 3. The runs

All finish in under three minutes with two workers. `CHECK_DEADLOCK FALSE` is
said wherever the code ends: a parsed script, a finished conversion, an exit.

**mempool**: any 7 allocations of 4 sizes, failing or not; or up to 5 lookups of
3 keys that share a bucket of a table of 2, with allocations of another size
between. Seven are enough for the array to grow (from 1 to 8 entries), for
used-up blocks to be skipped, and for a block to be moved past classes of several
equal ones; three keys for the table to be rehashed twice, up to 8.
`SearchableOrder`, `BestFit` (the block used is the one with the least space that
fits, of those not skipped), `NoOverlap`, `GrowthFollowsCount` (a failed
allocation does not make the next one grow the array again). `ImplementsPool`:
the loops and the recursion, step by step, are what `MemPool` says.
`GivesUniqueItems`: the table is a map from keys to items (`Interning`), whatever
failed. `CallsReturn`. Types and `EachMemoryOnce` are left to proofs.

**blocks**: four voices (modulators of all kinds; lists of two, of which one is
late or short; three carriers that sound at different times; four levels), in
blocks of 1 to 3 samples in any order, with up to 2 events that set ramps and
times; goals take a sample at least (section 6). Blocks of 3 in voices of 4 samples make every ramp and time end within,
between and at the limits of blocks. `ModulatorsMixed`: each operator is generated
from its own modulators and its carrier's frequency at the sample at hand.
`ParametersOnTime`: the parameters used are those of the ramps as they would be
run at once (but for operators in `apart`, section 6). `OutputMixed`: the mixer
gets the carriers that sound, and silence.

**filebuf**: every text of up to 8 characters, letters or characters with the
value of the end marker, ending or failing, through areas of 3: the ring is gone
round, ends fall at and within the limits of areas, and reading goes on three
times at the end, when markers are repeated. `ReadsTheText`: the buffer implements
`CharStream`, a text and a place in it.

**scanner**: texts of 3 characters out of five mixes (whitespace and symbols;
linebreaks; commands; invalid characters; slashes), and block comments of up to 2
characters with what is after them, through areas of 2: longer texts only repeat
what the filters do, and every limit of areas is met in between. One unget in a
row and one read of no length, as the parser does outside of failing numbers; one
end. Besides, texts with numbers: expressions of three numbers with all
operations, signs and parentheses, in pieces with something to skip, unfinished
ones, notes; in these numbers are read before anything else.
`ReadsTextInOrder`: every operation returns what comes next by `ScriptText`,
whatever was looked at before, and an expression is worth what `ExpressionText`
says (where no power follows a sign or a factor in parentheses, `PowersPlain`,
section 6). `PlaceTold`: line and column, where nothing misleads (section 6).

**parse**: all token sequences within the mixes of `MCParseConv` (6 tokens for
plain events with waits and separators; 5 with labels, with lists, with blocks,
with amplitudes, ramps and settings; 4 of any kind), parsed and converted. A mix
bounds what occurs together; six tokens make three timed events with a separator
or two composites. `GroupsDivideEvents`, `ListsAreTrees`, `EventsOnceInOrder`
(nothing lost, nothing twice, order kept), `TimesKeptInTurn`, `GroupsAreTimed`
(all before a `|` is over when what follows begins, and a time left out ends
where the next group begins), `ParametersAsWritten` (each node has the amplitude
that the text gives it, multiplied by what was set before it if it is no
modulator, and its ramp lasts as long as was written for it or for its operator),
`MakesScript` (the result is `WellFormed`, with flags that tell what is true of
the whole list; what `ScriptConv` starts from). Where these hold of some scripts
only, the property says of which: section 6 has what happens with the others.

**parse_lost**: `EventsKept` without the premises; violated (section 6).

**scriptconv**: all well-formed scripts of 4 events out of new operators with
and without modulators, and updates of time, lists or neither, of carriers and
modulators; `VoiceNoId = 3`, so that a script can have more voices than an ID
has values for. Four events are enough for a voice to be taken, updated,
expired, taken by another and meant again. `ReuseSafeUnlessRetimed`,
`UpdatesOfCarriersReachThem`, `VoicesEnterInOrder` (what the voice loop of the
interpreter relies on, cut of IDs included), `GraphsUpToDate`,
`AsManyVoicesAsSoundAtOnce`, `DurationIsLastEnd`. `VoicesEnterInOrder` includes
`IsProgram`, what the proofs about `Interp` assume of programs.

**scriptconv_retimed**: `ReusesOnlyExpired` for all of these scripts; violated.

**render**: scripts of 3 events built and run, with mix buffers of 2 samples,
calls of 3 and 5 (in any order), and a rate of 3 samples in 2 ms: events and
ends fall within chunks, between them, and between calls, and times are
rounded. `EventsOnTime`, `PassedVoicesSilent`, `ShortReturnIsTheEnd`,
`WritesInPlace`, `CountsToTheEnd`, `HeardAsWritten` (after each call, a carrier
that should sound by the script has exactly that long left, in its voice), and
the refinement `FollowsTimeline`: whatever the calls and buffers, the voices
follow `Timeline`. Where waits disagree (section 6), the last is not claimed.

**render_nested**: carriers with modulators that have one of their own, with
times and silence of each, updated once; and the plain scripts of two events.
`NestedKeepTime`: an operator however deeply nested is where the stream is, not
behind. `SignalEnds`: calling again and again comes to a return of 0.

**render_drift**: `WritesInsideBuffer`; violated.

**player**: up to 3 options of the 5, 2 scripts of length 0 or 2 (in units of a
device buffer or more), three platforms, a device that settles for a rate below
or above what was asked for, and failure of anything that can fail. A word of
1000 values makes a file's size overflow only beyond these bounds.
`DeviceUsedAsAsked` (whatever the order of options, and what is open is that
device, closed in the end), `SinksGetAllPrograms`, `HeaderTellsSizeThatFits`,
`ErrorsAreToldOf`, `ComesToAnEnd`.

Bounds that are constants are marked `BOUND` in the modules.

### Fairness

Only weak fairness of a whole next-state relation is assumed, in `SymTab` (of a
step of the table or of the pool), `Render` and `Player`, and it says only that
the process goes on running: there is one thread and no step waits for another
actor. For `SignalEnds` this includes that the player calls again after each call
that returned something, as its loop (`player.c:118-129`) does. A sound device
that never takes what it is given would block the process; that is not modelled.
The retries after an underrun of an ALSA device are stuttering steps of `Player`:
their number has no bound in the code, but each needs another underrun.

## 4. The proofs

Assumed are only the named assumptions on constants in the modules, which TLC
evaluates in the runs above:

* `PoolAssumption`: sizes are natural numbers, alignment is even and positive.
* `SymTabAssumption`: hashes are natural numbers, items have sizes that are
  allocated, and the first table has a bucket.
* `FileBufAssumption`, `FilesAssumption`: areas have a length, files are texts.
* `ParserAssumption`: default time and sizes of mixes are natural numbers, and
  label tokens name labels.
* `ConvAssumption`: scripts are `WellFormed`, which `MakesScript` checks of what
  the parser makes.
* `InterpAssumption`, `ProgramsAssumption`: programs are `IsProgram`, which
  `ConverterTypes` and `VoicesCountedUp` prove of what the builder makes.
* `PlayerAssumption`: rates and word size are positive, lengths natural numbers.
* `ValuesAssumption`: absent values are told apart.

Each theorem has three steps: initial states have the invariant, each action
keeps it (a lemma each), and it implies the property. TLC has checked each
invariant on the instance of its run first.

**`MemPool_proofs`**: for any sizes, alignment and number of allocations,
`TypeCorrect`, `AlwaysSearchable`, `BlocksKept`, `RegionsNeverOverlap`,
`GrowthKeepsPace` and `AlwaysBestFit`. None of `SearchableOrder`,
`EachMemoryOnce` and `NoOverlap` is inductive by itself. The inductive invariant
`IInv` adds that each region handed out lies above the free space of the block
whose memory it is in (`HeldAboveFree`), and inside that memory: cutting the next
one off the free end then meets none. As blocks are moved between entries, this
is said by memory and not by index, and `RearrangingKeeps` carries it over any
permutation of the array. `ResortSorts` says that moving the first block of each
class sorts the array again and loses nothing. `GrowthInv` relates the size of
blocks to the length of the array, which needs that halves of aligned sizes come
out even. `AlwaysBestFit` is an action property: a step that hands out a region
takes it from a block with the least space that fits, because the part of the
array that is searched is sorted.

**`SymTab_proofs`**: for any requests, keys and hashes,

* `CallsImplementPool` (`ImplementsPool`): the bisection, the loop over used-up
  blocks and the recursive move do in many steps what `MemPool` does in one, so
  that all of the above holds of the loops. `CallInv` says what holds at each
  place of the code. `Bisecting` is the loop's: what is below its bounds is too
  small and what is above fits, bounds that start crossed included. From when a
  call has its memory on, the pool that it will come to is determined
  (`ComesTo`), and each place says how the one at hand becomes that: sorted but
  for one block (`AtSort`), sorted with the fudged value in it (`AtPlace`), as
  moved by `ClassFirst` from the top of the stack (`AtCopy`, whose stack
  `Stairs` describes: first entries of classes, the next always larger), or half
  moved back (`AtCopied`, `Unwound`). `UnwindingMoves` shows that the stack, once
  at the top, unwinds to the non-recursive definition of `MemPoolOps`. This also
  shows that the lookups that run between the allocations leave the pool alone.
* `TableInterns` (`GivesUniqueItems`): the table is a map from keys to items, the
  refinement of `Interning`. `TableInv` says that a numbering of the items exists
  (`Chains`) that falls along each chain and tells the items of a bucket apart:
  chains are finite, in their own bucket, and hold every item once. A search has
  passed only items with other keys (`Searching`). While the table is rehashed
  (`Rehashing`), the items divide into some in what is left of the old chains
  (`OldHeads`) and the others in the new, with one numbering for both; `Unlinking`
  and `Linking` are what moving one does to each.

**`FileBuf_proofs`**: `RingGivesTheText` (`ReadsTheText`), the refinement of
`CharStream` for any length of areas, any text and any use of `Get` and `Unget`
within what is allowed. `FileInv` says that the ring has a window of the text, up
to what was taken from the file and back to what reading may still go back to
(`InWindow`, `HasText`), while the file is open and after it has ended, when end
markers are repeated over one place (`OnceEnded`). That positions are wrapped late
makes this modular arithmetic (`WrapRange` and the lemmas in `ProofFacts`).

**`Parser_proofs`**: for any mix of tokens and any number of them,

* `TreesGrow` and from it `ModulatorListsAreTrees` (`ListsAreTrees`). The property
  says nothing of levels that are open, and is not inductive: whether a list gets
  one owner, older than what is in it, depends on the level that the list is
  filled in. The inductive invariant `TreeInv` has four parts: every link of
  levels and nodes is to what there is (`Shape`); the first level is the top one,
  and an operator is open in each that has one to set (`Stack`); each new
  modulator is at one place of one list, and nothing else is (`Lists`); a list is
  owned by one node, or is that of one open level and owned by none, and owner or
  the parent kept in that level is older than its members (`Owned`). A lemma for
  each function of `parser.c` says what it leaves alone, so that most tokens
  (`TokenCalm`) need no more than that they change no links.
* `GroupsGrow` and from it `GroupsDivide` (`GroupsDivideEvents`). The property is
  about a parsed script; on the way, the event that is open is in the main list
  but in no range yet, a composite that is open is in neither, and the last group
  may be empty. `FlatInv` says so: there is a set (`Main`) that is closed under
  "next" from the first event on and ends at the last one added (`EventList`),
  the groups divide all of it but what is open (`Divided`, `Done`), an open
  composite is for the last event of the main list, which has been placed
  (`OpenEvent`), and the open operator is of the open event (`OpenOp`), since it is
  from there that `;` finds what to attach to. It holds until a bracket is read.

**`ScriptConv_proofs`**: for any well-formed scripts and any limit on voices,

* `ConverterTypes` and `VoicesCountedUp` (`VoicesEnterInOrder`, with `IsProgram`):
  the IDs given to operators are a numbering of those used so far (`Operators`),
  and the voices given up to each event are the first so many (`VoicesInOrder`).
* `UpdatesReach` (`UpdatesOfCarriersReachThem`): a voice whose carrier is to be
  updated is for events about that carrier only (`VoiceHeld`).
* `GraphsStayUpToDate` (`GraphsUpToDate`): a voice's carrier is that of the last
  event to give it one (`OwnCarriers`), the lists of modulators are those last
  set (`LastLists`).
* `ReuseIsSafe` (`ReuseSafeUnlessRetimed`), `VoicesAreReused`
  (`AsManyVoicesAsSoundAtOnce`) and `DurationIsRight` (`DurationIsLastEnd`): what a
  voice has left counts down to when the last carrier given to it ends
  (`Times`). So a voice is free just when none sounds in it (`Apart`), and when
  one is added there was some event at which all others sounded (`Fitting`).

**`Interp_proofs`**: for any programs, buffer length, call lengths and rate,
`SkippingIsSafe` (`PassedVoicesSilent`), `ShortReturnsEnd`
(`ShortReturnIsTheEnd`) and `EventsHandledOnTime` (`EventsOnTime`). The inductive
invariant relates four counters that the code keeps apart: what is done of the
buffer, the block at hand and what is left add up to its length (`Buffer`), and
the stream is as far past the last event as `event_pos` says (`Clock`), never
past the wait. `OverWhenShort` carries the end of the signal to where a call has
returned. What `run_block` computes is opaque to these proofs.

**`Player_proofs`**: for any options, scripts, platforms, rates and failures,
`DeviceAsAsked` (`DeviceUsedAsAsked`), `SinksGetAll` (`SinksGetAllPrograms`),
`ErrorsTold` (`ErrorsAreToldOf`) and `HeaderIsRight` (`HeaderTellsSizeThatFits`).
The flags tell which options were given (`FlagsTell`) although their order is
lost; each phase has what it needs set up (`SetUp`, `Handles`); what a sink has
got and what the generator has left make up the program, in one pass or in two
(`Delivered`); and the status is bad just when something failed (`ErrorsKept`).
`ErrorsAreToldOf` and the others are not inductive: they say something about the
end of which these keep track on the way.

## 5. Model-checked only, and not modelled

Liveness (`CallsReturn`, `SignalEnds`, `ComesToAnEnd`) is out of the prover's
reach. `ParseConv`, `Scanner` with `ScannerOps`, `NumberOps` and `ExpressionText`,
and `Render` with the recursion of `run_block` below (`HeardAsWritten`,
`NestedKeepTime`) use recursive definitions, of which no induction can be
done: their properties are model-checked only. So are those of `Interp` that
depend on what `run_block` computes, by a recursive function over the lists
(`WritesInPlace`, `CountsToTheEnd` and the refinement `FollowsTimeline`): that the
function is what its equation says, and what it then does to the times, are
inductions over the graph. Of `Blocks`, `ModulatorsMixed` and `OutputMixed` compare
with the carriers of a list that sound, selected by recursion over the
list; `ParametersOnTime` is not out of reach, but not proved; it
needs goals to take a sample at least (section 6).

Not modelled in what is modelled: several operators at once (`@[`, "experimental
and incomplete" by `doc/README.SAU:226`: the conversion ignores such nodes,
`parseconv.c:313-316`) with `next_bound`; frequency, channel mixing, phase and the
kinds of operators as values; warnings, the printing of data, allocation failing
during parsing, the numbering of graphs in `prealloc.c`, single-precision
arithmetic in `time.h` (the conversion is exact and rounds to nearest; the sizes
at which single precision is not exact are out of reach) and in expressions
(exact fractions; numbers too large for their types are left out), the values of
samples, and the calls to ALSA, OSS and sndio, of which the player sees only what
they return.

## 6. Where the code and what is said of it part

Three runs end in a violation, each of a statement quoted from the repository:

1. `parse_lost`: which event composites are attached to is kept per level, the
   event is shared with its modulator lists. `Osin t1 p+[Osin t.5 ; f300] ; f500`
   loses the event with f300 (`parser.c:686`; `README.SAU:268-270`).
2. `scriptconv_retimed`: a voice's duration is set with a new graph only; when
   an update gives the carrier a longer time the voice is still given away when
   the first time is over (`scriptconv.c:114`; `scriptconv.c:95-96`).
3. `render_drift`: the wait of a voice is set anew for each event with a graph.
   A voice with several waits too long or too short, and can make the write
   position go past the buffer (`prealloc.c:138`; `interp.c:421-422`).

Others were met while modelling. They are stated in the modules, where a run
shows them when put in its place; some are premises of properties (marked *):

* `ExitTellsOfErrors`* (`player.c:81`): set-up of the output that fails ends with
  status 0: `saugns -o /nonexistent/x.wav -e 'Osin t1'` (`saugns.1:87-88`).
* `TimesKept`* (`parseconv.c:195`): waits taken up by composites are only taken
  off the next ordinary event's when a composite is inserted there. `Osin t1; t1
  f300` with `\0.3 Osin t.1` and `\1 Osin t.1` on lines after it: the last
  operator begins at 2.0 s, not 1.3 s (`parseconv.c:151-152`).
* `UngottenComesAgain`* (`scanner.c:645`): an unget restores a frame older than
  that of the character now before the position, and writes the character of
  that frame there; a second unget (`scanner.c:631-632` allows up to 63) finds it.
  `Osin t(2*?)` warns about an invalid '2' where the '*' is: the unget after a
  number that fails is a second one.
* `LineTold`* (`scanner.c:515`): linebreaks that were skipped to get a character
  are not counted when it is ungotten and gotten again. After `Osin f(1+` with
  `2) ?` on the next line, all lines are told as one less than they are.
  The column goes wrong in the same way, and by one after each symbol or number
  that was not there: `Osin f t1 ?`.
* `ReadsTextInOrder` with a "\r" after a linebreak* (`scanner.c:200`): an ungotten
  linebreak is "\n" from then on, and takes the "\r" in when gotten again.
* `#Q` (`parser.c:117`) in a level or list ends that level; as the end is not
  remembered, the others read on (`README.SAU:178`: "comments out the rest of the
  whole file"): `Osin t1 p+[Osin #Q ] ?`. `Scanner` stops there.
* `ParametersReachOpenNode` (`parser.c:1045`): after `\` inside an operator's
  parameters, those that follow go to the node before: `Osin t1 \0.5 t2`.
* `WaitsForSomething` (`parser.c:597`): a wait for the last event where none has
  ended reads through NULL: `Osin p+[Osin Osin \t f3]`.
* `WaitsDelayNext` (`parser.c:680`): a wait before a block stays in the level
  outside: `\1 <Osin t1>` begins at 0.
* `EventsKept`, with blocks rather than lists (`parser.c:682`): a `;` after a
  block: `<Osin t1>; t2`.
* `GroupsDivideEvents` with brackets* (`parser.c:666-668`): the ends of a group
  are displaced by composites in blocks and lists: `<Osin t1; t1> | Osin t1`;
  with `Osin t1 p+[Osin t.3; t.2; t.2] | Osin t1` the walk in `parseconv.c:34`
  leaves the list.
* `ReferencesKept`* (`parseconv.c:248`): a reference flattened in before what it
  refers to is dropped: `Osin t1 'a ; f300 t1`, next line `@a t5`.
* `UpdatesReachCarrier` for modulators referred to by themselves*
  (`scriptconv.c:76`): later use is looked for in the voice's last event only.
* `TimesOnlyFall` (`interp.c:228`): silence set by itself on an operator with
  less time left makes the unsigned time wrap around.
* `HeaderTellsSize` for files of 4 GiB and more* (`wavfile.c:115`).
* `SAU_File_geti` takes 5000000000 for 705032704: an overflow is told from the
  number having become smaller (`file.c:364`). It is used for octaves only.

* `ReadsTextInOrder` with powers after a sign or a factor in parentheses*
  (`parser.c:164`): `(-2^2)` is read as (-2)^2, which is no number; it is dropped
  without a word and, ungotten twice, read on from the 2. `(2(3)^2)` is 36.
* `PlaceTold` after notes*: what was looked at for the parts of a note is counted
  again: the column is told as one more in `Osin fC4 ?`.
* `MultipliedWhenAdded`* (`parser.c:635`): the multiplier `S a` is applied when an
  operator node ends, so also to one that is still open from an earlier line:
  `Osin a1`, next line `S a0.5` (`README.SAU:58-59`: "applied when adding a
  top-level carrier").
* `RampsFitted`* (`parseconv.c:77-80`): ramps of an operator that is later fitted
  to its group, or linked to its carrier, keep the default time
  (`README.SAU:188`: "default re-use time duration"): `Osin t3`, next line `Osin
  a{v0}`. Those of channel mixing get none of their own at all.
* `MakesScript` with a `;` first in a list* (`parser.c:1153`): the composite is for
  the operator outside, and a list's operator in it leaves the carrier without a
  time of its own: `Osin p+[; Osin ;]`.
* `ParametersOnTime` for operators with silence before* (`interp.c:232`): the buffer
  with the carrier's frequencies is not moved along with the operator's own, so
  that relative frequencies follow their carrier at an earlier sample; and a ramp
  is fitted by the first of these even when nothing is run (`ramp.c:233`).
* `ParametersOnTime` with goals of no time* (`ramp.c:246`): such a goal
  (`{v1 t0}`) is reached by running for no samples, which the voice does to
  operators that are over. Of a value set later without a goal, and the goal, the
  one that wins depends on whether the operator was run in between.
* Parameters after a line break in a list (`Osin p+[`, next line `a2 Osin]`) go to
  the operator outside, since the level takes over its `sub_f` (`parser.c:843`).
* Cleaning up: `SAU_destroy_SymTab` frees the table but not the instance
  (`symtab.c:170`), `open_sndio` keeps its handle when it fails, and `open_linux` its
  `hw_params` when it does not.

A quirk rather than an error: a composite in a list of modulators makes the
time of its carrier the parent's, since the list's operators are linked to it.

## 7. Plan

Done, in this order: the memory pool (everything is allocated from it, and
its loops are self-contained); interpreter and builder (what is heard); their
composition and the refinement of `Timeline`; parser and conversion; player.
First theorems for `MemPool` and `Interp`.

Then the file buffer, as a refinement, and the scanner over it; the loops of the
memory pool step by step, and the symbol table over them; buffers and ramps;
numbers and expressions; settings, amplitudes and their ramps.

Next, modules: the graph numbering of `prealloc.c` in `Interp`; the frequency and
channel mixing of the parser, with their rejections, if they come to differ from
amplitudes. `@[` and `next_bound` should wait until the conversion uses them.

There is one run for each question; to keep their number in hand, properties
that are proved (`SearchableOrder`, `PassedVoicesSilent`, ...) may leave theirs.

Theorems were added in this order: `MemPool`, `Interp` (calls and events),
`FileBuf`, `ScriptConv`, `Player`, `MemPoolCalls` and `SymTab` over it, then
`Parser`.

Next, theorems:

1. `Blocks`: types, and `ParametersOnTime`, with an invariant of each ramp: what
is left of it is what its ideal has left at the same sample. 2. `Ramp`: that a
ramp filled in parts is the one filled at once, by the sum of the parts. 3.
`Interp`: types of the nodes and `WritesInPlace` (where no waits disagree), then
the step of `FollowsTimeline`, once what `run_block` does to the times is stated
as a lemma that can be proved.
