# TLA+ verification of ida-tilegx

ida-tilegx is an IDA Pro processor module for the Tilera TILE-Gx, a 64-bit VLIW
architecture: a Rust core (`src/src/*.rs`) that decodes bundles and analyses
them, and C++ glue (`src/src/processor.cpp`, `src/src/loader.cpp`) that answers
IDA's events with it. This directory models the parts of it that keep state or
make decisions over several steps, checks them with TLC on small instances and
proves the central ones with TLAPS.

## Inventory

| Part | Code | State | Operations |
|---|---|---|---|
| Bundle decoder | `decode.rs` | none | 8 bytes to a bundle of up to three slots, or nothing |
| Generated tables | `generated.rs`, `tables.rs` | none (constants) | 335 opcodes, 35 operands |
| Row analysis | `analysis.rs` | none | deals the slots of a bundle to one or two rows; flags, references, register accesses, memory references |
| Constant tracker | `constprop.rs`, `types.rs` | `TgConstState`: which of 64 registers are known, and their values | one `analyze_slot` per slot |
| Stack aliases | `processor.cpp:477-573` | which registers are offsets from sp | one `apply` per slot, `reset`, `replay_until` |
| Replay cache | `processor.cpp:615-759` | bounds of one function and the tracker states before each of its rows | `state_at`, `build`, `clear` |
| Segment bootstrapper | `processor.cpp:820-1236` | stack of pending addresses, visited set, ranges skipped by jumps, probable functions, entry and main hints | one pass over each segment at `ev_newfile` and `ev_oldfile` |
| Prologue scan, frames | `analysis.rs:418-443, 577-609`, `processor.cpp:1350-1373, 1519-1576` | `TgPrologState`; flags and frame of the IDA function | `ev_analyze_prolog`, `ev_create_func_frame`, stack variables |
| Event dispatch | `processor.cpp:1652-1838` | the global `g_replay_cache` | `on_event` |
| Raw detector, loader | `raw.rs`, `loader.cpp` | none; builds the database | `accept_file`, `load_file` |
| String heuristic | `strings.rs` | none | is this a C string |
| Rendering | `processor.cpp`, `spr.rs` | none | operands, names, comments |
| C interface | `lib.rs`, `ffi.hpp` | none | null checks and layout checks |

How they interact. IDA calls `on_event`, one event at a time on one thread.
`ev_newfile`/`ev_oldfile` clear the replay cache and run the bootstrapper, which
changes IDA's items directly. Afterwards IDA analyses, emulates and renders rows
in an order it chooses: `ev_emu_insn` and `ev_out_insn` decode the row, ask the
replay cache for the trackers' state before it (building the cache when the
function is another one), and `ev_emu_insn` then records references, which in
turn are join points for later builds. The cache hears of nothing else that
changes the database.

What is hard here. There are no threads; the difficulties are order and
staleness: the order of slots against the simultaneous reads of a bundle, the
order of emulation against the references it adds, the order of the bootstrap's
phases against the items each of them creates, a cache with a key that covers
little of what it depends on, and loops that must end on arbitrary bytes.
`PROJECT.json` lists every hazard at its line. What makes each part correct:

- constant tracker: a known value is the value in the machine's register; a
  reference derived from it names the address the machine uses; nothing is
  forgotten without reason;
- replay cache: what an event sees is a function of the code, not of the order
  of events; a row of the function is always found;
- bootstrapper: it ends, handles an address once, creates items that neither
  overlap nor leave the segment, and never fills reached code with data;
- decoder: the most specific encoding wins, no bit of a word is lost or read by
  two pipes;
- row analysis: every valid slot is in exactly one row, rows tile the bundle, and
  what is said of a row is what the tables say of its slots;
- stack aliases: a known offset is the register's distance from sp at the entry;
- frames: a frame only grows, and holds the prologue once that was accepted;
- detector and loader: the verdict is what the file's bytes say, and a load that
  fails leaves nothing that would be analysed as code;
- string heuristic: the strings of a segment are found wherever they are.

## Modules

### Words, MCWords

`Words` has the arithmetic of the tracked instructions over words of W bits,
halves of H bits and inserts of Q bits (64, 32 and 16 in the code).
`Compute(op, a, b)` is the value the tracker computes. `MCWords` evaluates it at
every pair of operands and compares each bit of the result with what the
instruction defines for that bit. The module uses `Bitwise`, so nothing is
proved in it or about it.

Run `words`: W = 6, H = 3, Q = 2. Every width is smaller than the next, the
shift counts exceed both clamps, sums wrap at both widths and an x form meets
both signs; the definitions contain no other constant, so wider words add no
case.

### ConstTracker, MCConstTracker, ConstTrackerProofs

`tracker` is `TgConstState` (`known` is the bit set `valid`); the depth of a
constant is maintained by the code but read by nobody and is left out. `regs`,
`pre`, `written` and `flow` are the machine: all slots of a bundle read `pre`,
the registers as the bundle began. One action per case of `step`
(`constprop.rs:51-67`), on operands that may or may not be known; the
instructions that `step` does not list are `OpaqueSlot`, loads, loads and stores
with write-back. `report` is what a slot tells IDA: the data reference, memory
reference, indirect branch target or SPR comment, next to the value the machine
has. Slots that write nothing and branches that name no register change nothing
in the model and have no action. Two slots of one bundle that write one register
are not legal code; where the model meets them (a load with write-back into its
own base) the result is not claimed.

The code follows the slots in order and gives no guarantee in three situations.
They are carried, register by register, by the ghost `stale`, which is the exact
complement of what `Sound` claims:

1. the value was computed from a register that an earlier slot of the bundle
   wrote (the machine read the older value);
2. the destination was the zero register, which the tracker then believes to
   hold the value;
3. the replay went on behind a call, which changes the link register and the
   registers a callee may use, or behind a jump, to a row that no recorded
   reference names.

A label (a branch target of the function, or a row with a recorded reference)
resets the tracker and makes all registers trustworthy again: `EnterLabel`.

The effective address of the memory forms with write-back is base plus
displacement, as the code and its tests have it (`tests.rs:861-866`).

Runs: `const_tracker` has two-bit words, the zero register, the link register
and one more, one immediate, one tracked operation of each kind, and one input
from outside; addition wraps, every case of known and unknown operands occurs,
and each of the three situations is reached and left again. `const_zero` shows
the finding about the zero register, below.

### StackTracker, MCStackTracker, StackTrackerProofs

The same construction for `StackAliases`: `aliases` is `aliases_`, the machine
runs beside it, and a known offset must be the distance of the register from sp
at the function's entry. Here the code gives up more, and two ghosts name it:
`moved` are bases that a write-back moved and that `apply` does not see (the
finding below); `stale` are the cases of ConstTracker, and in addition `addxi`
sums that do not fit 32 bits and sp behind a label, where `reset` takes it to be
what it was at the entry. `shown` is the stack slot that `stack_offset` renders
for a memory operand: it is asked before the slot is applied.

Runs: `stack_tracker` has two-bit words with a half of one bit, sp, zero and one
more register that is also the link register; addition wraps, and `addxi` meets
sums that fit and sums that do not. `stack_writeback` is the finding.

### FunctionCode, DirectReplay, ReplayCache, MCReplayCache, ReplayCacheProofs

`FunctionCode` is what a replay reads (bundles, recorded references, functions)
and what a fresh look at it says of a row; `ReplayCache` is the code of the
cache; `DirectReplay` is what the cache promises.

Addresses are cells of four bytes, two to a bundle. A row is its effect on a
register ("set", "clear", "keep"), the target of a direct branch and the address
an indirect branch goes to when the register is known. A tracker state is the
set of rows applied since the last restart with their effects: both trackers are
functions of exactly that, so two states are equal when these are. The effect of
an indirect branch's own row comes after its lookup.

`Emu` and `Out` are `tilegx_emu` and `tilegx_out_insn`; `Undefine`, `Patch` and
`Relayout` are what IDA and its user do in between; `Clear` is the event that
resets the cache. `Build` follows `FunctionReplayCache::build`, `ReplayUntil`
the two fallback replays, with their different treatment of join points:
a build restarts at the function's own branch targets and at recorded
references, the fallback at recorded references only, and not at the row asked
for. `view` records what an event got and what a fresh look at the function
would have given; the reference definition `StraightLineBefore` does not walk,
it quantifies over the rows of the function.

The key of the cache is the bounds of the function. The ghost `foreign` records
that since the build bytes were patched in the function, or a reference into it
came or went that the build did not foresee: one from outside the function, one
found through a known register, or one left by a cell that no longer decodes. `ViewsFresh` claims nothing in these states;
in all others, the cached state must be the fresh one. This is how the model
shows that the recording of direct branches during emulation, and their removal
when IDA analyses a row again, cannot change what an event sees.

`DirectReplay` has the same events and no cached states: an event at a row of the
body sees `StraightLineBefore` and records the references of that. Of the cache
it keeps the bounds of the function that was looked at last and the bit that a
change went unnoticed (`stale`, which is `foreign`). A look may build only for
another function, for a row outside the body, or when stale. While stale and not
built, and outside the body, nothing is said of what an event sees (`seen` is
empty and `known` is free). `AnswersDirectly` is its
specification under `Direct == INSTANCE DirectReplay WITH ...`, which drops
the cached states.

Run `replay_cache`: three bundles; images with two rows, one row and no row in a
bundle, a backward branch, a branch to a second row, an indirect branch and a
branch to an address that does not decode; layouts with one function, two
functions that meet inside a bundle, a function with a tail chunk, and none; one
patch. The cache holds one function, so two are enough to evict it.

### Strings, Bootstrap, MCBootstrap, BootstrapProofs

`Strings` is the heuristic of `strings.rs` with the window that
`likely_c_string` (`processor.cpp`) reads for it. A byte is one of six classes;
the limits are constants. The reference definitions below it read a text as a
whole, from a first to a last byte, where the code counts from an address up to
a window's end.

A bundle is four cells of two bytes, so that rows, bundles and strings can begin
at different cells. A row is how control leaves it, the operand it names and
what it shows of a prologue. `items` are IDA's items with their extent; the
flags `is_code`, `is_data`, `is_tail` and `is_unknown` are derived from them.
Creating an item fails when a cell of it is taken, as IDA's `create_*` functions
do, and `DeferRow` lets `create_insn` fail without a reason.

One action is one iteration of one loop: strings (`ScanString`), a popped address
(`DropRow`, `CreateRow`, `DeferRow`), a bundle that may begin a function
(`ScanFunction`), a skipped range (`SkipData`), a row on the way to main
(`RefineMain`), an item when gaps are filled (`ScanGap`). `pc` is the phase.
`ApplyNames` follows the pass for a new file. `has_strong_prologue` and
`create_data_range` change nothing that they read, and are operators.
The synthetic comments, and the tracker state that only they depend on, are left
out.

Fairness: `WF_vars(Next)`. The pass is one call in one event handler and nothing
else runs until it returns. The check for deadlock is off because the pass ends.

Runs: `bootstrap` has a segment of three and a half bundles; each bundle is one
of eight kinds (undecodable, frame set-up, forward, backward and conditional
jumps, a call out of the segment, and two kinds with two rows), so that every
triple is met, with no text, with a string across two bundles and with one that
touches the end; and segments of text only, with every sequence of byte classes
at their start, texts longer than a window, and texts before a hole. Strings
have two to four bytes and one letter, 70 percent of their bytes are common, so
that each threshold is met from both sides. The file is fresh or has one of two
sets of items left by an earlier analysis. `ScanLimit` is smaller than the
segment. `bootstrap_rows` uses fresh files only.

### DecodeTables, Isa, Decode, DecodeScan, DecodeProofs

A 64-bit word is the set of its one bits: a mask is a set of positions, and
`raw & mask == val` is an intersection. `DecodeTables` has the operand and opcode
tables of `generated.rs`, all of them. Encodings fall into a few formats per
pipe, so that an entry of the table is a list of formats and codes;
`OpcodeTable` makes the records of `tables.rs` from them.

`Isa` is what decoder and row analysis share: extraction of an operand with sign,
scale and address, the combination of base and displacement to one visible
operand, and the questions a `SlotView` answers about a slot. The tables are its
constants.

`Decode` is the abstract decoder: of the opcodes that match a word in a pipe the
one with the most fixed bits is taken, the first of the table among equals, and
there is a bundle if one pipe has a match. `DecodeScan` is the loop of
`decode_pipe`, one action per table entry, with the pair `best`, `best_pop`. It
implements `Decode`: `DecodesByBestMatch` is `Decode`'s specification under
`Abs == INSTANCE Decode WITH ...`, which maps the word and the decoded slots to
themselves and forgets the loop, so that its rounds are stutters.

Run `decode_scan`: an excerpt of the table that has the aliases (`ld4s_tls`,
`ld_tls`, `prefetch`), the narrower forms (`move` against `or`, `movei` against
`addi`) and ordinary entries before and after them; every word that one or two
encodings of a pipe match.

### RowAnalysis, MCBundles, RowProofs

`RowAnalysis` extends `Decode`. After decoding, `ListRow` analyses the row at the
current offset and goes on at its `next_offset` while control falls through; the
questions of `analysis.rs` (flags, references, register accesses, change of sp,
filler, start of a function) are operators over the row's slots.

Run `bundles`: the real tables, and some five thousand words. Each encoding of
each opcode is there with its free bits zero, one and mixed and with the
registers of a prologue in its fields; words one bit away from an encoding; words
that two encodings match; X and Y bundles that combine plain instructions,
control flow and memory accesses. All of the opcodes are met in all their pipes,
which makes the invariants statements about the tables and not about a sample of
them. What a row may combine beyond that are instructions that no analysis tells
apart.

### Frames, MCFrames, FramesProofs

One function with its rows. `BeginScan`, `ScanRow` and `FinishProlog` are
`analyze_prolog` with its loop; `CreateFuncFrame` is `ev_create_func_frame`,
`EmuRow` is what `tilegx_emu` does to the frame (`trace_stack_pointer`,
`create_stack_vars`), and `Enlarge` is the user. No event happens during a scan.
IDA may refuse a size or a variable, and `add_frame` fails when there is a frame.

Run `frames`: every function of up to three rows out of seven kinds, and one of
four rows with a scan that stops before the last; the limits of the counters are
the smallest that the assumption allows, so that a scan one row longer would
saturate.

### RawImage, MCRawImage, RawImageProofs

`accept_file` and `load_file` of `loader.cpp` over the detector of `raw.rs`. A
file is a sequence of bundles, and of a slot only what it does to tracked
constants is kept. `Evaluate` takes the sample (a read may come back short),
`ScoreBundle` is a round of the first loop; the second one is followed slot by
slot, as it may stop at any (`ScanUndecoded`, `ScanSlot`, `NextBundle`), and
`Judge` is the verdict;
`SelectProcessor`, `CreateSegment`, `LoadBytes`, `MarkEntry` are the steps of the
load, each of which IDA may refuse. Between the handlers `OtherLoader` moves the
position that all loaders share, and `FileChanges` writes one of `Rewrites` over
the input or spoils it: it is emptied, loses its last bundle, gets a rest or a
container's magic, or its first bundle is overwritten.

Run `raw_image`: images of two, four, six and eight bundles with undecodable bundles,
references built in two steps, in one bundle, lost in between, to the last and
behind the last byte; a container, a ragged file; one change, to any of six other
files or by spoiling. `Evidence` reads
a sample without a loop: every entry has the value that the chain of definitions
leading to it gives, and a bundle that does not decode defines every register. The limits are in
the order of the code's (score limit below sample limit), the scores one bundle
apart. The sample is five bundles: an image of six is longer than what was judged
and still fits the address space, one of eight does not.

## Properties

| Run | Property | Says |
|---|---|---|
| `words` | `AluIsBitExact` | every bit of every tracked result is right |
| `const_tracker` | `TypeOK` | no tracked value leaves the word |
| | `Sound` | a known register that is not stale holds the tracked value |
| | `ReportsTrue` | references and comments name what the machine uses |
| | `ForgetsOnlyWritten` | nothing is forgotten but what the bundle writes |
| `stack_tracker` | `TypeOK` | offsets stay words |
| | `OffsetsTrue` | a known offset that is neither stale nor moved is right |
| | `ShownTrue` | the stack slot shown is the one accessed |
| | `AliasesKept` | an alias ends only by a write or a join point |
| `replay_cache` | `TypeOK` | only addresses are recorded as targets |
| | `ViewsFresh` | the cached state is the fresh one |
| | `CacheCoversBody` | every row of the function is in the cache |
| | `ReplaysAgree` | the fallback agrees once all branches are recorded |
| | `AnswersDirectly` | the cache implements `DirectReplay`: it is transparent |
| `bootstrap` | `TypeOK` | no address outside the segment is followed |
| | `ItemsWellFormed` | items neither overlap nor leave the segment |
| | `EachAddressOnce` | an address is pushed and processed once |
| | `ReachedIsNotFill` | reached code is never filled with data |
| | `StringsFound` | the strings of a text are items, and string items are strings |
| | `Terminates` | the pass ends |
| `bundles` | `RoundTrip` | what a slot shows gives back the bits of the word |
| | `SlotsApart` | no two pipes of a bundle read one bit |
| | `OnlyAliasesTie` | the order of the table decides only a name |
| | `RolesShared` | asking the wrong pipe for an operand's role does no harm |
| | `RowsTile` | the rows of a bundle hold every slot once and fill it |
| | `StopHides` | a stop hides a slot of its bundle in one case, and which: the first pipe did not decode |
| | `FlagsMatchCflow` | the lists of mnemonics agree with the tables |
| | `RefsExact` | the targets reported are those encoded, with value and kind, once |
| | `AccessesExact` | no register access is lost or invented when entries merge |
| | `PrologueByTables` | what counts as a prologue is one by the tables |
| | `FillerWhole` | a bundle is filler as a whole or not at all |
| `decode_scan` | `DecodesByBestMatch` | the loop implements `Decode` |
| `frames` | `FrameCoversPrologue` | an accepted frame holds the stack of the prologue |
| | `NeverSaturates` | the counters of a scan stay inside their ranges |
| | `VarsNeedFramePointer` | one row at most has variables before the flag is set |
| | `FrameOnlyGrows` | no event makes a frame smaller |
| `raw_image` | `VerdictExact` | the verdict is what the sample says as a whole |
| | `NeverTakesOthers` | a container or a ragged file gets no segment |
| | `EvidenceLoaded` | the references that chose the base name loaded bytes |
| | `NoEntryWithoutCode` | a failed load leaves no entry |

Each of them is violated by at least one small change of the modelled code; the
changed definitions stand beside the original ones, marked "Faulty" or "Mutant".

## Findings

- **The zero register can be overwritten** (`const_zero`, `ZeroIsZero`).
  `set_const` (`types.rs:295`) stores into r63 like into any other register,
  `clear_const` (`types.rs:305`) spares it. After `movei zero, 1` the tracker
  resolves uses of zero to 1. The test at `tests.rs:806-809` expects a write of
  zero to an SPR to be shown as 0.
- **A write-back is not followed** (`stack_writeback`, `WriteBackSeen`).
  `StackAliases::apply` (`processor.cpp:521`) looks at a register in the first
  operand only. After `move r10, sp; st_add [r10], r1, 8` it still believes r10
  to be at sp and shows later operands through r10 as the wrong slot. The
  constant tracker handles this (`constprop.rs:75-84`), and the test
  `row_reg_accesses_mark_store_add_base_writeback` (`tests.rs:517`) says that
  the base is written.
- **The second row of a bundle is not created by the bootstrap pass**
  (`bootstrap_rows`, `CodeRowsCreated`). `item_blocks_code`
  (`processor.cpp:861`) looks at the whole bundle and takes the tail bytes of
  code items for an obstacle. Once row one is code, row two is refused, its
  branches are not followed, and a call in it does not reach the hint for main;
  `refine_main_hint` finds it later, possibly in bytes that have become gap data
  by then. `lib.rs:184` describes the row offsets of a bundle as those that
  "should be turned into IDA code items". The model also shows that
  `is_code(get_full_flags(row_ea))` in `create_reachable_row` can only be true
  for an address that was refused a few lines earlier.

## Proofs

`ConstTrackerProofs` proves, for every set of registers, word, operation set and
callee behaviour that satisfies the four assumptions of `ConstTracker`:

- `TypeCorrect`: `Spec => []TypeOK`,
- `TrackerSound`: `Spec => []Sound`,
- `ReportsSound`: `Spec => []ReportsTrue`,
- `ForgetsLittle`: `Spec => ForgetsOnlyWritten`,

the first three from `Invariance`: `Spec => []IInv` with
`IInv == TypeOK /\ BundleOK /\ Sound /\ ReportsTrue`. `Sound` is not inductive
by itself: a slot computes from the tracked values but the machine computes from
`pre`, so the step needs `BundleOK`, that `pre` and `regs` agree on every
register the bundle has not written, and that zero reads as zero. The lemma
`SourceAgrees` is the heart of it: a known register that is neither stale nor
written in this bundle has the same value in the tracker and in `pre`. Each
lemma `...Keeps` is one group of actions; `LoadAddKeeps` is the longest because
two registers change in the order in which the code changes them.
`ForgetsLittle` needs no invariant, only what each step does.
The arithmetic is a parameter of these proofs (`AluAssumption` asks only that
results are words), which is what lets `Words` be checked apart from them.

`StackTrackerProofs` proves, for every set of registers and every word whose
addition is closed, associative and has 0 as its neutral element
(`PlusAssumption`; `NarrowAssumption` only asks that narrowing stays in the word,
`ClobberAssumption` that a callee keeps sp):

- `TypeCorrect`, `OffsetsSound`, `ShownSound`: `Spec => []TypeOK`,
  `[]OffsetsTrue`, `[]ShownTrue`, from `Invariance`: `Spec => []IInv` with
  `IInv == TypeOK /\ BundleOK /\ OffsetsTrue /\ ShownTrue`. As for the constant
  tracker, an offset is only right after a slot if the slot read what the tracker
  thinks it read (`SourceAgrees`). `MovedAlike` is where associativity is needed:
  the machine adds the immediate to a register that is sp plus an offset, the
  code adds it to the offset.
- `AliasesLast`: `Spec => AliasesKept`, from the steps alone.

`DecodeProofs` proves for every table that satisfies `OpcodesAssumption` (masks
and values are sets of bit positions), every set of words and of addresses:

- `LoopInvariant`: `Spec => []IInv`, the loop invariant `BestOfSeen` with the
  types it needs. `OneMoreEntry` is the comparison of the loop: a strictly more
  specific match replaces the candidate, so that the first among equals stays.
- `LoopKeepsBest`: `Spec => []BestOfSeen`, the part of it that is about the
  candidate; no run checks it, the refinement rests on it.
- `ScanImplementsDecode`: `Spec => DecodesByBestMatch`. At the end of the table
  the invariant says that the candidate is the best of all entries, which is the
  guard of the abstract step; the other rounds are stutters.

`RowProofs` proves, for every table that satisfies the named assumptions, and so
for all 2^64 words and not only those of the run:

- `PipesIndependent` (`SlotsApart`), `TiesAreAliases` (`OnlyAliasesTie`),
  `RolesOfAnyPipe` (`RolesShared`): what decides them is data, and the assumptions
  say it of the data: `PipesAssumption` that what two pipes of one format read shares
  no bit but those of the format, `AliasAssumption` that two encodings that can match one word
  with equally many fixed bits differ in name only, `RolesAssumption` that the pipes of an
  opcode agree on its operands. TLC evaluates them over the whole of
  `generated.rs` at every run of `bundles`. The proofs carry them to the slots of
  a word: decoding takes slots from the pipes of one format only.
- `RowsDoTile` (`RowsTile`), `FillerIsWhole` (`FillerWhole`): from the loop
  invariant `Listing`: the rows listed are none, the first or both, and each is the one
  that the slots give.
- `StopHidesExactly` (`StopHides`): only a slot of the second pipe changes the flow
  (`ControlAssumption`, evaluated likewise). If the first pipe decoded, a stop is in
  the last row; if not, it is the first row (`FirstRowStops`) and the walk never comes
  to the third slot, although the three execute together. The theorem says that
  this is all that a walk hides. The run meets the case: its bundles include
  every jump in the second pipe with each memory access in the third and bits in the
  first that no opcode has.
- `FlagsAreCflow` (`FlagsMatchCflow`): the lists of mnemonics against the table.
- `DecodeLosesNothing` (`RoundTrip`): a field is the sum of its bits' powers of two,
  as a recursive function from the highest bit down; `FieldFacts` recovers each bit by
  division, `Undone` takes sign, scale and address back, `ShownIs` finds every raw
  operand in what the slot shows, base and displacement in its memory operand
  included. `FieldsAssumption` says that an operand fills its field bit by bit,
  `MemoryAssumption` that base and displacement are two operands of the opcode and
  nothing else is hidden.
- `RefsAreExact` (`RefsExact`) and `AccessesAreExact` (`AccessesExact`): a row has its
  slots in order (`RowOrder`), what they list is laid end to end (`Flattened`), and
  the limits of twelve and sixteen entries are never met. `SlotRefsAre` finds in the one
  reference of a slot the value that the slot shows for its address operand; that this
  value is the word's is `DecodeLosesNothing`. `AddAccess` is one round
  of `RegAccessBuilder::add`: as long as there is room, merging changes nothing about
  who reads or writes what. `SlotAccesses` and `TableRegsAre` join that to the tables.
  `TargetsAssumption`: an opcode has one address at most, in bundles from its own.
  `AccessAssumption`: a register operand is read or written, so that the fallback
  for an operand without a role never applies to one.
- `PrologueIsByTables` (`PrologueByTables`): `PrologueAssumption` says of the entries
  named `addi`, `addli`, `addxi`, `addxli` and of the stores what operands they have;
  the additions are not in the third pipe of the Y format, the only one that adds a
  second slot to a row.

`ReplayCacheProofs` proves, for every address range, set of images, set of layouts
and number of patches:

- `Invariance`: `Spec => []IInv`. `ViewsFresh` speaks of the last event only; what
  the next one needs is that the cached states are, unless `foreign`, those a fresh
  look would give now, for every row of the function (`Fresh`). `RefsKeepFresh` is
  why recording a branch of the function changes none of them: a build restarts at
  all of its branch targets already.
- `Types`, `ViewsAreFresh`, `BodyIsCovered`, `ReplaysDoAgree`: the four properties of
  the run. The cursors of a build and of a replay are recursive functions; what
  they visit is shown to be what `StraightLineBefore` quantifies over.
- `CacheIsTransparent`: `Spec => AnswersDirectly`. `StateIsFresh` is what a lookup
  leaves and hands out, whether it built or not; `LookupAnswers` makes a step of
  `DirectReplay` of it, with `built` for the code's decision to build and `known` for
  what the handler then knows of its register. Two functions never own one cell
  (`LayoutsAssumption`, `OneOwner`), so that the event and the cache speak of the
  same one. The other events leave the key alone, and what is unforeseen depends
  on nothing else of the cache (`SameUnforeseen`).

The attempt found a mistake of an earlier version of the model: it took every
reference that left with a reanalysed row for foreseen, also one from a cell that
had stopped decoding in the meantime, for which `ViewsFresh` is false. TLC had not
met it in its instance; `Foreseen` now says what a build foresees.

`FramesProofs` proves, for every set of functions that are sequences of rows and
every limit and width with `WidthAssumption` (the limit is a number of rows, and
a limit's worth of immediates fits both counters; in the code 256 bytes of
16-bit immediates against 32 and 64 bits):

- `FrameInvariant`: `Spec => []IInv`. `NeverSaturates` is not inductive: the sum
  must be tied to what was read. The invariant says that four times the sum is at
  most the bytes read times the largest immediate, that these are a multiple of
  the smallest row, and that frame size and minimum cancel.
- `ScanNeverSaturates`, `VarsOfOneRow`, `FrameGrows`: the run's properties. The
  second needs `OneRowAtMost`: no frame means no variables, and otherwise they
  belong to the row for which `add_frame` succeeded.
- `PrologueCovered` (`FrameCoversPrologue`) from `CoverInv`: what the scan has summed
  up is the sum over the rows it has read (`ScanReads`).

`BootstrapProofs` proves, for every segment, every content of it, every earlier set
of well-formed items and every scan limit:

- `PassInvariant`: `Spec => []IInv`. `IInv` adds to the types what the loops leave
  to each other: there is no gap data before the stack was drained for the second
  time, the stack stays empty from then on, the walk to main has an entry, and
  every popped row is `Handled` (an item other than gap data is in its bundle, or
  it was left to IDA). The last one is why the fill comes last in the code: a
  bundle is dropped because of an item in it, and that item must not be gap data.
- `StaysInSegment`, `HandlesOnce`, `ItemsApart`, `ReachedNotFilled`: the run's
  `TypeOK`, `EachAddressOnce`, `ItemsWellFormed` and `ReachedIsNotFill`.
  `EnqueueKeeps` and `PopKeeps` are the stack; `AddItems` is that an overlap with an
  older item has a first cell, which was free; `RunsApart`, `PiecesApart` and
  `DataFits` are `create_data_range`.
- `EveryStringFound` (`StringsFound`): `StringsInv` says it of the addresses below the
  cursor. `WindowAt` is what the window of the code holds, `CountedAt` where the count in it
  stops, and `FoundIsString` and `DueIsFound` are the two directions. A string
  that begins inside one that was made ends at the same terminator, since a string
  holds no other (`NoNulInside`).

`RawImageProofs` proves, for every set of inputs and of files that may be written over
them, every register set and every
limit with `SizesAssumption` (the smallest size is a bundle or more, and the scan
for the base may look at that much):

- `LoadInvariant`: `Spec => []IInv`: a counted reference comes from a sample with
  bundles, which is the beginning of the file; an accepting verdict is about the
  file as it is now; the database is filled in the order of `load_file`.
- `TakesRawOnly`, `EntryOverCode`: the run's properties. They hold although the
  file may change between the handlers because `load_file` judges again.
- `DetectorInvariant`: `Spec => [](IInv /\ ExactInv)`. The verdict is about the
  whole sample, the loop knows what is behind it: `ScanExact` says that the tracker
  holds for every register the value of its last definition (`Known`), and that
  the hits are the evidence among the entries behind (`Seen`). `KnownBehindSlot` and
  `KnownBehindBarrier` are one step of that, `EntryAt` is where the slots of a
  bundle are among all entries, and `JudgeExact` that a scan which stops at its
  second hit has seen enough.
- `VerdictIsExact`, `EvidenceIsLoaded`: the run's `VerdictExact` and
  `EvidenceLoaded`.

Recursion and induction. The library's induction theorems take an operator as a
parameter and cannot be used, but a least counterexample can: `LeastNat` (from
`NatLessThanWellFounded`) gives the smallest element of a set of natural numbers,
and the set of the arguments for which a claim is false is such a set. That a
recursive function exists, and what it computes for every argument, is proved in
this way (`FlatsExist`, `ValuesExist`, `FlatsPrefix`, `FieldExists`, `FieldFacts`,
`FilterLists`, `BuiltRegs`). The lists of row analysis and the field of an operand are
written as such functions (`Kept`, `FieldOf`, `row_reg_accesses`), each the loop of the
code.

Only model-checked:

- `AluIsBitExact`: `Words` needs `Bitwise`, which no prover reads.
- `Terminates`: liveness is beyond the prover.
- The three findings are counterexamples of TLC.

## Not modelled

- Text: mnemonics, operands, SPR and slot names, automatic and synthetic comments,
  the writing of text into buffers (`CStrBuf` and the functions of `lib.rs` that
  return text). The tracker state that the bootstrapper carries for its synthetic
  comments goes with them.
- The C interface's null checks and layout assertions, the probe program, the
  generator of the tables with its input, and the C header of names: data or
  straight-line checks.
- The order of `ev_newfile`, `ev_oldfile` and `ev_term` over several segments.
  `bootstrap_segments` (`processor.cpp:1227-1236`) runs a pass for one segment
  after the other, each with a state of its own and within its own segment, and
  takes the names from the first pass that found an entry.
- The depth of a tracked constant, which nothing reads.
- Addresses near the ends of the 64-bit range in the decoder: values are integers
  there (`Words` has the wrapping arithmetic of the trackers).

## Plan

1. *Done:* Words, ConstTracker with its proofs.
2. *Done:* ReplayCache with its proofs.
3. *Done:* Bootstrap, with Strings.
4. *Done:* StackTracker.
5. *Done:* DecodeTables, Isa, Decode, DecodeScan with the refinement and its
   proof; RowAnalysis with the proofs about rows and tables.
6. *Done:* Frames with its proofs.
7. *Done:* RawImage with its proofs, those of the verdict included.
8. Lifecycle: newfile, oldfile and term, several segments, entries; composes
   Bootstrap's result with ReplayCache's `Clear`.
9. An abstract worklist (what is reached from a root set) that Bootstrap's drain
   implements, as a refinement. *Done:* the abstract replay (state is a function
   of the code) that ReplayCache implements while nothing foreign happens.
10. *Done:* proofs of StackTracker and of Bootstrap's safety, the strings included.
11. *Done:* proofs of `RoundTrip`, `RefsExact`, `AccessesExact` and
    `PrologueByTables`.
