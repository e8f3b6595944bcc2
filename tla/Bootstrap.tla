------------------------------ MODULE Bootstrap ------------------------------
(***************************************************************************)
(* SegmentBootstrapper (src/src/processor.cpp:825-1212): the pass over one *)
(* segment that ev_newfile and ev_oldfile make before IDA's own analysis.  *)
(* It turns likely strings into string items, follows control flow from    *)
(* the first bundle and from bundles that look like function entries to    *)
(* create code items, turns the bytes that jumps skip into data items, and *)
(* guesses which call reaches main.                                        *)
(*                                                                         *)
(* A bundle is scaled down to four cells.  It holds no row, one row of four*)
(* cells, or two rows of two cells.  As text, a cell is one byte.  A step  *)
(* is one iteration of one of the loops; the call runs to its end without  *)
(* IDA doing anything in between.                                          *)
(***************************************************************************)
EXTENDS Strings, SequencesExt

CONSTANTS
    SegStart, SegEnd,  \* the segment is the cells SegStart .. SegEnd - 1
    Contents,          \* what it may hold: [image |-> its bundles, as functions
                       \* from their addresses, text |-> its bytes, from cells]
    OldItems,          \* sets of items that may exist when the pass starts
    ScanLimit,         \* PROLOG_SCAN_LIMIT, in cells
    None               \* BADADDR

BundleSize == 4
AlignDown(c) == c - (c % BundleSize)
AlignUp(c) == AlignDown(c + BundleSize - 1)

Cell == SegStart .. (SegEnd - 1)
Address == 0 .. (AlignUp(SegEnd) + BundleSize)
BundleAt == {c \in Address : c % BundleSize = 0}

(* A row: how control leaves it, the operand it names, and what it shows   *)
(* of a prologue: a slot whose first operand is sp, a slot that opens a    *)
(* frame or sets up the frame pointer, a slot that saves the link register.*)
Rows == [kind : {"plain", "call", "cond", "jump", "ret"},
         target : Address \cup {None}, marks : SUBSET {"sp", "frame", "link"}]

Bundles == [rows : 0 .. 2, first : Rows, second : Rows]

(* IDA's items: "string" is one that this pass made, "fill" is data that   *)
(* create_data_range made; a string of an earlier analysis is "data".      *)
Items == [at : Address, len : Nat \ {0}, kind : {"code", "string", "data", "fill"}]

ASSUME SegmentAssumption ==
    SegStart \in Nat /\ SegEnd \in Nat /\ SegStart < SegEnd /\ ScanLimit \in Nat

(* Items neither overlap nor leave the segment. *)
WellFormed(is) ==
    /\ \A i \in is : SegStart <= i.at /\ i.at + i.len <= SegEnd
    /\ \A i, j \in is : i # j => i.at + i.len <= j.at \/ j.at + j.len <= i.at

ASSUME NoneAssumption == None \notin Address

ASSUME ContentsAssumption ==
    \A content \in Contents :
        /\ content.image \in [BundleAt -> Bundles]
        /\ content.text \in [Cell -> ByteClasses]
        /\ \A c \in Cell :
            content.text[c] = "unloaded" => content.image[AlignDown(c)].rows = 0

ASSUME OldItemsAssumption ==
    \A old \in OldItems :
        old \subseteq Items /\ WellFormed(old) /\ \A i \in old : i.kind \in {"code", "data"}

VARIABLES
    image, text,     \* the bytes: what they decode to, and what they read as
    items,           \* IDA's items: code, strings and data
    autoq,           \* addresses handed to auto_make_code
    funcs,           \* functions added
    pc,              \* the loop that is running
    cursor,          \* its position
    pending,         \* pending_: a stack
    visited,         \* visited_: addresses pushed so far
    probable,        \* probable_function_starts_
    skipped,         \* skipped_data_: ranges <<start, end>>
    entry, main,     \* entry_ea_ and main_ea_
    sawSetup,        \* saw_stack_setup_ of the loop that is running
    processed        \* ghost: addresses popped so far

bytes == <<image, text>>
hints == <<entry, main, sawSetup>>
vars == <<image, text, items, autoq, funcs, pc, cursor, pending, visited,
          probable, skipped, entry, main, sawSetup, processed>>

-----------------------------------------------------------------------------
(* Decoding *)

RowsAt(c) == image[AlignDown(c)].rows

Decodes(c) == CASE c % BundleSize = 0 -> RowsAt(c) > 0
                [] c % BundleSize = 2 -> RowsAt(c) = 2
                [] OTHER -> FALSE

Row(c) == IF c % BundleSize = 0 THEN image[AlignDown(c)].first
                                ELSE image[AlignDown(c)].second

NextRow(c) == IF RowsAt(c) = 2 /\ c % BundleSize = 0 THEN c + 2
              ELSE AlignDown(c) + BundleSize

RowSize(c) == NextRow(c) - c

Stops(c) == Row(c).kind \in {"jump", "ret"}
Jumps(c) == Row(c).kind \in {"jump", "cond", "ret"}
Calls(c) == Row(c).kind = "call"
SetsUpStack(c) == "sp" \in Row(c).marks

InSegment(c) == c # None /\ SegStart <= c /\ c < SegEnd

(* References of kind TG_CREF_CALL and TG_CREF_JUMP. *)
CallTarget(c) == IF Calls(c) THEN Row(c).target ELSE None
JumpTarget(c) == IF Row(c).kind \in {"jump", "cond"} THEN Row(c).target ELSE None

-----------------------------------------------------------------------------
(* IDA's items.  Creating an item fails when something is in the way.      *)

Covers(i, c) == i.at <= c /\ c < i.at + i.len

IsUnknown(c) == ~\E i \in items : Covers(i, c)
IsCode(c) == \E i \in items : i.at = c /\ i.kind = "code"
IsData(c) == \E i \in items : i.at = c /\ i.kind # "code"
IsTail(c) == \E i \in items : Covers(i, c) /\ i.at # c

(* get_item_size; an unexplored byte counts as one. *)
ItemEnd(c) == IF IsUnknown(c) THEN c + 1
              ELSE LET i == CHOOSE j \in items : Covers(j, c) IN i.at + i.len

(* range_is_unknown *)
Free(s, e) == \A c \in s .. (e - 1) : IsUnknown(c)

(* item_blocks_code: the tail cells of code items block as well. *)
ItemBlocksCode(s, e) == \E c \in s .. (e - 1) : ~IsCode(c) /\ (IsData(c) \/ IsTail(c))

Item(s, e, kind) == [at |-> s, len |-> e - s, kind |-> kind]

-----------------------------------------------------------------------------
(* create_strings *)

(* A string item includes the terminator. *)
StringEnd(c, len) == Min({SegEnd, c + len + 1})

ScanString ==
    /\ pc = "strings" /\ cursor < SegEnd
    /\ LET len == StringLength(text, cursor, SegEnd)
           end == StringEnd(cursor, len)
       IN  IF len > 0 /\ Free(cursor, end)
           THEN /\ items' = items \cup {Item(cursor, end, "string")}
                /\ cursor' = cursor + len + 1
           ELSE /\ cursor' = cursor + 1
                /\ UNCHANGED items
    /\ UNCHANGED <<bytes, autoq, funcs, pc, pending, visited, probable, skipped,
                   hints, processed>>

(* Faulty: an address is pushed whenever it is reached. *)
EnqueueAgain(q, c) ==
    IF InSegment(c)
    THEN [pending |-> Append(q.pending, c), visited |-> q.visited \cup {c}]
    ELSE q

(* Faulty: addresses outside the segment are followed as well. *)
EnqueueAnywhere(q, c) ==
    IF c \notin q.visited
    THEN [pending |-> Append(q.pending, c), visited |-> q.visited \cup {c}]
    ELSE q

(* enqueue_code, on pending_ and visited_ together. *)
EnqueueCode(q, c) ==
    IF InSegment(c) /\ c \notin q.visited
    THEN [pending |-> Append(q.pending, c), visited |-> q.visited \cup {c}]
    ELSE q

Queue == [pending |-> pending, visited |-> visited]

QueueBecomes(q) == pending' = q.pending /\ visited' = q.visited

StartCode ==
    /\ pc = "strings" /\ cursor >= SegEnd
    /\ pc' = "drain"
    /\ QueueBecomes(EnqueueCode(Queue, AlignUp(SegStart)))
    /\ UNCHANGED <<bytes, items, autoq, funcs, cursor, probable, skipped, hints, processed>>

-----------------------------------------------------------------------------
(* create_reachable_row *)

(* Faulty: the end of the segment is not checked. *)
UnusableUnclipped(c) ==
    LET b == AlignDown(c)
    IN  ItemBlocksCode(b, b + BundleSize) \/ ~Decodes(c)

(* Not a whole bundle of the segment, in the way of an item, or no row. *)
Unusable(c) ==
    LET b == AlignDown(c)
    IN  \/ b < SegStart \/ b + BundleSize > SegEnd
        \/ ItemBlocksCode(b, b + BundleSize)
        \/ ~Decodes(c)

(* update_entry_hints *)
EntryHints(c) ==
    /\ entry' = IF entry = None THEN c ELSE entry
    /\ sawSetup' = (sawSetup \/ SetsUpStack(c))
    /\ main' = IF sawSetup' /\ main = None /\ InSegment(CallTarget(c))
               THEN CallTarget(c) ELSE main

(* enqueue_row_targets: the reference, then the row behind this one.       *)
EnqueueTargets(q, c) ==
    LET after_ref == EnqueueCode(q, Row(c).target)
    IN  IF Stops(c) THEN after_ref ELSE EnqueueCode(after_ref, NextRow(c))

(* record_skipped_data *)
SkippedBy(c) ==
    LET gap == c + RowSize(c)
        t == JumpTarget(c)
    IN  IF Stops(c) /\ InSegment(t) /\ t > gap THEN <<<<gap, t>>>> ELSE <<>>

Top == pending[Len(pending)]
Rest == SubSeq(pending, 1, Len(pending) - 1)

Pop ==
    /\ pc \in {"drain", "drain2"} /\ pending # <<>>
    /\ processed' = processed \cup {Top}

DropRow ==
    /\ Pop
    /\ Unusable(Top)
    /\ pending' = Rest
    /\ UNCHANGED <<bytes, items, autoq, funcs, pc, cursor, visited, probable, skipped, hints>>

CreateRow ==
    /\ Pop
    /\ ~Unusable(Top)
    /\ IsCode(Top) \/ Free(Top, Top + RowSize(Top))
    /\ items' = IF IsCode(Top) THEN items
                ELSE items \cup {Item(Top, Top + RowSize(Top), "code")}
    /\ EntryHints(Top)
    /\ QueueBecomes(EnqueueTargets([pending |-> Rest, visited |-> visited], Top))
    /\ skipped' = skipped \o SkippedBy(Top)
    /\ UNCHANGED <<bytes, autoq, funcs, pc, cursor, probable>>

(* create_insn may refuse; the address is left to IDA's analysis then. *)
DeferRow ==
    /\ Pop
    /\ ~Unusable(Top) /\ ~IsCode(Top)
    /\ pending' = Rest
    /\ autoq' = autoq \cup {Top}
    /\ UNCHANGED <<bytes, items, funcs, pc, cursor, visited, probable, skipped, hints>>

(* The stack is empty: look for functions, or go on after that. *)
Drained ==
    /\ pc \in {"drain", "drain2"} /\ pending = <<>>
    /\ pc' = IF pc = "drain" THEN "probable" ELSE "skipped"
    /\ cursor' = IF pc = "drain" THEN AlignUp(SegStart) ELSE 1
    /\ UNCHANGED <<bytes, items, autoq, funcs, pending, visited, probable, skipped,
                   hints, processed>>

-----------------------------------------------------------------------------
(* enqueue_probable_functions *)

(* The rows that fall through from c up to d, d included. *)
Chain(c, d) ==
    LET reached[x \in c .. d] ==
            x = c \/ \E y \in c .. (x - 1) : reached[y] /\ Decodes(y) /\ NextRow(y) = x
    IN  {x \in c .. d : reached[x]}

(* has_strong_prologue: before control leaves and before an item or the    *)
(* scan limit is met, the link register is saved and a frame is opened.    *)
StrongPrologue(c) ==
    /\ Decodes(c) /\ Row(c).marks \cap {"frame", "link"} # {}
    /\ \E d \in c .. (Min({SegEnd, c + ScanLimit}) - 1) :
         LET rows == Chain(c, d)
         IN  /\ d \in rows
             /\ \A x \in rows :
                  /\ Decodes(x)
                  /\ SegStart <= AlignDown(x) /\ AlignDown(x) + BundleSize <= SegEnd
                  /\ Free(AlignDown(x), AlignDown(x) + BundleSize)
             /\ \A x \in rows \ {d} : ~Jumps(x) /\ ~Calls(x)
             /\ {"link", "frame"} \subseteq UNION {Row(x).marks : x \in rows}

ScanFunction ==
    /\ pc = "probable" /\ cursor + BundleSize <= SegEnd
    /\ cursor' = cursor + BundleSize
    /\ IF /\ cursor \notin visited
          /\ Free(cursor, cursor + BundleSize)
          /\ StrongPrologue(cursor)
       THEN /\ probable' = probable \cup {cursor}
            /\ QueueBecomes(EnqueueCode(Queue, cursor))
       ELSE UNCHANGED <<probable, pending, visited>>
    /\ UNCHANGED <<bytes, items, autoq, funcs, pc, skipped, hints, processed>>

(* Faulty: what the scan pushed is not followed. *)
FunctionsScannedNoDrain ==
    /\ pc = "probable" /\ cursor + BundleSize > SegEnd
    /\ pc' = "skipped" /\ cursor' = 1
    /\ UNCHANGED <<bytes, items, autoq, funcs, pending, visited, probable,
                   skipped, hints, processed>>

FunctionsScanned ==
    /\ pc = "probable" /\ cursor + BundleSize > SegEnd
    /\ pc' = "drain2"
    /\ UNCHANGED <<bytes, items, autoq, funcs, cursor, pending, visited, probable,
                   skipped, hints, processed>>

-----------------------------------------------------------------------------
(* create_data_range: every run of unknown cells becomes a byte item up to *)
(* the next bundle boundary, whole bundles as quadwords, and a byte item.  *)

Runs(s, e) ==
    {run \in (s .. e) \X (s .. e) :
        /\ run[1] < run[2]
        /\ Free(run[1], run[2])
        /\ run[1] = s \/ ~IsUnknown(run[1] - 1)
        /\ run[2] = e \/ ~IsUnknown(run[2])}

Pieces(a, b) ==
    LET q == AlignUp(a)
        z == Max({q, AlignDown(b)})
    IN  IF q >= b THEN {<<a, b>>} ELSE {<<a, q>>, <<q, z>>, <<z, b>>}

DataIn(s, e) ==
    {Item(p[1], p[2], "fill") :
        p \in {p \in UNION {Pieces(run[1], run[2]) : run \in Runs(s, e)} : p[1] < p[2]}}

(* create_skipped_data, one range after the other. *)
SkipData ==
    /\ pc = "skipped" /\ cursor <= Len(skipped)
    /\ cursor' = cursor + 1
    /\ items' = items \cup DataIn(Max({skipped[cursor][1], SegStart}),
                                  Min({skipped[cursor][2], SegEnd}))
    /\ UNCHANGED <<bytes, autoq, funcs, pc, pending, visited, probable, skipped,
                   hints, processed>>

(* create_probable_functions, and the start of refine_main_hint. *)
AddFunctions ==
    /\ pc = "skipped" /\ cursor > Len(skipped)
    /\ funcs' = funcs \cup {c \in probable : IsCode(c)}
    /\ IF entry = None \/ main # None
       THEN pc' = "gaps" /\ cursor' = SegStart /\ sawSetup' = sawSetup
       ELSE pc' = "refine" /\ cursor' = entry /\ sawSetup' = FALSE
    /\ UNCHANGED <<bytes, items, autoq, pending, visited, probable, skipped,
                   entry, main, processed>>

-----------------------------------------------------------------------------
(* refine_main_hint: follow the code from the entry, through forward jumps *)
(* only, to the first call after the stack is set up.                      *)

ScanEnd == Min({SegEnd, entry + ScanLimit})

MainCalledAt(c) == (sawSetup \/ SetsUpStack(c)) /\ InSegment(CallTarget(c))

(* Faulty: backward jumps are followed as well. *)
RefineNextBackwards(c) == IF ~Stops(c) THEN NextRow(c) ELSE JumpTarget(c)

(* Where the walk goes from c, None when it ends. *)
RefineNext(c) ==
    LET t == JumpTarget(c)
    IN  CASE ~Stops(c) -> NextRow(c)
          [] Stops(c) /\ InSegment(t) /\ t > c /\ t < ScanEnd -> t
          [] OTHER -> None

EndRefine == pc' = "gaps" /\ cursor' = SegStart

RefineMain ==
    /\ pc = "refine"
    /\ IF cursor >= ScanEnd \/ ~Decodes(cursor)
       THEN EndRefine /\ UNCHANGED <<main, sawSetup>>
       ELSE IF MainCalledAt(cursor)
       THEN EndRefine /\ main' = CallTarget(cursor) /\ UNCHANGED sawSetup
       ELSE /\ sawSetup' = (sawSetup \/ SetsUpStack(cursor))
            /\ UNCHANGED main
            /\ IF RefineNext(cursor) = None THEN EndRefine
               ELSE cursor' = RefineNext(cursor) /\ pc' = pc
    /\ UNCHANGED <<bytes, items, autoq, funcs, pending, visited, probable, skipped,
                   entry, processed>>

-----------------------------------------------------------------------------
(* create_jump_gap_data: over all code items, whoever created them.        *)

ScanGap ==
    /\ pc = "gaps" /\ cursor < SegEnd
    /\ IF ~IsCode(cursor) \/ ~Decodes(cursor)
       THEN cursor' = ItemEnd(cursor) /\ UNCHANGED items
       ELSE /\ cursor' = NextRow(cursor)
            /\ LET gap == cursor + RowSize(cursor)
                   t == JumpTarget(cursor)
               IN  IF Stops(cursor) /\ InSegment(t) /\ t > gap
                   THEN items' = items \cup DataIn(gap, t)
                   ELSE UNCHANGED items
    /\ UNCHANGED <<bytes, autoq, funcs, pc, pending, visited, probable, skipped,
                   hints, processed>>

Finish ==
    /\ pc = "gaps" /\ cursor >= SegEnd
    /\ pc' = "done"
    /\ UNCHANGED <<bytes, items, autoq, funcs, cursor, pending, visited, probable,
                   skipped, hints, processed>>

(* apply_bootstrap_names, on a new file without entries.  The bytes at     *)
(* main may be something else by now; a function needs code at its start.  *)
ApplyNames ==
    /\ pc = "done"
    /\ pc' = "named"
    /\ IF entry = None
       THEN UNCHANGED <<items, funcs>>
       ELSE /\ items' = IF /\ main \notin {None, entry} /\ Decodes(main)
                           /\ Free(main, main + RowSize(main))
                           /\ main + RowSize(main) <= SegEnd
                        THEN items \cup {Item(main, main + RowSize(main), "code")}
                        ELSE items
            /\ funcs' = funcs \cup {c \in {entry, main} :
                                       \E i \in items' : i.at = c /\ i.kind = "code"}
    /\ UNCHANGED <<bytes, autoq, cursor, pending, visited, probable, skipped,
                   hints, processed>>

-----------------------------------------------------------------------------

(* Code items of an earlier analysis are rows of the image. *)
Fits(old) == \A i \in old : i.kind = "code" => Decodes(i.at) /\ i.len = RowSize(i.at)

Init ==
    /\ \E content \in Contents : image = content.image /\ text = content.text
    /\ items \in OldItems /\ Fits(items)
    /\ autoq = {} /\ funcs = {}
    /\ pc = "strings" /\ cursor = SegStart
    /\ pending = <<>> /\ visited = {} /\ probable = {} /\ skipped = <<>>
    /\ entry = None /\ main = None /\ sawSetup = FALSE
    /\ processed = {}

Next ==
    \/ ScanString \/ StartCode
    \/ DropRow \/ CreateRow \/ DeferRow \/ Drained
    \/ ScanFunction \/ FunctionsScanned
    \/ SkipData \/ AddFunctions
    \/ RefineMain
    \/ ScanGap \/ Finish
    \/ ApplyNames

Spec == Init /\ [][Next]_vars

(* The event handler is one call that nothing interrupts. *)
FairSpec == Spec /\ WF_vars(Next)

-----------------------------------------------------------------------------
(* Properties *)

TypeOK ==
    /\ items \subseteq Items
    /\ autoq \subseteq Cell /\ funcs \subseteq Cell
    /\ pc \in {"strings", "drain", "probable", "drain2", "skipped", "refine", "gaps", "done", "named"}
    /\ cursor \in Nat
    /\ pending \in Seq(Cell) /\ visited \subseteq Cell /\ probable \subseteq Cell
    /\ entry \in Cell \cup {None} /\ main \in Cell \cup {None}
    /\ sawSetup \in BOOLEAN

(* Items never overlap and never leave the segment, whatever strings, code *)
(* and gaps meet (processor.cpp:883-896, 958-988, 1145-1182).              *)
ItemsWellFormed == WellFormed(items)

(* An address is pushed at most once, and everything pushed is processed   *)
(* or still on the stack (processor.cpp:849-859, 950-956).                 *)
EachAddressOnce ==
    /\ \A i, j \in DOMAIN pending : pending[i] = pending[j] => i = j
    /\ ToSet(pending) \cap processed = {}
    /\ ToSet(pending) \cup processed = visited

(* Bytes that control flow was found to reach do not become gap data: when *)
(* the pass ends, a reached bundle of the segment that decodes is code, was*)
(* left to IDA's analysis, or was taken before the pass got to it          *)
(* (processor.cpp:935-948, 1174-1211).                                     *)
ReachedIsNotFill ==
    pc = "done" =>
        \A c \in visited :
            c % BundleSize = 0 /\ c + BundleSize <= SegEnd /\ Decodes(c) =>
                \/ c \in autoq
                \/ \E i \in items : /\ i.kind # "fill"
                                   /\ \E x \in c .. c + BundleSize - 1 : Covers(i, x)

(* An old item is in the way of the cells a to b. *)
InTheWay(a, b) == \E i \in items : i.kind # "string" /\ \E c \in a .. b : Covers(i, c)

Found(a, b) == Item(a, b + 1, "string") \in items

(* The search for strings (create_strings, processor.cpp:883-896) makes an *)
(* item of every string and of nothing else.  An item is a string with its *)
(* terminator.  Behind the cursor, a text that is a string as a whole, the *)
(* longest one included, is one item; an item begins later than its text   *)
(* only if no earlier start gives a string.  Exempt is what an older item  *)
(* is in the way of, and what is followed by a hole within the window.     *)
StringsFound ==
    pc = "strings" =>
        /\ \A i \in items : i.kind = "string" => IsCString(text, i.at, i.at + i.len - 1)
        /\ \A a \in SegStart .. cursor - 1 : \A b \in a .. cursor - 1 :
            IsCString(text, a, b) /\ Readable(text, a) /\ ~InTheWay(a, b) =>
                /\ Begins(text, a) => Found(a, b)
                /\ \E s \in SegStart .. a : Found(s, b)

(* The pass ends: backward jumps, jumps to themselves, overlapping ranges  *)
(* and unaligned segment ends included (processor.cpp:950-956, 1012-1057,  *)
(* 1145-1211).                                                             *)
Terminates == <>(pc = "done")

(* Every row of a bundle is to become a code item: tg_bundle_code_rows     *)
(* returns "the row start offsets that should be turned into IDA code      *)
(* items" (src/src/lib.rs:184).                                            *)
CodeRowsCreated ==
    pc = "done" =>
        \A c \in visited :
            IsCode(c) /\ ~Stops(c) /\ NextRow(c) = c + 2 => IsCode(c + 2) \/ c + 2 \in autoq
=============================================================================
