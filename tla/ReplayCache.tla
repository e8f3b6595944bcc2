----------------------------- MODULE ReplayCache -----------------------------
(***************************************************************************)
(* FunctionReplayCache (src/src/processor.cpp:655-759): the state of the   *)
(* trackers before every row of one function, built once by replaying the  *)
(* function and then handed out for every ev_emu_insn and ev_out_insn.     *)
(*                                                                         *)
(* The replay starts again from an empty state at every join point: a      *)
(* branch target inside the function or a row with a recorded non-flow     *)
(* code reference.  Emulating a row records references, so the database    *)
(* that the next build would read changes while the cache is in use.  The  *)
(* cache is keyed by the function's bounds only; the ghost variable        *)
(* "foreign" records that something other than a direct branch of the      *)
(* function's own rows has changed since the build.                        *)
(*                                                                         *)
(* DirectReplay says what the cache promises; it is implemented here.      *)
(***************************************************************************)
EXTENDS FunctionCode

VARIABLES
    cache,    \* g_replay_cache
    foreign,  \* ghost: a change since the build that the cache cannot see
    view      \* ghost: what the last event got, and what it should have got

vars == <<memory, xrefs, funcs, cache, foreign, view>>

-----------------------------------------------------------------------------
(* The rows of a function *)

(* Faulty: the loops step by a bundle over what does not decode. *)
NextCursorSkips(c) == IF Decodes(c) /\ RowsAt(c) = 2 THEN c + 1 ELSE c + 2

(* DecodedRow::next_ea; the loops step by one cell over what does not decode. *)
NextCursor(c) == IF Decodes(c) /\ c % 2 = 0 /\ RowsAt(c) = 1 THEN c + 2 ELSE c + 1

(* The cells a loop starting at s and stopping before e looks at. *)
Cursors(s, e) ==
    LET reached[c \in s .. e] ==
            \/ c = s
            \/ \E p \in s .. (c - 1) : reached[p] /\ NextCursor(p) = c
    IN  {c \in s .. (e - 1) : reached[c]}

RowsOf(s, e) == {c \in Cursors(s, e) : Decodes(c)}

-----------------------------------------------------------------------------
(* Replays *)

LastOf(S) == CHOOSE x \in S : \A y \in S : y <= x

(* The rows from the restart point to c, with their effects. *)
Replayed(rows, restarts, s, c) ==
    LET from == LastOf({s} \cup {r \in restarts : s < r /\ r <= c})
    IN  [r \in {q \in rows : from <= q /\ q < c} |-> Row(r).effect]

(* Faulty: only recorded references are join points. *)
NoBoundaryTargets(s, e) == {}

(* collect_boundary_targets *)
BoundaryTargets(s, e) ==
    {t \in {Row(r).branch : r \in RowsOf(s, e)} \ {None} : s < t /\ t < e}

(* build: every decoded row of the function, with the state before it. *)
Build(s, e) ==
    LET rows == RowsOf(s, e)
        restarts == {r \in rows : r \in BoundaryTargets(s, e) \/ HasXref(r)}
    IN  [valid |-> TRUE, start |-> s, end |-> e,
         states |-> [c \in rows |-> Replayed(rows, restarts, s, c)]]

EmptyCache == [valid |-> FALSE, start |-> None, end |-> None, states |-> <<>>]

(* Faulty: a function that was resized passes for the one that was cached. *)
MatchesStart(f) == cache.valid /\ cache.start = f.start

(* matches *)
Matches(f) == cache.valid /\ cache.start = f.start /\ cache.end = f.end

(* Faulty: a replay that restarts at the join points of nobody. *)
ReplayUntilThrough(s, c) ==
    IF c <= s THEN NoRows ELSE Replayed(RowsOf(s, c), {}, s, c)

(* ConstReplay::replay_until, StackAliases::replay_until.  They restart at *)
(* every cursor with a reference, decoded or not, but not at the row asked *)
(* for itself, and know nothing of the function's own branch targets.      *)
ReplayUntil(s, c) ==
    IF c <= s THEN NoRows
    ELSE LET restarts == {r \in Cursors(s, c) : HasXref(r)}
         IN  Replayed(RowsOf(s, c), restarts, s, c)

-----------------------------------------------------------------------------
(* Events *)

(* state_at: a build when the key differs, and another one when the key    *)
(* matches but the row is not there.                                       *)
MustBuild(f, c) == ~Matches(f) \/ c \notin DOMAIN cache.states

CacheFor(f, c) == IF MustBuild(f, c) THEN Build(f.start, f.end) ELSE cache

(* The state an event at c works from, given the cache after the lookup.   *)
StateAt(f, c, k) == IF c \in DOMAIN k.states THEN k.states[c] ELSE ReplayUntil(f.start, c)

NoView == [got |-> NoRows, want |-> NoRows]

(* What the event sees, when it is one the cache answers for. *)
View(f, c) ==
    IF f.start <= c /\ c < f.end /\ (MustBuild(f, c) \/ ~foreign)
    THEN [got |-> StateAt(f, c, CacheFor(f, c)), want |-> StraightLineBefore(f, c)]
    ELSE NoView

(* The lookup common to ev_emu_insn and ev_out_insn.  Without a function   *)
(* nothing is replayed.                                                    *)
Lookup(c) ==
    IF FunctionsOf(c) = {}
    THEN view' = NoView /\ cache' = cache
    ELSE \E f \in FunctionsOf(c) :
            /\ cache' = CacheFor(f, c)
            /\ view' = View(f, c)

Rebuilt(c) == \E f \in FunctionsOf(c) : MustBuild(f, c)

StateSeen(c) ==
    IF FunctionsOf(c) = {} THEN NoRows
    ELSE LET f == CHOOSE g \in FunctionsOf(c) : TRUE IN StateAt(f, c, CacheFor(f, c))

(* Faulty: the register's value is taken relative to the row. *)
IndirectRefsRelative(c, state) ==
    IF KnowsRegister(state) THEN {<<c, c + t>> : t \in {Row(c).indirect} \ {None}} ELSE {}

(* add_indirect_cref *)
IndirectRefs(c, state) ==
    IF KnowsRegister(state) THEN IndirectTarget(c) ELSE {}

(* tilegx_emu: nothing happens when the row does not decode; the state is  *)
(* looked up before the references of this row are recorded.               *)
Emu(c) ==
    /\ Decodes(c)
    /\ Lookup(c)
    /\ LET refs == IndirectRefs(c, StateSeen(c)) \cup BranchRefs(c)
       IN  /\ xrefs' = xrefs \cup refs
           /\ foreign' = \/ foreign /\ ~Rebuilt(c)
                         \/ Unforeseen(refs \ xrefs, cache') # {}
    /\ UNCHANGED <<memory, funcs>>

(* tilegx_out_insn: the same lookup, and nothing else. *)
Out(c) ==
    /\ Decodes(c)
    /\ Lookup(c)
    /\ foreign' = (foreign /\ ~Rebuilt(c))
    /\ UNCHANGED <<memory, xrefs, funcs>>

(* IDA deletes the instruction at c, and its references with it, as it     *)
(* does before analysing it again.                                         *)
Undefine(c) ==
    LET gone == {x \in xrefs : x[1] = c}
    IN  /\ gone # {}
        /\ xrefs' = xrefs \ gone
        /\ foreign' = (foreign \/ Unforeseen(gone, cache) # {})
        /\ view' = NoView
        /\ UNCHANGED <<memory, funcs, cache>>

(* The user changes bytes; no event reaches the cache. *)
Patch(b) ==
    /\ \E new \in Contents : new # memory[b] /\ memory' = [memory EXCEPT ![b] = new]
    /\ foreign' = (foreign \/ \E c \in {2 * b, 2 * b + 1} : Cached(cache, c))
    /\ view' = NoView
    /\ UNCHANGED <<xrefs, funcs, cache>>

(* IDA creates, deletes or resizes functions; no event reaches the cache.  *)
Relayout ==
    /\ \E new \in Layouts : new # funcs /\ funcs' = new
    /\ view' = NoView
    /\ UNCHANGED <<memory, xrefs, cache, foreign>>

(* ev_newfile, ev_oldfile, ev_term *)
Clear ==
    /\ cache' = EmptyCache
    /\ foreign' = FALSE
    /\ view' = NoView
    /\ UNCHANGED <<memory, xrefs, funcs>>

-----------------------------------------------------------------------------

Init ==
    /\ memory \in Images
    /\ xrefs = {}
    /\ funcs \in Layouts
    /\ cache = EmptyCache
    /\ foreign = FALSE
    /\ view = NoView

Next ==
    \/ \E c \in Cell : Emu(c) \/ Out(c) \/ Undefine(c)
    \/ \E b \in Bundle : Patch(b)
    \/ Relayout
    \/ Clear

Spec == Init /\ [][Next]_vars

-----------------------------------------------------------------------------
(* Properties *)

TypeOK ==
    /\ memory \in [Bundle -> BundleContents]
    /\ xrefs \subseteq Cell \X Cell
    /\ funcs \in Layouts
    /\ cache.valid \in BOOLEAN
    /\ cache.valid => cache.start \in Cell /\ cache.end \in 1 .. Top
    /\ DOMAIN cache.states \subseteq Cell
    /\ foreign \in BOOLEAN

(* The state an event sees does not depend on which rows were emulated     *)
(* before it: it consists of exactly the rows that fall through to it,     *)
(* although emulating them has added references since the cache was built  *)
(* (processor.cpp:709-753).                                                *)
ViewsFresh == view.got = view.want

(* Every row of the function that can be emulated is in the cache, so the  *)
(* other replay, which treats join points differently, never answers for   *)
(* the body of a function (processor.cpp:664-678).                         *)
CacheCoversBody ==
    cache.valid /\ ~foreign =>
        DOMAIN cache.states = {c \in cache.start .. cache.end - 1 : Decodes(c)}

(* Once the references of all rows of the function are recorded, the other *)
(* replay, which knows only recorded references, computes the same states  *)
(* for every row that is not a join point itself, unless something refers  *)
(* to an address in the function that does not decode                      *)
(* (processor.cpp:619-637 against 719-753).                                *)
ReplaysAgree ==
    LET body == cache.start .. cache.end - 1
        rows == DOMAIN cache.states
    IN  /\ cache.valid /\ ~foreign
        /\ \A r \in rows : BranchRefs(r) \subseteq xrefs
        /\ \A c \in body : HasXref(c) => Decodes(c)
        => \A c \in rows : HasXref(c) \/ cache.states[c] = ReplayUntil(cache.start, c)

Direct == INSTANCE DirectReplay WITH
    Top <- Top, Images <- Images, Contents <- Contents, Layouts <- Layouts, None <- None,
    memory <- memory, xrefs <- xrefs, funcs <- funcs,
    key <- [valid |-> cache.valid, start |-> cache.start, end |-> cache.end],
    stale <- foreign, seen <- view.got

(* The cache is transparent: the events see, and the database records,     *)
(* what they would without it, from a fresh look at the function, and a    *)
(* function is built again only when it is another one or the row is not   *)
(* of its body (processor.cpp:664-697, 1384-1397).                         *)
AnswersDirectly == Direct!Spec
=============================================================================
