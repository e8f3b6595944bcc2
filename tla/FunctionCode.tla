---------------------------- MODULE FunctionCode -----------------------------
(***************************************************************************)
(* What a replay of a function reads: the bundles, the references that IDA *)
(* has recorded and the functions it has; and what a fresh look at them    *)
(* says of a row, which is what the replay cache is held to.               *)
(*                                                                         *)
(* Addresses are cells of four bytes, two to a bundle: a bundle holds no   *)
(* row, one row of two cells, or two rows of one cell.  What a replay      *)
(* computes is determined by the rows it applied, so a tracker state is    *)
(* modelled as the rows applied since the last restart, with their effect. *)
(***************************************************************************)
EXTENDS Integers, FiniteSets

CONSTANTS
    Top,       \* the image is the cells 0 .. Top - 1; Top is even
    Images,    \* initial contents: functions from bundles to bundle contents
    Contents,  \* contents a patch may give a bundle
    Layouts,   \* sets of functions that IDA may have at one time
    None       \* no address

Cell == 0 .. (Top - 1)
Bundle == 0 .. (Top \div 2 - 1)

(* A row: its effect on the trackers ("set" makes a register known,        *)
(* "clear" makes it unknown), the target of a direct branch, and the       *)
(* address a register jump goes to when the register is known.             *)
Rows == [effect : {"set", "clear", "keep"},
         branch : Cell \cup {None}, indirect : Cell \cup {None}]

BundleContents == [rows : 0 .. 2, first : Rows, second : Rows]

(* func_t: start_ea, end_ea and the cells of the other chunks. *)
Functions == [start : Cell, end : 1 .. Top, tail : SUBSET Cell]

Owns(f, c) == (f.start <= c /\ c < f.end) \/ c \in f.tail

ASSUME TopAssumption == Top \in Nat /\ Top % 2 = 0
ASSUME NoneAssumption == None \notin Int
ASSUME ContentsAssumption ==
    Contents \subseteq BundleContents /\ Images \subseteq [Bundle -> BundleContents]

ASSUME LayoutsAssumption ==
    \A funs \in Layouts :
        /\ funs \subseteq Functions
        /\ \A f \in funs : f.start < f.end
        /\ \A f, g \in funs, c \in Cell : Owns(f, c) /\ Owns(g, c) => f = g

VARIABLES
    memory,   \* contents of the bundles
    xrefs,    \* recorded non-flow code references <<from, to>>
    funcs     \* the functions IDA has

-----------------------------------------------------------------------------
(* Rows *)

RowsAt(c) == memory[c \div 2].rows

(* DecodedRow::decode *)
Decodes(c) == IF c % 2 = 0 THEN RowsAt(c) > 0 ELSE RowsAt(c) = 2

Row(c) == IF c % 2 = 0 THEN memory[c \div 2].first ELSE memory[c \div 2].second

(* has_nonflow_code_xref *)
HasXref(c) == \E x \in xrefs : x[2] = c

FunctionsOf(c) == {f \in funcs : Owns(f, c)}

-----------------------------------------------------------------------------
(* Tracker states *)

(* The state before any row: no register known. *)
NoRows == <<>>

(* Reference: the rows of the function from which control can only fall    *)
(* through to c without passing a join point.                              *)
Joins(f) == {j \in f.start + 1 .. f.end - 1 :
                \/ HasXref(j)
                \/ \E r \in f.start .. f.end - 1 : Decodes(r) /\ Row(r).branch = j}

StraightLineBefore(f, c) ==
    [r \in {q \in f.start .. c - 1 :
                Decodes(q) /\ ~\E j \in Joins(f) : Decodes(j) /\ q < j /\ j <= c}
        |-> Row(r).effect]

(* A register is known after these rows when the last one to touch it set it. *)
KnowsRegister(state) ==
    \E r \in DOMAIN state : /\ state[r] = "set"
                            /\ \A q \in DOMAIN state : q > r => state[q] # "clear"

-----------------------------------------------------------------------------
(* References *)

BranchRefs(c) == {<<c, t>> : t \in {Row(c).branch} \ {None}}

(* Where the register jump of a row goes when the register is known. *)
IndirectTarget(c) == {<<c, t>> : t \in {Row(c).indirect} \ {None}}

Cached(k, c) == k.valid /\ k.start <= c /\ c < k.end

(* References that the cached build did not foresee: it takes the branches *)
(* of the rows of the function for join points, and those only.            *)
Foreseen(x, k) == Cached(k, x[1]) /\ Decodes(x[1]) /\ x \in BranchRefs(x[1])

Unforeseen(refs, k) == {x \in refs : Cached(k, x[2]) /\ ~Foreseen(x, k)}
=============================================================================
