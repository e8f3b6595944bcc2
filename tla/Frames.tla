------------------------------- MODULE Frames -------------------------------
(***************************************************************************)
(* The frame of one function: the prologue scan (TgPrologState,            *)
(* scan_prolog, analyze_prolog) and the events that also touch the frame,  *)
(* in any order: ev_create_func_frame, and ev_emu_insn of a row, which     *)
(* traces sp and makes stack variables.  IDA handles one event at a time,  *)
(* so nothing happens between the rows of a scan.                          *)
(*                                                                         *)
(* A function is the sequence of its rows.  By the decode tables a row     *)
(* moves sp by at most one immediate (module RowAnalysis).                 *)
(***************************************************************************)
EXTENDS Integers, Sequences, FiniteSets

CONSTANTS
  Bodies,             \* the functions to consider, as sequences of rows
  PROLOG_SCAN_LIMIT,  \* bytes of a function that are scanned
  IMM_LIMIT,          \* the largest magnitude of a 16-bit immediate
  I64_MAX, U32_MAX,   \* widths of the scan's counters
  MAX_FRAME           \* bound of what the user sets

Row == [size : {4, 8},         \* bytes up to the next row
        decodes : BOOLEAN,
        delta : -IMM_LIMIT..IMM_LIMIT,
        fp : BOOLEAN,          \* moves sp to the frame pointer
        stack : {"none", "load", "store"},  \* its memory operand at sp
        ends : BOOLEAN]        \* has a flag that ends the scan

ASSUME BodiesAssumption == \A b \in Bodies : b \in Seq(Row)

\* The scan is short: its sums stay inside the counters.
ASSUME WidthAssumption ==
  /\ PROLOG_SCAN_LIMIT \in Nat /\ PROLOG_SCAN_LIMIT % 4 = 0
  /\ IMM_LIMIT \in Nat
  /\ I64_MAX \in Nat
  /\ U32_MAX \in Nat
  /\ PROLOG_SCAN_LIMIT * IMM_LIMIT <= 4 * I64_MAX
  /\ PROLOG_SCAN_LIMIT * IMM_LIMIT <= 4 * U32_MAX

NoFrame == -1  \* pfn->frame is BADNODE

VARIABLES
  body,
  frame,       \* NoFrame, or the size of the frame (frsize)
  func_frame,  \* FUNC_FRAME
  prolog_ok,   \* FUNC_PROLOG_OK
  emulated,    \* the rows emulated so far
  stack_vars,  \* the rows whose stack operands are variables
  points,      \* the rows with a recorded change of sp
  scan         \* the scan that is running: Idle, or its cursor and state

vars == <<body, frame, func_frame, prolog_ok, emulated, stack_vars, points, scan>>

Idle == [next |-> 0, offset |-> 0, current |-> 0, min |-> 0, frame_size |-> 0,
         fp |-> FALSE, saved |-> FALSE]

\* The state of a scan before its first row (tg_prolog_state_reset).
Reset == [Idle EXCEPT !.next = 1]

Init ==
  /\ body \in Bodies
  /\ frame = NoFrame
  /\ func_frame = FALSE
  /\ prolog_ok = FALSE
  /\ emulated = {}
  /\ stack_vars = {}
  /\ points = {}
  /\ scan = Idle

-----------------------------------------------------------------------------
(* The prologue scan. *)

SaturatingAdd(a, b) ==
  IF a + b > I64_MAX THEN I64_MAX ELSE IF a + b < -I64_MAX - 1 THEN -I64_MAX - 1 ELSE a + b

ToU32(n) == IF n \in 0..U32_MAX THEN n ELSE U32_MAX

SaturatingNeg(n) == IF n = -I64_MAX - 1 THEN I64_MAX ELSE -n

\* Mutant: the frame is as deep as sp is now, not as it was at its deepest.
DepthNow(ps, row) ==
  LET now == SaturatingAdd(ps.current, row.delta)
  IN  [ps EXCEPT !.fp = @ \/ row.fp, !.saved = @ \/ row.stack = "store",
                 !.current = now, !.min = now, !.frame_size = ToU32(SaturatingNeg(now))]

\* A row is added to the state of the scan.
observe(ps, row) ==
  LET now    == SaturatingAdd(ps.current, row.delta)
      lowest == IF now < ps.min THEN now ELSE ps.min
  IN  [ps EXCEPT !.fp = @ \/ row.fp, !.saved = @ \/ row.stack = "store",
                 !.current = now, !.min = lowest,
                 !.frame_size = ToU32(SaturatingNeg(lowest))]

\* Mutant: the scan goes on to the end of the function.
ScanToEnd ==
  /\ scan.next \in DOMAIN body
  /\ body[scan.next].decodes

\* The cursor is on a row that the scan reads.
Scanning ==
  /\ scan.next \in DOMAIN body
  /\ scan.offset < PROLOG_SCAN_LIMIT
  /\ body[scan.next].decodes

BeginScan ==
  /\ scan = Idle
  /\ scan' = Reset
  /\ UNCHANGED <<body, frame, func_frame, prolog_ok, emulated, stack_vars, points>>

\* One row of the loop in scan_prolog; a row with a flag is the last.
ScanRow ==
  /\ scan # Idle
  /\ Scanning
  /\ LET row == body[scan.next]
     IN  scan' = [observe(scan, row) EXCEPT
                    !.next = IF row.ends THEN Len(body) + 1 ELSE @ + 1,
                    !.offset = @ + row.size]
  /\ UNCHANGED <<body, frame, func_frame, prolog_ok, emulated, stack_vars, points>>

\* Mutant: the frame is set to what the scan found, whatever it was.
SetFrameSize(size) == size

\* The size to give to the frame: qmax for a frame that exists.
FrameFor(size) == IF frame = NoFrame \/ frame < size THEN size ELSE frame

\* The rest of analyze_prolog.  IDA may refuse the new size.
FinishProlog ==
  /\ scan # Idle
  /\ ~Scanning
  /\ scan' = Idle
  /\ \/ /\ scan.frame_size # 0
        /\ frame' = FrameFor(scan.frame_size)
        /\ func_frame' = (func_frame \/ scan.fp)
        /\ prolog_ok' = TRUE
     \/ UNCHANGED <<frame, func_frame, prolog_ok>>
  /\ UNCHANGED <<body, emulated, stack_vars, points>>

-----------------------------------------------------------------------------
(* The other events. *)

\* IDA's add_frame fails if there is a frame.
CanAddFrame == frame = NoFrame

CreateFuncFrame ==
  /\ scan = Idle
  /\ CanAddFrame
  /\ frame' = 0
  /\ UNCHANGED <<body, func_frame, prolog_ok, emulated, stack_vars, points, scan>>

\* Mutant: the result of add_frame is not looked at.
AlwaysReady == TRUE

\* Whether create_stack_vars goes on to the operands.
VarsReady == func_frame \/ CanAddFrame

\* tilegx_emu of row k: the change of sp is recorded, and the stack operands
\* become variables, unless IDA refuses them.  The user can turn off either.
EmuRow(k, trace, create) ==
  /\ scan = Idle
  /\ body[k].decodes
  /\ emulated' = emulated \cup {k}
  /\ points' = IF trace /\ body[k].delta # 0 THEN points \cup {k} ELSE points
  /\ frame' = IF create /\ ~func_frame /\ CanAddFrame THEN 0 ELSE frame
  /\ \/ /\ create
        /\ VarsReady
        /\ body[k].stack # "none"
        /\ stack_vars' = stack_vars \cup {k}
     \/ UNCHANGED stack_vars
  /\ UNCHANGED <<body, func_frame, prolog_ok, scan>>

\* The user, or IDA for a variable, makes the frame larger.
Enlarge ==
  /\ scan = Idle
  /\ frame # NoFrame
  /\ frame < MAX_FRAME
  /\ frame' = frame + 1
  /\ UNCHANGED <<body, func_frame, prolog_ok, emulated, stack_vars, points, scan>>

Next ==
  \/ BeginScan
  \/ ScanRow
  \/ FinishProlog
  \/ CreateFuncFrame
  \/ \E k \in DOMAIN body, trace, create \in BOOLEAN : EmuRow(k, trace, create)
  \/ Enlarge

Spec == Init /\ [][Next]_vars

-----------------------------------------------------------------------------
(* Properties. *)

TypeOK ==
  /\ body \in Bodies
  /\ frame = NoFrame \/ frame \in Nat
  /\ func_frame \in BOOLEAN
  /\ prolog_ok \in BOOLEAN
  /\ emulated \subseteq DOMAIN body
  /\ stack_vars \subseteq emulated
  /\ points \subseteq emulated
  /\ scan.next \in 0..(Len(body) + 1)
  /\ (func_frame \/ prolog_ok) => frame # NoFrame

\* The sums of the first elements of a sequence of numbers.
Sums(numbers) ==
  LET upto[k \in 0..Len(numbers)] == IF k = 0 THEN 0 ELSE upto[k - 1] + numbers[k]
  IN  upto

\* The change of sp by the first k rows.
SpAfter(k) == Sums([i \in DOMAIN body |-> body[i].delta])[k]

SizeBefore(k) == Sums([i \in DOMAIN body |-> body[i].size])[k - 1]

\* The rows of the prologue: those on the straight line from the start of the
\* function to the first row that ends it.
PrologueRow(k) ==
  /\ k \in DOMAIN body
  /\ body[k].decodes
  /\ SizeBefore(k) < PROLOG_SCAN_LIMIT
  /\ \A i \in 1..(k - 1) : body[i].decodes /\ ~body[i].ends

\* Once the prologue was accepted, the frame holds the stack at every row of it,
\* whatever other events made or enlarged the frame before or after
\* (analyze_prolog against create_stack_vars and ev_create_func_frame).
FrameCoversPrologue ==
  prolog_ok => \A k \in DOMAIN body : PrologueRow(k) => frame >= -SpAfter(k)

\* No event takes away a frame or makes it smaller, although three of them give it
\* a size (add_frame with 0, add_frame and set_frame_size with the scan's).
FrameOnlyGrows == [][frame' >= frame]_vars

\* The counters of a scan never reach the ends of their ranges: a scan of
\* PROLOG_SCAN_LIMIT bytes has too few rows for that (observe_slot).
NeverSaturates ==
  /\ scan.current \in -I64_MAX..I64_MAX
  /\ scan.min \in -I64_MAX..0
  /\ scan.frame_size = -scan.min

\* What the test of FUNC_FRAME in create_stack_vars comes to: as long as no
\* prologue with a frame pointer was accepted, add_frame succeeds for one row at
\* most, and only that row's stack operands can be variables.
VarsNeedFramePointer == func_frame \/ Cardinality(stack_vars) <= 1
=============================================================================
