---------------------------- MODULE ConstTracker -----------------------------
(***************************************************************************)
(* The constant tracker: what the processor module believes the registers  *)
(* hold, next to the processor it follows.                                 *)
(*                                                                         *)
(* The tracker (src/src/constprop.rs, src/src/types.rs) is fed the slots   *)
(* of a function one after the other, in address order.  The machine       *)
(* executes bundles: all slots of a bundle read the registers as they were *)
(* when the bundle began.  The module runs both side by side and asks when *)
(* a tracked value, or a reference derived from one, is right.             *)
(*                                                                         *)
(* The code gives no guarantee in three situations, and the ghost variable *)
(* "stale" carries exactly these: a value computed from a register written *)
(* earlier in the same bundle, a tracked write to the zero register, and   *)
(* control that reaches a row other than by falling into it without the    *)
(* tracker being reset (a call that returned, code behind a jump).         *)
(***************************************************************************)
EXTENDS Naturals

CONSTANTS
    Reg,          \* general registers
    ZERO,         \* the register that always reads as 0 (r63)
    LR,           \* the register a call writes (r55)
    Word,         \* register contents
    Inputs,       \* words that enter from memory, from SPRs or from callees
    Imm,          \* immediate operands
    ImmOps,       \* instructions tracked from a register and an immediate
    RegOps,       \* instructions tracked from two registers
    Alu(_, _, _), \* their result
    Mapped,       \* addresses that lie in a segment
    Clobbered     \* registers a callee need not preserve

ASSUME RegAssumption == ZERO \in Reg /\ LR \in Reg \ {ZERO}
ASSUME WordAssumption == 0 \in Word /\ Imm \subseteq Word /\ Inputs \subseteq Word
ASSUME ClobberAssumption == Clobbered \subseteq Reg \ {ZERO}
ASSUME AluAssumption ==
    /\ "add" \in RegOps
    /\ \A op \in ImmOps \cup RegOps, x, y \in Word : Alu(op, x, y) \in Word

VARIABLES
    tracker,   \* TgConstState: which registers are known, and their values
    regs,      \* the machine's registers after the slots executed so far
    pre,       \* the machine's registers when the bundle began
    written,   \* registers written by earlier slots of the bundle
    flow,      \* how control leaves the bundle: "next", "call" or "stop"
    stale,     \* ghost: registers whose tracked value carries no guarantee
    report     \* the reference or comment the last slot produced, if any

machine == <<regs, pre, written, flow>>
vars == <<tracker, regs, pre, written, flow, stale, report>>

-----------------------------------------------------------------------------
(* TgConstState *)

InitialTracker == [known |-> {ZERO}, value |-> [r \in Reg |-> 0]]

SetConst(t, r, v) ==
    [known |-> t.known \cup {r}, value |-> [t.value EXCEPT ![r] = v]]

(* Faulty: the value is reset but the register still counts as known. *)
ClearConstKeepsKnown(t, r) ==
    [known |-> t.known, value |-> [t.value EXCEPT ![r] = 0]]

(* The zero register is never forgotten. *)
ClearConst(t, r) ==
    IF r = ZERO
    THEN t
    ELSE [known |-> t.known \ {r}, value |-> [t.value EXCEPT ![r] = 0]]

-----------------------------------------------------------------------------
(* The machine *)

Write(r, v) ==
    /\ regs' = IF r = ZERO THEN regs ELSE [regs EXCEPT ![r] = v]
    /\ written' = written \cup ({r} \ {ZERO})
    /\ UNCHANGED <<pre, flow>>

(* A tracked value read by a slot may differ from what the machine reads. *)
Tainted(sources) == sources \cap (stale \cup written) # {}

(* What a slot tells IDA, next to what the machine does.  A report derived *)
(* from a tainted register is not claimed to be right and is not recorded. *)
NoReport == [claimed |-> 0, actual |-> 0]

Report(sources, claimed, actual) ==
    IF Tainted(sources) THEN NoReport ELSE [claimed |-> claimed, actual |-> actual]

-----------------------------------------------------------------------------
(* Slots *)

(* step(): the result is known, so the destination becomes known.  A       *)
(* non-zero result of anything but a move is offered as a data reference.  *)
Track(op, dst, sources, value, actual) ==
    /\ tracker' = SetConst(tracker, dst, value)
    /\ stale' = IF dst = ZERO \/ Tainted(sources)
                THEN stale \cup {dst} ELSE stale \ {dst}
    /\ report' = IF op # "move" /\ value # 0
                 THEN Report(sources, value, actual)
                 ELSE NoReport
    /\ Write(dst, actual)

(* apply_untracked_writes() for a slot without write-back. *)
Forget(dst, actual) ==
    /\ tracker' = ClearConst(tracker, dst)
    /\ stale' = stale \ ({dst} \ {ZERO})
    /\ report' = NoReport
    /\ Write(dst, actual)

MoveSlot(dst, src) ==
    IF src \in tracker.known
    THEN Track("move", dst, {src}, tracker.value[src], pre[src])
    ELSE Forget(dst, pre[src])

MoveImmSlot(dst, imm) == Track("movei", dst, {}, imm, imm)

AluImmSlot(op, dst, src, imm) ==
    IF src \in tracker.known
    THEN Track(op, dst, {src}, Alu(op, tracker.value[src], imm), Alu(op, pre[src], imm))
    ELSE Forget(dst, Alu(op, pre[src], imm))

AluRegSlot(op, dst, lhs, rhs) ==
    LET actual == Alu(op, pre[lhs], pre[rhs])
    IN  IF {lhs, rhs} \subseteq tracker.known
        THEN Track(op, dst, {lhs, rhs},
                   Alu(op, tracker.value[lhs], tracker.value[rhs]), actual)
        ELSE Forget(dst, actual)

(* Instructions that write a register the tracker does not compute: mfspr, *)
(* bit-field inserts, multiplications, conditional moves, ...              *)
OpaqueSlot(dst) == \E v \in Inputs : Forget(dst, v)

(* mtspr leaves the registers alone and comments on a known operand. *)
MtsprSlot(src) ==
    /\ report' = IF src \in tracker.known
                 THEN Report({src}, tracker.value[src], pre[src])
                 ELSE NoReport
    /\ UNCHANGED <<tracker, stale, machine>>

-----------------------------------------------------------------------------
(* Memory slots *)

(* Faulty: computed after the base has moved on. *)
MemoryReportMoved(base, disp) ==
    LET target == Alu("add", Alu("add", tracker.value[base], disp), disp)
    IN  IF base \in tracker.known /\ target \in Mapped
        THEN Report({base}, target, Alu("add", pre[base], disp))
        ELSE NoReport

(* memory_ref(): computed before the slot's own writes.  Only addresses    *)
(* inside a segment become cross references.                               *)
MemoryReport(base, disp) ==
    LET target == Alu("add", tracker.value[base], disp)
    IN  IF base \in tracker.known /\ target \in Mapped
        THEN Report({base}, target, Alu("add", pre[base], disp))
        ELSE NoReport

MemorySlotNoWriteback(base, disp) ==
    /\ report' = MemoryReport(base, disp)
    /\ UNCHANGED <<tracker, stale, machine>>

(* Faulty: the base is forgotten together with the destination. *)
LoadSlotForgetsBase(dst, base, disp) ==
    /\ report' = MemoryReport(base, disp)
    /\ tracker' = ClearConst(ClearConst(tracker, dst), base)
    /\ stale' = stale \ ({dst} \ {ZERO})
    /\ \E v \in Inputs : Write(dst, v)

LoadSlot(dst, base, disp) ==
    /\ report' = MemoryReport(base, disp)
    /\ tracker' = ClearConst(tracker, dst)
    /\ stale' = stale \ ({dst} \ {ZERO})
    /\ \E v \in Inputs : Write(dst, v)

(* Faulty: the addition does not wrap. *)
WriteBackUnwrapped(t, base, disp) ==
    IF base \in t.known
    THEN SetConst(t, base, t.value[base] + disp)
    ELSE ClearConst(t, base)

(* The write-back half of apply_untracked_writes(), on tracker state t. *)
WriteBack(t, base, disp) ==
    IF base \in t.known
    THEN SetConst(t, base, Alu("add", t.value[base], disp))
    ELSE ClearConst(t, base)

(* A write-back of the zero register is dropped by the machine. *)
WriteBackStale(base) ==
    IF base = ZERO \/ Tainted({base}) THEN stale \cup {base} ELSE stale \ {base}

(* ld_add: the destination is forgotten first, then the base moves on.     *)
(* Loading into the base itself leaves the machine's result unspecified.   *)
LoadAddSlot(dst, base, disp) ==
    /\ report' = MemoryReport(base, disp)
    /\ tracker' = WriteBack(ClearConst(tracker, dst), base, disp)
    /\ stale' = WriteBackStale(base) \ ({dst} \ {ZERO})
    /\ \E v \in Inputs :
         LET loaded == [regs EXCEPT ![dst] = v]
             moved == IF base = dst THEN loaded
                      ELSE [loaded EXCEPT ![base] = Alu("add", pre[base], disp)]
         IN  regs' = [moved EXCEPT ![ZERO] = 0]
    /\ written' = written \cup ({dst, base} \ {ZERO})
    /\ UNCHANGED <<pre, flow>>

(* st_add, prefetch_add: no destination register, only the base moves. *)
StoreAddSlot(base, disp) ==
    /\ report' = MemoryReport(base, disp)
    /\ tracker' = WriteBack(tracker, base, disp)
    /\ stale' = WriteBackStale(base)
    /\ Write(base, Alu("add", pre[base], disp))

-----------------------------------------------------------------------------
(* Control slots *)

(* add_indirect_cref(): jr, jrp, jalr, jalrp through a known register.     *)
IndirectReport(src) ==
    IF src \in tracker.known /\ tracker.value[src] \in Mapped
    THEN Report({src}, tracker.value[src], pre[src])
    ELSE NoReport

JumpRegSlot(src) ==
    /\ flow = "next"
    /\ flow' = "stop"
    /\ report' = IndirectReport(src)
    /\ UNCHANGED <<tracker, stale, regs, pre, written>>

(* The machine writes the link register; the tracker does not, as a call's *)
(* operands name no destination (the writing is known to reg_accesses      *)
(* only, src/src/analysis.rs:391).                                         *)
LinkStale == IF LR \in tracker.known THEN stale \cup {LR} ELSE stale

CallRegSlot(src) ==
    /\ flow = "next"
    /\ flow' = "call"
    /\ report' = IndirectReport(src)
    /\ \E v \in Inputs : regs' = [regs EXCEPT ![LR] = v]
    /\ written' = written \cup {LR}
    /\ stale' = LinkStale
    /\ UNCHANGED <<tracker, pre>>

CallSlot ==
    /\ flow = "next"
    /\ flow' = "call"
    /\ report' = NoReport
    /\ \E v \in Inputs : regs' = [regs EXCEPT ![LR] = v]
    /\ written' = written \cup {LR}
    /\ stale' = LinkStale
    /\ UNCHANGED <<tracker, pre>>

-----------------------------------------------------------------------------
(* Between bundles *)

EnterBundle(contents) ==
    /\ regs' = contents
    /\ pre' = contents
    /\ written' = {}
    /\ flow' = "next"
    /\ report' = NoReport

(* The next bundle is reached by falling into it. *)
FallThrough ==
    /\ flow = "next"
    /\ EnterBundle(regs)
    /\ UNCHANGED <<tracker, stale>>

(* The callee returns; the replay goes on as if nothing had happened. *)
ReturnFromCall ==
    /\ flow = "call"
    /\ \E f \in [Clobbered -> Inputs] :
         EnterBundle([r \in Reg |-> IF r \in Clobbered THEN f[r] ELSE regs[r]])
    /\ stale' = stale \cup (Clobbered \cap tracker.known)
    /\ UNCHANGED tracker

(* The row behind a jump is replayed next although control arrives there   *)
(* from a place that no cross reference names yet.                         *)
EnterUnlabelled ==
    /\ flow = "stop"
    /\ \E f \in [Reg \ {ZERO} -> Inputs] :
         EnterBundle([r \in Reg |-> IF r = ZERO THEN 0 ELSE f[r]])
    /\ stale' = stale \cup (tracker.known \ {ZERO})
    /\ UNCHANGED tracker

(* The row is a boundary: the target of a branch of the function or of a   *)
(* recorded jump.  The replay resets the tracker (src/src/processor.cpp,   *)
(* FunctionReplayCache::build, ConstReplay::replay_until).                 *)
EnterLabel ==
    /\ \E f \in [Reg \ {ZERO} -> Inputs] :
         EnterBundle([r \in Reg |-> IF r = ZERO THEN 0 ELSE f[r]])
    /\ tracker' = InitialTracker
    /\ stale' = {}

-----------------------------------------------------------------------------

Init ==
    /\ tracker = InitialTracker
    /\ \E f \in [Reg \ {ZERO} -> Inputs] :
         regs = [r \in Reg |-> IF r = ZERO THEN 0 ELSE f[r]]
    /\ pre = regs
    /\ written = {}
    /\ flow = "next"
    /\ stale = {}
    /\ report = NoReport

AluSlot ==
    \/ \E dst, src \in Reg : MoveSlot(dst, src)
    \/ \E dst \in Reg, imm \in Imm : MoveImmSlot(dst, imm)
    \/ \E op \in ImmOps, dst, src \in Reg, imm \in Imm : AluImmSlot(op, dst, src, imm)
    \/ \E op \in RegOps, dst, lhs, rhs \in Reg : AluRegSlot(op, dst, lhs, rhs)
    \/ \E dst \in Reg : OpaqueSlot(dst)
    \/ \E src \in Reg : MtsprSlot(src)

MemorySlot ==
    \/ \E base \in Reg, disp \in Imm : MemorySlotNoWriteback(base, disp)
    \/ \E dst, base \in Reg, disp \in Imm : LoadSlot(dst, base, disp)
    \/ \E dst, base \in Reg, disp \in Imm : LoadAddSlot(dst, base, disp)
    \/ \E base \in Reg, disp \in Imm : StoreAddSlot(base, disp)

ControlSlot ==
    \/ \E src \in Reg : JumpRegSlot(src)
    \/ \E src \in Reg : CallRegSlot(src)
    \/ CallSlot

BundleEntry == FallThrough \/ ReturnFromCall \/ EnterUnlabelled \/ EnterLabel

Next == AluSlot \/ MemorySlot \/ ControlSlot \/ BundleEntry

Spec == Init /\ [][Next]_vars

-----------------------------------------------------------------------------
(* Properties *)

TrackerStates == [known : SUBSET Reg, value : [Reg -> Word]]

(* Every variable has its type; no tracked value leaves the word           *)
(* (constprop.rs:69-84, wrapping_add).                                     *)
TypeOK ==
    /\ tracker \in TrackerStates
    /\ regs \in [Reg -> Word] /\ pre \in [Reg -> Word]
    /\ written \in SUBSET Reg /\ stale \in SUBSET Reg
    /\ flow \in {"next", "call", "stop"}
    /\ report \in [claimed : Word, actual : Word]

(* What the registers of a machine look like in the middle of a bundle.    *)
BundleOK ==
    /\ regs[ZERO] = 0
    /\ ZERO \notin written
    /\ \A r \in Reg \ written : pre[r] = regs[r]

(* A tracked value is the value the machine's register has, except in the  *)
(* registers the header of this module names (constprop.rs:51-182).        *)
Sound == \A r \in tracker.known \ stale : tracker.value[r] = regs[r]

(* A data reference, memory reference, call or jump target or SPR comment  *)
(* derived from registers that are not stale and were not written earlier  *)
(* in the bundle names the address or value the machine uses               *)
(* (constprop.rs:41-49, analysis.rs:396-416, processor.cpp:589-605).       *)
ReportsTrue == report.claimed = report.actual

(* The tracker forgets a register only when the machine writes it or the   *)
(* replay crosses a boundary: no slot discards knowledge of a register it  *)
(* does not write (constprop.rs:69-84).                                    *)
ForgetsOnlyWritten ==
    [][\/ tracker' = InitialTracker
       \/ tracker.known \ tracker'.known \subseteq written']_vars

(* The zero register reads as zero, as src/src/tests.rs:806-809 expects of *)
(* "mtspr SPR, zero".                                                      *)
ZeroIsZero == tracker.value[ZERO] = 0
=============================================================================
