---------------------------- MODULE StackTracker -----------------------------
(***************************************************************************)
(* StackAliases (src/src/processor.cpp:477-573): which registers are known *)
(* to be a fixed distance from the stack pointer at the function's entry,  *)
(* next to the processor.  Rendering uses it to name the stack slot that a *)
(* memory operand refers to (src/src/processor.cpp:778-783, 1307-1328).    *)
(*                                                                         *)
(* As in ConstTracker the slots are replayed in address order, and all     *)
(* slots of a bundle read the registers as they were when it began.  The   *)
(* ghosts name what the code does not guarantee: "moved" holds the base    *)
(* registers of memory operands with write-back, which StackAliases leaves *)
(* alone, and "stale" the rest: values computed from a register written    *)
(* earlier in the bundle or from an untrusted one, the zero register, a    *)
(* 32-bit addition that changes the upper half, a register behind a call   *)
(* or an unlabelled entry, and sp behind a label, where the replay assumes *)
(* again that it is as at the entry.                                       *)
(***************************************************************************)
EXTENDS Integers

CONSTANTS
    Reg,          \* general registers
    ZERO, SP, LR, \* the zero register (63), sp (54) and the link register (55)
    Word,         \* register contents and offsets
    Entry,        \* sp at the function's entry
    Inputs,       \* words that enter from memory and from callees
    Imm,          \* immediates and displacements
    Plus(_, _),   \* addition of words
    Narrow(_),    \* sign extension of the low half
    Clobbered     \* registers a callee need not preserve

ASSUME RegAssumption == {ZERO, SP, LR} \subseteq Reg /\ ZERO \notin {SP, LR} /\ SP # LR
ASSUME WordAssumption ==
    0 \in Word /\ Entry \in Word /\ Imm \subseteq Word /\ Inputs \subseteq Word
ASSUME PlusAssumption ==
    \A x, y, z \in Word : /\ Plus(x, y) \in Word
                          /\ Plus(x, 0) = x
                          /\ Plus(Plus(x, y), z) = Plus(x, Plus(y, z))
ASSUME NarrowAssumption == \A x \in Word : Narrow(x) \in Word
ASSUME ClobberAssumption == Clobbered \subseteq Reg \ {ZERO, SP}

VARIABLES
    aliases,  \* aliases_: which registers have an offset, and the offsets
    regs,     \* the machine's registers after the slots executed so far
    pre,      \* the machine's registers when the bundle began
    written,  \* registers written by earlier slots of the bundle
    flow,     \* how control leaves the bundle: "next", "call" or "stop"
    moved,    \* ghost: bases that a write-back moved since their last alias
    stale,    \* ghost: registers whose offset is not claimed for other reasons
    shown     \* the stack offset the last slot was rendered with, if any

vars == <<aliases, regs, pre, written, flow, moved, stale, shown>>

-----------------------------------------------------------------------------
(* StackAliases *)

(* reset() *)
AtEntry == [valid |-> {SP}, offset |-> [r \in Reg |-> 0]]

Invalidate(a, dst) ==
    [valid |-> a.valid \ {dst}, offset |-> [a.offset EXCEPT ![dst] = 0]]

Place(a, dst, off) ==
    [valid |-> a.valid \cup {dst}, offset |-> [a.offset EXCEPT ![dst] = off]]

(* Faulty: the displacement replaces the offset of the source. *)
ShiftedFlat(a, dst, src, imm) ==
    IF src \in a.valid THEN Place(a, dst, imm) ELSE Invalidate(a, dst)

(* Faulty: the sum does not wrap. *)
ShiftedUnwrapped(a, dst, src, imm) ==
    IF src \in a.valid THEN Place(a, dst, a.offset[src] + imm) ELSE Invalidate(a, dst)

(* apply_addi(), and apply_move() with 0 for the immediate. *)
Shifted(a, dst, src, imm) ==
    IF src \in a.valid THEN Place(a, dst, Plus(a.offset[src], imm)) ELSE Invalidate(a, dst)

-----------------------------------------------------------------------------
(* The machine *)

Write(r, v) ==
    /\ regs' = IF r = ZERO THEN regs ELSE [regs EXCEPT ![r] = v]
    /\ written' = written \cup ({r} \ {ZERO})
    /\ UNCHANGED <<pre, flow>>

Tainted(r) == r \in stale \cup moved \cup written

NotShown == [offset |-> 0, actual |-> Entry]

-----------------------------------------------------------------------------
(* Slots *)

(* move, addi, addli: the new offset is right when the source's was.       *)
AddSlot(dst, src, imm) ==
    /\ aliases' = Shifted(aliases, dst, src, imm)
    /\ stale' = IF src \in aliases.valid /\ (dst = ZERO \/ Tainted(src))
                THEN stale \cup {dst} ELSE stale \ {dst}
    /\ moved' = moved \ {dst}
    /\ shown' = NotShown
    /\ Write(dst, Plus(pre[src], imm))

(* addxi, addxli: treated alike, but the machine keeps 32 bits of the sum. *)
AddxSlot(dst, src, imm) ==
    LET sum == Plus(pre[src], imm)
    IN  /\ aliases' = Shifted(aliases, dst, src, imm)
        /\ stale' = IF /\ src \in aliases.valid
                       /\ dst = ZERO \/ Tainted(src) \/ Narrow(sum) # sum
                    THEN stale \cup {dst} ELSE stale \ {dst}
        /\ moved' = moved \ {dst}
        /\ shown' = NotShown
        /\ Write(dst, Narrow(sum))

(* Faulty: an instruction that is no move or addition changes nothing. *)
ForgetKeepsAlias(dst) ==
    /\ stale' = stale \ {dst}
    /\ moved' = moved \ {dst}
    /\ UNCHANGED aliases

(* A register that is the first operand and that the instruction changes.  *)
Forget(dst) ==
    /\ aliases' = Invalidate(aliases, dst)
    /\ stale' = stale \ {dst}
    /\ moved' = moved \ {dst}

OtherSlot(dst) ==
    /\ Forget(dst)
    /\ shown' = NotShown
    /\ \E v \in Inputs : Write(dst, v)

-----------------------------------------------------------------------------
(* Memory slots *)

(* Faulty: the displacement of the operand is ignored. *)
StackOffsetBase(base, disp) ==
    IF base \in aliases.valid /\ ~Tainted(base)
    THEN [offset |-> aliases.offset[base], actual |-> Plus(pre[base], disp)]
    ELSE NotShown

(* stack_offset(): the slot is rendered before it is applied.  What is     *)
(* derived from a tainted register is not claimed and not recorded.        *)
StackOffset(base, disp) ==
    IF base \in aliases.valid /\ ~Tainted(base)
    THEN [offset |-> Plus(aliases.offset[base], disp), actual |-> Plus(pre[base], disp)]
    ELSE NotShown

(* Faulty: the base is taken for a register that the store changes. *)
StoreSlotForgetsBase(base, disp) ==
    /\ shown' = StackOffset(base, disp)
    /\ aliases' = Invalidate(aliases, base)
    /\ UNCHANGED <<regs, pre, written, flow, moved, stale>>

(* A store, or a prefetch: the first operand is no changed register.       *)
StoreSlot(base, disp) ==
    /\ shown' = StackOffset(base, disp)
    /\ UNCHANGED <<aliases, regs, pre, written, flow, moved, stale>>

LoadSlot(dst, base, disp) ==
    /\ shown' = StackOffset(base, disp)
    /\ Forget(dst)
    /\ \E v \in Inputs : Write(dst, v)

(* st_add: the machine moves the base, StackAliases does not.              *)
StoreAddSlot(base, disp) ==
    /\ shown' = StackOffset(base, disp)
    /\ moved' = IF base \in aliases.valid THEN moved \cup {base} ELSE moved
    /\ Write(base, Plus(pre[base], disp))
    /\ UNCHANGED <<aliases, stale>>

(* ld_add into another register than the base. *)
LoadAddSlot(dst, base, disp) ==
    /\ dst # base
    /\ shown' = StackOffset(base, disp)
    /\ aliases' = Invalidate(aliases, dst)
    /\ stale' = stale \ {dst}
    /\ moved' = (IF base \in aliases.valid THEN moved \cup {base} ELSE moved) \ {dst}
    /\ \E v \in Inputs :
         regs' = [[regs EXCEPT ![dst] = v, ![base] = Plus(pre[base], disp)]
                     EXCEPT ![ZERO] = 0]
    /\ written' = written \cup ({dst, base} \ {ZERO})
    /\ UNCHANGED <<pre, flow>>

-----------------------------------------------------------------------------
(* Control *)

(* jal, jalr: no operand is changed, but the machine writes lr. *)
CallSlot ==
    /\ flow = "next"
    /\ flow' = "call"
    /\ shown' = NotShown
    /\ \E v \in Inputs : regs' = [regs EXCEPT ![LR] = v]
    /\ written' = written \cup {LR}
    /\ stale' = IF LR \in aliases.valid THEN stale \cup {LR} ELSE stale
    /\ UNCHANGED <<aliases, pre, moved>>

JumpSlot ==
    /\ flow = "next"
    /\ flow' = "stop"
    /\ shown' = NotShown
    /\ UNCHANGED <<aliases, regs, pre, written, moved, stale>>

EnterBundle(contents) ==
    /\ regs' = contents
    /\ pre' = contents
    /\ written' = {}
    /\ flow' = "next"
    /\ shown' = NotShown

Anywhere == {[r \in Reg |-> IF r = ZERO THEN 0 ELSE f[r]] : f \in [Reg \ {ZERO} -> Inputs]}

FallThrough ==
    /\ flow = "next"
    /\ EnterBundle(regs)
    /\ UNCHANGED <<aliases, moved, stale>>

(* The callee returns with sp as it was. *)
ReturnFromCall ==
    /\ flow = "call"
    /\ \E f \in [Clobbered -> Inputs] :
         EnterBundle([r \in Reg |-> IF r \in Clobbered THEN f[r] ELSE regs[r]])
    /\ stale' = stale \cup (Clobbered \cap aliases.valid)
    /\ UNCHANGED <<aliases, moved>>

(* The row behind a jump, which no recorded reference names. *)
EnterUnlabelled ==
    /\ flow = "stop"
    /\ \E contents \in Anywhere : EnterBundle(contents)
    /\ stale' = stale \cup aliases.valid
    /\ UNCHANGED <<aliases, moved>>

(* A join point: sp is taken to be what it was at the entry. *)
EnterLabel ==
    /\ \E contents \in Anywhere : EnterBundle(contents)
    /\ aliases' = AtEntry
    /\ stale' = IF regs'[SP] = Entry THEN {} ELSE {SP}
    /\ moved' = {}

-----------------------------------------------------------------------------

Init ==
    /\ aliases = AtEntry
    /\ \E contents \in Anywhere : regs = [contents EXCEPT ![SP] = Entry]
    /\ pre = regs
    /\ written = {}
    /\ flow = "next"
    /\ moved = {} /\ stale = {}
    /\ shown = NotShown

AliasSlot ==
    \/ \E dst, src \in Reg, imm \in Imm \cup {0} : AddSlot(dst, src, imm)
    \/ \E dst, src \in Reg, imm \in Imm : AddxSlot(dst, src, imm)
    \/ \E dst \in Reg : OtherSlot(dst)

MemorySlot ==
    \/ \E base \in Reg, disp \in Imm : StoreSlot(base, disp)
    \/ \E dst, base \in Reg, disp \in Imm : LoadSlot(dst, base, disp)
    \/ \E base \in Reg, disp \in Imm : StoreAddSlot(base, disp)
    \/ \E dst, base \in Reg, disp \in Imm : LoadAddSlot(dst, base, disp)

ControlSlot == CallSlot \/ JumpSlot

BundleEntry == FallThrough \/ ReturnFromCall \/ EnterUnlabelled \/ EnterLabel

Next == AliasSlot \/ MemorySlot \/ ControlSlot \/ BundleEntry

Spec == Init /\ [][Next]_vars

-----------------------------------------------------------------------------
(* Properties *)

TypeOK ==
    /\ aliases \in [valid : SUBSET Reg, offset : [Reg -> Word]]
    /\ regs \in [Reg -> Word] /\ pre \in [Reg -> Word]
    /\ written \in SUBSET Reg /\ moved \in SUBSET Reg /\ stale \in SUBSET Reg
    /\ flow \in {"next", "call", "stop"}
    /\ shown \in [offset : Word, actual : Word]

(* A register with an offset is that far from sp at the entry, outside the *)
(* situations named above (processor.cpp:521-573).                         *)
OffsetsTrue ==
    \A r \in aliases.valid \ (stale \cup moved) : regs[r] = Plus(Entry, aliases.offset[r])

(* The stack slot an operand is shown as is the one the machine accesses   *)
(* (processor.cpp:512-519, 1321-1326).                                     *)
ShownTrue == shown.actual = Plus(Entry, shown.offset)

(* Nothing but a write to a register, or a join point, ends what is known  *)
(* of it: a long run of slots keeps its frame pointers                     *)
(* (processor.cpp:521-537).                                                *)
AliasesKept ==
    [][aliases' = AtEntry \/ aliases.valid \ aliases'.valid \subseteq written' \cup {ZERO}]_vars

(* The base of a memory operand with write-back is written, as             *)
(* src/src/tests.rs:517-535 expects of st4_add, so that an offset from     *)
(* before is not kept for it.                                              *)
WriteBackSeen ==
    \A r \in aliases.valid \ stale : regs[r] = Plus(Entry, aliases.offset[r])
=============================================================================
