-------------------------------- MODULE Isa --------------------------------
(***************************************************************************)
(* What decoder and row analysis share: the shape of the decode tables,    *)
(* the extraction of operands from a word, and the view of a decoded slot  *)
(* (SlotView) that asks the tables for its name and its operands' roles.   *)
(*                                                                         *)
(* A 64-bit word is the set of its one bits.  An itype is an index into    *)
(* Opcodes, 0 for a slot that did not decode.  A slot holds its visible    *)
(* operands as a sequence, so that n_ops is its length and operand i of    *)
(* the code is element i + 1.  Raw operands are counted from 0, as the     *)
(* tables do.  Values are integers: the addresses of a model stay far from *)
(* the ends of the 64-bit range.                                           *)
(***************************************************************************)
EXTENDS Integers, Sequences, FiniteSets, FiniteSetsExt, SequencesExt

CONSTANTS
  Opcodes,    \* sequence of [name, num_operands, mem, enc]
  Operands,   \* index to [kind, num_bits, signed, src, dest, pc_rel, ...]
  NO_MEM_OP,  \* in base_op and disp_op: there is no such operand
  SP_REG, LR_REG, FP_REG, NUM_GPRS

Pipes == 0..4

Word == SUBSET (0..63)

TG_MAX_OPS == 4

\* The positions of S among 1..n, in order: what a loop keeps that skips the others.
Kept(n, S) ==
  LET out[i \in 0..n] ==
        IF i = 0 THEN <<>> ELSE IF i \in S THEN Append(out[i - 1], i) ELSE out[i - 1]
  IN  out[n]

\* What the decoder needs of the tables: operands are counted, and a match is decided
\* by bits of a word.
ASSUME OpcodesAssumption ==
  /\ Len(Opcodes) \in Nat
  /\ \A i \in 1..Len(Opcodes) : Opcodes[i].num_operands \in 0..TG_MAX_OPS
  /\ \A i \in 1..Len(Opcodes), pipe \in Pipes :
       /\ Opcodes[i].enc[pipe].valid \in BOOLEAN
       /\ Opcodes[i].enc[pipe].mask \in Word
       /\ Opcodes[i].enc[pipe].val \in Word

NoOp == [kind |-> "None", dtype |-> 0, reg |-> 0, value |-> 0]

NoSlot == [itype |-> 0, ops |-> <<>>]

-----------------------------------------------------------------------------
(* Extraction of operands (decode.rs). *)

\* Bit k of the field that an operand gathers from a word.
FieldBit(raw, od, k) ==
  IF \E pair \in od.bits : pair[1] \in raw /\ pair[2] = k THEN 1 ELSE 0

\* The field from its highest bit down: above[k] is what bits k and above are worth.
FieldOf(raw, od) ==
  LET above[k \in 0..od.num_bits] ==
        IF k = od.num_bits THEN 0 ELSE FieldBit(raw, od, k) + 2 * above[k + 1]
  IN  above[0]

\* Mutant: the shift of the sign extension is one too small.
SignBitMissed(field, od) ==
  IF od.signed /\ field >= 2^od.num_bits THEN field - 2^od.num_bits ELSE field

SignExtended(field, od) ==
  IF od.signed /\ field >= 2^(od.num_bits - 1) THEN field - 2^od.num_bits ELSE field

extract_operand(raw, pc, od) ==
  LET field == FieldOf(raw, od)
      value == SignExtended(field, od) * 2^od.rightshift
               + (IF od.pc_rel THEN pc ELSE 0)
  IN  CASE od.kind = "Reg"  -> [NoOp EXCEPT !.kind = "Reg", !.reg = field % 64]
        [] od.kind = "Addr" -> [NoOp EXCEPT !.kind = "Near", !.value = value]
        [] OTHER            -> [NoOp EXCEPT !.kind = od.kind, !.value = value]

\* The operand that shows a memory access: its base register and displacement.
memory_operand(raw_ops, mem) ==
  IF raw_ops[mem.base_op].kind # "Reg"
  THEN NoOp
  ELSE [kind |-> "Mem", dtype |-> mem.size, reg |-> raw_ops[mem.base_op].reg,
        value |-> IF mem.disp_op = NO_MEM_OP THEN 0 ELSE raw_ops[mem.disp_op].value]

\* The raw operands that stay visible, in order: all but a displacement.
VisibleRaw(opcode) ==
  LET shown == Kept(opcode.num_operands,
                    {k \in 1..opcode.num_operands : k - 1 # opcode.mem.disp_op})
  IN  [v \in DOMAIN shown |-> shown[v] - 1]

visible_operands(raw_ops, opcode) ==
  LET shown(i) == IF opcode.mem.kind # "None" /\ i = opcode.mem.base_op
                  THEN memory_operand(raw_ops, opcode.mem)
                  ELSE raw_ops[i]
  IN  [v \in DOMAIN VisibleRaw(opcode) |-> shown(VisibleRaw(opcode)[v])]

\* The slot for opcode number itype in a word.
SlotOf(raw, pc, pipe, itype) ==
  LET opcode  == Opcodes[itype]
      raw_ops == [i \in 0..(opcode.num_operands - 1) |->
                    extract_operand(raw, pc, Operands[opcode.enc[pipe].ops[i + 1]])]
  IN  [itype |-> itype, ops |-> visible_operands(raw_ops, opcode)]

-----------------------------------------------------------------------------
(* SlotView (analysis.rs). *)

NameOf(slot) == IF slot.itype = 0 THEN "" ELSE Opcodes[slot.itype].name

OpAt(slot, v) == IF v \in DOMAIN slot.ops THEN slot.ops[v] ELSE NoOp

\* The raw operand shown as visible operand v.
visible_to_raw_op_index(opcode, v) == VisibleRaw(opcode)[v]

\* Mutant: the first pipe, valid or not.
operand_def_of_X0(slot, v) ==
  LET opcode == Opcodes[slot.itype]
  IN  Operands[opcode.enc[0].ops[visible_to_raw_op_index(opcode, v) + 1]]

\* The tables' definition of a visible operand, taken from the first pipe that
\* has the opcode, whichever pipe the slot was decoded in.
operand_def(slot, v) ==
  LET opcode == Opcodes[slot.itype]
      pipe   == Min({p \in Pipes : opcode.enc[p].valid})
  IN  Operands[opcode.enc[pipe].ops[visible_to_raw_op_index(opcode, v) + 1]]

HasReg(slot, v) == OpAt(slot, v).kind = "Reg" /\ OpAt(slot, v).reg < NUM_GPRS

HasImm(slot, v) == OpAt(slot, v).kind \in {"Imm", "Spr"}

Calls == {"jal", "jalr", "jalrp"}

CondJumps == {"beqz", "beqzt", "bgez", "bgezt", "bgtz", "bgtzt", "blbc", "blbct",
              "blbs", "blbst", "blez", "blezt", "bltz", "bltzt", "bnez", "bnezt"}

Stops == {"iret", "j", "jr", "jrp"}

is_call(slot) == NameOf(slot) \in Calls

is_cond_jump(slot) == NameOf(slot) \in CondJumps

is_stop(slot) == NameOf(slot) \in Stops

is_ret(slot) ==
  \/ NameOf(slot) = "iret"
  \/ NameOf(slot) \in {"jr", "jrp"} /\ OpAt(slot, 1).kind = "Reg" /\ OpAt(slot, 1).reg = LR_REG

is_indirect_jump(slot) == NameOf(slot) \in {"jr", "jrp"} /\ ~is_ret(slot)

writes_first_register(slot) == slot.itype # 0 /\ HasReg(slot, 1) /\ operand_def(slot, 1).dest

\* The base registers that a memory operand of the slot moves.
WrittenBack(slot) ==
  {slot.ops[v].reg : v \in {u \in DOMAIN slot.ops : slot.ops[u].kind = "Mem"
                                                     /\ operand_def(slot, u).dest}}
=============================================================================
