------------------------------- MODULE Decode -------------------------------
(***************************************************************************)
(* What decode_bundle promises: the mode bits of a word choose the pipes,  *)
(* each pipe decodes by itself, and of the opcodes that match the word in  *)
(* a pipe the one with the most fixed bits wins, the first of the table    *)
(* among equals.  How the loop finds it is in module DecodeScan.           *)
(***************************************************************************)
EXTENDS Isa

CONSTANTS
  Raws,  \* the words to decode
  Pcs    \* the addresses to decode them at

VARIABLES
  raw, pc,
  slots,   \* the slots decoded so far, one per pipe
  outcome  \* "pending", then "bundle" or "none"

vars == <<raw, pc, slots, outcome>>

MODE_MASK == 62..63

\* Mutant: the last pipe of a Y bundle is the second once more.
PipesTwice(word) == IF word \cap MODE_MASK = {} THEN <<0, 1>> ELSE <<2, 3, 3>>

PipesOf(word) == IF word \cap MODE_MASK = {} THEN <<0, 1>> ELSE <<2, 3, 4>>

Matches(word, pipe, i) ==
  LET enc == Opcodes[i].enc[pipe]
  IN  enc.valid /\ word \cap enc.mask = enc.val

\* Mutant: the ones of the value are counted instead of those of the mask.
SetBits(pipe, i) == Cardinality(Opcodes[i].enc[pipe].val)

FixedBits(pipe, i) == Cardinality(Opcodes[i].enc[pipe].mask)

\* Opcode i is the one to take among the first n of the table.
IsBest(word, pipe, i, n) ==
  /\ i \in 1..n
  /\ Matches(word, pipe, i)
  /\ \A j \in 1..n : Matches(word, pipe, j) =>
       \/ FixedBits(pipe, j) < FixedBits(pipe, i)
       \/ FixedBits(pipe, j) = FixedBits(pipe, i) /\ i <= j

NoMatch(word, pipe, n) == \A j \in 1..n : ~Matches(word, pipe, j)

\* A bundle is decoded at its own address, with the low bits of the row's cleared.
ASSUME PcsAssumption == \A p \in Pcs : p \in Int /\ p % 8 = 0

-----------------------------------------------------------------------------
(* What the tables have to satisfy: each is a fact about generated.rs.     *)

InputBits(od) == {pair[1] : pair \in od.bits}

\* The definition of raw operand k, counted from 1, of opcode i in a pipe.
RawOf(pipe, i, k) == Operands[Opcodes[i].enc[pipe].ops[k]]

\* The bits of the word that opcode i reads in a pipe.
UsedBy(pipe, i) ==
  Opcodes[i].enc[pipe].mask
    \cup UNION {InputBits(RawOf(pipe, i, k)) : k \in 1..Opcodes[i].num_operands}

\* The opcodes that a pipe has.
Having(pipe) == {i \in 1..Len(Opcodes) : Opcodes[i].enc[pipe].valid}

PipeBits(pipe) == UNION {UsedBy(pipe, i) : i \in Having(pipe)}

\* Two pipes of one bundle format share no bit but the mode bits.
ASSUME PipesAssumption ==
  \A p, q \in Pipes : p # q /\ (p < 2 <=> q < 2) => PipeBits(p) \cap PipeBits(q) \subseteq MODE_MASK

\* Two opcodes of a pipe that some word matches, with as many fixed bits, are one
\* instruction under two names.
ASSUME AliasAssumption ==
  \A pipe \in Pipes : \A i, j \in Having(pipe) :
    LET a == Opcodes[i].enc[pipe]
        b == Opcodes[j].enc[pipe]
    IN  a.val \cap b.mask = b.val \cap a.mask /\ Cardinality(a.mask) = Cardinality(b.mask)
          => /\ a = b
             /\ Opcodes[i].mem = Opcodes[j].mem
             /\ Opcodes[i].num_operands = Opcodes[j].num_operands

\* A visible operand has one kind and one role in all the pipes of its opcode.
ASSUME RolesAssumption ==
  \A i \in 1..Len(Opcodes) : \A p, q \in {r \in Pipes : i \in Having(r)} :
    \A v \in DOMAIN VisibleRaw(Opcodes[i]) :
      LET a == RawOf(p, i, VisibleRaw(Opcodes[i])[v] + 1)
          b == RawOf(q, i, VisibleRaw(Opcodes[i])[v] + 1)
      IN  a.kind = b.kind /\ a.src = b.src /\ a.dest = b.dest

\* Each bit of a field comes from one bit of the word.  A register number is a field as
\* it stands.
ASSUME FieldsAssumption ==
  \A pipe \in Pipes : \A i \in Having(pipe) : \A k \in 1..Opcodes[i].num_operands :
    LET od == RawOf(pipe, i, k)
    IN  /\ od.kind \in {"Reg", "Addr", "Imm", "Spr"}
        /\ od.num_bits \in 1..30 /\ od.rightshift \in 0..3
        /\ {pair[2] : pair \in od.bits} = 0..(od.num_bits - 1)
        /\ \A p, q \in od.bits : p[2] = q[2] => p = q
        /\ od.kind = "Reg" => od.num_bits <= 6 /\ od.rightshift = 0 /\ ~od.signed /\ ~od.pc_rel

\* A memory access has a base register and at most one displacement, which are two
\* operands of the opcode; no other opcode has a hidden operand.
ASSUME MemoryAssumption ==
  \A pipe \in Pipes : \A i \in Having(pipe) :
    LET mem     == Opcodes[i].mem
        raw_ops == 0..(Opcodes[i].num_operands - 1)
    IN  /\ NO_MEM_OP \notin raw_ops
        /\ mem.disp_op \in raw_ops \cup {NO_MEM_OP}
        /\ mem.disp_op \in raw_ops =>
             mem.kind # "None" /\ RawOf(pipe, i, mem.disp_op + 1).kind = "Imm"
        /\ mem.kind # "None" =>
             /\ mem.base_op \in raw_ops \ {mem.disp_op}
             /\ RawOf(pipe, i, mem.base_op + 1).kind = "Reg"

-----------------------------------------------------------------------------
(* The decoder. *)

Init ==
  /\ raw \in Raws
  /\ pc \in Pcs
  /\ slots = <<>>
  /\ outcome = "pending"

CurrentPipe == PipesOf(raw)[Len(slots) + 1]

\* One pipe of the bundle is decoded.
DecodePipe ==
  /\ Len(slots) < Len(PipesOf(raw))
  /\ \/ /\ NoMatch(raw, CurrentPipe, Len(Opcodes))
        /\ slots' = Append(slots, NoSlot)
     \/ \E i \in 1..Len(Opcodes) :
          /\ IsBest(raw, CurrentPipe, i, Len(Opcodes))
          /\ slots' = Append(slots, SlotOf(raw, pc, CurrentPipe, i))
  /\ UNCHANGED <<raw, pc, outcome>>

\* There is a bundle if one pipe decoded.
Finish ==
  /\ outcome = "pending"
  /\ Len(slots) = Len(PipesOf(raw))
  /\ outcome' = IF \E n \in DOMAIN slots : slots[n].itype # 0 THEN "bundle" ELSE "none"
  /\ UNCHANGED <<raw, pc, slots>>

Next == DecodePipe \/ Finish

Spec == Init /\ [][Next]_vars

-----------------------------------------------------------------------------
(* Invariants over the tables. *)

Decoded == {n \in DOMAIN slots : slots[n].itype # 0}

\* Slot n as the tables see it: its opcode, its pipe and its raw operands.
OpcodeOf(n) == Opcodes[slots[n].itype]

PipeOf(n) == PipesOf(raw)[n]

EncOf(n) == OpcodeOf(n).enc[PipeOf(n)]

RawDef(n, i) == Operands[EncOf(n).ops[i + 1]]

UsedBits(n) == UsedBy(PipeOf(n), slots[n].itype)

\* The value that slot n shows for raw operand i: a displacement has no visible
\* operand of its own and is read from the memory operand.
ShownValue(n, i) ==
  LET mem     == OpcodeOf(n).mem
      shows   == IF mem.kind # "None" /\ i = mem.disp_op THEN mem.base_op ELSE i
      visible == CHOOSE v \in DOMAIN slots[n].ops : VisibleRaw(OpcodeOf(n))[v] = shows
      op      == slots[n].ops[visible]
  IN  IF RawDef(n, i).kind = "Reg" THEN op.reg ELSE op.value

\* The bits of the word that an assembler sets for raw operand i of slot n.
Assembled(n, i) ==
  LET od    == RawDef(n, i)
      value == (ShownValue(n, i) - (IF od.pc_rel THEN pc ELSE 0)) \div 2^od.rightshift
      field == value % 2^od.num_bits
  IN  {pair[1] : pair \in {p \in od.bits : (field \div 2^p[2]) % 2 = 1}}

\* A signed operand shows both signs, an unsigned one only its own field.
ShownInRange(n, i) ==
  LET od    == RawDef(n, i)
      value == (ShownValue(n, i) - (IF od.pc_rel THEN pc ELSE 0)) \div 2^od.rightshift
      low   == IF od.signed THEN -2^(od.num_bits - 1) ELSE 0
  IN  value \in low..(low + 2^od.num_bits - 1)

\* Nothing is lost in decoding: what a slot shows, put together again by the
\* tables, is the word's bits for its pipe, with the sign, the scale and the
\* address of every operand undone (extract_operand, visible_operands).
RoundTrip ==
  \A n \in Decoded :
    LET again == {Assembled(n, i) : i \in 0..(OpcodeOf(n).num_operands - 1)}
    IN  /\ EncOf(n).val \cup UNION again = raw \cap UsedBits(n)
      /\ \A i \in 0..(OpcodeOf(n).num_operands - 1) : ShownInRange(n, i)

\* The pipes of a bundle are independent: two slots read a bit in common only
\* to tell the bundle's format, so no operand is taken from another pipe's bits.
SlotsApart ==
  \A m, n \in Decoded : m # n => UsedBits(m) \cap UsedBits(n) \subseteq MODE_MASK

\* The order of the table decides nothing but a name: opcodes that match a pipe
\* of the word with as many fixed bits as the winner (decode_pipe keeps the first)
\* have its encoding, its memory access and its operands.
OnlyAliasesTie ==
  \A n \in Decoded : \A i \in 1..Len(Opcodes) :
    Matches(raw, PipeOf(n), i) /\ FixedBits(PipeOf(n), i) = FixedBits(PipeOf(n), slots[n].itype)
      => /\ Opcodes[i].enc[PipeOf(n)] = EncOf(n)
         /\ Opcodes[i].mem = OpcodeOf(n).mem
         /\ Opcodes[i].num_operands = OpcodeOf(n).num_operands

\* operand_def asks the first pipe that has the opcode, whatever pipe the slot
\* came from: its answer about kind and roles is right for the slot's own pipe.
RolesShared ==
  \A n \in Decoded : \A v \in DOMAIN slots[n].ops :
    LET own   == RawDef(n, VisibleRaw(OpcodeOf(n))[v])
        asked == operand_def(slots[n], v)
    IN  asked.kind = own.kind /\ asked.src = own.src /\ asked.dest = own.dest
=============================================================================
