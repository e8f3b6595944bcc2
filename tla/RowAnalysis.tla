---------------------------- MODULE RowAnalysis ----------------------------
(***************************************************************************)
(* A decoded bundle is shown as rows (analysis.rs): the first slot at      *)
(* offset 0 and the others at offset 4, or one row of 8 bytes when only    *)
(* one slot decoded.  The module composes the decoder with what is asked   *)
(* about the rows, and with a disassembler that lists the rows from the    *)
(* first one on, following next_offset while control falls through.        *)
(*                                                                         *)
(* Slot indices count from 1 here; flags and accesses are sets.            *)
(***************************************************************************)
EXTENDS Decode

VARIABLES
  at,     \* offset of the next row to list
  listed  \* the analyses of the rows listed so far

rowVars == <<raw, pc, slots, outcome, at, listed>>

TG_MAX_SLOTS == 3

TG_MAX_CREFS == TG_MAX_SLOTS * TG_MAX_OPS

TG_MAX_REG_ACCESSES == 16

NoOpIndex == 255  \* op_index of an access that no operand shows

-----------------------------------------------------------------------------
(* Rows. *)

valid_slot_indices(bundle) == Kept(Len(bundle), {i \in DOMAIN bundle : bundle[i].itype # 0})

row_count(slot_count) == Min({slot_count, 2})

row_offset(row, slot_count) == IF slot_count <= 1 \/ row = 0 THEN 0 ELSE 4

\* Mutant: the second row has one slot, as in an X bundle.
OneSlotRows(slot_count, row) ==
  IF row = 0 THEN (IF slot_count > 0 THEN {1} ELSE {})
  ELSE {2} \cap (1..slot_count)

\* Mutant: the first row has two slots, the second what is left.
TwoSlotsFirst(slot_count, row) == IF row = 0 THEN 1..Min({slot_count, 2}) ELSE 3..slot_count

\* The positions among the valid slots that a row takes.
row_slots(slot_count, row) ==
  IF row = 0 THEN (IF slot_count > 0 THEN {1} ELSE {})
  ELSE 2..slot_count

code_rows(bundle) ==
  LET count == Len(valid_slot_indices(bundle))
  IN  [r \in 1..row_count(count) |-> row_offset(r - 1, count)]

\* Mutant: a conditional jump is not marked as a jump.
FlagsPlainCond(slot) ==
  (IF is_call(slot) THEN {"CALL"} ELSE {})
  \cup (IF is_ret(slot) THEN {"RET"} ELSE {})
  \cup (IF is_cond_jump(slot) THEN {"COND_JUMP"} ELSE {})
  \cup (IF is_indirect_jump(slot) THEN {"INDIRECT_JUMP", "JUMP"} ELSE {})
  \cup (IF is_stop(slot) THEN {"STOP", "JUMP"} ELSE {})

flags_of(slot) ==
  (IF is_call(slot) THEN {"CALL"} ELSE {})
  \cup (IF is_ret(slot) THEN {"RET"} ELSE {})
  \cup (IF is_cond_jump(slot) THEN {"COND_JUMP", "JUMP"} ELSE {})
  \cup (IF is_indirect_jump(slot) THEN {"INDIRECT_JUMP", "JUMP"} ELSE {})
  \cup (IF is_stop(slot) THEN {"STOP", "JUMP"} ELSE {})

row_flags(bundle, row) == UNION {flags_of(bundle[n]) : n \in row}

\* The rows that start at an offset: one or none.
row_at(bundle, offset) ==
  LET indices == valid_slot_indices(bundle)
      count   == Len(indices)
      row(r)  ==
        LET end   == IF r + 1 < row_count(count) THEN row_offset(r + 1, count) ELSE 8
            taken == {indices[k] : k \in row_slots(count, r)}
        IN  [slots |-> taken, size |-> end - row_offset(r, count), next_offset |-> end,
             flags |-> row_flags(bundle, taken)]
  IN  {row(r) : r \in {q \in 0..(row_count(count) - 1) : row_offset(q, count) = offset}}

\* Control flow belongs to the second pipe of a bundle, and the opcodes with a branch
\* target are the conditional jumps, the direct jump and the direct call.
ASSUME ControlAssumption ==
  \A pipe \in Pipes : \A i \in Having(pipe) :
    /\ Opcodes[i].name \in CondJumps \cup Calls \cup Stops => pipe \in {1, 3}
    /\ (\E k \in 1..Opcodes[i].num_operands : RawOf(pipe, i, k).kind = "Addr")
         <=> Opcodes[i].name \in CondJumps \cup {"j", "jal"}

\* A branch target is anchored to the bundle and counted in bundles, and an opcode has
\* one at most.
ASSUME TargetsAssumption ==
  \A pipe \in Pipes : \A i \in Having(pipe) : \A j, k \in 1..Opcodes[i].num_operands :
    RawOf(pipe, i, j).kind = "Addr" =>
      /\ RawOf(pipe, i, j).rightshift = 3 /\ RawOf(pipe, i, j).pc_rel
      /\ RawOf(pipe, i, k).kind = "Addr" => j = k

\* A register operand is read or written or both, and there is a register for every
\* number that a field can hold.
ASSUME AccessAssumption ==
  /\ NUM_GPRS \in Nat /\ NUM_GPRS >= 64 /\ LR_REG \in 0..63
  /\ \A pipe \in Pipes : \A i \in Having(pipe) : \A k \in 1..Opcodes[i].num_operands :
       RawOf(pipe, i, k).kind = "Reg" => RawOf(pipe, i, k).src \/ RawOf(pipe, i, k).dest

-----------------------------------------------------------------------------
(* What is asked about a row. *)

InOrder(row) == Kept(TG_MAX_SLOTS, row.slots)

\* The visible operands of some kinds, by their position.
Showing(slot, kinds) ==
  Kept(TG_MAX_OPS, {v \in DOMAIN slot.ops : slot.ops[v].kind \in kinds})

\* Mutant: the target is the first operand, where the tested register of a branch is.
FirstOperandRefs(slot) ==
  LET near == Showing(slot, {"Near"})
  IN  [k \in DOMAIN near |-> [kind   |-> IF is_call(slot) THEN "CALL" ELSE "JUMP",
                              target |-> slot.ops[1].value]]

SlotRefs(slot) ==
  LET near == Showing(slot, {"Near"})
  IN  [k \in DOMAIN near |-> [kind   |-> IF is_call(slot) THEN "CALL" ELSE "JUMP",
                              target |-> slot.ops[near[k]].value]]

refs_for(bundle, row) ==
  LET order == InOrder(row)
      all   == FlattenSeq([k \in DOMAIN order |-> SlotRefs(bundle[order[k]])])
  IN  SubSeq(all, 1, Min({Len(all), TG_MAX_CREFS}))

\* Mutant: an access to an operand that has one already is dropped.
AddFirstOnly(accesses, new) ==
  IF \/ new.reg >= NUM_GPRS \/ new.access = {}
     \/ \E k \in DOMAIN accesses : accesses[k].reg = new.reg /\ accesses[k].op_index = new.op_index
  THEN accesses
  ELSE IF Len(accesses) >= TG_MAX_REG_ACCESSES THEN accesses ELSE Append(accesses, new)

\* RegAccessBuilder.add: accesses to one register under one operand index merge.
add_access(accesses, new) ==
  LET same == {k \in DOMAIN accesses :
                 accesses[k].reg = new.reg /\ accesses[k].op_index = new.op_index}
  IN  CASE new.reg >= NUM_GPRS \/ new.access = {} -> accesses
        [] new.reg < NUM_GPRS /\ new.access # {} /\ same # {} ->
             [accesses EXCEPT ![Min(same)].access = @ \cup new.access]
        [] OTHER -> IF Len(accesses) >= TG_MAX_REG_ACCESSES THEN accesses
                    ELSE Append(accesses, new)

Roles(od) == (IF od.src THEN {"READ"} ELSE {}) \cup (IF od.dest THEN {"WRITE"} ELSE {})

AccessOf(slot, v) ==
  LET roles == Roles(operand_def(slot, v))
  IN  [reg |-> slot.ops[v].reg, op_index |-> v - 1,
       access |-> IF slot.ops[v].kind = "Mem" \/ roles # {} THEN roles
                  ELSE IF v = 1 /\ writes_first_register(slot) THEN {"WRITE"} ELSE {"READ"}]

\* What one slot adds: its registers and bases, and the link of a call.
reg_accesses(slot) ==
  LET shown == Showing(slot, {"Reg", "Mem"})
      link  == [reg |-> LR_REG, op_index |-> NoOpIndex, access |-> {"WRITE"}]
  IN  [k \in DOMAIN shown |-> AccessOf(slot, shown[k])] \o (IF is_call(slot) THEN <<link>> ELSE <<>>)

\* A row's accesses, each added to what those before it built.
row_reg_accesses(bundle, row) ==
  LET order == InOrder(row)
      all   == FlattenSeq([k \in DOMAIN order |-> reg_accesses(bundle[order[k]])])
      out[k \in 0..Len(all)] == IF k = 0 THEN <<>> ELSE add_access(out[k - 1], all[k])
  IN  out[Len(all)]

Additions == {"addi", "addli", "addxi", "addxli"}

\* An addition of an immediate to the stack pointer: the set of its amount.
sp_delta(slot) ==
  {slot.ops[3].value : v \in
     {u \in {1} : /\ NameOf(slot) \in Additions
                  /\ HasReg(slot, 1) /\ slot.ops[1].reg = SP_REG
                  /\ HasReg(slot, 2) /\ slot.ops[2].reg = SP_REG
                  /\ HasImm(slot, 3)}}

row_sp_delta(bundle, row) ==
  FoldLeft(LAMBDA total, n : total + SumSet(sp_delta(bundle[n])), 0, InOrder(row))

\* Mutant: only the row's own slots are asked for.
RowOfNops(bundle, row) ==
  IF \A n \in row.slots : NameOf(bundle[n]) = "nop" THEN row.size ELSE 0

\* Only the filler nop counts, and all decoded slots of the bundle must be one.
row_align_size(bundle, row) ==
  IF \A n \in DOMAIN bundle : bundle[n].itype # 0 => NameOf(bundle[n]) = "nop"
  THEN row.size ELSE 0

moves_frame_pointer(slot) ==
  /\ NameOf(slot) = "move"
  /\ HasReg(slot, 1) /\ slot.ops[1].reg = FP_REG
  /\ HasReg(slot, 2) /\ slot.ops[2].reg = SP_REG

\* The mnemonics that begin with "st".
Stores == {"st", "st1", "st1_add", "st2", "st2_add", "st4", "st4_add", "st_add",
           "stnt", "stnt1", "stnt1_add", "stnt2", "stnt2_add", "stnt4", "stnt4_add", "stnt_add"}

\* An addition of an immediate writes its first operand, reads its second, and is not in
\* the pipe that adds a second slot to a row; a store has one register besides its base,
\* which it reads.
ASSUME PrologueAssumption ==
  \A pipe \in Pipes : \A i \in Having(pipe) :
    LET Reg(k) == k < Opcodes[i].num_operands /\ RawOf(pipe, i, k + 1).kind = "Reg"
    IN  /\ Opcodes[i].name \in Additions =>
             /\ pipe # 4 /\ Opcodes[i].mem.kind = "None"
             /\ Reg(0) => RawOf(pipe, i, 1).dest
             /\ Reg(1) => RawOf(pipe, i, 2).src
        /\ Opcodes[i].name \in Stores =>
             /\ Opcodes[i].mem.kind = "Write"
             /\ \A j, k \in 0..3 \ {Opcodes[i].mem.base_op} : Reg(j) /\ Reg(k) =>
                  j = k /\ RawOf(pipe, i, j + 1).src

\* Mutant: every access through the stack pointer is a store.
AnyStackAccess(slot) ==
  \E v \in DOMAIN slot.ops : slot.ops[v].kind = "Mem" /\ slot.ops[v].reg = SP_REG

StoresToStack(slot) ==
  /\ NameOf(slot) \in Stores
  /\ \E v \in DOMAIN slot.ops : slot.ops[v].kind = "Mem" /\ slot.ops[v].reg = SP_REG

StoredRegs(slot) == {slot.ops[v].reg : v \in {u \in DOMAIN slot.ops : slot.ops[u].kind = "Reg"}}

stores_link_to_stack(slot) == StoresToStack(slot) /\ LR_REG \in StoredRegs(slot)

\* The register that a store puts on the stack: one or none.
stack_store_reg(slot) ==
  IF StoresToStack(slot)
  THEN {slot.ops[Min(regs)].reg : regs \in
          {{u \in DOMAIN slot.ops : HasReg(slot, u)}} \ {{}}}
  ELSE {}

function_start_score(slot) ==
  CASE is_ret(slot) \/ (is_stop(slot) /\ ~is_call(slot)) \/ is_cond_jump(slot) -> 0
    [] OTHER -> IF moves_frame_pointer(slot) THEN 95
                ELSE IF \E d \in sp_delta(slot) : d < 0 THEN 85
                ELSE IF stores_link_to_stack(slot) THEN 80 ELSE 0

row_may_be_func(bundle, row) == Max({function_start_score(bundle[n]) : n \in row.slots} \cup {0})

first_slot(bundle, row) == IF row.slots = {} THEN NoSlot ELSE bundle[Min(row.slots)]

analysis_at(bundle, offset) ==
  {[offset |-> offset, row |-> row, first_slot |-> first_slot(bundle, row),
    refs |-> refs_for(bundle, row), accesses |-> row_reg_accesses(bundle, row),
    align |-> row_align_size(bundle, row), delta |-> row_sp_delta(bundle, row),
    score |-> row_may_be_func(bundle, row)] : row \in row_at(bundle, offset)}

-----------------------------------------------------------------------------
(* Decoding, then listing. *)

RowInit == Init /\ at = 0 /\ listed = <<>>

DecodeStep == Next /\ UNCHANGED <<at, listed>>

FallsThrough(analysis) == "STOP" \notin analysis.row.flags

\* The row at the current offset is analysed and listed.
ListRow ==
  /\ outcome = "bundle"
  /\ \A k \in DOMAIN listed : FallsThrough(listed[k])
  /\ \E analysis \in analysis_at(slots, at) :
       /\ listed' = Append(listed, analysis)
       /\ at' = analysis.row.next_offset
  /\ UNCHANGED vars

RowNext == DecodeStep \/ ListRow

RowSpec == RowInit /\ [][RowNext]_rowVars

-----------------------------------------------------------------------------
(* Properties. *)

ListedSlots == {n \in DOMAIN slots : \E k \in DOMAIN listed : n \in listed[k].row.slots}

\* Listing stopped at the end of the bundle or at a row that control never leaves.
ListingDone ==
  outcome = "bundle" /\ listed # <<>> /\ (at = 8 \/ ~FallsThrough(Last(listed)))

\* The rows tile the bundle: the walk along next_offset reaches exactly the offsets
\* that bundle_code_rows announces, every decoded slot is in one row, in the order
\* of the pipes, and each row ends where the next begins, the last at 8 bytes.  No row starts between the
\* announced ones: a jump into a bundle finds a row that was listed or none
\* (row_at on every offset byte, code_rows, row_slots).
RowsTile ==
  (outcome = "bundle" /\ at = 8) =>
    /\ {o \in 0..8 : row_at(slots, o) # {}} = Range(code_rows(slots))
    /\ [k \in DOMAIN listed |-> listed[k].offset] = code_rows(slots)
    /\ listed[1].offset = 0
    /\ \A k \in DOMAIN listed :
         /\ listed[k].offset + listed[k].row.size = listed[k].row.next_offset
         /\ listed[k].row.next_offset = IF k = Len(listed) THEN 8 ELSE listed[k + 1].offset
    /\ ListedSlots = Decoded
    /\ \A j, k \in DOMAIN listed :
         j < k => \A m \in listed[j].row.slots, n \in listed[k].row.slots : m < n

HasAddr(n) == \E i \in 0..(OpcodeOf(n).num_operands - 1) : RawDef(n, i).kind = "Addr"

\* The control flow of an opcode as the generator of the tables derives it from
\* its mnemonic and its address operand.
cflow(n) ==
  CASE NameOf(slots[n]) \in {"jal", "jalr", "jalrp"} -> "call"
    [] NameOf(slots[n]) = "j" -> "jump"
    [] NameOf(slots[n]) \in {"jr", "jrp"} -> "ijump"
    [] NameOf(slots[n]) = "iret" -> "ret"
    [] OTHER -> IF HasAddr(n) THEN "cbranch" ELSE "normal"

\* Slot n decoded and control never goes on behind it.
StopsFlow(n) == n \in Decoded /\ cflow(n) \in {"jump", "ijump", "ret"}

\* The walk ends at a row that control never leaves, although the slots of a bundle
\* execute together.  It hides a slot in one case only: the first pipe did not decode, so
\* that a stop in the second is a row of its own and the third slot comes after it.  In
\* every other bundle the stop is in the last row (falls_through, row_slots).
StopHides ==
  ListingDone =>
    Decoded \ ListedSlots = IF 1 \notin Decoded /\ StopsFlow(2) THEN Decoded \ {2} ELSE {}

\* The flags of a row, which come from lists of mnemonics, agree with the tables'
\* own control flow: an instruction with a branch target is never taken for a plain
\* one, and no row mixes two of them (row_flags, is_cond_jump, is_stop).
FlagsMatchCflow ==
  \A k \in DOMAIN listed :
    LET row     == listed[k].row
        classes == {cflow(n) : n \in row.slots} \ {"normal"}
    IN  /\ Cardinality(classes) <= 1
        /\ "CALL" \in row.flags <=> "call" \in classes
        /\ "COND_JUMP" \in row.flags <=> "cbranch" \in classes
        /\ "STOP" \in row.flags <=> classes \cap {"jump", "ijump", "ret"} # {}
        /\ "JUMP" \in row.flags <=> classes \cap {"jump", "ijump", "ret", "cbranch"} # {}

\* The references that the tables have for slot n: what its address operands show.
EncodedRefs(n) ==
  {[kind |-> IF cflow(n) = "call" THEN "CALL" ELSE "JUMP", target |-> ShownValue(n, i)] :
     i \in {j \in 0..(OpcodeOf(n).num_operands - 1) : RawDef(n, j).kind = "Addr"}}

\* A row reports the targets that its slots encode, each with its value, once, and as a
\* call only if a call is what encodes it; every target is a bundle (refs_for).  That the
\* value shown is the word's is RoundTrip.
RefsExact ==
  \A k \in DOMAIN listed :
    LET row  == listed[k].row
        refs == listed[k].refs
    IN  /\ Range(refs) = UNION {EncodedRefs(n) : n \in row.slots}
        /\ Len(refs) = Cardinality({n \in row.slots : HasAddr(n)})
        /\ \A r \in Range(refs) : r.target % 8 = 0

\* The registers that the slots of a row read or write by the tables, the base of
\* a memory operand and the link of a call included.
TableRegs(row, role) ==
  (UNION {{ShownValue(n, i) : i \in {j \in 0..(OpcodeOf(n).num_operands - 1) :
                                       RawDef(n, j).kind = "Reg" /\ RawDef(n, j)[role]}} : n \in row.slots})
  \cup (IF role = "dest" /\ (\E n \in row.slots : cflow(n) = "call") THEN {LR_REG} ELSE {})

\* Register accesses are complete and exact for the row as a whole, although two
\* slots of a row use the same operand indices and their entries merge: no read or
\* write is lost and none is invented (row_reg_accesses, RegAccessBuilder).
AccessesExact ==
  \A k \in DOMAIN listed :
    LET row     == listed[k].row
        with(x) == {a.reg : a \in {b \in Range(listed[k].accesses) : x \in b.access}}
    IN  with("READ") = TableRegs(row, "src") /\ with("WRITE") = TableRegs(row, "dest")

\* What the function-start score and the prologue scan take for a prologue is one
\* by the tables: a saved register is the source of a store to memory, a frame
\* adjustment writes the stack pointer it reads, and the slots of a row adjust it
\* once at most, so that no sum of a row loses one (stack_store_reg, sp_delta,
\* stores_link_to_stack, row_sp_delta).
PrologueByTables ==
  /\ \A k \in DOMAIN listed :
       Cardinality({n \in listed[k].row.slots : sp_delta(slots[n]) # {}}) <= 1
  /\ \A n \in Decoded :
    /\ stack_store_reg(slots[n]) # {} =>
         /\ OpcodeOf(n).mem.kind = "Write"
         /\ stack_store_reg(slots[n]) \subseteq TableRegs([slots |-> {n}], "src")
    /\ stores_link_to_stack(slots[n]) => stack_store_reg(slots[n]) = {LR_REG}
    /\ sp_delta(slots[n]) # {} =>
         SP_REG \in TableRegs([slots |-> {n}], "src") \cap TableRegs([slots |-> {n}], "dest")

\* A bundle is filler as a whole or not at all: the rows of a bundle of which one
\* row is reported as alignment are all reported (row_align_size).
FillerWhole ==
  (outcome = "bundle" /\ at = 8) =>
    \/ \A k \in DOMAIN listed : listed[k].align = 0
    \/ \A k \in DOMAIN listed : listed[k].align = listed[k].row.size
=============================================================================
