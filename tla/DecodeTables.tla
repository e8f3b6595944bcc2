---------------------------- MODULE DecodeTables ----------------------------
(***************************************************************************)
(* The operand and opcode tables of the TILE-Gx decoder (generated.rs), as *)
(* values for the constants of module Isa.  A 64-bit word is the set of    *)
(* its one bits, so that a mask is a set of positions and "raw & mask ==   *)
(* val" is an intersection.                                                *)
(*                                                                         *)
(* The encodings of one pipe fall into a few formats: which bits are       *)
(* fixed, and which operands are read from the others.  An encoding is its *)
(* format and its code, the value of the fixed bits read from low to high  *)
(* as one number.  A format that fixes a register field fixes it to all    *)
(* ones, the zero register; those bits are not part of the code.           *)
(***************************************************************************)
EXTENDS Integers, Sequences, FiniteSets, TLC

NoMemOp == 255

-----------------------------------------------------------------------------
(* Operand definitions. *)

\* Input bits first..last of the word are bits out.. of the operand's field.
Field(first, last, out) == {<<i, out + i - first>> : i \in first..last}

OperandDef(kind, bits, signed, src, dest, rightshift) ==
  [kind |-> kind, num_bits |-> Cardinality(bits), signed |-> signed,
   src |-> src, dest |-> dest, pc_rel |-> kind = "Addr",
   rightshift |-> rightshift, bits |-> bits]

Gpr(bits, src, dest)    == OperandDef("Reg", bits, FALSE, src, dest, 0)
Immediate(bits, signed) == OperandDef("Imm", bits, signed, FALSE, FALSE, 0)
SprNumber(bits)         == OperandDef("Spr", bits, FALSE, FALSE, FALSE, 0)
Branch(bits)            == OperandDef("Addr", bits, TRUE, FALSE, FALSE, 3)

OPERANDS_0 == <<
  Immediate(Field(12, 19, 0), TRUE),  \* 0
  Immediate(Field(43, 50, 0), TRUE),  \* 1
  Immediate(Field(12, 19, 0), TRUE),  \* 2
  Immediate(Field(43, 50, 0), TRUE),  \* 3
  Immediate(Field(12, 27, 0), TRUE),  \* 4
  Immediate(Field(43, 58, 0), TRUE),  \* 5
  Gpr(Field(31, 36, 0), FALSE, TRUE),  \* 6
  Gpr(Field(37, 42, 0), TRUE, FALSE),  \* 7
  Gpr(Field(0, 5, 0), FALSE, TRUE),  \* 8
  Gpr(Field(6, 11, 0), TRUE, FALSE),  \* 9
  Gpr(Field(0, 5, 0), FALSE, TRUE),  \* 10
  Gpr(Field(6, 11, 0), TRUE, FALSE),  \* 11
  Gpr(Field(31, 36, 0), FALSE, TRUE),  \* 12
  Gpr(Field(37, 42, 0), TRUE, FALSE),  \* 13
  Gpr(Field(20, 25, 0), TRUE, FALSE),  \* 14
  Gpr(Field(37, 42, 0), TRUE, TRUE),  \* 15
  Gpr(Field(12, 17, 0), TRUE, FALSE),  \* 16
  Gpr(Field(43, 48, 0), TRUE, FALSE),  \* 17
  Gpr(Field(12, 17, 0), TRUE, FALSE),  \* 18
  Gpr(Field(43, 48, 0), TRUE, FALSE)  \* 19
>>

OPERANDS_20 == <<
  Branch(Field(31, 36, 0) \cup Field(43, 53, 6)),  \* 20
  Immediate(Field(18, 23, 0), FALSE),  \* 21
  Immediate(Field(12, 17, 0), FALSE),  \* 22
  Gpr(Field(0, 5, 0), TRUE, TRUE),  \* 23
  Gpr(Field(0, 5, 0), TRUE, TRUE),  \* 24
  Branch(Field(31, 57, 0)),  \* 25
  Gpr(Field(51, 56, 0), FALSE, TRUE),  \* 26
  SprNumber(Field(37, 50, 0)),  \* 27
  SprNumber(Field(31, 36, 0) \cup Field(43, 50, 6)),  \* 28
  Immediate(Field(12, 17, 0), FALSE),  \* 29
  Immediate(Field(43, 48, 0), FALSE),  \* 30
  Immediate(Field(12, 17, 0), FALSE),  \* 31
  Immediate(Field(43, 48, 0), FALSE),  \* 32
  Gpr(Field(51, 56, 0), TRUE, FALSE),  \* 33
  Immediate(Field(31, 36, 0) \cup Field(49, 50, 6), TRUE)  \* 34
>>

\* The operand table: an index, counted from 0 as in the code, to a definition.
OPERANDS == [k \in 0..34 |-> (OPERANDS_0 \o OPERANDS_20)[k + 1]]

-----------------------------------------------------------------------------
(* Formats.  In the X pipes the mode bits are fixed to zero; only the third *)
(* Y pipe looks at them in its own code.                                    *)

Mode == 62..63

X(pipe, coded, ones, ops) ==
  [pipe |-> pipe, coded |-> coded, ones |-> ones,
   mask |-> coded \cup ones \cup Mode, ops |-> ops]

Y(pipe, coded, ones, ops) ==
  [pipe |-> pipe, coded |-> coded, ones |-> ones,
   mask |-> coded \cup ones, ops |-> ops]
Formats ==
     "X0_rrr" :> X(0, 18..30, {}, <<8, 9, 16>>)
  @@ "X0_rrr_acc" :> X(0, 18..30, {}, <<23, 9, 16>>)
  @@ "X0_rri8" :> X(0, 20..30, {}, <<8, 9, 0>>)
  @@ "X0_shift" :> X(0, 18..30, {}, <<8, 9, 29>>)
  @@ "X0_rr" :> X(0, 12..30, {}, <<8, 9>>)
  @@ "X0_rr_acc" :> X(0, 12..30, {}, <<23, 9>>)
  @@ "X0_none" :> X(0, 12..30, {}, <<>>)
  @@ "X0_bitfield" :> X(0, 24..30, {}, <<8, 9, 21, 22>>)
  @@ "X0_bitfield_acc" :> X(0, 24..30, {}, <<23, 9, 21, 22>>)
  @@ "X0_rri16" :> X(0, 28..30, {}, <<8, 9, 4>>)
  @@ "X0_movei" :> X(0, 20..30, 6..11, <<8, 0>>)
  @@ "X0_moveli" :> X(0, 28..30, 6..11, <<8, 4>>)
  @@ "X0_info" :> X(0, 20..30, 0..11, <<0>>)
  @@ "X0_infol" :> X(0, 28..30, 0..11, <<4>>)
  @@ "X1_prefetch" :> X(1, 43..61, 31..36, <<7>>)
  @@ "X1_prefetch_add" :> X(1, 51..61, 31..36, <<15, 1>>)
  @@ "X1_info" :> X(1, 51..61, 31..42, <<1>>)
  @@ "X1_infol" :> X(1, 59..61, 31..42, <<5>>)
  @@ "X1_bpt" :> X(1, 31..61, {}, <<>>)
  @@ "X1_movei" :> X(1, 51..61, 37..42, <<6, 1>>)
  @@ "X1_moveli" :> X(1, 59..61, 37..42, <<6, 5>>)
  @@ "X1_none" :> X(1, 43..61, {}, <<>>)
  @@ "X1_dest" :> X(1, 43..61, {}, <<6>>)
  @@ "X1_rr" :> X(1, 43..61, {}, <<6, 7>>)
  @@ "X1_tls" :> X(1, 43..61, {}, <<6, 7, 1>>)
  @@ "X1_src" :> X(1, 43..61, {}, <<7>>)
  @@ "X1_rrr" :> X(1, 49..61, {}, <<6, 7, 17>>)
  @@ "X1_shift" :> X(1, 49..61, {}, <<6, 7, 30>>)
  @@ "X1_store" :> X(1, 49..61, {}, <<7, 17>>)
  @@ "X1_rri8" :> X(1, 51..61, {}, <<6, 7, 1>>)
  @@ "X1_load_add" :> X(1, 51..61, {}, <<6, 15, 1>>)
  @@ "X1_mfspr" :> X(1, 51..61, {}, <<6, 27>>)
  @@ "X1_store_add" :> X(1, 51..61, {}, <<15, 17, 34>>)
  @@ "X1_mtspr" :> X(1, 51..61, {}, <<28, 7>>)
  @@ "X1_branch" :> X(1, 54..61, {}, <<7, 20>>)
  @@ "X1_jump" :> X(1, 58..61, {}, <<25>>)
  @@ "X1_rri16" :> X(1, 59..61, {}, <<6, 7, 5>>)
  @@ "Y0_info" :> Y(2, 27..30, 0..11, <<2>>)
  @@ "Y0_movei" :> Y(2, 27..30, 6..11, <<10, 2>>)
  @@ "Y0_none" :> Y(2, 12..19 \cup 27..30, {}, <<>>)
  @@ "Y0_rr" :> Y(2, 12..19 \cup 27..30, {}, <<10, 11>>)
  @@ "Y0_rr_acc" :> Y(2, 12..19 \cup 27..30, {}, <<24, 11>>)
  @@ "Y0_rrr" :> Y(2, 18..19 \cup 27..30, {}, <<10, 11, 18>>)
  @@ "Y0_shift" :> Y(2, 18..19 \cup 27..30, {}, <<10, 11, 31>>)
  @@ "Y0_rrr_acc" :> Y(2, 18..19 \cup 27..30, {}, <<24, 11, 18>>)
  @@ "Y0_rri8" :> Y(2, 27..30, {}, <<10, 11, 2>>)
  @@ "Y1_info" :> Y(3, 58..61, 31..42, <<3>>)
  @@ "Y1_movei" :> Y(3, 58..61, 37..42, <<12, 3>>)
  @@ "Y1_none" :> Y(3, 43..50 \cup 58..61, {}, <<>>)
  @@ "Y1_dest" :> Y(3, 43..50 \cup 58..61, {}, <<12>>)
  @@ "Y1_rr" :> Y(3, 43..50 \cup 58..61, {}, <<12, 13>>)
  @@ "Y1_src" :> Y(3, 43..50 \cup 58..61, {}, <<13>>)
  @@ "Y1_rrr" :> Y(3, 49..50 \cup 58..61, {}, <<12, 13, 19>>)
  @@ "Y1_shift" :> Y(3, 49..50 \cup 58..61, {}, <<12, 13, 32>>)
  @@ "Y1_rri8" :> Y(3, 58..61, {}, <<12, 13, 3>>)
  @@ "Y2_prefetch" :> Y(4, {26} \cup 51..57 \cup 62..63, {}, <<14>>)
  @@ "Y2_store" :> Y(4, {26} \cup {57} \cup 62..63, {}, <<14, 33>>)
  @@ "Y2_load" :> Y(4, {26} \cup {57} \cup 62..63, {}, <<26, 14>>)

\* The bits of the word that a code puts into the coded bits of its format.
Scatter(coded, code) ==
  {b \in coded : (code \div 2^Cardinality({c \in coded : c < b})) % 2 = 1}

\* PipeEnc: one opcode in one pipe.
Encoding(format, code) ==
  [valid |-> TRUE, mask |-> format.mask,
   val |-> format.ones \cup Scatter(format.coded, code), ops |-> format.ops]

NoEncoding == [valid |-> FALSE, mask |-> {}, val |-> {}, ops |-> <<0, 0, 0, 0>>]

\* An entry of the table lists the encodings of an opcode as formats and codes.
MemOp(name, kind, size, base_op, disp_op, encs) == <<name, kind, size, base_op, disp_op, encs>>

Op(name, encs) == <<name, "None", 0, NoMemOp, NoMemOp, encs>>

\* OpcodeDef: the encodings of one opcode in the five pipes X0, X1, Y0, Y1, Y2.
\* The number of operands is the same in all of them.
OpcodeDef(entry, formats) ==
  LET encs     == entry[6]
      in(pipe) == {e \in DOMAIN encs : formats[encs[e][1]].pipe = pipe}
  IN  [name |-> entry[1], num_operands |-> Len(formats[encs[1][1]].ops),
       mem |-> [kind |-> entry[2], size |-> entry[3], base_op |-> entry[4], disp_op |-> entry[5]],
       enc |-> [pipe \in 0..4 |->
                  IF in(pipe) = {} THEN NoEncoding
                  ELSE LET e == CHOOSE e \in in(pipe) : TRUE
                       IN  Encoding(formats[encs[e][1]], encs[e][2])]]

OpcodeTable(entries, formats) ==
  [itype \in 1..Len(entries) |-> OpcodeDef(entries[itype], formats)]

-----------------------------------------------------------------------------
(* Opcodes, in the order of the table. *)

OPCODES_1 == <<
  Op("bpt", <<<<"X1_bpt", 1356106076>>>>),
  Op("info", <<<<"X0_info", 1027>>, <<"X1_info", 771>>, <<"Y0_info", 2>>, <<"Y1_info", 3>>>>),
  Op("infol", <<<<"X0_infol", 7>>, <<"X1_infol", 7>>>>),
  MemOp("ld4s_tls", "Read", 4, 1, 2, <<<<"X1_tls", 199424>>>>),
  MemOp("ld_tls", "Read", 8, 1, 2, <<<<"X1_tls", 201728>>>>),
  Op("move", <<<<"X0_rr", 331903>>, <<"X1_rr", 329599>>, <<"Y0_rr", 2751>>, <<"Y1_rr", 3007>>>>),
  Op("movei", <<<<"X0_movei", 1025>>, <<"X1_movei", 769>>, <<"Y0_movei", 0>>, <<"Y1_movei", 1>>>>),
  Op("moveli", <<<<"X0_moveli", 1>>, <<"X1_moveli", 0>>>>),
  MemOp("prefetch", "Read", 8, 0, NoMemOp, <<<<"X1_prefetch", 331088>>, <<"Y2_prefetch", 383>>>>),
  MemOp("prefetch_add_l1", "Read", 8, 0, 1, <<<<"X1_prefetch_add", 776>>>>),
  MemOp("prefetch_add_l1_fault", "Read", 8, 0, 1, <<<<"X1_prefetch_add", 775>>>>),
  MemOp("prefetch_add_l2", "Read", 8, 0, 1, <<<<"X1_prefetch_add", 778>>>>),
  MemOp("prefetch_add_l2_fault", "Read", 8, 0, 1, <<<<"X1_prefetch_add", 777>>>>),
  MemOp("prefetch_add_l3", "Read", 8, 0, 1, <<<<"X1_prefetch_add", 780>>>>),
  MemOp("prefetch_add_l3_fault", "Read", 8, 0, 1, <<<<"X1_prefetch_add", 779>>>>),
  MemOp("prefetch_l1", "Read", 8, 0, NoMemOp, <<<<"X1_prefetch", 331088>>, <<"Y2_prefetch", 383>>>>),
  MemOp("prefetch_l1_fault", "Read", 8, 0, NoMemOp, <<<<"X1_prefetch", 331087>>, <<"Y2_prefetch", 382>>>>),
  MemOp("prefetch_l2", "Read", 8, 0, NoMemOp, <<<<"X1_prefetch", 331090>>, <<"Y2_prefetch", 511>>>>),
  MemOp("prefetch_l2_fault", "Read", 8, 0, NoMemOp, <<<<"X1_prefetch", 331089>>, <<"Y2_prefetch", 510>>>>),
  MemOp("prefetch_l3", "Read", 8, 0, NoMemOp, <<<<"X1_prefetch", 331092>>, <<"Y2_prefetch", 766>>>>),
  MemOp("prefetch_l3_fault", "Read", 8, 0, NoMemOp, <<<<"X1_prefetch", 331091>>, <<"Y2_prefetch", 639>>>>)
>>

OPCODES_22 == <<
  Op("raise", <<<<"X1_bpt", 1356106077>>>>),
  Op("add", <<<<"X0_rrr", 5123>>, <<"X1_rrr", 5123>>, <<"Y0_rrr", 21>>, <<"Y1_rrr", 25>>>>),
  Op("addi", <<<<"X0_rri8", 1025>>, <<"X1_rri8", 769>>, <<"Y0_rri8", 0>>, <<"Y1_rri8", 1>>>>),
  Op("addli", <<<<"X0_rri16", 1>>, <<"X1_rri16", 0>>>>),
  Op("addx", <<<<"X0_rrr", 5122>>, <<"X1_rrr", 5122>>, <<"Y0_rrr", 20>>, <<"Y1_rrr", 24>>>>),
  Op("addxi", <<<<"X0_rri8", 1026>>, <<"X1_rri8", 770>>, <<"Y0_rri8", 1>>, <<"Y1_rri8", 2>>>>),
  Op("addxli", <<<<"X0_rri16", 2>>, <<"X1_rri16", 1>>>>),
  Op("addxsc", <<<<"X0_rrr", 5121>>, <<"X1_rrr", 5121>>>>),
  Op("and", <<<<"X0_rrr", 5124>>, <<"X1_rrr", 5124>>, <<"Y0_rrr", 40>>, <<"Y1_rrr", 44>>>>),
  Op("andi", <<<<"X0_rri8", 1027>>, <<"X1_rri8", 771>>, <<"Y0_rri8", 2>>, <<"Y1_rri8", 3>>>>),
  Op("beqz", <<<<"X1_branch", 81>>>>),
  Op("beqzt", <<<<"X1_branch", 80>>>>),
  Op("bfexts", <<<<"X0_bitfield", 52>>>>),
  Op("bfextu", <<<<"X0_bitfield", 53>>>>),
  Op("bfins", <<<<"X0_bitfield_acc", 54>>>>),
  Op("bgez", <<<<"X1_branch", 83>>>>),
  Op("bgezt", <<<<"X1_branch", 82>>>>),
  Op("bgtz", <<<<"X1_branch", 85>>>>),
  Op("bgtzt", <<<<"X1_branch", 84>>>>),
  Op("blbc", <<<<"X1_branch", 87>>>>),
  Op("blbct", <<<<"X1_branch", 86>>>>)
>>

OPCODES_43 == <<
  Op("blbs", <<<<"X1_branch", 89>>>>),
  Op("blbst", <<<<"X1_branch", 88>>>>),
  Op("blez", <<<<"X1_branch", 91>>>>),
  Op("blezt", <<<<"X1_branch", 90>>>>),
  Op("bltz", <<<<"X1_branch", 93>>>>),
  Op("bltzt", <<<<"X1_branch", 92>>>>),
  Op("bnez", <<<<"X1_branch", 95>>>>),
  Op("bnezt", <<<<"X1_branch", 94>>>>),
  Op("clz", <<<<"X0_rr", 332929>>, <<"Y0_rr", 1729>>>>),
  Op("cmoveqz", <<<<"X0_rrr_acc", 5125>>, <<"Y0_rrr_acc", 36>>>>),
  Op("cmovnez", <<<<"X0_rrr_acc", 5126>>, <<"Y0_rrr_acc", 37>>>>),
  Op("cmpeq", <<<<"X0_rrr", 5127>>, <<"X1_rrr", 5125>>, <<"Y0_rrr", 32>>, <<"Y1_rrr", 38>>>>),
  Op("cmpeqi", <<<<"X0_rri8", 1028>>, <<"X1_rri8", 772>>, <<"Y0_rri8", 3>>, <<"Y1_rri8", 4>>>>),
  MemOp("cmpexch", "ReadWrite", 8, 1, NoMemOp, <<<<"X1_rrr", 5127>>>>),
  MemOp("cmpexch4", "ReadWrite", 4, 1, NoMemOp, <<<<"X1_rrr", 5126>>>>),
  Op("cmples", <<<<"X0_rrr", 5128>>, <<"X1_rrr", 5128>>, <<"Y0_rrr", 28>>, <<"Y1_rrr", 32>>>>),
  Op("cmpleu", <<<<"X0_rrr", 5129>>, <<"X1_rrr", 5129>>, <<"Y0_rrr", 29>>, <<"Y1_rrr", 33>>>>),
  Op("cmplts", <<<<"X0_rrr", 5130>>, <<"X1_rrr", 5130>>, <<"Y0_rrr", 30>>, <<"Y1_rrr", 34>>>>),
  Op("cmpltsi", <<<<"X0_rri8", 1029>>, <<"X1_rri8", 773>>, <<"Y0_rri8", 4>>, <<"Y1_rri8", 5>>>>),
  Op("cmpltu", <<<<"X0_rrr", 5131>>, <<"X1_rrr", 5131>>, <<"Y0_rrr", 31>>, <<"Y1_rrr", 35>>>>),
  Op("cmpltui", <<<<"X0_rri8", 1030>>, <<"X1_rri8", 774>>>>)
>>

OPCODES_64 == <<
  Op("cmpne", <<<<"X0_rrr", 5132>>, <<"X1_rrr", 5132>>, <<"Y0_rrr", 33>>, <<"Y1_rrr", 39>>>>),
  Op("cmul", <<<<"X0_rrr", 5139>>>>),
  Op("cmula", <<<<"X0_rrr_acc", 5134>>>>),
  Op("cmulaf", <<<<"X0_rrr_acc", 5133>>>>),
  Op("cmulf", <<<<"X0_rrr", 5136>>>>),
  Op("cmulfr", <<<<"X0_rrr", 5135>>>>),
  Op("cmulh", <<<<"X0_rrr", 5138>>>>),
  Op("cmulhr", <<<<"X0_rrr", 5137>>>>),
  Op("crc32_32", <<<<"X0_rrr", 5140>>>>),
  Op("crc32_8", <<<<"X0_rrr", 5141>>>>),
  Op("ctz", <<<<"X0_rr", 332930>>, <<"Y0_rr", 1730>>>>),
  Op("dblalign", <<<<"X0_rrr_acc", 5145>>>>),
  Op("dblalign2", <<<<"X0_rrr", 5142>>, <<"X1_rrr", 5133>>>>),
  Op("dblalign4", <<<<"X0_rrr", 5143>>, <<"X1_rrr", 5134>>>>),
  Op("dblalign6", <<<<"X0_rrr", 5144>>, <<"X1_rrr", 5135>>>>),
  Op("drain", <<<<"X1_none", 331073>>>>),
  MemOp("dtlbpr", "Read", 8, 0, NoMemOp, <<<<"X1_src", 331074>>>>),
  MemOp("exch", "ReadWrite", 8, 1, NoMemOp, <<<<"X1_rrr", 5137>>>>),
  MemOp("exch4", "ReadWrite", 4, 1, NoMemOp, <<<<"X1_rrr", 5136>>>>),
  Op("fdouble_add_flags", <<<<"X0_rrr", 5147>>>>),
  Op("fdouble_addsub", <<<<"X0_rrr_acc", 5146>>>>)
>>

OPCODES_85 == <<
  Op("fdouble_mul_flags", <<<<"X0_rrr", 5148>>>>),
  Op("fdouble_pack1", <<<<"X0_rrr", 5149>>>>),
  Op("fdouble_pack2", <<<<"X0_rrr_acc", 5150>>>>),
  Op("fdouble_sub_flags", <<<<"X0_rrr", 5151>>>>),
  Op("fdouble_unpack_max", <<<<"X0_rrr", 5152>>>>),
  Op("fdouble_unpack_min", <<<<"X0_rrr", 5153>>>>),
  MemOp("fetchadd", "ReadWrite", 8, 1, NoMemOp, <<<<"X1_rrr", 5141>>>>),
  MemOp("fetchadd4", "ReadWrite", 4, 1, NoMemOp, <<<<"X1_rrr", 5138>>>>),
  MemOp("fetchaddgez", "ReadWrite", 8, 1, NoMemOp, <<<<"X1_rrr", 5140>>>>),
  MemOp("fetchaddgez4", "ReadWrite", 4, 1, NoMemOp, <<<<"X1_rrr", 5139>>>>),
  MemOp("fetchand", "ReadWrite", 8, 1, NoMemOp, <<<<"X1_rrr", 5143>>>>),
  MemOp("fetchand4", "ReadWrite", 4, 1, NoMemOp, <<<<"X1_rrr", 5142>>>>),
  MemOp("fetchor", "ReadWrite", 8, 1, NoMemOp, <<<<"X1_rrr", 5145>>>>),
  MemOp("fetchor4", "ReadWrite", 4, 1, NoMemOp, <<<<"X1_rrr", 5144>>>>),
  MemOp("finv", "Read", 8, 0, NoMemOp, <<<<"X1_src", 331075>>>>),
  MemOp("flush", "Read", 8, 0, NoMemOp, <<<<"X1_src", 331077>>>>),
  Op("flushwb", <<<<"X1_none", 331076>>>>),
  Op("fnop", <<<<"X0_none", 332931>>, <<"X1_none", 331078>>, <<"Y0_none", 1731>>, <<"Y1_none", 1992>>>>),
  Op("fsingle_add1", <<<<"X0_rrr", 5154>>>>),
  Op("fsingle_addsub2", <<<<"X0_rrr_acc", 5155>>>>),
  Op("fsingle_mul1", <<<<"X0_rrr", 5156>>>>)
>>

OPCODES_106 == <<
  Op("fsingle_mul2", <<<<"X0_rrr", 5157>>>>),
  Op("fsingle_pack1", <<<<"X0_rr", 332932>>, <<"Y0_rr", 1732>>>>),
  Op("fsingle_pack2", <<<<"X0_rrr", 5158>>>>),
  Op("fsingle_sub1", <<<<"X0_rrr", 5159>>>>),
  MemOp("icoh", "Read", 8, 0, NoMemOp, <<<<"X1_src", 331079>>>>),
  Op("ill", <<<<"X1_none", 331080>>, <<"Y1_none", 1993>>>>),
  MemOp("inv", "Read", 8, 0, NoMemOp, <<<<"X1_src", 331081>>>>),
  Op("iret", <<<<"X1_none", 331082>>>>),
  Op("j", <<<<"X1_jump", 9>>>>),
  Op("jal", <<<<"X1_jump", 8>>>>),
  Op("jalr", <<<<"X1_src", 331084>>, <<"Y1_src", 1995>>>>),
  Op("jalrp", <<<<"X1_src", 331083>>, <<"Y1_src", 1994>>>>),
  Op("jr", <<<<"X1_src", 331086>>, <<"Y1_src", 1997>>>>),
  Op("jrp", <<<<"X1_src", 331085>>, <<"Y1_src", 1996>>>>),
  MemOp("ld", "Read", 8, 1, NoMemOp, <<<<"X1_rr", 331101>>, <<"Y2_load", 11>>>>),
  MemOp("ld1s", "Read", 1, 1, NoMemOp, <<<<"X1_rr", 331087>>, <<"Y2_load", 4>>>>),
  MemOp("ld1s_add", "Read", 1, 1, 2, <<<<"X1_load_add", 775>>>>),
  MemOp("ld1u", "Read", 1, 1, NoMemOp, <<<<"X1_rr", 331088>>, <<"Y2_load", 5>>>>),
  MemOp("ld1u_add", "Read", 1, 1, 2, <<<<"X1_load_add", 776>>>>),
  MemOp("ld2s", "Read", 2, 1, NoMemOp, <<<<"X1_rr", 331089>>, <<"Y2_load", 6>>>>),
  MemOp("ld2s_add", "Read", 2, 1, 2, <<<<"X1_load_add", 777>>>>)
>>

OPCODES_127 == <<
  MemOp("ld2u", "Read", 2, 1, NoMemOp, <<<<"X1_rr", 331090>>, <<"Y2_load", 7>>>>),
  MemOp("ld2u_add", "Read", 2, 1, 2, <<<<"X1_load_add", 778>>>>),
  MemOp("ld4s", "Read", 4, 1, NoMemOp, <<<<"X1_rr", 331091>>, <<"Y2_load", 9>>>>),
  MemOp("ld4s_add", "Read", 4, 1, 2, <<<<"X1_load_add", 779>>>>),
  MemOp("ld4u", "Read", 4, 1, NoMemOp, <<<<"X1_rr", 331092>>, <<"Y2_load", 10>>>>),
  MemOp("ld4u_add", "Read", 4, 1, 2, <<<<"X1_load_add", 780>>>>),
  MemOp("ld_add", "Read", 8, 1, 2, <<<<"X1_load_add", 788>>>>),
  MemOp("ldna", "Read", 8, 1, NoMemOp, <<<<"X1_rr", 331093>>>>),
  MemOp("ldna_add", "Read", 8, 1, 2, <<<<"X1_load_add", 789>>>>),
  MemOp("ldnt", "Read", 8, 1, NoMemOp, <<<<"X1_rr", 331100>>>>),
  MemOp("ldnt1s", "Read", 1, 1, NoMemOp, <<<<"X1_rr", 331094>>>>),
  MemOp("ldnt1s_add", "Read", 1, 1, 2, <<<<"X1_load_add", 781>>>>),
  MemOp("ldnt1u", "Read", 1, 1, NoMemOp, <<<<"X1_rr", 331095>>>>),
  MemOp("ldnt1u_add", "Read", 1, 1, 2, <<<<"X1_load_add", 782>>>>),
  MemOp("ldnt2s", "Read", 2, 1, NoMemOp, <<<<"X1_rr", 331096>>>>),
  MemOp("ldnt2s_add", "Read", 2, 1, 2, <<<<"X1_load_add", 783>>>>),
  MemOp("ldnt2u", "Read", 2, 1, NoMemOp, <<<<"X1_rr", 331097>>>>),
  MemOp("ldnt2u_add", "Read", 2, 1, 2, <<<<"X1_load_add", 784>>>>),
  MemOp("ldnt4s", "Read", 4, 1, NoMemOp, <<<<"X1_rr", 331098>>>>),
  MemOp("ldnt4s_add", "Read", 4, 1, 2, <<<<"X1_load_add", 785>>>>),
  MemOp("ldnt4u", "Read", 4, 1, NoMemOp, <<<<"X1_rr", 331099>>>>)
>>

OPCODES_148 == <<
  MemOp("ldnt4u_add", "Read", 4, 1, 2, <<<<"X1_load_add", 786>>>>),
  MemOp("ldnt_add", "Read", 8, 1, 2, <<<<"X1_load_add", 787>>>>),
  Op("lnk", <<<<"X1_dest", 331102>>, <<"Y1_dest", 1998>>>>),
  Op("mf", <<<<"X1_none", 331103>>>>),
  Op("mfspr", <<<<"X1_mfspr", 790>>>>),
  Op("mm", <<<<"X0_bitfield_acc", 55>>>>),
  Op("mnz", <<<<"X0_rrr", 5160>>, <<"X1_rrr", 5146>>, <<"Y0_rrr", 38>>, <<"Y1_rrr", 42>>>>),
  Op("mtspr", <<<<"X1_mtspr", 791>>>>),
  Op("mul_hs_hs", <<<<"X0_rrr", 5173>>, <<"Y0_rrr", 52>>>>),
  Op("mul_hs_hu", <<<<"X0_rrr", 5174>>>>),
  Op("mul_hs_ls", <<<<"X0_rrr", 5175>>>>),
  Op("mul_hs_lu", <<<<"X0_rrr", 5176>>>>),
  Op("mul_hu_hu", <<<<"X0_rrr", 5177>>, <<"Y0_rrr", 53>>>>),
  Op("mul_hu_ls", <<<<"X0_rrr", 5178>>>>),
  Op("mul_hu_lu", <<<<"X0_rrr", 5179>>>>),
  Op("mul_ls_ls", <<<<"X0_rrr", 5180>>, <<"Y0_rrr", 54>>>>),
  Op("mul_ls_lu", <<<<"X0_rrr", 5181>>>>),
  Op("mul_lu_lu", <<<<"X0_rrr", 5182>>, <<"Y0_rrr", 55>>>>),
  Op("mula_hs_hs", <<<<"X0_rrr_acc", 5162>>, <<"Y0_rrr_acc", 56>>>>),
  Op("mula_hs_hu", <<<<"X0_rrr_acc", 5163>>>>),
  Op("mula_hs_ls", <<<<"X0_rrr_acc", 5164>>>>)
>>

OPCODES_169 == <<
  Op("mula_hs_lu", <<<<"X0_rrr_acc", 5165>>>>),
  Op("mula_hu_hu", <<<<"X0_rrr_acc", 5166>>, <<"Y0_rrr_acc", 57>>>>),
  Op("mula_hu_ls", <<<<"X0_rrr_acc", 5167>>>>),
  Op("mula_hu_lu", <<<<"X0_rrr_acc", 5168>>>>),
  Op("mula_ls_ls", <<<<"X0_rrr_acc", 5169>>, <<"Y0_rrr_acc", 58>>>>),
  Op("mula_ls_lu", <<<<"X0_rrr_acc", 5170>>>>),
  Op("mula_lu_lu", <<<<"X0_rrr_acc", 5171>>, <<"Y0_rrr_acc", 59>>>>),
  Op("mulax", <<<<"X0_rrr_acc", 5161>>, <<"Y0_rrr_acc", 34>>>>),
  Op("mulx", <<<<"X0_rrr", 5172>>, <<"Y0_rrr", 35>>>>),
  Op("mz", <<<<"X0_rrr", 5183>>, <<"X1_rrr", 5147>>, <<"Y0_rrr", 39>>, <<"Y1_rrr", 43>>>>),
  Op("nap", <<<<"X1_none", 331104>>>>),
  Op("nop", <<<<"X0_none", 332933>>, <<"X1_none", 331105>>, <<"Y0_none", 1733>>, <<"Y1_none", 1999>>>>),
  Op("nor", <<<<"X0_rrr", 5184>>, <<"X1_rrr", 5148>>, <<"Y0_rrr", 41>>, <<"Y1_rrr", 45>>>>),
  Op("or", <<<<"X0_rrr", 5185>>, <<"X1_rrr", 5149>>, <<"Y0_rrr", 42>>, <<"Y1_rrr", 46>>>>),
  Op("ori", <<<<"X0_rri8", 1031>>, <<"X1_rri8", 792>>>>),
  Op("pcnt", <<<<"X0_rr", 332934>>, <<"Y0_rr", 1734>>>>),
  Op("revbits", <<<<"X0_rr", 332935>>, <<"Y0_rr", 1735>>>>),
  Op("revbytes", <<<<"X0_rr", 332936>>, <<"Y0_rr", 1736>>>>),
  Op("rotl", <<<<"X0_rrr", 5186>>, <<"X1_rrr", 5150>>, <<"Y0_rrr", 44>>, <<"Y1_rrr", 48>>>>),
  Op("rotli", <<<<"X0_shift", 6145>>, <<"X1_shift", 6145>>, <<"Y0_shift", 60>>, <<"Y1_shift", 56>>>>),
  Op("shl", <<<<"X0_rrr", 5194>>, <<"X1_rrr", 5158>>, <<"Y0_rrr", 45>>, <<"Y1_rrr", 49>>>>)
>>

OPCODES_190 == <<
  Op("shl16insli", <<<<"X0_rri16", 7>>, <<"X1_rri16", 7>>>>),
  Op("shl1add", <<<<"X0_rrr", 5188>>, <<"X1_rrr", 5152>>, <<"Y0_rrr", 24>>, <<"Y1_rrr", 28>>>>),
  Op("shl1addx", <<<<"X0_rrr", 5187>>, <<"X1_rrr", 5151>>, <<"Y0_rrr", 49>>, <<"Y1_rrr", 53>>>>),
  Op("shl2add", <<<<"X0_rrr", 5190>>, <<"X1_rrr", 5154>>, <<"Y0_rrr", 25>>, <<"Y1_rrr", 29>>>>),
  Op("shl2addx", <<<<"X0_rrr", 5189>>, <<"X1_rrr", 5153>>, <<"Y0_rrr", 50>>, <<"Y1_rrr", 54>>>>),
  Op("shl3add", <<<<"X0_rrr", 5192>>, <<"X1_rrr", 5156>>, <<"Y0_rrr", 26>>, <<"Y1_rrr", 30>>>>),
  Op("shl3addx", <<<<"X0_rrr", 5191>>, <<"X1_rrr", 5155>>, <<"Y0_rrr", 51>>, <<"Y1_rrr", 55>>>>),
  Op("shli", <<<<"X0_shift", 6146>>, <<"X1_shift", 6146>>, <<"Y0_shift", 61>>, <<"Y1_shift", 57>>>>),
  Op("shlx", <<<<"X0_rrr", 5193>>, <<"X1_rrr", 5157>>>>),
  Op("shlxi", <<<<"X0_shift", 6147>>, <<"X1_shift", 6147>>>>),
  Op("shrs", <<<<"X0_rrr", 5195>>, <<"X1_rrr", 5159>>, <<"Y0_rrr", 46>>, <<"Y1_rrr", 50>>>>),
  Op("shrsi", <<<<"X0_shift", 6148>>, <<"X1_shift", 6148>>, <<"Y0_shift", 62>>, <<"Y1_shift", 58>>>>),
  Op("shru", <<<<"X0_rrr", 5197>>, <<"X1_rrr", 5161>>, <<"Y0_rrr", 47>>, <<"Y1_rrr", 51>>>>),
  Op("shrui", <<<<"X0_shift", 6149>>, <<"X1_shift", 6149>>, <<"Y0_shift", 63>>, <<"Y1_shift", 59>>>>),
  Op("shrux", <<<<"X0_rrr", 5196>>, <<"X1_rrr", 5160>>>>),
  Op("shruxi", <<<<"X0_shift", 6150>>, <<"X1_shift", 6150>>>>),
  Op("shufflebytes", <<<<"X0_rrr_acc", 5198>>>>),
  MemOp("st", "Write", 8, 0, NoMemOp, <<<<"X1_store", 5169>>, <<"Y2_store", 15>>>>),
  MemOp("st1", "Write", 1, 0, NoMemOp, <<<<"X1_store", 5162>>, <<"Y2_store", 12>>>>),
  MemOp("st1_add", "Write", 1, 0, 2, <<<<"X1_store_add", 793>>>>),
  MemOp("st2", "Write", 2, 0, NoMemOp, <<<<"X1_store", 5163>>, <<"Y2_store", 13>>>>)
>>

OPCODES_211 == <<
  MemOp("st2_add", "Write", 2, 0, 2, <<<<"X1_store_add", 794>>>>),
  MemOp("st4", "Write", 4, 0, NoMemOp, <<<<"X1_store", 5164>>, <<"Y2_store", 14>>>>),
  MemOp("st4_add", "Write", 4, 0, 2, <<<<"X1_store_add", 795>>>>),
  MemOp("st_add", "Write", 8, 0, 2, <<<<"X1_store_add", 800>>>>),
  MemOp("stnt", "Write", 8, 0, NoMemOp, <<<<"X1_store", 5168>>>>),
  MemOp("stnt1", "Write", 1, 0, NoMemOp, <<<<"X1_store", 5165>>>>),
  MemOp("stnt1_add", "Write", 1, 0, 2, <<<<"X1_store_add", 796>>>>),
  MemOp("stnt2", "Write", 2, 0, NoMemOp, <<<<"X1_store", 5166>>>>),
  MemOp("stnt2_add", "Write", 2, 0, 2, <<<<"X1_store_add", 797>>>>),
  MemOp("stnt4", "Write", 4, 0, NoMemOp, <<<<"X1_store", 5167>>>>),
  MemOp("stnt4_add", "Write", 4, 0, 2, <<<<"X1_store_add", 798>>>>),
  MemOp("stnt_add", "Write", 8, 0, 2, <<<<"X1_store_add", 799>>>>),
  Op("sub", <<<<"X0_rrr", 5201>>, <<"X1_rrr", 5172>>, <<"Y0_rrr", 23>>, <<"Y1_rrr", 27>>>>),
  Op("subx", <<<<"X0_rrr", 5200>>, <<"X1_rrr", 5171>>, <<"Y0_rrr", 22>>, <<"Y1_rrr", 26>>>>),
  Op("subxsc", <<<<"X0_rrr", 5199>>, <<"X1_rrr", 5170>>>>),
  Op("swint0", <<<<"X1_none", 331106>>>>),
  Op("swint1", <<<<"X1_none", 331107>>>>),
  Op("swint2", <<<<"X1_none", 331108>>>>),
  Op("swint3", <<<<"X1_none", 331109>>>>),
  Op("tblidxb0", <<<<"X0_rr_acc", 332937>>, <<"Y0_rr_acc", 1737>>>>),
  Op("tblidxb1", <<<<"X0_rr_acc", 332938>>, <<"Y0_rr_acc", 1738>>>>)
>>

OPCODES_232 == <<
  Op("tblidxb2", <<<<"X0_rr_acc", 332939>>, <<"Y0_rr_acc", 1739>>>>),
  Op("tblidxb3", <<<<"X0_rr_acc", 332940>>, <<"Y0_rr_acc", 1740>>>>),
  Op("v1add", <<<<"X0_rrr", 5204>>, <<"X1_rrr", 5175>>>>),
  Op("v1addi", <<<<"X0_rri8", 1032>>, <<"X1_rri8", 801>>>>),
  Op("v1adduc", <<<<"X0_rrr", 5203>>, <<"X1_rrr", 5174>>>>),
  Op("v1adiffu", <<<<"X0_rrr", 5205>>>>),
  Op("v1avgu", <<<<"X0_rrr", 5206>>>>),
  Op("v1cmpeq", <<<<"X0_rrr", 5207>>, <<"X1_rrr", 5176>>>>),
  Op("v1cmpeqi", <<<<"X0_rri8", 1033>>, <<"X1_rri8", 802>>>>),
  Op("v1cmples", <<<<"X0_rrr", 5208>>, <<"X1_rrr", 5177>>>>),
  Op("v1cmpleu", <<<<"X0_rrr", 5209>>, <<"X1_rrr", 5178>>>>),
  Op("v1cmplts", <<<<"X0_rrr", 5210>>, <<"X1_rrr", 5179>>>>),
  Op("v1cmpltsi", <<<<"X0_rri8", 1034>>, <<"X1_rri8", 803>>>>),
  Op("v1cmpltu", <<<<"X0_rrr", 5211>>, <<"X1_rrr", 5180>>>>),
  Op("v1cmpltui", <<<<"X0_rri8", 1035>>, <<"X1_rri8", 804>>>>),
  Op("v1cmpne", <<<<"X0_rrr", 5212>>, <<"X1_rrr", 5181>>>>),
  Op("v1ddotpu", <<<<"X0_rrr", 5282>>>>),
  Op("v1ddotpua", <<<<"X0_rrr_acc", 5281>>>>),
  Op("v1ddotpus", <<<<"X0_rrr", 5214>>>>),
  Op("v1ddotpusa", <<<<"X0_rrr_acc", 5213>>>>),
  Op("v1dotp", <<<<"X0_rrr", 5218>>>>)
>>

OPCODES_253 == <<
  Op("v1dotpa", <<<<"X0_rrr_acc", 5215>>>>),
  Op("v1dotpu", <<<<"X0_rrr", 5284>>>>),
  Op("v1dotpua", <<<<"X0_rrr_acc", 5283>>>>),
  Op("v1dotpus", <<<<"X0_rrr", 5217>>>>),
  Op("v1dotpusa", <<<<"X0_rrr_acc", 5216>>>>),
  Op("v1int_h", <<<<"X0_rrr", 5219>>, <<"X1_rrr", 5182>>>>),
  Op("v1int_l", <<<<"X0_rrr", 5220>>, <<"X1_rrr", 5183>>>>),
  Op("v1maxu", <<<<"X0_rrr", 5221>>, <<"X1_rrr", 5184>>>>),
  Op("v1maxui", <<<<"X0_rri8", 1036>>, <<"X1_rri8", 805>>>>),
  Op("v1minu", <<<<"X0_rrr", 5222>>, <<"X1_rrr", 5185>>>>),
  Op("v1minui", <<<<"X0_rri8", 1037>>, <<"X1_rri8", 806>>>>),
  Op("v1mnz", <<<<"X0_rrr", 5223>>, <<"X1_rrr", 5186>>>>),
  Op("v1multu", <<<<"X0_rrr", 5224>>>>),
  Op("v1mulu", <<<<"X0_rrr", 5226>>>>),
  Op("v1mulus", <<<<"X0_rrr", 5225>>>>),
  Op("v1mz", <<<<"X0_rrr", 5227>>, <<"X1_rrr", 5187>>>>),
  Op("v1sadau", <<<<"X0_rrr_acc", 5228>>>>),
  Op("v1sadu", <<<<"X0_rrr", 5229>>>>),
  Op("v1shl", <<<<"X0_rrr", 5230>>, <<"X1_rrr", 5188>>>>),
  Op("v1shli", <<<<"X0_shift", 6151>>, <<"X1_shift", 6151>>>>),
  Op("v1shrs", <<<<"X0_rrr", 5231>>, <<"X1_rrr", 5189>>>>)
>>

OPCODES_274 == <<
  Op("v1shrsi", <<<<"X0_shift", 6152>>, <<"X1_shift", 6152>>>>),
  Op("v1shru", <<<<"X0_rrr", 5232>>, <<"X1_rrr", 5190>>>>),
  Op("v1shrui", <<<<"X0_shift", 6153>>, <<"X1_shift", 6153>>>>),
  Op("v1sub", <<<<"X0_rrr", 5234>>, <<"X1_rrr", 5192>>>>),
  Op("v1subuc", <<<<"X0_rrr", 5233>>, <<"X1_rrr", 5191>>>>),
  Op("v2add", <<<<"X0_rrr", 5236>>, <<"X1_rrr", 5194>>>>),
  Op("v2addi", <<<<"X0_rri8", 1038>>, <<"X1_rri8", 807>>>>),
  Op("v2addsc", <<<<"X0_rrr", 5235>>, <<"X1_rrr", 5193>>>>),
  Op("v2adiffs", <<<<"X0_rrr", 5237>>>>),
  Op("v2avgs", <<<<"X0_rrr", 5238>>>>),
  Op("v2cmpeq", <<<<"X0_rrr", 5239>>, <<"X1_rrr", 5195>>>>),
  Op("v2cmpeqi", <<<<"X0_rri8", 1039>>, <<"X1_rri8", 808>>>>),
  Op("v2cmples", <<<<"X0_rrr", 5240>>, <<"X1_rrr", 5196>>>>),
  Op("v2cmpleu", <<<<"X0_rrr", 5241>>, <<"X1_rrr", 5197>>>>),
  Op("v2cmplts", <<<<"X0_rrr", 5242>>, <<"X1_rrr", 5198>>>>),
  Op("v2cmpltsi", <<<<"X0_rri8", 1040>>, <<"X1_rri8", 809>>>>),
  Op("v2cmpltu", <<<<"X0_rrr", 5243>>, <<"X1_rrr", 5199>>>>),
  Op("v2cmpltui", <<<<"X0_rri8", 1041>>, <<"X1_rri8", 810>>>>),
  Op("v2cmpne", <<<<"X0_rrr", 5244>>, <<"X1_rrr", 5200>>>>),
  Op("v2dotp", <<<<"X0_rrr", 5246>>>>),
  Op("v2dotpa", <<<<"X0_rrr_acc", 5245>>>>)
>>

OPCODES_295 == <<
  Op("v2int_h", <<<<"X0_rrr", 5247>>, <<"X1_rrr", 5201>>>>),
  Op("v2int_l", <<<<"X0_rrr", 5248>>, <<"X1_rrr", 5202>>>>),
  Op("v2maxs", <<<<"X0_rrr", 5249>>, <<"X1_rrr", 5203>>>>),
  Op("v2maxsi", <<<<"X0_rri8", 1042>>, <<"X1_rri8", 811>>>>),
  Op("v2mins", <<<<"X0_rrr", 5250>>, <<"X1_rrr", 5204>>>>),
  Op("v2minsi", <<<<"X0_rri8", 1043>>, <<"X1_rri8", 812>>>>),
  Op("v2mnz", <<<<"X0_rrr", 5251>>, <<"X1_rrr", 5205>>>>),
  Op("v2mulfsc", <<<<"X0_rrr", 5252>>>>),
  Op("v2muls", <<<<"X0_rrr", 5253>>>>),
  Op("v2mults", <<<<"X0_rrr", 5254>>>>),
  Op("v2mz", <<<<"X0_rrr", 5255>>, <<"X1_rrr", 5206>>>>),
  Op("v2packh", <<<<"X0_rrr", 5256>>, <<"X1_rrr", 5207>>>>),
  Op("v2packl", <<<<"X0_rrr", 5257>>, <<"X1_rrr", 5208>>>>),
  Op("v2packuc", <<<<"X0_rrr", 5258>>, <<"X1_rrr", 5209>>>>),
  Op("v2sadas", <<<<"X0_rrr_acc", 5259>>>>),
  Op("v2sadau", <<<<"X0_rrr_acc", 5260>>>>),
  Op("v2sads", <<<<"X0_rrr", 5261>>>>),
  Op("v2sadu", <<<<"X0_rrr", 5262>>>>),
  Op("v2shl", <<<<"X0_rrr", 5264>>, <<"X1_rrr", 5211>>>>),
  Op("v2shli", <<<<"X0_shift", 6154>>, <<"X1_shift", 6154>>>>),
  Op("v2shlsc", <<<<"X0_rrr", 5263>>, <<"X1_rrr", 5210>>>>)
>>

OPCODES_316 == <<
  Op("v2shrs", <<<<"X0_rrr", 5265>>, <<"X1_rrr", 5212>>>>),
  Op("v2shrsi", <<<<"X0_shift", 6155>>, <<"X1_shift", 6155>>>>),
  Op("v2shru", <<<<"X0_rrr", 5266>>, <<"X1_rrr", 5213>>>>),
  Op("v2shrui", <<<<"X0_shift", 6156>>, <<"X1_shift", 6156>>>>),
  Op("v2sub", <<<<"X0_rrr", 5268>>, <<"X1_rrr", 5215>>>>),
  Op("v2subsc", <<<<"X0_rrr", 5267>>, <<"X1_rrr", 5214>>>>),
  Op("v4add", <<<<"X0_rrr", 5270>>, <<"X1_rrr", 5217>>>>),
  Op("v4addsc", <<<<"X0_rrr", 5269>>, <<"X1_rrr", 5216>>>>),
  Op("v4int_h", <<<<"X0_rrr", 5271>>, <<"X1_rrr", 5218>>>>),
  Op("v4int_l", <<<<"X0_rrr", 5272>>, <<"X1_rrr", 5219>>>>),
  Op("v4packsc", <<<<"X0_rrr", 5273>>, <<"X1_rrr", 5220>>>>),
  Op("v4shl", <<<<"X0_rrr", 5275>>, <<"X1_rrr", 5222>>>>),
  Op("v4shlsc", <<<<"X0_rrr", 5274>>, <<"X1_rrr", 5221>>>>),
  Op("v4shrs", <<<<"X0_rrr", 5276>>, <<"X1_rrr", 5223>>>>),
  Op("v4shru", <<<<"X0_rrr", 5277>>, <<"X1_rrr", 5224>>>>),
  Op("v4sub", <<<<"X0_rrr", 5279>>, <<"X1_rrr", 5226>>>>),
  Op("v4subsc", <<<<"X0_rrr", 5278>>, <<"X1_rrr", 5225>>>>),
  MemOp("wh64", "Read", 8, 0, NoMemOp, <<<<"X1_src", 331110>>>>),
  Op("xor", <<<<"X0_rrr", 5280>>, <<"X1_rrr", 5227>>, <<"Y0_rrr", 43>>, <<"Y1_rrr", 47>>>>),
  Op("xori", <<<<"X0_rri8", 1044>>, <<"X1_rri8", 813>>>>)
>>

\* The opcode table; an index is the itype of a slot.
OPCODES == OpcodeTable(
  OPCODES_1 \o OPCODES_22 \o OPCODES_43 \o OPCODES_64 \o
  OPCODES_85 \o OPCODES_106 \o OPCODES_127 \o OPCODES_148 \o
  OPCODES_169 \o OPCODES_190 \o OPCODES_211 \o OPCODES_232 \o
  OPCODES_253 \o OPCODES_274 \o OPCODES_295 \o OPCODES_316, Formats)

\* The name table, which the code keeps beside the opcode table.
NAMES == [itype \in DOMAIN OPCODES |-> OPCODES[itype].name]
=============================================================================
