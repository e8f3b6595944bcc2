----------------------------- MODULE MCBundles -----------------------------
(***************************************************************************)
(* Decoding and row analysis on the tables of generated.rs.  The words are *)
(* made from the encodings: each with the bits it leaves free all zero,    *)
(* all one, mixed, and with the registers of a prologue in its fields; the *)
(* words next to an encoding; those that two encodings match; and bundles  *)
(* that combine the instructions that rows treat specially.                *)
(***************************************************************************)
EXTENDS RowAnalysis, DecodeTables

MCOpcodes == OPCODES

MCOperands == OPERANDS

At(first, value) == {first + k : k \in {j \in 0..5 : (value \div 2^j) % 2 = 1}}

\* The bits left free by the encodings: patterns that show every operand zero, full,
\* negative and mixed; the stack pointer in every field; and fp, sp, lr where a
\* prologue has them.
Operandless == {{}, 0..63, {i \in 0..63 : i % 2 = 0}, {i \in 0..63 : i % 3 = 0}}

Prologues ==
  {UNION {At(field, 54) : field \in {0, 6, 12, 20, 31, 37, 43, 51}},
   At(0, 29) \cup At(6, 54) \cup At(12, 55) \cup At(20, 54)
     \cup At(31, 29) \cup At(37, 54) \cup At(43, 55) \cup At(51, 55),
   At(6, 55) \cup At(37, 55) \cup {50, 57}}

EncodingsOf(pipe, names) ==
  {MCOpcodes[i].enc[pipe] : i \in {j \in DOMAIN MCOpcodes : /\ MCOpcodes[j].enc[pipe].valid
                                                             /\ MCOpcodes[j].name \in names}}

AllNames == {MCOpcodes[i].name : i \in DOMAIN MCOpcodes}

Plain == {"addi", "addli", "move", "nop", "fnop", "mm"}

Control == {"jr", "jalr", "jal", "j", "beqz", "iret", "nop", "st", "ld", "st_add", "lnk"}

Memory == {"st", "ld", "st4", "ld1s", "prefetch"}

\* A word of the pipe's bundle format: an X bundle has no mode bit, and a Y
\* bundle whose encoding fixes none has one of them.
InFormat(pipe, word) ==
  IF pipe < 2 THEN word \ MODE_MASK
  ELSE IF word \cap MODE_MASK = {} THEN word \cup {62} ELSE word

Filled(pipe, masked, ones, patterns) ==
  {InFormat(pipe, ones \cup (pattern \ masked)) : pattern \in patterns}

Singles ==
  UNION {UNION {Filled(pipe, enc.mask, enc.val, Operandless \cup Prologues) :
                  enc \in EncodingsOf(pipe, AllNames)} : pipe \in Pipes}

\* One fixed bit wrong: most of these decode to another opcode, some to none.
NearMisses ==
  UNION {UNION {{InFormat(pipe, SymDiff(enc.val, {bit})) : bit \in {Min(enc.mask), Max(enc.mask)}} :
                  enc \in EncodingsOf(pipe, AllNames)} : pipe \in Pipes}

\* Words that two different encodings of a pipe match.
Shared ==
  UNION {{InFormat(pipe, w[1].val \cup w[2].val) : w \in
            {p \in EncodingsOf(pipe, AllNames) \X EncodingsOf(pipe, AllNames) :
               /\ p[1] # p[2]
               /\ (p[1].val \cup p[2].val) \cap p[1].mask = p[1].val
               /\ (p[1].val \cup p[2].val) \cap p[2].mask = p[2].val}} : pipe \in Pipes}

Combined == {{}} \cup Prologues

XBundles ==
  UNION {Filled(0, w[1].mask \cup w[2].mask, w[1].val \cup w[2].val, Combined) :
           w \in EncodingsOf(0, Plain) \X EncodingsOf(1, Control)}

\* Bits that no opcode of the first Y pipe has.
Gap == [mask |-> (18..19) \cup (27..30), val |-> {29, 30}]

YBundles ==
  UNION {Filled(2, w[1].mask \cup w[2].mask \cup w[3].mask,
                   w[1].val \cup w[2].val \cup w[3].val, Combined) :
           w \in (EncodingsOf(2, Plain) \cup {Gap})
                 \X EncodingsOf(3, Control \cup Plain) \X EncodingsOf(4, Memory)}

MCRaws == Singles \cup NearMisses \cup Shared \cup XBundles \cup YBundles

MCPcs == {4096}
=============================================================================
