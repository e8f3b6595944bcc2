---------------------------- MODULE MCDecodeScan ----------------------------
(***************************************************************************)
(* The decoding loop on an excerpt of the tables: the first entries, with  *)
(* the aliases and narrower forms that compete for a word, and the entries *)
(* they compete with.                                                      *)
(***************************************************************************)
EXTENDS DecodeScan, DecodeTables

Excerpt == {"ld4s_tls", "ld_tls", "move", "movei", "moveli", "prefetch", "prefetch_l1",
            "prefetch_add_l1", "prefetch_add_l3_fault", "raise", "bpt", "info",
            "addi", "addli", "or", "ori", "ld1s", "ldnt4u_add", "nop", "st1", "j", "beqz"}

MCOpcodes == SelectSeq(OPCODES, LAMBDA op : op.name \in Excerpt)

MCOperands == OPERANDS

EncodingsOf(pipe) ==
  {MCOpcodes[i].enc[pipe] : i \in {j \in DOMAIN MCOpcodes : MCOpcodes[j].enc[pipe].valid}}

\* Words that one or two encodings of a pipe match.
MCRaws ==
  UNION {{w[1].val \cup w[2].val \cup (IF pipe < 2 THEN {} ELSE {62}) : w \in
            {p \in EncodingsOf(pipe) \X EncodingsOf(pipe) :
               /\ (p[1].val \cup p[2].val) \cap p[1].mask = p[1].val
               /\ (p[1].val \cup p[2].val) \cap p[2].mask = p[2].val}} : pipe \in Pipes}

MCPcs == {4096}
=============================================================================
