------------------------------- MODULE MCWords -------------------------------
(***************************************************************************)
(* Evaluates the arithmetic of Words on every pair of operands of a narrow *)
(* word and compares it, bit by bit, with what the instruction means.      *)
(***************************************************************************)
EXTENDS Words

VARIABLES
    op,      \* the instruction to evaluate
    a, b,    \* its operands
    done,    \* whether it has been evaluated
    result   \* what the tracker computed

vars == <<op, a, b, done, result>>

Ops == ImmInsns \cup RegInsns

Init == /\ op \in Ops /\ a \in WordRange /\ b \in WordRange
        /\ done = FALSE
        /\ result = 0

Evaluate == /\ ~done
            /\ done' = TRUE
            /\ result' = Compute(op, a, b)
            /\ UNCHANGED <<op, a, b>>

Next == Evaluate

Spec == Init /\ [][Next]_vars

-----------------------------------------------------------------------------
(* Reference: the bits of the result, in terms of the bits of the operands. *)

Bit(v, i) == (v \div 2^i) % 2 = 1

(* The bit of v << n at i. *)
Shifted(v, n, i) == i >= n /\ Bit(v, i - n)

(* Bit i of the low half of a function of bits, sign-extended. *)
Extended(bits(_), i) == IF i < H THEN bits(i) ELSE bits(H - 1)

ShiftCount(n, cap) == IF n > cap THEN cap ELSE n

RefBit(i) ==
    CASE op \in {"and", "andi"} -> Bit(a, i) /\ Bit(b, i)
      [] op \in {"or", "ori"}   -> Bit(a, i) \/ Bit(b, i)
      [] op \in {"xor", "xori"} -> Bit(a, i) # Bit(b, i)
      [] op \in {"add", "addi"} -> Bit(a + b, i)
      [] op \in {"addx", "addxi"} ->
            LET sum(k) == Bit((a % 2^H) + (b % 2^H), k) IN Extended(sum, i)
      [] op = "shl16insli" -> IF i < Q THEN Bit(b, i) ELSE Bit(a, i - Q)
      [] op = "shli"  -> Shifted(a, ShiftCount(b, W - 1), i)
      [] op = "shlxi" ->
            LET low(k) == Shifted(a, ShiftCount(b, H - 1), k) IN Extended(low, i)

(* The tracker's result is a word, and each of its bits is the one the     *)
(* instruction defines: inserted bits below shifted ones for shl16insli,   *)
(* copies of the 32-bit sign above bit 31 for the x forms, carries that    *)
(* wrap at the word's width (constprop.rs:31-176).                         *)
AluIsBitExact ==
    done => /\ result \in WordRange
            /\ \A i \in 0 .. (W - 1) : Bit(result, i) <=> RefBit(i)
=============================================================================
