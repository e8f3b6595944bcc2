-------------------------------- MODULE Words --------------------------------
(***************************************************************************)
(* Fixed-width arithmetic of the constant tracker (src/src/constprop.rs).  *)
(*                                                                         *)
(* The code works on u64 values, 32-bit halves for the "x" instructions    *)
(* and 16-bit chunks for shl16insli.  The three widths are parameters, so  *)
(* that the same definitions can be evaluated at every value of a narrow   *)
(* word.                                                                   *)
(***************************************************************************)
EXTENDS Naturals, Bitwise

CONSTANTS
    W,   \* bits of a register (64 in the code)
    H,   \* bits of an x-form result before sign extension (32 in the code)
    Q    \* bits inserted by shl16insli (16 in the code)

ASSUME WidthsAssumption == /\ W \in Nat /\ H \in Nat /\ Q \in Nat
                           /\ 0 < Q /\ Q <= H /\ H < W

WordRange == 0 .. (2^W - 1)

Wrap(n) == n % 2^W

Low(n) == n % 2^H

AtMost(n, cap) == IF n <= cap THEN n ELSE cap

(* Names of the instructions whose result the tracker computes from one    *)
(* register and an immediate, and from two registers.                      *)
ImmInsns == {"addi", "addxi", "shl16insli", "shli", "shlxi", "andi", "ori", "xori"}
RegInsns == {"add", "addx", "and", "or", "xor"}

-----------------------------------------------------------------------------
(* Faulty variants, used to show that the properties can fail. *)

SignExtendLowUnsigned(v) == Low(v)

Shl16InsliUnmasked(base, imm) == Wrap(base * 2^Q) | imm

-----------------------------------------------------------------------------

(* sign_extend_32: the low half, with its top bit copied upwards. *)
SignExtendLow(v) ==
    IF Low(v) < 2^(H - 1) THEN Low(v) ELSE Low(v) + (2^W - 2^H)

(* Only the low Q bits of the immediate are inserted below the shifted     *)
(* base; the top Q bits of the base fall off.                              *)
Shl16Insli(base, imm) == Wrap(base * 2^Q) | (imm % 2^Q)

(* A shift count is clamped to the largest one the width allows. *)
Shli(base, count) == Wrap(base * 2^AtMost(count, W - 1))

Shlxi(base, count) ==
    SignExtendLow(Low(base) * 2^AtMost(AtMost(count, W - 1), H - 1))

(* The value the tracker computes for instruction op. *)
Compute(op, a, b) ==
    CASE op \in {"add", "addi"}   -> Wrap(a + b)
      [] op \in {"addx", "addxi"} -> SignExtendLow(Wrap(a + b))
      [] op = "shl16insli"        -> Shl16Insli(a, b)
      [] op = "shli"              -> Shli(a, b)
      [] op = "shlxi"             -> Shlxi(a, b)
      [] op \in {"and", "andi"}   -> a & b
      [] op \in {"or", "ori"}     -> a | b
      [] op \in {"xor", "xori"}   -> a ^^ b
=============================================================================
