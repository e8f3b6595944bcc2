--------------------------- MODULE MCStackTracker ----------------------------
(***************************************************************************)
(* A small instance of StackTracker: words of two bits, of which the low   *)
(* one is the 32-bit half, sp, the zero register and one more, which is    *)
(* the link register as well.                                              *)
(***************************************************************************)
EXTENDS StackTracker

CONSTANTS zero, sp, lr

RegDef == {zero, sp, lr}
WordDef == 0 .. 3
PlusDef(x, y) == (x + y) % 4
NarrowDef(x) == IF x % 2 = 0 THEN 0 ELSE 3
InputsDef == {0}
ImmDef == {2}
ClobberedDef == {lr}
=============================================================================
