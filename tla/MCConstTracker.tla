--------------------------- MODULE MCConstTracker ----------------------------
(***************************************************************************)
(* A small instance of ConstTracker: two-bit words, the zero register, the *)
(* link register and one or two general registers.                         *)
(***************************************************************************)
EXTENDS ConstTracker

CONSTANTS zero, lr, r1, W, H, Q

W2 == INSTANCE Words

RegDef == {zero, lr, r1}
WordDef == W2!WordRange
InputsDef == {2}
ImmDef == {1}
ImmOpsDef == {"shl16insli"}
RegOpsDef == {"add"}
AluDef(op, x, y) == W2!Compute(op, x, y)
MappedDef == {2, 3}
ClobberedDef == {r1}

-----------------------------------------------------------------------------
(* The inductive invariant of ConstTrackerProofs, whole. *)
Inductive == TypeOK /\ BundleOK /\ Sound /\ ReportsTrue
=============================================================================
