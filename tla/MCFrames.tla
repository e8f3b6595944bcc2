------------------------------ MODULE MCFrames ------------------------------
(***************************************************************************)
(* Functions of up to three rows, and of four with a scan that ends before *)
(* the last.  Immediates are at most 2.                                    *)
(***************************************************************************)
EXTENDS Frames

Plain == [size |-> 4, decodes |-> TRUE, delta |-> 0, fp |-> FALSE, stack |-> "none", ends |-> FALSE]

RowKinds ==
  {[Plain EXCEPT !.delta = -2],
   [Plain EXCEPT !.delta = -1, !.size = 8],
   [Plain EXCEPT !.delta = 2, !.stack = "load"],
   [Plain EXCEPT !.stack = "store"],
   [Plain EXCEPT !.fp = TRUE],
   [Plain EXCEPT !.delta = -2, !.ends = TRUE],
   [Plain EXCEPT !.decodes = FALSE]}

MCBodies ==
  UNION {[1..n -> RowKinds] : n \in 1..3}
  \cup {<<[Plain EXCEPT !.delta = -2], [Plain EXCEPT !.delta = -2],
          [Plain EXCEPT !.delta = -2], [Plain EXCEPT !.delta = -2, !.stack = "store"]>>}
=============================================================================
