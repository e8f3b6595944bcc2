--------------------------- MODULE MCReplayCache -----------------------------
(***************************************************************************)
(* Three bundles, functions that cover all or part of them, and contents   *)
(* that materialise a register, branch inside the function, jump through   *)
(* the register, or do not decode.                                         *)
(***************************************************************************)
EXTENDS ReplayCache

KeepRow == [effect |-> "keep", branch |-> None, indirect |-> None]
SetRow == [KeepRow EXCEPT !.effect = "set"]
ClearRow == [KeepRow EXCEPT !.effect = "clear"]
BranchRow(t) == [KeepRow EXCEPT !.branch = t]
JumpRow(t) == [KeepRow EXCEPT !.indirect = t]

Two(a, b) == [rows |-> 2, first |-> a, second |-> b]
One(a) == [rows |-> 1, first |-> a, second |-> KeepRow]
Undecodable == [rows |-> 0, first |-> KeepRow, second |-> KeepRow]

MCContents == {Two(ClearRow, BranchRow(2))}

MCImages ==
    {[b \in Bundle |-> CASE b = 0 -> Two(SetRow, KeepRow)
                         [] b = 1 -> One(KeepRow)
                         [] b = 2 -> Two(KeepRow, BranchRow(2))],
     [b \in Bundle |-> CASE b = 0 -> Two(SetRow, BranchRow(4))
                         [] b = 1 -> Two(KeepRow, JumpRow(4))
                         [] b = 2 -> Two(ClearRow, BranchRow(0))],
     [b \in Bundle |-> CASE b = 0 -> One(SetRow)
                         [] b = 1 -> Undecodable
                         [] b = 2 -> Two(JumpRow(2), BranchRow(2))]}

Fun(s, e, t) == [start |-> s, end |-> e, tail |-> t]

MCLayouts ==
    {{Fun(0, 6, {})}, {Fun(0, 3, {}), Fun(3, 6, {})}, {Fun(0, 4, {5})}, {}}
=============================================================================
