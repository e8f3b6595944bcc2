----------------------------- MODULE MCBootstrap -----------------------------
(***************************************************************************)
(* A segment of three bundles and a half, fresh or with items from an      *)
(* earlier analysis, with and without strings, and segments of text only.  *)
(* Strings have two to four bytes, a window five.                          *)
(***************************************************************************)
EXTENDS Bootstrap

R(kind, target, marks) == [kind |-> kind, target |-> target, marks |-> marks]
Plain == R("plain", None, {})
Frame == R("plain", None, {"sp", "frame"})

One(row) == [rows |-> 1, first |-> row, second |-> Plain]
Two(a, b) == [rows |-> 2, first |-> a, second |-> b]
Undecodable == [rows |-> 0, first |-> Plain, second |-> Plain]

BundleChoices ==
    {Undecodable, One(Frame), One(R("jump", 8, {})), One(R("jump", 0, {})),
     One(R("cond", 8, {})), One(R("call", 16, {})),
     Two(Frame, R("call", 4, {"link"})), Two(R("plain", None, {"link"}), R("jump", 8, {"frame"}))}

(* The bundles at 0, 4 and 8 vary; those that overlap the end do not.      *)
MCImages ==
    {[b \in BundleAt |-> IF b \in {0, 4, 8} THEN f[b] ELSE One(R("ret", None, {}))] :
        f \in [{0, 4, 8} -> BundleChoices]}

NoText == [c \in Cell |-> "bad"]

(* Text s from cell c on. *)
Text(c, s) == [x \in Cell |-> IF x \in c .. c + Len(s) - 1 THEN s[x - c + 1] ELSE "bad"]

(* Every image: without strings, with one across two bundles, and with one *)
(* that touches the end.                                                   *)
CodeContents ==
    [image : MCImages,
     text : {NoText, Text(6, <<"letter", "letter", "common", "nul">>),
             Text(10, <<"letter", "letter", "letter", "nul">>)}]

Hole == [b \in BundleAt |-> Undecodable]

(* Texts of every class, texts longer than a window, and texts at the end. *)
Texts ==
    {Text(0, s) : s \in [1 .. 5 -> ByteClasses]}
    \cup {Text(0, s) : s \in [1 .. 7 -> {"letter", "odd", "nul"}]}
    \cup {Text(5, <<"letter", "letter", "letter">> \o s) : s \in [1 .. 6 -> {"common", "nul"}]}
    \cup {Text(9, s) : s \in [1 .. 5 -> {"letter", "odd", "nul", "unloaded"}]}

TextContents == [image : {Hole}, text : Texts]

MCContents == CodeContents \cup TextContents

NewFile == {{}}

MCOldItems ==
    {{}, {Item(4, 6, "code"), Item(9, 11, "data")}, {Item(0, 4, "code"), Item(8, 10, "code")}}
=============================================================================
