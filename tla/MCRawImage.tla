----------------------------- MODULE MCRawImage -----------------------------
(***************************************************************************)
(* Images of two, four, six and eight bundles.  The alias base is 64, a    *)
(* reference is built as 8 and then 8 * 8 plus an offset.  The sample ends *)
(* after five bundles, and the last address is behind the sixth.           *)
(***************************************************************************)
EXTENDS RawImage

MkSlot(dst, src, scale, imm, shows) ==
  [dst |-> dst, src |-> src, scale |-> scale, imm |-> imm, tracked |-> TRUE, shows |-> shows]

Forget(dst) == [MkSlot(dst, NoReg, 1, 0, FALSE) EXCEPT !.tracked = FALSE]

MkBundle(slots) == [decodes |-> TRUE, slots |-> slots]

Bad == [decodes |-> FALSE, slots |-> <<>>]
Nop == MkBundle(<<>>)
High == MkBundle(<<MkSlot("r1", NoReg, 1, 8, TRUE)>>)
Start == MkBundle(<<MkSlot("r2", "r1", 8, 0, TRUE)>>)
LastWord == MkBundle(<<MkSlot("r2", "r1", 8, 32, TRUE)>>)
Beyond == MkBundle(<<MkSlot("r2", "r1", 8, 40, TRUE)>>)
Both == MkBundle(<<MkSlot("r1", "r1", 8, 8, TRUE), MkSlot("r2", "r1", 1, 8, TRUE)>>)
Lost == MkBundle(<<MkSlot("r2", "r1", 1, 0, FALSE), Forget("r1")>>)

Kinds == {Bad, Nop, High, Start, LastWord, Both, Lost}

Image(bundles) == [container |-> FALSE, size |-> 8 * Len(bundles), bundles |-> bundles]

Container == [Image(<<High, Both, Nop, Nop>>) EXCEPT !.container = TRUE]

Ragged == [Image(<<High, Both, Nop, Nop>>) EXCEPT !.size = 36]

TooLong == Image(<<Nop, High, Start, LastWord, Nop, Nop, Nop, Nop>>)

MCFiles ==
  {Image(bundles) : bundles \in UNION {[1..n -> Kinds] : n \in {2, 4}}}
  \cup {Image(<<Nop, High, Start>> \o rest) : rest \in [1..3 -> Kinds \cup {Beyond}]}
  \cup {Container, Ragged, TooLong}

\* Two that are no image, one without constants, and three that are taken, two of them longer
\* than their sample.
MCRewrites ==
  {Container, Ragged, TooLong, Image(<<Nop, Nop, Nop, Nop>>),
   Image(<<High, Both, Nop, Nop>>), Image(<<Nop, High, Start, LastWord, Nop, Beyond>>)}
=============================================================================
