--------------------------- MODULE BootstrapProofs ---------------------------
(***************************************************************************)
(* What the pass over a segment keeps true for every segment, every        *)
(* content of it and every set of items it starts from: types, the stack   *)
(* of pending addresses, items, that reached code is not filled, and that  *)
(* the strings of a text are found.                                        *)
(***************************************************************************)
EXTENDS Bootstrap, SequenceTheorems, WellFoundedInduction, TLAPS

BytesOK == image \in [BundleAt -> Bundles]

(* A queue of which the addresses in done have been popped. *)
QueueOK(q, done) ==
    /\ q.pending \in Seq(Cell) /\ q.visited \subseteq Cell
    /\ \A i, j \in DOMAIN q.pending : q.pending[i] = q.pending[j] => i = j
    /\ ToSet(q.pending) \cap done = {}
    /\ ToSet(q.pending) \cup done = q.visited

(* What a popped address is afterwards. *)
Handled(c) ==
    c % BundleSize = 0 /\ c + BundleSize <= SegEnd /\ Decodes(c) =>
        \/ c \in autoq
        \/ \E i \in items : /\ i.kind # "fill"
                            /\ \E x \in c .. c + BundleSize - 1 : Covers(i, x)

(* What the loops leave to each other. *)
PhaseOK ==
    /\ pc \in {"strings", "probable"} => SegStart <= cursor
    /\ pc = "skipped" => 1 <= cursor
    /\ pc = "refine" => entry # None
    /\ pc \in {"skipped", "refine", "gaps", "done", "named"} => pending = <<>>
    /\ pc \in {"strings", "drain", "probable", "drain2"} => \A i \in items : i.kind # "fill"

IInv ==
    /\ TypeOK /\ BytesOK /\ PhaseOK
    /\ skipped \in Seq(Nat \X Nat)
    /\ QueueOK(Queue, processed)
    /\ WellFormed(items)
    /\ \A c \in processed : Handled(c)

-----------------------------------------------------------------------------
(* Addresses *)

(* A bundle boundary below and above an address (BUNDLE_MASK). *)
LEMMA Aligned ==
    ASSUME NEW c \in Nat
    PROVE  /\ AlignDown(c) \in Nat /\ AlignDown(c) % BundleSize = 0
           /\ AlignDown(c) <= c /\ c < AlignDown(c) + BundleSize
           /\ AlignUp(c) \in Nat /\ AlignUp(c) % BundleSize = 0
           /\ c <= AlignUp(c) /\ AlignUp(c) < c + BundleSize
BY DEF AlignDown, AlignUp, BundleSize

(* The cells of the segment are addresses. *)
LEMMA CellsAreAddresses ==
    /\ Cell \subseteq Address
    /\ \A c \in Int : SegStart <= c /\ c <= SegEnd => c \in Address
    /\ Cell \subseteq Nat /\ Address \subseteq Nat
BY Aligned, SegmentAssumption DEF Cell, Address, BundleSize

(* contains() of an address that is known to be one. *)
LEMMA InSegmentIsCell ==
    ASSUME NEW c \in Nat \cup {None}, InSegment(c)
    PROVE  c \in Cell
BY SegmentAssumption DEF InSegment, Cell

(* The row behind a row is higher, in the bundle or behind it (next_ea). *)
LEMMA NextIsHigher ==
    ASSUME NEW c \in Nat
    PROVE  /\ NextRow(c) \in Nat /\ c < NextRow(c) /\ NextRow(c) <= AlignDown(c) + BundleSize
           /\ RowSize(c) \in Nat \ {0} /\ c + RowSize(c) = NextRow(c)
<1>1. c % BundleSize = 0 => AlignDown(c) = c
  BY DEF AlignDown, BundleSize
<1>2. AlignDown(c) \in Nat /\ c < AlignDown(c) + BundleSize
  BY Aligned
<1>3. NextRow(c) \in Nat /\ c < NextRow(c) /\ NextRow(c) <= AlignDown(c) + BundleSize
  <2>1. CASE RowsAt(c) = 2 /\ c % BundleSize = 0
    BY <1>1, <2>1 DEF NextRow, BundleSize
  <2>2. CASE ~(RowsAt(c) = 2 /\ c % BundleSize = 0)
    BY <1>2, <2>2 DEF NextRow, BundleSize
  <2> QED BY <2>1, <2>2
<1> QED BY <1>3 DEF RowSize

(* A row before the end of the segment names an address or nothing. *)
LEMMA RowType ==
    ASSUME BytesOK, NEW c \in Nat, c < SegEnd
    PROVE  /\ Row(c) \in Rows
           /\ JumpTarget(c) \in Address \cup {None}
           /\ CallTarget(c) \in Address \cup {None}
<1>1. AlignDown(c) \in BundleAt
  BY Aligned, SegmentAssumption DEF BundleAt, Address, BundleSize
<1>2. Row(c) \in Rows
  BY <1>1 DEF BytesOK, Row, Bundles
<1> QED BY <1>2 DEF JumpTarget, CallTarget, Rows

(* The smaller and the larger of two integers. *)
LEMMA MinMaxPair ==
    ASSUME NEW a \in Int, NEW b \in Int
    PROVE  /\ Min({a, b}) \in {a, b} /\ Min({a, b}) <= a /\ Min({a, b}) <= b
           /\ Max({a, b}) \in {a, b} /\ a <= Max({a, b}) /\ b <= Max({a, b})
<1>1. \E x \in {a, b} : \A y \in {a, b} : x <= y
  OBVIOUS
<1>2. \E x \in {a, b} : \A y \in {a, b} : x >= y
  OBVIOUS
<1> QED BY <1>1, <1>2 DEF Min, Max

(* A nonempty set of naturals has a least element. *)
LEMMA LeastOfNats ==
    ASSUME NEW S \in SUBSET Nat, S # {}
    PROVE  Min(S) \in S /\ \A x \in S : Min(S) <= x
<1>1. \E x \in S : \A y \in S : ~(<<y, x>> \in OpToRel(<, Nat))
  BY NatLessThanWellFounded, WFMin, Zenon
<1>2. \A x, y \in Nat : y < x => <<y, x>> \in OpToRel(<, Nat)
  BY Zenon DEF OpToRel
<1>3. \E x \in S : \A y \in S : ~(y < x)
  BY <1>1, <1>2, Zenon
<1>4. \E x \in S : \A y \in S : x <= y
  BY <1>3
<1> QED BY <1>4 DEF Min

(* It is a natural of the set. *)
LEMMA MinOfNats ==
    ASSUME NEW S \in SUBSET Nat, S # {}
    PROVE  Min(S) \in S
BY LeastOfNats

(***************************************************************************)
(* A string has a length, and its item ends behind its start and within    *)
(* the segment (likely_c_string, create_strings).                          *)
(***************************************************************************)
LEMMA StringSizes ==
    ASSUME NEW c \in Cell, NEW len, len = StringLength(text, c, SegEnd)
    PROVE  /\ len \in Nat
           /\ len > 0 => /\ StringEnd(c, len) \in Nat
                         /\ c < StringEnd(c, len) /\ StringEnd(c, len) <= SegEnd
<1>1. c \in Nat /\ SegEnd - c \in Nat
  BY CellsAreAddresses, SegmentAssumption DEF Cell
<1>2. len \in Nat
  <2> DEFINE n == Min({SegEnd - c, STRING_SCAN_BYTES})
             window == Window(text, c, SegEnd)
             counted == {STRING_MAX_BYTES, Len(window)}
                          \cup {k - 1 : k \in {j \in DOMAIN window : window[j] = "nul"}}
  <2>1. n \in Nat
    <3>1. STRING_SCAN_BYTES \in Nat
      BY StringLimitsAssumption DEF STRING_SCAN_BYTES
    <3>2. n \in {SegEnd - c, STRING_SCAN_BYTES}
      <4> HIDE DEF n
      <4>1. SegEnd - c \in Int /\ STRING_SCAN_BYTES \in Int
        BY <1>1, <3>1
      <4>2. Min({SegEnd - c, STRING_SCAN_BYTES}) \in {SegEnd - c, STRING_SCAN_BYTES}
        BY <4>1, MinMaxPair
      <4> QED BY <4>2 DEF n
    <3> QED BY <1>1, <3>1, <3>2
  <2>2. DOMAIN window = 1 .. n /\ Len(window) = n
    <3> HIDE DEF n
    <3>1. window = [k \in 1 .. n |-> text[c + k - 1]]
      BY DEF Window, n
    <3> QED BY <2>1, <3>1
  <2>3. counted \in SUBSET Nat /\ counted # {}
    <3> HIDE DEF n, window
    <3> QED BY <2>1, <2>2, StringLimitsAssumption
  <2>4. Min(counted) \in Nat
    <3> HIDE DEF counted
    <3> QED BY <2>3, MinOfNats
  <2>5. CountedBytes(window) \in Nat
    BY <2>4 DEF CountedBytes
  <2> HIDE DEF window, counted, n
  <2>6. len \in {0, likely_c_string(window)}
    BY DEF StringLength, window
  <2>7. likely_c_string(window) \in {0, CountedBytes(window)}
    BY DEF likely_c_string
  <2> QED BY <2>5, <2>6, <2>7
<1>3. len > 0 => /\ StringEnd(c, len) \in Nat
                 /\ c < StringEnd(c, len) /\ StringEnd(c, len) <= SegEnd
  <2>1. SegEnd \in Int /\ c + len + 1 \in Int /\ c < SegEnd
    BY <1>1, <1>2, SegmentAssumption DEF Cell
  <2>2. StringEnd(c, len) \in {SegEnd, c + len + 1} /\ StringEnd(c, len) <= SegEnd
    BY <2>1, MinMaxPair DEF StringEnd
  <2> QED BY <1>1, <1>2, <2>1, <2>2, SegmentAssumption
<1> QED BY <1>2, <1>3

-----------------------------------------------------------------------------
(* The stack of pending addresses *)

(***************************************************************************)
(* enqueue_code pushes an address of the segment that was not pushed       *)
(* before, and nothing else.                                               *)
(***************************************************************************)
LEMMA EnqueueKeeps ==
    ASSUME NEW q, NEW done, QueueOK(q, done), NEW c \in Nat \cup {None},
           q = [pending |-> q.pending, visited |-> q.visited]
    PROVE  /\ QueueOK(EnqueueCode(q, c), done)
           /\ EnqueueCode(q, c) = [pending |-> EnqueueCode(q, c).pending,
                                   visited |-> EnqueueCode(q, c).visited]
<1>1. CASE InSegment(c) /\ c \notin q.visited
  <2> DEFINE p == q.pending
             s == Append(p, c)
             v == q.visited \cup {c}
  <2>1. EnqueueCode(q, c) = [pending |-> s, visited |-> v]
    BY <1>1 DEF EnqueueCode
  <2>2. c \in Cell
    BY <1>1, InSegmentIsCell
  <2>3. p \in Seq(Cell) /\ ToSet(p) \subseteq q.visited
    BY DEF QueueOK
  <2>4. /\ s \in Seq(Cell) /\ Len(s) = Len(p) + 1 /\ s[Len(s)] = c
        /\ DOMAIN s = 1 .. Len(p) + 1 /\ DOMAIN p = 1 .. Len(p) /\ Len(p) \in Nat
        /\ \A i \in DOMAIN p : s[i] = p[i]
    BY <2>2, <2>3
  <2>5. \A i \in DOMAIN p : p[i] # c
    BY <1>1, <2>3 DEF ToSet
  <2> HIDE DEF p, s, v
  <2>6. ToSet(s) = ToSet(p) \cup {c}
    BY <2>4 DEF ToSet
  <2>7. \A i, j \in DOMAIN s : s[i] = s[j] => i = j
    <3>1. \A i, j \in DOMAIN p : p[i] = p[j] => i = j
      BY DEF QueueOK, p
    <3> QED BY <2>4, <2>5, <3>1
  <2>8. QueueOK([pending |-> s, visited |-> v], done)
    <3>1. ToSet(p) \cap done = {} /\ ToSet(p) \cup done = q.visited /\ q.visited \subseteq Cell
      BY DEF QueueOK, p
    <3> QED BY <1>1, <2>2, <2>4, <2>6, <2>7, <3>1 DEF QueueOK, v
  <2> QED BY <2>1, <2>8
<1>2. CASE ~(InSegment(c) /\ c \notin q.visited)
  BY <1>2 DEF EnqueueCode
<1> QED BY <1>1, <1>2

(* Popping an address moves it from the stack to the processed ones. *)
LEMMA PopKeeps ==
    ASSUME QueueOK(Queue, processed), pending # <<>>
    PROVE  /\ Top \in Cell
           /\ Rest \in Seq(Cell)
           /\ QueueOK([pending |-> Rest, visited |-> visited], processed \cup {Top})
<1> DEFINE n == Len(pending)
<1>1. /\ pending \in Seq(Cell) /\ visited \subseteq Cell
      /\ \A i, j \in DOMAIN pending : pending[i] = pending[j] => i = j
      /\ ToSet(pending) \cap processed = {} /\ ToSet(pending) \cup processed = visited
  BY DEF QueueOK, Queue
<1>2. n \in Nat \ {0} /\ DOMAIN pending = 1 .. n
  BY <1>1
<1>3. /\ Rest \in Seq(Cell) /\ DOMAIN Rest = 1 .. n - 1
      /\ \A i \in 1 .. n - 1 : Rest[i] = pending[i]
  BY <1>1, <1>2 DEF Rest
<1>4. Top \in Cell /\ Top = pending[n]
  BY <1>1, <1>2 DEF Top
<1> HIDE DEF n
<1>5. Top \notin ToSet(Rest) /\ ToSet(pending) = ToSet(Rest) \cup {Top}
  BY <1>1, <1>2, <1>3, <1>4 DEF ToSet
<1>6. \A i, j \in DOMAIN Rest : Rest[i] = Rest[j] => i = j
  BY <1>1, <1>2, <1>3
<1> QED BY <1>1, <1>3, <1>4, <1>5, <1>6 DEF QueueOK

(* The references of a row are followed (enqueue_row_targets). *)
LEMMA TargetsKeep ==
    ASSUME NEW q, NEW done, QueueOK(q, done), BytesOK, NEW c \in Cell,
           q = [pending |-> q.pending, visited |-> q.visited]
    PROVE  QueueOK(EnqueueTargets(q, c), done)
<1>1. Row(c).target \in Nat \cup {None} /\ NextRow(c) \in Nat \cup {None}
  BY RowType, NextIsHigher, CellsAreAddresses, SegmentAssumption DEF Rows, Cell
<1> DEFINE r == EnqueueCode(q, Row(c).target)
<1>2. QueueOK(r, done) /\ r = [pending |-> r.pending, visited |-> r.visited]
  BY <1>1, EnqueueKeeps
<1>3. QueueOK(EnqueueCode(r, NextRow(c)), done)
  <2> HIDE DEF r
  <2> QED BY <1>1, <1>2, EnqueueKeeps
<1> QED BY <1>2, <1>3 DEF EnqueueTargets

-----------------------------------------------------------------------------
(* Items *)

Apart(i, j) == i.at + i.len <= j.at \/ j.at + j.len <= i.at

InFreeSpace(n) ==
    /\ SegStart <= n.at /\ n.at + n.len <= SegEnd
    /\ Free(n.at, n.at + n.len)

(***************************************************************************)
(* New items in free space that are apart from each other leave the items  *)
(* well-formed: an overlap with an old one would have a first cell.        *)
(***************************************************************************)
LEMMA AddItems ==
    ASSUME items \subseteq Items, WellFormed(items),
           NEW new \in SUBSET Items,
           \A n \in new : InFreeSpace(n),
           \A n, m \in new : n # m => Apart(n, m)
    PROVE  WellFormed(items \cup new)
<1>1. \A n \in new : \A i \in items : Apart(n, i)
  <2> SUFFICES ASSUME NEW n \in new, NEW i \in items, ~Apart(n, i) PROVE FALSE
    OBVIOUS
  <2>1. n.at \in Nat /\ n.len \in Nat \ {0} /\ i.at \in Nat /\ i.len \in Nat \ {0}
    BY CellsAreAddresses DEF Items
  <2>2. n.at < i.at + i.len /\ i.at < n.at + n.len
    BY <2>1 DEF Apart
  <2>3. \A c \in n.at .. n.at + n.len - 1 : ~Covers(i, c)
    <3>1. Free(n.at, n.at + n.len)
      BY DEF InFreeSpace
    <3> QED BY <2>1, <3>1 DEF Free, IsUnknown
  <2>4. CASE i.at <= n.at
    BY <2>1, <2>2, <2>3, <2>4 DEF Covers
  <2>5. CASE n.at < i.at
    BY <2>1, <2>2, <2>3, <2>5 DEF Covers
  <2> QED BY <2>1, <2>4, <2>5
<1>2. \A i, j \in items \cup new : i # j => Apart(i, j)
  BY <1>1 DEF WellFormed, Apart
<1>3. \A i \in items \cup new : SegStart <= i.at /\ i.at + i.len <= SegEnd
  BY DEF WellFormed, InFreeSpace
<1> QED BY <1>2, <1>3 DEF WellFormed, Apart

(* One new item in free space. *)
LEMMA AddItem ==
    ASSUME items \subseteq Items, WellFormed(items),
           NEW n \in Items, InFreeSpace(n)
    PROVE  WellFormed(items \cup {n})
BY AddItems

(***************************************************************************)
(* An item from s to e - 1.                                                *)
(***************************************************************************)
LEMMA ItemType ==
    ASSUME NEW s \in Nat, NEW e \in Nat, SegStart <= s, s < e, e <= SegEnd,
           NEW kind \in {"code", "string", "data", "fill"}
    PROVE  /\ Item(s, e, kind) \in Items
           /\ Item(s, e, kind).at = s /\ Item(s, e, kind).len = e - s
           /\ Item(s, e, kind).at + Item(s, e, kind).len = e
           /\ Item(s, e, kind).kind = kind
           /\ Free(s, e) => InFreeSpace(Item(s, e, kind))
<1>1. s \in Address
  BY CellsAreAddresses, SegmentAssumption
<1>2. /\ Item(s, e, kind) \in Items
      /\ Item(s, e, kind).at = s /\ Item(s, e, kind).len = e - s
      /\ Item(s, e, kind).at + Item(s, e, kind).len = e
      /\ Item(s, e, kind).kind = kind
  BY <1>1 DEF Item, Items
<1> QED BY <1>2 DEF InFreeSpace

(***************************************************************************)
(* The pieces of a run are in the run and apart (create_data_range).       *)
(***************************************************************************)
LEMMA PiecesApart ==
    ASSUME NEW a \in Nat, NEW b \in Nat, a < b
    PROVE  /\ \A p \in Pieces(a, b) :
                p \in Nat \X Nat /\ a <= p[1] /\ p[2] <= b
           /\ \A p, r \in Pieces(a, b) : p # r => p[2] <= r[1] \/ r[2] <= p[1]
<1> DEFINE q == AlignUp(a)
           z == Max({q, AlignDown(b)})
<1>1. q \in Nat /\ a <= q /\ AlignDown(b) \in Nat /\ AlignDown(b) <= b
  BY Aligned
<1>2. z \in {q, AlignDown(b)} /\ q <= z
  <2>1. q \in Int /\ AlignDown(b) \in Int
    BY <1>1
  <2> HIDE DEF q
  <2> QED BY <2>1, MinMaxPair
<1>3. CASE q >= b
  <2>1. Pieces(a, b) = {<<a, b>>}
    BY <1>3 DEF Pieces
  <2> QED BY <2>1
<1>4. CASE ~(q >= b)
  <2>1. Pieces(a, b) = {<<a, q>>, <<q, z>>, <<z, b>>}
    BY <1>4 DEF Pieces
  <2> HIDE DEF q, z
  <2>2. z \in Nat /\ z <= b
    BY <1>1, <1>2, <1>4
  <2> QED BY <1>1, <1>2, <2>1, <2>2
<1> QED BY <1>3, <1>4

(***************************************************************************)
(* Runs of unknown bytes are apart: a run that another one meets would not *)
(* end where it does (create_data_range).                                  *)
(***************************************************************************)
LEMMA RunsApart ==
    ASSUME NEW s \in Nat, NEW e \in Nat, NEW r \in Runs(s, e), NEW t \in Runs(s, e), r # t
    PROVE  r[2] <= t[1] \/ t[2] <= r[1]
<1>1. /\ r \in (s .. e) \X (s .. e) /\ t \in (s .. e) \X (s .. e)
      /\ r[1] < r[2] /\ t[1] < t[2]
      /\ \A c \in r[1] .. r[2] - 1 : IsUnknown(c)
      /\ \A c \in t[1] .. t[2] - 1 : IsUnknown(c)
      /\ r[1] = s \/ ~IsUnknown(r[1] - 1)
      /\ t[1] = s \/ ~IsUnknown(t[1] - 1)
      /\ r[2] = e \/ ~IsUnknown(r[2])
      /\ t[2] = e \/ ~IsUnknown(t[2])
  BY DEF Runs, Free
<1> SUFFICES ASSUME t[1] < r[2], r[1] < t[2] PROVE FALSE
  BY <1>1
<1>2. r[1] = t[1]
  BY <1>1
<1>3. r[2] = t[2]
  BY <1>1
<1> QED BY <1>1, <1>2, <1>3

(***************************************************************************)
(* The data made of a range is made of free space of it, in items that are *)
(* apart (create_data_range).                                              *)
(***************************************************************************)
LEMMA DataFits ==
    ASSUME NEW s \in Nat, NEW e \in Nat, SegStart <= s, e <= SegEnd
    PROVE  /\ DataIn(s, e) \subseteq Items
           /\ \A n \in DataIn(s, e) : InFreeSpace(n)
           /\ \A n, m \in DataIn(s, e) : n # m => Apart(n, m)
<1> DEFINE In(n, r, p) == /\ r \in Runs(s, e) /\ p \in Pieces(r[1], r[2]) /\ p[1] < p[2]
                          /\ n = Item(p[1], p[2], "fill")
<1>1. \A n \in DataIn(s, e) : \E r, p : In(n, r, p)
  BY DEF DataIn
<1>2. \A r \in Runs(s, e) : /\ r[1] \in Nat /\ r[2] \in Nat /\ r[1] < r[2]
                            /\ s <= r[1] /\ r[2] <= e /\ Free(r[1], r[2])
  BY DEF Runs
<1>3. ASSUME NEW n, NEW r, NEW p, In(n, r, p)
      PROVE  /\ n \in Items /\ InFreeSpace(n)
             /\ n.at = p[1] /\ n.at + n.len = p[2]
             /\ r[1] <= p[1] /\ p[2] <= r[2] /\ p \in Nat \X Nat
  <2>1. /\ r[1] \in Nat /\ r[2] \in Nat /\ r[1] < r[2]
        /\ s <= r[1] /\ r[2] <= e /\ Free(r[1], r[2])
    BY <1>2, <1>3
  <2>2. p \in Nat \X Nat /\ r[1] <= p[1] /\ p[2] <= r[2] /\ p[1] < p[2]
    BY <1>3, <2>1, PiecesApart
  <2>3. p[1] \in Nat /\ p[2] \in Nat /\ SegStart <= p[1] /\ p[2] <= SegEnd
    BY <2>1, <2>2, SegmentAssumption
  <2>4. Free(p[1], p[2])
    BY <2>1, <2>2 DEF Free
  <2> QED BY <1>3, <2>2, <2>3, <2>4, ItemType
<1>4. ASSUME NEW n \in DataIn(s, e), NEW m \in DataIn(s, e), n # m
      PROVE  Apart(n, m)
  <2>1. PICK r, p : In(n, r, p)
    BY <1>1
  <2>2. PICK t, o : In(m, t, o)
    BY <1>1
  <2>3. /\ n.at = p[1] /\ n.at + n.len = p[2] /\ m.at = o[1] /\ m.at + m.len = o[2]
        /\ r[1] <= p[1] /\ p[2] <= r[2] /\ t[1] <= o[1] /\ o[2] <= t[2]
        /\ p \in Nat \X Nat /\ o \in Nat \X Nat
    BY <1>3, <2>1, <2>2
  <2>4. p # o
    BY <1>4, <2>1, <2>2
  <2>5. CASE r = t
    <3>1. p[2] <= o[1] \/ o[2] <= p[1]
      BY <1>2, <2>1, <2>2, <2>4, <2>5, PiecesApart
    <3> QED BY <2>3, <3>1 DEF Apart
  <2>6. CASE r # t
    <3>1. r[2] <= t[1] \/ t[2] <= r[1]
      BY <2>1, <2>2, <2>6, RunsApart
    <3> QED BY <1>2, <2>1, <2>2, <2>3, <3>1 DEF Apart
  <2> QED BY <2>5, <2>6
<1> QED BY <1>1, <1>3, <1>4

-----------------------------------------------------------------------------
(* The invariant *)

(* A handled address stays so while items and requests to IDA only grow. *)
LEMMA StaysHandled ==
    ASSUME NEW c, Handled(c), items \subseteq items', autoq \subseteq autoq', image' = image
    PROVE  Handled(c)'
BY DEF Handled, Decodes, RowsAt, Covers

(* So do all of them when nothing is popped. *)
LEMMA HandledStay ==
    ASSUME IInv, items \subseteq items', autoq \subseteq autoq', image' = image,
           processed' = processed
    PROVE  (\A c \in processed : Handled(c))'
BY StaysHandled DEF IInv

(* And the stack when nothing is pushed or popped. *)
LEMMA QueueStays ==
    ASSUME IInv, UNCHANGED <<pending, visited, processed>>
    PROVE  QueueOK(Queue, processed)'
BY DEF IInv, QueueOK, Queue

(* A queue that is written back is the stack of the next state. *)
LEMMA QueueWritten ==
    ASSUME NEW q, NEW done, QueueOK(q, done), QueueBecomes(q), processed' = done
    PROVE  /\ QueueOK(Queue, processed)'
           /\ pending' \in Seq(Cell) /\ visited' \subseteq Cell
BY DEF QueueOK, QueueBecomes, Queue

(* The pass starts from items that do not overlap (SegmentBootstrapper). *)
LEMMA InitInv == Init => IInv
<1> SUFFICES ASSUME Init PROVE IInv
  OBVIOUS
<1>1. items \subseteq Items /\ WellFormed(items) /\ \A i \in items : i.kind # "fill"
  BY OldItemsAssumption DEF Init
<1>2. BytesOK
  BY ContentsAssumption DEF Init, BytesOK
<1>3. TypeOK
  <2>1. sawSetup \in BOOLEAN
    BY Zenon DEF Init
  <2>2. pending \in Seq(Cell) /\ cursor \in Nat
    BY SegmentAssumption DEF Init
  <2> QED BY <1>1, <2>1, <2>2 DEF Init, TypeOK
<1>4. QueueOK(Queue, processed)
  BY DEF Init, QueueOK, Queue, ToSet
<1>5. PhaseOK
  BY <1>1, SegmentAssumption DEF Init, PhaseOK
<1> QED BY <1>1, <1>2, <1>3, <1>4, <1>5 DEF Init, IInv

(* A string is made of free space (create_strings). *)
LEMMA ScanStringKeeps == IInv /\ ScanString => IInv'
<1> SUFFICES ASSUME IInv, ScanString PROVE IInv'
  OBVIOUS
<1> DEFINE len == StringLength(text, cursor, SegEnd)
           end == StringEnd(cursor, len)
<1>1. cursor \in Cell /\ cursor \in Nat
  BY SegmentAssumption DEF IInv, TypeOK, PhaseOK, ScanString, Cell
<1>2. len \in Nat /\ (len > 0 => end \in Nat /\ cursor < end /\ end <= SegEnd)
  BY <1>1, StringSizes
<1>3. /\ items' \subseteq Items /\ WellFormed(items') /\ items \subseteq items'
      /\ (\A i \in items : i.kind # "fill") => \A i \in items' : i.kind # "fill"
  <2>1. CASE len > 0 /\ Free(cursor, end)
    <3> DEFINE n == Item(cursor, end, "string")
    <3>1. items' = items \cup {n}
      BY <2>1 DEF ScanString
    <3>2. n \in Items /\ InFreeSpace(n) /\ n.kind = "string"
      BY <1>1, <1>2, <2>1, ItemType, SegmentAssumption DEF Cell
    <3> HIDE DEF n
    <3> QED BY <3>1, <3>2, AddItem DEF IInv, TypeOK
  <2>2. CASE ~(len > 0 /\ Free(cursor, end))
    <3>1. items' = items
      BY <2>2 DEF ScanString
    <3> QED BY <3>1 DEF IInv, TypeOK
  <2> QED BY <2>1, <2>2
<1>4. cursor' \in Nat /\ cursor <= cursor'
  <2>1. cursor' \in {cursor + 1, cursor + len + 1}
    BY DEF ScanString
  <2> HIDE DEF len
  <2> QED BY <1>1, <1>2, <2>1
<1>5. UNCHANGED <<bytes, autoq, funcs, pc, pending, visited, probable, skipped, hints, processed>>
  BY DEF ScanString
<1> HIDE DEF len, end
<1>6. TypeOK' /\ BytesOK' /\ skipped' \in Seq(Nat \X Nat)
  BY <1>3, <1>4, <1>5 DEF IInv, TypeOK, BytesOK, bytes, hints
<1>7. PhaseOK'
  BY <1>1, <1>3, <1>4, <1>5, SegmentAssumption DEF IInv, PhaseOK, ScanString, bytes, hints, Cell
<1>8. QueueOK(Queue, processed)'
  BY <1>5, QueueStays DEF IInv
<1> QED BY <1>3, <1>5, <1>6, <1>7, <1>8, HandledStay DEF IInv, WellFormed, bytes

(* The first bundle is pushed (create_code_rows). *)
LEMMA StartCodeKeeps == IInv /\ StartCode => IInv'
<1> SUFFICES ASSUME IInv, StartCode PROVE IInv'
  OBVIOUS
<1> DEFINE q == EnqueueCode(Queue, AlignUp(SegStart))
<1>1. QueueOK(q, processed)
  BY Aligned, SegmentAssumption, EnqueueKeeps DEF IInv, Queue
<1>2. QueueBecomes(q) /\ processed' = processed /\ image' = image
  BY DEF StartCode, bytes
<1> HIDE DEF q
<1>3. QueueOK(Queue, processed)' /\ pending' \in Seq(Cell) /\ visited' \subseteq Cell
  BY <1>1, <1>2, QueueWritten
<1>4. TypeOK' /\ BytesOK' /\ skipped' \in Seq(Nat \X Nat) /\ PhaseOK' /\ WellFormed(items)'
  BY <1>3 DEF IInv, TypeOK, BytesOK, PhaseOK, StartCode, bytes, hints, WellFormed
<1> QED BY <1>2, <1>3, <1>4, HandledStay DEF IInv, StartCode

(***************************************************************************)
(* A popped address is no cell of a whole bundle, does not decode, is in   *)
(* the way of an item, or is made code (create_reachable_row).             *)
(***************************************************************************)
LEMMA PopHandles ==
    ASSUME IInv, Pop, items \subseteq items', autoq \subseteq autoq', image' = image,
           NEW t, t = Top, Handled(t)'
    PROVE  (\A c \in processed : Handled(c))'
<1> SUFFICES ASSUME NEW c \in processed' PROVE Handled(c)'
  OBVIOUS
<1>1. CASE c = t
  BY <1>1
<1>2. CASE c # t
  <2>1. c \in processed
    BY <1>2 DEF Pop
  <2> QED BY <2>1, StaysHandled DEF IInv
<1> QED BY <1>1, <1>2

(* An address is dropped because of the item that is in its bundle. *)
LEMMA DropRowKeeps == IInv /\ DropRow => IInv'
<1> SUFFICES ASSUME IInv, DropRow PROVE IInv'
  OBVIOUS
<1> DEFINE q == [pending |-> Rest, visited |-> visited]
<1>1. Top \in Cell /\ QueueOK(q, processed \cup {Top})
  BY PopKeeps DEF IInv, DropRow, Pop
<1>2. QueueBecomes(q) /\ processed' = processed \cup {Top} /\ image' = image
  BY DEF DropRow, Pop, QueueBecomes, bytes
<1> HIDE DEF q
<1>3. QueueOK(Queue, processed)' /\ pending' \in Seq(Cell) /\ visited' \subseteq Cell
  BY <1>1, <1>2, QueueWritten
<1>4. TypeOK' /\ BytesOK' /\ skipped' \in Seq(Nat \X Nat) /\ PhaseOK' /\ WellFormed(items)'
  BY <1>3 DEF IInv, TypeOK, BytesOK, PhaseOK, DropRow, Pop, bytes, hints, WellFormed
<1>5. PICK t \in Cell : t = Top
  BY <1>1
<1>6. Handled(t)
  <2> SUFFICES ASSUME t % BundleSize = 0, t + BundleSize <= SegEnd, Decodes(t)
               PROVE  \E i \in items : /\ i.kind # "fill"
                                       /\ \E x \in t .. t + BundleSize - 1 : Covers(i, x)
    BY DEF Handled
  <2>1. AlignDown(t) = t /\ SegStart <= t
    BY SegmentAssumption DEF AlignDown, BundleSize, Cell
  <2>2. Unusable(t)
    BY <1>5 DEF DropRow
  <2>3. ItemBlocksCode(t, t + BundleSize)
    <3>1. t \in Nat /\ t + BundleSize \in Nat
      BY CellsAreAddresses DEF BundleSize
    <3> QED BY <2>1, <2>2, <3>1, SegmentAssumption DEF Unusable
  <2>4. PICK x \in t .. t + BundleSize - 1 : IsData(x) \/ IsTail(x)
    BY <2>3, CellsAreAddresses DEF ItemBlocksCode, BundleSize
  <2>5. PICK i \in items : Covers(i, x)
    <3>1. \A j \in items : j.at \in Nat /\ j.len \in Nat \ {0}
      BY CellsAreAddresses DEF IInv, TypeOK, Items
    <3> QED BY <2>4, <3>1 DEF IsData, IsTail, Covers
  <2>6. i.kind # "fill"
    BY DEF IInv, PhaseOK, DropRow, Pop
  <2> QED BY <2>4, <2>5, <2>6
<1>7. items' = items /\ autoq' = autoq
  BY DEF DropRow
<1>8. Handled(t)'
  BY <1>2, <1>6, <1>7, StaysHandled
<1> QED BY <1>2, <1>3, <1>4, <1>5, <1>7, <1>8, PopHandles DEF IInv, DropRow

(* An address that create_insn refuses is left to IDA. *)
LEMMA DeferRowKeeps == IInv /\ DeferRow => IInv'
<1> SUFFICES ASSUME IInv, DeferRow PROVE IInv'
  OBVIOUS
<1> DEFINE q == [pending |-> Rest, visited |-> visited]
<1>1. Top \in Cell /\ QueueOK(q, processed \cup {Top})
  BY PopKeeps DEF IInv, DeferRow, Pop
<1>2. QueueBecomes(q) /\ processed' = processed \cup {Top} /\ image' = image
  BY DEF DeferRow, Pop, QueueBecomes, bytes
<1> HIDE DEF q
<1>3. QueueOK(Queue, processed)' /\ pending' \in Seq(Cell) /\ visited' \subseteq Cell
  BY <1>1, <1>2, QueueWritten
<1>4. TypeOK' /\ BytesOK' /\ skipped' \in Seq(Nat \X Nat) /\ PhaseOK' /\ WellFormed(items)'
  BY <1>1, <1>3 DEF IInv, TypeOK, BytesOK, PhaseOK, DeferRow, Pop, bytes, hints, WellFormed
<1>5. PICK t \in Cell : t = Top
  BY <1>1
<1>6. items' = items /\ autoq' = autoq \cup {t}
  BY <1>5 DEF DeferRow
<1>7. Handled(t)'
  BY <1>6 DEF Handled
<1> QED BY <1>2, <1>3, <1>4, <1>5, <1>6, <1>7, PopHandles DEF IInv, DeferRow

(***************************************************************************)
(* A row becomes code in free space, and what it refers to is pushed.      *)
(***************************************************************************)
LEMMA CreateRowKeeps == IInv /\ CreateRow => IInv'
<1> SUFFICES ASSUME IInv, CreateRow PROVE IInv'
  OBVIOUS
<1>1. Top \in Cell /\ QueueOK([pending |-> Rest, visited |-> visited], processed \cup {Top})
  BY PopKeeps DEF IInv, CreateRow, Pop
<1>2. PICK t \in Cell : t = Top
  BY <1>1
<1> DEFINE q == EnqueueTargets([pending |-> Rest, visited |-> visited], t)
           n == Item(t, NextRow(t), "code")
<1>3. QueueOK(q, processed \cup {t})
  BY <1>1, <1>2, TargetsKeep DEF IInv
<1>4. QueueBecomes(q) /\ processed' = processed \cup {t} /\ image' = image /\ autoq' = autoq
  BY <1>2 DEF CreateRow, Pop, bytes
<1> HIDE DEF q
<1>5. QueueOK(Queue, processed)' /\ pending' \in Seq(Cell) /\ visited' \subseteq Cell
  BY <1>3, <1>4, QueueWritten
<1>6. /\ t \in Nat /\ NextRow(t) \in Nat /\ t < NextRow(t) /\ t + RowSize(t) = NextRow(t)
      /\ SegStart <= t /\ NextRow(t) <= SegEnd
  <2>1. /\ t \in Nat /\ NextRow(t) \in Nat /\ t < NextRow(t) /\ t + RowSize(t) = NextRow(t)
        /\ AlignDown(t) \in Nat /\ AlignDown(t) <= t /\ NextRow(t) <= AlignDown(t) + BundleSize
    BY CellsAreAddresses, NextIsHigher, Aligned
  <2>2. SegStart <= AlignDown(t) /\ AlignDown(t) + BundleSize <= SegEnd
    BY <1>2, <2>1, SegmentAssumption DEF CreateRow, Unusable, BundleSize
  <2> QED BY <2>1, <2>2, SegmentAssumption DEF BundleSize
<1>7. BytesOK /\ t \in Nat /\ t < SegEnd
  BY <1>6, SegmentAssumption DEF IInv
<1>8. /\ items' \subseteq Items /\ WellFormed(items') /\ items \subseteq items'
      /\ \E i \in items' : i.at = t /\ i.kind = "code" /\ i.len \in Nat \ {0}
      /\ (\A i \in items : i.kind # "fill") => \A i \in items' : i.kind # "fill"
  <2>1. CASE IsCode(t)
    <3>1. items' = items
      BY <1>2, <2>1 DEF CreateRow
    <3> QED BY <2>1, <3>1 DEF IsCode, IInv, TypeOK, Items
  <2>2. CASE ~IsCode(t)
    <3>1. items' = items \cup {n} /\ Free(t, NextRow(t))
      BY <1>2, <1>6, <2>2 DEF CreateRow
    <3>2. n \in Items /\ InFreeSpace(n) /\ n.at = t /\ n.kind = "code"
      BY <1>6, <3>1, ItemType
    <3> HIDE DEF n
    <3>3. n.len \in Nat \ {0}
      BY <3>2 DEF Items
    <3> QED BY <3>1, <3>2, <3>3, AddItem DEF IInv, TypeOK
  <2> QED BY <2>1, <2>2
<1> HIDE DEF n
<1>9. Handled(t)'
  <2>1. PICK i \in items' : i.at = t /\ i.kind = "code" /\ i.len \in Nat \ {0}
    BY <1>8
  <2>2. t \in t .. t + BundleSize - 1 /\ Covers(i, t)
    BY <1>6, <2>1 DEF Covers, BundleSize
  <2> QED BY <2>1, <2>2 DEF Handled, Covers
<1>10. entry' \in Cell \cup {None} /\ main' \in Cell \cup {None} /\ sawSetup' \in BOOLEAN
  <2>1. EntryHints(t)
    BY <1>2 DEF CreateRow
  <2>2. CallTarget(t) \in Nat \cup {None}
    BY <1>7, RowType, CellsAreAddresses
  <2>3. entry \in Cell \cup {None} /\ main \in Cell \cup {None}
    BY DEF IInv, TypeOK
  <2>4. sawSetup' \in BOOLEAN
    BY <2>1 DEF EntryHints
  <2> QED BY <2>1, <2>2, <2>3, <2>4, InSegmentIsCell DEF EntryHints
<1>11. skipped' \in Seq(Nat \X Nat)
  <2>1. skipped' = skipped \o SkippedBy(t) /\ skipped \in Seq(Nat \X Nat)
    BY <1>2 DEF CreateRow, IInv
  <2>2. JumpTarget(t) \in Nat \cup {None}
    BY <1>7, RowType, CellsAreAddresses
  <2>3. InSegment(JumpTarget(t)) => JumpTarget(t) \in Nat
    BY <2>2 DEF InSegment
  <2>4. SkippedBy(t) \in Seq(Nat \X Nat)
    <3>1. \/ SkippedBy(t) = <<>>
          \/ SkippedBy(t) = << <<NextRow(t), JumpTarget(t)>> >> /\ InSegment(JumpTarget(t))
      BY <1>6 DEF SkippedBy
    <3>2. InSegment(JumpTarget(t)) => <<NextRow(t), JumpTarget(t)>> \in Nat \X Nat
      BY <1>6, <2>3
    <3>3. \A p \in Nat \X Nat : <<p>> \in Seq(Nat \X Nat)
      OBVIOUS
    <3>4. <<>> \in Seq(Nat \X Nat)
      OBVIOUS
    <3> QED BY <3>1, <3>2, <3>3, <3>4, Zenon
  <2> QED BY <2>1, <2>4
<1>12. TypeOK' /\ BytesOK' /\ PhaseOK'
  BY <1>4, <1>5, <1>8, <1>10 DEF IInv, TypeOK, BytesOK, PhaseOK, CreateRow, Pop, bytes
<1>13. (\A c \in processed : Handled(c))'
  BY <1>2, <1>4, <1>8, <1>9, PopHandles DEF CreateRow
<1> QED BY <1>5, <1>8, <1>11, <1>12, <1>13 DEF IInv, WellFormed

(* The loops that change neither items nor the stack. *)
LEMMA DrainedKeeps == IInv /\ Drained => IInv'
<1> SUFFICES ASSUME IInv, Drained PROVE IInv'
  OBVIOUS
<1>1. AlignUp(SegStart) \in Nat /\ SegStart <= AlignUp(SegStart)
  BY Aligned, SegmentAssumption
<1>2. TypeOK' /\ BytesOK' /\ skipped' \in Seq(Nat \X Nat) /\ PhaseOK' /\ WellFormed(items)'
  BY <1>1 DEF IInv, TypeOK, BytesOK, PhaseOK, Drained, bytes, hints, WellFormed
<1> QED BY <1>2, HandledStay, QueueStays DEF IInv, Drained, bytes

(* A bundle that may begin a function is pushed (enqueue_probable_functions).*)
LEMMA ScanFunctionKeeps == IInv /\ ScanFunction => IInv'
<1> SUFFICES ASSUME IInv, ScanFunction PROVE IInv'
  OBVIOUS
<1> DEFINE q == EnqueueCode(Queue, cursor)
<1>1. cursor \in Nat
  BY DEF IInv, TypeOK
<1>2. QueueOK(q, processed) /\ QueueOK(Queue, processed)
  BY <1>1, EnqueueKeeps DEF IInv, Queue
<1>3. QueueBecomes(q) \/ UNCHANGED <<pending, visited>>
  BY DEF ScanFunction
<1> HIDE DEF q
<1>4. QueueOK(Queue, processed)' /\ pending' \in Seq(Cell) /\ visited' \subseteq Cell
  <2>1. processed' = processed
    BY DEF ScanFunction
  <2>2. CASE QueueBecomes(q)
    BY <1>2, <2>1, <2>2, QueueWritten
  <2>3. CASE UNCHANGED <<pending, visited>>
    BY <2>1, <2>3, QueueStays DEF IInv, TypeOK
  <2> QED BY <1>3, <2>2, <2>3
<1>5. probable' \subseteq Cell
  <2>1. cursor \in Cell
    BY <1>1, SegmentAssumption DEF IInv, PhaseOK, ScanFunction, Cell, BundleSize
  <2>2. probable' \in {probable, probable \cup {cursor}}
    BY DEF ScanFunction
  <2> QED BY <2>1, <2>2 DEF IInv, TypeOK
<1>6. TypeOK' /\ BytesOK' /\ skipped' \in Seq(Nat \X Nat) /\ PhaseOK' /\ WellFormed(items)'
  BY <1>1, <1>4, <1>5, SegmentAssumption
  DEF IInv, TypeOK, BytesOK, PhaseOK, ScanFunction, bytes, hints, WellFormed, BundleSize
<1> QED BY <1>4, <1>6, HandledStay DEF IInv, ScanFunction, bytes

(* After the second drain there is nothing to follow (create_code_rows). *)
LEMMA FunctionsScannedKeeps == IInv /\ FunctionsScanned => IInv'
<1> SUFFICES ASSUME IInv, FunctionsScanned PROVE IInv'
  OBVIOUS
<1>1. TypeOK' /\ BytesOK' /\ skipped' \in Seq(Nat \X Nat) /\ PhaseOK' /\ WellFormed(items)'
  BY DEF IInv, TypeOK, BytesOK, PhaseOK, FunctionsScanned, bytes, hints, WellFormed
<1> QED BY <1>1, HandledStay, QueueStays DEF IInv, FunctionsScanned, bytes

(* Data is made of free space (create_data_range). *)
LEMMA FillKeeps ==
    ASSUME IInv, NEW s \in Nat, NEW e \in Nat, SegStart <= s, e <= SegEnd,
           items' = items \cup DataIn(s, e)
    PROVE  items' \subseteq Items /\ WellFormed(items') /\ items \subseteq items'
BY DataFits, AddItems DEF IInv, TypeOK

(* What jumps skip is filled within the segment (create_skipped_data). *)
LEMMA SkipDataKeeps == IInv /\ SkipData => IInv'
<1> SUFFICES ASSUME IInv, SkipData PROVE IInv'
  OBVIOUS
<1> DEFINE s == Max({skipped[cursor][1], SegStart})
           e == Min({skipped[cursor][2], SegEnd})
<1>1. cursor \in Nat /\ 1 <= cursor /\ cursor <= Len(skipped) /\ skipped \in Seq(Nat \X Nat)
  BY DEF IInv, TypeOK, PhaseOK, SkipData
<1>2. skipped[cursor] \in Nat \X Nat
  BY <1>1
<1>3. s \in Nat /\ SegStart <= s /\ e \in Nat /\ e <= SegEnd
  <2>1. /\ skipped[cursor][1] \in Int /\ skipped[cursor][2] \in Int
        /\ SegStart \in Int /\ SegEnd \in Int
    BY <1>2, SegmentAssumption
  <2>2. s \in {skipped[cursor][1], SegStart} /\ SegStart <= s
    BY <2>1, MinMaxPair
  <2>3. e \in {skipped[cursor][2], SegEnd} /\ e <= SegEnd
    BY <2>1, MinMaxPair
  <2> HIDE DEF s, e
  <2> QED BY <1>2, <2>2, <2>3, SegmentAssumption
<1>4. items' = items \cup DataIn(s, e)
  BY DEF SkipData
<1> HIDE DEF s, e
<1>5. items' \subseteq Items /\ WellFormed(items') /\ items \subseteq items'
  BY <1>3, <1>4, FillKeeps
<1>6. TypeOK' /\ BytesOK' /\ skipped' \in Seq(Nat \X Nat) /\ PhaseOK'
  <2>1. UNCHANGED <<image, autoq, funcs, pc, pending, visited, probable, skipped, entry, main, sawSetup>>
    BY DEF SkipData, bytes, hints
  <2>2. cursor' = cursor + 1 /\ pc = "skipped"
    BY DEF SkipData
  <2>3. TypeOK'
    BY <1>1, <1>5, <2>1, <2>2 DEF IInv, TypeOK
  <2>4. PhaseOK'
    BY <1>1, <2>1, <2>2 DEF IInv, PhaseOK
  <2> QED BY <2>1, <2>3, <2>4 DEF IInv, BytesOK
<1> QED BY <1>5, <1>6, HandledStay, QueueStays DEF IInv, SkipData, bytes, WellFormed

(* Functions begin at code of the segment (create_probable_functions). *)
LEMMA AddFunctionsKeeps == IInv /\ AddFunctions => IInv'
<1> SUFFICES ASSUME IInv, AddFunctions PROVE IInv'
  OBVIOUS
<1>1. cursor' \in Nat /\ sawSetup' \in BOOLEAN /\ pc' \in {"gaps", "refine"}
  <2>1. CASE entry = None \/ main # None
    BY <2>1, SegmentAssumption DEF IInv, TypeOK, AddFunctions
  <2>2. CASE ~(entry = None \/ main # None)
    BY <2>2, CellsAreAddresses DEF IInv, TypeOK, AddFunctions
  <2> QED BY <2>1, <2>2
<1>2. TypeOK' /\ BytesOK' /\ skipped' \in Seq(Nat \X Nat) /\ PhaseOK' /\ WellFormed(items)'
  BY <1>1 DEF IInv, TypeOK, BytesOK, PhaseOK, AddFunctions, bytes, WellFormed
<1> QED BY <1>2, HandledStay, QueueStays DEF IInv, AddFunctions, bytes

(* The walk to main stays among addresses (refine_main_hint). *)
LEMMA RefineMainKeeps == IInv /\ RefineMain => IInv'
<1> SUFFICES ASSUME IInv, RefineMain PROVE IInv'
  OBVIOUS
<1>1. cursor \in Nat /\ main \in Cell \cup {None} /\ sawSetup \in BOOLEAN
  BY DEF IInv, TypeOK
<1>2. /\ UNCHANGED <<image, items, autoq, funcs, pending, visited, probable, skipped, entry, processed>>
      /\ pc = "refine"
  BY DEF RefineMain, bytes
<1>3. /\ cursor' \in Nat /\ pc' \in {"refine", "gaps"}
      /\ main' \in Cell \cup {None} /\ sawSetup' \in BOOLEAN
  <2>1. CASE cursor >= ScanEnd \/ ~Decodes(cursor)
    BY <1>1, <2>1, SegmentAssumption DEF RefineMain, EndRefine
  <2>2. CASE ~(cursor >= ScanEnd \/ ~Decodes(cursor))
    <3>1. cursor < SegEnd
      <4>1. SegEnd \in Int /\ entry + ScanLimit \in Int
        BY CellsAreAddresses, SegmentAssumption DEF IInv, TypeOK, PhaseOK, RefineMain
      <4>2. ScanEnd \in Int /\ ScanEnd <= SegEnd
        BY <4>1, MinMaxPair DEF ScanEnd
      <4> QED BY <1>1, <2>2, <4>1, <4>2
    <3>2. CallTarget(cursor) \in Nat \cup {None} /\ JumpTarget(cursor) \in Nat \cup {None}
      BY <1>1, <3>1, RowType, CellsAreAddresses DEF IInv
    <3>3. NextRow(cursor) \in Nat
      BY <1>1, NextIsHigher
    <3>4. CASE MainCalledAt(cursor)
      BY <1>1, <2>2, <3>4, <3>2, InSegmentIsCell, SegmentAssumption
      DEF RefineMain, EndRefine, MainCalledAt
    <3>5. CASE ~MainCalledAt(cursor)
      <4>1. main' = main /\ sawSetup' = (sawSetup \/ SetsUpStack(cursor))
        BY <2>2, <3>5 DEF RefineMain
      <4>2. sawSetup' \in BOOLEAN
        BY <4>1
      <4>3. RefineNext(cursor) \in Nat \cup {None}
        BY <3>2, <3>3 DEF RefineNext, InSegment
      <4>4. cursor' \in Nat /\ pc' \in {"refine", "gaps"}
        BY <1>2, <2>2, <3>5, <4>3, SegmentAssumption DEF RefineMain, EndRefine
      <4> QED BY <1>1, <4>1, <4>2, <4>4
    <3> QED BY <3>4, <3>5
  <2> QED BY <2>1, <2>2
<1>4. TypeOK' /\ BytesOK' /\ skipped' \in Seq(Nat \X Nat) /\ PhaseOK' /\ WellFormed(items)'
  BY <1>2, <1>3 DEF IInv, TypeOK, BytesOK, PhaseOK, WellFormed
<1> QED BY <1>2, <1>4, HandledStay, QueueStays DEF IInv

(* Gap data is made behind code of the segment (create_jump_gap_data). *)
LEMMA ScanGapKeeps == IInv /\ ScanGap => IInv'
<1> SUFFICES ASSUME IInv, ScanGap PROVE IInv'
  OBVIOUS
<1>1. /\ cursor \in Nat /\ cursor < SegEnd /\ pc = "gaps"
      /\ UNCHANGED <<image, autoq, funcs, pc, pending, visited, probable, skipped, entry, main,
                     sawSetup, processed>>
  BY DEF IInv, TypeOK, ScanGap, bytes, hints
<1>2. /\ NextRow(cursor) \in Nat /\ cursor + RowSize(cursor) = NextRow(cursor)
      /\ cursor < NextRow(cursor)
  BY <1>1, NextIsHigher
<1> DEFINE t == JumpTarget(cursor)
           g == NextRow(cursor)
<1>3. items' = items \/ (IsCode(cursor) /\ InSegment(t) /\ items' = items \cup DataIn(g, t))
  BY <1>1, <1>2 DEF ScanGap
<1>4. items' \subseteq Items /\ WellFormed(items') /\ items \subseteq items'
  <2>1. CASE items' = items
    BY <2>1 DEF IInv, TypeOK
  <2>2. CASE IsCode(cursor) /\ InSegment(t) /\ items' = items \cup DataIn(g, t)
    <3>1. t \in Nat /\ t <= SegEnd
      <4>1. t \in Address \cup {None}
        BY <1>1, RowType DEF IInv
      <4> HIDE DEF t
      <4> QED BY <2>2, <4>1, CellsAreAddresses, SegmentAssumption DEF InSegment
    <3>2. SegStart <= cursor
      BY <2>2 DEF IsCode, IInv, WellFormed
    <3>3. g \in Nat /\ SegStart <= g
      BY <1>1, <1>2, <3>2, SegmentAssumption
    <3> QED BY <2>2, <3>1, <3>3, FillKeeps
  <2> QED BY <1>3, <2>1, <2>2
<1>5. cursor' \in Nat
  <2>1. CASE ~IsCode(cursor) \/ ~Decodes(cursor)
    <3>1. cursor' = ItemEnd(cursor)
      BY <2>1 DEF ScanGap
    <3>2. CASE IsUnknown(cursor)
      BY <1>1, <3>1, <3>2 DEF ItemEnd
    <3>3. CASE ~IsUnknown(cursor)
      <4> DEFINE i == CHOOSE j \in items : Covers(j, cursor)
      <4>1. i \in items
        BY <3>3 DEF IsUnknown
      <4>2. i.at \in Nat /\ i.len \in Nat
        BY <4>1, CellsAreAddresses DEF IInv, TypeOK, Items
      <4>3. ItemEnd(cursor) = i.at + i.len
        BY <3>3 DEF ItemEnd
      <4> HIDE DEF i
      <4> QED BY <3>1, <4>2, <4>3
    <3> QED BY <3>2, <3>3
  <2>2. CASE ~(~IsCode(cursor) \/ ~Decodes(cursor))
    BY <1>2, <2>2 DEF ScanGap
  <2> QED BY <2>1, <2>2
<1>6. TypeOK'
  BY <1>1, <1>4, <1>5 DEF IInv, TypeOK
<1>7. PhaseOK' /\ BytesOK' /\ skipped' \in Seq(Nat \X Nat)
  BY <1>1 DEF IInv, PhaseOK, BytesOK
<1> QED BY <1>1, <1>4, <1>6, <1>7, HandledStay, QueueStays DEF IInv, WellFormed

(* The pass is over (run). *)
LEMMA FinishKeeps == IInv /\ Finish => IInv'
<1> SUFFICES ASSUME IInv, Finish PROVE IInv'
  OBVIOUS
<1>1. TypeOK' /\ BytesOK' /\ skipped' \in Seq(Nat \X Nat) /\ PhaseOK' /\ WellFormed(items)'
  BY DEF IInv, TypeOK, BytesOK, PhaseOK, Finish, bytes, hints, WellFormed
<1> QED BY <1>1, HandledStay, QueueStays DEF IInv, Finish, bytes

(***************************************************************************)
(* The row at main becomes code in free space, and entry and main become   *)
(* functions where there is code (apply_bootstrap_names).                  *)
(***************************************************************************)
LEMMA ApplyNamesKeeps == IInv /\ ApplyNames => IInv'
<1> SUFFICES ASSUME IInv, ApplyNames PROVE IInv'
  OBVIOUS
<1>1. /\ entry \in Cell \cup {None} /\ main \in Cell \cup {None}
      /\ pc = "done" /\ pc' = "named"
      /\ UNCHANGED <<image, autoq, cursor, pending, visited, probable, skipped, entry, main,
                     sawSetup, processed>>
  BY DEF IInv, TypeOK, ApplyNames, bytes, hints
<1> DEFINE n == Item(main, NextRow(main), "code")
<1>2. \/ items' = items
      \/ items' = items \cup {n} /\ n \in Items /\ InFreeSpace(n)
  <2> SUFFICES ASSUME items' # items
               PROVE  items' = items \cup {n} /\ n \in Items /\ InFreeSpace(n)
    OBVIOUS
  <2>1. /\ main # None /\ Free(main, main + RowSize(main)) /\ main + RowSize(main) <= SegEnd
        /\ items' = items \cup {Item(main, main + RowSize(main), "code")}
    BY DEF ApplyNames
  <2>2. main \in Nat /\ SegStart <= main
    BY <1>1, <2>1, CellsAreAddresses, SegmentAssumption DEF Cell
  <2>3. NextRow(main) \in Nat /\ main < NextRow(main) /\ main + RowSize(main) = NextRow(main)
    BY <2>2, NextIsHigher
  <2> QED BY <2>1, <2>2, <2>3, ItemType
<1> HIDE DEF n
<1>3. items' \subseteq Items /\ WellFormed(items') /\ items \subseteq items'
  BY <1>2, AddItem DEF IInv, TypeOK
<1>4. funcs' \subseteq Cell
  <2>1. \A i \in items' : i.at # None
    BY <1>3, NoneAssumption DEF Items
  <2>2. \A c \in funcs' \ funcs : c \in {entry, main} /\ \E i \in items' : i.at = c
    BY DEF ApplyNames
  <2> QED BY <1>1, <2>1, <2>2 DEF IInv, TypeOK
<1>5. TypeOK'
  BY <1>1, <1>3, <1>4 DEF IInv, TypeOK
<1>6. PhaseOK' /\ BytesOK' /\ skipped' \in Seq(Nat \X Nat)
  BY <1>1 DEF IInv, PhaseOK, BytesOK
<1> QED BY <1>1, <1>3, <1>5, <1>6, HandledStay, QueueStays DEF IInv, WellFormed

(* Every iteration of every loop keeps the invariant. *)
LEMMA StepInv == IInv /\ [Next]_vars => IInv'
<1>1. ASSUME IInv, UNCHANGED vars PROVE IInv'
  <2>1. UNCHANGED <<image, items, autoq, funcs, pc, cursor, pending, visited, probable,
                    skipped, entry, main, sawSetup, processed>>
    BY <1>1 DEF vars
  <2>2. TypeOK' /\ BytesOK' /\ skipped' \in Seq(Nat \X Nat) /\ PhaseOK' /\ WellFormed(items)'
    BY <1>1, <2>1 DEF IInv, TypeOK, BytesOK, PhaseOK, WellFormed
  <2> QED BY <1>1, <2>1, <2>2, HandledStay, QueueStays DEF IInv
<1>2. ASSUME IInv, Next PROVE IInv'
  BY <1>2, ScanStringKeeps, StartCodeKeeps, DropRowKeeps, CreateRowKeeps, DeferRowKeeps,
     DrainedKeeps, ScanFunctionKeeps, FunctionsScannedKeeps, SkipDataKeeps,
     AddFunctionsKeeps, RefineMainKeeps, ScanGapKeeps, FinishKeeps, ApplyNamesKeeps
  DEF Next
<1> QED BY <1>1, <1>2

(***************************************************************************)
(* In every reachable state the types are right, the stack holds what is   *)
(* pushed and not popped, items are well-formed and popped rows are        *)
(* handled.                                                                *)
(***************************************************************************)
THEOREM PassInvariant == Spec => []IInv
<1> QED BY InitInv, StepInv, PTL DEF Spec

(* The pass follows and names only addresses of the segment. *)
THEOREM StaysInSegment == Spec => []TypeOK
<1>1. IInv => TypeOK
  BY DEF IInv
<1> QED BY <1>1, PassInvariant, PTL

(* No address is pushed or processed twice, and none is lost (enqueue_code). *)
THEOREM HandlesOnce == Spec => []EachAddressOnce
<1>1. IInv => EachAddressOnce
  BY DEF IInv, QueueOK, Queue, EachAddressOnce
<1> QED BY <1>1, PassInvariant, PTL

(***************************************************************************)
(* Strings, rows and gap data never overlap and never leave the segment    *)
(* (create_strings, create_reachable_row, create_data_range).              *)
(***************************************************************************)
THEOREM ItemsApart == Spec => []ItemsWellFormed
<1>1. IInv => ItemsWellFormed
  BY DEF IInv, ItemsWellFormed
<1> QED BY <1>1, PassInvariant, PTL

(***************************************************************************)
(* Reached code is never filled with data (create_skipped_data,            *)
(* create_jump_gap_data).                                                  *)
(***************************************************************************)
THEOREM ReachedNotFilled == Spec => []ReachedIsNotFill
<1>1. IInv => ReachedIsNotFill
  <2> SUFFICES ASSUME IInv, pc = "done" PROVE \A c \in visited : Handled(c)
    BY DEF ReachedIsNotFill, Handled
  <2>1. pending = <<>>
    BY DEF IInv, PhaseOK
  <2>2. visited = processed
    <3>1. ToSet(pending) \cup processed = visited
      BY DEF IInv, QueueOK, Queue
    <3>2. ToSet(pending) = {}
      BY <2>1 DEF ToSet
    <3> QED BY <3>1, <3>2
  <2> QED BY <2>2 DEF IInv
<1> QED BY <1>1, PassInvariant, PTL

-----------------------------------------------------------------------------
(* Strings *)

(* A string that the search has to find. *)
Due(a, b) == IsCString(text, a, b) /\ Readable(text, a) /\ ~InTheWay(a, b)

(***************************************************************************)
(* Between two steps of the search: its items are strings behind the       *)
(* cursor, no string that is due reaches from before the cursor to behind  *)
(* it, and those that are behind it as a whole were found.                 *)
(***************************************************************************)
StringsInv ==
    /\ text \in [Cell -> ByteClasses]
    /\ pc = "strings" =>
        /\ \A i \in items : i.kind = "string" =>
            IsCString(text, i.at, i.at + i.len - 1) /\ i.at + i.len <= cursor
        /\ \A a \in SegStart .. cursor - 1 : \A b \in cursor .. SegEnd - 1 : ~Due(a, b)
        /\ \A a \in SegStart .. cursor - 1 : \A b \in a .. cursor - 1 : Due(a, b) =>
            /\ Begins(text, a) => Found(a, b)
            /\ \E s \in SegStart .. a : Found(s, b)

(***************************************************************************)
(* The window at a cell: the bytes up to the end of the segment, at most   *)
(* as many as the longest string and its terminator (likely_c_string).     *)
(***************************************************************************)
LEMMA WindowAt ==
    ASSUME text \in [Cell -> ByteClasses], NEW c \in Cell,
           NEW w, w = Window(text, c, SegEnd)
    PROVE  /\ Len(w) \in Nat /\ DOMAIN w = 1 .. Len(w)
           /\ c + Len(w) <= SegEnd /\ Len(w) <= STRING_MAX_BYTES + 1
           /\ \A j \in Int : j <= SegEnd - c /\ j <= STRING_MAX_BYTES + 1 => j <= Len(w)
           /\ \A k \in 1 .. Len(w) : w[k] = text[c + k - 1] /\ w[k] \in ByteClasses
<1> DEFINE n == Min({SegEnd - c, STRING_SCAN_BYTES})
<1>1. c \in Int /\ SegStart <= c /\ SegEnd - c \in Nat /\ SegEnd \in Int /\ SegStart \in Int
  BY CellsAreAddresses, SegmentAssumption DEF Cell
<1>2. STRING_SCAN_BYTES = STRING_MAX_BYTES + 1 /\ STRING_MAX_BYTES \in Nat
  BY StringLimitsAssumption DEF STRING_SCAN_BYTES
<1>3. n \in {SegEnd - c, STRING_SCAN_BYTES} /\ n <= SegEnd - c /\ n <= STRING_SCAN_BYTES
  <2>1. SegEnd - c \in Int /\ STRING_SCAN_BYTES \in Int
    BY <1>1, <1>2
  <2> QED BY <2>1, MinMaxPair
<1>4. w = [k \in 1 .. n |-> text[c + k - 1]]
  BY DEF Window
<1> HIDE DEF n
<1>5. n \in Nat
  BY <1>1, <1>2, <1>3
<1>6. DOMAIN w = 1 .. n /\ Len(w) = n
  BY <1>4, <1>5
<1>7. \A k \in 1 .. n : w[k] = text[c + k - 1] /\ c + k - 1 \in Cell
  BY <1>1, <1>3, <1>4, <1>5 DEF Cell
<1>8. \A k \in 1 .. n : w[k] \in ByteClasses
  BY <1>7
<1> QED BY <1>1, <1>2, <1>3, <1>5, <1>6, <1>7, <1>8

(* The terminator closest to the start decides where the loop stops. *)
LEMMA CountedAt ==
    ASSUME NEW w, Len(w) \in Nat, DOMAIN w = 1 .. Len(w)
    PROVE  /\ CountedBytes(w) \in Nat
           /\ CountedBytes(w) <= STRING_MAX_BYTES /\ CountedBytes(w) <= Len(w)
           /\ \A n \in Nat :
                /\ n <= STRING_MAX_BYTES /\ n < Len(w) /\ w[n + 1] = "nul"
                /\ \A k \in 1 .. n : w[k] # "nul"
                => CountedBytes(w) = n
<1> DEFINE stops == {STRING_MAX_BYTES, Len(w)} \cup {k - 1 : k \in {j \in DOMAIN w : w[j] = "nul"}}
<1>1. STRING_MAX_BYTES \in Nat
  BY StringLimitsAssumption
<1>2. stops \in SUBSET Nat /\ stops # {}
  BY <1>1
<1>3. CountedBytes(w) = Min(stops)
  BY DEF CountedBytes
<1>4. \A x \in stops : \/ x = STRING_MAX_BYTES \/ x = Len(w)
                       \/ x + 1 \in 1 .. Len(w) /\ w[x + 1] = "nul"
  <2> SUFFICES ASSUME NEW x \in {k - 1 : k \in {j \in DOMAIN w : w[j] = "nul"}}
               PROVE  x + 1 \in 1 .. Len(w) /\ w[x + 1] = "nul"
    OBVIOUS
  <2>1. PICK k \in 1 .. Len(w) : w[k] = "nul" /\ x = k - 1
    OBVIOUS
  <2>2. x + 1 = k
    BY <2>1
  <2> QED BY <2>1, <2>2
<1>5. STRING_MAX_BYTES \in stops /\ Len(w) \in stops
  OBVIOUS
<1>6. \A n \in Nat : n < Len(w) /\ w[n + 1] = "nul" => n \in stops
  <2> SUFFICES ASSUME NEW n \in Nat, n < Len(w), w[n + 1] = "nul" PROVE n \in stops
    OBVIOUS
  <2>1. n + 1 \in DOMAIN w /\ n = (n + 1) - 1
    OBVIOUS
  <2> QED BY <2>1
<1> HIDE DEF stops
<1>7. Min(stops) \in stops /\ \A x \in stops : Min(stops) <= x
  BY <1>2, LeastOfNats
<1>8. CountedBytes(w) \in Nat /\ CountedBytes(w) <= STRING_MAX_BYTES /\ CountedBytes(w) <= Len(w)
  BY <1>2, <1>3, <1>5, <1>7
<1>9. ASSUME NEW n \in Nat, n <= STRING_MAX_BYTES, n < Len(w), w[n + 1] = "nul",
             \A k \in 1 .. n : w[k] # "nul"
      PROVE  CountedBytes(w) = n
  <2>1. Min(stops) <= n
    BY <1>6, <1>7, <1>9
  <2>2. \A x \in stops : n <= x
    <3>1. ASSUME NEW x \in stops, ~(n <= x) PROVE FALSE
      <4>1. x \in Nat
        BY <1>2
      <4>2. x < n
        BY <3>1, <4>1
      <4>3. x # STRING_MAX_BYTES /\ x # Len(w)
        <5>1. n \in Nat /\ n <= STRING_MAX_BYTES /\ n < Len(w)
          BY <1>9
        <5>2. x < STRING_MAX_BYTES
          BY <1>1, <4>1, <4>2, <5>1
        <5>3. x < Len(w)
          BY <4>1, <4>2, <5>1
        <5>4. \A y, z \in Nat : y < z => y # z
          OBVIOUS
        <5> QED BY <1>1, <4>1, <5>2, <5>3, <5>4, Zenon
      <4>4. x + 1 \in 1 .. Len(w) /\ w[x + 1] = "nul"
        BY <1>4, <4>3
      <4>5. x + 1 \in 1 .. n
        BY <4>1, <4>2
      <4> QED BY <1>9, <4>4, <4>5
    <3> QED BY <3>1
  <2>3. Min(stops) \in Nat /\ n <= Min(stops)
    BY <1>2, <1>7, <2>2
  <2>4. Min(stops) = n
    BY <2>1, <2>3
  <2> QED BY <1>3, <2>4
<1> QED BY <1>8, <1>9
(* The bytes that are counted are the text that is looked at. *)
LEMMA SameText ==
    ASSUME text \in [Cell -> ByteClasses], NEW c \in Cell,
           NEW w, w = Window(text, c, SegEnd), NEW n \in Nat, n <= Len(w)
    PROVE  SubSeq(w, 1, n) = [k \in 1 .. (c + n) - c |-> text[c + k - 1]]
<1>1. /\ Len(w) \in Nat /\ DOMAIN w = 1 .. Len(w)
      /\ \A k \in 1 .. Len(w) : w[k] = text[c + k - 1] /\ w[k] \in ByteClasses
  BY WindowAt
<1>2. (c + n) - c = n /\ c \in Nat
  BY CellsAreAddresses
<1>3. w \in Seq(ByteClasses)
  <2>1. w = [k \in 1 .. Min({SegEnd - c, STRING_SCAN_BYTES}) |-> text[c + k - 1]]
    BY DEF Window
  <2>2. w = [k \in 1 .. Len(w) |-> w[k]]
    BY <1>1, <2>1
  <2> QED BY <1>1, <2>2, IsASeq
<1>4. SubSeq(w, 1, n) = [k \in 1 .. n |-> w[k]]
  <2>1. \A k \in 1 .. n : k \in 1 .. Len(w)
    BY <1>1
  <2> QED BY <1>1, <1>3, <2>1
<1>5. [k \in 1 .. n |-> w[k]] = [k \in 1 .. n |-> text[c + k - 1]]
  BY <1>1
<1> QED BY <1>2, <1>4, <1>5

(* A string that the search finds is one (likely_c_string). *)
LEMMA FoundIsString ==
    ASSUME text \in [Cell -> ByteClasses], NEW c \in Cell,
           NEW len, len = StringLength(text, c, SegEnd), len > 0
    PROVE  /\ len \in Nat /\ c + len < SegEnd
           /\ IsCString(text, c, c + len)
           /\ StringEnd(c, len) = c + len + 1
<1> DEFINE w == Window(text, c, SegEnd)
<1>1. /\ Len(w) \in Nat /\ DOMAIN w = 1 .. Len(w) /\ c + Len(w) <= SegEnd
      /\ \A k \in 1 .. Len(w) : w[k] = text[c + k - 1] /\ w[k] \in ByteClasses
  BY WindowAt
<1>2. len \in Nat /\ len # 0
  BY StringSizes
<1>3. len = likely_c_string(w) /\ len = CountedBytes(w)
  BY <1>2 DEF StringLength, likely_c_string
<1>4. /\ \A k \in 1 .. len : is_strlit_char(w[k])
      /\ len >= MIN_LENGTH
      /\ len < Len(w) /\ w[len + 1] = "nul"
      /\ LooksLikeText(SubSeq(w, 1, len))
  <2>1. CountedBytes(w) # 0 /\ likely_c_string(w) # 0
    BY <1>2, <1>3
  <2> HIDE DEF w
  <2> QED BY <1>3, <2>1 DEF likely_c_string
<1>5. len <= STRING_MAX_BYTES
  BY <1>1, <1>3, CountedAt
<1>6. SubSeq(w, 1, len) = [k \in 1 .. (c + len) - c |-> text[c + k - 1]]
  <2>1. len <= Len(w)
    BY <1>1, <1>2, <1>4
  <2> QED BY <1>2, <2>1, SameText
<1> HIDE DEF w
<1>7. c \in Nat /\ SegEnd \in Nat
  BY CellsAreAddresses, SegmentAssumption
<1>8. c + len < SegEnd
  BY <1>1, <1>2, <1>4, <1>7
<1>9. Terminated(text, c, c + len)
  <2>1. text[c + len] = "nul"
    <3>1. len + 1 \in 1 .. Len(w) /\ c + (len + 1) - 1 = c + len
      BY <1>1, <1>2, <1>4, <1>7
    <3> QED BY <1>1, <1>4, <3>1
  <2>2. ASSUME NEW k \in c .. (c + len) - 1 PROVE is_strlit_char(text[k])
    <3>1. k - c + 1 \in 1 .. len /\ k - c + 1 \in 1 .. Len(w) /\ c + (k - c + 1) - 1 = k
      BY <1>1, <1>2, <1>4, <1>7
    <3> QED BY <1>1, <1>4, <3>1
  <2> QED BY <2>1, <2>2 DEF Terminated
<1>10. (c + len) - c \in MIN_LENGTH .. STRING_MAX_BYTES
  BY <1>2, <1>4, <1>5, <1>7, StringLimitsAssumption
<1>11. IsCString(text, c, c + len)
  BY <1>4, <1>6, <1>9, <1>10 DEF IsCString
<1>12. StringEnd(c, len) = c + len + 1
  <2>1. c + len + 1 \in Int /\ c + len + 1 <= SegEnd /\ SegEnd \in Int
    BY <1>2, <1>7, <1>8
  <2>2. StringEnd(c, len) \in {SegEnd, c + len + 1} /\ StringEnd(c, len) <= c + len + 1
    BY <2>1, MinMaxPair DEF StringEnd
  <2> QED BY <2>1, <2>2
<1> QED BY <1>2, <1>8, <1>11, <1>12

(***************************************************************************)
(* A string that is due and starts at the cursor has the length that       *)
(* likely_c_string returns, and nothing is in its place.                   *)
(***************************************************************************)
LEMMA DueIsFound ==
    ASSUME text \in [Cell -> ByteClasses], items \subseteq Items,
           NEW c \in Cell, NEW b \in c .. SegEnd - 1, Due(c, b),
           \A i \in items : i.kind = "string" => i.at + i.len <= c
    PROVE  /\ StringLength(text, c, SegEnd) = b - c /\ b - c > 0
           /\ Free(c, b + 1)
<1> DEFINE w == Window(text, c, SegEnd)
           n == b - c
<1>1. /\ Len(w) \in Nat /\ DOMAIN w = 1 .. Len(w) /\ c + Len(w) <= SegEnd
      /\ Len(w) <= STRING_MAX_BYTES + 1
      /\ \A j \in Int : j <= SegEnd - c /\ j <= STRING_MAX_BYTES + 1 => j <= Len(w)
      /\ \A k \in 1 .. Len(w) : w[k] = text[c + k - 1] /\ w[k] \in ByteClasses
  BY WindowAt
<1>2. c \in Nat /\ SegEnd \in Nat /\ SegStart \in Nat /\ SegStart <= c
      /\ STRING_MAX_BYTES \in Nat /\ MIN_LENGTH \in Nat /\ MIN_LENGTH > 0
  BY CellsAreAddresses, SegmentAssumption, StringLimitsAssumption DEF Cell
<1>3. /\ n \in Nat /\ n >= MIN_LENGTH /\ n <= STRING_MAX_BYTES
      /\ n + 1 <= SegEnd - c /\ c + n = b
  BY <1>2 DEF Due, IsCString
<1>4. SubSeq(w, 1, n) = [k \in 1 .. b - c |-> text[c + k - 1]] /\ n + 1 <= Len(w)
  <2>1. n + 1 <= Len(w) /\ n <= Len(w)
    <3> HIDE DEF n, w
    <3>1. n + 1 \in Int /\ n + 1 <= STRING_MAX_BYTES + 1
      BY <1>2, <1>3
    <3>2. n + 1 <= Len(w)
      BY <1>1, <1>3, <3>1
    <3> QED BY <1>1, <1>3, <3>2
  <2>2. (c + n) - c = b - c
    BY <1>2, <1>3
  <2>3. SubSeq(w, 1, n) = [k \in 1 .. (c + n) - c |-> text[c + k - 1]]
    <3> HIDE DEF n
    <3> QED BY <1>3, <2>1, SameText
  <2> QED BY <2>1, <2>2, <2>3
<1>5. LooksLikeText(SubSeq(w, 1, n))
  BY <1>4 DEF Due, IsCString
<1>6. ~\E k \in DOMAIN w : w[k] = "unloaded"
  <2> SUFFICES ASSUME NEW k \in 1 .. Len(w) PROVE w[k] # "unloaded"
    BY <1>1
  <2>1. c + k - 1 \in c .. c + STRING_MAX_BYTES /\ c + k - 1 \in Cell
    BY <1>1, <1>2 DEF Cell
  <2>2. DOMAIN text = Cell /\ Readable(text, c)
    BY DEF Due
  <2> QED BY <1>1, <2>1, <2>2 DEF Readable
<1>7. w[n + 1] = "nul" /\ \A k \in 1 .. n : is_strlit_char(w[k])
  <2>1. text[b] = "nul" /\ \A k \in c .. b - 1 : is_strlit_char(text[k])
    BY DEF Due, IsCString, Terminated
  <2>2. n + 1 \in 1 .. Len(w) /\ c + (n + 1) - 1 = b
    BY <1>1, <1>2, <1>3, <1>4
  <2>3. w[n + 1] = "nul"
    <3> HIDE DEF w, n
    <3> QED BY <1>1, <2>1, <2>2
  <2>4. ASSUME NEW k \in 1 .. n PROVE is_strlit_char(w[k])
    <3>1. k \in 1 .. Len(w) /\ c + k - 1 \in c .. b - 1
      BY <1>1, <1>2, <1>3, <1>4
    <3> QED BY <1>1, <2>1, <3>1
  <2> QED BY <2>3, <2>4
<1>8. CountedBytes(w) = n
  <2>1. \A k \in 1 .. n : w[k] # "nul"
    BY <1>7 DEF is_strlit_char
  <2>2. n <= STRING_MAX_BYTES /\ n < Len(w)
    BY <1>1, <1>3, <1>4
  <2> HIDE DEF w, n
  <2> QED BY <1>1, <1>3, <1>7, <2>1, <2>2, CountedAt
<1>9. StringLength(text, c, SegEnd) = n
  <2>1. n >= MIN_LENGTH /\ n < Len(w)
    BY <1>1, <1>3, <1>4
  <2>2. likely_c_string(w) = n
    <3> HIDE DEF w, n
    <3> QED BY <1>5, <1>7, <1>8, <2>1 DEF likely_c_string
  <2> QED BY <1>6, <2>2 DEF StringLength
<1>10. Free(c, b + 1)
  <2> SUFFICES ASSUME NEW x \in c .. (b + 1) - 1, NEW i \in items, Covers(i, x) PROVE FALSE
    BY DEF Free, IsUnknown
  <2>1. x \in c .. b
    BY <1>2, <1>3
  <2>2. i.kind = "string"
    BY <2>1 DEF Due, InTheWay
  <2>3. i.at \in Nat /\ i.len \in Nat
    BY CellsAreAddresses DEF Items
  <2> QED BY <1>2, <2>1, <2>2, <2>3 DEF Covers
<1> QED BY <1>2, <1>3, <1>9, <1>10

(* A text with its terminator at b has no terminator before. *)
LEMMA NoNulInside ==
    ASSUME NEW a, NEW b, IsCString(text, a, b)
    PROVE  /\ text[b] = "nul" /\ b - a \in MIN_LENGTH .. STRING_MAX_BYTES
           /\ \A k \in a .. b - 1 : text[k] # "nul" /\ is_strlit_char(text[k])
BY DEF IsCString, Terminated, is_strlit_char

(* One step of the search finds what is due at the cursor (create_strings).*)
LEMMA ScanStringFinds == IInv /\ StringsInv /\ ScanString => StringsInv'
<1> SUFFICES ASSUME IInv, StringsInv, ScanString PROVE StringsInv'
  OBVIOUS
<1> PICK c : c = cursor
  OBVIOUS
<1> DEFINE len == StringLength(text, c, SegEnd)
           end == StringEnd(c, len)
<1>1. /\ c \in Cell /\ c \in Nat /\ SegStart \in Nat /\ SegEnd \in Nat /\ SegStart <= c /\ c < SegEnd
      /\ items \subseteq Items /\ pc = "strings" /\ pc' = "strings" /\ text' = text
      /\ text \in [Cell -> ByteClasses] /\ MIN_LENGTH \in Nat /\ MIN_LENGTH > 0
  BY SegmentAssumption, StringLimitsAssumption
  DEF IInv, TypeOK, PhaseOK, ScanString, Cell, StringsInv, bytes
<1>2. /\ \A i \in items : i.kind = "string" =>
            IsCString(text, i.at, i.at + i.len - 1) /\ i.at + i.len <= c
      /\ \A a \in SegStart .. c - 1 : \A b \in c .. SegEnd - 1 : ~Due(a, b)
      /\ \A a \in SegStart .. c - 1 : \A b \in a .. c - 1 : Due(a, b) =>
            /\ Begins(text, a) => Found(a, b)
            /\ \E s \in SegStart .. a : Found(s, b)
  BY <1>1 DEF StringsInv
<1>3. CASE len > 0 /\ Free(c, end)
  <2> DEFINE n == Item(c, end, "string")
  <2> PICK z : z = c + len
    OBVIOUS
  <2>1. items' = items \cup {n} /\ cursor' = z + 1
    BY <1>3 DEF ScanString
  <2>2. /\ len \in Nat /\ z < SegEnd /\ IsCString(text, c, z) /\ end = z + 1
    BY <1>1, <1>3, FoundIsString
  <2>3. n.kind = "string" /\ n.at = c /\ n.len = end - c /\ n = Item(c, z + 1, "string")
    BY <2>2 DEF Item
  <2> HIDE DEF len, end, n
  <2>4. z \in Nat /\ c < z /\ n.at + n.len = z + 1 /\ n.at + n.len - 1 = z
    BY <1>1, <1>3, <2>2, <2>3
  <2>5. /\ text[z] = "nul" /\ \A k \in c .. z - 1 : text[k] # "nul" /\ is_strlit_char(text[k])
    BY <2>2, NoNulInside
  <2>6. \A a, b : Due(a, b)' <=> Due(a, b)
    BY <1>1, <2>1, <2>3 DEF Due, InTheWay, Covers
  <2>7. \A a, b : Found(a, b) => Found(a, b)'
    BY <2>1 DEF Found
  <2>8. Found(c, z)'
    BY <2>1, <2>3 DEF Found
  <2>9. \A i \in items' : i.kind = "string" =>
            IsCString(text, i.at, i.at + i.len - 1) /\ i.at + i.len <= z + 1
    <3> SUFFICES ASSUME NEW i \in items', i.kind = "string"
                 PROVE  IsCString(text, i.at, i.at + i.len - 1) /\ i.at + i.len <= z + 1
      OBVIOUS
    <3>1. CASE i = n
      BY <2>2, <2>3, <2>4, <3>1
    <3>2. CASE i \in items
      <4>1. i.at \in Nat /\ i.len \in Nat
        BY <1>1, <3>2, CellsAreAddresses DEF Items
      <4>2. IsCString(text, i.at, i.at + i.len - 1) /\ i.at + i.len <= c
        BY <1>2, <3>2
      <4> QED BY <1>1, <2>4, <4>1, <4>2
    <3> QED BY <2>1, <3>1, <3>2
  <2>10. ASSUME NEW a \in SegStart .. z, NEW b \in z + 1 .. SegEnd - 1, Due(a, b) PROVE FALSE
    <3>1. CASE a < c
      <4>1. a \in SegStart .. c - 1 /\ b \in c .. SegEnd - 1
        BY <1>1, <2>4, <3>1
      <4> QED BY <1>2, <2>10, <4>1
    <3>2. CASE c <= a
      <4>1. z \in a .. b - 1
        BY <1>1, <2>4, <3>2
      <4>2. \A k \in a .. b - 1 : text[k] # "nul"
        BY <2>10, NoNulInside DEF Due
      <4> QED BY <2>5, <4>1, <4>2
    <3> QED BY <1>1, <2>4, <3>1, <3>2
  <2>11. ASSUME NEW a \in SegStart .. z, NEW b \in a .. z, Due(a, b)
         PROVE  /\ Begins(text, a) => Found(a, b)'
                /\ \E s \in SegStart .. a : Found(s, b)'
    <3>1. CASE b < c
      <4>1. a \in SegStart .. c - 1 /\ b \in a .. c - 1
        BY <1>1, <2>4, <3>1
      <4> QED BY <1>2, <2>7, <2>11, <4>1
    <3>2. CASE c <= b /\ a < c
      <4>1. a \in SegStart .. c - 1 /\ b \in c .. SegEnd - 1
        BY <1>1, <2>2, <2>4, <3>2
      <4> QED BY <1>2, <2>11, <4>1
    <3>3. CASE c <= a
      <4>1. text[b] = "nul"
        BY <2>11, NoNulInside DEF Due
      <4>2. b = z
        <5>1. b \notin c .. z - 1
          BY <2>5, <4>1
        <5> QED BY <1>1, <2>4, <3>3, <5>1
      <4>3. c \in SegStart .. a
        BY <1>1, <2>4, <3>3
      <4>4. Begins(text, a) => a = c
        <5> SUFFICES ASSUME a # c PROVE ~Begins(text, a)
          OBVIOUS
        <5>1. b - a \in MIN_LENGTH .. STRING_MAX_BYTES
          BY <2>11, NoNulInside DEF Due
        <5>2. a - 1 \in c .. z - 1
          BY <1>1, <2>4, <3>3
        <5>3. a - 1 \in DOMAIN text
          BY <1>1, <2>2, <2>4, <5>2 DEF Cell
        <5> QED BY <2>5, <5>2, <5>3 DEF Begins
      <4> QED BY <2>8, <4>2, <4>3, <4>4
    <3>4. b < c \/ (c <= b /\ a < c) \/ c <= a
      BY <1>1, <2>4
    <3> QED BY <3>1, <3>2, <3>3, <3>4
  <2>12. (z + 1) - 1 = z
    BY <2>4
  <2> QED BY <1>1, <2>1, <2>6, <2>9, <2>10, <2>11, <2>12 DEF StringsInv
<1>4. CASE ~(len > 0 /\ Free(c, end))
  <2>1. items' = items /\ cursor' = c + 1
    BY <1>4 DEF ScanString
  <2>2. \A b \in c .. SegEnd - 1 : ~Due(c, b)
    <3> SUFFICES ASSUME NEW b \in c .. SegEnd - 1, Due(c, b) PROVE FALSE
      OBVIOUS
    <3>1. len = b - c /\ b - c > 0 /\ Free(c, b + 1)
      BY <1>1, <1>2, DueIsFound
    <3>2. end = c + len + 1
      BY <1>1, <3>1, FoundIsString
    <3> HIDE DEF len, end
    <3>3. c + len + 1 = b + 1
      BY <1>1, <3>1
    <3> QED BY <1>4, <3>1, <3>2, <3>3
  <2> HIDE DEF len, end
  <2>3. /\ \A a, b : Due(a, b)' <=> Due(a, b)
        /\ \A a, b : Found(a, b)' <=> Found(a, b)
    BY <1>1, <2>1 DEF Due, InTheWay, Covers, Found
  <2>4. \A i \in items : i.kind = "string" =>
            IsCString(text, i.at, i.at + i.len - 1) /\ i.at + i.len <= c + 1
    <3> SUFFICES ASSUME NEW i \in items, i.kind = "string" PROVE i.at + i.len <= c + 1
      BY <1>2
    <3>1. i.at \in Nat /\ i.len \in Nat /\ i.at + i.len <= c
      BY <1>1, <1>2, CellsAreAddresses DEF Items
    <3> QED BY <1>1, <3>1
  <2>5. ASSUME NEW a \in SegStart .. c, NEW b \in c + 1 .. SegEnd - 1 PROVE ~Due(a, b)
    <3>1. b \in c .. SegEnd - 1
      BY <1>1
    <3>2. a = c \/ a \in SegStart .. c - 1
      BY <1>1
    <3> QED BY <1>2, <2>2, <3>1, <3>2
  <2>6. ASSUME NEW a \in SegStart .. c, NEW b \in a .. c, Due(a, b)
        PROVE  a \in SegStart .. c - 1 /\ b \in a .. c - 1
    <3>1. b \in c .. SegEnd - 1 => ~Due(a, b)
      <4>1. a = c \/ a \in SegStart .. c - 1
        BY <1>1
      <4> QED BY <1>2, <2>2, <4>1
    <3>2. b # c
      BY <1>1, <2>6, <3>1
    <3> QED BY <1>1, <3>2
  <2>7. (c + 1) - 1 = c
    BY <1>1
  <2> QED BY <1>1, <1>2, <2>1, <2>3, <2>4, <2>5, <2>6, <2>7 DEF StringsInv
<1> QED BY <1>3, <1>4
(* Nothing has been searched yet, and items of earlier analyses are no     *)
(* strings of this search.                                                 *)
LEMMA StringsInit == Init => StringsInv
<1> SUFFICES ASSUME Init PROVE StringsInv
  OBVIOUS
<1>1. text \in [Cell -> ByteClasses]
  BY ContentsAssumption DEF Init
<1>2. \A i \in items : i.kind # "string"
  BY OldItemsAssumption DEF Init
<1>3. cursor = SegStart /\ SegStart .. SegStart - 1 = {}
  BY SegmentAssumption DEF Init
<1> QED BY <1>1, <1>2, <1>3 DEF StringsInv

(* The search is one loop, and nothing comes back to it. *)
LEMMA StringsStep == IInv /\ StringsInv /\ [Next]_vars => StringsInv'
<1> SUFFICES ASSUME IInv, StringsInv, [Next]_vars PROVE StringsInv'
  OBVIOUS
<1>1. CASE ScanString
  BY <1>1, ScanStringFinds
<1>2. CASE UNCHANGED vars
  <2>1. UNCHANGED <<text, items, pc, cursor>>
    BY <1>2 DEF vars
  <2> QED BY <2>1 DEF StringsInv, Due, InTheWay, Covers, Found
<1>3. ASSUME Next, ~ScanString PROVE text' = text /\ pc' # "strings"
  <2>1. CASE StartCode \/ Drained \/ FunctionsScanned \/ Finish \/ ApplyNames
    BY <2>1 DEF StartCode, Drained, FunctionsScanned, Finish, ApplyNames, bytes
  <2>2. CASE DropRow \/ CreateRow \/ DeferRow
    BY <2>2 DEF DropRow, CreateRow, DeferRow, Pop, bytes
  <2>3. CASE ScanFunction \/ SkipData
    BY <2>3 DEF ScanFunction, SkipData, bytes
  <2>4. CASE AddFunctions
    BY <2>4 DEF AddFunctions, bytes
  <2>5. CASE RefineMain
    BY <2>5 DEF RefineMain, EndRefine, bytes
  <2>6. CASE ScanGap
    BY <2>6 DEF ScanGap, bytes
  <2> QED BY <1>3, <2>1, <2>2, <2>3, <2>4, <2>5, <2>6 DEF Next
<1>4. CASE Next /\ ~ScanString
  BY <1>3, <1>4 DEF StringsInv
<1> QED BY <1>1, <1>2, <1>4

(***************************************************************************)
(* The search for strings makes an item of every string that nothing is in *)
(* the way of and that no hole follows, and of nothing else                *)
(* (create_strings, likely_c_string).                                      *)
(***************************************************************************)
THEOREM EveryStringFound == Spec => []StringsFound
<1>1. IInv /\ StringsInv => StringsFound
  BY DEF StringsInv, StringsFound, Due
<1> QED BY <1>1, InitInv, StepInv, StringsInit, StringsStep, PTL DEF Spec
=============================================================================
