--------------------------- MODULE RawImageProofs ---------------------------
(***************************************************************************)
(* What the loader keeps true for every input, however the other loaders   *)
(* and the file system change it, and whatever the slots of a bundle do.   *)
(***************************************************************************)
EXTENDS RawImage, FiniteSetTheorems, SequenceTheorems, WellFoundedInduction, TLAPS

Taking == {"segment", "bytes", "entry", "loaded"}

\* The file is one that the detector may look at.
Raw == ~file.container /\ can_sample

\* A reference was only counted in a bundle of the sample, and the sample is the
\* beginning of the file.
FromFile ==
  /\ phase \in {"score", "scan"} => Raw /\ (sample.bundles # <<>> => file.bundles # <<>>)
  /\ phase \in {"score", "scan"} /\ scan.hits # 0 => sample.bundles # <<>>

\* A verdict that accepts is about the file as it is now.
VerdictHolds ==
  (phase = "judged" /\ verdict.accepted) \/ phase \in Taking =>
    Raw /\ verdict.accepted /\ file.bundles # <<>>

\* The database is filled in the order of load_file.
FilledInOrder ==
  /\ phase \in Taking => db.processor
  /\ phase \in Taking \ {"segment"} => \E s \in db.segment : s.start = verdict.runtime_base
  /\ phase \in {"entry", "loaded"} => db.bytes = file.bundles
  /\ db.entry # 0 => phase = "loaded" /\ db.entry = verdict.runtime_base

Fields ==
  /\ file \in Input
  /\ {"cursor", "slot", "decoded", "total", "tracker", "hits"} \subseteq DOMAIN scan
  /\ {"processor", "segment", "bytes", "entry"} \subseteq DOMAIN db

IInv == Fields /\ FromFile /\ VerdictHolds /\ FilledInOrder

-----------------------------------------------------------------------------

\* Nothing can be sampled from a file without bundles (sample_size, qlread).
LEMMA NoBundles ==
  ASSUME NEW f, NEW got \in Int, f.bundles = <<>>
  PROVE  Taken(f, 0, got).bundles = <<>>
<1> DEFINE last == Min({Len(f.bundles), ((0 + 7) \div 8) + got \div 8})
<1>1. Len(f.bundles) = 0 /\ (0 + 7) \div 8 = 0
  BY SMT
<1>2. got \div 8 \in Int
  BY SMT
<1>3. last \in Int /\ last <= 0
  <2>1. {Len(f.bundles), ((0 + 7) \div 8) + got \div 8} = {0, got \div 8}
    BY <1>1, <1>2
  <2>2. \E x \in {0, got \div 8} : \A y \in {0, got \div 8} : x <= y
    BY <1>2
  <2>3. last \in {0, got \div 8} /\ \A y \in {0, got \div 8} : last <= y
    BY <2>1, <2>2 DEF Min
  <2>4. QED
    BY <1>2, <2>3
<1>4. SubSeq(<<>>, 1, last) = <<>>
  BY <1>3
<1>5. QED
  BY <1>1, <1>4 DEF Taken

\* What is read of a file is a number of bytes (sample_size).
LEMMA GotInt ==
  ASSUME file \in Input, NEW got \in Got(sample_size)
  PROVE  got \in Int
<1>1. file.size \in Int /\ SAMPLE_MAX \in Int
  BY SizesAssumption DEF Input
<1>2. \E x \in {file.size, SAMPLE_MAX} : \A y \in {file.size, SAMPLE_MAX} : x <= y
  BY <1>1
<1>3. sample_size \in {file.size, SAMPLE_MAX}
  BY <1>2 DEF sample_size, Min
<1>4. sample_size \in Int
  BY <1>1, <1>3
<1>5. QED
  BY <1>4 DEF Got

\* How many bundles a number of bytes holds.
LEMMA WholeBundles ==
  /\ \A n \in Nat : 8 * n + 4 \in Nat /\ (8 * n + 4) \div 8 = n
  /\ \A n \in Nat \ {0} : (n - 1) * 8 \in Nat /\ ((n - 1) * 8) \div 8 = n - 1
BY SMT

\* What a file becomes by a change is a file.
LEMMA ChangedFile ==
  ASSUME file \in Input, FileChanges
  PROVE  file' \in Input
<1>1. CASE file' \in Rewrites
  BY <1>1, FilesAssumption
<1> SUFFICES ASSUME file.bundles # <<>>, file' \in Spoiled(file)
             PROVE  file' \in Input
  BY <1>1 DEF FileChanges
<1>2. file.bundles \in Seq(Bundle) /\ Len(file.bundles) \in Nat \ {0}
  BY DEF Input
<1>3. CASE file' = Empty
  <2>1. Empty \in [container : BOOLEAN, size : Nat, bundles : Seq(Bundle)]
    BY DEF Empty
  <2>2. Empty.size \div 8 = Len(Empty.bundles)
    BY DEF Empty
  <2>3. QED
    BY <1>3, <2>1, <2>2 DEF Input
<1>4. CASE file' = [file EXCEPT !.size = 8 * Len(file.bundles) + 4]
  <2>1. 8 * Len(file.bundles) + 4 \in Nat /\ (8 * Len(file.bundles) + 4) \div 8 = Len(file.bundles)
    BY <1>2, WholeBundles
  <2>2. QED
    BY <1>4, <2>1 DEF Input
<1>5. CASE file' = [file EXCEPT !.size = (Len(file.bundles) - 1) * 8, !.bundles = Front(@)]
  <2>1. /\ (Len(file.bundles) - 1) * 8 \in Nat
        /\ ((Len(file.bundles) - 1) * 8) \div 8 = Len(file.bundles) - 1
    BY <1>2, WholeBundles
  <2>2. Front(file.bundles) \in Seq(Bundle) /\ Len(Front(file.bundles)) = Len(file.bundles) - 1
    BY <1>2 DEF Front
  <2>3. QED
    BY <1>5, <2>1, <2>2 DEF Input
<1>6. CASE file' = [file EXCEPT !.bundles = [@ EXCEPT ![1] = [decodes |-> FALSE, slots |-> <<>>]]]
  <2>1. [decodes |-> FALSE, slots |-> <<>>] \in Bundle
    BY DEF Bundle
  <2>2. /\ [file.bundles EXCEPT ![1] = [decodes |-> FALSE, slots |-> <<>>]] \in Seq(Bundle)
        /\ Len([file.bundles EXCEPT ![1] = [decodes |-> FALSE, slots |-> <<>>]]) = Len(file.bundles)
    BY <1>2, <2>1
  <2>3. QED
    BY <1>6, <2>2 DEF Input
<1>7. CASE file' = [file EXCEPT !.container = TRUE]
  BY <1>7 DEF Input
<1>8. QED
  BY <1>3, <1>4, <1>5, <1>6, <1>7 DEF Spoiled

\* Judging a file begins with what may be sampled of it (evaluate).
LEMMA EvaluateInv ==
  ASSUME IInv, NEW who, Evaluate(who), UNCHANGED <<file, db>>, phase = "idle"
  PROVE  IInv'
<1>1. scan' = ScanStart /\ verdict' = Rejected /\ phase' \in {"judged", "score"}
  BY DEF Evaluate
<1>2. scan'.hits = 0 /\ ~verdict'.accepted
  BY <1>1 DEF ScanStart, Rejected
<1>3. Fields'
  BY <1>1 DEF IInv, Fields, ScanStart
<1>4. FromFile'
  <2> SUFFICES ASSUME phase' = "score"
               PROVE  Raw' /\ (sample'.bundles # <<>> => file'.bundles # <<>>)
    BY <1>1, <1>2 DEF FromFile
  <2>1. PICK got \in Got(sample_size) :
          /\ can_sample
          /\ sample' = Taken(file, ReadFrom(pos), got)
          /\ ~sample'.container
    BY DEF Evaluate
  <2>2. sample' = Taken(file, 0, got)
    BY <2>1 DEF ReadFrom
  <2>3. ~file.container
    <3>1. sample'.container = (file.container /\ 0 = 0)
      BY <2>2 DEF Taken
    <3>2. QED
      BY <2>1, <3>1, Zenon
  <2>4. Raw'
    BY <2>1, <2>3 DEF Raw, can_sample
  <2>5. got \in Int
    BY <2>1, GotInt DEF IInv, Fields
  <2>6. file.bundles = <<>> => sample'.bundles = <<>>
    BY <2>2, <2>5, NoBundles
  <2>7. QED
    BY <2>4, <2>6
<1>5. VerdictHolds'
  BY <1>1, <1>2 DEF VerdictHolds, Taking
<1>6. FilledInOrder'
  BY <1>1 DEF IInv, FilledInOrder, Taking
<1>7. QED
  BY <1>3, <1>4, <1>5, <1>6 DEF IInv

\* The invariant holds for a new database (Init).
LEMMA InitInv == Init => IInv
<1> SUFFICES ASSUME Init PROVE IInv
  OBVIOUS
<1>1. Fields
  BY FilesAssumption DEF Init, Fields, ScanStart, EmptyDb
<1>2. FromFile /\ VerdictHolds
  BY DEF Init, FromFile, VerdictHolds, Taking
<1>3. FilledInOrder
  BY DEF Init, FilledInOrder, Taking, EmptyDb
<1>4. QED
  BY <1>1, <1>2, <1>3 DEF IInv

\* Every step of the handlers and of their surroundings keeps the invariant
\* (accept_file, load_file, tg_detect_raw_tilegx).
LEMMA StepInv == IInv /\ [Next]_vars => IInv'
<1> SUFFICES ASSUME IInv, [Next]_vars PROVE IInv'
  OBVIOUS
<1> USE DEF IInv
<1>1. CASE AcceptFile
  BY <1>1, EvaluateInv DEF AcceptFile
<1>2. CASE FinishAccept
  BY <1>2 DEF FinishAccept, Fields, FromFile, VerdictHolds, FilledInOrder, Taking
<1>3. CASE LoadFile
  <2>1. CASE Evaluate("load") /\ UNCHANGED <<file, db>>
    BY <1>3, <2>1, EvaluateInv DEF LoadFile
  <2>2. CASE phase' = "failed" /\ UNCHANGED <<file, scan, db>>
    BY <1>3, <2>2 DEF LoadFile, Fields, FromFile, VerdictHolds, FilledInOrder, Taking
  <2>3. QED
    BY <1>3, <2>1, <2>2 DEF LoadFile
<1>4. CASE ScoreBundle
  <2>1. scan'.hits = scan.hits /\ DOMAIN scan' = DOMAIN scan
    BY <1>4 DEF ScoreBundle, Fields
  <2>2. phase' \in {"score", "scan"} /\ phase = "score"
    BY <1>4 DEF ScoreBundle
  <2>3. UNCHANGED <<file, sample, verdict, db>>
    BY <1>4 DEF ScoreBundle
  <2>4. Fields'
    BY <2>1, <2>3 DEF Fields
  <2>5. FromFile'
    BY <2>1, <2>2, <2>3 DEF FromFile, Raw, can_sample
  <2>6. VerdictHolds' /\ FilledInOrder'
    BY <2>2, <2>3 DEF VerdictHolds, FilledInOrder, Taking
  <2>7. QED
    BY <2>4, <2>5, <2>6
<1>5. CASE ScanUndecoded \/ ScanSlot \/ NextBundle
  <2>1. Scanning /\ DOMAIN scan' = DOMAIN scan
    BY <1>5 DEF ScanUndecoded, ScanSlot, NextBundle
  <2>2. phase' = "scan" /\ phase = "scan" /\ UNCHANGED <<file, sample, verdict, db>>
    BY <2>1 DEF Scanning
  <2>3. sample.bundles # <<>>
    <3> SUFFICES ASSUME sample.bundles = <<>> PROVE FALSE
      OBVIOUS
    <3>1. scan.cursor \in 1..Min({0, SCAN_MAX \div 8})
      BY <2>1 DEF Scanning, Within, Reach
    <3>2. SCAN_MAX \div 8 \in Int
      BY SizesAssumption
    <3>3. \E x \in {0, SCAN_MAX \div 8} : \A y \in {0, SCAN_MAX \div 8} : x <= y
      BY <3>2
    <3>4. Min({0, SCAN_MAX \div 8}) <= 0 /\ Min({0, SCAN_MAX \div 8}) \in {0, SCAN_MAX \div 8}
      BY <3>3 DEF Min
    <3>5. QED
      BY <3>1, <3>2, <3>4
  <2>4. Fields'
    BY <2>1, <2>2 DEF Fields
  <2>5. FromFile'
    BY <2>2, <2>3 DEF FromFile, Raw, can_sample
  <2>6. VerdictHolds' /\ FilledInOrder'
    BY <2>2 DEF VerdictHolds, FilledInOrder, Taking
  <2>7. QED
    BY <2>4, <2>5, <2>6
<1>6. CASE Judge
  <2>1. phase = "scan" /\ phase' = "judged" /\ UNCHANGED <<file, sample, scan, db>>
    BY <1>6 DEF Judge
  <2>2. verdict'.accepted => scan.hits >= 2
    BY <1>6 DEF Judge
  <2>3. scan.hits = 0 => ~(scan.hits >= 2)
    OBVIOUS
  <2>4. verdict'.accepted => file.bundles # <<>>
    BY <2>1, <2>2, <2>3 DEF FromFile
  <2>5. Raw' /\ (verdict'.accepted => file'.bundles # <<>>)
    BY <2>1, <2>4 DEF FromFile, Raw, can_sample
  <2>6. VerdictHolds'
    BY <2>1, <2>5 DEF VerdictHolds, Taking
  <2>7. Fields' /\ FromFile' /\ FilledInOrder'
    BY <2>1 DEF Fields, FromFile, FilledInOrder, Taking
  <2>8. QED
    BY <2>6, <2>7
<1>7. CASE SelectProcessor
  <2>1. UNCHANGED <<file, sample, scan, verdict>> /\ phase = "judged"
    BY <1>7 DEF SelectProcessor
  <2>2. CASE StillAccepted /\ db' = [db EXCEPT !.processor = TRUE] /\ phase' = "segment"
    BY <2>1, <2>2 DEF StillAccepted, Fields, FromFile, VerdictHolds, FilledInOrder, Taking, Raw, can_sample
  <2>3. CASE Fail
    BY <2>1, <2>3 DEF Fail, Fields, FromFile, VerdictHolds, FilledInOrder, Taking
  <2>4. QED
    BY <1>7, <2>2, <2>3 DEF SelectProcessor
<1>8. CASE CreateSegment
  <2>1. UNCHANGED <<file, sample, scan, verdict>> /\ phase = "segment"
    BY <1>8 DEF CreateSegment
  <2>2. CASE db' = [db EXCEPT !.segment = {RomSegment}] /\ phase' = "bytes"
    <3>1. RomSegment \in db'.segment /\ RomSegment.start = verdict.runtime_base
      BY <2>2 DEF Fields, RomSegment
    <3>2. /\ db'.entry = db.entry /\ db'.processor = db.processor
          /\ DOMAIN db' = DOMAIN db
      BY <2>2 DEF Fields
    <3>3. FilledInOrder'
      BY <2>1, <2>2, <3>1, <3>2 DEF FilledInOrder, Taking
    <3>4. QED
      BY <2>1, <2>2, <3>2, <3>3 DEF Fields, FromFile, VerdictHolds, Taking, Raw, can_sample
  <2>3. CASE Fail
    BY <2>1, <2>3 DEF Fail, Fields, FromFile, VerdictHolds, FilledInOrder, Taking
  <2>4. QED
    BY <1>8, <2>2, <2>3 DEF CreateSegment
<1>9. CASE LoadBytes
  <2>1. UNCHANGED <<file, sample, scan, verdict>> /\ phase = "bytes"
    BY <1>9 DEF LoadBytes
  <2>2. CASE db' = [db EXCEPT !.bytes = file.bundles] /\ phase' = "entry"
    BY <2>1, <2>2 DEF Fields, FromFile, VerdictHolds, FilledInOrder, Taking, Raw, can_sample
  <2>3. CASE Fail
    BY <2>1, <2>3 DEF Fail, Fields, FromFile, VerdictHolds, FilledInOrder, Taking
  <2>4. QED
    BY <1>9, <2>2, <2>3 DEF LoadBytes
<1>10. CASE MarkEntry
  BY <1>10 DEF MarkEntry, Fields, FromFile, VerdictHolds, FilledInOrder, Taking, Raw, can_sample
<1>11. CASE OtherLoader
  BY <1>11 DEF OtherLoader, Fields, FromFile, VerdictHolds, FilledInOrder, Taking
<1>12. CASE FileChanges
  <2>1. phase = "idle" /\ phase' = "idle" /\ UNCHANGED <<scan, verdict, db>>
    BY <1>12 DEF FileChanges
  <2>2. file' \in Input
    BY <1>12, ChangedFile DEF Fields
  <2>3. QED
    BY <2>1, <2>2 DEF Fields, FromFile, VerdictHolds, FilledInOrder, Taking
<1>13. CASE UNCHANGED vars
  BY <1>13 DEF vars, Fields, FromFile, VerdictHolds, FilledInOrder, Taking, Raw, can_sample
<1>14. CASE Done
  BY <1>13, <1>14 DEF Done
<1>15. QED
  BY <1>1, <1>2, <1>3, <1>4, <1>5, <1>6, <1>7, <1>8, <1>9, <1>10, <1>11, <1>12, <1>13, <1>14
     DEF Next

\* In every reachable state an accepting verdict is about the file as it is, and the
\* database is filled in the order of load_file.
THEOREM LoadInvariant == Spec => []IInv
<1>1. QED
  BY InitInv, StepInv, PTL DEF Spec

\* For every input and every change of it between the handlers, only a raw file of a
\* fitting size gets a segment (accept_file, load_file).
THEOREM TakesRawOnly == Spec => []NeverTakesOthers
<1>1. IInv => NeverTakesOthers
  BY DEF IInv, VerdictHolds, NeverTakesOthers, Taking, Raw, can_sample
<1>2. QED
  BY <1>1, LoadInvariant, PTL

\* For every input and every failure, an entry is only marked in a database that has
\* the processor, the segment and the bytes (load_file).
THEOREM EntryOverCode == Spec => []NoEntryWithoutCode
<1>1. IInv => NoEntryWithoutCode
  BY DEF IInv, VerdictHolds, FilledInOrder, NoEntryWithoutCode, Taking
<1>2. QED
  BY <1>1, LoadInvariant, PTL
-----------------------------------------------------------------------------
(* Numbers *)

\* A nonempty set of naturals has a least element.
LEMMA LeastNat ==
  ASSUME NEW S \in SUBSET Nat, S # {}
  PROVE  \E x \in S : \A y \in S : x <= y
<1>1. \E x \in S : \A y \in S : ~(<<y, x>> \in OpToRel(<, Nat))
  BY NatLessThanWellFounded, WFMin, Zenon
<1>2. \A x, y \in Nat : y < x => <<y, x>> \in OpToRel(<, Nat)
  BY Zenon DEF OpToRel
<1>3. \E x \in S : \A y \in S : ~(y < x)
  BY <1>1, <1>2, Zenon
<1>4. QED
  BY <1>3

\* Max is the element that no other exceeds.
LEMMA MaxIs ==
  ASSUME NEW S \in SUBSET Int, NEW x \in S, \A y \in S : y <= x
  PROVE  Max(S) = x
<1>1. \A z \in S : (\A y \in S : z >= y) => z = x
  <2> TAKE z \in S
  <2> HAVE \A y \in S : z >= y
  <2>1. z >= x /\ z <= x /\ z \in Int /\ x \in Int
    OBVIOUS
  <2>2. QED
    BY <2>1
<1>2. \A y \in S : x >= y
  OBVIOUS
<1>3. QED
  BY <1>1, <1>2, Zenon DEF Max

\* A nonempty set of naturals below a bound has a largest element.
LEMMA MaxBelow ==
  ASSUME NEW S \in SUBSET Nat, S # {}, NEW b \in Nat, \A x \in S : x <= b
  PROVE  Max(S) \in S /\ \A x \in S : x <= Max(S)
<1> DEFINE D == {b - x : x \in S}
<1>1. D \in SUBSET Nat /\ D # {}
  <2>1. \A x \in S : b - x \in Nat
    OBVIOUS
  <2>2. QED
    BY <2>1
<1>2. \A y \in S : b - y \in D
  OBVIOUS
<1>3. \A d \in D : \E x \in S : d = b - x
  OBVIOUS
<1> HIDE DEF D
<1>4. PICK d \in D : \A e \in D : d <= e
  BY <1>1, LeastNat
<1>5. PICK x \in S : d = b - x
  BY <1>3
<1>6. \A y \in S : y <= x
  <2> TAKE y \in S
  <2>1. d <= b - y
    BY <1>2, <1>4
  <2>2. QED
    BY <1>5, <2>1
<1>7. Max(S) = x
  BY <1>6, MaxIs
<1>8. QED
  BY <1>6, <1>7

\* The smaller of two integers.
LEMMA MinPair ==
  ASSUME NEW a \in Int, NEW b \in Int
  PROVE  Min({a, b}) \in {a, b} /\ Min({a, b}) <= a /\ Min({a, b}) <= b
<1>1. \E x \in {a, b} : \A y \in {a, b} : x <= y
  OBVIOUS
<1>2. QED
  BY <1>1 DEF Min

-----------------------------------------------------------------------------
(* The entries of the bundles *)

Entry == Slot \cup {Barrier}

\* A barrier is no slot.
LEMMA BarrierIsNoSlot == Barrier \notin Slot
<1>1. ASSUME Barrier \in Slot PROVE FALSE
  <2>1. DOMAIN Barrier = {"dst", "src", "scale", "imm", "tracked", "shows"}
    BY <1>1 DEF Slot
  <2>2. DOMAIN Barrier = {"barrier"}
    BY DEF Barrier
  <2>3. "barrier" \in {"dst", "src", "scale", "imm", "tracked", "shows"}
    BY <2>1, <2>2
  <2>4. QED
    BY <2>3
<1>2. QED
  BY <1>1

\* A bundle has its slots or one barrier.
LEMMA EntriesType ==
  ASSUME NEW bundle \in Bundle
  PROVE  Entries(bundle) \in Seq(Entry)
<1>1. CASE bundle.decodes
  <2>1. bundle.slots \in Seq(Slot)
    BY DEF Bundle
  <2>2. QED
    BY <1>1, <2>1 DEF Entries, Entry
<1>2. CASE ~bundle.decodes
  <2>1. <<Barrier>> \in Seq(Entry)
    BY DEF Entry
  <2>2. QED
    BY <1>2, <2>1 DEF Entries
<1>3. QED
  BY <1>1, <1>2

\* The recursion of Flats: element k of f holds the entries of the first k bundles.
IsFlats(f, bundles, m) ==
  f = [k \in 0..m |-> IF k = 0 THEN <<>> ELSE f[k - 1] \o Entries(bundles[k])]

\* Such a function exists.
LEMMA FlatsExist ==
  ASSUME NEW bundles, NEW n \in Nat
  PROVE  \E f : IsFlats(f, bundles, n)
<1> DEFINE Bad == {m \in Nat : ~\E f : IsFlats(f, bundles, m)}
<1> SUFFICES ASSUME Bad # {} PROVE FALSE
  OBVIOUS
<1>1. PICK m \in Bad : \A k \in Bad : m <= k
  BY LeastNat, Bad \in SUBSET Nat
<1>2. m # 0
  <2> DEFINE f == [k \in 0..0 |-> <<>>]
  <2>1. f = [k \in 0..0 |-> IF k = 0 THEN <<>> ELSE f[k - 1] \o Entries(bundles[k])]
    OBVIOUS
  <2>2. IsFlats(f, bundles, 0)
    BY <2>1, Zenon DEF IsFlats
  <2>3. QED
    BY <1>1, <2>2
<1>3. PICK f : IsFlats(f, bundles, m - 1)
  <2>1. m - 1 \in Nat /\ ~(m <= m - 1)
    BY <1>1, <1>2
  <2>2. QED
    BY <1>1, <2>1
<1> DEFINE Round(s, k) == s \o Entries(bundles[k])
           g == [k \in 0..m |-> IF k = m THEN Round(f[m - 1], m) ELSE f[k]]
<1>4. m \in Nat \ {0}
  BY <1>1, <1>2
<1>5. \A k \in 0..(m - 1) : f[k] = IF k = 0 THEN <<>> ELSE Round(f[k - 1], k)
  <2>1. f = [k \in 0..(m - 1) |-> IF k = 0 THEN <<>> ELSE Round(f[k - 1], k)]
    BY <1>3 DEF IsFlats
  <2> HIDE DEF Round
  <2>2. QED
    BY <2>1, Zenon
<1> HIDE DEF Round
<1>6. \A k \in 0..(m - 1) : g[k] = f[k]
  BY <1>4
<1>7. g[m] = Round(f[m - 1], m)
  BY <1>4
<1>8. ASSUME NEW k \in 0..m
      PROVE  g[k] = IF k = 0 THEN <<>> ELSE Round(g[k - 1], k)
  <2> HIDE DEF g
  <2>1. CASE k = m
    <3>1. g[m - 1] = f[m - 1]
      BY <1>4, <1>6
    <3>2. QED
      BY <1>4, <1>7, <2>1, <3>1
  <2>2. CASE k # m
    <3>1. k \in 0..(m - 1)
      BY <1>4, <2>2
    <3>2. k # 0 => k - 1 \in 0..(m - 1)
      BY <3>1
    <3>3. QED
      BY <1>5, <1>6, <3>1, <3>2
  <2>3. QED
    BY <2>1, <2>2
<1>9. g = [k \in 0..m |-> IF k = 0 THEN <<>> ELSE Round(g[k - 1], k)]
  BY <1>8, Zenon
<1>10. IsFlats(g, bundles, m)
  BY <1>9, Zenon DEF IsFlats, Round
<1>11. QED
  BY <1>1, <1>10

\* One bundle after the other.
LEMMA FlatsStep ==
  ASSUME NEW bundles, Len(bundles) \in Nat
  PROVE  /\ Flats(bundles)[0] = <<>>
         /\ \A k \in 1..Len(bundles) :
              Flats(bundles)[k] = Flats(bundles)[k - 1] \o Entries(bundles[k])
<1> DEFINE f == CHOOSE g : IsFlats(g, bundles, Len(bundles))
<1>1. Flats(bundles) = f
  BY DEF Flats, IsFlats
<1>2. IsFlats(f, bundles, Len(bundles))
  BY FlatsExist, Zenon
<1> HIDE DEF f
<1>3. \A k \in 0..Len(bundles) : f[k] = IF k = 0 THEN <<>> ELSE f[k - 1] \o Entries(bundles[k])
  BY <1>2, Zenon DEF IsFlats
<1>4. 0 \in 0..Len(bundles) /\ \A k \in 1..Len(bundles) : k \in 0..Len(bundles) /\ k # 0
  OBVIOUS
<1>5. QED
  BY <1>1, <1>3, <1>4, Zenon

\* The entries of the first bundles are a sequence of slots and barriers.
LEMMA FlatsType ==
  ASSUME NEW bundles \in Seq(Bundle)
  PROVE  \A k \in 0..Len(bundles) :
           Flats(bundles)[k] \in Seq(Entry) /\ Len(Flats(bundles)[k]) \in Nat
<1> DEFINE F == Flats(bundles)
           Bad == {k \in Nat : k <= Len(bundles) /\ F[k] \notin Seq(Entry)}
<1>1. Len(bundles) \in Nat /\ \A k \in 1..Len(bundles) : bundles[k] \in Bundle
  OBVIOUS
<1>2. F[0] = <<>> /\ \A k \in 1..Len(bundles) : F[k] = F[k - 1] \o Entries(bundles[k])
  BY <1>1, FlatsStep
<1> HIDE DEF F
<1>3. Bad = {}
  <2> SUFFICES ASSUME Bad # {} PROVE FALSE
    OBVIOUS
  <2>1. PICK k \in Bad : \A i \in Bad : k <= i
    BY LeastNat, Bad \in SUBSET Nat
  <2>2. k # 0
    <3>1. F[0] \in Seq(Entry)
      BY <1>2
    <3>2. QED
      BY <2>1, <3>1
  <2>3. k \in 1..Len(bundles) /\ k - 1 \in Nat /\ k - 1 <= Len(bundles) /\ ~(k <= k - 1)
    BY <1>1, <2>1, <2>2
  <2>4. F[k - 1] \in Seq(Entry)
    BY <2>1, <2>3
  <2>5. Entries(bundles[k]) \in Seq(Entry)
    BY <1>1, <2>3, EntriesType
  <2>6. F[k] \in Seq(Entry)
    BY <1>2, <2>3, <2>4, <2>5, ConcatProperties
  <2>7. QED
    BY <2>1, <2>6
<1>4. \A k \in 0..Len(bundles) : k \in Nat /\ k <= Len(bundles)
  BY <1>1
<1>5. \A k \in 0..Len(bundles) : F[k] \in Seq(Entry)
  BY <1>3, <1>4
<1>6. QED
  BY <1>5 DEF F

\* A bundle's entries come behind those of the bundles before it.
LEMMA OneMoreBundle ==
  ASSUME NEW bundles \in Seq(Bundle), NEW k \in 1..Len(bundles)
  PROVE  LET F == Flats(bundles)
             E == Entries(bundles[k])
         IN  /\ Len(E) \in Nat /\ Len(F[k - 1]) \in Nat
             /\ Len(F[k]) = Len(F[k - 1]) + Len(E)
             /\ \A i \in 1..Len(F[k - 1]) : F[k][i] = F[k - 1][i]
             /\ \A j \in 1..Len(E) : F[k][Len(F[k - 1]) + j] = E[j]
<1> DEFINE F == Flats(bundles)
           E == Entries(bundles[k])
           a == Len(F[k - 1])
<1>1. Len(bundles) \in Nat /\ bundles[k] \in Bundle /\ k - 1 \in 0..Len(bundles)
  OBVIOUS
<1>2. F[k] = F[k - 1] \o E
  BY <1>1, FlatsStep
<1>3. F[k - 1] \in Seq(Entry) /\ a \in Nat
  BY <1>1, FlatsType
<1>4. E \in Seq(Entry) /\ Len(E) \in Nat
  BY <1>1, EntriesType
<1> HIDE DEF F, E
<1>5. /\ Len(F[k]) = a + Len(E)
      /\ \A i \in 1..(a + Len(E)) : F[k][i] = IF i <= a THEN F[k - 1][i] ELSE E[i - a]
  BY <1>2, <1>3, <1>4, ConcatProperties
<1>6. \A i \in 1..a : i \in 1..(a + Len(E)) /\ i <= a
  BY <1>3, <1>4
<1>7. \A j \in 1..Len(E) : a + j \in 1..(a + Len(E)) /\ ~(a + j <= a) /\ (a + j) - a = j
  BY <1>3, <1>4
<1>8. \A j \in 1..Len(E) : F[k][a + j] = E[j]
  BY <1>5, <1>7
<1>9. \A i \in 1..a : F[k][i] = F[k - 1][i]
  BY <1>5, <1>6
<1>10. QED
  BY <1>3, <1>4, <1>5, <1>8, <1>9 DEF F, E

\* More bundles do not change the entries of the first ones.
LEMMA FlatsPrefix ==
  ASSUME NEW bundles \in Seq(Bundle), NEW k \in 0..Len(bundles), NEW n \in k..Len(bundles)
  PROVE  LET F == Flats(bundles)
         IN  /\ Len(F[k]) <= Len(F[n])
             /\ \A i \in 1..Len(F[k]) : F[n][i] = F[k][i]
<1> DEFINE F == Flats(bundles)
           Kept(m) == Len(F[k]) <= Len(F[m]) /\ \A i \in 1..Len(F[k]) : F[m][i] = F[k][i]
           Bad == {m \in Nat : m \in k..Len(bundles) /\ ~Kept(m)}
<1>1. Len(bundles) \in Nat /\ k \in Nat /\ \A m \in 0..Len(bundles) : Len(F[m]) \in Nat
  BY FlatsType
<1>2. ASSUME NEW m \in 1..Len(bundles)
      PROVE  Len(F[m - 1]) <= Len(F[m]) /\ \A i \in 1..Len(F[m - 1]) : F[m][i] = F[m - 1][i]
  <2>1. /\ Len(Entries(bundles[m])) \in Nat /\ Len(F[m - 1]) \in Nat
        /\ Len(F[m]) = Len(F[m - 1]) + Len(Entries(bundles[m]))
        /\ \A i \in 1..Len(F[m - 1]) : F[m][i] = F[m - 1][i]
    BY OneMoreBundle
  <2> HIDE DEF F
  <2>2. \A x, y, z \in Nat : z = x + y => x <= z
    OBVIOUS
  <2>3. Len(F[m - 1]) <= Len(F[m])
    <3>1. m \in 0..Len(bundles)
      BY <1>1
    <3>2. Len(F[m]) \in Nat
      BY <1>1, <3>1
    <3>3. QED
      BY <2>1, <2>2, <3>2, Zenon
  <2>4. QED
    BY <2>1, <2>3
<1> HIDE DEF F
<1>3. Bad = {}
  <2> SUFFICES ASSUME Bad # {} PROVE FALSE
    OBVIOUS
  <2>1. PICK m \in Bad : \A i \in Bad : m <= i
    BY LeastNat, Bad \in SUBSET Nat
  <2>2. m # k
    <3>1. Kept(k)
      BY <1>1
    <3> HIDE DEF Kept
    <3>2. QED
      BY <2>1, <3>1
  <2> HIDE DEF Kept
  <2>3. /\ m \in 1..Len(bundles) /\ m - 1 \in Nat /\ m - 1 \in k..Len(bundles) /\ ~(m <= m - 1)
        /\ m \in 0..Len(bundles) /\ m - 1 \in 0..Len(bundles)
    BY <1>1, <2>1, <2>2
  <2>4. Kept(m - 1)
    BY <2>1, <2>3
  <2>5. Kept(m)
    <3>1. Len(F[m]) \in Nat /\ Len(F[m - 1]) \in Nat /\ Len(F[k]) \in Nat
      BY <1>1, <2>3
    <3>2. Len(F[m - 1]) <= Len(F[m]) /\ \A i \in 1..Len(F[m - 1]) : F[m][i] = F[m - 1][i]
      BY <1>2, <2>3
    <3>3. QED
      BY <2>4, <3>1, <3>2 DEF Kept
  <2>6. QED
    BY <2>1, <2>5
<1>4. n \in Nat
  BY <1>1
<1>5. Kept(n)
  <2> HIDE DEF Kept
  <2>1. QED
    BY <1>3, <1>4
<1>6. QED
  BY <1>5 DEF F

\* Where the entries of a bundle are among those of all that are looked at.
LEMMA EntryAt ==
  ASSUME NEW bundles \in Seq(Bundle), NEW n \in 0..Len(bundles), NEW k \in 1..n
  PROVE  LET F == Flats(bundles)
             E == Entries(bundles[k])
         IN  /\ Len(E) \in Nat /\ Len(F[k - 1]) \in Nat /\ Len(F[n]) \in Nat
             /\ Len(F[k]) = Len(F[k - 1]) + Len(E)
             /\ Len(F[k - 1]) + Len(E) <= Len(F[n])
             /\ \A j \in 1..Len(E) : F[n][Len(F[k - 1]) + j] = E[j]
<1> DEFINE F == Flats(bundles)
           E == Entries(bundles[k])
<1>1. /\ Len(bundles) \in Nat /\ k \in 1..Len(bundles) /\ k \in 0..Len(bundles)
      /\ n \in k..Len(bundles)
  OBVIOUS
<1>2. /\ Len(E) \in Nat /\ Len(F[k - 1]) \in Nat
      /\ Len(F[k]) = Len(F[k - 1]) + Len(E)
      /\ \A j \in 1..Len(E) : F[k][Len(F[k - 1]) + j] = E[j]
  BY <1>1, OneMoreBundle
<1>3. /\ Len(F[k]) <= Len(F[n])
      /\ \A i \in 1..Len(F[k]) : F[n][i] = F[k][i]
  BY <1>1, FlatsPrefix
<1>4. Len(F[n]) \in Nat
  BY FlatsType
<1> HIDE DEF F, E
<1>5. \A j \in 1..Len(E) : Len(F[k - 1]) + j \in 1..Len(F[k])
  BY <1>2
<1>6. \A j \in 1..Len(E) : F[n][Len(F[k - 1]) + j] = E[j]
  BY <1>2, <1>3, <1>5
<1>7. QED
  BY <1>2, <1>3, <1>4, <1>6 DEF F, E
-----------------------------------------------------------------------------
(* The values of the entries *)

\* The last entry before the next one that decides about a register.
LEMMA DefinitionNext ==
  ASSUME NEW flat, NEW n \in Nat, NEW r
  PROVE  /\ Definition(flat, n, r) \in Nat
         /\ n # 0 => Definition(flat, n, r) < n
         /\ Definition(flat, 1, r) = 0
         /\ n # 0 => Definition(flat, n + 1, r) =
                       IF Defines(flat[n], r) THEN n ELSE Definition(flat, n, r)
<1> DEFINE Before(m) == {0} \cup {i \in 1..(m - 1) : Defines(flat[i], r)}
<1>1. \A m \in Nat : Before(m) \in SUBSET Nat /\ 0 \in Before(m)
  OBVIOUS
<1>2. \A m \in Nat : m # 0 => \A x \in Before(m) : x <= m - 1
  OBVIOUS
<1>3. Before(1) = {0}
  OBVIOUS
<1>4. n # 0 => Before(n + 1) = IF Defines(flat[n], r) THEN Before(n) \cup {n} ELSE Before(n)
  <2> SUFFICES ASSUME n # 0
               PROVE  Before(n + 1) = IF Defines(flat[n], r) THEN Before(n) \cup {n} ELSE Before(n)
    OBVIOUS
  <2>1. \A i : i \in 1..((n + 1) - 1) <=> i \in 1..(n - 1) \/ i = n
    OBVIOUS
  <2>2. CASE Defines(flat[n], r)
    BY <2>1, <2>2
  <2>3. CASE ~Defines(flat[n], r)
    BY <2>1, <2>3
  <2>4. QED
    BY <2>2, <2>3
<1>5. \A m \in Nat : Definition(flat, m, r) = Max(Before(m))
  BY DEF Definition
<1>6. Before(0) \in SUBSET Nat /\ \A x \in Before(0) : x <= 0
  OBVIOUS
<1> HIDE DEF Before
<1>7. n # 0 => Max(Before(n)) \in Before(n) /\ \A x \in Before(n) : x <= Max(Before(n))
  <2> SUFFICES ASSUME n # 0 PROVE Max(Before(n)) \in Before(n) /\ \A x \in Before(n) : x <= Max(Before(n))
    OBVIOUS
  <2>1. n - 1 \in Nat /\ Before(n) \in SUBSET Nat /\ Before(n) # {} /\ \A x \in Before(n) : x <= n - 1
    BY <1>1, <1>2
  <2>2. QED
    BY <2>1, MaxBelow
<1>8. Definition(flat, 1, r) = 0
  <2>1. 0 \in {0} /\ {0} \in SUBSET Int /\ \A y \in {0} : y <= 0
    OBVIOUS
  <2>2. Max({0}) = 0
    BY <2>1, MaxIs
  <2>3. QED
    BY <1>3, <1>5, <2>2
<1>9. Definition(flat, n, r) \in Nat /\ (n # 0 => Definition(flat, n, r) < n)
  <2>1. CASE n = 0
    <3>1. Max(Before(0)) \in Before(0)
      BY <1>1, <1>6, MaxBelow
    <3>2. QED
      BY <1>1, <1>5, <2>1, <3>1
  <2>2. CASE n # 0
    <3>1. Max(Before(n)) \in Nat /\ Max(Before(n)) <= n - 1
      BY <1>1, <1>2, <1>7, <2>2
    <3>2. QED
      BY <1>5, <2>2, <3>1
  <2>3. QED
    BY <2>1, <2>2
<1>10. n # 0 => Definition(flat, n + 1, r) =
                  IF Defines(flat[n], r) THEN n ELSE Definition(flat, n, r)
  <2> SUFFICES ASSUME n # 0
               PROVE  Definition(flat, n + 1, r) =
                        IF Defines(flat[n], r) THEN n ELSE Definition(flat, n, r)
    OBVIOUS
  <2>1. n + 1 \in Nat /\ Definition(flat, n + 1, r) = Max(Before(n + 1))
    BY <1>5
  <2>2. CASE Defines(flat[n], r)
    <3>1. Before(n + 1) = Before(n) \cup {n}
      BY <1>4, <2>2
    <3>2. /\ n \in Before(n + 1) /\ Before(n + 1) \in SUBSET Int
          /\ \A y \in Before(n + 1) : y <= n
      BY <1>1, <1>2, <3>1
    <3>3. Max(Before(n + 1)) = n
      BY <3>2, MaxIs
    <3>4. QED
      BY <2>1, <2>2, <3>3
  <2>3. CASE ~Defines(flat[n], r)
    <3>1. Before(n + 1) = Before(n)
      BY <1>4, <2>3
    <3>2. QED
      BY <1>5, <2>1, <2>3, <3>1
  <2>4. QED
    BY <2>2, <2>3
<1>11. QED
  BY <1>8, <1>9, <1>10

\* An entry takes its value from entries before it.
LEMMA ValueOfBefore ==
  ASSUME NEW flat, NEW n \in Nat, NEW v, NEW w, \A i \in 0..(n - 1) : v[i] = w[i]
  PROVE  ValueOf(flat, n, v) = ValueOf(flat, n, w)
<1>1. CASE n = 0
  BY <1>1 DEF ValueOf
<1>2. CASE n # 0
  <2> DEFINE d == Definition(flat, n, flat[n].src)
  <2>1. d \in Nat /\ d < n
    BY <1>2, DefinitionNext
  <2> HIDE DEF d
  <2>2. v[d] = w[d]
    BY <2>1
  <2>3. QED
    BY <2>2 DEF ValueOf, d
<1>3. QED
  BY <1>1, <1>2

\* The recursion of Values, up to an entry.
IsValues(v, flat, m) == v = [n \in 0..m |-> ValueOf(flat, n, v)]

\* Such a function exists.
LEMMA ValuesExist ==
  ASSUME NEW flat, NEW n \in Nat
  PROVE  \E v : IsValues(v, flat, n)
<1> DEFINE Bad == {m \in Nat : ~\E v : IsValues(v, flat, m)}
<1> SUFFICES ASSUME Bad # {} PROVE FALSE
  OBVIOUS
<1>1. PICK m \in Bad : \A k \in Bad : m <= k
  BY LeastNat, Bad \in SUBSET Nat
<1>2. m # 0
  <2> DEFINE v == [k \in 0..0 |-> Unknown]
  <2>1. \A k \in 0..0 : ValueOf(flat, k, v) = Unknown
    BY DEF ValueOf
  <2> HIDE DEF v
  <2>2. v = [k \in 0..0 |-> ValueOf(flat, k, v)]
    BY <2>1, Zenon DEF v
  <2>3. IsValues(v, flat, 0)
    BY <2>2, Zenon DEF IsValues
  <2>4. QED
    BY <1>1, <2>3
<1>3. PICK v : IsValues(v, flat, m - 1)
  <2>1. m - 1 \in Nat /\ ~(m <= m - 1)
    BY <1>1, <1>2
  <2>2. QED
    BY <1>1, <2>1
<1> DEFINE w == [k \in 0..m |-> IF k = m THEN ValueOf(flat, m, v) ELSE v[k]]
<1>4. m \in Nat \ {0}
  BY <1>1, <1>2
<1>5. \A k \in 0..(m - 1) : v[k] = ValueOf(flat, k, v)
  BY <1>3, Zenon DEF IsValues
<1>6. \A k \in 0..(m - 1) : w[k] = v[k]
  BY <1>4
<1>7. w[m] = ValueOf(flat, m, v)
  BY <1>4
<1>8. ASSUME NEW k \in 0..m
      PROVE  w[k] = ValueOf(flat, k, w)
  <2> HIDE DEF w
  <2>1. k \in Nat /\ \A i \in 0..(k - 1) : v[i] = w[i]
    BY <1>4, <1>6
  <2>2. ValueOf(flat, k, v) = ValueOf(flat, k, w)
    BY <2>1, ValueOfBefore
  <2>3. CASE k = m
    BY <1>7, <2>2, <2>3
  <2>4. CASE k # m
    <3>1. k \in 0..(m - 1)
      BY <1>4, <2>4
    <3>2. QED
      BY <1>5, <1>6, <2>2, <3>1
  <2>5. QED
    BY <2>3, <2>4
<1>9. w = [k \in 0..m |-> ValueOf(flat, k, w)]
  BY <1>8, Zenon
<1>10. IsValues(w, flat, m)
  BY <1>9, Zenon DEF IsValues
<1>11. QED
  BY <1>1, <1>10

\* Every entry has the value that its slot gives.
LEMMA ValuesAre ==
  ASSUME NEW flat, Len(flat) \in Nat
  PROVE  \A n \in 0..Len(flat) : Values(flat)[n] = ValueOf(flat, n, Values(flat))
<1> DEFINE v == CHOOSE w : IsValues(w, flat, Len(flat))
<1>1. Values(flat) = v
  BY DEF Values, IsValues
<1>2. IsValues(v, flat, Len(flat))
  BY ValuesExist, Zenon
<1> HIDE DEF v
<1>3. \A n \in 0..Len(flat) : v[n] = ValueOf(flat, n, v)
  BY <1>2, Zenon DEF IsValues
<1>4. QED
  BY <1>1, <1>3

\* What the registers hold behind the first n entries.
Known(flat, n) == [r \in Regs |-> Values(flat)[Definition(flat, n + 1, r)]]

\* The scan starts without constants.
LEMMA KnownAtStart ==
  ASSUME NEW flat, Len(flat) \in Nat
  PROVE  Known(flat, 0) = NoTracker
<1>1. Values(flat)[0] = Unknown
  <2>1. 0 \in 0..Len(flat)
    OBVIOUS
  <2>2. Values(flat)[0] = ValueOf(flat, 0, Values(flat))
    BY <2>1, ValuesAre
  <2>3. QED
    BY <2>2 DEF ValueOf
<1>2. \A r \in Regs : Definition(flat, 0 + 1, r) = 0
  BY DefinitionNext
<1>3. QED
  BY <1>1, <1>2 DEF Known, NoTracker

\* Behind a bundle that does not decode, nothing is known.
LEMMA KnownBehindBarrier ==
  ASSUME NEW flat, Len(flat) \in Nat, NEW n \in Nat, n + 1 <= Len(flat), flat[n + 1] = Barrier
  PROVE  Known(flat, n + 1) = NoTracker
<1>1. Values(flat)[n + 1] = Unknown
  <2>1. n + 1 \in 0..Len(flat)
    OBVIOUS
  <2>2. Values(flat)[n + 1] = ValueOf(flat, n + 1, Values(flat))
    BY <2>1, ValuesAre
  <2>3. QED
    BY <2>2 DEF ValueOf
<1>2. \A r \in Regs : Definition(flat, (n + 1) + 1, r) = n + 1
  <2> TAKE r \in Regs
  <2>1. Defines(flat[n + 1], r)
    BY DEF Defines
  <2>2. n + 1 \in Nat /\ n + 1 # 0
    OBVIOUS
  <2>3. QED
    BY <2>1, <2>2, DefinitionNext
<1>3. QED
  BY <1>1, <1>2 DEF Known, NoTracker

\* A slot's value is what the tracker computes, and it is known from then on.
LEMMA KnownBehindSlot ==
  ASSUME NEW flat, Len(flat) \in Nat, NEW n \in Nat, n + 1 <= Len(flat), flat[n + 1] \in Slot
  PROVE  /\ Values(flat)[n + 1] = SlotValue(Known(flat, n), flat[n + 1])
         /\ Known(flat, n + 1) =
              [Known(flat, n) EXCEPT ![flat[n + 1].dst] = Values(flat)[n + 1]]
<1> DEFINE s == flat[n + 1]
           V == Values(flat)
<1>1. s # Barrier /\ s.dst \in Regs /\ s.src \in Regs \cup {NoReg}
  BY BarrierIsNoSlot DEF Slot
<1>2. V[n + 1] = ValueOf(flat, n + 1, V)
  <2>1. n + 1 \in 0..Len(flat)
    OBVIOUS
  <2>2. QED
    BY <2>1, ValuesAre
<1>3. n + 1 # 0
  OBVIOUS
<1>4. V[n + 1] = SlotValue(Known(flat, n), s)
  <2>1. s.src # NoReg => Known(flat, n)[s.src] = V[Definition(flat, n + 1, s.src)]
    BY <1>1 DEF Known
  <2>2. QED
    <3> HIDE DEF V, s
    <3>1. ValueOf(flat, n + 1, V) =
            IF ~s.tracked THEN Unknown
            ELSE IF s.src = NoReg THEN s.imm
            ELSE IF V[Definition(flat, n + 1, s.src)] = Unknown THEN Unknown
            ELSE s.scale * V[Definition(flat, n + 1, s.src)] + s.imm
      BY <1>1, <1>3 DEF ValueOf, s
    <3>2. QED
      BY <1>2, <2>1, <3>1, Zenon DEF SlotValue
<1>5. ASSUME NEW r \in Regs
      PROVE  V[Definition(flat, (n + 1) + 1, r)] =
               IF r = s.dst THEN V[n + 1] ELSE V[Definition(flat, n + 1, r)]
  <2>1. Defines(s, r) <=> r = s.dst
    BY <1>1 DEF Defines
  <2>2. n + 1 \in Nat
    OBVIOUS
  <2>3. Definition(flat, (n + 1) + 1, r) =
          IF Defines(s, r) THEN n + 1 ELSE Definition(flat, n + 1, r)
    BY <1>3, <2>2, DefinitionNext
  <2>4. QED
    BY <2>1, <2>3
<1> HIDE DEF s, V
<1>6. Known(flat, n + 1) = [r \in Regs |-> IF r = s.dst THEN V[n + 1] ELSE V[Definition(flat, n + 1, r)]]
  BY <1>5 DEF Known, V
<1>7. [Known(flat, n) EXCEPT ![s.dst] = V[n + 1]] =
        [r \in Regs |-> IF r = s.dst THEN V[n + 1] ELSE V[Definition(flat, n + 1, r)]]
  BY <1>1 DEF Known, V
<1>8. QED
  BY <1>4, <1>6, <1>7 DEF s, V
-----------------------------------------------------------------------------
(* The verdict *)

\* The handlers work on a sample that was taken for them.
Sampled ==
  \/ phase \in {"score", "scan"} \cup Taking
  \/ phase = "judged" /\ verdict.accepted

\* It is the beginning of the file.
SampleOfFile ==
  Sampled =>
    /\ sample.bundles \in Seq(Bundle) /\ sample.size \in Int
    /\ sample.size <= file.size
    /\ Len(sample.bundles) <= Len(file.bundles)
    /\ sample.bundles = SubSeq(file.bundles, 1, Len(sample.bundles))

\* How many of the first n bundles decode.
Decoded(bundles, n) == Cardinality({k \in 1..n : bundles[k].decodes})

\* The first loop counts what it has seen, and hands that on.
ScoreExact ==
  /\ phase \in {"score", "scan"} => Reach(SCORE_MAX) \in Nat \ {0}
  /\ phase = "score" =>
       /\ scan.cursor \in 1..(Reach(SCORE_MAX) + 1)
       /\ scan.slot = 1 /\ scan.tracker = NoTracker /\ scan.hits = 0
       /\ scan.total = scan.cursor - 1 /\ scan.decoded = Decoded(sample.bundles, scan.cursor - 1)
  /\ phase = "scan" =>
       scan.total = Reach(SCORE_MAX) /\ scan.decoded = Decoded(sample.bundles, Reach(SCORE_MAX))

\* The entries that the scan has left behind, and the evidence among the first n.
Behind == Len(Flats(sample.bundles)[scan.cursor - 1]) + scan.slot - 1

Seen(evidence, n) == {m \in evidence : m <= n}

\* The second loop knows the registers at its place, and counts the evidence so far.
ScanExact ==
  phase = "scan" =>
    /\ scan.cursor \in 1..(Reach(SCAN_MAX) + 1)
    /\ scan.slot \in Nat \ {0}
    /\ scan.slot # 1 => /\ scan.cursor \in Within(SCAN_MAX)
                        /\ Current.decodes /\ scan.slot <= Len(Current.slots) + 1
    /\ scan.tracker = Known(Flat, Behind)
    /\ scan.hits = Cardinality(Seen(Evidence, Behind))

\* The verdict on a sample.
JudgedExact ==
  /\ verdict.accepted <=> Cardinality(Evidence) >= 2 /\ DecodesOften
  /\ verdict.accepted => verdict.runtime_base = ALIAS_BASE

ExactInv ==
  /\ SampleOfFile /\ ScoreExact /\ ScanExact
  /\ (phase = "judged" /\ (scan # ScanStart \/ verdict.accepted)) \/ phase \in Taking => JudgedExact
  /\ phase \in Taking \ {"segment"} => db.segment = {RomSegment} /\ RomSegment.end <= BADADDR

\* What a sample of bundles has to be scanned: a sequence of entries, and the finite
\* evidence among them.
LEMMA SampleEntries ==
  ASSUME sample.bundles \in Seq(Bundle)
  PROVE  /\ Len(sample.bundles) \in Nat
         /\ \A limit \in Nat : Reach(limit) \in 0..Len(sample.bundles)
         /\ Flat \in Seq(Entry) /\ Len(Flat) \in Nat
         /\ Evidence \subseteq 1..Len(Flat) /\ IsFiniteSet(Evidence)
<1>1. Len(sample.bundles) \in Nat
  OBVIOUS
<1>2. \A limit \in Nat : limit \div 8 \in Nat
  BY SMT
<1>3. \A limit \in Nat : Reach(limit) \in 0..Len(sample.bundles)
  <2> TAKE limit \in Nat
  <2>1. limit \div 8 \in Nat
    BY <1>2
  <2>2. /\ Reach(limit) \in {Len(sample.bundles), limit \div 8}
        /\ Reach(limit) <= Len(sample.bundles)
    <3> DEFINE b == Len(sample.bundles)
               d == limit \div 8
    <3>1. b \in Int /\ d \in Int
      BY <1>1, <2>1
    <3>2. Reach(limit) = Min({b, d})
      BY Zenon DEF Reach
    <3> HIDE DEF b, d
    <3>3. Min({b, d}) \in {b, d} /\ Min({b, d}) <= b
      BY <3>1, MinPair
    <3>4. QED
      BY <3>2, <3>3, Zenon DEF b, d
  <2>3. QED
    BY <1>1, <2>1, <2>2
<1>4. Flat \in Seq(Entry) /\ Len(Flat) \in Nat
  <2>1. Reach(SCAN_MAX) \in 0..Len(sample.bundles)
    BY <1>3, SizesAssumption
  <2>2. QED
    BY <2>1, FlatsType DEF Flat
<1>5. Evidence \subseteq 1..Len(Flat)
  <2>1. DOMAIN Flat = 1..Len(Flat)
    BY <1>4
  <2>2. Evidence \subseteq DOMAIN Flat
    BY Zenon DEF Evidence
  <2>3. QED
    BY <2>1, <2>2
<1>6. IsFiniteSet(Evidence)
  <2>1. IsFiniteSet(1..Len(Flat))
    BY <1>4, FS_Interval
  <2>2. QED
    BY <1>5, <2>1, FS_Subset
<1>7. QED
  BY <1>1, <1>3, <1>4, <1>5, <1>6

\* One more entry adds itself to the evidence, or nothing.
LEMMA SeenNext ==
  ASSUME sample.bundles \in Seq(Bundle), NEW n \in Nat
  PROVE  /\ Cardinality(Seen(Evidence, n)) \in Nat
         /\ Cardinality(Seen(Evidence, n + 1)) =
              IF n + 1 \in Evidence THEN Cardinality(Seen(Evidence, n)) + 1
              ELSE Cardinality(Seen(Evidence, n))
<1>1. Evidence \subseteq Nat /\ IsFiniteSet(Evidence)
  BY SampleEntries
<1>2. Seen(Evidence, n) \subseteq Evidence
  BY DEF Seen
<1>3. IsFiniteSet(Seen(Evidence, n)) /\ Cardinality(Seen(Evidence, n)) \in Nat
  BY <1>1, <1>2, FS_Subset, FS_CardinalityType
<1>4. n + 1 \notin Seen(Evidence, n)
  BY DEF Seen
<1>5. \A m \in Nat : m <= n + 1 <=> m <= n \/ m = n + 1
  OBVIOUS
<1>6. CASE n + 1 \in Evidence
  <2>1. Seen(Evidence, n + 1) = Seen(Evidence, n) \cup {n + 1}
    BY <1>1, <1>5, <1>6 DEF Seen
  <2>2. Cardinality(Seen(Evidence, n) \cup {n + 1}) = Cardinality(Seen(Evidence, n)) + 1
    BY <1>3, <1>4, FS_AddElement
  <2>3. QED
    BY <1>3, <1>6, <2>1, <2>2
<1>7. CASE n + 1 \notin Evidence
  <2>1. Seen(Evidence, n + 1) = Seen(Evidence, n)
    BY <1>1, <1>5, <1>7 DEF Seen
  <2>2. QED
    BY <1>3, <1>7, <2>1
<1>8. QED
  BY <1>6, <1>7

\* Before the first entry there is no evidence, and behind the last one all of it.
LEMMA SeenEnds ==
  ASSUME sample.bundles \in Seq(Bundle)
  PROVE  /\ Cardinality(Seen(Evidence, 0)) = 0
         /\ Seen(Evidence, Len(Flat)) = Evidence
<1>1. Evidence \subseteq 1..Len(Flat) /\ Len(Flat) \in Nat
  BY SampleEntries
<1>2. \A m \in Evidence : ~(m <= 0) /\ m <= Len(Flat)
  BY <1>1
<1>3. Seen(Evidence, 0) = {} /\ Seen(Evidence, Len(Flat)) = Evidence
  BY <1>2, Zenon DEF Seen
<1>4. QED
  BY <1>3, FS_EmptySet

\* A hit of the tracker is a piece of evidence (analyze_slot, runtime_base).
LEMMA HitIsEvidence ==
  ASSUME sample.bundles \in Seq(Bundle), sample.size \in Int,
         NEW n \in Nat, n + 1 <= Len(Flat), Flat[n + 1] \in Slot
  PROVE  LET value == Values(Flat)[n + 1]
         IN  n + 1 \in Evidence <=>
               Flat[n + 1].shows /\ value # Unknown /\ alias_target_in_image(value)
<1> DEFINE value == Values(Flat)[n + 1]
<1>1. n + 1 \in DOMAIN Flat
  BY SampleEntries
<1>2. Flat[n + 1] # Barrier
  BY BarrierIsNoSlot
<1>3. n + 1 \in Evidence <=> Flat[n + 1].shows /\ alias_target_in_image(value)
  BY <1>1, <1>2, Zenon DEF Evidence
<1>4. ~alias_target_in_image(Unknown)
  <2>1. Unknown \notin ALIAS_BASE..(ALIAS_BASE + sample.size - 1)
    BY SizesAssumption DEF Unknown
  <2>2. QED
    BY <2>1 DEF alias_target_in_image
<1>5. QED
  BY <1>3, <1>4, Zenon

\* A barrier is no evidence.
LEMMA BarrierIsNone ==
  ASSUME NEW n, Flat[n] = Barrier
  PROVE  n \notin Evidence
BY Zenon DEF Evidence

\* One more bundle that decodes counts.
LEMMA DecodedNext ==
  ASSUME NEW bundles, NEW n \in Nat
  PROVE  /\ Decoded(bundles, n) \in Nat /\ Decoded(bundles, 0) = 0
         /\ Decoded(bundles, n + 1) = IF bundles[n + 1].decodes THEN Decoded(bundles, n) + 1
                                      ELSE Decoded(bundles, n)
<1> DEFINE D(m) == {k \in 1..m : bundles[k].decodes}
<1>1. \A m : Decoded(bundles, m) = Cardinality(D(m))
  BY DEF Decoded
<1>2. IsFiniteSet(D(n))
  <2>1. IsFiniteSet(1..n)
    BY FS_Interval
  <2>2. QED
    BY <2>1, FS_Subset
<1>3. D(0) = {}
  OBVIOUS
<1>4. n + 1 \notin D(n)
  OBVIOUS
<1>5. \A k : k \in 1..(n + 1) <=> k \in 1..n \/ k = n + 1
  OBVIOUS
<1>6. D(n + 1) = IF bundles[n + 1].decodes THEN D(n) \cup {n + 1} ELSE D(n)
  <2>1. CASE bundles[n + 1].decodes
    BY <1>5, <2>1
  <2>2. CASE ~bundles[n + 1].decodes
    BY <1>5, <2>2
  <2>3. QED
    BY <2>1, <2>2
<1> HIDE DEF D
<1>7. Cardinality(D(n)) \in Nat
  BY <1>2, FS_CardinalityType
<1>8. Cardinality(D(n) \cup {n + 1}) = Cardinality(D(n)) + 1
  BY <1>2, <1>4, FS_AddElement
<1>9. Cardinality(D(0)) = 0
  BY <1>3, FS_EmptySet
<1>10. QED
  BY <1>1, <1>6, <1>7, <1>8, <1>9

\* What is said of a sample only changes with the sample.
LEMMA SameSample ==
  ASSUME sample' = sample
  PROVE  /\ Flat' = Flat /\ Evidence' = Evidence
         /\ \A n : Reach(n)' = Reach(n)
         /\ DecodesOften' = DecodesOften
<1>1. \A n : Reach(n)' = Reach(n)
  BY DEF Reach
<1>2. Flat' = Flat
  BY DEF Flat, Reach
<1>3. Evidence' = Evidence
  BY <1>2 DEF Evidence, alias_target_in_image
<1>4. DecodesOften' = DecodesOften
  BY DEF DecodesOften, Scored, Within, Reach
<1>5. QED
  BY <1>1, <1>2, <1>3, <1>4

-----------------------------------------------------------------------------
(* The steps *)

\* The read of a handler gives the first bundles of the file, as many as whole ones
\* were read.
LEMMA SampleTaken ==
  ASSUME file \in Input, NEW got \in Got(sample_size), got >= 8
  PROVE  LET taken == Taken(file, 0, got)
         IN  /\ got \in Nat /\ got <= file.size
             /\ taken.size = got
             /\ taken.bundles \in Seq(Bundle)
             /\ Len(taken.bundles) = got \div 8 /\ got \div 8 <= Len(file.bundles)
             /\ taken.bundles = SubSeq(file.bundles, 1, got \div 8)
<1>1. /\ file.size \in Nat /\ SAMPLE_MAX \in Nat
      /\ file.bundles \in Seq(Bundle) /\ Len(file.bundles) = file.size \div 8
  BY SizesAssumption DEF Input
<1>2. sample_size \in {file.size, SAMPLE_MAX} /\ sample_size <= file.size
  <2>1. sample_size = Min({file.size, SAMPLE_MAX})
    BY DEF sample_size
  <2>2. QED
    <3>1. file.size \in Int /\ SAMPLE_MAX \in Int
      BY <1>1
    <3>2. QED
      BY <2>1, <3>1, MinPair, Zenon
<1>3. got \in Nat /\ got <= file.size
  BY <1>1, <1>2 DEF Got
<1>4. \A x, y \in Nat : x <= y => x \div 8 \in Nat /\ x \div 8 <= y \div 8
  BY SMT
<1>5. got \div 8 \in Nat /\ got \div 8 <= Len(file.bundles)
  BY <1>1, <1>3, <1>4
<1>6. (0 + 7) \div 8 = 0
  BY SMT
<1> DEFINE taken == Taken(file, 0, got)
           m == got \div 8
<1>7. Min({got, file.size - 0}) = got
  <2>1. file.size - 0 = file.size
    BY <1>1
  <2>2. Min({got, file.size}) \in {got, file.size} /\ Min({got, file.size}) <= got
        /\ Min({got, file.size}) <= file.size
    <3>1. got \in Int /\ file.size \in Int
      BY <1>1, <1>3
    <3>2. QED
      BY <3>1, MinPair, Zenon
  <2>3. Min({got, file.size}) = got
    BY <1>1, <1>3, <2>2
  <2>4. QED
    BY <2>1, <2>3, Zenon
<1>8. Min({Len(file.bundles), 0 + m}) = m
  <2> HIDE DEF m
  <2>1. 0 + m = m /\ Len(file.bundles) \in Int /\ m \in Int /\ m <= Len(file.bundles)
    BY <1>1, <1>5 DEF m
  <2>2. /\ Min({Len(file.bundles), m}) \in {Len(file.bundles), m}
        /\ Min({Len(file.bundles), m}) <= m
    BY <2>1, MinPair
  <2>3. QED
    BY <2>1, <2>2
<1>9. /\ taken.size = Min({got, file.size - 0})
      /\ taken.bundles = SubSeq(file.bundles, 0 + 1, Min({Len(file.bundles), 0 + m}))
  BY <1>6, Zenon DEF Taken
<1>10. taken.size = got /\ taken.bundles = SubSeq(file.bundles, 1, m)
  <2>1. 0 + 1 = 1
    OBVIOUS
  <2>2. QED
    BY <1>7, <1>8, <1>9, <2>1, Zenon
<1> HIDE DEF taken
<1>11. SubSeq(file.bundles, 1, m) \in Seq(Bundle) /\ Len(SubSeq(file.bundles, 1, m)) = m
  <2> HIDE DEF m
  <2>1. m \in Nat /\ m <= Len(file.bundles)
    BY <1>5 DEF m
  <2>2. QED
    BY <1>1, <2>1
<1>12. QED
  BY <1>3, <1>5, <1>10, <1>11 DEF taken

\* Judging a file begins with the first bundles of it, if there is one to score.
LEMMA EvaluateExact ==
  ASSUME IInv, ExactInv, NEW who, Evaluate(who), UNCHANGED <<file, db>>, phase = "idle"
  PROVE  ExactInv'
<1>1. scan' = ScanStart /\ verdict' = Rejected /\ phase' \in {"judged", "score"}
  BY DEF Evaluate
<1>2. ~verdict'.accepted
  BY <1>1 DEF Rejected
<1>3. CASE phase' = "judged"
  <2>1. SampleOfFile' /\ ScoreExact' /\ ScanExact'
    BY <1>2, <1>3 DEF SampleOfFile, Sampled, Taking, ScoreExact, ScanExact
  <2>2. QED
    BY <1>1, <1>2, <1>3, <2>1 DEF ExactInv, Taking
<1>4. CASE phase' = "score"
  <2>1. PICK got \in Got(sample_size) :
          /\ sample' = Taken(file, ReadFrom(pos), got)
          /\ ~((Min({sample'.size, SCORE_MAX}) \div 8) * 8 < SCORE_MIN)
    BY <1>4 DEF Evaluate
  <2>2. sample' = Taken(file, 0, got)
    BY <2>1 DEF ReadFrom
  <2>3. got \in Int /\ file \in Input /\ file.size \in Int
    BY GotInt DEF IInv, Fields, Input
  <2>4. got >= 8 /\ SCORE_MAX >= 8
    <3> DEFINE least == Min({sample'.size, SCORE_MAX})
    <3>1. sample'.size = Min({got, file.size - 0})
      BY <2>2 DEF Taken
    <3>2. sample'.size \in Int /\ sample'.size <= got
      <4> PICK b : b = file.size - 0
        OBVIOUS
      <4>1. b \in Int
        BY <2>3
      <4>2. sample'.size = Min({got, b})
        BY <3>1
      <4>3. Min({got, b}) \in {got, b} /\ Min({got, b}) <= got
        BY <2>3, <4>1, MinPair, Zenon
      <4>4. QED
        BY <2>3, <4>1, <4>2, <4>3
    <3>3. SCORE_MAX \in Int /\ SCORE_MIN \in Int /\ 8 <= SCORE_MIN
      BY SizesAssumption
    <3>4. least \in Int /\ least <= sample'.size /\ least <= SCORE_MAX
      BY <3>2, <3>3, MinPair
    <3>5. ~((least \div 8) * 8 < SCORE_MIN)
      BY <2>1
    <3> HIDE DEF least
    <3>6. least >= 8
      <4>1. \A x \in Int : x < 8 => (x \div 8) * 8 < 8
        BY SMT
      <4>2. (least \div 8) \in Int
        BY <3>4, SMT
      <4>3. ~((least \div 8) * 8 < 8)
        BY <3>3, <3>5, <4>2
      <4>4. QED
        BY <3>4, <4>1, <4>3
    <3>7. QED
      BY <2>3, <3>2, <3>3, <3>4, <3>6
  <2>5. /\ got \in Nat /\ got <= file.size
        /\ sample'.size = got
        /\ sample'.bundles \in Seq(Bundle)
        /\ Len(sample'.bundles) = got \div 8 /\ got \div 8 <= Len(file.bundles)
        /\ sample'.bundles = SubSeq(file.bundles, 1, got \div 8)
    BY <2>2, <2>3, <2>4, SampleTaken
  <2>6. SampleOfFile'
    BY <2>5 DEF SampleOfFile
  <2>7. Reach(SCORE_MAX)' \in Nat \ {0}
    <3> DEFINE b == Len(sample'.bundles)
               d == SCORE_MAX \div 8
    <3>1. \A x \in Nat : x >= 8 => x \div 8 \in Nat \ {0}
      BY SMT
    <3>2. b \in Nat \ {0} /\ d \in Nat \ {0}
      BY <2>4, <2>5, <3>1, SizesAssumption
    <3>3. Reach(SCORE_MAX)' = Min({b, d})
      BY Zenon DEF Reach
    <3> HIDE DEF b, d
    <3>4. Min({b, d}) \in {b, d}
      <4>1. b \in Int /\ d \in Int
        BY <3>2
      <4>2. QED
        BY <4>1, MinPair, Zenon
    <3>5. QED
      BY <3>2, <3>3, <3>4
  <2>8. ScoreExact'
    <3>1. Decoded(sample'.bundles, 0) = 0
      BY DecodedNext, 0 \in Nat
    <3>2. /\ scan'.cursor = 1 /\ scan'.slot = 1 /\ scan'.tracker = NoTracker
          /\ scan'.hits = 0 /\ scan'.total = 0 /\ scan'.decoded = 0
      BY <1>1 DEF ScanStart
    <3>3. 1 \in 1..(Reach(SCORE_MAX)' + 1) /\ 1 - 1 = 0
      BY <2>7
    <3>4. Decoded(sample'.bundles, scan'.cursor - 1) = 0
      BY <3>1, <3>2, <3>3
    <3>5. QED
      BY <1>4, <2>7, <3>2, <3>3, <3>4 DEF ScoreExact
  <2>9. ScanExact'
    BY <1>4 DEF ScanExact
  <2>10. QED
    BY <1>4, <2>6, <2>8, <2>9 DEF ExactInv, Taking
<1>5. QED
  BY <1>1, <1>3, <1>4

\* Scoring counts one more bundle, or hands the counts on to the scan, which has
\* seen nothing yet.
LEMMA ScoreBundleExact ==
  ASSUME IInv, ExactInv, ScoreBundle
  PROVE  ExactInv'
<1>1. /\ phase = "score" /\ phase' \in {"score", "scan"}
      /\ UNCHANGED <<file, sample, verdict, db>>
  BY DEF ScoreBundle
<1>2. /\ Flat' = Flat /\ Evidence' = Evidence
      /\ \A n : Reach(n)' = Reach(n)
  BY <1>1, SameSample
<1>3. SampleOfFile' /\ sample.bundles \in Seq(Bundle)
  BY <1>1 DEF ExactInv, SampleOfFile, Sampled
<1> PICK most : most = Reach(SCORE_MAX)
  OBVIOUS
<1> PICK c : c = scan.cursor
  OBVIOUS
<1>4. /\ most \in Nat \ {0} /\ c \in 1..(most + 1) /\ c \in Nat /\ c - 1 \in Nat
      /\ scan.slot = 1 /\ scan.tracker = NoTracker /\ scan.hits = 0
      /\ scan.total = c - 1 /\ scan.decoded = Decoded(sample.bundles, c - 1)
  BY <1>1 DEF ExactInv, ScoreExact
<1>5. {"cursor", "slot", "decoded", "total", "tracker", "hits"} \subseteq DOMAIN scan
  BY DEF IInv, Fields
<1>6. Within(SCORE_MAX) = 1..most
  BY DEF Within
<1>7. CASE /\ c \in 1..most
           /\ scan' = [scan EXCEPT !.cursor = @ + 1, !.total = @ + 1,
                                   !.decoded = IF sample.bundles[c].decodes THEN @ + 1 ELSE @]
           /\ phase' = "score"
  <2>1. /\ scan'.cursor = c + 1 /\ scan'.total = (c - 1) + 1
        /\ scan'.decoded = IF sample.bundles[c].decodes THEN scan.decoded + 1 ELSE scan.decoded
        /\ scan'.slot = 1 /\ scan'.tracker = NoTracker /\ scan'.hits = 0
    BY <1>4, <1>5, <1>7
  <2>2. (c - 1) + 1 = c /\ (c + 1) - 1 = c /\ c + 1 \in 1..(most + 1)
    BY <1>4, <1>7
  <2>3. Decoded(sample.bundles, c) = IF sample.bundles[c].decodes
                                     THEN Decoded(sample.bundles, c - 1) + 1
                                     ELSE Decoded(sample.bundles, c - 1)
    <3>1. Decoded(sample.bundles, (c - 1) + 1) = IF sample.bundles[(c - 1) + 1].decodes
                                                 THEN Decoded(sample.bundles, c - 1) + 1
                                                 ELSE Decoded(sample.bundles, c - 1)
      BY <1>4, DecodedNext
    <3>2. QED
      BY <2>2, <3>1
  <2>4. scan'.decoded = Decoded(sample.bundles, c)
    BY <1>4, <2>1, <2>3
  <2>5. scan'.cursor - 1 = c /\ sample'.bundles = sample.bundles
    BY <1>1, <2>1, <2>2
  <2>6. Reach(SCORE_MAX)' = most
    BY <1>2
  <2>7. ScoreExact'
    <3>1. scan'.total = scan'.cursor - 1 /\ scan'.cursor \in 1..(most + 1)
      BY <2>1, <2>2, <2>5
    <3>2. scan'.decoded = Decoded(sample'.bundles, scan'.cursor - 1)
      BY <2>4, <2>5
    <3>3. QED
      BY <1>4, <1>7, <2>1, <2>6, <3>1, <3>2 DEF ScoreExact
  <2>8. ScanExact'
    BY <1>7 DEF ScanExact
  <2>9. QED
    BY <1>3, <1>7, <2>7, <2>8 DEF ExactInv, Taking
<1>8. CASE /\ c \notin 1..most
           /\ scan' = [scan EXCEPT !.cursor = 1]
           /\ phase' = "scan"
  <2>1. c = most + 1 /\ c - 1 = most
    BY <1>4, <1>8
  <2>2. /\ scan'.cursor = 1 /\ scan'.total = most /\ scan'.decoded = Decoded(sample.bundles, most)
        /\ scan'.slot = 1 /\ scan'.tracker = NoTracker /\ scan'.hits = 0
    BY <1>4, <1>5, <1>8, <2>1
  <2>3. Reach(SCORE_MAX)' = most /\ sample'.bundles = sample.bundles
    BY <1>1, <1>2
  <2>4. ScoreExact'
    BY <1>4, <1>8, <2>2, <2>3 DEF ScoreExact
  <2>5. Behind' = 0
    <3>1. Flats(sample.bundles)[0] = <<>>
      BY <1>3, SampleEntries, FlatsStep
    <3>2. Behind' = Len(Flats(sample.bundles)[scan'.cursor - 1]) + scan'.slot - 1
      BY <1>1 DEF Behind
    <3>3. Behind' = Len(Flats(sample.bundles)[0]) + 1 - 1
      BY <2>2, <3>2
    <3>4. QED
      BY <3>1, <3>3
  <2>6. scan'.tracker = Known(Flat, 0) /\ scan'.hits = Cardinality(Seen(Evidence, 0))
    BY <1>3, <2>2, SampleEntries, SeenEnds, KnownAtStart
  <2>7. Reach(SCAN_MAX)' \in Nat
    BY <1>2, <1>3, SampleEntries, SizesAssumption
  <2>8. ScanExact'
    <3>1. Known(Flat, Behind)' = Known(Flat, 0)
      BY <1>2, <2>5
    <3>2. Seen(Evidence, Behind)' = Seen(Evidence, 0)
      BY <1>2, <2>5
    <3>3. QED
      BY <2>2, <2>6, <2>7, <3>1, <3>2 DEF ScanExact
  <2>9. QED
    BY <1>3, <1>8, <2>4, <2>8 DEF ExactInv, Taking
<1>9. QED
  BY <1>1, <1>6, <1>7, <1>8 DEF ScoreBundle
\* What the scan looks at, and where its entries are among those of the sample.
LEMMA ScanPlace ==
  ASSUME ExactInv, Scanning
  PROVE  LET c == scan.cursor
             F == Flats(sample.bundles)
             E == Entries(Current)
         IN  /\ sample.bundles \in Seq(Bundle) /\ sample.size \in Int
             /\ c \in Nat /\ c \in Within(SCAN_MAX) /\ Current \in Bundle
             /\ scan.slot \in Nat \ {0}
             /\ scan.slot # 1 => Current.decodes /\ scan.slot <= Len(Current.slots) + 1
             /\ Len(F[c - 1]) \in Nat /\ Len(E) \in Nat /\ Len(Flat) \in Nat
             /\ Behind = Len(F[c - 1]) + scan.slot - 1
             /\ Len(F[c]) = Len(F[c - 1]) + Len(E)
             /\ Len(F[c - 1]) + Len(E) <= Len(Flat)
             /\ \A j \in 1..Len(E) : Flat[Len(F[c - 1]) + j] = E[j]
             /\ scan.tracker = Known(Flat, Behind)
             /\ scan.hits = Cardinality(Seen(Evidence, Behind))
<1>1. phase = "scan" /\ scan.cursor \in Within(SCAN_MAX)
  BY DEF Scanning
<1>2. sample.bundles \in Seq(Bundle) /\ sample.size \in Int
  BY <1>1 DEF ExactInv, SampleOfFile, Sampled
<1> PICK n : n = Reach(SCAN_MAX)
  OBVIOUS
<1> PICK c : c = scan.cursor
  OBVIOUS
<1>3. n \in 0..Len(sample.bundles) /\ Len(sample.bundles) \in Nat
  BY <1>2, SampleEntries, SizesAssumption
<1>4. c \in 1..n /\ c \in Nat /\ c \in 1..Len(sample.bundles)
  BY <1>1, <1>3 DEF Within
<1>5. Current = sample.bundles[c] /\ Current \in Bundle
  BY <1>2, <1>4 DEF Current
<1>6. /\ scan.slot \in Nat \ {0}
      /\ scan.slot # 1 => Current.decodes /\ scan.slot <= Len(Current.slots) + 1
      /\ scan.tracker = Known(Flat, Behind)
      /\ scan.hits = Cardinality(Seen(Evidence, Behind))
  BY <1>1 DEF ExactInv, ScanExact
<1>7. Flat = Flats(sample.bundles)[n]
  BY DEF Flat
<1> DEFINE F == Flats(sample.bundles)
           E == Entries(Current)
<1>8. /\ Len(E) \in Nat /\ Len(F[c - 1]) \in Nat /\ Len(F[n]) \in Nat
      /\ Len(F[c]) = Len(F[c - 1]) + Len(E)
      /\ Len(F[c - 1]) + Len(E) <= Len(F[n])
      /\ \A j \in 1..Len(E) : F[n][Len(F[c - 1]) + j] = E[j]
  BY <1>2, <1>3, <1>4, <1>5, EntryAt
<1>9. Behind = Len(F[c - 1]) + scan.slot - 1
  BY DEF Behind
<1> HIDE DEF F, E
<1>10. QED
  BY <1>1, <1>2, <1>4, <1>5, <1>6, <1>7, <1>8, <1>9 DEF F, E

\* A step of the scan changes nothing else that the verdict depends on.
LEMMA ScanStep ==
  ASSUME IInv, ExactInv, Scanning, scan'.total = scan.total, scan'.decoded = scan.decoded,
         scan'.cursor \in 1..(Reach(SCAN_MAX) + 1), scan'.slot \in Nat \ {0},
         scan'.slot # 1 => /\ scan'.cursor = scan.cursor /\ Current.decodes
                           /\ scan'.slot <= Len(Current.slots) + 1,
         scan'.tracker = Known(Flat, Behind'),
         scan'.hits = Cardinality(Seen(Evidence, Behind'))
  PROVE  ExactInv'
<1>1. /\ phase = "scan" /\ phase' = "scan"
      /\ UNCHANGED <<file, sample, verdict, db>>
  BY DEF Scanning
<1>2. /\ Flat' = Flat /\ Evidence' = Evidence
      /\ \A n : Reach(n)' = Reach(n)
  BY <1>1, SameSample
<1>3. SampleOfFile'
  BY <1>1 DEF ExactInv, SampleOfFile, Sampled
<1>4. ScoreExact'
  BY <1>1, <1>2 DEF ExactInv, ScoreExact
<1>5. ScanExact'
  <2>1. scan'.slot # 1 => scan'.cursor \in Within(SCAN_MAX)' /\ Current' = Current
    BY <1>1, <1>2 DEF Scanning, Within, Current
  <2>2. Known(Flat, Behind)' = Known(Flat, Behind')
    BY <1>2
  <2>3. Seen(Evidence, Behind)' = Seen(Evidence, Behind')
    BY <1>2
  <2>4. scan'.cursor \in 1..(Reach(SCAN_MAX)' + 1)
    BY <1>2
  <2>5. QED
    BY <2>1, <2>2, <2>3, <2>4 DEF ScanExact
<1>6. QED
  BY <1>1, <1>3, <1>4, <1>5 DEF ExactInv, Taking

\* Behind a bundle that does not decode nothing is known, in the scan as in the sample.
LEMMA ScanUndecodedExact ==
  ASSUME IInv, ExactInv, ScanUndecoded
  PROVE  ExactInv'
<1> PICK c : c = scan.cursor
  OBVIOUS
<1> DEFINE F == Flats(sample.bundles)
           n == Len(F[c - 1])
<1>1. Scanning /\ ~Current.decodes
  BY DEF ScanUndecoded
<1>2. {"cursor", "slot", "decoded", "total", "tracker", "hits"} \subseteq DOMAIN scan
  BY DEF IInv, Fields
<1>3. /\ scan'.cursor = c + 1 /\ scan'.slot = scan.slot /\ scan'.tracker = NoTracker
      /\ scan'.hits = scan.hits /\ scan'.total = scan.total /\ scan'.decoded = scan.decoded
  BY <1>2 DEF ScanUndecoded
<1>4. Entries(Current) = <<Barrier>> /\ Len(<<Barrier>>) = 1 /\ <<Barrier>>[1] = Barrier
  BY <1>1 DEF Entries
<1>5. /\ sample.bundles \in Seq(Bundle)
      /\ c \in Nat /\ c \in Within(SCAN_MAX)
      /\ scan.slot = 1
      /\ n \in Nat /\ Len(Flat) \in Nat
      /\ Behind = n + 1 - 1
      /\ Len(F[c]) = n + 1
      /\ n + 1 <= Len(Flat)
      /\ Flat[n + 1] = Barrier
      /\ scan.hits = Cardinality(Seen(Evidence, Behind))
  BY <1>1, <1>4, ScanPlace
<1>6. sample' = sample
  BY <1>1 DEF Scanning
<1>7. Behind' = n + 1
  <2>1. Behind' = Len(F[scan'.cursor - 1]) + scan'.slot - 1
    BY <1>6 DEF Behind
  <2> HIDE DEF F
  <2>2. scan'.cursor - 1 = c
    BY <1>3, <1>5
  <2>3. Behind' = Len(F[c]) + 1 - 1
    BY <1>3, <1>5, <2>1, <2>2
  <2>4. QED
    BY <1>5, <2>3
<1> HIDE DEF F, n
<1>8. Known(Flat, n + 1) = NoTracker
  BY <1>5, KnownBehindBarrier
<1>9. Cardinality(Seen(Evidence, n + 1)) = Cardinality(Seen(Evidence, n))
  <2>1. n + 1 \notin Evidence
    BY <1>5, BarrierIsNone
  <2>2. QED
    BY <1>5, <2>1, SeenNext
<1>10. Behind = n
  BY <1>5
<1>11. scan'.cursor \in 1..(Reach(SCAN_MAX) + 1)
  <2>1. Reach(SCAN_MAX) \in Nat
    BY <1>5, SampleEntries, SizesAssumption
  <2>2. QED
    BY <1>3, <1>5, <2>1 DEF Within
<1>12. QED
  BY <1>1, <1>3, <1>5, <1>7, <1>8, <1>9, <1>10, <1>11, ScanStep
\* A slot does to the tracker what it says, and a hit of it is one more piece of
\* evidence.
LEMMA ScanSlotExact ==
  ASSUME IInv, ExactInv, ScanSlot
  PROVE  ExactInv'
<1> PICK c : c = scan.cursor
  OBVIOUS
<1> PICK j : j = scan.slot
  OBVIOUS
<1>a. PICK a : a = Len(Flats(sample.bundles)[c - 1])
  OBVIOUS
<1>m. PICK m : m = Len(Current.slots)
  OBVIOUS
<1>n. PICK n : n = a + j - 1
  OBVIOUS
<1> PICK s : s = Current.slots[j]
  OBVIOUS
<1> DEFINE value == SlotValue(scan.tracker, s)
           hit   == s.shows /\ value # Unknown /\ alias_target_in_image(value)
<1>1. Scanning /\ Current.decodes /\ j \in DOMAIN Current.slots
  BY DEF ScanSlot
<1>2. {"cursor", "slot", "decoded", "total", "tracker", "hits"} \subseteq DOMAIN scan
  BY DEF IInv, Fields
<1>3. /\ scan'.cursor = c /\ scan'.slot = j + 1
      /\ scan'.tracker = [scan.tracker EXCEPT ![s.dst] = value]
      /\ scan'.hits = IF hit THEN scan.hits + 1 ELSE scan.hits
      /\ scan'.total = scan.total /\ scan'.decoded = scan.decoded
  BY <1>2 DEF ScanSlot
<1>4. Entries(Current) = Current.slots
  BY <1>1 DEF Entries
<1>5. /\ sample.bundles \in Seq(Bundle) /\ sample.size \in Int
      /\ c \in Nat /\ c \in Within(SCAN_MAX) /\ Current \in Bundle /\ j \in Nat \ {0}
      /\ a \in Nat /\ m \in Nat /\ Len(Flat) \in Nat
      /\ Behind = n
      /\ a + m <= Len(Flat)
      /\ \A i \in 1..m : Flat[a + i] = Current.slots[i]
      /\ scan.tracker = Known(Flat, Behind)
      /\ scan.hits = Cardinality(Seen(Evidence, Behind))
  BY <1>a, <1>m, <1>n, <1>1, <1>4, ScanPlace
<1>6. j \in 1..m /\ s \in Slot
  <2>1. Current.slots \in Seq(Slot)
    BY <1>5 DEF Bundle
  <2>2. j \in 1..Len(Current.slots) /\ Current.slots[j] \in Slot
    <3> PICK q : q = Current.slots
      OBVIOUS
    <3>1. q \in Seq(Slot) /\ j \in DOMAIN q
      BY <1>1, <2>1
    <3>2. DOMAIN q = 1..Len(q) /\ q[j] \in Slot
      BY <3>1
    <3>3. QED
      BY <3>1, <3>2
  <2>3. QED
    BY <1>m, <2>2
<1>7. n \in Nat /\ n + 1 = a + j /\ n + 1 <= Len(Flat) /\ j + 1 \in Nat \ {0} /\ j + 1 <= m + 1
  <2>1. a \in Nat /\ m \in Nat /\ Len(Flat) \in Nat /\ a + m <= Len(Flat)
    BY <1>5, Zenon
  <2>2. \A i \in 1..m : /\ a + i - 1 \in Nat /\ (a + i - 1) + 1 = a + i
                         /\ (a + i - 1) + 1 <= Len(Flat)
                         /\ i + 1 \in Nat \ {0} /\ i + 1 <= m + 1
    BY <2>1
  <2>3. /\ a + j - 1 \in Nat /\ (a + j - 1) + 1 = a + j
        /\ (a + j - 1) + 1 <= Len(Flat)
        /\ j + 1 \in Nat \ {0} /\ j + 1 <= m + 1
    BY <1>6, <2>2, Zenon
  <2>4. QED
    BY <1>n, <2>3
<1>8. Flat[n + 1] = s
  BY <1>5, <1>6, <1>7
<1> HIDE DEF value, hit
<1>9. Values(Flat)[n + 1] = value /\ Known(Flat, n + 1) = [Known(Flat, n) EXCEPT ![s.dst] = value]
  <2>1. /\ Values(Flat)[n + 1] = SlotValue(Known(Flat, n), Flat[n + 1])
        /\ Known(Flat, n + 1) = [Known(Flat, n) EXCEPT ![Flat[n + 1].dst] = Values(Flat)[n + 1]]
    <3>1. Flat[n + 1] \in Slot
      BY <1>6, <1>8
    <3>2. Len(Flat) \in Nat
      BY <1>5
    <3>3. n \in Nat /\ n + 1 <= Len(Flat)
      BY <1>7
    <3>4. QED
      BY <3>1, <3>2, <3>3, KnownBehindSlot, Zenon
  <2>2. QED
    BY <1>5, <1>8, <2>1 DEF value
<1>10. n + 1 \in Evidence <=> hit
  <2>1. n + 1 \in Evidence <=>
          Flat[n + 1].shows /\ Values(Flat)[n + 1] # Unknown /\ alias_target_in_image(Values(Flat)[n + 1])
    BY <1>5, <1>6, <1>7, <1>8, HitIsEvidence
  <2>2. QED
    BY <1>8, <1>9, <2>1, Zenon DEF hit
<1>11. Behind' = n + 1
  <2>1. sample' = sample
    BY <1>1 DEF Scanning
  <2>2. Behind' = Len(Flats(sample.bundles)[scan'.cursor - 1]) + scan'.slot - 1
    BY <2>1 DEF Behind
  <2>3. Behind' = Len(Flats(sample.bundles)[c - 1]) + (j + 1) - 1
    BY <1>3, <1>5, <2>2
  <2>4. QED
    BY <1>a, <1>5, <1>7, <2>3
<1>12. scan'.tracker = Known(Flat, n + 1)
  BY <1>3, <1>5, <1>9
<1>13. scan'.hits = Cardinality(Seen(Evidence, n + 1))
  <2>1. Cardinality(Seen(Evidence, n + 1)) =
          IF n + 1 \in Evidence THEN Cardinality(Seen(Evidence, n)) + 1
          ELSE Cardinality(Seen(Evidence, n))
    BY <1>5, <1>7, SeenNext
  <2>2. scan.hits = Cardinality(Seen(Evidence, n))
    BY <1>5
  <2>3. scan'.hits = IF hit THEN scan.hits + 1 ELSE scan.hits
    BY <1>3
  <2>4. CASE hit
    BY <1>10, <2>1, <2>2, <2>3, <2>4
  <2>5. CASE ~hit
    BY <1>10, <2>1, <2>2, <2>3, <2>5
  <2>6. QED
    BY <2>4, <2>5
<1>14. scan'.cursor \in 1..(Reach(SCAN_MAX) + 1)
  <2>1. Reach(SCAN_MAX) \in Nat
    BY <1>5, SampleEntries, SizesAssumption
  <2>2. QED
    BY <1>3, <1>5, <2>1 DEF Within
<1>15. scan'.slot \in Nat \ {0} /\ scan'.slot <= Len(Current.slots) + 1
  <2>1. j + 1 \in Nat \ {0} /\ j + 1 <= m + 1
    BY <1>7
  <2>2. QED
    BY <1>m, <1>3, <2>1
<1>16. QED
  BY <1>1, <1>3, <1>11, <1>12, <1>13, <1>14, <1>15, ScanStep

\* Going on to the next bundle passes no entry.
LEMMA NextBundleExact ==
  ASSUME IInv, ExactInv, NextBundle
  PROVE  ExactInv'
<1> PICK c : c = scan.cursor
  OBVIOUS
<1> PICK j : j = scan.slot
  OBVIOUS
<1> DEFINE F == Flats(sample.bundles)
<1>1. Scanning /\ Current.decodes /\ j \notin DOMAIN Current.slots
  BY DEF NextBundle
<1>2. {"cursor", "slot", "decoded", "total", "tracker", "hits"} \subseteq DOMAIN scan
  BY DEF IInv, Fields
<1>3. /\ scan'.cursor = c + 1 /\ scan'.slot = 1 /\ scan'.tracker = scan.tracker
      /\ scan'.hits = scan.hits /\ scan'.total = scan.total /\ scan'.decoded = scan.decoded
  BY <1>2 DEF NextBundle
<1>4. Entries(Current) = Current.slots
  BY <1>1 DEF Entries
<1>5. /\ sample.bundles \in Seq(Bundle)
      /\ c \in Nat /\ c \in Within(SCAN_MAX) /\ Current \in Bundle /\ j \in Nat \ {0}
      /\ j # 1 => j <= Len(Current.slots) + 1
      /\ Len(F[c - 1]) \in Nat /\ Len(Current.slots) \in Nat
      /\ Behind = Len(F[c - 1]) + j - 1
      /\ Len(F[c]) = Len(F[c - 1]) + Len(Current.slots)
      /\ scan.tracker = Known(Flat, Behind)
      /\ scan.hits = Cardinality(Seen(Evidence, Behind))
  BY <1>1, <1>4, ScanPlace
<1> HIDE DEF F
<1>6. j = Len(Current.slots) + 1
  <2>1. DOMAIN Current.slots = 1..Len(Current.slots)
    BY <1>5 DEF Bundle
  <2>2. QED
    BY <1>1, <1>5, <2>1
<1>7. Behind = Len(F[c])
  BY <1>5, <1>6
<1>8. Behind' = Len(F[c])
  <2>1. sample' = sample
    BY <1>1 DEF Scanning
  <2>2. Behind' = Len(F[scan'.cursor - 1]) + scan'.slot - 1
    BY <2>1 DEF Behind, F
  <2>3. scan'.cursor - 1 = c /\ Len(F[c]) \in Nat
    <3>1. (c + 1) - 1 = c
      BY <1>5
    <3>2. \A x, y \in Nat : x + y \in Nat
      OBVIOUS
    <3>3. Len(F[c]) \in Nat
      BY <1>5, <3>2, Zenon
    <3>4. QED
      BY <1>3, <3>1, <3>3
  <2>4. Behind' = Len(F[c]) + 1 - 1
    BY <1>3, <2>2, <2>3
  <2>5. QED
    BY <2>3, <2>4
<1>9. Behind' = Behind
  BY <1>7, <1>8
<1>10. scan'.cursor \in 1..(Reach(SCAN_MAX) + 1)
  <2>1. Reach(SCAN_MAX) \in Nat
    BY <1>5, SampleEntries, SizesAssumption
  <2>2. QED
    BY <1>3, <1>5, <2>1 DEF Within
<1>11. scan'.tracker = Known(Flat, Behind') /\ scan'.hits = Cardinality(Seen(Evidence, Behind'))
  BY <1>3, <1>5, <1>9
<1>12. QED
  BY <1>1, <1>3, <1>10, <1>11, ScanStep

\* The verdict is that of the whole sample, also when the scan stopped early (evaluate).
LEMMA JudgeExact ==
  ASSUME IInv, ExactInv, Judge
  PROVE  ExactInv'
<1>1. /\ phase = "scan" /\ phase' = "judged" /\ UNCHANGED <<file, sample, scan, db>>
      /\ scan.hits >= 2 \/ scan.cursor \notin Within(SCAN_MAX)
  BY DEF Judge
<1>2. /\ sample.bundles \in Seq(Bundle)
      /\ SampleOfFile'
  BY <1>1 DEF ExactInv, SampleOfFile, Sampled
<1>3. Evidence' = Evidence /\ DecodesOften' = DecodesOften
  BY <1>1, SameSample
<1>4. IsFiniteSet(Evidence) /\ Cardinality(Evidence) \in Nat
  BY <1>2, SampleEntries, FS_CardinalityType
<1> PICK most : most = Reach(SCORE_MAX)
  OBVIOUS
<1> PICK count : count = Decoded(sample.bundles, most)
  OBVIOUS
<1>5. most \in Nat \ {0} /\ scan.total = most /\ scan.decoded = count
  BY <1>1 DEF ExactInv, ScoreExact
<1>6. count \in Nat
  BY <1>5, DecodedNext
<1>7. (scan.decoded * 100) \div scan.total >= ACCEPT_SCORE <=> DecodesOften
  <2>1. Cardinality(Scored) = most /\ Scored = 1..most
    <3>1. Scored = 1..most
      BY DEF Scored, Within
    <3>2. 1 \in Int /\ most \in Int
      BY <1>5
    <3>3. Cardinality(1..most) = IF 1 > most THEN 0 ELSE most - 1 + 1
      BY <3>2, FS_Interval, Zenon
    <3>4. QED
      BY <1>5, <3>1, <3>3
  <2>2. DecodesOften <=> count * 100 >= ACCEPT_SCORE * most
    <3>1. Cardinality({k \in Scored : sample.bundles[k].decodes}) = count
      BY <2>1 DEF Decoded
    <3>2. QED
      BY <2>1, <3>1 DEF DecodesOften
  <2>3. \A x, s \in Nat : \A t \in Nat \ {0} : x \div t >= s <=> x >= s * t
    BY SMT
  <2>4. count * 100 \in Nat /\ ACCEPT_SCORE \in Nat
    BY <1>6, SizesAssumption
  <2>5. QED
    BY <1>5, <2>2, <2>3, <2>4
<1>8. scan.hits >= 2 <=> Cardinality(Evidence) >= 2
  <2>1. scan.hits = Cardinality(Seen(Evidence, Behind))
    BY <1>1 DEF ExactInv, ScanExact
  <2>2. CASE scan.hits >= 2
    <3>1. Seen(Evidence, Behind) \subseteq Evidence
      BY DEF Seen
    <3>2. Cardinality(Seen(Evidence, Behind)) <= Cardinality(Evidence)
      BY <1>4, <3>1, FS_Subset
    <3>3. Cardinality(Seen(Evidence, Behind)) \in Nat
      BY <1>4, <3>1, FS_Subset, FS_CardinalityType
    <3>4. QED
      BY <1>4, <2>1, <2>2, <3>2, <3>3
  <2>3. CASE scan.cursor \notin Within(SCAN_MAX)
    <3> PICK n : n = Reach(SCAN_MAX)
      OBVIOUS
    <3>1. n \in Nat /\ scan.cursor \in 1..(n + 1) /\ scan.slot = 1
      <4>1. n \in Nat
        BY <1>2, SampleEntries, SizesAssumption
      <4>2. QED
        BY <1>1, <2>3, <4>1 DEF ExactInv, ScanExact
    <3>2. scan.cursor - 1 = n
      BY <2>3, <3>1 DEF Within
    <3>3. Behind = Len(Flat)
      <4>1. Behind = Len(Flats(sample.bundles)[n]) + 1 - 1
        BY <3>1, <3>2 DEF Behind
      <4>2. Flat = Flats(sample.bundles)[n]
        BY DEF Flat
      <4>3. Len(Flat) \in Nat
        BY <1>2, SampleEntries
      <4>4. QED
        BY <4>1, <4>2, <4>3
    <3>4. Seen(Evidence, Behind) = Evidence
      BY <1>2, <3>3, SeenEnds
    <3>5. QED
      BY <2>1, <3>4
  <2>4. QED
    BY <1>1, <2>2, <2>3
<1>9. JudgedExact'
  <2>1. /\ verdict'.runtime_base = IF scan.hits >= 2 THEN ALIAS_BASE ELSE 0
        /\ verdict'.accepted <=> /\ (IF scan.hits >= 2 THEN ALIAS_BASE ELSE 0) # 0
                                 /\ (scan.decoded * 100) \div scan.total >= ACCEPT_SCORE
    BY DEF Judge
  <2>2. ALIAS_BASE # 0
    BY SizesAssumption
  <2>3. verdict'.accepted <=> scan.hits >= 2 /\ (scan.decoded * 100) \div scan.total >= ACCEPT_SCORE
    BY <2>1, <2>2, Zenon
  <2>4. verdict'.accepted <=> Cardinality(Evidence) >= 2 /\ DecodesOften
    BY <1>7, <1>8, <2>3, Zenon
  <2>5. verdict'.accepted => verdict'.runtime_base = ALIAS_BASE
    BY <2>1, <2>3, Zenon
  <2>6. QED
    BY <1>3, <2>4, <2>5, Zenon DEF JudgedExact
<1>10. ScoreExact' /\ ScanExact'
  BY <1>1 DEF ScoreExact, ScanExact
<1>11. QED
  BY <1>1, <1>2, <1>9, <1>10 DEF ExactInv, Taking
\* A change of neither the file nor the sample nor what is said of them.
LEMMA SameVerdict ==
  ASSUME ExactInv, UNCHANGED <<file, sample, scan, verdict>>,
         phase \in {"judged"} \cup Taking, phase' \in Taking, verdict.accepted
  PROVE  SampleOfFile' /\ ScoreExact' /\ ScanExact' /\ JudgedExact'
<1>1. SampleOfFile'
  BY DEF ExactInv, SampleOfFile, Sampled, Taking
<1>2. JudgedExact
  BY DEF ExactInv, Taking
<1>3. Evidence' = Evidence /\ DecodesOften' = DecodesOften
  BY SameSample
<1>4. JudgedExact'
  BY <1>2, <1>3 DEF JudgedExact
<1>5. ScoreExact' /\ ScanExact'
  BY DEF ScoreExact, ScanExact, Taking
<1>6. QED
  BY <1>1, <1>4, <1>5

\* Nothing has been judged before the first call (Init).
LEMMA ExactAtInit == Init => ExactInv
BY DEF Init, ExactInv, SampleOfFile, Sampled, ScoreExact, ScanExact, Taking

\* Where nothing is judged and nothing is loaded, nothing is claimed.
LEMMA NothingClaimed ==
  ASSUME phase' \in {"idle", "failed"}
  PROVE  ExactInv'
BY DEF ExactInv, SampleOfFile, Sampled, ScoreExact, ScanExact, Taking

\* Every step of the handlers and of their surroundings keeps the verdict exact
\* (evaluate, runtime_base, load_file).
LEMMA ExactStep == IInv /\ ExactInv /\ [Next]_vars => ExactInv'
<1> SUFFICES ASSUME IInv, ExactInv, [Next]_vars PROVE ExactInv'
  OBVIOUS
<1>1. CASE AcceptFile
  BY <1>1, EvaluateExact DEF AcceptFile
<1>2. CASE FinishAccept
  BY <1>2, NothingClaimed DEF FinishAccept
<1>3. CASE LoadFile
  <2>1. CASE phase' = "failed"
    BY <2>1, NothingClaimed
  <2>2. CASE Evaluate("load")
    BY <1>3, <2>2, EvaluateExact DEF LoadFile
  <2>3. QED
    BY <1>3, <2>1, <2>2 DEF LoadFile
<1>4. CASE ScoreBundle
  BY <1>4, ScoreBundleExact
<1>5. CASE ScanUndecoded
  BY <1>5, ScanUndecodedExact
<1>6. CASE ScanSlot
  BY <1>6, ScanSlotExact
<1>7. CASE NextBundle
  BY <1>7, NextBundleExact
<1>8. CASE Judge
  BY <1>8, JudgeExact
<1>9. CASE SelectProcessor
  <2>1. CASE Fail
    BY <2>1, NothingClaimed DEF Fail
  <2>2. CASE verdict.accepted /\ phase' = "segment"
    <3>1. UNCHANGED <<file, sample, scan, verdict>> /\ phase = "judged"
      BY <1>9 DEF SelectProcessor
    <3>2. SampleOfFile' /\ ScoreExact' /\ ScanExact' /\ JudgedExact'
      BY <2>2, <3>1, SameVerdict DEF Taking
    <3>3. QED
      BY <2>2, <3>2 DEF ExactInv, Taking
  <2>3. QED
    BY <1>9, <2>1, <2>2 DEF SelectProcessor, StillAccepted
<1>10. CASE CreateSegment
  <2>1. CASE Fail
    BY <2>1, NothingClaimed DEF Fail
  <2>2. CASE /\ verdict.runtime_base <= BADADDR - file.size
             /\ db' = [db EXCEPT !.segment = {RomSegment}]
             /\ phase' = "bytes"
    <3>1. UNCHANGED <<file, sample, scan, verdict>> /\ phase = "segment"
      BY <1>10 DEF CreateSegment
    <3>2. verdict.accepted /\ JudgedExact
      BY <3>1 DEF IInv, VerdictHolds, ExactInv, Taking
    <3>3. SampleOfFile' /\ ScoreExact' /\ ScanExact' /\ JudgedExact'
      BY <2>2, <3>1, <3>2, SameVerdict DEF Taking
    <3>4. RomSegment' = RomSegment
      BY <3>1 DEF RomSegment
    <3>5. db'.segment = {RomSegment}
      BY <2>2 DEF IInv, Fields
    <3>6. RomSegment.end <= BADADDR
      <4>1. verdict.runtime_base = ALIAS_BASE /\ ALIAS_BASE \in Nat /\ BADADDR \in Nat
        BY <3>2, SizesAssumption DEF JudgedExact
      <4>2. file.size \in Nat
        BY DEF IInv, Fields, Input
      <4>3. ALIAS_BASE + file.size <= BADADDR
        BY <2>2, <4>1, <4>2
      <4>4. QED
        BY <4>1, <4>3 DEF RomSegment
    <3>7. QED
      BY <2>2, <3>3, <3>4, <3>5, <3>6 DEF ExactInv, Taking
  <2>3. QED
    BY <1>10, <2>1, <2>2 DEF CreateSegment
<1>11. CASE LoadBytes \/ MarkEntry
  <2>1. CASE Fail
    BY <2>1, NothingClaimed DEF Fail
  <2>2. CASE ~Fail
    <3>1. /\ UNCHANGED <<file, sample, scan, verdict>>
          /\ phase \in Taking \ {"segment"} /\ phase' \in Taking \ {"segment"}
          /\ \/ db' = [db EXCEPT !.bytes = file.bundles]
             \/ db' = [db EXCEPT !.entry = verdict.runtime_base]
      BY <1>11, <2>2 DEF LoadBytes, MarkEntry, Taking
    <3>2. verdict.accepted
      BY <3>1 DEF IInv, VerdictHolds
    <3>3. SampleOfFile' /\ ScoreExact' /\ ScanExact' /\ JudgedExact'
      BY <3>1, <3>2, SameVerdict
    <3>4. db'.segment = db.segment
      BY <3>1 DEF IInv, Fields
    <3>5. RomSegment' = RomSegment
      BY <3>1 DEF RomSegment
    <3>6. db.segment = {RomSegment} /\ RomSegment.end <= BADADDR
      BY <3>1 DEF ExactInv
    <3>7. QED
      BY <3>3, <3>4, <3>5, <3>6 DEF ExactInv
  <2>3. QED
    BY <2>1, <2>2
<1>12. CASE OtherLoader
  BY <1>12, NothingClaimed DEF OtherLoader
<1>13. CASE FileChanges
  BY <1>13, NothingClaimed DEF FileChanges
<1>14. CASE UNCHANGED vars
  <2>1. UNCHANGED <<file, sample, scan, verdict, phase, db>>
    BY <1>14 DEF vars
  <2>2. /\ Flat' = Flat /\ Evidence' = Evidence /\ DecodesOften' = DecodesOften
        /\ \A n : Reach(n)' = Reach(n)
    BY <2>1, SameSample
  <2>3. SampleOfFile'
    BY <2>1 DEF ExactInv, SampleOfFile, Sampled
  <2>4. ScoreExact'
    BY <2>1, <2>2 DEF ExactInv, ScoreExact
  <2>5. ScanExact'
    <3>1. Behind' = Behind /\ Current' = Current
      BY <2>1 DEF Behind, Current
    <3>2. Within(SCAN_MAX)' = Within(SCAN_MAX)
      BY <2>2 DEF Within
    <3>3. QED
      BY <2>1, <2>2, <3>1, <3>2 DEF ExactInv, ScanExact
  <2>6. JudgedExact => JudgedExact'
    BY <2>1, <2>2 DEF JudgedExact
  <2>7. RomSegment' = RomSegment
    BY <2>1 DEF RomSegment
  <2>8. QED
    BY <2>1, <2>3, <2>4, <2>5, <2>6, <2>7 DEF ExactInv
<1>15. CASE Done
  BY <1>14, <1>15 DEF Done
<1>16. QED
  BY <1>1, <1>2, <1>3, <1>4, <1>5, <1>6, <1>7, <1>8, <1>9, <1>10, <1>11, <1>12, <1>13, <1>14, <1>15
     DEF Next

\* In every reachable state the loops of the detector know and count exactly what the
\* part of the sample behind them says.
THEOREM DetectorInvariant == Spec => [](IInv /\ ExactInv)
<1>1. Init => IInv /\ ExactInv
  BY InitInv, ExactAtInit
<1>2. IInv /\ ExactInv /\ [Next]_vars => IInv' /\ ExactInv'
  BY StepInv, ExactStep
<1>3. QED
  BY <1>1, <1>2, PTL DEF Spec

\* For every sample, whatever its bundles hold and in whatever order, the verdict is
\* that of the sample read as a whole, though the loops stop early and share one
\* tracker (evaluate, runtime_base).
THEOREM VerdictIsExact == Spec => []VerdictExact
<1>1. ExactInv => VerdictExact
  BY DEF ExactInv, VerdictExact, JudgedExact
<1>2. QED
  BY <1>1, DetectorInvariant, PTL

\* For every input and every change of it between the handlers, the references that
\* made the detector choose the base name loaded bytes of the segment (load_file).
THEOREM EvidenceIsLoaded == Spec => []EvidenceLoaded
<1>1. IInv /\ ExactInv => EvidenceLoaded
  <2> SUFFICES ASSUME IInv, ExactInv, phase \in {"entry", "loaded"}
               PROVE  /\ sample.bundles = SubSeq(db.bytes, 1, Len(sample.bundles))
                      /\ Cardinality(Evidence) >= 2
                      /\ \A n \in Evidence : \E s \in db.segment :
                           /\ s.start <= Values(Flat)[n] /\ Values(Flat)[n] < s.end
                           /\ (Values(Flat)[n] - s.start) \div 8 < Len(db.bytes)
                      /\ \A s \in db.segment :
                           s.end = s.start + 8 * Len(db.bytes) /\ s.end <= BADADDR
    BY Zenon DEF EvidenceLoaded
  <2>1. db.bytes = file.bundles /\ file.size % 8 = 0 /\ verdict.accepted
    BY DEF IInv, FilledInOrder, VerdictHolds, Taking, Raw, can_sample
  <2>2. /\ sample.bundles = SubSeq(file.bundles, 1, Len(sample.bundles))
        /\ sample.size \in Int /\ sample.size <= file.size
    BY DEF ExactInv, SampleOfFile, Sampled, Taking
  <2>3. JudgedExact /\ db.segment = {RomSegment} /\ RomSegment.end <= BADADDR
    BY DEF ExactInv, Taking
  <2>4. Cardinality(Evidence) >= 2 /\ verdict.runtime_base = ALIAS_BASE
    BY <2>1, <2>3 DEF JudgedExact
  <2>5. file.size \in Nat /\ Len(file.bundles) = file.size \div 8
    BY DEF IInv, Fields, Input
  <2>6. \A x \in Nat : x % 8 = 0 =>
          x = 8 * (x \div 8) /\ \A d \in Nat : d < x => d \div 8 < x \div 8
    BY SMT
  <2>7. RomSegment.start = ALIAS_BASE /\ RomSegment.end = ALIAS_BASE + file.size
    BY <2>4 DEF RomSegment
  <2>8. ASSUME NEW n \in Evidence
        PROVE  LET v == Values(Flat)[n]
               IN  /\ ALIAS_BASE <= v /\ v < ALIAS_BASE + file.size
                   /\ (v - ALIAS_BASE) \div 8 < Len(file.bundles)
    <3> PICK v : v = Values(Flat)[n]
      OBVIOUS
    <3>1. alias_target_in_image(v)
      BY Zenon DEF Evidence
    <3>2. v \in ALIAS_BASE..(ALIAS_BASE + sample.size - 1)
      BY <3>1 DEF alias_target_in_image
    <3>3. ALIAS_BASE \in Nat
      BY SizesAssumption
    <3>4. /\ ALIAS_BASE <= v /\ v < ALIAS_BASE + file.size
          /\ v - ALIAS_BASE \in Nat /\ v - ALIAS_BASE < file.size
      <4>1. \A a, z, size \in Int : z <= size =>
              \A x \in a..(a + z - 1) :
                a <= x /\ x < a + size /\ x - a \in Nat /\ x - a < size
        OBVIOUS
      <4>2. sample.size \in Int /\ file.size \in Int /\ sample.size <= file.size
        BY <2>2, <2>5
      <4>3. ALIAS_BASE \in Int
        BY <3>3
      <4>4. QED
        BY <3>2, <4>1, <4>2, <4>3, Zenon
    <3>5. (v - ALIAS_BASE) \div 8 < file.size \div 8
      <4>1. \A d \in Nat : d < file.size => d \div 8 < file.size \div 8
        BY <2>1, <2>5, <2>6, Zenon
      <4>2. QED
        BY <3>4, <4>1, Zenon
    <3>6. QED
      BY <2>5, <3>4, <3>5
  <2>9. RomSegment.end = RomSegment.start + 8 * Len(file.bundles)
    BY <2>1, <2>5, <2>6, <2>7
  <2>10. \A n \in Evidence : \E s \in db.segment :
           /\ s.start <= Values(Flat)[n] /\ Values(Flat)[n] < s.end
           /\ (Values(Flat)[n] - s.start) \div 8 < Len(db.bytes)
    BY <2>1, <2>3, <2>7, <2>8
  <2>11. \A s \in db.segment : s.end = s.start + 8 * Len(db.bytes) /\ s.end <= BADADDR
    BY <2>1, <2>3, <2>9
  <2>12. QED
    BY <2>1, <2>2, <2>4, <2>10, <2>11
<1>2. QED
  BY <1>1, DetectorInvariant, PTL
=============================================================================
