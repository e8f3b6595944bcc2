------------------------------ MODULE RawImage ------------------------------
(***************************************************************************)
(* The loader of raw firmware (loader.cpp) over the detector (raw.rs).     *)
(* IDA shows a file to every loader; accept_file judges a sample of it,    *)
(* and load_file judges it again, because it may have changed, and then    *)
(* fills the database step by step.  A failure ends the load where it is.  *)
(*                                                                         *)
(* A file is a sequence of bundles of 8 bytes; `size' may leave a rest.    *)
(* Of the slots of a bundle the scan for the base only uses what they do   *)
(* to tracked constants: a slot gives dst the value scale * src + imm, or  *)
(* imm if src is NoReg, and `shows' it as a data reference, or makes dst   *)
(* unknown (not `tracked').  Values are unsigned; their arithmetic is that *)
(* of module Words.                                                        *)
(***************************************************************************)
EXTENDS Integers, Sequences, FiniteSets, FiniteSetsExt, SequencesExt

CONSTANTS
  Files,         \* what the input may be: [container, size, bundles]
  Rewrites,      \* what may be written over it
  Regs, NoReg,
  SAMPLE_MAX,    \* bytes that the loader shows the detector
  SCORE_MIN, SCORE_MAX, SCAN_MAX, ACCEPT_SCORE,
  ALIAS_BASE, BADADDR,
  MAX_EDITS      \* bound on the changes of the file

Slot == [dst : Regs, src : Regs \cup {NoReg}, scale : Nat, imm : Nat,
         tracked : BOOLEAN, shows : BOOLEAN]

Bundle == [decodes : BOOLEAN, slots : Seq(Slot)]

Input == {f \in [container : BOOLEAN, size : Nat, bundles : Seq(Bundle)] :
            f.size \div 8 = Len(f.bundles)}

ASSUME FilesAssumption == Files \subseteq Input /\ Rewrites \subseteq Input

ASSUME SizesAssumption ==
  /\ {SAMPLE_MAX, SCORE_MIN, SCORE_MAX, SCAN_MAX, ACCEPT_SCORE, MAX_EDITS} \subseteq Nat
  /\ 8 <= SCORE_MIN /\ SCORE_MIN <= SCAN_MAX
  /\ ALIAS_BASE \in Nat \ {0}
  /\ BADADDR \in Nat

VARIABLES
  file,     \* the input
  pos,      \* the position in it, which all loaders share
  offered,  \* accept_file took the file
  phase,    \* of the handler that runs, or "idle", "loaded", "failed"
  caller,   \* "accept" or "load"
  sample,   \* the bytes being judged, as a file
  scan,     \* the loops of the detector
  verdict,
  db,       \* the database
  edits

vars == <<file, pos, offered, phase, caller, sample, scan, verdict, db, edits>>

Unknown == -1

NoTracker == [r \in Regs |-> Unknown]

ScanStart == [cursor |-> 1, slot |-> 1, decoded |-> 0, total |-> 0,
              tracker |-> NoTracker, hits |-> 0]

Rejected == [accepted |-> FALSE, score |-> 0, runtime_base |-> 0]

EmptyDb == [processor |-> FALSE, segment |-> {}, bytes |-> <<>>, entry |-> 0]

Empty == [container |-> FALSE, size |-> 0, bundles |-> <<>>]

Init ==
  /\ file \in Files
  /\ pos = 0
  /\ offered = FALSE
  /\ phase = "idle"
  /\ caller = "accept"
  /\ sample = Empty
  /\ scan = ScanStart
  /\ verdict = Rejected
  /\ db = EmptyDb
  /\ edits = 0

-----------------------------------------------------------------------------
(* Taking the sample (RawTilegxDetector of loader.cpp). *)

can_sample == file.size >= SCORE_MIN /\ file.size % 8 = 0

sample_size == Min({file.size, SAMPLE_MAX})

\* What a read of `want' bytes returns: all, less, or nothing.
Got(want) == {0, want - 4, want}

\* Mutant: the read begins where another loader left the position.
ReadFromHere(p) == p

ReadFrom(p) == 0

\* The first `got' bytes from a position, as a file.
Taken(f, from, got) ==
  LET first == (from + 7) \div 8
  IN  [container |-> f.container /\ from = 0, size |-> Min({got, f.size - from}),
       bundles |-> SubSeq(f.bundles, first + 1, Min({Len(f.bundles), first + got \div 8}))]

\* evaluate, up to the call of the detector and its first checks.  The position is
\* put back after the read.
Evaluate(who) ==
  /\ pos' = pos
  /\ caller' = who
  /\ scan' = ScanStart
  /\ verdict' = Rejected
  /\ \/ /\ ~can_sample
        /\ phase' = "judged"
        /\ UNCHANGED sample
     \/ /\ can_sample
        /\ \E got \in Got(sample_size) :
             /\ sample' = Taken(file, ReadFrom(pos), got)
             /\ phase' = IF \/ (Min({sample'.size, SCORE_MAX}) \div 8) * 8 < SCORE_MIN
                            \/ sample'.container
                         THEN "judged" ELSE "score"

-----------------------------------------------------------------------------
(* The detector (raw.rs). *)

\* The bundles of a sample that a loop with a limit in bytes looks at.
Reach(limit) == Min({Len(sample.bundles), limit \div 8})

Within(limit) == 1..Reach(limit)

ScoreBundle ==
  /\ phase = "score"
  /\ \/ /\ scan.cursor \in Within(SCORE_MAX)
        /\ scan' = [scan EXCEPT !.cursor = @ + 1, !.total = @ + 1,
                                !.decoded = IF sample.bundles[scan.cursor].decodes THEN @ + 1 ELSE @]
        /\ UNCHANGED phase
     \/ /\ scan.cursor \notin Within(SCORE_MAX)
        /\ scan' = [scan EXCEPT !.cursor = 1]
        /\ phase' = "scan"
  /\ UNCHANGED <<file, pos, offered, caller, sample, verdict, db, edits>>

alias_target_in_image(target) == target \in ALIAS_BASE..(ALIAS_BASE + sample.size - 1)

\* The value that a slot gives to its destination.
SlotValue(tracker, slot) ==
  IF ~slot.tracked THEN Unknown
  ELSE IF slot.src = NoReg THEN slot.imm
  ELSE IF tracker[slot.src] = Unknown THEN Unknown
  ELSE slot.scale * tracker[slot.src] + slot.imm

\* The scan goes on until there are two hits.
Scanning ==
  /\ phase = "scan"
  /\ scan.hits < 2
  /\ scan.cursor \in Within(SCAN_MAX)
  /\ UNCHANGED <<file, pos, offered, phase, caller, sample, verdict, db, edits>>

Current == sample.bundles[scan.cursor]

\* Mutant: a bundle that does not decode is stepped over.
SkipsUndecoded ==
  /\ Scanning
  /\ ~Current.decodes
  /\ scan' = [scan EXCEPT !.cursor = @ + 1]

\* Nothing is known behind a bundle that does not decode.
ScanUndecoded ==
  /\ Scanning
  /\ ~Current.decodes
  /\ scan' = [scan EXCEPT !.cursor = @ + 1, !.tracker = NoTracker]

ScanSlot ==
  /\ Scanning
  /\ Current.decodes
  /\ scan.slot \in DOMAIN Current.slots
  /\ LET slot  == Current.slots[scan.slot]
         value == SlotValue(scan.tracker, slot)
         hit   == slot.shows /\ value # Unknown /\ alias_target_in_image(value)
     IN  scan' = [scan EXCEPT !.slot = @ + 1, !.tracker = [@ EXCEPT ![slot.dst] = value],
                              !.hits = IF hit THEN @ + 1 ELSE @]

NextBundle ==
  /\ Scanning
  /\ Current.decodes
  /\ scan.slot \notin DOMAIN Current.slots
  /\ scan' = [scan EXCEPT !.cursor = @ + 1, !.slot = 1]

Judge ==
  /\ phase = "scan"
  /\ scan.hits >= 2 \/ scan.cursor \notin Within(SCAN_MAX)
  /\ LET score == (scan.decoded * 100) \div scan.total
         base  == IF scan.hits >= 2 THEN ALIAS_BASE ELSE 0
     IN  verdict' = [accepted |-> base # 0 /\ score >= ACCEPT_SCORE,
                     score |-> score, runtime_base |-> base]
  /\ phase' = "judged"
  /\ UNCHANGED <<file, pos, offered, caller, sample, scan, db, edits>>

-----------------------------------------------------------------------------
(* The handlers of loader.cpp. *)

AcceptFile ==
  /\ phase = "idle"
  /\ Evaluate("accept")
  /\ UNCHANGED <<file, offered, db, edits>>

FinishAccept ==
  /\ phase = "judged" /\ caller = "accept"
  /\ offered' = verdict.accepted
  /\ phase' = "idle"
  /\ UNCHANGED <<file, pos, caller, sample, scan, verdict, db, edits>>

\* load_file is only called for a file that was taken.
LoadFile ==
  /\ phase = "idle"
  /\ offered
  /\ \/ /\ file.size = 0
        /\ phase' = "failed"
        /\ UNCHANGED <<pos, caller, sample, scan, verdict>>
     \/ /\ file.size > 0
        /\ Evaluate("load")
  /\ UNCHANGED <<file, offered, db, edits>>

\* Mutant: the verdict of accept_file is taken as good enough.
AlwaysAccepted == offered

StillAccepted == verdict.accepted

Fail ==
  /\ phase' = "failed"
  /\ UNCHANGED db

\* Selecting the processor: IDA may not have it.
SelectProcessor ==
  /\ phase = "judged" /\ caller = "load"
  /\ \/ /\ StillAccepted
        /\ db' = [db EXCEPT !.processor = TRUE]
        /\ phase' = "segment"
     \/ Fail
  /\ UNCHANGED <<file, pos, offered, caller, sample, scan, verdict, edits>>

RomSegment == [start |-> verdict.runtime_base, end |-> verdict.runtime_base + file.size]

CreateSegment ==
  /\ phase = "segment"
  /\ \/ /\ verdict.runtime_base <= BADADDR - file.size
        /\ db' = [db EXCEPT !.segment = {RomSegment}]
        /\ phase' = "bytes"
     \/ Fail
  /\ UNCHANGED <<file, pos, offered, caller, sample, scan, verdict, edits>>

\* Mutant: the entry is marked before the bytes are read.
EntryThenBytes ==
  /\ phase = "bytes"
  /\ db' = [db EXCEPT !.entry = verdict.runtime_base]
  /\ phase' = "entry"
  /\ UNCHANGED <<file, pos, offered, caller, sample, scan, verdict, edits>>

\* The position is where the read left it.
LoadBytes ==
  /\ phase = "bytes"
  /\ \/ /\ db' = [db EXCEPT !.bytes = file.bundles]
        /\ phase' = "entry"
        /\ pos' = file.size
     \/ /\ Fail
        /\ pos' = 0
  /\ UNCHANGED <<file, offered, caller, sample, scan, verdict, edits>>

MarkEntry ==
  /\ phase = "entry"
  /\ db' = [db EXCEPT !.entry = verdict.runtime_base]
  /\ phase' = "loaded"
  /\ UNCHANGED <<file, pos, offered, caller, sample, scan, verdict, edits>>

-----------------------------------------------------------------------------
(* What happens between the handlers. *)

\* Another loader looks at the file and leaves the position anywhere.
OtherLoader ==
  /\ phase = "idle"
  /\ pos' \in {0, 8, file.size}
  /\ UNCHANGED <<file, offered, phase, caller, sample, scan, verdict, db, edits>>

\* A file with bundles that is emptied, gets a rest or a container's magic, loses its last
\* bundle, or has its first one overwritten.
Spoiled(f) ==
  {Empty,
   [f EXCEPT !.size = 8 * Len(f.bundles) + 4],
   [f EXCEPT !.container = TRUE],
   [f EXCEPT !.size = (Len(f.bundles) - 1) * 8, !.bundles = Front(@)],
   [f EXCEPT !.bundles = [@ EXCEPT ![1] = [decodes |-> FALSE, slots |-> <<>>]]]}

\* Another file is written over the input, or the input is spoiled.
FileChanges ==
  /\ phase = "idle"
  /\ edits < MAX_EDITS
  /\ edits' = edits + 1
  /\ \/ file' \in Rewrites
     \/ file.bundles # <<>> /\ file' \in Spoiled(file)
  /\ UNCHANGED <<pos, offered, phase, caller, sample, scan, verdict, db>>

Done == phase \in {"loaded", "failed"} /\ UNCHANGED vars

Next ==
  \/ AcceptFile \/ FinishAccept \/ LoadFile
  \/ ScoreBundle \/ ScanUndecoded \/ ScanSlot \/ NextBundle \/ Judge
  \/ SelectProcessor \/ CreateSegment \/ LoadBytes \/ MarkEntry
  \/ OtherLoader \/ FileChanges \/ Done

Spec == Init /\ [][Next]_vars

-----------------------------------------------------------------------------
(* What the bytes say, read as a whole. *)

\* The slots of a bundle; a bundle that does not decode is an entry that makes every
\* register unknown.
Barrier == [barrier |-> TRUE]

Entries(bundle) == IF bundle.decodes THEN bundle.slots ELSE <<Barrier>>

\* For every number of bundles, the entries of the first ones in order.
Flats(bundles) ==
  LET flat[k \in 0..Len(bundles)] == IF k = 0 THEN <<>> ELSE flat[k - 1] \o Entries(bundles[k])
  IN  flat

\* What the scan may look at.
Flat == Flats(sample.bundles)[Reach(SCAN_MAX)]

\* An entry that decides what is known of r.
Defines(entry, r) == entry = Barrier \/ entry.dst = r

\* The last of them before entry n, if any.
Definition(flat, n, r) == Max({0} \cup {m \in 1..(n - 1) : Defines(flat[m], r)})

\* The value of an entry, when those before it have theirs.
ValueOf(flat, n, value) ==
  IF n = 0 \/ flat[n] = Barrier \/ ~flat[n].tracked THEN Unknown
  ELSE IF flat[n].src = NoReg THEN flat[n].imm
  ELSE LET from == value[Definition(flat, n, flat[n].src)]
       IN  IF from = Unknown THEN Unknown ELSE flat[n].scale * from + flat[n].imm

\* The value of every entry, along the chain of definitions that leads to it.
Values(flat) ==
  LET value[n \in 0..Len(flat)] == ValueOf(flat, n, value)
  IN  value

\* The constants of the sample that name an address of the sample.
Evidence ==
  LET flat   == Flat
      values == Values(flat)
  IN  {n \in DOMAIN flat : /\ flat[n] # Barrier
                           /\ flat[n].shows
                           /\ alias_target_in_image(values[n])}

Scored == Within(SCORE_MAX)

DecodesOften ==
  Cardinality({k \in Scored : sample.bundles[k].decodes}) * 100 >= ACCEPT_SCORE * Cardinality(Scored)

-----------------------------------------------------------------------------
(* Properties. *)

\* The verdict is what the sample says as a whole: at least two constants whose
\* chains of definitions cross no undecodable bundle name addresses of the sample,
\* and the first bundles decode.  The loops stop early, share a tracker and count
\* separately (evaluate, runtime_base).
VerdictExact ==
  (phase = "judged" /\ scan # ScanStart) =>
    (verdict.accepted <=> Cardinality(Evidence) >= 2 /\ DecodesOften)

\* A file with a container's magic, a short or ragged one is never taken, whatever
\* its bundles say, also when it became one only after it was offered.
NeverTakesOthers ==
  phase \in {"segment", "bytes", "entry", "loaded"} =>
    /\ ~file.container
    /\ file.size % 8 = 0 /\ file.size >= SCORE_MIN
    /\ verdict.accepted

\* What was judged is what is loaded: the sample is the beginning of the loaded
\* bytes, and the references that made the detector choose the base name loaded
\* bytes of the segment that the loader makes there (load_file).
EvidenceLoaded ==
  phase \in {"entry", "loaded"} =>
    /\ sample.bundles = SubSeq(db.bytes, 1, Len(sample.bundles))
    /\ Cardinality(Evidence) >= 2
    /\ \A n \in Evidence : \E s \in db.segment :
         /\ s.start <= Values(Flat)[n] /\ Values(Flat)[n] < s.end
         /\ (Values(Flat)[n] - s.start) \div 8 < Len(db.bytes)
    /\ \A s \in db.segment : s.end = s.start + 8 * Len(db.bytes) /\ s.end <= BADADDR

\* A load that failed at any step leaves nothing to be analysed: an entry is only
\* there with the processor, the segment around it and its bytes (load_file).
NoEntryWithoutCode ==
  db.entry # 0 =>
    /\ db.processor
    /\ \E s \in db.segment : s.start = db.entry
    /\ db.bytes # <<>>
    /\ phase = "loaded"
=============================================================================
