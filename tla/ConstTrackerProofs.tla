------------------------- MODULE ConstTrackerProofs --------------------------
(***************************************************************************)
(* Proofs about ConstTracker, for every set of registers, every word, and  *)
(* every arithmetic that stays in the word.                                *)
(*                                                                         *)
(* The induction needs BundleOK: a register not written in the bundle so   *)
(* far still holds the value that all slots of the bundle read.            *)
(***************************************************************************)
EXTENDS ConstTracker, TLAPS

IInv == TypeOK /\ BundleOK /\ Sound /\ ReportsTrue

(***************************************************************************)
(* The operations of TgConstState keep the state a state.                  *)
(***************************************************************************)
LEMMA SetConstType ==
    ASSUME NEW t \in TrackerStates, NEW r \in Reg, NEW v \in Word
    PROVE  SetConst(t, r, v) \in TrackerStates
BY DEF SetConst, TrackerStates

LEMMA ClearConstType ==
    ASSUME NEW t \in TrackerStates, NEW r \in Reg
    PROVE  ClearConst(t, r) \in TrackerStates
BY WordAssumption DEF ClearConst, TrackerStates

LEMMA AddType ==
    ASSUME NEW x \in Word, NEW y \in Word
    PROVE  Alu("add", x, y) \in Word
BY AluAssumption

(***************************************************************************)
(* A slot that reads an untainted known register reads what the tracker    *)
(* believes.                                                               *)
(***************************************************************************)
LEMMA SourceAgrees ==
    ASSUME IInv, NEW s \in tracker.known, s \notin stale \cup written
    PROVE  tracker.value[s] = pre[s]
<1>1. s \in Reg
  BY DEF IInv, TypeOK, TrackerStates
<1>2. tracker.value[s] = regs[s]
  BY DEF IInv, Sound
<1>3. pre[s] = regs[s]
  BY <1>1 DEF IInv, BundleOK
<1> QED BY <1>2, <1>3

(***************************************************************************)
(* A report made from registers whose tracked values agree is right.       *)
(***************************************************************************)
LEMMA ReportRight ==
    ASSUME NEW S, NEW x \in Word, NEW y \in Word, ~Tainted(S) => x = y
    PROVE  /\ Report(S, x, y) \in [claimed : Word, actual : Word]
           /\ Report(S, x, y).claimed = Report(S, x, y).actual
BY WordAssumption DEF Report, NoReport

LEMMA NoReportRight ==
    /\ NoReport \in [claimed : Word, actual : Word]
    /\ NoReport.claimed = NoReport.actual
BY WordAssumption DEF NoReport

(***************************************************************************)
(* Writing one register keeps the machine's half of the invariant.         *)
(***************************************************************************)
LEMMA WriteKeepsBundle ==
    ASSUME IInv, NEW r \in Reg, NEW v \in Word, Write(r, v)
    PROVE  /\ BundleOK'
           /\ regs' \in [Reg -> Word] /\ pre' \in [Reg -> Word]
           /\ written' \in SUBSET Reg /\ flow' \in {"next", "call", "stop"}
           /\ \A s \in Reg \ {r} : regs'[s] = regs[s]
           /\ r # ZERO => regs'[r] = v
BY RegAssumption DEF IInv, TypeOK, BundleOK, Write

(***************************************************************************)
(* A tracked write preserves the invariant when its value is the machine's *)
(* value unless a source is tainted.                                       *)
(***************************************************************************)
LEMMA TrackKeeps ==
    ASSUME IInv, NEW op, NEW dst \in Reg, NEW S \in SUBSET Reg,
           NEW value \in Word, NEW actual \in Word,
           ~Tainted(S) => value = actual,
           Track(op, dst, S, value, actual)
    PROVE  IInv'
<1>1. Write(dst, actual)
  BY DEF Track
<1>2. tracker' = SetConst(tracker, dst, value) /\ tracker \in TrackerStates
  BY DEF Track, IInv, TypeOK
<1>3. tracker' \in TrackerStates
  BY <1>2, SetConstType
<1>4. stale' \in SUBSET Reg
  BY DEF Track, IInv, TypeOK
<1>5. report' \in [claimed : Word, actual : Word] /\ ReportsTrue'
  BY ReportRight, NoReportRight DEF Track, ReportsTrue
<1>6. TypeOK'
  BY <1>1, <1>3, <1>4, <1>5, WriteKeepsBundle DEF TypeOK
<1>7. Sound'
  <2> SUFFICES ASSUME NEW r \in tracker'.known, r \notin stale'
               PROVE  tracker'.value[r] = regs'[r]
    BY DEF Sound
  <2>1. CASE r = dst
    <3>1. dst # ZERO /\ ~Tainted(S)
      BY <2>1 DEF Track
    <3>2. tracker'.value[r] = value
      BY <1>2, <2>1 DEF SetConst, TrackerStates
    <3>3. regs'[r] = actual
      BY <1>1, <2>1, <3>1, WriteKeepsBundle
    <3> QED BY <3>1, <3>2, <3>3
  <2>2. CASE r # dst
    <3>1. r \in tracker.known /\ r \in Reg
      BY <1>2, <2>2 DEF SetConst, TrackerStates
    <3>2. r \notin stale
      BY <2>2 DEF Track
    <3>3. tracker'.value[r] = tracker.value[r]
      BY <1>2, <2>2, <3>1 DEF SetConst, TrackerStates
    <3>4. regs'[r] = regs[r]
      BY <1>1, <2>2, <3>1, WriteKeepsBundle
    <3> QED BY <3>1, <3>2, <3>3, <3>4 DEF IInv, Sound
  <2> QED BY <2>1, <2>2
<1> QED BY <1>1, <1>5, <1>6, <1>7, WriteKeepsBundle DEF IInv

(***************************************************************************)
(* Registers other than r keep their tracked value, and r, unless it is    *)
(* the zero register, is no longer known.                                  *)
(***************************************************************************)
LEMMA ClearConstEffect ==
    ASSUME NEW t \in TrackerStates, NEW r \in Reg,
           NEW s \in ClearConst(t, r).known
    PROVE  /\ s \in t.known /\ s \in Reg
           /\ s = r => s = ZERO
           /\ ClearConst(t, r).value[s] = t.value[s]
BY DEF ClearConst, TrackerStates

(***************************************************************************)
(* Forgetting the destination preserves the invariant whatever the machine *)
(* writes to it.                                                           *)
(***************************************************************************)
LEMMA ForgetKeeps ==
    ASSUME IInv, NEW dst \in Reg, NEW v \in Word, NEW rep,
           rep \in [claimed : Word, actual : Word], rep.claimed = rep.actual,
           tracker' = ClearConst(tracker, dst),
           stale' = stale \ ({dst} \ {ZERO}),
           report' = rep,
           Write(dst, v)
    PROVE  IInv'
<1>1. tracker \in TrackerStates
  BY DEF IInv, TypeOK
<1>2. TypeOK'
  <2>1. tracker' \in TrackerStates
    BY <1>1, ClearConstType
  <2>2. stale' \in SUBSET Reg
    BY DEF IInv, TypeOK
  <2> QED BY <2>1, <2>2, WriteKeepsBundle DEF TypeOK
<1>3. Sound'
  <2> SUFFICES ASSUME NEW r \in tracker'.known, r \notin stale'
               PROVE  tracker'.value[r] = regs'[r]
    BY DEF Sound
  <2>1. /\ r \in tracker.known /\ r \in Reg /\ (r = dst => r = ZERO)
        /\ tracker'.value[r] = tracker.value[r]
    BY <1>1, ClearConstEffect
  <2>2. r \notin stale
    BY <2>1
  <2>3. regs'[r] = regs[r]
    BY <2>1, RegAssumption DEF Write, IInv, TypeOK
  <2> QED BY <2>1, <2>2, <2>3 DEF IInv, Sound
<1>4. ReportsTrue'
  BY DEF ReportsTrue
<1> QED BY <1>2, <1>3, <1>4, WriteKeepsBundle DEF IInv

(***************************************************************************)
(* A step that leaves tracker, machine and ghost alone and reports from    *)
(* agreeing registers preserves the invariant.                             *)
(***************************************************************************)
LEMMA ReportOnlyKeeps ==
    ASSUME IInv, NEW rep, rep \in [claimed : Word, actual : Word],
           rep.claimed = rep.actual, report' = rep,
           UNCHANGED <<tracker, stale, machine>>
    PROVE  IInv'
BY DEF IInv, TypeOK, BundleOK, Sound, ReportsTrue, machine

LEMMA MemoryReportRight ==
    ASSUME IInv, NEW base \in Reg, NEW disp \in Imm
    PROVE  /\ MemoryReport(base, disp) \in [claimed : Word, actual : Word]
           /\ MemoryReport(base, disp).claimed = MemoryReport(base, disp).actual
<1>1. /\ tracker.value[base] \in Word /\ pre[base] \in Word /\ disp \in Word
  BY WordAssumption DEF IInv, TypeOK, TrackerStates
<1>2. CASE base \in tracker.known
  <2>1. ~Tainted({base}) => tracker.value[base] = pre[base]
    BY <1>2, SourceAgrees DEF Tainted
  <2>2. ~Tainted({base}) =>
            Alu("add", tracker.value[base], disp) = Alu("add", pre[base], disp)
    BY <2>1
  <2>3. /\ Alu("add", tracker.value[base], disp) \in Word
        /\ Alu("add", pre[base], disp) \in Word
    BY <1>1, AddType
  <2>. DEFINE R == Report({base}, Alu("add", tracker.value[base], disp),
                                  Alu("add", pre[base], disp))
  <2>4. R \in [claimed : Word, actual : Word] /\ R.claimed = R.actual
    BY <2>2, <2>3, ReportRight
  <2>5. MemoryReport(base, disp) \in {R, NoReport}
    BY DEF MemoryReport
  <2> QED BY <2>4, <2>5, NoReportRight
<1>3. CASE base \notin tracker.known
  BY <1>3, NoReportRight DEF MemoryReport
<1> QED BY <1>2, <1>3

LEMMA IndirectReportRight ==
    ASSUME IInv, NEW src \in Reg
    PROVE  /\ IndirectReport(src) \in [claimed : Word, actual : Word]
           /\ IndirectReport(src).claimed = IndirectReport(src).actual
<1>1. tracker.value[src] \in Word /\ pre[src] \in Word
  BY DEF IInv, TypeOK, TrackerStates
<1>2. CASE src \in tracker.known
  <2>1. ~Tainted({src}) => tracker.value[src] = pre[src]
    BY <1>2, SourceAgrees DEF Tainted
  <2>. DEFINE R == Report({src}, tracker.value[src], pre[src])
  <2>2. R \in [claimed : Word, actual : Word] /\ R.claimed = R.actual
    BY <1>1, <2>1, ReportRight
  <2>3. IndirectReport(src) \in {R, NoReport}
    BY DEF IndirectReport
  <2> QED BY <2>2, <2>3, NoReportRight
<1>3. CASE src \notin tracker.known
  BY <1>3, NoReportRight DEF IndirectReport
<1> QED BY <1>2, <1>3

(***************************************************************************)
(* The write-back of a base register: known bases move on by the           *)
(* displacement, unknown ones stay unknown.                                *)
(***************************************************************************)
LEMMA WriteBackType ==
    ASSUME NEW t \in TrackerStates, NEW base \in Reg, NEW disp \in Imm
    PROVE  WriteBack(t, base, disp) \in TrackerStates
<1>1. t.value[base] \in Word /\ disp \in Word
  BY WordAssumption DEF TrackerStates
<1>2. Alu("add", t.value[base], disp) \in Word
  BY <1>1, AddType
<1> QED BY <1>2, SetConstType, ClearConstType DEF WriteBack

LEMMA WriteBackEffect ==
    ASSUME NEW t \in TrackerStates, NEW base \in Reg, NEW disp \in Imm,
           NEW s \in WriteBack(t, base, disp).known
    PROVE  /\ s \in Reg /\ s \in t.known
           /\ s # base => WriteBack(t, base, disp).value[s] = t.value[s]
           /\ s = base => WriteBack(t, base, disp).value[s]
                             = Alu("add", t.value[base], disp)
<1>1. CASE base \in t.known
  BY <1>1 DEF WriteBack, SetConst, TrackerStates
<1>2. CASE base \notin t.known
  <2>1. WriteBack(t, base, disp) = ClearConst(t, base)
    BY <1>2 DEF WriteBack
  <2>2. s \in t.known /\ s \in Reg /\ ClearConst(t, base).value[s] = t.value[s]
    BY <2>1, ClearConstEffect
  <2> QED BY <1>2, <2>1, <2>2
<1> QED BY <1>1, <1>2

LEMMA StoreAddKeeps ==
    ASSUME IInv, NEW base \in Reg, NEW disp \in Imm, StoreAddSlot(base, disp)
    PROVE  IInv'
<1>1. tracker \in TrackerStates /\ tracker' = WriteBack(tracker, base, disp)
  BY DEF IInv, TypeOK, StoreAddSlot
<1>2. pre[base] \in Word /\ disp \in Word
  BY WordAssumption DEF IInv, TypeOK
<1>3. Write(base, Alu("add", pre[base], disp)) /\ Alu("add", pre[base], disp) \in Word
  BY <1>2, AddType DEF StoreAddSlot
<1>4. report' \in [claimed : Word, actual : Word] /\ ReportsTrue'
  BY MemoryReportRight DEF StoreAddSlot, ReportsTrue
<1>5. TypeOK'
  <2>1. tracker' \in TrackerStates
    BY <1>1, WriteBackType
  <2>2. stale' \in SUBSET Reg
    BY DEF StoreAddSlot, WriteBackStale, IInv, TypeOK
  <2> QED BY <1>3, <1>4, <2>1, <2>2, WriteKeepsBundle DEF TypeOK
<1>6. Sound'
  <2> SUFFICES ASSUME NEW r \in tracker'.known, r \notin stale'
               PROVE  tracker'.value[r] = regs'[r]
    BY DEF Sound
  <2>1. r \in Reg /\ r \in tracker.known
    BY <1>1, WriteBackEffect
  <2>2. CASE r = base
    <3>1. base # ZERO /\ ~Tainted({base})
      BY <2>2 DEF StoreAddSlot, WriteBackStale
    <3>2. tracker.value[base] = pre[base]
      BY <2>1, <2>2, <3>1, SourceAgrees DEF Tainted
    <3>3. tracker'.value[r] = Alu("add", tracker.value[base], disp)
      BY <1>1, <2>2, WriteBackEffect
    <3>4. regs'[r] = Alu("add", pre[base], disp)
      BY <1>3, <2>2, <3>1, WriteKeepsBundle
    <3> QED BY <3>2, <3>3, <3>4
  <2>3. CASE r # base
    <3>1. r \notin stale
      BY <2>3 DEF StoreAddSlot, WriteBackStale
    <3>2. tracker'.value[r] = tracker.value[r]
      BY <1>1, <2>3, WriteBackEffect
    <3>3. regs'[r] = regs[r]
      BY <1>3, <2>1, <2>3, WriteKeepsBundle
    <3> QED BY <2>1, <3>1, <3>2, <3>3 DEF IInv, Sound
  <2> QED BY <2>2, <2>3
<1> QED BY <1>3, <1>4, <1>5, <1>6, WriteKeepsBundle DEF IInv

LEMMA LoadAddKeeps ==
    ASSUME IInv, NEW dst \in Reg, NEW base \in Reg, NEW disp \in Imm,
           LoadAddSlot(dst, base, disp)
    PROVE  IInv'
<1>. DEFINE cleared == ClearConst(tracker, dst)
           moved(loaded) == IF base = dst THEN loaded
                            ELSE [loaded EXCEPT ![base] = Alu("add", pre[base], disp)]
<1>1. tracker \in TrackerStates /\ cleared \in TrackerStates
  BY ClearConstType DEF IInv, TypeOK
<1>2. tracker' = WriteBack(cleared, base, disp)
  BY DEF LoadAddSlot
<1>3. Alu("add", pre[base], disp) \in Word
  <2>1. pre[base] \in Word /\ disp \in Word
    BY WordAssumption DEF IInv, TypeOK
  <2> QED BY <2>1, AddType
<1>4. PICK v \in Inputs : regs' = [moved([regs EXCEPT ![dst] = v]) EXCEPT ![ZERO] = 0]
  BY DEF LoadAddSlot
<1>5. regs' \in [Reg -> Word] /\ regs'[ZERO] = 0
  BY <1>3, <1>4, WordAssumption, RegAssumption DEF IInv, TypeOK
<1>6. \A r \in Reg \ {dst, base} : regs'[r] = regs[r]
  BY <1>4, RegAssumption DEF IInv, TypeOK, BundleOK
<1>7. base # dst /\ base # ZERO => regs'[base] = Alu("add", pre[base], disp)
  BY <1>4, RegAssumption DEF IInv, TypeOK
<1>8. pre' = pre /\ flow' = flow /\ written' = written \cup ({dst, base} \ {ZERO})
  BY DEF LoadAddSlot
<1>9. BundleOK'
  <2>1. \A r \in Reg \ written' : pre'[r] = regs'[r]
    <3> SUFFICES ASSUME NEW r \in Reg \ written' PROVE pre'[r] = regs'[r]
      OBVIOUS
    <3>1. CASE r = ZERO
      BY <1>5, <1>8, <3>1, RegAssumption DEF IInv, BundleOK
    <3>2. CASE r # ZERO
      BY <1>6, <1>8, <3>2 DEF IInv, BundleOK
    <3> QED BY <3>1, <3>2
  <2> QED BY <1>5, <1>8, <2>1 DEF IInv, BundleOK
<1>10. report' \in [claimed : Word, actual : Word] /\ ReportsTrue'
  BY MemoryReportRight DEF LoadAddSlot, ReportsTrue
<1>11. TypeOK'
  <2>1. tracker' \in TrackerStates
    BY <1>1, <1>2, WriteBackType
  <2>2. stale' \in SUBSET Reg
    BY DEF LoadAddSlot, WriteBackStale, IInv, TypeOK
  <2> QED BY <1>5, <1>8, <1>10, <2>1, <2>2 DEF TypeOK, IInv
<1>12. Sound'
  <2> SUFFICES ASSUME NEW r \in tracker'.known, r \notin stale'
               PROVE  tracker'.value[r] = regs'[r]
    BY DEF Sound
  <2>1. r \in Reg /\ r \in cleared.known
    BY <1>1, <1>2, WriteBackEffect
  <2>2. /\ r \in tracker.known /\ (r = dst => r = ZERO)
        /\ cleared.value[r] = tracker.value[r]
    BY <1>1, <2>1, ClearConstEffect
  <2>3. r \notin WriteBackStale(base)
    BY <2>2 DEF LoadAddSlot
  <2>4. CASE r = base
    <3>1. base # ZERO /\ ~Tainted({base})
      BY <2>3, <2>4 DEF WriteBackStale
    <3>2. tracker.value[base] = pre[base]
      BY <2>2, <2>4, <3>1, SourceAgrees DEF Tainted
    <3>3. tracker'.value[r] = Alu("add", cleared.value[base], disp)
      BY <1>1, <1>2, <2>4, WriteBackEffect
    <3>4. regs'[r] = Alu("add", pre[base], disp)
      BY <1>7, <2>2, <2>4, <3>1
    <3> QED BY <2>2, <2>4, <3>2, <3>3, <3>4
  <2>5. CASE r # base
    <3>1. r \notin stale
      BY <2>3, <2>5 DEF WriteBackStale
    <3>2. tracker'.value[r] = tracker.value[r]
      BY <1>1, <1>2, <2>2, <2>5, WriteBackEffect
    <3>3. regs'[r] = regs[r]
      BY <1>5, <1>6, <2>1, <2>2, <2>5 DEF IInv, BundleOK
    <3> QED BY <2>2, <3>1, <3>2, <3>3 DEF IInv, Sound
  <2> QED BY <2>4, <2>5
<1> QED BY <1>9, <1>10, <1>11, <1>12 DEF IInv

(***************************************************************************)
(* Each slot preserves the invariant.                                      *)
(***************************************************************************)
LEMMA AluSlotKeeps ==
    ASSUME IInv, AluSlot
    PROVE  IInv'
<1>. USE RegAssumption, WordAssumption
<1>1. tracker \in TrackerStates /\ pre \in [Reg -> Word]
  BY DEF IInv, TypeOK
<1>2. ASSUME NEW dst \in Reg, NEW src \in Reg, MoveSlot(dst, src) PROVE IInv'
  <2>1. tracker.value[src] \in Word /\ pre[src] \in Word
    BY <1>1 DEF TrackerStates
  <2>2. CASE src \in tracker.known
    <3>1. Track("move", dst, {src}, tracker.value[src], pre[src])
      BY <1>2, <2>2 DEF MoveSlot
    <3>2. ~Tainted({src}) => tracker.value[src] = pre[src]
      BY <2>2, SourceAgrees DEF Tainted
    <3> QED BY <2>1, <3>1, <3>2, TrackKeeps
  <2>3. CASE src \notin tracker.known
    BY <1>2, <2>1, <2>3, ForgetKeeps, NoReportRight DEF MoveSlot, Forget
  <2> QED BY <2>2, <2>3
<1>3. ASSUME NEW dst \in Reg, NEW imm \in Imm, MoveImmSlot(dst, imm) PROVE IInv'
  <2>1. imm \in Word /\ Track("movei", dst, {}, imm, imm)
    BY <1>3 DEF MoveImmSlot
  <2> QED BY <2>1, TrackKeeps
<1>4. ASSUME NEW op \in ImmOps, NEW dst \in Reg, NEW src \in Reg, NEW imm \in Imm,
             AluImmSlot(op, dst, src, imm)
      PROVE  IInv'
  <2>1. tracker.value[src] \in Word /\ pre[src] \in Word /\ imm \in Word
    BY <1>1 DEF TrackerStates
  <2>2. Alu(op, tracker.value[src], imm) \in Word /\ Alu(op, pre[src], imm) \in Word
    BY <2>1, AluAssumption
  <2>3. CASE src \in tracker.known
    <3>1. Track(op, dst, {src}, Alu(op, tracker.value[src], imm), Alu(op, pre[src], imm))
      BY <1>4, <2>3 DEF AluImmSlot
    <3>2. ~Tainted({src}) => tracker.value[src] = pre[src]
      BY <2>3, SourceAgrees DEF Tainted
    <3>3. ~Tainted({src}) => Alu(op, tracker.value[src], imm) = Alu(op, pre[src], imm)
      BY <3>2
    <3> QED BY <2>2, <3>1, <3>3, TrackKeeps
  <2>4. CASE src \notin tracker.known
    BY <1>4, <2>2, <2>4, ForgetKeeps, NoReportRight DEF AluImmSlot, Forget
  <2> QED BY <2>3, <2>4
<1>5. ASSUME NEW op \in RegOps, NEW dst \in Reg, NEW lhs \in Reg, NEW rhs \in Reg,
             AluRegSlot(op, dst, lhs, rhs)
      PROVE  IInv'
  <2>. DEFINE claimed == Alu(op, tracker.value[lhs], tracker.value[rhs])
              actual == Alu(op, pre[lhs], pre[rhs])
  <2>1. /\ tracker.value[lhs] \in Word /\ tracker.value[rhs] \in Word
        /\ pre[lhs] \in Word /\ pre[rhs] \in Word
    BY <1>1 DEF TrackerStates
  <2>2. claimed \in Word /\ actual \in Word
    BY <2>1, AluAssumption
  <2>3. CASE {lhs, rhs} \subseteq tracker.known
    <3>1. Track(op, dst, {lhs, rhs}, claimed, actual)
      BY <1>5, <2>3 DEF AluRegSlot
    <3>2. ASSUME ~Tainted({lhs, rhs}) PROVE claimed = actual
      <4>1. lhs \notin stale \cup written /\ rhs \notin stale \cup written
        BY <3>2 DEF Tainted
      <4>2. tracker.value[lhs] = pre[lhs] /\ tracker.value[rhs] = pre[rhs]
        BY <2>3, <4>1, SourceAgrees
      <4> QED BY <4>2
    <3>. HIDE DEF claimed, actual
    <3> QED BY <2>2, <3>1, <3>2, TrackKeeps
  <2>4. CASE ~({lhs, rhs} \subseteq tracker.known)
    BY <1>5, <2>2, <2>4, ForgetKeeps, NoReportRight DEF AluRegSlot, Forget
  <2> QED BY <2>3, <2>4
<1>6. ASSUME NEW dst \in Reg, OpaqueSlot(dst) PROVE IInv'
  <2>1. PICK v \in Inputs : Forget(dst, v)
    BY <1>6 DEF OpaqueSlot
  <2> QED BY <2>1, ForgetKeeps, NoReportRight DEF Forget
<1>7. ASSUME NEW src \in Reg, MtsprSlot(src) PROVE IInv'
  <2>1. tracker.value[src] \in Word /\ pre[src] \in Word
    BY <1>1 DEF TrackerStates
  <2>2. src \in tracker.known => (~Tainted({src}) => tracker.value[src] = pre[src])
    BY SourceAgrees DEF Tainted
  <2>3. /\ report' \in [claimed : Word, actual : Word]
        /\ report'.claimed = report'.actual
    BY <1>7, <2>1, <2>2, ReportRight, NoReportRight DEF MtsprSlot
  <2> QED BY <1>7, <2>3, ReportOnlyKeeps DEF MtsprSlot
<1> QED BY <1>2, <1>3, <1>4, <1>5, <1>6, <1>7 DEF AluSlot

LEMMA MemorySlotKeeps ==
    ASSUME IInv, MemorySlot
    PROVE  IInv'
<1>1. ASSUME NEW base \in Reg, NEW disp \in Imm, MemorySlotNoWriteback(base, disp)
      PROVE  IInv'
  BY <1>1, MemoryReportRight, ReportOnlyKeeps DEF MemorySlotNoWriteback
<1>2. ASSUME NEW dst \in Reg, NEW base \in Reg, NEW disp \in Imm,
             LoadSlot(dst, base, disp)
      PROVE  IInv'
  <2>1. PICK v \in Inputs : Write(dst, v)
    BY <1>2 DEF LoadSlot
  <2> QED BY <1>2, <2>1, MemoryReportRight, ForgetKeeps, WordAssumption DEF LoadSlot
<1> QED BY <1>1, <1>2, LoadAddKeeps, StoreAddKeeps DEF MemorySlot

(***************************************************************************)
(* A call leaves a stale link register behind; nothing else moves.         *)
(***************************************************************************)
LEMMA ControlSlotKeeps ==
    ASSUME IInv, ControlSlot
    PROVE  IInv'
<1>. USE RegAssumption, WordAssumption
<1>1. ASSUME NEW src \in Reg, JumpRegSlot(src) PROVE IInv'
  BY <1>1, IndirectReportRight
     DEF JumpRegSlot, IInv, TypeOK, BundleOK, Sound, ReportsTrue
<1>2. ASSUME NEW v \in Inputs, NEW rep \in [claimed : Word, actual : Word],
             rep.claimed = rep.actual,
             report' = rep, flow' = "call", regs' = [regs EXCEPT ![LR] = v],
             written' = written \cup {LR}, stale' = LinkStale,
             UNCHANGED <<tracker, pre>>
      PROVE  IInv'
  <2>1. TypeOK' /\ BundleOK' /\ ReportsTrue'
    BY <1>2 DEF IInv, TypeOK, BundleOK, ReportsTrue, LinkStale
  <2>2. Sound'
    <3> SUFFICES ASSUME NEW r \in tracker.known, r \notin LinkStale
                 PROVE  tracker.value[r] = regs'[r]
      BY <1>2 DEF Sound
    <3>1. r \in Reg /\ r # LR /\ r \notin stale
      BY DEF LinkStale, IInv, TypeOK, TrackerStates
    <3>2. regs'[r] = regs[r]
      BY <1>2, <3>1 DEF IInv, TypeOK
    <3> QED BY <3>1, <3>2 DEF IInv, Sound
  <2> QED BY <2>1, <2>2 DEF IInv
<1>3. ASSUME NEW src \in Reg, CallRegSlot(src) PROVE IInv'
  BY <1>2, <1>3, IndirectReportRight DEF CallRegSlot
<1>4. ASSUME CallSlot PROVE IInv'
  BY <1>2, <1>4, NoReportRight DEF CallSlot
<1> QED BY <1>1, <1>3, <1>4 DEF ControlSlot

(***************************************************************************)
(* Entering a bundle preserves the invariant when the registers that may   *)
(* have changed are stale, or nothing but the zero register is known.      *)
(***************************************************************************)
LEMMA EnterBundleKeeps ==
    ASSUME NEW f \in [Reg -> Word], f[ZERO] = 0, EnterBundle(f),
           tracker' \in TrackerStates, stale' \in SUBSET Reg,
           \A r \in tracker'.known \ stale' : tracker'.value[r] = f[r]
    PROVE  IInv'
BY NoReportRight DEF EnterBundle, IInv, TypeOK, BundleOK, Sound, ReportsTrue

LEMMA BundleEntryKeeps ==
    ASSUME IInv, BundleEntry
    PROVE  IInv'
<1>. USE RegAssumption, WordAssumption
<1>1. tracker \in TrackerStates /\ regs \in [Reg -> Word] /\ regs[ZERO] = 0
  BY DEF IInv, TypeOK, BundleOK
<1>2. CASE FallThrough
  BY <1>1, <1>2, EnterBundleKeeps DEF FallThrough, IInv, TypeOK, Sound
<1>3. CASE ReturnFromCall
  <2>1. PICK f \in [Clobbered -> Inputs] :
          EnterBundle([r \in Reg |-> IF r \in Clobbered THEN f[r] ELSE regs[r]])
    BY <1>3 DEF ReturnFromCall
  <2>. DEFINE g == [r \in Reg |-> IF r \in Clobbered THEN f[r] ELSE regs[r]]
  <2>2. g \in [Reg -> Word] /\ g[ZERO] = 0
    BY <1>1, ClobberAssumption
  <2>3. tracker' = tracker /\ stale' = stale \cup (Clobbered \cap tracker.known)
    BY <1>3 DEF ReturnFromCall
  <2>4. stale' \in SUBSET Reg
    BY <2>3, ClobberAssumption DEF IInv, TypeOK
  <2>5. \A r \in tracker'.known \ stale' : tracker'.value[r] = g[r]
    BY <1>1, <2>3 DEF IInv, Sound, TrackerStates
  <2>. HIDE DEF g
  <2> QED BY <1>1, <2>1, <2>2, <2>3, <2>4, <2>5, EnterBundleKeeps DEF g
<1>4. ASSUME NEW f \in [Reg \ {ZERO} -> Inputs],
             EnterBundle([r \in Reg |-> IF r = ZERO THEN 0 ELSE f[r]]),
             tracker' \in TrackerStates, stale' \in SUBSET Reg,
             tracker'.known \ stale' \subseteq {ZERO},
             ZERO \in tracker'.known \ stale' => tracker'.value[ZERO] = 0
      PROVE  IInv'
  <2>. DEFINE g == [r \in Reg |-> IF r = ZERO THEN 0 ELSE f[r]]
  <2>1. g \in [Reg -> Word] /\ g[ZERO] = 0
    OBVIOUS
  <2>2. \A r \in tracker'.known \ stale' : tracker'.value[r] = g[r]
    BY <1>4, <2>1
  <2>. HIDE DEF g
  <2> QED BY <1>4, <2>1, <2>2, EnterBundleKeeps DEF g
<1>5. CASE EnterUnlabelled
  <2>1. PICK f \in [Reg \ {ZERO} -> Inputs] :
          EnterBundle([r \in Reg |-> IF r = ZERO THEN 0 ELSE f[r]])
    BY <1>5 DEF EnterUnlabelled
  <2>2. tracker' = tracker /\ stale' = stale \cup (tracker.known \ {ZERO})
    BY <1>5 DEF EnterUnlabelled
  <2>3. stale' \in SUBSET Reg
    BY <1>1, <2>2 DEF IInv, TypeOK, TrackerStates
  <2>4. ZERO \in tracker.known \ stale => tracker.value[ZERO] = 0
    BY <1>1 DEF IInv, Sound
  <2> QED BY <1>1, <1>4, <2>1, <2>2, <2>3, <2>4
<1>6. CASE EnterLabel
  <2>1. PICK f \in [Reg \ {ZERO} -> Inputs] :
          EnterBundle([r \in Reg |-> IF r = ZERO THEN 0 ELSE f[r]])
    BY <1>6 DEF EnterLabel
  <2>2. tracker' = InitialTracker /\ stale' = {}
    BY <1>6 DEF EnterLabel
  <2>3. InitialTracker \in TrackerStates
    BY DEF InitialTracker, TrackerStates
  <2>4. InitialTracker.known = {ZERO} /\ InitialTracker.value[ZERO] = 0
    BY DEF InitialTracker
  <2> QED BY <1>4, <2>1, <2>2, <2>3, <2>4
<1> QED BY <1>2, <1>3, <1>5, <1>6 DEF BundleEntry

-----------------------------------------------------------------------------

LEMMA InitEstablishes == Init => IInv
<1> SUFFICES ASSUME Init PROVE IInv
  OBVIOUS
<1>. USE RegAssumption, WordAssumption
<1>1. InitialTracker \in TrackerStates
  BY DEF InitialTracker, TrackerStates
<1>2. PICK f \in [Reg \ {ZERO} -> Inputs] :
        regs = [r \in Reg |-> IF r = ZERO THEN 0 ELSE f[r]]
  BY DEF Init
<1>3. regs \in [Reg -> Word] /\ regs[ZERO] = 0
  BY <1>2
<1>4. TypeOK /\ BundleOK /\ ReportsTrue
  BY <1>1, <1>3, NoReportRight DEF Init, TypeOK, BundleOK, ReportsTrue
<1>5. Sound
  BY <1>3 DEF Init, Sound, InitialTracker
<1> QED BY <1>4, <1>5 DEF IInv

LEMMA NextKeeps == IInv /\ [Next]_vars => IInv'
<1> SUFFICES ASSUME IInv, [Next]_vars PROVE IInv'
  OBVIOUS
<1>1. CASE Next
  BY <1>1, AluSlotKeeps, MemorySlotKeeps, ControlSlotKeeps, BundleEntryKeeps DEF Next
<1>2. CASE UNCHANGED vars
  BY <1>2 DEF vars, IInv, TypeOK, BundleOK, Sound, ReportsTrue
<1> QED BY <1>1, <1>2

(***************************************************************************)
(* The inductive invariant holds in every reachable state.                 *)
(***************************************************************************)
THEOREM Invariance == Spec => []IInv
BY InitEstablishes, NextKeeps, PTL DEF Spec

(***************************************************************************)
(* The tracker state, the machine and the ghosts keep their types: no      *)
(* tracked value leaves the word, whatever sequence of slots is replayed.  *)
(***************************************************************************)
THEOREM TypeCorrect == Spec => []TypeOK
<1>1. IInv => TypeOK
  BY DEF IInv
<1> QED BY <1>1, Invariance, PTL

(***************************************************************************)
(* Tracked values of registers that are not stale are the machine's, for   *)
(* every register set, word, arithmetic and sequence of bundles.           *)
(***************************************************************************)
THEOREM TrackerSound == Spec => []Sound
<1>1. IInv => Sound
  BY DEF IInv
<1> QED BY <1>1, Invariance, PTL

(***************************************************************************)
(* References and comments derived from untainted registers are right.     *)
(***************************************************************************)
THEOREM ReportsSound == Spec => []ReportsTrue
<1>1. IInv => ReportsTrue
  BY DEF IInv
<1> QED BY <1>1, Invariance, PTL

-----------------------------------------------------------------------------
(* What a step forgets: this needs no invariant, only the steps.           *)

Lost == tracker.known \ tracker'.known

LEMMA SetConstLosesNothing ==
    ASSUME NEW t, NEW r, NEW v
    PROVE  t.known \subseteq SetConst(t, r, v).known
BY DEF SetConst

LEMMA ClearConstLosesOne ==
    ASSUME NEW t, NEW r
    PROVE  t.known \ ClearConst(t, r).known \subseteq {r} \ {ZERO}
BY DEF ClearConst

LEMMA WriteBackLosesBase ==
    ASSUME NEW t, NEW b, NEW d
    PROVE  t.known \ WriteBack(t, b, d).known \subseteq {b} \ {ZERO}
BY SetConstLosesNothing, ClearConstLosesOne DEF WriteBack

LEMMA ForgetLosesWritten ==
    ASSUME NEW dst, NEW v, Forget(dst, v)
    PROVE  Lost \subseteq written'
<1>1. tracker' = ClearConst(tracker, dst) /\ written' = written \cup ({dst} \ {ZERO})
  BY DEF Forget, Write
<1>2. Lost \subseteq {dst} \ {ZERO}
  BY <1>1, ClearConstLosesOne DEF Lost
<1> QED BY <1>1, <1>2

LEMMA TrackLosesNothing ==
    ASSUME NEW op, NEW dst, NEW S, NEW v, NEW w, Track(op, dst, S, v, w)
    PROVE  Lost \subseteq written'
<1>1. tracker' = SetConst(tracker, dst, v)
  BY DEF Track
<1> QED BY <1>1, SetConstLosesNothing DEF Lost

LEMMA AluSlotLosesWritten == AluSlot => Lost \subseteq written'
<1> SUFFICES ASSUME AluSlot PROVE Lost \subseteq written'
  OBVIOUS
<1>. USE ForgetLosesWritten, TrackLosesNothing
<1>1. ASSUME NEW dst \in Reg, NEW src \in Reg, MoveSlot(dst, src)
      PROVE  Lost \subseteq written'
  BY <1>1 DEF MoveSlot
<1>2. ASSUME NEW dst \in Reg, NEW imm \in Imm, MoveImmSlot(dst, imm)
      PROVE  Lost \subseteq written'
  BY <1>2 DEF MoveImmSlot
<1>3. ASSUME NEW op \in ImmOps, NEW dst \in Reg, NEW src \in Reg, NEW imm \in Imm,
             AluImmSlot(op, dst, src, imm)
      PROVE  Lost \subseteq written'
  BY <1>3 DEF AluImmSlot
<1>4. ASSUME NEW op \in RegOps, NEW dst \in Reg, NEW lhs \in Reg, NEW rhs \in Reg,
             AluRegSlot(op, dst, lhs, rhs)
      PROVE  Lost \subseteq written'
  BY <1>4 DEF AluRegSlot
<1>5. ASSUME NEW dst \in Reg, OpaqueSlot(dst)
      PROVE  Lost \subseteq written'
  BY <1>5 DEF OpaqueSlot
<1>6. ASSUME NEW src \in Reg, MtsprSlot(src)
      PROVE  Lost \subseteq written'
  BY <1>6 DEF MtsprSlot, Lost
<1> QED BY <1>1, <1>2, <1>3, <1>4, <1>5, <1>6 DEF AluSlot

LEMMA MemorySlotLosesWritten == MemorySlot => Lost \subseteq written'
<1> SUFFICES ASSUME MemorySlot PROVE Lost \subseteq written'
  OBVIOUS
<1>1. ASSUME NEW base \in Reg, NEW disp \in Imm, MemorySlotNoWriteback(base, disp)
      PROVE  Lost \subseteq written'
  BY <1>1 DEF MemorySlotNoWriteback, Lost
<1>2. ASSUME NEW dst \in Reg, NEW base \in Reg, NEW disp \in Imm, LoadSlot(dst, base, disp)
      PROVE  Lost \subseteq written'
  <2>1. /\ tracker' = ClearConst(tracker, dst)
        /\ written' = written \cup ({dst} \ {ZERO})
    BY <1>2 DEF LoadSlot, Write
  <2> QED BY <2>1, ClearConstLosesOne DEF Lost
<1>3. ASSUME NEW dst \in Reg, NEW base \in Reg, NEW disp \in Imm, LoadAddSlot(dst, base, disp)
      PROVE  Lost \subseteq written'
  <2>1. /\ tracker' = WriteBack(ClearConst(tracker, dst), base, disp)
        /\ written' = written \cup ({dst, base} \ {ZERO})
    BY <1>3 DEF LoadAddSlot
  <2>2. tracker.known \ ClearConst(tracker, dst).known \subseteq {dst} \ {ZERO}
    BY ClearConstLosesOne
  <2>3. ClearConst(tracker, dst).known \ tracker'.known \subseteq {base} \ {ZERO}
    BY <2>1, WriteBackLosesBase
  <2> QED BY <2>1, <2>2, <2>3 DEF Lost
<1>4. ASSUME NEW base \in Reg, NEW disp \in Imm, StoreAddSlot(base, disp)
      PROVE  Lost \subseteq written'
  <2>1. /\ tracker' = WriteBack(tracker, base, disp)
        /\ written' = written \cup ({base} \ {ZERO})
    BY <1>4 DEF StoreAddSlot, Write
  <2> QED BY <2>1, WriteBackLosesBase DEF Lost
<1> QED BY <1>1, <1>2, <1>3, <1>4 DEF MemorySlot

(***************************************************************************)
(* No slot makes the tracker forget a register that its bundle does not    *)
(* write; only a boundary of the replay discards more.                     *)
(***************************************************************************)
THEOREM ForgetsLittle == Spec => ForgetsOnlyWritten
<1>1. Next => tracker' = InitialTracker \/ Lost \subseteq written'
  <2>1. ControlSlot => Lost \subseteq written'
    BY DEF ControlSlot, JumpRegSlot, CallRegSlot, CallSlot, Lost
  <2>2. BundleEntry => tracker' = InitialTracker \/ Lost \subseteq written'
    BY DEF BundleEntry, FallThrough, ReturnFromCall, EnterUnlabelled, EnterLabel, Lost
  <2> QED BY <2>1, <2>2, AluSlotLosesWritten, MemorySlotLosesWritten DEF Next
<1>2. [Next]_vars => [\/ tracker' = InitialTracker
                      \/ tracker.known \ tracker'.known \subseteq written']_vars
  BY <1>1 DEF Lost
<1> QED BY <1>2, PTL DEF Spec, ForgetsOnlyWritten
=============================================================================
