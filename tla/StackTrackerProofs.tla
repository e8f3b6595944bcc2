------------------------- MODULE StackTrackerProofs --------------------------
(***************************************************************************)
(* Proofs about StackTracker, for every set of registers and every word    *)
(* with an associative addition.                                           *)
(*                                                                         *)
(* The induction needs BundleOK: a register that no slot of the bundle has *)
(* written holds the value that all its slots read, and zero reads as 0.   *)
(***************************************************************************)
EXTENDS StackTracker, TLAPS

BundleOK ==
    /\ regs[ZERO] = 0
    /\ \A r \in Reg \ written : pre[r] = regs[r]

IInv == TypeOK /\ BundleOK /\ OffsetsTrue /\ ShownTrue

Aliases == [valid : SUBSET Reg, offset : [Reg -> Word]]

Shows == [offset : Word, actual : Word]

Right(s) == s \in Shows /\ s.actual = Plus(Entry, s.offset)

(***************************************************************************)
(* Invalidating a register takes its offset away and leaves the others.    *)
(***************************************************************************)
LEMMA InvalidateEffect ==
    ASSUME NEW a \in Aliases, NEW dst \in Reg
    PROVE  /\ Invalidate(a, dst) \in Aliases
           /\ Invalidate(a, dst).valid = a.valid \ {dst}
           /\ \A r \in Reg \ {dst} : Invalidate(a, dst).offset[r] = a.offset[r]
BY WordAssumption DEF Invalidate, Aliases

(* At the entry only sp has an offset, which is 0 (reset). *)
LEMMA AtEntryType == AtEntry \in Aliases
BY RegAssumption, WordAssumption DEF AtEntry, Aliases

(***************************************************************************)
(* PlusAssumption, one property at a time: sums are words, 0 adds nothing, *)
(* and offsets may be added before or after.                               *)
(***************************************************************************)
LEMMA PlusType == ASSUME NEW x \in Word, NEW y \in Word PROVE Plus(x, y) \in Word
BY PlusAssumption

(* 0 adds nothing to a word. *)
LEMMA PlusZero == ASSUME NEW x \in Word PROVE Plus(x, 0) = x
BY PlusAssumption, WordAssumption

(* Offsets may be added before or after. *)
LEMMA PlusAssociates ==
    ASSUME NEW x \in Word, NEW y \in Word, NEW z \in Word
    PROVE  Plus(Plus(x, y), z) = Plus(x, Plus(y, z))
BY PlusAssumption

(***************************************************************************)
(* A slot that reads a register with an offset reads sp at the entry plus  *)
(* that offset, if the register is not tainted.                            *)
(***************************************************************************)
LEMMA SourceAgrees ==
    ASSUME IInv, NEW src \in aliases.valid, ~Tainted(src)
    PROVE  /\ src \in Reg
           /\ aliases.offset[src] \in Word
           /\ pre[src] = Plus(Entry, aliases.offset[src])
<1>1. src \in Reg /\ aliases.offset[src] \in Word
  BY DEF IInv, TypeOK
<1>2. regs[src] = Plus(Entry, aliases.offset[src])
  BY DEF IInv, OffsetsTrue, Tainted
<1>3. pre[src] = regs[src]
  BY <1>1 DEF IInv, BundleOK, Tainted
<1> QED BY <1>1, <1>2, <1>3

(***************************************************************************)
(* Moving an untainted source by an immediate moves both sides alike.      *)
(***************************************************************************)
LEMMA MovedAlike ==
    ASSUME IInv, NEW src \in aliases.valid, ~Tainted(src), NEW imm \in Word
    PROVE  Plus(pre[src], imm) = Plus(Entry, Plus(aliases.offset[src], imm))
BY SourceAgrees, PlusAssociates, WordAssumption

(***************************************************************************)
(* Showing no stack slot claims nothing wrong.                             *)
(***************************************************************************)
LEMMA NotShownRight == Right(NotShown)
BY WordAssumption, PlusZero DEF Right, NotShown, Shows

(* A memory operand of any base and displacement is shown right. *)
LEMMA ShownRight ==
    ASSUME IInv, NEW base \in Reg, NEW disp \in Imm
    PROVE  Right(StackOffset(base, disp))
<1>1. disp \in Word
  BY WordAssumption
<1>2. CASE base \in aliases.valid /\ ~Tainted(base)
  <2>1. aliases.offset[base] \in Word /\ pre[base] \in Word
    BY <1>2 DEF IInv, TypeOK
  <2>2. Plus(aliases.offset[base], disp) \in Word /\ Plus(pre[base], disp) \in Word
    BY <1>1, <2>1, PlusType
  <2>3. Plus(pre[base], disp) = Plus(Entry, Plus(aliases.offset[base], disp))
    BY <1>1, <1>2, MovedAlike
  <2> QED BY <1>2, <2>2, <2>3 DEF Right, StackOffset, Shows
<1>3. CASE ~(base \in aliases.valid /\ ~Tainted(base))
  BY <1>3, NotShownRight DEF StackOffset
<1> QED BY <1>2, <1>3

(***************************************************************************)
(* Writing one register keeps the machine's half of the invariant.         *)
(***************************************************************************)
LEMMA WriteKeepsBundle ==
    ASSUME IInv, NEW r \in Reg, NEW v \in Word, Write(r, v)
    PROVE  /\ BundleOK'
           /\ regs' \in [Reg -> Word] /\ pre' \in [Reg -> Word]
           /\ written' \in SUBSET Reg /\ flow' \in {"next", "call", "stop"}
           /\ \A s \in Reg \ {r} : regs'[s] = regs[s]
           /\ r # ZERO => regs'[r] = v
           /\ written' = written \cup ({r} \ {ZERO})
BY RegAssumption DEF IInv, TypeOK, BundleOK, Write

(***************************************************************************)
(* Giving dst an offset keeps the invariant, if the machine's value is     *)
(* that far from sp at the entry or dst is declared stale.                 *)
(***************************************************************************)
LEMMA ShiftKeeps ==
    ASSUME IInv, NEW dst \in Reg, NEW src \in aliases.valid, NEW imm \in Word, NEW v \in Word,
           aliases' = Place(aliases, dst, Plus(aliases.offset[src], imm)),
           stale \ {dst} \subseteq stale', stale' \subseteq stale \cup {dst},
           moved' = moved \ {dst},
           shown' = NotShown,
           Write(dst, v),
           dst \notin stale' => /\ dst # ZERO
                                /\ v = Plus(Entry, Plus(aliases.offset[src], imm))
    PROVE  IInv'
<1> DEFINE off == Plus(aliases.offset[src], imm)
<1>1. aliases \in Aliases /\ src \in Reg
  BY DEF IInv, TypeOK, Aliases
<1>2. off \in Word
  BY <1>1, PlusType DEF Aliases
<1> HIDE DEF off
<1>3. aliases' = Place(aliases, dst, off)
  BY DEF off
<1>4. /\ aliases' \in Aliases
      /\ aliases'.valid = aliases.valid \cup {dst}
      /\ aliases'.offset[dst] = off
      /\ \A r \in Reg \ {dst} : aliases'.offset[r] = aliases.offset[r]
  <2>1. /\ Place(aliases, dst, off) \in Aliases
        /\ Place(aliases, dst, off).valid = aliases.valid \cup {dst}
        /\ Place(aliases, dst, off).offset[dst] = off
        /\ \A r \in Reg \ {dst} : Place(aliases, dst, off).offset[r] = aliases.offset[r]
    BY <1>1, <1>2 DEF Place, Aliases
  <2> QED BY <1>3, <2>1, Zenon
<1>5. stale' \in SUBSET Reg /\ moved' \in SUBSET Reg
  BY DEF IInv, TypeOK
<1>6. Right(shown')
  BY NotShownRight
<1>7. TypeOK' /\ ShownTrue'
  BY <1>4, <1>5, <1>6, WriteKeepsBundle DEF TypeOK, Aliases, Right, Shows, ShownTrue
<1>8. OffsetsTrue'
  <2> SUFFICES ASSUME NEW r \in aliases'.valid, r \notin stale', r \notin moved'
               PROVE  regs'[r] = Plus(Entry, aliases'.offset[r])
    BY DEF OffsetsTrue
  <2>1. CASE r = dst
    <3>1. aliases'.offset[r] = off
      BY <1>4, <2>1
    <3>2. regs'[r] = v
      BY <2>1, WriteKeepsBundle
    <3> QED BY <2>1, <3>1, <3>2 DEF off
  <2>2. CASE r # dst
    <3>1. r \in aliases.valid /\ r \in Reg \ {dst}
      BY <1>1, <1>4, <2>2 DEF Aliases
    <3>2. aliases'.offset[r] = aliases.offset[r]
      BY <1>4, <3>1
    <3>3. regs'[r] = regs[r]
      BY <3>1, WriteKeepsBundle
    <3>4. r \notin stale \cup moved
      BY <2>2
    <3> QED BY <3>1, <3>2, <3>3, <3>4 DEF IInv, OffsetsTrue
  <2> QED BY <2>1, <2>2
<1> QED BY <1>7, <1>8, WriteKeepsBundle DEF IInv

(***************************************************************************)
(* Forgetting the destination keeps the invariant, whatever is written.    *)
(***************************************************************************)
LEMMA ForgetKeeps ==
    ASSUME IInv, NEW dst \in Reg, NEW v \in Word,
           aliases' = Invalidate(aliases, dst),
           stale' = stale \ {dst},
           moved' = moved \ {dst},
           Right(shown'),
           Write(dst, v)
    PROVE  IInv'
<1>1. aliases \in Aliases
  BY DEF IInv, TypeOK, Aliases
<1>2. aliases' \in Aliases /\ aliases'.valid = aliases.valid \ {dst}
  BY <1>1, InvalidateEffect
<1>3. TypeOK' /\ ShownTrue'
  <2>1. stale' \in SUBSET Reg /\ moved' \in SUBSET Reg
    BY DEF IInv, TypeOK
  <2> QED BY <1>2, <2>1, WriteKeepsBundle DEF TypeOK, Aliases, Right, Shows, ShownTrue
<1>4. OffsetsTrue'
  <2> SUFFICES ASSUME NEW r \in aliases'.valid, r \notin stale', r \notin moved'
               PROVE  regs'[r] = Plus(Entry, aliases'.offset[r])
    BY DEF OffsetsTrue
  <2>1. r \in aliases.valid /\ r \in Reg \ {dst}
    BY <1>1, <1>2 DEF Aliases
  <2>2. aliases'.offset[r] = aliases.offset[r]
    BY <1>1, <2>1, InvalidateEffect
  <2>3. regs'[r] = regs[r]
    BY <2>1, WriteKeepsBundle
  <2>4. r \notin stale \cup moved
    BY <2>1
  <2> QED BY <2>1, <2>2, <2>3, <2>4 DEF IInv, OffsetsTrue
<1> QED BY <1>3, <1>4, WriteKeepsBundle DEF IInv

(***************************************************************************)
(* Entering a bundle, with the registers that keep their values.           *)
(***************************************************************************)
LEMMA EnterKeeps ==
    ASSUME IInv, NEW contents \in [Reg -> Word], contents[ZERO] = 0,
           EnterBundle(contents),
           aliases' = aliases, moved' = moved,
           stale \subseteq stale', stale' \in SUBSET Reg,
           \A r \in aliases.valid \ stale' : contents[r] = regs[r]
    PROVE  IInv'
<1>1. TypeOK' /\ ShownTrue'
  BY NotShownRight DEF IInv, TypeOK, EnterBundle, Right, Shows, ShownTrue
<1>2. BundleOK'
  BY DEF EnterBundle, BundleOK
<1>3. OffsetsTrue'
  BY DEF IInv, OffsetsTrue, EnterBundle
<1> QED BY <1>1, <1>2, <1>3 DEF IInv

-----------------------------------------------------------------------------
(* The slots. *)

(***************************************************************************)
(* A move or an addition: apply_move and apply_addi keep the invariant,    *)
(* with and without a known source.                                        *)
(***************************************************************************)
LEMMA AddKeeps ==
    ASSUME IInv, NEW dst \in Reg, NEW src \in Reg, NEW imm \in Imm \cup {0},
           AddSlot(dst, src, imm)
    PROVE  IInv'
<1>1. imm \in Word /\ pre[src] \in Word
  BY WordAssumption DEF IInv, TypeOK
<1>2. Plus(pre[src], imm) \in Word /\ Write(dst, Plus(pre[src], imm))
  BY <1>1, PlusType DEF AddSlot
<1>3. CASE src \in aliases.valid
  <2>1. aliases' = Place(aliases, dst, Plus(aliases.offset[src], imm))
    BY <1>3 DEF AddSlot, Shifted
  <2>2. dst \notin stale' => dst # ZERO /\ ~Tainted(src)
    BY <1>3 DEF AddSlot
  <2>3. dst \notin stale' =>
          dst # ZERO /\ Plus(pre[src], imm) = Plus(Entry, Plus(aliases.offset[src], imm))
    BY <1>1, <1>3, <2>2, MovedAlike
  <2>4. stale \ {dst} \subseteq stale' /\ stale' \subseteq stale \cup {dst}
        /\ moved' = moved \ {dst} /\ shown' = NotShown
    BY DEF AddSlot
  <2> QED BY <1>1, <1>2, <1>3, <2>1, <2>3, <2>4, ShiftKeeps
<1>4. CASE src \notin aliases.valid
  <2>1. /\ aliases' = Invalidate(aliases, dst)
        /\ stale' = stale \ {dst}
        /\ moved' = moved \ {dst}
        /\ Right(shown')
    BY <1>4, NotShownRight DEF AddSlot, Shifted
  <2> QED BY <1>2, <2>1, ForgetKeeps
<1> QED BY <1>3, <1>4

(***************************************************************************)
(* The 32-bit additions, which apply treats like the others: the offset is *)
(* right if the sum fits, and declared stale otherwise.                    *)
(***************************************************************************)
LEMMA AddxKeeps ==
    ASSUME IInv, NEW dst \in Reg, NEW src \in Reg, NEW imm \in Imm,
           AddxSlot(dst, src, imm)
    PROVE  IInv'
<1> DEFINE sum == Plus(pre[src], imm)
<1>1. imm \in Word /\ pre[src] \in Word
  BY WordAssumption DEF IInv, TypeOK
<1>2. sum \in Word
  BY <1>1, PlusType
<1>3. Narrow(sum) \in Word /\ Write(dst, Narrow(sum))
  BY <1>2, NarrowAssumption DEF AddxSlot
<1>4. CASE src \in aliases.valid
  <2>1. aliases' = Place(aliases, dst, Plus(aliases.offset[src], imm))
    BY <1>4 DEF AddxSlot, Shifted
  <2>2. dst \notin stale' => dst # ZERO /\ ~Tainted(src) /\ Narrow(sum) = sum
    BY <1>4 DEF AddxSlot
  <2>3. dst \notin stale' =>
          dst # ZERO /\ Narrow(sum) = Plus(Entry, Plus(aliases.offset[src], imm))
    BY <1>1, <1>4, <2>2, MovedAlike
  <2>4. stale \ {dst} \subseteq stale' /\ stale' \subseteq stale \cup {dst}
        /\ moved' = moved \ {dst} /\ shown' = NotShown
    BY DEF AddxSlot
  <2> QED BY <1>1, <1>3, <1>4, <2>1, <2>3, <2>4, ShiftKeeps
<1>5. CASE src \notin aliases.valid
  <2>1. /\ aliases' = Invalidate(aliases, dst)
        /\ stale' = stale \ {dst}
        /\ moved' = moved \ {dst}
        /\ Right(shown')
    BY <1>5, NotShownRight DEF AddxSlot, Shifted
  <2> QED BY <1>3, <2>1, ForgetKeeps
<1> QED BY <1>4, <1>5

(***************************************************************************)
(* Any other instruction forgets its destination (apply, last branch).     *)
(***************************************************************************)
LEMMA OtherKeeps ==
    ASSUME IInv, NEW dst \in Reg, OtherSlot(dst)
    PROVE  IInv'
<1>1. PICK v \in Inputs : Write(dst, v)
  BY DEF OtherSlot
<1>2. v \in Word
  BY WordAssumption
<1> QED BY <1>1, <1>2, NotShownRight, ForgetKeeps DEF OtherSlot, Forget

(* So does a load, which is shown before it is applied (stack_offset). *)
LEMMA LoadKeeps ==
    ASSUME IInv, NEW dst \in Reg, NEW base \in Reg, NEW disp \in Imm,
           LoadSlot(dst, base, disp)
    PROVE  IInv'
<1>1. PICK v \in Inputs : Write(dst, v)
  BY DEF LoadSlot
<1>2. v \in Word
  BY WordAssumption
<1>3. Right(shown')
  BY ShownRight DEF LoadSlot
<1> QED BY <1>1, <1>2, <1>3, ForgetKeeps DEF LoadSlot, Forget

(***************************************************************************)
(* A store changes nothing but what is shown.                              *)
(***************************************************************************)
LEMMA StoreKeeps ==
    ASSUME IInv, NEW base \in Reg, NEW disp \in Imm, StoreSlot(base, disp)
    PROVE  IInv'
<1>1. Right(shown')
  BY ShownRight DEF StoreSlot
<1>2. UNCHANGED <<aliases, regs, pre, written, flow, moved, stale>>
  BY DEF StoreSlot
<1> QED BY <1>1, <1>2 DEF IInv, TypeOK, BundleOK, OffsetsTrue, ShownTrue, Right, Shows

(***************************************************************************)
(* A store with write-back: the base is declared moved if it has an offset.*)
(***************************************************************************)
LEMMA StoreAddKeeps ==
    ASSUME IInv, NEW base \in Reg, NEW disp \in Imm, StoreAddSlot(base, disp)
    PROVE  IInv'
<1>1. disp \in Word /\ pre[base] \in Word
  BY WordAssumption DEF IInv, TypeOK
<1>2. Plus(pre[base], disp) \in Word /\ Write(base, Plus(pre[base], disp))
  BY <1>1, PlusType DEF StoreAddSlot
<1>3. Right(shown')
  BY ShownRight DEF StoreAddSlot
<1>4. /\ aliases' = aliases /\ stale' = stale
      /\ moved' \in SUBSET Reg /\ moved \subseteq moved'
      /\ base \in aliases.valid => base \in moved'
  BY DEF StoreAddSlot, IInv, TypeOK
<1>5. TypeOK' /\ ShownTrue'
  BY <1>2, <1>3, <1>4, WriteKeepsBundle DEF IInv, TypeOK, Right, Shows, ShownTrue
<1>6. OffsetsTrue'
  <2> SUFFICES ASSUME NEW r \in aliases.valid, r \notin stale, r \notin moved'
               PROVE  regs'[r] = Plus(Entry, aliases.offset[r])
    BY <1>4 DEF OffsetsTrue
  <2>1. r \in Reg \ {base} /\ r \notin moved
    BY <1>4 DEF IInv, TypeOK
  <2>2. regs'[r] = regs[r]
    BY <1>2, <2>1, WriteKeepsBundle
  <2> QED BY <2>1, <2>2 DEF IInv, OffsetsTrue
<1> QED BY <1>2, <1>5, <1>6, WriteKeepsBundle DEF IInv

(***************************************************************************)
(* A load with write-back changes two registers: the destination loses its *)
(* offset, the base is declared moved.                                     *)
(***************************************************************************)
LEMMA LoadAddKeeps ==
    ASSUME IInv, NEW dst \in Reg, NEW base \in Reg, NEW disp \in Imm,
           LoadAddSlot(dst, base, disp)
    PROVE  IInv'
<1>1. disp \in Word /\ Plus(pre[base], disp) \in Word
  BY WordAssumption, PlusType DEF IInv, TypeOK
<1>2. PICK v \in Inputs :
        regs' = [[regs EXCEPT ![dst] = v, ![base] = Plus(pre[base], disp)] EXCEPT ![ZERO] = 0]
  BY DEF LoadAddSlot
<1>3. /\ regs' \in [Reg -> Word] /\ regs'[ZERO] = 0
      /\ \A r \in Reg \ {dst, base} : regs'[r] = regs[r]
  BY <1>1, <1>2, RegAssumption, WordAssumption DEF IInv, TypeOK, BundleOK
<1>4. /\ pre' = pre /\ flow' = flow /\ written' = written \cup ({dst, base} \ {ZERO})
      /\ stale' = stale \ {dst}
      /\ moved' = (IF base \in aliases.valid THEN moved \cup {base} ELSE moved) \ {dst}
      /\ aliases' = Invalidate(aliases, dst)
      /\ dst # base
  BY DEF LoadAddSlot
<1>5. aliases \in Aliases
  BY DEF IInv, TypeOK, Aliases
<1>6. /\ aliases' \in Aliases /\ aliases'.valid = aliases.valid \ {dst}
      /\ \A r \in Reg \ {dst} : aliases'.offset[r] = aliases.offset[r]
  BY <1>4, <1>5, WordAssumption DEF Invalidate, Aliases
<1>7. Right(shown')
  BY ShownRight DEF LoadAddSlot
<1>8. TypeOK' /\ ShownTrue'
  BY <1>3, <1>4, <1>6, <1>7 DEF IInv, TypeOK, Aliases, Right, Shows, ShownTrue
<1>9. BundleOK'
  <2> SUFFICES ASSUME NEW r \in Reg, r \notin written' PROVE pre'[r] = regs'[r]
    BY <1>3 DEF BundleOK
  <2>1. CASE r = ZERO
    <3>1. pre[ZERO] = regs[ZERO] /\ regs[ZERO] = 0
      BY <1>4, <2>1 DEF IInv, BundleOK
    <3> QED BY <1>3, <1>4, <2>1, <3>1
  <2>2. CASE r # ZERO
    BY <1>3, <1>4, <2>2 DEF IInv, BundleOK
  <2> QED BY <2>1, <2>2
<1>10. OffsetsTrue'
  <2> SUFFICES ASSUME NEW r \in aliases'.valid, r \notin stale', r \notin moved'
               PROVE  regs'[r] = Plus(Entry, aliases'.offset[r])
    BY DEF OffsetsTrue
  <2>1. r \in aliases.valid /\ r \in Reg \ {dst, base} /\ r \notin stale \cup moved
    BY <1>4, <1>5, <1>6 DEF Aliases
  <2> QED BY <1>3, <1>6, <2>1 DEF IInv, OffsetsTrue
<1> QED BY <1>8, <1>9, <1>10 DEF IInv

-----------------------------------------------------------------------------
(* Control. *)

(***************************************************************************)
(* A call writes the link register, which is declared stale; a jump        *)
(* changes nothing.                                                        *)
(***************************************************************************)
LEMMA ControlKeeps ==
    ASSUME IInv, ControlSlot
    PROVE  IInv'
<1>1. CASE CallSlot
  <2>1. PICK v \in Inputs : regs' = [regs EXCEPT ![LR] = v]
    BY <1>1 DEF CallSlot
  <2>2. /\ regs' \in [Reg -> Word] /\ regs'[ZERO] = 0
        /\ \A r \in Reg \ {LR} : regs'[r] = regs[r]
    BY <2>1, RegAssumption, WordAssumption DEF IInv, TypeOK, BundleOK
  <2>3. /\ aliases' = aliases /\ pre' = pre /\ moved' = moved
        /\ written' = written \cup {LR} /\ flow' = "call" /\ shown' = NotShown
        /\ stale' = IF LR \in aliases.valid THEN stale \cup {LR} ELSE stale
    BY <1>1 DEF CallSlot
  <2>4. TypeOK' /\ ShownTrue'
    BY <2>2, <2>3, NotShownRight, RegAssumption DEF IInv, TypeOK, Right, Shows, ShownTrue
  <2>5. BundleOK'
    BY <2>2, <2>3 DEF IInv, BundleOK
  <2>6. OffsetsTrue'
    BY <2>2, <2>3 DEF IInv, TypeOK, OffsetsTrue
  <2> QED BY <2>4, <2>5, <2>6 DEF IInv
<1>2. CASE JumpSlot
  BY <1>2, NotShownRight DEF JumpSlot, IInv, TypeOK, BundleOK, OffsetsTrue, ShownTrue, Right, Shows
<1> QED BY <1>1, <1>2 DEF ControlSlot

(***************************************************************************)
(* Every way into a bundle: the next one, behind a call, behind a jump, or *)
(* at a label.                                                             *)
(***************************************************************************)
LEMMA EntryKeeps ==
    ASSUME IInv, BundleEntry
    PROVE  IInv'
<1>0. \A contents \in Anywhere : contents \in [Reg -> Word] /\ contents[ZERO] = 0
  BY RegAssumption, WordAssumption DEF Anywhere
<1>1. CASE FallThrough
  BY <1>1, EnterKeeps DEF FallThrough, IInv, TypeOK, BundleOK, OffsetsTrue
<1>2. CASE ReturnFromCall
  <2>1. PICK f \in [Clobbered -> Inputs] :
          EnterBundle([r \in Reg |-> IF r \in Clobbered THEN f[r] ELSE regs[r]])
    BY <1>2 DEF ReturnFromCall
  <2> DEFINE contents == [r \in Reg |-> IF r \in Clobbered THEN f[r] ELSE regs[r]]
  <2>2. contents \in [Reg -> Word]
    BY WordAssumption DEF IInv, TypeOK
  <2>3. contents[ZERO] = 0
    BY RegAssumption, ClobberAssumption DEF IInv, BundleOK
  <2>4. /\ aliases' = aliases /\ moved' = moved
        /\ stale' = stale \cup (Clobbered \cap aliases.valid)
    BY <1>2 DEF ReturnFromCall
  <2>5. stale \subseteq stale' /\ stale' \in SUBSET Reg
    BY <2>4 DEF IInv, TypeOK
  <2>6. \A r \in aliases.valid \ stale' : contents[r] = regs[r]
    BY <2>4 DEF IInv, TypeOK
  <2> HIDE DEF contents
  <2>7. EnterBundle(contents)
    BY <2>1 DEF contents
  <2> QED BY <2>2, <2>3, <2>4, <2>5, <2>6, <2>7, EnterKeeps
<1>3. CASE EnterUnlabelled
  <2>1. PICK contents \in Anywhere : EnterBundle(contents)
    BY <1>3 DEF EnterUnlabelled
  <2>2. /\ aliases' = aliases /\ moved' = moved
        /\ stale' = stale \cup aliases.valid
    BY <1>3 DEF EnterUnlabelled
  <2>3. stale \subseteq stale' /\ stale' \in SUBSET Reg
    BY <2>2 DEF IInv, TypeOK
  <2>4. \A r \in aliases.valid \ stale' : contents[r] = regs[r]
    BY <2>2
  <2> QED BY <1>0, <2>1, <2>2, <2>3, <2>4, EnterKeeps
<1>4. CASE EnterLabel
  <2>1. PICK contents \in Anywhere : EnterBundle(contents)
    BY <1>4 DEF EnterLabel
  <2>2. /\ aliases' = AtEntry /\ moved' = {}
        /\ stale' = IF regs'[SP] = Entry THEN {} ELSE {SP}
    BY <1>4 DEF EnterLabel
  <2>3. /\ regs' = contents /\ pre' = contents /\ written' = {}
        /\ flow' = "next" /\ shown' = NotShown
    BY <2>1 DEF EnterBundle
  <2>4. TypeOK' /\ ShownTrue'
    BY <1>0, <2>2, <2>3, AtEntryType, NotShownRight, RegAssumption
       DEF TypeOK, Aliases, Right, Shows, ShownTrue
  <2>5. BundleOK'
    BY <1>0, <2>3 DEF BundleOK
  <2>6. OffsetsTrue'
    BY <2>2, RegAssumption, WordAssumption, PlusZero DEF AtEntry, OffsetsTrue
  <2> QED BY <2>4, <2>5, <2>6 DEF IInv
<1> QED BY <1>1, <1>2, <1>3, <1>4 DEF BundleEntry

-----------------------------------------------------------------------------
(* The theorems. *)

(***************************************************************************)
(* The invariant holds at the entry of the function (reset).               *)
(***************************************************************************)
LEMMA InitInv == Init => IInv
<1> SUFFICES ASSUME Init PROVE IInv
  OBVIOUS
<1>1. PICK contents \in Anywhere : regs = [contents EXCEPT ![SP] = Entry]
  BY DEF Init
<1>2. contents \in [Reg -> Word] /\ contents[ZERO] = 0
  BY RegAssumption, WordAssumption DEF Anywhere
<1>3. regs \in [Reg -> Word] /\ regs[ZERO] = 0 /\ regs[SP] = Entry
  BY <1>1, <1>2, RegAssumption, WordAssumption
<1>4. /\ aliases = AtEntry /\ pre = regs /\ shown = NotShown
      /\ written = {} /\ flow = "next" /\ moved = {} /\ stale = {}
  BY Zenon DEF Init
<1>5. TypeOK
  <2>1. aliases \in [valid : SUBSET Reg, offset : [Reg -> Word]]
    BY <1>4, AtEntryType DEF Aliases
  <2>2. shown \in [offset : Word, actual : Word]
    BY <1>4, NotShownRight DEF Right, Shows
  <2> QED BY <1>3, <1>4, <2>1, <2>2 DEF TypeOK
<1>6. ShownTrue
  BY <1>4, NotShownRight DEF Right, ShownTrue
<1>7. BundleOK
  BY <1>3, <1>4 DEF BundleOK
<1>8. OffsetsTrue
  <2>1. aliases.valid = {SP} /\ aliases.offset[SP] = 0
    BY <1>4, RegAssumption DEF AtEntry
  <2>2. Plus(Entry, 0) = Entry
    BY WordAssumption, PlusZero
  <2> QED BY <1>3, <2>1, <2>2 DEF OffsetsTrue
<1> QED BY <1>5, <1>6, <1>7, <1>8 DEF IInv

(***************************************************************************)
(* Every slot and every way into a bundle keeps it.                        *)
(***************************************************************************)
LEMMA StepInv == IInv /\ [Next]_vars => IInv'
<1> SUFFICES ASSUME IInv, [Next]_vars PROVE IInv'
  OBVIOUS
<1>1. CASE AliasSlot
  BY <1>1, AddKeeps, AddxKeeps, OtherKeeps DEF AliasSlot
<1>2. CASE MemorySlot
  BY <1>2, StoreKeeps, LoadKeeps, StoreAddKeeps, LoadAddKeeps DEF MemorySlot
<1>3. CASE ControlSlot
  BY <1>3, ControlKeeps
<1>4. CASE BundleEntry
  BY <1>4, EntryKeeps
<1>5. CASE UNCHANGED vars
  BY <1>5 DEF vars, IInv, TypeOK, BundleOK, OffsetsTrue, ShownTrue
<1> QED BY <1>1, <1>2, <1>3, <1>4, <1>5 DEF Next

(***************************************************************************)
(* In every reachable state the types are right, a bundle's slots read     *)
(* what they should, known offsets are right and so is what was shown.     *)
(***************************************************************************)
THEOREM Invariance == Spec => []IInv
<1> QED BY InitInv, StepInv, PTL DEF Spec

(***************************************************************************)
(* StackAliases never holds anything but a word for an offset.             *)
(***************************************************************************)
THEOREM TypeCorrect == Spec => []TypeOK
<1>1. IInv => TypeOK
  BY DEF IInv
<1> QED BY <1>1, Invariance, PTL

(***************************************************************************)
(* A register with an offset is that far from sp at the function's entry,  *)
(* outside the situations that moved and stale name (apply).               *)
(***************************************************************************)
THEOREM OffsetsSound == Spec => []OffsetsTrue
<1>1. IInv => OffsetsTrue
  BY DEF IInv
<1> QED BY <1>1, Invariance, PTL

(***************************************************************************)
(* The stack slot that an operand is shown as is the one the machine       *)
(* accesses (stack_offset).                                                *)
(***************************************************************************)
THEOREM ShownSound == Spec => []ShownTrue
<1>1. IInv => ShownTrue
  BY DEF IInv
<1> QED BY <1>1, Invariance, PTL

(***************************************************************************)
(* Nothing but a write to a register or a join point ends its alias.       *)
(***************************************************************************)
THEOREM AliasesLast == Spec => AliasesKept
<1> DEFINE Kept == aliases' = AtEntry \/ aliases.valid \ aliases'.valid \subseteq written' \cup {ZERO}
<1>1. Next => Kept
  <2> SUFFICES ASSUME Next PROVE Kept
    OBVIOUS
  <2>1. \A dst \in Reg : \A off : aliases.valid \ Place(aliases, dst, off).valid = {}
    BY DEF Place
  <2>2. \A dst \in Reg : aliases.valid \ Invalidate(aliases, dst).valid \subseteq {dst}
    BY DEF Invalidate
  <2>3. \A dst : \A v : Write(dst, v) => {dst} \subseteq written' \cup {ZERO}
    BY DEF Write
  <2>4. CASE AliasSlot
    BY <2>1, <2>2, <2>3, <2>4 DEF AliasSlot, AddSlot, AddxSlot, OtherSlot, Forget, Shifted
  <2>5. CASE MemorySlot
    BY <2>2, <2>3, <2>5 DEF MemorySlot, StoreSlot, LoadSlot, StoreAddSlot, LoadAddSlot, Forget
  <2>6. CASE ControlSlot
    BY <2>6 DEF ControlSlot, CallSlot, JumpSlot
  <2>7. CASE BundleEntry
    BY <2>7 DEF BundleEntry, FallThrough, ReturnFromCall, EnterUnlabelled, EnterLabel
  <2> QED BY <2>4, <2>5, <2>6, <2>7 DEF Next
<1>2. [Next]_vars => [Kept]_vars
  BY <1>1
<1> QED BY <1>2, PTL DEF Spec, AliasesKept
=============================================================================
