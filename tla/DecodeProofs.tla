---------------------------- MODULE DecodeProofs ----------------------------
(***************************************************************************)
(* For every decode table, the loop of decode_pipe implements the choice   *)
(* of the most specific match (DecodeScan implements Decode).              *)
(***************************************************************************)
EXTENDS DecodeScan, FiniteSetTheorems, TLAPS

SlotSet ==
  {Abs!NoSlot} \cup {Abs!SlotOf(w, p, pipe, i) : w \in Raws, p \in Pcs, pipe \in Pipes,
                                                 i \in 1..Len(Opcodes)}

\* The loop invariant with the types its proof needs.
IInv ==
  /\ raw \in Raws
  /\ pc \in Pcs
  /\ slots \in Seq(SlotSet)
  /\ TypeOK
  /\ BestOfSeen

\* A pipe that remains to be decoded is one of the five.
LEMMA CurrentPipeType ==
  ASSUME slots \in Seq(SlotSet), Decoding
  PROVE  Abs!CurrentPipe \in Pipes
<1>1. Len(slots) \in Nat
  OBVIOUS
<1>2. ASSUME NEW p, p = Abs!PipesOf(raw) PROVE p[Len(slots) + 1] \in 0..4
  <2>1. Len(slots) < Len(p)
    BY <1>2 DEF Decoding
  <2>2. CASE p = <<0, 1>>
    BY <1>1, <2>1, <2>2
  <2>3. CASE p = <<2, 3, 4>>
    BY <1>1, <2>1, <2>3
  <2> QED
    BY <1>2, <2>2, <2>3 DEF Abs!PipesOf
<1> QED
  BY <1>2 DEF Abs!CurrentPipe, Pipes

\* The number of fixed bits of an encoding is a number.
LEMMA FixedBitsType ==
  ASSUME NEW pipe \in Pipes, NEW i \in 1..Len(Opcodes)
  PROVE  Abs!FixedBits(pipe, i) \in Nat
<1>1. Opcodes[i].enc[pipe].mask \subseteq 0..63
  BY OpcodesAssumption DEF Word
<1>2. IsFiniteSet(0..63)
  BY 0 \in Int, 63 \in Int, FS_Interval, Zenon
<1>3. IsFiniteSet(Opcodes[i].enc[pipe].mask)
  BY <1>1, <1>2, FS_Subset
<1> QED
  BY <1>3, FS_CardinalityType, Zenon DEF Abs!FixedBits, Abs!Cardinality, Cardinality

\* One more entry of the table: the loop's comparison keeps the best match.
LEMMA OneMoreEntry ==
  ASSUME NEW w, NEW pipe \in Pipes,
         NEW n \in Nat, n + 1 \in 1..Len(Opcodes), NEW b \in 1..n,
         Abs!IsBest(w, pipe, b, n)
  PROVE  IF Abs!Matches(w, pipe, n + 1) /\ Abs!FixedBits(pipe, n + 1) > Abs!FixedBits(pipe, b)
         THEN Abs!IsBest(w, pipe, n + 1, n + 1)
         ELSE Abs!IsBest(w, pipe, b, n + 1)
<1> DEFINE F(j) == Abs!FixedBits(pipe, j)
           M(j) == Abs!Matches(w, pipe, j)
<1>1. Len(Opcodes) \in Nat
  BY OpcodesAssumption
<1>2. \A j \in 1..(n + 1) : F(j) \in Nat
  <2> SUFFICES ASSUME NEW j \in 1..(n + 1) PROVE F(j) \in Nat
    OBVIOUS
  <2>1. j \in 1..Len(Opcodes)
    BY <1>1
  <2> QED
    BY <2>1, FixedBitsType
<1>3. M(b) /\ \A j \in 1..n : M(j) => F(j) < F(b) \/ (F(j) = F(b) /\ b <= j)
  BY DEF Abs!IsBest
<1> HIDE DEF F, M
<1>4. CASE M(n + 1) /\ F(n + 1) > F(b)
  <2>1. \A j \in 1..(n + 1) :
          M(j) => F(j) < F(n + 1) \/ (F(j) = F(n + 1) /\ n + 1 <= j)
    <3> SUFFICES ASSUME NEW j \in 1..(n + 1), M(j)
                 PROVE  F(j) < F(n + 1) \/ (F(j) = F(n + 1) /\ n + 1 <= j)
      OBVIOUS
    <3>1. CASE j = n + 1
      BY <3>1
    <3>2. CASE j \in 1..n
      BY <3>2, <1>2, <1>3, <1>4
    <3> QED
      BY <3>1, <3>2
  <2> QED
    BY <1>4, <2>1 DEF Abs!IsBest, F, M
<1>5. CASE ~(M(n + 1) /\ F(n + 1) > F(b))
  <2>1. \A j \in 1..(n + 1) : M(j) => F(j) < F(b) \/ (F(j) = F(b) /\ b <= j)
    <3> SUFFICES ASSUME NEW j \in 1..(n + 1), M(j)
                 PROVE  F(j) < F(b) \/ (F(j) = F(b) /\ b <= j)
      OBVIOUS
    <3>1. CASE j = n + 1
      BY <3>1, <1>2, <1>5
    <3>2. CASE j \in 1..n
      BY <3>2, <1>3
    <3> QED
      BY <3>1, <3>2
  <2> QED
    BY <1>3, <1>5, <2>1 DEF Abs!IsBest, F, M
<1> QED
  BY <1>4, <1>5 DEF F, M

\* The invariant holds initially.
LEMMA InitEstablishes == Init => IInv
<1> SUFFICES ASSUME Init PROVE IInv
  OBVIOUS
<1>1. raw \in Raws /\ pc \in Pcs /\ slots = <<>> /\ seen = 0 /\ best = 0 /\ best_pop = 0
  BY DEF Init, Abs!Init
<1>2. TypeOK
  BY <1>1, OpcodesAssumption DEF TypeOK
<1>3. BestOfSeen
  BY <1>1 DEF BestOfSeen, Abs!NoMatch
<1> QED
  BY <1>1, <1>2, <1>3 DEF IInv

\* A round of the loop keeps it.
LEMMA ConsiderKeeps == IInv /\ Consider => IInv'
<1> SUFFICES ASSUME IInv, Consider PROVE IInv'
  OBVIOUS
<1> USE DEF IInv, Consider
<1>1. /\ seen \in Nat /\ seen + 1 \in 1..Len(Opcodes) /\ best \in 0..seen
      /\ Len(Opcodes) \in Nat
  BY OpcodesAssumption DEF TypeOK
<1>2. Abs!CurrentPipe \in Pipes
  BY CurrentPipeType
<1>3. Abs!FixedBits(Abs!CurrentPipe, seen + 1) \in Nat
  BY <1>1, <1>2, FixedBitsType
<1>4. UNCHANGED <<raw, pc, slots, outcome>>
  BY DEF decoded
<1>5. TypeOK'
  BY <1>1, <1>3 DEF TypeOK
<1>6. Abs!CurrentPipe' = Abs!CurrentPipe
  BY <1>4 DEF Abs!CurrentPipe, Abs!PipesOf
<1>7. BestOfSeen'
  <2> DEFINE pipe == Abs!CurrentPipe
  <2>1. CASE best = 0
    <3>1. Abs!NoMatch(raw, pipe, seen)
      BY <2>1 DEF BestOfSeen
    <3>2. CASE Abs!Matches(raw, pipe, seen + 1)
      <4>1. best' = seen + 1 /\ best_pop' = Abs!FixedBits(pipe, seen + 1)
        BY <2>1, <3>2 DEF Beats
      <4>2. Abs!IsBest(raw, pipe, seen + 1, seen + 1)
        BY <1>1, <3>1, <3>2 DEF Abs!NoMatch, Abs!IsBest
      <4> QED
        BY <1>1, <1>4, <1>6, <4>1, <4>2 DEF BestOfSeen
    <3>3. CASE ~Abs!Matches(raw, pipe, seen + 1)
      <4>1. best' = 0
        BY <2>1, <3>3 DEF Beats
      <4>2. Abs!NoMatch(raw, pipe, seen + 1)
        BY <1>1, <3>1, <3>3 DEF Abs!NoMatch
      <4> QED
        BY <1>4, <1>6, <4>1, <4>2 DEF BestOfSeen
    <3> QED
      BY <3>2, <3>3
  <2>2. CASE best # 0
    <3>1. best \in 1..seen /\ Abs!IsBest(raw, pipe, best, seen)
          /\ best_pop = Abs!FixedBits(pipe, best)
      BY <1>1, <2>2 DEF BestOfSeen
    <3>2. IF Beats(seen + 1)
          THEN Abs!IsBest(raw, pipe, seen + 1, seen + 1)
          ELSE Abs!IsBest(raw, pipe, best, seen + 1)
      BY <1>1, <1>2, <2>2, <3>1, OneMoreEntry DEF Beats
    <3>3. CASE Beats(seen + 1)
      BY <1>1, <1>4, <1>6, <3>2, <3>3 DEF BestOfSeen
    <3>4. CASE ~Beats(seen + 1)
      BY <1>4, <1>6, <2>2, <3>1, <3>2, <3>4 DEF BestOfSeen
    <3> QED
      BY <3>3, <3>4
  <2> QED
    BY <2>1, <2>2
<1> QED
  BY <1>4, <1>5, <1>7

\* So does the end of a pipe, which starts the next one with nothing seen.
LEMMA PipeDoneKeeps == IInv /\ PipeDone => IInv'
<1> SUFFICES ASSUME IInv, PipeDone PROVE IInv'
  OBVIOUS
<1> USE DEF IInv, PipeDone
<1>1. Abs!CurrentPipe \in Pipes
  BY CurrentPipeType
<1>2. (IF best = 0 THEN Abs!NoSlot ELSE Abs!SlotOf(raw, pc, Abs!CurrentPipe, best)) \in SlotSet
  BY <1>1, OpcodesAssumption DEF SlotSet, TypeOK
<1>3. slots' \in Seq(SlotSet)
  BY <1>2
<1>4. TypeOK'
  BY OpcodesAssumption DEF TypeOK
<1>5. BestOfSeen'
  BY DEF BestOfSeen, Abs!NoMatch
<1> QED
  BY <1>3, <1>4, <1>5

\* The end of the bundle touches nothing of the search (decode_bundle).
LEMMA FinishKeeps == IInv /\ Finish => IInv'
<1> SUFFICES ASSUME IInv, Finish PROVE IInv'
  OBVIOUS
<1>1. UNCHANGED <<raw, pc, slots, seen, best, best_pop>>
  BY DEF Finish, Abs!Finish, scan
<1> QED
  BY <1>1 DEF IInv, TypeOK, BestOfSeen, Decoding, Abs!PipesOf, Abs!CurrentPipe,
               Abs!NoMatch, Abs!IsBest, Abs!Matches

\* The loop of decode_pipe has its invariant in every state.
THEOREM LoopInvariant == Spec => []IInv
<1>1. IInv /\ [Next]_vars => IInv'
  <2> SUFFICES ASSUME IInv, [Next]_vars PROVE IInv'
    OBVIOUS
  <2>1. CASE Consider
    BY <2>1, ConsiderKeeps
  <2>2. CASE PipeDone
    BY <2>2, PipeDoneKeeps
  <2>3. CASE Finish
    BY <2>3, FinishKeeps
  <2>4. CASE UNCHANGED vars
    BY <2>4 DEF vars, IInv, TypeOK, BestOfSeen, Decoding, Abs!PipesOf, Abs!CurrentPipe,
                Abs!NoMatch, Abs!IsBest, Abs!Matches
  <2> QED
    BY <2>1, <2>2, <2>3, <2>4 DEF Next
<1> QED
  BY InitEstablishes, <1>1, PTL DEF Spec

\* After each round the best match is the best of the entries seen.
THEOREM LoopKeepsBest == Spec => []BestOfSeen
BY LoopInvariant, PTL DEF IInv

\* A step of the loop is a step of Decode or leaves what Decode sees unchanged.
LEMMA StepRefines == IInv /\ [Next]_vars => [Abs!Next]_(Abs!vars)
<1> SUFFICES ASSUME IInv, [Next]_vars PROVE [Abs!Next]_(Abs!vars)
  OBVIOUS
<1>1. CASE Consider
  BY <1>1 DEF Consider, decoded, Abs!vars
<1>2. CASE PipeDone
  <2>1. Decoding /\ seen = Len(Opcodes) /\ UNCHANGED <<raw, pc, outcome>>
    BY <1>2 DEF PipeDone
  <2>2. CASE best = 0
    <3>1. Abs!NoMatch(raw, Abs!CurrentPipe, Len(Opcodes))
      BY <2>1, <2>2 DEF IInv, BestOfSeen
    <3>2. slots' = Append(slots, Abs!NoSlot)
      BY <1>2, <2>2 DEF PipeDone
    <3> QED
      BY <2>1, <3>1, <3>2 DEF Abs!Next, Abs!DecodePipe, Decoding
  <2>3. CASE best # 0
    <3>1. Abs!IsBest(raw, Abs!CurrentPipe, best, Len(Opcodes))
      BY <2>1, <2>3 DEF IInv, BestOfSeen
    <3>2. slots' = Append(slots, Abs!SlotOf(raw, pc, Abs!CurrentPipe, best))
      BY <1>2, <2>3 DEF PipeDone
    <3>3. best \in 1..Len(Opcodes)
      BY <3>1 DEF Abs!IsBest
    <3> QED
      BY <2>1, <3>1, <3>2, <3>3 DEF Abs!Next, Abs!DecodePipe, Decoding
  <2> QED
    BY <2>2, <2>3
<1>3. CASE Finish
  BY <1>3 DEF Finish, Abs!Next
<1>4. CASE UNCHANGED vars
  BY <1>4 DEF vars, Abs!vars
<1> QED
  BY <1>1, <1>2, <1>3, <1>4 DEF Next

\* The decoder's loop implements the decoder's promise, whatever the tables hold.
THEOREM ScanImplementsDecode == Spec => DecodesByBestMatch
<1>1. Init => Abs!Init
  BY DEF Init
<1> QED
  BY <1>1, LoopInvariant, StepRefines, PTL DEF Spec, DecodesByBestMatch, Abs!Spec
=============================================================================
