----------------------------- MODULE RowProofs -----------------------------
(***************************************************************************)
(* For all words, whatever the tables hold as long as they satisfy the     *)
(* assumptions of Isa, Decode and RowAnalysis: the slots of a bundle stay  *)
(* apart, the order of the table decides nothing but a name, an operand's  *)
(* role can be asked of any pipe, no bit of an operand is lost, the rows   *)
(* tile the bundle, and their flow, targets, register accesses and frame   *)
(* adjustments are those of the tables.                                    *)
(***************************************************************************)
EXTENDS RowAnalysis, FiniteSetTheorems, SequenceTheorems, WellFoundedInduction, TLAPS

\* A slot as decode_pipe leaves it for pipe n of the bundle: empty, or the best match.
SlotFits(n) ==
  \/ slots[n] = NoSlot
  \/ \E i \in 1..Len(Opcodes) : /\ IsBest(raw, PipeOf(n), i, Len(Opcodes))
                                /\ slots[n] = SlotOf(raw, pc, PipeOf(n), i)

\* What the decoder has done so far.
DecodeInv ==
  /\ outcome \in {"pending", "bundle", "none"} /\ pc \in Pcs
  /\ Len(slots) \in 0..Len(PipesOf(raw))
  /\ DOMAIN slots = 1..Len(slots)
  /\ \A n \in DOMAIN slots : SlotFits(n)
  /\ outcome # "pending" => Len(slots) = Len(PipesOf(raw))
  /\ outcome = "bundle" => Decoded # {}

\* A bundle of the X format has two pipes, one of the Y format three.
LEMMA PipesOfType ==
  ASSUME NEW w
  PROVE  /\ Len(PipesOf(w)) \in {2, 3}
         /\ \A n \in 1..Len(PipesOf(w)) : PipesOf(w)[n] \in Pipes
         /\ \A m, n \in 1..Len(PipesOf(w)) :
              m # n => /\ PipesOf(w)[m] # PipesOf(w)[n]
                       /\ PipesOf(w)[m] < 2 <=> PipesOf(w)[n] < 2
<1>1. PipesOf(w) = <<0, 1>> \/ PipesOf(w) = <<2, 3, 4>>
  BY DEF PipesOf
<1>2. CASE PipesOf(w) = <<0, 1>>
  BY <1>2 DEF Pipes
<1>3. CASE PipesOf(w) = <<2, 3, 4>>
  BY <1>3 DEF Pipes
<1>4. QED
  BY <1>1, <1>2, <1>3

\* A slot that decoded holds the number of the opcode it was taken from.
LEMMA DecodedFits ==
  ASSUME DecodeInv, NEW n \in Decoded
  PROVE  /\ n \in 1..Len(PipesOf(raw)) /\ PipeOf(n) \in Pipes
         /\ slots[n].itype \in 1..Len(Opcodes)
         /\ IsBest(raw, PipeOf(n), slots[n].itype, Len(Opcodes))
         /\ slots[n] = SlotOf(raw, pc, PipeOf(n), slots[n].itype)
<1>1. n \in DOMAIN slots /\ slots[n].itype # 0 /\ SlotFits(n)
  BY DEF Decoded, DecodeInv
<1>2. n \in 1..Len(PipesOf(raw))
  BY <1>1, PipesOfType DEF DecodeInv
<1>3. PipeOf(n) \in Pipes
  BY <1>2, PipesOfType DEF PipeOf
<1>4. slots[n] # NoSlot
  BY <1>1 DEF NoSlot
<1>5. PICK i \in 1..Len(Opcodes) : /\ IsBest(raw, PipeOf(n), i, Len(Opcodes))
                                   /\ slots[n] = SlotOf(raw, pc, PipeOf(n), i)
  BY <1>1, <1>4 DEF SlotFits
<1>6. SlotOf(raw, pc, PipeOf(n), i).itype = i
  BY DEF SlotOf
<1>7. slots[n].itype = i
  BY <1>5, <1>6
<1>8. QED
  BY <1>2, <1>3, <1>5, <1>7

\* The opcode of a decoded slot is one that its pipe has.
LEMMA DecodedHas ==
  ASSUME DecodeInv, NEW n \in Decoded
  PROVE  /\ slots[n].itype \in Having(PipeOf(n))
         /\ Matches(raw, PipeOf(n), slots[n].itype)
<1>1. slots[n].itype \in 1..Len(Opcodes) /\ Matches(raw, PipeOf(n), slots[n].itype)
  BY DecodedFits DEF IsBest
<1>2. QED
  BY <1>1 DEF Having, Matches

-----------------------------------------------------------------------------
(* What the tables give to every bundle. *)

\* From the disjoint bits of the pipes: the slots of a bundle are apart.
LEMMA InvSlotsApart == DecodeInv => SlotsApart
<1> SUFFICES ASSUME DecodeInv, NEW m \in Decoded, NEW n \in Decoded, m # n
             PROVE  UsedBits(m) \cap UsedBits(n) \subseteq MODE_MASK
  BY DEF SlotsApart
<1>1. UsedBits(m) \subseteq PipeBits(PipeOf(m)) /\ UsedBits(n) \subseteq PipeBits(PipeOf(n))
  BY DecodedHas DEF UsedBits, PipeBits
<1>2. /\ m \in 1..Len(PipesOf(raw)) /\ n \in 1..Len(PipesOf(raw))
      /\ PipeOf(m) \in Pipes /\ PipeOf(n) \in Pipes
  BY DecodedFits
<1>3. PipeOf(m) # PipeOf(n) /\ (PipeOf(m) < 2 <=> PipeOf(n) < 2)
  BY <1>2, PipesOfType DEF PipeOf
<1>4. PipeBits(PipeOf(m)) \cap PipeBits(PipeOf(n)) \subseteq MODE_MASK
  BY <1>2, <1>3, PipesAssumption
<1>5. QED
  BY <1>1, <1>4

\* From the table's aliases: a tie is one between two names of an instruction.
LEMMA InvAliases == DecodeInv => OnlyAliasesTie
<1> SUFFICES ASSUME DecodeInv, NEW n \in Decoded, NEW i \in 1..Len(Opcodes),
                    Matches(raw, PipeOf(n), i),
                    FixedBits(PipeOf(n), i) = FixedBits(PipeOf(n), slots[n].itype)
             PROVE  /\ Opcodes[i].enc[PipeOf(n)] = EncOf(n)
                    /\ Opcodes[i].mem = OpcodeOf(n).mem
                    /\ Opcodes[i].num_operands = OpcodeOf(n).num_operands
  BY DEF OnlyAliasesTie
<1> DEFINE pipe == PipeOf(n)
           j == slots[n].itype
<1>1. pipe \in Pipes /\ i \in Having(pipe) /\ j \in Having(pipe)
  BY DecodedFits, DecodedHas DEF Having, Matches
<1>2. Matches(raw, pipe, i) /\ Matches(raw, pipe, j)
  BY DecodedHas
<1>3. Cardinality(Opcodes[i].enc[pipe].mask) = Cardinality(Opcodes[j].enc[pipe].mask)
  BY DEF FixedBits
<1>4. Opcodes[i].enc[pipe].val \cap Opcodes[j].enc[pipe].mask
        = Opcodes[j].enc[pipe].val \cap Opcodes[i].enc[pipe].mask
  BY <1>2 DEF Matches
<1>5. EncOf(n) = Opcodes[j].enc[pipe] /\ OpcodeOf(n) = Opcodes[j]
  BY DEF EncOf, OpcodeOf
<1> HIDE DEF pipe, j
<1>6. /\ Opcodes[i].enc[pipe] = Opcodes[j].enc[pipe]
      /\ Opcodes[i].mem = Opcodes[j].mem
      /\ Opcodes[i].num_operands = Opcodes[j].num_operands
  BY <1>1, <1>3, <1>4, AliasAssumption, Zenon
<1>7. QED
  BY <1>5, <1>6 DEF pipe

\* The least of some pipes is one of them.
LEMMA LeastPipe ==
  ASSUME NEW S \in SUBSET Pipes, NEW p \in S
  PROVE  Min(S) \in S
<1>1. \E x \in S : \A y \in S : x <= y
  <2>1. \A x \in S : x \in {0, 1, 2, 3, 4}
    BY DEF Pipes
  <2>2. CASE 0 \in S
    BY <2>1, <2>2
  <2>3. CASE 0 \notin S /\ 1 \in S
    BY <2>1, <2>3
  <2>4. CASE 0 \notin S /\ 1 \notin S /\ 2 \in S
    BY <2>1, <2>4
  <2>5. CASE 0 \notin S /\ 1 \notin S /\ 2 \notin S /\ 3 \in S
    BY <2>1, <2>5
  <2>6. CASE 0 \notin S /\ 1 \notin S /\ 2 \notin S /\ 3 \notin S
    BY <2>1, <2>6
  <2>7. QED
    BY <2>2, <2>3, <2>4, <2>5, <2>6
<1>2. QED
  BY <1>1 DEF Min

\* From the table's roles: the first pipe that has the opcode answers for all.
LEMMA InvRoles == DecodeInv => RolesShared
<1> SUFFICES ASSUME DecodeInv, NEW n \in Decoded, NEW v \in DOMAIN slots[n].ops
             PROVE  LET own   == RawDef(n, VisibleRaw(OpcodeOf(n))[v])
                        asked == operand_def(slots[n], v)
                    IN  asked.kind = own.kind /\ asked.src = own.src /\ asked.dest = own.dest
  BY DEF RolesShared
<1> DEFINE i == slots[n].itype
           has == {r \in Pipes : i \in Having(r)}
<1>1. PipeOf(n) \in has /\ i \in 1..Len(Opcodes)
  BY DecodedFits, DecodedHas
<1>2. has = {p \in Pipes : Opcodes[i].enc[p].valid}
  BY <1>1 DEF Having
<1>3. Min(has) \in has
  BY <1>1, LeastPipe
<1>4. v \in DOMAIN VisibleRaw(Opcodes[i])
  <2>1. slots[n] = SlotOf(raw, pc, PipeOf(n), i)
    BY DecodedFits
  <2>2. DOMAIN SlotOf(raw, pc, PipeOf(n), i).ops = DOMAIN VisibleRaw(Opcodes[i])
    BY DEF SlotOf, visible_operands
  <2>3. QED
    BY <2>1, <2>2
<1>5. RawDef(n, VisibleRaw(OpcodeOf(n))[v]) = RawOf(PipeOf(n), i, VisibleRaw(Opcodes[i])[v] + 1)
  BY DEF RawDef, RawOf, EncOf, OpcodeOf
<1>6. operand_def(slots[n], v) = RawOf(Min(has), i, VisibleRaw(Opcodes[i])[v] + 1)
  BY <1>2 DEF operand_def, visible_to_raw_op_index, RawOf
<1> HIDE DEF has, i
<1>7. LET a == RawOf(Min(has), i, VisibleRaw(Opcodes[i])[v] + 1)
          b == RawOf(PipeOf(n), i, VisibleRaw(Opcodes[i])[v] + 1)
      IN  a.kind = b.kind /\ a.src = b.src /\ a.dest = b.dest
  BY <1>1, <1>3, <1>4, RolesAssumption, Zenon DEF has
<1>8. QED
  BY <1>5, <1>6, <1>7

-----------------------------------------------------------------------------
(* The decoder. *)

\* The decoder starts with no slot.
LEMMA DecodeStart == Init => DecodeInv
<1> SUFFICES ASSUME Init PROVE DecodeInv
  OBVIOUS
<1>1. slots = <<>> /\ outcome = "pending" /\ pc \in Pcs
  BY DEF Init
<1>2. Len(slots) = 0 /\ DOMAIN slots = {}
  BY <1>1
<1>3. Len(slots) \in 0..Len(PipesOf(raw)) /\ DOMAIN slots = 1..Len(slots)
  BY <1>2, PipesOfType
<1>4. QED
  BY <1>1, <1>2, <1>3 DEF DecodeInv

\* A pipe that decodes adds the best match or an empty slot.
LEMMA DecodePipeKeeps == DecodeInv /\ DecodePipe => DecodeInv'
<1> SUFFICES ASSUME DecodeInv, DecodePipe PROVE DecodeInv'
  OBVIOUS
<1>1. /\ Len(slots) < Len(PipesOf(raw)) /\ UNCHANGED <<raw, pc, outcome>>
      /\ Len(PipesOf(raw)) \in Nat /\ Len(slots) \in Nat
  BY PipesOfType DEF DecodePipe, DecodeInv
<1>2. PICK new : /\ slots' = Append(slots, new)
                 /\ \/ new = NoSlot
                    \/ \E i \in 1..Len(Opcodes) :
                         /\ IsBest(raw, CurrentPipe, i, Len(Opcodes))
                         /\ new = SlotOf(raw, pc, CurrentPipe, i)
  BY DEF DecodePipe
<1>3. /\ Len(slots') = Len(slots) + 1 /\ DOMAIN slots' = 1..(Len(slots) + 1)
      /\ \A n \in 1..Len(slots) : slots'[n] = slots[n]
      /\ slots'[Len(slots) + 1] = new
  BY <1>1, <1>2 DEF DecodeInv
<1>4. \A n \in DOMAIN slots' : SlotFits(n)'
  <2> SUFFICES ASSUME NEW n \in DOMAIN slots' PROVE SlotFits(n)'
    OBVIOUS
  <2>1. PipeOf(n)' = PipeOf(n)
    BY <1>1 DEF PipeOf
  <2>2. CASE n \in 1..Len(slots)
    <3>1. SlotFits(n) /\ slots'[n] = slots[n]
      BY <1>3, <2>2 DEF DecodeInv
    <3>2. QED
      BY <1>1, <2>1, <3>1 DEF SlotFits, IsBest, Matches, FixedBits
  <2>3. CASE n = Len(slots) + 1
    <3>1. PipeOf(n) = CurrentPipe /\ slots'[n] = new
      BY <1>3, <2>3 DEF PipeOf, CurrentPipe
    <3>2. QED
      BY <1>1, <1>2, <2>1, <3>1 DEF SlotFits, IsBest, Matches, FixedBits
  <2>4. QED
    BY <1>1, <1>3, <2>2, <2>3
<1>5. outcome = "pending"
  BY <1>1 DEF DecodeInv
<1>6. QED
  BY <1>1, <1>3, <1>4, <1>5 DEF DecodeInv

\* The end of the loop over the pipes says whether one of them decoded.
LEMMA FinishKeeps == DecodeInv /\ Finish => DecodeInv'
<1> SUFFICES ASSUME DecodeInv, Finish PROVE DecodeInv'
  OBVIOUS
<1>1. /\ UNCHANGED <<raw, pc, slots>> /\ Len(slots) = Len(PipesOf(raw))
      /\ outcome' \in {"bundle", "none"}
      /\ outcome' = "bundle" => Decoded # {}
  BY DEF Finish, Decoded
<1>2. \A n : SlotFits(n)' <=> SlotFits(n)
  BY <1>1 DEF SlotFits, PipeOf, IsBest, Matches, FixedBits
<1>3. Decoded' = Decoded
  BY <1>1 DEF Decoded
<1>4. QED
  BY <1>1, <1>2, <1>3 DEF DecodeInv

\* What happens to the rows leaves the decoder alone.
LEMMA DecodeUnchanged == DecodeInv /\ UNCHANGED vars => DecodeInv'
<1> SUFFICES ASSUME DecodeInv, UNCHANGED vars PROVE DecodeInv'
  OBVIOUS
<1>1. UNCHANGED <<raw, pc, slots, outcome>>
  BY DEF vars
<1>2. \A n : SlotFits(n)' <=> SlotFits(n)
  BY <1>1 DEF SlotFits, PipeOf, IsBest, Matches, FixedBits
<1>3. Decoded' = Decoded
  BY <1>1 DEF Decoded
<1>4. QED
  BY <1>1, <1>2, <1>3 DEF DecodeInv
-----------------------------------------------------------------------------
(* The slots that decoded, in order. *)

\* A set of naturals that is not empty has a least element.
LEMMA LeastNat ==
  ASSUME NEW S \in SUBSET Nat, S # {}
  PROVE  \E x \in S : \A y \in S : x <= y
<1>1. \E x \in S : \A y \in S : ~(<<y, x>> \in OpToRel(<, Nat))
  BY NatLessThanWellFounded, WFMin, Zenon
<1>2. \A x, y \in Nat : y < x => <<y, x>> \in OpToRel(<, Nat)
  BY Zenon DEF OpToRel
<1>3. \E x \in S : \A y \in S : ~(y < x)
  BY <1>1, <1>2, Zenon
<1>4. QED
  BY <1>3

\* The loop of Kept: element i of f holds what the first i rounds found.
IsFilter(f, S, n) ==
  f = [i \in 0..n |-> IF i = 0 THEN <<>>
                      ELSE IF i \in S THEN Append(f[i - 1], i) ELSE f[i - 1]]

\* The recursive definition behind the loop has a solution.
LEMMA FilterExists ==
  ASSUME NEW S, NEW n \in Nat
  PROVE  \E f : IsFilter(f, S, n)
<1> DEFINE Bad == {m \in Nat : ~\E f : IsFilter(f, S, m)}
<1> SUFFICES ASSUME Bad # {} PROVE FALSE
  OBVIOUS
<1>1. PICK m \in Bad : \A k \in Bad : m <= k
  BY LeastNat, Bad \in SUBSET Nat
<1>2. m # 0
  <2> DEFINE f == [i \in 0..0 |-> <<>>]
  <2>1. f = [i \in 0..0 |-> IF i = 0 THEN <<>>
                            ELSE IF i \in S THEN Append(f[i - 1], i) ELSE f[i - 1]]
    OBVIOUS
  <2>2. IsFilter(f, S, 0)
    BY <2>1, Zenon DEF IsFilter
  <2>3. QED
    BY <1>1, <2>2
<1>3. PICK f : IsFilter(f, S, m - 1)
  BY <1>1, <1>2
<1> DEFINE Round(s, i) == IF i \in S THEN Append(s, i) ELSE s
           g == [i \in 0..m |-> IF i = m THEN Round(f[m - 1], m) ELSE f[i]]
<1>4. m \in Nat \ {0}
  BY <1>1, <1>2
<1>5. \A i \in 0..(m - 1) : f[i] = IF i = 0 THEN <<>> ELSE Round(f[i - 1], i)
  BY <1>3 DEF IsFilter
<1>6. \A i \in 0..(m - 1) : g[i] = f[i]
  BY <1>4
<1>7. g[m] = Round(f[m - 1], m)
  BY <1>4
<1>8. ASSUME NEW i \in 0..m
      PROVE  g[i] = IF i = 0 THEN <<>> ELSE Round(g[i - 1], i)
  <2> HIDE DEF g, Round
  <2>1. CASE i = m
    <3>1. g[m - 1] = f[m - 1]
      BY <1>4, <1>6
    <3>2. QED
      BY <1>4, <1>7, <2>1, <3>1
  <2>2. CASE i # m
    <3>1. i \in 0..(m - 1)
      BY <1>4, <2>2
    <3>2. i # 0 => i - 1 \in 0..(m - 1)
      BY <3>1
    <3>3. QED
      BY <1>5, <1>6, <3>1, <3>2
  <2>3. QED
    BY <2>1, <2>2
<1>9. g = [i \in 0..m |-> IF i = 0 THEN <<>> ELSE Round(g[i - 1], i)]
  BY <1>8, Zenon
<1>10. IsFilter(g, S, m)
  BY <1>9, Zenon DEF IsFilter
<1>11. QED
  BY <1>1, <1>10

\* The elements of an increasing sequence, and nothing else.
Lists(s, S) ==
  /\ s \in Seq(Nat)
  /\ \A k \in 1..Len(s) : s[k] \in S
  /\ \A x \in S : \E k \in 1..Len(s) : s[k] = x
  /\ \A j, k \in 1..Len(s) : j < k => s[j] < s[k]

\* A greater element is appended to such a sequence.
LEMMA ListsAppend ==
  ASSUME NEW s, NEW S \in SUBSET Nat, Lists(s, S), NEW m \in Nat, \A x \in S : x < m
  PROVE  Lists(Append(s, m), S \cup {m})
<1> DEFINE t == Append(s, m)
<1>1. s \in Seq(Nat) /\ Len(s) \in Nat
  BY DEF Lists
<1>2. /\ t \in Seq(Nat) /\ Len(t) = Len(s) + 1 /\ t[Len(s) + 1] = m
      /\ \A k \in 1..Len(s) : t[k] = s[k]
  BY <1>1
<1> HIDE DEF t
<1>3. \A k \in 1..Len(t) : k \in 1..Len(s) \/ k = Len(s) + 1
  BY <1>1, <1>2
<1>4. \A k \in 1..Len(s) : k \in 1..Len(t) /\ s[k] \in S
  BY <1>1, <1>2 DEF Lists
<1>5. \A k \in 1..Len(t) : t[k] \in S \cup {m}
  BY <1>2, <1>3, <1>4
<1>6. \A x \in S \cup {m} : \E k \in 1..Len(t) : t[k] = x
  <2> TAKE x \in S \cup {m}
  <2>1. CASE x \in S
    BY <1>2, <1>4, <2>1 DEF Lists
  <2>2. CASE x = m
    <3>1. Len(s) + 1 \in 1..Len(t)
      BY <1>1, <1>2
    <3>2. QED
      BY <1>2, <2>2, <3>1
  <2>3. QED
    BY <2>1, <2>2
<1>7. \A j, k \in 1..Len(t) : j < k => t[j] < t[k]
  <2> TAKE j, k \in 1..Len(t)
  <2> HAVE j < k
  <2>1. j \in 1..Len(s) /\ t[j] = s[j] /\ s[j] \in S
    BY <1>1, <1>2, <1>3, <1>4
  <2>2. CASE k \in 1..Len(s)
    BY <1>2, <2>1, <2>2 DEF Lists
  <2>3. CASE k = Len(s) + 1
    BY <1>2, <2>1, <2>3
  <2>4. QED
    BY <1>3, <2>2, <2>3
<1>8. QED
  BY <1>2, <1>5, <1>6, <1>7 DEF Lists, t

\* The loop finds the slots that decoded.
LEMMA FilterLists ==
  ASSUME NEW S, NEW n \in Nat, NEW f, IsFilter(f, S, n)
  PROVE  \A m \in 0..n : Lists(f[m], {i \in 1..m : i \in S})
<1> DEFINE Found(m) == {i \in 1..m : i \in S}
           Bad == {m \in Nat : m \in 0..n /\ ~Lists(f[m], Found(m))}
<1>1. /\ f[0] = <<>>
      /\ \A m \in 1..n : f[m] = IF m \in S THEN Append(f[m - 1], m) ELSE f[m - 1]
  <2>1. \A m \in 0..n : f[m] = IF m = 0 THEN <<>>
                                ELSE IF m \in S THEN Append(f[m - 1], m) ELSE f[m - 1]
    BY Zenon DEF IsFilter
  <2>2. 0 \in 0..n /\ \A m \in 1..n : m \in 0..n /\ m # 0
    OBVIOUS
  <2>3. QED
    BY <2>1, <2>2, Zenon
<1>2. Bad = {}
  <2> SUFFICES ASSUME Bad # {} PROVE FALSE
    OBVIOUS
  <2>1. PICK m \in Bad : \A k \in Bad : m <= k
    BY LeastNat, Bad \in SUBSET Nat
  <2>2. Lists(f[0], Found(0))
    <3>1. f[0] = <<>> /\ Len(f[0]) = 0 /\ f[0] \in Seq(Nat) /\ Found(0) = {}
      BY <1>1
    <3>2. QED
      BY <3>1 DEF Lists
  <2>3. m \in 1..n /\ m - 1 \in Nat /\ m - 1 \in 0..n /\ m - 1 \notin Bad
    <3> HIDE DEF Found
    <3>1. m \in 0..n /\ m # 0
      BY <2>1, <2>2
    <3>2. m - 1 \notin Bad
      <4> HIDE DEF Bad
      <4>1. m \in Nat /\ (m - 1 \in Bad => m <= m - 1)
        BY <2>1, <3>1
      <4>2. QED
        BY <4>1
    <3> HIDE DEF Bad
    <3>3. QED
      BY <3>1, <3>2
  <2>4. Lists(f[m - 1], Found(m - 1))
    <3> HIDE DEF Found
    <3>1. QED
      BY <2>3
  <2>5. CASE m \in S
    <3>1. Found(m) = Found(m - 1) \cup {m}
      BY <2>3, <2>5
    <3>2. Found(m - 1) \in SUBSET Nat /\ \A x \in Found(m - 1) : x < m
      BY <2>3
    <3> HIDE DEF Found
    <3>3. Lists(Append(f[m - 1], m), Found(m - 1) \cup {m})
      BY <2>4, <3>2, ListsAppend
    <3>4. f[m] = Append(f[m - 1], m)
      BY <1>1, <2>3, <2>5
    <3>5. Lists(f[m], Found(m))
      BY <3>1, <3>3, <3>4
    <3>6. QED
      BY <2>1, <3>5
  <2>6. CASE m \notin S
    <3>1. Found(m) = Found(m - 1) /\ f[m] = f[m - 1]
      BY <1>1, <2>3, <2>6
    <3>2. QED
      BY <2>1, <2>4, <3>1
  <2>7. QED
    BY <2>5, <2>6
<1>3. QED
  BY <1>2

\* What Kept keeps is the set, in order.
LEMMA KeptLists ==
  ASSUME NEW n \in Nat, NEW S
  PROVE  Lists(Kept(n, S), S \cap (1..n))
<1> DEFINE f == CHOOSE g : IsFilter(g, S, n)
<1>1. Kept(n, S) = f[n]
  BY DEF Kept, IsFilter
<1>2. IsFilter(f, S, n)
  BY FilterExists
<1> HIDE DEF f
<1>3. Lists(f[n], {i \in 1..n : i \in S})
  <2>1. n \in 0..n
    OBVIOUS
  <2>2. QED
    BY <1>2, <2>1, FilterLists, Zenon
<1>4. {i \in 1..n : i \in S} = S \cap (1..n)
  OBVIOUS
<1>5. QED
  BY <1>1, <1>3, <1>4

\* valid_slot_indices lists the slots that decoded.
LEMMA IndicesList ==
  ASSUME NEW bundle, Len(bundle) \in Nat, DOMAIN bundle = 1..Len(bundle)
  PROVE  Lists(valid_slot_indices(bundle), {n \in DOMAIN bundle : bundle[n].itype # 0})
<1> DEFINE S == {n \in DOMAIN bundle : bundle[n].itype # 0}
<1>1. S \cap (1..Len(bundle)) = S
  OBVIOUS
<1>2. valid_slot_indices(bundle) = Kept(Len(bundle), S)
  BY DEF valid_slot_indices
<1> HIDE DEF S
<1>3. Lists(Kept(Len(bundle), S), S \cap (1..Len(bundle)))
  BY KeptLists
<1>4. QED
  BY <1>1, <1>2, <1>3 DEF S
-----------------------------------------------------------------------------
(* The rows of a bundle. *)

Indices == valid_slot_indices(slots)

Count == Len(Indices)

\* Offset and slots of the first row, and of the second when two slots decoded.
FirstEnd == IF Count = 1 THEN 8 ELSE 4

FirstRow == [slots |-> {Indices[1]}, size |-> FirstEnd, next_offset |-> FirstEnd,
             flags |-> row_flags(slots, {Indices[1]})]

OtherSlots == {Indices[k] : k \in 2..Count}

SecondRow == [slots |-> OtherSlots, size |-> 4, next_offset |-> 8,
              flags |-> row_flags(slots, OtherSlots)]

\* A bundle has one slot that decoded or more, in the order of the pipes.
LEMMA CountPositive ==
  ASSUME DecodeInv, outcome = "bundle"
  PROVE  Lists(Indices, Decoded) /\ Count \in Nat /\ Count >= 1
<1>1. Len(slots) \in Nat /\ DOMAIN slots = 1..Len(slots) /\ Decoded # {}
  BY PipesOfType DEF DecodeInv
<1>2. Lists(Indices, Decoded)
  BY <1>1, IndicesList DEF Indices, Decoded
<1>3. Count \in Nat
  BY <1>2 DEF Lists, Count
<1>4. PICK n : n \in Decoded
  BY <1>1
<1>5. \E k \in 1..Count : Indices[k] = n
  BY <1>2, <1>4 DEF Lists, Count
<1>6. QED
  BY <1>2, <1>3, <1>5

\* There are two rows as soon as there are two slots.
LEMMA RowCount ==
  ASSUME NEW c \in Nat, c >= 1
  PROVE  row_count(c) = IF c = 1 THEN 1 ELSE 2
<1>1. CASE c = 1
  <2>1. {c, 2} = {1, 2}
    BY <1>1
  <2>2. \A x \in {1, 2} : (\A y \in {1, 2} : x <= y) <=> x = 1
    OBVIOUS
  <2>3. Min({1, 2}) = 1
    BY <2>2 DEF Min
  <2>4. QED
    BY <1>1, <2>1, <2>3 DEF row_count
<1>2. CASE c # 1
  <2>1. 2 <= c
    BY <1>2
  <2>2. \A x \in {c, 2} : (\A y \in {c, 2} : x <= y) <=> x = 2
    BY <2>1
  <2>3. Min({c, 2}) = 2
    BY <2>2 DEF Min
  <2>4. QED
    BY <1>2, <2>3 DEF row_count
<1>3. QED
  BY <1>1, <1>2

\* The row with a number, as row_at makes it.
RowNumber(r) ==
  LET end   == IF r + 1 < row_count(Count) THEN row_offset(r + 1, Count) ELSE 8
      taken == {Indices[k] : k \in row_slots(Count, r)}
  IN  [slots |-> taken, size |-> end - row_offset(r, Count), next_offset |-> end,
       flags |-> row_flags(slots, taken)]

\* A row starts at 0, another one at 4 if two slots decoded, and none elsewhere.
LEMMA RowsAre ==
  ASSUME DecodeInv, outcome = "bundle"
  PROVE  /\ row_at(slots, 0) = {FirstRow}
         /\ \A o : o # 0 => row_at(slots, o) = IF o = 4 /\ Count # 1 THEN {SecondRow} ELSE {}
         /\ code_rows(slots) = IF Count = 1 THEN <<0>> ELSE <<0, 4>>
<1> DEFINE At(o) == {q \in 0..(row_count(Count) - 1) : row_offset(q, Count) = o}
<1>1. Count \in Nat /\ Count >= 1
  BY CountPositive
<1>2. row_count(Count) = IF Count = 1 THEN 1 ELSE 2
  BY <1>1, RowCount
<1>3. \A o : row_at(slots, o) = {RowNumber(r) : r \in At(o)}
  BY DEF row_at, RowNumber, Indices, Count
<1>4. \A q \in 0..(row_count(Count) - 1) :
        (q = 0 \/ (q = 1 /\ Count # 1)) /\ row_offset(q, Count) = IF q = 0 THEN 0 ELSE 4
  BY <1>1, <1>2 DEF row_offset
<1>5. RowNumber(0) = FirstRow
  <2>1. row_slots(Count, 0) = {1}
    BY <1>1 DEF row_slots
  <2>2. {Indices[k] : k \in row_slots(Count, 0)} = {Indices[1]}
    BY <2>1
  <2>3. (IF 0 + 1 < row_count(Count) THEN row_offset(0 + 1, Count) ELSE 8) = FirstEnd
    BY <1>1, <1>2 DEF row_offset, FirstEnd
  <2>4. FirstEnd - row_offset(0, Count) = FirstEnd
    BY DEF row_offset, FirstEnd
  <2>5. QED
    BY <2>2, <2>3, <2>4 DEF RowNumber, FirstRow
<1>6. Count # 1 => RowNumber(1) = SecondRow
  <2> SUFFICES ASSUME Count # 1 PROVE RowNumber(1) = SecondRow
    OBVIOUS
  <2>1. row_slots(Count, 1) = 2..Count
    BY <1>1 DEF row_slots
  <2>2. {Indices[k] : k \in row_slots(Count, 1)} = OtherSlots
    BY <2>1 DEF OtherSlots
  <2>3. (IF 1 + 1 < row_count(Count) THEN row_offset(1 + 1, Count) ELSE 8) = 8
    BY <1>2
  <2>4. 8 - row_offset(1, Count) = 4
    BY <1>1 DEF row_offset
  <2>5. QED
    BY <2>2, <2>3, <2>4 DEF RowNumber, SecondRow
<1>7. row_at(slots, 0) = {FirstRow}
  <2>1. At(0) = {0}
    BY <1>1, <1>2, <1>4
  <2> HIDE DEF At
  <2>2. QED
    BY <1>3, <1>5, <2>1
<1>8. ASSUME NEW o, o # 0
      PROVE  row_at(slots, o) = IF o = 4 /\ Count # 1 THEN {SecondRow} ELSE {}
  <2>1. CASE o = 4 /\ Count # 1
    <3>1. At(o) = {1}
      BY <1>2, <1>4, <2>1
    <3> HIDE DEF At
    <3>2. QED
      BY <1>3, <1>6, <2>1, <3>1
  <2>2. CASE ~(o = 4 /\ Count # 1)
    <3>1. At(o) = {}
      BY <1>4, <1>8, <2>2
    <3> HIDE DEF At
    <3>2. QED
      BY <1>3, <2>2, <3>1
  <2>3. QED
    BY <2>1, <2>2
<1>9. code_rows(slots) = IF Count = 1 THEN <<0>> ELSE <<0, 4>>
  <2>1. code_rows(slots) = [r \in 1..row_count(Count) |-> row_offset(r - 1, Count)]
    BY DEF code_rows, Indices, Count
  <2>2. CASE Count = 1
    <3>1. code_rows(slots) = [r \in 1..1 |-> 0]
      BY <1>2, <2>1, <2>2 DEF row_offset
    <3>2. QED
      BY <2>2, <3>1
  <2>3. CASE Count # 1
    <3>1. \A r \in 1..2 : row_offset(r - 1, Count) = <<0, 4>>[r]
      BY <1>1, <2>3 DEF row_offset
    <3>2. code_rows(slots) = [r \in 1..2 |-> <<0, 4>>[r]]
      BY <1>2, <2>1, <2>3, <3>1
    <3>3. QED
      BY <2>3, <3>2
  <2>4. QED
    BY <2>2, <2>3
<1>10. QED
  BY <1>7, <1>8, <1>9
-----------------------------------------------------------------------------
(* The listing. *)

\* Row k of the listing is the one that row_at found, with what is asked about it.
IsRow(k, row, offset) ==
  /\ listed[k].offset = offset
  /\ listed[k].row = row
  /\ listed[k].align = row_align_size(slots, row)
  /\ listed[k].refs = refs_for(slots, row)
  /\ listed[k].accesses = row_reg_accesses(slots, row)

\* The listing has no row yet, the first one, or both, if control goes on from the first.
ListInv ==
  \/ listed = <<>> /\ at = 0
  \/ /\ outcome = "bundle" /\ listed = <<listed[1]>>
     /\ IsRow(1, FirstRow, 0)
     /\ at = FirstEnd
  \/ /\ outcome = "bundle" /\ listed = <<listed[1], listed[2]>>
     /\ IsRow(1, FirstRow, 0)
     /\ IsRow(2, SecondRow, 4)
     /\ FallsThrough(listed[1])
     /\ Count # 1
     /\ at = 8

IInv == DecodeInv /\ ListInv

\* The rows are made from the slots alone.
LEMMA RowsUnchanged ==
  ASSUME UNCHANGED slots
  PROVE  /\ FirstRow' = FirstRow /\ SecondRow' = SecondRow
         /\ FirstEnd' = FirstEnd /\ Count' = Count
         /\ \A row : /\ row_align_size(slots, row)' = row_align_size(slots, row)
                     /\ refs_for(slots, row)' = refs_for(slots, row)
                     /\ row_reg_accesses(slots, row)' = row_reg_accesses(slots, row)
<1>1. Indices' = Indices
  BY DEF Indices
<1>2. Count' = Count
  BY <1>1 DEF Count
<1>3. FirstEnd' = FirstEnd
  BY <1>2 DEF FirstEnd
<1>4. OtherSlots' = OtherSlots
  BY <1>1, <1>2 DEF OtherSlots
<1>5. FirstRow' = FirstRow /\ SecondRow' = SecondRow
  BY <1>1, <1>3, <1>4 DEF FirstRow, SecondRow
<1>6. QED
  BY <1>2, <1>3, <1>5

\* The listing starts empty.
LEMMA ListStart == RowInit => IInv
  BY DecodeStart DEF RowInit, IInv, ListInv

\* A step of the decoder finds no row listed.
LEMMA DecodeStepKeeps == IInv /\ DecodeStep => IInv'
<1> SUFFICES ASSUME IInv, DecodeStep PROVE IInv'
  OBVIOUS
<1>1. DecodeInv'
  BY DecodePipeKeeps, FinishKeeps DEF IInv, DecodeStep, Next
<1>2. outcome = "pending"
  <2>1. CASE DecodePipe
    <3>1. Len(slots) # Len(PipesOf(raw))
      BY <2>1, PipesOfType DEF DecodePipe, IInv, DecodeInv
    <3>2. QED
      BY <3>1 DEF IInv, DecodeInv
  <2>2. CASE Finish
    BY <2>2 DEF Finish
  <2>3. QED
    BY <2>1, <2>2 DEF DecodeStep, Next
<1>3. listed = <<>> /\ at = 0
  BY <1>2 DEF IInv, ListInv
<1>4. QED
  BY <1>1, <1>3 DEF IInv, ListInv, DecodeStep

\* Appending to a sequence of one element makes a pair.
LEMMA AppendPair ==
  ASSUME NEW x, NEW y
  PROVE  Append(<<x>>, y) = <<x, y>>
<1> DEFINE S == {x, y}
           s == <<x>>
           t == Append(s, y)
<1>1. s \in Seq(S) /\ Len(s) = 1 /\ s[1] = x /\ y \in S
  OBVIOUS
<1>2. t \in Seq(S) /\ Len(t) = 2
  OBVIOUS
<1>3. t[1] = x /\ t[2] = y
  OBVIOUS
<1> HIDE DEF S, s, t
<1>4. t = [i \in 1..2 |-> t[i]]
  BY <1>2
<1>5. <<x, y>> = [i \in 1..2 |-> IF i = 1 THEN x ELSE y]
  OBVIOUS
<1>6. t = [i \in 1..2 |-> IF i = 1 THEN x ELSE y]
  BY <1>3, <1>4
<1>7. QED
  BY <1>5, <1>6 DEF t, s

\* Listing a row appends the one that starts where the last ended.
LEMMA ListRowKeeps == IInv /\ ListRow => IInv'
<1> SUFFICES ASSUME IInv, ListRow PROVE IInv'
  OBVIOUS
<1>1. /\ DecodeInv /\ ListInv /\ outcome = "bundle" /\ UNCHANGED vars
      /\ UNCHANGED slots /\ UNCHANGED outcome
  BY DEF IInv, ListRow, vars
<1>2. DecodeInv'
  BY <1>1, DecodeUnchanged
<1>3. PICK a \in analysis_at(slots, at) : /\ listed' = Append(listed, a)
                                          /\ at' = a.row.next_offset
  BY DEF ListRow
<1>4. PICK row \in row_at(slots, at) :
        /\ a.offset = at /\ a.row = row /\ a.align = row_align_size(slots, row)
        /\ a.refs = refs_for(slots, row) /\ a.accesses = row_reg_accesses(slots, row)
  BY <1>3 DEF analysis_at
<1>5. /\ row_at(slots, 0) = {FirstRow}
      /\ \A o : o # 0 => row_at(slots, o) = IF o = 4 /\ Count # 1 THEN {SecondRow} ELSE {}
  BY <1>1, RowsAre
<1>6. /\ FirstRow' = FirstRow /\ SecondRow' = SecondRow /\ FirstEnd' = FirstEnd
      /\ Count' = Count
      /\ \A r : /\ row_align_size(slots, r)' = row_align_size(slots, r)
                /\ refs_for(slots, r)' = refs_for(slots, r)
                /\ row_reg_accesses(slots, r)' = row_reg_accesses(slots, r)
  BY <1>1, RowsUnchanged
<1>7. FirstRow.next_offset = FirstEnd /\ SecondRow.next_offset = 8
  BY DEF FirstRow, SecondRow
<1>8. CASE listed = <<>> /\ at = 0
  <2>1. row = FirstRow
    BY <1>4, <1>5, <1>8
  <2>2. listed' = <<listed'[1]>> /\ listed'[1] = a
    BY <1>3, <1>8
  <2>3. IsRow(1, FirstRow, 0)'
    BY <1>4, <1>6, <1>8, <2>1, <2>2 DEF IsRow
  <2>4. at' = FirstEnd
    BY <1>3, <1>4, <1>7, <2>1
  <2>5. QED
    BY <1>1, <1>2, <1>6, <2>2, <2>3, <2>4 DEF IInv, ListInv
<1>9. CASE /\ listed = <<listed[1]>>
           /\ IsRow(1, FirstRow, 0)
           /\ at = FirstEnd
  <2>1. at = 4 /\ Count # 1 /\ row = SecondRow
    BY <1>4, <1>5, <1>9 DEF FirstEnd
  <2>2. listed' = <<listed'[1], listed'[2]>> /\ listed'[1] = listed[1] /\ listed'[2] = a
    <3>1. PICK first : first = listed[1]
      OBVIOUS
    <3>2. listed' = Append(<<first>>, a)
      BY <1>3, <1>9, <3>1
    <3>3. listed' = <<first, a>>
      BY <3>2, AppendPair
    <3>4. QED
      BY <3>1, <3>3
  <2>3. IsRow(1, FirstRow, 0)'
    BY <1>6, <1>9, <2>2 DEF IsRow
  <2>4. IsRow(2, SecondRow, 4)'
    BY <1>4, <1>6, <2>1, <2>2 DEF IsRow
  <2>5. at' = 8
    BY <1>3, <1>4, <1>7, <2>1
  <2>6. FallsThrough(listed[1])'
    <3>1. 1 \in DOMAIN listed
      BY <1>9
    <3>2. FallsThrough(listed[1])
      BY <3>1 DEF ListRow
    <3>3. QED
      BY <2>2, <3>2 DEF FallsThrough
  <2>7. QED
    BY <1>1, <1>2, <1>6, <2>1, <2>2, <2>3, <2>4, <2>5, <2>6 DEF IInv, ListInv
<1>10. CASE at = 8
  BY <1>4, <1>5, <1>10
<1>11. QED
  BY <1>1, <1>8, <1>9, <1>10 DEF ListInv

\* Every step keeps the invariant of decoder and listing.
LEMMA StepKeeps == IInv /\ [RowNext]_rowVars => IInv'
<1> SUFFICES ASSUME IInv, [RowNext]_rowVars PROVE IInv'
  OBVIOUS
<1>1. CASE DecodeStep
  BY <1>1, DecodeStepKeeps
<1>2. CASE ListRow
  BY <1>2, ListRowKeeps
<1>3. CASE UNCHANGED rowVars
  <2>1. UNCHANGED vars /\ UNCHANGED slots /\ UNCHANGED <<at, listed, outcome>>
    BY <1>3 DEF rowVars, vars
  <2>2. DecodeInv'
    BY <2>1, DecodeUnchanged DEF IInv
  <2>3. ListInv'
    BY <2>1, RowsUnchanged DEF IInv, ListInv, IsRow, FallsThrough
  <2>4. QED
    BY <2>2, <2>3 DEF IInv
<1>4. QED
  BY <1>1, <1>2, <1>3 DEF RowNext

-----------------------------------------------------------------------------
(* What the listing shows. *)

\* The slots of the two rows: the first that decoded, and all the others.
LEMMA SlotsOfRows ==
  ASSUME DecodeInv, outcome = "bundle"
  PROVE  /\ Count = 1 => FirstRow.slots = Decoded
         /\ Count # 1 => FirstRow.slots \cup SecondRow.slots = Decoded
         /\ \A m \in FirstRow.slots, n \in SecondRow.slots : m < n
<1>1. Lists(Indices, Decoded) /\ Count \in Nat /\ Count >= 1
  BY CountPositive
<1>2. /\ \A k \in 1..Count : Indices[k] \in Decoded
      /\ \A x \in Decoded : \E k \in 1..Count : Indices[k] = x
      /\ \A j, k \in 1..Count : j < k => Indices[j] < Indices[k]
  BY <1>1 DEF Lists, Count
<1>3. FirstRow.slots = {Indices[1]} /\ SecondRow.slots = {Indices[k] : k \in 2..Count}
  BY DEF FirstRow, SecondRow, OtherSlots
<1>4. \A k \in 1..Count : k = 1 \/ k \in 2..Count
  BY <1>1
<1>5. 1 \in 1..Count /\ \A k \in 2..Count : k \in 1..Count /\ 1 < k
  BY <1>1
<1>6. Count = 1 => FirstRow.slots = Decoded
  BY <1>2, <1>3, <1>5
<1>7. FirstRow.slots \cup SecondRow.slots = Decoded
  BY <1>2, <1>3, <1>4, <1>5
<1>8. \A m \in FirstRow.slots, n \in SecondRow.slots : m < n
  BY <1>2, <1>3, <1>5
<1>9. QED
  BY <1>6, <1>7, <1>8

\* A listing that reached the end of the bundle tiles it.
LEMMA InvTiles == IInv => RowsTile
<1> SUFFICES ASSUME IInv, outcome = "bundle", at = 8 PROVE RowsTile
  BY DEF RowsTile
<1>1. DecodeInv /\ ListInv
  BY DEF IInv
<1>2. /\ row_at(slots, 0) = {FirstRow}
      /\ \A o : o # 0 => row_at(slots, o) = IF o = 4 /\ Count # 1 THEN {SecondRow} ELSE {}
      /\ code_rows(slots) = IF Count = 1 THEN <<0>> ELSE <<0, 4>>
  BY <1>1, RowsAre
<1>3. /\ Count = 1 => FirstRow.slots = Decoded
      /\ Count # 1 => FirstRow.slots \cup SecondRow.slots = Decoded
      /\ \A m \in FirstRow.slots, n \in SecondRow.slots : m < n
  BY <1>1, SlotsOfRows
<1>4. /\ FirstRow.size = FirstEnd /\ FirstRow.next_offset = FirstEnd
      /\ SecondRow.size = 4 /\ SecondRow.next_offset = 8
      /\ FirstEnd = IF Count = 1 THEN 8 ELSE 4
  BY DEF FirstRow, SecondRow, FirstEnd
<1>5. \A n \in Decoded : n \in DOMAIN slots
  BY DEF Decoded
<1>6. CASE listed = <<listed[1]>> /\ IsRow(1, FirstRow, 0) /\ at = FirstEnd
  <2>1. Count = 1 /\ FirstEnd = 8
    BY <1>4, <1>6
  <2>2. listed[1].offset = 0 /\ listed[1].row = FirstRow
    BY <1>6 DEF IsRow
  <2>3. {o \in 0..8 : row_at(slots, o) # {}} = Range(code_rows(slots))
    <3>1. {o \in 0..8 : row_at(slots, o) # {}} = {0}
      BY <1>2, <2>1
    <3>2. Range(code_rows(slots)) = {0}
      BY <1>2, <2>1 DEF Range
    <3>3. QED
      BY <3>1, <3>2
  <2>4. [k \in DOMAIN listed |-> listed[k].offset] = code_rows(slots)
    <3>1. code_rows(slots) = [k \in {1} |-> 0]
      BY <1>2, <2>1
    <3>2. QED
      BY <1>6, <2>2, <3>1
  <2>5. ListedSlots = FirstRow.slots
    BY <1>3, <1>5, <1>6, <2>1, <2>2 DEF ListedSlots
  <2>6. QED
    BY <1>3, <1>4, <1>6, <2>1, <2>2, <2>3, <2>4, <2>5 DEF RowsTile
<1>7. CASE /\ listed = <<listed[1], listed[2]>>
           /\ IsRow(1, FirstRow, 0) /\ IsRow(2, SecondRow, 4) /\ Count # 1
  <2>1. /\ listed[1].offset = 0 /\ listed[1].row = FirstRow
        /\ listed[2].offset = 4 /\ listed[2].row = SecondRow
        /\ FirstEnd = 4
    BY <1>4, <1>7 DEF IsRow
  <2>2. {o \in 0..8 : row_at(slots, o) # {}} = Range(code_rows(slots))
    <3>1. {o \in 0..8 : row_at(slots, o) # {}} = {0, 4}
      BY <1>2, <1>7
    <3>2. Range(code_rows(slots)) = {0, 4}
      BY <1>2, <1>7 DEF Range
    <3>3. QED
      BY <3>1, <3>2
  <2>3. [k \in DOMAIN listed |-> listed[k].offset] = code_rows(slots)
    <3>1. code_rows(slots) = [k \in {1, 2} |-> IF k = 1 THEN 0 ELSE 4]
      BY <1>2, <1>7
    <3>2. QED
      BY <1>7, <2>1, <3>1
  <2>4. ListedSlots = FirstRow.slots \cup SecondRow.slots
    BY <1>3, <1>5, <1>7, <2>1 DEF ListedSlots
  <2>5. \A k \in DOMAIN listed :
          /\ listed[k].offset + listed[k].row.size = listed[k].row.next_offset
          /\ listed[k].row.next_offset = IF k = Len(listed) THEN 8 ELSE listed[k + 1].offset
    BY <1>4, <1>7, <2>1
  <2>6. \A j, k \in DOMAIN listed :
          j < k => \A m \in listed[j].row.slots, n \in listed[k].row.slots : m < n
    BY <1>3, <1>7, <2>1
  <2>7. QED
    BY <1>3, <1>7, <2>1, <2>2, <2>3, <2>4, <2>5, <2>6 DEF RowsTile
<1>8. QED
  BY <1>1, <1>6, <1>7 DEF ListInv

\* A bundle of nops is filler in all its rows, any other in none.
LEMMA InvFiller == IInv => FillerWhole
<1> SUFFICES ASSUME IInv PROVE FillerWhole
  OBVIOUS
<1> DEFINE Nops == \A n \in DOMAIN slots : slots[n].itype # 0 => NameOf(slots[n]) = "nop"
<1>1. \A row : row_align_size(slots, row) = IF Nops THEN row.size ELSE 0
  BY DEF row_align_size
<1>2. \A k \in DOMAIN listed : listed[k].align = row_align_size(slots, listed[k].row)
  BY DEF IInv, ListInv, IsRow
<1> HIDE DEF Nops
<1>3. QED
  BY <1>1, <1>2 DEF FillerWhole

-----------------------------------------------------------------------------
(* Control flow. *)

\* A row that is listed consists of slots that decoded, and its flags are theirs.
LEMMA RowOfDecoded ==
  ASSUME IInv, NEW k \in DOMAIN listed
  PROVE  /\ DecodeInv
         /\ listed[k].row.slots \subseteq Decoded
         /\ listed[k].row.flags = row_flags(slots, listed[k].row.slots)
<1>1. DecodeInv /\ ListInv
  BY DEF IInv
<1>2. outcome = "bundle"
  <2>1. listed # <<>>
    OBVIOUS
  <2>2. QED
    BY <1>1, <2>1 DEF ListInv
<1>3. /\ Count = 1 => FirstRow.slots = Decoded
      /\ Count # 1 => FirstRow.slots \cup SecondRow.slots = Decoded
  BY <1>1, <1>2, SlotsOfRows
<1>4. listed[k].row = FirstRow \/ (listed[k].row = SecondRow /\ Count # 1)
  BY <1>1 DEF ListInv, IsRow
<1>5. /\ FirstRow.flags = row_flags(slots, FirstRow.slots)
      /\ SecondRow.flags = row_flags(slots, SecondRow.slots)
  BY DEF FirstRow, SecondRow
<1>6. QED
  BY <1>1, <1>3, <1>4, <1>5

\* The class of a slot is that of its name.
LEMMA ClassOfName ==
  ASSUME DecodeInv, NEW n \in Decoded
  PROVE  LET name == NameOf(slots[n])
         IN  /\ cflow(n) = "call" <=> name \in Calls
             /\ cflow(n) = "cbranch" <=> name \in CondJumps
             /\ cflow(n) \in {"jump", "ijump", "ret"} <=> name \in Stops
             /\ cflow(n) \in {"call", "cbranch", "jump", "ijump", "ret", "normal"}
             /\ cflow(n) # "normal" => n = 2
<1> DEFINE name == NameOf(slots[n])
           i == slots[n].itype
           pipe == PipeOf(n)
<1>1. i \in Having(pipe) /\ i # 0 /\ i \in 1..Len(Opcodes) /\ pipe \in Pipes
  BY DecodedFits, DecodedHas
<1>2. name = Opcodes[i].name
  BY <1>1 DEF NameOf
<1>3. HasAddr(n) <=> \E k \in 1..Opcodes[i].num_operands : RawOf(pipe, i, k).kind = "Addr"
  <2>1. HasAddr(n) <=> \E k \in 0..(Opcodes[i].num_operands - 1) : RawOf(pipe, i, k + 1).kind = "Addr"
    BY DEF HasAddr, RawDef, RawOf, EncOf, OpcodeOf
  <2>2. Opcodes[i].num_operands \in Nat
    BY <1>1, OpcodesAssumption
  <2> HIDE DEF i, pipe
  <2>3. \A k \in 1..Opcodes[i].num_operands : /\ k - 1 \in 0..(Opcodes[i].num_operands - 1)
                                              /\ (k - 1) + 1 = k
    BY <2>2
  <2>4. \A k \in 0..(Opcodes[i].num_operands - 1) : k + 1 \in 1..Opcodes[i].num_operands
    BY <2>2
  <2>5. QED
    BY <2>1, <2>3, <2>4
<1>4. /\ name \in CondJumps \cup Calls \cup Stops => pipe \in {1, 3}
      /\ HasAddr(n) <=> name \in CondJumps \cup {"j", "jal"}
  <2> HIDE DEF i, pipe, name
  <2>1. QED
    BY <1>1, <1>2, <1>3, ControlAssumption, Zenon
<1>5. pipe \in {1, 3} => n = 2
  <2>1. n \in 1..Len(PipesOf(raw))
    BY DecodedFits
  <2>2. QED
    BY <2>1 DEF PipeOf, PipesOf
<1> HIDE DEF i, pipe
<1>6. cflow(n) = CASE name \in {"jal", "jalr", "jalrp"} -> "call"
                   [] name = "j" -> "jump"
                   [] name \in {"jr", "jrp"} -> "ijump"
                   [] name = "iret" -> "ret"
                   [] OTHER -> IF HasAddr(n) THEN "cbranch" ELSE "normal"
  BY DEF cflow
<1> HIDE DEF name
<1>7. /\ cflow(n) = "call" <=> name \in Calls
      /\ cflow(n) \in {"jump", "ijump", "ret"} <=> name \in Stops
      /\ cflow(n) = "cbranch" <=> name \in CondJumps
      /\ cflow(n) \in {"call", "cbranch", "jump", "ijump", "ret", "normal"}
  BY <1>4, <1>6 DEF Calls, Stops, CondJumps
<1>8. cflow(n) # "normal" => n = 2
  BY <1>4, <1>5, <1>7
<1>9. QED
  BY <1>7, <1>8 DEF name

\* The flags that one slot gives to its row.
LEMMA FlagsOfSlot ==
  ASSUME NEW slot
  PROVE  /\ "CALL" \in flags_of(slot) <=> NameOf(slot) \in Calls
         /\ "COND_JUMP" \in flags_of(slot) <=> NameOf(slot) \in CondJumps
         /\ "STOP" \in flags_of(slot) <=> NameOf(slot) \in Stops
         /\ "JUMP" \in flags_of(slot) <=> NameOf(slot) \in CondJumps \cup Stops
<1>1. NameOf(slot) \in {"jr", "jrp"} => NameOf(slot) \in Stops
  BY DEF Stops
<1>2. is_indirect_jump(slot) => NameOf(slot) \in Stops
  BY <1>1 DEF is_indirect_jump
<1>3. QED
  BY <1>2 DEF flags_of, is_call, is_cond_jump, is_stop

\* The first row stops the flow in one case: the first pipe did not decode and the second
\* one stops.
LEMMA FirstRowStops ==
  ASSUME DecodeInv, outcome = "bundle"
  PROVE  LET alone == 1 \notin Decoded /\ StopsFlow(2)
         IN  /\ "STOP" \in FirstRow.flags <=> alone
             /\ alone => Indices[1] = 2
<1> DEFINE i     == Indices[1]
           alone == 1 \notin Decoded /\ StopsFlow(2)
<1>1. Lists(Indices, Decoded) /\ Count \in Nat /\ Count >= 1
  BY CountPositive
<1>2. \A n \in Decoded : n \in Nat /\ n >= 1
  BY PipesOfType DEF Decoded, DecodeInv
<1>3. i \in Decoded /\ \A n \in Decoded : i <= n
  <2>1. 1 \in 1..Count /\ \A k \in 1..Count : k = 1 \/ 1 < k
    BY <1>1
  <2>2. i \in Decoded
    BY <1>1, <2>1 DEF Lists, Count
  <2>3. ASSUME NEW n \in Decoded PROVE i <= n
    <3>1. PICK k \in 1..Count : Indices[k] = n
      BY <1>1 DEF Lists, Count
    <3>2. k = 1 \/ Indices[1] < Indices[k]
      BY <1>1, <2>1 DEF Lists, Count
    <3>3. QED
      BY <1>2, <2>2, <3>1, <3>2
  <2>4. QED
    BY <2>2, <2>3
<1>4. FirstRow.flags = flags_of(slots[i])
  BY DEF FirstRow, row_flags
<1>5. "STOP" \in FirstRow.flags <=> NameOf(slots[i]) \in Stops
  BY <1>4, FlagsOfSlot
<1>6. /\ cflow(i) \in {"jump", "ijump", "ret"} <=> NameOf(slots[i]) \in Stops
      /\ cflow(i) # "normal" => i = 2
  BY <1>3, ClassOfName
<1> HIDE DEF i
<1>7. "STOP" \in FirstRow.flags <=> StopsFlow(i)
  BY <1>3, <1>5, <1>6 DEF StopsFlow
<1>8. StopsFlow(i) => i = 2
  BY <1>6 DEF StopsFlow
<1>9. StopsFlow(i) => alone
  BY <1>3, <1>8
<1>10. alone => i = 2
  <2> SUFFICES ASSUME alone PROVE i = 2
    OBVIOUS
  <2>1. 2 \in Decoded /\ i # 1
    BY <1>3 DEF StopsFlow
  <2>2. QED
    BY <1>2, <1>3, <2>1
<1>11. QED
  BY <1>7, <1>9, <1>10 DEF i

\* The walk lists both rows, unless the first one stops the flow: then it holds the second
\* slot alone, and what comes after it is hidden.
LEMMA InvStopHides == IInv => StopHides
<1> DEFINE alone == 1 \notin Decoded /\ StopsFlow(2)
<1> SUFFICES ASSUME IInv, ListingDone
             PROVE  Decoded \ ListedSlots = IF alone THEN Decoded \ {2} ELSE {}
  BY DEF StopHides
<1>1. DecodeInv /\ ListInv /\ outcome = "bundle" /\ listed # <<>>
  BY DEF IInv, ListingDone
<1>2. \A n \in Decoded : n \in DOMAIN slots
  BY DEF Decoded
<1>3. /\ Count = 1 => FirstRow.slots = Decoded
      /\ Count # 1 => FirstRow.slots \cup SecondRow.slots = Decoded
  BY <1>1, SlotsOfRows
<1>4. /\ "STOP" \in FirstRow.flags <=> alone
      /\ alone => Indices[1] = 2
  BY <1>1, FirstRowStops
<1>5. FirstRow.slots = {Indices[1]}
  BY DEF FirstRow
<1>6. CASE listed = <<listed[1]>> /\ IsRow(1, FirstRow, 0) /\ at = FirstEnd
  <2>1. listed[1].row = FirstRow
    BY <1>6 DEF IsRow
  <2>2. FirstRow.slots \subseteq Decoded
    BY <1>3
  <2>3. ListedSlots = FirstRow.slots
    BY <1>2, <1>6, <2>1, <2>2 DEF ListedSlots
  <2>4. ASSUME Count # 1 PROVE "STOP" \in FirstRow.flags
    <3>1. at # 8
      BY <1>6, <2>4 DEF FirstEnd
    <3>2. QED
      BY <1>6, <2>1, <3>1 DEF ListingDone, FallsThrough, Last
  <2> HIDE DEF alone
  <2>5. CASE Count = 1
    BY <1>3, <1>4, <1>5, <2>3, <2>5
  <2>6. CASE Count # 1
    BY <1>4, <1>5, <2>3, <2>4, <2>6
  <2>7. QED
    BY <2>5, <2>6
<1>7. CASE /\ listed = <<listed[1], listed[2]>>
           /\ IsRow(1, FirstRow, 0) /\ IsRow(2, SecondRow, 4)
           /\ FallsThrough(listed[1]) /\ Count # 1
  <2>1. listed[1].row = FirstRow /\ listed[2].row = SecondRow
    BY <1>7 DEF IsRow
  <2>2. ListedSlots = Decoded
    BY <1>2, <1>3, <1>7, <2>1 DEF ListedSlots
  <2>3. ~alone
    BY <1>4, <1>7, <2>1 DEF FallsThrough
  <2>4. QED
    BY <2>2, <2>3
<1>8. QED
  BY <1>1, <1>6, <1>7 DEF ListInv

\* The flags of a row are those of the control flow of its slots.
LEMMA InvFlags == IInv => FlagsMatchCflow
<1> SUFFICES ASSUME IInv, NEW k \in DOMAIN listed
             PROVE  LET row     == listed[k].row
                        classes == {cflow(n) : n \in row.slots} \ {"normal"}
                    IN  /\ Cardinality(classes) <= 1
                        /\ "CALL" \in row.flags <=> "call" \in classes
                        /\ "COND_JUMP" \in row.flags <=> "cbranch" \in classes
                        /\ "STOP" \in row.flags <=> classes \cap {"jump", "ijump", "ret"} # {}
                        /\ "JUMP" \in row.flags
                             <=> classes \cap {"jump", "ijump", "ret", "cbranch"} # {}
  BY DEF FlagsMatchCflow
<1> DEFINE row == listed[k].row
           classes == {cflow(n) : n \in row.slots} \ {"normal"}
<1>1. /\ DecodeInv
      /\ row.slots \subseteq Decoded
      /\ row.flags = row_flags(slots, row.slots)
  BY RowOfDecoded
<1>2. \A f : f \in row.flags <=> \E n \in row.slots : f \in flags_of(slots[n])
  BY <1>1 DEF row_flags
<1>3. \A n \in row.slots :
        /\ cflow(n) = "call" <=> NameOf(slots[n]) \in Calls
        /\ cflow(n) = "cbranch" <=> NameOf(slots[n]) \in CondJumps
        /\ cflow(n) \in {"jump", "ijump", "ret"} <=> NameOf(slots[n]) \in Stops
        /\ cflow(n) # "normal" => n = 2
  BY <1>1, ClassOfName
<1>4. Cardinality(classes) <= 1
  <2>1. classes \subseteq {cflow(2)}
    BY <1>3
  <2>2. IsFiniteSet({cflow(2)}) /\ Cardinality({cflow(2)}) = 1
    BY FS_Singleton
  <2>3. Cardinality(classes) <= Cardinality({cflow(2)})
    BY <2>1, <2>2, FS_Subset
  <2>4. IsFiniteSet(classes)
    BY <2>1, <2>2, FS_Subset
  <2>5. Cardinality(classes) \in Nat
    BY <2>4, FS_CardinalityType
  <2>6. QED
    BY <2>2, <2>3, <2>5
<1> HIDE DEF row
<1>5. /\ "CALL" \in row.flags <=> \E n \in row.slots : cflow(n) = "call"
      /\ "COND_JUMP" \in row.flags <=> \E n \in row.slots : cflow(n) = "cbranch"
      /\ "STOP" \in row.flags <=> \E n \in row.slots : cflow(n) \in {"jump", "ijump", "ret"}
      /\ "JUMP" \in row.flags
           <=> \E n \in row.slots : cflow(n) = "cbranch" \/ cflow(n) \in {"jump", "ijump", "ret"}
  BY <1>2, <1>3, FlagsOfSlot
<1>6. /\ "CALL" \in row.flags <=> "call" \in classes
      /\ "COND_JUMP" \in row.flags <=> "cbranch" \in classes
      /\ "STOP" \in row.flags <=> classes \cap {"jump", "ijump", "ret"} # {}
      /\ "JUMP" \in row.flags <=> classes \cap {"jump", "ijump", "ret", "cbranch"} # {}
  BY <1>5
<1>7. QED
  BY <1>4, <1>6 DEF row

-----------------------------------------------------------------------------
(* Fields of a word. *)

\* Doubling, for the powers of two that the fields need.
LEMMA Powers ==
  \A k \in 0..30 : 2^(k + 1) = 2 * 2^k /\ 2^k \in Nat /\ 2^k >= 1
<1> SUFFICES ASSUME NEW k \in 0..30 PROVE 2^(k + 1) = 2 * 2^k /\ 2^k \in Nat /\ 2^k >= 1
  OBVIOUS
<1>1. \/ k \in 0..7 \/ k \in 8..15 \/ k \in 16..23 \/ k \in 24..30
  OBVIOUS
<1>2. CASE k \in 0..7
  <2>1. k = 0 \/ k = 1 \/ k = 2 \/ k = 3 \/ k = 4 \/ k = 5 \/ k = 6 \/ k = 7
    BY <1>2
  <2>2. CASE k = 0 BY <2>2
  <2>3. CASE k = 1 BY <2>3
  <2>4. CASE k = 2 BY <2>4
  <2>5. CASE k = 3 BY <2>5
  <2>6. CASE k = 4 BY <2>6
  <2>7. CASE k = 5 BY <2>7
  <2>8. CASE k = 6 BY <2>8
  <2>9. CASE k = 7 BY <2>9
  <2>10. QED
    BY <2>1, <2>2, <2>3, <2>4, <2>5, <2>6, <2>7, <2>8, <2>9
<1>3. CASE k \in 8..15
  <2>1. k = 8 \/ k = 9 \/ k = 10 \/ k = 11 \/ k = 12 \/ k = 13 \/ k = 14 \/ k = 15
    BY <1>3
  <2>2. CASE k = 8 BY <2>2
  <2>3. CASE k = 9 BY <2>3
  <2>4. CASE k = 10 BY <2>4
  <2>5. CASE k = 11 BY <2>5
  <2>6. CASE k = 12 BY <2>6
  <2>7. CASE k = 13 BY <2>7
  <2>8. CASE k = 14 BY <2>8
  <2>9. CASE k = 15 BY <2>9
  <2>10. QED
    BY <2>1, <2>2, <2>3, <2>4, <2>5, <2>6, <2>7, <2>8, <2>9
<1>4. CASE k \in 16..23
  <2>1. k = 16 \/ k = 17 \/ k = 18 \/ k = 19 \/ k = 20 \/ k = 21 \/ k = 22 \/ k = 23
    BY <1>4
  <2>2. CASE k = 16 BY <2>2
  <2>3. CASE k = 17 BY <2>3
  <2>4. CASE k = 18 BY <2>4
  <2>5. CASE k = 19 BY <2>5
  <2>6. CASE k = 20 BY <2>6
  <2>7. CASE k = 21 BY <2>7
  <2>8. CASE k = 22 BY <2>8
  <2>9. CASE k = 23 BY <2>9
  <2>10. QED
    BY <2>1, <2>2, <2>3, <2>4, <2>5, <2>6, <2>7, <2>8, <2>9
<1>5. CASE k \in 24..30
  <2>1. k = 24 \/ k = 25 \/ k = 26 \/ k = 27 \/ k = 28 \/ k = 29 \/ k = 30
    BY <1>5
  <2>2. CASE k = 24 BY <2>2
  <2>3. CASE k = 25 BY <2>3
  <2>4. CASE k = 26 BY <2>4
  <2>5. CASE k = 27 BY <2>5
  <2>6. CASE k = 28 BY <2>6
  <2>7. CASE k = 29 BY <2>7
  <2>8. CASE k = 30 BY <2>8
  <2>9. QED
    BY <2>1, <2>2, <2>3, <2>4, <2>5, <2>6, <2>7, <2>8
<1>6. QED
  BY <1>1, <1>2, <1>3, <1>4, <1>5

\* The recursive definition of a field, from bit n - m up.
IsField(f, w, od, n, m) ==
  f = [k \in (n - m)..n |-> IF k = n THEN 0 ELSE FieldBit(w, od, k) + 2 * f[k + 1]]

LEMMA FieldExists ==
  ASSUME NEW w, NEW od, NEW n \in Nat
  PROVE  \E f : IsField(f, w, od, n, n)
<1> DEFINE Bad == {m \in Nat : m <= n /\ ~\E f : IsField(f, w, od, n, m)}
<1>1. Bad # {} => FALSE
  <2> SUFFICES ASSUME Bad # {} PROVE FALSE
    OBVIOUS
  <2>1. PICK m \in Bad : \A k \in Bad : m <= k
    BY LeastNat, Bad \in SUBSET Nat
  <2>2. m # 0
    <3> DEFINE f == [k \in (n - 0)..n |-> 0]
    <3>1. f = [k \in (n - 0)..n |-> IF k = n THEN 0 ELSE FieldBit(w, od, k) + 2 * f[k + 1]]
      OBVIOUS
    <3>2. IsField(f, w, od, n, 0)
      BY <3>1, Zenon DEF IsField
    <3>3. QED
      BY <2>1, <3>2
  <2>3. m \in Nat \ {0} /\ m <= n
    BY <2>1, <2>2
  <2>4. PICK f : IsField(f, w, od, n, m - 1)
    <3>1. m - 1 \in Nat /\ m - 1 <= n /\ ~(m <= m - 1)
      BY <2>3
    <3>2. m - 1 \notin Bad
      BY <2>1, <3>1
    <3> HIDE DEF Bad
    <3>3. m - 1 \in Nat /\ m - 1 <= n /\ m - 1 \notin Bad
      BY <3>1, <3>2
    <3>4. QED
      BY <3>3 DEF Bad
  <2> HIDE DEF Bad
  <2> DEFINE low == n - m
             Round(h, k) == IF k = n THEN 0 ELSE FieldBit(w, od, k) + 2 * h[k + 1]
             g == [k \in low..n |-> IF k = low THEN Round(f, low) ELSE f[k]]
  <2>5. low \in Nat /\ low < n /\ n - (m - 1) = low + 1
    BY <2>3
  <2>6. \A k \in (low + 1)..n : f[k] = Round(f, k)
    BY <2>4, <2>5 DEF IsField
  <2>7. \A k \in (low + 1)..n : g[k] = f[k]
    BY <2>5
  <2>8. g[low] = Round(f, low)
    BY <2>5
  <2> HIDE DEF low
  <2>9. ASSUME NEW k \in low..n
        PROVE  g[k] = Round(g, k)
    <3> HIDE DEF g
    <3>1. k # n => k + 1 \in (low + 1)..n
      BY <2>5
    <3>2. Round(g, k) = Round(f, k)
      BY <2>7, <3>1
    <3> HIDE DEF Round
    <3>3. CASE k = low
      BY <2>8, <3>2, <3>3
    <3>4. CASE k # low
      <4>1. k \in (low + 1)..n
        BY <2>5, <3>4
      <4>2. QED
        BY <2>6, <2>7, <3>2, <4>1
    <3>5. QED
      BY <3>3, <3>4
  <2>10. g = [k \in low..n |-> Round(g, k)]
    BY <2>9, Zenon
  <2>11. IsField(g, w, od, n, m)
    BY <2>10, Zenon DEF IsField, low
  <2>12. QED
    BY <2>1, <2>11 DEF Bad
<1>2. n \notin Bad
  BY <1>1
<1>3. QED
  BY <1>2

\* Division undoes what the lower bits add.
LEMMA Quotient ==
  ASSUME NEW P \in Nat, P >= 1, NEW h \in Nat, NEW low \in 0..(P - 1)
  PROVE  (P * h + low) \div P = h
OBVIOUS

\* A field is a number of its width, and its bits are those gathered from the word.
LEMMA FieldFacts ==
  ASSUME NEW w, NEW od, od.num_bits \in 1..30
  PROVE  /\ FieldOf(w, od) \in 0..(2^od.num_bits - 1)
         /\ \A k \in 0..(od.num_bits - 1) :
              (FieldOf(w, od) \div 2^k) % 2 = FieldBit(w, od, k)
<1> DEFINE n == od.num_bits
           Bit(k) == FieldBit(w, od, k)
           IsAbove(g) == g = [k \in 0..n |-> IF k = n THEN 0 ELSE Bit(k) + 2 * g[k + 1]]
           f == CHOOSE g : IsAbove(g)
<1>1. n \in 1..30 /\ n \in Nat
  OBVIOUS
<1>2. \A k : Bit(k) \in {0, 1}
  BY DEF FieldBit
<1>3. FieldOf(w, od) = f[0]
  BY DEF FieldOf
<1> HIDE DEF n
<1>4. IsAbove(f)
  <2>1. PICK g : IsField(g, w, od, n, n)
    BY <1>1, FieldExists
  <2>2. n - n = 0
    BY <1>1
  <2>3. IsAbove(g)
    BY <2>1, <2>2 DEF IsField
  <2>4. QED
    BY <2>3, Zenon
<1> HIDE DEF f
<1>5. f[n] = 0 /\ \A k \in 0..(n - 1) : f[k] = Bit(k) + 2 * f[k + 1]
  <2>1. \A k \in 0..n : f[k] = IF k = n THEN 0 ELSE Bit(k) + 2 * f[k + 1]
    BY <1>4, Zenon
  <2>2. n \in 0..n /\ \A k \in 0..(n - 1) : k \in 0..n /\ k # n
    BY <1>1
  <2> HIDE DEF Bit
  <2>3. QED
    BY <2>1, <2>2, Zenon
<1> HIDE DEF Bit
<1>6. \A m \in 0..n : f[n - m] \in 0..(2^m - 1)
  <2> DEFINE Bad == {m \in Nat : m <= n /\ f[n - m] \notin 0..(2^m - 1)}
  <2>1. Bad = {}
    <3> SUFFICES ASSUME Bad # {} PROVE FALSE
      OBVIOUS
    <3>1. PICK m \in Bad : \A k \in Bad : m <= k
      BY LeastNat, Bad \in SUBSET Nat
    <3>2. m # 0
      <4>1. n - 0 = n /\ 0 \in 0..(2^0 - 1)
        BY <1>1
      <4>2. f[n - 0] \in 0..(2^0 - 1)
        BY <1>5, <4>1
      <4>3. QED
        BY <3>1, <4>2
    <3>3. m - 1 \in Nat /\ m - 1 <= n /\ ~(m <= m - 1) /\ m - 1 \in 0..30 /\ m \in Nat /\ m <= n
      BY <1>1, <3>1, <3>2
    <3>4. m - 1 \notin Bad
      <4> HIDE DEF Bad
      <4>1. QED
        BY <3>1, <3>3
    <3>5. f[n - (m - 1)] \in 0..(2^(m - 1) - 1)
      BY <3>3, <3>4
    <3>6. f[n - m] \notin 0..(2^m - 1)
      BY <3>1
    <3> HIDE DEF Bad
    <3>7. 2^m = 2 * 2^(m - 1) /\ 2^(m - 1) \in Nat
      <4>1. (m - 1) + 1 = m
        BY <3>3
      <4>2. QED
        BY <3>3, <4>1, Powers
    <3>8. n - m \in 0..(n - 1) /\ (n - m) + 1 = n - (m - 1)
      BY <1>1, <3>3
    <3>9. f[n - m] = Bit(n - m) + 2 * f[n - (m - 1)] /\ Bit(n - m) \in {0, 1}
      BY <1>2, <1>5, <3>8
    <3>10. QED
      BY <3>5, <3>6, <3>7, <3>9
  <2>2. QED
    BY <2>1, <1>1
<1>7. \A k \in 0..n : f[k] \in Nat
  <2> TAKE k \in 0..n
  <2>1. n - k \in 0..n /\ n - (n - k) = k /\ n - k \in 0..30
    BY <1>1
  <2>2. f[k] \in 0..(2^(n - k) - 1)
    BY <1>6, <2>1
  <2>3. QED
    BY <2>1, <2>2, Powers
<1>8. \A k \in 0..n : \E low \in 0..(2^k - 1) : f[0] = 2^k * f[k] + low
  <2> DEFINE Bad == {k \in Nat : k <= n /\ ~\E low \in 0..(2^k - 1) : f[0] = 2^k * f[k] + low}
  <2>1. Bad = {}
    <3> SUFFICES ASSUME Bad # {} PROVE FALSE
      OBVIOUS
    <3>1. PICK k \in Bad : \A j \in Bad : k <= j
      BY LeastNat, Bad \in SUBSET Nat
    <3>2. k # 0
      <4>1. 2^0 = 1 /\ f[0] \in Nat
        BY <1>1, <1>7
      <4>2. 0 \in 0..(2^0 - 1) /\ f[0] = 2^0 * f[0] + 0
        BY <4>1
      <4>3. QED
        BY <3>1, <4>2
    <3>3. k - 1 \in Nat /\ k - 1 <= n /\ ~(k <= k - 1) /\ k - 1 \in 0..30 /\ k \in Nat /\ k <= n
      BY <1>1, <3>1, <3>2
    <3>4. k - 1 \notin Bad
      <4> HIDE DEF Bad
      <4>1. QED
        BY <3>1, <3>3
    <3>5. PICK low \in 0..(2^(k - 1) - 1) : f[0] = 2^(k - 1) * f[k - 1] + low
      BY <3>3, <3>4
    <3>6. ~\E l \in 0..(2^k - 1) : f[0] = 2^k * f[k] + l
      BY <3>1
    <3> HIDE DEF Bad
    <3> DEFINE P == 2^(k - 1)
    <3>7. 2^k = 2 * P /\ P \in Nat /\ P >= 1
      <4>1. (k - 1) + 1 = k
        BY <3>3
      <4>2. QED
        BY <3>3, <4>1, Powers
    <3>8. f[k - 1] = Bit(k - 1) + 2 * f[k] /\ Bit(k - 1) \in {0, 1} /\ f[k] \in Nat
      <4>1. k - 1 \in 0..(n - 1) /\ (k - 1) + 1 = k /\ k \in 0..n
        BY <1>1, <3>3
      <4>2. QED
        BY <1>2, <1>5, <1>7, <4>1
    <3>9. f[0] = P * f[k - 1] + low /\ low \in 0..(P - 1)
      BY <3>5
    <3> HIDE DEF P
    <3>10. CASE Bit(k - 1) = 0
      <4>1. f[0] = 2 * P * f[k] + low /\ low \in 0..(2 * P - 1)
        BY <3>7, <3>8, <3>9, <3>10
      <4>2. QED
        BY <3>6, <3>7, <4>1
    <3>11. CASE Bit(k - 1) = 1
      <4>1. f[0] = 2 * P * f[k] + (P + low) /\ P + low \in 0..(2 * P - 1)
        BY <3>7, <3>8, <3>9, <3>11
      <4>2. QED
        BY <3>6, <3>7, <4>1
    <3>12. QED
      BY <3>8, <3>10, <3>11
  <2>2. QED
    BY <2>1, <1>1
<1>9. \A k \in 0..(n - 1) : (f[0] \div 2^k) % 2 = Bit(k)
  <2> TAKE k \in 0..(n - 1)
  <2>1. k \in 0..n /\ k + 1 \in 0..n /\ k \in 0..30
    BY <1>1
  <2>2. PICK low \in 0..(2^k - 1) : f[0] = 2^k * f[k] + low
    BY <1>8, <2>1
  <2>3. f[k] \in Nat /\ f[k + 1] \in Nat /\ f[k] = Bit(k) + 2 * f[k + 1] /\ Bit(k) \in {0, 1}
    BY <1>2, <1>5, <1>7, <2>1
  <2>4. 2^k \in Nat /\ 2^k >= 1
    BY <2>1, Powers
  <2>5. f[0] \div 2^k = f[k]
    BY <2>2, <2>3, <2>4, Quotient
  <2>6. f[k] % 2 = Bit(k)
    BY <2>3
  <2>7. QED
    BY <2>5, <2>6
<1>10. f[0] \in 0..(2^n - 1)
  <2>1. n \in 0..n /\ n - n = 0
    BY <1>1
  <2>2. QED
    BY <1>6, <2>1
<1>11. QED
  BY <1>3, <1>9, <1>10 DEF n, Bit

-----------------------------------------------------------------------------
(* The operands of a slot. *)

\* Four numbers make a list of four at most.
LEMMA ListsShort ==
  ASSUME NEW s, NEW S \in SUBSET (1..4), Lists(s, S)
  PROVE  Len(s) <= 4
<1>1. /\ Len(s) \in Nat
      /\ \A k \in 1..Len(s) : s[k] \in 1..4
      /\ \A j, k \in 1..Len(s) : j < k => s[j] < s[k]
  BY DEF Lists
<1> SUFFICES ASSUME Len(s) >= 5 PROVE FALSE
  BY <1>1
<1>2. 1 \in 1..Len(s) /\ 2 \in 1..Len(s) /\ 3 \in 1..Len(s) /\ 4 \in 1..Len(s) /\ 5 \in 1..Len(s)
  BY <1>1
<1>3. s[1] < s[2] /\ s[2] < s[3] /\ s[3] < s[4] /\ s[4] < s[5]
  BY <1>1, <1>2
<1>4. s[1] \in 1..4 /\ s[2] \in 1..4 /\ s[3] \in 1..4 /\ s[4] \in 1..4 /\ s[5] \in 1..4
  BY <1>1, <1>2
<1>5. QED
  BY <1>3, <1>4

\* The raw operands but the displacement are visible, once each and in order.
LEMMA VisibleFacts ==
  ASSUME NEW opcode, opcode.num_operands \in 0..TG_MAX_OPS
  PROVE  LET V == VisibleRaw(opcode)
         IN  /\ DOMAIN V \subseteq 1..TG_MAX_OPS
             /\ \A v \in DOMAIN V : V[v] \in 0..(opcode.num_operands - 1)
                                    /\ V[v] # opcode.mem.disp_op
             /\ \A j \in 0..(opcode.num_operands - 1) :
                  j # opcode.mem.disp_op => \E v \in DOMAIN V : V[v] = j
             /\ \A u, v \in DOMAIN V : V[u] = V[v] => u = v
             /\ \A u, v \in DOMAIN V : u < v => V[u] < V[v]
<1> DEFINE N == opcode.num_operands
           S == {k \in 1..N : k - 1 # opcode.mem.disp_op}
           shown == Kept(N, S)
           V == [v \in DOMAIN shown |-> shown[v] - 1]
<1>1. VisibleRaw(opcode) = V
  BY DEF VisibleRaw
<1>2. N \in 0..4
  BY DEF TG_MAX_OPS
<1> HIDE DEF N
<1>3. S \cap (1..N) = S
  OBVIOUS
<1>4. Lists(shown, S)
  BY <1>2, <1>3, KeptLists
<1>5. S \subseteq 1..N /\ \A j \in 0..(N - 1) : j # opcode.mem.disp_op => j + 1 \in S
  BY <1>2
<1> HIDE DEF shown
<1>6. /\ shown \in Seq(Nat) /\ Len(shown) \in Nat /\ DOMAIN shown = 1..Len(shown)
      /\ \A v \in 1..Len(shown) : shown[v] \in S
      /\ \A x \in S : \E v \in 1..Len(shown) : shown[v] = x
      /\ \A u, v \in 1..Len(shown) : u < v => shown[u] < shown[v]
  BY <1>4 DEF Lists
<1>7. \A v \in 1..Len(shown) : shown[v] \in 1..N /\ shown[v] - 1 # opcode.mem.disp_op
  BY <1>6
<1> HIDE DEF S
<1>8. Len(shown) <= 4
  <2>1. S \subseteq 1..4
    BY <1>2 DEF S
  <2>2. QED
    BY <1>4, <2>1, ListsShort
<1>9. DOMAIN V = 1..Len(shown) /\ \A v \in 1..Len(shown) : V[v] = shown[v] - 1
  BY <1>6
<1> HIDE DEF V
<1>10. DOMAIN V \subseteq 1..TG_MAX_OPS
  BY <1>6, <1>8, <1>9 DEF TG_MAX_OPS
<1>11. \A v \in DOMAIN V : V[v] \in 0..(N - 1) /\ V[v] # opcode.mem.disp_op
  BY <1>2, <1>7, <1>9
<1>12. \A j \in 0..(N - 1) : j # opcode.mem.disp_op => \E v \in DOMAIN V : V[v] = j
  <2> TAKE j \in 0..(N - 1)
  <2> HAVE j # opcode.mem.disp_op
  <2>1. j + 1 \in S
    BY <1>5
  <2>2. PICK v \in 1..Len(shown) : shown[v] = j + 1
    BY <1>6, <2>1
  <2>3. V[v] = j
    BY <1>2, <1>9, <2>2
  <2>4. QED
    BY <1>9, <2>3
<1>13. \A u, v \in DOMAIN V : V[u] = V[v] => u = v
  <2> TAKE u, v \in DOMAIN V
  <2> HAVE V[u] = V[v]
  <2>1. shown[u] = shown[v] /\ u \in 1..Len(shown) /\ v \in 1..Len(shown)
    BY <1>2, <1>7, <1>9
  <2>2. ~(u < v) /\ ~(v < u)
    BY <1>2, <1>6, <1>7, <2>1
  <2>3. QED
    BY <2>1, <2>2
<1>14. \A u, v \in DOMAIN V : u < v => V[u] < V[v]
  <2> TAKE u, v \in DOMAIN V
  <2> HAVE u < v
  <2>1. /\ u \in 1..Len(shown) /\ v \in 1..Len(shown)
        /\ V[u] = shown[u] - 1 /\ V[v] = shown[v] - 1
    BY <1>9
  <2>2. shown[u] < shown[v] /\ shown[u] \in 1..N /\ shown[v] \in 1..N
    BY <1>6, <1>7, <2>1
  <2>3. QED
    BY <1>2, <2>1, <2>2
<1>15. QED
  BY <1>1, <1>10, <1>11, <1>12, <1>13, <1>14 DEF N

\* What one raw operand is worth.
FieldValue(w, at_pc, od) ==
  SignExtended(FieldOf(w, od), od) * 2^od.rightshift + (IF od.pc_rel THEN at_pc ELSE 0)

LEMMA ExtractFacts ==
  ASSUME NEW w, NEW at_pc, NEW od, od.kind \in {"Reg", "Addr", "Imm", "Spr"}
  PROVE  LET op == extract_operand(w, at_pc, od)
         IN  /\ op.kind = IF od.kind = "Addr" THEN "Near" ELSE od.kind
             /\ od.kind = "Reg" => op.reg = FieldOf(w, od) % 64
             /\ od.kind # "Reg" => op.value = FieldValue(w, at_pc, od)
<1> DEFINE field == FieldOf(w, od)
           value == FieldValue(w, at_pc, od)
<1>1. extract_operand(w, at_pc, od) =
        CASE od.kind = "Reg"  -> [NoOp EXCEPT !.kind = "Reg", !.reg = field % 64]
          [] od.kind = "Addr" -> [NoOp EXCEPT !.kind = "Near", !.value = value]
          [] OTHER            -> [NoOp EXCEPT !.kind = od.kind, !.value = value]
  BY DEF extract_operand, FieldValue
<1> HIDE DEF field, value
<1>2. CASE od.kind = "Reg"
  BY <1>1, <1>2 DEF NoOp, field
<1>3. CASE od.kind = "Addr"
  BY <1>1, <1>3 DEF NoOp, value
<1>4. CASE od.kind \in {"Imm", "Spr"}
  BY <1>1, <1>4 DEF NoOp, value
<1>5. QED
  BY <1>2, <1>3, <1>4

\* Raw operand j of slot n.
RawOp(n, j) == extract_operand(raw, pc, RawDef(n, j))

\* The opcode of a decoded slot and its operands, as the tables define them.
LEMMA OpcodeFacts ==
  ASSUME DecodeInv, NEW n \in Decoded
  PROVE  LET N   == OpcodeOf(n).num_operands
             mem == OpcodeOf(n).mem
             i   == slots[n].itype
         IN  /\ i \in Having(PipeOf(n)) /\ PipeOf(n) \in Pipes
             /\ OpcodeOf(n) = Opcodes[i] /\ NameOf(slots[n]) = OpcodeOf(n).name
             /\ N \in 0..TG_MAX_OPS
             /\ \A j \in 0..(N - 1) : j + 1 \in 1..N /\ RawDef(n, j) = RawOf(PipeOf(n), i, j + 1)
             /\ \A j \in 0..(N - 1) : RawDef(n, j).kind \in {"Reg", "Addr", "Imm", "Spr"}
             /\ NO_MEM_OP \notin 0..(N - 1)
             /\ mem.disp_op \in 0..(N - 1) \cup {NO_MEM_OP}
             /\ mem.disp_op \in 0..(N - 1) =>
                  mem.kind # "None" /\ RawDef(n, mem.disp_op).kind = "Imm"
             /\ mem.kind # "None" => /\ mem.base_op \in 0..(N - 1)
                                     /\ mem.base_op # mem.disp_op
                                     /\ RawDef(n, mem.base_op).kind = "Reg"
<1> DEFINE N   == OpcodeOf(n).num_operands
           mem == OpcodeOf(n).mem
           i   == slots[n].itype
           pipe == PipeOf(n)
<1>1. i \in Having(pipe) /\ pipe \in Pipes /\ i \in 1..Len(Opcodes)
  BY DecodedFits, DecodedHas
<1>2. OpcodeOf(n) = Opcodes[i]
  BY DEF OpcodeOf
<1>3. N \in 0..TG_MAX_OPS /\ N \in Nat
  BY <1>1, <1>2, OpcodesAssumption DEF TG_MAX_OPS
<1>4. \A j : RawDef(n, j) = RawOf(pipe, i, j + 1)
  BY DEF RawDef, EncOf, OpcodeOf, RawOf
<1>5. NameOf(slots[n]) = OpcodeOf(n).name
  <2>1. i # 0
    BY DEF Decoded
  <2>2. QED
    BY <1>2, <2>1 DEF NameOf
<1> HIDE DEF N, i, pipe
<1>6. \A j \in 0..(N - 1) : j + 1 \in 1..N
  BY <1>3
<1>7. /\ NO_MEM_OP \notin 0..(N - 1)
      /\ mem.disp_op \in 0..(N - 1) \cup {NO_MEM_OP}
      /\ mem.disp_op \in 0..(N - 1) =>
           mem.kind # "None" /\ RawOf(pipe, i, mem.disp_op + 1).kind = "Imm"
      /\ mem.kind # "None" => /\ mem.base_op \in 0..(N - 1) \ {mem.disp_op}
                              /\ RawOf(pipe, i, mem.base_op + 1).kind = "Reg"
  BY <1>1, <1>2, MemoryAssumption, Zenon DEF N
<1>8. \A k \in 1..N : RawOf(pipe, i, k).kind \in {"Reg", "Addr", "Imm", "Spr"}
  BY <1>1, <1>2, FieldsAssumption, Zenon DEF N
<1>9. \A j \in 0..(N - 1) : RawDef(n, j).kind \in {"Reg", "Addr", "Imm", "Spr"}
  BY <1>4, <1>6, <1>8
<1> HIDE DEF mem
<1>10. /\ NO_MEM_OP \notin 0..(N - 1)
       /\ mem.disp_op \in 0..(N - 1) \cup {NO_MEM_OP}
       /\ mem.disp_op \in 0..(N - 1) =>
            mem.kind # "None" /\ RawDef(n, mem.disp_op).kind = "Imm"
       /\ mem.kind # "None" => /\ mem.base_op \in 0..(N - 1)
                               /\ mem.base_op # mem.disp_op
                               /\ RawDef(n, mem.base_op).kind = "Reg"
  BY <1>4, <1>7
<1>11. QED
  BY <1>1, <1>2, <1>3, <1>4, <1>5, <1>6, <1>9, <1>10, Zenon DEF N, i, pipe, mem

\* The memory operand of slot n: base register and displacement.
MemOf(n) ==
  LET mem == OpcodeOf(n).mem
  IN  [kind |-> "Mem", dtype |-> mem.size, reg |-> RawOp(n, mem.base_op).reg,
       value |-> IF mem.disp_op = NO_MEM_OP THEN 0 ELSE RawOp(n, mem.disp_op).value]

\* What a slot shows: its raw operands, the base of a memory access as the whole access.
LEMMA ShownOps ==
  ASSUME DecodeInv, NEW n \in Decoded
  PROVE  LET op == OpcodeOf(n)
             V  == VisibleRaw(op)
         IN  /\ DOMAIN slots[n].ops = DOMAIN V
             /\ \A v \in DOMAIN V :
                  slots[n].ops[v] = IF op.mem.kind # "None" /\ V[v] = op.mem.base_op
                                    THEN MemOf(n) ELSE RawOp(n, V[v])
<1> DEFINE op == OpcodeOf(n)
           N  == op.num_operands
           mem == op.mem
           i == slots[n].itype
           V == VisibleRaw(op)
           raw_ops == [j \in 0..(N - 1) |->
                         extract_operand(raw, pc, Operands[op.enc[PipeOf(n)].ops[j + 1]])]
<1>1. slots[n] = SlotOf(raw, pc, PipeOf(n), i)
  BY DecodedFits
<1>2. slots[n].ops = visible_operands(raw_ops, op)
  <2>1. op = Opcodes[i]
    BY DEF OpcodeOf
  <2>2. SlotOf(raw, pc, PipeOf(n), i).ops =
          visible_operands([j \in 0..(Opcodes[i].num_operands - 1) |->
                              extract_operand(raw, pc, Operands[Opcodes[i].enc[PipeOf(n)].ops[j + 1]])],
                           Opcodes[i])
    BY Zenon DEF SlotOf
  <2> HIDE DEF op, i
  <2>3. SlotOf(raw, pc, PipeOf(n), i).ops = visible_operands(raw_ops, op)
    BY <2>1, <2>2
  <2>4. QED
    BY <1>1, <2>3
<1>3. \A j \in 0..(N - 1) : raw_ops[j] = RawOp(n, j)
  BY DEF RawOp, RawDef, EncOf
<1>4. /\ N \in 0..TG_MAX_OPS
      /\ NO_MEM_OP \notin 0..(N - 1)
      /\ mem.disp_op \in 0..(N - 1) \cup {NO_MEM_OP}
      /\ mem.kind # "None" => mem.base_op \in 0..(N - 1) /\ RawDef(n, mem.base_op).kind = "Reg"
  BY OpcodeFacts
<1>5. \A v \in DOMAIN V : V[v] \in 0..(N - 1)
  BY <1>4, VisibleFacts
<1> HIDE DEF raw_ops
<1>6. mem.kind # "None" => memory_operand(raw_ops, mem) = MemOf(n)
  <2> SUFFICES ASSUME mem.kind # "None" PROVE memory_operand(raw_ops, mem) = MemOf(n)
    OBVIOUS
  <2>1. raw_ops[mem.base_op] = RawOp(n, mem.base_op) /\ RawOp(n, mem.base_op).kind = "Reg"
    <3>1. RawDef(n, mem.base_op).kind = "Reg"
      BY <1>4
    <3>2. RawOp(n, mem.base_op).kind = "Reg"
      BY <3>1, ExtractFacts DEF RawOp
    <3>3. QED
      BY <1>3, <1>4, <3>2
  <2>2. mem.disp_op # NO_MEM_OP => raw_ops[mem.disp_op] = RawOp(n, mem.disp_op)
    BY <1>3, <1>4
  <2>3. QED
    BY <2>1, <2>2 DEF memory_operand, MemOf
<1>7. slots[n].ops = [v \in DOMAIN V |-> IF mem.kind # "None" /\ V[v] = mem.base_op
                                         THEN memory_operand(raw_ops, mem) ELSE raw_ops[V[v]]]
  BY <1>2 DEF visible_operands
<1> HIDE DEF V, mem, N
<1>8. /\ DOMAIN slots[n].ops = DOMAIN V
      /\ \A v \in DOMAIN V :
           slots[n].ops[v] = IF mem.kind # "None" /\ V[v] = mem.base_op
                             THEN MemOf(n) ELSE RawOp(n, V[v])
  BY <1>3, <1>5, <1>6, <1>7
<1>9. QED
  BY <1>8 DEF V, mem

\* A slot shows every raw operand: a displacement in its memory operand, a base register
\* as the register of it, any other operand as it stands.
LEMMA ShownIs ==
  ASSUME DecodeInv, NEW n \in Decoded, NEW j \in 0..(OpcodeOf(n).num_operands - 1)
  PROVE  ShownValue(n, j) = IF RawDef(n, j).kind = "Reg" THEN RawOp(n, j).reg
                            ELSE RawOp(n, j).value
<1> DEFINE op == OpcodeOf(n)
           mem == op.mem
           V == VisibleRaw(op)
           shows == IF mem.kind # "None" /\ j = mem.disp_op THEN mem.base_op ELSE j
           visible == CHOOSE v \in DOMAIN slots[n].ops : V[v] = shows
           shown == slots[n].ops[visible]
<1>1. ShownValue(n, j) = IF RawDef(n, j).kind = "Reg" THEN shown.reg ELSE shown.value
  BY DEF ShownValue
<1>2. /\ op.num_operands \in 0..TG_MAX_OPS
      /\ NO_MEM_OP \notin 0..(op.num_operands - 1)
      /\ mem.disp_op \in 0..(op.num_operands - 1) =>
           mem.kind # "None" /\ RawDef(n, mem.disp_op).kind = "Imm"
      /\ mem.kind # "None" => /\ mem.base_op \in 0..(op.num_operands - 1)
                              /\ mem.base_op # mem.disp_op
                              /\ RawDef(n, mem.base_op).kind = "Reg"
  BY OpcodeFacts
<1>3. \A k \in 0..(op.num_operands - 1) : k # mem.disp_op => \E v \in DOMAIN V : V[v] = k
  BY <1>2, VisibleFacts
<1>4. /\ DOMAIN slots[n].ops = DOMAIN V
      /\ \A v \in DOMAIN V :
           slots[n].ops[v] = IF mem.kind # "None" /\ V[v] = mem.base_op
                             THEN MemOf(n) ELSE RawOp(n, V[v])
  BY ShownOps
<1>5. /\ MemOf(n).reg = RawOp(n, mem.base_op).reg
      /\ mem.disp_op # NO_MEM_OP => MemOf(n).value = RawOp(n, mem.disp_op).value
  BY DEF MemOf
<1> HIDE DEF V, shown
<1>6. shows \in 0..(op.num_operands - 1) /\ shows # mem.disp_op
  BY <1>2
<1>7. visible \in DOMAIN V /\ V[visible] = shows
  BY <1>3, <1>4, <1>6
<1> HIDE DEF visible
<1>8. shown = IF mem.kind # "None" /\ shows = mem.base_op THEN MemOf(n) ELSE RawOp(n, shows)
  BY <1>4, <1>7 DEF shown
<1> HIDE DEF mem, op
<1>9. CASE j = mem.disp_op
  <2>1. mem.kind # "None" /\ RawDef(n, j).kind = "Imm" /\ j # NO_MEM_OP
    BY <1>2, <1>9 DEF op
  <2>2. shown = MemOf(n)
    BY <1>8, <1>9, <2>1
  <2>3. QED
    BY <1>1, <1>5, <1>9, <2>1, <2>2
<1>10. CASE j # mem.disp_op /\ mem.kind # "None" /\ j = mem.base_op
  <2>1. shown = MemOf(n) /\ RawDef(n, j).kind = "Reg"
    BY <1>2, <1>8, <1>10
  <2>2. QED
    BY <1>1, <1>5, <1>10, <2>1
<1>11. CASE j # mem.disp_op /\ ~(mem.kind # "None" /\ j = mem.base_op)
  BY <1>1, <1>8, <1>11
<1>12. QED
  BY <1>9, <1>10, <1>11

\* What undoing the sign, the scale and the address of an operand gives: its field as it
\* was extended.
LEMMA Undone ==
  ASSUME NEW w, NEW at_pc \in Int, NEW od,
         od.num_bits \in 1..30, od.rightshift \in 0..3
  PROVE  LET value == (FieldValue(w, at_pc, od) - (IF od.pc_rel THEN at_pc ELSE 0))
                        \div 2^od.rightshift
             low == IF od.signed THEN -2^(od.num_bits - 1) ELSE 0
         IN  /\ value % 2^od.num_bits = FieldOf(w, od)
             /\ value \in low..(low + 2^od.num_bits - 1)
<1> DEFINE field == FieldOf(w, od)
           sign == SignExtended(field, od)
           base == IF od.pc_rel THEN at_pc ELSE 0
           value == (FieldValue(w, at_pc, od) - base) \div 2^od.rightshift
           H == 2^(od.num_bits - 1)
           P == 2^od.num_bits
           low == IF od.signed THEN -H ELSE 0
<1>1. P = 2 * H /\ H \in Nat /\ H >= 1
  <2>1. od.num_bits - 1 \in 0..30 /\ (od.num_bits - 1) + 1 = od.num_bits
    OBVIOUS
  <2>2. QED
    BY <2>1, Powers
<1>2. field \in 0..(P - 1)
  BY FieldFacts
<1>3. sign = IF od.signed /\ field >= H THEN field - P ELSE field
  BY DEF SignExtended
<1>4. FieldValue(w, at_pc, od) = sign * 2^od.rightshift + base
  BY DEF FieldValue
<1> HIDE DEF field, sign, base, H, P
<1>5. sign \in Int /\ sign % P = field /\ sign \in low..(low + P - 1)
  BY <1>1, <1>2, <1>3
<1>6. base \in Int
  BY DEF base
<1>7. value = sign
  <2> DEFINE S == 2^od.rightshift
  <2>1. S \in {1, 2, 4, 8}
    <3>1. CASE od.rightshift = 0
      BY <3>1
    <3>2. CASE od.rightshift = 1
      BY <3>2
    <3>3. CASE od.rightshift = 2
      BY <3>3
    <3>4. CASE od.rightshift = 3
      BY <3>4
    <3>5. QED
      BY <3>1, <3>2, <3>3, <3>4
  <2>2. value = (sign * S + base - base) \div S
    <3>1. value = (FieldValue(w, at_pc, od) - base) \div S
      OBVIOUS
    <3>2. FieldValue(w, at_pc, od) = sign * S + base
      BY <1>4
    <3> HIDE DEF value, S
    <3>3. QED
      BY <1>5, <1>6, <2>1, <3>1, <3>2
  <2> HIDE DEF S, value
  <2>3. CASE S = 1
    BY <1>5, <1>6, <2>2, <2>3
  <2>4. CASE S = 2
    BY <1>5, <1>6, <2>2, <2>4
  <2>5. CASE S = 4
    BY <1>5, <1>6, <2>2, <2>5
  <2>6. CASE S = 8
    BY <1>5, <1>6, <2>2, <2>6
  <2>7. QED
    BY <2>1, <2>3, <2>4, <2>5, <2>6
<1> HIDE DEF value
<1>8. value % P = field /\ value \in low..(low + P - 1)
  BY <1>5, <1>7
<1>9. QED
  BY <1>8 DEF value, field, base, H, P

\* What the tables say of raw operand j of slot n.
LEMMA RawDefFacts ==
  ASSUME DecodeInv, NEW n \in Decoded, NEW j \in 0..(OpcodeOf(n).num_operands - 1)
  PROVE  LET od == RawDef(n, j)
         IN  /\ od.kind \in {"Reg", "Addr", "Imm", "Spr"}
             /\ od.num_bits \in 1..30 /\ od.rightshift \in 0..3
             /\ {pair[2] : pair \in od.bits} = 0..(od.num_bits - 1)
             /\ \A p, q \in od.bits : p[2] = q[2] => p = q
             /\ od.kind = "Reg" => od.num_bits <= 6 /\ od.rightshift = 0 /\ ~od.signed /\ ~od.pc_rel
             /\ UsedBits(n) = EncOf(n).mask
                  \cup UNION {InputBits(RawDef(n, k)) : k \in 0..(OpcodeOf(n).num_operands - 1)}
<1> DEFINE N == OpcodeOf(n).num_operands
           i == slots[n].itype
           pipe == PipeOf(n)
<1>1. /\ i \in Having(pipe) /\ pipe \in Pipes /\ OpcodeOf(n) = Opcodes[i] /\ N \in 0..TG_MAX_OPS
      /\ \A k \in 0..(N - 1) : k + 1 \in 1..N /\ RawDef(n, k) = RawOf(pipe, i, k + 1)
  BY OpcodeFacts
<1>2. EncOf(n) = Opcodes[i].enc[pipe]
  BY DEF EncOf, OpcodeOf
<1>3. UsedBits(n) = EncOf(n).mask \cup UNION {InputBits(RawOf(pipe, i, k)) : k \in 1..N}
  BY <1>1, <1>2 DEF UsedBits, UsedBy
<1> HIDE DEF i, pipe
<1>4. {InputBits(RawOf(pipe, i, k)) : k \in 1..N} = {InputBits(RawDef(n, k)) : k \in 0..(N - 1)}
  <2> HIDE DEF N
  <2>1. \A k \in 1..N : k - 1 \in 0..(N - 1) /\ (k - 1) + 1 = k
    BY <1>1 DEF TG_MAX_OPS
  <2>2. \A k \in 1..N : RawOf(pipe, i, k) = RawDef(n, k - 1)
    BY <1>1, <2>1
  <2>3. \A k \in 0..(N - 1) : k + 1 \in 1..N /\ RawDef(n, k) = RawOf(pipe, i, k + 1)
    BY <1>1
  <2>4. QED
    BY <2>1, <2>2, <2>3
<1>5. RawDef(n, j) = RawOf(pipe, i, j + 1) /\ j + 1 \in 1..Opcodes[i].num_operands
  BY <1>1
<1>6. LET od == RawOf(pipe, i, j + 1)
      IN  /\ od.kind \in {"Reg", "Addr", "Imm", "Spr"}
          /\ od.num_bits \in 1..30 /\ od.rightshift \in 0..3
          /\ {pair[2] : pair \in od.bits} = 0..(od.num_bits - 1)
          /\ \A p, q \in od.bits : p[2] = q[2] => p = q
          /\ od.kind = "Reg" => od.num_bits <= 6 /\ od.rightshift = 0 /\ ~od.signed /\ ~od.pc_rel
  BY <1>1, <1>5, FieldsAssumption, Zenon
<1>7. QED
  BY <1>3, <1>4, <1>5, <1>6

\* The value that a slot shows, with the address and the scale undone.
LEMMA ShownUndone ==
  ASSUME DecodeInv, NEW n \in Decoded, NEW j \in 0..(OpcodeOf(n).num_operands - 1)
  PROVE  LET od == RawDef(n, j)
             value == (ShownValue(n, j) - (IF od.pc_rel THEN pc ELSE 0)) \div 2^od.rightshift
             low == IF od.signed THEN -2^(od.num_bits - 1) ELSE 0
         IN  /\ value % 2^od.num_bits = FieldOf(raw, od)
             /\ value \in low..(low + 2^od.num_bits - 1)
<1> DEFINE od == RawDef(n, j)
           value == (ShownValue(n, j) - (IF od.pc_rel THEN pc ELSE 0)) \div 2^od.rightshift
           low == IF od.signed THEN -2^(od.num_bits - 1) ELSE 0
<1>1. /\ od.kind \in {"Reg", "Addr", "Imm", "Spr"}
      /\ od.num_bits \in 1..30 /\ od.rightshift \in 0..3
      /\ od.kind = "Reg" => od.num_bits <= 6 /\ od.rightshift = 0 /\ ~od.signed /\ ~od.pc_rel
  BY RawDefFacts
<1>2. pc \in Int
  BY PcsAssumption DEF DecodeInv
<1>3. /\ RawOp(n, j) = extract_operand(raw, pc, od)
      /\ ShownValue(n, j) = IF od.kind = "Reg" THEN RawOp(n, j).reg ELSE RawOp(n, j).value
  BY ShownIs DEF RawOp
<1>4. FieldOf(raw, od) \in 0..(2^od.num_bits - 1)
  BY <1>1, FieldFacts
<1> HIDE DEF od
<1>5. ShownValue(n, j) = IF od.kind = "Reg" THEN FieldOf(raw, od) % 64 ELSE FieldValue(raw, pc, od)
  BY <1>1, <1>3, ExtractFacts
<1>6. CASE od.kind = "Reg"
  <2> DEFINE field == FieldOf(raw, od)
             P == 2^od.num_bits
  <2>1. P \in {2, 4, 8, 16, 32, 64}
    <3>1. od.num_bits \in 1..6
      BY <1>1, <1>6
    <3>2. CASE od.num_bits = 1
      BY <3>2
    <3>3. CASE od.num_bits = 2
      BY <3>3
    <3>4. CASE od.num_bits = 3
      BY <3>4
    <3>5. CASE od.num_bits = 4
      BY <3>5
    <3>6. CASE od.num_bits = 5
      BY <3>6
    <3>7. CASE od.num_bits = 6
      BY <3>7
    <3>8. QED
      BY <3>1, <3>2, <3>3, <3>4, <3>5, <3>6, <3>7
  <2>2. field \in 0..(P - 1) /\ field \in Int /\ 2^0 = 1
    BY <1>4, <2>1
  <2>3. value = ((field % 64) - 0) \div 1 /\ low = 0
    BY <1>1, <1>5, <1>6, <2>2
  <2> HIDE DEF field, P, value
  <2>4. field % 64 = field
    BY <2>1, <2>2
  <2>5. value = field
    BY <2>2, <2>3, <2>4
  <2>6. value % P = field /\ value \in low..(low + P - 1)
    BY <2>1, <2>2, <2>3, <2>5
  <2>7. QED
    BY <2>6 DEF field, P, value, od
<1>7. CASE od.kind # "Reg"
  <2>1. ShownValue(n, j) = FieldValue(raw, pc, od)
    BY <1>5, <1>7
  <2>2. value % 2^od.num_bits = FieldOf(raw, od) /\ value \in low..(low + 2^od.num_bits - 1)
    BY <1>1, <1>2, <2>1, Undone
  <2>3. QED
    BY <2>2 DEF od
<1>8. QED
  BY <1>6, <1>7

\* Put together again, an operand is the bits that it was read from.
LEMMA AssembledIs ==
  ASSUME DecodeInv, NEW n \in Decoded, NEW j \in 0..(OpcodeOf(n).num_operands - 1)
  PROVE  Assembled(n, j) = raw \cap InputBits(RawDef(n, j))
<1> DEFINE od == RawDef(n, j)
           field == FieldOf(raw, od)
<1>1. /\ od.num_bits \in 1..30
      /\ {pair[2] : pair \in od.bits} = 0..(od.num_bits - 1)
      /\ \A p, q \in od.bits : p[2] = q[2] => p = q
  BY RawDefFacts
<1>2. Assembled(n, j) = {pair[1] : pair \in {p \in od.bits : (field \div 2^p[2]) % 2 = 1}}
  BY ShownUndone DEF Assembled
<1>3. \A k \in 0..(od.num_bits - 1) : (field \div 2^k) % 2 = FieldBit(raw, od, k)
  BY <1>1, FieldFacts
<1> HIDE DEF od, field
<1>4. ASSUME NEW p \in od.bits PROVE (field \div 2^p[2]) % 2 = 1 <=> p[1] \in raw
  <2>1. p[2] \in 0..(od.num_bits - 1)
    BY <1>1
  <2>2. FieldBit(raw, od, p[2]) = 1 <=> p[1] \in raw
    BY <1>1 DEF FieldBit
  <2>3. QED
    BY <1>3, <2>1, <2>2
<1>5. {p \in od.bits : (field \div 2^p[2]) % 2 = 1} = {p \in od.bits : p[1] \in raw}
  BY <1>4
<1>6. QED
  BY <1>2, <1>5 DEF InputBits, od

\* The mask gives the fixed bits of the word and the operands the others.
LEMMA InvRoundTrip == DecodeInv => RoundTrip
<1> SUFFICES ASSUME DecodeInv, NEW n \in Decoded
             PROVE  LET again == {Assembled(n, i) : i \in 0..(OpcodeOf(n).num_operands - 1)}
                    IN  /\ EncOf(n).val \cup UNION again = raw \cap UsedBits(n)
                        /\ \A i \in 0..(OpcodeOf(n).num_operands - 1) : ShownInRange(n, i)
  BY DEF RoundTrip
<1> DEFINE js == 0..(OpcodeOf(n).num_operands - 1)
<1>1. \A j \in js : Assembled(n, j) = raw \cap InputBits(RawDef(n, j))
  BY AssembledIs
<1>2. \A j \in js : ShownInRange(n, j)
  BY ShownUndone DEF ShownInRange
<1>3. raw \cap EncOf(n).mask = EncOf(n).val
  BY DecodedHas DEF Matches, EncOf, OpcodeOf
<1>4. raw \cap UsedBits(n) = EncOf(n).val \cup UNION {Assembled(n, j) : j \in js}
  <2>1. UNION {Assembled(n, j) : j \in js} = raw \cap UNION {InputBits(RawDef(n, j)) : j \in js}
    <3> HIDE DEF js
    <3>1. QED
      BY <1>1
  <2>2. CASE js = {}
    <3>1. UsedBits(n) = EncOf(n).mask
      <4>1. OpcodeOf(n).num_operands \in 0..TG_MAX_OPS
        BY OpcodeFacts
      <4>2. 1..OpcodeOf(n).num_operands = {}
        <5> DEFINE N == OpcodeOf(n).num_operands
        <5>1. N \in 0..4 /\ 0..(N - 1) = {}
          BY <2>2, <4>1 DEF TG_MAX_OPS
        <5> HIDE DEF N
        <5>2. N # 0 => 0 \in 0..(N - 1)
          BY <5>1
        <5>3. N = 0
          BY <5>1, <5>2
        <5>4. 1..N = {}
          BY <5>3
        <5>5. QED
          BY <5>4 DEF N
      <4>3. QED
        BY <4>2 DEF UsedBits, UsedBy, EncOf, OpcodeOf
    <3>2. QED
      BY <1>3, <2>2, <3>1
  <2>3. CASE js # {}
    <3>1. UsedBits(n) = EncOf(n).mask \cup UNION {InputBits(RawDef(n, k)) : k \in js}
      BY <2>3, RawDefFacts
    <3>2. QED
      BY <1>3, <2>1, <3>1
  <2>4. QED
    BY <2>2, <2>3
<1>5. QED
  BY <1>2, <1>4

-----------------------------------------------------------------------------
(* What a slot shows of its operands. *)

\* The base register of a memory access is shown as the access, any other operand as
\* itself; only a displacement has no place of its own.
LEMMA VisibleOps ==
  ASSUME DecodeInv, NEW n \in Decoded
  PROVE  LET N   == OpcodeOf(n).num_operands
             mem == OpcodeOf(n).mem
             V   == VisibleRaw(OpcodeOf(n))
             ops == slots[n].ops
             Base(v) == mem.kind # "None" /\ V[v] = mem.base_op
         IN  /\ DOMAIN ops = DOMAIN V /\ DOMAIN ops \subseteq 1..TG_MAX_OPS
             /\ \A v \in DOMAIN ops :
                  LET od == RawDef(n, V[v])
                  IN  /\ V[v] \in 0..(N - 1)
                      /\ od.kind = "Reg" => /\ ops[v].reg = ShownValue(n, V[v])
                                            /\ ops[v].kind = IF Base(v) THEN "Mem" ELSE "Reg"
                      /\ od.kind # "Reg" => /\ ops[v].value = ShownValue(n, V[v])
                                            /\ ~Base(v)
                                            /\ ops[v].kind = IF od.kind = "Addr" THEN "Near"
                                                             ELSE od.kind
             /\ \A u, v \in DOMAIN ops : V[u] = V[v] => u = v
             /\ \A u, v \in DOMAIN ops : u < v => V[u] < V[v]
             /\ \A j \in 0..(N - 1) :
                  RawDef(n, j).kind \in {"Reg", "Addr"} => \E v \in DOMAIN ops : V[v] = j
             /\ mem.kind # "None" => /\ \E v \in DOMAIN ops : V[v] = mem.base_op
                                     /\ RawDef(n, mem.base_op).kind = "Reg"
<1> DEFINE N   == OpcodeOf(n).num_operands
           mem == OpcodeOf(n).mem
           V   == VisibleRaw(OpcodeOf(n))
           ops == slots[n].ops
           Base(v) == mem.kind # "None" /\ V[v] = mem.base_op
<1>1. /\ N \in 0..TG_MAX_OPS
      /\ \A j \in 0..(N - 1) : RawDef(n, j).kind \in {"Reg", "Addr", "Imm", "Spr"}
      /\ mem.disp_op \in 0..(N - 1) => RawDef(n, mem.disp_op).kind = "Imm"
      /\ mem.kind # "None" => /\ mem.base_op \in 0..(N - 1)
                              /\ mem.base_op # mem.disp_op
                              /\ RawDef(n, mem.base_op).kind = "Reg"
  BY OpcodeFacts
<1>2. /\ DOMAIN V \subseteq 1..TG_MAX_OPS
      /\ \A v \in DOMAIN V : V[v] \in 0..(N - 1) /\ V[v] # mem.disp_op
      /\ \A j \in 0..(N - 1) : j # mem.disp_op => \E v \in DOMAIN V : V[v] = j
      /\ \A u, v \in DOMAIN V : V[u] = V[v] => u = v
      /\ \A u, v \in DOMAIN V : u < v => V[u] < V[v]
  BY <1>1, VisibleFacts
<1>3. /\ DOMAIN ops = DOMAIN V
      /\ \A v \in DOMAIN V : ops[v] = IF Base(v) THEN MemOf(n) ELSE RawOp(n, V[v])
  BY ShownOps
<1>4. MemOf(n).kind = "Mem" /\ MemOf(n).reg = RawOp(n, mem.base_op).reg
  BY DEF MemOf
<1>5. \A j \in 0..(N - 1) :
        /\ RawOp(n, j).kind = IF RawDef(n, j).kind = "Addr" THEN "Near" ELSE RawDef(n, j).kind
        /\ ShownValue(n, j) = IF RawDef(n, j).kind = "Reg" THEN RawOp(n, j).reg
                              ELSE RawOp(n, j).value
  <2> TAKE j \in 0..(N - 1)
  <2>1. RawDef(n, j).kind \in {"Reg", "Addr", "Imm", "Spr"}
    BY <1>1
  <2>2. RawOp(n, j).kind = IF RawDef(n, j).kind = "Addr" THEN "Near" ELSE RawDef(n, j).kind
    BY <2>1, ExtractFacts DEF RawOp
  <2>3. QED
    BY <2>2, ShownIs
<1> HIDE DEF V, ops, mem, N
<1>6. ASSUME NEW v \in DOMAIN ops
      PROVE  LET od == RawDef(n, V[v])
             IN  /\ V[v] \in 0..(N - 1)
                 /\ od.kind = "Reg" => /\ ops[v].reg = ShownValue(n, V[v])
                                       /\ ops[v].kind = IF Base(v) THEN "Mem" ELSE "Reg"
                 /\ od.kind # "Reg" => /\ ops[v].value = ShownValue(n, V[v])
                                       /\ ~Base(v)
                                       /\ ops[v].kind = IF od.kind = "Addr" THEN "Near"
                                                        ELSE od.kind
  <2>1. V[v] \in 0..(N - 1)
    BY <1>2, <1>3
  <2>2. CASE Base(v)
    BY <1>1, <1>3, <1>4, <1>5, <2>1, <2>2
  <2>3. CASE ~Base(v)
    <3>1. ops[v] = RawOp(n, V[v])
      BY <1>3, <2>3
    <3> HIDE DEF Base
    <3>2. QED
      BY <1>5, <2>1, <2>3, <3>1
  <2>4. QED
    BY <2>2, <2>3
<1>7. \A j \in 0..(N - 1) :
        RawDef(n, j).kind \in {"Reg", "Addr"} => \E v \in DOMAIN ops : V[v] = j
  BY <1>1, <1>2, <1>3
<1>8. mem.kind # "None" => /\ \E v \in DOMAIN ops : V[v] = mem.base_op
                           /\ RawDef(n, mem.base_op).kind = "Reg"
  BY <1>1, <1>7
<1> HIDE DEF Base
<1>9. QED
  BY <1>2, <1>3, <1>6, <1>7, <1>8, Zenon DEF V, ops, mem, N, Base

-----------------------------------------------------------------------------
(* The slots of a row, one after the other. *)

\* The first slot of a bundle is a row, and the others are at most two.
LEMMA RowOrder ==
  ASSUME IInv, NEW k \in DOMAIN listed
  PROVE  LET row   == listed[k].row
             order == InOrder(row)
         IN  /\ Len(order) \in {1, 2} /\ DOMAIN order = 1..Len(order)
             /\ \A i \in 1..Len(order) : order[i] \in row.slots
             /\ \A n \in row.slots : \E i \in 1..Len(order) : order[i] = n
             /\ Len(order) = 2 => order[1] # order[2]
             /\ row.slots \subseteq 1..3 /\ (Len(order) = 2 => 1 \notin row.slots)
             /\ listed[k].refs = refs_for(slots, row)
             /\ listed[k].accesses = row_reg_accesses(slots, row)
<1> DEFINE row   == listed[k].row
           order == InOrder(row)
<1>1. DecodeInv /\ ListInv /\ outcome = "bundle"
  <2>1. listed # <<>>
    OBVIOUS
  <2>2. QED
    BY <2>1 DEF IInv, ListInv
<1>2. /\ row = FirstRow \/ (row = SecondRow /\ Count # 1)
      /\ listed[k].refs = refs_for(slots, row)
      /\ listed[k].accesses = row_reg_accesses(slots, row)
  BY <1>1 DEF ListInv, IsRow
<1>3. /\ Lists(Indices, Decoded) /\ Count \in Nat /\ Count >= 1
      /\ \A i \in 1..Count : Indices[i] \in Decoded
      /\ \A i, j \in 1..Count : i < j => Indices[i] < Indices[j]
  BY <1>1, CountPositive DEF Lists, Count
<1>4. Decoded \subseteq 1..3
  <2>1. DOMAIN slots = 1..Len(slots) /\ Len(slots) \in 0..Len(PipesOf(raw))
        /\ Len(PipesOf(raw)) \in {2, 3}
    BY <1>1, PipesOfType DEF DecodeInv
  <2>2. DOMAIN slots \subseteq 1..3
    <3> DEFINE L == Len(slots)
               M == Len(PipesOf(raw))
    <3>1. DOMAIN slots = 1..L /\ L \in 0..M /\ M \in {2, 3}
      BY <2>1
    <3> HIDE DEF L, M
    <3>2. L \in 0..3
      BY <3>1
    <3>3. 1..L \subseteq 1..3
      BY <3>2
    <3>4. QED
      BY <3>1, <3>3
  <2>3. QED
    BY <2>2 DEF Decoded
<1>5. /\ row.slots # {} /\ row.slots \subseteq 1..3
      /\ row.slots = {Indices[1]} \/ 1 \notin row.slots
  <2>1. CASE row = FirstRow
    <3>1. row.slots = {Indices[1]}
      BY <2>1 DEF FirstRow
    <3>2. Indices[1] \in 1..3
      <4>1. 1 \in 1..Count
        BY <1>3
      <4>2. QED
        BY <1>3, <1>4, <4>1
    <3>3. QED
      BY <3>1, <3>2
  <2>2. CASE row = SecondRow /\ Count # 1
    <3>1. row.slots = {Indices[i] : i \in 2..Count}
      BY <2>2 DEF SecondRow, OtherSlots
    <3> HIDE DEF row
    <3>2. 2 \in 2..Count
      BY <1>3, <2>2
    <3>3. \A i \in 2..Count : Indices[i] \in 1..3 /\ Indices[1] \in 1..3 /\ Indices[1] < Indices[i]
      <4> TAKE i \in 2..Count
      <4>1. i \in 1..Count /\ 1 \in 1..Count /\ 1 < i
        BY <1>3
      <4>2. QED
        BY <1>3, <1>4, <4>1
    <3>4. \A i \in 2..Count : Indices[i] # 1
      BY <3>3
    <3>5. QED
      BY <3>1, <3>2, <3>3, <3>4
  <2>3. QED
    BY <1>2, <2>1, <2>2
<1>6. Lists(order, row.slots)
  <2>1. order = Kept(3, row.slots)
    BY DEF InOrder, TG_MAX_SLOTS
  <2>2. row.slots \cap (1..3) = row.slots
    BY <1>5
  <2> HIDE DEF order, row
  <2>3. Lists(Kept(3, row.slots), row.slots \cap (1..3))
    BY KeptLists
  <2>4. QED
    BY <2>1, <2>2, <2>3
<1> HIDE DEF order, row
<1>7. /\ order \in Seq(Nat) /\ Len(order) \in Nat /\ DOMAIN order = 1..Len(order)
      /\ \A i \in 1..Len(order) : order[i] \in row.slots
      /\ \A x \in row.slots : \E i \in 1..Len(order) : order[i] = x
      /\ \A i, j \in 1..Len(order) : i < j => order[i] < order[j]
  BY <1>6 DEF Lists
<1>8. Len(order) # 0
  BY <1>5, <1>7
<1>9. Len(order) <= 2
  <2> SUFFICES ASSUME Len(order) >= 3 PROVE FALSE
    BY <1>7
  <2>1. 1 \in 1..Len(order) /\ 2 \in 1..Len(order) /\ 3 \in 1..Len(order)
    BY <1>7
  <2>2. order[1] < order[2] /\ order[2] < order[3]
    BY <1>7, <2>1
  <2>3. order[1] \in row.slots /\ order[2] \in row.slots /\ order[3] \in row.slots
    BY <1>7, <2>1
  <2>4. order[1] \in 1..3 /\ order[2] \in 1..3 /\ order[3] \in 1..3
    BY <1>5, <2>3
  <2>5. order[1] = 1 /\ order[1] # order[2]
    BY <2>2, <2>4
  <2>6. QED
    BY <1>5, <2>3, <2>5
<1>10. Len(order) = 2 => order[1] # order[2]
  <2> SUFFICES ASSUME Len(order) = 2 PROVE order[1] # order[2]
    OBVIOUS
  <2>1. 1 \in 1..Len(order) /\ 2 \in 1..Len(order)
    OBVIOUS
  <2>2. order[1] < order[2] /\ order[1] \in row.slots /\ order[2] \in row.slots
    BY <1>7, <2>1
  <2>3. QED
    BY <1>5, <2>2
<1>11. Len(order) \in {1, 2}
  BY <1>7, <1>8, <1>9
<1>12. Len(order) = 2 => 1 \notin row.slots
  <2> SUFFICES ASSUME Len(order) = 2, row.slots = {Indices[1]} PROVE FALSE
    BY <1>5
  <2>1. order[1] \in row.slots /\ order[2] \in row.slots
    BY <1>7
  <2>2. QED
    BY <1>10, <2>1
<1>13. QED
  BY <1>2, <1>5, <1>7, <1>10, <1>11, <1>12 DEF order, row

\* A sequence that has the elements of one sequence or two, and no others.
LaidOut(all, seqs, c, T) ==
  /\ all \in Seq(T)
  /\ Len(all) = Len(seqs[1]) + (IF c = 2 THEN Len(seqs[2]) ELSE 0)
  /\ \A i \in 1..Len(all) : \E j \in 1..c : \E m \in 1..Len(seqs[j]) : all[i] = seqs[j][m]
  /\ \A j \in 1..c : \A m \in 1..Len(seqs[j]) : \E i \in 1..Len(all) : all[i] = seqs[j][m]

\* One sequence or two, laid end to end.
LEMMA Flattened ==
  ASSUME NEW T, NEW seqs, NEW c \in {1, 2}, seqs = [i \in 1..c |-> seqs[i]],
         \A i \in 1..c : seqs[i] \in Seq(T)
  PROVE  LaidOut(FlattenSeq(seqs), seqs, c, T)
<1> DEFINE IsFlat(f) == f = [i \in 1..Len(seqs) |-> IF i = 1 THEN seqs[i] ELSE f[i - 1] \o seqs[i]]
           flatten == CHOOSE f : IsFlat(f)
           all == FlattenSeq(seqs)
           g == [i \in 1..c |-> IF i = 1 THEN seqs[1] ELSE seqs[1] \o seqs[2]]
<1>1. Len(seqs) = c
  OBVIOUS
<1>2. all = flatten[c]
  <2>1. Len(seqs) # 0
    BY <1>1
  <2>2. all = flatten[Len(seqs)]
    BY <2>1, Zenon DEF FlattenSeq
  <2> HIDE DEF all, flatten
  <2>3. QED
    BY <1>1, <2>2
<1>3. IsFlat(g)
  <2>1. \A i \in 1..c : g[i] = IF i = 1 THEN seqs[i] ELSE g[i - 1] \o seqs[i]
    <3>1. CASE c = 1
      BY <3>1
    <3>2. CASE c = 2
      <4>1. g[1] = seqs[1] /\ g[2] = seqs[1] \o seqs[2]
        BY <3>2
      <4> HIDE DEF g
      <4>2. g[2] = g[2 - 1] \o seqs[2]
        <5>1. 2 - 1 = 1
          OBVIOUS
        <5>2. QED
          BY <4>1, <5>1, Zenon
      <4>3. \A i \in 1..c : i = 1 \/ i = 2
        BY <3>2
      <4>4. QED
        BY <4>1, <4>2, <4>3, Zenon
    <3>3. QED
      BY <3>1, <3>2
  <2> HIDE DEF g
  <2>2. g = [i \in 1..c |-> IF i = 1 THEN seqs[i] ELSE g[i - 1] \o seqs[i]]
    <3>1. g = [i \in 1..c |-> g[i]]
      BY DEF g
    <3>2. QED
      BY <2>1, <3>1, Zenon
  <2>3. QED
    BY <1>1, <2>2
<1>4. IsFlat(flatten)
  BY <1>3, Zenon
<1> HIDE DEF flatten
<1>5. \A i \in 1..c : flatten[i] = IF i = 1 THEN seqs[i] ELSE flatten[i - 1] \o seqs[i]
  BY <1>1, <1>4, Zenon
<1> HIDE DEF all, g
<1>6. CASE c = 1
  <2>1. all = seqs[1]
    BY <1>2, <1>5, <1>6
  <2>2. QED
    BY <1>6, <2>1 DEF all, LaidOut
<1>7. CASE c = 2
  <2>1. all = seqs[1] \o seqs[2]
    <3>1. 1 \in 1..c /\ 2 \in 1..c /\ 2 # 1 /\ 2 - 1 = 1
      BY <1>7
    <3>2. flatten[1] = seqs[1] /\ flatten[2] = flatten[1] \o seqs[2]
      BY <1>5, <3>1, Zenon
    <3>3. QED
      BY <1>2, <1>7, <3>2
  <2>2. seqs[1] \in Seq(T) /\ seqs[2] \in Seq(T)
    BY <1>7
  <2> DEFINE a == seqs[1]
             b == seqs[2]
  <2> HIDE DEF a, b
  <2>3. /\ all \in Seq(T) /\ Len(all) = Len(a) + Len(b) /\ Len(a) \in Nat /\ Len(b) \in Nat
        /\ \A i \in 1..(Len(a) + Len(b)) : all[i] = IF i <= Len(a) THEN a[i] ELSE b[i - Len(a)]
    <3>1. a \in Seq(T) /\ b \in Seq(T) /\ all = a \o b
      BY <2>1, <2>2 DEF a, b
    <3>2. Len(a) \in Nat /\ Len(b) \in Nat
      BY <3>1
    <3>3. QED
      BY <3>1, <3>2, ConcatProperties
  <2>4. \A i \in 1..Len(all) : \/ \E m \in 1..Len(a) : all[i] = a[m]
                               \/ \E m \in 1..Len(b) : all[i] = b[m]
    <3> TAKE i \in 1..Len(all)
    <3>1. CASE i <= Len(a)
      BY <2>3, <3>1
    <3>2. CASE ~(i <= Len(a))
      <4>1. i - Len(a) \in 1..Len(b) /\ all[i] = b[i - Len(a)]
        BY <2>3, <3>2
      <4>2. QED
        BY <4>1
    <3>3. QED
      BY <3>1, <3>2
  <2>5. \A m \in 1..Len(a) : \E i \in 1..Len(all) : all[i] = a[m]
    <3> TAKE m \in 1..Len(a)
    <3>1. m \in 1..Len(all) /\ all[m] = a[m]
      BY <2>3
    <3>2. QED
      BY <3>1
  <2>6. \A m \in 1..Len(b) : \E i \in 1..Len(all) : all[i] = b[m]
    <3> TAKE m \in 1..Len(b)
    <3>1. /\ m + Len(a) \in 1..Len(all) /\ ~(m + Len(a) <= Len(a)) /\ (m + Len(a)) - Len(a) = m
      BY <2>3
    <3>2. all[m + Len(a)] = b[m]
      BY <2>3, <3>1
    <3>3. QED
      BY <3>1, <3>2
  <2>7. \A j \in 1..c : (j = 1 /\ seqs[j] = a) \/ (j = 2 /\ seqs[j] = b)
    BY <1>7 DEF a, b
  <2>8. 1 \in 1..c /\ 2 \in 1..c /\ seqs[1] = a /\ seqs[2] = b
    BY <1>7 DEF a, b
  <2>9. \A i \in 1..Len(all) : \E j \in 1..c : \E m \in 1..Len(seqs[j]) : all[i] = seqs[j][m]
    BY <2>4, <2>8
  <2>10. \A j \in 1..c : \A m \in 1..Len(seqs[j]) : \E i \in 1..Len(all) : all[i] = seqs[j][m]
    BY <2>5, <2>6, <2>7
  <2>11. QED
    BY <1>7, <2>3, <2>8, <2>9, <2>10 DEF all, LaidOut
<1>8. QED
  BY <1>6, <1>7

\* The operands of some kinds are listed once each, in order.
LEMMA ShowingLists ==
  ASSUME DecodeInv, NEW n \in Decoded, NEW kinds
  PROVE  Lists(Showing(slots[n], kinds),
               {v \in DOMAIN slots[n].ops : slots[n].ops[v].kind \in kinds})
<1> DEFINE S == {v \in DOMAIN slots[n].ops : slots[n].ops[v].kind \in kinds}
<1>1. DOMAIN slots[n].ops \subseteq 1..TG_MAX_OPS
  BY VisibleOps
<1>2. S \cap (1..TG_MAX_OPS) = S
  BY <1>1
<1>3. Showing(slots[n], kinds) = Kept(TG_MAX_OPS, S)
  BY DEF Showing
<1> HIDE DEF S
<1>4. Lists(Kept(TG_MAX_OPS, S), S \cap (1..TG_MAX_OPS))
  BY KeptLists DEF TG_MAX_OPS
<1>5. QED
  BY <1>2, <1>3, <1>4 DEF S

-----------------------------------------------------------------------------
(* Branch targets. *)

\* An address that a slot shows is a bundle's: counted in bundles from an aligned one.
LEMMA TargetAligned ==
  ASSUME DecodeInv, NEW n \in Decoded, NEW j \in 0..(OpcodeOf(n).num_operands - 1),
         RawDef(n, j).kind = "Addr"
  PROVE  ShownValue(n, j) \in Int /\ ShownValue(n, j) % 8 = 0
<1> DEFINE od == RawDef(n, j)
<1>1. od.num_bits \in 1..30
  BY RawDefFacts
<1>2. od.rightshift = 3 /\ od.pc_rel
  <2> DEFINE i == slots[n].itype
  <2>1. /\ i \in Having(PipeOf(n)) /\ PipeOf(n) \in Pipes
        /\ j + 1 \in 1..Opcodes[i].num_operands /\ RawDef(n, j) = RawOf(PipeOf(n), i, j + 1)
    BY OpcodeFacts
  <2> HIDE DEF i
  <2>2. RawOf(PipeOf(n), i, j + 1).kind = "Addr"
    BY <2>1
  <2>3. RawOf(PipeOf(n), i, j + 1).rightshift = 3 /\ RawOf(PipeOf(n), i, j + 1).pc_rel
    BY <2>1, <2>2, TargetsAssumption, Zenon
  <2>4. QED
    BY <2>1, <2>3
<1>3. pc \in Int /\ pc % 8 = 0
  BY PcsAssumption DEF DecodeInv
<1>4. RawOp(n, j) = extract_operand(raw, pc, od) /\ ShownValue(n, j) = RawOp(n, j).value
  BY ShownIs DEF RawOp
<1>5. FieldOf(raw, od) \in 0..(2^od.num_bits - 1)
  BY <1>1, FieldFacts
<1> HIDE DEF od
<1>6. 2^od.num_bits \in Nat
  <2>1. od.num_bits \in 0..30
    BY <1>1
  <2>2. QED
    BY <2>1, Powers
<1>7. ShownValue(n, j) = FieldValue(raw, pc, od)
  <2>1. od.kind = "Addr"
    BY DEF od
  <2>2. QED
    BY <1>4, <2>1, ExtractFacts
<1> DEFINE sign == SignExtended(FieldOf(raw, od), od)
<1>8. sign \in Int
  BY <1>5, <1>6 DEF SignExtended
<1>9. FieldValue(raw, pc, od) = sign * 2^3 + pc
  BY <1>2 DEF FieldValue
<1> HIDE DEF sign
<1>10. FieldValue(raw, pc, od) = sign * 8 + pc
  <2>1. 2^3 = 8
    OBVIOUS
  <2>2. QED
    BY <1>9, <2>1, Zenon
<1>11. QED
  BY <1>3, <1>7, <1>8, <1>10

Refs == [kind : {"CALL", "JUMP"}, target : Int]

\* A slot has one reference if its opcode has an address operand, and none otherwise; it is
\* the one that the tables have.
LEMMA SlotRefsAre ==
  ASSUME DecodeInv, NEW n \in Decoded
  PROVE  LET refs == SlotRefs(slots[n])
         IN  /\ refs \in Seq(Refs)
             /\ Len(refs) = IF HasAddr(n) THEN 1 ELSE 0
             /\ HasAddr(n) => EncodedRefs(n) = {refs[1]} /\ refs[1].target % 8 = 0
             /\ ~HasAddr(n) => EncodedRefs(n) = {}
<1> DEFINE N    == OpcodeOf(n).num_operands
           V    == VisibleRaw(OpcodeOf(n))
           ops  == slots[n].ops
           S    == {v \in DOMAIN ops : ops[v].kind \in {"Near"}}
           near == Showing(slots[n], {"Near"})
           kind == IF is_call(slots[n]) THEN "CALL" ELSE "JUMP"
           refs == SlotRefs(slots[n])
<1>1. Lists(near, S)
  BY ShowingLists
<1>2. refs = [k \in DOMAIN near |-> [kind |-> kind, target |-> ops[near[k]].value]]
  BY DEF SlotRefs
<1>3. kind = IF cflow(n) = "call" THEN "CALL" ELSE "JUMP"
  BY ClassOfName DEF is_call
<1>4. /\ \A v \in DOMAIN ops : V[v] \in 0..(N - 1)
      /\ \A v \in DOMAIN ops :
           LET od == RawDef(n, V[v])
           IN  /\ od.kind = "Reg" => ops[v].kind \in {"Mem", "Reg"}
               /\ od.kind # "Reg" => /\ ops[v].value = ShownValue(n, V[v])
                                     /\ ops[v].kind = IF od.kind = "Addr" THEN "Near" ELSE od.kind
      /\ \A u, v \in DOMAIN ops : V[u] = V[v] => u = v
      /\ \A j \in 0..(N - 1) : RawDef(n, j).kind = "Addr" => \E v \in DOMAIN ops : V[v] = j
  BY VisibleOps
<1>5. \A j \in 0..(N - 1) : RawDef(n, j).kind \in {"Reg", "Addr", "Imm", "Spr"}
  BY OpcodeFacts
<1>6. \A i, j \in 0..(N - 1) :
        RawDef(n, i).kind = "Addr" /\ RawDef(n, j).kind = "Addr" => i = j
  <2> DEFINE x == slots[n].itype
  <2>1. /\ x \in Having(PipeOf(n)) /\ PipeOf(n) \in Pipes /\ N \in 0..TG_MAX_OPS
        /\ \A j \in 0..(N - 1) : /\ j + 1 \in 1..Opcodes[x].num_operands
                                 /\ RawDef(n, j) = RawOf(PipeOf(n), x, j + 1)
    BY OpcodeFacts
  <2> HIDE DEF x, N
  <2>2. \A i, j \in 1..Opcodes[x].num_operands :
          RawOf(PipeOf(n), x, i).kind = "Addr" /\ RawOf(PipeOf(n), x, j).kind = "Addr" => i = j
    BY <2>1, TargetsAssumption, Zenon
  <2>3. \A i, j \in 0..(N - 1) : i + 1 = j + 1 => i = j
    OBVIOUS
  <2>4. QED
    BY <2>1, <2>2, <2>3
<1>7. HasAddr(n) <=> \E j \in 0..(N - 1) : RawDef(n, j).kind = "Addr"
  BY DEF HasAddr
<1>8. \A v \in DOMAIN ops : (ShownValue(n, V[v]) \in Int /\ ShownValue(n, V[v]) % 8 = 0)
                             \/ RawDef(n, V[v]).kind # "Addr"
  BY <1>4, TargetAligned
<1> DEFINE A      == {j \in 0..(N - 1) : RawDef(n, j).kind = "Addr"}
           ref(x) == [kind |-> kind, target |-> x]
<1>9. EncodedRefs(n) = {ref(ShownValue(n, j)) : j \in A}
  BY <1>3 DEF EncodedRefs
<1>10. \A v \in S : V[v] \in A /\ ops[v].value = ShownValue(n, V[v]) /\ \A j \in A : j = V[v]
  <2>1. \A v \in S : V[v] \in 0..(N - 1) /\ RawDef(n, V[v]).kind = "Addr" /\ v \in DOMAIN ops
    BY <1>4, <1>5
  <2> HIDE DEF S, V, N, ops
  <2>2. ASSUME NEW v \in S PROVE ops[v].value = ShownValue(n, V[v])
    <3>1. RawDef(n, V[v]).kind # "Reg" /\ v \in DOMAIN ops
      BY <2>1
    <3>2. QED
      BY <1>4, <3>1, Zenon
  <2>3. QED
    BY <1>6, <2>1, <2>2
<1> HIDE DEF A
<1>11. \A v \in S : EncodedRefs(n) = {ref(ops[v].value)}
  BY <1>9, <1>10
<1>12. ~HasAddr(n) => EncodedRefs(n) = {}
  BY <1>7, <1>9 DEF A
<1> HIDE DEF ops, V, N, near, refs, kind, ref
<1>13. \A v \in DOMAIN ops : ops[v].kind = "Near" <=> RawDef(n, V[v]).kind = "Addr"
  BY <1>4, <1>5
<1>14. \A u, v \in S : u = v
  BY <1>4, <1>6, <1>13
<1>15. S # {} <=> HasAddr(n)
  BY <1>4, <1>7, <1>13
<1>16. \A v \in S : ops[v].value \in Int /\ ops[v].value % 8 = 0
  BY <1>4, <1>8, <1>13
<1> HIDE DEF S
<1>17. /\ near \in Seq(Nat) /\ Len(near) \in Nat /\ DOMAIN near = 1..Len(near)
       /\ \A k \in 1..Len(near) : near[k] \in S
       /\ \A x \in S : \E k \in 1..Len(near) : near[k] = x
       /\ \A i, k \in 1..Len(near) : i < k => near[i] < near[k]
  BY <1>1 DEF Lists
<1>18. Len(near) <= 1
  <2> SUFFICES ASSUME Len(near) >= 2 PROVE FALSE
    BY <1>17
  <2>1. 1 \in 1..Len(near) /\ 2 \in 1..Len(near)
    BY <1>17
  <2>2. near[1] < near[2] /\ near[1] \in S /\ near[2] \in S /\ near[1] \in Nat
    BY <1>17, <2>1
  <2>3. QED
    BY <1>14, <2>2
<1>19. Len(near) = IF HasAddr(n) THEN 1 ELSE 0
  BY <1>15, <1>17, <1>18
<1>20. DOMAIN refs = 1..Len(near) /\ \A k \in 1..Len(near) :
         refs[k] = [kind |-> kind, target |-> ops[near[k]].value]
  BY <1>2, <1>17
<1>21. kind \in {"CALL", "JUMP"}
  BY DEF kind
<1>22. \A k \in 1..Len(near) : refs[k] \in Refs /\ refs[k].kind = kind /\ refs[k].target % 8 = 0
  BY <1>16, <1>17, <1>20, <1>21 DEF Refs
<1>23. refs \in Seq(Refs) /\ Len(refs) = Len(near)
  <2>1. refs = [k \in 1..Len(near) |-> refs[k]]
    BY <1>2, <1>17
  <2>2. QED
    BY <1>17, <1>22, <2>1
<1>24. HasAddr(n) => 1 \in 1..Len(near)
  BY <1>19
<1>25. HasAddr(n) => EncodedRefs(n) = {refs[1]}
  <2>1. 1 \in 1..Len(near) => refs[1] = ref(ops[near[1]].value) /\ near[1] \in S
    BY <1>17, <1>20 DEF ref
  <2>2. QED
    BY <1>24, <1>11, <2>1
<1>26. QED
  BY <1>19, <1>22, <1>23, <1>24, <1>12, <1>25 DEF refs

\* The references of a row are those of its one slot with an address.
LEMMA InvRefs == IInv => RefsExact
<1> SUFFICES ASSUME IInv, NEW k \in DOMAIN listed
             PROVE  LET row  == listed[k].row
                        refs == listed[k].refs
                    IN  /\ Range(refs) = UNION {EncodedRefs(n) : n \in row.slots}
                        /\ Len(refs) = Cardinality({n \in row.slots : HasAddr(n)})
                        /\ \A r \in Range(refs) : r.target % 8 = 0
  BY DEF RefsExact
<1> DEFINE row      == listed[k].row
           order    == InOrder(row)
           c        == Len(order)
           with     == {n \in row.slots : HasAddr(n)}
           seqs     == [i \in 1..c |-> SlotRefs(slots[order[i]])]
           all      == FlattenSeq(seqs)
           refs     == listed[k].refs
<1>1. DecodeInv /\ row.slots \subseteq Decoded
  BY RowOfDecoded
<1>2. /\ c \in {1, 2} /\ DOMAIN order = 1..c
      /\ \A i \in 1..c : order[i] \in row.slots
      /\ \A n \in row.slots : \E i \in 1..c : order[i] = n
      /\ c = 2 => order[1] # order[2]
      /\ refs = refs_for(slots, row)
  BY RowOrder
<1>3. refs = SubSeq(all, 1, Min({Len(all), TG_MAX_CREFS}))
  <2>1. refs_for(slots, row) = SubSeq(FlattenSeq([i \in DOMAIN order |-> SlotRefs(slots[order[i]])]), 1,
          Min({Len(FlattenSeq([i \in DOMAIN order |-> SlotRefs(slots[order[i]])])), TG_MAX_CREFS}))
    BY DEF refs_for
  <2>2. [i \in DOMAIN order |-> SlotRefs(slots[order[i]])] = seqs
    BY <1>2
  <2> HIDE DEF seqs, order
  <2>3. QED
    BY <1>2, <2>1, <2>2
<1>4. \A n \in Decoded : HasAddr(n) => n = 2
  <2> TAKE n \in Decoded
  <2> HAVE HasAddr(n)
  <2>1. cflow(n) # "normal"
    BY DEF cflow
  <2>2. QED
    BY <1>1, <2>1, ClassOfName
<1>5. \A n \in row.slots :
        /\ SlotRefs(slots[n]) \in Seq(Refs)
        /\ Len(SlotRefs(slots[n])) = IF HasAddr(n) THEN 1 ELSE 0
        /\ HasAddr(n) => /\ EncodedRefs(n) = {SlotRefs(slots[n])[1]}
                         /\ SlotRefs(slots[n])[1].target % 8 = 0
        /\ ~HasAddr(n) => EncodedRefs(n) = {}
  BY <1>1, SlotRefsAre
<1> HIDE DEF row, order
<1>6. \A i \in 1..c :
        /\ seqs[i] \in Seq(Refs) /\ Len(seqs[i]) = IF HasAddr(order[i]) THEN 1 ELSE 0
        /\ HasAddr(order[i]) => /\ EncodedRefs(order[i]) = {seqs[i][1]}
                                /\ seqs[i][1].target % 8 = 0
  BY <1>2, <1>5
<1> HIDE DEF c
<1>7. seqs = [i \in 1..c |-> seqs[i]]
  OBVIOUS
<1> HIDE DEF seqs
<1>8. /\ all \in Seq(Refs)
      /\ Len(all) = Len(seqs[1]) + (IF c = 2 THEN Len(seqs[2]) ELSE 0)
      /\ \A i \in 1..Len(all) : \E j \in 1..c : \E m \in 1..Len(seqs[j]) : all[i] = seqs[j][m]
      /\ \A j \in 1..c : \A m \in 1..Len(seqs[j]) : \E i \in 1..Len(all) : all[i] = seqs[j][m]
  <2>1. c \in {1, 2} /\ \A i \in 1..c : seqs[i] \in Seq(Refs)
    BY <1>2, <1>6
  <2> HIDE DEF all
  <2>2. LaidOut(all, seqs, c, Refs)
    BY <1>7, <2>1, Flattened DEF all
  <2>3. QED
    BY <2>2, Zenon DEF LaidOut
<1> HIDE DEF all
<1>9. /\ Len(seqs[1]) = IF HasAddr(order[1]) THEN 1 ELSE 0
      /\ c = 2 => Len(seqs[2]) = IF HasAddr(order[2]) THEN 1 ELSE 0
      /\ DOMAIN all = 1..Len(all)
  <2>1. 1 \in 1..c /\ (c = 2 => 2 \in 1..c)
    BY <1>2
  <2>2. QED
    BY <1>6, <1>8, <2>1
<1>10. with \subseteq {2}
  BY <1>1, <1>4
<1>11. Len(all) = Cardinality(with) /\ Len(all) \in {0, 1}
  <2>1. 1 \in 1..c /\ (c = 2 => 2 \in 1..c)
    BY <1>2
  <2>2. CASE with = {}
    <3>1. \A i \in 1..c : ~HasAddr(order[i])
      BY <1>2, <2>2
    <3>2. Len(all) = 0
      <4>1. /\ ~HasAddr(order[1]) /\ (c = 2 => ~HasAddr(order[2]))
        BY <2>1, <3>1
      <4>2. QED
        BY <1>2, <1>8, <1>9, <4>1
    <3>3. QED
      BY <2>2, <3>2, FS_EmptySet
  <2>3. CASE with = {2}
    <3>1. PICK i \in 1..c : order[i] = 2
      BY <1>2, <2>3
    <3>2. HasAddr(order[i])
      BY <2>3, <3>1
    <3>3. \A j \in 1..c : HasAddr(order[j]) => order[j] = 2
      BY <1>2, <2>3
    <3>4. \A j \in 1..c : HasAddr(order[j]) <=> j = i
      <4> TAKE j \in 1..c
      <4>1. i \in {1, 2} /\ j \in {1, 2} /\ (i # j => c = 2)
        BY <1>2, <3>1
      <4>2. i # j => order[j] # order[i]
        BY <1>2, <4>1
      <4>3. QED
        BY <3>1, <3>2, <3>3, <4>2
    <3>5. Len(all) = 1
      <4>1. CASE i = 1
        <5>1. HasAddr(order[1]) /\ (c = 2 => ~HasAddr(order[2]))
          BY <2>1, <3>4, <4>1
        <5>2. QED
          BY <1>2, <1>8, <1>9, <5>1
      <4>2. CASE i = 2
        <5>1. c = 2
          BY <1>2, <4>2
        <5>2. HasAddr(order[2]) /\ ~HasAddr(order[1])
          BY <2>1, <3>4, <4>2, <5>1
        <5>3. QED
          BY <1>8, <1>9, <5>1, <5>2
      <4>3. QED
        BY <1>2, <4>1, <4>2
    <3>6. Cardinality({2}) = 1
      BY FS_Singleton
    <3>7. QED
      BY <2>3, <3>5, <3>6
  <2>4. QED
    BY <1>10, <2>2, <2>3
<1>12. refs = all
  <2>1. Min({Len(all), TG_MAX_CREFS}) = Len(all)
    <3>1. TG_MAX_CREFS = 12
      BY DEF TG_MAX_CREFS, TG_MAX_SLOTS, TG_MAX_OPS
    <3>2. \A x \in {Len(all), 12} : (\A y \in {Len(all), 12} : x <= y) <=> x = Len(all)
      BY <1>11
    <3>3. QED
      BY <3>1, <3>2 DEF Min
  <2>2. SubSeq(all, 1, Len(all)) = all
    BY <1>8, SubSeqFull
  <2>3. QED
    BY <1>3, <2>1, <2>2
<1>13. \A r \in Range(refs) : (\E n \in row.slots : r \in EncodedRefs(n)) /\ r.target % 8 = 0
  <2> TAKE r \in Range(refs)
  <2>1. PICK i \in 1..Len(all) : r = all[i]
    BY <1>9, <1>12 DEF Range
  <2>2. PICK j \in 1..c : \E m \in 1..Len(seqs[j]) : all[i] = seqs[j][m]
    BY <1>8
  <2>3. PICK m \in 1..Len(seqs[j]) : r = seqs[j][m]
    BY <2>1, <2>2
  <2>4. HasAddr(order[j]) /\ m = 1
    BY <1>6
  <2>5. order[j] \in row.slots /\ r \in EncodedRefs(order[j]) /\ r.target % 8 = 0
    BY <1>2, <1>6, <2>3, <2>4
  <2>6. QED
    BY <2>5
<1>14. \A n \in row.slots : EncodedRefs(n) \subseteq Range(refs)
  <2> TAKE n \in row.slots
  <2>1. PICK j \in 1..c : order[j] = n
    BY <1>2
  <2>2. CASE HasAddr(n)
    <3>1. 1 \in 1..Len(seqs[j]) /\ EncodedRefs(n) = {seqs[j][1]}
      <4>1. Len(seqs[j]) = 1 /\ EncodedRefs(order[j]) = {seqs[j][1]}
        BY <1>6, <2>1, <2>2
      <4>2. QED
        BY <2>1, <4>1
    <3>2. PICK i \in 1..Len(all) : all[i] = seqs[j][1]
      BY <1>8, <3>1
    <3>3. all[i] \in Range(refs)
      BY <1>9, <1>12 DEF Range
    <3>4. QED
      BY <3>1, <3>2, <3>3
  <2>3. CASE ~HasAddr(n)
    BY <1>5, <2>3
  <2>4. QED
    BY <2>2, <2>3
<1>15. Range(refs) = UNION {EncodedRefs(n) : n \in row.slots}
  BY <1>13, <1>14
<1>16. QED
  BY <1>11, <1>12, <1>13, <1>15 DEF row

-----------------------------------------------------------------------------
(* Register accesses. *)

Entries == [reg : 0..63, op_index : Nat, access : SUBSET {"READ", "WRITE"}]

\* The registers that the first n entries read or write.
RegsWith(s, n, x) == {s[i].reg : i \in {j \in 1..n : x \in s[j].access}}

\* As long as there is room, adding an entry adds its register under its access and
\* takes nothing away.
LEMMA AddAccess ==
  ASSUME NEW acc \in Seq(Entries), NEW new \in Entries, Len(acc) < TG_MAX_REG_ACCESSES
  PROVE  LET out == add_access(acc, new)
         IN  /\ out \in Seq(Entries) /\ Len(out) <= Len(acc) + 1
             /\ \A x : RegsWith(out, Len(out), x)
                  = RegsWith(acc, Len(acc), x) \cup (IF x \in new.access THEN {new.reg} ELSE {})
<1> DEFINE out  == add_access(acc, new)
           same == {k \in DOMAIN acc : acc[k].reg = new.reg /\ acc[k].op_index = new.op_index}
           m    == Min(same)
           L    == Len(acc)
<1>1. /\ L \in Nat /\ DOMAIN acc = 1..L /\ L < 16
      /\ \A k \in 1..L : acc[k] \in Entries
  BY DEF TG_MAX_REG_ACCESSES
<1>2. ~(new.reg >= NUM_GPRS) /\ new.reg < NUM_GPRS
  <2>1. new.reg \in 0..63
    BY DEF Entries
  <2>2. NUM_GPRS \in Nat /\ NUM_GPRS >= 64
    BY AccessAssumption
  <2>3. \A r \in 0..63 : ~(r >= NUM_GPRS) /\ r < NUM_GPRS
    BY <2>2
  <2>4. QED
    BY <2>1, <2>3, Zenon
<1>3. CASE new.access = {}
  <2>1. out = acc
    BY <1>3 DEF add_access
  <2> HIDE DEF out
  <2>2. QED
    BY <1>1, <1>3, <2>1 DEF out
<1>4. CASE new.access # {} /\ same # {}
  <2>1. m \in same
    <3>1. same \in SUBSET Nat
      BY <1>1
    <3> HIDE DEF same
    <3>2. \E x \in same : \A y \in same : x <= y
      BY <1>4, <3>1, LeastNat
    <3>3. QED
      BY <3>2 DEF Min
  <2>2. out = [acc EXCEPT ![m].access = acc[m].access \cup new.access]
    BY <1>2, <1>4 DEF add_access
  <2> DEFINE merged == [acc[m] EXCEPT !.access = acc[m].access \cup new.access]
  <2>3. m \in 1..L /\ acc[m] \in Entries /\ acc[m].reg = new.reg
    BY <1>1, <2>1
  <2> HIDE DEF out, m, same
  <2>4. merged \in Entries /\ merged.reg = new.reg /\ merged.access = acc[m].access \cup new.access
    BY <2>3 DEF Entries
  <2>5. /\ out = [acc EXCEPT ![m] = merged]
        /\ DOMAIN out = 1..L /\ Len(out) = L
        /\ \A k \in 1..L : out[k] = IF k = m THEN merged ELSE acc[k]
    BY <1>1, <2>2, <2>3
  <2> HIDE DEF merged
  <2>6. \A k \in 1..L : out[k] \in Entries
    BY <1>1, <2>4, <2>5
  <2>7. out \in Seq(Entries)
    <3>1. out = [k \in 1..L |-> out[k]]
      BY <1>1, <2>5
    <3> HIDE DEF L
    <3>2. QED
      BY <1>1, <2>6, <3>1
  <2>8. ASSUME NEW x
        PROVE  RegsWith(out, L, x) = RegsWith(acc, L, x) \cup (IF x \in new.access THEN {new.reg} ELSE {})
    <3>1. \A k \in 1..L : out[k].reg = acc[k].reg
      BY <2>3, <2>4, <2>5
    <3>2. \A k \in 1..L : x \in out[k].access <=> x \in acc[k].access \/ (k = m /\ x \in new.access)
      BY <2>4, <2>5
    <3> HIDE DEF L
    <3>3. \A r : r \in RegsWith(out, L, x) <=> \E k \in 1..L : x \in out[k].access /\ r = out[k].reg
      BY DEF RegsWith
    <3>4. \A r : r \in RegsWith(acc, L, x) <=> \E k \in 1..L : x \in acc[k].access /\ r = acc[k].reg
      BY DEF RegsWith
    <3>5. \A r : r \in RegsWith(out, L, x)
                   <=> r \in RegsWith(acc, L, x) \/ (x \in new.access /\ r = new.reg)
      BY <2>3, <3>1, <3>2, <3>3, <3>4
    <3>6. QED
      BY <3>5
  <2>9. Len(out) <= L + 1 /\ Len(out) = L
    BY <1>1, <2>5
  <2>10. \A x : RegsWith(out, Len(out), x)
                 = RegsWith(acc, L, x) \cup (IF x \in new.access THEN {new.reg} ELSE {})
    BY <2>8, <2>9
  <2> HIDE DEF L
  <2>11. QED
    BY <2>7, <2>9, <2>10 DEF out, L
<1>5. CASE new.access # {} /\ same = {}
  <2>1. out = Append(acc, new)
    <3>1. out = IF L >= TG_MAX_REG_ACCESSES THEN acc ELSE Append(acc, new)
      BY <1>2, <1>5 DEF add_access
    <3> HIDE DEF out, same, L
    <3>2. QED
      BY <1>1, <3>1 DEF TG_MAX_REG_ACCESSES
  <2> HIDE DEF out, same
  <2>2. /\ out \in Seq(Entries) /\ Len(out) = L + 1
        /\ \A k \in 1..L : out[k] = acc[k]
        /\ out[L + 1] = new
    BY <2>1, AppendProperties
  <2>3. ASSUME NEW x
        PROVE  RegsWith(out, L + 1, x)
                 = RegsWith(acc, L, x) \cup (IF x \in new.access THEN {new.reg} ELSE {})
    <3> HIDE DEF L
    <3>1. \A k : k \in 1..(L + 1) <=> k \in 1..L \/ k = L + 1
      BY <1>1
    <3>2. \A r : r \in RegsWith(out, L + 1, x)
                   <=> \E k \in 1..(L + 1) : x \in out[k].access /\ r = out[k].reg
      BY DEF RegsWith
    <3>3. \A r : r \in RegsWith(acc, L, x) <=> \E k \in 1..L : x \in acc[k].access /\ r = acc[k].reg
      BY DEF RegsWith
    <3>4. \A r : r \in RegsWith(out, L + 1, x)
                   <=> r \in RegsWith(acc, L, x) \/ (x \in new.access /\ r = new.reg)
      BY <2>2, <3>1, <3>2, <3>3
    <3>5. QED
      BY <3>4
  <2>4. QED
    BY <1>1, <2>2, <2>3 DEF out
<1>6. QED
  BY <1>3, <1>4, <1>5

\* The loop over the accesses of a row, in its first n rounds.
IsBuilt(f, all, n) ==
  f = [k \in 0..n |-> IF k = 0 THEN <<>> ELSE add_access(f[k - 1], all[k])]

LEMMA BuiltExists ==
  ASSUME NEW all, NEW n \in Nat
  PROVE  \E f : IsBuilt(f, all, n)
<1> DEFINE Bad == {m \in Nat : ~\E f : IsBuilt(f, all, m)}
<1> SUFFICES ASSUME Bad # {} PROVE FALSE
  OBVIOUS
<1>1. PICK m \in Bad : \A k \in Bad : m <= k
  BY LeastNat, Bad \in SUBSET Nat
<1>2. m # 0
  <2> DEFINE f == [k \in 0..0 |-> <<>>]
  <2>1. f = [k \in 0..0 |-> IF k = 0 THEN <<>> ELSE add_access(f[k - 1], all[k])]
    OBVIOUS
  <2>2. IsBuilt(f, all, 0)
    BY <2>1, Zenon DEF IsBuilt
  <2>3. QED
    BY <1>1, <2>2
<1>3. PICK f : IsBuilt(f, all, m - 1)
  BY <1>1, <1>2
<1> DEFINE Round(h, k) == add_access(h, all[k])
           g == [k \in 0..m |-> IF k = m THEN Round(f[m - 1], m) ELSE f[k]]
<1>4. m \in Nat \ {0}
  BY <1>1, <1>2
<1>5. \A k \in 0..(m - 1) : f[k] = IF k = 0 THEN <<>> ELSE Round(f[k - 1], k)
  BY <1>3 DEF IsBuilt
<1>6. \A k \in 0..(m - 1) : g[k] = f[k]
  BY <1>4
<1>7. g[m] = Round(f[m - 1], m)
  BY <1>4
<1>8. ASSUME NEW k \in 0..m
      PROVE  g[k] = IF k = 0 THEN <<>> ELSE Round(g[k - 1], k)
  <2> HIDE DEF g, Round
  <2>1. CASE k = m
    <3>1. g[m - 1] = f[m - 1]
      BY <1>4, <1>6
    <3>2. QED
      BY <1>4, <1>7, <2>1, <3>1
  <2>2. CASE k # m
    <3>1. k \in 0..(m - 1)
      BY <1>4, <2>2
    <3>2. k # 0 => k - 1 \in 0..(m - 1)
      BY <3>1
    <3>3. QED
      BY <1>5, <1>6, <3>1, <3>2
  <2>3. QED
    BY <2>1, <2>2
<1>9. g = [k \in 0..m |-> IF k = 0 THEN <<>> ELSE Round(g[k - 1], k)]
  BY <1>8, Zenon
<1>10. IsBuilt(g, all, m)
  BY <1>9, Zenon DEF IsBuilt
<1>11. QED
  BY <1>1, <1>10

\* Nothing is lost of at most sixteen accesses that are added one by one.
LEMMA BuiltRegs ==
  ASSUME NEW all \in Seq(Entries), Len(all) <= TG_MAX_REG_ACCESSES, NEW f,
         IsBuilt(f, all, Len(all))
  PROVE  LET out == f[Len(all)]
         IN  /\ out \in Seq(Entries)
             /\ \A x : RegsWith(out, Len(out), x) = RegsWith(all, Len(all), x)
<1> DEFINE n == Len(all)
           Good(k) == /\ f[k] \in Seq(Entries) /\ Len(f[k]) <= k
                      /\ \A x : RegsWith(f[k], Len(f[k]), x) = RegsWith(all, k, x)
           Bad == {k \in Nat : k <= n /\ ~Good(k)}
<1>1. n \in Nat /\ n <= 16 /\ \A k \in 1..n : all[k] \in Entries
  BY DEF TG_MAX_REG_ACCESSES
<1>2. f[0] = <<>> /\ \A k \in 1..n : f[k] = add_access(f[k - 1], all[k])
  <2>1. \A k \in 0..n : f[k] = IF k = 0 THEN <<>> ELSE add_access(f[k - 1], all[k])
    BY Zenon DEF IsBuilt
  <2>2. 0 \in 0..n /\ \A k \in 1..n : k \in 0..n /\ k # 0
    BY <1>1
  <2> HIDE DEF n
  <2>3. QED
    BY <2>1, <2>2, Zenon
<1> HIDE DEF n
<1>3. Good(0)
  <2>1. f[0] \in Seq(Entries) /\ Len(f[0]) = 0
    BY <1>2
  <2>2. \A x, s : RegsWith(s, 0, x) = {}
    BY DEF RegsWith
  <2>3. \A x : RegsWith(f[0], Len(f[0]), x) = {} /\ RegsWith(all, 0, x) = {}
    BY <2>1, <2>2
  <2>4. Len(f[0]) <= 0
    BY <2>1
  <2>5. QED
    BY <2>1, <2>3, <2>4
<1>4. Bad = {}
  <2> SUFFICES ASSUME Bad # {} PROVE FALSE
    OBVIOUS
  <2>1. PICK k \in Bad : \A j \in Bad : k <= j
    BY LeastNat, Bad \in SUBSET Nat
  <2>2. k \in 1..n /\ k - 1 \in Nat /\ k - 1 <= n /\ ~(k <= k - 1) /\ ~Good(k)
    <3> HIDE DEF Good
    <3>1. k \in Nat /\ k <= n /\ ~Good(k)
      BY <2>1
    <3>2. k # 0
      BY <1>3, <3>1
    <3>3. QED
      BY <1>1, <3>1, <3>2
  <2>3. Good(k - 1)
    <3> HIDE DEF Good
    <3>1. k - 1 \notin Bad
      <4> HIDE DEF Bad
      <4>1. QED
        BY <2>1, <2>2
    <3>2. QED
      BY <2>2, <3>1
  <2> HIDE DEF Bad
  <2>4. /\ f[k - 1] \in Seq(Entries) /\ Len(f[k - 1]) <= k - 1
        /\ Len(f[k - 1]) \in Nat /\ Len(f[k - 1]) < TG_MAX_REG_ACCESSES
    BY <1>1, <2>2, <2>3 DEF TG_MAX_REG_ACCESSES
  <2>5. all[k] \in Entries /\ f[k] = add_access(f[k - 1], all[k])
    BY <1>1, <1>2, <2>2
  <2>6. /\ f[k] \in Seq(Entries) /\ Len(f[k]) <= Len(f[k - 1]) + 1
        /\ \A x : RegsWith(f[k], Len(f[k]), x)
             = RegsWith(f[k - 1], Len(f[k - 1]), x)
                 \cup (IF x \in all[k].access THEN {all[k].reg} ELSE {})
    BY <2>4, <2>5, AddAccess
  <2>7. ASSUME NEW x
        PROVE  RegsWith(all, k, x) = RegsWith(all, k - 1, x)
                 \cup (IF x \in all[k].access THEN {all[k].reg} ELSE {})
    <3>1. \A i : i \in 1..k <=> i \in 1..(k - 1) \/ i = k
      BY <1>1, <2>2
    <3>2. \A j, r : r \in RegsWith(all, j, x)
                      <=> \E i \in 1..j : x \in all[i].access /\ r = all[i].reg
      BY DEF RegsWith
    <3>3. \A r : r \in RegsWith(all, k, x)
                   <=> r \in RegsWith(all, k - 1, x) \/ (x \in all[k].access /\ r = all[k].reg)
      BY <3>1, <3>2
    <3>4. QED
      BY <3>3
  <2>8. \A x : RegsWith(f[k], Len(f[k]), x) = RegsWith(all, k, x)
    <3> TAKE x
    <3>1. RegsWith(f[k - 1], Len(f[k - 1]), x) = RegsWith(all, k - 1, x)
      BY <2>3
    <3>2. QED
      BY <2>6, <2>7, <3>1
  <2>9. Len(f[k]) <= k
    <3>1. Len(f[k]) \in Nat
      BY <2>6
    <3>2. QED
      BY <2>2, <2>4, <2>6, <3>1
  <2>10. QED
    BY <2>2, <2>6, <2>8, <2>9
<1>5. Good(n)
  <2> HIDE DEF Good
  <2>1. QED
    BY <1>1, <1>4
<1>6. QED
  BY <1>5 DEF n

\* The registers that a slot reads or writes by the tables.
SlotRegs(n, x) ==
  {ShownValue(n, j) : j \in {i \in 0..(OpcodeOf(n).num_operands - 1) :
                               RawDef(n, i).kind = "Reg" /\ x \in Roles(RawDef(n, i))}}
  \cup (IF x = "WRITE" /\ is_call(slots[n]) THEN {LR_REG} ELSE {})

\* The access that shows a register operand has its register and its roles.
LEMMA AccessIs ==
  ASSUME DecodeInv, NEW n \in Decoded, NEW v \in DOMAIN slots[n].ops,
         slots[n].ops[v].kind \in {"Reg", "Mem"}
  PROVE  LET j == VisibleRaw(OpcodeOf(n))[v]
             a == AccessOf(slots[n], v)
         IN  /\ j \in 0..(OpcodeOf(n).num_operands - 1) /\ RawDef(n, j).kind = "Reg"
             /\ a \in Entries /\ a.reg = ShownValue(n, j) /\ a.access = Roles(RawDef(n, j))
<1> DEFINE j == VisibleRaw(OpcodeOf(n))[v]
           ops == slots[n].ops
           a == AccessOf(slots[n], v)
<1>1. /\ j \in 0..(OpcodeOf(n).num_operands - 1) /\ v \in 1..TG_MAX_OPS
      /\ RawDef(n, j).kind = "Reg" => ops[v].reg = ShownValue(n, j)
      /\ RawDef(n, j).kind # "Reg" =>
           ops[v].kind = IF RawDef(n, j).kind = "Addr" THEN "Near" ELSE RawDef(n, j).kind
  BY VisibleOps
<1>2. RawDef(n, j).kind \in {"Reg", "Addr", "Imm", "Spr"}
  BY <1>1, OpcodeFacts
<1>3. RawDef(n, j).kind = "Reg"
  BY <1>1, <1>2
<1>4. Roles(operand_def(slots[n], v)) = Roles(RawDef(n, j))
  <2>1. RolesShared
    BY InvRoles
  <2>2. /\ operand_def(slots[n], v).src = RawDef(n, j).src
        /\ operand_def(slots[n], v).dest = RawDef(n, j).dest
    BY <2>1 DEF RolesShared
  <2> HIDE DEF j
  <2>3. QED
    BY <2>2 DEF Roles
<1>5. RawDef(n, j).src \/ RawDef(n, j).dest
  <2> DEFINE i == slots[n].itype
  <2>1. /\ i \in Having(PipeOf(n)) /\ PipeOf(n) \in Pipes
        /\ j + 1 \in 1..Opcodes[i].num_operands /\ RawDef(n, j) = RawOf(PipeOf(n), i, j + 1)
    BY <1>1, OpcodeFacts
  <2> HIDE DEF i, j
  <2>2. RawOf(PipeOf(n), i, j + 1).kind = "Reg"
    BY <1>3, <2>1
  <2>3. RawOf(PipeOf(n), i, j + 1).src \/ RawOf(PipeOf(n), i, j + 1).dest
    BY <2>1, <2>2, AccessAssumption, Zenon
  <2>4. QED
    BY <2>1, <2>3
<1>6. Roles(RawDef(n, j)) # {} /\ Roles(RawDef(n, j)) \in SUBSET {"READ", "WRITE"}
  BY <1>5 DEF Roles
<1>7. a.reg = ops[v].reg /\ a.op_index = v - 1 /\ a.access = Roles(RawDef(n, j))
      /\ a = [reg |-> a.reg, op_index |-> a.op_index, access |-> a.access]
  <2> HIDE DEF j
  <2>1. QED
    BY <1>4, <1>6 DEF AccessOf
<1>8. ShownValue(n, j) \in 0..63
  <2> DEFINE od == RawDef(n, j)
             field == FieldOf(raw, od)
  <2>1. ShownValue(n, j) = RawOp(n, j).reg /\ RawOp(n, j) = extract_operand(raw, pc, od)
    BY <1>1, <1>3, ShownIs DEF RawOp
  <2>2. od.num_bits \in 1..30
    BY <1>1, RawDefFacts
  <2>3. field \in 0..(2^od.num_bits - 1)
    BY <2>2, FieldFacts
  <2>4. 2^od.num_bits \in Nat
    <3> HIDE DEF od
    <3>1. od.num_bits \in 0..30
      BY <2>2
    <3>2. QED
      BY <3>1, Powers
  <2> HIDE DEF od
  <2>5. RawOp(n, j).reg = field % 64
    <3>1. od.kind = "Reg"
      BY <1>3 DEF od
    <3>2. QED
      BY <2>1, <3>1, ExtractFacts
  <2> HIDE DEF field
  <2>6. field % 64 \in 0..63
    BY <2>3, <2>4
  <2>7. QED
    BY <2>1, <2>5, <2>6
<1> HIDE DEF j, a
<1>9. a \in Entries
  <2>1. a.op_index \in Nat /\ a.reg \in 0..63 /\ a.access \in SUBSET {"READ", "WRITE"}
    BY <1>1, <1>3, <1>6, <1>7, <1>8 DEF TG_MAX_OPS
  <2>2. QED
    BY <1>7, <2>1 DEF Entries
<1>10. QED
  BY <1>1, <1>3, <1>7, <1>9 DEF j, a

\* A slot adds its register operands with their roles, and the link of a call.
LEMMA SlotAccesses ==
  ASSUME DecodeInv, NEW n \in Decoded
  PROVE  LET s == reg_accesses(slots[n])
         IN  /\ s \in Seq(Entries) /\ Len(s) <= TG_MAX_OPS + 1
             /\ \A x : RegsWith(s, Len(s), x) = SlotRegs(n, x)
<1> DEFINE N     == OpcodeOf(n).num_operands
           V     == VisibleRaw(OpcodeOf(n))
           ops   == slots[n].ops
           S     == {v \in DOMAIN ops : ops[v].kind \in {"Reg", "Mem"}}
           shown == Showing(slots[n], {"Reg", "Mem"})
           a     == [k \in DOMAIN shown |-> AccessOf(slots[n], shown[k])]
           link  == [reg |-> LR_REG, op_index |-> NoOpIndex, access |-> {"WRITE"}]
           b     == IF is_call(slots[n]) THEN <<link>> ELSE <<>>
           s     == reg_accesses(slots[n])
<1>1. s = a \o b
  BY DEF reg_accesses
<1>2. Lists(shown, S)
  BY ShowingLists
<1>3. S \in SUBSET (1..4)
  BY VisibleOps DEF TG_MAX_OPS
<1>4. \A v \in S : /\ V[v] \in 0..(N - 1) /\ RawDef(n, V[v]).kind = "Reg"
                   /\ AccessOf(slots[n], v) \in Entries
                   /\ AccessOf(slots[n], v).reg = ShownValue(n, V[v])
                   /\ AccessOf(slots[n], v).access = Roles(RawDef(n, V[v]))
  BY AccessIs
<1>5. \A j \in 0..(N - 1) : RawDef(n, j).kind = "Reg" => \E v \in S : V[v] = j
  <2> TAKE j \in 0..(N - 1)
  <2> HAVE RawDef(n, j).kind = "Reg"
  <2>1. PICK v \in DOMAIN ops : V[v] = j
    BY VisibleOps
  <2>2. ops[v].kind \in {"Reg", "Mem"}
    BY <2>1, VisibleOps
  <2>3. QED
    BY <2>1, <2>2
<1> HIDE DEF S, shown, V, N
<1>6. /\ Len(shown) \in Nat /\ Len(shown) <= 4 /\ DOMAIN shown = 1..Len(shown)
      /\ \A k \in 1..Len(shown) : shown[k] \in S
      /\ \A v \in S : \E k \in 1..Len(shown) : shown[k] = v
  <2>1. Len(shown) <= 4
    BY <1>2, <1>3, ListsShort
  <2>2. QED
    BY <1>2, <2>1 DEF Lists
<1> DEFINE L == Len(shown)
<1>7. /\ a \in Seq(Entries) /\ Len(a) = L
      /\ \A k \in 1..L : a[k] = AccessOf(slots[n], shown[k])
  BY <1>4, <1>6
<1>8. link \in Entries /\ link.reg = LR_REG /\ link.access = {"WRITE"}
  <2>1. LR_REG \in 0..63
    BY AccessAssumption
  <2>2. QED
    BY <2>1 DEF Entries, NoOpIndex
<1> HIDE DEF link
<1>9. /\ b \in Seq(Entries)
      /\ Len(b) = IF is_call(slots[n]) THEN 1 ELSE 0
      /\ is_call(slots[n]) => b[1] = link
  BY <1>8
<1> HIDE DEF a, b, s, L
<1>10. /\ s \in Seq(Entries) /\ Len(s) = L + Len(b)
       /\ \A i \in 1..(L + Len(b)) : s[i] = IF i <= L THEN a[i] ELSE b[i - L]
  BY <1>1, <1>7, <1>9, ConcatProperties
<1>11. L \in Nat /\ L <= 4
  BY <1>6 DEF L
<1>12. Len(s) <= TG_MAX_OPS + 1
  BY <1>9, <1>10, <1>11 DEF TG_MAX_OPS
<1>13. \A k \in 1..L : k \in 1..Len(s) /\ s[k] = AccessOf(slots[n], shown[k])
  BY <1>7, <1>9, <1>10, <1>11
<1>14. is_call(slots[n]) => L + 1 \in 1..Len(s) /\ s[L + 1] = link
  <2> SUFFICES ASSUME is_call(slots[n]) PROVE L + 1 \in 1..Len(s) /\ s[L + 1] = link
    OBVIOUS
  <2>1. Len(b) = 1 /\ b[1] = link
    BY <1>9
  <2>2. L + 1 \in 1..(L + Len(b)) /\ ~(L + 1 <= L) /\ (L + 1) - L = 1
    BY <1>11, <2>1
  <2>3. QED
    BY <1>10, <2>1, <2>2
<1>15. \A i \in 1..Len(s) : i \in 1..L \/ (i = L + 1 /\ is_call(slots[n]))
  BY <1>9, <1>10, <1>11
<1>16. ASSUME NEW x
       PROVE  RegsWith(s, Len(s), x) = SlotRegs(n, x)
  <2>1. \A r : r \in RegsWith(s, Len(s), x)
                 <=> \E i \in 1..Len(s) : x \in s[i].access /\ r = s[i].reg
    BY DEF RegsWith
  <2>2. \A r : r \in SlotRegs(n, x)
                 <=> \/ \E j \in 0..(N - 1) : /\ RawDef(n, j).kind = "Reg"
                                              /\ x \in Roles(RawDef(n, j)) /\ r = ShownValue(n, j)
                     \/ x = "WRITE" /\ is_call(slots[n]) /\ r = LR_REG
    BY DEF SlotRegs, N
  <2>3. ASSUME NEW i \in 1..Len(s), x \in s[i].access
        PROVE  s[i].reg \in SlotRegs(n, x)
    <3>1. CASE i \in 1..L
      <4>1. shown[i] \in S /\ s[i] = AccessOf(slots[n], shown[i])
        BY <1>6, <1>13, <3>1 DEF L
      <4>2. QED
        BY <1>4, <2>2, <2>3, <4>1
    <3>2. CASE i = L + 1 /\ is_call(slots[n])
      BY <1>8, <1>14, <2>2, <2>3, <3>2
    <3>3. QED
      BY <1>15, <3>1, <3>2
  <2>4. ASSUME NEW r \in SlotRegs(n, x)
        PROVE  \E i \in 1..Len(s) : x \in s[i].access /\ r = s[i].reg
    <3>1. CASE \E j \in 0..(N - 1) : /\ RawDef(n, j).kind = "Reg"
                                     /\ x \in Roles(RawDef(n, j)) /\ r = ShownValue(n, j)
      <4>1. PICK j \in 0..(N - 1) : /\ RawDef(n, j).kind = "Reg"
                                    /\ x \in Roles(RawDef(n, j)) /\ r = ShownValue(n, j)
        BY <3>1
      <4>2. PICK v \in S : V[v] = j
        BY <1>5, <4>1
      <4>3. PICK k \in 1..L : shown[k] = v
        BY <1>6 DEF L
      <4>4. k \in 1..Len(s) /\ s[k] = AccessOf(slots[n], v)
        BY <1>13, <4>3
      <4>5. QED
        BY <1>4, <4>1, <4>2, <4>4
    <3>2. CASE x = "WRITE" /\ is_call(slots[n]) /\ r = LR_REG
      BY <1>8, <1>14, <3>2
    <3>3. QED
      BY <2>2, <3>1, <3>2
  <2>5. QED
    BY <2>1, <2>3, <2>4
<1>17. QED
  BY <1>10, <1>12, <1>16 DEF s

\* What a row's tables say of its slots, one by one.
LEMMA TableRegsAre ==
  ASSUME DecodeInv, NEW row, row.slots \subseteq Decoded
  PROVE  /\ TableRegs(row, "src") = UNION {SlotRegs(n, "READ") : n \in row.slots}
         /\ TableRegs(row, "dest") = UNION {SlotRegs(n, "WRITE") : n \in row.slots}
<1>1. \A n \in row.slots : cflow(n) = "call" <=> is_call(slots[n])
  BY ClassOfName DEF is_call
<1>2. \A od : ("READ" \in Roles(od) <=> od.src) /\ ("WRITE" \in Roles(od) <=> od.dest)
  BY DEF Roles
<1> DEFINE Regs(n, role) == {ShownValue(n, i) : i \in {j \in 0..(OpcodeOf(n).num_operands - 1) :
                                      RawDef(n, j).kind = "Reg" /\ RawDef(n, j)[role]}}
<1>3. \A n : SlotRegs(n, "READ") = Regs(n, "src")
  BY <1>2 DEF SlotRegs
<1>4. \A n : SlotRegs(n, "WRITE") = Regs(n, "dest") \cup (IF is_call(slots[n]) THEN {LR_REG} ELSE {})
  BY <1>2 DEF SlotRegs
<1>5. /\ TableRegs(row, "src") = UNION {Regs(n, "src") : n \in row.slots}
      /\ TableRegs(row, "dest") = (UNION {Regs(n, "dest") : n \in row.slots})
           \cup (IF \E n \in row.slots : cflow(n) = "call" THEN {LR_REG} ELSE {})
  BY DEF TableRegs
<1> HIDE DEF Regs
<1>6. UNION {SlotRegs(n, "READ") : n \in row.slots} = UNION {Regs(n, "src") : n \in row.slots}
  BY <1>3
<1>7. \A r : r \in UNION {SlotRegs(n, "WRITE") : n \in row.slots}
              <=> \/ r \in UNION {Regs(n, "dest") : n \in row.slots}
                  \/ r = LR_REG /\ \E n \in row.slots : is_call(slots[n])
  BY <1>4
<1>8. \A r : r \in TableRegs(row, "dest")
              <=> \/ r \in UNION {Regs(n, "dest") : n \in row.slots}
                  \/ r = LR_REG /\ \E n \in row.slots : is_call(slots[n])
  <2>1. CASE \E n \in row.slots : is_call(slots[n])
    <3>1. TableRegs(row, "dest") = (UNION {Regs(n, "dest") : n \in row.slots}) \cup {LR_REG}
      BY <1>1, <1>5, <2>1
    <3> DEFINE A == UNION {Regs(n, "dest") : n \in row.slots}
               B == TableRegs(row, "dest")
    <3>2. \A r : r \in B <=> r \in A \/ r = LR_REG
      <4>1. B = A \cup {LR_REG}
        BY <3>1
      <4> HIDE DEF A, B
      <4>2. QED
        BY <4>1
    <3> HIDE DEF A, B
    <3>3. \A r : r \in B <=> r \in A \/ (r = LR_REG /\ \E n \in row.slots : is_call(slots[n]))
      BY <2>1, <3>2
    <3>4. QED
      BY <3>3 DEF A, B
  <2>2. CASE ~\E n \in row.slots : is_call(slots[n])
    <3>1. TableRegs(row, "dest") = UNION {Regs(n, "dest") : n \in row.slots}
      BY <1>1, <1>5, <2>2
    <3>2. QED
      BY <2>2, <3>1
  <2>3. QED
    BY <2>1, <2>2
<1>9. TableRegs(row, "dest") = UNION {SlotRegs(n, "WRITE") : n \in row.slots}
  <2>1. \A r : r \in TableRegs(row, "dest") <=> r \in UNION {SlotRegs(n, "WRITE") : n \in row.slots}
    BY <1>7, <1>8
  <2> DEFINE A == TableRegs(row, "dest")
             B == UNION {SlotRegs(n, "WRITE") : n \in row.slots}
  <2>2. \A r : r \in A <=> r \in B
    BY <2>1
  <2>3. A \subseteq B /\ B \subseteq A
    BY <2>2, Zenon
  <2>4. QED
    BY <2>3, Zenon
<1>10. QED
  BY <1>5, <1>6, <1>9

\* A row's accesses are those of the tables, for the row as a whole.
LEMMA InvAccesses == IInv => AccessesExact
<1> SUFFICES ASSUME IInv, NEW k \in DOMAIN listed
             PROVE  LET row     == listed[k].row
                        with(x) == {a.reg : a \in {b \in Range(listed[k].accesses) : x \in b.access}}
                    IN  /\ with("READ") = TableRegs(row, "src")
                        /\ with("WRITE") = TableRegs(row, "dest")
  BY DEF AccessesExact
<1> DEFINE row     == listed[k].row
           order   == InOrder(row)
           c       == Len(order)
           seqs    == [i \in 1..c |-> reg_accesses(slots[order[i]])]
           all     == FlattenSeq(seqs)
           acc     == listed[k].accesses
           with(x) == {a.reg : a \in {b \in Range(acc) : x \in b.access}}
           built   == CHOOSE f : IsBuilt(f, all, Len(all))
<1>1. DecodeInv /\ row.slots \subseteq Decoded
  BY RowOfDecoded
<1>2. /\ c \in {1, 2} /\ DOMAIN order = 1..c
      /\ \A i \in 1..c : order[i] \in row.slots
      /\ \A n \in row.slots : \E i \in 1..c : order[i] = n
      /\ acc = row_reg_accesses(slots, row)
  BY RowOrder
<1>3. acc = built[Len(all)]
  <2>1. [i \in DOMAIN order |-> reg_accesses(slots[order[i]])] = seqs
    BY <1>2
  <2> DEFINE flat == FlattenSeq([i \in DOMAIN order |-> reg_accesses(slots[order[i]])])
             made == CHOOSE f : IsBuilt(f, flat, Len(flat))
  <2>2. row_reg_accesses(slots, row) = made[Len(flat)]
    BY Zenon DEF row_reg_accesses, IsBuilt
  <2> HIDE DEF seqs, order
  <2>3. flat = all
    BY <2>1
  <2> HIDE DEF flat, all
  <2>4. QED
    BY <1>2, <2>2, <2>3
<1>4. \A n \in row.slots :
        /\ reg_accesses(slots[n]) \in Seq(Entries) /\ Len(reg_accesses(slots[n])) <= 5
        /\ \A x : RegsWith(reg_accesses(slots[n]), Len(reg_accesses(slots[n])), x) = SlotRegs(n, x)
  BY <1>1, SlotAccesses DEF TG_MAX_OPS
<1> HIDE DEF row, order
<1>5. \A i \in 1..c :
        /\ seqs[i] \in Seq(Entries) /\ Len(seqs[i]) <= 5
        /\ \A x : RegsWith(seqs[i], Len(seqs[i]), x) = SlotRegs(order[i], x)
  BY <1>2, <1>4
<1> HIDE DEF c
<1>6. LaidOut(all, seqs, c, Entries)
  <2>1. seqs = [i \in 1..c |-> seqs[i]]
    OBVIOUS
  <2>2. \A i \in 1..c : seqs[i] \in Seq(Entries)
    BY <1>5
  <2> HIDE DEF seqs
  <2>3. QED
    BY <1>2, <2>1, <2>2, Flattened
<1> HIDE DEF seqs, all
<1>7. all \in Seq(Entries) /\ Len(all) \in Nat /\ Len(all) <= TG_MAX_REG_ACCESSES
  <2>1. all \in Seq(Entries) /\ Len(all) = Len(seqs[1]) + (IF c = 2 THEN Len(seqs[2]) ELSE 0)
    BY <1>6 DEF LaidOut
  <2>2. 1 \in 1..c /\ (c = 2 => 2 \in 1..c)
    BY <1>2
  <2>3. /\ Len(seqs[1]) \in Nat /\ Len(seqs[1]) <= 5
        /\ c = 2 => Len(seqs[2]) \in Nat /\ Len(seqs[2]) <= 5
    BY <1>5, <2>2
  <2> DEFINE p == Len(seqs[1])
             q == Len(seqs[2])
             t == Len(all)
  <2>4. t \in Nat /\ t <= 16
    <3>1. t = p + (IF c = 2 THEN q ELSE 0)
      BY <2>1
    <3>2. p \in Nat /\ p <= 5 /\ (c = 2 => q \in Nat /\ q <= 5)
      BY <2>3
    <3> HIDE DEF p, q, t
    <3>3. CASE c = 2
      BY <3>1, <3>2, <3>3
    <3>4. CASE c # 2
      BY <3>1, <3>2, <3>4
    <3>5. QED
      BY <3>3, <3>4
  <2>5. QED
    BY <2>1, <2>4 DEF TG_MAX_REG_ACCESSES
<1>8. IsBuilt(built, all, Len(all))
  <2>1. \E f : IsBuilt(f, all, Len(all))
    BY <1>7, BuiltExists
  <2>2. QED
    BY <2>1
<1> HIDE DEF built
<1>9. acc \in Seq(Entries) /\ \A x : RegsWith(acc, Len(acc), x) = RegsWith(all, Len(all), x)
  <2>1. /\ built[Len(all)] \in Seq(Entries)
        /\ \A x : RegsWith(built[Len(all)], Len(built[Len(all)]), x) = RegsWith(all, Len(all), x)
    BY <1>7, <1>8, BuiltRegs
  <2> HIDE DEF acc
  <2>2. QED
    BY <1>3, <2>1
<1> HIDE DEF acc
<1>10. \A x : with(x) = RegsWith(acc, Len(acc), x)
  <2>1. DOMAIN acc = 1..Len(acc)
    BY <1>9
  <2>2. QED
    BY <2>1 DEF RegsWith, Range
<1>11. \A x : RegsWith(all, Len(all), x) = UNION {SlotRegs(n, x) : n \in row.slots}
  <2> TAKE x
  <2>1. \A s, m, r : r \in RegsWith(s, m, x) <=> \E i \in 1..m : x \in s[i].access /\ r = s[i].reg
    BY DEF RegsWith
  <2>2. ASSUME NEW r \in RegsWith(all, Len(all), x)
        PROVE  \E n \in row.slots : r \in SlotRegs(n, x)
    <3>1. PICK i \in 1..Len(all) : x \in all[i].access /\ r = all[i].reg
      BY <2>1
    <3>2. PICK j \in 1..c : \E m \in 1..Len(seqs[j]) : all[i] = seqs[j][m]
      BY <1>6 DEF LaidOut
    <3>3. r \in RegsWith(seqs[j], Len(seqs[j]), x)
      BY <2>1, <3>1, <3>2
    <3>4. QED
      BY <1>2, <1>5, <3>3
  <2>3. ASSUME NEW n \in row.slots, NEW r \in SlotRegs(n, x)
        PROVE  r \in RegsWith(all, Len(all), x)
    <3>1. PICK j \in 1..c : order[j] = n
      BY <1>2
    <3>2. r \in RegsWith(seqs[j], Len(seqs[j]), x)
      BY <1>5, <3>1
    <3>3. PICK m \in 1..Len(seqs[j]) : x \in seqs[j][m].access /\ r = seqs[j][m].reg
      BY <2>1, <3>2
    <3>4. PICK i \in 1..Len(all) : all[i] = seqs[j][m]
      BY <1>6 DEF LaidOut
    <3>5. QED
      BY <2>1, <3>3, <3>4
  <2>4. QED
    BY <2>2, <2>3
<1>12. /\ TableRegs(row, "src") = UNION {SlotRegs(n, "READ") : n \in row.slots}
       /\ TableRegs(row, "dest") = UNION {SlotRegs(n, "WRITE") : n \in row.slots}
  BY <1>1, TableRegsAre
<1>13. with("READ") = TableRegs(row, "src") /\ with("WRITE") = TableRegs(row, "dest")
  <2> HIDE DEF with
  <2>1. QED
    BY <1>9, <1>10, <1>11, <1>12
<1>14. QED
  BY <1>13 DEF row, acc

-----------------------------------------------------------------------------
(* Prologues. *)

\* A slot shows a register where the tables have one.
LEMMA RegShown ==
  ASSUME DecodeInv, NEW n \in Decoded, NEW v \in DOMAIN slots[n].ops,
         slots[n].ops[v].kind = "Reg"
  PROVE  LET j   == VisibleRaw(OpcodeOf(n))[v]
             mem == OpcodeOf(n).mem
         IN  /\ j \in 0..(OpcodeOf(n).num_operands - 1) /\ RawDef(n, j).kind = "Reg"
             /\ slots[n].ops[v].reg = ShownValue(n, j)
             /\ ~(mem.kind # "None" /\ j = mem.base_op)
<1> DEFINE j   == VisibleRaw(OpcodeOf(n))[v]
           mem == OpcodeOf(n).mem
           op  == slots[n].ops[v]
<1>1. /\ j \in 0..(OpcodeOf(n).num_operands - 1)
      /\ RawDef(n, j).kind = "Reg" =>
           /\ op.reg = ShownValue(n, j)
           /\ op.kind = IF mem.kind # "None" /\ j = mem.base_op THEN "Mem" ELSE "Reg"
      /\ RawDef(n, j).kind # "Reg" =>
           op.kind = IF RawDef(n, j).kind = "Addr" THEN "Near" ELSE RawDef(n, j).kind
  BY VisibleOps
<1>2. RawDef(n, j).kind = "Reg"
  BY <1>1
<1>3. QED
  BY <1>1, <1>2

\* The addition to the stack pointer of a slot reads and writes it by the tables, and
\* is in no third slot.
LEMMA DeltaByTables ==
  ASSUME DecodeInv, NEW n \in Decoded, sp_delta(slots[n]) # {}
  PROVE  /\ n # 3
         /\ SP_REG \in SlotRegs(n, "READ") /\ SP_REG \in SlotRegs(n, "WRITE")
<1> DEFINE N    == OpcodeOf(n).num_operands
           V    == VisibleRaw(OpcodeOf(n))
           ops  == slots[n].ops
           i    == slots[n].itype
           pipe == PipeOf(n)
<1>1. /\ NameOf(slots[n]) \in Additions
      /\ 1 \in DOMAIN ops /\ ops[1].kind = "Reg" /\ ops[1].reg = SP_REG
      /\ 2 \in DOMAIN ops /\ ops[2].kind = "Reg" /\ ops[2].reg = SP_REG
  <2>1. /\ NameOf(slots[n]) \in Additions
        /\ HasReg(slots[n], 1) /\ ops[1].reg = SP_REG
        /\ HasReg(slots[n], 2) /\ ops[2].reg = SP_REG
    BY DEF sp_delta
  <2>2. \A v : HasReg(slots[n], v) => v \in DOMAIN ops /\ ops[v].kind = "Reg"
    BY DEF HasReg, OpAt, NoOp
  <2>3. QED
    BY <2>1, <2>2
<1>2. /\ i \in Having(pipe) /\ pipe \in Pipes /\ Opcodes[i].name = NameOf(slots[n])
      /\ OpcodeOf(n) = Opcodes[i] /\ N \in 0..TG_MAX_OPS
      /\ \A j \in 0..(N - 1) : RawDef(n, j) = RawOf(pipe, i, j + 1)
      /\ OpcodeOf(n).mem.disp_op \in 0..(N - 1) => OpcodeOf(n).mem.kind # "None"
  BY OpcodeFacts
<1>3. /\ pipe # 4 /\ OpcodeOf(n).mem.kind = "None"
      /\ 0 < N /\ RawOf(pipe, i, 0 + 1).kind = "Reg" => RawOf(pipe, i, 1).dest
      /\ 1 < N /\ RawOf(pipe, i, 1 + 1).kind = "Reg" => RawOf(pipe, i, 2).src
  <2> HIDE DEF i, pipe
  <2>1. /\ pipe # 4 /\ Opcodes[i].mem.kind = "None"
        /\ 0 < Opcodes[i].num_operands /\ RawOf(pipe, i, 0 + 1).kind = "Reg" => RawOf(pipe, i, 1).dest
        /\ 1 < Opcodes[i].num_operands /\ RawOf(pipe, i, 1 + 1).kind = "Reg" => RawOf(pipe, i, 2).src
    BY <1>1, <1>2, PrologueAssumption, Zenon
  <2>2. QED
    BY <1>2, <2>1
<1>4. n # 3
  <2>1. n \in 1..Len(PipesOf(raw))
    BY DecodedFits
  <2> SUFFICES ASSUME n = 3 PROVE FALSE
    OBVIOUS
  <2>2. PipesOf(raw) = <<2, 3, 4>>
    BY <2>1 DEF PipesOf
  <2>3. QED
    BY <1>3, <2>2 DEF PipeOf
<1>5. /\ DOMAIN ops \subseteq 1..4
      /\ \A v \in DOMAIN ops : V[v] \in 0..(N - 1)
      /\ \A u, v \in DOMAIN ops : u < v => V[u] < V[v]
  BY VisibleOps DEF TG_MAX_OPS
<1>6. \A j \in 0..(N - 1) : \E v \in DOMAIN ops : V[v] = j
  <2>1. OpcodeOf(n).mem.disp_op \notin 0..(N - 1)
    BY <1>2, <1>3
  <2>2. \A j \in 0..(N - 1) : \E v \in DOMAIN V : V[v] = j
    BY <1>2, <2>1, VisibleFacts
  <2>3. DOMAIN ops = DOMAIN V
    BY VisibleOps
  <2>4. QED
    BY <2>2, <2>3
<1>7. /\ RawDef(n, V[1]).kind = "Reg" /\ ShownValue(n, V[1]) = SP_REG
      /\ RawDef(n, V[2]).kind = "Reg" /\ ShownValue(n, V[2]) = SP_REG
  BY <1>1, RegShown
<1> HIDE DEF V, ops, N, i, pipe
<1>8. N \in Nat /\ V[1] \in 0..(N - 1) /\ V[2] \in 0..(N - 1) /\ V[1] < V[2]
  <2>1. 1 < 2
    OBVIOUS
  <2>2. QED
    BY <1>1, <1>2, <1>5, <2>1 DEF TG_MAX_OPS
<1>9. 0 \in 0..(N - 1) /\ 1 \in 0..(N - 1) /\ 0 < N /\ 1 < N
  BY <1>8
<1>10. V[1] = 0
  <2>1. PICK v \in DOMAIN ops : V[v] = 0
    BY <1>6, <1>9
  <2>2. v \in 1..4 /\ (1 < v => V[1] < 0)
    BY <1>1, <1>5, <2>1
  <2>3. v = 1
    BY <1>8, <2>2
  <2>4. QED
    BY <2>1, <2>3
<1>11. V[2] = 1
  <2>1. PICK v \in DOMAIN ops : V[v] = 1
    BY <1>6, <1>9
  <2>2. v \in 1..4 /\ (2 < v => V[2] < 1) /\ v # 1
    BY <1>1, <1>5, <1>10, <2>1
  <2>3. v = 2
    BY <1>8, <1>10, <2>2
  <2>4. QED
    BY <2>1, <2>3
<1>12. RawDef(n, 0).dest /\ RawDef(n, 1).src
  <2>1. RawDef(n, 0) = RawOf(pipe, i, 0 + 1) /\ RawDef(n, 1) = RawOf(pipe, i, 1 + 1)
    BY <1>2, <1>9
  <2>2. 0 + 1 = 1 /\ 1 + 1 = 2
    OBVIOUS
  <2>3. RawOf(pipe, i, 0 + 1).kind = "Reg" /\ RawOf(pipe, i, 1 + 1).kind = "Reg"
    BY <1>7, <1>10, <1>11, <2>1
  <2>4. QED
    BY <1>3, <1>9, <2>1, <2>2, <2>3
<1>13. SP_REG \in SlotRegs(n, "WRITE")
  <2>1. "WRITE" \in Roles(RawDef(n, 0)) /\ RawDef(n, 0).kind = "Reg" /\ ShownValue(n, 0) = SP_REG
    BY <1>7, <1>10, <1>12 DEF Roles
  <2>2. QED
    BY <1>9, <2>1 DEF SlotRegs, N
<1>14. SP_REG \in SlotRegs(n, "READ")
  <2>1. "READ" \in Roles(RawDef(n, 1)) /\ RawDef(n, 1).kind = "Reg" /\ ShownValue(n, 1) = SP_REG
    BY <1>7, <1>11, <1>12 DEF Roles
  <2>2. QED
    BY <1>9, <2>1 DEF SlotRegs, N
<1>15. QED
  BY <1>4, <1>13, <1>14

\* A store to the stack has one register besides its base, and reads it.
LEMMA StoreByTables ==
  ASSUME DecodeInv, NEW n \in Decoded, StoresToStack(slots[n])
  PROVE  /\ OpcodeOf(n).mem.kind = "Write"
         /\ \A v \in DOMAIN slots[n].ops : slots[n].ops[v].kind = "Reg" =>
              /\ slots[n].ops[v].reg \in SlotRegs(n, "READ")
              /\ \A u \in DOMAIN slots[n].ops : slots[n].ops[u].kind = "Reg" => u = v
<1> DEFINE N    == OpcodeOf(n).num_operands
           V    == VisibleRaw(OpcodeOf(n))
           ops  == slots[n].ops
           i    == slots[n].itype
           pipe == PipeOf(n)
           mem  == OpcodeOf(n).mem
<1>1. /\ i \in Having(pipe) /\ pipe \in Pipes /\ Opcodes[i].name = NameOf(slots[n])
      /\ OpcodeOf(n) = Opcodes[i] /\ N \in 0..4
      /\ \A j \in 0..(N - 1) : RawDef(n, j) = RawOf(pipe, i, j + 1)
  BY OpcodeFacts DEF TG_MAX_OPS
<1>2. NameOf(slots[n]) \in Stores
  BY DEF StoresToStack
<1>3. /\ mem.kind = "Write"
      /\ \A j, k \in 0..3 \ {mem.base_op} :
           (/\ j < N /\ RawOf(pipe, i, j + 1).kind = "Reg"
            /\ k < N /\ RawOf(pipe, i, k + 1).kind = "Reg")
             => (j = k /\ RawOf(pipe, i, j + 1).src)
  <2> HIDE DEF i, pipe
  <2>1. Opcodes[i].name \in Stores
    BY <1>1, <1>2
  <2>2. Opcodes[i].mem.kind = "Write"
    BY <1>1, <2>1, PrologueAssumption, Zenon
  <2>3. ASSUME NEW j \in 0..3 \ {Opcodes[i].mem.base_op}, NEW k \in 0..3 \ {Opcodes[i].mem.base_op},
               j < Opcodes[i].num_operands, RawOf(pipe, i, j + 1).kind = "Reg",
               k < Opcodes[i].num_operands, RawOf(pipe, i, k + 1).kind = "Reg"
        PROVE  j = k /\ RawOf(pipe, i, j + 1).src
    <3>1. j = k
      BY <1>1, <2>1, <2>3, PrologueAssumption, SMTT(30)
    <3>2. RawOf(pipe, i, j + 1).src
      BY <1>1, <2>1, <2>3, PrologueAssumption, Zenon
    <3>3. QED
      BY <3>1, <3>2
  <2>4. mem = Opcodes[i].mem /\ N = Opcodes[i].num_operands
    BY <1>1
  <2>5. QED
    BY <2>2, <2>3, <2>4
<1>4. \A v \in DOMAIN ops : ops[v].kind = "Reg" =>
        /\ V[v] \in 0..(N - 1) /\ RawDef(n, V[v]).kind = "Reg"
        /\ ops[v].reg = ShownValue(n, V[v])
        /\ ~(mem.kind # "None" /\ V[v] = mem.base_op)
  BY RegShown
<1>5. \A u, v \in DOMAIN ops : V[u] = V[v] => u = v
  BY VisibleOps
<1> HIDE DEF V, ops, N, i, pipe, mem
<1>6. \A v \in DOMAIN ops : ops[v].kind = "Reg" =>
        /\ V[v] \in 0..3 \ {mem.base_op} /\ V[v] < N /\ V[v] \in 0..(N - 1)
        /\ RawOf(pipe, i, V[v] + 1).kind = "Reg" /\ RawDef(n, V[v]) = RawOf(pipe, i, V[v] + 1)
  <2> TAKE v \in DOMAIN ops
  <2> HAVE ops[v].kind = "Reg"
  <2>1. V[v] \in 0..(N - 1) /\ V[v] # mem.base_op
    BY <1>3, <1>4
  <2>2. V[v] \in 0..3 /\ V[v] < N
    BY <1>1, <2>1
  <2>3. QED
    BY <1>1, <1>4, <2>1, <2>2
<1>7. ASSUME NEW v \in DOMAIN ops, ops[v].kind = "Reg"
      PROVE  /\ ops[v].reg \in SlotRegs(n, "READ")
             /\ \A u \in DOMAIN ops : ops[u].kind = "Reg" => u = v
  <2>1. RawDef(n, V[v]).src
    BY <1>3, <1>6, <1>7
  <2>2. "READ" \in Roles(RawDef(n, V[v]))
    BY <2>1 DEF Roles
  <2>3. ops[v].reg \in SlotRegs(n, "READ")
    BY <1>4, <1>7, <2>2 DEF SlotRegs, N
  <2>4. \A u \in DOMAIN ops : ops[u].kind = "Reg" => u = v
    <3> TAKE u \in DOMAIN ops
    <3> HAVE ops[u].kind = "Reg"
    <3>1. V[u] = V[v]
      BY <1>3, <1>6, <1>7
    <3>2. QED
      BY <1>5, <3>1
  <2>5. QED
    BY <2>3, <2>4
<1>8. QED
  BY <1>3, <1>7 DEF ops, mem

\* The register that a store saves is the one that it shows.
LEMMA StackStore ==
  ASSUME DecodeInv, NEW n \in Decoded
  PROVE  /\ stack_store_reg(slots[n]) # {} => StoresToStack(slots[n])
         /\ \A r \in stack_store_reg(slots[n]) :
              \E v \in DOMAIN slots[n].ops : slots[n].ops[v].kind = "Reg" /\ slots[n].ops[v].reg = r
         /\ stores_link_to_stack(slots[n]) => stack_store_reg(slots[n]) = {LR_REG}
<1> DEFINE ops  == slots[n].ops
           regs == {u \in DOMAIN ops : HasReg(slots[n], u)}
           m    == Min(regs)
           kept == stack_store_reg(slots[n])
<1>1. /\ StoresToStack(slots[n]) /\ regs # {} => kept = {ops[m].reg}
      /\ ~(StoresToStack(slots[n]) /\ regs # {}) => kept = {}
  <2>1. kept = IF StoresToStack(slots[n]) THEN {ops[Min(s)].reg : s \in {regs} \ {{}}} ELSE {}
    BY DEF stack_store_reg
  <2> HIDE DEF kept, ops, regs
  <2>2. regs # {} => {regs} \ {{}} = {regs}
    OBVIOUS
  <2>3. regs = {} => {regs} \ {{}} = {}
    OBVIOUS
  <2>4. QED
    BY <2>1, <2>2, <2>3
<1>2. DOMAIN ops \subseteq 1..TG_MAX_OPS
  BY VisibleOps
<1>3. regs # {} => m \in regs
  <2>1. regs \in SUBSET Nat
    BY <1>2
  <2> HIDE DEF regs
  <2>2. regs # {} => \E x \in regs : \A y \in regs : x <= y
    BY <2>1, LeastNat
  <2>3. QED
    BY <2>2 DEF Min
<1>4. \A u \in regs : u \in DOMAIN ops /\ ops[u].kind = "Reg"
  BY DEF HasReg, OpAt
<1>5. stores_link_to_stack(slots[n]) => kept = {LR_REG}
  <2> SUFFICES ASSUME stores_link_to_stack(slots[n]) PROVE kept = {LR_REG}
    OBVIOUS
  <2>1. StoresToStack(slots[n]) /\ LR_REG \in StoredRegs(slots[n])
    BY DEF stores_link_to_stack
  <2>2. PICK u \in DOMAIN ops : ops[u].kind = "Reg" /\ ops[u].reg = LR_REG
    BY <2>1 DEF StoredRegs
  <2>3. LR_REG < NUM_GPRS
    <3>1. LR_REG \in 0..63 /\ NUM_GPRS \in Nat /\ NUM_GPRS >= 64
      BY AccessAssumption
    <3>2. QED
      BY <3>1
  <2>4. u \in regs
    BY <2>2, <2>3 DEF HasReg, OpAt
  <2>5. \A w \in DOMAIN ops : ops[w].kind = "Reg" => w = u
    BY <2>1, <2>2, StoreByTables
  <2> HIDE DEF regs, m, ops, kept
  <2>6. m = u
    BY <1>3, <1>4, <2>4, <2>5
  <2>7. QED
    BY <1>1, <2>1, <2>2, <2>4, <2>6
<1> HIDE DEF regs, m, ops, kept
<1>6. \A r \in kept : \E v \in DOMAIN ops : ops[v].kind = "Reg" /\ ops[v].reg = r
  BY <1>1, <1>3, <1>4
<1>7. QED
  BY <1>1, <1>5, <1>6 DEF ops, kept

\* A prologue that the scan finds is one by the tables.
LEMMA InvPrologue == IInv => PrologueByTables
<1> SUFFICES ASSUME IInv PROVE PrologueByTables
  OBVIOUS
<1>1. DecodeInv
  BY DEF IInv
<1>2. ASSUME NEW k \in DOMAIN listed
      PROVE  Cardinality({n \in listed[k].row.slots : sp_delta(slots[n]) # {}}) <= 1
  <2> DEFINE row   == listed[k].row
             order == InOrder(row)
             D     == {n \in row.slots : sp_delta(slots[n]) # {}}
  <2>1. row.slots \subseteq Decoded
    BY RowOfDecoded
  <2>2. /\ Len(order) \in {1, 2}
        /\ \A n \in row.slots : \E i \in 1..Len(order) : order[i] = n
        /\ row.slots \subseteq 1..3 /\ (Len(order) = 2 => 1 \notin row.slots)
    BY RowOrder
  <2>3. \A n \in D : n \in row.slots /\ n # 3
    BY <1>1, <2>1, DeltaByTables
  <2> HIDE DEF row, order, D
  <2>4. \E x : D \subseteq {x}
    <3>1. CASE Len(order) = 1
      <4>1. \A n \in D : n = order[1]
        BY <2>2, <2>3, <3>1
      <4>2. QED
        BY <4>1
    <3>2. CASE Len(order) = 2
      <4>1. D \subseteq {2}
        BY <2>2, <2>3, <3>2
      <4>2. QED
        BY <4>1
    <3>3. QED
      BY <2>2, <3>1, <3>2
  <2>5. PICK x : D \subseteq {x}
    BY <2>4
  <2>6. IsFiniteSet({x}) /\ Cardinality({x}) = 1
    BY FS_Singleton
  <2>7. IsFiniteSet(D) /\ Cardinality(D) <= Cardinality({x})
    BY <2>5, <2>6, FS_Subset
  <2>8. QED
    BY <2>6, <2>7 DEF D, row
<1>3. ASSUME NEW n \in Decoded
      PROVE  /\ stack_store_reg(slots[n]) # {} =>
                  /\ OpcodeOf(n).mem.kind = "Write"
                  /\ stack_store_reg(slots[n]) \subseteq TableRegs([slots |-> {n}], "src")
             /\ stores_link_to_stack(slots[n]) => stack_store_reg(slots[n]) = {LR_REG}
             /\ sp_delta(slots[n]) # {} =>
                  SP_REG \in TableRegs([slots |-> {n}], "src") \cap TableRegs([slots |-> {n}], "dest")
  <2> DEFINE row == [slots |-> {n}]
  <2>1. /\ TableRegs(row, "src") = SlotRegs(n, "READ")
        /\ TableRegs(row, "dest") = SlotRegs(n, "WRITE")
    <3>1. row.slots = {n} /\ row.slots \subseteq Decoded
      OBVIOUS
    <3> HIDE DEF row
    <3>2. /\ TableRegs(row, "src") = UNION {SlotRegs(k, "READ") : k \in row.slots}
          /\ TableRegs(row, "dest") = UNION {SlotRegs(k, "WRITE") : k \in row.slots}
      BY <1>1, <3>1, TableRegsAre
    <3>3. \A A, x : UNION {SlotRegs(k, x) : k \in {n}} = SlotRegs(n, x)
      OBVIOUS
    <3>4. QED
      BY <3>1, <3>2, <3>3
  <2>2. stack_store_reg(slots[n]) # {} =>
          /\ OpcodeOf(n).mem.kind = "Write"
          /\ stack_store_reg(slots[n]) \subseteq TableRegs(row, "src")
    BY <1>1, <2>1, StackStore, StoreByTables
  <2>3. stores_link_to_stack(slots[n]) => stack_store_reg(slots[n]) = {LR_REG}
    BY <1>1, StackStore
  <2>4. sp_delta(slots[n]) # {} =>
          SP_REG \in TableRegs(row, "src") \cap TableRegs(row, "dest")
    BY <1>1, <2>1, DeltaByTables
  <2>5. QED
    BY <2>2, <2>3, <2>4
<1>4. QED
  BY <1>2, <1>3 DEF PrologueByTables

-----------------------------------------------------------------------------
(* Theorems. *)

\* Decoder and listing go through a bundle pipe by pipe and row by row: every slot is
\* the best match of its pipe or empty, and every row listed is the one that row_at
\* has for its offset (decode_bundle, DecodedRow::decode).
THEOREM Listing == RowSpec => []IInv
  BY ListStart, StepKeeps, PTL DEF RowSpec

\* Two slots of a bundle have no bit in common but those that choose the format, for
\* all words (decode_bundle).
THEOREM PipesIndependent == RowSpec => []SlotsApart
  BY Listing, InvSlotsApart, PTL DEF IInv

\* Opcodes that tie for a pipe are one instruction under two names (decode_pipe).
THEOREM TiesAreAliases == RowSpec => []OnlyAliasesTie
  BY Listing, InvAliases, PTL DEF IInv

\* The operand roles of the first pipe that has an opcode are those of the pipe that a
\* slot was decoded in (operand_def).
THEOREM RolesOfAnyPipe == RowSpec => []RolesShared
  BY Listing, InvRoles, PTL DEF IInv

\* The rows that a walk over a bundle lists are all its rows, without gap or overlap,
\* with every slot in one of them (row_at, code_rows, row_slots).
THEOREM RowsDoTile == RowSpec => []RowsTile
  BY Listing, InvTiles, PTL

\* A walk that ends at a stop has shown every slot of the bundle, unless the first pipe did
\* not decode and the second one stops: then it hides the third (falls_through, row_slots).
THEOREM StopHidesExactly == RowSpec => []StopHides
  BY Listing, InvStopHides, PTL

\* The flags of a row are the control flow of its slots by the tables, and no row holds
\* two instructions that change it (row_flags).
THEOREM FlagsAreCflow == RowSpec => []FlagsMatchCflow
  BY Listing, InvFlags, PTL

\* The rows of a bundle are filler together or not at all (row_align_size).
THEOREM FillerIsWhole == RowSpec => []FillerWhole
  BY Listing, InvFiller, PTL

\* Nothing is lost in decoding: what a slot shows, put together again by the tables with
\* sign, scale and address undone, is the word's bits for its pipe, and every value is in
\* the range of its field (extract_operand, visible_operands).
THEOREM DecodeLosesNothing == RowSpec => []RoundTrip
  BY Listing, InvRoundTrip, PTL DEF IInv

\* A row reports exactly the targets that its slots encode, with their values, each once, as
\* a call only if a call encodes it, and aligned to a bundle (refs_for).
THEOREM RefsAreExact == RowSpec => []RefsExact
  BY Listing, InvRefs, PTL

\* The registers that a row is said to read and to write are those that its slots read and
\* write by the tables: merging entries and the limit of sixteen lose none, and none is
\* invented (row_reg_accesses, RegAccessBuilder).
THEOREM AccessesAreExact == RowSpec => []AccessesExact
  BY Listing, InvAccesses, PTL

\* What is taken for a prologue is one by the tables: a saved register is the source of a
\* store, a frame adjustment reads and writes the stack pointer, and the slots of a row
\* adjust it once at most (stack_store_reg, sp_delta, stores_link_to_stack).
THEOREM PrologueIsByTables == RowSpec => []PrologueByTables
  BY Listing, InvPrologue, PTL
=============================================================================
