---------------------------- MODULE FramesProofs ----------------------------
(***************************************************************************)
(* What the events on a frame keep true for every function, every limit of *)
(* the prologue scan and every width of its counters.                      *)
(***************************************************************************)
EXTENDS Frames, TLAPS, FiniteSetTheorems, WellFoundedInduction

ScanType ==
  scan \in [next : Nat, offset : Nat, current : Int, min : Int, frame_size : Int,
            fp : BOOLEAN, saved : BOOLEAN]

\* A row has at least 4 bytes and moves sp by one immediate at most, so four times
\* the sum of a scan is bounded by the bytes that it has read, and by its limit.
Bounded(sum) ==
  /\ -(scan.offset * IMM_LIMIT) <= 4 * sum /\ 4 * sum <= scan.offset * IMM_LIMIT
  /\ -(PROLOG_SCAN_LIMIT * IMM_LIMIT) <= 4 * sum /\ 4 * sum <= PROLOG_SCAN_LIMIT * IMM_LIMIT

ScanInv ==
  /\ scan.offset % 4 = 0
  /\ Bounded(scan.current)
  /\ Bounded(scan.min)
  /\ scan.min <= 0
  /\ scan.frame_size + scan.min = 0

\* Until a prologue with a frame pointer is accepted, stack variables come from the
\* row for which the frame was added.
OneRowAtMost ==
  ~func_frame =>
    /\ frame = NoFrame => stack_vars = {}
    /\ \E k \in Int : stack_vars \subseteq {k}

IInv == TypeOK /\ ScanType /\ ScanInv /\ OneRowAtMost

-----------------------------------------------------------------------------
(* Arithmetic. *)

\* A product of naturals grows with its first factor: more bytes read allow for
\* more immediates (the bound on the sum of a scan).
LEMMA ProductGrows ==
  ASSUME NEW a \in Nat, NEW b \in Nat, NEW c \in Nat, a <= b
  PROVE  a * c <= b * c
<1>1. (b - a) * c >= 0
  BY SMT
<1>2. QED
  BY <1>1, SMT

\* A sum of zero is bounded, after no byte and at the limit (tg_prolog_state_reset).
LEMMA ZeroBounded ==
  /\ -(0 * IMM_LIMIT) <= 4 * 0 /\ 4 * 0 <= 0 * IMM_LIMIT
  /\ -(PROLOG_SCAN_LIMIT * IMM_LIMIT) <= 4 * 0 /\ 4 * 0 <= PROLOG_SCAN_LIMIT * IMM_LIMIT
<1>1. 0 * IMM_LIMIT <= PROLOG_SCAN_LIMIT * IMM_LIMIT
  BY WidthAssumption, ProductGrows
<1>2. 0 * IMM_LIMIT = 0
  BY WidthAssumption
<1>3. PICK p \in Int : p = PROLOG_SCAN_LIMIT * IMM_LIMIT
  BY WidthAssumption
<1>4. p >= 0
  BY <1>1, <1>2, <1>3
<1>5. -p <= 4 * 0 /\ 4 * 0 <= p
  BY <1>3, <1>4
<1>6. QED
  BY <1>2, <1>3, <1>5

\* A bounded sum is inside both counters of the code (i64 and u32).
LEMMA BoundedFits ==
  ASSUME NEW sum \in Int,
         -(PROLOG_SCAN_LIMIT * IMM_LIMIT) <= 4 * sum,
         4 * sum <= PROLOG_SCAN_LIMIT * IMM_LIMIT
  PROVE  sum \in -I64_MAX..I64_MAX /\ sum \in -U32_MAX..U32_MAX
<1>1. PICK p \in Int : p = PROLOG_SCAN_LIMIT * IMM_LIMIT
  BY WidthAssumption
<1>2. p <= 4 * I64_MAX /\ p <= 4 * U32_MAX
  BY <1>1, WidthAssumption
<1>3. QED
  BY <1>1, <1>2, WidthAssumption

-----------------------------------------------------------------------------
(* The initial states. *)

\* The invariant holds before any event (Init).
LEMMA InitInv == Init => IInv
<1> SUFFICES ASSUME Init PROVE IInv
  OBVIOUS
<1>1. TypeOK
  <2>1. body \in Seq(Row) /\ Len(body) \in Nat
    BY BodiesAssumption DEF Init
  <2>2. scan.next = 0
    BY DEF Init, Idle
  <2>3. frame = NoFrame /\ func_frame = FALSE /\ prolog_ok = FALSE
    BY DEF Init
  <2>4. (func_frame \/ prolog_ok) => frame # NoFrame
    BY <2>3
  <2>5. emulated \subseteq DOMAIN body /\ stack_vars \subseteq emulated /\ points \subseteq emulated
    BY DEF Init
  <2>6. scan.next \in 0..(Len(body) + 1)
    BY <2>1, <2>2
  <2>7. body \in Bodies /\ func_frame \in BOOLEAN /\ prolog_ok \in BOOLEAN
    BY DEF Init
  <2>8. QED
    BY <2>3, <2>4, <2>5, <2>6, <2>7 DEF TypeOK
<1>2. ScanType
  BY DEF Init, ScanType, Idle
<1>3. ScanInv
  <2>1. /\ scan.offset = 0 /\ scan.current = 0 /\ scan.min = 0 /\ scan.frame_size = 0
    BY DEF Init, Idle
  <2>2. Bounded(scan.current) /\ Bounded(scan.min)
    BY <2>1, ZeroBounded DEF Bounded
  <2>3. scan.offset % 4 = 0 /\ scan.min <= 0 /\ scan.frame_size + scan.min = 0
    BY <2>1
  <2>4. QED
    BY <2>2, <2>3 DEF ScanInv
<1>4. OneRowAtMost
  BY DEF Init, OneRowAtMost
<1>5. QED
  BY <1>1, <1>2, <1>3, <1>4 DEF IInv

-----------------------------------------------------------------------------
(* Each event. *)

\* One row of a scan keeps its sums bounded (observe_slot).
LEMMA ScanRowKeepsBounds ==
  ASSUME IInv, ScanRow
  PROVE  /\ ScanType' /\ ScanInv'
         /\ scan'.next = IF body[scan.next].ends THEN Len(body) + 1 ELSE scan.next + 1
         /\ scan'.offset = scan.offset + body[scan.next].size
         /\ scan'.current = scan.current + body[scan.next].delta
         /\ scan'.min <= scan.min /\ scan'.min <= scan'.current
<1> DEFINE row == body[scan.next]
           now == scan.current + row.delta
           lowest == IF now < scan.min THEN now ELSE scan.min
<1>1. /\ scan.next \in DOMAIN body
      /\ scan.offset < PROLOG_SCAN_LIMIT
      /\ row \in Row
  BY BodiesAssumption DEF IInv, TypeOK, ScanRow, Scanning
<1>2. /\ row.size \in {4, 8}
      /\ row.delta \in Int /\ -IMM_LIMIT <= row.delta /\ row.delta <= IMM_LIMIT
      /\ row.fp \in BOOLEAN /\ row.ends \in BOOLEAN
  BY <1>1, WidthAssumption DEF Row
<1>3. /\ scan.offset \in Nat /\ scan.current \in Int /\ scan.min \in Int
      /\ scan.fp \in BOOLEAN /\ scan.saved \in BOOLEAN /\ scan.next \in Nat
  BY DEF IInv, ScanType
<1>4. /\ IMM_LIMIT \in Nat /\ PROLOG_SCAN_LIMIT \in Nat
      /\ scan.offset + 4 <= PROLOG_SCAN_LIMIT
  BY <1>1, <1>3, WidthAssumption DEF IInv, ScanInv
<1>5. PICK read \in Int, longer \in Int, limit \in Int :
        /\ read = scan.offset * IMM_LIMIT
        /\ longer = (scan.offset + row.size) * IMM_LIMIT
        /\ limit = PROLOG_SCAN_LIMIT * IMM_LIMIT
  BY <1>2, <1>3, <1>4
<1>6. (scan.offset + 4) * IMM_LIMIT = read + 4 * IMM_LIMIT
  BY <1>3, <1>4, <1>5
<1>7. read + 4 * IMM_LIMIT <= limit
  BY <1>3, <1>4, <1>5, <1>6, ProductGrows
<1>8. read + 4 * IMM_LIMIT <= longer
  <2>1. scan.offset + 4 <= scan.offset + row.size /\ scan.offset + row.size \in Nat
    BY <1>2, <1>3
  <2>2. QED
    BY <2>1, <1>3, <1>4, <1>5, <1>6, ProductGrows
<1>9. -read <= 4 * scan.current /\ 4 * scan.current <= read
  BY <1>5 DEF IInv, ScanInv, Bounded
<1>10. -read <= 4 * scan.min /\ 4 * scan.min <= read /\ scan.min <= 0
  BY <1>5 DEF IInv, ScanInv, Bounded
<1>11. now \in Int /\ lowest \in Int /\ lowest <= 0
  BY <1>2, <1>3, <1>10
<1>12. /\ -longer <= 4 * now /\ 4 * now <= longer
       /\ -limit <= 4 * now /\ 4 * now <= limit
  BY <1>2, <1>3, <1>4, <1>5, <1>7, <1>8, <1>9
<1>13. /\ -longer <= 4 * lowest /\ 4 * lowest <= longer
       /\ -limit <= 4 * lowest /\ 4 * lowest <= limit
  <2>1. CASE now < scan.min
    BY <2>1, <1>12
  <2>2. CASE ~(now < scan.min)
    BY <2>2, <1>2, <1>3, <1>4, <1>5, <1>7, <1>8, <1>10
  <2>3. QED
    BY <2>1, <2>2
<1>14. now \in -I64_MAX..I64_MAX /\ lowest \in -I64_MAX..I64_MAX /\ lowest \in -U32_MAX..U32_MAX
  BY <1>5, <1>11, <1>12, <1>13, BoundedFits
<1>15. SaturatingAdd(scan.current, row.delta) = now
  BY <1>2, <1>3, <1>14, WidthAssumption DEF SaturatingAdd
<1>16. ToU32(SaturatingNeg(lowest)) = -lowest
  BY <1>11, <1>14, WidthAssumption DEF ToU32, SaturatingNeg
<1>17. observe(scan, row) = [scan EXCEPT !.fp = @ \/ row.fp, !.saved = @ \/ row.stack = "store",
                                         !.current = now, !.min = lowest, !.frame_size = -lowest]
  BY <1>15, <1>16 DEF observe
<1>18. scan' = [[scan EXCEPT !.fp = @ \/ row.fp, !.saved = @ \/ row.stack = "store",
                             !.current = now, !.min = lowest, !.frame_size = -lowest]
                 EXCEPT !.next = IF row.ends THEN Len(body) + 1 ELSE @ + 1,
                        !.offset = @ + row.size]
  BY <1>17 DEF ScanRow
<1>19. /\ scan'.next = IF row.ends THEN Len(body) + 1 ELSE scan.next + 1
       /\ scan'.offset = scan.offset + row.size
       /\ scan'.current = now /\ scan'.min = lowest /\ scan'.frame_size = -lowest
  BY <1>18 DEF IInv, ScanType
<1>20. scan' \in [next : Nat, offset : Nat, current : Int, min : Int, frame_size : Int,
                  fp : BOOLEAN, saved : BOOLEAN]
  <2>1. Len(body) \in Nat
    BY BodiesAssumption DEF IInv, TypeOK
  <2>2. (IF row.ends THEN Len(body) + 1 ELSE scan.next + 1) \in Nat
    BY <2>1, <1>3
  <2>3. scan.offset + row.size \in Nat
    BY <1>2, <1>3
  <2>4. -lowest \in Int
    BY <1>11
  <2> HIDE DEF now, lowest, row
  <2>5. QED
    BY <1>11, <1>18, <2>2, <2>3, <2>4 DEF IInv, ScanType
<1>21. scan'.offset % 4 = 0
  BY <1>2, <1>3, <1>19 DEF IInv, ScanInv
<1>22. Bounded(scan.current)' /\ Bounded(scan.min)'
  <2> HIDE DEF now, lowest, row
  <2>1. QED
    BY <1>5, <1>12, <1>13, <1>19 DEF Bounded
<1>23. scan'.min <= 0 /\ scan'.frame_size + scan'.min = 0
  BY <1>11, <1>19
<1>24. scan'.min <= scan.min /\ scan'.min <= scan'.current
  BY <1>3, <1>11, <1>19
<1>25. QED
  BY <1>19, <1>20, <1>21, <1>22, <1>23, <1>24 DEF ScanType, ScanInv

\* Every event keeps the invariant (scan_prolog, analyze_prolog,
\* ev_create_func_frame, create_stack_vars).
LEMMA StepInv == IInv /\ [Next]_vars => IInv'
<1> SUFFICES ASSUME IInv, [Next]_vars PROVE IInv'
  OBVIOUS
<1> USE DEF IInv
<1>0. body \in Seq(Row) /\ Len(body) \in Nat /\ DOMAIN body = 1..Len(body)
  BY BodiesAssumption DEF TypeOK
<1>1. CASE BeginScan
  <2>1. ScanType' /\ scan'.next = 1
    BY <1>1 DEF BeginScan, Reset, Idle, ScanType
  <2>2. ScanInv'
    <3>1. /\ scan'.offset = 0 /\ scan'.current = 0 /\ scan'.min = 0 /\ scan'.frame_size = 0
      BY <1>1 DEF BeginScan, Reset, Idle
    <3>2. Bounded(scan.current)' /\ Bounded(scan.min)'
      BY <3>1, ZeroBounded DEF Bounded
    <3>3. scan'.offset % 4 = 0 /\ scan'.min <= 0 /\ scan'.frame_size + scan'.min = 0
      BY <3>1
    <3>4. QED
      BY <3>2, <3>3 DEF ScanInv
  <2>3. TypeOK'
    BY <1>0, <1>1, <2>1 DEF BeginScan, TypeOK
  <2>4. OneRowAtMost'
    BY <1>1 DEF BeginScan, OneRowAtMost
  <2>5. QED
    BY <2>1, <2>2, <2>3, <2>4
<1>2. CASE ScanRow
  <2>1. ScanType' /\ ScanInv'
    BY <1>2, ScanRowKeepsBounds
  <2>2. scan'.next \in 0..(Len(body) + 1)
    BY <1>0, <1>2 DEF ScanRow, Scanning, observe, TypeOK, ScanType
  <2>3. TypeOK'
    BY <1>2, <2>2 DEF ScanRow, TypeOK
  <2>4. OneRowAtMost'
    BY <1>2 DEF ScanRow, OneRowAtMost
  <2>5. QED
    BY <2>1, <2>3, <2>4
<1>3. CASE FinishProlog
  <2>1. scan' = Idle
    BY <1>3 DEF FinishProlog
  <2>2. ScanType' /\ scan'.next = 0
    BY <2>1 DEF Idle, ScanType
  <2>3. ScanInv'
    <3>1. /\ scan'.offset = 0 /\ scan'.current = 0 /\ scan'.min = 0 /\ scan'.frame_size = 0
      BY <2>1 DEF Idle
    <3>2. Bounded(scan.current)' /\ Bounded(scan.min)'
      BY <3>1, ZeroBounded DEF Bounded
    <3>3. scan'.offset % 4 = 0 /\ scan'.min <= 0 /\ scan'.frame_size + scan'.min = 0
      BY <3>1
    <3>4. QED
      BY <3>2, <3>3 DEF ScanInv
  <2>4. scan.frame_size \in Nat
    BY DEF ScanType, ScanInv
  <2>5. TypeOK'
    <3>1. frame' = frame \/ frame' \in Nat
      BY <1>3, <2>4 DEF FinishProlog, FrameFor
    <3>2. func_frame' \in BOOLEAN /\ prolog_ok' \in BOOLEAN
      BY <1>3 DEF FinishProlog, TypeOK, ScanType
    <3>3. (func_frame' \/ prolog_ok') => frame' # NoFrame
      BY <1>3, <2>4 DEF FinishProlog, FrameFor, TypeOK, NoFrame
    <3>4. QED
      BY <1>0, <1>3, <2>2, <3>1, <3>2, <3>3 DEF FinishProlog, TypeOK
  <2>6. OneRowAtMost'
    BY <1>3, <2>4 DEF FinishProlog, FrameFor, OneRowAtMost, TypeOK, NoFrame, ScanType
  <2>7. QED
    BY <2>2, <2>3, <2>5, <2>6
<1>4. CASE CreateFuncFrame
  BY <1>4 DEF CreateFuncFrame, CanAddFrame, TypeOK, ScanType, ScanInv, Bounded, OneRowAtMost, NoFrame
<1>5. ASSUME NEW k \in DOMAIN body, NEW trace \in BOOLEAN, NEW create \in BOOLEAN,
             EmuRow(k, trace, create)
      PROVE  IInv'
  <2>1. ScanType' /\ ScanInv'
    BY <1>5 DEF EmuRow, ScanType, ScanInv, Bounded
  <2>2. emulated' = emulated \cup {k} /\ stack_vars' \subseteq stack_vars \cup {k}
          /\ points' \subseteq points \cup {k}
    BY <1>5 DEF EmuRow
  <2>3. TypeOK'
    BY <1>5, <2>2 DEF EmuRow, CanAddFrame, TypeOK, NoFrame
  <2>4. OneRowAtMost'
    <3>1. CASE func_frame
      BY <1>5, <3>1 DEF EmuRow, OneRowAtMost
    <3>2. CASE ~func_frame /\ frame = NoFrame
      BY <1>0, <1>5, <3>2 DEF EmuRow, CanAddFrame, VarsReady, OneRowAtMost, NoFrame
    <3>3. CASE ~func_frame /\ frame # NoFrame
      BY <1>5, <3>3 DEF EmuRow, CanAddFrame, VarsReady, OneRowAtMost
    <3>4. QED
      BY <3>1, <3>2, <3>3
  <2>5. QED
    BY <2>1, <2>3, <2>4
<1>6. CASE Enlarge
  BY <1>6 DEF Enlarge, TypeOK, ScanType, ScanInv, Bounded, OneRowAtMost, NoFrame
<1>7. CASE UNCHANGED vars
  BY <1>7 DEF vars, TypeOK, ScanType, ScanInv, Bounded, OneRowAtMost
<1>8. QED
  BY <1>1, <1>2, <1>3, <1>4, <1>5, <1>6, <1>7 DEF Next

\* In every reachable state the sums of a scan are bounded by what it has read, and
\* without a frame pointer the stack variables are those of one row.
THEOREM FrameInvariant == Spec => []IInv
<1>1. QED
  BY InitInv, StepInv, PTL DEF Spec

-----------------------------------------------------------------------------
(* What follows from it. *)

\* For every function, the scan neither saturates nor cuts a size (observe_slot).
THEOREM ScanNeverSaturates == Spec => []NeverSaturates
<1>1. IInv => NeverSaturates
  <2> SUFFICES ASSUME IInv PROVE NeverSaturates
    OBVIOUS
  <2>1. scan.current \in Int /\ scan.min \in Int
    BY DEF IInv, ScanType
  <2>2. scan.current \in -I64_MAX..I64_MAX
    BY <2>1, BoundedFits DEF IInv, ScanInv, Bounded
  <2>3. scan.min \in -I64_MAX..I64_MAX
    BY <2>1, BoundedFits DEF IInv, ScanInv, Bounded
  <2>4. scan.frame_size = -scan.min
    <3>1. scan.frame_size \in Int /\ scan.frame_size + scan.min = 0
      BY DEF IInv, ScanType, ScanInv
    <3>2. QED
      BY <2>1, <3>1
  <2>5. scan.min \in -I64_MAX..0
    <3>1. scan.min <= 0
      BY DEF IInv, ScanInv
    <3>2. QED
      BY <2>1, <2>3, <3>1, WidthAssumption
  <2>6. QED
    BY <2>2, <2>4, <2>5 DEF NeverSaturates
<1>2. QED
  BY <1>1, FrameInvariant, PTL

\* For every function, one row at most has stack variables before the flag
\* FUNC_FRAME is set (create_stack_vars).
THEOREM VarsOfOneRow == Spec => []VarsNeedFramePointer
<1>1. IInv => VarsNeedFramePointer
  <2> SUFFICES ASSUME IInv, ~func_frame PROVE Cardinality(stack_vars) <= 1
    BY DEF VarsNeedFramePointer
  <2>1. PICK k \in Int : stack_vars \subseteq {k}
    BY DEF IInv, OneRowAtMost
  <2>2. stack_vars = {} \/ stack_vars = {k}
    BY <2>1
  <2>3. QED
    <3>1. Cardinality({}) = 0 /\ Cardinality({k}) = 1
      BY FS_EmptySet, FS_Singleton
    <3>2. QED
      BY <2>2, <3>1
<1>2. QED
  BY <1>1, FrameInvariant, PTL

\* For every function and every order of events, the size of a frame only grows
\* (analyze_prolog, ev_create_func_frame, create_stack_vars).
THEOREM FrameGrows == Spec => FrameOnlyGrows
<1>1. IInv /\ [Next]_vars => [frame' >= frame]_vars
  <2> SUFFICES ASSUME IInv, Next PROVE frame' >= frame
    OBVIOUS
  <2>1. frame \in Int /\ frame >= NoFrame
    BY DEF IInv, TypeOK, NoFrame
  <2>2. scan.frame_size \in Nat
    BY DEF IInv, ScanType, ScanInv
  <2>3. CASE FinishProlog
    BY <2>1, <2>2, <2>3 DEF FinishProlog, FrameFor, NoFrame
  <2>4. CASE CreateFuncFrame
    BY <2>4 DEF CreateFuncFrame, CanAddFrame, NoFrame
  <2>5. ASSUME NEW k \in DOMAIN body, NEW trace \in BOOLEAN, NEW create \in BOOLEAN,
               EmuRow(k, trace, create)
        PROVE  frame' >= frame
    BY <2>1, <2>5 DEF EmuRow, CanAddFrame, NoFrame
  <2>6. CASE Enlarge
    BY <2>1, <2>6 DEF Enlarge
  <2>7. CASE BeginScan \/ ScanRow
    BY <2>1, <2>7 DEF BeginScan, ScanRow
  <2>8. QED
    BY <2>3, <2>4, <2>5, <2>6, <2>7 DEF Next
<1>2. QED
  BY <1>1, FrameInvariant, PTL DEF Spec, FrameOnlyGrows

-----------------------------------------------------------------------------
(* Sums over the rows. *)

\* A nonempty set of naturals has a least element.
LEMMA LeastNat ==
  ASSUME NEW S \in SUBSET Nat, S # {}
  PROVE  \E x \in S : \A y \in S : x <= y
<1>1. \E x \in S : \A y \in S : ~(<<y, x>> \in OpToRel(<, Nat))
  BY NatLessThanWellFounded, WFMin, Zenon
<1>2. \A x, y \in Nat : y < x => <<y, x>> \in OpToRel(<, Nat)
  BY Zenon DEF OpToRel
<1>3. \E x \in S : \A y \in S : ~(y < x)
  BY <1>1, <1>2, Zenon
<1>4. QED
  BY <1>3

IsSums(f, numbers, n) ==
  f = [k \in 0..n |-> IF k = 0 THEN 0 ELSE f[k - 1] + numbers[k]]

\* The recursive definition of the sums has a solution.
LEMMA SumsExist ==
  ASSUME NEW numbers, NEW n \in Nat
  PROVE  \E f : IsSums(f, numbers, n)
<1> DEFINE Bad == {m \in Nat : ~\E f : IsSums(f, numbers, m)}
<1> SUFFICES ASSUME Bad # {} PROVE FALSE
  OBVIOUS
<1>1. PICK m \in Bad : \A k \in Bad : m <= k
  BY LeastNat, Bad \in SUBSET Nat
<1>2. m # 0
  <2> DEFINE f == [k \in 0..0 |-> 0]
  <2>1. f = [k \in 0..0 |-> IF k = 0 THEN 0 ELSE f[k - 1] + numbers[k]]
    OBVIOUS
  <2>2. IsSums(f, numbers, 0)
    BY <2>1, Zenon DEF IsSums
  <2>3. QED
    BY <1>1, <2>2
<1>3. PICK f : IsSums(f, numbers, m - 1)
  BY <1>1, <1>2
<1> DEFINE g == [k \in 0..m |-> IF k = m THEN f[m - 1] + numbers[m] ELSE f[k]]
<1>4. m \in Nat \ {0}
  BY <1>1, <1>2
<1>5. \A k \in 0..(m - 1) : f[k] = IF k = 0 THEN 0 ELSE f[k - 1] + numbers[k]
  BY <1>3 DEF IsSums
<1>6. \A k \in 0..(m - 1) : g[k] = f[k]
  BY <1>4
<1>7. g[m] = f[m - 1] + numbers[m]
  BY <1>4
<1>8. ASSUME NEW k \in 0..m
      PROVE  g[k] = IF k = 0 THEN 0 ELSE g[k - 1] + numbers[k]
  <2> HIDE DEF g
  <2>1. CASE k = m
    <3>1. g[m - 1] = f[m - 1]
      BY <1>4, <1>6
    <3>2. QED
      BY <1>4, <1>7, <2>1, <3>1
  <2>2. CASE k # m
    <3>1. k \in 0..(m - 1)
      BY <1>4, <2>2
    <3>2. k # 0 => k - 1 \in 0..(m - 1)
      BY <3>1
    <3>3. QED
      BY <1>5, <1>6, <3>1, <3>2
  <2>3. QED
    BY <2>1, <2>2
<1>9. IsSums(g, numbers, m)
  BY <1>8, Zenon DEF IsSums
<1>10. QED
  BY <1>1, <1>9

\* The first sum is zero, and each adds one number to that before it.
LEMMA SumsStep ==
  ASSUME NEW numbers, Len(numbers) \in Nat
  PROVE  /\ Sums(numbers)[0] = 0
         /\ \A k \in 1..Len(numbers) : Sums(numbers)[k] = Sums(numbers)[k - 1] + numbers[k]
<1> DEFINE f == CHOOSE s : IsSums(s, numbers, Len(numbers))
<1>1. Sums(numbers) = f
  BY DEF Sums, IsSums
<1>2. IsSums(f, numbers, Len(numbers))
  BY SumsExist
<1> HIDE DEF f
<1>3. QED
  BY <1>1, <1>2 DEF IsSums

\* Sums of integers are integers.
LEMMA SumsType ==
  ASSUME NEW numbers, Len(numbers) \in Nat, \A k \in 1..Len(numbers) : numbers[k] \in Int
  PROVE  \A k \in 0..Len(numbers) : Sums(numbers)[k] \in Int
<1> DEFINE f == Sums(numbers)
           Bad == {k \in Nat : k \in 0..Len(numbers) /\ f[k] \notin Int}
<1>1. f[0] = 0 /\ \A k \in 1..Len(numbers) : f[k] = f[k - 1] + numbers[k]
  BY SumsStep
<1> HIDE DEF f
<1>2. Bad = {}
  <2> SUFFICES ASSUME Bad # {} PROVE FALSE
    OBVIOUS
  <2>1. PICK k \in Bad : \A j \in Bad : k <= j
    BY LeastNat, Bad \in SUBSET Nat
  <2>2. k \in 1..Len(numbers)
    BY <1>1, <2>1
  <2>3. k - 1 \notin Bad /\ k - 1 \in Nat /\ k - 1 \in 0..Len(numbers)
    BY <2>1, <2>2
  <2>4. QED
    BY <1>1, <2>1, <2>2, <2>3
<1>3. QED
  BY <1>2 DEF f

\* Sums of naturals grow.
LEMMA SumsGrow ==
  ASSUME NEW numbers, Len(numbers) \in Nat, \A k \in 1..Len(numbers) : numbers[k] \in Nat,
         NEW i \in 0..Len(numbers), NEW j \in 0..Len(numbers), i <= j
  PROVE  Sums(numbers)[i] <= Sums(numbers)[j]
<1> DEFINE f == Sums(numbers)
           Bad == {k \in Nat : k \in i..Len(numbers) /\ ~(f[i] <= f[k])}
<1>1. \A k \in 1..Len(numbers) : f[k] = f[k - 1] + numbers[k]
  BY SumsStep
<1>2. \A k \in 0..Len(numbers) : f[k] \in Int
  BY SumsType
<1> HIDE DEF f
<1>3. Bad = {}
  <2> SUFFICES ASSUME Bad # {} PROVE FALSE
    OBVIOUS
  <2>1. PICK k \in Bad : \A l \in Bad : k <= l
    BY LeastNat, Bad \in SUBSET Nat
  <2>2. k \in (i + 1)..Len(numbers) /\ k \in 1..Len(numbers)
    BY <1>2, <2>1
  <2>3. k - 1 \notin Bad /\ k - 1 \in Nat /\ k - 1 \in i..Len(numbers) /\ k - 1 \in 0..Len(numbers)
    BY <2>1, <2>2
  <2>4. f[i] <= f[k - 1]
    BY <2>3
  <2>5. f[k] = f[k - 1] + numbers[k] /\ numbers[k] \in Nat
    BY <1>1, <2>2
  <2>6. f[i] \in Int /\ f[k - 1] \in Int
    BY <1>2, <2>3
  <2>7. f[i] <= f[k]
    BY <2>4, <2>5, <2>6
  <2>8. QED
    BY <2>1, <2>7
<1>4. QED
  BY <1>3 DEF f

-----------------------------------------------------------------------------
(* The frame covers the prologue. *)

\* The scan has read the first m rows: its sums are theirs, and it goes on with the
\* next one unless the last ended it.
HasRead(m) ==
  /\ m \in 0..Len(body)
  /\ \A i \in 1..m : body[i].decodes
  /\ scan.current = SpAfter(m)
  /\ scan.offset = SizeBefore(m + 1)
  /\ \A i \in 1..m : scan.min <= SpAfter(i)
  /\ \/ scan.next = m + 1
     \/ m # 0 /\ body[m].ends /\ scan.next = Len(body) + 1

ScanReads == scan # Idle => \E m \in Nat : HasRead(m)

CoverInv == IInv /\ ScanReads /\ FrameCoversPrologue

\* The rows of a function have integer sizes and changes of sp, and their sums begin
\* with zero and grow by one row at a time.
LEMMA RowSums ==
  ASSUME body \in Seq(Row)
  PROVE  /\ Len(body) \in Nat /\ DOMAIN body = 1..Len(body)
         /\ SpAfter(0) = 0 /\ SizeBefore(1) = 0
         /\ \A m \in 0..Len(body) : SpAfter(m) \in Int /\ SizeBefore(m + 1) \in Int
         /\ \A m \in 1..Len(body) : /\ SpAfter(m) = SpAfter(m - 1) + body[m].delta
                                    /\ SizeBefore(m + 1) = SizeBefore(m) + body[m].size
         /\ \A k, m \in 0..Len(body) : k <= m => SizeBefore(k + 1) <= SizeBefore(m + 1)
<1> DEFINE deltas == [i \in DOMAIN body |-> body[i].delta]
           sizes == [i \in DOMAIN body |-> body[i].size]
<1>1. Len(body) \in Nat /\ DOMAIN body = 1..Len(body)
  OBVIOUS
<1>2. Len(deltas) = Len(body) /\ Len(sizes) = Len(body)
  BY <1>1
<1>3. \A i \in 1..Len(body) : body[i].delta \in Int /\ body[i].size \in Nat
  <2> TAKE i \in 1..Len(body)
  <2>1. body[i] \in Row
    BY <1>1
  <2>2. body[i].delta \in -IMM_LIMIT..IMM_LIMIT /\ body[i].size \in {4, 8}
    BY <2>1 DEF Row
  <2>3. QED
    BY <2>2, WidthAssumption
<1>4. \A i \in 1..Len(body) : deltas[i] = body[i].delta /\ sizes[i] = body[i].size
  BY <1>1
<1>5. \A m : SpAfter(m) = Sums(deltas)[m] /\ SizeBefore(m) = Sums(sizes)[m - 1]
  BY DEF SpAfter, SizeBefore
<1> HIDE DEF deltas, sizes
<1>6. \A i \in 1..Len(body) : deltas[i] \in Int /\ sizes[i] \in Int /\ sizes[i] \in Nat
  BY <1>3, <1>4
<1>7. \A m \in 0..Len(body) : Sums(deltas)[m] \in Int /\ Sums(sizes)[m] \in Int
  BY <1>1, <1>2, <1>6, SumsType
<1>8. \A k, m \in 0..Len(body) : k <= m => Sums(sizes)[k] <= Sums(sizes)[m]
  BY <1>1, <1>2, <1>6, SumsGrow
<1>9. /\ Sums(deltas)[0] = 0 /\ Sums(sizes)[0] = 0
      /\ \A m \in 1..Len(body) : /\ Sums(deltas)[m] = Sums(deltas)[m - 1] + body[m].delta
                                 /\ Sums(sizes)[m] = Sums(sizes)[m - 1] + body[m].size
  BY <1>1, <1>2, <1>4, SumsStep
<1>10. \A m \in Int : SizeBefore(m + 1) = Sums(sizes)[m]
  BY <1>5
<1>11. SpAfter(0) = 0 /\ SizeBefore(1) = 0
  BY <1>5, <1>9
<1>12. \A m \in 0..Len(body) : SpAfter(m) \in Int /\ SizeBefore(m + 1) \in Int
  <2> TAKE m \in 0..Len(body)
  <2>1. m \in Int /\ Sums(deltas)[m] \in Int /\ Sums(sizes)[m] \in Int
    BY <1>1, <1>7
  <2>2. SpAfter(m) = Sums(deltas)[m]
    BY <1>5
  <2>3. QED
    BY <1>10, <2>1, <2>2
<1>13. \A m \in 1..Len(body) : /\ SpAfter(m) = SpAfter(m - 1) + body[m].delta
                              /\ SizeBefore(m + 1) = SizeBefore(m) + body[m].size
  <2> TAKE m \in 1..Len(body)
  <2>1. SpAfter(m) = Sums(deltas)[m] /\ SpAfter(m - 1) = Sums(deltas)[m - 1]
    BY <1>5
  <2>2. SizeBefore(m + 1) = Sums(sizes)[m]
    <3>1. m \in Int
      BY <1>1
    <3>2. QED
      BY <1>10, <3>1
  <2>3. SizeBefore(m) = Sums(sizes)[m - 1]
    BY <1>5
  <2>4. QED
    BY <1>9, <2>1, <2>2, <2>3
<1>14. \A k, m \in 0..Len(body) : k <= m => SizeBefore(k + 1) <= SizeBefore(m + 1)
  BY <1>8, <1>10
<1>15. QED
  BY <1>1, <1>11, <1>12, <1>13, <1>14

\* A row of the prologue is among those that a finished scan has read: it ended for
\* the same reason for which the prologue ends (scan_prolog).
LEMMA PrologueRead ==
  ASSUME body \in Seq(Row), NEW m \in Nat, HasRead(m), ~Scanning,
         NEW k \in DOMAIN body, PrologueRow(k)
  PROVE  k \in 1..m
<1>1. /\ Len(body) \in Nat /\ k \in 1..Len(body) /\ m \in 0..Len(body)
      /\ \A i \in 0..Len(body) : SizeBefore(i + 1) \in Int
      /\ \A i, j \in 0..Len(body) : i <= j => SizeBefore(i + 1) <= SizeBefore(j + 1)
  BY RowSums DEF HasRead
<1> SUFFICES ASSUME m < k PROVE FALSE
  BY <1>1
<1>2. /\ body[k].decodes /\ SizeBefore(k) < PROLOG_SCAN_LIMIT
      /\ \A i \in 1..(k - 1) : body[i].decodes /\ ~body[i].ends
  BY DEF PrologueRow
<1>3. CASE m # 0 /\ body[m].ends
  BY <1>1, <1>2, <1>3
<1>4. CASE scan.next = m + 1
  <2>1. m + 1 \in DOMAIN body /\ body[m + 1].decodes
    BY <1>1, <1>2
  <2>2. SizeBefore(m + 1) < PROLOG_SCAN_LIMIT
    <3>1. k - 1 \in 0..Len(body) /\ m <= k - 1 /\ (k - 1) + 1 = k
      BY <1>1
    <3>2. SizeBefore(m + 1) <= SizeBefore(k)
      BY <1>1, <3>1
    <3>3. SizeBefore(k) \in Int /\ SizeBefore(m + 1) \in Int
      BY <1>1, <3>1
    <3>4. QED
      BY <1>2, <3>2, <3>3, WidthAssumption
  <2>3. QED
    BY <1>4, <2>1, <2>2 DEF HasRead, Scanning
<1>5. QED
  BY <1>3, <1>4 DEF HasRead

\* An event that neither scans nor shrinks the frame keeps it.
LEMMA OtherEventsCover ==
  ASSUME CoverInv, body' = body, scan' = scan, prolog_ok' = prolog_ok,
         frame \in Int, frame' \in Int, frame <= frame'
  PROVE  ScanReads' /\ FrameCoversPrologue'
<1>1. ScanReads'
  <2> SUFFICES ASSUME scan # Idle PROVE \E m \in Nat : HasRead(m)'
    BY DEF ScanReads
  <2>1. PICK m \in Nat : HasRead(m)
    BY DEF CoverInv, ScanReads
  <2>2. HasRead(m)'
    BY <2>1 DEF HasRead, SpAfter, SizeBefore
  <2>3. QED
    BY <2>2
<1>2. FrameCoversPrologue'
  <2> SUFFICES ASSUME prolog_ok, NEW k \in DOMAIN body, PrologueRow(k)
               PROVE  frame' >= -SpAfter(k)
    BY DEF FrameCoversPrologue, PrologueRow, SpAfter, SizeBefore
  <2>1. frame >= -SpAfter(k)
    BY DEF CoverInv, FrameCoversPrologue
  <2>2. SpAfter(k) \in Int
    <3>1. body \in Seq(Row)
      BY BodiesAssumption DEF CoverInv, IInv, TypeOK
    <3>2. k \in 0..Len(body)
      BY <3>1
    <3>3. QED
      BY <3>1, <3>2, RowSums
  <2>3. QED
    BY <2>1, <2>2
<1>3. QED
  BY <1>1, <1>2

\* Every event keeps the frame over the prologue, and a scan its sums.
LEMMA CoverStep == CoverInv /\ [Next]_vars => CoverInv'
<1> SUFFICES ASSUME CoverInv, [Next]_vars PROVE ScanReads' /\ FrameCoversPrologue'
  BY StepInv DEF CoverInv
<1>1. body \in Seq(Row) /\ Len(body) \in Nat /\ DOMAIN body = 1..Len(body)
  BY BodiesAssumption, RowSums DEF CoverInv, IInv, TypeOK
<1>2. frame \in Int /\ NoFrame <= frame
  BY DEF CoverInv, IInv, TypeOK, NoFrame
<1>3. CASE BeginScan
  <2>1. /\ body' = body /\ frame' = frame /\ prolog_ok' = prolog_ok
        /\ scan'.next = 1 /\ scan'.offset = 0 /\ scan'.current = 0
    BY <1>3 DEF BeginScan, Reset, Idle
  <2>2. SpAfter(0) = 0 /\ SizeBefore(0 + 1) = 0
    BY <1>1, RowSums
  <2>3. HasRead(0)'
    BY <1>1, <2>1, <2>2 DEF HasRead, SpAfter, SizeBefore
  <2>4. FrameCoversPrologue'
    BY <2>1 DEF CoverInv, FrameCoversPrologue, PrologueRow, SpAfter, SizeBefore
  <2>5. QED
    BY <2>3, <2>4 DEF ScanReads
<1>4. CASE ScanRow
  <2>1. /\ body' = body /\ frame' = frame /\ prolog_ok' = prolog_ok
        /\ scan # Idle /\ scan.next \in DOMAIN body /\ body[scan.next].decodes
    BY <1>4 DEF ScanRow, Scanning
  <2>2. PICK m \in Nat : HasRead(m)
    BY <2>1 DEF CoverInv, ScanReads
  <2>3. scan.next = m + 1 /\ m + 1 \in 1..Len(body)
    BY <1>1, <2>1, <2>2 DEF HasRead
  <2>4. /\ scan'.next = IF body[m + 1].ends THEN Len(body) + 1 ELSE (m + 1) + 1
        /\ scan'.offset = scan.offset + body[m + 1].size
        /\ scan'.current = scan.current + body[m + 1].delta
        /\ scan'.min <= scan.min /\ scan'.min <= scan'.current
        /\ scan'.min \in Int /\ scan.min \in Int
    BY <1>4, <2>3, ScanRowKeepsBounds DEF CoverInv, IInv, ScanType
  <2>5. /\ SpAfter(m + 1) = SpAfter(m) + body[m + 1].delta
        /\ SizeBefore((m + 1) + 1) = SizeBefore(m + 1) + body[m + 1].size
        /\ \A i \in 0..Len(body) : SpAfter(i) \in Int
    <3>1. (m + 1) - 1 = m
      OBVIOUS
    <3>2. QED
      BY <1>1, <2>3, <3>1, RowSums
  <2>6. scan'.current = SpAfter(m + 1) /\ scan'.offset = SizeBefore((m + 1) + 1)
    BY <2>2, <2>4, <2>5 DEF HasRead
  <2>7. \A i \in 1..(m + 1) : body[i].decodes /\ scan'.min <= SpAfter(i)
    <3> TAKE i \in 1..(m + 1)
    <3>1. CASE i = m + 1
      BY <2>1, <2>3, <2>4, <2>6, <3>1
    <3>2. CASE i # m + 1
      <4>1. i \in 1..m /\ i \in 0..Len(body)
        BY <2>3, <3>2
      <4>2. body[i].decodes /\ scan.min <= SpAfter(i) /\ SpAfter(i) \in Int
        BY <2>2, <2>5, <4>1 DEF HasRead
      <4>3. QED
        BY <2>4, <4>2
    <3>3. QED
      BY <3>1, <3>2
  <2>8. HasRead(m + 1)'
    <3>1. \A i : SpAfter(i)' = SpAfter(i) /\ SizeBefore(i)' = SizeBefore(i)
      BY <2>1 DEF SpAfter, SizeBefore
    <3>2. scan'.next = (m + 1) + 1 \/ (m + 1 # 0 /\ body[m + 1].ends /\ scan'.next = Len(body) + 1)
      BY <2>3, <2>4
    <3>3. m + 1 \in 0..Len(body)
      BY <2>3
    <3>4. QED
      BY <2>1, <2>6, <2>7, <3>1, <3>2, <3>3 DEF HasRead
  <2>9. FrameCoversPrologue'
    BY <2>1 DEF CoverInv, FrameCoversPrologue, PrologueRow, SpAfter, SizeBefore
  <2>10. QED
    BY <2>8, <2>9 DEF ScanReads
<1>5. CASE FinishProlog
  <2>1. body' = body /\ scan' = Idle /\ scan # Idle /\ ~Scanning
    BY <1>5 DEF FinishProlog
  <2>2. ScanReads'
    BY <2>1 DEF ScanReads
  <2>3. CASE frame' = frame /\ prolog_ok' = prolog_ok
    BY <2>1, <2>2, <2>3 DEF CoverInv, FrameCoversPrologue, PrologueRow, SpAfter, SizeBefore
  <2>4. CASE frame' = FrameFor(scan.frame_size)
    <3>1. PICK m \in Nat : HasRead(m)
      BY <2>1 DEF CoverInv, ScanReads
    <3>2. /\ scan.frame_size \in Nat /\ scan.min \in Int /\ scan.frame_size = -scan.min
      BY DEF CoverInv, IInv, ScanType, ScanInv
    <3>3. frame' >= -scan.min
      BY <1>2, <2>4, <3>2 DEF FrameFor
    <3>4. frame' \in Int
      BY <1>2, <2>4, <3>2 DEF FrameFor
    <3>5. ASSUME NEW k \in DOMAIN body, PrologueRow(k)
          PROVE  frame' >= -SpAfter(k)
      <4>1. k \in 1..m
        BY <1>1, <2>1, <3>1, <3>5, PrologueRead
      <4>2. scan.min <= SpAfter(k) /\ SpAfter(k) \in Int
        BY <1>1, <3>1, <4>1, RowSums DEF HasRead
      <4>3. QED
        BY <3>2, <3>3, <3>4, <4>2
    <3>6. QED
      BY <2>1, <2>2, <3>5 DEF FrameCoversPrologue, PrologueRow, SpAfter, SizeBefore
  <2>5. QED
    BY <1>5, <2>2, <2>3, <2>4 DEF FinishProlog
<1>6. CASE CreateFuncFrame
  BY <1>2, <1>6, OtherEventsCover DEF CreateFuncFrame, CanAddFrame, NoFrame
<1>7. ASSUME NEW k \in DOMAIN body, NEW trace \in BOOLEAN, NEW create \in BOOLEAN,
             EmuRow(k, trace, create)
      PROVE  ScanReads' /\ FrameCoversPrologue'
  BY <1>2, <1>7, OtherEventsCover DEF EmuRow, CanAddFrame, NoFrame
<1>8. CASE Enlarge
  BY <1>2, <1>8, OtherEventsCover DEF Enlarge
<1>9. CASE UNCHANGED vars
  BY <1>2, <1>9, OtherEventsCover DEF vars
<1>10. QED
  BY <1>3, <1>4, <1>5, <1>6, <1>7, <1>8, <1>9 DEF Next

\* For every function and every order of events, the frame of an accepted prologue
\* holds the stack at every row of it (analyze_prolog against create_stack_vars and
\* ev_create_func_frame).
THEOREM PrologueCovered == Spec => []FrameCoversPrologue
<1>1. Init => CoverInv
  BY InitInv DEF Init, CoverInv, ScanReads, FrameCoversPrologue
<1>2. CoverInv => FrameCoversPrologue
  BY DEF CoverInv
<1>3. QED
  BY <1>1, <1>2, CoverStep, PTL DEF Spec
=============================================================================
