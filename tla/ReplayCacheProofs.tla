-------------------------- MODULE ReplayCacheProofs --------------------------
(***************************************************************************)
(* What the cache keeps true for every image, every set of functions and   *)
(* every order of events: as long as nothing outside the function's own    *)
(* direct branches has changed, a cached state consists of the rows that   *)
(* fall through to it, and every row of the body has one.                  *)
(***************************************************************************)
EXTENDS ReplayCache, WellFoundedInduction, TLAPS

(* The decodable cells of a range; k is a function or a cache.             *)
Body(k) == {c \in k.start .. k.end - 1 : Decodes(c)}

(* The cached states are those that a replay would give now.               *)
Fresh(k) == k.valid => k.states = [c \in Body(k) |-> StraightLineBefore(k, c)]

IInv ==
    /\ TypeOK
    /\ ~foreign => Fresh(cache)
    /\ ViewsFresh

-----------------------------------------------------------------------------
(* Numbers *)

(* A nonempty set of naturals has a least element. *)
LEMMA LeastNat ==
    ASSUME NEW S \in SUBSET Nat, S # {}
    PROVE  \E x \in S : \A y \in S : x <= y
<1>1. \E x \in S : \A y \in S : ~(<<y, x>> \in OpToRel(<, Nat))
  BY NatLessThanWellFounded, WFMin, Zenon
<1>2. \A x, y \in Nat : y < x => <<y, x>> \in OpToRel(<, Nat)
  BY Zenon DEF OpToRel
<1>3. \E x \in S : \A y \in S : ~(y < x)
  BY <1>1, <1>2, Zenon
<1> QED BY <1>3

(* A nonempty set of integers below a bound has a last element. *)
LEMMA LastOfBounded ==
    ASSUME NEW S \in SUBSET Int, S # {}, NEW b \in Int, \A x \in S : x <= b
    PROVE  LastOf(S) \in S /\ \A x \in S : x <= LastOf(S)
<1> DEFINE D == {b - x : x \in S}
<1>0. \A x \in S : b - x \in Nat
  OBVIOUS
<1>1. D \in SUBSET Nat /\ D # {}
  BY <1>0
<1> HIDE DEF D
<1>2. PICK d \in D : \A e \in D : d <= e
  BY <1>1, LeastNat
<1>3. PICK x \in S : d = b - x
  BY <1>2 DEF D
<1>4. \A y \in S : b - y \in D
  BY DEF D
<1>5. \A y \in S : y <= x
  <2> TAKE y \in S
  <2>1. d <= b - y
    BY <1>2, <1>4
  <2> QED BY <1>3, <2>1
<1> QED BY <1>5 DEF LastOf

-----------------------------------------------------------------------------
(* The cells a loop looks at *)

(* The function of Cursors for the cells s .. n. *)
Reaches(r, s, n) ==
    r = [c \in s .. n |-> \/ c = s
                          \/ \E p \in s .. (c - 1) : r[p] /\ NextCursor(p) = c]

(* The definition by recursion in Cursors has a solution. *)
LEMMA ReachedExists ==
    ASSUME NEW s \in Int, NEW n \in Nat
    PROVE  \E r : Reaches(r, s, s + n)
<1> DEFINE Bad == {m \in Nat : ~\E r : Reaches(r, s, s + m)}
<1> SUFFICES ASSUME Bad # {} PROVE FALSE
  OBVIOUS
<1>1. PICK m \in Bad : \A k \in Bad : m <= k
  BY LeastNat, Bad \in SUBSET Nat
<1>2. m # 0
  <2> DEFINE r == [c \in s .. s |-> TRUE]
  <2>1. r = [c \in s .. s |-> \/ c = s
                              \/ \E p \in s .. (c - 1) : r[p] /\ NextCursor(p) = c]
    OBVIOUS
  <2>2. Reaches(r, s, s)
    BY <2>1, Zenon DEF Reaches
  <2>3. s + 0 = s
    OBVIOUS
  <2> QED BY <1>1, <2>2, <2>3
<1>3. PICK r : Reaches(r, s, s + (m - 1))
  BY <1>1, <1>2
<1> DEFINE new == s + m
           B(f, c) == \/ c = s
                      \/ \E p \in s .. (c - 1) : f[p] /\ NextCursor(p) = c
           q == [c \in s .. new |-> IF c = new THEN B(r, new) ELSE r[c]]
<1>4. \A c \in s .. new : \A p \in s .. (c - 1) : q[p] = r[p]
  <2> TAKE c \in s .. new
  <2> TAKE p \in s .. (c - 1)
  <2> HIDE DEF B
  <2>1. p \in s .. new /\ p # new
    BY <1>1
  <2> QED BY <2>1
<1>5. \A c \in s .. new : B(q, c) = B(r, c)
  BY <1>4
<1>6. \A c \in s .. (new - 1) : r[c] = B(r, c)
  BY <1>3 DEF Reaches
<1>7. \A c \in s .. new : q[c] = B(q, c)
  <2> TAKE c \in s .. new
  <2> HIDE DEF B
  <2>1. CASE c = new
    BY <1>5, <2>1
  <2>2. CASE c # new
    BY <1>5, <1>6, <2>2
  <2> QED BY <2>1, <2>2
<1>8. Reaches(q, s, s + m)
  BY <1>7, Zenon DEF Reaches
<1> QED BY <1>1, <1>8

(* A row ends behind its start (next_ea). *)
LEMMA NextCursorIsHigher ==
    ASSUME NEW c \in Int
    PROVE  NextCursor(c) \in {c + 1, c + 2}
BY DEF NextCursor

(***************************************************************************)
(* A loop looks at its start, goes from each cell it looks at to the next, *)
(* and looks at no other cells (the loops of build and replay_until).      *)
(***************************************************************************)
LEMMA CursorSteps ==
    ASSUME NEW s \in Int, NEW e \in Int
    PROVE  /\ Cursors(s, e) \subseteq s .. (e - 1)
           /\ s < e => s \in Cursors(s, e)
           /\ \A p \in Cursors(s, e) :
                  NextCursor(p) < e => NextCursor(p) \in Cursors(s, e)
<1> DEFINE R == CHOOSE r : Reaches(r, s, e)
<1>1. Cursors(s, e) = {c \in s .. (e - 1) : R[c]}
  BY DEF Cursors, Reaches
<1>2. CASE e < s
  BY <1>1, <1>2
<1>3. CASE s <= e
  <2>1. e - s \in Nat /\ s + (e - s) = e
    BY <1>3
  <2>2. Reaches(R, s, e)
    BY <2>1, ReachedExists
  <2> HIDE DEF R
  <2>3. \A c \in s .. e :
           (\/ c = s
            \/ \E p \in s .. (c - 1) : R[p] /\ NextCursor(p) = c) => R[c]
    <3>1. \A c \in s .. e :
             R[c] = (\/ c = s
                     \/ \E p \in s .. (c - 1) : R[p] /\ NextCursor(p) = c)
      BY <2>2 DEF Reaches
    <3> QED BY <3>1, Zenon
  <2>4. s < e => s \in Cursors(s, e)
    <3>1. s \in s .. e
      BY <1>3
    <3>2. R[s]
      BY <2>3, <3>1, Zenon
    <3> QED BY <1>1, <3>2
  <2>5. ASSUME NEW p \in Cursors(s, e), NextCursor(p) < e
        PROVE  NextCursor(p) \in Cursors(s, e)
    <3>1. p \in s .. (e - 1) /\ R[p]
      BY <1>1
    <3>2. PICK n : n = NextCursor(p)
      OBVIOUS
    <3>3. n \in s .. (e - 1) /\ p \in s .. (n - 1)
      BY <2>5, <3>1, <3>2, NextCursorIsHigher
    <3>4. R[n]
      <4>1. n \in s .. e
        BY <3>3
      <4> QED BY <2>3, <3>1, <3>2, <3>3, <4>1, Zenon
    <3> QED BY <1>1, <3>2, <3>3, <3>4
  <2> QED BY <1>1, <2>4, <2>5
<1> QED BY <1>2, <1>3

(***************************************************************************)
(* A loop passes over a cell only when it is the second half of a row, and *)
(* then nothing decodes there: every decodable row behind the start is     *)
(* seen, wherever in a bundle the function starts (DecodedRow::next_ea).   *)
(***************************************************************************)
LEMMA RowsOfIsBody ==
    ASSUME NEW s \in Int, NEW e \in Int
    PROVE  RowsOf(s, e) = {c \in s .. (e - 1) : Decodes(c)}
<1> DEFINE C == Cursors(s, e)
           Seen(c) == c \in C \/ (c - 1 \in C /\ c % 2 = 1 /\ RowsAt(c) = 1)
           Bad == {m \in Nat : s + m < e /\ ~Seen(s + m)}
<1>1. /\ C \subseteq s .. (e - 1)
      /\ s < e => s \in C
      /\ \A p \in C : NextCursor(p) < e => NextCursor(p) \in C
  BY CursorSteps
<1> HIDE DEF C
<1>2. Bad = {}
  <2> SUFFICES ASSUME Bad # {} PROVE FALSE
    OBVIOUS
  <2>1. PICK m \in Bad : \A k \in Bad : m <= k
    <3>1. Bad \in SUBSET Nat
      OBVIOUS
    <3> HIDE DEF Bad
    <3> QED BY <3>1, LeastNat
  <2>2. m # 0 /\ m \in Nat /\ s + m < e /\ ~Seen(s + m)
    BY <1>1, <2>1
  <2>3. PICK p \in Int : p = s + m - 1
    BY <2>2
  <2>4. Seen(p)
    <3>1. m - 1 \in Nat /\ ~(m <= m - 1) /\ s + (m - 1) < e /\ s + (m - 1) = p
      BY <2>2, <2>3
    <3>2. m - 1 \notin Bad
      BY <2>1, <3>1
    <3> QED BY <3>1, <3>2
  <2>5. p + 1 = s + m /\ p + 1 < e
    BY <2>2, <2>3
  <2>6. p + 1 \notin C
    BY <2>2, <2>5
  <2>7. CASE p \in C
    <3>1. NextCursor(p) # p + 1
      BY <1>1, <2>5, <2>6, <2>7
    <3>2. Decodes(p) /\ p % 2 = 0 /\ RowsAt(p) = 1
      BY <3>1 DEF NextCursor
    <3>3. (p + 1) % 2 = 1 /\ (p + 1) \div 2 = p \div 2
      BY <3>2
    <3>4. RowsAt(p + 1) = 1
      BY <3>2, <3>3 DEF RowsAt
    <3> QED BY <2>2, <2>5, <2>7, <3>3, <3>4
  <2>8. CASE p \notin C
    <3>1. p - 1 \in C /\ p % 2 = 1 /\ RowsAt(p) = 1
      BY <2>4, <2>8
    <3>2. NextCursor(p - 1) \in {p, p + 1}
      BY NextCursorIsHigher
    <3>3. NextCursor(p - 1) = p + 1
      BY <1>1, <2>5, <2>8, <3>1, <3>2
    <3> QED BY <1>1, <2>5, <2>6, <3>1, <3>3
  <2> QED BY <2>7, <2>8
<1>3. ASSUME NEW c \in s .. (e - 1), Decodes(c)
      PROVE  c \in C
  <2>1. c - s \in Nat /\ s + (c - s) = c /\ c < e
    OBVIOUS
  <2>2. Seen(c)
    BY <1>2, <2>1
  <2>3. ~(c % 2 = 1 /\ RowsAt(c) = 1)
    BY <1>3 DEF Decodes
  <2> QED BY <2>2, <2>3
<1> QED BY <1>1, <1>3 DEF RowsOf, C

-----------------------------------------------------------------------------
(* Replays *)

(* The rows before c that no restart separates from c. *)
Unseparated(rows, restarts, s, c) ==
    {q \in rows : s <= q /\ q < c /\ ~\E j \in restarts : q < j /\ j <= c}

Effects(rows) == [r \in rows |-> Row(r).effect]

(* A replay that starts again at the restarts leaves the rows before c that *)
(* no restart separates from c.                                             *)
LEMMA ReplayedRows ==
    ASSUME NEW s \in Int, NEW c \in Int, NEW rows \in SUBSET Int, NEW restarts \in SUBSET Int
    PROVE  Replayed(rows, restarts, s, c) = Effects(Unseparated(rows, restarts, s, c))
<1> DEFINE F == {s} \cup {r \in restarts : s < r /\ r <= c}
<1>1. PICK b \in Int : s <= b /\ c <= b
  OBVIOUS
<1>2. F \in SUBSET Int /\ F # {} /\ \A x \in F : x <= b
  <2>1. \A x \in F : x \in Int /\ x <= b
    BY <1>1
  <2>2. s \in F
    OBVIOUS
  <2> HIDE DEF F
  <2> QED BY <2>1, <2>2
<1>3. PICK from : from = LastOf(F)
  OBVIOUS
<1>4. from \in F /\ \A x \in F : x <= from
  BY <1>1, <1>2, <1>3, LastOfBounded
<1>5. Replayed(rows, restarts, s, c) =
        [r \in {q \in rows : from <= q /\ q < c} |-> Row(r).effect]
  BY <1>3 DEF Replayed
<1>6. ASSUME NEW q \in rows, q < c
      PROVE  from <= q <=> s <= q /\ ~\E j \in restarts : q < j /\ j <= c
  <2>1. ASSUME from <= q
        PROVE  s <= q /\ ~\E j \in restarts : q < j /\ j <= c
    BY <1>4, <2>1
  <2>2. ASSUME s <= q, ~\E j \in restarts : q < j /\ j <= c
        PROVE  from <= q
    <3>1. CASE from = s
      BY <2>2, <3>1
    <3>2. CASE from # s
      BY <1>4, <2>2, <3>2
    <3> QED BY <3>1, <3>2
  <2> QED BY <2>1, <2>2
<1>7. {q \in rows : from <= q /\ q < c} = Unseparated(rows, restarts, s, c)
  BY <1>6 DEF Unseparated
<1> QED BY <1>5, <1>7 DEF Effects

(***************************************************************************)
(* What build computes is what falls through to each row: its restarts are *)
(* the join points that decode, and it has a state for every row of the    *)
(* body (FunctionReplayCache::build).                                      *)
(***************************************************************************)
LEMMA BuildIsFresh ==
    ASSUME NEW k, NEW s \in Int, NEW e \in Int, k.start = s, k.end = e
    PROVE  Build(s, e).states = [c \in Body(k) |-> StraightLineBefore(k, c)]
<1> DEFINE rows == RowsOf(s, e)
           restarts == {r \in rows : r \in BoundaryTargets(s, e) \/ HasXref(r)}
<1>1. rows = Body(k)
  BY RowsOfIsBody DEF Body
<1>2. \A j : j \in BoundaryTargets(s, e) <=>
             /\ j # None /\ s < j /\ j < e
             /\ \E r \in rows : Row(r).branch = j
  BY DEF BoundaryTargets
<1>3. Body(k) = {q \in s .. e - 1 : Decodes(q)}
  BY DEF Body
<1> HIDE DEF rows
<1>4. \A j \in Int : s < j =>
         (j \in restarts <=> j \in Joins(k) /\ Decodes(j))
  BY <1>1, <1>2, <1>3, NoneAssumption DEF Joins
<1>5. restarts \in SUBSET Int /\ rows \in SUBSET Int /\ Joins(k) \in SUBSET Int
  BY <1>1, <1>3 DEF Joins
<1> HIDE DEF restarts
<1>6. ASSUME NEW c \in Body(k)
      PROVE  Replayed(rows, restarts, s, c) = StraightLineBefore(k, c)
  <2>1. c \in Int /\ s <= c /\ c < e
    BY <1>3
  <2>2. \A q \in Int : s <= q =>
          ((\E j \in restarts : q < j /\ j <= c) <=>
           (\E j \in Joins(k) : Decodes(j) /\ q < j /\ j <= c))
    BY <1>4, <1>5
  <2>3. Unseparated(rows, restarts, s, c) =
        {q \in s .. c - 1 : Decodes(q) /\ ~\E j \in Joins(k) : Decodes(j) /\ q < j /\ j <= c}
    BY <1>1, <1>3, <2>1, <2>2 DEF Unseparated
  <2>4. Replayed(rows, restarts, s, c) = Effects(Unseparated(rows, restarts, s, c))
    BY <1>5, <2>1, ReplayedRows
  <2> QED BY <2>3, <2>4 DEF StraightLineBefore, Effects
<1>7. Build(s, e).states = [c \in rows |-> Replayed(rows, restarts, s, c)]
  BY DEF Build, rows, restarts
<1> QED BY <1>1, <1>6, <1>7

-----------------------------------------------------------------------------
(* Types *)

(* A cell lies in a bundle, and its row has targets in the image or none. *)
LEMMA RowTypes ==
    ASSUME TypeOK, NEW c \in Cell
    PROVE  /\ Row(c) \in Rows
           /\ BranchRefs(c) \subseteq Cell \X Cell
           /\ \A state : IndirectRefs(c, state) \subseteq Cell \X Cell
<1>1. c \div 2 \in Bundle
  BY TopAssumption DEF Cell, Bundle
<1>2. memory[c \div 2] \in BundleContents
  BY <1>1 DEF TypeOK
<1>3. Row(c) \in Rows
  BY <1>2 DEF Row, BundleContents
<1> QED BY <1>3 DEF Rows, BranchRefs, IndirectRefs, IndirectTarget

(* The cache after a lookup. *)
CacheOK(k) ==
    /\ k.valid \in BOOLEAN
    /\ k.valid => k.start \in Cell /\ k.end \in 1 .. Top
    /\ DOMAIN k.states \subseteq Cell

(* A build for a function of the layout is a well-formed, fresh cache. *)
LEMMA BuildTypes ==
    ASSUME NEW f \in Functions, NEW k, k = Build(f.start, f.end)
    PROVE  /\ k.valid = TRUE /\ k.start = f.start /\ k.end = f.end
           /\ CacheOK(k) /\ Fresh(k)
<1>1. f.start \in Cell /\ f.end \in 1 .. Top
  BY DEF Functions
<1>2. f.start \in Int /\ f.end \in Int
  BY <1>1, TopAssumption DEF Cell
<1>3. k.valid = TRUE /\ k.start = f.start /\ k.end = f.end
  BY DEF Build
<1>4. k.states = [c \in Body(k) |-> StraightLineBefore(k, c)]
  BY <1>2, <1>3, BuildIsFresh
<1>5. Body(k) \subseteq Cell
  BY <1>1, <1>3, TopAssumption DEF Body, Cell
<1>6. DOMAIN k.states = Body(k)
  BY <1>4
<1> QED BY <1>1, <1>3, <1>4, <1>5, <1>6 DEF CacheOK, Fresh

(* The states depend on the bounds of the function only. *)
LEMMA SameBounds ==
    ASSUME NEW k, NEW f, k.start = f.start, k.end = f.end
    PROVE  /\ Body(k) = Body(f)
           /\ \A c : StraightLineBefore(k, c) = StraightLineBefore(f, c)
<1>1. Joins(k) = Joins(f)
  BY DEF Joins
<1> QED BY <1>1 DEF Body, StraightLineBefore

(* Two functions that own a cell are the same. *)
LEMMA OneOwner ==
    ASSUME TypeOK, NEW c \in Cell
    PROVE  /\ \A f \in FunctionsOf(c) : f \in Functions
           /\ \A f, g \in FunctionsOf(c) : f = g
BY LayoutsAssumption DEF TypeOK, FunctionsOf

-----------------------------------------------------------------------------
(* Lookups *)

(***************************************************************************)
(* The cache that a lookup for a function leaves is the function's; it is  *)
(* fresh, and so is the state of the row, unless it was stale before and   *)
(* its key still matched.  What is fresh is built again only for a row     *)
(* outside the body (FunctionReplayCache::state_at).                       *)
(***************************************************************************)
LEMMA StateIsFresh ==
    ASSUME IInv, NEW c \in Cell, Decodes(c), NEW f \in FunctionsOf(c), NEW k, k = CacheFor(f, c)
    PROVE  /\ k.valid = TRUE /\ k.start = f.start /\ k.end = f.end
           /\ CacheOK(k)
           /\ MustBuild(f, c) \/ ~foreign => Fresh(k)
           /\ f.start <= c /\ c < f.end /\ (MustBuild(f, c) \/ ~foreign)
                => StateAt(f, c, k) = StraightLineBefore(f, c)
           /\ ~foreign => (MustBuild(f, c) <=> ~Matches(f) \/ ~(f.start <= c /\ c < f.end))
<1>1. CacheOK(cache) /\ TypeOK /\ (~foreign => Fresh(cache))
  BY DEF IInv, TypeOK, CacheOK
<1>2. f \in Functions
  BY <1>1, OneOwner
<1>3. c \in Int /\ f.start \in Int /\ f.end \in Int
  BY <1>2, TopAssumption DEF Functions, Cell
<1>4. f.start <= c /\ c < f.end <=> c \in Body(f)
  BY <1>3 DEF Body
<1>5. k.valid = TRUE /\ k.start = f.start /\ k.end = f.end => Body(k) = Body(f)
  BY SameBounds
<1>6. CASE MustBuild(f, c)
  <2>1. k = Build(f.start, f.end)
    BY <1>6 DEF CacheFor
  <2>2. CacheOK(k) /\ Fresh(k) /\ k.valid = TRUE /\ k.start = f.start /\ k.end = f.end
    BY <1>2, <2>1, BuildTypes
  <2>3. StraightLineBefore(k, c) = StraightLineBefore(f, c)
    BY <2>2, SameBounds
  <2>4. c \in Body(f) => StateAt(f, c, k) = StraightLineBefore(f, c)
    BY <1>5, <2>2, <2>3 DEF StateAt, Fresh
  <2>5. ~foreign /\ Matches(f) => c \notin Body(f)
    <3> SUFFICES ASSUME ~foreign, Matches(f) PROVE c \notin Body(f)
      OBVIOUS
    <3>1. cache.valid /\ cache.start = f.start /\ cache.end = f.end
      BY DEF Matches
    <3>2. DOMAIN cache.states = Body(cache) /\ Body(cache) = Body(f)
      BY <1>1, <3>1, SameBounds DEF Fresh
    <3> QED BY <1>6, <3>2 DEF MustBuild
  <2> QED BY <1>4, <1>6, <2>2, <2>4, <2>5
<1>7. CASE ~MustBuild(f, c)
  <2>1. k = cache
    BY <1>7 DEF CacheFor
  <2>2. k.valid = TRUE /\ k.start = f.start /\ k.end = f.end /\ c \in DOMAIN k.states
    BY <1>1, <1>7, <2>1 DEF MustBuild, Matches, CacheOK
  <2>3. StraightLineBefore(k, c) = StraightLineBefore(f, c)
    BY <2>2, SameBounds
  <2>4. ~foreign => StateAt(f, c, k) = StraightLineBefore(f, c) /\ c \in Body(f)
    BY <1>1, <1>5, <2>1, <2>2, <2>3 DEF StateAt, Fresh
  <2>5. Matches(f)
    BY <2>1, <2>2 DEF Matches
  <2> QED BY <1>1, <1>4, <1>7, <2>1, <2>2, <2>4, <2>5
<1> QED BY <1>6, <1>7

(***************************************************************************)
(* What an event gets is what falls through to its row, and the cache it   *)
(* leaves is fresh unless it was stale before and the key still matched    *)
(* (FunctionReplayCache::state_at).                                        *)
(***************************************************************************)
LEMMA LookupGives ==
    ASSUME IInv, NEW c \in Cell, Decodes(c), Lookup(c), NEW k, k = cache'
    PROVE  /\ CacheOK(k)
           /\ (foreign /\ ~Rebuilt(c)) \/ Fresh(k)
           /\ view'.got = view'.want
<1>1. CacheOK(cache) /\ TypeOK /\ (~foreign => Fresh(cache))
  BY DEF IInv, TypeOK, CacheOK
<1>2. CASE FunctionsOf(c) = {}
  <2>1. view' = NoView /\ k = cache /\ ~Rebuilt(c)
    BY <1>2 DEF Lookup, Rebuilt
  <2> QED BY <1>1, <2>1 DEF NoView
<1>3. CASE FunctionsOf(c) # {}
  <2>1. PICK f \in FunctionsOf(c) : k = CacheFor(f, c) /\ view' = View(f, c)
    BY <1>3 DEF Lookup
  <2>2. Rebuilt(c) => MustBuild(f, c)
    BY <1>1, OneOwner DEF Rebuilt
  <2>3. /\ CacheOK(k)
        /\ MustBuild(f, c) \/ ~foreign => Fresh(k)
        /\ f.start <= c /\ c < f.end /\ (MustBuild(f, c) \/ ~foreign)
             => StateAt(f, c, k) = StraightLineBefore(f, c)
    BY <2>1, StateIsFresh
  <2>4. view'.got = view'.want
    BY <2>1, <2>3 DEF View, NoView
  <2>5. (foreign /\ ~Rebuilt(c)) \/ Fresh(k)
    BY <2>2, <2>3, Zenon
  <2> QED BY <2>3, <2>4, <2>5
<1> QED BY <1>2, <1>3

-----------------------------------------------------------------------------
(* Changes of the database *)

(***************************************************************************)
(* Recording or deleting a reference that is a direct branch of a row of   *)
(* the function changes no join point of it, and one to elsewhere neither. *)
(***************************************************************************)
LEMMA RefsKeepFresh ==
    ASSUME NEW k, CacheOK(k), Fresh(k), memory' = memory,
           xrefs \subseteq Cell \X Cell, (xrefs \subseteq Cell \X Cell)',
           \A x \in (xrefs' \ xrefs) \cup (xrefs \ xrefs') :
               k.valid /\ Cached(k, x[2]) => Foreseen(x, k)
    PROVE  Fresh(k)'
<1> SUFFICES ASSUME k.valid PROVE Fresh(k)'
  BY DEF Fresh
<1>1. k.start \in Int /\ k.end \in Int
  BY TopAssumption DEF CacheOK, Cell
<1>2. /\ \A c : Row(c)' = Row(c)
      /\ \A c : Decodes(c)' <=> Decodes(c)
  BY DEF Row, Decodes, RowsAt
<1>3. Body(k)' = Body(k)
  BY <1>2 DEF Body
<1>4. ASSUME NEW j \in Int, k.start + 1 <= j, j <= k.end - 1,
             NEW x \in (xrefs' \ xrefs) \cup (xrefs \ xrefs'), x[2] = j
      PROVE  \E r \in k.start .. k.end - 1 : Decodes(r) /\ Row(r).branch = j
  <2>1. Cached(k, x[2])
    BY <1>1, <1>4 DEF Cached
  <2>2. Cached(k, x[1]) /\ Decodes(x[1]) /\ x \in BranchRefs(x[1])
    BY <2>1 DEF Foreseen
  <2>3. x[1] \in Cell
    OBVIOUS
  <2>4. x[1] \in k.start .. k.end - 1
    BY <1>1, <2>2, <2>3, TopAssumption DEF Cached, Cell
  <2>5. Row(x[1]).branch = j
    BY <1>4, <2>2 DEF BranchRefs
  <2> QED BY <2>2, <2>4, <2>5
<1>5. Joins(k)' = Joins(k)
  <2>1. ASSUME NEW j \in Int, k.start + 1 <= j, j <= k.end - 1
        PROVE  (\/ HasXref(j)'
                \/ \E r \in k.start .. k.end - 1 : Decodes(r)' /\ (Row(r).branch)' = j)
               <=> (\/ HasXref(j)
                    \/ \E r \in k.start .. k.end - 1 : Decodes(r) /\ Row(r).branch = j)
    <3>1. CASE \E r \in k.start .. k.end - 1 : Decodes(r) /\ Row(r).branch = j
      BY <1>2, <3>1
    <3>2. CASE ~\E r \in k.start .. k.end - 1 : Decodes(r) /\ Row(r).branch = j
      <4>1. \A x \in (xrefs' \ xrefs) \cup (xrefs \ xrefs') : x[2] # j
        BY <1>4, <2>1, <3>2
      <4>2. HasXref(j)' <=> HasXref(j)
        BY <4>1 DEF HasXref
      <4> QED BY <1>2, <3>2, <4>2
    <3> QED BY <3>1, <3>2
  <2> QED BY <1>1, <2>1 DEF Joins
<1>6. \A c : StraightLineBefore(k, c)' = StraightLineBefore(k, c)
  BY <1>2, <1>5 DEF StraightLineBefore
<1> QED BY <1>3, <1>6 DEF Fresh

(* A patch outside the function changes none of its rows. *)
LEMMA PatchKeepsFresh ==
    ASSUME NEW k, CacheOK(k), Fresh(k), xrefs' = xrefs, NEW b \in Bundle,
           \A d \in Bundle : d # b => memory'[d] = memory[d],
           ~\E c \in {2 * b, 2 * b + 1} : Cached(k, c)
    PROVE  Fresh(k)'
<1> SUFFICES ASSUME k.valid PROVE Fresh(k)'
  BY DEF Fresh
<1>1. /\ k.start \in Int /\ k.end \in Int /\ 0 <= k.start /\ k.end <= Top
      /\ b \in Nat
  BY TopAssumption DEF CacheOK, Cell, Bundle
<1>2. ASSUME NEW c \in k.start .. k.end - 1
      PROVE  memory'[c \div 2] = memory[c \div 2]
  <2>1. c \div 2 \in Bundle
    BY <1>1, TopAssumption DEF Bundle
  <2>2. c # 2 * b /\ c # 2 * b + 1
    BY <1>1 DEF Cached
  <2>3. c \div 2 # b
    BY <1>1, <2>2
  <2> QED BY <2>1, <2>3
<1>3. /\ \A c \in k.start .. k.end - 1 : Row(c)' = Row(c)
      /\ \A c \in k.start .. k.end - 1 : Decodes(c)' <=> Decodes(c)
  BY <1>2 DEF Row, Decodes, RowsAt
<1>4. Body(k)' = Body(k)
  BY <1>3 DEF Body
<1>5. Joins(k)' = Joins(k)
  BY <1>3 DEF Joins, HasXref
<1>6. \A j \in Joins(k) : j \in k.start .. k.end - 1
  BY <1>1 DEF Joins
<1>7. ASSUME NEW c \in k.start .. k.end - 1
      PROVE  StraightLineBefore(k, c)' = StraightLineBefore(k, c)
  <2>1. \A q \in k.start .. c - 1 : q \in k.start .. k.end - 1
    BY <1>1
  <2> QED BY <1>3, <1>5, <1>6, <2>1 DEF StraightLineBefore
<1>8. \A c \in Body(k) : c \in k.start .. k.end - 1
  BY DEF Body
<1> QED BY <1>4, <1>7, <1>8 DEF Fresh

-----------------------------------------------------------------------------
(* Steps *)

(* An empty cache has no state. *)
LEMMA EmptyCacheOK == CacheOK(EmptyCache) /\ EmptyCache.valid = FALSE
<1>1. EmptyCache.states = <<>> /\ EmptyCache.valid = FALSE
  BY DEF EmptyCache
<1>2. DOMAIN <<>> = {}
  OBVIOUS
<1> QED BY <1>1, <1>2 DEF CacheOK

(* At the start nothing is cached and no event has seen anything. *)
LEMMA InitEstablishes == Init => IInv
<1> SUFFICES ASSUME Init PROVE IInv
  OBVIOUS
<1>1. TypeOK
  BY ContentsAssumption, EmptyCacheOK DEF Init, TypeOK, CacheOK
<1>2. Fresh(cache)
  BY EmptyCacheOK DEF Init, Fresh
<1>3. ViewsFresh
  BY DEF Init, NoView, ViewsFresh
<1> QED BY <1>1, <1>2, <1>3 DEF IInv

(* Emulating a row records references the build foresaw, or says so. *)
LEMMA EmuKeeps ==
    ASSUME IInv, NEW c \in Cell, Emu(c)
    PROVE  IInv'
<1>1. PICK k : k = cache'
  OBVIOUS
<1>2. Decodes(c) /\ Lookup(c) /\ memory' = memory /\ funcs' = funcs
  BY DEF Emu
<1>3. /\ CacheOK(k)
      /\ (foreign /\ ~Rebuilt(c)) \/ Fresh(k)
      /\ view'.got = view'.want
  BY <1>1, <1>2, LookupGives
<1>4. PICK refs : /\ refs = IndirectRefs(c, StateSeen(c)) \cup BranchRefs(c)
                  /\ xrefs' = xrefs \cup refs
                  /\ foreign' = \/ foreign /\ ~Rebuilt(c)
                                \/ Unforeseen(refs \ xrefs, k) # {}
  BY <1>1 DEF Emu
<1>5. TypeOK
  BY DEF IInv
<1>6. refs \subseteq Cell \X Cell
  BY <1>4, <1>5, RowTypes
<1>7. xrefs \subseteq Cell \X Cell /\ (xrefs \subseteq Cell \X Cell)'
  BY <1>4, <1>5, <1>6 DEF TypeOK
<1>8. TypeOK'
  <2>1. foreign' \in BOOLEAN
    BY <1>4, Zenon
  <2> QED BY <1>1, <1>2, <1>3, <1>5, <1>7, <2>1 DEF TypeOK, CacheOK
<1>9. ASSUME ~foreign'
      PROVE  Fresh(k)'
  <2>1. Fresh(k) /\ Unforeseen(refs \ xrefs, k) = {}
    BY <1>3, <1>4, <1>9
  <2>2. \A x \in (xrefs' \ xrefs) \cup (xrefs \ xrefs') :
           k.valid /\ Cached(k, x[2]) => Foreseen(x, k)
    BY <1>4, <2>1 DEF Unforeseen
  <2> QED BY <1>2, <1>3, <1>7, <2>1, <2>2, RefsKeepFresh
<1> QED BY <1>1, <1>3, <1>8, <1>9 DEF IInv, ViewsFresh, Fresh

(* Rendering a row only looks up. *)
LEMMA OutKeeps ==
    ASSUME IInv, NEW c \in Cell, Out(c)
    PROVE  IInv'
<1>1. PICK k : k = cache'
  OBVIOUS
<1>2. Decodes(c) /\ Lookup(c) /\ memory' = memory /\ funcs' = funcs /\ xrefs' = xrefs
  BY DEF Out
<1>3. /\ CacheOK(k)
      /\ (foreign /\ ~Rebuilt(c)) \/ Fresh(k)
      /\ view'.got = view'.want
  BY <1>1, <1>2, LookupGives
<1>4. foreign' = (foreign /\ ~Rebuilt(c))
  BY DEF Out
<1>5. TypeOK
  BY DEF IInv
<1>6. TypeOK'
  <2>1. foreign' \in BOOLEAN
    BY <1>4, Zenon
  <2> QED BY <1>1, <1>2, <1>3, <1>5, <2>1 DEF TypeOK, CacheOK
<1>7. ASSUME ~foreign'
      PROVE  Fresh(k)'
  <2>1. Fresh(k) /\ xrefs \subseteq Cell \X Cell
    BY <1>3, <1>4, <1>5, <1>7 DEF TypeOK
  <2> QED BY <1>2, <1>3, <2>1, RefsKeepFresh
<1> QED BY <1>1, <1>3, <1>6, <1>7 DEF IInv, ViewsFresh, Fresh

(* Deleting the references of a branch of the function changes no join *)
(* point, because the branch itself is one.                            *)
LEMMA UndefineKeeps ==
    ASSUME IInv, NEW c \in Cell, Undefine(c)
    PROVE  IInv'
<1>1. PICK k : k = cache
  OBVIOUS
<1>2. PICK gone : /\ gone = {x \in xrefs : x[1] = c}
                  /\ xrefs' = xrefs \ gone
                  /\ foreign' = (foreign \/ Unforeseen(gone, k) # {})
  BY <1>1 DEF Undefine
<1>3. memory' = memory /\ funcs' = funcs /\ cache' = k /\ view' = NoView
  BY <1>1 DEF Undefine
<1>4. TypeOK /\ CacheOK(k)
  BY <1>1 DEF IInv, TypeOK, CacheOK
<1>5. xrefs \subseteq Cell \X Cell /\ (xrefs \subseteq Cell \X Cell)'
  BY <1>2, <1>4 DEF TypeOK
<1>6. TypeOK'
  <2>1. foreign' \in BOOLEAN
    BY <1>2, Zenon
  <2> QED BY <1>3, <1>4, <1>5, <2>1 DEF TypeOK, CacheOK
<1>7. ASSUME ~foreign'
      PROVE  Fresh(k)'
  <2>1. Fresh(k) /\ Unforeseen(gone, k) = {}
    BY <1>1, <1>2, <1>7 DEF IInv
  <2>2. \A x \in (xrefs' \ xrefs) \cup (xrefs \ xrefs') :
           k.valid /\ Cached(k, x[2]) => Foreseen(x, k)
    BY <1>2, <2>1 DEF Unforeseen
  <2> QED BY <1>3, <1>4, <1>5, <2>1, <2>2, RefsKeepFresh
<1> QED BY <1>3, <1>6, <1>7 DEF IInv, ViewsFresh, Fresh, NoView

(* A patch in the function makes the cache stale; one outside does not. *)
LEMMA PatchKeeps ==
    ASSUME IInv, NEW b \in Bundle, Patch(b)
    PROVE  IInv'
<1>1. PICK k : k = cache
  OBVIOUS
<1>2. PICK new \in Contents : memory' = [memory EXCEPT ![b] = new]
  BY DEF Patch
<1>3. /\ xrefs' = xrefs /\ funcs' = funcs /\ cache' = k /\ view' = NoView
      /\ foreign' = (foreign \/ \E c \in {2 * b, 2 * b + 1} : Cached(k, c))
  BY <1>1 DEF Patch
<1>4. TypeOK /\ CacheOK(k)
  BY <1>1 DEF IInv, TypeOK, CacheOK
<1>5. TypeOK'
  <2>1. foreign' \in BOOLEAN
    BY <1>3, Zenon
  <2>2. memory' \in [Bundle -> BundleContents]
    BY <1>2, <1>4, ContentsAssumption DEF TypeOK
  <2> QED BY <1>3, <1>4, <2>1, <2>2 DEF TypeOK, CacheOK
<1>6. \A d \in Bundle : d # b => memory'[d] = memory[d]
  BY <1>2, <1>4 DEF TypeOK
<1>7. ASSUME ~foreign'
      PROVE  Fresh(k)'
  <2>1. Fresh(k) /\ ~\E c \in {2 * b, 2 * b + 1} : Cached(k, c)
    BY <1>1, <1>3, <1>7 DEF IInv
  <2> QED BY <1>3, <1>4, <1>6, <2>1, PatchKeepsFresh
<1> QED BY <1>3, <1>5, <1>7 DEF IInv, ViewsFresh, Fresh, NoView

(* A step that leaves the database and the cache as they are. *)
LEMMA SameDatabase ==
    ASSUME NEW k, Fresh(k), memory' = memory, xrefs' = xrefs
    PROVE  Fresh(k)'
BY DEF Fresh, Body, StraightLineBefore, Joins, HasXref, Decodes, RowsAt, Row

(* The cache does not depend on which functions there are, only on bounds. *)
LEMMA RelayoutKeeps == IInv /\ Relayout => IInv'
<1> SUFFICES ASSUME IInv, Relayout PROVE IInv'
  OBVIOUS
<1>1. TypeOK' /\ ViewsFresh'
  BY DEF IInv, TypeOK, Relayout, ViewsFresh, NoView
<1>2. PICK k : k = cache
  OBVIOUS
<1>3. cache' = k /\ memory' = memory /\ xrefs' = xrefs /\ foreign' = foreign
  BY <1>2 DEF Relayout
<1>4. ~foreign' => Fresh(k)'
  BY <1>2, <1>3, SameDatabase DEF IInv
<1> QED BY <1>1, <1>3, <1>4 DEF IInv, Fresh

(* An empty cache is not stale. *)
LEMMA ClearKeeps == IInv /\ Clear => IInv'
<1> SUFFICES ASSUME IInv, Clear PROVE IInv'
  OBVIOUS
<1>1. /\ cache' = EmptyCache /\ foreign' = FALSE /\ view' = NoView
      /\ memory' = memory /\ xrefs' = xrefs /\ funcs' = funcs
  BY DEF Clear
<1>2. TypeOK'
  BY <1>1, EmptyCacheOK DEF IInv, TypeOK, CacheOK
<1>3. Fresh(cache)'
  BY <1>1, EmptyCacheOK DEF Fresh
<1> QED BY <1>1, <1>2, <1>3 DEF IInv, ViewsFresh, NoView

(* Nothing changes in a stuttering step. *)
LEMMA StutterKeeps == IInv /\ UNCHANGED vars => IInv'
<1> SUFFICES ASSUME IInv, UNCHANGED vars PROVE IInv'
  OBVIOUS
<1> USE DEF vars
<1>1. TypeOK' /\ ViewsFresh'
  BY DEF IInv, TypeOK, ViewsFresh
<1>2. PICK k : k = cache
  OBVIOUS
<1>3. ~foreign' => Fresh(k)'
  BY <1>2, SameDatabase DEF IInv
<1> QED BY <1>1, <1>2, <1>3 DEF IInv, Fresh

-----------------------------------------------------------------------------
(* Results *)

(* The inductive invariant holds in every reachable state. *)
THEOREM Invariance == Spec => []IInv
<1>1. IInv /\ [Next]_vars => IInv'
  BY EmuKeeps, OutKeeps, UndefineKeeps, PatchKeeps, RelayoutKeeps, ClearKeeps,
     StutterKeeps DEF Next
<1> QED BY InitEstablishes, <1>1, PTL DEF Spec

(* The variables of the cache keep their types. *)
THEOREM Types == Spec => []TypeOK
<1>1. IInv => TypeOK
  BY DEF IInv
<1> QED BY Invariance, <1>1, PTL

(***************************************************************************)
(* The state an event sees does not depend on which rows were emulated     *)
(* before it (processor.cpp:709-753).                                      *)
(***************************************************************************)
THEOREM ViewsAreFresh == Spec => []ViewsFresh
<1>1. IInv => ViewsFresh
  BY DEF IInv
<1> QED BY Invariance, <1>1, PTL

(***************************************************************************)
(* Every row of the function that can be emulated has a cached state, so   *)
(* replay_until never answers for the body (processor.cpp:664-678).        *)
(***************************************************************************)
THEOREM BodyIsCovered == Spec => []CacheCoversBody
<1>1. IInv => CacheCoversBody
  <2> SUFFICES ASSUME IInv, cache.valid, ~foreign
               PROVE  DOMAIN cache.states = Body(cache)
    BY DEF CacheCoversBody, Body
  <2> QED BY DEF IInv, Fresh
<1> QED BY Invariance, <1>1, PTL

(* A replay of no rows. *)
LEMMA NoEffects == Effects({}) = NoRows
BY DEF Effects, NoRows

(***************************************************************************)
(* Once the branches of the body are recorded, replay_until computes what  *)
(* build has cached, though it looks for join points in the references     *)
(* only, at every cursor and not at the row itself                         *)
(* (processor.cpp:619-637 against 719-753).                                *)
(***************************************************************************)
THEOREM ReplaysDoAgree == Spec => []ReplaysAgree
<1>1. IInv => ReplaysAgree
  <2> SUFFICES ASSUME IInv, cache.valid, ~foreign,
                      \A r \in DOMAIN cache.states : BranchRefs(r) \subseteq xrefs,
                      \A c \in cache.start .. cache.end - 1 : HasXref(c) => Decodes(c),
                      NEW c \in DOMAIN cache.states, ~HasXref(c)
               PROVE  cache.states[c] = ReplayUntil(cache.start, c)
    BY DEF ReplaysAgree
  <2>1. PICK s \in Int, e \in Int : s = cache.start /\ e = cache.end
    BY TopAssumption DEF IInv, TypeOK, Cell
  <2>2. /\ DOMAIN cache.states = {q \in s .. e - 1 : Decodes(q)}
        /\ cache.states[c] = StraightLineBefore(cache, c)
    BY <2>1 DEF IInv, Fresh, Body
  <2>3. c \in Int /\ s <= c /\ c <= e - 1 /\ Decodes(c)
    BY <2>2
  <2> DEFINE straight == {q \in s .. c - 1 :
                            Decodes(q) /\ ~\E j \in Joins(cache) : Decodes(j) /\ q < j /\ j <= c}
  <2>4. cache.states[c] = Effects(straight)
    BY <2>1, <2>2 DEF StraightLineBefore, Effects
  <2>5. CASE c <= s
    <3>1. straight = {}
      BY <2>3, <2>5
    <3> HIDE DEF straight
    <3> QED BY <2>1, <2>4, <2>5, <3>1, NoEffects DEF ReplayUntil
  <2>6. CASE s < c
    <3> DEFINE restarts == {r \in Cursors(s, c) : HasXref(r)}
    <3>1. RowsOf(s, c) = {q \in s .. c - 1 : Decodes(q)}
      BY <2>3, RowsOfIsBody
    <3>2. Cursors(s, c) \subseteq s .. c - 1 /\ RowsOf(s, c) \subseteq Cursors(s, c)
      BY <2>3, CursorSteps DEF RowsOf
    <3>3. restarts \in SUBSET Int /\ RowsOf(s, c) \in SUBSET Int
      BY <3>1, <3>2
    <3>4. ReplayUntil(s, c) = Effects(Unseparated(RowsOf(s, c), restarts, s, c))
      <4>1. ReplayUntil(s, c) = Replayed(RowsOf(s, c), restarts, s, c)
        BY <2>3, <2>6 DEF ReplayUntil
      <4> HIDE DEF restarts
      <4> QED BY <2>3, <3>3, <4>1, ReplayedRows
    <3>5. ASSUME NEW j \in Int, s < j, j <= c
          PROVE  j \in restarts <=> j \in Joins(cache) /\ Decodes(j)
      <4>1. j \in s .. e - 1
        BY <2>3, <3>5
      <4>2. ASSUME j \in Joins(cache)
            PROVE  HasXref(j)
        <5> SUFFICES ASSUME NEW r \in s .. e - 1, Decodes(r), Row(r).branch = j
                     PROVE  HasXref(j)
          BY <2>1, <4>2 DEF Joins
        <5>1. <<r, j>> \in BranchRefs(r)
          BY NoneAssumption DEF BranchRefs
        <5>2. <<r, j>> \in xrefs
          BY <2>2, <5>1
        <5> QED BY <5>2 DEF HasXref
      <4>3. HasXref(j) => j \in Joins(cache) /\ Decodes(j) /\ j # c
        BY <2>1, <3>5, <4>1 DEF Joins
      <4>4. Decodes(j) /\ j # c => j \in Cursors(s, c)
        BY <2>3, <3>1, <3>2, <3>5
      <4> QED BY <4>2, <4>3, <4>4
    <3>6. Unseparated(RowsOf(s, c), restarts, s, c) = straight
      <4>1. \A j \in restarts : j \in Int
        BY <3>3
      <4>2. \A j \in Joins(cache) : j \in Int
        BY <2>1 DEF Joins
      <4> HIDE DEF restarts
      <4>3. ASSUME NEW q \in s .. c - 1
            PROVE  (\E j \in restarts : q < j /\ j <= c) <=>
                   (\E j \in Joins(cache) : Decodes(j) /\ q < j /\ j <= c)
        BY <3>5, <4>1, <4>2
      <4>4. \A q : q \in Unseparated(RowsOf(s, c), restarts, s, c) <=>
                   /\ q \in s .. c - 1 /\ Decodes(q)
                   /\ ~\E j \in restarts : q < j /\ j <= c
        BY <2>3, <3>1 DEF Unseparated
      <4>5. \A q : q \in straight <=>
                   /\ q \in s .. c - 1 /\ Decodes(q)
                   /\ ~\E j \in Joins(cache) : Decodes(j) /\ q < j /\ j <= c
        OBVIOUS
      <4> HIDE DEF straight
      <4> QED BY <4>3, <4>4, <4>5
    <3> QED BY <2>1, <2>4, <3>4, <3>6
  <2> QED BY <2>3, <2>5, <2>6
<1> QED BY Invariance, <1>1, PTL

-----------------------------------------------------------------------------
(* Refinement *)

(* What an instance of the promise says of the code is what is said here. *)
LEMMA SameCode ==
    /\ Direct!Cell = Cell /\ Direct!Bundle = Bundle /\ Direct!NoRows = NoRows
    /\ \A c : Direct!Decodes(c) <=> Decodes(c)
    /\ \A c : Direct!Row(c) = Row(c)
    /\ \A c : Direct!FunctionsOf(c) = FunctionsOf(c)
    /\ \A f, c : Direct!StraightLineBefore(f, c) = StraightLineBefore(f, c)
    /\ \A state : Direct!KnowsRegister(state) <=> KnowsRegister(state)
    /\ \A c : Direct!BranchRefs(c) = BranchRefs(c)
    /\ \A c : Direct!IndirectTarget(c) = IndirectTarget(c)
<1>1. /\ Direct!Cell = Cell /\ Direct!Bundle = Bundle /\ Direct!NoRows = NoRows
      /\ \A c : Direct!Decodes(c) <=> Decodes(c)
      /\ \A c : Direct!Row(c) = Row(c)
  BY DEF Cell, Direct!Cell, Bundle, Direct!Bundle, NoRows, Direct!NoRows,
         Decodes, Direct!Decodes, RowsAt, Direct!RowsAt, Row, Direct!Row
<1>2. \A c : Direct!FunctionsOf(c) = FunctionsOf(c)
  BY DEF FunctionsOf, Direct!FunctionsOf, Owns, Direct!Owns
<1>3. \A f : Direct!Joins(f) = Joins(f)
  BY <1>1 DEF Joins, Direct!Joins, HasXref, Direct!HasXref
<1>4. \A f, c : Direct!StraightLineBefore(f, c) = StraightLineBefore(f, c)
  BY <1>1, <1>3 DEF StraightLineBefore, Direct!StraightLineBefore
<1>5. \A state : Direct!KnowsRegister(state) <=> KnowsRegister(state)
  BY DEF KnowsRegister, Direct!KnowsRegister
<1>6. /\ \A c : Direct!BranchRefs(c) = BranchRefs(c)
      /\ \A c : Direct!IndirectTarget(c) = IndirectTarget(c)
  BY <1>1 DEF BranchRefs, Direct!BranchRefs, IndirectTarget, Direct!IndirectTarget
<1> QED BY <1>1, <1>2, <1>4, <1>5, <1>6

KeyRecord(k) == [valid |-> k.valid, start |-> k.start, end |-> k.end]

(* What the cache cannot foresee depends on its key alone. *)
LEMMA SameUnforeseen ==
    ASSUME NEW refs, NEW k
    PROVE  /\ Direct!Unforeseen(refs, KeyRecord(k)) = Unforeseen(refs, k)
           /\ \A c : Direct!Cached(KeyRecord(k), c) <=> Cached(k, c)
<1>1. \A c : Direct!Cached(KeyRecord(k), c) <=> Cached(k, c)
  BY DEF Direct!Cached, Cached, KeyRecord
<1>2. \A x : Direct!Foreseen(x, KeyRecord(k)) <=> Foreseen(x, k)
  BY <1>1, SameCode DEF Direct!Foreseen, Foreseen
<1> QED BY <1>1, <1>2 DEF Direct!Unforeseen, Unforeseen

(***************************************************************************)
(* A lookup answers as a fresh look at the function does, and builds the   *)
(* function only when it may (FunctionReplayCache::state_at).              *)
(***************************************************************************)
LEMMA LookupAnswers ==
    ASSUME IInv, NEW c \in Cell, Decodes(c), Lookup(c),
           NEW built \in BOOLEAN, built <=> Rebuilt(c),
           NEW known \in BOOLEAN, known <=> KnowsRegister(StateSeen(c))
    PROVE  Direct!Consult(c, built, known)
<1>1. CASE FunctionsOf(c) = {}
  <2>1. view' = NoView /\ cache' = cache /\ ~built
    BY <1>1 DEF Lookup, Rebuilt
  <2>2. ~known
    BY <1>1 DEF StateSeen, KnowsRegister, NoRows
  <2> QED BY <1>1, <2>1, <2>2, SameCode DEF Direct!Consult, NoView
<1>2. CASE FunctionsOf(c) # {}
  <2>1. PICK f \in FunctionsOf(c) : cache' = CacheFor(f, c) /\ view' = View(f, c)
    BY <1>2 DEF Lookup
  <2>2. PICK k : k = CacheFor(f, c)
    OBVIOUS
  <2>3. TypeOK /\ \A g \in FunctionsOf(c) : g = f
    BY OneOwner DEF IInv
  <2>4. built <=> MustBuild(f, c)
    BY <2>3 DEF Rebuilt
  <2>5. StateSeen(c) = StateAt(f, c, k)
    BY <1>2, <2>2, <2>3 DEF StateSeen
  <2>6. /\ k.valid = TRUE /\ k.start = f.start /\ k.end = f.end
        /\ f.start <= c /\ c < f.end /\ (MustBuild(f, c) \/ ~foreign)
             => StateAt(f, c, k) = StraightLineBefore(f, c)
        /\ ~foreign => (MustBuild(f, c) <=> ~Matches(f) \/ ~(f.start <= c /\ c < f.end))
    BY <2>2, StateIsFresh
  <2>7. Matches(f) <=> KeyRecord(cache) = Direct!KeyOf(f)
    BY <2>3 DEF Matches, KeyRecord, Direct!KeyOf, TypeOK
  <2>8. Direct!MayBuild(f, c, built)
    <3>1. ~Matches(f) => MustBuild(f, c)
      BY DEF MustBuild
    <3>2. Direct!InBody(f, c) <=> f.start <= c /\ c < f.end
      BY DEF Direct!InBody
    <3> QED BY <2>4, <2>6, <2>7, <3>1, <3>2, Zenon DEF Direct!MayBuild, KeyRecord
  <2>9. KeyRecord(cache') = Direct!KeyOf(f)
    BY <2>1, <2>2, <2>6 DEF KeyRecord, Direct!KeyOf
  <2>10. IF Direct!InBody(f, c) /\ (built \/ ~foreign)
         THEN /\ view'.got = StraightLineBefore(f, c)
              /\ known <=> KnowsRegister(StraightLineBefore(f, c))
         ELSE view'.got = NoRows
    <3>1. CASE Direct!InBody(f, c) /\ (built \/ ~foreign)
      <4>1. StateAt(f, c, k) = StraightLineBefore(f, c)
        BY <2>4, <2>6, <3>1 DEF Direct!InBody
      <4>2. view'.got = StateAt(f, c, k)
        BY <2>1, <2>2, <2>4, <3>1 DEF View, Direct!InBody
      <4> QED BY <2>5, <3>1, <4>1, <4>2
    <3>2. CASE ~(Direct!InBody(f, c) /\ (built \/ ~foreign))
      <4>1. view' = NoView
        BY <2>1, <2>4, <3>2 DEF View, Direct!InBody
      <4> QED BY <3>2, <4>1 DEF NoView
    <3> QED BY <3>1, <3>2
  <2> QED BY <2>8, <2>9, <2>10, SameCode DEF Direct!Consult, KeyRecord
<1> QED BY <1>1, <1>2

(* Emulating a row records the references of what a fresh look sees. *)
LEMMA EmuIsDirect ==
    ASSUME IInv, NEW c \in Cell, Emu(c)
    PROVE  Direct!Emu(c)
<1>1. PICK built \in BOOLEAN : built <=> Rebuilt(c)
  BY Zenon
<1>2. PICK known \in BOOLEAN : known <=> KnowsRegister(StateSeen(c))
  BY Zenon
<1>3. Decodes(c) /\ Lookup(c) /\ UNCHANGED <<memory, funcs>>
  BY DEF Emu
<1>4. Direct!Consult(c, built, known)
  BY <1>1, <1>2, <1>3, LookupAnswers
<1>5. PICK refs : /\ refs = IndirectRefs(c, StateSeen(c)) \cup BranchRefs(c)
                  /\ xrefs' = xrefs \cup refs
                  /\ foreign' = \/ foreign /\ ~Rebuilt(c)
                                \/ Unforeseen(refs \ xrefs, cache') # {}
  BY DEF Emu
<1>6. refs = Direct!BranchRefs(c) \cup (IF known THEN Direct!IndirectTarget(c) ELSE {})
  BY <1>2, <1>5, SameCode DEF IndirectRefs
<1>7. Direct!Unforeseen(refs \ xrefs, KeyRecord(cache')) = Unforeseen(refs \ xrefs, cache')
  BY SameUnforeseen
<1>8. foreign' = ((foreign /\ ~built) \/ Direct!Unforeseen(refs \ xrefs, KeyRecord(cache')) # {})
  BY <1>1, <1>5, <1>7, Zenon
<1>9. Direct!Decodes(c)
  BY <1>3, SameCode
<1> QED BY <1>3, <1>4, <1>5, <1>6, <1>8, <1>9, Zenon DEF Direct!Emu, KeyRecord

(* Rendering a row looks, and changes nothing but what is built. *)
LEMMA OutIsDirect ==
    ASSUME IInv, NEW c \in Cell, Out(c)
    PROVE  Direct!Out(c)
<1>1. PICK built \in BOOLEAN : built <=> Rebuilt(c)
  BY Zenon
<1>2. PICK known \in BOOLEAN : known <=> KnowsRegister(StateSeen(c))
  BY Zenon
<1>3. Decodes(c) /\ Lookup(c) /\ UNCHANGED <<memory, xrefs, funcs>>
  BY DEF Out
<1>4. Direct!Consult(c, built, known)
  BY <1>1, <1>2, <1>3, LookupAnswers
<1>5. foreign' = (foreign /\ ~built)
  BY <1>1, Zenon DEF Out
<1>6. Direct!Decodes(c)
  BY <1>3, SameCode
<1> QED BY <1>3, <1>4, <1>5, <1>6, Zenon DEF Direct!Out

(* What changes the database leaves the key, which alone decides whether   *)
(* the change goes unnoticed.                                              *)
LEMMA ChangesAreDirect ==
    /\ \A c \in Cell : Undefine(c) => Direct!Undefine(c)
    /\ \A b \in Bundle : Patch(b) => Direct!Patch(b)
    /\ Relayout => Direct!Relayout
    /\ Clear => Direct!Forget
<1>1. ASSUME NEW c \in Cell, Undefine(c) PROVE Direct!Undefine(c)
  <2>1. PICK gone : /\ gone = {x \in xrefs : x[1] = c}
                    /\ xrefs' = xrefs \ gone
                    /\ foreign' = (foreign \/ Unforeseen(gone, cache) # {})
    BY <1>1 DEF Undefine
  <2>2. view'.got = Direct!NoRows /\ UNCHANGED <<memory, funcs, cache>>
    BY <1>1, SameCode DEF Undefine, NoView
  <2>3. Direct!Unforeseen(gone, KeyRecord(cache)) = Unforeseen(gone, cache)
    BY SameUnforeseen
  <2> QED BY <2>1, <2>2, <2>3, Zenon DEF Direct!Undefine, KeyRecord
<1>2. ASSUME NEW b \in Bundle, Patch(b) PROVE Direct!Patch(b)
  <2>1. \E new \in Contents : memory' = [memory EXCEPT ![b] = new]
    BY <1>2 DEF Patch
  <2>2. /\ foreign' = (foreign \/ \E c \in {2 * b, 2 * b + 1} : Cached(cache, c))
        /\ view'.got = Direct!NoRows /\ UNCHANGED <<xrefs, funcs, cache>>
    BY <1>2, SameCode DEF Patch, NoView
  <2>3. \A c : Direct!Cached(KeyRecord(cache), c) <=> Cached(cache, c)
    BY SameUnforeseen
  <2>4. foreign' = (foreign \/ \E c \in {2 * b, 2 * b + 1} : Direct!Cached(KeyRecord(cache), c))
    BY <2>2, <2>3, Zenon
  <2> QED BY <2>1, <2>2, <2>4, Zenon DEF Direct!Patch, KeyRecord
<1>3. ASSUME Relayout PROVE Direct!Relayout
  BY <1>3, SameCode DEF Relayout, Direct!Relayout, NoView
<1>4. ASSUME Clear PROVE Direct!Forget
  BY <1>4, SameCode DEF Clear, Direct!Forget, EmptyCache, Direct!NoKey, NoView
<1> QED BY <1>1, <1>2, <1>3, <1>4

(* Every step of the cache is one of its promise. *)
LEMMA StepIsDirect == IInv /\ [Next]_vars => [Direct!Next]_(Direct!directVars)
<1> SUFFICES ASSUME IInv, [Next]_vars
             PROVE  Direct!Next \/ UNCHANGED Direct!directVars
  OBVIOUS
<1>1. ASSUME NEW c \in Cell, Emu(c) \/ Out(c) \/ Undefine(c) PROVE Direct!Next
  BY <1>1, EmuIsDirect, OutIsDirect, ChangesAreDirect, SameCode DEF Direct!Next
<1>2. ASSUME NEW b \in Bundle, Patch(b) PROVE Direct!Next
  BY <1>2, ChangesAreDirect, SameCode DEF Direct!Next
<1>3. CASE Relayout \/ Clear
  BY <1>3, ChangesAreDirect DEF Direct!Next
<1>4. CASE UNCHANGED vars
  BY <1>4 DEF vars, Direct!directVars
<1> QED BY <1>1, <1>2, <1>3, <1>4 DEF Next

(***************************************************************************)
(* The cache is transparent, for every image, every set of functions and   *)
(* every order of events: what they see and record is what they would      *)
(* without it (processor.cpp:664-697, 1384-1397).                          *)
(***************************************************************************)
THEOREM CacheIsTransparent == Spec => AnswersDirectly
<1>1. Init => Direct!Init
  BY SameCode DEF Init, Direct!Init, EmptyCache, Direct!NoKey, NoView
<1> QED BY <1>1, Invariance, StepIsDirect, PTL DEF Spec, AnswersDirectly, Direct!Spec
=============================================================================
