----------------------- MODULE SegmentAllocatorProofs -----------------------
(***************************************************************************)
(* What is true of the allocator for every size of the array, of a block   *)
(* and of a block count, whatever the user asks for.                       *)
(*                                                                         *)
(* The argument is one about sets of subblocks (units): at every step the  *)
(* array is the disjoint union of the units that are free, of those of     *)
(* each segment, of those of the alloc in progress and of those lost. Each *)
(* call moves some units from one of these sets to another, and the lemmas *)
(* of the first sections say which. That alloc gives few extents is        *)
(* another argument, one about counts: each extent that is smaller than it *)
(* could be uses up one of the threshold. A third one follows the counters *)
(* of stats() through the calls.                                           *)
(***************************************************************************)
EXTENDS SegmentAllocator, ExtentLemmas

-----------------------------------------------------------------------------
(* The inductive invariant *)

SubUnits(m) == UNION {{b} \X m.fr_by_nr[b] : b \in BlkNrs}
FreeUnits(m) == (FreeBlksOf(m.fr_map) \X Subblks) \cup SubUnits(m.subfr_map)

\* The two maps are what FreeMap and SubBlockFreeMap expect, and no block is
\* in both.
MapsFit(m) ==
  /\ m = [fr_map |-> m.fr_map, subfr_map |-> m.subfr_map]
  /\ WellFormed(m.fr_map)
  /\ SubWellFormed(m.subfr_map)
  /\ \A b \in FreeBlksOf(m.fr_map) : m.subfr_map.fr_by_nr[b] = {}

\* No two places of a sequence of extents have a subblock in common.
Scattered(exts) ==
  \A i, j \in 1 .. Len(exts) : i # j => UnitsOf(exts[i]) \cap UnitsOf(exts[j]) = {}

UnitsIn(exts) == UnitsOfAll(Range(exts))

\* The units of each segment, of the alloc in progress and of nobody.
Owned == [s \in Slots |-> IF segms[s] = NoSegm THEN {} ELSE UnitsIn(segms[s].exts)]
Taken == UnitsIn(InProgress)
Lost == UnitsOfAll(leaked)

\* The units A of the array are free (F), owned (O, by slot), taken (T) or
\* lost (L), and none is two of these.
Shares(A, F, O, T, L) ==
  /\ A = F \cup T \cup L \cup UNION {O[s] : s \in Slots}
  /\ F \cap T = {} /\ F \cap L = {} /\ T \cap L = {}
  /\ \A s \in Slots :
       /\ O[s] \cap F = {} /\ O[s] \cap T = {} /\ O[s] \cap L = {}
       /\ \A t \in Slots : s # t => O[s] \cap O[t] = {}

\* What alloc has yet to get, and the frame of its call.
Todos == [blk_cnt : Nat, subblk_cnt : 0 .. SubblkCntPerBlk - 1, inline_sz : 0 .. BlkSz]
Frames ==
  [pc : {"no_grow", "may_grow", "subblks"}, op : {"alloc", "expand", "shrink"},
   slot : Slots, before : Segms \cup {NoSegm}, wanted : Nat, req : Reqs, todo : Todos,
   exts : Seq(Extents), probe : BlkCnts \ {0}, frag : Nat]

Types ==
  /\ arr \in Arrays /\ PointersOrdered(arr)
  /\ segms \in [Slots -> Segms \cup {NoSegm}]
  /\ IF Idle THEN call = [pc |-> "idle"]
     ELSE call \in Frames /\ segms[call.slot] # NoSegm
  /\ blocked \in 0 .. MaxBlocked
  /\ leaked \subseteq Extents

SharedOut ==
  /\ Shares(ArrayUnits, FreeUnits(maps), Owned, Taken, Lost)
  /\ \A s \in Slots : segms[s] # NoSegm => Scattered(segms[s].exts)
  /\ Scattered(InProgress)
  /\ \A e, f \in leaked : e # f => UnitsOf(e) \cap UnitsOf(f) = {}

\* A block without a subblock in use is in the subblock map only while alloc
\* is about to take some of it: it was provided because there was no other
\* block with as many free subblocks.
FullBlkIsForAlloc ==
  \A b \in Reclaimable(maps) :
    /\ NeedsSubblks
    /\ \A c \in BlkNrs \ {b} :
         Cardinality(maps.subfr_map.fr_by_nr[c]) < call.todo.subblk_cnt

\* What the alloc in progress has and what it has yet to get are enough for
\* what the user wants; an alloc that throws has no segment to leave behind,
\* and a realloc that throws none that the user had not.
Bytes(todo) == todo.blk_cnt * BlkSz + todo.subblk_cnt * SubblkSz + todo.inline_sz

CallIsSound ==
  ~ Idle =>
    /\ call.wanted \in Sizes
    /\ call.op = "alloc" => call.before = NoSegm /\ segms[call.slot] = EmptySegm
    /\ call.op # "alloc" =>
         /\ call.before # NoSegm
         /\ UnitsIn(segms[call.slot].exts) \subseteq UnitsIn(call.before.exts)
    /\ call.pc = "subblks" => call.todo.blk_cnt = 0
    /\ call.todo.inline_sz <= call.req.max_inline_sz
    /\ ExtsSz(segms[call.slot].exts) + ExtsSz(call.exts) + Bytes(call.todo) >= call.wanted

IInv == Types /\ MapsFit(maps) /\ SharedOut /\ FullBlkIsForAlloc /\ CallIsSound

-----------------------------------------------------------------------------
(* Units *)

\* The units of an extent, of either kind.
LEMMA ExtentUnits ==
  ASSUME NEW e \in Extents
  PROVE  /\ e.is_suballoc \in BOOLEAN
         /\ e.is_suballoc =>
              /\ e = SubExtent(e.blk_nr, e.blk_bitmap)
              /\ e.blk_nr \in BlkNrs /\ e.blk_bitmap \subseteq Subblks /\ e.blk_bitmap # {}
              /\ BlksOf(e) = {e.blk_nr}
              /\ UnitsOf(e) = {e.blk_nr} \X e.blk_bitmap
         /\ ~ e.is_suballoc =>
              /\ e \in FullExtents
              /\ BlksOf(e) \subseteq BlkNrs
              /\ UnitsOf(e) = BlksOf(e) \X Subblks
         /\ UnitsOf(e) # {}
         /\ UnitsOf(e) \subseteq BlkNrs \X Subblks
<1>0. 0 \in Subblks
  BY ExtentAssumption DEF Subblks
<1>1. CASE e \in FullExtents
  <2>1. /\ e.is_suballoc = FALSE /\ e.blk_nr \in BlkNrs /\ e.blk_cnt \in BlkCnts
        /\ e.blk_cnt # 0
        /\ BlksOf(e) = {b \in BlkNrs : e.blk_nr <= b /\ b < e.blk_nr + e.blk_cnt}
    BY <1>1, FullExtentFacts
  <2>2. e.blk_nr \in BlksOf(e) /\ BlksOf(e) \subseteq BlkNrs
    BY <2>1, ExtentAssumption DEF BlkNrs, BlkCnts
  <2>3. UnitsOf(e) = BlksOf(e) \X Subblks
    BY <2>1 DEF UnitsOf
  <2>4. <<e.blk_nr, 0>> \in UnitsOf(e)
    BY <1>0, <2>2, <2>3
  <2>5. UnitsOf(e) \subseteq BlkNrs \X Subblks
    BY <2>2, <2>3
  <2> QED
    BY <1>1, <2>1, <2>2, <2>3, <2>4, <2>5
<1>2. CASE e \in [is_suballoc : {TRUE}, blk_nr : BlkNrs, blk_bitmap : Bitmaps \ {{}}]
  <2>1. /\ e.is_suballoc = TRUE /\ e.blk_nr \in BlkNrs
        /\ e.blk_bitmap \in Bitmaps /\ e.blk_bitmap # {}
        /\ e = SubExtent(e.blk_nr, e.blk_bitmap)
    BY <1>2 DEF SubExtent
  <2>2. PastEndBlkNr(e) = e.blk_nr + 1
    BY <2>1 DEF PastEndBlkNr, BlkSpan
  <2>3. BlksOf(e) = {e.blk_nr}
    BY <2>1, <2>2, ExtentAssumption DEF BlksOf, BlkNrs
  <2>4. UnitsOf(e) = {e.blk_nr} \X e.blk_bitmap
    BY <2>1, <2>3 DEF UnitsOf
  <2>5. PICK i \in Subblks : i \in e.blk_bitmap
    BY <2>1 DEF Bitmaps
  <2>6. <<e.blk_nr, i>> \in UnitsOf(e)
    BY <2>4, <2>5
  <2>7. UnitsOf(e) \subseteq BlkNrs \X Subblks
    BY <2>1, <2>4 DEF Bitmaps
  <2> QED
    BY <2>1, <2>3, <2>4, <2>6, <2>7 DEF Bitmaps
<1> QED
  BY <1>1, <1>2 DEF Extents

\* The free units of two maps, one by one.
LEMMA InFreeUnits ==
  ASSUME NEW m, MapsFit(m)
  PROVE  /\ FreeUnits(m) \subseteq BlkNrs \X Subblks
         /\ FreeBlksOf(m.fr_map) \subseteq BlkNrs
         /\ m.subfr_map.fr_by_nr \in [BlkNrs -> Bitmaps]
         /\ \A b, i : <<b, i>> \in FreeUnits(m) <=>
                        \/ b \in FreeBlksOf(m.fr_map) /\ i \in Subblks
                        \/ b \in BlkNrs /\ i \in m.subfr_map.fr_by_nr[b]
<1>1. FreeBlksOf(m.fr_map) \subseteq BlkNrs
  BY DEF FreeBlksOf
<1>2. m.subfr_map.fr_by_nr \in [BlkNrs -> Bitmaps]
  BY DEF MapsFit, SubWellFormed, SubFreeMaps
<1>3. SubUnits(m.subfr_map) \subseteq BlkNrs \X Subblks
  BY <1>2 DEF SubUnits, Bitmaps
<1>4. \A b, i : <<b, i>> \in SubUnits(m.subfr_map)
                  <=> b \in BlkNrs /\ i \in m.subfr_map.fr_by_nr[b]
  BY DEF SubUnits
<1> QED
  BY <1>1, <1>2, <1>3, <1>4 DEF FreeUnits

\* The units of a sequence of extents, place by place.
LEMMA UnitsOfSeq ==
  ASSUME NEW exts \in Seq(Extents)
  PROVE  /\ UnitsIn(exts) = UNION {UnitsOf(exts[i]) : i \in 1 .. Len(exts)}
         /\ UnitsIn(exts) \subseteq BlkNrs \X Subblks
<1>1. Range(exts) = {exts[i] : i \in 1 .. Len(exts)}
  BY RangeEquality
<1>2. UnitsIn(exts) = UNION {UnitsOf(exts[i]) : i \in 1 .. Len(exts)}
  BY <1>1 DEF UnitsIn, UnitsOfAll
<1>3. \A i \in 1 .. Len(exts) : UnitsOf(exts[i]) \subseteq BlkNrs \X Subblks
  <2>1. \A i \in 1 .. Len(exts) : exts[i] \in Extents
    BY ElementOfSeq
  <2> QED
    BY <2>1, ExtentUnits
<1> QED
  BY <1>2, <1>3

\* Two sets of units are the same if they have the same units.
LEMMA SameUnits ==
  ASSUME NEW A, NEW B, A \subseteq BlkNrs \X Subblks, B \subseteq BlkNrs \X Subblks,
         \A b \in BlkNrs, i \in Subblks : <<b, i>> \in A <=> <<b, i>> \in B
  PROVE  A = B
OBVIOUS

-----------------------------------------------------------------------------
(* What dealloc does to the two maps *)

\* An extent that is given back, of which nothing was free.
LEMMA DeallocExtFits ==
  ASSUME NEW m, MapsFit(m), NEW e \in Extents, UnitsOf(e) \cap FreeUnits(m) = {}
  PROVE  /\ MapsFit(DeallocExt(m, e))
         /\ FreeUnits(DeallocExt(m, e)) = FreeUnits(m) \cup UnitsOf(e)
<1> DEFINE f == m.fr_map
           g == m.subfr_map
           n == DeallocExt(m, e)
<1>0. /\ 0 \in Subblks
      /\ m = [fr_map |-> f, subfr_map |-> g]
      /\ WellFormed(f) /\ SubWellFormed(g)
      /\ \A b \in FreeBlksOf(f) : g.fr_by_nr[b] = {}
  BY ExtentAssumption DEF Subblks, MapsFit
<1>1. /\ FreeUnits(m) \subseteq BlkNrs \X Subblks
      /\ FreeBlksOf(f) \subseteq BlkNrs
      /\ g.fr_by_nr \in [BlkNrs -> Bitmaps]
      /\ \A b, i : <<b, i>> \in FreeUnits(m) <=>
                     \/ b \in FreeBlksOf(f) /\ i \in Subblks
                     \/ b \in BlkNrs /\ i \in g.fr_by_nr[b]
  BY InFreeUnits
<1>2. CASE ~ e.is_suballoc
  <2>1. /\ e \in FullExtents /\ BlksOf(e) \subseteq BlkNrs
        /\ UnitsOf(e) = BlksOf(e) \X Subblks
    BY <1>2, ExtentUnits
  <2>2. BlksOf(e) \cap FreeBlksOf(f) = {}
    BY <1>0, <1>1, <2>1
  <2>3. /\ WellFormed(Dealloc(f, e))
        /\ FreeBlksOf(Dealloc(f, e)) = FreeBlksOf(f) \cup BlksOf(e)
    BY <1>0, <2>1, <2>2, AlreadyFreedExact, DeallocCorrect
  <2>4. n = [fr_map |-> Dealloc(f, e), subfr_map |-> g]
    BY <1>0, <1>2 DEF DeallocExt
  <2>5. ASSUME NEW b \in BlksOf(e) PROVE g.fr_by_nr[b] = {}
    <3>1. \A i \in Subblks : <<b, i>> \notin FreeUnits(m)
      BY <2>1
    <3> QED
      BY <1>1, <2>1, <3>1 DEF Bitmaps
  <2> HIDE DEF f, g, n
  <2>6. MapsFit(n)
    BY <1>0, <2>3, <2>4, <2>5 DEF MapsFit
  <2>7. /\ FreeUnits(n) \subseteq BlkNrs \X Subblks
        /\ \A b, i : <<b, i>> \in FreeUnits(n) <=>
                       \/ b \in FreeBlksOf(n.fr_map) /\ i \in Subblks
                       \/ b \in BlkNrs /\ i \in n.subfr_map.fr_by_nr[b]
    BY <2>6, InFreeUnits
  <2>8. \A b \in BlkNrs, i \in Subblks :
          <<b, i>> \in FreeUnits(n) <=> <<b, i>> \in FreeUnits(m) \cup UnitsOf(e)
    <3>1. n.fr_map = Dealloc(f, e) /\ n.subfr_map = g
      BY <2>4
    <3>2. \A b, i : <<b, i>> \in UnitsOf(e) <=> b \in BlksOf(e) /\ i \in Subblks
      BY <2>1
    <3>3. \A b : b \in FreeBlksOf(n.fr_map) <=> b \in FreeBlksOf(f) \/ b \in BlksOf(e)
      BY <2>3, <3>1
    <3> QED
      BY <1>1, <2>7, <3>1, <3>2, <3>3
  <2>9. FreeUnits(n) = FreeUnits(m) \cup UnitsOf(e)
    <3>1. FreeUnits(m) \cup UnitsOf(e) \subseteq BlkNrs \X Subblks
      BY <1>1, ExtentUnits
    <3> QED
      BY <2>7, <2>8, <3>1, SameUnits
  <2> QED
    BY <2>6, <2>9 DEF n
<1>3. CASE e.is_suballoc
  <2> DEFINE nr == e.blk_nr
             free == g.fr_by_nr[nr]
  <2>1. /\ nr \in BlkNrs /\ e.blk_bitmap \subseteq Subblks /\ e.blk_bitmap # {}
        /\ UnitsOf(e) = {nr} \X e.blk_bitmap
    BY <1>3, ExtentUnits
  <2>2. nr \notin FreeBlksOf(f)
    <3>1. PICK i \in Subblks : i \in e.blk_bitmap
      BY <2>1
    <3>2. <<nr, i>> \notin FreeUnits(m)
      BY <2>1, <3>1
    <3> QED
      BY <1>1, <3>2
  <2>3. free \cup e.blk_bitmap \in Bitmaps
    BY <1>1, <2>1 DEF Bitmaps
  <2>4. /\ SubWellFormed(DeallocSub(g, nr, e.blk_bitmap))
        /\ DeallocSub(g, nr, e.blk_bitmap).fr_by_nr =
             [g.fr_by_nr EXCEPT ![nr] = free \cup e.blk_bitmap]
    <3> HIDE DEF g, nr
    <3>1. DeallocSub(g, nr, e.blk_bitmap) = Rebinned(g, nr, g.fr_by_nr[nr], free \cup e.blk_bitmap)
      BY DEF DeallocSub
    <3> HIDE DEF free
    <3>2. /\ SubWellFormed(Rebinned(g, nr, g.fr_by_nr[nr], free \cup e.blk_bitmap))
          /\ Rebinned(g, nr, g.fr_by_nr[nr], free \cup e.blk_bitmap).fr_by_nr =
               [g.fr_by_nr EXCEPT ![nr] = free \cup e.blk_bitmap]
      BY <1>0, <2>1, <2>3, RebinnedCorrect
    <3> QED
      BY <3>1, <3>2
  <2>5. n = [fr_map |-> f, subfr_map |-> DeallocSub(g, nr, e.blk_bitmap)]
    BY <1>0, <1>3 DEF DeallocExt
  <2> HIDE DEF f, g, n, nr
  <2>6. MapsFit(n)
    BY <1>0, <1>1, <2>1, <2>2, <2>4, <2>5 DEF MapsFit
  <2>7. /\ FreeUnits(n) \subseteq BlkNrs \X Subblks
        /\ \A b, i : <<b, i>> \in FreeUnits(n) <=>
                       \/ b \in FreeBlksOf(n.fr_map) /\ i \in Subblks
                       \/ b \in BlkNrs /\ i \in n.subfr_map.fr_by_nr[b]
    BY <2>6, InFreeUnits
  <2>8. \A b \in BlkNrs, i \in Subblks :
          <<b, i>> \in FreeUnits(n) <=> <<b, i>> \in FreeUnits(m) \cup UnitsOf(e)
    <3>1. \A b \in BlkNrs : n.subfr_map.fr_by_nr[b] =
                            IF b = nr THEN g.fr_by_nr[b] \cup e.blk_bitmap ELSE g.fr_by_nr[b]
      BY <1>1, <2>1, <2>4, <2>5
    <3>2. n.fr_map = f
      BY <2>5
    <3>3. \A b, i : <<b, i>> \in UnitsOf(e) <=> b = nr /\ i \in e.blk_bitmap
      BY <2>1
    <3> QED
      BY <1>1, <2>1, <2>7, <3>1, <3>2, <3>3
  <2>9. FreeUnits(n) = FreeUnits(m) \cup UnitsOf(e)
    <3>1. FreeUnits(m) \cup UnitsOf(e) \subseteq BlkNrs \X Subblks
      BY <1>1, ExtentUnits
    <3> QED
      BY <2>7, <2>8, <3>1, SameUnits
  <2> QED
    BY <2>6, <2>9 DEF n
<1> QED
  BY <1>2, <1>3, ExtentUnits

\* The loop of dealloc, one extent after another: the maps after n of them.
DeallocLoop(after, m, exts) ==
  /\ DeallocExts(m, exts) = after[Len(exts)]
  /\ after[0] = m
  /\ \A n \in 1 .. Len(exts) : after[n] = DeallocExt(after[n - 1], exts[n])

\* The maps after each of the extents of a segment.
LEMMA DeallocExtsSteps ==
  ASSUME NEW m, NEW exts \in Seq(Extents)
  PROVE  \E after : DeallocLoop(after, m, exts)
<1> DEFINE L == Len(exts)
           UpTo(k, g) == g = [n \in 0 .. k |-> IF n = 0 THEN m ELSE DeallocExt(g[n - 1], exts[n])]
           None == {k \in 0 .. L : ~ \E g : UpTo(k, g)}
<1>0. L \in Nat
  BY LenProperties
<1>1. None = {}
  <2> SUFFICES ASSUME None # {} PROVE FALSE
    OBVIOUS
  <2>1. None \in SUBSET Nat
    BY <1>0
  <2> HIDE DEF UpTo
  <2>2. PICK k \in None : \A j \in None : k <= j
    <3> HIDE DEF None
    <3> QED
      BY <2>1, LeastExists
  <2>3. k \in 0 .. L /\ ~ \E g : UpTo(k, g)
    BY <2>2
  <2>4. CASE k = 0
    <3> DEFINE g == [n \in 0 .. 0 |-> m]
    <3>1. UpTo(0, g)
      BY DEF UpTo
    <3> QED
      BY <2>3, <2>4, <3>1
  <2>5. CASE k # 0
    <3>1. k - 1 \in 0 .. L /\ k - 1 \notin None
      BY <1>0, <2>2, <2>3, <2>5
    <3>2. PICK g : UpTo(k - 1, g)
      BY <3>1
    <3> DEFINE h == [n \in 0 .. k |-> IF n = k THEN DeallocExt(g[k - 1], exts[k]) ELSE g[n]]
    <3>3. /\ \A n \in 0 .. k - 1 : h[n] = g[n] /\ n \in 0 .. k
          /\ h[k] = DeallocExt(g[k - 1], exts[k])
      BY <2>3
    <3>4. \A n \in 0 .. k - 1 :
            g[n] = IF n = 0 THEN m ELSE DeallocExt(g[n - 1], exts[n])
      BY <3>2 DEF UpTo
    <3>5. ASSUME NEW n \in 0 .. k
          PROVE  h[n] = IF n = 0 THEN m ELSE DeallocExt(h[n - 1], exts[n])
      <4>1. CASE n = k
        <5>1. k - 1 \in 0 .. k - 1
          BY <2>3, <2>5
        <5> QED
          BY <2>5, <3>3, <4>1, <5>1
      <4>2. CASE n # k
        <5>1. n \in 0 .. k - 1 /\ (n # 0 => n - 1 \in 0 .. k - 1)
          BY <2>3, <4>2
        <5> QED
          BY <3>3, <3>4, <5>1
      <4> QED
        BY <4>1, <4>2
    <3>6. h = [n \in 0 .. k |-> IF n = 0 THEN m ELSE DeallocExt(h[n - 1], exts[n])]
      <4>1. h = [n \in 0 .. k |-> h[n]]
        OBVIOUS
      <4> HIDE DEF h
      <4> QED
        BY <3>5, <4>1
    <3>7. UpTo(k, h)
      <4> HIDE DEF h
      <4> QED
        BY <3>6 DEF UpTo
    <3> QED
      BY <2>3, <3>7
  <2> QED
    BY <2>4, <2>5
<1>2. \E g : UpTo(L, g)
  <2> HIDE DEF UpTo
  <2> QED
    BY <1>0, <1>1
<1> DEFINE after == CHOOSE g : UpTo(L, g)
<1>3. UpTo(L, after)
  <2> HIDE DEF UpTo
  <2> QED
    BY <1>2
<1>4. DeallocExts(m, exts) = after[L]
  BY DEF DeallocExts
<1> HIDE DEF after
<1>5. /\ after[0] = m
      /\ \A n \in 1 .. L : after[n] = DeallocExt(after[n - 1], exts[n])
  BY <1>0, <1>3
<1> QED
  BY <1>4, <1>5 DEF DeallocLoop

\* The extents of a segment that are given back, of which nothing was free and
\* no two have a subblock in common: their units, and only those, are free.
LEMMA DeallocExtsFits ==
  ASSUME NEW m, MapsFit(m), NEW exts \in Seq(Extents), Scattered(exts),
         UnitsIn(exts) \cap FreeUnits(m) = {}
  PROVE  /\ MapsFit(DeallocExts(m, exts))
         /\ FreeUnits(DeallocExts(m, exts)) = FreeUnits(m) \cup UnitsIn(exts)
<1> DEFINE L == Len(exts)
           U(k) == UNION {UnitsOf(exts[i]) : i \in 1 .. k}
<1>0. L \in Nat /\ exts \in [1 .. L -> Extents]
  BY SeqDef
<1>1. UnitsIn(exts) = U(L)
  BY UnitsOfSeq
<1>a. PICK after : DeallocLoop(after, m, exts)
  BY DeallocExtsSteps
<1>2. /\ DeallocExts(m, exts) = after[L]
      /\ after[0] = m
      /\ \A n \in 1 .. L : after[n] = DeallocExt(after[n - 1], exts[n])
  BY <1>a DEF DeallocLoop
<1> DEFINE Good(k) == MapsFit(after[k]) /\ FreeUnits(after[k]) = FreeUnits(m) \cup U(k)
           Bad == {k \in 0 .. L : ~ Good(k)}
<1>3. ASSUME Bad # {} PROVE FALSE
  <2>1. Bad \in SUBSET Nat
    BY <1>0
  <2> HIDE DEF Good
  <2>2. PICK k \in Bad : \A j \in Bad : k <= j
    <3> HIDE DEF Bad
    <3> QED
      BY <1>3, <2>1, LeastExists
  <2>3. k \in 0 .. L /\ ~ Good(k)
    BY <2>2
  <2>4. CASE k = 0
    <3>1. U(0) = {}
      OBVIOUS
    <3> QED
      BY <1>2, <2>3, <2>4, <3>1 DEF Good
  <2>5. CASE k # 0
    <3>1. k - 1 \in 0 .. L /\ k - 1 \notin Bad /\ k \in 1 .. L
      BY <1>0, <2>2, <2>3, <2>5
    <3>2. /\ MapsFit(after[k - 1])
          /\ FreeUnits(after[k - 1]) = FreeUnits(m) \cup U(k - 1)
      BY <3>1 DEF Good
    <3>3. U(k) = U(k - 1) \cup UnitsOf(exts[k])
      <4>1. 1 .. k = (1 .. k - 1) \cup {k}
        BY <3>1
      <4> QED
        BY <4>1
    <3>4. UnitsOf(exts[k]) \cap U(k - 1) = {}
      <4>1. \A i \in 1 .. k - 1 : i \in 1 .. L /\ i # k
        BY <1>0, <3>1
      <4> QED
        BY <3>1, <4>1 DEF Scattered
    <3>5. UnitsOf(exts[k]) \cap FreeUnits(m) = {}
      <4>1. UnitsOf(exts[k]) \subseteq U(L)
        BY <3>1
      <4> QED
        BY <1>1, <4>1
    <3> HIDE DEF U
    <3>6. /\ exts[k] \in Extents
          /\ UnitsOf(exts[k]) \cap FreeUnits(after[k - 1]) = {}
      BY <1>0, <3>1, <3>2, <3>4, <3>5
    <3>7. /\ MapsFit(DeallocExt(after[k - 1], exts[k]))
          /\ FreeUnits(DeallocExt(after[k - 1], exts[k]))
               = FreeUnits(after[k - 1]) \cup UnitsOf(exts[k])
      BY <3>2, <3>6, DeallocExtFits
    <3>8. Good(k)
      BY <1>2, <3>1, <3>2, <3>3, <3>7 DEF Good
    <3> QED
      BY <2>3, <3>8
  <2> QED
    BY <2>4, <2>5
<1>4. Good(L)
  <2> HIDE DEF Good
  <2> QED
    BY <1>0, <1>3
<1> QED
  BY <1>1, <1>2, <1>4

-----------------------------------------------------------------------------
(* What reclaim_free_space_from_subfr_map does *)

\* The last bin has the blocks of which every subblock is free, and no other.
LEMMA FullyFreeAreFull ==
  ASSUME NEW g, SubWellFormed(g)
  PROVE  FullyFreeBlks(g) = {b \in BlkNrs : g.fr_by_nr[b] = Subblks}
<1> DEFINE last == SubblkCntPerBlk - 1
<1>1. last \in Bins
  BY ExtentAssumption DEF Bins
<1>2. IsFiniteSet(Subblks) /\ Cardinality(Subblks) = SubblkCntPerBlk
  BY FS_Interval, ExtentAssumption DEF Subblks
<1>3. \A x : x \in g.exts_bin[last] <=>
               \E b \in BlkNrs : /\ x = <<b, g.fr_by_nr[b]>>
                                 /\ g.fr_by_nr[b] # {} /\ BinOf(g.fr_by_nr[b]) = last
  BY <1>1, InBin
<1>4. ASSUME NEW b \in BlkNrs, g.fr_by_nr[b] # {}, BinOf(g.fr_by_nr[b]) = last
      PROVE  g.fr_by_nr[b] = Subblks
  <2>1. g.fr_by_nr[b] \in SUBSET Subblks
    BY DEF SubWellFormed, SubFreeMaps, Bitmaps
  <2>2. IsFiniteSet(g.fr_by_nr[b]) /\ Cardinality(g.fr_by_nr[b]) \in Nat
    BY <1>2, <2>1, FS_Subset, FS_CardinalityType
  <2>3. Cardinality(g.fr_by_nr[b]) = Cardinality(Subblks)
    BY <1>2, <1>4, <2>2, ExtentAssumption DEF BinOf
  <2> QED
    BY <1>2, <2>1, <2>3, FS_Subset
<1>5. Subblks # {} /\ BinOf(Subblks) = last
  BY BinOfFacts
<1> HIDE DEF last
<1>6. ASSUME NEW b PROVE b \in FullyFreeBlks(g) <=> b \in BlkNrs /\ g.fr_by_nr[b] = Subblks
  <2>1. b \in FullyFreeBlks(g) <=> \E x \in g.exts_bin[last] : x[1] = b
    BY DEF FullyFreeBlks, last
  <2>2. ASSUME b \in FullyFreeBlks(g) PROVE b \in BlkNrs /\ g.fr_by_nr[b] = Subblks
    BY <1>3, <1>4, <2>1, <2>2
  <2>3. ASSUME b \in BlkNrs, g.fr_by_nr[b] = Subblks PROVE b \in FullyFreeBlks(g)
    <3>1. <<b, g.fr_by_nr[b]>> \in g.exts_bin[last]
      BY <1>3, <1>5, <2>3
    <3> QED
      BY <2>1, <3>1
  <2> QED
    BY <2>2, <2>3
<1> QED
  BY <1>6

\* The loop of reclaim: the free map after the blocks below n.
ReclaimLoop(below, m) ==
  /\ WithReclaimed(m, MaxBlkNr + 1) = below[MaxBlkNr + 1]
  /\ below[0] = m.fr_map
  /\ \A n \in 1 .. MaxBlkNr + 1 :
       below[n] = IF n - 1 \in Reclaimable(m) THEN Dealloc(below[n - 1], FullExtent(n - 1, 1))
                  ELSE below[n - 1]

\* The free map after each of the blocks that are reclaimed.
LEMMA ReclaimSteps ==
  ASSUME NEW m
  PROVE  \E below : ReclaimLoop(below, m)
<1> DEFINE L == MaxBlkNr + 1
           Body(n, g) == IF n = 0 THEN m.fr_map
                         ELSE IF n - 1 \in Reclaimable(m)
                              THEN Dealloc(g[n - 1], FullExtent(n - 1, 1))
                         ELSE g[n - 1]
           UpTo(k, g) == g = [n \in 0 .. k |-> Body(n, g)]
           None == {k \in 0 .. L : ~ \E g : UpTo(k, g)}
<1>0. L \in Nat
  BY ExtentAssumption
<1>1. None = {}
  <2> SUFFICES ASSUME None # {} PROVE FALSE
    OBVIOUS
  <2>1. None \in SUBSET Nat
    BY <1>0
  <2> HIDE DEF UpTo
  <2>2. PICK k \in None : \A j \in None : k <= j
    <3> HIDE DEF None
    <3> QED
      BY <2>1, LeastExists
  <2>3. k \in 0 .. L /\ ~ \E g : UpTo(k, g)
    BY <2>2
  <2>4. CASE k = 0
    <3> DEFINE g == [n \in 0 .. 0 |-> m.fr_map]
    <3>1. UpTo(0, g)
      BY DEF UpTo
    <3> QED
      BY <2>3, <2>4, <3>1
  <2>5. CASE k # 0
    <3>1. k - 1 \in 0 .. L /\ k - 1 \notin None
      BY <1>0, <2>2, <2>3, <2>5
    <3>2. PICK g : UpTo(k - 1, g)
      BY <3>1
    <3> DEFINE h == [n \in 0 .. k |-> IF n = k THEN Body(k, g) ELSE g[n]]
    <3> HIDE DEF Body
    <3>3. /\ \A n \in 0 .. k - 1 : h[n] = g[n] /\ n \in 0 .. k
          /\ h[k] = Body(k, g)
      BY <2>3
    <3>4. \A n \in 0 .. k - 1 : g[n] = Body(n, g)
      BY <3>2 DEF UpTo
    <3> HIDE DEF h
    <3>5. ASSUME NEW n \in 0 .. k PROVE h[n] = Body(n, h)
      <4>1. n # 0 => n - 1 \in 0 .. k - 1
        BY <2>3
      <4>2. n # 0 => h[n - 1] = g[n - 1]
        BY <3>3, <4>1
      <4>3. Body(n, h) = Body(n, g)
        BY <4>2 DEF Body
      <4>4. n = k \/ n \in 0 .. k - 1
        BY <2>3
      <4> QED
        BY <3>3, <3>4, <4>3, <4>4
    <3>6. h = [n \in 0 .. k |-> Body(n, h)]
      <4>1. h = [n \in 0 .. k |-> h[n]]
        BY DEF h
      <4> QED
        BY <3>5, <4>1
    <3>7. UpTo(k, h)
      BY <3>6 DEF UpTo
    <3> QED
      BY <2>3, <3>7
  <2> QED
    BY <2>4, <2>5
<1>2. \E g : UpTo(L, g)
  <2> HIDE DEF UpTo
  <2> QED
    BY <1>0, <1>1
<1> DEFINE below == CHOOSE g : UpTo(L, g)
<1>3. UpTo(L, below)
  <2> HIDE DEF UpTo
  <2> QED
    BY <1>2
<1>4. WithReclaimed(m, L) = below[L]
  BY DEF WithReclaimed
<1> HIDE DEF below
<1>5. /\ below[0] = m.fr_map
      /\ \A n \in 1 .. L : below[n] = IF n - 1 \in Reclaimable(m)
                                      THEN Dealloc(below[n - 1], FullExtent(n - 1, 1))
                                      ELSE below[n - 1]
  BY <1>0, <1>3
<1> QED
  BY <1>4, <1>5 DEF ReclaimLoop

\* No unit of space appears or disappears when the blocks with no subblock in
\* use go from one map to the other, and no such block is left.
LEMMA ReclaimedFits ==
  ASSUME NEW m, MapsFit(m)
  PROVE  /\ MapsFit(Reclaimed(m))
         /\ FreeUnits(Reclaimed(m)) = FreeUnits(m)
         /\ Reclaimable(Reclaimed(m)) = {}
<1> DEFINE f == m.fr_map
           g == m.subfr_map
           full == {b \in BlkNrs : g.fr_by_nr[b] = Subblks}
           L == MaxBlkNr + 1
<1>0. /\ WellFormed(f) /\ SubWellFormed(g)
      /\ \A b \in FreeBlksOf(f) : g.fr_by_nr[b] = {}
      /\ g.fr_by_nr \in [BlkNrs -> Bitmaps]
  BY InFreeUnits DEF MapsFit
<1>1. Reclaimable(m) = full
  BY <1>0, FullyFreeAreFull DEF Reclaimable
<1>2. Subblks # {} /\ L \in Nat /\ BlkNrs = 0 .. MaxBlkNr /\ MaxBlkNr \in Nat
  BY BinOfFacts, ExtentAssumption DEF BlkNrs
<1>3. PICK below : ReclaimLoop(below, m)
  BY ReclaimSteps
<1> DEFINE Good(k) == /\ WellFormed(below[k])
                      /\ FreeBlksOf(below[k]) = FreeBlksOf(f) \cup {b \in full : b < k}
           Bad == {k \in 0 .. L : ~ Good(k)}
<1>4. ASSUME Bad # {} PROVE FALSE
  <2>1. Bad \in SUBSET Nat
    BY <1>2
  <2> HIDE DEF Good
  <2>2. PICK k \in Bad : \A j \in Bad : k <= j
    <3> HIDE DEF Bad
    <3> QED
      BY <1>4, <2>1, LeastExists
  <2>3. k \in 0 .. L /\ ~ Good(k)
    BY <2>2
  <2> HIDE DEF full
  <2>4. CASE k = 0
    <3>1. {b \in full : b < 0} = {}
      BY <1>2 DEF full
    <3>2. below[0] = f
      BY <1>3 DEF ReclaimLoop
    <3> QED
      BY <1>0, <2>3, <2>4, <3>1, <3>2 DEF Good
  <2>5. CASE k # 0
    <3> DEFINE b == k - 1
    <3>1. /\ b \in 0 .. L /\ b \notin Bad /\ k \in 1 .. L /\ b \in BlkNrs
          /\ \A c \in BlkNrs : c < k <=> c < b \/ c = b
      BY <1>2, <2>2, <2>3, <2>5
    <3> HIDE DEF Bad
    <3>2. /\ WellFormed(below[b])
          /\ FreeBlksOf(below[b]) = FreeBlksOf(f) \cup {c \in full : c < b}
      BY <2>2, <3>1 DEF Good, Bad
    <3>3. full \subseteq BlkNrs
      BY DEF full
    <3>4. below[k] = IF b \in full THEN Dealloc(below[b], FullExtent(b, 1)) ELSE below[b]
      BY <1>1, <1>3, <3>1 DEF ReclaimLoop
    <3> HIDE DEF b
    <3>5. CASE b \in full
      <4>1. FullExtent(b, 1) \in FullExtents
        BY <3>1, MakeFullExtent, ExtentAssumption DEF BlkCnts, BlkNrs
      <4>2. BlksOf(FullExtent(b, 1)) = {b}
        <5>1. BlksOf(FullExtent(b, 1)) = {c \in BlkNrs : b <= c /\ c < b + 1}
          BY <4>1, FullExtentFacts DEF FullExtent
        <5> QED
          BY <1>2, <3>1, <5>1
      <4>3. b \notin FreeBlksOf(below[b])
        <5>1. b \notin FreeBlksOf(f)
          BY <1>0, <1>2, <3>5 DEF full
        <5> QED
          BY <1>2, <3>1, <3>2, <5>1
      <4>4. /\ WellFormed(Dealloc(below[b], FullExtent(b, 1)))
            /\ FreeBlksOf(Dealloc(below[b], FullExtent(b, 1))) = FreeBlksOf(below[b]) \cup {b}
        BY <3>2, <4>1, <4>2, <4>3, AlreadyFreedExact, DeallocCorrect
      <4>5. {c \in full : c < k} = {c \in full : c < b} \cup {b}
        BY <3>1, <3>3, <3>5
      <4>6. Good(k)
        BY <3>2, <3>4, <3>5, <4>4, <4>5 DEF Good
      <4> QED
        BY <2>3, <4>6
    <3>6. CASE b \notin full
      <4>1. {c \in full : c < k} = {c \in full : c < b}
        BY <3>1, <3>3, <3>6
      <4>2. Good(k)
        BY <3>2, <3>4, <3>6, <4>1 DEF Good
      <4> QED
        BY <2>3, <4>2
    <3> QED
      BY <3>5, <3>6
  <2> QED
    BY <2>4, <2>5
<1>5. Good(L)
  <2> HIDE DEF Good
  <2> QED
    BY <1>2, <1>4
<1> DEFINE r == Reclaimed(m)
           d == WithReclaimed(m, L)
           h == ReleaseSub(g, full)
<1>6. /\ r = [fr_map |-> d, subfr_map |-> h]
      /\ d = below[L]
  BY <1>1, <1>3 DEF Reclaimed, ReclaimLoop
<1>7. /\ WellFormed(d)
      /\ FreeBlksOf(d) = FreeBlksOf(f) \cup full
  <2>1. {b \in full : b < L} = full
    BY <1>2
  <2> HIDE DEF full, d
  <2> QED
    BY <1>5, <1>6, <2>1 DEF Good
<1>8. /\ SubWellFormed(h)
      /\ h.fr_by_nr = [b \in BlkNrs |-> IF b \in full THEN {} ELSE g.fr_by_nr[b]]
  <2>1. full \in SUBSET BlkNrs /\ \A b \in full : g.fr_by_nr[b] = Subblks
    OBVIOUS
  <2> HIDE DEF full, g
  <2> QED
    BY <1>0, <2>1, ReleaseSubCorrect
<1>9. \A b \in BlkNrs : h.fr_by_nr[b] = IF b \in full THEN {} ELSE g.fr_by_nr[b]
  <2> HIDE DEF full, g, h
  <2> QED
    BY <1>8
<1> HIDE DEF d, h, r
<1>10. MapsFit(r)
  <2>1. \A b \in FreeBlksOf(d) : h.fr_by_nr[b] = {}
    <3>1. FreeBlksOf(f) \subseteq BlkNrs
      BY InFreeUnits
    <3> QED
      BY <1>0, <1>7, <1>9, <3>1
  <2> QED
    BY <1>6, <1>7, <1>8, <2>1 DEF MapsFit
<1>11. FreeUnits(r) = FreeUnits(m)
  <2>1. /\ FreeUnits(m) \subseteq BlkNrs \X Subblks
        /\ \A b, i : <<b, i>> \in FreeUnits(m) <=>
                       \/ b \in FreeBlksOf(f) /\ i \in Subblks
                       \/ b \in BlkNrs /\ i \in g.fr_by_nr[b]
    BY InFreeUnits
  <2>2. /\ FreeUnits(r) \subseteq BlkNrs \X Subblks
        /\ \A b, i : <<b, i>> \in FreeUnits(r) <=>
                       \/ b \in FreeBlksOf(r.fr_map) /\ i \in Subblks
                       \/ b \in BlkNrs /\ i \in r.subfr_map.fr_by_nr[b]
    BY <1>10, InFreeUnits
  <2>3. r.fr_map = d /\ r.subfr_map = h
    BY <1>6
  <2>4. \A b \in BlkNrs, i \in Subblks : <<b, i>> \in FreeUnits(r) <=> <<b, i>> \in FreeUnits(m)
    BY <1>7, <1>9, <2>1, <2>2, <2>3
  <2> QED
    BY <2>1, <2>2, <2>4, SameUnits
<1>12. Reclaimable(r) = {}
  <2>1. Reclaimable(r) = {b \in BlkNrs : h.fr_by_nr[b] = Subblks}
    BY <1>6, <1>8, FullyFreeAreFull DEF Reclaimable
  <2> QED
    BY <1>2, <1>9, <2>1
<1> QED
  BY <1>10, <1>11, <1>12 DEF r

\* dealloc(segm) of extents of which nothing was free.
LEMMA DeallocMapsFits ==
  ASSUME NEW m, MapsFit(m), NEW exts \in Seq(Extents), Scattered(exts),
         UnitsIn(exts) \cap FreeUnits(m) = {}
  PROVE  /\ MapsFit(DeallocMaps(m, exts))
         /\ FreeUnits(DeallocMaps(m, exts)) = FreeUnits(m) \cup UnitsIn(exts)
         /\ Reclaimable(DeallocMaps(m, exts)) = {}
BY DeallocExtsFits, ReclaimedFits DEF DeallocMaps

-----------------------------------------------------------------------------
(* What alloc does to the two maps *)

\* Some blocks of a free chunk are taken.
LEMMA AllocFromFits ==
  ASSUME NEW m, MapsFit(m), NEW cnt \in BlkCnts \ {0}, NEW p \in Usable(m.fr_map, cnt)
  PROVE  LET n == [m EXCEPT !.fr_map = AllocFrom(@, p, cnt)]
             e == FullExtent(p[2], cnt)
         IN  /\ e \in Extents
             /\ UnitsOf(e) \subseteq FreeUnits(m)
             /\ MapsFit(n)
             /\ FreeUnits(n) = FreeUnits(m) \ UnitsOf(e)
             /\ n.subfr_map = m.subfr_map
<1> DEFINE f == m.fr_map
           g == m.subfr_map
           h == AllocFrom(f, p, cnt)
           n == [m EXCEPT !.fr_map = AllocFrom(@, p, cnt)]
           e == FullExtent(p[2], cnt)
<1>0. /\ WellFormed(f) /\ SubWellFormed(g)
      /\ m = [fr_map |-> f, subfr_map |-> g]
      /\ \A b \in FreeBlksOf(f) : g.fr_by_nr[b] = {}
  BY DEF MapsFit
<1>1. n = [fr_map |-> h, subfr_map |-> g]
  BY <1>0
<1>2. /\ WellFormed(h)
      /\ e \in FullExtents
      /\ BlksOf(e) \subseteq FreeBlksOf(f)
      /\ FreeBlksOf(h) = FreeBlksOf(f) \ BlksOf(e)
  <2>1. p \in Usable(f, cnt)
    OBVIOUS
  <2> HIDE DEF f
  <2> QED
    BY <1>0, <2>1, AllocCorrect
<1>3. e \in Extents
  BY <1>2 DEF Extents
<1> HIDE DEF h, n, e
<1>4. UnitsOf(e) = BlksOf(e) \X Subblks
  <2>1. e.is_suballoc = FALSE
    BY DEF e, FullExtent
  <2> QED
    BY <1>3, <2>1, ExtentUnits
<1>5. MapsFit(n)
  BY <1>0, <1>1, <1>2 DEF MapsFit
<1>6. /\ FreeUnits(m) \subseteq BlkNrs \X Subblks
      /\ \A b, i : <<b, i>> \in FreeUnits(m) <=>
                     \/ b \in FreeBlksOf(f) /\ i \in Subblks
                     \/ b \in BlkNrs /\ i \in g.fr_by_nr[b]
  BY InFreeUnits
<1>7. /\ FreeUnits(n) \subseteq BlkNrs \X Subblks
      /\ \A b, i : <<b, i>> \in FreeUnits(n) <=>
                     \/ b \in FreeBlksOf(n.fr_map) /\ i \in Subblks
                     \/ b \in BlkNrs /\ i \in n.subfr_map.fr_by_nr[b]
  BY <1>5, InFreeUnits
<1>8. n.fr_map = h /\ n.subfr_map = g
  BY <1>1
<1>9. UnitsOf(e) \subseteq FreeUnits(m)
  BY <1>2, <1>4, <1>6
<1>10. FreeUnits(n) = FreeUnits(m) \ UnitsOf(e)
  <2>1. \A b, i : <<b, i>> \in UnitsOf(e) <=> b \in BlksOf(e) /\ i \in Subblks
    BY <1>4
  <2>2. \A b \in BlkNrs, i \in Subblks :
          <<b, i>> \in FreeUnits(n) <=> <<b, i>> \in FreeUnits(m) \ UnitsOf(e)
    BY <1>0, <1>2, <1>6, <1>7, <1>8, <2>1
  <2>3. FreeUnits(m) \ UnitsOf(e) \subseteq BlkNrs \X Subblks
    BY <1>6
  <2> QED
    BY <1>7, <2>2, <2>3, SameUnits
<1> QED
  BY <1>3, <1>5, <1>8, <1>9, <1>10 DEF n, e

\* The block alloc takes subblocks from has as many as it needs.
LEMMA UsableBlkFacts ==
  ASSUME NEW g, SubWellFormed(g), NEW cnt \in 1 .. SubblkCntPerBlk, NEW x \in UsableBlk(g, cnt)
  PROVE  /\ x[1] \in BlkNrs
         /\ x = <<x[1], g.fr_by_nr[x[1]]>>
         /\ g.fr_by_nr[x[1]] \in Bitmaps
         /\ cnt <= Cardinality(g.fr_by_nr[x[1]])
<1>1. PICK i \in Bins : i >= cnt - 1 /\ x \in g.exts_bin[i]
  BY DEF UsableBlk, UsableBins
<1>2. PICK b \in BlkNrs : /\ x = <<b, g.fr_by_nr[b]>>
                          /\ g.fr_by_nr[b] # {} /\ BinOf(g.fr_by_nr[b]) = i
  BY <1>1, InBin
<1>3. g.fr_by_nr[b] \in Bitmaps
  BY DEF SubWellFormed, SubFreeMaps
<1>4. Cardinality(g.fr_by_nr[b]) \in Int
  BY <1>3, CountIsInt DEF Bitmaps
<1>5. cnt <= Cardinality(g.fr_by_nr[b])
  BY <1>1, <1>2, <1>4, ExtentAssumption DEF BinOf, Bins
<1> QED
  BY <1>2, <1>3, <1>5

\* alloc finds no block only if none has as many free subblocks as it needs.
LEMMA UsableBlkEmpty ==
  ASSUME NEW g, SubWellFormed(g), NEW cnt \in 1 .. SubblkCntPerBlk, UsableBlk(g, cnt) = {}
  PROVE  \A b \in BlkNrs : Cardinality(g.fr_by_nr[b]) < cnt
<1> SUFFICES ASSUME NEW b \in BlkNrs, ~ (Cardinality(g.fr_by_nr[b]) < cnt) PROVE FALSE
  OBVIOUS
<1>1. g.fr_by_nr \in [BlkNrs -> Bitmaps]
  BY DEF SubWellFormed, SubFreeMaps
<1>2. /\ Cardinality(g.fr_by_nr[b]) \in Int /\ Cardinality(g.fr_by_nr[b]) >= cnt
      /\ cnt \in Nat /\ cnt >= 1
  BY <1>1, CountIsInt, ExtentAssumption DEF Bitmaps
<1>3. g.fr_by_nr[b] # {}
  BY <1>2, FS_EmptySet
<1>4. BinOf(g.fr_by_nr[b]) \in Bins
  BY <1>1, <1>3, BinOfFacts
<1> DEFINE S == {i \in Bins : i >= cnt - 1 /\ g.exts_bin[i] # {}}
<1>5. S # {}
  <2>1. <<b, g.fr_by_nr[b]>> \in g.exts_bin[BinOf(g.fr_by_nr[b])]
    BY <1>3, <1>4, InBin
  <2>2. BinOf(g.fr_by_nr[b]) >= cnt - 1
    BY <1>2 DEF BinOf
  <2> QED
    BY <1>4, <2>1, <2>2
<1>6. S \in SUBSET Nat
  BY ExtentAssumption DEF Bins
<1>7. PICK i \in S : \A j \in S : i <= j
  <2> HIDE DEF S
  <2> QED
    BY <1>5, <1>6, LeastExists
<1>8. /\ i \in UsableBins(g, cnt)
      /\ \A j \in UsableBins(g, cnt) : j = i
  <2>1. \A j \in Bins : j \in Int
    BY ExtentAssumption DEF Bins
  <2>2. \A j \in UsableBins(g, cnt) : j \in S
    BY DEF UsableBins
  <2>3. i \in Bins /\ i >= cnt - 1 /\ g.exts_bin[i] # {}
    BY <1>7
  <2>4. \A j \in Bins : cnt - 1 <= j /\ j < i => g.exts_bin[j] = {}
    <3> SUFFICES ASSUME NEW j \in Bins, cnt - 1 <= j, j < i, g.exts_bin[j] # {} PROVE FALSE
      OBVIOUS
    <3>1. j \in S
      BY <1>2, <2>1
    <3> QED
      BY <1>7, <2>1, <3>1
  <2>5. i \in UsableBins(g, cnt)
    BY <2>3, <2>4 DEF UsableBins
  <2>6. ASSUME NEW j \in UsableBins(g, cnt) PROVE j = i
    <3>1. j \in S /\ j \in Int /\ i \in Int /\ i <= j
      BY <1>7, <2>1, <2>2
    <3>2. ~ (i < j)
      BY <1>2, <2>3, <3>1 DEF UsableBins
    <3> QED
      BY <3>1, <3>2
  <2> QED
    BY <2>5, <2>6
<1> DEFINE N == {y[1] : y \in g.exts_bin[i]}
<1>9. i \in Bins /\ g.exts_bin[i] # {}
  BY <1>7
<1>10. N \in SUBSET Nat /\ N # {}
  <2>1. \A y \in g.exts_bin[i] : y[1] \in BlkNrs
    BY <1>9, InBin
  <2> QED
    BY <1>9, <2>1, ExtentAssumption DEF BlkNrs
<1>11. PICK c \in N : \A d \in N : c <= d
  <2> HIDE DEF N
  <2> QED
    BY <1>10, LeastExists
<1>12. PICK x \in g.exts_bin[i] : x[1] = c
  BY <1>11
<1>13. \A y \in g.exts_bin[i] : x[1] <= y[1]
  BY <1>11, <1>12
<1>14. x \in UsableBlk(g, cnt)
  BY <1>8, <1>12, <1>13 DEF UsableBlk
<1> QED
  BY <1>14

\* Some subblocks of a block are taken.
LEMMA AllocFromBlkFits ==
  ASSUME NEW m, MapsFit(m), NEW cnt \in 1 .. SubblkCntPerBlk,
         NEW x \in UsableBlk(m.subfr_map, cnt)
  PROVE  LET n == [m EXCEPT !.subfr_map = AllocFromBlk(@, x, cnt)]
             e == SubExtent(x[1], TakenBits(x[2], cnt))
         IN  /\ e \in Extents
             /\ UnitsOf(e) \subseteq FreeUnits(m)
             /\ MapsFit(n)
             /\ FreeUnits(n) = FreeUnits(m) \ UnitsOf(e)
             /\ n.fr_map = m.fr_map
             /\ \A b \in BlkNrs : n.subfr_map.fr_by_nr[b] =
                  IF b = x[1] THEN m.subfr_map.fr_by_nr[b] \ TakenBits(x[2], cnt)
                  ELSE m.subfr_map.fr_by_nr[b]
<1> DEFINE f == m.fr_map
           g == m.subfr_map
           nr == x[1]
           free == g.fr_by_nr[nr]
           taken == TakenBits(x[2], cnt)
           h == AllocFromBlk(g, x, cnt)
           n == [m EXCEPT !.subfr_map = AllocFromBlk(@, x, cnt)]
           e == SubExtent(x[1], TakenBits(x[2], cnt))
<1>0. /\ WellFormed(f) /\ SubWellFormed(g)
      /\ m = [fr_map |-> f, subfr_map |-> g]
      /\ \A b \in FreeBlksOf(f) : g.fr_by_nr[b] = {}
      /\ g.fr_by_nr \in [BlkNrs -> Bitmaps]
      /\ cnt \in Nat \ {0}
  BY InFreeUnits, ExtentAssumption DEF MapsFit
<1>1. n = [fr_map |-> f, subfr_map |-> h]
  BY <1>0
<1>2. /\ nr \in BlkNrs /\ x[2] = free
      /\ free \in Bitmaps /\ cnt <= Cardinality(free)
  <2>1. x \in UsableBlk(g, cnt)
    OBVIOUS
  <2> HIDE DEF f, g
  <2>2. /\ x[1] \in BlkNrs
        /\ x = <<x[1], g.fr_by_nr[x[1]]>>
        /\ g.fr_by_nr[x[1]] \in Bitmaps
        /\ cnt <= Cardinality(g.fr_by_nr[x[1]])
    BY <1>0, <2>1, UsableBlkFacts
  <2>3. x[2] = g.fr_by_nr[x[1]]
    BY <2>2
  <2> QED
    BY <2>2, <2>3
<1> HIDE DEF free
<1>3. free # {}
  BY <1>0, <1>2, FS_EmptySet
<1>4. taken # {} /\ taken \subseteq free
  BY <1>0, <1>2, <1>3, TakenBitsFacts
<1> HIDE DEF taken
<1>5. free \subseteq Subblks /\ free \ taken \in Bitmaps
  BY <1>2 DEF Bitmaps
<1>6. /\ e \in Extents /\ UnitsOf(e) = {nr} \X taken
  <2>1. /\ e.is_suballoc = TRUE /\ e.blk_nr = nr /\ e.blk_bitmap = taken
        /\ e \in [is_suballoc : {TRUE}, blk_nr : BlkNrs, blk_bitmap : Bitmaps \ {{}}]
    BY <1>2, <1>4, <1>5 DEF SubExtent, Bitmaps, taken
  <2>2. e \in Extents
    BY <2>1 DEF Extents
  <2> QED
    BY <2>1, <2>2, ExtentUnits
<1>7. /\ SubWellFormed(h)
      /\ h.fr_by_nr = [g.fr_by_nr EXCEPT ![nr] = free \ taken]
  <2>1. h = Rebinned(g, nr, g.fr_by_nr[nr], free \ taken)
    BY <1>2 DEF AllocFromBlk, free, taken
  <2> HIDE DEF g, h, nr
  <2>2. /\ SubWellFormed(Rebinned(g, nr, g.fr_by_nr[nr], free \ taken))
        /\ Rebinned(g, nr, g.fr_by_nr[nr], free \ taken).fr_by_nr =
             [g.fr_by_nr EXCEPT ![nr] = free \ taken]
    <3> DEFINE after == free \ taken
    <3>1. after \in Bitmaps
      BY <1>5
    <3> HIDE DEF after
    <3>2. /\ SubWellFormed(Rebinned(g, nr, g.fr_by_nr[nr], after))
          /\ Rebinned(g, nr, g.fr_by_nr[nr], after).fr_by_nr = [g.fr_by_nr EXCEPT ![nr] = after]
      BY ONLY <1>0, <1>2, <3>1, RebinnedCorrect
    <3> QED
      BY <3>2 DEF after
  <2> QED
    BY <2>1, <2>2
<1>8. \A b \in BlkNrs : h.fr_by_nr[b] = IF b = nr THEN g.fr_by_nr[b] \ taken ELSE g.fr_by_nr[b]
  <2>1. free = g.fr_by_nr[nr]
    BY DEF free
  <2> HIDE DEF g, h, nr
  <2> QED
    BY <1>0, <1>2, <1>7, <2>1
<1> HIDE DEF h, n, e
<1>9. MapsFit(n)
  BY <1>0, <1>1, <1>7, <1>8 DEF MapsFit, WellFormed, FreeBlksOf
<1>10. /\ FreeUnits(m) \subseteq BlkNrs \X Subblks
       /\ \A b, i : <<b, i>> \in FreeUnits(m) <=>
                      \/ b \in FreeBlksOf(f) /\ i \in Subblks
                      \/ b \in BlkNrs /\ i \in g.fr_by_nr[b]
  BY InFreeUnits
<1>11. /\ FreeUnits(n) \subseteq BlkNrs \X Subblks
       /\ \A b, i : <<b, i>> \in FreeUnits(n) <=>
                      \/ b \in FreeBlksOf(n.fr_map) /\ i \in Subblks
                      \/ b \in BlkNrs /\ i \in n.subfr_map.fr_by_nr[b]
  BY <1>9, InFreeUnits
<1>12. n.fr_map = f /\ n.subfr_map = h
  BY <1>1
<1>13. \A b, i : <<b, i>> \in UnitsOf(e) <=> b = nr /\ i \in taken
  BY <1>6
<1>14. taken \subseteq g.fr_by_nr[nr]
  BY <1>4 DEF free
<1>15. UnitsOf(e) \subseteq FreeUnits(m)
  BY <1>2, <1>6, <1>10, <1>14
<1>16. FreeUnits(n) = FreeUnits(m) \ UnitsOf(e)
  <2>1. nr \notin FreeBlksOf(f)
    BY <1>0, <1>3 DEF free
  <2>2. \A b \in BlkNrs, i \in Subblks :
          <<b, i>> \in FreeUnits(n) <=> <<b, i>> \in FreeUnits(m) \ UnitsOf(e)
    BY <1>8, <1>10, <1>11, <1>12, <1>13, <2>1
  <2>3. FreeUnits(m) \ UnitsOf(e) \subseteq BlkNrs \X Subblks
    BY <1>10
  <2> QED
    BY <1>11, <2>2, <2>3, SameUnits
<1>17. \A b \in BlkNrs : n.subfr_map.fr_by_nr[b] =
          IF b = x[1] THEN m.subfr_map.fr_by_nr[b] \ TakenBits(x[2], cnt)
          ELSE m.subfr_map.fr_by_nr[b]
  BY <1>8, <1>12 DEF taken
<1> QED
  BY <1>6, <1>9, <1>12, <1>15, <1>16, <1>17 DEF n, e

\* A block goes from the free map to the subblock map.
LEMMA ProvideSubFits ==
  ASSUME NEW m, MapsFit(m), NEW p \in Usable(m.fr_map, 1)
  PROVE  LET n == [fr_map |-> AllocFrom(m.fr_map, p, 1),
                   subfr_map |-> ProvideSub(m.subfr_map, p[2], Subblks)]
         IN  /\ p[2] \in BlkNrs
             /\ MapsFit(n)
             /\ FreeUnits(n) = FreeUnits(m)
             /\ \A b \in BlkNrs : n.subfr_map.fr_by_nr[b] =
                  IF b = p[2] THEN Subblks ELSE m.subfr_map.fr_by_nr[b]
<1> DEFINE f == m.fr_map
           g == m.subfr_map
           nr == p[2]
           e == FullExtent(nr, 1)
           d == AllocFrom(f, p, 1)
           h == ProvideSub(g, nr, Subblks)
           n == [fr_map |-> d, subfr_map |-> h]
<1>0. /\ WellFormed(f) /\ SubWellFormed(g)
      /\ \A b \in FreeBlksOf(f) : g.fr_by_nr[b] = {}
      /\ g.fr_by_nr \in [BlkNrs -> Bitmaps]
      /\ 1 \in BlkCnts \ {0} /\ Subblks \in Bitmaps
  BY InFreeUnits, ExtentAssumption DEF MapsFit, BlkCnts, Bitmaps
<1>1. /\ WellFormed(d)
      /\ e \in FullExtents
      /\ BlksOf(e) \subseteq FreeBlksOf(f)
      /\ FreeBlksOf(d) = FreeBlksOf(f) \ BlksOf(e)
  <2>1. p \in Usable(f, 1)
    OBVIOUS
  <2> HIDE DEF f
  <2> QED
    BY <1>0, <2>1, AllocCorrect
<1>2. nr \in BlkNrs /\ BlksOf(e) = {nr}
  <2>1. /\ e.blk_nr = nr /\ e.blk_nr \in BlkNrs
        /\ BlksOf(e) = {c \in BlkNrs : nr <= c /\ c < nr + 1}
    BY <1>1, FullExtentFacts DEF FullExtent
  <2> QED
    BY <2>1, ExtentAssumption DEF BlkNrs
<1> HIDE DEF d, e
<1>3. nr \in FreeBlksOf(f) /\ g.fr_by_nr[nr] = {}
  BY <1>0, <1>1, <1>2
<1>4. /\ SubWellFormed(h)
      /\ h.fr_by_nr = [g.fr_by_nr EXCEPT ![nr] = Subblks]
  <2>1. h = Rebinned(g, nr, g.fr_by_nr[nr], Subblks)
    BY <1>3 DEF ProvideSub
  <2> HIDE DEF g, h, nr
  <2>2. /\ SubWellFormed(Rebinned(g, nr, g.fr_by_nr[nr], Subblks))
        /\ Rebinned(g, nr, g.fr_by_nr[nr], Subblks).fr_by_nr =
             [g.fr_by_nr EXCEPT ![nr] = Subblks]
    BY <1>0, <1>2, RebinnedCorrect
  <2> QED
    BY <2>1, <2>2
<1>5. \A b \in BlkNrs : h.fr_by_nr[b] = IF b = nr THEN Subblks ELSE g.fr_by_nr[b]
  <2> HIDE DEF g, h, nr
  <2> QED
    BY <1>0, <1>2, <1>4
<1>6. n = [fr_map |-> d, subfr_map |-> h] /\ n.fr_map = d /\ n.subfr_map = h
  OBVIOUS
<1> HIDE DEF h, n
<1>7. MapsFit(n)
  <2>1. \A b \in FreeBlksOf(d) : b \in BlkNrs
    BY DEF FreeBlksOf
  <2>2. \A b \in FreeBlksOf(d) : h.fr_by_nr[b] = {}
    BY <1>0, <1>1, <1>2, <1>5, <2>1
  <2> QED
    BY <1>1, <1>4, <1>6, <2>2 DEF MapsFit
<1>8. /\ FreeUnits(m) \subseteq BlkNrs \X Subblks
      /\ \A b, i : <<b, i>> \in FreeUnits(m) <=>
                     \/ b \in FreeBlksOf(f) /\ i \in Subblks
                     \/ b \in BlkNrs /\ i \in g.fr_by_nr[b]
  BY InFreeUnits
<1>9. /\ FreeUnits(n) \subseteq BlkNrs \X Subblks
      /\ \A b, i : <<b, i>> \in FreeUnits(n) <=>
                     \/ b \in FreeBlksOf(n.fr_map) /\ i \in Subblks
                     \/ b \in BlkNrs /\ i \in n.subfr_map.fr_by_nr[b]
  BY <1>7, InFreeUnits
<1>10. FreeUnits(n) = FreeUnits(m)
  <2>1. \A b \in BlkNrs, i \in Subblks : <<b, i>> \in FreeUnits(n) <=> <<b, i>> \in FreeUnits(m)
    BY <1>1, <1>2, <1>3, <1>5, <1>6, <1>8, <1>9
  <2> QED
    BY <1>8, <1>9, <2>1, SameUnits
<1> QED
  BY <1>2, <1>5, <1>6, <1>7, <1>10 DEF n, d, h

-----------------------------------------------------------------------------
(* What release does to the free map *)

\* Chunks that leave the map take their blocks, and only them, with them.
LEMMA WithoutChunksFits ==
  ASSUME NEW f, WellFormed(f), NEW bs \in SUBSET Chunks(f)
  PROVE  /\ WellFormed(WithoutChunks(f, bs))
         /\ Chunks(WithoutChunks(f, bs)) = Chunks(f) \ bs
         /\ \A b \in BlkNrs : WithoutChunks(f, bs).fr_by_nr[b] =
                                IF b \in bs THEN 0 ELSE f.fr_by_nr[b]
<1> DEFINE r == WithoutChunks(f, bs)
           n == f.fr_by_nr
           k == [b \in BlkNrs |-> IF b \in bs THEN 0 ELSE n[b]]
           c == f.fr_by_cnt \ {<<n[b], b>> : b \in bs}
<1>1. /\ n \in [BlkNrs -> BlkCnts]
      /\ f.fr_by_cnt = {<<n[b], b>> : b \in Chunks(f)}
      /\ f.fr_by_cnt \subseteq (BlkCnts \ {0}) \X BlkNrs
      /\ \A b \in Chunks(f) : /\ b + n[b] <= MaxBlkNr + 1
                              /\ \A d \in Chunks(f) : b < d => b + n[b] <= d
  BY DEF WellFormed, FreeMaps, IndexesAgreeIn, ChunksDisjointIn
<1>2. r = [fr_by_nr |-> k, fr_by_cnt |-> c] /\ r.fr_by_nr = k /\ r.fr_by_cnt = c
  BY DEF WithoutChunks
<1>3. /\ k \in [BlkNrs -> BlkCnts]
      /\ \A b \in BlkNrs : k[b] = IF b \in bs THEN 0 ELSE n[b]
  BY <1>1, ExtentAssumption DEF BlkCnts
<1> HIDE DEF k, r, n
<1>4. Chunks(r) = Chunks(f) \ bs
  BY <1>2, <1>3 DEF Chunks, n
<1>5. c = {<<k[b], b>> : b \in Chunks(f) \ bs}
  <2>1. \A b \in Chunks(f) \ bs : k[b] = n[b]
    BY <1>3 DEF Chunks
  <2>2. c = {<<n[b], b>> : b \in Chunks(f) \ bs}
    BY <1>1
  <2> HIDE DEF c
  <2> QED
    BY <2>1, <2>2
<1>6. IndexesAgreeIn(r)
  BY <1>2, <1>4, <1>5 DEF IndexesAgreeIn
<1>7. ChunksDisjointIn(r)
  <2>1. \A b \in Chunks(r) : b \in Chunks(f) /\ r.fr_by_nr[b] = n[b]
    BY <1>2, <1>3, <1>4 DEF Chunks
  <2> QED
    BY <1>1, <2>1 DEF ChunksDisjointIn
<1>8. r \in FreeMaps
  BY <1>1, <1>2, <1>3 DEF FreeMaps
<1> QED
  BY <1>2, <1>3, <1>4, <1>6, <1>7, <1>8 DEF WellFormed, r, n

\* The chunks release takes are the blocks of the end of the array: those from
\* some block on, lo, are all free, and the one before it is not.
LEMMA TailChunksFacts ==
  ASSUME NEW f, WellFormed(f), NEW a \in Arrays, FreeBlksOf(f) \subseteq BlksOfArray(a)
  PROVE  \E lo \in BeginBlkNr .. a.past_end :
           /\ TailSz(f, a) = a.past_end - lo
           /\ lo .. a.past_end - 1 \subseteq FreeBlksOf(f)
           /\ WellFormed(WithoutChunks(f, TailChunks(f, a)))
           /\ FreeBlksOf(WithoutChunks(f, TailChunks(f, a)))
                = FreeBlksOf(f) \ (lo .. a.past_end - 1)
           /\ lo - 1 \notin FreeBlksOf(f)
<1> DEFINE n == f.fr_by_nr
           T == TailChunks(f, a)
           w == WithoutChunks(f, T)
           F == FreeBlksOf(f)
           end == a.past_end
<1>1. /\ \A b \in Chunks(f) : /\ b \in Nat /\ b \in BlkNrs /\ n[b] \in Nat /\ n[b] > 0
                              /\ b + n[b] <= MaxBlkNr + 1
      /\ \A b, c \in Chunks(f) : b < c => b + n[b] <= c
      /\ MaxBlkNr \in Nat
  <2>1. BlkNrs \subseteq Nat /\ \A v \in BlkCnts : v # 0 => v \in Nat /\ v > 0
    BY ExtentAssumption DEF BlkNrs, BlkCnts
  <2>2. /\ \A b \in Chunks(f) : /\ b \in BlkNrs /\ n[b] \in BlkCnts /\ n[b] # 0
                                /\ b + n[b] <= MaxBlkNr + 1
        /\ \A b, c \in Chunks(f) : b < c => b + n[b] <= c
    BY WellFormedFacts
  <2> HIDE DEF n
  <2> QED
    BY <2>1, <2>2, ExtentAssumption
<1>2. \A x : x \in F <=> x \in BlkNrs /\ \E b \in Chunks(f) : b <= x /\ x < b + n[b]
  BY DEF FreeBlksOf
<1>3. /\ end \in Nat /\ BeginBlkNr \in Nat /\ BeginBlkNr <= end
      /\ \A x \in F : x \in Int /\ BeginBlkNr <= x /\ x < end
  BY BlockArrayAssumption, ExtentAssumption DEF Arrays, BlkNrs, BlksOfArray
<1>4. BlkNrs = 0 .. MaxBlkNr
  BY DEF BlkNrs
<1>5. \A b : b \in T <=> b \in Chunks(f) /\ \A x \in b .. end - 1 : x \in F
  BY DEF TailChunks
<1>6. T \in SUBSET Chunks(f)
  BY <1>5
<1>7. /\ WellFormed(w)
      /\ Chunks(w) = Chunks(f) \ T
      /\ \A b \in BlkNrs : w.fr_by_nr[b] = IF b \in T THEN 0 ELSE n[b]
  <2> HIDE DEF T
  <2> QED
    BY <1>6, WithoutChunksFits
<1> HIDE DEF n, T, w, F, end
<1>8. \A x : x \in FreeBlksOf(w) <=>
               x \in BlkNrs /\ \E b \in Chunks(f) \ T : b <= x /\ x < b + n[b]
  <2>1. \A b \in Chunks(f) \ T : w.fr_by_nr[b] = n[b]
    BY <1>1, <1>7
  <2> QED
    BY <1>7, <2>1 DEF FreeBlksOf
\* Every free block belongs to one chunk, and starts it or follows another.
<1>9. \A b \in Chunks(f) : \A x \in Int : b <= x /\ x < b + n[b] => x \in F
  BY <1>1, <1>2, <1>4
<1>10. \A b \in Chunks(f) : b + n[b] <= end
  <2> TAKE b \in Chunks(f)
  <2>1. b + n[b] - 1 \in Int /\ b <= b + n[b] - 1 /\ b + n[b] - 1 < b + n[b]
    BY <1>1
  <2>2. b + n[b] - 1 \in F
    BY <1>9, <2>1
  <2> QED
    BY <1>1, <1>3, <2>2
\* A chunk that ends where a block of the tail begins is of the tail.
<1>11. ASSUME NEW lo \in Int, lo .. end - 1 \subseteq F, NEW b \in Chunks(f),
              b + n[b] >= lo
       PROVE  b \in T
  <2> SUFFICES ASSUME NEW x \in b .. end - 1 PROVE x \in F
    BY <1>5
  <2>1. CASE x < b + n[b]
    BY <1>1, <1>3, <1>9, <2>1
  <2>2. CASE x >= b + n[b]
    BY <1>1, <1>3, <1>11, <2>2
  <2> QED
    BY <1>1, <1>3, <2>1, <2>2
<1>12. \E lo \in BeginBlkNr .. end :
         /\ lo .. end - 1 \subseteq F
         /\ \A b \in T : b >= lo
         /\ \A x \in F : x >= lo => \E b \in T : b <= x
         /\ \A x \in F : (\E b \in T : b <= x) => x >= lo
  <2>1. CASE T = {}
    <3>1. end \in BeginBlkNr .. end /\ end .. end - 1 \subseteq F
      BY <1>3
    <3>2. \A x \in F : ~ (x >= end)
      BY <1>3
    <3> QED
      BY <2>1, <3>1, <3>2
  <2>2. CASE T # {}
    <3>1. T \in SUBSET Nat
      BY <1>1, <1>6
    <3>2. PICK lo \in T : \A b \in T : lo <= b
      BY <2>2, <3>1, LeastExists
    <3>3. lo \in Nat /\ lo .. end - 1 \subseteq F /\ lo \in F
      <4>1. lo \in Chunks(f) /\ lo \in Nat /\ \A x \in lo .. end - 1 : x \in F
        BY <1>1, <1>5, <3>2
      <4>2. lo <= lo /\ lo < lo + n[lo] /\ lo \in Int
        BY <1>1, <4>1
      <4> QED
        BY <1>9, <4>1, <4>2
    <3>4. lo \in BeginBlkNr .. end
      BY <1>3, <3>3
    <3>5. /\ \A b \in T : b >= lo
          /\ \A x \in F : x >= lo => \E b \in T : b <= x
      BY <1>3, <3>1, <3>2, <3>3
    <3>6. \A x \in F : (\E b \in T : b <= x) => x >= lo
      BY <1>3, <3>1, <3>2
    <3> QED
      BY <3>3, <3>4, <3>5, <3>6
  <2> QED
    BY <2>1, <2>2
<1>13. PICK lo \in BeginBlkNr .. end :
         /\ lo .. end - 1 \subseteq F
         /\ \A b \in T : b >= lo
         /\ \A x \in F : x >= lo <=> \E b \in T : b <= x
  BY <1>12
<1>14. lo \in Int
  BY <1>3
<1>15. TailSz(f, a) = end - lo
  <2>1. {x \in F : \E b \in T : b <= x} = lo .. end - 1
    <3>1. \A x \in F : x >= lo => x \in lo .. end - 1
      BY <1>3, <1>14
    <3>2. \A x \in lo .. end - 1 : x \in F /\ x >= lo
      BY <1>13, <1>14
    <3> QED
      BY <1>13, <3>1, <3>2
  <2>2. Cardinality(lo .. end - 1) = end - lo
    <3>1. Cardinality(lo .. end - 1) = IF lo > end - 1 THEN 0 ELSE (end - 1) - lo + 1
      BY <1>3, <1>14, FS_Interval
    <3> QED
      BY <1>3, <1>13, <1>14, <3>1
  <2> QED
    BY <2>1, <2>2 DEF TailSz, T, F
<1>16. FreeBlksOf(w) = F \ (lo .. end - 1)
  <2>1. ASSUME NEW x \in F \ (lo .. end - 1) PROVE x \in FreeBlksOf(w)
    <3>1. PICK b \in Chunks(f) : b <= x /\ x < b + n[b]
      BY <1>2
    <3>2. x \in Int /\ x < lo
      BY <1>3, <1>14
    <3>3. b \notin T
      BY <1>1, <1>13, <1>14, <3>1, <3>2
    <3> QED
      BY <1>2, <1>8, <3>1, <3>3
  <2>2. ASSUME NEW x \in FreeBlksOf(w) PROVE x \in F \ (lo .. end - 1)
    <3>1. PICK b \in Chunks(f) \ T : b <= x /\ x < b + n[b]
      BY <1>8
    <3>2. x \in F /\ x \in Int
      BY <1>2, <1>3, <1>8, <3>1
    <3>3. b + n[b] < lo
      BY <1>1, <1>11, <1>13, <1>14, <3>1
    <3> QED
      BY <1>1, <1>14, <3>1, <3>2, <3>3
  <2> QED
    BY <2>1, <2>2
<1>17. lo - 1 \notin F
  <2> SUFFICES ASSUME lo - 1 \in F PROVE FALSE
    OBVIOUS
  <2>1. PICK b \in Chunks(f) : b <= lo - 1 /\ lo - 1 < b + n[b]
    BY <1>2
  <2>2. b \in T
    BY <1>1, <1>11, <1>13, <1>14, <2>1
  <2> QED
    BY <1>1, <1>13, <1>14, <2>1, <2>2
<1> QED
  BY <1>7, <1>13, <1>15, <1>16, <1>17 DEF F, T, w, end

-----------------------------------------------------------------------------
(* What alloc adds to the free map from the tail *)

\* The blocks a request adds to the array: one at least, and no more of them
\* than were asked for.
LEMMA ExtendByFacts ==
  ASSUME NEW cnt \in BlkCnts \ {0}, WellFormed(maps.fr_map)
  PROVE  ExtendBy(cnt) \in BlkCnts \ {0}
<1> DEFINE f == maps.fr_map
           last == {b \in Chunks(f) : PastEndBlkNr(ChunkAt(f, b)) = arr.past_end}
           b == CHOOSE b \in last : TRUE
<1>1. cnt \in Nat /\ cnt > 0 /\ cnt <= MaxBlkCnt /\ MaxBlkCnt \in Nat
  BY ExtentAssumption DEF BlkCnts
<1>2. last # {} => f.fr_by_nr[b] \in BlkCnts /\ f.fr_by_nr[b] # 0
  <2>1. last # {} => b \in Chunks(f)
    OBVIOUS
  <2> HIDE DEF b, last
  <2> QED
    BY <2>1, WellFormedFacts
<1>3. ExtendBy(cnt) = IF ~ CoalescingEnabled \/ last = {} THEN cnt
                      ELSE IF cnt <= f.fr_by_nr[b] THEN 1 ELSE cnt - f.fr_by_nr[b]
  BY DEF ExtendBy
<1> HIDE DEF b, last
<1>4. last # {} => f.fr_by_nr[b] \in Nat /\ f.fr_by_nr[b] > 0
  BY <1>2, ExtentAssumption DEF BlkCnts
<1>5. ExtendBy(cnt) \in Nat /\ ExtendBy(cnt) > 0 /\ ExtendBy(cnt) <= MaxBlkCnt
  BY <1>1, <1>3, <1>4
<1> QED
  BY <1>1, <1>5 DEF BlkCnts

\* What the two outcomes of the growth of the array have in common.
GrownBy(a, n) ==
  IF FitsInSlack(a, n) THEN GrownInSlack(a, n) ELSE Grown(a, n, Request(a, n))

\* An array that may grow stays below the greatest block number.
LEMMA GrownByFacts ==
  ASSUME NEW a \in Arrays, PointersOrdered(a), NEW n \in BlkCnts \ {0},
         FitsInSlack(a, n) \/ ~ Exhausts(a, n)
  PROVE  /\ GrownBy(a, n) \in Arrays
         /\ PointersOrdered(GrownBy(a, n))
         /\ GrownBy(a, n).past_end = a.past_end + n
<1>1. /\ a = [past_end |-> a.past_end, real_past_end |-> a.real_past_end]
      /\ a.past_end \in Nat /\ a.real_past_end \in Nat /\ n \in Nat /\ n > 0
      /\ BeginBlkNr \in Nat /\ BlkNrExhaust \in Nat
      /\ BeginBlkNr <= a.past_end /\ a.past_end <= a.real_past_end
      /\ a.real_past_end < BlkNrExhaust
  BY BlockArrayAssumption, ExtentAssumption DEF Arrays, BlkNrs, BlkCnts, PointersOrdered
<1>2. CASE FitsInSlack(a, n)
  <2>1. GrownBy(a, n) = [past_end |-> a.past_end + n, real_past_end |-> a.real_past_end]
    BY <1>1, <1>2 DEF GrownBy, GrownInSlack
  <2>2. a.past_end + n <= a.real_past_end
    BY <1>1, <1>2 DEF FitsInSlack, Slack
  <2> QED
    BY <1>1, <2>1, <2>2 DEF Arrays, PointersOrdered
<1>3. CASE ~ FitsInSlack(a, n)
  <2>1. a.real_past_end + Request(a, n) = a.past_end + n
    BY <1>1 DEF Request, Slack
  <2>2. GrownBy(a, n) = [past_end |-> a.past_end + n, real_past_end |-> a.past_end + n]
    BY <1>1, <1>3, <2>1 DEF GrownBy, Grown
  <2>3. a.past_end + n < BlkNrExhaust
    BY <1>1, <1>3, <2>1 DEF Exhausts
  <2> QED
    BY <1>1, <2>2, <2>3 DEF Arrays, PointersOrdered
<1> QED
  BY <1>2, <1>3

\* The new blocks are free blocks.
LEMMA GrowsFits ==
  ASSUME NEW m, MapsFit(m), NEW a \in Arrays, PointersOrdered(a), NEW n \in BlkCnts \ {0},
         FitsInSlack(a, n) \/ ~ Exhausts(a, n),
         FreeUnits(m) \subseteq BlksOfArray(a) \X Subblks
  PROVE  LET e == FullExtent(a.past_end, n)
             k == [m EXCEPT !.fr_map = Dealloc(@, e)]
         IN  /\ MapsFit(k)
             /\ FreeUnits(k) = FreeUnits(m) \cup UnitsOf(e)
             /\ k.subfr_map = m.subfr_map
             /\ BlksOfArray(GrownBy(a, n)) \X Subblks = (BlksOfArray(a) \X Subblks) \cup UnitsOf(e)
             /\ UnitsOf(e) \cap (BlksOfArray(a) \X Subblks) = {}
<1> DEFINE e == FullExtent(a.past_end, n)
           k == [m EXCEPT !.fr_map = Dealloc(@, e)]
           g == GrownBy(a, n)
<1>1. /\ g \in Arrays /\ g.past_end = a.past_end + n
      /\ a.past_end \in Nat /\ n \in Nat /\ n > 0
      /\ BeginBlkNr \in Nat /\ BeginBlkNr <= a.past_end
      /\ a.past_end + n <= MaxBlkNr + 1 /\ MaxBlkNr \in Nat
  <2>1. g \in Arrays /\ g.past_end = a.past_end + n
    BY GrownByFacts
  <2> HIDE DEF g
  <2> QED
    BY <2>1, BlockArrayAssumption, ExtentAssumption
       DEF Arrays, PointersOrdered, BlkNrs, BlkCnts
<1>2. e \in FullExtents
  <2>1. a.past_end \in BlkNrs
    BY <1>1 DEF BlkNrs
  <2> QED
    BY <1>1, <2>1, MakeFullExtent
<1>3. e \in Extents /\ e.is_suballoc = FALSE
  BY <1>2 DEF Extents, FullExtent
<1>4. BlksOf(e) = a.past_end .. a.past_end + n - 1
  <2>1. BlksOf(e) = {b \in BlkNrs : a.past_end <= b /\ b < a.past_end + n}
    BY <1>2, FullExtentFacts DEF FullExtent
  <2> HIDE DEF e
  <2> QED
    BY <1>1, <2>1 DEF BlkNrs
<1> HIDE DEF e, k, g
<1>5. UnitsOf(e) = BlksOf(e) \X Subblks
  BY <1>3, ExtentUnits
<1>6. BlksOf(e) \cap BlksOfArray(a) = {} /\ BlksOfArray(g) = BlksOfArray(a) \cup BlksOf(e)
  <2>1. BlksOf(e) \cap BlksOfArray(a) = {}
    BY <1>1, <1>4 DEF BlksOfArray
  <2>2. \A b : b \in BlksOfArray(g) <=> b \in BlksOfArray(a) \cup BlksOf(e)
    BY <1>1, <1>4 DEF BlksOfArray
  <2> QED
    BY <2>1, <2>2
<1>7. UnitsOf(e) \cap (BlksOfArray(a) \X Subblks) = {}
  BY <1>5, <1>6
<1>8. UnitsOf(e) \cap FreeUnits(m) = {}
  BY <1>7
<1>9. k = DeallocExt(m, e)
  BY <1>3 DEF DeallocExt, k
<1>10. MapsFit(k) /\ FreeUnits(k) = FreeUnits(m) \cup UnitsOf(e)
  BY <1>3, <1>8, <1>9, DeallocExtFits
<1>11. k.subfr_map = m.subfr_map
  <2>1. m = [fr_map |-> m.fr_map, subfr_map |-> m.subfr_map]
    BY DEF MapsFit
  <2>2. k = [fr_map |-> Dealloc(m.fr_map, e), subfr_map |-> m.subfr_map]
    BY <2>1 DEF k
  <2> QED
    BY <2>2
<1>12. BlksOfArray(g) \X Subblks = (BlksOfArray(a) \X Subblks) \cup UnitsOf(e)
  BY <1>5, <1>6
<1> QED
  BY <1>7, <1>10, <1>11, <1>12 DEF e, k, g

-----------------------------------------------------------------------------
(* Division *)

\* Two multiples of n are n apart at least.
LEMMA MultiplesApart ==
  ASSUME NEW n \in Nat \ {0}, NEW a \in Nat, NEW b \in Nat,
         (a % n) = 0, (b % n) = 0, a < b
  PROVE  a + n <= b
<1> DEFINE p == a \div n
           q == b \div n
<1>1. p \in Nat /\ a = n * p
  BY DivMod
<1>2. q \in Nat /\ b = n * q
  BY DivMod
<1> HIDE DEF p, q
<1>3. p < q
  <2> SUFFICES ASSUME q <= p PROVE FALSE
    BY <1>1, <1>2
  <2>1. PICK k \in Nat : p = q + k
    <3>1. p - q \in Nat /\ p = q + (p - q)
      BY <1>1, <1>2
    <3> QED
      BY <3>1
  <2>2. n * p = n * q + n * k /\ n * k \in Nat
    BY <1>2, <2>1
  <2> QED
    BY <1>1, <1>2, <2>2
<1>4. PICK k \in Nat : q = p + 1 + k
  <2>1. q - p - 1 \in Nat /\ q = p + 1 + (q - p - 1)
    BY <1>1, <1>2, <1>3
  <2> QED
    BY <2>1
<1>5. n * q = n * p + n + n * k /\ n * k \in Nat
  BY <1>1, <1>4
<1> QED
  BY <1>1, <1>2, <1>5

-----------------------------------------------------------------------------
(* What initialize_from_allocated makes of the gaps *)

\* A gap starts after a block in use or with the array.
IsGapStart(b, x) ==
  /\ x \in BeginBlkNr .. b
  /\ x .. b \cap UsedBlks = {}
  /\ x = BeginBlkNr \/ x - 1 \in UsedBlks

\* The gap of a free block starts at one place only.
LEMMA GapStartFacts ==
  ASSUME NEW b \in Nat, BeginBlkNr <= b, b \notin UsedBlks, UsedBlks \subseteq Nat
  PROVE  /\ IsGapStart(b, GapStart(b))
         /\ \A x : IsGapStart(b, x) => x = GapStart(b)
<1>0. BeginBlkNr \in Nat
  BY BlockArrayAssumption, ExtentAssumption DEF BlkNrs
<1> DEFINE S == {x \in BeginBlkNr .. b : x .. b \cap UsedBlks = {}}
<1>1. S \in SUBSET Nat
  BY <1>0
<1>2. b \in S
  <2>1. b .. b = {b}
    OBVIOUS
  <2> QED
    BY <1>0, <2>1
<1>3. PICK x \in S : \A y \in S : x <= y
  <2> HIDE DEF S
  <2> QED
    BY <1>1, <1>2, LeastExists
<1>4. IsGapStart(b, x)
  <2>1. x \in BeginBlkNr .. b /\ x .. b \cap UsedBlks = {} /\ x \in Nat
    BY <1>0, <1>3
  <2>2. ASSUME x # BeginBlkNr, x - 1 \notin UsedBlks PROVE FALSE
    <3>1. x - 1 \in BeginBlkNr .. b
      BY <1>0, <2>1, <2>2
    <3>2. x - 1 .. b = {x - 1} \cup (x .. b)
      BY <2>1
    <3>3. x - 1 \in S
      BY <2>1, <2>2, <3>1, <3>2
    <3> QED
      BY <1>3, <2>1, <3>3
  <2> QED
    BY <2>1, <2>2 DEF IsGapStart
<1>5. GapStart(b) = CHOOSE y : IsGapStart(b, y)
  BY DEF GapStart, IsGapStart
<1>6. ASSUME NEW y, NEW z, IsGapStart(b, y), IsGapStart(b, z), y # z PROVE FALSE
  <2>1. /\ y \in Nat /\ z \in Nat /\ y >= BeginBlkNr /\ z >= BeginBlkNr
        /\ y <= b /\ z <= b
    BY <1>0, <1>6 DEF IsGapStart
  <2>2. CASE y < z
    <3>1. z - 1 \in UsedBlks /\ z - 1 \in y .. b
      BY <1>0, <1>6, <2>1, <2>2 DEF IsGapStart
    <3> QED
      BY <1>6, <3>1 DEF IsGapStart
  <2>3. CASE z < y
    <3>1. y - 1 \in UsedBlks /\ y - 1 \in z .. b
      BY <1>0, <1>6, <2>1, <2>3 DEF IsGapStart
    <3> QED
      BY <1>6, <3>1 DEF IsGapStart
  <2> QED
    BY <1>6, <2>1, <2>2, <2>3
<1>7. IsGapStart(b, GapStart(b))
  BY <1>4, <1>5
<1> QED
  BY <1>6, <1>7

\* What a chunk of the gap of block b is: it starts at a multiple of the
\* greatest count from the start of the gap, and ends after as many blocks or
\* with the gap.
ChunkStarts(b) ==
  /\ b \in BlksOfArray(arr) \ UsedBlks
  /\ ((b - GapStart(b)) % MaxBlkCnt) = 0

ChunkEnds(b, e) ==
  /\ e \in b + 1 .. b + MaxBlkCnt /\ e <= arr.past_end
  /\ b .. e - 1 \cap UsedBlks = {}
  /\ e = b + MaxBlkCnt \/ e = arr.past_end \/ e \in UsedBlks

\* A chunk of a gap ends with it, or has as many blocks as it can.
LEMMA GapChunkFacts ==
  ASSUME arr \in Arrays, UsedBlks \subseteq BlksOfArray(arr), NEW b \in BlkNrs
  PROVE  /\ ~ ChunkStarts(b) => GapChunks[b] = 0
         /\ ChunkStarts(b) => ChunkEnds(b, b + GapChunks[b]) /\ GapChunks[b] \in Nat
<1> DEFINE end == arr.past_end
           U == UsedBlks
           M == MaxBlkCnt
           G == {x \in b .. b + M - 1 : x < end /\ b .. x \cap U = {}}
<1>0. /\ b \in Nat /\ end \in Nat /\ M \in Nat /\ M > 0
      /\ BeginBlkNr \in Nat /\ U \subseteq Nat
  BY BlockArrayAssumption, ExtentAssumption DEF Arrays, BlkNrs, BlksOfArray
<1>1. GapChunks[b] = IF ChunkStarts(b) THEN Cardinality(G) ELSE 0
  BY DEF GapChunks, ChunkStarts
<1> SUFFICES ASSUME ChunkStarts(b)
             PROVE  ChunkEnds(b, b + Cardinality(G)) /\ Cardinality(G) \in Nat
  BY <1>1
<1>2. b >= BeginBlkNr /\ b < end /\ b \notin U
  BY <1>0 DEF ChunkStarts, BlksOfArray
<1> HIDE DEF U, end, M
<1> DEFINE S == {e \in b + 1 .. b + M : e = b + M \/ e = end \/ e \in U}
<1>3. S \in SUBSET Nat /\ b + M \in S
  BY <1>0
<1>4. PICK e \in S : \A d \in S : e <= d
  <2> HIDE DEF S
  <2> QED
    BY <1>3, LeastExists
<1>5. /\ e \in b + 1 .. b + M /\ e \in Nat
      /\ e = b + M \/ e = end \/ e \in U
  BY <1>0, <1>4
<1>6. e <= end
  <2>1. end <= b + M => end \in S
    BY <1>0, <1>2
  <2> QED
    BY <1>0, <1>4, <1>5, <2>1
<1>7. b .. e - 1 \cap U = {}
  <2> SUFFICES ASSUME NEW x \in b .. e - 1, x \in U PROVE FALSE
    OBVIOUS
  <2>1. x \in b + 1 .. b + M /\ x < e
    BY <1>0, <1>2, <1>5
  <2>2. x \in S
    BY <2>1
  <2> QED
    BY <1>4, <1>5, <2>1, <2>2
<1>8. G = b .. e - 1
  <2>1. ASSUME NEW x \in b .. e - 1 PROVE x \in G
    <3>1. x \in b .. b + M - 1 /\ x < end
      BY <1>0, <1>5, <1>6
    <3>2. b .. x \subseteq b .. e - 1
      BY <1>0, <1>5
    <3> QED
      BY <1>7, <3>1, <3>2
  <2>2. ASSUME NEW x \in G, x \notin b .. e - 1 PROVE FALSE
    <3>1. x \in Nat /\ x >= e /\ x < b + M /\ x < end
      BY <1>0, <1>5, <2>2
    <3>2. e \in U
      BY <1>0, <1>5, <3>1
    <3>3. e \in b .. x
      BY <1>0, <1>5, <3>1
    <3> QED
      BY <2>2, <3>2, <3>3
  <2> QED
    BY <2>1, <2>2
<1>9. Cardinality(G) = e - b
  <2>1. Cardinality(b .. e - 1) = IF b > e - 1 THEN 0 ELSE (e - 1) - b + 1
    BY <1>0, <1>5, FS_Interval
  <2>2. Cardinality(b .. e - 1) = e - b
    BY <1>0, <1>5, <2>1
  <2> HIDE DEF G
  <2> QED
    BY <1>8, <2>2
<1>10. b + Cardinality(G) = e /\ Cardinality(G) \in Nat
  BY <1>0, <1>5, <1>9
<1> QED
  BY <1>5, <1>6, <1>7, <1>10 DEF ChunkEnds, U, end, M

\* The chunks of the gaps are a well formed free map of every gap.
LEMMA InitialFreeMapFits ==
  ASSUME arr \in Arrays, UsedBlks \subseteq BlksOfArray(arr)
  PROVE  /\ WellFormed(InitialFreeMap)
         /\ FreeBlksOf(InitialFreeMap) = BlksOfArray(arr) \ UsedBlks
<1> DEFINE m == InitialFreeMap
           n == GapChunks
           U == UsedBlks
           end == arr.past_end
           M == MaxBlkCnt
<1>0. /\ end \in Nat /\ M \in Nat \ {0} /\ M > 0 /\ MaxBlkNr \in Nat
      /\ BeginBlkNr \in Nat /\ U \subseteq Nat
      /\ end <= MaxBlkNr + 1 /\ BlkNrs = 0 .. MaxBlkNr /\ BlkCnts = 0 .. M
      /\ BlksOfArray(arr) \subseteq BlkNrs
      /\ \A x \in Int : x \in BlksOfArray(arr) <=> BeginBlkNr <= x /\ x < end
  BY BlockArrayAssumption, ExtentAssumption DEF Arrays, BlkNrs, BlkCnts, BlksOfArray
<1>1. \A b \in BlkNrs : /\ ~ ChunkStarts(b) => n[b] = 0
                        /\ ChunkStarts(b) => ChunkEnds(b, b + n[b]) /\ n[b] \in Nat
  BY GapChunkFacts
<1>2. \A b \in BlkNrs : b \in Nat
  BY <1>0
<1>3. \A b \in BlkNrs : /\ ChunkStarts(b) <=> n[b] # 0
                        /\ n[b] \in BlkCnts
                        /\ b + n[b] <= MaxBlkNr + 1
  <2> TAKE b \in BlkNrs
  <2>1. CASE ChunkStarts(b)
    <3>1. n[b] \in Nat /\ b + n[b] \in b + 1 .. b + M /\ b + n[b] <= end
      BY <1>1, <2>1 DEF ChunkEnds
    <3> HIDE DEF n, M, end
    <3> QED
      BY <1>0, <1>2, <2>1, <3>1
  <2>2. CASE ~ ChunkStarts(b)
    BY <1>0, <1>1, <2>2
  <2> QED
    BY <2>1, <2>2
<1>4. n \in [BlkNrs -> BlkCnts]
  <2>1. n = [b \in BlkNrs |-> n[b]]
    BY DEF GapChunks
  <2> HIDE DEF n
  <2> QED
    BY <1>3, <2>1
<1> DEFINE mm == [fr_by_nr |-> n, fr_by_cnt |-> {}]
<1>5. /\ m = [fr_by_nr |-> n, fr_by_cnt |-> {<<n[b], b>> : b \in Chunks(m)}]
      /\ Chunks(m) = {b \in BlkNrs : n[b] # 0}
  <2>1. Chunks(mm) = {b \in BlkNrs : n[b] # 0}
    BY DEF Chunks
  <2>2. m = [fr_by_nr |-> n, fr_by_cnt |-> {<<n[b], b>> : b \in Chunks(mm)}]
    BY DEF InitialFreeMap
  <2>3. Chunks(m) = {b \in BlkNrs : n[b] # 0}
    <3> HIDE DEF m, n
    <3> QED
      BY <2>2 DEF Chunks
  <2> QED
    BY <2>1, <2>2, <2>3
<1> HIDE DEF m, n, mm
<1>6. m.fr_by_nr = n /\ \A b : b \in Chunks(m) <=> b \in BlkNrs /\ ChunkStarts(b)
  BY <1>3, <1>5
<1>7. IndexesAgreeIn(m) /\ m \in FreeMaps
  <2>1. m.fr_by_cnt = {<<n[b], b>> : b \in Chunks(m)}
    BY <1>5
  <2>2. {<<n[b], b>> : b \in Chunks(m)} \subseteq (BlkCnts \ {0}) \X BlkNrs
    BY <1>3, <1>6
  <2>3. m = [fr_by_nr |-> n, fr_by_cnt |-> m.fr_by_cnt]
    BY <1>5, <2>1
  <2> QED
    BY <1>4, <1>6, <2>1, <2>2, <2>3 DEF IndexesAgreeIn, FreeMaps
\* The facts of a chunk that starts at b.
<1>8. ASSUME NEW b \in BlkNrs, ChunkStarts(b)
      PROVE  /\ b \in Nat /\ b \in BlksOfArray(arr) /\ b \notin U
             /\ n[b] \in Nat /\ n[b] > 0 /\ n[b] <= M /\ b + n[b] <= end
             /\ \A x \in Int : b <= x /\ x < b + n[b] => x \notin U
             /\ n[b] = M \/ b + n[b] = end \/ b + n[b] \in U
             /\ IsGapStart(b, GapStart(b))
             /\ \A x : IsGapStart(b, x) => x = GapStart(b)
  <2>1. /\ b \in Nat /\ b \in BlksOfArray(arr) /\ b \notin U /\ BeginBlkNr <= b
    BY <1>0, <1>2, <1>8 DEF ChunkStarts
  <2>2. /\ n[b] \in Nat
        /\ b + n[b] \in b + 1 .. b + M /\ b + n[b] <= end
        /\ b .. (b + n[b]) - 1 \cap U = {}
        /\ b + n[b] = b + M \/ b + n[b] = end \/ b + n[b] \in U
    <3>1. n[b] \in Nat /\ ChunkEnds(b, b + n[b])
      BY <1>1, <1>8
    <3> QED
      BY <3>1 DEF ChunkEnds
  <2>3. \A x \in Int : b <= x /\ x < b + n[b] => x \in b .. (b + n[b]) - 1
    BY <2>1, <2>2
  <2>4. \A x \in Int : b <= x /\ x < b + n[b] => x \notin U
    BY <2>2, <2>3
  <2>5. n[b] > 0 /\ n[b] <= M
    BY <1>0, <2>1, <2>2
  <2>6. n[b] = M \/ b + n[b] = end \/ b + n[b] \in U
    BY <1>0, <2>1, <2>2
  <2> QED
    BY <1>0, <2>1, <2>2, <2>4, <2>5, <2>6, GapStartFacts
\* Blocks with none in use between them are of the same gap.
<1>9. ASSUME NEW b \in Nat, NEW c \in Nat, BeginBlkNr <= b, b <= c, b .. c \cap U = {}
      PROVE  /\ GapStart(b) = GapStart(c)
             /\ GapStart(b) \in Nat /\ GapStart(b) <= b
  <2>1. b \in b .. c /\ c \in b .. c
    BY <1>9
  <2>2. b \notin U /\ c \notin U /\ BeginBlkNr <= c
    BY <1>0, <1>9, <2>1
  <2>3. IsGapStart(b, GapStart(b)) /\ \A x : IsGapStart(c, x) => x = GapStart(c)
    BY <1>0, <1>9, <2>2, GapStartFacts
  <2> DEFINE s == GapStart(b)
  <2>4. s \in Nat /\ s <= b /\ s \in BeginBlkNr .. c
    BY <1>0, <1>9, <2>3 DEF IsGapStart
  <2>5. s .. c = (s .. b) \cup (b .. c)
    BY <1>9, <2>4
  <2>6. s .. c \cap U = {}
    BY <1>9, <2>3, <2>5 DEF IsGapStart
  <2>7. IsGapStart(c, s)
    BY <2>3, <2>4, <2>6 DEF IsGapStart
  <2> QED
    BY <2>3, <2>4, <2>7
<1>10. ChunksDisjointIn(m)
  <2> SUFFICES ASSUME NEW b \in Chunks(m)
               PROVE  /\ b + n[b] <= MaxBlkNr + 1
                      /\ \A c \in Chunks(m) : b < c => b + n[b] <= c
    BY <1>6 DEF ChunksDisjointIn
  <2>1. b \in BlkNrs /\ ChunkStarts(b)
    BY <1>6
  <2>2. ASSUME NEW c \in Chunks(m), b < c PROVE b + n[b] <= c
    <3>1. c \in BlkNrs /\ ChunkStarts(c)
      BY <1>6
    <3>2. b \in Nat /\ c \in Nat /\ n[b] \in Nat /\ n[b] <= M /\ BeginBlkNr <= b
      BY <1>0, <1>8, <2>1, <3>1
    <3>3. CASE b .. c \cap U = {}
      <4>1. GapStart(b) = GapStart(c) /\ GapStart(b) \in Nat /\ GapStart(b) <= b
        BY <1>9, <2>2, <3>2, <3>3
      <4> DEFINE s == GapStart(b)
      <4>2. ((b - s) % M) = 0 /\ ((c - s) % M) = 0
        BY <2>1, <3>1, <4>1 DEF ChunkStarts
      <4> HIDE DEF s, M
      <4>3. b - s \in Nat /\ c - s \in Nat /\ b - s < c - s
        BY <2>2, <3>2, <4>1 DEF s
      <4>4. (b - s) + M <= c - s
        BY <1>0, <4>2, <4>3, MultiplesApart
      <4> QED
        BY <1>0, <3>2, <4>1, <4>4 DEF s
    <3>4. CASE b .. c \cap U # {}
      <4>1. PICK u \in b .. c : u \in U
        BY <3>4
      <4>2. ~ (u < b + n[b])
        BY <1>8, <2>1, <3>2, <4>1
      <4> QED
        BY <3>2, <4>1, <4>2
    <3> QED
      BY <3>3, <3>4
  <2> QED
    BY <1>3, <2>1, <2>2
<1>11. FreeBlksOf(m) = BlksOfArray(arr) \ U
  <2>1. \A x : x \in FreeBlksOf(m) <=>
                 x \in BlkNrs /\ \E b \in Chunks(m) : b <= x /\ x < b + n[b]
    BY <1>6 DEF FreeBlksOf
  <2>2. ASSUME NEW x \in FreeBlksOf(m) PROVE x \in BlksOfArray(arr) \ U
    <3>1. PICK b \in Chunks(m) : b <= x /\ x < b + n[b]
      BY <2>1
    <3>2. x \in BlkNrs /\ x \in Nat /\ b \in BlkNrs /\ ChunkStarts(b)
      BY <1>2, <1>6, <2>1
    <3>3. /\ b \in Nat /\ b \in BlksOfArray(arr) /\ n[b] \in Nat /\ b + n[b] <= end
          /\ x \notin U
      BY <1>8, <3>1, <3>2
    <3> QED
      BY <1>0, <3>1, <3>2, <3>3
  <2>3. ASSUME NEW x \in BlksOfArray(arr) \ U PROVE x \in FreeBlksOf(m)
    <3>1. x \in Nat /\ BeginBlkNr <= x /\ x < end /\ x \in BlkNrs
      BY <1>0, <1>2
    <3> DEFINE s == GapStart(x)
               r == (x - s) % M
               b == x - r
               q == (x - s) \div M
    <3>2. IsGapStart(x, s)
      BY <1>0, <3>1, GapStartFacts
    <3>3. s \in Nat /\ s <= x /\ BeginBlkNr <= s /\ s .. x \cap U = {} /\ x - s \in Nat
      BY <1>0, <3>1, <3>2 DEF IsGapStart
    <3> HIDE DEF s
    <3>4. r \in 0 .. M - 1 /\ q \in Nat /\ x - s = M * q + r
      BY <1>0, <3>3, DivMod
    <3> HIDE DEF r, q
    <3>5. M * q \in Nat /\ b - s = M * q + 0
      BY <1>0, <3>3, <3>4
    <3>6. b \in Nat /\ s <= b /\ b <= x /\ x < b + M
      BY <1>0, <3>1, <3>3, <3>4, <3>5
    <3>7. ((b - s) % M) = 0
      <4>1. 0 \in 0 .. M - 1
        BY <1>0
      <4>2. ((M * q + 0) % M) = 0
        BY <1>0, <3>4, <4>1, DivModUnique
      <4> HIDE DEF b
      <4> QED
        BY <3>5, <4>2
    <3> HIDE DEF b
    <3>8. b .. x \cap U = {}
      <4>1. b .. x \subseteq s .. x
        BY <3>1, <3>3, <3>6
      <4> QED
        BY <3>3, <4>1
    <3>9. GapStart(b) = s
      BY <1>0, <1>9, <3>1, <3>3, <3>6, <3>8 DEF s
    <3>10. b \in BlksOfArray(arr) /\ b \notin U
      <4>1. b \in b .. x
        BY <3>1, <3>6
      <4>2. BeginBlkNr <= b /\ b < end
        BY <1>0, <3>1, <3>3, <3>6
      <4> QED
        BY <1>0, <3>6, <3>8, <4>1, <4>2
    <3>11. ChunkStarts(b) /\ b \in BlkNrs
      BY <1>0, <3>7, <3>9, <3>10 DEF ChunkStarts
    <3>12. /\ n[b] \in Nat
           /\ n[b] = M \/ b + n[b] = end \/ b + n[b] \in U
      BY <1>8, <3>11
    <3>13. x < b + n[b]
      <4>1. ASSUME x >= b + n[b] PROVE FALSE
        <5>1. b + n[b] \in U
          BY <1>0, <3>1, <3>6, <3>12, <4>1
        <5>2. b + n[b] \in b .. x
          BY <3>1, <3>6, <3>12, <4>1
        <5> QED
          BY <3>8, <5>1, <5>2
      <4> QED
        BY <3>1, <3>6, <3>12, <4>1
    <3>14. b \in Chunks(m)
      BY <1>6, <3>11
    <3> QED
      BY <2>1, <3>1, <3>6, <3>13, <3>14
  <2> QED
    BY <2>2, <2>3
<1> QED
  BY <1>7, <1>10, <1>11 DEF WellFormed, m, U

\* The subblocks that are not in use, of the blocks with some in use, are a
\* well formed subblock map, and no block of it is fully free.
LEMMA InitialSubFreeMapFits ==
  ASSUME LiveExts \subseteq Extents
  PROVE  /\ SubWellFormed(InitialSubFreeMap)
         /\ \A b \in BlkNrs : InitialSubFreeMap.fr_by_nr[b] =
              IF b \in SuballocBlks THEN Subblks \ UsedSubblks(b) ELSE {}
         /\ \A b \in BlkNrs : InitialSubFreeMap.fr_by_nr[b] # Subblks
<1> DEFINE m == InitialSubFreeMap
           free == [b \in BlkNrs |-> IF b \in SuballocBlks THEN Subblks \ UsedSubblks(b) ELSE {}]
           OfBin(i) == {b \in BlkNrs : free[b] # {} /\ BinOf(free[b]) = i}
           bins == [i \in Bins |-> {<<b, free[b]>> : b \in OfBin(i)}]
<1>1. m = [fr_by_nr |-> free, exts_bin |-> bins]
  BY DEF InitialSubFreeMap
<1>2. m.fr_by_nr = free /\ m.exts_bin = bins
  BY <1>1
<1>3. free \in [BlkNrs -> Bitmaps]
  BY DEF Bitmaps
<1>4. \A b \in BlkNrs : free[b] = IF b \in SuballocBlks THEN Subblks \ UsedSubblks(b) ELSE {}
  OBVIOUS
<1> HIDE DEF free, m
<1>5. bins \in [Bins -> SUBSET (BlkNrs \X Bitmaps)]
  <2>1. \A i \in Bins : {<<b, free[b]>> : b \in OfBin(i)} \in SUBSET (BlkNrs \X Bitmaps)
    BY <1>3
  <2> QED
    BY <2>1
<1>6. m \in SubFreeMaps
  <2> HIDE DEF bins
  <2> QED
    BY <1>1, <1>3, <1>5 DEF SubFreeMaps
<1>7. BinsAgreeIn(m)
  BY <1>2 DEF BinsAgreeIn, InSubMap
<1>8. ASSUME NEW b \in BlkNrs PROVE free[b] # Subblks
  <2>1. CASE b \in SuballocBlks
    <3>1. PICK e \in LiveExts : e.is_suballoc /\ e.blk_nr = b
      BY <2>1 DEF SuballocBlks
    <3>2. PICK i \in Subblks : i \in e.blk_bitmap
      BY <3>1, ExtentUnits
    <3>3. i \in UsedSubblks(b)
      BY <3>1, <3>2 DEF UsedSubblks
    <3> QED
      BY <1>4, <2>1, <3>3
  <2>2. CASE b \notin SuballocBlks
    BY <1>4, <2>2, BinOfFacts
  <2> QED
    BY <2>1, <2>2
<1> QED
  BY <1>2, <1>4, <1>6, <1>7, <1>8 DEF SubWellFormed, m

\* A block of an extent has some subblock of it.
LEMMA BlkHasUnit ==
  ASSUME NEW e \in Extents, NEW b \in BlksOf(e)
  PROVE  b \in BlkNrs /\ \E i \in Subblks : <<b, i>> \in UnitsOf(e)
<1>1. CASE e.is_suballoc
  BY <1>1, ExtentUnits
<1>2. CASE ~ e.is_suballoc
  BY <1>2, ExtentUnits, BinOfFacts
<1> QED
  BY <1>1, <1>2, ExtentUnits

\* What is free after the array is reopened is what no segment has.
LEMMA ReopenFits ==
  ASSUME arr \in Arrays, LiveExts \subseteq Extents,
         UnitsOfAll(LiveExts) \subseteq ArrayUnits,
         \A e, f \in LiveExts : e # f => UnitsOf(e) \cap UnitsOf(f) = {}
  PROVE  LET m == [fr_map |-> InitialFreeMap, subfr_map |-> InitialSubFreeMap]
         IN  /\ MapsFit(m)
             /\ FreeUnits(m) = ArrayUnits \ UnitsOfAll(LiveExts)
             /\ Reclaimable(m) = {}
<1> DEFINE f == InitialFreeMap
           g == InitialSubFreeMap
           m == [fr_map |-> f, subfr_map |-> g]
           X == UnitsOfAll(LiveExts)
<1>0. BlksOfArray(arr) \subseteq BlkNrs
  BY BlockArrayAssumption, ExtentAssumption DEF Arrays, BlkNrs, BlksOfArray
<1>1. \A b, i : <<b, i>> \in X <=> \E e \in LiveExts : <<b, i>> \in UnitsOf(e)
  BY DEF UnitsOfAll
<1>2. UsedBlks \subseteq BlksOfArray(arr)
  <2> SUFFICES ASSUME NEW e \in LiveExts, NEW b \in BlksOf(e) PROVE b \in BlksOfArray(arr)
    BY DEF UsedBlks
  <2>1. PICK i \in Subblks : <<b, i>> \in UnitsOf(e)
    BY BlkHasUnit
  <2>2. <<b, i>> \in ArrayUnits
    BY <1>1, <2>1
  <2> QED
    BY <2>2 DEF ArrayUnits
<1>3. /\ WellFormed(f)
      /\ FreeBlksOf(f) = BlksOfArray(arr) \ UsedBlks
  BY <1>2, InitialFreeMapFits
<1>4. /\ SubWellFormed(g)
      /\ \A b \in BlkNrs : g.fr_by_nr[b] =
           IF b \in SuballocBlks THEN Subblks \ UsedSubblks(b) ELSE {}
      /\ \A b \in BlkNrs : g.fr_by_nr[b] # Subblks
  BY InitialSubFreeMapFits
<1>5. SuballocBlks \subseteq UsedBlks
  <2> SUFFICES ASSUME NEW e \in LiveExts, e.is_suballoc PROVE e.blk_nr \in UsedBlks
    BY DEF SuballocBlks
  <2>1. e.blk_nr \in BlksOf(e)
    BY ExtentUnits
  <2> QED
    BY <2>1 DEF UsedBlks
<1>6. m.fr_map = f /\ m.subfr_map = g /\ m = [fr_map |-> f, subfr_map |-> g]
  OBVIOUS
<1> HIDE DEF f, g, m, X
<1>7. MapsFit(m)
  <2>1. \A b \in FreeBlksOf(f) : g.fr_by_nr[b] = {}
    BY <1>0, <1>3, <1>4, <1>5
  <2> QED
    BY <1>3, <1>4, <1>6, <2>1 DEF MapsFit
<1>8. ASSUME NEW b \in BlkNrs, NEW i \in Subblks
      PROVE  /\ b \notin UsedBlks => <<b, i>> \notin X
             /\ b \in SuballocBlks => (<<b, i>> \in X <=> i \in UsedSubblks(b))
             /\ b \in UsedBlks \ SuballocBlks => <<b, i>> \in X
  <2>1. ASSUME b \notin UsedBlks, NEW e \in LiveExts PROVE <<b, i>> \notin UnitsOf(e)
    <3>1. b \notin BlksOf(e)
      BY <2>1 DEF UsedBlks
    <3> QED
      BY <3>1 DEF UnitsOf
  <2>2. ASSUME b \in SuballocBlks, i \in UsedSubblks(b) PROVE <<b, i>> \in X
    <3>1. PICK e \in LiveExts : e.is_suballoc /\ e.blk_nr = b /\ i \in e.blk_bitmap
      BY <2>2 DEF UsedSubblks
    <3>2. <<b, i>> \in UnitsOf(e)
      BY <3>1, ExtentUnits
    <3> QED
      BY <1>1, <3>2
  <2>3. ASSUME b \in SuballocBlks, <<b, i>> \in X PROVE i \in UsedSubblks(b)
    <3>1. PICK e \in LiveExts : <<b, i>> \in UnitsOf(e)
      BY <1>1, <2>3
    <3>2. PICK s \in LiveExts : s.is_suballoc /\ s.blk_nr = b
      BY <2>3 DEF SuballocBlks
    <3>3. CASE e.is_suballoc
      <4>1. e.blk_nr = b /\ i \in e.blk_bitmap
        BY <3>1, <3>3, ExtentUnits
      <4> QED
        BY <3>3, <4>1 DEF UsedSubblks
    <3>4. CASE ~ e.is_suballoc
      <4>1. PICK j \in Subblks : <<b, j>> \in UnitsOf(s)
        BY <3>2, ExtentUnits
      <4>2. <<b, j>> \in UnitsOf(e)
        BY <3>1, <3>4, ExtentUnits
      <4>3. e # s
        BY <3>2, <3>4
      <4> QED
        BY <4>1, <4>2, <4>3
    <3> QED
      BY <3>3, <3>4, ExtentUnits
  <2>4. ASSUME b \in UsedBlks, b \notin SuballocBlks PROVE <<b, i>> \in X
    <3>1. PICK e \in LiveExts : b \in BlksOf(e)
      BY <2>4 DEF UsedBlks
    <3>2. ~ e.is_suballoc
      <4> SUFFICES ASSUME e.is_suballoc PROVE FALSE
        OBVIOUS
      <4>1. e.blk_nr = b
        BY <3>1, ExtentUnits
      <4> QED
        BY <2>4, <4>1 DEF SuballocBlks
    <3>3. <<b, i>> \in UnitsOf(e)
      BY <3>1, <3>2, ExtentUnits
    <3> QED
      BY <1>1, <3>3
  <2> QED
    BY <1>1, <2>1, <2>2, <2>3, <2>4
<1>9. FreeUnits(m) = ArrayUnits \ X
  <2>1. /\ FreeUnits(m) \subseteq BlkNrs \X Subblks
        /\ \A b, i : <<b, i>> \in FreeUnits(m) <=>
                       \/ b \in FreeBlksOf(f) /\ i \in Subblks
                       \/ b \in BlkNrs /\ i \in g.fr_by_nr[b]
    BY <1>6, <1>7, InFreeUnits
  <2>2. /\ ArrayUnits \subseteq BlkNrs \X Subblks
        /\ \A b, i : <<b, i>> \in ArrayUnits <=> b \in BlksOfArray(arr) /\ i \in Subblks
    BY <1>0 DEF ArrayUnits
  <2>3. ASSUME NEW b \in BlkNrs, NEW i \in Subblks
        PROVE  <<b, i>> \in FreeUnits(m) <=> <<b, i>> \in ArrayUnits \ X
    <3>1. CASE b \notin UsedBlks
      BY <1>3, <1>4, <1>5, <1>8, <2>1, <2>2, <3>1
    <3>2. CASE b \in SuballocBlks
      <4>1. b \in BlksOfArray(arr) /\ b \notin FreeBlksOf(f)
        BY <1>2, <1>3, <1>5, <3>2
      <4>2. i \in g.fr_by_nr[b] <=> i \notin UsedSubblks(b)
        BY <1>4, <3>2
      <4>3. <<b, i>> \in X <=> i \in UsedSubblks(b)
        BY <1>8, <3>2
      <4> HIDE <1>8
      <4> QED
        BY <2>1, <2>2, <4>1, <4>2, <4>3
    <3>3. CASE b \in UsedBlks \ SuballocBlks
      BY <1>3, <1>4, <1>8, <2>1, <2>2, <3>3
    <3> QED
      BY <3>1, <3>2, <3>3
  <2>4. ArrayUnits \ X \subseteq BlkNrs \X Subblks
    BY <2>2
  <2> QED
    BY <2>1, <2>3, <2>4, SameUnits
<1>10. Reclaimable(m) = {}
  <2>1. Reclaimable(m) = {b \in BlkNrs : g.fr_by_nr[b] = Subblks}
    BY <1>4, <1>6, FullyFreeAreFull DEF Reclaimable
  <2> QED
    BY <1>4, <2>1
<1> QED
  BY <1>7, <1>9, <1>10 DEF m, f, g, X

-----------------------------------------------------------------------------
(* Sums, and the sizes of sequences of extents *)

SumLoop(sum, nums) ==
  /\ SumOf(nums) = sum[Len(nums)]
  /\ sum[0] = 0
  /\ \A n \in 1 .. Len(nums) : sum[n] = sum[n - 1] + nums[n]

\* A sum is made number by number.
LEMMA SumSteps ==
  ASSUME NEW nums \in Seq(Nat)
  PROVE  \E sum : SumLoop(sum, nums)
<1> DEFINE L == Len(nums)
           Body(n, g) == IF n = 0 THEN 0 ELSE g[n - 1] + nums[n]
           UpTo(k, g) == g = [n \in 0 .. k |-> Body(n, g)]
           None == {k \in 0 .. L : ~ \E g : UpTo(k, g)}
<1>0. L \in Nat
  BY LenProperties
<1>1. None = {}
  <2> SUFFICES ASSUME None # {} PROVE FALSE
    OBVIOUS
  <2>1. None \in SUBSET Nat
    BY <1>0
  <2> HIDE DEF UpTo
  <2>2. PICK k \in None : \A j \in None : k <= j
    <3> HIDE DEF None
    <3> QED
      BY <2>1, LeastExists
  <2>3. k \in 0 .. L /\ ~ \E g : UpTo(k, g)
    BY <2>2
  <2>4. CASE k = 0
    <3> DEFINE g == [n \in 0 .. 0 |-> 0]
    <3>1. UpTo(0, g)
      BY DEF UpTo
    <3> QED
      BY <2>3, <2>4, <3>1
  <2>5. CASE k # 0
    <3>1. k - 1 \in 0 .. L /\ k - 1 \notin None
      <4>1. k - 1 \in 0 .. L /\ k \in Nat /\ ~ (k <= k - 1)
        BY <1>0, <2>3, <2>5
      <4> HIDE DEF None
      <4> QED
        BY <2>2, <4>1
    <3>2. PICK g : UpTo(k - 1, g)
      BY <3>1
    <3> DEFINE h == [n \in 0 .. k |-> IF n = k THEN Body(k, g) ELSE g[n]]
    <3> HIDE DEF Body
    <3>3. /\ \A n \in 0 .. k - 1 : h[n] = g[n] /\ n \in 0 .. k
          /\ h[k] = Body(k, g)
      BY <2>3
    <3>4. \A n \in 0 .. k - 1 : g[n] = Body(n, g)
      BY <3>2 DEF UpTo
    <3> HIDE DEF h
    <3>5. ASSUME NEW n \in 0 .. k PROVE h[n] = Body(n, h)
      <4>1. n # 0 => n - 1 \in 0 .. k - 1
        BY <2>3
      <4>2. n # 0 => h[n - 1] = g[n - 1]
        BY <3>3, <4>1
      <4>3. Body(n, h) = Body(n, g)
        BY <4>2 DEF Body
      <4>4. n = k \/ n \in 0 .. k - 1
        BY <2>3
      <4> QED
        BY <3>3, <3>4, <4>3, <4>4
    <3>6. h = [n \in 0 .. k |-> Body(n, h)]
      <4>1. h = [n \in 0 .. k |-> h[n]]
        BY DEF h
      <4> QED
        BY <3>5, <4>1
    <3>7. UpTo(k, h)
      BY <3>6 DEF UpTo
    <3> QED
      BY <2>3, <3>7
  <2> QED
    BY <2>4, <2>5
<1>2. \E g : UpTo(L, g)
  <2> HIDE DEF UpTo
  <2> QED
    BY <1>0, <1>1
<1> DEFINE sum == CHOOSE g : UpTo(L, g)
<1>3. UpTo(L, sum)
  <2> HIDE DEF UpTo
  <2> QED
    BY <1>2
<1>4. SumOf(nums) = sum[L]
  BY DEF SumOf
<1> HIDE DEF sum
<1>5. sum[0] = 0 /\ \A n \in 1 .. L : sum[n] = sum[n - 1] + nums[n]
  BY <1>0, <1>3
<1> QED
  BY <1>4, <1>5 DEF SumLoop

\* The partial sums are naturals.
LEMMA SumIsNat ==
  ASSUME NEW nums \in Seq(Nat), NEW sum, SumLoop(sum, nums)
  PROVE  \A n \in 0 .. Len(nums) : sum[n] \in Nat
<1> DEFINE L == Len(nums)
           Bad == {n \in 0 .. L : sum[n] \notin Nat}
<1>0. L \in Nat /\ \A n \in 1 .. L : nums[n] \in Nat
  BY LenProperties, ElementOfSeq
<1>1. ASSUME Bad # {} PROVE FALSE
  <2>1. Bad \in SUBSET Nat
    BY <1>0
  <2>2. PICK k \in Bad : \A j \in Bad : k <= j
    <3> HIDE DEF Bad
    <3> QED
      BY <1>1, <2>1, LeastExists
  <2>3. k # 0
    BY DEF SumLoop
  <2>4. k - 1 \in 0 .. L /\ k - 1 \notin Bad /\ k \in 1 .. L
    BY <1>0, <2>2, <2>3
  <2> QED
    BY <1>0, <2>4, SMTT(30) DEF SumLoop
<1> QED
  BY <1>1

\* The sum of two sequences of numbers, one after the other.
LEMMA SumConcat ==
  ASSUME NEW s \in Seq(Nat), NEW t \in Seq(Nat)
  PROVE  SumOf(s) \in Nat /\ SumOf(t) \in Nat /\ SumOf(s \o t) = SumOf(s) + SumOf(t)
<1> DEFINE u == s \o t
<1>1. /\ u \in Seq(Nat) /\ Len(u) = Len(s) + Len(t)
      /\ \A i \in 1 .. Len(s) + Len(t) : u[i] = IF i <= Len(s) THEN s[i] ELSE t[i - Len(s)]
      /\ Len(s) \in Nat /\ Len(t) \in Nat
  BY ConcatProperties, LenProperties
<1> HIDE DEF u
<1>2. PICK a : SumLoop(a, s)
  BY SumSteps
<1>3. PICK b : SumLoop(b, t)
  BY SumSteps
<1>4. PICK c : SumLoop(c, u)
  BY <1>1, SumSteps
<1>5. /\ \A n \in 0 .. Len(s) : a[n] \in Nat
      /\ \A n \in 0 .. Len(t) : b[n] \in Nat
      /\ \A n \in 0 .. Len(u) : c[n] \in Nat
  BY <1>1, <1>2, <1>3, <1>4, SumIsNat
<1> DEFINE Sum(n) == IF n <= Len(s) THEN a[n] ELSE a[Len(s)] + b[n - Len(s)]
           Bad == {n \in 0 .. Len(u) : c[n] # Sum(n)}
<1>6. ASSUME Bad # {} PROVE FALSE
  <2>1. Bad \in SUBSET Nat
    BY <1>1
  <2>2. PICK k \in Bad : \A j \in Bad : k <= j
    <3> HIDE DEF Bad
    <3> QED
      BY <1>6, <2>1, LeastExists
  <2>3. k # 0
    BY <1>1, <1>2, <1>4 DEF SumLoop
  <2>4. k - 1 \in 0 .. Len(u) /\ k - 1 \notin Bad /\ k \in 1 .. Len(u)
    <3>1. k \in 0 .. Len(u)
      BY <2>2
    <3>2. k - 1 \in 0 .. Len(u) /\ k \in 1 .. Len(u) /\ ~ (k <= k - 1)
      BY <1>1, <2>3, <3>1
    <3> HIDE DEF Bad
    <3> QED
      BY <2>2, <3>2
  <2>5. c[k] = c[k - 1] + u[k] /\ c[k - 1] = Sum(k - 1)
    BY <1>4, <2>4 DEF SumLoop
  <2>6. CASE k <= Len(s)
    <3>1. k \in 1 .. Len(s) /\ u[k] = s[k] /\ a[k] = a[k - 1] + s[k]
      BY <1>1, <1>2, <2>4, <2>6 DEF SumLoop
    <3>2. Sum(k - 1) = a[k - 1] /\ Sum(k) = a[k]
      BY <1>1, <2>4, <2>6
    <3> QED
      BY <2>2, <2>5, <3>1, <3>2
  <2>7. CASE k > Len(s)
    <3> DEFINE j == k - Len(s)
    <3>1. j \in 1 .. Len(t) /\ u[k] = t[j] /\ b[j] = b[j - 1] + t[j]
      BY <1>1, <1>3, <2>4, <2>7, SMTT(30) DEF SumLoop
    <3>2. Sum(k) = a[Len(s)] + b[j]
      BY <1>1, <2>4, <2>7
    <3>3. Sum(k - 1) = a[Len(s)] + b[j - 1]
      <4>1. CASE k - 1 = Len(s)
        <5>1. j - 1 = 0 /\ b[0] = 0 /\ a[Len(s)] \in Nat
          BY <1>1, <1>3, <1>5, <2>4, <4>1 DEF SumLoop
        <5>2. Sum(k - 1) = a[Len(s)]
          BY <1>1, <4>1
        <5> HIDE DEF Sum, j
        <5> QED
          BY <5>1, <5>2
      <4>2. CASE k - 1 # Len(s)
        <5>1. ~ (k - 1 <= Len(s))
          <6>1. k \in 0 .. Len(u)
            BY <2>4
          <6> HIDE DEF Bad
          <6> QED
            BY <1>1, <2>7, <4>2, <6>1
        <5>2. (k - 1) - Len(s) = j - 1
          BY <1>1, <2>4
        <5> HIDE DEF j
        <5> QED
          BY <5>1, <5>2
      <4> QED
        BY <4>1, <4>2
    <3>4. a[Len(s)] \in Nat /\ b[j - 1] \in Nat /\ b[j] \in Nat /\ t[j] \in Nat
      <4>1. Len(s) \in 0 .. Len(s) /\ j - 1 \in 0 .. Len(t) /\ j \in 0 .. Len(t)
        BY <1>1, <3>1, SMTT(30)
      <4>2. t[j] \in Nat
        BY <3>1, ElementOfSeq
      <4> QED
        BY <1>5, <4>1, <4>2
    <3> HIDE DEF Sum, j
    <3>5. c[k] = Sum(k)
      BY <2>5, <3>1, <3>2, <3>3, <3>4
    <3> QED
      BY <2>2, <3>5
  <2> QED
    BY <1>1, <2>4, <2>6, <2>7
<1>7. c[Len(u)] = Sum(Len(u))
  <2>1. Len(u) \in 0 .. Len(u)
    BY <1>1
  <2> HIDE DEF Sum
  <2> QED
    BY <1>6, <2>1
<1>8. /\ SumOf(s) = a[Len(s)] /\ SumOf(t) = b[Len(t)] /\ SumOf(u) = c[Len(u)]
      /\ b[0] = 0
  BY <1>2, <1>3, <1>4 DEF SumLoop
<1>9. a[Len(s)] \in Nat /\ b[Len(t)] \in Nat
  BY <1>1, <1>5
<1>10. Sum(Len(u)) = a[Len(s)] + b[Len(t)]
  <2>1. CASE Len(t) = 0
    BY <1>1, <1>8, <1>9, <2>1
  <2>2. CASE Len(t) # 0
    <3>1. ~ (Len(u) <= Len(s)) /\ Len(u) - Len(s) = Len(t)
      BY <1>1, <2>2
    <3> QED
      BY <3>1
  <2> QED
    BY <2>1, <2>2
<1> QED
  BY <1>7, <1>8, <1>9, <1>10 DEF u

\* The sum of no number and of one.
LEMMA SumOfFew ==
  /\ SumOf(<< >>) = 0
  /\ \A n \in Nat : SumOf(<<n>>) = n
<1>1. SumOf(<< >>) = 0
  <2>1. << >> \in Seq(Nat) /\ Len(<< >>) = 0
    BY EmptySeq
  <2>2. PICK sum : SumLoop(sum, << >>)
    BY <2>1, SumSteps
  <2> QED
    BY <2>1, <2>2 DEF SumLoop
<1>2. ASSUME NEW n \in Nat PROVE SumOf(<<n>>) = n
  <2>1. <<n>> \in Seq(Nat) /\ Len(<<n>>) = 1 /\ <<n>>[1] = n
    OBVIOUS
  <2>2. PICK sum : SumLoop(sum, <<n>>)
    BY <2>1, SumSteps
  <2>3. sum[0] = 0 /\ sum[1] = sum[0] + n /\ SumOf(<<n>>) = sum[1]
    BY <2>1, <2>2 DEF SumLoop
  <2> QED
    BY <2>3
<1> QED
  BY <1>1, <1>2

\* A block is made of its subblocks.
LEMMA SubblkSzFacts ==
  /\ SubblkSz \in Nat \ {0}
  /\ BlkSz = SubblkCntPerBlk * SubblkSz
  /\ BlkSz \in Nat \ {0} /\ SubblkCntPerBlk \in Nat \ {0}
<1> DEFINE n == SubblkCntPerBlk
           q == BlkSz \div n
<1>1. /\ BlkSz \in Nat \ {0} /\ n \in Nat \ {0} /\ (BlkSz % n) = 0
  BY ExtentAssumption, SegmentAllocatorAssumption
<1>2. q \in Nat /\ BlkSz = n * q + 0
  BY <1>1, DivMod
<1>3. SubblkSz = q
  BY DEF SubblkSz
<1> HIDE DEF q, n
<1>4. BlkSz = n * q /\ q # 0
  BY <1>1, <1>2
<1> QED
  BY <1>1, <1>2, <1>3, <1>4 DEF n

\* The size of an extent is the one of its units, and it has some.
LEMMA ExtSzFacts ==
  ASSUME NEW e \in Extents
  PROVE  /\ IsFiniteSet(UnitsOf(e))
         /\ Cardinality(UnitsOf(e)) \in Nat
         /\ ExtSz(e) = Cardinality(UnitsOf(e)) * SubblkSz
         /\ ExtSz(e) \in Nat
<1>0. IsFiniteSet(Subblks) /\ Cardinality(Subblks) = SubblkCntPerBlk
  BY FS_Interval, ExtentAssumption DEF Subblks
<1>1. CASE e.is_suballoc
  <2>1. e.blk_bitmap \subseteq Subblks /\ UnitsOf(e) = {e.blk_nr} \X e.blk_bitmap
    BY <1>1, ExtentUnits
  <2>2. IsFiniteSet(e.blk_bitmap) /\ Cardinality(e.blk_bitmap) \in Nat
    BY <1>0, <2>1, FS_Subset, FS_CardinalityType
  <2>3. IsFiniteSet({e.blk_nr}) /\ Cardinality({e.blk_nr}) = 1
    BY FS_Singleton
  <2>4. /\ IsFiniteSet(UnitsOf(e))
        /\ Cardinality(UnitsOf(e)) = 1 * Cardinality(e.blk_bitmap)
    BY <2>1, <2>2, <2>3, FS_Product
  <2>5. ExtSz(e) = Cardinality(e.blk_bitmap) * SubblkSz
    BY <1>1 DEF ExtSz, SubblkCnt
  <2> QED
    BY <2>2, <2>4, <2>5, SubblkSzFacts
<1>2. CASE ~ e.is_suballoc
  <2>1. /\ e.blk_nr \in BlkNrs /\ e.blk_cnt \in BlkCnts
        /\ e.blk_nr + e.blk_cnt <= MaxBlkNr + 1
        /\ BlksOf(e) = {b \in BlkNrs : e.blk_nr <= b /\ b < e.blk_nr + e.blk_cnt}
        /\ UnitsOf(e) = BlksOf(e) \X Subblks
    BY <1>2, ExtentUnits, FullExtentFacts
  <2> DEFINE nr == e.blk_nr
             c == e.blk_cnt
  <2>2. nr \in Nat /\ c \in Nat /\ MaxBlkNr \in Nat
    BY <2>1, ExtentAssumption DEF BlkNrs, BlkCnts
  <2> HIDE DEF nr, c
  <2>3. BlksOf(e) = nr .. nr + c - 1
    BY <2>1, <2>2 DEF BlkNrs, nr, c
  <2>4. IsFiniteSet(BlksOf(e)) /\ Cardinality(BlksOf(e)) = c
    <3>1. IsFiniteSet(nr .. nr + c - 1)
      BY <2>2, FS_Interval
    <3>2. Cardinality(nr .. nr + c - 1)
            = IF nr > nr + c - 1 THEN 0 ELSE (nr + c - 1) - nr + 1
      BY <2>2, FS_Interval
    <3>3. Cardinality(nr .. nr + c - 1) = c
      BY <2>2, <3>2
    <3> QED
      BY <2>3, <3>1, <3>3
  <2>5. IsFiniteSet(UnitsOf(e)) /\ Cardinality(UnitsOf(e)) = c * SubblkCntPerBlk
    BY <1>0, <2>1, <2>4, FS_Product
  <2>6. ExtSz(e) = c * BlkSz
    BY <1>2 DEF ExtSz, c
  <2>7. c * BlkSz = (c * SubblkCntPerBlk) * SubblkSz
    <3>1. \A x, y, z \in Nat : x * (y * z) = (x * y) * z
      OBVIOUS
    <3> QED
      BY <2>2, <3>1, SubblkSzFacts
  <2>8. c * SubblkCntPerBlk \in Nat /\ c * BlkSz \in Nat
    BY <2>2, SubblkSzFacts
  <2> QED
    BY <2>5, <2>6, <2>7, <2>8
<1> QED
  BY <1>1, <1>2, ExtentUnits

\* A function on 1 .. n is a sequence of n elements.
LEMMA FunctionIsSeq ==
  ASSUME NEW n \in Nat, NEW S, NEW s \in [1 .. n -> S]
  PROVE  s \in Seq(S) /\ Len(s) = n
<1>1. s \in Seq(S)
  BY SeqDef
<1>2. DOMAIN s = 1 .. Len(s) /\ Len(s) \in Nat
  BY <1>1, LenProperties
<1> DEFINE k == Len(s)
<1>3. k \in Nat /\ 1 .. k = 1 .. n
  BY <1>2
<1> HIDE DEF k
<1>4. \A x, y \in Nat : x < y => y \in 1 .. y /\ y \notin 1 .. x
  OBVIOUS
<1>5. ~ (k < n) /\ ~ (n < k)
  BY <1>3, <1>4
<1>6. k = n
  BY <1>3, <1>5
<1> QED
  BY <1>1, <1>6 DEF k

\* The sizes of the extents are a sequence of naturals.
LEMMA SizesOfExts ==
  ASSUME NEW exts \in Seq(Extents)
  PROVE  /\ [i \in DOMAIN exts |-> ExtSz(exts[i])] \in Seq(Nat)
         /\ Len([i \in DOMAIN exts |-> ExtSz(exts[i])]) = Len(exts)
         /\ ExtsSz(exts) = SumOf([i \in DOMAIN exts |-> ExtSz(exts[i])])
<1>1. DOMAIN exts = 1 .. Len(exts) /\ Len(exts) \in Nat
  BY LenProperties
<1>2. \A i \in 1 .. Len(exts) : ExtSz(exts[i]) \in Nat
  BY ElementOfSeq, ExtSzFacts
<1> DEFINE sizes == [i \in 1 .. Len(exts) |-> ExtSz(exts[i])]
<1>3. sizes \in [1 .. Len(exts) -> Nat]
  BY <1>2
<1>4. sizes \in Seq(Nat) /\ Len(sizes) = Len(exts)
  <2> HIDE DEF sizes
  <2> QED
    BY <1>1, <1>3, FunctionIsSeq
<1>5. ExtsSz(exts) = SumOf([i \in DOMAIN exts |-> ExtSz(exts[i])])
  BY DEF ExtsSz, Total
<1> QED
  BY <1>1, <1>4, <1>5

\* The size of two sequences of extents, one after the other.
LEMMA ExtsSzConcat ==
  ASSUME NEW s \in Seq(Extents), NEW t \in Seq(Extents)
  PROVE  /\ ExtsSz(s) \in Nat /\ ExtsSz(t) \in Nat
         /\ ExtsSz(s \o t) = ExtsSz(s) + ExtsSz(t)
<1> DEFINE u == s \o t
           a == [i \in DOMAIN s |-> ExtSz(s[i])]
           b == [i \in DOMAIN t |-> ExtSz(t[i])]
           c == [i \in DOMAIN u |-> ExtSz(u[i])]
<1>1. /\ u \in Seq(Extents) /\ Len(u) = Len(s) + Len(t)
      /\ \A i \in 1 .. Len(s) + Len(t) : u[i] = IF i <= Len(s) THEN s[i] ELSE t[i - Len(s)]
      /\ Len(s) \in Nat /\ Len(t) \in Nat
      /\ DOMAIN s = 1 .. Len(s) /\ DOMAIN t = 1 .. Len(t)
  BY ConcatProperties, LenProperties
<1> HIDE DEF u
<1>2. DOMAIN u = 1 .. Len(s) + Len(t)
  BY <1>1, LenProperties
<1>3. /\ a \in Seq(Nat) /\ Len(a) = Len(s) /\ ExtsSz(s) = SumOf(a)
      /\ b \in Seq(Nat) /\ Len(b) = Len(t) /\ ExtsSz(t) = SumOf(b)
      /\ c \in Seq(Nat) /\ Len(c) = Len(u) /\ ExtsSz(u) = SumOf(c)
  BY <1>1, SizesOfExts
<1>4. /\ \A i \in 1 .. Len(s) : a[i] = ExtSz(s[i])
      /\ \A i \in 1 .. Len(t) : b[i] = ExtSz(t[i])
      /\ \A i \in 1 .. Len(s) + Len(t) : c[i] = ExtSz(u[i])
  BY <1>1, <1>2
<1> HIDE DEF a, b, c
<1>5. /\ a \o b \in Seq(Nat) /\ Len(a \o b) = Len(c)
      /\ \A i \in 1 .. Len(s) + Len(t) : (a \o b)[i] = IF i <= Len(s) THEN a[i] ELSE b[i - Len(s)]
  <2>1. /\ a \o b \in Seq(Nat)
        /\ Len(a \o b) = Len(a) + Len(b)
        /\ \A i \in 1 .. Len(a) + Len(b) :
             (a \o b)[i] = IF i <= Len(a) THEN a[i] ELSE b[i - Len(a)]
    BY <1>3, ConcatProperties
  <2> QED
    BY <1>1, <1>3, <2>1
<1>6. ASSUME NEW i \in 1 .. Len(s) + Len(t) PROVE c[i] = (a \o b)[i]
  <2>1. CASE i <= Len(s)
    <3>1. i \in 1 .. Len(s)
      BY <1>1, <2>1
    <3> QED
      BY <1>1, <1>4, <1>5, <2>1, <3>1
  <2>2. CASE ~ (i <= Len(s))
    <3>1. i - Len(s) \in 1 .. Len(t)
      BY <1>1, <2>2
    <3>2. c[i] = ExtSz(u[i]) /\ u[i] = t[i - Len(s)] /\ (a \o b)[i] = b[i - Len(s)]
      BY <1>1, <1>4, <1>5, <2>2
    <3> QED
      BY <1>4, <3>1, <3>2
  <2> QED
    BY <2>1, <2>2
<1>7. c = a \o b
  <2>1. \A i \in 1 .. Len(c) : c[i] = (a \o b)[i]
    BY <1>1, <1>3, <1>6
  <2> QED
    BY <1>3, <1>5, <2>1, SeqEqual
<1> QED
  BY <1>3, <1>7, SumConcat DEF u

\* The size of no extent and of one.
LEMMA ExtsSzOfFew ==
  /\ ExtsSz(<< >>) = 0
  /\ \A e \in Extents : ExtsSz(<<e>>) = ExtSz(e)
<1>1. ExtsSz(<< >>) = 0
  <2>1. << >> \in Seq(Extents)
    BY EmptySeq
  <2> DEFINE a == [i \in DOMAIN << >> |-> ExtSz(<< >>[i])]
  <2>2. a \in Seq(Nat) /\ Len(a) = Len(<< >>) /\ ExtsSz(<< >>) = SumOf(a)
    BY <2>1, SizesOfExts
  <2> HIDE DEF a
  <2>3. a = << >>
    BY <2>2, EmptySeq
  <2> QED
    BY <2>2, <2>3, SumOfFew
<1>2. ASSUME NEW e \in Extents PROVE ExtsSz(<<e>>) = ExtSz(e)
  <2> DEFINE s == <<e>>
             a == [i \in DOMAIN s |-> ExtSz(s[i])]
  <2>1. /\ s \in Seq(Extents) /\ Len(s) = 1 /\ s[1] = e /\ DOMAIN s = 1 .. 1
        /\ ExtSz(e) \in Nat /\ <<ExtSz(e)>> \in Seq(Nat)
        /\ Len(<<ExtSz(e)>>) = 1 /\ <<ExtSz(e)>>[1] = ExtSz(e)
    BY ExtSzFacts
  <2> HIDE DEF s
  <2>2. a \in Seq(Nat) /\ Len(a) = 1 /\ ExtsSz(s) = SumOf(a)
    BY <2>1, SizesOfExts
  <2>3. a[1] = ExtSz(e)
    BY <2>1
  <2> HIDE DEF a
  <2>4. a = <<ExtSz(e)>>
    <3>1. \A i \in 1 .. Len(a) : a[i] = <<ExtSz(e)>>[i]
      <4>1. \A i \in 1 .. Len(a) : i = 1
        BY <2>2
      <4> QED
        BY <2>1, <2>3, <4>1
    <3> QED
      BY <2>1, <2>2, <3>1, SeqEqual
  <2> QED
    BY <2>1, <2>2, <2>4, SumOfFew DEF s
<1> QED
  BY <1>1, <1>2

-----------------------------------------------------------------------------
(* The units of sequences of extents *)

\* Two sequences of extents, one after the other.
LEMMA ScatteredConcat ==
  ASSUME NEW s \in Seq(Extents), NEW t \in Seq(Extents)
  PROVE  /\ s \o t \in Seq(Extents)
         /\ UnitsIn(s \o t) = UnitsIn(s) \cup UnitsIn(t)
         /\ Scattered(s \o t) <=> /\ Scattered(s) /\ Scattered(t)
                                  /\ UnitsIn(s) \cap UnitsIn(t) = {}
<1> DEFINE u == s \o t
<1>1. /\ u \in Seq(Extents) /\ Len(u) = Len(s) + Len(t)
      /\ \A i \in 1 .. Len(s) + Len(t) : u[i] = IF i <= Len(s) THEN s[i] ELSE t[i - Len(s)]
      /\ Len(s) \in Nat /\ Len(t) \in Nat
  BY ConcatProperties, LenProperties
<1>2. UnitsIn(u) = UnitsIn(s) \cup UnitsIn(t)
  <2>1. Range(u) = Range(s) \cup Range(t)
    BY RangeConcatenation
  <2> HIDE DEF u
  <2> QED
    BY <2>1 DEF UnitsIn, UnitsOfAll
<1> HIDE DEF u
<1>3. /\ \A i \in 1 .. Len(s) : u[i] = s[i] /\ i \in 1 .. Len(u)
      /\ \A i \in 1 .. Len(t) : u[i + Len(s)] = t[i] /\ i + Len(s) \in 1 .. Len(u)
      /\ \A i \in 1 .. Len(u) : i \in 1 .. Len(s) \/ i - Len(s) \in 1 .. Len(t)
  <2>1. ASSUME NEW i \in 1 .. Len(t) PROVE u[i + Len(s)] = t[i] /\ i + Len(s) \in 1 .. Len(u)
    <3>1. /\ i + Len(s) \in 1 .. Len(s) + Len(t) /\ ~ (i + Len(s) <= Len(s))
          /\ (i + Len(s)) - Len(s) = i
      BY <1>1
    <3>2. u[i + Len(s)] = t[(i + Len(s)) - Len(s)]
      BY <1>1, <3>1
    <3> QED
      BY <1>1, <3>1, <3>2
  <2>2. \A i \in 1 .. Len(s) : u[i] = s[i] /\ i \in 1 .. Len(u)
    BY <1>1
  <2>3. \A i \in 1 .. Len(u) : i \in 1 .. Len(s) \/ i - Len(s) \in 1 .. Len(t)
    BY <1>1
  <2> QED
    BY <2>1, <2>2, <2>3
<1>4. /\ UnitsIn(s) = UNION {UnitsOf(s[i]) : i \in 1 .. Len(s)}
      /\ UnitsIn(t) = UNION {UnitsOf(t[i]) : i \in 1 .. Len(t)}
  BY UnitsOfSeq
<1>5. ASSUME Scattered(u)
      PROVE  Scattered(s) /\ Scattered(t) /\ UnitsIn(s) \cap UnitsIn(t) = {}
  <2>1. \A i, j \in 1 .. Len(u) : i # j => UnitsOf(u[i]) \cap UnitsOf(u[j]) = {}
    BY <1>5 DEF Scattered
  <2>2. Scattered(s)
    BY <1>3, <2>1 DEF Scattered
  <2>3. Scattered(t)
    <3> SUFFICES ASSUME NEW i \in 1 .. Len(t), NEW j \in 1 .. Len(t), i # j
                 PROVE  UnitsOf(t[i]) \cap UnitsOf(t[j]) = {}
      BY DEF Scattered
    <3>1. i + Len(s) # j + Len(s)
      BY <1>1
    <3>2. UnitsOf(u[i + Len(s)]) \cap UnitsOf(u[j + Len(s)]) = {}
      BY <1>3, <2>1, <3>1
    <3> QED
      BY <1>3, <3>2
  <2>4. ASSUME NEW i \in 1 .. Len(s), NEW j \in 1 .. Len(t)
        PROVE  UnitsOf(s[i]) \cap UnitsOf(t[j]) = {}
    <3>1. i # j + Len(s)
      BY <1>1
    <3>2. UnitsOf(u[i]) \cap UnitsOf(u[j + Len(s)]) = {}
      BY <1>3, <2>1, <3>1
    <3> QED
      BY <1>3, <3>2
  <2>5. ASSUME NEW x, x \in UnitsIn(s), x \in UnitsIn(t) PROVE FALSE
    <3>1. PICK i \in 1 .. Len(s) : x \in UnitsOf(s[i])
      BY <1>4, <2>5
    <3>2. PICK j \in 1 .. Len(t) : x \in UnitsOf(t[j])
      BY <1>4, <2>5
    <3> QED
      BY <2>4, <3>1, <3>2
  <2> QED
    BY <2>2, <2>3, <2>5
<1>6. ASSUME Scattered(s), Scattered(t), UnitsIn(s) \cap UnitsIn(t) = {}
      PROVE  Scattered(u)
  <2> SUFFICES ASSUME NEW i \in 1 .. Len(u), NEW j \in 1 .. Len(u), i # j
               PROVE  UnitsOf(u[i]) \cap UnitsOf(u[j]) = {}
    BY DEF Scattered
  <2>1. i \in Int /\ j \in Int
    OBVIOUS
  <2>2. \A k \in 1 .. Len(u) : k - Len(s) \in 1 .. Len(t) => u[k] = t[k - Len(s)]
    <3> TAKE k \in 1 .. Len(u)
    <3> HAVE k - Len(s) \in 1 .. Len(t)
    <3>1. (k - Len(s)) + Len(s) = k
      BY <1>1
    <3> QED
      BY <1>3, <3>1
  <2>3. CASE i \in 1 .. Len(s) /\ j \in 1 .. Len(s)
    BY <1>3, <1>6, <2>3 DEF Scattered
  <2>4. CASE i - Len(s) \in 1 .. Len(t) /\ j - Len(s) \in 1 .. Len(t)
    <3>1. i - Len(s) # j - Len(s)
      BY <1>1, <2>1
    <3> QED
      BY <1>6, <2>2, <2>4, <3>1 DEF Scattered
  <2>5. CASE i \in 1 .. Len(s) /\ j - Len(s) \in 1 .. Len(t)
    <3>1. UnitsOf(u[i]) \subseteq UnitsIn(s) /\ UnitsOf(u[j]) \subseteq UnitsIn(t)
      BY <1>3, <1>4, <2>2, <2>5
    <3> QED
      BY <1>6, <3>1
  <2>6. CASE j \in 1 .. Len(s) /\ i - Len(s) \in 1 .. Len(t)
    <3>1. UnitsOf(u[j]) \subseteq UnitsIn(s) /\ UnitsOf(u[i]) \subseteq UnitsIn(t)
      BY <1>3, <1>4, <2>2, <2>6
    <3> QED
      BY <1>6, <3>1
  <2> QED
    BY <1>3, <2>3, <2>4, <2>5, <2>6
<1> QED
  BY <1>1, <1>2, <1>5, <1>6 DEF u

\* No extent, and one.
LEMMA ScatteredFew ==
  /\ << >> \in Seq(Extents) /\ Scattered(<< >>) /\ UnitsIn(<< >>) = {}
  /\ \A e \in Extents : /\ <<e>> \in Seq(Extents) /\ Scattered(<<e>>)
                        /\ UnitsIn(<<e>>) = UnitsOf(e)
<1>1. << >> \in Seq(Extents) /\ Len(<< >>) = 0
  BY EmptySeq
<1>2. Scattered(<< >>) /\ UnitsIn(<< >>) = {}
  <2>1. UnitsIn(<< >>) = UNION {UnitsOf(<< >>[i]) : i \in 1 .. Len(<< >>)}
    BY <1>1, UnitsOfSeq
  <2>2. 1 .. Len(<< >>) = {}
    BY <1>1
  <2> QED
    BY <2>1, <2>2 DEF Scattered
<1>3. ASSUME NEW e \in Extents
      PROVE  <<e>> \in Seq(Extents) /\ Scattered(<<e>>) /\ UnitsIn(<<e>>) = UnitsOf(e)
  <2> DEFINE s == <<e>>
  <2>1. s \in Seq(Extents) /\ Len(s) = 1 /\ s[1] = e
    OBVIOUS
  <2> HIDE DEF s
  <2>2. 1 .. Len(s) = {1}
    BY <2>1
  <2>3. UnitsIn(s) = UNION {UnitsOf(s[i]) : i \in 1 .. Len(s)}
    BY <2>1, UnitsOfSeq
  <2>4. UnitsIn(s) = UnitsOf(e)
    BY <2>1, <2>2, <2>3
  <2>5. Scattered(s)
    BY <2>2 DEF Scattered
  <2> QED
    BY <2>1, <2>4, <2>5 DEF s
<1> QED
  BY <1>1, <1>2, <1>3

\* The size of extents that do not overlap is the one of their units.
LEMMA ExtsSzIsOfUnits ==
  ASSUME NEW exts \in Seq(Extents), Scattered(exts)
  PROVE  /\ IsFiniteSet(UnitsIn(exts))
         /\ Cardinality(UnitsIn(exts)) \in Nat
         /\ ExtsSz(exts) = Cardinality(UnitsIn(exts)) * SubblkSz
<1> DEFINE P(k) == SubSeq(exts, 1, k)
           Good(k) == /\ IsFiniteSet(UnitsIn(P(k)))
                      /\ ExtsSz(P(k)) = Cardinality(UnitsIn(P(k))) * SubblkSz
           L == Len(exts)
           Bad == {k \in 0 .. L : ~ Good(k)}
<1>0. L \in Nat
  BY LenProperties
<1>1. ASSUME Bad # {} PROVE FALSE
  <2>1. Bad \in SUBSET Nat
    BY <1>0
  <2> HIDE DEF Good
  <2>2. PICK k \in Bad : \A j \in Bad : k <= j
    <3> HIDE DEF Bad
    <3> QED
      BY <1>1, <2>1, LeastExists
  <2>3. k \in 0 .. L /\ ~ Good(k)
    BY <2>2
  <2>4. CASE k = 0
    <3>1. P(0) = << >>
      BY SubSeqEmpty
    <3>2. UnitsIn(P(0)) = {} /\ ExtsSz(P(0)) = 0
      BY <3>1, ScatteredFew, ExtsSzOfFew
    <3> HIDE DEF P
    <3>3. Good(0)
      <4>1. IsFiniteSet({}) /\ Cardinality({}) = 0 /\ 0 * SubblkSz = 0
        BY FS_EmptySet, SubblkSzFacts
      <4> QED
        BY <3>2, <4>1 DEF Good
    <3> QED
      BY <2>3, <2>4, <3>3
  <2>5. CASE k # 0
    <3>1. k - 1 \in 0 .. L /\ k \in 1 .. L /\ ~ (k <= k - 1)
      BY <1>0, <2>3, <2>5
    <3>2. k - 1 \notin Bad
      <4> HIDE DEF Bad
      <4> QED
        BY <2>2, <3>1
    <3>3. Good(k - 1)
      BY <3>1, <3>2
    <3> DEFINE e == exts[k]
    <3>4. P(k) = P(k - 1) \o <<e>>
      <4>1. 1 \in 1 .. L /\ k \in 1 .. L
        BY <1>0, <3>1
      <4> QED
        BY <4>1, SubSeqRecursiveSecond
    <3>5. /\ P(k) \in Seq(Extents) /\ P(k - 1) \in Seq(Extents) /\ e \in Extents
          /\ Len(P(k)) = k /\ \A i \in 1 .. k : P(k)[i] = exts[i]
      <4>1. \A i \in 1 .. L : exts[i] \in Extents
        BY ElementOfSeq
      <4>2. (\A i \in 1 .. k : exts[i] \in Extents) /\ \A i \in 1 .. k - 1 : exts[i] \in Extents
        BY <1>0, <3>1, <4>1
      <4>3. P(k - 1) \in Seq(Extents)
        BY <3>1, <4>2, SubSeqProperties
      <4>4. /\ P(k) \in Seq(Extents)
            /\ Len(P(k)) = IF 1 <= k THEN k - 1 + 1 ELSE 0
            /\ \A i \in 1 .. k - 1 + 1 : P(k)[i] = exts[1 + i - 1]
        BY <3>1, <4>2, SubSeqProperties
      <4> HIDE DEF P
      <4>5. Len(P(k)) = k
        BY <3>1, <4>4
      <4>6. ASSUME NEW i \in 1 .. k PROVE P(k)[i] = exts[i]
        <5>1. i \in 1 .. k - 1 + 1 /\ 1 + i - 1 = i
          BY <3>1
        <5> QED
          BY <4>4, <5>1
      <4> QED
        BY <3>1, <4>1, <4>3, <4>4, <4>5, <4>6
    <3> HIDE DEF P, e
    <3>6. Scattered(P(k))
      <4>1. \A i \in 1 .. k : i \in 1 .. L
        BY <1>0, <3>1
      <4> QED
        BY <3>5, <4>1 DEF Scattered
    <3>7. /\ <<e>> \in Seq(Extents)
          /\ UnitsIn(P(k)) = UnitsIn(P(k - 1)) \cup UnitsOf(e)
          /\ UnitsIn(P(k - 1)) \cap UnitsOf(e) = {}
      <4>1. <<e>> \in Seq(Extents) /\ UnitsIn(<<e>>) = UnitsOf(e)
        BY <3>5, ScatteredFew
      <4>2. /\ UnitsIn(P(k - 1) \o <<e>>) = UnitsIn(P(k - 1)) \cup UnitsIn(<<e>>)
            /\ Scattered(P(k - 1) \o <<e>>) =>
                 UnitsIn(P(k - 1)) \cap UnitsIn(<<e>>) = {}
        BY <3>5, <4>1, ScatteredConcat
      <4> QED
        BY <3>4, <3>6, <4>1, <4>2
    <3>8. /\ IsFiniteSet(UnitsOf(e)) /\ Cardinality(UnitsOf(e)) \in Nat
          /\ ExtsSz(<<e>>) = Cardinality(UnitsOf(e)) * SubblkSz
      BY <3>5, ExtSzFacts, ExtsSzOfFew
    <3>9. /\ IsFiniteSet(UnitsIn(P(k - 1)))
          /\ ExtsSz(P(k - 1)) = Cardinality(UnitsIn(P(k - 1))) * SubblkSz
          /\ Cardinality(UnitsIn(P(k - 1))) \in Nat
      BY <3>3, FS_CardinalityType DEF Good
    <3>10. /\ IsFiniteSet(UnitsIn(P(k)))
           /\ Cardinality(UnitsIn(P(k)))
                = Cardinality(UnitsIn(P(k - 1))) + Cardinality(UnitsOf(e))
      <4>1. /\ IsFiniteSet(UnitsIn(P(k)))
            /\ Cardinality(UnitsIn(P(k)))
                 = Cardinality(UnitsIn(P(k - 1))) + Cardinality(UnitsOf(e))
                     - Cardinality(UnitsIn(P(k - 1)) \cap UnitsOf(e))
        BY <3>7, <3>8, <3>9, FS_Union
      <4>2. Cardinality(UnitsIn(P(k - 1)) \cap UnitsOf(e)) = 0
        BY <3>7, FS_EmptySet
      <4> QED
        BY <3>8, <3>9, <4>1, <4>2
    <3>11. ExtsSz(P(k)) = ExtsSz(P(k - 1)) + ExtsSz(<<e>>)
      BY <3>4, <3>5, <3>7, ExtsSzConcat
    <3>12. ExtsSz(P(k)) = Cardinality(UnitsIn(P(k))) * SubblkSz
      <4>1. \A x, y, z \in Nat : (x + y) * z = x * z + y * z
        OBVIOUS
      <4> QED
        BY <3>8, <3>9, <3>10, <3>11, <4>1, SubblkSzFacts
    <3>13. Good(k)
      BY <3>10, <3>12 DEF Good
    <3> QED
      BY <2>3, <3>13
  <2> QED
    BY <2>4, <2>5
<1>2. Good(L)
  <2> HIDE DEF Good
  <2> QED
    BY <1>0, <1>1
<1>3. P(L) = exts
  BY SubSeqFull
<1> HIDE DEF P
<1> QED
  BY <1>2, <1>3, FS_CardinalityType DEF Good

\* What alloc plans to get is what it was asked for, or a bit more.
LEMMA PlanFacts ==
  ASSUME NEW sz \in Nat, NEW req \in Reqs
  PROVE  /\ Plan(sz, req) \in Todos
         /\ Bytes(Plan(sz, req)) \in Nat /\ Bytes(Plan(sz, req)) >= sz
         /\ Plan(sz, req).inline_sz <= req.max_inline_sz
<1> DEFINE B == BlkSz
           S == SubblkSz
           N == SubblkCntPerBlk
           Q == sz \div B
           rest == sz % B
           q == rest \div S
           bytes == IF req.allow_suballoc THEN rest % S ELSE rest
           up == bytes > req.max_inline_sz
           subblks == IF req.allow_suballoc THEN q + (IF up THEN 1 ELSE 0) ELSE 0
           blks == Q + (IF up /\ ~ req.allow_suballoc THEN 1 ELSE 0)
                     + (IF subblks = N THEN 1 ELSE 0)
           sub == IF subblks = N THEN 0 ELSE subblks
           inl == IF up THEN 0 ELSE bytes
           p == [blk_cnt |-> blks, subblk_cnt |-> sub, inline_sz |-> inl]
<1>1. Plan(sz, req) = p
  BY DEF Plan
<1>2. /\ B \in Nat \ {0} /\ S \in Nat \ {0} /\ N \in Nat \ {0} /\ B = N * S
      /\ req.max_inline_sz \in Nat /\ req.allow_suballoc \in BOOLEAN
  BY SubblkSzFacts, SegmentAllocatorAssumption
<1>3. rest \in 0 .. B - 1 /\ Q \in Nat /\ sz = B * Q + rest
  BY <1>2, DivMod
<1> HIDE DEF Q, rest, B, N, S
<1>4. rest \in Nat /\ rest < B
  BY <1>2, <1>3
<1>5. (rest % S) \in 0 .. S - 1 /\ q \in Nat /\ rest = S * q + (rest % S)
  BY <1>2, <1>4, DivMod
<1> DEFINE rem == rest % S
<1>a. bytes = IF req.allow_suballoc THEN rem ELSE rest
  OBVIOUS
<1> HIDE DEF q, rem
<1>6. rem \in Nat /\ rem < S /\ rest = S * q + rem
  BY <1>2, <1>5 DEF rem
<1>7. q < N
  <2> SUFFICES ASSUME N <= q PROVE FALSE
    BY <1>2, <1>5
  <2>1. PICK k \in Nat : q = N + k
    <3>1. q - N \in Nat /\ q = N + (q - N)
      BY <1>2, <1>5
    <3> QED
      BY <3>1
  <2>2. S * q = N * S + S * k /\ S * k \in Nat /\ N * S \in Nat
    BY <1>2, <2>1
  <2> QED
    BY <1>2, <1>4, <1>6, <2>2
<1>8. bytes \in Nat /\ bytes <= rest
  <2>1. S * q \in Nat
    BY <1>2, <1>5
  <2> QED
    BY <1>4, <1>6, <1>a, <2>1
<1> HIDE DEF bytes
<1>9. /\ up \in BOOLEAN
      /\ subblks = IF req.allow_suballoc THEN q + (IF up THEN 1 ELSE 0) ELSE 0
      /\ inl = IF up THEN 0 ELSE bytes
      /\ up => inl = 0
      /\ ~ up => inl = bytes /\ bytes <= req.max_inline_sz
  BY <1>2, <1>8
<1> HIDE DEF up, inl
<1>10. subblks \in Nat /\ subblks <= N
  BY <1>2, <1>5, <1>7, <1>9
<1> HIDE DEF subblks
<1>11. /\ sub \in 0 .. N - 1
       /\ blks \in Nat
       /\ inl \in 0 .. B
  BY <1>2, <1>3, <1>4, <1>8, <1>9, <1>10
<1>12. inl <= req.max_inline_sz
  BY <1>2, <1>9
<1>13. /\ B * Q \in Nat /\ blks * B \in Nat /\ sub * S \in Nat /\ S * q \in Nat /\ inl \in Nat
  BY <1>2, <1>3, <1>5, <1>11
<1>14. blks * B = B * Q + (IF up /\ ~ req.allow_suballoc THEN B ELSE 0)
                        + (IF subblks = N THEN B ELSE 0)
  <2>1. \A x, y \in Nat : (x + 0 + 0) * y = y * x + 0 + 0
    OBVIOUS
  <2>2. \A x, y \in Nat : (x + 1 + 0) * y = y * x + y + 0
    OBVIOUS
  <2>3. \A x, y \in Nat : (x + 0 + 1) * y = y * x + 0 + y
    OBVIOUS
  <2>4. \A x, y \in Nat : (x + 1 + 1) * y = y * x + y + y
    OBVIOUS
  <2> QED
    BY <1>2, <1>3, <1>9, <2>1, <2>2, <2>3, <2>4
<1> HIDE DEF blks, sub
<1>15. blks * B + sub * S + inl >= sz
  <2>1. CASE req.allow_suballoc
    <3>1. CASE subblks = N
      <4>1. blks * B >= B * Q + B
        BY <1>2, <1>13, <1>14, <3>1
      <4> QED
        BY <1>2, <1>3, <1>4, <1>13, <4>1
    <3>2. CASE subblks # N
      <4>1. blks * B = B * Q
        BY <1>2, <1>13, <1>14, <2>1, <3>2
      <4>2. sub = subblks
        BY <3>2 DEF sub
      <4>3. CASE up
        <5>1. sub = q + 1
          BY <1>9, <2>1, <4>2, <4>3
        <5>2. sub * S = S * q + S
          BY <1>2, <1>5, <5>1
        <5> QED
          BY <1>2, <1>3, <1>6, <1>13, <4>1, <5>2
      <4>4. CASE ~ up
        <5>1. sub = q
          BY <1>5, <1>9, <2>1, <4>2, <4>4
        <5>2. sub * S = S * q
          BY <1>2, <1>5, <5>1
        <5>3. inl = rem
          BY <1>9, <1>a, <2>1, <4>4
        <5> QED
          BY <1>2, <1>3, <1>6, <1>13, <4>1, <5>2, <5>3
      <4> QED
        BY <1>9, <4>3, <4>4
    <3> QED
      BY <3>1, <3>2
  <2>2. CASE ~ req.allow_suballoc
    <3>1. CASE up
      <4>1. blks * B >= B * Q + B
        BY <1>2, <1>13, <1>14, <2>2, <3>1
      <4> QED
        BY <1>2, <1>3, <1>4, <1>13, <4>1
    <3>2. CASE ~ up
      <4>1. blks * B >= B * Q /\ inl = rest
        BY <1>2, <1>9, <1>13, <1>14, <1>a, <2>2, <3>2
      <4> QED
        BY <1>2, <1>3, <1>4, <1>13, <4>1
    <3> QED
      BY <1>9, <3>1, <3>2
  <2> QED
    BY <1>2, <2>1, <2>2
<1>16. p \in Todos
  BY <1>2, <1>11 DEF Todos, B, N
<1>17. Bytes(p) = blks * B + sub * S + inl
  BY DEF Bytes, B, S
<1> HIDE DEF p
<1>18. Bytes(p) \in Nat /\ Bytes(p) >= sz
  BY <1>13, <1>15, <1>17
<1>19. p.inline_sz = inl
  BY DEF p
<1> QED
  BY <1>1, <1>12, <1>16, <1>18, <1>19

\* A sequence of extents cut in two.
LEMMA CutInTwo ==
  ASSUME NEW exts \in Seq(Extents), NEW k \in 0 .. Len(exts)
  PROVE  LET s == SubSeq(exts, 1, k)
             t == SubSeq(exts, k + 1, Len(exts))
         IN  /\ s \in Seq(Extents) /\ t \in Seq(Extents)
             /\ UnitsIn(exts) = UnitsIn(s) \cup UnitsIn(t)
             /\ ExtsSz(s) \in Nat /\ ExtsSz(t) \in Nat
             /\ ExtsSz(exts) = ExtsSz(s) + ExtsSz(t)
             /\ Scattered(exts) =>
                  Scattered(s) /\ Scattered(t) /\ UnitsIn(s) \cap UnitsIn(t) = {}
<1> DEFINE s == SubSeq(exts, 1, k)
           t == SubSeq(exts, k + 1, Len(exts))
<1>0. Len(exts) \in Nat /\ k \in Int /\ \A i \in 1 .. Len(exts) : exts[i] \in Extents
  BY LenProperties, ElementOfSeq
<1>1. s \in Seq(Extents)
  <2>1. \A i \in 1 .. k : exts[i] \in Extents
    BY <1>0
  <2> QED
    BY <1>0, <2>1, SubSeqProperties
<1>2. t \in Seq(Extents)
  <2>1. \A i \in k + 1 .. Len(exts) : exts[i] \in Extents
    BY <1>0
  <2> QED
    BY <1>0, <2>1, SubSeqProperties
<1>3. exts = s \o t
  <2>1. /\ 1 \in 1 .. Len(exts) + 1 /\ k \in 1 - 1 .. Len(exts) /\ Len(exts) \in k .. Len(exts)
    BY <1>0
  <2>2. SubSeq(exts, 1, k) \o SubSeq(exts, k + 1, Len(exts)) = SubSeq(exts, 1, Len(exts))
    BY <2>1, ConcatAdjacentSubSeq
  <2> QED
    BY <2>2, SubSeqFull
<1> HIDE DEF s, t
<1>4. /\ UnitsIn(exts) = UnitsIn(s) \cup UnitsIn(t)
      /\ Scattered(exts) => Scattered(s) /\ Scattered(t) /\ UnitsIn(s) \cap UnitsIn(t) = {}
  BY <1>1, <1>2, <1>3, ScatteredConcat
<1>5. ExtsSz(s) \in Nat /\ ExtsSz(t) \in Nat /\ ExtsSz(exts) = ExtsSz(s) + ExtsSz(t)
  BY <1>1, <1>2, <1>3, ExtsSzConcat
<1> QED
  BY <1>1, <1>2, <1>4, <1>5 DEF s, t

\* The same extents in the reverse order.
LEMMA ReverseFacts ==
  ASSUME NEW exts \in Seq(Extents)
  PROVE  /\ Reverse(exts) \in Seq(Extents)
         /\ UnitsIn(Reverse(exts)) = UnitsIn(exts)
         /\ Scattered(exts) => Scattered(Reverse(exts))
<1> DEFINE r == Reverse(exts)
           L == Len(exts)
<1>0. L \in Nat /\ \A i \in 1 .. L : exts[i] \in Extents
  BY LenProperties, ElementOfSeq
<1>1. \A i \in 1 .. L : (L - i) + 1 \in 1 .. L
  BY <1>0
<1>2. r = [i \in 1 .. L |-> exts[(L - i) + 1]]
  BY DEF Reverse
<1>3. r \in [1 .. L -> Extents] /\ \A i \in 1 .. L : r[i] = exts[(L - i) + 1]
  <2> HIDE DEF r, L
  <2> QED
    BY <1>0, <1>1, <1>2
<1>4. r \in Seq(Extents) /\ Len(r) = L
  <2>1. r \in Seq(Extents)
    BY <1>0, <1>3, SeqDef
  <2>2. \A x, y \in Nat : x < y => y \in 1 .. y /\ y \notin 1 .. x
    OBVIOUS
  <2> DEFINE x == Len(r)
  <2>3. x \in Nat /\ 1 .. x = 1 .. L
    BY <1>3, <2>1, LenProperties
  <2> HIDE DEF x, L, r
  <2>4. ~ (x < L) /\ ~ (L < x)
    BY <1>0, <2>2, <2>3
  <2>5. x = L
    BY <1>0, <2>3, <2>4
  <2> QED
    BY <2>1, <2>5 DEF x
<1> HIDE DEF r
<1>5. /\ UnitsIn(exts) = UNION {UnitsOf(exts[i]) : i \in 1 .. L}
      /\ UnitsIn(r) = UNION {UnitsOf(r[i]) : i \in 1 .. L}
  BY <1>4, UnitsOfSeq
<1> HIDE DEF L
<1>6. \A i \in 1 .. L : exts[i] = r[(L - i) + 1]
  <2> TAKE i \in 1 .. L
  <2>1. (L - ((L - i) + 1)) + 1 = i
    BY <1>0
  <2> QED
    BY <1>1, <1>3, <2>1
<1>7. UnitsIn(r) = UnitsIn(exts)
  <2>1. \A i \in 1 .. L : UnitsOf(r[i]) \subseteq UnitsIn(exts)
    BY <1>1, <1>3, <1>5
  <2>2. \A i \in 1 .. L : UnitsOf(exts[i]) \subseteq UnitsIn(r)
    BY <1>1, <1>5, <1>6
  <2> QED
    BY <1>5, <2>1, <2>2
<1>8. ASSUME Scattered(exts) PROVE Scattered(r)
  <2> SUFFICES ASSUME NEW i \in 1 .. L, NEW j \in 1 .. L, i # j
               PROVE  UnitsOf(r[i]) \cap UnitsOf(r[j]) = {}
    BY <1>4 DEF Scattered
  <2>1. (L - i) + 1 # (L - j) + 1
    BY <1>0
  <2> QED
    BY <1>1, <1>3, <1>8, <2>1 DEF Scattered, L
<1> QED
  BY <1>4, <1>7, <1>8 DEF r

-----------------------------------------------------------------------------
(* Units that change hands *)

\* Free units are taken by the alloc in progress.
LEMMA SharesTaken ==
  ASSUME NEW A, NEW F, NEW O, NEW T, NEW L, Shares(A, F, O, T, L),
         NEW U, U \subseteq F
  PROVE  Shares(A, F \ U, O, T \cup U, L)
BY DEF Shares

\* A segment gives some of its units back.
LEMMA SharesGivenBack ==
  ASSUME NEW A, NEW F, NEW O, NEW T, NEW L, Shares(A, F, O, T, L),
         NEW s \in Slots, NEW U, U \subseteq O[s],
         NEW P, P[s] = O[s] \ U, \A t \in Slots \ {s} : P[t] = O[t]
  PROVE  Shares(A, F \cup U, P, T, L)
<1>1. \A t \in Slots : P[t] \subseteq O[t] /\ U \cap P[t] = {}
  BY DEF Shares
<1>2. U \cap T = {} /\ U \cap L = {} /\ U \cap F = {}
  BY DEF Shares
<1>3. A = F \cup U \cup T \cup L \cup UNION {P[t] : t \in Slots}
  <2>1. ASSUME NEW x
        PROVE  x \in U \cup UNION {P[t] : t \in Slots} <=> x \in UNION {O[t] : t \in Slots}
    <3>1. CASE x \in UNION {O[t] : t \in Slots}
      <4>1. PICK t \in Slots : x \in O[t]
        BY <3>1
      <4>2. x \in U \/ x \in P[t]
        BY <4>1
      <4> QED
        BY <3>1, <4>2
    <3>2. CASE x \in U
      BY <3>2
    <3>3. CASE \E t \in Slots : x \in P[t]
      BY <1>1, <3>3
    <3> QED
      BY <3>1, <3>2, <3>3
  <2> QED
    BY <2>1 DEF Shares
<1>4. \A t \in Slots : /\ P[t] \cap (F \cup U) = {} /\ P[t] \cap T = {} /\ P[t] \cap L = {}
                       /\ \A r \in Slots : t # r => P[t] \cap P[r] = {}
  BY <1>1 DEF Shares
<1> QED
  BY <1>2, <1>3, <1>4 DEF Shares

\* A segment receives the units of the alloc in progress.
LEMMA SharesReturned ==
  ASSUME NEW A, NEW F, NEW O, NEW T, NEW L, Shares(A, F, O, T, L),
         NEW s \in Slots, NEW P, P[s] = O[s] \cup T, \A t \in Slots \ {s} : P[t] = O[t]
  PROVE  Shares(A, F, P, {}, L)
<1>1. A = F \cup L \cup UNION {P[t] : t \in Slots}
  <2>1. ASSUME NEW x
        PROVE  x \in UNION {P[t] : t \in Slots} <=> x \in T \cup UNION {O[t] : t \in Slots}
    <3>1. CASE x \in T
      BY <3>1
    <3>2. CASE x \notin T
      <4>1. \A t \in Slots : x \in P[t] <=> x \in O[t]
        BY <3>2
      <4> QED
        BY <3>2, <4>1
    <3> QED
      BY <3>1, <3>2
  <2> QED
    BY <2>1 DEF Shares
<1>2. \A t \in Slots : P[t] = O[t] \/ (t = s /\ P[t] = O[t] \cup T)
  OBVIOUS
<1>3. \A t \in Slots : P[t] \cap F = {} /\ P[t] \cap L = {}
  BY <1>2 DEF Shares
<1>4. \A t, r \in Slots : t # r => P[t] \cap P[r] = {}
  BY <1>2 DEF Shares
<1> QED
  BY <1>1, <1>3, <1>4 DEF Shares

\* An alloc that throws loses its units.
LEMMA SharesLost ==
  ASSUME NEW A, NEW F, NEW O, NEW T, NEW L, Shares(A, F, O, T, L)
  PROVE  Shares(A, F, O, {}, L \cup T)
BY DEF Shares

\* The array grows by free units, or gives up some.
LEMMA SharesResized ==
  ASSUME NEW A, NEW F, NEW O, NEW T, NEW L, Shares(A, F, O, T, L), NEW U
  PROVE  /\ U \cap A = {} => Shares(A \cup U, F \cup U, O, T, L)
         /\ U \subseteq F => Shares(A \ U, F \ U, O, T, L)
<1>1. ASSUME U \cap A = {} PROVE Shares(A \cup U, F \cup U, O, T, L)
  BY <1>1 DEF Shares
<1>2. ASSUME U \subseteq F PROVE Shares(A \ U, F \ U, O, T, L)
  <2>1. A \ U = (F \ U) \cup T \cup L \cup UNION {O[s] : s \in Slots}
    BY <1>2 DEF Shares
  <2> QED
    BY <1>2, <2>1 DEF Shares
<1> QED
  BY <1>1, <1>2

\* Whatever no segment has is free again, also what was lost.
LEMMA SharesRecovered ==
  ASSUME NEW A, NEW F, NEW O, NEW L, Shares(A, F, O, {}, L)
  PROVE  Shares(A, A \ UNION {O[s] : s \in Slots}, O, {}, {})
BY DEF Shares

\* The slots that keep their units.
LEMMA SharesSame ==
  ASSUME NEW A, NEW F, NEW O, NEW T, NEW L, Shares(A, F, O, T, L),
         NEW P, \A t \in Slots : P[t] = O[t]
  PROVE  Shares(A, F, P, T, L)
<1>1. {P[t] : t \in Slots} = {O[t] : t \in Slots}
  OBVIOUS
<1> QED
  BY <1>1 DEF Shares

-----------------------------------------------------------------------------
(* What realloc keeps *)

\* The first extents that fit in sz bytes.
LEMMA FittingExts ==
  ASSUME NEW exts \in Seq(Extents), NEW sz \in Nat
  PROVE  LET fits == {n \in 0 .. Len(exts) : ExtsSz(SubSeq(exts, 1, n)) <= sz}
             cnt == CHOOSE n \in fits : \A k \in fits : k <= n
         IN  cnt \in 0 .. Len(exts) /\ ExtsSz(SubSeq(exts, 1, cnt)) <= sz
<1> DEFINE fits == {n \in 0 .. Len(exts) : ExtsSz(SubSeq(exts, 1, n)) <= sz}
<1>1. SubSeq(exts, 1, 0) = << >>
  BY SubSeqEmpty
<1>2. Len(exts) \in Nat
  BY LenProperties
<1>3. 0 \in fits
  <2>0. ExtsSz(SubSeq(exts, 1, 0)) = ExtsSz(<< >>)
    BY ONLY <1>1, Zenon
  <2>1. ExtsSz(SubSeq(exts, 1, 0)) <= sz
    BY <2>0, ExtsSzOfFew
  <2> QED
    BY <1>2, <2>1
<1>4. fits \subseteq 0 .. Len(exts)
  OBVIOUS
<1>5. \E n \in fits : \A k \in fits : k <= n
  <2> HIDE DEF fits
  <2>1. fits \in SUBSET Nat /\ fits # {} /\ \A k \in fits : k <= Len(exts)
    BY <1>3, <1>2, <1>4
  <2> QED
    BY <1>3, <1>2, <1>4, <2>1, GreatestExists
<1>6. (CHOOSE n \in fits : \A k \in fits : k <= n) \in fits
  BY <1>5
<1> QED
  BY <1>6

\* The segment without its inline bytes and its last extent for suballocation:
\* its first extents, and the rest of them is what realloc gives back.
LEMMA KeptFacts ==
  ASSUME NEW s \in Segms
  PROVE  /\ Kept(s) \in Segms /\ Kept(s).inline_sz = 0
         /\ Len(Kept(s).exts) \in 0 .. Len(s.exts)
         /\ Kept(s).exts = SubSeq(s.exts, 1, Len(Kept(s).exts))
         /\ ~ EndsSuballoced(s) => Kept(s).exts = s.exts
         /\ SegmSz(Kept(s)) \in Nat /\ SegmSz(s) \in Nat /\ SegmSz(Kept(s)) <= SegmSz(s)
<1> DEFINE x == s.exts
           n == IF EndsSuballoced(s) THEN Len(x) - 1 ELSE Len(x)
<1>1. x \in Seq(Extents) /\ s.inline_sz \in 0 .. BlkSz
  BY DEF Segms
<1>2. Len(x) \in Nat /\ (x # << >> => Len(x) # 0)
  BY <1>1, LenProperties, EmptySeq
<1>3. n \in 0 .. Len(x) /\ n \in Nat
  BY <1>2 DEF EndsSuballoced
<1>4. Kept(s).exts = SubSeq(x, 1, n)
  <2>1. CASE EndsSuballoced(s)
    BY <2>1 DEF Kept, Front
  <2>2. CASE ~ EndsSuballoced(s)
    <3>1. SubSeq(x, 1, Len(x)) = x
      BY <1>1, SubSeqFull
    <3> QED
      BY <2>2, <3>1 DEF Kept
  <2> QED
    BY <2>1, <2>2
<1>5. Len(SubSeq(x, 1, n)) = n
  BY <1>1, <1>3, <1>2, SubSeqProperties
<1>6. /\ SubSeq(x, 1, n) \in Seq(Extents)
      /\ ExtsSz(SubSeq(x, 1, n)) \in Nat
      /\ ExtsSz(SubSeq(x, n + 1, Len(x))) \in Nat
      /\ ExtsSz(x) = ExtsSz(SubSeq(x, 1, n)) + ExtsSz(SubSeq(x, n + 1, Len(x)))
  BY <1>1, <1>3, CutInTwo
<1>7. Kept(s) = [exts |-> SubSeq(x, 1, n), inline_sz |-> 0]
  BY <1>4 DEF Kept
<1>8. BlkSz \in Nat /\ 0 \in 0 .. BlkSz
  BY SegmentAllocatorAssumption
<1>9. Kept(s) \in Segms
  BY <1>6, <1>7, <1>8 DEF Segms
<1>10. /\ SegmSz(Kept(s)) \in Nat /\ SegmSz(s) \in Nat /\ SegmSz(Kept(s)) <= SegmSz(s)
  <2>1. SegmSz(Kept(s)) = ExtsSz(SubSeq(x, 1, n)) + 0
    BY <1>7 DEF SegmSz
  <2>2. SegmSz(s) = ExtsSz(x) + s.inline_sz
    BY DEF SegmSz
  <2>3. s.inline_sz \in Nat
    BY <1>1, <1>8
  <2> HIDE DEF n, x
  <2> QED
    BY <1>6, <2>1, <2>2, <2>3
<1> QED
  BY <1>3, <1>4, <1>5, <1>7, <1>9, <1>10 DEF Kept

\* The frame of a call that starts, with what it keeps in the slot.
LEMMA FrameIsSound ==
  ASSUME IInv, NEW slot \in Slots, NEW op \in {"alloc", "expand", "shrink"},
         NEW wanted \in Sizes, NEW req \in Reqs,
         NEW kept \in Segms, kept.inline_sz = 0, SegmSz(kept) <= wanted,
         op = "alloc" => segms[slot] = NoSegm /\ kept = EmptySegm,
         op # "alloc" => /\ segms[slot] # NoSegm
                         /\ UnitsIn(kept.exts) \subseteq UnitsIn(segms[slot].exts),
         segms'[slot] = kept, call' = Frame(op, slot, kept, wanted, req)
  PROVE  /\ call' \in Frames /\ call'.pc # "idle"
         /\ call'.slot = slot /\ call'.exts = << >>
         /\ CallIsSound'
<1> DEFINE todo == Plan(wanted - SegmSz(kept), req)
<1>1. wanted \in Nat /\ wanted - SegmSz(kept) \in Nat /\ SegmSz(kept) \in Nat
      /\ SegmSz(kept) = ExtsSz(kept.exts)
  <2>1. wanted \in Nat
    BY SegmentAllocatorAssumption
  <2>2. ExtsSz(kept.exts) \in Nat
    BY ExtsSzConcat DEF Segms
  <2> QED
    BY <2>1, <2>2 DEF SegmSz
<1>2. /\ todo \in Todos
      /\ Bytes(todo) \in Nat /\ Bytes(todo) >= wanted - SegmSz(kept)
      /\ todo.inline_sz <= req.max_inline_sz
  BY <1>1, PlanFacts
<1>3. segms[slot] \in Segms \cup {NoSegm}
  BY DEF IInv, Types
<1>4. << >> \in Seq(Extents)
  BY ScatteredFew
<1>5. MaxBlkCnt \in BlkCnts \ {0}
  BY ExtentAssumption DEF BlkCnts
<1> HIDE DEF todo
<1> DEFINE frame == [pc |-> "no_grow", op |-> op, slot |-> slot, before |-> segms[slot],
                    wanted |-> wanted, req |-> req, todo |-> todo, exts |-> << >>,
                    probe |-> MaxBlkCnt, frag |-> 0]
<1>6. call' = frame
  BY DEF Frame, todo
<1>7. frame \in Frames
  BY <1>1, <1>2, <1>3, <1>4, <1>5 DEF Frames
<1>8. ExtsSz(segms'[slot].exts) + ExtsSz(<< >>) + Bytes(todo) >= wanted
  BY <1>1, <1>2, ExtsSzOfFew
<1>9. /\ frame.pc = "no_grow" /\ frame.op = op /\ frame.slot = slot
      /\ frame.before = segms[slot] /\ frame.wanted = wanted /\ frame.req = req
      /\ frame.todo = todo /\ frame.exts = << >>
  OBVIOUS
<1> HIDE DEF frame
<1>10. CallIsSound'
  BY <1>2, <1>6, <1>8, <1>9 DEF CallIsSound
<1> QED
  BY <1>6, <1>7, <1>9, <1>10

-----------------------------------------------------------------------------
(* The steps of the user *)

\* Between calls no extent is in progress, and no block is in the subblock map
\* without a subblock in use.
LEMMA IdleFacts ==
  ASSUME IInv, Idle
  PROVE  call = [pc |-> "idle"] /\ InProgress = << >> /\ Taken = {} /\ Reclaimable(maps) = {}
<1>1. call = [pc |-> "idle"] /\ InProgress = << >>
  BY DEF IInv, Types, InProgress
<1>2. Taken = {}
  BY <1>1, ScatteredFew DEF Taken
<1>3. Reclaimable(maps) = {}
  BY DEF IInv, FullBlkIsForAlloc, NeedsSubblks, Idle
<1> QED
  BY <1>1, <1>2, <1>3

\* The extents of a segment, none of them free.
LEMMA SegmFacts ==
  ASSUME IInv, NEW slot \in Slots, segms[slot] # NoSegm
  PROVE  /\ segms[slot] \in Segms
         /\ segms[slot].exts \in Seq(Extents) /\ segms[slot].inline_sz \in 0 .. BlkSz
         /\ Scattered(segms[slot].exts)
         /\ Owned[slot] = UnitsIn(segms[slot].exts)
         /\ UnitsIn(segms[slot].exts) \cap FreeUnits(maps) = {}
<1>1. segms[slot] \in Segms
  BY DEF IInv, Types
<1>2. Owned[slot] = UnitsIn(segms[slot].exts)
  BY DEF Owned
<1> QED
  BY <1>1, <1>2 DEF IInv, SharedOut, Shares, Segms

\* A call starts, or the user calls an operation that does not alloc: all or a
\* part of the extents of a segment is given back.
LEMMA GivesBack ==
  ASSUME IInv, Idle, NEW slot \in Slots, segms[slot] # NoSegm,
         NEW back \in Seq(Extents), Scattered(back),
         UnitsIn(back) \subseteq UnitsIn(segms[slot].exts),
         NEW s \in Segms \cup {NoSegm}, segms' = [segms EXCEPT ![slot] = s],
         s # NoSegm => Scattered(s.exts),
         (IF s = NoSegm THEN {} ELSE UnitsIn(s.exts))
           = UnitsIn(segms[slot].exts) \ UnitsIn(back),
         \/ maps' = DeallocMaps(maps, back)
         \/ maps' = maps /\ UnitsIn(back) = {},
         UNCHANGED <<arr, leaked>>, Types', CallIsSound', InProgress' = << >>
  PROVE  IInv'
<1>1. /\ segms[slot] \in Segms /\ segms[slot].exts \in Seq(Extents)
      /\ Owned[slot] = UnitsIn(segms[slot].exts)
      /\ UnitsIn(segms[slot].exts) \cap FreeUnits(maps) = {}
  BY SegmFacts
<1>2. MapsFit(maps) /\ Taken = {} /\ Reclaimable(maps) = {}
  BY IdleFacts DEF IInv
<1>3. /\ MapsFit(maps')
      /\ FreeUnits(maps') = FreeUnits(maps) \cup UnitsIn(back)
      /\ Reclaimable(maps') = {}
  <2>1. UnitsIn(back) \cap FreeUnits(maps) = {}
    BY <1>1
  <2>2. CASE maps' = DeallocMaps(maps, back)
    BY <1>2, <2>1, <2>2, DeallocMapsFits
  <2>3. CASE maps' = maps /\ UnitsIn(back) = {}
    BY <1>2, <2>3
  <2> QED
    BY <2>2, <2>3
<1>4. segms \in [Slots -> Segms \cup {NoSegm}]
  BY DEF IInv, Types
<1>5. \A t \in Slots : segms'[t] = IF t = slot THEN s ELSE segms[t]
  BY <1>4
<1>6. /\ Owned'[slot] = Owned[slot] \ UnitsIn(back)
      /\ \A t \in Slots \ {slot} : Owned'[t] = Owned[t]
  BY <1>1, <1>5 DEF Owned
<1>7. Shares(ArrayUnits, FreeUnits(maps'), Owned', Taken, Lost)
  <2>1. Shares(ArrayUnits, FreeUnits(maps), Owned, Taken, Lost)
    BY DEF IInv, SharedOut
  <2>2. UnitsIn(back) \subseteq Owned[slot]
    BY <1>1
  <2>3. Shares(ArrayUnits, FreeUnits(maps) \cup UnitsIn(back), Owned', Taken, Lost)
    BY <1>6, <2>1, <2>2, SharesGivenBack
  <2> QED
    BY <1>3, <2>3
<1>8. ArrayUnits' = ArrayUnits /\ Lost' = Lost /\ Taken' = Taken
  <2>1. Taken' = {}
    BY ScatteredFew DEF Taken
  <2> QED
    BY <1>2, <2>1 DEF ArrayUnits, Lost
<1>9. SharedOut'
  <2>1. \A t \in Slots : segms'[t] # NoSegm => Scattered(segms'[t].exts)
    BY <1>5 DEF IInv, SharedOut
  <2>2. Scattered(InProgress')
    BY ScatteredFew
  <2> QED
    BY <1>7, <1>8, <2>1, <2>2 DEF IInv, SharedOut
<1>10. FullBlkIsForAlloc'
  BY <1>3 DEF FullBlkIsForAlloc
<1> QED
  BY <1>3, <1>9, <1>10 DEF IInv

\* dealloc(segm).
LEMMA DeallocSegmKeeps ==
  ASSUME IInv, NEW slot \in Slots, DeallocSegm(slot)
  PROVE  IInv'
<1> DEFINE exts == segms[slot].exts
<1>1. Idle /\ segms[slot] # NoSegm
  BY DEF DeallocSegm, MayOperate
<1>2. /\ exts \in Seq(Extents) /\ Scattered(exts)
      /\ call = [pc |-> "idle"]
  BY <1>1, SegmFacts, IdleFacts
<1>3. /\ segms' = [segms EXCEPT ![slot] = NoSegm]
      /\ maps' = DeallocMaps(maps, exts)
      /\ UNCHANGED <<arr, call, blocked, leaked>>
  BY DEF DeallocSegm
<1>4. Types' /\ CallIsSound'
  BY <1>2, <1>3 DEF IInv, Types, Idle, CallIsSound
<1>5. InProgress' = << >>
  BY <1>2, <1>3 DEF InProgress, Idle
<1>6. UnitsIn(exts) \ UnitsIn(exts) = {}
  OBVIOUS
<1> HIDE DEF exts
<1> QED
  BY <1>1, <1>2, <1>3, <1>4, <1>5, <1>6, GivesBack DEF exts

\* realloc to a larger size, before it calls alloc.
LEMMA ReallocExpandsKeeps ==
  ASSUME IInv, NEW slot \in Slots, NEW sz \in Sizes, NEW req \in Reqs,
         ReallocExpands(slot, sz, req)
  PROVE  IInv'
<1> DEFINE s == segms[slot]
           n == Len(Kept(s).exts)
           back == SubSeq(s.exts, n + 1, Len(s.exts))
<1>1. /\ Idle /\ s # NoSegm /\ SegmSz(s) < sz
      /\ segms' = [segms EXCEPT ![slot] = Kept(s)]
      /\ call' = Frame("expand", slot, Kept(s), sz, req)
      /\ EndsSuballoced(s) => maps' = DeallocMaps(maps, back)
      /\ ~ EndsSuballoced(s) => maps' = maps
      /\ UNCHANGED <<arr, blocked, leaked>>
  BY DEF ReallocExpands, MayOperate
<1>2. /\ s \in Segms /\ s.exts \in Seq(Extents) /\ Scattered(s.exts)
      /\ UnitsIn(s.exts) \cap FreeUnits(maps) = {}
  BY <1>1, SegmFacts
<1>3. /\ Kept(s) \in Segms /\ Kept(s).inline_sz = 0
      /\ n \in 0 .. Len(s.exts)
      /\ Kept(s).exts = SubSeq(s.exts, 1, n)
      /\ ~ EndsSuballoced(s) => Kept(s).exts = s.exts
      /\ SegmSz(Kept(s)) \in Nat /\ SegmSz(s) \in Nat /\ SegmSz(Kept(s)) <= SegmSz(s)
  BY <1>2, KeptFacts
<1>4. /\ back \in Seq(Extents) /\ Scattered(back)
      /\ Scattered(Kept(s).exts)
      /\ UnitsIn(s.exts) = UnitsIn(Kept(s).exts) \cup UnitsIn(back)
      /\ UnitsIn(Kept(s).exts) \cap UnitsIn(back) = {}
  <2>1. s.exts \in Seq(Extents) /\ n \in 0 .. Len(s.exts) /\ Scattered(s.exts)
    BY <1>2, <1>3
  <2> DEFINE first == SubSeq(s.exts, 1, n)
  <2>2. /\ back \in Seq(Extents) /\ Scattered(back) /\ Scattered(first)
        /\ UnitsIn(s.exts) = UnitsIn(first) \cup UnitsIn(back)
        /\ UnitsIn(first) \cap UnitsIn(back) = {}
    BY <2>1, CutInTwo
  <2>3. Kept(s).exts = first
    BY <1>3
  <2> QED
    BY <2>2, <2>3
<1>5. UnitsIn(Kept(s).exts) = UnitsIn(s.exts) \ UnitsIn(back)
  BY <1>4
<1>6. sz \in Nat /\ SegmSz(Kept(s)) <= sz
  <2>1. sz \in Nat
    BY SegmentAllocatorAssumption
  <2> QED
    BY <1>1, <1>3, <2>1
<1>7. Kept(s) # NoSegm /\ segms'[slot] = Kept(s)
  <2>1. segms \in [Slots -> Segms \cup {NoSegm}]
    BY DEF IInv, Types
  <2> QED
    BY <1>1, <1>3, <2>1, SegmentAllocatorAssumption
<1>8. /\ call' \in Frames /\ call'.pc # "idle"
      /\ call'.slot = slot /\ call'.exts = << >>
      /\ CallIsSound'
  BY <1>1, <1>3, <1>5, <1>6, <1>7, FrameIsSound
<1>9. Types'
  <2>1. segms' \in [Slots -> Segms \cup {NoSegm}]
    BY <1>1, <1>3 DEF IInv, Types
  <2> QED
    BY <1>1, <1>7, <1>8, <2>1 DEF IInv, Types, Idle
<1>10. InProgress' = << >>
  BY <1>8 DEF InProgress, Idle
<1>11. \/ maps' = DeallocMaps(maps, back)
       \/ maps' = maps /\ UnitsIn(back) = {}
  BY <1>1, <1>3, <1>4
<1> HIDE DEF s, n, back
<1> QED
  BY <1>1, <1>3, <1>4, <1>5, <1>7, <1>8, <1>9, <1>10, <1>11, GivesBack DEF s

\* realloc to a smaller size, when it only cuts inline bytes.
LEMMA ReallocCutsInlineKeeps ==
  ASSUME IInv, NEW slot \in Slots, NEW sz \in Sizes, ReallocCutsInline(slot, sz)
  PROVE  IInv'
<1> DEFINE s == segms[slot]
           cut == SegmSz(s) - sz
           left == [exts |-> s.exts, inline_sz |-> s.inline_sz - cut]
<1>1. /\ Idle /\ s # NoSegm /\ cut > 0 /\ cut <= s.inline_sz
      /\ segms' = [segms EXCEPT ![slot].inline_sz = @ - cut]
      /\ UNCHANGED <<arr, maps, call, blocked, leaked>>
  BY DEF ReallocCutsInline, MayOperate
<1>2. /\ s \in Segms /\ s.exts \in Seq(Extents) /\ s.inline_sz \in 0 .. BlkSz
      /\ Scattered(s.exts) /\ SegmSz(s) \in Nat
      /\ call = [pc |-> "idle"]
  BY <1>1, SegmFacts, KeptFacts, IdleFacts
<1>3. s.inline_sz - cut \in 0 .. BlkSz
  <2>1. sz \in Nat /\ BlkSz \in Nat
    BY SegmentAllocatorAssumption
  <2> HIDE DEF s
  <2> QED
    BY <1>1, <1>2, <2>1
<1>4. left \in Segms
  BY <1>2, <1>3 DEF Segms
<1>5. segms' = [segms EXCEPT ![slot] = left]
  <2>1. s = [exts |-> s.exts, inline_sz |-> s.inline_sz]
    BY <1>2 DEF Segms
  <2>2. [s EXCEPT !.inline_sz = @ - cut] = left
    BY <2>1
  <2> QED
    BY <1>1, <2>2
<1>6. Types'
  <2>1. segms' \in [Slots -> Segms \cup {NoSegm}]
    BY <1>4, <1>5 DEF IInv, Types
  <2> QED
    BY <1>1, <1>2, <2>1 DEF IInv, Types, Idle
<1>7. InProgress' = << >> /\ CallIsSound'
  BY <1>1, <1>2 DEF InProgress, Idle, CallIsSound
<1>8. << >> \in Seq(Extents) /\ Scattered(<< >>) /\ UnitsIn(<< >>) = {}
  BY ScatteredFew
<1>9. left # NoSegm /\ left.exts = s.exts
  BY <1>4, SegmentAllocatorAssumption
<1> HIDE DEF s, left
<1> QED
  BY <1>1, <1>2, <1>4, <1>5, <1>6, <1>7, <1>8, <1>9, GivesBack DEF s

\* realloc to a smaller size, before it calls alloc if it does.
LEMMA ReallocShrinksKeeps ==
  ASSUME IInv, NEW slot \in Slots, NEW sz \in Sizes, NEW req \in Reqs,
         ReallocShrinks(slot, sz, req)
  PROVE  IInv'
<1> DEFINE s == segms[slot]
           fits == {n \in 0 .. Len(s.exts) : ExtsSz(SubSeq(s.exts, 1, n)) <= sz}
           cnt == CHOOSE n \in fits : \A k \in fits : k <= n
           first == SubSeq(s.exts, 1, cnt)
           last == SubSeq(s.exts, cnt + 1, Len(s.exts))
           back == Reverse(last)
           kept == [exts |-> first, inline_sz |-> 0]
<1>1. /\ Idle /\ s # NoSegm
      /\ segms' = [segms EXCEPT ![slot] = kept]
      /\ maps' = DeallocMaps(maps, back)
      /\ \/ SegmSz(kept) = sz /\ UNCHANGED call
         \/ call' = Frame("shrink", slot, kept, sz, req)
      /\ UNCHANGED <<arr, blocked, leaked>>
  BY DEF ReallocShrinks, MayOperate
<1>2. /\ s \in Segms /\ s.exts \in Seq(Extents) /\ Scattered(s.exts)
      /\ call = [pc |-> "idle"]
  BY <1>1, SegmFacts, IdleFacts
<1>3. sz \in Nat /\ BlkSz \in Nat
  BY SegmentAllocatorAssumption
<1>4. cnt \in 0 .. Len(s.exts) /\ ExtsSz(first) <= sz
  BY <1>2, <1>3, FittingExts
<1> HIDE DEF s, cnt
<1>5. /\ first \in Seq(Extents) /\ Scattered(first)
      /\ last \in Seq(Extents) /\ Scattered(last)
      /\ UnitsIn(s.exts) = UnitsIn(first) \cup UnitsIn(last)
      /\ UnitsIn(first) \cap UnitsIn(last) = {}
      /\ ExtsSz(first) \in Nat
  BY <1>2, <1>4, CutInTwo
<1> HIDE DEF first, last
<1>6. back \in Seq(Extents) /\ Scattered(back) /\ UnitsIn(back) = UnitsIn(last)
  BY <1>5, ReverseFacts
<1> HIDE DEF back
<1>7. kept \in Segms /\ kept # NoSegm /\ kept.exts = first
  BY <1>3, <1>5, SegmentAllocatorAssumption DEF Segms
<1>8. SegmSz(kept) \in Nat /\ SegmSz(kept) <= sz
  <2>1. SegmSz(kept) = ExtsSz(first) + 0
    BY DEF SegmSz
  <2> QED
    BY <1>4, <1>5, <2>1
<1> HIDE DEF kept
<1>9. segms' \in [Slots -> Segms \cup {NoSegm}] /\ segms'[slot] = kept
  BY <1>1, <1>7 DEF IInv, Types
<1>10. UnitsIn(kept.exts) = UnitsIn(s.exts) \ UnitsIn(back)
  BY <1>5, <1>6, <1>7
<1>11. Types' /\ CallIsSound' /\ InProgress' = << >>
  <2>1. CASE UNCHANGED call
    <3>1. call' = [pc |-> "idle"]
      BY <1>2, <2>1
    <3> QED
      BY <1>1, <1>9, <3>1 DEF IInv, Types, Idle, InProgress, CallIsSound
  <2>2. CASE call' = Frame("shrink", slot, kept, sz, req)
    <3>1. kept.inline_sz = 0 /\ UnitsIn(kept.exts) \subseteq UnitsIn(segms[slot].exts)
      BY <1>10 DEF kept, s
    <3>2. /\ call' \in Frames /\ call'.pc # "idle"
          /\ call'.slot = slot /\ call'.exts = << >>
          /\ CallIsSound'
      BY <1>1, <1>7, <1>8, <1>9, <2>2, <3>1, FrameIsSound DEF s
    <3> QED
      BY <1>1, <1>7, <1>9, <3>2 DEF IInv, Types, Idle, InProgress
  <2> QED
    BY <1>1, <2>1, <2>2
<1>12. Scattered(kept.exts) /\ UnitsIn(back) \subseteq UnitsIn(s.exts)
  BY <1>5, <1>6, <1>7
<1> QED
  BY <1>1, <1>6, <1>7, <1>10, <1>11, <1>12, GivesBack DEF s

\* alloc, when it is called by the user.
LEMMA CallAllocKeeps ==
  ASSUME IInv, NEW slot \in Slots, NEW sz \in Sizes, NEW req \in Reqs,
         CallAlloc(slot, sz, req)
  PROVE  IInv'
<1>1. /\ Idle /\ segms[slot] = NoSegm
      /\ call' = Frame("alloc", slot, EmptySegm, sz, req)
      /\ segms' = [segms EXCEPT ![slot] = EmptySegm]
      /\ UNCHANGED <<arr, maps, blocked, leaked>>
  BY DEF CallAlloc, MayOperate
<1>2. sz \in Nat /\ BlkSz \in Nat
  BY SegmentAllocatorAssumption
<1>3. /\ << >> \in Seq(Extents) /\ Scattered(<< >>) /\ UnitsIn(<< >>) = {}
  BY ScatteredFew
<1>4. EmptySegm \in Segms /\ EmptySegm.exts = << >> /\ EmptySegm # NoSegm
  <2>1. EmptySegm \in Segms /\ EmptySegm.exts = << >>
    BY <1>2, <1>3 DEF EmptySegm, Segms
  <2> QED
    BY <2>1, SegmentAllocatorAssumption
<1>5. SegmSz(EmptySegm) = 0
  <2>1. SegmSz(EmptySegm) = ExtsSz(<< >>) + 0
    BY DEF SegmSz, EmptySegm
  <2> QED
    BY <2>1, ExtsSzOfFew
<1>6. /\ segms' \in [Slots -> Segms \cup {NoSegm}] /\ segms'[slot] = EmptySegm
      /\ \A t \in Slots : t # slot => segms'[t] = segms[t]
  BY <1>1, <1>4 DEF IInv, Types
<1>7. /\ call' \in Frames /\ call'.pc # "idle"
      /\ call'.slot = slot /\ call'.exts = << >>
      /\ CallIsSound'
  <2>1. EmptySegm.inline_sz = 0
    BY DEF EmptySegm
  <2> QED
    BY <1>1, <1>2, <1>4, <1>5, <1>6, <2>1, FrameIsSound
<1>8. Types'
  BY <1>1, <1>4, <1>6, <1>7 DEF IInv, Types, Idle
<1>9. InProgress' = << >>
  BY <1>7 DEF InProgress, Idle
<1>10. \A t \in Slots : Owned'[t] = Owned[t]
  BY <1>1, <1>3, <1>4, <1>6 DEF Owned
<1>11. Taken' = Taken
  BY <1>1, <1>3, <1>9, IdleFacts DEF Taken
<1>12. SharedOut'
  <2>1. Shares(ArrayUnits, FreeUnits(maps), Owned', Taken, Lost)
    <3>1. Shares(ArrayUnits, FreeUnits(maps), Owned, Taken, Lost)
      BY DEF IInv, SharedOut
    <3> QED
      BY <1>10, <3>1, SharesSame
  <2>2. ArrayUnits' = ArrayUnits /\ Lost' = Lost /\ FreeUnits(maps') = FreeUnits(maps)
    BY <1>1 DEF ArrayUnits, Lost
  <2>3. \A t \in Slots : segms'[t] # NoSegm => Scattered(segms'[t].exts)
    BY <1>3, <1>4, <1>6 DEF IInv, SharedOut
  <2> QED
    BY <1>1, <1>3, <1>9, <1>11, <2>1, <2>2, <2>3 DEF IInv, SharedOut
<1>13. FullBlkIsForAlloc'
  BY <1>1, IdleFacts DEF FullBlkIsForAlloc
<1> QED
  BY <1>1, <1>7, <1>8, <1>12, <1>13 DEF IInv

\* What release() leaves of the two maps and of the array.
LEMMA ReleaseSpaceFacts ==
  ASSUME IInv, ReleaseSpace
  PROVE  /\ arr' \in Arrays /\ PointersOrdered(arr') /\ Slack(arr') = 0
         /\ MapsFit(maps') /\ Reclaimable(maps') = {}
         /\ arr'.past_end - 1 \notin FreeBlksOf(maps'.fr_map)
         /\ \E U \in SUBSET FreeUnits(maps) :
              /\ FreeUnits(maps') = FreeUnits(maps) \ U
              /\ ArrayUnits' = ArrayUnits \ U
<1> DEFINE r == Reclaimed(maps)
           f == r.fr_map
           out == WithoutChunks(f, TailChunks(f, arr))
<1>1. /\ maps' = [r EXCEPT !.fr_map = out]
      /\ arr' = WithoutSlack(Shrunk(arr, TailSz(f, arr), 0))
  BY DEF ReleaseSpace
<1>2. MapsFit(maps) /\ arr \in Arrays /\ PointersOrdered(arr) /\ FreeUnits(maps) \subseteq ArrayUnits
  BY DEF IInv, Types, SharedOut, Shares
<1>3. MapsFit(r) /\ FreeUnits(r) = FreeUnits(maps) /\ Reclaimable(r) = {}
  BY <1>2, ReclaimedFits
<1> HIDE DEF r
<1>4. 0 \in Subblks
  BY ExtentAssumption DEF Subblks
<1>5. FreeBlksOf(f) \subseteq BlksOfArray(arr)
  <2>1. \A b \in FreeBlksOf(f) : <<b, 0>> \in FreeUnits(r)
    BY <1>4 DEF FreeUnits
  <2>2. FreeUnits(r) \subseteq BlksOfArray(arr) \X Subblks
    BY <1>2, <1>3 DEF ArrayUnits
  <2>3. \A b \in FreeBlksOf(f) : <<b, 0>> \in BlksOfArray(arr) \X Subblks
    BY <2>1, <2>2
  <2> QED
    BY <2>3
<1>6. WellFormed(f) /\ r = [fr_map |-> f, subfr_map |-> r.subfr_map]
  BY <1>3 DEF MapsFit
<1> HIDE DEF f
<1>7. PICK lo \in BeginBlkNr .. arr.past_end :
        /\ TailSz(f, arr) = arr.past_end - lo
        /\ lo .. arr.past_end - 1 \subseteq FreeBlksOf(f)
        /\ WellFormed(out)
        /\ FreeBlksOf(out) = FreeBlksOf(f) \ (lo .. arr.past_end - 1)
        /\ lo - 1 \notin FreeBlksOf(f)
  BY <1>2, <1>5, <1>6, TailChunksFacts
<1> HIDE DEF out
<1>8. arr' = [past_end |-> lo, real_past_end |-> lo]
  <2>1. /\ arr.past_end \in Int /\ arr.real_past_end \in Int /\ lo \in Int
    BY <1>2, BlockArrayAssumption DEF Arrays, BlkNrs
  <2>2. arr.past_end - (arr.past_end - lo) = lo /\ arr.real_past_end - 0 = arr.real_past_end
    BY <2>1
  <2>3. Shrunk(arr, TailSz(f, arr), 0) = [past_end |-> lo, real_past_end |-> arr.real_past_end]
    BY <1>7, <2>2 DEF Shrunk
  <2>4. arr.real_past_end - (arr.real_past_end - lo) = lo
    BY <2>1
  <2> QED
    BY <1>1, <2>3, <2>4 DEF WithoutSlack, Released, Slack
<1>9. arr' \in Arrays /\ PointersOrdered(arr') /\ Slack(arr') = 0
  <2>1. /\ BeginBlkNr \in Int /\ BlkNrExhaust \in Int
        /\ arr.past_end \in BeginBlkNr .. BlkNrExhaust - 1
    BY <1>2, BlockArrayAssumption DEF Arrays, BlkNrs
  <2>2. lo \in BeginBlkNr .. BlkNrExhaust - 1 /\ lo \in Int
    BY <2>1
  <2>3. arr'.past_end = lo /\ arr'.real_past_end = lo
    BY <1>8
  <2>4. arr' \in Arrays
    BY <1>8, <2>2 DEF Arrays
  <2> QED
    BY <2>1, <2>2, <2>3, <2>4 DEF PointersOrdered, Slack
<1>10. maps' = [fr_map |-> out, subfr_map |-> r.subfr_map]
  BY <1>1, <1>6
<1>11. MapsFit(maps')
  BY <1>3, <1>6, <1>7, <1>10 DEF MapsFit
<1>12. Reclaimable(maps') = {}
  BY <1>3, <1>10 DEF Reclaimable
<1>13. arr'.past_end - 1 \notin FreeBlksOf(maps'.fr_map)
  BY <1>7, <1>8, <1>10
<1> DEFINE U == (lo .. arr.past_end - 1) \X Subblks
<1>14. U \subseteq FreeUnits(maps)
  BY <1>3, <1>7 DEF FreeUnits, f
<1>15. FreeUnits(maps') = FreeUnits(maps) \ U
  <2>1. \A b \in FreeBlksOf(f) : r.subfr_map.fr_by_nr[b] = {}
    BY <1>3 DEF MapsFit, f
  <2>2. SubUnits(r.subfr_map) \cap U = {}
    BY <1>7, <2>1 DEF SubUnits
  <2>3. FreeUnits(maps') = (FreeBlksOf(out) \X Subblks) \cup SubUnits(r.subfr_map)
    BY <1>10 DEF FreeUnits
  <2>4. FreeUnits(r) = (FreeBlksOf(f) \X Subblks) \cup SubUnits(r.subfr_map)
    BY DEF FreeUnits, f
  <2>5. FreeBlksOf(out) \X Subblks = (FreeBlksOf(f) \X Subblks) \ U
    BY <1>7
  <2> HIDE DEF U
  <2> QED
    BY <1>3, <2>2, <2>3, <2>4, <2>5
<1>16. ArrayUnits' = ArrayUnits \ U
  <2>1. BlksOfArray(arr') = BlksOfArray(arr) \ (lo .. arr.past_end - 1)
    <3>1. /\ BeginBlkNr \in Int /\ arr.past_end \in Int /\ lo \in Int
          /\ BeginBlkNr <= lo /\ lo <= arr.past_end
      BY <1>2, BlockArrayAssumption DEF Arrays, BlkNrs
    <3>2. BlksOfArray(arr') = BeginBlkNr .. lo - 1
      BY <1>8 DEF BlksOfArray
    <3>3. BlksOfArray(arr) = BeginBlkNr .. arr.past_end - 1
      BY DEF BlksOfArray
    <3> QED
      BY <3>1, <3>2, <3>3
  <2>2. ArrayUnits' = BlksOfArray(arr') \X Subblks /\ ArrayUnits = BlksOfArray(arr) \X Subblks
    BY DEF ArrayUnits
  <2> QED
    BY <2>1, <2>2
<1> QED
  BY <1>9, <1>11, <1>12, <1>13, <1>14, <1>15, <1>16

\* What release() takes out of the array was free.
LEMMA ReleaseSpaceKeeps ==
  ASSUME IInv, ReleaseSpace
  PROVE  IInv'
<1>1. UNCHANGED <<segms, call, blocked, leaked>> /\ Idle
  BY DEF ReleaseSpace, MayOperate
<1>2. /\ arr' \in Arrays /\ PointersOrdered(arr')
      /\ MapsFit(maps') /\ Reclaimable(maps') = {}
  BY ReleaseSpaceFacts
<1>3. PICK U \in SUBSET FreeUnits(maps) :
        FreeUnits(maps') = FreeUnits(maps) \ U /\ ArrayUnits' = ArrayUnits \ U
  BY ReleaseSpaceFacts
<1>4. Types' /\ CallIsSound'
  BY <1>1, <1>2 DEF IInv, Types, Idle, CallIsSound
<1>5. Owned' = Owned /\ Taken' = Taken /\ Lost' = Lost /\ InProgress' = InProgress
  BY <1>1 DEF Owned, Taken, Lost, InProgress, Idle
<1>6. SharedOut'
  <2>1. Shares(ArrayUnits, FreeUnits(maps), Owned, Taken, Lost)
    BY DEF IInv, SharedOut
  <2>2. Shares(ArrayUnits \ U, FreeUnits(maps) \ U, Owned, Taken, Lost)
    BY <1>3, <2>1, SharesResized
  <2> QED
    BY <1>1, <1>3, <1>5, <2>2 DEF IInv, SharedOut
<1>7. FullBlkIsForAlloc'
  BY <1>2 DEF FullBlkIsForAlloc
<1> QED
  BY <1>2, <1>4, <1>6, <1>7 DEF IInv

\* A new allocator on an array without blocks.
LEMMA NothingAllocated ==
  LET m == [fr_map |-> EmptyFreeMap, subfr_map |-> EmptySubFreeMap]
  IN  /\ MapsFit(m) /\ FreeUnits(m) = {} /\ Reclaimable(m) = {}
      /\ NewArray(BeginBlkNr) \in Arrays /\ PointersOrdered(NewArray(BeginBlkNr))
      /\ BlksOfArray(NewArray(BeginBlkNr)) = {}
<1> DEFINE f == EmptyFreeMap
           g == EmptySubFreeMap
           m == [fr_map |-> f, subfr_map |-> g]
<1>1. Chunks(f) = {} /\ FreeBlksOf(f) = {}
  BY DEF EmptyFreeMap, Chunks, FreeBlksOf
<1>2. WellFormed(f)
  <2>1. f \in FreeMaps
    BY ExtentAssumption DEF EmptyFreeMap, FreeMaps, BlkCnts
  <2>2. IndexesAgreeIn(f) /\ ChunksDisjointIn(f)
    BY <1>1 DEF IndexesAgreeIn, ChunksDisjointIn, EmptyFreeMap
  <2> QED
    BY <2>1, <2>2 DEF WellFormed
<1>3. SubWellFormed(g) /\ \A b \in BlkNrs : g.fr_by_nr[b] = {}
  BY DEF EmptySubFreeMap, SubWellFormed, SubFreeMaps, BinsAgreeIn, InSubMap, Bitmaps
<1>4. MapsFit(m)
  BY <1>1, <1>2, <1>3 DEF MapsFit
<1>5. FreeUnits(m) = {}
  BY <1>1, <1>3 DEF FreeUnits, SubUnits
<1>6. Reclaimable(m) = {}
  <2>1. 0 \in Subblks
    BY ExtentAssumption DEF Subblks
  <2>2. FullyFreeBlks(g) = {}
    BY <1>3, <2>1, FullyFreeAreFull
  <2> QED
    BY <2>2 DEF Reclaimable
<1>7. /\ NewArray(BeginBlkNr) \in Arrays /\ PointersOrdered(NewArray(BeginBlkNr))
      /\ BlksOfArray(NewArray(BeginBlkNr)) = {}
  <2>1. BeginBlkNr \in Int /\ BlkNrExhaust \in Int /\ BeginBlkNr < BlkNrExhaust
    BY BlockArrayAssumption DEF BlkNrs
  <2> QED
    BY <2>1 DEF NewArray, Arrays, PointersOrdered, BlksOfArray
<1> QED
  BY <1>4, <1>5, <1>6, <1>7

\* reset() and the constructor.
LEMMA NothingIsHeld ==
  ASSUME maps = [fr_map |-> EmptyFreeMap, subfr_map |-> EmptySubFreeMap],
         arr = NewArray(BeginBlkNr), segms = [s \in Slots |-> NoSegm],
         call = [pc |-> "idle"], blocked \in 0 .. MaxBlocked, leaked = {}
  PROVE  IInv
<1>1. /\ MapsFit(maps) /\ FreeUnits(maps) = {} /\ Reclaimable(maps) = {}
      /\ arr \in Arrays /\ PointersOrdered(arr) /\ BlksOfArray(arr) = {}
  BY NothingAllocated
<1>2. Types
  BY <1>1 DEF Types, Idle
<1>3. InProgress = << >> /\ Taken = {} /\ Lost = {} /\ ArrayUnits = {}
  BY <1>1, ScatteredFew DEF InProgress, Idle, Taken, Lost, UnitsOfAll, ArrayUnits
<1>4. \A s \in Slots : Owned[s] = {}
  BY DEF Owned
<1>5. SharedOut
  <2>1. UNION {Owned[s] : s \in Slots} = {}
    BY <1>4
  <2> QED
    BY <1>1, <1>3, <1>4, <2>1, ScatteredFew DEF SharedOut, Shares
<1>6. FullBlkIsForAlloc
  BY <1>1 DEF FullBlkIsForAlloc
<1>7. CallIsSound
  BY DEF CallIsSound, Idle
<1> QED
  BY <1>1, <1>2, <1>5, <1>6, <1>7 DEF IInv

\* reset() leaves what Init does.
LEMMA ResetKeeps ==
  ASSUME IInv, Reset
  PROVE  IInv'
<1>1. /\ (maps = [fr_map |-> EmptyFreeMap, subfr_map |-> EmptySubFreeMap])'
      /\ (arr = NewArray(BeginBlkNr))' /\ (segms = [s \in Slots |-> NoSegm])'
      /\ (leaked = {})'
  BY DEF Reset
<1>2. (call = [pc |-> "idle"])' /\ (blocked \in 0 .. MaxBlocked)'
  BY IdleFacts DEF Reset, MayOperate, IInv, Types
<1> QED
  BY <1>1, <1>2, NothingIsHeld, PTL

\* block_all_alloc_dealloc and unblock change nothing else.
LEMMA BlockOpsKeeps ==
  ASSUME IInv, \/ BlockOps \/ UnblockOps \/ UNCHANGED vars
  PROVE  IInv'
<1>1. UNCHANGED <<arr, maps, segms, call, leaked>>
  BY DEF BlockOps, UnblockOps, vars
<1>2. blocked' \in 0 .. MaxBlocked
  <2>1. blocked \in 0 .. MaxBlocked /\ MaxBlocked \in Nat
    BY SegmentAllocatorAssumption DEF IInv, Types
  <2> QED
    BY <2>1 DEF BlockOps, UnblockOps, vars
<1>3. Types'
  BY <1>1, <1>2 DEF IInv, Types, Idle
<1>4. SharedOut'
  BY <1>1 DEF IInv, SharedOut, Owned, Taken, Lost, InProgress, Idle, ArrayUnits
<1>5. FullBlkIsForAlloc'
  BY <1>1 DEF IInv, FullBlkIsForAlloc, NeedsSubblks
<1>6. CallIsSound'
  BY <1>1 DEF IInv, CallIsSound, Idle
<1> QED
  BY <1>1, <1>3, <1>4, <1>5, <1>6 DEF IInv

\* The array is closed and reopened.
LEMMA ReopenKeeps ==
  ASSUME IInv, Reopen
  PROVE  IInv'
<1>1. /\ Idle /\ arr' = NewArray(arr.past_end)
      /\ maps' = [fr_map |-> InitialFreeMap, subfr_map |-> InitialSubFreeMap]
      /\ blocked' = 0 /\ leaked' = {}
      /\ UNCHANGED <<segms, call>>
  BY DEF Reopen
<1>2. /\ call = [pc |-> "idle"] /\ InProgress = << >> /\ Taken = {}
  BY <1>1, IdleFacts
<1>3. \A s \in Live : /\ s \in Slots /\ segms[s].exts \in Seq(Extents)
                      /\ Scattered(segms[s].exts)
                      /\ Owned[s] = UnitsIn(segms[s].exts)
                      /\ Range(segms[s].exts)
                           = {segms[s].exts[i] : i \in 1 .. Len(segms[s].exts)}
  <2> TAKE s \in Live
  <2>1. s \in Slots /\ segms[s] # NoSegm
    BY DEF Live
  <2>2. segms[s].exts \in Seq(Extents)
    BY <2>1, SegmFacts
  <2> QED
    BY <2>1, <2>2, SegmFacts, RangeEquality
<1>4. \A s \in Slots \ Live : Owned[s] = {}
  BY DEF Owned, Live
<1>5. Shares(ArrayUnits, FreeUnits(maps), Owned, {}, Lost)
  BY <1>2 DEF IInv, SharedOut
<1>6. LiveExts \subseteq Extents
  <2>1. ASSUME NEW s \in Live
        PROVE  Range(segms[s].exts) \subseteq Extents
    <3>1. /\ segms[s].exts \in Seq(Extents)
          /\ Range(segms[s].exts) = {segms[s].exts[i] : i \in 1 .. Len(segms[s].exts)}
      BY <1>3
    <3>2. \A i \in 1 .. Len(segms[s].exts) : segms[s].exts[i] \in Extents
      BY <3>1, ElementOfSeq
    <3> QED
      BY <3>1, <3>2
  <2> QED
    BY <2>1 DEF LiveExts
<1>7. UnitsOfAll(LiveExts) = UNION {Owned[s] : s \in Slots}
  <2>1. UnitsOfAll(LiveExts) = UNION {UnitsIn(segms[s].exts) : s \in Live}
    BY DEF LiveExts, UnitsIn, UnitsOfAll
  <2>2. UNION {UnitsIn(segms[s].exts) : s \in Live} = UNION {Owned[s] : s \in Live}
    BY <1>3
  <2>3. UNION {Owned[s] : s \in Live} = UNION {Owned[s] : s \in Slots}
    <3>1. Live \subseteq Slots
      BY DEF Live
    <3> QED
      BY <1>4, <3>1
  <2> QED
    BY <2>1, <2>2, <2>3
<1>8. UnitsOfAll(LiveExts) \subseteq ArrayUnits
  BY <1>5, <1>7 DEF Shares
<1>9. \A e, f \in LiveExts : e # f => UnitsOf(e) \cap UnitsOf(f) = {}
  <2>1. ASSUME NEW e \in LiveExts, NEW f \in LiveExts, e # f
        PROVE  UnitsOf(e) \cap UnitsOf(f) = {}
    <3>1. PICK s \in Live : e \in Range(segms[s].exts)
      BY <2>1 DEF LiveExts
    <3>2. PICK t \in Live : f \in Range(segms[t].exts)
      BY <2>1 DEF LiveExts
    <3>3. UnitsOf(e) \subseteq Owned[s] /\ UnitsOf(f) \subseteq Owned[t]
      BY <1>3, <3>1, <3>2 DEF UnitsIn, UnitsOfAll
    <3>4. CASE s # t
      BY <1>3, <1>5, <3>3, <3>4 DEF Shares
    <3>5. CASE s = t
      <4>1. PICK i \in 1 .. Len(segms[s].exts) : e = segms[s].exts[i]
        BY <1>3, <3>1
      <4>2. f \in Range(segms[s].exts)
        BY <3>2, <3>5
      <4>3. PICK j \in 1 .. Len(segms[s].exts) : f = segms[s].exts[j]
        BY <1>3, <4>2
      <4> QED
        BY <1>3, <2>1, <4>1, <4>3 DEF Scattered
    <3> QED
      BY <3>4, <3>5
  <2> QED
    BY <2>1
<1>10. arr \in Arrays /\ PointersOrdered(arr)
  BY DEF IInv, Types
<1>11. /\ MapsFit(maps')
       /\ FreeUnits(maps') = ArrayUnits \ UnitsOfAll(LiveExts)
       /\ Reclaimable(maps') = {}
  BY <1>1, <1>6, <1>8, <1>9, <1>10, ReopenFits
<1>12. arr' \in Arrays /\ PointersOrdered(arr') /\ arr'.past_end = arr.past_end
  <2>1. BeginBlkNr \in Int /\ BlkNrExhaust \in Int
    BY BlockArrayAssumption DEF BlkNrs
  <2> QED
    BY <1>1, <1>10, <2>1 DEF NewArray, Arrays, PointersOrdered
<1>13. Types' /\ CallIsSound'
  <2>1. 0 \in 0 .. MaxBlocked
    BY SegmentAllocatorAssumption
  <2> QED
    BY <1>1, <1>2, <1>12, <2>1 DEF IInv, Types, Idle, CallIsSound
<1>14. SharedOut'
  <2>1. Shares(ArrayUnits, ArrayUnits \ UNION {Owned[s] : s \in Slots}, Owned, {}, {})
    BY <1>5, SharesRecovered
  <2>2. Owned' = Owned /\ InProgress' = InProgress /\ Taken' = {}
    BY <1>1, <1>2 DEF Owned, InProgress, Idle, Taken
  <2>3. ArrayUnits' = ArrayUnits
    BY <1>12 DEF ArrayUnits, BlksOfArray
  <2>4. Lost' = {}
    BY <1>1 DEF Lost, UnitsOfAll
  <2>5. Shares(ArrayUnits', FreeUnits(maps'), Owned', Taken', Lost')
    BY <1>7, <1>11, <2>1, <2>2, <2>3, <2>4
  <2>6. \A s \in Slots : segms'[s] # NoSegm => Scattered(segms'[s].exts)
    BY <1>1 DEF IInv, SharedOut
  <2> QED
    BY <1>1, <2>2, <2>5, <2>6 DEF IInv, SharedOut
<1>15. FullBlkIsForAlloc'
  BY <1>11 DEF FullBlkIsForAlloc
<1> QED
  BY <1>11, <1>13, <1>14, <1>15 DEF IInv

-----------------------------------------------------------------------------
(* The steps of alloc *)

\* The frame of the alloc in progress.
LEMMA CallFacts ==
  ASSUME IInv, ~ Idle
  PROVE  /\ call \in Frames /\ call.pc \in {"no_grow", "may_grow", "subblks"}
         /\ call.slot \in Slots /\ call.exts \in Seq(Extents) /\ call.probe \in BlkCnts \ {0}
         /\ call.frag \in Nat /\ call.todo \in Todos /\ call.req \in Reqs
         /\ call.todo.blk_cnt \in Nat /\ call.todo.subblk_cnt \in 0 .. SubblkCntPerBlk - 1
         /\ call.todo.inline_sz \in 0 .. BlkSz
         /\ segms[call.slot] \in Segms /\ segms[call.slot] # NoSegm
         /\ InProgress = call.exts /\ Taken = UnitsIn(call.exts) /\ Scattered(call.exts)
         /\ ExtsSz(call.exts) \in Nat /\ ExtsSz(segms[call.slot].exts) \in Nat
         /\ call.frag + 1 \in Nat
         /\ call.todo.blk_cnt > 0 =>
              /\ Probe \in BlkCnts \ {0} /\ Probe \in Nat /\ Probe <= call.todo.blk_cnt
<1>1. /\ call \in Frames /\ segms[call.slot] # NoSegm /\ InProgress = call.exts
      /\ Scattered(InProgress)
      /\ segms \in [Slots -> Segms \cup {NoSegm}]
  BY DEF IInv, Types, InProgress, SharedOut
<1>2. /\ call.slot \in Slots /\ call.exts \in Seq(Extents) /\ call.probe \in BlkCnts \ {0}
      /\ call.frag \in Nat /\ call.todo \in Todos /\ call.req \in Reqs
      /\ call.pc \in {"no_grow", "may_grow", "subblks"}
  BY <1>1 DEF Frames
<1>3. /\ call.todo.blk_cnt \in Nat /\ call.todo.subblk_cnt \in 0 .. SubblkCntPerBlk - 1
      /\ call.todo.inline_sz \in 0 .. BlkSz
  BY <1>2 DEF Todos
<1>4. segms[call.slot] \in Segms /\ segms[call.slot].exts \in Seq(Extents)
  BY <1>1, <1>2 DEF Segms
<1>5. ExtsSz(call.exts) \in Nat /\ ExtsSz(segms[call.slot].exts) \in Nat
  BY <1>2, <1>4, ExtsSzConcat
<1>6. call.todo.blk_cnt > 0 =>
        /\ Probe \in BlkCnts \ {0} /\ Probe \in Nat /\ Probe <= call.todo.blk_cnt
  <2> DEFINE p == call.probe
             b == call.todo.blk_cnt
  <2>1. p \in Nat /\ p # 0 /\ p <= MaxBlkCnt /\ b \in Nat /\ MaxBlkCnt \in Nat
    <3>1. MaxBlkCnt \in Nat /\ \A x \in BlkCnts : x \in Nat /\ x <= MaxBlkCnt
      BY ExtentAssumption DEF BlkCnts
    <3> QED
      BY <1>2, <1>3, <3>1
  <2>2. Probe = IF p < b THEN p ELSE b
    BY DEF Probe
  <2> HIDE DEF p, b
  <2>3. b > 0 => Probe \in BlkCnts \ {0} /\ Probe \in Nat /\ Probe <= b
    BY <2>1, <2>2 DEF BlkCnts
  <2> QED
    BY <2>3 DEF b
<1>7. call.frag + 1 \in Nat
  BY <1>2
<1> QED
  BY <1>1, <1>2, <1>3, <1>4, <1>5, <1>6, <1>7 DEF Taken

\* The bytes of a todo.
LEMMA BytesFacts ==
  ASSUME NEW todo \in Todos
  PROVE  /\ Bytes(todo) \in Nat
         /\ \A n \in Nat : n <= todo.blk_cnt =>
              /\ [todo EXCEPT !.blk_cnt = @ - n] \in Todos
              /\ Bytes([todo EXCEPT !.blk_cnt = @ - n]) = Bytes(todo) - n * BlkSz
         /\ [todo EXCEPT !.subblk_cnt = 0] \in Todos
         /\ Bytes([todo EXCEPT !.subblk_cnt = 0]) = Bytes(todo) - todo.subblk_cnt * SubblkSz
<1> DEFINE b == todo.blk_cnt
           k == todo.subblk_cnt
           i == todo.inline_sz
<1>1. /\ todo = [blk_cnt |-> b, subblk_cnt |-> k, inline_sz |-> i]
      /\ b \in Nat /\ k \in 0 .. SubblkCntPerBlk - 1 /\ k \in Nat /\ i \in 0 .. BlkSz /\ i \in Nat
      /\ 0 \in 0 .. SubblkCntPerBlk - 1
  BY ExtentAssumption DEF Todos
<1>2. BlkSz \in Nat /\ SubblkSz \in Nat
  BY SubblkSzFacts
<1>3. Bytes(todo) = b * BlkSz + k * SubblkSz + i
  BY DEF Bytes
<1> HIDE DEF b, k, i
<1>4. \A x, y \in Nat : x * y \in Nat
  OBVIOUS
<1>5. b * BlkSz \in Nat /\ k * SubblkSz \in Nat
  BY <1>1, <1>2, <1>4
<1>6. ASSUME NEW n \in Nat, n <= b
      PROVE  /\ [todo EXCEPT !.blk_cnt = @ - n] \in Todos
             /\ Bytes([todo EXCEPT !.blk_cnt = @ - n]) = Bytes(todo) - n * BlkSz
  <2>1. b - n \in Nat
    BY <1>1, <1>6
  <2>2. [todo EXCEPT !.blk_cnt = @ - n] = [blk_cnt |-> b - n, subblk_cnt |-> k, inline_sz |-> i]
    BY <1>1
  <2>3. [todo EXCEPT !.blk_cnt = @ - n] \in Todos
    BY <1>1, <2>1, <2>2 DEF Todos
  <2>4. \A x, y, z \in Nat : (x - y) * z = x * z - y * z
    OBVIOUS
  <2>5. (b - n) * BlkSz = b * BlkSz - n * BlkSz /\ n * BlkSz \in Nat
    BY <1>1, <1>2, <1>4, <2>4
  <2>6. Bytes([todo EXCEPT !.blk_cnt = @ - n]) = (b - n) * BlkSz + k * SubblkSz + i
    BY <2>2 DEF Bytes
  <2> QED
    BY <1>1, <1>3, <1>5, <2>3, <2>5, <2>6
<1>7. /\ [todo EXCEPT !.subblk_cnt = 0] \in Todos
      /\ Bytes([todo EXCEPT !.subblk_cnt = 0]) = Bytes(todo) - k * SubblkSz
  <2>1. [todo EXCEPT !.subblk_cnt = 0] = [blk_cnt |-> b, subblk_cnt |-> 0, inline_sz |-> i]
    BY <1>1
  <2>2. Bytes([todo EXCEPT !.subblk_cnt = 0]) = b * BlkSz + 0 * SubblkSz + i
    BY <2>1 DEF Bytes
  <2>3. 0 * SubblkSz = 0
    BY <1>2
  <2> QED
    BY <1>1, <1>3, <1>5, <2>1, <2>2, <2>3 DEF Todos
<1> QED
  BY <1>1, <1>3, <1>5, <1>6, <1>7 DEF b, k

\* Only the frame changes, and what the call is for does not.
SameCall ==
  /\ call' \in Frames
  /\ call'.op = call.op /\ call'.slot = call.slot /\ call'.before = call.before
  /\ call'.wanted = call.wanted /\ call'.req = call.req
  /\ call'.todo.inline_sz = call.todo.inline_sz
  /\ UNCHANGED <<segms, blocked, leaked>>

FrameWith(pc, todo, exts, probe, frag) ==
  [pc |-> pc, op |-> call.op, slot |-> call.slot, before |-> call.before,
   wanted |-> call.wanted, req |-> call.req, todo |-> todo,
   exts |-> exts, probe |-> probe, frag |-> frag]

\* The frame that differs from the one of the call in what is given.
LEMMA FrameWithFacts ==
  ASSUME call \in Frames, NEW pc \in {"no_grow", "may_grow", "subblks"}, NEW todo \in Todos,
         NEW exts \in Seq(Extents), NEW probe \in BlkCnts \ {0}, NEW frag \in Nat
  PROVE  LET f == FrameWith(pc, todo, exts, probe, frag)
         IN  /\ f \in Frames
             /\ f.pc = pc /\ f.todo = todo /\ f.exts = exts /\ f.probe = probe /\ f.frag = frag
             /\ f.op = call.op /\ f.slot = call.slot /\ f.before = call.before
             /\ f.wanted = call.wanted /\ f.req = call.req
<1>1. FrameWith(pc, todo, exts, probe, frag) \in Frames
  BY DEF Frames, FrameWith
<1> QED
  BY <1>1 DEF FrameWith

\* The alloc in progress gets an extent.
LEMMA GetsExtent ==
  ASSUME IInv, ~ Idle, NEW e \in Extents, UnitsOf(e) \subseteq FreeUnits(maps),
         FreeUnits(maps') = FreeUnits(maps) \ UnitsOf(e), UNCHANGED arr,
         SameCall, call'.exts = Append(call.exts, e),
         call'.pc = "subblks" => call'.todo.blk_cnt = 0,
         Bytes(call'.todo) + ExtSz(e) >= Bytes(call.todo)
  PROVE  Types' /\ SharedOut' /\ CallIsSound'
<1>1. /\ call.slot \in Slots /\ call.exts \in Seq(Extents) /\ Scattered(call.exts)
      /\ Taken = UnitsIn(call.exts)
      /\ segms[call.slot] \in Segms /\ segms[call.slot] # NoSegm
      /\ ExtsSz(call.exts) \in Nat /\ ExtsSz(segms[call.slot].exts) \in Nat
      /\ call.todo \in Todos
  BY CallFacts
<1>2. call' \in Frames /\ call'.pc # "idle" /\ call'.slot = call.slot /\ call'.todo \in Todos
  BY DEF SameCall, Frames
<1>3. Types'
  BY <1>1, <1>2 DEF IInv, Types, Idle, SameCall
<1>4. Append(call.exts, e) = call.exts \o <<e>>
  BY <1>1, AppendIsConcat
<1>5. Shares(ArrayUnits, FreeUnits(maps), Owned, Taken, Lost)
  BY DEF IInv, SharedOut
<1>6. <<e>> \in Seq(Extents) /\ Scattered(<<e>>) /\ UnitsIn(<<e>>) = UnitsOf(e)
  BY ScatteredFew
<1>7. UnitsIn(call.exts) \cap UnitsOf(e) = {}
  BY <1>1, <1>5 DEF Shares
<1>8. /\ Scattered(call.exts \o <<e>>)
      /\ UnitsIn(call.exts \o <<e>>) = UnitsIn(call.exts) \cup UnitsOf(e)
  BY <1>1, <1>6, <1>7, ScatteredConcat
<1>9. InProgress' = call.exts \o <<e>>
  BY <1>2, <1>4 DEF InProgress, Idle
<1>10. Taken' = Taken \cup UnitsOf(e)
  BY <1>1, <1>8, <1>9 DEF Taken
<1>11. Owned' = Owned /\ Lost' = Lost /\ ArrayUnits' = ArrayUnits
  BY DEF SameCall, Owned, Lost, ArrayUnits
<1>12. SharedOut'
  <2>1. Shares(ArrayUnits, FreeUnits(maps) \ UnitsOf(e), Owned, Taken \cup UnitsOf(e), Lost)
    BY <1>5, SharesTaken
  <2>2. Shares(ArrayUnits', FreeUnits(maps'), Owned', Taken', Lost')
    BY <1>10, <1>11, <2>1
  <2> QED
    BY <1>8, <1>9, <2>2 DEF IInv, SharedOut, SameCall
<1>13. CallIsSound'
  <2>1. ExtsSz(call'.exts) = ExtsSz(call.exts) + ExtSz(e) /\ ExtSz(e) \in Nat
    <3>1. ExtsSz(call.exts \o <<e>>) = ExtsSz(call.exts) + ExtsSz(<<e>>)
      BY <1>1, <1>6, ExtsSzConcat
    <3>2. ExtsSz(<<e>>) = ExtSz(e) /\ ExtSz(e) \in Nat
      BY ExtsSzOfFew, ExtSzFacts
    <3> QED
      BY <1>4, <3>1, <3>2
  <2>2. Bytes(call.todo) \in Nat /\ Bytes(call'.todo) \in Nat
    BY <1>1, <1>2, BytesFacts
  <2>3. call.wanted \in Nat
    BY CallFacts DEF Frames
  <2>4. ExtsSz(segms[call.slot].exts) + ExtsSz(call.exts) + Bytes(call.todo) >= call.wanted
    BY DEF IInv, CallIsSound
  <2>5. ExtsSz(segms[call.slot].exts) + ExtsSz(call'.exts) + Bytes(call'.todo) >= call.wanted
    BY <1>1, <2>1, <2>2, <2>3, <2>4
  <2> QED
    BY <2>5 DEF IInv, CallIsSound, SameCall, Idle
<1> QED
  BY <1>3, <1>12, <1>13

\* A probe succeeds: some blocks of a free chunk go to the alloc.
LEMMA TakesFromKeeps ==
  ASSUME IInv, MayNotGrow \/ MayGrow, NEW p \in Usable(maps.fr_map, Probe), TakesFrom(p)
  PROVE  IInv'
<1> DEFINE e == FullExtent(p[2], Probe)
           n == [maps EXCEPT !.fr_map = AllocFrom(@, p, Probe)]
           todo == [call.todo EXCEPT !.blk_cnt = @ - Probe]
<1>1. /\ ~ Idle /\ call.pc # "subblks" /\ call.todo.blk_cnt > 0
      /\ maps' = n
      /\ UNCHANGED <<arr, segms, blocked, leaked>>
  BY DEF MayNotGrow, MayGrow, TakesFrom, Idle
<1>2. /\ call \in Frames /\ call.exts \in Seq(Extents) /\ call.frag \in Nat
      /\ call.todo \in Todos /\ Probe \in BlkCnts \ {0} /\ Probe <= call.todo.blk_cnt
      /\ call.pc \in {"no_grow", "may_grow", "subblks"} /\ call.frag + 1 \in Nat
  BY <1>1, CallFacts
<1>3. MapsFit(maps)
  BY DEF IInv
<1>4. /\ e \in Extents /\ UnitsOf(e) \subseteq FreeUnits(maps)
      /\ MapsFit(n) /\ FreeUnits(n) = FreeUnits(maps) \ UnitsOf(e)
      /\ n.subfr_map = maps.subfr_map
  BY <1>2, <1>3, AllocFromFits
<1> HIDE DEF n
<1>5. ExtSz(e) = Probe * BlkSz
  BY DEF ExtSz, FullExtent
<1>6. Probe \in Nat
  BY <1>1, CallFacts
<1>7. /\ todo \in Todos /\ Bytes(todo) = Bytes(call.todo) - Probe * BlkSz
      /\ Bytes(call.todo) \in Nat /\ Probe * BlkSz \in Nat
      /\ todo.inline_sz = call.todo.inline_sz
  <2>1. Probe * BlkSz \in Nat
    <3>1. BlkSz \in Nat
      BY SegmentAllocatorAssumption
    <3> QED
      BY <1>6, <3>1
  <2>2. todo \in Todos /\ Bytes(todo) = Bytes(call.todo) - Probe * BlkSz
    <3> HIDE DEF todo
    <3> QED
      BY <1>2, <1>6, BytesFacts DEF todo
  <2>3. Bytes(call.todo) \in Nat
    BY <1>2, BytesFacts
  <2>4. todo.inline_sz = call.todo.inline_sz
    BY <1>2 DEF Todos
  <2> QED
    BY <2>1, <2>2, <2>3, <2>4
<1>8. call' = FrameWith(call.pc, todo, Append(call.exts, e), Probe, call.frag + 1)
  <2>1. call' = [call EXCEPT !.exts = Append(@, e), !.todo.blk_cnt = @ - Probe,
                             !.probe = Probe, !.frag = @ + 1]
    BY DEF TakesFrom
  <2> QED
    BY <1>2, <2>1 DEF FrameWith, Frames
<1> HIDE DEF todo
<1>9. Append(call.exts, e) \in Seq(Extents)
  BY <1>2, <1>4, AppendProperties
<1> HIDE DEF e
<1>10. /\ call'.exts = Append(call.exts, e) /\ call'.todo = todo /\ call'.pc = call.pc
       /\ SameCall
  <2> DEFINE f == FrameWith(call.pc, todo, Append(call.exts, e), Probe, call.frag + 1)
  <2>1. /\ f \in Frames /\ f.exts = Append(call.exts, e) /\ f.todo = todo /\ f.pc = call.pc
        /\ f.op = call.op /\ f.slot = call.slot /\ f.before = call.before
        /\ f.wanted = call.wanted /\ f.req = call.req
    <3>1. \A x \in Seq(Extents), q \in BlkCnts \ {0}, g \in Nat :
            LET h == FrameWith(call.pc, todo, x, q, g)
            IN  /\ h \in Frames /\ h.exts = x /\ h.todo = todo /\ h.pc = call.pc
                /\ h.op = call.op /\ h.slot = call.slot /\ h.before = call.before
                /\ h.wanted = call.wanted /\ h.req = call.req
      <4> SUFFICES ASSUME NEW x \in Seq(Extents), NEW q \in BlkCnts \ {0}, NEW g \in Nat
                   PROVE  LET h == FrameWith(call.pc, todo, x, q, g)
                          IN  /\ h \in Frames /\ h.exts = x /\ h.todo = todo /\ h.pc = call.pc
                              /\ h.op = call.op /\ h.slot = call.slot
                              /\ h.before = call.before
                              /\ h.wanted = call.wanted /\ h.req = call.req
        OBVIOUS
      <4>1. /\ call \in Frames /\ todo \in Todos
            /\ call.pc \in {"no_grow", "may_grow", "subblks"}
        BY ONLY <1>2, <1>7
      <4> QED
        BY ONLY <4>1, FrameWithFacts, x \in Seq(Extents), q \in BlkCnts \ {0}, g \in Nat
    <3> DEFINE q == Probe
               g == call.frag + 1
               x == Append(call.exts, e)
    <3>2. x \in Seq(Extents) /\ q \in BlkCnts \ {0} /\ g \in Nat
      BY <1>2, <1>9
    <3> HIDE DEF q, g, x
    <3>3. LET h == FrameWith(call.pc, todo, x, q, g)
          IN  /\ h \in Frames /\ h.exts = x /\ h.todo = todo /\ h.pc = call.pc
              /\ h.op = call.op /\ h.slot = call.slot /\ h.before = call.before
              /\ h.wanted = call.wanted /\ h.req = call.req
      BY ONLY <3>1, <3>2
    <3> QED
      BY ONLY <3>3 DEF q, g, x
  <2>2. call' = f
    BY <1>8
  <2> HIDE DEF f
  <2> QED
    BY <1>1, <1>7, <2>1, <2>2 DEF SameCall
<1>11. Bytes(call'.todo) + ExtSz(e) >= Bytes(call.todo)
  BY <1>5, <1>7, <1>10
<1>12. Types' /\ SharedOut' /\ CallIsSound'
  BY <1>1, <1>4, <1>10, <1>11, GetsExtent
<1>13. FullBlkIsForAlloc'
  <2>1. ~ NeedsSubblks
    BY <1>1 DEF NeedsSubblks
  <2>2. Reclaimable(maps') = {}
    BY <1>1, <1>4, <2>1 DEF IInv, FullBlkIsForAlloc, Reclaimable
  <2> QED
    BY <2>2 DEF FullBlkIsForAlloc
<1> QED
  BY <1>1, <1>4, <1>12, <1>13 DEF IInv

\* The steps that change only the frame, and get nothing.
LEMMA FrameChanges ==
  ASSUME IInv, ~ Idle, ~ NeedsSubblks, SameCall, UNCHANGED <<arr, maps>>,
         call'.exts = call.exts, call'.todo = call.todo,
         call'.pc = "subblks" => call'.todo.blk_cnt = 0
  PROVE  IInv'
<1>1. /\ call.slot \in Slots /\ call.exts \in Seq(Extents) /\ call.pc # "idle"
      /\ segms[call.slot] # NoSegm
  BY CallFacts
<1>2. call' \in Frames /\ call'.pc # "idle"
  BY DEF SameCall, Frames
<1>3. Types'
  BY <1>1, <1>2 DEF IInv, Types, Idle, SameCall
<1>4. SharedOut'
  <2>1. InProgress' = InProgress
    BY <1>1, <1>2 DEF InProgress, Idle
  <2>2. Owned' = Owned /\ Taken' = Taken /\ Lost' = Lost /\ ArrayUnits' = ArrayUnits
    BY <2>1 DEF SameCall, Owned, Taken, Lost, ArrayUnits
  <2> QED
    BY <2>1, <2>2 DEF IInv, SharedOut, SameCall
<1>5. FullBlkIsForAlloc'
  BY DEF IInv, FullBlkIsForAlloc
<1>6. CallIsSound'
  BY DEF IInv, CallIsSound, SameCall, Idle
<1> QED
  BY <1>3, <1>4, <1>5, <1>6 DEF IInv

\* A probe fails and alloc tries with less.
LEMMA ProbesLessKeeps ==
  ASSUME IInv, ProbesLess
  PROVE  IInv'
<1> DEFINE closest == ClosestBlkCnt(maps.fr_map, Probe)
<1>1. /\ ~ Idle /\ call.pc = "no_grow" /\ closest # 0 /\ call.todo.blk_cnt > 0
      /\ UNCHANGED <<arr, maps, segms, blocked, leaked>>
  BY DEF ProbesLess, MayNotGrow, Idle
<1>2. /\ call \in Frames /\ call.frag \in Nat /\ Probe \in BlkCnts \ {0}
      /\ call.pc \in {"no_grow", "may_grow", "subblks"} /\ call.frag + 1 \in Nat
      /\ call.exts \in Seq(Extents) /\ call.todo \in Todos
  BY <1>1, CallFacts
<1>3. closest \in BlkCnts \ {0}
  BY <1>1, <1>2, ClosestFacts DEF IInv, MapsFit
<1> HIDE DEF closest
<1>4. /\ SameCall /\ call'.exts = call.exts /\ call'.todo = call.todo
      /\ call'.pc = call.pc
  <2>1. call' = [call EXCEPT !.probe = closest, !.frag = @ + 1]
    BY DEF ProbesLess, closest
  <2>2. call' = FrameWith(call.pc, call.todo, call.exts, closest, call.frag + 1)
    BY <1>2, <2>1 DEF FrameWith, Frames
  <2> DEFINE f == FrameWith(call.pc, call.todo, call.exts, closest, call.frag + 1)
  <2>3. /\ f \in Frames /\ f.exts = call.exts /\ f.todo = call.todo /\ f.pc = call.pc
        /\ f.op = call.op /\ f.slot = call.slot /\ f.before = call.before
        /\ f.wanted = call.wanted /\ f.req = call.req
    BY ONLY <1>2, <1>3, FrameWithFacts, SMTT(30)
  <2>4. call' = f
    BY <2>2
  <2> HIDE DEF f
  <2> QED
    BY <1>1, <2>3, <2>4 DEF SameCall
<1>5. ~ NeedsSubblks
  BY <1>1 DEF NeedsSubblks
<1> QED
  BY <1>1, <1>4, <1>5, FrameChanges

\* alloc stops looking for free chunks only.
LEMMA FreeExhaustedKeeps ==
  ASSUME IInv, FreeExhausted
  PROVE  IInv'
<1> DEFINE frag == IF Len(call.exts) <= 1 THEN 0 ELSE Len(call.exts) - 1
<1>1. /\ ~ Idle /\ call.pc = "no_grow"
      /\ UNCHANGED <<arr, maps, segms, blocked, leaked>>
  BY DEF FreeExhausted, Idle
<1>2. call \in Frames /\ call.exts \in Seq(Extents) /\ call.todo \in Todos
  BY <1>1, CallFacts
<1>3. frag \in Nat
  <2>1. Len(call.exts) \in Nat
    BY <1>2, LenProperties
  <2> QED
    BY <2>1
<1>4. MaxBlkCnt \in BlkCnts \ {0}
  BY ExtentAssumption DEF BlkCnts
<1> HIDE DEF frag
<1>5. /\ SameCall /\ call'.exts = call.exts /\ call'.todo = call.todo
      /\ call'.pc = "may_grow"
  <2>1. call' = [call EXCEPT !.pc = "may_grow", !.probe = MaxBlkCnt, !.frag = frag]
    BY DEF FreeExhausted, frag
  <2>2. call' = FrameWith("may_grow", call.todo, call.exts, MaxBlkCnt, frag)
    BY <1>2, <2>1 DEF FrameWith, Frames
  <2> DEFINE f == FrameWith("may_grow", call.todo, call.exts, MaxBlkCnt, frag)
  <2>3. /\ f \in Frames /\ f.exts = call.exts /\ f.todo = call.todo /\ f.pc = "may_grow"
        /\ f.op = call.op /\ f.slot = call.slot /\ f.before = call.before
        /\ f.wanted = call.wanted /\ f.req = call.req
    BY ONLY <1>2, <1>3, <1>4, FrameWithFacts
  <2>4. call' = f
    BY <2>2
  <2> HIDE DEF f
  <2> QED
    BY <1>1, <2>3, <2>4 DEF SameCall
<1>6. ~ NeedsSubblks
  BY <1>1 DEF NeedsSubblks
<1> QED
  BY <1>1, <1>5, <1>6, FrameChanges

\* alloc has its whole blocks.
LEMMA BlksAllocatedKeeps ==
  ASSUME IInv, BlksAllocated
  PROVE  IInv'
<1>1. /\ ~ Idle /\ call.pc = "may_grow" /\ call.todo.blk_cnt = 0
      /\ UNCHANGED <<arr, maps, segms, blocked, leaked>>
  BY DEF BlksAllocated, Idle
<1>2. /\ call \in Frames /\ call.todo \in Todos /\ call.exts \in Seq(Extents)
      /\ call.probe \in BlkCnts \ {0} /\ call.frag \in Nat
  BY <1>1, CallFacts
<1>3. /\ SameCall /\ call'.exts = call.exts /\ call'.todo = call.todo
  <2>1. call' = [call EXCEPT !.pc = "subblks"]
    BY DEF BlksAllocated
  <2>2. call' = FrameWith("subblks", call.todo, call.exts, call.probe, call.frag)
    BY <1>2, <2>1 DEF FrameWith, Frames
  <2> DEFINE f == FrameWith("subblks", call.todo, call.exts, call.probe, call.frag)
  <2>3. /\ f \in Frames /\ f.exts = call.exts /\ f.todo = call.todo /\ f.pc = "subblks"
        /\ f.op = call.op /\ f.slot = call.slot /\ f.before = call.before
        /\ f.wanted = call.wanted /\ f.req = call.req
    BY ONLY <1>2, FrameWithFacts
  <2>4. call' = f
    BY <2>2
  <2> HIDE DEF f
  <2> QED
    BY <1>1, <2>3, <2>4 DEF SameCall
<1>4. ~ NeedsSubblks
  BY <1>1 DEF NeedsSubblks
<1> QED
  BY <1>1, <1>3, <1>4, FrameChanges

\* The array grows: its new blocks are free, the alloc in progress is the same.
LEMMA ProvidesMoreKeeps ==
  ASSUME IInv, NEW cnt \in BlkCnts \ {0}, ProvidesMore(cnt)
  PROVE  IInv'
<1> DEFINE n == ExtendBy(cnt)
           e == FullExtent(arr.past_end, n)
           k == [maps EXCEPT !.fr_map = Dealloc(@, e)]
<1>1. /\ FitsInSlack(arr, n) \/ ~ Exhausts(arr, n)
      /\ arr' = GrownBy(arr, n)
      /\ maps' = k
      /\ UNCHANGED <<segms, call, blocked, leaked>>
  BY DEF ProvidesMore, TailExhausted, GrownBy
<1>2. /\ MapsFit(maps) /\ WellFormed(maps.fr_map)
      /\ arr \in Arrays /\ PointersOrdered(arr)
      /\ Shares(ArrayUnits, FreeUnits(maps), Owned, Taken, Lost)
  BY DEF IInv, MapsFit, Types, SharedOut
<1>3. n \in BlkCnts \ {0}
  BY <1>2, ExtendByFacts
<1> HIDE DEF n
<1>4. FreeUnits(maps) \subseteq BlksOfArray(arr) \X Subblks
  BY <1>2 DEF Shares, ArrayUnits
<1>5. /\ MapsFit(k)
      /\ FreeUnits(k) = FreeUnits(maps) \cup UnitsOf(e)
      /\ k.subfr_map = maps.subfr_map
      /\ BlksOfArray(GrownBy(arr, n)) \X Subblks = (BlksOfArray(arr) \X Subblks) \cup UnitsOf(e)
      /\ UnitsOf(e) \cap (BlksOfArray(arr) \X Subblks) = {}
  BY <1>1, <1>2, <1>3, <1>4, GrowsFits
<1>6. arr' \in Arrays /\ PointersOrdered(arr')
  BY <1>1, <1>2, <1>3, GrownByFacts
<1> HIDE DEF k, e
<1>7. Types'
  BY <1>1, <1>6 DEF IInv, Types, Idle
<1>8. SharedOut'
  <2>1. ArrayUnits' = ArrayUnits \cup UnitsOf(e) /\ UnitsOf(e) \cap ArrayUnits = {}
    BY <1>1, <1>5 DEF ArrayUnits
  <2>2. FreeUnits(maps') = FreeUnits(maps) \cup UnitsOf(e)
    BY <1>1, <1>5
  <2>3. Shares(ArrayUnits \cup UnitsOf(e), FreeUnits(maps) \cup UnitsOf(e), Owned, Taken, Lost)
    BY <1>2, <2>1, SharesResized
  <2>4. InProgress' = InProgress /\ Owned' = Owned /\ Taken' = Taken /\ Lost' = Lost
    BY <1>1 DEF InProgress, Idle, Owned, Taken, Lost
  <2>5. Shares(ArrayUnits', FreeUnits(maps'), Owned', Taken', Lost')
    BY <2>1, <2>2, <2>3, <2>4
  <2> QED
    BY <1>1, <2>4, <2>5 DEF IInv, SharedOut
<1>9. FullBlkIsForAlloc'
  <2>1. maps'.subfr_map = maps.subfr_map
    BY <1>1, <1>5
  <2>2. Reclaimable(maps') = Reclaimable(maps)
    BY <2>1 DEF Reclaimable
  <2> QED
    BY <1>1, <2>1, <2>2 DEF IInv, FullBlkIsForAlloc, NeedsSubblks
<1>10. CallIsSound'
  BY <1>1 DEF IInv, CallIsSound, Idle
<1> QED
  BY <1>1, <1>5, <1>7, <1>8, <1>9, <1>10 DEF IInv

\* The two loops that may grow the array.
LEMMA GrowsKeeps ==
  ASSUME IInv, GrowsForBlks \/ GrowsForSubblks
  PROVE  IInv'
<1>1. 1 \in BlkCnts \ {0}
  BY ExtentAssumption DEF BlkCnts
<1>2. CASE GrowsForBlks
  <2>1. ~ Idle /\ call.todo.blk_cnt > 0 /\ ProvidesMore(Probe)
    BY <1>2 DEF GrowsForBlks, MayGrow, Idle
  <2> QED
    BY <2>1, CallFacts, ProvidesMoreKeeps
<1>3. CASE GrowsForSubblks
  BY <1>1, <1>3, ProvidesMoreKeeps DEF GrowsForSubblks
<1> QED
  BY <1>2, <1>3

\* A block with enough free subblocks gives them to the alloc. A block with all
\* of its subblocks free, if there is one, is that block.
LEMMA TakesSubblksKeeps ==
  ASSUME IInv, TakesSubblks
  PROVE  IInv'
<1> DEFINE cnt == call.todo.subblk_cnt
<1> PICK x \in UsableBlk(maps.subfr_map, cnt) :
       /\ maps' = [maps EXCEPT !.subfr_map = AllocFromBlk(@, x, cnt)]
       /\ call' = [call EXCEPT !.exts = Append(@, SubExtent(x[1], TakenBits(x[2], cnt))),
                               !.todo.subblk_cnt = 0]
  BY DEF TakesSubblks
<1> DEFINE e == SubExtent(x[1], TakenBits(x[2], cnt))
           n == [maps EXCEPT !.subfr_map = AllocFromBlk(@, x, cnt)]
           todo == [call.todo EXCEPT !.subblk_cnt = 0]
<1>1. /\ ~ Idle /\ call.pc = "subblks" /\ cnt > 0 /\ maps' = n
      /\ UNCHANGED <<arr, segms, blocked, leaked>>
  BY DEF TakesSubblks, NeedsSubblks, Idle
<1>2. /\ call \in Frames /\ call.exts \in Seq(Extents) /\ call.frag \in Nat
      /\ call.todo \in Todos /\ call.probe \in BlkCnts \ {0}
      /\ cnt \in 0 .. SubblkCntPerBlk - 1
      /\ call.pc \in {"no_grow", "may_grow", "subblks"}
  BY <1>1, CallFacts
<1>3. MapsFit(maps) /\ SubWellFormed(maps.subfr_map) /\ cnt \in 1 .. SubblkCntPerBlk /\ cnt \in Nat
  BY <1>1, <1>2, ExtentAssumption DEF IInv, MapsFit
<1>4. /\ e \in Extents /\ UnitsOf(e) \subseteq FreeUnits(maps)
      /\ MapsFit(n) /\ FreeUnits(n) = FreeUnits(maps) \ UnitsOf(e)
      /\ n.fr_map = maps.fr_map
      /\ \A b \in BlkNrs : n.subfr_map.fr_by_nr[b] =
           IF b = x[1] THEN maps.subfr_map.fr_by_nr[b] \ TakenBits(x[2], cnt)
           ELSE maps.subfr_map.fr_by_nr[b]
  <2> HIDE DEF cnt
  <2> QED
    BY <1>3, AllocFromBlkFits, ZenonT(30)
<1>5. /\ x[1] \in BlkNrs /\ x[2] = maps.subfr_map.fr_by_nr[x[1]] /\ x[2] \in Bitmaps
      /\ cnt <= Cardinality(x[2])
  <2> HIDE DEF cnt
  <2>1. /\ x[1] \in BlkNrs /\ x = <<x[1], maps.subfr_map.fr_by_nr[x[1]]>>
        /\ maps.subfr_map.fr_by_nr[x[1]] \in Bitmaps
        /\ cnt <= Cardinality(maps.subfr_map.fr_by_nr[x[1]])
    BY <1>3, UsableBlkFacts
  <2>2. x[2] = maps.subfr_map.fr_by_nr[x[1]]
    BY <2>1
  <2> QED
    BY <2>1, <2>2
<1> HIDE DEF n
<1>6. ExtSz(e) = cnt * SubblkSz
  <2>1. Cardinality(TakenBits(x[2], cnt)) = cnt
    BY <1>3, <1>5, TakenBitsCount
  <2>2. e.is_suballoc /\ e.blk_bitmap = TakenBits(x[2], cnt)
    BY DEF SubExtent
  <2> HIDE DEF e, cnt
  <2> QED
    BY <2>1, <2>2 DEF ExtSz, SubblkCnt
<1>7. /\ todo \in Todos /\ Bytes(todo) = Bytes(call.todo) - cnt * SubblkSz
      /\ Bytes(call.todo) \in Nat /\ cnt * SubblkSz \in Nat
      /\ todo.inline_sz = call.todo.inline_sz /\ todo.subblk_cnt = 0
      /\ todo.blk_cnt = call.todo.blk_cnt
  <2>1. cnt * SubblkSz \in Nat
    <3>1. SubblkSz \in Nat
      BY SubblkSzFacts
    <3> HIDE DEF cnt
    <3> QED
      BY <1>3, <3>1
  <2>2. /\ todo \in Todos /\ Bytes(todo) = Bytes(call.todo) - cnt * SubblkSz
        /\ Bytes(call.todo) \in Nat
    BY <1>2, BytesFacts
  <2>3. /\ todo.inline_sz = call.todo.inline_sz /\ todo.subblk_cnt = 0
        /\ todo.blk_cnt = call.todo.blk_cnt
    BY <1>2 DEF Todos
  <2> QED
    BY <2>1, <2>2, <2>3
<1>8. call' = FrameWith(call.pc, todo, Append(call.exts, e), call.probe, call.frag)
  <2>1. call' = [call EXCEPT !.exts = Append(@, e), !.todo.subblk_cnt = 0]
    OBVIOUS
  <2> QED
    BY <1>2, <2>1 DEF FrameWith, Frames
<1> HIDE DEF todo, e
<1>9. Append(call.exts, e) \in Seq(Extents)
  BY <1>2, <1>4, AppendProperties
<1>10. /\ call'.exts = Append(call.exts, e) /\ call'.todo = todo /\ call'.pc = call.pc
       /\ SameCall
  <2> DEFINE y == Append(call.exts, e)
             f == FrameWith(call.pc, todo, y, call.probe, call.frag)
  <2>1. y \in Seq(Extents)
    BY <1>9
  <2> HIDE DEF y
  <2>2. /\ f \in Frames /\ f.exts = y /\ f.todo = todo /\ f.pc = call.pc
        /\ f.op = call.op /\ f.slot = call.slot /\ f.before = call.before
        /\ f.wanted = call.wanted /\ f.req = call.req
    BY ONLY <1>2, <1>7, <2>1, FrameWithFacts
  <2>3. call' = f
    BY <1>8 DEF y
  <2> HIDE DEF f
  <2> QED
    BY <1>1, <1>7, <2>2, <2>3 DEF SameCall, y
<1>11. Bytes(call'.todo) + ExtSz(e) >= Bytes(call.todo)
  <2> HIDE DEF cnt
  <2> QED
    BY <1>6, <1>7, <1>10
<1>12. call'.pc = "subblks" => call'.todo.blk_cnt = 0
  BY <1>1, <1>7, <1>10 DEF IInv, CallIsSound
<1>13. Types' /\ SharedOut' /\ CallIsSound'
  BY <1>1, <1>4, <1>10, <1>11, <1>12, GetsExtent
<1>14. FullBlkIsForAlloc'
  <2>1. SubWellFormed(maps'.subfr_map)
    BY <1>1, <1>4 DEF MapsFit
  <2>2. Reclaimable(maps') = {b \in BlkNrs : maps'.subfr_map.fr_by_nr[b] = Subblks}
    BY <2>1, FullyFreeAreFull DEF Reclaimable
  <2>3. Reclaimable(maps) = {b \in BlkNrs : maps.subfr_map.fr_by_nr[b] = Subblks}
    BY <1>3, FullyFreeAreFull DEF Reclaimable
  <2>4. Cardinality(maps.subfr_map.fr_by_nr[x[1]]) \in Int
    BY <1>5, CountIsInt DEF Bitmaps
  <2>5. ASSUME NEW b \in Reclaimable(maps') PROVE FALSE
    <3>1. b \in BlkNrs /\ maps'.subfr_map.fr_by_nr[b] = Subblks
      BY <2>2, <2>5
    <3>2. CASE b = x[1]
      <4>1. TakenBits(x[2], cnt) # {} /\ TakenBits(x[2], cnt) \subseteq x[2]
        <5>1. x[2] # {}
          <6>1. Cardinality({}) = 0
            BY FS_EmptySet
          <6>2. SUFFICES ASSUME x[2] = {} PROVE FALSE
            OBVIOUS
          <6>3. Cardinality(x[2]) = 0
            BY ONLY <6>1, <6>2
          <6> HIDE DEF cnt
          <6> QED
            BY ONLY <1>3, <1>5, <6>3
        <5> QED
          BY <1>1, <1>3, <1>5, <5>1, TakenBitsFacts
      <4>2. maps'.subfr_map.fr_by_nr[b] = x[2] \ TakenBits(x[2], cnt)
        BY <1>1, <1>4, <1>5, <3>1, <3>2
      <4> QED
        BY <1>5, <3>1, <4>1, <4>2 DEF Bitmaps
    <3>3. CASE b # x[1]
      <4>1. maps.subfr_map.fr_by_nr[b] = Subblks
        BY <1>1, <1>4, <3>1, <3>3
      <4>2. b \in Reclaimable(maps)
        BY <2>3, <3>1, <4>1
      <4>3. Cardinality(maps.subfr_map.fr_by_nr[x[1]]) < cnt
        BY <1>5, <3>3, <4>2 DEF IInv, FullBlkIsForAlloc
      <4> QED
        BY <1>3, <1>5, <2>4, <4>3
    <3> QED
      BY <3>2, <3>3
  <2> QED
    BY <2>5 DEF FullBlkIsForAlloc
<1> QED
  BY <1>1, <1>4, <1>13, <1>14 DEF IInv

\* A free block becomes subblocks, when no block has enough of them.
LEMMA ProvidesSubblksKeeps ==
  ASSUME IInv, ProvidesSubblks
  PROVE  IInv'
<1> DEFINE cnt == call.todo.subblk_cnt
<1> PICK p \in Usable(maps.fr_map, 1) :
       maps' = [fr_map |-> AllocFrom(maps.fr_map, p, 1),
                subfr_map |-> ProvideSub(maps.subfr_map, p[2], Subblks)]
  BY DEF ProvidesSubblks
<1> DEFINE n == [fr_map |-> AllocFrom(maps.fr_map, p, 1),
                 subfr_map |-> ProvideSub(maps.subfr_map, p[2], Subblks)]
<1>1. /\ ~ Idle /\ NeedsSubblks /\ cnt > 0 /\ maps' = n
      /\ UsableBlk(maps.subfr_map, cnt) = {}
      /\ UNCHANGED <<arr, segms, call, blocked, leaked>>
  BY DEF ProvidesSubblks, NeedsSubblks, Idle
<1>2. /\ MapsFit(maps) /\ SubWellFormed(maps.subfr_map)
      /\ cnt \in 1 .. SubblkCntPerBlk /\ cnt \in 0 .. SubblkCntPerBlk - 1
  <2>1. cnt \in 0 .. SubblkCntPerBlk - 1
    BY <1>1, CallFacts
  <2> HIDE DEF cnt
  <2> QED
    BY <1>1, <2>1, ExtentAssumption DEF IInv, MapsFit
<1>3. /\ p[2] \in BlkNrs
      /\ MapsFit(n)
      /\ FreeUnits(n) = FreeUnits(maps)
      /\ \A b \in BlkNrs : n.subfr_map.fr_by_nr[b] =
           IF b = p[2] THEN Subblks ELSE maps.subfr_map.fr_by_nr[b]
  BY <1>2, ProvideSubFits
<1>4. \A b \in BlkNrs : Cardinality(maps.subfr_map.fr_by_nr[b]) < cnt
  <2> HIDE DEF cnt
  <2> QED
    BY <1>1, <1>2, UsableBlkEmpty
<1> HIDE DEF n
<1>5. Types'
  BY <1>1 DEF IInv, Types, Idle
<1>6. SharedOut'
  <2>1. /\ FreeUnits(maps') = FreeUnits(maps) /\ ArrayUnits' = ArrayUnits
        /\ InProgress' = InProgress /\ Owned' = Owned /\ Taken' = Taken /\ Lost' = Lost
    BY <1>1, <1>3 DEF InProgress, Idle, Owned, Taken, Lost, ArrayUnits
  <2>2. Shares(ArrayUnits, FreeUnits(maps), Owned, Taken, Lost)
    BY DEF IInv, SharedOut
  <2>3. Shares(ArrayUnits', FreeUnits(maps'), Owned', Taken', Lost')
    BY <2>1, <2>2
  <2> QED
    BY <1>1, <2>1, <2>3 DEF IInv, SharedOut
<1>7. FullBlkIsForAlloc'
  <2>1. Reclaimable(maps') = {b \in BlkNrs : maps'.subfr_map.fr_by_nr[b] = Subblks}
    BY <1>1, <1>3, FullyFreeAreFull DEF Reclaimable, MapsFit
  <2>2. Cardinality(Subblks) = SubblkCntPerBlk
    <3>1. SubblkCntPerBlk \in Nat /\ 0 <= SubblkCntPerBlk
      BY ExtentAssumption
    <3> QED
      BY <3>1, FS_Interval, ExtentAssumption DEF Subblks
  <2>3. ASSUME NEW b \in Reclaimable(maps') PROVE b = p[2]
    <3>1. b \in BlkNrs /\ maps'.subfr_map.fr_by_nr[b] = Subblks
      BY <2>1, <2>3
    <3>2. SUFFICES ASSUME b # p[2] PROVE FALSE
      OBVIOUS
    <3>3. Cardinality(Subblks) < cnt
      BY <1>1, <1>3, <1>4, <3>1, <3>2
    <3> HIDE DEF cnt
    <3> QED
      BY <1>2, <2>2, <3>3, ExtentAssumption
  <2>4. ASSUME NEW b \in Reclaimable(maps'), NEW c \in BlkNrs \ {b}
        PROVE  Cardinality(maps'.subfr_map.fr_by_nr[c]) < cnt
    BY <1>1, <1>3, <1>4, <2>3, <2>4
  <2>5. NeedsSubblks' /\ call' = call
    BY <1>1 DEF NeedsSubblks
  <2> QED
    BY <2>4, <2>5 DEF FullBlkIsForAlloc
<1>8. CallIsSound'
  BY <1>1 DEF IInv, CallIsSound, Idle
<1> QED
  BY <1>1, <1>3, <1>5, <1>6, <1>7, <1>8 DEF IInv

\* alloc returns: its extents become those of the slot, after the ones kept.
LEMMA ReturnsKeeps ==
  ASSUME IInv, Returns
  PROVE  IInv'
<1> DEFINE slot == call.slot
           kept == segms[call.slot]
           s == [exts |-> kept.exts \o call.exts, inline_sz |-> call.todo.inline_sz]
<1>1. /\ ~ Idle /\ call.pc = "subblks" /\ call.todo.subblk_cnt = 0
      /\ segms' = [segms EXCEPT ![slot] = s]
      /\ call' = [pc |-> "idle"]
      /\ UNCHANGED <<arr, maps, blocked, leaked>>
  BY DEF Returns, Idle
<1>2. /\ slot \in Slots /\ call.exts \in Seq(Extents) /\ Scattered(call.exts)
      /\ Taken = UnitsIn(call.exts) /\ call.todo.inline_sz \in 0 .. BlkSz
      /\ kept \in Segms /\ kept # NoSegm
  BY <1>1, CallFacts
<1>3. /\ kept.exts \in Seq(Extents) /\ Scattered(kept.exts)
      /\ Owned[slot] = UnitsIn(kept.exts)
  BY <1>2, SegmFacts
<1>4. Shares(ArrayUnits, FreeUnits(maps), Owned, Taken, Lost)
  BY DEF IInv, SharedOut
<1>5. UnitsIn(kept.exts) \cap UnitsIn(call.exts) = {}
  BY <1>2, <1>3, <1>4 DEF Shares
<1>6. /\ kept.exts \o call.exts \in Seq(Extents)
      /\ UnitsIn(kept.exts \o call.exts) = UnitsIn(kept.exts) \cup UnitsIn(call.exts)
      /\ Scattered(kept.exts \o call.exts)
  BY <1>2, <1>3, <1>5, ScatteredConcat
<1>7. s \in Segms /\ s.exts = kept.exts \o call.exts
  BY <1>2, <1>6 DEF Segms
<1>8. s # NoSegm
  BY <1>7, SegmentAllocatorAssumption
<1> HIDE DEF s
<1>9. segms' \in [Slots -> Segms \cup {NoSegm}] /\ segms \in [Slots -> Segms \cup {NoSegm}]
      /\ segms'[slot] = s /\ \A t \in Slots \ {slot} : segms'[t] = segms[t]
  BY <1>1, <1>2, <1>7 DEF IInv, Types
<1>10. Types' /\ Idle'
  BY <1>1, <1>9 DEF IInv, Types, Idle
<1>11. SharedOut'
  <2>1. InProgress' = << >>
    BY <1>10 DEF InProgress, Idle
  <2>2. Taken' = {} /\ Lost' = Lost /\ ArrayUnits' = ArrayUnits /\ FreeUnits(maps') = FreeUnits(maps)
    BY <1>1, <2>1, ScatteredFew DEF Taken, Lost, ArrayUnits
  <2>3. Owned'[slot] = Owned[slot] \cup Taken
    BY <1>2, <1>3, <1>6, <1>7, <1>8, <1>9 DEF Owned
  <2>4. \A t \in Slots \ {slot} : Owned'[t] = Owned[t]
    BY <1>9 DEF Owned
  <2> DEFINE P == Owned'
  <2>5. P[slot] = Owned[slot] \cup Taken /\ \A t \in Slots \ {slot} : P[t] = Owned[t]
    BY <2>3, <2>4
  <2> HIDE DEF P, slot
  <2>6. Shares(ArrayUnits, FreeUnits(maps), P, {}, Lost)
    BY <1>2, <1>4, <2>5, SharesReturned
  <2>7. Shares(ArrayUnits', FreeUnits(maps'), Owned', Taken', Lost')
    BY <2>2, <2>6 DEF P
  <2>8. \A t \in Slots : segms'[t] # NoSegm => Scattered(segms'[t].exts)
    BY <1>6, <1>7, <1>9 DEF IInv, SharedOut
  <2>9. Scattered(InProgress')
    BY <2>1, ScatteredFew
  <2> QED
    BY <1>1, <2>7, <2>8, <2>9 DEF IInv, SharedOut
<1>12. FullBlkIsForAlloc'
  <2>1. ~ NeedsSubblks
    BY <1>1 DEF NeedsSubblks
  <2>2. Reclaimable(maps') = {}
    BY <1>1, <2>1 DEF IInv, FullBlkIsForAlloc, Reclaimable
  <2> QED
    BY <2>2 DEF FullBlkIsForAlloc
<1>13. CallIsSound'
  BY <1>10 DEF CallIsSound
<1> QED
  BY <1>1, <1>10, <1>11, <1>12, <1>13 DEF IInv

\* alloc throws: what it had taken is nobody's. Only a call to allocate_subblk
\* could leave a block with all of its subblocks free, and it never throws then:
\* that block has enough of them.
LEMMA ThrowsKeeps ==
  ASSUME IInv, Throws
  PROVE  IInv'
<1>1. /\ ~ Idle
      /\ leaked' = leaked \cup Range(call.exts)
      /\ segms' = IF call.op = "alloc" THEN [segms EXCEPT ![call.slot] = NoSegm] ELSE segms
      /\ call' = [pc |-> "idle"]
      /\ UNCHANGED <<arr, maps, blocked>>
  BY DEF Throws, Idle, MayGrow, NeedsSubblks
<1>2. /\ call.slot \in Slots /\ call.exts \in Seq(Extents) /\ Scattered(call.exts)
      /\ Taken = UnitsIn(call.exts)
      /\ segms[call.slot] \in Segms /\ segms[call.slot] # NoSegm
      /\ call.todo.subblk_cnt \in 0 .. SubblkCntPerBlk - 1
  BY <1>1, CallFacts
<1>3. Range(call.exts) \subseteq Extents /\ leaked \subseteq Extents
  <2>1. \A e \in Range(call.exts) : \E i \in 1 .. Len(call.exts) : e = call.exts[i]
    BY <1>2, RangeEquality
  <2>2. \A i \in 1 .. Len(call.exts) : call.exts[i] \in Extents
    BY <1>2, ElementOfSeq
  <2> QED
    BY <2>1, <2>2 DEF IInv, Types
<1>4. segms' \in [Slots -> Segms \cup {NoSegm}] /\ segms \in [Slots -> Segms \cup {NoSegm}]
  BY <1>1, <1>2 DEF IInv, Types
<1>5. Types' /\ Idle'
  BY <1>1, <1>3, <1>4 DEF IInv, Types, Idle
<1>6. Shares(ArrayUnits, FreeUnits(maps), Owned, Taken, Lost)
  BY DEF IInv, SharedOut
<1>7. \A t \in Slots : Owned'[t] = Owned[t]
  <2>1. CASE call.op = "alloc"
    <3>1. segms[call.slot] = EmptySegm
      BY <1>1, <2>1 DEF IInv, CallIsSound
    <3>2. Owned[call.slot] = {}
      BY <1>2, <3>1, ScatteredFew DEF Owned, EmptySegm
    <3>3. segms'[call.slot] = NoSegm /\ \A t \in Slots \ {call.slot} : segms'[t] = segms[t]
      BY <1>1, <1>2, <1>4, <2>1
    <3> QED
      BY <3>2, <3>3 DEF Owned
  <2>2. CASE call.op # "alloc"
    BY <1>1, <2>2 DEF Owned
  <2> QED
    BY <2>1, <2>2
<1>8. SharedOut'
  <2>1. InProgress' = << >>
    BY <1>5 DEF InProgress, Idle
  <2>2. Taken' = {} /\ ArrayUnits' = ArrayUnits /\ FreeUnits(maps') = FreeUnits(maps)
    BY <1>1, <2>1, ScatteredFew DEF Taken, ArrayUnits
  <2>3. Lost' = Lost \cup Taken
    BY <1>1, <1>2 DEF Lost, UnitsIn, UnitsOfAll
  <2> DEFINE P == Owned'
  <2>4. \A t \in Slots : P[t] = Owned[t]
    BY <1>7
  <2> HIDE DEF P
  <2>5. Shares(ArrayUnits, FreeUnits(maps), Owned, {}, Lost \cup Taken)
    BY <1>6, SharesLost
  <2>6. Shares(ArrayUnits, FreeUnits(maps), P, {}, Lost \cup Taken)
    BY <2>4, <2>5, SharesSame
  <2>7. Shares(ArrayUnits', FreeUnits(maps'), Owned', Taken', Lost')
    BY <2>2, <2>3, <2>6 DEF P
  <2>8. \A t \in Slots : segms'[t] # NoSegm => Scattered(segms'[t].exts)
    BY <1>1, <1>2, <1>4 DEF IInv, SharedOut
  <2>9. Scattered(InProgress')
    BY <2>1, ScatteredFew
  <2>10. \A e, f \in leaked' : e # f => UnitsOf(e) \cap UnitsOf(f) = {}
    <3>1. \A e, f \in leaked : e # f => UnitsOf(e) \cap UnitsOf(f) = {}
      BY DEF IInv, SharedOut
    <3>2. \A e \in Range(call.exts) : \E i \in 1 .. Len(call.exts) : e = call.exts[i]
      BY <1>2, RangeEquality
    <3>3. \A e, f \in Range(call.exts) : e # f => UnitsOf(e) \cap UnitsOf(f) = {}
      BY <1>2, <3>2 DEF Scattered
    <3>4. \A e \in leaked, f \in Range(call.exts) : UnitsOf(e) \cap UnitsOf(f) = {}
      <4>1. Taken \cap Lost = {}
        BY <1>6 DEF Shares
      <4>2. \A e \in leaked : UnitsOf(e) \subseteq Lost
        BY DEF Lost, UnitsOfAll
      <4>3. \A f \in Range(call.exts) : UnitsOf(f) \subseteq Taken
        BY <1>2 DEF UnitsIn, UnitsOfAll
      <4> QED
        BY <4>1, <4>2, <4>3
    <3> QED
      BY <1>1, <3>1, <3>3, <3>4
  <2> QED
    BY <2>7, <2>8, <2>9, <2>10 DEF IInv, SharedOut
<1>9. FullBlkIsForAlloc'
  <2>1. CASE ~ NeedsSubblks
    <3>1. Reclaimable(maps') = {}
      BY <1>1, <2>1 DEF IInv, FullBlkIsForAlloc, Reclaimable
    <3> QED
      BY <3>1 DEF FullBlkIsForAlloc
  <2>2. CASE NeedsSubblks
    <3> DEFINE cnt == call.todo.subblk_cnt
    <3>1. UsableBlk(maps.subfr_map, cnt) = {} /\ cnt > 0
      BY <2>2 DEF Throws, NeedsSubblks, MayGrow
    <3>2. SubWellFormed(maps.subfr_map)
      BY DEF IInv, MapsFit
    <3>3. cnt \in 1 .. SubblkCntPerBlk /\ cnt < SubblkCntPerBlk /\ cnt \in Nat
      <4>1. cnt \in 0 .. SubblkCntPerBlk - 1
        BY <1>2
      <4> HIDE DEF cnt
      <4> QED
        BY <3>1, <4>1, ExtentAssumption
    <3>4. \A b \in BlkNrs : Cardinality(maps.subfr_map.fr_by_nr[b]) < cnt
      <4> HIDE DEF cnt
      <4> QED
        BY <3>1, <3>2, <3>3, UsableBlkEmpty
    <3>5. Cardinality(Subblks) = SubblkCntPerBlk
      <4>1. SubblkCntPerBlk \in Nat /\ 0 <= SubblkCntPerBlk
        BY ExtentAssumption
      <4> QED
        BY <4>1, FS_Interval, ExtentAssumption DEF Subblks
    <3>6. Reclaimable(maps) = {b \in BlkNrs : maps.subfr_map.fr_by_nr[b] = Subblks}
      BY <3>2, FullyFreeAreFull DEF Reclaimable
    <3> HIDE DEF cnt
    <3>7. ~ SubblkCntPerBlk < cnt
      BY <3>3, ExtentAssumption
    <3>8. Reclaimable(maps) = {}
      BY <3>4, <3>5, <3>6, <3>7
    <3>9. Reclaimable(maps') = {}
      BY <1>1, <3>8 DEF Reclaimable
    <3> QED
      BY <3>9 DEF FullBlkIsForAlloc
  <2> QED
    BY <2>1, <2>2
<1>10. CallIsSound'
  BY <1>5 DEF CallIsSound
<1> QED
  BY <1>1, <1>5, <1>8, <1>9, <1>10 DEF IInv

-----------------------------------------------------------------------------
(* The invariant *)

\* Nothing is allocated at the start.
LEMMA IInvInitially == Init => IInv
<1>1. 0 \in 0 .. MaxBlocked
  BY SegmentAllocatorAssumption
<1> QED
  BY <1>1, NothingIsHeld DEF Init

\* A call by the user.
LEMMA UserCallKeeps ==
  ASSUME IInv, UserCall
  PROVE  IInv'
<1>1. ASSUME NEW slot \in Slots, DeallocSegm(slot) PROVE IInv'
  BY <1>1, DeallocSegmKeeps
<1>2. ASSUME NEW slot \in Slots, NEW sz \in Sizes, ReallocCutsInline(slot, sz) PROVE IInv'
  BY <1>2, ReallocCutsInlineKeeps
<1>3. ASSUME NEW slot \in Slots, NEW sz \in Sizes, NEW req \in Reqs,
             \/ CallAlloc(slot, sz, req)
             \/ ReallocExpands(slot, sz, req) \/ ReallocShrinks(slot, sz, req)
      PROVE  IInv'
  BY <1>3, CallAllocKeeps, ReallocExpandsKeeps, ReallocShrinksKeeps
<1>4. CASE ReleaseSpace \/ Reset \/ BlockOps \/ UnblockOps \/ Reopen
  BY <1>4, ReleaseSpaceKeeps, ResetKeeps, BlockOpsKeeps, ReopenKeeps
<1> QED
  BY <1>1, <1>2, <1>3, <1>4 DEF UserCall

\* A step of the alloc in progress.
LEMMA AllocStepKeeps ==
  ASSUME IInv, AllocStep
  PROVE  IInv'
<1>1. CASE TakesFree
  BY <1>1, TakesFromKeeps DEF TakesFree
<1>2. CASE TakesOrGrows
  BY <1>2, TakesFromKeeps DEF TakesOrGrows
<1>3. CASE ProbesLess \/ FreeExhausted \/ BlksAllocated
  BY <1>3, ProbesLessKeeps, FreeExhaustedKeeps, BlksAllocatedKeeps
<1>4. CASE GrowsForBlks \/ GrowsForSubblks
  BY <1>4, GrowsKeeps
<1>5. CASE TakesSubblks \/ ProvidesSubblks
  BY <1>5, TakesSubblksKeeps, ProvidesSubblksKeeps
<1>6. CASE Returns \/ Throws
  BY <1>6, ReturnsKeeps, ThrowsKeeps
<1> QED
  BY <1>1, <1>2, <1>3, <1>4, <1>5, <1>6 DEF AllocStep

\* Each call of the user and each step of alloc keeps the invariant.
LEMMA IInvKept == IInv /\ [Next]_vars => IInv'
BY UserCallKeeps, AllocStepKeeps, BlockOpsKeeps DEF Next

\* The units of the array are shared out at every step of every call, for every
\* size of the array, of a block, of a bitmap and of a block count.
THEOREM SpaceIsShared == Spec => []IInv
BY IInvInitially, IInvKept, PTL DEF Spec

\* The types of the maps, of the segments and of the frame of alloc.
THEOREM SegmentAllocatorTypes == Spec => []TypeOK
<1>1. ASSUME IInv PROVE TypeOK
  <2>1. Types
    BY <1>1 DEF IInv
  <2>2. maps \in [fr_map : FreeMaps, subfr_map : SubFreeMaps]
    BY <1>1 DEF IInv, MapsFit, WellFormed, SubWellFormed
  <2>3. ASSUME ~ Idle
        PROVE  /\ call.pc \in {"no_grow", "may_grow", "subblks"}
               /\ call.op \in {"alloc", "expand", "shrink"}
               /\ call.slot \in Live /\ call.exts \in Seq(Extents)
               /\ call.probe \in BlkCnts \ {0}
    BY <2>1, <2>3 DEF Types, Frames, Live
  <2> QED
    BY <2>1, <2>2, <2>3 DEF Types, TypeOK, Idle
<1> QED
  BY <1>1, SpaceIsShared, PTL

\* Who holds each extent, and its units.
LEMMA HeldFacts ==
  ASSUME IInv
  PROVE  /\ \A h \in Held :
              \/ \E s \in Slots : \E i \in 1 .. Len(segms[s].exts) :
                   segms[s] # NoSegm /\ h = <<s, i, segms[s].exts[i]>>
              \/ \E i \in 1 .. Len(InProgress) : h = <<"alloc", i, InProgress[i]>>
              \/ \E e \in leaked : h = <<"nobody", 0, e>>
         /\ \A s \in Slots : segms[s] # NoSegm =>
              \A i \in 1 .. Len(segms[s].exts) :
                /\ <<s, i, segms[s].exts[i]>> \in Held
                /\ UnitsOf(segms[s].exts[i]) \subseteq Owned[s]
         /\ \A i \in 1 .. Len(InProgress) :
              <<"alloc", i, InProgress[i]>> \in Held /\ UnitsOf(InProgress[i]) \subseteq Taken
         /\ \A e \in leaked : <<"nobody", 0, e>> \in Held /\ UnitsOf(e) \subseteq Lost
         /\ \A s \in Slots : segms[s] # NoSegm =>
              Owned[s] = UNION {UnitsOf(segms[s].exts[i]) : i \in 1 .. Len(segms[s].exts)}
         /\ Taken = UNION {UnitsOf(InProgress[i]) : i \in 1 .. Len(InProgress)}
<1>1. \A s \in Slots : segms[s] # NoSegm =>
         /\ segms[s].exts \in Seq(Extents)
         /\ DOMAIN segms[s].exts = 1 .. Len(segms[s].exts)
         /\ Owned[s] = UNION {UnitsOf(segms[s].exts[i]) : i \in 1 .. Len(segms[s].exts)}
  <2> TAKE s \in Slots
  <2> HAVE segms[s] # NoSegm
  <2>1. segms[s].exts \in Seq(Extents) /\ Owned[s] = UnitsIn(segms[s].exts)
    BY SegmFacts
  <2> QED
    BY <2>1, UnitsOfSeq, LenProperties
<1>2. /\ InProgress \in Seq(Extents)
      /\ DOMAIN InProgress = 1 .. Len(InProgress)
      /\ Taken = UNION {UnitsOf(InProgress[i]) : i \in 1 .. Len(InProgress)}
  <2>1. InProgress \in Seq(Extents)
    BY IdleFacts, CallFacts, ScatteredFew
  <2> QED
    BY <2>1, UnitsOfSeq, LenProperties DEF Taken
<1>3. \A h : h \in Held <=>
        \/ \E s \in Live : \E i \in DOMAIN segms[s].exts : h = <<s, i, segms[s].exts[i]>>
        \/ \E i \in DOMAIN InProgress : h = <<"alloc", i, InProgress[i]>>
        \/ \E e \in leaked : h = <<"nobody", 0, e>>
  BY DEF Held
<1>4. \A s : s \in Live <=> s \in Slots /\ segms[s] # NoSegm
  BY DEF Live
<1>5. \A e \in leaked : UnitsOf(e) \subseteq Lost
  BY DEF Lost, UnitsOfAll
<1>6. \A h \in Held :
        \/ \E s \in Slots : \E i \in 1 .. Len(segms[s].exts) :
             segms[s] # NoSegm /\ h = <<s, i, segms[s].exts[i]>>
        \/ \E i \in 1 .. Len(InProgress) : h = <<"alloc", i, InProgress[i]>>
        \/ \E e \in leaked : h = <<"nobody", 0, e>>
  BY <1>1, <1>2, <1>3, <1>4
<1>7. \A s \in Slots : segms[s] # NoSegm =>
        \A i \in 1 .. Len(segms[s].exts) :
          /\ <<s, i, segms[s].exts[i]>> \in Held
          /\ UnitsOf(segms[s].exts[i]) \subseteq Owned[s]
  BY <1>1, <1>3, <1>4
<1>8. \A i \in 1 .. Len(InProgress) :
        <<"alloc", i, InProgress[i]>> \in Held /\ UnitsOf(InProgress[i]) \subseteq Taken
  BY <1>2, <1>3
<1>9. \A e \in leaked : <<"nobody", 0, e>> \in Held
  BY <1>3
<1> QED
  BY <1>1, <1>2, <1>5, <1>6, <1>7, <1>8, <1>9

\* No two holders have a unit in common, and none has a free one.
LEMMA HeldApart ==
  ASSUME IInv, NEW h \in Held
  PROVE  /\ UnitsOf(h[3]) \cap FreeUnits(maps) = {}
         /\ \A k \in Held : h # k => UnitsOf(h[3]) \cap UnitsOf(k[3]) = {}
<1>1. Shares(ArrayUnits, FreeUnits(maps), Owned, Taken, Lost)
  BY DEF IInv, SharedOut
<1>2. /\ \A s \in Slots : segms[s] # NoSegm => Scattered(segms[s].exts)
      /\ Scattered(InProgress)
      /\ \A e, f \in leaked : e # f => UnitsOf(e) \cap UnitsOf(f) = {}
  BY DEF IInv, SharedOut
<1> DEFINE OfSlot(x, s, i) ==
             /\ s \in Slots /\ i \in 1 .. Len(segms[s].exts)
             /\ segms[s] # NoSegm /\ x = <<s, i, segms[s].exts[i]>>
           OfCall(x, i) == i \in 1 .. Len(InProgress) /\ x = <<"alloc", i, InProgress[i]>>
           OfNobody(x, e) == e \in leaked /\ x = <<"nobody", 0, e>>
<1>3. \A x \in Held : \/ \E s, i : OfSlot(x, s, i)
                      \/ \E i : OfCall(x, i)
                      \/ \E e : OfNobody(x, e)
  BY HeldFacts
<1>4. /\ \A x, s, i : OfSlot(x, s, i) => x[3] = segms[s].exts[i] /\ UnitsOf(x[3]) \subseteq Owned[s]
      /\ \A x, i : OfCall(x, i) => x[3] = InProgress[i] /\ UnitsOf(x[3]) \subseteq Taken
      /\ \A x, e : OfNobody(x, e) => x[3] = e /\ UnitsOf(x[3]) \subseteq Lost
  BY HeldFacts
<1>5. /\ \A x, y, s, i, t, j : OfSlot(x, s, i) /\ OfSlot(y, t, j) /\ x # y =>
           s # t \/ (s = t /\ i # j)
      /\ \A x, y, i, j : OfCall(x, i) /\ OfCall(y, j) /\ x # y => i # j
      /\ \A x, y, e, f : OfNobody(x, e) /\ OfNobody(y, f) /\ x # y => e # f
  OBVIOUS
<1>6. /\ \A x, s, i : OfSlot(x, s, i) => s \in Slots /\ segms[s] # NoSegm /\ i \in 1 .. Len(segms[s].exts)
      /\ \A x, i : OfCall(x, i) => i \in 1 .. Len(InProgress)
      /\ \A x, e : OfNobody(x, e) => e \in leaked
  OBVIOUS
<1> HIDE DEF OfSlot, OfCall, OfNobody
<1>7. UnitsOf(h[3]) \cap FreeUnits(maps) = {}
  <2>1. /\ \A s \in Slots : Owned[s] \cap FreeUnits(maps) = {}
        /\ FreeUnits(maps) \cap Taken = {} /\ FreeUnits(maps) \cap Lost = {}
    BY <1>1 DEF Shares
  <2>2. \/ \E s \in Slots : UnitsOf(h[3]) \subseteq Owned[s]
        \/ UnitsOf(h[3]) \subseteq Taken
        \/ UnitsOf(h[3]) \subseteq Lost
    BY <1>3, <1>4, <1>6
  <2> QED
    BY <2>1, <2>2
<1>8. ASSUME NEW k \in Held, h # k PROVE UnitsOf(h[3]) \cap UnitsOf(k[3]) = {}
  <2>1. /\ \A s \in Slots : Owned[s] \cap Taken = {} /\ Owned[s] \cap Lost = {}
        /\ \A s, t \in Slots : s # t => Owned[s] \cap Owned[t] = {}
        /\ Taken \cap Lost = {}
    BY <1>1 DEF Shares
  <2>2. ASSUME NEW s, NEW i, OfSlot(h, s, i), NEW t, NEW j, OfSlot(k, t, j)
        PROVE  UnitsOf(h[3]) \cap UnitsOf(k[3]) = {}
    <3>1. /\ UnitsOf(h[3]) \subseteq Owned[s] /\ UnitsOf(k[3]) \subseteq Owned[t]
          /\ s \in Slots /\ t \in Slots
          /\ h[3] = segms[s].exts[i] /\ k[3] = segms[t].exts[j]
          /\ i \in 1 .. Len(segms[s].exts) /\ j \in 1 .. Len(segms[t].exts)
      BY <1>4, <1>6, <2>2
    <3>2. CASE s # t
      BY <2>1, <3>1, <3>2
    <3>3. CASE s = t
      <4>1. i # j
        BY <1>5, <1>8, <2>2, <3>3
      <4> QED
        BY <1>2, <1>6, <2>2, <3>1, <3>3, <4>1 DEF Scattered
    <3> QED
      BY <3>2, <3>3
  <2>3. ASSUME NEW i, OfCall(h, i), NEW j, OfCall(k, j)
        PROVE  UnitsOf(h[3]) \cap UnitsOf(k[3]) = {}
    <3>1. i # j
      BY <1>5, <1>8, <2>3
    <3> QED
      <4>1. /\ i \in 1 .. Len(InProgress) /\ j \in 1 .. Len(InProgress)
            /\ h[3] = InProgress[i] /\ k[3] = InProgress[j]
        BY <1>4, <1>6, <2>3
      <4>2. UnitsOf(InProgress[i]) \cap UnitsOf(InProgress[j]) = {}
        BY ONLY <1>2, <3>1, <4>1 DEF Scattered
      <4> QED
        BY ONLY <4>1, <4>2
  <2>4. ASSUME NEW e, OfNobody(h, e), NEW f, OfNobody(k, f)
        PROVE  UnitsOf(h[3]) \cap UnitsOf(k[3]) = {}
    <3>1. e # f
      BY <1>5, <1>8, <2>4
    <3> QED
      BY <1>2, <1>4, <1>6, <2>4, <3>1
  <2>5. ASSUME NEW x \in Held, NEW y \in Held, NEW s, NEW i, OfSlot(x, s, i),
               (\E j : OfCall(y, j)) \/ (\E e : OfNobody(y, e))
        PROVE  UnitsOf(x[3]) \cap UnitsOf(y[3]) = {}
    <3>1. UnitsOf(x[3]) \subseteq Owned[s] /\ s \in Slots
      BY <1>4, <1>6, <2>5
    <3>2. UnitsOf(y[3]) \subseteq Taken \/ UnitsOf(y[3]) \subseteq Lost
      BY <1>4, <2>5
    <3> QED
      BY <2>1, <3>1, <3>2
  <2>6. ASSUME NEW x \in Held, NEW y \in Held, NEW i, OfCall(x, i), NEW e, OfNobody(y, e)
        PROVE  UnitsOf(x[3]) \cap UnitsOf(y[3]) = {}
    <3>1. UnitsOf(x[3]) \subseteq Taken /\ UnitsOf(y[3]) \subseteq Lost
      BY <1>4, <2>6
    <3> QED
      BY <2>1, <3>1
  <2>7. \A x, y \in Held : UnitsOf(x[3]) \cap UnitsOf(y[3]) = {} => UnitsOf(y[3]) \cap UnitsOf(x[3]) = {}
    OBVIOUS
  <2>8. CASE \E s, i : OfSlot(h, s, i)
    <3>1. CASE \E s, i : OfSlot(k, s, i)
      BY <2>2, <2>8, <3>1
    <3>2. CASE ~ \E s, i : OfSlot(k, s, i)
      BY <1>3, <2>5, <2>8, <3>2
    <3> QED
      BY <3>1, <3>2
  <2>9. CASE \E i : OfCall(h, i)
    <3>1. CASE \E s, i : OfSlot(k, s, i)
      BY <2>5, <2>7, <2>9, <3>1
    <3>2. CASE \E i : OfCall(k, i)
      BY <2>3, <2>9, <3>2
    <3>3. CASE \E e : OfNobody(k, e)
      BY <2>6, <2>9, <3>3
    <3> QED
      BY <1>3, <3>1, <3>2, <3>3
  <2>10. CASE \E e : OfNobody(h, e)
    <3>1. CASE \E s, i : OfSlot(k, s, i)
      BY <2>5, <2>7, <2>10, <3>1
    <3>2. CASE \E i : OfCall(k, i)
      BY <2>6, <2>7, <2>10, <3>2
    <3>3. CASE \E e : OfNobody(k, e)
      BY <2>4, <2>10, <3>3
    <3> QED
      BY <1>3, <3>1, <3>2, <3>3
  <2> QED
    BY <1>3, <2>8, <2>9, <2>10
<1> QED
  BY <1>7, <1>8

\* Nothing is given out twice, nothing disappears, and nothing is beyond the
\* end of the array, whatever alloc, dealloc, realloc, release and reopen do.
THEOREM NoSpaceIsLostOrShared == Spec => []SpaceIsPartitioned
<1>1. ASSUME IInv PROVE SpaceIsPartitioned
  <2>1. MapsFit(maps)
    BY <1>1 DEF IInv
  <2>2. IndexesAgreeIn(maps.fr_map) /\ ChunksDisjointIn(maps.fr_map) /\ BinsAgreeIn(maps.subfr_map)
    BY <2>1 DEF MapsFit, WellFormed, SubWellFormed
  <2>3. FreeUnits(maps) = FreeBlkUnits \cup FreeSubUnits
    BY DEF FreeUnits, SubUnits, FreeBlkUnits, FreeSubUnits
  <2>4. UnitsOfAll({h[3] : h \in Held}) = Taken \cup Lost \cup UNION {Owned[s] : s \in Slots}
    <3> DEFINE units == UnitsOfAll({h[3] : h \in Held})
    <3>1. \A h \in Held : UnitsOf(h[3]) \subseteq units
      BY DEF UnitsOfAll
    <3>2. \A u \in units : \E h \in Held : u \in UnitsOf(h[3])
      BY DEF UnitsOfAll
    <3> HIDE DEF units
    <3>3. ASSUME NEW u \in units PROVE u \in Taken \cup Lost \cup UNION {Owned[s] : s \in Slots}
      <4> PICK h \in Held : u \in UnitsOf(h[3])
        BY <3>2
      <4>1. CASE \E s \in Slots : \E i \in 1 .. Len(segms[s].exts) :
                   segms[s] # NoSegm /\ h = <<s, i, segms[s].exts[i]>>
        BY <1>1, <4>1, HeldFacts
      <4>2. CASE \E i \in 1 .. Len(InProgress) : h = <<"alloc", i, InProgress[i]>>
        BY <1>1, <4>2, HeldFacts
      <4>3. CASE \E e \in leaked : h = <<"nobody", 0, e>>
        BY <1>1, <4>3, HeldFacts
      <4> QED
        BY <1>1, <4>1, <4>2, <4>3, HeldFacts
    <3>4. ASSUME NEW s \in Slots, NEW u \in Owned[s] PROVE u \in units
      <4>1. segms[s] # NoSegm
        BY DEF Owned
      <4>2. PICK i \in 1 .. Len(segms[s].exts) : u \in UnitsOf(segms[s].exts[i])
        BY <1>1, <4>1, HeldFacts
      <4>3. <<s, i, segms[s].exts[i]>> \in Held
        BY <1>1, <4>1, HeldFacts
      <4> QED
        BY <3>1, <4>2, <4>3
    <3>5. ASSUME NEW u \in Taken PROVE u \in units
      <4>1. PICK i \in 1 .. Len(InProgress) : u \in UnitsOf(InProgress[i])
        BY <1>1, HeldFacts
      <4>2. <<"alloc", i, InProgress[i]>> \in Held
        BY <1>1, HeldFacts
      <4> QED
        BY <3>1, <4>1, <4>2
    <3>6. ASSUME NEW u \in Lost PROVE u \in units
      <4>1. PICK e \in leaked : u \in UnitsOf(e)
        BY DEF Lost, UnitsOfAll
      <4>2. <<"nobody", 0, e>> \in Held
        BY <1>1, HeldFacts
      <4> QED
        BY <3>1, <4>1, <4>2
    <3>7. units = Taken \cup Lost \cup UNION {Owned[s] : s \in Slots}
      BY <3>3, <3>4, <3>5, <3>6
    <3> QED
      BY <3>7 DEF units
  <2>5. ArrayUnits = UNION {FreeBlkUnits, FreeSubUnits, UnitsOfAll({h[3] : h \in Held})}
    <3>1. ArrayUnits = FreeUnits(maps) \cup Taken \cup Lost \cup UNION {Owned[s] : s \in Slots}
      BY <1>1 DEF IInv, SharedOut, Shares
    <3> DEFINE O == UNION {Owned[s] : s \in Slots}
               units == UnitsOfAll({h[3] : h \in Held})
    <3>2. ArrayUnits = FreeUnits(maps) \cup Taken \cup Lost \cup O /\ units = Taken \cup Lost \cup O
      BY <2>4, <3>1
    <3> HIDE DEF O, units
    <3>3. ArrayUnits = UNION {FreeBlkUnits, FreeSubUnits, units}
      BY <2>3, <3>2
    <3> QED
      BY <3>3 DEF units
  <2>6. FreeBlkUnits \cap FreeSubUnits = {}
    <3> SUFFICES ASSUME NEW u \in FreeBlkUnits, u \in FreeSubUnits PROVE FALSE
      OBVIOUS
    <3>1. PICK b \in BlkNrs : u \in {b} \X maps.subfr_map.fr_by_nr[b]
      BY DEF FreeSubUnits
    <3>2. b \in FreeBlksOf(maps.fr_map) /\ maps.subfr_map.fr_by_nr[b] # {}
      BY <3>1 DEF FreeBlkUnits
    <3> QED
      BY <2>1, <3>2 DEF MapsFit
  <2>7. \A h \in Held :
          /\ UnitsOf(h[3]) \cap (FreeBlkUnits \cup FreeSubUnits) = {}
          /\ \A k \in Held : h # k => UnitsOf(h[3]) \cap UnitsOf(k[3]) = {}
    BY <1>1, <2>3, HeldApart
  <2>8. Idle => Reclaimable(maps) = {}
    BY <1>1, IdleFacts
  <2> QED
    BY <2>2, <2>5, <2>6, <2>7, <2>8 DEF SpaceIsPartitioned
<1> QED
  BY <1>1, SpaceIsShared, PTL

\* After a release no free block is the last of the array, and no slack is left.
THEOREM ReleaseLeavesNoTail == Spec => ReleaseIsThorough
<1>1. IInv => [ReleaseSpace => /\ arr'.past_end - 1 \notin FreeBlksOf(maps'.fr_map)
                               /\ Slack(arr') = 0]_vars
  BY ReleaseSpaceFacts
<1> QED
  BY <1>1, SpaceIsShared, PTL DEF Spec, ReleaseIsThorough

-----------------------------------------------------------------------------
(* How few extents alloc gets *)

\* A division rounded up is the least number of parts, and no part of more
\* than d is needed.
LEMMA CeilDivFacts ==
  ASSUME NEW n \in Nat, NEW d \in Nat \ {0}
  PROVE  /\ CeilDiv(n, d) \in Nat
         /\ n <= d * CeilDiv(n, d)
         /\ \A k \in Nat : n <= d * k => CeilDiv(n, d) <= k
<1> DEFINE a == n + d - 1
           q == CeilDiv(n, d)
           r == a % d
<1>1. a \in Nat
  OBVIOUS
<1>2. r \in 0 .. d - 1 /\ q \in Nat /\ a = d * q + r
  BY <1>1, DivMod DEF CeilDiv
<1>3. a = n + d - 1
  OBVIOUS
<1> HIDE DEF a, q, r
<1>4. d * q \in Nat
  BY <1>2
<1>5. n <= d * q
  BY <1>2, <1>3, <1>4
<1>6. ASSUME NEW k \in Nat, n <= d * k PROVE q <= k
  <2> SUFFICES ASSUME k < q PROVE FALSE
    BY <1>2
  <2>1. PICK j \in Nat : q = k + 1 + j
    <3>1. q - k - 1 \in Nat /\ q = k + 1 + (q - k - 1)
      BY <1>2
    <3> QED
      BY <3>1
  <2>2. d * q = d * k + d + d * j /\ d * j \in Nat /\ d * k \in Nat
    BY <1>2, <2>1
  <2> QED
    BY <1>2, <1>3, <1>6, <2>2
<1> QED
  BY <1>2, <1>5, <1>6 DEF q

\* What that gives: zero, one part, a part more, more parts for more.
LEMMA CeilDivSteps ==
  ASSUME NEW d \in Nat \ {0}
  PROVE  /\ CeilDiv(0, d) = 0
         /\ \A n \in Nat : CeilDiv(n, d) \in Nat
         /\ \A n \in Nat : 0 < n /\ n <= d => CeilDiv(n, d) = 1
         /\ \A n \in Nat : CeilDiv(n + d, d) = CeilDiv(n, d) + 1
         /\ \A n, k \in Nat : n <= k => CeilDiv(n, d) <= CeilDiv(k, d)
         /\ \A n, k \in Nat : CeilDiv(n + k, d) <= CeilDiv(n, d) + k
<1> DEFINE c(n) == CeilDiv(n, d)
<1>1. \A n \in Nat : /\ c(n) \in Nat
                     /\ n <= d * c(n)
                     /\ \A k \in Nat : n <= d * k => c(n) <= k
  BY CeilDivFacts
<1>d. d * 0 = 0 /\ d * 1 = d
  OBVIOUS
<1> HIDE DEF c
<1>2. c(0) = 0
  BY <1>1, <1>d
<1>3. ASSUME NEW n \in Nat, 0 < n, n <= d PROVE c(n) = 1
  <2>1. c(n) \in Nat /\ n <= d * c(n) /\ c(n) <= 1
    BY <1>1, <1>3, <1>d
  <2>2. c(n) # 0
    BY <1>3, <1>d, <2>1
  <2> QED
    BY <2>1, <2>2
<1>4. ASSUME NEW n \in Nat PROVE c(n + d) = c(n) + 1
  <2>1. /\ c(n) \in Nat /\ c(n + d) \in Nat /\ n <= d * c(n) /\ n + d <= d * c(n + d)
        /\ \A k \in Nat : n <= d * k => c(n) <= k
        /\ \A k \in Nat : n + d <= d * k => c(n + d) <= k
    BY <1>1
  <2>2. PICK x \in Nat : x = c(n)
    BY <2>1
  <2>3. PICK y \in Nat : y = c(n + d)
    BY <2>1
  <2>4. d * (x + 1) = d * x + d /\ x + 1 \in Nat /\ d * x \in Nat
    OBVIOUS
  <2>5. y <= x + 1
    BY <2>1, <2>2, <2>3, <2>4
  <2>6. y # 0
    BY <1>d, <2>1, <2>3
  <2>7. y - 1 \in Nat /\ d * (y - 1) = d * y - d /\ d * y \in Nat
    BY <2>6
  <2>8. x <= y - 1
    BY <2>1, <2>2, <2>3, <2>7
  <2> QED
    BY <2>2, <2>3, <2>5, <2>8
<1>5. ASSUME NEW n \in Nat, NEW k \in Nat, n <= k PROVE c(n) <= c(k)
  <2>1. c(k) \in Nat /\ k <= d * c(k) /\ \A j \in Nat : n <= d * j => c(n) <= j
    BY <1>1
  <2>2. PICK x \in Nat : x = c(k)
    BY <2>1
  <2>3. n <= d * x
    <3>1. d * x \in Nat
      OBVIOUS
    <3> QED
      BY <1>5, <2>1, <2>2, <3>1
  <2> QED
    BY <2>1, <2>2, <2>3
<1>6. ASSUME NEW n \in Nat, NEW k \in Nat PROVE c(n + k) <= c(n) + k
  <2>1. c(n) \in Nat /\ n <= d * c(n) /\ \A j \in Nat : n + k <= d * j => c(n + k) <= j
    BY <1>1
  <2>2. PICK x \in Nat : x = c(n)
    BY <2>1
  <2>3. d * (x + k) = d * x + d * k /\ d * x \in Nat /\ d * k >= k /\ x + k \in Nat
    <3>1. PICK e \in Nat : d = e + 1
      <4>1. d - 1 \in Nat /\ d = (d - 1) + 1
        OBVIOUS
      <4> QED
        BY <4>1
    <3>2. (e + 1) * k = e * k + k /\ e * k \in Nat
      OBVIOUS
    <3> QED
      BY <3>1, <3>2
  <2>4. n + k <= d * (x + k)
    <3>1. d * k \in Nat
      OBVIOUS
    <3> QED
      BY <2>1, <2>2, <2>3, <3>1
  <2> QED
    BY <2>1, <2>2, <2>3, <2>4
<1> QED
  BY <1>1, <1>2, <1>3, <1>4, <1>5, <1>6 DEF c

\* A sum over the extents of what each one counts for, one extent more.
LEMMA SumAppends ==
  ASSUME NEW f \in [Extents -> Nat], NEW exts \in Seq(Extents), NEW e \in Extents
  PROVE  /\ SumOf([i \in DOMAIN exts |-> f[exts[i]]]) \in Nat
         /\ SumOf([i \in DOMAIN Append(exts, e) |-> f[Append(exts, e)[i]]])
              = SumOf([i \in DOMAIN exts |-> f[exts[i]]]) + f[e]
<1> DEFINE n == Len(exts)
           u == Append(exts, e)
           a == [i \in 1 .. n |-> f[exts[i]]]
           b == [i \in 1 .. n + 1 |-> f[u[i]]]
<1>1. /\ n \in Nat /\ DOMAIN exts = 1 .. n /\ \A i \in 1 .. n : exts[i] \in Extents
      /\ u \in Seq(Extents) /\ Len(u) = n + 1 /\ DOMAIN u = 1 .. n + 1
      /\ \A i \in 1 .. n : u[i] = exts[i]
      /\ u[n + 1] = e
  BY LenProperties, ElementOfSeq, AppendProperties
<1> HIDE DEF n, u
<1>2. \A i \in 1 .. n + 1 : i = n + 1 \/ i \in 1 .. n
  BY <1>1
<1>3. a \in [1 .. n -> Nat] /\ b \in [1 .. n + 1 -> Nat]
  BY <1>1, <1>2
<1>4. /\ \A i \in 1 .. n : b[i] = a[i]
      /\ b[n + 1] = f[e]
  <2>1. n + 1 \in 1 .. n + 1 /\ \A i \in 1 .. n : i \in 1 .. n + 1
    BY <1>1
  <2> QED
    BY <1>1, <2>1
<1>5. SumOf([i \in DOMAIN exts |-> f[exts[i]]]) = SumOf(a)
      /\ SumOf([i \in DOMAIN u |-> f[u[i]]]) = SumOf(b)
  BY <1>1
<1> HIDE DEF a, b
<1>6. a \in Seq(Nat) /\ Len(a) = n /\ b \in Seq(Nat) /\ Len(b) = n + 1
  <2>1. n + 1 \in Nat
    BY <1>1
  <2> QED
    BY <1>1, <1>3, <2>1, FunctionIsSeq
<1>7. f[e] \in Nat
  OBVIOUS
<1>8. b = a \o <<f[e]>>
  <2> DEFINE t == <<f[e]>>
  <2>1. t \in Seq(Nat) /\ Len(t) = 1 /\ t[1] = f[e]
    BY <1>7
  <2> HIDE DEF t
  <2>2. /\ a \o t \in Seq(Nat) /\ Len(a \o t) = n + 1
        /\ \A i \in 1 .. n + 1 : (a \o t)[i] = IF i <= n THEN a[i] ELSE t[i - n]
    <3>1. /\ a \o t \in Seq(Nat) /\ Len(a \o t) = Len(a) + Len(t)
          /\ \A i \in 1 .. Len(a) + Len(t) :
               (a \o t)[i] = IF i <= Len(a) THEN a[i] ELSE t[i - Len(a)]
      BY <1>6, <2>1, ConcatProperties
    <3>2. Len(a) = n /\ Len(t) = 1
      BY <1>6, <2>1
    <3> QED
      BY <3>1, <3>2
  <2>3. ASSUME NEW i \in 1 .. n + 1 PROVE (a \o t)[i] = b[i]
    <3>1. CASE i = n + 1
      <4>1. ~ (i <= n) /\ i - n = 1
        BY <1>1, <3>1
      <4> QED
        BY <1>4, <2>1, <2>2, <3>1, <4>1
    <3>2. CASE i \in 1 .. n
      <4>1. i <= n
        BY <1>1, <3>2
      <4> QED
        BY <1>4, <2>2, <3>2, <4>1
    <3> QED
      BY <1>2, <3>1, <3>2
  <2>4. b = a \o t
    BY <1>6, <2>2, <2>3, SeqEqual
  <2> QED
    BY <2>4 DEF t
<1>9. SumOf(a) \in Nat /\ SumOf(b) = SumOf(a) + f[e]
  <2>1. <<f[e]>> \in Seq(Nat) /\ SumOf(<<f[e]>>) = f[e]
    BY <1>7, SumOfFew
  <2> QED
    BY <1>6, <1>8, <2>1, SumConcat
<1> QED
  BY <1>5, <1>9 DEF u

\* The blocks and the extents for whole blocks of a sequence of extents, when
\* one is appended.
LEMMA CountsAppend ==
  ASSUME NEW exts \in Seq(Extents), NEW e \in Extents
  PROVE  /\ FullExtCnt(exts) \in Nat /\ FullBlkCnt(exts) \in Nat
         /\ FullExtCnt(Append(exts, e)) = FullExtCnt(exts) + (IF e.is_suballoc THEN 0 ELSE 1)
         /\ FullBlkCnt(Append(exts, e))
              = FullBlkCnt(exts) + (IF e.is_suballoc THEN 0 ELSE e.blk_cnt)
<1> DEFINE f == [x \in Extents |-> IF x.is_suballoc THEN 0 ELSE 1]
           g == [x \in Extents |-> IF x.is_suballoc THEN 0 ELSE x.blk_cnt]
<1>1. \A x \in Extents : ~ x.is_suballoc => x.blk_cnt \in Nat
  <2>1. \A x \in Extents : ~ x.is_suballoc => x \in FullExtents
    BY DEF Extents
  <2>2. BlkCnts \subseteq Nat
    BY ExtentAssumption DEF BlkCnts
  <2> QED
    BY <2>1, <2>2, FullExtentFacts
<1>2. f \in [Extents -> Nat] /\ g \in [Extents -> Nat]
  BY <1>1
<1>3. Append(exts, e) \in Seq(Extents)
  BY AppendProperties
<1>4. ASSUME NEW s \in Seq(Extents)
      PROVE  /\ FullExtCnt(s) = SumOf([i \in DOMAIN s |-> f[s[i]]])
             /\ FullBlkCnt(s) = SumOf([i \in DOMAIN s |-> g[s[i]]])
  <2>1. \A i \in DOMAIN s : s[i] \in Extents
    BY LenProperties, ElementOfSeq
  <2>2. /\ [i \in DOMAIN s |-> f[s[i]]] = [i \in DOMAIN s |-> IF s[i].is_suballoc THEN 0 ELSE 1]
        /\ [i \in DOMAIN s |-> g[s[i]]]
             = [i \in DOMAIN s |-> IF s[i].is_suballoc THEN 0 ELSE s[i].blk_cnt]
    BY <2>1
  <2> QED
    BY <2>2 DEF FullExtCnt, FullBlkCnt, Total
<1>5. /\ f[e] = IF e.is_suballoc THEN 0 ELSE 1
      /\ g[e] = IF e.is_suballoc THEN 0 ELSE e.blk_cnt
  OBVIOUS
<1> HIDE DEF f, g
<1>6. /\ FullExtCnt(exts) \in Nat /\ FullExtCnt(Append(exts, e)) = FullExtCnt(exts) + f[e]
  BY <1>2, <1>3, <1>4, SumAppends
<1>7. /\ FullBlkCnt(exts) \in Nat /\ FullBlkCnt(Append(exts, e)) = FullBlkCnt(exts) + g[e]
  BY <1>2, <1>3, <1>4, SumAppends
<1> QED
  BY <1>5, <1>6, <1>7

\* They are naturals.
LEMMA CountsAreNat ==
  ASSUME NEW exts \in Seq(Extents)
  PROVE  FullExtCnt(exts) \in Nat /\ FullBlkCnt(exts) \in Nat
<1>1. FullExtent(0, 1) \in FullExtents
  BY ExtentAssumption DEF FullExtent, FullExtents, BlkNrs, BlkCnts
<1>2. FullExtent(0, 1) \in Extents
  BY <1>1 DEF Extents
<1> QED
  BY <1>2, CountsAppend

\* No extent counts for nothing.
LEMMA NoCounts == FullExtCnt(<< >>) = 0 /\ FullBlkCnt(<< >>) = 0
<1>1. DOMAIN << >> = {}
  OBVIOUS
<1>2. /\ [i \in DOMAIN << >> |-> IF << >>[i].is_suballoc THEN 0 ELSE 1] = << >>
      /\ [i \in DOMAIN << >> |-> IF << >>[i].is_suballoc THEN 0 ELSE << >>[i].blk_cnt] = << >>
  BY <1>1
<1> QED
  BY <1>2, SumOfFew DEF FullExtCnt, FullBlkCnt, Total

\* What alloc has got: extents `exts` with `blks` blocks, `todo` blocks still to get.
\* While the array may not grow, either no probe was lowered yet, or a unit of
\* the threshold is gone for it.
FewWhileProbing(exts, blks, todo, probe, frag, threshold) ==
  /\ exts <= blks
  /\ frag <= threshold
  /\ \/ /\ exts = frag
        /\ exts + CeilDiv(todo, MaxBlkCnt) = CeilDiv(blks + todo, MaxBlkCnt)
        /\ probe = MaxBlkCnt \/ todo = 0
     \/ exts < frag

\* Later, what it will have got is few enough.
FewEnough(exts, blks, todo, small) ==
  /\ exts <= blks
  /\ blks + todo >= small =>
       exts + CeilDiv(todo, MaxBlkCnt) <= small + CeilDiv((blks + todo) - small, MaxBlkCnt)

Lesser(a, b) == IF a < b THEN a ELSE b
SmallsOf(threshold) == IF threshold = 0 THEN 0 ELSE threshold - 1

LEMMA FewNumbers ==
  ASSUME NEW exts \in Nat, NEW blks \in Nat, NEW todo \in Nat, NEW probe \in BlkCnts \ {0},
         NEW frag \in Nat, NEW threshold \in Nat
  PROVE  LET got == Lesser(probe, todo)
             small == SmallsOf(threshold)
         IN  /\ FewWhileProbing(exts, blks, todo, probe, frag, threshold)
                /\ todo > 0 /\ frag < threshold =>
                  FewWhileProbing(exts + 1, blks + got, todo - got, got, frag + 1, threshold)
             /\ FewWhileProbing(exts, blks, todo, probe, frag, threshold) /\ frag < threshold =>
                  \A p : FewWhileProbing(exts, blks, todo, p, frag + 1, threshold)
             /\ FewWhileProbing(exts, blks, todo, probe, frag, threshold) =>
                  FewEnough(exts, blks, todo, small)
             /\ FewEnough(exts, blks, todo, small) /\ todo > 0 /\ probe = MaxBlkCnt =>
                  /\ FewEnough(exts + 1, blks + got, todo - got, small)
                  /\ got = MaxBlkCnt \/ todo - got = 0
<1> DEFINE M == MaxBlkCnt
           c(n) == CeilDiv(n, M)
           got == Lesser(probe, todo)
           small == SmallsOf(threshold)
<1>1. M \in Nat \ {0} /\ probe \in Nat /\ probe > 0
  BY ExtentAssumption DEF BlkCnts
<1>2. /\ c(0) = 0
      /\ \A n \in Nat : c(n) \in Nat
      /\ \A n \in Nat : 0 < n /\ n <= M => c(n) = 1
      /\ \A n \in Nat : c(n + M) = c(n) + 1
      /\ \A n, k \in Nat : n <= k => c(n) <= c(k)
      /\ \A n, k \in Nat : c(n + k) <= c(n) + k
  BY <1>1, CeilDivSteps
<1>3. todo > 0 => /\ got \in Nat /\ got > 0 /\ got <= todo /\ todo - got \in Nat
                  /\ blks + got + (todo - got) = blks + todo
                  /\ probe = M => got = M \/ todo - got = 0
  BY <1>1 DEF Lesser
<1>4. small \in Nat /\ (threshold > 0 => small = threshold - 1) /\ (threshold = 0 => small = 0)
  BY DEF SmallsOf
\* A block count as large as it can be, or the last one, is one part less.
<1>5. ASSUME todo > 0, probe = M PROVE c(todo) = 1 + c(todo - got)
  <2>1. CASE todo < M
    <3>1. got = todo /\ todo - got = 0
      BY <1>1, <1>5, <2>1 DEF Lesser
    <3>2. c(todo) = 1
      <4> HIDE DEF M, c
      <4> QED
        BY <1>1, <1>2, <1>5, <2>1
    <3> QED
      BY <1>2, <3>1, <3>2
  <2>2. CASE ~ (todo < M)
    <3>1. got = M /\ todo - M \in Nat /\ (todo - M) + M = todo
      BY <1>1, <1>5, <2>2 DEF Lesser
    <3>2. c(todo) = c(todo - M) + 1
      BY <1>2, <3>1
    <3>3. c(todo - M) \in Nat
      BY <1>2, <3>1
    <3> QED
      BY <3>1, <3>2, <3>3
  <2> QED
    BY <2>1, <2>2
<1> HIDE DEF M, c, got, small
<1>6. ASSUME FewWhileProbing(exts, blks, todo, probe, frag, threshold), todo > 0, frag < threshold
      PROVE  FewWhileProbing(exts + 1, blks + got, todo - got, got, frag + 1, threshold)
  <2>1. /\ exts <= blks
        /\ \/ exts = frag /\ exts + c(todo) = c(blks + todo) /\ (probe = M \/ todo = 0)
           \/ exts < frag
    BY <1>6 DEF FewWhileProbing, c, M
  <2>2. exts + 1 <= blks + got /\ frag + 1 <= threshold
    BY <1>3, <1>6, <2>1
  <2>3. \/ /\ exts + 1 = frag + 1
           /\ (exts + 1) + c(todo - got) = c((blks + got) + (todo - got))
           /\ got = M \/ todo - got = 0
        \/ exts + 1 < frag + 1
    <3>1. CASE exts < frag
      BY <3>1
    <3>2. CASE exts = frag /\ exts + c(todo) = c(blks + todo) /\ probe = M
      <4>1. c(todo) = 1 + c(todo - got) /\ c(todo - got) \in Nat
        BY <1>2, <1>3, <1>5, <1>6, <3>2
      <4>2. (exts + 1) + c(todo - got) = c(blks + todo)
        BY <3>2, <4>1
      <4> QED
        BY <1>3, <1>6, <3>2, <4>2
    <3> QED
      BY <1>6, <2>1, <3>1, <3>2
  <2> QED
    BY <2>2, <2>3 DEF FewWhileProbing, c, M
<1>7. ASSUME FewWhileProbing(exts, blks, todo, probe, frag, threshold), frag < threshold, NEW p
      PROVE  FewWhileProbing(exts, blks, todo, p, frag + 1, threshold)
  BY <1>7 DEF FewWhileProbing
<1>8. ASSUME FewWhileProbing(exts, blks, todo, probe, frag, threshold)
      PROVE  FewEnough(exts, blks, todo, small)
  <2>1. /\ exts <= blks /\ frag <= threshold
        /\ \/ exts = frag /\ exts + c(todo) = c(blks + todo)
           \/ exts < frag
    BY <1>8 DEF FewWhileProbing, c, M
  <2>2. ASSUME blks + todo >= small
        PROVE  exts + c(todo) <= small + c((blks + todo) - small)
    <3> DEFINE left == (blks + todo) - small
    <3>1. left \in Nat /\ left + small = blks + todo
      BY <1>4, <2>2
    <3> HIDE DEF left
    <3>2. CASE exts + c(todo) = c(blks + todo)
      <4>1. c(left + small) <= c(left) + small /\ c(left) \in Nat
        BY <1>2, <1>4, <3>1
      <4>2. exts + c(todo) <= c(left) + small
        BY <3>1, <3>2, <4>1
      <4> QED
        BY <1>4, <4>1, <4>2 DEF left
    <3>3. CASE exts < frag
      <4>1. exts <= small /\ small - exts \in Nat
        BY <1>4, <2>1, <3>3
      <4>2. PICK k \in Nat : k = small - exts
        BY <4>1
      <4>3. todo <= left + k
        BY <1>4, <2>1, <3>1, <4>2
      <4>4. c(todo) <= c(left + k) /\ c(left + k) <= c(left) + k
        BY <1>2, <3>1, <4>2, <4>3
      <4>5. c(todo) \in Nat /\ c(left) \in Nat /\ c(left + k) \in Nat
        <5>1. left + k \in Nat
          BY <3>1
        <5> QED
          BY <1>2, <3>1, <5>1
      <4>6. exts + c(todo) <= small + c(left)
        BY <1>4, <4>2, <4>4, <4>5
      <4> QED
        BY <4>6 DEF left
    <3> QED
      BY <2>1, <3>2, <3>3
  <2> QED
    BY <2>1, <2>2 DEF FewEnough, c, M
<1>9. ASSUME FewEnough(exts, blks, todo, small), todo > 0, probe = M
      PROVE  /\ FewEnough(exts + 1, blks + got, todo - got, small)
             /\ got = M \/ todo - got = 0
  <2>1. /\ exts <= blks
        /\ blks + todo >= small => exts + c(todo) <= small + c((blks + todo) - small)
    BY <1>9 DEF FewEnough, c, M
  <2>2. c(todo) = 1 + c(todo - got) /\ c(todo - got) \in Nat
    BY <1>2, <1>3, <1>5, <1>9
  <2>3. blks + got + (todo - got) = blks + todo /\ exts + 1 <= blks + got
    BY <1>3, <1>9, <2>1
  <2>4. exts + 1 + c(todo - got) = exts + c(todo)
    BY <2>2
  <2>5. /\ exts + 1 <= blks + got
        /\ (blks + got + (todo - got)) >= small =>
             exts + 1 + c(todo - got) <= small + c((blks + got + (todo - got)) - small)
    <3> DEFINE all == blks + got + (todo - got)
               left == c(todo - got)
    <3>1. all = blks + todo /\ (exts + 1) + left = exts + c(todo)
      BY <2>3, <2>4
    <3> HIDE DEF all, left
    <3>2. all >= small => (exts + 1) + left <= small + c(all - small)
      BY <2>1, <3>1
    <3> QED
      BY <2>3, <3>2 DEF all, left
  <2>6. FewEnough(exts + 1, blks + got, todo - got, small)
    BY <2>5 DEF FewEnough, c, M
  <2> QED
    BY <1>3, <1>9, <2>6
<1> QED
  BY <1>6, <1>7, <1>8, <1>9 DEF got, small, M

(***************************************************************************)
(* The invariant of the loops of alloc: what it has got and has yet to get *)
(* is few. An alloc in a single extent has no extent yet, or that one.     *)
(***************************************************************************)
IsSingle(pc, todo, exts, frag) ==
  /\ todo.subblk_cnt = 0
  /\ \/ exts = << >> /\ todo.blk_cnt > 0 /\ (pc = "may_grow" => frag = 0)
     \/ Len(exts) = 1 /\ frag = 1 /\ pc # "no_grow"

FrugalFrame(pc, req, todo, exts, probe, frag) ==
  /\ pc = "no_grow" =>
       FewWhileProbing(FullExtCnt(exts), FullBlkCnt(exts), todo.blk_cnt, probe, frag,
                       req.segm_frag_threshold)
  /\ pc # "no_grow" =>
       FewEnough(FullExtCnt(exts), FullBlkCnt(exts), todo.blk_cnt,
                 SmallsOf(req.segm_frag_threshold))
  /\ pc = "may_grow" => probe = MaxBlkCnt \/ todo.blk_cnt = 0
  /\ req.single_extent => IsSingle(pc, todo, exts, frag)

Frugal ==
  ~ Idle => FrugalFrame(call.pc, call.req, call.todo, call.exts, call.probe, call.frag)

\* The requirements of an alloc.
LEMMA ReqFacts ==
  ASSUME NEW req \in Reqs
  PROVE  /\ req.segm_frag_threshold \in Nat /\ req.max_inline_sz \in Nat
         /\ req.allow_suballoc \in BOOLEAN /\ req.single_extent \in BOOLEAN
         /\ req.single_extent =>
              ~ req.allow_suballoc /\ req.segm_frag_threshold = 1 /\ req.max_inline_sz = 0
BY SegmentAllocatorAssumption

\* An alloc in a single extent plans to get whole blocks only.
LEMMA SinglePlan ==
  ASSUME NEW sz \in Nat, sz # 0, NEW req \in Reqs, req.single_extent
  PROVE  Plan(sz, req).subblk_cnt = 0 /\ Plan(sz, req).blk_cnt > 0
<1> DEFINE Q == sz \div BlkSz
           rest == sz % BlkSz
           up == IF rest > 0 THEN 1 ELSE 0
<1>1. ~ req.allow_suballoc /\ req.max_inline_sz = 0
  BY ReqFacts
<1>2. BlkSz \in Nat \ {0} /\ SubblkCntPerBlk \in Nat \ {0}
  BY SubblkSzFacts
<1>3. rest \in 0 .. BlkSz - 1 /\ Q \in Nat /\ sz = BlkSz * Q + rest
  BY <1>2, DivMod
<1>4. Plan(sz, req).subblk_cnt = 0 /\ Plan(sz, req).blk_cnt = Q + up + 0
  BY <1>1, <1>2 DEF Plan
<1> HIDE DEF Q, rest
<1>5. Q + up + 0 > 0
  <2>1. CASE Q = 0
    <3>1. BlkSz * Q = 0
      BY <1>2, <2>1
    <3> QED
      BY <1>3, <2>1, <3>1
  <2>2. CASE Q # 0
    BY <1>3, <2>2
  <2> QED
    BY <2>1, <2>2
<1> QED
  BY <1>4, <1>5

\* A call starts with nothing.
LEMMA FrameIsFrugal ==
  ASSUME NEW op, NEW slot, NEW kept, NEW wanted, NEW req \in Reqs,
         wanted - SegmSz(kept) \in Nat,
         req.single_extent => wanted - SegmSz(kept) # 0,
         call' = Frame(op, slot, kept, wanted, req)
  PROVE  Frugal'
<1> DEFINE sz == wanted - SegmSz(kept)
           todo == Plan(sz, req)
<1>1. sz \in Nat
  OBVIOUS
<1>2. todo \in Todos /\ todo.blk_cnt \in Nat
  BY <1>1, PlanFacts DEF Todos
<1>3. req.single_extent => todo.subblk_cnt = 0 /\ todo.blk_cnt > 0
  BY <1>1, SinglePlan
<1> HIDE DEF todo
<1>4. /\ call'.pc = "no_grow" /\ call'.req = req /\ call'.todo = todo
      /\ call'.exts = << >> /\ call'.probe = MaxBlkCnt /\ call'.frag = 0
  BY DEF Frame, todo
<1>5. FewWhileProbing(0, 0, todo.blk_cnt, MaxBlkCnt, 0, req.segm_frag_threshold)
  <2>1. req.segm_frag_threshold \in Nat
    BY ReqFacts
  <2>2. CeilDiv(todo.blk_cnt, MaxBlkCnt) \in Nat /\ 0 + todo.blk_cnt = todo.blk_cnt
    BY <1>2, CeilDivSteps, ExtentAssumption
  <2> QED
    BY <2>1, <2>2 DEF FewWhileProbing
<1>6. FrugalFrame("no_grow", req, todo, << >>, MaxBlkCnt, 0)
  BY <1>3, <1>5, NoCounts DEF FrugalFrame, IsSingle
<1> QED
  BY <1>4, <1>6 DEF Frugal

\* The calls of the user.
LEMMA UserCallIsFrugal ==
  ASSUME IInv, UserCall
  PROVE  Frugal'
<1>1. ASSUME NEW slot \in Slots, NEW sz \in Sizes, NEW req \in Reqs, CallAlloc(slot, sz, req)
      PROVE  Frugal'
  <2>1. /\ req.single_extent => sz # 0
        /\ call' = Frame("alloc", slot, EmptySegm, sz, req)
    BY <1>1 DEF CallAlloc
  <2>2. SegmSz(EmptySegm) = 0
    <3>1. SegmSz(EmptySegm) = ExtsSz(<< >>) + 0
      BY DEF SegmSz, EmptySegm
    <3> QED
      BY <3>1, ExtsSzOfFew
  <2>3. sz - SegmSz(EmptySegm) = sz /\ sz \in Nat
    BY <2>2, SegmentAllocatorAssumption
  <2> QED
    BY <2>1, <2>3, FrameIsFrugal
<1>2. ASSUME NEW slot \in Slots, NEW sz \in Sizes, NEW req \in Reqs,
             ~ req.single_extent, ReallocExpands(slot, sz, req)
      PROVE  Frugal'
  <2> DEFINE kept == Kept(segms[slot])
  <2>1. /\ segms[slot] # NoSegm /\ SegmSz(segms[slot]) < sz
        /\ call' = Frame("expand", slot, kept, sz, req)
    BY <1>2 DEF ReallocExpands
  <2>2. sz \in Nat /\ SegmSz(kept) \in Nat /\ SegmSz(segms[slot]) \in Nat
        /\ SegmSz(kept) <= SegmSz(segms[slot])
    BY <2>1, SegmFacts, KeptFacts, SegmentAllocatorAssumption
  <2>3. sz - SegmSz(kept) \in Nat
    BY <2>1, <2>2
  <2> QED
    BY <1>2, <2>1, <2>3, FrameIsFrugal
<1>3. ASSUME NEW slot \in Slots, NEW sz \in Sizes, NEW req \in Reqs,
             ~ req.single_extent, ReallocShrinks(slot, sz, req)
      PROVE  Frugal'
  <2> DEFINE s == segms[slot]
             fits == {n \in 0 .. Len(s.exts) : ExtsSz(SubSeq(s.exts, 1, n)) <= sz}
             cnt == CHOOSE n \in fits : \A k \in fits : k <= n
             first == SubSeq(s.exts, 1, cnt)
             kept == [exts |-> first, inline_sz |-> 0]
  <2>1. /\ Idle /\ s # NoSegm
        /\ UNCHANGED call \/ call' = Frame("shrink", slot, kept, sz, req)
    BY <1>3 DEF ReallocShrinks, MayOperate
  <2>2. /\ s.exts \in Seq(Extents) /\ sz \in Nat
    BY <2>1, SegmFacts, SegmentAllocatorAssumption
  <2>3. cnt \in 0 .. Len(s.exts) /\ ExtsSz(first) <= sz
    BY <2>2, FittingExts
  <2> HIDE DEF cnt
  <2>4. first \in Seq(Extents)
    BY <2>2, <2>3, CutInTwo
  <2>5. ExtsSz(first) \in Nat
    BY <2>4, ExtsSzConcat
  <2>6. SegmSz(kept) = ExtsSz(first) + 0
    BY DEF SegmSz
  <2>7. sz - SegmSz(kept) \in Nat
    BY <2>2, <2>3, <2>5, <2>6
  <2> HIDE DEF kept
  <2>8. CASE UNCHANGED call
    BY <2>1, <2>8 DEF Frugal, Idle
  <2>9. CASE call' = Frame("shrink", slot, kept, sz, req)
    BY <1>3, <2>7, <2>9, FrameIsFrugal
  <2> QED
    BY <2>1, <2>8, <2>9
<1>4. ASSUME Idle, UNCHANGED call PROVE Frugal'
  BY <1>4 DEF Frugal, Idle
<1>5. ASSUME NEW slot \in Slots, NEW sz \in Sizes,
             DeallocSegm(slot) \/ ReallocCutsInline(slot, sz)
      PROVE  Frugal'
  BY <1>4, <1>5 DEF DeallocSegm, ReallocCutsInline, MayOperate
<1>6. CASE ReleaseSpace \/ Reset \/ BlockOps \/ UnblockOps \/ Reopen
  BY <1>4, <1>6 DEF ReleaseSpace, Reset, BlockOps, UnblockOps, Reopen, MayOperate
<1>7. ASSUME NEW slot \in Slots, DeallocSegm(slot) PROVE Frugal'
  BY <1>4, <1>7 DEF DeallocSegm, MayOperate
<1> QED
  BY <1>1, <1>2, <1>3, <1>5, <1>6, <1>7 DEF UserCall

\* What the step makes of the frame is what has to be few.
LEMMA FrameWithIsFrugal ==
  ASSUME NEW pc, NEW todo, NEW exts, NEW probe, NEW frag,
         call' = FrameWith(pc, todo, exts, probe, frag),
         FrugalFrame(pc, call.req, todo, exts, probe, frag)
  PROVE  Frugal'
<1>1. /\ call'.pc = pc /\ call'.req = call.req /\ call'.todo = todo
      /\ call'.exts = exts /\ call'.probe = probe /\ call'.frag = frag
  BY DEF FrameWith
<1> QED
  BY <1>1 DEF Frugal

\* A probe succeeds.
LEMMA TakesFromIsFrugal ==
  ASSUME IInv, Frugal, MayNotGrow \/ MayGrow,
         NEW p \in Usable(maps.fr_map, Probe), TakesFrom(p)
  PROVE  Frugal'
<1> DEFINE e == FullExtent(p[2], Probe)
           todo == [call.todo EXCEPT !.blk_cnt = @ - Probe]
           exts == call.exts
           F == FullExtCnt(exts)
           D == FullBlkCnt(exts)
           T == call.todo.blk_cnt
           R == call.req.segm_frag_threshold
           S == SmallsOf(R)
           U == Append(exts, e)
<1>1. /\ ~ Idle /\ T > 0
      /\ \/ call.pc = "no_grow" /\ ~ call.req.single_extent /\ call.frag < R
         \/ call.pc = "may_grow" /\ (call.req.single_extent => call.frag < R)
  BY DEF MayNotGrow, MayGrow, Idle, Threshold
<1>2. /\ call \in Frames /\ exts \in Seq(Extents) /\ call.frag \in Nat
      /\ call.todo \in Todos /\ Probe \in BlkCnts \ {0} /\ Probe <= T
      /\ call.probe \in BlkCnts \ {0} /\ T \in Nat /\ Probe \in Nat
      /\ call.req \in Reqs
  BY <1>1, CallFacts
<1>3. e \in Extents /\ e.is_suballoc = FALSE /\ e.blk_cnt = Probe
  <2>1. MapsFit(maps)
    BY DEF IInv
  <2>2. e \in Extents
    BY <1>2, <2>1, AllocFromFits
  <2> QED
    BY <2>2 DEF FullExtent
<1>4. /\ todo.blk_cnt = T - Probe /\ todo.subblk_cnt = call.todo.subblk_cnt
  BY <1>2 DEF Todos
<1>5. call' = FrameWith(call.pc, todo, U, Probe, call.frag + 1)
  <2>1. call' = [call EXCEPT !.exts = Append(@, e), !.todo.blk_cnt = @ - Probe,
                             !.probe = Probe, !.frag = @ + 1]
    BY DEF TakesFrom
  <2> QED
    BY <1>2, <2>1 DEF FrameWith, Frames
<1> HIDE DEF todo, e
<1>6. /\ F \in Nat /\ D \in Nat
      /\ FullExtCnt(U) = F + 1 /\ FullBlkCnt(U) = D + Probe
  BY <1>2, <1>3, CountsAppend
<1>7. Len(U) = Len(exts) + 1
  BY <1>2, <1>3, AppendProperties
<1>8. R \in Nat /\ (call.req.single_extent => R = 1)
  BY <1>2, ReqFacts
<1>9. Probe = Lesser(call.probe, T)
  BY DEF Probe, Lesser
<1>10. FrugalFrame(call.pc, call.req, call.todo, exts, call.probe, call.frag)
  BY <1>1 DEF Frugal
<1> HIDE DEF F, D, T, R, U, exts
<1>11. FrugalFrame(call.pc, call.req, todo, U, Probe, call.frag + 1)
  <2>1. CASE call.pc = "no_grow"
    <3>1. FewWhileProbing(F, D, T, call.probe, call.frag, R)
      BY <1>10, <2>1 DEF FrugalFrame, F, D, T, R
    <3>2. FewWhileProbing(F + 1, D + Probe, T - Probe, Probe, call.frag + 1, R)
      BY <1>1, <1>2, <1>6, <1>8, <1>9, <2>1, <3>1, FewNumbers
    <3> QED
      BY <1>1, <1>4, <1>6, <2>1, <3>2 DEF FrugalFrame, R
  <2>2. CASE call.pc = "may_grow"
    <3>1. FewEnough(F, D, T, S) /\ call.probe = MaxBlkCnt
      BY <1>1, <1>2, <1>10, <2>2 DEF FrugalFrame, F, D, T, R
    <3>2. FewEnough(F + 1, D + Probe, T - Probe, S) /\ (Probe = MaxBlkCnt \/ T - Probe = 0)
      <4>1. /\ F \in Nat /\ D \in Nat /\ T \in Nat /\ call.probe \in BlkCnts \ {0}
            /\ call.frag \in Nat /\ R \in Nat
            /\ FewEnough(F, D, T, S) /\ T > 0 /\ call.probe = MaxBlkCnt
        BY <1>1, <1>2, <1>6, <1>8, <3>1
      <4> DEFINE q == call.probe
                 g == call.frag
      <4> HIDE DEF q, g, S
      <4>2. LET got == Lesser(q, T)
            IN  FewEnough(F + 1, D + got, T - got, S) /\ (got = MaxBlkCnt \/ T - got = 0)
        BY ONLY <4>1, FewNumbers DEF q, g, S
      <4> QED
        BY ONLY <4>2, <1>9 DEF q
    <3>3. ASSUME call.req.single_extent
          PROVE  IsSingle(call.pc, todo, U, call.frag + 1)
      <4>1. IsSingle(call.pc, call.todo, exts, call.frag)
        BY <1>10, <3>3 DEF FrugalFrame
      <4>2. call.frag < 1
        BY <1>1, <1>8, <2>2, <3>3
      <4>3. call.frag = 0 /\ exts = << >> /\ call.todo.subblk_cnt = 0
        BY <1>2, <4>1, <4>2 DEF IsSingle
      <4>4. Len(U) = 1
        BY <1>7, <4>3
      <4> QED
        BY <1>4, <2>2, <4>3, <4>4 DEF IsSingle
    <3> QED
      BY <1>4, <1>6, <2>2, <3>2, <3>3 DEF FrugalFrame, R
  <2> QED
    BY <1>1, <2>1, <2>2
<1> QED
  BY <1>5, <1>11, FrameWithIsFrugal

\* A probe fails, and uses up one of the threshold.
LEMMA ProbesLessIsFrugal ==
  ASSUME IInv, Frugal, ProbesLess
  PROVE  Frugal'
<1> DEFINE closest == ClosestBlkCnt(maps.fr_map, Probe)
           exts == call.exts
           F == FullExtCnt(exts)
           D == FullBlkCnt(exts)
           T == call.todo.blk_cnt
           R == call.req.segm_frag_threshold
<1>1. /\ ~ Idle /\ call.pc = "no_grow" /\ ~ call.req.single_extent /\ call.frag < R
      /\ call' = [call EXCEPT !.probe = closest, !.frag = @ + 1]
  BY DEF ProbesLess, MayNotGrow, Idle, Threshold
<1> HIDE DEF closest
<1>2. /\ call \in Frames /\ exts \in Seq(Extents) /\ call.frag \in Nat
      /\ call.probe \in BlkCnts \ {0} /\ T \in Nat /\ call.req \in Reqs
  BY <1>1, CallFacts
<1>3. call' = FrameWith(call.pc, call.todo, exts, closest, call.frag + 1)
  BY <1>1, <1>2 DEF FrameWith, Frames
<1>4. F \in Nat /\ D \in Nat
  BY <1>2, CountsAreNat
<1>5. R \in Nat
  BY <1>2, ReqFacts
<1>6. FewWhileProbing(F, D, T, call.probe, call.frag, R)
  BY <1>1 DEF Frugal, FrugalFrame
<1> HIDE DEF F, D, T, R
<1>7. FewWhileProbing(F, D, T, closest, call.frag + 1, R)
  BY <1>1, <1>2, <1>4, <1>5, <1>6, FewNumbers
<1>8. FrugalFrame(call.pc, call.req, call.todo, exts, closest, call.frag + 1)
  BY <1>1, <1>7 DEF FrugalFrame, F, D, T, R
<1> QED
  BY <1>3, <1>8, FrameWithIsFrugal

\* alloc stops looking for free chunks only.
LEMMA FreeExhaustedIsFrugal ==
  ASSUME IInv, Frugal, FreeExhausted
  PROVE  Frugal'
<1> DEFINE exts == call.exts
           frag == IF Len(exts) <= 1 THEN 0 ELSE Len(exts) - 1
           F == FullExtCnt(exts)
           D == FullBlkCnt(exts)
           T == call.todo.blk_cnt
           R == call.req.segm_frag_threshold
<1>1. /\ ~ Idle /\ call.pc = "no_grow"
      /\ call' = [call EXCEPT !.pc = "may_grow", !.probe = MaxBlkCnt, !.frag = frag]
  BY DEF FreeExhausted, Idle
<1>2. /\ call \in Frames /\ exts \in Seq(Extents) /\ call.frag \in Nat
      /\ call.probe \in BlkCnts \ {0} /\ T \in Nat /\ call.req \in Reqs
  BY <1>1, CallFacts
<1>3. exts = << >> => frag = 0
  OBVIOUS
<1> HIDE DEF frag
<1>4. call' = FrameWith("may_grow", call.todo, exts, MaxBlkCnt, frag)
  BY <1>1, <1>2 DEF FrameWith, Frames
<1>5. F \in Nat /\ D \in Nat
  BY <1>2, CountsAreNat
<1>6. R \in Nat
  BY <1>2, ReqFacts
<1>7. /\ FewWhileProbing(F, D, T, call.probe, call.frag, R)
      /\ call.req.single_extent => IsSingle("no_grow", call.todo, exts, call.frag)
  BY <1>1 DEF Frugal, FrugalFrame
<1> HIDE DEF F, D, T, R
<1>8. FewEnough(F, D, T, SmallsOf(R))
  BY <1>2, <1>5, <1>6, <1>7, FewNumbers
<1>9. call.req.single_extent => IsSingle("may_grow", call.todo, exts, frag)
  BY <1>3, <1>7 DEF IsSingle
<1>10. FrugalFrame("may_grow", call.req, call.todo, exts, MaxBlkCnt, frag)
  BY <1>8, <1>9 DEF FrugalFrame, F, D, T, R
<1> QED
  BY <1>4, <1>10, FrameWithIsFrugal

\* alloc has its whole blocks.
LEMMA BlksAllocatedIsFrugal ==
  ASSUME IInv, Frugal, BlksAllocated
  PROVE  Frugal'
<1>1. /\ ~ Idle /\ call.pc = "may_grow" /\ call.todo.blk_cnt = 0
      /\ call' = [call EXCEPT !.pc = "subblks"]
  BY DEF BlksAllocated, Idle
<1>2. call \in Frames
  BY <1>1, CallFacts
<1>3. call' = FrameWith("subblks", call.todo, call.exts, call.probe, call.frag)
  BY <1>1, <1>2 DEF FrameWith, Frames
<1>4. FrugalFrame("may_grow", call.req, call.todo, call.exts, call.probe, call.frag)
  BY <1>1 DEF Frugal
<1>5. FrugalFrame("subblks", call.req, call.todo, call.exts, call.probe, call.frag)
  BY <1>1, <1>4 DEF FrugalFrame, IsSingle
<1> QED
  BY <1>3, <1>5, FrameWithIsFrugal

\* The extent for subblocks is not one of those that count.
LEMMA TakesSubblksIsFrugal ==
  ASSUME IInv, Frugal, TakesSubblks
  PROVE  Frugal'
<1> DEFINE cnt == call.todo.subblk_cnt
           todo == [call.todo EXCEPT !.subblk_cnt = 0]
<1> PICK x \in UsableBlk(maps.subfr_map, cnt) :
       call' = [call EXCEPT !.exts = Append(@, SubExtent(x[1], TakenBits(x[2], cnt))),
                            !.todo.subblk_cnt = 0]
  BY DEF TakesSubblks
<1> DEFINE e == SubExtent(x[1], TakenBits(x[2], cnt))
<1>1. ~ Idle /\ call.pc = "subblks" /\ cnt > 0
  BY DEF TakesSubblks, NeedsSubblks, Idle
<1>2. /\ call \in Frames /\ call.exts \in Seq(Extents) /\ call.todo \in Todos
      /\ cnt \in 0 .. SubblkCntPerBlk - 1
  BY <1>1, CallFacts
<1>3. e \in Extents /\ e.is_suballoc
  <2>1. SubWellFormed(maps.subfr_map) /\ cnt \in 1 .. SubblkCntPerBlk /\ MapsFit(maps)
    BY <1>1, <1>2, ExtentAssumption DEF IInv, MapsFit
  <2>2. e \in Extents
    BY <2>1, AllocFromBlkFits
  <2> QED
    BY <2>2 DEF SubExtent
<1>4. todo.blk_cnt = call.todo.blk_cnt
  BY <1>2 DEF Todos
<1> HIDE DEF e
<1>5. call' = FrameWith("subblks", todo, Append(call.exts, e), call.probe, call.frag)
  BY <1>1, <1>2 DEF FrameWith, Frames, e
<1> HIDE DEF todo
<1>6. /\ FullExtCnt(Append(call.exts, e)) = FullExtCnt(call.exts)
      /\ FullBlkCnt(Append(call.exts, e)) = FullBlkCnt(call.exts)
  BY <1>2, <1>3, CountsAppend
<1>7. FrugalFrame("subblks", call.req, call.todo, call.exts, call.probe, call.frag)
  BY <1>1 DEF Frugal
<1>8. ~ call.req.single_extent
  BY <1>1, <1>7 DEF FrugalFrame, IsSingle
<1>9. FrugalFrame("subblks", call.req, todo, Append(call.exts, e), call.probe, call.frag)
  BY <1>4, <1>6, <1>7, <1>8 DEF FrugalFrame
<1> QED
  BY <1>5, <1>9, FrameWithIsFrugal

\* Each call of the user and each step of alloc keeps the invariant.
LEMMA FrugalKept == IInv /\ Frugal /\ [Next]_vars => Frugal'
<1> SUFFICES ASSUME IInv, Frugal, [Next]_vars PROVE Frugal'
  OBVIOUS
<1>1. CASE UserCall
  BY <1>1, UserCallIsFrugal
<1>2. CASE TakesFree \/ TakesOrGrows
  BY <1>2, TakesFromIsFrugal DEF TakesFree, TakesOrGrows
<1>3. CASE ProbesLess \/ FreeExhausted \/ BlksAllocated \/ TakesSubblks
  BY <1>3, ProbesLessIsFrugal, FreeExhaustedIsFrugal, BlksAllocatedIsFrugal, TakesSubblksIsFrugal
<1>4. CASE UNCHANGED call
  BY <1>4 DEF Frugal, Idle
<1>5. CASE GrowsForBlks \/ ProvidesSubblks \/ GrowsForSubblks
  BY <1>4, <1>5 DEF GrowsForBlks, ProvidesSubblks, GrowsForSubblks, ProvidesMore
<1>6. CASE Returns \/ Throws
  <2>1. call' = [pc |-> "idle"]
    BY <1>6 DEF Returns, Throws
  <2> QED
    BY <2>1 DEF Frugal, Idle
<1>7. CASE UNCHANGED vars
  BY <1>4, <1>7 DEF vars
<1> QED
  BY <1>1, <1>2, <1>3, <1>5, <1>6, <1>7 DEF Next, AllocStep

\* alloc and realloc meet the requirements they are called with, whatever the
\* fragmentation of the free space: enough bytes, few inline, one extent if it
\* must be single, and few extents, for every threshold and every width of a
\* block count.
THEOREM AllocMeetsRequirements == Spec => RequirementsAreMet
<1>1. Init => Frugal
  BY DEF Init, Frugal, Idle
<1>2. Spec => [](IInv /\ Frugal)
  BY <1>1, IInvInitially, IInvKept, FrugalKept, PTL DEF Spec
<1> DEFINE Met ==
      LET segm == segms'[call.slot]
          blks == FullBlkCnt(call.exts)
      IN  /\ SegmSz(segm) >= call.wanted
          /\ segm.inline_sz <= call.req.max_inline_sz
          /\ call.req.single_extent => Len(call.exts) = 1
          /\ blks >= SmallExts =>
               FullExtCnt(call.exts) <= SmallExts + CeilDiv(blks - SmallExts, MaxBlkCnt)
<1>3. ASSUME IInv, Frugal, Returns PROVE Met
  <2> DEFINE kept == segms[call.slot]
             s == [exts |-> kept.exts \o call.exts, inline_sz |-> call.todo.inline_sz]
             F == FullExtCnt(call.exts)
             D == FullBlkCnt(call.exts)
  <2>1. /\ ~ Idle /\ call.pc = "subblks" /\ call.todo.subblk_cnt = 0
        /\ segms' = [segms EXCEPT ![call.slot] = s]
    BY <1>3 DEF Returns, Idle
  <2>2. /\ call.slot \in Slots /\ call.exts \in Seq(Extents) /\ call.req \in Reqs
        /\ call.todo \in Todos /\ call.todo.inline_sz \in 0 .. BlkSz
        /\ kept \in Segms
    BY <1>3, <2>1, CallFacts
  <2>3. segms'[call.slot] = s
    BY <1>3, <2>1, <2>2 DEF IInv, Types
  <2>4. /\ call.todo.blk_cnt = 0 /\ call.todo.inline_sz <= call.req.max_inline_sz
        /\ ExtsSz(kept.exts) + ExtsSz(call.exts) + Bytes(call.todo) >= call.wanted
    BY <1>3, <2>1 DEF IInv, CallIsSound
  <2>5. SegmSz(s) >= call.wanted
    <3>1. kept.exts \in Seq(Extents)
      BY <2>2 DEF Segms
    <3>2. SegmSz(s) = (ExtsSz(kept.exts) + ExtsSz(call.exts)) + call.todo.inline_sz
      BY <2>2, <3>1, ExtsSzConcat DEF SegmSz
    <3>3. Bytes(call.todo) = call.todo.inline_sz
      <4>1. BlkSz \in Nat /\ SubblkSz \in Nat /\ BlkSz \in Int
        BY SubblkSzFacts
      <4>2. 0 * BlkSz = 0 /\ 0 * SubblkSz = 0
        BY <4>1
      <4>3. call.todo.inline_sz \in Nat
        BY <2>2, <4>1
      <4> QED
        BY <2>1, <2>4, <4>2, <4>3 DEF Bytes
    <3> QED
      BY <2>4, <3>2, <3>3
  <2>6. FrugalFrame("subblks", call.req, call.todo, call.exts, call.probe, call.frag)
    BY <1>3, <2>1 DEF Frugal
  <2>7. call.req.single_extent => Len(call.exts) = 1
    BY <2>4, <2>6 DEF FrugalFrame, IsSingle
  <2>8. D >= SmallExts => F <= SmallExts + CeilDiv(D - SmallExts, MaxBlkCnt)
    <3>1. F \in Nat /\ D \in Nat
      BY <2>2, CountsAreNat
    <3>2. CeilDiv(0, MaxBlkCnt) = 0
      BY CeilDivSteps, ExtentAssumption
    <3>3. FewEnough(F, D, 0, SmallExts)
      BY <2>4, <2>6 DEF FrugalFrame, SmallsOf, SmallExts, Threshold
    <3> HIDE DEF F, D
    <3>4. D + 0 = D /\ F + 0 = F
      BY <3>1
    <3> QED
      BY <3>2, <3>3, <3>4 DEF FewEnough
  <2> HIDE DEF s
  <2>9. s.inline_sz = call.todo.inline_sz
    BY DEF s
  <2> QED
    BY <2>3, <2>4, <2>5, <2>7, <2>8, <2>9
<1>4. IInv /\ Frugal => [Returns => Met]_vars
  BY <1>3
<1> QED
  BY <1>2, <1>4, PTL DEF Spec, RequirementsAreMet

-----------------------------------------------------------------------------
(* The allocator implements SpaceAllocator *)

\* What the user sees of a segment, and of every slot.
Abs(s) ==
  IF s = NoSegm THEN NoSegm ELSE [units |-> UnitsIn(s.exts), inline_sz |-> s.inline_sz]
SeenSegms == [s \in Slots |-> Abs(Seen(s))]

\* The units the array may ever have.
AllUnits == (BeginBlkNr .. BlkNrExhaust - 1) \X Subblks

\* SpaceAllocator counts units as this module does.
LEMMA SameCardinality == \A S : Space!Cardinality(S) = Cardinality(S)
BY DEF Space!Cardinality, Cardinality

\* An array never gets further than that.
LEMMA UnitsOfArrays ==
  ASSUME NEW a \in Arrays
  PROVE  BlksOfArray(a) \X Subblks \subseteq AllUnits
<1>1. a.past_end \in BeginBlkNr .. BlkNrExhaust - 1
  BY DEF Arrays
<1>2. BlksOfArray(a) \subseteq BeginBlkNr .. BlkNrExhaust - 1
  BY <1>1, BlockArrayAssumption DEF BlksOfArray, BlkNrs
<1> QED
  BY <1>2 DEF AllUnits

\* A segment of its own units is one of SpaceAllocator, of the same size.
LEMMA AbsFacts ==
  ASSUME NEW s \in Segms, Scattered(s.exts), UnitsIn(s.exts) \subseteq AllUnits
  PROVE  /\ Abs(s) # NoSegm
         /\ Abs(s).units = UnitsIn(s.exts)
         /\ Abs(s) \in Space!Segms
         /\ Space!Sz(Abs(s)) = SegmSz(s)
<1>1. s # NoSegm
  BY SegmentAllocatorAssumption
<1>2. Abs(s) = [units |-> UnitsIn(s.exts), inline_sz |-> s.inline_sz]
  BY <1>1 DEF Abs
<1>3. s.exts \in Seq(Extents) /\ s.inline_sz \in 0 .. BlkSz
  BY DEF Segms
<1>4. Abs(s) \in Space!Segms
  BY <1>2, <1>3 DEF Space!Segms, AllUnits
<1>5. Space!Sz(Abs(s)) = SegmSz(s)
  <2>1. ExtsSz(s.exts) = Cardinality(UnitsIn(s.exts)) * SubblkSz
    BY <1>3, ExtsSzIsOfUnits
  <2>2. Space!Cardinality(Abs(s).units) = Cardinality(Abs(s).units)
    BY SameCardinality
  <2>3. Space!Sz(Abs(s)) = Space!Cardinality(Abs(s).units) * SubblkSz + Abs(s).inline_sz
    BY DEF Space!Sz
  <2>4. Abs(s).units = UnitsIn(s.exts) /\ Abs(s).inline_sz = s.inline_sz
    BY <1>2
  <2> QED
    BY ONLY <2>1, <2>2, <2>3, <2>4 DEF SegmSz
<1>6. Abs(s) # NoSegm
  <2>1. Abs(s) \in [units : SUBSET (BlkNrs \X Subblks), inline_sz : 0 .. BlkSz]
    BY <1>2, <1>3, UnitsOfSeq
  <2> QED
    BY <2>1, SegmentAllocatorAssumption
<1> QED
  BY <1>2, <1>4, <1>5, <1>6

\* The actions of SpaceAllocator, on what the user sees.
LEMMA SpaceActions ==
  /\ Space!Init <=> SeenSegms = [s \in Slots |-> NoSegm]
  /\ Space!Reset <=> SeenSegms' = [s \in Slots |-> NoSegm]
  /\ \A slot, sz :
       /\ Space!Alloc(slot, sz) <=> /\ SeenSegms[slot] = NoSegm
                                    /\ Space!Becomes(slot, SeenSegms'[slot])
                                    /\ Space!Sz(SeenSegms'[slot]) >= sz
       /\ Space!Realloc(slot, sz) <=> /\ SeenSegms[slot] # NoSegm
                                      /\ Space!Becomes(slot, SeenSegms'[slot])
                                      /\ Space!Sz(SeenSegms'[slot]) >= sz
       /\ Space!Dealloc(slot) <=> /\ SeenSegms[slot] # NoSegm
                                  /\ SeenSegms' = [SeenSegms EXCEPT ![slot] = NoSegm]
       /\ Space!ReallocThrows(slot) <=>
            /\ SeenSegms[slot] # NoSegm
            /\ Space!Becomes(slot, SeenSegms'[slot])
            /\ SeenSegms'[slot].units \subseteq SeenSegms[slot].units
  /\ \A slot, s :
       Space!Becomes(slot, s) <=>
         /\ s \in Space!Segms
         /\ s.units \cap UNION {SeenSegms[t].units :
                                  t \in {u \in Slots \ {slot} : SeenSegms[u] # NoSegm}} = {}
         /\ SeenSegms' = [SeenSegms EXCEPT ![slot] = s]
<1>1. Space!Init <=> SeenSegms = [s \in Slots |-> NoSegm]
  BY DEF Space!Init, SeenSegms, Abs, UnitsIn
<1>2. Space!Reset <=> SeenSegms' = [s \in Slots |-> NoSegm]
  BY DEF Space!Reset, SeenSegms, Abs, UnitsIn
<1>3. ASSUME NEW slot, NEW sz
      PROVE  /\ Space!Alloc(slot, sz) <=> /\ SeenSegms[slot] = NoSegm
                                          /\ Space!Becomes(slot, SeenSegms'[slot])
                                          /\ Space!Sz(SeenSegms'[slot]) >= sz
             /\ Space!Realloc(slot, sz) <=> /\ SeenSegms[slot] # NoSegm
                                            /\ Space!Becomes(slot, SeenSegms'[slot])
                                            /\ Space!Sz(SeenSegms'[slot]) >= sz
  BY Zenon DEF Space!Alloc, Space!Realloc, SeenSegms, Abs, UnitsIn
<1>4. ASSUME NEW slot
      PROVE  /\ Space!Dealloc(slot) <=> /\ SeenSegms[slot] # NoSegm
                                        /\ SeenSegms' = [SeenSegms EXCEPT ![slot] = NoSegm]
             /\ Space!ReallocThrows(slot) <=>
                  /\ SeenSegms[slot] # NoSegm
                  /\ Space!Becomes(slot, SeenSegms'[slot])
                  /\ SeenSegms'[slot].units \subseteq SeenSegms[slot].units
  BY Zenon DEF Space!Dealloc, Space!ReallocThrows, SeenSegms, Abs, UnitsIn
<1>5. ASSUME NEW slot, NEW s
      PROVE  Space!Becomes(slot, s) <=>
               /\ s \in Space!Segms
               /\ s.units \cap UNION {SeenSegms[t].units :
                                        t \in {u \in Slots \ {slot} : SeenSegms[u] # NoSegm}} = {}
               /\ SeenSegms' = [SeenSegms EXCEPT ![slot] = s]
  BY Zenon DEF Space!Becomes, Space!UnitsOfOthers, SeenSegms, Abs, UnitsIn
<1> QED
  BY <1>1, <1>2, <1>3, <1>4, <1>5

\* A step that ends a call changes the segment of its slot for the user.
LEMMA SeenBecomes ==
  ASSUME IInv, IInv', Idle', NEW slot \in Slots, segms'[slot] # NoSegm,
         \A t \in Slots \ {slot} : segms'[t] = segms[t] /\ Seen(t) = segms[t]
  PROVE  /\ Space!Becomes(slot, SeenSegms'[slot])
         /\ Space!Sz(SeenSegms'[slot]) = SegmSz(segms'[slot])
         /\ SeenSegms'[slot].units = UnitsIn(segms'[slot].exts)
<1> DEFINE s == segms'[slot]
           O == Owned'
<1>1. s \in Segms /\ Scattered(s.exts)
  BY DEF IInv, Types, SharedOut
<1>2. Shares(ArrayUnits', FreeUnits(maps'), O, Taken', Lost') /\ arr' \in Arrays
  BY DEF IInv, SharedOut, Types
<1>3. \A t \in Slots : O[t] = IF segms'[t] = NoSegm THEN {} ELSE UnitsIn(segms'[t].exts)
  BY DEF Owned
<1>4. UnitsIn(s.exts) \subseteq AllUnits
  <2>1. ArrayUnits' \subseteq AllUnits
    BY <1>2, UnitsOfArrays DEF ArrayUnits
  <2>2. UnitsIn(s.exts) = O[slot]
    BY <1>3
  <2> HIDE DEF O, s
  <2> QED
    BY <1>2, <2>1, <2>2 DEF Shares
<1>5. \A t \in Slots : SeenSegms'[t] = Abs(segms'[t]) /\ SeenSegms[t] = Abs(Seen(t))
  BY DEF SeenSegms, Seen
<1>6. /\ Abs(s) # NoSegm /\ Abs(s).units = UnitsIn(s.exts) /\ Abs(s) \in Space!Segms
      /\ Space!Sz(Abs(s)) = SegmSz(s)
  <2> HIDE DEF s
  <2> QED
    BY <1>1, <1>4, AbsFacts
<1>7. SeenSegms' = [SeenSegms EXCEPT ![slot] = Abs(s)]
  <2>1. \A t \in Slots \ {slot} : SeenSegms'[t] = SeenSegms[t]
    BY <1>5
  <2>2. /\ SeenSegms' = [t \in Slots |-> SeenSegms'[t]]
        /\ SeenSegms = [t \in Slots |-> SeenSegms[t]]
    BY DEF SeenSegms
  <2> DEFINE a == SeenSegms
             b == SeenSegms'
             c == Abs(s)
  <2>3. /\ \A t \in Slots \ {slot} : b[t] = a[t]
        /\ b = [t \in Slots |-> b[t]] /\ a = [t \in Slots |-> a[t]] /\ b[slot] = c
    BY <1>5, <2>1, <2>2
  <2> HIDE DEF a, b, c
  <2>4. b = [a EXCEPT ![slot] = c]
    BY <2>3
  <2> QED
    BY <2>4 DEF a, b, c
<1>8. ASSUME NEW t \in Slots \ {slot}, SeenSegms[t] # NoSegm
      PROVE  UnitsIn(s.exts) \cap SeenSegms[t].units = {}
  <2>1. segms'[t] # NoSegm /\ SeenSegms[t] = Abs(segms'[t])
    BY <1>5, <1>8 DEF Abs
  <2>2. SeenSegms[t].units = UnitsIn(segms'[t].exts)
    BY <2>1 DEF Abs
  <2>3. O[slot] = UnitsIn(s.exts) /\ O[t] = UnitsIn(segms'[t].exts)
    BY <1>3, <2>1
  <2> HIDE DEF O, s
  <2>4. O[slot] \cap O[t] = {}
    BY <1>2 DEF Shares
  <2> QED
    BY <2>2, <2>3, <2>4
<1>9. SeenSegms'[slot] = Abs(s)
  BY <1>5
<1> HIDE DEF s
<1>10. Abs(s).units \cap UNION {SeenSegms[t].units :
                                  t \in {u \in Slots \ {slot} : SeenSegms[u] # NoSegm}} = {}
  BY <1>6, <1>8
<1>11. Space!Becomes(slot, Abs(s))
  BY <1>6, <1>7, <1>10, SpaceActions
<1>12. Space!Becomes(slot, SeenSegms'[slot])
  BY ONLY <1>9, <1>11
<1>13. Space!Sz(SeenSegms'[slot]) = SegmSz(s) /\ SeenSegms'[slot].units = UnitsIn(s.exts)
  BY ONLY <1>6, <1>9
<1> QED
  BY <1>12, <1>13 DEF s

\* What the user sees is what it saw if the call is the same and no slot of
\* another one changes.
LEMMA SeenSame ==
  ASSUME IInv, IInv',
         \A s \in Slots : Seen(s)' = Seen(s)
  PROVE  SeenSegms' = SeenSegms
BY DEF SeenSegms

\* A call that starts shows nothing; one that does not need alloc shows its
\* result.
LEMMA UserCallImplements ==
  ASSUME IInv, IInv', UserCall
  PROVE  SeenSegms' = SeenSegms \/ Space!Next
<1>1. /\ segms \in [Slots -> Segms \cup {NoSegm}] /\ segms' \in [Slots -> Segms \cup {NoSegm}]
  BY DEF IInv, Types
<1>2. ASSUME Idle, NEW s \in Slots PROVE Seen(s) = segms[s] /\ SeenSegms[s] = Abs(segms[s])
  BY <1>2 DEF Seen, SeenSegms
<1>3. \A s \in Segms : Abs(s) # NoSegm
  <2> TAKE s \in Segms
  <2>1. s # NoSegm /\ s.exts \in Seq(Extents) /\ s.inline_sz \in 0 .. BlkSz
    BY SegmentAllocatorAssumption DEF Segms
  <2>2. UnitsIn(s.exts) \subseteq BlkNrs \X Subblks
    BY <2>1, UnitsOfSeq
  <2>3. Abs(s) \in [units : SUBSET (BlkNrs \X Subblks), inline_sz : 0 .. BlkSz]
    BY <2>1, <2>2 DEF Abs
  <2> QED
    BY <2>3, SegmentAllocatorAssumption
<1>4. ASSUME NEW slot \in Slots, DeallocSegm(slot) PROVE Space!Next
  <2>1. /\ Idle /\ Idle' /\ segms[slot] # NoSegm /\ segms' = [segms EXCEPT ![slot] = NoSegm]
    BY <1>4 DEF DeallocSegm, MayOperate, Idle
  <2>2. \A s \in Slots : SeenSegms'[s] = IF s = slot THEN NoSegm ELSE SeenSegms[s]
    BY <1>1, <1>2, <2>1 DEF SeenSegms, Seen, Abs
  <2>3. SeenSegms' = [SeenSegms EXCEPT ![slot] = NoSegm]
    <3>1. /\ SeenSegms' = [t \in Slots |-> SeenSegms'[t]]
          /\ SeenSegms = [t \in Slots |-> SeenSegms[t]]
      BY DEF SeenSegms
    <3> DEFINE a == SeenSegms
               b == SeenSegms'
    <3>2. /\ \A t \in Slots : b[t] = IF t = slot THEN NoSegm ELSE a[t]
          /\ b = [t \in Slots |-> b[t]] /\ a = [t \in Slots |-> a[t]]
      BY <2>2, <3>1
    <3> HIDE DEF a, b
    <3>3. b = [a EXCEPT ![slot] = NoSegm]
      BY <3>2
    <3> QED
      BY <3>3 DEF a, b
  <2>4. SeenSegms[slot] # NoSegm
    BY <1>1, <1>2, <1>3, <2>1
  <2>5. Space!Dealloc(slot)
    BY <2>3, <2>4, SpaceActions
  <2> QED
    BY <2>5 DEF Space!Next
<1>5. ASSUME NEW slot \in Slots, NEW sz \in Sizes, Idle, Idle', segms[slot] # NoSegm,
             NEW s \in Segms, segms' = [segms EXCEPT ![slot] = s], SegmSz(s) = sz
      PROVE  Space!Next
  <2>1. /\ segms'[slot] = s /\ s # NoSegm
        /\ \A t \in Slots \ {slot} : segms'[t] = segms[t] /\ Seen(t) = segms[t]
    BY <1>1, <1>2, <1>5, SegmentAllocatorAssumption
  <2>2. Space!Becomes(slot, SeenSegms'[slot]) /\ Space!Sz(SeenSegms'[slot]) = SegmSz(segms'[slot])
    BY <1>5, <2>1, SeenBecomes
  <2>3. SeenSegms[slot] # NoSegm
    BY <1>1, <1>2, <1>3, <1>5
  <2>4. Space!Sz(SeenSegms'[slot]) >= sz
    <3>1. sz \in Nat
      BY SegmentAllocatorAssumption
    <3> QED
      BY <1>5, <2>1, <2>2, <3>1
  <2>5. Space!Realloc(slot, sz)
    BY <2>2, <2>3, <2>4, SpaceActions
  <2> QED
    BY <2>5 DEF Space!Next
<1>6. ASSUME NEW slot \in Slots, Idle, ~ Idle', call'.slot = slot, call'.before = segms[slot],
             NEW s, segms' = [segms EXCEPT ![slot] = s]
      PROVE  SeenSegms' = SeenSegms
  <2>1. \A t \in Slots : Seen(t)' = Seen(t)
    BY <1>1, <1>2, <1>6 DEF Seen
  <2> QED
    BY <2>1, SeenSame
<1>7. ASSUME NEW slot \in Slots, NEW sz \in Sizes, ReallocCutsInline(slot, sz) PROVE Space!Next
  <2> DEFINE s == segms[slot]
             cut == SegmSz(s) - sz
             n == [s EXCEPT !.inline_sz = @ - cut]
  <2>1. /\ Idle /\ Idle' /\ s # NoSegm /\ cut > 0 /\ cut <= s.inline_sz
        /\ segms' = [segms EXCEPT ![slot] = n]
    BY <1>1, <1>7 DEF ReallocCutsInline, MayOperate, Idle
  <2>2. s \in Segms /\ s.exts \in Seq(Extents) /\ s.inline_sz \in 0 .. BlkSz
    BY <1>1, <2>1 DEF Segms
  <2>3. n \in Segms /\ SegmSz(n) = sz
    <3>1. ExtsSz(s.exts) \in Nat /\ sz \in Nat /\ BlkSz \in Nat
      BY <2>2, ExtsSzConcat, SegmentAllocatorAssumption
    <3>2. SegmSz(s) = ExtsSz(s.exts) + s.inline_sz
      BY DEF SegmSz
    <3>3. n = [exts |-> s.exts, inline_sz |-> s.inline_sz - cut]
      BY <2>2 DEF Segms
    <3>4. SegmSz(n) = ExtsSz(s.exts) + (s.inline_sz - cut)
      BY <3>3 DEF SegmSz
    <3>5. s.inline_sz - cut \in 0 .. BlkSz /\ ExtsSz(s.exts) + (s.inline_sz - cut) = sz
      <4> DEFINE x == ExtsSz(s.exts)
                 i == s.inline_sz
      <4>1. /\ x \in Nat /\ sz \in Nat /\ i \in 0 .. BlkSz /\ BlkSz \in Nat
            /\ cut = (x + i) - sz /\ cut > 0 /\ cut <= i
        BY <2>1, <2>2, <3>1, <3>2
      <4> HIDE DEF x, i, cut
      <4>2. i - cut \in 0 .. BlkSz /\ x + (i - cut) = sz
        BY <4>1
      <4> QED
        BY <4>2 DEF x, i
    <3> QED
      BY <2>2, <3>3, <3>4, <3>5 DEF Segms
  <2> HIDE DEF n
  <2> QED
    BY <1>5, <2>1, <2>3
<1>8. ASSUME NEW slot \in Slots, NEW sz \in Sizes, NEW req \in Reqs, CallAlloc(slot, sz, req)
      PROVE  SeenSegms' = SeenSegms
  <2>1. /\ Idle /\ ~ Idle' /\ call'.slot = slot /\ call'.before = segms[slot]
        /\ segms' = [segms EXCEPT ![slot] = EmptySegm]
    BY <1>8 DEF CallAlloc, MayOperate, Idle, Frame
  <2> QED
    BY <1>6, <2>1
<1>9. ASSUME NEW slot \in Slots, NEW sz \in Sizes, NEW req \in Reqs, ReallocExpands(slot, sz, req)
      PROVE  SeenSegms' = SeenSegms
  <2>1. /\ Idle /\ ~ Idle' /\ call'.slot = slot /\ call'.before = segms[slot]
        /\ segms' = [segms EXCEPT ![slot] = Kept(segms[slot])]
    BY <1>9 DEF ReallocExpands, MayOperate, Idle, Frame
  <2> QED
    BY <1>6, <2>1
<1>10. ASSUME NEW slot \in Slots, NEW sz \in Sizes, NEW req \in Reqs, ReallocShrinks(slot, sz, req)
       PROVE  SeenSegms' = SeenSegms \/ Space!Next
  <2> DEFINE s == segms[slot]
             fits == {n \in 0 .. Len(s.exts) : ExtsSz(SubSeq(s.exts, 1, n)) <= sz}
             cnt == CHOOSE n \in fits : \A k \in fits : k <= n
             kept == [exts |-> SubSeq(s.exts, 1, cnt), inline_sz |-> 0]
  <2>1. /\ Idle /\ s # NoSegm /\ segms' = [segms EXCEPT ![slot] = kept]
        /\ \/ SegmSz(kept) = sz /\ call' = call
           \/ call' = Frame("shrink", slot, kept, sz, req)
    BY <1>10 DEF ReallocShrinks, MayOperate
  <2>2. s.exts \in Seq(Extents) /\ sz \in Nat
    BY <1>1, <2>1, SegmentAllocatorAssumption DEF Segms
  <2>3. cnt \in 0 .. Len(s.exts)
    BY <2>2, FittingExts
  <2> HIDE DEF cnt
  <2>4. kept \in Segms
    <3>1. SubSeq(s.exts, 1, cnt) \in Seq(Extents)
      BY <2>2, <2>3, CutInTwo
    <3>2. 0 \in 0 .. BlkSz
      BY SegmentAllocatorAssumption
    <3> QED
      BY <3>1, <3>2 DEF Segms
  <2> HIDE DEF kept
  <2>5. CASE SegmSz(kept) = sz /\ call' = call
    BY <1>5, <2>1, <2>4, <2>5 DEF Idle
  <2>6. CASE call' = Frame("shrink", slot, kept, sz, req)
    <3>1. ~ Idle' /\ call'.slot = slot /\ call'.before = segms[slot]
      BY <2>6 DEF Idle, Frame
    <3> QED
      BY <1>6, <2>1, <3>1
  <2> QED
    BY <2>1, <2>5, <2>6
<1>11. ASSUME ReleaseSpace \/ BlockOps \/ UnblockOps \/ Reopen PROVE SeenSegms' = SeenSegms
  <2>1. UNCHANGED <<segms, call>>
    BY <1>11 DEF ReleaseSpace, BlockOps, UnblockOps, Reopen
  <2>2. \A s \in Slots : Seen(s)' = Seen(s)
    BY <2>1 DEF Seen, Idle
  <2> QED
    BY <2>2, SeenSame
<1>12. ASSUME Reset PROVE Space!Next
  <2>1. Idle /\ Idle' /\ segms' = [s \in Slots |-> NoSegm]
    BY <1>12 DEF Reset, MayOperate, Idle
  <2>2. SeenSegms' = [s \in Slots |-> NoSegm]
    BY <2>1 DEF SeenSegms, Seen, Abs
  <2> QED
    BY <2>2, SpaceActions DEF Space!Next
<1> QED
  BY <1>4, <1>7, <1>8, <1>9, <1>10, <1>11, <1>12 DEF UserCall

\* The user sees the result of alloc when it returns or throws.
LEMMA AllocStepImplements ==
  ASSUME IInv, IInv', AllocStep
  PROVE  SeenSegms' = SeenSegms \/ Space!Next
<1>1. segms \in [Slots -> Segms \cup {NoSegm}] /\ segms' \in [Slots -> Segms \cup {NoSegm}]
  BY DEF IInv, Types
<1>2. CASE \/ TakesFree \/ ProbesLess \/ FreeExhausted
           \/ TakesOrGrows \/ GrowsForBlks \/ BlksAllocated
           \/ TakesSubblks \/ ProvidesSubblks \/ GrowsForSubblks
  <2>1. ~ Idle /\ call \in Frames
    <3>1. ~ Idle
      BY <1>2 DEF TakesFree, ProbesLess, FreeExhausted, TakesOrGrows, GrowsForBlks, BlksAllocated,
                  TakesSubblks, ProvidesSubblks, GrowsForSubblks, MayNotGrow, MayGrow, NeedsSubblks,
                  Idle
    <3> QED
      BY <3>1, CallFacts
  <2>2. /\ segms' = segms /\ call'.slot = call.slot /\ call'.before = call.before
        /\ call'.pc # "idle"
    <3>1. CASE TakesFree \/ TakesOrGrows
      <4>1. PICK p : TakesFrom(p)
        BY <3>1 DEF TakesFree, TakesOrGrows
      <4> QED
        BY <2>1, <4>1 DEF TakesFrom, Frames, Idle
    <3>2. CASE TakesSubblks
      <4>1. PICK e : /\ call' = [call EXCEPT !.exts = Append(@, e), !.todo.subblk_cnt = 0]
                     /\ segms' = segms
        BY <3>2 DEF TakesSubblks
      <4> QED
        BY <2>1, <4>1 DEF Frames, Idle
    <3>3. CASE ProbesLess \/ FreeExhausted \/ BlksAllocated
      BY <2>1, <3>3 DEF ProbesLess, FreeExhausted, BlksAllocated, Frames, Idle
    <3>4. CASE GrowsForBlks \/ GrowsForSubblks \/ ProvidesSubblks
      BY <2>1, <3>4 DEF GrowsForBlks, GrowsForSubblks, ProvidesSubblks, ProvidesMore, Idle
    <3> QED
      BY <1>2, <3>1, <3>2, <3>3, <3>4
  <2>3. \A s \in Slots : Seen(s)' = Seen(s)
    BY <2>1, <2>2 DEF Seen, Idle
  <2> QED
    BY <2>3, SeenSame
<1> DEFINE slot == call.slot
<1>3. ASSUME ~ Idle
      PROVE  /\ slot \in Slots /\ call.wanted \in Sizes /\ call.wanted \in Nat
             /\ \A t \in Slots \ {slot} : Seen(t) = segms[t]
             /\ SeenSegms[slot] = Abs(call.before)
             /\ call.before = NoSegm <=> call.op = "alloc"
             /\ call.before \in Segms \cup {NoSegm}
  <2>1. call \in Frames /\ slot \in Slots
    BY <1>3, CallFacts
  <2>2. call.wanted \in Sizes /\ (call.before = NoSegm <=> call.op = "alloc")
    BY <1>3 DEF IInv, CallIsSound
  <2>3. call.before \in Segms \cup {NoSegm}
    BY <2>1 DEF Frames
  <2> QED
    BY <1>3, <2>1, <2>2, <2>3, SegmentAllocatorAssumption DEF Seen, SeenSegms
<1>4. CASE Returns
  <2>1. /\ ~ Idle /\ Idle'
        /\ \A t \in Slots \ {slot} : segms'[t] = segms[t]
        /\ segms'[slot] = [exts |-> segms[slot].exts \o call.exts, inline_sz |-> call.todo.inline_sz]
        /\ call.pc = "subblks" /\ call.todo.subblk_cnt = 0
    <3>1. ~ Idle /\ Idle'
      BY <1>4 DEF Returns, Idle
    <3> QED
      BY <1>1, <1>3, <1>4, <3>1 DEF Returns
  <2>2. /\ call.exts \in Seq(Extents) /\ segms[slot].exts \in Seq(Extents)
        /\ call.todo \in Todos /\ call.todo.inline_sz \in 0 .. BlkSz
        /\ ExtsSz(call.exts) \in Nat /\ ExtsSz(segms[slot].exts) \in Nat
    BY <2>1, CallFacts DEF Segms
  <2>3. segms'[slot] # NoSegm
    <3>1. segms[slot].exts \o call.exts \in Seq(Extents)
      BY <2>2, ConcatProperties
    <3>2. segms'[slot] \in Segms
      BY <2>1, <2>2, <3>1 DEF Segms
    <3> QED
      BY <3>2, SegmentAllocatorAssumption
  <2>4. SegmSz(segms'[slot]) >= call.wanted
    <3>1. ExtsSz(segms[slot].exts \o call.exts) = ExtsSz(segms[slot].exts) + ExtsSz(call.exts)
      BY <2>2, ExtsSzConcat
    <3>2. SegmSz(segms'[slot]) = ExtsSz(segms[slot].exts \o call.exts) + call.todo.inline_sz
      BY <2>1 DEF SegmSz
    <3>3. Bytes(call.todo) = call.todo.inline_sz
      <4>1. call.todo.blk_cnt = 0
        BY <2>1 DEF IInv, CallIsSound
      <4>2. Bytes(call.todo) = 0 * BlkSz + 0 * SubblkSz + call.todo.inline_sz
        BY <2>1, <4>1 DEF Bytes
      <4>3. 0 * BlkSz = 0 /\ 0 * SubblkSz = 0
        BY SubblkSzFacts
      <4>4. call.todo.inline_sz \in Nat
        BY <2>2, SubblkSzFacts
      <4> QED
        BY <4>2, <4>3, <4>4
    <3>4. ExtsSz(segms[slot].exts) + ExtsSz(call.exts) + Bytes(call.todo) >= call.wanted
      BY <2>1 DEF IInv, CallIsSound
    <3> QED
      BY <3>1, <3>2, <3>3, <3>4
  <2>5. /\ Space!Becomes(slot, SeenSegms'[slot])
        /\ Space!Sz(SeenSegms'[slot]) = SegmSz(segms'[slot])
    BY <1>3, <2>1, <2>3, SeenBecomes
  <2>6. Space!Sz(SeenSegms'[slot]) >= call.wanted
    BY ONLY <2>4, <2>5
  <2>7. Space!Alloc(slot, call.wanted) \/ Space!Realloc(slot, call.wanted)
    BY <2>5, <2>6, SpaceActions
  <2> QED
    BY <1>3, <2>1, <2>7 DEF Space!Next
<1>5. CASE Throws
  <2>1. /\ ~ Idle /\ Idle'
        /\ segms' = IF call.op = "alloc" THEN [segms EXCEPT ![slot] = NoSegm] ELSE segms
    BY <1>5 DEF Throws, Idle, MayGrow, NeedsSubblks
  <2>2. CASE call.op = "alloc"
    <3>1. \A t \in Slots : Seen(t)' = Seen(t)
      BY <1>1, <1>3, <2>1, <2>2 DEF Seen
    <3> QED
      BY <3>1, SeenSame
  <2>3. CASE call.op # "alloc"
    <3>1. segms' = segms /\ segms[slot] # NoSegm /\ call.before \in Segms /\ call.before # NoSegm
      BY <1>3, <2>1, <2>3, CallFacts
    <3>2. /\ Space!Becomes(slot, SeenSegms'[slot])
          /\ SeenSegms'[slot].units = UnitsIn(segms'[slot].exts)
      BY <1>3, <2>1, <3>1, SeenBecomes
    <3>3. UnitsIn(segms[slot].exts) \subseteq UnitsIn(call.before.exts)
      BY <2>1, <2>3 DEF IInv, CallIsSound
    <3>4. SeenSegms[slot] = [units |-> UnitsIn(call.before.exts), inline_sz |-> call.before.inline_sz]
      BY <1>3, <2>1, <3>1 DEF Abs
    <3>5. SeenSegms[slot] # NoSegm
      <4>1. call.before.exts \in Seq(Extents) /\ call.before.inline_sz \in 0 .. BlkSz
        BY <3>1 DEF Segms
      <4>2. SeenSegms[slot] \in [units : SUBSET (BlkNrs \X Subblks), inline_sz : 0 .. BlkSz]
        BY <3>4, <4>1, UnitsOfSeq
      <4> QED
        BY <4>2, SegmentAllocatorAssumption
    <3>6. SeenSegms'[slot].units \subseteq SeenSegms[slot].units
      BY <3>1, <3>2, <3>3, <3>4
    <3>7. Space!ReallocThrows(slot)
      BY <3>2, <3>5, <3>6, SpaceActions
    <3> QED
      BY <1>3, <2>1, <3>7 DEF Space!Next
  <2> QED
    BY <2>2, <2>3
<1> QED
  BY <1>2, <1>4, <1>5 DEF AllocStep

\* The user of the allocator never sees less than it asked for, nor the space
\* of another segment, and sees a call as one step: a failed one gives up, at
\* most, some of the segment it was about.
THEOREM AllocatorIsASpaceAllocator == Spec => ImplementsSpaceAllocator
<1>1. ASSUME Init PROVE Space!Init
  <2>1. SeenSegms = [s \in Slots |-> NoSegm]
    BY <1>1 DEF Init, SeenSegms, Seen, Abs, Idle
  <2> QED
    BY <2>1, SpaceActions
<1>2. ASSUME IInv, IInv', [Next]_vars PROVE SeenSegms' = SeenSegms \/ Space!Next
  <2>1. CASE UNCHANGED vars
    <3>1. \A s \in Slots : Seen(s)' = Seen(s)
      BY <2>1 DEF vars, Seen, Idle
    <3> QED
      BY <1>2, <3>1, SeenSame
  <2>2. CASE UserCall
    BY <1>2, <2>2, UserCallImplements
  <2>3. CASE AllocStep
    BY <1>2, <2>3, AllocStepImplements
  <2> QED
    BY <1>2, <2>1, <2>2, <2>3 DEF Next
<1>3. IInv /\ IInv' /\ [Next]_vars =>
        [Space!Next]_[s \in Slots |->
          IF Seen(s) = NoSegm THEN NoSegm
          ELSE [units |-> UnitsOfAll(Range(Seen(s).exts)), inline_sz |-> Seen(s).inline_sz]]
  BY <1>2 DEF SeenSegms, Abs, UnitsIn
<1> QED
  BY <1>1, <1>3, SpaceIsShared, PTL DEF Spec, ImplementsSpaceAllocator, Space!Spec

-----------------------------------------------------------------------------
(* Sums over the slots of the user *)

\* The sum of the numbers F[x], x \in S.
PairsOf(F, S) == UNION {{x} \X (1 .. F[x]) : x \in S}
SetSum(F, S) == Cardinality(PairsOf(F, S))

\* What MapThenSumSet does to add F over S, choosing the elements one by one.
SetSumLoop(iter, F, S) ==
  \A T \in SUBSET S :
    iter[T] = IF T = {} THEN 0
              ELSE F[CHOOSE x \in T : TRUE] + iter[T \ {CHOOSE x \in T : TRUE}]

\* The pairs of one element are as many as its number.
LEMMA PairsOfOne ==
  ASSUME NEW x, NEW n \in Nat
  PROVE  IsFiniteSet({x} \X (1 .. n)) /\ Cardinality({x} \X (1 .. n)) = n
<1>1. IsFiniteSet(1 .. n) /\ Cardinality(1 .. n) = n
  <2>1. /\ IsFiniteSet(1 .. n)
        /\ Cardinality(1 .. n) = IF 1 > n THEN 0 ELSE n - 1 + 1
    BY FS_Interval
  <2>2. n = 0 \/ n - 1 + 1 = n
    OBVIOUS
  <2> QED
    BY <2>1, <2>2
<1>2. IsFiniteSet({x}) /\ Cardinality({x}) = 1
  BY FS_Singleton
<1>3. /\ IsFiniteSet({x} \X (1 .. n))
      /\ Cardinality({x} \X (1 .. n)) = Cardinality({x}) * Cardinality(1 .. n)
  BY <1>1, <1>2, FS_Product
<1> QED
  BY <1>1, <1>2, <1>3

\* A sum over a finite set, element by element.
LEMMA SetSumFacts ==
  ASSUME NEW S, IsFiniteSet(S), NEW F, \A x \in S : F[x] \in Nat
  PROVE  /\ IsFiniteSet(PairsOf(F, S)) /\ SetSum(F, S) \in Nat
         /\ S = {} => SetSum(F, S) = 0
         /\ \A x \in S : SetSum(F, S) = F[x] + SetSum(F, S \ {x})
<1>1. IsFiniteSet(PairsOf(F, S))
  <2>1. IsFiniteSet({{x} \X (1 .. F[x]) : x \in S})
    <3> DEFINE T == {{x} \X (1 .. F[x]) : x \in S}
               f == [x \in S |-> {x} \X (1 .. F[x])]
    <3>1. f \in Surjection(S, T)
      BY DEF Surjection
    <3> QED
      BY <3>1, FS_Surjection
  <2>2. \A y \in {{x} \X (1 .. F[x]) : x \in S} : IsFiniteSet(y)
    <3>1. \A x \in S : IsFiniteSet({x} \X (1 .. F[x]))
      BY PairsOfOne
    <3> QED
      BY <3>1, Zenon
  <2> QED
    BY <2>1, <2>2, FS_UNION DEF PairsOf
<1>2. SetSum(F, S) \in Nat
  BY <1>1, FS_CardinalityType DEF SetSum
<1>3. S = {} => SetSum(F, S) = 0
  BY FS_EmptySet DEF SetSum, PairsOf
<1>4. ASSUME NEW x \in S PROVE SetSum(F, S) = F[x] + SetSum(F, S \ {x})
  <2> DEFINE one == {x} \X (1 .. F[x])
             rest == PairsOf(F, S \ {x})
  <2>1. PairsOf(F, S) = one \cup rest /\ one \cap rest = {}
    BY DEF PairsOf
  <2>2. IsFiniteSet(one) /\ Cardinality(one) = F[x]
    BY PairsOfOne
  <2>3. IsFiniteSet(rest)
    BY <1>1, <2>1, FS_Subset
  <2> HIDE DEF one, rest
  <2>4. Cardinality(one \cup rest) = Cardinality(one) + Cardinality(rest) - Cardinality({})
    BY <2>1, <2>2, <2>3, FS_Union
  <2>5. Cardinality({}) = 0 /\ Cardinality(rest) \in Nat /\ F[x] \in Nat
    BY <2>3, FS_EmptySet, FS_CardinalityType
  <2>6. Cardinality(one \cup rest) = F[x] + Cardinality(rest)
    BY <2>2, <2>4, <2>5
  <2> QED
    BY <2>1, <2>6 DEF SetSum, rest
<1> QED
  BY <1>1, <1>2, <1>3, <1>4

\* Only the numbers of the set count.
LEMMA SetSumSame ==
  ASSUME NEW S, NEW F, NEW G, \A x \in S : F[x] = G[x]
  PROVE  SetSum(F, S) = SetSum(G, S)
<1>1. PairsOf(F, S) = PairsOf(G, S)
  BY DEF PairsOf
<1> QED
  BY <1>1 DEF SetSum

\* The elements whose number is zero do not count.
LEMMA SetSumOfSome ==
  ASSUME NEW S, NEW T \in SUBSET S, NEW F, \A x \in S \ T : F[x] = 0
  PROVE  SetSum(F, S) = SetSum(F, T)
<1>1. \A x \in S \ T : {x} \X (1 .. F[x]) = {}
  OBVIOUS
<1>2. PairsOf(F, S) = PairsOf(F, T)
  BY <1>1 DEF PairsOf
<1> QED
  BY <1>2 DEF SetSum

\* One number of the sum changes.
LEMMA SetSumChanges ==
  ASSUME NEW S, IsFiniteSet(S), NEW x \in S,
         NEW F, \A y \in S : F[y] \in Nat, NEW G, \A y \in S : G[y] \in Nat,
         \A y \in S \ {x} : G[y] = F[y]
  PROVE  SetSum(G, S) = SetSum(F, S) - F[x] + G[x]
<1>1. SetSum(F, S) = F[x] + SetSum(F, S \ {x}) /\ SetSum(G, S) = G[x] + SetSum(G, S \ {x})
  BY SetSumFacts
<1>2. SetSum(F, S \ {x}) = SetSum(G, S \ {x})
  BY SetSumSame
<1>3. SetSum(F, S \ {x}) \in Nat
  <2>1. IsFiniteSet(S \ {x})
    BY FS_Subset
  <2> QED
    BY <2>1, SetSumFacts
<1> QED
  BY <1>1, <1>2, <1>3

\* The loop gives the sum, whatever the order of the elements.
LEMMA SetSumByLoop ==
  ASSUME NEW S, IsFiniteSet(S), NEW F, \A x \in S : F[x] \in Nat,
         NEW iter, SetSumLoop(iter, F, S)
  PROVE  \A T \in SUBSET S : iter[T] = SetSum(F, T)
<1> DEFINE Bad == {T \in SUBSET S : iter[T] # SetSum(F, T)}
           Cards == {Cardinality(T) : T \in Bad}
<1>1. \A T \in SUBSET S : IsFiniteSet(T) /\ Cardinality(T) \in Nat
  BY FS_Subset, FS_CardinalityType
<1>2. ASSUME Bad # {} PROVE FALSE
  <2>1. Cards \in SUBSET Nat /\ Cards # {}
    BY <1>1, <1>2
  <2>2. PICK n \in Cards : \A k \in Cards : n <= k
    <3> HIDE DEF Cards
    <3> QED
      BY <2>1, LeastExists
  <2>3. PICK T \in Bad : n = Cardinality(T)
    BY <2>2
  <2>4. T \in SUBSET S /\ iter[T] # SetSum(F, T) /\ IsFiniteSet(T) /\ n \in Nat
    BY <1>1, <2>3
  <2>5. T # {}
    <3>1. SetSum(F, {}) = 0
      BY FS_EmptySet, SetSumFacts
    <3>2. iter[{}] = 0
      BY DEF SetSumLoop
    <3> QED
      BY <2>4, <3>1, <3>2
  <2> DEFINE x == CHOOSE y \in T : TRUE
             R == T \ {x}
  <2>6. x \in T
    BY <2>5
  <2>7. iter[T] = F[x] + iter[R]
    BY <2>4, <2>5 DEF SetSumLoop
  <2> HIDE DEF x
  <2>8. R \in SUBSET S /\ Cardinality(R) = n - 1
    BY <2>3, <2>4, <2>6, FS_RemoveElement
  <2>9. R \notin Bad
    <3>1. R \in Bad => n - 1 \in Cards
      BY <2>8
    <3> QED
      BY <2>2, <2>4, <3>1
  <2>10. iter[R] = SetSum(F, R)
    BY <2>8, <2>9
  <2>11. SetSum(F, T) = F[x] + SetSum(F, R)
    BY <2>4, <2>6, SetSumFacts
  <2> QED
    BY <2>4, <2>7, <2>10, <2>11
<1> QED
  BY <1>2

\* The sums are what the loop gives, so there is such a loop.
LEMMA SetSumIsLoop ==
  ASSUME NEW S, IsFiniteSet(S), NEW F, \A x \in S : F[x] \in Nat
  PROVE  SetSumLoop([T \in SUBSET S |-> SetSum(F, T)], F, S)
<1> DEFINE g == [T \in SUBSET S |-> SetSum(F, T)]
<1>1. ASSUME NEW T \in SUBSET S
      PROVE  g[T] = IF T = {} THEN 0
                    ELSE F[CHOOSE x \in T : TRUE] + g[T \ {CHOOSE x \in T : TRUE}]
  <2>1. IsFiniteSet(T)
    BY FS_Subset
  <2>2. CASE T = {}
    BY <2>1, <2>2, SetSumFacts
  <2>3. CASE T # {}
    <3> DEFINE x == CHOOSE y \in T : TRUE
    <3>1. x \in T
      BY <2>3
    <3> HIDE DEF x
    <3>2. SetSum(F, T) = F[x] + SetSum(F, T \ {x})
      BY <2>1, <3>1, SetSumFacts
    <3>3. g[T] = F[x] + g[T \ {x}]
      BY <3>2
    <3> HIDE DEF g
    <3> QED
      BY <2>3, <3>3 DEF x
  <2> QED
    BY <2>2, <2>3
<1> QED
  BY <1>1 DEF SetSumLoop

\* The bytes of the segments.
LEMMA BytesOfLive ==
  ASSUME IsFiniteSet(Live), NEW F, \A s \in Live : F[s] \in Nat /\ F[s] = SegmSz(segms[s])
  PROVE  OfLive(SegmSz) = SetSum(F, Live)
<1> DEFINE Body(T, g) == IF T = {} THEN 0
                         ELSE LET x == CHOOSE y \in T : TRUE
                              IN  SegmSz(segms[x]) + g[T \ {x}]
           P(g) == g = [T \in SUBSET Live |-> Body(T, g)]
           iter == CHOOSE g : P(g)
           sums == [T \in SUBSET Live |-> SetSum(F, T)]
<1>1. OfLive(SegmSz) = iter[Live]
  BY DEF OfLive, MapThenSumSet, MapThenFoldSet
<1>2. ASSUME NEW T \in SUBSET Live, NEW g
      PROVE  Body(T, g) = IF T = {} THEN 0
                          ELSE F[CHOOSE x \in T : TRUE] + g[T \ {CHOOSE x \in T : TRUE}]
  <2>1. T # {} => (CHOOSE x \in T : TRUE) \in Live
    OBVIOUS
  <2> QED
    BY <2>1
<1> HIDE DEF Body
<1>3. P(sums)
  <2>1. SetSumLoop(sums, F, Live)
    BY SetSumIsLoop
  <2>2. ASSUME NEW T \in SUBSET Live PROVE sums[T] = Body(T, sums)
    BY <1>2, <2>1 DEF SetSumLoop
  <2>3. sums = [T \in SUBSET Live |-> sums[T]]
    OBVIOUS
  <2> HIDE DEF sums
  <2> QED
    BY <2>2, <2>3
<1> HIDE DEF sums
<1>4. P(iter)
  <2> HIDE DEF P
  <2> QED
    BY <1>3
<1> HIDE DEF iter
<1>5. SetSumLoop(iter, F, Live)
  BY <1>2, <1>4 DEF SetSumLoop
<1>6. Live \in SUBSET Live /\ \A s \in Live : F[s] \in Nat
  OBVIOUS
<1>7. iter[Live] = SetSum(F, Live)
  BY ONLY IsFiniteSet(Live), <1>5, <1>6, SetSumByLoop
<1> QED
  BY <1>1, <1>7

\* Their whole blocks.
LEMMA BlksOfLive ==
  ASSUME IsFiniteSet(Live), NEW F, \A s \in Live : F[s] \in Nat /\ F[s] = FullBlkCnt(segms[s].exts)
  PROVE  OfLive(LAMBDA s : FullBlkCnt(s.exts)) = SetSum(F, Live)
<1> DEFINE Body(T, g) == IF T = {} THEN 0
                         ELSE LET x == CHOOSE y \in T : TRUE
                              IN  FullBlkCnt(segms[x].exts) + g[T \ {x}]
           P(g) == g = [T \in SUBSET Live |-> Body(T, g)]
           iter == CHOOSE g : P(g)
           sums == [T \in SUBSET Live |-> SetSum(F, T)]
<1>1. OfLive(LAMBDA s : FullBlkCnt(s.exts)) = iter[Live]
  BY DEF OfLive, MapThenSumSet, MapThenFoldSet
<1>2. ASSUME NEW T \in SUBSET Live, NEW g
      PROVE  Body(T, g) = IF T = {} THEN 0
                          ELSE F[CHOOSE x \in T : TRUE] + g[T \ {CHOOSE x \in T : TRUE}]
  <2>1. T # {} => (CHOOSE x \in T : TRUE) \in Live
    OBVIOUS
  <2> QED
    BY <2>1
<1> HIDE DEF Body
<1>3. P(sums)
  <2>1. SetSumLoop(sums, F, Live)
    BY SetSumIsLoop
  <2>2. ASSUME NEW T \in SUBSET Live PROVE sums[T] = Body(T, sums)
    BY <1>2, <2>1 DEF SetSumLoop
  <2>3. sums = [T \in SUBSET Live |-> sums[T]]
    OBVIOUS
  <2> HIDE DEF sums
  <2> QED
    BY <2>2, <2>3
<1> HIDE DEF sums
<1>4. P(iter)
  <2> HIDE DEF P
  <2> QED
    BY <1>3
<1> HIDE DEF iter
<1>5. SetSumLoop(iter, F, Live)
  BY <1>2, <1>4 DEF SetSumLoop
<1>6. Live \in SUBSET Live /\ \A s \in Live : F[s] \in Nat
  OBVIOUS
<1>7. iter[Live] = SetSum(F, Live)
  BY ONLY IsFiniteSet(Live), <1>5, <1>6, SetSumByLoop
<1> QED
  BY <1>1, <1>7

\* Their subblocks.
LEMMA SubblksOfLive ==
  ASSUME IsFiniteSet(Live), NEW F, \A s \in Live : F[s] \in Nat /\ F[s] = SubblkCntOf(segms[s].exts)
  PROVE  OfLive(LAMBDA s : SubblkCntOf(s.exts)) = SetSum(F, Live)
<1> DEFINE Body(T, g) == IF T = {} THEN 0
                         ELSE LET x == CHOOSE y \in T : TRUE
                              IN  SubblkCntOf(segms[x].exts) + g[T \ {x}]
           P(g) == g = [T \in SUBSET Live |-> Body(T, g)]
           iter == CHOOSE g : P(g)
           sums == [T \in SUBSET Live |-> SetSum(F, T)]
<1>1. OfLive(LAMBDA s : SubblkCntOf(s.exts)) = iter[Live]
  BY DEF OfLive, MapThenSumSet, MapThenFoldSet
<1>2. ASSUME NEW T \in SUBSET Live, NEW g
      PROVE  Body(T, g) = IF T = {} THEN 0
                          ELSE F[CHOOSE x \in T : TRUE] + g[T \ {CHOOSE x \in T : TRUE}]
  <2>1. T # {} => (CHOOSE x \in T : TRUE) \in Live
    OBVIOUS
  <2> QED
    BY <2>1
<1> HIDE DEF Body
<1>3. P(sums)
  <2>1. SetSumLoop(sums, F, Live)
    BY SetSumIsLoop
  <2>2. ASSUME NEW T \in SUBSET Live PROVE sums[T] = Body(T, sums)
    BY <1>2, <2>1 DEF SetSumLoop
  <2>3. sums = [T \in SUBSET Live |-> sums[T]]
    OBVIOUS
  <2> HIDE DEF sums
  <2> QED
    BY <2>2, <2>3
<1> HIDE DEF sums
<1>4. P(iter)
  <2> HIDE DEF P
  <2> QED
    BY <1>3
<1> HIDE DEF iter
<1>5. SetSumLoop(iter, F, Live)
  BY <1>2, <1>4 DEF SetSumLoop
<1>6. Live \in SUBSET Live /\ \A s \in Live : F[s] \in Nat
  OBVIOUS
<1>7. iter[Live] = SetSum(F, Live)
  BY ONLY IsFiniteSet(Live), <1>5, <1>6, SetSumByLoop
<1> QED
  BY <1>1, <1>7

\* Their extents.
LEMMA ExtCntOfLive ==
  ASSUME IsFiniteSet(Live), NEW F, \A s \in Live : F[s] \in Nat /\ F[s] = Len(segms[s].exts)
  PROVE  OfLive(LAMBDA s : Len(s.exts)) = SetSum(F, Live)
<1> DEFINE Body(T, g) == IF T = {} THEN 0
                         ELSE LET x == CHOOSE y \in T : TRUE
                              IN  Len(segms[x].exts) + g[T \ {x}]
           P(g) == g = [T \in SUBSET Live |-> Body(T, g)]
           iter == CHOOSE g : P(g)
           sums == [T \in SUBSET Live |-> SetSum(F, T)]
<1>1. OfLive(LAMBDA s : Len(s.exts)) = iter[Live]
  BY DEF OfLive, MapThenSumSet, MapThenFoldSet
<1>2. ASSUME NEW T \in SUBSET Live, NEW g
      PROVE  Body(T, g) = IF T = {} THEN 0
                          ELSE F[CHOOSE x \in T : TRUE] + g[T \ {CHOOSE x \in T : TRUE}]
  <2>1. T # {} => (CHOOSE x \in T : TRUE) \in Live
    OBVIOUS
  <2> QED
    BY <2>1
<1> HIDE DEF Body
<1>3. P(sums)
  <2>1. SetSumLoop(sums, F, Live)
    BY SetSumIsLoop
  <2>2. ASSUME NEW T \in SUBSET Live PROVE sums[T] = Body(T, sums)
    BY <1>2, <2>1 DEF SetSumLoop
  <2>3. sums = [T \in SUBSET Live |-> sums[T]]
    OBVIOUS
  <2> HIDE DEF sums
  <2> QED
    BY <2>2, <2>3
<1> HIDE DEF sums
<1>4. P(iter)
  <2> HIDE DEF P
  <2> QED
    BY <1>3
<1> HIDE DEF iter
<1>5. SetSumLoop(iter, F, Live)
  BY <1>2, <1>4 DEF SetSumLoop
<1>6. Live \in SUBSET Live /\ \A s \in Live : F[s] \in Nat
  OBVIOUS
<1>7. iter[Live] = SetSum(F, Live)
  BY ONLY IsFiniteSet(Live), <1>5, <1>6, SetSumByLoop
<1> QED
  BY <1>1, <1>7

\* Their inline bytes.
LEMMA InlineOfLive ==
  ASSUME IsFiniteSet(Live), NEW F, \A s \in Live : F[s] \in Nat /\ F[s] = segms[s].inline_sz
  PROVE  OfLive(LAMBDA s : s.inline_sz) = SetSum(F, Live)
<1> DEFINE Body(T, g) == IF T = {} THEN 0
                         ELSE LET x == CHOOSE y \in T : TRUE
                              IN  segms[x].inline_sz + g[T \ {x}]
           P(g) == g = [T \in SUBSET Live |-> Body(T, g)]
           iter == CHOOSE g : P(g)
           sums == [T \in SUBSET Live |-> SetSum(F, T)]
<1>1. OfLive(LAMBDA s : s.inline_sz) = iter[Live]
  BY DEF OfLive, MapThenSumSet, MapThenFoldSet
<1>2. ASSUME NEW T \in SUBSET Live, NEW g
      PROVE  Body(T, g) = IF T = {} THEN 0
                          ELSE F[CHOOSE x \in T : TRUE] + g[T \ {CHOOSE x \in T : TRUE}]
  <2>1. T # {} => (CHOOSE x \in T : TRUE) \in Live
    OBVIOUS
  <2> QED
    BY <2>1
<1> HIDE DEF Body
<1>3. P(sums)
  <2>1. SetSumLoop(sums, F, Live)
    BY SetSumIsLoop
  <2>2. ASSUME NEW T \in SUBSET Live PROVE sums[T] = Body(T, sums)
    BY <1>2, <2>1 DEF SetSumLoop
  <2>3. sums = [T \in SUBSET Live |-> sums[T]]
    OBVIOUS
  <2> HIDE DEF sums
  <2> QED
    BY <2>2, <2>3
<1> HIDE DEF sums
<1>4. P(iter)
  <2> HIDE DEF P
  <2> QED
    BY <1>3
<1> HIDE DEF iter
<1>5. SetSumLoop(iter, F, Live)
  BY <1>2, <1>4 DEF SetSumLoop
<1>6. Live \in SUBSET Live /\ \A s \in Live : F[s] \in Nat
  OBVIOUS
<1>7. iter[Live] = SetSum(F, Live)
  BY ONLY IsFiniteSet(Live), <1>5, <1>6, SetSumByLoop
<1> QED
  BY <1>1, <1>7

-----------------------------------------------------------------------------
(* What the counters count, of a sequence of extents and of a segment *)

\* The sum over the extents of what each one counts for.
CountOver(f, exts) == SumOf([i \in DOMAIN exts |-> f[exts[i]]])

SzOf == [e \in Extents |-> ExtSz(e)]
FullBlksOf == [e \in Extents |-> IF e.is_suballoc THEN 0 ELSE e.blk_cnt]
SubblksOf == [e \in Extents |-> IF e.is_suballoc THEN SubblkCnt(e) ELSE 0]

\* The numbers of a sequence of extents.
LEMMA NumbersOfExts ==
  ASSUME NEW f \in [Extents -> Nat], NEW exts \in Seq(Extents)
  PROVE  LET a == [i \in DOMAIN exts |-> f[exts[i]]]
         IN  /\ a \in Seq(Nat) /\ Len(a) = Len(exts)
             /\ \A i \in 1 .. Len(exts) : a[i] = f[exts[i]] /\ a[i] \in Nat
<1>1. /\ Len(exts) \in Nat /\ DOMAIN exts = 1 .. Len(exts)
      /\ \A i \in 1 .. Len(exts) : exts[i] \in Extents
  BY LenProperties, ElementOfSeq
<1>2. [i \in DOMAIN exts |-> f[exts[i]]] \in [1 .. Len(exts) -> Nat]
  BY <1>1
<1> QED
  BY <1>1, <1>2, FunctionIsSeq

\* What two sequences of extents count for, one after the other.
LEMMA CountOverConcat ==
  ASSUME NEW f \in [Extents -> Nat], NEW s \in Seq(Extents), NEW t \in Seq(Extents)
  PROVE  /\ CountOver(f, s) \in Nat /\ CountOver(f, t) \in Nat
         /\ CountOver(f, s \o t) = CountOver(f, s) + CountOver(f, t)
<1> DEFINE u == s \o t
           a == [i \in DOMAIN s |-> f[s[i]]]
           b == [i \in DOMAIN t |-> f[t[i]]]
           c == [i \in DOMAIN u |-> f[u[i]]]
<1>1. /\ u \in Seq(Extents) /\ Len(u) = Len(s) + Len(t)
      /\ \A i \in 1 .. Len(s) + Len(t) : u[i] = IF i <= Len(s) THEN s[i] ELSE t[i - Len(s)]
      /\ Len(s) \in Nat /\ Len(t) \in Nat
  BY ConcatProperties, LenProperties
<1> HIDE DEF u
<1>2. /\ a \in Seq(Nat) /\ Len(a) = Len(s) /\ CountOver(f, s) = SumOf(a)
      /\ \A i \in 1 .. Len(s) : a[i] = f[s[i]]
  BY NumbersOfExts DEF CountOver
<1>3. /\ b \in Seq(Nat) /\ Len(b) = Len(t) /\ CountOver(f, t) = SumOf(b)
      /\ \A i \in 1 .. Len(t) : b[i] = f[t[i]]
  BY NumbersOfExts DEF CountOver
<1>4. /\ c \in Seq(Nat) /\ Len(c) = Len(u) /\ CountOver(f, u) = SumOf(c)
      /\ \A i \in 1 .. Len(u) : c[i] = f[u[i]]
  BY <1>1, NumbersOfExts DEF CountOver
<1> HIDE DEF a, b, c
<1>5. /\ a \o b \in Seq(Nat) /\ Len(a \o b) = Len(c)
      /\ \A i \in 1 .. Len(s) + Len(t) : (a \o b)[i] = IF i <= Len(s) THEN a[i] ELSE b[i - Len(s)]
  <2>1. /\ a \o b \in Seq(Nat)
        /\ Len(a \o b) = Len(a) + Len(b)
        /\ \A i \in 1 .. Len(a) + Len(b) :
             (a \o b)[i] = IF i <= Len(a) THEN a[i] ELSE b[i - Len(a)]
    BY <1>2, <1>3, ConcatProperties
  <2> QED
    BY <1>1, <1>2, <1>3, <1>4, <2>1
<1>6. ASSUME NEW i \in 1 .. Len(s) + Len(t) PROVE c[i] = (a \o b)[i]
  <2>1. CASE i <= Len(s)
    <3>1. i \in 1 .. Len(s)
      BY <1>1, <2>1
    <3> QED
      BY <1>1, <1>2, <1>4, <1>5, <2>1, <3>1
  <2>2. CASE ~ (i <= Len(s))
    <3>1. i - Len(s) \in 1 .. Len(t)
      BY <1>1, <2>2
    <3>2. c[i] = f[u[i]] /\ u[i] = t[i - Len(s)] /\ (a \o b)[i] = b[i - Len(s)]
      BY <1>1, <1>4, <1>5, <2>2
    <3> QED
      BY <1>3, <3>1, <3>2
  <2> QED
    BY <2>1, <2>2
<1>7. c = a \o b
  <2>1. \A i \in 1 .. Len(c) : c[i] = (a \o b)[i]
    BY <1>1, <1>4, <1>6
  <2> QED
    BY <1>4, <1>5, <2>1, SeqEqual
<1> QED
  BY <1>2, <1>3, <1>4, <1>7, SumConcat DEF u

\* What no extent counts for.
LEMMA CountOverNone ==
  ASSUME NEW f \in [Extents -> Nat]
  PROVE  CountOver(f, << >>) = 0
<1> DEFINE a == [i \in DOMAIN << >> |-> f[<< >>[i]]]
<1>1. << >> \in Seq(Extents) /\ Len(<< >>) = 0
  BY EmptySeq
<1>2. a \in Seq(Nat) /\ Len(a) = 0
  BY <1>1, NumbersOfExts
<1>3. CountOver(f, << >>) = SumOf(a)
  BY DEF CountOver
<1> HIDE DEF a
<1>4. a = << >>
  BY <1>2, EmptySeq
<1> QED
  BY <1>3, <1>4, SumOfFew

\* The same numbers in the reverse order have the same sum.
LEMMA SumReversed ==
  ASSUME NEW a \in Seq(Nat), NEW b \in Seq(Nat), Len(b) = Len(a),
         \A i \in 1 .. Len(a) : b[i] = a[(Len(a) - i) + 1]
  PROVE  SumOf(b) = SumOf(a)
<1> DEFINE L == Len(a)
<1>0. L \in Nat
  BY LenProperties
<1>1. PICK x : SumLoop(x, a)
  BY SumSteps
<1>2. PICK y : SumLoop(y, b)
  BY SumSteps
<1>3. /\ SumOf(a) = x[L] /\ SumOf(b) = y[L] /\ x[0] = 0 /\ y[0] = 0
      /\ \A n \in 1 .. L : x[n] = x[n - 1] + a[n] /\ y[n] = y[n - 1] + b[n]
      /\ \A i \in 1 .. L : b[i] = a[(L - i) + 1]
  BY <1>1, <1>2 DEF SumLoop
<1>4. /\ \A n \in 0 .. L : x[n] \in Nat /\ y[n] \in Nat
      /\ \A n \in 1 .. L : a[n] \in Nat
  BY <1>1, <1>2, SumIsNat, ElementOfSeq
<1> DEFINE Bad == {k \in 0 .. L : y[k] + x[L - k] # x[L]}
<1> HIDE DEF L
<1>5. ASSUME Bad # {} PROVE FALSE
  <2>1. Bad \in SUBSET Nat
    BY <1>0
  <2>2. PICK k \in Bad : \A j \in Bad : k <= j
    <3> HIDE DEF Bad
    <3> QED
      BY <1>5, <2>1, LeastExists
  <2>3. k \in 0 .. L /\ y[k] + x[L - k] # x[L]
    BY <2>2
  <2>4. k # 0
    <3>1. L - 0 = L /\ 0 + x[L] = x[L]
      BY <1>0, <1>4
    <3> QED
      BY <1>3, <2>3, <3>1
  <2>5. k - 1 \in 0 .. L /\ k \in 1 .. L /\ ~ (k <= k - 1)
    BY <1>0, <2>3, <2>4
  <2>6. k - 1 \notin Bad
    <3> HIDE DEF Bad
    <3> QED
      BY <2>2, <2>5
  <2>7. y[k - 1] + x[L - (k - 1)] = x[L]
    BY <2>5, <2>6
  <2> DEFINE m == (L - k) + 1
  <2>8. /\ m \in 1 .. L /\ L - (k - 1) = m /\ m - 1 = L - k
        /\ m \in 0 .. L /\ L - k \in 0 .. L
    BY <1>0, <2>5
  <2>9. y[k] = y[k - 1] + a[m] /\ x[m] = x[m - 1] + a[m]
    BY <1>3, <2>5, <2>8
  <2>10. /\ y[k - 1] \in Nat /\ y[k] \in Nat /\ a[m] \in Nat
         /\ x[m] \in Nat /\ x[L - k] \in Nat
    BY <1>4, <2>3, <2>5, <2>8
  <2> HIDE DEF m
  <2>11. /\ x[L] = y[k - 1] + x[m]
         /\ x[m] = x[L - k] + a[m]
    BY <2>7, <2>8, <2>9
  <2>12. y[k] + x[L - k] = x[L]
    <3>1. \A p, q, z \in Nat : (p + q) + z = p + (z + q)
      OBVIOUS
    <3>2. (y[k - 1] + a[m]) + x[L - k] = y[k - 1] + (x[L - k] + a[m])
      BY ONLY <2>10, <3>1
    <3> QED
      BY ONLY <2>9, <2>11, <3>2
  <2> QED
    BY <2>3, <2>12
<1>6. y[L] + x[L - L] = x[L]
  <2>1. L \in 0 .. L
    BY <1>0
  <2> QED
    BY <1>5, <2>1
<1>7. L - L = 0 /\ y[L] \in Nat
  BY <1>0, <1>4
<1> QED
  BY <1>3, <1>6, <1>7

\* The order of the extents does not count.
LEMMA CountOverReverse ==
  ASSUME NEW f \in [Extents -> Nat], NEW exts \in Seq(Extents)
  PROVE  CountOver(f, Reverse(exts)) = CountOver(f, exts)
<1> DEFINE r == Reverse(exts)
           a == [i \in DOMAIN exts |-> f[exts[i]]]
           b == [i \in DOMAIN r |-> f[r[i]]]
<1>1. r \in Seq(Extents) /\ Len(exts) \in Nat
  BY ReverseFacts, LenProperties
<1>2. r = [i \in 1 .. Len(exts) |-> exts[(Len(exts) - i) + 1]]
  BY DEF Reverse
<1> HIDE DEF r
<1>3. Len(r) = Len(exts)
  <2>1. DOMAIN r = 1 .. Len(exts) /\ DOMAIN r = 1 .. Len(r) /\ Len(r) \in Nat
    BY <1>1, <1>2, LenProperties
  <2>2. \A x, y \in Nat : x < y => y \in 1 .. y /\ y \notin 1 .. x
    OBVIOUS
  <2>3. ~ (Len(r) < Len(exts)) /\ ~ (Len(exts) < Len(r))
    BY <1>1, <2>1, <2>2
  <2> QED
    BY <1>1, <2>1, <2>3
<1>4. /\ a \in Seq(Nat) /\ Len(a) = Len(exts) /\ CountOver(f, exts) = SumOf(a)
      /\ \A i \in 1 .. Len(exts) : a[i] = f[exts[i]]
  BY NumbersOfExts DEF CountOver
<1>5. /\ b \in Seq(Nat) /\ Len(b) = Len(exts) /\ CountOver(f, r) = SumOf(b)
      /\ \A i \in 1 .. Len(exts) : b[i] = f[r[i]]
  BY <1>1, <1>3, NumbersOfExts DEF CountOver
<1> HIDE DEF a, b
<1>6. \A i \in 1 .. Len(a) : b[i] = a[(Len(a) - i) + 1]
  <2>1. \A i \in 1 .. Len(exts) : (Len(exts) - i) + 1 \in 1 .. Len(exts)
    BY <1>1
  <2> SUFFICES ASSUME NEW i \in 1 .. Len(exts)
               PROVE  b[i] = a[(Len(exts) - i) + 1]
    BY <1>4
  <2> DEFINE j == (Len(exts) - i) + 1
  <2>2. j \in 1 .. Len(exts) /\ r[i] = exts[j]
    BY <1>2, <2>1
  <2> HIDE DEF j
  <2>3. b[i] = a[j]
    BY <1>4, <1>5, <2>2
  <2> QED
    BY <2>3 DEF j
<1> QED
  BY <1>4, <1>5, <1>6, SumReversed DEF r

\* The counts of a sequence of extents are such sums.
LEMMA CountsAreOver ==
  /\ SzOf \in [Extents -> Nat] /\ FullBlksOf \in [Extents -> Nat] /\ SubblksOf \in [Extents -> Nat]
  /\ \A exts \in Seq(Extents) :
       /\ ExtsSz(exts) = CountOver(SzOf, exts)
       /\ FullBlkCnt(exts) = CountOver(FullBlksOf, exts)
       /\ SubblkCntOf(exts) = CountOver(SubblksOf, exts)
<1>1. SzOf \in [Extents -> Nat]
  BY ExtSzFacts DEF SzOf
<1>2. FullBlksOf \in [Extents -> Nat]
  <2>1. \A x \in Extents : ~ x.is_suballoc => x \in FullExtents
    BY DEF Extents
  <2>2. BlkCnts \subseteq Nat
    BY ExtentAssumption DEF BlkCnts
  <2>3. \A x \in Extents : ~ x.is_suballoc => x.blk_cnt \in Nat
    BY <2>1, <2>2, FullExtentFacts
  <2> QED
    BY <2>3 DEF FullBlksOf
<1>3. SubblksOf \in [Extents -> Nat]
  <2>1. IsFiniteSet(Subblks)
    BY FS_Interval, ExtentAssumption DEF Subblks
  <2>2. ASSUME NEW x \in Extents, x.is_suballoc PROVE SubblkCnt(x) \in Nat
    <3>1. x.blk_bitmap \subseteq Subblks
      BY <2>2, ExtentUnits
    <3>2. IsFiniteSet(x.blk_bitmap)
      BY <2>1, <3>1, FS_Subset
    <3> QED
      BY <3>2, FS_CardinalityType DEF SubblkCnt
  <2> QED
    BY <2>2 DEF SubblksOf
<1>4. ASSUME NEW exts \in Seq(Extents)
      PROVE  /\ ExtsSz(exts) = CountOver(SzOf, exts)
             /\ FullBlkCnt(exts) = CountOver(FullBlksOf, exts)
             /\ SubblkCntOf(exts) = CountOver(SubblksOf, exts)
  <2>1. \A i \in DOMAIN exts : exts[i] \in Extents
    BY LenProperties, ElementOfSeq
  <2>2. [i \in DOMAIN exts |-> SzOf[exts[i]]] = [i \in DOMAIN exts |-> ExtSz(exts[i])]
    BY <2>1 DEF SzOf
  <2>3. [i \in DOMAIN exts |-> FullBlksOf[exts[i]]]
          = [i \in DOMAIN exts |-> IF exts[i].is_suballoc THEN 0 ELSE exts[i].blk_cnt]
    BY <2>1 DEF FullBlksOf
  <2>4. [i \in DOMAIN exts |-> SubblksOf[exts[i]]]
          = [i \in DOMAIN exts |-> IF exts[i].is_suballoc THEN SubblkCnt(exts[i]) ELSE 0]
    BY <2>1 DEF SubblksOf
  <2> QED
    BY <2>2, <2>3, <2>4 DEF ExtsSz, FullBlkCnt, SubblkCntOf, Total, CountOver
<1> QED
  BY <1>1, <1>2, <1>3, <1>4

\* The counts of two sequences of extents, of one in the reverse order and of
\* no extent.
LEMMA SpaceOfExts ==
  /\ \A s, t \in Seq(Extents) :
       /\ ExtsSz(s) \in Nat /\ FullBlkCnt(s) \in Nat /\ SubblkCntOf(s) \in Nat
       /\ ExtsSz(s \o t) = ExtsSz(s) + ExtsSz(t)
       /\ FullBlkCnt(s \o t) = FullBlkCnt(s) + FullBlkCnt(t)
       /\ SubblkCntOf(s \o t) = SubblkCntOf(s) + SubblkCntOf(t)
  /\ \A s \in Seq(Extents) :
       /\ ExtsSz(Reverse(s)) = ExtsSz(s)
       /\ FullBlkCnt(Reverse(s)) = FullBlkCnt(s)
       /\ SubblkCntOf(Reverse(s)) = SubblkCntOf(s)
  /\ ExtsSz(<< >>) = 0 /\ FullBlkCnt(<< >>) = 0 /\ SubblkCntOf(<< >>) = 0
<1>1. ASSUME NEW s \in Seq(Extents), NEW t \in Seq(Extents)
      PROVE  /\ ExtsSz(s) \in Nat /\ FullBlkCnt(s) \in Nat /\ SubblkCntOf(s) \in Nat
             /\ ExtsSz(s \o t) = ExtsSz(s) + ExtsSz(t)
             /\ FullBlkCnt(s \o t) = FullBlkCnt(s) + FullBlkCnt(t)
             /\ SubblkCntOf(s \o t) = SubblkCntOf(s) + SubblkCntOf(t)
  <2>1. s \o t \in Seq(Extents)
    BY ConcatProperties
  <2>2. /\ CountOver(SzOf, s) \in Nat
        /\ CountOver(SzOf, s \o t) = CountOver(SzOf, s) + CountOver(SzOf, t)
    BY CountsAreOver, CountOverConcat
  <2>3. /\ CountOver(FullBlksOf, s) \in Nat
        /\ CountOver(FullBlksOf, s \o t) = CountOver(FullBlksOf, s) + CountOver(FullBlksOf, t)
    BY CountsAreOver, CountOverConcat
  <2>4. /\ CountOver(SubblksOf, s) \in Nat
        /\ CountOver(SubblksOf, s \o t) = CountOver(SubblksOf, s) + CountOver(SubblksOf, t)
    BY CountsAreOver, CountOverConcat
  <2> QED
    BY <2>1, <2>2, <2>3, <2>4, CountsAreOver
<1>2. ASSUME NEW s \in Seq(Extents)
      PROVE  /\ ExtsSz(Reverse(s)) = ExtsSz(s)
             /\ FullBlkCnt(Reverse(s)) = FullBlkCnt(s)
             /\ SubblkCntOf(Reverse(s)) = SubblkCntOf(s)
  <2>1. Reverse(s) \in Seq(Extents)
    BY ReverseFacts
  <2>2. /\ CountOver(SzOf, Reverse(s)) = CountOver(SzOf, s)
        /\ CountOver(FullBlksOf, Reverse(s)) = CountOver(FullBlksOf, s)
        /\ CountOver(SubblksOf, Reverse(s)) = CountOver(SubblksOf, s)
    BY CountsAreOver, CountOverReverse
  <2> QED
    BY <2>1, <2>2, CountsAreOver
<1>3. ExtsSz(<< >>) = 0 /\ FullBlkCnt(<< >>) = 0 /\ SubblkCntOf(<< >>) = 0
  <2>1. << >> \in Seq(Extents)
    BY EmptySeq
  <2>2. /\ CountOver(SzOf, << >>) = 0
        /\ CountOver(FullBlksOf, << >>) = 0
        /\ CountOver(SubblksOf, << >>) = 0
    BY CountsAreOver, CountOverNone
  <2> QED
    BY <2>1, <2>2, CountsAreOver
<1> QED
  BY <1>1, <1>2, <1>3

-----------------------------------------------------------------------------
(* What the counters count, of all the segments *)

BytesOf(s) == IF s = NoSegm THEN 0 ELSE SegmSz(s)
BlksIn(s) == IF s = NoSegm THEN 0 ELSE FullBlkCnt(s.exts)
SubblksIn(s) == IF s = NoSegm THEN 0 ELSE SubblkCntOf(s.exts)
ExtCntIn(s) == IF s = NoSegm THEN 0 ELSE Len(s.exts)
InlineIn(s) == IF s = NoSegm THEN 0 ELSE s.inline_sz

BytesHeld == SetSum([s \in Slots |-> BytesOf(segms[s])], Slots)
BlksHeld == SetSum([s \in Slots |-> BlksIn(segms[s])], Slots)
SubblksHeld == SetSum([s \in Slots |-> SubblksIn(segms[s])], Slots)
ExtsHeld == SetSum([s \in Slots |-> ExtCntIn(segms[s])], Slots)
InlineHeld == SetSum([s \in Slots |-> InlineIn(segms[s])], Slots)

\* What a segment counts for.
LEMMA SegmNumbers ==
  ASSUME NEW s \in Segms \cup {NoSegm}
  PROVE  /\ BytesOf(s) \in Nat /\ BlksIn(s) \in Nat /\ SubblksIn(s) \in Nat
         /\ ExtCntIn(s) \in Nat /\ InlineIn(s) \in Nat
<1>1. CASE s = NoSegm
  BY <1>1 DEF BytesOf, BlksIn, SubblksIn, ExtCntIn, InlineIn
<1>2. CASE s # NoSegm
  <2>1. s.exts \in Seq(Extents) /\ s.inline_sz \in 0 .. BlkSz /\ BlkSz \in Nat
    BY <1>2, SegmentAllocatorAssumption DEF Segms
  <2>2. /\ ExtsSz(s.exts) \in Nat /\ FullBlkCnt(s.exts) \in Nat /\ SubblkCntOf(s.exts) \in Nat
        /\ Len(s.exts) \in Nat /\ s.inline_sz \in Nat
    BY <2>1, SpaceOfExts, LenProperties
  <2> QED
    BY <1>2, <2>2 DEF BytesOf, BlksIn, SubblksIn, ExtCntIn, InlineIn, SegmSz
<1> QED
  BY <1>1, <1>2

\* One segment changes.
LEMMA HeldChanges ==
  ASSUME segms \in [Slots -> Segms \cup {NoSegm}], NEW slot \in Slots,
         NEW t \in Segms \cup {NoSegm}, segms' = [segms EXCEPT ![slot] = t]
  PROVE  /\ BytesHeld' = BytesHeld - BytesOf(segms[slot]) + BytesOf(t)
         /\ BlksHeld' = BlksHeld - BlksIn(segms[slot]) + BlksIn(t)
         /\ SubblksHeld' = SubblksHeld - SubblksIn(segms[slot]) + SubblksIn(t)
         /\ ExtsHeld' = ExtsHeld - ExtCntIn(segms[slot]) + ExtCntIn(t)
         /\ InlineHeld' = InlineHeld - InlineIn(segms[slot]) + InlineIn(t)
<1>1. /\ segms' \in [Slots -> Segms \cup {NoSegm}]
      /\ \A s \in Slots : segms'[s] = IF s = slot THEN t ELSE segms[s]
  OBVIOUS
<1>2. IsFiniteSet(Slots)
  BY SegmentAllocatorAssumption
<1>3. BytesHeld' = BytesHeld - BytesOf(segms[slot]) + BytesOf(t)
  <2> DEFINE F == [s \in Slots |-> BytesOf(segms[s])]
             G == [s \in Slots |-> BytesOf(segms'[s])]
  <2>1. /\ \A s \in Slots : F[s] \in Nat /\ G[s] \in Nat
        /\ \A s \in Slots \ {slot} : G[s] = F[s]
        /\ F[slot] = BytesOf(segms[slot]) /\ G[slot] = BytesOf(t)
    BY <1>1, SegmNumbers
  <2>2. BytesHeld = SetSum(F, Slots) /\ BytesHeld' = SetSum(G, Slots)
    BY DEF BytesHeld, BytesOf
  <2> HIDE DEF F, G
  <2>3. SetSum(G, Slots) = SetSum(F, Slots) - F[slot] + G[slot]
    BY <1>2, <2>1, SetSumChanges
  <2> QED
    BY <2>1, <2>2, <2>3
<1>4. BlksHeld' = BlksHeld - BlksIn(segms[slot]) + BlksIn(t)
  <2> DEFINE F == [s \in Slots |-> BlksIn(segms[s])]
             G == [s \in Slots |-> BlksIn(segms'[s])]
  <2>1. /\ \A s \in Slots : F[s] \in Nat /\ G[s] \in Nat
        /\ \A s \in Slots \ {slot} : G[s] = F[s]
        /\ F[slot] = BlksIn(segms[slot]) /\ G[slot] = BlksIn(t)
    BY <1>1, SegmNumbers
  <2>2. BlksHeld = SetSum(F, Slots) /\ BlksHeld' = SetSum(G, Slots)
    BY DEF BlksHeld, BlksIn
  <2> HIDE DEF F, G
  <2>3. SetSum(G, Slots) = SetSum(F, Slots) - F[slot] + G[slot]
    BY <1>2, <2>1, SetSumChanges
  <2> QED
    BY <2>1, <2>2, <2>3
<1>5. SubblksHeld' = SubblksHeld - SubblksIn(segms[slot]) + SubblksIn(t)
  <2> DEFINE F == [s \in Slots |-> SubblksIn(segms[s])]
             G == [s \in Slots |-> SubblksIn(segms'[s])]
  <2>1. /\ \A s \in Slots : F[s] \in Nat /\ G[s] \in Nat
        /\ \A s \in Slots \ {slot} : G[s] = F[s]
        /\ F[slot] = SubblksIn(segms[slot]) /\ G[slot] = SubblksIn(t)
    BY <1>1, SegmNumbers
  <2>2. SubblksHeld = SetSum(F, Slots) /\ SubblksHeld' = SetSum(G, Slots)
    BY DEF SubblksHeld, SubblksIn
  <2> HIDE DEF F, G
  <2>3. SetSum(G, Slots) = SetSum(F, Slots) - F[slot] + G[slot]
    BY <1>2, <2>1, SetSumChanges
  <2> QED
    BY <2>1, <2>2, <2>3
<1>6. ExtsHeld' = ExtsHeld - ExtCntIn(segms[slot]) + ExtCntIn(t)
  <2> DEFINE F == [s \in Slots |-> ExtCntIn(segms[s])]
             G == [s \in Slots |-> ExtCntIn(segms'[s])]
  <2>1. /\ \A s \in Slots : F[s] \in Nat /\ G[s] \in Nat
        /\ \A s \in Slots \ {slot} : G[s] = F[s]
        /\ F[slot] = ExtCntIn(segms[slot]) /\ G[slot] = ExtCntIn(t)
    BY <1>1, SegmNumbers
  <2>2. ExtsHeld = SetSum(F, Slots) /\ ExtsHeld' = SetSum(G, Slots)
    BY DEF ExtsHeld, ExtCntIn
  <2> HIDE DEF F, G
  <2>3. SetSum(G, Slots) = SetSum(F, Slots) - F[slot] + G[slot]
    BY <1>2, <2>1, SetSumChanges
  <2> QED
    BY <2>1, <2>2, <2>3
<1>7. InlineHeld' = InlineHeld - InlineIn(segms[slot]) + InlineIn(t)
  <2> DEFINE F == [s \in Slots |-> InlineIn(segms[s])]
             G == [s \in Slots |-> InlineIn(segms'[s])]
  <2>1. /\ \A s \in Slots : F[s] \in Nat /\ G[s] \in Nat
        /\ \A s \in Slots \ {slot} : G[s] = F[s]
        /\ F[slot] = InlineIn(segms[slot]) /\ G[slot] = InlineIn(t)
    BY <1>1, SegmNumbers
  <2>2. InlineHeld = SetSum(F, Slots) /\ InlineHeld' = SetSum(G, Slots)
    BY DEF InlineHeld, InlineIn
  <2> HIDE DEF F, G
  <2>3. SetSum(G, Slots) = SetSum(F, Slots) - F[slot] + G[slot]
    BY <1>2, <2>1, SetSumChanges
  <2> QED
    BY <2>1, <2>2, <2>3
<1> QED
  BY <1>3, <1>4, <1>5, <1>6, <1>7

\* What they count for in all is a number, and none at first.
LEMMA HeldNumbers ==
  ASSUME segms \in [Slots -> Segms \cup {NoSegm}]
  PROVE  /\ BytesHeld \in Nat /\ BlksHeld \in Nat /\ SubblksHeld \in Nat
         /\ ExtsHeld \in Nat /\ InlineHeld \in Nat
<1>1. IsFiniteSet(Slots)
  BY SegmentAllocatorAssumption
<1>2. BytesHeld \in Nat
  <2>1. \A s \in Slots : [x \in Slots |-> BytesOf(segms[x])][s] \in Nat
    BY SegmNumbers
  <2> QED
    BY <1>1, <2>1, SetSumFacts DEF BytesHeld
<1>3. BlksHeld \in Nat
  <2>1. \A s \in Slots : [x \in Slots |-> BlksIn(segms[x])][s] \in Nat
    BY SegmNumbers
  <2> QED
    BY <1>1, <2>1, SetSumFacts DEF BlksHeld
<1>4. SubblksHeld \in Nat
  <2>1. \A s \in Slots : [x \in Slots |-> SubblksIn(segms[x])][s] \in Nat
    BY SegmNumbers
  <2> QED
    BY <1>1, <2>1, SetSumFacts DEF SubblksHeld
<1>5. ExtsHeld \in Nat
  <2>1. \A s \in Slots : [x \in Slots |-> ExtCntIn(segms[x])][s] \in Nat
    BY SegmNumbers
  <2> QED
    BY <1>1, <2>1, SetSumFacts DEF ExtsHeld
<1>6. InlineHeld \in Nat
  <2>1. \A s \in Slots : [x \in Slots |-> InlineIn(segms[x])][s] \in Nat
    BY SegmNumbers
  <2> QED
    BY <1>1, <2>1, SetSumFacts DEF InlineHeld
<1> QED
  BY <1>2, <1>3, <1>4, <1>5, <1>6

\* No segment counts for nothing.
LEMMA HeldByNone ==
  ASSUME segms = [s \in Slots |-> NoSegm]
  PROVE  /\ BytesHeld = 0 /\ BlksHeld = 0 /\ SubblksHeld = 0 /\ ExtsHeld = 0 /\ InlineHeld = 0
<1>1. IsFiniteSet({}) /\ {} \in SUBSET Slots
  BY FS_EmptySet
<1>2. BytesHeld = 0
  <2> DEFINE F == [s \in Slots |-> BytesOf(segms[s])]
  <2>1. \A s \in Slots : F[s] = 0
    BY DEF BytesOf
  <2>2. BytesHeld = SetSum(F, Slots)
    BY DEF BytesHeld
  <2> HIDE DEF F
  <2>3. SetSum(F, Slots) = SetSum(F, {}) /\ SetSum(F, {}) = 0
    BY <1>1, <2>1, SetSumOfSome, SetSumFacts
  <2> QED
    BY <2>2, <2>3
<1>3. BlksHeld = 0
  <2> DEFINE F == [s \in Slots |-> BlksIn(segms[s])]
  <2>1. \A s \in Slots : F[s] = 0
    BY DEF BlksIn
  <2>2. BlksHeld = SetSum(F, Slots)
    BY DEF BlksHeld
  <2> HIDE DEF F
  <2>3. SetSum(F, Slots) = SetSum(F, {}) /\ SetSum(F, {}) = 0
    BY <1>1, <2>1, SetSumOfSome, SetSumFacts
  <2> QED
    BY <2>2, <2>3
<1>4. SubblksHeld = 0
  <2> DEFINE F == [s \in Slots |-> SubblksIn(segms[s])]
  <2>1. \A s \in Slots : F[s] = 0
    BY DEF SubblksIn
  <2>2. SubblksHeld = SetSum(F, Slots)
    BY DEF SubblksHeld
  <2> HIDE DEF F
  <2>3. SetSum(F, Slots) = SetSum(F, {}) /\ SetSum(F, {}) = 0
    BY <1>1, <2>1, SetSumOfSome, SetSumFacts
  <2> QED
    BY <2>2, <2>3
<1>5. ExtsHeld = 0
  <2> DEFINE F == [s \in Slots |-> ExtCntIn(segms[s])]
  <2>1. \A s \in Slots : F[s] = 0
    BY DEF ExtCntIn
  <2>2. ExtsHeld = SetSum(F, Slots)
    BY DEF ExtsHeld
  <2> HIDE DEF F
  <2>3. SetSum(F, Slots) = SetSum(F, {}) /\ SetSum(F, {}) = 0
    BY <1>1, <2>1, SetSumOfSome, SetSumFacts
  <2> QED
    BY <2>2, <2>3
<1>6. InlineHeld = 0
  <2> DEFINE F == [s \in Slots |-> InlineIn(segms[s])]
  <2>1. \A s \in Slots : F[s] = 0
    BY DEF InlineIn
  <2>2. InlineHeld = SetSum(F, Slots)
    BY DEF InlineHeld
  <2> HIDE DEF F
  <2>3. SetSum(F, Slots) = SetSum(F, {}) /\ SetSum(F, {}) = 0
    BY <1>1, <2>1, SetSumOfSome, SetSumFacts
  <2> QED
    BY <2>2, <2>3
<1> QED
  BY <1>2, <1>3, <1>4, <1>5, <1>6

\* They are the sums of StatsAgree.
LEMMA HeldByLive ==
  ASSUME segms \in [Slots -> Segms \cup {NoSegm}]
  PROVE  /\ IsFiniteSet(Live)
         /\ OfLive(SegmSz) = BytesHeld
         /\ OfLive(LAMBDA s : FullBlkCnt(s.exts)) = BlksHeld
         /\ OfLive(LAMBDA s : SubblkCntOf(s.exts)) = SubblksHeld
         /\ OfLive(LAMBDA s : Len(s.exts)) = ExtsHeld
         /\ OfLive(LAMBDA s : s.inline_sz) = InlineHeld
<1>1. IsFiniteSet(Slots) /\ Live \in SUBSET Slots /\ \A s \in Slots : s \in Live <=> segms[s] # NoSegm
  BY SegmentAllocatorAssumption DEF Live
<1>2. IsFiniteSet(Live)
  BY <1>1, FS_Subset
<1>3. \A s \in Slots : segms[s] \in Segms \cup {NoSegm}
  OBVIOUS
<1>4. OfLive(SegmSz) = BytesHeld
  <2> DEFINE F == [s \in Slots |-> BytesOf(segms[s])]
  <2>1. /\ \A s \in Slots : F[s] \in Nat
        /\ \A s \in Slots \ Live : F[s] = 0
    BY <1>1, <1>3, SegmNumbers DEF BytesOf
  <2>2. \A s \in Live : F[s] = SegmSz(segms[s])
    BY <1>1 DEF BytesOf
  <2>3. BytesHeld = SetSum(F, Slots)
    BY DEF BytesHeld
  <2> HIDE DEF F
  <2>4. SetSum(F, Slots) = SetSum(F, Live)
    BY <1>1, <2>1, SetSumOfSome
  <2>5. \A s \in Live : F[s] \in Nat /\ F[s] = SegmSz(segms[s])
    BY <1>1, <2>1, <2>2
  <2>6. OfLive(SegmSz) = SetSum(F, Live)
    BY ONLY <1>2, <2>5, BytesOfLive
  <2> QED
    BY <2>3, <2>4, <2>6
<1>5. OfLive(LAMBDA s : FullBlkCnt(s.exts)) = BlksHeld
  <2> DEFINE F == [s \in Slots |-> BlksIn(segms[s])]
  <2>1. /\ \A s \in Slots : F[s] \in Nat
        /\ \A s \in Slots \ Live : F[s] = 0
    BY <1>1, <1>3, SegmNumbers DEF BlksIn
  <2>2. \A s \in Live : F[s] = FullBlkCnt(segms[s].exts)
    BY <1>1 DEF BlksIn
  <2>3. BlksHeld = SetSum(F, Slots)
    BY DEF BlksHeld
  <2> HIDE DEF F
  <2>4. SetSum(F, Slots) = SetSum(F, Live)
    BY <1>1, <2>1, SetSumOfSome
  <2>5. \A s \in Live : F[s] \in Nat /\ F[s] = FullBlkCnt(segms[s].exts)
    BY <1>1, <2>1, <2>2
  <2>6. OfLive(LAMBDA s : FullBlkCnt(s.exts)) = SetSum(F, Live)
    BY ONLY <1>2, <2>5, BlksOfLive
  <2> QED
    BY <2>3, <2>4, <2>6
<1>6. OfLive(LAMBDA s : SubblkCntOf(s.exts)) = SubblksHeld
  <2> DEFINE F == [s \in Slots |-> SubblksIn(segms[s])]
  <2>1. /\ \A s \in Slots : F[s] \in Nat
        /\ \A s \in Slots \ Live : F[s] = 0
    BY <1>1, <1>3, SegmNumbers DEF SubblksIn
  <2>2. \A s \in Live : F[s] = SubblkCntOf(segms[s].exts)
    BY <1>1 DEF SubblksIn
  <2>3. SubblksHeld = SetSum(F, Slots)
    BY DEF SubblksHeld
  <2> HIDE DEF F
  <2>4. SetSum(F, Slots) = SetSum(F, Live)
    BY <1>1, <2>1, SetSumOfSome
  <2>5. \A s \in Live : F[s] \in Nat /\ F[s] = SubblkCntOf(segms[s].exts)
    BY <1>1, <2>1, <2>2
  <2>6. OfLive(LAMBDA s : SubblkCntOf(s.exts)) = SetSum(F, Live)
    BY ONLY <1>2, <2>5, SubblksOfLive
  <2> QED
    BY <2>3, <2>4, <2>6
<1>7. OfLive(LAMBDA s : Len(s.exts)) = ExtsHeld
  <2> DEFINE F == [s \in Slots |-> ExtCntIn(segms[s])]
  <2>1. /\ \A s \in Slots : F[s] \in Nat
        /\ \A s \in Slots \ Live : F[s] = 0
    BY <1>1, <1>3, SegmNumbers DEF ExtCntIn
  <2>2. \A s \in Live : F[s] = Len(segms[s].exts)
    BY <1>1 DEF ExtCntIn
  <2>3. ExtsHeld = SetSum(F, Slots)
    BY DEF ExtsHeld
  <2> HIDE DEF F
  <2>4. SetSum(F, Slots) = SetSum(F, Live)
    BY <1>1, <2>1, SetSumOfSome
  <2>5. \A s \in Live : F[s] \in Nat /\ F[s] = Len(segms[s].exts)
    BY <1>1, <2>1, <2>2
  <2>6. OfLive(LAMBDA s : Len(s.exts)) = SetSum(F, Live)
    BY ONLY <1>2, <2>5, ExtCntOfLive
  <2> QED
    BY <2>3, <2>4, <2>6
<1>8. OfLive(LAMBDA s : s.inline_sz) = InlineHeld
  <2> DEFINE F == [s \in Slots |-> InlineIn(segms[s])]
  <2>1. /\ \A s \in Slots : F[s] \in Nat
        /\ \A s \in Slots \ Live : F[s] = 0
    BY <1>1, <1>3, SegmNumbers DEF InlineIn
  <2>2. \A s \in Live : F[s] = segms[s].inline_sz
    BY <1>1 DEF InlineIn
  <2>3. InlineHeld = SetSum(F, Slots)
    BY DEF InlineHeld
  <2> HIDE DEF F
  <2>4. SetSum(F, Slots) = SetSum(F, Live)
    BY <1>1, <2>1, SetSumOfSome
  <2>5. \A s \in Live : F[s] \in Nat /\ F[s] = segms[s].inline_sz
    BY <1>1, <2>1, <2>2
  <2>6. OfLive(LAMBDA s : s.inline_sz) = SetSum(F, Live)
    BY ONLY <1>2, <2>5, InlineOfLive
  <2> QED
    BY <2>3, <2>4, <2>6
<1> QED
  BY <1>2, <1>4, <1>5, <1>6, <1>7, <1>8

-----------------------------------------------------------------------------
(* The blocks that are for suballocation *)

MapBlks(g) == {b \in BlkNrs : g.fr_by_nr[b] # {}}
SubBlksIn(exts) == {exts[i].blk_nr : i \in {j \in 1 .. Len(exts) : exts[j].is_suballoc}}
SubBlksOfSegm(s) == IF s = NoSegm THEN {} ELSE SubBlksIn(s.exts)

\* Those with a free subblock, and those of an extent of a segment or of the
\* alloc in progress.
BlksForSub ==
  UNION {MapBlks(maps.subfr_map), SubBlksIn(InProgress),
         UNION {SubBlksOfSegm(segms[s]) : s \in Slots}}

\* The blocks of the extents for suballocation of two sequences, of one in the
\* reverse order and of few extents.
LEMMA SubBlksFacts ==
  /\ \A s, t \in Seq(Extents) : SubBlksIn(s \o t) = SubBlksIn(s) \cup SubBlksIn(t)
  /\ \A s \in Seq(Extents) :
       /\ SubBlksIn(Reverse(s)) = SubBlksIn(s)
       /\ SubBlksIn(s) \subseteq BlkNrs
       /\ \A b \in SubBlksIn(s) : \E i \in Subblks : <<b, i>> \in UnitsIn(s)
  /\ SubBlksIn(<< >>) = {}
  /\ \A e \in Extents : SubBlksIn(<<e>>) = IF e.is_suballoc THEN {e.blk_nr} ELSE {}
<1>1. ASSUME NEW s \in Seq(Extents), NEW t \in Seq(Extents)
      PROVE  SubBlksIn(s \o t) = SubBlksIn(s) \cup SubBlksIn(t)
  <2> DEFINE u == s \o t
  <2>1. /\ Len(u) = Len(s) + Len(t) /\ Len(s) \in Nat /\ Len(t) \in Nat
        /\ \A i \in 1 .. Len(s) + Len(t) : u[i] = IF i <= Len(s) THEN s[i] ELSE t[i - Len(s)]
    BY ConcatProperties, LenProperties
  <2> HIDE DEF u
  <2>2. \A i \in 1 .. Len(s) : i \in 1 .. Len(u) /\ u[i] = s[i]
    BY <2>1
  <2>3. \A i \in 1 .. Len(t) : Len(s) + i \in 1 .. Len(u) /\ u[Len(s) + i] = t[i]
    <3> SUFFICES ASSUME NEW i \in 1 .. Len(t)
                 PROVE  Len(s) + i \in 1 .. Len(u) /\ u[Len(s) + i] = t[i]
      OBVIOUS
    <3>1. /\ Len(s) + i \in 1 .. Len(s) + Len(t)
          /\ ~ (Len(s) + i <= Len(s)) /\ (Len(s) + i) - Len(s) = i
      BY <2>1
    <3> QED
      BY <2>1, <3>1
  <2>4. \A i \in 1 .. Len(u) : \/ i \in 1 .. Len(s) /\ u[i] = s[i]
                               \/ i - Len(s) \in 1 .. Len(t) /\ u[i] = t[i - Len(s)]
    BY <2>1
  <2>5. SubBlksIn(u) \subseteq SubBlksIn(s) \cup SubBlksIn(t)
    <3> SUFFICES ASSUME NEW i \in 1 .. Len(u), u[i].is_suballoc
                 PROVE  u[i].blk_nr \in SubBlksIn(s) \cup SubBlksIn(t)
      BY DEF SubBlksIn
    <3> QED
      BY <2>4 DEF SubBlksIn
  <2>6. SubBlksIn(s) \subseteq SubBlksIn(u)
    BY <2>2 DEF SubBlksIn
  <2>7. SubBlksIn(t) \subseteq SubBlksIn(u)
    <3> SUFFICES ASSUME NEW i \in 1 .. Len(t), t[i].is_suballoc
                 PROVE  t[i].blk_nr \in SubBlksIn(u)
      BY DEF SubBlksIn
    <3>1. Len(s) + i \in 1 .. Len(u) /\ u[Len(s) + i] = t[i]
      BY <2>3
    <3> QED
      BY <3>1 DEF SubBlksIn
  <2> QED
    BY <2>5, <2>6, <2>7 DEF u
<1>2. ASSUME NEW s \in Seq(Extents)
      PROVE  /\ SubBlksIn(Reverse(s)) = SubBlksIn(s)
             /\ SubBlksIn(s) \subseteq BlkNrs
             /\ \A b \in SubBlksIn(s) : \E i \in Subblks : <<b, i>> \in UnitsIn(s)
  <2> DEFINE r == Reverse(s)
  <2>1. /\ r \in Seq(Extents) /\ Len(s) \in Nat
        /\ \A i \in 1 .. Len(s) : s[i] \in Extents
    BY ReverseFacts, LenProperties, ElementOfSeq
  <2>2. r = [i \in 1 .. Len(s) |-> s[(Len(s) - i) + 1]]
    BY DEF Reverse
  <2> HIDE DEF r
  <2>3. DOMAIN r = 1 .. Len(s) /\ DOMAIN r = 1 .. Len(r)
    BY <2>1, <2>2, LenProperties
  <2>4. \A i \in 1 .. Len(s) : (Len(s) - i) + 1 \in 1 .. Len(s)
    BY <2>1
  <2>5. SubBlksIn(r) \subseteq SubBlksIn(s)
    BY <2>2, <2>3, <2>4 DEF SubBlksIn
  <2>6. SubBlksIn(s) \subseteq SubBlksIn(r)
    <3> SUFFICES ASSUME NEW i \in 1 .. Len(s), s[i].is_suballoc
                 PROVE  s[i].blk_nr \in SubBlksIn(r)
      BY DEF SubBlksIn
    <3> DEFINE j == (Len(s) - i) + 1
    <3>1. j \in 1 .. Len(s) /\ (Len(s) - j) + 1 = i
      BY <2>1
    <3> HIDE DEF j
    <3>2. j \in 1 .. Len(r) /\ r[j] = s[i]
      BY <2>2, <2>3, <3>1
    <3> QED
      BY <3>2 DEF SubBlksIn
  <2>7. ASSUME NEW i \in 1 .. Len(s), s[i].is_suballoc
        PROVE  s[i].blk_nr \in BlkNrs /\ \E k \in Subblks : <<s[i].blk_nr, k>> \in UnitsIn(s)
    <3>1. /\ s[i].blk_nr \in BlkNrs /\ s[i].blk_bitmap \subseteq Subblks /\ s[i].blk_bitmap # {}
          /\ UnitsOf(s[i]) = {s[i].blk_nr} \X s[i].blk_bitmap
      BY <2>1, <2>7, ExtentUnits
    <3>2. PICK k \in Subblks : k \in s[i].blk_bitmap
      BY <3>1
    <3>3. UnitsOf(s[i]) \subseteq UnitsIn(s)
      BY UnitsOfSeq
    <3> QED
      BY <3>1, <3>2, <3>3
  <2>8. SubBlksIn(s) \subseteq BlkNrs /\ \A b \in SubBlksIn(s) : \E i \in Subblks : <<b, i>> \in UnitsIn(s)
    BY <2>7 DEF SubBlksIn
  <2> QED
    BY <2>5, <2>6, <2>8 DEF r
<1>3. SubBlksIn(<< >>) = {}
  BY DEF SubBlksIn
<1>4. ASSUME NEW e \in Extents
      PROVE  SubBlksIn(<<e>>) = IF e.is_suballoc THEN {e.blk_nr} ELSE {}
  <2>1. Len(<<e>>) = 1 /\ <<e>>[1] = e /\ \A i \in 1 .. 1 : i = 1
    OBVIOUS
  <2> QED
    BY <2>1 DEF SubBlksIn
<1> QED
  BY <1>1, <1>2, <1>3, <1>4

\* The blocks with a free subblock after an extent is given back.
LEMMA DeallocExtBlks ==
  ASSUME NEW m, MapsFit(m), NEW e \in Extents
  PROVE  MapBlks(DeallocExt(m, e).subfr_map)
           = MapBlks(m.subfr_map) \cup (IF e.is_suballoc THEN {e.blk_nr} ELSE {})
<1>1. m = [fr_map |-> m.fr_map, subfr_map |-> m.subfr_map] /\ SubWellFormed(m.subfr_map)
  BY DEF MapsFit
<1>2. CASE ~ e.is_suballoc
  <2>1. DeallocExt(m, e).subfr_map = m.subfr_map
    BY <1>1, <1>2 DEF DeallocExt
  <2> QED
    BY <1>2, <2>1
<1>3. CASE e.is_suballoc
  <2> DEFINE f == m.subfr_map.fr_by_nr
             g == DeallocSub(m.subfr_map, e.blk_nr, e.blk_bitmap).fr_by_nr
  <2>1. /\ e.blk_nr \in BlkNrs /\ e.blk_bitmap \subseteq Subblks /\ e.blk_bitmap # {}
    BY <1>3, ExtentUnits
  <2>2. f \in [BlkNrs -> Bitmaps]
    BY <1>1 DEF SubWellFormed, SubFreeMaps
  <2>3. g = [f EXCEPT ![e.blk_nr] = f[e.blk_nr] \cup e.blk_bitmap]
    BY DEF DeallocSub, Rebinned
  <2>4. DeallocExt(m, e).subfr_map.fr_by_nr = g
    BY <1>1, <1>3 DEF DeallocExt
  <2> HIDE DEF g
  <2>5. \A b \in BlkNrs : g[b] # {} <=> f[b] # {} \/ b = e.blk_nr
    BY <2>1, <2>2, <2>3
  <2> QED
    BY <1>3, <2>1, <2>4, <2>5 DEF MapBlks
<1> QED
  BY <1>2, <1>3

\* The same after all the extents of a segment.
LEMMA DeallocExtsBlks ==
  ASSUME NEW m, MapsFit(m), NEW exts \in Seq(Extents), Scattered(exts),
         UnitsIn(exts) \cap FreeUnits(m) = {}
  PROVE  MapBlks(DeallocExts(m, exts).subfr_map) = MapBlks(m.subfr_map) \cup SubBlksIn(exts)
<1> DEFINE L == Len(exts)
           U(k) == UNION {UnitsOf(exts[i]) : i \in 1 .. k}
           B(k) == {exts[i].blk_nr : i \in {j \in 1 .. k : exts[j].is_suballoc}}
<1>0. L \in Nat /\ exts \in [1 .. L -> Extents]
  BY SeqDef
<1>1. UnitsIn(exts) = U(L) /\ SubBlksIn(exts) = B(L)
  BY UnitsOfSeq DEF SubBlksIn
<1>a. PICK after : DeallocLoop(after, m, exts)
  BY DeallocExtsSteps
<1>2. /\ DeallocExts(m, exts) = after[L]
      /\ after[0] = m
      /\ \A n \in 1 .. L : after[n] = DeallocExt(after[n - 1], exts[n])
  BY <1>a DEF DeallocLoop
<1> DEFINE Good(k) == /\ MapsFit(after[k]) /\ FreeUnits(after[k]) = FreeUnits(m) \cup U(k)
                      /\ MapBlks(after[k].subfr_map) = MapBlks(m.subfr_map) \cup B(k)
           Bad == {k \in 0 .. L : ~ Good(k)}
<1>3. ASSUME Bad # {} PROVE FALSE
  <2>1. Bad \in SUBSET Nat
    BY <1>0
  <2> HIDE DEF Good
  <2>2. PICK k \in Bad : \A j \in Bad : k <= j
    <3> HIDE DEF Bad
    <3> QED
      BY <1>3, <2>1, LeastExists
  <2>3. k \in 0 .. L /\ ~ Good(k)
    BY <2>2
  <2>4. CASE k = 0
    <3>1. U(0) = {} /\ B(0) = {}
      OBVIOUS
    <3> QED
      BY <1>2, <2>3, <2>4, <3>1 DEF Good
  <2>5. CASE k # 0
    <3>1. k - 1 \in 0 .. L /\ k - 1 \notin Bad /\ k \in 1 .. L
      BY <1>0, <2>2, <2>3, <2>5
    <3>2. /\ MapsFit(after[k - 1])
          /\ FreeUnits(after[k - 1]) = FreeUnits(m) \cup U(k - 1)
          /\ MapBlks(after[k - 1].subfr_map) = MapBlks(m.subfr_map) \cup B(k - 1)
      BY <3>1 DEF Good
    <3>3. /\ U(k) = U(k - 1) \cup UnitsOf(exts[k])
          /\ B(k) = B(k - 1) \cup (IF exts[k].is_suballoc THEN {exts[k].blk_nr} ELSE {})
      <4>1. 1 .. k = (1 .. k - 1) \cup {k}
        BY <3>1
      <4> QED
        BY <4>1
    <3>4. UnitsOf(exts[k]) \cap U(k - 1) = {}
      <4>1. \A i \in 1 .. k - 1 : i \in 1 .. L /\ i # k
        BY <1>0, <3>1
      <4> QED
        BY <3>1, <4>1 DEF Scattered
    <3>5. UnitsOf(exts[k]) \cap FreeUnits(m) = {}
      <4>1. UnitsOf(exts[k]) \subseteq U(L)
        BY <3>1
      <4> QED
        BY <1>1, <4>1
    <3> HIDE DEF U, B
    <3>6. /\ exts[k] \in Extents
          /\ UnitsOf(exts[k]) \cap FreeUnits(after[k - 1]) = {}
      BY <1>0, <3>1, <3>2, <3>4, <3>5
    <3>7. /\ MapsFit(DeallocExt(after[k - 1], exts[k]))
          /\ FreeUnits(DeallocExt(after[k - 1], exts[k]))
               = FreeUnits(after[k - 1]) \cup UnitsOf(exts[k])
      BY <3>2, <3>6, DeallocExtFits
    <3>8. MapBlks(DeallocExt(after[k - 1], exts[k]).subfr_map)
            = MapBlks(after[k - 1].subfr_map)
                \cup (IF exts[k].is_suballoc THEN {exts[k].blk_nr} ELSE {})
      BY <3>2, <3>6, DeallocExtBlks
    <3>9. after[k] = DeallocExt(after[k - 1], exts[k])
      BY <1>2, <3>1
    <3>10. FreeUnits(after[k]) = FreeUnits(m) \cup U(k)
      BY <3>2, <3>3, <3>7, <3>9
    <3>11. MapBlks(after[k].subfr_map) = MapBlks(m.subfr_map) \cup B(k)
      BY <3>2, <3>3, <3>8, <3>9
    <3>12. Good(k)
      BY <3>7, <3>9, <3>10, <3>11 DEF Good
    <3> QED
      BY <2>3, <3>12
  <2> QED
    BY <2>4, <2>5
<1>4. Good(L)
  <2> HIDE DEF Good
  <2> QED
    BY <1>0, <1>3
<1> QED
  BY <1>1, <1>2, <1>4

\* The blocks with a free subblock after dealloc(segm): those that are
\* reclaimed are no longer among them.
LEMMA DeallocMapsBlks ==
  ASSUME NEW m, MapsFit(m), NEW exts \in Seq(Extents), Scattered(exts),
         UnitsIn(exts) \cap FreeUnits(m) = {}
  PROVE  LET back == Reclaimable(DeallocExts(m, exts))
             all == MapBlks(m.subfr_map) \cup SubBlksIn(exts)
         IN  /\ MapBlks(DeallocMaps(m, exts).subfr_map) = all \ back
             /\ back \subseteq all
             /\ back \X Subblks \subseteq FreeUnits(DeallocMaps(m, exts))
<1> DEFINE n == DeallocExts(m, exts)
           back == Reclaimable(n)
<1>1. /\ MapsFit(n) /\ FreeUnits(n) = FreeUnits(m) \cup UnitsIn(exts)
      /\ MapBlks(n.subfr_map) = MapBlks(m.subfr_map) \cup SubBlksIn(exts)
  BY DeallocExtsFits, DeallocExtsBlks
<1>2. DeallocMaps(m, exts) = Reclaimed(n)
  BY DEF DeallocMaps
<1> HIDE DEF n
<1>3. FreeUnits(Reclaimed(n)) = FreeUnits(n)
  BY <1>1, ReclaimedFits
<1>4. SubWellFormed(n.subfr_map)
  BY <1>1 DEF MapsFit
<1>5. back = {b \in BlkNrs : n.subfr_map.fr_by_nr[b] = Subblks}
  BY <1>4, FullyFreeAreFull DEF Reclaimable
<1>6. Reclaimed(n).subfr_map = ReleaseSub(n.subfr_map, back)
  BY DEF Reclaimed
<1>7. ReleaseSub(n.subfr_map, back).fr_by_nr
        = [b \in BlkNrs |-> IF b \in back THEN {} ELSE n.subfr_map.fr_by_nr[b]]
  BY <1>4, <1>5, ReleaseSubCorrect
<1>8. MapBlks(Reclaimed(n).subfr_map) = MapBlks(n.subfr_map) \ back
  BY <1>6, <1>7 DEF MapBlks
<1>9. back \subseteq MapBlks(n.subfr_map)
  <2>1. Subblks # {}
    BY BinOfFacts
  <2> QED
    BY <1>5, <2>1 DEF MapBlks
<1>10. back \X Subblks \subseteq FreeUnits(n)
  <2>1. \A b, i : b \in BlkNrs /\ i \in n.subfr_map.fr_by_nr[b] => <<b, i>> \in FreeUnits(n)
    BY <1>1, InFreeUnits
  <2> QED
    BY <1>5, <2>1
<1> QED
  BY <1>1, <1>2, <1>3, <1>8, <1>9, <1>10 DEF n

-----------------------------------------------------------------------------
(* The invariant of the counters *)

Counters(bytes, blks, for_suballoc, subblks, exts, inlined) ==
  [by_user_sz |-> bytes, blk_cnt |-> blks + for_suballoc, blk_for_suballoc_cnt |-> for_suballoc,
   subblk_cnt |-> subblks, ext_cnt |-> exts, inlined_sz |-> inlined]

\* At every step, in a call too, the counters are those of what the segments
\* have. The segment of a realloc in progress has no inline bytes, and alloc
\* takes subblocks when nothing else is missing, so a throw loses none.
StatsInv ==
  /\ stats = Counters(BytesHeld, BlksHeld, Cardinality(BlksForSub), SubblksHeld, ExtsHeld,
                      InlineHeld)
  /\ ~ Idle => /\ segms[call.slot].inline_sz = 0
               /\ SubBlksIn(call.exts) # {} =>
                    call.pc = "subblks" /\ call.todo.subblk_cnt = 0

\* The fields of the counters of space are set.
LEMMA CountersSet ==
  ASSUME NEW b, NEW k, NEW n, NEW u, NEW e, NEW l, NEW st,
         st = [by_user_sz |-> b, blk_cnt |-> k, blk_for_suballoc_cnt |-> n, subblk_cnt |-> u,
               ext_cnt |-> e, inlined_sz |-> l],
         NEW x, NEW f, NEW s, NEW m, NEW i
  PROVE  [st EXCEPT !.by_user_sz = x, !.blk_cnt = f, !.subblk_cnt = s, !.ext_cnt = m,
                    !.inlined_sz = i]
           = [by_user_sz |-> x, blk_cnt |-> f, blk_for_suballoc_cnt |-> n, subblk_cnt |-> s,
              ext_cnt |-> m, inlined_sz |-> i]
<1>1. PICK r1 : r1 = [st EXCEPT !.by_user_sz = x]
  OBVIOUS
<1>2. r1 = [by_user_sz |-> x, blk_cnt |-> k, blk_for_suballoc_cnt |-> n, subblk_cnt |-> u,
            ext_cnt |-> e, inlined_sz |-> l]
  BY <1>1
<1>3. PICK r2 : r2 = [r1 EXCEPT !.blk_cnt = f]
  OBVIOUS
<1>4. r2 = [by_user_sz |-> x, blk_cnt |-> f, blk_for_suballoc_cnt |-> n, subblk_cnt |-> u,
            ext_cnt |-> e, inlined_sz |-> l]
  BY ONLY <1>2, <1>3
<1>5. PICK r3 : r3 = [r2 EXCEPT !.subblk_cnt = s]
  OBVIOUS
<1>6. r3 = [by_user_sz |-> x, blk_cnt |-> f, blk_for_suballoc_cnt |-> n, subblk_cnt |-> s,
            ext_cnt |-> e, inlined_sz |-> l]
  BY ONLY <1>4, <1>5
<1>7. PICK r4 : r4 = [r3 EXCEPT !.ext_cnt = m]
  OBVIOUS
<1>8. r4 = [by_user_sz |-> x, blk_cnt |-> f, blk_for_suballoc_cnt |-> n, subblk_cnt |-> s,
            ext_cnt |-> m, inlined_sz |-> l]
  BY ONLY <1>6, <1>7
<1>9. [r4 EXCEPT !.inlined_sz = i]
        = [by_user_sz |-> x, blk_cnt |-> f, blk_for_suballoc_cnt |-> n, subblk_cnt |-> s,
           ext_cnt |-> m, inlined_sz |-> i]
  BY ONLY <1>8
<1> QED
  BY ONLY <1>1, <1>3, <1>5, <1>7, <1>9

\* The space of a segment is added or subtracted.
LEMMA Counting ==
  ASSUME NEW b \in Int, NEW k \in Int, NEW n \in Int, NEW u \in Int, NEW e \in Int, NEW l \in Int,
         NEW exts \in Seq(Extents), NEW i \in Int
  PROVE  /\ CountSpace(Counters(b, k, n, u, e, l), exts, i, 1)
              = Counters(b + (ExtsSz(exts) + i), k + FullBlkCnt(exts), n,
                         u + SubblkCntOf(exts), e + Len(exts), l + i)
         /\ CountSpace(Counters(b, k, n, u, e, l), exts, i, -1)
              = Counters(b - (ExtsSz(exts) + i), k - FullBlkCnt(exts), n,
                         u - SubblkCntOf(exts), e - Len(exts), l - i)
<1>1. /\ ExtsSz(exts) \in Int /\ FullBlkCnt(exts) \in Int /\ SubblkCntOf(exts) \in Int
      /\ Len(exts) \in Int
  BY SpaceOfExts, LenProperties
<1> DEFINE x == ExtsSz(exts)
           f == FullBlkCnt(exts)
           s == SubblkCntOf(exts)
           m == Len(exts)
<1>2. x \in Int /\ f \in Int /\ s \in Int /\ m \in Int
  BY <1>1
<1>3. PICK st : st = Counters(b, k, n, u, e, l)
  OBVIOUS
<1>4. st = [by_user_sz |-> b, blk_cnt |-> k + n, blk_for_suballoc_cnt |-> n, subblk_cnt |-> u,
            ext_cnt |-> e, inlined_sz |-> l]
  BY <1>3 DEF Counters
<1>5. /\ st.by_user_sz = b /\ st.blk_cnt = k + n /\ st.blk_for_suballoc_cnt = n
      /\ st.subblk_cnt = u /\ st.ext_cnt = e /\ st.inlined_sz = l
  BY ONLY <1>4
<1>6. \A g \in {1, -1} :
        CountSpace(st, exts, i, g)
          = [by_user_sz |-> b + g * (x + i), blk_cnt |-> k + n + g * f,
             blk_for_suballoc_cnt |-> n, subblk_cnt |-> u + g * s, ext_cnt |-> e + g * m,
             inlined_sz |-> l + g * i]
  <2> TAKE g \in {1, -1}
  <2>1. CountSpace(st, exts, i, g)
          = [st EXCEPT !.by_user_sz = b + g * (x + i), !.blk_cnt = k + n + g * f,
                       !.subblk_cnt = u + g * s, !.ext_cnt = e + g * m,
                       !.inlined_sz = l + g * i]
    BY <1>5, Zenon DEF CountSpace
  <2> HIDE DEF x, f, s, m
  <2> QED
    BY ONLY <1>4, <2>1, CountersSet
<1> HIDE DEF x, f, s, m
<1>7. /\ 1 * (x + i) = x + i /\ k + n + 1 * f = k + f + n /\ 1 * s = s /\ 1 * m = m /\ 1 * i = i
      /\ b + (-1) * (x + i) = b - (x + i) /\ k + n + (-1) * f = k - f + n
      /\ u + (-1) * s = u - s /\ e + (-1) * m = e - m /\ l + (-1) * i = l - i
  BY <1>2
<1>8. CountSpace(st, exts, i, 1) = Counters(b + (x + i), k + f, n, u + s, e + m, l + i)
  BY <1>6, <1>7 DEF Counters
<1>9. CountSpace(st, exts, i, -1) = Counters(b - (x + i), k - f, n, u - s, e - m, l - i)
  BY <1>6, <1>7 DEF Counters
<1> QED
  BY <1>3, <1>8, <1>9 DEF x, f, s, m

\* Blocks for suballocation are added.
LEMMA CountingBlks ==
  ASSUME NEW b \in Int, NEW k \in Int, NEW n \in Int, NEW u \in Int, NEW e \in Int, NEW l \in Int,
         NEW d \in Int, NEW st, st = Counters(b, k, n, u, e, l)
  PROVE  CountSuballocBlks(st, d) = Counters(b, k, n + d, u, e, l)
<1>1. st = [by_user_sz |-> b, blk_cnt |-> k + n, blk_for_suballoc_cnt |-> n, subblk_cnt |-> u,
            ext_cnt |-> e, inlined_sz |-> l]
  BY DEF Counters
<1>2. st.blk_cnt = k + n /\ st.blk_for_suballoc_cnt = n
  BY ONLY <1>1
<1>3. CountSuballocBlks(st, d)
        = [st EXCEPT !.blk_for_suballoc_cnt = n + d, !.blk_cnt = k + n + d]
  BY <1>2, Zenon DEF CountSuballocBlks
<1>4. k + n + d = k + (n + d)
  OBVIOUS
<1>5. PICK y, z : y = n + d /\ z = k + n + d
  OBVIOUS
<1>6. PICK r : r = [st EXCEPT !.blk_for_suballoc_cnt = y]
  OBVIOUS
<1>7. r = [by_user_sz |-> b, blk_cnt |-> k + n, blk_for_suballoc_cnt |-> y, subblk_cnt |-> u,
           ext_cnt |-> e, inlined_sz |-> l]
  BY ONLY <1>1, <1>6
<1>8. [r EXCEPT !.blk_cnt = z]
        = [by_user_sz |-> b, blk_cnt |-> z, blk_for_suballoc_cnt |-> y, subblk_cnt |-> u,
           ext_cnt |-> e, inlined_sz |-> l]
  BY ONLY <1>7
<1>9. CountSuballocBlks(st, d) = [r EXCEPT !.blk_cnt = z]
  BY ONLY <1>3, <1>5, <1>6
<1>10. Counters(b, k, n + d, u, e, l)
        = [by_user_sz |-> b, blk_cnt |-> z, blk_for_suballoc_cnt |-> y, subblk_cnt |-> u,
           ext_cnt |-> e, inlined_sz |-> l]
  BY <1>4, <1>5 DEF Counters
<1> QED
  BY <1>8, <1>9, <1>10

\* The blocks of the array are finitely many.
LEMMA BlksForSubFacts ==
  ASSUME Types
  PROVE  /\ BlksForSub \subseteq BlkNrs /\ IsFiniteSet(BlksForSub)
         /\ Cardinality(BlksForSub) \in Nat
         /\ \A R \in SUBSET BlksForSub : 
              /\ Cardinality(R) \in Nat
              /\ Cardinality(BlksForSub \ R) = Cardinality(BlksForSub) - Cardinality(R)
<1>1. IsFiniteSet(BlkNrs)
  BY FS_Interval, ExtentAssumption DEF BlkNrs
<1>2. SubBlksIn(InProgress) \subseteq BlkNrs
  <2>1. InProgress \in Seq(Extents)
    BY EmptySeq DEF Types, InProgress, Frames
  <2> QED
    BY <2>1, SubBlksFacts
<1>3. \A s \in Slots : SubBlksOfSegm(segms[s]) \subseteq BlkNrs
  BY SubBlksFacts DEF Types, Segms, SubBlksOfSegm
<1>4. BlksForSub \subseteq BlkNrs
  BY <1>2, <1>3 DEF BlksForSub, MapBlks
<1>5. IsFiniteSet(BlksForSub) /\ Cardinality(BlksForSub) \in Nat
  BY <1>1, <1>4, FS_Subset, FS_CardinalityType
<1>6. ASSUME NEW R \in SUBSET BlksForSub
      PROVE  /\ Cardinality(R) \in Nat
             /\ Cardinality(BlksForSub \ R) = Cardinality(BlksForSub) - Cardinality(R)
  <2>1. IsFiniteSet(R) /\ Cardinality(R) \in Nat
    BY <1>5, FS_Subset, FS_CardinalityType
  <2>2. BlksForSub \cap R = R
    OBVIOUS
  <2> QED
    BY <1>5, <2>1, <2>2, FS_Difference
<1> QED
  BY <1>4, <1>5, <1>6

\* What a segment, and the two parts of one, count for.
LEMMA CutSpace ==
  ASSUME NEW exts \in Seq(Extents), NEW k \in 0 .. Len(exts)
  PROVE  LET s == SubSeq(exts, 1, k)
             t == SubSeq(exts, k + 1, Len(exts))
         IN  /\ ExtsSz(exts) = ExtsSz(s) + ExtsSz(t)
             /\ FullBlkCnt(exts) = FullBlkCnt(s) + FullBlkCnt(t)
             /\ SubblkCntOf(exts) = SubblkCntOf(s) + SubblkCntOf(t)
             /\ Len(exts) = Len(s) + Len(t)
             /\ SubBlksIn(exts) = SubBlksIn(s) \cup SubBlksIn(t)
<1> DEFINE s == SubSeq(exts, 1, k)
           t == SubSeq(exts, k + 1, Len(exts))
<1>0. Len(exts) \in Nat /\ k \in Int
  BY LenProperties
<1>1. s \in Seq(Extents) /\ t \in Seq(Extents)
  BY CutInTwo
<1>2. exts = s \o t
  <2>1. /\ 1 \in 1 .. Len(exts) + 1 /\ k \in 1 - 1 .. Len(exts) /\ Len(exts) \in k .. Len(exts)
    BY <1>0
  <2>2. SubSeq(exts, 1, k) \o SubSeq(exts, k + 1, Len(exts)) = SubSeq(exts, 1, Len(exts))
    BY <2>1, ConcatAdjacentSubSeq
  <2> QED
    BY <2>2, SubSeqFull
<1> HIDE DEF s, t
<1>3. Len(exts) = Len(s) + Len(t)
  BY <1>1, <1>2, ConcatProperties
<1>4. SubBlksIn(exts) = SubBlksIn(s) \cup SubBlksIn(t)
  BY <1>1, <1>2, SubBlksFacts
<1>5. /\ ExtsSz(exts) = ExtsSz(s) + ExtsSz(t)
      /\ FullBlkCnt(exts) = FullBlkCnt(s) + FullBlkCnt(t)
      /\ SubblkCntOf(exts) = SubblkCntOf(s) + SubblkCntOf(t)
  BY <1>1, <1>2, SpaceOfExts
<1> QED
  BY <1>3, <1>4, <1>5 DEF s, t

\* The blocks for suballocation after extents of a segment are given back: the
\* blocks that are reclaimed, and only those, are not any more.
LEMMA BlksGivenBack ==
  ASSUME IInv, IInv', Idle, NEW slot \in Slots, segms[slot] # NoSegm,
         NEW back \in Seq(Extents), Scattered(back),
         UnitsIn(back) \subseteq UnitsIn(segms[slot].exts),
         NEW s \in Segms \cup {NoSegm}, segms' = [segms EXCEPT ![slot] = s],
         SubBlksIn(segms[slot].exts) = SubBlksOfSegm(s) \cup SubBlksIn(back),
         maps' = DeallocMaps(maps, back), InProgress' = << >>
  PROVE  LET r == Reclaimable(DeallocExts(maps, back))
         IN  /\ Cardinality(r) \in Nat
             /\ Cardinality(BlksForSub') = Cardinality(BlksForSub) - Cardinality(r)
<1> DEFINE r == Reclaimable(DeallocExts(maps, back))
<1>1. MapsFit(maps) /\ UnitsIn(back) \cap FreeUnits(maps) = {}
  BY SegmFacts DEF IInv
<1>2. /\ MapBlks(maps'.subfr_map) = (MapBlks(maps.subfr_map) \cup SubBlksIn(back)) \ r
      /\ r \subseteq MapBlks(maps.subfr_map) \cup SubBlksIn(back)
      /\ r \X Subblks \subseteq FreeUnits(maps')
  <2>1. maps' = DeallocMaps(maps, back)
    OBVIOUS
  <2> QED
    BY ONLY <1>1, <2>1, back \in Seq(Extents), Scattered(back), DeallocMapsBlks
<1> HIDE DEF r
<1>3. segms \in [Slots -> Segms \cup {NoSegm}] /\ segms' \in [Slots -> Segms \cup {NoSegm}] /\ Types
  BY DEF IInv, Types
<1>4. /\ segms'[slot] = s
      /\ \A t \in Slots \ {slot} : segms'[t] = segms[t]
  BY <1>3
<1>5. ASSUME NEW t \in Slots PROVE SubBlksOfSegm(segms'[t]) \cap r = {}
  <2> SUFFICES ASSUME NEW b \in SubBlksOfSegm(segms'[t]), b \in r PROVE FALSE
    OBVIOUS
  <2>1. segms'[t] # NoSegm /\ segms'[t].exts \in Seq(Extents) /\ b \in SubBlksIn(segms'[t].exts)
    BY <1>3 DEF SubBlksOfSegm, Segms
  <2>2. PICK i \in Subblks : <<b, i>> \in UnitsIn(segms'[t].exts)
    BY <2>1, SubBlksFacts
  <2>3. <<b, i>> \in Owned'[t]
    BY <2>1, <2>2 DEF Owned
  <2>4. Owned'[t] \cap FreeUnits(maps') = {}
    BY DEF IInv, SharedOut, Shares
  <2> QED
    BY <1>2, <2>3, <2>4
<1>6. SubBlksIn(InProgress) = {} /\ SubBlksIn(InProgress') = {}
  BY IdleFacts, SubBlksFacts
<1>7. SubBlksOfSegm(segms[slot]) = SubBlksOfSegm(s) \cup SubBlksIn(back)
  BY DEF SubBlksOfSegm
<1>8. BlksForSub' = BlksForSub \ r
  <2> DEFINE O == UNION {SubBlksOfSegm(segms[t]) : t \in Slots}
             P == UNION {SubBlksOfSegm(segms'[t]) : t \in Slots}
  <2>1. BlksForSub = MapBlks(maps.subfr_map) \cup O
    BY <1>6 DEF BlksForSub
  <2>2. BlksForSub' = MapBlks(maps'.subfr_map) \cup P
    BY <1>6 DEF BlksForSub, SubBlksOfSegm, SubBlksIn, MapBlks
  <2>3. O = P \cup SubBlksIn(back)
    BY <1>4, <1>7
  <2>4. P \cap r = {}
    BY <1>5
  <2> HIDE DEF O, P
  <2> QED
    BY <1>2, <2>1, <2>2, <2>3, <2>4
<1>9. r \in SUBSET BlksForSub
  <2>1. SubBlksIn(back) \subseteq SubBlksOfSegm(segms[slot])
    BY <1>7
  <2> QED
    BY <1>2, <2>1 DEF BlksForSub
<1> QED
  BY <1>3, <1>8, <1>9, BlksForSubFacts DEF r

-----------------------------------------------------------------------------
(* The invariant of the counters is kept by what the user calls *)

\* The counters after extents of a segment, and j of its inline bytes, are
\* given back, if i of them were already subtracted.
LEMMA GivesBackCounts ==
  ASSUME IInv, IInv', Idle, NEW slot \in Slots, segms[slot] # NoSegm,
         NEW back \in Seq(Extents), Scattered(back),
         UnitsIn(back) \subseteq UnitsIn(segms[slot].exts),
         NEW s \in Segms \cup {NoSegm}, segms' = [segms EXCEPT ![slot] = s],
         NEW keep \in Seq(Extents), SubBlksOfSegm(s) = SubBlksIn(keep),
         BytesOf(s) = ExtsSz(keep), BlksIn(s) = FullBlkCnt(keep),
         SubblksIn(s) = SubblkCntOf(keep), ExtCntIn(s) = Len(keep), InlineIn(s) = 0,
         ExtsSz(segms[slot].exts) = ExtsSz(keep) + ExtsSz(back),
         FullBlkCnt(segms[slot].exts) = FullBlkCnt(keep) + FullBlkCnt(back),
         SubblkCntOf(segms[slot].exts) = SubblkCntOf(keep) + SubblkCntOf(back),
         Len(segms[slot].exts) = Len(keep) + Len(back),
         SubBlksIn(segms[slot].exts) = SubBlksIn(keep) \cup SubBlksIn(back),
         maps' = DeallocMaps(maps, back), InProgress' = << >>,
         NEW i \in Int, NEW j \in Int, i + j = segms[slot].inline_sz,
         NEW st,
         st = Counters(BytesHeld - i, BlksHeld, Cardinality(BlksForSub), SubblksHeld,
                       ExtsHeld, InlineHeld - i)
  PROVE  DeallocStats(st, maps, [exts |-> back, inline_sz |-> j])
           = Counters(BytesHeld', BlksHeld', Cardinality(BlksForSub)', SubblksHeld', ExtsHeld',
                      InlineHeld')
<1>1. /\ segms \in [Slots -> Segms \cup {NoSegm}] /\ Types
      /\ segms[slot].exts \in Seq(Extents) /\ segms[slot].inline_sz \in Nat
      /\ segms[slot].inline_sz \in Int
  BY SegmFacts, SegmentAllocatorAssumption DEF IInv, Types
<1>2. PICK n, r : n = Cardinality(BlksForSub)
                  /\ r = Cardinality(Reclaimable(DeallocExts(maps, back)))
  OBVIOUS
<1>3. n \in Nat /\ r \in Nat /\ Cardinality(BlksForSub)' = n - r
  BY <1>1, <1>2, BlksForSubFacts, BlksGivenBack
<1>4. PICK b, k, u, e, l : /\ b = BytesHeld /\ k = BlksHeld /\ u = SubblksHeld
                           /\ e = ExtsHeld /\ l = InlineHeld
  OBVIOUS
<1>5. b \in Nat /\ k \in Nat /\ u \in Nat /\ e \in Nat /\ l \in Nat
  BY <1>1, <1>4, HeldNumbers
<1>6. PICK x, f, v, m : /\ x = ExtsSz(back) /\ f = FullBlkCnt(back)
                        /\ v = SubblkCntOf(back) /\ m = Len(back)
  OBVIOUS
<1>7. x \in Nat /\ f \in Nat /\ v \in Nat /\ m \in Nat
  BY <1>6, SpaceOfExts, LenProperties
<1>8. PICK y, g, w, o : /\ y = ExtsSz(keep) /\ g = FullBlkCnt(keep)
                        /\ w = SubblkCntOf(keep) /\ o = Len(keep)
  OBVIOUS
<1>9. y \in Nat /\ g \in Nat /\ w \in Nat /\ o \in Nat
  BY <1>8, SpaceOfExts, LenProperties
<1>10. /\ BytesOf(segms[slot]) = y + x + (i + j) /\ BlksIn(segms[slot]) = g + f
       /\ SubblksIn(segms[slot]) = w + v /\ ExtCntIn(segms[slot]) = o + m
       /\ InlineIn(segms[slot]) = i + j
  BY <1>6, <1>8 DEF BytesOf, BlksIn, SubblksIn, ExtCntIn, InlineIn, SegmSz
<1>11. /\ BytesHeld' = b - (y + x + (i + j)) + y /\ BlksHeld' = k - (g + f) + g
       /\ SubblksHeld' = u - (w + v) + w /\ ExtsHeld' = e - (o + m) + o
       /\ InlineHeld' = l - (i + j) + 0
  BY <1>1, <1>4, <1>8, <1>10, HeldChanges
<1>12. /\ BytesHeld' = b - i - (x + j) /\ BlksHeld' = k - f /\ SubblksHeld' = u - v
       /\ ExtsHeld' = e - m /\ InlineHeld' = l - i - j
  BY ONLY <1>5, <1>7, <1>9, <1>11, i \in Int, j \in Int
<1>13. CountSpace(st, back, j, -1)
         = Counters(b - i - (x + j), k - f, n, u - v, e - m, l - i - j)
  <2>1. PICK c, d : c = b - i /\ d = l - i
    OBVIOUS
  <2>2. c \in Int /\ k \in Int /\ n \in Int /\ u \in Int /\ e \in Int /\ d \in Int
    BY <1>3, <1>5, <2>1
  <2>3. st = Counters(c, k, n, u, e, d)
    BY <1>2, <1>4, <2>1
  <2>4. CountSpace(st, back, j, -1) = Counters(c - (x + j), k - f, n, u - v, e - m, d - j)
    BY ONLY <1>6, <2>2, <2>3, back \in Seq(Extents), j \in Int, Counting
  <2> QED
    BY <2>1, <2>4
<1>14. CountSuballocBlks(Counters(b - i - (x + j), k - f, n, u - v, e - m, l - i - j), - r)
         = Counters(b - i - (x + j), k - f, n + (- r), u - v, e - m, l - i - j)
  <2>1. PICK c, g1, g2, g3, d, q, p :
          /\ c = b - i - (x + j) /\ g1 = k - f /\ g2 = u - v
          /\ g3 = e - m /\ d = l - i - j /\ q = - r
          /\ p = Counters(c, g1, n, g2, g3, d)
    OBVIOUS
  <2>2. /\ c \in Int /\ g1 \in Int /\ n \in Int /\ g2 \in Int /\ g3 \in Int /\ d \in Int
        /\ q \in Int
    <3>1. /\ c = b - i - (x + j) /\ g1 = k - f /\ g2 = u - v
          /\ g3 = e - m /\ d = l - i - j /\ q = - r
      BY <2>1
    <3>2. n \in Nat /\ r \in Nat
      BY <1>3
    <3> QED
      BY ONLY <1>5, <1>7, <3>1, <3>2, i \in Int, j \in Int
  <2>3. p = Counters(c, g1, n, g2, g3, d)
    BY <2>1
  <2>4. CountSuballocBlks(p, q) = Counters(c, g1, n + q, g2, g3, d)
    BY ONLY <2>2, <2>3, CountingBlks, SMTT(60)
  <2> QED
    BY ONLY <2>1, <2>4
<1>15. n + (- r) = n - r
  BY <1>3
<1>16. DeallocStats(st, maps, [exts |-> back, inline_sz |-> j])
         = CountSuballocBlks(CountSpace(st, back, j, -1), - r)
  BY <1>2 DEF DeallocStats, CountSegm
<1> QED
  BY <1>3, <1>12, <1>13, <1>14, <1>15, <1>16

\* A call that begins has taken nothing.
LEMMA BeginsWithNothing ==
  ASSUME NEW slot \in Slots, NEW s, s.inline_sz = 0, segms'[slot] = s,
         NEW op, NEW kept, NEW wanted, NEW req, call' = Frame(op, slot, kept, wanted, req)
  PROVE  /\ InProgress' = << >> /\ ~ Idle'
         /\ segms'[call'.slot].inline_sz = 0
         /\ SubBlksIn(call'.exts) = {}
<1>1. call'.slot = slot /\ call'.exts = << >> /\ call'.pc = "no_grow"
  BY DEF Frame
<1> QED
  BY <1>1, SubBlksFacts DEF InProgress, Idle

\* dealloc.
LEMMA DeallocSegmCounts ==
  ASSUME IInv, IInv', StatsInv, NEW slot \in Slots, DeallocSegm(slot)
  PROVE  StatsInv'
<1> DEFINE exts == segms[slot].exts
           j == segms[slot].inline_sz
<1>1. /\ Idle /\ segms[slot] # NoSegm
      /\ segms' = [segms EXCEPT ![slot] = NoSegm]
      /\ maps' = DeallocMaps(maps, exts)
      /\ stats' = DeallocStats(stats, maps, segms[slot])
      /\ call' = call
  BY DEF DeallocSegm, MayOperate
<1>2. /\ exts \in Seq(Extents) /\ Scattered(exts)
      /\ call = [pc |-> "idle"] /\ segms[slot] \in Segms /\ j \in 0 .. BlkSz
  BY <1>1, SegmFacts, IdleFacts
<1>3. InProgress' = << >> /\ Idle'
  BY <1>1, <1>2 DEF InProgress, Idle
<1>4. /\ << >> \in Seq(Extents) /\ SubBlksOfSegm(NoSegm) = SubBlksIn(<< >>)
      /\ BytesOf(NoSegm) = ExtsSz(<< >>) /\ BlksIn(NoSegm) = FullBlkCnt(<< >>)
      /\ SubblksIn(NoSegm) = SubblkCntOf(<< >>) /\ ExtCntIn(NoSegm) = Len(<< >>)
      /\ InlineIn(NoSegm) = 0
  BY EmptySeq, SpaceOfExts, SubBlksFacts
     DEF SubBlksOfSegm, BytesOf, BlksIn, SubblksIn, ExtCntIn, InlineIn
<1>5. /\ ExtsSz(exts) = ExtsSz(<< >>) + ExtsSz(exts)
      /\ FullBlkCnt(exts) = FullBlkCnt(<< >>) + FullBlkCnt(exts)
      /\ SubblkCntOf(exts) = SubblkCntOf(<< >>) + SubblkCntOf(exts)
      /\ Len(exts) = Len(<< >>) + Len(exts)
      /\ SubBlksIn(exts) = SubBlksIn(<< >>) \cup SubBlksIn(exts)
  <2>1. /\ ExtsSz(exts) \in Nat /\ FullBlkCnt(exts) \in Nat /\ SubblkCntOf(exts) \in Nat
        /\ Len(exts) \in Nat
    BY <1>2, SpaceOfExts, LenProperties
  <2>2. /\ ExtsSz(<< >>) = 0 /\ FullBlkCnt(<< >>) = 0 /\ SubblkCntOf(<< >>) = 0
        /\ Len(<< >>) = 0 /\ SubBlksIn(<< >>) = {}
    BY EmptySeq, SpaceOfExts, SubBlksFacts
  <2> HIDE DEF exts
  <2> QED
    BY <2>1, <2>2
<1>6. segms[slot] = [exts |-> exts, inline_sz |-> j]
  BY <1>2 DEF Segms
<1>7. 0 \in Int /\ j \in Int /\ 0 + j = segms[slot].inline_sz
  <2>1. j \in Int
    BY <1>2, SegmentAllocatorAssumption
  <2> QED
    BY <2>1
<1>8. stats = Counters(BytesHeld - 0, BlksHeld, Cardinality(BlksForSub), SubblksHeld, ExtsHeld,
                       InlineHeld - 0)
  <2>1. BytesHeld \in Nat /\ InlineHeld \in Nat
    BY HeldNumbers DEF IInv, Types
  <2>2. BytesHeld - 0 = BytesHeld /\ InlineHeld - 0 = InlineHeld
    BY <2>1
  <2> QED
    BY <2>2 DEF StatsInv
<1>9. PICK st, ex, jj : st = stats /\ ex = exts /\ jj = j
  OBVIOUS
<1> HIDE DEF exts, j
<1>10. UnitsIn(ex) \subseteq UnitsIn(segms[slot].exts)
  BY <1>9 DEF exts
<1>11. DeallocStats(st, maps, [exts |-> ex, inline_sz |-> jj])
         = Counters(BytesHeld', BlksHeld', Cardinality(BlksForSub)', SubblksHeld', ExtsHeld',
                    InlineHeld')
  BY ONLY IInv, IInv', slot \in Slots, <1>1, <1>2, <1>3, <1>4, <1>5, <1>7, <1>8, <1>9, <1>10,
          GivesBackCounts DEF exts
<1> QED
  BY <1>1, <1>3, <1>6, <1>9, <1>11 DEF StatsInv

\* The blocks for suballocation after a step.
LEMMA BlksForSubAfter ==
  BlksForSub' = UNION {MapBlks(maps'.subfr_map), SubBlksIn(InProgress'),
                       UNION {SubBlksOfSegm(segms'[s]) : s \in Slots}}
BY DEF BlksForSub, SubBlksOfSegm, SubBlksIn, MapBlks

\* Inline bytes are subtracted.
LEMMA InlineBytesCut ==
  ASSUME Types, StatsInv, NEW i \in Int
  PROVE  CountSpace(stats, << >>, i, -1)
           = Counters(BytesHeld - i, BlksHeld, Cardinality(BlksForSub), SubblksHeld, ExtsHeld,
                      InlineHeld - i)
<1>1. PICK b, k, n, u, e, l : /\ b = BytesHeld /\ k = BlksHeld /\ n = Cardinality(BlksForSub)
                              /\ u = SubblksHeld /\ e = ExtsHeld /\ l = InlineHeld
  OBVIOUS
<1>2. /\ b \in Int /\ k \in Int /\ n \in Int /\ u \in Int /\ e \in Int /\ l \in Int
      /\ << >> \in Seq(Extents)
  BY <1>1, HeldNumbers, BlksForSubFacts, EmptySeq DEF Types
<1>3. stats = Counters(b, k, n, u, e, l)
  BY <1>1 DEF StatsInv
<1>4. PICK none, x, f, v, m :
        /\ none = << >> /\ x = ExtsSz(none) /\ f = FullBlkCnt(none) /\ v = SubblkCntOf(none)
        /\ m = Len(none)
  OBVIOUS
<1>5. CountSpace(stats, none, i, -1) = Counters(b - (x + i), k - f, n, u - v, e - m, l - i)
  <2>1. none \in Seq(Extents)
    BY <1>2, <1>4
  <2>2. x = ExtsSz(none) /\ f = FullBlkCnt(none) /\ v = SubblkCntOf(none) /\ m = Len(none)
    BY <1>4
  <2> QED
    BY ONLY i \in Int, <1>2, <1>3, <2>1, <2>2, Counting, SMTT(60)
<1>6. x = 0 /\ f = 0 /\ v = 0 /\ m = 0
  BY <1>4, SpaceOfExts, EmptySeq
<1>7. b - (x + i) = b - i /\ k - f = k /\ u - v = u /\ e - m = e
  BY ONLY i \in Int, <1>2, <1>6
<1> QED
  BY <1>1, <1>4, <1>5, <1>7

\* A segment without some of its inline bytes counts for them less.
LEMMA LessInlineCounts ==
  ASSUME IInv, StatsInv, Idle, NEW slot \in Slots, segms[slot] # NoSegm, NEW cut \in Int,
         NEW s \in Segms, s.exts = segms[slot].exts, s.inline_sz = segms[slot].inline_sz - cut,
         segms' = [segms EXCEPT ![slot] = s], maps' = maps, InProgress' = << >>,
         stats' = CountSpace(stats, << >>, cut, -1)
  PROVE  stats' = Counters(BytesHeld', BlksHeld', Cardinality(BlksForSub)', SubblksHeld',
                           ExtsHeld', InlineHeld')
<1>1. /\ segms \in [Slots -> Segms \cup {NoSegm}] /\ Types
      /\ segms[slot].exts \in Seq(Extents) /\ segms[slot].inline_sz \in Int /\ s # NoSegm
  BY SegmFacts, SegmentAllocatorAssumption DEF IInv, Types
<1>2. PICK b, k, u, e, l : /\ b = BytesHeld /\ k = BlksHeld /\ u = SubblksHeld
                           /\ e = ExtsHeld /\ l = InlineHeld
  OBVIOUS
<1>3. b \in Nat /\ k \in Nat /\ u \in Nat /\ e \in Nat /\ l \in Nat
  BY <1>1, <1>2, HeldNumbers
<1>4. PICK x, f, v, m, i : /\ x = ExtsSz(s.exts) /\ f = FullBlkCnt(s.exts)
                           /\ v = SubblkCntOf(s.exts) /\ m = Len(s.exts)
                           /\ i = segms[slot].inline_sz
  OBVIOUS
<1>5. x \in Nat /\ f \in Nat /\ v \in Nat /\ m \in Nat /\ i \in Int
  BY <1>1, <1>4, SpaceOfExts, LenProperties
<1>6. /\ BytesOf(segms[slot]) = x + i /\ BlksIn(segms[slot]) = f /\ SubblksIn(segms[slot]) = v
      /\ ExtCntIn(segms[slot]) = m /\ InlineIn(segms[slot]) = i
      /\ BytesOf(s) = x + (i - cut) /\ BlksIn(s) = f /\ SubblksIn(s) = v /\ ExtCntIn(s) = m
      /\ InlineIn(s) = i - cut
  BY <1>1, <1>4 DEF BytesOf, BlksIn, SubblksIn, ExtCntIn, InlineIn, SegmSz
<1>7. /\ BytesHeld' = b - (x + i) + (x + (i - cut)) /\ BlksHeld' = k - f + f
      /\ SubblksHeld' = u - v + v /\ ExtsHeld' = e - m + m
      /\ InlineHeld' = l - i + (i - cut)
  <2>1. /\ BytesHeld' = BytesHeld - BytesOf(segms[slot]) + BytesOf(s)
        /\ BlksHeld' = BlksHeld - BlksIn(segms[slot]) + BlksIn(s)
        /\ SubblksHeld' = SubblksHeld - SubblksIn(segms[slot]) + SubblksIn(s)
        /\ ExtsHeld' = ExtsHeld - ExtCntIn(segms[slot]) + ExtCntIn(s)
        /\ InlineHeld' = InlineHeld - InlineIn(segms[slot]) + InlineIn(s)
    BY <1>1, HeldChanges
  <2> QED
    BY ONLY <1>2, <1>6, <2>1
<1>8. /\ BytesHeld' = b - cut /\ BlksHeld' = k /\ SubblksHeld' = u
      /\ ExtsHeld' = e /\ InlineHeld' = l - cut
  BY ONLY <1>3, <1>5, <1>7, cut \in Int
<1>9. BlksForSub' = BlksForSub
  <2>1. \A t \in Slots : SubBlksOfSegm(segms'[t]) = SubBlksOfSegm(segms[t])
    BY <1>1 DEF SubBlksOfSegm
  <2>2. InProgress = InProgress'
    BY IdleFacts
  <2> QED
    BY <2>1, <2>2, BlksForSubAfter DEF BlksForSub
<1> QED
  BY <1>1, <1>2, <1>8, <1>9, InlineBytesCut

\* A realloc leaves of a segment its first extents, and gives back the rest.
LEMMA KeepsFirstCounts ==
  ASSUME IInv, IInv', StatsInv, Idle, NEW slot \in Slots, segms[slot] # NoSegm,
         NEW k \in 0 .. Len(segms[slot].exts),
         NEW first, first = SubSeq(segms[slot].exts, 1, k),
         NEW last, last = SubSeq(segms[slot].exts, k + 1, Len(segms[slot].exts)),
         NEW back, back = last \/ back = Reverse(last),
         NEW s, s = [exts |-> first, inline_sz |-> 0], segms' = [segms EXCEPT ![slot] = s],
         maps' = DeallocMaps(maps, back), InProgress' = << >>,
         NEW st, st = CountSpace(stats, << >>, segms[slot].inline_sz, -1),
         NEW dropped, dropped = [exts |-> back, inline_sz |-> 0],
         stats' = DeallocStats(st, maps, dropped)
  PROVE  stats' = Counters(BytesHeld', BlksHeld', Cardinality(BlksForSub)', SubblksHeld',
                           ExtsHeld', InlineHeld')
<1> DEFINE exts == segms[slot].exts
           inl == segms[slot].inline_sz
<1>1. /\ Types /\ exts \in Seq(Extents) /\ Scattered(exts) /\ inl \in Int
  BY SegmFacts, SegmentAllocatorAssumption DEF IInv
<1>2. /\ first \in Seq(Extents) /\ last \in Seq(Extents) /\ Scattered(last)
      /\ UnitsIn(last) \subseteq UnitsIn(exts)
  BY <1>1, CutInTwo
<1>3. /\ ExtsSz(exts) = ExtsSz(first) + ExtsSz(last)
      /\ FullBlkCnt(exts) = FullBlkCnt(first) + FullBlkCnt(last)
      /\ SubblkCntOf(exts) = SubblkCntOf(first) + SubblkCntOf(last)
      /\ Len(exts) = Len(first) + Len(last)
      /\ SubBlksIn(exts) = SubBlksIn(first) \cup SubBlksIn(last)
  BY <1>1, CutSpace
<1>4. /\ back \in Seq(Extents) /\ Scattered(back) /\ UnitsIn(back) = UnitsIn(last)
      /\ ExtsSz(back) = ExtsSz(last) /\ FullBlkCnt(back) = FullBlkCnt(last)
      /\ SubblkCntOf(back) = SubblkCntOf(last) /\ Len(back) = Len(last)
      /\ SubBlksIn(back) = SubBlksIn(last)
  <2>1. /\ Reverse(last) \in Seq(Extents) /\ Scattered(Reverse(last))
        /\ UnitsIn(Reverse(last)) = UnitsIn(last)
    BY <1>2, ReverseFacts
  <2>2. Len(Reverse(last)) = Len(last)
    <3>1. Reverse(last) = [i \in 1 .. Len(last) |-> last[(Len(last) - i) + 1]] /\ Len(last) \in Nat
      BY <1>2, LenProperties DEF Reverse
    <3>2. DOMAIN Reverse(last) = 1 .. Len(last)
      BY <3>1
    <3> QED
      BY <2>1, <3>1, <3>2, LenProperties
  <2>3. /\ ExtsSz(Reverse(last)) = ExtsSz(last) /\ FullBlkCnt(Reverse(last)) = FullBlkCnt(last)
        /\ SubblkCntOf(Reverse(last)) = SubblkCntOf(last)
        /\ SubBlksIn(Reverse(last)) = SubBlksIn(last)
    BY <1>2, SpaceOfExts, SubBlksFacts
  <2> QED
    BY <1>2, <2>1, <2>2, <2>3
<1>5. s \in Segms /\ s # NoSegm /\ s.exts = first /\ s.inline_sz = 0
  <2>1. BlkSz \in Nat /\ NoSegm \notin Segms
    BY SegmentAllocatorAssumption
  <2>2. 0 \in 0 .. BlkSz
    BY <2>1
  <2> QED
    BY ONLY s = [exts |-> first, inline_sz |-> 0], <1>2, <2>1, <2>2 DEF Segms
<1>6. /\ SubBlksOfSegm(s) = SubBlksIn(first)
      /\ BytesOf(s) = ExtsSz(first) /\ BlksIn(s) = FullBlkCnt(first)
      /\ SubblksIn(s) = SubblkCntOf(first) /\ ExtCntIn(s) = Len(first) /\ InlineIn(s) = 0
  <2>1. ExtsSz(first) \in Nat
    BY <1>2, SpaceOfExts
  <2> QED
    BY <1>5, <2>1 DEF SubBlksOfSegm, BytesOf, BlksIn, SubblksIn, ExtCntIn, InlineIn, SegmSz
<1>7. /\ st = Counters(BytesHeld - inl, BlksHeld, Cardinality(BlksForSub), SubblksHeld,
                       ExtsHeld, InlineHeld - inl)
      /\ 0 \in Int /\ inl + 0 = segms[slot].inline_sz
  BY <1>1, InlineBytesCut
<1>8. /\ ExtsSz(exts) = ExtsSz(first) + ExtsSz(back)
       /\ FullBlkCnt(exts) = FullBlkCnt(first) + FullBlkCnt(back)
       /\ SubblkCntOf(exts) = SubblkCntOf(first) + SubblkCntOf(back)
       /\ Len(exts) = Len(first) + Len(back)
       /\ SubBlksIn(exts) = SubBlksIn(first) \cup SubBlksIn(back)
       /\ UnitsIn(back) \subseteq UnitsIn(exts)
       /\ segms' = [segms EXCEPT ![slot] = s]
  BY <1>2, <1>3, <1>4
<1>9. DeallocStats(st, maps, [exts |-> back, inline_sz |-> 0])
         = Counters(BytesHeld', BlksHeld', Cardinality(BlksForSub)', SubblksHeld', ExtsHeld',
                    InlineHeld')
  BY ONLY IInv, IInv', Idle, slot \in Slots, segms[slot] # NoSegm, InProgress' = << >>,
          maps' = DeallocMaps(maps, back), <1>1, <1>2, <1>4, <1>5, <1>6, <1>7, <1>8,
          GivesBackCounts DEF exts, inl
<1> QED
  BY <1>9

\* realloc to a larger size, before it calls alloc.
LEMMA ReallocExpandsCounts ==
  ASSUME IInv, IInv', StatsInv, NEW slot \in Slots, NEW sz \in Sizes, NEW req \in Reqs,
         ReallocExpands(slot, sz, req)
  PROVE  StatsInv'
<1> DEFINE s == segms[slot]
           n == Len(Kept(s).exts)
           back == SubSeq(s.exts, n + 1, Len(s.exts))
           less == CountSpace(stats, << >>, s.inline_sz, -1)
<1>1. /\ Idle /\ s # NoSegm
      /\ segms' = [segms EXCEPT ![slot] = Kept(s)]
      /\ call' = Frame("expand", slot, Kept(s), sz, req)
      /\ EndsSuballoced(s) =>
           /\ maps' = DeallocMaps(maps, back)
           /\ stats' = DeallocStats(less, maps, [exts |-> back, inline_sz |-> 0])
      /\ ~ EndsSuballoced(s) => maps' = maps /\ stats' = less
  BY DEF ReallocExpands, MayOperate
<1>2. s \in Segms /\ s.inline_sz \in Int
  BY <1>1, SegmFacts, SegmentAllocatorAssumption
<1>3. /\ Kept(s) \in Segms /\ Kept(s).inline_sz = 0
      /\ n \in 0 .. Len(s.exts)
      /\ Kept(s).exts = SubSeq(s.exts, 1, n)
      /\ ~ EndsSuballoced(s) => Kept(s).exts = s.exts
  BY <1>2, KeptFacts
<1>4. segms'[slot] = Kept(s)
  BY <1>1 DEF IInv, Types
<1>5. /\ InProgress' = << >> /\ ~ Idle' /\ segms'[call'.slot].inline_sz = 0
      /\ SubBlksIn(call'.exts) = {}
  BY <1>1, <1>3, <1>4, BeginsWithNothing
<1>6. stats' = Counters(BytesHeld', BlksHeld', Cardinality(BlksForSub)', SubblksHeld',
                        ExtsHeld', InlineHeld')
  <2>1. CASE EndsSuballoced(s)
    <3>1. PICK first, last, st, dropped, t, k :
            /\ first = SubSeq(s.exts, 1, n) /\ last = back
            /\ st = less /\ dropped = [exts |-> back, inline_sz |-> 0] /\ t = Kept(s) /\ k = n
      OBVIOUS
    <3>2. Kept(s) = [exts |-> first, inline_sz |-> 0]
      BY <1>3, <3>1 DEF Kept
    <3>3. /\ segms' = [segms EXCEPT ![slot] = t] /\ t = [exts |-> first, inline_sz |-> 0]
          /\ maps' = DeallocMaps(maps, last)
          /\ stats' = DeallocStats(st, maps, dropped)
          /\ st = CountSpace(stats, << >>, segms[slot].inline_sz, -1)
          /\ dropped = [exts |-> last, inline_sz |-> 0]
          /\ first = SubSeq(segms[slot].exts, 1, k)
          /\ last = SubSeq(segms[slot].exts, k + 1, Len(segms[slot].exts))
          /\ k \in 0 .. Len(segms[slot].exts) /\ segms[slot] # NoSegm
          /\ last = last \/ last = Reverse(last)
      BY <1>1, <1>3, <2>1, <3>1, <3>2
    <3>4. Idle /\ InProgress' = << >>
      BY <1>1, <1>5
    <3> QED
      BY ONLY IInv, IInv', StatsInv, slot \in Slots, <3>3, <3>4, KeepsFirstCounts
  <2>2. CASE ~ EndsSuballoced(s)
    <3>1. PICK t, cut : t = Kept(s) /\ cut = s.inline_sz
      OBVIOUS
    <3>2. s.inline_sz - s.inline_sz = 0
      BY <1>2
    <3>3. /\ t \in Segms /\ cut \in Int /\ t.exts = segms[slot].exts
          /\ t.inline_sz = segms[slot].inline_sz - cut
          /\ segms' = [segms EXCEPT ![slot] = t] /\ maps' = maps
          /\ stats' = CountSpace(stats, << >>, cut, -1) /\ segms[slot] # NoSegm
      BY <1>1, <1>2, <1>3, <2>2, <3>1, <3>2
    <3> QED
      BY ONLY IInv, StatsInv, slot \in Slots, <1>1, <1>5, <3>3, LessInlineCounts
  <2> QED
    BY <2>1, <2>2
<1> QED
  BY <1>5, <1>6 DEF StatsInv

\* realloc to a smaller size, when it only cuts inline bytes.
LEMMA ReallocCutsInlineCounts ==
  ASSUME IInv, IInv', StatsInv, NEW slot \in Slots, NEW sz \in Sizes, ReallocCutsInline(slot, sz)
  PROVE  StatsInv'
<1> DEFINE s == segms[slot]
<1>1. PICK cut : cut = SegmSz(s) - sz
  OBVIOUS
<1>2. /\ Idle /\ s # NoSegm /\ cut > 0 /\ cut <= s.inline_sz
      /\ segms' = [segms EXCEPT ![slot].inline_sz = @ - cut]
      /\ stats' = CountSpace(stats, << >>, cut, -1)
      /\ maps' = maps /\ call' = call
  BY <1>1 DEF ReallocCutsInline, MayOperate
<1>3. /\ s \in Segms /\ SegmSz(s) \in Nat /\ sz \in Nat /\ call = [pc |-> "idle"]
      /\ segms \in [Slots -> Segms \cup {NoSegm}] /\ segms' \in [Slots -> Segms \cup {NoSegm}]
  BY <1>2, SegmFacts, KeptFacts, IdleFacts, SegmentAllocatorAssumption DEF IInv, Types
<1>4. cut \in Int
  BY <1>1, <1>3
<1>5. PICK t : t = [exts |-> s.exts, inline_sz |-> s.inline_sz - cut]
  OBVIOUS
<1>6. segms' = [segms EXCEPT ![slot] = t]
  <2>1. s = [exts |-> s.exts, inline_sz |-> s.inline_sz]
    BY <1>3 DEF Segms
  <2>2. [s EXCEPT !.inline_sz = @ - cut] = t
    BY <1>5, <2>1
  <2> QED
    BY <1>2, <2>2
<1>7. t \in Segms /\ t.exts = s.exts /\ t.inline_sz = s.inline_sz - cut
  <2>1. s.exts \in Seq(Extents) /\ s.inline_sz \in 0 .. BlkSz
    BY <1>3 DEF Segms
  <2>2. s.inline_sz - cut \in 0 .. BlkSz
    <3>1. PICK i : i = s.inline_sz
      OBVIOUS
    <3>2. i \in 0 .. BlkSz /\ cut > 0 /\ cut <= i /\ BlkSz \in Nat
      BY <1>2, <2>1, <3>1, SegmentAllocatorAssumption
    <3>3. i - cut \in 0 .. BlkSz
      BY ONLY <1>4, <3>2
    <3> QED
      BY <3>1, <3>3
  <2> QED
    BY <1>5, <2>1, <2>2 DEF Segms
<1>8. InProgress' = << >> /\ Idle'
  BY <1>2, <1>3 DEF InProgress, Idle
<1>9. segms[slot] # NoSegm /\ t.exts = segms[slot].exts
      /\ t.inline_sz = segms[slot].inline_sz - cut
  BY <1>2, <1>7
<1> HIDE DEF s
<1>10. stats' = Counters(BytesHeld', BlksHeld', Cardinality(BlksForSub)', SubblksHeld',
                         ExtsHeld', InlineHeld')
  BY ONLY IInv, StatsInv, slot \in Slots, <1>2, <1>4, <1>6, <1>7, <1>8, <1>9, LessInlineCounts
<1> QED
  BY <1>8, <1>10 DEF StatsInv

\* realloc to a smaller size, before it calls alloc if it does.
LEMMA ReallocShrinksCounts ==
  ASSUME IInv, IInv', StatsInv, NEW slot \in Slots, NEW sz \in Sizes, NEW req \in Reqs,
         ReallocShrinks(slot, sz, req)
  PROVE  StatsInv'
<1> DEFINE s == segms[slot]
           fits == {n \in 0 .. Len(s.exts) : ExtsSz(SubSeq(s.exts, 1, n)) <= sz}
           cnt == CHOOSE n \in fits : \A k \in fits : k <= n
<1>1. PICK first, last, back : /\ first = SubSeq(s.exts, 1, cnt)
                               /\ last = SubSeq(s.exts, cnt + 1, Len(s.exts))
                               /\ back = Reverse(last)
  OBVIOUS
<1> DEFINE kept == [exts |-> first, inline_sz |-> 0]
<1>2. /\ Idle /\ s # NoSegm
      /\ segms' = [segms EXCEPT ![slot] = kept]
      /\ maps' = DeallocMaps(maps, back)
      /\ stats' = DeallocStats(CountSpace(stats, << >>, s.inline_sz, -1), maps,
                               [exts |-> back, inline_sz |-> 0])
      /\ \/ UNCHANGED call
         \/ call' = Frame("shrink", slot, kept, sz, req)
  BY <1>1 DEF ReallocShrinks, MayOperate
<1>3. s \in Segms /\ s.exts \in Seq(Extents) /\ call = [pc |-> "idle"] /\ sz \in Nat
  BY <1>2, SegmFacts, IdleFacts, SegmentAllocatorAssumption
<1>4. cnt \in 0 .. Len(s.exts)
  BY <1>3, FittingExts
<1>5. PICK k : k = cnt
  OBVIOUS
<1> HIDE DEF cnt
<1>6. kept.inline_sz = 0 /\ segms'[slot] = kept
  BY <1>2 DEF IInv, Types
<1>7. /\ InProgress' = << >>
      /\ Idle' \/ (segms'[call'.slot].inline_sz = 0 /\ SubBlksIn(call'.exts) = {})
  <2>1. CASE UNCHANGED call
    BY <1>3, <2>1 DEF InProgress, Idle
  <2>2. CASE call' = Frame("shrink", slot, kept, sz, req)
    BY <1>6, <2>2, BeginsWithNothing
  <2> QED
    BY <1>2, <2>1, <2>2
<1>8. PICK st, dropped, t :
        /\ st = CountSpace(stats, << >>, s.inline_sz, -1)
        /\ dropped = [exts |-> back, inline_sz |-> 0] /\ t = kept
  OBVIOUS
<1>9. /\ segms[slot] # NoSegm /\ k \in 0 .. Len(segms[slot].exts)
      /\ first = SubSeq(segms[slot].exts, 1, k)
      /\ last = SubSeq(segms[slot].exts, k + 1, Len(segms[slot].exts))
      /\ back = last \/ back = Reverse(last)
      /\ stats' = DeallocStats(st, maps, dropped) /\ maps' = DeallocMaps(maps, back)
      /\ st = CountSpace(stats, << >>, segms[slot].inline_sz, -1)
      /\ dropped = [exts |-> back, inline_sz |-> 0]
      /\ segms' = [segms EXCEPT ![slot] = t] /\ t = [exts |-> first, inline_sz |-> 0]
      /\ Idle /\ InProgress' = << >>
  BY <1>1, <1>2, <1>4, <1>5, <1>7, <1>8
<1> HIDE DEF s
<1>10. stats' = Counters(BytesHeld', BlksHeld', Cardinality(BlksForSub)', SubblksHeld',
                        ExtsHeld', InlineHeld')
  BY ONLY IInv, IInv', StatsInv, slot \in Slots, <1>9, KeepsFirstCounts
<1> QED
  BY <1>7, <1>10 DEF StatsInv

\* The segments and the blocks for suballocation are the same, and so are the
\* counters.
LEMMA SameCounts ==
  ASSUME StatsInv, segms' = segms, BlksForSub' = BlksForSub, stats' = stats
  PROVE  stats' = Counters(BytesHeld', BlksHeld', Cardinality(BlksForSub)', SubblksHeld',
                           ExtsHeld', InlineHeld')
<1>1. /\ BytesHeld' = BytesHeld /\ BlksHeld' = BlksHeld /\ SubblksHeld' = SubblksHeld
      /\ ExtsHeld' = ExtsHeld /\ InlineHeld' = InlineHeld
  BY DEF BytesHeld, BlksHeld, SubblksHeld, ExtsHeld, InlineHeld,
         BytesOf, BlksIn, SubblksIn, ExtCntIn, InlineIn
<1> QED
  BY <1>1 DEF StatsInv

\* An empty segment takes no space, and neither does none.
LEMMA EmptyCounts ==
  ASSUME segms \in [Slots -> Segms \cup {NoSegm}], NEW slot \in Slots,
         segms[slot] \in {EmptySegm, NoSegm}, NEW t \in {EmptySegm, NoSegm},
         segms' = [segms EXCEPT ![slot] = t]
  PROVE  /\ BytesHeld' = BytesHeld /\ BlksHeld' = BlksHeld /\ SubblksHeld' = SubblksHeld
         /\ ExtsHeld' = ExtsHeld /\ InlineHeld' = InlineHeld
         /\ EmptySegm \in Segms /\ EmptySegm.inline_sz = 0
         /\ \A r \in Slots : SubBlksOfSegm(segms'[r]) = SubBlksOfSegm(segms[r])
<1>1. PICK s : s = EmptySegm
  OBVIOUS
<1>2. s \in Segms /\ s # NoSegm /\ s.exts = << >> /\ s.inline_sz = 0
  <2>1. BlkSz \in Nat /\ NoSegm \notin Segms
    BY SegmentAllocatorAssumption
  <2>2. 0 \in 0 .. BlkSz /\ << >> \in Seq(Extents)
    BY <2>1, EmptySeq
  <2>3. PICK none : none = << >>
    OBVIOUS
  <2>4. s = [exts |-> none, inline_sz |-> 0] /\ none \in Seq(Extents)
    BY <1>1, <2>2, <2>3 DEF EmptySegm
  <2>5. s \in Segms /\ s.exts = none /\ s.inline_sz = 0
    BY ONLY <2>2, <2>4 DEF Segms
  <2> QED
    BY <2>1, <2>3, <2>5
<1>3. \A r \in {t, segms[slot]} :
        /\ BytesOf(r) = 0 /\ BlksIn(r) = 0 /\ SubblksIn(r) = 0 /\ ExtCntIn(r) = 0 /\ InlineIn(r) = 0
        /\ SubBlksOfSegm(r) = {}
  BY <1>1, <1>2, SpaceOfExts, EmptySeq, SubBlksFacts
     DEF BytesOf, BlksIn, SubblksIn, ExtCntIn, InlineIn, SegmSz, SubBlksOfSegm
<1>4. /\ BytesHeld' = BytesHeld - 0 + 0 /\ BlksHeld' = BlksHeld - 0 + 0
      /\ SubblksHeld' = SubblksHeld - 0 + 0
      /\ ExtsHeld' = ExtsHeld - 0 + 0 /\ InlineHeld' = InlineHeld - 0 + 0
  <2>1. /\ BytesHeld' = BytesHeld - BytesOf(segms[slot]) + BytesOf(t)
        /\ BlksHeld' = BlksHeld - BlksIn(segms[slot]) + BlksIn(t)
        /\ SubblksHeld' = SubblksHeld - SubblksIn(segms[slot]) + SubblksIn(t)
        /\ ExtsHeld' = ExtsHeld - ExtCntIn(segms[slot]) + ExtCntIn(t)
        /\ InlineHeld' = InlineHeld - InlineIn(segms[slot]) + InlineIn(t)
    BY <1>1, <1>2, HeldChanges
  <2> QED
    BY <1>3, <2>1
<1>5. \A r \in Slots : SubBlksOfSegm(segms'[r]) = SubBlksOfSegm(segms[r])
  BY <1>3
<1> QED
  BY <1>1, <1>2, <1>4, <1>5, HeldNumbers

\* alloc, when it is called by the user.
LEMMA CallAllocCounts ==
  ASSUME IInv, IInv', StatsInv, NEW slot \in Slots, NEW sz \in Sizes, NEW req \in Reqs,
         CallAlloc(slot, sz, req)
  PROVE  StatsInv'
<1>1. /\ Idle /\ segms[slot] = NoSegm
      /\ segms' = [segms EXCEPT ![slot] = EmptySegm]
      /\ call' = Frame("alloc", slot, EmptySegm, sz, req)
      /\ maps' = maps /\ stats' = stats
  BY DEF CallAlloc, MayOperate
<1>2. /\ BytesHeld' = BytesHeld /\ BlksHeld' = BlksHeld /\ SubblksHeld' = SubblksHeld
      /\ ExtsHeld' = ExtsHeld /\ InlineHeld' = InlineHeld
      /\ EmptySegm \in Segms /\ EmptySegm.inline_sz = 0 /\ segms'[slot] = EmptySegm
      /\ \A r \in Slots : SubBlksOfSegm(segms'[r]) = SubBlksOfSegm(segms[r])
  BY <1>1, EmptyCounts DEF IInv, Types
<1>3. /\ InProgress' = << >> /\ segms'[call'.slot].inline_sz = 0 /\ SubBlksIn(call'.exts) = {}
  BY <1>1, <1>2, BeginsWithNothing
<1>4. BlksForSub' = BlksForSub
  BY <1>1, <1>2, <1>3, IdleFacts, BlksForSubAfter DEF BlksForSub
<1> QED
  BY <1>1, <1>2, <1>3, <1>4 DEF StatsInv

\* block and unblock.
LEMMA BlockOpsCounts ==
  ASSUME StatsInv, BlockOps \/ UnblockOps
  PROVE  StatsInv'
<1>1. Idle /\ UNCHANGED <<maps, segms, call, stats>>
  BY DEF BlockOps, UnblockOps
<1>2. Idle' /\ InProgress' = InProgress
  BY <1>1 DEF Idle, InProgress
<1>3. BlksForSub' = BlksForSub
  BY <1>1, <1>2, BlksForSubAfter DEF BlksForSub
<1> QED
  BY <1>1, <1>2, <1>3, SameCounts DEF StatsInv

\* release: between calls there is no block to reclaim.
LEMMA ReleaseSpaceCounts ==
  ASSUME IInv, StatsInv, ReleaseSpace
  PROVE  StatsInv'
<1>1. /\ Idle /\ UNCHANGED <<segms, call>>
      /\ maps'.subfr_map = ReleaseSub(maps.subfr_map, Reclaimable(maps))
      /\ stats' = CountSuballocBlks(stats, - Cardinality(Reclaimable(maps)))
  BY DEF ReleaseSpace, MayOperate, Reclaimed
<1>2. Idle' /\ InProgress' = InProgress
  BY <1>1 DEF Idle, InProgress
<1>3. Reclaimable(maps) = {} /\ Types
  BY <1>1, IdleFacts DEF IInv
<1>4. MapBlks(maps'.subfr_map) = MapBlks(maps.subfr_map)
  BY <1>1, <1>3 DEF MapBlks, ReleaseSub
<1>5. BlksForSub' = BlksForSub
  BY <1>1, <1>2, <1>4, BlksForSubAfter DEF BlksForSub
<1>6. stats' = stats
  <2>1. PICK b, k, n, u, e, l : /\ b = BytesHeld /\ k = BlksHeld /\ n = Cardinality(BlksForSub)
                                /\ u = SubblksHeld /\ e = ExtsHeld /\ l = InlineHeld
    OBVIOUS
  <2>2. b \in Int /\ k \in Int /\ n \in Int /\ u \in Int /\ e \in Int /\ l \in Int
    BY <1>3, <2>1, HeldNumbers, BlksForSubFacts DEF Types
  <2>3. PICK d : d = - Cardinality(Reclaimable(maps))
    OBVIOUS
  <2>4. d = 0 /\ d \in Int /\ n + d = n
    BY <1>3, <2>2, <2>3, FS_EmptySet
  <2>5. PICK st : st = stats
    OBVIOUS
  <2>6. st = Counters(b, k, n, u, e, l)
    BY <2>1, <2>5 DEF StatsInv
  <2>7. CountSuballocBlks(st, d) = Counters(b, k, n + d, u, e, l)
    BY ONLY <2>2, <2>4, <2>6, CountingBlks, SMTT(60)
  <2> QED
    BY <1>1, <2>3, <2>4, <2>5, <2>6, <2>7
<1> QED
  BY <1>1, <1>2, <1>5, <1>6, SameCounts DEF StatsInv

\* Nothing is allocated.
LEMMA NoneCounts ==
  ASSUME maps = [fr_map |-> EmptyFreeMap, subfr_map |-> EmptySubFreeMap],
         segms = [s \in Slots |-> NoSegm], call = [pc |-> "idle"], stats = NoStats
  PROVE  StatsInv
<1>1. MapBlks(maps.subfr_map) = {}
  BY DEF MapBlks, EmptySubFreeMap
<1>2. Idle /\ SubBlksIn(InProgress) = {}
  BY SubBlksFacts DEF Idle, InProgress
<1>3. \A s \in Slots : SubBlksOfSegm(segms[s]) = {}
  BY DEF SubBlksOfSegm
<1>4. BlksForSub = {}
  BY <1>1, <1>2, <1>3 DEF BlksForSub
<1>5. Cardinality(BlksForSub) = 0
  BY <1>4, FS_EmptySet
<1>6. stats = Counters(0, 0, 0, 0, 0, 0)
  BY DEF NoStats, Counters
<1> QED
  BY <1>2, <1>5, <1>6, HeldByNone DEF StatsInv

\* reset.
LEMMA ResetCounts ==
  ASSUME IInv, Reset
  PROVE  StatsInv'
<1>1. /\ (maps = [fr_map |-> EmptyFreeMap, subfr_map |-> EmptySubFreeMap])'
      /\ (segms = [s \in Slots |-> NoSegm])' /\ (stats = NoStats)'
  BY DEF Reset
<1>2. (call = [pc |-> "idle"])'
  BY IdleFacts DEF Reset, MayOperate, IInv, Types
<1> QED
  BY <1>1, <1>2, NoneCounts, PTL

-----------------------------------------------------------------------------
(* The counters of an allocator that is initialized from the segments *)

\* The counters of the segments of some slots.
CountersOver(T) ==
  Counters(SetSum([s \in Slots |-> BytesOf(segms[s])], T),
           SetSum([s \in Slots |-> BlksIn(segms[s])], T), 0,
           SetSum([s \in Slots |-> SubblksIn(segms[s])], T),
           SetSum([s \in Slots |-> ExtCntIn(segms[s])], T),
           SetSum([s \in Slots |-> InlineIn(segms[s])], T))

\* One more segment is counted.
LEMMA CountsOneMore ==
  ASSUME segms \in [Slots -> Segms \cup {NoSegm}], NEW T \in SUBSET Live, NEW x \in T
  PROVE  CountersOver(T) = CountSegm(CountersOver(T \ {x}), segms[x], 1)
<1>1. /\ Live \subseteq Slots /\ x \in Slots /\ segms[x] \in Segms /\ segms[x] # NoSegm
      /\ IsFiniteSet(T) /\ IsFiniteSet(T \ {x}) /\ T \ {x} \subseteq Slots
  <2>1. Live \subseteq Slots /\ x \in Slots /\ segms[x] \in Segms /\ segms[x] # NoSegm
    BY DEF Live
  <2>2. IsFiniteSet(Slots) /\ T \in SUBSET Slots /\ T \ {x} \in SUBSET Slots
    BY <2>1, SegmentAllocatorAssumption
  <2> QED
    BY <2>1, <2>2, FS_Subset
<1>2. \A s \in Slots :
        BytesOf(segms[s]) \in Nat /\ BlksIn(segms[s]) \in Nat /\ SubblksIn(segms[s]) \in Nat
        /\ ExtCntIn(segms[s]) \in Nat /\ InlineIn(segms[s]) \in Nat
  BY SegmNumbers
<1>3. PICK F1, F2, F3, F4, F5 : /\ F1 = [s \in Slots |-> BytesOf(segms[s])]
                                /\ F2 = [s \in Slots |-> BlksIn(segms[s])]
                                /\ F3 = [s \in Slots |-> SubblksIn(segms[s])]
                                /\ F4 = [s \in Slots |-> ExtCntIn(segms[s])]
                                /\ F5 = [s \in Slots |-> InlineIn(segms[s])]
  OBVIOUS
<1>4. \A y \in T : F1[y] \in Nat /\ F2[y] \in Nat /\ F3[y] \in Nat /\ F4[y] \in Nat /\ F5[y] \in Nat
  BY <1>1, <1>2, <1>3
<1>5. \A F \in {F1, F2, F3, F4, F5} :
        SetSum(F, T \ {x}) \in Nat /\ SetSum(F, T) = F[x] + SetSum(F, T \ {x})
  <2> TAKE F \in {F1, F2, F3, F4, F5}
  <2>1. \A y \in T : F[y] \in Nat
    BY <1>4
  <2>2. \A y \in T \ {x} : F[y] \in Nat
    BY <2>1
  <2> QED
    BY ONLY x \in T, <1>1, <2>1, <2>2, SetSumFacts
<1>6. PICK exts, i : exts = segms[x].exts /\ i = segms[x].inline_sz
  OBVIOUS
<1>7. exts \in Seq(Extents) /\ i \in Int /\ ExtsSz(exts) \in Nat /\ FullBlkCnt(exts) \in Nat
      /\ SubblkCntOf(exts) \in Nat /\ Len(exts) \in Nat
  BY <1>1, <1>6, SpaceOfExts, LenProperties, SegmentAllocatorAssumption DEF Segms
<1>8. /\ F1[x] = ExtsSz(exts) + i /\ F2[x] = FullBlkCnt(exts) /\ F3[x] = SubblkCntOf(exts)
      /\ F4[x] = Len(exts) /\ F5[x] = i
  BY <1>1, <1>3, <1>6 DEF BytesOf, BlksIn, SubblksIn, ExtCntIn, InlineIn, SegmSz
<1>9. PICK b, k, u, e, l : /\ b = SetSum(F1, T \ {x}) /\ k = SetSum(F2, T \ {x})
                           /\ u = SetSum(F3, T \ {x}) /\ e = SetSum(F4, T \ {x})
                           /\ l = SetSum(F5, T \ {x})
  OBVIOUS
<1>10. b \in Int /\ k \in Int /\ u \in Int /\ e \in Int /\ l \in Int /\ 0 \in Int
  BY <1>5, <1>9
<1>11. CountSpace(Counters(b, k, 0, u, e, l), exts, i, 1)
         = Counters(b + (ExtsSz(exts) + i), k + FullBlkCnt(exts), 0, u + SubblkCntOf(exts),
                    e + Len(exts), l + i)
  <2>1. PICK n : n = 0
    OBVIOUS
  <2>2. n \in Int
    BY <2>1
  <2>3. CountSpace(Counters(b, k, n, u, e, l), exts, i, 1)
          = Counters(b + (ExtsSz(exts) + i), k + FullBlkCnt(exts), n, u + SubblkCntOf(exts),
                     e + Len(exts), l + i)
    BY ONLY <1>7, <1>10, <2>2, Counting
  <2> QED
    BY <2>1, <2>3
<1>12. CountersOver(T \ {x}) = Counters(b, k, 0, u, e, l)
  BY <1>3, <1>9 DEF CountersOver
<1>13. CountersOver(T) = Counters(SetSum(F1, T), SetSum(F2, T), 0, SetSum(F3, T), SetSum(F4, T),
                                  SetSum(F5, T))
  BY <1>3 DEF CountersOver
<1>14. /\ SetSum(F1, T) = b + (ExtsSz(exts) + i) /\ SetSum(F2, T) = k + FullBlkCnt(exts)
       /\ SetSum(F3, T) = u + SubblkCntOf(exts) /\ SetSum(F4, T) = e + Len(exts)
       /\ SetSum(F5, T) = l + i
  <2>1. /\ SetSum(F1, T) = F1[x] + b /\ SetSum(F2, T) = F2[x] + k /\ SetSum(F3, T) = F3[x] + u
        /\ SetSum(F4, T) = F4[x] + e /\ SetSum(F5, T) = F5[x] + l
    BY <1>5, <1>9
  <2> QED
    BY ONLY <1>7, <1>8, <1>10, <2>1
<1> QED
  BY <1>6, <1>11, <1>12, <1>13, <1>14 DEF CountSegm

\* What initialize_from_allocated counts is what the segments have.
LEMMA InitialStatsAreHeld ==
  ASSUME segms \in [Slots -> Segms \cup {NoSegm}]
  PROVE  InitialStats
           = CountSuballocBlks(Counters(BytesHeld, BlksHeld, 0, SubblksHeld, ExtsHeld, InlineHeld),
                               Cardinality(SuballocBlks))
<1> DEFINE Body(T, g) == IF T = {} THEN NoStats
                         ELSE LET x == CHOOSE y \in T : TRUE
                              IN  CountSegm(g[T \ {x}], segms[x], 1)
           P(g) == g = [T \in SUBSET Live |-> Body(T, g)]
           iter == CHOOSE g : P(g)
           sums == [T \in SUBSET Live |-> CountersOver(T)]
<1>1. InitialStats = CountSuballocBlks(iter[Live], Cardinality(SuballocBlks))
  BY DEF InitialStats, FoldSet, MapThenFoldSet
<1>2. /\ Live \in SUBSET Slots /\ IsFiniteSet(Slots) /\ IsFiniteSet(Live)
      /\ \A s \in Slots \ Live : segms[s] = NoSegm
  <2>1. Live \in SUBSET Slots /\ IsFiniteSet(Slots) /\ \A s \in Slots \ Live : segms[s] = NoSegm
    BY SegmentAllocatorAssumption DEF Live
  <2> QED
    BY <2>1, FS_Subset
<1>3. CountersOver({}) = NoStats
  <2>1. \A F : SetSum(F, {}) = 0
    BY FS_EmptySet DEF SetSum, PairsOf
  <2> QED
    BY <2>1 DEF CountersOver, Counters, NoStats
<1>4. P(sums)
  <2>1. ASSUME NEW T \in SUBSET Live PROVE sums[T] = Body(T, sums)
    <3>1. CASE T = {}
      BY <1>3, <3>1
    <3>2. CASE T # {}
      <4>1. PICK x : x = CHOOSE y \in T : TRUE
        OBVIOUS
      <4>2. x \in T /\ T \ {x} \in SUBSET Live
        BY <3>2, <4>1
      <4>3. CountersOver(T) = CountSegm(CountersOver(T \ {x}), segms[x], 1)
        BY <4>2, CountsOneMore
      <4> QED
        BY <3>2, <4>1, <4>2, <4>3
    <3> QED
      BY <3>1, <3>2
  <2>2. sums = [T \in SUBSET Live |-> sums[T]]
    OBVIOUS
  <2> HIDE DEF sums, Body
  <2> QED
    BY <2>1, <2>2
<1>5. P(iter)
  <2> HIDE DEF P, sums
  <2> QED
    BY <1>4
<1>6. \A T \in SUBSET Live : sums[T] = CountersOver(T)
  OBVIOUS
<1> HIDE DEF iter, sums
<1>7. \A T \in SUBSET Live : iter[T] = Body(T, iter) /\ sums[T] = Body(T, sums)
  <2> HIDE DEF Body
  <2> QED
    BY <1>4, <1>5
<1>8. iter[Live] = sums[Live]
  <2> DEFINE Bad == {T \in SUBSET Live : iter[T] # sums[T]}
             Cards == {Cardinality(T) : T \in Bad}
  <2>1. \A T \in SUBSET Live : IsFiniteSet(T) /\ Cardinality(T) \in Nat
    BY <1>2, FS_Subset, FS_CardinalityType
  <2>2. Bad = {}
    <3> SUFFICES ASSUME Bad # {} PROVE FALSE
      OBVIOUS
    <3>1. PICK n \in Cards : \A k \in Cards : n <= k
      <4>1. Cards \subseteq Nat /\ Cards # {}
        BY <2>1
      <4> QED
        BY <4>1, LeastExists
    <3>2. PICK T \in Bad : n = Cardinality(T)
      BY <3>1
    <3>3. IsFiniteSet(T) /\ Cardinality(T) \in Nat /\ T \in SUBSET Live /\ iter[T] # sums[T]
      BY <2>1, <3>2
    <3>4. T # {}
      BY <1>7, <3>3
    <3>5. PICK x : x = CHOOSE y \in T : TRUE
      OBVIOUS
    <3>6. x \in T
      BY <3>4, <3>5
    <3>7. T \ {x} \in SUBSET Live /\ Cardinality(T \ {x}) = Cardinality(T) - 1
      BY <3>3, <3>6, FS_RemoveElement
    <3>8. T \ {x} \notin Bad
      <4>1. T \ {x} \in Bad => Cardinality(T) <= Cardinality(T \ {x})
        BY <3>1, <3>2
      <4> QED
        BY <3>3, <3>7, <4>1
    <3>9. iter[T \ {x}] = sums[T \ {x}]
      BY <3>7, <3>8
    <3>10. /\ iter[T] = CountSegm(iter[T \ {x}], segms[x], 1)
           /\ sums[T] = CountSegm(sums[T \ {x}], segms[x], 1)
      BY <1>7, <3>3, <3>4, <3>5
    <3> QED
      BY <3>3, <3>9, <3>10
  <2> QED
    BY <2>2
<1>9. CountersOver(Live) = Counters(BytesHeld, BlksHeld, 0, SubblksHeld, ExtsHeld, InlineHeld)
  <2>1. \A s \in Slots \ Live :
          BytesOf(segms[s]) = 0 /\ BlksIn(segms[s]) = 0 /\ SubblksIn(segms[s]) = 0
          /\ ExtCntIn(segms[s]) = 0 /\ InlineIn(segms[s]) = 0
    BY <1>2 DEF BytesOf, BlksIn, SubblksIn, ExtCntIn, InlineIn
  <2>2. /\ SetSum([s \in Slots |-> BytesOf(segms[s])], Live) = BytesHeld
        /\ SetSum([s \in Slots |-> BlksIn(segms[s])], Live) = BlksHeld
        /\ SetSum([s \in Slots |-> SubblksIn(segms[s])], Live) = SubblksHeld
        /\ SetSum([s \in Slots |-> ExtCntIn(segms[s])], Live) = ExtsHeld
        /\ SetSum([s \in Slots |-> InlineIn(segms[s])], Live) = InlineHeld
    BY <1>2, <2>1, SetSumOfSome DEF BytesHeld, BlksHeld, SubblksHeld, ExtsHeld, InlineHeld
  <2> QED
    BY <2>2 DEF CountersOver
<1> QED
  BY <1>1, <1>6, <1>8, <1>9

\* The blocks of the live extents for suballocation.
LEMMA SuballocBlksFacts ==
  ASSUME IInv
  PROVE  /\ SuballocBlks = UNION {SubBlksOfSegm(segms[s]) : s \in Slots}
         /\ SuballocBlks \subseteq BlkNrs
         /\ LiveExts \subseteq Extents
<1>1. \A s \in Live : /\ s \in Slots /\ segms[s] # NoSegm /\ segms[s].exts \in Seq(Extents)
                      /\ Range(segms[s].exts) = {segms[s].exts[i] : i \in 1 .. Len(segms[s].exts)}
  BY SegmFacts, RangeEquality DEF Live
<1>2. ASSUME NEW s \in Live
      PROVE  SubBlksOfSegm(segms[s]) = {e.blk_nr : e \in {x \in Range(segms[s].exts) : x.is_suballoc}}
  <2>1. PICK exts, R, D : exts = segms[s].exts /\ R = Range(exts) /\ D = 1 .. Len(exts)
    OBVIOUS
  <2>2. R = {exts[i] : i \in D}
    BY <1>1, <2>1
  <2>3. {exts[i].blk_nr : i \in {j \in D : exts[j].is_suballoc}}
          = {e.blk_nr : e \in {x \in R : x.is_suballoc}}
    <3>1. ASSUME NEW i \in D, exts[i].is_suballoc
          PROVE  exts[i] \in {x \in R : x.is_suballoc}
      BY ONLY <2>2, <3>1
    <3>2. ASSUME NEW e \in R, e.is_suballoc
          PROVE  \E i \in {j \in D : exts[j].is_suballoc} : e = exts[i]
      BY ONLY <2>2, <3>2
    <3> QED
      BY ONLY <3>1, <3>2
  <2>4. SubBlksOfSegm(segms[s]) = {exts[i].blk_nr : i \in {j \in D : exts[j].is_suballoc}}
    BY <1>1, <2>1 DEF SubBlksOfSegm, SubBlksIn
  <2> QED
    BY <2>1, <2>3, <2>4
<1>3. SuballocBlks = UNION {SubBlksOfSegm(segms[s]) : s \in Live}
  <2>1. SuballocBlks
          = UNION {{e.blk_nr : e \in {x \in Range(segms[s].exts) : x.is_suballoc}} : s \in Live}
    BY DEF SuballocBlks, LiveExts
  <2> QED
    BY <1>2, <2>1
<1>4. \A s \in Slots \ Live : SubBlksOfSegm(segms[s]) = {}
  BY DEF SubBlksOfSegm, Live
<1>5. \A s \in Live : SubBlksOfSegm(segms[s]) \subseteq BlkNrs
  BY <1>1, SubBlksFacts DEF SubBlksOfSegm
<1>6. LiveExts \subseteq Extents
  <2>1. \A s \in Live : Range(segms[s].exts) \subseteq Extents
    <3> TAKE s \in Live
    <3>1. PICK exts : exts = segms[s].exts
      OBVIOUS
    <3>2. exts \in Seq(Extents) /\ Range(exts) = {exts[i] : i \in 1 .. Len(exts)}
      BY <1>1, <3>1
    <3>3. \A i \in 1 .. Len(exts) : exts[i] \in Extents
      BY <3>2, ElementOfSeq
    <3> QED
      BY <3>1, <3>2, <3>3
  <2> QED
    BY <2>1 DEF LiveExts
<1> QED
  BY <1>1, <1>3, <1>4, <1>5, <1>6

\* The allocator is initialized from the segments.
LEMMA ReopenCounts ==
  ASSUME IInv, IInv', Reopen
  PROVE  StatsInv'
<1>1. /\ Idle /\ segms' = segms /\ call' = call /\ stats' = InitialStats
      /\ maps'.subfr_map = InitialSubFreeMap
  BY DEF Reopen
<1>2. Idle' /\ InProgress' = << >>
  BY <1>1 DEF Idle, InProgress
<1>3. MapBlks(maps'.subfr_map) \subseteq SuballocBlks
  BY <1>1, SuballocBlksFacts, InitialSubFreeMapFits DEF MapBlks
<1>4. BlksForSub' = SuballocBlks
  BY <1>1, <1>2, <1>3, SuballocBlksFacts, SubBlksFacts, BlksForSubAfter
<1>5. /\ BytesHeld' = BytesHeld /\ BlksHeld' = BlksHeld /\ SubblksHeld' = SubblksHeld
      /\ ExtsHeld' = ExtsHeld /\ InlineHeld' = InlineHeld
  BY <1>1 DEF BytesHeld, BlksHeld, SubblksHeld, ExtsHeld, InlineHeld,
              BytesOf, BlksIn, SubblksIn, ExtCntIn, InlineIn
<1>6. PICK b, k, z, u, e, l, n, st :
        /\ b = BytesHeld /\ k = BlksHeld /\ z = 0 /\ u = SubblksHeld /\ e = ExtsHeld
        /\ l = InlineHeld /\ n = Cardinality(SuballocBlks) /\ st = Counters(b, k, z, u, e, l)
  OBVIOUS
<1>7. InitialStats = CountSuballocBlks(st, n)
  BY <1>6, InitialStatsAreHeld DEF IInv, Types
<1>8. b \in Int /\ k \in Int /\ z \in Int /\ u \in Int /\ e \in Int /\ l \in Int /\ n \in Int
  <2>1. IsFiniteSet(BlkNrs)
    BY FS_Interval, ExtentAssumption DEF BlkNrs
  <2>2. n \in Nat
    BY <1>6, <2>1, SuballocBlksFacts, FS_Subset, FS_CardinalityType
  <2> QED
    BY <1>6, <2>2, HeldNumbers DEF IInv, Types
<1>9. CountSuballocBlks(st, n) = Counters(b, k, z + n, u, e, l)
  <2>1. st = Counters(b, k, z, u, e, l)
    BY <1>6
  <2> QED
    BY ONLY <1>8, <2>1, CountingBlks, SMTT(60)
<1>10. z + n = n
  BY <1>6, <1>8
<1>11. Cardinality(BlksForSub)' = n
  BY <1>4, <1>6
<1> QED
  BY <1>1, <1>2, <1>5, <1>6, <1>7, <1>9, <1>10, <1>11 DEF StatsInv

-----------------------------------------------------------------------------
(* The invariant of the counters is kept by the steps of alloc *)

\* One more extent.
LEMMA SubBlksInAppend ==
  ASSUME NEW s \in Seq(Extents), NEW e \in Extents
  PROVE  SubBlksIn(Append(s, e)) = SubBlksIn(s) \cup (IF e.is_suballoc THEN {e.blk_nr} ELSE {})
<1>1. PICK t : t = <<e>>
  OBVIOUS
<1>2. Append(s, e) = s \o t /\ t \in Seq(Extents)
  BY <1>1, AppendIsConcat, ScatteredFew
<1>3. SubBlksIn(s \o t) = SubBlksIn(s) \cup SubBlksIn(t)
  BY <1>2, SubBlksFacts
<1>4. SubBlksIn(t) = IF e.is_suballoc THEN {e.blk_nr} ELSE {}
  BY <1>1, SubBlksFacts
<1> QED
  BY <1>2, <1>3, <1>4

\* Whole blocks are taken or added, or nothing is.
LEMMA TakesNoSubblk ==
  ASSUME IInv, StatsInv, ~ Idle, ~ Idle', segms' = segms, stats' = stats,
         maps'.subfr_map = maps.subfr_map, call'.slot = call.slot,
         SubBlksIn(call'.exts) = SubBlksIn(call.exts),
         call.pc # "subblks" \/ call' = call
  PROVE  StatsInv'
<1>1. SubBlksIn(InProgress') = SubBlksIn(InProgress)
  BY DEF InProgress, Idle
<1>2. BlksForSub' = BlksForSub
  BY <1>1, BlksForSubAfter DEF BlksForSub
<1> QED
  BY <1>2, SameCounts DEF StatsInv

\* allocate_extents.
LEMMA BlkStepsCount ==
  ASSUME IInv, StatsInv,
         TakesFree \/ TakesOrGrows \/ ProbesLess \/ FreeExhausted \/ BlksAllocated
  PROVE  StatsInv'
<1>1. call.pc \in {"no_grow", "may_grow"} /\ ~ Idle
  BY DEF TakesFree, TakesOrGrows, ProbesLess, FreeExhausted, BlksAllocated, MayNotGrow, MayGrow, Idle
<1>2. call \in Frames /\ call.exts \in Seq(Extents)
  BY <1>1, CallFacts
<1>3. CASE TakesFree \/ TakesOrGrows
  <2>1. PICK p \in Usable(maps.fr_map, Probe) : TakesFrom(p)
    BY <1>3 DEF TakesFree, TakesOrGrows
  <2>2. call.todo.blk_cnt > 0
    BY <1>3 DEF TakesFree, TakesOrGrows, MayNotGrow, MayGrow
  <2>3. PICK e, todo, probe, frag : /\ e = FullExtent(p[2], Probe) /\ probe = Probe
                                    /\ todo = [call.todo EXCEPT !.blk_cnt = @ - Probe]
                                    /\ frag = call.frag + 1
    OBVIOUS
  <2>4. e \in Extents /\ maps'.subfr_map = maps.subfr_map
    BY <1>1, <2>1, <2>2, <2>3, CallFacts, AllocFromFits DEF TakesFrom, IInv
  <2>5. /\ UNCHANGED <<segms, stats>>
        /\ call' = FrameWith(call.pc, todo, Append(call.exts, e), probe, frag)
    <3>1. call' = [call EXCEPT !.exts = Append(@, e), !.todo.blk_cnt = @ - Probe,
                               !.probe = probe, !.frag = frag]
      BY <2>1, <2>3 DEF TakesFrom
    <3> QED
      BY <1>2, <2>1, <2>3, <3>1 DEF FrameWith, Frames, TakesFrom
  <2>6. ~ e.is_suballoc
    BY <2>3 DEF FullExtent
  <2>7. SubBlksIn(Append(call.exts, e)) = SubBlksIn(call.exts)
    BY <1>2, <2>4, <2>6, SubBlksInAppend
  <2>8. /\ call'.exts = Append(call.exts, e) /\ call'.slot = call.slot /\ ~ Idle'
    BY <1>1, <2>5 DEF FrameWith, Idle
  <2> QED
    BY <1>1, <2>4, <2>5, <2>7, <2>8, TakesNoSubblk
<1>4. CASE ProbesLess \/ FreeExhausted \/ BlksAllocated
  <2>1. UNCHANGED <<maps, segms, stats>>
    BY <1>4 DEF ProbesLess, FreeExhausted, BlksAllocated
  <2>2. call'.exts = call.exts /\ call'.slot = call.slot /\ ~ Idle'
    BY <1>1, <1>2, <1>4 DEF ProbesLess, FreeExhausted, BlksAllocated, Frames, Idle
  <2> QED
    BY <1>1, <2>1, <2>2, TakesNoSubblk
<1> QED
  BY <1>3, <1>4

\* The array grows.
LEMMA GrowthCounts ==
  ASSUME IInv, StatsInv, GrowsForBlks \/ GrowsForSubblks
  PROVE  StatsInv'
<1>1. /\ UNCHANGED <<segms, call, stats>> /\ ~ Idle /\ maps'.subfr_map = maps.subfr_map
  <2>1. maps = [fr_map |-> maps.fr_map, subfr_map |-> maps.subfr_map]
    BY DEF IInv, MapsFit
  <2> QED
    BY <2>1 DEF GrowsForBlks, GrowsForSubblks, ProvidesMore, MayGrow, NeedsSubblks, Idle
<1> QED
  BY <1>1, TakesNoSubblk DEF Idle

\* The block that alloc takes subblocks of was in the map already.
LEMMA TakesSubblksCounts ==
  ASSUME IInv, StatsInv, TakesSubblks
  PROVE  StatsInv'
<1>1. PICK x \in UsableBlk(maps.subfr_map, call.todo.subblk_cnt) :
        /\ maps' = [maps EXCEPT !.subfr_map = AllocFromBlk(@, x, call.todo.subblk_cnt)]
        /\ call' = [call EXCEPT !.exts = Append(@, SubExtent(x[1], TakenBits(x[2], call.todo.subblk_cnt))),
                                !.todo.subblk_cnt = 0]
  BY DEF TakesSubblks
<1>2. PICK cnt, e, todo : /\ cnt = call.todo.subblk_cnt /\ e = SubExtent(x[1], TakenBits(x[2], cnt))
                          /\ todo = [call.todo EXCEPT !.subblk_cnt = 0]
  OBVIOUS
<1>3. ~ Idle /\ call.pc = "subblks" /\ cnt > 0 /\ UNCHANGED <<segms, stats>>
  BY <1>2 DEF TakesSubblks, NeedsSubblks, Idle
<1>4. call \in Frames /\ call.exts \in Seq(Extents) /\ cnt \in 1 .. SubblkCntPerBlk
  <2>1. cnt \in 0 .. SubblkCntPerBlk - 1
    BY <1>2, <1>3, CallFacts
  <2> QED
    BY <1>3, <2>1, CallFacts, ExtentAssumption
<1>5. call' = FrameWith(call.pc, todo, Append(call.exts, e), call.probe, call.frag)
  BY <1>1, <1>2, <1>4 DEF FrameWith, Frames
<1>6. MapsFit(maps) /\ SubWellFormed(maps.subfr_map) /\ x \in UsableBlk(maps.subfr_map, cnt)
  BY <1>1, <1>2 DEF IInv, MapsFit
<1>7. x[1] \in MapBlks(maps.subfr_map)
  <2>1. x[1] \in BlkNrs /\ cnt <= Cardinality(maps.subfr_map.fr_by_nr[x[1]])
    BY <1>4, <1>6, UsableBlkFacts
  <2>2. cnt > 0 /\ cnt \in Int
    BY <1>4, ExtentAssumption
  <2>3. maps.subfr_map.fr_by_nr[x[1]] # {}
    <3> SUFFICES ASSUME maps.subfr_map.fr_by_nr[x[1]] = {} PROVE FALSE
      OBVIOUS
    <3>1. cnt <= 0
      BY <2>1, FS_EmptySet
    <3> QED
      BY ONLY <2>2, <3>1
  <2> QED
    BY <2>1, <2>3 DEF MapBlks
<1>8. /\ e \in Extents
      /\ \A b \in BlkNrs : maps'.subfr_map.fr_by_nr[b] =
           IF b = x[1] THEN maps.subfr_map.fr_by_nr[b] \ TakenBits(x[2], cnt)
           ELSE maps.subfr_map.fr_by_nr[b]
  <2>1. maps' = [maps EXCEPT !.subfr_map = AllocFromBlk(@, x, cnt)]
    BY ONLY <1>1, <1>2
  <2>2. LET n == [maps EXCEPT !.subfr_map = AllocFromBlk(@, x, cnt)]
        IN  /\ SubExtent(x[1], TakenBits(x[2], cnt)) \in Extents
            /\ \A b \in BlkNrs : n.subfr_map.fr_by_nr[b] =
                 IF b = x[1] THEN maps.subfr_map.fr_by_nr[b] \ TakenBits(x[2], cnt)
                 ELSE maps.subfr_map.fr_by_nr[b]
    BY <1>4, <1>6, AllocFromBlkFits, ZenonT(30)
  <2> QED
    BY ONLY <1>2, <2>1, <2>2
<1>9. MapBlks(maps'.subfr_map) \cup {x[1]} = MapBlks(maps.subfr_map)
  BY <1>7, <1>8 DEF MapBlks
<1>10. SubBlksIn(Append(call.exts, e)) = SubBlksIn(call.exts) \cup {x[1]}
  <2>1. e.is_suballoc /\ e.blk_nr = x[1]
    BY <1>2 DEF SubExtent
  <2> QED
    BY <1>4, <1>8, <2>1, SubBlksInAppend
<1>11. /\ call'.exts = Append(call.exts, e) /\ call'.slot = call.slot /\ call'.pc = "subblks"
       /\ call'.todo = todo /\ todo.subblk_cnt = 0
  BY <1>2, <1>3, <1>4, <1>5 DEF FrameWith, Frames, Todos
<1>12. BlksForSub' = BlksForSub
  <2>1. InProgress = call.exts /\ InProgress' = Append(call.exts, e)
    BY <1>3, <1>11 DEF InProgress, Idle
  <2> QED
    BY <1>3, <1>9, <1>10, <2>1, BlksForSubAfter DEF BlksForSub
<1> QED
  BY <1>3, <1>11, <1>12, SameCounts DEF StatsInv

\* The block that becomes subblocks was in the free map: no extent for
\* suballocation is of it.
LEMMA ProvidesSubblksCounts ==
  ASSUME IInv, IInv', StatsInv, ProvidesSubblks
  PROVE  StatsInv'
<1>1. /\ ~ Idle /\ UNCHANGED <<segms, call>> /\ stats' = CountSuballocBlks(stats, 1)
  BY DEF ProvidesSubblks, NeedsSubblks, Idle
<1>2. PICK b, k, n, u, e, l, d, st :
         /\ b = BytesHeld /\ k = BlksHeld /\ n = Cardinality(BlksForSub) /\ u = SubblksHeld
         /\ e = ExtsHeld /\ l = InlineHeld /\ d = 1 /\ st = stats
  OBVIOUS
<1>3. IsFiniteSet(BlksForSub) /\ n \in Nat
  BY <1>2, BlksForSubFacts DEF IInv
<1>4. /\ b \in Int /\ k \in Int /\ n \in Int /\ u \in Int /\ e \in Int /\ l \in Int /\ d \in Int
  BY <1>2, <1>3, HeldNumbers DEF IInv, Types
<1>5. CountSuballocBlks(st, d) = Counters(b, k, n + d, u, e, l)
  <2>1. st = Counters(b, k, n, u, e, l)
    BY <1>2 DEF StatsInv
  <2> QED
    BY ONLY <1>4, <2>1, CountingBlks, SMTT(60)
<1>6. PICK p \in Usable(maps.fr_map, 1) :
        maps' = [fr_map |-> AllocFrom(maps.fr_map, p, 1),
                 subfr_map |-> ProvideSub(maps.subfr_map, p[2], Subblks)]
  BY DEF ProvidesSubblks
<1>7. PICK nr : nr = p[2]
  OBVIOUS
<1>8. /\ nr \in BlkNrs /\ FreeUnits(maps') = FreeUnits(maps) /\ MapsFit(maps')
      /\ \A c \in BlkNrs : maps'.subfr_map.fr_by_nr[c] =
           IF c = nr THEN Subblks ELSE maps.subfr_map.fr_by_nr[c]
  BY <1>6, <1>7, ProvideSubFits DEF IInv
<1>9. maps.subfr_map.fr_by_nr[nr] = {} /\ Subblks # {}
  <2>1. 1 \in BlkCnts \ {0} /\ Subblks # {}
    BY ExtentAssumption DEF BlkCnts, Subblks
  <2>2. PICK x : x = FullExtent(nr, 1)
    OBVIOUS
  <2>3. x \in FullExtents /\ BlksOf(x) \subseteq FreeBlksOf(maps.fr_map)
    BY <1>7, <2>1, <2>2, AllocCorrect DEF IInv, MapsFit
  <2>4. BlksOf(x) = {c \in BlkNrs : nr <= c /\ c < nr + 1}
    BY <2>2, <2>3, FullExtentFacts DEF FullExtent
  <2>5. nr \in BlksOf(x)
    BY <1>8, <2>4, ExtentAssumption DEF BlkNrs
  <2> QED
    BY <2>1, <2>3, <2>5 DEF IInv, MapsFit
<1>10. MapBlks(maps'.subfr_map) = MapBlks(maps.subfr_map) \cup {nr} /\ nr \notin MapBlks(maps.subfr_map)
  BY <1>8, <1>9 DEF MapBlks
<1>11. \A i \in Subblks : <<nr, i>> \in FreeUnits(maps)
  BY <1>8, InFreeUnits
<1>12. nr \notin SubBlksIn(InProgress)
  <2>1. Taken \cap FreeUnits(maps) = {} /\ InProgress \in Seq(Extents)
    BY <1>1, CallFacts DEF IInv, SharedOut, Shares
  <2> QED
    BY <1>11, <2>1, SubBlksFacts DEF Taken
<1>13. ASSUME NEW s \in Slots PROVE nr \notin SubBlksOfSegm(segms[s])
  <2>1. CASE segms[s] = NoSegm
    BY <2>1 DEF SubBlksOfSegm
  <2>2. CASE segms[s] # NoSegm
    BY <1>11, <2>2, SegmFacts, SubBlksFacts DEF SubBlksOfSegm
  <2> QED
    BY <2>1, <2>2
<1>14. BlksForSub' = BlksForSub \cup {nr} /\ nr \notin BlksForSub
  <2>1. InProgress' = InProgress
    BY <1>1 DEF InProgress, Idle
  <2> QED
    BY <1>1, <1>10, <1>12, <1>13, <2>1, BlksForSubAfter DEF BlksForSub
<1>15. Cardinality(BlksForSub)' = n + d
  BY <1>14, <1>2, <1>3, FS_AddElement
<1>16. /\ BytesHeld' = b /\ BlksHeld' = k /\ SubblksHeld' = u /\ ExtsHeld' = e /\ InlineHeld' = l
  BY <1>1, <1>2 DEF BytesHeld, BlksHeld, SubblksHeld, ExtsHeld, InlineHeld,
                     BytesOf, BlksIn, SubblksIn, ExtCntIn, InlineIn
<1> QED
  BY <1>1, <1>2, <1>15, <1>5, <1>16 DEF StatsInv, Idle

\* alloc throws: what it had taken was not counted yet, and no subblock is part of it.
LEMMA ThrowsCounts ==
  ASSUME IInv, IInv', StatsInv, Throws
  PROVE  StatsInv'
<1>1. /\ ~ Idle /\ call' = [pc |-> "idle"] /\ UNCHANGED <<maps, stats>>
      /\ segms' = IF call.op = "alloc" THEN [segms EXCEPT ![call.slot] = NoSegm] ELSE segms
      /\ call.pc # "subblks" \/ call.todo.subblk_cnt # 0
  <2>1. call.pc = "may_grow" \/ NeedsSubblks
    BY DEF Throws, MayGrow
  <2>2. call.todo.subblk_cnt > 0 => call.todo.subblk_cnt # 0
    OBVIOUS
  <2> QED
    BY <2>1, <2>2 DEF Throws, NeedsSubblks, Idle
<1>2. InProgress' = << >> /\ Idle'
  BY <1>1 DEF InProgress, Idle
<1>3. SubBlksIn(InProgress) = SubBlksIn(InProgress')
  BY <1>1, <1>2, CallFacts, SubBlksFacts DEF StatsInv
<1>4. CASE call.op = "alloc"
  <2>1. segms[call.slot] = EmptySegm /\ call.slot \in Slots
    BY <1>1, <1>4, CallFacts DEF IInv, CallIsSound
  <2>2. /\ BytesHeld' = BytesHeld /\ BlksHeld' = BlksHeld /\ SubblksHeld' = SubblksHeld
        /\ ExtsHeld' = ExtsHeld /\ InlineHeld' = InlineHeld
        /\ \A r \in Slots : SubBlksOfSegm(segms'[r]) = SubBlksOfSegm(segms[r])
    BY <1>1, <1>4, <2>1, EmptyCounts DEF IInv, Types
  <2>3. BlksForSub' = BlksForSub
    BY <1>1, <1>3, <2>2, BlksForSubAfter DEF BlksForSub
  <2> QED
    BY <1>1, <1>2, <2>2, <2>3 DEF StatsInv
<1>5. CASE call.op # "alloc"
  <2>1. BlksForSub' = BlksForSub /\ segms' = segms
    BY <1>1, <1>3, <1>5, BlksForSubAfter DEF BlksForSub
  <2> QED
    BY <1>1, <1>2, <2>1, SameCounts DEF StatsInv
<1> QED
  BY <1>4, <1>5

\* alloc returns: the segment gets what it took, and what it took is counted.
LEMMA ReturnsCounts ==
  ASSUME IInv, IInv', StatsInv, Returns
  PROVE  StatsInv'
<1>1. PICK slot, old, had, exts, i, all, new, st :
        /\ slot = call.slot /\ old = segms[slot] /\ had = old.exts /\ exts = call.exts
        /\ i = call.todo.inline_sz /\ all = had \o exts
        /\ new = [exts |-> all, inline_sz |-> i] /\ st = stats
  OBVIOUS
<1>2. /\ ~ Idle /\ segms' = [segms EXCEPT ![slot] = new] /\ call' = [pc |-> "idle"]
      /\ stats' = CountSpace(st, exts, i, 1) /\ maps' = maps
  BY <1>1 DEF Returns, CountSegm, Idle
<1>3. /\ slot \in Slots /\ exts \in Seq(Extents) /\ i \in 0 .. BlkSz /\ InProgress = exts
      /\ old \in Segms /\ old # NoSegm /\ had \in Seq(Extents) /\ old.inline_sz = 0
      /\ segms \in [Slots -> Segms \cup {NoSegm}]
  BY <1>1, <1>2, CallFacts, SegmFacts DEF IInv, Types, StatsInv
<1>4. i \in Nat /\ NoSegm \notin Segms
  BY <1>3, SegmentAllocatorAssumption
<1>5. new \in Segms /\ new # NoSegm /\ new.exts = all /\ new.inline_sz = i
  <2>1. all \in Seq(Extents)
    BY <1>1, <1>3, ConcatProperties
  <2>2. new \in Segms /\ new.exts = all /\ new.inline_sz = i
    BY ONLY <1>1, <1>3, <2>1 DEF Segms
  <2> QED
    BY <1>4, <2>2
<1>6. PICK b, k, z, u, e, l : /\ b = BytesHeld /\ k = BlksHeld /\ z = Cardinality(BlksForSub)
                               /\ u = SubblksHeld /\ e = ExtsHeld /\ l = InlineHeld
  OBVIOUS
<1>7. b \in Int /\ k \in Int /\ z \in Int /\ u \in Int /\ e \in Int /\ l \in Int /\ i \in Int
  BY <1>3, <1>4, <1>6, HeldNumbers, BlksForSubFacts DEF IInv, Types
<1>8. stats' = Counters(b + (ExtsSz(exts) + i), k + FullBlkCnt(exts), z,
                         u + SubblkCntOf(exts), e + Len(exts), l + i)
  <2>1. st = Counters(b, k, z, u, e, l)
    BY <1>1, <1>6 DEF StatsInv
  <2>2. exts \in Seq(Extents) /\ Live \subseteq Slots
    BY <1>3 DEF Live
  <2>3. CountSpace(Counters(b, k, z, u, e, l), exts, i, 1)
          = Counters(b + (ExtsSz(exts) + i), k + FullBlkCnt(exts), z, u + SubblkCntOf(exts),
                     e + Len(exts), l + i)
    BY ONLY <1>7, <2>2, Counting
  <2> QED
    BY ONLY <1>2, <2>1, <2>3
<1>9. PICK x, y, f, g, s, t, m, n : /\ x = ExtsSz(had) /\ y = ExtsSz(exts)
                                    /\ f = FullBlkCnt(had) /\ g = FullBlkCnt(exts)
                                    /\ s = SubblkCntOf(had) /\ t = SubblkCntOf(exts)
                                    /\ m = Len(had) /\ n = Len(exts)
  OBVIOUS
<1>10. /\ x \in Nat /\ y \in Nat /\ f \in Nat /\ g \in Nat /\ s \in Nat /\ t \in Nat
      /\ m \in Nat /\ n \in Nat
  BY <1>3, <1>9, SpaceOfExts, LenProperties
<1>11. ExtsSz(all) = x + y /\ FullBlkCnt(all) = f + g /\ SubblkCntOf(all) = s + t
  BY <1>1, <1>3, <1>9, SpaceOfExts
<1>12. Len(all) = m + n
  BY <1>1, <1>3, <1>9, ConcatProperties
<1>13. /\ BytesHeld' = b + (y + i) /\ BlksHeld' = k + g /\ SubblksHeld' = u + t
       /\ ExtsHeld' = e + n /\ InlineHeld' = l + i
  <2>1. /\ BytesHeld' = b - BytesOf(old) + BytesOf(new) /\ BlksHeld' = k - BlksIn(old) + BlksIn(new)
        /\ SubblksHeld' = u - SubblksIn(old) + SubblksIn(new)
        /\ ExtsHeld' = e - ExtCntIn(old) + ExtCntIn(new)
        /\ InlineHeld' = l - InlineIn(old) + InlineIn(new)
    BY <1>1, <1>2, <1>3, <1>5, <1>6, HeldChanges
  <2>2. /\ BytesOf(old) = x + 0 /\ BytesOf(new) = x + y + i /\ BlksIn(old) = f /\ BlksIn(new) = f + g
        /\ SubblksIn(old) = s /\ SubblksIn(new) = s + t /\ ExtCntIn(old) = m
        /\ ExtCntIn(new) = m + n /\ InlineIn(old) = 0 /\ InlineIn(new) = i
    BY <1>1, <1>3, <1>5, <1>9, <1>11, <1>12 DEF BytesOf, BlksIn, SubblksIn, ExtCntIn, InlineIn, SegmSz
  <2> QED
    BY ONLY <1>4, <1>10, <1>7, <2>1, <2>2
<1>14. InProgress' = << >> /\ Idle'
  BY <1>2 DEF InProgress, Idle
<1>15. BlksForSub' = BlksForSub
  <2>1. \A r \in Slots : segms'[r] = IF r = slot THEN new ELSE segms[r]
    BY <1>2, <1>3
  <2>2. SubBlksOfSegm(new) = SubBlksOfSegm(segms[slot]) \cup SubBlksIn(InProgress)
    BY <1>1, <1>3, <1>5, SubBlksFacts DEF SubBlksOfSegm
  <2>3. UNION {SubBlksOfSegm(segms'[r]) : r \in Slots}
          = SubBlksIn(InProgress) \cup UNION {SubBlksOfSegm(segms[r]) : r \in Slots}
    BY <1>3, <2>1, <2>2
  <2> QED
    BY <1>2, <1>14, <2>3, BlksForSubAfter, SubBlksFacts DEF BlksForSub
<1> QED
  BY <1>6, <1>8, <1>9, <1>13, <1>14, <1>15 DEF StatsInv

\* The invariant of the counters holds at first, is kept by every step, and says
\* of the counters between calls what stats() reports.
LEMMA StatsInvInitially == Init => StatsInv
BY NoneCounts DEF Init

LEMMA StatsInvKept == IInv /\ StatsInv /\ [Next]_vars => StatsInv'
<1> SUFFICES ASSUME IInv, StatsInv, [Next]_vars PROVE StatsInv'
  OBVIOUS
<1>1. IInv'
  BY IInvKept
<1>2. CASE UNCHANGED vars
  <2>1. BlksForSub' = BlksForSub /\ segms' = segms /\ stats' = stats /\ call' = call
    BY <1>2 DEF vars, BlksForSub, InProgress, Idle
  <2> QED
    BY <2>1, SameCounts DEF StatsInv, Idle
<1>3. CASE UserCall
  <2>1. ASSUME NEW slot \in Slots, DeallocSegm(slot) PROVE StatsInv'
    BY <1>1, <2>1, DeallocSegmCounts
  <2>2. ASSUME NEW slot \in Slots, NEW sz \in Sizes, ReallocCutsInline(slot, sz) PROVE StatsInv'
    BY <1>1, <2>2, ReallocCutsInlineCounts
  <2>3. ASSUME NEW slot \in Slots, NEW sz \in Sizes, NEW req \in Reqs,
               CallAlloc(slot, sz, req) \/ ReallocExpands(slot, sz, req)
                 \/ ReallocShrinks(slot, sz, req)
        PROVE  StatsInv'
    BY <1>1, <2>3, CallAllocCounts, ReallocExpandsCounts, ReallocShrinksCounts
  <2>4. ASSUME ReleaseSpace \/ Reset \/ BlockOps \/ UnblockOps \/ Reopen PROVE StatsInv'
    BY <1>1, <2>4, ReleaseSpaceCounts, ResetCounts, BlockOpsCounts, ReopenCounts
  <2> QED
    BY <1>3, <2>1, <2>2, <2>3, <2>4 DEF UserCall
<1>4. CASE AllocStep
  BY <1>1, <1>4, BlkStepsCount, GrowthCounts, TakesSubblksCounts, ProvidesSubblksCounts,
     ReturnsCounts, ThrowsCounts DEF AllocStep
<1> QED
  BY <1>2, <1>3, <1>4 DEF Next

\* Between calls each counter of stats() is the sum over the live segments of what
\* it counts, the blocks for suballocation added, whatever calls were made,
\* returned or threw: nothing is counted twice, forgotten or left over.
THEOREM CountersAgree == Spec => []StatsAgree
<1>1. ASSUME IInv, StatsInv, Idle
      PROVE  /\ stats.by_user_sz = OfLive(SegmSz)
             /\ stats.blk_cnt = OfLive(LAMBDA s : FullBlkCnt(s.exts)) + Cardinality(AllSuballocBlks)
             /\ stats.blk_for_suballoc_cnt = Cardinality(AllSuballocBlks)
             /\ stats.subblk_cnt = OfLive(LAMBDA s : SubblkCntOf(s.exts))
             /\ stats.ext_cnt = OfLive(LAMBDA s : Len(s.exts))
             /\ stats.inlined_sz = OfLive(LAMBDA s : s.inline_sz)
  <2>1. AllSuballocBlks = BlksForSub
    <3>1. SubBlksIn(InProgress) = {} /\ \A b \in BlkNrs : InSubMap(maps.subfr_map, b) <=> b \in MapBlks(maps.subfr_map)
      BY <1>1, IdleFacts, SubBlksFacts DEF InSubMap, MapBlks
    <3> QED
      BY <1>1, <3>1, SuballocBlksFacts DEF AllSuballocBlks, BlksForSub, MapBlks
  <2>2. PICK b, k, n, u, e, l : /\ b = BytesHeld /\ k = BlksHeld /\ n = Cardinality(BlksForSub)
                                /\ u = SubblksHeld /\ e = ExtsHeld /\ l = InlineHeld
    OBVIOUS
  <2>3. stats = Counters(b, k, n, u, e, l)
    BY <1>1, <2>2 DEF StatsInv
  <2>4. /\ stats.by_user_sz = b /\ stats.blk_cnt = k + n /\ stats.blk_for_suballoc_cnt = n
        /\ stats.subblk_cnt = u /\ stats.ext_cnt = e /\ stats.inlined_sz = l
    BY ONLY <2>3 DEF Counters
  <2>5. /\ OfLive(SegmSz) = b /\ OfLive(LAMBDA s : FullBlkCnt(s.exts)) = k
        /\ OfLive(LAMBDA s : SubblkCntOf(s.exts)) = u /\ OfLive(LAMBDA s : Len(s.exts)) = e
        /\ OfLive(LAMBDA s : s.inline_sz) = l
    BY <1>1, <2>2, HeldByLive DEF IInv, Types
  <2> QED
    BY <2>1, <2>2, <2>4, <2>5
<1>2. IInv /\ StatsInv => StatsAgree
  BY <1>1 DEF StatsAgree
<1> QED
  BY <1>2, StatsInvInitially, StatsInvKept, SpaceIsShared, PTL DEF Spec
=============================================================================
